------------------------- MODULE MCEndpointMonitor -------------------------
(* Small instances of EndpointMonitor.                                     *)
EXTENDS EndpointMonitor

\* A pool, the same without checks, and a web page in its place.
MCEntries == {[url |-> "pool", enabled |-> TRUE], [url |-> "pool", enabled |-> FALSE],
              [url |-> "page", enabled |-> TRUE]}
=============================================================================
