---------------------------- MODULE MCDashboard ----------------------------
(* Small instances of Dashboard.                                           *)
EXTENDS Dashboard

Row(m, n) == [at |-> m, name |-> n]

\* A rig of one coin at the hub, one of two coins under the same name at a peer, and
\* an endpoint of the same name at either.
MCMachines == <<"hub", "peer">>
MCLabel == [hub |-> "here", peer |-> "there"]
MCRows == [rigs |-> <<Row("hub", "r"), Row("peer", "r"), Row("peer", "r/2")>>,
           endpoints |-> <<Row("hub", "e"), Row("peer", "e")>>,
           wallets |-> <<>>]
MCGroup == [n \in {"r", "r/2"} |-> "r"]
=============================================================================
