---------------------------- MODULE MCConfigStore ----------------------------
EXTENDS ConfigStore

CONSTANTS main, pool, page, peer, r1, BTC, LTC

\* A rig with two [[rig.target]] entries and no url, one whose algorithm is misspelt and
\* whose wallet is not there, and one that does not load.
TargetOf(coin, known) ==
  [coin |-> coin, own |-> FALSE, user |-> TRUE, wallet |-> None, known |-> known]
RigOf(targets, wallet, known) ==
  [targets |-> targets, wallet |-> wallet, known |-> known, enabled |-> TRUE, pinned |-> FALSE]
ConfigOf(r) == [items |-> {}, rigs |-> [n \in Rigs |-> r], remote |-> FALSE]

Hand ==
  {ConfigOf(RigOf({TargetOf(BTC, TRUE)}, None, TRUE)),
   ConfigOf(RigOf({TargetOf(BTC, FALSE)}, None, FALSE))}
=============================================================================
