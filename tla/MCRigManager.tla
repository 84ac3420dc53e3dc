---------------------------- MODULE MCRigManager ----------------------------
\* Instances of RigManager for TLC.
EXTENDS RigManager

CONSTANTS a, b

UnequalWeights == [r \in Rigs |-> IF r = a THEN 1 ELSE 2]
NoneFixed == [r \in Rigs |-> 0]
OneRigAtMost == {Empty} \union {[Empty EXCEPT ![r] = {Primary}] : r \in Rigs}
=============================================================================
