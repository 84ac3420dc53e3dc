---------------------------- MODULE WorkAllocator ----------------------------
(***************************************************************************)
(* What the work coordinator of src/src/mining/coordinator.rs promises to  *)
(* the sessions that mine: for each search space (pool, extranonce1) there *)
(* is one allocator, and as long as anyone mines in that space it never    *)
(* hands the same number out twice, whoever asks.  Once nobody mines there *)
(* the allocator may forget what it has given.                             *)
(***************************************************************************)
CONSTANTS
  Numbers,    \* what can be handed out
  Sessions,   \* stratum sessions of the process
  Keys        \* the search spaces: (pool, extranonce1) pairs

VARIABLES
  members,    \* members[k]: the sessions mining in space k
  given       \* given[k]: the numbers handed out in space k, not forgotten

vars == <<members, given>>

TypeOK ==
  /\ members \in [Keys -> SUBSET Sessions]
  /\ given \in [Keys -> SUBSET Numbers]

Init ==
  /\ members = [k \in Keys |-> {}]
  /\ given = [k \in Keys |-> {}]

\* A session belongs to one space at most: joining k leaves every other.
Join(s, k) ==
  /\ members' = [j \in Keys |-> IF j = k THEN members[j] \union {s}
                                         ELSE members[j] \ {s}]
  /\ UNCHANGED given

\* The promise: a number that is still remembered is never handed out again.
Take(s, k) ==
  /\ s \in members[k]
  /\ \E n \in Numbers \ given[k] : given' = [given EXCEPT ![k] = @ \union {n}]
  /\ UNCHANGED members

Leave(s) ==
  /\ members' = [k \in Keys |-> members[k] \ {s}]
  /\ UNCHANGED given

\* Only spaces in which nobody mines are forgotten.
Forget(K) ==
  /\ \A k \in K : members[k] = {}
  /\ given' = [k \in Keys |-> IF k \in K THEN {} ELSE given[k]]
  /\ UNCHANGED members

Next ==
  \/ \E s \in Sessions, k \in Keys : Join(s, k) \/ Take(s, k)
  \/ \E s \in Sessions : Leave(s)
  \/ \E K \in SUBSET Keys : Forget(K)

Spec == Init /\ [][Next]_vars

=============================================================================
