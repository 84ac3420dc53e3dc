------------------------ MODULE WorkCoordinator_proofs ------------------------
(***************************************************************************)
(* Proofs about the work coordinator, for any number of sessions, search   *)
(* spaces and SearchSpace objects.  HeldIsMapped is not inductive alone:   *)
(* what keeps a late retain from dropping an entry that a session mines in *)
(* is that its holder count is positive, which takes HolderCount; and      *)
(* HolderCount speaks of one key per space, which takes OneKeyPerSpace.    *)
(***************************************************************************)
EXTENDS WorkCoordinator, FiniteSetTheorems, TLAPS

MiningTyped ==
  \A s \in Sessions : phase[s] = "mining" =>
    claimed[s] \in Keys /\ e1[s] \in Keys /\ held[s] \in Space

OneKeyPerSpace ==
  \A j, k \in Keys : spaces[j] = spaces[k] /\ spaces[j] # NoSpace => j = k

Inv ==
  /\ TypeOK
  /\ MiningTyped
  /\ HeldIsMapped
  /\ OneKeyPerSpace
  /\ HolderCount

-----------------------------------------------------------------------------

\* The sessions mining in a space can be counted.
LEMMA MiningCounted ==
  ASSUME NEW p
  PROVE  IsFiniteSet(Mining(p)) /\ Cardinality(Mining(p)) \in Nat
<1>1. Mining(p) \in SUBSET Sessions
  BY DEF Mining
<1>2. IsFiniteSet(Mining(p))
  BY <1>1, SessionsAssumption, FS_Subset
<1> QED BY <1>2, FS_CardinalityType

\* encode() yields a value that fits the size the pool asked for.
LEMMA EncodeFits ==
  ASSUME NEW n \in Nat
  PROVE  Encode(n) \in 0..(E2Space - 1)
BY E2SpaceAssumption DEF Encode

\* A space that a session mines in has a holder: decrementing cannot wrap.
LEMMA HeldHasHolder ==
  ASSUME Inv, NEW s \in Sessions, phase[s] = "mining"
  PROVE  holders[held[s]] \in Nat /\ holders[held[s]] >= 1
<1> DEFINE p == held[s]
<1>1. claimed[s] \in Keys /\ p \in Space /\ spaces[claimed[s]] = p
  BY DEF Inv, MiningTyped, HeldIsMapped
<1>2. holders[p] = Cardinality(Mining(p)) + leaked[p]
  BY <1>1, SpaceAssumption DEF Inv, HolderCount
<1>3. leaked[p] \in Nat /\ holders[p] \in Nat
  BY <1>1 DEF Inv, TypeOK
<1>4. s \in Mining(p)
  BY DEF Mining
<1>5. Cardinality(Mining(p)) # 0
  BY <1>4, MiningCounted, FS_EmptySet
<1> QED BY <1>2, <1>3, <1>5, MiningCounted

\* What JoinSpace and OpenSpace do to a session.
LEMMA AdoptTypes ==
  ASSUME Inv, NEW s \in Sessions, NEW k \in Keys, NEW p \in Space, Adopt(s, k, p)
  PROVE  /\ phase' \in [Sessions -> {"idle", "mining", "releasing"}]
         /\ held' \in [Sessions -> Space \union {NoSpace}]
         /\ claimed' \in [Sessions -> Keys \union {NoKey}]
         /\ e1' \in [Sessions -> Keys \union {NoKey}]
         /\ units' = units
         /\ MiningTyped'
BY DEF Adopt, Inv, TypeOK, MiningTyped

\* Adopting p moves s out of the space it mined in and into p.
LEMMA AdoptMining ==
  ASSUME Inv, NEW s \in Sessions, NEW k \in Keys, NEW p \in Space,
         Adopt(s, k, p), NEW q \in Space
  PROVE  Mining(q)' = IF q = p THEN Mining(q) \union {s} ELSE Mining(q) \ {s}
BY DEF Adopt, Inv, TypeOK, Mining

\* Whether s mined in q before, in the words of Forgotten.
LEMMA ForgottenMining ==
  ASSUME NEW s \in Sessions, NEW q \in Space
  PROVE  q \in Forgotten(s) <=> s \in Mining(q)
BY DEF Forgotten, Mining

-----------------------------------------------------------------------------

LEMMA InitInv == Init => Inv
<1> SUFFICES ASSUME Init PROVE Inv
  OBVIOUS
<1>1. TypeOK
  BY BoundsAssumption DEF Init, TypeOK
<1>2. MiningTyped /\ HeldIsMapped
  BY DEF Init, MiningTyped, HeldIsMapped
<1>3. OneKeyPerSpace /\ HolderCount
  BY DEF Init, OneKeyPerSpace, HolderCount
<1> QED BY <1>1, <1>2, <1>3 DEF Inv

LEMMA JoinInv ==
  ASSUME Inv, NEW s \in Sessions, NEW k \in Keys, JoinSpace(s, k)
  PROVE  Inv'
<1> DEFINE p == spaces[k]
<1>1. p \in Space /\ Adopt(s, k, p) /\ spaces' = spaces /\ next' = next /\ start' = start
  BY DEF JoinSpace, Inv, TypeOK
<1>2. TypeOK'
  BY <1>1, AdoptTypes DEF JoinSpace, Inv, TypeOK
<1>3. MiningTyped'
  BY <1>1, AdoptTypes
<1>4. HeldIsMapped'
  BY <1>1 DEF Adopt, Inv, TypeOK, HeldIsMapped
<1>5. OneKeyPerSpace'
  BY <1>1 DEF Inv, OneKeyPerSpace
<1>6. ASSUME NEW j \in Keys, spaces[j] # NoSpace
      PROVE  holders'[spaces[j]] = Cardinality(Mining(spaces[j]))' + leaked'[spaces[j]]
  <2> DEFINE q == spaces[j]
  <2>1. q \in Space
    BY <1>6 DEF Inv, TypeOK
  <2>2. /\ holders[q] = Cardinality(Mining(q)) + leaked[q]
        /\ holders[q] \in Nat /\ leaked[q] \in Nat
    BY <1>6, <2>1 DEF Inv, HolderCount, TypeOK
  <2>3. /\ holders'[q] = IF q = p THEN holders[q] + 1 ELSE holders[q]
        /\ leaked'[q] = IF s \in Mining(q) THEN leaked[q] + 1 ELSE leaked[q]
    BY <1>1, <2>1, ForgottenMining DEF JoinSpace, Inv, TypeOK
  <2>4. Mining(q)' = IF q = p THEN Mining(q) \union {s} ELSE Mining(q) \ {s}
    BY <1>1, <2>1, AdoptMining
  <2>5. Cardinality(Mining(q))' =
          IF q = p THEN (IF s \in Mining(q) THEN Cardinality(Mining(q))
                                            ELSE Cardinality(Mining(q)) + 1)
                   ELSE (IF s \in Mining(q) THEN Cardinality(Mining(q)) - 1
                                            ELSE Cardinality(Mining(q)))
    BY <2>4, MiningCounted, FS_AddElement, FS_RemoveElement
  <2> QED BY <2>2, <2>3, <2>5, MiningCounted
<1>7. HolderCount'
  BY <1>1, <1>6 DEF HolderCount
<1> QED BY <1>2, <1>3, <1>4, <1>5, <1>7 DEF Inv

LEMMA OpenInv ==
  ASSUME Inv, NEW s \in Sessions, NEW k \in Keys, NEW p \in Space,
         OpenSpace(s, k, p)
  PROVE  Inv'
<1>1. /\ Adopt(s, k, p) /\ Free(p)
      /\ spaces[k] = NoSpace
      /\ spaces' = [spaces EXCEPT ![k] = p]
      /\ holders' = [holders EXCEPT ![p] = 1]
  BY DEF OpenSpace
<1>2. PICK t \in Starts : /\ next' = [next EXCEPT ![p] = t]
                          /\ start' = [start EXCEPT ![p] = t]
  BY DEF OpenSpace
<1>3. TypeOK'
  BY <1>1, <1>2, AdoptTypes, StartsAssumption DEF OpenSpace, Inv, TypeOK
<1>4. MiningTyped'
  BY <1>1, AdoptTypes
<1>5. HeldIsMapped'
  BY <1>1, SpaceAssumption DEF Adopt, Inv, TypeOK, MiningTyped, HeldIsMapped
<1>6. OneKeyPerSpace'
  BY <1>1 DEF Free, Inv, TypeOK, OneKeyPerSpace
<1>7. ASSUME NEW j \in Keys, NEW q, q = spaces'[j], q # NoSpace
      PROVE  holders'[q] = Cardinality(Mining(q))' + leaked'[q]
  <2>1. CASE j = k
    <3>1. q = p /\ holders'[p] = 1 /\ leaked'[p] = 0
      BY <1>1, <1>7, <2>1 DEF OpenSpace, Inv, TypeOK
    <3>2. Mining(p) = {}
      BY <1>1 DEF Free, Mining
    <3>3. Mining(p)' = {s}
      BY <1>1, <3>2, AdoptMining
    <3> QED BY <3>1, <3>3, FS_Singleton
  <2>2. CASE j # k
    <3>1. q \in Space /\ q = spaces[j] /\ q # p
      BY <1>1, <1>7, <2>2 DEF Free, Inv, TypeOK
    <3>2. /\ holders[q] = Cardinality(Mining(q)) + leaked[q]
          /\ holders[q] \in Nat /\ leaked[q] \in Nat
      BY <1>7, <3>1 DEF Inv, HolderCount, TypeOK
    <3>3. /\ holders'[q] = holders[q]
          /\ leaked'[q] = IF s \in Mining(q) THEN leaked[q] + 1 ELSE leaked[q]
      BY <1>1, <3>1, ForgottenMining DEF OpenSpace, Inv, TypeOK
    <3>4. Mining(q)' = Mining(q) \ {s}
      BY <1>1, <3>1, AdoptMining
    <3>5. Cardinality(Mining(q))' =
            IF s \in Mining(q) THEN Cardinality(Mining(q)) - 1
                               ELSE Cardinality(Mining(q))
      BY <3>4, MiningCounted, FS_RemoveElement
    <3> QED BY <3>1, <3>2, <3>3, <3>5, MiningCounted
  <2> QED BY <2>1, <2>2
<1>8. HolderCount'
  BY <1>7 DEF HolderCount
<1> QED BY <1>3, <1>4, <1>5, <1>6, <1>8 DEF Inv

LEMMA DrawInv ==
  ASSUME Inv, NEW s \in Sessions, Draw(s)
  PROVE  Inv'
<1> DEFINE p == held[s]
<1>1. /\ phase[s] = "mining" /\ p \in Space /\ e1[s] \in Keys
      /\ claimed[s] \in Keys /\ next[p] \in 0..MaxNumber
  BY DEF Draw, Inv, MiningTyped, TypeOK
<1>2. next[p] < MaxNumber /\ next' = [next EXCEPT ![p] = @ + 1]
  BY DEF Draw
<1>3. /\ UNCHANGED <<spaces, holders, phase, held, claimed, e1, start, leaked>>
      /\ units' = units \union {[by |-> s, space |-> p, n |-> next[p],
                                 key |-> claimed[s], e1 |-> e1[s], e2 |-> Encode(next[p])]}
  BY DEF Draw, sessionVars
<1>4. next' \in [Space -> 0..MaxNumber]
  BY <1>1, <1>2, BoundsAssumption DEF Inv, TypeOK
<1>5. units' \subseteq Unit
  BY <1>1, <1>3, EncodeFits DEF Inv, TypeOK, Unit
<1>6. TypeOK'
  BY <1>3, <1>4, <1>5 DEF Inv, TypeOK
<1>7. MiningTyped' /\ HeldIsMapped' /\ OneKeyPerSpace' /\ HolderCount'
  BY <1>3 DEF Inv, MiningTyped, HeldIsMapped, OneKeyPerSpace, HolderCount, Mining
<1> QED BY <1>6, <1>7 DEF Inv

LEMMA SetExtranonceInv ==
  ASSUME Inv, NEW s \in Sessions, NEW k \in Keys, SetExtranonce(s, k)
  PROVE  Inv'
<1>1. TypeOK'
  BY DEF SetExtranonce, Inv, TypeOK
<1>2. MiningTyped'
  BY DEF SetExtranonce, Inv, TypeOK, MiningTyped
<1>3. HeldIsMapped' /\ OneKeyPerSpace' /\ HolderCount'
  BY DEF SetExtranonce, Inv, HeldIsMapped, OneKeyPerSpace, HolderCount, Mining
<1> QED BY <1>1, <1>2, <1>3 DEF Inv

LEMMA DecrementInv ==
  ASSUME Inv, NEW s \in Sessions, Decrement(s)
  PROVE  Inv'
<1> DEFINE p == held[s]
<1>1. /\ phase[s] = "mining" /\ p \in Space
      /\ holders' = [holders EXCEPT ![p] = @ - 1]
      /\ phase' = [phase EXCEPT ![s] = "releasing"]
      /\ units' = {u \in units : u.by # s}
      /\ UNCHANGED <<spaces, next, held, claimed, e1, start, leaked>>
  BY DEF Decrement, Inv, MiningTyped
<1>2. holders[p] \in Nat /\ holders[p] >= 1
  BY <1>1, HeldHasHolder
<1>3. holders' \in [Space -> Nat]
  BY <1>1, <1>2 DEF Inv, TypeOK
<1>4. TypeOK'
  BY <1>1, <1>3 DEF Inv, TypeOK
<1>5. MiningTyped' /\ HeldIsMapped'
  BY <1>1 DEF Inv, TypeOK, MiningTyped, HeldIsMapped
<1>6. OneKeyPerSpace'
  BY <1>1 DEF Inv, OneKeyPerSpace
<1>7. ASSUME NEW j \in Keys, spaces[j] # NoSpace
      PROVE  holders'[spaces[j]] = Cardinality(Mining(spaces[j]))' + leaked[spaces[j]]
  <2> DEFINE q == spaces[j]
  <2>1. /\ q \in Space
        /\ holders[q] = Cardinality(Mining(q)) + leaked[q]
        /\ holders[q] \in Nat /\ leaked[q] \in Nat
    BY <1>7 DEF Inv, HolderCount, TypeOK
  <2>2. Mining(q)' = Mining(q) \ {s}
    BY <1>1 DEF Mining, Inv, TypeOK
  <2>3. s \in Mining(q) <=> q = p
    BY <1>1 DEF Mining
  <2>4. Cardinality(Mining(q))' = IF q = p THEN Cardinality(Mining(q)) - 1
                                           ELSE Cardinality(Mining(q))
    BY <2>2, <2>3, MiningCounted, FS_RemoveElement
  <2>5. holders'[q] = IF q = p THEN holders[q] - 1 ELSE holders[q]
    BY <1>1, <2>1 DEF Inv, TypeOK
  <2> QED BY <2>1, <2>4, <2>5, MiningCounted
<1>8. HolderCount'
  BY <1>1, <1>7 DEF HolderCount
<1> QED BY <1>4, <1>5, <1>6, <1>8 DEF Inv

LEMMA RetainInv ==
  ASSUME Inv, NEW s \in Sessions, Retain(s)
  PROVE  Inv'
<1>1. /\ spaces' = [k \in Keys |-> IF Retained(k) THEN spaces[k] ELSE NoSpace]
      /\ phase' = [phase EXCEPT ![s] = "idle"]
      /\ held' = [held EXCEPT ![s] = NoSpace]
      /\ claimed' = [claimed EXCEPT ![s] = NoKey]
      /\ e1' = [e1 EXCEPT ![s] = NoKey]
      /\ UNCHANGED <<next, holders, start, leaked, units>>
      /\ phase[s] = "releasing"
  BY DEF Retain
<1>2. TypeOK'
  BY <1>1 DEF Inv, TypeOK
<1>3. MiningTyped'
  BY <1>1 DEF Inv, TypeOK, MiningTyped
<1>4. ASSUME NEW r \in Sessions, phase'[r] = "mining"
      PROVE  spaces'[claimed'[r]] = held'[r]
  <2>1. /\ r # s /\ phase[r] = "mining"
        /\ claimed'[r] = claimed[r] /\ held'[r] = held[r]
    BY <1>1, <1>4 DEF Inv, TypeOK
  <2>2. /\ claimed[r] \in Keys /\ held[r] \in Space
        /\ spaces[claimed[r]] = held[r]
    BY <2>1 DEF Inv, MiningTyped, HeldIsMapped
  <2>3. Retained(claimed[r])
    BY <2>1, <2>2, HeldHasHolder, SpaceAssumption DEF Retained
  <2> QED BY <1>1, <2>1, <2>2, <2>3
<1>5. HeldIsMapped'
  BY <1>4 DEF HeldIsMapped
<1>6. OneKeyPerSpace'
  BY <1>1 DEF Inv, OneKeyPerSpace
<1>7. \A p : p # NoSpace => Mining(p)' = Mining(p)
  BY <1>1 DEF Mining, Inv, TypeOK
<1>8. HolderCount'
  BY <1>1, <1>7 DEF Inv, HolderCount
<1> QED BY <1>2, <1>3, <1>5, <1>6, <1>8 DEF Inv

LEMMA NextInv == Inv /\ [Next]_vars => Inv'
<1> SUFFICES ASSUME Inv, [Next]_vars PROVE Inv'
  OBVIOUS
<1>1. ASSUME NEW s \in Sessions, NEW k \in Keys, JoinSpace(s, k) PROVE Inv'
  BY <1>1, JoinInv
<1>2. ASSUME NEW s \in Sessions, NEW k \in Keys, SetExtranonce(s, k) PROVE Inv'
  BY <1>2, SetExtranonceInv
<1>3. ASSUME NEW s \in Sessions, NEW k \in Keys, NEW p \in Space,
             OpenSpace(s, k, p)
      PROVE  Inv'
  BY <1>3, OpenInv
<1>4. ASSUME NEW s \in Sessions, Draw(s) PROVE Inv'
  BY <1>4, DrawInv
<1>5. ASSUME NEW s \in Sessions, Decrement(s) PROVE Inv'
  BY <1>5, DecrementInv
<1>6. ASSUME NEW s \in Sessions, Retain(s) PROVE Inv'
  BY <1>6, RetainInv
<1>7. CASE UNCHANGED vars
  BY <1>7 DEF vars, sessionVars, Inv, TypeOK, MiningTyped, HeldIsMapped,
              OneKeyPerSpace, HolderCount, Mining
<1> QED BY <1>1, <1>2, <1>3, <1>4, <1>5, <1>6, <1>7 DEF Next

-----------------------------------------------------------------------------

\* The inductive invariant holds in every reachable state.
THEOREM Invariance == Spec => []Inv
<1>1. Init => Inv
  BY InitInv
<1>2. Inv /\ [Next]_vars => Inv'
  BY NextInv
<1> QED BY <1>1, <1>2, PTL DEF Spec

\* Every variable keeps its type; in particular the holder count of release()
\* never wraps below zero.
THEOREM TypeCorrect == Spec => []TypeOK
<1>1. Inv => TypeOK
  BY DEF Inv
<1> QED BY <1>1, Invariance, PTL

\* A session always mines in the space the map has under its key, however the
\* unlocked decrements and the retains of other sessions interleave.
THEOREM HeldSpaceIsMapped == Spec => []HeldIsMapped
<1>1. Inv => HeldIsMapped
  BY DEF Inv
<1> QED BY <1>1, Invariance, PTL

\* The holder count is exact for every space in the map.
THEOREM HoldersAreCounted == Spec => []HolderCount
<1>1. Inv => HolderCount
  BY DEF Inv
<1> QED BY <1>1, Invariance, PTL

-----------------------------------------------------------------------------
(* The map is swept.                                                       *)

LEMMA NextNoDeadSpace == Inv /\ NoDeadSpaceKept /\ [Next]_vars => NoDeadSpaceKept'
<1> SUFFICES ASSUME Inv, NoDeadSpaceKept, [Next]_vars PROVE NoDeadSpaceKept'
  OBVIOUS
<1>1. ASSUME NEW s \in Sessions, NEW k \in Keys, JoinSpace(s, k)
      PROVE  NoDeadSpaceKept'
  <2>1. /\ spaces' = spaces /\ phase[s] # "releasing"
        /\ phase' = [phase EXCEPT ![s] = "mining"]
        /\ holders' = [holders EXCEPT ![spaces[k]] = @ + 1]
    BY <1>1 DEF JoinSpace, Adopt
  <2> QED BY <2>1 DEF NoDeadSpaceKept, Inv, TypeOK
<1>2. ASSUME NEW s \in Sessions, NEW k \in Keys, NEW p \in Space,
             OpenSpace(s, k, p)
      PROVE  NoDeadSpaceKept'
  <2>1. /\ spaces' = [spaces EXCEPT ![k] = p] /\ phase[s] # "releasing"
        /\ phase' = [phase EXCEPT ![s] = "mining"]
        /\ holders' = [holders EXCEPT ![p] = 1]
    BY <1>2 DEF OpenSpace, Adopt
  <2> QED BY <2>1 DEF NoDeadSpaceKept, Inv, TypeOK
<1>3. ASSUME NEW s \in Sessions, Decrement(s)
      PROVE  NoDeadSpaceKept'
  <2>1. phase'[s] = "releasing"
    BY <1>3 DEF Decrement, Inv, TypeOK
  <2> QED BY <2>1 DEF NoDeadSpaceKept
<1>4. ASSUME NEW s \in Sessions, Retain(s)
      PROVE  NoDeadSpaceKept'
  <2>1. \A k \in Keys : spaces'[k] # NoSpace => holders'[spaces'[k]] > 0
    BY <1>4 DEF Retain, Retained
  <2> QED BY <2>1 DEF NoDeadSpaceKept
<1>5. ASSUME NEW s \in Sessions, NEW k \in Keys, SetExtranonce(s, k)
      PROVE  NoDeadSpaceKept'
  BY <1>5 DEF SetExtranonce, NoDeadSpaceKept
<1>6. ASSUME NEW s \in Sessions, Draw(s)
      PROVE  NoDeadSpaceKept'
  BY <1>6 DEF Draw, sessionVars, NoDeadSpaceKept
<1>7. CASE UNCHANGED vars
  BY <1>7 DEF vars, sessionVars, NoDeadSpaceKept
<1> QED BY <1>1, <1>2, <1>3, <1>4, <1>5, <1>6, <1>7 DEF Next

\* A space that nobody holds stays in the map only until the session that gave
\* it up has taken the lock: the map does not fill with dead spaces.
THEOREM DeadSpacesAreSwept == Spec => []NoDeadSpaceKept
<1>1. Init => NoDeadSpaceKept
  BY DEF Init, NoDeadSpaceKept
<1> QED BY <1>1, NextNoDeadSpace, Invariance, PTL DEF Spec

-----------------------------------------------------------------------------
(* The coordinator implements the allocator.                               *)

CountersRun == \A p \in Space : start[p] <= next[p]

LEMMA NextCountersRun == Inv /\ CountersRun /\ [Next]_vars => CountersRun'
<1> SUFFICES ASSUME Inv, CountersRun, [Next]_vars PROVE CountersRun'
  OBVIOUS
<1>1. ASSUME NEW s \in Sessions, NEW k \in Keys, NEW p \in Space,
             OpenSpace(s, k, p)
      PROVE  CountersRun'
  <2>1. PICK t \in Starts : /\ next' = [next EXCEPT ![p] = t]
                            /\ start' = [start EXCEPT ![p] = t]
    BY <1>1 DEF OpenSpace
  <2> QED BY <2>1, StartsAssumption DEF CountersRun, Inv, TypeOK
<1>2. ASSUME NEW s \in Sessions, Draw(s) PROVE CountersRun'
  BY <1>2 DEF Draw, CountersRun, Inv, TypeOK, MiningTyped
<1>3. ASSUME UNCHANGED <<next, start>> PROVE CountersRun'
  BY <1>3 DEF CountersRun
<1> QED BY <1>1, <1>2, <1>3 DEF Next, vars, JoinSpace, SetExtranonce, Decrement, Retain

LEMMA JoinIsJoin ==
  ASSUME Inv, NEW s \in Sessions, NEW k \in Keys, JoinSpace(s, k)
  PROVE  Allocator!Join(s, k)
<1>1. Members' = [j \in Keys |-> IF j = k THEN Members[j] \union {s}
                                          ELSE Members[j] \ {s}]
  BY DEF JoinSpace, Adopt, Members, Inv, TypeOK
<1>2. Given' = Given
  BY DEF JoinSpace, Given
<1> QED BY <1>1, <1>2 DEF Allocator!Join

LEMMA OpenIsJoin ==
  ASSUME Inv, NEW s \in Sessions, NEW k \in Keys, NEW p \in Space,
         OpenSpace(s, k, p)
  PROVE  Allocator!Join(s, k)
<1>1. Members' = [j \in Keys |-> IF j = k THEN Members[j] \union {s}
                                          ELSE Members[j] \ {s}]
  BY DEF OpenSpace, Adopt, Members, Inv, TypeOK
<1>2. PICK t \in Starts : /\ next' = [next EXCEPT ![p] = t]
                          /\ start' = [start EXCEPT ![p] = t]
  BY DEF OpenSpace
<1>3. spaces[k] = NoSpace /\ spaces' = [spaces EXCEPT ![k] = p] /\ Free(p)
  BY DEF OpenSpace
<1>4. ASSUME NEW j \in Keys PROVE Given'[j] = Given[j]
  <2>1. CASE j = k
    <3>1. spaces'[j] = p /\ start'[p] = t /\ next'[p] = t /\ t \in Nat
      BY <1>2, <1>3, <2>1, StartsAssumption, BoundsAssumption DEF Inv, TypeOK
    <3>2. t .. (t - 1) = {}
      BY <3>1
    <3> QED BY <1>3, <2>1, <3>1, <3>2, SpaceAssumption DEF Given
  <2>2. CASE j # k
    <3>1. spaces'[j] = spaces[j] /\ spaces[j] # p
      BY <1>3, <2>2 DEF Free, Inv, TypeOK
    <3>2. spaces[j] # NoSpace =>
            start'[spaces[j]] = start[spaces[j]] /\ next'[spaces[j]] = next[spaces[j]]
      BY <1>2, <3>1 DEF Inv, TypeOK
    <3> QED BY <3>1, <3>2 DEF Given
  <2> QED BY <2>1, <2>2
<1>5. Given' = Given
  BY <1>4 DEF Given
<1> QED BY <1>1, <1>5 DEF Allocator!Join

LEMMA DrawIsTake ==
  ASSUME Inv, CountersRun, NEW s \in Sessions, Draw(s)
  PROVE  \E k \in Keys : Allocator!Take(s, k)
<1> DEFINE k == claimed[s]
           p == held[s]
<1>1. /\ phase[s] = "mining" /\ k \in Keys /\ p \in Space
      /\ spaces[k] = p /\ p # NoSpace
  BY SpaceAssumption DEF Draw, Inv, MiningTyped, HeldIsMapped
<1>2. /\ next[p] \in 0..MaxNumber /\ next[p] < MaxNumber
      /\ start[p] \in 0..MaxNumber /\ start[p] <= next[p]
      /\ next' = [next EXCEPT ![p] = @ + 1]
      /\ UNCHANGED <<spaces, phase, claimed, start>>
  BY <1>1 DEF Draw, sessionVars, Inv, TypeOK, CountersRun
<1>3. s \in Members[k] /\ Members' = Members
  BY <1>1, <1>2 DEF Members
<1>4. ASSUME NEW j \in Keys
      PROVE  Given'[j] = [Given EXCEPT ![k] = @ \union {next[p]}][j]
  <2>1. CASE j = k
    <3>1. next'[p] = next[p] + 1
      BY <1>1, <1>2 DEF Inv, TypeOK
    <3>2. Given[k] = start[p] .. (next[p] - 1) /\ Given'[k] = start[p] .. next[p]
      BY <1>1, <1>2, <3>1 DEF Given
    <3>3. start[p] .. next[p] = (start[p] .. (next[p] - 1)) \union {next[p]}
      BY <1>2
    <3> QED BY <1>1, <2>1, <3>2, <3>3 DEF Given
  <2>2. CASE j # k
    <3>1. spaces[j] # p
      BY <1>1, <2>2 DEF Inv, OneKeyPerSpace
    <3>2. spaces[j] # NoSpace => next'[spaces[j]] = next[spaces[j]]
      BY <1>2, <3>1 DEF Inv, TypeOK
    <3> QED BY <1>2, <2>2, <3>2 DEF Given
  <2> QED BY <2>1, <2>2
<1>5. Given' = [Given EXCEPT ![k] = @ \union {next[p]}]
  BY <1>4 DEF Given
<1>6. next[p] \in (0..MaxNumber) \ Given[k]
  BY <1>1, <1>2 DEF Given
<1>7. Allocator!Take(s, k)
  BY <1>3, <1>5, <1>6 DEF Allocator!Take
<1> QED BY <1>1, <1>7

LEMMA DecrementIsLeave ==
  ASSUME Inv, NEW s \in Sessions, Decrement(s)
  PROVE  Allocator!Leave(s)
<1>1. Members' = [k \in Keys |-> Members[k] \ {s}]
  BY DEF Decrement, Members, Inv, TypeOK
<1>2. Given' = Given
  BY DEF Decrement, Given
<1> QED BY <1>1, <1>2 DEF Allocator!Leave

LEMMA RetainIsForget ==
  ASSUME Inv, NEW s \in Sessions, Retain(s)
  PROVE  \E K \in SUBSET Keys : Allocator!Forget(K)
<1> DEFINE K == {k \in Keys : ~ Retained(k)}
<1>1. ASSUME NEW k \in K PROVE Members[k] = {}
  <2>1. SUFFICES ASSUME NEW r \in Sessions, phase[r] = "mining", claimed[r] = k
                 PROVE  FALSE
    BY DEF Members
  <2>2. spaces[k] = held[r] /\ held[r] \in Space
    BY <2>1 DEF Inv, HeldIsMapped, MiningTyped
  <2> QED BY <2>1, <2>2, HeldHasHolder, SpaceAssumption DEF Retained
<1>2. Members' = Members
  BY DEF Retain, Members, Inv, TypeOK
<1>3. Given' = [k \in Keys |-> IF k \in K THEN {} ELSE Given[k]]
  BY DEF Retain, Given, Retained
<1>4. Allocator!Forget(K)
  BY <1>1, <1>2, <1>3 DEF Allocator!Forget
<1> QED BY <1>4

LEMMA StepRefines ==
  Inv /\ CountersRun /\ [Next]_vars => [Allocator!Next]_(Allocator!vars)
<1> SUFFICES ASSUME Inv, CountersRun, [Next]_vars
             PROVE  Allocator!Next \/ UNCHANGED Allocator!vars
  OBVIOUS
<1>1. ASSUME NEW s \in Sessions, NEW k \in Keys, JoinSpace(s, k)
      PROVE  Allocator!Next
  BY <1>1, JoinIsJoin DEF Allocator!Next
<1>2. ASSUME NEW s \in Sessions, NEW k \in Keys, NEW p \in Space,
             OpenSpace(s, k, p)
      PROVE  Allocator!Next
  BY <1>2, OpenIsJoin DEF Allocator!Next
<1>3. ASSUME NEW s \in Sessions, Draw(s) PROVE Allocator!Next
  BY <1>3, DrawIsTake DEF Allocator!Next
<1>4. ASSUME NEW s \in Sessions, Decrement(s) PROVE Allocator!Next
  BY <1>4, DecrementIsLeave DEF Allocator!Next
<1>5. ASSUME NEW s \in Sessions, Retain(s) PROVE Allocator!Next
  BY <1>5, RetainIsForget DEF Allocator!Next
<1>6. ASSUME NEW s \in Sessions, NEW k \in Keys, SetExtranonce(s, k)
      PROVE  UNCHANGED Allocator!vars
  BY <1>6 DEF SetExtranonce, Allocator!vars, Members, Given
<1>7. CASE UNCHANGED vars
  BY <1>7 DEF vars, sessionVars, Allocator!vars, Members, Given
<1> QED BY <1>1, <1>2, <1>3, <1>4, <1>5, <1>6, <1>7 DEF Next

\* The coordinator implements the allocator: whatever the interleaving of
\* claims, draws and the two halves of a release, a number is never handed out
\* twice in a space in which somebody mines.
THEOREM CoordinatorImplementsAllocator == Spec => ImplementsAllocator
<1>1. Init => CountersRun
  BY DEF Init, CountersRun
<1>2. Init => Allocator!Init
  BY DEF Init, Allocator!Init, Members, Given
<1> QED
  BY <1>1, <1>2, NextCountersRun, StepRefines, Invariance, PTL
     DEF Spec, ImplementsAllocator, Allocator!Spec

-----------------------------------------------------------------------------
(* No work on a claimed extranonce1 is built twice.                         *)

\* Where a unit came from: its builder mines, its space is in the map under
\* the key that was claimed, and it cannot leave the map, because its builder holds it
\* or forgot a claim on it.
UnitsRooted ==
  \A u \in units :
    /\ phase[u.by] = "mining"
    /\ spaces[u.key] = u.space
    /\ held[u.by] = u.space \/ leaked[u.space] >= 1

\* The numbers in a space were drawn from its counter, each of them once.
UnitsDrawn ==
  /\ \A u \in units : u.n < next[u.space] /\ u.e2 = Encode(u.n)
  /\ \A u, v \in units : u.space = v.space /\ u.n = v.n => u = v

UnitInv == UnitsRooted /\ UnitsDrawn

LEMMA UnitTypes ==
  ASSUME Inv, NEW u \in units
  PROVE  u.by \in Sessions /\ u.space \in Space /\ u.key \in Keys /\ u.n \in Nat
BY DEF Inv, TypeOK, Unit

LEMMA JoinUnits ==
  ASSUME Inv, UnitInv, NEW s \in Sessions, NEW k \in Keys, JoinSpace(s, k)
  PROVE  UnitInv'
<1> DEFINE p == spaces[k]
<1>1. /\ p \in Space /\ units' = units /\ spaces' = spaces /\ next' = next
      /\ phase' = [phase EXCEPT ![s] = "mining"]
      /\ held' = [held EXCEPT ![s] = p]
      /\ claimed' = [claimed EXCEPT ![s] = k] /\ e1' = [e1 EXCEPT ![s] = k]
      /\ leaked' = [q \in Space |-> IF q \in Forgotten(s) THEN leaked[q] + 1
                                                          ELSE leaked[q]]
  BY DEF JoinSpace, Adopt, Inv, TypeOK
<1>2. ASSUME NEW u \in units
      PROVE  /\ phase'[u.by] = "mining" /\ spaces'[u.key] = u.space
             /\ held'[u.by] = u.space \/ leaked'[u.space] >= 1
  <2>1. u.by \in Sessions /\ u.space \in Space /\ leaked[u.space] \in Nat
    BY UnitTypes DEF Inv, TypeOK
  <2>2. held[u.by] = u.space /\ u.by = s => u.space \in Forgotten(s)
    BY DEF UnitInv, UnitsRooted, Forgotten
  <2> QED BY <1>1, <2>1, <2>2 DEF UnitInv, UnitsRooted, Inv, TypeOK
<1>3. UnitsRooted'
  BY <1>1, <1>2 DEF UnitsRooted
<1>4. UnitsDrawn'
  BY <1>1 DEF UnitInv, UnitsDrawn, Encode, Inv, TypeOK
<1> QED BY <1>3, <1>4 DEF UnitInv

LEMMA OpenUnits ==
  ASSUME Inv, UnitInv, NEW s \in Sessions, NEW k \in Keys, NEW p \in Space,
         OpenSpace(s, k, p)
  PROVE  UnitInv'
<1>1. /\ units' = units /\ spaces' = [spaces EXCEPT ![k] = p] /\ Free(p)
      /\ phase' = [phase EXCEPT ![s] = "mining"]
      /\ held' = [held EXCEPT ![s] = p]
      /\ claimed' = [claimed EXCEPT ![s] = k] /\ e1' = [e1 EXCEPT ![s] = k]
      /\ spaces[k] = NoSpace
      /\ leaked' = [q \in Space |-> IF q = p THEN 0
                                    ELSE IF q \in Forgotten(s) THEN leaked[q] + 1
                                    ELSE leaked[q]]
      /\ \E t \in Starts : next' = [next EXCEPT ![p] = t]
  BY DEF OpenSpace, Adopt
<1>2. ASSUME NEW u \in units
      PROVE  /\ u.by \in Sessions /\ u.space \in Space /\ u.space # p
             /\ u.key # k /\ leaked[u.space] \in Nat /\ u.key \in Keys
  BY <1>1, UnitTypes, SpaceAssumption DEF UnitInv, UnitsRooted, Free, Inv, TypeOK
<1>3. ASSUME NEW u \in units
      PROVE  /\ phase'[u.by] = "mining" /\ spaces'[u.key] = u.space
             /\ held'[u.by] = u.space \/ leaked'[u.space] >= 1
             /\ next'[u.space] = next[u.space]
  <2>1. held[u.by] = u.space /\ u.by = s => u.space \in Forgotten(s)
    BY DEF UnitInv, UnitsRooted, Forgotten
  <2> QED BY <1>1, <1>2, <2>1 DEF UnitInv, UnitsRooted, Inv, TypeOK
<1>4. UnitsRooted'
  BY <1>1, <1>3 DEF UnitsRooted
<1>5. UnitsDrawn'
  BY <1>1, <1>3 DEF UnitInv, UnitsDrawn, Encode, Inv, TypeOK
<1> QED BY <1>4, <1>5 DEF UnitInv

LEMMA DrawUnits ==
  ASSUME Inv, UnitInv, NEW s \in Sessions, Draw(s)
  PROVE  UnitInv'
<1> DEFINE p == held[s]
           new == [by |-> s, space |-> p, n |-> next[p], key |-> claimed[s],
                   e1 |-> e1[s], e2 |-> Encode(next[p])]
<1>1. /\ phase[s] = "mining" /\ p \in Space /\ next[p] \in Nat
      /\ units' = units \union {new}
      /\ next' = [next EXCEPT ![p] = @ + 1]
      /\ UNCHANGED <<spaces, phase, held, claimed, e1, leaked>>
  BY DEF Draw, sessionVars, Inv, MiningTyped, TypeOK
<1>2. spaces[claimed[s]] = p
  BY <1>1 DEF Inv, HeldIsMapped
<1>3. UnitsRooted'
  BY <1>1, <1>2 DEF UnitInv, UnitsRooted
<1>4. ASSUME NEW u \in units
      PROVE  /\ u.n < next[u.space] /\ u.n \in Nat /\ u.n < next'[u.space]
             /\ u.e2 = Encode(u.n)
             /\ u.space = p => u.n # next[p]
  BY <1>1, UnitTypes DEF UnitInv, UnitsDrawn, Inv, TypeOK
<1>5. new.n < next'[new.space] /\ new.e2 = Encode(new.n)
  BY <1>1 DEF Inv, TypeOK
<1>6. ASSUME NEW u \in units'
      PROVE  u.n < next'[u.space] /\ u.e2 = Encode(u.n)
  <2>1. CASE u \in units
    BY <1>4, <2>1
  <2>2. CASE u = new
    BY <1>5, <2>2
  <2> QED BY <1>1, <2>1, <2>2
<1>7. \A u, v \in units' : u.space = v.space /\ u.n = v.n => u = v
  <2>1. \A u \in units : ~ (u.space = new.space /\ u.n = new.n)
    BY <1>1, <1>4, UnitTypes DEF UnitInv, UnitsDrawn, Inv, TypeOK
  <2> QED BY <1>1, <2>1, Zenon DEF UnitInv, UnitsDrawn
<1>8. UnitsDrawn'
  BY <1>6, <1>7 DEF UnitsDrawn, Encode
<1> QED BY <1>3, <1>8 DEF UnitInv

LEMMA DecrementUnits ==
  ASSUME Inv, UnitInv, NEW s \in Sessions, Decrement(s)
  PROVE  UnitInv'
<1>1. /\ units' = {u \in units : u.by # s}
      /\ phase' = [phase EXCEPT ![s] = "releasing"]
      /\ UNCHANGED <<spaces, next, held, claimed, e1, leaked>>
  BY DEF Decrement
<1>2. UnitsRooted'
  BY <1>1 DEF UnitInv, UnitsRooted, Inv, TypeOK
<1>3. UnitsDrawn'
  BY <1>1 DEF UnitInv, UnitsDrawn, Encode, Inv, TypeOK
<1> QED BY <1>2, <1>3 DEF UnitInv

LEMMA RetainUnits ==
  ASSUME Inv, UnitInv, NEW s \in Sessions, Retain(s)
  PROVE  UnitInv'
<1>1. /\ spaces' = [k \in Keys |-> IF Retained(k) THEN spaces[k] ELSE NoSpace]
      /\ phase[s] = "releasing"
      /\ phase' = [phase EXCEPT ![s] = "idle"]
      /\ held' = [held EXCEPT ![s] = NoSpace]
      /\ claimed' = [claimed EXCEPT ![s] = NoKey] /\ e1' = [e1 EXCEPT ![s] = NoKey]
      /\ UNCHANGED <<next, leaked, units>>
  BY DEF Retain
<1>2. ASSUME NEW u \in units
      PROVE  /\ phase'[u.by] = "mining" /\ spaces'[u.key] = u.space
             /\ held'[u.by] = held[u.by]
  <2>1. /\ u.by \in Sessions /\ u.space \in Space /\ u.key \in Keys
        /\ phase[u.by] = "mining" /\ u.by # s
        /\ spaces[u.key] = u.space /\ u.space # NoSpace
        /\ held[u.by] = u.space \/ leaked[u.space] >= 1
    BY <1>1, UnitTypes, SpaceAssumption DEF UnitInv, UnitsRooted
  <2>2. CASE held[u.by] = u.space
    BY <1>1, <2>1, <2>2, HeldHasHolder DEF Retained, Inv, TypeOK
  <2>3. CASE leaked[u.space] >= 1
    <3>1. /\ holders[u.space] = Cardinality(Mining(u.space)) + leaked[u.space]
          /\ leaked[u.space] \in Nat
      BY <2>1 DEF Inv, HolderCount, TypeOK
    <3>2. holders[u.space] > 0
      BY <2>3, <3>1, MiningCounted
    <3> QED BY <1>1, <2>1, <3>2 DEF Retained, Inv, TypeOK
  <2> QED BY <2>1, <2>2, <2>3
<1>3. UnitsRooted'
  BY <1>1, <1>2 DEF UnitInv, UnitsRooted
<1>4. UnitsDrawn'
  BY <1>1 DEF UnitInv, UnitsDrawn, Encode, Inv, TypeOK
<1> QED BY <1>3, <1>4 DEF UnitInv

LEMMA SetExtranonceUnits ==
  ASSUME Inv, UnitInv, NEW s \in Sessions, NEW k \in Keys, SetExtranonce(s, k)
  PROVE  UnitInv'
BY DEF SetExtranonce, UnitInv, UnitsRooted, UnitsDrawn, Encode

LEMMA NextUnits == Inv /\ UnitInv /\ [Next]_vars => UnitInv'
<1> SUFFICES ASSUME Inv, UnitInv, [Next]_vars PROVE UnitInv'
  OBVIOUS
<1>1. CASE UNCHANGED vars
  BY <1>1 DEF vars, sessionVars, UnitInv, UnitsRooted, UnitsDrawn, Encode
<1> QED
  BY <1>1, JoinUnits, OpenUnits, DrawUnits, DecrementUnits, RetainUnits,
     SetExtranonceUnits DEF Next

\* Numbers with the same remainder lie a multiple of the divisor apart.
LEMMA SameRemainder ==
  ASSUME NEW e \in Nat \ {0}, NEW m \in Nat, NEW n \in Nat,
         m # n, m % e = n % e
  PROVE  m - n >= e \/ n - m >= e
<1> DEFINE a == m \div e
           b == n \div e
<1>1. a \in Int /\ b \in Int /\ m = e * a + (m % e) /\ n = e * b + (n % e)
  OBVIOUS
<1>2. a # b
  BY <1>1
<1>3. CASE a > b
  <2>1. e * (a - b) >= e
    BY <1>1, <1>3
  <2>2. m - n = e * (a - b)
    BY <1>1
  <2> QED BY <2>1, <2>2
<1>4. CASE b > a
  <2>1. e * (b - a) >= e
    BY <1>1, <1>4
  <2>2. n - m = e * (b - a)
    BY <1>1
  <2> QED BY <2>1, <2>2
<1> QED BY <1>1, <1>2, <1>3, <1>4

LEMMA UnitsApart == Inv /\ UnitInv => NoEarlyRepeat
<1> SUFFICES ASSUME Inv, UnitInv, NEW u \in units, NEW v \in units,
                    u # v, u.key = v.key, u.e2 = v.e2
             PROVE  u.n - v.n >= E2Space \/ v.n - u.n >= E2Space
  BY DEF NoEarlyRepeat, OnClaim
<1>1. u.space = v.space /\ u.n % E2Space = v.n % E2Space
  BY DEF UnitInv, UnitsRooted, UnitsDrawn, Encode
<1>2. u.n # v.n
  BY <1>1 DEF UnitInv, UnitsDrawn
<1> QED BY <1>1, <1>2, UnitTypes, E2SpaceAssumption, SameRemainder

\* No two units of work being mined in the process on the extranonce1 that was
\* claimed are equal, unless a whole turn of the extranonce2 lies between them.
THEOREM WorkIsUnique == Spec => []NoEarlyRepeat
<1>1. Init => UnitInv
  BY DEF Init, UnitInv, UnitsRooted, UnitsDrawn
<1>2. Inv /\ UnitInv /\ [Next]_vars => UnitInv'
  BY NextUnits
<1> QED BY <1>1, <1>2, UnitsApart, Invariance, PTL DEF Spec

-----------------------------------------------------------------------------
(* Pools that do not reassign extranonces.                                  *)

\* Sessions build on what they claimed.
ClaimsKept ==
  /\ \A s \in Sessions : phase[s] = "mining" => e1[s] = claimed[s]
  /\ \A u \in units : u.e1 = u.key

LEMMA NextClaimsKept ==
  ASSUME ~ Reassigns
  PROVE  Inv /\ ClaimsKept /\ [Next]_vars => ClaimsKept'
<1> SUFFICES ASSUME Inv, ClaimsKept, [Next]_vars PROVE ClaimsKept'
  OBVIOUS
<1>1. ASSUME NEW s \in Sessions, NEW k \in Keys, NEW p, Adopt(s, k, p)
      PROVE  ClaimsKept'
  BY <1>1 DEF Adopt, ClaimsKept, Inv, TypeOK
<1>2. ASSUME NEW s \in Sessions, Draw(s)
      PROVE  ClaimsKept'
  BY <1>2 DEF Draw, sessionVars, ClaimsKept
<1>3. ASSUME NEW s \in Sessions, Decrement(s)
      PROVE  ClaimsKept'
  BY <1>3 DEF Decrement, ClaimsKept, Inv, TypeOK
<1>4. ASSUME NEW s \in Sessions, Retain(s)
      PROVE  ClaimsKept'
  BY <1>4 DEF Retain, ClaimsKept, Inv, TypeOK
<1>5. CASE UNCHANGED vars
  BY <1>5 DEF vars, sessionVars, ClaimsKept
<1> QED BY <1>1, <1>2, <1>3, <1>4, <1>5 DEF Next, JoinSpace, OpenSpace, SetExtranonce

\* Units are no older than the counter they were drawn from.
UnitsSince == \A u \in units : start[u.space] <= u.n

LEMMA NextUnitsSince ==
  Inv /\ UnitInv /\ CountersRun /\ UnitsSince /\ [Next]_vars => UnitsSince'
<1> SUFFICES ASSUME Inv, UnitInv, CountersRun, UnitsSince, [Next]_vars PROVE UnitsSince'
  OBVIOUS
<1>1. ASSUME UNCHANGED start, units' \subseteq units PROVE UnitsSince'
  BY <1>1 DEF UnitsSince
<1>2. ASSUME NEW s \in Sessions, NEW k \in Keys, NEW p \in Space, OpenSpace(s, k, p)
      PROVE  UnitsSince'
  <2>1. /\ Free(p) /\ units' = units
        /\ \E t \in Starts : start' = [start EXCEPT ![p] = t]
    BY <1>2 DEF OpenSpace, Adopt
  <2>2. ASSUME NEW u \in units PROVE u.space \in Space /\ u.space # p
    BY <2>1, UnitTypes, SpaceAssumption DEF UnitInv, UnitsRooted, Free
  <2>3. start \in [Space -> 0..MaxNumber]
    BY DEF Inv, TypeOK
  <2> QED BY <2>1, <2>2, <2>3 DEF UnitsSince
<1>3. ASSUME NEW s \in Sessions, Draw(s) PROVE UnitsSince'
  <2>1. held[s] \in Space
    BY <1>3 DEF Draw, Inv, MiningTyped
  <2>2. /\ start' = start
        /\ \A u \in units' : u \in units \/ (u.space = held[s] /\ u.n = next[held[s]])
    BY <1>3 DEF Draw
  <2> QED BY <2>1, <2>2 DEF UnitsSince, CountersRun
<1>4. ASSUME NEW s \in Sessions, Decrement(s) \/ Retain(s) PROVE UnitsSince'
  BY <1>1, <1>4 DEF Decrement, Retain
<1>5. ASSUME NEW s \in Sessions, NEW k \in Keys, JoinSpace(s, k) \/ SetExtranonce(s, k)
      PROVE  UnitsSince'
  BY <1>1, <1>5 DEF JoinSpace, Adopt, SetExtranonce
<1>6. CASE UNCHANGED vars
  BY <1>1, <1>6 DEF vars
<1> QED BY <1>2, <1>3, <1>4, <1>5, <1>6 DEF Next

\* No counter has given out more numbers, since its space was opened, than the
\* extranonce2 can tell apart.
WithinOneTurn == \A p \in Space : next[p] - start[p] <= E2Space

\* Without mining.set_extranonce, and until a counter has come round, what the head
\* comment of coordinator.rs says holds outright: no two sessions of the process have
\* the same work.  (Finding 1 is what becomes of it with reassignment.)
THEOREM UnreassignedWorkIsNotShared ==
  ASSUME ~ Reassigns
  PROVE  Spec => [](WithinOneTurn => NoWorkShared)
<1>1. Init => ClaimsKept /\ UnitInv /\ UnitsSince /\ CountersRun
  BY DEF Init, ClaimsKept, UnitInv, UnitsRooted, UnitsDrawn, UnitsSince, CountersRun
<1>2. Inv /\ UnitInv /\ ClaimsKept /\ UnitsSince => (WithinOneTurn => NoWorkShared)
  <2> SUFFICES ASSUME Inv, UnitInv, ClaimsKept, UnitsSince, WithinOneTurn,
                      NEW u \in units, NEW v \in units,
                      u.by # v.by, u.e1 = v.e1, u.e2 = v.e2
               PROVE  FALSE
    BY DEF NoWorkShared
  <2>1. u \in OnClaim /\ v \in OnClaim /\ u # v
    BY DEF ClaimsKept, OnClaim
  <2>2. u.n - v.n >= E2Space \/ v.n - u.n >= E2Space
    BY <2>1, UnitsApart DEF NoEarlyRepeat
  <2>3. u.key = v.key
    BY DEF ClaimsKept
  <2>4. PICK p \in Space : u.space = p /\ v.space = p
    BY <2>3, UnitTypes DEF UnitInv, UnitsRooted
  <2>5. start[p] \in Nat /\ next[p] \in Nat /\ next[p] - start[p] <= E2Space
    BY BoundsAssumption DEF Inv, TypeOK, WithinOneTurn
  <2>6. \A w \in {u, v} : w.n \in Nat /\ start[p] <= w.n /\ w.n < next[p]
    BY <2>4, UnitTypes DEF UnitInv, UnitsDrawn, UnitsSince
  <2> QED BY <2>2, <2>5, <2>6, E2SpaceAssumption
<1> QED BY <1>1, <1>2, NextClaimsKept, NextUnits, NextUnitsSince, NextCountersRun, Invariance,
     PTL DEF Spec
=============================================================================
