--------------------------- MODULE WorkCoordinator ---------------------------
(***************************************************************************)
(* The work coordinator (src/src/mining/coordinator.rs) and the calls that *)
(* the stratum sessions of one process make to it: a session claims the    *)
(* search space named by the pool's subscribe reply, draws an extranonce2  *)
(* for every unit of work it builds, and releases the space when it is     *)
(* dropped.  Sessions run on different threads.                            *)
(*                                                                         *)
(* The map of spaces is behind a mutex, so the body of space() and the     *)
(* retain of release() are one step each.  release() decrements the holder *)
(* count before it takes the lock: those are two steps, and anything may   *)
(* happen between them.                                                    *)
(***************************************************************************)
EXTENDS Integers, FiniteSets

CONSTANTS
  Sessions,    \* stratum sessions, one per rig
  Keys,        \* (pool, extranonce1) pairs that pools hand out
  Space,       \* the SearchSpace objects; one nobody refers to is free again
  NoSpace,     \* no SearchSpace
  NoKey,       \* the empty extranonce1 of a session that is not subscribed
  Starts,      \* clock values a new counter may start at (microseconds, masked)
  E2Space,     \* how many extranonce2 values fit the size the pool asked for
  Reassigns,   \* whether pools send mining.set_extranonce
  MaxLeaked,   \* bound: claims one session may forget in a space
  MaxNumber    \* bound: the largest value of a counter

ASSUME SessionsAssumption == IsFiniteSet(Sessions)
ASSUME SpaceAssumption == NoSpace \notin Space
ASSUME KeysAssumption == NoKey \notin Keys
ASSUME E2SpaceAssumption == E2Space \in Nat \ {0}
ASSUME BoundsAssumption == MaxLeaked \in Nat /\ MaxNumber \in Nat
ASSUME StartsAssumption == Starts \subseteq 0..MaxNumber
ASSUME ReassignsAssumption == Reassigns \in BOOLEAN

VARIABLES
  spaces,     \* the map: key -> SearchSpace, NoSpace where there is no entry
  next,       \* next[p]: the counter of space p
  holders,    \* holders[p]: its holder count
  phase,      \* phase[s]: where session s is in its life
  held,       \* held[s]: the SearchSpace session s has in its hands
  claimed,    \* claimed[s]: the key it claimed that space under
  e1,         \* e1[s]: the extranonce1 it really builds coinbases with
  start,      \* history: what next[p] was at creation
  leaked,     \* history: claims on p whose session forgot them
  units       \* history: the work built by the sessions that are mining now

sessionVars == <<phase, held, claimed, e1>>
vars == <<spaces, next, holders, sessionVars, start, leaked, units>>

\* key: what its builder claimed; e1: what it built the coinbase with.
Unit == [by: Sessions, space: Space, n: Nat, key: Keys, e1: Keys,
         e2: 0..(E2Space - 1)]

TypeOK ==
  /\ spaces \in [Keys -> Space \union {NoSpace}]
  /\ next \in [Space -> 0..MaxNumber]
  /\ holders \in [Space -> Nat]
  /\ start \in [Space -> 0..MaxNumber]
  /\ leaked \in [Space -> Nat]
  /\ phase \in [Sessions -> {"idle", "mining", "releasing"}]
  /\ held \in [Sessions -> Space \union {NoSpace}]
  /\ claimed \in [Sessions -> Keys \union {NoKey}]
  /\ e1 \in [Sessions -> Keys \union {NoKey}]
  /\ units \subseteq Unit

Init ==
  /\ spaces = [k \in Keys |-> NoSpace]
  /\ next = [p \in Space |-> 0]
  /\ holders = [p \in Space |-> 0]
  /\ start = [p \in Space |-> 0]
  /\ leaked = [p \in Space |-> 0]
  /\ phase = [s \in Sessions |-> "idle"]
  /\ held = [s \in Sessions |-> NoSpace]
  /\ claimed = [s \in Sessions |-> NoKey]
  /\ e1 = [s \in Sessions |-> NoKey]
  /\ units = {}

-----------------------------------------------------------------------------
(* WorkCoordinator::space, called by the handler of the subscribe reply.   *)

\* A session that is answered twice overwrites the Arc it has: the old claim
\* is dropped without a release and its holder is never taken off.
Forgotten(s) == IF phase[s] = "mining" THEN {held[s]} ELSE {}

Adopt(s, k, p) ==
  /\ phase[s] # "releasing"
  /\ \A q \in Forgotten(s) : leaked[q] < MaxLeaked
  /\ phase' = [phase EXCEPT ![s] = "mining"]
  /\ held' = [held EXCEPT ![s] = p]
  /\ claimed' = [claimed EXCEPT ![s] = k]
  /\ e1' = [e1 EXCEPT ![s] = k]
  /\ UNCHANGED units

\* Mutant of JoinSpace: the found entry is returned without counting it.
JoinSpaceUncounted(s, k) ==
  /\ spaces[k] # NoSpace
  /\ Adopt(s, k, spaces[k])
  /\ leaked' = [q \in Space |-> IF q \in Forgotten(s) THEN leaked[q] + 1
                                                      ELSE leaked[q]]
  /\ UNCHANGED <<spaces, next, holders, start>>

JoinSpace(s, k) ==
  /\ spaces[k] # NoSpace
  /\ Adopt(s, k, spaces[k])
  /\ holders' = [holders EXCEPT ![spaces[k]] = @ + 1]
  /\ leaked' = [q \in Space |-> IF q \in Forgotten(s) THEN leaked[q] + 1
                                                      ELSE leaked[q]]
  /\ UNCHANGED <<spaces, next, start>>

\* A free object: neither the map nor a session refers to it.
Free(p) ==
  /\ \A k \in Keys : spaces[k] # p
  /\ \A s \in Sessions : held[s] # p

\* Mutant of OpenSpace: the map is not consulted, every claim opens a space.
OpenSpaceAlways(s, k, p) ==
  /\ Free(p)
  /\ Adopt(s, k, p)
  /\ spaces' = [spaces EXCEPT ![k] = p]
  /\ holders' = [holders EXCEPT ![p] = 1]
  /\ \E t \in Starts : /\ next' = [next EXCEPT ![p] = t]
                       /\ start' = [start EXCEPT ![p] = t]
  /\ leaked' = [leaked EXCEPT ![p] = 0]

OpenSpace(s, k, p) ==
  /\ spaces[k] = NoSpace
  /\ Free(p)
  /\ Adopt(s, k, p)
  /\ spaces' = [spaces EXCEPT ![k] = p]
  /\ holders' = [holders EXCEPT ![p] = 1]
  /\ \E t \in Starts : /\ next' = [next EXCEPT ![p] = t]
                       /\ start' = [start EXCEPT ![p] = t]
  /\ leaked' = [q \in Space |-> IF q = p THEN 0
                                ELSE IF q \in Forgotten(s) THEN leaked[q] + 1
                                ELSE leaked[q]]

-----------------------------------------------------------------------------
(* Work.                                                                   *)

\* Mutant of Encode: the leading bytes are kept instead of the trailing ones.
EncodeLeading(n) == (n \div E2Space) % E2Space

\* encode(): big-endian, truncated from the left to the pool's size.
Encode(n) == n % E2Space

\* next_extranonce2() as build_work uses it: one atomic fetch_add.
Draw(s) ==
  /\ phase[s] = "mining"
  /\ LET p == held[s]
         unit == [by |-> s, space |-> p, n |-> next[p], key |-> claimed[s],
                  e1 |-> e1[s], e2 |-> Encode(next[p])]
     IN /\ next[p] < MaxNumber
        /\ next' = [next EXCEPT ![p] = @ + 1]
        /\ units' = units \union {unit}
  /\ UNCHANGED <<spaces, holders, sessionVars, start, leaked>>

\* mining.set_extranonce: the session builds on the new extranonce1 at once
\* and goes on drawing from the space it claimed under the old one.
SetExtranonce(s, k) ==
  /\ Reassigns
  /\ phase[s] = "mining"
  /\ e1' = [e1 EXCEPT ![s] = k]
  /\ UNCHANGED <<spaces, next, holders, phase, held, claimed, start, leaked,
                 units>>

-----------------------------------------------------------------------------
(* Drop for SessionState: the workers are joined, then release(); the rig's *)
(* next connection begins with a new SessionState.                         *)

Decrement(s) ==
  /\ phase[s] = "mining"
  /\ holders' = [holders EXCEPT ![held[s]] = @ - 1]
  /\ phase' = [phase EXCEPT ![s] = "releasing"]
  /\ units' = {u \in units : u.by # s}
  /\ UNCHANGED <<spaces, next, held, claimed, e1, start, leaked>>

\* Mutants of Retained: one holder too many asked for; the retain left out.
RetainedIfShared(k) == spaces[k] # NoSpace /\ holders[spaces[k]] > 1
RetainedAlways(k) == spaces[k] # NoSpace

\* The retain keeps every space that has holders, whichever was released.
Retained(k) == spaces[k] # NoSpace /\ holders[spaces[k]] > 0

Retain(s) ==
  /\ phase[s] = "releasing"
  /\ spaces' = [k \in Keys |-> IF Retained(k) THEN spaces[k] ELSE NoSpace]
  /\ phase' = [phase EXCEPT ![s] = "idle"]
  /\ held' = [held EXCEPT ![s] = NoSpace]
  /\ claimed' = [claimed EXCEPT ![s] = NoKey]
  /\ e1' = [e1 EXCEPT ![s] = NoKey]
  /\ UNCHANGED <<next, holders, start, leaked, units>>

Next ==
  \/ \E s \in Sessions, k \in Keys : JoinSpace(s, k) \/ SetExtranonce(s, k)
  \/ \E s \in Sessions, k \in Keys, p \in Space : OpenSpace(s, k, p)
  \/ \E s \in Sessions : Draw(s) \/ Decrement(s) \/ Retain(s)

Spec == Init /\ [][Next]_vars

-----------------------------------------------------------------------------
(* Properties.                                                             *)

Mining(p) == {s \in Sessions : phase[s] = "mining" /\ held[s] = p}

\* The holder count of a space in the map is the number of sessions mining in
\* it plus the claims that were forgotten: the unlocked decrement of release()
\* and the increment of space() never lose one another.
HolderCount ==
  \A k \in Keys : spaces[k] # NoSpace =>
    holders[spaces[k]] = Cardinality(Mining(spaces[k])) + leaked[spaces[k]]

\* A session that mines holds the very space the map has under its key, so
\* whoever subscribes to the same extranonce1 next shares its counter.  The
\* retain of another session, run late, must not take that entry away.
HeldIsMapped ==
  \A s \in Sessions : phase[s] = "mining" => spaces[claimed[s]] = held[s]

\* A space without holders is in the map only while some session is about to
\* sweep it: the map does not grow with every extranonce1 ever seen.
NoDeadSpaceKept ==
  \A k \in Keys : spaces[k] # NoSpace /\ holders[spaces[k]] = 0 =>
    \E s \in Sessions : phase[s] = "releasing"

\* Work built on the extranonce1 that its builder claimed.
OnClaim == {u \in units : u.e1 = u.key}

\* Sessions that mine at the same time, each on the extranonce1 it claimed, never
\* build the same coinbase, short of the extranonce2 wrapping around: equal work
\* lies at least E2Space draws apart.
NoEarlyRepeat ==
  \A u, v \in OnClaim : u # v /\ u.e1 = v.e1 /\ u.e2 = v.e2 =>
    u.n - v.n >= E2Space \/ v.n - u.n >= E2Space

\* What the head comment of coordinator.rs says outright: two sessions of the
\* process never have the same (extranonce1, extranonce2) to search.
NoWorkShared ==
  \A u, v \in units : u.by # v.by => u.e1 # v.e1 \/ u.e2 # v.e2

\* What the allocator sees of the coordinator's state.
Members ==
  [k \in Keys |-> {s \in Sessions : phase[s] = "mining" /\ claimed[s] = k}]

Given ==
  [k \in Keys |-> IF spaces[k] = NoSpace THEN {}
                  ELSE start[spaces[k]] .. (next[spaces[k]] - 1)]

Allocator == INSTANCE WorkAllocator WITH
  Numbers <- 0..MaxNumber, members <- Members, given <- Given

\* The coordinator implements the allocator it promises to be: every step is a
\* step of the allocator or changes nothing there, so a number is never handed
\* out twice in a space in which somebody mines.
ImplementsAllocator == Allocator!Spec
=============================================================================
