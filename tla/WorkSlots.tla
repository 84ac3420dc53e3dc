------------------------------ MODULE WorkSlots ------------------------------
(***************************************************************************)
(* The handoff of work from a stratum session to its hashing threads: the  *)
(* WorkSlot of src/src/mining/mod.rs, published to by the session task     *)
(* (republish and refill_slots of stratum.rs) and read by worker.rs, one   *)
(* thread per slot, while both run.                                        *)
(*                                                                         *)
(* publish() stores the work under the slot's mutex, clears needs_work and *)
(* then bumps the generation: three steps.  The thread loads the           *)
(* generation and only then locks the work: two steps.  A thread checks    *)
(* the generation once per batch of nonces; a batch is one step.           *)
(*                                                                         *)
(* The threads live as long as the model: stopping and resizing them is    *)
(* the subject of StratumSession.                                          *)
(***************************************************************************)
EXTENDS NoncePartition, FiniteSets

CONSTANTS
  Threads,     \* how many slots and threads the rig has
  Batch,       \* nonces between two looks at the generation
  E2Space,     \* extranonce2 values; 1 when the pool gives zero bytes
  NoWork,      \* an empty slot
  MaxJobs,     \* bound: jobs the pool sends
  MaxGen       \* bound: how often a slot is published to

ASSUME ThreadsAssumption == Threads \in Nat \ {0}
ASSUME BatchAssumption == Batch \in Nat \ {0}
ASSUME E2Assumption == E2Space \in Nat \ {0}
ASSUME BoundsAssumption == MaxJobs \in Nat /\ MaxGen \in Nat

Slot == 0..(Threads - 1)
NeverSeen == -1   \* u64::MAX, which no generation reaches

VARIABLES
  job,        \* the session's current job, 0 before the first notify
  draws,      \* extranonce2 values drawn so far
  pass,       \* the session's pass over its slots: what it does and where
  work,       \* work[i]: the unit in slot i
  needs,      \* needs[i]: needs_work of slot i
  gen,        \* gen[i]: the generation of slot i
  at,         \* at[i]: what thread i does next
  seen,       \* seen[i]: seen_generation of thread i
  current,    \* current[i]: the unit thread i hashes
  nonce,      \* nonce[i]: its next nonce
  scanned,    \* history: scanned[i], the (job, extranonce2, nonce) it hashed
  taken       \* history: how often thread i began the unit it has in hands

sessionVars == <<job, draws, pass>>
slotVars == <<work, needs, gen>>
threadVars == <<at, seen, current, nonce>>
vars == <<sessionVars, slotVars, threadVars, scanned, taken>>

Unit == [job: 1..MaxJobs, draw: Nat, from: 0..LastNonce, to: 0..LastNonce]

Idle == [kind |-> "idle", slot |-> 0, step |-> "look"]

TypeOK ==
  /\ job \in 0..MaxJobs
  /\ draws \in Nat
  /\ pass \in [kind: {"idle", "republish", "refill"}, slot: Slot,
               step: {"look", "flag", "bump"}]
  /\ work \in [Slot -> Unit \union {NoWork}]
  /\ needs \in [Slot -> BOOLEAN]
  /\ gen \in [Slot -> Nat]
  /\ at \in [Slot -> {"load", "take", "hash"}]
  /\ seen \in [Slot -> Nat \union {NeverSeen}]
  /\ current \in [Slot -> Unit \union {NoWork}]
  /\ nonce \in [Slot -> 0..LastNonce]
  /\ \A i \in Slot : scanned[i] \subseteq (1..MaxJobs) \X (0..(E2Space - 1)) \X (0..LastNonce)
  /\ taken \in [Slot -> Nat]

Init ==
  /\ job = 0
  /\ draws = 0
  /\ pass = Idle
  /\ work = [i \in Slot |-> NoWork]
  /\ needs = [i \in Slot |-> TRUE]
  /\ gen = [i \in Slot |-> 0]
  /\ at = [i \in Slot |-> "load"]
  /\ seen = [i \in Slot |-> NeverSeen]
  /\ current = [i \in Slot |-> NoWork]
  /\ nonce = [i \in Slot |-> 0]
  /\ scanned = [i \in Slot |-> {}]
  /\ taken = [i \in Slot |-> 0]

-----------------------------------------------------------------------------
(* The session task.                                                       *)

Begin(kind) ==
  /\ pass.kind = "idle"
  /\ \A i \in Slot : gen[i] < MaxGen
  /\ pass' = [kind |-> kind, slot |-> 0, step |-> "look"]

\* mining.notify: a new job, then republish().
Notify ==
  /\ job < MaxJobs
  /\ Begin("republish")
  /\ job' = job + 1
  /\ UNCHANGED <<draws, slotVars, threadVars, scanned, taken>>

\* mining.set_difficulty, and mining.set_extranonce likewise: republish() of the
\* job at hand, if there is one yet.
SetDifficulty ==
  /\ Begin("republish")
  /\ UNCHANGED <<job, draws, slotVars, threadVars, scanned, taken>>

\* The tick: refill_slots() looks at every slot in turn.
Tick ==
  /\ job # 0
  /\ \E i \in Slot : needs[i]
  /\ Begin("refill")
  /\ UNCHANGED <<job, draws, slotVars, threadVars, scanned, taken>>

\* Mutant of Advance: a pass ends after its first slot.
AdvanceNowhere == Idle

Advance ==
  IF pass.slot + 1 = Threads THEN Idle
  ELSE [pass EXCEPT !.slot = @ + 1, !.step = "look"]

\* refill_slots() leaves alone a slot that does not ask for work.
SkipSlot ==
  /\ pass.kind = "refill" /\ pass.step = "look" /\ ~ needs[pass.slot]
  /\ pass' = Advance
  /\ UNCHANGED <<job, draws, slotVars, threadVars, scanned, taken>>

\* build_work(): the next extranonce2 and the thread's share of the nonces, or
\* nothing without a job.
BuildWork(i) ==
  IF job = 0 THEN NoWork
  ELSE [job |-> job, draw |-> draws,
        from |-> NonceStart(i, Threads), to |-> NonceEnd(i, Threads)]

\* publish() or clear(), first step: the slot's work, under its mutex.
StoreWork ==
  /\ pass.kind # "idle" /\ pass.step = "look"
  /\ pass.kind = "refill" => needs[pass.slot]
  /\ work' = [work EXCEPT ![pass.slot] = BuildWork(pass.slot)]
  /\ draws' = IF job = 0 THEN draws ELSE draws + 1
  /\ pass' = [pass EXCEPT !.step = "flag"]
  /\ UNCHANGED <<job, needs, gen, threadVars, scanned, taken>>

\* Second step: publish() lowers needs_work, clear() raises it.
FlagWork ==
  /\ pass.step = "flag"
  /\ needs' = [needs EXCEPT ![pass.slot] = (job = 0)]
  /\ pass' = [pass EXCEPT !.step = "bump"]
  /\ UNCHANGED <<job, draws, work, gen, threadVars, scanned, taken>>

\* Mutant of BumpGeneration: a generation of one bit.
ToggleGeneration ==
  /\ pass.step = "bump"
  /\ gen' = [gen EXCEPT ![pass.slot] = 1 - @]
  /\ pass' = Advance
  /\ UNCHANGED <<job, draws, work, needs, threadVars, scanned, taken>>

\* Third step: only now is the thread told.
BumpGeneration ==
  /\ pass.step = "bump"
  /\ gen' = [gen EXCEPT ![pass.slot] = @ + 1]
  /\ pass' = Advance
  /\ UNCHANGED <<job, draws, work, needs, threadVars, scanned, taken>>

SessionStep == SkipSlot \/ StoreWork \/ FlagWork \/ BumpGeneration

-----------------------------------------------------------------------------
(* A hashing thread.                                                       *)

\* Mutant of LoadGeneration: the generation is compared and not remembered.
LoadForgetful(i) ==
  /\ at[i] = "load"
  /\ at' = [at EXCEPT ![i] = IF gen[i] # seen[i] THEN "take" ELSE "hash"]
  /\ UNCHANGED <<sessionVars, slotVars, seen, current, nonce, scanned, taken>>

\* The top of the loop: one load of the generation.
LoadGeneration(i) ==
  /\ at[i] = "load"
  /\ seen' = [seen EXCEPT ![i] = gen[i]]
  /\ at' = [at EXCEPT ![i] = IF gen[i] # seen[i] THEN "take" ELSE "hash"]
  /\ UNCHANGED <<sessionVars, slotVars, current, nonce, scanned, taken>>

\* The generation moved: copy the work under the mutex, start at its range.
TakeWork(i) ==
  /\ at[i] = "take"
  /\ current' = [current EXCEPT ![i] = work[i]]
  /\ nonce' = [nonce EXCEPT ![i] = IF work[i] = NoWork THEN @ ELSE work[i].from]
  /\ taken' = [taken EXCEPT ![i] = IF current[i] = work[i] THEN @ + 1 ELSE 1]
  /\ at' = [at EXCEPT ![i] = "hash"]
  /\ UNCHANGED <<sessionVars, slotVars, seen, scanned>>

Exhausted(i) == current[i] # NoWork => nonce[i] >= current[i].to

\* Mutant of AskForWork: the thread sleeps without asking.
AskSilently(i) ==
  /\ at[i] = "hash"
  /\ Exhausted(i)
  /\ at' = [at EXCEPT ![i] = "load"]
  /\ UNCHANGED <<sessionVars, slotVars, seen, current, nonce, scanned, taken>>

\* Nothing to hash: ask for work, sleep, look again.
AskForWork(i) ==
  /\ at[i] = "hash"
  /\ Exhausted(i)
  /\ needs' = [needs EXCEPT ![i] = TRUE]
  /\ at' = [at EXCEPT ![i] = "load"]
  /\ UNCHANGED <<sessionVars, work, gen, seen, current, nonce, scanned, taken>>

\* A batch, or what is left of the range.
Upto(i) ==
  IF nonce[i] + Batch > current[i].to THEN current[i].to ELSE nonce[i] + Batch

HashBatch(i) ==
  /\ at[i] = "hash"
  /\ ~ Exhausted(i)
  /\ nonce' = [nonce EXCEPT ![i] = Upto(i)]
  /\ scanned' = [scanned EXCEPT ![i] = @ \union
       {<<current[i].job, current[i].draw % E2Space, n>> : n \in nonce[i]..(Upto(i) - 1)}]
  /\ at' = [at EXCEPT ![i] = "load"]
  /\ UNCHANGED <<sessionVars, slotVars, seen, current, taken>>

ThreadStep(i) == LoadGeneration(i) \/ TakeWork(i) \/ AskForWork(i) \/ HashBatch(i)

Next ==
  \/ Notify \/ SetDifficulty \/ Tick
  \/ SkipSlot \/ StoreWork \/ FlagWork \/ BumpGeneration
  \/ \E i \in Slot :
       LoadGeneration(i) \/ TakeWork(i) \/ AskForWork(i) \/ HashBatch(i)

Spec == Init /\ [][Next]_vars

\* The ticker fires for ever, the session task and the threads are scheduled.
\* The pool owes nobody a job.
Fairness ==
  /\ WF_vars(Tick)
  /\ WF_vars(SessionStep)
  /\ \A i \in Slot : WF_vars(ThreadStep(i))

FairSpec == Spec /\ Fairness

-----------------------------------------------------------------------------
(* Properties.                                                             *)

\* The session is between storing a unit in slot i and bumping its generation.
Publishing(i) == pass.kind # "idle" /\ pass.slot = i /\ pass.step \in {"flag", "bump"}

\* The generation is a sound cache key: a thread that has seen the current
\* generation of its slot, past its copy of the work, hashes the unit in the
\* slot, unless that slot is being published to at this moment.  No thread is
\* left on a job that the session has replaced.
SeenIsCurrent ==
  \A i \in Slot :
    at[i] # "take" /\ seen[i] = gen[i] /\ ~ Publishing(i) => current[i] = work[i]

\* No two threads of a rig ever hash the same nonce of the same header, even
\* when the pool leaves no extranonce2 to tell their headers apart.
ThreadsApart ==
  \A i, j \in Slot : i # j => scanned[i] \intersect scanned[j] = {}

\* The repeated work is bounded.  A thread can copy a unit before it was told
\* of it: once on a generation loaded before earlier publishes, once on the one
\* just before this unit's, once on the unit's own.  Never a fourth time.
BegunThriceAtMost == \A i \in Slot : current[i] # NoWork => taken[i] <= 3

\* A new job reaches every thread.
NewJobIsHashed ==
  \A i \in Slot, j \in 1..MaxJobs :
    job = j ~> (current[i] # NoWork /\ current[i].job >= j) \/ job > j

\* A thread that runs out of nonces is given a new unit, as long as the bound
\* on publishing leaves one.
ExhaustedIsRefilled ==
  \A i \in Slot :
    Exhausted(i) /\ job # 0 ~> ~ Exhausted(i) \/ \E j \in Slot : gen[j] = MaxGen
=============================================================================
