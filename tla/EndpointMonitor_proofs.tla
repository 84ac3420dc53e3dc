------------------------ MODULE EndpointMonitor_proofs ------------------------
(***************************************************************************)
(* Proofs about EndpointMonitor, for any number of checks under way and    *)
(* any urls.                                                               *)
(*                                                                         *)
(* A new configuration is made ready in one step and put in place in       *)
(* another, while checks start and end.  EditApplies says that what was    *)
(* made ready is still what is wanted when it is put in place; Grows, that *)
(* nothing a check does takes away from a runtime somebody has.            *)
(***************************************************************************)
EXTENDS EndpointMonitor, TLAPS

\* What an edit has made ready: a runtime with the url that it configures, the present
\* one if that is the url already.
EditApplies ==
  IF edit.on
  THEN /\ edit.entry = None <=> edit.runtime = None
       /\ edit.runtime # None => rt[edit.runtime].entry.url = edit.entry.url
       /\ edit.entry # None /\ config # None /\ edit.entry.url = config.url =>
            edit.runtime = current
  ELSE edit = NoEdit

IInv == TypeOK /\ UrlIsApplied /\ EditApplies

\* A runtime keeps its entry and loses no check.
Grows(r) ==
  /\ rt'[r] \in Runtime
  /\ rt'[r].entry = rt[r].entry
  /\ rt'[r].checks >= rt[r].checks
  /\ rt'[r].failures >= rt[r].failures

\* So does every one that somebody has, before and after.
UsedGrow == \A r \in Runtimes : InUse(r) /\ InUse(r)' => Grows(r)

-----------------------------------------------------------------------------
(* What becomes of a runtime.                                              *)

LEMMA CurrentInUse ==
  ASSUME TypeOK, current # None
  PROVE  current \in Runtimes /\ InUse(current) /\ rt[current] \in Runtime
  BY DEF TypeOK, InUse

LEMMA UnchangedGrows ==
  ASSUME TypeOK, NEW r \in Runtimes, InUse(r), rt'[r] = rt[r]
  PROVE  Grows(r)
  BY DEF TypeOK, Grows, Runtime

\* schedule_next(), and the interval's passing.
LEMMA DueGrows ==
  ASSUME TypeOK, NEW r \in Runtimes, InUse(r), NEW due \in BOOLEAN,
         rt'[r] = [rt[r] EXCEPT !.due = due]
  PROVE  Grows(r)
  BY DEF TypeOK, Grows, Runtime

LEMMA Recorded ==
  ASSUME NEW old \in Runtime, NEW failures \in {old.failures, old.failures + 1},
         NEW new, new = [old EXCEPT !.checks = @ + 1, !.failures = failures, !.due = FALSE]
  PROVE  /\ new \in Runtime
         /\ new.entry = old.entry
         /\ new.checks >= old.checks /\ new.failures >= old.failures
<1>1. old.checks \in Nat /\ old.failures \in Nat
  BY DEF Runtime
<1>2. old.checks + 1 \in Nat /\ failures \in Nat /\ failures >= old.failures
  BY <1>1
<1> DEFINE checks == old.checks + 1
<1>3. checks \in Nat /\ checks >= old.checks
  BY <1>1
<1>4. new = [old EXCEPT !.checks = checks, !.failures = failures, !.due = FALSE]
  OBVIOUS
<1> HIDE DEF checks
<1> QED BY <1>2, <1>3, <1>4 DEF Runtime

\* record().
LEMMA RecordedGrows ==
  ASSUME TypeOK, NEW r \in Runtimes, InUse(r),
         NEW failures \in {rt[r].failures, rt[r].failures + 1},
         rt'[r] = [rt[r] EXCEPT !.checks = @ + 1, !.failures = failures, !.due = FALSE]
  PROVE  Grows(r)
<1>1. rt[r] \in Runtime
  BY DEF TypeOK
<1> QED BY <1>1, Recorded DEF Grows

\* A step that leaves the configuration and the edit as they are.
LEMMA ConfigUntouched ==
  ASSUME IInv, TypeOK', UsedGrow, UNCHANGED <<config, current, edit>>
  PROVE  IInv'
<1>1. UrlIsApplied'
  <2>1. CASE current = None
    BY <2>1 DEF IInv, UrlIsApplied
  <2>2. CASE current # None
    <3>1. InUse(current)' /\ InUse(current) /\ current \in Runtimes
      BY <2>2, CurrentInUse DEF IInv, InUse
    <3> QED BY <2>2, <3>1 DEF IInv, UrlIsApplied, UsedGrow, Grows
  <2> QED BY <2>1, <2>2
<1>2. EditApplies'
  <2>1. CASE ~ edit.on
    BY <2>1 DEF IInv, EditApplies
  <2>2. CASE edit.on /\ edit.runtime = None
    BY <2>2 DEF IInv, EditApplies
  <2>3. CASE edit.on /\ edit.runtime # None
    <3>1. InUse(edit.runtime)' /\ InUse(edit.runtime) /\ edit.runtime \in Runtimes
      BY <2>3 DEF IInv, TypeOK, InUse
    <3>2. rt'[edit.runtime].entry = rt[edit.runtime].entry
      BY <3>1 DEF UsedGrow, Grows
    <3> QED BY <2>3, <3>2 DEF IInv, EditApplies
  <2> QED BY <2>1, <2>2, <2>3
<1> QED BY <1>1, <1>2 DEF IInv

-----------------------------------------------------------------------------
(* Checks.                                                                 *)

\* A step of a check.
LEMMA ContinueKeeps ==
  ASSUME IInv, NEW t \in Threads, tasks[t].pc = "check",
         NEW task \in Task, task.pc # "free", task.of = tasks[t].of, Continue(t, task)
  PROVE  IInv' /\ UsedGrow
<1>1. \A u \in Threads : tasks'[u].of = tasks[u].of /\ (tasks'[u].pc = "free" <=> tasks[u].pc = "free")
  BY DEF IInv, TypeOK, Continue
<1>2. \A r \in Runtimes : InUse(r)' <=> InUse(r)
  BY <1>1 DEF InUse, Continue
<1>3. TypeOK'
  BY <1>1, <1>2 DEF IInv, TypeOK, Continue
<1>4. UsedGrow
  BY UnchangedGrows DEF IInv, UsedGrow, Continue
<1> QED BY <1>3, <1>4, ConfigUntouched DEF Continue

\* The end of a check, before it is recorded.
LEMMA ConcludedKeeps ==
  ASSUME IInv, NEW t \in Threads, tasks[t].pc = "check", NEW ok \in BOOLEAN, Concluded(t, ok)
  PROVE  IInv' /\ UsedGrow
<1> DEFINE task == [tasks[t] EXCEPT !.pc = "record", !.ok = ok, !.hs = NoHandshake]
<1>1. tasks[t] \in Task /\ NoHandshake \in Handshake
  BY DEF IInv, TypeOK, NoHandshake, Handshake
<1>2. task \in Task /\ task.pc = "record" /\ task.of = tasks[t].of
  BY <1>1 DEF Task
<1>3. Continue(t, task)
  BY DEF Concluded
<1> HIDE DEF task
<1> QED BY <1>2, <1>3, ContinueKeeps

\* Whatever the server or the pool says, or does not say.
CheckStep(t) == HttpAnswers(t) \/ Reply(t) \/ Closed(t) \/ Silent(t) \/ Deadline(t)

LEMMA CheckStepKeeps ==
  ASSUME IInv, NEW t \in Threads, CheckStep(t)
  PROVE  IInv' /\ UsedGrow
<1>1. tasks[t].pc = "check" /\ tasks[t] \in Task /\ tasks[t].hs \in Handshake
  BY DEF IInv, TypeOK, Task, CheckStep, HttpAnswers, Reply, Closed, Silent, Deadline, AtPool
<1>2. CASE HttpAnswers(t)
  BY <1>1, <1>2, ConcludedKeeps DEF HttpAnswers
<1>3. CASE Reply(t)
  <2>1. PICK hs \in {[tasks[t].hs EXCEPT !.got = @ \union {q}] : q \in Asked} \union {Failed} :
           \/ Continue(t, [tasks[t] EXCEPT !.hs = hs])
           \/ Settled(hs) /\ Concluded(t, Outcome(hs))
    BY <1>3 DEF Reply
  <2>2. hs \in Handshake
    <3>1. Asked \subseteq {"subscribe", "authorize"}
      BY DEF Asked
    <3>2. Failed \in Handshake
      BY DEF Failed, Handshake
    <3>3. \A q \in {"subscribe", "authorize"} :
            [tasks[t].hs EXCEPT !.got = @ \union {q}] \in Handshake
      BY <1>1 DEF Handshake
    <3> QED BY <2>1, <3>1, <3>2, <3>3
  <2>3. CASE Continue(t, [tasks[t] EXCEPT !.hs = hs])
    <3> DEFINE task == [tasks[t] EXCEPT !.hs = hs]
    <3>1. task \in Task /\ task.pc = "check" /\ task.of = tasks[t].of
      BY <1>1, <2>2 DEF Task
    <3>2. Continue(t, task)
      BY <2>3
    <3> HIDE DEF task
    <3> QED BY <1>1, <3>1, <3>2, ContinueKeeps
  <2>4. CASE Concluded(t, Outcome(hs))
    <3>1. Outcome(hs) \in BOOLEAN
      BY DEF Outcome
    <3> QED BY <2>4, <3>1, <1>1, ConcludedKeeps
  <2> QED BY <2>1, <2>3, <2>4
<1>4. CASE Closed(t)
  BY <1>1, <1>4, ConcludedKeeps DEF Closed
<1>5. CASE Silent(t)
  <2>1. (Settled(tasks[t].hs) /\ Outcome(tasks[t].hs)) \in BOOLEAN
    OBVIOUS
  <2> QED BY <2>1, <1>1, <1>5, ConcludedKeeps DEF Silent
<1>6. CASE Deadline(t)
  <2>1. Outcome(tasks[t].hs) \in BOOLEAN
    BY DEF Outcome
  <2> QED BY <2>1, <1>1, <1>6, ConcludedKeeps DEF Deadline
<1> QED BY <1>2, <1>3, <1>4, <1>5, <1>6 DEF CheckStep

\* Record(t): what the check found is counted, and the runtime goes if it was the last
\* to have it.
LEMMA RecordKeeps ==
  ASSUME IInv, NEW t \in Threads, Record(t)
  PROVE  IInv' /\ UsedGrow
<1> DEFINE r == tasks[t].of
           failures == IF tasks[t].ok THEN rt[r].failures ELSE rt[r].failures + 1
           new == [rt[r] EXCEPT !.checks = @ + 1, !.failures = failures, !.due = FALSE]
<1>1. r \in Runtimes /\ InUse(r) /\ rt[r] \in Runtime
  BY DEF Record, IInv, TypeOK, Task, InUse
<1>2. new \in Runtime
  BY <1>1, Recorded
<1>3. tasks' = [tasks EXCEPT ![t] = NoTask] /\ UNCHANGED <<config, current, edit, polled>>
  BY DEF Record
<1>4. rt' = [q \in Runtimes |-> IF InUse(q)' THEN IF q = r THEN new ELSE rt[q] ELSE None]
  BY DEF Record, Dropped, IInv, TypeOK
<1>5. \A q \in Runtimes : InUse(q)' => InUse(q)
  <2>1. \A u \in Threads : tasks'[u].of = IF u = t THEN None ELSE tasks[u].of
    BY <1>3 DEF NoTask, IInv, TypeOK
  <2> QED BY <1>3, <2>1, NoneAssumption DEF InUse
<1>6. TypeOK'
  <2>1. NoTask \in Task /\ NoTask.pc = "free" /\ NoTask.of = None
    BY DEF NoTask, Task, NoHandshake, Handshake
  <2> HIDE DEF new
  <2> QED BY <1>2, <1>3, <1>4, <1>5, <2>1 DEF IInv, TypeOK
<1>7. UsedGrow
  <2> SUFFICES ASSUME NEW q \in Runtimes, InUse(q), InUse(q)' PROVE Grows(q)
    BY DEF UsedGrow
  <2>1. CASE q = r
    BY <2>1, <1>1, <1>4, RecordedGrows DEF IInv
  <2>2. CASE q # r
    BY <2>2, <1>4, UnchangedGrows DEF IInv
  <2> QED BY <2>1, <2>2
<1> QED BY <1>3, <1>6, <1>7, ConfigUntouched

-----------------------------------------------------------------------------
(* Time and the daemon.                                                    *)

\* FallDue(r), the interval has passed.
LEMMA FallDueKeeps ==
  ASSUME IInv, NEW r \in Runtimes, FallDue(r)
  PROVE  IInv' /\ UsedGrow
<1>1. InUse(r) /\ rt[r] \in Runtime /\ rt' = [rt EXCEPT ![r].due = TRUE]
  BY DEF FallDue, IInv, TypeOK
<1>2. \A q \in Runtimes : InUse(q)' <=> InUse(q)
  BY DEF FallDue, InUse
<1>3. [rt[r] EXCEPT !.due = TRUE] \in Runtime
  BY <1>1 DEF Runtime
<1>4. TypeOK'
  BY <1>1, <1>2, <1>3 DEF FallDue, IInv, TypeOK
<1>5. UsedGrow
  <2> SUFFICES ASSUME NEW q \in Runtimes, InUse(q), InUse(q)' PROVE Grows(q)
    BY DEF UsedGrow
  <2>1. CASE q = r
    BY <2>1, <1>1, DueGrows DEF IInv, TypeOK
  <2>2. CASE q # r
    BY <2>2, <1>1, UnchangedGrows DEF IInv, TypeOK
  <2> QED BY <2>1, <2>2
<1> QED BY <1>4, <1>5, ConfigUntouched DEF FallDue

\* A check of a runtime that is in use begins.
LEMMA SpawnTyped ==
  ASSUME IInv, NEW r \in Runtimes, InUse(r), Spawn(r)
  PROVE  /\ tasks' \in [Threads -> Task]
         /\ \A t \in Threads : tasks'[t].pc = "free" <=> tasks'[t].of = None
         /\ \A t \in Threads : tasks'[t].of \in {tasks[t].of, r}
<1> DEFINE task == [NoTask EXCEPT !.pc = "check", !.of = r]
<1>1. task \in Task /\ task.pc = "check" /\ task.of = r
  BY DEF NoTask, Task, NoHandshake, Handshake
<1>2. PICK t \in Threads : tasks' = [tasks EXCEPT ![t] = task]
  BY DEF Spawn
<1> HIDE DEF task
<1> QED BY <1>1, <1>2, NoneAssumption DEF IInv, TypeOK

\* PollEndpoints, the present runtime is found due.
LEMMA PollEndpointsKeeps ==
  ASSUME IInv, PollEndpoints
  PROVE  IInv' /\ UsedGrow
<1>1. current \in Runtimes /\ InUse(current)
  BY CurrentInUse DEF PollEndpoints, IInv
<1>2. \A r \in Runtimes : InUse(r)' => InUse(r)
  BY <1>1 DEF PollEndpoints, InUse
<1>3. TypeOK'
  BY <1>1, <1>2 DEF PollEndpoints, IInv, TypeOK
<1>4. UsedGrow
  BY UnchangedGrows DEF PollEndpoints, IInv, UsedGrow
<1> QED BY <1>3, <1>4, ConfigUntouched DEF PollEndpoints

\* Claim, its next due time is moved and its check begins.
LEMMA ClaimKeeps ==
  ASSUME IInv, Claim
  PROVE  IInv' /\ UsedGrow
<1>1. polled \in Runtimes /\ InUse(polled)
  BY DEF Claim, IInv, TypeOK, InUse
<1>2. rt[polled] \in Runtime /\ rt' = [rt EXCEPT ![polled].due = FALSE]
  BY <1>1 DEF Claim, IInv, TypeOK
<1>3. [rt[polled] EXCEPT !.due = FALSE] \in Runtime
  BY <1>2 DEF Runtime
<1>4. /\ tasks' \in [Threads -> Task]
      /\ \A t \in Threads : tasks'[t].pc = "free" <=> tasks'[t].of = None
      /\ \A t \in Threads : tasks'[t].of \in {tasks[t].of, polled}
  BY <1>1, SpawnTyped DEF Claim
<1>5. \A r \in Runtimes : InUse(r)' => InUse(r)
  BY <1>1, <1>4, NoneAssumption DEF Claim, InUse
<1>6. TypeOK'
  <2>1. rt' \in [Runtimes -> Runtime \union {None}]
    BY <1>1, <1>2, <1>3 DEF IInv, TypeOK
  <2>2. \A r \in Runtimes : rt[r] \in Runtime => rt'[r] \in Runtime
    BY <1>1, <1>2, <1>3 DEF IInv, TypeOK
  <2>3. \A r \in Runtimes : InUse(r)' => rt'[r] \in Runtime
    BY <1>5, <2>2 DEF IInv, TypeOK
  <2> QED BY <1>4, <2>1, <2>3 DEF Claim, IInv, TypeOK
<1>7. UsedGrow
  <2> SUFFICES ASSUME NEW q \in Runtimes, InUse(q), InUse(q)' PROVE Grows(q)
    BY DEF UsedGrow
  <2>1. CASE q = polled
    BY <2>1, <1>2, DueGrows DEF IInv, TypeOK
  <2>2. CASE q # polled
    BY <2>2, <1>2, UnchangedGrows DEF IInv, TypeOK
  <2> QED BY <2>1, <2>2
<1> QED BY <1>6, <1>7, ConfigUntouched DEF Claim

\* CheckEndpointNow, a user asks for a check.
LEMMA CheckEndpointNowKeeps ==
  ASSUME IInv, CheckEndpointNow
  PROVE  IInv' /\ UsedGrow
<1>1. current \in Runtimes /\ InUse(current)
  BY CurrentInUse DEF CheckEndpointNow, IInv
<1>2. /\ tasks' \in [Threads -> Task]
      /\ \A t \in Threads : tasks'[t].pc = "free" <=> tasks'[t].of = None
      /\ \A t \in Threads : tasks'[t].of \in {tasks[t].of, current}
  BY <1>1, SpawnTyped DEF CheckEndpointNow
<1>3. \A r \in Runtimes : InUse(r)' => InUse(r)
  BY <1>1, <1>2 DEF CheckEndpointNow, InUse
<1>4. TypeOK'
  BY <1>2, <1>3 DEF CheckEndpointNow, IInv, TypeOK
<1>5. UsedGrow
  BY UnchangedGrows DEF CheckEndpointNow, IInv, UsedGrow
<1> QED BY <1>4, <1>5, ConfigUntouched DEF CheckEndpointNow

-----------------------------------------------------------------------------
(* A new configuration.                                                    *)

\* ApplyConfig(entry), the new list of endpoints is made ready.
LEMMA ApplyConfigKeeps ==
  ASSUME IInv, NEW entry \in Entries \union {None}, ApplyConfig(entry)
  PROVE  IInv' /\ UsedGrow /\ UNCHANGED <<config, current>>
<1>1. CASE entry = None
  <2>1. /\ edit' = [on |-> TRUE, entry |-> None, runtime |-> None]
        /\ UNCHANGED <<config, current, rt, polled, tasks>>
    BY <1>1 DEF ApplyConfig
  <2>2. edit'.on /\ edit'.entry = None /\ edit'.runtime = None
    BY <2>1
  <2>3. \A r \in Runtimes : InUse(r)' => InUse(r)
    BY <2>1, <2>2, NoneAssumption DEF InUse
  <2>4. TypeOK'
    BY <2>1, <2>3 DEF IInv, TypeOK
  <2>5. UrlIsApplied' /\ EditApplies'
    BY <2>1, <2>2 DEF IInv, UrlIsApplied, EditApplies
  <2>6. UsedGrow
    BY <2>1, UnchangedGrows DEF IInv, UsedGrow
  <2> QED BY <2>1, <2>4, <2>5, <2>6 DEF IInv
<1>2. CASE entry # None /\ Kept(entry)
  <2>1. /\ edit' = [on |-> TRUE, entry |-> entry, runtime |-> current]
        /\ UNCHANGED <<config, current, rt, polled, tasks>>
    BY <1>2 DEF ApplyConfig
  <2>2. edit'.on /\ edit'.entry = entry /\ edit'.runtime = current
    BY <2>1
  <2>3. current # None /\ rt[current].entry.url = entry.url
    BY <1>2 DEF Kept
  <2>4. \A r \in Runtimes : InUse(r)' => InUse(r)
    BY <2>1, <2>2 DEF InUse
  <2>5. TypeOK'
    BY <2>1, <2>4 DEF IInv, TypeOK
  <2>6. UrlIsApplied' /\ EditApplies'
    BY <1>2, <2>1, <2>2, <2>3 DEF IInv, UrlIsApplied, EditApplies
  <2>7. UsedGrow
    BY <2>1, UnchangedGrows DEF IInv, UsedGrow
  <2> QED BY <2>1, <2>5, <2>6, <2>7 DEF IInv
<1>3. CASE entry # None /\ ~ Kept(entry)
  <2>1. PICK r \in Runtimes :
          /\ ~ InUse(r)
          /\ edit' = [on |-> TRUE, entry |-> entry, runtime |-> r]
          /\ rt' = [rt EXCEPT ![r] = NewRuntime(entry)]
    BY <1>3 DEF ApplyConfig
  <2>2. UNCHANGED <<config, current, polled, tasks>> /\ entry \in Entries /\ r # None
    BY <1>3, NoneAssumption DEF ApplyConfig
  <2>3. edit'.on /\ edit'.entry = entry /\ edit'.runtime = r
    BY <2>1
  <2>4. NewRuntime(entry) \in Runtime /\ NewRuntime(entry).entry = entry
    BY <2>2 DEF NewRuntime, Runtime
  <2>5. \A q \in Runtimes : InUse(q)' => InUse(q) \/ q = r
    BY <2>2, <2>3 DEF InUse
  <2>6. \A q \in Runtimes : rt'[q] = IF q = r THEN NewRuntime(entry) ELSE rt[q]
    BY <2>1 DEF IInv, TypeOK
  <2>7. TypeOK'
    BY <2>1, <2>2, <2>4, <2>5, <2>6 DEF IInv, TypeOK
  <2>8. current # None => current \in Runtimes /\ current # r
    BY <2>1, CurrentInUse DEF IInv
  <2>9. UrlIsApplied'
    BY <2>2, <2>6, <2>8 DEF IInv, UrlIsApplied
  <2>10. config # None => entry.url # config.url
    BY <1>3 DEF IInv, UrlIsApplied, Kept
  <2>11. EditApplies'
    BY <1>3, <2>2, <2>3, <2>4, <2>6, <2>10 DEF EditApplies
  <2>12. UsedGrow
    BY <2>1, <2>6, UnchangedGrows DEF IInv, UsedGrow
  <2> QED BY <2>2, <2>7, <2>9, <2>11, <2>12 DEF IInv
<1> QED BY <1>1, <1>2, <1>3

\* Swap, it is put in place; the runtime it replaces goes unless a check still has it.
LEMMA SwapKeeps ==
  ASSUME IInv, Swap
  PROVE  /\ IInv'
         /\ UsedGrow
         /\ current' # current => config = None \/ config' = None \/ config.url # config'.url
<1>1. /\ edit.on /\ current' = edit.runtime /\ config' = edit.entry /\ edit' = NoEdit
      /\ UNCHANGED <<polled, tasks>> /\ rt' = Dropped(rt)
  BY DEF Swap
<1>2. edit.runtime \in Runtimes \union {None} /\ edit.entry \in Entries \union {None}
  BY DEF IInv, TypeOK
<1>3. NoEdit.runtime = None /\ ~ NoEdit.on /\ NoEdit.entry = None
  BY DEF NoEdit
<1>4. \A r \in Runtimes : InUse(r)' => InUse(r)
  BY <1>1, <1>3, NoneAssumption DEF InUse
<1>5. \A r \in Runtimes : rt'[r] = IF InUse(r)' THEN rt[r] ELSE None
  BY <1>1 DEF Dropped
<1>6. rt' \in [Runtimes -> Runtime \union {None}]
  BY <1>1 DEF Dropped, IInv, TypeOK
<1>7. TypeOK'
  <2>1. NoEdit \in [on: BOOLEAN, entry: Entries \union {None}, runtime: Runtimes \union {None}]
    BY DEF NoEdit
  <2> QED BY <1>1, <1>2, <1>4, <1>5, <1>6, <2>1 DEF IInv, TypeOK
<1>8. EditApplies'
  BY <1>1, <1>3 DEF EditApplies
<1>9. UrlIsApplied'
  <2>1. CASE edit.runtime = None
    BY <2>1, <1>1 DEF IInv, EditApplies, UrlIsApplied
  <2>2. CASE edit.runtime # None
    <3>1. PICK r \in Runtimes : r = edit.runtime
      BY <2>2, <1>2
    <3>2. rt'[edit.runtime] = rt[edit.runtime]
      <4>1. InUse(r)'
        BY <3>1, <1>1 DEF InUse
      <4> QED BY <3>1, <4>1, <1>5
    <3>3. edit.entry # None /\ rt[edit.runtime].entry.url = edit.entry.url
      BY <2>2, <1>1 DEF IInv, EditApplies
    <3> QED BY <2>2, <3>2, <3>3, <1>1 DEF UrlIsApplied
  <2> QED BY <2>1, <2>2
<1>10. UsedGrow
  BY <1>5, UnchangedGrows DEF IInv, UsedGrow
<1>11. current' # current => config = None \/ config' = None \/ config.url # config'.url
  BY <1>1 DEF IInv, EditApplies
<1> QED BY <1>7, <1>8, <1>9, <1>10, <1>11 DEF IInv

-----------------------------------------------------------------------------
(* The theorems.                                                           *)

LEMMA InitIInv == Init => IInv
<1> SUFFICES ASSUME Init PROVE IInv
  OBVIOUS
<1>1. NoTask \in Task /\ NoTask.pc = "free" /\ NoTask.of = None
  BY DEF NoTask, Task, NoHandshake, Handshake
<1>2. /\ NoEdit \in [on: BOOLEAN, entry: Entries \union {None}, runtime: Runtimes \union {None}]
      /\ NoEdit.runtime = None /\ ~ NoEdit.on
  BY DEF NoEdit
<1>3. \A r \in Runtimes : ~ InUse(r)
  BY <1>1, <1>2, NoneAssumption DEF Init, InUse
<1>4. TypeOK
  BY <1>1, <1>2, <1>3 DEF Init, TypeOK
<1> QED BY <1>2, <1>4 DEF Init, IInv, UrlIsApplied, EditApplies

\* What a step may do to the endpoint in the list and to its history.
Survives ==
  /\ current' # current => config = None \/ config' = None \/ config.url # config'.url
  /\ UsedGrow

LEMMA NextIInv == IInv /\ [Next]_vars => IInv' /\ Survives
<1> SUFFICES ASSUME IInv, [Next]_vars PROVE IInv' /\ Survives
  OBVIOUS
<1>1. ASSUME NEW entry \in Entries \union {None}, ApplyConfig(entry) PROVE IInv' /\ Survives
  BY <1>1, ApplyConfigKeeps DEF Survives
<1>2. CASE Swap
  BY <1>2, SwapKeeps DEF Survives
<1>3. ASSUME NEW r \in Runtimes, FallDue(r) PROVE IInv' /\ Survives
  BY <1>3, FallDueKeeps DEF Survives, FallDue
<1>4. CASE PollEndpoints
  BY <1>4, PollEndpointsKeeps DEF Survives, PollEndpoints
<1>5. CASE Claim
  BY <1>5, ClaimKeeps DEF Survives, Claim
<1>6. CASE CheckEndpointNow
  BY <1>6, CheckEndpointNowKeeps DEF Survives, CheckEndpointNow
<1>7. ASSUME NEW t \in Threads, CheckStep(t) PROVE IInv' /\ Survives
  <2>1. UNCHANGED current
    BY <1>7 DEF CheckStep, HttpAnswers, Reply, Closed, Silent, Deadline, Concluded, Continue
  <2> QED BY <1>7, <2>1, CheckStepKeeps DEF Survives
<1>8. ASSUME NEW t \in Threads, Record(t) PROVE IInv' /\ Survives
  BY <1>8, RecordKeeps DEF Survives, Record
<1>9. CASE UNCHANGED vars
  <2>1. \A r \in Runtimes : InUse(r)' <=> InUse(r)
    BY <1>9 DEF vars, InUse
  <2>2. UsedGrow
    BY <1>9, UnchangedGrows DEF vars, IInv, UsedGrow
  <2>3. TypeOK'
    BY <1>9, <2>1 DEF vars, IInv, TypeOK
  <2> QED BY <1>9, <2>2, <2>3, ConfigUntouched DEF vars, Survives
<1> QED BY <1>1, <1>2, <1>3, <1>4, <1>5, <1>6, <1>7, <1>8, <1>9 DEF Next, CheckStep

LEMMA AlwaysIInv == Spec => []IInv
  BY InitIInv, NextIInv, PTL DEF Spec

\* The monitor's state is well formed, and what the daemon, an edit or a check has of an
\* endpoint is there (the Arcs of poll_endpoints and check_endpoint_now).
THEOREM TypeCorrect == Spec => []TypeOK
  BY AlwaysIInv, PTL DEF IInv

\* The url that is checked is the configured one (apply_config, src/src/daemon.rs), for
\* any number of checks under way while the configuration is replaced.
THEOREM ConfiguredUrlIsChecked == Spec => []UrlIsApplied
  BY AlwaysIInv, PTL DEF IInv

\* An endpoint's history is kept as long as it is configured with the same url, and no
\* check that was recorded is ever taken back (apply_config and record).
THEOREM HistoryIsKept == Spec => HistorySurvives
<1> DEFINE A == /\ current' # current =>
                     config = None \/ config' = None \/ config.url # config'.url
                /\ current # None /\ current' = current =>
                     /\ rt'[current].checks >= rt[current].checks
                     /\ rt'[current].failures >= rt[current].failures
<1>1. ASSUME IInv, Survives PROVE A
  <2>1. current # None => current \in Runtimes /\ InUse(current)
    BY <1>1, CurrentInUse DEF IInv
  <2>2. current' = current => (current # None => InUse(current)')
    BY DEF InUse
  <2> QED BY <1>1, <2>1, <2>2 DEF Survives, UsedGrow, Grows
<1>2. IInv /\ [Next]_vars => [A]_vars
  BY <1>1, NextIInv
<1>3. HistorySurvives <=> [][A]_vars
  BY DEF HistorySurvives
<1> HIDE DEF A
<1> QED BY <1>2, <1>3, AlwaysIInv, PTL DEF Spec

=============================================================================
