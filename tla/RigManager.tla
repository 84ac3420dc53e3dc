------------------------------ MODULE RigManager ------------------------------
(***************************************************************************)
(* The daemon's rigs and the configuration they come from (src/src/        *)
(* daemon.rs; the commands of src/src/cli.rs that edit the file): start,   *)
(* stop, edits from clients, edits from the command line, the delayed      *)
(* restart after a coin was added, and the pruning by the sampler.         *)
(*                                                                         *)
(* An operation is a sequence of steps, and a step is what the code does   *)
(* under one lock, or in one access to the file.  The steps of different   *)
(* operations interleave freely: requests and commands, one at a time in   *)
(* each of the Handlers (one handler is a user who waits for each answer), *)
(* delayed starts in the Timers, and the sampler, which is always there.   *)
(*                                                                         *)
(* A rig that mines one coin has one session, named after the rig; a rig   *)
(* with several has one per coin.  Their tasks behave as RigTask says.     *)
(***************************************************************************)
EXTENDS Integers, Sequences, FiniteSets, ThreadAllocation

CONSTANTS
  Rigs,         \* the names of rigs
  Coins,        \* what they mine
  Primary,      \* the coin a rig is added with; it cannot be taken off
  Sole,         \* the place of the coin in the id of a rig's only session
  Handlers,     \* where requests are handled, and the commands run
  Timers,       \* where delayed starts wait and run; bound: how many at once
  Sampler,      \* the task that samples
  Budget,       \* thread_budget()
  Weight,       \* the weight of each rig
  Fixed,        \* its fixed thread count, or 0
  Early,        \* bound: the configurations the daemon comes up with
  Grows,        \* bound: the rigs whose coins are edited
  AnyTime,      \* bound: a sample begins while something else is under way, too
  MaxRequests   \* bound: requests and commands

ASSUME FiniteAssumption == IsFiniteSet(Rigs) /\ IsFiniteSet(Coins)
ASSUME CoinsAssumption == Primary \in Coins /\ Sole \notin Coins
ASSUME PlanAssumption ==
  /\ Budget \in Nat \ {0}
  /\ Weight \in [Rigs -> Nat] /\ Fixed \in [Rigs -> Nat]
ASSUME SlotsAssumption == Handlers \intersect Timers = {} /\ Sampler \notin Handlers \union Timers
ASSUME BoundAssumption ==
  /\ Early \subseteq [Rigs -> SUBSET Coins] /\ Grows \subseteq Rigs
  /\ AnyTime \in BOOLEAN /\ MaxRequests \in Nat

Slots == Handlers \union Timers \union {Sampler}

VARIABLES
  config,    \* the daemon's copy: the coins of each rig, none if it has no rig
  file,      \* the same, as the file has it
  rigs,      \* id -> session, 0 if there is none
  order,     \* ids shown although they are not in the configuration
  sessions,  \* every RigRuntime ever made, with the state of its task
  tasks,     \* slot -> what it is doing
  requests,  \* bound: how many there were
  overtaken, \* history: the sessions that somebody missed who had looked too early
  newest,    \* history: the slot whose rebalancing began last, until it is done
  inTurn     \* history: no threads were given out after those of the newest one

managerVars == <<rigs, order, sessions>>
historyVars == <<overtaken, newest, inTurn>>
vars == <<config, file, managerVars, tasks, requests, historyVars>>

Id == Rigs \X (Coins \union {Sole})
Config == [Rigs -> SUBSET Coins]
Empty == [r \in Rigs |-> {}]

\* expand(): the ids of a rig's sessions.
IdsOf(r, coins) ==
  IF Cardinality(coins) = 1 THEN {<<r, Sole>>} ELSE {r} \X coins

Configured(cfg) == UNION {IdsOf(r, cfg[r]) : r \in Rigs}

Session == [id: Id, state: {"made", "new", "running", "ended"}, stop: BOOLEAN,
            threads: Nat \ {0}, asked: BOOLEAN]

\* What a slot does: pc is its next step.  edit is the change asked for, draft
\* the configuration it works on, names the rigs yet to start, todo the ids of
\* the present one, any whether one was started, ids the one being started or
\* those the pruning read, held the sessions it is about to stop or to spawn,
\* active and allotted what the rebalancing has found.  seen is history: the
\* session that a start found, if it had been polled.
Edit == [kind: {"none", "add", "coin", "remove", "uncoin"}, by: {"client", "command"},
         rig: Rigs \union {Sole}, coin: Coins]
NoEdit == [kind |-> "none", by |-> "client", rig |-> Sole, coin |-> Primary]

Idle == [pc |-> "idle", edit |-> NoEdit, draft |-> Empty, names |-> {}, todo |-> {},
         any |-> FALSE, ids |-> {}, held |-> {}, active |-> {},
         allotted |-> [id \in {} |-> 0], seen |-> {}]

PC == {"idle", "resolve", "check", "insert", "enlist", "weigh", "allot", "assign",
       "draft", "truncate", "write", "signal", "load", "swap", "prune", "retain",
       "relist", "restart", "raise", "spawn"}

TypeOK ==
  /\ config \in Config /\ file \in Config
  /\ sessions \in Seq(Session)
  /\ rigs \in [Id -> 0..Len(sessions)]
  /\ \A id \in Id : rigs[id] # 0 => sessions[rigs[id]].id = id
  /\ order \subseteq Id
  /\ \A h \in Slots :
       /\ tasks[h].pc \in PC /\ tasks[h].edit \in Edit /\ tasks[h].draft \in Config
       /\ tasks[h].names \subseteq Rigs /\ tasks[h].todo \subseteq Id
       /\ tasks[h].any \in BOOLEAN /\ tasks[h].ids \subseteq Id
       /\ tasks[h].active \subseteq Rigs
       /\ tasks[h].held \union tasks[h].seen \subseteq DOMAIN sessions
  /\ requests \in 0..MaxRequests
  /\ overtaken \subseteq DOMAIN sessions /\ newest \in Slots /\ inTurn \in BOOLEAN

\* The daemon came up without autostart.
Init ==
  /\ config \in Early
  /\ file = config
  /\ rigs = [id \in Id |-> 0]
  /\ order = {}
  /\ sessions = <<>>
  /\ tasks = [h \in Slots |-> Idle]
  /\ requests = 0
  /\ overtaken = {} /\ newest = Sampler /\ inTurn = TRUE

Mapped == {id \in Id : rigs[id] # 0}
At(id) == sessions[rigs[id]]
Polled(i) == sessions[i].state \notin {"made", "new"}

\* Nothing is under way but the sampler and starts that have yet to look.
Resting == \A h \in Handlers \union Timers : tasks[h].pc \in {"idle", "resolve"}

\* RigRuntime.stats: a task that was not polled yet counts as stopped.
Running(id) == At(id).state = "running"

-----------------------------------------------------------------------------
(* The sessions' tasks: see RigTask.                                       *)

Poll(i) ==
  /\ sessions[i].state = "new"
  /\ sessions' = [sessions EXCEPT ![i].state = IF sessions[i].stop THEN "ended" ELSE "running"]
  /\ UNCHANGED <<config, file, rigs, order, tasks, requests, historyVars>>

End(i) ==
  /\ sessions[i].state = "running" /\ sessions[i].stop
  /\ sessions' = [sessions EXCEPT ![i].state = "ended"]
  /\ UNCHANGED <<config, file, rigs, order, tasks, requests, historyVars>>

-----------------------------------------------------------------------------
(* Requests.                                                               *)

Request(h) ==
  /\ h \in Handlers /\ tasks[h].pc = "idle"
  /\ requests < MaxRequests
  /\ requests' = requests + 1

Begin(h, task) == tasks' = [tasks EXCEPT ![h] = task]

Goto(h, pc) == tasks' = [tasks EXCEPT ![h].pc = pc]

\* start_rig(name) for one rig, start_all() for several; which rigs are enabled
\* is left open.
StartRigs(h, names) ==
  /\ Request(h)
  /\ Begin(h, [Idle EXCEPT !.pc = "resolve", !.names = names])
  /\ UNCHANGED <<config, file, managerVars, historyVars>>

\* start_rig(name) for one session of a rig.
StartSession(h, id) ==
  /\ Request(h)
  /\ id \in Configured(config)
  /\ Begin(h, [Idle EXCEPT !.pc = "check", !.todo = {id}])
  /\ UNCHANGED <<config, file, managerVars, historyVars>>

SessionsOf(r) == {id \in Mapped : id[1] = r}

\* What follows stop_rig(): nothing, the edit, or the rest of it.
AfterRaise(task) ==
  CASE task.edit.kind = "none" -> Idle
    [] task.edit.kind = "remove" /\ task.edit.by = "client" -> [task EXCEPT !.pc = "draft"]
    [] task.edit.kind = "coin" -> [task EXCEPT !.pc = "spawn"]
    [] OTHER -> [task EXCEPT !.pc = "load"]

\* stop_rig() under the read lock: the sessions it will stop, if there are any.
Matching(ids, task) ==
  LET found == {rigs[id] : id \in ids \intersect Mapped}
  IN  IF found = {} THEN AfterRaise(task) ELSE [task EXCEPT !.pc = "raise", !.held = found]

\* The flags are raised one after the other.
Raise(h) ==
  /\ tasks[h].pc = "raise"
  /\ \E i \in tasks[h].held :
       LET rest == [tasks[h] EXCEPT !.held = @ \ {i}] IN
         /\ sessions' = [sessions EXCEPT ![i].stop = TRUE]
         /\ Begin(h, IF rest.held = {} THEN AfterRaise(rest) ELSE rest)
  /\ UNCHANGED <<config, file, rigs, order, requests, historyVars>>

\* A rig, or one session of it.
StopSessions(h, ids) ==
  /\ Request(h)
  /\ Begin(h, Matching(ids, Idle))
  /\ UNCHANGED <<config, file, managerVars, historyVars>>

\* stop_all() raises the flags under the lock.  Only a rebalancing reads them at the
\* same time, and it may give threads to a session that is about to end.
StopAll(h) ==
  /\ Request(h)
  /\ sessions' = [i \in DOMAIN sessions |->
                    IF \E id \in Mapped : rigs[id] = i THEN [sessions[i] EXCEPT !.stop = TRUE]
                                                      ELSE sessions[i]]
  /\ UNCHANGED <<config, file, rigs, order, tasks, historyVars>>

SetThreads(h, id, n) ==
  /\ Request(h)
  /\ rigs[id] # 0
  /\ sessions' = [sessions EXCEPT ![rigs[id]].threads = n, ![rigs[id]].asked = TRUE]
  /\ UNCHANGED <<config, file, rigs, order, tasks, historyVars>>

\* AddRig, AddRigCoin, RemoveRig, or a command that edits the file.  RemoveRig
\* stops the rig before it looks whether there is one.
EditConfig(h, e) ==
  /\ Request(h)
  /\ LET task == [Idle EXCEPT !.pc = "draft", !.edit = e] IN
       Begin(h, IF e.kind = "remove" /\ e.by = "client" THEN Matching(SessionsOf(e.rig), task)
                                                       ELSE task)
  /\ UNCHANGED <<config, file, managerVars, historyVars>>

Reload(h) ==
  /\ Request(h)
  /\ Goto(h, "load")
  /\ UNCHANGED <<config, file, managerVars, historyVars>>

-----------------------------------------------------------------------------
(* start_rig().                                                            *)

NextRig(names) == IF names = {} THEN Idle ELSE [Idle EXCEPT !.pc = "resolve", !.names = names]

\* When all sessions of a rig were looked at, the threads are divided anew if one
\* was started.
NextSession(task) ==
  IF task.todo # {} THEN [task EXCEPT !.pc = "check"]
  ELSE IF task.any THEN [task EXCEPT !.pc = "weigh"] ELSE NextRig(task.names)

\* The next rig to start; one that is not configured is passed over.
Resolve(h) ==
  /\ tasks[h].pc = "resolve"
  /\ LET r == CHOOSE r \in tasks[h].names : TRUE
         task == [tasks[h] EXCEPT !.names = @ \ {r}, !.todo = IdsOf(r, config[r])]
     IN  Begin(h, NextSession(task))
  /\ UNCHANGED <<config, file, managerVars, requests, historyVars>>

AlreadyRunning(id) == rigs[id] # 0 /\ ~ At(id).stop /\ Running(id)

\* Under the read lock: is the session there already?
Check(h) ==
  /\ tasks[h].pc = "check"
  /\ LET id == CHOOSE id \in tasks[h].todo : TRUE
         task == [tasks[h] EXCEPT !.todo = @ \ {id}]
     IN  Begin(h, IF AlreadyRunning(id) THEN NextSession(task)
                  ELSE [task EXCEPT !.pc = "insert", !.ids = {id},
                                    !.seen = {i \in {rigs[id]} \ {0} : Polled(i)}])
  /\ UNCHANGED <<config, file, managerVars, requests, historyVars>>

\* Under the write lock: a new RigRuntime takes the place of what is there.
Insert(h) ==
  /\ tasks[h].pc = "insert"
  /\ \E id \in tasks[h].ids :
       /\ sessions' = Append(sessions, [id |-> id, state |-> "made", stop |-> FALSE,
                                        threads |-> 1, asked |-> FALSE])
       /\ rigs' = [rigs EXCEPT ![id] = Len(sessions) + 1]
       /\ overtaken' = overtaken \union ({rigs[id]} \ (tasks[h].seen \union {0}))
  /\ Begin(h, [tasks[h] EXCEPT !.pc = "enlist", !.held = {Len(sessions) + 1}])
  /\ UNCHANGED <<config, file, order, requests, newest, inTurn>>

\* The id is put into the order and the task spawned.
Enlist(h) ==
  /\ tasks[h].pc = "enlist"
  /\ order' = order \union tasks[h].ids
  /\ \E i \in tasks[h].held : sessions' = [sessions EXCEPT ![i].state = "new"]
  /\ Begin(h, NextSession([tasks[h] EXCEPT !.any = TRUE, !.ids = {}, !.held = {}, !.seen = {}]))
  /\ UNCHANGED <<config, file, rigs, requests, historyVars>>

-----------------------------------------------------------------------------
(* rebalance().                                                            *)

Plan == [r \in Rigs |-> [threads |-> Fixed[r], weight |-> Weight[r],
                         coins |-> [c \in config[r] |-> 1]]]

CoinOf(id) == IF id[2] = Sole THEN CHOOSE c \in config[id[1]] : TRUE ELSE id[2]

Division(active) ==
  LET ids == UNION {IdsOf(r, config[r]) : r \in {k \in active : config[k] # {}}}
      known == {r \in active : config[r] # {}}
  IN  [id \in ids |-> Allotted(id[1], CoinOf(id), known, Plan, Budget)]

\* Mutant of Active: only what mines already is counted.
ActiveRunning == {id[1] : id \in {k \in Mapped : Running(k)}}

Active == {id[1] : id \in {k \in Mapped : ~ At(k).stop}}

Weigh(h) ==
  /\ tasks[h].pc = "weigh"
  /\ Begin(h, [tasks[h] EXCEPT !.active = Active, !.pc = "allot"])
  /\ newest' = h
  /\ UNCHANGED <<config, file, managerVars, requests, overtaken, inTurn>>

Allot(h) ==
  /\ tasks[h].pc = "allot"
  /\ Begin(h, [tasks[h] EXCEPT !.active = {}, !.pc = "assign",
                               !.allotted = Division(tasks[h].active)])
  /\ UNCHANGED <<config, file, managerVars, requests, historyVars>>

\* What follows a rebalancing: the next rig, the start of a rig just added, the
\* restart of one that got a coin.
AfterAssign(task) ==
  CASE task.edit.kind = "add" /\ task.edit.by = "client" ->
         NextRig({task.edit.rig})
    [] task.edit.kind = "coin" /\ task.edit.by = "client" ->
         [Idle EXCEPT !.pc = "restart", !.edit = task.edit]
    [] OTHER -> NextRig(task.names)

Assign(h) ==
  /\ tasks[h].pc = "assign"
  /\ sessions' = [i \in DOMAIN sessions |->
       IF \E id \in DOMAIN tasks[h].allotted : rigs[id] = i
       THEN [sessions[i] EXCEPT !.threads = tasks[h].allotted[sessions[i].id],
                                !.asked = FALSE]
       ELSE sessions[i]]
  /\ Begin(h, AfterAssign(tasks[h]))
  /\ inTurn' = (newest = h)
  /\ newest' = IF newest = h THEN Sampler ELSE newest
  /\ UNCHANGED <<config, file, rigs, order, requests, overtaken>>

-----------------------------------------------------------------------------
(* mutate(), the commands that edit the file, reload().                    *)

Possible(e, cfg) ==
  CASE e.kind = "add" -> cfg[e.rig] = {}
    [] e.kind = "coin" -> cfg[e.rig] # {} /\ e.coin \notin cfg[e.rig]
    [] e.kind = "remove" -> cfg[e.rig] # {}
    [] e.kind = "uncoin" -> e.coin \in cfg[e.rig] /\ e.coin # Primary

Changed(e, cfg) ==
  [cfg EXCEPT ![e.rig] = CASE e.kind = "add" -> {Primary}
                           [] e.kind = "coin" -> @ \union {e.coin}
                           [] e.kind = "remove" -> {}
                           [] e.kind = "uncoin" -> @ \ {e.coin}]

\* The daemon works on its copy, a command on the file.
Draft(h) ==
  /\ tasks[h].pc = "draft"
  /\ LET e == tasks[h].edit
         base == IF e.by = "client" THEN config ELSE file
     IN  Begin(h, IF Possible(e, base)
                  THEN [tasks[h] EXCEPT !.draft = Changed(e, base), !.pc = "truncate"]
                  ELSE Idle)
  /\ UNCHANGED <<config, file, managerVars, requests, historyVars>>

\* save() writes the file in place: it is empty first, which is a valid
\* configuration.
Truncate(h) ==
  /\ tasks[h].pc = "truncate"
  /\ file' = Empty
  /\ Goto(h, "write")
  /\ UNCHANGED <<config, managerVars, requests, historyVars>>

AfterWrite(e) ==
  CASE e.by = "client" -> "swap"
    [] e.by = "command" /\ e.kind \in {"remove", "uncoin"} -> "signal"
    [] OTHER -> "load"

Write(h) ==
  /\ tasks[h].pc = "write"
  /\ file' = tasks[h].draft
  /\ Goto(h, AfterWrite(tasks[h].edit))
  /\ UNCHANGED <<config, managerVars, requests, historyVars>>

\* A command that took a rig or a coin away asks the daemon to stop it.
Signal(h) ==
  /\ tasks[h].pc = "signal"
  /\ LET e == tasks[h].edit IN
       Begin(h, Matching(IF e.kind = "remove" THEN SessionsOf(e.rig) ELSE {<<e.rig, e.coin>>},
                         tasks[h]))
  /\ UNCHANGED <<config, file, managerVars, requests, historyVars>>

\* reload(), also when a command nudges the daemon.
Load(h) ==
  /\ tasks[h].pc = "load"
  /\ Begin(h, [tasks[h] EXCEPT !.draft = file, !.pc = "swap"])
  /\ UNCHANGED <<config, file, managerVars, requests, historyVars>>

Swap(h) ==
  /\ tasks[h].pc = "swap"
  /\ config' = tasks[h].draft
  /\ Begin(h, [tasks[h] EXCEPT !.draft = Empty, !.pc = "prune"])
  /\ UNCHANGED <<file, managerVars, requests, historyVars>>

-----------------------------------------------------------------------------
(* prune_stale_rigs(): three locks one after the other.                    *)

Prune(h) ==
  /\ tasks[h].pc = "prune"
  /\ Begin(h, [tasks[h] EXCEPT !.ids = Configured(config), !.pc = "retain"])
  /\ UNCHANGED <<config, file, managerVars, requests, historyVars>>

\* sample() comes down to it: it reads the configuration, and prunes later.
Sample ==
  /\ tasks[Sampler].pc = "idle"
  /\ AnyTime \/ Resting
  /\ Begin(Sampler, [Idle EXCEPT !.ids = Configured(config), !.pc = "retain"])
  /\ UNCHANGED <<config, file, managerVars, requests, historyVars>>

\* Mutants of Kept: by the configuration alone; every session there ever was.
KeptConfigured(live) == Mapped \intersect live
KeptAll(live) == Mapped

Kept(live) == {id \in Mapped : id \in live \/ Running(id)}

Retain(h) ==
  /\ tasks[h].pc = "retain"
  /\ LET kept == Kept(tasks[h].ids) IN
       /\ rigs' = [id \in Id |-> IF id \in kept THEN rigs[id] ELSE 0]
       /\ overtaken' = overtaken \union
                         {i \in {rigs[id] : id \in Mapped \ kept} : ~ Polled(i)}
       /\ Begin(h, [tasks[h] EXCEPT !.ids = kept, !.pc = "relist"])
  /\ UNCHANGED <<config, file, order, sessions, requests, newest, inTurn>>

\* apply_config() goes on to rebalance(); the sampler is done.
AfterPrune(h) ==
  IF h = Sampler THEN Idle ELSE [tasks[h] EXCEPT !.ids = {}, !.pc = "weigh"]

Relist(h) ==
  /\ tasks[h].pc = "relist"
  /\ order' = order \intersect tasks[h].ids
  /\ overtaken' = overtaken \union
                    {rigs[id] : id \in Mapped \ tasks[h].ids}
  /\ Begin(h, AfterPrune(h))
  /\ UNCHANGED <<config, file, rigs, sessions, requests, newest, inTurn>>

-----------------------------------------------------------------------------
(* The end of AddRigCoin: stop the rig, and start it in 600 ms.            *)

RestartLater(h) ==
  /\ tasks[h].pc = "restart"
  /\ Begin(h, Matching(SessionsOf(tasks[h].edit.rig), tasks[h]))
  /\ UNCHANGED <<config, file, managerVars, requests, historyVars>>

\* Mutant of Spawn: the rig is stopped, and that is all.
StopOnly(h) ==
  /\ tasks[h].pc = "spawn"
  /\ Begin(h, Idle)
  /\ UNCHANGED <<config, file, managerVars, requests, historyVars>>

Spawn(h) ==
  /\ tasks[h].pc = "spawn"
  /\ \E t \in Timers :
       /\ tasks[t].pc = "idle"
       /\ tasks' = [tasks EXCEPT ![h] = Idle,
                                 ![t] = [Idle EXCEPT !.pc = "resolve",
                                                     !.names = {tasks[h].edit.rig}]]
  /\ UNCHANGED <<config, file, managerVars, requests, historyVars>>

-----------------------------------------------------------------------------
Step(h) ==
  \/ Resolve(h) \/ Check(h) \/ Insert(h) \/ Enlist(h)
  \/ Weigh(h) \/ Allot(h) \/ Assign(h)
  \/ Draft(h) \/ Truncate(h) \/ Write(h) \/ Signal(h) \/ Load(h) \/ Swap(h)
  \/ Prune(h) \/ Retain(h) \/ Relist(h)
  \/ RestartLater(h) \/ Raise(h) \/ Spawn(h)
  \/ h = Sampler /\ Sample

\* uncoin is a command only.
Edits == {e \in Edit : /\ e.kind # "none" /\ e.rig # Sole
                       /\ e.kind = "uncoin" => e.by = "command"
                       /\ e.kind \in {"add", "remove"} => e.coin = Primary
                       /\ e.kind \in {"coin", "uncoin"} => e.rig \in Grows}

Next ==
  \/ \E i \in DOMAIN sessions : Poll(i) \/ End(i)
  \/ \E h \in Handlers :
       \/ \E names \in (SUBSET Rigs) \ {{}} : StartRigs(h, names)
       \/ \E id \in Id : StartSession(h, id) \/ SetThreads(h, id, Budget)
       \/ \E r \in Rigs : SessionsOf(r) # {} /\ StopSessions(h, SessionsOf(r))
       \/ \E id \in Mapped : StopSessions(h, {id})
       \/ StopAll(h)
       \/ \E e \in Edits : EditConfig(h, e)
       \/ Reload(h)
  \/ \E h \in Slots : Step(h)

Spec == Init /\ [][Next]_vars

\* The runtime runs what can run, and the ticker and the timers come round.
Fairness ==
  /\ \A h \in Slots : WF_vars(Step(h))
  /\ WF_vars(\E i \in DOMAIN sessions : Poll(i) \/ End(i))

FairSpec == Spec /\ Fairness

-----------------------------------------------------------------------------
(* Properties.                                                             *)

\* A session that runs, or will, and was not asked to stop is in the map under
\* its id: no request could reach it otherwise, and a second one would be
\* started beside it.  And when nothing is under way, what is in the map and has
\* not ended is in the order, in which alone it is shown once it is configured no
\* more (local_snapshot()).  So it is whoever interleaves with whom, but for those
\* overtaken: dropped before they were first polled, replaced by a start that had
\* looked before that, or left out of the order by a pruning that had swept the map
\* before they were in it.
NothingLiveForgotten ==
  \A i \in DOMAIN sessions \ overtaken : sessions[i].state # "ended" =>
    LET id == sessions[i].id IN
      /\ ~ sessions[i].stop => rigs[id] = i
      /\ Resting /\ rigs[id] = i => id \in order

\* The threads of all rigs come from one division of the budget, although a
\* stop does not divide it anew, and however starts, edits and delayed restarts
\* interleave, as long as the rebalancing that was the last to begin was also the
\* last to give out threads.
FairShares ==
  Resting /\ inTurn =>
    \E all \in SUBSET Rigs :
      /\ Active \subseteq all
      /\ \A id \in Mapped \intersect Configured(config) :
           ~ At(id).stop /\ ~ At(id).asked /\ id[1] \in Active =>
             At(id).threads = Division(all)[id]


\* A session that ended and is configured no more is forgotten in the end: there are
\* always moments to come at which the map has none, however the rigs are edited.
Stale(id) == /\ rigs[id] # 0 /\ At(id).state = "ended"
             /\ id \notin Configured(config)

ForgottenOnceStopped == []<>(\A id \in Id : ~ Stale(id))

\* A coin that was added is mined in the end, unless it is taken off again: the
\* delayed start finds it configured, whatever happened meanwhile, and makes a session.
NewCoinIsMined ==
  \A r \in Grows, c \in Coins \ {Primary} :
    (\E h \in Handlers : tasks[h].pc = "restart" /\ tasks[h].edit.rig = r
                         /\ tasks[h].edit.coin = c) ~>
      \/ c \notin config[r]
      \/ \E i \in DOMAIN sessions :
           sessions[i].id = <<r, c>> /\ ~ sessions[i].stop /\ sessions[i].state # "ended"
=============================================================================
