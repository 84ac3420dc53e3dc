--------------------------- MODULE EndpointMonitor ---------------------------
(***************************************************************************)
(* The checks of one endpoint (src/src/endpoints.rs) and how the daemon    *)
(* schedules, repeats and replaces them (src/src/daemon.rs).               *)
(*                                                                         *)
(* A runtime is what the daemon remembers of the endpoint.  Checks run on  *)
(* threads of their own and may be slow: several may be under way, of the  *)
(* present runtime or of one that a new configuration has replaced.        *)
(***************************************************************************)
EXTENDS Integers, FiniteSets

CONSTANTS
  Runtimes,     \* EndpointRuntimes there may be at once (a bound)
  Threads,      \* checks that may be under way at once (a bound)
  Urls,         \* urls the endpoint may be given
  Entries,      \* what the configuration may say of it
  StratumUrls,  \* those of a stratum pool
  WantsAuth,    \* whether the endpoint has a user
  None,         \* no runtime; no endpoint in the configuration
  MaxChecks     \* bound: checks of one runtime

\* enabled stands for everything in an entry but name and url.
Entry == [url: Urls, enabled: BOOLEAN]

ASSUME NoneAssumption == None \notin Runtimes /\ None \notin Entry
ASSUME UrlsAssumption == StratumUrls \subseteq Urls /\ Entries \subseteq Entry
ASSUME AuthAssumption == WantsAuth \in BOOLEAN

VARIABLES
  config,   \* the endpoint's entry in the daemon's configuration
  current,  \* its runtime in the daemon's list of endpoints
  edit,     \* the request that is changing the configuration
  rt,       \* the runtimes
  polled,   \* the runtime poll_endpoints() has found due
  tasks     \* the checks under way

vars == <<config, current, edit, rt, polled, tasks>>

\* What a check has seen of a stratum pool: got, the requests it has accepted, and
\* whether there was an error, from which there is no way back.
NoHandshake == [got |-> {}, failed |-> FALSE]
Failed == [got |-> {}, failed |-> TRUE]

\* check: check(); record: its outcome is to be recorded.
NoTask == [pc |-> "free", of |-> None, hs |-> NoHandshake, ok |-> FALSE]

\* due: now >= next_due.
NewRuntime(entry) ==
  [entry |-> entry, checks |-> 0, failures |-> 0, due |-> TRUE]

NoEdit == [on |-> FALSE, entry |-> None, runtime |-> None]

Runtime == [entry: Entries, checks: Nat, failures: Nat, due: BOOLEAN]
Handshake == [got: SUBSET {"subscribe", "authorize"}, failed: BOOLEAN]
Task == [pc: {"free", "check", "record"}, of: Runtimes \union {None}, hs: Handshake, ok: BOOLEAN]

InUse(r) ==
  r \in {current, polled, edit.runtime} \/ \E t \in Threads : tasks[t].of = r

\* A runtime that the daemon, an edit or a check still has is there.
TypeOK ==
  /\ config \in Entries \union {None}
  /\ current \in Runtimes \union {None} /\ polled \in Runtimes \union {None}
  /\ edit \in [on: BOOLEAN, entry: Entries \union {None}, runtime: Runtimes \union {None}]
  /\ tasks \in [Threads -> Task]
  /\ \A t \in Threads : tasks[t].pc = "free" <=> tasks[t].of = None
  /\ rt \in [Runtimes -> Runtime \union {None}]
  /\ \A r \in Runtimes : InUse(r) => rt[r] \in Runtime

Init ==
  /\ config = None /\ current = None
  /\ edit = NoEdit
  /\ rt = [r \in Runtimes |-> None]
  /\ polled = None
  /\ tasks = [t \in Threads |-> NoTask]

-----------------------------------------------------------------------------
(* A new configuration: an edit by a request, or a reload of the file.     *)

\* Mutants of Kept: every endpoint is built anew; one is known by its name alone.
KeptNever(entry) == FALSE
KeptByName(entry) == current # None

\* The endpoint is another one if it has another name or another url.
Kept(entry) == current # None /\ rt[current].entry.url = entry.url

\* A runtime goes when the list, the poll and the checks have dropped it.
Dropped(runtimes) == [r \in Runtimes |-> IF InUse(r)' THEN runtimes[r] ELSE None]

\* mutate() and reload() come to apply_config() with a configuration in which the
\* endpoint is as before, gone, new or changed.
ApplyConfig(entry) ==
  /\ edit = NoEdit
  /\ IF entry = None
     THEN /\ edit' = [on |-> TRUE, entry |-> None, runtime |-> None]
          /\ UNCHANGED rt
     ELSE IF Kept(entry)
     THEN /\ edit' = [on |-> TRUE, entry |-> entry, runtime |-> current]
          /\ UNCHANGED rt
     ELSE \E r \in Runtimes :
            /\ ~ InUse(r)
            /\ edit' = [on |-> TRUE, entry |-> entry, runtime |-> r]
            /\ rt' = [rt EXCEPT ![r] = NewRuntime(entry)]
  /\ UNCHANGED <<config, current, polled, tasks>>

\* Then the list of endpoints is replaced, and the configuration; nobody reads both.
Swap ==
  /\ edit.on
  /\ current' = edit.runtime
  /\ config' = edit.entry
  /\ edit' = NoEdit
  /\ UNCHANGED <<polled, tasks>>
  /\ rt' = Dropped(rt)

-----------------------------------------------------------------------------
(* Starting checks.                                                        *)

\* The interval has passed.
FallDue(r) ==
  /\ InUse(r) /\ ~ rt[r].due
  /\ rt' = [rt EXCEPT ![r].due = TRUE]
  /\ UNCHANGED <<config, current, edit, polled, tasks>>

Due(r) == rt[r].entry.enabled /\ rt[r].due

\* The checks r has had, is having, or is about to have.
Committed(r) ==
  rt[r].checks + Cardinality({t \in Threads : tasks[t].of = r})
               + (IF polled = r THEN 1 ELSE 0)

Spawn(r) ==
  \E t \in Threads :
    /\ tasks[t] = NoTask
    /\ tasks' = [tasks EXCEPT ![t] = [NoTask EXCEPT !.pc = "check", !.of = r]]

\* The ticker's poll_endpoints(): what is due is collected, then claimed and checked.
PollEndpoints ==
  /\ polled = None
  /\ current # None /\ Due(current) /\ Committed(current) < MaxChecks
  /\ polled' = current
  /\ UNCHANGED <<config, current, edit, rt, tasks>>

Claim ==
  /\ polled # None
  /\ Spawn(polled)
  /\ rt' = [rt EXCEPT ![polled].due = FALSE]
  /\ polled' = None
  /\ UNCHANGED <<config, current, edit>>

\* A user's request: at once, whether due or not, enabled or not.
CheckEndpointNow ==
  /\ current # None /\ Committed(current) < MaxChecks
  /\ Spawn(current)
  /\ UNCHANGED <<config, current, edit, rt, polled>>

-----------------------------------------------------------------------------
(* One check.                                                              *)

Url(t) == rt[tasks[t].of].entry.url

Continue(t, task) ==
  /\ tasks' = [tasks EXCEPT ![t] = task]
  /\ UNCHANGED <<config, current, edit, rt, polled>>

Concluded(t, ok) == Continue(t, [tasks[t] EXCEPT !.pc = "record", !.ok = ok, !.hs = NoHandshake])

\* check_http() has a timeout.
HttpAnswers(t) ==
  /\ tasks[t].pc = "check" /\ Url(t) \notin StratumUrls
  /\ \E ok \in BOOLEAN : Concluded(t, ok)

AtPool(t) == tasks[t].pc = "check" /\ Url(t) \in StratumUrls

Asked == {"subscribe"} \union (IF WantsAuth THEN {"authorize"} ELSE {})

Settled(hs) == hs.got = Asked

\* What the outcome is when the loop is left.
Outcome(hs) == "subscribe" \in hs.got

\* A reply to subscribe or to authorize.  Once both are there the loop may end: a job
\* is known, or 400 ms have passed.  Notifications change nothing but the fields.
Reply(t) ==
  /\ AtPool(t) /\ ~ tasks[t].hs.failed
  /\ \E hs \in {[tasks[t].hs EXCEPT !.got = @ \union {q}] : q \in Asked} \union {Failed} :
       \/ Continue(t, [tasks[t] EXCEPT !.hs = hs])
       \/ Settled(hs) /\ Concluded(t, Outcome(hs))

\* The pool cannot be reached, or closes the connection.
Closed(t) ==
  /\ AtPool(t)
  /\ Concluded(t, FALSE)

\* It is silent for longer than a read waits.
Silent(t) ==
  /\ AtPool(t)
  /\ Concluded(t, Settled(tasks[t].hs) /\ Outcome(tasks[t].hs))

\* Mutant of Deadline: the time is looked at only when the handshake is over.
DeadlineSettled(t) ==
  /\ AtPool(t) /\ Settled(tasks[t].hs)
  /\ Concluded(t, Outcome(tasks[t].hs))

\* It talks on until the time is over.
Deadline(t) ==
  /\ AtPool(t)
  /\ Concluded(t, Outcome(tasks[t].hs))

-----------------------------------------------------------------------------
(* record().                                                               *)

\* What it writes are separate atomics and locks; only status() could tell.
Record(t) ==
  LET r == tasks[t].of
      recorded == [rt[r] EXCEPT !.checks = @ + 1,
                                !.failures = IF tasks[t].ok THEN @ ELSE @ + 1,
                                !.due = FALSE]
  IN /\ tasks[t].pc = "record"
     /\ tasks' = [tasks EXCEPT ![t] = NoTask]
     /\ UNCHANGED <<config, current, edit, polled>>
     /\ rt' = Dropped([rt EXCEPT ![r] = recorded])

Next ==
  \/ \E entry \in Entries \union {None} : ApplyConfig(entry)
  \/ Swap
  \/ \E r \in Runtimes : FallDue(r)
  \/ PollEndpoints \/ Claim \/ CheckEndpointNow
  \/ \E t \in Threads :
       HttpAnswers(t) \/ Reply(t) \/ Closed(t) \/ Silent(t) \/ Deadline(t) \/ Record(t)

Spec == Init /\ [][Next]_vars

\* The ticker ticks, and what is due is claimed; connecting and a check of the other
\* kind have a timeout; the loop ends when its time is over; a thread that records goes on.
Fairness ==
  /\ WF_vars(PollEndpoints) /\ WF_vars(Claim)
  /\ \A r \in Runtimes : WF_vars(FallDue(r))
  /\ \A t \in Threads :
       WF_vars(HttpAnswers(t)) /\ WF_vars(Deadline(t)) /\ WF_vars(Record(t))

FairSpec == Spec /\ Fairness

-----------------------------------------------------------------------------
(* Properties.                                                             *)

\* An endpoint is in the list just if it is configured, and
\* the url that is checked is the one that is configured (daemon.rs, apply_config).
UrlIsApplied ==
  /\ config = None <=> current = None
  /\ config # None => rt[current].entry.url = config.url

\* What is known of an endpoint is kept for as long as it is configured with the same
\* url ("so their uptime history survives an unrelated edit"), and never grows smaller.
HistorySurvives ==
  [][/\ current' # current =>
          config = None \/ config' = None \/ config.url # config'.url
     /\ current # None /\ current' = current =>
          /\ rt'[current].checks >= rt[current].checks
          /\ rt'[current].failures >= rt[current].failures]_vars

\* An enabled endpoint is checked again and again, whatever the pool answers, until it is
\* replaced or removed.
EnabledIsChecked ==
  \A r \in Runtimes, n \in 0..(MaxChecks - 1) :
    current = r /\ rt[r].entry.enabled /\ rt[r].checks = n
      ~> current # r \/ rt[r].checks > n
=============================================================================
