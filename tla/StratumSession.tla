---------------------------- MODULE StratumSession ----------------------------
(***************************************************************************)
(* One rig's stratum task (src/src/mining/stratum.rs): run(), which keeps a *)
(* session alive until the rig is stopped, and session(), which owns the   *)
(* socket, the hashing threads and the shares on their way to the pool.    *)
(*                                                                         *)
(* Around the task: the pool, which answers any id in any order, as often  *)
(* as it likes or never (an answer to no pending id changes nothing); the  *)
(* hashing threads, which go on hashing until they look at the stop flag;  *)
(* and the daemon, which asks the rig to stop or to use another number of  *)
(* threads at any moment.                                                  *)
(*                                                                         *)
(* The task is sequential.  It gives way at its awaits and while it joins  *)
(* threads; those are the boundaries of the actions.  Time is counted in   *)
(* ticks (TICK).  What is in a unit of work is the subject of WorkSlots    *)
(* and WorkCoordinator.                                                    *)
(***************************************************************************)
EXTENDS Integers, FiniteSets

CONSTANTS
  MaxThreads,   \* the largest thread count the daemon asks for
  JobTimeout,   \* JOB_TIMEOUT, in ticks
  Naps,         \* naps per second of backoff: 5 in the code
  MaxBackoff,   \* 30 in the code
  MaxRetries,   \* bound: reconnects
  MaxResizes,   \* bound: changes of the thread count
  MaxShares,    \* bound: shares the threads find
  MaxHashes     \* bound: batches they hash

ASSUME ThreadsAssumption == MaxThreads \in Nat \ {0}
ASSUME TimeAssumption ==
  JobTimeout \in Nat /\ Naps \in Nat \ {0} /\ MaxBackoff \in Nat \ {0}
ASSUME BoundsAssumption ==
  /\ MaxRetries \in Nat /\ MaxResizes \in Nat
  /\ MaxShares \in Nat /\ MaxHashes \in Nat

VARIABLES
  phase,       \* where the task is
  link,        \* what the SessionState knows of its connection, as a record
  workers,     \* the threads of the session, as a record
  stats,       \* RigStats: what the daemon shows, as a record
  stop,        \* the rig's stop flag
  wanted,      \* threads_wanted
  backoff,     \* run(): seconds to wait after the next drop
  naps,        \* run(): naps left of the present wait
  queue,       \* shares in the channel, not yet taken by the session
  pending,     \* the share ids that wait for an answer
  tally        \* history: what really happened, as a record

taskVars == <<phase, backoff, naps>>
daemonVars == <<stop, wanted>>
shareVars == <<queue, pending>>
vars == <<taskVars, daemonVars, shareVars, link, workers, stats, tally>>

\* "spawned" is before the first poll of the task; "subscribing" and "writing" are
\* in the middle of an awaited write; "ticking" is after resize_workers() in a tick; "resizing"
\* and "dropping" wait for the threads to exit; "sleeping" is the backoff.
Phase == {"spawned", "connecting", "subscribing", "session", "writing", "resizing",
          "ticking", "dropping", "closing", "sleeping", "stopped"}

SubscribeId == 1
AuthorizeId == 2

\* SessionState::new()
NewLink == [subscribed |-> FALSE, authorized |-> FALSE, started |-> FALSE,
            space |-> FALSE, job |-> FALSE, ids |-> AuthorizeId, quiet |-> 0,
            failed |-> FALSE]

\* slots: the threads spawned; live: those not yet exited; halt: worker_stop;
\* sum: what the slots' counters add up to; last: last_hashes; resize: the
\* count a resize is going for.
NoWorkers == [slots |-> 0, live |-> 0, halt |-> FALSE, sum |-> 0, last |-> 0,
              resize |-> 0]

NewStats == [state |-> "stopped", threads |-> 0, connected |-> FALSE,
             error |-> FALSE, hashes |-> 0, accepted |-> 0, rejected |-> 0,
             stale |-> 0, reconnects |-> 0]

NewTally == [hashed |-> 0, missed |-> 0, found |-> 0, submitted |-> 0,
             unanswered |-> 0, undelivered |-> 0, resizes |-> 0]

Link == [subscribed: BOOLEAN, authorized: BOOLEAN, started: BOOLEAN,
         space: BOOLEAN, job: BOOLEAN, ids: Nat, quiet: 0..(JobTimeout + 2),
         failed: BOOLEAN]

Workers == [slots: 0..MaxThreads, live: 0..MaxThreads, halt: BOOLEAN,
            sum: Nat, last: Nat, resize: 0..MaxThreads]

Stats == [state: {"stopped", "connecting", "authorizing", "mining", "retrying"},
          threads: 0..MaxThreads, connected: BOOLEAN, error: BOOLEAN,
          hashes: Nat, accepted: Nat, rejected: Nat, stale: Nat,
          reconnects: Nat]

Tally == [hashed: Nat, missed: Nat, found: Nat, submitted: Nat,
          unanswered: Nat, undelivered: Nat, resizes: Nat]

TypeOK ==
  /\ phase \in Phase
  /\ link \in Link
  /\ workers \in Workers
  /\ stats \in Stats
  /\ stop \in BOOLEAN
  /\ wanted \in 0..MaxThreads
  /\ backoff \in 1..MaxBackoff
  /\ naps \in Nat
  /\ queue \in Nat
  /\ pending \subseteq (AuthorizeId + 1)..link.ids
  /\ tally \in Tally

Init ==
  /\ phase = "spawned"
  /\ link = NewLink
  /\ workers = NoWorkers
  /\ stats = NewStats
  /\ stop = FALSE
  /\ wanted = 1
  /\ backoff = 1
  /\ naps = 0
  /\ queue = 0
  /\ pending = {}
  /\ tally = NewTally

-----------------------------------------------------------------------------
(* The daemon.                                                             *)

RequestStop ==
  /\ ~ stop
  /\ stop' = TRUE
  /\ UNCHANGED <<taskVars, wanted, shareVars, link, workers, stats, tally>>

\* rebalance() or SetThreads.
SetThreads(n) ==
  /\ n # wanted
  /\ tally.resizes < MaxResizes
  /\ wanted' = n
  /\ tally' = [tally EXCEPT !.resizes = @ + 1]
  /\ UNCHANGED <<taskVars, stop, shareVars, link, workers, stats>>

-----------------------------------------------------------------------------
(* run(): the supervisor.                                                  *)

\* The head of the loop: connect, unless the rig was stopped meanwhile.
Connecting ==
  /\ phase' = IF stop THEN "stopped" ELSE "connecting"
  /\ stats' = [stats EXCEPT !.state = IF stop THEN "stopped" ELSE "connecting"]

TaskStarts ==
  /\ phase = "spawned"
  /\ Connecting
  /\ UNCHANGED <<daemonVars, backoff, naps, shareVars, link, workers, tally>>

\* Mutant of Supervise: connected_at is left as it was.
SuperviseConnected(failed, lasted) ==
  /\ phase' = IF stop THEN "stopped" ELSE "sleeping"
  /\ stats' = [stats EXCEPT
       !.error = @ \/ failed,
       !.threads = 0,
       !.reconnects = IF stop THEN @ ELSE @ + 1,
       !.state = IF stop THEN "stopped" ELSE "retrying"]
  /\ naps' = IF stop THEN naps ELSE Naps
  /\ backoff' = backoff
  /\ stop \/ stats.reconnects < MaxRetries

\* Mutant of Supervise: a rig that waits for its next connection is shown
\* stopped.
SuperviseStopped(failed, lasted) ==
  /\ phase' = IF stop THEN "stopped" ELSE "sleeping"
  /\ stats' = [stats EXCEPT !.error = @ \/ failed, !.connected = FALSE, !.threads = 0,
                            !.state = "stopped",
                            !.reconnects = IF stop THEN @ ELSE @ + 1]
  /\ naps' = IF stop THEN naps ELSE Naps
  /\ backoff' = backoff
  /\ stop \/ stats.reconnects < MaxRetries

\* What run() does when session() returned: stop, or wait before a retry.  The
\* wait of a session that lasted a minute starts over at one second.
Supervise(failed, lasted) ==
  /\ phase' = IF stop THEN "stopped" ELSE "sleeping"
  /\ stats' = [stats EXCEPT
       !.error = @ \/ failed,
       !.connected = FALSE,
       !.threads = 0,
       !.reconnects = IF stop THEN @ ELSE @ + 1,
       !.state = IF stop THEN "stopped" ELSE "retrying"]
  /\ LET wait == IF lasted THEN 1 ELSE backoff IN
       /\ naps' = IF stop THEN naps ELSE wait * Naps
       /\ backoff' = IF stop THEN backoff
                     ELSE IF 2 * wait > MaxBackoff THEN MaxBackoff ELSE 2 * wait
  /\ stop \/ stats.reconnects < MaxRetries

\* CONNECT_TIMEOUT bounds the connect; it is shorter than a minute.
ConnectFails ==
  /\ phase = "connecting"
  /\ Supervise(TRUE, FALSE)
  /\ UNCHANGED <<daemonVars, shareVars, link, workers, tally>>

\* A new SessionState; subscribe is on its way out.
ConnectSucceeds ==
  /\ phase = "connecting"
  /\ phase' = "subscribing"
  /\ link' = NewLink
  /\ UNCHANGED <<backoff, naps, daemonVars, shareVars, workers, stats, tally>>

\* It is written, and authorize is on its way out.
SubscribeSent ==
  /\ phase = "subscribing"
  /\ phase' = "writing"
  /\ stats' = [stats EXCEPT !.state = "authorizing"]
  /\ UNCHANGED <<backoff, naps, daemonVars, shareVars, link, workers, tally>>

Nap ==
  /\ phase = "sleeping"
  /\ IF stop \/ naps = 0
     THEN Connecting /\ naps' = 0
     ELSE naps' = naps - 1 /\ UNCHANGED <<phase, stats>>
  /\ UNCHANGED <<backoff, daemonVars, shareVars, link, workers, tally>>

-----------------------------------------------------------------------------
(* session(): its end.  Its locals are dropped: the receiver of the shares  *)
(* first, then SessionState, whose threads are stopped and joined before it *)
(* releases its search space.                                               *)

\* collect_hashes(): the new part of the counters goes to the rig's total.
Collected == IF workers.sum > workers.last THEN workers.sum - workers.last ELSE 0

\* Mutant of Halting: the stop flag is never raised.
HaltingUnflagged(n) == [workers EXCEPT !.last = workers.sum, !.resize = n]

\* stop_workers() up to the joins: a last collect, then the flag.
Halting(n) == [workers EXCEPT !.last = workers.sum, !.halt = TRUE, !.resize = n]

\* The session returns; failed tells an error from a stop.
EndSession(failed) ==
  /\ phase' = "dropping"
  /\ link' = [link EXCEPT !.failed = failed]
  /\ stats' = [stats EXCEPT !.hashes = @ + Collected]
  /\ workers' = Halting(0)
  /\ tally' = [tally EXCEPT !.undelivered = @ + queue,
                            !.unanswered = @ + Cardinality(pending)]
  /\ queue' = 0
  /\ pending' = {}
  /\ UNCHANGED <<backoff, naps, daemonVars>>

\* The pool closes, a read or a write fails, the pool asks for a reconnect,
\* rejects subscribe or authorize, or sends a malformed answer or job.
SessionFails ==
  /\ phase \in {"subscribing", "session", "writing"}
  /\ EndSession(TRUE)

\* Joined: what was hashed after the collect is in no total.
JoinWorkers ==
  /\ phase = "dropping"
  /\ workers.live = 0
  /\ phase' = "closing"
  /\ tally' = [tally EXCEPT !.missed = @ + (workers.sum - workers.last)]
  /\ workers' = NoWorkers
  /\ stats' = [stats EXCEPT !.threads = 0]
  /\ UNCHANGED <<backoff, naps, daemonVars, shareVars, link>>

\* release() of the space, and back to run().
CloseSession ==
  /\ phase = "closing"
  /\ link' = NewLink
  /\ \E lasted \in BOOLEAN : Supervise(link.failed, lasted)
  /\ UNCHANGED <<daemonVars, shareVars, workers, tally>>

-----------------------------------------------------------------------------
(* session(): what the pool says.                                          *)

AtLeastOne(n) == IF n = 0 THEN 1 ELSE n

\* Mutant of Spawned: last_hashes is left as it was.
SpawnedUnreset(n) == [workers EXCEPT !.slots = n, !.live = n, !.halt = FALSE,
                                     !.sum = 0, !.resize = 0]

\* spawn_workers(), after stop_workers(): new slots, new counters.
Spawned(n) == [slots |-> n, live |-> n, halt |-> FALSE, sum |-> 0, last |-> 0,
               resize |-> 0]

\* Mutant of ReadyToStart: threads do not wait for the search space.
ReadyWhenAuthorized(l) == l.authorized /\ ~ l.started

ReadyToStart(l) == l.subscribed /\ l.authorized /\ ~ l.started

\* After a response: start_workers() once both are answered.
StartIfReady(l, s) ==
  IF ReadyToStart(l)
  THEN /\ link' = [l EXCEPT !.started = TRUE]
       /\ workers' = Spawned(AtLeastOne(wanted))
       /\ stats' = [s EXCEPT !.threads = AtLeastOne(wanted)]
  ELSE /\ link' = l
       /\ stats' = s
       /\ UNCHANGED workers

\* The answer to subscribe names the search space, which is claimed.
Subscribed ==
  /\ phase = "session"
  /\ StartIfReady([link EXCEPT !.subscribed = TRUE, !.space = TRUE], stats)
  /\ UNCHANGED <<taskVars, daemonVars, shareVars, tally>>

Authorized ==
  /\ phase = "session"
  /\ StartIfReady([link EXCEPT !.authorized = TRUE],
                  [stats EXCEPT !.connected = TRUE, !.error = FALSE])
  /\ UNCHANGED <<taskVars, daemonVars, shareVars, tally>>

\* Mutant of Answered: the pending share is looked up and not removed.
AnsweredOnly(id) == pending

Answered(id) == pending \ {id}

\* Any other answer counts if its id is that of a pending share, once.
ShareAnswered(id, verdict) ==
  /\ phase = "session"
  /\ id \in pending
  /\ pending' = Answered(id)
  /\ stats' = [stats EXCEPT ![verdict] = @ + 1]
  /\ UNCHANGED <<taskVars, daemonVars, queue, link, workers, tally>>

\* mining.notify: the rig counts as mining, whether or not it has threads yet.
Notify ==
  /\ phase = "session"
  /\ link' = [link EXCEPT !.job = TRUE, !.quiet = 0]
  /\ stats' = [stats EXCEPT !.state = "mining"]
  /\ UNCHANGED <<taskVars, daemonVars, shareVars, workers, tally>>

\* mining.ping is answered; the task waits for the write.
Ping ==
  /\ phase = "session"
  /\ phase' = "writing"
  /\ UNCHANGED <<backoff, naps, daemonVars, shareVars, link, workers, stats, tally>>

WriteDone ==
  /\ phase = "writing"
  /\ phase' = "session"
  /\ UNCHANGED <<backoff, naps, daemonVars, shareVars, link, workers, stats, tally>>

\* submit() of the oldest share in the channel, under the next id.
Submit ==
  /\ phase = "session"
  /\ queue > 0
  /\ queue' = queue - 1
  /\ link' = [link EXCEPT !.ids = @ + 1]
  /\ pending' = pending \union {link.ids + 1}
  /\ tally' = [tally EXCEPT !.submitted = @ + 1]
  /\ phase' = "writing"
  /\ UNCHANGED <<backoff, naps, daemonVars, workers, stats>>

-----------------------------------------------------------------------------
(* session(): the tick.                                                    *)

\* Mutant of TickStops: the flag is looked at only once the threads run.
TickStopsStarted ==
  /\ phase = "session"
  /\ stop /\ link.started
  /\ EndSession(FALSE)

TickStops ==
  /\ phase = "session"
  /\ stop
  /\ EndSession(FALSE)

\* Mutant of ResizeTo: only a larger count is applied.
ResizeUpTo(n) == link.started /\ n > workers.slots

ResizeTo(n) == link.started /\ n # workers.slots

\* collect_hashes(), then resize_workers(): with another count the threads are
\* halted first.
Tick ==
  /\ phase = "session"
  /\ ~ stop
  /\ link' = [link EXCEPT !.quiet = IF @ > JobTimeout + 1 THEN @ ELSE @ + 1]
  /\ stats' = [stats EXCEPT !.hashes = @ + Collected]
  /\ LET n == AtLeastOne(wanted) IN
       IF ResizeTo(n)
       THEN phase' = "resizing" /\ workers' = Halting(n)
       ELSE phase' = "ticking" /\ workers' = [workers EXCEPT !.last = workers.sum]
  /\ UNCHANGED <<backoff, naps, daemonVars, shareVars, tally>>

\* The halted threads are joined, the new ones spawned.
ResizeWorkers ==
  /\ phase = "resizing"
  /\ workers.live = 0
  /\ phase' = "ticking"
  /\ tally' = [tally EXCEPT !.missed = @ + (workers.sum - workers.last)]
  /\ workers' = Spawned(workers.resize)
  /\ stats' = [stats EXCEPT !.threads = workers.resize]
  /\ UNCHANGED <<backoff, naps, daemonVars, shareVars, link>>

\* expire_pending() forgets the shares sent more than two minutes ago.
Expire(cut) ==
  /\ phase' = "session"
  /\ pending' = {id \in pending : id > cut}
  /\ tally' = [tally EXCEPT
       !.unanswered = @ + Cardinality({id \in pending : id <= cut})]
  /\ UNCHANGED <<backoff, naps, daemonVars, queue, link, workers, stats>>

\* Mutant of FinishTick: with shares pending the session is not given up.
FinishTickSettled ==
  /\ phase = "ticking"
  /\ IF link.started /\ link.quiet > JobTimeout /\ pending = {}
     THEN EndSession(TRUE)
     ELSE \E cut \in {AuthorizeId} \union pending : Expire(cut)

\* The rest of the tick: a session that hashes without a new job for too long
\* is given up, and its pending shares with it.
FinishTick ==
  /\ phase = "ticking"
  /\ IF link.started /\ link.quiet > JobTimeout
     THEN EndSession(TRUE)
     ELSE \E cut \in {AuthorizeId} \union pending : Expire(cut)

-----------------------------------------------------------------------------
(* The hashing threads.                                                    *)

\* A batch, with or without a share in it.  A thread that was told to stop may
\* be in the middle of one.  Once the session is dropped its channel is closed.
HashBatch(share) ==
  /\ workers.live > 0
  /\ link.job
  /\ tally.hashed < MaxHashes
  /\ share => tally.found < MaxShares
  /\ workers' = [workers EXCEPT !.sum = @ + 1]
  /\ queue' = IF share /\ phase # "dropping" THEN queue + 1 ELSE queue
  /\ tally' = [tally EXCEPT
       !.hashed = @ + 1,
       !.found = IF share THEN @ + 1 ELSE @,
       !.undelivered = IF share /\ phase = "dropping" THEN @ + 1 ELSE @]
  /\ UNCHANGED <<taskVars, daemonVars, pending, link, stats>>

WorkerExits ==
  /\ workers.halt /\ workers.live > 0
  /\ workers' = [workers EXCEPT !.live = @ - 1]
  /\ UNCHANGED <<taskVars, daemonVars, shareVars, link, stats, tally>>

-----------------------------------------------------------------------------
Verdicts == {"accepted", "rejected", "stale"}

Next ==
  \/ RequestStop
  \/ \E n \in 0..MaxThreads : SetThreads(n)
  \/ TaskStarts \/ ConnectFails \/ ConnectSucceeds \/ SubscribeSent \/ Nap
  \/ SessionFails \/ JoinWorkers \/ CloseSession
  \/ Subscribed \/ Authorized \/ Notify \/ Ping \/ WriteDone \/ Submit
  \/ \E id \in pending, v \in Verdicts : ShareAnswered(id, v)
  \/ TickStops \/ Tick \/ ResizeWorkers \/ FinishTick
  \/ \E share \in BOOLEAN : HashBatch(share)
  \/ WorkerExits

Spec == Init /\ [][Next]_vars

\* What the task does next when it does not wait for the pool: the runtime
\* schedules it, a connect is over within CONNECT_TIMEOUT, and the pool takes
\* what is written to it (the code has no timeout for that).
TaskStep ==
  \/ TaskStarts \/ ConnectFails \/ ConnectSucceeds \/ SubscribeSent \/ Nap
  \/ JoinWorkers \/ CloseSession \/ WriteDone \/ ResizeWorkers \/ FinishTick

\* select! picks among the branches that are ready at random, so that a busy
\* pool cannot keep the ticker away for ever: that is strong fairness.
Fairness ==
  /\ WF_vars(TaskStep)
  /\ WF_vars(WorkerExits)
  /\ SF_vars(TickStops \/ Tick)

FairSpec == Spec /\ Fairness

-----------------------------------------------------------------------------
(* Properties.                                                             *)

\* No thread hashes without a claimed search space: whatever the order of the
\* pool's answers none starts before the space is known (it would build on the
\* extranonce2 of zeros), and none is left when the space is released.
WorkersHoldSpace ==
  workers.live > 0 => link.space /\ link.authorized

\* Every share is accounted for: the pool can decide the fate of each once,
\* however often it answers and whatever was forgotten, resized or lost.
ShareAccounting ==
  /\ tally.found = queue + tally.submitted + tally.undelivered
  /\ tally.submitted = Cardinality(pending) + stats.accepted + stats.rejected
                         + stats.stale + tally.unanswered

\* Every hash enters the rig's total once, across ticks, resizes and new
\* connections, save those between the last collect and the exit of a thread.
HashesCountedOnce ==
  tally.hashed = stats.hashes + (workers.sum - workers.last) + tally.missed

\* What the dashboard shows of a rig is so: a rig that is shown stopped,
\* connecting or waiting has no thread and no search space, one with threads is
\* shown connected and without the error of an earlier connection, and one is
\* shown connected or mining only in the connection that earned it.
ShownIsSo ==
  /\ stats.state \in {"stopped", "connecting", "retrying"} =>
       workers.live = 0 /\ ~ link.space
  /\ workers.live > 0 => stats.connected /\ ~ stats.error
                         /\ stats.threads = workers.slots
  /\ stats.connected => link.authorized
  /\ stats.state = "mining" => link.job

\* The daemon tells a rig's task by its stop flag and by the state it shows.  As
\* such it is the task RigManager builds on: it comes up when first polled, and
\* it is shown stopped only when it was asked to stop, and then for good.
Task == INSTANCE RigTask WITH
  state <- IF phase = "spawned" THEN "new"
           ELSE IF stats.state = "stopped" THEN "ended" ELSE "running"

ImplementsTask == Task!Spec

\* A stop reaches the rig in whatever it is doing.
StopIsObeyed == stop ~> phase = "stopped"

\* A dropped connection is tried again, unless the rig is stopped.
DropsAreRetried ==
  phase = "dropping" ~>
    phase = "connecting" \/ stop \/ stats.reconnects = MaxRetries

\* A pool that has gone silent is dropped, whatever else it sends or leaves unanswered:
\* once threads run (JOB_TIMEOUT: the connection is wedged).
SilenceIsEnded ==
  phase = "session" /\ link.started /\ link.quiet > JobTimeout ~>
    phase = "dropping" \/ link.quiet = 0

\* A new thread count is applied to a rig whose threads run.
ResizeIsApplied ==
  \A n \in 0..MaxThreads :
    link.started /\ wanted = n ~>
      workers.slots = AtLeastOne(n) \/ wanted # n \/ phase \in {"dropping", "closing"}
=============================================================================
