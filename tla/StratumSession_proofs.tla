------------------------ MODULE StratumSession_proofs ------------------------
(***************************************************************************)
(* Proofs about one rig's stratum task.  The two accounts (of shares and   *)
(* of hashes) and what the rig shows are proved for any number of threads, *)
(* any timeout and any number of connections.  The strengthening says what *)
(* is left behind where: outside a session there is no thread, no pending  *)
(* share and a new SessionState; before start_workers() no thread; and a   *)
(* counter is never collected beyond what the threads have hashed.         *)
(***************************************************************************)
EXTENDS StratumSession, FiniteSetTheorems, TLAPS

Outside == {"spawned", "connecting", "sleeping", "stopped"}

\* A session that has not subscribed yet, or that failed and is dropped.
Unsubscribed == {"subscribing", "dropping", "closing"}

\* The threads' counters are collected up to what they hold, and the number
\* shown is that of the slots.  There are no threads before start_workers(),
\* nor after the join.
WorkersInv ==
  /\ workers.last <= workers.sum
  /\ stats.threads = workers.slots
  /\ ~ link.started \/ phase = "closing" =>
       workers.live = 0 /\ workers.slots = 0 /\ workers.sum = workers.last

\* The order of the handshake; its two ids are taken.
LinkInv ==
  /\ link.ids >= AuthorizeId
  /\ link.subscribed => link.space
  /\ link.started => link.subscribed /\ link.authorized

\* A connection leaves nothing behind, and is shown for what it is.
PhaseInv ==
  /\ phase \in Outside =>
       /\ link = NewLink
       /\ ~ stats.connected
       /\ stats.state \in {"stopped", "connecting", "retrying"}
  /\ phase \notin Outside =>
       /\ stats.state \in {"connecting", "authorizing", "mining"}
       /\ link.authorized => stats.connected /\ ~ stats.error
       /\ stats.connected => link.authorized
       /\ stats.state = "mining" => link.job
       /\ stats.state = "connecting" => phase \in Unsubscribed /\ ~ link.space /\ ~ link.started
  /\ phase \in {"connecting", "subscribing"} => stats.state = "connecting"
  /\ phase \in Outside \union {"dropping", "closing"} => pending = {}
  /\ phase = "resizing" => link.started

Inv ==
  /\ TypeOK
  /\ WorkersInv
  /\ LinkInv
  /\ PhaseInv
  /\ HashesCountedOnce
  /\ ShareAccounting

-----------------------------------------------------------------------------
(* Lemmas.                                                                 *)

\* The ids of the pending shares are finitely many and were all handed out.
LEMMA PendingFinite ==
  ASSUME TypeOK
  PROVE  /\ IsFiniteSet(pending)
         /\ Cardinality(pending) \in Nat
<1>1. link.ids \in Nat /\ AuthorizeId + 1 \in Int
  BY DEF TypeOK, Link, AuthorizeId
<1>2. IsFiniteSet((AuthorizeId + 1)..link.ids)
  BY <1>1, FS_Interval
<1>3. IsFiniteSet(pending)
  BY <1>2, FS_Subset DEF TypeOK
<1> QED
  BY <1>3, FS_CardinalityType

\* collect_hashes() takes all there is, and never a negative amount.
LEMMA CollectedAll ==
  ASSUME TypeOK, WorkersInv
  PROVE  /\ Collected = workers.sum - workers.last
         /\ Collected \in Nat
BY DEF TypeOK, Workers, WorkersInv, Collected

\* Forgetting the old shares splits the pending ones in two.
LEMMA ExpireSplits ==
  ASSUME TypeOK, NEW cut \in Nat
  PROVE  LET kept == {id \in pending : id > cut}
             gone == {id \in pending : id <= cut}
         IN  /\ Cardinality(kept) \in Nat
             /\ Cardinality(gone) \in Nat
             /\ Cardinality(pending) = Cardinality(kept) + Cardinality(gone)
<1> DEFINE kept == {id \in pending : id > cut}
           gone == {id \in pending : id <= cut}
<1>1. \A id \in pending : id \in Nat
  BY DEF TypeOK, AuthorizeId
<1>2. pending = kept \union gone /\ kept \intersect gone = {}
  BY <1>1
<1>3. IsFiniteSet(kept) /\ IsFiniteSet(gone)
  BY PendingFinite, FS_Subset
<1>4. Cardinality(kept) \in Nat /\ Cardinality(gone) \in Nat
  BY <1>3, FS_CardinalityType
<1>5. Cardinality(kept \intersect gone) = 0
  BY <1>2, FS_EmptySet
<1>6. Cardinality(kept \union gone)
        = Cardinality(kept) + Cardinality(gone) - Cardinality(kept \intersect gone)
  <2> HIDE DEF kept, gone
  <2> QED
    BY <1>3, FS_Union
<1>7. Cardinality(pending) = Cardinality(kept) + Cardinality(gone)
  <2> HIDE DEF kept, gone
  <2> QED
    BY <1>2, <1>4, <1>5, <1>6
<1> QED
  BY <1>4, <1>7

-----------------------------------------------------------------------------
\* spawn_workers() yields typed slots.
LEMMA SpawnedTyped ==
  ASSUME NEW n \in 0..MaxThreads
  PROVE  Spawned(n) \in Workers
<1>1. 0 \in 0..MaxThreads /\ 0 \in Nat
  BY ThreadsAssumption
<1> QED
  BY <1>1, Zenon DEF Spawned, Workers

\* run() keeps its variables typed, however the session ended.
LEMMA SuperviseTyped ==
  ASSUME TypeOK, NEW failed \in BOOLEAN, NEW lasted \in BOOLEAN,
         Supervise(failed, lasted)
  PROVE  /\ phase' \in Phase /\ stats' \in Stats
         /\ naps' \in Nat /\ backoff' \in 1..MaxBackoff
<1> USE ThreadsAssumption, TimeAssumption
<1>1. phase' \in Phase
  BY DEF Supervise, Phase
<1>2. stats' \in Stats
  <2>1. stats \in Stats /\ stop \in BOOLEAN
    BY DEF TypeOK
  <2>2. (stats.error \/ failed) \in BOOLEAN /\ 0 \in 0..MaxThreads
    OBVIOUS
  <2>3. CASE stop
    <3>1. stats' = [stats EXCEPT
              !.error = stats.error \/ failed, !.connected = FALSE,
              !.threads = 0, !.reconnects = stats.reconnects,
              !.state = "stopped"]
      BY <2>3 DEF Supervise
    <3>2. stats.reconnects \in Nat
      BY <2>1 DEF Stats
    <3> QED
      BY <2>1, <2>2, <3>1, <3>2 DEF Stats
  <2>4. CASE ~ stop
    <3>1. stats' = [stats EXCEPT
              !.error = stats.error \/ failed, !.connected = FALSE,
              !.threads = 0, !.reconnects = stats.reconnects + 1,
              !.state = "retrying"]
      BY <2>4 DEF Supervise
    <3>2. stats.reconnects + 1 \in Nat
      BY <2>1 DEF Stats
    <3> QED
      BY <2>1, <2>2, <3>1, <3>2 DEF Stats
  <2> QED
    BY <2>3, <2>4
<1> DEFINE wait == IF lasted THEN 1 ELSE backoff
<1>3. wait \in 1..MaxBackoff
  BY DEF TypeOK
<1>4. wait * Naps \in Nat
  BY <1>3
<1>5. /\ naps' = IF stop THEN naps ELSE wait * Naps
      /\ backoff' = IF stop THEN backoff
                    ELSE IF 2 * wait > MaxBackoff THEN MaxBackoff ELSE 2 * wait
  BY DEF Supervise
<1>6. naps \in Nat /\ backoff \in 1..MaxBackoff
  BY DEF TypeOK
<1>7. naps' \in Nat
  <2> HIDE DEF wait
  <2> QED
    BY <1>4, <1>5, <1>6
<1>8. backoff' \in 1..MaxBackoff
  <2> HIDE DEF wait
  <2> QED
    BY <1>3, <1>5, <1>6
<1> QED
  BY <1>1, <1>2, <1>7, <1>8

\* So does a session that ends.
LEMMA EndSessionTyped ==
  ASSUME TypeOK, WorkersInv, NEW failed \in BOOLEAN, EndSession(failed)
  PROVE  TypeOK'
<1> USE ThreadsAssumption
<1>1. phase' \in Phase /\ link' \in Link /\ link'.ids = link.ids
  BY DEF EndSession, Phase, TypeOK, Link
<1>2. workers' \in Workers
  <2>1. workers \in Workers /\ workers.sum \in Nat
    BY DEF TypeOK, Workers
  <2>2. 0 \in 0..MaxThreads
    OBVIOUS
  <2>3. workers' = [workers EXCEPT !.last = workers.sum, !.halt = TRUE, !.resize = 0]
    BY DEF EndSession, Halting
  <2> QED
    BY <2>1, <2>2, <2>3 DEF Workers
<1>3. stats' \in Stats
  BY CollectedAll DEF EndSession, TypeOK, Stats
<1>4. tally' \in Tally
  <2>1. tally \in Tally /\ queue \in Nat /\ Cardinality(pending) \in Nat
    BY PendingFinite DEF TypeOK
  <2>2. tally' = [tally EXCEPT !.undelivered = @ + queue,
                               !.unanswered = @ + Cardinality(pending)]
    BY DEF EndSession
  <2>3. /\ tally.undelivered + queue \in Nat
        /\ tally.unanswered + Cardinality(pending) \in Nat
    BY <2>1 DEF Tally
  <2> QED
    BY <2>1, <2>2, <2>3, Zenon DEF Tally
<1> QED
  BY <1>1, <1>2, <1>3, <1>4 DEF EndSession, TypeOK, daemonVars

\* So does start_workers().
LEMMA StartTyped ==
  ASSUME TypeOK, NEW l \in Link, NEW s \in Stats, StartIfReady(l, s)
  PROVE  /\ link' \in Link /\ link'.ids = l.ids
         /\ workers' \in Workers /\ stats' \in Stats
<1> USE ThreadsAssumption
<1>1. AtLeastOne(wanted) \in 1..MaxThreads
  BY DEF TypeOK, AtLeastOne
<1>2. link' \in Link /\ link'.ids = l.ids
  BY DEF StartIfReady, Link
<1>3. workers' \in Workers
  <2>1. CASE ReadyToStart(l)
    <3>1. workers' = Spawned(AtLeastOne(wanted))
      BY <2>1 DEF StartIfReady
    <3> QED
      BY <1>1, <3>1, SpawnedTyped
  <2>2. CASE ~ ReadyToStart(l)
    BY <2>2 DEF StartIfReady, TypeOK
  <2> QED
    BY <2>1, <2>2
<1>4. stats' \in Stats
  BY <1>1 DEF StartIfReady, Stats
<1> QED
  BY <1>2, <1>3, <1>4

-----------------------------------------------------------------------------
\* Every step keeps the types.
LEMMA TypeStep ==
  ASSUME TypeOK, WorkersInv, LinkInv, PhaseInv, [Next]_vars
  PROVE  TypeOK'
<1> USE ThreadsAssumption, TimeAssumption
<1>1. CASE RequestStop
  BY <1>1 DEF RequestStop, TypeOK, taskVars, shareVars
<1>2. CASE \E n \in 0..MaxThreads : SetThreads(n)
  BY <1>2 DEF SetThreads, TypeOK, Tally, taskVars, shareVars
<1>3. CASE TaskStarts
  BY <1>3 DEF TaskStarts, Connecting, TypeOK, Phase, Stats, daemonVars, shareVars
<1>4. CASE ConnectFails
  BY <1>4, SuperviseTyped DEF ConnectFails, TypeOK, daemonVars, shareVars
<1>5. CASE ConnectSucceeds
  <2>1. link' \in Link /\ link'.ids = AuthorizeId
    BY <1>5 DEF ConnectSucceeds, NewLink, Link, AuthorizeId
  <2>2. stats' \in Stats
    BY <1>5 DEF ConnectSucceeds, TypeOK
  <2>3. pending = {} /\ pending' = pending
    BY <1>5 DEF ConnectSucceeds, PhaseInv, Outside, shareVars
  <2> QED
    BY <1>5, <2>1, <2>2, <2>3 DEF ConnectSucceeds, TypeOK, Phase, daemonVars, shareVars
<1>6. CASE Nap
  BY <1>6 DEF Nap, Connecting, TypeOK, Phase, Stats, daemonVars, shareVars
<1>7. CASE SessionFails
  BY <1>7, EndSessionTyped DEF SessionFails
<1>8. CASE JoinWorkers
  <2>1. workers' \in Workers
    BY <1>8 DEF JoinWorkers, NoWorkers, Workers
  <2>2. stats' \in Stats
    BY <1>8 DEF JoinWorkers, TypeOK, Stats
  <2>3. tally' \in Tally
    BY <1>8 DEF JoinWorkers, TypeOK, WorkersInv, Workers, Tally
  <2> QED
    BY <1>8, <2>1, <2>2, <2>3 DEF JoinWorkers, TypeOK, Phase, daemonVars, shareVars
<1>9. CASE CloseSession
  <2>1. PICK lasted \in BOOLEAN : Supervise(link.failed, lasted)
    BY <1>9 DEF CloseSession
  <2>2. link.failed \in BOOLEAN
    BY DEF TypeOK, Link
  <2>3. /\ phase' \in Phase /\ stats' \in Stats
        /\ naps' \in Nat /\ backoff' \in 1..MaxBackoff
    BY <2>1, <2>2, SuperviseTyped
  <2>4. link' \in Link /\ link'.ids = AuthorizeId
    BY <1>9 DEF CloseSession, NewLink, Link, AuthorizeId
  <2>5. pending = {} /\ pending' = pending
    BY <1>9 DEF CloseSession, PhaseInv, shareVars
  <2> QED
    BY <1>9, <2>3, <2>4, <2>5 DEF CloseSession, TypeOK, daemonVars, shareVars
<1>10. CASE Subscribed
  <2>1. /\ [link EXCEPT !.subscribed = TRUE, !.space = TRUE] \in Link
        /\ [link EXCEPT !.subscribed = TRUE, !.space = TRUE].ids = link.ids
    BY DEF TypeOK, Link
  <2>2. /\ link' \in Link /\ link'.ids = link.ids
        /\ workers' \in Workers /\ stats' \in Stats
    BY <1>10, <2>1, StartTyped DEF Subscribed, TypeOK
  <2> QED
    BY <1>10, <2>2 DEF Subscribed, TypeOK, taskVars, daemonVars, shareVars
<1>11. CASE Authorized
  <2>1. /\ [link EXCEPT !.authorized = TRUE] \in Link
        /\ [link EXCEPT !.authorized = TRUE].ids = link.ids
    BY DEF TypeOK, Link
  <2>2. [stats EXCEPT !.connected = TRUE, !.error = FALSE] \in Stats
    BY DEF TypeOK, Stats
  <2>3. /\ link' \in Link /\ link'.ids = link.ids
        /\ workers' \in Workers /\ stats' \in Stats
    BY <1>11, <2>1, <2>2, StartTyped DEF Authorized
  <2> QED
    BY <1>11, <2>3 DEF Authorized, TypeOK, taskVars, daemonVars, shareVars
<1>12. CASE Notify
  <2>1. link' \in Link /\ link'.ids = link.ids
    <3>1. 0 \in 0..(JobTimeout + 2) /\ link \in Link
      BY DEF TypeOK
    <3>2. link' = [link EXCEPT !.job = TRUE, !.quiet = 0]
      BY <1>12 DEF Notify
    <3> QED
      BY <3>1, <3>2 DEF Link
  <2>2. stats' \in Stats
    BY <1>12 DEF Notify, TypeOK, Stats
  <2> QED
    BY <1>12, <2>1, <2>2 DEF Notify, TypeOK, taskVars, daemonVars, shareVars
<1>13. CASE Ping
  BY <1>13 DEF Ping, TypeOK, Phase, daemonVars, shareVars
<1>14. CASE WriteDone
  BY <1>14 DEF WriteDone, TypeOK, Phase, daemonVars, shareVars
<1>15. CASE Submit
  <2>1. link' \in Link /\ link'.ids = link.ids + 1 /\ link.ids \in Nat
    BY <1>15 DEF Submit, TypeOK, Link
  <2>2. tally' \in Tally
    BY <1>15 DEF Submit, TypeOK, Tally
  <2>3. link.ids >= AuthorizeId
    BY DEF LinkInv
  <2>4. pending' \subseteq (AuthorizeId + 1)..link'.ids
    BY <1>15, <2>1, <2>3 DEF Submit, TypeOK, AuthorizeId
  <2> QED
    BY <1>15, <2>1, <2>2, <2>4 DEF Submit, TypeOK, Phase, daemonVars
<1>16. CASE \E id \in pending, v \in Verdicts : ShareAnswered(id, v)
  BY <1>16 DEF ShareAnswered, Answered, Verdicts, TypeOK, Stats, taskVars, daemonVars
<1>17. CASE TickStops
  BY <1>17, EndSessionTyped DEF TickStops
<1>18. CASE Tick
  <2>1. link' \in Link /\ link'.ids = link.ids
    BY <1>18 DEF Tick, TypeOK, Link
  <2>2. stats' \in Stats
    BY <1>18, CollectedAll DEF Tick, TypeOK, Stats
  <2>3. AtLeastOne(wanted) \in 0..MaxThreads
    BY DEF TypeOK, AtLeastOne
  <2>4. phase' \in Phase
    BY <1>18 DEF Tick, Phase
  <2>5. \A n \in 0..MaxThreads : Halting(n) \in Workers
    BY DEF TypeOK, Halting, Workers
  <2>6. [workers EXCEPT !.last = workers.sum] \in Workers
    BY DEF TypeOK, Workers
  <2>7. workers' \in Workers
    BY <1>18, <2>3, <2>5, <2>6 DEF Tick
  <2> QED
    BY <1>18, <2>1, <2>2, <2>4, <2>7 DEF Tick, TypeOK, daemonVars, shareVars
<1>19. CASE ResizeWorkers
  <2>1. workers' \in Workers
    BY <1>19, SpawnedTyped DEF ResizeWorkers, TypeOK, Workers
  <2>2. stats' \in Stats
    BY <1>19 DEF ResizeWorkers, TypeOK, Workers, Stats
  <2>3. tally' \in Tally
    BY <1>19 DEF ResizeWorkers, TypeOK, WorkersInv, Workers, Tally
  <2> QED
    BY <1>19, <2>1, <2>2, <2>3 DEF ResizeWorkers, TypeOK, Phase, daemonVars, shareVars
<1>20. CASE FinishTick
  <2>1. CASE EndSession(TRUE)
    BY <2>1, EndSessionTyped
  <2>2. CASE \E cut \in {AuthorizeId} \union pending : Expire(cut)
    <3>1. PICK cut \in {AuthorizeId} \union pending : Expire(cut)
      BY <2>2
    <3>2. cut \in Nat
      BY DEF TypeOK, AuthorizeId
    <3>3. tally' \in Tally
      <4> DEFINE gone == Cardinality({id \in pending : id <= cut})
      <4>1. gone \in Nat /\ tally \in Tally
        BY <3>2, ExpireSplits DEF TypeOK
      <4>2. tally' = [tally EXCEPT !.unanswered = @ + gone]
        BY <3>1 DEF Expire
      <4> HIDE DEF gone
      <4>3. tally.unanswered + gone \in Nat
        BY <4>1 DEF Tally
      <4> QED
        BY <4>1, <4>2, <4>3, Zenon DEF Tally
    <3> QED
      BY <3>1, <3>3 DEF Expire, TypeOK, Phase, daemonVars
  <2> QED
    BY <1>20, <2>1, <2>2 DEF FinishTick
<1>21. CASE \E share \in BOOLEAN : HashBatch(share)
  <2>1. PICK share \in BOOLEAN : HashBatch(share)
    BY <1>21
  <2>2. workers' \in Workers
    BY <2>1 DEF HashBatch, TypeOK, Workers
  <2>3. queue' \in Nat
    BY <2>1 DEF HashBatch, TypeOK
  <2>4. tally' \in Tally
    <3>1. /\ tally \in Tally
          /\ tally.hashed + 1 \in Nat /\ tally.found + 1 \in Nat
          /\ tally.found \in Nat
          /\ tally.undelivered + 1 \in Nat /\ tally.undelivered \in Nat
      BY DEF TypeOK, Tally
    <3>2. \E f \in {tally.found, tally.found + 1},
             u \in {tally.undelivered, tally.undelivered + 1} :
            tally' = [tally EXCEPT !.hashed = @ + 1, !.found = f, !.undelivered = u]
      BY <2>1 DEF HashBatch
    <3> QED
      BY <3>1, <3>2, Zenon DEF Tally
  <2> QED
    BY <2>1, <2>2, <2>3, <2>4 DEF HashBatch, TypeOK, taskVars, daemonVars
<1>22. CASE WorkerExits
  BY <1>22 DEF WorkerExits, TypeOK, Workers, taskVars, daemonVars, shareVars
<1>23. CASE UNCHANGED vars
  BY <1>23 DEF vars, TypeOK, taskVars, daemonVars, shareVars
<1>24. CASE SubscribeSent
  BY <1>24 DEF SubscribeSent, TypeOK, Phase, Stats, daemonVars, shareVars
<1> QED
  BY <1>1, <1>2, <1>3, <1>4, <1>5, <1>6, <1>7, <1>8, <1>9, <1>10, <1>11, <1>12,
     <1>13, <1>14, <1>15, <1>16, <1>17, <1>18, <1>19, <1>20, <1>21, <1>22, <1>23, <1>24
  DEF Next

-----------------------------------------------------------------------------
(* Every step keeps the rest of the invariant.                             *)

\* The handshake: nothing forgets an answer but a new connection.
LEMMA LinkStep ==
  ASSUME TypeOK, LinkInv, [Next]_vars
  PROVE  LinkInv'
<1> USE DEF LinkInv
<1>1. CASE UNCHANGED link
  BY <1>1
<1>2. CASE link' = NewLink
  BY <1>2 DEF NewLink, AuthorizeId
<1>3. CASE \E failed \in BOOLEAN : EndSession(failed)
  BY <1>3 DEF EndSession, TypeOK, Link
<1>4. CASE Subscribed
  BY <1>4 DEF Subscribed, StartIfReady, ReadyToStart, TypeOK, Link
<1>5. CASE Authorized
  BY <1>5 DEF Authorized, StartIfReady, ReadyToStart, TypeOK, Link
<1>6. CASE Notify \/ Submit \/ Tick
  <2>1. /\ link'.subscribed = link.subscribed /\ link'.space = link.space
        /\ link'.started = link.started /\ link'.authorized = link.authorized
        /\ link'.ids \in {link.ids, link.ids + 1}
    BY <1>6 DEF Notify, Submit, Tick, TypeOK, Link
  <2> QED
    BY <2>1 DEF TypeOK, Link, AuthorizeId
<1> QED
  BY <1>1, <1>2, <1>3, <1>4, <1>5, <1>6
  DEF Next, vars, RequestStop, SetThreads, TaskStarts, ConnectFails,
      ConnectSucceeds, SubscribeSent, Nap, SessionFails, JoinWorkers, CloseSession, Ping,
      WriteDone, ShareAnswered, TickStops, ResizeWorkers, FinishTick, Expire,
      HashBatch, WorkerExits

\* The threads: none before start_workers(), none after a join.
LEMMA WorkersStep ==
  ASSUME TypeOK, WorkersInv, LinkInv, PhaseInv, [Next]_vars
  PROVE  WorkersInv'
<1> USE DEF WorkersInv
<1> DEFINE Idle == workers.live = 0 /\ workers.slots = 0 /\ workers.sum = workers.last
<1>1. CASE \/ RequestStop \/ TaskStarts \/ SubscribeSent \/ Nap \/ Notify \/ Ping
           \/ WriteDone \/ Submit
           \/ \E n \in 0..MaxThreads : SetThreads(n)
           \/ \E id \in pending, v \in Verdicts : ShareAnswered(id, v)
           \/ \E cut \in {AuthorizeId} \union pending : Expire(cut)
           \/ UNCHANGED vars
  <2>1. /\ workers' = workers
        /\ phase' # "closing" \/ phase' = phase
    BY <1>1
    DEF RequestStop, SetThreads, TaskStarts, Connecting, SubscribeSent, Nap, Notify, Ping,
        WriteDone, Submit, ShareAnswered, Expire, vars, taskVars
  <2>2. stats'.threads = stats.threads
    BY <1>1
    DEF RequestStop, SetThreads, TaskStarts, Connecting, SubscribeSent, Nap, Notify, Ping,
        WriteDone, Submit, ShareAnswered, Verdicts, Expire, vars, TypeOK, Stats
  <2>3. link'.started = link.started
    BY <1>1
    DEF RequestStop, SetThreads, TaskStarts, SubscribeSent, Nap, Notify, Ping, WriteDone,
        Submit, ShareAnswered, Expire, vars, TypeOK, Link
  <2> QED
    BY <2>1, <2>2, <2>3
<1>2. CASE ConnectSucceeds
  <2>1. Idle
    BY <1>2 DEF ConnectSucceeds, PhaseInv, Outside, NewLink
  <2> QED
    BY <1>2, <2>1 DEF ConnectSucceeds, TypeOK, Stats
<1>3. CASE ConnectFails \/ CloseSession
  <2>1. Idle
    <3>1. CASE ConnectFails
      BY <3>1 DEF ConnectFails, PhaseInv, Outside, NewLink
    <3>2. CASE CloseSession
      BY <3>2 DEF CloseSession
    <3> QED
      BY <1>3, <3>1, <3>2
  <2>2. workers' = workers /\ stats'.threads = 0
    BY <1>3 DEF ConnectFails, CloseSession, Supervise, TypeOK, Stats
  <2> QED
    BY <2>1, <2>2
<1>4. CASE \E failed \in BOOLEAN : EndSession(failed)
  <2>1. /\ workers'.last = workers.sum /\ workers'.sum = workers.sum
        /\ workers'.live = workers.live /\ workers'.slots = workers.slots
    BY <1>4 DEF EndSession, Halting, TypeOK, Workers
  <2>2. stats'.threads = stats.threads /\ link'.started = link.started
    BY <1>4 DEF EndSession, TypeOK, Stats, Link
  <2>3. phase' = "dropping"
    BY <1>4 DEF EndSession
  <2> QED
    BY <2>1, <2>2, <2>3 DEF TypeOK, Workers
<1>5. CASE JoinWorkers
  BY <1>5 DEF JoinWorkers, NoWorkers, TypeOK, Stats
<1>6. CASE Subscribed \/ Authorized
  <2>1. PICK l \in Link, s \in Stats :
          /\ StartIfReady(l, s)
          /\ l.started = link.started
          /\ s.threads = stats.threads
    <3>1. CASE Subscribed
      <4>1. /\ [link EXCEPT !.subscribed = TRUE, !.space = TRUE] \in Link
            /\ [link EXCEPT !.subscribed = TRUE, !.space = TRUE].started = link.started
        BY DEF TypeOK, Link
      <4> QED
        BY <3>1, <4>1 DEF Subscribed, TypeOK
    <3>2. CASE Authorized
      <4>1. /\ [link EXCEPT !.authorized = TRUE] \in Link
            /\ [link EXCEPT !.authorized = TRUE].started = link.started
        BY DEF TypeOK, Link
      <4>2. /\ [stats EXCEPT !.connected = TRUE, !.error = FALSE] \in Stats
            /\ [stats EXCEPT !.connected = TRUE, !.error = FALSE].threads = stats.threads
        BY DEF TypeOK, Stats
      <4> QED
        BY <3>2, <4>1, <4>2 DEF Authorized
    <3> QED
      BY <1>6, <3>1, <3>2
  <2>2. phase' = phase /\ phase = "session"
    BY <1>6 DEF Subscribed, Authorized, taskVars
  <2>3. CASE ReadyToStart(l)
    BY <2>1, <2>2, <2>3 DEF StartIfReady, Spawned, Link, Stats
  <2>4. CASE ~ ReadyToStart(l)
    BY <2>1, <2>2, <2>4 DEF StartIfReady
  <2> QED
    BY <2>3, <2>4
<1>7. CASE Tick
  <2>1. /\ workers'.last = workers.sum /\ workers'.sum = workers.sum
        /\ workers'.live = workers.live /\ workers'.slots = workers.slots
    BY <1>7 DEF Tick, Halting, TypeOK, Workers
  <2>2. stats'.threads = stats.threads /\ link'.started = link.started
    BY <1>7 DEF Tick, TypeOK, Stats, Link
  <2>3. phase' # "closing"
    BY <1>7 DEF Tick
  <2> QED
    BY <2>1, <2>2, <2>3 DEF TypeOK, Workers
<1>8. CASE ResizeWorkers
  <2>1. link'.started /\ phase' = "ticking"
    BY <1>8 DEF ResizeWorkers, PhaseInv
  <2>2. workers' = Spawned(workers.resize) /\ stats'.threads = workers.resize
    BY <1>8 DEF ResizeWorkers, TypeOK, Stats
  <2> QED
    BY <2>1, <2>2 DEF Spawned
<1>9. CASE WorkerExits \/ \E share \in BOOLEAN : HashBatch(share)
  <2>1. workers.live > 0
    BY <1>9 DEF WorkerExits, HashBatch
  <2>2. link.started /\ phase # "closing"
    BY <2>1
  <2>3. link' = link /\ stats' = stats /\ phase' = phase
    BY <1>9 DEF WorkerExits, HashBatch, taskVars
  <2>4. /\ workers'.last = workers.last /\ workers'.slots = workers.slots
        /\ workers'.sum \in {workers.sum, workers.sum + 1}
    BY <1>9 DEF WorkerExits, HashBatch, TypeOK, Workers
  <2> QED
    BY <2>2, <2>3, <2>4 DEF TypeOK, Workers
<1> QED
  BY <1>1, <1>2, <1>3, <1>4, <1>5, <1>6, <1>7, <1>8, <1>9
  DEF Next, SessionFails, TickStops, FinishTick

\* What a connection leaves behind, and what is shown of it.
LEMMA PhaseStep ==
  ASSUME TypeOK, WorkersInv, LinkInv, PhaseInv, [Next]_vars
  PROVE  PhaseInv'
<1> USE DEF PhaseInv, Outside, Unsubscribed
<1>1. CASE \/ RequestStop \/ \E n \in 0..MaxThreads : SetThreads(n)
           \/ WorkerExits \/ \E share \in BOOLEAN : HashBatch(share)
           \/ UNCHANGED vars
  BY <1>1 DEF RequestStop, SetThreads, WorkerExits, HashBatch, vars, taskVars, shareVars
<1>2. CASE TaskStarts \/ Nap
  BY <1>2 DEF TaskStarts, Nap, Connecting, shareVars, TypeOK, Stats
<1>3. CASE ConnectFails \/ CloseSession
  <2>1. PICK failed \in BOOLEAN, lasted \in BOOLEAN : Supervise(failed, lasted)
    BY <1>3 DEF ConnectFails, CloseSession, TypeOK, Link
  <2>2. /\ phase' \in {"stopped", "sleeping"}
        /\ ~ stats'.connected
        /\ stats'.state \in {"stopped", "retrying"}
    BY <2>1 DEF Supervise, TypeOK, Stats
  <2>3. link' = NewLink /\ pending' = {}
    BY <1>3 DEF ConnectFails, CloseSession, shareVars
  <2> QED
    BY <2>2, <2>3
<1>4. CASE ConnectSucceeds
  <2>1. /\ link' = NewLink /\ phase' = "subscribing"
        /\ stats'.state = "connecting" /\ ~ stats'.connected
    BY <1>4 DEF ConnectSucceeds
  <2> QED
    BY <2>1 DEF NewLink
<1>10. CASE SubscribeSent
  <2>1. /\ phase = "subscribing" /\ phase' = "writing" /\ link' = link
        /\ stats'.state = "authorizing" /\ stats'.connected = stats.connected
        /\ stats'.error = stats.error
    BY <1>10 DEF SubscribeSent, TypeOK, Stats
  <2> QED
    BY <2>1
<1>5. CASE SessionFails \/ TickStops \/ (FinishTick /\ EndSession(TRUE))
  <2>1. phase \notin Outside
    BY <1>5 DEF SessionFails, TickStops, FinishTick
  <2>2. PICK failed \in BOOLEAN : EndSession(failed)
    BY <1>5 DEF SessionFails, TickStops
  <2>3. phase' = "dropping" /\ pending' = {}
    BY <2>2 DEF EndSession
  <2>4. /\ link'.authorized = link.authorized /\ link'.job = link.job
        /\ link'.space = link.space /\ link'.started = link.started
        /\ stats'.state = stats.state /\ stats'.connected = stats.connected
        /\ stats'.error = stats.error
    BY <2>2 DEF EndSession, TypeOK, Link, Stats
  <2> QED
    BY <2>1, <2>3, <2>4
<1>6. CASE Subscribed
  <2>1. phase = "session" /\ phase' = phase
    BY <1>6 DEF Subscribed, taskVars
  <2>2. /\ link'.authorized = link.authorized /\ link'.job = link.job
        /\ stats'.state = stats.state /\ stats'.connected = stats.connected
        /\ stats'.error = stats.error
    BY <1>6 DEF Subscribed, StartIfReady, TypeOK, Link, Stats
  <2> QED
    BY <2>1, <2>2
<1>7. CASE Authorized
  <2>1. phase = "session" /\ phase' = phase
    BY <1>7 DEF Authorized, taskVars
  <2>2. /\ link'.authorized /\ link'.job = link.job
        /\ stats'.state = stats.state /\ stats'.connected /\ ~ stats'.error
    BY <1>7 DEF Authorized, StartIfReady, TypeOK, Link, Stats
  <2> QED
    BY <2>1, <2>2
<1>8. CASE Notify
  <2>1. phase = "session" /\ phase' = phase
    BY <1>8 DEF Notify, taskVars
  <2>2. /\ link'.authorized = link.authorized /\ link'.job
        /\ stats'.state = "mining" /\ stats'.connected = stats.connected
        /\ stats'.error = stats.error
    BY <1>8 DEF Notify, TypeOK, Link, Stats
  <2> QED
    BY <2>1, <2>2
<1>9. CASE \/ Ping \/ WriteDone \/ Submit \/ Tick \/ ResizeWorkers \/ JoinWorkers
           \/ \E id \in pending, v \in Verdicts : ShareAnswered(id, v)
           \/ FinishTick /\ \E cut \in {AuthorizeId} \union pending : Expire(cut)
  <2>1. phase \notin Outside /\ phase' \notin Outside
    BY <1>9
    DEF Ping, WriteDone, Submit, Tick, ResizeWorkers, JoinWorkers, ShareAnswered,
        FinishTick, Expire, taskVars
  <2>2. /\ phase' \notin {"dropping", "closing"} \/ (phase = "dropping" /\ pending' = pending)
        /\ phase' = "resizing" => link'.started
        /\ phase' # "subscribing" /\ (phase \in Unsubscribed => phase' = "closing")
    BY <1>9
    DEF Ping, WriteDone, Submit, Tick, ResizeTo, ResizeWorkers, JoinWorkers, ShareAnswered,
        FinishTick, Expire, taskVars, shareVars, TypeOK, Link
  <2>3. /\ link'.authorized = link.authorized /\ link'.job = link.job
        /\ link'.space = link.space /\ link'.started = link.started
    BY <1>9
    DEF Ping, WriteDone, Submit, Tick, ResizeWorkers, JoinWorkers, ShareAnswered,
        FinishTick, Expire, TypeOK, Link
  <2>4. /\ stats'.state = stats.state /\ stats'.connected = stats.connected
        /\ stats'.error = stats.error
    BY <1>9
    DEF Ping, WriteDone, Submit, Tick, ResizeWorkers, JoinWorkers, ShareAnswered, Verdicts,
        FinishTick, Expire, TypeOK, Stats
  <2> QED
    BY <2>1, <2>2, <2>3, <2>4
<1> QED
  BY <1>1, <1>2, <1>3, <1>4, <1>5, <1>6, <1>7, <1>8, <1>9, <1>10 DEF Next, FinishTick

-----------------------------------------------------------------------------
(* The accounts.                                                           *)

\* The account of the hashes: every collect takes all there is.
LEMMA HashStep ==
  ASSUME TypeOK, WorkersInv, PhaseInv, HashesCountedOnce, [Next]_vars
  PROVE  HashesCountedOnce'
<1> USE DEF HashesCountedOnce
<1> DEFINE Idle == workers.sum = workers.last
<1>1. CASE \E failed \in BOOLEAN : EndSession(failed)
  <2>1. /\ workers'.sum = workers.sum /\ workers'.last = workers.sum
        /\ stats'.hashes = stats.hashes + (workers.sum - workers.last)
        /\ tally'.hashed = tally.hashed /\ tally'.missed = tally.missed
    BY <1>1, CollectedAll DEF EndSession, Halting, TypeOK, Workers, Stats, Tally
  <2> QED
    BY <2>1 DEF TypeOK, Workers, Stats, Tally
<1>2. CASE Tick
  <2>1. /\ workers'.sum = workers.sum /\ workers'.last = workers.sum
        /\ stats'.hashes = stats.hashes + (workers.sum - workers.last)
        /\ tally'.hashed = tally.hashed /\ tally'.missed = tally.missed
    BY <1>2, CollectedAll DEF Tick, Halting, TypeOK, Workers, Stats, Tally
  <2> QED
    BY <2>1 DEF TypeOK, Workers, Stats, Tally
<1>3. CASE JoinWorkers \/ ResizeWorkers
  <2>1. /\ workers'.sum = 0 /\ workers'.last = 0
        /\ stats'.hashes = stats.hashes
        /\ tally'.hashed = tally.hashed
        /\ tally'.missed = tally.missed + (workers.sum - workers.last)
    BY <1>3
    DEF JoinWorkers, NoWorkers, ResizeWorkers, Spawned, TypeOK, Workers, Stats, Tally
  <2> QED
    BY <2>1 DEF TypeOK, Workers, Stats, Tally
<1>4. CASE Subscribed \/ Authorized
  <2>1. stats'.hashes = stats.hashes /\ tally' = tally
    BY <1>4 DEF Subscribed, Authorized, StartIfReady, TypeOK, Stats
  <2>2. CASE workers' = workers
    BY <2>1, <2>2
  <2>3. CASE workers' = Spawned(AtLeastOne(wanted)) /\ ~ link.started
    <3>1. Idle
      BY <2>3 DEF WorkersInv
    <3>2. workers'.sum - workers'.last = 0
      BY <2>3 DEF Spawned
    <3> QED
      BY <2>1, <3>1, <3>2 DEF TypeOK, Workers, Stats, Tally
  <2> QED
    BY <1>4, <2>2, <2>3 DEF Subscribed, Authorized, StartIfReady, ReadyToStart, TypeOK, Link
<1>5. CASE \E share \in BOOLEAN : HashBatch(share)
  <2>1. /\ workers'.sum = workers.sum + 1 /\ workers'.last = workers.last
        /\ stats' = stats
        /\ tally'.hashed = tally.hashed + 1 /\ tally'.missed = tally.missed
    BY <1>5 DEF HashBatch, TypeOK, Workers, Tally
  <2> QED
    BY <2>1 DEF TypeOK, Workers, Stats, Tally
<1>6. CASE \/ RequestStop \/ TaskStarts \/ ConnectFails \/ ConnectSucceeds
           \/ SubscribeSent \/ Nap
           \/ CloseSession \/ Notify \/ Ping \/ WriteDone \/ Submit \/ WorkerExits
           \/ \E n \in 0..MaxThreads : SetThreads(n)
           \/ \E id \in pending, v \in Verdicts : ShareAnswered(id, v)
           \/ \E cut \in {AuthorizeId} \union pending : Expire(cut)
           \/ UNCHANGED vars
  <2>1. workers'.sum = workers.sum /\ workers'.last = workers.last
    BY <1>6
    DEF RequestStop, SetThreads, TaskStarts, ConnectFails, ConnectSucceeds, SubscribeSent, Nap,
        CloseSession, Notify, Ping, WriteDone, Submit, ShareAnswered, Expire,
        WorkerExits, vars, TypeOK, Workers
  <2>2. stats'.hashes = stats.hashes
    BY <1>6
    DEF RequestStop, SetThreads, TaskStarts, Connecting, ConnectFails, Supervise,
        ConnectSucceeds, SubscribeSent, Nap, CloseSession, Notify, Ping, WriteDone, Submit,
        ShareAnswered, Verdicts, Expire, WorkerExits, vars, TypeOK, Stats
  <2>3. tally'.hashed = tally.hashed /\ tally'.missed = tally.missed
    BY <1>6
    DEF RequestStop, SetThreads, TaskStarts, ConnectFails, ConnectSucceeds, SubscribeSent, Nap,
        CloseSession, Notify, Ping, WriteDone, Submit, ShareAnswered, Expire,
        WorkerExits, vars, TypeOK, Tally
  <2> QED
    BY <2>1, <2>2, <2>3
<1> QED
  BY <1>1, <1>2, <1>3, <1>4, <1>5, <1>6 DEF Next, SessionFails, TickStops, FinishTick

\* The account of the shares: ids are fresh, and answered or forgotten once.
LEMMA ShareStep ==
  ASSUME TypeOK, PhaseInv, ShareAccounting, [Next]_vars
  PROVE  ShareAccounting'
<1> DEFINE Decided(s) == s.accepted + s.rejected + s.stale
<1>1. CASE \E failed \in BOOLEAN : EndSession(failed)
  <2>1. /\ tally'.found = tally.found /\ tally'.submitted = tally.submitted
        /\ tally'.undelivered = tally.undelivered + queue
        /\ tally'.unanswered = tally.unanswered + Cardinality(pending)
    BY <1>1 DEF EndSession, TypeOK, Tally
  <2>2. /\ stats'.accepted = stats.accepted /\ stats'.rejected = stats.rejected
        /\ stats'.stale = stats.stale
    BY <1>1 DEF EndSession, TypeOK, Stats
  <2>3. queue' = 0 /\ Cardinality(pending') = 0
    BY <1>1, FS_EmptySet DEF EndSession
  <2> QED
    BY <2>1, <2>2, <2>3, PendingFinite DEF ShareAccounting, TypeOK, Stats, Tally
<1>2. CASE Submit
  <2>1. link.ids + 1 \notin pending
    BY DEF TypeOK, Link
  <2>2. Cardinality(pending') = Cardinality(pending) + 1
    BY <1>2, <2>1, PendingFinite, FS_AddElement DEF Submit
  <2>3. /\ queue' = queue - 1 /\ stats' = stats
        /\ tally'.found = tally.found /\ tally'.submitted = tally.submitted + 1
        /\ tally'.undelivered = tally.undelivered /\ tally'.unanswered = tally.unanswered
    BY <1>2 DEF Submit, TypeOK, Tally
  <2> QED
    BY <2>2, <2>3, PendingFinite DEF ShareAccounting, TypeOK, Stats, Tally
<1>3. CASE \E id \in pending, v \in Verdicts : ShareAnswered(id, v)
  <2>1. PICK id \in pending, v \in Verdicts : ShareAnswered(id, v)
    BY <1>3
  <2>2. Cardinality(pending') = Cardinality(pending) - 1
    BY <2>1, PendingFinite, FS_RemoveElement DEF ShareAnswered, Answered
  <2>3. Decided(stats') = Decided(stats) + 1
    BY <2>1 DEF ShareAnswered, Verdicts, TypeOK, Stats
  <2>4. stats' \in Stats
    BY <2>1 DEF ShareAnswered, Verdicts, TypeOK, Stats
  <2>5. queue' = queue /\ tally' = tally
    BY <2>1 DEF ShareAnswered
  <2> QED
    BY <2>2, <2>3, <2>4, <2>5, PendingFinite DEF ShareAccounting, TypeOK, Stats, Tally
<1>4. CASE \E cut \in {AuthorizeId} \union pending : Expire(cut)
  <2>1. PICK cut \in {AuthorizeId} \union pending : Expire(cut)
    BY <1>4
  <2> DEFINE kept == Cardinality({id \in pending : id > cut})
             gone == Cardinality({id \in pending : id <= cut})
  <2>2. cut \in Nat
    BY DEF TypeOK, AuthorizeId
  <2>3. kept \in Nat /\ gone \in Nat /\ Cardinality(pending) = kept + gone
    BY <2>2, ExpireSplits
  <2>4. /\ Cardinality(pending') = kept
        /\ tally' = [tally EXCEPT !.unanswered = @ + gone]
        /\ queue' = queue /\ stats' = stats
    BY <2>1 DEF Expire
  <2> HIDE DEF kept, gone
  <2>5. /\ tally'.found = tally.found /\ tally'.submitted = tally.submitted
        /\ tally'.undelivered = tally.undelivered
        /\ tally'.unanswered = tally.unanswered + gone
    BY <2>4 DEF TypeOK, Tally
  <2> QED
    BY <2>3, <2>4, <2>5 DEF ShareAccounting, TypeOK, Stats, Tally
<1>5. CASE \E share \in BOOLEAN : HashBatch(share)
  <2>1. PICK share \in BOOLEAN : HashBatch(share)
    BY <1>5
  <2>2. pending' = pending /\ stats' = stats
    BY <2>1 DEF HashBatch
  <2>3. /\ tally'.submitted = tally.submitted
        /\ tally'.unanswered = tally.unanswered
    BY <2>1 DEF HashBatch, TypeOK, Tally
  <2>4. /\ share /\ phase # "dropping" =>
             /\ queue' = queue + 1 /\ tally'.found = tally.found + 1
             /\ tally'.undelivered = tally.undelivered
        /\ share /\ phase = "dropping" =>
             /\ queue' = queue /\ tally'.found = tally.found + 1
             /\ tally'.undelivered = tally.undelivered + 1
        /\ ~ share =>
             /\ queue' = queue /\ tally'.found = tally.found
             /\ tally'.undelivered = tally.undelivered
    BY <2>1 DEF HashBatch, TypeOK, Tally
  <2> QED
    BY <2>2, <2>3, <2>4 DEF ShareAccounting, TypeOK, Tally
<1>6. CASE \/ RequestStop \/ TaskStarts \/ ConnectFails \/ ConnectSucceeds
           \/ SubscribeSent \/ Nap
           \/ JoinWorkers \/ CloseSession \/ Subscribed \/ Authorized \/ Notify \/ Ping
           \/ WriteDone \/ Tick \/ ResizeWorkers \/ WorkerExits
           \/ \E n \in 0..MaxThreads : SetThreads(n)
           \/ UNCHANGED vars
  <2>1. queue' = queue /\ pending' = pending
    BY <1>6
    DEF RequestStop, SetThreads, TaskStarts, ConnectFails, ConnectSucceeds, SubscribeSent, Nap,
        JoinWorkers,
        CloseSession, Subscribed, Authorized, Notify, Ping, WriteDone, Tick,
        ResizeWorkers, WorkerExits, vars, shareVars
  <2>2. /\ stats'.accepted = stats.accepted /\ stats'.rejected = stats.rejected
        /\ stats'.stale = stats.stale
    BY <1>6
    DEF RequestStop, SetThreads, TaskStarts, Connecting, ConnectFails, Supervise,
        ConnectSucceeds, SubscribeSent, Nap, JoinWorkers, CloseSession, Subscribed, Authorized,
        StartIfReady, Notify, Ping, WriteDone, Tick, ResizeWorkers, WorkerExits,
        vars, TypeOK, Stats
  <2>3. /\ tally'.found = tally.found /\ tally'.submitted = tally.submitted
        /\ tally'.undelivered = tally.undelivered /\ tally'.unanswered = tally.unanswered
    BY <1>6
    DEF RequestStop, SetThreads, TaskStarts, ConnectFails, ConnectSucceeds, SubscribeSent, Nap,
        JoinWorkers,
        CloseSession, Subscribed, Authorized, StartIfReady, Notify, Ping, WriteDone, Tick,
        ResizeWorkers, WorkerExits, vars, TypeOK, Tally
  <2> QED
    BY <2>1, <2>2, <2>3 DEF ShareAccounting
<1> QED
  BY <1>1, <1>2, <1>3, <1>4, <1>5, <1>6 DEF Next, SessionFails, TickStops, FinishTick

-----------------------------------------------------------------------------
(* The invariant, and what follows from it.                                *)

\* A rig that was just spawned.
LEMMA InitInv == Init => Inv
<1> SUFFICES ASSUME Init PROVE Inv
  OBVIOUS
<1> USE ThreadsAssumption, TimeAssumption DEF Init
<1>1. link \in Link /\ workers \in Workers
  <2>1. 0 \in 0..(JobTimeout + 2) /\ 0 \in 0..MaxThreads
    OBVIOUS
  <2> QED
    BY <2>1 DEF NewLink, Link, NoWorkers, Workers, AuthorizeId
<1>2. stats \in Stats /\ tally \in Tally
  <2>1. 0 \in 0..MaxThreads
    OBVIOUS
  <2> QED
    BY <2>1 DEF NewStats, Stats, NewTally, Tally
<1>3. TypeOK
  <2>1. wanted \in 0..MaxThreads /\ backoff \in 1..MaxBackoff
    OBVIOUS
  <2> QED
    BY <1>1, <1>2, <2>1 DEF TypeOK, Phase
<1>4. WorkersInv /\ LinkInv /\ PhaseInv
  BY DEF WorkersInv, LinkInv, PhaseInv, Outside, NewLink, NoWorkers, NewStats, AuthorizeId
<1>5. HashesCountedOnce /\ ShareAccounting
  BY FS_EmptySet DEF HashesCountedOnce, ShareAccounting, NewTally, NewStats, NoWorkers
<1> QED
  BY <1>3, <1>4, <1>5 DEF Inv

\* The invariant is inductive.
LEMMA NextInv == Inv /\ [Next]_vars => Inv'
BY TypeStep, WorkersStep, LinkStep, PhaseStep, HashStep, ShareStep DEF Inv

\* It holds throughout.
LEMMA Invariance == Spec => []Inv
BY InitInv, NextInv, PTL DEF Spec

\* Types, for any number of threads and whatever the pool and the daemon do.
THEOREM TypeCorrect == Spec => []TypeOK
<1>1. Inv => TypeOK
  BY DEF Inv
<1> QED
  BY <1>1, Invariance, PTL

\* stratum.rs:159, 648: the threads of a rig hash only while its session holds
\* the search space it claimed.
THEOREM ThreadsHoldSpace == Spec => []WorkersHoldSpace
<1>1. Inv => WorkersHoldSpace
  BY DEF Inv, WorkersInv, LinkInv, TypeOK, Workers, WorkersHoldSpace
<1> QED
  BY <1>1, Invariance, PTL

\* stratum.rs:325, 610, 641: no share is counted twice, none is lost without
\* having gone unanswered or undelivered.
THEOREM SharesAccountedFor == Spec => []ShareAccounting
<1>1. Inv => ShareAccounting
  BY DEF Inv
<1> QED
  BY <1>1, Invariance, PTL

\* stratum.rs:471, 499: the rig's total counts every batch at most once, and
\* misses only what a halted thread hashed after the last collect.
THEOREM HashesAccountedFor == Spec => []HashesCountedOnce
<1>1. Inv => HashesCountedOnce
  BY DEF Inv
<1> QED
  BY <1>1, Invariance, PTL

\* stratum.rs:60-98, 304: what the daemon shows of a rig agrees with what the
\* rig's task is doing.
THEOREM RigShownTruly == Spec => []ShownIsSo
<1>1. Inv => ShownIsSo
  <2> SUFFICES ASSUME Inv PROVE ShownIsSo
    OBVIOUS
  <2>1. stats.state \in {"stopped", "connecting", "retrying"} =>
          workers.live = 0 /\ ~ link.space
    <3>1. CASE phase \in Outside
      BY <3>1 DEF Inv, PhaseInv, WorkersInv, NewLink
    <3>2. CASE phase \notin Outside
      BY <3>2 DEF Inv, PhaseInv, WorkersInv
    <3> QED
      BY <3>1, <3>2
  <2>2. workers.live > 0 => stats.connected /\ ~ stats.error
                            /\ stats.threads = workers.slots
    <3> SUFFICES ASSUME workers.live > 0
                 PROVE  stats.connected /\ ~ stats.error /\ stats.threads = workers.slots
      OBVIOUS
    <3>1. link.started /\ link.authorized
      BY DEF Inv, WorkersInv, LinkInv
    <3>2. phase \notin Outside
      BY <3>1 DEF Inv, PhaseInv, NewLink
    <3> QED
      BY <3>1, <3>2 DEF Inv, PhaseInv, WorkersInv
  <2>3. /\ stats.connected => link.authorized
        /\ stats.state = "mining" => link.job
    BY DEF Inv, PhaseInv
  <2> QED
    BY <2>1, <2>2, <2>3 DEF ShownIsSo
<1> QED
  BY <1>1, Invariance, PTL
-----------------------------------------------------------------------------
(* The task as the daemon sees it.                                         *)

\* Once it was polled, a task is shown stopped only when it has ended.
TaskInv == phase # "spawned" => (stats.state = "stopped" <=> phase = "stopped")

Seen == IF phase = "spawned" THEN "new"
        ELSE IF stats.state = "stopped" THEN "ended" ELSE "running"

\* Every step is a step of the abstract task, or none: it comes up or ends at
\* its first poll, and ends later only where run() has looked at the flag.
LEMMA TaskSimulated ==
  Inv /\ Inv' /\ TaskInv /\ [Next]_vars => TaskInv' /\ [Task!Next]_<<Seen, stop>>
<1> SUFFICES ASSUME Inv, Inv', TaskInv, [Next]_vars
             PROVE  TaskInv' /\ [Task!Next]_<<Seen, stop>>
  OBVIOUS
<1> USE DEF TaskInv, Seen
<1>t. stats \in Stats /\ stop \in BOOLEAN
  BY DEF Inv, TypeOK
<1>1. CASE RequestStop
  <2>1. phase' = phase /\ stats' = stats /\ stop'
    BY <1>1 DEF RequestStop, taskVars
  <2> QED
    BY <1>1, <2>1 DEF RequestStop, Task!Next, Task!AskToStop
<1>2. CASE \/ \E n \in 0..MaxThreads : SetThreads(n)
           \/ WorkerExits \/ \E share \in BOOLEAN : HashBatch(share)
           \/ UNCHANGED vars
  <2>1. UNCHANGED <<phase, stats, stop>>
    BY <1>2 DEF SetThreads, WorkerExits, HashBatch, vars, taskVars, daemonVars
  <2> QED
    BY <2>1
<1>3. CASE TaskStarts
  BY <1>3, <1>t
  DEF TaskStarts, Connecting, daemonVars, Stats, Task!Next, Task!Poll
<1>4. CASE Nap
  <2>1. phase = "sleeping" /\ stats.state # "stopped" /\ stop' = stop
    BY <1>4 DEF Nap, daemonVars
  <2>2. CASE stop \/ naps = 0
    BY <1>4, <1>t, <2>1, <2>2 DEF Nap, Connecting, Stats, Task!Next, Task!End
  <2>3. CASE ~ (stop \/ naps = 0)
    <3>1. UNCHANGED <<phase, stats, stop>>
      BY <1>4, <2>1, <2>3 DEF Nap
    <3> QED
      BY <3>1
  <2> QED
    BY <2>2, <2>3
<1>5. CASE ConnectFails \/ CloseSession
  <2>1. PICK failed, lasted : Supervise(failed, lasted)
    BY <1>5 DEF ConnectFails, CloseSession
  <2>2. phase \in {"connecting", "closing"} /\ stop' = stop
    BY <1>5 DEF ConnectFails, CloseSession, daemonVars
  <2>3. stats.state # "stopped"
    BY <2>2
  <2>4. /\ phase' = IF stop THEN "stopped" ELSE "sleeping"
        /\ stats'.state = IF stop THEN "stopped" ELSE "retrying"
    BY <1>t, <2>1 DEF Supervise, Stats
  <2> QED
    BY <2>2, <2>3, <2>4 DEF Task!Next, Task!End
<1>6. CASE \/ ConnectSucceeds \/ SubscribeSent \/ SessionFails \/ JoinWorkers
           \/ Subscribed \/ Authorized
           \/ Notify \/ Ping \/ WriteDone \/ Submit \/ TickStops \/ Tick \/ ResizeWorkers
           \/ FinishTick \/ \E id \in pending, v \in Verdicts : ShareAnswered(id, v)
  <2>1. phase \notin {"spawned", "stopped"} /\ phase' \notin Outside /\ stop' = stop
    BY <1>6
    DEF ConnectSucceeds, SubscribeSent, SessionFails, JoinWorkers, Subscribed, Authorized,
        Notify, Ping, WriteDone, Submit, TickStops, Tick, ResizeWorkers, FinishTick, Expire, EndSession,
        ShareAnswered, taskVars, daemonVars, Outside
  <2>2. stats'.state # "stopped"
    BY <2>1 DEF Inv, PhaseInv
  <2> QED
    BY <2>1, <2>2 DEF Outside
<1> QED
  BY <1>1, <1>2, <1>3, <1>4, <1>5, <1>6 DEF Next

\* stratum.rs:60-98, mod.rs:190: for any number of threads and connections, the
\* task behaves towards the daemon as the abstract one on which RigManager
\* builds.
THEOREM SessionImplementsTask == Spec => ImplementsTask
<1>1. Init => TaskInv /\ Task!Init
  BY DEF Init, TaskInv, Task!Init, NewStats
<1> QED
  BY <1>1, TaskSimulated, Invariance, PTL DEF Spec, ImplementsTask, Task!Spec, Seen
=============================================================================
