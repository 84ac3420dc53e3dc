------------------------ MODULE DaemonLifecycle_proofs ------------------------
(***************************************************************************)
(* Proofs about DaemonLifecycle, for any number of users and processes.    *)
(*                                                                         *)
(* That a daemon which has bound its socket is the one at the path rests   *)
(* on who may clear the path: a command or a starting daemon that found    *)
(* nobody there, one at a time.  OneStarter says so of every step between  *)
(* the look and the bind.                                                  *)
(***************************************************************************)
EXTENDS DaemonLifecycle, TLAPS

Settling == {"idle", "open", "due"}

\* A command that may yet clear the path or spawn a daemon.
Starting == {"probe", "again", "clear", "spawn"}

NobodyBound == \A d \in Daemons : Phase(d) \notin Bound

OneStarter ==
  /\ \A u, v \in Users : users[u].pc \notin Settling /\ users[v].pc \notin Settling => u = v
  /\ \A d, e \in Daemons : Phase(d) \in ComingUp /\ Phase(e) \in ComingUp => d = e
  /\ \A u \in Users : users[u].pc \in Starting => \A d \in Daemons : Phase(d) \notin ComingUp
  /\ \A u \in Users : users[u].pc \in {"clear", "spawn"} => NobodyBound
  /\ \A d \in Daemons : Phase(d) \in {"clearing", "binding"} => NobodyBound

AtItsSocket == \A d \in Daemons : Phase(d) \in Bound => sock = d

IInv == TypeOK /\ (~ Overlaps => OneStarter /\ AtItsSocket)

-----------------------------------------------------------------------------
(* Types.                                                                  *)

LEMMA PhaseTyped ==
  ASSUME TypeOK, NEW d \in Daemons
  PROVE  /\ Phase(d) \in ComingUp \union Serving \union {"gone", "hindered"}
         /\ Phase(d) \in ComingUp \union Serving => daemons[d] \in Alive
  BY DEF TypeOK, Phase, Alive, Dead, ComingUp, Serving

LEMMA OverTyped == Over("gone") \in Dead /\ Over("hindered") \in Dead
  BY DEF Over, Dead

LEMMA ProcessTyped ==
  ASSUME NEW auto \in BOOLEAN
  PROVE  Process(auto) \in Alive
  BY DEF Process, Alive, ComingUp

LEMMA NoUserTyped == NoUser \in User
  BY DEF NoUser, User

\* What requests do to a daemon that serves.
LEMMA RequestsTyped ==
  ASSUME TypeOK, NEW d \in Daemons, Phase(d) \in Serving,
         StartAll(d) \/ StopAll(d) \/ Shutdown(d)
  PROVE  daemons' \in [Daemons -> Alive \union Dead]
<1>1. daemons[d] \in Alive
  BY PhaseTyped
<1>2. ASSUME NEW mining \in BOOLEAN, daemons' = [daemons EXCEPT ![d].mining = mining]
      PROVE  daemons' \in [Daemons -> Alive \union Dead]
  <2>1. [daemons[d] EXCEPT !.mining = mining] \in Alive
    BY <1>1 DEF Alive
  <2> QED BY <1>2, <2>1 DEF TypeOK
<1>3. CASE StartAll(d)
  BY <1>2, <1>3 DEF StartAll
<1>4. CASE StopAll(d)
  BY <1>2, <1>4 DEF StopAll
<1>5. CASE Shutdown(d)
  <2> DEFINE new == [daemons[d] EXCEPT !.mining = FALSE,
                                      !.phase = IF @ = "waiting" THEN "stopping" ELSE @]
  <2>1. new \in Alive
    BY <1>1 DEF Alive, Serving
  <2>2. daemons' = [daemons EXCEPT ![d] = new]
    BY <1>5 DEF Shutdown, TypeOK
  <2> QED BY <2>1, <2>2 DEF TypeOK
<1> QED BY <1>3, <1>4, <1>5

LEMMA GotoTyped ==
  ASSUME TypeOK, NEW u \in Users,
         NEW pc \in {"idle", "probe", "again", "clear", "spawn", "await", "wait", "request",
                     "open", "due"},
         Goto(u, pc)
  PROVE  users' \in [Users -> User]
  BY DEF Goto, TypeOK, User

LEMMA DoneTyped ==
  ASSUME TypeOK, NEW u \in Users, Done(u)
  PROVE  users' \in [Users -> User]
  BY NoUserTyped DEF Done, TypeOK

LEMMA GoOnTyped ==
  ASSUME TypeOK, NEW u \in Users, NEW started \in BOOLEAN, GoOn(u, started)
  PROVE  users' \in [Users -> User]
<1>1. CASE users[u].kind = "daemon start"
  BY <1>1, DoneTyped DEF GoOn
<1>2. CASE users[u].kind = "dash"
  <2>1. [NoUser EXCEPT !.pc = "due", !.kind = "dash", !.started = started] \in User
    BY DEF NoUser, User
  <2> QED BY <1>2, <2>1 DEF GoOn, TypeOK
<1>3. CASE users[u].kind \notin {"daemon start", "dash"}
  BY <1>3, GotoTyped DEF GoOn
<1> QED BY <1>1, <1>2, <1>3

LEMMA ConnectedTyped ==
  ASSUME TypeOK, NEW u \in Users
  PROVE  /\ Peer(u) \in Daemons \union {None}
         /\ Connected(u) \in Daemons \union {None}
         /\ Reaches(u) => Peer(u) \in Daemons
<1>1. users[u] \in User
  BY DEF TypeOK
<1>2. Peer(u) \in Daemons \union {None}
  BY <1>1 DEF Peer, User, TypeOK
<1> QED BY <1>2 DEF Connected, Reaches

LEMMA InitIInv == Init => IInv
<1> SUFFICES ASSUME Init
             PROVE  IInv
  OBVIOUS
<1>1. TypeOK
  BY OverTyped, NoUserTyped DEF Init, TypeOK
<1>2. \A d \in Daemons : Phase(d) = "gone"
  BY DEF Init, Phase, Over
<1>3. \A u \in Users : users[u].pc = "idle"
  BY DEF Init, NoUser
<1> QED BY <1>1, <1>2, <1>3
           DEF IInv, OneStarter, AtItsSocket, NobodyBound, ComingUp, Bound, Settling, Starting

\* What users do keeps the types.
LEMMA UserTyped ==
  ASSUME TypeOK, NEW u \in Users,
         \/ \E kind \in {"daemon start", "start", "dash", "daemon stop"} : Begin(u, kind)
         \/ Command(u) \/ Refresh(u) \/ Freeze(u) \/ Key(u) \/ Quit(u)
  PROVE  TypeOK'
<1>1. users[u] \in User
  BY DEF TypeOK
<1>2. ASSUME NEW kind \in {"daemon start", "start", "dash", "daemon stop"}, Begin(u, kind)
      PROVE  TypeOK'
  <2>1. [NoUser EXCEPT !.pc = "probe", !.kind = kind] \in User
    BY DEF NoUser, User
  <2> QED BY <1>2, <2>1 DEF Begin, TypeOK
<1>3. CASE Probe(u)
  <2>1. GoOn(u, FALSE) \/ Done(u) \/ Goto(u, "again")
    BY <1>3 DEF Probe
  <2>2. users' \in [Users -> User]
    BY <2>1, GoOnTyped, DoneTyped, GotoTyped
  <2> QED BY <1>3, <2>2 DEF Probe, TypeOK
<1>4. CASE ProbeAgain(u)
  <2>1. GoOn(u, TRUE) \/ Goto(u, "clear")
    BY <1>4 DEF ProbeAgain
  <2>2. users' \in [Users -> User]
    BY <2>1, GoOnTyped, GotoTyped
  <2> QED BY <1>4, <2>2 DEF ProbeAgain, TypeOK
<1>5. CASE Clear(u)
  BY <1>5, GotoTyped DEF Clear, TypeOK
<1>6. CASE Await(u)
  <2>1. GoOn(u, TRUE) \/ Goto(u, "wait")
    BY <1>6 DEF Await
  <2>2. users' \in [Users -> User]
    BY <2>1, GoOnTyped, GotoTyped
  <2> QED BY <1>6, <2>2 DEF Await, TypeOK
<1>7. CASE Wait(u)
  <2>1. Done(u) \/ Goto(u, "await")
    BY <1>7 DEF Wait
  <2>2. users' \in [Users -> User]
    BY <2>1, DoneTyped, GotoTyped
  <2> QED BY <1>7, <2>2 DEF Wait, TypeOK
<1>8. CASE Request(u)
  <2>1. users' \in [Users -> User] /\ sock' = sock
    BY <1>8, DoneTyped DEF Request
  <2>2. daemons' \in [Daemons -> Alive \union Dead]
    <3>1. CASE ~ Answers
      BY <1>8, <3>1 DEF Request, TypeOK
    <3>2. CASE Answers
      <4>1. sock \in Daemons /\ Phase(sock) \in Serving
        BY <3>2 DEF Answers, TypeOK
      <4>2. StartAll(sock) \/ Shutdown(sock)
        BY <1>8, <3>2 DEF Request
      <4> QED BY <4>1, <4>2, RequestsTyped
    <3> QED BY <3>1, <3>2
  <2> QED BY <2>1, <2>2 DEF TypeOK
<1>9. ASSUME NEW d \in Daemons, Spawn(u, d)
      PROVE  TypeOK'
  <2>1. Process(users[u].kind # "dash") \in Alive
    BY ProcessTyped
  <2>2. daemons' \in [Daemons -> Alive \union Dead]
    BY <1>9, <2>1 DEF Spawn, TypeOK
  <2>3. [users[u] EXCEPT !.pc = "await", !.child = d] \in User
    BY <1>1 DEF User
  <2>4. users' \in [Users -> User]
    BY <1>9, <2>3 DEF Spawn, TypeOK
  <2> QED BY <1>9, <2>2, <2>4 DEF Spawn, TypeOK
<1>10. CASE Refresh(u)
  <2> DEFINE seen == IF ~ Reaches(u) THEN users[u].seen
                     ELSE IF daemons[Peer(u)].mining THEN "mining" ELSE "idle"
             new == [users[u] EXCEPT !.pc = "open", !.client = Connected(u), !.seen = seen]
  <2>1. seen \in {"nothing", "idle", "mining"}
    BY <1>1 DEF User
  <2>2. new \in User
    BY <1>1, <2>1, ConnectedTyped DEF User
  <2>3. users' = [users EXCEPT ![u] = new]
    BY <1>10 DEF Refresh, TypeOK
  <2>4. sock' = sock /\ daemons' = daemons
    BY <1>10 DEF Refresh
  <2> HIDE DEF new
  <2> QED BY <2>2, <2>3, <2>4 DEF TypeOK
<1>11. CASE Freeze(u)
  <2>1. [users[u] EXCEPT !.frozen = ~ @] \in User
    BY <1>1 DEF User
  <2> QED BY <1>11, <2>1 DEF Freeze, TypeOK
<1>12. CASE Key(u)
  <2> DEFINE pc == IF users[u].frozen THEN "open" ELSE "due"
             new == [users[u] EXCEPT !.client = Connected(u), !.pc = pc]
  <2>1. new \in User
    BY <1>1, ConnectedTyped DEF User
  <2>2. users' = [users EXCEPT ![u] = new]
    BY <1>12 DEF Key, TypeOK
  <2>3. daemons' \in [Daemons -> Alive \union Dead]
    <3>1. CASE Reaches(u)
      <4>1. Peer(u) \in Daemons /\ Phase(Peer(u)) \in Serving
        BY <3>1, ConnectedTyped DEF Reaches
      <4> QED BY <1>12, <3>1, <4>1, RequestsTyped DEF Key
    <3>2. CASE ~ Reaches(u)
      BY <1>12, <3>2 DEF Key, TypeOK
    <3> QED BY <3>1, <3>2
  <2> QED BY <1>12, <2>1, <2>2, <2>3 DEF Key, TypeOK
<1>13. CASE Quit(u)
  <2>1. users' \in [Users -> User] /\ sock' = sock
    BY <1>13, DoneTyped DEF Quit
  <2>2. daemons' \in [Daemons -> Alive \union Dead]
    <3> DEFINE d == users[u].client
    <3>1. CASE users[u].started /\ users[u].seen = "idle" /\ d # None
                 /\ Phase(d) \in Serving
      <4>1. d \in Daemons
        BY <1>1, <3>1 DEF User
      <4>2. Shutdown(d)
        BY <1>13, <3>1 DEF Quit
      <4> QED BY <3>1, <4>1, <4>2, RequestsTyped
    <3>2. CASE ~ (users[u].started /\ users[u].seen = "idle" /\ d # None
                    /\ Phase(d) \in Serving)
      BY <1>13, <3>2 DEF Quit, TypeOK
    <3> QED BY <3>1, <3>2
  <2> QED BY <2>1, <2>2 DEF TypeOK
<1> QED BY <1>2, <1>3, <1>4, <1>5, <1>6, <1>7, <1>8, <1>9, <1>10, <1>11, <1>12, <1>13
           DEF Command

\* What daemons do keeps the types.
LEMMA DaemonTyped ==
  ASSUME TypeOK, NEW d \in Daemons,
         Run(d) \/ Startup(d) \/ Signal(d) \/ Exit(d) \/ Kill(d)
  PROVE  TypeOK'
<1>1. Process(TRUE) \in Alive /\ Over("gone") \in Dead /\ Over("hindered") \in Dead
  BY ProcessTyped, OverTyped
<1>2. ASSUME Phase(d) \in ComingUp \union Serving,
             NEW phase \in ComingUp \union Serving, NEW auto \in BOOLEAN,
             NEW mining \in BOOLEAN
      PROVE  /\ [daemons[d] EXCEPT !.phase = phase] \in Alive
             /\ [daemons[d] EXCEPT !.phase = phase, !.auto = auto, !.mining = mining] \in Alive
  <2>1. daemons[d] \in Alive
    BY <1>2, PhaseTyped
  <2> QED BY <2>1 DEF Alive
<1>3. CASE Run(d)
  BY <1>1, <1>3 DEF Run, TypeOK
<1>4. CASE ProbeFirst(d)
  <2>1. [daemons[d] EXCEPT !.phase = "clearing"] \in Alive
    BY <1>2, <1>4 DEF ProbeFirst, ComingUp
  <2> QED BY <1>1, <1>4, <2>1 DEF ProbeFirst, TypeOK
<1>5. CASE ClearFirst(d)
  <2>1. [daemons[d] EXCEPT !.phase = "binding"] \in Alive
    BY <1>2, <1>5 DEF ClearFirst, ComingUp
  <2> QED BY <1>5, <2>1 DEF ClearFirst, TypeOK
<1>6. CASE Bind(d)
  <2>1. [daemons[d] EXCEPT !.phase = "starting"] \in Alive
    BY <1>2, <1>6 DEF Bind, ComingUp
  <2> QED BY <1>1, <1>6, <2>1 DEF Bind, TypeOK
<1>7. CASE Accept(d)
  <2>1. daemons[d].auto \in BOOLEAN
    BY DEF TypeOK, Alive, Dead
  <2>2. PICK mining \in BOOLEAN :
          daemons' = [daemons EXCEPT ![d].phase = "answering", ![d].auto = FALSE,
                                     ![d].mining = mining]
    BY <1>7, <2>1 DEF Accept
  <2>3. [daemons[d] EXCEPT !.phase = "answering", !.auto = FALSE, !.mining = mining] \in Alive
    BY <1>2, <1>7 DEF Accept, ComingUp, Serving
  <2>4. daemons' = [daemons EXCEPT ![d] =
          [daemons[d] EXCEPT !.phase = "answering", !.auto = FALSE, !.mining = mining]]
    BY <2>2 DEF TypeOK
  <2> QED BY <1>7, <2>3, <2>4 DEF Accept, TypeOK
<1>8. CASE Ready(d)
  <2>1. [daemons[d] EXCEPT !.phase = "waiting"] \in Alive
    BY <1>2, <1>8 DEF Ready, Serving
  <2> QED BY <1>8, <2>1 DEF Ready, TypeOK
<1>9. CASE Fail(d)
  BY <1>1, <1>9 DEF Fail, TypeOK
<1>10. CASE Signal(d)
  <2>1. daemons' \in [Daemons -> Alive \union Dead]
    BY <1>10, RequestsTyped DEF Signal, Serving
  <2> QED BY <1>10, <2>1 DEF Signal, TypeOK
<1>11. CASE Exit(d)
  BY <1>1, <1>11 DEF Exit, TypeOK
<1>12. CASE Kill(d)
  BY <1>1, <1>12 DEF Kill, TypeOK
<1> QED BY <1>3, <1>4, <1>5, <1>6, <1>7, <1>8, <1>9, <1>10, <1>11, <1>12 DEF Startup

-----------------------------------------------------------------------------
(* One starter at a time.                                                  *)

\* Steps after which no process is on its way up that was not before, ...
Calm == \A d \in Daemons :
  \/ Phase(d)' = Phase(d)
  \/ Phase(d)' \in {"gone", "hindered"}
  \/ Phase(d)' \in Serving /\ Phase(d) \in Bound

\* ... and no command about to start one, unless it has found nobody there.
NoNewStarter == \A u \in Users :
  /\ users'[u].pc \in Settling \/ users[u].pc \notin Settling
  /\ users'[u].pc \in Starting => users[u].pc \in Starting
  /\ users'[u].pc \in {"clear", "spawn"} => users[u].pc \in {"clear", "spawn"} \/ NobodyBound

LEMMA CalmBound ==
  ASSUME Calm, NEW d \in Daemons
  PROVE  /\ Phase(d)' \in Bound => Phase(d) \in Bound
         /\ Phase(d)' \in ComingUp => Phase(d) \in ComingUp /\ Phase(d)' = Phase(d)
  BY DEF Calm, Bound, ComingUp, Serving

LEMMA CalmKeepsOneStarter ==
  ASSUME OneStarter, Calm, NoNewStarter
  PROVE  OneStarter'
<1>1. NobodyBound => NobodyBound'
  BY CalmBound DEF NobodyBound
<1>2. (\A u, v \in Users : users[u].pc \notin Settling /\ users[v].pc \notin Settling => u = v)'
  BY DEF OneStarter, NoNewStarter
<1>3. (\A d, e \in Daemons : Phase(d) \in ComingUp /\ Phase(e) \in ComingUp => d = e)'
  <2>1. ASSUME NEW d \in Daemons, NEW e \in Daemons,
               Phase(d)' \in ComingUp, Phase(e)' \in ComingUp
        PROVE  d = e
    BY <2>1, CalmBound DEF OneStarter
  <2> QED BY <2>1
<1>4. (\A u \in Users : users[u].pc \in Starting => \A d \in Daemons : Phase(d) \notin ComingUp)'
  <2>1. ASSUME NEW u \in Users, users'[u].pc \in Starting, NEW d \in Daemons
        PROVE  Phase(d)' \notin ComingUp
    BY <2>1, CalmBound DEF OneStarter, NoNewStarter
  <2> QED BY <2>1
<1>5. (\A u \in Users : users[u].pc \in {"clear", "spawn"} => NobodyBound)'
  <2>1. ASSUME NEW u \in Users, users'[u].pc \in {"clear", "spawn"}
        PROVE  NobodyBound'
    BY <2>1, <1>1 DEF OneStarter, NoNewStarter
  <2> QED BY <2>1
<1>6. (\A d \in Daemons : Phase(d) \in {"clearing", "binding"} => NobodyBound)'
  <2>1. ASSUME NEW d \in Daemons, Phase(d)' \in {"clearing", "binding"}
        PROVE  NobodyBound'
    BY <2>1, <1>1, CalmBound DEF OneStarter, ComingUp
  <2> QED BY <2>1
<1> QED BY <1>2, <1>3, <1>4, <1>5, <1>6 DEF OneStarter

LEMMA CalmKeepsSocket ==
  ASSUME AtItsSocket, Calm, sock' = sock
  PROVE  AtItsSocket'
<1>1. ASSUME NEW d \in Daemons, Phase(d)' \in Bound
      PROVE  sock' = d
  BY <1>1, CalmBound DEF AtItsSocket
<1> QED BY <1>1 DEF AtItsSocket

\* Nobody is there: whoever had bound the socket is gone.
LEMMA NobodyAnswers ==
  ASSUME TypeOK, AtItsSocket, Settled, ~ Answers
  PROVE  NobodyBound
<1> SUFFICES ASSUME NEW d \in Daemons, Phase(d) \in Bound
             PROVE  FALSE
  BY DEF NobodyBound
<1>1. sock = d
  BY DEF AtItsSocket
<1> QED BY <1>1, NoneAssumption DEF Settled, Answers, Bound, Serving

\* How the steps of users move their programs.
LEMMA Moves ==
  ASSUME TypeOK, NEW u \in Users
  PROVE  /\ \A pc : Goto(u, pc) => users'[u].pc = pc
         /\ Done(u) => users'[u].pc = "idle"
         /\ \A started : GoOn(u, started) => users'[u].pc \in {"idle", "due", "request"}
         /\ \A started : \/ GoOn(u, started) \/ Done(u) \/ \E pc : Goto(u, pc)
              => \A v \in Users \ {u} : users'[v] = users[v]
<1>1. users \in [Users -> User]
  BY DEF TypeOK
<1>2. ASSUME NEW pc, Goto(u, pc)
      PROVE  users'[u].pc = pc /\ \A v \in Users \ {u} : users'[v] = users[v]
  BY <1>1, <1>2 DEF Goto, User
<1>3. ASSUME Done(u)
      PROVE  users'[u].pc = "idle" /\ \A v \in Users \ {u} : users'[v] = users[v]
  BY <1>1, <1>3 DEF Done, NoUser
<1>4. ASSUME NEW started, GoOn(u, started)
      PROVE  /\ users'[u].pc \in {"idle", "due", "request"}
             /\ \A v \in Users \ {u} : users'[v] = users[v]
  <2>1. CASE users[u].kind = "daemon start"
    BY <1>3, <1>4, <2>1 DEF GoOn
  <2>2. CASE users[u].kind = "dash"
    BY <1>1, <1>4, <2>2 DEF GoOn, NoUser
  <2>3. CASE users[u].kind \notin {"daemon start", "dash"}
    BY <1>2, <1>4, <2>3 DEF GoOn
  <2> QED BY <2>1, <2>2, <2>3
<1> QED BY <1>2, <1>3, <1>4

\* Requests to a daemon that serves are calm.
LEMMA RequestsCalm ==
  ASSUME TypeOK, NEW d \in Daemons, Phase(d) \in Serving,
         StartAll(d) \/ StopAll(d) \/ Shutdown(d)
  PROVE  Calm
<1>1. daemons \in [Daemons -> Alive \union Dead] /\ daemons[d] \in Alive
  BY PhaseTyped DEF TypeOK
<1>2. \A e \in Daemons \ {d} : Phase(e)' = Phase(e)
  BY <1>1 DEF StartAll, StopAll, Shutdown, Phase
<1>3. Phase(d)' = Phase(d) \/ Phase(d)' = "stopping"
  BY <1>1 DEF StartAll, StopAll, Shutdown, Phase, Alive
<1>4. Phase(d) \in Bound
  BY DEF Serving, Bound
<1> QED BY <1>2, <1>3, <1>4 DEF Calm, Serving

\* A user's step, commands being given one after another.
LEMMA UserKeeps ==
  ASSUME TypeOK, ~ Overlaps, OneStarter, AtItsSocket, NEW u \in Users,
         \/ \E kind \in {"daemon start", "start", "dash", "daemon stop"} : Begin(u, kind)
         \/ Command(u) \/ Refresh(u) \/ Freeze(u) \/ Key(u) \/ Quit(u)
  PROVE  OneStarter' /\ AtItsSocket'
<1>1. users \in [Users -> User] /\ users[u] \in User
  BY DEF TypeOK
<1>2. ASSUME daemons' = daemons
      PROVE  Calm
  BY <1>2 DEF Calm, Phase
\* Only u moves, and not towards a start: nothing else needs a look.
<1>3. ASSUME \A v \in Users \ {u} : users'[v] = users[v],
             users'[u].pc \in Settling \/ users[u].pc \notin Settling,
             users'[u].pc \in Starting => users[u].pc \in Starting,
             users'[u].pc \in {"clear", "spawn"}
               => users[u].pc \in {"clear", "spawn"} \/ NobodyBound
      PROVE  NoNewStarter
  BY <1>3 DEF NoNewStarter
<1>4. ASSUME NEW kind, Begin(u, kind)
      PROVE  OneStarter' /\ AtItsSocket'
  <2>1. /\ daemons' = daemons /\ sock' = sock /\ Quiet
        /\ users'[u].pc = "probe" /\ \A v \in Users \ {u} : users'[v] = users[v]
    BY <1>1, <1>4 DEF Begin, NoUser
  <2>2. Calm
    BY <2>1, <1>2
  <2>3. /\ \A d \in Daemons : Phase(d)' = Phase(d) /\ Phase(d) \notin ComingUp
        /\ \A v \in Users \ {u} : users'[v].pc \in Settling
    BY <2>1 DEF Quiet, Phase, Settling
  <2>4. OneStarter'
    BY <2>1, <2>3 DEF OneStarter, NobodyBound, Settling, Starting, ComingUp
  <2> QED BY <2>1, <2>2, <2>4, CalmKeepsSocket
<1>5. CASE Probe(u)
  <2>1. daemons' = daemons /\ sock' = sock /\ users[u].pc = "probe"
    BY <1>5 DEF Probe
  <2>2. GoOn(u, FALSE) \/ Done(u) \/ Goto(u, "again")
    BY <1>5 DEF Probe
  <2>3. NoNewStarter
    BY <1>3, <2>1, <2>2, Moves DEF Settling, Starting
  <2> QED BY <1>2, <2>1, <2>3, CalmKeepsOneStarter, CalmKeepsSocket
<1>6. CASE ProbeAgain(u)
  <2>1. daemons' = daemons /\ sock' = sock /\ users[u].pc = "again"
    BY <1>6 DEF ProbeAgain
  <2>2. GoOn(u, TRUE) \/ (Goto(u, "clear") /\ NobodyBound)
    BY <1>6, NobodyAnswers DEF ProbeAgain
  <2>3. NoNewStarter
    BY <1>3, <2>1, <2>2, Moves DEF Settling, Starting
  <2> QED BY <1>2, <2>1, <2>3, CalmKeepsOneStarter, CalmKeepsSocket
<1>7. CASE Clear(u)
  <2>1. daemons' = daemons /\ users[u].pc = "clear" /\ Goto(u, "spawn")
    BY <1>7 DEF Clear
  <2>2. NobodyBound
    BY <2>1 DEF OneStarter
  <2>3. NoNewStarter
    BY <1>3, <2>1, Moves DEF Settling, Starting
  <2>4. AtItsSocket'
    BY <2>1, <2>2 DEF AtItsSocket, NobodyBound, Phase
  <2> QED BY <1>2, <2>1, <2>3, <2>4, CalmKeepsOneStarter
<1>8. ASSUME NEW d \in Daemons, Spawn(u, d)
      PROVE  OneStarter' /\ AtItsSocket'
  <2>1. /\ users[u].pc = "spawn" /\ sock' = sock
        /\ users'[u].pc = "await" /\ \A v \in Users \ {u} : users'[v] = users[v]
    BY <1>1, <1>8 DEF Spawn, User
  <2>2. Phase(d)' = "probing" /\ \A e \in Daemons \ {d} : Phase(e)' = Phase(e)
    BY <1>8 DEF Spawn, Process, Phase, TypeOK
  <2>3. NobodyBound /\ \A e \in Daemons : Phase(e) \notin ComingUp
    BY <2>1 DEF OneStarter, Starting
  <2>4. NobodyBound'
    BY <2>2, <2>3 DEF NobodyBound, Bound
  <2>5. \A v \in Users \ {u} : users'[v].pc \in Settling
    BY <2>1 DEF OneStarter, Settling
  <2>6. OneStarter'
    BY <2>1, <2>2, <2>3, <2>4, <2>5 DEF OneStarter, Settling, Starting, ComingUp
  <2>7. AtItsSocket'
    BY <2>4 DEF NobodyBound, AtItsSocket
  <2> QED BY <2>6, <2>7
<1>9. CASE Await(u)
  <2>1. daemons' = daemons /\ sock' = sock /\ users[u].pc = "await"
    BY <1>9 DEF Await
  <2>2. GoOn(u, TRUE) \/ Goto(u, "wait")
    BY <1>9 DEF Await
  <2>3. NoNewStarter
    BY <1>3, <2>1, <2>2, Moves DEF Settling, Starting
  <2> QED BY <1>2, <2>1, <2>3, CalmKeepsOneStarter, CalmKeepsSocket
<1>10. CASE Wait(u)
  <2>1. daemons' = daemons /\ sock' = sock /\ users[u].pc = "wait"
    BY <1>10 DEF Wait
  <2>2. Done(u) \/ Goto(u, "await")
    BY <1>10 DEF Wait
  <2>3. NoNewStarter
    BY <1>3, <2>1, <2>2, Moves DEF Settling, Starting
  <2> QED BY <1>2, <2>1, <2>3, CalmKeepsOneStarter, CalmKeepsSocket
<1>11. CASE Request(u)
  <2>1. Done(u) /\ sock' = sock
    BY <1>11 DEF Request
  <2>2. Calm
    <3>1. CASE ~ Answers
      BY <1>2, <1>11, <3>1 DEF Request
    <3>2. CASE Answers
      <4>1. sock \in Daemons /\ Phase(sock) \in Serving
        BY <3>2 DEF Answers, TypeOK
      <4>2. StartAll(sock) \/ Shutdown(sock)
        BY <1>11, <3>2 DEF Request
      <4> QED BY <4>1, <4>2, RequestsCalm
    <3> QED BY <3>1, <3>2
  <2>3. NoNewStarter
    BY <1>3, <2>1, Moves DEF Settling, Starting
  <2> QED BY <2>1, <2>2, <2>3, CalmKeepsOneStarter, CalmKeepsSocket
<1>12. CASE Refresh(u)
  <2>1. daemons' = daemons /\ sock' = sock
    BY <1>12 DEF Refresh
  <2>2. users'[u].pc = "open" /\ \A v \in Users \ {u} : users'[v] = users[v]
    BY <1>1, <1>12 DEF Refresh, User
  <2>3. NoNewStarter
    BY <1>3, <2>2 DEF Settling, Starting
  <2> QED BY <1>2, <2>1, <2>3, CalmKeepsOneStarter, CalmKeepsSocket
<1>13. CASE Freeze(u)
  <2>1. daemons' = daemons /\ sock' = sock
    BY <1>13 DEF Freeze
  <2>2. users'[u].pc = "open" /\ \A v \in Users \ {u} : users'[v] = users[v]
    BY <1>1, <1>13 DEF Freeze, User
  <2>3. NoNewStarter
    BY <1>3, <2>2 DEF Settling, Starting
  <2> QED BY <1>2, <2>1, <2>3, CalmKeepsOneStarter, CalmKeepsSocket
<1>14. CASE Key(u)
  <2>1. sock' = sock
    BY <1>14 DEF Key
  <2>2. /\ users'[u].pc \in {"open", "due"}
        /\ \A v \in Users \ {u} : users'[v] = users[v]
    BY <1>1, <1>14 DEF Key, User
  <2>3. Calm
    <3>1. CASE Reaches(u)
      <4>1. Peer(u) \in Daemons /\ Phase(Peer(u)) \in Serving
        BY <3>1, ConnectedTyped DEF Reaches
      <4> QED BY <1>14, <3>1, <4>1, RequestsCalm DEF Key
    <3>2. CASE ~ Reaches(u)
      BY <1>2, <1>14, <3>2 DEF Key
    <3> QED BY <3>1, <3>2
  <2>4. NoNewStarter
    BY <1>3, <2>2 DEF Settling, Starting
  <2> QED BY <2>1, <2>3, <2>4, CalmKeepsOneStarter, CalmKeepsSocket
<1>15. CASE Quit(u)
  <2>1. Done(u) /\ sock' = sock
    BY <1>15 DEF Quit
  <2>2. Calm
    <3> DEFINE d == users[u].client
               hers == users[u].started /\ users[u].seen = "idle" /\ d # None
                         /\ Phase(d) \in Serving
    <3>1. CASE hers
      <4>1. d \in Daemons
        BY <1>1, <3>1 DEF User
      <4>2. Shutdown(d)
        BY <1>15, <3>1 DEF Quit
      <4> QED BY <3>1, <4>1, <4>2, RequestsCalm
    <3>2. CASE ~ hers
      BY <1>2, <1>15, <3>2 DEF Quit
    <3> QED BY <3>1, <3>2
  <2>3. NoNewStarter
    BY <1>3, <2>1, Moves DEF Settling, Starting
  <2> QED BY <2>1, <2>2, <2>3, CalmKeepsOneStarter, CalmKeepsSocket
<1> QED BY <1>4, <1>5, <1>6, <1>7, <1>8, <1>9, <1>10, <1>11, <1>12, <1>13, <1>14, <1>15
           DEF Command

\* A daemon's step.
LEMMA DaemonKeeps ==
  ASSUME TypeOK, ~ Overlaps, OneStarter, AtItsSocket, NEW d \in Daemons,
         Run(d) \/ Startup(d) \/ Signal(d) \/ Exit(d) \/ Kill(d)
  PROVE  OneStarter' /\ AtItsSocket'
<1>1. daemons \in [Daemons -> Alive \union Dead]
  BY DEF TypeOK
<1>2. ASSUME users' = users
      PROVE  NoNewStarter
  BY <1>2 DEF NoNewStarter
<1>3. ASSUME \A e \in Daemons \ {d} : Phase(e)' = Phase(e),
             Phase(d)' \in {"gone", "hindered"} \/ (Phase(d)' \in Serving /\ Phase(d) \in Bound)
      PROVE  Calm
  BY <1>3 DEF Calm
<1>4. CASE Run(d)
  <2>1. /\ \A u \in Users : users'[u].pc \in Settling
        /\ \A e \in Daemons : Phase(e) \notin ComingUp
        /\ sock' = sock
    BY <1>4 DEF Run, Quiet, Settling
  <2>2. Phase(d)' = "probing" /\ \A e \in Daemons \ {d} : Phase(e)' = Phase(e)
    BY <1>1, <1>4 DEF Run, Process, Phase
  <2>3. OneStarter'
    BY <2>1, <2>2 DEF OneStarter, Settling, Starting, ComingUp
  <2>4. AtItsSocket'
    BY <2>1, <2>2 DEF AtItsSocket, Bound
  <2> QED BY <2>3, <2>4
<1>5. CASE ProbeFirst(d)
  <2>1. Phase(d) = "probing" /\ sock' = sock /\ users' = users
    BY <1>5 DEF ProbeFirst
  <2>2. CASE Answers
    <3>1. Phase(d)' = "gone" /\ \A e \in Daemons \ {d} : Phase(e)' = Phase(e)
      BY <1>1, <1>5, <2>2 DEF ProbeFirst, Over, Phase
    <3> QED BY <1>2, <1>3, <2>1, <3>1, CalmKeepsOneStarter, CalmKeepsSocket
  <2>3. CASE ~ Answers
    <3>1. NobodyBound
      BY <1>5, <2>3, NobodyAnswers DEF ProbeFirst
    <3>2. Phase(d)' = "clearing" /\ \A e \in Daemons \ {d} : Phase(e)' = Phase(e)
      BY <1>1, <1>5, <2>3 DEF ProbeFirst, Phase, Alive, Dead
    <3>3. NobodyBound'
      BY <3>1, <3>2 DEF NobodyBound, Bound
    <3>4. OneStarter'
      BY <2>1, <3>2, <3>3 DEF OneStarter, ComingUp
    <3>5. AtItsSocket'
      BY <3>3 DEF NobodyBound, AtItsSocket
    <3> QED BY <3>4, <3>5
  <2> QED BY <2>2, <2>3
<1>6. CASE ClearFirst(d)
  <2>1. Phase(d) = "clearing" /\ users' = users
    BY <1>6 DEF ClearFirst
  <2>2. Phase(d)' = "binding" /\ \A e \in Daemons \ {d} : Phase(e)' = Phase(e)
    BY <1>1, <1>6 DEF ClearFirst, Phase, Alive, Dead
  <2>3. NobodyBound
    BY <2>1 DEF OneStarter
  <2>4. NobodyBound'
    BY <2>2, <2>3 DEF NobodyBound, Bound
  <2>5. OneStarter'
    BY <2>1, <2>2, <2>4 DEF OneStarter, ComingUp
  <2>6. AtItsSocket'
    BY <2>4 DEF NobodyBound, AtItsSocket
  <2> QED BY <2>5, <2>6
<1>7. CASE Bind(d)
  <2>1. Phase(d) = "binding" /\ users' = users
    BY <1>7 DEF Bind
  <2>2. CASE sock = None
    <3>1. sock' = d /\ Phase(d)' = "starting" /\ \A e \in Daemons \ {d} : Phase(e)' = Phase(e)
      BY <1>1, <1>7, <2>2 DEF Bind, Phase, Alive, Dead
    <3>2. \A e \in Daemons \ {d} : Phase(e) \notin Bound /\ Phase(e) \notin ComingUp
      BY <2>1 DEF OneStarter, NobodyBound, ComingUp
    <3>3. OneStarter'
      BY <2>1, <3>1, <3>2 DEF OneStarter, ComingUp, Starting
    <3>4. AtItsSocket'
      BY <3>1, <3>2 DEF AtItsSocket
    <3> QED BY <3>3, <3>4
  <2>3. CASE sock # None
    <3>1. Phase(d)' = "hindered" /\ sock' = sock /\ \A e \in Daemons \ {d} : Phase(e)' = Phase(e)
      BY <1>1, <1>7, <2>3 DEF Bind, Over, Phase
    <3> QED BY <1>2, <1>3, <2>1, <3>1, CalmKeepsOneStarter, CalmKeepsSocket
  <2> QED BY <2>2, <2>3
<1>8. CASE Accept(d)
  <2>1. Phase(d) = "starting" /\ sock' = sock /\ users' = users
    BY <1>8 DEF Accept
  <2>2. Phase(d)' = "answering" /\ \A e \in Daemons \ {d} : Phase(e)' = Phase(e)
    BY <1>1, <1>8 DEF Accept, Phase, Alive, Dead
  <2>3. Calm
    BY <1>3, <2>1, <2>2 DEF Bound, Serving
  <2> QED BY <1>2, <2>1, <2>3, CalmKeepsOneStarter, CalmKeepsSocket
<1>9. CASE Ready(d)
  <2>1. Phase(d) = "answering" /\ sock' = sock /\ users' = users
    BY <1>9 DEF Ready
  <2>2. Phase(d)' = "waiting" /\ \A e \in Daemons \ {d} : Phase(e)' = Phase(e)
    BY <1>1, <1>9 DEF Ready, Phase, Alive, Dead
  <2>3. Calm
    BY <1>3, <2>1, <2>2 DEF Bound, Serving
  <2> QED BY <1>2, <2>1, <2>3, CalmKeepsOneStarter, CalmKeepsSocket
<1>10. CASE Fail(d) \/ Kill(d)
  <2>1. sock' = sock /\ users' = users
    BY <1>10 DEF Fail, Kill
  <2>2. Phase(d)' = "gone" /\ \A e \in Daemons \ {d} : Phase(e)' = Phase(e)
    BY <1>1, <1>10 DEF Fail, Kill, Over, Phase
  <2> QED BY <1>2, <1>3, <2>1, <2>2, CalmKeepsOneStarter, CalmKeepsSocket
<1>11. CASE Signal(d)
  <2>1. sock' = sock /\ users' = users /\ Calm
    BY <1>11, RequestsCalm DEF Signal, Serving
  <2> QED BY <1>2, <2>1, CalmKeepsOneStarter, CalmKeepsSocket
<1>12. CASE Exit(d)
  <2>1. Phase(d) = "stopping" /\ users' = users
    BY <1>12 DEF Exit
  <2>2. Phase(d)' = "gone" /\ \A e \in Daemons \ {d} : Phase(e)' = Phase(e)
    BY <1>1, <1>12 DEF Exit, Over, Phase
  <2>3. OneStarter'
    BY <1>2, <1>3, <2>1, <2>2, CalmKeepsOneStarter
  <2>4. AtItsSocket'
    BY <2>1, <2>2 DEF AtItsSocket, Bound
  <2> QED BY <2>3, <2>4
<1> QED BY <1>4, <1>5, <1>6, <1>7, <1>8, <1>9, <1>10, <1>11, <1>12 DEF Startup

-----------------------------------------------------------------------------
(* The theorems.                                                           *)

LEMMA NextIInv == IInv /\ [Next]_vars => IInv'
<1> SUFFICES ASSUME IInv, [Next]_vars
             PROVE  IInv'
  OBVIOUS
<1>1. CASE UNCHANGED vars
  BY <1>1 DEF vars, IInv, TypeOK, OneStarter, AtItsSocket, NobodyBound, Phase
<1>2. CASE Next
  <2>1. TypeOK'
    BY <1>2, UserTyped, DaemonTyped DEF Next, IInv
  <2>2. ~ Overlaps => OneStarter' /\ AtItsSocket'
    BY <1>2, UserKeeps, DaemonKeeps DEF Next, IInv
  <2> QED BY <2>1, <2>2 DEF IInv
<1> QED BY <1>1, <1>2

LEMMA AlwaysIInv == Spec => []IInv
  BY InitIInv, NextIInv, PTL DEF Spec

\* Processes, sockets and commands are what the model says they may be; a process that is
\* gone keeps neither rigs nor a start to come.
THEOREM TypeCorrect == Spec => []TypeOK
  BY AlwaysIInv, PTL DEF IInv

\* With commands given one after another, any number of users and any deaths: a daemon
\* that has bound its socket (run, src/src/daemon.rs) is the one clients reach.
THEOREM DaemonIsReachable == Spec => []ReachableWhileUp
<1>1. IInv => ReachableWhileUp
  BY DEF IInv, AtItsSocket, ReachableWhileUp
<1> QED BY <1>1, AlwaysIInv, PTL
=============================================================================
