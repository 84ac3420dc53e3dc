--------------------------- MODULE DaemonLifecycle ---------------------------
(***************************************************************************)
(* How daemons come and go (src/src/daemon.rs 1012-1018 and 1204-1487, the *)
(* commands of src/src/cli.rs that start and stop one, and the dashboard's *)
(* own daemon, src/src/tui/mod.rs).                                        *)
(*                                                                         *)
(* All there is between processes is a socket at one path.  A process that *)
(* wants to know whether a daemon runs connects to it and pings; one that  *)
(* finds none removes what is at the path and starts a daemon, which does  *)
(* the same before it binds.  A daemon asked to stop answers at once and   *)
(* goes on answering until its rigs have unwound.                          *)
(***************************************************************************)
EXTENDS Naturals, FiniteSets

CONSTANTS
  Users,       \* shells and dashboards
  Daemons,     \* daemon processes; one that is gone may be used again
  None,        \* no daemon
  Overlaps,    \* whether commands may be given while others are under way
  Outside      \* whether signals arrive that no command sent

ASSUME NoneAssumption == None \notin Daemons
ASSUME ModesAssumption == Overlaps \in BOOLEAN /\ Outside \in BOOLEAN

VARIABLES
  sock,      \* the daemon that bound what is at the path; it may be dead
  daemons,   \* the daemon processes
  users      \* what each user's command or dashboard is doing

vars == <<sock, daemons, users>>

\* ComingUp: before the accept loop runs.  "answering": before main waits for a
\* shutdown.  "stopping": after it has been told of one.
ComingUp == {"probing", "clearing", "binding", "starting"}
Bound == {"starting", "answering", "waiting", "stopping"}
Serving == {"answering", "waiting", "stopping"}

\* auto: start_all is to come.
Alive == [phase: ComingUp \union Serving, auto: BOOLEAN, mining: BOOLEAN]

\* A process that never began or has ended; hindered: a socket was in its way.
Dead == [phase: {"gone", "hindered"}, auto: {FALSE}, mining: {FALSE}]

Over(how) == [phase |-> how, auto |-> FALSE, mining |-> FALSE]

\* probe, again, clear, spawn, await, wait: making sure there is a daemon;
\* request: the command itself; open: the dashboard; due: it is about to refresh.
User == [pc: {"idle", "probe", "again", "clear", "spawn", "await", "wait", "request",
              "open", "due"},
         kind: {"daemon start", "start", "dash", "daemon stop"},
         child: Daemons \union {None},     \* the daemon it spawned
         client: Daemons \union {None},    \* the dashboard's connection
         started: BOOLEAN,                 \* we_started_daemon
         frozen: BOOLEAN,                  \* whether its display is
         seen: {"nothing", "idle", "mining"}]   \* the dashboard's snapshot

NoUser == [pc |-> "idle", kind |-> "start", child |-> None, client |-> None,
           started |-> FALSE, frozen |-> FALSE, seen |-> "nothing"]

TypeOK ==
  /\ sock \in Daemons \union {None}
  /\ daemons \in [Daemons -> Alive \union Dead]
  /\ users \in [Users -> User]

Init ==
  /\ sock = None
  /\ daemons = [d \in Daemons |-> Over("gone")]
  /\ users = [u \in Users |-> NoUser]

Phase(d) == daemons[d].phase

Gone(d) == daemons[d] \in Dead

\* Mutant of Answers: a daemon that is stopping answers no more.
AnswersUnlessStopping == sock # None /\ Phase(sock) \in Serving \ {"stopping"}

\* What a client that connects finds: somebody who answers, nobody at all, or a
\* backlog in which it waits until the accept loop runs.
Answers == sock # None /\ Phase(sock) \in Serving
Settled == sock # None => Phase(sock) # "starting"

Free(d) == Gone(d) /\ sock # d /\ \A u \in Users : users[u].child # d /\ users[u].client # d

Quiet == /\ \A u \in Users : users[u].pc \in {"idle", "open", "due"}
         /\ \A d \in Daemons : Phase(d) \notin ComingUp

Goto(u, pc) == users' = [users EXCEPT ![u].pc = pc]
Done(u) == users' = [users EXCEPT ![u] = NoUser]

-----------------------------------------------------------------------------
(* Requests as the daemon handles them.                                    *)

\* Shutdown wakes main only if main already waits.
Shutdown(d) ==
  daemons' = [daemons EXCEPT ![d].mining = FALSE,
                             ![d].phase = IF @ = "waiting" THEN "stopping" ELSE @]

StartAll(d) == daemons' = [daemons EXCEPT ![d].mining = TRUE]

StopAll(d) == daemons' = [daemons EXCEPT ![d].mining = FALSE]

-----------------------------------------------------------------------------
(* Commands.                                                               *)

Begin(u, kind) ==
  /\ users[u].pc = "idle"
  /\ Overlaps \/ Quiet
  /\ users' = [users EXCEPT ![u] = [NoUser EXCEPT !.pc = "probe", !.kind = kind]]
  /\ UNCHANGED <<sock, daemons>>

\* There is a daemon: the command goes on with it.
GoOn(u, started) ==
  CASE users[u].kind = "daemon start" -> Done(u)
    [] users[u].kind = "dash" ->
         users' = [users EXCEPT ![u] = [NoUser EXCEPT !.pc = "due", !.kind = "dash",
                                                      !.started = started]]
    [] OTHER -> Goto(u, "request")

Probe(u) ==
  /\ users[u].pc = "probe"
  /\ Settled
  /\ IF Answers THEN GoOn(u, FALSE)
     ELSE IF users[u].kind = "daemon stop" THEN Done(u)
     ELSE Goto(u, "again")
  /\ UNCHANGED <<sock, daemons>>

\* spawn_detached() looks again, clears the path, spawns and waits.
ProbeAgain(u) ==
  /\ users[u].pc = "again"
  /\ Settled
  /\ IF Answers THEN GoOn(u, TRUE) ELSE Goto(u, "clear")
  /\ UNCHANGED <<sock, daemons>>

Clear(u) ==
  /\ users[u].pc = "clear"
  /\ sock' = None
  /\ Goto(u, "spawn")
  /\ UNCHANGED daemons

Process(auto) == [phase |-> "probing", auto |-> auto, mining |-> FALSE]

Spawn(u, d) ==
  /\ users[u].pc = "spawn"
  /\ Free(d)
  /\ daemons' = [daemons EXCEPT ![d] = Process(users[u].kind # "dash")]
  /\ users' = [users EXCEPT ![u].pc = "await", ![u].child = d]
  /\ UNCHANGED sock

Await(u) ==
  /\ users[u].pc = "await"
  /\ Settled
  /\ IF Answers THEN GoOn(u, TRUE) ELSE Goto(u, "wait")
  /\ UNCHANGED <<sock, daemons>>

\* Mutant of Wait: it waits for an answer, however long.
WaitForAnswer(u) ==
  /\ users[u].pc = "wait"
  /\ Goto(u, "await")
  /\ UNCHANGED <<sock, daemons>>

\* The child has ended, or it has not and the deadline is not reached, or it is.
Wait(u) ==
  /\ users[u].pc = "wait"
  /\ \/ Done(u)
     \/ ~ Gone(users[u].child) /\ Goto(u, "await")
  /\ UNCHANGED <<sock, daemons>>

\* The command itself: StartAll or Shutdown.
Request(u) ==
  /\ users[u].pc = "request"
  /\ Settled
  /\ IF ~ Answers THEN UNCHANGED daemons
     ELSE IF users[u].kind = "start" THEN StartAll(sock)
     ELSE Shutdown(sock)
  /\ Done(u)
  /\ UNCHANGED sock

-----------------------------------------------------------------------------
(* The dashboard.                                                          *)

\* The daemon its next request goes to: over the connection it has, or a new one.
Peer(u) == IF users[u].client # None THEN users[u].client ELSE sock

Reaches(u) == Peer(u) # None /\ Phase(Peer(u)) \in Serving

\* A connection to a daemon that is gone fails, and is dropped.
Connected(u) == IF Reaches(u) THEN Peer(u) ELSE None

Refresh(u) ==
  /\ users[u].pc \in {"open", "due"}
  /\ ~ users[u].frozen
  /\ users[u].client = None => Settled
  /\ users' = [users EXCEPT
       ![u].pc = "open",
       ![u].client = Connected(u),
       ![u].seen = IF ~ Reaches(u) THEN @
                   ELSE IF daemons[Peer(u)].mining THEN "mining" ELSE "idle"]
  /\ UNCHANGED <<sock, daemons>>

Freeze(u) ==
  /\ users[u].pc = "open"
  /\ users' = [users EXCEPT ![u].frozen = ~ @]
  /\ UNCHANGED <<sock, daemons>>

\* The keys S, X and Q.  What they changed is shown at once, unless the display is
\* frozen.
Key(u) ==
  /\ users[u].pc = "open"
  /\ users[u].client = None => Settled
  /\ users' = [users EXCEPT ![u].client = Connected(u),
                            ![u].pc = IF users[u].frozen THEN "open" ELSE "due"]
  /\ IF Reaches(u) THEN StartAll(Peer(u)) \/ StopAll(Peer(u)) \/ Shutdown(Peer(u))
     ELSE UNCHANGED daemons
  /\ UNCHANGED sock

\* tidy_up(): a daemon of the dashboard's own is shut down if it was last seen idle.
Quit(u) ==
  /\ users[u].pc = "open"
  /\ LET d == users[u].client IN
       IF users[u].started /\ users[u].seen = "idle" /\ d # None /\ Phase(d) \in Serving
       THEN Shutdown(d)
       ELSE UNCHANGED daemons
  /\ Done(u)
  /\ UNCHANGED sock

-----------------------------------------------------------------------------
(* The daemon.                                                             *)

\* `cryptocli daemon run` in a terminal.
Run(d) ==
  /\ Free(d)
  /\ Overlaps \/ Quiet
  /\ daemons' = [daemons EXCEPT ![d] = Process(TRUE)]
  /\ UNCHANGED <<sock, users>>

ProbeFirst(d) ==
  /\ Phase(d) = "probing"
  /\ Settled
  /\ daemons' = [daemons EXCEPT ![d] =
                   IF Answers THEN Over("gone") ELSE [@ EXCEPT !.phase = "clearing"]]
  /\ UNCHANGED <<sock, users>>

ClearFirst(d) ==
  /\ Phase(d) = "clearing"
  /\ sock' = None
  /\ daemons' = [daemons EXCEPT ![d].phase = "binding"]
  /\ UNCHANGED users

Bind(d) ==
  /\ Phase(d) = "binding"
  /\ IF sock = None
     THEN sock' = d /\ daemons' = [daemons EXCEPT ![d].phase = "starting"]
     ELSE daemons' = [daemons EXCEPT ![d] = Over("hindered")] /\ UNCHANGED sock
  /\ UNCHANGED users

\* Autostart, if the settings have it, then the accept loop.
Accept(d) ==
  /\ Phase(d) = "starting"
  /\ \E mining \in {FALSE, daemons[d].auto} :
       daemons' = [daemons EXCEPT ![d].phase = "answering", ![d].auto = FALSE,
                                  ![d].mining = mining]
  /\ UNCHANGED <<sock, users>>

\* The remote listener is set up, and main waits; or it cannot be, and the daemon
\* leaves its socket behind.
Ready(d) ==
  /\ Phase(d) = "answering"
  /\ daemons' = [daemons EXCEPT ![d].phase = "waiting"]
  /\ UNCHANGED <<sock, users>>

Fail(d) ==
  /\ Phase(d) = "answering"
  /\ daemons' = [daemons EXCEPT ![d] = Over("gone")]
  /\ UNCHANGED <<sock, users>>

\* The rigs have ended, or have had their time.
Exit(d) ==
  /\ Phase(d) = "stopping"
  /\ sock' = None
  /\ daemons' = [daemons EXCEPT ![d] = Over("gone")]
  /\ UNCHANGED users

\* SIGTERM and SIGINT once main waits; before that, and SIGKILL always, they end it.
Signal(d) ==
  /\ Outside
  /\ Phase(d) = "waiting"
  /\ Shutdown(d)
  /\ UNCHANGED <<sock, users>>

Kill(d) ==
  /\ Outside
  /\ ~ Gone(d)
  /\ daemons' = [daemons EXCEPT ![d] = Over("gone")]
  /\ UNCHANGED <<sock, users>>

-----------------------------------------------------------------------------
Command(u) == \/ Probe(u) \/ ProbeAgain(u) \/ Clear(u) \/ Await(u) \/ Wait(u) \/ Request(u)
              \/ \E d \in Daemons : Spawn(u, d)

Startup(d) == ProbeFirst(d) \/ ClearFirst(d) \/ Bind(d) \/ Accept(d) \/ Ready(d) \/ Fail(d)

Next ==
  \/ \E u \in Users :
       \/ \E kind \in {"daemon start", "start", "dash", "daemon stop"} : Begin(u, kind)
       \/ Command(u) \/ Refresh(u) \/ Freeze(u) \/ Key(u) \/ Quit(u)
  \/ \E d \in Daemons : Run(d) \/ Startup(d) \/ Signal(d) \/ Exit(d) \/ Kill(d)

Spec == Init /\ [][Next]_vars

\* Processes run; a probe has a timeout; the rigs get 2.5 seconds.
Fairness == /\ \A u \in Users : WF_vars(Command(u))
            /\ \A d \in Daemons : WF_vars(Startup(d)) /\ WF_vars(Exit(d))

FairSpec == Spec /\ Fairness

-----------------------------------------------------------------------------
(* Properties.                                                             *)

\* With commands given one after another, whatever dies in between: a daemon that
\* has bound its socket can be reached through it, so there is one at most.
ReachableWhileUp == ~ Overlaps => \A d \in Daemons : Phase(d) \in Bound => sock = d

\* A command ends: what it waits for happens, or it notices that it cannot.
CommandsEnd == \A u \in Users : users[u].pc \notin {"idle", "open", "due"}
                                   ~> users[u].pc \in {"idle", "open", "due"}

\* A start that ends well: it says that a daemon is running, or that its rigs are.
EndsWell(u) ==
  /\ users[u].kind \in {"daemon start", "start"}
  /\ users[u].pc \in {"probe", "again", "await", "request"} /\ Answers
  /\ users'[u].pc = "idle"

\* README 139: `cryptocli daemon stop && cryptocli daemon start` leaves a daemon
\* running, so a start that says so does not mean one that is on its way out.
StartedStays == [][\A u \in Users : EndsWell(u) => Phase(sock) # "stopping"]_vars
=============================================================================
