------------------------------- MODULE PeerNode -------------------------------
(***************************************************************************)
(* The daemon's link to another machine (src/src/nodes.rs) over the line   *)
(* protocol of src/src/ipc.rs.                                             *)
(*                                                                         *)
(* Threads poll the peer on every tick, check it when a user asks, and     *)
(* forward commands to it.  They share one connection under a lock that is *)
(* held for a whole attempt.  A request is one line, and so is its reply;  *)
(* the peer may answer late, refuse, or never answer, and what it was sent *)
(* it may execute after nobody waits for it any more.                      *)
(***************************************************************************)
EXTENDS Integers, Sequences, FiniteSets

CONSTANTS
  Callers,     \* threads that poll, check or forward
  Conns,       \* connections
  Commands,    \* what users have forwarded; each is forwarded once
  None,        \* no thread, connection or command
  MaxShift,    \* 6 in the code
  MaxBackoff   \* 60 seconds in the code

ASSUME NoneAssumption ==
  None \notin Callers /\ None \notin Conns /\ None \notin Commands
ASSUME BackoffAssumption == MaxShift \in Nat \ {0} /\ MaxBackoff \in Nat \ {0}

VARIABLES
  holder,    \* who holds the lock of the connection
  client,    \* the connection kept in it
  calls,     \* what each thread is doing
  conns,     \* per connection: requests on their way, replies on theirs
  state,     \* PeerState
  asking,    \* history: the checks asked for before the attempt under way
  covered,   \* history: those asked for before the attempt state tells of
  executed,  \* history: how often the peer has executed each command
  told       \* history: what the user was told of it

netVars == <<conns, executed>>
checkVars == <<asking, covered>>
vars == <<holder, client, calls, state, checkVars, told, netVars>>

\* late: nobody waits for this exchange any more (history).
Exchange == [cmd: Commands \union {None}, ok: BOOLEAN, late: BOOLEAN]

\* look, trylock, clear, lock: before the attempt; dial, write, reply: run(); record,
\* unlock, answer: after it.
PC == {"idle", "look", "trylock", "clear", "lock", "dial", "write", "reply",
       "record", "unlock", "answer"}

Call == [pc: PC, kind: {"poll", "check", "command"}, cmd: Commands \union {None},
         conn: Conns \union {None}, second: BOOLEAN, ok: BOOLEAN]

Rest == [pc |-> "idle", kind |-> "poll", cmd |-> None, conn |-> None,
         second |-> FALSE, ok |-> FALSE]

\* failures counts to MaxShift: beyond it the code's counter changes nothing.
\* wait: seconds until the next scheduled poll may run.
State == [online: BOOLEAN, failures: 0..MaxShift, wait: 0..MaxBackoff]

TypeOK ==
  /\ holder \in Callers \union {None}
  /\ client \in Conns \union {None}
  /\ calls \in [Callers -> Call]
  /\ conns \in [Conns -> [out: Seq(Exchange), in: Seq(Exchange)]]
  /\ state \in State
  /\ asking \subseteq Callers /\ covered \subseteq Callers
  /\ executed \in [Commands -> Nat]
  /\ told \in [Commands -> {"nothing", "waiting", "done", "failed"}]

Init ==
  /\ holder = None
  /\ client = None
  /\ calls = [c \in Callers |-> Rest]
  /\ conns = [k \in Conns |-> [out |-> <<>>, in |-> <<>>]]
  /\ state = [online |-> FALSE, failures |-> 0, wait |-> 0]
  /\ asking = {} /\ covered = {}
  /\ executed = [m \in Commands |-> 0]
  /\ told = [m \in Commands |-> "nothing"]

Goto(c, pc) == calls' = [calls EXCEPT ![c] = IF pc = "idle" THEN Rest
                                               ELSE [@ EXCEPT !.pc = pc]]

Used(k) == client = k \/ \E c \in Callers : calls[c].conn = k

-----------------------------------------------------------------------------
(* Before an attempt.                                                      *)

\* A tick, a user's test of the node, a user's command for the peer.
Poll(c) ==
  /\ calls[c].pc = "idle"
  /\ calls' = [calls EXCEPT ![c] = [Rest EXCEPT !.pc = "look", !.kind = "poll"]]
  /\ UNCHANGED <<holder, client, state, checkVars, told, netVars>>

Check(c) ==
  /\ calls[c].pc = "idle"
  /\ calls' = [calls EXCEPT ![c] = [Rest EXCEPT !.pc = "clear", !.kind = "check"]]
  /\ UNCHANGED <<holder, client, state, checkVars, told, netVars>>

Forward(c, m) ==
  /\ calls[c].pc = "idle"
  /\ told[m] = "nothing"
  /\ told' = [told EXCEPT ![m] = "waiting"]
  /\ calls' = [calls EXCEPT ![c] = [Rest EXCEPT !.pc = "lock", !.kind = "command",
                                                !.cmd = m]]
  /\ UNCHANGED <<holder, client, state, checkVars, netVars>>

\* Mutant of Look: a peer that has failed often is given up.
LookGivingUp(c) ==
  /\ calls[c].pc = "look"
  /\ Goto(c, IF state.wait > 0 \/ state.failures = MaxShift THEN "idle" ELSE "trylock")
  /\ UNCHANGED <<holder, client, state, checkVars, told, netVars>>

\* poll(): nothing to do while the peer is left alone, or while another thread
\* is at it.
Look(c) ==
  /\ calls[c].pc = "look"
  /\ Goto(c, IF state.wait > 0 THEN "idle" ELSE "trylock")
  /\ UNCHANGED <<holder, client, state, checkVars, told, netVars>>

Asking == {c \in Callers : calls[c].kind = "check" /\ calls[c].pc # "idle"}

\* The lock is taken; run() begins with the connection there is, if any.
Take(c) ==
  /\ holder' = c
  /\ asking' = Asking
  /\ calls' = [calls EXCEPT ![c].conn = client,
                            ![c].pc = IF client = None THEN "dial" ELSE "write"]

TryLock(c) ==
  /\ calls[c].pc = "trylock"
  /\ IF holder = None
     THEN Take(c)
     ELSE Goto(c, "idle") /\ UNCHANGED <<holder, asking>>
  /\ UNCHANGED <<client, state, covered, told, netVars>>

\* poll_now(): at once, whatever the backoff.
Clear(c) ==
  /\ calls[c].pc = "clear"
  /\ state' = [state EXCEPT !.wait = 0]
  /\ Goto(c, "lock")
  /\ UNCHANGED <<holder, client, checkVars, told, netVars>>

\* Mutant of Lock: a check does not wait for the attempt under way.
LockOrAnswer(c) ==
  /\ calls[c].pc = "lock"
  /\ IF holder = None
     THEN Take(c)
     ELSE /\ calls[c].kind = "check" /\ Goto(c, "answer")
          /\ UNCHANGED <<holder, asking>>
  /\ UNCHANGED <<client, state, covered, told, netVars>>

Lock(c) ==
  /\ calls[c].pc = "lock"
  /\ holder = None
  /\ Take(c)
  /\ UNCHANGED <<client, state, covered, told, netVars>>

-----------------------------------------------------------------------------
(* run(): over the connection there is, and if that fails over a new one.   *)

\* What follows run(): an attempt is recorded, the user of a command is told.
Finished(c, ok) ==
  /\ calls' = [calls EXCEPT ![c] =
       IF @.kind = "command" THEN [Rest EXCEPT !.pc = "unlock", !.kind = "command"]
       ELSE [Rest EXCEPT !.pc = "record", !.kind = calls[c].kind, !.ok = ok]]
  /\ told' = IF calls[c].kind = "command"
             THEN [told EXCEPT ![calls[c].cmd] = IF ok THEN "done" ELSE "failed"]
             ELSE told

Empty(k) == conns[k].out = <<>> /\ conns[k].in = <<>>

\* connect_remote(): connecting, the handshake or the token may fail.
Dial(c) ==
  /\ calls[c].pc = "dial"
  /\ client' = None
  /\ \/ Finished(c, FALSE)
     \/ \E k \in Conns :
          /\ ~ Used(k) /\ Empty(k)
          /\ calls' = [calls EXCEPT ![c].conn = k, ![c].second = TRUE, ![c].pc = "write"]
          /\ UNCHANGED told
  /\ UNCHANGED <<holder, state, checkVars, netVars>>

\* send(): a line out.
Write(c) ==
  /\ calls[c].pc = "write"
  /\ conns' = [conns EXCEPT ![calls[c].conn].out =
                 Append(@, [cmd |-> calls[c].cmd, ok |-> TRUE, late |-> FALSE])]
  /\ Goto(c, "reply")
  /\ UNCHANGED <<holder, client, state, checkVars, executed, told>>

\* Mutants of Again: the request is sent once more on the same connection; it is
\* sent until it succeeds.
AgainSame(c) ==
  IF calls[c].second
  THEN Finished(c, FALSE)
  ELSE /\ calls' = [calls EXCEPT ![c].second = TRUE, ![c].pc = "write"]
       /\ UNCHANGED told

AgainForever(c) ==
  /\ calls' = [calls EXCEPT ![c].conn = None, ![c].pc = "dial"]
  /\ UNCHANGED told

\* What follows a failure: a new connection, once.
Again(c) ==
  IF calls[c].second
  THEN Finished(c, FALSE)
  ELSE /\ calls' = [calls EXCEPT ![c].conn = None, ![c].pc = "dial"]
       /\ UNCHANGED told

\* A line in.  A refusal is a failure like any other.
Read(c) ==
  /\ calls[c].pc = "reply"
  /\ LET k == calls[c].conn IN
       /\ conns[k].in # <<>>
       /\ conns' = [conns EXCEPT ![k].in = Tail(@)]
       /\ IF Head(conns[k].in).ok
          THEN client' = k /\ Finished(c, TRUE)
          ELSE client' = None /\ Again(c)
  /\ UNCHANGED <<holder, state, checkVars, executed>>

Abandoned(line) == [i \in DOMAIN line |-> [line[i] EXCEPT !.late = TRUE]]

\* The write or the read fails or times out.
Fail(c) ==
  /\ calls[c].pc \in {"write", "reply"}
  /\ LET k == calls[c].conn IN
       conns' = [conns EXCEPT ![k].out = Abandoned(@), ![k].in = Abandoned(@)]
  /\ client' = None
  /\ Again(c)
  /\ UNCHANGED <<holder, state, checkVars, executed>>

-----------------------------------------------------------------------------
(* After an attempt.                                                       *)

\* Mutant of Backoff: it doubles without a bound.
BackoffUncapped(failures) == 2 ^ failures

Backoff(failures) == IF 2 ^ failures > MaxBackoff THEN MaxBackoff ELSE 2 ^ failures

Recorded(ok) ==
  LET failures == IF state.failures = MaxShift THEN MaxShift ELSE state.failures + 1
  IN  IF ok
      THEN [online |-> TRUE, failures |-> 0, wait |-> 0]
      ELSE [online |-> FALSE, failures |-> failures, wait |-> Backoff(failures)]

Record(c) ==
  /\ calls[c].pc = "record"
  /\ state' = Recorded(calls[c].ok)
  /\ covered' = asking
  /\ calls' = [calls EXCEPT ![c] = [Rest EXCEPT !.pc = "unlock", !.kind = calls[c].kind]]
  /\ UNCHANGED <<holder, client, asking, told, netVars>>

Unlock(c) ==
  /\ calls[c].pc = "unlock"
  /\ holder' = None
  /\ asking' = {}
  /\ Goto(c, IF calls[c].kind = "check" THEN "answer" ELSE "idle")
  /\ UNCHANGED <<client, state, covered, told, netVars>>

\* CheckNode: the user is told what the state now says.
Answer(c) ==
  /\ calls[c].pc = "answer"
  /\ Goto(c, "idle")
  /\ covered' = covered \ {c}
  /\ UNCHANGED <<holder, client, state, asking, told, netVars>>

-----------------------------------------------------------------------------
(* Time and the peer.                                                      *)

Second ==
  /\ state.wait > 0
  /\ state' = [state EXCEPT !.wait = @ - 1]
  /\ UNCHANGED <<holder, client, calls, checkVars, told, netVars>>

\* The peer executes a request and answers or refuses; if the connection was
\* dropped the answer goes nowhere.
Serve(k, ok) ==
  /\ conns[k].out # <<>>
  /\ LET request == Head(conns[k].out) IN
       /\ conns' = [conns EXCEPT ![k].out = Tail(@),
                                 ![k].in = IF Used(k)
                                           THEN Append(@, [request EXCEPT !.ok = ok])
                                           ELSE @]
       /\ executed' = IF request.cmd = None THEN executed
                      ELSE [executed EXCEPT ![request.cmd] = @ + 1]
  /\ UNCHANGED <<holder, client, calls, state, checkVars, told>>

\* What is left in a connection that nobody uses is lost.
Lose(k) ==
  /\ ~ Used(k) /\ ~ Empty(k)
  /\ conns' = [conns EXCEPT ![k] = [out |-> <<>>, in |-> <<>>]]
  /\ UNCHANGED <<holder, client, calls, state, checkVars, executed, told>>

-----------------------------------------------------------------------------
Attempt(c) == Dial(c) \/ Write(c) \/ Read(c) \/ Fail(c) \/ Record(c) \/ Unlock(c)

Next ==
  \/ \E c \in Callers :
       \/ Poll(c) \/ Check(c) \/ \E m \in Commands : Forward(c, m)
       \/ Look(c) \/ TryLock(c) \/ Clear(c) \/ Lock(c) \/ Answer(c) \/ Attempt(c)
  \/ Second
  \/ \E k \in Conns : Lose(k) \/ \E ok \in BOOLEAN : Serve(k, ok)

Spec == Init /\ [][Next]_vars

\* Threads run; a dial, a write and a read have timeouts; the ticker comes round
\* as long as the daemon has a thread for it.
Fairness ==
  /\ WF_vars(Second)
  /\ WF_vars(\E c \in Callers : Poll(c))
  /\ \A c \in Callers :
       /\ WF_vars(Attempt(c))
       /\ WF_vars(Look(c) \/ TryLock(c) \/ Clear(c) \/ Answer(c))
       /\ WF_vars(Lock(c))

FairSpec == Spec /\ Fairness

-----------------------------------------------------------------------------
(* Properties.                                                             *)

\* One line in, one line out: a thread that waits for a reply can only get that
\* of its own request, and a connection that is kept has none left in it.
RepliesPaired ==
  /\ \A c \in Callers : calls[c].pc \in {"write", "reply"} =>
       LET line == conns[calls[c].conn].out \o conns[calls[c].conn].in
       IN  line = <<>> \/ (calls[c].pc = "reply" /\ Len(line) = 1 /\ ~ line[1].late
                             /\ line[1].cmd = calls[c].cmd)
  /\ holder = None /\ client # None => conns[client].out = <<>> /\ conns[client].in = <<>>

\* A command runs twice on the peer at the very most, however late it comes
\* through, and one that is reported done has run.
CommandsRunTwiceAtMost ==
  \A m \in Commands : /\ executed[m] <= 2
                      /\ told[m] = "done" => executed[m] >= 1

\* A check answers with what was found after it was asked for, never with the
\* outcome of an attempt that was already under way.
CheckIsFresh ==
  \A c \in Callers : calls[c].pc = "answer" => c \in covered

\* A peer that is offline is tried again.
Trying == holder # None /\ calls[holder].kind # "command"

OfflineIsRetried == ~ state.online ~> state.online \/ Trying
=============================================================================
