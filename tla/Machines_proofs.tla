-------------------------- MODULE Machines_proofs ---------------------------
(***************************************************************************)
(* Proofs about what a daemon has to do with other machines: its link to   *)
(* one (PeerNode) and the dashboard over all of them (Dashboard).  Nothing *)
(* here is about both; the names of the two modules do not clash.          *)
(*                                                                         *)
(* Of PeerNode: only the holder of the lock is in an attempt, checks are   *)
(* answered afresh, replies stay paired with requests, commands run twice  *)
(* at most, and the backoff stays in its range.  Of Dashboard: selections  *)
(* stay within their lists, and keys reach the owner of their row.         *)
(***************************************************************************)
EXTENDS PeerNode, Dashboard, SequenceTheorems, FiniteSetTheorems, TLAPS

\* The types that the argument needs.
Typed ==
  /\ holder \in Callers \union {None}
  /\ client \in Conns \union {None}
  /\ calls \in [Callers -> Call]
  /\ conns \in [Conns -> [out: Seq(Exchange), in: Seq(Exchange)]]

Working == {"dial", "write", "reply", "record"}

\* Only the thread that holds the lock is at an attempt.
HolderOnly == \A c \in Callers : calls[c].pc \in Working \union {"unlock"} => holder = c

\* The check c was asked for before the attempt under way, and when that is recorded,
\* before the one the state tells of; later attempts began after it was asked for.
Checked ==
  \A c \in Callers : calls[c].kind = "check" =>
    /\ calls[c].pc \in Working => c \in asking
    /\ calls[c].pc = "unlock" => c \in covered
    /\ calls[c].pc = "answer" => c \in covered /\ (holder # None => c \in asking)

\* Only checks get an answer from the state.
ChecksAnswer == \A c \in Callers : calls[c].pc \in {"clear", "answer"} => calls[c].kind = "check"

\* What a thread has in the line while it works: nothing, or its own exchange.
Blank(net, k) == net[k].out = <<>> /\ net[k].in = <<>>
Carries(net, k, x) == \/ net[k].out = <<x>> /\ net[k].in = <<>>
                      \/ net[k].out = <<>> /\ net[k].in = <<x>>

OwnLine ==
  \A c \in Callers :
    /\ calls[c].pc = "write" => calls[c].conn \in Conns /\ Blank(conns, calls[c].conn)
    /\ calls[c].pc = "reply" =>
         /\ calls[c].conn \in Conns
         /\ \E x \in Exchange : ~ x.late /\ x.cmd = calls[c].cmd /\ Carries(conns, calls[c].conn, x)

\* The connection kept: that of the thread at work, or one with nothing in it.
KeptClear ==
  client # None =>
    \/ \E c \in Callers : calls[c].pc \in {"write", "reply"} /\ calls[c].conn = client
    \/ Blank(conns, client)

\* A thread that does not use a connection has none.
ConnOnlyWorking == \A c \in Callers :
  calls[c].pc \notin {"write", "reply"} => calls[c].conn = None

Inv == Typed /\ HolderOnly /\ Checked /\ ChecksAnswer /\ OwnLine /\ KeptClear /\ ConnOnlyWorking

-----------------------------------------------------------------------------
(* The steps outside the lock.                                             *)

\* A record of Call stays one when its pc is changed.
LEMMA PcChanged ==
  ASSUME NEW r \in Call, NEW pc \in PC
  PROVE  /\ [r EXCEPT !.pc = pc] \in Call
         /\ [r EXCEPT !.pc = pc].pc = pc
         /\ [r EXCEPT !.pc = pc].kind = r.kind
         /\ [r EXCEPT !.pc = pc].cmd = r.cmd
         /\ [r EXCEPT !.pc = pc].conn = r.conn
BY DEF Call

\* A thread at rest is a well-formed one.
LEMMA RestIsCall == Rest \in Call
BY DEF Rest, Call, PC

\* A thread that is at no attempt, before and after, disturbs nothing.
Outside(c, r) ==
  /\ calls[c].pc \notin Working \union {"unlock"}
  /\ r \in Call
  /\ r.pc \notin Working \union {"unlock", "answer"}
  /\ r.pc = "clear" => r.kind = "check"
  /\ r.conn = None
  /\ calls' = [calls EXCEPT ![c] = r]
  /\ UNCHANGED <<holder, client, conns, asking>>
  /\ covered \ {c} \subseteq covered'

LEMMA OutsideKeepsInv ==
  ASSUME Inv, NEW c \in Callers, NEW r, Outside(c, r)
  PROVE  Inv'
<1>1. calls'[c] = r /\ \A d \in Callers : d # c => calls'[d] = calls[d]
  BY DEF Inv, Typed, Outside
<1>2. Typed'
  BY DEF Inv, Typed, Outside
<1>3. HolderOnly'
  BY <1>1 DEF Inv, HolderOnly, Outside
<1>4. Checked'
  BY <1>1 DEF Inv, Checked, Outside
<1>5. ChecksAnswer'
  BY <1>1 DEF Inv, ChecksAnswer, Outside
<1>6. OwnLine'
  BY <1>1 DEF Inv, OwnLine, Blank, Carries, Working, Outside
<1>7. KeptClear'
  <2>1. SUFFICES ASSUME client # None PROVE KeptClear'
    BY DEF KeptClear, Outside
  <2>2. CASE Blank(conns, client)
    BY <2>2 DEF KeptClear, Blank, Outside
  <2>3. CASE \E d \in Callers : calls[d].pc \in {"write", "reply"} /\ calls[d].conn = client
    <3>1. PICK d \in Callers : calls[d].pc \in {"write", "reply"} /\ calls[d].conn = client
      BY <2>3
    <3>2. d # c
      BY <3>1 DEF Outside, Working
    <3>3. QED
      BY <3>1, <3>2, <1>1 DEF KeptClear, Outside
  <2>4. QED
    BY <2>1, <2>2, <2>3 DEF Inv, KeptClear
<1>8. ConnOnlyWorking'
  BY <1>1 DEF Inv, ConnOnlyWorking, Outside
<1>9. QED
  BY <1>2, <1>3, <1>4, <1>5, <1>6, <1>7, <1>8 DEF Inv

\* Poll(c), a thread begins a look (nodes.rs, poll).
LEMMA PollKeepsInv ==
  ASSUME Inv, NEW c \in Callers, Poll(c)
  PROVE  Inv'
<1> DEFINE r == [Rest EXCEPT !.pc = "look", !.kind = "poll"]
<1>1. r \in Call /\ r.pc = "look" /\ r.conn = None
  BY DEF Rest, Call, PC
<1>2. Outside(c, r)
  BY <1>1 DEF Poll, Outside, Working, netVars, checkVars
<1>3. QED
  BY <1>2, OutsideKeepsInv

\* Check(c), a thread asks for a check (nodes.rs, poll_now).
LEMMA CheckKeepsInv ==
  ASSUME Inv, NEW c \in Callers, Check(c)
  PROVE  Inv'
<1> DEFINE r == [Rest EXCEPT !.pc = "clear", !.kind = "check"]
<1>1. r \in Call /\ r.pc = "clear" /\ r.kind = "check" /\ r.conn = None
  BY DEF Rest, Call, PC
<1>2. Outside(c, r)
  BY <1>1 DEF Check, Outside, Working, netVars, checkVars
<1>3. QED
  BY <1>2, OutsideKeepsInv

\* Forward(c, m), a thread has a command to forward (nodes.rs, command).
LEMMA ForwardKeepsInv ==
  ASSUME Inv, NEW c \in Callers, NEW m \in Commands, Forward(c, m)
  PROVE  Inv'
<1> DEFINE r == [Rest EXCEPT !.pc = "lock", !.kind = "command", !.cmd = m]
<1>1. r \in Call /\ r.pc = "lock" /\ r.conn = None
  BY DEF Rest, Call, PC
<1>2. Outside(c, r)
  BY <1>1 DEF Forward, Outside, Working, netVars, checkVars
<1>3. QED
  BY <1>2, OutsideKeepsInv

\* Goto() from one place outside an attempt to another.
LEMMA GotoOutside ==
  ASSUME Inv, NEW c \in Callers, NEW pc \in {"idle", "trylock", "lock"},
         calls[c].pc \notin Working \union {"unlock"}, Goto(c, pc),
         UNCHANGED <<holder, client, conns, asking>>, covered \ {c} \subseteq covered'
  PROVE  Inv'
<1> DEFINE r == IF pc = "idle" THEN Rest ELSE [calls[c] EXCEPT !.pc = pc]
<1>1. calls[c] \in Call /\ calls[c].conn = None /\ pc \in PC
  BY DEF Inv, Typed, ConnOnlyWorking, Working, PC
<1>2. calls' = [calls EXCEPT ![c] = r]
  BY DEF Goto
<1>3. r \in Call /\ r.pc = pc /\ r.conn = None
  <2>1. CASE pc = "idle"
    BY <2>1, RestIsCall DEF Rest
  <2>2. CASE pc # "idle"
    BY <2>2, <1>1, PcChanged
  <2>3. QED
    BY <2>1, <2>2
<1>4. Outside(c, r)
  BY <1>2, <1>3 DEF Outside, Working
<1>5. QED
  BY <1>4, OutsideKeepsInv

\* Look(c), whether a poll is due.
LEMMA LookKeepsInv ==
  ASSUME Inv, NEW c \in Callers, Look(c)
  PROVE  Inv'
BY GotoOutside DEF Look, Working, netVars, checkVars

\* Clear(c), the retry time is cleared before the check.
LEMMA ClearKeepsInv ==
  ASSUME Inv, NEW c \in Callers, Clear(c)
  PROVE  Inv'
BY GotoOutside DEF Clear, Working, netVars, checkVars

\* Answer(c), the check answers from the state.
LEMMA AnswerKeepsInv ==
  ASSUME Inv, NEW c \in Callers, Answer(c)
  PROVE  Inv'
BY GotoOutside DEF Answer, Working, netVars

-----------------------------------------------------------------------------
(* The steps under the lock.                                               *)

\* What all of them have in common: one thread moves, it holds the lock before or
\* after, and the others are at no attempt.
LEMMA OthersAway ==
  ASSUME Inv, NEW c \in Callers, holder \in {c, None}
  PROVE  \A d \in Callers : d # c => calls[d].pc \notin Working \union {"unlock"}
BY NoneAssumption DEF Inv, HolderOnly

\* The lock is taken, with the connection there is.
LEMMA TakeKeepsInv ==
  ASSUME Inv, NEW c \in Callers, Take(c), holder = None,
         calls[c].pc \in {"lock", "trylock"},
         UNCHANGED <<client, conns, covered>>
  PROVE  Inv'
<1> DEFINE r == [calls[c] EXCEPT !.conn = client,
                                 !.pc = IF client = None THEN "dial" ELSE "write"]
<1>1. calls[c] \in Call /\ client \in Conns \union {None}
  BY DEF Inv, Typed
<1>2. calls' = [calls EXCEPT ![c] = r]
  BY DEF Take, Inv, Typed
<1>3. /\ r \in Call /\ r.kind = calls[c].kind /\ r.conn = client
      /\ r.pc = IF client = None THEN "dial" ELSE "write"
      /\ r.pc \in {"dial", "write"}
  BY <1>1 DEF Call, PC
<1>4. calls'[c] = r /\ \A d \in Callers : d # c => calls'[d] = calls[d]
  BY <1>2 DEF Inv, Typed
<1>5. \A d \in Callers : d # c => calls[d].pc \notin Working \union {"unlock"}
  BY OthersAway
<1>6. holder' = c /\ asking' = Asking
  BY DEF Take
<1>7. Typed'
  BY <1>2, <1>3, <1>6 DEF Inv, Typed
<1>8. HolderOnly'
  BY <1>4, <1>5, <1>6 DEF HolderOnly
<1>9. Checked'
  <2>1. SUFFICES ASSUME NEW d \in Callers, calls'[d].kind = "check"
                 PROVE  /\ calls'[d].pc \in Working => d \in asking'
                        /\ calls'[d].pc = "unlock" => d \in covered'
                        /\ calls'[d].pc = "answer" =>
                             d \in covered' /\ (holder' # None => d \in asking')
    BY DEF Checked
  <2>2. CASE d = c
    BY <2>1, <2>2, <1>3, <1>4, <1>6 DEF Asking, Working
  <2>3. CASE d # c
    BY <2>1, <2>3, <1>4, <1>5, <1>6 DEF Asking, Working, Inv, Checked
  <2>4. QED
    BY <2>2, <2>3
<1>10. ChecksAnswer'
  BY <1>3, <1>4 DEF Inv, ChecksAnswer
<1>11. client # None => Blank(conns, client)
  BY <1>5 DEF Inv, KeptClear, Working
<1>12. OwnLine'
  <2>1. SUFFICES ASSUME NEW d \in Callers
                 PROVE  /\ calls'[d].pc = "write" =>
                             calls'[d].conn \in Conns /\ Blank(conns', calls'[d].conn)
                        /\ calls'[d].pc # "reply"
    BY DEF OwnLine
  <2>2. CASE d = c
    BY <2>2, <1>1, <1>3, <1>4, <1>11 DEF Blank
  <2>3. CASE d # c
    BY <2>3, <1>4, <1>5 DEF Working
  <2>4. QED
    BY <2>2, <2>3
<1>13. KeptClear'
  BY <1>11 DEF KeptClear, Blank
<1>14. ConnOnlyWorking'
  BY <1>3, <1>4 DEF Inv, ConnOnlyWorking
<1>15. QED
  BY <1>7, <1>8, <1>9, <1>10, <1>12, <1>13, <1>14 DEF Inv

\* Lock(c), a check or a command waits for the lock and gets it.
LEMMA LockKeepsInv ==
  ASSUME Inv, NEW c \in Callers, Lock(c)
  PROVE  Inv'
BY TakeKeepsInv DEF Lock, netVars

\* TryLock(c), a poll gets the lock, or leaves.
LEMMA TryLockKeepsInv ==
  ASSUME Inv, NEW c \in Callers, TryLock(c)
  PROVE  Inv'
<1>1. CASE holder = None
  BY <1>1, TakeKeepsInv DEF TryLock, netVars
<1>2. CASE holder # None
  BY <1>2, GotoOutside DEF TryLock, Working, netVars
<1>3. QED
  BY <1>1, <1>2

\* A step of the attempt under way, from one of its places to another.
AtWork(c, r) ==
  /\ calls[c].pc \in Working
  /\ r \in Call
  /\ r.pc \in Working \union {"unlock"}
  /\ r.kind = calls[c].kind
  /\ r.pc = "unlock" => r.kind = "command"
  /\ r.pc \notin {"write", "reply"} => r.conn = None
  /\ calls' = [calls EXCEPT ![c] = r]
  /\ UNCHANGED <<holder, checkVars>>
  /\ client' \in Conns \union {None}
  /\ conns' \in [Conns -> [out: Seq(Exchange), in: Seq(Exchange)]]
  /\ r.pc = "write" => r.conn \in Conns /\ Blank(conns', r.conn)
  /\ r.pc = "reply" =>
       /\ r.conn \in Conns
       /\ \E x \in Exchange : ~ x.late /\ x.cmd = r.cmd /\ Carries(conns', r.conn, x)
  /\ client' # None => \/ r.pc \in {"write", "reply"} /\ r.conn = client'
                       \/ Blank(conns', client')

LEMMA AtWorkKeepsInv ==
  ASSUME Inv, NEW c \in Callers, NEW r, AtWork(c, r)
  PROVE  Inv'
<1>1. calls'[c] = r /\ \A d \in Callers : d # c => calls'[d] = calls[d]
  BY DEF Inv, Typed, AtWork
<1>2. holder = c
  BY DEF Inv, HolderOnly, AtWork
<1>3. \A d \in Callers : d # c => calls[d].pc \notin Working \union {"unlock"}
  BY <1>2, OthersAway
<1>4. Typed'
  BY DEF Inv, Typed, AtWork
<1>5. HolderOnly'
  BY <1>1, <1>2, <1>3 DEF HolderOnly, AtWork
<1>6. Checked'
  BY <1>1 DEF Inv, Checked, AtWork, Working, checkVars
<1>7. ChecksAnswer'
  BY <1>1 DEF Inv, ChecksAnswer, AtWork, Working
<1>8. OwnLine'
  <2>1. \A d \in Callers : d # c => calls'[d].pc \notin {"write", "reply"}
    BY <1>1, <1>3 DEF Working
  <2>2. /\ calls'[c].pc = "write" => calls'[c].conn \in Conns /\ Blank(conns', calls'[c].conn)
        /\ calls'[c].pc = "reply" =>
             /\ calls'[c].conn \in Conns
             /\ \E x \in Exchange :
                  ~ x.late /\ x.cmd = calls'[c].cmd /\ Carries(conns', calls'[c].conn, x)
    BY <1>1 DEF AtWork, Blank, Carries
  <2>3. QED
    BY <2>1, <2>2 DEF OwnLine
<1>9. KeptClear'
  <2>1. SUFFICES ASSUME client' # None
                 PROVE  \/ \E d \in Callers : calls'[d].pc \in {"write", "reply"}
                                                /\ calls'[d].conn = client'
                        \/ Blank(conns', client')
    BY DEF KeptClear
  <2>2. CASE r.pc \in {"write", "reply"} /\ r.conn = client'
    BY <2>2, <1>1
  <2>3. CASE Blank(conns', client')
    BY <2>3
  <2>4. QED
    BY <2>1, <2>2, <2>3 DEF AtWork
<1>10. ConnOnlyWorking'
  BY <1>1 DEF Inv, ConnOnlyWorking, AtWork
<1>11. QED
  BY <1>4, <1>5, <1>6, <1>7, <1>8, <1>9, <1>10 DEF Inv

\* What follows run(), as a record.
After(c, ok) ==
  IF calls[c].kind = "command" THEN [Rest EXCEPT !.pc = "unlock", !.kind = "command"]
  ELSE [Rest EXCEPT !.pc = "record", !.kind = calls[c].kind, !.ok = ok]

LEMMA AfterIs ==
  ASSUME Inv, NEW c \in Callers, NEW ok \in BOOLEAN, Finished(c, ok)
  PROVE  /\ calls' = [calls EXCEPT ![c] = After(c, ok)]
         /\ After(c, ok) \in Call
         /\ After(c, ok).pc \in {"record", "unlock"}
         /\ After(c, ok).pc = "unlock" => After(c, ok).kind = "command"
         /\ After(c, ok).kind = calls[c].kind
         /\ After(c, ok).conn = None
<1>1. calls[c] \in Call
  BY DEF Inv, Typed
<1>2. calls' = [calls EXCEPT ![c] = After(c, ok)]
  BY DEF Finished, After, Inv, Typed
<1>3. CASE calls[c].kind = "command"
  <2>1. After(c, ok) = [Rest EXCEPT !.pc = "unlock", !.kind = "command"]
    BY <1>3 DEF After
  <2>2. QED
    BY <1>2, <1>3, <2>1 DEF Rest, Call, PC
<1>4. CASE calls[c].kind # "command"
  <2>1. After(c, ok) = [Rest EXCEPT !.pc = "record", !.kind = calls[c].kind, !.ok = ok]
    BY <1>4 DEF After
  <2>2. calls[c].kind \in {"poll", "check", "command"}
    BY <1>1 DEF Call
  <2>3. QED
    BY <1>2, <2>1, <2>2 DEF Rest, Call, PC
<1>5. QED
  BY <1>3, <1>4

\* run() is over: whoever moved has no line, and the connection kept none either.
LEMMA FinishedKeepsInv ==
  ASSUME Inv, NEW c \in Callers, NEW ok \in BOOLEAN, calls[c].pc \in Working,
         Finished(c, ok), UNCHANGED <<holder, checkVars>>,
         client' \in Conns \union {None},
         conns' \in [Conns -> [out: Seq(Exchange), in: Seq(Exchange)]],
         client' # None => Blank(conns', client')
  PROVE  Inv'
<1>1. AtWork(c, After(c, ok))
  BY AfterIs DEF AtWork, Working
<1>2. QED
  BY <1>1, AtWorkKeepsInv

\* After a failure: a new connection, or the end of run().
LEMMA AgainKeepsInv ==
  ASSUME Inv, NEW c \in Callers, calls[c].pc \in Working, Again(c),
         UNCHANGED <<holder, checkVars>>, client' = None,
         conns' \in [Conns -> [out: Seq(Exchange), in: Seq(Exchange)]]
  PROVE  Inv'
<1>1. CASE calls[c].second
  BY <1>1, FinishedKeepsInv DEF Again
<1>2. CASE ~ calls[c].second
  <2> DEFINE r == [calls[c] EXCEPT !.conn = None, !.pc = "dial"]
  <2>1. calls[c] \in Call
    BY DEF Inv, Typed
  <2>2. r \in Call /\ r.pc = "dial" /\ r.conn = None /\ r.kind = calls[c].kind
    BY <2>1 DEF Call, PC
  <2>3. calls' = [calls EXCEPT ![c] = r]
    BY <1>2 DEF Again, Inv, Typed
  <2>4. AtWork(c, r)
    BY <2>2, <2>3 DEF AtWork, Working
  <2>5. QED
    BY <2>4, AtWorkKeepsInv
<1>3. QED
  BY <1>1, <1>2

\* One end of a line changes, and what its type is then.
LEMMA LineChanged ==
  ASSUME NEW S, NEW line \in [out: S, in: S], NEW out \in S, NEW in \in S
  PROVE  /\ [line EXCEPT !.out = out] = [out |-> out, in |-> line.in]
         /\ [line EXCEPT !.out = out, !.in = in] \in [out: S, in: S]
         /\ [out |-> out, in |-> in] \in [out: S, in: S]
<1>1. [line EXCEPT !.out = out] = [out |-> out, in |-> line.in]
  OBVIOUS
<1>2. [line EXCEPT !.out = out, !.in = in] \in [out: S, in: S]
  OBVIOUS
<1>3. [out |-> out, in |-> in] \in [out: S, in: S]
  OBVIOUS
<1>4. QED
  BY <1>1, <1>2, <1>3

\* Dial(c), a connection is made or refused.
LEMMA DialKeepsInv ==
  ASSUME Inv, NEW c \in Callers, Dial(c)
  PROVE  Inv'
<1>1. /\ calls[c].pc \in Working /\ client' = None
      /\ UNCHANGED <<holder, checkVars>> /\ conns' = conns
  BY DEF Dial, Working, netVars
<1>2. conns' \in [Conns -> [out: Seq(Exchange), in: Seq(Exchange)]]
  BY <1>1 DEF Inv, Typed
<1>3. CASE Finished(c, FALSE)
  BY <1>1, <1>2, <1>3, FinishedKeepsInv
<1>4. ASSUME NEW k \in Conns, Empty(k),
             calls' = [calls EXCEPT ![c].conn = k, ![c].second = TRUE, ![c].pc = "write"]
      PROVE  Inv'
  <2> DEFINE r == [calls[c] EXCEPT !.conn = k, !.second = TRUE, !.pc = "write"]
  <2>1. calls[c] \in Call
    BY DEF Inv, Typed
  <2>2. r \in Call /\ r.pc = "write" /\ r.conn = k /\ r.kind = calls[c].kind
    BY <2>1 DEF Call, PC
  <2>3. calls' = [calls EXCEPT ![c] = r]
    BY <1>4 DEF Inv, Typed
  <2>4. Blank(conns', k)
    BY <1>1, <1>4 DEF Blank, Empty
  <2>5. AtWork(c, r)
    BY <1>1, <1>2, <2>2, <2>3, <2>4 DEF AtWork, Working
  <2>6. QED
    BY <2>5, AtWorkKeepsInv
<1>5. QED
  BY <1>3, <1>4 DEF Dial

\* Write(c), the request goes into the line.
LEMMA WriteKeepsInv ==
  ASSUME Inv, NEW c \in Callers, Write(c)
  PROVE  Inv'
<1> DEFINE k == calls[c].conn
           x == [cmd |-> calls[c].cmd, ok |-> TRUE, late |-> FALSE]
           r == [calls[c] EXCEPT !.pc = "reply"]
<1>1. calls[c].pc = "write" /\ calls[c] \in Call /\ k \in Conns /\ Blank(conns, k)
  BY DEF Write, Inv, Typed, OwnLine
<1>2. x \in Exchange /\ ~ x.late /\ x.cmd = calls[c].cmd
  BY <1>1 DEF Call, Exchange
<1>3. r \in Call /\ r.pc = "reply" /\ r.conn = k /\ r.kind = calls[c].kind /\ r.cmd = calls[c].cmd
  BY <1>1 DEF Call, PC
<1>4. calls' = [calls EXCEPT ![c] = r]
  BY DEF Write, Goto
<1> HIDE DEF x
<1>5. conns' = [conns EXCEPT ![k] = [out |-> <<x>>, in |-> <<>>]]
  <2>1. conns[k] \in [out: Seq(Exchange), in: Seq(Exchange)] /\ <<x>> \in Seq(Exchange)
    BY <1>1, <1>2 DEF Inv, Typed
  <2>2. conns' = [conns EXCEPT ![k] = [conns[k] EXCEPT !.out = Append(conns[k].out, x)]]
    BY DEF Write, x
  <2>3. Append(conns[k].out, x) = <<x>>
    BY <1>1 DEF Blank
  <2>4. [conns[k] EXCEPT !.out = <<x>>] = [out |-> <<x>>, in |-> conns[k].in]
    BY <2>1, LineChanged
  <2>5. QED
    BY <1>1, <2>2, <2>3, <2>4 DEF Blank
<1>6. /\ conns' \in [Conns -> [out: Seq(Exchange), in: Seq(Exchange)]]
      /\ Carries(conns', k, x)
  <2>1. <<x>> \in Seq(Exchange) /\ <<>> \in Seq(Exchange)
    BY <1>2
  <2>2. [out |-> <<x>>, in |-> <<>>] \in [out: Seq(Exchange), in: Seq(Exchange)]
    BY <2>1, LineChanged
  <2>3. conns'[k] = [out |-> <<x>>, in |-> <<>>]
    BY <1>1, <1>5 DEF Inv, Typed
  <2>4. conns' \in [Conns -> [out: Seq(Exchange), in: Seq(Exchange)]]
    BY <1>5, <2>2 DEF Inv, Typed
  <2>5. QED
    BY <2>3, <2>4 DEF Carries
<1>7. client # None => client = k \/ Blank(conns', client)
  <2>1. SUFFICES ASSUME client # None, client # k PROVE Blank(conns', client)
    OBVIOUS
  <2>2. \A d \in Callers : d # c => calls[d].pc \notin {"write", "reply"}
    BY <1>1, OthersAway DEF Inv, HolderOnly, Working
  <2>3. Blank(conns, client) /\ client \in Conns
    BY <2>1, <2>2 DEF Inv, KeptClear, Typed
  <2>4. QED
    BY <2>1, <2>3, <1>5 DEF Blank, Inv, Typed
<1>8. UNCHANGED <<holder, client, checkVars>> /\ client \in Conns \union {None}
  BY DEF Write, Inv, Typed
<1>9. AtWork(c, r)
  BY <1>1, <1>2, <1>3, <1>4, <1>6, <1>7, <1>8 DEF AtWork, Working
<1>10. QED
  BY <1>9, AtWorkKeepsInv

\* The line a thread waits at is empty once its reply is read.
LEMMA ReadKeepsInv ==
  ASSUME Inv, NEW c \in Callers, Read(c)
  PROVE  Inv'
<1> DEFINE k == calls[c].conn
<1>1. calls[c].pc = "reply" /\ calls[c].pc \in Working /\ k \in Conns
  BY DEF Read, Inv, OwnLine, Working
<1>2. conns[k].in # <<>> /\ conns' = [conns EXCEPT ![k].in = Tail(@)]
  BY DEF Read
<1>3. PICK x \in Exchange : Carries(conns, k, x)
  BY <1>1 DEF Inv, OwnLine
<1>4. conns[k].out = <<>> /\ conns[k].in = <<x>>
  BY <1>2, <1>3 DEF Carries
<1>5. conns[k] \in [out: Seq(Exchange), in: Seq(Exchange)]
  BY <1>1 DEF Inv, Typed
<1>6. conns' = [conns EXCEPT ![k] = [out |-> <<>>, in |-> <<>>]]
  <2>1. Tail(conns[k].in) = <<>>
    BY <1>4
  <2>2. [conns[k] EXCEPT !.in = <<>>] = [out |-> <<>>, in |-> <<>>]
    BY <1>4, <1>5
  <2>3. QED
    BY <1>2, <2>1, <2>2
<1>7. conns' \in [Conns -> [out: Seq(Exchange), in: Seq(Exchange)]] /\ Blank(conns', k)
  BY <1>1, <1>6 DEF Inv, Typed, Blank
<1>8. UNCHANGED <<holder, checkVars>>
  BY DEF Read
<1>9. CASE client' = k /\ Finished(c, TRUE)
  BY <1>1, <1>7, <1>8, <1>9, FinishedKeepsInv
<1>10. CASE client' = None /\ Again(c)
  BY <1>1, <1>7, <1>8, <1>10, AgainKeepsInv
<1>11. QED
  BY <1>9, <1>10 DEF Read

\* What nobody waits for any more is still well formed.
LEMMA AbandonedType ==
  ASSUME NEW line \in Seq(Exchange)
  PROVE  Abandoned(line) \in Seq(Exchange)
<1>1. DOMAIN line = 1..Len(line) /\ Len(line) \in Nat
  OBVIOUS
<1>2. ASSUME NEW i \in 1..Len(line)
      PROVE  [line[i] EXCEPT !.late = TRUE] \in Exchange
  <2>1. line[i] \in Exchange
    BY <1>2
  <2>2. QED
    BY <2>1 DEF Exchange
<1>3. Abandoned(line) \in [1..Len(line) -> Exchange]
  BY <1>1, <1>2 DEF Abandoned
<1>4. QED
  BY <1>1, <1>3

\* Fail(c), the line was lost or the reply came too late.
LEMMA FailKeepsInv ==
  ASSUME Inv, NEW c \in Callers, Fail(c)
  PROVE  Inv'
<1> DEFINE k == calls[c].conn
<1>1. calls[c].pc \in Working /\ k \in Conns
  BY DEF Fail, Inv, OwnLine, Working
<1>2. conns[k] \in [out: Seq(Exchange), in: Seq(Exchange)]
  BY <1>1 DEF Inv, Typed
<1>3. conns' = [conns EXCEPT ![k].out = Abandoned(@), ![k].in = Abandoned(@)]
  BY DEF Fail
<1>4. Abandoned(conns[k].out) \in Seq(Exchange) /\ Abandoned(conns[k].in) \in Seq(Exchange)
  BY <1>2, AbandonedType
<1>5. conns' \in [Conns -> [out: Seq(Exchange), in: Seq(Exchange)]]
  <2> DEFINE out == Abandoned(conns[k].out)
             in == Abandoned(conns[k].in)
  <2>1. conns' = [conns EXCEPT ![k] = [conns[k] EXCEPT !.out = out, !.in = in]]
    BY <1>1, <1>3 DEF Inv, Typed
  <2> HIDE DEF out, in
  <2>2. [conns[k] EXCEPT !.out = out, !.in = in] \in [out: Seq(Exchange), in: Seq(Exchange)]
    BY <1>2, <1>4, LineChanged DEF out, in
  <2>3. QED
    BY <2>1, <2>2 DEF Inv, Typed
<1>6. QED
  BY <1>1, <1>5, AgainKeepsInv DEF Fail

-----------------------------------------------------------------------------
(* The end of an attempt.                                                  *)

\* The connection that is kept when nobody works at it.
LEMMA KeptUnmoved ==
  ASSUME Inv, NEW c \in Callers, holder = c, calls[c].pc \notin {"write", "reply"},
         UNCHANGED <<client, conns>>
  PROVE  KeptClear'
<1>1. \A d \in Callers : calls[d].pc \notin {"write", "reply"}
  BY OthersAway DEF Working
<1>2. client # None => Blank(conns, client)
  BY <1>1 DEF Inv, KeptClear
<1>3. QED
  BY <1>2 DEF KeptClear, Blank

\* Record(c), the outcome goes into the state.
LEMMA RecordKeepsInv ==
  ASSUME Inv, NEW c \in Callers, Record(c)
  PROVE  Inv'
<1> DEFINE r == [Rest EXCEPT !.pc = "unlock", !.kind = calls[c].kind]
<1>1. /\ calls[c].pc = "record" /\ calls[c] \in Call /\ holder = c
      /\ covered' = asking /\ UNCHANGED <<holder, client, asking, conns>>
      /\ calls' = [calls EXCEPT ![c] = r]
  BY DEF Record, Inv, Typed, HolderOnly, Working, netVars
<1>2. r \in Call /\ r.pc = "unlock" /\ r.kind = calls[c].kind /\ r.conn = None
  BY <1>1 DEF Rest, Call, PC
<1>3. calls'[c] = r /\ \A d \in Callers : d # c => calls'[d] = calls[d]
  BY <1>1 DEF Inv, Typed
<1>4. \A d \in Callers : d # c => calls[d].pc \notin Working \union {"unlock"}
  BY <1>1, OthersAway
<1>5. Typed'
  BY <1>1, <1>2 DEF Inv, Typed
<1>6. HolderOnly'
  BY <1>1, <1>3, <1>4 DEF HolderOnly
<1>7. Checked'
  <2>1. SUFFICES ASSUME NEW d \in Callers, calls'[d].kind = "check"
                 PROVE  /\ calls'[d].pc \notin Working
                        /\ calls'[d].pc \in {"unlock", "answer"} => d \in asking
    BY <1>1 DEF Checked
  <2>2. CASE d = c
    BY <2>1, <2>2, <1>1, <1>2, <1>3 DEF Inv, Checked, Working
  <2>3. CASE d # c
    BY <2>1, <2>3, <1>1, <1>3, <1>4, NoneAssumption DEF Inv, Checked
  <2>4. QED
    BY <2>2, <2>3
<1>8. ChecksAnswer'
  BY <1>2, <1>3 DEF Inv, ChecksAnswer
<1>9. OwnLine'
  BY <1>2, <1>3, <1>4 DEF OwnLine, Working
<1>10. KeptClear'
  BY <1>1, KeptUnmoved
<1>11. ConnOnlyWorking'
  BY <1>2, <1>3 DEF Inv, ConnOnlyWorking
<1>12. QED
  BY <1>5, <1>6, <1>7, <1>8, <1>9, <1>10, <1>11 DEF Inv

\* Unlock(c), the lock is released.
LEMMA UnlockKeepsInv ==
  ASSUME Inv, NEW c \in Callers, Unlock(c)
  PROVE  Inv'
<1> DEFINE pc == IF calls[c].kind = "check" THEN "answer" ELSE "idle"
           r == IF pc = "idle" THEN Rest ELSE [calls[c] EXCEPT !.pc = pc]
<1>1. /\ calls[c].pc = "unlock" /\ calls[c] \in Call /\ holder = c
      /\ holder' = None /\ UNCHANGED <<client, covered, conns>>
      /\ calls' = [calls EXCEPT ![c] = r]
  BY DEF Unlock, Inv, Typed, HolderOnly, netVars, Goto
<1>2. /\ r \in Call /\ r.pc \in {"answer", "idle"} /\ r.conn = None
      /\ r.pc = "answer" => r.kind = "check" /\ calls[c].kind = "check"
  <2>1. CASE calls[c].kind = "check"
    <3>1. r = [calls[c] EXCEPT !.pc = "answer"]
      BY <2>1
    <3>2. calls[c].conn = None /\ "answer" \in PC
      BY <1>1 DEF Inv, ConnOnlyWorking, PC
    <3>3. QED
      BY <2>1, <3>1, <3>2, <1>1, PcChanged
  <2>2. CASE calls[c].kind # "check"
    <3>1. r = Rest
      BY <2>2
    <3>2. QED
      BY <3>1, RestIsCall DEF Rest
  <2>3. QED
    BY <2>1, <2>2
<1> HIDE DEF r
<1>3. calls'[c] = r /\ \A d \in Callers : d # c => calls'[d] = calls[d]
  BY <1>1 DEF Inv, Typed
<1>4. \A d \in Callers : d # c => calls[d].pc \notin Working \union {"unlock"}
  BY <1>1, OthersAway
<1>5. Typed'
  BY <1>1, <1>2 DEF Inv, Typed
<1>6. HolderOnly'
  BY <1>2, <1>3, <1>4 DEF HolderOnly, Working
<1>7. Checked'
  <2>1. SUFFICES ASSUME NEW d \in Callers, calls'[d].kind = "check"
                 PROVE  /\ calls'[d].pc \notin Working \union {"unlock"}
                        /\ calls'[d].pc = "answer" => d \in covered
    BY <1>1 DEF Checked
  <2>2. CASE d = c
    BY <2>1, <2>2, <1>1, <1>2, <1>3 DEF Inv, Checked, Working
  <2>3. CASE d # c
    BY <2>1, <2>3, <1>3, <1>4 DEF Inv, Checked
  <2>4. QED
    BY <2>2, <2>3
<1>8. ChecksAnswer'
  BY <1>2, <1>3 DEF Inv, ChecksAnswer
<1>9. OwnLine'
  BY <1>2, <1>3, <1>4 DEF OwnLine, Working
<1>10. KeptClear'
  BY <1>1, KeptUnmoved
<1>11. ConnOnlyWorking'
  BY <1>2, <1>3 DEF Inv, ConnOnlyWorking
<1>12. QED
  BY <1>5, <1>6, <1>7, <1>8, <1>9, <1>10, <1>11 DEF Inv

-----------------------------------------------------------------------------
(* The lines.                                                              *)

\* A step of the peer or the network, at a connection k: it must leave the lines that
\* are somebody's or nobody's as the argument needs them.
LEMMA LinesMove ==
  ASSUME Inv, NEW k \in Conns,
         UNCHANGED <<holder, client, calls, asking, covered>>,
         conns' \in [Conns -> [out: Seq(Exchange), in: Seq(Exchange)]],
         \A j \in Conns : j # k => conns'[j] = conns[j],
         Blank(conns, k) => Blank(conns', k),
         \A c \in Callers : calls[c].pc = "reply" /\ calls[c].conn = k =>
           \E x \in Exchange : ~ x.late /\ x.cmd = calls[c].cmd /\ Carries(conns', k, x)
  PROVE  Inv'
<1>1. Typed'
  BY DEF Inv, Typed
<1>2. HolderOnly' /\ Checked' /\ ChecksAnswer' /\ ConnOnlyWorking'
  BY DEF Inv, HolderOnly, Checked, ChecksAnswer, ConnOnlyWorking
<1>3. \A j \in Conns : Blank(conns, j) => Blank(conns', j)
  BY DEF Blank
<1>4. OwnLine'
  <2>1. SUFFICES ASSUME NEW c \in Callers
                 PROVE  /\ calls[c].pc = "write" =>
                             calls[c].conn \in Conns /\ Blank(conns', calls[c].conn)
                        /\ calls[c].pc = "reply" =>
                             /\ calls[c].conn \in Conns
                             /\ \E x \in Exchange :
                                  ~ x.late /\ x.cmd = calls[c].cmd /\ Carries(conns', calls[c].conn, x)
    BY DEF OwnLine
  <2>2. CASE calls[c].conn = k
    BY <2>2, <1>3 DEF Inv, OwnLine
  <2>3. CASE calls[c].conn # k
    BY <2>3, <1>3 DEF Inv, OwnLine, Carries
  <2>4. QED
    BY <2>2, <2>3
<1>5. KeptClear'
  <2>1. client \in Conns \union {None}
    BY DEF Inv, Typed
  <2>2. QED
    BY <2>1, <1>3 DEF Inv, KeptClear
<1>6. QED
  BY <1>1, <1>2, <1>4, <1>5 DEF Inv

\* Serve(k, ok), the peer executes a request and replies.
LEMMA ServeKeepsInv ==
  ASSUME Inv, NEW k \in Conns, NEW ok \in BOOLEAN, Serve(k, ok)
  PROVE  Inv'
<1> DEFINE x == Head(conns[k].out)
           y == [x EXCEPT !.ok = ok]
           in == IF Used(k) THEN Append(conns[k].in, y) ELSE conns[k].in
<1>1. /\ conns[k] \in [out: Seq(Exchange), in: Seq(Exchange)] /\ conns[k].out # <<>>
      /\ UNCHANGED <<holder, client, calls, asking, covered>>
  BY DEF Serve, Inv, Typed, checkVars
<1>2. conns[k].out \in Seq(Exchange) /\ conns[k].in \in Seq(Exchange)
  BY <1>1
<1>3. x \in Exchange /\ Tail(conns[k].out) \in Seq(Exchange)
  BY <1>1, <1>2
<1> HIDE DEF x
<1>4. y \in Exchange /\ y.late = x.late /\ y.cmd = x.cmd
  BY <1>3 DEF Exchange
<1>5. conns' = [conns EXCEPT ![k] = [conns[k] EXCEPT !.out = Tail(conns[k].out), !.in = in]]
  BY <1>1 DEF Serve, x, Inv, Typed
<1> HIDE DEF y
<1>6. in \in Seq(Exchange)
  BY <1>2, <1>4
<1> HIDE DEF in
<1> DEFINE line == [conns[k] EXCEPT !.out = Tail(conns[k].out), !.in = in]
<1>7. line \in [out: Seq(Exchange), in: Seq(Exchange)]
  BY <1>1, <1>3, <1>6, LineChanged
<1>8. line.out = Tail(conns[k].out) /\ line.in = in
  BY <1>1
<1> HIDE DEF line
<1>9. conns' = [conns EXCEPT ![k] = line]
  BY <1>5 DEF line
<1>10. /\ conns' \in [Conns -> [out: Seq(Exchange), in: Seq(Exchange)]]
       /\ conns'[k] = line
       /\ \A j \in Conns : j # k => conns'[j] = conns[j]
  BY <1>7, <1>9 DEF Inv, Typed
<1>11. ~ Blank(conns, k)
  BY <1>1 DEF Blank
<1>12. ASSUME NEW c \in Callers, calls[c].pc = "reply", calls[c].conn = k
       PROVE  \E z \in Exchange : ~ z.late /\ z.cmd = calls[c].cmd /\ Carries(conns', k, z)
  <2>1. PICK z \in Exchange : ~ z.late /\ z.cmd = calls[c].cmd /\ Carries(conns, k, z)
    BY <1>12 DEF Inv, OwnLine
  <2>2. conns[k].out = <<z>> /\ conns[k].in = <<>>
    BY <2>1, <1>1 DEF Carries
  <2>3. x = z /\ Tail(conns[k].out) = <<>>
    BY <2>2 DEF x
  <2>4. in = <<y>>
    BY <2>2, <1>12 DEF in, Used
  <2>5. Carries(conns', k, y)
    BY <2>3, <2>4, <1>8, <1>10 DEF Carries
  <2>6. QED
    BY <2>1, <2>3, <2>5, <1>4
<1>13. QED
  BY <1>1, <1>10, <1>11, <1>12, LinesMove

\* Lose(k), a connection is lost.
LEMMA LoseKeepsInv ==
  ASSUME Inv, NEW k \in Conns, Lose(k)
  PROVE  Inv'
<1> DEFINE line == [out |-> <<>>, in |-> <<>>]
<1>1. /\ ~ Used(k) /\ conns' = [conns EXCEPT ![k] = line]
      /\ UNCHANGED <<holder, client, calls, asking, covered>>
  BY DEF Lose, checkVars
<1>2. line \in [out: Seq(Exchange), in: Seq(Exchange)]
  OBVIOUS
<1>3. /\ conns' \in [Conns -> [out: Seq(Exchange), in: Seq(Exchange)]]
      /\ conns'[k] = line
      /\ \A j \in Conns : j # k => conns'[j] = conns[j]
  BY <1>1, <1>2 DEF Inv, Typed
<1>4. Blank(conns', k)
  BY <1>3 DEF Blank
<1>5. \A c \in Callers : calls[c].conn # k
  BY <1>1 DEF Used
<1>6. QED
  BY <1>1, <1>3, <1>4, <1>5, LinesMove

-----------------------------------------------------------------------------
(* The theorems.                                                           *)

\* The invariant holds at the start,
LEMMA InitHasInv == Init => Inv
<1>1. SUFFICES ASSUME Init PROVE Inv
  OBVIOUS
<1>2. Rest \in Call /\ Rest.pc = "idle" /\ Rest.kind = "poll" /\ Rest.conn = None
  BY RestIsCall DEF Rest
<1>3. \A c \in Callers : calls[c] = Rest
  BY <1>1 DEF Init
<1>4. [out |-> <<>>, in |-> <<>>] \in [out: Seq(Exchange), in: Seq(Exchange)]
  OBVIOUS
<1>5. Typed
  BY <1>1, <1>2, <1>4 DEF Init, Typed
<1>6. HolderOnly /\ Checked /\ ChecksAnswer /\ OwnLine /\ ConnOnlyWorking
  BY <1>2, <1>3 DEF HolderOnly, Checked, ChecksAnswer, OwnLine, ConnOnlyWorking, Working
<1>7. KeptClear
  BY <1>1 DEF Init, KeptClear
<1>8. QED
  BY <1>5, <1>6, <1>7 DEF Inv

\* and every step keeps it.
LEMMA NextKeepsInv == Inv /\ [Next]_vars => Inv'
<1>1. SUFFICES ASSUME Inv, [Next]_vars PROVE Inv'
  OBVIOUS
<1>2. CASE UNCHANGED vars
  BY <1>1, <1>2 DEF vars, netVars, checkVars, Inv, Typed, HolderOnly, Checked, ChecksAnswer,
     OwnLine, KeptClear, ConnOnlyWorking, Blank, Carries
<1>3. CASE Second
  BY <1>1, <1>3 DEF Second, netVars, checkVars, Inv, Typed, HolderOnly, Checked, ChecksAnswer,
     OwnLine, KeptClear, ConnOnlyWorking, Blank, Carries
<1>4. ASSUME NEW c \in Callers,
             \/ Poll(c) \/ Check(c) \/ \E m \in Commands : Forward(c, m)
             \/ Look(c) \/ TryLock(c) \/ Clear(c) \/ Lock(c) \/ Answer(c) \/ Attempt(c)
      PROVE  Inv'
  <2>1. CASE Poll(c) \/ Check(c) \/ \E m \in Commands : Forward(c, m)
    BY <1>1, <2>1, PollKeepsInv, CheckKeepsInv, ForwardKeepsInv
  <2>2. CASE Look(c) \/ TryLock(c) \/ Clear(c) \/ Lock(c) \/ Answer(c)
    BY <1>1, <2>2, LookKeepsInv, TryLockKeepsInv, ClearKeepsInv, LockKeepsInv, AnswerKeepsInv
  <2>3. CASE Attempt(c)
    BY <1>1, <2>3, DialKeepsInv, WriteKeepsInv, ReadKeepsInv, FailKeepsInv, RecordKeepsInv,
       UnlockKeepsInv DEF Attempt
  <2>4. QED
    BY <1>4, <2>1, <2>2, <2>3
<1>5. ASSUME NEW k \in Conns, Lose(k) \/ \E ok \in BOOLEAN : Serve(k, ok)
      PROVE  Inv'
  BY <1>1, <1>5, LoseKeepsInv, ServeKeepsInv
<1>6. QED
  BY <1>1, <1>2, <1>3, <1>4, <1>5 DEF Next

\* Inv is an invariant of the link: what the theorems below follow from.
THEOREM InvHolds == Spec => []Inv
<1>1. Init => Inv
  BY InitHasInv
<1>2. Inv /\ [Next]_vars => Inv'
  BY NextKeepsInv
<1>3. QED
  BY <1>1, <1>2, PTL DEF Spec

\* The lock works: two threads are never at an attempt at the same time.
Exclusive ==
  \A c, d \in Callers : calls[c].pc \in Working /\ calls[d].pc \in Working => c = d

\* The client's mutex (nodes.rs, attempt) keeps attempts apart, and nothing that is done
\* at one is left for after the release.
THEOREM AttemptsExclude == Spec => []Exclusive
<1>1. Inv => Exclusive
  BY DEF Inv, HolderOnly, Exclusive
<1>2. QED
  BY <1>1, InvHolds, PTL

\* A check (nodes.rs, poll_now) is answered with what an attempt found that began after
\* the check was asked for.
THEOREM ChecksAreFresh == Spec => []CheckIsFresh
<1>1. Inv => CheckIsFresh
  BY DEF Inv, Checked, ChecksAnswer, CheckIsFresh
<1>2. QED
  BY <1>1, InvHolds, PTL

\* One element is all there is of it joined with nothing.
LEMMA OneAlone ==
  ASSUME NEW S, NEW x \in S
  PROVE  <<x>> \o <<>> = <<x>> /\ <<>> \o <<x>> = <<x>>
<1>1. <<x>> \in Seq(S)
  OBVIOUS
<1>2. QED
  BY <1>1, ConcatEmptySeq

\* Replies stay paired with requests (ipc.rs, send): a thread at work has nothing in its
\* line but its own exchange, and a connection that is kept has nothing in it.
THEOREM RepliesArePaired == Spec => []RepliesPaired
<1>1. Inv => RepliesPaired
  <2>1. SUFFICES ASSUME Inv PROVE RepliesPaired
    OBVIOUS
  <2>2. ASSUME NEW c \in Callers, calls[c].pc \in {"write", "reply"}
        PROVE  LET line == conns[calls[c].conn].out \o conns[calls[c].conn].in
               IN  line = <<>> \/ (calls[c].pc = "reply" /\ Len(line) = 1 /\ ~ line[1].late
                                     /\ line[1].cmd = calls[c].cmd)
    <3> DEFINE k == calls[c].conn
    <3>1. CASE calls[c].pc = "write"
      <4>1. Blank(conns, k)
        BY <2>1, <3>1 DEF Inv, OwnLine
      <4>2. conns[k].out \o conns[k].in = <<>>
        BY <4>1 DEF Blank
      <4>3. QED
        BY <4>2
    <3>2. CASE calls[c].pc = "reply"
      <4>1. PICK x \in Exchange : ~ x.late /\ x.cmd = calls[c].cmd /\ Carries(conns, k, x)
        BY <2>1, <3>2 DEF Inv, OwnLine
      <4>2. conns[k].out \o conns[k].in = <<x>>
        <5>1. <<x>> \o <<>> = <<x>> /\ <<>> \o <<x>> = <<x>>
          BY OneAlone
        <5>2. QED
          BY <4>1, <5>1, Zenon DEF Carries
      <4>3. Len(<<x>>) = 1 /\ <<x>>[1] = x
        OBVIOUS
      <4>4. QED
        BY <3>2, <4>1, <4>2, <4>3
    <3>3. QED
      BY <2>2, <3>1, <3>2
  <2>3. holder = None /\ client # None => Blank(conns, client)
    BY <2>1, NoneAssumption DEF Inv, HolderOnly, KeptClear, Working
  <2>4. QED
    BY <2>2, <2>3 DEF RepliesPaired, Blank
<1>2. QED
  BY <1>1, InvHolds, PTL

-----------------------------------------------------------------------------
(* How often a command runs.                                               *)

\* The connections with a request for m that the peer has not read yet.
Pending(m) == {k \in Conns : conns[k].out # <<>> /\ Head(conns[k].out).cmd = m}

\* What was sent of m and not lost: it has run or may still run.
Sent(m) == executed[m] + Cardinality(Pending(m))

Sending == {"lock", "dial", "write", "reply"}

\* How often a thread at r may still send its request.
SendsLeft(r) ==
  IF r.pc = "lock" \/ (r.pc = "write" /\ ~ r.second) THEN 2
  ELSE IF r.pc \in {"write", "dial"} \/ (r.pc = "reply" /\ ~ r.second) THEN 1
  ELSE 0

\* A connection has one request on its way at most.
OneOut(net, k) == net[k].out = <<>> \/ \E x \in Exchange : net[k].out = <<x>>

\* A command is in one thread's hands, which is not done with it.
InHand ==
  \A c \in Callers, m \in Commands : calls[c].cmd = m =>
    /\ calls[c].pc \in Sending
    /\ told[m] # "nothing"
    /\ Sent(m) + SendsLeft(calls[c]) <= 2
    /\ \A d \in Callers : calls[d].cmd = m => d = c

\* A reply is there only when the command has run.
RepliesTell ==
  \A c \in Callers, m \in Commands :
    calls[c].cmd = m /\ calls[c].pc = "reply" /\ conns[calls[c].conn].in # <<>> =>
      executed[m] >= 1

ToldTyped == told \in [Commands -> {"nothing", "waiting", "done", "failed"}]

Sends ==
  /\ executed \in [Commands -> Nat] /\ ToldTyped
  /\ \A k \in Conns : OneOut(conns, k)
  /\ \A m \in Commands :
       /\ IsFiniteSet(Pending(m)) /\ Sent(m) <= 2
       /\ told[m] = "nothing" => Sent(m) = 0
       /\ told[m] = "done" => executed[m] >= 1
  /\ InHand
  /\ RepliesTell

\* Counting.
LEMMA SentTyped ==
  ASSUME Sends, NEW m \in Commands
  PROVE  executed[m] \in Nat /\ Cardinality(Pending(m)) \in Nat /\ Sent(m) \in Nat
BY FS_CardinalityType DEF Sends, Sent

\* A thread can send twice again at most.
LEMMA LeftTyped == \A r : SendsLeft(r) \in 0..2
BY DEF SendsLeft

\* What the user may learn of a command at the end of run().
ToldWell(m) ==
  \/ told'[m] = told[m]
  \/ /\ told[m] # "nothing" /\ told'[m] \in {"done", "failed"}
     /\ told'[m] = "done" => executed[m] >= 1

\* One thread moves, with no more to send than before, and nothing is on the way that was
\* not.
LEMMA MoveKeepsSends ==
  ASSUME Inv, Sends, NEW c \in Callers, NEW r,
         calls' = [calls EXCEPT ![c] = r],
         r.cmd \in {calls[c].cmd, None},
         r.cmd \in Commands => /\ r.pc \in Sending \ {"reply"}
                               /\ SendsLeft(r) <= SendsLeft(calls[c]),
         ToldTyped', \A m \in Commands : ToldWell(m),
         UNCHANGED executed, \A m \in Commands : Pending(m)' = Pending(m),
         \A k \in Conns : OneOut(conns', k),
         \A d \in Callers : d # c /\ calls[d].pc = "reply" =>
           conns'[calls[d].conn] = conns[calls[d].conn]
  PROVE  Sends'
<1>1. calls'[c] = r /\ \A d \in Callers : d # c => calls'[d] = calls[d]
  BY DEF Inv, Typed
<1>2. \A m \in Commands : Sent(m)' = Sent(m)
  BY DEF Sent
<1>3. \A m \in Commands : told'[m] = "nothing" => told[m] = "nothing"
  BY DEF ToldWell
<1>4. \A m \in Commands : told[m] # "nothing" => told'[m] # "nothing"
  BY DEF ToldWell
<1>5. \A d \in Callers, m \in Commands : calls'[d].cmd = m => calls[d].cmd = m
  BY <1>1, NoneAssumption
<1>6. ASSUME NEW d \in Callers, NEW m \in Commands, calls'[d].cmd = m
      PROVE  /\ calls'[d].pc \in Sending
             /\ told'[m] # "nothing"
             /\ Sent(m) + SendsLeft(calls'[d]) <= 2
             /\ \A e \in Callers : calls'[e].cmd = m => e = d
  <2>1. /\ calls[d].pc \in Sending /\ told[m] # "nothing"
        /\ Sent(m) + SendsLeft(calls[d]) <= 2
        /\ \A e \in Callers : calls[e].cmd = m => e = d
    BY <1>5, <1>6 DEF Sends, InHand
  <2>2. calls'[d].pc \in Sending /\ SendsLeft(calls'[d]) <= SendsLeft(calls[d])
    <3>1. CASE d = c
      BY <3>1, <1>1, <1>6
    <3>2. CASE d # c
      BY <3>2, <1>1, <2>1, LeftTyped
    <3> QED BY <3>1, <3>2
  <2>3. Sent(m) \in Nat /\ SendsLeft(calls[d]) \in 0..2 /\ SendsLeft(calls'[d]) \in 0..2
    BY SentTyped, LeftTyped
  <2> QED BY <2>1, <2>2, <2>3, <1>4, <1>5
<1>7. InHand'
  BY <1>2, <1>6 DEF InHand
<1>8. RepliesTell'
  BY <1>1, <1>5 DEF Sends, RepliesTell
<1> QED BY <1>2, <1>3, <1>7, <1>8 DEF Sends, ToldWell

\* Outside run(), a thread has nothing to send, or waits for the lock.
LEMMA IdleKeepsSends ==
  ASSUME Inv, Sends, NEW c \in Callers, NEW r,
         calls' = [calls EXCEPT ![c] = r],
         \/ r.cmd = None
         \/ calls[c].pc \notin Sending /\ r.cmd = calls[c].cmd,
         UNCHANGED <<told, conns, executed>>
  PROVE  Sends'
<1>1. r.cmd \notin Commands
  BY NoneAssumption DEF Sends, InHand
<1>2. \A m \in Commands : Pending(m)' = Pending(m)
  BY DEF Pending
<1>3. ToldTyped' /\ \A m \in Commands : ToldWell(m)
  BY DEF Sends, ToldTyped, ToldWell
<1>4. \A k \in Conns : OneOut(conns', k)
  BY DEF Sends, OneOut
<1> QED BY <1>1, <1>2, <1>3, <1>4, MoveKeepsSends

\* Before the lock and after the attempt.
LEMMA GotoKeepsSends ==
  ASSUME Inv, Sends, NEW c \in Callers, NEW pc \in PC, calls[c].pc \notin Sending,
         Goto(c, pc), UNCHANGED <<told, conns, executed>>
  PROVE  Sends'
<1> DEFINE r == IF pc = "idle" THEN Rest ELSE [calls[c] EXCEPT !.pc = pc]
<1>1. calls' = [calls EXCEPT ![c] = r]
  BY DEF Goto
<1>2. calls[c] \in Call
  BY DEF Inv, Typed
<1>3. r.cmd = None \/ r.cmd = calls[c].cmd
  <2>1. CASE pc = "idle"
    BY <2>1 DEF Rest
  <2>2. CASE pc # "idle"
    BY <2>2, <1>2, PcChanged
  <2> QED BY <2>1, <2>2
<1> HIDE DEF r
<1> QED BY <1>1, <1>3, IdleKeepsSends

\* The lock is taken by one that was to send twice at most, or nothing.
LEMMA TakeKeepsSends ==
  ASSUME Inv, Sends, NEW c \in Callers, Take(c), calls[c].pc \in {"lock", "trylock"},
         UNCHANGED <<client, told, conns, executed>>
  PROVE  Sends'
<1> DEFINE r == [calls[c] EXCEPT !.conn = client,
                                 !.pc = IF client = None THEN "dial" ELSE "write"]
<1>1. calls[c] \in Call /\ client \in Conns \union {None}
  BY DEF Inv, Typed
<1>2. calls' = [calls EXCEPT ![c] = r]
  BY DEF Take, Inv, Typed
<1>3. r.pc \in {"dial", "write"} /\ r.cmd = calls[c].cmd
  BY <1>1 DEF Call
<1> HIDE DEF r
<1>4. CASE calls[c].pc = "trylock"
  BY <1>2, <1>3, <1>4, IdleKeepsSends DEF Sending
<1>5. CASE calls[c].pc = "lock"
  <2>1. SendsLeft(calls[c]) = 2 /\ SendsLeft(r) \in 0..2
    BY <1>5, LeftTyped DEF SendsLeft
  <2>2. \A m \in Commands : Pending(m)' = Pending(m)
    BY DEF Pending
  <2>3. ToldTyped' /\ \A m \in Commands : ToldWell(m)
    BY DEF Sends, ToldTyped, ToldWell
  <2>4. \A k \in Conns : OneOut(conns', k)
    BY DEF Sends, OneOut
  <2>5. r.pc \in Sending \ {"reply"} /\ SendsLeft(r) <= SendsLeft(calls[c])
    BY <1>3, <2>1 DEF Sending
  <2> QED BY <1>2, <1>3, <2>2, <2>3, <2>4, <2>5, MoveKeepsSends
<1> QED BY <1>3, <1>4, <1>5

\* poll(), poll_now() and CheckNode outside the lock, and taking it.
LEMMA OutsideKeepsSends ==
  ASSUME Inv, Sends, NEW c \in Callers,
         Poll(c) \/ Check(c) \/ Look(c) \/ TryLock(c) \/ Clear(c) \/ Lock(c) \/ Answer(c)
  PROVE  Sends'
<1> USE DEF netVars
<1>1. CASE Poll(c)
  <2> DEFINE r == [Rest EXCEPT !.pc = "look", !.kind = "poll"]
  <2>1. r.cmd = None
    BY DEF Rest
  <2> HIDE DEF r
  <2>2. calls' = [calls EXCEPT ![c] = r] /\ UNCHANGED <<told, conns, executed>>
    BY <1>1 DEF Poll, r
  <2> QED BY <2>1, <2>2, IdleKeepsSends
<1>2. CASE Check(c)
  <2> DEFINE r == [Rest EXCEPT !.pc = "clear", !.kind = "check"]
  <2>1. r.cmd = None
    BY DEF Rest
  <2> HIDE DEF r
  <2>2. calls' = [calls EXCEPT ![c] = r] /\ UNCHANGED <<told, conns, executed>>
    BY <1>2 DEF Check, r
  <2> QED BY <2>1, <2>2, IdleKeepsSends
<1>3. CASE Look(c)
  BY <1>3, GotoKeepsSends DEF Look, Sending, PC
<1>4. CASE TryLock(c)
  <2>1. CASE holder = None
    BY <1>4, <2>1, TakeKeepsSends DEF TryLock
  <2>2. CASE holder # None
    BY <1>4, <2>2, GotoKeepsSends DEF TryLock, Sending, PC
  <2> QED BY <2>1, <2>2
<1>5. CASE Clear(c)
  BY <1>5, GotoKeepsSends DEF Clear, Sending, PC
<1>6. CASE Lock(c)
  BY <1>6, TakeKeepsSends DEF Lock
<1>7. CASE Answer(c)
  BY <1>7, GotoKeepsSends DEF Answer, Sending, PC
<1> QED BY <1>1, <1>2, <1>3, <1>4, <1>5, <1>6, <1>7

\* A user's command is forwarded once: it was in nobody's hands.
LEMMA ForwardKeepsSends ==
  ASSUME Inv, Sends, NEW c \in Callers, NEW m \in Commands, Forward(c, m)
  PROVE  Sends'
<1> DEFINE r == [Rest EXCEPT !.pc = "lock", !.kind = "command", !.cmd = m]
<1>1. r.pc = "lock" /\ r.cmd = m
  BY DEF Rest
<1> HIDE DEF r
<1>2. /\ calls' = [calls EXCEPT ![c] = r] /\ calls[c].pc = "idle"
      /\ told[m] = "nothing" /\ told' = [told EXCEPT ![m] = "waiting"]
      /\ UNCHANGED <<conns, executed>>
  BY DEF Forward, netVars, r
<1>3. calls'[c] = r /\ \A d \in Callers : d # c => calls'[d] = calls[d]
  BY <1>2 DEF Inv, Typed
<1>4. /\ told'[m] = "waiting" /\ \A n \in Commands : n # m => told'[n] = told[n]
      /\ ToldTyped'
  BY <1>2 DEF Sends, ToldTyped
<1>5. \A d \in Callers : calls[d].cmd # m
  BY <1>2 DEF Sends, InHand
<1>6. \A n \in Commands : Pending(n)' = Pending(n) /\ Sent(n)' = Sent(n)
  BY <1>2 DEF Pending, Sent
<1>7. Sent(m) = 0 /\ SendsLeft(r) = 2
  BY <1>1, <1>2 DEF Sends, SendsLeft
<1>8. InHand'
  <2> SUFFICES ASSUME NEW d \in Callers, NEW n \in Commands, calls'[d].cmd = n
               PROVE  /\ calls'[d].pc \in Sending
                      /\ told'[n] # "nothing"
                      /\ Sent(n) + SendsLeft(calls'[d]) <= 2
                      /\ \A e \in Callers : calls'[e].cmd = n => e = d
    BY <1>6 DEF InHand
  <2>1. CASE d = c
    BY <2>1, <1>1, <1>3, <1>4, <1>5, <1>7 DEF Sending
  <2>2. CASE d # c
    BY <2>2, <1>1, <1>3, <1>4, <1>5 DEF Sends, InHand
  <2> QED BY <2>1, <2>2
<1>9. RepliesTell'
  BY <1>1, <1>2, <1>3 DEF Sends, RepliesTell
<1>10. \A k \in Conns : OneOut(conns', k)
  BY <1>2 DEF Sends, OneOut
<1>11. ASSUME NEW n \in Commands
       PROVE  /\ IsFiniteSet(Pending(n)') /\ Sent(n)' <= 2
              /\ told'[n] = "nothing" => Sent(n)' = 0
              /\ told'[n] = "done" => executed'[n] >= 1
  BY <1>2, <1>4, <1>6 DEF Sends
<1> QED BY <1>2, <1>4, <1>8, <1>9, <1>10, <1>11 DEF Sends

\* A line keeps what it is about when nobody waits for it any more.
LEMMA AbandonedLine ==
  /\ Abandoned(<<>>) = <<>>
  /\ \A x \in Exchange : \E y \in Exchange : y.cmd = x.cmd /\ Abandoned(<<x>>) = <<y>>
<1>1. Abandoned(<<>>) = <<>>
  BY DEF Abandoned
<1>2. ASSUME NEW x \in Exchange
      PROVE  \E y \in Exchange : y.cmd = x.cmd /\ Abandoned(<<x>>) = <<y>>
  <2> DEFINE y == [x EXCEPT !.late = TRUE]
  <2>1. y \in Exchange /\ y.cmd = x.cmd
    BY DEF Exchange
  <2>2. Abandoned(<<x>>) = [i \in 1..1 |-> y]
    <3>1. DOMAIN <<x>> = 1..1 /\ \A i \in 1..1 : <<x>>[i] = x
      OBVIOUS
    <3>2. Abandoned(<<x>>) = [i \in 1..1 |-> [<<x>>[i] EXCEPT !.late = TRUE]]
      BY <3>1 DEF Abandoned
    <3> QED BY <3>1, <3>2
  <2> HIDE DEF y
  <2>3. [i \in 1..1 |-> y] = <<y>>
    OBVIOUS
  <2> QED BY <2>1, <2>2, <2>3
<1> QED BY <1>1, <1>2

\* The requests on the way are the same if every line is, but for what is late.
LEMMA SameLines ==
  ASSUME \A k \in Conns : OneOut(conns, k),
         \A k \in Conns : conns'[k].out = conns[k].out \/ conns'[k].out = Abandoned(conns[k].out)
  PROVE  /\ \A k \in Conns : OneOut(conns', k)
         /\ \A m \in Commands : Pending(m)' = Pending(m)
<1>1. ASSUME NEW k \in Conns
      PROVE  /\ OneOut(conns', k)
             /\ conns'[k].out = <<>> <=> conns[k].out = <<>>
             /\ conns[k].out # <<>> => Head(conns'[k].out).cmd = Head(conns[k].out).cmd
  <2>1. CASE conns'[k].out = conns[k].out
    BY <2>1 DEF OneOut
  <2>2. CASE conns[k].out = <<>>
    BY <2>2, AbandonedLine DEF OneOut
  <2>3. ASSUME NEW x \in Exchange, conns[k].out = <<x>>, conns'[k].out = Abandoned(<<x>>)
        PROVE  /\ OneOut(conns', k)
               /\ conns'[k].out = <<>> <=> conns[k].out = <<>>
               /\ conns[k].out # <<>> => Head(conns'[k].out).cmd = Head(conns[k].out).cmd
    <3>1. PICK y \in Exchange : y.cmd = x.cmd /\ conns'[k].out = <<y>>
      BY <2>3, AbandonedLine
    <3>2. Head(<<x>>) = x /\ Head(<<y>>) = y /\ <<x>> # <<>> /\ <<y>> # <<>>
      OBVIOUS
    <3> QED BY <2>3, <3>1, <3>2 DEF OneOut
  <2> QED BY <2>1, <2>2, <2>3 DEF OneOut
<1> QED BY <1>1 DEF Pending

\* What follows run() has nothing in its hands, and the user of a command was told.
LEMMA FinishedSends ==
  ASSUME Inv, Sends, NEW c \in Callers, NEW ok \in BOOLEAN, Finished(c, ok),
         ok /\ calls[c].cmd \in Commands => executed[calls[c].cmd] >= 1
  PROVE  /\ calls' = [calls EXCEPT ![c] = After(c, ok)] /\ After(c, ok).cmd = None
         /\ ToldTyped' /\ \A m \in Commands : ToldWell(m)
<1>1. calls' = [calls EXCEPT ![c] = After(c, ok)]
  BY AfterIs
<1>2. After(c, ok).cmd = None
  BY DEF After, Rest
<1>3. ToldTyped'
  BY DEF Finished, Sends, ToldTyped
<1>4. ASSUME NEW m \in Commands PROVE ToldWell(m)
  <2>1. calls[c].cmd = m => told[m] # "nothing"
    BY DEF Sends, InHand
  <2> QED BY <2>1 DEF Finished, ToldWell, Sends, ToldTyped
<1> QED BY <1>1, <1>2, <1>3, <1>4

\* After a failure there is one attempt left at most, and less than before.
LEMMA AgainKeepsSends ==
  ASSUME Inv, Sends, NEW c \in Callers, calls[c].pc \in {"write", "reply"}, Again(c),
         UNCHANGED executed,
         \A k \in Conns : OneOut(conns', k), \A m \in Commands : Pending(m)' = Pending(m),
         \A d \in Callers : d # c /\ calls[d].pc = "reply" =>
           conns'[calls[d].conn] = conns[calls[d].conn]
  PROVE  Sends'
<1>1. CASE calls[c].second
  <2>1. Finished(c, FALSE)
    BY <1>1 DEF Again
  <2>2. /\ calls' = [calls EXCEPT ![c] = After(c, FALSE)] /\ After(c, FALSE).cmd = None
        /\ ToldTyped' /\ \A m \in Commands : ToldWell(m)
    BY <2>1, FinishedSends
  <2> QED BY <2>2, NoneAssumption, MoveKeepsSends
<1>2. CASE ~ calls[c].second
  <2> DEFINE r == [calls[c] EXCEPT !.conn = None, !.pc = "dial"]
  <2>1. calls[c] \in Call
    BY DEF Inv, Typed
  <2>2. r.pc = "dial" /\ r.cmd = calls[c].cmd
    BY <2>1 DEF Call
  <2>3. calls' = [calls EXCEPT ![c] = r]
    BY <1>2 DEF Again, Inv, Typed
  <2> HIDE DEF r
  <2>4. SendsLeft(r) = 1 /\ SendsLeft(calls[c]) \in {1, 2}
    BY <1>2, <2>2 DEF SendsLeft
  <2>5. r.pc \in Sending \ {"reply"} /\ SendsLeft(r) <= SendsLeft(calls[c])
    BY <2>2, <2>4 DEF Sending
  <2>6. ToldTyped' /\ \A m \in Commands : ToldWell(m)
    BY <1>2 DEF Again, Sends, ToldTyped, ToldWell
  <2> QED BY <2>2, <2>3, <2>5, <2>6, MoveKeepsSends
<1> QED BY <1>1, <1>2

\* Nobody else waits for a reply.
LEMMA OthersNotWaiting ==
  ASSUME Inv, NEW c \in Callers, calls[c].pc \in Working \union {"unlock"}
  PROVE  \A d \in Callers : d # c => calls[d].pc \notin {"write", "reply"}
BY OthersAway DEF Inv, HolderOnly, Working

\* Dial(c), Read(c), Fail(c), Record(c) and Unlock(c) put nothing on the way.
LEMMA DialKeepsSends ==
  ASSUME Inv, Sends, NEW c \in Callers, Dial(c)
  PROVE  Sends'
<1>1. calls[c].pc = "dial" /\ UNCHANGED <<conns, executed>>
  BY DEF Dial, netVars
<1>2. /\ \A k \in Conns : OneOut(conns', k)
      /\ \A m \in Commands : Pending(m)' = Pending(m)
  BY <1>1 DEF Sends, OneOut, Pending
<1>3. CASE Finished(c, FALSE)
  <2>1. /\ calls' = [calls EXCEPT ![c] = After(c, FALSE)] /\ After(c, FALSE).cmd = None
        /\ ToldTyped' /\ \A m \in Commands : ToldWell(m)
    BY <1>3, FinishedSends
  <2> QED BY <1>1, <1>2, <2>1, NoneAssumption, MoveKeepsSends
<1>4. ASSUME NEW k \in Conns, UNCHANGED told,
             calls' = [calls EXCEPT ![c].conn = k, ![c].second = TRUE, ![c].pc = "write"]
      PROVE  Sends'
  <2> DEFINE r == [calls[c] EXCEPT !.conn = k, !.second = TRUE, !.pc = "write"]
  <2>1. calls[c] \in Call
    BY DEF Inv, Typed
  <2>2. r.pc = "write" /\ r.second /\ r.cmd = calls[c].cmd
    BY <2>1 DEF Call
  <2>3. calls' = [calls EXCEPT ![c] = r]
    BY <1>4 DEF Inv, Typed
  <2> HIDE DEF r
  <2>4. SendsLeft(r) = 1 /\ SendsLeft(calls[c]) = 1
    BY <1>1, <2>2 DEF SendsLeft
  <2>5. r.pc \in Sending \ {"reply"} /\ SendsLeft(r) <= SendsLeft(calls[c])
    BY <2>2, <2>4 DEF Sending
  <2>6. ToldTyped' /\ \A m \in Commands : ToldWell(m)
    BY <1>4 DEF Sends, ToldTyped, ToldWell
  <2> QED BY <1>1, <1>2, <2>2, <2>3, <2>5, <2>6, MoveKeepsSends
<1> QED BY <1>3, <1>4 DEF Dial

LEMMA ReadKeepsSends ==
  ASSUME Inv, Sends, NEW c \in Callers, Read(c)
  PROVE  Sends'
<1> DEFINE k == calls[c].conn
<1>1. /\ calls[c].pc = "reply" /\ k \in Conns /\ conns[k].in # <<>>
      /\ conns' = [conns EXCEPT ![k].in = Tail(@)] /\ UNCHANGED executed
  BY DEF Read, Inv, OwnLine
<1>2. \A j \in Conns : conns'[j].out = conns[j].out
  BY <1>1 DEF Inv, Typed
<1>3. /\ \A j \in Conns : OneOut(conns', j)
      /\ \A m \in Commands : Pending(m)' = Pending(m)
  BY <1>2, SameLines DEF Sends
<1>4. \A d \in Callers : d # c => calls[d].pc # "reply"
  BY <1>1, OthersNotWaiting DEF Working
<1>5. CASE Finished(c, TRUE)
  <2>1. calls[c].cmd \in Commands => executed[calls[c].cmd] >= 1
    BY <1>1 DEF Sends, RepliesTell
  <2>2. /\ calls' = [calls EXCEPT ![c] = After(c, TRUE)] /\ After(c, TRUE).cmd = None
        /\ ToldTyped' /\ \A m \in Commands : ToldWell(m)
    BY <1>5, <2>1, FinishedSends
  <2> QED BY <1>1, <1>3, <1>4, <2>2, NoneAssumption, MoveKeepsSends
<1>6. CASE Again(c)
  BY <1>1, <1>3, <1>4, <1>6, AgainKeepsSends
<1> QED BY <1>5, <1>6 DEF Read

LEMMA FailKeepsSends ==
  ASSUME Inv, Sends, NEW c \in Callers, Fail(c)
  PROVE  Sends'
<1> DEFINE k == calls[c].conn
<1>1. /\ calls[c].pc \in {"write", "reply"} /\ k \in Conns /\ Again(c) /\ UNCHANGED executed
      /\ conns' = [conns EXCEPT ![k].out = Abandoned(@), ![k].in = Abandoned(@)]
  BY DEF Fail, Inv, OwnLine
<1>2. \A j \in Conns : conns'[j].out = conns[j].out \/ conns'[j].out = Abandoned(conns[j].out)
  BY <1>1 DEF Inv, Typed
<1>3. /\ \A j \in Conns : OneOut(conns', j)
      /\ \A m \in Commands : Pending(m)' = Pending(m)
  BY <1>2, SameLines DEF Sends
<1>4. \A d \in Callers : d # c => calls[d].pc # "reply"
  BY <1>1, OthersNotWaiting DEF Working
<1> QED BY <1>1, <1>3, <1>4, AgainKeepsSends

\* Record(c) and Unlock(c): what there was to send was sent.
LEMMA EndKeepsSends ==
  ASSUME Inv, Sends, NEW c \in Callers, Record(c) \/ Unlock(c)
  PROVE  Sends'
<1>1. CASE Record(c)
  <2> DEFINE r == [Rest EXCEPT !.pc = "unlock", !.kind = calls[c].kind]
  <2>1. r.cmd = None
    BY DEF Rest
  <2> HIDE DEF r
  <2>2. calls' = [calls EXCEPT ![c] = r] /\ UNCHANGED <<told, conns, executed>>
    BY <1>1 DEF Record, netVars, r
  <2> QED BY <2>1, <2>2, IdleKeepsSends
<1>2. CASE Unlock(c)
  <2>1. Goto(c, "answer") \/ Goto(c, "idle")
    BY <1>2 DEF Unlock
  <2>2. calls[c].pc \notin Sending /\ UNCHANGED <<told, conns, executed>>
    BY <1>2 DEF Unlock, Sending, netVars
  <2> QED BY <2>1, <2>2, GotoKeepsSends DEF PC
<1> QED BY <1>1, <1>2

\* Write(c): one more on the way, one fewer to send.
LEMMA WriteKeepsSends ==
  ASSUME Inv, Sends, NEW c \in Callers, Write(c)
  PROVE  Sends'
<1> DEFINE k == calls[c].conn
           x == [cmd |-> calls[c].cmd, ok |-> TRUE, late |-> FALSE]
           r == [calls[c] EXCEPT !.pc = "reply"]
<1>1. /\ calls[c].pc = "write" /\ calls[c] \in Call /\ k \in Conns /\ Blank(conns, k)
      /\ UNCHANGED <<executed, told>>
  BY DEF Write, Inv, Typed, OwnLine
<1>2. x \in Exchange /\ x.cmd = calls[c].cmd
  BY <1>1 DEF Call, Exchange
<1>3. /\ r.pc = "reply" /\ r.conn = k /\ r.cmd = calls[c].cmd
      /\ r.second = calls[c].second
  BY <1>1 DEF Call
<1>4. calls' = [calls EXCEPT ![c] = r]
  BY DEF Write, Goto
<1> HIDE DEF x, r
<1>5. /\ conns'[k].out = <<x>> /\ conns'[k].in = <<>>
      /\ \A j \in Conns : j # k => conns'[j] = conns[j]
  <2>1. conns' = [conns EXCEPT ![k].out = Append(@, x)]
    BY DEF Write, x
  <2>2. conns[k].out = <<>> /\ conns[k].in = <<>> /\ Append(<<>>, x) = <<x>>
    BY <1>1 DEF Blank
  <2>3. conns[k] \in [out: Seq(Exchange), in: Seq(Exchange)]
    BY <1>1 DEF Inv, Typed
  <2> QED BY <1>1, <2>1, <2>2, <2>3 DEF Inv, Typed
<1>6. calls'[c] = r /\ \A d \in Callers : d # c => calls'[d] = calls[d]
  BY <1>4 DEF Inv, Typed
<1>7. ASSUME NEW m \in Commands
      PROVE  /\ k \notin Pending(m) /\ IsFiniteSet(Pending(m)')
             /\ Sent(m)' = IF calls[c].cmd = m THEN Sent(m) + 1 ELSE Sent(m)
  <2>1. k \notin Pending(m)
    BY <1>1 DEF Pending, Blank
  <2>2. Head(<<x>>) = x /\ <<x>> # <<>>
    OBVIOUS
  <2>3. Pending(m)' = IF calls[c].cmd = m THEN Pending(m) \union {k} ELSE Pending(m)
    BY <1>1, <1>2, <1>5, <2>1, <2>2 DEF Pending
  <2>4. IsFiniteSet(Pending(m))
    BY DEF Sends
  <2>5. CASE calls[c].cmd = m
    <3>1. /\ IsFiniteSet(Pending(m) \union {k})
          /\ Cardinality(Pending(m) \union {k}) = Cardinality(Pending(m)) + 1
      BY <2>1, <2>4, FS_AddElement
    <3> QED BY <1>1, <2>1, <2>3, <2>5, <3>1, SentTyped DEF Sent
  <2>6. CASE calls[c].cmd # m
    BY <1>1, <2>1, <2>3, <2>4, <2>6 DEF Sent
  <2> QED BY <2>5, <2>6
<1>8. ASSUME NEW m \in Commands, calls[c].cmd = m
      PROVE  /\ told[m] # "nothing" /\ Sent(m) + SendsLeft(calls[c]) <= 2
             /\ SendsLeft(calls[c]) = SendsLeft(r) + 1 /\ SendsLeft(r) \in {0, 1}
             /\ \A d \in Callers : calls[d].cmd = m => d = c
  BY <1>1, <1>3, <1>8 DEF Sends, InHand, SendsLeft
<1>9. InHand'
  <2> SUFFICES ASSUME NEW d \in Callers, NEW m \in Commands, calls'[d].cmd = m
               PROVE  /\ calls'[d].pc \in Sending
                      /\ told'[m] # "nothing"
                      /\ Sent(m)' + SendsLeft(calls'[d]) <= 2
                      /\ \A e \in Callers : calls'[e].cmd = m => e = d
    BY DEF InHand
  <2>1. CASE d = c
    <3>1. calls[c].cmd = m
      BY <2>1, <1>3, <1>6
    <3>2. Sent(m)' = Sent(m) + 1 /\ Sent(m) \in Nat
      BY <3>1, <1>7, SentTyped
    <3> QED BY <2>1, <3>1, <3>2, <1>1, <1>3, <1>6, <1>8 DEF Sending
  <2>2. CASE d # c
    <3>1. calls[d].cmd = m /\ calls[c].cmd # m
      BY <2>2, <1>6, <1>8
    <3>2. Sent(m)' = Sent(m)
      BY <3>1, <1>7
    <3> QED BY <2>2, <3>1, <3>2, <1>1, <1>3, <1>6 DEF Sends, InHand
  <2> QED BY <2>1, <2>2
<1>10. RepliesTell'
  <2>1. \A d \in Callers : d # c => calls[d].pc # "reply"
    BY <1>1, OthersNotWaiting DEF Working
  <2> QED BY <1>3, <1>5, <1>6, <2>1 DEF RepliesTell
<1>11. \A j \in Conns : OneOut(conns', j)
  BY <1>2, <1>5 DEF Sends, OneOut
<1>12. ASSUME NEW m \in Commands
       PROVE  /\ IsFiniteSet(Pending(m)') /\ Sent(m)' <= 2
              /\ told'[m] = "nothing" => Sent(m)' = 0
              /\ told'[m] = "done" => executed'[m] >= 1
  BY <1>1, <1>7, <1>8, SentTyped DEF Sends
<1>13. executed' \in [Commands -> Nat] /\ ToldTyped'
  BY <1>1 DEF Sends, ToldTyped
<1> QED BY <1>9, <1>10, <1>11, <1>12, <1>13 DEF Sends

\* The threads' part, when only the peer or the network moves.
LEMMA PeerKeepsInHand ==
  ASSUME Sends, UNCHANGED <<calls, told>>,
         \A m \in Commands : Sent(m)' \in Nat /\ Sent(m)' <= Sent(m)
  PROVE  InHand'
<1>1. ASSUME NEW c \in Callers, NEW m \in Commands, calls[c].cmd = m
      PROVE  Sent(m)' + SendsLeft(calls[c]) <= 2
  <2>1. Sent(m) + SendsLeft(calls[c]) <= 2
    BY <1>1 DEF Sends, InHand
  <2> QED BY <2>1, SentTyped, LeftTyped
<1> QED BY <1>1 DEF Sends, InHand

\* Serve(k, ok): what was on the way has run.
LEMMA ServeKeepsSends ==
  ASSUME Inv, Sends, NEW k \in Conns, NEW ok \in BOOLEAN, Serve(k, ok)
  PROVE  Sends'
<1>1. PICK x \in Exchange : conns[k].out = <<x>>
  BY DEF Serve, Sends, OneOut
<1>2. Head(conns[k].out) = x /\ Tail(conns[k].out) = <<>>
  BY <1>1
<1>3. /\ executed' = IF x.cmd = None THEN executed ELSE [executed EXCEPT ![x.cmd] = @ + 1]
      /\ UNCHANGED <<calls, told>>
  BY <1>2 DEF Serve
<1>4. conns'[k].out = <<>> /\ \A j \in Conns : j # k => conns'[j] = conns[j]
  <2>1. conns[k] \in [out: Seq(Exchange), in: Seq(Exchange)]
    BY DEF Inv, Typed
  <2> QED BY <2>1, <1>2 DEF Serve, Inv, Typed
<1>5. x.cmd \in Commands \union {None} /\ executed' \in [Commands -> Nat]
  BY <1>3 DEF Exchange, Sends
<1>6. ASSUME NEW m \in Commands
      PROVE  /\ Pending(m)' = Pending(m) \ {k}
             /\ k \in Pending(m) <=> x.cmd = m
             /\ executed'[m] = IF x.cmd = m THEN executed[m] + 1 ELSE executed[m]
  <2>1. <<x>> # <<>> /\ Head(<<x>>) = x
    OBVIOUS
  <2>2. k \in Pending(m) <=> x.cmd = m
    BY <1>1, <2>1 DEF Pending
  <2>3. Pending(m)' = Pending(m) \ {k}
    BY <1>4 DEF Pending
  <2>4. executed'[m] = IF x.cmd = m THEN executed[m] + 1 ELSE executed[m]
    BY <1>3, <1>5, NoneAssumption DEF Sends
  <2> QED BY <2>2, <2>3, <2>4
<1>7. ASSUME NEW m \in Commands
      PROVE  IsFiniteSet(Pending(m)') /\ Sent(m)' = Sent(m)
  <2>1. /\ IsFiniteSet(Pending(m) \ {k})
        /\ Cardinality(Pending(m) \ {k}) =
             IF k \in Pending(m) THEN Cardinality(Pending(m)) - 1 ELSE Cardinality(Pending(m))
    BY FS_RemoveElement DEF Sends
  <2>2. IsFiniteSet(Pending(m)')
    BY <2>1, <1>6
  <2>3. CASE x.cmd = m
    <3>1. Cardinality(Pending(m)') = Cardinality(Pending(m)) - 1 /\ executed'[m] = executed[m] + 1
      BY <2>1, <2>3, <1>6
    <3> QED BY <2>2, <3>1, SentTyped DEF Sent
  <2>4. CASE x.cmd # m
    <3>1. Cardinality(Pending(m)') = Cardinality(Pending(m)) /\ executed'[m] = executed[m]
      BY <2>1, <2>4, <1>6
    <3> QED BY <2>2, <3>1 DEF Sent
  <2> QED BY <2>3, <2>4
<1>8. InHand'
  BY <1>3, <1>7, SentTyped, PeerKeepsInHand
<1>9. RepliesTell'
  <2> SUFFICES ASSUME NEW c \in Callers, NEW m \in Commands, calls[c].cmd = m,
                      calls[c].pc = "reply", conns'[calls[c].conn].in # <<>>
               PROVE  executed'[m] >= 1
    BY <1>3 DEF RepliesTell
  <2>1. CASE calls[c].conn = k
    <3>1. PICK y \in Exchange : y.cmd = m /\ Carries(conns, k, y)
      BY <2>1 DEF Inv, OwnLine
    <3>2. <<x>> # <<>> /\ (<<x>> = <<y>> => x = y)
      OBVIOUS
    <3>3. x.cmd = m
      BY <3>1, <3>2, <1>1 DEF Carries
    <3> QED BY <3>3, <1>6, SentTyped
  <2>2. CASE calls[c].conn # k
    <3>1. calls[c].conn \in Conns
      BY DEF Inv, OwnLine
    <3>2. executed[m] >= 1
      BY <2>2, <3>1, <1>4 DEF Sends, RepliesTell
    <3> QED BY <3>2, <1>6, SentTyped
  <2> QED BY <2>1, <2>2
<1>10. \A j \in Conns : OneOut(conns', j)
  BY <1>4 DEF Sends, OneOut
<1>11. ASSUME NEW m \in Commands
       PROVE  /\ IsFiniteSet(Pending(m)') /\ Sent(m)' <= 2
              /\ told'[m] = "nothing" => Sent(m)' = 0
              /\ told'[m] = "done" => executed'[m] >= 1
  BY <1>3, <1>6, <1>7, SentTyped DEF Sends
<1> QED BY <1>3, <1>5, <1>8, <1>9, <1>10, <1>11 DEF Sends, ToldTyped

\* Lose(k): what is lost will not run.
LEMMA LoseKeepsSends ==
  ASSUME Inv, Sends, NEW k \in Conns, Lose(k)
  PROVE  Sends'
<1>1. /\ ~ Used(k) /\ UNCHANGED <<calls, told, executed>>
      /\ conns' = [conns EXCEPT ![k] = [out |-> <<>>, in |-> <<>>]]
  BY DEF Lose
<1>2. conns'[k].out = <<>> /\ \A j \in Conns : j # k => conns'[j] = conns[j]
  BY <1>1 DEF Inv, Typed
<1>3. ASSUME NEW m \in Commands
      PROVE  IsFiniteSet(Pending(m)') /\ Sent(m)' \in Nat /\ Sent(m)' <= Sent(m)
  <2>1. Pending(m)' \in SUBSET Pending(m) /\ IsFiniteSet(Pending(m))
    BY <1>2 DEF Pending, Sends
  <2>2. IsFiniteSet(Pending(m)') /\ Cardinality(Pending(m)') <= Cardinality(Pending(m))
    BY <2>1, FS_Subset
  <2>3. Cardinality(Pending(m)') \in Nat
    BY <2>2, FS_CardinalityType
  <2> QED BY <1>1, <2>2, <2>3, SentTyped DEF Sent
<1>4. InHand'
  BY <1>1, <1>3, PeerKeepsInHand
<1>5. RepliesTell'
  <2>1. \A c \in Callers : calls[c].pc = "reply" => calls[c].conn \in Conns /\ calls[c].conn # k
    BY <1>1 DEF Used, Inv, OwnLine
  <2> QED BY <1>1, <1>2, <2>1 DEF Sends, RepliesTell
<1>6. \A j \in Conns : OneOut(conns', j)
  BY <1>2 DEF Sends, OneOut
<1>7. ASSUME NEW m \in Commands
      PROVE  /\ Sent(m)' <= 2
             /\ told'[m] = "nothing" => Sent(m)' = 0
             /\ told'[m] = "done" => executed'[m] >= 1
  BY <1>1, <1>3, SentTyped DEF Sends
<1> QED BY <1>1, <1>3, <1>4, <1>5, <1>6, <1>7 DEF Sends, ToldTyped

LEMMA InitHasSends == Init => Sends
<1> SUFFICES ASSUME Init PROVE Sends
  OBVIOUS
<1>1. \A c \in Callers : calls[c].cmd = None
  BY DEF Init, Rest
<1>2. ASSUME NEW m \in Commands PROVE Pending(m) = {}
  BY DEF Init, Pending
<1>3. ASSUME NEW m \in Commands PROVE IsFiniteSet(Pending(m)) /\ Sent(m) = 0
  <2>1. executed[m] = 0 /\ Pending(m) = {}
    BY <1>2 DEF Init
  <2>2. IsFiniteSet({}) /\ Cardinality({}) = 0
    BY FS_EmptySet
  <2> QED BY <2>1, <2>2 DEF Sent
<1>4. InHand /\ RepliesTell
  BY <1>1, NoneAssumption DEF InHand, RepliesTell
<1>5. \A k \in Conns : OneOut(conns, k)
  BY DEF Init, OneOut
<1> QED BY <1>3, <1>4, <1>5 DEF Init, Sends, ToldTyped

LEMMA NextKeepsSends == Inv /\ Sends /\ [Next]_vars => Sends'
<1> SUFFICES ASSUME Inv, Sends, [Next]_vars PROVE Sends'
  OBVIOUS
<1>1. CASE Second \/ UNCHANGED vars
  <2>1. UNCHANGED <<calls, conns, executed, told>>
    BY <1>1 DEF Second, vars, netVars
  <2>2. \A m \in Commands : Pending(m)' = Pending(m) /\ Sent(m)' = Sent(m)
    BY <2>1 DEF Pending, Sent
  <2>3. InHand' /\ RepliesTell'
    BY <2>1, <2>2 DEF Sends, InHand, RepliesTell
  <2> QED BY <2>1, <2>2, <2>3 DEF Sends, ToldTyped, OneOut
<1>2. ASSUME NEW c \in Callers,
             \/ Poll(c) \/ Check(c) \/ \E m \in Commands : Forward(c, m)
             \/ Look(c) \/ TryLock(c) \/ Clear(c) \/ Lock(c) \/ Answer(c) \/ Attempt(c)
      PROVE  Sends'
  <2>1. CASE Attempt(c)
    BY <2>1, DialKeepsSends, WriteKeepsSends, ReadKeepsSends, FailKeepsSends,
       EndKeepsSends DEF Attempt
  <2>2. CASE \E m \in Commands : Forward(c, m)
    BY <2>2, ForwardKeepsSends
  <2> QED BY <1>2, <2>1, <2>2, OutsideKeepsSends
<1>3. ASSUME NEW k \in Conns, Lose(k) \/ \E ok \in BOOLEAN : Serve(k, ok)
      PROVE  Sends'
  BY <1>3, LoseKeepsSends, ServeKeepsSends
<1> QED BY <1>1, <1>2, <1>3 DEF Next

\* A command runs on the peer twice at most, and has run when it is reported done
\* (nodes.rs, command and run), however late requests and replies come through.
THEOREM CommandsAreBounded == Spec => []CommandsRunTwiceAtMost
<1>1. Sends => CommandsRunTwiceAtMost
  BY SentTyped DEF Sends, Sent, CommandsRunTwiceAtMost
<1> QED BY <1>1, InitHasSends, NextKeepsSends, InvHolds, PTL DEF Spec

-----------------------------------------------------------------------------
(* The state, and how long a peer is left alone.                           *)

\* The subsets of 1..n number 2 ^ n, which is how powers are reasoned about here.
LEMMA PowerTyped ==
  ASSUME NEW n \in Nat
  PROVE  2 ^ n \in Nat /\ 2 ^ n >= 1
<1>1. IsFiniteSet(1..n) /\ Cardinality(1..n) = n
  BY FS_Interval
<1>2. IsFiniteSet(SUBSET (1..n)) /\ Cardinality(SUBSET (1..n)) = 2 ^ n
  BY <1>1, FS_SUBSET
<1>3. SUBSET (1..n) # {}
  OBVIOUS
<1>4. 2 ^ n \in Nat /\ 2 ^ n # 0
  BY <1>2, <1>3, FS_CardinalityType, FS_EmptySet
<1> QED BY <1>4

LEMMA PowerGrows ==
  ASSUME NEW m \in Nat, NEW n \in Nat, m <= n
  PROVE  2 ^ m <= 2 ^ n
<1>1. \A k \in Nat : IsFiniteSet(1..k) /\ Cardinality(1..k) = k
  BY FS_Interval
<1>2. \A k \in Nat : IsFiniteSet(SUBSET (1..k)) /\ Cardinality(SUBSET (1..k)) = 2 ^ k
  BY <1>1, FS_SUBSET
<1>3. SUBSET (1..m) \in SUBSET (SUBSET (1..n))
  OBVIOUS
<1>4. Cardinality(SUBSET (1..m)) <= Cardinality(SUBSET (1..n))
  BY <1>2, <1>3, FS_Subset
<1> QED BY <1>2, <1>4

\* However often a peer has failed it is tried again within MaxBackoff seconds, never at
\* once, and never sooner than when it had failed less often (nodes.rs, attempt).
THEOREM BackoffIsBounded ==
  ASSUME NEW n \in Nat
  PROVE  /\ Backoff(n) \in 1..MaxBackoff
         /\ \A m \in 0..n : Backoff(m) <= Backoff(n)
<1>1. ASSUME NEW m \in 0..n PROVE Backoff(m) <= Backoff(n)
  <2>1. 2 ^ m \in Nat /\ 2 ^ n \in Nat /\ 2 ^ m <= 2 ^ n
    BY PowerTyped, PowerGrows
  <2> QED BY <2>1, BackoffAssumption DEF Backoff
<1>2. Backoff(n) \in 1..MaxBackoff
  BY PowerTyped, BackoffAssumption DEF Backoff
<1> QED BY <1>1, <1>2

\* A peer is left alone only after it has failed, and for no longer than the failures
\* in a row that are on record call for.
LeftAlone ==
  state.wait > 0 => ~ state.online /\ state.failures > 0 /\ state.wait <= Backoff(state.failures)

StateInv ==
  /\ state \in State
  /\ asking \subseteq Callers /\ covered \subseteq Callers
  /\ LeftAlone

\* What an attempt records.
LEMMA RecordedWell ==
  ASSUME state \in State, NEW ok, state' = Recorded(ok)
  PROVE  state' \in State /\ LeftAlone'
<1> DEFINE failures == IF state.failures = MaxShift THEN MaxShift ELSE state.failures + 1
<1>1. failures \in 1..MaxShift
  BY BackoffAssumption DEF State
<1>2. Backoff(failures) \in 1..MaxBackoff
  BY <1>1, BackoffIsBounded, BackoffAssumption
<1>3. CASE ok
  <2>1. state' = [online |-> TRUE, failures |-> 0, wait |-> 0]
    BY <1>3 DEF Recorded
  <2> QED BY <2>1, BackoffAssumption DEF State, LeftAlone
<1>4. CASE ~ ok
  <2>1. state' = [online |-> FALSE, failures |-> failures, wait |-> Backoff(failures)]
    BY <1>4 DEF Recorded
  <2>2. state'.online = FALSE /\ state'.failures = failures /\ state'.wait = Backoff(failures)
    BY <2>1
  <2>3. state' \in State
    BY <1>1, <1>2, <2>1, BackoffAssumption DEF State
  <2> HIDE DEF failures
  <2>4. LeftAlone'
    BY <1>1, <1>2, <2>2 DEF LeftAlone
  <2> QED BY <2>3, <2>4
<1> QED BY <1>3, <1>4

\* What a second of waiting, and a check, change.
LEMMA WaitLess ==
  ASSUME StateInv, NEW w \in 0..state.wait, state' = [state EXCEPT !.wait = w]
  PROVE  state' \in State /\ LeftAlone'
<1>1. state \in State /\ w \in 0..MaxBackoff /\ w <= state.wait
  BY BackoffAssumption DEF StateInv, State
<1>2. /\ state'.online = state.online /\ state'.failures = state.failures /\ state'.wait = w
      /\ state' \in State
  BY <1>1 DEF State
<1>3. Backoff(state.failures) \in Int
  BY <1>1, BackoffIsBounded, BackoffAssumption DEF State
<1>4. CASE w = 0
  BY <1>2, <1>4 DEF LeftAlone
<1>5. CASE w # 0
  <2>1. state.wait > 0 /\ state.wait \in Int
    BY <1>1, <1>5 DEF State
  <2> QED BY <1>1, <1>2, <1>3, <2>1 DEF StateInv, LeftAlone
<1> QED BY <1>2, <1>4, <1>5

LEMMA InitHasState == Init => StateInv
BY BackoffAssumption DEF Init, StateInv, State, LeftAlone

LEMMA NextKeepsState == StateInv /\ [Next]_vars => StateInv'
<1> SUFFICES ASSUME StateInv, [Next]_vars PROVE StateInv'
  OBVIOUS
<1> USE DEF checkVars
<1>1. CASE UNCHANGED vars
  BY <1>1 DEF vars, StateInv, LeftAlone
<1>2. CASE Second
  <2>1. state.wait - 1 \in 0..state.wait
    BY <1>2 DEF Second, StateInv, State
  <2>2. state' \in State /\ LeftAlone'
    BY <1>2, <2>1, WaitLess DEF Second
  <2> QED BY <1>2, <2>2 DEF Second, StateInv
<1>3. ASSUME NEW c \in Callers, NEW m \in Commands, Forward(c, m)
      PROVE  StateInv'
  BY <1>3 DEF Forward, StateInv, LeftAlone
<1>4. ASSUME NEW c \in Callers, Poll(c) \/ Check(c) \/ Look(c)
      PROVE  StateInv'
  BY <1>4 DEF Poll, Check, Look, StateInv, LeftAlone
<1>5. ASSUME NEW c \in Callers, TryLock(c) \/ Lock(c)
      PROVE  StateInv'
  BY <1>5 DEF TryLock, Lock, Take, Asking, StateInv, LeftAlone
<1>6. ASSUME NEW c \in Callers, Clear(c)
      PROVE  StateInv'
  <2>1. 0 \in 0..state.wait
    BY DEF StateInv, State
  <2>2. state' \in State /\ LeftAlone'
    BY <1>6, <2>1, WaitLess DEF Clear
  <2> QED BY <1>6, <2>2 DEF Clear, StateInv
<1>7. ASSUME NEW c \in Callers, Answer(c)
      PROVE  StateInv'
  BY <1>7 DEF Answer, StateInv, LeftAlone
<1>8. ASSUME NEW c \in Callers, Dial(c) \/ Write(c) \/ Read(c) \/ Fail(c) \/ Unlock(c)
      PROVE  StateInv'
  BY <1>8 DEF Dial, Write, Read, Fail, Unlock, StateInv, LeftAlone
<1>9. ASSUME NEW c \in Callers, Record(c)
      PROVE  StateInv'
  <2>1. state' \in State /\ LeftAlone'
    BY <1>9, RecordedWell DEF Record, StateInv
  <2> QED BY <1>9, <2>1 DEF Record, StateInv
<1>10. ASSUME NEW k \in Conns, Lose(k) \/ \E ok \in BOOLEAN : Serve(k, ok)
       PROVE  StateInv'
  BY <1>10 DEF Lose, Serve, StateInv, LeftAlone
<1> QED BY <1>1, <1>2, <1>3, <1>4, <1>5, <1>6, <1>7, <1>8, <1>9, <1>10 DEF Next, Attempt

\* A peer that is online, or that nobody has tried yet, is not left alone; one that has
\* failed is, for MaxBackoff seconds at most (nodes.rs, poll and attempt).
THEOREM LeftAloneOnlyAfterFailure == Spec => [](LeftAlone /\ state.wait <= MaxBackoff)
<1>1. StateInv => LeftAlone /\ state.wait <= MaxBackoff
  BY BackoffAssumption DEF StateInv, State
<1> QED BY <1>1, InitHasState, NextKeepsState, PTL DEF Spec

\* Types, for any number of threads, connections and commands: the backoff, which
\* doubles, never leaves its range (nodes.rs, attempt).
THEOREM PeerIsTyped == Spec => []TypeOK
<1>1. Inv /\ Sends /\ StateInv => TypeOK
  BY DEF Inv, Typed, Sends, ToldTyped, StateInv, TypeOK
<1>2. Spec => []Sends
  BY InitHasSends, NextKeepsSends, InvHolds, PTL DEF Spec
<1> QED BY <1>1, <1>2, InvHolds, InitHasState, NextKeepsState, PTL DEF Spec
-----------------------------------------------------------------------------
(* The dashboard: what its lists are made of.                              *)

\* The positions of the members of S, and how many there are up to each.
Positions(list, S) == {i \in DOMAIN list : list[i] \in S}
RankIn(at, i) == Cardinality({j \in at : j <= i})

LEMMA PositionsFinite ==
  ASSUME NEW T, NEW list \in Seq(T), NEW S
  PROVE  /\ Positions(list, S) \subseteq 1..Len(list) /\ Len(list) \in Nat
         /\ IsFiniteSet(Positions(list, S))
<1>1. DOMAIN list = 1..Len(list) /\ Len(list) \in Nat
  OBVIOUS
<1>2. IsFiniteSet(1..Len(list))
  BY <1>1, FS_Interval
<1>3. Positions(list, S) \in SUBSET (1..Len(list))
  BY <1>1 DEF Positions
<1> QED BY <1>1, <1>2, <1>3, FS_Subset

\* Ranks are different, and all of 1..n when there are n positions.
LEMMA RanksEnumerate ==
  ASSUME NEW n \in Nat, NEW at \in SUBSET (1..n)
  PROVE  /\ IsFiniteSet(at) /\ Cardinality(at) \in Nat
         /\ \A i \in at : RankIn(at, i) \in 1..Cardinality(at)
         /\ \A i, j \in at : RankIn(at, i) = RankIn(at, j) => i = j
         /\ \A k \in 1..Cardinality(at) : \E i \in at : RankIn(at, i) = k
<1> DEFINE Upto(i) == {j \in at : j <= i}
           ranks == {RankIn(at, i) : i \in at}
<1>1. IsFiniteSet(1..n)
  BY FS_Interval
<1>2. IsFiniteSet(at) /\ Cardinality(at) \in Nat
  BY <1>1, FS_Subset, FS_CardinalityType
<1>3. ASSUME NEW i \in at
      PROVE  /\ Upto(i) \in SUBSET at /\ IsFiniteSet(Upto(i)) /\ i \in Upto(i)
             /\ RankIn(at, i) = Cardinality(Upto(i)) /\ RankIn(at, i) \in 1..Cardinality(at)
  <2>1. Upto(i) \in SUBSET at /\ i \in Upto(i) /\ RankIn(at, i) = Cardinality(Upto(i))
    BY DEF RankIn
  <2> HIDE DEF Upto
  <2>2. IsFiniteSet(Upto(i)) /\ Cardinality(Upto(i)) <= Cardinality(at)
    BY <1>2, <2>1, FS_Subset
  <2>3. Cardinality(Upto(i)) \in Nat /\ Cardinality(Upto(i)) # 0
    BY <2>1, <2>2, FS_CardinalityType, FS_EmptySet
  <2> QED BY <1>2, <2>1, <2>2, <2>3
<1>4. ASSUME NEW i \in at, NEW j \in at, i < j
      PROVE  RankIn(at, i) # RankIn(at, j)
  <2>1. /\ i \in Nat /\ j \in Nat /\ ~ (j <= i)
        /\ \A h \in at : h \in Nat /\ (h <= i => h <= j)
    BY <1>4
  <2>2. Upto(i) \in SUBSET Upto(j) /\ j \notin Upto(i)
    BY <2>1
  <2>3. /\ IsFiniteSet(Upto(j)) /\ j \in Upto(j)
        /\ RankIn(at, i) = Cardinality(Upto(i)) /\ RankIn(at, j) = Cardinality(Upto(j))
    BY <1>3
  <2> HIDE DEF Upto
  <2> QED BY <2>2, <2>3, FS_Subset
<1>5. ASSUME NEW i \in at, NEW j \in at, RankIn(at, i) = RankIn(at, j) PROVE i = j
  BY <1>4, <1>5
<1>6. ranks = 1..Cardinality(at)
  <2>1. ranks \in SUBSET (1..Cardinality(at))
    BY <1>3
  <2>2. IsFiniteSet(1..Cardinality(at)) /\ Cardinality(1..Cardinality(at)) = Cardinality(at)
    BY <1>2, FS_Interval
  <2>3. Cardinality(ranks) = Cardinality(at)
    <3> DEFINE f == [i \in at |-> RankIn(at, i)]
    <3>1. f \in Bijection(at, ranks)
      BY <1>5 DEF Bijection, Injection, Surjection, IsInjective
    <3> HIDE DEF f
    <3>2. ExistsBijection(at, ranks)
      BY <3>1 DEF ExistsBijection
    <3> HIDE DEF ranks
    <3> QED BY <1>2, <3>2, FS_Bijection
  <2> HIDE DEF ranks
  <2> QED BY <2>1, <2>2, <2>3, FS_Subset
<1>7. \A k \in 1..Cardinality(at) : \E i \in at : RankIn(at, i) = k
  BY <1>6
<1> QED BY <1>2, <1>3, <1>5, <1>7

\* A filtered list has those rows of the list that are wanted, and all of them.
LEMMA FilteredWell ==
  ASSUME NEW T, NEW list \in Seq(T), NEW S
  PROVE  /\ Filtered(list, S) \in Seq(T \intersect S)
         /\ \A i \in DOMAIN list : list[i] \in S =>
              \E k \in DOMAIN Filtered(list, S) : Filtered(list, S)[k] = list[i]
<1> DEFINE at == Positions(list, S)
           at0 == {i \in DOMAIN list : list[i] \in S}
           Nth(k) == CHOOSE i \in at : RankIn(at, i) = k
           shown == [k \in 1..Cardinality(at) |-> list[Nth(k)]]
<1>1. Filtered(list, S) = shown
  BY DEF Filtered, Positions, RankIn
<1>2. at \in SUBSET (1..Len(list)) /\ Len(list) \in Nat /\ DOMAIN list = 1..Len(list)
  BY PositionsFinite
<1>3. \A i \in at : i \in DOMAIN list /\ list[i] \in T \intersect S
  BY DEF Positions
<1>4. \A i \in DOMAIN list : list[i] \in S => i \in at
  BY DEF Positions
<1> HIDE DEF at, at0
<1>5. /\ Cardinality(at) \in Nat
      /\ \A i \in at : RankIn(at, i) \in 1..Cardinality(at)
      /\ \A i, j \in at : RankIn(at, i) = RankIn(at, j) => i = j
      /\ \A k \in 1..Cardinality(at) : \E i \in at : RankIn(at, i) = k
  BY <1>2, RanksEnumerate
<1>6. \A k \in 1..Cardinality(at) : Nth(k) \in at /\ RankIn(at, Nth(k)) = k
  BY <1>5
<1> HIDE DEF Nth
<1>7. shown \in [1..Cardinality(at) -> T \intersect S]
  BY <1>3, <1>6
<1>8. shown \in Seq(T \intersect S)
  BY <1>5, <1>7
<1>9. ASSUME NEW i \in DOMAIN list, list[i] \in S
      PROVE  \E k \in DOMAIN shown : shown[k] = list[i]
  <2>1. i \in at
    BY <1>4, <1>9
  <2>2. RankIn(at, i) \in 1..Cardinality(at) /\ Nth(RankIn(at, i)) = i
    BY <1>5, <1>6, <2>1
  <2> QED BY <2>2
<1> HIDE DEF shown
<1> QED BY <1>1, <1>8, <1>9

-----------------------------------------------------------------------------
(* The dashboard: selections, and what its keys do.                        *)

Row(l) == IF l = "nodes" THEN {NodeRow(m) : m \in Machine} ELSE Possible(l)

LEMMA MachineThere == Hub \in Machine /\ Len(Machines) \in Nat /\ DOMAIN Machines = 1..Len(Machines)
BY MachinesAssumption DEF Hub

LEMMA RowsAreSomewhere == \A l \in Lists : \A row \in Row(l) : row.at \in Machine
BY RowsAssumption DEF Lists, Row, NodeRow

\* What the dashboard is given is a list of rows there may be.
LEMMA MergedTyped ==
  ASSUME NEW l \in Lists, NEW heard
  PROVE  Merged(l, heard) \in Seq(Row(l))
<1>1. CASE l = "nodes"
  <2>1. Nodes \in Seq(Row("nodes"))
    BY MachinesAssumption, MachineThere DEF Nodes, Row, Machine
  <2> DEFINE S == {NodeRow(m) : m \in linked \union {Hub}}
  <2>2. Filtered(Nodes, S) \in Seq(Row("nodes") \intersect S)
    BY <2>1, FilteredWell
  <2>3. Filtered(Nodes, S) \in Seq(Row("nodes"))
    BY <2>2, SeqMonotonic
  <2> QED BY <1>1, <2>3 DEF Merged
<1>2. CASE l # "nodes"
  <2>1. l \in Stocked /\ Rows[l] \in Seq(Row(l))
    BY <1>2, RowsAssumption DEF Lists, Row
  <2> DEFINE S == {row \in stock[l] : row.at \in heard \union {Hub}}
  <2>2. Filtered(Rows[l], S) \in Seq(Row(l) \intersect S)
    BY <2>1, FilteredWell
  <2>3. Filtered(Rows[l], S) \in Seq(Row(l))
    BY <2>2, SeqMonotonic
  <2> QED BY <1>2, <2>3 DEF Merged
<1> QED BY <1>1, <1>2

Shown ==
  /\ snapshot = [l \in Lists |-> snapshot[l]]
  /\ \A l \in Lists : snapshot[l] \in Seq(Row(l))

Chosen == selected \in [Lists -> Nat] /\ SelectionIsThere

\* A request that goes to the owner of a row, by the name of the machine and of the row.
ForOwner(q) ==
  <<q.list, q.op>> \in OwnersKeys =>
    /\ q.row.at \in Machine /\ q.to = Label[q.row.at]
    /\ \/ q.name = q.row.name
       \/ q.list = "rigs" /\ q.name = Group[q.row.name]

\* What has been done was done by a machine of that name.
AtNamesake ==
  done # Nil /\ <<done.list, done.op>> \in OwnersKeys =>
    /\ done.row.at \in Machine
    /\ \/ done.at = done.row.at
       \/ done.at = Hub /\ Label[done.row.at] \in {"local", Label[Hub]}
    /\ \/ done.name = done.row.name
       \/ done.list = "rigs" /\ done.name = Group[done.row.name]

DashInv ==
  /\ linked \subseteq Peers
  /\ Shown
  /\ Chosen
  /\ dialog.kind = "confirm" => ForOwner(dialog.request)
  /\ AtNamesake

\* The selected row is one of its list.
LEMMA SelectionTyped ==
  ASSUME Shown, Chosen, NEW l \in Lists, NEW row \in Selection(l)
  PROVE  row \in Row(l) /\ row.at \in Machine
<1>1. /\ selected[l] \in Nat /\ snapshot[l] \in Seq(Row(l)) /\ selected[l] < Len(snapshot[l])
      /\ row = snapshot[l][selected[l] + 1]
  BY DEF Shown, Chosen, Selection
<1>2. row \in Row(l)
  BY <1>1
<1> QED BY <1>2, RowsAreSomewhere

\* serve() hands a request to the machine it names, or takes it for the hub's.
LEMMA ReachedIsNamed ==
  ASSUME linked \subseteq Peers, NEW owner \in Machine, NEW m \in Reached(Label[owner])
  PROVE  m = owner \/ (m = Hub /\ Label[owner] \in {"local", Label[Hub]})
<1>1. Label[owner] # Nil
  BY LabelAssumption
<1>2. CASE Label[owner] \in {"local", Label[Hub]}
  BY <1>2 DEF Reached
<1>3. CASE Label[owner] \notin {"local", Label[Hub]}
  <2>1. m \in linked /\ Label[m] = Label[owner] /\ owner # Hub
    BY <1>1, <1>3 DEF Reached
  <2> QED BY <2>1, PeersAssumption DEF Peers
<1> QED BY <1>2, <1>3

\* A step that does something by request, or does not.
LEMMA DoesWell ==
  ASSUME linked \subseteq Peers, NEW q, ForOwner(q), Does(q)
  PROVE  linked' \subseteq Peers /\ AtNamesake'
<1>1. PICK m \in Reached(q.to) :
        /\ Changes(q, m)
        /\ done' = [op |-> q.op, list |-> q.list, at |-> m, name |-> q.name, row |-> q.row]
  BY DEF Does
<1>2. linked' \subseteq Peers
  BY <1>1 DEF Changes
<1>3. /\ done'.op = q.op /\ done'.list = q.list /\ done'.at = m /\ done'.name = q.name
      /\ done'.row = q.row
  BY <1>1
<1>4. ASSUME <<q.list, q.op>> \in OwnersKeys
      PROVE  m = q.row.at \/ (m = Hub /\ Label[q.row.at] \in {"local", Label[Hub]})
  BY <1>1, <1>4, ReachedIsNamed DEF ForOwner
<1>5. AtNamesake'
  BY <1>3, <1>4 DEF AtNamesake, ForOwner
<1> QED BY <1>2, <1>5

LEMMA DoesNotWell ==
  ASSUME linked \subseteq Peers, DoesNot
  PROVE  linked' \subseteq Peers /\ AtNamesake'
BY DEF DoesNot, AtNamesake

LEMMA SendWell ==
  ASSUME linked \subseteq Peers, NEW q, ForOwner(q), Send(q)
  PROVE  linked' \subseteq Peers /\ AtNamesake'
BY DoesWell, DoesNotWell DEF Send

\* Requests that are not for the owner of a row, and those that are.
LEMMA OthersRequests ==
  ASSUME NEW op, NEW l, NEW to, NEW name, NEW row, <<l, op>> \notin OwnersKeys
  PROVE  ForOwner(Request(op, l, to, name, row))
BY DEF Request, ForOwner

LEMMA OwnersRequests ==
  ASSUME NEW op, NEW l, NEW row, row.at \in Machine, NEW name,
         name = row.name \/ (l = "rigs" /\ name = Group[row.name])
  PROVE  ForOwner(Request(op, l, Route(row), name, row))
BY DEF Request, ForOwner, Route

-----------------------------------------------------------------------------
(* The dashboard: its steps.                                               *)

LEMMA InitHasDash == DashInit => DashInv
<1> SUFFICES ASSUME DashInit PROVE DashInv
  OBVIOUS
<1>1. linked \subseteq Peers /\ AtNamesake /\ dialog.kind # "confirm"
  BY DEF DashInit, AtNamesake, NoDialog
<1>2. Shown
  BY DEF DashInit, Shown
<1>3. Chosen
  BY DEF DashInit, Chosen, SelectionIsThere
<1> QED BY <1>1, <1>2, <1>3 DEF DashInv

\* refresh() and clamp_selection().
LEMMA RefreshKeepsDash ==
  ASSUME DashInv, Refresh
  PROVE  DashInv'
<1>1. PICK heard \in SUBSET linked : snapshot' = [l \in Lists |-> Merged(l, heard)]
  BY DEF Refresh
<1>2. Shown'
  BY <1>1, MergedTyped DEF Shown, Row
<1>3. \A l \in Lists : Len(snapshot'[l]) \in Nat
  BY <1>2 DEF Shown
<1>4. Chosen'
  BY <1>3 DEF Refresh, DashInv, Chosen, SelectionIsThere, Clamped
<1>5. AtNamesake'
  BY DEF Refresh, AtNamesake
<1> QED BY <1>2, <1>4, <1>5 DEF Refresh, DashInv, ForOwner

\* Keys that move a selection.
LEMMA SelectKeepsDash ==
  ASSUME DashInv, NEW index \in Nat, Select(index),
         index = 0 \/ index < Len(snapshot[ListOf(tab)])
  PROVE  DashInv'
<1>1. ListOf(tab) \in Lists
  BY DEF ListOf, Lists, Stocked
<1>2. Chosen'
  BY <1>1 DEF Select, DashInv, Chosen, SelectionIsThere
<1>3. Shown' /\ AtNamesake'
  BY DEF Select, DashInv, Shown, AtNamesake
<1> QED BY <1>2, <1>3 DEF Select, DashInv, ForOwner

LEMMA KeysKeepDash ==
  ASSUME DashInv, MoveSelection \/ Home \/ End
  PROVE  DashInv'
<1> DEFINE l == ListOf(tab)
<1>1. /\ selected[l] \in Int /\ Len(snapshot[l]) \in Nat
      /\ Listed \in Nat /\ Listed <= Len(snapshot[l])
  <2>1. l \in Lists
    BY DEF ListOf, Lists, Stocked
  <2>2. selected[l] \in Nat /\ snapshot[l] \in Seq(Row(l))
    BY <2>1 DEF DashInv, Shown, Chosen
  <2> HIDE DEF l
  <2>3. Len(snapshot[l]) \in Nat
    BY <2>2
  <2> QED BY <2>2, <2>3 DEF Listed, l
<1>2. CASE Home
  BY <1>2, SelectKeepsDash DEF Home
<1>3. CASE End
  <2> DEFINE index == IF Listed = 0 THEN 0 ELSE Listed - 1
  <2>1. index \in Nat /\ (index = 0 \/ index < Len(snapshot[l]))
    BY <1>1
  <2>2. Select(index)
    BY <1>3 DEF End
  <2> HIDE DEF index
  <2> QED BY <2>1, <2>2, SelectKeepsDash
<1>4. CASE MoveSelection
  <2>1. PICK delta \in {-10, -1, 1, 10} :
          /\ Listed > 0
          /\ Select(IF selected[l] + delta < 0 THEN 0
                    ELSE IF selected[l] + delta >= Listed THEN Listed - 1
                    ELSE selected[l] + delta)
    BY <1>4 DEF MoveSelection
  <2> DEFINE next == selected[l] + delta
             index == IF next < 0 THEN 0 ELSE IF next >= Listed THEN Listed - 1 ELSE next
  <2>2. next \in Int
    BY <1>1
  <2>3. Select(index)
    BY <2>1
  <2> HIDE DEF next
  <2>4. index \in Nat /\ (index = 0 \/ index < Len(snapshot[l]))
    BY <1>1, <2>1, <2>2
  <2> HIDE DEF index
  <2> QED BY <2>3, <2>4, SelectKeepsDash
<1> QED BY <1>2, <1>3, <1>4

\* A request changes nothing of what the dashboard shows.
LEMMA RequestKeepsDash ==
  ASSUME DashInv, linked' \subseteq Peers, AtNamesake', UNCHANGED viewVars,
         dialog' \in {dialog, NoDialog}
  PROVE  DashInv'
<1>1. Shown' /\ Chosen'
  BY DEF DashInv, viewVars, Shown, Chosen, SelectionIsThere
<1>2. dialog'.kind = "confirm" => ForOwner(dialog.request) /\ dialog' = dialog
  BY DEF DashInv, NoDialog
<1>3. (dialog.kind = "confirm" => ForOwner(dialog.request))'
  BY <1>2 DEF ForOwner
<1> QED BY <1>1, <1>3 DEF DashInv

LEMMA ActKeepsDash ==
  ASSUME DashInv, ActOnRow \/ ActOnHub
  PROVE  DashInv'
<1>1. PICK q : Send(q) /\ ForOwner(q)
  <2>1. CASE ActOnHub
    <3>1. PICK op \in {"startall", "reload"} : Send(Request(op, "rigs", Nil, Nil, Nil))
      BY <2>1 DEF ActOnHub
    <3>2. <<"rigs", op>> \notin OwnersKeys
      BY <3>1 DEF OwnersKeys
    <3> QED BY <3>1, <3>2, OthersRequests
  <2>2. CASE ActOnRow
    <3>1. CASE \E row \in Selection("rigs") :
                 \/ \E op \in {"start", "stop", "threads"} :
                      Send(Request(op, "rigs", Route(row), row.name, row))
                 \/ Send(Request("enable", "rigs", Route(row), Group[row.name], row))
      <4>1. PICK row \in Selection("rigs") :
                 \/ \E op \in {"start", "stop", "threads"} :
                      Send(Request(op, "rigs", Route(row), row.name, row))
                 \/ Send(Request("enable", "rigs", Route(row), Group[row.name], row))
        BY <3>1
      <4>2. row.at \in Machine
        BY SelectionTyped DEF DashInv, Lists, Stocked
      <4> QED BY <4>1, <4>2, OwnersRequests
    <3>2. CASE \E row \in Selection("endpoints") :
                 Send(Request("check", "endpoints", Route(row), row.name, row))
      <4>1. PICK row \in Selection("endpoints") :
                 Send(Request("check", "endpoints", Route(row), row.name, row))
        BY <3>2
      <4>2. row.at \in Machine
        BY SelectionTyped DEF DashInv, Lists, Stocked
      <4> QED BY <4>1, <4>2, OwnersRequests
    <3>3. CASE \E row \in Selection("nodes") :
                 Send(Request("check", "nodes", Nil, row.name, row))
      <4>1. <<"nodes", "check">> \notin OwnersKeys
        BY DEF OwnersKeys
      <4> QED BY <3>3, <4>1, OthersRequests
    <3> QED BY <2>2, <3>1, <3>2, <3>3 DEF ActOnRow
  <2> QED BY <2>1, <2>2
<1>2. linked' \subseteq Peers /\ AtNamesake'
  BY <1>1, SendWell DEF DashInv
<1> QED BY <1>2, RequestKeepsDash DEF ActOnRow, ActOnHub

\* A dialog that opens.
LEMMA OpenKeepsDash ==
  ASSUME DashInv, NEW next, Open(next), next.kind = "confirm" => ForOwner(next.request)
  PROVE  DashInv'
<1>1. AtNamesake'
  BY DEF Open, AtNamesake
<1> QED BY <1>1 DEF Open, DashInv, viewVars, Shown, Chosen, SelectionIsThere, ForOwner

LEMMA DialogsKeepDash ==
  ASSUME DashInv, DeleteSelected \/ AskHub \/ OpenForm \/ Help
  PROVE  DashInv'
<1>1. CASE Help
  BY <1>1, OpenKeepsDash DEF Help
<1>2. CASE OpenForm
  <2>1. PICK op, l, row : Open(Form(op, l, row))
    BY <1>2 DEF OpenForm
  <2>2. Form(op, l, row).kind # "confirm"
    BY DEF Form
  <2> QED BY <2>1, <2>2, OpenKeepsDash
<1>3. ASSUME NEW q, Open(Confirm(q)), ForOwner(q) PROVE DashInv'
  <2>1. Confirm(q).request = q
    BY DEF Confirm
  <2> QED BY <1>3, <2>1, OpenKeepsDash
<1>4. CASE AskHub
  <2>1. PICK op \in {"stopall", "shutdown"} : Open(Confirm(Request(op, "rigs", Nil, Nil, Nil)))
    BY <1>4 DEF AskHub
  <2>2. <<"rigs", op>> \notin OwnersKeys
    BY <2>1 DEF OwnersKeys
  <2> QED BY <1>3, <2>1, <2>2, OthersRequests
<1>5. CASE DeleteSelected
  <2> DEFINE l == ListOf(tab)
  <2>1. PICK row \in Selection(l) :
          Open(Confirm(IF l = "rigs"
                       THEN Request("remove", l, Route(row), Group[row.name], row)
                       ELSE Request("remove", l, Nil, row.name, row)))
    BY <1>5 DEF DeleteSelected
  <2>2. l \in Lists
    BY DEF ListOf, Lists, Stocked
  <2> HIDE DEF l
  <2>3. row.at \in Machine
    BY <2>2, SelectionTyped DEF DashInv
  <2>4. CASE l = "rigs"
    BY <1>3, <2>1, <2>3, <2>4, OwnersRequests
  <2>5. CASE l # "rigs"
    <3>1. <<l, "remove">> \notin OwnersKeys
      BY <2>5 DEF OwnersKeys
    <3> QED BY <1>3, <2>1, <2>5, <3>1, OthersRequests
  <2> QED BY <2>4, <2>5
<1> QED BY <1>1, <1>2, <1>4, <1>5

\* What is confirmed or sent from a form.
LEMMA DialogsEndWell ==
  ASSUME DashInv, Yes \/ Dismiss \/ Submit
  PROVE  DashInv'
<1>1. CASE Yes
  <2>1. Send(dialog.request) /\ ForOwner(dialog.request)
    BY <1>1 DEF Yes, Confirmed, DashInv
  <2>2. linked' \subseteq Peers /\ AtNamesake'
    BY <2>1, SendWell DEF DashInv
  <2> QED BY <1>1, <2>2, RequestKeepsDash DEF Yes
<1>2. CASE Dismiss
  <2>1. linked' \subseteq Peers /\ AtNamesake'
    BY <1>2 DEF Dismiss, AtNamesake, DashInv
  <2> QED BY <1>2, <2>1, RequestKeepsDash DEF Dismiss
<1>3. CASE Submit
  <2>1. PICK q \in Built(dialog) :
          (Does(q) /\ dialog' \in {NoDialog, dialog}) \/ (DoesNot /\ UNCHANGED dialog)
    BY <1>3 DEF Submit
  <2>2. ForOwner(q)
    <3>1. \A l : <<l, "add">> \notin OwnersKeys /\ <<l, "coin">> \notin OwnersKeys
      BY DEF OwnersKeys
    <3>2. q.op \in {"add", "coin"}
      BY <2>1 DEF Built, Request
    <3> QED BY <3>1, <3>2 DEF ForOwner
  <2>3. linked' \subseteq Peers /\ AtNamesake'
    BY <2>1, <2>2, DoesWell, DoesNotWell DEF DashInv
  <2> QED BY <1>3, <2>1, <2>3, RequestKeepsDash DEF Submit
<1> QED BY <1>1, <1>2, <1>3

LEMMA NextKeepsDash == DashInv /\ [DashNext]_dashVars => DashInv'
<1> SUFFICES ASSUME DashInv, [DashNext]_dashVars PROVE DashInv'
  OBVIOUS
<1>1. CASE UNCHANGED dashVars
  BY <1>1 DEF dashVars, DashInv, Shown, Chosen, SelectionIsThere, ForOwner, AtNamesake
<1>2. CASE OthersEdit
  <2>1. linked' \subseteq Peers /\ AtNamesake'
    BY <1>2 DEF OthersEdit, DashInv, AtNamesake
  <2> QED BY <1>2, <2>1, RequestKeepsDash DEF OthersEdit
<1>3. CASE ChangeView
  <2>1. AtNamesake'
    BY <1>3 DEF ChangeView, AtNamesake
  <2> QED BY <1>3, <2>1 DEF ChangeView, DashInv, Shown, Chosen, SelectionIsThere, ForOwner
<1> QED BY <1>1, <1>2, <1>3, RefreshKeepsDash, KeysKeepDash, ActKeepsDash, DialogsKeepDash,
       DialogsEndWell DEF DashNext

\* Whatever the lists become, the selections stay within them (mod.rs, clamp_selection).
THEOREM SelectionsStayThere == DashSpec => []SelectionIsThere
<1>1. DashInv => SelectionIsThere
  BY DEF DashInv, Chosen
<1> QED BY <1>1, InitHasDash, NextKeepsDash, PTL DEF DashSpec

\* What a key did for a row was done on a machine of the name of its owner, to the row the
\* key was pressed for: the owner itself, unless that goes by a name the hub takes for its
\* own (mod.rs, route; daemon.rs, is_local_node).
THEOREM KeysReachNamesake == DashSpec => []AtNamesake
<1>1. DashInv => AtNamesake
  BY DEF DashInv
<1> QED BY <1>1, InitHasDash, NextKeepsDash, PTL DEF DashSpec

\* With peers that have names of their own the keys reach the owner of the row, whatever
\* has been added, removed or refreshed until they were confirmed.
THEOREM KeysAlwaysReachOwner ==
  ASSUME \A m \in Peers : Label[m] \notin {"local", Label[Hub]}
  PROVE  DashSpec => []KeysReachOwner
<1>1. AtNamesake => KeysReachOwner
  BY DEF AtNamesake, KeysReachOwner, Peers
<1> QED BY <1>1, KeysReachNamesake, PTL
=============================================================================
