--------------------------- MODULE WorkSlots_proofs ---------------------------
(***************************************************************************)
(* Proofs about the handoff of work, for any number of threads, nonces and *)
(* jobs.  That a thread past its copy is current rests on two facts about  *)
(* the generation: a thread has seen none that is yet to come, and the one *)
(* it has seen cannot be that of the unit being published.  That threads   *)
(* stay apart rests on every unit, in a slot or in hands, carrying the     *)
(* range build_work gave that slot, and on the ranges being disjoint.      *)
(***************************************************************************)
EXTENDS WorkSlots, TLAPS

-----------------------------------------------------------------------------
(* The ranges of build_work for every number of nonces and of threads: the *)
(* two wraps of the u32 arithmetic do no harm.  With one thread the span   *)
(* wraps to zero, but then the only range is the last one; with more than  *)
(* nonces the span is zero and only the last range is not empty.           *)

\* Products by a natural number keep the order.
LEMMA TimesMonotone ==
  ASSUME NEW a \in Nat, NEW b \in Nat, NEW q \in Nat, a <= b
  PROVE  a * q \in Nat /\ b * q \in Nat /\ a * q <= b * q
<1> DEFINE d == b - a
<1>1. d \in Nat /\ b = a + d
  OBVIOUS
<1>2. a * q \in Nat /\ d * q \in Nat
  OBVIOUS
<1>3. b * q = a * q + d * q
  BY <1>1
<1> QED BY <1>2, <1>3

\* Two threads or more: the span is the quotient, and total spans fit.
LEMMA SpanFits ==
  ASSUME NEW total \in Nat, total >= 2
  PROVE  /\ Span(total) \in Nat
         /\ total * Span(total) <= Nonces
         /\ Span(total) < Nonces
<1> DEFINE q == Nonces \div total
<1>1. Nonces \in Nat /\ Nonces >= 1
  BY NoncesAssumption
<1>2. q \in Nat /\ total * q <= Nonces
  BY <1>1
<1>3. 2 * q <= total * q
  BY <1>2, TimesMonotone
<1>4. q < Nonces
  <2> DEFINE r == total * q
  <2>1. r \in Nat
    BY <1>2
  <2>2. 2 * q <= r /\ r <= Nonces
    BY <1>2, <1>3
  <2> HIDE DEF r, q
  <2> QED BY <1>1, <1>2, <2>1, <2>2
<1>5. (q % Nonces) = q
  <2> HIDE DEF q
  <2> QED BY <1>1, <1>2, <1>4
<1> QED BY <1>2, <1>4, <1>5 DEF Span

\* No product wraps.
LEMMA StartExact ==
  ASSUME NEW total \in Nat, total >= 2, NEW index \in 0..(total - 1)
  PROVE  /\ NonceStart(index, total) = index * Span(total)
         /\ index * Span(total) \in 0..LastNonce
         /\ index * Span(total) + Span(total) <= Nonces
<1> DEFINE q == Span(total)
           p == index * q
<1>1. Nonces \in Nat /\ Nonces >= 1
  BY NoncesAssumption
<1>2. q \in Nat /\ q < Nonces /\ total * q <= Nonces
  BY SpanFits
<1>3. (index + 1) * q = p + q
  BY <1>2
<1>4. (index + 1) * q <= total * q /\ total * q \in Nat
  BY <1>2, TimesMonotone
<1>5. p \in Nat /\ p + q <= Nonces
  <2>1. p \in Nat
    BY <1>2
  <2> DEFINE r == total * q
             m == (index + 1) * q
  <2>2. m = p + q /\ m <= r /\ r <= Nonces /\ r \in Nat
    BY <1>2, <1>3, <1>4
  <2> HIDE DEF r, m, p, q
  <2> QED BY <1>1, <1>2, <2>1, <2>2
<1>6. p < Nonces
  <2>1. CASE q = 0
    BY <1>1, <1>2, <2>1
  <2>2. CASE q # 0
    <3> HIDE DEF p, q
    <3> QED BY <1>1, <1>2, <1>5, <2>2
  <2> QED BY <2>1, <2>2
<1>7. (p % Nonces) = p
  <2> HIDE DEF p, q
  <2> QED BY <1>1, <1>5, <1>6
<1>8. NonceStart(index, total) = p
  BY <1>7 DEF NonceStart
<1>9. p \in 0..LastNonce
  <2> HIDE DEF p, q
  <2> QED BY <1>1, <1>5, <1>6 DEF LastNonce
<1> QED BY <1>5, <1>8, <1>9

\* With one thread the span wraps to zero.
LEMMA SpanOfOne == Span(1) = 0
<1>1. (Nonces \div 1) = Nonces /\ (Nonces % Nonces) = 0
  BY NoncesAssumption
<1> QED BY <1>1 DEF Span

\* The bounds of a range are u32 values, whatever the number of threads.
LEMMA RangeTyped ==
  ASSUME NEW total \in Nat \ {0}, NEW index \in 0..(total - 1)
  PROVE  /\ NonceStart(index, total) \in 0..LastNonce
         /\ NonceEnd(index, total) \in 0..LastNonce
<1>1. Nonces \in Nat /\ Nonces >= 1
  BY NoncesAssumption
<1>2. CASE total >= 2
  <2>1. Span(total) \in Nat /\ NonceStart(index, total) \in 0..LastNonce
    BY <1>2, StartExact, SpanFits
  <2> QED BY <1>1, <2>1 DEF NonceEnd, LastNonce
<1>3. CASE total = 1
  <2>1. index = 0
    BY <1>3
  <2>2. Span(total) = 0
    BY <1>3, SpanOfOne
  <2>3. NonceStart(index, total) = 0
    BY <1>1, <2>1, <2>2 DEF NonceStart
  <2> QED BY <1>1, <1>3, <2>1, <2>3 DEF NonceEnd, LastNonce
<1> QED BY <1>2, <1>3

\* A range ends before any later one begins.
LEMMA EndsBeforeStart ==
  ASSUME NEW total \in Nat \ {0}, NEW i \in 0..(total - 1), NEW j \in 0..(total - 1),
         i < j
  PROVE  NonceEnd(i, total) <= NonceStart(j, total)
<1> DEFINE q == Span(total)
<1>1. Nonces \in Nat /\ Nonces >= 1
  BY NoncesAssumption
<1>2. total >= 2 /\ i + 1 # total /\ i + 1 <= j /\ i + 1 \in Nat
  OBVIOUS
<1>3. q \in Nat
  BY <1>2, SpanFits
<1>4. (i + 1) * q <= j * q
  BY <1>2, <1>3, TimesMonotone
<1>5. (i + 1) * q = i * q + q
  BY <1>3
<1>6. /\ NonceStart(i, total) = i * q /\ NonceStart(j, total) = j * q
      /\ i * q \in 0..LastNonce /\ j * q \in 0..LastNonce
  BY <1>2, StartExact
<1>7. NonceStart(i, total) + q <= NonceStart(j, total)
  BY <1>4, <1>5, <1>6
<1> HIDE DEF q
<1> QED
  <2> DEFINE a == NonceStart(i, total)
             b == NonceStart(j, total)
  <2>1. a \in 0..LastNonce /\ b \in 0..LastNonce /\ a + q <= b
    BY <1>6, <1>7
  <2>2. NonceEnd(i, total) = IF a + q > LastNonce THEN LastNonce ELSE a + q
    BY <1>2 DEF NonceEnd, q
  <2> HIDE DEF a, b
  <2>3. NonceEnd(i, total) <= b
    BY <1>1, <1>3, <2>1, <2>2 DEF LastNonce
  <2> QED BY <2>3 DEF b

\* build_work never gives one nonce of a header to two threads of a rig, for
\* any number of nonces and of threads.
THEOREM NonceRangesApart ==
  ASSUME NEW total \in Nat \ {0}, NEW i \in 0..(total - 1), NEW j \in 0..(total - 1),
         i # j
  PROVE  NonceRange(i, total) \intersect NonceRange(j, total) = {}
<1>1. ASSUME NEW a \in 0..(total - 1), NEW b \in 0..(total - 1), a < b
      PROVE  NonceRange(a, total) \intersect NonceRange(b, total) = {}
  <2>1. NonceEnd(a, total) <= NonceStart(b, total)
    BY <1>1, EndsBeforeStart
  <2>2. NonceEnd(a, total) \in Int /\ NonceStart(b, total) \in Int
    BY RangeTyped, NoncesAssumption DEF LastNonce
  <2>3. ASSUME NEW n \in NonceRange(a, total), n \in NonceRange(b, total)
        PROVE  FALSE
    BY <2>1, <2>2, <2>3, NoncesAssumption DEF NonceRange, LastNonce
  <2> QED BY <2>3
<1>2. i < j \/ j < i
  OBVIOUS
<1> QED BY <1>1, <1>2

\* A multiple of q just below n, or at it.
LEMMA Quotient ==
  ASSUME NEW n \in Nat, NEW q \in Nat \ {0}
  PROVE  \E k \in Nat : k * q <= n /\ n < k * q + q
<1> DEFINE k == n \div q
<1>1. k \in Nat /\ n = q * k + (n % q) /\ (n % q) \in 0..(q - 1)
  OBVIOUS
<1>2. k * q = q * k /\ q * k \in Nat
  BY <1>1
<1>3. k * q <= n /\ n < k * q + q
  <2> DEFINE p == q * k
             r == n % q
  <2>1. p \in Nat /\ k * q = p /\ n = p + r /\ r \in 0..(q - 1)
    BY <1>1, <1>2
  <2> HIDE DEF p, r, k
  <2> QED BY <2>1
<1> QED BY <1>1, <1>3

\* build_work leaves no nonce of a header to nobody but the last one of all, which it
\* leaves to nobody whatever the number of threads: the ranges are half open.
THEOREM NonceRangesCover ==
  ASSUME NEW total \in Nat \ {0}
  PROVE  UNION {NonceRange(i, total) : i \in 0..(total - 1)} = 0..(LastNonce - 1)
<1> DEFINE all == UNION {NonceRange(i, total) : i \in 0..(total - 1)}
           last == total - 1
<1>1. Nonces \in Nat /\ Nonces >= 1 /\ LastNonce \in Nat
  BY NoncesAssumption DEF LastNonce
<1>2. last \in 0..(total - 1) /\ NonceEnd(last, total) = LastNonce
  BY DEF NonceEnd
<1>3. ASSUME NEW i \in 0..(total - 1), NEW n \in NonceRange(i, total)
      PROVE  n \in 0..(LastNonce - 1)
  <2>1. NonceEnd(i, total) \in 0..LastNonce
    BY RangeTyped
  <2> QED BY <1>1, <1>3, <2>1 DEF NonceRange
<1>4. ASSUME NEW n \in 0..(LastNonce - 1), NonceStart(last, total) <= n
      PROVE  n \in all
  <2>1. n \in NonceRange(last, total)
    BY <1>1, <1>2, <1>4 DEF NonceRange
  <2> QED BY <1>2, <2>1
<1>5. ASSUME NEW n \in 0..(LastNonce - 1)
      PROVE  n \in all
  <2> DEFINE q == Span(total)
  <2>1. CASE NonceStart(last, total) <= n
    BY <1>4, <2>1
  <2>2. CASE ~ (NonceStart(last, total) <= n)
    <3>1. NonceStart(last, total) \in 0..LastNonce
      BY <1>2, RangeTyped
    <3>2. n \in Nat /\ NonceStart(last, total) > n
      BY <1>1, <2>2, <3>1
    <3>3. total >= 2
      <4>1. CASE total = 1
        <5>1. last = 0 /\ (0 * Span(total)) = 0
          BY <4>1, <1>1, SpanOfOne
        <5>2. NonceStart(last, total) = 0
          BY <1>1, <5>1 DEF NonceStart
        <5> QED BY <3>2, <5>2
      <4> QED BY <4>1
    <3>4. q \in Nat /\ NonceStart(last, total) = last * q
      BY <1>2, <3>3, SpanFits, StartExact
    <3>5. q # 0
      BY <1>2, <3>2, <3>4
    <3>6. PICK k \in Nat : k * q <= n /\ n < k * q + q
      BY <3>2, <3>4, <3>5, Quotient
    <3>7. k < last
      <4>1. SUFFICES ASSUME last <= k PROVE FALSE
        BY <1>2
      <4>2. last * q <= k * q /\ k * q \in Nat /\ last * q \in Nat
        BY <1>2, <3>4, <4>1, TimesMonotone
      <4> DEFINE a == last * q
                 b == k * q
      <4>3. a <= b /\ b <= n /\ a > n /\ a \in Nat /\ b \in Nat
        BY <3>2, <3>4, <3>6, <4>2
      <4> HIDE DEF a, b
      <4> QED BY <3>2, <4>3
    <3>8. k \in 0..(total - 1) /\ k + 1 # total
      BY <3>7
    <3>9. NonceStart(k, total) = k * q /\ k * q \in 0..LastNonce
      BY <3>3, <3>8, StartExact
    <3>10. NonceEnd(k, total) \in {LastNonce, NonceStart(k, total) + q}
      BY <3>8 DEF NonceEnd
    <3>11. n \in NonceRange(k, total)
      <4> DEFINE b == k * q
      <4>1. b \in Nat /\ b <= n /\ n < b + q /\ NonceStart(k, total) = b
        BY <1>1, <3>6, <3>9
      <4>2. NonceEnd(k, total) = LastNonce \/ NonceEnd(k, total) = b + q
        BY <3>10, <4>1
      <4> HIDE DEF b, q
      <4> QED BY <1>1, <4>1, <4>2 DEF NonceRange
    <3> QED BY <3>8, <3>11
  <2> QED BY <2>1, <2>2
<1> QED BY <1>3, <1>5

-----------------------------------------------------------------------------
(* The handoff.                                                            *)

\* No thread has seen a generation that is yet to come.
SeenIsPast == \A i \in Slot : seen[i] <= gen[i]

\* Every unit carries the range of its slot, and no thread is before its range.
RangesKept ==
  \A i \in Slot :
    /\ work[i] # NoWork =>
         /\ work[i].from = NonceStart(i, Threads)
         /\ work[i].to = NonceEnd(i, Threads)
    /\ current[i] # NoWork =>
         /\ current[i].from = NonceStart(i, Threads)
         /\ current[i].to = NonceEnd(i, Threads)
         /\ nonce[i] >= current[i].from

\* A thread has hashed nonces of its own range only.
ScannedInRange ==
  \A i \in Slot : \A h \in scanned[i] : h[3] \in NonceRange(i, Threads)

Inv ==
  /\ TypeOK
  /\ SeenIsPast
  /\ SeenIsCurrent
  /\ RangesKept
  /\ ScannedInRange

-----------------------------------------------------------------------------

LEMMA SlotTyped ==
  /\ Threads \in Nat /\ Threads >= 1 /\ 0 \in Slot
  /\ \A i \in Slot : i \in Nat /\ i + 1 <= Threads
BY ThreadsAssumption DEF Slot

\* build_work yields a well-formed unit with the slot's range.
LEMMA BuildTyped ==
  ASSUME TypeOK, NEW i \in Slot
  PROVE  /\ BuildWork(i) \in Unit \union {NoWork}
         /\ BuildWork(i) # NoWork =>
              /\ BuildWork(i).from = NonceStart(i, Threads)
              /\ BuildWork(i).to = NonceEnd(i, Threads)
<1>1. /\ NonceStart(i, Threads) \in 0..LastNonce
      /\ NonceEnd(i, Threads) \in 0..LastNonce
  BY RangeTyped, ThreadsAssumption DEF Slot
<1>2. draws \in Nat /\ job \in 0..MaxJobs /\ MaxJobs \in Nat
  BY BoundsAssumption DEF TypeOK
<1>3. CASE job = 0
  BY <1>3 DEF BuildWork
<1>4. CASE job # 0
  <2>1. job \in 1..MaxJobs
    BY <1>2, <1>4
  <2> QED BY <1>1, <1>2, <1>4, <2>1 DEF BuildWork, Unit
<1> QED BY <1>3, <1>4

\* A pass goes on to the next slot or ends.
LEMMA AdvanceTyped ==
  ASSUME TypeOK
  PROVE  /\ Advance \in [kind: {"idle", "republish", "refill"}, slot: Slot,
                         step: {"look", "flag", "bump"}]
         /\ Advance.step = "look"
<1>1. pass.slot \in Slot
  BY DEF TypeOK
<1>2. pass.slot + 1 # Threads => pass.slot + 1 \in Slot
  BY <1>1, ThreadsAssumption DEF Slot
<1> QED BY <1>1, <1>2, SlotTyped DEF TypeOK, Advance, Idle

LEMMA InitInv == Init => Inv
<1> SUFFICES ASSUME Init PROVE Inv
  OBVIOUS
<1>1. TypeOK
  BY BoundsAssumption, NoncesAssumption, SlotTyped DEF Init, TypeOK, Idle, LastNonce
<1>2. SeenIsPast /\ SeenIsCurrent
  BY DEF Init, SeenIsPast, SeenIsCurrent, NeverSeen
<1>3. RangesKept /\ ScannedInRange
  BY DEF Init, RangesKept, ScannedInRange
<1> QED BY <1>1, <1>2, <1>3 DEF Inv

\* What starts a pass touches neither slots nor threads.
LEMMA BeginInv ==
  ASSUME Inv, NEW kind \in {"republish", "refill"}, Begin(kind), job' \in 0..MaxJobs,
         UNCHANGED <<draws, slotVars, threadVars, scanned, taken>>
  PROVE  Inv'
<1> USE DEF slotVars, threadVars
<1>1. /\ pass'.slot = 0 /\ pass'.step = "look"
      /\ pass' \in [kind: {"idle", "republish", "refill"}, slot: Slot,
                    step: {"look", "flag", "bump"}]
  BY SlotTyped DEF Begin
<1>2. TypeOK'
  BY <1>1 DEF Inv, TypeOK
<1>3. SeenIsCurrent'
  BY <1>1 DEF Begin, Inv, SeenIsCurrent, Publishing
<1>4. SeenIsPast' /\ RangesKept' /\ ScannedInRange'
  BY DEF Inv, SeenIsPast, RangesKept, ScannedInRange
<1> QED BY <1>2, <1>3, <1>4 DEF Inv

LEMMA SkipInv ==
  ASSUME Inv, SkipSlot
  PROVE  Inv'
<1> USE DEF slotVars, threadVars, SkipSlot
<1>1. TypeOK'
  BY AdvanceTyped DEF Inv, TypeOK
<1>2. SeenIsCurrent'
  BY AdvanceTyped DEF Inv, SeenIsCurrent, Publishing
<1>3. SeenIsPast' /\ RangesKept' /\ ScannedInRange'
  BY DEF Inv, SeenIsPast, RangesKept, ScannedInRange
<1> QED BY <1>1, <1>2, <1>3 DEF Inv

\* The stored unit reaches nobody's hands, and the slot is being published to.
LEMMA StoreInv ==
  ASSUME Inv, StoreWork
  PROVE  Inv'
<1> USE DEF threadVars, StoreWork
<1>1. pass.slot \in Slot /\ pass.kind # "idle" /\ TypeOK
  BY DEF Inv, TypeOK
<1>2. /\ pass'.slot = pass.slot /\ pass'.step = "flag" /\ pass'.kind = pass.kind
      /\ pass' \in [kind: {"idle", "republish", "refill"}, slot: Slot,
                    step: {"look", "flag", "bump"}]
  BY <1>1 DEF TypeOK
<1>3. TypeOK'
  BY <1>1, <1>2, BuildTyped DEF TypeOK
<1>4. \A i \in Slot : i # pass.slot => work'[i] = work[i]
  BY <1>1 DEF TypeOK
<1>5. SeenIsCurrent'
  BY <1>1, <1>2, <1>4 DEF Inv, SeenIsCurrent, Publishing
<1>6. work'[pass.slot] = BuildWork(pass.slot)
  BY <1>1 DEF TypeOK
<1>7. RangesKept'
  BY <1>1, <1>4, <1>6, BuildTyped DEF Inv, RangesKept
<1>8. SeenIsPast' /\ ScannedInRange'
  BY DEF Inv, SeenIsPast, ScannedInRange
<1> QED BY <1>3, <1>5, <1>7, <1>8 DEF Inv

LEMMA FlagInv ==
  ASSUME Inv, FlagWork
  PROVE  Inv'
<1> USE DEF threadVars, FlagWork
<1>1. /\ pass'.slot = pass.slot /\ pass'.step = "bump" /\ pass'.kind = pass.kind
      /\ pass' \in [kind: {"idle", "republish", "refill"}, slot: Slot,
                    step: {"look", "flag", "bump"}]
  BY DEF Inv, TypeOK
<1>2. TypeOK'
  BY <1>1 DEF Inv, TypeOK
<1>3. SeenIsCurrent'
  BY <1>1 DEF Inv, SeenIsCurrent, Publishing
<1>4. SeenIsPast' /\ RangesKept' /\ ScannedInRange'
  BY DEF Inv, SeenIsPast, RangesKept, ScannedInRange
<1> QED BY <1>2, <1>3, <1>4 DEF Inv

\* The new generation is one that no thread can have seen.
LEMMA BumpInv ==
  ASSUME Inv, BumpGeneration
  PROVE  Inv'
<1> USE DEF threadVars, BumpGeneration
<1>1. pass.slot \in Slot /\ TypeOK
  BY DEF Inv, TypeOK
<1>2. /\ gen' \in [Slot -> Nat]
      /\ gen'[pass.slot] = gen[pass.slot] + 1
      /\ \A i \in Slot : i # pass.slot => gen'[i] = gen[i]
      /\ \A i \in Slot : gen[i] \in Nat /\ seen[i] \in Int
  BY <1>1 DEF TypeOK, NeverSeen
<1>3. TypeOK'
  BY <1>1, <1>2, AdvanceTyped DEF TypeOK
<1>4. SeenIsPast'
  BY <1>1, <1>2 DEF Inv, SeenIsPast
<1>5. seen[pass.slot] # gen'[pass.slot]
  BY <1>1, <1>2 DEF Inv, SeenIsPast
<1>6. \A i \in Slot : Publishing(i) => i = pass.slot
  BY DEF Publishing
<1>7. SeenIsCurrent'
  BY <1>1, <1>2, <1>5, <1>6 DEF Inv, SeenIsCurrent
<1>8. RangesKept' /\ ScannedInRange'
  BY DEF Inv, RangesKept, ScannedInRange
<1> QED BY <1>3, <1>4, <1>7, <1>8 DEF Inv

LEMMA LoadInv ==
  ASSUME Inv, NEW i \in Slot, LoadGeneration(i)
  PROVE  Inv'
<1> USE DEF sessionVars, slotVars, LoadGeneration
<1>1. /\ seen' \in [Slot -> Nat \union {NeverSeen}]
      /\ at' \in [Slot -> {"load", "take", "hash"}]
      /\ gen[i] \in Nat
  BY DEF Inv, TypeOK
<1>2. TypeOK'
  BY <1>1 DEF Inv, TypeOK
<1>3. /\ seen'[i] = gen[i]
      /\ at'[i] = (IF gen[i] # seen[i] THEN "take" ELSE "hash")
      /\ \A j \in Slot : j # i => seen'[j] = seen[j] /\ at'[j] = at[j]
      /\ at[i] = "load"
  BY DEF Inv, TypeOK
<1>4. SeenIsPast'
  BY <1>1, <1>3 DEF Inv, SeenIsPast
<1>5. SeenIsCurrent'
  BY <1>3 DEF Inv, SeenIsCurrent, Publishing
<1>6. RangesKept' /\ ScannedInRange'
  BY DEF Inv, RangesKept, ScannedInRange
<1> QED BY <1>2, <1>4, <1>5, <1>6 DEF Inv

LEMMA TakeInv ==
  ASSUME Inv, NEW i \in Slot, TakeWork(i)
  PROVE  Inv'
<1> USE DEF sessionVars, slotVars, TakeWork
<1>1. TypeOK /\ work[i] \in Unit \union {NoWork}
  BY DEF Inv, TypeOK
<1>2. work[i] # NoWork => work[i].from \in 0..LastNonce
  BY <1>1 DEF Unit
<1>3. TypeOK'
  <2>1. nonce' \in [Slot -> 0..LastNonce]
    BY <1>1, <1>2 DEF TypeOK
  <2>2. taken' \in [Slot -> Nat]
    BY <1>1 DEF TypeOK
  <2>3. current' \in [Slot -> Unit \union {NoWork}] /\ at' \in [Slot -> {"load", "take", "hash"}]
    BY <1>1 DEF TypeOK
  <2> QED BY <1>1, <2>1, <2>2, <2>3 DEF TypeOK
<1>4. /\ current'[i] = work[i]
      /\ work[i] # NoWork => nonce'[i] = work[i].from
      /\ \A j \in Slot : j # i => current'[j] = current[j] /\ nonce'[j] = nonce[j] /\ at'[j] = at[j]
  BY <1>1 DEF TypeOK
<1>5. SeenIsCurrent'
  BY <1>4 DEF Inv, SeenIsCurrent, Publishing
<1>6. RangesKept'
  BY <1>2, <1>4, NoncesAssumption DEF Inv, RangesKept, LastNonce
<1>7. SeenIsPast' /\ ScannedInRange'
  BY DEF Inv, SeenIsPast, ScannedInRange
<1> QED BY <1>3, <1>5, <1>6, <1>7 DEF Inv

LEMMA AskInv ==
  ASSUME Inv, NEW i \in Slot, AskForWork(i)
  PROVE  Inv'
<1> USE DEF sessionVars, AskForWork
<1>1. TypeOK'
  BY DEF Inv, TypeOK
<1>2. \A j \in Slot : at'[j] # "take" => at[j] # "take"
  BY DEF Inv, TypeOK
<1>3. SeenIsCurrent'
  BY <1>2 DEF Inv, SeenIsCurrent, Publishing
<1>4. SeenIsPast' /\ RangesKept' /\ ScannedInRange'
  BY DEF Inv, SeenIsPast, RangesKept, ScannedInRange
<1> QED BY <1>1, <1>3, <1>4 DEF Inv

\* A batch stays below the end of the range.
LEMMA UptoBounds ==
  ASSUME Inv, NEW i \in Slot, ~ Exhausted(i)
  PROVE  /\ current[i] \in Unit
         /\ current[i].from = NonceStart(i, Threads)
         /\ current[i].to = NonceEnd(i, Threads)
         /\ nonce[i] \in 0..LastNonce /\ current[i].from \in 0..LastNonce
         /\ Upto(i) \in 0..LastNonce
         /\ current[i].from <= nonce[i] /\ nonce[i] < Upto(i) /\ Upto(i) <= current[i].to
<1>1. current[i] # NoWork /\ ~ (nonce[i] >= current[i].to)
  BY DEF Exhausted
<1>2. current[i] \in Unit /\ nonce[i] \in 0..LastNonce
  BY <1>1 DEF Inv, TypeOK
<1>3. current[i].from \in 0..LastNonce /\ current[i].to \in 0..LastNonce
  BY <1>2 DEF Unit
<1>4. /\ current[i].from = NonceStart(i, Threads)
      /\ current[i].to = NonceEnd(i, Threads)
      /\ nonce[i] >= current[i].from
  BY <1>1 DEF Inv, RangesKept
<1> QED BY <1>1, <1>2, <1>3, <1>4, BatchAssumption, NoncesAssumption DEF Upto, LastNonce

LEMMA HashInv ==
  ASSUME Inv, NEW i \in Slot, HashBatch(i)
  PROVE  Inv'
<1> USE DEF sessionVars, slotVars
<1> DEFINE fresh == {<<current[i].job, current[i].draw % E2Space, n>> : n \in nonce[i]..(Upto(i) - 1)}
<1>1. /\ ~ Exhausted(i) /\ at[i] = "hash" /\ TypeOK
      /\ nonce' = [nonce EXCEPT ![i] = Upto(i)]
      /\ scanned' = [scanned EXCEPT ![i] = @ \union fresh]
      /\ at' = [at EXCEPT ![i] = "load"]
      /\ UNCHANGED <<sessionVars, slotVars, seen, current, taken>>
  BY DEF HashBatch, Inv
<1>2. current[i].job \in 1..MaxJobs /\ current[i].draw \in Nat
  BY <1>1, UptoBounds DEF Unit
<1>3. (current[i].draw % E2Space) \in 0..(E2Space - 1)
  BY <1>2, E2Assumption
<1>4. nonce[i]..(Upto(i) - 1) \subseteq NonceRange(i, Threads)
  <2> DEFINE a == NonceStart(i, Threads)
             b == NonceEnd(i, Threads)
             u == Upto(i)
  <2>1. /\ a \in 0..LastNonce /\ u \in 0..LastNonce /\ nonce[i] \in 0..LastNonce
        /\ b \in Int /\ a <= nonce[i] /\ u <= b
    BY <1>1, UptoBounds, RangeTyped, ThreadsAssumption, NoncesAssumption DEF Slot, LastNonce
  <2>2. NonceRange(i, Threads) = {n \in 0..LastNonce : a <= n /\ n < b}
    BY DEF NonceRange
  <2> HIDE DEF a, b, u
  <2>3. ASSUME NEW n \in nonce[i]..(u - 1)
        PROVE  n \in NonceRange(i, Threads)
    BY <2>1, <2>2, NoncesAssumption DEF LastNonce
  <2> QED BY <2>3 DEF u
<1>5. NonceRange(i, Threads) \subseteq 0..LastNonce
  BY DEF NonceRange
<1>6. fresh \subseteq (1..MaxJobs) \X (0..(E2Space - 1)) \X NonceRange(i, Threads)
  BY <1>2, <1>3, <1>4
<1>7. TypeOK'
  <2>1. nonce' \in [Slot -> 0..LastNonce] /\ at' \in [Slot -> {"load", "take", "hash"}]
    BY <1>1, UptoBounds DEF TypeOK
  <2>2. fresh \subseteq (1..MaxJobs) \X (0..(E2Space - 1)) \X (0..LastNonce)
    BY <1>5, <1>6
  <2>3. ASSUME NEW j \in Slot
        PROVE  scanned'[j] \subseteq (1..MaxJobs) \X (0..(E2Space - 1)) \X (0..LastNonce)
    <3> HIDE DEF fresh
    <3> QED BY <1>1, <2>2 DEF TypeOK
  <2> QED BY <1>1, <2>1, <2>3 DEF TypeOK
<1>8. SeenIsCurrent'
  <2>1. \A j \in Slot : at'[j] # "take" => at[j] # "take"
    BY <1>1 DEF TypeOK
  <2> QED BY <1>1, <2>1 DEF Inv, SeenIsCurrent, Publishing
<1>9. RangesKept'
  <2>1. \A j \in Slot : j # i => nonce'[j] = nonce[j]
    BY <1>1 DEF TypeOK
  <2>2. nonce'[i] = Upto(i)
    BY <1>1 DEF TypeOK
  <2>3. Upto(i) >= current[i].from
    BY <1>1, UptoBounds, NoncesAssumption DEF LastNonce
  <2> QED BY <1>1, <2>1, <2>2, <2>3 DEF Inv, RangesKept
<1>10. ScannedInRange'
  <2> SUFFICES ASSUME NEW j \in Slot, NEW h \in scanned'[j]
               PROVE  h[3] \in NonceRange(j, Threads)
    BY DEF ScannedInRange
  <2>1. CASE h \in scanned[j]
    BY <2>1 DEF Inv, ScannedInRange
  <2>2. CASE h \notin scanned[j]
    <3>1. j = i /\ h \in fresh
      BY <1>1, <2>2 DEF TypeOK
    <3> QED BY <1>6, <3>1
  <2> QED BY <2>1, <2>2
<1>11. SeenIsPast'
  BY <1>1 DEF Inv, SeenIsPast
<1> QED BY <1>7, <1>8, <1>9, <1>10, <1>11 DEF Inv

-----------------------------------------------------------------------------

LEMMA StepInv ==
  ASSUME Inv, [Next]_vars
  PROVE  Inv'
<1>1. CASE Notify
  <2>1. job' \in 0..MaxJobs
    BY <1>1, BoundsAssumption DEF Notify, Inv, TypeOK
  <2> QED BY <1>1, <2>1, BeginInv DEF Notify
<1>2. CASE SetDifficulty
  <2>1. job' \in 0..MaxJobs
    BY <1>2 DEF SetDifficulty, Inv, TypeOK
  <2> QED BY <1>2, <2>1, BeginInv DEF SetDifficulty
<1>3. CASE Tick
  <2>1. job' \in 0..MaxJobs
    BY <1>3 DEF Tick, Inv, TypeOK
  <2> QED BY <1>3, <2>1, BeginInv DEF Tick
<1>4. CASE SkipSlot
  BY <1>4, SkipInv
<1>5. CASE StoreWork
  BY <1>5, StoreInv
<1>6. CASE FlagWork
  BY <1>6, FlagInv
<1>7. CASE BumpGeneration
  BY <1>7, BumpInv
<1>8. ASSUME NEW i \in Slot,
             LoadGeneration(i) \/ TakeWork(i) \/ AskForWork(i) \/ HashBatch(i)
      PROVE  Inv'
  BY <1>8, LoadInv, TakeInv, AskInv, HashInv
<1>9. CASE UNCHANGED vars
  <2>1. UNCHANGED <<job, draws, pass, work, needs, gen, at, seen, current, nonce, scanned, taken>>
    BY <1>9 DEF vars, sessionVars, slotVars, threadVars
  <2>2. TypeOK' /\ SeenIsPast' /\ RangesKept' /\ ScannedInRange'
    BY <2>1 DEF Inv, TypeOK, SeenIsPast, RangesKept, ScannedInRange
  <2>3. SeenIsCurrent'
    BY <2>1 DEF Inv, SeenIsCurrent, Publishing
  <2> QED BY <2>2, <2>3 DEF Inv
<1> QED BY <1>1, <1>2, <1>3, <1>4, <1>5, <1>6, <1>7, <1>8, <1>9 DEF Next

\* The inductive invariant holds in every behaviour.
THEOREM Invariance == Spec => []Inv
<1>1. Init => Inv
  BY InitInv
<1>2. Inv /\ [Next]_vars => Inv'
  BY StepInv
<1> QED BY <1>1, <1>2, PTL DEF Spec

\* Every slot, thread and unit is well formed: no range leaves the u32 nonces.
THEOREM TypeCorrect == Spec => []TypeOK
<1>1. Inv => TypeOK
  BY DEF Inv
<1> QED BY <1>1, Invariance, PTL

\* A thread that has seen its slot's generation hashes the unit in the slot.
THEOREM SeenGenerationIsCurrent == Spec => []SeenIsCurrent
<1>1. Inv => SeenIsCurrent
  BY DEF Inv
<1> QED BY <1>1, Invariance, PTL

\* No two threads of a rig hash the same nonce of the same header, for any
\* number of threads and even without an extranonce2 to tell headers apart.
THEOREM ThreadsNeverOverlap == Spec => []ThreadsApart
<1>1. Inv => ThreadsApart
  <2> SUFFICES ASSUME Inv, NEW i \in Slot, NEW j \in Slot, i # j,
                      NEW h \in scanned[i], h \in scanned[j]
               PROVE  FALSE
    BY DEF ThreadsApart
  <2>1. h[3] \in NonceRange(i, Threads) /\ h[3] \in NonceRange(j, Threads)
    BY DEF Inv, ScannedInRange
  <2>2. NonceRange(i, Threads) \intersect NonceRange(j, Threads) = {}
    BY NonceRangesApart, ThreadsAssumption DEF Slot
  <2> QED BY <2>1, <2>2
<1> QED BY <1>1, Invariance, PTL

-----------------------------------------------------------------------------
(* How often a unit is begun.  While it is in the slot there are two        *)
(* generations, Base and the one after; every copy but the first was made  *)
(* on a generation loaded while it was there, each on a later one.         *)

\* The generation of slot i when its unit was stored.
Base(i) == IF Publishing(i) THEN gen[i] ELSE gen[i] - 1

\* The copies thread i has made of its unit, and the one it is about to make.
Begun(i) == taken[i] + (IF at[i] = "take" THEN 1 ELSE 0)

\* Units in slots and in hands were drawn already: what is stored next is none of them.
Counted ==
  /\ pass.kind = "idle" => pass.step = "look"
  /\ \A i \in Slot :
       /\ work[i] # NoWork => work[i].draw < draws
       /\ current[i] # NoWork =>
            /\ current[i].draw < draws
            /\ taken[i] <= 3
            /\ current[i] = work[i] /\ Begun(i) >= 2 => Base(i) + Begun(i) - 2 <= seen[i]

\* What the arithmetic below is about is numbers.
LEMMA CountsTyped ==
  ASSUME Inv, NEW i \in Slot
  PROVE  /\ gen[i] \in Nat /\ seen[i] \in Int /\ taken[i] \in Nat /\ draws \in Nat
         /\ seen[i] <= gen[i]
         /\ Base(i) \in Int /\ Base(i) <= gen[i] /\ gen[i] <= Base(i) + 1
         /\ Begun(i) \in Nat
         /\ work[i] # NoWork => work[i].draw \in Nat
         /\ current[i] # NoWork => current[i].draw \in Nat
<1>1. gen[i] \in Nat /\ seen[i] \in Int /\ taken[i] \in Nat /\ draws \in Nat
  BY DEF Inv, TypeOK, NeverSeen
<1>2. /\ work[i] # NoWork => work[i].draw \in Nat
      /\ current[i] # NoWork => current[i].draw \in Nat
  BY DEF Inv, TypeOK, Unit
<1> QED BY <1>1, <1>2 DEF Inv, SeenIsPast, Base, Begun

\* A step that neither moves a base nor touches slots, generations and copies.
LEMMA CountedUntouched ==
  ASSUME Counted, UNCHANGED <<work, gen, draws, seen, current, taken>>,
         pass'.kind = "idle" => pass'.step = "look",
         \A i \in Slot : Publishing(i)' <=> Publishing(i),
         \A i \in Slot : (at'[i] = "take") <=> (at[i] = "take")
  PROVE  Counted'
<1>1. \A i \in Slot : Base(i)' = Base(i) /\ Begun(i)' = Begun(i)
  BY DEF Base, Begun
<1> QED BY <1>1 DEF Counted

LEMMA SessionCounted ==
  ASSUME Inv, Counted,
         Notify \/ SetDifficulty \/ Tick \/ SkipSlot \/ FlagWork
  PROVE  Counted'
<1>1. UNCHANGED <<work, gen, draws, seen, current, taken, at>>
  BY DEF Notify, SetDifficulty, Tick, SkipSlot, FlagWork, slotVars, threadVars
<1>2. CASE Notify \/ SetDifficulty \/ Tick
  <2>1. pass.kind = "idle" /\ pass'.step = "look"
    BY <1>2 DEF Notify, SetDifficulty, Tick, Begin
  <2> QED BY <1>1, <2>1, CountedUntouched DEF Publishing
<1>3. CASE SkipSlot
  <2>1. pass.step = "look" /\ pass'.step = "look"
    BY <1>3, AdvanceTyped DEF SkipSlot, Inv
  <2> QED BY <1>1, <2>1, CountedUntouched DEF Publishing
<1>4. CASE FlagWork
  <2>1. /\ pass.step = "flag" /\ pass'.step = "bump"
        /\ pass'.slot = pass.slot /\ pass'.kind = pass.kind
    BY <1>4 DEF FlagWork, Inv, TypeOK
  <2> QED BY <1>1, <2>1, CountedUntouched DEF Publishing, Counted
<1> QED BY <1>2, <1>3, <1>4

\* The unit that is stored is in nobody's hands yet.
LEMMA StoreCounted ==
  ASSUME Inv, Counted, StoreWork
  PROVE  Counted'
<1> DEFINE s == pass.slot
<1>1. /\ s \in Slot /\ pass.kind # "idle" /\ pass.step = "look"
      /\ pass'.slot = s /\ pass'.step = "flag" /\ pass'.kind = pass.kind
      /\ UNCHANGED <<gen, seen, current, taken, at>>
  BY DEF StoreWork, Inv, TypeOK, threadVars
<1>2. work'[s] = BuildWork(s) /\ \A i \in Slot : i # s => work'[i] = work[i]
  BY <1>1 DEF StoreWork, Inv, TypeOK
<1>3. draws \in Nat /\ draws' = IF job = 0 THEN draws ELSE draws + 1
  BY DEF StoreWork, Inv, TypeOK
<1>4. work'[s] # NoWork => work'[s].draw = draws /\ draws' = draws + 1
  BY <1>2, <1>3 DEF BuildWork
<1>5. ASSUME NEW i \in Slot
      PROVE  /\ work'[i] # NoWork => work'[i].draw < draws'
             /\ current'[i] # NoWork =>
                  /\ current'[i].draw < draws'
                  /\ taken'[i] <= 3
                  /\ current'[i] = work'[i] /\ Begun(i)' >= 2 =>
                       Base(i)' + Begun(i)' - 2 <= seen'[i]
  <2>1. current'[i] # NoWork => current'[i].draw < draws' /\ taken'[i] <= 3
    BY <1>1, <1>3, CountsTyped DEF Counted
  <2>2. CASE i = s
    <3>1. current'[i] # NoWork => current'[i] # work'[i]
      BY <2>2, <1>1, <1>3, <1>4, CountsTyped DEF Counted
    <3> QED BY <2>1, <2>2, <3>1, <1>3, <1>4
  <2>3. CASE i # s
    <3>1. work'[i] = work[i] /\ Begun(i)' = Begun(i) /\ Base(i)' = Base(i)
      BY <2>3, <1>1, <1>2 DEF Begun, Base, Publishing
    <3>2. work'[i] # NoWork => work'[i].draw < draws'
      BY <3>1, <1>3, CountsTyped DEF Counted
    <3> QED BY <2>1, <3>1, <3>2, <1>1 DEF Counted
  <2> QED BY <2>2, <2>3
<1> QED BY <1>1, <1>5 DEF Counted

\* The bump ends the publishing: the base stays.
LEMMA BumpCounted ==
  ASSUME Inv, Counted, BumpGeneration
  PROVE  Counted'
<1> DEFINE s == pass.slot
<1>1. /\ s \in Slot /\ pass.kind # "idle" /\ pass.step = "bump" /\ pass'.step = "look"
      /\ UNCHANGED <<work, draws, seen, current, taken, at>>
  BY AdvanceTyped DEF BumpGeneration, Inv, TypeOK, Counted, threadVars
<1>2. gen'[s] = gen[s] + 1 /\ \A i \in Slot : i # s => gen'[i] = gen[i]
  BY <1>1 DEF BumpGeneration, Inv, TypeOK
<1>3. ASSUME NEW i \in Slot PROVE Base(i)' = Base(i) /\ Begun(i)' = Begun(i)
  <2>1. gen[i] \in Nat /\ ~ Publishing(i)' /\ (Publishing(i) <=> i = s)
    BY <1>1, CountsTyped DEF Publishing
  <2> QED BY <1>1, <1>2, <2>1 DEF Base, Begun
<1> QED BY <1>1, <1>3 DEF Counted

\* A generation that is new to the thread is later than the one it has seen.
LEMMA LoadCounted ==
  ASSUME Inv, Counted, NEW i \in Slot, LoadGeneration(i)
  PROVE  Counted'
<1>1. /\ at[i] = "load" /\ seen'[i] = gen[i]
      /\ at'[i] = IF gen[i] # seen[i] THEN "take" ELSE "hash"
      /\ \A j \in Slot : j # i => seen'[j] = seen[j] /\ at'[j] = at[j]
      /\ UNCHANGED <<pass, work, gen, draws, current, taken>>
  BY DEF LoadGeneration, Inv, TypeOK, sessionVars, slotVars
<1>2. \A j \in Slot : Base(j)' = Base(j)
  BY <1>1 DEF Base, Publishing
<1>3. \A j \in Slot : j # i => Begun(j)' = Begun(j)
  BY <1>1 DEF Begun
<1>4. Begun(i) = taken[i] /\ Begun(i)' = IF gen[i] # seen[i] THEN taken[i] + 1 ELSE taken[i]
  BY <1>1, CountsTyped DEF Begun
<1>5. ASSUME current[i] # NoWork, current[i] = work[i], Begun(i)' >= 2
      PROVE  Base(i) + Begun(i)' - 2 <= gen[i]
  BY <1>4, <1>5, CountsTyped DEF Counted
<1> QED BY <1>1, <1>2, <1>3, <1>5 DEF Counted

LEMMA TakeCounted ==
  ASSUME Inv, Counted, NEW i \in Slot, TakeWork(i)
  PROVE  Counted'
<1>1. /\ at[i] = "take" /\ at'[i] = "hash" /\ current'[i] = work[i]
      /\ taken'[i] = IF current[i] = work[i] THEN taken[i] + 1 ELSE 1
      /\ \A j \in Slot : j # i => /\ current'[j] = current[j]
                                  /\ taken'[j] = taken[j] /\ at'[j] = at[j]
      /\ UNCHANGED <<pass, work, gen, draws, seen>>
  BY DEF TakeWork, Inv, TypeOK, sessionVars, slotVars
<1>2. \A j \in Slot : Base(j)' = Base(j)
  BY <1>1 DEF Base, Publishing
<1>3. \A j \in Slot : j # i => Begun(j)' = Begun(j)
  BY <1>1 DEF Begun
<1>4. Begun(i)' = taken'[i] /\ Begun(i) = taken[i] + 1
  BY <1>1, CountsTyped DEF Begun
<1>5. ASSUME work[i] # NoWork
      PROVE  /\ taken'[i] <= 3
             /\ Begun(i)' >= 2 => Base(i) + Begun(i)' - 2 <= seen[i]
  <2>1. CASE current[i] = work[i]
    <3>1. Begun(i)' = Begun(i) /\ taken'[i] = Begun(i)
      BY <2>1, <1>1, <1>4
    <3> QED BY <1>5, <2>1, <3>1, CountsTyped DEF Counted
  <2>2. CASE current[i] # work[i]
    BY <2>2, <1>1, <1>4
  <2> QED BY <2>1, <2>2
<1> QED BY <1>1, <1>2, <1>3, <1>5 DEF Counted

\* A thread that asks or hashes has nothing to take.
LEMMA HashCounted ==
  ASSUME Inv, Counted, NEW i \in Slot, AskForWork(i) \/ HashBatch(i)
  PROVE  Counted'
<1>1. /\ at[i] = "hash" /\ at'[i] = "load" /\ \A j \in Slot : j # i => at'[j] = at[j]
      /\ UNCHANGED <<pass, work, gen, draws, seen, current, taken>>
  BY DEF AskForWork, HashBatch, Inv, TypeOK, sessionVars, slotVars
<1> QED BY <1>1, CountedUntouched DEF Counted, Publishing

LEMMA StepCounted ==
  ASSUME Inv, Counted, [Next]_vars
  PROVE  Counted'
<1>1. CASE Notify \/ SetDifficulty \/ Tick \/ SkipSlot \/ FlagWork
  BY <1>1, SessionCounted
<1>2. CASE StoreWork
  BY <1>2, StoreCounted
<1>3. CASE BumpGeneration
  BY <1>3, BumpCounted
<1>4. ASSUME NEW i \in Slot,
             LoadGeneration(i) \/ TakeWork(i) \/ AskForWork(i) \/ HashBatch(i)
      PROVE  Counted'
  BY <1>4, LoadCounted, TakeCounted, HashCounted
<1>5. CASE UNCHANGED vars
  BY <1>5, CountedUntouched
     DEF vars, sessionVars, slotVars, threadVars, Counted, Publishing
<1> QED BY <1>1, <1>2, <1>3, <1>4, <1>5 DEF Next

\* A thread begins the unit it has in hands three times at most (worker.rs and the three
\* steps of publish()), for any number of publishes.
THEOREM WorkRepeatsAreBounded == Spec => []BegunThriceAtMost
<1>1. Init => Counted
  BY DEF Init, Idle, Counted
<1>2. Inv /\ Counted /\ [Next]_vars => Counted'
  BY StepCounted
<1>3. Counted => BegunThriceAtMost
  BY DEF Counted, BegunThriceAtMost
<1> QED BY <1>1, <1>2, <1>3, Invariance, PTL DEF Spec
=============================================================================
