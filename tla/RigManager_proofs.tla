--------------------------- MODULE RigManager_proofs ---------------------------
(***************************************************************************)
(* Five results about the rigs, for any rigs, coins, slots, weights and    *)
(* number of requests, and for every interleaving of the operations.       *)
(*                                                                         *)
(* The division of the threads: together the shares are no more than what  *)
(* there is to share, but for the one thread that is the least.  A sum is  *)
(* the size of a set, and what is known of a sum follows by counting.      *)
(*                                                                         *)
(* Every variable has its type.  The lemmas that show it say of each step, *)
(* too, from where to where it takes its slot and what it leaves alone;    *)
(* the other results rest on them.                                         *)
(*                                                                         *)
(* Nothing that lives is forgotten, and nothing that runs leaves the map,  *)
(* but for sessions that were overtaken.  What matters is that whoever is  *)
(* about to replace a session it had found polled had found it stopped or  *)
(* ended, and those never run again.                                       *)
(*                                                                         *)
(* The threads of all rigs come from one division.  What starts a session  *)
(* or takes a new configuration still owes a division; meanwhile sessions  *)
(* are only stopped.  So once nobody owes one, the division that began     *)
(* last takes in everybody.                                                *)
(***************************************************************************)
EXTENDS RigManager, FiniteSetTheorems, WellFoundedInduction, TLAPS
-----------------------------------------------------------------------------
(* Sums and parts: how the threads are divided.                             *)

\* What k stands for in a sum.
Pairs(k, n) == {k} \X (1..n)

\* Sums are natural numbers, no less than any summand, and grow with their summands.
LEMMA PairsCounted ==
  ASSUME NEW k, NEW n \in Nat
  PROVE  IsFiniteSet(Pairs(k, n)) /\ Cardinality(Pairs(k, n)) = n
<1>1. IsFiniteSet({k}) /\ Cardinality({k}) = 1
  BY FS_Singleton
<1>2. PICK T : T = 1..n
  OBVIOUS
<1>3. IsFiniteSet(T) /\ Cardinality(T) = n
  BY <1>2, FS_Interval
<1>4. IsFiniteSet({k} \X T) /\ Cardinality({k} \X T) = Cardinality({k}) * Cardinality(T)
  BY <1>1, <1>3, FS_Product
<1>5. Pairs(k, n) = {k} \X T
  BY <1>2 DEF Pairs
<1> QED BY <1>1, <1>3, <1>4, <1>5

LEMMA TotalTyped ==
  ASSUME NEW S, IsFiniteSet(S), NEW f \in [S -> Nat]
  PROVE  /\ IsFiniteSet(UNION {Pairs(k, f[k]) : k \in S})
         /\ Total(f) = Cardinality(UNION {Pairs(k, f[k]) : k \in S})
         /\ Total(f) \in Nat /\ \A k \in S : f[k] <= Total(f)
<1> DEFINE g == [k \in S |-> Pairs(k, f[k])]
           R == {Pairs(k, f[k]) : k \in S}
<1>1. g \in Surjection(S, R)
  BY DEF Surjection
<1>2. IsFiniteSet(R)
  BY <1>1, FS_Surjection
<1>3. \A T \in R : IsFiniteSet(T)
  BY PairsCounted
<1>4. IsFiniteSet(UNION R)
  BY <1>2, <1>3, FS_UNION
<1>5. Total(f) = Cardinality(UNION R)
  BY DEF Total, Pairs
<1>6. Total(f) \in Nat
  BY <1>4, <1>5, FS_CardinalityType
<1>7. ASSUME NEW k \in S PROVE f[k] <= Total(f)
  <2>1. Pairs(k, f[k]) \in SUBSET UNION R
    OBVIOUS
  <2>2. Cardinality(Pairs(k, f[k])) <= Cardinality(UNION R)
    BY <1>4, <2>1, FS_Subset
  <2> QED BY <1>5, <2>2, PairsCounted
<1> QED BY <1>4, <1>5, <1>6, <1>7

\* One more summand.
LEMMA TotalAdds ==
  ASSUME NEW S, IsFiniteSet(S), NEW x, x \notin S, NEW f \in [S \union {x} -> Nat]
  PROVE  Total(f) = Total([k \in S |-> f[k]]) + f[x]
<1>1. PICK h : h = [k \in S |-> f[k]]
  OBVIOUS
<1>2. h \in [S -> Nat] /\ \A k \in S : h[k] = f[k]
  BY <1>1
<1> DEFINE A == UNION {Pairs(k, h[k]) : k \in S}
           B == Pairs(x, f[x])
           C == UNION {Pairs(k, f[k]) : k \in S \union {x}}
<1>3. IsFiniteSet(A) /\ Total(h) = Cardinality(A) /\ Total(h) \in Nat
  BY <1>2, TotalTyped
<1>4. IsFiniteSet(B) /\ Cardinality(B) = f[x]
  BY PairsCounted
<1>5. IsFiniteSet(S \union {x})
  BY FS_AddElement
<1>6. Total(f) = Cardinality(C)
  BY <1>5, TotalTyped
<1>7. C = A \union B
  BY <1>2
<1>8. A \intersect B = {}
  BY DEF Pairs
<1> HIDE DEF A, B, C
<1>9. Cardinality(A \union B) = Cardinality(A) + Cardinality(B) - Cardinality(A \intersect B)
  BY <1>3, <1>4, FS_Union
<1>10. Cardinality(A \intersect B) = 0
  BY <1>8, FS_EmptySet
<1>11. Cardinality(C) = Cardinality(A) + Cardinality(B)
  BY <1>3, <1>4, <1>7, <1>9, <1>10
<1> QED BY <1>1, <1>3, <1>4, <1>6, <1>11

\* The least of some numbers, and induction over them.
LEMMA Least ==
  ASSUME NEW S \in SUBSET Nat, S # {}
  PROVE  \E n \in S : \A m \in S : n <= m
<1>1. PICK R : R = OpToRel(<, Nat)
  OBVIOUS
<1>2. IsWellFoundedOn(R, Nat)
  BY <1>1, NatLessThanWellFounded
<1>3. PICK n \in S : \A m \in S : ~ (<<m, n>> \in R)
  BY <1>2, WFMin
<1>4. ASSUME NEW m \in S, m < n PROVE <<m, n>> \in R
  BY <1>1, <1>4 DEF OpToRel
<1>5. ASSUME NEW m \in S PROVE n <= m
  <2>1. ~ (m < n)
    BY <1>3, <1>4
  <2>2. m \in Nat /\ n \in Nat
    OBVIOUS
  <2> QED BY <2>1, <2>2
<1> QED BY <1>5

LEMMA Counting ==
  ASSUME NEW S, 0 \in S, \A n \in Nat : n \in S => n + 1 \in S
  PROVE  Nat \subseteq S
<1> SUFFICES ASSUME Nat \ S # {} PROVE FALSE
  OBVIOUS
<1>1. PICK n \in Nat \ S : \A m \in Nat \ S : n <= m
  BY Least
<1>2. n # 0 /\ n - 1 \in Nat /\ ~ (n <= n - 1)
  BY <1>1
<1>3. n - 1 \in S
  BY <1>1, <1>2
<1> QED BY <1>1, <1>2, <1>3

\* What holds of every summand holds of the sum.
LEMMA TotalBounded ==
  ASSUME NEW A, IsFiniteSet(A), NEW f \in [A -> Nat], NEW g \in [A -> Nat],
         NEW c \in Nat, NEW n \in Nat, NEW d \in Nat, \A k \in A : c * f[k] <= n * g[k] + d
  PROVE  c * Total(f) <= n * Total(g) + d * Cardinality(A)
<1> DEFINE F(S) == [k \in S |-> f[k]]
           G(S) == [k \in S |-> g[k]]
           Claim(S) == c * Total(F(S)) <= n * Total(G(S)) + d * Cardinality(S)
           N == {m \in Nat : \A S \in SUBSET A : Cardinality(S) = m => Claim(S)}
<1>1. \A S \in SUBSET A : IsFiniteSet(S)
  BY FS_Subset
<1>2. 0 \in N
  <2> SUFFICES ASSUME NEW S \in SUBSET A, Cardinality(S) = 0 PROVE Claim(S)
    OBVIOUS
  <2>1. S = {}
    BY <1>1, FS_EmptySet
  <2>2. Total(F(S)) = 0 /\ Total(G(S)) = 0
    <3>1. \A h \in [{} -> Nat] : Total(h) = 0
      BY FS_EmptySet DEF Total
    <3> QED BY <2>1, <3>1
  <2> QED BY <2>2
<1>3. ASSUME NEW m \in Nat, m \in N PROVE m + 1 \in N
  <2> SUFFICES ASSUME NEW S \in SUBSET A, Cardinality(S) = m + 1 PROVE Claim(S)
    OBVIOUS
  <2>0. Cardinality({}) = 0 /\ m + 1 # 0
    BY FS_EmptySet
  <2>1. PICK x \in S : TRUE
    BY <2>0
  <2>2. PICK T : T = S \ {x}
    OBVIOUS
  <2>3. T \in SUBSET A /\ S = T \union {x} /\ x \notin T /\ x \in A
    BY <2>1, <2>2
  <2>4. Cardinality(T) = m /\ IsFiniteSet(T)
    <3>1. IsFiniteSet(S)
      BY <1>1
    <3>2. IsFiniteSet(S \ {x}) /\ Cardinality(S \ {x}) = Cardinality(S) - 1
      BY <2>1, <3>1, FS_RemoveElement
    <3> QED BY <2>2, <3>2
  <2>5. Claim(T)
    BY <1>3, <2>3, <2>4
  <2>6. ASSUME NEW h \in [A -> Nat]
        PROVE  Total([k \in S |-> h[k]]) = Total([k \in T |-> h[k]]) + h[x]
    <3>1. PICK u : u = [k \in S |-> h[k]]
      OBVIOUS
    <3>2. u \in [T \union {x} -> Nat] /\ u[x] = h[x] /\ [k \in T |-> u[k]] = [k \in T |-> h[k]]
      BY <2>3, <3>1
    <3>3. Total(u) = Total([k \in T |-> u[k]]) + u[x]
      BY <2>3, <2>4, <3>2, TotalAdds
    <3> QED BY <3>1, <3>2, <3>3
  <2>8. Total(F(S)) = Total(F(T)) + f[x]
    BY <2>6
  <2>9. Total(G(S)) = Total(G(T)) + g[x]
    BY <2>6
  <2>10. F(T) \in [T -> Nat] /\ G(T) \in [T -> Nat]
    BY <2>3
  <2>11. PICK a \in Nat, b \in Nat : a = Total(F(T)) /\ b = Total(G(T))
    BY <2>4, <2>10, TotalTyped
  <2>12. c * a <= n * b + d * m
    BY <2>4, <2>5, <2>11
  <2>13. f[x] \in Nat /\ g[x] \in Nat /\ c * f[x] <= n * g[x] + d
    BY <2>3
  <2>14. c * (a + f[x]) <= n * (b + g[x]) + d * (m + 1)
    BY <2>12, <2>13
  <2> QED BY <2>8, <2>9, <2>11, <2>14
<1>4. PICK m \in Nat : m = Cardinality(A)
  BY FS_CardinalityType
<1> HIDE DEF N
<1>5. m \in N
  BY <1>2, <1>3, Counting
<1>6. Claim(A)
  BY <1>4, <1>5 DEF N
<1>7. F(A) = f /\ G(A) = g
  OBVIOUS
<1> QED BY <1>6, <1>7

\* Parts are rounded down, and none is more than the whole.
LEMMA PartTyped ==
  ASSUME NEW n \in Nat, NEW w \in Nat, NEW t \in Nat
  PROVE  /\ Part(n, w, t) \in Nat
         /\ Larger(t, 1) \in Nat \ {0}
         /\ Larger(t, 1) * Part(n, w, t) <= n * w
         /\ \A m \in Nat : Larger(m, 1) \in Nat \ {0} /\ Larger(m, 1) <= m + 1
<1>1. PICK d \in Nat \ {0} : d = Larger(t, 1)
  BY DEF Larger
<1>2. PICK a \in Nat : a = n * w
  OBVIOUS
<1>3. Part(n, w, t) = a \div d
  BY <1>1, <1>2 DEF Part
<1>4. a \div d \in Nat /\ d * (a \div d) <= a
  OBVIOUS
<1>5. \A m \in Nat : Larger(m, 1) \in Nat \ {0} /\ Larger(m, 1) <= m + 1
  BY DEF Larger
<1> QED BY <1>1, <1>2, <1>3, <1>4, <1>5

\* Together the parts are no more than the whole, but for the one thread that is the
\* least anybody gets.
LEMMA PartsFit ==
  ASSUME NEW S, IsFiniteSet(S), NEW w \in [S -> Nat], NEW n \in Nat
  PROVE  Total([k \in S |-> Larger(Part(n, w[k], Total(w)), 1)]) <= n + Cardinality(S)
<1>1. PICK t \in Nat : t = Total(w)
  BY TotalTyped
<1>2. PICK f : f = [k \in S |-> Part(n, w[k], t)]
  OBVIOUS
<1>3. f \in [S -> Nat] /\ \A k \in S : Larger(t, 1) * f[k] <= n * w[k] + 0
  <2>1. ASSUME NEW k \in S
        PROVE  f[k] \in Nat /\ Larger(t, 1) * f[k] <= n * w[k] + 0
    <3>1. PICK v \in Nat : v = w[k]
      OBVIOUS
    <3>2. Part(n, v, t) \in Nat /\ Larger(t, 1) * Part(n, v, t) <= n * v
      BY PartTyped
    <3>3. n * v \in Nat /\ n * v + 0 = n * v
      OBVIOUS
    <3> QED BY <3>1, <3>2, <3>3, <1>2
  <2> QED BY <2>1, <1>2
<1>4. PICK d \in Nat \ {0} : d = Larger(t, 1)
  BY PartTyped
<1>5. PICK p \in Nat : p = Total(f)
  BY <1>3, TotalTyped
<1>6. PICK c \in Nat : c = Cardinality(S)
  BY FS_CardinalityType
<1>7. d * p <= n * t
  <2>1. d * Total(f) <= n * Total(w) + 0 * Cardinality(S)
    BY <1>3, <1>4, TotalBounded
  <2>2. 0 * c = 0
    OBVIOUS
  <2> QED BY <2>1, <2>2, <1>1, <1>5, <1>6
<1>8. t <= d
  BY <1>4 DEF Larger
<1>9. p <= n
  <2>1. SUFFICES ASSUME p >= n + 1 PROVE FALSE
    OBVIOUS
  <2>2. d * p >= d * (n + 1)
    BY <2>1
  <2>3. d * (n + 1) = d * n + d
    OBVIOUS
  <2>4. n * t <= n * d
    BY <1>8
  <2>5. n * d = d * n
    OBVIOUS
  <2> QED BY <1>7, <2>2, <2>3, <2>4, <2>5
<1>10. PICK g : g = [k \in S |-> Larger(f[k], 1)]
  OBVIOUS
<1>11. g \in [S -> Nat] /\ \A k \in S : 1 * g[k] <= 1 * f[k] + 1
  <2>1. \A m \in Nat : Larger(m, 1) \in Nat \ {0} /\ Larger(m, 1) <= m + 1
    BY DEF Larger
  <2> QED BY <2>1, <1>3, <1>10
<1>12. 1 * Total(g) <= 1 * Total(f) + 1 * Cardinality(S)
  BY <1>3, <1>11, TotalBounded
<1>13. PICK q \in Nat : q = Total(g)
  BY <1>11, TotalTyped
<1>14. q <= n + c
  BY <1>5, <1>6, <1>9, <1>12, <1>13
<1>15. [k \in S |-> Larger(Part(n, w[k], Total(w)), 1)] = g
  BY <1>1, <1>2, <1>10
<1> QED BY <1>6, <1>13, <1>14, <1>15

\* Rigs with their fixed counts and weights, and coins with theirs.
PlanOf(active, plan) ==
  \A k \in active : plan[k].threads \in Nat /\ plan[k].weight \in Nat

\* Shares are natural numbers, and not zero.
LEMMA RemainingTyped ==
  ASSUME NEW active, IsFiniteSet(active), NEW plan, PlanOf(active, plan), NEW budget \in Nat
  PROVE  /\ Remaining(active, plan, budget) \in Nat
         /\ IsFiniteSet(Sharers(active, plan))
         /\ Weights(active, plan) \in [Sharers(active, plan) -> Nat]
<1>1. PICK f : f = [k \in active |-> plan[k].threads]
  OBVIOUS
<1>2. f \in [active -> Nat]
  BY <1>1 DEF PlanOf
<1>3. PICK e \in Nat : e = Total(f)
  BY <1>2, TotalTyped
<1>4. Sharers(active, plan) \in SUBSET active
  BY DEF Sharers
<1>5. IsFiniteSet(Sharers(active, plan))
  BY <1>4, FS_Subset
<1>6. PICK c \in Nat : c = Cardinality(Sharers(active, plan))
  BY <1>5, FS_CardinalityType
<1>7. Remaining(active, plan, budget) = Larger(Larger(budget - e, 0), c)
  BY <1>1, <1>3, <1>6 DEF Remaining
<1>8. Weights(active, plan) \in [Sharers(active, plan) -> Nat]
  BY <1>4 DEF Weights, PlanOf, Larger
<1> QED BY <1>5, <1>7, <1>8 DEF Larger

LEMMA ShareTyped ==
  ASSUME NEW active, IsFiniteSet(active), NEW plan, PlanOf(active, plan), NEW budget \in Nat,
         NEW g \in active
  PROVE  GroupShare(g, active, plan, budget) \in Nat \ {0}
<1>1. PICK n \in Nat : n = Remaining(active, plan, budget)
  BY RemainingTyped
<1>2. PICK w \in [Sharers(active, plan) -> Nat] : w = Weights(active, plan)
  BY RemainingTyped
<1>3. PICK t \in Nat : t = Total(w)
  BY RemainingTyped, TotalTyped
<1>4. CASE plan[g].threads > 0
  BY <1>4 DEF GroupShare, PlanOf
<1>5. CASE ~ (plan[g].threads > 0)
  <2>1. g \in Sharers(active, plan)
    BY <1>5 DEF PlanOf, Sharers
  <2>2. Part(n, w[g], t) \in Nat
    BY <2>1, PartTyped
  <2>3. GroupShare(g, active, plan, budget) = Larger(Part(n, w[g], t), 1)
    BY <1>1, <1>2, <1>3, <1>5 DEF GroupShare
  <2> QED BY <2>2, <2>3 DEF Larger
<1> QED BY <1>4, <1>5

LEMMA AllottedTyped ==
  ASSUME NEW active, IsFiniteSet(active), NEW plan, PlanOf(active, plan), NEW budget \in Nat,
         NEW g \in active, NEW S, IsFiniteSet(S), plan[g].coins \in [S -> Nat], NEW c \in S
  PROVE  Allotted(g, c, active, plan, budget) \in Nat \ {0}
<1>1. PICK n \in Nat \ {0} : n = GroupShare(g, active, plan, budget)
  BY ShareTyped
<1>2. PICK w \in [S -> Nat] : w = plan[g].coins
  OBVIOUS
<1>3. PICK t \in Nat : t = Total(w)
  BY TotalTyped
<1>4. Part(n, w[c], t) \in Nat
  BY PartTyped
<1>5. Allotted(g, c, active, plan, budget) = Larger(Part(n, w[c], t), 1)
  BY <1>1, <1>2, <1>3 DEF Allotted
<1> QED BY <1>4, <1>5 DEF Larger

\* The rigs without a fixed count get no more than what there is to share, and the coins
\* of a rig no more than its share, but for one thread each (allocate_threads).
THEOREM SharesFit ==
  ASSUME NEW active, IsFiniteSet(active), NEW plan, PlanOf(active, plan), NEW budget \in Nat
  PROVE  /\ Total([k \in Sharers(active, plan) |-> GroupShare(k, active, plan, budget)])
              <= Remaining(active, plan, budget) + Cardinality(Sharers(active, plan))
         /\ \A g \in active : \A S :
              IsFiniteSet(S) /\ plan[g].coins \in [S -> Nat] =>
                Total([c \in S |-> Allotted(g, c, active, plan, budget)])
                  <= GroupShare(g, active, plan, budget) + Cardinality(S)
<1>1. PICK n \in Nat : n = Remaining(active, plan, budget)
  BY RemainingTyped
<1>2. PICK A : A = Sharers(active, plan)
  OBVIOUS
<1>3. IsFiniteSet(A)
  BY <1>2, RemainingTyped
<1>4. PICK w \in [A -> Nat] : w = Weights(active, plan)
  BY <1>2, RemainingTyped
<1>5. Total([k \in A |-> Larger(Part(n, w[k], Total(w)), 1)]) <= n + Cardinality(A)
  BY <1>3, PartsFit
<1>6. \A k \in A : GroupShare(k, active, plan, budget) = Larger(Part(n, w[k], Total(w)), 1)
  BY <1>1, <1>2, <1>4 DEF GroupShare, Sharers
<1>7. [k \in A |-> GroupShare(k, active, plan, budget)]
        = [k \in A |-> Larger(Part(n, w[k], Total(w)), 1)]
  BY <1>6
<1>8. ASSUME NEW g \in active, NEW S, IsFiniteSet(S), plan[g].coins \in [S -> Nat]
      PROVE  Total([c \in S |-> Allotted(g, c, active, plan, budget)])
               <= GroupShare(g, active, plan, budget) + Cardinality(S)
  <2>1. PICK m \in Nat : m = GroupShare(g, active, plan, budget)
    BY ShareTyped
  <2>2. PICK v \in [S -> Nat] : v = plan[g].coins
    BY <1>8
  <2>3. Total([c \in S |-> Larger(Part(m, v[c], Total(v)), 1)]) <= m + Cardinality(S)
    BY <1>8, PartsFit
  <2>4. [c \in S |-> Allotted(g, c, active, plan, budget)]
          = [c \in S |-> Larger(Part(m, v[c], Total(v)), 1)]
    BY <2>1, <2>2 DEF Allotted
  <2> QED BY <2>1, <2>3, <2>4
<1> QED BY <1>1, <1>2, <1>5, <1>7, <1>8


-----------------------------------------------------------------------------
(* Types.                                                                  *)

Allotment == UNION {[S -> Nat \ {0}] : S \in SUBSET Id}

Task ==
  [pc: PC, edit: Edit, draft: Config, names: SUBSET Rigs, todo: SUBSET Id, any: BOOLEAN,
   ids: SUBSET Id, held: SUBSET Nat, active: SUBSET Rigs, allotted: Allotment, seen: SUBSET Nat]

\* A task that knows of the sessions in D; an edit comes with what to edit,
Holds(t, D) ==
  /\ t \in Task
  /\ t.edit.kind # "none" => t.edit.rig \in Rigs
  /\ t.held \union t.seen \subseteq D

\* and has what its next step is about.
TaskOK(t, D) ==
  /\ Holds(t, D)
  /\ t.pc \in {"draft", "restart", "spawn"} => t.edit.kind # "none"
  /\ t.pc = "resolve" => t.names # {}
  /\ t.pc = "check" => t.todo # {}

MapTyped ==
  /\ rigs \in [Id -> 0..Len(sessions)]
  /\ \A id \in Id : rigs[id] # 0 => sessions[rigs[id]].id = id

HistoryTyped ==
  overtaken \subseteq DOMAIN sessions /\ newest \in Slots /\ inTurn \in BOOLEAN

TypeInv ==
  /\ config \in Config /\ file \in Config
  /\ sessions \in Seq(Session) /\ MapTyped
  /\ order \subseteq Id
  /\ tasks \in [Slots -> Task]
  /\ \A h \in Slots : TaskOK(tasks[h], DOMAIN sessions)
  /\ requests \in 0..MaxRequests
  /\ HistoryTyped

\* The ids of a rig's sessions are the rig's.
LEMMA IdsTyped ==
  /\ \A r \in Rigs, coins \in SUBSET Coins :
       IdsOf(r, coins) \subseteq Id /\ \A id \in IdsOf(r, coins) : id[1] = r
  /\ \A cfg \in Config : Configured(cfg) \subseteq Id
<1>1. ASSUME NEW r \in Rigs, NEW coins \in SUBSET Coins
      PROVE  IdsOf(r, coins) \subseteq Id /\ \A id \in IdsOf(r, coins) : id[1] = r
  BY DEF IdsOf, Id
<1>2. ASSUME NEW cfg \in Config PROVE Configured(cfg) \subseteq Id
  <2>1. \A r \in Rigs : cfg[r] \in SUBSET Coins
    BY DEF Config
  <2> QED BY <2>1, <1>1 DEF Configured
<1> QED BY <1>1, <1>2

\* The edit that was asked for.
LEMMA ChangedTyped ==
  ASSUME NEW cfg \in Config, NEW e \in Edit, e.kind # "none", e.rig \in Rigs
  PROVE  Changed(e, cfg) \in Config
<1>1. cfg[e.rig] \in SUBSET Coins
  BY DEF Config
<1>2. PICK coins : coins = CASE e.kind = "add" -> {Primary}
                             [] e.kind = "coin" -> cfg[e.rig] \union {e.coin}
                             [] e.kind = "remove" -> {}
                             [] e.kind = "uncoin" -> cfg[e.rig] \ {e.coin}
  OBVIOUS
<1>3. e.kind \in {"add", "coin", "remove", "uncoin"} /\ e.coin \in Coins
  BY DEF Edit
<1>4. coins \in SUBSET Coins
  BY <1>1, <1>2, <1>3, CoinsAssumption
<1>5. Changed(e, cfg) = [cfg EXCEPT ![e.rig] = coins]
  BY <1>2 DEF Changed
<1> QED BY <1>4, <1>5 DEF Config

\* The shares of the rigs that are weighed.
LEMMA DivisionTyped ==
  ASSUME config \in Config, NEW active \in SUBSET Rigs
  PROVE  Division(active) \in Allotment
<1>1. PICK known : known = {r \in active : config[r] # {}}
  OBVIOUS
<1>2. known \in SUBSET Rigs /\ IsFiniteSet(known)
  BY <1>1, FiniteAssumption, FS_Subset
<1>3. PlanOf(known, Plan)
  BY <1>2, PlanAssumption DEF PlanOf, Plan
<1>4. Budget \in Nat
  BY PlanAssumption
<1>5. ASSUME NEW id \in UNION {IdsOf(r, config[r]) : r \in known}
      PROVE  id \in Id /\ Allotted(id[1], CoinOf(id), known, Plan, Budget) \in Nat \ {0}
  <2>1. PICK r \in known : id \in IdsOf(r, config[r])
    BY <1>5
  <2>2. r \in Rigs /\ config[r] \in SUBSET Coins /\ config[r] # {}
    BY <1>1, <1>2 DEF Config
  <2>3. IsFiniteSet(config[r])
    BY <2>2, FiniteAssumption, FS_Subset
  <2>4. id \in Id /\ id[1] = r
    BY <2>1, <2>2, IdsTyped
  <2>5. Plan[r].coins \in [config[r] -> Nat]
    BY <2>2 DEF Plan
  <2>6. CoinOf(id) \in config[r]
    <3>1. CASE id[2] = Sole
      BY <2>2, <2>4, <3>1 DEF CoinOf
    <3>2. CASE id[2] # Sole
      BY <2>1, <2>4, <3>2 DEF CoinOf, IdsOf
    <3> QED BY <3>1, <3>2
  <2>7. PICK S : S = config[r]
    OBVIOUS
  <2>8. PICK c \in S : c = CoinOf(id)
    BY <2>6, <2>7
  <2>9. Allotted(r, c, known, Plan, Budget) \in Nat \ {0}
    BY <2>3, <2>5, <2>7, <1>2, <1>3, <1>4, AllottedTyped
  <2> QED BY <2>4, <2>8, <2>9
<1>6. PICK S \in SUBSET Id : S = UNION {IdsOf(r, config[r]) : r \in known}
  BY <1>5
<1>7. Division(active) = [id \in S |-> Allotted(id[1], CoinOf(id), known, Plan, Budget)]
  BY <1>1, <1>6 DEF Division
<1>8. Division(active) \in [S -> Nat \ {0}]
  BY <1>5, <1>6, <1>7
<1> QED BY <1>8 DEF Allotment

\* What a slot knows.
LEMMA SlotAt ==
  ASSUME TypeInv, NEW h \in Slots
  PROVE  /\ tasks[h] \in Task /\ TaskOK(tasks[h], DOMAIN sessions) /\ Holds(tasks[h], DOMAIN sessions)
         /\ tasks[h].pc \in PC /\ tasks[h].draft \in Config
         /\ tasks[h].edit \in Edit /\ tasks[h].names \in SUBSET Rigs
         /\ tasks[h].todo \in SUBSET Id /\ tasks[h].ids \in SUBSET Id
         /\ tasks[h].active \in SUBSET Rigs /\ tasks[h].any \in BOOLEAN
         /\ tasks[h].held \in SUBSET DOMAIN sessions /\ tasks[h].seen \in SUBSET DOMAIN sessions
BY DEF TypeInv, Task, Holds, TaskOK

\* What is in the map.
LEMMA MappedAt ==
  ASSUME TypeInv
  PROVE  /\ Mapped \subseteq Id
         /\ \A id \in Mapped : /\ rigs[id] \in DOMAIN sessions /\ At(id) \in Session
                               /\ At(id).id = id
         /\ DOMAIN sessions = 1..Len(sessions) /\ Len(sessions) \in Nat
         /\ \A i \in DOMAIN sessions : sessions[i] \in Session
<1>1. /\ Len(sessions) \in Nat /\ DOMAIN sessions = 1..Len(sessions)
      /\ \A i \in DOMAIN sessions : sessions[i] \in Session
  BY DEF TypeInv
<1>2. \A id \in Mapped : id \in Id /\ rigs[id] \in DOMAIN sessions /\ sessions[rigs[id]].id = id
  BY <1>1 DEF TypeInv, MapTyped, Mapped
<1> QED BY <1>1, <1>2 DEF At

-----------------------------------------------------------------------------
(* What comes next for a task.                                             *)

LEMMA IdleIsOK ==
  /\ NoEdit.kind = "none" /\ Idle.pc = "idle" /\ Idle.held = {} /\ Idle.seen = {}
  /\ \A D : TaskOK(Idle, D)
<1>1. NoEdit \in Edit /\ NoEdit.kind = "none" /\ Empty \in Config
  BY CoinsAssumption DEF NoEdit, Edit, Empty, Config
<1>2. [id \in {} |-> 0] \in [{} -> Nat \ {0}]
  OBVIOUS
<1>3. [id \in {} |-> 0] \in Allotment
  BY <1>2 DEF Allotment
<1>4. Idle \in Task
  BY <1>1, <1>3 DEF Idle, Task, PC
<1> QED BY <1>1, <1>4 DEF Holds, TaskOK, Idle

LEMMA NextRigIs ==
  ASSUME NEW names \in SUBSET Rigs, NEW D
  PROVE  TaskOK(NextRig(names), D) /\ NextRig(names).pc \in {"idle", "resolve"}
<1>1. TaskOK(Idle, D) /\ Idle.pc = "idle" /\ Idle.edit.kind = "none"
  BY IdleIsOK DEF Idle
<1>2. PICK t : t = [Idle EXCEPT !.pc = "resolve", !.names = names]
  OBVIOUS
<1>3. PICK u : u = Idle
  OBVIOUS
<1>4. t.names = names /\ t.pc = "resolve" /\ (names # {} => TaskOK(t, D))
  BY <1>1, <1>2, <1>3 DEF Holds, TaskOK, Task, PC
<1> QED BY <1>1, <1>2, <1>4 DEF NextRig

\* If a session was started, the threads are divided before anything else.
LEMMA NextSessionIs ==
  ASSUME NEW D, NEW task, Holds(task, D)
  PROVE  LET t == NextSession(task) IN
           /\ TaskOK(t, D) /\ t.pc \in {"check", "weigh", "idle", "resolve"}
           /\ task.any => t.pc = "weigh" \/ (t.pc = "check" /\ t.any)
<1>1. task \in Task /\ task.names \in SUBSET Rigs
  BY DEF Holds, TaskOK, Task
<1>2. PICK t : t = NextSession(task)
  OBVIOUS
<1>3. CASE task.todo # {}
  <2>1. t = [task EXCEPT !.pc = "check"]
    BY <1>2, <1>3 DEF NextSession
  <2>2. TaskOK(t, D) /\ t.pc = "check" /\ t.any = task.any
    BY <2>1, <1>1, <1>3 DEF Holds, TaskOK, Task, PC
  <2> QED BY <1>2, <2>2
<1>4. CASE task.todo = {} /\ task.any
  <2>1. t = [task EXCEPT !.pc = "weigh"]
    BY <1>2, <1>4 DEF NextSession
  <2>2. TaskOK(t, D) /\ t.pc = "weigh"
    BY <2>1, <1>1 DEF Holds, TaskOK, Task, PC
  <2> QED BY <1>2, <2>2
<1>5. CASE task.todo = {} /\ ~ task.any
  <2>1. t = IF task.any THEN [task EXCEPT !.pc = "weigh"] ELSE NextRig(task.names)
    BY <1>2, <1>5 DEF NextSession
  <2>2. t = NextRig(task.names)
    BY <1>5, <2>1, Zenon
  <2> QED BY <1>1, <1>2, <1>5, <2>2, NextRigIs
<1> QED BY <1>3, <1>4, <1>5

LEMMA AfterRaiseIs ==
  ASSUME NEW D, NEW task, Holds(task, D)
  PROVE  /\ TaskOK(AfterRaise(task), D)
         /\ AfterRaise(task).pc \in {"idle", "draft", "spawn", "load"}
<1>1. ASSUME NEW pc \in {"draft", "spawn", "load"}, pc # "load" => task.edit.kind # "none"
      PROVE  TaskOK([task EXCEPT !.pc = pc], D) /\ [task EXCEPT !.pc = pc].pc = pc
  BY <1>1 DEF Holds, TaskOK, Task, PC
<1>2. \/ AfterRaise(task) = Idle
      \/ \E pc \in {"draft", "spawn", "load"} :
           /\ AfterRaise(task) = [task EXCEPT !.pc = pc]
           /\ pc # "load" => task.edit.kind # "none"
  BY DEF AfterRaise
<1> QED BY <1>1, <1>2, IdleIsOK

LEMMA MatchingIs ==
  ASSUME TypeInv, NEW ids, NEW task, Holds(task, DOMAIN sessions)
  PROVE  /\ TaskOK(Matching(ids, task), DOMAIN sessions)
         /\ Matching(ids, task).pc \in {"idle", "draft", "spawn", "load", "raise"}
<1>1. PICK found : found = {rigs[id] : id \in ids \intersect Mapped}
  OBVIOUS
<1>2. found \subseteq DOMAIN sessions /\ DOMAIN sessions \subseteq Nat
  BY <1>1, MappedAt
<1>3. CASE found = {}
  BY <1>1, <1>3, AfterRaiseIs DEF Matching
<1>4. CASE found # {}
  <2>1. PICK D : D = DOMAIN sessions
    OBVIOUS
  <2>2. PICK t : t = [task EXCEPT !.pc = "raise", !.held = found]
    OBVIOUS
  <2>3. TaskOK(t, D) /\ t.pc = "raise"
    BY <2>1, <2>2, <1>2 DEF Holds, TaskOK, Task, PC
  <2>4. Matching(ids, task) = t
    BY <1>1, <1>4, <2>2 DEF Matching
  <2> QED BY <2>1, <2>3, <2>4
<1> QED BY <1>3, <1>4

LEMMA AfterAssignIs ==
  ASSUME NEW D, NEW task, Holds(task, D)
  PROVE  /\ TaskOK(AfterAssign(task), D)
         /\ AfterAssign(task).pc \in {"idle", "resolve", "restart"}
<1>1. task.names \in SUBSET Rigs /\ task.edit \in Edit
      /\ (task.edit.kind # "none" => task.edit.rig \in Rigs)
  BY DEF Holds, TaskOK, Task
<1>2. CASE task.edit.kind = "add" /\ task.edit.by = "client"
  <2>1. PICK names \in SUBSET Rigs : names = {task.edit.rig}
    BY <1>1, <1>2
  <2>2. AfterAssign(task) = NextRig(names)
    BY <1>2, <2>1 DEF AfterAssign
  <2> QED BY <2>2, NextRigIs
<1>3. CASE task.edit.kind = "coin" /\ task.edit.by = "client"
  <2>1. PICK t : t = [Idle EXCEPT !.pc = "restart", !.edit = task.edit]
    OBVIOUS
  <2>2. PICK u : u = Idle
    OBVIOUS
  <2>3. TaskOK(u, D)
    BY <2>2, IdleIsOK
  <2>4. t = [u EXCEPT !.pc = "restart", !.edit = task.edit]
    BY <2>1, <2>2
  <2>5. TaskOK(t, D) /\ t.pc = "restart"
    BY <2>3, <2>4, <1>1, <1>3 DEF Holds, TaskOK, Task, PC
  <2>6. AfterAssign(task) = t
    BY <1>3, <2>1 DEF AfterAssign
  <2> QED BY <2>5, <2>6
<1>4. CASE ~ (task.edit.kind \in {"add", "coin"} /\ task.edit.by = "client")
  <2>1. AfterAssign(task) = NextRig(task.names)
    BY <1>4 DEF AfterAssign
  <2> QED BY <2>1, <1>1, NextRigIs
<1> QED BY <1>2, <1>3, <1>4

-----------------------------------------------------------------------------
(* The steps keep the types, and what they do to the tasks.                *)

\* A slot that was at from is at one of to; the others stay where they are.
Moved(h, from, to) ==
  /\ tasks[h].pc = from
  /\ tasks' = [tasks EXCEPT ![h] = tasks'[h]]
  /\ tasks'[h].pc \in to

LEMMA SlotTyped ==
  ASSUME TypeInv, config' \in Config, file' \in Config, sessions' \in Seq(Session),
         DOMAIN sessions \subseteq DOMAIN sessions', MapTyped', order' \subseteq Id,
         requests' \in 0..MaxRequests, HistoryTyped',
         NEW h \in Slots, NEW t, TaskOK(t, DOMAIN sessions'), tasks' = [tasks EXCEPT ![h] = t]
  PROVE  TypeInv' /\ tasks'[h] = t /\ \A from, to : tasks[h].pc = from /\ t.pc \in to =>
                                        Moved(h, from, to)
<1>1. t \in Task
  BY DEF Holds, TaskOK
<1>2. /\ tasks' \in [Slots -> Task] /\ tasks'[h] = t
      /\ \A k \in Slots : k # h => tasks'[k] = tasks[k]
  BY <1>1 DEF TypeInv
<1>3. ASSUME NEW k \in Slots PROVE TaskOK(tasks'[k], DOMAIN sessions')
  <2>1. CASE k = h
    BY <1>2, <2>1
  <2>2. CASE k # h
    <3>1. PICK u : u = tasks[k]
      OBVIOUS
    <3>2. tasks'[k] = u /\ TaskOK(u, DOMAIN sessions)
      BY <1>2, <2>2, <3>1 DEF TypeInv
    <3> QED BY <3>2 DEF Holds, TaskOK
  <2> QED BY <2>1, <2>2
<1>4. TypeInv'
  BY <1>2, <1>3 DEF TypeInv
<1> QED BY <1>2, <1>4 DEF Moved

\* A step that leaves the sessions and the map alone,
LEMMA PlainTyped ==
  ASSUME TypeInv, config' \in Config, file' \in Config,
         UNCHANGED <<rigs, order, sessions, overtaken>>,
         newest' \in Slots, inTurn' \in BOOLEAN, requests' \in 0..MaxRequests,
         NEW h \in Slots, NEW t, TaskOK(t, DOMAIN sessions), tasks' = [tasks EXCEPT ![h] = t]
  PROVE  TypeInv' /\ tasks'[h] = t /\ \A from, to : tasks[h].pc = from /\ t.pc \in to =>
                                        Moved(h, from, to)
<1>1. MapTyped' /\ HistoryTyped' /\ DOMAIN sessions' = DOMAIN sessions
  BY DEF TypeInv, MapTyped, HistoryTyped
<1>2. sessions' \in Seq(Session) /\ order' \subseteq Id /\ TaskOK(t, DOMAIN sessions')
  BY DEF TypeInv
<1> QED BY <1>1, <1>2, SlotTyped

\* and one that leaves everything alone but the task.
LEMMA QuietTyped ==
  ASSUME TypeInv, UNCHANGED <<config, file, managerVars, requests, historyVars>>,
         NEW h \in Slots, NEW t, TaskOK(t, DOMAIN sessions), tasks' = [tasks EXCEPT ![h] = t]
  PROVE  TypeInv' /\ tasks'[h] = t /\ \A from, to : tasks[h].pc = from /\ t.pc \in to =>
                                        Moved(h, from, to)
BY PlainTyped DEF TypeInv, HistoryTyped, managerVars, historyVars

\* Sessions that are changed one by one.
LEMMA ChangedSessionsTyped ==
  ASSUME TypeInv, UNCHANGED rigs, sessions' = [i \in DOMAIN sessions |-> sessions'[i]],
         \A i \in DOMAIN sessions : sessions'[i] \in Session /\ sessions'[i].id = sessions[i].id
  PROVE  sessions' \in Seq(Session) /\ DOMAIN sessions' = DOMAIN sessions /\ MapTyped'
<1>1. /\ Len(sessions) \in Nat /\ DOMAIN sessions = 1..Len(sessions)
  BY DEF TypeInv
<1>2. sessions' \in [1..Len(sessions) -> Session]
  BY <1>1
<1>3. sessions' \in Seq(Session) /\ Len(sessions') = Len(sessions)
  BY <1>1, <1>2
<1>4. \A id \in Id : rigs[id] # 0 => rigs[id] \in DOMAIN sessions
  BY <1>1 DEF TypeInv, MapTyped
<1> QED BY <1>1, <1>3, <1>4 DEF TypeInv, MapTyped

LEMMA OneSessionTyped ==
  ASSUME TypeInv, UNCHANGED rigs, NEW i \in DOMAIN sessions, NEW v \in Session,
         v.id = sessions[i].id, sessions' = [sessions EXCEPT ![i] = v]
  PROVE  /\ sessions' \in Seq(Session) /\ DOMAIN sessions' = DOMAIN sessions /\ MapTyped'
         /\ sessions' = [j \in DOMAIN sessions |-> IF j = i THEN v ELSE sessions[j]]
<1>1. sessions' = [j \in DOMAIN sessions |-> IF j = i THEN v ELSE sessions[j]]
  BY DEF TypeInv
<1>2. \A j \in DOMAIN sessions : sessions[j] \in Session
  BY DEF TypeInv
<1>3. \A j \in DOMAIN sessions : sessions'[j] \in Session /\ sessions'[j].id = sessions[j].id
  BY <1>1, <1>2
<1> QED BY <1>1, <1>3, ChangedSessionsTyped

-----------------------------------------------------------------------------
(* Requests.                                                               *)

LEMMA RequestTyped ==
  ASSUME TypeInv, NEW h \in Handlers, Request(h)
  PROVE  requests' \in 0..MaxRequests /\ tasks[h].pc = "idle" /\ h \in Slots /\ h # Sampler
BY BoundAssumption, SlotsAssumption DEF Request, TypeInv, Slots

\* Requests that have the handler do something,
Asks(h) ==
  \/ \E names \in (SUBSET Rigs) \ {{}} : StartRigs(h, names)
  \/ \E id \in Id : StartSession(h, id)
  \/ \E ids : StopSessions(h, ids)
  \/ \E e \in Edits : EditConfig(h, e)
  \/ Reload(h)

LEMMA AsksMoves ==
  ASSUME TypeInv, NEW h \in Handlers, Asks(h)
  PROVE  /\ TypeInv' /\ h \in Slots
         /\ Moved(h, "idle", {"resolve", "check", "idle", "raise", "draft", "spawn", "load"})
         /\ tasks'[h].pc = "check" => ~ tasks'[h].any
         /\ UNCHANGED <<config, file, managerVars, historyVars>>
<1>1. /\ Request(h) /\ UNCHANGED <<config, file, managerVars, historyVars>>
  BY DEF Asks, StartRigs, StartSession, StopSessions, EditConfig, Reload
<1>2. requests' \in 0..MaxRequests /\ tasks[h].pc = "idle" /\ h \in Slots
  BY <1>1, RequestTyped
<1>3. PICK i : i = Idle
  OBVIOUS
<1>4. TaskOK(i, DOMAIN sessions) /\ i.edit.kind = "none" /\ i.held = {} /\ i.seen = {}
      /\ i.any = FALSE
  BY <1>3, IdleIsOK DEF Idle
<1>5. PICK t : /\ tasks' = [tasks EXCEPT ![h] = t] /\ TaskOK(t, DOMAIN sessions)
               /\ t.pc \in {"resolve", "check", "idle", "raise", "draft", "spawn", "load"}
               /\ t.pc = "check" => ~ t.any
  <2>1. ASSUME NEW names \in (SUBSET Rigs) \ {{}}, StartRigs(h, names)
        PROVE  \E t : /\ tasks' = [tasks EXCEPT ![h] = t] /\ TaskOK(t, DOMAIN sessions)
                      /\ t.pc = "resolve"
    <3>1. PICK t : t = [i EXCEPT !.pc = "resolve", !.names = names]
      OBVIOUS
    <3>2. names \in SUBSET Rigs /\ names # {}
      BY <2>1
    <3>3. TaskOK(t, DOMAIN sessions) /\ t.pc = "resolve"
      BY <3>1, <3>2, <1>4 DEF Holds, TaskOK, Task, PC
    <3> QED BY <2>1, <3>1, <3>3, <1>3 DEF StartRigs, Begin
  <2>2. ASSUME NEW id \in Id, StartSession(h, id)
        PROVE  \E t : /\ tasks' = [tasks EXCEPT ![h] = t] /\ TaskOK(t, DOMAIN sessions)
                      /\ t.pc = "check" /\ t.any = FALSE
    <3>1. PICK todo \in SUBSET Id : todo = {id}
      OBVIOUS
    <3>2. PICK t : t = [i EXCEPT !.pc = "check", !.todo = todo]
      OBVIOUS
    <3>3. todo # {} /\ TaskOK(t, DOMAIN sessions) /\ t.pc = "check" /\ t.any = FALSE
      BY <3>1, <3>2, <1>4 DEF Holds, TaskOK, Task, PC
    <3> QED BY <2>2, <3>1, <3>2, <3>3, <1>3 DEF StartSession, Begin
  <2>3. ASSUME NEW ids, StopSessions(h, ids)
        PROVE  \E t : /\ tasks' = [tasks EXCEPT ![h] = t] /\ TaskOK(t, DOMAIN sessions)
                      /\ t.pc \in {"idle", "draft", "spawn", "load", "raise"}
    BY <2>3, <1>3, <1>4, MatchingIs DEF StopSessions, Begin, TaskOK
  <2>4. ASSUME NEW e \in Edits, EditConfig(h, e)
        PROVE  \E t : /\ tasks' = [tasks EXCEPT ![h] = t] /\ TaskOK(t, DOMAIN sessions)
                      /\ t.pc \in {"idle", "draft", "spawn", "load", "raise"}
    <3>1. PICK t : t = [i EXCEPT !.pc = "draft", !.edit = e]
      OBVIOUS
    <3>2. e \in Edit /\ e.kind # "none" /\ e.rig \in Rigs
      BY DEF Edits, Edit
    <3>3. TaskOK(t, DOMAIN sessions) /\ t.pc = "draft"
      BY <3>1, <3>2, <1>4 DEF Holds, TaskOK, Task, PC
    <3>4. \/ tasks' = [tasks EXCEPT ![h] = t]
          \/ tasks' = [tasks EXCEPT ![h] = Matching(SessionsOf(e.rig), t)]
      BY <2>4, <3>1, <1>3 DEF EditConfig, Begin
    <3> QED BY <3>3, <3>4, MatchingIs DEF TaskOK
  <2>5. ASSUME Reload(h)
        PROVE  \E t : /\ tasks' = [tasks EXCEPT ![h] = t] /\ TaskOK(t, DOMAIN sessions)
                      /\ t.pc = "load"
    <3>1. PICK u : u = tasks[h]
      OBVIOUS
    <3>2. PICK t : t = [u EXCEPT !.pc = "load"]
      OBVIOUS
    <3>3. TaskOK(u, DOMAIN sessions)
      BY <3>1, <1>2, SlotAt
    <3>4. TaskOK(t, DOMAIN sessions) /\ t.pc = "load"
      BY <3>2, <3>3 DEF Holds, TaskOK, Task, PC
    <3> QED BY <2>5, <3>1, <3>2, <3>4 DEF Reload, Goto
  <2> QED BY <2>1, <2>2, <2>3, <2>4, <2>5 DEF Asks
<1>6. config' \in Config /\ file' \in Config /\ newest' \in Slots /\ inTurn' \in BOOLEAN
      /\ UNCHANGED <<rigs, order, sessions, overtaken>>
  BY <1>1 DEF TypeInv, HistoryTyped, managerVars, historyVars
<1> QED BY <1>1, <1>2, <1>5, <1>6, PlainTyped

\* and what changes sessions and no task: sessions go on by themselves, are stopped,
\* or get the threads that were asked for.
Goes ==
  \/ \E i \in DOMAIN sessions : Poll(i) \/ End(i)
  \/ \E h \in Handlers : StopAll(h)
  \/ \E h \in Handlers, id \in Id : SetThreads(h, id, Budget)

\* A session goes on: a flag stays raised, what ended has ended, and what was made is
\* still to be spawned.
Onward(s, v) ==
  /\ v \in Session /\ v.id = s.id
  /\ s.stop => v.stop
  /\ s.state = "ended" => v.state = "ended"
  /\ s.state = "made" => v.state = "made"

\* Meanwhile nobody's threads change but his who asks.
Gentle(s, v) == Onward(s, v) /\ (~ v.asked => ~ s.asked /\ v.threads = s.threads)

AllOnward ==
  /\ sessions' = [i \in DOMAIN sessions |-> sessions'[i]]
  /\ \A i \in DOMAIN sessions : Onward(sessions[i], sessions'[i])

AllGentle == AllOnward /\ \A i \in DOMAIN sessions : Gentle(sessions[i], sessions'[i])

LEMMA StaysGentle ==
  ASSUME TypeInv, UNCHANGED sessions
  PROVE  AllGentle
BY MappedAt DEF AllGentle, AllOnward, Gentle, Onward, Session, TypeInv

LEMMA OneIsGentle ==
  ASSUME TypeInv, NEW i \in DOMAIN sessions, NEW v, Gentle(sessions[i], v),
         sessions' = [sessions EXCEPT ![i] = v]
  PROVE  AllGentle
<1>1. sessions' = [j \in DOMAIN sessions |-> IF j = i THEN v ELSE sessions[j]]
  BY DEF TypeInv
<1>2. \A j \in DOMAIN sessions : Gentle(sessions[j], sessions[j])
  BY MappedAt DEF Gentle, Onward, Session
<1> QED BY <1>1, <1>2 DEF AllGentle, AllOnward, Gentle

LEMMA GoesTyped ==
  ASSUME TypeInv, Goes
  PROVE  /\ TypeInv' /\ AllGentle
         /\ UNCHANGED <<config, file, rigs, order, tasks, historyVars>>
<1>1. /\ UNCHANGED <<config, file, rigs, order, tasks, historyVars>>
      /\ requests' \in 0..MaxRequests
  BY RequestTyped DEF Goes, Poll, End, StopAll, SetThreads, TypeInv
<1>2. AllGentle
  <2>1. ASSUME NEW i \in DOMAIN sessions, Poll(i) \/ End(i) PROVE AllGentle
    <3>1. PICK s \in Session : s = sessions[i]
      BY DEF TypeInv
    <3>2. PICK x \in {"running", "ended"} :
            /\ sessions' = [sessions EXCEPT ![i] = [s EXCEPT !.state = x]]
            /\ s.state \in {"new", "running"}
      BY <2>1, <3>1 DEF Poll, End
    <3>3. PICK v : v = [s EXCEPT !.state = x]
      OBVIOUS
    <3>4. Gentle(s, v)
      BY <3>2, <3>3 DEF Session, Gentle, Onward
    <3> QED BY <3>1, <3>2, <3>3, <3>4, OneIsGentle
  <2>2. ASSUME NEW h \in Handlers, StopAll(h) PROVE AllGentle
    <3>1. ASSUME NEW i \in DOMAIN sessions PROVE Gentle(sessions[i], sessions'[i])
      <4>1. PICK s \in Session : s = sessions[i]
        BY DEF TypeInv
      <4>2. PICK v : v = [s EXCEPT !.stop = TRUE]
        OBVIOUS
      <4>3. Gentle(s, v) /\ Gentle(s, s)
        BY <4>2 DEF Gentle, Onward, Session
      <4>4. sessions'[i] = s \/ sessions'[i] = v
        BY <2>2, <4>1, <4>2 DEF StopAll
      <4> QED BY <4>1, <4>3, <4>4
    <3>2. sessions' = [i \in DOMAIN sessions |-> sessions'[i]]
      BY <2>2 DEF StopAll
    <3> QED BY <3>1, <3>2 DEF AllGentle, AllOnward, Gentle
  <2>3. ASSUME NEW h \in Handlers, NEW id \in Id, SetThreads(h, id, Budget) PROVE AllGentle
    <3>1. PICK i \in DOMAIN sessions : i = rigs[id]
      BY <2>3, MappedAt DEF SetThreads, Mapped
    <3>2. PICK s \in Session : s = sessions[i]
      BY DEF TypeInv
    <3>3. PICK v : v = [s EXCEPT !.threads = Budget, !.asked = TRUE]
      OBVIOUS
    <3>4. Gentle(s, v)
      BY <3>3, PlanAssumption DEF Gentle, Onward, Session
    <3>5. sessions' = [sessions EXCEPT ![i] = v]
      BY <2>3, <3>1, <3>2, <3>3 DEF SetThreads
    <3> QED BY <3>2, <3>4, <3>5, OneIsGentle
  <2> QED BY <2>1, <2>2, <2>3 DEF Goes
<1>3. sessions' \in Seq(Session) /\ DOMAIN sessions' = DOMAIN sessions /\ MapTyped'
  BY <1>1, <1>2, ChangedSessionsTyped DEF AllGentle, AllOnward, Onward
<1>4. HistoryTyped'
  BY <1>1, <1>3 DEF TypeInv, HistoryTyped, historyVars
<1>5. TypeInv'
  BY <1>1, <1>3, <1>4 DEF TypeInv
<1> QED BY <1>1, <1>2, <1>5

-----------------------------------------------------------------------------
(* The steps of an operation.                                              *)

\* The steps that are about the task alone,
Thinks(h) ==
  Resolve(h) \/ Check(h) \/ Draft(h) \/ Signal(h) \/ Load(h) \/ Prune(h) \/ RestartLater(h)
    \/ (h = Sampler /\ Sample)

\* where a start is on its way to dividing the threads once it has started a session, and
\* has seen of what it will replace only what is stopped or has ended.
Done(s) == s.stop \/ s.state = "ended"

Towards(t) == t.any /\ t.pc \in {"check", "insert"}

LEMMA ThinksMoves ==
  ASSUME TypeInv, NEW h \in Slots, Thinks(h)
  PROVE  /\ TypeInv' /\ UNCHANGED <<config, file, managerVars, requests, historyVars>>
         /\ tasks' = [tasks EXCEPT ![h] = tasks'[h]]
         /\ \/ /\ tasks[h].pc \in {"resolve", "check"}
               /\ tasks'[h].pc \in {"check", "weigh", "idle", "resolve"}
               /\ Towards(tasks[h]) => Towards(tasks'[h]) \/ tasks'[h].pc = "weigh"
            \/ /\ tasks[h].pc = "check" /\ tasks'[h].pc = "insert"
               /\ Towards(tasks[h]) => Towards(tasks'[h])
               /\ \A i \in tasks'[h].seen : i \in DOMAIN sessions /\ Done(sessions[i])
            \/ /\ tasks[h].pc \in {"draft", "signal", "load", "restart"}
               /\ tasks'[h].pc \in {"truncate", "swap", "idle", "draft", "spawn", "load", "raise"}
            \/ /\ tasks[h].pc = "prune" \/ (h = Sampler /\ tasks[h].pc = "idle")
               /\ tasks'[h].pc = "retain"
<1>1. UNCHANGED <<config, file, managerVars, requests, historyVars>>
  BY DEF Thinks, Resolve, Check, Draft, Signal, Load, Prune, RestartLater, Sample
<1>2. PICK u : u = tasks[h]
  OBVIOUS
<1>3. PICK D : D = DOMAIN sessions
  OBVIOUS
<1>4. u \in Task /\ TaskOK(u, D) /\ tasks[h].pc = u.pc /\ config \in Config /\ file \in Config
  BY <1>2, <1>3, SlotAt DEF TypeInv
<1>5. ASSUME NEW t, TaskOK(t, D), tasks' = [tasks EXCEPT ![h] = t]
      PROVE  TypeInv' /\ tasks'[h] = t /\ tasks' = [tasks EXCEPT ![h] = tasks'[h]]
  BY <1>1, <1>3, <1>5, QuietTyped
<1>6. CASE Resolve(h)
  <2>1. u.pc = "resolve" /\ u.names # {} /\ u.names \subseteq Rigs
    BY <1>2, <1>4, <1>6 DEF Resolve, TaskOK, Task
  <2>2. PICK r \in u.names : r = CHOOSE k \in u.names : TRUE
    BY <2>1
  <2>3. PICK ids \in SUBSET Id : ids = IdsOf(r, config[r])
    BY <2>1, <1>4, IdsTyped DEF Config
  <2>4. PICK v : v = [u EXCEPT !.names = @ \ {r}, !.todo = ids]
    OBVIOUS
  <2>5. Holds(v, D)
    BY <1>4, <2>1, <2>4 DEF Holds, TaskOK, Task
  <2>6. tasks' = [tasks EXCEPT ![h] = NextSession(v)]
    BY <1>2, <1>6, <2>2, <2>3, <2>4 DEF Resolve, Begin
  <2>7. PICK t : t = NextSession(v)
    OBVIOUS
  <2>8. TaskOK(t, D) /\ t.pc \in {"check", "weigh", "idle", "resolve"}
    BY <2>5, <2>7, NextSessionIs
  <2> QED BY <1>2, <1>1, <1>5, <2>1, <2>6, <2>7, <2>8 DEF Towards
<1>7. CASE Check(h)
  <2>1. u.pc = "check" /\ u.todo \subseteq Id
    BY <1>2, <1>4, <1>7 DEF Check, Task
  <2>2. PICK id : id = CHOOSE k \in u.todo : TRUE
    OBVIOUS
  <2>3. PICK v : v = [u EXCEPT !.todo = @ \ {id}]
    OBVIOUS
  <2>4. Holds(v, D) /\ v.any = u.any
    BY <1>4, <2>1, <2>3 DEF Holds, TaskOK, Task
  <2>5. CASE AlreadyRunning(id)
    <3>1. tasks' = [tasks EXCEPT ![h] = NextSession(v)]
      BY <1>2, <1>7, <2>2, <2>3, <2>5 DEF Check, Begin
    <3>2. PICK t : t = NextSession(v)
      OBVIOUS
    <3>3. /\ TaskOK(t, D) /\ t.pc \in {"check", "weigh", "idle", "resolve"}
          /\ v.any => t.pc = "weigh" \/ (t.pc = "check" /\ t.any)
      BY <2>4, <3>2, NextSessionIs
    <3> QED BY <1>2, <1>1, <1>5, <2>1, <2>4, <3>1, <3>2, <3>3 DEF Towards
  <2>6. CASE ~ AlreadyRunning(id)
    <3>1. u.todo # {} /\ id \in Id
      BY <2>1, <2>2, <1>4 DEF TaskOK
    <3>2. PICK ids \in SUBSET Id : ids = {id}
      BY <3>1
    <3>3. PICK seen : seen = {i \in {rigs[id]} \ {0} : Polled(i)}
      OBVIOUS
    <3>4. \A i \in seen : i \in D /\ Done(sessions[i])
      <4>1. ASSUME NEW i \in seen PROVE i \in D /\ Done(sessions[i])
        <5>1. i = rigs[id] /\ id \in Mapped /\ sessions[i].state \notin {"made", "new"}
          BY <3>1, <3>3 DEF Mapped, Polled
        <5>2. i \in D /\ sessions[i] \in Session
          BY <5>1, <1>3, MappedAt
        <5>3. sessions[i].stop \/ sessions[i].state # "running"
          BY <2>6, <5>1 DEF AlreadyRunning, At, Running, Mapped
        <5> QED BY <5>1, <5>2, <5>3 DEF Session, Done
      <4> QED BY <4>1
    <3>5. PICK t : t = [v EXCEPT !.pc = "insert", !.ids = ids, !.seen = seen]
      OBVIOUS
    <3>6. seen \subseteq Nat /\ seen \subseteq D
      BY <3>4, <1>3, MappedAt
    <3>7. TaskOK(t, D) /\ t.pc = "insert" /\ t.seen = seen /\ t.any = u.any
      BY <2>4, <3>5, <3>6 DEF Holds, TaskOK, Task, PC
    <3>8. tasks' = [tasks EXCEPT ![h] = t]
      BY <1>2, <1>7, <2>2, <2>3, <2>6, <3>2, <3>3, <3>5 DEF Check, Begin
    <3> QED BY <1>1, <1>2, <1>3, <1>5, <2>1, <3>4, <3>7, <3>8 DEF Towards
  <2> QED BY <2>5, <2>6
<1>8. CASE Draft(h) \/ Signal(h) \/ Load(h) \/ RestartLater(h)
  <2>1. PICK t : /\ tasks' = [tasks EXCEPT ![h] = t] /\ TaskOK(t, D)
                 /\ t.pc \in {"truncate", "swap", "idle", "draft", "spawn", "load", "raise"}
    <3>1. CASE Draft(h)
      <4>1. u.pc = "draft" /\ u.edit \in Edit /\ u.edit.kind # "none" /\ u.edit.rig \in Rigs
        BY <1>2, <1>4, <3>1 DEF Draft, TaskOK, Holds, Task
      <4>2. PICK draft \in Config :
              draft = Changed(u.edit, IF u.edit.by = "client" THEN config ELSE file)
        BY <1>4, <4>1, ChangedTyped
      <4>3. PICK t : t = [u EXCEPT !.draft = draft, !.pc = "truncate"]
        OBVIOUS
      <4>4. TaskOK(t, D) /\ t.pc = "truncate"
        BY <1>4, <4>3 DEF Holds, TaskOK, Task, PC
      <4>5. tasks' = [tasks EXCEPT ![h] = t] \/ tasks' = [tasks EXCEPT ![h] = Idle]
        BY <1>2, <3>1, <4>2, <4>3 DEF Draft, Begin
      <4> QED BY <4>4, <4>5, IdleIsOK
    <3>2. CASE Signal(h) \/ RestartLater(h)
      <4>1. PICK ids : tasks' = [tasks EXCEPT ![h] = Matching(ids, u)]
        BY <1>2, <3>2 DEF Signal, RestartLater, Begin
      <4> QED BY <1>3, <1>4, <4>1, MatchingIs DEF TaskOK
    <3>3. CASE Load(h)
      <4>1. PICK t : t = [u EXCEPT !.draft = file, !.pc = "swap"]
        OBVIOUS
      <4>2. TaskOK(t, D) /\ t.pc = "swap"
        BY <1>4, <4>1 DEF Holds, TaskOK, Task, PC
      <4> QED BY <1>2, <3>3, <4>1, <4>2 DEF Load, Begin
    <3> QED BY <1>8, <3>1, <3>2, <3>3
  <2>2. u.pc \in {"draft", "signal", "load", "restart"}
    BY <1>2, <1>8 DEF Draft, Signal, Load, RestartLater
  <2> QED BY <1>1, <1>2, <1>5, <2>1, <2>2
<1>9. CASE Prune(h) \/ (h = Sampler /\ Sample)
  <2>1. PICK ids \in SUBSET Id : ids = Configured(config)
    BY <1>4, IdsTyped
  <2>2. PICK v : /\ v \in {u, Idle} /\ tasks' = [tasks EXCEPT ![h] = [v EXCEPT !.ids = ids, !.pc = "retain"]]
    BY <1>2, <1>9, <2>1 DEF Prune, Sample, Begin
  <2>3. Holds(v, D)
    BY <1>4, <2>2, IdleIsOK DEF TaskOK
  <2>4. PICK t : t = [v EXCEPT !.ids = ids, !.pc = "retain"]
    OBVIOUS
  <2>5. TaskOK(t, D) /\ t.pc = "retain"
    BY <2>3, <2>4 DEF Holds, TaskOK, Task, PC
  <2>6. u.pc = "prune" \/ (h = Sampler /\ u.pc = "idle")
    BY <1>2, <1>9 DEF Prune, Sample
  <2> QED BY <1>1, <1>2, <1>5, <2>2, <2>4, <2>5, <2>6
<1> QED BY <1>6, <1>7, <1>8, <1>9 DEF Thinks

\* The steps that divide the threads.
LEMMA WeighMoves ==
  ASSUME TypeInv, NEW h \in Slots, Weigh(h)
  PROVE  /\ TypeInv' /\ Moved(h, "weigh", {"allot"}) /\ tasks'[h].active = Active
         /\ UNCHANGED <<config, file, managerVars, requests, overtaken, inTurn>>
         /\ newest' = h
<1>1. UNCHANGED <<config, file, managerVars, requests, overtaken, inTurn>> /\ newest' = h
  BY DEF Weigh
<1>2. PICK u : u = tasks[h]
  OBVIOUS
<1>3. PICK active \in SUBSET Rigs : active = Active
  BY DEF Active, Mapped, Id
<1>4. PICK t : t = [u EXCEPT !.active = active, !.pc = "allot"]
  OBVIOUS
<1>5. TaskOK(t, DOMAIN sessions) /\ t.pc = "allot" /\ t.active = active
  BY <1>2, <1>4, SlotAt DEF Holds, TaskOK, Task, PC
<1>6. tasks' = [tasks EXCEPT ![h] = t] /\ tasks[h].pc = "weigh"
  BY <1>2, <1>3, <1>4 DEF Weigh, Begin
<1> QED BY <1>1, <1>3, <1>5, <1>6, PlainTyped DEF TypeInv, HistoryTyped, managerVars

LEMMA AllotMoves ==
  ASSUME TypeInv, NEW h \in Slots, Allot(h)
  PROVE  /\ TypeInv' /\ Moved(h, "allot", {"assign"})
         /\ tasks'[h].allotted = Division(tasks[h].active)
         /\ UNCHANGED <<config, file, managerVars, requests, historyVars>>
<1>1. UNCHANGED <<config, file, managerVars, requests, historyVars>>
  BY DEF Allot
<1>2. PICK u : u = tasks[h]
  OBVIOUS
<1>3. PICK allotted \in Allotment : allotted = Division(u.active)
  BY <1>2, SlotAt, DivisionTyped DEF TypeInv
<1>4. PICK t : t = [u EXCEPT !.active = {}, !.pc = "assign", !.allotted = allotted]
  OBVIOUS
<1>5. TaskOK(t, DOMAIN sessions) /\ t.pc = "assign" /\ t.allotted = allotted
  BY <1>2, <1>4, SlotAt DEF Holds, TaskOK, Task, PC
<1>6. tasks' = [tasks EXCEPT ![h] = t] /\ tasks[h].pc = "allot"
  BY <1>2, <1>3, <1>4 DEF Allot, Begin
<1> QED BY <1>1, <1>2, <1>3, <1>5, <1>6, QuietTyped

LEMMA AssignMoves ==
  ASSUME TypeInv, NEW h \in Slots, Assign(h)
  PROVE  /\ TypeInv' /\ Moved(h, "assign", {"idle", "resolve", "restart"}) /\ AllOnward
         /\ \A i \in DOMAIN sessions :
              /\ sessions'[i].stop = sessions[i].stop
              /\ (\E id \in DOMAIN tasks[h].allotted : rigs[id] = i) =>
                   sessions'[i].threads = tasks[h].allotted[sessions[i].id]
         /\ UNCHANGED <<config, file, rigs, order, requests, overtaken>>
<1>1. UNCHANGED <<config, file, rigs, order, requests, overtaken>> /\ tasks[h].pc = "assign"
  BY DEF Assign
<1>2. PICK u : u = tasks[h]
  OBVIOUS
<1>3. PICK S \in SUBSET Id : u.allotted \in [S -> Nat \ {0}]
  BY <1>2, SlotAt DEF Task, Allotment
<1>4. ASSUME NEW i \in DOMAIN sessions
      PROVE  /\ Onward(sessions[i], sessions'[i])
             /\ sessions'[i].stop = sessions[i].stop
             /\ (\E id \in DOMAIN u.allotted : rigs[id] = i) =>
                   sessions'[i].threads = u.allotted[sessions[i].id]
  <2>1. PICK s \in Session : s = sessions[i]
    BY MappedAt
  <2>2. CASE \E id \in DOMAIN u.allotted : rigs[id] = i
    <3>1. PICK id \in S : rigs[id] = i
      BY <1>3, <2>2
    <3>2. i # 0
      BY MappedAt
    <3>3. s.id = id
      BY <2>1, <3>1, <3>2 DEF TypeInv, MapTyped
    <3>4. PICK n \in Nat \ {0} : n = u.allotted[id]
      BY <1>3, <3>1
    <3>5. PICK v : v = [s EXCEPT !.threads = n, !.asked = FALSE]
      OBVIOUS
    <3>6. Onward(s, v) /\ v.stop = s.stop /\ v.threads = n
      BY <3>5 DEF Onward, Session
    <3>7. sessions'[i] = v
      BY <1>2, <2>1, <2>2, <3>3, <3>4, <3>5 DEF Assign
    <3> QED BY <2>1, <3>3, <3>4, <3>6, <3>7
  <2>3. CASE ~ \E id \in DOMAIN u.allotted : rigs[id] = i
    <3>1. sessions'[i] = s
      BY <1>2, <2>1, <2>3 DEF Assign
    <3> QED BY <2>1, <2>3, <3>1 DEF Onward, Session
  <2> QED BY <2>2, <2>3
<1>5. AllOnward
  BY <1>4 DEF AllOnward, Assign
<1>6. sessions' \in Seq(Session) /\ DOMAIN sessions' = DOMAIN sessions /\ MapTyped'
  BY <1>1, <1>5, ChangedSessionsTyped DEF AllOnward, Onward
<1>7. PICK t : t = AfterAssign(u)
  OBVIOUS
<1>8. TaskOK(t, DOMAIN sessions) /\ t.pc \in {"idle", "resolve", "restart"}
  BY <1>2, <1>7, SlotAt, AfterAssignIs
<1>9. tasks' = [tasks EXCEPT ![h] = t]
  BY <1>2, <1>7 DEF Assign, Begin
<1>10. HistoryTyped'
  <2>1. newest' \in {Sampler, newest} /\ inTurn' \in BOOLEAN
    BY DEF Assign
  <2> QED BY <1>1, <1>6, <2>1 DEF TypeInv, HistoryTyped, Slots
<1>11. TypeInv' /\ Moved(h, "assign", {"idle", "resolve", "restart"})
  BY <1>1, <1>6, <1>8, <1>9, <1>10, SlotTyped DEF TypeInv
<1> QED BY <1>1, <1>2, <1>4, <1>5, <1>11

\* The steps that write the file or take over the configuration.
LEMMA SaveMoves ==
  ASSUME TypeInv, NEW h \in Slots, Truncate(h) \/ Write(h) \/ Swap(h)
  PROVE  /\ TypeInv' /\ UNCHANGED <<managerVars, requests, historyVars>>
         /\ \/ Moved(h, "swap", {"prune"})
            \/ /\ UNCHANGED config
               /\ \E from \in {"truncate", "write"} :
                    Moved(h, from, {"write", "swap", "signal", "load"})
<1>1. PICK u : u = tasks[h]
  OBVIOUS
<1>2. TaskOK(u, DOMAIN sessions) /\ u \in Task /\ u.draft \in Config /\ Empty \in Config
  BY <1>1, SlotAt DEF Empty, Config
<1>3. UNCHANGED <<managerVars, requests, historyVars>>
      /\ config' \in Config /\ file' \in Config /\ (~ Swap(h) => UNCHANGED config)
  BY <1>1, <1>2 DEF Truncate, Write, Swap, TypeInv
<1>4. ASSUME NEW t, TaskOK(t, DOMAIN sessions), tasks' = [tasks EXCEPT ![h] = t]
      PROVE  TypeInv' /\ \A from, to : tasks[h].pc = from /\ t.pc \in to => Moved(h, from, to)
  BY <1>3, <1>4, PlainTyped DEF TypeInv, HistoryTyped, managerVars, historyVars
<1>5. CASE Swap(h)
  <2>1. PICK t : t = [u EXCEPT !.draft = Empty, !.pc = "prune"]
    OBVIOUS
  <2>2. TaskOK(t, DOMAIN sessions) /\ t.pc = "prune"
    BY <1>2, <2>1 DEF Holds, TaskOK, Task, PC
  <2>3. tasks' = [tasks EXCEPT ![h] = t] /\ tasks[h].pc = "swap"
    BY <1>1, <1>5, <2>1 DEF Swap, Begin
  <2> QED BY <1>3, <1>4, <2>2, <2>3
<1>6. CASE Truncate(h) \/ Write(h)
  <2>1. PICK pc \in {"write", "swap", "signal", "load"} :
          Goto(h, pc) /\ u.pc \in {"truncate", "write"} /\ UNCHANGED config
    <3>1. AfterWrite(u.edit) \in {"swap", "signal", "load"}
      BY DEF AfterWrite
    <3> QED BY <1>1, <1>6, <3>1 DEF Truncate, Write
  <2>2. PICK t : t = [u EXCEPT !.pc = pc]
    OBVIOUS
  <2>3. TaskOK(t, DOMAIN sessions) /\ t.pc = pc
    BY <1>2, <2>2 DEF Holds, TaskOK, Task, PC
  <2>4. tasks' = [tasks EXCEPT ![h] = t]
    BY <1>1, <2>1, <2>2 DEF Goto
  <2> QED BY <1>1, <1>3, <1>4, <2>1, <2>3, <2>4
<1> QED BY <1>5, <1>6

\* A flag is raised.
LEMMA RaiseMoves ==
  ASSUME TypeInv, NEW h \in Slots, Raise(h)
  PROVE  /\ TypeInv' /\ Moved(h, "raise", {"raise", "idle", "draft", "spawn", "load"})
         /\ AllGentle /\ UNCHANGED <<config, file, rigs, order, requests, historyVars>>
<1>1. UNCHANGED <<config, file, rigs, order, requests, historyVars>> /\ tasks[h].pc = "raise"
  BY DEF Raise
<1>2. PICK u : u = tasks[h]
  OBVIOUS
<1>3. /\ u \in Task /\ Holds(u, DOMAIN sessions) /\ u.pc = "raise"
      /\ u.held \subseteq DOMAIN sessions
  BY <1>1, <1>2, SlotAt
<1>4. PICK i \in u.held :
        /\ sessions' = [sessions EXCEPT ![i].stop = TRUE]
        /\ LET rest == [u EXCEPT !.held = @ \ {i}] IN
             tasks' = [tasks EXCEPT ![h] = IF rest.held = {} THEN AfterRaise(rest) ELSE rest]
  BY <1>2 DEF Raise, Begin
<1>5. PICK s \in Session : s = sessions[i]
  BY <1>3, MappedAt
<1>6. PICK w : w = [s EXCEPT !.stop = TRUE]
  OBVIOUS
<1>7. Gentle(s, w) /\ w \in Session /\ w.id = s.id
  BY <1>6 DEF Gentle, Onward, Session
<1>8. sessions' = [sessions EXCEPT ![i] = w]
  BY <1>4, <1>5, <1>6
<1>9. /\ AllGentle
      /\ sessions' \in Seq(Session) /\ DOMAIN sessions' = DOMAIN sessions /\ MapTyped'
  BY <1>1, <1>3, <1>5, <1>7, <1>8, OneIsGentle, OneSessionTyped
<1>10. PICK v : /\ Holds(v, DOMAIN sessions) /\ v.pc = "raise"
                 /\ tasks' = [tasks EXCEPT ![h] = IF v.held = {} THEN AfterRaise(v) ELSE v]
  <2>1. PICK v : v = [u EXCEPT !.held = @ \ {i}]
    OBVIOUS
  <2>2. Holds(v, DOMAIN sessions) /\ v.pc = "raise"
    BY <1>3, <2>1 DEF Holds, Task
  <2> QED BY <1>4, <2>1, <2>2
<1>11. PICK t : t = IF v.held = {} THEN AfterRaise(v) ELSE v
  OBVIOUS
<1>12. TaskOK(t, DOMAIN sessions) /\ t.pc \in {"raise", "idle", "draft", "spawn", "load"}
  <2>1. CASE v.held = {}
    BY <1>10, <1>11, <2>1, AfterRaiseIs
  <2>2. CASE v.held # {}
    BY <1>10, <1>11, <2>2 DEF TaskOK
  <2> QED BY <2>1, <2>2
<1>13. HistoryTyped'
  BY <1>1, <1>9 DEF TypeInv, HistoryTyped, historyVars
<1>14. TypeInv' /\ Moved(h, "raise", {"raise", "idle", "draft", "spawn", "load"})
  BY <1>1, <1>9, <1>10, <1>11, <1>12, <1>13, SlotTyped DEF TypeInv
<1> QED BY <1>1, <1>9, <1>14

\* A session is made, and spawned.
LEMMA InsertMoves ==
  ASSUME TypeInv, NEW h \in Slots, Insert(h)
  PROVE  /\ TypeInv' /\ Moved(h, "insert", {"enlist"})
         /\ UNCHANGED <<config, file, order, requests, newest, inTurn>>
         /\ \E id \in tasks[h].ids, m \in Session :
              /\ id \in Id /\ m.id = id /\ m.state = "made" /\ ~ m.stop
              /\ sessions' = Append(sessions, m)
              /\ rigs' = [rigs EXCEPT ![id] = Len(sessions) + 1]
              /\ overtaken' = overtaken \union ({rigs[id]} \ (tasks[h].seen \union {0}))
              /\ tasks'[h].ids = tasks[h].ids /\ tasks'[h].held = {Len(sessions) + 1}
<1>1. UNCHANGED <<config, file, order, requests, newest, inTurn>> /\ tasks[h].pc = "insert"
  BY DEF Insert
<1>2. PICK u : u = tasks[h]
  OBVIOUS
<1>3. u \in Task /\ Holds(u, DOMAIN sessions) /\ u.ids \subseteq Id
  BY <1>2, SlotAt
<1>4. PICK id \in u.ids :
        /\ sessions' = Append(sessions, [id |-> id, state |-> "made", stop |-> FALSE,
                                         threads |-> 1, asked |-> FALSE])
        /\ rigs' = [rigs EXCEPT ![id] = Len(sessions) + 1]
        /\ overtaken' = overtaken \union ({rigs[id]} \ (u.seen \union {0}))
  BY <1>2 DEF Insert
<1>5. PICK m : m = [id |-> id, state |-> "made", stop |-> FALSE, threads |-> 1, asked |-> FALSE]
  OBVIOUS
<1>6. m \in Session /\ m.id = id /\ id \in Id /\ m.state = "made" /\ ~ m.stop
  BY <1>3, <1>5 DEF Session
<1>7. PICK n : n = Len(sessions)
  OBVIOUS
<1>8. /\ n \in Nat /\ DOMAIN sessions = 1..n /\ sessions' = Append(sessions, m)
      /\ sessions' \in Seq(Session) /\ Len(sessions') = n + 1 /\ DOMAIN sessions' = 1..(n + 1)
      /\ \A i \in 1..n : sessions'[i] = sessions[i]
      /\ sessions'[n + 1] = m
  BY <1>4, <1>5, <1>6, <1>7 DEF TypeInv
<1>9. /\ rigs \in [Id -> 0..n] /\ rigs' \in [Id -> 0..(n + 1)] /\ rigs'[id] = n + 1
      /\ \A k \in Id : k # id => rigs'[k] = rigs[k]
  BY <1>4, <1>6, <1>7, <1>8 DEF TypeInv, MapTyped
<1>10. MapTyped'
  BY <1>6, <1>8, <1>9 DEF TypeInv, MapTyped
<1>11. PICK held : held = {n + 1}
  OBVIOUS
<1>12. PICK t : t = [u EXCEPT !.pc = "enlist", !.held = held]
  OBVIOUS
<1>13. held \subseteq Nat /\ held \subseteq DOMAIN sessions'
  BY <1>8, <1>11
<1>14. u.seen \subseteq DOMAIN sessions'
  BY <1>3, <1>8 DEF Holds
<1>15. TaskOK(t, DOMAIN sessions') /\ t.pc = "enlist" /\ t.ids = u.ids /\ t.held = held
  BY <1>3, <1>12, <1>13, <1>14 DEF Holds, TaskOK, Task, PC
<1>16. tasks' = [tasks EXCEPT ![h] = t]
  BY <1>2, <1>7, <1>11, <1>12 DEF Insert, Begin
<1>17. HistoryTyped'
  BY <1>1, <1>4, <1>6, <1>8, <1>9 DEF TypeInv, HistoryTyped
<1>18. DOMAIN sessions \subseteq DOMAIN sessions'
  BY <1>8
<1>19. TypeInv' /\ tasks'[h] = t /\ Moved(h, "insert", {"enlist"})
  BY <1>1, <1>8, <1>10, <1>15, <1>16, <1>17, <1>18, SlotTyped DEF TypeInv
<1> QED BY <1>1, <1>2, <1>4, <1>6, <1>7, <1>8, <1>11, <1>15, <1>19

LEMMA EnlistMoves ==
  ASSUME TypeInv, NEW h \in Slots, Enlist(h)
  PROVE  /\ TypeInv' /\ Moved(h, "enlist", {"check", "weigh"})
         /\ tasks'[h].pc = "check" => tasks'[h].any
         /\ UNCHANGED <<config, file, rigs, requests, historyVars>>
         /\ order' = order \union tasks[h].ids
         /\ DOMAIN sessions' = DOMAIN sessions
         /\ \E i \in tasks[h].held :
              \A j \in DOMAIN sessions :
                sessions'[j] = IF j = i THEN [sessions[i] EXCEPT !.state = "new"] ELSE sessions[j]
<1>1. UNCHANGED <<config, file, rigs, requests, historyVars>> /\ tasks[h].pc = "enlist"
      /\ order' = order \union tasks[h].ids
  BY DEF Enlist
<1>2. PICK u : u = tasks[h]
  OBVIOUS
<1>3. /\ u \in Task /\ Holds(u, DOMAIN sessions) /\ u.ids \subseteq Id
      /\ u.held \subseteq DOMAIN sessions
  BY <1>2, SlotAt
<1>4. PICK i \in u.held : sessions' = [sessions EXCEPT ![i].state = "new"]
  BY <1>2 DEF Enlist
<1>5. PICK s \in Session : s = sessions[i]
  BY <1>3, MappedAt
<1>6. PICK v : v = [s EXCEPT !.state = "new"]
  OBVIOUS
<1>7. v \in Session /\ v.id = s.id
  BY <1>6 DEF Session
<1>8. sessions' = [sessions EXCEPT ![i] = v]
  BY <1>4, <1>5, <1>6
<1>9. /\ sessions' \in Seq(Session) /\ DOMAIN sessions' = DOMAIN sessions /\ MapTyped'
      /\ \A j \in DOMAIN sessions : sessions'[j] = IF j = i THEN v ELSE sessions[j]
  BY <1>1, <1>3, <1>5, <1>7, <1>8, OneSessionTyped
<1>10. PICK w : w = [u EXCEPT !.any = TRUE, !.ids = {}, !.held = {}, !.seen = {}]
  OBVIOUS
<1>11. Holds(w, DOMAIN sessions) /\ w.any = TRUE
  BY <1>3, <1>10 DEF Holds, Task
<1>12. PICK t : t = NextSession(w)
  OBVIOUS
<1>13. TaskOK(t, DOMAIN sessions) /\ t.pc \in {"check", "weigh"} /\ (t.pc = "check" => t.any)
  BY <1>11, <1>12, NextSessionIs
<1>14. tasks' = [tasks EXCEPT ![h] = t]
  BY <1>2, <1>10, <1>12 DEF Enlist, Begin
<1>15. HistoryTyped' /\ order' \subseteq Id
  BY <1>1, <1>2, <1>3, <1>9 DEF TypeInv, HistoryTyped, historyVars
<1>16. TypeInv' /\ tasks'[h] = t /\ Moved(h, "enlist", {"check", "weigh"})
  BY <1>1, <1>9, <1>13, <1>14, <1>15, SlotTyped DEF TypeInv
<1> QED BY <1>1, <1>2, <1>4, <1>5, <1>6, <1>9, <1>13, <1>16

\* The pruning.
LEMMA RetainMoves ==
  ASSUME TypeInv, NEW h \in Slots, Retain(h)
  PROVE  /\ TypeInv' /\ Moved(h, "retain", {"relist"})
         /\ UNCHANGED <<config, file, order, sessions, requests, newest, inTurn>>
<1>1. /\ UNCHANGED <<config, file, order, sessions, requests, newest, inTurn>>
      /\ tasks[h].pc = "retain"
  BY DEF Retain
<1>2. PICK u : u = tasks[h]
  OBVIOUS
<1>3. PICK kept \in SUBSET Id : kept = Kept(u.ids)
  BY DEF Kept, Mapped
<1>4. PICK t : t = [u EXCEPT !.ids = kept, !.pc = "relist"]
  OBVIOUS
<1>5. TaskOK(t, DOMAIN sessions) /\ t.pc = "relist"
  BY <1>2, <1>4, SlotAt DEF Holds, TaskOK, Task, PC
<1>6. /\ tasks' = [tasks EXCEPT ![h] = t]
      /\ rigs' = [id \in Id |-> IF id \in kept THEN rigs[id] ELSE 0]
      /\ overtaken' = overtaken \union {i \in {rigs[id] : id \in Mapped \ kept} : ~ Polled(i)}
  BY <1>2, <1>3, <1>4 DEF Retain, Begin
<1>7. MapTyped'
  BY <1>1, <1>6 DEF TypeInv, MapTyped
<1>8. HistoryTyped'
  BY <1>1, <1>6, MappedAt DEF TypeInv, HistoryTyped
<1> QED BY <1>1, <1>5, <1>6, <1>7, <1>8, SlotTyped DEF TypeInv

LEMMA RelistMoves ==
  ASSUME TypeInv, NEW h \in Slots, Relist(h)
  PROVE  /\ TypeInv' /\ Moved(h, "relist", {"idle", "weigh"})
         /\ h # Sampler => tasks'[h].pc = "weigh"
         /\ h = Sampler => tasks'[h].pc = "idle"
         /\ UNCHANGED <<config, file, rigs, sessions, requests, newest, inTurn>>
<1>1. /\ UNCHANGED <<config, file, rigs, sessions, requests, newest, inTurn>>
      /\ tasks[h].pc = "relist"
  BY DEF Relist
<1>2. PICK u : u = tasks[h]
  OBVIOUS
<1>3. PICK v : v = [u EXCEPT !.ids = {}, !.pc = "weigh"]
  OBVIOUS
<1>4. TaskOK(v, DOMAIN sessions) /\ v.pc = "weigh"
  BY <1>2, <1>3, SlotAt DEF Holds, TaskOK, Task, PC
<1>5. PICK t : t = AfterPrune(h)
  OBVIOUS
<1>6. /\ TaskOK(t, DOMAIN sessions) /\ t.pc \in {"idle", "weigh"}
      /\ h # Sampler => t.pc = "weigh"
      /\ h = Sampler => t.pc = "idle"
  BY <1>2, <1>3, <1>4, <1>5, IdleIsOK DEF AfterPrune
<1>7. tasks' = [tasks EXCEPT ![h] = t]
  BY <1>5 DEF Relist, Begin
<1>8. MapTyped' /\ order' \subseteq Id
  BY <1>1 DEF TypeInv, MapTyped, Relist
<1>9. HistoryTyped'
  BY <1>1, MappedAt DEF TypeInv, HistoryTyped, Relist
<1> QED BY <1>1, <1>6, <1>7, <1>8, <1>9, SlotTyped DEF TypeInv

\* A delayed start is left to a timer.
LEMMA SpawnMoves ==
  ASSUME TypeInv, NEW h \in Slots, Spawn(h)
  PROVE  /\ TypeInv' /\ UNCHANGED <<config, file, managerVars, requests, historyVars>>
         /\ \A k \in Slots : \/ tasks'[k] = tasks[k]
                             \/ /\ k # Sampler \/ k = h
                                /\ tasks[k].pc \in {"idle", "spawn"}
                                /\ tasks'[k].pc \in {"idle", "resolve"}
<1>1. UNCHANGED <<config, file, managerVars, requests, historyVars>> /\ tasks[h].pc = "spawn"
  BY DEF Spawn
<1>2. tasks[h].edit.rig \in Rigs
  BY <1>1, SlotAt DEF TaskOK, Holds
<1>3. PICK names \in SUBSET Rigs : names = {tasks[h].edit.rig} /\ names # {}
  BY <1>2
<1>4. PICK i : i = Idle
  OBVIOUS
<1>5. PICK v : v = [i EXCEPT !.pc = "resolve", !.names = names]
  OBVIOUS
<1>6. \A D : TaskOK(i, D) /\ i.pc = "idle" /\ i.edit.kind = "none" /\ i.held = {} /\ i.seen = {}
  BY <1>4, IdleIsOK DEF Idle
<1>7. \A D : TaskOK(v, D) /\ v.pc = "resolve"
  BY <1>3, <1>5, <1>6 DEF Holds, TaskOK, Task, PC
<1>8. PICK w \in Timers : tasks[w].pc = "idle" /\ tasks' = [tasks EXCEPT ![h] = i, ![w] = v]
  BY <1>3, <1>4, <1>5 DEF Spawn
<1>9. w \in Slots /\ w # Sampler /\ w # h
  BY <1>1, <1>8, SlotsAssumption DEF Slots
<1>10. i \in Task /\ v \in Task
  BY <1>6, <1>7 DEF TaskOK, Holds
<1>11. /\ tasks' \in [Slots -> Task] /\ tasks'[h] = i /\ tasks'[w] = v
       /\ \A k \in Slots : k # h /\ k # w => tasks'[k] = tasks[k]
  BY <1>8, <1>9, <1>10 DEF TypeInv
<1>12. \A k \in Slots : TaskOK(tasks'[k], DOMAIN sessions)
  BY <1>6, <1>7, <1>11 DEF TypeInv
<1>13. MapTyped' /\ HistoryTyped' /\ UNCHANGED <<config, file, sessions, order, requests>>
  BY <1>1 DEF TypeInv, MapTyped, HistoryTyped, managerVars, historyVars
<1>14. TypeInv'
  BY <1>11, <1>12, <1>13 DEF TypeInv
<1> QED BY <1>1, <1>6, <1>7, <1>8, <1>9, <1>11, <1>14

\* Every step keeps the types.
LEMMA InitTyped == Init => TypeInv
<1>1. SUFFICES ASSUME Init PROVE TypeInv
  OBVIOUS
<1>2. config \in Config /\ file \in Config
  BY <1>1, BoundAssumption DEF Init, Config
<1>3. PICK i \in Task : i = Idle /\ TaskOK(i, DOMAIN sessions)
  BY IdleIsOK DEF TaskOK, Holds
<1>4. tasks \in [Slots -> Task] /\ \A h \in Slots : TaskOK(tasks[h], DOMAIN sessions)
  BY <1>1, <1>3 DEF Init
<1>5. sessions \in Seq(Session) /\ MapTyped /\ HistoryTyped
  BY <1>1 DEF Init, MapTyped, HistoryTyped, Slots
<1> QED BY <1>1, <1>2, <1>4, <1>5, BoundAssumption DEF Init, TypeInv

LEMMA NextTyped == TypeInv /\ [Next]_vars => TypeInv'
<1>1. ASSUME TypeInv, NEW h \in Slots, Step(h) PROVE TypeInv'
  BY <1>1, ThinksMoves, WeighMoves, AllotMoves, AssignMoves, SaveMoves, RaiseMoves, InsertMoves,
     EnlistMoves, RetainMoves, RelistMoves, SpawnMoves DEF Step, Thinks
<1>2. ASSUME TypeInv, Next PROVE TypeInv'
  <2>1. Goes \/ (\E h \in Handlers : Asks(h)) \/ \E h \in Slots : Step(h)
    BY <1>2 DEF Next, Goes, Asks
  <2> QED BY <1>1, <1>2, <2>1, GoesTyped, AsksMoves
<1>3. ASSUME TypeInv, UNCHANGED vars PROVE TypeInv'
  BY <1>3 DEF vars, managerVars, historyVars, TypeInv, MapTyped, HistoryTyped
<1> QED BY <1>2, <1>3

\* However the operations interleave, every variable has its type, what is in the map is
\* a session of that id, and no session is left without a thread (rigs, order and
\* allocate_threads() of daemon.rs).
THEOREM RigsAreTyped == Spec => []TypeOK
<1>1. TypeInv => TypeOK
  <2>1. SUFFICES ASSUME TypeInv PROVE TypeOK
    OBVIOUS
  <2>2. \A h \in Slots : /\ tasks[h].held \union tasks[h].seen \subseteq DOMAIN sessions
    BY <2>1, SlotAt
  <2> QED BY <2>1, <2>2, SlotAt DEF TypeInv, TypeOK, MapTyped, HistoryTyped
<1> QED BY <1>1, InitTyped, NextTyped, PTL DEF Spec

-----------------------------------------------------------------------------
(* Nothing that lives is forgotten.                                        *)

Live(i) == i \in DOMAIN sessions /\ i \notin overtaken /\ ~ Done(sessions[i])

\* A session that nobody overtook is in the map while it is to run.
LiveIsMapped == \A i \in DOMAIN sessions : Live(i) => rigs[sessions[i].id] = i

\* What is in the map is in the order or about to be put there, or was left out.
MappedIsListed ==
  \A id \in Mapped :
    \/ id \in order \/ rigs[id] \in overtaken
    \/ \E h \in Slots : tasks[h].pc = "enlist" /\ id \in tasks[h].ids

\* Who is about to replace a session had found it stopped, ended, or too early,
Looked(t) == t.pc = "insert" => \A i \in t.seen : i \in DOMAIN sessions /\ Done(sessions[i])

\* and only he who made a session spawns it.
Making(t) == t.pc = "enlist" => \A i \in t.held : sessions[i].state = "made"

Apart ==
  \A h, k \in Slots :
    h # k /\ tasks[h].pc = "enlist" /\ tasks[k].pc = "enlist" =>
      tasks[h].held \intersect tasks[k].held = {}

KeptInv ==
  /\ TypeInv
  /\ LiveIsMapped /\ MappedIsListed /\ Apart
  /\ \A h \in Slots : Looked(tasks[h]) /\ Making(tasks[h])

\* A step that makes, spawns, replaces and forgets nothing; another one may be about to
\* replace a session that it found stopped.
Harmless ==
  /\ UNCHANGED <<rigs, order, overtaken>> /\ AllOnward
  /\ \A h \in Slots :
       \/ tasks'[h] = tasks[h]
       \/ /\ tasks[h].pc # "enlist" /\ tasks'[h].pc # "enlist"
          /\ tasks'[h].pc = "insert" =>
               \A i \in tasks'[h].seen : i \in DOMAIN sessions /\ Done(sessions[i])

LEMMA OnwardDone ==
  ASSUME AllOnward
  PROVE  /\ DOMAIN sessions' = DOMAIN sessions
         /\ \A i \in DOMAIN sessions :
              /\ sessions'[i].id = sessions[i].id
              /\ Done(sessions[i]) => Done(sessions'[i])
              /\ sessions[i].state = "made" => sessions'[i].state = "made"
BY DEF AllOnward, Onward, Done

LEMMA HarmlessKeeps ==
  ASSUME KeptInv, TypeInv', Harmless
  PROVE  KeptInv'
<1>1. /\ UNCHANGED <<rigs, order, overtaken>> /\ DOMAIN sessions' = DOMAIN sessions
      /\ \A i \in DOMAIN sessions :
              /\ sessions'[i].id = sessions[i].id
              /\ Done(sessions[i]) => Done(sessions'[i])
              /\ sessions[i].state = "made" => sessions'[i].state = "made"
  BY OnwardDone DEF Harmless
<1>2. LiveIsMapped'
  BY <1>1 DEF KeptInv, LiveIsMapped, Live
<1>3. \A h \in Slots : tasks[h].pc = "enlist" \/ tasks'[h].pc = "enlist" => tasks'[h] = tasks[h]
  BY DEF Harmless
<1>4. MappedIsListed'
  BY <1>1, <1>3 DEF KeptInv, MappedIsListed, Mapped
<1>5. Apart'
  BY <1>3 DEF KeptInv, Apart
<1>6. ASSUME NEW h \in Slots PROVE Looked(tasks[h])' /\ Making(tasks[h])'
  <2>1. Looked(tasks[h]) /\ Making(tasks[h])
    BY DEF KeptInv
  <2>2. PICK t : t = tasks'[h]
    OBVIOUS
  <2>3. Looked(t)'
    BY <1>1, <2>1, <2>2 DEF Harmless, Looked
  <2>4. t.held \subseteq DOMAIN sessions'
    BY <2>2, SlotAt DEF TypeInv, TaskOK, Holds
  <2>5. Making(t)'
    BY <1>1, <1>3, <2>1, <2>2, <2>4 DEF Making
  <2> QED BY <2>2, <2>3, <2>5
<1> QED BY <1>2, <1>4, <1>5, <1>6 DEF KeptInv

\* Most steps are harmless.
LEMMA HarmlessSteps ==
  ASSUME TypeInv,
         \/ Goes \/ \E h \in Handlers : Asks(h)
         \/ \E h \in Slots : \/ Thinks(h) \/ Weigh(h) \/ Allot(h) \/ Assign(h)
                             \/ Truncate(h) \/ Write(h) \/ Swap(h) \/ Raise(h) \/ Spawn(h)
  PROVE  Harmless
<1>1. CASE Goes
  BY <1>1, GoesTyped DEF Harmless, AllGentle, historyVars
<1>2. ASSUME UNCHANGED sessions PROVE AllOnward
  BY <1>2, StaysGentle DEF AllGentle
<1>3. ASSUME NEW h \in Slots, NEW from, NEW to, Moved(h, from, to),
             from # "enlist", "enlist" \notin to, "insert" \notin to,
             UNCHANGED <<rigs, order, overtaken>>, AllOnward
      PROVE  Harmless
  <2>1. \A k \in Slots : k # h => tasks'[k] = tasks[k]
    BY <1>3 DEF Moved, TypeInv
  <2> QED BY <1>3, <2>1 DEF Harmless, Moved
<1>4. ASSUME NEW h \in Handlers, Asks(h) PROVE Harmless
  BY <1>2, <1>3, <1>4, AsksMoves DEF managerVars, historyVars
<1>5. ASSUME NEW h \in Slots, Thinks(h) PROVE Harmless
  <2>1. \A k \in Slots : k # h => tasks'[k] = tasks[k]
    BY <1>5, ThinksMoves DEF TypeInv
  <2>2. tasks[h].pc # "enlist" /\ tasks'[h].pc # "enlist"
    BY <1>5, ThinksMoves
  <2>3. tasks'[h].pc = "insert" =>
          \A i \in tasks'[h].seen : i \in DOMAIN sessions /\ Done(sessions[i])
    BY <1>5, ThinksMoves
  <2>4. AllOnward /\ UNCHANGED <<rigs, order, overtaken>>
    BY <1>2, <1>5, ThinksMoves DEF managerVars, historyVars
  <2> QED BY <2>1, <2>2, <2>3, <2>4 DEF Harmless
<1>6. ASSUME NEW h \in Slots, Weigh(h) \/ Allot(h) \/ Assign(h) PROVE Harmless
  <2>1. CASE Weigh(h)
    BY <1>2, <1>3, <2>1, WeighMoves DEF managerVars
  <2>2. CASE Allot(h)
    BY <1>2, <1>3, <2>2, AllotMoves DEF managerVars, historyVars
  <2>3. CASE Assign(h)
    BY <1>3, <2>3, AssignMoves
  <2> QED BY <1>6, <2>1, <2>2, <2>3
<1>7. ASSUME NEW h \in Slots, Truncate(h) \/ Write(h) \/ Swap(h) PROVE Harmless
  <2>1. UNCHANGED <<rigs, order, overtaken, sessions>> /\ AllOnward
    BY <1>2, <1>7, SaveMoves DEF managerVars, historyVars
  <2>2. \/ Moved(h, "swap", {"prune"})
        \/ \E from \in {"truncate", "write"} : Moved(h, from, {"write", "swap", "signal", "load"})
    BY <1>7, SaveMoves
  <2> QED BY <2>1, <2>2, <1>3
<1>8. ASSUME NEW h \in Slots, Raise(h) PROVE Harmless
  BY <1>3, <1>8, RaiseMoves DEF AllGentle, historyVars
<1>9. ASSUME NEW h \in Slots, Spawn(h) PROVE Harmless
  <2>1. AllOnward /\ UNCHANGED <<rigs, order, overtaken>>
    BY <1>2, <1>9, SpawnMoves DEF managerVars, historyVars
  <2> QED BY <1>9, <2>1, SpawnMoves DEF Harmless
<1> QED BY <1>1, <1>4, <1>5, <1>6, <1>7, <1>8, <1>9

\* A start replaces what it had found stopped or ended, or overtakes.
LEMMA InsertKeeps ==
  ASSUME KeptInv, NEW h \in Slots, Insert(h)
  PROVE  KeptInv'
<1>1. TypeInv /\ TypeInv' /\ Moved(h, "insert", {"enlist"}) /\ order' = order
  BY InsertMoves DEF KeptInv
<1>2. PICK id \in tasks[h].ids, m \in Session :
        /\ id \in Id /\ m.id = id /\ m.state = "made" /\ ~ m.stop
        /\ sessions' = Append(sessions, m)
        /\ rigs' = [rigs EXCEPT ![id] = Len(sessions) + 1]
        /\ overtaken' = overtaken \union ({rigs[id]} \ (tasks[h].seen \union {0}))
        /\ tasks'[h].ids = tasks[h].ids /\ tasks'[h].held = {Len(sessions) + 1}
  BY InsertMoves DEF KeptInv
<1>3. PICK n : n = Len(sessions)
  OBVIOUS
<1>4. /\ n \in Nat /\ DOMAIN sessions = 1..n /\ DOMAIN sessions' = 1..(n + 1)
      /\ \A i \in 1..n : sessions'[i] = sessions[i]
      /\ sessions'[n + 1] = m
  BY <1>1, <1>2, <1>3 DEF TypeInv
<1>5. rigs'[id] = n + 1 /\ \A k \in Id : k # id => rigs'[k] = rigs[k]
  BY <1>1, <1>2, <1>3 DEF TypeInv, MapTyped
<1>6. tasks'[h].pc = "enlist" /\ \A k \in Slots : k # h => tasks'[k] = tasks[k]
  BY <1>1 DEF Moved, TypeInv
<1>7. LiveIsMapped'
  <2>1. ASSUME NEW i \in 1..n, Live(i)' PROVE rigs'[sessions'[i].id] = i
    <3>1. Live(i) /\ rigs[sessions[i].id] = i /\ sessions[i].id \in Id
      BY <1>1, <1>2, <1>4, <2>1, MappedAt DEF Live, KeptInv, LiveIsMapped, Session
    <3>2. sessions[i].id # id
      <4>1. SUFFICES ASSUME sessions[i].id = id PROVE FALSE
        OBVIOUS
      <4>2. i \in tasks[h].seen
        BY <1>2, <1>4, <2>1, <3>1, <4>1 DEF Live
      <4>3. Done(sessions[i])
        BY <4>2, <1>1 DEF KeptInv, Looked, Moved
      <4> QED BY <3>1, <4>3 DEF Live
    <3> QED BY <1>4, <1>5, <3>1, <3>2
  <2>2. rigs'[sessions'[n + 1].id] = n + 1
    BY <1>2, <1>4, <1>5
  <2> QED BY <1>4, <2>1, <2>2 DEF LiveIsMapped
<1>8. MappedIsListed'
  <2>1. ASSUME NEW k \in Mapped'
        PROVE  \/ k \in order' \/ rigs'[k] \in overtaken'
               \/ \E g \in Slots : tasks'[g].pc = "enlist" /\ k \in tasks'[g].ids
    <3>1. CASE k = id
      BY <3>1, <1>2, <1>6
    <3>2. CASE k # id
      <4>1. k \in Mapped /\ rigs'[k] = rigs[k]
        BY <2>1, <3>2, <1>5 DEF Mapped
      <4>2. \/ k \in order \/ rigs[k] \in overtaken
            \/ \E g \in Slots : g # h /\ tasks[g].pc = "enlist" /\ k \in tasks[g].ids
        BY <4>1, <1>1 DEF KeptInv, MappedIsListed, Moved
      <4> QED BY <4>1, <4>2, <1>1, <1>2, <1>6
    <3> QED BY <3>1, <3>2
  <2> QED BY <2>1 DEF MappedIsListed
<1>9. \A g \in Slots : tasks[g].held \subseteq 1..n /\ tasks[g].seen \subseteq 1..n
  BY <1>1, <1>4, SlotAt
<1>10. Apart'
  <2>1. ASSUME NEW g \in Slots, NEW k \in Slots, g # k, tasks'[g].pc = "enlist",
               tasks'[k].pc = "enlist", NEW i \in tasks'[g].held, i \in tasks'[k].held
        PROVE  FALSE
    <3>1. CASE g = h
      BY <2>1, <3>1, <1>2, <1>3, <1>4, <1>6, <1>9
    <3>2. CASE k = h
      BY <2>1, <3>2, <1>2, <1>3, <1>4, <1>6, <1>9
    <3>3. CASE g # h /\ k # h
      BY <2>1, <3>3, <1>6 DEF KeptInv, Apart
    <3> QED BY <3>1, <3>2, <3>3
  <2> QED BY <2>1 DEF Apart
<1>11. ASSUME NEW g \in Slots PROVE Looked(tasks[g])' /\ Making(tasks[g])'
  <2>1. CASE g = h
    BY <2>1, <1>2, <1>3, <1>4, <1>6 DEF Looked, Making
  <2>2. CASE g # h
    <3>1. PICK t : t = tasks[g]
      OBVIOUS
    <3>2. tasks'[g] = t /\ Looked(t) /\ Making(t) /\ t.held \subseteq 1..n
      BY <2>2, <3>1, <1>6, <1>9 DEF KeptInv
    <3>3. Looked(t)' /\ Making(t)'
      BY <3>2, <1>4 DEF Looked, Making
    <3> QED BY <3>2, <3>3
  <2> QED BY <2>1, <2>2
<1> QED BY <1>1, <1>7, <1>8, <1>10, <1>11 DEF KeptInv

\* It puts the id into the order, and spawns what it has made itself.
LEMMA EnlistKeeps ==
  ASSUME KeptInv, NEW h \in Slots, Enlist(h)
  PROVE  KeptInv'
<1>1. /\ TypeInv /\ TypeInv' /\ Moved(h, "enlist", {"check", "weigh"})
      /\ UNCHANGED <<rigs, overtaken>> /\ order' = order \union tasks[h].ids
      /\ DOMAIN sessions' = DOMAIN sessions
  BY EnlistMoves DEF KeptInv, historyVars
<1>2. PICK i \in tasks[h].held :
        \A j \in DOMAIN sessions :
          sessions'[j] = IF j = i THEN [sessions[i] EXCEPT !.state = "new"] ELSE sessions[j]
  BY EnlistMoves DEF KeptInv
<1>3. PICK s \in Session : s = sessions[i] /\ s.state = "made" /\ i \in DOMAIN sessions
  BY <1>1, <1>2, SlotAt, MappedAt DEF KeptInv, Making, Moved
<1>4. PICK v : v = [s EXCEPT !.state = "new"]
  OBVIOUS
<1>5. sessions'[i] = v /\ v.id = s.id /\ v.stop = s.stop /\ v.state = "new"
  BY <1>2, <1>3, <1>4 DEF Session
<1>6. \A j \in DOMAIN sessions :
        /\ sessions'[j].id = sessions[j].id
        /\ Done(sessions[j]) = Done(sessions'[j])
        /\ j # i => sessions'[j] = sessions[j]
  BY <1>2, <1>3, <1>5 DEF Done
<1>7. LiveIsMapped'
  BY <1>1, <1>6 DEF KeptInv, LiveIsMapped, Live
<1>8. /\ tasks[h].pc = "enlist" /\ tasks'[h].pc \in {"check", "weigh"}
      /\ \A k \in Slots : k # h => tasks'[k] = tasks[k]
  BY <1>1 DEF Moved, TypeInv
<1>9. MappedIsListed'
  BY <1>1, <1>8 DEF KeptInv, MappedIsListed, Mapped
<1>10. Apart'
  BY <1>8 DEF KeptInv, Apart
<1>11. ASSUME NEW g \in Slots PROVE Looked(tasks[g])' /\ Making(tasks[g])'
  <2>1. CASE g = h
    BY <2>1, <1>8 DEF Looked, Making
  <2>2. CASE g # h
    <3>1. PICK t : t = tasks[g]
      OBVIOUS
    <3>2. tasks'[g] = t /\ Looked(t) /\ Making(t) /\ t.held \subseteq DOMAIN sessions
      BY <2>2, <3>1, <1>1, <1>8, SlotAt DEF KeptInv
    <3>3. t.pc = "enlist" => i \notin t.held
      BY <2>2, <3>1, <1>2, <1>8 DEF KeptInv, Apart
    <3>4. Looked(t)'
      BY <3>2, <1>1, <1>6 DEF Looked
    <3>5. Making(t)'
      BY <3>2, <3>3, <1>1, <1>6 DEF Making
    <3> QED BY <3>2, <3>4, <3>5
  <2> QED BY <2>1, <2>2
<1> QED BY <1>1, <1>7, <1>9, <1>10, <1>11 DEF KeptInv

\* The pruning drops what has ended, or overtakes.
LEMMA RetainKeeps ==
  ASSUME KeptInv, NEW h \in Slots, Retain(h)
  PROVE  KeptInv'
<1>1. /\ TypeInv /\ TypeInv' /\ Moved(h, "retain", {"relist"})
      /\ UNCHANGED <<order, sessions>>
  BY RetainMoves DEF KeptInv
<1>2. PICK kept : /\ kept = Kept(tasks[h].ids)
                  /\ rigs' = [id \in Id |-> IF id \in kept THEN rigs[id] ELSE 0]
                  /\ overtaken' = overtaken \union
                                    {i \in {rigs[id] : id \in Mapped \ kept} : ~ Polled(i)}
  BY DEF Retain
<1>3. /\ tasks[h].pc = "retain" /\ tasks'[h].pc = "relist"
      /\ \A k \in Slots : k # h => tasks'[k] = tasks[k]
  BY <1>1 DEF Moved, TypeInv
<1>4. LiveIsMapped'
  <2>1. ASSUME NEW i \in DOMAIN sessions, Live(i)' PROVE rigs'[sessions'[i].id] = i
    <3>1. /\ Live(i) /\ rigs[sessions[i].id] = i /\ sessions[i].id \in Mapped
          /\ sessions[i] \in Session /\ sessions[i].id \in Id
      <4>1. Live(i) /\ sessions[i] \in Session
        BY <1>1, <1>2, <2>1, MappedAt DEF Live
      <4>2. rigs[sessions[i].id] = i /\ i # 0
        BY <4>1, <1>1, MappedAt DEF KeptInv, LiveIsMapped
      <4> QED BY <4>1, <4>2 DEF Mapped, Session
    <3>2. sessions[i].id \in kept
      <4>1. SUFFICES ASSUME sessions[i].id \notin kept PROVE FALSE
        OBVIOUS
      <4>2. Polled(i)
        BY <3>1, <4>1, <1>2, <2>1 DEF Live
      <4>3. sessions[i].state # "running"
        BY <3>1, <4>1, <1>2 DEF Kept, Running, At
      <4> QED BY <3>1, <4>2, <4>3 DEF Polled, Session, Live, Done
    <3> QED BY <1>1, <1>2, <3>1, <3>2
  <2> QED BY <1>1, <2>1 DEF LiveIsMapped
<1>5. \A id \in Mapped' : id \in Mapped /\ rigs'[id] = rigs[id]
  BY <1>2 DEF Mapped
<1>6. MappedIsListed'
  BY <1>1, <1>2, <1>3, <1>5 DEF KeptInv, MappedIsListed
<1>7. Apart'
  BY <1>3 DEF KeptInv, Apart
<1>8. ASSUME NEW g \in Slots PROVE Looked(tasks[g])' /\ Making(tasks[g])'
  BY <1>1, <1>3 DEF KeptInv, Looked, Making
<1> QED BY <1>1, <1>4, <1>6, <1>7, <1>8 DEF KeptInv

LEMMA RelistKeeps ==
  ASSUME KeptInv, NEW h \in Slots, Relist(h)
  PROVE  KeptInv'
<1>1. /\ TypeInv /\ TypeInv' /\ Moved(h, "relist", {"idle", "weigh"})
      /\ UNCHANGED <<rigs, sessions>>
  BY RelistMoves DEF KeptInv
<1>2. /\ order' = order \intersect tasks[h].ids
      /\ overtaken' = overtaken \union {rigs[id] : id \in Mapped \ tasks[h].ids}
  BY DEF Relist
<1>3. /\ tasks[h].pc = "relist" /\ tasks'[h].pc \in {"idle", "weigh"}
      /\ \A k \in Slots : k # h => tasks'[k] = tasks[k]
  BY <1>1 DEF Moved, TypeInv
<1>4. LiveIsMapped'
  BY <1>1, <1>2 DEF KeptInv, LiveIsMapped, Live
<1>5. MappedIsListed'
  BY <1>1, <1>2, <1>3 DEF KeptInv, MappedIsListed, Mapped
<1>6. Apart'
  BY <1>3 DEF KeptInv, Apart
<1>7. ASSUME NEW g \in Slots PROVE Looked(tasks[g])' /\ Making(tasks[g])'
  BY <1>1, <1>3 DEF KeptInv, Looked, Making
<1> QED BY <1>1, <1>4, <1>5, <1>6, <1>7 DEF KeptInv

LEMMA NextKeeps == KeptInv /\ [Next]_vars => KeptInv'
<1>1. ASSUME KeptInv, Next PROVE KeptInv'
  <2>1. TypeInv /\ TypeInv'
    BY <1>1, NextTyped DEF KeptInv
  <2>2. \/ Goes \/ \E h \in Handlers : Asks(h)
        \/ \E h \in Slots : \/ Thinks(h) \/ Weigh(h) \/ Allot(h) \/ Assign(h)
                            \/ Truncate(h) \/ Write(h) \/ Swap(h) \/ Raise(h) \/ Spawn(h)
        \/ \E h \in Slots : Insert(h) \/ Enlist(h) \/ Retain(h) \/ Relist(h)
    BY <1>1 DEF Next, Goes, Asks, Step, Thinks
  <2>3. Harmless => KeptInv'
    BY <1>1, <2>1, HarmlessKeeps
  <2> QED BY <1>1, <2>1, <2>2, <2>3, HarmlessSteps, InsertKeeps, EnlistKeeps, RetainKeeps,
             RelistKeeps
<1>2. ASSUME KeptInv, UNCHANGED vars PROVE KeptInv'
  <2>1. TypeInv' /\ Harmless
    BY <1>2, NextTyped, StaysGentle DEF KeptInv, Harmless, AllGentle, vars, managerVars, historyVars
  <2> QED BY <1>2, <2>1, HarmlessKeeps
<1> QED BY <1>1, <1>2

LEMMA KeptAlways == Spec => []KeptInv
<1>1. Init => KeptInv
  <2>1. SUFFICES ASSUME Init PROVE KeptInv
    OBVIOUS
  <2>2. \A h \in Slots : tasks[h].pc = "idle"
    BY <2>1, IdleIsOK DEF Init
  <2>3. sessions = <<>> /\ Mapped = {}
    BY <2>1 DEF Init, Mapped
  <2> QED BY <2>1, <2>2, <2>3, InitTyped DEF KeptInv, LiveIsMapped, MappedIsListed, Apart, Looked,
                                              Making
<1> QED BY <1>1, NextKeeps, PTL DEF Spec

\* Only the pruning that every sample ends with is the sampler's.
SamplerPrunes == tasks[Sampler].pc \in {"idle", "retain", "relist"}

LEMMA SamplerStays ==
  ASSUME TypeInv, SamplerPrunes, [Next]_vars
  PROVE  SamplerPrunes'
<1>1. \A h \in Slots : \A from, to : Moved(h, from, to) /\ h # Sampler =>
        tasks'[Sampler] = tasks[Sampler]
  BY DEF Moved, TypeInv, Slots
<1>2. Sampler \in Slots
  BY DEF Slots
<1>3. CASE Goes \/ UNCHANGED vars
  BY <1>3, GoesTyped DEF SamplerPrunes, vars
<1>4. ASSUME NEW h \in Handlers, Asks(h) PROVE SamplerPrunes'
  <2>1. h \in Slots /\ h # Sampler
    BY SlotsAssumption DEF Slots
  <2> QED BY <1>1, <1>4, <2>1, AsksMoves DEF SamplerPrunes
<1>5. ASSUME NEW h \in Slots, Thinks(h) PROVE SamplerPrunes'
  <2>1. CASE h = Sampler
    BY <1>5, <2>1, ThinksMoves DEF SamplerPrunes
  <2>2. CASE h # Sampler
    BY <1>2, <1>5, <2>2, ThinksMoves DEF SamplerPrunes, TypeInv
  <2> QED BY <2>1, <2>2
<1>6. ASSUME NEW h \in Slots, Weigh(h) \/ Allot(h) \/ Assign(h) PROVE SamplerPrunes'
  <2>1. h # Sampler
    BY <1>6 DEF Weigh, Allot, Assign, SamplerPrunes
  <2> QED BY <1>1, <1>6, <2>1, WeighMoves, AllotMoves, AssignMoves DEF SamplerPrunes
<1>7. ASSUME NEW h \in Slots, Truncate(h) \/ Write(h) \/ Swap(h) PROVE SamplerPrunes'
  <2>1. h # Sampler
    BY <1>7 DEF Truncate, Write, Swap, SamplerPrunes
  <2> QED BY <1>1, <1>7, <2>1, SaveMoves DEF SamplerPrunes
<1>8. ASSUME NEW h \in Slots, Insert(h) \/ Enlist(h) \/ Raise(h) PROVE SamplerPrunes'
  <2>1. h # Sampler
    BY <1>8 DEF Insert, Enlist, Raise, SamplerPrunes
  <2> QED BY <1>1, <1>8, <2>1, InsertMoves, EnlistMoves, RaiseMoves DEF SamplerPrunes
<1>9. ASSUME NEW h \in Slots, Retain(h) \/ Relist(h) PROVE SamplerPrunes'
  <2>1. CASE h = Sampler
    BY <1>9, <2>1, RetainMoves, RelistMoves DEF SamplerPrunes, Moved
  <2>2. CASE h # Sampler
    BY <1>1, <1>9, <2>2, RetainMoves, RelistMoves DEF SamplerPrunes
  <2> QED BY <2>1, <2>2
<1>10. ASSUME NEW h \in Slots, Spawn(h) PROVE SamplerPrunes'
  <2>1. h # Sampler
    BY <1>10 DEF Spawn, SamplerPrunes
  <2> QED BY <1>2, <1>10, <2>1, SpawnMoves DEF SamplerPrunes
<1> QED BY <1>3, <1>4, <1>5, <1>6, <1>7, <1>8, <1>9, <1>10 DEF Next, Goes, Asks, Step, Thinks

LEMMA SamplerAlways == Spec => []SamplerPrunes
<1>1. Init => SamplerPrunes
  BY IdleIsOK DEF Init, SamplerPrunes, Slots
<1> QED BY <1>1, SamplerStays, InitTyped, NextTyped, PTL DEF Spec

\* Whoever interleaves with whom, a session that runs, or will, is in the map under its id,
\* and once nothing is under way in the order: unless it was overtaken
\* (start_rig(), apply_config(), prune_stale_rigs() of daemon.rs).
THEOREM NothingIsForgotten == Spec => []NothingLiveForgotten
<1>1. ASSUME KeptInv, SamplerPrunes PROVE NothingLiveForgotten
  <2>1. ASSUME NEW i \in DOMAIN sessions \ overtaken, sessions[i].state # "ended"
        PROVE  /\ ~ sessions[i].stop => rigs[sessions[i].id] = i
               /\ Resting /\ rigs[sessions[i].id] = i => sessions[i].id \in order
    <3>1. ~ sessions[i].stop => rigs[sessions[i].id] = i
      BY <1>1, <2>1 DEF KeptInv, LiveIsMapped, Live, Done
    <3>2. ASSUME Resting, rigs[sessions[i].id] = i PROVE sessions[i].id \in order
      <4>1. sessions[i].id \in Mapped
        BY <1>1, <2>1, <3>2, MappedAt DEF KeptInv, Mapped, Session
      <4>2. \A h \in Slots : tasks[h].pc # "enlist"
        BY <1>1, <3>2 DEF Resting, Slots, SamplerPrunes
      <4> QED BY <1>1, <2>1, <3>2, <4>1, <4>2 DEF KeptInv, MappedIsListed
    <3> QED BY <3>1, <3>2
  <2> QED BY <2>1 DEF NothingLiveForgotten
<1> QED BY <1>1, KeptAlways, SamplerAlways, PTL

\* Nothing that runs, not asked to stop, leaves the map while it runs; only a start that
\* had looked before it first ran may put another session in its place.
KeepsRunning ==
  [][\A id \in Id : rigs[id] # 0 /\ Running(id) /\ ~ At(id).stop =>
       \/ rigs'[id] = rigs[id]
       \/ rigs'[id] # 0 /\ rigs[id] \in overtaken']_vars

\* No pruning, whenever it read the configuration, drops a session that runs, and no start
\* replaces one that it could have seen run (Kept in prune_stale_rigs(), the check in
\* start_rig() of daemon.rs).
THEOREM RunningIsKept == Spec => KeepsRunning
<1> DEFINE Keeps == \A id \in Id : rigs[id] # 0 /\ Running(id) /\ ~ At(id).stop =>
                      \/ rigs'[id] = rigs[id]
                      \/ rigs'[id] # 0 /\ rigs[id] \in overtaken'
<1>1. ASSUME KeptInv, NEW h \in Slots, Insert(h) PROVE Keeps
  <2>1. TypeInv /\ tasks[h].pc = "insert"
    BY <1>1 DEF KeptInv, Insert
  <2>2. PICK id \in Id :
          /\ rigs' = [rigs EXCEPT ![id] = Len(sessions) + 1]
          /\ overtaken' = overtaken \union ({rigs[id]} \ (tasks[h].seen \union {0}))
    BY <1>1, <2>1, InsertMoves
  <2>3. ASSUME rigs[id] \in tasks[h].seen PROVE Done(At(id))
    BY <1>1, <2>1, <2>3 DEF KeptInv, Looked, At
  <2>4. \A k \in Id : k # id => rigs'[k] = rigs[k]
    BY <2>1, <2>2 DEF TypeInv, MapTyped
  <2>5. rigs'[id] # 0
    BY <2>1, <2>2, MappedAt DEF TypeInv, MapTyped
  <2> QED BY <2>2, <2>3, <2>4, <2>5 DEF Done, Running
<1>2. ASSUME KeptInv, NEW h \in Slots, Retain(h) PROVE Keeps
  BY <1>2 DEF Retain, Kept, Mapped
<1>3. ASSUME KeptInv, Next, \A h \in Slots : ~ Insert(h) /\ ~ Retain(h) PROVE UNCHANGED rigs
  <2>1. TypeInv
    BY <1>3 DEF KeptInv
  <2>2. CASE \E h \in Slots : Enlist(h) \/ Relist(h)
    BY <2>2 DEF Enlist, Relist
  <2>3. CASE ~ \E h \in Slots : Enlist(h) \/ Relist(h)
    <3>1. \/ Goes \/ \E h \in Handlers : Asks(h)
          \/ \E h \in Slots : \/ Thinks(h) \/ Weigh(h) \/ Allot(h) \/ Assign(h)
                              \/ Truncate(h) \/ Write(h) \/ Swap(h) \/ Raise(h) \/ Spawn(h)
      BY <1>3, <2>3 DEF Next, Goes, Asks, Step, Thinks
    <3> QED BY <2>1, <3>1, HarmlessSteps DEF Harmless
  <2> QED BY <2>2, <2>3
<1>4. KeptInv /\ [Next]_vars => [Keeps]_vars
  BY <1>1, <1>2, <1>3
<1> QED BY <1>4, KeptAlways, PTL DEF Spec, KeepsRunning

-----------------------------------------------------------------------------
(* The threads are shared.                                                 *)

\* One division of the threads that explains who has how many.
SharedBy(all) ==
  /\ Active \subseteq all
  /\ \A id \in Mapped \intersect Configured(config) :
       ~ At(id).stop /\ ~ At(id).asked /\ id[1] \in Active =>
         At(id).threads = Division(all)[id]

Shares == \E all \in SUBSET Rigs : SharedBy(all)

\* An operation that has started sessions or changed the configuration, and is still to
\* weigh the rigs.
Owes(h, t) ==
  \/ t.pc \in {"enlist", "weigh"} \/ Towards(t)
  \/ t.pc \in {"prune", "retain", "relist"} /\ h # Sampler

\* A division that is under way, and takes in everybody who needs threads.
Covers(t) ==
  \/ t.pc = "allot" /\ Active \subseteq t.active
  \/ /\ t.pc = "assign"
     /\ \E all \in SUBSET Rigs : Active \subseteq all /\ t.allotted = Division(all)

\* The division that began last is right if nobody owes another, whatever older ones do
\* meanwhile; and so are the threads when it was also the last to give any out.
FairInv ==
  /\ SamplerPrunes
  /\ newest # Sampler => tasks[newest].pc \in {"allot", "assign"}
  /\ (\A h \in Slots : ~ Owes(h, tasks[h])) =>
       IF newest # Sampler THEN Covers(tasks[newest]) ELSE inTurn => Shares

\* A division depends on the configuration alone.
LEMMA DivisionStays ==
  ASSUME UNCHANGED config
  PROVE  \A all : Division(all)' = Division(all)
BY DEF Division, Plan, CoinOf

\* Nobody is started, or gets other threads without having asked for them: then what
\* explained the threads still does.
LEMMA GentleKeeps ==
  ASSUME TypeInv, UNCHANGED config, \A id \in Id : rigs'[id] = rigs[id] \/ rigs'[id] = 0,
         AllGentle
  PROVE  /\ Active' \subseteq Active /\ (Shares => Shares')
         /\ \A t : Covers(t) => Covers(t)'
<1>1. \A id \in Mapped' : id \in Mapped /\ rigs'[id] = rigs[id] /\ rigs[id] \in DOMAIN sessions
  BY MappedAt DEF Mapped
<1>2. \A id \in Mapped' : /\ At(id).stop => At(id)'.stop
                          /\ ~ At(id)'.asked => ~ At(id).asked /\ At(id)'.threads = At(id).threads
  BY <1>1 DEF At, AllGentle, AllOnward, Gentle, Onward
<1>3. Active' \subseteq Active
  BY <1>1, <1>2 DEF Active
<1>4. Configured(config)' = Configured(config)
  BY DEF Configured
<1>5. ASSUME NEW all \in SUBSET Rigs, SharedBy(all) PROVE SharedBy(all)'
  <2>1. Division(all)' = Division(all)
    BY DivisionStays
  <2> QED BY <2>1, <1>1, <1>2, <1>3, <1>4, <1>5 DEF SharedBy
<1>6. ASSUME NEW t, Covers(t) PROVE Covers(t)'
  BY <1>3, <1>6, DivisionStays DEF Covers
<1> QED BY <1>3, <1>5, <1>6 DEF Shares

\* A step of nobody who divides, after which who owed a division still does.
LEMMA GentleIsFair ==
  ASSUME TypeInv, FairInv, SamplerPrunes', UNCHANGED <<config, newest, inTurn>>,
         \A id \in Id : rigs'[id] = rigs[id] \/ rigs'[id] = 0, AllGentle,
         \A h \in Slots : \/ tasks'[h] = tasks[h]
                          \/ /\ tasks[h].pc \notin {"allot", "assign"}
                             /\ Owes(h, tasks[h]) => Owes(h, tasks'[h])
  PROVE  FairInv'
<1>1. newest # Sampler => newest \in Slots /\ tasks'[newest] = tasks[newest]
  BY DEF FairInv, TypeInv, HistoryTyped
<1>2. newest # Sampler => tasks'[newest].pc \in {"allot", "assign"}
  BY <1>1 DEF FairInv
<1>3. ASSUME \A h \in Slots : ~ Owes(h, tasks'[h])
      PROVE  IF newest # Sampler THEN Covers(tasks[newest])' ELSE inTurn => Shares'
  <2>1. \A h \in Slots : ~ Owes(h, tasks[h])
    BY <1>3
  <2>2. CASE newest # Sampler
    <3>1. PICK t : t = tasks[newest]
      OBVIOUS
    <3>2. Covers(t)
      BY <2>1, <2>2, <3>1 DEF FairInv
    <3>3. Covers(t)'
      BY <3>2, GentleKeeps
    <3>4. tasks'[newest'] = t
      BY <1>1, <2>2, <3>1
    <3> QED BY <2>2, <3>3, <3>4
  <2>3. CASE newest = Sampler
    BY <2>1, <2>3, GentleKeeps DEF FairInv
  <2> QED BY <2>2, <2>3
<1>4. (\A h \in Slots : ~ Owes(h, tasks[h])') =>
        IF newest' # Sampler THEN Covers(tasks[newest])' ELSE inTurn' => Shares'
  BY <1>3 DEF Owes, Towards
<1> QED BY <1>2, <1>4 DEF FairInv

\* One slot's step.
LEMMA MoveIsFair ==
  ASSUME TypeInv, FairInv, SamplerPrunes', UNCHANGED <<config, newest, inTurn>>,
         \A id \in Id : rigs'[id] = rigs[id] \/ rigs'[id] = 0, AllGentle,
         NEW h \in Slots, tasks' = [tasks EXCEPT ![h] = tasks'[h]],
         tasks[h].pc \notin {"allot", "assign"},
         Owes(h, tasks[h]) => Owes(h, tasks'[h])
  PROVE  FairInv'
<1>1. \A k \in Slots : k # h => tasks'[k] = tasks[k]
  BY DEF TypeInv
<1> QED BY <1>1, GentleIsFair

\* A step after which a division is owed.
LEMMA OwingIsFair ==
  ASSUME TypeInv, FairInv, SamplerPrunes', newest' = newest,
         NEW h \in Slots, tasks' = [tasks EXCEPT ![h] = tasks'[h]],
         tasks[h].pc \notin {"allot", "assign"}, Owes(h, tasks'[h])
  PROVE  FairInv'
<1>1. newest # Sampler => newest \in Slots /\ tasks'[newest] = tasks[newest]
  BY DEF FairInv, TypeInv, HistoryTyped
<1>2. newest # Sampler => tasks'[newest].pc \in {"allot", "assign"}
  BY <1>1 DEF FairInv
<1>3. Owes(h, tasks[h])'
  BY DEF Owes, Towards
<1> QED BY <1>2, <1>3 DEF FairInv

\* A division has a share for every session of a rig that takes part in it.
LEMMA DivisionCovers ==
  ASSUME config \in Config, NEW active \in SUBSET Rigs,
         NEW id \in Configured(config), id[1] \in active
  PROVE  id \in DOMAIN Division(active)
<1>1. PICK r \in Rigs : id \in IdsOf(r, config[r])
  BY DEF Configured
<1>2. config[r] \in SUBSET Coins
  BY DEF Config
<1>3. id[1] = r
  BY <1>1, <1>2, IdsTyped
<1>4. config[r] # {}
  <2>1. SUFFICES ASSUME config[r] = {} PROVE FALSE
    OBVIOUS
  <2>2. Cardinality({}) = 0
    BY FS_EmptySet
  <2>3. IdsOf(r, {}) = {}
    BY <2>2 DEF IdsOf
  <2> QED BY <1>1, <2>1, <2>3
<1>5. r \in {k \in active : config[k] # {}}
  BY <1>3, <1>4
<1> QED BY <1>1, <1>5 DEF Division

\* Who weighs the rigs counts everybody who is to have threads,
LEMMA WeighIsFair ==
  ASSUME TypeInv, FairInv, SamplerPrunes', NEW h \in Slots, Weigh(h)
  PROVE  FairInv'
<1>1. /\ Moved(h, "weigh", {"allot"}) /\ tasks'[h].active = Active /\ newest' = h
      /\ UNCHANGED <<rigs, sessions>>
  BY WeighMoves DEF managerVars
<1>2. h # Sampler
  BY <1>1 DEF FairInv, SamplerPrunes, Moved
<1>3. PICK t : t = tasks'[h]
  OBVIOUS
<1>4. t.pc = "allot" /\ Active' = t.active
  BY <1>1, <1>3 DEF Moved, Active, Mapped, At
<1>5. Covers(t)'
  BY <1>4 DEF Covers
<1>6. tasks'[newest'] = t
  BY <1>1, <1>3
<1>7. newest' # Sampler /\ Covers(tasks[newest])' /\ tasks'[newest'].pc \in {"allot", "assign"}
  BY <1>1, <1>2, <1>4, <1>5, <1>6
<1> QED BY <1>7 DEF FairInv

\* divides for those it counted,
LEMMA AllotIsFair ==
  ASSUME TypeInv, FairInv, SamplerPrunes', NEW h \in Slots, Allot(h)
  PROVE  FairInv'
<1>1. /\ Moved(h, "allot", {"assign"}) /\ tasks'[h].allotted = Division(tasks[h].active)
      /\ UNCHANGED <<config, rigs, sessions, newest, inTurn>>
  BY AllotMoves DEF managerVars, historyVars
<1>2. /\ tasks[h].pc = "allot" /\ tasks'[h].pc = "assign"
      /\ \A k \in Slots : k # h => tasks'[k] = tasks[k]
  BY <1>1 DEF Moved, TypeInv
<1>3. tasks[h].active \in SUBSET Rigs /\ ~ Owes(h, tasks[h]) /\ ~ Owes(h, tasks'[h])
  BY <1>2, SlotAt DEF Owes, Towards
<1>4. newest # Sampler => newest \in Slots /\ tasks'[newest].pc \in {"allot", "assign"}
  BY <1>2 DEF FairInv, TypeInv, HistoryTyped
<1>5. ASSUME \A k \in Slots : ~ Owes(k, tasks'[k])
      PROVE  IF newest # Sampler THEN Covers(tasks[newest])' ELSE inTurn => Shares'
  <2>1. \A k \in Slots : ~ Owes(k, tasks[k])
    BY <1>2, <1>3, <1>5
  <2>2. AllGentle
    BY <1>1, StaysGentle
  <2>3. Active' \subseteq Active /\ (Shares => Shares') /\ \A t : Covers(t) => Covers(t)'
    BY <1>1, <2>2, GentleKeeps
  <2>4. CASE newest = h /\ newest # Sampler
    <3>1. PICK t : t = tasks'[h]
      OBVIOUS
    <3>2. PICK all \in SUBSET Rigs : all = tasks[h].active
      BY <1>3
    <3>3. Active \subseteq all
      BY <1>2, <2>1, <2>4, <3>2 DEF FairInv, Covers
    <3>4. t.allotted = Division(all)' /\ t.pc = "assign"
      BY <1>1, <1>2, <3>1, <3>2, DivisionStays
    <3>5. Covers(t)'
      BY <2>3, <3>3, <3>4 DEF Covers
    <3> QED BY <1>1, <2>4, <3>1, <3>5
  <2>5. CASE newest # h /\ newest # Sampler
    <3>1. PICK t : t = tasks[newest]
      OBVIOUS
    <3>2. Covers(t) /\ tasks'[newest'] = t
      BY <1>1, <1>2, <1>4, <2>1, <2>5, <3>1 DEF FairInv
    <3> QED BY <2>3, <2>5, <3>2
  <2>6. CASE newest = Sampler
    BY <2>1, <2>3, <2>6 DEF FairInv
  <2> QED BY <2>4, <2>5, <2>6
<1>6. (\A k \in Slots : ~ Owes(k, tasks[k])') =>
        IF newest' # Sampler THEN Covers(tasks[newest])' ELSE inTurn' => Shares'
  BY <1>1, <1>5 DEF Owes, Towards
<1> QED BY <1>1, <1>4, <1>6 DEF FairInv

\* and gives out what it has divided, unless it is late: then the threads are out of turn.
LEMMA AssignIsFair ==
  ASSUME TypeInv, FairInv, SamplerPrunes', NEW h \in Slots, Assign(h)
  PROVE  FairInv'
<1>1. /\ Moved(h, "assign", {"idle", "resolve", "restart"}) /\ AllOnward
      /\ \A i \in DOMAIN sessions :
           /\ sessions'[i].stop = sessions[i].stop
           /\ (\E id \in DOMAIN tasks[h].allotted : rigs[id] = i) =>
                sessions'[i].threads = tasks[h].allotted[sessions[i].id]
      /\ UNCHANGED <<config, rigs>>
  BY AssignMoves
<1>2. inTurn' = (newest = h) /\ newest' = IF newest = h THEN Sampler ELSE newest
  BY DEF Assign
<1>3. /\ tasks[h].pc = "assign" /\ tasks'[h].pc \in {"idle", "resolve", "restart"}
      /\ \A k \in Slots : k # h => tasks'[k] = tasks[k]
  BY <1>1 DEF Moved, TypeInv
<1>4. h # Sampler /\ ~ Owes(h, tasks[h])
  BY <1>3 DEF FairInv, SamplerPrunes, Owes, Towards
<1>5. /\ \A id \in Mapped : rigs[id] \in DOMAIN sessions /\ sessions[rigs[id]].id = id
      /\ Mapped' = Mapped
  BY <1>1, MappedAt DEF Mapped, At
<1>6. Active' = Active
  BY <1>1, <1>5 DEF Active, At
<1>7. ASSUME newest = h, \A k \in Slots : ~ Owes(k, tasks[k]) PROVE Shares'
  <2>1. PICK all \in SUBSET Rigs : Active \subseteq all /\ tasks[h].allotted = Division(all)
    BY <1>3, <1>4, <1>7 DEF FairInv, Covers
  <2>2. Configured(config)' = Configured(config) /\ Division(all)' = Division(all)
    BY <1>1, DivisionStays DEF Configured
  <2>3. ASSUME NEW id \in Mapped \intersect Configured(config), id[1] \in all
        PROVE  At(id)'.threads = Division(all)[id]
    <3>1. id \in DOMAIN Division(all)
      BY <2>3, DivisionCovers DEF TypeInv
    <3> QED BY <3>1, <2>1, <2>3, <1>1, <1>5 DEF At
  <2>4. SharedBy(all)'
    BY <1>5, <1>6, <2>1, <2>2, <2>3 DEF SharedBy
  <2> QED BY <2>4 DEF Shares
<1>8. CASE newest = h
  <2>1. newest' = Sampler
    BY <1>2, <1>8
  <2>2. (\A k \in Slots : ~ Owes(k, tasks[k])') => \A k \in Slots : ~ Owes(k, tasks[k])
    BY <1>3, <1>4 DEF Owes, Towards
  <2> QED BY <1>7, <1>8, <2>1, <2>2 DEF FairInv
<1>9. CASE newest # h
  <2>1. newest' = newest /\ inTurn' = FALSE
    BY <1>2, <1>9
  <2>2. CASE newest = Sampler
    BY <2>1, <2>2 DEF FairInv
  <2>3. CASE newest # Sampler
    <3>1. newest \in Slots /\ tasks'[newest] = tasks[newest]
      BY <1>3, <1>9 DEF TypeInv, HistoryTyped
    <3>2. PICK t : t = tasks[newest]
      OBVIOUS
    <3>3. tasks'[newest'] = t /\ t.pc \in {"allot", "assign"}
      BY <2>1, <2>3, <3>1, <3>2 DEF FairInv
    <3>4. Covers(t) => Covers(t)'
      BY <1>1, <1>6, DivisionStays DEF Covers
    <3>5. (\A k \in Slots : ~ Owes(k, tasks[k])') => Covers(t)
      BY <1>3, <1>4, <2>3, <3>2 DEF Owes, Towards, FairInv
    <3> QED BY <2>1, <2>3, <3>3, <3>4, <3>5 DEF FairInv
  <2> QED BY <2>2, <2>3
<1> QED BY <1>8, <1>9

\* Every step.
LEMMA StepsAreFair ==
  ASSUME TypeInv, FairInv, SamplerPrunes', Next
  PROVE  FairInv'
<1>1. CASE Goes
  BY <1>1, GoesTyped, GentleIsFair DEF historyVars
<1>2. ASSUME UNCHANGED sessions PROVE AllGentle
  BY <1>2, StaysGentle
<1>3. ASSUME NEW h \in Handlers, Asks(h) PROVE FairInv'
  <2>1. h \in Slots /\ Moved(h, "idle", {"resolve", "check", "idle", "raise", "draft", "spawn", "load"})
        /\ UNCHANGED <<config, managerVars, historyVars>>
    BY <1>3, AsksMoves
  <2>2. ~ Owes(h, tasks[h]) /\ tasks[h].pc = "idle" /\ tasks' = [tasks EXCEPT ![h] = tasks'[h]]
    BY <2>1 DEF Moved, Owes, Towards
  <2> QED BY <1>2, <2>1, <2>2, MoveIsFair DEF managerVars, historyVars
<1>4. ASSUME NEW h \in Slots, Thinks(h) PROVE FairInv'
  <2>1. /\ UNCHANGED <<config, managerVars, historyVars>>
        /\ tasks' = [tasks EXCEPT ![h] = tasks'[h]]
    BY <1>4, ThinksMoves
  <2>2. tasks[h].pc \notin {"allot", "assign"}
    BY <1>4, ThinksMoves
  <2>3. Owes(h, tasks[h]) => Owes(h, tasks'[h])
    BY <1>4, ThinksMoves DEF Owes, Towards
  <2> QED BY <1>2, <2>1, <2>2, <2>3, MoveIsFair DEF managerVars, historyVars
<1>5. ASSUME NEW h \in Slots, Truncate(h) \/ Write(h) PROVE FairInv'
  <2>1. UNCHANGED <<config, managerVars, historyVars>>
    BY <1>5 DEF Truncate, Write
  <2>2. tasks' = [tasks EXCEPT ![h] = tasks'[h]] /\ tasks[h].pc \in {"truncate", "write"}
    BY <1>5, SaveMoves DEF Moved, Truncate, Write
  <2>3. ~ Owes(h, tasks[h])
    BY <2>2 DEF Owes, Towards
  <2> QED BY <1>2, <2>1, <2>2, <2>3, MoveIsFair DEF managerVars, historyVars
<1>6. ASSUME NEW h \in Slots, Swap(h) PROVE FairInv'
  <2>1. tasks[h].pc = "swap" /\ h # Sampler /\ newest' = newest
    BY <1>6 DEF Swap, FairInv, SamplerPrunes, historyVars
  <2>2. tasks' = [tasks EXCEPT ![h] = tasks'[h]] /\ tasks'[h].pc = "prune"
    BY <1>6, <2>1, SaveMoves DEF Moved
  <2> QED BY <2>1, <2>2, OwingIsFair DEF Owes
<1>7. ASSUME NEW h \in Slots, Raise(h) PROVE FairInv'
  <2>1. /\ UNCHANGED <<config, rigs, newest, inTurn>> /\ AllGentle
        /\ tasks' = [tasks EXCEPT ![h] = tasks'[h]] /\ tasks[h].pc = "raise"
    BY <1>7, RaiseMoves DEF Moved, historyVars
  <2>2. ~ Owes(h, tasks[h])
    BY <2>1 DEF Owes, Towards
  <2> QED BY <2>1, <2>2, MoveIsFair
<1>8. ASSUME NEW h \in Slots, Insert(h) PROVE FairInv'
  <2>1. /\ tasks' = [tasks EXCEPT ![h] = tasks'[h]] /\ tasks[h].pc = "insert"
        /\ tasks'[h].pc = "enlist" /\ newest' = newest
    BY <1>8, InsertMoves DEF Moved
  <2> QED BY <2>1, OwingIsFair DEF Owes
<1>9. ASSUME NEW h \in Slots, Enlist(h) PROVE FairInv'
  <2>1. /\ tasks' = [tasks EXCEPT ![h] = tasks'[h]] /\ tasks[h].pc = "enlist"
        /\ tasks'[h].pc = "weigh" \/ Towards(tasks'[h])
        /\ newest' = newest
    BY <1>9, EnlistMoves DEF Moved, historyVars, Towards
  <2> QED BY <2>1, OwingIsFair DEF Owes
<1>10. ASSUME NEW h \in Slots, Retain(h) PROVE FairInv'
  <2>1. /\ tasks' = [tasks EXCEPT ![h] = tasks'[h]] /\ tasks[h].pc = "retain"
        /\ tasks'[h].pc = "relist" /\ UNCHANGED <<config, sessions, newest, inTurn>>
    BY <1>10, RetainMoves DEF Moved
  <2>2. \A id \in Id : rigs'[id] = rigs[id] \/ rigs'[id] = 0
    BY <1>10 DEF Retain
  <2>3. Owes(h, tasks[h]) => Owes(h, tasks'[h])
    BY <2>1 DEF Owes, Towards
  <2> QED BY <1>2, <2>1, <2>2, <2>3, MoveIsFair
<1>11. ASSUME NEW h \in Slots, Relist(h) PROVE FairInv'
  <2>1. /\ tasks' = [tasks EXCEPT ![h] = tasks'[h]] /\ tasks[h].pc = "relist"
        /\ h # Sampler => tasks'[h].pc = "weigh"
        /\ UNCHANGED <<config, rigs, sessions, newest, inTurn>>
    BY <1>11, RelistMoves DEF Moved
  <2>2. Owes(h, tasks[h]) => Owes(h, tasks'[h])
    BY <2>1 DEF Owes, Towards
  <2> QED BY <1>2, <2>1, <2>2, MoveIsFair
<1>12. ASSUME NEW h \in Slots, Spawn(h) PROVE FairInv'
  <2>1. UNCHANGED <<config, managerVars, historyVars>>
    BY <1>12, SpawnMoves
  <2>2. \A k \in Slots : \/ tasks'[k] = tasks[k]
                         \/ tasks[k].pc \in {"idle", "spawn"}
    BY <1>12, SpawnMoves
  <2>3. \A k \in Slots : tasks[k].pc \in {"idle", "spawn"} => ~ Owes(k, tasks[k])
    BY DEF Owes, Towards
  <2> QED BY <1>2, <2>1, <2>2, <2>3, GentleIsFair DEF managerVars, historyVars
<1>13. \/ Goes \/ \E h \in Handlers : Asks(h)
       \/ \E h \in Slots : Thinks(h) \/ Weigh(h) \/ Allot(h) \/ Assign(h) \/ Truncate(h)
                             \/ Write(h) \/ Swap(h) \/ Raise(h) \/ Spawn(h) \/ Insert(h)
                             \/ Enlist(h) \/ Retain(h) \/ Relist(h)
  BY DEF Next, Goes, Asks, Step, Thinks
<1> QED BY <1>1, <1>3, <1>4, <1>5, <1>6, <1>7, <1>8, <1>9, <1>10, <1>11, <1>12, <1>13,
           WeighIsFair, AllotIsFair, AssignIsFair

\* When nothing is under way the threads of all rigs that take part come from one division
\* of the budget, however starts, edits and delayed restarts have interleaved: as long as
\* the division that was the last to begin was the last to give out threads (rebalance()
\* of daemon.rs).
THEOREM ThreadsAreShared == Spec => []FairShares
<1>1. Init => FairInv
  <2>1. SUFFICES ASSUME Init PROVE FairInv
    OBVIOUS
  <2>2. SamplerPrunes /\ newest = Sampler
    BY <2>1, IdleIsOK DEF Init, SamplerPrunes, Slots
  <2>3. Mapped = {} /\ Active = {}
    BY <2>1 DEF Init, Mapped, Active
  <2>4. Shares
    BY <2>3 DEF Shares, SharedBy
  <2> QED BY <2>2, <2>4 DEF FairInv
<1>2. ASSUME TypeInv, FairInv, UNCHANGED vars PROVE FairInv'
  <2>1. AllGentle /\ SamplerPrunes'
    BY <1>2, StaysGentle, SamplerStays DEF vars, managerVars, FairInv
  <2> QED BY <1>2, <2>1, GentleIsFair DEF vars, managerVars, historyVars
<1>3. TypeInv /\ FairInv /\ [Next]_vars => FairInv'
  BY <1>2, StepsAreFair, SamplerStays DEF FairInv
<1>4. ASSUME TypeInv, FairInv PROVE FairShares
  <2>1. SUFFICES ASSUME Resting, inTurn PROVE Shares
    BY DEF FairShares, Shares, SharedBy
  <2>2. ASSUME NEW h \in Slots PROVE /\ ~ Owes(h, tasks[h])
                                     /\ tasks[h].pc \notin {"allot", "assign"}
    BY <1>4, <2>1 DEF Resting, Slots, FairInv, SamplerPrunes, Owes, Towards
  <2>3. newest = Sampler
    BY <1>4, <2>2 DEF FairInv, TypeInv, HistoryTyped
  <2> QED BY <1>4, <2>1, <2>2, <2>3 DEF FairInv
<1> QED BY <1>1, <1>3, <1>4, InitTyped, NextTyped, PTL DEF Spec
=============================================================================
