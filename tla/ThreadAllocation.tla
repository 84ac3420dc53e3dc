--------------------------- MODULE ThreadAllocation ---------------------------
(***************************************************************************)
(* allocate_threads() (src/src/daemon.rs): the thread budget is divided    *)
(* among the running rigs, and a rig's share among the coins it mines.     *)
(*                                                                         *)
(* plan[g] describes rig g: threads is its fixed count or 0, weight its    *)
(* weight, coins the weight of each of its coins.  The code divides in     *)
(* f64 and rounds down; below 2^53 that is the quotient of integers.       *)
(***************************************************************************)
EXTENDS Integers, FiniteSets

Larger(m, n) == IF m > n THEN m ELSE n

\* The sum of f, counted: one pair for each of the f[k] that k stands for.
Total(f) == Cardinality(UNION {{k} \X (1..f[k]) : k \in DOMAIN f})

Sharers(active, plan) == {k \in active : plan[k].threads = 0}

\* What the rigs without a fixed count share: what the others leave, but not
\* less than one thread for each.
Remaining(active, plan, budget) ==
  LET explicit == Total([k \in active |-> plan[k].threads])
  IN  Larger(Larger(budget - explicit, 0), Cardinality(Sharers(active, plan)))

\* The part of n that goes to weight out of total, rounded down.
Part(n, weight, total) == (n * weight) \div Larger(total, 1)

Weights(active, plan) == [k \in Sharers(active, plan) |-> Larger(plan[k].weight, 1)]

GroupShare(g, active, plan, budget) ==
  LET weights == Weights(active, plan)
  IN  IF plan[g].threads > 0
      THEN plan[g].threads
      ELSE Larger(Part(Remaining(active, plan, budget), weights[g], Total(weights)), 1)

\* Mutant of Allotted: a small share of a rig with many coins comes to nothing.
AllottedUnfloored(g, c, active, plan, budget) ==
  Part(GroupShare(g, active, plan, budget), plan[g].coins[c], Total(plan[g].coins))

\* The threads of the session that mines coin c of rig g.
Allotted(g, c, active, plan, budget) ==
  Larger(Part(GroupShare(g, active, plan, budget), plan[g].coins[c], Total(plan[g].coins)), 1)
=============================================================================
