-------------------------- MODULE ResourceAllocator --------------------------
(* The pure allocator of key-workspace-core (resources.rs): how one dimension of
   the process budget is divided among the views.  The dimensions (memory, GPU
   memory, worker slots, network slots) are divided independently by the same
   function.  Workspace divides worker slots with it; the state machine here
   divides every small demand once. *)
EXTENDS Integers, Sequences, SequencesExt, FiniteSetsExt, Functions

CONSTANTS
  Budgets,       \* budgets to divide
  Crowds         \* sequences of participants to divide them among

VARIABLE division   \* one call of allocate_dimension: who asks, for how much, and the answer

-----------------------------------------------------------------------------
(* Modes and budgets *)

GiB == 1024   \* memory is counted in MiB

\* effective_mode
EffectiveMode(mode, system) ==
  CASE mode # "Auto" -> mode
    [] mode = "Auto" /\ (system.lowPower \/ system.memory <= 8 * GiB \/ system.cpus <= 4) -> "Saver"
    [] mode = "Auto" /\ ~system.lowPower /\ system.memory >= 24 * GiB /\ system.cpus >= 8 -> "Performance"
    [] OTHER -> "Balanced"

\* budget_for, the worker slots
WorkerBudget(mode, system) ==
  LET cpus == Max({system.cpus, 1})
  IN CASE EffectiveMode(mode, system) = "Saver" -> Max({cpus \div 4, 1})
       [] EffectiveMode(mode, system) = "Balanced" -> Max({cpus \div 2, 1})
       [] OTHER -> Max({cpus - 1, 1})

ActivityWeight ==
  [Suspended |-> 0, BackgroundCold |-> 1, BackgroundWarm |-> 2,
   ForegroundVisible |-> 4, ForegroundIdle |-> 6, ForegroundInteractive |-> 8]

-----------------------------------------------------------------------------
(* distribute: weighted capped distribution, in rounds *)

Total(s) == SumFunction(s)

\* One participant's turn in a round of the loop
Grant(round, caps, weights, shared, acc, i) ==
  LET share == Max({(round * weights[i]) \div shared, 1})
      granted == Min({caps[i] - acc.out[i], share, round - acc.given})
  IN IF acc.given = round THEN acc
     ELSE [out |-> [acc.out EXCEPT ![i] = @ + granted], given |-> acc.given + granted]

\* The round is over: the budget left, and who still has room
RoundOver(state, caps, end) ==
  [out |-> end.out, left |-> state.left - end.given,
   open |-> SelectSeq(state.open, LAMBDA i : end.out[i] < caps[i])]

Round(state, caps, weights) ==
  LET shared == SumFunctionOnSet(weights, ToSet(state.open))
      Turn(acc, i) == Grant(state.left, caps, weights, shared, acc, i)
  IN IF state.left = 0 \/ state.open = <<>> THEN state
     ELSE RoundOver(state, caps,
                    FoldLeft(Turn, [out |-> state.out, given |-> 0], state.open))

\* Every round gives something away, so there are at most budget of them
Distribute(budget, caps, weights) ==
  LET Asks(i) == caps[i] > 0 /\ weights[i] > 0
      start == [out |-> [i \in DOMAIN caps |-> 0], left |-> budget,
                open |-> SelectSeq([i \in DOMAIN caps |-> i], Asks)]
      Again(state, n) == Round(state, caps, weights)
  IN FoldLeft(Again, start, [n \in 1..budget |-> n]).out

-----------------------------------------------------------------------------
(* allocate_dimension *)

Asleep(p) == p.activity = "Suspended" /\ p.suspendable

LeastShare(p) == IF Asleep(p) THEN 0 ELSE p.minimum

MostShare(p) ==
  CASE Asleep(p) -> 0
    [] ~Asleep(p) /\ p.activity = "Suspended" -> p.minimum
    [] OTHER -> Max({p.target, p.minimum})

DemandWeight(p) ==
  IF Asleep(p) THEN 0 ELSE Max({ActivityWeight[p.activity] * Max({p.weight, 1}), 1})

\* Mutant: one pass toward the targets, the minima are not served first
MutAllocateDimension(budget, crowd) ==
  LET who == DOMAIN crowd
  IN Distribute(budget, [i \in who |-> MostShare(crowd[i])], [i \in who |-> DemandWeight(crowd[i])])

\* What is left once everybody has `first`, toward the targets
TowardTargets(budget, crowd, first) ==
  LET who == DOMAIN crowd
      gaps == [i \in who |-> Max({MostShare(crowd[i]) - first[i], 0})]
      more == Distribute(budget - Total(first), gaps,
                         [i \in who |-> IF gaps[i] > 0 THEN DemandWeight(crowd[i]) ELSE 0])
  IN [i \in who |-> first[i] + more[i]]

\* Minima first, then what is left toward the targets
AllocateDimension(budget, crowd) ==
  LET who == DOMAIN crowd
  IN TowardTargets(budget, crowd,
                   Distribute(budget, [i \in who |-> LeastShare(crowd[i])],
                              [i \in who |-> DemandWeight(crowd[i])]))

-----------------------------------------------------------------------------
AllocInit ==
  \E budget \in Budgets, crowd \in Crowds :
    division = [budget |-> budget, crowd |-> crowd, shares |-> <<>>]

Divide ==
  /\ division.shares = <<>>
  /\ division' = [division EXCEPT !.shares = AllocateDimension(division.budget, division.crowd)]

AllocSpec == AllocInit /\ [][Divide]_division

Divided == division.shares # <<>>

Demands == [i \in DOMAIN division.crowd |-> MostShare(division.crowd[i])]

\* The plan never promises more than there is, gives nobody more than its target
\* and the sleeping nothing, and leaves capacity unused only when every target is
\* met: the sum of the shares is exactly the smaller of the budget and the targets.
PlanSpendsExactly ==
  Divided =>
    /\ \A i \in DOMAIN division.shares : division.shares[i] <= Demands[i]
    /\ Total(division.shares) = Min({division.budget, Total(Demands)})

\* Whoever is awake has its minimum before anybody is brought towards a target: a
\* share above a minimum and a share below one never occur in the same plan.
MinimaComeFirst ==
  Divided =>
    \A i, j \in DOMAIN division.shares :
      division.shares[i] > LeastShare(division.crowd[i]) => division.shares[j] >= LeastShare(division.crowd[j])

\* A plan is the one the allocator promises: exact, and fair to the minima.
PlanIsRight == PlanSpendsExactly /\ MinimaComeFirst
=============================================================================
