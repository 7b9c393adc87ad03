----------------------------- MODULE SearchStack -----------------------------
(***************************************************************************)
(* The depth-first search of class Computation, the branching and bounding *)
(* of Knapsack, and what splitWork and setWork do to the stacks when a     *)
(* node gives a part of its search space to another.                       *)
(*                                                                         *)
(* A configuration is the set of the items taken.  Level k of the two      *)
(* stacks is the record stack[k + 1]: a configuration and the interval     *)
(* [from, to) of items by which it is still to be extended; stackTop is    *)
(* Len(stack) - 1.  costCache and weightCache are functions of the         *)
(* configuration, as dataChanged computes them.  How an assignment travels *)
(* is WorkSharing's; here it arrives at once.  How a solution travels, and *)
(* which one the computation ends with, is ResultSharing's; here one that  *)
(* was sent to the ring may reach the next synchronize() of any node, or   *)
(* not.                                                                    *)
(***************************************************************************)
EXTENDS Integers, Sequences, FiniteSets, FiniteSetsExt

CONSTANTS
  Node,        \* nodes that search
  Initiator,   \* the node that has the whole search space first
  Instances    \* the instance files of the Knapsack problem

\* An instance has at least one item.
ASSUME InstanceAssumption ==
  /\ Initiator \in Node
  /\ \A p \in Instances :
        /\ p.instanceSize \in Nat \ {0} /\ p.capacity \in Nat
        /\ p.weight \in [0 .. p.instanceSize - 1 -> Nat]
        /\ p.cost \in [0 .. p.instanceSize - 1 -> Nat]

\* Its items do not all fit: a stack with all of them taken would be one level
\* higher than costCache is long.
ASSUME CapacityAssumption ==
  \A p \in Instances :
     MapThenSumSet(LAMBDA i : p.weight[i], 0 .. p.instanceSize - 1) > p.capacity

VARIABLES
  instance,            \* the instance being solved
  stack,               \* configStack and intervalStack, down to stackTop
  workSplitPossible,
  optimum,             \* Computation::optimum
  newSolutionFound,
  mySolutionOpt,       \* 0 while haveMySolution is false
  announced,           \* the costs of the solutions sent to the ring
  bestFound            \* history: the best cost that newSolution was ever called with

solutionVars == <<optimum, newSolutionFound, mySolutionOpt, announced, bestFound>>
vars == <<instance, stack, workSplitPossible, solutionVars>>

Item == 0 .. instance.instanceSize - 1

Level == [config : SUBSET Item, from : 0 .. instance.instanceSize, to : 0 .. instance.instanceSize]

CostOf(config) == MapThenSumSet(LAMBDA i : instance.cost[i], config)
WeightOf(config) == MapThenSumSet(LAMBDA i : instance.weight[i], config)

TypeOK ==
  /\ instance \in Instances
  /\ \A n \in Node : \A k \in DOMAIN stack[n] : stack[n][k] \in Level
  /\ \A n \in Node : Len(stack[n]) \in 0 .. instance.instanceSize
  /\ workSplitPossible \in [Node -> BOOLEAN]
  /\ optimum \in [Node -> Nat]
  /\ newSolutionFound \in [Node -> BOOLEAN]
  /\ mySolutionOpt \in [Node -> Nat]
  /\ announced \subseteq Nat
  /\ bestFound \in Nat

\* Computation::reinitialize; a node that joins has no work.
Root == [config |-> {}, from |-> 0, to |-> instance.instanceSize]

Init ==
  /\ instance \in Instances
  /\ stack = [n \in Node |-> IF n = Initiator THEN <<Root>> ELSE <<>>]
  /\ workSplitPossible = [n \in Node |-> TRUE]
  /\ optimum = [n \in Node |-> 0]
  /\ newSolutionFound = [n \in Node |-> FALSE]
  /\ mySolutionOpt = [n \in Node |-> 0]
  /\ announced = {}
  /\ bestFound = 0

-----------------------------------------------------------------------------
(***************************************************************************)
(* Knapsack::evaluate and Knapsack::expand                                 *)
(***************************************************************************)
Top(s) == s[Len(s)]

Interval(level) == level.from .. level.to - 1

\* maxPossibleCost[i]
maxPossibleCost(i) == CostOf(i .. instance.instanceSize - 1)

Fits(level, i) ==
  i \notin level.config /\ WeightOf(level.config) + instance.weight[i] <= instance.capacity

\* Mutant: the bound of the next item is used.
ReachesNext(level, i, opt) ==
  i + 1 \in Item => CostOf(level.config) + maxPossibleCost(i + 1) >= opt

\* From item i on the optimum can still be reached.
Reaches(level, i, opt) == CostOf(level.config) + maxPossibleCost(i) >= opt

\* The items by which the state may be extended.
Branches(level) == {i \in Interval(level) : Fits(level, i)}

evaluate(level, opt) ==
  /\ Branches(level) # {}
  /\ \A i \in level.from .. Min(Branches(level)) : Reaches(level, i, opt)

\* Mutant: the interval of the state is left as it is.
UnnudgedLevel(level) == level

\* "nudge left bound"
Nudged(level) == [level EXCEPT !.from = @ + 1]

\* Mutant: one branch too many.
ChildPastEnd(level, i) ==
  [config |-> level.config \cup {i}, from |-> i + 1, to |-> instance.instanceSize + 1]

Child(level, i) ==
  [config |-> level.config \cup {i}, from |-> i + 1, to |-> instance.instanceSize]

\* Computation::newSolution.
newSolution(n, cost) ==
  /\ optimum' = [optimum EXCEPT ![n] = cost]
  /\ newSolutionFound' = [newSolutionFound EXCEPT ![n] = TRUE]
  /\ bestFound' = IF cost > bestFound THEN cost ELSE bestFound

Expand(n) ==
  /\ stack[n] # <<>>
  /\ evaluate(Top(stack[n]), optimum[n])
  /\ LET level == Top(stack[n])
         child == Child(level, Min(Branches(level)))
     IN  /\ stack' = [stack EXCEPT ![n] =
                        Append([@ EXCEPT ![Len(@)] = Nudged(level)], child)]
         /\ IF CostOf(child.config) >= optimum[n]
            THEN newSolution(n, CostOf(child.config))
            ELSE UNCHANGED <<optimum, newSolutionFound, bestFound>>
  /\ UNCHANGED <<instance, workSplitPossible, mySolutionOpt, announced>>

\* DFS: evaluate fails, --stackTop.
Backtrack(n) ==
  /\ stack[n] # <<>>
  /\ ~evaluate(Top(stack[n]), optimum[n])
  /\ stack' = [stack EXCEPT ![n] = SubSeq(@, 1, Len(@) - 1)]
  /\ UNCHANGED <<instance, workSplitPossible, solutionVars>>

-----------------------------------------------------------------------------
(***************************************************************************)
(* Synchronization::synchronize and Computation::setSolution               *)
(***************************************************************************)
isBetter(thisOptimum, thanThisOptimum) == thisOptimum > thanThisOptimum

\* What the solution of the ring is compared with.  It is not the optimum when
\* setWork has cleared newSolutionFound.
Compared(n) == IF newSolutionFound[n] THEN optimum[n] ELSE mySolutionOpt[n]

\* A solution that informResult has kept since the last call is taken, better
\* than the optimum of the node or worse.
AcceptCircle(n) ==
  /\ \E cost \in announced :
        /\ isBetter(cost, mySolutionOpt[n]) /\ ~isBetter(Compared(n), cost)
        /\ optimum' = [optimum EXCEPT ![n] = cost]
        /\ mySolutionOpt' = [mySolutionOpt EXCEPT ![n] = cost]
  /\ UNCHANGED announced

\* The ring has none, or none as good.
SendMine(n) ==
  /\ newSolutionFound[n]
  /\ announced' = announced \cup {optimum[n]}
  /\ mySolutionOpt' = [mySolutionOpt EXCEPT ![n] = optimum[n]]
  /\ UNCHANGED optimum

Synchronize(n) ==
  /\ stack[n] # <<>>
  /\ AcceptCircle(n) \/ SendMine(n)
  /\ newSolutionFound' = [newSolutionFound EXCEPT ![n] = FALSE]
  /\ UNCHANGED <<instance, stack, workSplitPossible, bestFound>>

-----------------------------------------------------------------------------
(***************************************************************************)
(* Computation::splitWork and Computation::setWork                         *)
(***************************************************************************)
branchCount(level) == level.to - level.from

\* Where an interval of two branches or more is cut: nine tenths are given.
cut(level) == level.to - (branchCount(level) * 9) \div 10

\* The levels splitWork looks at: none above 60 % of the theoretical maximum.
Shallow(s) == {k \in DOMAIN s : k - 1 <= ((instance.instanceSize + 1) * 3) \div 5}

Splittable(s) == {k \in Shallow(s) : branchCount(s[k]) >= 2}

\* The levels up to the one that is split, the last one with interval [from, to).
Unit(s, k, from, to) == [SubSeq(s, 1, k) EXCEPT ![k].from = from, ![k].to = to]

\* Mutant: the unit starts one branch after the cut.
SentAfterCut(s, k) == Unit(s, k, cut(s[k]) + 1, s[k].to)

workToSend(s, k) == Unit(s, k, cut(s[k]), s[k].to)

\* splitWork is called once synchronize() has dealt with the solutions.
MaySplit(n) == stack[n] # <<>> /\ ~newSolutionFound[n] /\ workSplitPossible[n]

\* splitWork succeeds; n keeps the levels below the one that is split too.
SplitWork(n, m) ==
  /\ MaySplit(n) /\ stack[m] = <<>>
  /\ Splittable(stack[n]) # {}
  /\ LET k == Min(Splittable(stack[n]))
     IN  stack' = [stack EXCEPT ![n][k].to = cut(stack[n][k]),
                                ![m] = workToSend(stack[n], k)]
  /\ workSplitPossible' = [workSplitPossible EXCEPT ![m] = TRUE]
  /\ newSolutionFound' = [newSolutionFound EXCEPT ![m] = FALSE]
  /\ UNCHANGED <<instance, optimum, mySolutionOpt, announced, bestFound>>

\* splitWork fails, and will not try again before the next setWork.
SplitFails(n) ==
  /\ MaySplit(n)
  /\ Splittable(stack[n]) = {}
  /\ workSplitPossible' = [workSplitPossible EXCEPT ![n] = FALSE]
  /\ UNCHANGED <<instance, stack, solutionVars>>

-----------------------------------------------------------------------------
DFS(n) == Expand(n) \/ Backtrack(n)

Next ==
  \E n \in Node :
    \/ DFS(n)
    \/ Synchronize(n)
    \/ \E m \in Node \ {n} : SplitWork(n, m)
    \/ SplitFails(n)

Spec == Init /\ [][Next]_vars

\* The search thread runs; nothing makes a node ask for a split.
FairSpec == Spec /\ \A n \in Node : WF_vars(DFS(n))

-----------------------------------------------------------------------------
(***************************************************************************)
(* Properties                                                              *)
(***************************************************************************)
\* The configurations that the search reaches from a level: those whose first
\* additional item is in the interval.
Below(config, level) ==
  /\ level.config \subseteq config /\ level.config # config
  /\ Min(config \ level.config) \in Interval(level)

Feasible == {config \in SUBSET Item : WeightOf(config) <= instance.capacity}

\* Branching, bounding, the nudge of the interval and every split lose nothing:
\* each configuration that would improve on the best solution ever found is below
\* some level of some stack.  (A node may well forget that best solution: see
\* Compared.)
Covered ==
  \A config \in Feasible :
    CostOf(config) > bestFound =>
      \E n \in Node : \E k \in DOMAIN stack[n] : Below(config, stack[n][k])

\* What a node with this stack is still going to look at, unless it is pruned.
Ahead(s) == {config \in SUBSET Item : \E k \in DOMAIN s : Below(config, s[k])}

\* A split (splitWork at n, setWork at m) loses no configuration and sends
\* nobody to one that was not ahead, though the two stacks share the levels above
\* the cut; what it gives away and what it keeps of the level it cuts are two
\* parts with a branch at least in each (Computation.cpp:166).
SplitsDivide ==
  [][\A n \in Node : \A m \in Node \ {n} :
       SplitWork(n, m) =>
         /\ Ahead(stack'[n]) \cup Ahead(stack'[m]) = Ahead(stack[n])
         /\ LET given == Interval(Top(stack'[m]))
                kept == Interval(stack'[n][Len(stack'[m])])
            IN  given # {} /\ kept # {} /\ given \cap kept = {}]_vars

\* When no node has work left, one of them has found the optimum of the instance,
\* by its definition, at some time.  (Whether a node still has it is another
\* matter: AcceptCircle may have replaced it by less.)
SolvesKnapsack ==
  (\A n \in Node : stack[n] = <<>>) => bestFound = Max({CostOf(config) : config \in Feasible})

\* However often work is split, the search ends.
SearchEnds == <>[](\A n \in Node : stack[n] = <<>>)

=============================================================================
