---------------------------- MODULE MCSearchStack ----------------------------
(***************************************************************************)
(* Instances of SearchStack for TLC.                                       *)
(***************************************************************************)
EXTENDS SearchStack

\* The instances of three items of which two fit at most, whatever their weights,
\* where the last item costs more or less than the others.
MCSmallInstances ==
  {p \in [instanceSize : {3}, capacity : {2}, weight : [0 .. 2 -> 1 .. 3], cost : [0 .. 2 -> 1 .. 2]] :
     /\ MapThenSumSet(LAMBDA i : p.weight[i], 0 .. 2) > p.capacity
     /\ p.cost[0] = p.cost[1] /\ p.cost[1] # p.cost[2]}

\* Five items, of which two or three fit.
MCFiveItems ==
  {[instanceSize |-> 5, capacity |-> 4,
    weight |-> [i \in 0 .. 4 |-> <<4, 2, 3, 1, 1>>[i + 1]],
    cost |-> [i \in 0 .. 4 |-> <<2, 1, 2, 1, 1>>[i + 1]]]}

MCInstances == MCSmallInstances \cup MCFiveItems

=============================================================================
