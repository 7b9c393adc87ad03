----------------------------- MODULE SharedSearch -----------------------------
(***************************************************************************)
(* What work sharing promises, without messages, threads and termination:  *)
(* a search space is searched by several nodes, and a node that has work   *)
(* may give some of it to another one that has none.  A branch is on the   *)
(* stacks of one node, assigned to one node or explored; it is given up    *)
(* only with a node that has gone.  Module WorkSharing implements this.    *)
(***************************************************************************)

CONSTANTS
  Node,        \* the nodes of the ring
  Initiator,   \* the node that begins with the whole search space
  Units        \* the branches of the search space

VARIABLES
  stacks,      \* the branches each node searches
  assigned,    \* the branches that have been given to a node, under way to it
  explored,
  gone         \* the nodes that have left the computation

vars == <<stacks, assigned, explored, gone>>

Init ==
  /\ stacks = [n \in Node |-> IF n = Initiator THEN Units ELSE {}]
  /\ assigned = [n \in Node |-> {}]
  /\ explored = {}
  /\ gone = {}

Explore(n) ==
  /\ \E u \in stacks[n] :
        /\ stacks' = [stacks EXCEPT ![n] = @ \ {u}]
        /\ explored' = explored \cup {u}
  /\ UNCHANGED <<assigned, gone>>

\* Neither side of a split is empty, and nobody is given work twice.
HandOver(n, m) ==
  /\ m # n
  /\ assigned[m] = {}
  /\ \E given \in (SUBSET stacks[n]) \ {{}, stacks[n]} :
        /\ stacks' = [stacks EXCEPT ![n] = @ \ given]
        /\ assigned' = [assigned EXCEPT ![m] = given]
  /\ UNCHANGED <<explored, gone>>

\* Only empty stacks are replaced.
Receive(n) ==
  /\ assigned[n] # {}
  /\ stacks[n] = {}
  /\ stacks' = [stacks EXCEPT ![n] = assigned[n]]
  /\ assigned' = [assigned EXCEPT ![n] = {}]
  /\ UNCHANGED <<explored, gone>>

Leave(n) ==
  /\ n \notin gone
  /\ gone' = gone \cup {n}
  /\ UNCHANGED <<stacks, assigned, explored>>

\* What comes for a node that has gone is dropped.
Lose(n) ==
  /\ n \in gone
  /\ assigned' = [assigned EXCEPT ![n] = {}]
  /\ UNCHANGED <<stacks, explored, gone>>

Next ==
  \E n \in Node :
    Explore(n) \/ (\E m \in Node : HandOver(n, m)) \/ Receive(n) \/ Leave(n) \/ Lose(n)

Spec == Init /\ [][Next]_vars

-----------------------------------------------------------------------------
\* Every branch is explored or in one place, and only with a node that has gone
\* is work lost.
NothingLost ==
  \A u \in Units :
    \/ u \in explored
    \/ \E n \in Node : u \in stacks[n] \cup assigned[n]
    \/ gone # {}

OnePlace ==
  \A m, n \in Node :
    /\ stacks[m] \cap (assigned[n] \cup explored) = {}
    /\ assigned[m] \cap explored = {}
    /\ m # n => stacks[m] \cap stacks[n] = {} /\ assigned[m] \cap assigned[n] = {}
=============================================================================
