---------------------------- MODULE ResultSharing ----------------------------
(***************************************************************************)
(* How the solutions found by the nodes of a ring travel, and which one    *)
(* the computation ends with: the solution half of synchronize(),          *)
(* informResult, the terminal RESULT and TERMINATE of isWorkAvailable(),   *)
(* informTerminate, and the solution fields of Computation.                *)
(*                                                                         *)
(* A configuration is abstracted to the cost it really has, so a pair of   *)
(* an optimum and a configuration is consistent when the two are equal.    *)
(* How work is shared and how its end is detected is WorkSharing's; here a *)
(* node stops and resumes searching as that module lets it, and only the   *)
(* last round of the termination token is modelled, the one whose messages *)
(* the terminal RESULT follows.  No solution is absolute.                  *)
(***************************************************************************)
EXTENDS Naturals, Sequences, FiniteSets

CONSTANTS
  Node,        \* node identifiers
  Right,       \* Right[n] is the node that n sends its boomerangs to
  Initiator,   \* the node that starts the search
  Late,        \* the nodes that may join after the search has begun
  Best,        \* the costs of configurations are 0 .. Best
  Solutions    \* bound: how many solutions are found

\* One ring of at least two nodes: networkModule->isSingle() is false.
ASSUME RingAssumption ==
  /\ Initiator \in Node
  /\ Late \subseteq Node \ {Initiator}
  /\ Right \in [Node -> Node]
  /\ \A m, n \in Node : Right[m] = Right[n] => m = n
  /\ \A n \in Node : Right[n] # n
  /\ \A S \in SUBSET Node :
        (S # {} /\ \A n \in S : Right[n] \in S) => S = Node

ASSUME SolutionAssumption == Best \in Nat /\ Solutions \in Nat

\* opt_t, and the cost of a configuration.  The search starts from cost 0.
Cost == 0 .. Best

Message ==
  [type : {"RESULT"}, sourceNode : Node, slotA : Cost, config : Cost, terminal : BOOLEAN]
    \cup [type : {"TERMINATE"}, sourceNode : Node, slotA : Cost, config : Cost]
    \cup [type : {"TERMINATION_TOKEN"}, sourceNode : Node]

\* Where the main thread of a node is.
\*   out     not in this computation yet
\*   join    in the first isWorkAvailable of a node that joins
\*   hack    given its first work, about to synchronize
\*   dfs     in Computation::DFS
\*   idle    in isWorkAvailable
\*   leader  in isWorkAvailable, waiting for its token
\*   gather  in isWorkAvailable, waiting for its terminal RESULT
\*   await   in isWorkAvailable, waiting for commandTerminate
\*   ended   out of the computation
Phase == {"out", "join", "hack", "dfs", "idle", "leader", "gather", "await", "ended"}

VARIABLES
  phase,                \* main thread
  awake,                \* has the condition a leader waits on been signalled?
  sendQueue,            \* Network::sendQueue
  forward,              \* what the Boomerang handler has yet to pass on: <<>> or <<message>>
  optimum,              \* Computation fields
  optimalConfig,
  newSolutionFound,
  circleSolutionOpt,    \* Synchronization fields
  circleConfiguration,
  haveNewCirlceSolution,
  mySolutionOpt,
  myConfiguration,
  haveMySolution,
  finds                 \* history: how many solutions have been found

compVars   == <<optimum, optimalConfig, newSolutionFound>>
circleVars == <<circleSolutionOpt, circleConfiguration, haveNewCirlceSolution>>
myVars     == <<mySolutionOpt, myConfiguration, haveMySolution>>
netVars    == <<sendQueue, forward>>
vars == <<phase, awake, netVars, compVars, circleVars, myVars, finds>>

TypeOK ==
  /\ phase \in [Node -> Phase]
  /\ awake \in [Node -> BOOLEAN]
  /\ sendQueue \in [Node -> Seq(Message)]
  /\ forward \in [Node -> {<<>>} \cup {<<msg>> : msg \in Message}]
  /\ optimum \in [Node -> Cost]
  /\ optimalConfig \in [Node -> Cost]
  /\ newSolutionFound \in [Node -> BOOLEAN]
  /\ circleSolutionOpt \in [Node -> Cost]
  /\ circleConfiguration \in [Node -> Cost]
  /\ haveNewCirlceSolution \in [Node -> BOOLEAN]
  /\ mySolutionOpt \in [Node -> Cost]
  /\ myConfiguration \in [Node -> Cost]
  /\ haveMySolution \in [Node -> BOOLEAN]
  /\ finds \in 0 .. Solutions

Init ==
  /\ phase = [n \in Node |-> CASE n = Initiator -> "dfs"
                              [] n \in Late -> "out"
                              [] OTHER -> "join"]
  /\ awake = [n \in Node |-> FALSE]
  /\ sendQueue = [n \in Node |-> <<>>]
  /\ forward = [n \in Node |-> <<>>]
  /\ optimum = [n \in Node |-> 0]
  /\ optimalConfig = [n \in Node |-> 0]
  /\ newSolutionFound = [n \in Node |-> FALSE]
  /\ circleSolutionOpt = [n \in Node |-> 0]
  /\ circleConfiguration = [n \in Node |-> 0]
  /\ haveNewCirlceSolution = [n \in Node |-> FALSE]
  /\ mySolutionOpt = [n \in Node |-> 0]
  /\ myConfiguration = [n \in Node |-> 0]
  /\ haveMySolution = [n \in Node |-> FALSE]
  /\ finds = 0

\* Knapsack::isBetter
isBetter(thisOptimum, thanThisOptimum) == thisOptimum > thanThisOptimum

Send(n, msg) == sendQueue' = [sendQueue EXCEPT ![n] = Append(@, msg)]

-----------------------------------------------------------------------------
(***************************************************************************)
(* Main thread                                                             *)
(***************************************************************************)
\* startComputation of a node that joins.
Start(n) ==
  /\ phase[n] = "out"
  /\ phase' = [phase EXCEPT ![n] = "join"]
  /\ UNCHANGED <<awake, netVars, compVars, circleVars, myVars, finds>>

\* Mutant: costs are counted on top of the optimum.
CostsFromOptimum(n) == {optimum[n] + item : item \in Cost}

\* The costs of what Knapsack::expand reports: as good as the optimum or better.
CostsReported(n) == optimum[n] .. Best

NewSolution(n) ==
  /\ phase[n] = "dfs"
  /\ finds < Solutions
  /\ \E cost \in CostsReported(n) :
        /\ optimum' = [optimum EXCEPT ![n] = cost]
        /\ optimalConfig' = [optimalConfig EXCEPT ![n] = cost]
  /\ newSolutionFound' = [newSolutionFound EXCEPT ![n] = TRUE]
  /\ finds' = finds + 1
  /\ UNCHANGED <<phase, awake, netVars, circleVars, myVars>>

\* synchronize(), which of its two outcomes concern solutions: take the one
\* from the ring, send the node's own.
MineIsBetter(n) == isBetter(optimum[n], circleSolutionOpt[n])

\* Mutant: the comparison of synchronize the other way round.
AcceptsWorse(n) ==
  /\ haveNewCirlceSolution[n]
  /\ \/ ~newSolutionFound[n] /\ ~haveMySolution[n]
     \/ newSolutionFound[n] /\ MineIsBetter(n)
     \/ /\ ~newSolutionFound[n] /\ haveMySolution[n]
        /\ isBetter(mySolutionOpt[n], circleSolutionOpt[n])

Accepts(n) ==
  /\ haveNewCirlceSolution[n]
  /\ \/ ~newSolutionFound[n] /\ ~haveMySolution[n]
     \/ newSolutionFound[n] /\ ~MineIsBetter(n)
     \/ /\ ~newSolutionFound[n] /\ haveMySolution[n]
        /\ ~isBetter(mySolutionOpt[n], circleSolutionOpt[n])

Sends(n) == newSolutionFound[n] /\ (haveNewCirlceSolution[n] => MineIsBetter(n))

Result(n, cost, config, terminal) ==
  [type |-> "RESULT", sourceNode |-> n, slotA |-> cost, config |-> config, terminal |-> terminal]

\* The fields after a call that accepts: setSolution, and mySolutionOpt.
AcceptCircle(n) ==
  /\ optimum' = [optimum EXCEPT ![n] = circleSolutionOpt[n]]
  /\ optimalConfig' = [optimalConfig EXCEPT ![n] = circleConfiguration[n]]
  /\ mySolutionOpt' = [mySolutionOpt EXCEPT ![n] = circleSolutionOpt[n]]
  /\ UNCHANGED <<circleSolutionOpt, sendQueue>>

\* ... that sends: circleSolutionOpt takes the cost sent.
SendMine(n) ==
  /\ Send(n, Result(n, optimum[n], optimalConfig[n], FALSE))
  /\ circleSolutionOpt' = [circleSolutionOpt EXCEPT ![n] = optimum[n]]
  /\ mySolutionOpt' = [mySolutionOpt EXCEPT ![n] = optimum[n]]
  /\ UNCHANGED <<optimum, optimalConfig>>

\* synchronize(): called in the search, and once before it by a node that joins.
Synchronize(n) ==
  /\ phase[n] \in {"dfs", "hack"}
  /\ IF Accepts(n) THEN AcceptCircle(n)
     ELSE IF Sends(n) THEN SendMine(n)
     ELSE UNCHANGED <<optimum, optimalConfig, mySolutionOpt, circleSolutionOpt, sendQueue>>
  /\ myConfiguration' =
       [myConfiguration EXCEPT ![n] = IF newSolutionFound[n] THEN optimalConfig[n] ELSE @]
  /\ haveMySolution' = [haveMySolution EXCEPT ![n] = @ \/ newSolutionFound[n] \/ Accepts(n)]
  /\ newSolutionFound' = [newSolutionFound EXCEPT ![n] = FALSE]
  /\ haveNewCirlceSolution' = [haveNewCirlceSolution EXCEPT ![n] = FALSE]
  /\ phase' = [phase EXCEPT ![n] = "dfs"]
  /\ UNCHANGED <<awake, forward, circleConfiguration, finds>>

\* DFS has backtracked from its last state; start() calls isWorkAvailable.
StopSearch(n) ==
  /\ phase[n] = "dfs"
  /\ phase' = [phase EXCEPT ![n] = "idle"]
  /\ UNCHANGED <<awake, netVars, compVars, circleVars, myVars, finds>>

\* Another node splits its work; setWork clears newSolutionFound, and the main
\* thread goes on.  A node that joins sets it, to be told the ring's solution.
ResumeSearch(n) ==
  /\ phase[n] \in {"idle", "join"}
  /\ \E m \in Node : phase[m] = "dfs"
  /\ phase' = [phase EXCEPT ![n] = IF phase[n] = "join" THEN "hack" ELSE "dfs"]
  /\ newSolutionFound' = [newSolutionFound EXCEPT ![n] = phase[n] = "join"]
  /\ UNCHANGED <<awake, netVars, optimum, optimalConfig, circleVars, myVars, finds>>

\* The last round of the token: nobody searches any more.
BecomeLeader(n) ==
  /\ phase[n] \in {"idle", "join"}
  /\ \A m \in Node : phase[m] \in {"out", "idle", "join", "ended"}
  /\ Send(n, [type |-> "TERMINATION_TOKEN", sourceNode |-> n])
  /\ phase' = [phase EXCEPT ![n] = "leader"]
  /\ UNCHANGED <<awake, forward, compVars, circleVars, myVars, finds>>

\* "gather best result": from the leader's Computation.
GatherResult(n) ==
  /\ phase[n] = "leader"
  /\ awake[n]
  /\ mySolutionOpt' = [mySolutionOpt EXCEPT ![n] = optimum[n]]
  /\ myConfiguration' = [myConfiguration EXCEPT ![n] = optimalConfig[n]]
  /\ newSolutionFound' = [newSolutionFound EXCEPT ![n] = FALSE]
  /\ Send(n, Result(n, optimum[n], optimalConfig[n], TRUE))
  /\ awake' = [awake EXCEPT ![n] = FALSE]
  /\ phase' = [phase EXCEPT ![n] = "gather"]
  /\ UNCHANGED <<forward, optimum, optimalConfig, circleVars, haveMySolution, finds>>

\* Mutant: the configuration is read from the fields of the ring.
CommandTerminationWithCircle(n) ==
  /\ phase[n] = "gather"
  /\ awake[n]
  /\ Send(n, [type |-> "TERMINATE", sourceNode |-> n,
              slotA |-> mySolutionOpt[n], config |-> circleConfiguration[n]])
  /\ awake' = [awake EXCEPT ![n] = FALSE]
  /\ phase' = [phase EXCEPT ![n] = "await"]
  /\ UNCHANGED <<forward, compVars, circleVars, myVars, finds>>

\* The terminal RESULT came round: TERMINATE carries the fields of the leader.
CommandTermination(n) ==
  /\ phase[n] = "gather"
  /\ awake[n]
  /\ Send(n, [type |-> "TERMINATE", sourceNode |-> n,
              slotA |-> mySolutionOpt[n], config |-> myConfiguration[n]])
  /\ awake' = [awake EXCEPT ![n] = FALSE]
  /\ phase' = [phase EXCEPT ![n] = "await"]
  /\ UNCHANGED <<forward, compVars, circleVars, myVars, finds>>

-----------------------------------------------------------------------------
(***************************************************************************)
(* Receive thread: LeftNeighbourImpl::Boomerang at Right[m]                *)
(***************************************************************************)
InComputation(n) == phase[n] \notin {"out", "ended"}

\* The head of the queue of m reaches Right[m], which passes it on as msg after
\* it has released its locks, unless it is back at its source.
Arrives(m, type) ==
  /\ sendQueue[m] # <<>>
  /\ Head(sendQueue[m]).type = type
  /\ forward[Right[m]] = <<>>

PassOn(m, msg) ==
  /\ sendQueue' = [sendQueue EXCEPT ![m] = Tail(@)]
  /\ forward' = IF msg.sourceNode = Right[m] THEN forward
                ELSE [forward EXCEPT ![Right[m]] = <<msg>>]

Forward(n) ==
  /\ forward[n] # <<>>
  /\ Send(n, Head(forward[n]))
  /\ forward' = [forward EXCEPT ![n] = <<>>]
  /\ UNCHANGED <<phase, awake, compVars, circleVars, myVars, finds>>

\* Mutant: a worse solution goes on as it came.
PassedUnimproved(n, msg) == msg

\* informResult: what the message says when it goes on.
Passed(n, msg) ==
  IF isBetter(msg.slotA, circleSolutionOpt[n]) THEN msg
  ELSE [msg EXCEPT !.slotA = circleSolutionOpt[n], !.config = circleConfiguration[n]]

\* Mutant: the solution of the ring is taken whatever it is.
LearnsAnything(n, msg) == TRUE

Learns(n, msg) == isBetter(msg.slotA, circleSolutionOpt[n])

\* RESULT, informResult; a terminal one wakes the leader it is back at.
ReceiveResult(m) ==
  LET n == Right[m]
      msg == Head(sendQueue[m])
  IN  /\ Arrives(m, "RESULT")
      /\ InComputation(n)
      /\ circleSolutionOpt' = [circleSolutionOpt EXCEPT ![n] = IF Learns(n, msg) THEN msg.slotA ELSE @]
      /\ circleConfiguration' = [circleConfiguration EXCEPT ![n] = IF Learns(n, msg) THEN msg.config ELSE @]
      /\ haveNewCirlceSolution' = [haveNewCirlceSolution EXCEPT ![n] = @ \/ Learns(n, msg)]
      /\ awake' = [awake EXCEPT ![n] = @ \/ (msg.terminal /\ phase[n] = "gather")]
      /\ PassOn(m, Passed(n, msg))
      /\ UNCHANGED <<phase, compVars, myVars, finds>>

\* TERMINATION_TOKEN: every other node has stopped, or is not in the
\* computation, and passes it on.
ReceiveToken(m) ==
  LET n == Right[m]
      msg == Head(sendQueue[m])
  IN  /\ Arrives(m, "TERMINATION_TOKEN")
      /\ awake' = [awake EXCEPT ![n] = @ \/ msg.sourceNode = n]
      /\ IF msg.sourceNode = n
         THEN sendQueue' = [sendQueue EXCEPT ![m] = Tail(@)]
         ELSE sendQueue' = [sendQueue EXCEPT ![m] = Tail(@), ![n] = Append(@, msg)]
      /\ UNCHANGED <<phase, forward, compVars, circleVars, myVars, finds>>

\* TERMINATE, informTerminate; isWorkAvailable then returns false.
ReceiveTerminate(m) ==
  LET n == Right[m]
      msg == Head(sendQueue[m])
  IN  /\ Arrives(m, "TERMINATE")
      /\ InComputation(n)
      /\ circleSolutionOpt' = [circleSolutionOpt EXCEPT ![n] = msg.slotA]
      /\ circleConfiguration' = [circleConfiguration EXCEPT ![n] = msg.config]
      /\ optimum' = [optimum EXCEPT ![n] = msg.slotA]
      /\ optimalConfig' = [optimalConfig EXCEPT ![n] = msg.config]
      /\ phase' = [phase EXCEPT ![n] = "ended"]
      /\ PassOn(m, msg)
      /\ UNCHANGED <<awake, newSolutionFound, haveNewCirlceSolution, myVars, finds>>

\* A message that finds no currentSyncModule.
ReceiveOutside(m) ==
  /\ Arrives(m, "RESULT") \/ Arrives(m, "TERMINATE")
  /\ ~InComputation(Right[m])
  /\ PassOn(m, Head(sendQueue[m]))
  /\ UNCHANGED <<phase, awake, compVars, circleVars, myVars, finds>>

-----------------------------------------------------------------------------
MainStep(n) ==
  \/ Synchronize(n)
  \/ StopSearch(n)
  \/ BecomeLeader(n)
  \/ GatherResult(n)
  \/ CommandTermination(n)

Deliver(m) == ReceiveResult(m) \/ ReceiveToken(m) \/ ReceiveTerminate(m) \/ ReceiveOutside(m)

Next ==
  \E n \in Node : Start(n) \/ MainStep(n) \/ NewSolution(n) \/ ResumeSearch(n) \/ Deliver(n) \/ Forward(n)

Spec == Init /\ [][Next]_vars

-----------------------------------------------------------------------------
(***************************************************************************)
(* Properties                                                              *)
(***************************************************************************)
InFlight(type) ==
  \/ \E m \in Node : \E i \in DOMAIN sendQueue[m] : sendQueue[m][i].type = type
  \/ \E m \in Node : forward[m] # <<>> /\ Head(forward[m]).type = type

\* Nodes that have heard of every announcement: those that took part from the
\* beginning, and those that have joined and made theirs.
Informed == {n \in Node : phase[n] # "ended" /\ (n \in Late => haveMySolution[n])}

\* Once no RESULT is under way and nobody has been told to terminate, the nodes
\* agree on the best solution of the ring: synchronize and informResult lose no
\* announcement, however many cross each other or change on their way, and the
\* second of two nodes learns the solution from the answer to its own.
RingAgrees ==
  ~InFlight("RESULT") /\ (\A n \in Node : phase[n] # "ended")
    => \A m, n \in Informed : circleSolutionOpt[m] = circleSolutionOpt[n]

\* What a searching node knows of the ring and has dealt with is no better than
\* its own optimum: synchronize never drops a better bound for its pruning.
BoundKept ==
  \A n \in Node : phase[n] = "dfs" /\ ~haveNewCirlceSolution[n] => optimum[n] >= circleSolutionOpt[n]

\* The solution a node keeps for the ring gets worse only when it terminates.
CircleNeverWorse ==
  [][\A n \in Node : phase'[n] # "ended" => circleSolutionOpt'[n] >= circleSolutionOpt[n]]_vars

\* Computation.h:137, "current best known solution": the optimum of a node and
\* the configuration it will print belong together.
SolutionMatches == \A n \in Node : optimum[n] = optimalConfig[n]

=============================================================================
