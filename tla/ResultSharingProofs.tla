-------------------------- MODULE ResultSharingProofs --------------------------
(***************************************************************************)
(* Theorems about ResultSharing, for every ring of nodes, every range of   *)
(* costs and any number of solutions: bounds are never dropped, what a     *)
(* node keeps for the ring never gets worse before the end, and where all  *)
(* nodes take part from the beginning they agree once no RESULT is under   *)
(* way, and their configurations belong to their costs.                    *)
(***************************************************************************)
EXTENDS ResultSharing, TLAPS

LEMMA CostNat == Cost \subseteq Nat
BY SolutionAssumption DEF Cost

LEMMA InitType == Init => TypeOK
<1>1. 0 \in Cost /\ 0 \in 0 .. Solutions
  BY SolutionAssumption DEF Cost
<1> QED BY <1>1 DEF Init, TypeOK, Phase

\* The messages nodes make are messages.
LEMMA ResultType ==
  ASSUME NEW n \in Node, NEW cost \in Cost, NEW config \in Cost
  PROVE  Result(n, cost, config, FALSE) \in Message /\ Result(n, cost, config, TRUE) \in Message
BY DEF Result, Message

LEMMA SynchronizeType ==
  ASSUME TypeOK, NEW n \in Node, Synchronize(n)
  PROVE  TypeOK'
<1>1. /\ optimum' \in [Node -> Cost] /\ optimalConfig' \in [Node -> Cost]
      /\ mySolutionOpt' \in [Node -> Cost] /\ circleSolutionOpt' \in [Node -> Cost]
      /\ sendQueue' \in [Node -> Seq(Message)]
  <2>1. CASE Accepts(n)
    BY <2>1 DEF Synchronize, AcceptCircle, TypeOK
  <2>2. CASE ~Accepts(n) /\ Sends(n)
    <3>1. Result(n, optimum[n], optimalConfig[n], FALSE) \in Message
      <4>1. optimum[n] \in Cost /\ optimalConfig[n] \in Cost
        BY DEF TypeOK
      <4> QED BY <4>1, ResultType
    <3>2. PICK msg \in Message : Send(n, msg)
      BY <2>2, <3>1 DEF Synchronize, SendMine
    <3>3. sendQueue' \in [Node -> Seq(Message)]
      BY <3>2 DEF Send, TypeOK
    <3> QED BY <2>2, <3>3 DEF Synchronize, SendMine, TypeOK
  <2>3. CASE ~Accepts(n) /\ ~Sends(n)
    BY <2>3 DEF Synchronize, TypeOK
  <2> QED BY <2>1, <2>2, <2>3
<1>2. /\ myConfiguration' \in [Node -> Cost]
      /\ haveMySolution' \in [Node -> BOOLEAN]
      /\ newSolutionFound' \in [Node -> BOOLEAN]
      /\ haveNewCirlceSolution' \in [Node -> BOOLEAN]
      /\ phase' \in [Node -> Phase]
  <2>1. (haveMySolution[n] \/ newSolutionFound[n] \/ Accepts(n)) \in BOOLEAN
    OBVIOUS
  <2> QED BY <2>1 DEF Synchronize, TypeOK, Phase
<1> QED BY <1>1, <1>2 DEF Synchronize, TypeOK

LEMMA MainStepType ==
  ASSUME TypeOK, NEW n \in Node, Start(n) \/ MainStep(n) \/ NewSolution(n) \/ ResumeSearch(n)
  PROVE  TypeOK'
<1>1. CASE Start(n)
  BY <1>1 DEF Start, TypeOK, Phase, netVars, compVars, circleVars, myVars
<1>2. CASE Synchronize(n)
  BY <1>2, SynchronizeType
<1>3. CASE StopSearch(n)
  BY <1>3 DEF StopSearch, TypeOK, Phase, netVars, compVars, circleVars, myVars
<1>4. CASE BecomeLeader(n)
  <2>1. [type |-> "TERMINATION_TOKEN", sourceNode |-> n] \in Message
    BY DEF Message
  <2> QED BY <1>4, <2>1 DEF BecomeLeader, Send, TypeOK, Phase, compVars, circleVars, myVars
<1>5. CASE GatherResult(n)
  <2>1. Result(n, optimum[n], optimalConfig[n], TRUE) \in Message
    <3>1. optimum[n] \in Cost /\ optimalConfig[n] \in Cost
      BY DEF TypeOK
    <3> QED BY <3>1, ResultType
  <2>2. PICK msg \in Message : Send(n, msg)
    BY <1>5, <2>1 DEF GatherResult
  <2>3. sendQueue' \in [Node -> Seq(Message)]
    BY <2>2 DEF Send, TypeOK
  <2> QED BY <1>5, <2>3 DEF GatherResult, TypeOK, Phase, circleVars
<1>6. CASE CommandTermination(n)
  <2>1. [type |-> "TERMINATE", sourceNode |-> n,
         slotA |-> mySolutionOpt[n], config |-> myConfiguration[n]] \in Message
    BY DEF Message, TypeOK
  <2> QED
    BY <1>6, <2>1 DEF CommandTermination, Send, TypeOK, Phase, compVars, circleVars, myVars
<1>7. CASE NewSolution(n)
  <2>1. PICK cost \in CostsReported(n) :
          /\ optimum' = [optimum EXCEPT ![n] = cost]
          /\ optimalConfig' = [optimalConfig EXCEPT ![n] = cost]
    BY <1>7 DEF NewSolution
  <2>2. cost \in Cost
    BY SolutionAssumption DEF CostsReported, Cost, TypeOK
  <2>3. finds + 1 \in 0 .. Solutions
    BY <1>7, SolutionAssumption DEF NewSolution, TypeOK
  <2> QED BY <1>7, <2>1, <2>2, <2>3 DEF NewSolution, TypeOK, netVars, circleVars, myVars
<1>8. CASE ResumeSearch(n)
  BY <1>8 DEF ResumeSearch, TypeOK, Phase, netVars, circleVars, myVars
<1> QED BY <1>1, <1>2, <1>3, <1>4, <1>5, <1>6, <1>7, <1>8 DEF MainStep

\* What the handlers do to the channels.
LEMMA ArrivesType ==
  ASSUME TypeOK, NEW m \in Node, sendQueue[m] # <<>>
  PROVE  /\ Right[m] \in Node
         /\ Head(sendQueue[m]) \in Message
         /\ Tail(sendQueue[m]) \in Seq(Message)
BY RingAssumption DEF TypeOK

LEMMA PassOnType ==
  ASSUME TypeOK, NEW m \in Node, sendQueue[m] # <<>>, NEW msg \in Message, PassOn(m, msg)
  PROVE  /\ sendQueue' \in [Node -> Seq(Message)]
         /\ forward' \in [Node -> {<<>>} \cup {<<msg2>> : msg2 \in Message}]
BY ArrivesType DEF PassOn, TypeOK

\* A RESULT has a cost and a configuration, also when it has been changed.
LEMMA PassedType ==
  ASSUME TypeOK, NEW n \in Node, NEW msg \in Message, msg.type = "RESULT"
  PROVE  msg.slotA \in Cost /\ msg.config \in Cost /\ Passed(n, msg) \in Message
<1>1. msg \in [type : {"RESULT"}, sourceNode : Node, slotA : Cost, config : Cost, terminal : BOOLEAN]
  BY DEF Message
<1> QED BY <1>1 DEF Passed, Message, TypeOK

LEMMA DeliverType ==
  ASSUME TypeOK, NEW m \in Node, Deliver(m)
  PROVE  TypeOK'
<1> DEFINE n == Right[m]
           msg == Head(sendQueue[m])
<1>0. sendQueue[m] # <<>> /\ n \in Node /\ msg \in Message
  <2>1. sendQueue[m] # <<>>
    BY DEF Deliver, ReceiveResult, ReceiveToken, ReceiveTerminate, ReceiveOutside, Arrives
  <2> QED BY <2>1, ArrivesType
<1>1. CASE ReceiveResult(m)
  <2>1. msg.type = "RESULT"
    BY <1>1 DEF ReceiveResult, Arrives
  <2>2. msg.slotA \in Cost /\ msg.config \in Cost /\ Passed(n, msg) \in Message
    BY <1>0, <2>1, PassedType
  <2>3. /\ sendQueue' \in [Node -> Seq(Message)]
        /\ forward' \in [Node -> {<<>>} \cup {<<msg2>> : msg2 \in Message}]
    BY <1>0, <1>1, <2>2, PassOnType DEF ReceiveResult
  <2>4. awake' \in [Node -> BOOLEAN] /\ haveNewCirlceSolution' \in [Node -> BOOLEAN]
    <3>1. /\ (awake[n] \/ (msg.terminal /\ phase[n] = "gather")) \in BOOLEAN
          /\ (haveNewCirlceSolution[n] \/ Learns(n, msg)) \in BOOLEAN
      OBVIOUS
    <3> QED BY <1>0, <1>1, <3>1 DEF ReceiveResult, TypeOK
  <2> QED
    BY <1>0, <1>1, <2>2, <2>3, <2>4 DEF ReceiveResult, TypeOK, compVars, myVars
<1>2. CASE ReceiveToken(m)
  <2>1. Tail(sendQueue[m]) \in Seq(Message)
    BY <1>0, ArrivesType
  <2>2. sendQueue' \in [Node -> Seq(Message)]
    <3>1. sendQueue \in [Node -> Seq(Message)]
      BY DEF TypeOK
    <3>2. CASE sendQueue' = [sendQueue EXCEPT ![m] = Tail(@)]
      BY <2>1, <3>1, <3>2
    <3>3. CASE sendQueue' = [sendQueue EXCEPT ![m] = Tail(@), ![n] = Append(@, msg)]
      <4>1. n # m /\ Append(sendQueue[n], msg) \in Seq(Message)
        BY <1>0, <3>1, RingAssumption
      <4> HIDE DEF n, msg
      <4> QED BY <1>0, <2>1, <3>1, <3>3, <4>1
    <3> QED BY <1>2, <3>2, <3>3 DEF ReceiveToken
  <2>3. awake' \in [Node -> BOOLEAN]
    BY <1>0, <1>2 DEF ReceiveToken, TypeOK
  <2> QED BY <1>2, <2>2, <2>3 DEF ReceiveToken, TypeOK, compVars, circleVars, myVars
<1>3. CASE ReceiveTerminate(m)
  <2>1. msg.type = "TERMINATE"
    BY <1>3 DEF ReceiveTerminate, Arrives
  <2>2. msg.slotA \in Cost /\ msg.config \in Cost
    BY <1>0, <2>1 DEF Message
  <2>3. /\ sendQueue' \in [Node -> Seq(Message)]
        /\ forward' \in [Node -> {<<>>} \cup {<<msg2>> : msg2 \in Message}]
    BY <1>0, <1>3, PassOnType DEF ReceiveTerminate
  <2> QED BY <1>0, <1>3, <2>2, <2>3 DEF ReceiveTerminate, TypeOK, Phase, myVars
<1>4. CASE ReceiveOutside(m)
  BY <1>0, <1>4, PassOnType DEF ReceiveOutside, TypeOK, compVars, circleVars, myVars
<1> QED BY <1>1, <1>2, <1>3, <1>4 DEF Deliver

LEMMA ForwardType ==
  ASSUME TypeOK, NEW n \in Node, Forward(n)
  PROVE  TypeOK'
<1>1. Head(forward[n]) \in Message
  BY DEF Forward, TypeOK
<1> QED BY <1>1 DEF Forward, Send, TypeOK, compVars, circleVars, myVars

LEMMA NextType == TypeOK /\ [Next]_vars => TypeOK'
<1> SUFFICES ASSUME TypeOK, [Next]_vars
             PROVE  TypeOK'
  OBVIOUS
<1>1. CASE UNCHANGED vars
  BY <1>1 DEF vars, netVars, compVars, circleVars, myVars, TypeOK
<1> QED BY <1>1, MainStepType, DeliverType, ForwardType DEF Next

\* The state of result sharing keeps its type, for any number of solutions.
THEOREM TypeCorrect == Spec => []TypeOK
BY InitType, NextType, PTL DEF Spec

-----------------------------------------------------------------------------
(***************************************************************************)
(* Bounds                                                                  *)
(***************************************************************************)
\* Wherever the main thread is: what a node has heard of and dealt with is no
\* better than its optimum, and what it has sent or accepted is not either.
BoundInv ==
  /\ TypeOK
  /\ \A n \in Node :
        /\ ~haveNewCirlceSolution[n] => optimum[n] >= circleSolutionOpt[n]
        /\ phase[n] # "ended" /\ haveMySolution[n] => optimum[n] >= mySolutionOpt[n]

\* What a step may do to the fields of node n.
Bound(n) ==
  /\ ~haveNewCirlceSolution'[n] => optimum'[n] >= circleSolutionOpt'[n]
  /\ phase'[n] # "ended" /\ haveMySolution'[n] => optimum'[n] >= mySolutionOpt'[n]
  /\ phase'[n] # "ended" => circleSolutionOpt'[n] >= circleSolutionOpt[n]

LEMMA SynchronizeBound ==
  ASSUME BoundInv, NEW n \in Node, Synchronize(n)
  PROVE  Bound(n)
<1>1. optimum[n] \in Nat /\ circleSolutionOpt[n] \in Nat /\ mySolutionOpt[n] \in Nat
  BY CostNat DEF BoundInv, TypeOK
<1>2. /\ haveMySolution'[n] <=> haveMySolution[n] \/ newSolutionFound[n] \/ Accepts(n)
      /\ phase[n] # "ended"
  BY DEF Synchronize, BoundInv, TypeOK
<1>3. CASE Accepts(n)
  <2>1. /\ optimum'[n] = circleSolutionOpt[n] /\ mySolutionOpt'[n] = circleSolutionOpt[n]
        /\ circleSolutionOpt'[n] = circleSolutionOpt[n]
    BY <1>3 DEF Synchronize, AcceptCircle, BoundInv, TypeOK
  <2> QED BY <1>1, <2>1 DEF Bound
<1>4. CASE ~Accepts(n) /\ Sends(n)
  <2>1. /\ optimum'[n] = optimum[n] /\ mySolutionOpt'[n] = optimum[n]
        /\ circleSolutionOpt'[n] = optimum[n]
    BY <1>4 DEF Synchronize, SendMine, BoundInv, TypeOK
  <2>2. optimum[n] >= circleSolutionOpt[n]
    BY <1>1, <1>4 DEF Sends, MineIsBetter, isBetter, BoundInv
  <2> QED BY <1>1, <2>1, <2>2 DEF Bound
<1>5. CASE ~Accepts(n) /\ ~Sends(n)
  <2>1. /\ optimum'[n] = optimum[n] /\ mySolutionOpt'[n] = mySolutionOpt[n]
        /\ circleSolutionOpt'[n] = circleSolutionOpt[n]
    BY <1>5 DEF Synchronize, BoundInv, TypeOK
  <2>2. ~newSolutionFound[n]
    BY <1>5 DEF Accepts, Sends
  <2>3. haveMySolution[n] => optimum[n] >= mySolutionOpt[n]
    BY <1>2 DEF BoundInv
  <2>4. optimum[n] >= circleSolutionOpt[n]
    <3>1. CASE ~haveNewCirlceSolution[n]
      BY <3>1 DEF BoundInv
    <3>2. CASE haveNewCirlceSolution[n]
      BY <1>1, <1>5, <2>2, <2>3, <3>2 DEF Accepts, isBetter
    <3> QED BY <3>1, <3>2
  <2> QED BY <1>1, <1>2, <1>5, <2>1, <2>2, <2>3, <2>4 DEF Bound
<1> QED BY <1>3, <1>4, <1>5

LEMMA MainStepBound ==
  ASSUME BoundInv, NEW k \in Node,
         Start(k) \/ MainStep(k) \/ NewSolution(k) \/ ResumeSearch(k) \/ Forward(k), NEW n \in Node
  PROVE  Bound(n)
<1>1. optimum[n] \in Nat /\ circleSolutionOpt[n] \in Nat /\ mySolutionOpt[n] \in Nat
  BY CostNat DEF BoundInv, TypeOK
<1>2. CASE Synchronize(k)
  <2>1. CASE n = k
    BY <1>2, <2>1, SynchronizeBound
  <2>2. CASE n # k
    <3>1. /\ optimum'[n] = optimum[n] /\ mySolutionOpt'[n] = mySolutionOpt[n]
          /\ circleSolutionOpt'[n] = circleSolutionOpt[n]
      <4>1. TypeOK
        BY DEF BoundInv
      <4>2. AcceptCircle(k) \/ SendMine(k)
              \/ UNCHANGED <<optimum, optimalConfig, mySolutionOpt, circleSolutionOpt, sendQueue>>
        BY <1>2 DEF Synchronize
      <4>3. CASE AcceptCircle(k)
        BY <2>2, <4>1, <4>3 DEF AcceptCircle, TypeOK
      <4>4. CASE SendMine(k)
        BY <2>2, <4>1, <4>4 DEF SendMine, TypeOK
      <4> QED BY <4>2, <4>3, <4>4
    <3>2. /\ haveMySolution'[n] = haveMySolution[n] /\ phase'[n] = phase[n]
          /\ haveNewCirlceSolution'[n] = haveNewCirlceSolution[n]
      BY <1>2, <2>2 DEF Synchronize, BoundInv, TypeOK
    <3> QED BY <1>1, <3>1, <3>2 DEF Bound, BoundInv
  <2> QED BY <2>1, <2>2
<1>3. CASE NewSolution(k)
  <2>1. /\ UNCHANGED <<phase, circleSolutionOpt, haveNewCirlceSolution, mySolutionOpt, haveMySolution>>
        /\ optimum'[n] \in Nat /\ optimum'[n] >= optimum[n]
    <3>1. PICK cost \in CostsReported(k) : optimum' = [optimum EXCEPT ![k] = cost]
      BY <1>3 DEF NewSolution
    <3>2. cost \in Nat /\ cost >= optimum[k]
      <4>1. optimum[k] \in Nat
        BY CostNat DEF BoundInv, TypeOK
      <4> QED BY <4>1, SolutionAssumption DEF CostsReported
    <3> QED BY <1>1, <1>3, <3>1, <3>2 DEF NewSolution, circleVars, myVars, BoundInv, TypeOK
  <2> QED BY <1>1, <2>1 DEF Bound, BoundInv
<1>4. CASE GatherResult(k)
  <2>1. /\ UNCHANGED <<optimum, circleSolutionOpt, haveNewCirlceSolution, haveMySolution>>
        /\ phase'[n] = phase[n] \/ phase[n] # "ended"
        /\ mySolutionOpt'[n] = mySolutionOpt[n] \/ mySolutionOpt'[n] = optimum[n]
    BY <1>4 DEF GatherResult, circleVars, BoundInv, TypeOK
  <2>2. phase'[n] # "ended" => phase[n] # "ended"
    BY <1>4, <2>1 DEF GatherResult, BoundInv, TypeOK
  <2> QED BY <1>1, <2>1, <2>2 DEF Bound, BoundInv
<1>5. CASE \/ Start(k) \/ StopSearch(k) \/ BecomeLeader(k) \/ CommandTermination(k)
           \/ ResumeSearch(k) \/ Forward(k)
  <2>1. UNCHANGED <<optimum, circleSolutionOpt, haveNewCirlceSolution, mySolutionOpt, haveMySolution>>
    BY <1>5 DEF Start, StopSearch, BecomeLeader, CommandTermination, ResumeSearch, Forward,
                compVars, circleVars, myVars
  <2>2. phase'[n] # "ended" => phase[n] # "ended"
    BY <1>5 DEF Start, StopSearch, BecomeLeader, CommandTermination, ResumeSearch, Forward,
                BoundInv, TypeOK
  <2> QED BY <1>1, <2>1, <2>2 DEF Bound, BoundInv
<1> QED BY <1>2, <1>3, <1>4, <1>5 DEF MainStep

LEMMA DeliverBound ==
  ASSUME BoundInv, NEW m \in Node, Deliver(m), NEW n \in Node
  PROVE  Bound(n)
<1>0. optimum[n] \in Nat /\ circleSolutionOpt[n] \in Nat /\ mySolutionOpt[n] \in Nat
  BY CostNat DEF BoundInv, TypeOK
<1>1. CASE ReceiveToken(m) \/ ReceiveOutside(m)
  BY <1>0, <1>1
  DEF ReceiveToken, ReceiveOutside, compVars, circleVars, myVars, Bound, BoundInv
<1>2. CASE ReceiveResult(m)
  <2> DEFINE msg == Head(sendQueue[m])
  <2>1. msg.slotA \in Nat
    <3>1. msg \in Message /\ msg.type = "RESULT"
      BY <1>2, ArrivesType DEF ReceiveResult, Arrives, BoundInv
    <3> QED BY <3>1, PassedType, CostNat DEF BoundInv
  <2>2. /\ UNCHANGED <<phase, optimum, mySolutionOpt, haveMySolution>>
        /\ \/ /\ circleSolutionOpt'[n] = circleSolutionOpt[n]
              /\ haveNewCirlceSolution'[n] = haveNewCirlceSolution[n]
           \/ /\ n = Right[m] /\ Learns(n, msg)
              /\ circleSolutionOpt'[n] = msg.slotA
              /\ haveNewCirlceSolution'[n]
    BY <1>2 DEF ReceiveResult, compVars, myVars, BoundInv, TypeOK
  <2> QED BY <1>0, <2>1, <2>2 DEF Bound, BoundInv, Learns, isBetter
<1>3. CASE ReceiveTerminate(m)
  <2>1. /\ UNCHANGED <<haveNewCirlceSolution, mySolutionOpt, haveMySolution>>
        /\ \/ /\ optimum'[n] = optimum[n] /\ circleSolutionOpt'[n] = circleSolutionOpt[n]
              /\ phase'[n] = phase[n]
           \/ /\ optimum'[n] = Head(sendQueue[m]).slotA
              /\ circleSolutionOpt'[n] = Head(sendQueue[m]).slotA
              /\ phase'[n] = "ended"
    BY <1>3 DEF ReceiveTerminate, myVars, BoundInv, TypeOK
  <2>2. Head(sendQueue[m]).slotA \in Nat
    <3>1. Head(sendQueue[m]) \in Message /\ Head(sendQueue[m]).type = "TERMINATE"
      BY <1>3, ArrivesType DEF ReceiveTerminate, Arrives, BoundInv
    <3> QED BY <3>1, CostNat DEF Message
  <2> QED BY <1>0, <2>1, <2>2 DEF Bound, BoundInv
<1> QED BY <1>1, <1>2, <1>3 DEF Deliver

LEMMA NextBound ==
  ASSUME BoundInv, Next, NEW n \in Node
  PROVE  Bound(n)
BY MainStepBound, DeliverBound DEF Next

LEMMA BoundInvInit == Init => BoundInv
BY InitType DEF Init, BoundInv

LEMMA BoundInvStep == BoundInv /\ [Next]_vars => BoundInv'
<1> SUFFICES ASSUME BoundInv, [Next]_vars
             PROVE  BoundInv'
  OBVIOUS
<1>1. TypeOK'
  BY NextType DEF BoundInv
<1>2. CASE Next
  BY <1>1, <1>2, NextBound DEF BoundInv, Bound
<1>3. CASE UNCHANGED vars
  BY <1>1, <1>3 DEF vars, compVars, circleVars, myVars, BoundInv
<1> QED BY <1>2, <1>3

\* A searching node never prunes with less than what it has heard of and dealt
\* with, in every ring and with any number of solutions.
THEOREM BoundAlwaysKept == Spec => []BoundKept
<1>1. BoundInv => BoundKept
  BY DEF BoundInv, BoundKept
<1> QED BY <1>1, BoundInvInit, BoundInvStep, PTL DEF Spec

\* What a node keeps for the ring never gets worse before it terminates:
\* synchronize() sends nothing that is worse than what informResult has kept.
THEOREM CircleKept == Spec => CircleNeverWorse
<1>1. BoundInv /\ [Next]_vars
        => [\A n \in Node : phase'[n] # "ended" => circleSolutionOpt'[n] >= circleSolutionOpt[n]]_vars
  BY NextBound DEF Bound
<1> QED BY <1>1, BoundInvInit, BoundInvStep, PTL DEF Spec, CircleNeverWorse

-----------------------------------------------------------------------------
(***************************************************************************)
(* Agreement                                                               *)
(*                                                                         *)
(* Every cost that a node keeps for the ring, or that a RESULT carries,    *)
(* spreads: all nodes keep one as good, or a RESULT as good is under way   *)
(* and those that keep a worse one lie ahead of it.  That RESULT need not  *)
(* be the one by which a node has heard of the cost, as that may end at    *)
(* its source before it has been everywhere; whoever improves a RESULT     *)
(* does so with a cost that spreads already.                               *)
(***************************************************************************)
Occurs(y, s) == \E i \in DOMAIN s : s[i] = y

\* RESULT y is in the channel that leads from p to Right[p].
Held(q, f, p, y) ==
  /\ y \in Message /\ y.type = "RESULT"
  /\ Occurs(y, q[p]) \/ f[p] = <<y>>

AtLeast(circle, c, D) == \A n \in D : circle[n] >= c

\* On its way from its source to p, y has been at the nodes of D.
HasVisited(p, y, D) ==
  /\ p \in D \cup {y.sourceNode}
  /\ \A n \in D \cup {y.sourceNode} : n # p => Right[n] \in D

Spreads(q, f, circle, c) ==
  \/ AtLeast(circle, c, Node)
  \/ \E p \in Node, y \in Message, D \in SUBSET Node :
        Held(q, f, p, y) /\ y.slotA >= c /\ HasVisited(p, y, D) /\ AtLeast(circle, c, D)

HeldNow(p, y) == Held(sendQueue, forward, p, y)
HeldNext(p, y) == Held(sendQueue', forward', p, y)
SpreadsNow(c) == Spreads(sendQueue, forward, circleSolutionOpt, c)
SpreadsNext(c) == Spreads(sendQueue', forward', circleSolutionOpt', c)

ValueNow(c) ==
  (\E n \in Node : c = circleSolutionOpt[n]) \/ (\E p \in Node, y \in Message : HeldNow(p, y) /\ c = y.slotA)
ValueNext(c) ==
  (\E n \in Node : c = circleSolutionOpt'[n]) \/ (\E p \in Node, y \in Message : HeldNext(p, y) /\ c = y.slotA)

NoneOut == \A n \in Node : phase[n] # "out"
NoneEnded == \A n \in Node : phase[n] # "ended"

SpreadInv ==
  /\ BoundInv
  /\ NoneOut
  /\ NoneEnded => \A c : ValueNow(c) => SpreadsNow(c)

LEMMA ResultFields ==
  ASSUME NEW y \in Message, y.type = "RESULT"
  PROVE  y.slotA \in Nat /\ y.config \in Nat /\ y.sourceNode \in Node
BY CostNat DEF Message

\* A value goes on spreading when costs grow and no RESULT is taken away.
LEMMA GrowthSpreads ==
  ASSUME NEW q, NEW f, NEW q2, NEW f2, NEW circle \in [Node -> Nat], NEW circle2 \in [Node -> Nat],
         \A n \in Node : circle2[n] >= circle[n],
         \A p \in Node, y \in Message : Held(q, f, p, y) => Held(q2, f2, p, y),
         NEW c \in Nat, Spreads(q, f, circle, c)
  PROVE  Spreads(q2, f2, circle2, c)
<1>1. ASSUME NEW D \in SUBSET Node, AtLeast(circle, c, D)
      PROVE  AtLeast(circle2, c, D)
  BY <1>1 DEF AtLeast
<1>2. CASE AtLeast(circle, c, Node)
  BY <1>1, <1>2 DEF Spreads
<1>3. CASE ~AtLeast(circle, c, Node)
  <2>1. PICK p \in Node, y \in Message, D \in SUBSET Node :
          Held(q, f, p, y) /\ y.slotA >= c /\ HasVisited(p, y, D) /\ AtLeast(circle, c, D)
    BY <1>3 DEF Spreads
  <2>2. Held(q2, f2, p, y) /\ AtLeast(circle2, c, D)
    BY <1>1, <2>1
  <2> QED BY <2>1, <2>2 DEF Spreads
<1> QED BY <1>2, <1>3

\* ... and when a RESULT moves on to the next node, which from then on keeps a
\* cost as good, or ends there because it is back at its source.
LEMMA MoveSpreads ==
  ASSUME NEW q, NEW f, NEW q2, NEW f2, NEW circle \in [Node -> Nat], NEW circle2 \in [Node -> Nat],
         \A n \in Node : circle2[n] >= circle[n],
         NEW m \in Node, NEW x \in Message, Held(q, f, m, x),
         \A p \in Node, y \in Message : Held(q, f, p, y) /\ ~(p = m /\ y = x) => Held(q2, f2, p, y),
         circle2[Right[m]] >= x.slotA,
         x.sourceNode # Right[m] =>
           \E x2 \in Message : Held(q2, f2, Right[m], x2) /\ x2.sourceNode = x.sourceNode /\ x2.slotA >= x.slotA,
         NEW c \in Nat, Spreads(q, f, circle, c)
  PROVE  Spreads(q2, f2, circle2, c)
<1>0. Right[m] \in Node
  BY RingAssumption
<1>1. ASSUME NEW D \in SUBSET Node, AtLeast(circle, c, D)
      PROVE  AtLeast(circle2, c, D)
  BY <1>1 DEF AtLeast
<1>2. CASE AtLeast(circle, c, Node)
  BY <1>1, <1>2 DEF Spreads
<1>3. CASE ~AtLeast(circle, c, Node)
  <2>1. PICK p \in Node, y \in Message, D \in SUBSET Node :
          Held(q, f, p, y) /\ y.slotA >= c /\ HasVisited(p, y, D) /\ AtLeast(circle, c, D)
    BY <1>3 DEF Spreads
  <2>2. CASE ~(p = m /\ y = x)
    <3>1. Held(q2, f2, p, y) /\ AtLeast(circle2, c, D)
      BY <1>1, <2>1, <2>2
    <3> QED BY <2>1, <3>1 DEF Spreads
  <2>3. CASE p = m /\ y = x
    <3> DEFINE E == D \cup {Right[m]}
    <3>1. x.slotA \in Nat /\ x.sourceNode \in Node
      BY <2>1, <2>3, ResultFields DEF Held
    <3>2. E \in SUBSET Node /\ AtLeast(circle2, c, E)
      <4>1. AtLeast(circle2, c, D)
        BY <1>1, <2>1
      <4>2. circle2[Right[m]] >= c
        <5>1. circle2[Right[m]] \in Nat
          BY <1>0
        <5> QED BY <2>1, <2>3, <3>1, <5>1
      <4> QED BY <1>0, <4>1, <4>2 DEF AtLeast
    <3>3. m \in D \cup {x.sourceNode} /\ \A n \in D \cup {x.sourceNode} : n # m => Right[n] \in D
      BY <2>1, <2>3 DEF HasVisited
    <3>4. CASE x.sourceNode # Right[m]
      <4>1. PICK x2 \in Message : Held(q2, f2, Right[m], x2) /\ x2.sourceNode = x.sourceNode /\ x2.slotA >= x.slotA
        BY <3>4
      <4>2. x2 \in Message /\ x2.slotA >= c
        <5>1. x2 \in Message /\ x2.slotA \in Nat
          BY <4>1, ResultFields DEF Held
        <5> QED BY <2>1, <2>3, <3>1, <4>1, <5>1
      <4>3. HasVisited(Right[m], x2, E)
        BY <3>3, <4>1 DEF HasVisited
      <4> HIDE DEF E
      <4> QED BY <1>0, <3>2, <4>1, <4>2, <4>3 DEF Spreads
    <3>5. CASE x.sourceNode = Right[m]
      <4>1. E # {} /\ \A n \in E : Right[n] \in E
        BY <3>3, <3>5
      <4>2. E = Node
        <5> HIDE DEF E
        <5> QED BY <3>2, <4>1, RingAssumption
      <4> HIDE DEF E
      <4> QED BY <3>2, <4>2 DEF Spreads
    <3> QED BY <3>4, <3>5
  <2> QED BY <2>2, <2>3
<1> QED BY <1>2, <1>3

\* A RESULT that has just been sent spreads.
LEMMA SentSpreads ==
  ASSUME NEW q, NEW f, NEW circle, NEW n \in Node, NEW y \in Message, Held(q, f, n, y), y.sourceNode = n
  PROVE  Spreads(q, f, circle, y.slotA)
<1>1. y.slotA >= y.slotA /\ y \in Message
  BY ResultFields DEF Held
<1>2. HasVisited(n, y, {}) /\ AtLeast(circle, y.slotA, {})
  BY DEF HasVisited, AtLeast
<1> QED BY <1>1, <1>2 DEF Spreads

-----------------------------------------------------------------------------
\* A message that is appended is the only one to come.
LEMMA AppendedLast ==
  ASSUME NEW S, NEW s \in Seq(S), NEW x \in S, NEW t, t = Append(s, x), NEW y
  PROVE  Occurs(y, t) <=> Occurs(y, s) \/ y = x
BY DEF Occurs

\* What the steps do to the channels and to what nodes keep for the ring.
LEMMA SendHolds ==
  ASSUME TypeOK, NEW n \in Node, NEW msg \in Message, Send(n, msg), UNCHANGED forward
  PROVE  /\ \A p \in Node, y \in Message : HeldNow(p, y) => HeldNext(p, y)
         /\ \A p \in Node, y \in Message : HeldNext(p, y) => HeldNow(p, y) \/ (p = n /\ y = msg)
         /\ msg.type = "RESULT" => HeldNext(n, msg)
<1>1. /\ sendQueue[n] \in Seq(Message)
      /\ sendQueue'[n] = Append(sendQueue[n], msg)
      /\ \A p \in Node \ {n} : sendQueue'[p] = sendQueue[p]
  BY DEF Send, TypeOK
<1>2. ASSUME NEW y
      PROVE  Occurs(y, sendQueue'[n]) <=> Occurs(y, sendQueue[n]) \/ y = msg
  BY <1>1 DEF Occurs
<1> QED BY <1>1, <1>2 DEF HeldNow, HeldNext, Held

\* A message other than the first stays when the first is taken.
LEMMA TakenFirst ==
  ASSUME NEW S, NEW s \in Seq(S), s # <<>>, NEW t, t = Tail(s), NEW y
  PROVE  /\ Occurs(y, t) => Occurs(y, s)
         /\ Occurs(y, s) => y = Head(s) \/ Occurs(y, t)
<1>1. /\ Len(s) \in Nat /\ Len(s) # 0 /\ DOMAIN s = 1 .. Len(s) /\ Head(s) = s[1]
      /\ DOMAIN t = 1 .. (Len(s) - 1)
      /\ \A i \in 1 .. (Len(s) - 1) : t[i] = s[i + 1]
  OBVIOUS
<1>2. ASSUME NEW i \in DOMAIN t, t[i] = y
      PROVE  Occurs(y, s)
  <2>1. i + 1 \in DOMAIN s /\ s[i + 1] = y
    BY <1>1, <1>2
  <2> QED BY <2>1 DEF Occurs
<1>3. ASSUME NEW i \in DOMAIN s, s[i] = y
      PROVE  y = Head(s) \/ Occurs(y, t)
  <2>1. CASE i = 1
    BY <1>1, <1>3, <2>1
  <2>2. CASE i # 1
    <3>1. i - 1 \in DOMAIN t /\ t[i - 1] = y
      BY <1>1, <1>3, <2>2
    <3> QED BY <3>1 DEF Occurs
  <2> QED BY <2>1, <2>2
<1> QED BY <1>2, <1>3 DEF Occurs

\* Before a step that brings no RESULT and takes none away.
LEMMA QuietStep ==
  ASSUME TypeOK, NEW n \in Node,
         \/ Start(n) \/ StopSearch(n) \/ BecomeLeader(n) \/ CommandTermination(n)
         \/ NewSolution(n) \/ ResumeSearch(n) \/ Forward(n) \/ ReceiveToken(n)
         \/ Synchronize(n) /\ ~(~Accepts(n) /\ Sends(n))
  PROVE  /\ UNCHANGED circleSolutionOpt
         /\ \A p \in Node, y \in Message : HeldNow(p, y) <=> HeldNext(p, y)
<1>1. CASE \/ Start(n) \/ StopSearch(n) \/ NewSolution(n) \/ ResumeSearch(n)
           \/ Synchronize(n) /\ ~(~Accepts(n) /\ Sends(n))
  <2>1. UNCHANGED <<circleSolutionOpt, sendQueue, forward>>
    BY <1>1 DEF Start, StopSearch, NewSolution, ResumeSearch, Synchronize, AcceptCircle, netVars,
                circleVars
  <2> QED BY <2>1 DEF HeldNow, HeldNext
<1>2. CASE BecomeLeader(n) \/ CommandTermination(n)
  <2>1. \E msg \in Message : msg.type # "RESULT" /\ Send(n, msg)
    <3>1. CASE BecomeLeader(n)
      <4>1. [type |-> "TERMINATION_TOKEN", sourceNode |-> n] \in Message
        BY DEF Message
      <4> QED BY <3>1, <4>1 DEF BecomeLeader
    <3>2. CASE CommandTermination(n)
      <4>1. [type |-> "TERMINATE", sourceNode |-> n,
             slotA |-> mySolutionOpt[n], config |-> myConfiguration[n]] \in Message
        BY DEF Message, TypeOK
      <4> QED BY <3>2, <4>1 DEF CommandTermination
    <3> QED BY <1>2, <3>1, <3>2
  <2>2. UNCHANGED <<circleSolutionOpt, forward>>
    BY <1>2 DEF BecomeLeader, CommandTermination, circleVars
  <2>3. PICK msg \in Message : msg.type # "RESULT" /\ Send(n, msg)
    BY <2>1
  <2>4. \A p \in Node, y \in Message : HeldNext(p, y) => y.type = "RESULT"
    BY DEF HeldNext, Held
  <2> QED BY <2>2, <2>3, <2>4, SendHolds
<1>3. CASE Forward(n)
  <2>1. PICK msg \in Message : forward[n] = <<msg>>
    BY <1>3 DEF Forward, TypeOK
  <2>2. /\ sendQueue[n] \in Seq(Message)
        /\ sendQueue'[n] = Append(sendQueue[n], msg)
        /\ \A p \in Node \ {n} : sendQueue'[p] = sendQueue[p] /\ forward'[p] = forward[p]
        /\ forward'[n] = <<>>
    BY <1>3, <2>1 DEF Forward, Send, TypeOK
  <2>3. UNCHANGED circleSolutionOpt
    BY <1>3 DEF Forward, circleVars
  <2>4. ASSUME NEW y
        PROVE  Occurs(y, sendQueue'[n]) <=> Occurs(y, sendQueue[n]) \/ y = msg
    BY <2>2 DEF Occurs
  <2>5. \A y : <<msg>> = <<y>> <=> y = msg
    OBVIOUS
  <2>6. \A y : <<>> # <<y>>
    OBVIOUS
  <2>7. ASSUME NEW p \in Node, NEW y
        PROVE  HeldNow(p, y) <=> HeldNext(p, y)
    <3>1. CASE p = n
      BY <2>1, <2>2, <2>4, <2>5, <2>6, <3>1 DEF HeldNow, HeldNext, Held
    <3>2. CASE p # n
      BY <2>2, <3>2 DEF HeldNow, HeldNext, Held
    <3> QED BY <3>1, <3>2
  <2> QED BY <2>3, <2>7
<1>4. CASE ReceiveToken(n)
  <2> DEFINE msg == Head(sendQueue[n])
  <2>1. /\ sendQueue[n] \in Seq(Message) /\ sendQueue[n] # <<>>
        /\ msg.type = "TERMINATION_TOKEN" /\ UNCHANGED <<circleSolutionOpt, forward>>
    BY <1>4 DEF ReceiveToken, Arrives, TypeOK, circleVars
  <2>2. Right[n] \in Node /\ Right[n] # n
    BY RingAssumption
  <2>3. /\ sendQueue'[n] = Tail(sendQueue[n])
        /\ \/ sendQueue'[Right[n]] = sendQueue[Right[n]]
           \/ sendQueue'[Right[n]] = Append(sendQueue[Right[n]], msg)
        /\ \A p \in Node \ {n, Right[n]} : sendQueue'[p] = sendQueue[p]
    BY <1>4, <2>2 DEF ReceiveToken, TypeOK
  <2>4. sendQueue[Right[n]] \in Seq(Message)
    BY <2>2 DEF TypeOK
  <2> HIDE DEF msg
  <2>5. ASSUME NEW y, y.type = "RESULT"
        PROVE  Occurs(y, sendQueue'[n]) <=> Occurs(y, sendQueue[n])
    <3>1. sendQueue'[n] = Tail(sendQueue[n])
      BY <2>3
    <3>2. sendQueue[n] \in Seq(Message) /\ sendQueue[n] # <<>>
      BY <2>1
    <3>3. y # Head(sendQueue[n])
      BY <2>1, <2>5 DEF msg
    <3> QED BY <3>1, <3>2, <3>3, TakenFirst, Zenon
  <2>6. ASSUME NEW y, y.type = "RESULT"
        PROVE  Occurs(y, sendQueue'[Right[n]]) <=> Occurs(y, sendQueue[Right[n]])
    <3>1. msg \in Message /\ y # msg
      BY <2>1, <2>6 DEF msg
    <3>2. CASE sendQueue'[Right[n]] = Append(sendQueue[Right[n]], msg)
      BY <2>4, <3>1, <3>2, AppendedLast, Zenon
    <3> QED BY <2>3, <3>2
  <2>7. ASSUME NEW p \in Node, NEW y
        PROVE  HeldNow(p, y) <=> HeldNext(p, y)
    <3>1. CASE p \in {n, Right[n]}
      BY <2>1, <2>5, <2>6, <3>1, Zenon DEF HeldNow, HeldNext, Held
    <3>2. CASE p \notin {n, Right[n]}
      BY <2>1, <2>3, <3>2 DEF HeldNow, HeldNext, Held
    <3> QED BY <3>1, <3>2
  <2> QED BY <2>1, <2>7
<1> QED BY <1>1, <1>2, <1>3, <1>4

\* A step that sends the node's own solution.
LEMMA OwnStep ==
  ASSUME BoundInv, NEW n \in Node,
         GatherResult(n) \/ (Synchronize(n) /\ ~Accepts(n) /\ Sends(n))
  PROVE  \E y \in Message :
           /\ y.sourceNode = n /\ HeldNext(n, y)
           /\ \A p \in Node, z \in Message : HeldNow(p, z) => HeldNext(p, z)
           /\ \A p \in Node, z \in Message : HeldNext(p, z) => HeldNow(p, z) \/ z = y
           /\ \A k \in Node : circleSolutionOpt'[k] \in {circleSolutionOpt[k], y.slotA}
<1>0. TypeOK /\ optimum[n] \in Cost /\ optimalConfig[n] \in Cost
  BY DEF BoundInv, TypeOK
<1>1. CASE GatherResult(n)
  <2> DEFINE y == Result(n, optimum[n], optimalConfig[n], TRUE)
  <2>1. y \in Message /\ y.type = "RESULT" /\ y.sourceNode = n
    BY <1>0, ResultType DEF Result
  <2>2. Send(n, y) /\ UNCHANGED forward /\ UNCHANGED circleSolutionOpt
    BY <1>1 DEF GatherResult, circleVars
  <2> HIDE DEF y
  <2> QED BY <1>0, <2>1, <2>2, SendHolds
<1>2. CASE Synchronize(n) /\ ~Accepts(n) /\ Sends(n)
  <2> DEFINE y == Result(n, optimum[n], optimalConfig[n], FALSE)
  <2>1. y \in Message /\ y.type = "RESULT" /\ y.sourceNode = n /\ y.slotA = optimum[n]
    BY <1>0, ResultType DEF Result
  <2>2. /\ Send(n, y) /\ UNCHANGED forward
        /\ circleSolutionOpt' = [circleSolutionOpt EXCEPT ![n] = optimum[n]]
    BY <1>2 DEF Synchronize, SendMine
  <2>3. \A k \in Node : circleSolutionOpt'[k] \in {circleSolutionOpt[k], y.slotA}
    BY <1>0, <2>1, <2>2 DEF TypeOK
  <2> HIDE DEF y
  <2> QED BY <1>0, <2>1, <2>2, <2>3, SendHolds
<1> QED BY <1>1, <1>2

\* A RESULT that reaches a node of the computation.
LEMMA ResultStep ==
  ASSUME TypeOK, NEW m \in Node, ReceiveResult(m)
  PROVE  \E x \in Message :
           /\ HeldNow(m, x)
           /\ circleSolutionOpt'[Right[m]] >= x.slotA
           /\ \A k \in Node : circleSolutionOpt'[k] \in {circleSolutionOpt[k], x.slotA}
           /\ \A p \in Node, z \in Message : HeldNow(p, z) /\ ~(p = m /\ z = x) => HeldNext(p, z)
           /\ x.sourceNode # Right[m] =>
                \E x2 \in Message :
                   /\ HeldNext(Right[m], x2)
                   /\ x2.sourceNode = x.sourceNode /\ x2.slotA >= x.slotA
           /\ \A p \in Node, z \in Message :
                HeldNext(p, z) => HeldNow(p, z) \/ z.slotA \in {x.slotA, circleSolutionOpt[Right[m]]}
<1> DEFINE k == Right[m]
           x == Head(sendQueue[m])
           x2 == Passed(k, x)
<1>1. /\ k \in Node /\ x \in Message /\ x.type = "RESULT" /\ sendQueue[m] # <<>>
      /\ sendQueue[m] \in Seq(Message) /\ forward[k] = <<>>
  <2>1. sendQueue[m] # <<>> /\ x.type = "RESULT" /\ forward[k] = <<>>
    BY DEF ReceiveResult, Arrives
  <2> QED BY <2>1, ArrivesType DEF TypeOK
<1>2. x.slotA \in Nat /\ circleSolutionOpt[k] \in Nat
  BY <1>1, ResultFields, CostNat DEF TypeOK
<1>3. /\ x2 \in Message /\ x2.type = "RESULT" /\ x2.sourceNode = x.sourceNode
      /\ x2.slotA \in {x.slotA, circleSolutionOpt[k]} /\ x2.slotA >= x.slotA
  <2>1. x2 \in Message
    BY <1>1, PassedType
  <2>2. x \in [type : {"RESULT"}, sourceNode : Node, slotA : Cost, config : Cost, terminal : BOOLEAN]
    BY <1>1 DEF Message
  <2>3. CASE isBetter(x.slotA, circleSolutionOpt[k])
    BY <1>1, <1>2, <2>1, <2>3 DEF Passed
  <2>4. CASE ~isBetter(x.slotA, circleSolutionOpt[k])
    <3>1. x2 = [x EXCEPT !.slotA = circleSolutionOpt[k], !.config = circleConfiguration[k]]
      BY <2>4 DEF Passed
    <3>2. x2.slotA = circleSolutionOpt[k] /\ x2.sourceNode = x.sourceNode /\ x2.type = x.type
      BY <2>2, <3>1
    <3> QED BY <1>1, <1>2, <2>1, <2>4, <3>2 DEF isBetter
  <2> QED BY <2>3, <2>4
<1>4. HeldNow(m, x)
  <2>1. 1 \in DOMAIN sendQueue[m] /\ sendQueue[m][1] = x
    BY <1>1
  <2> QED BY <1>1, <2>1 DEF HeldNow, Held, Occurs
<1>5. /\ circleSolutionOpt' = [circleSolutionOpt EXCEPT ![k] = IF Learns(k, x) THEN x.slotA ELSE @]
      /\ sendQueue' = [sendQueue EXCEPT ![m] = Tail(@)]
      /\ forward' = IF x2.sourceNode = k THEN forward ELSE [forward EXCEPT ![k] = <<x2>>]
  BY DEF ReceiveResult, PassOn
<1> HIDE DEF k, x, x2
<1>6. /\ circleSolutionOpt'[k] >= x.slotA
      /\ \A n \in Node : circleSolutionOpt'[n] \in {circleSolutionOpt[n], x.slotA}
  BY <1>1, <1>2, <1>5 DEF Learns, isBetter, TypeOK
<1>7. /\ sendQueue'[m] = Tail(sendQueue[m])
      /\ \A p \in Node \ {m} : sendQueue'[p] = sendQueue[p]
      /\ \A p \in Node \ {k} : forward'[p] = forward[p]
      /\ x.sourceNode = k => forward'[k] = <<>>
      /\ x.sourceNode # k => forward'[k] = <<x2>>
  BY <1>1, <1>3, <1>5 DEF TypeOK
<1>8. \A y : /\ <<x2>> = <<y>> <=> y = x2
             /\ <<>> # <<y>>
  OBVIOUS
<1>9. ASSUME NEW z
      PROVE  /\ Occurs(z, sendQueue'[m]) => Occurs(z, sendQueue[m])
             /\ Occurs(z, sendQueue[m]) => z = x \/ Occurs(z, sendQueue'[m])
  <2>1. sendQueue'[m] = Tail(sendQueue[m])
    BY <1>7
  <2>2. sendQueue[m] \in Seq(Message) /\ sendQueue[m] # <<>>
    BY <1>1
  <2> QED BY <2>1, <2>2, TakenFirst, Zenon DEF x
<1>10. ASSUME NEW p \in Node, NEW z \in Message, HeldNow(p, z), ~(p = m /\ z = x)
       PROVE  HeldNext(p, z)
  <2>1. CASE Occurs(z, sendQueue[p])
    BY <1>7, <1>9, <1>10, <2>1 DEF HeldNow, HeldNext, Held
  <2>2. CASE forward[p] = <<z>>
    BY <1>1, <1>7, <1>8, <1>10, <2>2 DEF HeldNow, HeldNext, Held
  <2> QED BY <1>10, <2>1, <2>2 DEF HeldNow, Held
<1>11. ASSUME x.sourceNode # k
       PROVE  HeldNext(k, x2)
  BY <1>3, <1>7, <1>11 DEF HeldNext, Held
<1>12. ASSUME NEW p \in Node, NEW z \in Message, HeldNext(p, z)
       PROVE  HeldNow(p, z) \/ z = x2
  <2>1. CASE Occurs(z, sendQueue'[p])
    BY <1>7, <1>9, <1>12, <2>1 DEF HeldNow, HeldNext, Held
  <2>2. CASE forward'[p] = <<z>>
    BY <1>1, <1>7, <1>8, <1>12, <2>2 DEF HeldNow, HeldNext, Held
  <2> QED BY <1>12, <2>1, <2>2 DEF HeldNext, Held
<1> QED BY <1>1, <1>3, <1>4, <1>6, <1>10, <1>11, <1>12 DEF k

\* Nobody comes to be out of the computation, and who has ended stays so.
LEMMA PhaseStep ==
  ASSUME TypeOK, Next, NEW k \in Node
  PROVE  /\ phase'[k] = "out" => phase[k] = "out"
         /\ phase[k] = "ended" => phase'[k] = "ended"
<1>1. PICK n \in Node :
        Start(n) \/ MainStep(n) \/ NewSolution(n) \/ ResumeSearch(n) \/ Deliver(n) \/ Forward(n)
  BY DEF Next
<1>2. \/ UNCHANGED phase
      \/ \E n2 \in Node, ph \in Phase \ {"out"} :
            /\ phase' = [phase EXCEPT ![n2] = ph]
            /\ phase[n2] # "ended" \/ ph = "ended"
  <2>1. CASE \/ Start(n) \/ Synchronize(n) \/ StopSearch(n) \/ BecomeLeader(n) \/ GatherResult(n)
             \/ CommandTermination(n) \/ ResumeSearch(n)
    <3>1. \E ph \in Phase \ {"out"} : phase' = [phase EXCEPT ![n] = ph]
      BY <2>1 DEF Start, Synchronize, StopSearch, BecomeLeader, GatherResult, CommandTermination,
                  ResumeSearch, Phase
    <3>2. phase[n] # "ended"
      BY <2>1 DEF Start, Synchronize, StopSearch, BecomeLeader, GatherResult, CommandTermination,
                  ResumeSearch
    <3> QED BY <3>1, <3>2
  <2>2. CASE NewSolution(n) \/ Forward(n) \/ ReceiveResult(n) \/ ReceiveToken(n) \/ ReceiveOutside(n)
    BY <2>2 DEF NewSolution, Forward, ReceiveResult, ReceiveToken, ReceiveOutside
  <2>3. CASE ReceiveTerminate(n)
    <3>1. Right[n] \in Node /\ phase' = [phase EXCEPT ![Right[n]] = "ended"]
      BY <2>3, RingAssumption DEF ReceiveTerminate
    <3> QED BY <3>1 DEF Phase
  <2> QED BY <1>1, <2>1, <2>2, <2>3 DEF MainStep, Deliver
<1> QED BY <1>2 DEF TypeOK

\* Whatever is a cost somewhere after a step spreads.
LEMMA SpreadStep ==
  ASSUME SpreadInv, Next, NoneEnded', NEW c, ValueNext(c)
  PROVE  SpreadsNext(c)
<1>0. TypeOK /\ BoundInv /\ NoneOut
  BY DEF SpreadInv, BoundInv
<1>1. NoneEnded
  BY <1>0, PhaseStep DEF NoneEnded
<1>2. \A b : ValueNow(b) => SpreadsNow(b)
  BY <1>1 DEF SpreadInv
<1>3. /\ circleSolutionOpt \in [Node -> Nat] /\ circleSolutionOpt' \in [Node -> Nat]
      /\ \A n \in Node : circleSolutionOpt'[n] >= circleSolutionOpt[n]
  <2>1. TypeOK'
    BY <1>0, NextType
  <2>2. \A n \in Node : circleSolutionOpt'[n] >= circleSolutionOpt[n]
    BY <1>0, NextBound DEF Bound, NoneEnded
  <2>3. circleSolutionOpt \in [Node -> Cost] /\ circleSolutionOpt' \in [Node -> Cost]
    BY <1>0, <2>1 DEF TypeOK
  <2> QED BY <2>2, <2>3, CostNat
<1>4. ASSUME NEW b, ValueNow(b)
      PROVE  b \in Nat
  BY <1>3, <1>4, ResultFields DEF ValueNow, HeldNow, Held
<1>5. ASSUME \A p \in Node, y \in Message : HeldNow(p, y) => HeldNext(p, y), ValueNow(c)
      PROVE  SpreadsNext(c)
  <2>1. Spreads(sendQueue, forward, circleSolutionOpt, c) /\ c \in Nat
    BY <1>2, <1>4, <1>5 DEF SpreadsNow
  <2>2. \A p \in Node, y \in Message :
          Held(sendQueue, forward, p, y) => Held(sendQueue', forward', p, y)
    BY <1>5 DEF HeldNow, HeldNext
  <2> QED BY <1>3, <2>1, <2>2, GrowthSpreads DEF SpreadsNext
<1>6. PICK n \in Node :
        Start(n) \/ MainStep(n) \/ NewSolution(n) \/ ResumeSearch(n) \/ Deliver(n) \/ Forward(n)
  BY DEF Next
<1>7. CASE \/ Start(n) \/ StopSearch(n) \/ BecomeLeader(n) \/ CommandTermination(n)
           \/ NewSolution(n) \/ ResumeSearch(n) \/ Forward(n) \/ ReceiveToken(n)
           \/ Synchronize(n) /\ ~(~Accepts(n) /\ Sends(n))
  <2>1. UNCHANGED circleSolutionOpt /\ \A p \in Node, y \in Message : HeldNow(p, y) <=> HeldNext(p, y)
    BY <1>0, <1>7, QuietStep
  <2>2. ValueNow(c)
    BY <2>1 DEF ValueNow, ValueNext
  <2> QED BY <1>5, <2>1, <2>2
<1>8. CASE GatherResult(n) \/ (Synchronize(n) /\ ~Accepts(n) /\ Sends(n))
  <2>1. PICK y \in Message :
          /\ y.sourceNode = n /\ HeldNext(n, y)
          /\ \A p \in Node, z \in Message : HeldNow(p, z) => HeldNext(p, z)
          /\ \A p \in Node, z \in Message : HeldNext(p, z) => HeldNow(p, z) \/ z = y
          /\ \A k \in Node : circleSolutionOpt'[k] \in {circleSolutionOpt[k], y.slotA}
    BY <1>0, <1>8, OwnStep
  <2>2. CASE c = y.slotA
    BY <2>1, <2>2, SentSpreads DEF HeldNext, SpreadsNext
  <2>3. CASE c # y.slotA
    <3>1. ValueNow(c)
      BY <2>1, <2>3 DEF ValueNow, ValueNext
    <3> QED BY <1>5, <2>1, <3>1
  <2> QED BY <2>2, <2>3
<1>9. CASE ReceiveResult(n)
  <2>0. Right[n] \in Node
    BY RingAssumption
  <2>1. PICK x \in Message :
          /\ HeldNow(n, x)
          /\ circleSolutionOpt'[Right[n]] >= x.slotA
          /\ \A k \in Node : circleSolutionOpt'[k] \in {circleSolutionOpt[k], x.slotA}
          /\ \A p \in Node, z \in Message : HeldNow(p, z) /\ ~(p = n /\ z = x) => HeldNext(p, z)
          /\ x.sourceNode # Right[n] =>
               \E x2 \in Message :
                  /\ HeldNext(Right[n], x2)
                  /\ x2.sourceNode = x.sourceNode /\ x2.slotA >= x.slotA
          /\ \A p \in Node, z \in Message :
               HeldNext(p, z) => HeldNow(p, z) \/ z.slotA \in {x.slotA, circleSolutionOpt[Right[n]]}
    BY <1>0, <1>9, ResultStep
  <2>2. ValueNow(c)
    BY <2>0, <2>1 DEF ValueNow, ValueNext
  <2>3. Spreads(sendQueue, forward, circleSolutionOpt, c) /\ c \in Nat
    BY <1>2, <1>4, <2>2 DEF SpreadsNow
  <2>4. /\ Held(sendQueue, forward, n, x)
        /\ \A p \in Node, z \in Message :
             Held(sendQueue, forward, p, z) /\ ~(p = n /\ z = x) => Held(sendQueue', forward', p, z)
        /\ x.sourceNode # Right[n] =>
             \E x2 \in Message :
                /\ Held(sendQueue', forward', Right[n], x2)
                /\ x2.sourceNode = x.sourceNode /\ x2.slotA >= x.slotA
    BY <2>1 DEF HeldNow, HeldNext
  <2> QED BY <1>3, <2>1, <2>3, <2>4, MoveSpreads DEF SpreadsNext
<1>10. CASE ReceiveTerminate(n)
  <2>1. Right[n] \in Node /\ phase' = [phase EXCEPT ![Right[n]] = "ended"]
    BY <1>10, RingAssumption DEF ReceiveTerminate
  <2> QED BY <1>0, <2>1 DEF NoneEnded, TypeOK
<1>11. CASE ReceiveOutside(n)
  <2>1. Right[n] \in Node
    BY RingAssumption
  <2> QED BY <1>0, <1>1, <1>11, <2>1 DEF ReceiveOutside, InComputation, NoneOut, NoneEnded
<1> QED BY <1>6, <1>7, <1>8, <1>9, <1>10, <1>11 DEF MainStep, Deliver

LEMMA SpreadInvInit == Late = {} /\ Init => SpreadInv
<1> SUFFICES ASSUME Late = {}, Init
             PROVE  SpreadInv
  OBVIOUS
<1>1. BoundInv
  BY BoundInvInit
<1>2. NoneOut
  BY DEF Init, NoneOut
<1>3. \A p \in Node, y \in Message : ~HeldNow(p, y)
  BY DEF Init, HeldNow, Held, Occurs
<1>4. ASSUME NEW c, ValueNow(c)
      PROVE  SpreadsNow(c)
  <2>1. c = 0 /\ \A n \in Node : circleSolutionOpt[n] = 0
    BY <1>3, <1>4 DEF ValueNow, Init
  <2> QED BY <2>1 DEF SpreadsNow, Spreads, AtLeast
<1> QED BY <1>1, <1>2, <1>4 DEF SpreadInv

LEMMA SpreadInvStep == SpreadInv /\ [Next]_vars => SpreadInv'
<1> SUFFICES ASSUME SpreadInv, [Next]_vars
             PROVE  SpreadInv'
  OBVIOUS
<1>1. BoundInv'
  BY BoundInvStep DEF SpreadInv
<1>2. CASE Next
  <2>1. NoneOut'
    BY <1>2, PhaseStep DEF SpreadInv, BoundInv, NoneOut
  <2>2. ASSUME NoneEnded', NEW c, ValueNow(c)'
        PROVE  SpreadsNow(c)'
    BY <1>2, <2>2, SpreadStep DEF ValueNow, ValueNext, SpreadsNow, SpreadsNext, HeldNow, HeldNext
  <2> QED BY <1>1, <2>1, <2>2 DEF SpreadInv
<1>3. CASE UNCHANGED vars
  BY <1>1, <1>3 DEF SpreadInv, vars, netVars, circleVars, NoneOut, NoneEnded, ValueNow, SpreadsNow,
                    HeldNow
<1> QED BY <1>2, <1>3

LEMMA SpreadAgrees == SpreadInv => RingAgrees
<1> SUFFICES ASSUME SpreadInv, ~InFlight("RESULT"), NoneEnded, NEW m \in Node, NEW n \in Node
             PROVE  circleSolutionOpt[m] = circleSolutionOpt[n]
  BY DEF RingAgrees, NoneEnded, Informed
<1>1. \A p \in Node, y \in Message : ~HeldNow(p, y)
  <2> SUFFICES ASSUME NEW p \in Node, NEW y \in Message, HeldNow(p, y)
               PROVE  FALSE
    OBVIOUS
  <2>1. y.type = "RESULT"
    BY DEF HeldNow, Held
  <2>2. CASE Occurs(y, sendQueue[p])
    BY <2>1, <2>2 DEF InFlight, Occurs
  <2>3. CASE forward[p] = <<y>>
    <3>1. forward[p] # <<>> /\ Head(forward[p]) = y
      BY <2>3
    <3> QED BY <2>1, <3>1 DEF InFlight
  <2> QED BY <2>2, <2>3 DEF HeldNow, Held
<1>2. ASSUME NEW k \in Node
      PROVE  AtLeast(circleSolutionOpt, circleSolutionOpt[k], Node)
  <2>1. SpreadsNow(circleSolutionOpt[k])
    BY DEF SpreadInv, ValueNow
  <2> QED BY <1>1, <2>1 DEF SpreadsNow, Spreads, HeldNow
<1>3. circleSolutionOpt[m] \in Nat /\ circleSolutionOpt[n] \in Nat
  BY CostNat DEF SpreadInv, BoundInv, TypeOK
<1>4. circleSolutionOpt[m] >= circleSolutionOpt[n] /\ circleSolutionOpt[n] >= circleSolutionOpt[m]
  BY <1>2 DEF AtLeast
<1> QED BY <1>3, <1>4

\* On every ring whose nodes take part from the beginning, and with any number
\* of solutions: when no RESULT is under way and nobody has terminated, all
\* nodes keep the same best solution of the ring.
THEOREM RingAgreesAlways == Late = {} => (Spec => []RingAgrees)
<1> SUFFICES ASSUME Late = {}
             PROVE  Spec => []RingAgrees
  OBVIOUS
<1>1. Init => SpreadInv
  BY SpreadInvInit
<1> QED BY <1>1, SpreadInvStep, SpreadAgrees, PTL DEF Spec

-----------------------------------------------------------------------------
(***************************************************************************)
(* Costs and configurations                                                *)
(*                                                                         *)
(* synchronize() sets circleSolutionOpt to the cost it sends and leaves    *)
(* circleConfiguration as it is, so the pair does not match until a better *)
(* solution comes, and informResult improves a RESULT with it.  No node    *)
(* takes such a RESULT: ahead of it, all the way to its source, the nodes  *)
(* keep a cost as good, or have ended, or another RESULT as good will      *)
(* reach them first, because channels are FIFO.                            *)
(***************************************************************************)
\* The nodes of F lie on the way from Right[m] to s.
Path(F, m, s) ==
  /\ Right[m] \in F
  /\ \A n \in F \ {s} : n # m /\ Right[n] \in F

\* RESULT y is as good as c, and does not end on F before s.
Covers(y, F, s, c) == y.type = "RESULT" /\ y.slotA >= c /\ y.sourceNode \notin F \ {s}

\* No node on the way to s takes a cost c that leaves m after the messages of B.
Guarded(q, f, circle, ph, m, B, s, c) ==
  \E F, E \in SUBSET Node :
    /\ Path(F, m, s)
    /\ E \subseteq F
    /\ \A n \in E : circle[n] >= c \/ ph[n] = "ended"
    /\ Right[m] \in E \/ \E y \in B : Covers(y, F, s, c)
    /\ \A n \in E \ {s} :
         Right[n] \in E \/ \E y \in Message : Held(q, f, n, y) /\ Covers(y, F, s, c)

\* The messages ahead of the i-th of a queue.
Before(q, i) == {q[j] : j \in {k \in DOMAIN q : k < i}}
All(q) == {q[j] : j \in DOMAIN q}

GuardedNow(m, B, s, c) == Guarded(sendQueue, forward, circleSolutionOpt, phase, m, B, s, c)
GuardedNext(m, B, s, c) == Guarded(sendQueue', forward', circleSolutionOpt', phase', m, B, s, c)

OwnMatch ==
  /\ \A n \in Node : optimum[n] = optimalConfig[n]
  /\ \A n \in Node : haveNewCirlceSolution[n] => circleSolutionOpt[n] = circleConfiguration[n]
  /\ \A n \in Node : phase[n] = "gather" => mySolutionOpt[n] = myConfiguration[n]

\* What is true of a message of n that is behind those of B.
Fits(msg, n, B) ==
  /\ msg.type = "TERMINATE" => msg.slotA = msg.config
  /\ msg.type = "RESULT" =>
       /\ \E F \in SUBSET Node : Path(F, n, msg.sourceNode)
       /\ msg.slotA = msg.config \/ GuardedNow(n, B, msg.sourceNode, msg.slotA)

QueueFits(n) == \A i \in DOMAIN sendQueue[n] : Fits(sendQueue[n][i], n, Before(sendQueue[n], i))
ForwardFits(n) == \A msg \in Message : forward[n] = <<msg>> => Fits(msg, n, All(sendQueue[n]))
CircleFits(n) ==
  \/ circleSolutionOpt[n] = circleConfiguration[n]
  \/ phase[n] = "ended"
  \/ GuardedNow(n, All(sendQueue[n]), n, circleSolutionOpt[n])

MatchInv ==
  /\ BoundInv
  /\ NoneOut
  /\ OwnMatch
  /\ \A n \in Node : QueueFits(n) /\ ForwardFits(n) /\ CircleFits(n)

FitsNext(msg, n, B) ==
  /\ msg.type = "TERMINATE" => msg.slotA = msg.config
  /\ msg.type = "RESULT" =>
       /\ \E F \in SUBSET Node : Path(F, n, msg.sourceNode)
       /\ msg.slotA = msg.config \/ GuardedNext(n, B, msg.sourceNode, msg.slotA)
QueueFitsNext(n) ==
  \A i \in DOMAIN sendQueue'[n] : FitsNext(sendQueue'[n][i], n, Before(sendQueue'[n], i))
ForwardFitsNext(n) ==
  \A msg \in Message : forward'[n] = <<msg>> => FitsNext(msg, n, All(sendQueue'[n]))
CircleFitsNext(n) ==
  \/ circleSolutionOpt'[n] = circleConfiguration'[n]
  \/ phase'[n] = "ended"
  \/ GuardedNext(n, All(sendQueue'[n]), n, circleSolutionOpt'[n])

\* A step may take message z out of the channel of p if it is no RESULT, or if
\* Right[p] keeps a cost as good, or has ended, and passes one as good on, unless
\* z ends there.
Flow(p, z) ==
  /\ \A n \in Node : phase'[n] = "ended"
                       \/ (phase[n] # "ended" /\ circleSolutionOpt'[n] >= circleSolutionOpt[n])
  /\ \A n \in Node, y \in Message : HeldNow(n, y) /\ ~(n = p /\ y = z) => HeldNext(n, y)
  /\ z.type = "RESULT" =>
       /\ z.slotA \in Nat
       /\ phase'[Right[p]] = "ended" \/ circleSolutionOpt'[Right[p]] >= z.slotA
       /\ z.sourceNode # Right[p] =>
            \E z2 \in Message :
               HeldNext(Right[p], z2) /\ z2.sourceNode = z.sourceNode /\ z2.slotA >= z.slotA

LEMMA PathStart ==
  ASSUME NEW n \in Node
  PROVE  Path(Node, n, n)
BY RingAssumption DEF Path

LEMMA PathFollows ==
  ASSUME NEW m \in Node, NEW s \in Node, s # Right[m], NEW F \in SUBSET Node, Path(F, m, s)
  PROVE  Path(F \ {Right[m]}, Right[m], s)
BY RingAssumption DEF Path

\* A cost goes on being guarded when a RESULT flows.
LEMMA GuardFlows ==
  ASSUME TypeOK, TypeOK', NEW p \in Node, NEW z, Flow(p, z),
         NEW m \in Node, NEW s \in Node, NEW c \in Nat, NEW B \in SUBSET Message, NEW B2,
         \A y \in B : y.type = "RESULT" /\ ~(m = p /\ y = z) => y \in B2,
         GuardedNow(m, B, s, c)
  PROVE  GuardedNext(m, B2, s, c)
<1>1. PICK F \in SUBSET Node, E \in SUBSET Node :
        /\ Path(F, m, s)
        /\ E \subseteq F
        /\ \A n \in E : circleSolutionOpt[n] >= c \/ phase[n] = "ended"
        /\ Right[m] \in E \/ \E y \in B : Covers(y, F, s, c)
        /\ \A n \in E \ {s} :
             Right[n] \in E \/ \E y \in Message : HeldNow(n, y) /\ Covers(y, F, s, c)
  BY DEF GuardedNow, Guarded, HeldNow
<1>2. /\ circleSolutionOpt \in [Node -> Nat] /\ circleSolutionOpt' \in [Node -> Nat]
      /\ Right \in [Node -> Node]
  BY CostNat, RingAssumption DEF TypeOK
<1>3. \A n \in E : circleSolutionOpt'[n] >= c \/ phase'[n] = "ended"
  BY <1>1, <1>2 DEF Flow
<1>4. ASSUME NEW E2 \in SUBSET Node, E \subseteq E2, E2 \subseteq F,
             \A n \in E2 : circleSolutionOpt'[n] >= c \/ phase'[n] = "ended",
             Right[m] \in E2 \/ \E y \in B2 : Covers(y, F, s, c),
             \A n \in E2 \ {s} :
               Right[n] \in E2 \/ \E y \in Message : HeldNext(n, y) /\ Covers(y, F, s, c)
      PROVE  GuardedNext(m, B2, s, c)
  BY <1>1, <1>4 DEF GuardedNext, Guarded, HeldNext
<1>5. CASE Covers(z, F, s, c) /\ Right[p] \in F
  <2> DEFINE E2 == E \cup {Right[p]}
  <2>1. z.type = "RESULT" /\ z.slotA >= c /\ z.sourceNode \notin F \ {s} /\ z.slotA \in Nat
    BY <1>5 DEF Covers, Flow
  <2>2. circleSolutionOpt'[Right[p]] >= c \/ phase'[Right[p]] = "ended"
    BY <1>2, <2>1 DEF Flow
  <2>3. E2 \in SUBSET Node /\ E \subseteq E2 /\ E2 \subseteq F
    BY <1>1, <1>2, <1>5
  <2>4. \A n \in E2 : circleSolutionOpt'[n] >= c \/ phase'[n] = "ended"
    BY <1>3, <2>2
  <2>5. Right[m] \in E2 \/ \E y \in B2 : Covers(y, F, s, c)
    <3>1. CASE Right[m] \in E
      BY <3>1
    <3>2. ASSUME NEW y \in B, Covers(y, F, s, c)
          PROVE  Right[m] \in E2 \/ y \in B2
      <4>1. y.type = "RESULT"
        BY <3>2 DEF Covers
      <4> QED BY <4>1
    <3> QED BY <1>1, <3>1, <3>2
  <2>6. ASSUME NEW n \in E2 \ {s}
        PROVE  Right[n] \in E2 \/ \E y \in Message : HeldNext(n, y) /\ Covers(y, F, s, c)
    <3>1. CASE n \in E
      <4>1. CASE Right[n] \in E
        BY <4>1
      <4>2. ASSUME NEW y \in Message, HeldNow(n, y), Covers(y, F, s, c)
            PROVE  Right[n] \in E2 \/ HeldNext(n, y)
        <5>1. n \in Node
          BY <2>3
        <5> QED BY <4>2, <5>1 DEF Flow
      <4> QED BY <1>1, <2>6, <3>1, <4>1, <4>2
    <3>2. CASE n = Right[p]
      <4>1. z.sourceNode # n
        BY <1>5, <2>1, <2>6, <3>2
      <4>2. PICK z2 \in Message :
              HeldNext(n, z2) /\ z2.sourceNode = z.sourceNode /\ z2.slotA >= z.slotA
        BY <2>1, <3>2, <4>1 DEF Flow
      <4>3. z2.type = "RESULT" /\ z2.slotA \in Nat
        BY <4>2, ResultFields DEF HeldNext, Held
      <4>4. Covers(z2, F, s, c)
        BY <2>1, <4>2, <4>3 DEF Covers
      <4> QED BY <4>2, <4>4
    <3> QED BY <2>6, <3>1, <3>2
  <2> HIDE DEF E2
  <2> QED BY <1>4, <2>3, <2>4, <2>5, <2>6
<1>6. CASE ~(Covers(z, F, s, c) /\ Right[p] \in F)
  <2>1. Right[m] \in E \/ \E y \in B2 : Covers(y, F, s, c)
    <3>1. ASSUME NEW y \in B, Covers(y, F, s, c)
          PROVE  y \in B2
      <4>1. y.type = "RESULT" /\ Right[m] \in F
        BY <1>1, <3>1 DEF Covers, Path
      <4> QED BY <1>6, <3>1, <4>1
    <3> QED BY <1>1, <3>1
  <2>2. ASSUME NEW n \in E \ {s}
        PROVE  Right[n] \in E \/ \E y \in Message : HeldNext(n, y) /\ Covers(y, F, s, c)
    <3>1. ASSUME NEW y \in Message, HeldNow(n, y), Covers(y, F, s, c)
          PROVE  HeldNext(n, y)
      <4>1. n \in Node /\ Right[n] \in F
        BY <1>1, <2>2 DEF Path
      <4>2. ~(n = p /\ y = z)
        BY <1>6, <3>1, <4>1
      <4> QED BY <3>1, <4>1, <4>2 DEF Flow
    <3> QED BY <1>1, <2>2, <3>1
  <2> QED BY <1>1, <1>3, <1>4, <2>1, <2>2
<1> QED BY <1>5, <1>6

\* The next node does not take a guarded cost that is first in its channel.
LEMMA GuardFirst ==
  ASSUME NEW m \in Node, NEW s, NEW c, GuardedNow(m, {}, s, c)
  PROVE  circleSolutionOpt[Right[m]] >= c \/ phase[Right[m]] = "ended"
BY DEF GuardedNow, Guarded

\* The cost of a message that is ahead on the whole way is guarded.
LEMMA GuardSent ==
  ASSUME NEW n \in Node, NEW B, NEW y \in B, y \in Message, y.type = "RESULT", y.sourceNode = n
  PROVE  GuardedNext(n, B, n, y.slotA)
<1>1. y.slotA >= y.slotA
  BY ResultFields
<1>2. Covers(y, Node, n, y.slotA)
  BY <1>1 DEF Covers
<1>3. Path(Node, n, n)
  BY PathStart
<1>4. {} \in SUBSET Node /\ Node \in SUBSET Node /\ {} \subseteq Node
  OBVIOUS
<1>5. Right[n] \in {} \/ \E x \in B : Covers(x, Node, n, y.slotA)
  BY <1>2
<1> QED BY <1>3, <1>4, <1>5, Zenon DEF GuardedNext, Guarded

\* What is guarded on the way round is guarded on a part of it.
LEMMA GuardShort ==
  ASSUME NEW k \in Node, NEW s \in Node, NEW c, NEW B \in SUBSET Message,
         NEW F \in SUBSET Node, Path(F, k, s), GuardedNow(k, B, k, c)
  PROVE  GuardedNow(k, B, s, c)
<1>1. PICK F0 \in SUBSET Node, E \in SUBSET Node :
        /\ Path(F0, k, k)
        /\ E \subseteq F0
        /\ \A n \in E : circleSolutionOpt[n] >= c \/ phase[n] = "ended"
        /\ Right[k] \in E \/ \E y \in B : Covers(y, F0, k, c)
        /\ \A n \in E \ {k} :
             Right[n] \in E \/ \E y \in Message : HeldNow(n, y) /\ Covers(y, F0, k, c)
  BY DEF GuardedNow, Guarded, HeldNow
<1>2. F0 \cup {k} = Node
  <2> DEFINE S == F0 \cup {k}
  <2>1. S \in SUBSET Node /\ S # {} /\ \A n \in S : Right[n] \in S
    BY <1>1 DEF Path
  <2> HIDE DEF S
  <2>2. S = Node
    BY <2>1, RingAssumption
  <2> QED BY <2>2 DEF S
<1>3. ASSUME NEW y \in Message, Covers(y, F0, k, c)
      PROVE  Covers(y, F, s, c)
  <2>1. y.sourceNode \in Node
    BY <1>3, ResultFields DEF Covers
  <2>2. y.sourceNode = k
    BY <1>2, <1>3, <2>1 DEF Covers
  <2>3. k \notin F \ {s}
    BY DEF Path
  <2> QED BY <1>3, <2>2, <2>3 DEF Covers
<1> DEFINE E2 == E \cap F
<1>4. E2 \in SUBSET Node /\ E2 \subseteq F
  OBVIOUS
<1>5. \A n \in E2 : circleSolutionOpt[n] >= c \/ phase[n] = "ended"
  BY <1>1
<1>6. Right[k] \in E2 \/ \E y \in B : Covers(y, F, s, c)
  BY <1>1, <1>3 DEF Path
<1>7. ASSUME NEW n \in E2 \ {s}
      PROVE  Right[n] \in E2 \/ \E y \in Message : HeldNow(n, y) /\ Covers(y, F, s, c)
  <2>1. n # k /\ Right[n] \in F
    BY <1>7 DEF Path
  <2> QED BY <1>1, <1>3, <1>7, <2>1
<1> HIDE DEF E2
<1> QED BY <1>4, <1>5, <1>6, <1>7 DEF GuardedNow, Guarded, HeldNow

\* A guarded cost that is first in its channel is guarded one node further.
LEMMA GuardFollows ==
  ASSUME NEW m \in Node, NEW s \in Node, NEW c, s # Right[m], forward[Right[m]] = <<>>,
         GuardedNow(m, {}, s, c)
  PROVE  GuardedNow(Right[m], All(sendQueue[Right[m]]), s, c)
<1>1. PICK F \in SUBSET Node, E \in SUBSET Node :
        /\ Path(F, m, s)
        /\ E \subseteq F
        /\ \A n \in E : circleSolutionOpt[n] >= c \/ phase[n] = "ended"
        /\ Right[m] \in E
        /\ \A n \in E \ {s} :
             Right[n] \in E \/ \E y \in Message : HeldNow(n, y) /\ Covers(y, F, s, c)
  BY DEF GuardedNow, Guarded, HeldNow
<1> DEFINE k == Right[m]
           F2 == F \ {k}
           E2 == E \ {k}
<1>0. k \in Node /\ Right[k] # k /\ \A n \in Node : Right[n] = k => n = m
  BY RingAssumption
<1>2. Path(F2, k, s)
  BY <1>1, PathFollows
<1>3. E2 \subseteq F2 /\ \A n \in E2 : circleSolutionOpt[n] >= c \/ phase[n] = "ended"
  BY <1>1
<1>4. \A y : Covers(y, F, s, c) => Covers(y, F2, s, c)
  BY DEF Covers
<1>5. Right[k] \in E2 \/ \E y \in All(sendQueue[k]) : Covers(y, F2, s, c)
  <2>1. CASE Right[k] \in E
    BY <1>0, <2>1
  <2>2. ASSUME NEW y \in Message, HeldNow(k, y)
        PROVE  y \in All(sendQueue[k])
    <3>1. forward[k] # <<y>>
      OBVIOUS
    <3> QED BY <2>2, <3>1 DEF HeldNow, Held, Occurs, All
  <2> QED BY <1>1, <1>4, <2>1, <2>2
<1>6. ASSUME NEW n \in E2 \ {s}
      PROVE  Right[n] \in E2 \/ \E y \in Message : HeldNow(n, y) /\ Covers(y, F2, s, c)
  <2>1. n \in Node /\ n # m
    BY <1>1, <1>6 DEF Path
  <2>2. Right[n] # k
    BY <1>0, <2>1
  <2> QED BY <1>1, <1>4, <1>6, <2>2
<1>7. F2 \in SUBSET Node /\ E2 \in SUBSET Node
  OBVIOUS
<1> HIDE DEF k, F2, E2
<1>8. GuardedNow(k, All(sendQueue[k]), s, c)
  BY <1>2, <1>3, <1>5, <1>6, <1>7 DEF GuardedNow, Guarded, HeldNow
<1> QED BY <1>8 DEF k

-----------------------------------------------------------------------------
\* What the messages and nodes fit stays so when a RESULT flows.
LEMMA FitsFlows ==
  ASSUME TypeOK, TypeOK', NEW p \in Node, NEW z, Flow(p, z),
         NEW n \in Node, NEW msg \in Message, NEW B \in SUBSET Message, NEW B2,
         \A y \in B : y.type = "RESULT" /\ ~(n = p /\ y = z) => y \in B2,
         Fits(msg, n, B)
  PROVE  FitsNext(msg, n, B2)
<1>1. CASE msg.type = "RESULT" /\ msg.slotA # msg.config
  <2>1. msg.sourceNode \in Node /\ msg.slotA \in Nat
    BY <1>1, ResultFields
  <2>2. GuardedNow(n, B, msg.sourceNode, msg.slotA)
    BY <1>1 DEF Fits
  <2>3. GuardedNext(n, B2, msg.sourceNode, msg.slotA)
    BY <2>1, <2>2, GuardFlows
  <2> QED BY <2>3 DEF Fits, FitsNext
<1>2. CASE ~(msg.type = "RESULT" /\ msg.slotA # msg.config)
  BY <1>2 DEF Fits, FitsNext
<1> QED BY <1>1, <1>2

LEMMA QueueType ==
  ASSUME TypeOK, NEW n \in Node
  PROVE  /\ sendQueue[n] \in Seq(Message) /\ All(sendQueue[n]) \in SUBSET Message
         /\ \A i \in DOMAIN sendQueue[n] :
              sendQueue[n][i] \in Message /\ Before(sendQueue[n], i) \in SUBSET Message
<1>1. sendQueue[n] \in Seq(Message)
  BY DEF TypeOK
<1>2. \A i \in DOMAIN sendQueue[n] : sendQueue[n][i] \in Message
  BY <1>1
<1> QED BY <1>1, <1>2 DEF All, Before

\* t is q with x behind everything else.
AddsLast(q, x, t) ==
  \A i \in DOMAIN t :
    \/ i \in DOMAIN q /\ t[i] = q[i] /\ Before(t, i) = Before(q, i)
    \/ t[i] = x /\ Before(t, i) = All(q)

LEMMA BeforeLast ==
  ASSUME NEW S, NEW q \in Seq(S), NEW x \in S, NEW t, t = Append(q, x)
  PROVE  AddsLast(q, x, t)
<1>1. /\ Len(q) \in Nat /\ DOMAIN q = 1 .. Len(q) /\ DOMAIN t = 1 .. (Len(q) + 1)
      /\ t[Len(q) + 1] = x
      /\ \A j \in DOMAIN q : t[j] = q[j]
  OBVIOUS
<1>2. ASSUME NEW i \in DOMAIN q
      PROVE  Before(t, i) = Before(q, i)
  <2>1. {k \in DOMAIN t : k < i} = {k \in DOMAIN q : k < i}
    BY <1>1, <1>2
  <2>2. \A j \in {k \in DOMAIN q : k < i} : t[j] = q[j]
    BY <1>1
  <2> QED BY <2>1, <2>2 DEF Before
<1>3. Before(t, Len(q) + 1) = All(q)
  <2>1. {k \in DOMAIN t : k < Len(q) + 1} = DOMAIN q
    BY <1>1
  <2> QED BY <1>1, <2>1 DEF Before, All
<1>4. ASSUME NEW i \in DOMAIN t
      PROVE  i \in DOMAIN q \/ i = Len(q) + 1
  BY <1>1
<1> QED BY <1>1, <1>2, <1>3, <1>4 DEF AddsLast

LEMMA AllAppended ==
  ASSUME NEW S, NEW q \in Seq(S), NEW x \in S, NEW t, t = Append(q, x)
  PROVE  All(q) \subseteq All(t) /\ x \in All(t)
<1>1. /\ Len(q) + 1 \in DOMAIN t /\ t[Len(q) + 1] = x
      /\ \A j \in DOMAIN q : j \in DOMAIN t /\ t[j] = q[j]
  OBVIOUS
<1> QED BY <1>1 DEF All

LEMMA BeforeFirst ==
  ASSUME NEW S, NEW q \in Seq(S), q # <<>>, NEW t, t = Tail(q)
  PROVE  \A i \in DOMAIN t :
           /\ i + 1 \in DOMAIN q /\ t[i] = q[i + 1]
           /\ \A y \in Before(q, i + 1) : y # Head(q) => y \in Before(t, i)
<1>1. /\ Len(q) \in Nat /\ Len(q) # 0 /\ DOMAIN q = 1 .. Len(q) /\ Head(q) = q[1]
      /\ DOMAIN t = 1 .. (Len(q) - 1)
      /\ \A i \in 1 .. (Len(q) - 1) : t[i] = q[i + 1]
  OBVIOUS
<1>2. ASSUME NEW i \in DOMAIN t
      PROVE  /\ i + 1 \in DOMAIN q /\ t[i] = q[i + 1]
             /\ \A y \in Before(q, i + 1) : y # Head(q) => y \in Before(t, i)
  <2>1. i + 1 \in DOMAIN q /\ t[i] = q[i + 1]
    BY <1>1
  <2>2. ASSUME NEW y \in Before(q, i + 1), y # Head(q)
        PROVE  y \in Before(t, i)
    <3>1. PICK j \in DOMAIN q : j < i + 1 /\ y = q[j]
      BY DEF Before
    <3>2. j - 1 \in DOMAIN t /\ j - 1 < i /\ t[j - 1] = y
      BY <1>1, <2>2, <3>1
    <3> QED BY <3>2 DEF Before
  <2> QED BY <2>1, <2>2
<1> QED BY <1>2

LEMMA AllTaken ==
  ASSUME NEW S, NEW q \in Seq(S), q # <<>>, NEW t, t = Tail(q)
  PROVE  \A y \in All(q) : y # Head(q) => y \in All(t)
<1> SUFFICES ASSUME NEW y \in All(q), y # Head(q)
             PROVE  y \in All(t)
  OBVIOUS
<1>1. PICK i \in DOMAIN q : q[i] = y
  BY DEF All
<1>2. Occurs(y, q)
  BY <1>1 DEF Occurs
<1>3. /\ Occurs(y, t) => Occurs(y, q)
      /\ Occurs(y, q) => y = Head(q) \/ Occurs(y, t)
  BY TakenFirst, Zenon
<1> QED BY <1>2, <1>3 DEF Occurs, All

LEMMA BeforeHead ==
  ASSUME NEW S, NEW q \in Seq(S), q # <<>>
  PROVE  Before(q, 1) = {} /\ 1 \in DOMAIN q /\ q[1] = Head(q)
<1>1. {k \in DOMAIN q : k < 1} = {} /\ 1 \in DOMAIN q /\ q[1] = Head(q)
  OBVIOUS
<1> QED BY <1>1 DEF Before

LEMMA QueueSame ==
  ASSUME TypeOK, TypeOK', NEW p \in Node, NEW z, Flow(p, z), NEW n \in Node, QueueFits(n),
         sendQueue'[n] = sendQueue[n]
  PROVE  QueueFitsNext(n)
<1>1. ASSUME NEW i \in DOMAIN sendQueue[n]
      PROVE  FitsNext(sendQueue[n][i], n, Before(sendQueue[n], i))
  BY QueueType, FitsFlows DEF QueueFits
<1> QED BY <1>1 DEF QueueFitsNext

LEMMA QueueAppended ==
  ASSUME TypeOK, TypeOK', NEW p \in Node, NEW z, Flow(p, z), NEW n \in Node, QueueFits(n),
         NEW x \in Message, sendQueue'[n] = Append(sendQueue[n], x),
         FitsNext(x, n, All(sendQueue[n]))
  PROVE  QueueFitsNext(n)
<1>1. ASSUME NEW i \in DOMAIN sendQueue[n]
      PROVE  FitsNext(sendQueue[n][i], n, Before(sendQueue[n], i))
  BY QueueType, FitsFlows DEF QueueFits
<1>2. sendQueue[n] \in Seq(Message)
  BY QueueType
<1>3. AddsLast(sendQueue[n], x, sendQueue'[n])
  BY <1>2, BeforeLast, Zenon
<1> QED BY <1>1, <1>3 DEF AddsLast, QueueFitsNext

LEMMA QueueTaken ==
  ASSUME TypeOK, TypeOK', NEW n \in Node, sendQueue[n] # <<>>, Flow(n, Head(sendQueue[n])),
         QueueFits(n), sendQueue'[n] = Tail(sendQueue[n])
  PROVE  QueueFitsNext(n)
<1> DEFINE t == sendQueue'[n]
           q == sendQueue[n]
<1>1. q \in Seq(Message)
  BY QueueType
<1>2. \A i \in DOMAIN t :
        /\ i + 1 \in DOMAIN q /\ t[i] = q[i + 1]
        /\ \A y \in Before(q, i + 1) : y # Head(q) => y \in Before(t, i)
  BY <1>1, BeforeFirst
<1>3. ASSUME NEW i \in DOMAIN t
      PROVE  FitsNext(t[i], n, Before(t, i))
  <2>1. Fits(q[i + 1], n, Before(q, i + 1))
    BY <1>2 DEF QueueFits
  <2>2. q[i + 1] \in Message /\ Before(q, i + 1) \in SUBSET Message
    BY <1>2, QueueType
  <2>3. \A y \in Before(q, i + 1) : y.type = "RESULT" /\ ~(n = n /\ y = Head(q)) => y \in Before(t, i)
    BY <1>2
  <2>4. FitsNext(q[i + 1], n, Before(t, i))
    <3> HIDE DEF t
    <3> QED BY <2>1, <2>2, <2>3, FitsFlows
  <2> QED BY <1>2, <2>4
<1> QED BY <1>3 DEF QueueFitsNext

LEMMA ForwardSame ==
  ASSUME TypeOK, TypeOK', NEW p \in Node, NEW z, Flow(p, z), NEW n \in Node, ForwardFits(n),
         forward'[n] = forward[n],
         \A y \in All(sendQueue[n]) : y.type = "RESULT" /\ ~(n = p /\ y = z) => y \in All(sendQueue'[n])
  PROVE  ForwardFitsNext(n)
<1>1. ASSUME NEW msg \in Message, forward'[n] = <<msg>>
      PROVE  FitsNext(msg, n, All(sendQueue'[n]))
  <2>1. Fits(msg, n, All(sendQueue[n]))
    BY <1>1 DEF ForwardFits
  <2>2. All(sendQueue[n]) \in SUBSET Message
    BY QueueType
  <2> QED BY <2>1, <2>2, FitsFlows
<1> QED BY <1>1 DEF ForwardFitsNext

LEMMA CircleSame ==
  ASSUME TypeOK, TypeOK', NEW p \in Node, NEW z, Flow(p, z), NEW n \in Node, CircleFits(n),
         circleSolutionOpt'[n] = circleSolutionOpt[n], circleConfiguration'[n] = circleConfiguration[n],
         phase[n] = "ended" => phase'[n] = "ended",
         \A y \in All(sendQueue[n]) : y.type = "RESULT" /\ ~(n = p /\ y = z) => y \in All(sendQueue'[n])
  PROVE  CircleFitsNext(n)
<1>1. CASE GuardedNow(n, All(sendQueue[n]), n, circleSolutionOpt[n])
  <2>1. All(sendQueue[n]) \in SUBSET Message /\ circleSolutionOpt[n] \in Nat
    BY QueueType, CostNat DEF TypeOK
  <2>2. GuardedNext(n, All(sendQueue'[n]), n, circleSolutionOpt[n])
    BY <1>1, <2>1, GuardFlows
  <2> QED BY <2>2 DEF CircleFitsNext
<1> QED BY <1>1 DEF CircleFits, CircleFitsNext

\* What is ahead of a message stays ahead of it, but for the message that is taken.
LEMMA AllKept ==
  ASSUME TypeOK, NEW n \in Node, NEW p, NEW z,
         \/ sendQueue'[n] = sendQueue[n]
         \/ \E x \in Message : sendQueue'[n] = Append(sendQueue[n], x)
         \/ /\ n = p /\ sendQueue[n] # <<>> /\ z = Head(sendQueue[n])
            /\ sendQueue'[n] = Tail(sendQueue[n])
  PROVE  \A y \in All(sendQueue[n]) :
           y.type = "RESULT" /\ ~(n = p /\ y = z) => y \in All(sendQueue'[n])
<1>0. sendQueue[n] \in Seq(Message)
  BY QueueType
<1>1. CASE sendQueue'[n] = sendQueue[n]
  BY <1>1
<1>2. ASSUME NEW x \in Message, sendQueue'[n] = Append(sendQueue[n], x)
      PROVE  All(sendQueue[n]) \subseteq All(sendQueue'[n])
  <2>1. All(sendQueue[n]) \subseteq All(sendQueue'[n]) /\ x \in All(sendQueue'[n])
    BY <1>0, <1>2, AllAppended, Zenon
  <2> QED BY <2>1
<1>3. CASE /\ n = p /\ sendQueue[n] # <<>> /\ z = Head(sendQueue[n])
           /\ sendQueue'[n] = Tail(sendQueue[n])
  <2>1. \A y \in All(sendQueue[n]) : y # Head(sendQueue[n]) => y \in All(sendQueue'[n])
    BY <1>0, <1>3, AllTaken, Zenon
  <2> QED BY <1>3, <2>1
<1> QED BY <1>1, <1>2, <1>3

\* A node that has not ended keeps a cost at least as good.
LEMMA CircleGrows ==
  ASSUME BoundInv, Next, NEW n \in Node
  PROVE  phase'[n] = "ended" \/ (phase[n] # "ended" /\ circleSolutionOpt'[n] >= circleSolutionOpt[n])
BY NextBound, PhaseStep DEF BoundInv, Bound

\* A message that the fields of its sender match.
LEMMA MatchedFits ==
  ASSUME NEW n \in Node, NEW msg, NEW B,
         msg.type \in {"RESULT", "TERMINATE"} => msg.slotA = msg.config,
         msg.type = "RESULT" => msg.sourceNode = n
  PROVE  FitsNext(msg, n, B)
BY PathStart DEF FitsNext

\* Steps that leave the channels alone.
LEMMA QuietFits ==
  ASSUME MatchInv, TypeOK', Next, NEW k \in Node,
         UNCHANGED <<sendQueue, forward, circleSolutionOpt, circleConfiguration>>, NEW n \in Node
  PROVE  QueueFitsNext(n) /\ ForwardFitsNext(n) /\ CircleFitsNext(n)
<1> DEFINE z == [type |-> "TERMINATION_TOKEN", sourceNode |-> k]
<1>0. TypeOK /\ BoundInv
  BY DEF MatchInv, BoundInv
<1>1. z.type # "RESULT"
  OBVIOUS
<1> HIDE DEF z
<1>2. Flow(k, z)
  BY <1>0, <1>1, CircleGrows DEF Flow, HeldNow, HeldNext
<1>3. phase[n] = "ended" => phase'[n] = "ended"
  BY <1>0, PhaseStep
<1>4. sendQueue'[n] = sendQueue[n] /\ forward'[n] = forward[n]
  OBVIOUS
<1>5. QueueFits(n) /\ ForwardFits(n) /\ CircleFits(n)
  BY DEF MatchInv
<1>6. QueueFitsNext(n)
  BY <1>0, <1>2, <1>4, <1>5, QueueSame
<1>7. ForwardFitsNext(n)
  BY <1>0, <1>2, <1>4, <1>5, ForwardSame
<1>8. CircleFitsNext(n)
  BY <1>0, <1>2, <1>3, <1>4, <1>5, CircleSame
<1> QED BY <1>6, <1>7, <1>8

\* Steps that append a message to the queue of k.
LEMMA AppendFits ==
  ASSUME MatchInv, TypeOK', Next, NEW k \in Node, NEW x \in Message,
         sendQueue' = [sendQueue EXCEPT ![k] = Append(@, x)],
         \A j \in Node \ {k} : forward'[j] = forward[j],
         forward'[k] = forward[k] \/ forward'[k] = <<>>,
         \A j \in Node, y \in Message : HeldNow(j, y) => HeldNext(j, y),
         FitsNext(x, k, All(sendQueue[k])) \/ (Fits(x, k, All(sendQueue[k])) /\ forward[k] = <<x>>),
         NEW n \in Node
  PROVE  /\ QueueFitsNext(n) /\ ForwardFitsNext(n)
         /\ /\ circleSolutionOpt'[n] = circleSolutionOpt[n]
            /\ circleConfiguration'[n] = circleConfiguration[n]
            => CircleFitsNext(n)
<1> DEFINE z == [type |-> "TERMINATION_TOKEN", sourceNode |-> k]
<1>0. TypeOK /\ BoundInv
  BY DEF MatchInv, BoundInv
<1>1. z.type # "RESULT"
  OBVIOUS
<1> HIDE DEF z
<1>2. Flow(k, z)
  BY <1>0, <1>1, CircleGrows DEF Flow
<1>3. phase[n] = "ended" => phase'[n] = "ended"
  BY <1>0, PhaseStep
<1>4. /\ sendQueue'[k] = Append(sendQueue[k], x)
      /\ n # k => sendQueue'[n] = sendQueue[n]
  BY <1>0 DEF TypeOK
<1>5. QueueFits(n) /\ ForwardFits(n) /\ CircleFits(n)
  BY DEF MatchInv
<1>6. QueueFitsNext(n)
  <2>1. CASE n = k
    <3>1. All(sendQueue[k]) \in SUBSET Message
      BY <1>0, QueueType
    <3>2. FitsNext(x, k, All(sendQueue[k]))
      <4>1. \A y \in All(sendQueue[k]) : y.type = "RESULT" /\ ~(k = k /\ y = z) => y \in All(sendQueue[k])
        OBVIOUS
      <4> QED BY <1>0, <1>2, <3>1, <4>1, FitsFlows
    <3> QED BY <1>0, <1>2, <1>4, <1>5, <2>1, <3>2, QueueAppended
  <2>2. CASE n # k
    BY <1>0, <1>2, <1>4, <1>5, <2>2, QueueSame
  <2> QED BY <2>1, <2>2
<1>7. \A y \in All(sendQueue[n]) :
        y.type = "RESULT" /\ ~(n = k /\ y = z) => y \in All(sendQueue'[n])
  BY <1>0, <1>4, AllKept
<1>8. ForwardFitsNext(n)
  <2>1. CASE forward'[n] = forward[n]
    BY <1>0, <1>2, <1>5, <1>7, <2>1, ForwardSame
  <2>2. CASE forward'[n] = <<>>
    <3>1. \A msg : <<>> # <<msg>>
      OBVIOUS
    <3> QED BY <2>2, <3>1 DEF ForwardFitsNext
  <2> QED BY <2>1, <2>2
<1>9. ASSUME circleSolutionOpt'[n] = circleSolutionOpt[n], circleConfiguration'[n] = circleConfiguration[n]
      PROVE  CircleFitsNext(n)
  BY <1>0, <1>2, <1>3, <1>5, <1>7, <1>9, CircleSame
<1> QED BY <1>6, <1>8, <1>9

\* Steps that take the first message of the queue of m.
LEMMA TakeFits ==
  ASSUME MatchInv, TypeOK', Next, NEW m \in Node, sendQueue[m] # <<>>, Flow(m, Head(sendQueue[m])),
         sendQueue'[m] = Tail(sendQueue[m]), NEW n \in Node,
         \/ n = m
         \/ sendQueue'[n] = sendQueue[n]
         \/ \E x \in Message : sendQueue'[n] = Append(sendQueue[n], x) /\ FitsNext(x, n, All(sendQueue[n]))
  PROVE  /\ QueueFitsNext(n)
         /\ forward'[n] = forward[n] => ForwardFitsNext(n)
         /\ /\ circleSolutionOpt'[n] = circleSolutionOpt[n]
            /\ circleConfiguration'[n] = circleConfiguration[n]
            => CircleFitsNext(n)
<1> DEFINE z == Head(sendQueue[m])
<1>0. TypeOK /\ BoundInv
  BY DEF MatchInv, BoundInv
<1>1. phase[n] = "ended" => phase'[n] = "ended"
  BY <1>0, PhaseStep
<1>2. QueueFits(n) /\ ForwardFits(n) /\ CircleFits(n)
  BY DEF MatchInv
<1>3. QueueFitsNext(n)
  <2>1. CASE n = m
    BY <1>0, <1>2, <2>1, QueueTaken
  <2>2. CASE sendQueue'[n] = sendQueue[n]
    BY <1>0, <1>2, <2>2, QueueSame
  <2>3. ASSUME NEW x \in Message, sendQueue'[n] = Append(sendQueue[n], x),
               FitsNext(x, n, All(sendQueue[n]))
        PROVE  QueueFitsNext(n)
    BY <1>0, <1>2, <2>3, QueueAppended
  <2> QED BY <2>1, <2>2, <2>3
<1>4. \A y \in All(sendQueue[n]) :
        y.type = "RESULT" /\ ~(n = m /\ y = z) => y \in All(sendQueue'[n])
  <2>1. \/ sendQueue'[n] = sendQueue[n]
        \/ \E x \in Message : sendQueue'[n] = Append(sendQueue[n], x)
        \/ /\ n = m /\ sendQueue[n] # <<>> /\ z = Head(sendQueue[n])
           /\ sendQueue'[n] = Tail(sendQueue[n])
    OBVIOUS
  <2> HIDE DEF z
  <2> QED BY <1>0, <2>1, AllKept
<1>5. Flow(m, z)
  OBVIOUS
<1> HIDE DEF z
<1>6. ASSUME forward'[n] = forward[n]
      PROVE  ForwardFitsNext(n)
  BY <1>0, <1>2, <1>4, <1>5, <1>6, ForwardSame
<1>7. ASSUME circleSolutionOpt'[n] = circleSolutionOpt[n], circleConfiguration'[n] = circleConfiguration[n]
      PROVE  CircleFitsNext(n)
  BY <1>0, <1>1, <1>2, <1>4, <1>5, <1>7, CircleSame
<1> QED BY <1>3, <1>6, <1>7

\* What a handler that passes a message on does to the channels.
LEMMA PassStep ==
  ASSUME TypeOK, NEW m \in Node, sendQueue[m] # <<>>, forward[Right[m]] = <<>>,
         NEW x2 \in Message, PassOn(m, x2),
         x2.type = Head(sendQueue[m]).type, x2.sourceNode = Head(sendQueue[m]).sourceNode
  PROVE  /\ Head(sendQueue[m]) \in Message
         /\ sendQueue'[m] = Tail(sendQueue[m])
         /\ \A p \in Node \ {m} : sendQueue'[p] = sendQueue[p]
         /\ \A p \in Node \ {Right[m]} : forward'[p] = forward[p]
         /\ x2.sourceNode = Right[m] => forward'[Right[m]] = <<>>
         /\ x2.sourceNode # Right[m] => forward'[Right[m]] = <<x2>>
         /\ \A p \in Node, y \in Message :
              HeldNow(p, y) /\ ~(p = m /\ y = Head(sendQueue[m])) => HeldNext(p, y)
         /\ x2.type = "RESULT" /\ x2.sourceNode # Right[m] => HeldNext(Right[m], x2)
<1> DEFINE k == Right[m]
           z == Head(sendQueue[m])
<1>1. k \in Node /\ z \in Message /\ sendQueue[m] \in Seq(Message)
  BY ArrivesType DEF TypeOK
<1>2. /\ sendQueue'[m] = Tail(sendQueue[m])
      /\ \A p \in Node \ {m} : sendQueue'[p] = sendQueue[p]
      /\ \A p \in Node \ {k} : forward'[p] = forward[p]
      /\ x2.sourceNode = k => forward'[k] = <<>>
      /\ x2.sourceNode # k => forward'[k] = <<x2>>
  BY <1>1 DEF PassOn, TypeOK
<1>3. forward[k] = <<>> /\ \A y : <<>> # <<y>>
  OBVIOUS
<1>4. ASSUME NEW y, Occurs(y, sendQueue[m]), y # z
      PROVE  Occurs(y, sendQueue'[m])
  <2>1. /\ Occurs(y, sendQueue'[m]) => Occurs(y, sendQueue[m])
        /\ Occurs(y, sendQueue[m]) => y = Head(sendQueue[m]) \/ Occurs(y, sendQueue'[m])
    BY <1>1, <1>2, TakenFirst, Zenon
  <2> QED BY <1>4, <2>1
<1>5. ASSUME NEW p \in Node, NEW y \in Message, HeldNow(p, y), ~(p = m /\ y = z)
      PROVE  HeldNext(p, y)
  <2> HIDE DEF k, z
  <2>1. CASE Occurs(y, sendQueue[p])
    BY <1>2, <1>4, <1>5, <2>1 DEF HeldNow, HeldNext, Held
  <2>2. CASE forward[p] = <<y>>
    BY <1>2, <1>3, <1>5, <2>2 DEF HeldNow, HeldNext, Held
  <2> QED BY <1>5, <2>1, <2>2 DEF HeldNow, Held
<1>6. ASSUME x2.type = "RESULT", x2.sourceNode # k
      PROVE  HeldNext(k, x2)
  BY <1>2, <1>6 DEF HeldNext, Held
<1> QED BY <1>1, <1>2, <1>5, <1>6

\* A message passed on goes with the flow if it is no worse.
LEMMA PassFlows ==
  ASSUME BoundInv, Next, NEW m \in Node, sendQueue[m] # <<>>, forward[Right[m]] = <<>>,
         NEW x2 \in Message, PassOn(m, x2),
         x2.type = Head(sendQueue[m]).type, x2.sourceNode = Head(sendQueue[m]).sourceNode,
         x2.type = "RESULT" =>
           /\ x2.slotA >= Head(sendQueue[m]).slotA
           /\ phase'[Right[m]] = "ended" \/ circleSolutionOpt'[Right[m]] >= Head(sendQueue[m]).slotA
  PROVE  Flow(m, Head(sendQueue[m]))
<1> DEFINE z == Head(sendQueue[m])
<1>1. TypeOK
  BY DEF BoundInv
<1>2. z \in Message
  BY <1>1, ArrivesType
<1>3. \A n \in Node : phase'[n] = "ended"
                        \/ (phase[n] # "ended" /\ circleSolutionOpt'[n] >= circleSolutionOpt[n])
  BY CircleGrows
<1>4. \A n \in Node, y \in Message : HeldNow(n, y) /\ ~(n = m /\ y = z) => HeldNext(n, y)
  BY <1>1, PassStep
<1>5. ASSUME z.type = "RESULT"
      PROVE  /\ z.slotA \in Nat
             /\ phase'[Right[m]] = "ended" \/ circleSolutionOpt'[Right[m]] >= z.slotA
             /\ z.sourceNode # Right[m] => HeldNext(Right[m], x2)
  BY <1>1, <1>2, <1>5, PassStep, ResultFields
<1>6. z.type = "RESULT" => x2.sourceNode = z.sourceNode /\ x2.slotA >= z.slotA
  OBVIOUS
<1> HIDE DEF z
<1>7. Flow(m, z)
  BY <1>3, <1>4, <1>5, <1>6 DEF Flow
<1> QED BY <1>7 DEF z

LEMMA PassFits ==
  ASSUME MatchInv, TypeOK', Next, NEW m \in Node, sendQueue[m] # <<>>, forward[Right[m]] = <<>>,
         NEW x2 \in Message, PassOn(m, x2),
         x2.type = Head(sendQueue[m]).type, x2.sourceNode = Head(sendQueue[m]).sourceNode,
         Flow(m, Head(sendQueue[m])),
         x2.sourceNode # Right[m] => FitsNext(x2, Right[m], All(sendQueue'[Right[m]])),
         NEW n \in Node,
         \/ CircleFitsNext(n)
         \/ /\ circleSolutionOpt'[n] = circleSolutionOpt[n]
            /\ circleConfiguration'[n] = circleConfiguration[n]
  PROVE  QueueFitsNext(n) /\ ForwardFitsNext(n) /\ CircleFitsNext(n)
<1>0. TypeOK
  BY DEF MatchInv, BoundInv
<1>1. /\ sendQueue'[m] = Tail(sendQueue[m])
      /\ n # m => sendQueue'[n] = sendQueue[n]
      /\ n # Right[m] => forward'[n] = forward[n]
      /\ x2.sourceNode = Right[m] => forward'[Right[m]] = <<>>
      /\ x2.sourceNode # Right[m] => forward'[Right[m]] = <<x2>>
  BY <1>0, PassStep
<1>2. /\ QueueFitsNext(n)
      /\ forward'[n] = forward[n] => ForwardFitsNext(n)
      /\ /\ circleSolutionOpt'[n] = circleSolutionOpt[n]
         /\ circleConfiguration'[n] = circleConfiguration[n]
         => CircleFitsNext(n)
  <2>1. \/ n = m
        \/ sendQueue'[n] = sendQueue[n]
        \/ \E x \in Message : sendQueue'[n] = Append(sendQueue[n], x) /\ FitsNext(x, n, All(sendQueue[n]))
    BY <1>1
  <2>2. sendQueue'[m] = Tail(sendQueue[m])
    BY <1>1
  <2> QED BY <2>1, <2>2, TakeFits
<1>3. ForwardFitsNext(n)
  <2>1. CASE n # Right[m] \/ x2.sourceNode = Right[m]
    <3>1. forward'[n] = forward[n]
      BY <1>1, <2>1
    <3> QED BY <1>2, <3>1
  <2>2. CASE n = Right[m] /\ x2.sourceNode # Right[m]
    <3>1. \A msg : <<x2>> = <<msg>> => msg = x2
      OBVIOUS
    <3> QED BY <1>1, <2>2, <3>1 DEF ForwardFitsNext
  <2> QED BY <2>1, <2>2
<1> QED BY <1>2, <1>3

\* The first message of a queue has nothing ahead of it in its channel.
LEMMA HeadFits ==
  ASSUME MatchInv, NEW m \in Node, sendQueue[m] # <<>>
  PROVE  Fits(Head(sendQueue[m]), m, {})
<1>1. sendQueue[m] \in Seq(Message) /\ QueueFits(m)
  BY DEF MatchInv, BoundInv, TypeOK
<1>2. Before(sendQueue[m], 1) = {} /\ 1 \in DOMAIN sendQueue[m] /\ sendQueue[m][1] = Head(sendQueue[m])
  BY <1>1, BeforeHead, Zenon
<1> QED BY <1>1, <1>2 DEF QueueFits

\* One that goes on fits the node it has reached as well.
LEMMA HeadFollows ==
  ASSUME MatchInv, NEW m \in Node, sendQueue[m] # <<>>, forward[Right[m]] = <<>>,
         Head(sendQueue[m]).sourceNode # Right[m]
  PROVE  Fits(Head(sendQueue[m]), Right[m], All(sendQueue[Right[m]]))
<1> DEFINE z == Head(sendQueue[m])
<1>1. z \in Message /\ Fits(z, m, {})
  BY HeadFits, ArrivesType DEF MatchInv, BoundInv
<1>2. CASE z.type = "RESULT"
  <2>1. z.sourceNode \in Node /\ z.sourceNode # Right[m]
    BY <1>1, <1>2, ResultFields
  <2>2. PICK F \in SUBSET Node : Path(F, m, z.sourceNode)
    BY <1>1, <1>2 DEF Fits
  <2>3. Path(F \ {Right[m]}, Right[m], z.sourceNode) /\ F \ {Right[m]} \in SUBSET Node
    BY <2>1, <2>2, PathFollows
  <2>4. ASSUME z.slotA # z.config
        PROVE  GuardedNow(Right[m], All(sendQueue[Right[m]]), z.sourceNode, z.slotA)
    <3>1. GuardedNow(m, {}, z.sourceNode, z.slotA)
      BY <1>1, <1>2, <2>4 DEF Fits
    <3> HIDE DEF z
    <3> QED BY <2>1, <3>1, GuardFollows
  <2> HIDE DEF z
  <2>5. Fits(z, Right[m], All(sendQueue[Right[m]]))
    BY <1>2, <2>3, <2>4 DEF Fits
  <2> QED BY <2>5 DEF z
<1>3. CASE z.type # "RESULT"
  BY <1>1, <1>3 DEF Fits
<1> QED BY <1>2, <1>3

\* RESULT and TERMINATE at a node that has ended.
LEMMA OutsideFits ==
  ASSUME MatchInv, TypeOK', Next, NEW m \in Node, ReceiveOutside(m), NEW n \in Node
  PROVE  QueueFitsNext(n) /\ ForwardFitsNext(n) /\ CircleFitsNext(n)
<1> DEFINE k == Right[m]
           z == Head(sendQueue[m])
<1>0. TypeOK /\ BoundInv
  BY DEF MatchInv, BoundInv
<1>1. /\ sendQueue[m] # <<>> /\ forward[k] = <<>> /\ PassOn(m, z)
      /\ UNCHANGED <<phase, circleSolutionOpt, circleConfiguration>>
  BY DEF ReceiveOutside, Arrives, circleVars
<1>2. z \in Message /\ k \in Node /\ k # m
  BY <1>0, <1>1, ArrivesType, RingAssumption
<1>3. phase'[k] = "ended"
  BY <1>1, <1>2 DEF ReceiveOutside, InComputation, MatchInv, NoneOut
<1>4. z.type = "RESULT" => z.slotA >= z.slotA
  BY <1>2, ResultFields
<1>5. Flow(m, z)
  BY <1>0, <1>1, <1>2, <1>3, <1>4, PassFlows
<1>6. ASSUME z.sourceNode # k
      PROVE  FitsNext(z, k, All(sendQueue'[k]))
  <2>1. Fits(z, k, All(sendQueue[k]))
    BY <1>1, <1>6, HeadFollows
  <2>2. sendQueue'[k] = sendQueue[k]
    BY <1>0, <1>1, <1>2, PassStep
  <2>3. \A y \in All(sendQueue[k]) : y.type = "RESULT" /\ ~(k = m /\ y = z) => y \in All(sendQueue'[k])
    BY <2>2
  <2>4. All(sendQueue[k]) \in SUBSET Message
    BY <1>0, <1>2, QueueType
  <2> HIDE DEF k, z
  <2> QED BY <1>0, <1>2, <1>5, <2>1, <2>3, <2>4, FitsFlows
<1>7. circleSolutionOpt'[n] = circleSolutionOpt[n] /\ circleConfiguration'[n] = circleConfiguration[n]
  BY <1>1
<1> QED BY <1>1, <1>2, <1>5, <1>6, <1>7, PassFits

\* TERMINATE: its pair matches.
LEMMA TerminateFits ==
  ASSUME MatchInv, TypeOK', Next, NEW m \in Node, ReceiveTerminate(m), NEW n \in Node
  PROVE  QueueFitsNext(n) /\ ForwardFitsNext(n) /\ CircleFitsNext(n)
<1> DEFINE k == Right[m]
           z == Head(sendQueue[m])
<1>0. TypeOK /\ BoundInv
  BY DEF MatchInv, BoundInv
<1>1. /\ sendQueue[m] # <<>> /\ forward[k] = <<>> /\ PassOn(m, z) /\ z.type = "TERMINATE"
      /\ phase' = [phase EXCEPT ![k] = "ended"]
      /\ circleSolutionOpt' = [circleSolutionOpt EXCEPT ![k] = z.slotA]
      /\ circleConfiguration' = [circleConfiguration EXCEPT ![k] = z.config]
  BY DEF ReceiveTerminate, Arrives
<1>2. z \in Message /\ k \in Node
  BY <1>0, <1>1, ArrivesType
<1>3. Fits(z, m, {})
  BY <1>1, HeadFits
<1>4. Flow(m, z)
  BY <1>0, <1>1, <1>2, PassFlows
<1>5. FitsNext(z, k, All(sendQueue'[k]))
  BY <1>1, <1>3 DEF Fits, FitsNext
<1>6. \/ CircleFitsNext(n)
      \/ /\ circleSolutionOpt'[n] = circleSolutionOpt[n]
         /\ circleConfiguration'[n] = circleConfiguration[n]
  <2>1. CASE n = k
    <3>1. phase'[n] = "ended"
      BY <1>0, <1>1, <2>1 DEF TypeOK
    <3> QED BY <3>1 DEF CircleFitsNext
  <2>2. CASE n # k
    BY <1>0, <1>1, <2>2 DEF TypeOK
  <2> QED BY <2>1, <2>2
<1> QED BY <1>1, <1>2, <1>4, <1>5, <1>6, PassFits

\* What a node learns from a RESULT matches: it takes no guarded cost.
LEMMA LearnsMatched ==
  ASSUME MatchInv, NEW m \in Node, ReceiveResult(m), Learns(Right[m], Head(sendQueue[m]))
  PROVE  Head(sendQueue[m]).slotA = Head(sendQueue[m]).config
<1> DEFINE k == Right[m]
           z == Head(sendQueue[m])
<1>0. TypeOK
  BY DEF MatchInv, BoundInv
<1>1. sendQueue[m] # <<>> /\ z.type = "RESULT" /\ phase[k] # "ended"
  BY DEF ReceiveResult, Arrives, InComputation
<1>2. z \in Message /\ k \in Node /\ Fits(z, m, {})
  BY <1>0, <1>1, ArrivesType, HeadFits
<1>3. z.slotA \in Nat /\ circleSolutionOpt[k] \in Nat
  BY <1>0, <1>1, <1>2, ResultFields, CostNat DEF TypeOK
<1>4. z.slotA > circleSolutionOpt[k]
  BY DEF Learns, isBetter
<1>5. ASSUME GuardedNow(m, {}, z.sourceNode, z.slotA)
      PROVE  FALSE
  <2>1. circleSolutionOpt[k] >= z.slotA \/ phase[k] = "ended"
    <3> HIDE DEF z
    <3> QED BY <1>5, GuardFirst
  <2> HIDE DEF k, z
  <2> QED BY <1>1, <1>3, <1>4, <2>1
<1> QED BY <1>1, <1>2, <1>5 DEF Fits

\* RESULT, informResult.
LEMMA ResultFits ==
  ASSUME MatchInv, TypeOK', Next, NEW m \in Node, ReceiveResult(m), NEW n \in Node
  PROVE  QueueFitsNext(n) /\ ForwardFitsNext(n) /\ CircleFitsNext(n)
<1> DEFINE k == Right[m]
           z == Head(sendQueue[m])
           x2 == Passed(k, z)
<1>0. TypeOK /\ BoundInv
  BY DEF MatchInv, BoundInv
<1>1. /\ sendQueue[m] # <<>> /\ forward[k] = <<>> /\ PassOn(m, x2) /\ z.type = "RESULT"
      /\ circleSolutionOpt' = [circleSolutionOpt EXCEPT ![k] = IF Learns(k, z) THEN z.slotA ELSE @]
      /\ circleConfiguration' = [circleConfiguration EXCEPT ![k] = IF Learns(k, z) THEN z.config ELSE @]
  BY DEF ReceiveResult, Arrives
<1>2. z \in Message /\ k \in Node /\ k # m
  BY <1>0, <1>1, ArrivesType, RingAssumption
<1>3. z.slotA \in Nat /\ circleSolutionOpt[k] \in Nat /\ z.sourceNode \in Node
  BY <1>0, <1>1, <1>2, ResultFields, CostNat DEF TypeOK
<1>4. /\ Learns(k, z) => z.slotA > circleSolutionOpt[k] /\ x2 = z
      /\ ~Learns(k, z) =>
           /\ circleSolutionOpt[k] >= z.slotA
           /\ x2.slotA = circleSolutionOpt[k] /\ x2.config = circleConfiguration[k]
      /\ x2 \in Message /\ x2.type = z.type /\ x2.sourceNode = z.sourceNode
  <2>1. z \in [type : {"RESULT"}, sourceNode : Node, slotA : Cost, config : Cost, terminal : BOOLEAN]
    BY <1>1, <1>2 DEF Message
  <2>2. x2 \in Message
    BY <1>0, <1>1, <1>2, PassedType
  <2>3. CASE Learns(k, z)
    BY <1>2, <1>3, <2>2, <2>3 DEF Learns, isBetter, Passed
  <2>4. CASE ~Learns(k, z)
    <3>1. x2 = [z EXCEPT !.slotA = circleSolutionOpt[k], !.config = circleConfiguration[k]]
      BY <2>4 DEF Learns, Passed
    <3> HIDE DEF x2, z, k
    <3>2. /\ x2.slotA = circleSolutionOpt[k] /\ x2.config = circleConfiguration[k]
          /\ x2.type = z.type /\ x2.sourceNode = z.sourceNode
      BY <2>1, <3>1
    <3> QED BY <1>3, <2>2, <2>4, <3>2 DEF Learns, isBetter
  <2> QED BY <2>3, <2>4
<1>5. x2.slotA >= z.slotA /\ circleSolutionOpt'[k] >= z.slotA
  BY <1>0, <1>1, <1>2, <1>3, <1>4 DEF TypeOK
<1>6. Flow(m, z)
  <2> HIDE DEF x2
  <2> QED BY <1>0, <1>1, <1>2, <1>4, <1>5, PassFlows
<1>7. sendQueue'[k] = sendQueue[k]
  <2> HIDE DEF x2
  <2> QED BY <1>0, <1>1, <1>2, <1>4, PassStep
<1>8. ASSUME z.sourceNode # k
      PROVE  FitsNext(x2, k, All(sendQueue'[k]))
  <2>1. PICK F \in SUBSET Node : Path(F, k, z.sourceNode)
    BY <1>1, <1>8, HeadFollows DEF Fits
  <2>2. x2.slotA = x2.config \/ GuardedNext(k, All(sendQueue'[k]), z.sourceNode, x2.slotA)
    <3>1. CASE Learns(k, z)
      BY <1>4, <3>1, LearnsMatched
    <3>2. CASE ~Learns(k, z) /\ circleSolutionOpt[k] # circleConfiguration[k]
      <4> HIDE DEF x2, k, z
      <4>1. x2.slotA = circleSolutionOpt[k] /\ phase[k] # "ended"
        BY <1>4, <3>2 DEF ReceiveResult, InComputation, k
      <4>2. GuardedNow(k, All(sendQueue[k]), k, circleSolutionOpt[k])
        BY <1>2, <3>2, <4>1 DEF MatchInv, CircleFits
      <4>3. All(sendQueue[k]) \in SUBSET Message
        BY <1>0, <1>2, QueueType
      <4>4. GuardedNow(k, All(sendQueue[k]), z.sourceNode, circleSolutionOpt[k])
        BY <1>2, <1>3, <2>1, <4>2, <4>3, GuardShort
      <4>5. \A y \in All(sendQueue[k]) :
              y.type = "RESULT" /\ ~(k = m /\ y = z) => y \in All(sendQueue'[k])
        BY <1>7
      <4>6. GuardedNext(k, All(sendQueue'[k]), z.sourceNode, circleSolutionOpt[k])
        BY <1>0, <1>2, <1>3, <1>6, <4>3, <4>4, <4>5, GuardFlows
      <4> QED BY <4>1, <4>6
    <3>3. CASE ~Learns(k, z) /\ circleSolutionOpt[k] = circleConfiguration[k]
      BY <1>4, <3>3
    <3> QED BY <3>1, <3>2, <3>3
  <2>3. x2.type = "RESULT" /\ x2.sourceNode = z.sourceNode
    BY <1>1, <1>4
  <2> HIDE DEF x2, k, z
  <2> QED BY <2>1, <2>2, <2>3 DEF FitsNext
<1>9. \/ CircleFitsNext(n)
      \/ /\ circleSolutionOpt'[n] = circleSolutionOpt[n]
         /\ circleConfiguration'[n] = circleConfiguration[n]
  <2>1. CASE n = k /\ Learns(k, z)
    <3>1. circleSolutionOpt'[n] = z.slotA /\ circleConfiguration'[n] = z.config
      BY <1>0, <1>1, <1>2, <2>1 DEF TypeOK
    <3> QED BY <2>1, <3>1, LearnsMatched DEF CircleFitsNext
  <2>2. CASE ~(n = k /\ Learns(k, z))
    BY <1>0, <1>1, <1>2, <2>2 DEF TypeOK
  <2> QED BY <2>1, <2>2
<1> HIDE DEF x2
<1> QED BY <1>1, <1>2, <1>4, <1>6, <1>8, <1>9, PassFits

\* TERMINATION_TOKEN.
LEMMA TokenFits ==
  ASSUME MatchInv, TypeOK', Next, NEW m \in Node, ReceiveToken(m), NEW n \in Node
  PROVE  QueueFitsNext(n) /\ ForwardFitsNext(n) /\ CircleFitsNext(n)
<1> DEFINE k == Right[m]
           z == Head(sendQueue[m])
<1>0. TypeOK /\ BoundInv
  BY DEF MatchInv, BoundInv
<1>1. /\ sendQueue[m] # <<>> /\ z.type = "TERMINATION_TOKEN"
      /\ UNCHANGED <<forward, circleSolutionOpt, circleConfiguration>>
  BY DEF ReceiveToken, Arrives, circleVars
<1>2. z \in Message /\ k \in Node /\ k # m
  BY <1>0, <1>1, ArrivesType, RingAssumption
<1>3. /\ sendQueue'[m] = Tail(sendQueue[m])
      /\ \/ n = m
         \/ sendQueue'[n] = sendQueue[n]
         \/ sendQueue'[n] = Append(sendQueue[n], z)
  BY <1>0, <1>2 DEF ReceiveToken, TypeOK
<1>4. Flow(m, z)
  <2>1. \A j \in Node, y \in Message : HeldNow(j, y) => HeldNext(j, y)
    BY <1>0, QuietStep
  <2> HIDE DEF z
  <2> QED BY <1>0, <1>1, <2>1, CircleGrows DEF Flow
<1>5. FitsNext(z, n, All(sendQueue[n]))
  BY <1>1 DEF FitsNext
<1>6. \/ n = m
      \/ sendQueue'[n] = sendQueue[n]
      \/ \E x \in Message : sendQueue'[n] = Append(sendQueue[n], x) /\ FitsNext(x, n, All(sendQueue[n]))
  BY <1>2, <1>3, <1>5
<1> QED BY <1>1, <1>3, <1>4, <1>6, TakeFits

\* The handler passes a message on.
LEMMA ForwardStepFits ==
  ASSUME MatchInv, TypeOK', Next, NEW k \in Node, Forward(k), NEW n \in Node
  PROVE  QueueFitsNext(n) /\ ForwardFitsNext(n) /\ CircleFitsNext(n)
<1>0. TypeOK
  BY DEF MatchInv, BoundInv
<1>1. PICK x \in Message : forward[k] = <<x>>
  BY <1>0 DEF Forward, TypeOK
<1>2. /\ sendQueue' = [sendQueue EXCEPT ![k] = Append(@, x)]
      /\ \A j \in Node \ {k} : forward'[j] = forward[j]
      /\ forward'[k] = <<>>
      /\ UNCHANGED <<circleSolutionOpt, circleConfiguration>>
  <2>1. Head(forward[k]) = x
    BY <1>1
  <2> QED BY <1>0, <2>1 DEF Forward, Send, TypeOK, circleVars
<1>3. \A j \in Node, y \in Message : HeldNow(j, y) => HeldNext(j, y)
  BY <1>0, QuietStep
<1>4. Fits(x, k, All(sendQueue[k]))
  BY <1>1 DEF MatchInv, ForwardFits
<1> QED BY <1>1, <1>2, <1>3, <1>4, AppendFits

\* The main thread sends a message that its own fields match.
LEMMA SendFits ==
  ASSUME MatchInv, TypeOK', Next, NEW k \in Node, NEW x \in Message, Send(k, x), UNCHANGED forward,
         x.type \in {"RESULT", "TERMINATE"} => x.slotA = x.config,
         x.type = "RESULT" => x.sourceNode = k,
         NEW n \in Node
  PROVE  /\ QueueFitsNext(n) /\ ForwardFitsNext(n)
         /\ /\ circleSolutionOpt'[n] = circleSolutionOpt[n]
            /\ circleConfiguration'[n] = circleConfiguration[n]
            => CircleFitsNext(n)
<1>0. TypeOK
  BY DEF MatchInv, BoundInv
<1>1. /\ sendQueue' = [sendQueue EXCEPT ![k] = Append(@, x)]
      /\ \A j \in Node \ {k} : forward'[j] = forward[j]
      /\ forward'[k] = forward[k]
  BY DEF Send
<1>2. \A j \in Node, y \in Message : HeldNow(j, y) => HeldNext(j, y)
  BY <1>0, SendHolds
<1>3. FitsNext(x, k, All(sendQueue[k]))
  BY MatchedFits
<1> QED BY <1>1, <1>2, <1>3, AppendFits

\* A node that sends its own solution does not keep the configuration with it,
\* but guards the cost.
LEMMA SendMineFits ==
  ASSUME MatchInv, TypeOK', Next, NEW k \in Node, Synchronize(k), ~Accepts(k), Sends(k), NEW n \in Node
  PROVE  QueueFitsNext(n) /\ ForwardFitsNext(n) /\ CircleFitsNext(n)
<1> DEFINE x == Result(k, optimum[k], optimalConfig[k], FALSE)
<1>0. TypeOK /\ optimum[k] = optimalConfig[k] /\ optimum[k] \in Cost
  BY DEF MatchInv, BoundInv, OwnMatch, TypeOK
<1>1. /\ Send(k, x) /\ UNCHANGED <<forward, circleConfiguration>>
      /\ circleSolutionOpt' = [circleSolutionOpt EXCEPT ![k] = optimum[k]]
  BY DEF Synchronize, SendMine
<1>2. /\ x \in Message /\ x.type = "RESULT" /\ x.sourceNode = k
      /\ x.slotA = optimum[k] /\ x.config = optimalConfig[k]
  BY <1>0, ResultType DEF Result
<1> HIDE DEF x
<1>3. /\ QueueFitsNext(n) /\ ForwardFitsNext(n)
      /\ /\ circleSolutionOpt'[n] = circleSolutionOpt[n]
         /\ circleConfiguration'[n] = circleConfiguration[n]
         => CircleFitsNext(n)
  BY <1>0, <1>1, <1>2, SendFits
<1>4. CircleFitsNext(n)
  <2>1. CASE n = k
    <3>1. circleSolutionOpt'[k] = x.slotA
      BY <1>0, <1>1, <1>2 DEF TypeOK
    <3>2. sendQueue[k] \in Seq(Message) /\ sendQueue'[k] = Append(sendQueue[k], x)
      BY <1>0, <1>1 DEF Send, TypeOK
    <3>3. x \in All(sendQueue'[k])
      <4>1. x \in Message
        BY <1>2
      <4>2. All(sendQueue[k]) \subseteq All(sendQueue'[k]) /\ x \in All(sendQueue'[k])
        BY <3>2, <4>1, AllAppended, Zenon
      <4> QED BY <4>2
    <3>4. GuardedNext(k, All(sendQueue'[k]), k, x.slotA)
      BY <1>2, <3>3, GuardSent
    <3> QED BY <2>1, <3>1, <3>4 DEF CircleFitsNext
  <2>2. CASE n # k
    BY <1>0, <1>1, <1>3, <2>2 DEF TypeOK
  <2> QED BY <2>1, <2>2
<1> QED BY <1>3, <1>4

LEMMA MainStepFits ==
  ASSUME MatchInv, TypeOK', Next, NEW k \in Node,
         Start(k) \/ MainStep(k) \/ NewSolution(k) \/ ResumeSearch(k), NEW n \in Node
  PROVE  QueueFitsNext(n) /\ ForwardFitsNext(n) /\ CircleFitsNext(n)
<1>0. TypeOK /\ OwnMatch
  BY DEF MatchInv, BoundInv
<1>1. CASE \/ Start(k) \/ StopSearch(k) \/ NewSolution(k) \/ ResumeSearch(k)
           \/ Synchronize(k) /\ ~(~Accepts(k) /\ Sends(k))
  <2>1. UNCHANGED <<sendQueue, forward, circleSolutionOpt, circleConfiguration>>
    BY <1>1 DEF Start, StopSearch, NewSolution, ResumeSearch, Synchronize, AcceptCircle, netVars,
                circleVars
  <2> QED BY <2>1, QuietFits
<1>2. CASE Synchronize(k) /\ ~Accepts(k) /\ Sends(k)
  BY <1>2, SendMineFits
<1>3. CASE BecomeLeader(k) \/ GatherResult(k) \/ CommandTermination(k)
  <2>1. UNCHANGED <<forward, circleSolutionOpt, circleConfiguration>>
    BY <1>3 DEF BecomeLeader, GatherResult, CommandTermination, circleVars
  <2>2. \E x \in Message :
          /\ Send(k, x)
          /\ x.type \in {"RESULT", "TERMINATE"} => x.slotA = x.config
          /\ x.type = "RESULT" => x.sourceNode = k
    <3>1. CASE BecomeLeader(k)
      <4> DEFINE x == [type |-> "TERMINATION_TOKEN", sourceNode |-> k]
      <4>1. x \in Message /\ x.type = "TERMINATION_TOKEN" /\ Send(k, x)
        BY <3>1 DEF BecomeLeader, Message
      <4> HIDE DEF x
      <4> QED BY <4>1
    <3>2. CASE GatherResult(k)
      <4> DEFINE x == Result(k, optimum[k], optimalConfig[k], TRUE)
      <4>1. optimum[k] = optimalConfig[k] /\ optimum[k] \in Cost
        BY <1>0 DEF OwnMatch, TypeOK
      <4>2. /\ x \in Message /\ x.type = "RESULT" /\ x.sourceNode = k /\ x.slotA = x.config
            /\ Send(k, x)
        BY <3>2, <4>1, ResultType DEF GatherResult, Result
      <4> HIDE DEF x
      <4> QED BY <4>2
    <3>3. CASE CommandTermination(k)
      <4> DEFINE x == [type |-> "TERMINATE", sourceNode |-> k,
                       slotA |-> mySolutionOpt[k], config |-> myConfiguration[k]]
      <4>1. mySolutionOpt[k] = myConfiguration[k] /\ mySolutionOpt[k] \in Cost
        BY <1>0, <3>3 DEF CommandTermination, OwnMatch, TypeOK
      <4>2. x \in Message /\ x.type = "TERMINATE" /\ x.slotA = x.config /\ Send(k, x)
        BY <3>3, <4>1 DEF CommandTermination, Message
      <4> HIDE DEF x
      <4> QED BY <4>2
    <3> QED BY <1>3, <3>1, <3>2, <3>3
  <2> QED BY <2>1, <2>2, SendFits
<1> QED BY <1>1, <1>2, <1>3 DEF MainStep

-----------------------------------------------------------------------------
\* The fields of a node after a step.
OwnNext(n) ==
  /\ optimum'[n] = optimalConfig'[n]
  /\ haveNewCirlceSolution'[n] => circleSolutionOpt'[n] = circleConfiguration'[n]
  /\ phase'[n] = "gather" => mySolutionOpt'[n] = myConfiguration'[n]

LEMMA SynchronizeOwn ==
  ASSUME TypeOK, OwnMatch, NEW k \in Node, Synchronize(k), NEW n \in Node
  PROVE  OwnNext(n)
<1>1. /\ phase' = [phase EXCEPT ![k] = "dfs"]
      /\ haveNewCirlceSolution' = [haveNewCirlceSolution EXCEPT ![k] = FALSE]
      /\ n # k => myConfiguration'[n] = myConfiguration[n]
      /\ UNCHANGED circleConfiguration
  BY DEF Synchronize, TypeOK
<1>2. CASE n = k
  <2>1. ~haveNewCirlceSolution'[n] /\ phase'[n] = "dfs"
    BY <1>1, <1>2 DEF TypeOK
  <2>2. optimum'[n] = optimalConfig'[n]
    <3>1. CASE Accepts(k)
      <4>1. optimum'[n] = circleSolutionOpt[n] /\ optimalConfig'[n] = circleConfiguration[n]
        BY <1>2, <3>1 DEF Synchronize, AcceptCircle, TypeOK
      <4>2. haveNewCirlceSolution[n]
        BY <1>2, <3>1 DEF Accepts
      <4> QED BY <4>1, <4>2 DEF OwnMatch
    <3>2. CASE ~Accepts(k)
      <4>1. UNCHANGED <<optimum, optimalConfig>>
        BY <3>2 DEF Synchronize, SendMine
      <4> QED BY <4>1 DEF OwnMatch
    <3> QED BY <3>1, <3>2
  <2> QED BY <2>1, <2>2 DEF OwnNext
<1>3. CASE n # k
  <2>1. /\ phase'[n] = phase[n] /\ haveNewCirlceSolution'[n] = haveNewCirlceSolution[n]
        /\ myConfiguration'[n] = myConfiguration[n]
        /\ circleConfiguration'[n] = circleConfiguration[n]
    BY <1>1, <1>3 DEF TypeOK
  <2>2. /\ optimum'[n] = optimum[n] /\ optimalConfig'[n] = optimalConfig[n]
        /\ circleSolutionOpt'[n] = circleSolutionOpt[n] /\ mySolutionOpt'[n] = mySolutionOpt[n]
    <3>1. CASE Accepts(k)
      BY <1>3, <3>1 DEF Synchronize, AcceptCircle, TypeOK
    <3>2. CASE ~Accepts(k) /\ Sends(k)
      BY <1>3, <3>2 DEF Synchronize, SendMine, TypeOK
    <3>3. CASE ~Accepts(k) /\ ~Sends(k)
      BY <1>3, <3>3 DEF Synchronize
    <3> QED BY <3>1, <3>2, <3>3
  <2> QED BY <2>1, <2>2 DEF OwnNext, OwnMatch
<1> QED BY <1>2, <1>3

LEMMA MainStepOwn ==
  ASSUME TypeOK, OwnMatch, NEW k \in Node,
         Start(k) \/ MainStep(k) \/ NewSolution(k) \/ ResumeSearch(k) \/ Forward(k), NEW n \in Node
  PROVE  OwnNext(n)
<1>1. CASE Synchronize(k)
  BY <1>1, SynchronizeOwn
<1>2. CASE NewSolution(k)
  <2>1. PICK cost \in CostsReported(k) :
          /\ optimum' = [optimum EXCEPT ![k] = cost]
          /\ optimalConfig' = [optimalConfig EXCEPT ![k] = cost]
    BY <1>2 DEF NewSolution
  <2>2. optimum'[n] = optimalConfig'[n]
    BY <2>1 DEF TypeOK, OwnMatch
  <2>3. UNCHANGED <<phase, circleVars, myVars>>
    BY <1>2 DEF NewSolution
  <2> QED BY <2>2, <2>3 DEF OwnNext, OwnMatch, circleVars, myVars
<1>3. CASE GatherResult(k)
  <2>1. UNCHANGED <<optimum, optimalConfig, circleVars>>
    BY <1>3 DEF GatherResult
  <2>2. phase'[n] = "gather" => mySolutionOpt'[n] = myConfiguration'[n]
    BY <1>3 DEF GatherResult, TypeOK, OwnMatch
  <2> QED BY <2>1, <2>2 DEF OwnNext, OwnMatch, circleVars
<1>4. CASE \/ Start(k) \/ StopSearch(k) \/ BecomeLeader(k) \/ CommandTermination(k)
           \/ ResumeSearch(k) \/ Forward(k)
  <2>1. UNCHANGED <<optimum, optimalConfig, circleVars, myVars>>
    BY <1>4 DEF Start, StopSearch, BecomeLeader, CommandTermination, ResumeSearch, Forward, compVars
  <2>2. phase'[n] = "gather" => phase[n] = "gather"
    BY <1>4 DEF Start, StopSearch, BecomeLeader, CommandTermination, ResumeSearch, Forward, TypeOK
  <2> QED BY <2>1, <2>2 DEF OwnNext, OwnMatch, circleVars, myVars
<1> QED BY <1>1, <1>2, <1>3, <1>4 DEF MainStep

LEMMA DeliverOwn ==
  ASSUME MatchInv, NEW m \in Node, Deliver(m), NEW n \in Node
  PROVE  OwnNext(n)
<1> DEFINE k == Right[m]
           z == Head(sendQueue[m])
<1>0. TypeOK /\ OwnMatch
  BY DEF MatchInv, BoundInv
<1>1. CASE ReceiveToken(m) \/ ReceiveOutside(m)
  <2>1. UNCHANGED <<phase, compVars, circleVars, myVars>>
    BY <1>1 DEF ReceiveToken, ReceiveOutside
  <2> QED BY <1>0, <2>1 DEF OwnNext, OwnMatch, compVars, circleVars, myVars
<1>2. CASE ReceiveTerminate(m)
  <2>1. sendQueue[m] # <<>> /\ z.type = "TERMINATE"
    BY <1>2 DEF ReceiveTerminate, Arrives
  <2>2. z.slotA = z.config
    BY <2>1, HeadFits DEF Fits
  <2> HIDE DEF z
  <2>3. /\ circleSolutionOpt' = [circleSolutionOpt EXCEPT ![k] = z.slotA]
        /\ circleConfiguration' = [circleConfiguration EXCEPT ![k] = z.config]
        /\ optimum' = [optimum EXCEPT ![k] = z.slotA]
        /\ optimalConfig' = [optimalConfig EXCEPT ![k] = z.config]
        /\ phase' = [phase EXCEPT ![k] = "ended"]
        /\ UNCHANGED <<haveNewCirlceSolution, myVars>>
    BY <1>2 DEF ReceiveTerminate, z
  <2> HIDE DEF k
  <2> QED BY <1>0, <2>2, <2>3 DEF OwnNext, OwnMatch, TypeOK, myVars
<1>3. CASE ReceiveResult(m)
  <2>1. Learns(k, z) => z.slotA = z.config
    BY <1>3, LearnsMatched
  <2>2. UNCHANGED <<phase, compVars, myVars>>
    BY <1>3 DEF ReceiveResult
  <2>3. haveNewCirlceSolution'[n] => circleSolutionOpt'[n] = circleConfiguration'[n]
    <3>1. CASE n = k /\ Learns(k, z)
      BY <1>0, <1>3, <2>1, <3>1 DEF ReceiveResult, TypeOK
    <3>2. CASE ~(n = k /\ Learns(k, z))
      <4>1. /\ haveNewCirlceSolution'[n] = haveNewCirlceSolution[n]
            /\ circleSolutionOpt'[n] = circleSolutionOpt[n]
            /\ circleConfiguration'[n] = circleConfiguration[n]
        BY <1>0, <1>3, <3>2 DEF ReceiveResult, TypeOK
      <4> QED BY <1>0, <4>1 DEF OwnMatch
    <3> QED BY <3>1, <3>2
  <2> QED BY <1>0, <2>2, <2>3 DEF OwnNext, OwnMatch, compVars, myVars
<1> QED BY <1>1, <1>2, <1>3 DEF Deliver

-----------------------------------------------------------------------------
LEMMA MatchInvInit == Late = {} /\ Init => MatchInv
<1> SUFFICES ASSUME Late = {}, Init
             PROVE  MatchInv
  OBVIOUS
<1>1. BoundInv /\ NoneOut
  BY SpreadInvInit DEF SpreadInv
<1>2. OwnMatch
  BY DEF Init, OwnMatch
<1>3. ASSUME NEW n \in Node
      PROVE  QueueFits(n) /\ ForwardFits(n) /\ CircleFits(n)
  <2>1. sendQueue[n] = <<>> /\ forward[n] = <<>> /\ circleSolutionOpt[n] = circleConfiguration[n]
    BY DEF Init
  <2>2. DOMAIN sendQueue[n] = {} /\ \A msg : forward[n] # <<msg>>
    BY <2>1
  <2> QED BY <2>1, <2>2 DEF QueueFits, ForwardFits, CircleFits
<1> QED BY <1>1, <1>2, <1>3 DEF MatchInv

LEMMA MatchInvNext ==
  ASSUME MatchInv, Next
  PROVE  MatchInv'
<1>1. BoundInv' /\ TypeOK /\ TypeOK'
  BY BoundInvStep DEF MatchInv, BoundInv
<1>2. NoneOut'
  BY <1>1, PhaseStep DEF MatchInv, NoneOut
<1>3. PICK k \in Node :
        Start(k) \/ MainStep(k) \/ NewSolution(k) \/ ResumeSearch(k) \/ Deliver(k) \/ Forward(k)
  BY DEF Next
<1>4. \A n \in Node : OwnNext(n)
  BY <1>1, <1>3, MainStepOwn, DeliverOwn DEF MatchInv
<1>5. OwnMatch'
  BY <1>4 DEF OwnMatch, OwnNext
<1>6. ASSUME NEW n \in Node
      PROVE  QueueFitsNext(n) /\ ForwardFitsNext(n) /\ CircleFitsNext(n)
  <2>1. CASE Start(k) \/ MainStep(k) \/ NewSolution(k) \/ ResumeSearch(k)
    BY <1>1, <2>1, MainStepFits
  <2>2. CASE Deliver(k)
    BY <1>1, <2>2, ResultFits, TokenFits, TerminateFits, OutsideFits DEF Deliver
  <2>3. CASE Forward(k)
    BY <1>1, <2>3, ForwardStepFits
  <2> QED BY <1>3, <2>1, <2>2, <2>3
<1>7. ASSUME NEW n \in Node
      PROVE  QueueFits(n)' /\ ForwardFits(n)' /\ CircleFits(n)'
  BY <1>6 DEF QueueFits, ForwardFits, CircleFits, Fits, GuardedNow,
              QueueFitsNext, ForwardFitsNext, CircleFitsNext, FitsNext, GuardedNext
<1> QED BY <1>1, <1>2, <1>5, <1>7 DEF MatchInv

LEMMA MatchInvStep == MatchInv /\ [Next]_vars => MatchInv'
<1> SUFFICES ASSUME MatchInv, UNCHANGED vars
             PROVE  MatchInv'
  BY MatchInvNext
<1>1. BoundInv'
  BY BoundInvStep DEF MatchInv
<1>2. NoneOut' /\ OwnMatch'
  BY DEF MatchInv, NoneOut, OwnMatch, vars, netVars, compVars, circleVars, myVars
<1>3. ASSUME NEW n \in Node
      PROVE  QueueFits(n)' /\ ForwardFits(n)' /\ CircleFits(n)'
  BY DEF MatchInv, QueueFits, ForwardFits, CircleFits, Fits, GuardedNow,
         vars, netVars, compVars, circleVars, myVars
<1> QED BY <1>1, <1>2, <1>3 DEF MatchInv

\* On every ring whose nodes take part from the beginning: the configuration a
\* node would print is always the one its optimum belongs to, although
\* synchronize() leaves the two halves of the ring's solution apart.
THEOREM SolutionMatchesAlways == Late = {} => (Spec => []SolutionMatches)
<1> SUFFICES ASSUME Late = {}
             PROVE  Spec => []SolutionMatches
  OBVIOUS
<1>1. Init => MatchInv
  BY MatchInvInit
<1>2. MatchInv => SolutionMatches
  BY DEF MatchInv, OwnMatch, SolutionMatches
<1> QED BY <1>1, <1>2, MatchInvStep, PTL DEF Spec

===============================================================================
