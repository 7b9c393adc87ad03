-------------------------- MODULE WorkSharingProofs --------------------------
(***************************************************************************)
(* Theorems about WorkSharing, for every ring, search space and schedule,  *)
(* waits that return early included: types and token origins; a node has   *)
(* at most one work request or answer under way; work is set only on a     *)
(* node whose main thread is blocked.                                      *)
(***************************************************************************)
EXTENDS WorkSharing, TLAPS

\* The left neighbour of a node exists and is another node.
LEMMA LeftOf ==
  ASSUME NEW n \in Node
  PROVE  Left(n) \in Node /\ Right[Left(n)] = n /\ Left(n) # n
<1>1. \E m \in Node : Right[m] = n
  <2> DEFINE S == {Right[m] : m \in Node}
  <2>1. S \in SUBSET Node /\ S # {} /\ \A k \in S : Right[k] \in S
    BY RingAssumption
  <2>2. S = Node
    <3> HIDE DEF S
    <3> QED BY <2>1, RingAssumption
  <2> QED BY <2>2
<1>2. Left(n) \in Node /\ Right[Left(n)] = n
  BY <1>1 DEF Left
<1> QED BY <1>2, RingAssumption

LEMMA InitType == Init => TypeOK
BY NodeAssumption, SchedulingAssumption
   DEF Init, TypeOK, PC, HandlerState, Color

\* The messages the main thread makes are messages.
LEMMA AssignmentType ==
  ASSUME NEW n \in Node, NEW units \in SUBSET Units
  PROVE  AssignmentTo(n, units) \in Message /\ KeptAnnouncement(n, units) \in Message
BY LeftOf DEF AssignmentTo, KeptAnnouncement, Message

LEMMA TokenType ==
  ASSUME NEW n \in Node, NEW recieved, NEW mine \in Color
  PROVE  OwnToken(n) \in Message /\ ForwardedToken(n, recieved, mine) \in Message
BY DEF OwnToken, ForwardedToken, Message, Color

LEMMA MainStepType ==
  ASSUME TypeOK, TokenOrigins, NEW n \in Node, Start(n) \/ MainStep(n) \/ SpuriousWakeup(n)
  PROVE  TypeOK'
<1> USE DEF TypeOK, PC, Color
<1>1. CASE Start(n)
  BY <1>1 DEF Start, searchVars, netVars, shareVars, tokenVars, termVars
<1>2. CASE Explore(n)
  BY <1>2 DEF Explore, mainVars, netVars, shareVars, tokenVars, termVars
<1>3. CASE EnterSynchronize(n)
  BY <1>3 DEF EnterSynchronize, searchVars, netVars, shareVars, tokenVars, termVars
<1>4. CASE AssignWork(n)
  <2>1. PICK given \in Splits(work[n]) :
          /\ work' = [work EXCEPT ![n] = Kept(@, given)]
          /\ sendQueue' = [sendQueue EXCEPT
                ![n] = @ \o <<AssignmentTo(Head(workRequests[n]), given),
                              KeptAnnouncement(n, Kept(work[n], given))>>]
    BY <1>4 DEF AssignWork
  <2>2. /\ AssignmentTo(Head(workRequests[n]), given) \in Message
        /\ KeptAnnouncement(n, Kept(work[n], given)) \in Message
    <3>1. Head(workRequests[n]) \in Node /\ given \in SUBSET Units
      BY <1>4 DEF AssignWork, Splits
    <3> QED BY <3>1, AssignmentType DEF Kept
  <2>3. work' \in [Node -> SUBSET Units] /\ sendQueue' \in [Node -> Seq(Message)]
    BY <2>1, <2>2 DEF Kept
  <2> QED
    BY <1>4, <2>3 DEF AssignWork, mainVars, termVars
<1>5. CASE DeclineRequest(n)
  <2>1. [type |-> "WORK_REQUEST", sourceNode |-> Head(workRequests[n])] \in Message
    BY <1>5 DEF DeclineRequest, Message
  <2> QED
    BY <1>5, <2>1 DEF DeclineRequest, Send, mainVars, searchVars, tokenVars, termVars
<1>6. CASE LeaveSynchronize(n)
  BY <1>6 DEF LeaveSynchronize, searchVars, netVars, shareVars, tokenVars, termVars
<1>7. CASE StopWorking(n)
  BY <1>7 DEF StopWorking, searchVars, netVars, tokenVars, termVars
<1>8. CASE RequestWork(n)
  <2>1. [type |-> "WORK_REQUEST", sourceNode |-> n] \in Message
    BY DEF Message
  <2> QED
    BY <1>8, <2>1 DEF RequestWork, Send, searchVars, tokenVars, termVars
<1>9. CASE WakeWithWork(n)
  BY <1>9 DEF WakeWithWork, searchVars, netVars, shareVars, tokenVars, termVars
<1>10. CASE ResumeWorking(n)
  BY <1>10 DEF ResumeWorking, searchVars, netVars, tokenVars, termVars
<1>11. CASE PassSavedToken(n)
  <2>1. tokenOrigin[n] \in Node
    BY <1>11 DEF PassSavedToken, TokenOrigins, Ending
  <2>2. ForwardedToken(tokenOrigin[n], recievedColor[n], myColor[n]) \in Message
    BY <2>1, TokenType
  <2> QED
    BY <1>11, <2>2 DEF PassSavedToken, Send, searchVars, shareVars, termVars
<1>12. CASE BecomeLeader(n)
  <2>1. OwnToken(n) \in Message
    BY TokenType
  <2> QED
    BY <1>12, <2>1 DEF BecomeLeader, Send, searchVars, shareVars, tokenVars
<1>13. CASE LeaderCommanded(n)
  BY <1>13 DEF LeaderCommanded, searchVars, netVars, shareVars, tokenVars, termVars
<1>14. CASE GatherResult(n)
  <2>1. [type |-> "RESULT", sourceNode |-> n] \in Message
    BY DEF Message
  <2> QED
    BY <1>14, <2>1 DEF GatherResult, LeaderSees, Send, searchVars, shareVars, tokenVars, termVars
<1>15. CASE RetryToken(n)
  <2>1. OwnToken(n) \in Message
    BY TokenType
  <2> QED
    BY <1>15, <2>1 DEF RetryToken, LeaderSees, Send, searchVars, shareVars, tokenVars, termVars
<1>16. CASE StepDown(n)
  BY <1>16 DEF StepDown, LeaderSees, searchVars, netVars, shareVars, tokenVars, termVars
<1>17. CASE CommandTermination(n)
  <2>1. [type |-> "TERMINATE", sourceNode |-> n] \in Message
    BY DEF Message
  <2> QED
    BY <1>17, <2>1 DEF CommandTermination, Send, searchVars, shareVars, tokenVars, termVars
<1>18. CASE ReturnFalse(n)
  BY <1>18 DEF ReturnFalse, searchVars, netVars, shareVars, tokenVars, termVars
<1>19. CASE Leave(n)
  BY <1>19 DEF Leave, searchVars, netVars, tokenVars, termVars
<1>20. CASE SpuriousWakeup(n)
  BY <1>20, SchedulingAssumption
     DEF SpuriousWakeup, searchVars, netVars, shareVars, tokenVars, termVars
<1> QED
  BY <1>1, <1>2, <1>3, <1>4, <1>5, <1>6, <1>7, <1>8, <1>9, <1>10, <1>11, <1>12, <1>13, <1>14,
     <1>15, <1>16, <1>17, <1>18, <1>19, <1>20
  DEF MainStep

\* What the handlers do to the channels.
LEMMA ArrivesType ==
  ASSUME TypeOK, NEW m \in Node, sendQueue[m] # <<>>
  PROVE  /\ Right[m] \in Node
         /\ Head(sendQueue[m]) \in Message
         /\ Tail(sendQueue[m]) \in Seq(Message)
BY RingAssumption DEF TypeOK

LEMMA ConsumeType ==
  ASSUME TypeOK, NEW m \in Node, sendQueue[m] # <<>>, Consume(m)
  PROVE  sendQueue' \in [Node -> Seq(Message)] /\ handler' \in [Node -> HandlerState]
BY ArrivesType DEF Consume, TypeOK

LEMMA PassOnType ==
  ASSUME TypeOK, NEW m \in Node, sendQueue[m] # <<>>, PassOn(m)
  PROVE  sendQueue' \in [Node -> Seq(Message)] /\ handler' \in [Node -> HandlerState]
<1>1. [op |-> "forward", msg |-> Head(sendQueue[m])] \in HandlerState
  BY ArrivesType DEF HandlerState
<1> QED
  BY <1>1, ArrivesType DEF PassOn, TypeOK

LEMMA DeliverType ==
  ASSUME TypeOK, NEW m \in Node, Deliver(m)
  PROVE  TypeOK'
<1>0. Right[m] \in Node
  BY RingAssumption
<1>1. CASE ReceiveOutside(m)
  <2>1. sendQueue[m] # <<>> /\ PassOn(m)
    BY <1>1 DEF ReceiveOutside, Arrives
  <2> QED
    BY <1>1, <2>1, PassOnType
    DEF ReceiveOutside, TypeOK, mainVars, searchVars, shareVars, tokenVars, termVars
<1>2. CASE ReceiveDenial(m)
  <2>1. sendQueue[m] # <<>> /\ Consume(m)
    BY <1>2 DEF ReceiveDenial, Locks, Arrives
  <2> QED
    BY <1>0, <1>2, <2>1, ConsumeType
    DEF ReceiveDenial, SignalIdle, TypeOK, searchVars, tokenVars, termVars
<1>3. CASE ReceiveRequest(m)
  <2>1. sendQueue[m] # <<>>
    BY <1>3 DEF ReceiveRequest, Arrives
  <2>2. \A op \in {"accept", "forward"} :
          [op |-> op, msg |-> Head(sendQueue[m])] \in HandlerState
    BY <2>1, ArrivesType DEF HandlerState
  <2> QED
    BY <1>0, <1>3, <2>1, <2>2, ArrivesType
    DEF ReceiveRequest, TypeOK, mainVars, searchVars, shareVars, tokenVars, termVars
<1>4. CASE ReceiveAssignment(m)
  <2>1. sendQueue[m] # <<>> /\ PassOn(m)
    BY <1>4 DEF ReceiveAssignment, Locks, Arrives
  <2>2. Head(sendQueue[m]).unit \in SUBSET Units
    BY <1>4, <2>1, ArrivesType DEF ReceiveAssignment, Locks, Arrives, Message
  <2> QED
    BY <1>0, <1>4, <2>1, <2>2, PassOnType
    DEF ReceiveAssignment, SignalIdle, TypeOK, tokenVars, termVars
<1>5. CASE ReceiveForeignAssignment(m)
  <2>1. sendQueue[m] # <<>> /\ PassOn(m)
    BY <1>5 DEF ReceiveForeignAssignment, Locks, Arrives
  <2> QED
    BY <1>5, <2>1, PassOnType
    DEF ReceiveForeignAssignment, TypeOK, mainVars, searchVars, shareVars, tokenVars, termVars
<1>6. CASE ReceiveMyToken(m)
  <2>1. sendQueue[m] # <<>> /\ Consume(m)
    BY <1>6 DEF ReceiveMyToken, Locks, Arrives
  <2>2. Head(sendQueue[m]).slotA \in Color
    BY <1>6, <2>1, ArrivesType DEF ReceiveMyToken, Locks, Arrives, Message
  <2> QED
    BY <1>0, <1>6, <2>1, <2>2, ConsumeType
    DEF ReceiveMyToken, SignalIdle, TypeOK, searchVars, shareVars, termVars
<1>7. ASSUME SaveToken(m)
      PROVE  /\ sendQueue[m] # <<>>
             /\ Head(sendQueue[m]).slotA \in Color
             /\ Head(sendQueue[m]).sourceNode \in Node
             /\ terminationToken' \in [Node -> BOOLEAN]
             /\ recievedColor' \in [Node -> Color \cup {"unset"}]
             /\ tokenOrigin' \in [Node -> Node \cup {NoNode}]
  <2>1. sendQueue[m] # <<>> /\ Head(sendQueue[m]).type = "TERMINATION_TOKEN"
    BY <1>7 DEF SaveToken, Locks, Arrives
  <2>2. Head(sendQueue[m]).slotA \in Color /\ Head(sendQueue[m]).sourceNode \in Node
    BY <2>1, ArrivesType DEF Message
  <2> QED
    BY <1>0, <1>7, <2>1, <2>2 DEF SaveToken, TypeOK
<1>8. CASE KeepForeignToken(m)
  <2>1. SaveToken(m) /\ Consume(m)
    BY <1>8 DEF KeepForeignToken
  <2> QED
    BY <1>7, <1>8, <2>1, ConsumeType
    DEF KeepForeignToken, TypeOK, mainVars, searchVars, shareVars, termVars
<1>9. CASE PassForeignToken(m)
  <2> DEFINE token == Head(sendQueue[m])
             passed == ForwardedToken(token.sourceNode, token.slotA, myColor[Right[m]])
  <2>1. SaveToken(m)
    BY <1>9 DEF PassForeignToken
  <2>2. passed \in Message /\ sendQueue[m] # <<>>
    BY <1>0, <1>7, <2>1, TokenType DEF TypeOK
  <2>3. sendQueue' = [sendQueue EXCEPT ![m] = Tail(@), ![Right[m]] = Append(@, passed)]
    BY <1>9 DEF PassForeignToken
  <2>4. sendQueue' \in [Node -> Seq(Message)]
    <3>1. Right[m] # m
      BY RingAssumption
    <3>2. Append(sendQueue[Right[m]], passed) \in Seq(Message)
      <4> HIDE DEF passed
      <4> QED BY <1>0, <2>2 DEF TypeOK
    <3> HIDE DEF passed
    <3> QED BY <1>0, <2>2, <2>3, <3>1, <3>2, ArrivesType DEF TypeOK
  <2> QED
    BY <1>0, <1>7, <1>9, <2>1, <2>4
    DEF PassForeignToken, TypeOK, Color, mainVars, searchVars, shareVars
<1>10. CASE ReceiveTerminalResult(m)
  <2>1. sendQueue[m] # <<>> /\ PassOn(m)
    BY <1>10 DEF ReceiveTerminalResult, Locks, Arrives
  <2> QED
    BY <1>0, <1>10, <2>1, PassOnType
    DEF ReceiveTerminalResult, TypeOK, searchVars, shareVars, tokenVars, termVars
<1>11. CASE ReceiveTerminate(m)
  <2>1. sendQueue[m] # <<>> /\ PassOn(m)
    BY <1>11 DEF ReceiveTerminate, Locks, Arrives
  <2> QED
    BY <1>0, <1>11, <2>1, PassOnType
    DEF ReceiveTerminate, SignalIdle, TypeOK, searchVars, shareVars, tokenVars
<1> QED
  BY <1>1, <1>2, <1>3, <1>4, <1>5, <1>6, <1>8, <1>9, <1>10, <1>11 DEF Deliver

LEMMA FinishHandlerType ==
  ASSUME TypeOK, NEW n \in Node, FinishHandler(n)
  PROVE  TypeOK'
<1>1. [op |-> "none"] \in HandlerState
  BY DEF HandlerState
<1>2. handler[n].op # "none" => handler[n].msg \in Message /\ handler[n].msg.sourceNode \in Node
  BY DEF TypeOK, HandlerState, Message
<1>3. CASE AcceptRequest(n)
  BY <1>1, <1>2, <1>3
  DEF AcceptRequest, TypeOK, mainVars, searchVars, tokenVars, termVars
<1>4. CASE Forward(n)
  BY <1>1, <1>2, <1>4
  DEF Forward, Send, TypeOK, mainVars, searchVars, shareVars, tokenVars, termVars
<1> QED BY <1>3, <1>4 DEF FinishHandler

-----------------------------------------------------------------------------
\* The second half of the argument: TokenOrigins is preserved because a node in
\* Ending stays there and a token is only made by a leader.
LEMMA EndingStays ==
  ASSUME TypeOK, Next, NEW n \in Node, pc[n] \in Ending
  PROVE  pc'[n] \in Ending
<1>1. PICK k \in Node : Start(k) \/ MainStep(k) \/ SpuriousWakeup(k) \/ Deliver(k) \/ FinishHandler(k)
  BY DEF Next
<1>2. CASE Start(k) \/ SpuriousWakeup(k) \/ FinishHandler(k)
  BY <1>2 DEF Start, SpuriousWakeup, FinishHandler, AcceptRequest, Forward, mainVars, TypeOK, Ending
<1>3. CASE MainStep(k)
  BY <1>3
  DEF MainStep, Explore, EnterSynchronize, AssignWork, DeclineRequest, LeaveSynchronize,
      StopWorking, RequestWork, WakeWithWork, ResumeWorking, PassSavedToken, BecomeLeader,
      LeaderCommanded, LeaderSees, GatherResult, RetryToken, StepDown, CommandTermination,
      ReturnFalse, Leave, mainVars, TypeOK, Ending
<1>4. CASE Deliver(k)
  <2>1. pc' = pc
    BY <1>4
    DEF Deliver, ReceiveOutside, ReceiveDenial, ReceiveRequest, ReceiveAssignment,
        ReceiveForeignAssignment, ReceiveMyToken, KeepForeignToken, PassForeignToken,
        ReceiveTerminalResult, ReceiveTerminate, mainVars
  <2> QED BY <2>1
<1> QED BY <1>1, <1>2, <1>3, <1>4

\* Tokens whose origin f (the pc of this state or of the next) puts in Ending.
SoundMsg(msg, f) == IsToken(msg) => f[msg.sourceNode] \in Ending
SoundQueue(q, f) == \A i \in DOMAIN q : SoundMsg(q[i], f)

LEMMA SendSound ==
  ASSUME TypeOK, NEW n \in Node, NEW msg \in Message, Send(n, msg),
         NEW f, SoundMsg(msg, f), \A m \in Node : SoundQueue(sendQueue[m], f)
  PROVE  \A m \in Node : SoundQueue(sendQueue'[m], f)
<1>1. sendQueue[n] \in Seq(Message) /\ sendQueue'[n] = Append(sendQueue[n], msg)
  BY DEF Send, TypeOK
<1>2. SoundQueue(sendQueue'[n], f)
  BY <1>1 DEF SoundQueue
<1>3. \A m \in Node \ {n} : sendQueue'[m] = sendQueue[m]
  BY DEF Send, TypeOK
<1> QED BY <1>2, <1>3

LEMMA TailSound ==
  ASSUME TypeOK, NEW m \in Node, sendQueue[m] # <<>>, NEW f, SoundQueue(sendQueue[m], f)
  PROVE  SoundQueue(Tail(sendQueue[m]), f) /\ SoundMsg(Head(sendQueue[m]), f)
BY DEF SoundQueue, TypeOK

LEMMA MainStepSound ==
  ASSUME TypeOK, NEW n \in Node, Start(n) \/ MainStep(n) \/ SpuriousWakeup(n), TypeOK',
         \A m \in Node : SoundQueue(sendQueue[m], pc'),
         tokenOrigin[n] # NoNode => pc'[tokenOrigin[n]] \in Ending,
         terminationToken[n] => tokenOrigin[n] # NoNode \/ pc[n] \in Ending
  PROVE  \A m \in Node : SoundQueue(sendQueue'[m], pc')
<1>1. CASE UNCHANGED sendQueue
  BY <1>1
<1>2. CASE AssignWork(n)
  <2>1. PICK given \in Splits(work[n]) :
          sendQueue' = [sendQueue EXCEPT
                ![n] = @ \o <<AssignmentTo(Head(workRequests[n]), given),
                              KeptAnnouncement(n, Kept(work[n], given))>>]
    BY <1>2 DEF AssignWork
  <2>2. /\ ~IsToken(AssignmentTo(Head(workRequests[n]), given))
        /\ ~IsToken(KeptAnnouncement(n, Kept(work[n], given)))
    BY DEF IsToken, AssignmentTo, KeptAnnouncement
  <2>3. \A m \in Node \ {n} : sendQueue'[m] = sendQueue[m]
    BY <2>1 DEF TypeOK
  <2>4. PICK a, b : ~IsToken(a) /\ ~IsToken(b) /\ sendQueue'[n] = sendQueue[n] \o <<a, b>>
    BY <2>1, <2>2 DEF TypeOK
  <2>5. SoundQueue(sendQueue'[n], pc')
    <3> SUFFICES ASSUME NEW i \in DOMAIN sendQueue'[n]
                 PROVE  SoundMsg(sendQueue'[n][i], pc')
      BY DEF SoundQueue
    <3> DEFINE q == sendQueue[n]
    <3>1. q \in Seq(Message) /\ i \in 1 .. Len(q) + 2
      BY <2>4 DEF TypeOK
    <3>2. CASE i \in 1 .. Len(q)
      <4>1. sendQueue'[n][i] = q[i]
        BY <2>4, <3>1, <3>2
      <4> QED BY <3>1, <3>2, <4>1 DEF SoundQueue
    <3>3. CASE i = Len(q) + 1
      BY <2>4, <3>1, <3>3 DEF SoundMsg
    <3>4. CASE i = Len(q) + 2
      BY <2>4, <3>1, <3>4 DEF SoundMsg
    <3> QED BY <3>1, <3>2, <3>3, <3>4
  <2> QED
    BY <2>3, <2>5
<1>3. CASE DeclineRequest(n) \/ RequestWork(n) \/ GatherResult(n) \/ CommandTermination(n)
  <2>1. \E type \in {"WORK_REQUEST", "RESULT", "TERMINATE"}, source \in Node :
          Send(n, [type |-> type, sourceNode |-> source])
    <3>1. CASE DeclineRequest(n)
      <4>1. Head(workRequests[n]) \in Node
        BY <3>1 DEF DeclineRequest, TypeOK
      <4> QED BY <3>1, <4>1 DEF DeclineRequest
    <3>2. CASE RequestWork(n) \/ GatherResult(n) \/ CommandTermination(n)
      BY <3>2 DEF RequestWork, GatherResult, CommandTermination
    <3> QED BY <1>3, <3>1, <3>2
  <2>2. \A type \in {"WORK_REQUEST", "RESULT", "TERMINATE"}, source \in Node :
          LET msg == [type |-> type, sourceNode |-> source]
          IN  msg \in Message /\ ~IsToken(msg)
    BY DEF Message, IsToken
  <2>3. PICK msg \in Message : Send(n, msg) /\ ~IsToken(msg)
    BY <2>1, <2>2
  <2> QED BY <2>3, SendSound DEF SoundMsg
<1>4. CASE PassSavedToken(n)
  <2> DEFINE msg == ForwardedToken(tokenOrigin[n], recievedColor[n], myColor[n])
  <2>1. tokenOrigin[n] \in Node /\ pc'[tokenOrigin[n]] \in Ending
    BY <1>4 DEF PassSavedToken, Ending, TypeOK
  <2>2. msg \in Message /\ SoundMsg(msg, pc')
    BY <2>1, TokenType DEF TypeOK, SoundMsg, ForwardedToken
  <2> QED BY <1>4, <2>2, SendSound DEF PassSavedToken
<1>5. CASE BecomeLeader(n) \/ RetryToken(n)
  <2>1. pc'[n] \in Ending /\ Send(n, OwnToken(n))
    BY <1>5 DEF BecomeLeader, RetryToken, LeaderSees, Ending, TypeOK
  <2>2. OwnToken(n) \in Message /\ SoundMsg(OwnToken(n), pc')
    BY <2>1, TokenType DEF SoundMsg, OwnToken, Color
  <2> QED BY <2>1, <2>2, SendSound
<1> QED
  BY <1>1, <1>2, <1>3, <1>4, <1>5
  DEF MainStep, Start, SpuriousWakeup, Explore, EnterSynchronize, LeaveSynchronize, StopWorking,
      WakeWithWork, ResumeWorking, LeaderCommanded, StepDown, ReturnFalse, Leave, netVars

LEMMA TokenOriginsStep ==
  ASSUME TypeOK, TypeOK', TokenOrigins, Next
  PROVE  TokenOrigins'
<1>1. \A n \in Node : pc[n] \in Ending => pc'[n] \in Ending
  BY EndingStays
<1>2. \A m \in Node : SoundQueue(sendQueue[m], pc')
  <2> SUFFICES ASSUME NEW m \in Node, NEW i \in DOMAIN sendQueue[m], IsToken(sendQueue[m][i])
               PROVE  pc'[sendQueue[m][i].sourceNode] \in Ending
    BY DEF SoundQueue, SoundMsg
  <2>1. sendQueue[m][i] \in Message
    BY DEF TypeOK
  <2>2. sendQueue[m][i].sourceNode \in Node
    BY <2>1 DEF Message
  <2> QED BY <1>1, <2>2 DEF TokenOrigins
<1>3. \A m \in Node : handler[m].op # "none" => SoundMsg(handler[m].msg, pc')
  <2> SUFFICES ASSUME NEW m \in Node, handler[m].op # "none", IsToken(handler[m].msg)
               PROVE  pc'[handler[m].msg.sourceNode] \in Ending
    BY DEF SoundMsg
  <2>1. handler[m].msg.sourceNode \in Node
    BY DEF TypeOK, HandlerState, Message
  <2> QED BY <1>1, <2>1 DEF TokenOrigins
<1>4. \A n \in Node :
        /\ tokenOrigin[n] # NoNode => pc'[tokenOrigin[n]] \in Ending
        /\ terminationToken[n] => tokenOrigin[n] # NoNode \/ pc'[n] \in Ending
  BY <1>1 DEF TokenOrigins, TypeOK
<1>5. SUFFICES /\ \A m \in Node : SoundQueue(sendQueue'[m], pc')
               /\ \A m \in Node : handler'[m].op # "none" => SoundMsg(handler'[m].msg, pc')
               /\ \A n \in Node :
                     /\ tokenOrigin'[n] # NoNode => pc'[tokenOrigin'[n]] \in Ending
                     /\ terminationToken'[n] => tokenOrigin'[n] # NoNode \/ pc'[n] \in Ending
  BY DEF TokenOrigins, SoundQueue, SoundMsg, IsToken
<1>6. PICK k \in Node :
        \/ Start(k) \/ MainStep(k) \/ SpuriousWakeup(k)
        \/ FinishHandler(k)
        \/ Deliver(k)
  BY DEF Next
<1>7. CASE Start(k) \/ MainStep(k) \/ SpuriousWakeup(k)
  <2>1. handler' = handler /\ tokenOrigin' = tokenOrigin /\ terminationToken' = terminationToken
    BY <1>7
    DEF MainStep, Start, SpuriousWakeup, Explore, EnterSynchronize, AssignWork, DeclineRequest,
        LeaveSynchronize, StopWorking, RequestWork, WakeWithWork, ResumeWorking, PassSavedToken,
        BecomeLeader, LeaderCommanded, GatherResult, RetryToken, StepDown, CommandTermination,
        ReturnFalse, Leave, netVars, tokenVars
  <2>2. \A m \in Node : SoundQueue(sendQueue'[m], pc')
    BY <1>2, <1>4, <1>7, MainStepSound DEF TokenOrigins
  <2> QED BY <1>3, <1>4, <2>1, <2>2
<1>8. CASE FinishHandler(k)
  <2>1. tokenOrigin' = tokenOrigin /\ terminationToken' = terminationToken
    BY <1>8 DEF FinishHandler, AcceptRequest, Forward, tokenVars
  <2>2. handler' = [handler EXCEPT ![k] = [op |-> "none"]]
    BY <1>8 DEF FinishHandler, AcceptRequest, Forward
  <2>3. \A m \in Node : SoundQueue(sendQueue'[m], pc')
    <3>1. CASE AcceptRequest(k)
      BY <1>2, <3>1 DEF AcceptRequest
    <3>2. CASE Forward(k)
      <4>1. handler[k].msg \in Message /\ SoundMsg(handler[k].msg, pc')
        BY <1>3, <3>2 DEF Forward, TypeOK, HandlerState
      <4> QED BY <1>2, <3>2, <4>1, SendSound DEF Forward
    <3> QED BY <1>8, <3>1, <3>2 DEF FinishHandler
  <2>4. \A m \in Node : handler'[m].op # "none" => SoundMsg(handler'[m].msg, pc')
    BY <1>3, <2>2 DEF TypeOK
  <2> QED BY <1>4, <2>1, <2>3, <2>4
<1>9. CASE Deliver(k)
  <2> DEFINE n == Right[k]
             head == Head(sendQueue[k])
  <2>0. n \in Node /\ n # k
    BY RingAssumption
  <2>1. sendQueue[k] # <<>>
    BY <1>9
    DEF Deliver, ReceiveOutside, ReceiveDenial, ReceiveRequest, ReceiveAssignment,
        ReceiveForeignAssignment, ReceiveMyToken, KeepForeignToken, PassForeignToken, SaveToken,
        ReceiveTerminalResult, ReceiveTerminate, Locks, Arrives
  <2>2. SoundQueue(Tail(sendQueue[k]), pc') /\ SoundMsg(head, pc')
    BY <1>2, <2>1, TailSound
  <2>3. head \in Message /\ head.sourceNode \in Node
    BY <2>1, ArrivesType DEF Message
  <2>4. ASSUME sendQueue' = [sendQueue EXCEPT ![k] = Tail(@)]
        PROVE  \A m \in Node : SoundQueue(sendQueue'[m], pc')
    BY <1>2, <2>2, <2>4 DEF TypeOK
  <2>5. ASSUME \/ handler' = handler
               \/ \E op \in {"accept", "forward"} :
                     handler' = [handler EXCEPT ![n] = [op |-> op, msg |-> head]]
        PROVE  \A m \in Node : handler'[m].op # "none" => SoundMsg(handler'[m].msg, pc')
    <3> HIDE DEF n, head
    <3> SUFFICES ASSUME NEW m \in Node, handler'[m].op # "none"
                 PROVE  SoundMsg(handler'[m].msg, pc')
      OBVIOUS
    <3>1. CASE handler'[m] = handler[m]
      BY <1>3, <3>1
    <3>2. CASE handler'[m].msg = head
      BY <2>2, <3>2
    <3>3. handler'[m] = handler[m] \/ handler'[m].msg = head
      BY <2>0, <2>5 DEF TypeOK
    <3> QED BY <3>1, <3>2, <3>3
  <2>6. CASE \/ ReceiveOutside(k) \/ ReceiveDenial(k) \/ ReceiveRequest(k) \/ ReceiveAssignment(k)
             \/ ReceiveForeignAssignment(k) \/ ReceiveTerminalResult(k) \/ ReceiveTerminate(k)
    <3>1. tokenOrigin' = tokenOrigin /\ terminationToken' = terminationToken
      BY <2>6
      DEF ReceiveOutside, ReceiveDenial, ReceiveRequest, ReceiveAssignment,
          ReceiveForeignAssignment, ReceiveTerminalResult, ReceiveTerminate, tokenVars
    <3>2. /\ sendQueue' = [sendQueue EXCEPT ![k] = Tail(@)]
          /\ \/ handler' = handler
             \/ \E op \in {"accept", "forward"} :
                   handler' = [handler EXCEPT ![n] = [op |-> op, msg |-> head]]
      BY <2>6
      DEF ReceiveOutside, ReceiveDenial, ReceiveRequest, ReceiveAssignment,
          ReceiveForeignAssignment, ReceiveTerminalResult, ReceiveTerminate, PassOn, Consume
    <3> QED BY <1>4, <2>4, <2>5, <3>1, <3>2
  <2>7. CASE ReceiveMyToken(k)
    <3>1. IsToken(head) /\ head.sourceNode = n
      BY <2>7 DEF ReceiveMyToken, Locks, Arrives, originMe, IsToken
    <3>2. pc'[n] \in Ending
      BY <2>2, <3>1 DEF SoundMsg
    <3>3. /\ sendQueue' = [sendQueue EXCEPT ![k] = Tail(@)] /\ handler' = handler
          /\ tokenOrigin' = tokenOrigin
          /\ terminationToken' = [terminationToken EXCEPT ![n] = TRUE]
      BY <2>7 DEF ReceiveMyToken, Consume
    <3> QED BY <1>4, <2>0, <2>4, <2>5, <3>2, <3>3 DEF TypeOK
  <2>8. ASSUME SaveToken(k)
        PROVE  \A m \in Node :
                  /\ tokenOrigin'[m] # NoNode => pc'[tokenOrigin'[m]] \in Ending
                  /\ terminationToken'[m] => tokenOrigin'[m] # NoNode \/ pc'[m] \in Ending
    <3>1. IsToken(head) /\ head.sourceNode # NoNode
      BY <2>3, <2>8, NodeAssumption DEF SaveToken, Locks, Arrives, IsToken
    <3>2. /\ tokenOrigin' = [tokenOrigin EXCEPT ![n] = head.sourceNode]
          /\ terminationToken' = [terminationToken EXCEPT ![n] = TRUE]
      BY <2>8 DEF SaveToken
    <3>3. pc'[head.sourceNode] \in Ending
      BY <2>2, <3>1 DEF SoundMsg
    <3>4. /\ \A m \in Node \ {n} : tokenOrigin'[m] = tokenOrigin[m]
                                /\ terminationToken'[m] = terminationToken[m]
          /\ tokenOrigin'[n] = head.sourceNode
      BY <2>0, <3>2 DEF TypeOK
    <3> HIDE DEF n, head
    <3> QED BY <1>4, <3>1, <3>3, <3>4
  <2>9. CASE KeepForeignToken(k)
    BY <2>4, <2>5, <2>8, <2>9 DEF KeepForeignToken, Consume
  <2>10. CASE PassForeignToken(k)
    <3> DEFINE passed == ForwardedToken(head.sourceNode, head.slotA, myColor[n])
    <3>1. /\ SaveToken(k) /\ handler' = handler
          /\ sendQueue' = [sendQueue EXCEPT ![k] = Tail(@), ![n] = Append(@, passed)]
      BY <2>10 DEF PassForeignToken
    <3>2. IsToken(head)
      BY <3>1 DEF SaveToken, Locks, Arrives, IsToken
    <3>3. SoundMsg(passed, pc')
      BY <2>2, <3>2 DEF SoundMsg, IsToken, ForwardedToken
    <3>4. SoundQueue(Append(sendQueue[n], passed), pc')
      <4> HIDE DEF passed
      <4>1. sendQueue[n] \in Seq(Message)
        BY <2>0 DEF TypeOK
      <4> QED BY <1>2, <2>0, <3>3, <4>1 DEF SoundQueue
    <3>5. \A m \in Node : SoundQueue(sendQueue'[m], pc')
      <4> HIDE DEF passed
      <4> QED BY <1>2, <2>0, <2>2, <3>1, <3>4 DEF TypeOK
    <3> QED BY <2>5, <2>8, <3>1, <3>5
  <2> QED BY <1>9, <2>6, <2>7, <2>9, <2>10 DEF Deliver
<1> QED BY <1>6, <1>7, <1>8, <1>9

TypeInv == TypeOK /\ TokenOrigins

LEMMA TypeInvInit == Init => TypeInv
BY InitType DEF TypeInv, TokenOrigins, Init

LEMMA TypeInvStep == TypeInv /\ [Next]_vars => TypeInv'
<1> SUFFICES ASSUME TypeOK, TokenOrigins, [Next]_vars
             PROVE  TypeOK' /\ TokenOrigins'
  BY DEF TypeInv
<1>1. CASE Next
  <2>1. TypeOK'
    BY <1>1, MainStepType, DeliverType, FinishHandlerType DEF Next
  <2> QED BY <1>1, <2>1, TokenOriginsStep
<1>2. CASE UNCHANGED vars
  BY <1>2
  DEF vars, mainVars, searchVars, netVars, shareVars, tokenVars, termVars, TypeOK, TokenOrigins
<1> QED BY <1>1, <1>2

\* The state of every node keeps its type in every reachable state.  TypeOK alone
\* is not inductive: PassSavedToken sends a token whose origin is a node only
\* because of TokenOrigins.
THEOREM TypeCorrect == Spec => []TypeOK
<1>1. TypeInv => TypeOK
  BY DEF TypeInv
<1> QED BY <1>1, TypeInvInit, TypeInvStep, PTL DEF Spec

\* Every token under way or saved is from a node that has ended its search.
THEOREM TokenOriginsAlways == Spec => []TokenOrigins
<1>1. TypeInv => TokenOrigins
  BY DEF TypeInv
<1> QED BY <1>1, TypeInvInit, TypeInvStep, PTL DEF Spec

-----------------------------------------------------------------------------
(***************************************************************************)
(* Requests are followed from place to place.  A place is a position of a  *)
(* queue, of a list of requests, or a handler; each step of the system     *)
(* leaves every request where it is, but for one channel from which the    *)
(* first is taken and one to which it is added.                            *)
(***************************************************************************)
Kind == {"sendQueue", "handler", "workRequests"}
Pos == Nat \ {0}

\* Place <<kind, m, i>> holds the request of n or the answer to it, when the
\* queues are q, the handlers h and the lists of requests r.
Holds(q, h, r, kind, m, i, n) ==
  \/ kind = "sendQueue" /\ i \in DOMAIN q[m] /\ CarriesRequest(q[m][i], n)
  \/ kind = "handler" /\ i = 1 /\ h[m].op # "none" /\ CarriesRequest(h[m].msg, n)
  \/ kind = "workRequests" /\ i \in DOMAIN r[m] /\ r[m][i] = n

OnePlace(q, h, r) ==
  \A n \in Node, k1, k2 \in Kind, m1, m2 \in Node, i1, i2 \in Pos :
    Holds(q, h, r, k1, m1, i1, n) /\ Holds(q, h, r, k2, m2, i2, n)
      => k1 = k2 /\ m1 = m2 /\ i1 = i2

\* A place in the sense of the model is one in the sense of Holds.
LEMMA RequestPlaceIs ==
  ASSUME TypeOK, NEW n \in Node, NEW p \in RequestPlaces(n)
  PROVE  \E kind \in Kind, m \in Node, i \in Pos :
           p = <<kind, m, i>> /\ Holds(sendQueue, handler, workRequests, kind, m, i, n)
<1>1. CASE \E m \in Node : \E i \in DOMAIN sendQueue[m] :
              p = <<"sendQueue", m, i>> /\ CarriesRequest(sendQueue[m][i], n)
  <2>0. PICK m \in Node : \E i \in DOMAIN sendQueue[m] :
          p = <<"sendQueue", m, i>> /\ CarriesRequest(sendQueue[m][i], n)
    BY <1>1
  <2>1. PICK i \in DOMAIN sendQueue[m] :
          p = <<"sendQueue", m, i>> /\ CarriesRequest(sendQueue[m][i], n)
    BY <2>0
  <2>2. "sendQueue" \in Kind /\ i \in Pos
    BY DEF Kind, Pos, TypeOK
  <2> QED BY <2>1, <2>2 DEF Holds
<1>2. CASE \E m \in Node :
              p = <<"handler", m, 1>> /\ handler[m].op # "none" /\ CarriesRequest(handler[m].msg, n)
  BY <1>2 DEF Kind, Pos, Holds
<1>3. CASE \E m \in Node : \E i \in DOMAIN workRequests[m] :
              p = <<"workRequests", m, i>> /\ workRequests[m][i] = n
  BY <1>3 DEF Kind, Pos, Holds, TypeOK
<1>4. \/ p \in UNION {{<<"sendQueue", m, i>> :
              i \in {j \in DOMAIN sendQueue[m] : CarriesRequest(sendQueue[m][j], n)}} : m \in Node}
      \/ p \in {<<"handler", m, 1>> :
              m \in {k \in Node : handler[k].op # "none" /\ CarriesRequest(handler[k].msg, n)}}
      \/ p \in UNION {{<<"workRequests", m, i>> :
              i \in {j \in DOMAIN workRequests[m] : workRequests[m][j] = n}} : m \in Node}
  BY DEF RequestPlaces
<1>5. CASE p \in UNION {{<<"sendQueue", m, i>> :
              i \in {j \in DOMAIN sendQueue[m] : CarriesRequest(sendQueue[m][j], n)}} : m \in Node}
  <2>1. PICK m \in Node :
          p \in {<<"sendQueue", m, i>> :
                   i \in {j \in DOMAIN sendQueue[m] : CarriesRequest(sendQueue[m][j], n)}}
    BY <1>5
  <2>2. PICK i \in {j \in DOMAIN sendQueue[m] : CarriesRequest(sendQueue[m][j], n)} :
          p = <<"sendQueue", m, i>>
    BY <2>1
  <2> QED BY <1>1, <2>2
<1>6. CASE p \in {<<"handler", m, 1>> :
              m \in {k \in Node : handler[k].op # "none" /\ CarriesRequest(handler[k].msg, n)}}
  BY <1>2, <1>6
<1>7. CASE p \in UNION {{<<"workRequests", m, i>> :
              i \in {j \in DOMAIN workRequests[m] : workRequests[m][j] = n}} : m \in Node}
  BY <1>3, <1>7
<1> QED BY <1>4, <1>5, <1>6, <1>7

\* OneRequest speaks of tuples; OnePlace says the same of their components.
LEMMA OneRequestIs ==
  ASSUME TypeOK, OnePlace(sendQueue, handler, workRequests)
  PROVE  OneRequest
<1> SUFFICES ASSUME NEW n \in Node, NEW p \in RequestPlaces(n), NEW q \in RequestPlaces(n)
             PROVE  p = q
  BY DEF OneRequest
<1>2. PICK k1 \in Kind, m1 \in Node, i1 \in Pos :
        p = <<k1, m1, i1>> /\ Holds(sendQueue, handler, workRequests, k1, m1, i1, n)
  BY RequestPlaceIs
<1>3. PICK k2 \in Kind, m2 \in Node, i2 \in Pos :
        q = <<k2, m2, i2>> /\ Holds(sendQueue, handler, workRequests, k2, m2, i2, n)
  BY RequestPlaceIs
<1>4. k1 = k2 /\ m1 = m2 /\ i1 = i2
  BY <1>2, <1>3 DEF OnePlace
<1> QED BY <1>2, <1>3, <1>4

-----------------------------------------------------------------------------
(***************************************************************************)
(* How the places of requests change                                       *)
(***************************************************************************)
\* No request is added and none moves.
Stays(q, h, r, q2, h2, r2) ==
  \A n \in Node, kind \in Kind, m \in Node, i \in Pos :
    Holds(q2, h2, r2, kind, m, i, n) => Holds(q, h, r, kind, m, i, n)

\* The first of channel <<k1, m1>> is taken.
Pops(q, h, r, q2, h2, r2, k1, m1) ==
  \A n \in Node, kind \in Kind, m \in Node, i \in Pos :
    Holds(q2, h2, r2, kind, m, i, n)
      => IF kind = k1 /\ m = m1 THEN Holds(q, h, r, k1, m1, i + 1, n)
                                ELSE Holds(q, h, r, kind, m, i, n)

\* The first of channel <<k1, m1>> becomes the one at position pos of <<k2, m2>>.
Transfers(q, h, r, q2, h2, r2, k1, m1, k2, m2, pos) ==
  \A n \in Node, kind \in Kind, m \in Node, i \in Pos :
    Holds(q2, h2, r2, kind, m, i, n)
      => IF kind = k2 /\ m = m2 /\ i = pos
         THEN Holds(q, h, r, k1, m1, 1, n)
         ELSE IF kind = k1 /\ m = m1 THEN Holds(q, h, r, k1, m1, i + 1, n)
                                     ELSE Holds(q, h, r, kind, m, i, n)

LEMMA StaysOne ==
  ASSUME NEW q, NEW h, NEW r, NEW q2, NEW h2, NEW r2,
         OnePlace(q, h, r), Stays(q, h, r, q2, h2, r2)
  PROVE  OnePlace(q2, h2, r2)
BY DEF OnePlace, Stays

LEMMA PopsOne ==
  ASSUME NEW q, NEW h, NEW r, NEW q2, NEW h2, NEW r2, NEW k1 \in Kind, NEW m1 \in Node,
         OnePlace(q, h, r), Pops(q, h, r, q2, h2, r2, k1, m1)
  PROVE  OnePlace(q2, h2, r2)
<1> SUFFICES ASSUME NEW n \in Node, NEW ka \in Kind, NEW kb \in Kind, NEW ma \in Node,
                    NEW mb \in Node, NEW ia \in Pos, NEW ib \in Pos,
                    Holds(q2, h2, r2, ka, ma, ia, n), Holds(q2, h2, r2, kb, mb, ib, n)
             PROVE  ka = kb /\ ma = mb /\ ia = ib
  BY DEF OnePlace
<1>1. ia + 1 \in Pos /\ ib + 1 \in Pos
  BY DEF Pos
<1>2. PICK ia2 \in Pos : Holds(q, h, r, ka, ma, ia2, n)
                       /\ ia2 = IF ka = k1 /\ ma = m1 THEN ia + 1 ELSE ia
  BY <1>1 DEF Pops
<1>3. PICK ib2 \in Pos : Holds(q, h, r, kb, mb, ib2, n)
                       /\ ib2 = IF kb = k1 /\ mb = m1 THEN ib + 1 ELSE ib
  BY <1>1 DEF Pops
<1>4. ka = kb /\ ma = mb /\ ia2 = ib2
  BY <1>2, <1>3 DEF OnePlace
<1> QED BY <1>2, <1>3, <1>4 DEF Pos

LEMMA TransfersOne ==
  ASSUME NEW q, NEW h, NEW r, NEW q2, NEW h2, NEW r2,
         NEW k1 \in Kind, NEW m1 \in Node, NEW k2 \in Kind, NEW m2 \in Node, NEW pos \in Pos,
         k1 # k2 \/ m1 # m2,
         OnePlace(q, h, r), Transfers(q, h, r, q2, h2, r2, k1, m1, k2, m2, pos)
  PROVE  OnePlace(q2, h2, r2)
<1> DEFINE Before(kind, m, i, n, ok, om, oi) ==
      /\ ok \in Kind /\ om \in Node /\ oi \in Pos
      /\ Holds(q, h, r, ok, om, oi, n)
      /\ \/ kind = k2 /\ m = m2 /\ i = pos /\ ok = k1 /\ om = m1 /\ oi = 1
         \/ kind = k1 /\ m = m1 /\ ok = k1 /\ om = m1 /\ oi = i + 1
         \/ ~(kind = k2 /\ m = m2 /\ i = pos) /\ ~(kind = k1 /\ m = m1)
            /\ ok = kind /\ om = m /\ oi = i
<1> SUFFICES ASSUME NEW n \in Node, NEW ka \in Kind, NEW kb \in Kind, NEW ma \in Node,
                    NEW mb \in Node, NEW ia \in Pos, NEW ib \in Pos,
                    Holds(q2, h2, r2, ka, ma, ia, n), Holds(q2, h2, r2, kb, mb, ib, n)
             PROVE  ka = kb /\ ma = mb /\ ia = ib
  BY DEF OnePlace
<1>1. 1 \in Pos /\ ia + 1 \in Pos /\ ib + 1 \in Pos
  BY DEF Pos
<1>2. \E ok, om, oi : Before(ka, ma, ia, n, ok, om, oi)
  BY <1>1 DEF Transfers
<1>3. \E ok, om, oi : Before(kb, mb, ib, n, ok, om, oi)
  BY <1>1 DEF Transfers
<1>4. PICK ok, om, oi : Before(ka, ma, ia, n, ok, om, oi)
  BY <1>2
<1>5. PICK pk, pm, pi : Before(kb, mb, ib, n, pk, pm, pi)
  BY <1>3
<1>6. ok = pk /\ om = pm /\ oi = pi
  BY <1>4, <1>5 DEF OnePlace
<1> QED BY <1>4, <1>5, <1>6 DEF Pos

-----------------------------------------------------------------------------
(***************************************************************************)
(* What each step does to the places                                       *)
(***************************************************************************)
LEMMA AppendPosition ==
  ASSUME NEW S, NEW s \in Seq(S), NEW x \in S, NEW i \in DOMAIN Append(s, x)
  PROVE  \/ i \in DOMAIN s /\ Append(s, x)[i] = s[i]
         \/ i = Len(s) + 1 /\ Append(s, x)[i] = x
OBVIOUS

LEMMA AppendTwoPosition ==
  ASSUME NEW S, NEW s \in Seq(S), NEW a \in S, NEW b \in S, NEW i \in DOMAIN (s \o <<a, b>>)
  PROVE  \/ i \in DOMAIN s /\ (s \o <<a, b>>)[i] = s[i]
         \/ i = Len(s) + 1 /\ (s \o <<a, b>>)[i] = a
         \/ i = Len(s) + 2 /\ (s \o <<a, b>>)[i] = b
<1>1. <<a, b>> \in Seq(S) /\ Len(<<a, b>>) = 2 /\ <<a, b>>[1] = a /\ <<a, b>>[2] = b
  OBVIOUS
<1>2. PICK t \in Seq(S) : t = <<a, b>> /\ Len(t) = 2 /\ t[1] = a /\ t[2] = b
  BY <1>1
<1>3. /\ DOMAIN (s \o t) = 1 .. Len(s) + 2 /\ Len(s) \in Nat /\ DOMAIN s = 1 .. Len(s)
      /\ \A j \in 1 .. Len(s) + 2 : (s \o t)[j] = IF j <= Len(s) THEN s[j] ELSE t[j - Len(s)]
  BY <1>2
<1> QED BY <1>2, <1>3

LEMMA TailPosition ==
  ASSUME NEW S, NEW s \in Seq(S), s # <<>>, NEW i \in DOMAIN Tail(s)
  PROVE  i + 1 \in DOMAIN s /\ Tail(s)[i] = s[i + 1]
OBVIOUS

LEMMA HeadPosition ==
  ASSUME NEW S, NEW s \in Seq(S), s # <<>>
  PROVE  1 \in DOMAIN s /\ Head(s) = s[1] /\ Head(s) \in S
OBVIOUS

\* Messages that are neither a request nor its answer.
LEMMA CarriesNothing ==
  ASSUME NEW msg, NEW n,
         \/ msg.type \notin {"WORK_REQUEST", "WORK_ASSIGNMET"}
         \/ msg.type = "WORK_ASSIGNMET" /\ msg.asignee # msg.sourceNode
  PROVE  ~CarriesRequest(msg, n)
BY DEF CarriesRequest

\* The places of this state and of the next.
HoldsNow(kind, m, i, n) == Holds(sendQueue, handler, workRequests, kind, m, i, n)
HoldsNext(kind, m, i, n) == Holds(sendQueue', handler', workRequests', kind, m, i, n)
StaysNow == Stays(sendQueue, handler, workRequests, sendQueue', handler', workRequests')
PopsNow(k1, m1) == Pops(sendQueue, handler, workRequests, sendQueue', handler', workRequests', k1, m1)
TransfersNow(k1, m1, k2, m2, pos) ==
  Transfers(sendQueue, handler, workRequests, sendQueue', handler', workRequests', k1, m1, k2, m2, pos)

\* A message that carries nothing is enqueued.
LEMMA SendStays ==
  ASSUME TypeOK, NEW n \in Node, NEW msg \in Message, Send(n, msg),
         \A k \in Node : ~CarriesRequest(msg, k),
         UNCHANGED <<handler, workRequests>>
  PROVE  StaysNow
<1> SUFFICES ASSUME NEW k \in Node, NEW kind \in Kind, NEW m \in Node, NEW i \in Pos,
                    HoldsNext(kind, m, i, k)
             PROVE  HoldsNow(kind, m, i, k)
  BY DEF StaysNow, Stays, HoldsNow, HoldsNext
<1>1. CASE kind # "sendQueue" \/ m # n
  BY <1>1 DEF HoldsNow, HoldsNext, Holds, Send, TypeOK
<1>2. CASE kind = "sendQueue" /\ m = n
  <2>1. /\ sendQueue'[n] = Append(sendQueue[n], msg)
        /\ sendQueue[n] \in Seq(Message)
    BY DEF Send, TypeOK
  <2>2. i \in DOMAIN sendQueue'[n] /\ CarriesRequest(sendQueue'[n][i], k)
    BY <1>2 DEF HoldsNext, Holds
  <2>3. i \in DOMAIN sendQueue[n] /\ sendQueue'[n][i] = sendQueue[n][i]
    BY <2>1, <2>2, AppendPosition
  <2> QED BY <1>2, <2>2, <2>3 DEF HoldsNow, Holds
<1> QED BY <1>1, <1>2

LEMMA QuietStep ==
  ASSUME TypeOK, TokenOrigins, NEW n \in Node,
         Start(n) \/ MainStep(n) \/ SpuriousWakeup(n),
         ~AssignWork(n), ~DeclineRequest(n), ~RequestWork(n)
  PROVE  StaysNow
<1>1. CASE UNCHANGED <<sendQueue, handler, workRequests>>
  BY <1>1 DEF StaysNow, Stays
<1>2. CASE Leave(n)
  <2>1. /\ UNCHANGED <<sendQueue, handler>>
        /\ \A m \in Node : workRequests'[m] = workRequests[m] \/ workRequests'[m] = <<>>
    BY <1>2 DEF Leave, netVars, TypeOK
  <2> SUFFICES ASSUME NEW k \in Node, NEW kind \in Kind, NEW m \in Node, NEW i \in Pos,
                      HoldsNext(kind, m, i, k)
               PROVE  HoldsNow(kind, m, i, k)
    BY DEF StaysNow, Stays, HoldsNow, HoldsNext
  <2>2. CASE workRequests'[m] = workRequests[m]
    BY <2>1, <2>2 DEF HoldsNow, HoldsNext, Holds
  <2>3. CASE workRequests'[m] = <<>>
    BY <2>1, <2>3 DEF HoldsNow, HoldsNext, Holds
  <2> QED BY <2>1, <2>2, <2>3
<1>3. CASE PassSavedToken(n)
  <2> DEFINE msg == ForwardedToken(tokenOrigin[n], recievedColor[n], myColor[n])
  <2>1. tokenOrigin[n] \in Node
    BY <1>3 DEF PassSavedToken, TokenOrigins, Ending, TypeOK
  <2>2. msg \in Message /\ msg.type = "TERMINATION_TOKEN"
    BY <2>1, TokenType DEF TypeOK, ForwardedToken
  <2>3. Send(n, msg) /\ UNCHANGED <<handler, workRequests>>
    BY <1>3 DEF PassSavedToken, shareVars
  <2> HIDE DEF msg
  <2> QED BY <2>2, <2>3, SendStays, CarriesNothing
<1>4. CASE BecomeLeader(n) \/ RetryToken(n)
  <2>1. OwnToken(n) \in Message /\ OwnToken(n).type = "TERMINATION_TOKEN"
    BY TokenType DEF OwnToken, Color
  <2>2. Send(n, OwnToken(n)) /\ UNCHANGED <<handler, workRequests>>
    BY <1>4 DEF BecomeLeader, RetryToken, shareVars
  <2> QED BY <2>1, <2>2, SendStays, CarriesNothing
<1>5. CASE GatherResult(n) \/ CommandTermination(n)
  <2>1. PICK type \in {"RESULT", "TERMINATE"} :
          /\ Send(n, [type |-> type, sourceNode |-> n])
          /\ UNCHANGED <<handler, workRequests>>
    BY <1>5 DEF GatherResult, CommandTermination, shareVars
  <2>2. /\ [type |-> type, sourceNode |-> n] \in Message
        /\ [type |-> type, sourceNode |-> n].type \notin {"WORK_REQUEST", "WORK_ASSIGNMET"}
    BY DEF Message
  <2> QED BY <2>1, <2>2, SendStays, CarriesNothing
<1> QED
  BY <1>1, <1>2, <1>3, <1>4, <1>5
  DEF MainStep, Start, SpuriousWakeup, Explore, EnterSynchronize, LeaveSynchronize, StopWorking,
      WakeWithWork, ResumeWorking, LeaderCommanded, StepDown, ReturnFalse, netVars, shareVars

\* The first request of n becomes the answer, or the request passed on.
LEMMA AnswerStep ==
  ASSUME TypeOK, NEW n \in Node, AssignWork(n) \/ DeclineRequest(n)
  PROVE  TransfersNow("workRequests", n, "sendQueue", n, Len(sendQueue[n]) + 1)
<1>1. /\ workRequests[n] \in Seq(Node) /\ workRequests[n] # <<>>
      /\ workRequests' = [workRequests EXCEPT ![n] = Tail(@)]
      /\ sendQueue[n] \in Seq(Message)
      /\ UNCHANGED handler
  BY DEF AssignWork, DeclineRequest, TypeOK
<1> DEFINE asker == Head(workRequests[n])
<1>2. asker \in Node /\ 1 \in DOMAIN workRequests[n] /\ workRequests[n][1] = asker
  BY <1>1, HeadPosition
<1>3. /\ \A m \in Node \ {n} : sendQueue'[m] = sendQueue[m]
      /\ \A i \in Pos :
            i \in DOMAIN sendQueue'[n]
              => \/ i \in DOMAIN sendQueue[n] /\ sendQueue'[n][i] = sendQueue[n][i]
                 \/ i = Len(sendQueue[n]) + 1 /\ sendQueue'[n][i].sourceNode = asker
                 \/ i = Len(sendQueue[n]) + 2 /\ \A k \in Node : ~CarriesRequest(sendQueue'[n][i], k)
  <2>1. CASE AssignWork(n)
    <3>1. PICK given \in Splits(work[n]) :
            sendQueue' = [sendQueue EXCEPT
                  ![n] = @ \o <<AssignmentTo(asker, given), KeptAnnouncement(n, Kept(work[n], given))>>]
      BY <2>1 DEF AssignWork
    <3> DEFINE a == AssignmentTo(asker, given)
               b == KeptAnnouncement(n, Kept(work[n], given))
    <3>2. a \in Message /\ a.sourceNode = asker
      BY <1>2, <3>1, AssignmentType DEF AssignmentTo, Splits, TypeOK
    <3>3. b \in Message /\ b.type = "WORK_ASSIGNMET" /\ b.asignee # b.sourceNode
      <4>1. Kept(work[n], given) \in SUBSET Units
        BY DEF Kept, TypeOK
      <4> QED BY <4>1, LeftOf, AssignmentType DEF KeptAnnouncement
    <3> HIDE DEF a, b
    <3>7. \A k \in Node : ~CarriesRequest(b, k)
      BY <3>3, CarriesNothing
    <3>4. sendQueue' = [sendQueue EXCEPT ![n] = @ \o <<a, b>>]
      BY <3>1 DEF a, b
    <3>5. sendQueue'[n] = sendQueue[n] \o <<a, b>>
      BY <3>4 DEF TypeOK
    <3>6. ASSUME NEW i \in Pos, i \in DOMAIN sendQueue'[n]
          PROVE  \/ i \in DOMAIN sendQueue[n] /\ sendQueue'[n][i] = sendQueue[n][i]
                 \/ i = Len(sendQueue[n]) + 1 /\ sendQueue'[n][i] = a
                 \/ i = Len(sendQueue[n]) + 2 /\ sendQueue'[n][i] = b
      BY <1>1, <3>2, <3>3, <3>5, <3>6, AppendTwoPosition
    <3> QED BY <3>2, <3>4, <3>6, <3>7 DEF TypeOK
  <2>2. CASE DeclineRequest(n)
    <3> DEFINE msg == [type |-> "WORK_REQUEST", sourceNode |-> asker]
    <3>1. msg \in Message /\ msg.sourceNode = asker
      BY <1>2 DEF Message
    <3>2. sendQueue' = [sendQueue EXCEPT ![n] = Append(@, msg)]
      BY <2>2 DEF DeclineRequest, Send
    <3> HIDE DEF msg
    <3>3. sendQueue'[n] = Append(sendQueue[n], msg)
      BY <3>2 DEF TypeOK
    <3> QED BY <1>1, <3>1, <3>2, <3>3, AppendPosition DEF TypeOK
  <2> QED BY <2>1, <2>2
<1> SUFFICES ASSUME NEW k \in Node, NEW kind \in Kind, NEW m \in Node, NEW i \in Pos,
                    HoldsNext(kind, m, i, k)
             PROVE  IF kind = "sendQueue" /\ m = n /\ i = Len(sendQueue[n]) + 1
                    THEN HoldsNow("workRequests", n, 1, k)
                    ELSE IF kind = "workRequests" /\ m = n THEN HoldsNow("workRequests", n, i + 1, k)
                                                            ELSE HoldsNow(kind, m, i, k)
  BY DEF TransfersNow, Transfers, HoldsNow, HoldsNext
<1>4. CASE kind = "sendQueue"
  <2>1. i \in DOMAIN sendQueue'[m] /\ CarriesRequest(sendQueue'[m][i], k)
    BY <1>4 DEF HoldsNext, Holds
  <2>2. CASE m # n
    BY <1>3, <1>4, <2>1, <2>2 DEF HoldsNow, Holds
  <2>3. CASE m = n /\ i \in DOMAIN sendQueue[n] /\ sendQueue'[n][i] = sendQueue[n][i]
    BY <1>1, <1>4, <2>1, <2>3 DEF HoldsNow, Holds
  <2>4. CASE m = n /\ i = Len(sendQueue[n]) + 1 /\ sendQueue'[n][i].sourceNode = asker
    BY <1>2, <1>4, <2>1, <2>4 DEF HoldsNow, Holds, CarriesRequest
  <2> QED BY <1>3, <2>1, <2>2, <2>3, <2>4
<1>5. CASE kind = "handler"
  BY <1>1, <1>5 DEF HoldsNow, HoldsNext, Holds
<1>6. CASE kind = "workRequests"
  <2>1. CASE m # n
    BY <1>1, <1>6, <2>1 DEF HoldsNow, HoldsNext, Holds, TypeOK
  <2>2. CASE m = n
    <3>1. workRequests'[n] = Tail(workRequests[n])
      BY <1>1 DEF TypeOK
    <3>2. i \in DOMAIN Tail(workRequests[n]) /\ Tail(workRequests[n])[i] = k
      BY <1>6, <2>2, <3>1 DEF HoldsNext, Holds
    <3>3. i + 1 \in DOMAIN workRequests[n] /\ workRequests[n][i + 1] = k
      BY <1>1, <3>2, TailPosition
    <3> QED BY <1>6, <2>2, <3>3 DEF HoldsNow, Holds
  <2> QED BY <2>1, <2>2
<1> QED BY <1>4, <1>5, <1>6 DEF Kind

\* Which message a delivery takes, and whether its handler keeps it.
LEMMA DeliverIs ==
  ASSUME TypeOK, NEW m \in Node, Deliver(m)
  PROVE  /\ sendQueue[m] # <<>>
         /\ handler[Right[m]].op = "none"
         /\ UNCHANGED workRequests
         /\ \/ handler' = handler
            \/ \E op \in {"accept", "forward"} :
                  /\ handler' = [handler EXCEPT ![Right[m]] = [op |-> op, msg |-> Head(sendQueue[m])]]
                  /\ ~originMe(m)
                  /\ op = "accept" => Head(sendQueue[m]).type = "WORK_REQUEST"
         /\ \/ sendQueue' = [sendQueue EXCEPT ![m] = Tail(@)]
            \/ \E msg \in Message :
                  /\ msg.type = "TERMINATION_TOKEN"
                  /\ sendQueue' = [sendQueue EXCEPT ![m] = Tail(@), ![Right[m]] = Append(@, msg)]
<1>1. CASE \/ ReceiveOutside(m) \/ ReceiveAssignment(m) \/ ReceiveForeignAssignment(m)
           \/ ReceiveTerminalResult(m) \/ ReceiveTerminate(m)
  BY <1>1
  DEF ReceiveOutside, ReceiveAssignment, ReceiveForeignAssignment, ReceiveTerminalResult,
      ReceiveTerminate, Locks, Arrives, PassOn, shareVars
<1>2. CASE ReceiveDenial(m) \/ ReceiveMyToken(m) \/ KeepForeignToken(m)
  BY <1>2
  DEF ReceiveDenial, ReceiveMyToken, KeepForeignToken, SaveToken, Locks, Arrives, Consume, shareVars
<1>3. CASE ReceiveRequest(m)
  BY <1>3 DEF ReceiveRequest, Arrives, shareVars
<1>4. CASE PassForeignToken(m)
  <2> DEFINE head == Head(sendQueue[m])
             passed == ForwardedToken(head.sourceNode, head.slotA, myColor[Right[m]])
  <2>1. sendQueue[m] # <<>> /\ handler[Right[m]].op = "none" /\ head.type = "TERMINATION_TOKEN"
    BY <1>4 DEF PassForeignToken, SaveToken, Locks, Arrives
  <2>2. head.sourceNode \in Node /\ Right[m] \in Node
    BY <2>1, ArrivesType DEF Message
  <2>3. passed \in Message /\ passed.type = "TERMINATION_TOKEN"
    BY <2>2, TokenType DEF ForwardedToken, TypeOK
  <2>4. /\ UNCHANGED <<handler, workRequests>>
        /\ sendQueue' = [sendQueue EXCEPT ![m] = Tail(@), ![Right[m]] = Append(@, passed)]
    BY <1>4 DEF PassForeignToken, shareVars
  <2> HIDE DEF passed
  <2> QED BY <2>1, <2>3, <2>4
<1> QED BY <1>1, <1>2, <1>3, <1>4 DEF Deliver

LEMMA DeliverStep ==
  ASSUME TypeOK, NEW m \in Node, Deliver(m)
  PROVE  \/ handler' = handler /\ PopsNow("sendQueue", m)
         \/ ~originMe(m) /\ TransfersNow("sendQueue", m, "handler", Right[m], 1)
<1>0. Right[m] \in Node /\ Right[m] # m
  BY RingAssumption
<1>t. sendQueue \in [Node -> Seq(Message)] /\ handler \in [Node -> HandlerState]
  BY DEF TypeOK
<1>d. /\ sendQueue[m] # <<>>
      /\ handler[Right[m]].op = "none"
      /\ UNCHANGED workRequests
  BY DeliverIs
<1>q. \/ sendQueue' = [sendQueue EXCEPT ![m] = Tail(@)]
      \/ \E msg \in Message :
            /\ msg.type = "TERMINATION_TOKEN"
            /\ sendQueue' = [sendQueue EXCEPT ![m] = Tail(@), ![Right[m]] = Append(@, msg)]
  BY DeliverIs
<1>1. /\ sendQueue[m] \in Seq(Message) /\ sendQueue[m] # <<>>
      /\ 1 \in DOMAIN sendQueue[m] /\ Head(sendQueue[m]) = sendQueue[m][1]
      /\ handler[Right[m]].op = "none"
      /\ UNCHANGED workRequests
  BY <1>t, <1>d, HeadPosition
<1>2. ASSUME NEW n \in Node, NEW k \in Node, NEW i \in Pos, HoldsNext("sendQueue", k, i, n)
      PROVE  IF k = m THEN HoldsNow("sendQueue", m, i + 1, n) ELSE HoldsNow("sendQueue", k, i, n)
  <2>1. i \in DOMAIN sendQueue'[k] /\ CarriesRequest(sendQueue'[k][i], n)
    BY <1>2 DEF HoldsNext, Holds
  <2>2. CASE k = m
    <3>1. sendQueue'[m] = Tail(sendQueue[m])
      BY <1>0, <1>t, <1>q
    <3>2. i + 1 \in DOMAIN sendQueue[m] /\ sendQueue'[m][i] = sendQueue[m][i + 1]
      BY <1>1, <2>1, <2>2, <3>1, TailPosition
    <3> QED BY <2>1, <2>2, <3>2 DEF HoldsNow, Holds
  <2>3. CASE k # m /\ sendQueue'[k] = sendQueue[k]
    BY <2>1, <2>3 DEF HoldsNow, Holds
  <2>4. CASE k # m /\ sendQueue'[k] # sendQueue[k]
    <3>1. PICK msg \in Message :
            msg.type = "TERMINATION_TOKEN" /\ sendQueue'[k] = Append(sendQueue[k], msg)
      BY <1>0, <1>t, <1>q, <2>4
    <3>2. sendQueue[k] \in Seq(Message)
      BY DEF TypeOK
    <3>3. i \in DOMAIN sendQueue[k] /\ sendQueue'[k][i] = sendQueue[k][i]
      BY <2>1, <3>1, <3>2, AppendPosition, CarriesNothing
    <3> QED BY <2>1, <2>4, <3>3 DEF HoldsNow, Holds
  <2> QED BY <2>2, <2>3, <2>4
<1>3. ASSUME NEW n \in Node, NEW k \in Node, NEW i \in Pos, HoldsNext("workRequests", k, i, n)
      PROVE  HoldsNow("workRequests", k, i, n)
  BY <1>1, <1>3 DEF HoldsNow, HoldsNext, Holds
<1>4. CASE handler' = handler
  <2>1. ASSUME NEW n \in Node, NEW k \in Node, NEW i \in Pos, HoldsNext("handler", k, i, n)
        PROVE  HoldsNow("handler", k, i, n)
    BY <1>4, <2>1 DEF HoldsNow, HoldsNext, Holds
  <2>2. PopsNow("sendQueue", m)
    BY <1>2, <1>3, <2>1 DEF PopsNow, Pops, HoldsNow, HoldsNext, Kind
  <2> QED BY <1>4, <2>2
<1>5. CASE \E op \in {"accept", "forward"} :
             /\ handler' = [handler EXCEPT ![Right[m]] = [op |-> op, msg |-> Head(sendQueue[m])]]
             /\ ~originMe(m)
  <2>1. ASSUME NEW n \in Node, NEW k \in Node, NEW i \in Pos, HoldsNext("handler", k, i, n)
        PROVE  IF k = Right[m] /\ i = 1 THEN HoldsNow("sendQueue", m, 1, n)
                                        ELSE HoldsNow("handler", k, i, n)
    <3>1. i = 1 /\ CarriesRequest(handler'[k].msg, n) /\ handler'[k].op # "none"
      BY <2>1 DEF HoldsNext, Holds
    <3>2. CASE k # Right[m]
      <4>1. handler'[k] = handler[k]
        BY <1>5, <3>2 DEF TypeOK
      <4> QED BY <3>1, <3>2, <4>1 DEF HoldsNow, Holds
    <3>3. CASE k = Right[m]
      <4>1. handler'[k].msg = sendQueue[m][1]
        BY <1>0, <1>1, <1>5, <3>3 DEF TypeOK
      <4> QED BY <1>1, <3>1, <3>3, <4>1 DEF HoldsNow, Holds
    <3> QED BY <3>2, <3>3
  <2>2. TransfersNow("sendQueue", m, "handler", Right[m], 1)
    BY <1>2, <1>3, <2>1 DEF TransfersNow, Transfers, HoldsNow, HoldsNext, Kind
  <2> QED BY <1>5, <2>2
<1> QED BY <1>4, <1>5, DeliverIs

\* The handler of n queues the request it holds, or sends its message on.
LEMMA FinishStep ==
  ASSUME TypeOK, NEW n \in Node, FinishHandler(n),
         handler[n].op = "accept" => handler[n].msg.type = "WORK_REQUEST"
  PROVE  \/ TransfersNow("handler", n, "workRequests", n, Len(workRequests[n]) + 1)
         \/ TransfersNow("handler", n, "sendQueue", n, Len(sendQueue[n]) + 1)
<1>0. /\ handler[n].op # "none" /\ handler[n].msg \in Message /\ handler[n].msg.sourceNode \in Node
      /\ sendQueue[n] \in Seq(Message) /\ workRequests[n] \in Seq(Node)
      /\ handler' = [handler EXCEPT ![n] = [op |-> "none"]]
  BY DEF FinishHandler, AcceptRequest, Forward, TypeOK, HandlerState, Message
<1>1. ASSUME NEW j \in Node, NEW k \in Node, NEW i \in Pos, HoldsNext("handler", k, i, j)
      PROVE  k # n /\ HoldsNow("handler", k, i, j)
  <2>1. k # n
    BY <1>0, <1>1 DEF HoldsNext, Holds, TypeOK
  <2> QED BY <1>0, <1>1, <2>1 DEF HoldsNow, HoldsNext, Holds, TypeOK
<1>2. CASE AcceptRequest(n)
  <2>1. /\ workRequests' = [workRequests EXCEPT ![n] = Append(@, handler[n].msg.sourceNode)]
        /\ UNCHANGED sendQueue
        /\ handler[n].msg.type = "WORK_REQUEST"
    BY <1>2 DEF AcceptRequest
  <2>2. ASSUME NEW j \in Node, NEW k \in Node, NEW i \in Pos, HoldsNext("workRequests", k, i, j)
        PROVE  IF k = n /\ i = Len(workRequests[n]) + 1 THEN HoldsNow("handler", n, 1, j)
                                                        ELSE HoldsNow("workRequests", k, i, j)
    <3>1. i \in DOMAIN workRequests'[k] /\ workRequests'[k][i] = j
      BY <2>2 DEF HoldsNext, Holds
    <3>2. CASE k # n
      BY <2>1, <3>1, <3>2 DEF HoldsNow, Holds, TypeOK
    <3>3. CASE k = n
      <4>1. workRequests'[n] = Append(workRequests[n], handler[n].msg.sourceNode)
        BY <2>1 DEF TypeOK
      <4>2. \/ i \in DOMAIN workRequests[n] /\ workRequests[n][i] = j
            \/ i = Len(workRequests[n]) + 1 /\ handler[n].msg.sourceNode = j
        BY <1>0, <3>1, <3>3, <4>1, AppendPosition
      <4>3. CASE i \in DOMAIN workRequests[n] /\ workRequests[n][i] = j
        BY <1>0, <3>3, <4>3 DEF HoldsNow, Holds
      <4>4. CASE i = Len(workRequests[n]) + 1 /\ handler[n].msg.sourceNode = j
        BY <1>0, <2>1, <3>3, <4>4 DEF HoldsNow, Holds, CarriesRequest
      <4> QED BY <4>2, <4>3, <4>4
    <3> QED BY <3>2, <3>3
  <2>3. ASSUME NEW j \in Node, NEW k \in Node, NEW i \in Pos, HoldsNext("sendQueue", k, i, j)
        PROVE  HoldsNow("sendQueue", k, i, j)
    BY <2>1, <2>3 DEF HoldsNow, HoldsNext, Holds
  <2> QED
    BY <1>1, <2>2, <2>3 DEF TransfersNow, Transfers, HoldsNow, HoldsNext, Kind
<1>3. CASE Forward(n)
  <2>1. sendQueue' = [sendQueue EXCEPT ![n] = Append(@, handler[n].msg)] /\ UNCHANGED workRequests
    BY <1>3 DEF Forward, Send, shareVars
  <2>2. ASSUME NEW j \in Node, NEW k \in Node, NEW i \in Pos, HoldsNext("sendQueue", k, i, j)
        PROVE  IF k = n /\ i = Len(sendQueue[n]) + 1 THEN HoldsNow("handler", n, 1, j)
                                                     ELSE HoldsNow("sendQueue", k, i, j)
    <3>1. i \in DOMAIN sendQueue'[k] /\ CarriesRequest(sendQueue'[k][i], j)
      BY <2>2 DEF HoldsNext, Holds
    <3>2. CASE k # n
      BY <2>1, <3>1, <3>2 DEF HoldsNow, Holds, TypeOK
    <3>3. CASE k = n
      <4>1. sendQueue'[n] = Append(sendQueue[n], handler[n].msg)
        BY <2>1 DEF TypeOK
      <4>2. \/ i \in DOMAIN sendQueue[n] /\ CarriesRequest(sendQueue[n][i], j)
            \/ i = Len(sendQueue[n]) + 1 /\ CarriesRequest(handler[n].msg, j)
        BY <1>0, <3>1, <3>3, <4>1, AppendPosition
      <4>3. CASE i \in DOMAIN sendQueue[n] /\ CarriesRequest(sendQueue[n][i], j)
        BY <1>0, <3>3, <4>3 DEF HoldsNow, Holds
      <4>4. CASE i = Len(sendQueue[n]) + 1 /\ CarriesRequest(handler[n].msg, j)
        BY <1>0, <3>3, <4>4 DEF HoldsNow, Holds
      <4> QED BY <4>2, <4>3, <4>4
    <3> QED BY <3>2, <3>3
  <2>3. ASSUME NEW j \in Node, NEW k \in Node, NEW i \in Pos, HoldsNext("workRequests", k, i, j)
        PROVE  HoldsNow("workRequests", k, i, j)
    BY <2>1, <2>3 DEF HoldsNow, HoldsNext, Holds
  <2> QED
    BY <1>1, <2>2, <2>3 DEF TransfersNow, Transfers, HoldsNow, HoldsNext, Kind
<1> QED BY <1>2, <1>3 DEF FinishHandler

-----------------------------------------------------------------------------
(***************************************************************************)
(* The announcement of kept work stops before it reaches its asignee       *)
(***************************************************************************)
\* Message msg, in the queue of m or in its handler, is not an announcement that
\* the right neighbour of m would take for an assignment.
AnnouncementStops(msg, m) ==
  msg.type = "WORK_ASSIGNMET" /\ msg.asignee # msg.sourceNode
    => msg.sourceNode # m /\ Right[msg.sourceNode] = msg.asignee

QueuesSound(q) == \A m \in Node : \A i \in DOMAIN q[m] : AnnouncementStops(q[m][i], m)

HandlersSound(h) ==
  \A m \in Node :
    /\ h[m].op # "none" => AnnouncementStops(h[m].msg, m)
    /\ h[m].op = "accept" => h[m].msg.type = "WORK_REQUEST"

MessagesSound == QueuesSound(sendQueue) /\ HandlersSound(handler)

LEMMA SendKeepsSound ==
  ASSUME TypeOK, NEW n \in Node, NEW msg \in Message, Send(n, msg),
         AnnouncementStops(msg, n), QueuesSound(sendQueue)
  PROVE  QueuesSound(sendQueue')
<1>1. /\ sendQueue[n] \in Seq(Message) /\ sendQueue'[n] = Append(sendQueue[n], msg)
      /\ \A m \in Node \ {n} : sendQueue'[m] = sendQueue[m]
  BY DEF Send, TypeOK
<1> SUFFICES ASSUME NEW m \in Node, NEW i \in DOMAIN sendQueue'[m]
             PROVE  AnnouncementStops(sendQueue'[m][i], m)
  BY DEF QueuesSound
<1>2. CASE m # n
  BY <1>1, <1>2 DEF QueuesSound
<1>3. CASE m = n
  BY <1>1, <1>3, AppendPosition DEF QueuesSound
<1> QED BY <1>2, <1>3

\* What the main thread enqueues but for the answer to a request.
LEMMA MainStepSends ==
  ASSUME TypeOK, TokenOrigins, NEW n \in Node,
         Start(n) \/ MainStep(n) \/ SpuriousWakeup(n), ~AssignWork(n)
  PROVE  \/ UNCHANGED sendQueue
         \/ \E msg \in Message : msg.type # "WORK_ASSIGNMET" /\ Send(n, msg)
<1>1. CASE DeclineRequest(n) \/ RequestWork(n) \/ GatherResult(n) \/ CommandTermination(n)
  <2>1. \E type \in {"WORK_REQUEST", "RESULT", "TERMINATE"}, source \in Node :
          Send(n, [type |-> type, sourceNode |-> source])
    <3>1. CASE DeclineRequest(n)
      <4>1. Head(workRequests[n]) \in Node
        BY <3>1 DEF DeclineRequest, TypeOK
      <4> QED BY <3>1, <4>1 DEF DeclineRequest
    <3>2. CASE RequestWork(n) \/ GatherResult(n) \/ CommandTermination(n)
      BY <3>2 DEF RequestWork, GatherResult, CommandTermination
    <3> QED BY <1>1, <3>1, <3>2
  <2>2. \A type \in {"WORK_REQUEST", "RESULT", "TERMINATE"}, source \in Node :
          LET msg == [type |-> type, sourceNode |-> source]
          IN  msg \in Message /\ msg.type # "WORK_ASSIGNMET"
    BY DEF Message
  <2> QED BY <2>1, <2>2
<1>2. CASE PassSavedToken(n)
  <2>1. tokenOrigin[n] \in Node
    BY <1>2 DEF PassSavedToken, TokenOrigins, Ending, TypeOK
  <2>2. ForwardedToken(tokenOrigin[n], recievedColor[n], myColor[n]) \in Message
    BY <2>1, TokenType DEF TypeOK
  <2>3. ForwardedToken(tokenOrigin[n], recievedColor[n], myColor[n]).type # "WORK_ASSIGNMET"
    BY DEF ForwardedToken
  <2> QED BY <1>2, <2>2, <2>3 DEF PassSavedToken
<1>3. CASE BecomeLeader(n) \/ RetryToken(n)
  <2>1. OwnToken(n) \in Message /\ OwnToken(n).type # "WORK_ASSIGNMET"
    BY TokenType DEF OwnToken, Color
  <2> QED BY <1>3, <2>1 DEF BecomeLeader, RetryToken
<1> QED
  BY <1>1, <1>2, <1>3
  DEF MainStep, Start, SpuriousWakeup, Explore, EnterSynchronize, LeaveSynchronize, StopWorking,
      WakeWithWork, ResumeWorking, LeaderCommanded, StepDown, ReturnFalse, Leave, netVars

LEMMA MainStepMessages ==
  ASSUME TypeOK, TokenOrigins, MessagesSound, NEW n \in Node,
         Start(n) \/ MainStep(n) \/ SpuriousWakeup(n)
  PROVE  QueuesSound(sendQueue') /\ handler' = handler
<1>0. handler' = handler
  BY DEF MainStep, Start, SpuriousWakeup, Explore, EnterSynchronize, AssignWork, DeclineRequest,
         LeaveSynchronize, StopWorking, RequestWork, WakeWithWork, ResumeWorking, PassSavedToken,
         BecomeLeader, LeaderCommanded, GatherResult, RetryToken, StepDown, CommandTermination,
         ReturnFalse, Leave, netVars
<1>1. CASE UNCHANGED sendQueue
  BY <1>0, <1>1 DEF MessagesSound
<1>2. CASE AssignWork(n)
  <2>1. PICK given \in Splits(work[n]) :
          sendQueue' = [sendQueue EXCEPT
                ![n] = @ \o <<AssignmentTo(Head(workRequests[n]), given),
                              KeptAnnouncement(n, Kept(work[n], given))>>]
    BY <1>2 DEF AssignWork
  <2> DEFINE a == AssignmentTo(Head(workRequests[n]), given)
             b == KeptAnnouncement(n, Kept(work[n], given))
  <2>2. a \in Message /\ AnnouncementStops(a, n)
    <3>1. Head(workRequests[n]) \in Node /\ given \in SUBSET Units
      BY <1>2 DEF AssignWork, Splits, TypeOK
    <3> QED BY <3>1, AssignmentType DEF AnnouncementStops, AssignmentTo
  <2>3. b \in Message /\ AnnouncementStops(b, n)
    <3>1. Kept(work[n], given) \in SUBSET Units
      BY DEF Kept, TypeOK
    <3> QED BY <3>1, LeftOf, AssignmentType DEF AnnouncementStops, KeptAnnouncement
  <2> HIDE DEF a, b
  <2>4. /\ sendQueue[n] \in Seq(Message) /\ sendQueue'[n] = sendQueue[n] \o <<a, b>>
        /\ \A m \in Node \ {n} : sendQueue'[m] = sendQueue[m]
    BY <2>1 DEF a, b, TypeOK
  <2>5. ASSUME NEW m \in Node, NEW i \in DOMAIN sendQueue'[m]
        PROVE  AnnouncementStops(sendQueue'[m][i], m)
    <3>1. CASE m # n
      BY <2>4, <3>1 DEF MessagesSound, QueuesSound
    <3>2. CASE m = n
      <4>1. \/ i \in DOMAIN sendQueue[n] /\ sendQueue'[n][i] = sendQueue[n][i]
            \/ sendQueue'[n][i] = a
            \/ sendQueue'[n][i] = b
        BY <2>2, <2>3, <2>4, <3>2, AppendTwoPosition
      <4> QED BY <2>2, <2>3, <3>2, <4>1 DEF MessagesSound, QueuesSound
    <3> QED BY <3>1, <3>2
  <2> QED BY <1>0, <2>5 DEF QueuesSound
<1>3. CASE \E msg \in Message : msg.type # "WORK_ASSIGNMET" /\ Send(n, msg)
  <2>1. PICK msg \in Message : msg.type # "WORK_ASSIGNMET" /\ Send(n, msg)
    BY <1>3
  <2> QED BY <1>0, <2>1, SendKeepsSound DEF AnnouncementStops, MessagesSound
<1> QED
  BY <1>1, <1>2, <1>3, MainStepSends

LEMMA DeliverMessages ==
  ASSUME TypeOK, MessagesSound, NEW m \in Node, Deliver(m)
  PROVE  MessagesSound'
<1>t. /\ sendQueue \in [Node -> Seq(Message)] /\ handler \in [Node -> HandlerState]
      /\ Right[m] \in Node /\ Right[m] # m
  BY RingAssumption DEF TypeOK
<1>d. /\ sendQueue[m] # <<>>
      /\ \/ handler' = handler
         \/ \E op \in {"accept", "forward"} :
               /\ handler' = [handler EXCEPT ![Right[m]] = [op |-> op, msg |-> Head(sendQueue[m])]]
               /\ ~originMe(m)
               /\ op = "accept" => Head(sendQueue[m]).type = "WORK_REQUEST"
  BY DeliverIs
<1>q. \/ sendQueue' = [sendQueue EXCEPT ![m] = Tail(@)]
      \/ \E msg \in Message :
            /\ msg.type = "TERMINATION_TOKEN"
            /\ sendQueue' = [sendQueue EXCEPT ![m] = Tail(@), ![Right[m]] = Append(@, msg)]
  BY DeliverIs
<1>1. ASSUME NEW k \in Node, NEW i \in DOMAIN sendQueue'[k]
      PROVE  AnnouncementStops(sendQueue'[k][i], k)
  <2>1. CASE k = m
    <3>1. sendQueue'[m] = Tail(sendQueue[m])
      BY <1>t, <1>q
    <3> QED BY <1>t, <1>d, <2>1, <3>1, TailPosition DEF MessagesSound, QueuesSound
  <2>2. CASE sendQueue'[k] = sendQueue[k]
    BY <2>2 DEF MessagesSound, QueuesSound
  <2>3. CASE k # m /\ sendQueue'[k] # sendQueue[k]
    <3>1. PICK msg \in Message :
            msg.type = "TERMINATION_TOKEN" /\ sendQueue'[k] = Append(sendQueue[k], msg)
      BY <1>t, <1>q, <2>3
    <3>2. AnnouncementStops(msg, k)
      BY <3>1 DEF AnnouncementStops
    <3> QED BY <1>t, <3>1, <3>2, AppendPosition DEF MessagesSound, QueuesSound
  <2> QED BY <2>1, <2>2, <2>3
<1>2. HandlersSound(handler')
  <2>1. CASE handler' = handler
    BY <2>1 DEF MessagesSound
  <2>2. CASE handler' # handler
    <3>1. PICK op \in {"accept", "forward"} :
            /\ handler' = [handler EXCEPT ![Right[m]] = [op |-> op, msg |-> Head(sendQueue[m])]]
            /\ ~originMe(m)
            /\ op = "accept" => Head(sendQueue[m]).type = "WORK_REQUEST"
      BY <1>d, <2>2
    <3>2. AnnouncementStops(Head(sendQueue[m]), m)
      BY <1>t, <1>d, HeadPosition DEF MessagesSound, QueuesSound
    <3>3. AnnouncementStops(Head(sendQueue[m]), Right[m])
      BY <3>1, <3>2 DEF AnnouncementStops, originMe
    <3> QED BY <1>t, <3>1, <3>3 DEF MessagesSound, HandlersSound
  <2> QED BY <2>1, <2>2
<1> QED BY <1>1, <1>2 DEF MessagesSound, QueuesSound

LEMMA FinishHandlerMessages ==
  ASSUME TypeOK, MessagesSound, NEW n \in Node, FinishHandler(n)
  PROVE  MessagesSound'
<1>1. /\ handler' = [handler EXCEPT ![n] = [op |-> "none"]]
      /\ handler[n].op # "none" /\ handler[n].msg \in Message
      /\ sendQueue' = sendQueue \/ Send(n, handler[n].msg)
  BY DEF FinishHandler, AcceptRequest, Forward, TypeOK, HandlerState
<1>2. HandlersSound(handler')
  BY <1>1 DEF MessagesSound, HandlersSound, TypeOK
<1>3. QueuesSound(sendQueue')
  BY <1>1, SendKeepsSound DEF MessagesSound, HandlersSound
<1> QED BY <1>2, <1>3 DEF MessagesSound

-----------------------------------------------------------------------------
(***************************************************************************)
(* The inductive invariant                                                 *)
(***************************************************************************)
\* Where a node may be, and what it may have been told, while its request or
\* the answer is under way.
Waits(n) ==
  pc[n] \in Blocked \cup {"left"} /\ (pc[n] = "idle" => ~workReciewed[n])

HolderWaits ==
  \A n \in Node, kind \in Kind, m \in Node, i \in Pos : HoldsNow(kind, m, i, n) => Waits(n)

RequestInv ==
  /\ TypeOK /\ TokenOrigins
  /\ OnePlace(sendQueue, handler, workRequests)
  /\ HolderWaits
  /\ MessagesSound

LEMMA MainStepWaits ==
  ASSUME TypeOK, NEW k \in Node, Start(k) \/ MainStep(k) \/ SpuriousWakeup(k) \/ FinishHandler(k),
         NEW n \in Node, Waits(n)
  PROVE  pc'[n] \in Blocked \cup {"left"} /\ (pc'[n] = "idle" => ~workReciewed'[n])
<1>1. CASE Start(k) \/ SpuriousWakeup(k) \/ FinishHandler(k)
  BY <1>1
  DEF Start, SpuriousWakeup, FinishHandler, AcceptRequest, Forward, mainVars, shareVars, TypeOK,
      Waits, Blocked
<1>2. CASE MainStep(k)
  BY <1>2
  DEF MainStep, Explore, EnterSynchronize, AssignWork, DeclineRequest, LeaveSynchronize,
      StopWorking, RequestWork, WakeWithWork, ResumeWorking, PassSavedToken, BecomeLeader,
      LeaderCommanded, LeaderSees, GatherResult, RetryToken, StepDown, CommandTermination,
      ReturnFalse, Leave, mainVars, shareVars, TypeOK, Waits, Blocked
<1> QED BY <1>1, <1>2

LEMMA DeliverWaits ==
  ASSUME TypeOK, NEW k \in Node, Deliver(k), NEW n \in Node, Waits(n),
         ReceiveAssignment(k) => n # Right[k]
  PROVE  pc'[n] \in Blocked \cup {"left"} /\ (pc'[n] = "idle" => ~workReciewed'[n])
<1>1. pc' = pc
  BY DEF Deliver, ReceiveOutside, ReceiveDenial, ReceiveRequest, ReceiveAssignment,
         ReceiveForeignAssignment, ReceiveMyToken, KeepForeignToken, PassForeignToken,
         ReceiveTerminalResult, ReceiveTerminate, mainVars
<1>2. workReciewed'[n] => workReciewed[n]
  BY DEF Deliver, ReceiveOutside, ReceiveDenial, ReceiveRequest, ReceiveAssignment,
         ReceiveForeignAssignment, ReceiveMyToken, KeepForeignToken, PassForeignToken,
         ReceiveTerminalResult, ReceiveTerminate, shareVars, TypeOK
<1> QED BY <1>1, <1>2 DEF Waits

\* Before a place of the next state there is one of this state, for the same node.
LEMMA PlaceBefore ==
  ASSUME NEW n \in Node, NEW kind \in Kind, NEW m \in Node, NEW i \in Pos,
         HoldsNext(kind, m, i, n),
         NEW k1 \in Kind, NEW m1 \in Node, NEW k2, NEW m2, NEW pos,
         StaysNow \/ PopsNow(k1, m1) \/ TransfersNow(k1, m1, k2, m2, pos)
  PROVE  \E kind2 \in Kind, mm \in Node, j \in Pos : HoldsNow(kind2, mm, j, n)
<1>1. 1 \in Pos /\ i + 1 \in Pos
  BY DEF Pos
<1>2. CASE StaysNow
  BY <1>2 DEF StaysNow, Stays, HoldsNow, HoldsNext
<1>3. CASE PopsNow(k1, m1)
  BY <1>1, <1>3 DEF PopsNow, Pops, HoldsNow, HoldsNext
<1>4. CASE TransfersNow(k1, m1, k2, m2, pos)
  BY <1>1, <1>4 DEF TransfersNow, Transfers, HoldsNow, HoldsNext
<1> QED BY <1>2, <1>3, <1>4

\* An assignment is received from the asignee itself as source, so no handler
\* keeps it and its place is gone.
LEMMA AssignmentEnds ==
  ASSUME RequestInv, NEW k \in Node, ReceiveAssignment(k)
  PROVE  /\ originMe(k)
         /\ HoldsNow("sendQueue", k, 1, Right[k])
         /\ Right[k] \in Node
<1>1. /\ sendQueue[k] \in Seq(Message) /\ sendQueue[k] # <<>>
      /\ Head(sendQueue[k]).type = "WORK_ASSIGNMET"
      /\ Head(sendQueue[k]).asignee = Right[k]
      /\ Right[k] \in Node
  <2>1. /\ sendQueue[k] # <<>>
        /\ Head(sendQueue[k]).type = "WORK_ASSIGNMET"
        /\ Head(sendQueue[k]).asignee = Right[k]
    BY DEF ReceiveAssignment, Locks, Arrives
  <2>2. sendQueue[k] \in Seq(Message)
    BY DEF RequestInv, TypeOK
  <2>3. Right[k] \in Node
    BY RingAssumption
  <2> QED BY <2>1, <2>2, <2>3
<1>2. 1 \in DOMAIN sendQueue[k] /\ Head(sendQueue[k]) = sendQueue[k][1] /\ Head(sendQueue[k]) \in Message
  BY <1>1, HeadPosition
<1>3. AnnouncementStops(Head(sendQueue[k]), k)
  BY <1>2 DEF RequestInv, MessagesSound, QueuesSound
<1>4. Head(sendQueue[k]).sourceNode = Right[k]
  <2>1. Head(sendQueue[k]).sourceNode \in Node
    BY <1>2 DEF Message
  <2> QED BY <1>1, <1>3, <2>1, RingAssumption DEF AnnouncementStops
<1> QED BY <1>1, <1>2, <1>4 DEF originMe, HoldsNow, Holds, CarriesRequest

LEMMA RequestWorkStep ==
  ASSUME RequestInv, NEW n \in Node, RequestWork(n)
  PROVE  OnePlace(sendQueue', handler', workRequests') /\ HolderWaits'
<1> DEFINE msg == [type |-> "WORK_REQUEST", sourceNode |-> n]
<1>1. /\ sendQueue[n] \in Seq(Message) /\ msg \in Message /\ msg.sourceNode = n
      /\ sendQueue' = [sendQueue EXCEPT ![n] = Append(@, msg)]
      /\ UNCHANGED <<handler, workRequests>>
      /\ pc[n] = "request" /\ pc'[n] = "idle" /\ ~workReciewed'[n]
      /\ sendQueue \in [Node -> Seq(Message)]
  BY DEF RequestWork, Send, RequestInv, TypeOK, Message
<1> HIDE DEF msg
<1>2. ASSUME NEW kind \in Kind, NEW m \in Node, NEW i \in Pos
      PROVE  ~HoldsNow(kind, m, i, n)
  BY <1>1 DEF RequestInv, HolderWaits, Waits, Blocked
<1>3. ASSUME NEW j \in Node, NEW kind \in Kind, NEW m \in Node, NEW i \in Pos,
             HoldsNext(kind, m, i, j)
      PROVE  \/ HoldsNow(kind, m, i, j)
             \/ j = n /\ kind = "sendQueue" /\ m = n /\ i = Len(sendQueue[n]) + 1
  <2>1. CASE kind # "sendQueue"
    BY <1>1, <1>3, <2>1 DEF HoldsNow, HoldsNext, Holds
  <2>2. CASE kind = "sendQueue" /\ m # n
    BY <1>1, <1>3, <2>2 DEF HoldsNow, HoldsNext, Holds
  <2>3. CASE kind = "sendQueue" /\ m = n
    <3>1. i \in DOMAIN sendQueue'[n] /\ CarriesRequest(sendQueue'[n][i], j)
      BY <1>3, <2>3 DEF HoldsNext, Holds
    <3>2. sendQueue'[n] = Append(sendQueue[n], msg)
      BY <1>1
    <3>3. CASE i \in DOMAIN sendQueue[n] /\ sendQueue'[n][i] = sendQueue[n][i]
      BY <2>3, <3>1, <3>3 DEF HoldsNow, Holds
    <3>4. CASE i = Len(sendQueue[n]) + 1 /\ sendQueue'[n][i] = msg
      BY <1>1, <2>3, <3>1, <3>4 DEF CarriesRequest
    <3> QED BY <1>1, <3>1, <3>2, <3>3, <3>4, AppendPosition
  <2> QED BY <2>1, <2>2, <2>3
<1>4. OnePlace(sendQueue', handler', workRequests')
  <2> SUFFICES ASSUME NEW j \in Node, NEW ka \in Kind, NEW kb \in Kind, NEW ma \in Node,
                      NEW mb \in Node, NEW ia \in Pos, NEW ib \in Pos,
                      HoldsNext(ka, ma, ia, j), HoldsNext(kb, mb, ib, j)
               PROVE  ka = kb /\ ma = mb /\ ia = ib
    BY DEF OnePlace, HoldsNext
  <2>1. CASE j = n
    BY <1>2, <1>3, <2>1
  <2>2. CASE j # n
    <3>1. HoldsNow(ka, ma, ia, j) /\ HoldsNow(kb, mb, ib, j)
      BY <1>3, <2>2
    <3> QED BY <3>1 DEF RequestInv, OnePlace, HoldsNow
  <2> QED BY <2>1, <2>2
<1>5. ASSUME NEW j \in Node, NEW kind \in Kind, NEW m \in Node, NEW i \in Pos,
             HoldsNext(kind, m, i, j)
      PROVE  pc'[j] \in Blocked \cup {"left"} /\ (pc'[j] = "idle" => ~workReciewed'[j])
  <2>1. CASE j = n
    BY <1>1, <2>1 DEF Blocked
  <2>2. CASE j # n
    <3>1. Waits(j)
      BY <1>3, <1>5, <2>2 DEF RequestInv, HolderWaits
    <3> QED BY <3>1, MainStepWaits DEF RequestInv, MainStep
  <2> QED BY <2>1, <2>2
<1>6. HolderWaits'
  BY <1>5 DEF HolderWaits, HoldsNow, HoldsNext, Waits
<1> QED BY <1>4, <1>6

LEMMA MainStepRequests ==
  ASSUME RequestInv, NEW n \in Node, Start(n) \/ MainStep(n) \/ SpuriousWakeup(n)
  PROVE  OnePlace(sendQueue', handler', workRequests') /\ HolderWaits'
<1>0. TypeOK /\ TokenOrigins /\ OnePlace(sendQueue, handler, workRequests)
      /\ Len(sendQueue[n]) + 1 \in Pos
  BY DEF RequestInv, TypeOK, Pos
<1>1. CASE RequestWork(n)
  BY <1>1, RequestWorkStep
<1>2. ASSUME NEW k1 \in Kind, NEW m1 \in Node, NEW k2, NEW m2, NEW pos,
             StaysNow \/ TransfersNow(k1, m1, k2, m2, pos)
      PROVE  HolderWaits'
  <2> SUFFICES ASSUME NEW j \in Node, NEW kind \in Kind, NEW m \in Node, NEW i \in Pos,
                      HoldsNext(kind, m, i, j)
               PROVE  pc'[j] \in Blocked \cup {"left"} /\ (pc'[j] = "idle" => ~workReciewed'[j])
    BY DEF HolderWaits, HoldsNow, HoldsNext, Waits
  <2>1. Waits(j)
    BY <1>2, PlaceBefore DEF RequestInv, HolderWaits
  <2> QED BY <1>0, <2>1, MainStepWaits
<1>3. CASE AssignWork(n) \/ DeclineRequest(n)
  <2>1. TransfersNow("workRequests", n, "sendQueue", n, Len(sendQueue[n]) + 1)
    BY <1>0, <1>3, AnswerStep
  <2>2. HolderWaits'
    BY <1>2, <2>1 DEF Kind
  <2>3. OnePlace(sendQueue', handler', workRequests')
    BY <1>0, <2>1, TransfersOne DEF TransfersNow, Kind
  <2> QED BY <2>2, <2>3
<1>4. CASE ~AssignWork(n) /\ ~DeclineRequest(n) /\ ~RequestWork(n)
  <2>1. StaysNow
    BY <1>0, <1>4, QuietStep
  <2>2. HolderWaits'
    BY <1>2, <2>1 DEF Kind
  <2>3. OnePlace(sendQueue', handler', workRequests')
    BY <1>0, <2>1, StaysOne DEF StaysNow
  <2> QED BY <2>2, <2>3
<1> QED BY <1>1, <1>3, <1>4

LEMMA FinishHandlerRequests ==
  ASSUME RequestInv, NEW n \in Node, FinishHandler(n)
  PROVE  OnePlace(sendQueue', handler', workRequests') /\ HolderWaits'
<1>0. /\ TypeOK /\ OnePlace(sendQueue, handler, workRequests)
      /\ Len(sendQueue[n]) + 1 \in Pos /\ Len(workRequests[n]) + 1 \in Pos
  BY DEF RequestInv, TypeOK, Pos
<1>1. PICK k2 \in {"workRequests", "sendQueue"}, pos \in Pos :
        TransfersNow("handler", n, k2, n, pos)
  <2>1. handler[n].op = "accept" => handler[n].msg.type = "WORK_REQUEST"
    BY DEF RequestInv, MessagesSound, HandlersSound
  <2> QED BY <1>0, <2>1, FinishStep
<1>2. OnePlace(sendQueue', handler', workRequests')
  BY <1>0, <1>1, TransfersOne DEF TransfersNow, Kind
<1>3. ASSUME NEW j \in Node, NEW kind \in Kind, NEW m \in Node, NEW i \in Pos,
             HoldsNext(kind, m, i, j)
      PROVE  pc'[j] \in Blocked \cup {"left"} /\ (pc'[j] = "idle" => ~workReciewed'[j])
  <2>1. \E kind2 \in Kind, mm \in Node, p \in Pos : HoldsNow(kind2, mm, p, j)
    BY <1>1, <1>3, PlaceBefore DEF Kind
  <2>2. Waits(j)
    BY <2>1 DEF RequestInv, HolderWaits
  <2> QED BY <1>0, <2>2, MainStepWaits
<1> QED BY <1>2, <1>3 DEF HolderWaits, HoldsNow, HoldsNext, Waits

LEMMA AssignmentLeaves ==
  ASSUME RequestInv, NEW k \in Node, ReceiveAssignment(k),
         NEW kind \in Kind, NEW m \in Node, NEW i \in Pos
  PROVE  ~HoldsNext(kind, m, i, Right[k])
<1> SUFFICES ASSUME HoldsNext(kind, m, i, Right[k])
             PROVE  FALSE
  OBVIOUS
<1>1. originMe(k) /\ HoldsNow("sendQueue", k, 1, Right[k]) /\ Right[k] \in Node
  BY AssignmentEnds
<1>2. PopsNow("sendQueue", k)
  BY <1>1, DeliverStep DEF RequestInv, Deliver
<1>3. PICK p \in Pos : /\ HoldsNow(kind, m, p, Right[k])
                      /\ ~(kind = "sendQueue" /\ m = k /\ p = 1)
  <2>1. i + 1 \in Pos /\ i + 1 # 1
    BY DEF Pos
  <2> QED BY <1>1, <1>2, <2>1 DEF PopsNow, Pops, HoldsNow, HoldsNext
<1>4. 1 \in Pos /\ "sendQueue" \in Kind
  BY DEF Pos, Kind
<1> QED BY <1>1, <1>3, <1>4 DEF RequestInv, OnePlace, HoldsNow

LEMMA DeliverRequests ==
  ASSUME RequestInv, NEW k \in Node, Deliver(k)
  PROVE  OnePlace(sendQueue', handler', workRequests') /\ HolderWaits'
<1>0. /\ TypeOK /\ OnePlace(sendQueue, handler, workRequests)
      /\ Right[k] \in Node /\ 1 \in Pos
  BY RingAssumption DEF RequestInv, Pos
<1>1. \/ handler' = handler /\ PopsNow("sendQueue", k)
      \/ ~originMe(k) /\ TransfersNow("sendQueue", k, "handler", Right[k], 1)
  BY <1>0, DeliverStep
<1>2. OnePlace(sendQueue', handler', workRequests')
  <2>1. CASE PopsNow("sendQueue", k)
    BY <1>0, <2>1, PopsOne DEF PopsNow, Kind
  <2>2. CASE TransfersNow("sendQueue", k, "handler", Right[k], 1)
    BY <1>0, <2>2, TransfersOne DEF TransfersNow, Kind
  <2> QED BY <1>1, <2>1, <2>2
<1>3. ASSUME NEW j \in Node, NEW kind \in Kind, NEW m \in Node, NEW i \in Pos,
             HoldsNext(kind, m, i, j)
      PROVE  pc'[j] \in Blocked \cup {"left"} /\ (pc'[j] = "idle" => ~workReciewed'[j])
  <2>1. \E kind2 \in Kind, mm \in Node, p \in Pos : HoldsNow(kind2, mm, p, j)
    BY <1>1, <1>3, PlaceBefore DEF Kind
  <2>2. Waits(j)
    BY <2>1 DEF RequestInv, HolderWaits
  <2>3. ReceiveAssignment(k) => j # Right[k]
    BY <1>3, AssignmentLeaves
  <2> QED BY <1>0, <2>2, <2>3, DeliverWaits
<1> QED BY <1>2, <1>3 DEF HolderWaits, HoldsNow, HoldsNext, Waits

LEMMA RequestInvInit == Init => RequestInv
<1> SUFFICES ASSUME Init
             PROVE  RequestInv
  OBVIOUS
<1>1. TypeOK
  BY InitType
<1>2. TokenOrigins
  BY DEF Init, TokenOrigins
<1>3. ASSUME NEW n \in Node, NEW kind \in Kind, NEW m \in Node, NEW i \in Pos
      PROVE  ~HoldsNow(kind, m, i, n)
  BY DEF Init, HoldsNow, Holds
<1>4. OnePlace(sendQueue, handler, workRequests) /\ HolderWaits
  BY <1>3 DEF OnePlace, HolderWaits, HoldsNow
<1>5. MessagesSound
  BY DEF Init, MessagesSound, QueuesSound, HandlersSound
<1> QED BY <1>1, <1>2, <1>4, <1>5 DEF RequestInv

LEMMA RequestInvStep == RequestInv /\ [Next]_vars => RequestInv'
<1> SUFFICES ASSUME RequestInv, [Next]_vars
             PROVE  RequestInv'
  OBVIOUS
<1>1. CASE Next
  <2>1. PICK k \in Node :
          \/ Start(k) \/ MainStep(k) \/ SpuriousWakeup(k)
          \/ Deliver(k)
          \/ FinishHandler(k)
    BY <1>1 DEF Next
  <2>2. TypeOK /\ TokenOrigins /\ MessagesSound
    BY DEF RequestInv
  <2>3. TypeOK'
    BY <2>1, <2>2, MainStepType, DeliverType, FinishHandlerType
  <2>4. TokenOrigins'
    BY <1>1, <2>2, <2>3, TokenOriginsStep
  <2>5. OnePlace(sendQueue', handler', workRequests') /\ HolderWaits'
    BY <2>1, MainStepRequests, DeliverRequests, FinishHandlerRequests
  <2>6. MessagesSound'
    <3>1. CASE Start(k) \/ MainStep(k) \/ SpuriousWakeup(k)
      BY <2>2, <3>1, MainStepMessages DEF MessagesSound
    <3> QED BY <2>1, <2>2, <3>1, DeliverMessages, FinishHandlerMessages
  <2> QED BY <2>3, <2>4, <2>5, <2>6 DEF RequestInv
<1>2. CASE UNCHANGED vars
  BY <1>2
  DEF vars, mainVars, searchVars, netVars, shareVars, tokenVars, termVars, RequestInv, TypeOK,
      TokenOrigins, HolderWaits, HoldsNow, Waits, MessagesSound
<1> QED BY <1>1, <1>2

-----------------------------------------------------------------------------
\* In every ring and schedule, with any number of waits that return early, no
\* node ever has two requests, or a request and an answer, under way.
THEOREM OneRequestAlways == Spec => []OneRequest
<1>1. RequestInv => OneRequest
  BY OneRequestIs DEF RequestInv
<1> QED BY <1>1, RequestInvInit, RequestInvStep, PTL DEF Spec

\* informAssignment never replaces the stacks of a node whose main thread uses
\* them: the contract of setWork (Computation.h:80-82) is kept.
THEOREM SetWorkContract == Spec => SetWorkOnlyWhenBlocked
<1>1. ASSUME RequestInv, NEW m \in Node, ReceiveAssignment(m)
      PROVE  pc[Right[m]] \in Blocked
  <2>1. HoldsNow("sendQueue", m, 1, Right[m]) /\ Right[m] \in Node
    BY <1>1, AssignmentEnds
  <2>2. Waits(Right[m])
    <3>1. "sendQueue" \in Kind /\ 1 \in Pos
      BY DEF Kind, Pos
    <3> QED BY <1>1, <2>1, <3>1 DEF RequestInv, HolderWaits
  <2>3. pc[Right[m]] # "left"
    BY <1>1 DEF ReceiveAssignment, Locks, InComputation
  <2> QED BY <2>2, <2>3 DEF Waits
<1>2. RequestInv /\ [Next]_vars
        => [\A m \in Node : ReceiveAssignment(m) => pc[Right[m]] \in Blocked]_vars
  BY <1>1
<1> QED BY <1>2, RequestInvInit, RequestInvStep, PTL DEF Spec, SetWorkOnlyWhenBlocked

=============================================================================
