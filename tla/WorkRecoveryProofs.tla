--------------------------- MODULE WorkRecoveryProofs ---------------------------
(***************************************************************************)
(* Theorems about WorkRecovery, for every ring of nodes, every set of      *)
(* branches and whatever lapses occur: types and, if one node dies at      *)
(* most, that ZOMBIFY comes back and that nobody waits for ever.           *)
(***************************************************************************)
EXTENDS WorkRecovery, FiniteSetTheorems, TLAPS

-----------------------------------------------------------------------------
(***************************************************************************)
(* Types                                                                   *)
(***************************************************************************)
LEMMA CopiesType ==
  ASSUME NEW f, IsCache(f), NEW x \in Node, NEW xs, NEW copy \in Copy
  PROVE  IsCache(With(f, x, copy)) /\ IsCache(Without(f, xs))
BY DEF IsCache, With, Without

\* The messages that nodes make are messages.
LEMMA MadeType ==
  ASSUME NEW s \in Node, NEW a \in Node, NEW w \in SUBSET Units, NEW z \in Node \cup {NoNode}, NEW i \in Nat
  PROVE  Request(s) \in Message /\ Zombify(s) \in Message /\ Assignment(s, a, w, z, i) \in Message
BY DEF Request, Zombify, Assignment, Message

LEMMA WorkMessagesType ==
  ASSUME TypeOK, NEW n \in Node, NEW y \in WorkMessages(n)
  PROVE  y \in Message
<1>1. CASE DOMAIN zombieWork[n] = {}
  BY <1>1 DEF WorkMessages, Request, Message
<1>2. CASE DOMAIN zombieWork[n] # {}
  <2>1. PICK z \in DOMAIN zombieWork[n] :
          y = Assignment(n, n, zombieWork[n][z].unit, z, zombieWork[n][z].issue)
    BY <1>2 DEF WorkMessages
  <2>2. z \in Node /\ zombieWork[n][z].unit \in SUBSET Units /\ zombieWork[n][z].issue \in Nat
    BY DEF TypeOK, IsCache, Copy
  <2> QED BY <2>1, <2>2, MadeType
<1> QED BY <1>1, <1>2

LEMMA ArrivesType ==
  ASSUME TypeOK, NEW m \in Node, NEW types, Arrives(m, types)
  PROVE  /\ m \in up /\ rightID[m] \in up /\ rightID[m] \in Node
         /\ sendQueue[m] \in Seq(Message) /\ sendQueue[m] # <<>>
         /\ msg(m) \in Message /\ msg(m).type \in types
         /\ Tail(sendQueue[m]) \in Seq(Message)
BY DEF Arrives, Running, msg, TypeOK

\* Every message has a source; an assignment has more.
LEMMA Fields ==
  ASSUME NEW y \in Message
  PROVE  /\ y.sourceNode \in Node
         /\ y.type = "WORK_ASSIGNMET" =>
              /\ y.asignee \in Node /\ y.unit \in SUBSET Units
              /\ y.zombie \in Node \cup {NoNode} /\ y.issue \in Nat
         /\ y.type = "NETWORK_REBUILT" => y.nodeIDs \in SUBSET Node
BY DEF Message

LEMMA HandledType ==
  ASSUME TypeOK, NEW m \in Node, rightID[m] \in Node, sendQueue[m] # <<>>,
         NEW msgs \in Seq(Message), Handled(m, msgs)
  PROVE  /\ sendQueue' \in [Node -> Seq(Message)]
         /\ rightID[m] # m =>
              /\ sendQueue'[m] = Tail(sendQueue[m])
              /\ sendQueue'[rightID[m]] = sendQueue[rightID[m]] \o msgs
         /\ rightID[m] = m => sendQueue'[m] = Tail(sendQueue[m]) \o msgs
         /\ \A n \in Node \ {m, rightID[m]} : sendQueue'[n] = sendQueue[n]
<1> DEFINE r == rightID[m]
           t == Tail(sendQueue[m])
<1>1. sendQueue \in [Node -> Seq(Message)] /\ t \in Seq(Message) /\ r \in Node
  BY DEF TypeOK
<1>2. sendQueue' = [sendQueue EXCEPT ![m] = Tail(sendQueue[m]), ![rightID[m]] = @ \o msgs]
  BY <1>1 DEF Handled
<1> HIDE DEF r, t
<1>3. CASE r = m
  <2>1. sendQueue' = [sendQueue EXCEPT ![m] = t \o msgs]
    BY <1>1, <1>2, <1>3 DEF r, t
  <2>2. t \o msgs \in Seq(Message)
    BY <1>1
  <2> QED BY <1>1, <1>3, <2>1, <2>2 DEF r, t
<1>4. CASE r # m
  <2>1. sendQueue[r] \o msgs \in Seq(Message)
    BY <1>1
  <2>2. sendQueue' = [sendQueue EXCEPT ![m] = t, ![r] = sendQueue[r] \o msgs]
    BY <1>1, <1>2, <1>4 DEF r, t
  <2> QED BY <1>1, <1>4, <2>1, <2>2 DEF r, t
<1> QED BY <1>3, <1>4

LEMMA SendType ==
  ASSUME TypeOK, NEW n \in Node, NEW msgs \in Seq(Message), Send(n, msgs)
  PROVE  /\ sendQueue' \in [Node -> Seq(Message)]
         /\ sendQueue'[n] = sendQueue[n] \o msgs
         /\ \A k \in Node \ {n} : sendQueue'[k] = sendQueue[k]
<1>1. sendQueue[n] \o msgs \in Seq(Message)
  BY DEF TypeOK
<1> QED BY <1>1 DEF Send, TypeOK

CachesOK ==
  /\ DOMAIN workAssignments = Node /\ DOMAIN zombieWork = Node
  /\ \A n \in Node : IsCache(workAssignments[n]) /\ IsCache(zombieWork[n])

LEMMA ZombifyType ==
  ASSUME TypeOK, NEW r \in Node, NEW dead, zombify(r, dead)
  PROVE  CachesOK'
<1> DEFINE found == dead \cap DOMAIN workAssignments[r]
           zombies == [x \in DOMAIN zombieWork[r] \cup found |->
                         IF x \in found THEN workAssignments[r][x] ELSE zombieWork[r][x]]
<1>1. CachesOK
  BY DEF TypeOK, CachesOK
<1>2. IsCache(Without(workAssignments[r], dead))
  BY <1>1 DEF CachesOK, IsCache, Without
<1>3. IsCache(zombies)
  BY <1>1 DEF CachesOK, IsCache
<1>4. /\ workAssignments' = [workAssignments EXCEPT ![r] = Without(workAssignments[r], dead)]
      /\ zombieWork' = [zombieWork EXCEPT ![r] = zombies]
  BY <1>1 DEF zombify, CachesOK
<1> HIDE DEF zombies
<1> QED BY <1>1, <1>2, <1>3, <1>4 DEF CachesOK

\* A split gives a part of the giver's work away, announces a part, and keeps the rest.
LEMMA SplitParts ==
  ASSUME NEW n \in Node, AssignWork(n)
  PROVE  LET r == Head(workRequests[n]) IN
         \E given, kept, announced, left \in SUBSET work[n] :
           /\ work' = [work EXCEPT ![n] = kept]
           /\ workAssignments' = [workAssignments EXCEPT
                 ![n] = CopyGiven(@, r, [issue |-> issued[r] + 1, unit |-> given])]
           /\ Send(n, <<Assignment(r, r, given, NoNode, issued[r] + 1),
                        Assignment(leftID[n], n, announced, NoNode, issued[n] + 1)>>)
           /\ unannounced' = [unannounced EXCEPT ![n] = @ \cup left]
<1> DEFINE r == Head(workRequests[n])
           given(s) == Given(work[n], s)
           kept(s) == Kept(work[n], s)
           announced(s) == Announced(work[n], s)
           left(s) == Kept(work[n], s) \ Announced(work[n], s)
<1>1. PICK s \in Splits(work[n]) :
        /\ work' = [work EXCEPT ![n] = Kept(@, s)]
        /\ workAssignments' = [workAssignments EXCEPT
              ![n] = CopyGiven(@, r, [issue |-> issued[r] + 1, unit |-> given(s)])]
        /\ Send(n, <<Assignment(r, r, given(s), NoNode, issued[r] + 1),
                     Assignment(leftID[n], n, announced(s), NoNode, issued[n] + 1)>>)
        /\ unannounced' = [unannounced EXCEPT ![n] = @ \cup left(s)]
  BY DEF AssignWork
<1>2. /\ given(s) \in SUBSET work[n] /\ kept(s) \in SUBSET work[n]
      /\ announced(s) \in SUBSET work[n] /\ left(s) \in SUBSET work[n]
  BY DEF Given, Kept, Announced
<1>3. work' = [work EXCEPT ![n] = kept(s)]
  BY <1>1
<1> HIDE DEF given, kept, announced, left
<1> QED BY <1>1, <1>2, <1>3

LEMMA MainType ==
  ASSUME TypeOK, NEW n \in Node, Explore(n) \/ AssignWork(n) \/ DeclineRequest(n) \/ RunDry(n)
  PROVE  TypeOK'
<1>1. CASE Explore(n)
  BY <1>1 DEF Explore, TypeOK, ringVars, requestVars, cacheVars
<1>2. CASE AssignWork(n)
  <2> DEFINE r == Head(workRequests[n])
  <2>1. /\ workRequests[n] \in Seq(Node) /\ workRequests[n] # <<>>
        /\ r \in Node /\ Tail(workRequests[n]) \in Seq(Node)
    <3>1. workRequests[n] \in Seq(Node) /\ workRequests[n] # <<>>
      BY <1>2 DEF AssignWork, TypeOK
    <3> QED BY <3>1
  <2>2. PICK given \in SUBSET work[n], kept \in SUBSET work[n],
             announced \in SUBSET work[n], left \in SUBSET work[n] :
          /\ work' = [work EXCEPT ![n] = kept]
          /\ workAssignments' = [workAssignments EXCEPT
                ![n] = CopyGiven(@, r, [issue |-> issued[r] + 1, unit |-> given])]
          /\ Send(n, <<Assignment(r, r, given, NoNode, issued[r] + 1),
                       Assignment(leftID[n], n, announced, NoNode, issued[n] + 1)>>)
          /\ unannounced' = [unannounced EXCEPT ![n] = @ \cup left]
    BY <1>2, SplitParts
  <2>3. /\ given \in SUBSET Units /\ kept \in SUBSET Units /\ announced \in SUBSET Units
        /\ left \in SUBSET Units /\ leftID[n] \in Node
        /\ issued[r] + 1 \in Nat /\ issued[n] + 1 \in Nat
    <3>1. work[n] \in SUBSET Units /\ issued[r] \in Nat /\ issued[n] \in Nat /\ leftID[n] \in Node
      BY <2>1, Zenon DEF TypeOK
    <3> QED BY <3>1
  <2> HIDE DEF r
  <2>4. sendQueue' \in [Node -> Seq(Message)]
    <3>1. <<Assignment(r, r, given, NoNode, issued[r] + 1),
            Assignment(leftID[n], n, announced, NoNode, issued[n] + 1)>> \in Seq(Message)
      BY <2>1, <2>3, MadeType
    <3> QED BY <2>2, <3>1, SendType
  <2>5. DOMAIN workAssignments' = Node /\ \A k \in Node : IsCache(workAssignments'[k])
    <3>1. IsCache(CopyGiven(workAssignments[n], r, [issue |-> issued[r] + 1, unit |-> given]))
      <4>1. [issue |-> issued[r] + 1, unit |-> given] \in Copy /\ IsCache(workAssignments[n])
        BY <2>3 DEF Copy, TypeOK
      <4> QED BY <2>1, <4>1, CopiesType DEF CopyGiven
    <3> QED BY <2>2, <3>1 DEF TypeOK
  <2>6. issued' \in [Node -> Nat]
    <3>1. issued' = [issued EXCEPT ![r] = @ + 1, ![n] = @ + 1] /\ issued \in [Node -> Nat]
      BY <1>2 DEF AssignWork, TypeOK, r
    <3> QED BY <2>1, <3>1
  <2>7. /\ work' \in [Node -> SUBSET Units] /\ unannounced' \in [Node -> SUBSET Units]
        /\ workRequests' \in [Node -> Seq(Node)] /\ lapses' \in SUBSET Lapse
    BY <1>2, <2>1, <2>2, <2>3 DEF AssignWork, TypeOK, NoteLapse, Lapse
  <2> QED
    BY <1>2, <2>4, <2>5, <2>6, <2>7 DEF AssignWork, TypeOK, ringVars
<1>3. CASE DeclineRequest(n)
  <2>1. Head(workRequests[n]) \in Node /\ Tail(workRequests[n]) \in Seq(Node)
    BY <1>3 DEF DeclineRequest, TypeOK
  <2>2. <<Request(Head(workRequests[n]))>> \in Seq(Message)
    BY <2>1 DEF Request, Message
  <2>3. sendQueue' \in [Node -> Seq(Message)]
    BY <1>3, <2>2, SendType DEF DeclineRequest
  <2> QED BY <1>3, <2>1, <2>3 DEF DeclineRequest, TypeOK, ringVars, mainVars, cacheVars
<1>4. CASE RunDry(n)
  <2>1. PICK y \in WorkMessages(n) :
          /\ Send(n, <<y>>)
          /\ workRequestPending' = [workRequestPending EXCEPT ![n] = y.type = "WORK_REQUEST"]
    BY <1>4 DEF RunDry
  <2>2. <<y>> \in Seq(Message)
    BY WorkMessagesType
  <2>3. sendQueue' \in [Node -> Seq(Message)]
    BY <2>1, <2>2, SendType
  <2> QED BY <1>4, <2>1, <2>3 DEF RunDry, TypeOK, ringVars, cacheVars
<1> QED BY <1>1, <1>2, <1>3, <1>4

LEMMA FurtherType ==
  ASSUME TypeOK, NEW m \in Node, msg(m) \in Message
  PROVE  Further(m) \in Seq(Message) /\ <<>> \in Seq(Message)
BY DEF Further

\* Whichever unit a claim goes on with, it is the claim of the same node.
LEMMA StrikeSends ==
  ASSUME TypeOK, NEW m \in Node, StrikeZombie(m)
  PROVE  /\ msg(m) \in Message /\ msg(m).type = "WORK_ASSIGNMET"
         /\ lapses' \in SUBSET Lapse
         /\ \E kept \in Message :
              /\ Handled(m, <<kept>>)
              /\ kept.type = "WORK_ASSIGNMET"
              /\ kept.sourceNode = msg(m).sourceNode /\ kept.asignee = msg(m).asignee
<1> DEFINE r == rightID[m]
           copies == zombieWork[rightID[m]]
           y == Improved(msg(m), zombieWork[rightID[m]])
<1>1. r \in Node /\ msg(m) \in Message /\ msg(m).type = "WORK_ASSIGNMET"
  BY ArrivesType DEF StrikeZombie, Arrives
<1>2. msg(m) \in [type : {"WORK_ASSIGNMET"}, sourceNode : Node, asignee : Node,
                  unit : SUBSET Units, zombie : Node \cup {NoNode}, issue : Nat]
  BY <1>1 DEF Message
<1>3. /\ y \in Message /\ y.type = "WORK_ASSIGNMET"
      /\ y.sourceNode = msg(m).sourceNode /\ y.asignee = msg(m).asignee
  <2>1. CASE msg(m).zombie \in DOMAIN copies
    <3>1. copies[msg(m).zombie].unit \in SUBSET Units /\ copies[msg(m).zombie].issue \in Nat
      BY <1>1, <2>1 DEF TypeOK, IsCache, Copy
    <3> QED BY <1>2, <2>1, <3>1 DEF Improved, Message
  <2>2. CASE msg(m).zombie \notin DOMAIN copies
    BY <1>1, <2>2 DEF Improved
  <2> QED BY <2>1, <2>2
<1> HIDE DEF y
<1>4. PICK kept \in {msg(m), y} :
        /\ Handled(m, <<kept>>)
        /\ NoteLapse("an older copy won", \E other \in {msg(m), y} : kept.issue < other.issue)
  BY DEF StrikeZombie, y
<1>5. lapses' \in SUBSET Lapse
  BY <1>4 DEF NoteLapse, Lapse, TypeOK
<1> QED BY <1>1, <1>3, <1>4, <1>5

LEMMA DeliverType ==
  ASSUME TypeOK, NEW m \in Node, Deliver(m)
  PROVE  TypeOK'
<1> DEFINE r == rightID[m]
<1>0. PICK types : Arrives(m, types)
  BY DEF Deliver, DropDead, ReceiveDenial, ReceiveRequest, ReceiveAssignment, CacheAssignment,
         StrikeZombie, ReceiveRebuilt, ReceiveZombify, FinishZombify
<1>1. /\ r \in Node /\ sendQueue[m] # <<>> /\ msg(m) \in Message
      /\ Further(m) \in Seq(Message) /\ <<>> \in Seq(Message)
  BY <1>0, ArrivesType, FurtherType
<1>2. ASSUME NEW msgs \in Seq(Message), Handled(m, msgs)
      PROVE  sendQueue' \in [Node -> Seq(Message)]
  BY <1>1, <1>2, HandledType
<1>3. CASE DropDead(m)
  BY <1>1, <1>2, <1>3 DEF DropDead, TypeOK, ringVars, mainVars, requestVars, cacheVars
<1>4. CASE ReceiveDenial(m)
  <2>1. sendQueue' \in [Node -> Seq(Message)]
    BY <1>1, <1>2, <1>4 DEF ReceiveDenial
  <2>2. pc' \in [Node -> {"dfs", "idle", "over"}]
    BY <1>1, <1>4 DEF ReceiveDenial, TypeOK
  <2>3. workRequestPending' \in [Node -> BOOLEAN]
    BY <1>1, <1>4 DEF ReceiveDenial, TypeOK
  <2> QED BY <1>4, <2>1, <2>2, <2>3 DEF ReceiveDenial, TypeOK, ringVars, cacheVars
<1>5. CASE ReceiveRequest(m)
  <2>1. sendQueue' \in [Node -> Seq(Message)]
    BY <1>1, <1>2, <1>5 DEF ReceiveRequest
  <2>2. workRequests' \in [Node -> Seq(Node)]
    <3>1. msg(m).sourceNode \in Node
      BY <1>1, Fields
    <3>2. CASE workRequests' = [workRequests EXCEPT ![r] = Append(@, msg(m).sourceNode)]
      <4>1. Append(workRequests[r], msg(m).sourceNode) \in Seq(Node)
        BY <1>1, <3>1 DEF TypeOK
      <4> QED BY <3>2, <4>1 DEF TypeOK
    <3>3. CASE UNCHANGED workRequests
      BY <3>3 DEF TypeOK
    <3> QED BY <1>5, <3>2, <3>3 DEF ReceiveRequest
  <2> QED BY <1>5, <2>1, <2>2 DEF ReceiveRequest, TypeOK, ringVars, mainVars, cacheVars
<1>6. CASE ReceiveAssignment(m)
  <2>1. sendQueue' \in [Node -> Seq(Message)]
    BY <1>1, <1>2, <1>6 DEF ReceiveAssignment
  <2>2. msg(m).unit \in SUBSET Units
    <3>1. msg(m).type = "WORK_ASSIGNMET"
      BY <1>6 DEF ReceiveAssignment, Arrives
    <3> QED BY <1>1, <3>1, Fields
  <2>3. /\ pc' \in [Node -> {"dfs", "idle", "over"}] /\ work' \in [Node -> SUBSET Units]
        /\ workRequestPending' \in [Node -> BOOLEAN]
    <3>1. CASE isZombifyingState[r]
      BY <1>6, <3>1 DEF ReceiveAssignment, TypeOK
    <3>2. CASE ~isZombifyingState[r]
      <4>1. work' = [work EXCEPT ![r] = msg(m).unit]
        BY <1>6, <3>2 DEF ReceiveAssignment
      <4>2. pc' = [pc EXCEPT ![r] = IF @ = "idle" THEN "dfs" ELSE @]
        BY <1>6, <3>2 DEF ReceiveAssignment
      <4>3. workRequestPending' = [workRequestPending EXCEPT ![r] = FALSE]
        BY <1>6, <3>2 DEF ReceiveAssignment
      <4>4. /\ work' \in [Node -> SUBSET Units]
            /\ workRequestPending' \in [Node -> BOOLEAN]
        BY <2>2, <4>1, <4>3 DEF TypeOK
      <4>5. pc' \in [Node -> {"dfs", "idle", "over"}]
        BY <4>2 DEF TypeOK
      <4> QED BY <4>4, <4>5
    <3> QED BY <3>1, <3>2
  <2>4. DOMAIN zombieWork' = Node /\ \A n \in Node : IsCache(zombieWork'[n])
    <3>1. IsCache(Without(zombieWork[r], {msg(m).zombie}))
      BY <1>1 DEF TypeOK, IsCache, Without
    <3> QED BY <1>1, <1>6, <3>1 DEF ReceiveAssignment, TypeOK
  <2>5. lapses' \in SUBSET Lapse
    BY <1>6 DEF ReceiveAssignment, NoteLapse, Lapse, TypeOK
  <2> QED BY <1>6, <2>1, <2>3, <2>4, <2>5 DEF ReceiveAssignment, TypeOK, ringVars
<1>7. CASE CacheAssignment(m)
  <2>1. sendQueue' \in [Node -> Seq(Message)]
    BY <1>1, <1>2, <1>7 DEF CacheAssignment
  <2>2. DOMAIN workAssignments' = Node /\ \A n \in Node : IsCache(workAssignments'[n])
    <3>1. msg(m).type = "WORK_ASSIGNMET"
      BY <1>7 DEF CacheAssignment, Arrives
    <3>2. msg(m).asignee \in Node /\ [issue |-> msg(m).issue, unit |-> msg(m).unit] \in Copy
      BY <1>1, <3>1, Fields DEF Copy
    <3>3. IsCache(With(workAssignments[r], msg(m).asignee,
                       [issue |-> msg(m).issue, unit |-> msg(m).unit]))
      BY <1>1, <3>2, CopiesType DEF TypeOK
    <3> QED BY <1>1, <1>7, <3>3 DEF CacheAssignment, TypeOK
  <2> QED BY <1>7, <2>1, <2>2 DEF CacheAssignment, TypeOK, ringVars, mainVars, requestVars
<1>8. CASE StrikeZombie(m)
  <2>1. lapses' \in SUBSET Lapse
    BY <1>8, StrikeSends
  <2>2. PICK kept \in Message : Handled(m, <<kept>>)
    BY <1>8, StrikeSends
  <2>3. sendQueue' \in [Node -> Seq(Message)]
    <3>1. <<kept>> \in Seq(Message)
      BY <2>2
    <3> QED BY <1>2, <2>2, <3>1
  <2>4. DOMAIN zombieWork' = Node /\ \A n \in Node : IsCache(zombieWork'[n])
    <3>1. IsCache(Without(zombieWork[r], {msg(m).zombie}))
      BY <1>1 DEF TypeOK, IsCache, Without
    <3> QED BY <1>1, <1>8, <3>1 DEF StrikeZombie, TypeOK
  <2> QED BY <1>8, <2>1, <2>3, <2>4 DEF StrikeZombie, TypeOK, ringVars, mainVars, requestVars
<1>9. CASE ReceiveRebuilt(m)
  <2>1. msg(m).nodeIDs \in SUBSET Node
    <3>1. msg(m).type = "NETWORK_REBUILT"
      BY <1>9 DEF ReceiveRebuilt, Arrives
    <3> QED BY <1>1, <3>1, Fields
  <2>2. CachesOK' /\ liveNodes' \in [Node -> SUBSET Node]
    BY <1>1, <1>9, <2>1, ZombifyType DEF ReceiveRebuilt, SetLiveNodes, TypeOK
  <2>3. sendQueue' \in [Node -> Seq(Message)]
    <3>1. Further(m) \o <<Zombify(r)>> \in Seq(Message)
      <4>1. Zombify(r) \in Message
        BY <1>1 DEF Zombify, Message
      <4> QED BY <1>1, <4>1
    <3> QED BY <1>1, <1>2, <1>9, <3>1 DEF ReceiveRebuilt
  <2>4. isZombifyingState' \in [Node -> BOOLEAN]
    BY <1>1, <1>9 DEF ReceiveRebuilt, TypeOK
  <2> QED BY <1>9, <2>2, <2>3, <2>4 DEF ReceiveRebuilt, TypeOK, CachesOK, ringVars, mainVars
<1>10. CASE ReceiveZombify(m)
  <2>1. CachesOK' /\ sendQueue' \in [Node -> Seq(Message)]
    BY <1>1, <1>2, <1>10, ZombifyType DEF ReceiveZombify
  <2> QED BY <1>10, <2>1 DEF ReceiveZombify, TypeOK, CachesOK, ringVars, mainVars, requestVars
<1>11. CASE FinishZombify(m)
  <2>1. PICK answer \in WorkMessages(r) : Handled(m, <<answer>>)
    BY <1>11 DEF FinishZombify
  <2>2. <<answer>> \in Seq(Message)
    BY <1>1, WorkMessagesType
  <2>3. sendQueue' \in [Node -> Seq(Message)]
    BY <1>2, <2>1, <2>2
  <2>4. lapses' \in SUBSET Lapse
    BY <1>11 DEF FinishZombify, NoteLapse, Lapse, TypeOK
  <2> QED BY <1>11, <2>3, <2>4 DEF FinishZombify, TypeOK, ringVars, cacheVars
<1> QED BY <1>3, <1>4, <1>5, <1>6, <1>7, <1>8, <1>9, <1>10, <1>11 DEF Deliver

LEMMA RepairType ==
  ASSUME TypeOK, NEW n \in Node, Crash(n) \/ CloseRing(n) \/ SetSurvivors(n) \/ AnnounceRebuilt(n)
  PROVE  TypeOK'
<1>1. CASE Crash(n)
  <2>1. lapses' \in SUBSET Lapse
    BY <1>1 DEF Crash, NoteLapse, Lapse, TypeOK
  <2> QED BY <1>1, <2>1 DEF Crash, TypeOK, mainVars, requestVars, cacheVars
<1>2. CASE CloseRing(n)
  <2>1. PICK b \in up : /\ rightID' = [rightID EXCEPT ![n] = b]
                       /\ leftID' = [leftID EXCEPT ![b] = n]
                       /\ closing' = [closing EXCEPT ![b] = "closed"]
    BY <1>2 DEF CloseRing
  <2>2. /\ rightID' \in [Node -> Node] /\ leftID' \in [Node -> Node]
        /\ closing' \in [Node -> {"no", "closed", "set"}]
    BY <2>1 DEF TypeOK
  <2> QED BY <1>2, <2>2 DEF CloseRing, TypeOK, mainVars, requestVars, cacheVars
<1>3. CASE SetSurvivors(n)
  <2>1. CachesOK'
    BY <1>3, ZombifyType DEF SetSurvivors, SetLiveNodes
  <2> QED BY <1>3, <2>1 DEF SetSurvivors, SetLiveNodes, TypeOK, CachesOK, mainVars, requestVars
<1>4. CASE AnnounceRebuilt(n)
  <2>1. <<[type |-> "NETWORK_REBUILT", sourceNode |-> n, nodeIDs |-> liveNodes[n]]>> \in Seq(Message)
    BY DEF Message, TypeOK
  <2>2. sendQueue' \in [Node -> Seq(Message)]
    BY <1>4, <2>1, SendType DEF AnnounceRebuilt
  <2> QED BY <1>4, <2>2 DEF AnnounceRebuilt, TypeOK, mainVars, requestVars, cacheVars
<1> QED BY <1>1, <1>2, <1>3, <1>4

\* The right neighbour of each node is the left one of somebody.
LEMMA LeftExists ==
  /\ [n \in Node |-> CHOOSE m \in Node : Right[m] = n] \in [Node -> Node]
  /\ \A m \in Node : [n \in Node |-> CHOOSE k \in Node : Right[k] = n][Right[m]] = m
<1>1. \A n \in Node : \E m \in Node : Right[m] = n
  <2> DEFINE S == {Right[m] : m \in Node}
  <2>1. S \in SUBSET Node /\ \A n \in S : Right[n] \in S
    BY RingAssumption
  <2>2. S # {}
    BY RecoveryAssumption
  <2> HIDE DEF S
  <2>3. S = Node
    BY <2>1, <2>2, RingAssumption
  <2> QED BY <2>3 DEF S
<1>2. \A n \in Node : /\ (CHOOSE m \in Node : Right[m] = n) \in Node
                      /\ Right[CHOOSE m \in Node : Right[m] = n] = n
  BY <1>1
<1>3. \A m \in Node : (CHOOSE k \in Node : Right[k] = Right[m]) = m
  BY <1>2, RingAssumption
<1> QED BY <1>2, <1>3, RingAssumption

LEMMA InitType == Init => TypeOK
<1> SUFFICES ASSUME Init
             PROVE  TypeOK
  OBVIOUS
<1>1. leftID \in [Node -> Node]
  BY LeftExists DEF Init
<1>2. IsCache(NoCopies)
  BY DEF IsCache, NoCopies
<1>3. /\ DOMAIN workAssignments = Node /\ DOMAIN zombieWork = Node
      /\ \A n \in Node : IsCache(workAssignments[n]) /\ IsCache(zombieWork[n])
  BY <1>2 DEF Init
<1>4. /\ closing \in [Node -> {"no", "closed", "set"}] /\ sendQueue \in [Node -> Seq(Message)]
      /\ issued \in [Node -> Nat] /\ workRequests \in [Node -> Seq(Node)]
      /\ work \in [Node -> SUBSET Units] /\ pc \in [Node -> {"dfs", "idle", "over"}]
      /\ liveNodes \in [Node -> SUBSET Node]
  BY DEF Init
<1> QED BY <1>1, <1>3, <1>4, RingAssumption DEF Init, TypeOK

LEMMA NextType == TypeOK /\ [Next]_vars => TypeOK'
<1> SUFFICES ASSUME TypeOK, [Next]_vars
             PROVE  TypeOK'
  OBVIOUS
<1>1. CASE UNCHANGED vars
  BY <1>1 DEF vars, ringVars, mainVars, requestVars, cacheVars, TypeOK
<1> QED BY <1>1, MainType, DeliverType, RepairType DEF Next, NodeStep

\* The state of work recovery keeps its type, for any number of deaths.
THEOREM TypeCorrect == Spec => []TypeOK
BY InitType, NextType, PTL DEF Spec

-----------------------------------------------------------------------------
(***************************************************************************)
(* The inductive invariant, for one death at most                          *)
(***************************************************************************)
Occurs(y, s) == \E i \in DOMAIN s : s[i] = y

OneDeath == up = Node \/ \E c \in Node : up = Node \ {c}

\* The ring as it was in the beginning, whether or not a node in it has died.
RingIntact ==
  /\ rightID = Right
  /\ \A m \in Node : leftID[Right[m]] = m
  /\ \A n \in Node : closing[n] = "no"
  /\ \A n \in Node : \A y : Occurs(y, sendQueue[n]) => y.type # "NETWORK_REBUILT"

\* All that have not crashed are one ring.
RingClosed ==
  /\ \A n \in up : rightID[n] \in up
  /\ \A m, n \in up : rightID[m] = rightID[n] => m = n
  /\ \A S \in SUBSET up : (S # {} /\ \A n \in S : rightID[n] \in S) => S = up

\* Nobody has died yet, so there are no zombies.
Untouched ==
  /\ RingIntact
  /\ \A n \in Node :
       /\ ~isZombifyingState[n]
       /\ DOMAIN zombieWork[n] = {}
       /\ pc[n] = "idle" => workRequestPending[n]
  /\ \A n \in Node : \A y : Occurs(y, sendQueue[n]) => y.type # "ZOMBIFY"

\* Who lives is known to be alive, also to those who read of it later.
AliveKnown ==
  /\ \A n \in up : up \subseteq liveNodes[n]
  /\ \A n \in up : \A y :
       Occurs(y, sendQueue[n]) /\ y.type = "NETWORK_REBUILT"
         => y.sourceNode \in up /\ up \subseteq y.nodeIDs

ZombifyBack ==
  \A n \in up : isZombifyingState[n] => \E m \in up : Occurs(Zombify(n), sendQueue[m])

\* The nodes of F are those from the one after p to b.
Stretch(F, p, b) ==
  /\ rightID[p] \in F /\ b \in F
  /\ \A x \in F \ {b} : x # p /\ rightID[x] \in F

\* A NETWORK_REBUILT on its way from p has still to pass all of F.
Approaches(F, p) ==
  \E y : Occurs(y, sendQueue[p]) /\ y.type = "NETWORK_REBUILT" /\ Stretch(F, p, y.sourceNode)

\* NETWORK_REBUILT has not reached n yet.
ToBeTold(n) ==
  \/ \E m \in up : rightID[m] \notin up
  \/ \E b \in up : closing[b] # "no"
  \/ \E p \in up : \E F \in SUBSET up : n \in F /\ Approaches(F, p)

\* What comes back to n, or goes to n only, and ends its wait.
Calls(n, y) ==
  /\ y.sourceNode = n
  /\ y.type \in {"WORK_REQUEST", "ZOMBIFY"} \/ (y.type = "WORK_ASSIGNMET" /\ y.asignee = n)

Called(n) ==
  \E m \in up : Occurs(n, workRequests[m]) \/ \E y : Occurs(y, sendQueue[m]) /\ Calls(n, y)

NobodyLost == \A n \in up : pc[n] = "idle" => Called(n) \/ (workRequestPending[n] /\ ToBeTold(n))

RecoveryInv ==
  /\ TypeOK
  /\ OneDeath
  /\ up = Node => Untouched
  /\ RingIntact \/ RingClosed
  /\ AliveKnown
  /\ ZombifyBack
  /\ NobodyLost

-----------------------------------------------------------------------------
(***************************************************************************)
(* What becomes of queued messages                                         *)
(***************************************************************************)
LEMMA OccursAppended ==
  ASSUME NEW S, NEW s \in Seq(S), NEW t \in Seq(S), NEW y
  PROVE  Occurs(y, s \o t) <=> Occurs(y, s) \/ Occurs(y, t)
<1>1. ASSUME Occurs(y, s \o t) PROVE Occurs(y, s) \/ Occurs(y, t)
  <2>1. PICK i \in 1..(Len(s) + Len(t)) : (s \o t)[i] = y
    BY <1>1 DEF Occurs
  <2>2. CASE i <= Len(s)
    BY <2>1, <2>2 DEF Occurs
  <2>3. CASE i > Len(s)
    <3>1. i - Len(s) \in DOMAIN t /\ t[i - Len(s)] = y
      BY <2>1, <2>3
    <3> QED BY <3>1 DEF Occurs
  <2> QED BY <2>1, <2>2, <2>3
<1>2. ASSUME Occurs(y, s) PROVE Occurs(y, s \o t)
  BY <1>2 DEF Occurs
<1>3. ASSUME Occurs(y, t) PROVE Occurs(y, s \o t)
  <2>1. PICK i \in 1..Len(t) : t[i] = y
    BY <1>3 DEF Occurs
  <2>2. i + Len(s) \in DOMAIN (s \o t) /\ (s \o t)[i + Len(s)] = y
    BY <2>1
  <2> QED BY <2>2 DEF Occurs
<1> QED BY <1>1, <1>2, <1>3

LEMMA OccursAdded ==
  ASSUME NEW S, NEW s \in Seq(S), NEW x \in S, NEW y
  PROVE  Occurs(y, Append(s, x)) <=> Occurs(y, s) \/ y = x
<1>1. /\ DOMAIN Append(s, x) = 1..(Len(s) + 1) /\ DOMAIN s = 1..Len(s) /\ Len(s) \in Nat
      /\ Append(s, x)[Len(s) + 1] = x
      /\ \A i \in 1..Len(s) : Append(s, x)[i] = s[i]
  OBVIOUS
<1>2. 1..(Len(s) + 1) = (1..Len(s)) \cup {Len(s) + 1}
  BY <1>1
<1> QED BY <1>1, <1>2 DEF Occurs

LEMMA OccursTail ==
  ASSUME NEW S, NEW s \in Seq(S), s # <<>>, NEW y
  PROVE  Occurs(y, s) <=> y = Head(s) \/ Occurs(y, Tail(s))
<1>1. ASSUME Occurs(y, s), y # Head(s) PROVE Occurs(y, Tail(s))
  <2>1. PICK i \in 1..Len(s) : s[i] = y
    BY <1>1 DEF Occurs
  <2>2. i - 1 \in DOMAIN Tail(s) /\ Tail(s)[i - 1] = y
    BY <1>1, <2>1
  <2> QED BY <2>2 DEF Occurs
<1>2. ASSUME Occurs(y, Tail(s)) PROVE Occurs(y, s)
  <2>1. PICK i \in 1..(Len(s) - 1) : Tail(s)[i] = y
    BY <1>2 DEF Occurs
  <2>2. i + 1 \in DOMAIN s /\ s[i + 1] = y
    BY <2>1
  <2> QED BY <2>2 DEF Occurs
<1>3. ASSUME y = Head(s) PROVE Occurs(y, s)
  <2>1. 1 \in DOMAIN s /\ s[1] = y
    BY <1>3
  <2> QED BY <2>1 DEF Occurs
<1> QED BY <1>1, <1>2, <1>3

LEMMA OccursOnce ==
  ASSUME NEW x, NEW y
  PROVE  /\ Occurs(y, <<x>>) <=> y = x
         /\ ~Occurs(y, <<>>)
BY DEF Occurs

LEMMA OccursTwice ==
  ASSUME NEW x, NEW z, NEW y
  PROVE  Occurs(y, <<x, z>>) <=> y = x \/ y = z
<1>1. DOMAIN <<x, z>> = {1, 2} /\ <<x, z>>[1] = x /\ <<x, z>>[2] = z
  OBVIOUS
<1> QED BY <1>1 DEF Occurs

LEMMA OccursHas ==
  ASSUME NEW S, NEW s \in Seq(S), NEW y, Occurs(y, s)
  PROVE  y \in S /\ s # <<>>
BY DEF Occurs

\* A queue that grows.
LEMMA QueuesGrow ==
  ASSUME TypeOK, NEW k \in Node, NEW msgs \in Seq(Message), Send(k, msgs)
  PROVE  \A n \in Node : \A y :
           Occurs(y, sendQueue'[n]) <=> Occurs(y, sendQueue[n]) \/ (n = k /\ Occurs(y, msgs))
<1> SUFFICES ASSUME NEW n \in Node, NEW y
             PROVE  Occurs(y, sendQueue'[n]) <=> Occurs(y, sendQueue[n]) \/ (n = k /\ Occurs(y, msgs))
  OBVIOUS
<1>1. sendQueue[n] \in Seq(Message)
  BY DEF TypeOK
<1>2. CASE n = k
  <2>1. sendQueue'[n] = sendQueue[n] \o msgs
    BY <1>2, SendType
  <2>2. Occurs(y, sendQueue[n] \o msgs) <=> Occurs(y, sendQueue[n]) \/ Occurs(y, msgs)
    BY <1>1, OccursAppended
  <2> QED BY <1>2, <2>1, <2>2
<1>3. CASE n # k
  BY <1>3, SendType
<1> QED BY <1>2, <1>3

\* A message that is handled: its queue loses it, the next one gets the answer.
Moved(m, msgs) ==
  \A n \in Node : \A y :
    /\ Occurs(y, sendQueue'[n]) => Occurs(y, sendQueue[n]) \/ (n = rightID[m] /\ Occurs(y, msgs))
    /\ Occurs(y, sendQueue[n]) => Occurs(y, sendQueue'[n]) \/ (n = m /\ y = msg(m))
    /\ Occurs(y, msgs) => Occurs(y, sendQueue'[rightID[m]])

LEMMA QueuesMove ==
  ASSUME TypeOK, NEW m \in Node, sendQueue[m] # <<>>, NEW msgs \in Seq(Message), Handled(m, msgs)
  PROVE  Moved(m, msgs)
<1> DEFINE r == rightID[m]
           t == Tail(sendQueue[m])
<1>1. r \in Node
  BY DEF TypeOK
<1>2. \A n \in Node : sendQueue[n] \in Seq(Message)
  BY DEF TypeOK
<1>3. t \in Seq(Message)
  BY <1>2
<1>4. /\ r # m => sendQueue'[m] = t /\ sendQueue'[r] = sendQueue[r] \o msgs
      /\ r = m => sendQueue'[m] = t \o msgs
      /\ \A n \in Node \ {m, r} : sendQueue'[n] = sendQueue[n]
  BY <1>1, HandledType
<1>5. \A y : Occurs(y, sendQueue[m]) <=> y = msg(m) \/ Occurs(y, t)
  BY <1>2, OccursTail DEF msg
<1>6. \A y : Occurs(y, t \o msgs) <=> Occurs(y, t) \/ Occurs(y, msgs)
  BY <1>3, OccursAppended
<1>7. \A y : Occurs(y, sendQueue[r] \o msgs) <=> Occurs(y, sendQueue[r]) \/ Occurs(y, msgs)
  BY <1>1, <1>2, OccursAppended
<1> HIDE DEF t
<1>8. CASE r = m
  <2>1. sendQueue'[m] = t \o msgs
    BY <1>4, <1>8
  <2>2. \A y : Occurs(y, sendQueue'[m]) <=> Occurs(y, t) \/ Occurs(y, msgs)
    BY <1>6, <2>1
  <2>3. \A n \in Node \ {m} : sendQueue'[n] = sendQueue[n]
    BY <1>4, <1>8
  <2> QED BY <1>5, <1>8, <2>2, <2>3 DEF Moved
<1>9. CASE r # m
  BY <1>1, <1>4, <1>5, <1>7, <1>9 DEF Moved
<1> QED BY <1>8, <1>9

-----------------------------------------------------------------------------
(***************************************************************************)
(* What the steps do to the queues                                         *)
(***************************************************************************)
Local(n) == Explore(n) \/ AssignWork(n) \/ DeclineRequest(n) \/ RunDry(n)

IsWork(y) == y.type \in {"WORK_REQUEST", "WORK_ASSIGNMET"}

LEMMA WorkMessagesWork ==
  ASSUME NEW n \in Node, NEW y \in WorkMessages(n)
  PROVE  IsWork(y) /\ Calls(n, y)
BY DEF WorkMessages, Request, Assignment, IsWork, Calls

\* The main thread adds requests and assignments to its own queue.
LEMMA LocalSends ==
  ASSUME TypeOK, NEW n \in Node, Local(n)
  PROVE  /\ UNCHANGED <<ringVars, liveNodes, isZombifyingState, zombieWork>>
         /\ \A k \in Node : \A y :
              /\ Occurs(y, sendQueue[k]) => Occurs(y, sendQueue'[k])
              /\ Occurs(y, sendQueue'[k]) => Occurs(y, sendQueue[k]) \/ IsWork(y)
<1>0. UNCHANGED <<ringVars, liveNodes, isZombifyingState, zombieWork>>
  BY DEF Local, Explore, AssignWork, DeclineRequest, RunDry, requestVars, cacheVars
<1>1. CASE Explore(n)
  BY <1>0, <1>1 DEF Explore
<1>2. ASSUME NEW msgs \in Seq(Message), Send(n, msgs), \A y : Occurs(y, msgs) => IsWork(y)
      PROVE  \A k \in Node : \A y :
               /\ Occurs(y, sendQueue[k]) => Occurs(y, sendQueue'[k])
               /\ Occurs(y, sendQueue'[k]) => Occurs(y, sendQueue[k]) \/ IsWork(y)
  BY <1>2, QueuesGrow
<1>3. CASE AssignWork(n)
  <2>1. PICK given \in SUBSET work[n], kept \in SUBSET work[n] :
          Send(n, <<Assignment(Head(workRequests[n]), Head(workRequests[n]), given, NoNode,
                               issued[Head(workRequests[n])] + 1),
                    Assignment(leftID[n], n, kept, NoNode, issued[n] + 1)>>)
    BY <1>3, SplitParts
  <2> DEFINE r == Head(workRequests[n])
             a == Assignment(r, r, given, NoNode, issued[r] + 1)
             k == Assignment(leftID[n], n, kept, NoNode, issued[n] + 1)
  <2>2. r \in Node /\ leftID[n] \in Node
    <3>1. workRequests[n] \in Seq(Node) /\ workRequests[n] # <<>>
      BY <1>3 DEF AssignWork, TypeOK
    <3> QED BY <3>1 DEF TypeOK
  <2>3. /\ given \in SUBSET Units /\ kept \in SUBSET Units
        /\ issued[r] + 1 \in Nat /\ issued[n] + 1 \in Nat
    <3>1. work[n] \in SUBSET Units /\ issued[r] \in Nat /\ issued[n] \in Nat
      BY <2>2, Zenon DEF TypeOK
    <3> QED BY <3>1
  <2>4. a \in Message /\ k \in Message
    BY <2>2, <2>3, MadeType
  <2>5. IsWork(a) /\ IsWork(k)
    BY DEF Assignment, IsWork
  <2>6. Send(n, <<a, k>>)
    BY <2>1
  <2> HIDE DEF a, k, r
  <2>7. <<a, k>> \in Seq(Message)
    BY <2>4
  <2>8. \A y : Occurs(y, <<a, k>>) => IsWork(y)
    BY <2>5, OccursTwice
  <2> QED BY <1>0, <1>2, <2>6, <2>7, <2>8
<1>4. CASE DeclineRequest(n)
  <2> DEFINE q == Request(Head(workRequests[n]))
  <2>1. q \in Message /\ IsWork(q)
    <3>1. workRequests[n] \in Seq(Node) /\ workRequests[n] # <<>>
      BY <1>4 DEF DeclineRequest, TypeOK
    <3> QED BY <3>1 DEF Request, Message, IsWork
  <2>2. Send(n, <<q>>)
    BY <1>4 DEF DeclineRequest
  <2> HIDE DEF q
  <2>3. <<q>> \in Seq(Message)
    BY <2>1
  <2>4. \A y : Occurs(y, <<q>>) => IsWork(y)
    BY <2>1, OccursOnce
  <2> QED BY <1>0, <1>2, <2>2, <2>3, <2>4
<1>5. CASE RunDry(n)
  <2>1. PICK q \in WorkMessages(n) : Send(n, <<q>>)
    BY <1>5 DEF RunDry
  <2>2. <<q>> \in Seq(Message)
    BY WorkMessagesType
  <2>3. \A y : Occurs(y, <<q>>) => IsWork(y)
    BY WorkMessagesWork, OccursOnce
  <2> QED BY <1>0, <1>2, <2>1, <2>2, <2>3
<1> QED BY <1>1, <1>3, <1>4, <1>5 DEF Local

\* What a handler at the right neighbour of m may send.
Makes(m, y) ==
  \/ y = msg(m)
  \/ IsWork(y)
  \/ y = Zombify(rightID[m]) /\ msg(m).type = "NETWORK_REBUILT"

LEMMA FurtherMakes ==
  ASSUME NEW m, NEW y, Occurs(y, Further(m))
  PROVE  y = msg(m) /\ ~originMe(m)
BY OccursOnce DEF Further

\* A handler takes a message from its queue and sends an answer or passes it on.
LEMMA DeliverMakes ==
  ASSUME TypeOK, NEW m \in Node, Deliver(m)
  PROVE  /\ UNCHANGED <<ringVars, issued, explored, splitSuccesful>>
         /\ m \in up /\ rightID[m] \in up /\ Occurs(msg(m), sendQueue[m])
         /\ \E msgs \in Seq(Message) :
              /\ Handled(m, msgs) /\ Moved(m, msgs)
              /\ \A y : Occurs(y, msgs) => Makes(m, y)
<1> DEFINE r == rightID[m]
<1>0. UNCHANGED <<ringVars, issued, explored, splitSuccesful>>
  BY DEF Deliver, DropDead, ReceiveDenial, ReceiveRequest, ReceiveAssignment, CacheAssignment,
         StrikeZombie, ReceiveRebuilt, ReceiveZombify, FinishZombify, requestVars, mainVars
<1>1. PICK types : Arrives(m, types)
  BY DEF Deliver, DropDead, ReceiveDenial, ReceiveRequest, ReceiveAssignment, CacheAssignment,
         StrikeZombie, ReceiveRebuilt, ReceiveZombify, FinishZombify
<1>2. /\ m \in up /\ r \in up /\ r \in Node
      /\ sendQueue[m] # <<>> /\ sendQueue[m] \in Seq(Message) /\ msg(m) \in Message
      /\ Further(m) \in Seq(Message) /\ <<>> \in Seq(Message)
  BY <1>1, ArrivesType, FurtherType
<1>3. Occurs(msg(m), sendQueue[m])
  BY <1>2, OccursTail DEF msg
<1>4. ASSUME NEW msgs \in Seq(Message), Handled(m, msgs), \A y : Occurs(y, msgs) => Makes(m, y)
      PROVE  \E s \in Seq(Message) :
               /\ Handled(m, s) /\ Moved(m, s)
               /\ \A y : Occurs(y, s) => Makes(m, y)
  BY <1>2, <1>4, QueuesMove
<1>5. CASE Handled(m, <<>>)
  <2>1. \A y : Occurs(y, <<>>) => Makes(m, y)
    BY OccursOnce
  <2> QED BY <1>0, <1>2, <1>3, <1>4, <1>5, <2>1
<1>6. CASE Handled(m, Further(m))
  <2>1. \A y : Occurs(y, Further(m)) => Makes(m, y)
    BY FurtherMakes DEF Makes
  <2> QED BY <1>0, <1>2, <1>3, <1>4, <1>6, <2>1
<1>7. CASE StrikeZombie(m)
  <2>1. PICK kept \in Message :
          /\ Handled(m, <<kept>>)
          /\ kept.type = "WORK_ASSIGNMET"
          /\ kept.sourceNode = msg(m).sourceNode /\ kept.asignee = msg(m).asignee
    BY <1>7, StrikeSends
  <2>2. msg(m).type = "WORK_ASSIGNMET"
    BY <1>7, StrikeSends
  <2>3. \A y : Occurs(y, <<kept>>) => Makes(m, y)
    <3>1. IsWork(kept)
      BY <2>1 DEF IsWork
    <3> QED BY <3>1, OccursOnce DEF Makes
  <2>4. <<kept>> \in Seq(Message)
    BY <2>1
  <2> QED BY <1>0, <1>2, <1>3, <1>4, <2>1, <2>3, <2>4
<1>8. CASE Handled(m, Further(m) \o <<Zombify(r)>>) /\ ReceiveRebuilt(m)
  <2>1. <<Zombify(r)>> \in Seq(Message)
    <3>1. Zombify(r) \in Message
      BY <1>2 DEF Zombify, Message
    <3> QED BY <3>1
  <2>2. Further(m) \o <<Zombify(r)>> \in Seq(Message)
    BY <1>2, <2>1
  <2>3. msg(m).type = "NETWORK_REBUILT"
    BY <1>8 DEF ReceiveRebuilt, Arrives
  <2>4. ASSUME NEW y, Occurs(y, Further(m) \o <<Zombify(r)>>)
        PROVE  Makes(m, y)
    <3>1. Occurs(y, Further(m)) \/ Occurs(y, <<Zombify(r)>>)
      BY <1>2, <2>1, <2>4, OccursAppended
    <3>2. Occurs(y, Further(m)) => y = msg(m)
      BY FurtherMakes
    <3>3. Occurs(y, <<Zombify(r)>>) => y = Zombify(r)
      BY OccursOnce
    <3> QED BY <2>3, <3>1, <3>2, <3>3 DEF Makes
  <2>5. \A y : Occurs(y, Further(m) \o <<Zombify(r)>>) => Makes(m, y)
    BY <2>4
  <2>6. Handled(m, Further(m) \o <<Zombify(r)>>)
    BY <1>8
  <2> HIDE DEF r
  <2> QED BY <1>0, <1>2, <1>3, <1>4, <2>2, <2>5, <2>6 DEF r
<1>9. CASE FinishZombify(m)
  <2>1. PICK q \in WorkMessages(r) : Handled(m, <<q>>)
    BY <1>9 DEF FinishZombify
  <2>2. <<q>> \in Seq(Message)
    BY <1>2, WorkMessagesType
  <2>3. IsWork(q)
    BY <1>2, WorkMessagesWork
  <2>4. \A y : Occurs(y, <<q>>) => Makes(m, y)
    BY <2>3, OccursOnce DEF Makes
  <2> QED BY <1>0, <1>2, <1>3, <1>4, <2>1, <2>2, <2>4
<1>10. \/ Handled(m, <<>>) \/ Handled(m, Further(m))
       \/ StrikeZombie(m)
       \/ Handled(m, Further(m) \o <<Zombify(r)>>) /\ ReceiveRebuilt(m)
       \/ FinishZombify(m)
  <2>1. DropDead(m) \/ ReceiveDenial(m) => Handled(m, <<>>)
    BY DEF DropDead, ReceiveDenial
  <2>2. ReceiveRequest(m) => Handled(m, <<>>) \/ Handled(m, Further(m))
    BY DEF ReceiveRequest
  <2>3. ReceiveAssignment(m) \/ CacheAssignment(m) \/ ReceiveZombify(m) => Handled(m, Further(m))
    BY DEF ReceiveAssignment, CacheAssignment, ReceiveZombify
  <2>4. ReceiveRebuilt(m) => \/ Handled(m, Further(m))
                             \/ Handled(m, Further(m) \o <<Zombify(r)>>)
    BY DEF ReceiveRebuilt
  <2> QED BY <2>1, <2>2, <2>3, <2>4 DEF Deliver
<1> QED BY <1>5, <1>6, <1>7, <1>8, <1>9, <1>10

-----------------------------------------------------------------------------
(***************************************************************************)
(* The ring                                                                *)
(***************************************************************************)
\* A second node does not die.
LEMMA CrashOnce ==
  ASSUME TypeOK, OneDeath, Crashes <= 1, NEW n \in Node, Crash(n)
  PROVE  up = Node /\ up' = Node \ {n}
<1>1. Crash(n) => Cardinality(Node \ up) < Crashes /\ up' = up \ {n}
  BY DEF Crash
<1>2. ASSUME NEW c \in Node, up = Node \ {c} PROVE FALSE
  <2>1. Node \ up = {c}
    BY <1>2
  <2>2. Cardinality(Node \ up) = 1
    BY <2>1, FS_Singleton
  <2> QED BY <1>1, <2>2, RecoveryAssumption
<1> QED BY <1>1, <1>2 DEF OneDeath

LEMMA IntactKept ==
  ASSUME TypeOK, RingIntact, NEW n \in Node, NodeStep(n), ~CloseRing(n)
  PROVE  RingIntact'
<1>1. CASE Local(n)
  <2>1. UNCHANGED <<rightID, leftID, closing>>
    BY <1>1, LocalSends DEF ringVars
  <2>2. \A k \in Node : \A y : Occurs(y, sendQueue'[k]) => Occurs(y, sendQueue[k]) \/ IsWork(y)
    BY <1>1, LocalSends
  <2> QED BY <2>1, <2>2 DEF RingIntact, IsWork
<1>2. CASE Deliver(n)
  <2>1. UNCHANGED <<rightID, leftID, closing>> /\ Occurs(msg(n), sendQueue[n])
    BY <1>2, DeliverMakes DEF ringVars
  <2>2. PICK msgs : Moved(n, msgs) /\ \A y : Occurs(y, msgs) => Makes(n, y)
    BY <1>2, DeliverMakes
  <2>3. \A y : Makes(n, y) => y.type # "NETWORK_REBUILT"
    BY <2>1 DEF Makes, IsWork, Zombify, RingIntact
  <2>4. \A k \in Node : \A y : Occurs(y, sendQueue'[k]) => Occurs(y, sendQueue[k]) \/ Occurs(y, msgs)
    BY <2>2 DEF Moved
  <2> QED BY <2>1, <2>2, <2>3, <2>4 DEF RingIntact
<1>3. CASE Crash(n)
  BY <1>3 DEF Crash, RingIntact
<1>4. ~SetSurvivors(n) /\ ~AnnounceRebuilt(n)
  BY DEF SetSurvivors, AnnounceRebuilt, RingIntact
<1> QED BY <1>1, <1>2, <1>3, <1>4 DEF NodeStep, Local

\* Nothing but a death or the end of a repair changes who is next to whom.
LEMMA LinksKept ==
  ASSUME TypeOK, NEW n \in Node, NodeStep(n), ~Crash(n), ~CloseRing(n)
  PROVE  UNCHANGED <<up, rightID, leftID>>
<1>1. CASE Local(n)
  BY <1>1, LocalSends DEF ringVars
<1>2. CASE Deliver(n)
  BY <1>2, DeliverMakes DEF ringVars
<1>3. CASE SetSurvivors(n)
  BY <1>3 DEF SetSurvivors
<1>4. CASE AnnounceRebuilt(n)
  BY <1>4 DEF AnnounceRebuilt
<1> QED BY <1>1, <1>2, <1>3, <1>4 DEF NodeStep, Local

LEMMA ClosedKept ==
  ASSUME TypeOK, RingClosed, NEW n \in Node, NodeStep(n), ~Crash(n)
  PROVE  RingClosed'
<1>1. ~CloseRing(n)
  BY DEF CloseRing, RingClosed, Running
<1>2. UNCHANGED <<up, rightID>>
  BY <1>1, LinksKept
<1> QED BY <1>2 DEF RingClosed

\* The neighbours of the dead node attach to each other.
LEMMA RingCloses ==
  ASSUME TypeOK, OneDeath, RingIntact, NEW m \in Node, CloseRing(m)
  PROVE  RingClosed'
<1>1. m \in up /\ rightID[m] \notin up
  BY DEF CloseRing, Running
<1>2. PICK b \in up : /\ leftID[b] = rightID[m]
                      /\ rightID' = [rightID EXCEPT ![m] = b]
                      /\ up' = up
  BY DEF CloseRing
<1> DEFINE c == Right[m]
<1>3. c \in Node /\ up = Node \ {c} /\ rightID = Right
  <2>1. rightID = Right /\ c \in Node
    BY RingAssumption DEF RingIntact
  <2>2. c \notin up
    BY <1>1, <2>1
  <2> HIDE DEF c
  <2> QED BY <2>1, <2>2 DEF OneDeath
<1>4. b = Right[c]
  <2>1. PICK k \in Node : Right[k] = b
    <3>1. b \in Node
      BY <1>2, <1>3
    <3> DEFINE S == {Right[k] : k \in Node}
    <3>2. S \in SUBSET Node /\ S # {} /\ \A k \in S : Right[k] \in S
      BY RingAssumption, RecoveryAssumption
    <3> HIDE DEF S
    <3>3. S = Node
      BY <3>2, RingAssumption
    <3> QED BY <3>1, <3>3 DEF S
  <2>2. leftID[b] = k
    BY <2>1 DEF RingIntact
  <2> QED BY <1>2, <1>3, <2>1, <2>2
<1>5. /\ rightID'[m] = b
      /\ \A n \in up \ {m} : rightID'[n] = Right[n] /\ Right[n] # c
  BY <1>1, <1>2, <1>3, RingAssumption
<1>6. \A n \in up : rightID'[n] \in up
  BY <1>2, <1>3, <1>5, RingAssumption
<1>7. \A k, n \in up : rightID'[k] = rightID'[n] => k = n
  BY <1>3, <1>4, <1>5, RingAssumption
<1>8. ASSUME NEW S \in SUBSET up, S # {}, \A n \in S : rightID'[n] \in S
      PROVE  S = up
  <2>1. CASE m \in S
    <3> DEFINE T == S \cup {c}
    <3>1. T \in SUBSET Node /\ T # {}
      BY <1>3
    <3>2. \A n \in T : Right[n] \in T
      BY <1>3, <1>4, <1>5, <1>8, <2>1
    <3> HIDE DEF T
    <3>3. T = Node
      BY <3>1, <3>2, RingAssumption
    <3> QED BY <1>3, <3>3 DEF T
  <2>2. CASE m \notin S
    <3>1. S \in SUBSET Node /\ \A n \in S : Right[n] \in S
      BY <1>3, <1>5, <1>8, <2>2
    <3>2. S = Node
      BY <1>8, <3>1, RingAssumption
    <3> QED BY <1>3, <3>2
  <2> QED BY <2>1, <2>2
<1> QED BY <1>2, <1>6, <1>7, <1>8 DEF RingClosed

LEMMA RingKept ==
  ASSUME TypeOK, OneDeath, up = Node => Untouched, RingIntact \/ RingClosed, Crashes <= 1,
         NEW n \in Node, NodeStep(n)
  PROVE  OneDeath' /\ (RingIntact \/ RingClosed)'
<1>1. CASE Crash(n)
  <2>1. up = Node /\ up' = Node \ {n}
    BY <1>1, CrashOnce
  <2>2. ~CloseRing(n)
    BY <2>1 DEF CloseRing, TypeOK
  <2>3. RingIntact
    BY <2>1 DEF Untouched
  <2> QED BY <2>1, <2>2, <2>3, IntactKept DEF OneDeath
<1>2. CASE CloseRing(n)
  <2>1. RingIntact
    BY <1>2 DEF CloseRing, RingClosed, Running
  <2>2. up' = up
    BY <1>2 DEF CloseRing
  <2> QED BY <1>2, <2>1, <2>2, RingCloses DEF OneDeath
<1>3. CASE ~Crash(n) /\ ~CloseRing(n)
  <2>1. OneDeath'
    BY <1>3, LinksKept DEF OneDeath
  <2> QED BY <1>3, <2>1, IntactKept, ClosedKept
<1> QED BY <1>1, <1>2, <1>3

-----------------------------------------------------------------------------
(***************************************************************************)
(* Who is known to be alive                                                *)
(***************************************************************************)
LEMMA AliveKept ==
  ASSUME TypeOK, OneDeath, up = Node => Untouched, AliveKnown, Crashes <= 1,
         NEW n \in Node, NodeStep(n)
  PROVE  AliveKnown'
<1>0. up \in SUBSET Node
  BY DEF TypeOK
<1>1. CASE Local(n)
  <2>1. UNCHANGED <<up, liveNodes>>
    BY <1>1, LocalSends DEF ringVars
  <2>2. \A k \in Node : \A y : Occurs(y, sendQueue'[k]) => Occurs(y, sendQueue[k]) \/ IsWork(y)
    BY <1>1, LocalSends
  <2> QED BY <1>0, <2>1, <2>2 DEF AliveKnown, IsWork
<1>2. CASE Deliver(n)
  <2> DEFINE r == rightID[n]
  <2>1. UNCHANGED up /\ n \in up /\ r \in up /\ Occurs(msg(n), sendQueue[n])
    BY <1>2, DeliverMakes DEF ringVars
  <2>2. PICK msgs : Moved(n, msgs) /\ \A y : Occurs(y, msgs) => Makes(n, y)
    BY <1>2, DeliverMakes
  <2>3. \A k \in up : up \subseteq liveNodes'[k]
    <3>1. CASE UNCHANGED liveNodes
      BY <3>1 DEF AliveKnown
    <3>2. CASE ReceiveRebuilt(n)
      <4>1. /\ liveNodes' = [liveNodes EXCEPT ![r] = msg(n).nodeIDs]
            /\ msg(n).type = "NETWORK_REBUILT"
        BY <3>2 DEF ReceiveRebuilt, SetLiveNodes, Arrives
      <4>2. up \subseteq msg(n).nodeIDs
        BY <2>1, <4>1 DEF AliveKnown
      <4>3. liveNodes \in [Node -> SUBSET Node]
        BY DEF TypeOK
      <4> QED BY <1>0, <4>1, <4>2, <4>3 DEF AliveKnown
    <3> QED
      BY <1>2, <3>1, <3>2
      DEF Deliver, DropDead, ReceiveDenial, ReceiveRequest, ReceiveAssignment, CacheAssignment,
          StrikeZombie, ReceiveZombify, FinishZombify
  <2>4. ASSUME NEW k \in up, NEW y, Occurs(y, sendQueue'[k]), y.type = "NETWORK_REBUILT"
        PROVE  y.sourceNode \in up /\ up \subseteq y.nodeIDs
    <3>1. k \in Node
      BY <1>0
    <3>2. Occurs(y, sendQueue[k]) \/ Occurs(y, msgs)
      BY <2>2, <2>4, <3>1 DEF Moved
    <3>3. Makes(n, y) => y = msg(n)
      BY <2>4 DEF Makes, IsWork, Zombify
    <3>4. Occurs(y, sendQueue[k]) \/ Occurs(y, sendQueue[n])
      BY <2>1, <2>2, <3>2, <3>3
    <3> QED BY <2>1, <2>4, <3>4 DEF AliveKnown
  <2> QED BY <2>1, <2>3, <2>4 DEF AliveKnown
<1>3. CASE Crash(n)
  <2>1. up = Node /\ up' = Node \ {n} /\ UNCHANGED <<liveNodes, sendQueue>>
    BY <1>3, CrashOnce DEF Crash
  <2>2. \A k \in Node : \A y : Occurs(y, sendQueue[k]) => y.type # "NETWORK_REBUILT"
    BY <2>1 DEF Untouched, RingIntact
  <2> QED BY <2>1, <2>2 DEF AliveKnown
<1>4. CASE CloseRing(n)
  BY <1>4 DEF CloseRing, AliveKnown
<1>5. CASE SetSurvivors(n)
  <2>1. liveNodes' = [liveNodes EXCEPT ![n] = up] /\ UNCHANGED <<up, sendQueue>>
    BY <1>5 DEF SetSurvivors, SetLiveNodes
  <2>2. liveNodes \in [Node -> SUBSET Node]
    BY DEF TypeOK
  <2> QED BY <1>0, <2>1, <2>2 DEF AliveKnown
<1>6. CASE AnnounceRebuilt(n)
  <2> DEFINE z == [type |-> "NETWORK_REBUILT", sourceNode |-> n, nodeIDs |-> liveNodes[n]]
  <2>1. Send(n, <<z>>) /\ UNCHANGED <<up, liveNodes>> /\ n \in up
    BY <1>6 DEF AnnounceRebuilt, Running
  <2>2. <<z>> \in Seq(Message)
    BY DEF Message, TypeOK
  <2>3. z.sourceNode \in up /\ up \subseteq z.nodeIDs
    BY <2>1 DEF AliveKnown
  <2> HIDE DEF z
  <2>4. \A k \in Node : \A y : Occurs(y, sendQueue'[k]) => Occurs(y, sendQueue[k]) \/ y = z
    BY <2>1, <2>2, QueuesGrow, OccursOnce
  <2> QED BY <1>0, <2>1, <2>3, <2>4 DEF AliveKnown
<1> QED BY <1>1, <1>2, <1>3, <1>4, <1>5, <1>6 DEF NodeStep, Local

\* Messages of nodes that live are not dropped.
LEMMA LiveHandled ==
  ASSUME TypeOK, AliveKnown, NEW m \in Node, Deliver(m), msg(m).sourceNode \in up
  PROVE  isAlive(m) /\ ~DropDead(m)
<1>1. rightID[m] \in up
  BY DeliverMakes
<1> QED BY <1>1 DEF isAlive, AliveKnown, DropDead

-----------------------------------------------------------------------------
(***************************************************************************)
(* Before anybody dies                                                     *)
(***************************************************************************)
LEMMA UntouchedKept ==
  ASSUME TypeOK, Untouched, up = Node, NEW n \in Node, NodeStep(n), ~Crash(n)
  PROVE  Untouched'
<1>0. RingIntact /\ ~CloseRing(n)
  BY DEF Untouched, CloseRing, TypeOK
<1>1. RingIntact'
  BY <1>0, IntactKept
<1>2. CASE Local(n)
  <2>1. UNCHANGED <<isZombifyingState, zombieWork>>
    BY <1>2, LocalSends
  <2>2. \A k \in Node : \A y : Occurs(y, sendQueue'[k]) => Occurs(y, sendQueue[k]) \/ IsWork(y)
    BY <1>2, LocalSends
  <2>3. \A k \in Node : pc'[k] = "idle" => workRequestPending'[k]
    <3>1. CASE RunDry(n)
      <4>1. PICK y \in WorkMessages(n) :
              workRequestPending' = [workRequestPending EXCEPT ![n] = y.type = "WORK_REQUEST"]
        BY <3>1 DEF RunDry
      <4>2. y.type = "WORK_REQUEST"
        BY DEF WorkMessages, Untouched, Request
      <4>3. /\ workRequestPending'[n]
            /\ \A k \in Node \ {n} : workRequestPending'[k] = workRequestPending[k]
        BY <4>1, <4>2 DEF TypeOK
      <4>4. \A k \in Node \ {n} : pc'[k] = pc[k]
        BY <3>1 DEF RunDry, TypeOK
      <4> QED BY <4>3, <4>4 DEF Untouched
    <3>2. CASE ~RunDry(n)
      <4>1. UNCHANGED <<pc, workRequestPending>>
        BY <1>2, <3>2 DEF Local, Explore, AssignWork, DeclineRequest, requestVars, mainVars
      <4> QED BY <4>1 DEF Untouched
    <3> QED BY <3>1, <3>2
  <2> QED BY <1>1, <2>1, <2>2, <2>3 DEF Untouched, IsWork
<1>3. CASE Deliver(n)
  <2> DEFINE r == rightID[n]
  <2>1. /\ r \in Node /\ Occurs(msg(n), sendQueue[n])
        /\ msg(n).type \notin {"NETWORK_REBUILT", "ZOMBIFY"}
    BY <1>0, <1>3, DeliverMakes DEF TypeOK, Untouched, RingIntact
  <2>2. PICK msgs : Moved(n, msgs) /\ \A y : Occurs(y, msgs) => Makes(n, y)
    BY <1>3, DeliverMakes
  <2>3. \A k \in Node : \A y : Occurs(y, sendQueue'[k]) => y.type # "ZOMBIFY"
    <3>1. \A y : Makes(n, y) => y.type # "ZOMBIFY"
      BY <2>1 DEF Makes, IsWork
    <3>2. \A k \in Node : \A y : Occurs(y, sendQueue'[k]) => Occurs(y, sendQueue[k]) \/ Occurs(y, msgs)
      BY <2>2 DEF Moved
    <3> QED BY <2>2, <3>1, <3>2 DEF Untouched
  <2>4. /\ \A k \in Node : /\ ~isZombifyingState'[k]
                           /\ DOMAIN zombieWork'[k] = {}
                           /\ pc'[k] = "idle" => workRequestPending'[k]
    <3>1. \A k \in Node : /\ ~isZombifyingState[k] /\ DOMAIN zombieWork[k] = {}
                          /\ pc[k] = "idle" => workRequestPending[k]
      BY DEF Untouched
    <3>2. /\ DOMAIN zombieWork = Node
          /\ pc \in [Node -> {"dfs", "idle", "over"}] /\ workRequestPending \in [Node -> BOOLEAN]
      BY DEF TypeOK
    <3>3. ~ReceiveRebuilt(n) /\ ~ReceiveZombify(n) /\ ~FinishZombify(n)
      BY <2>1 DEF ReceiveRebuilt, ReceiveZombify, FinishZombify, Arrives
    <3>4. CASE ReceiveDenial(n)
      <4>1. UNCHANGED <<isZombifyingState, zombieWork>>
        BY <3>4 DEF ReceiveDenial, cacheVars
      <4>2. CASE pc[r] = "idle"
        <5>1. pc' = [pc EXCEPT ![r] = "over"]
          BY <2>1, <3>1, <3>4, <4>2 DEF ReceiveDenial
        <5>2. \A k \in Node \ {r} : workRequestPending'[k] = workRequestPending[k]
          BY <3>2, <3>4 DEF ReceiveDenial
        <5> QED BY <2>1, <3>1, <3>2, <4>1, <5>1, <5>2
      <4>3. CASE pc[r] # "idle"
        <5>1. \A k \in Node : pc'[k] = pc[k]
          BY <3>2, <3>4, <4>3 DEF ReceiveDenial
        <5>2. \A k \in Node \ {r} : workRequestPending'[k] = workRequestPending[k]
          BY <3>2, <3>4 DEF ReceiveDenial
        <5> QED BY <3>1, <4>1, <4>3, <5>1, <5>2
      <4> QED BY <4>2, <4>3
    <3>5. CASE ReceiveAssignment(n)
      <4>1. UNCHANGED isZombifyingState
        BY <3>5 DEF ReceiveAssignment
      <4>2. /\ zombieWork' = [zombieWork EXCEPT ![r] = Without(@, {msg(n).zombie})]
            /\ pc' = [pc EXCEPT ![r] = IF @ = "idle" THEN "dfs" ELSE @]
            /\ workRequestPending' = [workRequestPending EXCEPT ![r] = FALSE]
        BY <2>1, <3>1, <3>5 DEF ReceiveAssignment
      <4>3. \A k \in Node : DOMAIN zombieWork'[k] = {}
        BY <2>1, <3>1, <3>2, <4>2 DEF Without
      <4>4. \A k \in Node : pc'[k] = "idle" => k # r /\ pc[k] = "idle"
        BY <2>1, <3>2, <4>2
      <4>5. \A k \in Node \ {r} : workRequestPending'[k] = workRequestPending[k]
        BY <3>2, <4>2
      <4> QED BY <3>1, <4>1, <4>3, <4>4, <4>5
    <3>6. CASE StrikeZombie(n)
      <4>1. UNCHANGED <<isZombifyingState, pc, workRequestPending>>
        BY <3>6 DEF StrikeZombie, requestVars, mainVars
      <4>2. zombieWork' = [zombieWork EXCEPT ![r] = Without(@, {msg(n).zombie})]
        BY <3>6 DEF StrikeZombie
      <4>3. \A k \in Node : DOMAIN zombieWork'[k] = {}
        BY <2>1, <3>1, <3>2, <4>2 DEF Without
      <4> QED BY <3>1, <4>1, <4>3
    <3>7. CASE DropDead(n) \/ ReceiveRequest(n) \/ CacheAssignment(n)
      <4>1. UNCHANGED <<isZombifyingState, pc, workRequestPending, zombieWork>>
        BY <3>7 DEF DropDead, ReceiveRequest, CacheAssignment, requestVars, mainVars, cacheVars
      <4> QED BY <3>1, <4>1
    <3> QED BY <1>3, <3>3, <3>4, <3>5, <3>6, <3>7 DEF Deliver
  <2> QED BY <1>1, <2>3, <2>4 DEF Untouched
<1>4. ~SetSurvivors(n) /\ ~AnnounceRebuilt(n)
  BY <1>0 DEF SetSurvivors, AnnounceRebuilt, RingIntact
<1> QED BY <1>0, <1>2, <1>3, <1>4 DEF NodeStep, Local

-----------------------------------------------------------------------------
(***************************************************************************)
(* ZOMBIFY comes back                                                      *)
(***************************************************************************)
LEMMA SentOn ==
  ASSUME TypeOK, NEW m \in Node, Deliver(m), NEW msgs \in Seq(Message), Handled(m, msgs),
         NEW y, Occurs(y, msgs)
  PROVE  Occurs(y, sendQueue'[rightID[m]])
<1>1. sendQueue[m] # <<>>
  <2>1. Occurs(msg(m), sendQueue[m]) /\ sendQueue[m] \in Seq(Message)
    BY DeliverMakes DEF TypeOK
  <2> QED BY <2>1, OccursHas
<1>2. Moved(m, msgs)
  BY <1>1, QueuesMove
<1> QED BY <1>2 DEF Moved, TypeOK

LEMMA PassedOn ==
  ASSUME TypeOK, NEW m \in Node, Deliver(m), Handled(m, Further(m)), ~originMe(m)
  PROVE  Occurs(msg(m), sendQueue'[rightID[m]])
<1>1. msg(m) \in Message
  <2>1. Occurs(msg(m), sendQueue[m]) /\ sendQueue[m] \in Seq(Message)
    BY DeliverMakes DEF TypeOK
  <2> QED BY <2>1, OccursHas
<1>2. Further(m) \in Seq(Message)
  BY <1>1, FurtherType
<1>3. Occurs(msg(m), Further(m))
  BY OccursOnce DEF Further
<1> QED BY <1>2, <1>3, SentOn

LEMMA TypeOfHandler ==
  ASSUME NEW m, Deliver(m), ~DropDead(m)
  PROVE  /\ msg(m).type = "WORK_REQUEST" => ReceiveDenial(m) \/ ReceiveRequest(m)
         /\ msg(m).type = "ZOMBIFY" => ReceiveZombify(m) \/ FinishZombify(m)
         /\ msg(m).type = "NETWORK_REBUILT" => ReceiveRebuilt(m)
         /\ msg(m).type = "WORK_ASSIGNMET" =>
              ReceiveAssignment(m) \/ CacheAssignment(m) \/ StrikeZombie(m)
BY DEF Deliver, ReceiveDenial, ReceiveRequest, ReceiveAssignment, CacheAssignment, StrikeZombie,
       ReceiveRebuilt, ReceiveZombify, FinishZombify, Arrives

\* Who finds its ZOMBIFY back at itself stops zombifying.
LEMMA ZombifyMoves ==
  ASSUME TypeOK, AliveKnown, NEW m \in Node, Deliver(m),
         NEW k \in up, msg(m) = Zombify(k), isZombifyingState'[k]
  PROVE  Occurs(Zombify(k), sendQueue'[rightID[m]])
<1>1. msg(m).type = "ZOMBIFY" /\ msg(m).sourceNode = k /\ ~DropDead(m)
  BY LiveHandled DEF Zombify
<1>2. ReceiveZombify(m) \/ FinishZombify(m)
  BY <1>1, TypeOfHandler
<1>3. ~FinishZombify(m)
  <2>1. rightID[m] \in Node /\ isZombifyingState \in [Node -> BOOLEAN]
    BY DEF TypeOK
  <2> QED BY <1>1, <2>1 DEF FinishZombify, originMe
<1>4. Handled(m, Further(m)) /\ ~originMe(m)
  BY <1>2, <1>3 DEF ReceiveZombify
<1> QED BY <1>4, PassedOn

LEMMA ZombifyKept ==
  ASSUME TypeOK, OneDeath, up = Node => Untouched, AliveKnown, ZombifyBack, Crashes <= 1,
         NEW n \in Node, NodeStep(n)
  PROVE  ZombifyBack'
<1>0. up \in SUBSET Node
  BY DEF TypeOK
<1>1. CASE Local(n)
  <2>1. UNCHANGED <<up, isZombifyingState>>
    BY <1>1, LocalSends DEF ringVars
  <2>2. \A k \in Node : \A y : Occurs(y, sendQueue[k]) => Occurs(y, sendQueue'[k])
    BY <1>1, LocalSends
  <2> QED BY <1>0, <2>1, <2>2 DEF ZombifyBack, Zombify
<1>2. CASE Deliver(n)
  <2> DEFINE r == rightID[n]
  <2>1. UNCHANGED up /\ n \in up /\ r \in up /\ r \in Node
    BY <1>2, DeliverMakes DEF ringVars, TypeOK
  <2>2. PICK msgs : Moved(n, msgs) /\ \A y : Occurs(y, msgs) => Makes(n, y)
    BY <1>2, DeliverMakes
  <2>3. SUFFICES ASSUME NEW k \in up, isZombifyingState'[k]
                 PROVE  \E p \in up : Occurs(Zombify(k), sendQueue'[p])
    BY <2>1 DEF ZombifyBack, Zombify
  <2>4. CASE ReceiveRebuilt(n) /\ informNetworkRebuild(r) /\ k = r
    <3>1. Handled(n, Further(n) \o <<Zombify(r)>>)
      BY <2>4 DEF ReceiveRebuilt
    <3>2. <<Zombify(r)>> \in Seq(Message)
      <4>1. Zombify(r) \in Message
        BY <2>1 DEF Zombify, Message
      <4> QED BY <4>1
    <3>3. Further(n) \in Seq(Message)
      <4>1. msg(n) \in Message
        BY <2>4, ArrivesType DEF ReceiveRebuilt
      <4> QED BY <4>1, FurtherType
    <3>4. Further(n) \o <<Zombify(r)>> \in Seq(Message)
      BY <3>2, <3>3
    <3>5. Occurs(Zombify(r), Further(n) \o <<Zombify(r)>>)
      BY <3>2, <3>3, OccursAppended, OccursOnce
    <3>6. Occurs(Zombify(r), sendQueue'[r])
      BY <1>2, <3>1, <3>4, <3>5, SentOn
    <3> QED BY <2>1, <2>4, <3>6
  <2>5. CASE ~(ReceiveRebuilt(n) /\ informNetworkRebuild(r) /\ k = r)
    <3>1. isZombifyingState[k]
      <4>1. k \in Node /\ isZombifyingState \in [Node -> BOOLEAN]
        BY <1>0 DEF TypeOK
      <4>2. ReceiveRebuilt(n) /\ informNetworkRebuild(r)
              => isZombifyingState' = [isZombifyingState EXCEPT ![r] = TRUE]
        BY DEF ReceiveRebuilt
      <4>3. FinishZombify(n) => isZombifyingState' = [isZombifyingState EXCEPT ![r] = FALSE]
        BY DEF FinishZombify
      <4>4. \/ ReceiveRebuilt(n) /\ informNetworkRebuild(r)
            \/ FinishZombify(n)
            \/ UNCHANGED isZombifyingState
        BY <1>2
        DEF Deliver, DropDead, ReceiveDenial, ReceiveRequest, ReceiveAssignment, CacheAssignment,
            StrikeZombie, ReceiveRebuilt, ReceiveZombify, requestVars
      <4> QED BY <2>1, <2>3, <2>5, <4>1, <4>2, <4>3, <4>4
    <3>2. PICK p \in up : Occurs(Zombify(k), sendQueue[p])
      BY <3>1 DEF ZombifyBack
    <3>3. Occurs(Zombify(k), sendQueue'[p]) \/ Zombify(k) = msg(n)
      BY <1>0, <2>2, <3>2 DEF Moved
    <3> QED BY <1>2, <2>1, <2>3, <3>3, ZombifyMoves
  <2> QED BY <2>4, <2>5
<1>3. CASE Crash(n)
  <2>1. up = Node /\ up' \subseteq Node /\ UNCHANGED isZombifyingState
    BY <1>3, CrashOnce DEF Crash, requestVars
  <2> QED BY <2>1 DEF Untouched, ZombifyBack
<1>4. CASE CloseRing(n)
  BY <1>4 DEF CloseRing, ZombifyBack, Zombify, requestVars
<1>5. CASE SetSurvivors(n)
  BY <1>5 DEF SetSurvivors, ZombifyBack, Zombify, requestVars
<1>6. CASE AnnounceRebuilt(n)
  <2> DEFINE z == [type |-> "NETWORK_REBUILT", sourceNode |-> n, nodeIDs |-> liveNodes[n]]
  <2>1. Send(n, <<z>>) /\ UNCHANGED <<up, isZombifyingState>>
    BY <1>6 DEF AnnounceRebuilt, requestVars
  <2>2. <<z>> \in Seq(Message)
    BY DEF Message, TypeOK
  <2> HIDE DEF z
  <2>3. \A k \in Node : \A y : Occurs(y, sendQueue[k]) => Occurs(y, sendQueue'[k])
    BY <2>1, <2>2, QueuesGrow
  <2> QED BY <1>0, <2>1, <2>3 DEF ZombifyBack, Zombify
<1> QED BY <1>1, <1>2, <1>3, <1>4, <1>5, <1>6 DEF NodeStep, Local

-----------------------------------------------------------------------------
(***************************************************************************)
(* Nobody waits for ever                                                   *)
(***************************************************************************)
\* Who is idle was so before, with the same request pending, or has just run dry.
LEMMA IdleKept ==
  ASSUME TypeOK, NEW n \in Node, NodeStep(n), NEW k \in Node, pc'[k] = "idle",
         ~(RunDry(n) /\ k = n)
  PROVE  pc[k] = "idle" /\ workRequestPending'[k] = workRequestPending[k]
<1>0. /\ pc \in [Node -> {"dfs", "idle", "over"}] /\ workRequestPending \in [Node -> BOOLEAN]
      /\ rightID[n] \in Node
  BY DEF TypeOK
<1>1. CASE RunDry(n)
  <2>1. k # n
    BY <1>1
  <2>2. pc'[k] = pc[k]
    BY <1>0, <1>1, <2>1 DEF RunDry
  <2>3. workRequestPending'[k] = workRequestPending[k]
    BY <1>0, <1>1, <2>1 DEF RunDry
  <2> QED BY <2>2, <2>3
<1>2. CASE Deliver(n)
  <2>1. CASE ReceiveDenial(n)
    <3>1. ~(~isZombifyingState[rightID[n]] /\ pc[rightID[n]] = "idle") \/ k # rightID[n]
      BY <1>0, <2>1 DEF ReceiveDenial
    <3>2. pc'[k] = pc[k]
      BY <1>0, <2>1, <3>1 DEF ReceiveDenial
    <3>3. workRequestPending'[k] = workRequestPending[k]
      BY <1>0, <2>1, <3>1 DEF ReceiveDenial
    <3> QED BY <3>2, <3>3
  <2>2. CASE ReceiveAssignment(n)
    <3>1. CASE isZombifyingState[rightID[n]]
      BY <2>2, <3>1 DEF ReceiveAssignment
    <3>2. CASE ~isZombifyingState[rightID[n]]
      <4>1. /\ pc' = [pc EXCEPT ![rightID[n]] = IF @ = "idle" THEN "dfs" ELSE @]
            /\ workRequestPending' = [workRequestPending EXCEPT ![rightID[n]] = FALSE]
        BY <2>2, <3>2 DEF ReceiveAssignment
      <4>2. k # rightID[n] /\ pc[k] = "idle"
        BY <1>0, <4>1
      <4>3. workRequestPending'[k] = workRequestPending[k]
        BY <1>0, <4>1, <4>2
      <4> QED BY <4>2, <4>3
    <3> QED BY <3>1, <3>2
  <2>3. CASE FinishZombify(n)
    <3>1. /\ pc' = [pc EXCEPT ![rightID[n]] = "over"]
          /\ workRequestPending' = [workRequestPending EXCEPT ![rightID[n]] = FALSE]
      BY <2>3 DEF FinishZombify
    <3>2. k # rightID[n] /\ pc[k] = "idle"
      BY <1>0, <3>1
    <3>3. workRequestPending'[k] = workRequestPending[k]
      BY <1>0, <3>1, <3>2
    <3> QED BY <3>2, <3>3
  <2> QED
    BY <1>2, <2>1, <2>2, <2>3
    DEF Deliver, DropDead, ReceiveRequest, CacheAssignment, StrikeZombie, ReceiveRebuilt,
        ReceiveZombify, requestVars, mainVars
<1> QED
  BY <1>1, <1>2
  DEF NodeStep, Explore, AssignWork, DeclineRequest, Crash, CloseRing, SetSurvivors,
      AnnounceRebuilt, requestVars, mainVars

\* Who still waits although the call for it has come back to it is zombifying.
LEMMA StillAwaits ==
  ASSUME TypeOK, ZombifyBack', NEW m \in Node, Deliver(m), ~DropDead(m),
         NEW k \in up, k = rightID[m], Calls(k, msg(m)), pc'[k] = "idle"
  PROVE  Called(k)'
<1>0. /\ pc \in [Node -> {"dfs", "idle", "over"}] /\ isZombifyingState \in [Node -> BOOLEAN]
      /\ k \in Node /\ up' = up
  BY DeliverMakes DEF TypeOK, ringVars
<1>1. originMe(m) /\ msg(m).type \in {"WORK_REQUEST", "ZOMBIFY", "WORK_ASSIGNMET"}
  BY DEF Calls, originMe
<1>2. ~ReceiveRequest(m) /\ ~ReceiveZombify(m)
  BY <1>1 DEF ReceiveRequest, ReceiveZombify
<1>3. ~FinishZombify(m)
  BY <1>0 DEF FinishZombify
<1>4. isZombifyingState'[k]
  <2>1. CASE msg(m).type = "WORK_REQUEST"
    <3>1. ReceiveDenial(m)
      BY <1>2, <2>1, TypeOfHandler
    <3> QED BY <1>0, <3>1 DEF ReceiveDenial
  <2>2. CASE msg(m).type = "WORK_ASSIGNMET"
    <3>1. msg(m).asignee = k
      BY <2>2 DEF Calls
    <3>2. ReceiveAssignment(m)
      BY <2>2, <3>1, TypeOfHandler DEF CacheAssignment, StrikeZombie
    <3> QED BY <1>0, <3>2 DEF ReceiveAssignment
  <2> QED BY <1>1, <1>2, <1>3, <2>1, <2>2, TypeOfHandler
<1>5. PICK p \in up : Occurs(Zombify(k), sendQueue'[p])
  BY <1>0, <1>4 DEF ZombifyBack, Zombify
<1>6. Calls(k, Zombify(k))
  BY DEF Calls, Zombify
<1> QED BY <1>0, <1>5, <1>6 DEF Called, Calls

\* The call for another node goes on.
LEMMA CallGoesOn ==
  ASSUME TypeOK, NEW m \in Node, Deliver(m), ~DropDead(m),
         NEW k \in Node, k # rightID[m], Calls(k, msg(m))
  PROVE  \/ Occurs(k, workRequests'[rightID[m]])
         \/ \E y : Occurs(y, sendQueue'[rightID[m]]) /\ Calls(k, y)
<1> DEFINE r == rightID[m]
<1>0. r \in Node /\ workRequests \in [Node -> Seq(Node)]
  BY DEF TypeOK
<1>1. /\ ~originMe(m) /\ msg(m).type \in {"WORK_REQUEST", "ZOMBIFY", "WORK_ASSIGNMET"}
      /\ msg(m).sourceNode = k
  BY DEF Calls, originMe
<1>2. ~ReceiveDenial(m) /\ ~FinishZombify(m)
  BY <1>1 DEF ReceiveDenial, FinishZombify
<1>3. CASE Handled(m, Further(m))
  BY <1>1, <1>3, PassedOn
<1>4. CASE msg(m).type = "WORK_REQUEST"
  <2>1. ReceiveRequest(m)
    BY <1>2, <1>4, TypeOfHandler
  <2>2. CASE workRequests' = [workRequests EXCEPT ![r] = Append(@, msg(m).sourceNode)]
    <3>1. workRequests'[r] = Append(workRequests[r], k)
      BY <1>0, <1>1, <2>2
    <3>2. workRequests[r] \in Seq(Node)
      BY <1>0
    <3>3. Occurs(k, Append(workRequests[r], k))
      BY <3>2, OccursAdded
    <3> QED BY <3>1, <3>3
  <2> QED BY <1>3, <2>1, <2>2 DEF ReceiveRequest
<1>5. CASE msg(m).type = "ZOMBIFY"
  <2>1. ReceiveZombify(m)
    BY <1>2, <1>5, TypeOfHandler
  <2> QED BY <1>3, <2>1 DEF ReceiveZombify
<1>6. CASE msg(m).type = "WORK_ASSIGNMET"
  <2>1. msg(m).asignee = k
    BY <1>6 DEF Calls
  <2>2. CacheAssignment(m) \/ StrikeZombie(m)
    BY <1>6, <2>1, TypeOfHandler DEF ReceiveAssignment
  <2>3. CASE CacheAssignment(m)
    BY <1>3, <2>3 DEF CacheAssignment
  <2>4. CASE StrikeZombie(m)
    <3>1. PICK y \in Message :
            /\ Handled(m, <<y>>)
            /\ y.type = "WORK_ASSIGNMET"
            /\ y.sourceNode = msg(m).sourceNode /\ y.asignee = msg(m).asignee
      BY <2>4, StrikeSends
    <3>2. PICK msgs \in Seq(Message) : Handled(m, msgs)
      BY DeliverMakes
    <3>3. <<y>> \in Seq(Message) /\ Occurs(y, <<y>>)
      BY <3>1, OccursOnce
    <3>4. Occurs(y, sendQueue'[r])
      BY <3>1, <3>3, SentOn
    <3> QED BY <1>1, <1>6, <2>1, <3>1, <3>4 DEF Calls
  <2> QED BY <2>2, <2>3, <2>4
<1> QED BY <1>1, <1>4, <1>5, <1>6

\* A request that a node keeps for later is answered or declined.
LEMMA RequestKept ==
  ASSUME TypeOK, NEW n \in Node, NodeStep(n), NEW k \in Node, NEW m \in Node,
         Occurs(k, workRequests[m])
  PROVE  \/ Occurs(k, workRequests'[m])
         \/ \E y : Occurs(y, sendQueue'[m]) /\ Calls(k, y)
<1>0. workRequests \in [Node -> Seq(Node)] /\ workRequests[m] \in Seq(Node) /\ workRequests[m] # <<>>
  <2>1. workRequests \in [Node -> Seq(Node)]
    BY DEF TypeOK
  <2> QED BY <2>1, OccursHas
<1>1. CASE (AssignWork(n) \/ DeclineRequest(n)) /\ m = n
  <2> DEFINE r == Head(workRequests[n])
  <2>1. r \in Node /\ workRequests' = [workRequests EXCEPT ![n] = Tail(@)]
    <3>1. r \in Node
      BY <1>0, <1>1
    <3>2. workRequests' = [workRequests EXCEPT ![n] = Tail(@)]
      BY <1>1 DEF AssignWork, DeclineRequest
    <3> QED BY <3>1, <3>2
  <2>2. k = r \/ Occurs(k, Tail(workRequests[n]))
    BY <1>0, <1>1, OccursTail
  <2>3. CASE Occurs(k, Tail(workRequests[n]))
    BY <1>0, <1>1, <2>1, <2>3
  <2>4. CASE k = r /\ AssignWork(n)
    <3>1. PICK given \in SUBSET work[n], kept \in SUBSET work[n] :
            Send(n, <<Assignment(r, r, given, NoNode, issued[r] + 1),
                      Assignment(leftID[n], n, kept, NoNode, issued[n] + 1)>>)
      BY <2>4, SplitParts
    <3> DEFINE a == Assignment(r, r, given, NoNode, issued[r] + 1)
               b == Assignment(leftID[n], n, kept, NoNode, issued[n] + 1)
    <3>2. leftID[n] \in Node /\ work[n] \in SUBSET Units /\ issued[r] \in Nat /\ issued[n] \in Nat
      BY <2>1, Zenon DEF TypeOK
    <3>3. /\ given \in SUBSET Units /\ kept \in SUBSET Units
          /\ issued[r] + 1 \in Nat /\ issued[n] + 1 \in Nat
      BY <3>2
    <3>4. a \in Message /\ b \in Message
      BY <2>1, <3>2, <3>3, MadeType
    <3>5. Calls(r, a)
      BY DEF Assignment, Calls
    <3>6. Send(n, <<a, b>>)
      BY <3>1
    <3> HIDE DEF a, b, r
    <3>7. <<a, b>> \in Seq(Message) /\ Occurs(a, <<a, b>>)
      BY <3>4, OccursTwice
    <3>8. Occurs(a, sendQueue'[n])
      BY <3>6, <3>7, QueuesGrow
    <3> QED BY <1>1, <2>4, <3>5, <3>8
  <2>5. CASE k = r /\ DeclineRequest(n)
    <3> DEFINE q == Request(r)
    <3>1. Send(n, <<q>>)
      BY <2>5 DEF DeclineRequest
    <3>2. q \in Message /\ Calls(r, q)
      BY <2>1 DEF Request, Message, Calls
    <3> HIDE DEF q
    <3>3. <<q>> \in Seq(Message) /\ Occurs(q, <<q>>)
      BY <3>2, OccursOnce
    <3>4. Occurs(q, sendQueue'[n])
      BY <3>1, <3>3, QueuesGrow
    <3> QED BY <1>1, <2>5, <3>2, <3>4
  <2> QED BY <1>1, <2>2, <2>3, <2>4, <2>5
<1>2. CASE (AssignWork(n) \/ DeclineRequest(n)) /\ m # n
  <2>1. workRequests'[m] = workRequests[m]
    BY <1>0, <1>2 DEF AssignWork, DeclineRequest
  <2> QED BY <2>1
<1>3. CASE ReceiveRequest(n)
  <2>1. CASE workRequests' = [workRequests EXCEPT ![rightID[n]] = Append(@, msg(n).sourceNode)]
    <3>1. CASE m = rightID[n]
      <4>1. msg(n).sourceNode \in Node
        <5>1. msg(n) \in Message
          BY <1>3, ArrivesType DEF ReceiveRequest
        <5> QED BY <5>1, Fields
      <4>2. workRequests'[m] = Append(workRequests[m], msg(n).sourceNode)
        BY <1>0, <2>1, <3>1
      <4>3. Occurs(k, Append(workRequests[m], msg(n).sourceNode))
        BY <1>0, <4>1, OccursAdded
      <4> QED BY <4>2, <4>3
    <3>2. CASE m # rightID[n]
      BY <1>0, <2>1, <3>2
    <3> QED BY <3>1, <3>2
  <2> QED BY <1>3, <2>1 DEF ReceiveRequest
<1>4. CASE UNCHANGED workRequests
  BY <1>4
<1> QED
  BY <1>1, <1>2, <1>3, <1>4
  DEF NodeStep, Explore, RunDry, Deliver, DropDead, ReceiveDenial, ReceiveAssignment,
      CacheAssignment, StrikeZombie, ReceiveRebuilt, ReceiveZombify, FinishZombify,
      Crash, CloseRing, SetSurvivors, AnnounceRebuilt, requestVars

\* What is queued stays queued until the next node handles it.
LEMMA QueuedKept ==
  ASSUME TypeOK, NEW n \in Node, NodeStep(n), NEW m \in Node, NEW y, Occurs(y, sendQueue[m])
  PROVE  Occurs(y, sendQueue'[m]) \/ (Deliver(n) /\ m = n /\ y = msg(n))
<1>1. CASE Local(n)
  BY <1>1, LocalSends
<1>2. CASE Deliver(n)
  <2>1. PICK msgs : Moved(n, msgs)
    BY <1>2, DeliverMakes
  <2> QED BY <1>2, <2>1 DEF Moved
<1>3. CASE AnnounceRebuilt(n)
  <2> DEFINE z == [type |-> "NETWORK_REBUILT", sourceNode |-> n, nodeIDs |-> liveNodes[n]]
  <2>1. Send(n, <<z>>)
    BY <1>3 DEF AnnounceRebuilt
  <2>2. <<z>> \in Seq(Message)
    BY DEF Message, TypeOK
  <2> HIDE DEF z
  <2> QED BY <2>1, <2>2, QueuesGrow
<1>4. CASE UNCHANGED sendQueue
  BY <1>4
<1> QED BY <1>1, <1>2, <1>3, <1>4 DEF NodeStep, Local, Crash, CloseRing, SetSurvivors

LEMMA CalledKept ==
  ASSUME TypeOK, AliveKnown, ZombifyBack', NEW n \in Node, NodeStep(n), ~Crash(n),
         NEW k \in up, Called(k), pc'[k] = "idle"
  PROVE  Called(k)'
<1>0. up \in SUBSET Node /\ up' = up
  <2>1. up' = up
    BY LocalSends, DeliverMakes
    DEF NodeStep, Local, CloseRing, SetSurvivors, AnnounceRebuilt, ringVars
  <2> QED BY <2>1 DEF TypeOK
<1>1. PICK m \in up : Occurs(k, workRequests[m]) \/ \E y : Occurs(y, sendQueue[m]) /\ Calls(k, y)
  BY DEF Called
<1>2. ASSUME NEW p \in up, Occurs(k, workRequests'[p]) \/ \E y : Occurs(y, sendQueue'[p]) /\ Calls(k, y)
      PROVE  Called(k)'
  BY <1>0, <1>2 DEF Called, Calls
<1>3. CASE Occurs(k, workRequests[m])
  <2>1. k \in Node /\ m \in Node
    BY <1>0
  <2> QED BY <1>2, <1>3, <2>1, RequestKept
<1>4. ASSUME NEW y, Occurs(y, sendQueue[m]), Calls(k, y)
      PROVE  Called(k)'
  <2>1. CASE Occurs(y, sendQueue'[m])
    BY <1>2, <1>4, <2>1
  <2>2. CASE Deliver(n) /\ y = msg(n)
    <3>1. msg(n).sourceNode = k
      BY <1>4, <2>2 DEF Calls
    <3>2. ~DropDead(n)
      BY <2>2, <3>1, LiveHandled
    <3>3. CASE k = rightID[n]
      BY <1>4, <2>2, <3>2, <3>3, StillAwaits
    <3>4. CASE k # rightID[n]
      <4>1. \/ Occurs(k, workRequests'[rightID[n]])
            \/ \E z : Occurs(z, sendQueue'[rightID[n]]) /\ Calls(k, z)
        BY <1>0, <1>4, <2>2, <3>2, <3>4, CallGoesOn
      <4>2. rightID[n] \in up
        BY <2>2, DeliverMakes
      <4> QED BY <1>2, <4>1, <4>2
    <3> QED BY <3>3, <3>4
  <2>3. m \in Node
    BY <1>0
  <2> QED BY <1>4, <2>1, <2>2, <2>3, QueuedKept
<1> QED BY <1>1, <1>3, <1>4

\* NETWORK_REBUILT moves one node on; what it has to pass shrinks by that node.
LEMMA StretchShrinks ==
  ASSUME TypeOK, RingClosed, NEW p \in up, NEW F \in SUBSET up, NEW b \in up, Stretch(F, p, b)
  PROVE  /\ rightID[p] = b => F = {b}
         /\ rightID[p] # b => Stretch(F \ {rightID[p]}, rightID[p], b)
<1> DEFINE r == rightID[p]
<1>1. r \in F /\ b \in F /\ \A x \in F \ {b} : x # p /\ rightID[x] \in F
  BY DEF Stretch
<1>2. \A x \in F \ {b} : rightID[x] # r
  BY <1>1 DEF RingClosed
<1>3. ASSUME r = b
      PROVE  F = {b}
  <2> DEFINE S == F \ {b}
  <2>1. S \in SUBSET up /\ \A x \in S : rightID[x] \in S
    BY <1>1, <1>2, <1>3
  <2>2. S # up
    OBVIOUS
  <2> HIDE DEF S
  <2>3. S = {}
    BY <2>1, <2>2 DEF RingClosed
  <2> QED BY <1>1, <2>3 DEF S
<1>4. ASSUME r # b
      PROVE  Stretch(F \ {r}, r, b)
  <2>1. r \in up
    BY <1>1
  <2>2. rightID[r] # r
    BY <1>1, <1>2, <1>4
  <2>3. rightID[r] \in F \ {r}
    BY <1>1, <1>4, <2>2
  <2> QED BY <1>1, <1>2, <1>4, <2>3 DEF Stretch
<1> QED BY <1>3, <1>4

\* When NETWORK_REBUILT passes a node that waits for an answer, ZOMBIFY goes out.
LEMMA ToldNow ==
  ASSUME TypeOK, NEW n \in Node, Deliver(n), ReceiveRebuilt(n),
         NEW k, k = rightID[n], workRequestPending[k]
  PROVE  Called(k)'
<1> DEFINE z == Zombify(k)
<1>1. /\ Handled(n, Further(n) \o <<z>>) /\ k \in up /\ k \in Node /\ up' = up
  BY DeliverMakes DEF ReceiveRebuilt, informNetworkRebuild, TypeOK, ringVars
<1>2. z \in Message /\ Calls(k, z)
  BY <1>1 DEF Zombify, Message, Calls
<1>3. Further(n) \in Seq(Message)
  <2>1. msg(n) \in Message
    BY ArrivesType DEF ReceiveRebuilt
  <2> QED BY <2>1, FurtherType
<1> HIDE DEF z
<1>4. <<z>> \in Seq(Message) /\ Occurs(z, <<z>>)
  BY <1>2, OccursOnce
<1>5. Further(n) \o <<z>> \in Seq(Message)
  BY <1>3, <1>4
<1>6. Occurs(z, Further(n) \o <<z>>)
  BY <1>3, <1>4, OccursAppended
<1>7. Occurs(z, sendQueue'[k])
  BY <1>1, <1>5, <1>6, SentOn
<1> QED BY <1>1, <1>2, <1>7 DEF Called, Calls

LEMMA ToldKept ==
  ASSUME TypeOK, RingIntact \/ RingClosed, AliveKnown, NEW n \in Node, NodeStep(n), ~Crash(n),
         NEW k \in up, ToBeTold(k), workRequestPending[k]
  PROVE  ToBeTold(k)' \/ Called(k)'
<1>0. up \in SUBSET Node /\ closing \in [Node -> {"no", "closed", "set"}]
  BY DEF TypeOK
<1>1. CASE CloseRing(n)
  <2>1. PICK b \in up : closing' = [closing EXCEPT ![b] = "closed"] /\ up' = up
    BY <1>1 DEF CloseRing
  <2>2. b \in up' /\ closing'[b] # "no"
    BY <1>0, <2>1
  <2> QED BY <2>2 DEF ToBeTold
<1>2. CASE SetSurvivors(n)
  <2>1. n \in up' /\ closing'[n] # "no"
    BY <1>0, <1>2 DEF SetSurvivors, Running
  <2> QED BY <2>1 DEF ToBeTold
<1>3. CASE AnnounceRebuilt(n)
  <2> DEFINE z == [type |-> "NETWORK_REBUILT", sourceNode |-> n, nodeIDs |-> liveNodes[n]]
  <2>1. Send(n, <<z>>) /\ UNCHANGED <<up, rightID>> /\ n \in up /\ closing[n] = "set"
    BY <1>3 DEF AnnounceRebuilt, Running
  <2>2. <<z>> \in Seq(Message)
    BY DEF Message, TypeOK
  <2>3. z.sourceNode = n /\ z.type = "NETWORK_REBUILT"
    OBVIOUS
  <2> HIDE DEF z
  <2>4. Occurs(z, sendQueue'[n])
    <3>1. Occurs(z, <<z>>)
      BY OccursOnce
    <3>2. Send(n, <<z>>)
      BY <2>1
    <3>3. \A j \in Node : \A y :
            Occurs(y, sendQueue'[j]) <=> Occurs(y, sendQueue[j]) \/ (j = n /\ Occurs(y, <<z>>))
      BY <2>2, <3>2, QueuesGrow
    <3> QED BY <3>1, <3>3
  <2>5. RingClosed
    BY <2>1 DEF RingIntact
  <2>6. Stretch(up, n, n)
    BY <2>1, <2>5 DEF Stretch, RingClosed
  <2>7. Approaches(up, n)'
    BY <2>1, <2>3, <2>4, <2>6 DEF Approaches, Stretch
  <2>8. up' = up
    BY <2>1
  <2> QED BY <2>1, <2>7, <2>8 DEF ToBeTold
<1>4. CASE Local(n) \/ Deliver(n)
  <2>1. UNCHANGED <<up, rightID, closing>>
    BY <1>4, LocalSends, DeliverMakes DEF ringVars
  <2>2. CASE (\E m \in up : rightID[m] \notin up) \/ (\E b \in up : closing[b] # "no")
    BY <2>1, <2>2 DEF ToBeTold
  <2>3. ASSUME NEW p \in up, NEW F \in SUBSET up, k \in F, Approaches(F, p)
        PROVE  ToBeTold(k)' \/ Called(k)'
    <3>1. PICK y : /\ Occurs(y, sendQueue[p]) /\ y.type = "NETWORK_REBUILT"
                   /\ Stretch(F, p, y.sourceNode)
      BY <2>3 DEF Approaches
    <3>2. CASE Occurs(y, sendQueue'[p])
      <4>1. Approaches(F, p)'
        BY <2>1, <3>1, <3>2 DEF Approaches, Stretch
      <4> QED BY <2>1, <2>3, <4>1 DEF ToBeTold
    <3>3. CASE Deliver(n) /\ p = n /\ y = msg(n)
      <4> DEFINE r == rightID[n]
                 b == y.sourceNode
      <4>1. b \in up /\ RingClosed
        BY <1>0, <3>1 DEF AliveKnown, RingIntact
      <4>2. ReceiveRebuilt(n) /\ r \in up
        BY <3>1, <3>3, <4>1, LiveHandled, TypeOfHandler, DeliverMakes
      <4>3. CASE k = r
        BY <3>3, <4>2, <4>3, ToldNow
      <4>4. CASE k # r
        <5>1. r # b /\ Stretch(F \ {r}, r, b)
          BY <2>3, <3>1, <3>3, <4>1, <4>4, StretchShrinks
        <5>2. Occurs(y, sendQueue'[r])
          <6>1. ~originMe(n)
            BY <3>3, <5>1 DEF originMe
          <6>2. Handled(n, Further(n)) => Occurs(y, sendQueue'[r])
            BY <3>3, <6>1, PassedOn
          <6>3. ASSUME Handled(n, Further(n) \o <<Zombify(r)>>)
                PROVE  Occurs(y, sendQueue'[r])
            <7>1. Zombify(r) \in Message /\ msg(n) \in Message
              BY <4>2, ArrivesType DEF ReceiveRebuilt, Zombify, Message, TypeOK
            <7>2. Further(n) \in Seq(Message) /\ Occurs(y, Further(n))
              BY <3>3, <6>1, <7>1, FurtherType, OccursOnce DEF Further
            <7>3. <<Zombify(r)>> \in Seq(Message)
              BY <7>1
            <7>4. Occurs(y, Further(n) \o <<Zombify(r)>>)
              BY <7>2, <7>3, OccursAppended
            <7>5. Further(n) \o <<Zombify(r)>> \in Seq(Message)
              BY <7>2, <7>3
            <7> QED BY <3>3, <6>3, <7>4, <7>5, SentOn
          <6> QED BY <4>2, <6>2, <6>3 DEF ReceiveRebuilt
        <5>3. Approaches(F \ {r}, r)'
          BY <2>1, <3>1, <5>1, <5>2 DEF Approaches, Stretch
        <5>4. k \in F \ {r} /\ F \ {r} \in SUBSET up /\ r \in up
          BY <2>3, <4>2, <4>4
        <5> QED BY <2>1, <5>3, <5>4 DEF ToBeTold
      <4> QED BY <4>3, <4>4
    <3>4. p \in Node
      BY <1>0
    <3> QED BY <3>1, <3>2, <3>3, <3>4, QueuedKept
  <2> QED BY <2>2, <2>3 DEF ToBeTold
<1> QED BY <1>1, <1>2, <1>3, <1>4 DEF NodeStep, Local

LEMMA LostKept ==
  ASSUME RecoveryInv, ZombifyBack', Crashes <= 1, NEW n \in Node, NodeStep(n)
  PROVE  NobodyLost'
<1>0. TypeOK /\ OneDeath /\ (up = Node => Untouched) /\ (RingIntact \/ RingClosed) /\ AliveKnown
      /\ NobodyLost /\ up \in SUBSET Node
  BY DEF RecoveryInv, TypeOK
<1>1. CASE Crash(n)
  <2>1. up = Node /\ up' = Node \ {n} /\ UNCHANGED <<pc, workRequestPending, rightID>>
    BY <1>0, <1>1, CrashOnce DEF Crash, mainVars, requestVars
  <2>2. PICK m \in Node : Right[m] = n
    <3> DEFINE S == {Right[k] : k \in Node}
    <3>1. S \in SUBSET Node /\ S # {} /\ \A k \in S : Right[k] \in S
      BY RingAssumption, RecoveryAssumption
    <3> HIDE DEF S
    <3>2. S = Node
      BY <3>1, RingAssumption
    <3> QED BY <3>2 DEF S
  <2>3. m \in up' /\ rightID'[m] \notin up'
    BY <1>0, <2>1, <2>2, RingAssumption DEF Untouched, RingIntact
  <2>4. \A k \in up' : ToBeTold(k)'
    BY <2>3 DEF ToBeTold
  <2>5. \A k \in up' : pc'[k] = "idle" => workRequestPending'[k]
    BY <1>0, <2>1 DEF Untouched
  <2> QED BY <2>4, <2>5 DEF NobodyLost
<1>2. CASE ~Crash(n)
  <2>1. up' = up
    BY <1>0, <1>2, LocalSends, DeliverMakes
    DEF NodeStep, Local, CloseRing, SetSurvivors, AnnounceRebuilt, ringVars
  <2>2. ASSUME NEW k \in up, pc'[k] = "idle"
        PROVE  Called(k)' \/ (workRequestPending'[k] /\ ToBeTold(k)')
    <3>1. CASE RunDry(n) /\ k = n
      <4>1. PICK y \in WorkMessages(n) : Send(n, <<y>>)
        BY <3>1 DEF RunDry
      <4>2. <<y>> \in Seq(Message) /\ Occurs(y, <<y>>)
        BY <1>0, WorkMessagesType, OccursOnce
      <4>3. Occurs(y, sendQueue'[n])
        BY <1>0, <4>1, <4>2, QueuesGrow
      <4>4. Calls(n, y)
        BY WorkMessagesWork
      <4> QED BY <2>1, <3>1, <4>3, <4>4 DEF Called, Calls
    <3>2. CASE ~(RunDry(n) /\ k = n)
      <4>1. pc[k] = "idle" /\ workRequestPending'[k] = workRequestPending[k]
        <5>1. k \in Node
          BY <1>0
        <5> QED BY <1>0, <2>2, <3>2, <5>1, IdleKept
      <4>2. Called(k) \/ (workRequestPending[k] /\ ToBeTold(k))
        BY <1>0, <4>1 DEF NobodyLost
      <4>3. CASE Called(k)
        BY <1>0, <1>2, <2>2, <4>3, CalledKept
      <4>4. CASE workRequestPending[k] /\ ToBeTold(k)
        BY <1>0, <1>2, <4>1, <4>4, ToldKept
      <4> QED BY <4>2, <4>3, <4>4
    <3> QED BY <3>1, <3>2
  <2> QED BY <2>1, <2>2 DEF NobodyLost
<1> QED BY <1>1, <1>2

-----------------------------------------------------------------------------
(***************************************************************************)
(* The theorems                                                            *)
(***************************************************************************)
LEMMA InitRecovery == Init => RecoveryInv
<1> SUFFICES ASSUME Init
             PROVE  RecoveryInv
  OBVIOUS
<1>1. TypeOK
  BY InitType
<1>2. \A n \in Node : \A y : ~Occurs(y, sendQueue[n])
  BY DEF Init, Occurs
<1>3. RingIntact
  <2>1. \A m \in Node : leftID[Right[m]] = m
    BY LeftExists DEF Init
  <2> QED BY <1>2, <2>1 DEF Init, RingIntact
<1>4. Untouched
  BY <1>2, <1>3 DEF Init, Untouched, NoCopies
<1>5. AliveKnown /\ ZombifyBack /\ NobodyLost
  BY <1>2 DEF Init, AliveKnown, ZombifyBack, NobodyLost
<1>6. OneDeath
  BY DEF Init, OneDeath
<1> QED BY <1>1, <1>3, <1>4, <1>5, <1>6 DEF RecoveryInv

LEMMA NextRecovery ==
  ASSUME Crashes <= 1, RecoveryInv, [Next]_vars
  PROVE  RecoveryInv'
<1>1. CASE Next
  <2>1. PICK n \in Node : NodeStep(n)
    BY <1>1 DEF Next
  <2>2. /\ TypeOK /\ OneDeath /\ (up = Node => Untouched) /\ (RingIntact \/ RingClosed)
        /\ AliveKnown /\ ZombifyBack
    BY DEF RecoveryInv
  <2>3. TypeOK'
    BY <2>2, NextType
  <2>4. OneDeath' /\ (RingIntact \/ RingClosed)'
    BY <2>1, <2>2, RingKept
  <2>5. AliveKnown'
    BY <2>1, <2>2, AliveKept
  <2>6. ZombifyBack'
    BY <2>1, <2>2, ZombifyKept
  <2>7. NobodyLost'
    BY <2>1, <2>6, LostKept
  <2>8. (up = Node => Untouched)'
    <3>1. CASE Crash(n)
      BY <2>1, <2>2, <3>1, CrashOnce
    <3>2. CASE ~Crash(n)
      <4>1. up' = up
        BY <2>1, <2>2, <3>2, LocalSends, DeliverMakes
        DEF NodeStep, Local, CloseRing, SetSurvivors, AnnounceRebuilt, ringVars
      <4> QED BY <2>1, <2>2, <3>2, <4>1, UntouchedKept
    <3> QED BY <3>1, <3>2
  <2> QED BY <2>3, <2>4, <2>5, <2>6, <2>7, <2>8 DEF RecoveryInv
<1>2. CASE UNCHANGED vars
  <2>1. UNCHANGED <<up, rightID, leftID, closing, sendQueue, liveNodes, pc, workRequests,
                    workRequestPending, isZombifyingState, zombieWork>>
    BY <1>2 DEF vars, ringVars, mainVars, requestVars, cacheVars
  <2>2. TypeOK'
    BY NextType DEF RecoveryInv
  <2>3. (OneDeath /\ AliveKnown /\ ZombifyBack)'
    BY <2>1 DEF RecoveryInv, OneDeath, AliveKnown, ZombifyBack, Zombify
  <2>4. /\ (RingIntact \/ RingClosed)'
        /\ (up = Node => Untouched)'
    BY <2>1 DEF RecoveryInv, RingIntact, RingClosed, Untouched
  <2>5. \A k \in up : Called(k) => Called(k)'
    BY <2>1 DEF Called, Calls
  <2>6. \A k \in up : ToBeTold(k) => ToBeTold(k)'
    BY <2>1 DEF ToBeTold, Approaches, Stretch
  <2>7. NobodyLost'
    BY <2>1, <2>5, <2>6 DEF RecoveryInv, NobodyLost
  <2> QED BY <2>2, <2>3, <2>4, <2>7 DEF RecoveryInv
<1> QED BY <1>1, <1>2

LEMMA CalledAwaits ==
  ASSUME TypeOK, NEW n, Called(n)
  PROVE  Awaits(n)
<1>1. PICK m \in up : Occurs(n, workRequests[m]) \/ \E y : Occurs(y, sendQueue[m]) /\ Calls(n, y)
  BY DEF Called
<1>2. ASSUME NEW y, Occurs(y, sendQueue[m]), Calls(n, y)
      PROVE  y \in InTransit(m) /\ y.sourceNode = n /\ y.type # "NETWORK_REBUILT"
  BY <1>2 DEF Occurs, Calls, InTransit
<1> QED BY <1>1, <1>2 DEF Awaits, Occurs

LEMMA ToldRepairing ==
  ASSUME NEW n, ToBeTold(n)
  PROVE  Repairing
BY DEF ToBeTold, Approaches, Occurs, Repairing, Sent

LEMMA RecoverySafe == RecoveryInv => ZombifyReturns /\ NobodyForgotten
<1> SUFFICES ASSUME RecoveryInv
             PROVE  ZombifyReturns /\ NobodyForgotten
  OBVIOUS
<1>1. ZombifyReturns
  BY DEF RecoveryInv, ZombifyBack, ZombifyReturns, Occurs, InTransit
<1>2. NobodyForgotten
  BY CalledAwaits, ToldRepairing DEF RecoveryInv, NobodyLost, NobodyForgotten
<1> QED BY <1>1, <1>2

\* One node may die, any one that may, at any moment: the ZOMBIFY that ends a
\* node's zombifying (Synchronization.cpp:819) still comes back to it.
THEOREM ZombifyReturnsAlways == Crashes <= 1 => (Spec => []ZombifyReturns)
<1> SUFFICES ASSUME Crashes <= 1
             PROVE  Spec => []ZombifyReturns
  OBVIOUS
<1>1. Init => RecoveryInv
  BY InitRecovery
<1>2. RecoveryInv /\ [Next]_vars => RecoveryInv'
  BY NextRecovery
<1>3. RecoveryInv => ZombifyReturns
  BY RecoverySafe
<1> QED BY <1>1, <1>2, <1>3, PTL DEF Spec

\* One node may die: whoever waits for work has its request, its claim, an
\* answer or ZOMBIFY under way, or will be told to start over.
THEOREM NobodyForgottenAlways == Crashes <= 1 => (Spec => []NobodyForgotten)
<1> SUFFICES ASSUME Crashes <= 1
             PROVE  Spec => []NobodyForgotten
  OBVIOUS
<1>1. Init => RecoveryInv
  BY InitRecovery
<1>2. RecoveryInv /\ [Next]_vars => RecoveryInv'
  BY NextRecovery
<1>3. RecoveryInv => NobodyForgotten
  BY RecoverySafe
<1> QED BY <1>1, <1>2, <1>3, PTL DEF Spec

=============================================================================
