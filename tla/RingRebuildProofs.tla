--------------------------- MODULE RingRebuildProofs ---------------------------
EXTENDS RingRebuild, TLAPS

-----------------------------------------------------------------------------
(***************************************************************************)
(* Types                                                                   *)
(***************************************************************************)
LEMMA InitType == Init => TypeOK
<1> SUFFICES ASSUME Init PROVE TypeOK
  OBVIOUS
<1>1. leftID \in [Node -> Node]
  <2>1. \A n \in Node : \E m \in Node : Right[m] = n
    <3> SUFFICES ASSUME NEW n \in Node PROVE \E m \in Node : Right[m] = n
      OBVIOUS
    <3> DEFINE S == {Right[m] : m \in Node}
    <3>1. S \in SUBSET Node /\ S # {} /\ \A k \in S : Right[k] \in S
      BY RingAssumption
    <3>2. S = Node
      BY <3>1, RingAssumption
    <3> QED BY <3>2
  <2> QED BY <2>1 DEF Init
<1>2. sender \in [Node -> Sender]
  BY DEF Init, Polling, Sender
<1>3. rebuildData \in [Node -> Report]
  BY DEF Init, Report
<1>4. sendQueue \in [Node -> Seq(QueueItem)]
  BY DEF Init
<1> QED BY <1>1, <1>2, <1>3, <1>4, RingAssumption DEF Init, TypeOK

\* What a send thread that is at some place holds.
LEMMA SenderFields ==
  ASSUME TypeOK, NEW n \in Node
  PROVE  /\ sender[n].at \in {"poll", "closing", "sending", "called", "reporting"}
         /\ sender[n].at \in {"sending", "called", "reporting"}
              => sender[n].current \in QueueItem /\ sender[n] = [at |-> sender[n].at, current |-> sender[n].current]
         /\ sender[n].at = "poll" => sender[n] = Polling
BY DEF TypeOK, Sender, Polling

LEMMA SenderTypes ==
  ASSUME TypeOK, NEW n \in Node
  PROVE  /\ \A item \in QueueItem : [at |-> "sending", current |-> item] \in Sender
         /\ Polling \in Sender /\ [at |-> "closing"] \in Sender
         /\ sender[n].at \in {"sending", "called", "reporting"}
              => \A place \in {"sending", "called", "reporting"} :
                    /\ [sender[n] EXCEPT !.at = place] = [at |-> place, current |-> sender[n].current]
                    /\ [sender[n] EXCEPT !.at = place] \in Sender
<1>1. /\ \A item \in QueueItem : [at |-> "sending", current |-> item] \in Sender
      /\ Polling \in Sender /\ [at |-> "closing"] \in Sender
  BY DEF Sender, Polling
<1>2. ASSUME sender[n].at \in {"sending", "called", "reporting"},
             NEW place \in {"sending", "called", "reporting"}
      PROVE  /\ [sender[n] EXCEPT !.at = place] = [at |-> place, current |-> sender[n].current]
             /\ [sender[n] EXCEPT !.at = place] \in Sender
  <2>1. /\ sender[n].current \in QueueItem
        /\ sender[n] = [at |-> sender[n].at, current |-> sender[n].current]
    BY <1>2, SenderFields
  <2> QED BY <1>2, <2>1 DEF Sender
<1> QED BY <1>1, <1>2

\* A boomerang or a report in a queue is what it says.
LEMMA ItemFields ==
  ASSUME NEW item \in QueueItem
  PROVE  /\ item.item \in {"Boomerang", "NodeDied", "Abort"}
         /\ item.item = "Boomerang" => item.data \in Boomerang
         /\ item.item = "NodeDied" => item.data \in Report
BY DEF QueueItem, Right_Boomerang, Left_NodeDied, Right_AbortingBoomerang

LEMMA RebuiltFields ==
  ASSUME NEW msg \in Boomerang, msg.type = "NETWORK_REBUILT"
  PROVE  msg.nodeIDs \in SUBSET Node /\ msg.compIDs \in SUBSET Comp
BY DEF Boomerang

LEMMA EnqueueType ==
  ASSUME TypeOK, NEW n \in Node, NEW item \in QueueItem, Enqueue(n, item)
  PROVE  sendQueue' \in [Node -> Seq(QueueItem)]
BY DEF Enqueue, TypeOK

LEMMA PassOnType ==
  ASSUME TypeOK, NEW n \in Node, sender[n].at \in {"sending", "called", "reporting"}, PassOn(n)
  PROVE  sendQueue' \in [Node -> Seq(QueueItem)]
<1>1. rightID[n] \in Node /\ sender[n].current \in QueueItem
  BY SenderFields DEF TypeOK
<1> QED BY <1>1, EnqueueType DEF PassOn, TypeOK

LEMMA GatheredType ==
  ASSUME NEW n \in Node, NEW report \in Report
  PROVE  /\ Gathered(n, report) \in Report
         /\ Left_NodeDied(Gathered(n, report)) \in QueueItem
<1>1. currentID[n] \in Comp
  BY RebuildAssumption
<1>2. Gathered(n, report) \in Report
  BY <1>1 DEF Gathered, Report
<1>3. \A r \in Report : Left_NodeDied(r) \in QueueItem
  BY DEF QueueItem
<1> QED BY <1>2, <1>3

LEMMA NodeDiedType ==
  ASSUME TypeOK, NEW m \in Node, NEW report \in Report, NodeDied(m, report)
  PROVE  /\ sendQueue' \in [Node -> Seq(QueueItem)]
         /\ rebuildData' \in [Node -> Report]
<1>1. Gathered(m, report) \in Report /\ Left_NodeDied(Gathered(m, report)) \in QueueItem
  BY GatheredType
<1> QED BY <1>1, EnqueueType DEF NodeDied, TypeOK

\* The report a node makes itself.
FirstReport(n) == [reportNodeID |-> n, liveNodes |-> {n}, liveCompIDs |-> {currentID[n]}]

LEMMA FirstReportType == \A n \in Node : FirstReport(n) \in Report
BY RebuildAssumption DEF FirstReport, Report

LEMMA SetSurvivorsType ==
  ASSUME TypeOK, NEW r \in Node, NEW nodeIDs \in SUBSET Node, NEW compIDs, SetSurvivors(r, nodeIDs, compIDs)
  PROVE  liveNodes' \in [Node -> SUBSET Node] /\ data' \in [Node -> SUBSET Comp]
BY DEF SetSurvivors, TypeOK

LEMMA NextType == TypeOK /\ [Next]_vars => TypeOK'
<1> SUFFICES ASSUME TypeOK, [Next]_vars
             PROVE  TypeOK'
  OBVIOUS
<1>0. CASE UNCHANGED vars
  BY <1>0 DEF vars, netVars, repoVars, historyVars, TypeOK
<1> SUFFICES ASSUME NEW n \in Node, Crash(n) \/ Ping(n) \/ Announce(n) \/ SendStep(n)
             PROVE  TypeOK'
  BY <1>0 DEF Next
<1>1. CASE Crash(n)
  BY <1>1 DEF Crash, netVars, repoVars, TypeOK, Repairing
<1>2. CASE Ping(n) \/ Announce(n)
  <2>1. \A type \in {"PING", "RESULT"} : Right_Boomerang([type |-> type, sourceNode |-> n]) \in QueueItem
    BY DEF QueueItem, Boomerang
  <2>2. sendQueue' \in [Node -> Seq(QueueItem)]
    BY <1>2, <2>1, EnqueueType DEF Ping, Announce
  <2>3. announced' \in SUBSET Node
    BY <1>2, RebuildAssumption DEF Ping, Announce, historyVars, TypeOK
  <2> QED BY <1>2, <2>2, <2>3 DEF Ping, Announce, netVars, repoVars, historyVars, TypeOK
<1>3. CASE Pop(n)
  <2>1. Head(sendQueue[n]) \in QueueItem /\ Tail(sendQueue[n]) \in Seq(QueueItem)
    BY <1>3 DEF Pop, TypeOK
  <2> QED BY <1>3, <2>1, SenderTypes DEF Pop, netVars, repoVars, historyVars, TypeOK
<1>4. CASE CallPing(n) \/ CallResult(n) \/ CallNetworkRebuilt(n)
  <2>1. sender[n].at = "sending" /\ sender' = [sender EXCEPT ![n] = [sender[n] EXCEPT !.at = "called"]]
    BY <1>4 DEF CallPing, CallResult, CallNetworkRebuilt, Calls, Busy
  <2>2. sender' \in [Node -> Sender]
    <3>1. [sender[n] EXCEPT !.at = "called"] \in Sender
      BY <2>1, SenderTypes
    <3> QED BY <2>1, <3>1 DEF TypeOK
  <2>3. rightID[n] \in Node
    BY DEF TypeOK
  <2>4. sendQueue' \in [Node -> Seq(QueueItem)]
    BY <1>4, <2>1, PassOnType DEF CallPing, CallResult, CallNetworkRebuilt, TypeOK
  <2>5. heard' \in [Node -> SUBSET Node]
    <3>1. message(n).sourceNode \in Node
      BY <1>4, <2>1, SenderFields, ItemFields
      DEF CallPing, CallResult, CallNetworkRebuilt, Calls, Busy, message, Boomerang
    <3>2. CASE CallResult(n)
      <4>1. heard' \in {heard, [heard EXCEPT ![rightID[n]] = @ \cup {message(n).sourceNode}]}
        BY <3>2 DEF CallResult
      <4>2. heard[rightID[n]] \cup {message(n).sourceNode} \in SUBSET Node
        BY <2>3, <3>1 DEF TypeOK
      <4> HIDE <1>4, <3>2
      <4> QED BY <2>3, <4>1, <4>2 DEF TypeOK
    <3> QED BY <1>4, <3>2 DEF CallPing, CallNetworkRebuilt, historyVars, TypeOK
  <2>6. liveNodes' \in [Node -> SUBSET Node] /\ data' \in [Node -> SUBSET Comp]
    <3>1. CASE CallNetworkRebuilt(n)
      <4>1. message(n).nodeIDs \in SUBSET Node
        BY <2>1, <3>1, SenderFields, ItemFields, RebuiltFields
        DEF CallNetworkRebuilt, Calls, Busy, message
      <4> QED BY <2>3, <3>1, <4>1, SetSurvivorsType DEF CallNetworkRebuilt, repoVars, TypeOK
    <3> QED BY <1>4, <3>1 DEF CallPing, CallResult, repoVars, TypeOK
  <2> QED BY <1>4, <2>2, <2>4, <2>5, <2>6
      DEF CallPing, CallResult, CallNetworkRebuilt, netVars, historyVars, TypeOK
<1>5. CASE Replied(n)
  BY <1>5, SenderTypes DEF Replied, netVars, repoVars, historyVars, TypeOK
<1>6. CASE ReportDeadRightNode(n)
  <2>1. sender[n].at \in {"sending", "called"}
        /\ sender' = [sender EXCEPT ![n] = [sender[n] EXCEPT !.at = "reporting"]]
    BY <1>6 DEF ReportDeadRightNode, RightCommFailure, Busy
  <2>2. sender' \in [Node -> Sender]
    <3>1. [sender[n] EXCEPT !.at = "reporting"] \in Sender
      BY <2>1, SenderTypes
    <3> QED BY <2>1, <3>1 DEF TypeOK
  <2>3. NodeDied(leftID[n], FirstReport(n)) /\ leftID[n] \in Node
    BY <1>6 DEF ReportDeadRightNode, FirstReport, TypeOK
  <2> QED BY <1>6, <2>2, <2>3, NodeDiedType, FirstReportType
      DEF ReportDeadRightNode, repoVars, historyVars, TypeOK
<1>7. CASE MarkBroken(n)
  <2>1. <<sender[n].current>> \o sendQueue[n] \in Seq(QueueItem)
    BY <1>7, SenderFields DEF MarkBroken, TypeOK
  <2> QED BY <1>7, <2>1, SenderTypes DEF MarkBroken, repoVars, historyVars, TypeOK
<1>8. CASE BecomeAlone(n)
  BY <1>8, SetSurvivorsType, SenderTypes DEF BecomeAlone, historyVars, TypeOK
<1>9. CASE CallNodeDied(n)
  <2>1. sender[n].at = "sending" /\ sender' = [sender EXCEPT ![n] = [sender[n] EXCEPT !.at = "called"]]
    BY <1>9 DEF CallNodeDied, Busy
  <2>2. sender' \in [Node -> Sender]
    <3>1. [sender[n] EXCEPT !.at = "called"] \in Sender
      BY <2>1, SenderTypes
    <3> QED BY <2>1, <3>1 DEF TypeOK
  <2>3. sender[n].current.data \in Report /\ leftID[n] \in Node
    BY <1>9, <2>1, SenderFields, ItemFields DEF CallNodeDied, Busy, TypeOK
  <2> QED BY <1>9, <2>2, <2>3, NodeDiedType DEF CallNodeDied, repoVars, historyVars, TypeOK
<1>10. CASE CloseRing(n)
  <2>1. reportNodeID(n) \in Node
    BY DEF reportNodeID, TypeOK, Report
  <2> QED BY <1>10, <2>1, SenderTypes DEF CloseRing, repoVars, historyVars, TypeOK
<1>11. CASE AnnounceRebuilt(n)
  <2> DEFINE found == rebuildData[n]
  <2>1. found.liveNodes \in SUBSET Node /\ found.liveCompIDs \in SUBSET Comp
    BY DEF TypeOK, Report
  <2>2. Right_Boomerang([type |-> "NETWORK_REBUILT", sourceNode |-> n,
                         nodeIDs |-> found.liveNodes, compIDs |-> found.liveCompIDs]) \in QueueItem
    BY <2>1 DEF QueueItem, Boomerang
  <2> QED BY <1>11, <2>1, <2>2, EnqueueType, SetSurvivorsType, SenderTypes
      DEF AnnounceRebuilt, netVars, historyVars, TypeOK
<1>12. CASE Abort(n)
  <2>1. Right_AbortingBoomerang \in QueueItem /\ rightID[n] \in Node
    BY DEF QueueItem, TypeOK
  <2>2. sendQueue' \in [Node -> Seq(QueueItem)]
    BY <1>12, <2>1, EnqueueType DEF Abort, TypeOK
  <2>3. life' \in [Node -> {"up", "crashed", "aborted"}]
    BY <1>12 DEF Abort, TypeOK
  <2> QED BY <1>12, <2>2, <2>3 DEF Abort, netVars, repoVars, historyVars, TypeOK
<1> QED BY <1>1, <1>2, <1>3, <1>4, <1>5, <1>6, <1>7, <1>8, <1>9, <1>10, <1>11, <1>12 DEF SendStep

\* The state of the repair keeps its type, whatever nodes die and whenever.
THEOREM TypeCorrect == Spec => []TypeOK
BY InitType, NextType, PTL DEF Spec

-----------------------------------------------------------------------------
(***************************************************************************)
(* The inductive invariant                                                 *)
(***************************************************************************)
Closing(n) == Up(n) /\ sender[n].at = "closing"

Reporting(n) == Up(n) /\ sender[n].at = "reporting"

\* A survivor whose right, or left, neighbour is dead.
Broken(n) == Up(n) /\ ~Up(rightID[n])
Exposed(n) == Up(n) /\ ~Up(leftID[n])

\* The survivors are linked both ways, but for one gap at most.
Linked ==
  /\ \A n \in Survivors : Up(rightID[n]) => leftID[rightID[n]] = n
  /\ \A n \in Survivors : Up(leftID[n]) => rightID[leftID[n]] = n
  /\ \A m, n \in Survivors : Broken(m) /\ Broken(n) => m = n
  /\ \A m, n \in Survivors : Exposed(m) /\ Exposed(n) => m = n
  /\ (\E n \in Survivors : Broken(n)) <=> (\E n \in Survivors : Exposed(n))

\* A set of survivors that is closed under going right, across the gap as well.
GoesRound(S) ==
  /\ \A n \in S : Up(rightID[n]) => rightID[n] \in S
  /\ \A m \in S, n \in Survivors : Broken(m) /\ Exposed(n) => n \in S

OneRing == \A S \in SUBSET Survivors : S # {} /\ GoesRound(S) => S = Survivors

\* A node has an item to send, or waits for the reply to it.
Holds(n, item) ==
  \/ \E i \in DOMAIN sendQueue[n] : item = sendQueue[n][i]
  \/ sender[n].at \in {"sending", "called", "reporting"} /\ item = sender[n].current

IsRebuilt(item) == item.item = "Boomerang" /\ item.data.type = "NETWORK_REBUILT"

\* A node that does not know yet who has survived, nor has it in its queue.
Uninformed(n) ==
  /\ liveNodes[n] # Survivors
  /\ \A item : Holds(n, item) /\ IsRebuilt(item) => item.data.nodeIDs # Survivors

\* The reports that a node still has to pass on, by their places: 0 is the item
\* that the send thread is sending.
ItemAt(m, i) == IF i = 0 THEN sender[m].current ELSE sendQueue[m][i]

ReportsAt(m) ==
  {i \in {0} \cup DOMAIN sendQueue[m] :
     (i = 0 => sender[m].at = "sending") /\ ItemAt(m, i).item = "NodeDied"}

HasReport(m) == \E i : i \in ReportsAt(m)

\* They are one at most, and it says what the node has noted itself.
OneReport(m) ==
  /\ \A i, j \in ReportsAt(m) : i = j
  /\ \A i \in ReportsAt(m) : ItemAt(m, i).data = rebuildData[m]

\* The report at m covers the nodes from m to the reporter.
Segment(m, report) ==
  /\ report.liveNodes \subseteq Survivors
  /\ m \in report.liveNodes /\ report.reportNodeID \in report.liveNodes
  /\ m # report.reportNodeID
  /\ \A k \in report.liveNodes :
       /\ k # report.reportNodeID => rightID[k] \in report.liveNodes
       /\ k # m => leftID[k] \in report.liveNodes
       /\ currentID[k] \in report.liveCompIDs

Reports ==
  /\ \A m \in Survivors :
       /\ OneReport(m)
       /\ HasReport(m) => Segment(m, rebuildData[m]) /\ Broken(reportNodeID(m))
  /\ \A m, n \in Survivors : HasReport(m) /\ HasReport(n) => m = n

\* A node is stopped, or will be, if and only if a report of it is on its way.
Stopped ==
  /\ \A r \in Survivors : networkBroken[r] \/ Reporting(r)
                            => Broken(r) /\ \E m \in Survivors : HasReport(m)
  /\ \A r, m \in Survivors : HasReport(m) /\ Broken(r) => networkBroken[r] \/ Reporting(r)
  /\ \A r \in Survivors : networkBroken[r] => sender[r].at = "poll"

\* A report was passed on and the reply is still to come: the nodes behind are
\* not told of the repair before it does.
Calling ==
  \A m \in Survivors :
    /\ sender[m].at = "reporting" => sender[m].current.item = "Boomerang"
    /\ Busy(m, {"called"}, "NodeDied") =>
         LET report == sender[m].current.data IN
         /\ Segment(m, report)
         /\ Up(leftID[m])
         /\ \A g \in report.liveNodes \ {m} : Uninformed(g)
         /\ \A b \in report.liveNodes : ~Closing(b)

NoAborts ==
  /\ \A n \in Node : life[n] # "aborted"
  /\ \A n \in Survivors : \A item : Holds(n, item) => item.item # "Abort"

\* The node that closes the ring was told of all survivors.
Closed ==
  /\ \A b \in Survivors : Closing(b) =>
       /\ Up(reportNodeID(b))
       /\ \A n \in Survivors :
            /\ Up(rightID[n])
            /\ n \in rebuildData[b].liveNodes
            /\ currentID[n] \in rebuildData[b].liveCompIDs
  /\ \A b, c \in Survivors : Closing(b) /\ Closing(c) => b = c

Informed ==
  /\ NoneForgotten
  /\ OwnComputationKept
  /\ \A n, k \in Survivors : \A item : Holds(n, item) /\ IsRebuilt(item) =>
       k \in item.data.nodeIDs /\ currentID[k] \in item.data.compIDs
  /\ (\E n \in Survivors : Broken(n) \/ Closing(n)) => \A n \in Survivors : Uninformed(n)

Repairable == Linked /\ OneRing /\ Reports /\ Stopped /\ Calling /\ NoAborts /\ Closed /\ Informed

RebuildInv == TypeOK /\ Repairable

\* README:78: a node does not die during the restoration after another failure.
OneAtATime == \A n \in Node : Crash(n) => Whole

-----------------------------------------------------------------------------
(***************************************************************************)
(* What the steps do to the reports on their way                           *)
(***************************************************************************)
SendingReport(m) == sender[m].at = "sending" /\ sender[m].current.item = "NodeDied"

Kept(m) ==
  /\ OneReport(m) /\ rebuildData'[m] = rebuildData[m] => OneReport(m)'
  /\ HasReport(m)' <=> HasReport(m)

LEMMA PlacesMoved ==
  ASSUME NEW m, NEW f,
         \A i \in ReportsAt(m)' : f[i] \in ReportsAt(m) /\ ItemAt(m, i)' = ItemAt(m, f[i]),
         \A i, j \in ReportsAt(m)' : f[i] = f[j] => i = j,
         \A j \in ReportsAt(m) : \E i \in ReportsAt(m)' : f[i] = j
  PROVE  Kept(m)
<1>1. ASSUME OneReport(m), rebuildData'[m] = rebuildData[m]
      PROVE  OneReport(m)'
  <2>1. ASSUME NEW i \in ReportsAt(m)', NEW j \in ReportsAt(m)' PROVE i = j
    <3>1. f[i] \in ReportsAt(m) /\ f[j] \in ReportsAt(m)
      BY <2>1, Zenon
    <3>2. f[i] = f[j]
      BY <1>1, <3>1, Zenon DEF OneReport
    <3> QED BY <2>1, <3>2, Zenon
  <2>2. ASSUME NEW i \in ReportsAt(m)' PROVE ItemAt(m, i)'.data = rebuildData'[m]
    BY <1>1, <2>2, Zenon DEF OneReport
  <2> QED BY <2>1, <2>2, Zenon DEF OneReport
<1>2. HasReport(m)' <=> HasReport(m)
  BY Zenon DEF HasReport
<1> QED BY <1>1, <1>2, Zenon DEF Kept

PlacesOfReports ==
  \A m \in Node :
    /\ \A i : i \in ReportsAt(m) <=>
         \/ i = 0 /\ SendingReport(m)
         \/ i \in 1 .. Len(sendQueue[m]) /\ sendQueue[m][i].item = "NodeDied"
    /\ ItemAt(m, 0) = sender[m].current
    /\ \A i \in 1 .. Len(sendQueue[m]) : ItemAt(m, i) = sendQueue[m][i]

LEMMA ReportPlaces == TypeOK => PlacesOfReports
<1> SUFFICES ASSUME TypeOK, NEW m \in Node
             PROVE  /\ \A i : i \in ReportsAt(m) <=>
                         \/ i = 0 /\ SendingReport(m)
                         \/ i \in 1 .. Len(sendQueue[m]) /\ sendQueue[m][i].item = "NodeDied"
                    /\ ItemAt(m, 0) = sender[m].current
                    /\ \A i \in 1 .. Len(sendQueue[m]) : ItemAt(m, i) = sendQueue[m][i]
  BY Zenon DEF PlacesOfReports
<1>1. DOMAIN sendQueue[m] = 1 .. Len(sendQueue[m]) /\ Len(sendQueue[m]) \in Nat
  BY DEF TypeOK
<1>2. 0 \notin 1 .. Len(sendQueue[m])
  BY <1>1
<1>3. /\ ItemAt(m, 0) = sender[m].current
      /\ \A i \in 1 .. Len(sendQueue[m]) : ItemAt(m, i) = sendQueue[m][i]
  BY <1>1, <1>2, Zenon DEF ItemAt
<1>4. ASSUME NEW i
      PROVE  i \in ReportsAt(m) <=>
               \/ i = 0 /\ SendingReport(m)
               \/ i \in 1 .. Len(sendQueue[m]) /\ sendQueue[m][i].item = "NodeDied"
  BY <1>1, <1>2, <1>3, Zenon DEF ReportsAt, SendingReport
<1> QED BY <1>3, <1>4, Zenon

LEMMA ReportPlacesNext == TypeOK' => PlacesOfReports'
BY ReportPlaces, PTL

\* Nothing but other items comes into the queue.
LEMMA QueueGrows ==
  ASSUME TypeOK, TypeOK', NEW m \in Node, NEW item,
         item.item # "NodeDied",
         sendQueue'[m] = sendQueue[m] \/ sendQueue'[m] = Append(sendQueue[m], item),
         SendingReport(m)' <=> SendingReport(m),
         SendingReport(m) => sender'[m].current = sender[m].current
  PROVE  Kept(m)
<1> DEFINE f == [i \in Nat |-> i]
<1>1. /\ sendQueue[m] \in Seq(QueueItem) /\ sendQueue'[m] \in Seq(QueueItem)
      /\ Len(sendQueue[m]) \in Nat /\ Len(sendQueue'[m]) \in Nat
  BY DEF TypeOK
<1>2. /\ \A i \in 1 .. Len(sendQueue'[m]) :
            sendQueue'[m][i].item = "NodeDied" =>
              i \in 1 .. Len(sendQueue[m]) /\ sendQueue'[m][i] = sendQueue[m][i]
      /\ \A i \in 1 .. Len(sendQueue[m]) :
            i \in 1 .. Len(sendQueue'[m]) /\ sendQueue'[m][i] = sendQueue[m][i]
  <2>1. CASE sendQueue'[m] = sendQueue[m]
    BY <2>1
  <2>2. CASE sendQueue'[m] = Append(sendQueue[m], item)
    <3>1. /\ Len(sendQueue'[m]) = Len(sendQueue[m]) + 1
          /\ sendQueue'[m][Len(sendQueue[m]) + 1] = item
          /\ \A i \in 1 .. Len(sendQueue[m]) : sendQueue'[m][i] = sendQueue[m][i]
      BY <1>1, <2>2
    <3> QED BY <1>1, <3>1
  <2> QED BY <2>1, <2>2
<1>3. \A i \in ReportsAt(m)' : i \in Nat /\ i \in ReportsAt(m) /\ ItemAt(m, i)' = ItemAt(m, i)
  <2>1. SUFFICES ASSUME NEW i \in ReportsAt(m)'
                 PROVE  i \in Nat /\ i \in ReportsAt(m) /\ ItemAt(m, i)' = ItemAt(m, i)
    BY Zenon
  <2>2. CASE i = 0 /\ SendingReport(m)'
    BY <2>2, ReportPlaces, ReportPlacesNext DEF PlacesOfReports
  <2>3. CASE i \in 1 .. Len(sendQueue'[m]) /\ sendQueue'[m][i].item = "NodeDied"
    BY <1>1, <1>2, <2>3, ReportPlaces, ReportPlacesNext DEF PlacesOfReports
  <2> QED BY <2>2, <2>3, ReportPlacesNext DEF PlacesOfReports
<1>4. \A i \in ReportsAt(m) : i \in Nat /\ i \in ReportsAt(m)'
  BY <1>1, <1>2, ReportPlaces, ReportPlacesNext DEF PlacesOfReports
<1>5. \A i \in Nat : f[i] = i
  OBVIOUS
<1> HIDE DEF f
<1>6. \A i, j \in ReportsAt(m)' : f[i] = f[j] => i = j
  BY <1>3, <1>5, Zenon
<1>7. \A i \in ReportsAt(m)' : f[i] \in ReportsAt(m) /\ ItemAt(m, i)' = ItemAt(m, f[i])
  BY <1>3, <1>5, Zenon
<1>8. \A j \in ReportsAt(m) : \E i \in ReportsAt(m)' : f[i] = j
  BY <1>4, <1>5, Zenon
<1> QED BY <1>6, <1>7, <1>8, PlacesMoved, Zenon

\* The head of the queue is taken out of it.
LEMMA HeadTaken ==
  ASSUME TypeOK, TypeOK', NEW m \in Node,
         sendQueue[m] # <<>>,
         sender[m] = Polling,
         sender'[m] = [at |-> "sending", current |-> Head(sendQueue[m])],
         sendQueue'[m] = Tail(sendQueue[m])
  PROVE  Kept(m)
<1> DEFINE f == [i \in Nat |-> i + 1]
<1>1. /\ sendQueue[m] \in Seq(QueueItem) /\ sendQueue'[m] \in Seq(QueueItem)
      /\ Len(sendQueue[m]) \in Nat \ {0} /\ Len(sendQueue'[m]) = Len(sendQueue[m]) - 1
      /\ Head(sendQueue[m]) = sendQueue[m][1]
      /\ \A i \in 1 .. Len(sendQueue'[m]) : sendQueue'[m][i] = sendQueue[m][i + 1]
  BY DEF TypeOK
<1>2. /\ ~SendingReport(m)
      /\ SendingReport(m)' <=> sendQueue[m][1].item = "NodeDied"
      /\ sender'[m].current = sendQueue[m][1]
  BY <1>1 DEF SendingReport, Polling
<1>3. \A i \in ReportsAt(m)' :
         i \in Nat /\ i + 1 \in ReportsAt(m) /\ ItemAt(m, i)' = ItemAt(m, i + 1)
  <2>1. SUFFICES ASSUME NEW i \in ReportsAt(m)'
                 PROVE  i \in Nat /\ i + 1 \in ReportsAt(m) /\ ItemAt(m, i)' = ItemAt(m, i + 1)
    BY Zenon
  <2>2. CASE i = 0 /\ SendingReport(m)'
    BY <1>1, <1>2, <2>2, ReportPlaces, ReportPlacesNext DEF PlacesOfReports
  <2>3. CASE i \in 1 .. Len(sendQueue'[m]) /\ sendQueue'[m][i].item = "NodeDied"
    <3>1. i + 1 \in 1 .. Len(sendQueue[m]) /\ sendQueue'[m][i] = sendQueue[m][i + 1] /\ i \in Nat
      BY <1>1, <2>3
    <3> QED BY <2>3, <3>1, ReportPlaces, ReportPlacesNext DEF PlacesOfReports
  <2> QED BY <2>2, <2>3, ReportPlacesNext DEF PlacesOfReports
<1>4. \A j \in ReportsAt(m) : \E i \in ReportsAt(m)' : i \in Nat /\ i + 1 = j
  <2>1. SUFFICES ASSUME NEW j \in ReportsAt(m)
                 PROVE  \E i \in ReportsAt(m)' : i \in Nat /\ i + 1 = j
    BY Zenon
  <2>2. j \in 1 .. Len(sendQueue[m]) /\ sendQueue[m][j].item = "NodeDied"
    BY <1>2, ReportPlaces DEF PlacesOfReports
  <2>3. j - 1 \in Nat /\ (j - 1) + 1 = j
    BY <1>1, <2>2
  <2>4. j - 1 \in ReportsAt(m)'
    <3>1. CASE j = 1
      BY <1>2, <2>2, <3>1, ReportPlacesNext DEF PlacesOfReports
    <3>2. CASE j # 1
      <4>1. j - 1 \in 1 .. Len(sendQueue'[m]) /\ sendQueue'[m][j - 1] = sendQueue[m][j]
        BY <1>1, <2>2, <3>2
      <4> QED BY <2>2, <4>1, ReportPlacesNext DEF PlacesOfReports
    <3> QED BY <3>1, <3>2
  <2> QED BY <2>3, <2>4
<1>5. \A i \in Nat : f[i] = i + 1
  OBVIOUS
<1>6. \A i, j \in ReportsAt(m)' : f[i] = f[j] => i = j
  BY <1>3, <1>5
<1> HIDE DEF f
<1>7. \A i \in ReportsAt(m)' : f[i] \in ReportsAt(m) /\ ItemAt(m, i)' = ItemAt(m, f[i])
  BY <1>3, <1>5
<1>8. \A j \in ReportsAt(m) : \E i \in ReportsAt(m)' : f[i] = j
  BY <1>4, <1>5
<1> QED BY <1>6, <1>7, <1>8, PlacesMoved, Zenon

\* The item that could not be sent is put in front again.
LEMMA PutBack ==
  ASSUME TypeOK, TypeOK', NEW m \in Node,
         sender[m].at = "reporting",
         sender[m].current.item = "Boomerang",
         sender'[m] = Polling,
         sendQueue'[m] = <<sender[m].current>> \o sendQueue[m]
  PROVE  Kept(m)
<1> DEFINE f == [i \in Nat |-> i - 1]
<1> DEFINE current == sender[m].current
<1>1. /\ sendQueue[m] \in Seq(QueueItem) /\ Len(sendQueue[m]) \in Nat
      /\ current \in QueueItem
  BY SenderFields DEF TypeOK
<1>2. /\ Len(sendQueue'[m]) = Len(sendQueue[m]) + 1
      /\ sendQueue'[m][1] = current
      /\ \A i \in 1 .. Len(sendQueue[m]) : sendQueue'[m][i + 1] = sendQueue[m][i]
  <2> HIDE DEF current
  <2>1. <<current>> \in Seq(QueueItem) /\ Len(<<current>>) = 1 /\ <<current>>[1] = current
    BY <1>1
  <2>2. Len(<<current>> \o sendQueue[m]) = 1 + Len(sendQueue[m])
    BY <1>1, <2>1
  <2>3. /\ (<<current>> \o sendQueue[m])[1] = current
        /\ \A i \in 1 .. Len(sendQueue[m]) : (<<current>> \o sendQueue[m])[i + 1] = sendQueue[m][i]
    BY <1>1, <2>1
  <2> QED BY <1>1, <2>2, <2>3 DEF current
<1>3. ~SendingReport(m) /\ ~SendingReport(m)'
  BY DEF SendingReport, Polling
<1>4. \A i \in ReportsAt(m)' :
         i \in Nat \ {0} /\ i - 1 \in ReportsAt(m) /\ ItemAt(m, i)' = ItemAt(m, i - 1)
  <2>1. SUFFICES ASSUME NEW i \in ReportsAt(m)'
                 PROVE  i \in Nat \ {0} /\ i - 1 \in ReportsAt(m) /\ ItemAt(m, i)' = ItemAt(m, i - 1)
    BY Zenon
  <2>2. i \in 1 .. Len(sendQueue'[m]) /\ sendQueue'[m][i].item = "NodeDied"
    BY <1>3, ReportPlacesNext DEF PlacesOfReports
  <2>3. i # 1
    BY <1>2, <2>2
  <2>4. i - 1 \in 1 .. Len(sendQueue[m]) /\ (i - 1) + 1 = i /\ i \in Nat \ {0}
    BY <1>1, <1>2, <2>2, <2>3
  <2>5. sendQueue'[m][i] = sendQueue[m][i - 1]
    BY <1>2, <2>4
  <2> QED BY <2>2, <2>4, <2>5, ReportPlaces, ReportPlacesNext DEF PlacesOfReports
<1>5. \A j \in ReportsAt(m) : j \in Nat /\ j + 1 \in ReportsAt(m)'
  <2>1. SUFFICES ASSUME NEW j \in ReportsAt(m)
                 PROVE  j \in Nat /\ j + 1 \in ReportsAt(m)'
    BY Zenon
  <2>2. j \in 1 .. Len(sendQueue[m]) /\ sendQueue[m][j].item = "NodeDied"
    BY <1>3, ReportPlaces DEF PlacesOfReports
  <2>3. j \in Nat /\ j + 1 \in 1 .. Len(sendQueue'[m]) /\ sendQueue'[m][j + 1] = sendQueue[m][j]
    BY <1>1, <1>2, <2>2
  <2> QED BY <2>2, <2>3, ReportPlacesNext DEF PlacesOfReports
<1>6. \A i \in Nat : f[i] = i - 1
  OBVIOUS
<1> HIDE DEF f
<1>7. \A i, j \in ReportsAt(m)' : f[i] = f[j] => i = j
  BY <1>4, <1>6
<1>8. \A i \in ReportsAt(m)' : f[i] \in ReportsAt(m) /\ ItemAt(m, i)' = ItemAt(m, f[i])
  BY <1>4, <1>6
<1>9. \A j \in ReportsAt(m) : \E i \in ReportsAt(m)' : f[i] = j
  <2>1. \A j \in Nat : f[j + 1] = j
    BY <1>6
  <2> QED BY <1>5, <2>1, Zenon
<1> QED BY <1>7, <1>8, <1>9, PlacesMoved, Zenon

\* A report that is passed on is no longer there.
LEMMA ReportGone ==
  ASSUME TypeOK, TypeOK', NEW m \in Node,
         SendingReport(m), OneReport(m),
         sendQueue'[m] = sendQueue[m], ~SendingReport(m)'
  PROVE  ~HasReport(m)'
<1> SUFFICES ASSUME NEW i \in ReportsAt(m)' PROVE FALSE
  BY Zenon DEF HasReport
<1>1. i \in 1 .. Len(sendQueue'[m]) /\ sendQueue'[m][i].item = "NodeDied"
  BY ReportPlacesNext, Zenon DEF PlacesOfReports
<1>2. i \in ReportsAt(m) /\ 0 \in ReportsAt(m)
  BY <1>1, ReportPlaces, Zenon DEF PlacesOfReports
<1>3. i = 0
  BY <1>2, Zenon DEF OneReport
<1> QED BY <1>1, <1>3 DEF TypeOK

\* A report that comes is the only one.
LEMMA ReportComes ==
  ASSUME TypeOK, TypeOK', NEW m \in Node, NEW report,
         ~HasReport(m),
         sendQueue'[m] = Append(sendQueue[m], Left_NodeDied(report)),
         ~SendingReport(m)', rebuildData'[m] = report
  PROVE  HasReport(m)' /\ OneReport(m)'
<1>0. PICK last \in Nat : last = Len(sendQueue[m]) + 1
  <2>1. Len(sendQueue[m]) + 1 \in Nat
    BY DEF TypeOK
  <2> QED BY <2>1
<1>1. /\ sendQueue[m] \in Seq(QueueItem) /\ Len(sendQueue[m]) \in Nat
      /\ Len(sendQueue'[m]) = last /\ sendQueue'[m][last] = Left_NodeDied(report)
      /\ \A i \in 1 .. Len(sendQueue[m]) : sendQueue'[m][i] = sendQueue[m][i]
  BY <1>0 DEF TypeOK
<1>2. last \in ReportsAt(m)' /\ ItemAt(m, last)'.data = report
  <2>1. last \in 1 .. Len(sendQueue'[m])
    BY <1>0, <1>1
  <2>2. Left_NodeDied(report).item = "NodeDied" /\ Left_NodeDied(report).data = report
    BY DEF Left_NodeDied
  <2> QED BY <1>1, <2>1, <2>2, ReportPlacesNext, Zenon DEF PlacesOfReports
<1>3. ASSUME NEW i \in ReportsAt(m)' PROVE i = last
  <2>1. i \in 1 .. last /\ sendQueue'[m][i].item = "NodeDied"
    BY <1>1, <1>3, ReportPlacesNext, Zenon DEF PlacesOfReports
  <2>2. CASE i \in 1 .. Len(sendQueue[m])
    <3>1. i \in ReportsAt(m)
      BY <1>1, <2>1, <2>2, ReportPlaces, Zenon DEF PlacesOfReports
    <3> QED BY <3>1, Zenon DEF HasReport
  <2> QED BY <1>0, <1>1, <2>1, <2>2
<1> QED BY <1>2, <1>3, Zenon DEF HasReport, OneReport

-----------------------------------------------------------------------------
(***************************************************************************)
(* What the steps do to the queues                                         *)
(***************************************************************************)
\* The send thread of n moves, and one item comes into the queue of k at most.
Appends(n, k, new) ==
  /\ sendQueue' \in {sendQueue, [sendQueue EXCEPT ![k] = Append(@, new)]}
  /\ \A m \in Node \ {n} : sender'[m] = sender[m]
  /\ sender'[n].at \in {"sending", "called", "reporting"} =>
       sender[n].at \in {"sending", "called", "reporting"} /\ sender'[n].current = sender[n].current

Rebuilt(n) ==
  Right_Boomerang([type |-> "NETWORK_REBUILT", sourceNode |-> n,
                   nodeIDs |-> rebuildData[n].liveNodes, compIDs |-> rebuildData[n].liveCompIDs])

LEMMA StepAppends ==
  ASSUME TypeOK, NEW n \in Node
  PROVE  /\ Ping(n) => Appends(n, n, Right_Boomerang([type |-> "PING", sourceNode |-> n]))
         /\ Announce(n) => Appends(n, n, Right_Boomerang([type |-> "RESULT", sourceNode |-> n]))
         /\ CallPing(n) \/ CallResult(n) \/ CallNetworkRebuilt(n)
              => Appends(n, rightID[n], sender[n].current)
         /\ Replied(n) \/ BecomeAlone(n) \/ CloseRing(n)
              => sendQueue' = sendQueue /\ \A new : Appends(n, n, new)
         /\ ReportDeadRightNode(n)
              => Appends(n, leftID[n], Left_NodeDied(Gathered(leftID[n], FirstReport(n))))
         /\ CallNodeDied(n)
              => Appends(n, leftID[n], Left_NodeDied(Gathered(leftID[n], sender[n].current.data)))
         /\ AnnounceRebuilt(n) => Appends(n, n, Rebuilt(n))
<1> USE DEF TypeOK
<1>1. Ping(n) => Appends(n, n, Right_Boomerang([type |-> "PING", sourceNode |-> n]))
  BY DEF Ping, Enqueue, Appends
<1>2. Announce(n) => Appends(n, n, Right_Boomerang([type |-> "RESULT", sourceNode |-> n]))
  BY DEF Announce, Enqueue, Appends
<1>3. ASSUME NEW place \in {"called", "reporting"},
             sender[n].at \in {"sending", "called"},
             sender' = [sender EXCEPT ![n].at = place]
      PROVE  /\ \A m \in Node \ {n} : sender'[m] = sender[m]
             /\ sender'[n].at = place /\ sender'[n].current = sender[n].current
  <2>1. [sender[n] EXCEPT !.at = place] = [at |-> place, current |-> sender[n].current]
    BY <1>3, SenderTypes
  <2>2. sender' = [sender EXCEPT ![n] = [sender[n] EXCEPT !.at = place]]
    BY <1>3
  <2>3. sender'[n] = [at |-> place, current |-> sender[n].current]
    BY <2>1, <2>2
  <2> QED BY <2>2, <2>3
<1>4. ASSUME CallPing(n) \/ CallResult(n) \/ CallNetworkRebuilt(n)
      PROVE  Appends(n, rightID[n], sender[n].current)
  <2>1. sender[n].at = "sending" /\ sender' = [sender EXCEPT ![n].at = "called"]
    BY <1>4 DEF CallPing, CallResult, CallNetworkRebuilt, Calls, Busy
  <2>2. sendQueue' \in {sendQueue, [sendQueue EXCEPT ![rightID[n]] = Append(@, sender[n].current)]}
    BY <1>4 DEF CallPing, CallResult, CallNetworkRebuilt, PassOn, Enqueue
  <2> QED BY <1>3, <2>1, <2>2 DEF Appends
<1>5. ASSUME Replied(n) \/ BecomeAlone(n) \/ CloseRing(n)
      PROVE  sendQueue' = sendQueue /\ \A new : Appends(n, n, new)
  <2>1. sendQueue' = sendQueue
    BY <1>5 DEF Replied, BecomeAlone, CloseRing
  <2>2. sender' \in {[sender EXCEPT ![n] = Polling], [sender EXCEPT ![n] = [at |-> "closing"]]}
    BY <1>5 DEF Replied, BecomeAlone, CloseRing
  <2>3. (\A m \in Node \ {n} : sender'[m] = sender[m]) /\ sender'[n].at \in {"poll", "closing"}
    BY <2>2 DEF Polling
  <2> QED BY <2>1, <2>3 DEF Appends
<1>6. ASSUME ReportDeadRightNode(n)
      PROVE  Appends(n, leftID[n], Left_NodeDied(Gathered(leftID[n], FirstReport(n))))
  <2>1. sender[n].at \in {"sending", "called"} /\ sender' = [sender EXCEPT ![n].at = "reporting"]
    BY <1>6 DEF ReportDeadRightNode, RightCommFailure, Busy
  <2>2. sendQueue' = [sendQueue EXCEPT ![leftID[n]] = Append(@, Left_NodeDied(Gathered(leftID[n], FirstReport(n))))]
    BY <1>6 DEF ReportDeadRightNode, NodeDied, Enqueue, FirstReport
  <2> QED BY <1>3, <2>1, <2>2 DEF Appends
<1>7. ASSUME CallNodeDied(n)
      PROVE  Appends(n, leftID[n], Left_NodeDied(Gathered(leftID[n], sender[n].current.data)))
  <2>1. sender[n].at = "sending" /\ sender' = [sender EXCEPT ![n].at = "called"]
    BY <1>7 DEF CallNodeDied, Busy
  <2>2. sendQueue' = [sendQueue EXCEPT ![leftID[n]] =
                        Append(@, Left_NodeDied(Gathered(leftID[n], sender[n].current.data)))]
    BY <1>7 DEF CallNodeDied, NodeDied, Enqueue
  <2> QED BY <1>3, <2>1, <2>2 DEF Appends
<1>8. ASSUME AnnounceRebuilt(n) PROVE Appends(n, n, Rebuilt(n))
  <2>1. sendQueue' = [sendQueue EXCEPT ![n] = Append(@, Rebuilt(n))] /\ sender' = [sender EXCEPT ![n] = Polling]
    BY <1>8 DEF AnnounceRebuilt, Enqueue, Rebuilt
  <2> QED BY <2>1 DEF Appends, Polling
<1> QED BY <1>1, <1>2, <1>4, <1>5, <1>6, <1>7, <1>8

LEMMA HoldsGrows ==
  ASSUME TypeOK, NEW n \in Node, NEW k \in Node, NEW new, Appends(n, k, new)
  PROVE  \A m \in Node : \A item : Holds(m, item)' => Holds(m, item) \/ (m = k /\ item = new)
<1> SUFFICES ASSUME NEW m \in Node, NEW item, Holds(m, item)'
             PROVE  Holds(m, item) \/ (m = k /\ item = new)
  BY Zenon
<1>1. CASE sender'[m].at \in {"sending", "called", "reporting"} /\ item = sender'[m].current
  BY <1>1 DEF Holds, Appends
<1>2. ASSUME NEW i \in DOMAIN sendQueue'[m], item = sendQueue'[m][i]
      PROVE  Holds(m, item) \/ (m = k /\ item = new)
  <2>1. CASE sendQueue'[m] = sendQueue[m]
    BY <1>2, <2>1, Zenon DEF Holds
  <2>2. CASE m = k /\ sendQueue'[m] = Append(sendQueue[m], new)
    <3>1. sendQueue[m] \in Seq(QueueItem) /\ Len(sendQueue[m]) \in Nat
      BY DEF TypeOK
    <3>2. i \in 1 .. Len(sendQueue[m]) + 1
      BY <1>2, <2>2, <3>1
    <3>3. CASE i = Len(sendQueue[m]) + 1
      BY <1>2, <2>2, <3>1, <3>3
    <3>4. CASE i \in 1 .. Len(sendQueue[m])
      <4>1. i \in DOMAIN sendQueue[m] /\ sendQueue'[m][i] = sendQueue[m][i]
        BY <2>2, <3>1, <3>4
      <4> QED BY <1>2, <4>1, Zenon DEF Holds
    <3> QED BY <3>1, <3>2, <3>3, <3>4
  <2> QED BY <2>1, <2>2 DEF Appends, TypeOK
<1> QED BY <1>1, <1>2 DEF Holds

LEMMA ReportsKept ==
  ASSUME TypeOK, TypeOK', NEW n \in Node, NEW k \in Node, NEW new, Appends(n, k, new),
         NEW m \in Node,
         m # k \/ new.item # "NodeDied",
         m # n \/ (~SendingReport(m) /\ ~SendingReport(m)')
  PROVE  Kept(m)
<1>1. SendingReport(m)' <=> SendingReport(m)
  BY DEF Appends, SendingReport
<1>2. SendingReport(m) => sender'[m].current = sender[m].current
  BY DEF Appends, SendingReport
<1>3. sendQueue'[m] = sendQueue[m] \/ (m = k /\ sendQueue'[m] = Append(sendQueue[m], new))
  BY DEF Appends, TypeOK
<1>4. CASE sendQueue'[m] = sendQueue[m]
  <2>1. Right_AbortingBoomerang.item # "NodeDied"
    BY DEF Right_AbortingBoomerang
  <2> QED BY <1>1, <1>2, <1>4, <2>1, QueueGrows
<1>5. CASE m = k /\ sendQueue'[m] = Append(sendQueue[m], new)
  BY <1>1, <1>2, <1>5, QueueGrows
<1> QED BY <1>3, <1>4, <1>5

LEMMA OtherItemsOnly ==
  ASSUME TypeOK, TypeOK', NEW n \in Node, NEW k \in Node, NEW new, Appends(n, k, new),
         new.item # "NodeDied", ~SendingReport(n), ~SendingReport(n)'
  PROVE  \A m \in Node : Kept(m)
<1> SUFFICES ASSUME NEW m \in Node PROVE Kept(m)
  OBVIOUS
<1>1. CASE m = n
  <2>1. ~SendingReport(m) /\ ~SendingReport(m)'
    BY <1>1 DEF SendingReport
  <2> QED BY <2>1, ReportsKept
<1>2. CASE m # n
  BY <1>2, ReportsKept
<1> QED BY <1>1, <1>2

-----------------------------------------------------------------------------
(***************************************************************************)
(* What follows from the links staying as they are                         *)
(***************************************************************************)
SameRing == UNCHANGED <<life, rightID, leftID>>

LEMMA RingStays ==
  ASSUME SameRing
  PROVE  /\ Survivors' = Survivors
         /\ \A n : Up(n)' <=> Up(n)
         /\ \A n : Broken(n)' <=> Broken(n)
         /\ \A n : Exposed(n)' <=> Exposed(n)
         /\ \A m, report : Segment(m, report)' <=> Segment(m, report)
         /\ Linked => Linked'
         /\ OneRing => OneRing'
<1>1. life' = life /\ rightID' = rightID /\ leftID' = leftID
  BY DEF SameRing
<1>2. Survivors' = Survivors /\ \A n : Up(n)' <=> Up(n)
  BY <1>1, Zenon DEF Survivors, Up
<1>3. \A n : (Broken(n)' <=> Broken(n)) /\ (Exposed(n)' <=> Exposed(n))
  BY <1>1, <1>2, Zenon DEF Broken, Exposed
<1>4. \A m, report : Segment(m, report)' <=> Segment(m, report)
  BY <1>1, <1>2, Zenon DEF Segment
<1>5. Linked => Linked'
  BY <1>1, <1>2, <1>3, Zenon DEF Linked
<1>6. \A S : GoesRound(S)' <=> GoesRound(S)
  BY <1>1, <1>2, <1>3, Zenon DEF GoesRound
<1>7. OneRing => OneRing'
  BY <1>2, <1>6, Zenon DEF OneRing
<1> QED BY <1>2, <1>3, <1>4, <1>5, <1>7, Zenon

LEMMA ReportsStay ==
  ASSUME SameRing, Reports, rebuildData' = rebuildData, \A m \in Node : Kept(m)
  PROVE  Reports'
<1>1. Survivors' = Survivors /\ \A m \in Survivors : m \in Node
  BY RingStays DEF Survivors
<1>2. ASSUME NEW m \in Survivors
      PROVE  /\ OneReport(m)'
             /\ HasReport(m)' => Segment(m, rebuildData[m])' /\ Broken(reportNodeID(m))'
  <2>1. OneReport(m)' /\ (HasReport(m)' => HasReport(m))
    BY <1>1, Zenon DEF Kept, Reports
  <2>2. HasReport(m) => Segment(m, rebuildData[m]) /\ Broken(reportNodeID(m))
    BY Zenon DEF Reports
  <2>3. Segment(m, rebuildData[m])' <=> Segment(m, rebuildData[m])
    <3>1. \A report : Segment(m, report)' <=> Segment(m, report)
      BY RingStays, Zenon
    <3> QED BY <3>1, RingStays, Zenon DEF Segment, SameRing
  <2> QED BY <2>1, <2>2, <2>3, RingStays, Zenon DEF reportNodeID
<1>3. \A m, n \in Survivors : HasReport(m)' /\ HasReport(n)' => m = n
  BY <1>1, Zenon DEF Kept, Reports
<1> QED BY <1>1, <1>2, <1>3, Zenon DEF Reports

LEMMA StoppedStays ==
  ASSUME SameRing, Stopped,
         \A r \in Survivors : networkBroken'[r] \/ Reporting(r)' <=> networkBroken[r] \/ Reporting(r),
         \A r \in Survivors : networkBroken'[r] => sender'[r].at = "poll",
         \A m \in Survivors : HasReport(m)' <=> HasReport(m)
  PROVE  Stopped'
<1>1. Survivors' = Survivors /\ \A r : Broken(r)' <=> Broken(r)
  BY RingStays
<1>2. \A r \in Survivors : networkBroken'[r] \/ Reporting(r)'
                             => Broken(r)' /\ \E m \in Survivors : HasReport(m)'
  BY <1>1, Zenon DEF Stopped
<1>3. \A r, m \in Survivors : HasReport(m)' /\ Broken(r)' => networkBroken'[r] \/ Reporting(r)'
  BY <1>1, Zenon DEF Stopped
<1> QED BY <1>1, <1>2, <1>3, Zenon DEF Stopped

\* Nothing that the node has to send tells it of the repair, nor did anybody.
LEMMA UninformedStays ==
  ASSUME Survivors' = Survivors, NEW g, Uninformed(g),
         liveNodes'[g] # Survivors,
         \A item : Holds(g, item)' => Holds(g, item) \/ ~IsRebuilt(item) \/ item.data.nodeIDs # Survivors
  PROVE  Uninformed(g)'
BY Zenon DEF Uninformed, IsRebuilt

\* What a caller knows of the nodes that its report has passed stays true.
LEMMA CallingStays ==
  ASSUME SameRing, Calling,
         \A m \in Survivors : sender'[m].at = "reporting" => sender'[m].current.item = "Boomerang",
         \A m \in Survivors : Busy(m, {"called"}, "NodeDied")' => sender'[m] = sender[m],
         \A m \in Survivors : Busy(m, {"called"}, "NodeDied") =>
           \A g \in sender[m].current.data.liveNodes \ {m} : Uninformed(g) => Uninformed(g)',
         \A b \in Survivors : Closing(b)' => Closing(b)
  PROVE  Calling'
<1>1. Survivors' = Survivors /\ (\A n : Up(n)' <=> Up(n)) /\ leftID' = leftID
  BY RingStays DEF SameRing
<1>2. SUFFICES ASSUME NEW m \in Survivors, Busy(m, {"called"}, "NodeDied")'
               PROVE  /\ Segment(m, sender[m].current.data)'
                      /\ Up(leftID[m])'
                      /\ \A g \in sender'[m].current.data.liveNodes \ {m} : Uninformed(g)'
                      /\ \A b \in sender'[m].current.data.liveNodes : ~Closing(b)'
  BY <1>1, Zenon DEF Calling
<1>3. sender'[m] = sender[m] /\ Busy(m, {"called"}, "NodeDied")
  BY <1>1, <1>2, Zenon DEF Busy
<1>4. PICK report : report = sender[m].current.data
  OBVIOUS
<1>5. /\ Segment(m, report)
      /\ Up(leftID[m])
      /\ \A g \in report.liveNodes \ {m} : Uninformed(g)
      /\ \A b \in report.liveNodes : ~Closing(b)
  BY <1>3, <1>4, Zenon DEF Calling
<1>6. Segment(m, report)' /\ report.liveNodes \subseteq Survivors
  <2>1. Segment(m, report)' <=> Segment(m, report)
    BY RingStays
  <2> QED BY <1>5, <2>1 DEF Segment
<1>7. \A g \in report.liveNodes \ {m} : Uninformed(g)'
  BY <1>3, <1>4, <1>5, Zenon
<1>8. \A b \in report.liveNodes : ~Closing(b)'
  BY <1>5, <1>6
<1>9. sender'[m].current.data = report
  BY <1>3, <1>4
<1>10. Segment(m, sender[m].current.data)'
  BY <1>6, <1>9 DEF Segment
<1>11. Up(leftID[m])'
  BY <1>1, <1>5, Zenon DEF Up
<1> QED BY <1>7, <1>8, <1>9, <1>10, <1>11, Zenon

LEMMA ClosedStays ==
  ASSUME SameRing, Closed,
         \A b \in Survivors : Closing(b)' => Closing(b) /\ rebuildData'[b] = rebuildData[b]
  PROVE  Closed'
<1>1. Survivors' = Survivors /\ (\A n : Up(n)' <=> Up(n)) /\ rightID' = rightID
  BY RingStays DEF SameRing
<1>2. ASSUME NEW b \in Survivors, Closing(b)'
      PROVE  /\ Up(reportNodeID(b))'
             /\ \A n \in Survivors :
                  /\ Up(rightID[n])'
                  /\ n \in rebuildData'[b].liveNodes
                  /\ currentID[n] \in rebuildData'[b].liveCompIDs
  <2>1. rebuildData'[b] = rebuildData[b] /\ Closing(b)
    BY <1>2
  <2>2. Up(reportNodeID(b)) /\ \A n \in Survivors :
          Up(rightID[n]) /\ n \in rebuildData[b].liveNodes /\ currentID[n] \in rebuildData[b].liveCompIDs
    BY <2>1, Zenon DEF Closed
  <2>3. \A n \in Survivors : Up(rightID[n])'
    BY <1>1, <2>2 DEF Up
  <2> QED BY <1>1, <2>1, <2>2, <2>3, Zenon DEF reportNodeID, Up
<1>3. \A b, c \in Survivors : Closing(b)' /\ Closing(c)' => b = c
  BY Zenon DEF Closed
<1> QED BY <1>1, <1>2, <1>3, Zenon DEF Closed

\* The items of a step that brings no news of a repair.
LEMMA InformedStays ==
  ASSUME SameRing, Informed,
         UNCHANGED <<liveNodes, data>>,
         \A n \in Survivors : \A item : Holds(n, item)' => Holds(n, item) \/ ~IsRebuilt(item),
         (\E n \in Survivors : Closing(n)') => \E n \in Survivors : Broken(n) \/ Closing(n)
  PROVE  Informed'
<1>1. Survivors' = Survivors /\ (\A n : Broken(n)' <=> Broken(n))
  BY RingStays
<1>2. NoneForgotten' /\ OwnComputationKept'
  BY <1>1, Zenon DEF Informed, NoneForgotten, OwnComputationKept
<1>3. \A n, k \in Survivors : \A item : Holds(n, item)' /\ IsRebuilt(item) =>
        k \in item.data.nodeIDs /\ currentID[k] \in item.data.compIDs
  BY Zenon DEF Informed
<1>4. ASSUME \E n \in Survivors : Broken(n)' \/ Closing(n)', NEW g \in Survivors
      PROVE  Uninformed(g)'
  <2>1. Uninformed(g)
    BY <1>1, <1>4, Zenon DEF Informed
  <2>2. liveNodes'[g] # Survivors
    BY <2>1 DEF Uninformed
  <2> QED BY <1>1, <2>1, <2>2, UninformedStays, Zenon
<1> QED BY <1>1, <1>2, <1>3, <1>4, Zenon DEF Informed, IsRebuilt

LEMMA NoAbortsStay ==
  ASSUME SameRing, NoAborts,
         \A n \in Survivors : \A item : Holds(n, item)' => Holds(n, item) \/ item.item # "Abort"
  PROVE  NoAborts'
<1>1. Survivors' = Survivors /\ life' = life
  BY RingStays DEF SameRing
<1> QED BY <1>1, Zenon DEF NoAborts

-----------------------------------------------------------------------------
(***************************************************************************)
(* The steps that leave the ring and the reports as they are               *)
(***************************************************************************)
LEMMA QuietKeeps ==
  ASSUME Repairable, SameRing, UNCHANGED <<rebuildData, liveNodes, data>>,
         \A m \in Node : Kept(m),
         \A r \in Survivors : networkBroken'[r] \/ Reporting(r)' <=> networkBroken[r] \/ Reporting(r),
         \A r \in Survivors : networkBroken'[r] => sender'[r].at = "poll",
         \A m \in Survivors : sender'[m].at = "reporting" => sender'[m].current.item = "Boomerang",
         \A m \in Survivors : Busy(m, {"called"}, "NodeDied")' => sender'[m] = sender[m],
         \A m \in Survivors : Closing(m)' => Closing(m),
         \A m \in Survivors : \A item : Holds(m, item)'
           => Holds(m, item) \/ (~IsRebuilt(item) /\ item.item # "Abort")
  PROVE  Repairable'
<1> USE DEF Repairable
<1>1. Survivors' = Survivors /\ \A m \in Survivors : m \in Node
  BY RingStays DEF Survivors
<1>2. Linked' /\ OneRing'
  BY RingStays
<1>3. Reports'
  BY ReportsStay
<1>4. Stopped'
  BY <1>1, StoppedStays DEF Kept
<1>5. Calling'
  <2>1. \A m \in Survivors : Busy(m, {"called"}, "NodeDied") =>
           \A g \in sender[m].current.data.liveNodes \ {m} : Uninformed(g) => Uninformed(g)'
    <3> SUFFICES ASSUME NEW m \in Survivors, Busy(m, {"called"}, "NodeDied"),
                        NEW g \in sender[m].current.data.liveNodes \ {m}, Uninformed(g)
                 PROVE  Uninformed(g)'
      BY Zenon
    <3>1. g \in Survivors
      BY DEF Calling, Segment
    <3>2. liveNodes'[g] # Survivors
      BY DEF Uninformed
    <3> QED BY <1>1, <3>1, <3>2, UninformedStays, Zenon
  <2> QED BY <2>1, CallingStays, Zenon
<1>6. Closed'
  BY ClosedStays
<1>7. NoAborts'
  BY NoAbortsStay
<1>8. Informed'
  BY InformedStays
<1> QED BY <1>2, <1>3, <1>4, <1>5, <1>6, <1>7, <1>8

\* One send thread moves, and not because of a failure.
QuietSender(n) ==
  /\ networkBroken' = networkBroken
  /\ \A m \in Node \ {n} : sender'[m] = sender[m]
  /\ sender[n].at \in {"poll", "sending", "called"}
  /\ sender'[n].at \in {"poll", "sending", "called"}
  /\ networkBroken[n] => sender'[n].at = "poll"
  /\ sender'[n].at = "called" => sender'[n].current.item # "NodeDied"

LEMMA QuietSenderKeeps ==
  ASSUME Repairable, SameRing, NEW n \in Node, QuietSender(n)
  PROVE  /\ \A r \in Survivors : networkBroken'[r] \/ Reporting(r)' <=> networkBroken[r] \/ Reporting(r)
         /\ \A r \in Survivors : networkBroken'[r] => sender'[r].at = "poll"
         /\ \A m \in Survivors : sender'[m].at = "reporting" => sender'[m].current.item = "Boomerang"
         /\ \A m \in Survivors : Busy(m, {"called"}, "NodeDied")' => sender'[m] = sender[m]
         /\ \A m \in Survivors : Closing(m)' => Closing(m)
<1> SUFFICES ASSUME NEW m \in Survivors
             PROVE  /\ networkBroken'[m] \/ Reporting(m)' <=> networkBroken[m] \/ Reporting(m)
                    /\ networkBroken'[m] => sender'[m].at = "poll"
                    /\ sender'[m].at = "reporting" => sender'[m].current.item = "Boomerang"
                    /\ Busy(m, {"called"}, "NodeDied")' => sender'[m] = sender[m]
                    /\ Closing(m)' => Closing(m)
  BY Zenon
<1>1. m \in Node /\ (Up(m)' <=> Up(m))
  BY RingStays DEF Survivors
<1>2. CASE m = n
  BY <1>1, <1>2 DEF QuietSender, Reporting, Closing, Busy
<1>3. CASE m # n
  <2>1. sender'[m] = sender[m] /\ networkBroken'[m] = networkBroken[m]
    BY <1>1, <1>3 DEF QuietSender
  <2>2. /\ networkBroken[m] => sender[m].at = "poll"
        /\ sender[m].at = "reporting" => sender[m].current.item = "Boomerang"
    BY DEF Repairable, Stopped, Calling
  <2> QED BY <1>1, <2>1, <2>2 DEF Reporting, Closing
<1> QED BY <1>2, <1>3

LEMMA SendersOwn ==
  ASSUME Repairable, NEW n \in Survivors
  PROVE  networkBroken[n] => sender[n].at = "poll"
BY DEF Repairable, Stopped

\* A boomerang that is no news of a repair.
LEMMA PlainItems ==
  ASSUME NEW n \in Node, NEW type \in {"PING", "RESULT"}
  PROVE  /\ Right_Boomerang([type |-> type, sourceNode |-> n]).item = "Boomerang"
         /\ ~IsRebuilt(Right_Boomerang([type |-> type, sourceNode |-> n]))
BY DEF Right_Boomerang, IsRebuilt

\* The send thread of n calls its right neighbour with a boomerang.
LEMMA CallsSender ==
  ASSUME TypeOK, Repairable, NEW n \in Node, NEW type, Calls(n, type)
  PROVE  /\ n \in Survivors /\ rightID[n] \in Survivors
         /\ sender[n].at = "sending" /\ sender[n].current.item = "Boomerang"
         /\ sender[n].current.data.type = type
         /\ networkBroken' = networkBroken => QuietSender(n)
         /\ ~SendingReport(n) /\ ~SendingReport(n)'
         /\ Holds(n, sender[n].current)
<1>1. /\ n \in Survivors /\ rightID[n] \in Survivors
      /\ sender[n].at = "sending" /\ sender[n].current.item = "Boomerang"
      /\ sender[n].current.data.type = type
  BY DEF Calls, Busy, Survivors, Up, message, TypeOK
<1>2. sender' = [sender EXCEPT ![n] = [sender[n] EXCEPT !.at = "called"]]
  BY DEF Calls
<1>3. [sender[n] EXCEPT !.at = "called"] = [at |-> "called", current |-> sender[n].current]
  BY <1>1, SenderTypes
<1>4. sender' = [sender EXCEPT ![n] = [at |-> "called", current |-> sender[n].current]]
  BY <1>2, <1>3, Zenon
<1>5. (\A m \in Node \ {n} : sender'[m] = sender[m])
      /\ sender'[n].at = "called" /\ sender'[n].current = sender[n].current
  BY <1>4 DEF TypeOK
<1>6. ~networkBroken[n]
  BY <1>1, SendersOwn
<1>7. networkBroken' = networkBroken => QuietSender(n)
  BY <1>1, <1>5, <1>6 DEF QuietSender
<1> QED BY <1>1, <1>5, <1>7 DEF SendingReport, Holds

LEMMA PingKeeps ==
  ASSUME TypeOK, TypeOK', Repairable, NEW n \in Node, Ping(n) \/ Announce(n)
  PROVE  Repairable'
<1>1. PICK type \in {"PING", "RESULT"} :
        Appends(n, n, Right_Boomerang([type |-> type, sourceNode |-> n]))
  BY StepAppends
<1>2. UNCHANGED <<life, netVars, sender, repoVars>> /\ n \in Survivors
  BY DEF Ping, Announce, Survivors
<1>3. SameRing /\ UNCHANGED <<rebuildData, liveNodes, data, networkBroken, sender>>
  BY <1>2 DEF netVars, repoVars, SameRing
<1>4. \A m \in Node : Kept(m)
  <2> DEFINE new == Right_Boomerang([type |-> type, sourceNode |-> n])
  <2>1. new.item # "NodeDied" /\ new.item # "Abort"
    BY PlainItems
  <2> HIDE DEF new
  <2> SUFFICES ASSUME NEW m \in Node PROVE Kept(m)
    OBVIOUS
  <2>2. SendingReport(m)' <=> SendingReport(m)
    BY <1>3 DEF SendingReport
  <2>3. sendQueue'[m] = sendQueue[m] \/ sendQueue'[m] = Append(sendQueue[m], new)
    BY <1>1 DEF Appends, new, TypeOK
  <2>4. SendingReport(m) => sender'[m].current = sender[m].current
    BY <1>3
  <2> QED BY <2>1, <2>2, <2>3, <2>4, QueueGrows
<1>5. \A m \in Survivors : \A item : Holds(m, item)'
           => Holds(m, item) \/ (~IsRebuilt(item) /\ item.item # "Abort")
  <2>1. \A m \in Node : \A item : Holds(m, item)'
           => Holds(m, item) \/ (m = n /\ item = Right_Boomerang([type |-> type, sourceNode |-> n]))
    BY <1>1, HoldsGrows
  <2>2. \A m \in Survivors : m \in Node
    BY DEF Survivors
  <2> QED BY <2>1, <2>2, PlainItems
<1>6. /\ \A r : Reporting(r)' <=> Reporting(r)
      /\ \A r : Closing(r)' <=> Closing(r)
  BY <1>3, RingStays DEF Reporting, Closing
<1>7. /\ \A r \in Survivors : networkBroken[r] => sender[r].at = "poll"
      /\ \A m \in Survivors : sender[m].at = "reporting" => sender[m].current.item = "Boomerang"
  BY DEF Repairable, Stopped, Calling
<1> QED BY <1>3, <1>4, <1>5, <1>6, <1>7, QuietKeeps, Zenon

LEMMA PopKeeps ==
  ASSUME TypeOK, TypeOK', Repairable, NEW n \in Node, Pop(n)
  PROVE  Repairable'
<1>1. UNCHANGED <<life, netVars, repoVars>> /\ n \in Survivors
  BY DEF Pop, Survivors
<1>2. SameRing /\ UNCHANGED <<rebuildData, liveNodes, data, networkBroken>>
  BY <1>1 DEF netVars, repoVars, SameRing
<1>3. /\ sendQueue[n] # <<>> /\ sender[n] = Polling /\ ~networkBroken[n]
      /\ sender'[n] = [at |-> "sending", current |-> Head(sendQueue[n])]
      /\ sendQueue'[n] = Tail(sendQueue[n])
      /\ \A m \in Node \ {n} : sender'[m] = sender[m] /\ sendQueue'[m] = sendQueue[m]
  BY DEF Pop, TypeOK
<1>4. \A m \in Node : Kept(m)
  <2>1. Kept(n)
    BY <1>3, HeadTaken
  <2>2. ASSUME NEW m \in Node \ {n} PROVE Kept(m)
    <3>1. Right_AbortingBoomerang.item # "NodeDied"
      BY DEF Right_AbortingBoomerang
    <3>2. sendQueue'[m] = sendQueue[m] /\ sender'[m] = sender[m]
      BY <1>3
    <3>3. SendingReport(m)' <=> SendingReport(m)
      BY <3>2 DEF SendingReport
    <3> QED BY <3>1, <3>2, <3>3, QueueGrows
  <2> QED BY <2>1, <2>2
<1>5. QuietSender(n)
  BY <1>2, <1>3 DEF QuietSender, Polling
<1>6. \A m \in Survivors : \A item : Holds(m, item)' => Holds(m, item)
  <2> SUFFICES ASSUME NEW m \in Survivors, NEW item, Holds(m, item)'
               PROVE  Holds(m, item)
    BY Zenon
  <2>1. m \in Node /\ sendQueue[m] \in Seq(QueueItem)
    BY DEF Survivors, TypeOK
  <2>2. CASE m # n
    BY <1>3, <2>1, <2>2 DEF Holds
  <2>3. CASE m = n
    <3>1. Len(sendQueue[n]) \in Nat \ {0} /\ Head(sendQueue[n]) = sendQueue[n][1]
          /\ DOMAIN sendQueue[n] = 1 .. Len(sendQueue[n])
      BY <1>3, <2>1, <2>3
    <3>2. \A i \in DOMAIN Tail(sendQueue[n]) :
            i + 1 \in DOMAIN sendQueue[n] /\ Tail(sendQueue[n])[i] = sendQueue[n][i + 1]
      BY <1>3, <2>1, <2>3
    <3>3. CASE item = sender'[n].current
      <4>1. item = sendQueue[n][1] /\ 1 \in DOMAIN sendQueue[n]
        BY <1>3, <3>1, <3>3
      <4> QED BY <2>3, <4>1, Zenon DEF Holds
    <3>4. CASE \E i \in DOMAIN Tail(sendQueue[n]) : item = Tail(sendQueue[n])[i]
      BY <2>3, <3>2, <3>4, Zenon DEF Holds
    <3> QED BY <1>3, <2>3, <3>3, <3>4 DEF Holds
  <2> QED BY <2>2, <2>3
<1> QED BY <1>2, <1>4, <1>5, <1>6, QuietSenderKeeps, QuietKeeps, Zenon

LEMMA CallKeeps ==
  ASSUME TypeOK, TypeOK', Repairable, NEW n \in Node, CallPing(n) \/ CallResult(n)
  PROVE  Repairable'
<1>1. PICK type \in {"PING", "RESULT"} : Calls(n, type)
  BY DEF CallPing, CallResult
<1>2. UNCHANGED <<life, netVars, repoVars>>
  BY DEF CallPing, CallResult
<1>3. SameRing /\ UNCHANGED <<rebuildData, liveNodes, data, networkBroken>>
  BY <1>2 DEF netVars, repoVars, SameRing
<1>4. /\ n \in Survivors /\ rightID[n] \in Survivors /\ rightID[n] \in Node
      /\ sender[n].current.item = "Boomerang" /\ sender[n].current.data.type = type
      /\ QuietSender(n)
      /\ ~SendingReport(n) /\ ~SendingReport(n)'
  BY <1>1, <1>3, CallsSender DEF Survivors
<1>5. Appends(n, rightID[n], sender[n].current)
  BY StepAppends
<1>6. \A m \in Node : Kept(m)
  <2>1. sender[n].current.item # "NodeDied"
    BY <1>4
  <2> QED BY <1>4, <1>5, <2>1, OtherItemsOnly
<1>7. \A m \in Survivors : \A item : Holds(m, item)'
           => Holds(m, item) \/ (~IsRebuilt(item) /\ item.item # "Abort")
  <2>1. \A m \in Node : \A item : Holds(m, item)'
           => Holds(m, item) \/ (m = rightID[n] /\ item = sender[n].current)
    BY <1>4, <1>5, HoldsGrows
  <2>2. ~IsRebuilt(sender[n].current) /\ sender[n].current.item # "Abort"
    BY <1>4 DEF IsRebuilt
  <2>3. \A m \in Survivors : m \in Node
    BY DEF Survivors
  <2> QED BY <2>1, <2>2, <2>3
<1> QED BY <1>3, <1>4, <1>6, <1>7, QuietSenderKeeps, QuietKeeps, Zenon

LEMMA RepliedKeeps ==
  ASSUME TypeOK, TypeOK', Repairable, NEW n \in Node, Replied(n)
  PROVE  Repairable'
<1>1. SameRing /\ UNCHANGED <<rebuildData, liveNodes, data, networkBroken, sendQueue>>
  BY DEF Replied, netVars, repoVars, SameRing
<1>2. /\ sender[n].at = "called" /\ sender'[n] = Polling
      /\ \A m \in Node \ {n} : sender'[m] = sender[m]
  BY DEF Replied, TypeOK
<1>3. QuietSender(n)
  BY <1>1, <1>2 DEF QuietSender, Polling
<1>4. \A m \in Node : Kept(m)
  <2> SUFFICES ASSUME NEW m \in Node PROVE Kept(m)
    OBVIOUS
  <2>1. Right_AbortingBoomerang.item # "NodeDied"
    BY DEF Right_AbortingBoomerang
  <2>2. sendQueue'[m] = sendQueue[m]
    BY <1>1
  <2>3. (SendingReport(m)' <=> SendingReport(m)) /\ (SendingReport(m) => sender'[m].current = sender[m].current)
    BY <1>2 DEF SendingReport, Polling
  <2> QED BY <2>1, <2>2, <2>3, QueueGrows
<1>5. \A m \in Survivors : \A item : Holds(m, item)' => Holds(m, item)
  BY <1>1, <1>2 DEF Holds, Survivors, Polling
<1> QED BY <1>1, <1>3, <1>4, <1>5, QuietSenderKeeps, QuietKeeps, Zenon

LEMMA MarkBrokenKeeps ==
  ASSUME TypeOK, TypeOK', Repairable, NEW n \in Node, MarkBroken(n)
  PROVE  Repairable'
<1>1. SameRing /\ UNCHANGED <<rebuildData, liveNodes, data>> /\ n \in Survivors
  BY DEF MarkBroken, repoVars, SameRing, Survivors
<1>2. /\ sender[n].at = "reporting" /\ sender'[n] = Polling
      /\ sendQueue'[n] = <<sender[n].current>> \o sendQueue[n]
      /\ networkBroken'[n] = TRUE
      /\ \A m \in Node \ {n} :
           sender'[m] = sender[m] /\ sendQueue'[m] = sendQueue[m] /\ networkBroken'[m] = networkBroken[m]
  BY DEF MarkBroken, TypeOK
<1>3. sender[n].current.item = "Boomerang" /\ sender[n].current \in QueueItem
  BY <1>1, <1>2, SenderFields DEF Repairable, Calling
<1>4. \A m \in Node : Kept(m)
  <2>1. Kept(n)
    BY <1>2, <1>3, PutBack
  <2>2. ASSUME NEW m \in Node \ {n} PROVE Kept(m)
    <3>1. Right_AbortingBoomerang.item # "NodeDied"
      BY DEF Right_AbortingBoomerang
    <3>2. sendQueue'[m] = sendQueue[m] /\ sender'[m] = sender[m]
      BY <1>2
    <3>3. SendingReport(m)' <=> SendingReport(m)
      BY <3>2 DEF SendingReport
    <3> QED BY <3>1, <3>2, <3>3, QueueGrows
  <2> QED BY <2>1, <2>2
<1>5. ASSUME NEW m \in Survivors
      PROVE  /\ networkBroken'[m] \/ Reporting(m)' <=> networkBroken[m] \/ Reporting(m)
             /\ networkBroken'[m] => sender'[m].at = "poll"
             /\ sender'[m].at = "reporting" => sender'[m].current.item = "Boomerang"
             /\ Busy(m, {"called"}, "NodeDied")' => sender'[m] = sender[m]
             /\ Closing(m)' => Closing(m)
  <2>1. m \in Node /\ (Up(m)' <=> Up(m)) /\ Up(m)
    BY <1>1, RingStays DEF Survivors
  <2>2. CASE m = n
    BY <1>2, <2>1, <2>2 DEF Reporting, Closing, Busy, Polling
  <2>3. CASE m # n
    <3>1. sender'[m] = sender[m] /\ networkBroken'[m] = networkBroken[m]
      BY <1>2, <2>1, <2>3
    <3>2. /\ networkBroken[m] => sender[m].at = "poll"
          /\ sender[m].at = "reporting" => sender[m].current.item = "Boomerang"
      BY DEF Repairable, Stopped, Calling
    <3> QED BY <2>1, <3>1, <3>2 DEF Reporting, Closing
  <2> QED BY <2>2, <2>3
<1>6. \A m \in Survivors : \A item : Holds(m, item)' => Holds(m, item)
  <2> SUFFICES ASSUME NEW m \in Survivors, NEW item, Holds(m, item)'
               PROVE  Holds(m, item)
    BY Zenon
  <2>1. m \in Node /\ sendQueue[m] \in Seq(QueueItem)
    BY DEF Survivors, TypeOK
  <2>2. CASE m # n
    BY <1>2, <2>1, <2>2 DEF Holds
  <2>3. CASE m = n
    <3>1. PICK current \in QueueItem : current = sender[n].current
      BY <1>3
    <3>2. <<current>> \in Seq(QueueItem) /\ Len(<<current>>) = 1 /\ <<current>>[1] = current
      BY <3>1
    <3>3. /\ Len(sendQueue'[n]) = 1 + Len(sendQueue[n]) /\ Len(sendQueue[n]) \in Nat
          /\ sendQueue'[n][1] = current
          /\ \A i \in 1 .. Len(sendQueue[n]) : sendQueue'[n][i + 1] = sendQueue[n][i]
          /\ DOMAIN sendQueue'[n] = 1 .. Len(sendQueue'[n])
      BY <1>2, <2>1, <2>3, <3>1, <3>2 DEF TypeOK
    <3>4. PICK i \in DOMAIN sendQueue'[n] : item = sendQueue'[n][i]
      <4>1. sender'[n].at = "poll"
        BY <1>2 DEF Polling
      <4> QED BY <2>3, <4>1 DEF Holds
    <3>5. CASE i = 1
      <4>1. item = sender[n].current
        BY <3>1, <3>3, <3>4, <3>5
      <4> QED BY <1>2, <2>3, <4>1 DEF Holds
    <3>6. CASE i # 1
      <4>1. PICK j \in 1 .. Len(sendQueue[n]) : i = j + 1
        <5>1. i - 1 \in 1 .. Len(sendQueue[n]) /\ i = (i - 1) + 1
          BY <3>3, <3>4, <3>6
        <5> QED BY <5>1
      <4>2. item = sendQueue[n][j] /\ j \in DOMAIN sendQueue[n]
        BY <2>1, <2>3, <3>3, <3>4, <4>1
      <4> QED BY <2>3, <4>2, Zenon DEF Holds
    <3> QED BY <3>5, <3>6
  <2> QED BY <2>2, <2>3
<1> QED BY <1>1, <1>4, <1>5, <1>6, QuietKeeps, Zenon

-----------------------------------------------------------------------------
(***************************************************************************)
(* The steps that tell a node who has survived                             *)
(***************************************************************************)
LEMMA CallNetworkRebuiltKeeps ==
  ASSUME TypeOK, TypeOK', Repairable, NEW n \in Node, CallNetworkRebuilt(n)
  PROVE  Repairable'
<1> DEFINE r == rightID[n]
           item0 == sender[n].current
<1>1. SameRing /\ UNCHANGED <<rebuildData, networkBroken>> /\ Calls(n, "NETWORK_REBUILT")
  BY DEF CallNetworkRebuilt, netVars, SameRing
<1>2. /\ n \in Survivors /\ r \in Survivors /\ r \in Node
      /\ sender[n].at = "sending" /\ item0.item = "Boomerang" /\ IsRebuilt(item0)
      /\ QuietSender(n)
      /\ ~SendingReport(n) /\ ~SendingReport(n)'
      /\ Holds(n, item0)
  BY <1>1, CallsSender DEF Survivors, IsRebuilt
<1>3. Appends(n, r, item0)
  BY StepAppends
<1>4. \A m \in Node : Kept(m)
  <2>1. item0.item # "NodeDied"
    BY <1>2
  <2> QED BY <1>2, <1>3, <2>1, OtherItemsOnly
<1>5. \A m \in Node : \A item : Holds(m, item)' => Holds(m, item) \/ (m = r /\ item = item0)
  BY <1>2, <1>3, HoldsGrows
<1>6. /\ \A m \in Node \ {r} : liveNodes'[m] = liveNodes[m] /\ data'[m] = data[m]
      /\ liveNodes'[r] \in {liveNodes[r], item0.data.nodeIDs}
      /\ data'[r] \in {data[r], data[r] \cap item0.data.compIDs}
  BY <1>2 DEF CallNetworkRebuilt, SetSurvivors, repoVars, message, TypeOK
<1> HIDE DEF r, item0
<1>7. Survivors' = Survivors /\ (\A m : Broken(m)' <=> Broken(m)) /\ \A m \in Survivors : m \in Node
  BY <1>1, RingStays DEF Survivors
<1>8. \A k \in Survivors : k \in item0.data.nodeIDs /\ currentID[k] \in item0.data.compIDs
  BY <1>2, Zenon DEF Repairable, Informed
<1>9. ASSUME NEW g \in Survivors, Uninformed(g), g = r => Uninformed(n)
      PROVE  Uninformed(g)'
  <2>1. CASE g # r
    <3>1. liveNodes'[g] # Survivors
      BY <1>6, <1>7, <1>9, <2>1 DEF Uninformed
    <3>2. \A item : Holds(g, item)' => Holds(g, item)
      BY <1>5, <1>7, <2>1
    <3> QED BY <1>7, <1>9, <3>1, <3>2, UninformedStays, Zenon
  <2>2. CASE g = r
    <3>1. item0.data.nodeIDs # Survivors
      BY <1>2, <1>9, <2>2, Zenon DEF Uninformed
    <3>2. liveNodes'[g] # Survivors
      BY <1>6, <1>9, <2>2, <3>1 DEF Uninformed
    <3>3. \A item : Holds(g, item)' => Holds(g, item) \/ item.data.nodeIDs # Survivors
      BY <1>5, <1>7, <3>1
    <3> QED BY <1>7, <1>9, <3>2, <3>3, UninformedStays, Zenon
  <2> QED BY <2>1, <2>2
<1>10. /\ \A m \in Survivors : networkBroken'[m] \/ Reporting(m)' <=> networkBroken[m] \/ Reporting(m)
       /\ \A m \in Survivors : networkBroken'[m] => sender'[m].at = "poll"
       /\ \A m \in Survivors : sender'[m].at = "reporting" => sender'[m].current.item = "Boomerang"
       /\ \A m \in Survivors : Busy(m, {"called"}, "NodeDied")' => sender'[m] = sender[m]
       /\ \A m \in Survivors : Closing(m)' => Closing(m)
  BY <1>1, <1>2, QuietSenderKeeps
<1>11. Linked' /\ OneRing'
  BY <1>1, RingStays DEF Repairable
<1>12. Reports'
  BY <1>1, <1>4, ReportsStay DEF Repairable
<1>13. Stopped'
  <2>1. \A m \in Survivors : HasReport(m)' <=> HasReport(m)
    BY <1>4, <1>7 DEF Kept
  <2> QED BY <1>1, <1>10, <2>1, StoppedStays, Zenon DEF Repairable
<1>14. Calling'
  <2>1. ASSUME NEW m \in Survivors, Busy(m, {"called"}, "NodeDied"),
               NEW g \in sender[m].current.data.liveNodes \ {m}, Uninformed(g)
        PROVE  Uninformed(g)'
    <3> DEFINE report == sender[m].current.data
    <3>1. Segment(m, report) /\ \A k \in report.liveNodes \ {m} : Uninformed(k)
      BY <2>1 DEF Repairable, Calling
    <3>2. g \in Survivors
      BY <2>1, <3>1 DEF Segment
    <3>3. ASSUME g = r PROVE Uninformed(n)
      <4>1. leftID[g] = n
        BY <1>2, <3>3 DEF Repairable, Linked, Survivors, r
      <4>2. n \in report.liveNodes
        BY <2>1, <3>1, <4>1 DEF Segment
      <4>3. n # m
        BY <1>2, <2>1 DEF Busy
      <4> QED BY <3>1, <4>2, <4>3
    <3> QED BY <1>9, <2>1, <3>2, <3>3
  <2>2. Calling
    BY DEF Repairable
  <2> QED BY <1>1, <1>10, <2>1, <2>2, CallingStays, Zenon
<1>15. Closed'
  BY <1>1, <1>10, ClosedStays DEF Repairable
<1>16. NoAborts'
  <2>1. \A m \in Survivors : \A item : Holds(m, item)' => Holds(m, item) \/ item.item # "Abort"
    BY <1>2, <1>5, <1>7
  <2> QED BY <1>1, <2>1, NoAbortsStay DEF Repairable
<1>17. Informed'
  <2>1. NoneForgotten'
    <3>1. \A k, m \in Survivors : k \in liveNodes'[m]
      BY <1>6, <1>7, <1>8 DEF Repairable, Informed, NoneForgotten
    <3> QED BY <1>7, <3>1 DEF NoneForgotten
  <2>2. OwnComputationKept'
    <3>1. \A m \in Survivors : currentID[m] \in data'[m]
      BY <1>6, <1>7, <1>8 DEF Repairable, Informed, OwnComputationKept
    <3> QED BY <1>7, <3>1 DEF OwnComputationKept
  <2>3. \A m, k \in Survivors : \A item : Holds(m, item)' /\ IsRebuilt(item) =>
          k \in item.data.nodeIDs /\ currentID[k] \in item.data.compIDs
    <3>1. \A m, k \in Survivors : \A item : Holds(m, item) /\ IsRebuilt(item) =>
            k \in item.data.nodeIDs /\ currentID[k] \in item.data.compIDs
      BY DEF Repairable, Informed
    <3> QED BY <1>5, <1>7, <1>8, <3>1
  <2>4. ASSUME \E m \in Survivors : Broken(m)' \/ Closing(m)', NEW g \in Survivors
        PROVE  Uninformed(g)'
    <3>1. \A m \in Survivors : Uninformed(m)
      BY <1>7, <1>10, <2>4 DEF Repairable, Informed
    <3> QED BY <1>2, <1>9, <3>1
  <2> QED BY <1>7, <2>1, <2>2, <2>3, <2>4, Zenon DEF Informed, IsRebuilt
<1> QED BY <1>11, <1>12, <1>13, <1>14, <1>15, <1>16, <1>17 DEF Repairable

LEMMA AnnounceRebuiltKeeps ==
  ASSUME TypeOK, TypeOK', Repairable, NEW n \in Node, AnnounceRebuilt(n)
  PROVE  Repairable'
<1> DEFINE found == rebuildData[n]
<1>1. SameRing /\ UNCHANGED <<rebuildData, networkBroken>> /\ n \in Survivors /\ Closing(n)
  BY DEF AnnounceRebuilt, netVars, SameRing, Survivors, Closing
<1>2. /\ sender[n].at = "closing" /\ sender'[n] = Polling
      /\ \A m \in Node \ {n} : sender'[m] = sender[m]
  BY DEF AnnounceRebuilt, TypeOK
<1>3. Appends(n, n, Rebuilt(n))
  BY StepAppends
<1>4. /\ Rebuilt(n).item = "Boomerang" /\ Rebuilt(n).data.nodeIDs = found.liveNodes
      /\ Rebuilt(n).data.compIDs = found.liveCompIDs
  BY DEF Rebuilt, Right_Boomerang
<1>5. \A m \in Node : Kept(m)
  <2>1. ~SendingReport(n) /\ ~SendingReport(n)'
    BY <1>2 DEF SendingReport, Polling
  <2>2. Rebuilt(n).item # "NodeDied"
    BY <1>4
  <2> QED BY <1>3, <2>1, <2>2, OtherItemsOnly
<1>6. \A m \in Node : \A item : Holds(m, item)' => Holds(m, item) \/ (m = n /\ item = Rebuilt(n))
  BY <1>3, HoldsGrows
<1>7. /\ \A m \in Node \ {n} : liveNodes'[m] = liveNodes[m] /\ data'[m] = data[m]
      /\ liveNodes'[n] = found.liveNodes
      /\ data'[n] = data[n] \cap found.liveCompIDs
  BY DEF AnnounceRebuilt, SetSurvivors, TypeOK
<1> HIDE DEF found
<1>8. Survivors' = Survivors /\ (\A m : Broken(m)' <=> Broken(m)) /\ \A m \in Survivors : m \in Node
  BY <1>1, RingStays DEF Survivors
<1>9. /\ \A k \in Survivors : Up(rightID[k]) /\ k \in found.liveNodes /\ currentID[k] \in found.liveCompIDs
      /\ \A b \in Survivors : Closing(b) => b = n
  BY <1>1, Zenon DEF Repairable, Closed, found
<1>10. /\ \A m \in Survivors : ~Broken(m)
       /\ \A m \in Survivors : ~Closing(m)'
  <2>1. \A m \in Survivors : ~Broken(m)
    BY <1>9 DEF Broken
  <2>2. \A m \in Survivors : m # n => (Closing(m)' => Closing(m))
    BY <1>1, <1>2, <1>8, RingStays DEF Closing
  <2>3. ~Closing(n)'
    BY <1>2 DEF Closing, Polling
  <2> QED BY <1>9, <2>1, <2>2, <2>3
<1>11. ASSUME NEW m \in Survivors
       PROVE  /\ networkBroken'[m] \/ Reporting(m)' <=> networkBroken[m] \/ Reporting(m)
              /\ networkBroken'[m] => sender'[m].at = "poll"
              /\ sender'[m].at = "reporting" => sender'[m].current.item = "Boomerang"
              /\ Busy(m, {"called"}, "NodeDied")' => sender'[m] = sender[m]
  <2>1. m \in Node /\ (Up(m)' <=> Up(m))
    BY <1>1, <1>8, RingStays
  <2>2. CASE m = n
    BY <1>1, <1>2, <2>1, <2>2 DEF Reporting, Busy, Polling
  <2>3. CASE m # n
    <3>1. sender'[m] = sender[m] /\ networkBroken'[m] = networkBroken[m]
      BY <1>1, <1>2, <2>1, <2>3
    <3>2. /\ networkBroken[m] => sender[m].at = "poll"
          /\ sender[m].at = "reporting" => sender[m].current.item = "Boomerang"
      BY DEF Repairable, Stopped, Calling
    <3> QED BY <2>1, <3>1, <3>2 DEF Reporting
  <2> QED BY <2>2, <2>3
<1>12. Linked' /\ OneRing'
  BY <1>1, RingStays DEF Repairable
<1>13. Reports'
  BY <1>1, <1>5, ReportsStay DEF Repairable
<1>14. Stopped'
  <2>1. \A m \in Survivors : HasReport(m)' <=> HasReport(m)
    BY <1>5, <1>8 DEF Kept
  <2> QED BY <1>1, <1>11, <2>1, StoppedStays, Zenon DEF Repairable
<1>15. Calling'
  <2>1. ASSUME NEW m \in Survivors, Busy(m, {"called"}, "NodeDied"),
               NEW g \in sender[m].current.data.liveNodes \ {m}, Uninformed(g)
        PROVE  Uninformed(g)'
    <3> DEFINE report == sender[m].current.data
    <3>1. Segment(m, report) /\ \A b \in report.liveNodes : ~Closing(b)
      BY <2>1 DEF Repairable, Calling
    <3>2. g \in Survivors /\ g # n
      BY <1>1, <2>1, <3>1 DEF Segment
    <3>3. liveNodes'[g] # Survivors
      BY <1>7, <1>8, <2>1, <3>2 DEF Uninformed
    <3>4. \A item : Holds(g, item)' => Holds(g, item)
      BY <1>6, <1>8, <3>2
    <3> QED BY <1>8, <2>1, <3>3, <3>4, UninformedStays, Zenon
  <2>2. Calling
    BY DEF Repairable
  <2> QED BY <1>1, <1>10, <1>11, <2>1, <2>2, CallingStays, Zenon
<1>16. Closed'
  BY <1>1, <1>10, ClosedStays DEF Repairable
<1>17. NoAborts'
  <2>1. \A m \in Survivors : \A item : Holds(m, item)' => Holds(m, item) \/ item.item # "Abort"
    BY <1>4, <1>6, <1>8
  <2> QED BY <1>1, <2>1, NoAbortsStay DEF Repairable
<1>18. Informed'
  <2>1. NoneForgotten'
    <3>1. \A k, m \in Survivors : k \in liveNodes'[m]
      BY <1>7, <1>8, <1>9 DEF Repairable, Informed, NoneForgotten
    <3> QED BY <1>8, <3>1 DEF NoneForgotten
  <2>2. OwnComputationKept'
    <3>1. \A m \in Survivors : currentID[m] \in data'[m]
      BY <1>7, <1>8, <1>9 DEF Repairable, Informed, OwnComputationKept
    <3> QED BY <1>8, <3>1 DEF OwnComputationKept
  <2>3. \A m, k \in Survivors : \A item : Holds(m, item)' /\ IsRebuilt(item) =>
          k \in item.data.nodeIDs /\ currentID[k] \in item.data.compIDs
    <3>1. \A m, k \in Survivors : \A item : Holds(m, item) /\ IsRebuilt(item) =>
            k \in item.data.nodeIDs /\ currentID[k] \in item.data.compIDs
      BY DEF Repairable, Informed
    <3> QED BY <1>4, <1>6, <1>8, <1>9, <3>1
  <2>4. ~ \E m \in Survivors : Broken(m)' \/ Closing(m)'
    BY <1>8, <1>10
  <2> QED BY <1>8, <2>1, <2>2, <2>3, <2>4, Zenon DEF Informed, IsRebuilt
<1> QED BY <1>12, <1>13, <1>14, <1>15, <1>16, <1>17, <1>18 DEF Repairable

-----------------------------------------------------------------------------
(***************************************************************************)
(* The steps that pass a report on                                         *)
(***************************************************************************)
LEMMA SendsReport ==
  ASSUME TypeOK, NEW m \in Node, SendingReport(m)
  PROVE  HasReport(m) /\ (OneReport(m) => sender[m].current.data = rebuildData[m])
<1>1. 0 \in ReportsAt(m) /\ ItemAt(m, 0) = sender[m].current
  BY ReportPlaces DEF PlacesOfReports
<1> QED BY <1>1, Zenon DEF HasReport, OneReport

\* While the ring is broken nobody knows who survives, and nobody closes it.
LEMMA WhileBroken ==
  ASSUME Repairable, NEW x \in Survivors, Broken(x)
  PROVE  \A g \in Survivors : Uninformed(g) /\ ~Closing(g)
BY Zenon DEF Repairable, Informed, Closed, Broken

LEMMA ReportPassed ==
  ASSUME TypeOK, TypeOK', Repairable, SameRing,
         NEW n \in Survivors, NEW g \in Survivors, n # g, NEW report,
         Appends(n, g, Left_NodeDied(report)),
         sendQueue' = [sendQueue EXCEPT ![g] = Append(@, Left_NodeDied(report))],
         rebuildData' = [rebuildData EXCEPT ![g] = report],
         UNCHANGED <<liveNodes, data>>,
         sender'[n].at # "closing",
         Segment(g, report), Broken(report.reportNodeID),
         \A m \in Survivors \ {n} : ~HasReport(m),
         ~HasReport(n)'
  PROVE  /\ Linked' /\ OneRing' /\ Reports' /\ Closed' /\ NoAborts' /\ Informed'
         /\ HasReport(g)'
         /\ \A m \in Survivors : Uninformed(m)'
         /\ \A m \in Survivors : ~Closing(m)'
<1>1. /\ Survivors' = Survivors /\ (\A m : Broken(m)' <=> Broken(m)) /\ (\A m : Up(m)' <=> Up(m))
      /\ \A m \in Survivors : m \in Node
  BY RingStays DEF Survivors
<1>2. report.reportNodeID \in Survivors
  BY DEF Segment
<1>3. \A m \in Survivors : Uninformed(m) /\ ~Closing(m)
  BY <1>2, WhileBroken
<1>4. /\ Left_NodeDied(report).item = "NodeDied"
      /\ ~IsRebuilt(Left_NodeDied(report))
  BY DEF Left_NodeDied, IsRebuilt
<1>5. \A m \in Node : \A item : Holds(m, item)' => Holds(m, item) \/ (m = g /\ item = Left_NodeDied(report))
  BY <1>1, HoldsGrows
<1>6. \A m \in Survivors : ~Closing(m)'
  <2> SUFFICES ASSUME NEW m \in Survivors PROVE ~Closing(m)'
    OBVIOUS
  <2>1. CASE m = n
    BY <2>1 DEF Closing
  <2>2. CASE m # n
    BY <1>1, <1>3, <2>2 DEF Closing, Appends
  <2> QED BY <2>1, <2>2
<1>7. HasReport(g)' /\ OneReport(g)'
  <2>1. ~HasReport(g) /\ ~SendingReport(g)
    BY <1>1, SendsReport
  <2>2. sender'[g] = sender[g]
    BY <1>1 DEF Appends
  <2>3. ~SendingReport(g)'
    BY <2>1, <2>2 DEF SendingReport
  <2>4. sendQueue'[g] = Append(sendQueue[g], Left_NodeDied(report)) /\ rebuildData'[g] = report
    BY <1>1 DEF TypeOK
  <2> QED BY <1>1, <2>1, <2>3, <2>4, ReportComes
<1>8. ASSUME NEW m \in Survivors, m # g PROVE ~HasReport(m)'
  <2>1. CASE m # n
    <3>1. Kept(m)
      BY <1>1, <1>8, <2>1, ReportsKept
    <3> QED BY <2>1, <3>1 DEF Kept
  <2>2. CASE m = n
    BY <2>2 DEF HasReport, ReportsAt, ItemAt
  <2> QED BY <2>1, <2>2
<1>9. Reports'
  <2>1. ASSUME NEW m \in Survivors
        PROVE  /\ OneReport(m)'
               /\ HasReport(m)' => Segment(m, rebuildData[m])' /\ Broken(reportNodeID(m))'
    <3>1. CASE m # g
      <4>1. ~HasReport(m)'
        BY <1>8, <3>1
      <4> QED BY <4>1, Zenon DEF HasReport, OneReport
    <3>2. CASE m = g
      <4>1. rebuildData'[m] = report
        BY <1>1, <3>2 DEF TypeOK
      <4>2. Segment(m, report)'
        BY <3>2, RingStays
      <4>3. Segment(m, rebuildData[m])'
        BY <4>1, <4>2 DEF Segment
      <4>4. Broken(reportNodeID(m))'
        BY <1>1, <4>1 DEF reportNodeID
      <4>5. OneReport(m)'
        BY <1>7, <3>2 DEF OneReport, ReportsAt, ItemAt
      <4> QED BY <4>3, <4>4, <4>5
    <3> QED BY <3>1, <3>2
  <2>2. \A m, k \in Survivors : HasReport(m)' /\ HasReport(k)' => m = k
    BY <1>8
  <2> QED BY <1>1, <2>1, <2>2, Zenon DEF Reports
<1>10. Closed'
  BY <1>6, ClosedStays DEF Repairable
<1>11. NoAborts'
  <2>1. \A m \in Survivors : \A item : Holds(m, item)' => Holds(m, item) \/ item.item # "Abort"
    BY <1>1, <1>4, <1>5
  <2> QED BY <2>1, NoAbortsStay DEF Repairable
<1>12. \A m \in Survivors : \A item : Holds(m, item)' => Holds(m, item) \/ ~IsRebuilt(item)
  BY <1>1, <1>4, <1>5
<1>13. Informed'
  BY <1>6, <1>12, InformedStays DEF Repairable
<1>14. ASSUME NEW m \in Survivors PROVE Uninformed(m)'
  <2>1. liveNodes'[m] # Survivors
    BY <1>3 DEF Uninformed
  <2> QED BY <1>1, <1>3, <1>12, <2>1, UninformedStays, Zenon
<1> QED BY <1>6, <1>7, <1>9, <1>10, <1>11, <1>13, <1>14, RingStays DEF Repairable

\* A ring of one has no gap.
LEMMA NotItsOwnNeighbour ==
  ASSUME TypeOK, Repairable, NEW n \in Survivors, NEW x \in Survivors, Broken(x),
         Up(leftID[n]), HasReport(n) \/ n = x
  PROVE  leftID[n] # n /\ leftID[n] \in Survivors /\ rightID[leftID[n]] = n
<1>1. leftID[n] \in Survivors /\ rightID[leftID[n]] = n
  BY DEF Survivors, TypeOK, Repairable, Linked
<1>2. ASSUME leftID[n] = n PROVE FALSE
  <2>1. rightID[n] = n
    BY <1>1, <1>2
  <2>2. ~Broken(n)
    BY <2>1 DEF Broken, Survivors
  <2>3. HasReport(n)
    BY <2>2
  <2>4. Segment(n, rebuildData[n])
    BY <2>3 DEF Repairable, Reports
  <2>5. GoesRound({n})
    BY <2>1, <2>2, Zenon DEF GoesRound
  <2>6. {n} = Survivors
    BY <2>5 DEF Repairable, OneRing
  <2> QED BY <2>4, <2>6 DEF Segment
<1> QED BY <1>1, <1>2

LEMMA ReportDeadRightNodeKeeps ==
  ASSUME TypeOK, TypeOK', Repairable, NEW n \in Node, ReportDeadRightNode(n)
  PROVE  Repairable'
<1>0. PICK g : g = leftID[n]
  OBVIOUS
<1>00. PICK report : report = Gathered(g, FirstReport(n))
  OBVIOUS
<1>1. /\ SameRing /\ UNCHANGED <<liveNodes, data, networkBroken>>
      /\ n \in Survivors /\ Up(g) /\ g \in Node
      /\ sender[n].at \in {"sending", "called"} /\ sender[n].current.item = "Boomerang"
      /\ Broken(n)
  BY <1>0 DEF ReportDeadRightNode, RightCommFailure, Busy, repoVars, SameRing, Survivors, Broken, TypeOK
<1>2. /\ sendQueue' = [sendQueue EXCEPT ![g] = Append(@, Left_NodeDied(report))]
      /\ rebuildData' = [rebuildData EXCEPT ![g] = report]
  BY <1>0, <1>00 DEF ReportDeadRightNode, NodeDied, Enqueue, FirstReport
<1>3. Appends(n, g, Left_NodeDied(report))
  BY <1>0, <1>00, StepAppends
<1>4. sender'[n] = [at |-> "reporting", current |-> sender[n].current]
  <2>1. sender' = [sender EXCEPT ![n] = [sender[n] EXCEPT !.at = "reporting"]]
    BY DEF ReportDeadRightNode
  <2>2. [sender[n] EXCEPT !.at = "reporting"] = [at |-> "reporting", current |-> sender[n].current]
    BY <1>1, SenderTypes
  <2> QED BY <2>1, <2>2 DEF TypeOK
<1>5. g # n /\ g \in Survivors /\ rightID[g] = n
  BY <1>0, <1>1, NotItsOwnNeighbour
<1>6. report.reportNodeID = n /\ report.liveNodes = {n, g} /\ report.liveCompIDs = {currentID[n], currentID[g]}
  BY <1>00 DEF Gathered, FirstReport
<1>7. Segment(g, report)
  BY <1>0, <1>1, <1>5, <1>6 DEF Segment
<1>8. \A m \in Survivors : ~HasReport(m)
  <2>1. ~networkBroken[n] /\ ~Reporting(n)
    BY <1>1, SendersOwn DEF Reporting
  <2> QED BY <1>1, <2>1 DEF Repairable, Stopped
<1>9. ~HasReport(n)'
  <2>1. ~SendingReport(n) /\ ~SendingReport(n)'
    BY <1>1, <1>4 DEF SendingReport
  <2>2. Kept(n)
    BY <1>1, <1>3, <1>5, <2>1, ReportsKept
  <2> QED BY <1>1, <1>8, <2>2 DEF Kept
<1>10. Broken(report.reportNodeID) /\ n # g /\ \A m \in Survivors \ {n} : ~HasReport(m)
  BY <1>1, <1>5, <1>6, <1>8
<1>11. sender'[n].at # "closing"
  BY <1>4
<1>12. /\ Linked' /\ OneRing' /\ Reports' /\ Closed' /\ NoAborts' /\ Informed'
       /\ HasReport(g)'
       /\ \A m \in Survivors : Uninformed(m)'
       /\ \A m \in Survivors : ~Closing(m)'
  <2>1. SameRing /\ g \in Survivors /\ n \in Survivors /\ UNCHANGED <<liveNodes, data>>
    BY <1>1, <1>5
  <2> QED BY <1>2, <1>3, <1>7, <1>9, <1>10, <1>11, <2>1, ReportPassed, Zenon
<1>13. /\ Survivors' = Survivors /\ (\A m : Broken(m)' <=> Broken(m)) /\ (\A m : Up(m)' <=> Up(m))
       /\ \A m \in Survivors : m \in Node
       /\ \A m \in Node \ {n} : sender'[m] = sender[m]
  BY <1>1, <1>3, RingStays DEF Survivors, Appends
<1>14. Stopped'
  <2>1. ASSUME NEW r \in Survivors, networkBroken'[r] \/ Reporting(r)'
        PROVE  Broken(r)' /\ \E m \in Survivors : HasReport(m)'
    <3>1. CASE r = n
      <4>1. Broken(r)'
        BY <1>1, <1>13, <3>1
      <4> QED BY <1>5, <1>12, <4>1, Zenon
    <3>2. CASE r # n
      <4>1. networkBroken[r] \/ Reporting(r)
        BY <1>1, <1>13, <2>1, <3>2 DEF Reporting
      <4> QED BY <1>8, <4>1 DEF Repairable, Stopped
    <3> QED BY <3>1, <3>2
  <2>2. \A r \in Survivors : Broken(r) => r = n
    BY <1>1 DEF Repairable, Linked
  <2>3. Reporting(n)'
    BY <1>1, <1>4, <1>13 DEF Reporting, Survivors
  <2>4. ASSUME NEW r \in Survivors, networkBroken'[r] PROVE sender'[r].at = "poll"
    <3>1. networkBroken[r] /\ sender[r].at = "poll"
      BY <1>1, <2>4 DEF Repairable, Stopped
    <3> QED BY <1>1, <1>13, <3>1
  <2> QED BY <1>13, <2>1, <2>2, <2>3, <2>4 DEF Stopped
<1>15. Calling'
  <2>1. ASSUME NEW m \in Survivors
        PROVE  /\ sender'[m].at = "reporting" => sender'[m].current.item = "Boomerang"
               /\ Busy(m, {"called"}, "NodeDied")' => sender'[m] = sender[m]
    <3>1. CASE m = n
      BY <1>1, <1>4, <3>1 DEF Busy
    <3>2. CASE m # n
      BY <1>13, <3>2 DEF Repairable, Calling
    <3> QED BY <3>1, <3>2
  <2>2. \A m \in Survivors : Busy(m, {"called"}, "NodeDied") =>
           \A k \in sender[m].current.data.liveNodes \ {m} : Uninformed(k) => Uninformed(k)'
    BY <1>12 DEF Repairable, Calling, Segment
  <2>3. Calling
    BY DEF Repairable
  <2> QED BY <1>1, <1>12, <2>1, <2>2, <2>3, CallingStays, Zenon
<1> QED BY <1>12, <1>14, <1>15 DEF Repairable

LEMMA CallNodeDiedKeeps ==
  ASSUME TypeOK, TypeOK', Repairable, NEW n \in Node, CallNodeDied(n)
  PROVE  Repairable'
<1>0. PICK g, found : g = leftID[n] /\ found = rebuildData[n]
  OBVIOUS
<1>00. PICK report : report = Gathered(g, found)
  OBVIOUS
<1>1. /\ SameRing /\ UNCHANGED <<liveNodes, data, networkBroken>>
      /\ n \in Survivors /\ Up(g) /\ g \in Node
      /\ SendingReport(n)
  BY <1>0 DEF CallNodeDied, Busy, repoVars, SameRing, Survivors, SendingReport, TypeOK
<1>2. HasReport(n) /\ OneReport(n) /\ sender[n].current.data = found
  BY <1>0, <1>1, SendsReport DEF Repairable, Reports
<1>3. /\ sendQueue' = [sendQueue EXCEPT ![g] = Append(@, Left_NodeDied(report))]
      /\ rebuildData' = [rebuildData EXCEPT ![g] = report]
  BY <1>0, <1>00, <1>2 DEF CallNodeDied, NodeDied, Enqueue
<1>4. Appends(n, g, Left_NodeDied(report))
  BY <1>0, <1>00, <1>2, StepAppends
<1>5. sender'[n] = [at |-> "called", current |-> sender[n].current]
  <2>1. sender' = [sender EXCEPT ![n] = [sender[n] EXCEPT !.at = "called"]]
    BY DEF CallNodeDied
  <2>2. [sender[n] EXCEPT !.at = "called"] = [at |-> "called", current |-> sender[n].current]
    BY <1>1, SenderTypes DEF SendingReport
  <2> QED BY <2>1, <2>2 DEF TypeOK
<1>6. Segment(n, found) /\ Broken(found.reportNodeID) /\ found.reportNodeID \in Survivors
  BY <1>0, <1>1, <1>2 DEF Repairable, Reports, Segment, reportNodeID
<1>7. g # n /\ g \in Survivors /\ rightID[g] = n
  BY <1>0, <1>1, <1>2, <1>6, NotItsOwnNeighbour
<1>8. /\ report.reportNodeID = found.reportNodeID
      /\ report.liveNodes = found.liveNodes \cup {g}
      /\ report.liveCompIDs = found.liveCompIDs \cup {currentID[g]}
  BY <1>00 DEF Gathered
<1>9. g # found.reportNodeID
  BY <1>1, <1>6, <1>7 DEF Broken, Survivors
<1>10. Segment(g, report)
  BY <1>0, <1>6, <1>7, <1>8, <1>9 DEF Segment
<1>11. \A m \in Survivors \ {n} : ~HasReport(m)
  BY <1>1, <1>2 DEF Repairable, Reports
<1>12. ~HasReport(n)'
  <2>1. ~SendingReport(n)' /\ sendQueue'[n] = sendQueue[n]
    BY <1>3, <1>5, <1>7 DEF SendingReport, TypeOK
  <2> QED BY <1>1, <1>2, <2>1, ReportGone
<1>13. Broken(report.reportNodeID) /\ sender'[n].at # "closing"
  BY <1>5, <1>6, <1>8
<1>14. /\ Linked' /\ OneRing' /\ Reports' /\ Closed' /\ NoAborts' /\ Informed'
       /\ HasReport(g)'
       /\ \A m \in Survivors : Uninformed(m)'
       /\ \A m \in Survivors : ~Closing(m)'
  <2>1. SameRing /\ g \in Survivors /\ n \in Survivors /\ n # g /\ UNCHANGED <<liveNodes, data>>
    BY <1>1, <1>7
  <2> QED BY <1>3, <1>4, <1>10, <1>11, <1>12, <1>13, <2>1, ReportPassed, Zenon
<1>15. /\ Survivors' = Survivors /\ (\A m : Broken(m)' <=> Broken(m)) /\ (\A m : Up(m)' <=> Up(m))
       /\ \A m \in Survivors : m \in Node
       /\ \A m \in Node \ {n} : sender'[m] = sender[m]
  BY <1>1, <1>4, RingStays DEF Survivors, Appends
<1>16. \A r \in Survivors : networkBroken'[r] \/ Reporting(r)' <=> networkBroken[r] \/ Reporting(r)
  <2> SUFFICES ASSUME NEW r \in Survivors PROVE Reporting(r)' <=> Reporting(r)
    BY <1>1
  <2>1. CASE r = n
    BY <1>1, <1>5, <2>1 DEF Reporting, SendingReport
  <2>2. CASE r # n
    BY <1>15, <2>2 DEF Reporting
  <2> QED BY <2>1, <2>2
<1>17. Stopped'
  <2>1. ASSUME NEW r \in Survivors, networkBroken'[r] PROVE sender'[r].at = "poll"
    <3>1. networkBroken[r] /\ sender[r].at = "poll"
      BY <1>1, <2>1 DEF Repairable, Stopped
    <3> QED BY <1>1, <1>15, <3>1 DEF SendingReport
  <2>2. \A r \in Survivors : networkBroken'[r] \/ Reporting(r)' => Broken(r)'
    BY <1>15, <1>16 DEF Repairable, Stopped
  <2>3. \A r \in Survivors : Broken(r)' => networkBroken'[r] \/ Reporting(r)'
    BY <1>2, <1>1, <1>15, <1>16 DEF Repairable, Stopped
  <2>4. \E m \in Survivors : HasReport(m)'
    BY <1>7, <1>14, Zenon
  <2> QED BY <1>15, <2>1, <2>2, <2>3, <2>4, Zenon DEF Stopped
<1>18. Calling'
  <2>1. ASSUME NEW m \in Survivors
        PROVE  sender'[m].at = "reporting" => sender'[m].current.item = "Boomerang"
    <3>1. CASE m = n
      BY <1>5, <3>1
    <3>2. CASE m # n
      BY <1>15, <3>2 DEF Repairable, Calling
    <3> QED BY <3>1, <3>2
  <2>2. ASSUME NEW m \in Survivors, Busy(m, {"called"}, "NodeDied")'
        PROVE  /\ Segment(m, sender[m].current.data)'
               /\ Up(leftID[m])'
               /\ \A k \in sender'[m].current.data.liveNodes \ {m} : Uninformed(k)'
               /\ \A b \in sender'[m].current.data.liveNodes : ~Closing(b)'
    <3>1. Segment(m, sender'[m].current.data) /\ Up(leftID[m])
      <4>1. CASE m = n
        BY <1>0, <1>1, <1>2, <1>5, <1>6, <4>1
      <4>2. CASE m # n
        <5>1. sender'[m] = sender[m] /\ Busy(m, {"called"}, "NodeDied")
          BY <1>15, <2>2, <4>2 DEF Busy
        <5> QED BY <5>1 DEF Repairable, Calling
      <4> QED BY <4>1, <4>2
    <3>2. PICK d : d = sender'[m].current.data
      OBVIOUS
    <3>3. Segment(m, d)' /\ d.liveNodes \subseteq Survivors
      <4>1. Segment(m, d)' <=> Segment(m, d)
        BY <1>1, RingStays
      <4> QED BY <3>1, <3>2, <4>1 DEF Segment
    <3>4. Segment(m, sender[m].current.data)'
      BY <3>2, <3>3 DEF Segment
    <3>5. Up(leftID[m])'
      BY <1>1, <1>15, <3>1 DEF SameRing, Up
    <3> QED BY <1>14, <3>2, <3>3, <3>4, <3>5
  <2> QED BY <1>15, <2>1, <2>2, Zenon DEF Calling
<1> QED BY <1>14, <1>17, <1>18 DEF Repairable

-----------------------------------------------------------------------------
(***************************************************************************)
(* The steps that change the ring                                          *)
(***************************************************************************)
LEMMA CloseRingKeeps ==
  ASSUME TypeOK, TypeOK', Repairable, PromptReply, NEW n \in Node, CloseRing(n)
  PROVE  Repairable'
<1>0. PICK r, found : found = rebuildData[n] /\ r = reportNodeID(n)
  OBVIOUS
<1>1. /\ n \in Survivors /\ Exposed(n) /\ Up(r) /\ sender[r].at # "reporting"
      /\ UNCHANGED <<life, rebuildData, sendQueue, liveNodes, data>>
      /\ r = found.reportNodeID /\ r \in Survivors
  BY <1>0 DEF CloseRing, LeftCommFailure, Busy, Exposed, repoVars, Survivors, reportNodeID, TypeOK, Report
<1>2. SendingReport(n)
  <2>1. sender[n].at \in {"sending", "called"} /\ sender[n].current.item = "NodeDied" /\ Up(n)
    BY DEF CloseRing, LeftCommFailure, Busy
  <2>2. ~Busy(n, {"called"}, "NodeDied")
    BY <1>1 DEF Repairable, Calling, Exposed
  <2> QED BY <2>1, <2>2 DEF Busy, SendingReport
<1>3. HasReport(n) /\ OneReport(n) /\ Segment(n, found) /\ Broken(r) /\ n # r
  BY <1>0, <1>1, <1>2, SendsReport DEF Repairable, Reports, Segment
<1>4. found.liveNodes = Survivors
  <2>1. GoesRound(found.liveNodes)
    <3>1. \A k \in found.liveNodes : Up(rightID[k]) => rightID[k] \in found.liveNodes
      BY <1>1, <1>3 DEF Segment, Broken
    <3>2. \A k \in Survivors : Exposed(k) => k = n
      BY <1>1 DEF Repairable, Linked
    <3> QED BY <1>3, <3>1, <3>2 DEF GoesRound, Segment
  <2> QED BY <1>3, <2>1 DEF Repairable, OneRing, Segment
<1>5. /\ \A k \in Survivors : Broken(k) => k = r
      /\ \A k \in Survivors : Exposed(k) => k = n
  BY <1>1, <1>3 DEF Repairable, Linked
<1>6. /\ leftID'[n] = r /\ \A k \in Node \ {n} : leftID'[k] = leftID[k]
      /\ rightID'[r] = n /\ \A k \in Node \ {r} : rightID'[k] = rightID[k]
      /\ networkBroken'[r] = FALSE /\ \A k \in Node \ {r} : networkBroken'[k] = networkBroken[k]
      /\ sender'[n] = [at |-> "closing"] /\ \A k \in Node \ {n} : sender'[k] = sender[k]
  <2>1. /\ leftID' = [leftID EXCEPT ![n] = r]
        /\ rightID' = [rightID EXCEPT ![r] = n]
        /\ networkBroken' = [networkBroken EXCEPT ![r] = FALSE]
        /\ sender' = [sender EXCEPT ![n] = [at |-> "closing"]]
    BY <1>0 DEF CloseRing
  <2>2. r \in Node
    BY <1>1 DEF Survivors
  <2> QED BY <2>1, <2>2 DEF TypeOK
<1>7. /\ Survivors' = Survivors /\ (\A k : Up(k)' <=> Up(k))
      /\ \A k : k \in Survivors <=> k \in Node /\ Up(k)
  BY <1>1 DEF Survivors, Up
<1>8. ASSUME NEW k \in Survivors
      PROVE  /\ rightID'[k] \in Survivors /\ leftID'[rightID'[k]] = k
             /\ leftID'[k] \in Survivors /\ rightID'[leftID'[k]] = k
             /\ ~Broken(k)' /\ ~Exposed(k)'
  <2>1. rightID'[k] \in Survivors /\ leftID'[rightID'[k]] = k
    <3>1. CASE k = r
      BY <1>1, <1>6, <3>1
    <3>2. CASE k # r
      <4>1. Up(rightID[k]) /\ rightID[k] \in Survivors /\ rightID'[k] = rightID[k]
        BY <1>5, <1>6, <1>7, <3>2 DEF Broken, TypeOK
      <4>2. leftID[rightID[k]] = k
        BY <4>1 DEF Repairable, Linked
      <4>3. rightID[k] # n
        BY <1>1, <1>7, <4>2 DEF Exposed
      <4> QED BY <1>6, <1>7, <4>1, <4>2, <4>3
    <3> QED BY <3>1, <3>2
  <2>2. leftID'[k] \in Survivors /\ rightID'[leftID'[k]] = k
    <3>1. CASE k = n
      BY <1>1, <1>6, <3>1
    <3>2. CASE k # n
      <4>1. Up(leftID[k]) /\ leftID[k] \in Survivors /\ leftID'[k] = leftID[k]
        BY <1>5, <1>6, <1>7, <3>2 DEF Exposed, TypeOK
      <4>2. rightID[leftID[k]] = k
        BY <4>1 DEF Repairable, Linked
      <4>3. leftID[k] # r
        BY <1>3, <1>7, <4>2 DEF Broken
      <4> QED BY <1>6, <1>7, <4>1, <4>2, <4>3
    <3> QED BY <3>1, <3>2
  <2>3. Up(rightID[k])' /\ Up(leftID[k])'
    BY <1>1, <1>7, <2>1, <2>2 DEF Up
  <2> QED BY <2>1, <2>2, <2>3 DEF Broken, Exposed
<1>9. Linked'
  BY <1>7, <1>8, Zenon DEF Linked
<1>10. OneRing'
  <2> SUFFICES ASSUME NEW S \in SUBSET Survivors, S # {}, GoesRound(S)'
               PROVE  S = Survivors
    BY <1>7, Zenon DEF OneRing
  <2>1. \A k \in S : rightID'[k] \in S
    <3>1. \A k \in S : Up(rightID[k])'
      BY <1>1, <1>7, <1>8 DEF Up
    <3> QED BY <3>1 DEF GoesRound
  <2>2. GoesRound(S)
    <3>1. ASSUME NEW k \in S, Up(rightID[k]) PROVE rightID[k] \in S
      BY <1>3, <1>6, <1>7, <2>1, <3>1 DEF Broken
    <3>2. ASSUME NEW k \in S, NEW j \in Survivors, Broken(k), Exposed(j) PROVE j \in S
      BY <1>5, <1>6, <2>1, <3>2
    <3> QED BY <3>1, <3>2 DEF GoesRound
  <2> QED BY <2>2 DEF Repairable, OneRing
<1>11. \A m \in Survivors : ~HasReport(m)'
  <2> SUFFICES ASSUME NEW m \in Survivors PROVE ~HasReport(m)'
    OBVIOUS
  <2>1. CASE m = n
    <3>1. ~SendingReport(n)' /\ sendQueue'[n] = sendQueue[n]
      BY <1>1, <1>6 DEF SendingReport
    <3>2. ~HasReport(n)'
      BY <1>2, <1>3, <3>1, ReportGone
    <3> QED BY <2>1, <3>2 DEF HasReport, ReportsAt, ItemAt
  <2>2. CASE m # n
    <3>1. ~HasReport(m)
      BY <1>1, <1>3, <2>2 DEF Repairable, Reports
    <3>2. sender'[m] = sender[m] /\ sendQueue'[m] = sendQueue[m]
      BY <1>1, <1>6, <1>7, <2>2
    <3> QED BY <3>1, <3>2 DEF HasReport, ReportsAt, ItemAt
  <2> QED BY <2>1, <2>2
<1>12. Reports'
  BY <1>7, <1>11, Zenon DEF Reports, HasReport, OneReport
<1>13. \A m \in Survivors : ~networkBroken'[m] /\ ~Reporting(m)'
  <2>1. \A m \in Survivors : networkBroken[m] \/ Reporting(m) => m = r
    BY <1>5 DEF Repairable, Stopped
  <2>2. ~Reporting(r)
    BY <1>1 DEF Reporting
  <2>3. \A m \in Survivors : ~Reporting(m)'
    BY <1>6, <1>7, <2>1, <2>2 DEF Reporting
  <2> QED BY <1>6, <1>7, <2>1, <2>3
<1>14. Stopped'
  BY <1>7, <1>11, <1>13, Zenon DEF Stopped
<1>15. \A m \in Survivors : ~Closing(m) /\ Uninformed(m)
  BY <1>1, <1>3, WhileBroken
<1>16. \A m \in Survivors : Closing(m)' => m = n
  BY <1>6, <1>7, <1>15 DEF Closing
<1>17. \A m \in Survivors : \A item : Holds(m, item)' => Holds(m, item)
  BY <1>1, <1>6, <1>7 DEF Holds
<1>18. \A m \in Survivors : Uninformed(m)'
  BY <1>1, <1>7, <1>15, <1>17, Zenon DEF Uninformed
<1>19. Calling'
  <2>1. ASSUME NEW m \in Survivors
        PROVE  sender'[m].at = "reporting" => sender'[m].current.item = "Boomerang"
    BY <1>6, <1>7 DEF Repairable, Calling
  <2>2. ASSUME NEW m \in Survivors, Busy(m, {"called"}, "NodeDied")'
        PROVE  /\ Segment(m, sender[m].current.data)'
               /\ Up(leftID[m])'
               /\ \A g \in sender'[m].current.data.liveNodes \ {m} : Uninformed(g)'
               /\ \A b \in sender'[m].current.data.liveNodes : ~Closing(b)'
    <3>1. m # n /\ sender'[m] = sender[m] /\ Busy(m, {"called"}, "NodeDied")
      BY <1>6, <1>7, <2>2 DEF Busy
    <3>2. PICK report : report = sender[m].current.data
      OBVIOUS
    <3>3. Segment(m, report)
      BY <3>1, <3>2 DEF Repairable, Calling
    <3>4. n \notin report.liveNodes
      BY <1>1, <1>7, <3>1, <3>3 DEF Segment, Exposed
    <3>5. r = report.reportNodeID \/ r \notin report.liveNodes
      BY <1>3, <1>7, <3>3 DEF Segment, Broken
    <3>6. \A k \in report.liveNodes :
            /\ k \in Node
            /\ k # report.reportNodeID => rightID'[k] \in report.liveNodes
            /\ k # m => leftID'[k] \in report.liveNodes
      BY <1>6, <1>7, <3>3, <3>4, <3>5 DEF Segment
    <3>7. Segment(m, report)'
      BY <1>7, <3>3, <3>6 DEF Segment
    <3>8. Segment(m, sender[m].current.data)'
      BY <3>1, <3>2, <3>7 DEF Segment
    <3>9. Up(leftID[m])'
      BY <1>7, <1>8 DEF Exposed
    <3>10. report.liveNodes \subseteq Survivors
      BY <3>3 DEF Segment
    <3> QED BY <1>16, <1>18, <3>1, <3>2, <3>4, <3>8, <3>9, <3>10
  <2> QED BY <1>7, <2>1, <2>2, Zenon DEF Calling
<1>20. Closed'
  <2>1. ASSUME NEW b \in Survivors, Closing(b)'
        PROVE  /\ Up(reportNodeID(b))'
               /\ \A k \in Survivors :
                    /\ Up(rightID[k])'
                    /\ k \in rebuildData'[b].liveNodes
                    /\ currentID[k] \in rebuildData'[b].liveCompIDs
    <3>1. b = n /\ rebuildData'[b] = found
      BY <1>0, <1>1, <1>16, <2>1
    <3>2. Up(reportNodeID(b))'
      BY <1>1, <1>7, <3>1 DEF reportNodeID
    <3>3. \A k \in Survivors : Up(rightID[k])'
      BY <1>7, <1>8 DEF Broken
    <3> QED BY <1>3, <1>4, <3>1, <3>2, <3>3 DEF Segment
  <2>2. \A b, c \in Survivors : Closing(b)' /\ Closing(c)' => b = c
    BY <1>16
  <2> QED BY <1>7, <2>1, <2>2, Zenon DEF Closed
<1>21. NoAborts'
  BY <1>1, <1>7, <1>17, Zenon DEF Repairable, NoAborts
<1>22. Informed'
  <2>1. NoneForgotten' /\ OwnComputationKept'
    BY <1>1, <1>7, Zenon DEF Repairable, Informed, NoneForgotten, OwnComputationKept
  <2>2. \A m, k \in Survivors : \A item : Holds(m, item)' /\ IsRebuilt(item) =>
          k \in item.data.nodeIDs /\ currentID[k] \in item.data.compIDs
    BY <1>17, Zenon DEF Repairable, Informed
  <2> QED BY <1>7, <1>18, <2>1, <2>2, Zenon DEF Informed, IsRebuilt
<1> QED BY <1>9, <1>10, <1>12, <1>14, <1>19, <1>20, <1>21, <1>22 DEF Repairable

LEMMA BecomeAloneKeeps ==
  ASSUME TypeOK, TypeOK', Repairable, NEW n \in Node, BecomeAlone(n)
  PROVE  Repairable'
<1>1. /\ n \in Survivors /\ Exposed(n)
      /\ UNCHANGED <<life, networkBroken, rebuildData, sendQueue>>
      /\ rightID'[n] = n /\ leftID'[n] = n /\ sender'[n] = Polling
      /\ liveNodes'[n] = {n} /\ data'[n] = data[n] \cap {currentID[n]}
  BY DEF BecomeAlone, RightCommFailure, Busy, Exposed, SetSurvivors, Survivors, TypeOK
<1>2. Broken(n)
  <2>1. CASE RightCommFailure(n)
    BY <1>1, <2>1 DEF RightCommFailure, Busy, Broken
  <2>2. CASE Up(n) /\ sender[n].at = "reporting"
    BY <1>1, <2>2 DEF Reporting, Repairable, Stopped
  <2> QED BY <2>1, <2>2 DEF BecomeAlone
<1>3. Survivors = {n}
  <2>1. GoesRound({n})
    BY <1>1, <1>2 DEF GoesRound, Broken, Repairable, Linked
  <2> QED BY <1>1, <2>1 DEF Repairable, OneRing
<1>4. ~HasReport(n) /\ ~networkBroken[n]
  <2>1. ~HasReport(n)
    BY <1>3 DEF Repairable, Reports, Segment
  <2> QED BY <1>1, <1>3, <2>1 DEF Repairable, Stopped
<1>5. /\ Survivors' = {n} /\ Up(n)' /\ Up(n)
      /\ Up(rightID[n])' /\ Up(leftID[n])' /\ ~Broken(n)' /\ ~Exposed(n)'
      /\ ~Reporting(n)' /\ ~Closing(n)' /\ ~networkBroken'[n]
      /\ ~Busy(n, {"called"}, "NodeDied")'
      /\ sender'[n].at = "poll"
  BY <1>1, <1>3, <1>4 DEF Survivors, Up, Broken, Exposed, Reporting, Closing, Busy, Polling
<1>6. ~HasReport(n)'
  <2>1. Right_AbortingBoomerang.item # "NodeDied"
    BY DEF Right_AbortingBoomerang
  <2>2. ~SendingReport(n) /\ ~SendingReport(n)'
    BY <1>4, <1>5, SendsReport DEF SendingReport
  <2>3. Kept(n)
    BY <1>1, <2>1, <2>2, QueueGrows
  <2> QED BY <1>4, <2>3 DEF Kept
<1>7. \A item : Holds(n, item)' => Holds(n, item)
  BY <1>1, <1>5 DEF Holds
<1>8. Linked' /\ OneRing'
  <2>1. Linked'
    BY <1>1, <1>5 DEF Linked
  <2>2. OneRing'
    BY <1>5 DEF OneRing
  <2> QED BY <2>1, <2>2
<1>9. Reports' /\ Stopped' /\ Calling' /\ Closed'
  <2>1. Reports'
    BY <1>5, <1>6, Zenon DEF Reports, HasReport, OneReport
  <2>2. Stopped'
    BY <1>5, <1>6 DEF Stopped
  <2>3. Calling'
    BY <1>5 DEF Calling
  <2>4. Closed'
    BY <1>5 DEF Closed
  <2> QED BY <2>1, <2>2, <2>3, <2>4
<1>10. NoAborts'
  BY <1>1, <1>3, <1>5, <1>7 DEF Repairable, NoAborts
<1>11. Informed'
  <2>1. NoneForgotten'
    BY <1>1, <1>5 DEF NoneForgotten
  <2>2. OwnComputationKept'
    BY <1>1, <1>3, <1>5 DEF Repairable, Informed, OwnComputationKept
  <2>3. \A item : Holds(n, item)' /\ IsRebuilt(item) => n \in item.data.nodeIDs /\ currentID[n] \in item.data.compIDs
    BY <1>1, <1>7, Zenon DEF Repairable, Informed
  <2> QED BY <1>5, <2>1, <2>2, <2>3 DEF Informed, IsRebuilt
<1> QED BY <1>8, <1>9, <1>10, <1>11 DEF Repairable

\* No node gives up.
LEMMA NobodyAborts ==
  ASSUME TypeOK, Repairable, NEW n \in Node
  PROVE  ~Abort(n)
<1> SUFFICES ASSUME Abort(n) PROVE FALSE
  OBVIOUS
<1>1. CASE LeftCommFailure(n) /\ ~Up(reportNodeID(n))
  <2>1. n \in Survivors /\ Busy(n, {"sending", "called"}, "NodeDied") /\ ~Up(leftID[n])
    BY <1>1 DEF LeftCommFailure, Busy, Survivors
  <2>2. SendingReport(n)
    BY <2>1 DEF Repairable, Calling, Busy, SendingReport
  <2>3. Broken(reportNodeID(n))
    BY <2>1, <2>2, SendsReport DEF Repairable, Reports
  <2> QED BY <1>1, <2>3 DEF Broken
<1>2. CASE Up(n) /\ sender[n].at = "closing" /\ ~Up(reportNodeID(n))
  BY <1>2 DEF Repairable, Closed, Closing, Survivors
<1>3. CASE Busy(n, {"sending"}, "Abort")
  BY <1>3 DEF Repairable, NoAborts, Holds, Busy, Survivors
<1> QED BY <1>1, <1>2, <1>3 DEF Abort

\* A node dies when all is well: there is one gap then, and nobody knows.
LEMMA CrashKeeps ==
  ASSUME TypeOK, TypeOK', Repairable, Whole, NEW x \in Node, Crash(x)
  PROVE  Repairable'
<1>1. /\ x \in Survivors
      /\ UNCHANGED <<rightID, leftID, networkBroken, rebuildData, sendQueue, sender, liveNodes, data>>
      /\ \A n : Up(n)' /\ n \in Node <=> n \in Survivors /\ n # x
  BY DEF Crash, netVars, repoVars, Survivors, Up, TypeOK
<1>2. Survivors' = Survivors \ {x}
  BY <1>1 DEF Survivors
<1>3. \A n \in Survivors :
        /\ rightID[n] \in Survivors /\ leftID[rightID[n]] = n
        /\ liveNodes[n] = Survivors /\ ~networkBroken[n]
        /\ Up(rightID[n])
  BY DEF Whole, Survivors
<1>4. \A n \in Survivors : ~Broken(n) /\ ~Exposed(n)
  BY <1>3 DEF Broken, Repairable, Linked
<1>5. \A n \in Survivors : leftID[n] \in Survivors /\ rightID[leftID[n]] = n
  BY <1>4 DEF Exposed, Survivors, TypeOK, Repairable, Linked
<1>6. \A n \in Survivors : ~Uninformed(n)
  BY <1>3 DEF Uninformed
<1>7. \A n \in Survivors : ~Closing(n) /\ ~HasReport(n) /\ ~Reporting(n)
  <2>1. \A n \in Survivors : ~Closing(n)
    BY <1>1, <1>6, Zenon DEF Repairable, Informed
  <2>2. \A n \in Survivors : ~HasReport(n)
    BY <1>4 DEF Repairable, Reports, Segment, reportNodeID
  <2>3. \A n \in Survivors : ~Reporting(n)
    BY <1>4, Zenon DEF Repairable, Stopped
  <2> QED BY <2>1, <2>2, <2>3, Zenon
<1>8. \A n \in Survivors : ~Busy(n, {"called"}, "NodeDied")
  <2> SUFFICES ASSUME NEW n \in Survivors, Busy(n, {"called"}, "NodeDied") PROVE FALSE
    OBVIOUS
  <2>1. PICK report : report = sender[n].current.data
    OBVIOUS
  <2>2. Segment(n, report) /\ \A g \in report.liveNodes \ {n} : Uninformed(g)
    BY <2>1 DEF Repairable, Calling
  <2>3. report.reportNodeID \in report.liveNodes \ {n} /\ report.reportNodeID \in Survivors
    BY <2>2 DEF Segment
  <2> QED BY <1>6, <2>2, <2>3
<1>9. \A n \in Survivors' :
        /\ n \in Survivors /\ n # x /\ n \in Node /\ Up(n)'
        /\ Broken(n)' <=> rightID[n] = x
        /\ Exposed(n)' <=> leftID[n] = x
        /\ Up(rightID[n])' <=> rightID[n] # x
        /\ Up(leftID[n])' <=> leftID[n] # x
  <2>1. \A n \in Survivors' : n \in Survivors /\ n # x /\ n \in Node /\ Up(n)'
    BY <1>1, <1>2 DEF Survivors
  <2>2. \A n : n \in Survivors => (Up(n)' <=> n # x)
    BY <1>1 DEF Survivors
  <2>3. \A n \in Survivors' : (Up(rightID[n])' <=> rightID[n] # x) /\ (Up(leftID[n])' <=> leftID[n] # x)
    BY <1>1, <1>3, <1>5, <2>1, <2>2 DEF Up
  <2> QED BY <2>1, <2>3 DEF Broken, Exposed
<1>10. Linked'
  <2>1. \A n \in Survivors' : Up(rightID[n])' => leftID'[rightID'[n]] = n
    BY <1>1, <1>3, <1>9
  <2>2. \A n \in Survivors' : Up(leftID[n])' => rightID'[leftID'[n]] = n
    BY <1>1, <1>5, <1>9
  <2>3. \A m, n \in Survivors' : Broken(m)' /\ Broken(n)' => m = n
    BY <1>3, <1>9
  <2>4. \A m, n \in Survivors' : Exposed(m)' /\ Exposed(n)' => m = n
    BY <1>5, <1>9
  <2>5. ASSUME NEW n \in Survivors', Broken(n)' PROVE \E m \in Survivors' : Exposed(m)'
    <3>1. rightID[n] = x /\ leftID[x] = n /\ n # x
      BY <1>3, <1>9, <2>5
    <3>2. rightID[x] \in Survivors' /\ leftID[rightID[x]] = x
      BY <1>1, <1>2, <1>3, <3>1
    <3> QED BY <1>9, <3>2
  <2>6. ASSUME NEW n \in Survivors', Exposed(n)' PROVE \E m \in Survivors' : Broken(m)'
    <3>1. leftID[n] = x /\ rightID[x] = n /\ n # x
      BY <1>5, <1>9, <2>6
    <3>2. leftID[x] \in Survivors' /\ rightID[leftID[x]] = x
      BY <1>1, <1>2, <1>5, <3>1
    <3> QED BY <1>9, <3>2
  <2> QED BY <2>1, <2>2, <2>3, <2>4, <2>5, <2>6, Zenon DEF Linked
<1>11. OneRing'
  <2>1. SUFFICES ASSUME NEW S \in SUBSET Survivors', S # {}, GoesRound(S)'
                 PROVE  S = Survivors'
    BY Zenon DEF OneRing
  <2>2. S \subseteq Survivors /\ x \notin S
    BY <1>2
  <2>3. \A n \in S : rightID[n] = x \/ rightID[n] \in S
    BY <1>1, <1>2, <1>9, <2>1 DEF GoesRound
  <2>4. PICK m \in S : rightID[m] = x
    <3>1. CASE \A n \in S : rightID[n] \in S
      <4>1. S = Survivors
        BY <2>1, <2>2, <3>1 DEF Whole
      <4> QED BY <1>1, <2>2, <4>1
    <3> QED BY <2>3, <3>1
  <2>5. rightID[x] \in S
    <3>1. rightID[x] \in Survivors' /\ leftID[rightID[x]] = x
      BY <1>1, <1>2, <1>3, <2>2, <2>4
    <3>2. Broken(m)' /\ Exposed(rightID[x])'
      <4>1. PICK y : y = rightID[x]
        OBVIOUS
      <4>2. Exposed(y)'
        BY <1>9, <3>1, <4>1
      <4>3. rightID'[x] = y
        BY <1>1, <4>1
      <4> QED BY <1>9, <2>4, <4>2, <4>3
    <3>3. rightID'[x] \in S
      BY <1>1, <2>1, <3>1, <3>2 DEF GoesRound
    <3> QED BY <1>1, <3>3
  <2>6. S \cup {x} = Survivors
    <3>1. S \cup {x} \in SUBSET Survivors /\ S \cup {x} # {}
          /\ \A n \in S \cup {x} : rightID[n] \in S \cup {x}
      BY <1>1, <2>2, <2>3, <2>5
    <3> QED BY <3>1, Zenon DEF Whole
  <2> QED BY <1>2, <2>2, <2>6
<1>12. \A n \in Survivors :
         /\ HasReport(n)' <=> HasReport(n)
         /\ OneReport(n)' <=> OneReport(n)
         /\ \A item : Holds(n, item)' <=> Holds(n, item)
         /\ ~Reporting(n)' /\ ~Closing(n)' /\ ~Busy(n, {"called"}, "NodeDied")'
  <2> SUFFICES ASSUME NEW n \in Survivors
               PROVE  /\ HasReport(n)' <=> HasReport(n)
                      /\ OneReport(n)' <=> OneReport(n)
                      /\ \A item : Holds(n, item)' <=> Holds(n, item)
                      /\ ~Reporting(n)' /\ ~Closing(n)' /\ ~Busy(n, {"called"}, "NodeDied")'
    OBVIOUS
  <2>1. Up(n)
    BY DEF Survivors
  <2>2. HasReport(n)' <=> HasReport(n)
    BY <1>1, Zenon DEF HasReport, ReportsAt, ItemAt
  <2>3. OneReport(n)' <=> OneReport(n)
    BY <1>1, Zenon DEF OneReport, ReportsAt, ItemAt
  <2>4. \A item : Holds(n, item)' <=> Holds(n, item)
    BY <1>1, Zenon DEF Holds
  <2>5. ~Reporting(n)' /\ ~Closing(n)' /\ ~Busy(n, {"called"}, "NodeDied")'
    BY <1>1, <1>7, <1>8, <2>1 DEF Reporting, Closing, Busy
  <2> QED BY <2>2, <2>3, <2>4, <2>5
<1>13. \A n \in Survivors' : n \in Survivors
  BY <1>2
<1>14. Reports' /\ Stopped'
  <2>1. \A n \in Survivors' : OneReport(n)' /\ ~HasReport(n)'
    BY <1>7, <1>12, <1>13 DEF Repairable, Reports
  <2>2. Reports'
    BY <2>1, Zenon DEF Reports
  <2>3. \A n \in Survivors' : ~networkBroken'[n] /\ ~Reporting(n)'
    BY <1>1, <1>3, <1>12, <1>13
  <2>4. Stopped'
    BY <2>1, <2>3, Zenon DEF Stopped
  <2> QED BY <2>2, <2>4
<1>15. Calling' /\ Closed'
  <2>1. Calling'
    <3>1. \A n \in Survivors' : sender'[n].at = "reporting" => sender'[n].current.item = "Boomerang"
      BY <1>1, <1>13 DEF Repairable, Calling
    <3>2. \A n \in Survivors' : ~Busy(n, {"called"}, "NodeDied")'
      BY <1>12, <1>13
    <3> QED BY <3>1, <3>2, Zenon DEF Calling
  <2>2. Closed'
    BY <1>12, <1>13, Zenon DEF Closed
  <2> QED BY <2>1, <2>2
<1>16. NoAborts'
  <2>1. \A n \in Node : life'[n] # "aborted"
    BY DEF Crash, Repairable, NoAborts, TypeOK
  <2> QED BY <1>12, <1>13, <2>1, Zenon DEF Repairable, NoAborts
<1>17. Informed'
  <2>1. NoneForgotten' /\ OwnComputationKept'
    BY <1>1, <1>13, Zenon DEF Repairable, Informed, NoneForgotten, OwnComputationKept
  <2>2. \A n \in Survivors, k \in Survivors : \A item : Holds(n, item)' /\ IsRebuilt(item) =>
          k \in item.data.nodeIDs /\ currentID[k] \in item.data.compIDs
    BY <1>12, Zenon DEF Repairable, Informed
  <2>3. ASSUME NEW n \in Survivors' PROVE Uninformed(n)'
    <3>1. liveNodes'[n] # Survivors'
      BY <1>1, <1>2, <1>3, <1>13
    <3>2. ASSUME NEW item, Holds(n, item)', IsRebuilt(item) PROVE item.data.nodeIDs # Survivors'
      <4>1. x \in item.data.nodeIDs
        BY <1>1, <1>13, <2>2, <3>2
      <4> QED BY <1>2, <4>1
    <3> QED BY <3>1, <3>2, Zenon DEF Uninformed, IsRebuilt
  <2> QED BY <1>13, <2>1, <2>2, <2>3, Zenon DEF Informed, IsRebuilt
<1> QED BY <1>10, <1>11, <1>14, <1>15, <1>16, <1>17 DEF Repairable

-----------------------------------------------------------------------------
(***************************************************************************)
(* The invariant, and what follows                                         *)
(***************************************************************************)
LEMMA RebuildInvInit == Init => RebuildInv
<1> SUFFICES ASSUME Init PROVE RebuildInv
  OBVIOUS
<1>1. TypeOK
  BY InitType
<1>2. Survivors = Node /\ \A n \in Node : Up(n)
  BY DEF Init, Survivors, Up
<1>3. \A n \in Node : rightID[n] \in Node /\ leftID[n] \in Node
  BY <1>1 DEF TypeOK
<1>4. \A n \in Node : rightID[leftID[n]] = n /\ leftID[rightID[n]] = n
  <2>1. \A n \in Node : leftID[n] = CHOOSE m \in Node : Right[m] = n
    BY DEF Init
  <2>2. ASSUME NEW n \in Node PROVE \E m \in Node : Right[m] = n
    <3> DEFINE S == {Right[m] : m \in Node}
    <3>1. S \in SUBSET Node /\ S # {} /\ \A k \in S : Right[k] \in S
      BY RingAssumption
    <3>2. S = Node
      BY <3>1, RingAssumption
    <3> QED BY <3>2
  <2>3. \A n \in Node : Right[leftID[n]] = n
    BY <2>1, <2>2
  <2>4. \A n \in Node : leftID[Right[n]] = n
    BY <1>3, <2>3, RingAssumption
  <2> QED BY <2>3, <2>4 DEF Init
<1>5. \A n \in Node : /\ sendQueue[n] = <<>> /\ sender[n].at = "poll" /\ ~networkBroken[n]
                      /\ liveNodes[n] = Node /\ currentID[n] \in data[n] /\ life[n] = "up"
  BY RebuildAssumption DEF Init, Polling
<1>6. \A n \in Node : /\ ~Broken(n) /\ ~Exposed(n) /\ ~Reporting(n) /\ ~Closing(n)
                      /\ ~Busy(n, {"called"}, "NodeDied")
                      /\ \A item : ~Holds(n, item)
                      /\ ReportsAt(n) = {}
  BY <1>2, <1>3, <1>5 DEF Broken, Exposed, Reporting, Closing, Busy, Holds, ReportsAt
<1>7. Linked /\ Stopped /\ Calling /\ Closed /\ NoAborts
  BY <1>2, <1>4, <1>5, <1>6 DEF Linked, Stopped, Calling, Closed, NoAborts, HasReport
<1>8. OneRing
  <2> SUFFICES ASSUME NEW S \in SUBSET Node, S # {}, GoesRound(S) PROVE S = Node
    BY <1>2 DEF OneRing
  <2>1. \A n \in S : Right[n] \in S
    BY <1>2, <1>3 DEF GoesRound, Init
  <2> QED BY <2>1, RingAssumption
<1>9. Reports
  BY <1>2, <1>6 DEF Reports, OneReport, HasReport
<1>10. Informed
  BY <1>2, <1>5, <1>6 DEF Informed, NoneForgotten, OwnComputationKept
<1> QED BY <1>1, <1>7, <1>8, <1>9, <1>10 DEF RebuildInv, Repairable

LEMMA RebuildInvStep ==
  PromptReply /\ RebuildInv /\ [Next]_vars /\ [OneAtATime]_vars => RebuildInv'
<1> SUFFICES ASSUME PromptReply, TypeOK, Repairable, [Next]_vars, [OneAtATime]_vars
             PROVE  RebuildInv'
  BY DEF RebuildInv
<1>0. TypeOK'
  BY NextType
<1>1. CASE UNCHANGED vars
  <2>1. UNCHANGED <<life, rightID, leftID, networkBroken, rebuildData, sendQueue, sender, liveNodes, data>>
    BY <1>1 DEF vars, netVars, repoVars
  <2>2. SameRing
    BY <2>1 DEF SameRing
  <2>3. \A m : /\ Reporting(m)' <=> Reporting(m)
               /\ Closing(m)' <=> Closing(m)
               /\ \A item : Holds(m, item)' => Holds(m, item)
               /\ Kept(m)
    BY <2>1, Zenon DEF Reporting, Closing, Up, Holds, Kept, OneReport, HasReport, ReportsAt, ItemAt
  <2>4. /\ \A r \in Survivors : networkBroken[r] => sender[r].at = "poll"
        /\ \A m \in Survivors : sender[m].at = "reporting" => sender[m].current.item = "Boomerang"
    BY DEF Repairable, Stopped, Calling
  <2>5. Repairable'
    BY <2>1, <2>2, <2>3, <2>4, QuietKeeps, Zenon
  <2> QED BY <1>0, <2>5 DEF RebuildInv
<1>2. ASSUME NEW n \in Node, Crash(n) \/ Ping(n) \/ Announce(n) \/ SendStep(n), vars' # vars
      PROVE  Repairable'
  <2>1. CASE Crash(n)
    <3>1. Whole
      BY <1>2, <2>1 DEF OneAtATime
    <3> QED BY <1>0, <2>1, <3>1, CrashKeeps
  <2>2. CASE Ping(n) \/ Announce(n)
    BY <1>0, <2>2, PingKeeps
  <2>3. CASE Pop(n)
    BY <1>0, <2>3, PopKeeps
  <2>4. CASE CallPing(n) \/ CallResult(n)
    BY <1>0, <2>4, CallKeeps
  <2>5. CASE CallNetworkRebuilt(n)
    BY <1>0, <2>5, CallNetworkRebuiltKeeps
  <2>6. CASE Replied(n)
    BY <1>0, <2>6, RepliedKeeps
  <2>7. CASE ReportDeadRightNode(n)
    BY <1>0, <2>7, ReportDeadRightNodeKeeps
  <2>8. CASE MarkBroken(n)
    BY <1>0, <2>8, MarkBrokenKeeps
  <2>9. CASE BecomeAlone(n)
    BY <1>0, <2>9, BecomeAloneKeeps
  <2>10. CASE CallNodeDied(n)
    BY <1>0, <2>10, CallNodeDiedKeeps
  <2>11. CASE CloseRing(n)
    BY <1>0, <2>11, CloseRingKeeps
  <2>12. CASE AnnounceRebuilt(n)
    BY <1>0, <2>12, AnnounceRebuiltKeeps
  <2>13. CASE Abort(n)
    BY <2>13, NobodyAborts
  <2> QED BY <1>2, <2>1, <2>2, <2>3, <2>4, <2>5, <2>6, <2>7, <2>8, <2>9, <2>10, <2>11, <2>12, <2>13
      DEF SendStep
<1> QED BY <1>0, <1>1, <1>2 DEF Next, RebuildInv

\* A report of a stopped node is among the items that a survivor has to send.
LEMMA ReportPending ==
  ASSUME TypeOK, Repairable, NEW n \in Survivors, networkBroken[n]
  PROVE  \E m \in Survivors : \E item \in Pending(m) :
           item.item = "NodeDied" /\ item.data.reportNodeID = n
<1>1. PICK m \in Survivors : HasReport(m) /\ Broken(n)
  BY DEF Repairable, Stopped
<1>2. PICK i : i \in ReportsAt(m)
  BY <1>1 DEF HasReport
<1>3. ItemAt(m, i).data = rebuildData[m] /\ Broken(reportNodeID(m)) /\ Segment(m, rebuildData[m])
  BY <1>1, <1>2 DEF Repairable, Reports, OneReport
<1>4. reportNodeID(m) = n
  BY <1>1, <1>3 DEF Repairable, Linked, Segment, reportNodeID
<1>5. ItemAt(m, i) \in Pending(m) /\ ItemAt(m, i).item = "NodeDied"
  BY <1>2 DEF ReportsAt, ItemAt, Pending
<1> QED BY <1>3, <1>4, <1>5 DEF reportNodeID

LEMMA RebuildInvAlways == PromptReply /\ Spec /\ [][OneAtATime]_vars => []RebuildInv
<1> SUFFICES ASSUME PromptReply
             PROVE  Spec /\ [][OneAtATime]_vars => []RebuildInv
  OBVIOUS
<1>1. RebuildInv /\ [Next]_vars /\ [OneAtATime]_vars => RebuildInv'
  BY RebuildInvStep
<1> QED BY <1>1, RebuildInvInit, PTL DEF Spec

(***************************************************************************)
(* The theorems hold for every ring, any number of failures and every      *)
(* order of the calls, replies and messages, on two conditions: no node    *)
(* dies before the ring is whole again after the last failure (README:78), *)
(* and networkBroken is set before the ring can be closed.                 *)
(***************************************************************************)
\* A send thread that has stopped at networkBroken has a report of its dead
\* neighbour on its way, the only thing that can start it again.
THEOREM StoppedAwaitsRepair ==
  PromptReply /\ Spec /\ [][OneAtATime]_vars => []BrokenAwaitsRepair
<1>1. RebuildInv => BrokenAwaitsRepair
  BY ReportPending, Zenon DEF RebuildInv, BrokenAwaitsRepair
<1> QED BY <1>1, RebuildInvAlways, PTL

\* NETWORK_REBUILT, and a node that takes itself to be alone, never leave a
\* living node out of anybody's liveNodes.
THEOREM NobodyForgotten ==
  PromptReply /\ Spec /\ [][OneAtATime]_vars => []NoneForgotten
<1>1. RebuildInv => NoneForgotten
  BY DEF RebuildInv, Repairable, Informed
<1> QED BY <1>1, RebuildInvAlways, PTL

\* setSurvivingComputations never drops the computation a node takes part in.
THEOREM ComputationsKept ==
  PromptReply /\ Spec /\ [][OneAtATime]_vars => []OwnComputationKept
<1>1. RebuildInv => OwnComputationKept
  BY DEF RebuildInv, Repairable, Informed
<1> QED BY <1>1, RebuildInvAlways, PTL

\* The survivors stay one ring with one gap at most, linked both ways, and the
\* "EPIC fail!!!" of sendBoomerangAndAbort never happens.
THEOREM RingHoldsTogether ==
  PromptReply /\ Spec /\ [][OneAtATime]_vars
    => [](Linked /\ OneRing /\ \A n \in Node : life[n] # "aborted")
<1>1. RebuildInv => Linked /\ OneRing /\ \A n \in Node : life[n] # "aborted"
  BY DEF RebuildInv, Repairable, NoAborts
<1> QED BY <1>1, RebuildInvAlways, PTL

=============================================================================
