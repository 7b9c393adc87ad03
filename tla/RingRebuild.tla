------------------------------ MODULE RingRebuild ------------------------------
(***************************************************************************)
(* How the ring closes again when a node has died: the send thread of      *)
(* Network with its retries and its reports (sendThreadMain,               *)
(* reportDeadRightNode, reportDeadLeftNode), the queue items, and the      *)
(* handlers NodeDied, RebuildNetwork, AbortingBoomerang and the            *)
(* NETWORK_REBUILT part of Boomerang.                                      *)
(*                                                                         *)
(* A node notices that its right neighbour X is dead when a call fails.    *)
(* It reports to the left; the report travels left, gathering nodes and    *)
(* computations, until it finds the other neighbour of X, whose call to    *)
(* the left fails.  That node attaches the reporter to itself and sends    *)
(* what was gathered around as NETWORK_REBUILT.                            *)
(*                                                                         *)
(* A remote call is two steps: the handler runs at the target, and the     *)
(* caller gets the reply, or COMM_FAILURE if the target is dead by then.   *)
(* What the zombies do to the work caches is left to module WorkRecovery.  *)
(***************************************************************************)
EXTENDS Naturals, Sequences, FiniteSets

CONSTANTS
  Node,          \* node identifiers
  Right,         \* the ring at the beginning
  Founder,       \* the node that the ring began with
  Mortal,        \* the nodes that may crash
  Crashes,       \* bound: how many of them do
  Pinging,       \* the nodes that are in Computation::DFS, whose synchronize pings
  Announcing,    \* the nodes that announce a result, once
  Comp,          \* computation identifiers, all of them known to every node
  currentID,     \* the computation each node takes part in
  PromptReply    \* is networkBroken set before the ring can be closed again?

ASSUME RingAssumption ==
  /\ Right \in [Node -> Node]
  /\ \A m, n \in Node : Right[m] = Right[n] => m = n
  /\ \A n \in Node : Right[n] # n
  /\ \A S \in SUBSET Node :
        (S # {} /\ \A n \in S : Right[n] \in S) => S = Node

ASSUME RebuildAssumption ==
  /\ Mortal \subseteq Node /\ Pinging \subseteq Node /\ Announcing \subseteq Node
  /\ Crashes \in Nat
  /\ currentID \in [Node -> Comp]
  /\ PromptReply \in BOOLEAN

-----------------------------------------------------------------------------
(***************************************************************************)
(* Messages and state                                                      *)
(***************************************************************************)
\* struct blob, as far as it is read here.  RESULT stands for every boomerang
\* that goes round the ring and is handled after the test for dead sources.
Boomerang ==
  [type : {"PING", "RESULT"}, sourceNode : Node]
    \cup [type : {"NETWORK_REBUILT"}, sourceNode : Node,
          nodeIDs : SUBSET Node, compIDs : SUBSET Comp]

\* What a report gathers on its way (setDataForRebuilding).
Report == [reportNodeID : Node, liveNodes : SUBSET Node, liveCompIDs : SUBSET Comp]

\* The subclasses of QueueItem.
Right_Boomerang(msg) == [item |-> "Boomerang", data |-> msg]
Left_NodeDied(report) == [item |-> "NodeDied", data |-> report]
Right_AbortingBoomerang == [item |-> "Abort"]

QueueItem ==
  {Right_Boomerang(msg) : msg \in Boomerang}
    \cup {Left_NodeDied(report) : report \in Report}
    \cup {Right_AbortingBoomerang}

\* Where the send thread is.
\*   poll      before the next item
\*   sending   has popped the item
\*   called    the handler has run at the neighbour, no reply yet
\*   reporting has popped an item the right node did not take; its own NodeDied
\*             was handled by the left node, no reply yet
\*   closing   RebuildNetwork was handled by the reporter, no reply yet
Sender ==
  [at : {"poll", "closing"}]
    \cup [at : {"sending", "called", "reporting"}, current : QueueItem]

VARIABLES
  life,           \* has the process crashed, or aborted?
  rightID, leftID,
  sendQueue,
  sender,         \* send thread
  networkBroken,
  rebuildData,    \* Network::reportNodeID, liveNodes, liveCompIDs
  liveNodes,      \* Repository::liveNodes
  data,           \* Repository::data: the computations it keeps
  heard,          \* history: the sources of the results a node has handled
  announced,      \* the nodes that have announced their result
  overlapping     \* history: did a node crash while the ring was being repaired?

netVars == <<rightID, leftID, networkBroken, rebuildData>>
repoVars == <<liveNodes, data>>
historyVars == <<heard, announced, overlapping>>
vars == <<life, netVars, sendQueue, sender, repoVars, historyVars>>

TypeOK ==
  /\ life \in [Node -> {"up", "crashed", "aborted"}]
  /\ rightID \in [Node -> Node]
  /\ leftID \in [Node -> Node]
  /\ sendQueue \in [Node -> Seq(QueueItem)]
  /\ sender \in [Node -> Sender]
  /\ networkBroken \in [Node -> BOOLEAN]
  /\ rebuildData \in [Node -> Report]
  /\ liveNodes \in [Node -> SUBSET Node]
  /\ data \in [Node -> SUBSET Comp]
  /\ heard \in [Node -> SUBSET Node]
  /\ announced \in SUBSET Node
  /\ overlapping \in BOOLEAN

Polling == [at |-> "poll"]

\* A complete ring, every node of which has been told of all the others.
Init ==
  /\ life = [n \in Node |-> "up"]
  /\ rightID = Right
  /\ leftID = [n \in Node |-> CHOOSE m \in Node : Right[m] = n]
  /\ sendQueue = [n \in Node |-> <<>>]
  /\ sender = [n \in Node |-> Polling]
  /\ networkBroken = [n \in Node |-> FALSE]
  /\ rebuildData = [n \in Node |-> [reportNodeID |-> n, liveNodes |-> {}, liveCompIDs |-> {}]]
  /\ liveNodes = [n \in Node |-> Node]
  /\ data = [n \in Node |-> Comp]
  /\ heard = [n \in Node |-> {}]
  /\ announced = {}
  /\ overlapping = FALSE

Up(n) == life[n] = "up"

Survivors == {n \in Node : Up(n)}

\* The survivors form one ring, and each knows exactly who they are and which
\* computations they keep.
Whole ==
  /\ \A n \in Survivors :
        /\ rightID[n] \in Survivors
        /\ leftID[rightID[n]] = n
        /\ liveNodes[n] = Survivors
        /\ ~networkBroken[n]
  /\ \A S \in SUBSET Survivors :
        (S # {} /\ \A n \in S : rightID[n] \in S) => S = Survivors
  /\ \A m, n \in Survivors : data[m] = data[n]

\* The items a living node still has to send.
Pending(n) ==
  {sendQueue[n][i] : i \in DOMAIN sendQueue[n]}
    \cup {sender[k].current : k \in {j \in {n} : sender[j].at \in {"sending", "reporting"}}}

\* An earlier failure has been noticed, and not all survivors know of it yet.
Repairing ==
  \E n \in Survivors :
    \/ networkBroken[n]
    \/ sender[n].at \in {"reporting", "closing"}
    \/ \E item \in Pending(n) :
         \/ item.item = "NodeDied"
         \/ item.item = "Boomerang" /\ item.data.type = "NETWORK_REBUILT"

-----------------------------------------------------------------------------
(***************************************************************************)
(* What the rest of the node does                                          *)
(***************************************************************************)
\* A process dies; its queue and all else it knew is gone with it.
Crash(n) ==
  /\ n \in Mortal
  /\ Up(n)
  /\ Cardinality({m \in Node : life[m] = "crashed"}) < Crashes
  /\ life' = [life EXCEPT ![n] = "crashed"]
  /\ overlapping' = (overlapping \/ Repairing)
  /\ UNCHANGED <<netVars, sendQueue, sender, repoVars, heard, announced>>

Enqueue(n, item) == sendQueue' = [sendQueue EXCEPT ![n] = Append(@, item)]

\* synchronize() of a searching node that has sent nothing for a while.  Bound:
\* a node pings only when nothing else is queued.
Ping(n) ==
  /\ n \in Pinging
  /\ Up(n)
  /\ sendQueue[n] = <<>>
  /\ sender[n] = Polling
  /\ Enqueue(n, Right_Boomerang([type |-> "PING", sourceNode |-> n]))
  /\ UNCHANGED <<life, netVars, sender, repoVars, historyVars>>

\* synchronize() broadcasts a new solution.
Announce(n) ==
  /\ n \in Announcing \ announced
  /\ Up(n)
  /\ announced' = announced \cup {n}
  /\ Enqueue(n, Right_Boomerang([type |-> "RESULT", sourceNode |-> n]))
  /\ UNCHANGED <<life, netVars, sender, repoVars, heard, overlapping>>

-----------------------------------------------------------------------------
(***************************************************************************)
(* Send thread, and LeftNeighbourImpl::Boomerang at the right node         *)
(***************************************************************************)
\* "if(networkBroken) continue", then the head of the queue.
Pop(n) ==
  /\ Up(n)
  /\ sender[n] = Polling
  /\ ~networkBroken[n]
  /\ sendQueue[n] # <<>>
  /\ sender' = [sender EXCEPT ![n] = [at |-> "sending", current |-> Head(sendQueue[n])]]
  /\ sendQueue' = [sendQueue EXCEPT ![n] = Tail(@)]
  /\ UNCHANGED <<life, netVars, repoVars, historyVars>>

\* The send thread of n is busy with an item of this kind.
Busy(n, places, kind) ==
  /\ Up(n)
  /\ sender[n].at \in places
  /\ sender[n].current.item = kind

message(n) == sender[n].current.data

\* The handler of the right node is called.
Calls(n, type) ==
  /\ Busy(n, {"sending"}, "Boomerang")
  /\ message(n).type = type
  /\ Up(rightID[n])
  /\ sender' = [sender EXCEPT ![n].at = "called"]

\* Every node has liveNodesConsistent set but the one that was alone in init().
isAlive(r, s) == r = Founder \/ s \in liveNodes[r]

\* sendFurther: the message goes on unless it is back at its source.
PassOn(n) ==
  IF message(n).sourceNode = rightID[n] THEN UNCHANGED sendQueue
  ELSE Enqueue(rightID[n], sender[n].current)

CallPing(n) ==
  /\ Calls(n, "PING")
  /\ UNCHANGED <<life, netVars, sendQueue, repoVars, historyVars>>

\* Mutant: messages of dead nodes are not dropped.
HandlesEveryones(r, s) == TRUE

\* "killing zombie boomerang"
Handles(r, s) == isAlive(r, s)

CallResult(n) ==
  LET r == rightID[n] IN
  /\ Calls(n, "RESULT")
  /\ IF Handles(r, message(n).sourceNode)
     THEN /\ PassOn(n)
          /\ heard' = [heard EXCEPT ![r] = @ \cup {message(n).sourceNode}]
     ELSE UNCHANGED <<sendQueue, heard>>
  /\ UNCHANGED <<life, netVars, repoVars, announced, overlapping>>

\* setLiveNodes and setSurvivingComputations.
SetSurvivors(r, nodeIDs, compIDs) ==
  /\ liveNodes' = [liveNodes EXCEPT ![r] = nodeIDs]
  /\ data' = [data EXCEPT ![r] = @ \cap compIDs]

CallNetworkRebuilt(n) ==
  /\ Calls(n, "NETWORK_REBUILT")
  /\ IF isAlive(rightID[n], message(n).sourceNode)
     THEN /\ PassOn(n)
          /\ SetSurvivors(rightID[n], message(n).nodeIDs, message(n).compIDs)
     ELSE UNCHANGED <<sendQueue, repoVars>>
  /\ UNCHANGED <<life, netVars, historyVars>>

\* The reply arrives: the item is deleted.
Replied(n) ==
  /\ Up(n)
  /\ sender[n].at = "called"
  /\ sender' = [sender EXCEPT ![n] = Polling]
  /\ UNCHANGED <<life, netVars, sendQueue, repoVars, historyVars>>

-----------------------------------------------------------------------------
(***************************************************************************)
(* The right neighbour is dead: reportDeadRightNode                        *)
(***************************************************************************)
\* COMM_FAILURE: the target is dead, or it died before it replied.
RightCommFailure(n) ==
  /\ Busy(n, {"sending", "called"}, "Boomerang")
  /\ ~Up(rightID[n])

\* Mutant: the reporter's identifier is not taken over from the call.
GatheredForNobody(n, report) ==
  [report EXCEPT !.reportNodeID = 0, !.liveNodes = @ \cup {n}, !.liveCompIDs = @ \cup {currentID[n]}]

\* Mutant: a node passes on what it was told, without itself.
GatheredOthers(n, report) == [report EXCEPT !.liveCompIDs = @ \cup {currentID[n]}]

\* Mutant: a node passes on what it was told, without its own computation.
GatheredNodesOnly(n, report) == [report EXCEPT !.liveNodes = @ \cup {n}]

\* NodeDied: the node and its computation join the report.
Gathered(n, report) ==
  [reportNodeID |-> report.reportNodeID,
   liveNodes |-> report.liveNodes \cup {n},
   liveCompIDs |-> report.liveCompIDs \cup {currentID[n]}]

\* Mutant: the report is kept and not passed on.
NodeDiedKept(m, report) ==
  /\ rebuildData' = [rebuildData EXCEPT ![m] = Gathered(m, report)]
  /\ UNCHANGED sendQueue

\* RightNeighbourImpl::NodeDied at m: setDataForRebuilding, NeighbourDied.
NodeDied(m, report) ==
  /\ rebuildData' = [rebuildData EXCEPT ![m] = Gathered(m, report)]
  /\ Enqueue(m, Left_NodeDied(Gathered(m, report)))

\* leftRemoteObject->NodeDied(getMyID(), ...)
ReportDeadRightNode(n) ==
  /\ RightCommFailure(n)
  /\ Up(leftID[n])
  /\ NodeDied(leftID[n], [reportNodeID |-> n, liveNodes |-> {n}, liveCompIDs |-> {currentID[n]}])
  /\ sender' = [sender EXCEPT ![n].at = "reporting"]
  /\ UNCHANGED <<life, rightID, leftID, networkBroken, repoVars, historyVars>>

\* Mutant: the item that could not be sent is deleted.
MarkBrokenWithoutRetry(n) ==
  /\ Up(n)
  /\ sender[n].at = "reporting"
  /\ networkBroken' = [networkBroken EXCEPT ![n] = TRUE]
  /\ sender' = [sender EXCEPT ![n] = Polling]
  /\ UNCHANGED <<life, rightID, leftID, rebuildData, sendQueue, repoVars, historyVars>>

\* The reply to it: networkBroken = true; sendQueue.push_front(current).
MarkBroken(n) ==
  /\ Up(n)
  /\ sender[n].at = "reporting"
  /\ networkBroken' = [networkBroken EXCEPT ![n] = TRUE]
  /\ sendQueue' = [sendQueue EXCEPT ![n] = <<sender[n].current>> \o @]
  /\ sender' = [sender EXCEPT ![n] = Polling]
  /\ UNCHANGED <<life, rightID, leftID, rebuildData, repoVars, historyVars>>

\* The left neighbour is dead as well: "I am alone...".
BecomeAlone(n) ==
  /\ RightCommFailure(n) \/ (Up(n) /\ sender[n].at = "reporting")
  /\ ~Up(leftID[n])
  /\ SetSurvivors(n, {n}, {currentID[n]})
  /\ rightID' = [rightID EXCEPT ![n] = n]
  /\ leftID' = [leftID EXCEPT ![n] = n]
  /\ sender' = [sender EXCEPT ![n] = Polling]
  /\ UNCHANGED <<life, networkBroken, rebuildData, sendQueue, historyVars>>

-----------------------------------------------------------------------------
(***************************************************************************)
(* The report on its way, and the left neighbour dead: reportDeadLeftNode  *)
(***************************************************************************)
CallNodeDied(n) ==
  /\ Busy(n, {"sending"}, "NodeDied")
  /\ Up(leftID[n])
  /\ NodeDied(leftID[n], sender[n].current.data)
  /\ sender' = [sender EXCEPT ![n].at = "called"]
  /\ UNCHANGED <<life, rightID, leftID, networkBroken, repoVars, historyVars>>

LeftCommFailure(n) ==
  /\ Busy(n, {"sending", "called"}, "NodeDied")
  /\ ~Up(leftID[n])

reportNodeID(n) == rebuildData[n].reportNodeID

\* leftRemoteObject->RebuildNetwork(myID): at the reporter, changeRightNeighbour
\* and repairNetwork.
CloseRing(n) ==
  LET reporter == reportNodeID(n) IN
  /\ LeftCommFailure(n)
  /\ Up(reporter)
  /\ PromptReply => sender[reporter].at # "reporting"
  /\ leftID' = [leftID EXCEPT ![n] = reporter]
  /\ rightID' = [rightID EXCEPT ![reporter] = n]
  /\ networkBroken' = [networkBroken EXCEPT ![reporter] = FALSE]
  /\ sender' = [sender EXCEPT ![n] = [at |-> "closing"]]
  /\ UNCHANGED <<life, rebuildData, sendQueue, repoVars, historyVars>>

\* Mutant: nobody else is told.
AnnounceRebuiltToNobody(n) ==
  /\ Up(n)
  /\ sender[n].at = "closing"
  /\ SetSurvivors(n, rebuildData[n].liveNodes, rebuildData[n].liveCompIDs)
  /\ sender' = [sender EXCEPT ![n] = Polling]
  /\ UNCHANGED <<life, netVars, sendQueue, historyVars>>

\* The reply to it: the node tells the ring who has survived.
AnnounceRebuilt(n) ==
  LET found == rebuildData[n] IN
  /\ Up(n)
  /\ sender[n].at = "closing"
  /\ SetSurvivors(n, found.liveNodes, found.liveCompIDs)
  /\ Enqueue(n, Right_Boomerang([type |-> "NETWORK_REBUILT", sourceNode |-> n,
                                 nodeIDs |-> found.liveNodes, compIDs |-> found.liveCompIDs]))
  /\ sender' = [sender EXCEPT ![n] = Polling]
  /\ UNCHANGED <<life, netVars, historyVars>>

\* sendBoomerangAndAbort: "EPIC fail!!!", the reporter is dead; or the node has
\* been told to abort.  Its right neighbour, if it lives, is told, too.
Abort(n) ==
  /\ \/ LeftCommFailure(n) /\ ~Up(reportNodeID(n))
     \/ Up(n) /\ sender[n].at = "closing" /\ ~Up(reportNodeID(n))
     \/ Busy(n, {"sending"}, "Abort")
  /\ IF Up(rightID[n]) THEN Enqueue(rightID[n], Right_AbortingBoomerang)
                       ELSE UNCHANGED sendQueue
  /\ life' = [life EXCEPT ![n] = "aborted"]
  /\ UNCHANGED <<netVars, sender, repoVars, historyVars>>

-----------------------------------------------------------------------------
(***************************************************************************)
(* The specification                                                       *)
(***************************************************************************)
SendStep(n) ==
  \/ Pop(n)
  \/ CallPing(n)
  \/ CallResult(n)
  \/ CallNetworkRebuilt(n)
  \/ Replied(n)
  \/ ReportDeadRightNode(n)
  \/ MarkBroken(n)
  \/ BecomeAlone(n)
  \/ CallNodeDied(n)
  \/ CloseRing(n)
  \/ AnnounceRebuilt(n)
  \/ Abort(n)

Next ==
  \E n \in Node : Crash(n) \/ Ping(n) \/ Announce(n) \/ SendStep(n)

Spec == Init /\ [][Next]_vars

\* The send thread polls its queue for ever, and a call that was handled
\* returns; a searching node pings sooner or later (PING_COUNTER_MAX).  Nothing
\* makes a node crash, nor a node that does not search send anything.
Fairness == \A n \in Node : WF_vars(SendStep(n)) /\ WF_vars(Ping(n))

FairSpec == Spec /\ Fairness

-----------------------------------------------------------------------------
(***************************************************************************)
(* Properties                                                              *)
(***************************************************************************)
\* README:27: "When unreachable nodes are detected, the ring automatically
\* rebuilds itself": whatever ways the report, the repair and NETWORK_REBUILT
\* take, the survivors end up in one ring with one view of it, after one failure
\* and after the next.  README:78 excuses only failures during the repair.
ClosesAgain == <>[](overlapping \/ Whole)

\* A send thread that has stopped because the ring is broken has a report on
\* its way, the only thing that can start it again (repairNetwork).
BrokenAwaitsRepair ==
  overlapping \/ \A n \in Survivors :
    networkBroken[n] =>
      \E m \in Survivors : \E item \in Pending(m) :
        item.item = "NodeDied" /\ item.data.reportNodeID = n

\* A living node is never taken for dead (its messages would be dropped and its
\* work searched again): not by a report that missed it, nor by a neighbour
\* that takes itself to be alone.
NoneForgotten == \A m, n \in Survivors : m \in liveNodes[n]

\* setSurvivingComputations destroys no computation that the node takes part
\* in, though the set was gathered by other nodes.
OwnComputationKept == \A n \in Survivors : currentID[n] \in data[n]

Dead(k) == Cardinality(Node \ Survivors) = k

IsResultOf(item, s) ==
  item.item = "Boomerang" /\ item.data.type = "RESULT" /\ item.data.sourceNode = s

\* Once k nodes are dead, a boomerang that some living node still has to send
\* comes back to its source, if nothing else dies and the source is not alone:
\* the item whose call failed goes to the front of the queue again and is sent
\* into the closed ring.
ResultsReturn ==
  \A s \in Announcing, k \in 1 .. Crashes :
    (Dead(k) /\ \E m \in Survivors : \E item \in Pending(m) : IsResultOf(item, s))
      ~> (~Dead(k) \/ ~Up(s) \/ overlapping \/ rightID[s] = s \/ s \in heard[s])

\* Messages of a dead node, which nobody would stop, do not go round for ever.
DeadFallSilent ==
  <>[](\/ overlapping
       \/ \A m \in Survivors, s \in Node \ Survivors :
            \A item \in Pending(m) : ~IsResultOf(item, s))

=============================================================================
