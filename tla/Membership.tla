------------------------------ MODULE Membership ------------------------------
(***************************************************************************)
(* How nodes become members of the ring and choose what to compute: from   *)
(* Network::start() through Repository::init() and getFreeID() or          *)
(* getAnyValidID() to startComputation(), as main() calls them, and the    *)
(* handlers they talk to: ConnectAsLeftNode, BuildNetAndRequestData, and   *)
(* Boomerang with NODE_ANNOUNCEMENT, INSTANCE_ANNOUNCEMENT and             *)
(* FREE_ID_SEARCH.                                                         *)
(*                                                                         *)
(* A node that joins at r is put between r and the left neighbour of r.    *)
(* That neighbour sends it all it knows, the last instance with the order  *)
(* to resume; the new node then announces itself, and when its             *)
(* announcement has come round the ring its main thread goes on.           *)
(*                                                                         *)
(* Handlers are atomic: the ORB runs them one at a time and they hold the  *)
(* mutex that the main thread of the node would need.  Nothing crashes     *)
(* here (README:78), and no computation ends.                              *)
(***************************************************************************)
EXTENDS Naturals, Sequences, FiniteSets, Functions

CONSTANTS
  Node,        \* node identifiers: numbers, compared as the code compares strings
  First,       \* the node that is started without an address
  WithFile,    \* the nodes started with an instance file
  NoNode,      \* the empty identifier
  Garbage,     \* the values an uninitialized maxID may have
  IDs,         \* how many numbers an unsigned int has
  Calm,        \* bound: do nodes join only where the ring is at rest?
  Rivals,      \* may searches for a free ID overlap?
  Prompt       \* does a main thread begin, and end, its waits before the next message?

ASSUME MembershipAssumption ==
  /\ Node \subseteq Nat
  /\ First \in WithFile
  /\ WithFile \subseteq Node
  /\ NoNode \notin Node
  /\ IDs \in Nat \ {0, 1}
  /\ Garbage \subseteq 0 .. IDs - 1 /\ Garbage # {}
  /\ Calm \in BOOLEAN /\ Rivals \in BOOLEAN /\ Prompt \in BOOLEAN

-----------------------------------------------------------------------------
(***************************************************************************)
(* Messages and state                                                      *)
(***************************************************************************)
ID == 0 .. IDs - 1

\* struct blob.  sendAllData packs two names into a NODE_ANNOUNCEMENT; here one
\* message has them all.  An instance is named by the node that brought it.
Message ==
  [type : {"NODE_ANNOUNCEMENT"}, sourceNode : Node, nodes : SUBSET Node]
    \cup [type : {"INSTANCE_ANNOUNCEMENT"}, sourceNode : Node, computationID : ID,
          instance : WithFile, resume : BOOLEAN]
    \cup [type : {"FREE_ID_SEARCH"}, sourceNode : Node, slotA : ID]

\* Mutant: what is sent to a new node has no source.
NodeAnnouncementUnsigned(s, nodes) ==
  [type |-> "NODE_ANNOUNCEMENT", sourceNode |-> NoNode, nodes |-> nodes]

NodeAnnouncement(s, nodes) ==
  [type |-> "NODE_ANNOUNCEMENT", sourceNode |-> s, nodes |-> nodes]

InstanceAnnouncement(s, id, instance, resume) ==
  [type |-> "INSTANCE_ANNOUNCEMENT", sourceNode |-> s, computationID |-> id,
   instance |-> instance, resume |-> resume]

FreeIDSearch(s, id) == [type |-> "FREE_ID_SEARCH", sourceNode |-> s, slotA |-> id]

VARIABLES
  pc,                    \* where main() is
  rightID, leftID, sendQueue,
  liveNodes, liveNodesConsistent,
  data,                  \* instances by ID
  maxID,
  idSearchColisionQueue, \* the flag idSearchColision says no more than this
  computationID          \* main(): the computation this node works at

netVars == <<rightID, leftID>>
idVars == <<maxID, idSearchColisionQueue>>
vars == <<pc, netVars, sendQueue, liveNodes, liveNodesConsistent, data, idVars, computationID>>

\* "connected": start() has called ConnectAsLeftNode and holds bindMutex;
\* "started": start() is over; "init": waits in init(); "ready": init() is over;
\* "searching": getFreeID has sent its search; "asleep": it waits; "woken": it
\* was signalled; "named": it has returned; "running": startComputation.
PC == {"off", "connected", "started", "init", "ready",
       "searching", "asleep", "woken", "named", "running"}

TypeOK ==
  /\ pc \in [Node -> PC]
  /\ rightID \in [Node -> Node \cup {NoNode}]
  /\ leftID \in [Node -> Node \cup {NoNode}]
  /\ sendQueue \in [Node -> Seq(Message)]
  /\ liveNodes \in [Node -> SUBSET Node]
  /\ liveNodesConsistent \in [Node -> BOOLEAN]
  /\ DOMAIN data = Node
  /\ \A n \in Node : DOMAIN data[n] \subseteq ID /\ Range(data[n]) \subseteq WithFile
  /\ maxID \in [Node -> ID]
  /\ idSearchColisionQueue \in [Node -> Seq(Node)]
  /\ computationID \in [Node -> ID]

NoData == [id \in {} |-> First]

\* The constructors; maxID is not initialized.
Init ==
  /\ pc = [n \in Node |-> "off"]
  /\ rightID = [n \in Node |-> NoNode]
  /\ leftID = [n \in Node |-> NoNode]
  /\ sendQueue = [n \in Node |-> <<>>]
  /\ liveNodes = [n \in Node |-> {}]
  /\ liveNodesConsistent = [n \in Node |-> FALSE]
  /\ data = [n \in Node |-> NoData]
  /\ maxID \in [Node -> Garbage]
  /\ idSearchColisionQueue = [n \in Node |-> <<>>]
  /\ computationID = [n \in Node |-> 0]

Started == {n \in Node : pc[n] \notin {"off", "connected"}}

Send(n, msgs) == sendQueue' = [sendQueue EXCEPT ![n] = @ \o msgs]

isSingle(n) == leftID[n] = n

Goto(n, from, to) == pc[n] = from /\ pc' = [pc EXCEPT ![n] = to]

-----------------------------------------------------------------------------
(***************************************************************************)
(* Network::start()                                                        *)
(***************************************************************************)
createSingleNodeNetwork(n) ==
  /\ n = First
  /\ Goto(n, "off", "started")
  /\ rightID' = [rightID EXCEPT ![n] = n]
  /\ leftID' = [leftID EXCEPT ![n] = n]
  /\ UNCHANGED <<sendQueue, liveNodes, liveNodesConsistent, data, idVars, computationID>>

\* Bound: both neighbours of the new node have been through init(), and there
\* is an instance to send it.
AtRest(r) ==
  /\ \A k \in {r, leftID[r]} : pc[k] \notin {"connected", "started", "init"}
  /\ DOMAIN data[leftID[r]] # {}

\* ConnectAsLeftNode at r, a running node.
Connect(n, r) ==
  /\ n # First
  /\ r \in Started
  /\ Calm => AtRest(r)
  /\ Goto(n, "off", "connected")
  /\ rightID' = [rightID EXCEPT ![n] = r]
  /\ leftID' = [leftID EXCEPT ![n] = leftID[r], ![r] = n]
  /\ UNCHANGED <<sendQueue, liveNodes, liveNodesConsistent, data, idVars, computationID>>

\* A map is read in the order of its keys.
Ascending(ids) ==
  CHOOSE f \in [1 .. Cardinality(ids) -> ids] : \A i, j \in DOMAIN f : i < j => f[i] < f[j]

\* Mutant: no instance is the last one.
instancesUnmarked(copies, to) ==
  LET ids == Ascending(DOMAIN copies) IN
  [i \in DOMAIN ids |-> InstanceAnnouncement(to, ids[i], copies[ids[i]], FALSE)]

\* In the order of their IDs; the last one says that init() may resume.
instances(copies, to) ==
  LET ids == Ascending(DOMAIN copies) IN
  [i \in DOMAIN ids |-> InstanceAnnouncement(to, ids[i], copies[ids[i]], i = Len(ids))]

\* Mutant: the names are sent only once they are known to be complete.
sendAllDataWhenConsistent(n, to) ==
  (IF ~liveNodesConsistent[n] THEN <<>> ELSE <<NodeAnnouncement(to, liveNodes[n])>>)
    \o instances(data[n], to)

\* Everything goes out in the name of the new node, which therefore keeps it.
sendAllData(n, to) ==
  (IF liveNodes[n] = {} THEN <<>> ELSE <<NodeAnnouncement(to, liveNodes[n])>>)
    \o instances(data[n], to)

\* Mutant: the left neighbour answers with its data and stays linked to r.
BuildNetAndRequestDataUnlinked(n) ==
  LET l == leftID[n] IN
  /\ pc[n] = "connected"
  /\ pc[l] # "connected"
  /\ Goto(n, "connected", "started")
  /\ Send(l, sendAllData(l, n))
  /\ UNCHANGED <<netVars, liveNodes, liveNodesConsistent, data, idVars, computationID>>

\* BuildNetAndRequestData at the old left neighbour of r, as soon as its own
\* start() lets go of bindMutex.
BuildNetAndRequestData(n) ==
  LET l == leftID[n] IN
  /\ pc[n] = "connected"
  /\ pc[l] # "connected"
  /\ Goto(n, "connected", "started")
  /\ rightID' = [rightID EXCEPT ![l] = n]
  /\ Send(l, sendAllData(l, n))
  /\ UNCHANGED <<leftID, liveNodes, liveNodesConsistent, data, idVars, computationID>>

-----------------------------------------------------------------------------
(***************************************************************************)
(* Repository::init(), and main() from there on                            *)
(***************************************************************************)
InitSingle(n) ==
  /\ isSingle(n)
  /\ Goto(n, "started", "ready")
  /\ maxID' = [maxID EXCEPT ![n] = 1]
  /\ liveNodes' = [liveNodes EXCEPT ![n] = @ \cup {n}]
  /\ UNCHANGED <<netVars, sendQueue, liveNodesConsistent, data, idSearchColisionQueue, computationID>>

InitSleep(n) ==
  /\ ~isSingle(n)
  /\ Goto(n, "started", "init")
  /\ UNCHANGED <<netVars, sendQueue, liveNodes, liveNodesConsistent, data, idVars, computationID>>

\* Bound: one search for a free ID at a time.
Unrivalled == \A k \in Node : pc[k] \notin {"searching", "asleep", "woken", "named"}

\* getFreeID().
SearchFreeID(n) ==
  /\ n \in WithFile
  /\ Rivals \/ Unrivalled
  /\ IF isSingle(n)
     THEN /\ Goto(n, "ready", "named")
          /\ computationID' = [computationID EXCEPT ![n] = maxID[n]]
          /\ UNCHANGED sendQueue
     ELSE /\ Goto(n, "ready", "searching")
          /\ Send(n, <<FreeIDSearch(n, maxID[n])>>)
          /\ UNCHANGED computationID
  /\ UNCHANGED <<netVars, liveNodes, liveNodesConsistent, data, idVars>>

SleepFreeID(n) ==
  /\ Goto(n, "searching", "asleep")
  /\ UNCHANGED <<netVars, sendQueue, liveNodes, liveNodesConsistent, data, idVars, computationID>>

\* The searches that were held back go on with the ID this node has taken.
WakeFreeID(n) ==
  /\ Goto(n, "woken", "named")
  /\ computationID' = [computationID EXCEPT ![n] = maxID[n]]
  /\ Send(n, [i \in DOMAIN idSearchColisionQueue[n] |->
                FreeIDSearch(idSearchColisionQueue[n][i], maxID[n])])
  /\ idSearchColisionQueue' = [idSearchColisionQueue EXCEPT ![n] = <<>>]
  /\ UNCHANGED <<netVars, liveNodes, liveNodesConsistent, data, maxID>>

\* An ID that is taken keeps its instance: map::insert.
inserted(copies, id, instance) ==
  [i \in DOMAIN copies \cup {id} |-> IF i \in DOMAIN copies THEN copies[i] ELSE instance]

\* newData(..., true), then startComputation.
NewData(n) ==
  /\ Goto(n, "named", "running")
  /\ data' = [data EXCEPT ![n] = inserted(@, computationID[n], n)]
  /\ Send(n, IF isSingle(n) THEN <<>>
             ELSE <<InstanceAnnouncement(n, computationID[n], n, FALSE)>>)
  /\ UNCHANGED <<netVars, liveNodes, liveNodesConsistent, idVars, computationID>>

\* A node without an instance of its own takes any: getAnyValidID().
TakeAnyID(n) ==
  /\ n \notin WithFile
  /\ Goto(n, "ready", "running")
  /\ \E id \in DOMAIN data[n] : computationID' = [computationID EXCEPT ![n] = id]
  /\ UNCHANGED <<netVars, sendQueue, liveNodes, liveNodesConsistent, data, idVars>>

-----------------------------------------------------------------------------
(***************************************************************************)
(* LeftNeighbourImpl::Boomerang at the right neighbour of m                *)
(***************************************************************************)
msg(m) == Head(sendQueue[m])

\* A node that is about to wait, or that was woken, is not yet there for it.
Arrives(m, type) ==
  /\ m \in Started
  /\ sendQueue[m] # <<>>
  /\ msg(m).type = type
  /\ Prompt => pc[rightID[m]] \notin {"started", "searching", "woken"}

originMe(m) == msg(m).sourceNode = rightID[m]

\* What goes on to the next node, by a node that knows these others.
Further(m, known) ==
  IF originMe(m) \/ (liveNodesConsistent[rightID[m]] /\ msg(m).sourceNode \notin known)
  THEN <<>>
  ELSE <<msg(m)>>

\* The handler sends msgs.
Handled(m, msgs) ==
  sendQueue' = [k \in Node |->
    (IF k = m THEN Tail(sendQueue[k]) ELSE sendQueue[k]) \o (IF k = rightID[m] THEN msgs ELSE <<>>)]

\* Mutant: a node trusts its set of names when the first announcement comes in.
confirmsEarly(m) == TRUE

\* The announcement of a node has come back to it: setLiveNodeCacheConsistency
\* and awakeInit.
confirms(m) == originMe(m) /\ rightID[m] \in msg(m).nodes

ReceiveNodeAnnouncement(m) ==
  LET r == rightID[m] IN
  /\ Arrives(m, "NODE_ANNOUNCEMENT")
  /\ liveNodes' = [liveNodes EXCEPT ![r] = @ \cup msg(m).nodes]
  /\ liveNodesConsistent' = [liveNodesConsistent EXCEPT ![r] = @ \/ confirms(m)]
  /\ pc' = [pc EXCEPT ![r] = IF confirms(m) /\ @ = "init" THEN "ready" ELSE @]
  /\ Handled(m, Further(m, liveNodes[r] \cup msg(m).nodes))
  /\ UNCHANGED <<netVars, data, idVars, computationID>>

\* Mutant: an announcement ends two nodes before its source.
stopsBeforeSourceEarly(m) == rightID[rightID[rightID[m]]] = msg(m).sourceNode

\* originRightNeighbour
stopsBeforeSource(m) == msg(m).sourceNode = rightID[rightID[m]]

ReceiveInstanceAnnouncement(m) ==
  LET r == rightID[m] IN
  /\ Arrives(m, "INSTANCE_ANNOUNCEMENT")
  /\ data' = [data EXCEPT ![r] = inserted(@, msg(m).computationID, msg(m).instance)]
  /\ Handled(m, (IF msg(m).resume THEN <<NodeAnnouncement(r, {r})>> ELSE <<>>)
                  \o (IF stopsBeforeSource(m) THEN <<>> ELSE Further(m, liveNodes[r])))
  /\ UNCHANGED <<pc, netVars, liveNodes, liveNodesConsistent, idVars, computationID>>

\* Mutant: the answer is taken as it is.
freeIDTaken(id) == id

freeID(id) == (id + 1) % IDs

\* awakeFreeID.
ReceiveFreeID(m) ==
  LET r == rightID[m]
      waits == pc[r] \in {"asleep", "woken"}
  IN
  /\ Arrives(m, "FREE_ID_SEARCH")
  /\ originMe(m)
  /\ maxID' = [maxID EXCEPT ![r] = IF waits THEN freeID(msg(m).slotA) ELSE @]
  /\ pc' = [pc EXCEPT ![r] = IF waits THEN "woken" ELSE @]
  /\ Handled(m, <<>>)
  /\ UNCHANGED <<netVars, liveNodes, liveNodesConsistent, data, idSearchColisionQueue, computationID>>

raised(r, id) == IF maxID[r] > id THEN maxID[r] ELSE id

\* informSearchID: a search that is held back, or sent on with a higher ID.
\* Boomerang then passes on the search itself as well, in either case.
ReceiveSearch(m) ==
  LET r == rightID[m]
      s == msg(m).sourceNode
      held == pc[r] \in {"asleep", "woken"} /\ r > s
  IN
  /\ Arrives(m, "FREE_ID_SEARCH")
  /\ ~originMe(m)
  /\ idSearchColisionQueue' = [idSearchColisionQueue EXCEPT ![r] = IF held THEN Append(@, s) ELSE @]
  /\ Handled(m, (IF held THEN <<>> ELSE <<FreeIDSearch(s, raised(r, msg(m).slotA))>>)
                  \o Further(m, liveNodes[r]))
  /\ UNCHANGED <<pc, netVars, liveNodes, liveNodesConsistent, data, maxID, computationID>>

-----------------------------------------------------------------------------
(***************************************************************************)
(* The specification                                                       *)
(***************************************************************************)
MainStep(n) ==
  \/ BuildNetAndRequestData(n)
  \/ InitSingle(n) \/ InitSleep(n)
  \/ SearchFreeID(n) \/ SleepFreeID(n) \/ WakeFreeID(n)
  \/ NewData(n) \/ TakeAnyID(n)

Deliver(m) ==
  \/ ReceiveNodeAnnouncement(m) \/ ReceiveInstanceAnnouncement(m)
  \/ ReceiveFreeID(m) \/ ReceiveSearch(m)

Next == \E n \in Node :
  createSingleNodeNetwork(n) \/ (\E r \in Node : Connect(n, r)) \/ MainStep(n) \/ Deliver(n)

Spec == Init /\ [][Next]_vars

\* Some thread that can go on does, which is weaker than fairness to each of
\* them; nobody has to join.
FairSpec == Spec /\ WF_vars(\E n \in Node : MainStep(n) \/ Deliver(n))

-----------------------------------------------------------------------------
(***************************************************************************)
(* Properties                                                              *)
(***************************************************************************)
\* Nodes that join in different places at the same time leave one ring: as soon
\* as no start() is under way, left and right links agree and lead through all.
RingWhole ==
  (\A n \in Node : pc[n] # "connected") =>
    /\ \A n \in Started : rightID[n] \in Started /\ leftID[rightID[n]] = n
    /\ \A S \in SUBSET Started : (S # {} /\ \A n \in S : rightID[n] \in S) => S = Started

\* A node that drops the messages of the dead (isAlive) knows every other node
\* that takes part, whichever of them joined first or at the same time.
NobodyTakenForDead ==
  \A m, n \in Node : liveNodesConsistent[m] /\ liveNodesConsistent[n] => m \in liveNodes[n]

\* README:22: "Multiple computation instances may be present in the system at
\* the same time": no two instances are given one ID.
InstancesApart ==
  \A m, n \in WithFile : m # n /\ {pc[m], pc[n]} \subseteq {"named", "running"} =>
     computationID[m] # computationID[n]

\* No message and no start() is under way.
Quiet == \A n \in Node : sendQueue[n] = <<>> /\ pc[n] # "connected"

\* When nothing is under way all nodes know the same nodes, with whatever the
\* announcement of a node met on its way round.
QuietNodesAgree == Quiet => \A m, n \in Started : liveNodes[m] = liveNodes[n]

\* ... and the same instances, of which a new node may be sent some by its left
\* neighbour while others come round.
QuietInstancesAgree == Quiet => \A m, n \in Started : data[m] = data[n]

\* Whoever joins gets to compute something: no wait in init() or getFreeID() lasts.
AllGetToWork == []<>(\A n \in Node : pc[n] \in {"off", "running"})
=============================================================================
