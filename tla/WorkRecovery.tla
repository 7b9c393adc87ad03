----------------------------- MODULE WorkRecovery -----------------------------
(***************************************************************************)
(* How the work of a node that has died is found again: the work caches    *)
(* and zombies of class Synchronization (updateWorkCache, zombify,         *)
(* killZombie, sendWorkRequest, informNetworkRebuild,                      *)
(* informZombifyFinish) and the handlers that drive them.                  *)
(*                                                                         *)
(* Whoever makes an assignment, or sees one pass, keeps a copy of the unit *)
(* under the name of its assignee.  When NETWORK_REBUILT names a node      *)
(* dead, the copies under its name become zombies.  A node that runs dry   *)
(* assigns a zombie to itself instead of asking for work, and the          *)
(* assignment goes round the ring and strikes the zombie everywhere.  A    *)
(* node that was waiting for work when the ring broke first has the copies *)
(* under its own name turned into zombies (ZOMBIFY), as the answer to its  *)
(* request may have been lost.                                             *)
(*                                                                         *)
(* Module WorkSharing has the sharing itself in more detail: here a        *)
(* handler is one action, so is isWorkAvailable() up to its wait, a        *)
(* signalled main thread runs at once, and the termination protocol is one *)
(* place, "over".  Module RingRebuild has the repair of the ring: here     *)
(* CloseRing happens when the report has reached the other neighbour of    *)
(* the dead node.  README:78 excludes failures during the repair and the   *)
(* termination; there are none here, and two nodes or more survive.        *)
(***************************************************************************)
EXTENDS Naturals, Sequences, FiniteSets

CONSTANTS
  Node,          \* node identifiers
  Right,         \* the ring at the beginning
  Initiator,     \* the node whose main() was given the instance file
  Units,         \* the branches of the whole search space, numbered in the order of DFS
  NoNode,        \* the empty string in place of a node identifier
  Mortal,        \* the nodes that may crash
  Crashes,       \* bound: how many of them do
  StopAtLapse    \* bound: is a behaviour followed up to its first lapse only?

\* One ring of at least two nodes.
ASSUME RingAssumption ==
  /\ Right \in [Node -> Node]
  /\ \A m, n \in Node : Right[m] = Right[n] => m = n
  /\ \A n \in Node : Right[n] # n
  /\ \A S \in SUBSET Node : (S # {} /\ \A n \in S : Right[n] \in S) => S = Node

ASSUME RecoveryAssumption ==
  /\ Initiator \in Node
  /\ NoNode \notin Node
  /\ Mortal \subseteq Node
  /\ Crashes \in Nat
  /\ Units \subseteq Nat
  /\ StopAtLapse \in BOOLEAN

-----------------------------------------------------------------------------
(***************************************************************************)
(* Messages and state                                                      *)
(***************************************************************************)
\* struct blob.  A WORK_ASSIGNMET with a zombie (dataStringA) claims the work
\* that this node left behind.
\*
\* issue is history: the number of the assignment that gave the unit away,
\* among those under the name of its assignee.  The code dates a copy with the
\* Lamport time at which a node made it, so the dates of two nodes need not be
\* in the order of the assignments.
Message ==
  [type : {"WORK_REQUEST", "ZOMBIFY"}, sourceNode : Node]
    \cup [type : {"WORK_ASSIGNMET"}, sourceNode : Node, asignee : Node,
          unit : SUBSET Units, zombie : Node \cup {NoNode}, issue : Nat]
    \cup [type : {"NETWORK_REBUILT"}, sourceNode : Node, nodeIDs : SUBSET Node]

\* Mutant: the request does not name its source.
RequestUnsigned(s) == [type |-> "WORK_REQUEST", sourceNode |-> NoNode]

Request(s) == [type |-> "WORK_REQUEST", sourceNode |-> s]
Zombify(s) == [type |-> "ZOMBIFY", sourceNode |-> s]
Assignment(s, a, u, z, i) ==
  [type |-> "WORK_ASSIGNMET", sourceNode |-> s, asignee |-> a, unit |-> u, zombie |-> z, issue |-> i]

\* The maps workAssignments and zombieWork: from some node names to copies.
Copy == [issue : Nat, unit : SUBSET Units]
IsCache(f) == DOMAIN f \subseteq Node /\ \A x \in DOMAIN f : f[x] \in Copy
NoCopies == [x \in {} |-> [issue |-> 0, unit |-> {}]]

\* The ways in which work is known to be lost, see WorkRecoverable.
Lapse == {"served a dead node", "took its own announcement", "gave up waiting", "an older copy won",
          "died with unannounced work"}

VARIABLES
  up,                 \* the nodes that have not crashed
  rightID, leftID,
  closing,            \* how far a node is in reportDeadLeftNode
  sendQueue,
  issued,             \* how many assignments there have been under a name
  liveNodes,          \* Repository::liveNodes
  pc,                 \* main thread: "dfs", "idle" in isWorkAvailable, or "over"
  work,               \* units on the stacks of the node's Computation
  explored,           \* history: units evaluated so far, by anyone
  unannounced,        \* history: what a node had not explored yet when an announcement of it left it out
  splitSuccesful,     \* Synchronization fields, under the names of the source
  workRequests,
  workRequestPending,
  isZombifyingState,
  workAssignments,
  zombieWork,
  lapses              \* history: which lapses have occurred

ringVars == <<up, rightID, leftID, closing>>
mainVars == <<pc, work, explored, unannounced>>
requestVars == <<splitSuccesful, workRequests, workRequestPending, isZombifyingState>>
cacheVars == <<workAssignments, zombieWork>>
vars == <<ringVars, sendQueue, issued, liveNodes, mainVars, requestVars, cacheVars, lapses>>

TypeOK ==
  /\ up \in SUBSET Node
  /\ rightID \in [Node -> Node]
  /\ leftID \in [Node -> Node]
  /\ closing \in [Node -> {"no", "closed", "set"}]
  /\ sendQueue \in [Node -> Seq(Message)]
  /\ issued \in [Node -> Nat]
  /\ liveNodes \in [Node -> SUBSET Node]
  /\ pc \in [Node -> {"dfs", "idle", "over"}]
  /\ work \in [Node -> SUBSET Units]
  /\ explored \in SUBSET Units
  /\ unannounced \in [Node -> SUBSET Units]
  /\ splitSuccesful \in [Node -> BOOLEAN]
  /\ workRequests \in [Node -> Seq(Node)]
  /\ workRequestPending \in [Node -> BOOLEAN]
  /\ isZombifyingState \in [Node -> BOOLEAN]
  /\ DOMAIN workAssignments = Node /\ DOMAIN zombieWork = Node
  /\ \A n \in Node : IsCache(workAssignments[n]) /\ IsCache(zombieWork[n])
  /\ lapses \in SUBSET Lapse

Init ==
  /\ up = Node
  /\ rightID = Right
  /\ leftID = [n \in Node |-> CHOOSE m \in Node : Right[m] = n]
  /\ closing = [n \in Node |-> "no"]
  /\ sendQueue = [n \in Node |-> <<>>]
  /\ issued = [n \in Node |-> 0]
  /\ liveNodes = [n \in Node |-> Node]
  /\ pc = [n \in Node |-> "dfs"]
  /\ work = [n \in Node |-> IF n = Initiator THEN Units ELSE {}]
  /\ explored = {}
  /\ unannounced = [n \in Node |-> {}]
  /\ splitSuccesful = [n \in Node |-> TRUE]
  /\ workRequests = [n \in Node |-> <<>>]
  /\ workRequestPending = [n \in Node |-> FALSE]
  /\ isZombifyingState = [n \in Node |-> FALSE]
  /\ workAssignments = [n \in Node |-> NoCopies]
  /\ zombieWork = [n \in Node |-> NoCopies]
  /\ lapses = {}

\* A map with, and without, some entries.
With(copies, x, copy) == [y \in DOMAIN copies \cup {x} |-> IF y = x THEN copy ELSE copies[y]]
Without(copies, xs) == [y \in DOMAIN copies \ xs |-> copies[y]]

Send(n, msgs) == sendQueue' = [sendQueue EXCEPT ![n] = @ \o msgs]

NoteLapse(lapse, occurs) == lapses' = lapses \cup {l \in {lapse} : occurs}

-----------------------------------------------------------------------------
(***************************************************************************)
(* Main thread                                                             *)
(***************************************************************************)
\* The nodes that take steps: those that have not crashed.
Running == IF StopAtLapse /\ lapses # {} THEN {} ELSE up

Searching(n) == n \in Running /\ pc[n] = "dfs"

\* DFS() takes the branches in their order.
Explore(n) ==
  /\ Searching(n)
  /\ \E u \in work[n] :
        /\ \A other \in work[n] : u <= other
        /\ work' = [work EXCEPT ![n] = @ \ {u}]
        /\ explored' = explored \cup {u}
        /\ unannounced' = [unannounced EXCEPT ![n] = @ \ {u}]
  /\ UNCHANGED <<ringVars, sendQueue, issued, liveNodes, pc, requestVars, cacheVars, lapses>>

\* splitWork cuts a level of the stack.  The branches from first on are the lower
\* part of that level, those from cut to last the upper part, which is given away.
\* The branches of deeper levels come before first; those of shallower levels come
\* after last, and both nodes have them.  unitToAnnounceKept is what is kept
\* without the deeper levels.
Splits(units) ==
  {s \in [first : units, cut : units, last : units] : s.first < s.cut /\ s.cut <= s.last}

Given(units, s) == {u \in units : s.cut <= u}
Kept(units, s) == {u \in units : u < s.cut \/ s.last < u}
Announced(units, s) == {u \in Kept(units, s) : s.first <= u}

\* Mutant: the giver keeps no copy of what it gives away.
CopyGivenToNobody(copies, x, copy) == copies

\* The giver is the first to keep a copy.
CopyGiven(copies, x, copy) == With(copies, x, copy)

\* synchronize(): splitWork succeeds.
AssignWork(n) ==
  LET r == Head(workRequests[n]) IN
  /\ Searching(n)
  /\ workRequests[n] # <<>>
  /\ splitSuccesful[n]
  /\ \E split \in Splits(work[n]) :
       LET given == Given(work[n], split)
           announced == Announced(work[n], split)
       IN
       /\ work' = [work EXCEPT ![n] = Kept(@, split)]
       /\ workAssignments' = [workAssignments EXCEPT
             ![n] = CopyGiven(@, r, [issue |-> issued[r] + 1, unit |-> given])]
       /\ Send(n, <<Assignment(r, r, given, NoNode, issued[r] + 1),
                    Assignment(leftID[n], n, announced, NoNode, issued[n] + 1)>>)
       /\ unannounced' = [unannounced EXCEPT ![n] = @ \cup (Kept(work[n], split) \ announced)]
  /\ NoteLapse("served a dead node", r \notin liveNodes[n])
  /\ issued' = [issued EXCEPT ![r] = @ + 1, ![n] = @ + 1]
  /\ workRequests' = [workRequests EXCEPT ![n] = Tail(@)]
  /\ UNCHANGED <<ringVars, liveNodes, pc, explored, splitSuccesful, workRequestPending,
                 isZombifyingState, zombieWork>>

DeclineRequest(n) ==
  /\ Searching(n)
  /\ workRequests[n] # <<>>
  /\ splitSuccesful' = [splitSuccesful EXCEPT ![n] = FALSE]
  /\ Send(n, <<Request(Head(workRequests[n]))>>)
  /\ workRequests' = [workRequests EXCEPT ![n] = Tail(@)]
  /\ UNCHANGED <<ringVars, issued, liveNodes, mainVars, workRequestPending, isZombifyingState,
                 cacheVars, lapses>>

\* sendWorkRequest(): claim some zombie, else ask for work.
WorkMessages(n) ==
  IF DOMAIN zombieWork[n] = {} THEN {Request(n)}
  ELSE {Assignment(n, n, zombieWork[n][z].unit, z, zombieWork[n][z].issue) : z \in DOMAIN zombieWork[n]}

\* isWorkAvailable(), up to its first wait.
RunDry(n) ==
  /\ Searching(n)
  /\ work[n] = {}
  /\ \E msg \in WorkMessages(n) :
        /\ Send(n, <<msg>>)
        /\ workRequestPending' = [workRequestPending EXCEPT ![n] = msg.type = "WORK_REQUEST"]
  /\ pc' = [pc EXCEPT ![n] = "idle"]
  /\ UNCHANGED <<ringVars, issued, liveNodes, work, explored, unannounced, splitSuccesful, workRequests,
                 isZombifyingState, cacheVars, lapses>>

-----------------------------------------------------------------------------
(***************************************************************************)
(* LeftNeighbourImpl::Boomerang at the right neighbour of m                *)
(***************************************************************************)
msg(m) == Head(sendQueue[m])

Arrives(m, types) ==
  /\ m \in Running
  /\ rightID[m] \in up
  /\ sendQueue[m] # <<>>
  /\ msg(m).type \in types

\* "killing zombie boomerang": is its source alive?  The initiator, which was
\* alone in init(), never has liveNodesConsistent set.
isAlive(m) == rightID[m] = Initiator \/ msg(m).sourceNode \in liveNodes[rightID[m]]

originMe(m) == msg(m).sourceNode = rightID[m]

\* The handler sends msgs.
Handled(m, msgs) == sendQueue' = [sendQueue EXCEPT ![m] = Tail(@), ![rightID[m]] = @ \o msgs]

\* sendFurther
Further(m) == IF originMe(m) THEN <<>> ELSE <<msg(m)>>

DropDead(m) ==
  /\ Arrives(m, {"WORK_REQUEST", "WORK_ASSIGNMET", "ZOMBIFY", "NETWORK_REBUILT"})
  /\ ~isAlive(m)
  /\ Handled(m, <<>>)
  /\ UNCHANGED <<ringVars, issued, liveNodes, mainVars, requestVars, cacheVars, lapses>>

\* informNoAssignment wakes the main thread, unless zombifying is under way.
ReceiveDenial(m) ==
  LET r == rightID[m]
      wakes == ~isZombifyingState[r] /\ pc[r] = "idle"
  IN
  /\ Arrives(m, {"WORK_REQUEST"})
  /\ isAlive(m)
  /\ originMe(m)
  /\ Handled(m, <<>>)
  /\ pc' = [pc EXCEPT ![r] = IF wakes THEN "over" ELSE @]
  /\ workRequestPending' = [workRequestPending EXCEPT ![r] = @ /\ ~wakes]
  /\ UNCHANGED <<ringVars, issued, liveNodes, work, explored, unannounced, splitSuccesful, workRequests,
                 isZombifyingState, cacheVars, lapses>>

ReceiveRequest(m) ==
  LET r == rightID[m] IN
  /\ Arrives(m, {"WORK_REQUEST"})
  /\ isAlive(m)
  /\ ~originMe(m)
  /\ IF pc[r] = "dfs" /\ splitSuccesful[r]
     THEN /\ Handled(m, <<>>)
          /\ workRequests' = [workRequests EXCEPT ![r] = Append(@, msg(m).sourceNode)]
     ELSE /\ Handled(m, Further(m))
          /\ UNCHANGED workRequests
  /\ UNCHANGED <<ringVars, issued, liveNodes, mainVars, splitSuccesful, workRequestPending,
                 isZombifyingState, cacheVars, lapses>>

\* Work for this node: killZombie and informAssignment, unless zombifying is
\* under way.  The test is on asignee, so the announcement of what this node
\* has kept is taken like any other assignment when it gets this far.
ReceiveAssignment(m) ==
  LET r == rightID[m] IN
  /\ Arrives(m, {"WORK_ASSIGNMET"})
  /\ isAlive(m)
  /\ msg(m).asignee = r
  /\ Handled(m, Further(m))
  /\ IF isZombifyingState[r]
     THEN UNCHANGED <<pc, work, workRequestPending, zombieWork>>
     ELSE /\ zombieWork' = [zombieWork EXCEPT ![r] = Without(@, {msg(m).zombie})]
          /\ work' = [work EXCEPT ![r] = msg(m).unit]
          /\ pc' = [pc EXCEPT ![r] = IF @ = "idle" THEN "dfs" ELSE @]
          /\ workRequestPending' = [workRequestPending EXCEPT ![r] = FALSE]
  /\ NoteLapse("took its own announcement", ~originMe(m))
  /\ UNCHANGED <<ringVars, issued, liveNodes, explored, unannounced, splitSuccesful, workRequests,
                 isZombifyingState, workAssignments>>

\* updateWorkCache() when an assignment of new work passes.
CacheAssignment(m) ==
  LET r == rightID[m] IN
  /\ Arrives(m, {"WORK_ASSIGNMET"})
  /\ isAlive(m)
  /\ msg(m).asignee # r
  /\ msg(m).zombie = NoNode
  /\ workAssignments' = [workAssignments EXCEPT
        ![r] = With(@, msg(m).asignee, [issue |-> msg(m).issue, unit |-> msg(m).unit])]
  /\ Handled(m, Further(m))
  /\ UNCHANGED <<ringVars, issued, liveNodes, mainVars, requestVars, zombieWork, lapses>>

\* The claim with the unit of this node's own copy of the zombie.
Improved(claim, copies) ==
  IF claim.zombie \in DOMAIN copies
  THEN [claim EXCEPT !.unit = copies[claim.zombie].unit, !.issue = copies[claim.zombie].issue]
  ELSE claim

\* updateWorkCache() when a claim passes: the unit goes on whose copy has the
\* later date.  That may be either, see Message.
StrikeZombie(m) ==
  LET r == rightID[m]
      units == {msg(m), Improved(msg(m), zombieWork[r])}
  IN
  /\ Arrives(m, {"WORK_ASSIGNMET"})
  /\ isAlive(m)
  /\ msg(m).asignee # r
  /\ msg(m).zombie # NoNode
  /\ zombieWork' = [zombieWork EXCEPT ![r] = Without(@, {msg(m).zombie})]
  /\ \E kept \in units :
        /\ Handled(m, <<kept>>)
        /\ NoteLapse("an older copy won", \E other \in units : kept.issue < other.issue)
  /\ UNCHANGED <<ringVars, issued, liveNodes, mainVars, requestVars, workAssignments>>

-----------------------------------------------------------------------------
(***************************************************************************)
(* Zombies                                                                 *)
(***************************************************************************)
zombify(r, dead) ==
  LET found == dead \cap DOMAIN workAssignments[r] IN
  /\ workAssignments' = [workAssignments EXCEPT ![r] = Without(@, dead)]
  /\ zombieWork' = [zombieWork EXCEPT ![r] =
        [x \in DOMAIN @ \cup found |-> IF x \in found THEN workAssignments[r][x] ELSE @[x]]]

\* setLiveNodes.
SetLiveNodes(r, nodeIDs) ==
  /\ liveNodes' = [liveNodes EXCEPT ![r] = nodeIDs]
  /\ zombify(r, liveNodes[r] \ nodeIDs)

\* Mutant: a node that waits for work is told nothing.
informNetworkRebuildNever(r) == FALSE

\* informNetworkRebuild sends ZOMBIFY if a request of this node is pending.
informNetworkRebuild(r) == workRequestPending[r]

\* NETWORK_REBUILT: passed on, then setLiveNodes, then informNetworkRebuild.
ReceiveRebuilt(m) ==
  LET r == rightID[m] IN
  /\ Arrives(m, {"NETWORK_REBUILT"})
  /\ isAlive(m)
  /\ SetLiveNodes(r, msg(m).nodeIDs)
  /\ IF informNetworkRebuild(r)
     THEN /\ Handled(m, Further(m) \o <<Zombify(r)>>)
          /\ isZombifyingState' = [isZombifyingState EXCEPT ![r] = TRUE]
     ELSE /\ Handled(m, Further(m))
          /\ UNCHANGED isZombifyingState
  /\ UNCHANGED <<ringVars, issued, mainVars, splitSuccesful, workRequests, workRequestPending, lapses>>

\* Mutant: ZOMBIFY is not passed on.
ReceiveZombifyAndStop(m) ==
  /\ Arrives(m, {"ZOMBIFY"})
  /\ isAlive(m)
  /\ ~originMe(m)
  /\ Handled(m, <<>>)
  /\ zombify(rightID[m], {msg(m).sourceNode})
  /\ UNCHANGED <<ringVars, issued, liveNodes, mainVars, requestVars, lapses>>

ReceiveZombify(m) ==
  /\ Arrives(m, {"ZOMBIFY"})
  /\ isAlive(m)
  /\ ~originMe(m)
  /\ Handled(m, Further(m))
  /\ zombify(rightID[m], {msg(m).sourceNode})
  /\ UNCHANGED <<ringVars, issued, liveNodes, mainVars, requestVars, lapses>>

\* informZombifyFinish sends a new request and wakes the main thread, which
\* finds workReciewed unset and takes this for a denial.
FinishZombify(m) ==
  LET r == rightID[m] IN
  /\ Arrives(m, {"ZOMBIFY"})
  /\ isAlive(m)
  /\ originMe(m)
  /\ \E answer \in WorkMessages(r) : Handled(m, <<answer>>)
  /\ isZombifyingState' = [isZombifyingState EXCEPT ![r] = FALSE]
  /\ workRequestPending' = [workRequestPending EXCEPT ![r] = FALSE]
  /\ pc' = [pc EXCEPT ![r] = "over"]
  /\ NoteLapse("gave up waiting", TRUE)
  /\ UNCHANGED <<ringVars, issued, liveNodes, work, explored, unannounced, splitSuccesful, workRequests, cacheVars>>

-----------------------------------------------------------------------------
(***************************************************************************)
(* A node dies, and the ring closes again                                  *)
(***************************************************************************)
InTransit(n) == {sendQueue[n][i] : i \in DOMAIN sendQueue[n]}

Sent(type) == \E n \in up : \E i \in DOMAIN sendQueue[n] : sendQueue[n][i].type = type

Repairing ==
  \/ \E n \in up : closing[n] # "no" \/ rightID[n] \notin up
  \/ Sent("NETWORK_REBUILT")

\* What dies with n: the units on its stacks, and those in assignments it has not sent.
DiesWith(n) ==
  work[n] \cup UNION {sent.unit : sent \in {y \in InTransit(n) : y.type = "WORK_ASSIGNMET"}}

\* README:78: neither during the repair nor during the termination, and the
\* initiator not before another node has a copy of its work.
Crash(n) ==
  /\ n \in Mortal \cap Running
  /\ Cardinality(Node \ up) < Crashes
  /\ ~Repairing
  /\ \A m \in up : pc[m] # "over"
  /\ n = Initiator => \E m \in up \ {n} : n \in DOMAIN workAssignments[m]
  /\ up' = up \ {n}
  /\ NoteLapse("died with unannounced work", unannounced[n] \cap DiesWith(n) # {})
  /\ UNCHANGED <<rightID, leftID, closing, sendQueue, issued, liveNodes, mainVars, requestVars,
                 cacheVars>>

\* The left neighbour m of the dead node notices, as it has something to send or
\* pings (only a searching node does); its report reaches b; b attaches m.
CloseRing(m) ==
  /\ m \in Running
  /\ rightID[m] \notin up
  /\ sendQueue[m] # <<>> \/ pc[m] = "dfs"
  /\ \E b \in up :
       /\ leftID[b] = rightID[m]
       /\ rightID' = [rightID EXCEPT ![m] = b]
       /\ leftID' = [leftID EXCEPT ![b] = m]
       /\ closing' = [closing EXCEPT ![b] = "closed"]
  /\ UNCHANGED <<up, sendQueue, issued, liveNodes, mainVars, requestVars, cacheVars, lapses>>

\* reportDeadLeftNode goes on: setLiveNodes ...
SetSurvivors(b) ==
  /\ b \in Running
  /\ closing[b] = "closed"
  /\ closing' = [closing EXCEPT ![b] = "set"]
  /\ SetLiveNodes(b, up)
  /\ UNCHANGED <<up, rightID, leftID, sendQueue, issued, mainVars, requestVars, lapses>>

\* ... and NETWORK_REBUILT.
AnnounceRebuilt(b) ==
  /\ b \in Running
  /\ closing[b] = "set"
  /\ closing' = [closing EXCEPT ![b] = "no"]
  /\ Send(b, <<[type |-> "NETWORK_REBUILT", sourceNode |-> b, nodeIDs |-> liveNodes[b]]>>)
  /\ UNCHANGED <<up, rightID, leftID, issued, liveNodes, mainVars, requestVars, cacheVars, lapses>>

-----------------------------------------------------------------------------
(***************************************************************************)
(* The specification                                                       *)
(***************************************************************************)
Deliver(m) ==
  \/ DropDead(m) \/ ReceiveDenial(m) \/ ReceiveRequest(m) \/ ReceiveAssignment(m)
  \/ CacheAssignment(m) \/ StrikeZombie(m) \/ ReceiveRebuilt(m) \/ ReceiveZombify(m)
  \/ FinishZombify(m)

NodeStep(n) ==
  \/ Explore(n) \/ AssignWork(n) \/ DeclineRequest(n) \/ RunDry(n)
  \/ Deliver(n)
  \/ Crash(n) \/ CloseRing(n) \/ SetSurvivors(n) \/ AnnounceRebuilt(n)

Next == \E n \in Node : NodeStep(n)

Spec == Init /\ [][Next]_vars

-----------------------------------------------------------------------------
(***************************************************************************)
(* Properties                                                              *)
(***************************************************************************)
\* Under these names the copies of n are zombies, or will be: of the dead whose
\* death n has not heard of yet, and of those who wait for work (ZOMBIFY).
ToZombify(n) == (liveNodes[n] \ up) \cup {x \in up : workRequestPending[x]}

\* Some node searches u, is going to, or has a copy of it that is or will be
\* open to claims.
Recoverable(u) ==
  \E n \in up :
    \/ u \in work[n] /\ pc[n] = "dfs"
    \/ \E sent \in InTransit(n) :
         /\ sent.type = "WORK_ASSIGNMET" /\ u \in sent.unit
         /\ sent.asignee = sent.sourceNode
         /\ sent.asignee \in up /\ pc[sent.asignee] = "idle"
    \/ \E x \in DOMAIN workAssignments[n] \cap ToZombify(n) : u \in workAssignments[n][x].unit
    \/ \E x \in DOMAIN zombieWork[n] : u \in zombieWork[n][x].unit

\* The caches do what they are for: a node dies and nothing that is still to be
\* explored is lost, whatever was under way, and whichever copies claims and
\* ZOMBIFY move about, but for five lapses: a searching node serves the request of
\* a node it already knows to be dead; the announcement of what a node has kept
\* comes back to it, because the neighbour at which it should have ended is dead;
\* ZOMBIFY ends the wait it was sent for; a claim goes round with an old copy and
\* strikes a newer one; a node dies before it has explored, or sent away, the
\* levels of its stack that were deeper than one it has split, which are not in the
\* announcement (Computation.cpp:167-178) that is to say what it keeps
\* (Synchronization.cpp:186).
WorkRecoverable == lapses # {} \/ \A u \in Units \ explored : Recoverable(u)

\* README:27: when nodes are unreachable the ring goes on, "extracting work units
\* previously assigned to them from caches, and finishing the computation
\* without them": once the ring is whole and nobody searches, all is explored.
FinishedWithoutThem == ~Repairing /\ (\A n \in up : pc[n] = "over") => explored = Units

\* A node that drops the answers to its request (isZombifyingState) is about to
\* stop doing so: ZOMBIFY is on its way back to it.
ZombifyReturns ==
  \A n \in up : isZombifyingState[n] => \E m \in up : Zombify(n) \in InTransit(m)

\* The call for n's work, or its answer, that n can still hear.
Awaits(n) ==
  \E m \in up :
    \/ \E i \in DOMAIN workRequests[m] : workRequests[m][i] = n
    \/ \E sent \in InTransit(m) : sent.sourceNode = n /\ sent.type # "NETWORK_REBUILT"

\* A node does not wait for ever: its request, its claim, an answer or ZOMBIFY
\* is under way, or the ring is broken and it will be told to start over.
NobodyForgotten ==
  \A n \in up : pc[n] = "idle" => Awaits(n) \/ (workRequestPending[n] /\ Repairing)
=============================================================================
