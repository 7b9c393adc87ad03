----------------------------- MODULE WorkSharing -----------------------------
(***************************************************************************)
(* How the nodes of a ring share the work of one computation and detect    *)
(* that it has ended: class Synchronization, the synchronizing part of     *)
(* LeftNeighbourImpl::Boomerang, and the parts of Computation, Repository  *)
(* and Network that drive them.                                            *)
(*                                                                         *)
(* Three threads of each node take part.  The MAIN thread runs the search  *)
(* (Computation::start, DFS) and the calls synchronize() and               *)
(* isWorkAvailable(); variable pc says where it is.  The SEND thread pops  *)
(* sendQueue and calls Boomerang on the right neighbour, waiting for the   *)
(* call to return; so a queue is a FIFO channel to the right and a node    *)
(* handles one Boomerang at a time.  The RECEIVE thread runs the handler.  *)
(* A critical section of Synchronization::syncMutex is one action, except  *)
(* the request loop of synchronize(), one action per request, during       *)
(* which pc = "sync" stands for the mutex being held.  Code between two    *)
(* critical sections is interleaved.                                       *)
(*                                                                         *)
(* The search space is abstracted to a set of units (branches that are     *)
(* still to be explored): what a split does to the stacks, the solutions   *)
(* found, the work caches and the changes of the ring are left to other    *)
(* modules.  The ring is complete and its nodes do not fail here.          *)
(***************************************************************************)
EXTENDS Naturals, Sequences, FiniteSets

CONSTANTS
  Node,             \* node identifiers; their string order is that of Nat
  Right,            \* Right[n] is the node that n sends its boomerangs to
  Initiator,        \* the node whose main() was given the instance file
  Late,             \* the nodes that may join after the search has begun
  Units,            \* the branches of the whole search space
  NoNode,           \* an empty nodeID
  PromptWakeup,     \* does a signalled main thread run before the next handler?
  UnguardedWaits,   \* where pthread_cond_wait may return without a signal
  SpuriousWakeups   \* bound: how often it does

ASSUME NodeAssumption ==
  /\ Node \subseteq Nat
  /\ Initiator \in Node
  /\ Late \subseteq Node \ {Initiator}
  /\ NoNode \notin Node

\* One ring of at least two nodes: networkModule->isSingle() is false.
ASSUME RingAssumption ==
  /\ Right \in [Node -> Node]
  /\ \A m, n \in Node : Right[m] = Right[n] => m = n
  /\ \A n \in Node : Right[n] # n
  /\ \A S \in SUBSET Node :
        (S # {} /\ \A n \in S : Right[n] \in S) => S = Node

ASSUME SchedulingAssumption ==
  /\ PromptWakeup \in BOOLEAN
  /\ UnguardedWaits \subseteq {"idle", "leader", "gather"}
  /\ SpuriousWakeups \in Nat

Left(n) == CHOOSE m \in Node : Right[m] = n

-----------------------------------------------------------------------------
(***************************************************************************)
(* Messages and state                                                      *)
(***************************************************************************)
Color == {"BLACK", "WHITE"}

\* struct blob, without the fields no handler of this module reads.  A
\* WORK_ASSIGNMET whose asignee is not its sourceNode is the announcement of
\* the work a node keeps after a split; only the work caches read it.
Message ==
  [type : {"WORK_REQUEST", "RESULT", "TERMINATE"}, sourceNode : Node]
    \cup [type : {"WORK_ASSIGNMET"}, sourceNode : Node, asignee : Node,
          unit : SUBSET Units]
    \cup [type : {"TERMINATION_TOKEN"}, sourceNode : Node, slotA : Color]

\* Where the main thread of a node is.
\*   out      not in this computation (currentSyncModule is not its module)
\*   start    startComputation done, isWorkAvailable not yet called
\*   dfs      in Computation::DFS
\*   sync     in synchronize(), holding syncMutex
\*   request  isWorkAvailable, isWorkingState just lowered
\*   idle     isWorkAvailable, waiting for the answer to its request
\*   resume   isWorkAvailable, woken with work, isWorkingState not yet raised
\*   leader   termination leader, waiting for its token
\*   gather   termination leader, waiting for its terminal RESULT
\*   await    waiting for commandTerminate
\*   done     isWorkAvailable returned false
\*   left     computation destroyed
PC == {"out", "start", "dfs", "sync", "request", "idle", "resume", "leader",
       "gather", "await", "done", "left"}

\* What the Boomerang handler of a node is in the middle of.
HandlerState ==
  [op : {"none"}] \cup [op : {"accept", "forward"}, msg : Message]

VARIABLES
  pc,                 \* main thread
  awake,              \* has the condition the main thread waits on been signalled?
  work,               \* units on the stacks of the node's Computation
  explored,           \* history: units evaluated so far, by anyone
  sendQueue,          \* Network::sendQueue
  handler,            \* Boomerang handler
  isWorkingState,     \* Synchronization fields, under the names of the source
  splitSuccesful,
  workReciewed,
  workRequests,
  myColor,
  terminationToken,
  tokenOrigin,
  recievedColor,      \* "unset" until it is first assigned
  terminationLeader,
  commandTerminate,
  spurious            \* history: waits that have returned without a signal

mainVars   == <<pc, awake>>
searchVars == <<work, explored>>
netVars    == <<sendQueue, handler>>
shareVars  == <<isWorkingState, splitSuccesful, workReciewed, workRequests>>
tokenVars  == <<myColor, terminationToken, tokenOrigin, recievedColor>>
termVars   == <<terminationLeader, commandTerminate>>
vars == <<mainVars, searchVars, netVars, shareVars, tokenVars, termVars, spurious>>

TypeOK ==
  /\ pc \in [Node -> PC]
  /\ awake \in [Node -> BOOLEAN]
  /\ work \in [Node -> SUBSET Units]
  /\ explored \in SUBSET Units
  /\ sendQueue \in [Node -> Seq(Message)]
  /\ handler \in [Node -> HandlerState]
  /\ isWorkingState \in [Node -> BOOLEAN]
  /\ splitSuccesful \in [Node -> BOOLEAN]
  /\ workReciewed \in [Node -> BOOLEAN]
  /\ workRequests \in [Node -> Seq(Node)]
  /\ myColor \in [Node -> Color]
  /\ terminationToken \in [Node -> BOOLEAN]
  /\ tokenOrigin \in [Node -> Node \cup {NoNode}]
  /\ recievedColor \in [Node -> Color \cup {"unset"}]
  /\ terminationLeader \in [Node -> BOOLEAN]
  /\ commandTerminate \in [Node -> BOOLEAN]
  /\ spurious \in 0 .. SpuriousWakeups

\* The initiator is in start(localStart = true); the others have the instance
\* data and are in startComputation already, or may call it later.
Init ==
  /\ pc = [n \in Node |-> CASE n = Initiator -> "dfs"
                           [] n \in Late -> "out"
                           [] OTHER -> "start"]
  /\ awake = [n \in Node |-> FALSE]
  /\ work = [n \in Node |-> IF n = Initiator THEN Units ELSE {}]
  /\ explored = {}
  /\ sendQueue = [n \in Node |-> <<>>]
  /\ handler = [n \in Node |-> [op |-> "none"]]
  /\ isWorkingState = [n \in Node |-> TRUE]
  /\ splitSuccesful = [n \in Node |-> TRUE]
  /\ workReciewed = [n \in Node |-> FALSE]
  /\ workRequests = [n \in Node |-> <<>>]
  /\ myColor = [n \in Node |-> "WHITE"]
  /\ terminationToken = [n \in Node |-> FALSE]
  /\ tokenOrigin = [n \in Node |-> NoNode]
  /\ recievedColor = [n \in Node |-> "unset"]
  /\ terminationLeader = [n \in Node |-> FALSE]
  /\ commandTerminate = [n \in Node |-> FALSE]
  /\ spurious = 0

-----------------------------------------------------------------------------
(***************************************************************************)
(* Main thread: the search                                                 *)
(***************************************************************************)
Send(n, msg) == sendQueue' = [sendQueue EXCEPT ![n] = Append(@, msg)]

\* Repository::startComputation of a node that joins: publishes the module.
Start(n) ==
  /\ pc[n] = "out"
  /\ pc' = [pc EXCEPT ![n] = "start"]
  /\ UNCHANGED <<awake, searchVars, netVars, shareVars, tokenVars, termVars, spurious>>

\* Computation::DFS explores a branch.
Explore(n) ==
  /\ pc[n] = "dfs"
  /\ \E u \in work[n] :
        /\ work' = [work EXCEPT ![n] = @ \ {u}]
        /\ explored' = explored \cup {u}
  /\ UNCHANGED <<mainVars, netVars, shareVars, tokenVars, termVars, spurious>>

\* Every loopsToSync iterations DFS calls synchronize(), which locks syncMutex.
\* Without pending requests the call changes nothing that is modelled here.
EnterSynchronize(n) ==
  /\ pc[n] = "dfs"
  /\ workRequests[n] # <<>>
  /\ pc' = [pc EXCEPT ![n] = "sync"]
  /\ UNCHANGED <<awake, searchVars, netVars, shareVars, tokenVars, termVars, spurious>>

\* The two messages of a split: the assignment itself, and the announcement of
\* the work that is kept, which must not come back to the node it names.
AssignmentTo(requester, units) ==
  [type |-> "WORK_ASSIGNMET", sourceNode |-> requester, asignee |-> requester, unit |-> units]

\* Mutant: the announcement keeps the node itself as its source.
KeptAnnouncementFromSelf(n, units) ==
  [type |-> "WORK_ASSIGNMET", sourceNode |-> n, asignee |-> n, unit |-> units]

KeptAnnouncement(n, units) ==
  [type |-> "WORK_ASSIGNMET", sourceNode |-> Left(n), asignee |-> n, unit |-> units]

\* Computation::splitWork cuts an interval of two branches or more, so neither
\* side of the cut is empty.  (Above the cut both stacks have the same levels,
\* with one branch at most: work that is repeated, not shared, see SearchStack.)
Splits(units) == (SUBSET units) \ {{}, units}

\* Mutant: the interval on the stack is not cut.
KeptUncut(units, given) == units

\* What splitWork leaves on the stacks.
Kept(units, given) == units \ given

\* synchronize(): splitWork succeeds.
AssignWork(n) ==
  /\ pc[n] = "sync"
  /\ workRequests[n] # <<>>
  /\ splitSuccesful[n]
  /\ \E given \in Splits(work[n]) :
        /\ work' = [work EXCEPT ![n] = Kept(@, given)]
        /\ sendQueue' = [sendQueue EXCEPT
              ![n] = @ \o <<AssignmentTo(Head(workRequests[n]), given),
                            KeptAnnouncement(n, Kept(work[n], given))>>]
  /\ myColor' = [myColor EXCEPT ![n] = "BLACK"]
  /\ workRequests' = [workRequests EXCEPT ![n] = Tail(@)]
  /\ UNCHANGED <<mainVars, explored, handler, isWorkingState, splitSuccesful, workReciewed,
                 terminationToken, tokenOrigin, recievedColor, termVars, spurious>>

\* Mutant: a declined request stays in workRequests.
DeclineRequestWithoutPop(n) ==
  /\ pc[n] = "sync"
  /\ workRequests[n] # <<>>
  /\ splitSuccesful' = [splitSuccesful EXCEPT ![n] = FALSE]
  /\ Send(n, [type |-> "WORK_REQUEST", sourceNode |-> Head(workRequests[n])])
  /\ UNCHANGED <<mainVars, searchVars, handler, isWorkingState, workReciewed, workRequests,
                 tokenVars, termVars, spurious>>

\* synchronize(): no split.  splitWork may fail whatever is left, because it
\* looks at the shallow levels only; once it has failed it is not tried again.
DeclineRequest(n) ==
  /\ pc[n] = "sync"
  /\ workRequests[n] # <<>>
  /\ splitSuccesful' = [splitSuccesful EXCEPT ![n] = FALSE]
  /\ Send(n, [type |-> "WORK_REQUEST", sourceNode |-> Head(workRequests[n])])
  /\ workRequests' = [workRequests EXCEPT ![n] = Tail(@)]
  /\ UNCHANGED <<mainVars, searchVars, handler, isWorkingState, workReciewed, tokenVars, termVars,
                 spurious>>

LeaveSynchronize(n) ==
  /\ pc[n] = "sync"
  /\ workRequests[n] = <<>>
  /\ pc' = [pc EXCEPT ![n] = "dfs"]
  /\ UNCHANGED <<awake, searchVars, netVars, shareVars, tokenVars, termVars, spurious>>

-----------------------------------------------------------------------------
(***************************************************************************)
(* Main thread: isWorkAvailable()                                          *)
(***************************************************************************)
\* DFS backtracked from its last state, or start() has no local work: the
\* first critical section of isWorkAvailable, under stateMutex.
StopWorking(n) ==
  /\ \/ pc[n] = "start"
     \/ pc[n] = "dfs" /\ work[n] = {}
  /\ isWorkingState' = [isWorkingState EXCEPT ![n] = FALSE]
  /\ pc' = [pc EXCEPT ![n] = "request"]
  /\ UNCHANGED <<awake, searchVars, netVars, splitSuccesful, workReciewed, workRequests,
                 tokenVars, termVars, spurious>>

\* sendWorkRequest() with no zombie work, then pthread_cond_wait.
RequestWork(n) ==
  /\ pc[n] = "request"
  /\ Send(n, [type |-> "WORK_REQUEST", sourceNode |-> n])
  /\ workReciewed' = [workReciewed EXCEPT ![n] = FALSE]
  /\ awake' = [awake EXCEPT ![n] = FALSE]
  /\ pc' = [pc EXCEPT ![n] = "idle"]
  /\ UNCHANGED <<searchVars, handler, isWorkingState, splitSuccesful, workRequests,
                 tokenVars, termVars, spurious>>

WakeWithWork(n) ==
  /\ pc[n] = "idle"
  /\ awake[n]
  /\ workReciewed[n]
  /\ awake' = [awake EXCEPT ![n] = FALSE]
  /\ pc' = [pc EXCEPT ![n] = "resume"]
  /\ UNCHANGED <<searchVars, netVars, shareVars, tokenVars, termVars, spurious>>

\* isWorkAvailable returns true.  A node that has just joined calls
\* synchronize() before it searches, as it may at any point of the search.
ResumeWorking(n) ==
  /\ pc[n] = "resume"
  /\ isWorkingState' = [isWorkingState EXCEPT ![n] = TRUE]
  /\ pc' = [pc EXCEPT ![n] = "dfs"]
  /\ UNCHANGED <<awake, searchVars, netVars, splitSuccesful, workReciewed, workRequests,
                 tokenVars, termVars, spurious>>

\* The token sendTerminationToken() sends, given the fields it reads.
ForwardedToken(origin, recieved, mine) ==
  [type |-> "TERMINATION_TOKEN", sourceNode |-> origin,
   slotA |-> IF recieved = "BLACK" THEN "BLACK" ELSE mine]

OwnToken(n) == [type |-> "TERMINATION_TOKEN", sourceNode |-> n, slotA |-> "WHITE"]

\* Woken without work while a token has been seen: sendTerminationToken(),
\* then wait for commandTerminate.
PassSavedToken(n) ==
  /\ pc[n] = "idle"
  /\ awake[n]
  /\ ~workReciewed[n]
  /\ terminationToken[n]
  /\ Send(n, ForwardedToken(tokenOrigin[n], recievedColor[n], myColor[n]))
  /\ myColor' = [myColor EXCEPT ![n] = "WHITE"]
  /\ awake' = [awake EXCEPT ![n] = FALSE]
  /\ pc' = [pc EXCEPT ![n] = "await"]
  /\ UNCHANGED <<searchVars, handler, shareVars, terminationToken, tokenOrigin,
                 recievedColor, termVars, spurious>>

\* Woken without work and no token seen so far: become termination leader.
BecomeLeader(n) ==
  /\ pc[n] = "idle"
  /\ awake[n]
  /\ ~workReciewed[n]
  /\ ~terminationToken[n]
  /\ terminationLeader' = [terminationLeader EXCEPT ![n] = TRUE]
  /\ Send(n, OwnToken(n))
  /\ awake' = [awake EXCEPT ![n] = FALSE]
  /\ pc' = [pc EXCEPT ![n] = "leader"]
  /\ UNCHANGED <<searchVars, handler, shareVars, tokenVars, commandTerminate, spurious>>

\* The leader wakes and finds commandTerminate.
LeaderCommanded(n) ==
  /\ pc[n] = "leader"
  /\ awake[n]
  /\ commandTerminate[n]
  /\ awake' = [awake EXCEPT ![n] = FALSE]
  /\ pc' = [pc EXCEPT ![n] = "done"]
  /\ UNCHANGED <<searchVars, netVars, shareVars, tokenVars, termVars, spurious>>

\* The leader wakes and reads recievedColor.  A value never assigned may read
\* as either color.
LeaderSees(n, color) ==
  /\ pc[n] = "leader"
  /\ awake[n]
  /\ ~commandTerminate[n]
  /\ recievedColor[n] \in {color, "unset"}
  /\ awake' = [awake EXCEPT ![n] = FALSE]

\* WHITE: the search is taken to have ended; gather the best result.
GatherResult(n) ==
  /\ LeaderSees(n, "WHITE")
  /\ Send(n, [type |-> "RESULT", sourceNode |-> n])
  /\ pc' = [pc EXCEPT ![n] = "gather"]
  /\ UNCHANGED <<searchVars, handler, shareVars, tokenVars, termVars, spurious>>

\* BLACK: another round, unless the leadership has been lost meanwhile.
RetryToken(n) ==
  /\ LeaderSees(n, "BLACK")
  /\ terminationLeader[n]
  /\ Send(n, OwnToken(n))
  /\ UNCHANGED <<pc, searchVars, handler, shareVars, tokenVars, termVars, spurious>>

StepDown(n) ==
  /\ LeaderSees(n, "BLACK")
  /\ ~terminationLeader[n]
  /\ pc' = [pc EXCEPT ![n] = "await"]
  /\ UNCHANGED <<searchVars, netVars, shareVars, tokenVars, termVars, spurious>>

\* The terminal RESULT came round: send TERMINATE.
CommandTermination(n) ==
  /\ pc[n] = "gather"
  /\ awake[n]
  /\ Send(n, [type |-> "TERMINATE", sourceNode |-> n])
  /\ awake' = [awake EXCEPT ![n] = FALSE]
  /\ pc' = [pc EXCEPT ![n] = "await"]
  /\ UNCHANGED <<searchVars, handler, shareVars, tokenVars, termVars, spurious>>

\* while(!commandTerminate) pthread_cond_wait(...); return false.
ReturnFalse(n) ==
  /\ pc[n] = "await"
  /\ commandTerminate[n]
  /\ pc' = [pc EXCEPT ![n] = "done"]
  /\ UNCHANGED <<awake, searchVars, netVars, shareVars, tokenVars, termVars, spurious>>

\* startComputation clears currentSyncModule under Repository::syncMutex, which
\* a handler that has found the module still holds; destroyComputation then
\* deletes the module and whatever requests are queued in it.
Leave(n) ==
  /\ pc[n] = "done"
  /\ handler[n].op # "accept"
  /\ pc' = [pc EXCEPT ![n] = "left"]
  /\ workRequests' = [workRequests EXCEPT ![n] = <<>>]
  /\ UNCHANGED <<awake, searchVars, netVars, isWorkingState, splitSuccesful, workReciewed,
                 tokenVars, termVars, spurious>>

\* One of the three waits that are not inside a loop that tests their condition
\* returns although nobody has signalled it.
SpuriousWakeup(n) ==
  /\ spurious < SpuriousWakeups
  /\ pc[n] \in UnguardedWaits
  /\ ~awake[n]
  /\ awake' = [awake EXCEPT ![n] = TRUE]
  /\ spurious' = spurious + 1
  /\ UNCHANGED <<pc, searchVars, netVars, shareVars, tokenVars, termVars>>

-----------------------------------------------------------------------------
(***************************************************************************)
(* Receive thread: LeftNeighbourImpl::Boomerang at Right[m]                *)
(***************************************************************************)
InComputation(n) == pc[n] \notin {"out", "left"}

hasWorkToSplit(n) == isWorkingState[n] /\ splitSuccesful[n]

\* The send thread of m delivers the head of its queue.
Arrives(m, type) ==
  /\ sendQueue[m] # <<>>
  /\ Head(sendQueue[m]).type = type
  /\ handler[Right[m]].op = "none"
  /\ PromptWakeup => ~awake[Right[m]] /\ pc[Right[m]] # "resume"

\* Every handler of a node in the computation takes syncMutex.
Locks(m, type) ==
  /\ Arrives(m, type)
  /\ InComputation(Right[m])
  /\ pc[Right[m]] # "sync"

originMe(m) == Head(sendQueue[m]).sourceNode = Right[m]

Consume(m) ==
  /\ sendQueue' = [sendQueue EXCEPT ![m] = Tail(@)]
  /\ UNCHANGED handler

\* sendFurther: the message goes on unless it is back at its source.  The
\* handler enqueues it after it has released its locks.
PassOn(m) ==
  /\ sendQueue' = [sendQueue EXCEPT ![m] = Tail(@)]
  /\ handler' = IF originMe(m) THEN handler
                ELSE [handler EXCEPT ![Right[m]] =
                        [op |-> "forward", msg |-> Head(sendQueue[m])]]

\* pthread_cond_signal(&idleCondition): lost unless the main thread waits.
SignalIdle(n) ==
  awake' = [awake EXCEPT ![n] = @ \/ pc[n] \in {"idle", "leader"}]

\* currentSyncModule == NULL.
ReceiveOutside(m) ==
  /\ \E type \in {"WORK_REQUEST", "WORK_ASSIGNMET", "TERMINATION_TOKEN", "RESULT", "TERMINATE"} :
        Arrives(m, type)
  /\ ~InComputation(Right[m])
  /\ PassOn(m)
  /\ UNCHANGED <<mainVars, searchVars, shareVars, tokenVars, termVars, spurious>>

\* WORK_REQUEST, informNoAssignment: the node's own request, refused by all.
ReceiveDenial(m) ==
  /\ Locks(m, "WORK_REQUEST")
  /\ originMe(m)
  /\ workReciewed' = [workReciewed EXCEPT ![Right[m]] = FALSE]
  /\ SignalIdle(Right[m])
  /\ Consume(m)
  /\ UNCHANGED <<pc, searchVars, isWorkingState, splitSuccesful, workRequests,
                 tokenVars, termVars, spurious>>

\* WORK_REQUEST of another node: hasWorkToSplit() decides, under stateMutex
\* only; informRequest() acts in a later critical section of syncMutex, as does
\* pingReset() before the request is forwarded.
ReceiveRequest(m) ==
  /\ Arrives(m, "WORK_REQUEST")
  /\ InComputation(Right[m])
  /\ ~originMe(m)
  /\ hasWorkToSplit(Right[m]) \/ pc[Right[m]] # "sync"
  /\ sendQueue' = [sendQueue EXCEPT ![m] = Tail(@)]
  /\ handler' = [handler EXCEPT ![Right[m]] =
                   [op |-> IF hasWorkToSplit(Right[m]) THEN "accept" ELSE "forward",
                    msg |-> Head(sendQueue[m])]]
  /\ UNCHANGED <<mainVars, searchVars, shareVars, tokenVars, termVars, spurious>>

\* informRequest()
AcceptRequest(n) ==
  /\ handler[n].op = "accept"
  /\ pc[n] # "sync"
  /\ workRequests' = [workRequests EXCEPT ![n] = Append(@, handler[n].msg.sourceNode)]
  /\ handler' = [handler EXCEPT ![n] = [op |-> "none"]]
  /\ UNCHANGED <<mainVars, searchVars, sendQueue, isWorkingState, splitSuccesful, workReciewed,
                 tokenVars, termVars, spurious>>

\* right.Boomerang(myData) at the end of the handler.
Forward(n) ==
  /\ handler[n].op = "forward"
  /\ Send(n, handler[n].msg)
  /\ handler' = [handler EXCEPT ![n] = [op |-> "none"]]
  /\ UNCHANGED <<mainVars, searchVars, shareVars, tokenVars, termVars, spurious>>

\* WORK_ASSIGNMET for this node: informAssignment, Computation::setWork.
ReceiveAssignment(m) ==
  /\ Locks(m, "WORK_ASSIGNMET")
  /\ Head(sendQueue[m]).asignee = Right[m]
  /\ work' = [work EXCEPT ![Right[m]] = Head(sendQueue[m]).unit]
  /\ workReciewed' = [workReciewed EXCEPT ![Right[m]] = TRUE]
  /\ SignalIdle(Right[m])
  /\ PassOn(m)
  /\ UNCHANGED <<pc, explored, isWorkingState, splitSuccesful, workRequests,
                 tokenVars, termVars, spurious>>

\* Mutant: a change of the work caches signals idleCondition.
ReceiveForeignAssignmentAndSignal(m) ==
  /\ Locks(m, "WORK_ASSIGNMET")
  /\ Head(sendQueue[m]).asignee # Right[m]
  /\ SignalIdle(Right[m])
  /\ PassOn(m)
  /\ UNCHANGED <<pc, searchVars, shareVars, tokenVars, termVars, spurious>>

\* WORK_ASSIGNMET for another node: updateWorkCache.
ReceiveForeignAssignment(m) ==
  /\ Locks(m, "WORK_ASSIGNMET")
  /\ Head(sendQueue[m]).asignee # Right[m]
  /\ PassOn(m)
  /\ UNCHANGED <<mainVars, searchVars, shareVars, tokenVars, termVars, spurious>>

\* informMyToken
ReceiveMyToken(m) ==
  /\ Locks(m, "TERMINATION_TOKEN")
  /\ originMe(m)
  /\ terminationToken' = [terminationToken EXCEPT ![Right[m]] = TRUE]
  /\ recievedColor' = [recievedColor EXCEPT ![Right[m]] = Head(sendQueue[m]).slotA]
  /\ SignalIdle(Right[m])
  /\ Consume(m)
  /\ UNCHANGED <<pc, searchVars, shareVars, myColor, tokenOrigin, termVars, spurious>>

\* Mutant: the origin of the token is not saved.
SaveTokenWithoutOrigin(m) ==
  /\ Locks(m, "TERMINATION_TOKEN")
  /\ ~originMe(m)
  /\ terminationToken' = [terminationToken EXCEPT ![Right[m]] = TRUE]
  /\ recievedColor' = [recievedColor EXCEPT ![Right[m]] = Head(sendQueue[m]).slotA]
  /\ UNCHANGED tokenOrigin

\* informForeignToken: the fields it sets on every path.
SaveToken(m) ==
  /\ Locks(m, "TERMINATION_TOKEN")
  /\ ~originMe(m)
  /\ terminationToken' = [terminationToken EXCEPT ![Right[m]] = TRUE]
  /\ recievedColor' = [recievedColor EXCEPT ![Right[m]] = Head(sendQueue[m]).slotA]
  /\ tokenOrigin' = [tokenOrigin EXCEPT ![Right[m]] = Head(sendQueue[m]).sourceNode]

\* Mutant: no leader gives way.
LosesLeadershipNever(me, competitor) == FALSE

\* A leader that sees the token of another: me.compare(competitor) > 0.
LosesLeadership(me, competitor) == me > competitor

KeepsToken(n, token) ==
  \/ isWorkingState[n]
  \/ terminationLeader[n] /\ ~LosesLeadership(n, token.sourceNode)

\* informForeignToken of a working node, or of a leader that beats the token's.
KeepForeignToken(m) ==
  /\ SaveToken(m)
  /\ KeepsToken(Right[m], Head(sendQueue[m]))
  /\ Consume(m)
  /\ UNCHANGED <<mainVars, searchVars, shareVars, myColor, termVars, spurious>>

\* informForeignToken otherwise: sendTerminationToken(); a leader that does so
\* is no longer the leader.
PassForeignToken(m) ==
  LET n == Right[m]
      token == Head(sendQueue[m])
      passed == ForwardedToken(token.sourceNode, token.slotA, myColor[n])
  IN  /\ SaveToken(m)
      /\ ~KeepsToken(n, token)
      /\ terminationLeader' = [terminationLeader EXCEPT ![n] = FALSE]
      /\ sendQueue' = [sendQueue EXCEPT ![m] = Tail(@), ![n] = Append(@, passed)]
      /\ myColor' = [myColor EXCEPT ![n] = "WHITE"]
      /\ UNCHANGED <<mainVars, searchVars, handler, shareVars, commandTerminate, spurious>>

\* A terminal RESULT, informResult: signals terminalCondition.
ReceiveTerminalResult(m) ==
  /\ Locks(m, "RESULT")
  /\ awake' = [awake EXCEPT ![Right[m]] = @ \/ pc[Right[m]] = "gather"]
  /\ PassOn(m)
  /\ UNCHANGED <<pc, searchVars, shareVars, tokenVars, termVars, spurious>>

\* informTerminate
ReceiveTerminate(m) ==
  /\ Locks(m, "TERMINATE")
  /\ commandTerminate' = [commandTerminate EXCEPT ![Right[m]] = TRUE]
  /\ SignalIdle(Right[m])
  /\ PassOn(m)
  /\ UNCHANGED <<pc, searchVars, shareVars, tokenVars, terminationLeader, spurious>>

-----------------------------------------------------------------------------
(***************************************************************************)
(* The specification                                                       *)
(***************************************************************************)
\* Steps of the main thread once its node is in the computation.
MainStep(n) ==
  \/ Explore(n)
  \/ EnterSynchronize(n)
  \/ AssignWork(n)
  \/ DeclineRequest(n)
  \/ LeaveSynchronize(n)
  \/ StopWorking(n)
  \/ RequestWork(n)
  \/ WakeWithWork(n)
  \/ ResumeWorking(n)
  \/ PassSavedToken(n)
  \/ BecomeLeader(n)
  \/ LeaderCommanded(n)
  \/ GatherResult(n)
  \/ RetryToken(n)
  \/ StepDown(n)
  \/ CommandTermination(n)
  \/ ReturnFalse(n)
  \/ Leave(n)

\* Steps of the handler at Right[m], invoked by the send thread of m.
Deliver(m) ==
  \/ ReceiveOutside(m)
  \/ ReceiveDenial(m)
  \/ ReceiveRequest(m)
  \/ ReceiveAssignment(m)
  \/ ReceiveForeignAssignment(m)
  \/ ReceiveMyToken(m)
  \/ KeepForeignToken(m)
  \/ PassForeignToken(m)
  \/ ReceiveTerminalResult(m)
  \/ ReceiveTerminate(m)

FinishHandler(n) == AcceptRequest(n) \/ Forward(n)

Next ==
  \E n \in Node : Start(n) \/ MainStep(n) \/ SpuriousWakeup(n) \/ Deliver(n) \/ FinishHandler(n)

Spec == Init /\ [][Next]_vars

\* Every thread that can run runs: the main thread computes, waits and wakes,
\* the send thread polls its queue for ever, a handler that was called returns.
\* Nothing makes a node join, nor a wait return without a signal.
Fairness ==
  \A n \in Node : WF_vars(MainStep(n)) /\ WF_vars(Deliver(n)) /\ WF_vars(FinishHandler(n))

FairSpec == Spec /\ Fairness

-----------------------------------------------------------------------------
(***************************************************************************)
(* Properties                                                              *)
(***************************************************************************)
\* A message that asks for work for n, or brings it: sendWorkRequest() of n,
\* the refusals that pass it on and the assignment that answers it.
CarriesRequest(msg, n) ==
  /\ msg.sourceNode = n
  /\ \/ msg.type = "WORK_REQUEST"
     \/ msg.type = "WORK_ASSIGNMET" /\ msg.asignee = n

\* The places that hold the request of n or its answer.
RequestPlaces(n) ==
  (UNION {{<<"sendQueue", m, i>> :
            i \in {j \in DOMAIN sendQueue[m] : CarriesRequest(sendQueue[m][j], n)}} : m \in Node})
  \cup {<<"handler", m, 1>> :
            m \in {k \in Node : handler[k].op # "none" /\ CarriesRequest(handler[k].msg, n)}}
  \cup (UNION {{<<"workRequests", m, i>> :
            i \in {j \in DOMAIN workRequests[m] : workRequests[m][j] = n}} : m \in Node})

\* A node never has two requests, two answers or a request and an answer under
\* way: the main thread asks again only when what it asked for was decided, and
\* no relay (hasWorkToSplit/informRequest, synchronize, the forwarding at the
\* end of Boomerang) duplicates a request, also when waits return early.
OneRequest == \A n \in Node : \A p, q \in RequestPlaces(n) : p = q

\* From here isWorkAvailable can only return false.
Ending == {"leader", "gather", "await", "done", "left"}

IsToken(msg) == msg.type = "TERMINATION_TOKEN"

\* The origin of a token, under way or saved, is a node that will not search
\* again, so informMyToken finds a leader (or a node that has left) and never
\* marks a token as seen at a node whose tokenOrigin was not set: what
\* sendTerminationToken sends has an origin it can come back to.
TokenOrigins ==
  /\ \A m \in Node : \A i \in DOMAIN sendQueue[m] :
        IsToken(sendQueue[m][i]) => pc[sendQueue[m][i].sourceNode] \in Ending
  /\ \A m \in Node :
        handler[m].op # "none" /\ IsToken(handler[m].msg)
          => pc[handler[m].msg.sourceNode] \in Ending
  /\ \A n \in Node :
        /\ tokenOrigin[n] # NoNode => pc[tokenOrigin[n]] \in Ending
        /\ terminationToken[n] => tokenOrigin[n] # NoNode \/ pc[n] \in Ending

\* Where the main thread does not use the stacks of its Computation.
Blocked == {"idle", "leader", "gather", "await", "done"}

\* Computation.h:80-82, setWork: "SHOULD ONLY BE CALLED WHEN MAIN THREAD IS
\* BLOCKED AFTER FINISHING PREVIOUS WORK!".  informAssignment never rewrites
\* the stacks of a node that searches, is about to, or splits them.
SetWorkOnlyWhenBlocked ==
  [][\A m \in Node : ReceiveAssignment(m) => pc[Right[m]] \in Blocked]_vars

IsAssignment(msg) == msg.type = "WORK_ASSIGNMET" /\ msg.asignee = msg.sourceNode

\* Who answers for branch u: the stacks that hold it, the assignments under way
\* that carry it, or the past in which it was explored.
Holders(u) ==
  {<<"stack", n, 1>> : n \in {k \in Node : u \in work[k]}}
  \cup (UNION {{<<"sendQueue", m, i>> :
            i \in {j \in DOMAIN sendQueue[m] :
                     IsAssignment(sendQueue[m][j]) /\ u \in sendQueue[m][j].unit}} : m \in Node})
  \cup {<<"handler", m, 1>> :
            m \in {k \in Node : /\ handler[k].op = "forward"
                                /\ IsAssignment(handler[k].msg)
                                /\ u \in handler[k].msg.unit}}
  \cup {<<"explored", n, 1>> : n \in {k \in {Initiator} : u \in explored}}

\* The protocol neither loses nor duplicates a branch that a cut gives away:
\* between a split and the setWork that ends it every branch has one holder,
\* until a node leaves (the assignments of a node that has left are dropped).
UnitsAccounted ==
  \A u \in Units :
    /\ \A p, q \in Holders(u) : p = q
    /\ (\A n \in Node : pc[n] # "left") => Holders(u) # {}

\* Unless waits return early, a node ends only when it has been refused by all, or
\* told to: before commandTerminate a node on its way out has no branch, and no
\* request or answer of its own is under way that would bring it one.  So it takes
\* a TERMINATE that comes too early to make the ring drop a branch.
EndsEmptyHanded ==
  UnguardedWaits = {} =>
    \A n \in Node :
      pc[n] \in Ending /\ ~commandTerminate[n] => work[n] = {} /\ RequestPlaces(n) = {}

\* Synchronization.h:98, isWorkAvailable: "Blocks until new work arrives or
\* computation terminates."  No leader takes the search to be over, and no
\* isWorkAvailable returns false, while a branch is unexplored.  The code does not
\* keep this, see MCPremature.
OverWhenDeclaredOver ==
  \A n \in Node : pc[n] \in {"gather", "done", "left"} => explored = Units

\* The whole search space is searched and every node that takes part from the
\* beginning leaves: no two leaders, no token and no command are lost or kept.
EndsForAll == <>(explored = Units) /\ <>[](\A n \in Node : pc[n] = "left")

-----------------------------------------------------------------------------
(***************************************************************************)
(* Work sharing implements SharedSearch                                    *)
(***************************************************************************)
\* The messages that bring work to n, wherever they are.
AssignmentsOf(n) ==
  {msg \in (UNION {{sendQueue[m][i] : i \in DOMAIN sendQueue[m]} : m \in Node})
             \cup {handler[m].msg : m \in {k \in Node : handler[k].op = "forward"}} :
     IsAssignment(msg) /\ msg.asignee = n}

Search == INSTANCE SharedSearch WITH
  stacks   <- work,
  assigned <- [n \in Node |-> UNION {msg.unit : msg \in AssignmentsOf(n)}],
  gone     <- {n \in Node : pc[n] = "left"}

\* Requests, refusals, relays, tokens and waits, in whatever order they come,
\* do no more to the work than SharedSearch allows: it is split, handed over to
\* one node at a time, received on empty stacks, explored, and dropped only for
\* nodes that have left.
ImplementsSharedSearch == Search!Spec

=============================================================================
