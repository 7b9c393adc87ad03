# A verification of disco-plat

disco-plat (`src/README`) runs a parallel branch-and-bound search on a ring of
processes that talk CORBA. This directory models its protocols and its search in
TLA+, checks them with TLC on small instances, and proves theorems about them
with TLAPS. File and line numbers refer to `src/src/` unless a path is given.

## 1. The system

A node is one process (`main.cpp`). It has a **main thread** that searches, a
**send thread** that pops `Network::sendQueue` and calls a neighbour, and
**CORBA threads** that run the operations of `Interface.idl` which other nodes
call. Almost everything travels as a *boomerang*: a `struct blob` sent to the
right, passed on by every node, and stopped when it is back at its source.

```
 main thread                 send thread                  CORBA thread of the right node
 Computation::DFS            Network::sendThreadMain      LeftNeighbourImpl::Boomerang
   synchronize()  ──────►    sendQueue (FIFO)  ─────────► Repository::informSearchID ...
   isWorkAvailable() ◄─┐     one call at a time           Synchronization::inform...
                       │     reportDead...Node             │  sendFurther: enqueue again
                       └── idleCondition, terminalCondition ◄┘
```

When a call fails, the send thread reports to the left (`NodeDied`); the report
travels left to the other neighbour of the dead node, which closes the ring
(`RebuildNetwork`) and sends `NETWORK_REBUILT` round.

### Components

| Component | State | Operations | Interacts through | What is hard |
|---|---|---|---|---|
| **Work sharing and termination detection** (`Synchronization.{h,cpp}`, `NeighbourImpl.cpp`) | `workRequests`, `workReciewed`, `isWorkingState`, `splitSuccesful`, `myColor`, `recievedColor`, `terminationToken`, `tokenOrigin`, `terminationLeader`, `commandTerminate` | `synchronize`, `isWorkAvailable`, `sendWorkRequest`, `sendTerminationToken`, `hasWorkToSplit`, `informRequest`, `informAssignment`, `informNoAssignment`, `informMyToken`, `informForeignToken`, `informTerminate` | `WORK_REQUEST`, `WORK_ASSIGNMET`, `TERMINATION_TOKEN`, `TERMINATE`; `syncMutex`, `stateMutex`, two conditions | a handler between two critical sections of the main thread; several leaders; waits that are not in a loop; fields overwritten by later messages |
| **Work recovery** (`Synchronization.cpp`) | `workAssignments`, `zombieWork`, `workRequestPending`, `isZombifyingState`, `pingCounter` | `updateWorkCache`, `zombify`, `killZombie`, `informNetworkRebuild`, `informZombifyFinish`, the zombie part of `sendWorkRequest` and `isWorkAvailable` | `NETWORK_REBUILT`, `ZOMBIFY`, `WORK_ASSIGNMET` with a zombie, `PING` | work that is lost between two copies of it; a request answered by, or for, a node that is dead |
| **Result sharing** (`Synchronization.cpp`, `Computation.cpp`) | `circleSolutionOpt`, `circleConfiguration`, `haveNewCirlceSolution`, `haveMySolution`, `optimum`, `optimalConfig`, `newSolutionFound` | `newSolution`, the first half of `synchronize`, `informResult`, `setSolution`, the last part of `isWorkAvailable` | `RESULT`, `TERMINATE` | announcements that cross; a cost and a configuration written at different times |
| **Search stacks and work splitting** (`Computation.{h,cpp}`) | `configStack`, `intervalStack`, `stackTop`, `optimum`, `workSplitPossible`, `loopsToSync` | `DFS`, `splitWork`, `setWork`, `setSolution`, `newSolution`, `reinitialize` | called by the main thread and by `informAssignment` | integer cut of an interval; stale bounds; rewriting the stacks of another thread |
| **Knapsack** (`Knapsack.{h,cpp}`) | `costCache`, `weightCache`, `maxPossibleCost` | `evaluate`, `expand`, `dataChanged` | `Computation` | pruning at equality, the index of the next item |
| **Ring rebuilding after failures** (`Network.{h,cpp}`, `NeighbourImpl.cpp`, `QueueItems.cpp`, `Repository.cpp`) | `networkBroken`, `reportNodeID`, `liveNodes`, `liveCompIDs`, the neighbours | `sendThreadMain`, `reportDeadRightNode`, `reportDeadLeftNode`, `NodeDied`, `RebuildNetwork`, `repairNetwork`, `AbortingBoomerang`, `setLiveNodes`, `setSurvivingComputations` | `NETWORK_REBUILT`, failed calls | two failures; a report and its reply; messages of dead nodes |
| **Ring construction and joining** (`Network.cpp`, `NeighbourImpl.cpp`, `Repository.cpp`) | neighbours, `liveNodes`, `liveNodesConsistent`, `isInitSleeping` | `Network::start`, `ConnectAsLeftNode`, `BuildNetAndRequestData`, `sendAllData`, `broadcastMyID`, `init`, `awakeInit` | `NODE_ANNOUNCEMENT`, `INSTANCE_ANNOUNCEMENT` with `INIT_RESUME` | several nodes that join at once; an answer before the wait for it |
| **Search for a free computation ID** (`Repository.cpp`) | `maxID`, `isFreeIDSleeping`, `idSearchColision`, `idSearchColisionQueue` | `getFreeID`, `informSearchID`, `awakeFreeID` | `FREE_ID_SEARCH` | two searches at once |
| **Boomerang dispatch** (`NeighbourImpl.cpp`) | none | `Boomerang` | all of the above | which lock is held when; what is passed on |
| **Send queue and threads** (`Network.cpp`, `QueueItems.h`) | `sendQueue`, `sendThreadRunning` | `enqueItem`, `sendThreadMain` | CORBA | a failed call repeated while the ring changes |
| **Computation lifecycle** (`Repository.cpp`, `main.cpp`) | `currentComputation`, `currentSyncModule`, `currentID`, `data`, `algoCompCache` | `newData`, `getAnyValidID`, `startComputation`, `destroyComputation` | `INSTANCE_ANNOUNCEMENT` | a module deleted while handlers hold requests for it |
| **Logical clock** (`Repository.h`) | `lamportTime` | `getTime`, `timeIncrement`, `timeColision` | every message; `updateWorkCache` is its one reader | dates of copies made at different nodes are compared |
| Command line, output, factories | — | option parsing, logging, registries | — | nothing the protocols depend on |
| `demo/` | — | exercises of the CORBA library | — | not part of the program |

### What makes each component correct

* *Work sharing.* A node has one request under way; work is set on a node only
  while its main thread is blocked; no branch of the search space is lost or
  given to two nodes by a cut; the search is declared over only when it is; every node
  then leaves. Seen from outside, it is a search that several nodes share
  (`SharedSearch`).
* *Work recovery.* What a dead node had, or what was on its way to it, is on the
  stacks of a living node, under way to one, or in a copy that will be claimed;
  a node whose answer was lost does not wait for ever.
* *Result sharing.* Once nothing is under way all nodes hold the same best cost;
  no node prunes with less than what it has; a cost and its configuration belong
  together; the computation ends with the best solution found.
* *Search.* Every branch is explored or pruned with cause; a split loses nothing
  and leaves something to both sides; the optimum of the instance is found;
  the search ends.
* *Ring.* One ring, whoever joins and whoever dies; all nodes agree who is alive,
  nobody alive is taken for dead, messages of the dead stop, those of the living
  arrive.
* *IDs.* Instances get identifiers of their own, and a node that joins gets to
  compute something.

`PROJECT.json` lists under `hazards` the places in the code where these can go
wrong, each with the properties that would notice.

## 2. The modules

| Module | Models | Theorems in |
|---|---|---|
| `SharedSearch` | what work sharing promises: an abstract specification | `SharedSearchProofs` |
| `WorkSharing` | work sharing and termination detection, three threads a node; implements `SharedSearch` | `WorkSharingProofs` (types, requests), `WorkSharingUnitsProofs` (branches, refinement) |
| `ResultSharing` | result sharing and the end of the computation | `ResultSharingProofs` |
| `SearchStack` | the search, Knapsack, `splitWork` and `setWork` | `SearchStackProofs` |
| `RingRebuild` | send thread, reports, repair of the ring | `RingRebuildProofs` |
| `WorkRecovery` | caches, zombies and claims, with crashes | `WorkRecoveryProofs` |
| `Membership` | joining, announcements, free IDs, `main` up to the first computation | `MembershipProofs` |
| `MC…` | instances of each for TLC | |
| `MCPremature` | a course through `WorkSharing` on four nodes | |

The modules divide the program along its data, and each takes from its
neighbours what those show:

* `WorkSharing` takes the search space to be a set of branches; `SearchStack`
  shows what a branch is and that a split divides them: its `SplitsDivide`, which
  is proved, is what allows `Splits` in `WorkSharing` to be a
  division into two non-empty sets. The branches there are those of the levels
  that are cut. Above the cut `splitWork` copies the levels, each with one branch
  at most, so that both nodes go through them: work that is repeated, which
  `WorkSharing` leaves out. `WorkRecovery` has it, as it gives two nodes different
  copies of the same branches, and so do the levels below the cut, which only the
  node that splits keeps and which its announcement leaves out.
* `ResultSharing` lets nodes stop and resume searching as `WorkSharing` allows,
  and keeps only the last round of the token.
* `WorkRecovery` composes work sharing with the failure of nodes. From
  `RingRebuild` it takes that the repair closes the ring and tells everybody
  (`ClosesAgain`), as the three steps `CloseRing`, `SetSurvivors` and
  `AnnounceRebuilt`. Its handlers are coarser than those of `WorkSharing`.
* `Membership` is the time before the others: it ends where `WorkSharing`,
  `ResultSharing` and `RingRebuild` begin, with a ring (`RingWhole`) all nodes of
  which know all others (`NobodyTakenForDead`, `QuietNodesAgree`) and all
  instances (`QuietInstancesAgree`).

In all of them `sendQueue[n]` is the FIFO channel from `n` to its neighbour: the
send thread makes one blocking call at a time. Variables and operators have the
names of the source wherever there is one.

### SharedSearch and WorkSharing

`SharedSearch` has no messages, threads or termination. A branch is on the
stacks of one node, assigned to one, or explored; `HandOver` splits, `Receive`
fills empty stacks, `Leave` and `Lose` are the end. `WorkSharing` implements it
with `stacks ← work`, `assigned ←` the units of all assignments in a queue or
with a handler, and `gone ←` the nodes that have left
(`ImplementsSharedSearch`).

In `WorkSharing`, `pc[n]` is the main thread's place (`start`, `dfs`, `sync`,
then the parts of `isWorkAvailable`: `request`, `idle`, `resume`, `leader`,
`gather`, `await`, `done`; `out` before and `left` after the computation).
`awake[n]` says that the condition it waits on has been signalled. `handler[n]`
is the Boomerang handler between two of its critical sections (`accept`:
`hasWorkToSplit` has answered yes and `informRequest` is still to come;
`forward`: the message is still to be enqueued). A critical section of
`syncMutex` is one action; `synchronize` serves the requests one action each,
with `pc = "sync"` standing for the mutex held.

| Actions | Code |
|---|---|
| `Start`, `Leave` | `Repository::startComputation` publishing the module, its end and `destroyComputation` |
| `Explore`, `EnterSynchronize`, `AssignWork`, `DeclineRequest`, `LeaveSynchronize` | `Computation::DFS`, the request loop of `synchronize` |
| `StopWorking` … `ReturnFalse` | `isWorkAvailable`, one action from wait to wait |
| `SpuriousWakeup` | `pthread_cond_wait` returning without a signal at the three waits that do not loop (lines 300, 341, 374) |
| `Receive…`, `KeepForeignToken`, `PassForeignToken` | `Boomerang` up to the release of its locks |
| `AcceptRequest`, `Forward` | `informRequest`, and the enqueue at the end of `Boomerang` |

`recievedColor` is never initialised in the source; it starts `"unset"` and then
reads as either colour.

### ResultSharing

A configuration is abstracted to its true cost, so "optimum and configuration
belong together" is an equation. `phase[n]` is the main thread, with the phases
of a joining node (`join`, `hack` after the comment at `Computation.cpp:60`).
`Accepts`, `Sends` and `MineIsBetter` are the conditions of `synchronize`;
`Learns` and `Passed` those of `informResult`. `finds`, the count of solutions
found, is a bound.

### SearchStack

Level `k` of the two stacks is one record: configuration and interval of items.
`Expand` is `evaluate` and `expand` for the next item that fits and can still
reach the optimum, with the nudge of `Knapsack.cpp:92`; `Backtrack` the pop;
`SplitWork(n, m)` cuts the shallowest level that has two branches and sets the
sent part on an idle `m`. `Synchronize` is the part of `synchronize` that deals with
solutions: the ring's solution is any that some node has announced (`announced`), it is
compared with what the node announced or accepted last (`mySolutionOpt`) unless
`newSolutionFound` is set, and then replaces the optimum without a further test
(`AcceptCircle`; `Computation.cpp:221-230`), or the node announces its own (`SendMine`).
As `setWork` clears `newSolutionFound` (`Computation.cpp:216`), a node may take a worse
solution than its own. `bestFound`, the best cost ever found, is history. The
items of an instance do not all fit, because `dataChanged` writes
`costCache[stackTop]`, an array of `instanceSize` entries, at depth
`instanceSize` otherwise; this is the assumption `CapacityAssumption`.

### RingRebuild

A remote call is two steps: the handler runs at the target (`Call…`), and the
caller gets the reply (`Replied`, `MarkBroken`, `AnnounceRebuilt`), or
`COMM_FAILURE` if the target is dead by then. `sender[n]` says where the send
thread is between them. A process crashes at any moment, also between the two
steps of its own or of another's call, and its queue goes with it.

| Actions | Code |
|---|---|
| `Pop`, `CallPing`, `CallResult`, `CallNetworkRebuilt`, `Replied` | `sendThreadMain`, `QueueItems`, `Boomerang` with `isAlive`, `sendFurther`, `setLiveNodes`, `setSurvivingComputations` |
| `ReportDeadRightNode`, `MarkBroken`, `BecomeAlone` | `reportDeadRightNode` |
| `CallNodeDied` | `NodeDied`, `setDataForRebuilding`, `NeighbourDied` |
| `CloseRing`, `AnnounceRebuilt` | `reportDeadLeftNode` and `RebuildNetwork` at the reporter |
| `Abort` | `sendBoomerangAndAbort`, `AbortingBoomerang` |
| `Ping`, `Announce` | what a searching node sends; `RESULT` stands for every message that goes round |

### WorkRecovery

A node keeps copies of units by the name of their assignee (`workAssignments`)
until a node is known dead, or has to start over, and they become zombies
(`zombieWork`). A copy is dated with the Lamport time at which its node made it
(lines 181, 446), and the dates decide only which of two copies under one name goes on
with a claim (line 457). Dates of two nodes are not comparable, and a claim keeps
its date when it changes its unit, so `StrikeZombie` may keep either copy; `issue`, the number
of the assignment among those under the name, is history that tells which copy it should
have been. A handler is one action; so is `isWorkAvailable` up to
its wait (`RunDry`). The termination protocol is one place, `over`.

The branches are numbers in the order in which `DFS` takes them (`Explore`), and a stack
is the set of those that are left on it: the deeper a level, the earlier its branches. A
split cuts one level (`Splits`): its upper part and all shallower levels go to the other
node (`Given`); its lower part, the shallower levels again and the deeper ones stay
(`Kept`); the announcement of what is kept leaves the deeper ones out (`Announced`).

`Lapse` names the five ways in which the code itself loses work; `lapses` remembers those
that have occurred, and `unannounced` what announcements have left out.

### Membership

`pc[n]` follows `main()`: `connected` (inside `Network::start`, holding
`bindMutex`), `started`, `init` (waits in `init()`), `ready`, the parts of
`getFreeID` (`searching` between the send and the wait, `asleep`, `woken`,
`named`), `running`. `Connect` is `ConnectAsLeftNode` at the node that was asked,
`BuildNetAndRequestData` the call to its old left neighbour with `sendAllData`.
Identifiers are machine integers (`% IDs`), and the `maxID` of a node that was not
the first starts with any value of `Garbage`, as the source never initialises it.

## 3. What is checked

| Run | Instance | Shows |
|---|---|---|
| `sharing` | 3 nodes, one joins late, 2 branches (386,695 states) | type; `TokenOrigins`; `OneRequest`; `UnitsAccounted`; `SetWorkOnlyWhenBlocked`; `ImplementsSharedSearch`, with every schedule of threads |
| `stepdown` | 3 nodes, one early return of a leader | `UnitsAccounted` when leaders wake early; reaches the branch in which a leader has lost its leadership |
| `termination` | 3 nodes, `PromptWakeup` (194,210 states) | `EndsEmptyHanded`; `EndsForAll`: everything is explored and all leave |
| `premature` | 4 nodes, `PromptWakeup`, the course of `MCPremature` | **fails** `OverWhenDeclaredOver`: a token is sent twice, and the search is declared over while a branch is left |
| `results_ring` | 3 nodes, 2 solutions | `RingAgrees`, `BoundKept`, `SolutionMatches` |
| `results_joining` | 2 nodes, one late | type; `RingAgrees` with a joining node; `CircleNeverWorse` |
| `search` | 54 instances of 3 items with small numbers, one of 5 items, 2 nodes | type; `Covered`, `SplitsDivide`, `SolvesKnapsack` with splits at several levels, and with worse solutions that replace better ones; `SearchEnds` (235,728 states) |
| `rebuild` | 4 nodes, nodes 1 and 2 may crash (157,921 states) | type; `BrokenAwaitsRepair`, `NoneForgotten`, `OwnComputationKept`; `ClosesAgain`, `ResultsReturn`, `DeadFallSilent` |
| `recovery` | 3 nodes, 3 branches, one crash of any node (2,338,726 states) | type; `WorkRecoverable`, `ZombifyReturns`, `NobodyForgotten`, up to the first lapse |
| `abandoned` | the same, beyond the first lapse | **fails**: the survivors end with work left |
| `joining` | 4 nodes, two bring an instance (317,420 states) | type; `RingWhole`, `NobodyTakenForDead`, `InstancesApart`, `QuietNodesAgree`, `QuietInstancesAgree`; `AllGetToWork` |
| `rivals` | 3 nodes, searches for an ID overlap | **fails**: two instances get one ID |

Each failing run checks one property that a comment or the README of the source
states; the quotes and the course of events are under `findings`. Each pairs with
a run that passes under a named proviso: the computation ends, everywhere and
with everything explored, *provided* there are three nodes at most, a signalled
main thread gets to run before the next message is handled, waits do not return
early and nodes take part from the beginning (what holds of larger rings is
`EndsEmptyHanded`, which is proved); work is recoverable *up to* a lapse; identifiers are distinct *provided* searches do
not overlap. Deadlock is not checked as such where systems stop by design
(every node leaves, the stacks are empty, the ring is quiet); `EndsForAll`,
`SearchEnds`, `NobodyForgotten` and `AllGetToWork` say that they stop in the right
place.

### What the provisos keep out

The constants that restrict behaviour are there because the code fails without
them. Setting them otherwise is the quickest way to see how:

* `WorkSharing`. `OverWhenDeclaredOver` holds on three nodes with two or four
  branches under `PromptWakeup` (TLC has been through both), but not on four: this
  is `premature`. `informForeignToken` keeps a token also when it passes it on at
  once, and `isWorkAvailable` (line 319) sends what is kept a second time when the
  node's own request is denied later, with the colour the token had on arrival
  while the node's own has become white; the black copy makes the leader try again, the
  white one comes in for the new token. A premature `TERMINATE` may also make the ring
  drop an assignment, so `EndsForAll` is claimed for three nodes only. Without
  `PromptWakeup` two nodes are enough: a woken main thread has released
  `syncMutex` (line 304) and not yet raised `isWorkingState` (line 307) when the token
  arrives, and is taken for idle. With `UnguardedWaits` non-empty
  `OverWhenDeclaredOver` fails even with `PromptWakeup`, and so would
  `EndsEmptyHanded` without its premise: an early return at line 300 or 341 of
  `Synchronization.cpp` is taken for an answer. With a late node `EndsForAll`
  fails: `TERMINATE` that arrives before the wait for it is not remembered
  (line 341).
* `ResultSharing`. With a late node among three, the joining one may stay without
  the ring's solution (`Synchronization.cpp:109` against `Computation.cpp:60`);
  with a late node `SolutionMatches` fails, as the configuration comes from
  another solution than the cost (line 148); and the computation may end with
  less than the best solution found, as `setWork` clears `newSolutionFound`
  (`Computation.cpp:216`) and line 386 takes what the terminator announces.
* `SearchStack`. `Covered` and `SolvesKnapsack` speak of the best solution *found*
  (`bestFound`). They fail of the best one that a node still *has*: a node finds a solution and
  runs dry before it has announced it, `setWork` clears `newSolutionFound`
  (`Computation.cpp:216`), and a worse one that the ring announces, but better than what the node
  announced before, replaces it (`Synchronization.cpp:105-119`). Such behaviours are among those
  of `search`, some of which end with less than the optimum on all nodes. The "different item next time" of `Knapsack.cpp:91`
  may be the same item; `search` shows that this only repeats work.
* `RingRebuild`. `PromptReply = FALSE` lets the ring be closed before the reporter
  has set `networkBroken` (`Network.cpp:421` against `Network.h:73`): the reset is
  overwritten and `BrokenAwaitsRepair` fails. Two crashes at once of nodes that
  are not neighbours (`Mortal = {2, 4}`, `Pinging = {1, 3}`) violate
  `NoneForgotten`: each reporter and its left neighbour, which the other report
  has not reached, gather a part of the ring. If the left neighbour dies after it
  has accepted `NodeDied`, the reporter stays broken; `README:78` excludes both
  (`overlapping`). With node 1 or 4 missing from `Pinging`, a failure next to an
  idle ring is never noticed and `ClosesAgain` fails: only searching nodes ping.
  A node that becomes alone is not told (`informNetworkRebuild` is called for
  `NETWORK_REBUILT` only).
* `WorkRecovery`. The five lapses are: a request of a dead node that is already
  in `workRequests` is served (line 155); the announcement of kept work comes
  back to the node itself, because the neighbour at which it should end is dead
  (`NeighbourImpl.cpp:226`, line 188); the main thread woken by
  `informZombifyFinish` takes the end of `ZOMBIFY` for a denial (lines 694–704); a claim
  goes on with the older of two copies and strikes the newer (lines 457, 482); a node dies
  before it has explored, or has handed on, what its announcement has left out, the levels below the cut
  (`Computation.cpp:167-178` against the comment at line 186: "Announce the work I'm
  keeping"). For the
  fourth, take a ring n, g, x, y, in which y has cached n's announcement of kept work at time
  100; n runs dry, g gives it another unit at time 50, and the answer is lost with x. When y
  claims the copy it has, g does not improve the claim, as 100 < 50 is false, and erases
  the unit. On rings of three nodes the request of n passes y on its way to g, so
  g's clock is ahead of y's date.
  All five occur in `recovery`. The initiator does not die there before its first announcement
  has reached its neighbour: nobody has a copy of the work it began with. With `Crashes = 2` on four nodes two more properties
  fail, although the second node dies only after the first repair is over.
  `NobodyForgotten`: a node that claims a zombie does not set `workRequestPending`
  (lines 763–797), so when the node that has its claim dies, `NETWORK_REBUILT` does not
  make it start over (line 819), and it waits for ever. `ZombifyReturns`: a `ZOMBIFY`
  is in the queue of the node that dies; a new one is sent only when the next
  `NETWORK_REBUILT` arrives.
* `Membership`. `Calm = FALSE` lets nodes join next to nodes that are not through
  `init()`, or before there is an instance: some are never told to resume
  (`INIT_RESUME` travels with the last instance), and `NobodyTakenForDead`,
  `QuietNodesAgree` and `QuietInstancesAgree` fail. `Rivals = TRUE` is the run `rivals`. `Prompt = FALSE`
  lets the answer to a search come before the wait for it (`Repository.cpp:93`),
  which is then for ever, and breaks `InstancesApart`. `RingWhole` needs none of
  the three. A `Garbage` value near the top of the range gives the ID 0, which is
  `INVALID_COMPUTATION_ID`.

### Bounds, and why they are enough

* *Nodes.* Two nodes show every race of one node with its neighbour; three are
  needed for a message to be passed on by a node that is neither source nor
  target, and for two leaders with a third node between them. Both orders of
  identifiers around a ring of three are used. With `PromptWakeup` a black token
  decides something only from four nodes on, whose reachable states are out of
  TLC's reach: `termination` therefore says nothing about the colours. `premature`
  has four nodes and four branches and lets the main threads follow a course,
  while messages and handlers come in every order between; it can refute
  `OverWhenDeclaredOver` but not establish anything. `EndsEmptyHanded` is proved
  for every ring.
* *Crashes.* `rebuild` has four nodes and two deaths, so that a report passes
  through a node that is neither reporter nor closer, that the second death is
  of a neighbour of the first or of a reporter or closer of it, and that the
  last two survivors still form a ring; one node takes part in another
  computation, which `OwnComputationKept` is about. `recovery` has one death:
  three nodes leave two, the least number with a ring. One node pings when
  nothing else is queued, so the ring is never flooded.
* *Branches.* In `WorkSharing` two branches are one split, three are a split of a split,
  and branches are symmetric; the runs with liveness do
  not use the symmetry. In `WorkRecovery` they are ordered, and three are the least with which
  a level is cut that has others below it or above it: a node can be left with, and can
  die with, what its announcement does not say, and as the levels above the cut are on
  both stacks, copies under one name differ: claims are improved by a newer copy and older
  copies win. With `Units = {1, 2, 3, 4}` a node can pass part of what it was given on twice.
  TLC has been through that too, longer than a run should take, and found no
  error: 35,682,588 states when node 2 may die, 34,695,800 when node 3 may.
* *StopAtLapse.* `recovery` does not follow a behaviour beyond its first lapse:
  `WorkRecoverable` says nothing there. `abandoned` does.
* *SpuriousWakeups* counts early returns. `stepdown` allows one, of a leader: it
  is what reaches the branch in which a leader has lost its leadership. For
  every number of them, at all three waits, the safety of requests, `setWork`
  and branches is proved (section 4).
* *Joining.* Four nodes join in every order and place; with three that join the
  first, one joins a ring of three, at each of its links. `IDs = 8` and
  `Garbage = {0, 2}` put an uninitialised `maxID` below and above the true one.
* *Solutions.* Two solutions of different costs are one that overtakes or
  replaces another.
* *Items.* With three items every small instance is tried; five items give
  levels deep enough to be below the limit at which `splitWork` looks.

### Fairness

The main thread computes, waits and wakes; the send thread polls its queue for
ever; a handler that was called returns. `WorkSharing` has weak fairness for each
node on its main thread's steps, on delivery from its queue, and on the rest of
its handler. `RingRebuild` has it on the send thread and on pings, which
`synchronize` sends sooner or later (`PING_COUNTER_MAX`). `Membership` only
assumes that some thread that can go on does, which is weaker. `SearchStack`
assumes it of the search. Nothing makes a node join, crash, or a wait return
early. No strong fairness is assumed; `WorkRecovery` is checked for safety only.

`PromptWakeup` and `Prompt` are not fairness but restrictions of schedules: a
thread signalled by `pthread_cond_signal`, or about to wait, is assumed to run
before a further message, which takes a network call, is handled. The code does
not enforce it; they are constants so that what depends on them is visible.

## 4. What is proved

All theorems hold for every value of the constants: any number of nodes, any
set of branches, any set of late nodes, with or without `PromptWakeup`, with any
number of early returns at any of the three waits. They assume what the modules
assume of their constants and, but for the conditions the table names, nothing else: `NodeAssumption`, `RingAssumption`
(one ring, of two nodes at least) and `SchedulingAssumption` for `WorkSharing`;
`RingAssumption` and `SolutionAssumption` for `ResultSharing`; `RingAssumption`
and `RebuildAssumption` for `RingRebuild`; `RingAssumption` and `RecoveryAssumption` for `WorkRecovery`; `InstanceAssumption` for `SearchStack`, and for its `TypeOK` `CapacityAssumption`; `MembershipAssumption`; and `Initiator ∈ Node` for `SharedSearch`.

| Theorem | Module | States |
|---|---|---|
| `TypeCorrect`, `TokenOriginsAlways` | `WorkSharingProofs` | `TypeOK`, `TokenOrigins` |
| `OneRequestAlways` | `WorkSharingProofs` | `OneRequest` |
| `SetWorkContract` | `WorkSharingProofs` | `SetWorkOnlyWhenBlocked` |
| `UnitsAccountedAlways` | `WorkSharingUnitsProofs` | `UnitsAccounted` |
| `EndsEmptyHandedAlways` | `WorkSharingUnitsProofs` | `EndsEmptyHanded` |
| `Refinement` | `WorkSharingUnitsProofs` | `ImplementsSharedSearch` |
| `SearchKeepsAll` | `SharedSearchProofs` | `NothingLost` and `OnePlace` of `SharedSearch` |
| `TypeCorrect` | `ResultSharingProofs` | `TypeOK` |
| `BoundAlwaysKept` | `ResultSharingProofs` | `BoundKept` |
| `CircleKept` | `ResultSharingProofs` | `CircleNeverWorse` |
| `RingAgreesAlways` | `ResultSharingProofs` | `RingAgrees`, if `Late = {}` |
| `SolutionMatchesAlways` | `ResultSharingProofs` | `SolutionMatches`, if `Late = {}` |
| `SplitsAlwaysDivide` | `SearchStackProofs` | `SplitsDivide` |
| `TypeCorrect` | `SearchStackProofs` | `TypeOK`: no stack outgrows its arrays |
| `CoveredAlways` | `SearchStackProofs` | `Covered` |
| `SolvesKnapsackAlways` | `SearchStackProofs` | `SolvesKnapsack` |
| `TypeCorrect` | `RingRebuildProofs` | `TypeOK` |
| `StoppedAwaitsRepair` | `RingRebuildProofs` | `BrokenAwaitsRepair`, if `PromptReply` and `OneAtATime` |
| `NobodyForgotten` | `RingRebuildProofs` | `NoneForgotten`, on the same conditions |
| `ComputationsKept` | `RingRebuildProofs` | `OwnComputationKept`, on the same conditions |
| `RingHoldsTogether` | `RingRebuildProofs` | the survivors' links match, they form one ring with one gap at most, and nobody aborts; on the same conditions |
| `TypeCorrect` | `WorkRecoveryProofs` | `TypeOK` |
| `ZombifyReturnsAlways` | `WorkRecoveryProofs` | `ZombifyReturns`, if `Crashes ≤ 1` |
| `NobodyForgottenAlways` | `WorkRecoveryProofs` | `NobodyForgotten`, if `Crashes ≤ 1` |
| `RingWholeAlways` | `MembershipProofs` | `RingWhole` |
| `TypeCorrect` | `MembershipProofs` | `TypeOK` |
| `NobodyTakenForDeadAlways` | `MembershipProofs` | `NobodyTakenForDead`, if `Calm` |
| `QuietNodesAgreeAlways` | `MembershipProofs` | `QuietNodesAgree`, if `Calm` |
| `InstancesApartAlways` | `MembershipProofs` | `InstancesApart`, if `~Rivals`, `Prompt` and `EnoughIDs` |
| `QuietInstancesAgreeAlways` | `MembershipProofs` | `QuietInstancesAgree`, if also `Calm` |

**`TypeOK` and `TokenOrigins`.** `TypeOK` is not inductive: `sendTerminationToken`
sends a token with `tokenOrigin` as its source, which is an empty `nodeID` until a
token has been seen. So the two are proved together. `TokenOrigins` is kept
because tokens are made by leaders only, a leader never searches again (the
states `Ending` are never left), and `informMyToken`, which marks a token as seen
without setting `tokenOrigin`, finds such a node.

**`OneRequest` and `SetWorkOnlyWhenBlocked`.** Requests are followed from place to
place. A place is a position of a queue, of `workRequests`, or a handler. Each
step is shown to leave every request where it is (`Stays`), to take the first of
a channel away (`Pops`), or to move it to the end of another (`Transfers`); each of
these keeps places unique. The exception is `RequestWork`, which adds a place: it
needs that the asking node has none. Hence the invariant `RequestInv`:

* `OnePlace`, which is `OneRequest` by components;
* `HolderWaits`: a node with a request under way is in one of the waits or has
  left, and if it waits for an answer, it has not been told of work. This is the
  heart: an early return leads a node on to leadership or to termination, but
  never back to the search and to a second request, because `workReciewed` was
  cleared when the request was sent and only the answer sets it;
* `MessagesSound`: the announcement of kept work, which names as its source the
  left neighbour of the node that keeps the work, stops there. Otherwise the
  node itself would take it for an assignment (which is what happens in
  `WorkRecovery` when that neighbour has died).

That work is set only on a blocked node then follows: the assignment that arrives
is the answer to the node's request, so the node is where `HolderWaits` says.

**`UnitsAccounted`.** Branches are followed in the same way through stacks,
assignments under way and the past. `setWork` *replaces* the stacks, so the
invariant `UnitsInv` adds to `RequestInv` that a node which has a request under
way, or is about to send its first, has nothing on its stacks (`AskerIdle`). A
delivered assignment is dropped only by a node that is not in the computation;
by `HolderWaits` that node has left, which is the exception `UnitsAccounted` makes.

**`EndsEmptyHanded`.** A node leads or ends the termination because it takes its
request for refused. The invariant `EmptyInv` adds to `UnitsInv`, for waits that do not
return early and nodes that have not been told to terminate: a node with a
request or its answer under way waits and has not been signalled, and a node
with branches is at work, or about to be, as it has been signalled with
`workReciewed` set. The first part holds because only the denial and the
assignment signal the wait, and both are the end of the request: the denial is
the request itself, which by `OnePlace` was nowhere else (`DenialLeaves`). It is
what is left of "nobody ends with work to do" on rings where the token is not to
be relied on.

**`Refinement`.** Five kinds of step touch the work: a branch is explored, a split
answers a request, an assignment is set, one is dropped by a node that has left,
and a node leaves. All others keep the stacks and what is on its way to each
node (`OnWay`), whichever queue or handler it passes through: they are stutters.
That a split is a `HandOver` needs that the asker is another node with nothing
else under way to it, which is `OnePlace` and `HolderWaits`; that a delivery is a
`Receive` needs empty stacks, which is `AskerIdle`; that a dropped assignment is a
`Lose` needs that the node has left. So the mapping is proved under `UnitsInv`.
`SearchKeepsAll` then says what has been implemented: `NothingLost` and `OnePlace`
are inductive together with the types.

**`RingAgrees`.** It says something only when no `RESULT` is under way, so the
invariant has to say what a `RESULT` under way will still do. `SpreadInv`: every cost that a
node keeps for the ring, or that a `RESULT` carries, *spreads*: all nodes keep one as good,
or a `RESULT` as good is under way and all nodes between its source and where it is keep
one as good already. That need not be the `RESULT` from which a node has its cost:
a `RESULT` stops at its source, and may have been improved by a node behind the
place where the better cost came from. Then `informResult` improves it with a cost
that spreads already, by another `RESULT`. Two lemmas carry the step: `GrowthSpreads`
(costs grow, nothing is taken away) and `MoveSpreads` (a `RESULT` moves one
node on, which keeps a cost as good from then on; if it stops there, the set of
nodes where it has been is closed under `Right`, hence is the ring). TLC has checked
`SpreadInv` on the instance of `results_ring`. `Late = {}` is needed, see section 3:
with a late node among three the property fails; with two nodes, one of them late,
it is model-checked only.

**`SolutionMatches`.** `SendMine` sets `circleSolutionOpt` and leaves
`circleConfiguration` as it was, and `informResult` improves a `RESULT` that passes with
this pair: `RESULT`s whose cost belongs to another configuration really are
under way. The theorem says that no node ever takes one. The reason is the order of
the channels: the cost of such a pair has been sent by its owner before, in a
`RESULT` that does match. `MatchInv` says of a mismatched `RESULT` on its way to its source, and of
a node with a mismatched pair on the way round to itself, that the cost is *guarded*: there
is a set of nodes ahead that keep a cost as good or have ended, and each step
out of that set is covered by a `RESULT` as good that is ahead in the
same channel and does not end before the way does (`Guarded`). Five lemmas carry it:
`GuardFlows` (a step that moves another `RESULT` on extends the set by
the node it reaches), `GuardSent` (what `synchronize` has just sent guards the pair it
leaves behind), `GuardFirst` (the node ahead of a guarded message that is first in its channel does not
take it), `GuardFollows` (it stays guarded as it goes on) and `GuardShort` (what
is guarded on the way round is guarded on the way to a `RESULT`'s source, as when a
`RESULT` is improved with a mismatched pair). TLC has checked `MatchInv` on the instance of
`results_ring` (2,037,259 states). `Late = {}` is needed: a node that is not in the
computation yet passes the matching `RESULT` on without keeping the cost, joins, and
takes the mismatched one (section 3).

**The ring after failures.** The theorems about `RingRebuild` hold for every ring, any
number of failures and every order of calls, replies, crashes in the middle of a
call, and messages, on two conditions that section 3 shows to be needed:
`PromptReply` (`networkBroken` is set before the ring can be closed), and `OneAtATime`, in
`RingRebuildProofs`: a node crashes only when the survivors are one ring again and agree
on who lives (`README:78` leaves a failure during the restoration undefined). The
conditions are on behaviours, so the theorems say
`Spec /\ [][OneAtATime]_vars => ...`. The inductive invariant `RebuildInv` follows a
failure from the crash to the last node that is told:

* `Linked`, `OneRing`: the links of the survivors match, with one gap at most, and going
  right, across the gap as well, leads round all of them;
* `Reports`: there is one report at most, at one node; it names exactly the
  survivors from that node to the reporter (`Segment`) with their computations,
  and the right neighbour of the reporter is dead;
* `Stopped`: a send thread is stopped, or will be, if and only if a report of it is
  on its way, which is `BrokenAwaitsRepair`;
* `Calling`: while a node waits for the reply to a report it has passed on, no node
  the report has come through is told of the repair;
* `Closed`, `Informed`: the node that closes the ring has the names of all survivors, and so
  has every `NETWORK_REBUILT`; this gives `NoneForgotten` and `OwnComputationKept`;
* `NoAborts`: no `Abort` is in a queue.

TLC has checked `RebuildInv` on four nodes, three of which may die, one after the other
(474,242 states). The run `rebuild` covers more than the theorems in one respect: there a
node may also die after the first failure and before it is noticed, next to it
(`overlapping`).

**`ZombifyReturns` and `NobodyForgotten`.** A node that waits may have its call, its
answer or `ZOMBIFY` anywhere on the ring, and any of them may be lost with the node that
dies. `RecoveryInv` therefore follows three phases. Until the death (`Untouched`) there
are no zombies, hence no claims, and whoever waits has a request pending: this is what
makes the loss harmless, and what a second death would find broken (section 3). While
the ring is open, it is what it was (`RingIntact`), and some living node has no right
neighbour. From `CloseRing` on the survivors are one ring (`RingClosed`). `ToBeTold`
says where the announcement of the repair still has to come: to everybody, until it
is sent, and then to the nodes from where it is to its source (`Stretch`), one
node less with each step (`StretchShrinks`); the node it leaves is the one that handles it,
and sends its `ZOMBIFY` (`ToldNow`). `Called` says that something that names the node is in a
living node's queue or among its `workRequests`; it goes on, as no living node is taken
for dead (`AliveKnown`), and when it comes home, it ends the wait, or the node is
zombifying and its `ZOMBIFY` is yet to come (`StillAwaits`). TLC has checked
`RecoveryInv` on the instance of `recovery`. The theorems go on where the run stops, at the
first lapse (`StopAtLapse`): they hold whatever lapses occur.

**`RingWhole`.** It says nothing while some `start()` is under way, so it is far
from inductive. `ConnectAsLeftNode` inserts the new node into the ring of *left*
links in one step, while the right link follows in `BuildNetAndRequestData`. The
invariant `RingInv` is therefore: the left links form one ring of all members,
also of those whose `start()` is under way (`LeftRing`), and the right link of the
node before `n` leads to `n`, or past it while `n` is not through (`RightFollows`).
`InsertKeepsRing` is the step that matters. No use is made of `Calm`, `Rivals` or
`Prompt`: nodes may join anywhere and at any time, next to each other too.

**`NobodyTakenForDead` and `QuietNodesAgree`.** A node sets `liveNodesConsistent` when its
own announcement is back; that it is then known to all is what the theorems say, although
nodes that join meanwhile were not on the ring the announcement went round. What their left
neighbours know is sent to them by `sendAllData`, in messages that bear their name and travel
behind whatever the left neighbour has sent before. The invariant `JoinInv`, with `RingInv`
and the types, says of every message that names a node:

* `TalesPlaced`, `TalesOrdered`: what is told to a new node (`Carry`), the order to resume
  last (`Res`), is in the queue of its left neighbour, which has not changed, because nobody
  may join next to a node before its `init()` is over (`Calm`); and before that order nothing
  announces the new node (`Own`);
* `AnnouncementsPass`: where an announcement is, there is a stretch of nodes ahead of it
  (`Stretch`) such that all nodes outside it know its source or are about to be told
  (`Informed`). A node that joins inside the stretch will be met; one that joins at its
  back is told by a left neighbour that knows. Each step takes one node off
  the stretch (`StretchShrinks`), and when the announcement is home only its source is
  left (`StretchEnds`);
* `SettledKnown`: so a node whose announcement is back is known to all, or they are about to
  be told, and no node that has yet to be told has its own announcement back;
* `AnnouncementComes`: of every node that is not settled the announcement, or the order that
  makes it send one, is under way; `DataAtLeft` gives the order, which travels with the last
  instance. So when nothing is under way, all are settled, and all know all.

TLC has checked `JoinInv` on the instance of `joining`, with all values of `Rivals` and
`Prompt`. `Calm` is needed, see section 3; `Rivals` and
`Prompt` may be what they like. The types need that `instances` lists each instance once:
`Ascending` chooses an increasing listing of a finite set of IDs, and `AscendingExists`
shows that there is one, by climbing from one ID to the next (`ClimbsOn`).

**`InstancesApart`.** A node takes as its ID the highest it has heard of, plus one. The
invariant `IDInv` says that the ID of an instance is in the `maxID` of its node
(`TakenIsMax`) and that these differ (`IDsDiffer`). While a node searches (`Led`), the first
of its searches that are under way has passed all the nodes behind it (`Behind`), and its
`slotA` is at least the `maxID` of each of them that has an ID; when it is home,
all nodes are behind it, so the answer is above all IDs (`FoundIsAbove`). "First" matters because
`Boomerang` sends on the old search after the raised one: only the first is
answered while its source sleeps. `Rivals` is excluded, as the run `rivals` refutes the
property with it; `Prompt` because without it the answer may come before the wait
(`Repository.cpp:93`) and a later, lower one be taken. `EnoughIDs` says that counting cannot wrap
round before all have an ID: it excludes an uninitialised `maxID` near the top of the range,
not of the actual one (section 3), and is what `SearchersKnown` and `Under` carry along: no
`slotA` or `maxID` has got further above a first value than nodes have been given IDs.

**`QuietInstancesAgree`.** `InstInv` adds to `JoinInv` and `IDInv` that what a node holds, or a
message says, of an instance is true (`DataTrue`), hence never in conflict with another entry
of a map that keeps the older of two; and that every node has each announced
instance, is sent it as it joins (`Gift`), or is ahead of the announcement
(`Ahead`, `Spread`). A node that joins ahead of the announcement is met by it, one that joins
behind it has a left neighbour that has the instance itself and is not just waiting for it:
it rests, and gifts come before the order to resume (`GiftsFollowed`, `NoGift`). The announcement
ends one node before its source (`stopsBeforeSource`), when nobody is ahead of it
(`AheadShrinks`), and nobody drops it, because of `SettledKnown` (`NotDropped`). TLC has checked
`IDInv` and `InstInv` on the instance of `joining`, which satisfies `EnoughIDs`.

**`SplitsDivide`.** The invariant is that stacks are sequences of levels. The
level `splitWork` finds is the least of a non-empty set of numbers, so it has two
branches or more, and nine tenths of them, rounded down, are one at least and
not all (`CutIsInside`). The two stacks that result are described once
(`Divided`); a configuration below the level that was cut is below one of its two
parts, whichever the item by which it continues (`BelowCut`).

**`Covered` and `SolvesKnapsack`.** Branch and bound rests on three facts: the first
additional item of a feasible configuration below a level is one of the level's branches
(`FirstIsBranch`), what is below a level that `evaluate` gives up costs no more than the optimum
it was compared with (`GivenUp`), and what is below a level that is expanded stays below what
the nudge leaves of it or below the child, or is the child's own configuration, whose cost
becomes an optimum (`Expanded`). A split is `DividedAhead`. The invariant `SearchInv` adds that
`bestFound` is the cost of a feasible configuration (`FoundReached`), that no optimum and nothing
announced costs more than it (`SolutionsInv`), so that pruning
with an optimum gives up nothing better than `bestFound`, also after a worse solution has
replaced a better one; and that a level has one item more
than the level above it and its items fit (`LevelsFit`). From the latter follows `TypeOK`: a
stack of `instanceSize + 1` levels would have taken all items, which do not fit
(`CapacityAssumption`). TLC has checked `SearchInv` on the instances of `search`.

These facts compare sums over sets, which the community modules define by recursion. The
library's induction theorems are of no use here, as they take an operator as a parameter,
but its `WFMin` does not: a set of numbers without a least one is empty
(`NoneWithoutLeast`), and the set is that of the sizes of the counterexamples. So it is
proved that the recursive function exists on all subsets of a finite set (`AddsExists`), that
its values do not depend on the set it was made for (`AddsAgree`) nor on the order
in which `CHOOSE` takes the elements (`TotalRemove`), and that sums over a part and over the rest
add up (`TotalSplit`).

**Bounds.** `BoundKept` holds because of what `synchronize` compares: the
invariant `BoundInv` says, of every node wherever its main thread is, that the
ring's solution it has dealt with is no better than its optimum, and neither is
the one it has sent or accepted last. The second part is needed where the ring's
solution is refused because `mySolutionOpt` is better: the optimum itself is not
compared there. From it follows `CircleNeverWorse` too: the cost a node sends
replaces `circleSolutionOpt` without a test when nothing new has come in.

Only model-checked: every liveness property (`EndsForAll`, `SearchEnds`,
`ClosesAgain`, `ResultsReturn`, `DeadFallSilent`, `AllGetToWork`), which are out of
the prover's reach; of `WorkRecovery` that no work is lost (`WorkRecoverable`).
The latter is a safety property and within the provers' reach in principle; its inductive
invariant would have to say that messages about one name go round in the order of their
assignments, that a node has one call under way, that until the death another node has a
copy of all that a node has or is sent, and that afterwards the newest copy is where a claim
can find it. TLC has met no violation in random behaviours of rings of four and five
nodes with four branches, any node of which may die, either: some forty million states of
each; it is not proved.

## 5. Plan

| Module | Models | Done | Left |
|---|---|---|---|
| `WorkSharing`, `SharedSearch` | work sharing | runs; type, token origins, one request, `setWork`, branches, empty-handed ends, refinement proved | |
| `ResultSharing` | result sharing | runs; all safety properties proved, `RingAgrees` and `SolutionMatches` for `Late = {}` | |
| `SearchStack` | the search | runs; all safety properties proved | |
| `RingRebuild` | repair of the ring | runs; all safety properties proved | |
| `WorkRecovery` | caches and zombies | runs; type, `ZombifyReturns` and `NobodyForgotten` proved for one death | the last survivor; proof of `WorkRecoverable` (section 4) |
| `Membership` | joining and IDs | runs; type, `RingWhole`, `NobodyTakenForDead` `QuietNodesAgree`, `InstancesApart` and `QuietInstancesAgree` proved, on the conditions of section 4 | |
| in `WorkSharing`, `ResultSharing` | `AbsoluteSolutionException` | | "immediate termination" (`Computation.h:88`) reaches all |

## 6. Not modelled

* *Absolute solutions.* No solution is absolute in the models.
* *Computations after the first.* Each node takes up one computation; that a
  message may be for another computation than the one a node works at, and
  what handlers still hold when `destroyComputation` deletes the module, is in
  no module.
* *The last survivor* of work recovery (`isSingle` in `synchronize` and
  `isWorkAvailable`); `RingRebuild` has its way into being alone. `isSingle`
  compares two `identifier` fields (`Network.h:61`) and is taken to compare them
  by value. The founder, alone in `init()`, never has `liveNodesConsistent` set
  (`Repository.cpp:258`); this is modelled.
* *The data race on `workAssignments`* (`Synchronization.cpp:181`, outside the lock
  that the handlers hold): the maps are taken to be updated one at a time.
* *The clock*, whose one reader is the comparison of copies: there either may be newer.
* *Shutdown* of the send thread in `~Network` (`Network.cpp:188`), refused
  connections and failures to bind.
* *The adaptive `loopsToSync`*: synchronisation may happen at every step.
* *Parsing, output, logging, factories, the CORBA demos*: no protocol depends on
  their state.
