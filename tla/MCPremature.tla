----------------------------- MODULE MCPremature -----------------------------
(***************************************************************************)
(* A ring of four nodes in which termination is detected too early.        *)
(*                                                                         *)
(* The reachable states of four nodes and four branches are too many for   *)
(* TLC, so the main threads follow a course: which of them takes which     *)
(* step next, and how the branches are split.  Messages, handlers, and the *)
(* steps by which a main thread enters and leaves synchronize() or resumes *)
(* with work come in every order between, so the behaviours are some of    *)
(* those of WorkSharing.                                                   *)
(***************************************************************************)
EXTENDS WorkSharing, TLC

CONSTANTS u1, u2, u3, u4   \* branches of the search space

VARIABLE taken             \* how many steps of the course have been taken

MCRing4 == 1 :> 2 @@ 2 :> 3 @@ 3 :> 4 @@ 4 :> 1

UnitSymmetry == Permutations(Units)

Step(name, node) == [name |-> name, node |-> node]
Split(node, requester, kept) == [name |-> "split", node |-> node, requester |-> requester, kept |-> kept]

\* Nodes 1, 2 and 4 have no work.  Node 1 is given a branch by node 3, and passes
\* on the request of node 2, which node 3 grants; node 4 is refused and leads the
\* termination.  When node 1 is through, its request is granted by node 2, so 2 is
\* black.  Node 2 finishes, and passes the token of node 4 on, black, as soon as it
\* comes; when its request is refused, it sends the same token again, now white.
\* The black one makes node 4 try again, the white one makes it gather, while
\* node 1 still has a branch.
Course ==
  << Step("stop", 1), Step("stop", 2), Step("stop", 4), Step("request", 1), Split(3, 1, 3),
     Step("request", 2), Step("request", 4), Step("decline", 1), Split(3, 2, 1),
     Step("decline", 3), Step("lead", 4), Step("explore", 1), Step("stop", 1),
     Step("request", 1), Split(2, 1, 1), Step("explore", 2), Step("stop", 2),
     Step("request", 2), Step("explore", 3), Step("stop", 3), Step("passSaved", 2),
     Step("retry", 4), Step("gather", 4) >>

Takes(step) ==
  LET n == step.node
  IN  \/ step.name = "stop" /\ StopWorking(n)
      \/ step.name = "request" /\ RequestWork(n)
      \/ step.name = "explore" /\ Explore(n)
      \/ step.name = "decline" /\ DeclineRequest(n)
      \/ step.name = "lead" /\ BecomeLeader(n)
      \/ step.name = "passSaved" /\ PassSavedToken(n)
      \/ step.name = "retry" /\ RetryToken(n)
      \/ step.name = "gather" /\ GatherResult(n)
      \/ /\ step.name = "split"
         /\ AssignWork(n)
         /\ Head(workRequests[n]) = step.requester
         /\ Cardinality(work'[n]) = step.kept

FollowCourse ==
  /\ taken < Len(Course)
  /\ Takes(Course[taken + 1])
  /\ taken' = taken + 1

\* What is not laid down by the course.
InBetween ==
  /\ \E n \in Node :
        \/ Deliver(n) \/ FinishHandler(n)
        \/ EnterSynchronize(n) \/ LeaveSynchronize(n) \/ WakeWithWork(n) \/ ResumeWorking(n)
  /\ UNCHANGED taken

CourseSpec == Init /\ taken = 0 /\ [][FollowCourse \/ InBetween]_<<vars, taken>>

=============================================================================
