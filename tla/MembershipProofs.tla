--------------------------- MODULE MembershipProofs ---------------------------
(***************************************************************************)
(* Nodes that join, one after the other or many at the same time and place,*)
(* leave one ring, for any number of nodes: RingWhole.  If each joins next *)
(* to a node that is through its init(), no node is ever taken for dead by *)
(* one that trusts its list, NobodyTakenForDead, and all lists agree once  *)
(* nothing is under way, QuietNodesAgree.  If no two searches for a free   *)
(* ID overlap, no two instances are given one ID, InstancesApart; with both*)
(* all nodes have the same instances then, QuietInstancesAgree.            *)
(*                                                                         *)
(* ConnectAsLeftNode inserts the new node into the ring of left links at   *)
(* once; the right link follows in BuildNetAndRequestData.  So the left    *)
(* links always form one ring of all members, also of those whose start()  *)
(* is under way, and a right link leads past such nodes to the next one    *)
(* that is not.                                                            *)
(***************************************************************************)
EXTENDS Membership, FiniteSetTheorems, WellFoundedInduction, TLAPS

Connected(n) == pc[n] = "connected"

Members == {n \in Node : pc[n] # "off"}

LinkType ==
  /\ pc \in [Node -> PC]
  /\ rightID \in [Node -> Node \cup {NoNode}]
  /\ leftID \in [Node -> Node \cup {NoNode}]

\* The node without an address is the first.
FirstIsMember == Members # {} => First \in Members

\* The left links of M form one ring.
LeftRing(M, left) ==
  /\ \A n \in M : left[n] \in M
  /\ \A m, n \in M : left[m] = left[n] => m = n
  /\ \A m \in M : \E n \in M : left[n] = m
  /\ \A S \in SUBSET M : (S # {} /\ \A n \in S : left[n] \in S) => S = M

\* The right link of the node before n leads to n, or past it while the start()
\* of n is under way.
RightFollows ==
  \A n \in Members : rightID[leftID[n]] = IF Connected(n) THEN rightID[n] ELSE n

RingInv == LinkType /\ FirstIsMember /\ LeftRing(Members, leftID) /\ RightFollows

-----------------------------------------------------------------------------
LEMMA RingInvInit == Init => RingInv
BY DEF Init, RingInv, LinkType, PC, FirstIsMember, Members, LeftRing, RightFollows

\* createSingleNodeNetwork: a ring of one.
LEMMA CreateKeeps ==
  ASSUME RingInv, NEW n \in Node, createSingleNodeNetwork(n)
  PROVE  RingInv'
<1>1. /\ n = First /\ pc[n] = "off" /\ pc' = [pc EXCEPT ![n] = "started"]
      /\ rightID' = [rightID EXCEPT ![n] = n] /\ leftID' = [leftID EXCEPT ![n] = n]
  BY DEF createSingleNodeNetwork, Goto
<1>2. LinkType'
  BY <1>1 DEF RingInv, LinkType, PC
<1>3. Members = {}
  BY <1>1 DEF RingInv, FirstIsMember, Members
<1>4. Members' = {n} /\ leftID'[n] = n /\ rightID'[n] = n /\ ~Connected(n)'
  BY <1>1, <1>3 DEF RingInv, LinkType, Members, Connected
<1>5. LeftRing(Members', leftID')
  BY <1>4 DEF LeftRing
<1>6. RightFollows'
  BY <1>4 DEF RightFollows
<1> QED BY <1>1, <1>2, <1>4, <1>5, <1>6 DEF RingInv, FirstIsMember

\* A ring into which n is inserted between r and the node on its left.
LEMMA InsertKeepsRing ==
  ASSUME NEW M, NEW left, NEW left2, NEW n, NEW r \in M, n \notin M, LeftRing(M, left),
         left2[n] = left[r], left2[r] = n, \A k \in M \ {r} : left2[k] = left[k]
  PROVE  LeftRing(M \cup {n}, left2)
<1> DEFINE N == M \cup {n}
<1>1. left[r] \in M /\ \A k \in M : left[k] \in M /\ left[k] # n
  BY DEF LeftRing
<1>2. \A k \in N : left2[k] \in N
  BY <1>1
<1>3. ASSUME NEW k \in N, NEW l \in N, left2[k] = left2[l]
      PROVE  k = l
  <2>1. \A i \in M : \A j \in M : left[i] = left[j] => i = j
    BY DEF LeftRing
  <2>2. CASE k \in M \ {r} /\ l \in M \ {r}
    BY <1>3, <2>1, <2>2
  <2>3. CASE k = r \/ l = r
    BY <1>1, <1>3, <2>3
  <2>4. CASE k = n \/ l = n
    BY <1>1, <1>3, <2>1, <2>4
  <2> QED BY <2>2, <2>3, <2>4
<1>4. ASSUME NEW k \in N
      PROVE  \E l \in N : left2[l] = k
  <2>1. CASE k = n
    BY <2>1
  <2>2. CASE k = left[r]
    BY <2>2
  <2>3. CASE k \in M /\ k # left[r]
    <3>1. PICK l \in M : left[l] = k
      BY <2>3 DEF LeftRing
    <3> QED BY <2>3, <3>1
  <2> QED BY <2>1, <2>2, <2>3
<1>5. ASSUME NEW S \in SUBSET N, S # {}, \A k \in S : left2[k] \in S
      PROVE  S = N
  <2>1. S \cap M # {}
    <3>1. PICK k \in S : TRUE
      BY <1>5
    <3>2. left2[k] \in S
      BY <1>5
    <3> QED BY <1>1, <3>1, <3>2
  <2>2. \A k \in S \cap M : left[k] \in S \cap M
    BY <1>1, <1>5
  <2>3. S \cap M = M
    BY <2>1, <2>2 DEF LeftRing
  <2>4. n \in S
    BY <1>5, <2>3
  <2> QED BY <2>3, <2>4
<1> HIDE DEF N
<1>6. LeftRing(N, left2)
  BY <1>2, <1>3, <1>4, <1>5 DEF LeftRing
<1> QED BY <1>6 DEF N

\* ConnectAsLeftNode.
LEMMA ConnectKeeps ==
  ASSUME RingInv, NEW n \in Node, NEW r \in Node, Connect(n, r)
  PROVE  RingInv'
<1>1. /\ LinkType /\ r \in Started /\ pc[n] = "off"
      /\ pc' = [pc EXCEPT ![n] = "connected"]
      /\ rightID' = [rightID EXCEPT ![n] = r]
      /\ leftID' = [leftID EXCEPT ![n] = leftID[r], ![r] = n]
  BY DEF RingInv, Connect, Goto
<1>2. /\ r \in Members /\ ~Connected(r) /\ n \notin Members /\ Members \subseteq Node
      /\ Members' = Members \cup {n} /\ Connected(n)' /\ r # n
      /\ \A k \in Members : Connected(k)' <=> Connected(k)
  BY <1>1 DEF LinkType, Started, Members, Connected
<1>3. /\ leftID'[n] = leftID[r] /\ leftID'[r] = n
      /\ \A k \in Members \ {r} : leftID'[k] = leftID[k]
      /\ rightID'[n] = r
      /\ \A k \in Members : rightID'[k] = rightID[k]
  BY <1>1, <1>2 DEF LinkType
<1>4. LinkType'
  BY <1>1 DEF LinkType, PC
<1>5. FirstIsMember'
  BY <1>2 DEF RingInv, FirstIsMember
<1>6. LeftRing(Members', leftID')
  BY <1>2, <1>3, InsertKeepsRing DEF RingInv
<1>7. RightFollows'
  <2> SUFFICES ASSUME NEW k \in Members'
               PROVE  rightID'[leftID'[k]] = IF Connected(k)' THEN rightID'[k] ELSE k
    BY DEF RightFollows
  <2>1. \A j \in Members : leftID[j] \in Members
    BY DEF RingInv, LeftRing
  <2>2. rightID[leftID[r]] = r
    BY <1>2 DEF RingInv, RightFollows
  <2>3. CASE k = n
    BY <1>2, <1>3, <2>1, <2>2, <2>3
  <2>4. CASE k = r
    BY <1>2, <1>3, <2>4
  <2>5. CASE k \in Members \ {r}
    BY <1>2, <1>3, <2>1, <2>5 DEF RingInv, RightFollows
  <2> QED BY <1>2, <2>3, <2>4, <2>5
<1> QED BY <1>4, <1>5, <1>6, <1>7 DEF RingInv

\* BuildNetAndRequestData at the node on the left, whose own start() is over.
LEMMA BuildKeeps ==
  ASSUME RingInv, NEW n \in Node, BuildNetAndRequestData(n)
  PROVE  RingInv'
<1>1. /\ LinkType /\ pc[n] = "connected" /\ ~Connected(leftID[n])
      /\ pc' = [pc EXCEPT ![n] = "started"]
      /\ rightID' = [rightID EXCEPT ![leftID[n]] = n]
      /\ leftID' = leftID
  BY DEF RingInv, BuildNetAndRequestData, Goto, Connected
<1>2. /\ n \in Members /\ Members \subseteq Node /\ Members' = Members /\ ~Connected(n)'
      /\ \A k \in Members \ {n} : Connected(k)' <=> Connected(k)
  BY <1>1 DEF LinkType, Members, Connected
<1>3. /\ \A k \in Members : leftID[k] \in Members
      /\ \A j, k \in Members : leftID[j] = leftID[k] => j = k
  BY DEF RingInv, LeftRing
<1>4. LinkType'
  BY <1>1, <1>2, <1>3 DEF LinkType, PC
<1>5. RightFollows'
  <2> SUFFICES ASSUME NEW k \in Members
               PROVE  rightID'[leftID[k]] = IF Connected(k)' THEN rightID'[k] ELSE k
    BY <1>1, <1>2 DEF RightFollows
  <2>1. CASE k = n
    BY <1>1, <1>2, <1>3, <2>1 DEF LinkType
  <2>2. CASE k # n
    <3>1. rightID'[leftID[k]] = rightID[leftID[k]]
      BY <1>1, <1>2, <1>3, <2>2 DEF LinkType
    <3>2. Connected(k) => rightID'[k] = rightID[k]
      BY <1>1, <1>2 DEF LinkType
    <3> QED BY <1>2, <2>2, <3>1, <3>2 DEF RingInv, RightFollows
  <2> QED BY <2>1, <2>2
<1> QED BY <1>1, <1>2, <1>4, <1>5 DEF RingInv, FirstIsMember

\* No other step changes a link, or makes a node join or end its start().
LEMMA OtherStep ==
  ASSUME LinkType, NEW n \in Node,
         \/ MainStep(n) /\ ~BuildNetAndRequestData(n)
         \/ Deliver(n)
  PROVE  /\ UNCHANGED netVars
         /\ pc' \in [Node -> PC]
         /\ \A k \in Node : /\ pc'[k] = "off" <=> pc[k] = "off"
                            /\ pc'[k] = "connected" <=> pc[k] = "connected"
<1>1. CASE MainStep(n) /\ ~BuildNetAndRequestData(n)
  <2>1. UNCHANGED netVars
    BY <1>1 DEF MainStep, InitSingle, InitSleep, SearchFreeID, SleepFreeID, WakeFreeID, NewData, TakeAnyID
  <2>2. \E from, to \in PC \ {"off", "connected"} : Goto(n, from, to)
    BY <1>1 DEF MainStep, InitSingle, InitSleep, SearchFreeID, SleepFreeID, WakeFreeID, NewData,
                TakeAnyID, PC
  <2> QED BY <2>1, <2>2 DEF Goto, LinkType
<1>2. CASE Deliver(n)
  <2>1. /\ UNCHANGED netVars
        /\ \/ pc' = pc
           \/ \E r, to : /\ to \in PC \ {"off", "connected"}
                         /\ pc[r] \in PC \ {"off", "connected"}
                         /\ pc' = [pc EXCEPT ![r] = to]
    <3>0. pc = [pc EXCEPT ![rightID[n]] = pc[rightID[n]]]
      BY DEF LinkType
    <3>1. CASE ReceiveNodeAnnouncement(n)
      <4>1. CASE confirms(n) /\ pc[rightID[n]] = "init"
        BY <3>1, <4>1 DEF ReceiveNodeAnnouncement, PC
      <4>2. CASE ~(confirms(n) /\ pc[rightID[n]] = "init")
        BY <3>0, <3>1, <4>2 DEF ReceiveNodeAnnouncement
      <4> QED BY <4>1, <4>2
    <3>2. CASE ReceiveInstanceAnnouncement(n) \/ ReceiveSearch(n)
      BY <3>2 DEF ReceiveInstanceAnnouncement, ReceiveSearch
    <3>3. CASE ReceiveFreeID(n)
      <4>1. CASE pc[rightID[n]] \in {"asleep", "woken"}
        BY <3>3, <4>1 DEF ReceiveFreeID, PC
      <4>2. CASE pc[rightID[n]] \notin {"asleep", "woken"}
        BY <3>0, <3>3, <4>2 DEF ReceiveFreeID
      <4> QED BY <4>1, <4>2
    <3> QED BY <1>2, <3>1, <3>2, <3>3 DEF Deliver
  <2> QED BY <2>1 DEF LinkType
<1> QED BY <1>1, <1>2

LEMMA RingInvStep == RingInv /\ [Next]_vars => RingInv'
<1> SUFFICES ASSUME RingInv, [Next]_vars
             PROVE  RingInv'
  OBVIOUS
<1>1. ASSUME UNCHANGED netVars, pc' \in [Node -> PC],
             \A k \in Node : /\ pc'[k] = "off" <=> pc[k] = "off"
                             /\ pc'[k] = "connected" <=> pc[k] = "connected"
      PROVE  RingInv'
  <2>1. Members' = Members /\ \A k \in Node : Connected(k)' <=> Connected(k)
    BY <1>1 DEF Members, Connected
  <2> QED BY <1>1, <2>1 DEF RingInv, LinkType, FirstIsMember, RightFollows, netVars, Members
<1>2. CASE UNCHANGED vars
  BY <1>1, <1>2 DEF vars, netVars, RingInv, LinkType
<1>3. CASE Next
  <2>1. PICK n \in Node :
          createSingleNodeNetwork(n) \/ (\E r \in Node : Connect(n, r)) \/ MainStep(n) \/ Deliver(n)
    BY <1>3 DEF Next
  <2>2. CASE createSingleNodeNetwork(n)
    BY <2>2, CreateKeeps
  <2>3. CASE \E r \in Node : Connect(n, r)
    BY <2>3, ConnectKeeps
  <2>4. CASE BuildNetAndRequestData(n)
    BY <2>4, BuildKeeps
  <2>5. CASE (MainStep(n) /\ ~BuildNetAndRequestData(n)) \/ Deliver(n)
    BY <1>1, <2>5, OtherStep DEF RingInv
  <2> QED BY <2>1, <2>2, <2>3, <2>4, <2>5
<1> QED BY <1>2, <1>3

LEMMA RingInvWhole == RingInv => RingWhole
<1> SUFFICES ASSUME RingInv, \A n \in Node : pc[n] # "connected"
             PROVE  /\ \A n \in Started : rightID[n] \in Started /\ leftID[rightID[n]] = n
                    /\ \A S \in SUBSET Started :
                          (S # {} /\ \A n \in S : rightID[n] \in S) => S = Started
  BY DEF RingWhole
<1>1. Started = Members
  BY DEF Started, Members
<1>2. /\ \A n \in Members : leftID[n] \in Members /\ rightID[leftID[n]] = n
      /\ \A m \in Members : \E n \in Members : leftID[n] = m
  BY DEF RingInv, LeftRing, RightFollows, Connected, Members
<1>3. ASSUME NEW S \in SUBSET Members, S # {}, \A n \in S : rightID[n] \in S
      PROVE  S = Members
  <2>1. \A n \in Members \ S : leftID[n] \in Members \ S
    BY <1>2, <1>3
  <2>2. Members \ S = {} \/ Members \ S = Members
    BY <2>1 DEF RingInv, LeftRing
  <2> QED BY <1>3, <2>2
<1> QED BY <1>1, <1>2, <1>3

\* However many nodes join, wherever and whenever they do, the members form one
\* ring as soon as no start() is under way.
THEOREM RingWholeAlways == Spec => []RingWhole
BY RingInvInit, RingInvStep, RingInvWhole, PTL DEF Spec


-----------------------------------------------------------------------------
(***************************************************************************)
(* Types                                                                   *)
(***************************************************************************)
Climbs(f) == \A i, j \in DOMAIN f : i < j => f[i] < f[j]

LEMMA ClimbsOn ==
  ASSUME NEW k \in Nat, NEW S \in SUBSET (0 .. k), k \in S, IsFiniteSet(S),
         NEW f \in [1 .. Cardinality(S \ {k}) -> S \ {k}], Climbs(f)
  PROVE  \E g \in [1 .. Cardinality(S) -> S] : Climbs(g)
<1> DEFINE c == Cardinality(S \ {k})
           g == [i \in 1 .. c + 1 |-> IF i = c + 1 THEN k ELSE f[i]]
<1>1. c \in Nat /\ Cardinality(S) = c + 1
  <2>1. Cardinality(S \ {k}) = Cardinality(S) - 1 /\ IsFiniteSet(S \ {k})
    BY FS_RemoveElement
  <2>2. Cardinality(S) \in Nat /\ c \in Nat
    BY <2>1, FS_CardinalityType
  <2> QED BY <2>1, <2>2
<1> HIDE DEF c
<1>2. /\ f \in [1 .. c -> S \ {k}]
      /\ \A i \in 1 .. c : f[i] \in S \ {k} /\ f[i] < k
  <2>1. f \in [1 .. c -> S \ {k}]
    BY DEF c
  <2>2. \A i \in 1 .. c : f[i] \in S \ {k}
    BY <2>1
  <2>3. \A x \in S \ {k} : x \in 0 .. k /\ x # k
    OBVIOUS
  <2>4. \A x \in S \ {k} : x < k
    BY <2>3
  <2> QED BY <2>1, <2>2, <2>4
<1>3. g \in [1 .. Cardinality(S) -> S]
  <2>1. \A i \in 1 .. c + 1 : i # c + 1 => i \in 1 .. c
    BY <1>1
  <2>2. \A i \in 1 .. c + 1 : g[i] \in S
    BY <1>2, <2>1
  <2>3. g \in [1 .. c + 1 -> S]
    BY <2>2
  <2> QED BY <1>1, <2>3
<1>4. ASSUME NEW i \in 1 .. c + 1, NEW j \in 1 .. c + 1, i < j
      PROVE  g[i] < g[j]
  <2>1. i \in 1 .. c /\ g[i] = f[i]
    BY <1>1, <1>4
  <2>2. CASE j = c + 1
    BY <1>2, <2>1, <2>2
  <2>3. CASE j # c + 1
    <3>1. j \in 1 .. c /\ g[j] = f[j]
      BY <1>1, <2>3
    <3>2. DOMAIN f = 1 .. c
      BY <1>2
    <3> QED BY <1>4, <2>1, <3>1, <3>2 DEF Climbs
  <2> QED BY <2>2, <2>3
<1>5. Climbs(g)
  BY <1>4 DEF Climbs
<1> HIDE DEF g
<1> QED BY <1>3, <1>5

\* A set of numbers can be listed in ascending order.
LEMMA AscendingExists ==
  ASSUME NEW b \in Nat, NEW ids \in SUBSET (0 .. b - 1)
  PROVE  Ascending(ids) \in [1 .. Cardinality(ids) -> ids] /\ Climbs(Ascending(ids))
<1> DEFINE Listed(S) == \E f \in [1 .. Cardinality(S) -> S] : Climbs(f)
           Bad == {k \in Nat : \E S \in SUBSET (0 .. k - 1) : ~Listed(S)}
<1>1. ASSUME Bad # {} PROVE FALSE
  <2> DEFINE R == OpToRel(<, Nat)
  <2>1. IsWellFoundedOn(R, Nat) /\ Bad \subseteq Nat
    BY NatLessThanWellFounded
  <2>2. \A x, y \in Nat : <<y, x>> \in R <=> y < x
    BY DEF OpToRel
  <2> HIDE DEF R, Bad
  <2>3. PICK k \in Bad : \A j \in Bad : ~(<<j, k>> \in R)
    BY <1>1, <2>1, WFMin
  <2>4. k \in Nat /\ \A j \in Nat : j < k => j \notin Bad
    BY <2>1, <2>2, <2>3
  <2>5. PICK S \in SUBSET (0 .. k - 1) : ~Listed(S)
    BY <2>3 DEF Bad
  <2>6. IsFiniteSet(S)
    <3>1. 0 \in Int /\ k - 1 \in Int
      BY <2>4
    <3>2. IsFiniteSet(0 .. k - 1)
      BY <3>1, FS_Interval
    <3> QED BY <2>5, <3>2, FS_Subset
  <2>7. CASE k = 0
    <3>1. S = {}
      <4>1. 0 .. k - 1 = {}
        BY <2>7
      <4> QED BY <2>5, <4>1
    <3>2. Cardinality(S) = 0
      BY <3>1, FS_EmptySet
    <3> DEFINE e == [i \in {} |-> 0]
    <3>3. e \in [1 .. Cardinality(S) -> S] /\ Climbs(e)
      BY <3>1, <3>2 DEF Climbs
    <3> QED BY <2>5, <3>3
  <2>8. CASE k # 0
    <3>1. k - 1 \in Nat /\ k - 1 < k
      BY <2>4, <2>8
    <3>2. k - 1 \notin Bad
      BY <2>4, <3>1
    <3>3. \A T \in SUBSET (0 .. (k - 1) - 1) : Listed(T)
      BY <3>1, <3>2 DEF Bad
    <3>4. S \ {k - 1} \in SUBSET (0 .. (k - 1) - 1)
      BY <2>4, <2>5, <3>1
    <3>5. Listed(S \ {k - 1})
      BY <3>3, <3>4
    <3>6. PICK f \in [1 .. Cardinality(S \ {k - 1}) -> S \ {k - 1}] : Climbs(f)
      BY <3>5
    <3>7. k - 1 \notin S
      <4>1. SUFFICES ASSUME k - 1 \in S PROVE FALSE
        OBVIOUS
      <4>2. \E g \in [1 .. Cardinality(S) -> S] : Climbs(g)
        BY <2>6, <3>1, <3>6, <4>1, ClimbsOn
      <4> QED BY <2>5, <4>2
    <3>8. S \ {k - 1} = S
      BY <3>7
    <3> QED BY <2>5, <3>5, <3>8
  <2> QED BY <2>7, <2>8
<1>2. Listed(ids)
  BY <1>1
<1> HIDE DEF Bad
<1>3. \E f \in [1 .. Cardinality(ids) -> ids] : \A i, j \in DOMAIN f : i < j => f[i] < f[j]
  BY <1>2 DEF Climbs
<1> QED BY <1>3 DEF Ascending, Climbs

LEMMA InstancesType ==
  ASSUME NEW copies, DOMAIN copies \subseteq ID, Range(copies) \subseteq WithFile, NEW to \in Node
  PROVE  /\ instances(copies, to) \in Seq(Message)
         /\ \A i \in DOMAIN instances(copies, to) :
              /\ instances(copies, to)[i].type = "INSTANCE_ANNOUNCEMENT"
              /\ instances(copies, to)[i].sourceNode = to
              /\ instances(copies, to)[i].resume <=> i = Len(instances(copies, to))
         /\ DOMAIN copies # {} => instances(copies, to) # <<>>
<1> DEFINE ids == Ascending(DOMAIN copies)
           c == Cardinality(DOMAIN copies)
           msgs == [i \in DOMAIN ids |-> InstanceAnnouncement(to, ids[i], copies[ids[i]], i = Len(ids))]
<1>1. instances(copies, to) = msgs
  BY DEF instances
<1>2. ids \in [1 .. c -> DOMAIN copies]
  <2>1. IDs \in Nat /\ DOMAIN copies \in SUBSET (0 .. IDs - 1)
    BY MembershipAssumption DEF ID
  <2> QED BY <2>1, AscendingExists
<1>3. c \in Nat /\ (DOMAIN copies # {} => c # 0)
  <2>1. IDs \in Nat /\ 0 \in Int /\ IDs - 1 \in Int
    BY MembershipAssumption
  <2>2. IsFiniteSet(0 .. IDs - 1) /\ DOMAIN copies \in SUBSET (0 .. IDs - 1)
    BY <2>1, FS_Interval DEF ID
  <2>3. IsFiniteSet(DOMAIN copies)
    BY <2>2, FS_Subset
  <2> QED BY <2>3, FS_CardinalityType, FS_EmptySet
<1> HIDE DEF ids, c
<1>4. DOMAIN ids = 1 .. c /\ Len(ids) = c
  BY <1>2, <1>3
<1>5. ASSUME NEW i \in 1 .. c
      PROVE  msgs[i] \in Message
  <2>1. ids[i] \in DOMAIN copies
    BY <1>2
  <2>2. ids[i] \in ID /\ copies[ids[i]] \in WithFile
    BY <2>1 DEF Range
  <2> QED BY <1>4, <2>2 DEF InstanceAnnouncement, Message
<1>6. msgs \in Seq(Message) /\ Len(msgs) = c /\ DOMAIN msgs = 1 .. c
  <2>1. DOMAIN msgs = 1 .. c
    BY <1>4
  <2>2. msgs \in [1 .. c -> Message]
    BY <1>5, <2>1
  <2> QED BY <1>3, <2>1, <2>2
<1>7. \A i \in 1 .. c : /\ msgs[i].type = "INSTANCE_ANNOUNCEMENT"
                        /\ msgs[i].sourceNode = to
                        /\ msgs[i].resume <=> i = c
  BY <1>4 DEF InstanceAnnouncement
<1>8. DOMAIN copies # {} => msgs # <<>>
  BY <1>3, <1>6
<1> QED BY <1>1, <1>6, <1>7, <1>8

LEMMA SentType ==
  ASSUME TypeOK, NEW n \in Node, NEW to \in Node
  PROVE  /\ sendAllData(n, to) \in Seq(Message)
         /\ NodeAnnouncement(to, liveNodes[n]) \in Message
         /\ instances(data[n], to) \in Seq(Message)
<1>1. NodeAnnouncement(to, liveNodes[n]) \in Message
  <2>1. liveNodes[n] \in SUBSET Node
    BY DEF TypeOK
  <2> QED BY <2>1 DEF NodeAnnouncement, Message
<1>2. instances(data[n], to) \in Seq(Message)
  BY InstancesType DEF TypeOK
<1> HIDE DEF instances
<1> QED BY <1>1, <1>2 DEF sendAllData

LEMMA OneMessage ==
  ASSUME NEW y \in Message
  PROVE  <<y>> \in Seq(Message) /\ <<>> \in Seq(Message)
OBVIOUS

LEMMA SendType ==
  ASSUME TypeOK, NEW n \in Node, NEW msgs \in Seq(Message), Send(n, msgs)
  PROVE  /\ sendQueue' \in [Node -> Seq(Message)]
         /\ sendQueue'[n] = sendQueue[n] \o msgs
         /\ \A k \in Node \ {n} : sendQueue'[k] = sendQueue[k]
<1>1. sendQueue[n] \o msgs \in Seq(Message)
  BY DEF TypeOK
<1> QED BY <1>1 DEF Send, TypeOK

LEMMA HandledType ==
  ASSUME TypeOK, NEW m \in Node, sendQueue[m] # <<>>, NEW msgs \in Seq(Message), Handled(m, msgs)
  PROVE  /\ sendQueue' \in [Node -> Seq(Message)]
         /\ \A k \in Node :
              sendQueue'[k] = (IF k = m THEN Tail(sendQueue[k]) ELSE sendQueue[k])
                                \o (IF k = rightID[m] THEN msgs ELSE <<>>)
<1>1. \A k \in Node : sendQueue[k] \in Seq(Message) /\ <<>> \in Seq(Message)
  BY DEF TypeOK
<1>2. Tail(sendQueue[m]) \in Seq(Message)
  BY <1>1
<1>3. \A k \in Node : ((IF k = m THEN Tail(sendQueue[k]) ELSE sendQueue[k])
                         \o (IF k = rightID[m] THEN msgs ELSE <<>>)) \in Seq(Message)
  BY <1>1, <1>2
<1> QED BY <1>3 DEF Handled

-----------------------------------------------------------------------------
\* Only a node with an instance of its own looks for an ID.
SeekersHaveFile ==
  \A n \in Node : pc[n] \in {"searching", "asleep", "woken", "named"} => n \in WithFile

RightInside == \A n \in Members : rightID[n] \in Members

TypeInv == TypeOK /\ RingInv /\ SeekersHaveFile /\ RightInside

LEMMA TypeInvInit == Init => TypeInv
<1> SUFFICES ASSUME Init
             PROVE  TypeInv
  OBVIOUS
<1>1. Garbage \subseteq ID /\ 0 \in ID
  BY MembershipAssumption DEF ID
<1>2. RingInv /\ Members = {}
  BY RingInvInit DEF Init, Members
<1>3. \A n \in Node : DOMAIN data[n] = {} /\ Range(data[n]) = {}
  BY DEF Init, NoData, Range
<1>4. TypeOK
  BY <1>1, <1>3 DEF Init, TypeOK, PC
<1> QED BY <1>2, <1>4 DEF TypeInv, SeekersHaveFile, RightInside, Init

LEMMA ArrivesType ==
  ASSUME TypeInv, NEW m \in Node, NEW type, Arrives(m, type)
  PROVE  /\ m \in Started /\ rightID[m] \in Members /\ rightID[m] \in Node
         /\ sendQueue[m] \in Seq(Message) /\ sendQueue[m] # <<>>
         /\ msg(m) \in Message /\ msg(m).type = type
         /\ Tail(sendQueue[m]) \in Seq(Message)
<1>1. m \in Members /\ Members \subseteq Node
  BY DEF Arrives, Started, Members
<1> QED BY <1>1 DEF Arrives, msg, TypeInv, TypeOK, RightInside

\* What the fields of each message are.
LEMMA Fields ==
  ASSUME NEW y \in Message
  PROVE  /\ y.sourceNode \in Node
         /\ y.type = "NODE_ANNOUNCEMENT" => y.nodes \in SUBSET Node
         /\ y.type = "INSTANCE_ANNOUNCEMENT" =>
              y.computationID \in ID /\ y.instance \in WithFile /\ y.resume \in BOOLEAN
         /\ y.type = "FREE_ID_SEARCH" => y.slotA \in ID
BY DEF Message

LEMMA InsertedType ==
  ASSUME NEW copies, DOMAIN copies \subseteq ID, Range(copies) \subseteq WithFile,
         NEW id \in ID, NEW i \in WithFile
  PROVE  DOMAIN inserted(copies, id, i) \subseteq ID /\ Range(inserted(copies, id, i)) \subseteq WithFile
BY DEF inserted, Range

LEMMA FurtherType ==
  ASSUME NEW m \in Node, msg(m) \in Message, NEW known
  PROVE  Further(m, known) \in Seq(Message) /\ <<>> \in Seq(Message)
BY DEF Further

\* All variables but pc and the links.
DataType ==
  /\ sendQueue \in [Node -> Seq(Message)]
  /\ liveNodes \in [Node -> SUBSET Node]
  /\ liveNodesConsistent \in [Node -> BOOLEAN]
  /\ DOMAIN data = Node
  /\ \A n \in Node : DOMAIN data[n] \subseteq ID /\ Range(data[n]) \subseteq WithFile
  /\ maxID \in [Node -> ID]
  /\ idSearchColisionQueue \in [Node -> Seq(Node)]
  /\ computationID \in [Node -> ID]

LEMMA TypeParts == TypeOK <=> LinkType /\ DataType
BY DEF TypeOK, LinkType, DataType

\* What start() does to the links.
LEMMA StartType ==
  ASSUME TypeInv, NEW n \in Node,
         createSingleNodeNetwork(n) \/ (\E r \in Node : Connect(n, r)) \/ BuildNetAndRequestData(n)
  PROVE  DataType' /\ SeekersHaveFile' /\ RightInside'
<1>0. DataType /\ LinkType /\ \A k \in Members : leftID[k] \in Members /\ rightID[k] \in Members
  BY TypeParts DEF TypeInv, RingInv, LeftRing, RightInside
<1>1. CASE createSingleNodeNetwork(n)
  <2>1. /\ n = First /\ pc[n] = "off" /\ pc' = [pc EXCEPT ![n] = "started"]
        /\ rightID' = [rightID EXCEPT ![n] = n]
        /\ UNCHANGED <<sendQueue, liveNodes, liveNodesConsistent, data, idVars, computationID>>
    BY <1>1 DEF createSingleNodeNetwork, Goto
  <2>2. Members = {}
    BY <2>1 DEF TypeInv, RingInv, FirstIsMember, Members
  <2>3. Members' = {n} /\ rightID'[n] = n
    BY <1>0, <2>1, <2>2 DEF LinkType, Members
  <2>4. SeekersHaveFile'
    BY <1>0, <2>1 DEF TypeInv, SeekersHaveFile, LinkType
  <2> QED BY <1>0, <2>1, <2>3, <2>4 DEF DataType, RightInside, idVars
<1>2. ASSUME NEW r \in Node, Connect(n, r)
      PROVE  DataType' /\ SeekersHaveFile' /\ RightInside'
  <2>1. /\ pc[n] = "off" /\ pc' = [pc EXCEPT ![n] = "connected"] /\ r \in Started
        /\ rightID' = [rightID EXCEPT ![n] = r]
        /\ UNCHANGED <<sendQueue, liveNodes, liveNodesConsistent, data, idVars, computationID>>
    BY <1>2 DEF Connect, Goto
  <2>2. Members' = Members \cup {n} /\ n \notin Members /\ r \in Members /\ Members \subseteq Node
    BY <1>0, <2>1 DEF LinkType, Members, Started
  <2>3. SeekersHaveFile'
    BY <1>0, <2>1 DEF TypeInv, SeekersHaveFile, LinkType
  <2>4. RightInside'
    BY <1>0, <2>1, <2>2 DEF RightInside, LinkType
  <2> QED BY <1>0, <2>1, <2>3, <2>4 DEF DataType, idVars
<1>3. CASE BuildNetAndRequestData(n)
  <2> DEFINE l == leftID[n]
  <2>1. /\ pc[n] = "connected" /\ pc' = [pc EXCEPT ![n] = "started"]
        /\ rightID' = [rightID EXCEPT ![l] = n] /\ Send(l, sendAllData(l, n))
        /\ UNCHANGED <<leftID, liveNodes, liveNodesConsistent, data, idVars, computationID>>
    BY <1>3 DEF BuildNetAndRequestData, Goto
  <2>2. Members' = Members /\ n \in Members /\ l \in Members /\ Members \subseteq Node
    BY <1>0, <2>1 DEF LinkType, Members
  <2>3. sendQueue' \in [Node -> Seq(Message)]
    BY <2>1, <2>2, SentType, SendType DEF TypeInv
  <2>4. SeekersHaveFile'
    BY <1>0, <2>1 DEF TypeInv, SeekersHaveFile, LinkType
  <2>5. RightInside'
    BY <1>0, <2>1, <2>2 DEF RightInside, LinkType
  <2> QED BY <1>0, <2>1, <2>3, <2>4, <2>5 DEF DataType, idVars
<1> QED BY <1>1, <1>2, <1>3

LEMMA MainType ==
  ASSUME TypeInv, NEW n \in Node, MainStep(n), ~BuildNetAndRequestData(n)
  PROVE  DataType' /\ SeekersHaveFile'
<1>0. DataType /\ pc \in [Node -> PC] /\ TypeOK /\ SeekersHaveFile
  BY TypeParts DEF TypeInv, LinkType
<1>1. CASE InitSingle(n)
  <2>1. 1 \in ID
    BY MembershipAssumption DEF ID
  <2>2. SeekersHaveFile'
    BY <1>0, <1>1 DEF InitSingle, Goto, SeekersHaveFile
  <2> QED BY <1>0, <1>1, <2>1, <2>2 DEF InitSingle, DataType, idVars
<1>2. CASE InitSleep(n)
  <2>2. SeekersHaveFile'
    BY <1>0, <1>2 DEF InitSleep, Goto, SeekersHaveFile
  <2> QED BY <1>0, <1>2, <2>2 DEF InitSleep, DataType, idVars
<1>3. CASE SearchFreeID(n)
  <2>1. maxID[n] \in ID
    BY <1>0 DEF DataType
  <2>2. SeekersHaveFile'
    BY <1>0, <1>3 DEF SearchFreeID, Goto, SeekersHaveFile
  <2>3. sendQueue' \in [Node -> Seq(Message)] /\ computationID' \in [Node -> ID]
    <3>1. CASE isSingle(n)
      BY <1>0, <1>3, <2>1, <3>1 DEF SearchFreeID, DataType
    <3>2. CASE ~isSingle(n)
      <4>1. Send(n, <<FreeIDSearch(n, maxID[n])>>) /\ UNCHANGED computationID
        BY <1>3, <3>2 DEF SearchFreeID
      <4>2. FreeIDSearch(n, maxID[n]) \in Message
        BY <2>1 DEF FreeIDSearch, Message
      <4>3. <<FreeIDSearch(n, maxID[n])>> \in Seq(Message)
        BY <4>2
      <4> QED BY <1>0, <4>1, <4>3, SendType DEF DataType
    <3> QED BY <3>1, <3>2
  <2> QED BY <1>0, <1>3, <2>2, <2>3 DEF SearchFreeID, DataType, idVars
<1>4. CASE SleepFreeID(n)
  <2>2. SeekersHaveFile'
    BY <1>0, <1>4 DEF SleepFreeID, Goto, SeekersHaveFile
  <2> QED BY <1>0, <1>4, <2>2 DEF SleepFreeID, DataType, idVars
<1>5. CASE WakeFreeID(n)
  <2>1. maxID[n] \in ID /\ idSearchColisionQueue[n] \in Seq(Node)
    BY <1>0 DEF DataType
  <2>2. SeekersHaveFile'
    BY <1>0, <1>5 DEF WakeFreeID, Goto, SeekersHaveFile
  <2> DEFINE q == idSearchColisionQueue[n]
             msgs == [i \in DOMAIN q |-> FreeIDSearch(q[i], maxID[n])]
  <2>3. msgs \in Seq(Message)
    <3>1. \A i \in DOMAIN q : FreeIDSearch(q[i], maxID[n]) \in Message
      BY <2>1 DEF FreeIDSearch, Message
    <3>2. Len(q) \in Nat /\ DOMAIN q = 1 .. Len(q)
      BY <2>1
    <3> HIDE DEF q
    <3>3. msgs \in [1 .. Len(q) -> Message]
      BY <3>1, <3>2
    <3> QED BY <3>2, <3>3
  <2>4. sendQueue' \in [Node -> Seq(Message)]
    <3>1. Send(n, msgs)
      BY <1>5 DEF WakeFreeID
    <3> HIDE DEF msgs
    <3> QED BY <1>0, <2>3, <3>1, SendType
  <2>5. /\ computationID' \in [Node -> ID] /\ idSearchColisionQueue' \in [Node -> Seq(Node)]
        /\ UNCHANGED <<liveNodes, liveNodesConsistent, data, maxID>>
    BY <1>0, <1>5, <2>1 DEF WakeFreeID, DataType
  <2> QED BY <1>0, <2>2, <2>4, <2>5 DEF DataType
<1>6. CASE NewData(n)
  <2>1. n \in WithFile /\ computationID[n] \in ID
    BY <1>0, <1>6 DEF NewData, Goto, SeekersHaveFile, DataType
  <2>2. SeekersHaveFile'
    BY <1>0, <1>6 DEF NewData, Goto, SeekersHaveFile
  <2> DEFINE msgs == IF isSingle(n) THEN <<>> ELSE <<InstanceAnnouncement(n, computationID[n], n, FALSE)>>
  <2>3. msgs \in Seq(Message)
    <3>1. InstanceAnnouncement(n, computationID[n], n, FALSE) \in Message
      BY <2>1 DEF InstanceAnnouncement, Message
    <3>2. <<InstanceAnnouncement(n, computationID[n], n, FALSE)>> \in Seq(Message) /\ <<>> \in Seq(Message)
      BY <3>1, OneMessage, Zenon
    <3> QED BY <3>2, Zenon
  <2>4. sendQueue' \in [Node -> Seq(Message)]
    <3>1. Send(n, msgs)
      BY <1>6 DEF NewData
    <3> HIDE DEF msgs
    <3> QED BY <1>0, <2>3, <3>1, SendType
  <2>5. /\ DOMAIN data' = Node
        /\ \A k \in Node : DOMAIN data'[k] \subseteq ID /\ Range(data'[k]) \subseteq WithFile
    <3> DEFINE d == inserted(data[n], computationID[n], n)
    <3>1. DOMAIN d \subseteq ID /\ Range(d) \subseteq WithFile
      BY <1>0, <2>1, InsertedType DEF DataType
    <3>2. data' = [data EXCEPT ![n] = d]
      BY <1>6 DEF NewData
    <3> HIDE DEF d
    <3> QED BY <1>0, <3>1, <3>2 DEF DataType
  <2> QED BY <1>0, <1>6, <2>2, <2>4, <2>5 DEF NewData, DataType, idVars
<1>7. CASE TakeAnyID(n)
  <2>1. PICK id \in DOMAIN data[n] : computationID' = [computationID EXCEPT ![n] = id]
    BY <1>7 DEF TakeAnyID
  <2>2. SeekersHaveFile'
    BY <1>0, <1>7 DEF TakeAnyID, Goto, SeekersHaveFile
  <2>3. id \in ID
    BY <1>0 DEF DataType
  <2> QED BY <1>0, <1>7, <2>1, <2>2, <2>3 DEF TakeAnyID, DataType, idVars
<1> QED BY <1>1, <1>2, <1>3, <1>4, <1>5, <1>6, <1>7 DEF MainStep

LEMMA DeliverType ==
  ASSUME TypeInv, NEW m \in Node, Deliver(m)
  PROVE  DataType' /\ SeekersHaveFile'
<1> DEFINE r == rightID[m]
<1>0. /\ DataType /\ pc \in [Node -> PC] /\ TypeOK /\ SeekersHaveFile
  BY TypeParts DEF TypeInv, LinkType
<1>1. PICK type : Arrives(m, type)
  BY DEF Deliver, ReceiveNodeAnnouncement, ReceiveInstanceAnnouncement, ReceiveFreeID, ReceiveSearch
<1>2. r \in Node /\ sendQueue[m] # <<>> /\ msg(m) \in Message /\ msg(m).sourceNode \in Node
  BY <1>1, ArrivesType, Fields
<1>3. \A known : Further(m, known) \in Seq(Message)
  BY <1>2, FurtherType
<1>4. ASSUME NEW msgs \in Seq(Message), Handled(m, msgs)
      PROVE  sendQueue' \in [Node -> Seq(Message)]
  BY <1>0, <1>2, <1>4, HandledType
<1>5. CASE ReceiveNodeAnnouncement(m)
  <2>1. msg(m).nodes \in SUBSET Node
    <3>1. msg(m).type = "NODE_ANNOUNCEMENT"
      BY <1>5 DEF ReceiveNodeAnnouncement, Arrives
    <3> QED BY <1>2, <3>1, Fields
  <2>2. liveNodes' \in [Node -> SUBSET Node]
    <3>1. liveNodes' = [liveNodes EXCEPT ![r] = liveNodes[r] \cup msg(m).nodes]
      BY <1>5 DEF ReceiveNodeAnnouncement
    <3>2. liveNodes[r] \cup msg(m).nodes \in SUBSET Node
      BY <1>0, <1>2, <2>1 DEF DataType
    <3> QED BY <1>0, <3>1, <3>2 DEF DataType
  <2>3. liveNodesConsistent' \in [Node -> BOOLEAN]
    BY <1>0, <1>5 DEF ReceiveNodeAnnouncement, DataType, confirms
  <2>4. SeekersHaveFile'
    BY <1>0, <1>2, <1>5 DEF ReceiveNodeAnnouncement, SeekersHaveFile
  <2>5. sendQueue' \in [Node -> Seq(Message)]
    BY <1>3, <1>4, <1>5 DEF ReceiveNodeAnnouncement
  <2> QED BY <1>0, <1>5, <2>2, <2>3, <2>4, <2>5 DEF ReceiveNodeAnnouncement, DataType, idVars
<1>6. CASE ReceiveInstanceAnnouncement(m)
  <2>1. msg(m).computationID \in ID /\ msg(m).instance \in WithFile
    <3>1. msg(m).type = "INSTANCE_ANNOUNCEMENT"
      BY <1>6 DEF ReceiveInstanceAnnouncement, Arrives
    <3> QED BY <1>2, <3>1, Fields
  <2>2. /\ DOMAIN data' = Node
        /\ \A k \in Node : DOMAIN data'[k] \subseteq ID /\ Range(data'[k]) \subseteq WithFile
    <3> DEFINE d == inserted(data[r], msg(m).computationID, msg(m).instance)
    <3>1. DOMAIN d \subseteq ID /\ Range(d) \subseteq WithFile
      BY <1>0, <1>2, <2>1, InsertedType DEF DataType
    <3>2. data' = [data EXCEPT ![r] = d]
      BY <1>6 DEF ReceiveInstanceAnnouncement
    <3> HIDE DEF d
    <3> QED BY <1>0, <3>1, <3>2 DEF DataType
  <2> DEFINE a == IF msg(m).resume THEN <<NodeAnnouncement(r, {r})>> ELSE <<>>
             b == IF stopsBeforeSource(m) THEN <<>> ELSE Further(m, liveNodes[r])
  <2>3. a \in Seq(Message) /\ b \in Seq(Message)
    <3>1. NodeAnnouncement(r, {r}) \in Message
      BY <1>2 DEF NodeAnnouncement, Message
    <3> QED BY <1>3, <3>1
  <2>4. Handled(m, a \o b)
    BY <1>6 DEF ReceiveInstanceAnnouncement
  <2> HIDE DEF a, b
  <2>5. sendQueue' \in [Node -> Seq(Message)]
    <3>1. a \o b \in Seq(Message)
      BY <2>3
    <3> QED BY <1>4, <2>4, <3>1
  <2>6. UNCHANGED <<pc, liveNodes, liveNodesConsistent, idVars, computationID>>
    BY <1>6 DEF ReceiveInstanceAnnouncement
  <2> QED BY <1>0, <2>2, <2>5, <2>6 DEF DataType, idVars, SeekersHaveFile
<1>7. CASE ReceiveFreeID(m)
  <2>1. msg(m).slotA \in ID
    <3>1. msg(m).type = "FREE_ID_SEARCH"
      BY <1>7 DEF ReceiveFreeID, Arrives
    <3> QED BY <1>2, <3>1, Fields
  <2>2. freeID(msg(m).slotA) \in ID
    BY <2>1, MembershipAssumption DEF freeID, ID
  <2>3. maxID' \in [Node -> ID]
    BY <1>0, <1>2, <1>7, <2>2 DEF ReceiveFreeID, DataType
  <2>4. SeekersHaveFile'
    BY <1>0, <1>2, <1>7 DEF ReceiveFreeID, SeekersHaveFile
  <2>5. sendQueue' \in [Node -> Seq(Message)]
    <3>1. <<>> \in Seq(Message)
      OBVIOUS
    <3> QED BY <1>4, <1>7, <3>1 DEF ReceiveFreeID
  <2> QED BY <1>0, <1>7, <2>3, <2>4, <2>5 DEF ReceiveFreeID, DataType
<1>8. CASE ReceiveSearch(m)
  <2> DEFINE s == msg(m).sourceNode
             held == pc[r] \in {"asleep", "woken"} /\ r > s
             a == IF held THEN <<>> ELSE <<FreeIDSearch(s, raised(r, msg(m).slotA))>>
  <2>1. msg(m).slotA \in ID
    <3>1. msg(m).type = "FREE_ID_SEARCH"
      BY <1>8 DEF ReceiveSearch, Arrives
    <3> QED BY <1>2, <3>1, Fields
  <2>2. raised(r, msg(m).slotA) \in ID
    <3>1. maxID[r] \in ID
      BY <1>0, <1>2 DEF DataType
    <3> QED BY <2>1, <3>1 DEF raised
  <2>3. a \in Seq(Message) /\ Further(m, liveNodes[r]) \in Seq(Message)
    <3>1. FreeIDSearch(s, raised(r, msg(m).slotA)) \in Message
      BY <1>2, <2>2 DEF FreeIDSearch, Message
    <3> QED BY <1>3, <3>1
  <2>4. /\ Handled(m, a \o Further(m, liveNodes[r]))
        /\ idSearchColisionQueue' = [idSearchColisionQueue EXCEPT ![r] = IF held THEN Append(@, s) ELSE @]
    BY <1>8 DEF ReceiveSearch
  <2>5. idSearchColisionQueue' \in [Node -> Seq(Node)]
    <3>1. idSearchColisionQueue[r] \in Seq(Node) /\ s \in Node
      BY <1>0, <1>2 DEF DataType
    <3>2. (IF held THEN Append(idSearchColisionQueue[r], s) ELSE idSearchColisionQueue[r]) \in Seq(Node)
      BY <3>1
    <3> QED BY <1>0, <2>4, <3>2 DEF DataType
  <2> HIDE DEF a
  <2>6. sendQueue' \in [Node -> Seq(Message)]
    <3>1. a \o Further(m, liveNodes[r]) \in Seq(Message)
      BY <2>3
    <3> QED BY <1>4, <2>4, <3>1
  <2>7. UNCHANGED <<pc, liveNodes, liveNodesConsistent, data, maxID, computationID>>
    BY <1>8 DEF ReceiveSearch
  <2> QED BY <1>0, <2>5, <2>6, <2>7 DEF DataType, SeekersHaveFile
<1> QED BY <1>5, <1>6, <1>7, <1>8 DEF Deliver

LEMMA TypeInvStep == TypeInv /\ [Next]_vars => TypeInv'
<1> SUFFICES ASSUME TypeInv, [Next]_vars
             PROVE  TypeInv'
  OBVIOUS
<1>1. RingInv'
  BY RingInvStep DEF TypeInv
<1>2. DataType' /\ SeekersHaveFile' /\ RightInside'
  <2>0. DataType
    BY TypeParts DEF TypeInv
  <2>1. CASE UNCHANGED vars
    BY <2>0, <2>1 DEF vars, netVars, idVars, TypeInv, DataType, SeekersHaveFile, RightInside, Members
  <2>2. ASSUME NEW n \in Node, (MainStep(n) /\ ~BuildNetAndRequestData(n)) \/ Deliver(n)
        PROVE  DataType' /\ SeekersHaveFile' /\ RightInside'
    <3>1. UNCHANGED netVars /\ \A k \in Node : pc'[k] = "off" <=> pc[k] = "off"
      BY <2>2, OtherStep DEF TypeInv, RingInv
    <3>2. RightInside'
      BY <3>1 DEF netVars, TypeInv, RightInside, Members
    <3> QED BY <2>2, <3>2, MainType, DeliverType
  <2>3. CASE Next
    <3>1. PICK n \in Node :
            createSingleNodeNetwork(n) \/ (\E r \in Node : Connect(n, r)) \/ MainStep(n) \/ Deliver(n)
      BY <2>3 DEF Next
    <3> QED BY <2>2, <3>1, StartType
  <2> QED BY <2>1, <2>3
<1>3. TypeOK'
  BY <1>1, <1>2, TypeParts DEF RingInv, TypeOK, LinkType, DataType
<1> QED BY <1>1, <1>2, <1>3 DEF TypeInv

\* The state of the nodes that join keeps its type, wherever they join.
THEOREM TypeCorrect == Spec => []TypeOK
<1>1. TypeInv => TypeOK
  BY DEF TypeInv
<1> QED BY TypeInvInit, TypeInvStep, <1>1, PTL DEF Spec

-----------------------------------------------------------------------------
(***************************************************************************)
(* The inductive invariant, where nodes join a ring that rests              *)
(*                                                                         *)
(* A node n that joins gets all that its left neighbour l knows; whatever  *)
(* of this is still under way is sent by l in the name of n (Carry), and   *)
(* the instance with the order to resume (Res) is the last of it.  Only    *)
(* then does n announce itself (Own), and its announcement goes round all  *)
(* nodes.  A node that joins meanwhile behind the announcement is told by  *)
(* a left neighbour that the announcement has passed; one that joins       *)
(* before it is met by it.  So when the announcement is back at n, every   *)
(* other node knows n or is about to be told.                              *)
(***************************************************************************)
Occurs(y, s) == \E i \in DOMAIN s : s[i] = y

Resting(n) == pc[n] \notin {"off", "connected", "started", "init"}

\* The first node is never announced: whoever joins is told of it.
Settled(n) == liveNodesConsistent[n] \/ (n = First /\ Resting(n))

Own(n, y) == y.type = "NODE_ANNOUNCEMENT" /\ y.sourceNode = n /\ n \in y.nodes

Carry(n, y) == y.type = "NODE_ANNOUNCEMENT" /\ y.sourceNode = n /\ n \notin y.nodes

Res(n, y) == y.type = "INSTANCE_ANNOUNCEMENT" /\ y.sourceNode = n /\ y.resume

FirstAlone ==
  /\ pc[First] \notin {"connected", "init"}
  /\ pc[First] = "started" => Members = {First}

LeftRests ==
  \A n \in Node : pc[n] \in {"connected", "started", "init"} /\ n # First => Resting(leftID[n])

RestersSettled == \A n \in Node : Resting(n) => Settled(n)

\* Nobody speaks or knows of a node whose start() is not over.
OutsidersUnknown ==
  \A n \in Node \ Started :
    /\ sendQueue[n] = <<>> /\ ~liveNodesConsistent[n]
    /\ \A k \in Node :
         /\ n \notin liveNodes[k]
         /\ \A y : Occurs(y, sendQueue[k]) =>
              /\ ~Res(n, y)
              /\ y.type = "NODE_ANNOUNCEMENT" => n # y.sourceNode /\ n \notin y.nodes

\* What the left neighbour tells a new node comes before its own announcement.
TalesPlaced ==
  \A n, k \in Node : \A y : Occurs(y, sendQueue[k]) /\ (Carry(n, y) \/ Res(n, y)) =>
    /\ k = leftID[n] /\ n # First
    /\ pc[n] \in {"started", "init"} /\ ~liveNodesConsistent[n]
    /\ \A j \in Node : \A z : Occurs(z, sendQueue[j]) => ~Own(n, z)

\* The order to resume comes last, and once.
Ordered(n, s) ==
  \A i, j \in DOMAIN s : Res(n, s[i]) /\ (Carry(n, s[j]) \/ Res(n, s[j])) => j <= i

TalesOrdered == \A n, k \in Node : Ordered(n, sendQueue[k])

\* The nodes of F are those from the one after p to b.
Stretch(F, p, b) ==
  /\ rightID[p] \in F /\ b \in F
  /\ \A x \in F \ {b} : x # p /\ rightID[x] \in F

\* n knows m or is about to be told.
Informed(n, m) ==
  \/ m \in liveNodes[n]
  \/ \E k \in Node : \E y : Occurs(y, sendQueue[k]) /\ Carry(n, y) /\ m \in y.nodes

\* The announcement of b has passed all nodes but some ahead of it.
Passed(p, b) ==
  \E F \in SUBSET Started : Stretch(F, p, b) /\ \A n \in Started \ F : Informed(n, b)

AnnouncementsPass == \A b, p \in Node : \A y : Occurs(y, sendQueue[p]) /\ Own(b, y) => Passed(p, b)

SettledKnown == \A m \in Node : Settled(m) => \A n \in Started : Informed(n, m)

\* The announcement of a node is under way, or will be.
AnnouncementComes ==
  \A n \in Started :
    \/ Settled(n) \/ n = First
    \/ \E k \in Node : \E y : Occurs(y, sendQueue[k]) /\ (Res(n, y) \/ Own(n, y))

DataAtLeft == \A n \in Node : pc[n] = "connected" => DOMAIN data[leftID[n]] # {}

JoinInv ==
  /\ TypeInv
  /\ DataAtLeft
  /\ AnnouncementComes
  /\ LeftRing(Started, rightID)
  /\ FirstAlone
  /\ LeftRests
  /\ RestersSettled
  /\ OutsidersUnknown
  /\ TalesPlaced
  /\ TalesOrdered
  /\ AnnouncementsPass
  /\ SettledKnown

LEMMA JoinInvKnown == JoinInv => NobodyTakenForDead
<1> SUFFICES ASSUME JoinInv, NEW m \in Node, NEW n \in Node,
                    liveNodesConsistent[m], liveNodesConsistent[n]
             PROVE  m \in liveNodes[n]
  BY DEF NobodyTakenForDead
<1>1. n \in Started
  BY DEF JoinInv, OutsidersUnknown
<1>2. Informed(n, m)
  BY <1>1 DEF JoinInv, SettledKnown, Settled
<1> QED BY <1>2 DEF Informed, JoinInv, TalesPlaced

\* What no node is told of any more, all know.
LEMMA JoinInvQuiet == JoinInv => QuietNodesAgree
<1> SUFFICES ASSUME JoinInv, Quiet, NEW m \in Started, NEW n \in Started
             PROVE  liveNodes[m] = liveNodes[n]
  BY DEF QuietNodesAgree
<1>1. \A k \in Node : \A y : ~Occurs(y, sendQueue[k])
  BY DEF Quiet, Occurs
<1>2. CASE pc[First] = "started"
  <2>1. Members = {First}
    BY <1>2 DEF JoinInv, FirstAlone
  <2> QED BY <2>1 DEF Members, Started
<1>3. CASE pc[First] # "started"
  <2>1. ASSUME NEW k \in Started
        PROVE  Settled(k)
    <3>1. k \in Node /\ (k = First => Resting(k))
      BY <1>3 DEF Started, Resting, JoinInv, FirstAlone
    <3> QED BY <1>1, <3>1 DEF JoinInv, AnnouncementComes, Settled
  <2>2. ASSUME NEW k \in Started
        PROVE  liveNodes[k] = Started
    <3>1. k \in Node /\ liveNodes[k] \in SUBSET Node
      BY DEF Started, JoinInv, TypeInv, TypeOK
    <3>2. liveNodes[k] \subseteq Started
      BY <3>1 DEF JoinInv, OutsidersUnknown
    <3>3. ASSUME NEW i \in Started
          PROVE  i \in liveNodes[k]
      <4>1. Informed(k, i)
        BY <2>1 DEF JoinInv, SettledKnown, Started
      <4> QED BY <1>1, <4>1 DEF Informed
    <3> QED BY <3>2, <3>3
  <2> QED BY <2>2
<1> QED BY <1>2, <1>3

LEMMA JoinInvInit == Init => JoinInv
<1> SUFFICES ASSUME Init
             PROVE  JoinInv
  OBVIOUS
<1>1. First \in Node
  BY MembershipAssumption
<1>2. Started = {} /\ Members = {}
  BY DEF Init, Started, Members
<1>3. \A n \in Node : sendQueue[n] = <<>> /\ ~liveNodesConsistent[n] /\ liveNodes[n] = {} /\ pc[n] = "off"
  BY DEF Init
<1>4. \A n \in Node : \A y : ~Occurs(y, sendQueue[n])
  BY <1>3 DEF Occurs
<1>5. LeftRing(Started, rightID)
  BY <1>2 DEF LeftRing
<1>6. TalesOrdered
  BY <1>3 DEF TalesOrdered, Ordered
<1>7. \A n \in Node : ~Resting(n) /\ ~Settled(n)
  BY <1>3 DEF Resting, Settled
<1>8. FirstAlone /\ LeftRests /\ RestersSettled
  BY <1>1, <1>3, <1>7 DEF FirstAlone, LeftRests, RestersSettled
<1>9. OutsidersUnknown
  BY <1>3, <1>4 DEF OutsidersUnknown
<1>10. TalesPlaced /\ AnnouncementsPass /\ SettledKnown
  BY <1>4, <1>7 DEF TalesPlaced, AnnouncementsPass, SettledKnown
<1>11. DataAtLeft /\ AnnouncementComes
  BY <1>2, <1>3 DEF DataAtLeft, AnnouncementComes
<1> QED BY TypeInvInit, <1>5, <1>6, <1>8, <1>9, <1>10, <1>11 DEF JoinInv

-----------------------------------------------------------------------------
(***************************************************************************)
(* What becomes of queued messages                                         *)
(***************************************************************************)
LEMMA OccursAppended ==
  ASSUME NEW S, NEW s \in Seq(S), NEW t \in Seq(S), NEW y
  PROVE  Occurs(y, s \o t) <=> Occurs(y, s) \/ Occurs(y, t)
<1>1. ASSUME Occurs(y, s \o t) PROVE Occurs(y, s) \/ Occurs(y, t)
  <2>1. PICK i \in 1..(Len(s) + Len(t)) : (s \o t)[i] = y
    BY <1>1 DEF Occurs
  <2>2. CASE i <= Len(s)
    BY <2>1, <2>2 DEF Occurs
  <2>3. CASE i > Len(s)
    <3>1. i - Len(s) \in DOMAIN t /\ t[i - Len(s)] = y
      BY <2>1, <2>3
    <3> QED BY <3>1 DEF Occurs
  <2> QED BY <2>1, <2>2, <2>3
<1>2. ASSUME Occurs(y, s) PROVE Occurs(y, s \o t)
  BY <1>2 DEF Occurs
<1>3. ASSUME Occurs(y, t) PROVE Occurs(y, s \o t)
  <2>1. PICK i \in 1..Len(t) : t[i] = y
    BY <1>3 DEF Occurs
  <2>2. i + Len(s) \in DOMAIN (s \o t) /\ (s \o t)[i + Len(s)] = y
    BY <2>1
  <2> QED BY <2>2 DEF Occurs
<1> QED BY <1>1, <1>2, <1>3

LEMMA OccursTail ==
  ASSUME NEW S, NEW s \in Seq(S), s # <<>>, NEW y
  PROVE  Occurs(y, s) <=> y = Head(s) \/ Occurs(y, Tail(s))
<1>1. ASSUME Occurs(y, s), y # Head(s) PROVE Occurs(y, Tail(s))
  <2>1. PICK i \in 1..Len(s) : s[i] = y
    BY <1>1 DEF Occurs
  <2>2. i - 1 \in DOMAIN Tail(s) /\ Tail(s)[i - 1] = y
    BY <1>1, <2>1
  <2> QED BY <2>2 DEF Occurs
<1>2. ASSUME Occurs(y, Tail(s)) PROVE Occurs(y, s)
  <2>1. PICK i \in 1..(Len(s) - 1) : Tail(s)[i] = y
    BY <1>2 DEF Occurs
  <2>2. i + 1 \in DOMAIN s /\ s[i + 1] = y
    BY <2>1
  <2> QED BY <2>2 DEF Occurs
<1>3. ASSUME y = Head(s) PROVE Occurs(y, s)
  <2>1. 1 \in DOMAIN s /\ s[1] = y
    BY <1>3
  <2> QED BY <2>1 DEF Occurs
<1> QED BY <1>1, <1>2, <1>3

LEMMA OccursOnce ==
  ASSUME NEW x, NEW y
  PROVE  /\ Occurs(y, <<x>>) <=> y = x
         /\ ~Occurs(y, <<>>)
BY DEF Occurs

\* A node hears nothing more in its name after the order to resume.
LEMMA OrderedTail ==
  ASSUME NEW n, NEW S, NEW s \in Seq(S), s # <<>>, Ordered(n, s)
  PROVE  /\ Ordered(n, Tail(s))
         /\ Res(n, Head(s)) => \A y : Occurs(y, Tail(s)) => ~Carry(n, y) /\ ~Res(n, y)
<1>1. \A i \in DOMAIN Tail(s) : i \in Nat /\ i # 0 /\ i + 1 \in DOMAIN s /\ Tail(s)[i] = s[i + 1]
  OBVIOUS
<1>2. 1 \in DOMAIN s /\ s[1] = Head(s)
  OBVIOUS
<1>3. ASSUME NEW i \in DOMAIN Tail(s), NEW j \in DOMAIN Tail(s), Res(n, Tail(s)[i]),
             Carry(n, Tail(s)[j]) \/ Res(n, Tail(s)[j])
      PROVE  j <= i
  <2>1. j + 1 <= i + 1
    BY <1>1, <1>3 DEF Ordered
  <2> QED BY <1>1, <2>1
<1>4. ASSUME Res(n, Head(s)), NEW y, Occurs(y, Tail(s)), Carry(n, y) \/ Res(n, y)
      PROVE  FALSE
  <2>1. PICK j \in DOMAIN Tail(s) : Tail(s)[j] = y
    BY <1>4 DEF Occurs
  <2>2. j + 1 <= 1
    BY <1>1, <1>2, <1>4, <2>1 DEF Ordered
  <2> QED BY <1>1, <2>1, <2>2
<1> QED BY <1>3, <1>4 DEF Ordered

LEMMA OrderedAppended ==
  ASSUME NEW n, NEW S, NEW s \in Seq(S), NEW t \in Seq(S),
         \/ Ordered(n, s) /\ \A y : Occurs(y, t) => ~Carry(n, y) /\ ~Res(n, y)
         \/ Ordered(n, t) /\ \A y : Occurs(y, s) => ~Carry(n, y) /\ ~Res(n, y)
  PROVE  Ordered(n, s \o t)
<1> DEFINE u == s \o t
<1>1. \A i \in DOMAIN u : /\ i \in Nat /\ Len(s) \in Nat
                          /\ i <= Len(s) => i \in DOMAIN s /\ u[i] = s[i]
                          /\ i > Len(s) => i - Len(s) \in DOMAIN t /\ u[i] = t[i - Len(s)]
  OBVIOUS
<1> HIDE DEF u
<1>2. SUFFICES ASSUME NEW i \in DOMAIN u, NEW j \in DOMAIN u, Res(n, u[i]), Carry(n, u[j]) \/ Res(n, u[j])
               PROVE  j <= i
  BY DEF Ordered, u
<1>3. CASE Ordered(n, s) /\ \A y : Occurs(y, t) => ~Carry(n, y) /\ ~Res(n, y)
  <2>1. i <= Len(s) /\ j <= Len(s)
    BY <1>1, <1>2, <1>3 DEF Occurs
  <2> QED BY <1>1, <1>2, <1>3, <2>1 DEF Ordered
<1>4. CASE Ordered(n, t) /\ \A y : Occurs(y, s) => ~Carry(n, y) /\ ~Res(n, y)
  <2>1. i > Len(s) /\ j > Len(s)
    BY <1>1, <1>2, <1>4 DEF Occurs
  <2>2. j - Len(s) <= i - Len(s)
    BY <1>1, <1>2, <1>4, <2>1 DEF Ordered
  <2> QED BY <1>1, <2>1, <2>2
<1> QED BY <1>3, <1>4

\* A queue that grows.
LEMMA QueuesGrow ==
  ASSUME TypeOK, NEW k \in Node, NEW msgs \in Seq(Message), Send(k, msgs)
  PROVE  \A n \in Node : \A y :
           Occurs(y, sendQueue'[n]) <=> Occurs(y, sendQueue[n]) \/ (n = k /\ Occurs(y, msgs))
<1> SUFFICES ASSUME NEW n \in Node, NEW y
             PROVE  Occurs(y, sendQueue'[n]) <=> Occurs(y, sendQueue[n]) \/ (n = k /\ Occurs(y, msgs))
  OBVIOUS
<1>1. sendQueue[n] \in Seq(Message)
  BY DEF TypeOK
<1>2. CASE n = k
  <2>1. sendQueue'[n] = sendQueue[n] \o msgs
    BY <1>2, SendType
  <2>2. Occurs(y, sendQueue[n] \o msgs) <=> Occurs(y, sendQueue[n]) \/ Occurs(y, msgs)
    BY <1>1, OccursAppended
  <2> QED BY <1>2, <2>1, <2>2
<1>3. CASE n # k
  BY <1>3, SendType
<1> QED BY <1>2, <1>3

\* What is left of the queue of k when the first message of m is handled.
Rest(k, m) == IF k = m THEN Tail(sendQueue[k]) ELSE sendQueue[k]

LEMMA QueuesMove ==
  ASSUME TypeOK, NEW m \in Node, sendQueue[m] # <<>>, NEW msgs \in Seq(Message), Handled(m, msgs)
  PROVE  \A k \in Node :
           /\ Rest(k, m) \in Seq(Message)
           /\ \A y : /\ Occurs(y, sendQueue[k]) <=> Occurs(y, Rest(k, m)) \/ (k = m /\ y = msg(m))
                     /\ Occurs(y, sendQueue'[k]) <=>
                          Occurs(y, Rest(k, m)) \/ (k = rightID[m] /\ Occurs(y, msgs))
           /\ \A n : Ordered(n, sendQueue[k]) => Ordered(n, Rest(k, m))
           /\ \A n : Ordered(n, Rest(k, m)) /\ (\A y : Occurs(y, msgs) => ~Carry(n, y) /\ ~Res(n, y)) =>
                Ordered(n, sendQueue'[k])
<1> SUFFICES ASSUME NEW k \in Node
             PROVE  /\ Rest(k, m) \in Seq(Message)
                    /\ \A y : /\ Occurs(y, sendQueue[k]) <=> Occurs(y, Rest(k, m)) \/ (k = m /\ y = msg(m))
                              /\ Occurs(y, sendQueue'[k]) <=>
                                   Occurs(y, Rest(k, m)) \/ (k = rightID[m] /\ Occurs(y, msgs))
                    /\ \A n : Ordered(n, sendQueue[k]) => Ordered(n, Rest(k, m))
                    /\ \A n : Ordered(n, Rest(k, m)) /\ (\A y : Occurs(y, msgs) => ~Carry(n, y) /\ ~Res(n, y)) =>
                         Ordered(n, sendQueue'[k])
  OBVIOUS
<1> DEFINE t == IF k = rightID[m] THEN msgs ELSE <<>>
<1>1. sendQueue[k] \in Seq(Message)
  BY DEF TypeOK
<1>2. Rest(k, m) \in Seq(Message) /\ t \in Seq(Message)
  BY <1>1 DEF Rest
<1>3. sendQueue'[k] = Rest(k, m) \o t
  BY HandledType DEF Rest
<1>4. \A y : Occurs(y, t) <=> k = rightID[m] /\ Occurs(y, msgs)
  BY OccursOnce
<1> HIDE DEF t
<1>5. \A y : Occurs(y, sendQueue'[k]) <=> Occurs(y, Rest(k, m)) \/ Occurs(y, t)
  BY <1>2, <1>3, OccursAppended
<1>6. \A y : Occurs(y, sendQueue[k]) <=> Occurs(y, Rest(k, m)) \/ (k = m /\ y = msg(m))
  BY <1>1, OccursTail DEF Rest, msg
<1>7. \A n : Ordered(n, sendQueue[k]) => Ordered(n, Rest(k, m))
  BY <1>1, OrderedTail DEF Rest
<1>8. ASSUME NEW n, Ordered(n, Rest(k, m)), \A y : Occurs(y, msgs) => ~Carry(n, y) /\ ~Res(n, y)
      PROVE  Ordered(n, sendQueue'[k])
  <2>1. \A y : Occurs(y, t) => ~Carry(n, y) /\ ~Res(n, y)
    BY <1>4, <1>8
  <2> QED BY <1>2, <1>3, <1>8, <2>1, OrderedAppended
<1> QED BY <1>2, <1>4, <1>5, <1>6, <1>7, <1>8

-----------------------------------------------------------------------------
(***************************************************************************)
(* The steps                                                               *)
(***************************************************************************)
\* What speaks of nodes.
Tells(y) == y.type = "NODE_ANNOUNCEMENT" \/ (y.type = "INSTANCE_ANNOUNCEMENT" /\ y.resume)

LEMMA TellsAll ==
  ASSUME NEW n, NEW y, Own(n, y) \/ Carry(n, y) \/ Res(n, y)
  PROVE  Tells(y)
BY DEF Tells, Own, Carry, Res

\* Where the main thread of k goes when its node does not settle.
Onward(k) ==
  \/ pc'[k] = pc[k]
  \/ Resting(k) /\ pc'[k] \in PC \ {"off", "connected", "started", "init"}
  \/ pc[k] = "started" /\ pc'[k] = "init" /\ k # First

QuietStep ==
  /\ UNCHANGED <<netVars, liveNodes, liveNodesConsistent>>
  /\ \A k \in Node : Onward(k)
  /\ \A k \in Node : \A y : Tells(y) => (Occurs(y, sendQueue'[k]) <=> Occurs(y, sendQueue[k]))
  /\ \A n, k \in Node : Ordered(n, sendQueue'[k])
  /\ \A k \in Node \ Started : sendQueue'[k] = <<>>

\* The nodes that know, or are about to be told, are so still.
LEMMA InformedStays ==
  ASSUME NEW n \in Node, NEW m, Informed(n, m), liveNodes[n] \subseteq liveNodes'[n],
         \A k \in Node : \A y : Occurs(y, sendQueue[k]) /\ Carry(n, y) =>
            Occurs(y, sendQueue'[k]) \/ y.nodes \subseteq liveNodes'[n]
  PROVE  Informed(n, m)'
BY DEF Informed, Carry

\* Nothing that speaks of nodes comes or goes.
LEMMA QuietKeeps ==
  ASSUME JoinInv, TypeInv', DataAtLeft', QuietStep
  PROVE  JoinInv'
<1>0. /\ First \in Node /\ \A n : liveNodes'[n] = liveNodes[n] /\ leftID' = leftID /\ rightID' = rightID
      /\ liveNodesConsistent' = liveNodesConsistent
  BY MembershipAssumption DEF QuietStep, netVars
<1>1. \A k \in Node : /\ Resting(k)' <=> Resting(k)
                      /\ pc'[k] = "off" <=> pc[k] = "off"
                      /\ pc'[k] = "connected" <=> pc[k] = "connected"
                      /\ pc'[k] \in {"started", "init"} <=> pc[k] \in {"started", "init"}
                      /\ k = First => (pc'[k] = "started" <=> pc[k] = "started")
                      /\ k = First => (pc'[k] = "init" <=> pc[k] = "init")
                      /\ Settled(k)' <=> Settled(k)
  <2> SUFFICES ASSUME NEW k \in Node
               PROVE  /\ Resting(k)' <=> Resting(k)
                      /\ pc'[k] = "off" <=> pc[k] = "off"
                      /\ pc'[k] = "connected" <=> pc[k] = "connected"
                      /\ pc'[k] \in {"started", "init"} <=> pc[k] \in {"started", "init"}
                      /\ k = First => (pc'[k] = "started" <=> pc[k] = "started")
                      /\ k = First => (pc'[k] = "init" <=> pc[k] = "init")
                      /\ Settled(k)' <=> Settled(k)
    OBVIOUS
  <2>1. Onward(k)
    BY DEF QuietStep
  <2>2. Resting(k)' <=> Resting(k)
    BY <2>1 DEF Onward, Resting
  <2> QED BY <1>0, <2>1, <2>2 DEF Onward, Settled, Resting
<1>2. Started' = Started /\ Members' = Members
  BY <1>1 DEF Started, Members
<1>3. \A k \in Node : \A y : Tells(y) => (Occurs(y, sendQueue'[k]) <=> Occurs(y, sendQueue[k]))
  BY DEF QuietStep
<1>4. \A n, k \in Node : \A y : Own(n, y) \/ Carry(n, y) \/ Res(n, y) =>
        (Occurs(y, sendQueue'[k]) <=> Occurs(y, sendQueue[k]))
  BY <1>3, TellsAll
<1>5. LeftRing(Started, rightID)'
  BY <1>0, <1>2 DEF JoinInv
<1>6. FirstAlone' /\ RestersSettled'
  BY <1>0, <1>1, <1>2 DEF JoinInv, FirstAlone, RestersSettled
<1>7. LeftRests'
  <2> SUFFICES ASSUME NEW n \in Node, pc'[n] \in {"connected", "started", "init"}, n # First
               PROVE  pc'[leftID'[n]] \notin {"off", "connected", "started", "init"}
    BY DEF LeftRests, Resting
  <2>1. pc[n] \in {"connected", "started", "init"}
    BY <1>1
  <2>2. Resting(leftID[n]) /\ n \in Members
    BY <2>1 DEF JoinInv, LeftRests, Members
  <2>3. leftID[n] \in Node
    BY <2>2 DEF JoinInv, TypeInv, RingInv, LeftRing, Members
  <2> QED BY <1>0, <1>1, <2>2, <2>3 DEF Resting
<1>8. OutsidersUnknown'
  <2> SUFFICES ASSUME NEW n \in Node \ Started
               PROVE  /\ sendQueue'[n] = <<>> /\ ~liveNodesConsistent'[n]
                      /\ \A k \in Node :
                           /\ n \notin liveNodes'[k]
                           /\ \A y : Occurs(y, sendQueue'[k]) =>
                                /\ ~Res(n, y)
                                /\ y.type = "NODE_ANNOUNCEMENT" => n # y.sourceNode /\ n \notin y.nodes
    BY <1>2 DEF OutsidersUnknown, Res
  <2>1. \A y : Res(n, y) \/ y.type = "NODE_ANNOUNCEMENT" => Tells(y)
    BY DEF Res, Tells
  <2> QED BY <1>0, <1>3, <2>1 DEF JoinInv, OutsidersUnknown, QuietStep
<1>9. TalesPlaced'
  BY <1>0, <1>1, <1>4 DEF JoinInv, TalesPlaced, Own, Carry, Res
<1>10. TalesOrdered'
  BY DEF QuietStep, TalesOrdered, Ordered, Carry, Res
<1>11. \A n \in Node : \A m : Informed(n, m) => Informed(n, m)'
  BY <1>0, <1>4, InformedStays
<1>12. AnnouncementsPass'
  <2> SUFFICES ASSUME NEW b \in Node, NEW p \in Node, NEW y, Occurs(y, sendQueue'[p]), Own(b, y)
               PROVE  Passed(p, b)'
    BY DEF AnnouncementsPass, Own
  <2>1. Passed(p, b)
    BY <1>4 DEF JoinInv, AnnouncementsPass
  <2>2. PICK F \in SUBSET Started : Stretch(F, p, b) /\ \A n \in Started \ F : Informed(n, b)
    BY <2>1 DEF Passed
  <2>3. Stretch(F, p, b)'
    BY <1>0, <2>2 DEF Stretch
  <2>4. \A n \in Started \ F : Informed(n, b)'
    BY <1>11, <2>2 DEF Started
  <2> QED BY <1>2, <2>2, <2>3, <2>4 DEF Passed
<1>13. SettledKnown'
  <2> SUFFICES ASSUME NEW m \in Node, Settled(m)', NEW n \in Started
               PROVE  Informed(n, m)'
    BY <1>2 DEF SettledKnown
  <2>1. Informed(n, m)
    BY <1>1 DEF JoinInv, SettledKnown
  <2> QED BY <1>11, <2>1 DEF Started
<1>14. AnnouncementComes'
  <2> SUFFICES ASSUME NEW n \in Started, ~Settled(n)', n # First
               PROVE  \E k \in Node : \E y : Occurs(y, sendQueue'[k]) /\ (Res(n, y) \/ Own(n, y))
    BY <1>2 DEF AnnouncementComes, Res, Own
  <2>1. n \in Node /\ ~Settled(n)
    BY <1>1 DEF Started
  <2>2. \E k \in Node : \E y : Occurs(y, sendQueue[k]) /\ (Res(n, y) \/ Own(n, y))
    BY <2>1 DEF JoinInv, AnnouncementComes
  <2> QED BY <1>4, <2>1, <2>2
<1> QED BY <1>5, <1>6, <1>7, <1>8, <1>9, <1>10, <1>12, <1>13, <1>14 DEF JoinInv

\* Nothing that speaks of nodes is sent or received.
QueuesQuiet ==
  /\ \A k \in Node : \A y : Tells(y) => (Occurs(y, sendQueue'[k]) <=> Occurs(y, sendQueue[k]))
  /\ \A n, k \in Node : Ordered(n, sendQueue'[k])
  /\ \A k \in Node \ Started : sendQueue'[k] = <<>>

LEMMA SendQuiet ==
  ASSUME JoinInv, NEW n \in Started, NEW msgs \in Seq(Message), Send(n, msgs),
         \A y : Occurs(y, msgs) => ~Tells(y)
  PROVE  QueuesQuiet
<1>0. n \in Node /\ TypeOK
  BY DEF Started, JoinInv, TypeInv
<1>1. \A k \in Node : \A y :
        Occurs(y, sendQueue'[k]) <=> Occurs(y, sendQueue[k]) \/ (k = n /\ Occurs(y, msgs))
  BY <1>0, QueuesGrow
<1>2. ASSUME NEW i \in Node, NEW k \in Node
      PROVE  Ordered(i, sendQueue'[k])
  <2>1. Ordered(i, sendQueue[k]) /\ sendQueue[k] \in Seq(Message)
    BY <1>0 DEF JoinInv, TalesOrdered, TypeOK
  <2>2. CASE k = n
    <3>1. \A y : Occurs(y, msgs) => ~Carry(i, y) /\ ~Res(i, y)
      BY TellsAll
    <3>2. sendQueue'[k] = sendQueue[k] \o msgs
      BY <1>0, <2>2, SendType
    <3> QED BY <2>1, <3>1, <3>2, OrderedAppended
  <2>3. CASE k # n
    <3>1. sendQueue'[k] = sendQueue[k]
      BY <1>0, <2>3, SendType
    <3> QED BY <2>1, <3>1
  <2> QED BY <2>2, <2>3
<1>3. \A k \in Node \ Started : sendQueue'[k] = <<>>
  BY <1>0, SendType DEF JoinInv, OutsidersUnknown
<1> QED BY <1>1, <1>2, <1>3 DEF QueuesQuiet

\* Where a message arrives.
LEMMA ArrivesStarted ==
  ASSUME JoinInv, NEW m \in Node, NEW type, Arrives(m, type)
  PROVE  /\ m \in Started /\ rightID[m] \in Started /\ rightID[m] \in Node
         /\ TypeOK /\ sendQueue[m] # <<>> /\ msg(m) \in Message /\ msg(m).type = type
         /\ Occurs(msg(m), sendQueue[m])
<1>1. m \in Started /\ sendQueue[m] # <<>> /\ msg(m) \in Message /\ msg(m).type = type
  BY ArrivesType DEF JoinInv
<1>2. rightID[m] \in Started /\ rightID[m] \in Node
  BY <1>1 DEF JoinInv, LeftRing, Started
<1>3. TypeOK /\ sendQueue[m] \in Seq(Message)
  BY DEF JoinInv, TypeInv, TypeOK
<1>4. Occurs(msg(m), sendQueue[m])
  BY <1>1, <1>3, OccursTail DEF msg
<1> QED BY <1>1, <1>2, <1>3, <1>4

\* The queue of a node that takes no part stays empty.
LEMMA HandledOutside ==
  ASSUME JoinInv, NEW m \in Node, NEW type, Arrives(m, type), NEW msgs \in Seq(Message), Handled(m, msgs)
  PROVE  \A k \in Node \ Started : sendQueue'[k] = <<>>
<1> SUFFICES ASSUME NEW k \in Node \ Started
             PROVE  sendQueue'[k] = <<>>
  OBVIOUS
<1>1. k # m /\ k # rightID[m] /\ sendQueue[k] = <<>>
  BY ArrivesStarted DEF JoinInv, OutsidersUnknown
<1>2. sendQueue'[k] = sendQueue[k] \o <<>>
  BY <1>1, ArrivesStarted, HandledType
<1> QED BY <1>1, <1>2

LEMMA HandledQuiet ==
  ASSUME JoinInv, NEW m \in Node, NEW type, Arrives(m, type), NEW msgs \in Seq(Message), Handled(m, msgs),
         ~Tells(msg(m)), \A y : Occurs(y, msgs) => ~Tells(y)
  PROVE  QueuesQuiet
<1>0. TypeOK /\ sendQueue[m] # <<>>
  BY ArrivesStarted
<1>1. \A k \in Node : \A y :
        /\ Occurs(y, sendQueue[k]) <=> Occurs(y, Rest(k, m)) \/ (k = m /\ y = msg(m))
        /\ Occurs(y, sendQueue'[k]) <=> Occurs(y, Rest(k, m)) \/ (k = rightID[m] /\ Occurs(y, msgs))
  BY <1>0, QueuesMove
<1>2. ASSUME NEW i \in Node, NEW k \in Node
      PROVE  Ordered(i, sendQueue'[k])
  <2>1. Ordered(i, Rest(k, m))
    BY <1>0, QueuesMove DEF JoinInv, TalesOrdered
  <2>2. \A y : Occurs(y, msgs) => ~Carry(i, y) /\ ~Res(i, y)
    BY TellsAll
  <2> QED BY <1>0, <2>1, <2>2, QueuesMove
<1> QED BY <1>1, <1>2, HandledOutside DEF QueuesQuiet

\* The main thread, but for the end of start() and of the first init().
LEMMA MainQuiet ==
  ASSUME JoinInv, NEW n \in Node, MainStep(n), ~BuildNetAndRequestData(n), ~InitSingle(n)
  PROVE  QuietStep
<1>0. TypeOK /\ pc \in [Node -> PC] /\ First \in Node
  BY MembershipAssumption DEF JoinInv, TypeInv, TypeOK
<1>1. ASSUME UNCHANGED sendQueue
      PROVE  QueuesQuiet
  BY <1>1 DEF QueuesQuiet, JoinInv, TalesOrdered, OutsidersUnknown
<1>2. CASE InitSleep(n)
  <2>1. pc[n] = "started" /\ pc' = [pc EXCEPT ![n] = "init"] /\ leftID[n] # n
    BY <1>2 DEF InitSleep, Goto, isSingle
  <2>2. n # First
    <3>1. SUFFICES ASSUME n = First PROVE FALSE
      OBVIOUS
    <3>2. Members = {n}
      BY <2>1, <3>1 DEF JoinInv, FirstAlone
    <3> QED BY <2>1, <3>2 DEF JoinInv, TypeInv, RingInv, LeftRing
  <2>3. \A k \in Node : Onward(k)
    BY <1>0, <2>1, <2>2 DEF Onward
  <2> QED BY <1>1, <1>2, <2>3 DEF InitSleep, QuietStep, QueuesQuiet
<1>3. ASSUME NEW from, NEW to, Goto(n, from, to),
             {from, to} \subseteq PC \ {"off", "connected", "started", "init"}
      PROVE  n \in Started /\ \A k \in Node : Onward(k)
  BY <1>0, <1>3 DEF Goto, Onward, Resting, Started
<1>4. CASE SearchFreeID(n)
  <2>1. n \in Started /\ \A k \in Node : Onward(k)
    <3>1. Goto(n, "ready", "named") \/ Goto(n, "ready", "searching")
      BY <1>4 DEF SearchFreeID
    <3> QED BY <1>3, <3>1 DEF PC
  <2>2. QueuesQuiet
    <3>1. CASE UNCHANGED sendQueue
      BY <1>1, <3>1
    <3>2. CASE Send(n, <<FreeIDSearch(n, maxID[n])>>)
      <4>1. FreeIDSearch(n, maxID[n]) \in Message /\ ~Tells(FreeIDSearch(n, maxID[n]))
        <5>1. maxID[n] \in ID
          BY <1>0 DEF TypeOK
        <5> QED BY <5>1 DEF FreeIDSearch, Message, Tells
      <4>2. <<FreeIDSearch(n, maxID[n])>> \in Seq(Message)
        BY <4>1, OneMessage
      <4>3. \A y : Occurs(y, <<FreeIDSearch(n, maxID[n])>>) => ~Tells(y)
        BY <4>1, OccursOnce
      <4> QED BY <2>1, <3>2, <4>2, <4>3, SendQuiet
    <3> QED BY <1>4, <3>1, <3>2 DEF SearchFreeID
  <2> QED BY <1>4, <2>1, <2>2 DEF SearchFreeID, QuietStep, QueuesQuiet
<1>5. CASE SleepFreeID(n)
  <2>1. \A k \in Node : Onward(k)
    BY <1>3, <1>5 DEF SleepFreeID, PC
  <2> QED BY <1>1, <1>5, <2>1 DEF SleepFreeID, QuietStep, QueuesQuiet
<1>6. CASE WakeFreeID(n)
  <2>1. n \in Started /\ \A k \in Node : Onward(k)
    BY <1>3, <1>6 DEF WakeFreeID, PC
  <2> DEFINE q == idSearchColisionQueue[n]
             msgs == [i \in DOMAIN q |-> FreeIDSearch(q[i], maxID[n])]
  <2>2. maxID[n] \in ID /\ q \in Seq(Node) /\ Send(n, msgs)
    BY <1>0, <1>6 DEF TypeOK, WakeFreeID
  <2>3. \A i \in DOMAIN q : FreeIDSearch(q[i], maxID[n]) \in Message /\ ~Tells(FreeIDSearch(q[i], maxID[n]))
    BY <2>2 DEF FreeIDSearch, Message, Tells
  <2>4. msgs \in Seq(Message)
    <3>1. Len(q) \in Nat /\ DOMAIN q = 1 .. Len(q)
      BY <2>2
    <3> HIDE DEF q
    <3>2. msgs \in [1 .. Len(q) -> Message]
      BY <2>3, <3>1
    <3> QED BY <3>1, <3>2
  <2>5. \A y : Occurs(y, msgs) => ~Tells(y)
    BY <2>3 DEF Occurs
  <2> HIDE DEF msgs
  <2>6. QueuesQuiet
    BY <2>1, <2>2, <2>4, <2>5, SendQuiet
  <2> QED BY <1>6, <2>1, <2>6 DEF WakeFreeID, QuietStep, QueuesQuiet
<1>7. CASE NewData(n)
  <2>1. n \in Started /\ \A k \in Node : Onward(k)
    BY <1>3, <1>7 DEF NewData, PC
  <2> DEFINE y1 == InstanceAnnouncement(n, computationID[n], n, FALSE)
             msgs == IF isSingle(n) THEN <<>> ELSE <<y1>>
  <2>2. y1 \in Message /\ ~Tells(y1)
    <3>1. n \in WithFile /\ computationID[n] \in ID
      BY <1>0, <1>7 DEF NewData, Goto, JoinInv, TypeInv, SeekersHaveFile, TypeOK
    <3> QED BY <3>1 DEF InstanceAnnouncement, Message, Tells
  <2>3. Send(n, msgs)
    BY <1>7 DEF NewData
  <2> HIDE DEF y1
  <2>4. msgs \in Seq(Message) /\ \A y : Occurs(y, msgs) => ~Tells(y)
    <3>1. <<y1>> \in Seq(Message) /\ <<>> \in Seq(Message)
      BY <2>2, OneMessage
    <3>2. \A y : ~Occurs(y, <<>>) /\ (Occurs(y, <<y1>>) => ~Tells(y))
      BY <2>2, OccursOnce
    <3> QED BY <3>1, <3>2
  <2> HIDE DEF msgs
  <2>5. QueuesQuiet
    BY <2>1, <2>3, <2>4, SendQuiet
  <2> QED BY <1>7, <2>1, <2>5 DEF NewData, QuietStep, QueuesQuiet
<1>8. CASE TakeAnyID(n)
  <2>1. \A k \in Node : Onward(k)
    BY <1>3, <1>8 DEF TakeAnyID, PC
  <2> QED BY <1>1, <1>8, <2>1 DEF TakeAnyID, QuietStep, QueuesQuiet
<1> QED BY <1>2, <1>4, <1>5, <1>6, <1>7, <1>8 DEF MainStep

\* The search for a free ID goes on.
LEMMA SearchQuiet ==
  ASSUME JoinInv, NEW m \in Node, ReceiveFreeID(m) \/ ReceiveSearch(m)
  PROVE  QuietStep
<1> DEFINE r == rightID[m]
<1>0. Arrives(m, "FREE_ID_SEARCH")
  BY DEF ReceiveFreeID, ReceiveSearch
<1>1. /\ r \in Node /\ TypeOK /\ sendQueue[m] # <<>>
      /\ msg(m) \in Message /\ msg(m).type = "FREE_ID_SEARCH" /\ ~Tells(msg(m))
  BY <1>0, ArrivesStarted DEF Tells
<1>2. msg(m).sourceNode \in Node /\ msg(m).slotA \in ID
  BY <1>1, Fields
<1>3. CASE ReceiveFreeID(m)
  <2>1. <<>> \in Seq(Message) /\ \A y : Occurs(y, <<>>) => ~Tells(y)
    <3>1. \A y : ~Occurs(y, <<>>)
      BY OccursOnce
    <3>2. <<>> \in Seq(Message)
      OBVIOUS
    <3> QED BY <3>1, <3>2
  <2>2. QueuesQuiet
    <3>1. Handled(m, <<>>)
      BY <1>3 DEF ReceiveFreeID
    <3> QED BY <1>0, <1>1, <2>1, <3>1, HandledQuiet
  <2>3. \A k \in Node : Onward(k)
    <3>1. pc \in [Node -> PC]
      BY <1>1 DEF TypeOK
    <3> QED BY <1>1, <1>3, <3>1 DEF ReceiveFreeID, Onward, Resting, PC
  <2> QED BY <1>3, <2>2, <2>3 DEF ReceiveFreeID, QuietStep, QueuesQuiet
<1>4. CASE ReceiveSearch(m)
  <2> DEFINE s == msg(m).sourceNode
             held == pc[r] \in {"asleep", "woken"} /\ r > s
             y1 == FreeIDSearch(s, raised(r, msg(m).slotA))
             a == IF held THEN <<>> ELSE <<y1>>
             b == Further(m, liveNodes[r])
  <2>1. y1 \in Message /\ ~Tells(y1)
    <3>1. maxID[r] \in ID
      BY <1>1 DEF TypeOK
    <3>2. raised(r, msg(m).slotA) \in ID
      BY <1>2, <3>1 DEF raised
    <3> QED BY <1>2, <3>2 DEF FreeIDSearch, Message, Tells
  <2>2. Handled(m, a \o b)
    BY <1>4 DEF ReceiveSearch
  <2>3. b \in Seq(Message) /\ \A y : Occurs(y, b) => ~Tells(y)
    BY <1>1, FurtherType, OccursOnce DEF Further
  <2> HIDE DEF y1, held, b
  <2>4. a \in Seq(Message) /\ \A y : Occurs(y, a) => ~Tells(y)
    <3>1. <<y1>> \in Seq(Message) /\ <<>> \in Seq(Message)
      BY <2>1, OneMessage
    <3>2. \A y : ~Occurs(y, <<>>) /\ (Occurs(y, <<y1>>) => ~Tells(y))
      BY <2>1, OccursOnce
    <3> QED BY <3>1, <3>2
  <2> HIDE DEF a
  <2>5. a \o b \in Seq(Message) /\ \A y : Occurs(y, a \o b) => ~Tells(y)
    BY <2>3, <2>4, OccursAppended
  <2>6. QueuesQuiet
    BY <1>0, <1>1, <2>2, <2>5, HandledQuiet
  <2> QED BY <1>4, <2>6 DEF ReceiveSearch, QuietStep, QueuesQuiet, Onward
<1> QED BY <1>3, <1>4

\* An instance that is announced, with no order to resume.
LEMMA InstanceQuiet ==
  ASSUME JoinInv, NEW m \in Node, ReceiveInstanceAnnouncement(m), ~msg(m).resume
  PROVE  QuietStep
<1> DEFINE r == rightID[m]
           b == IF stopsBeforeSource(m) THEN <<>> ELSE Further(m, liveNodes[r])
<1>0. Arrives(m, "INSTANCE_ANNOUNCEMENT")
  BY DEF ReceiveInstanceAnnouncement
<1>1. msg(m) \in Message /\ msg(m).type = "INSTANCE_ANNOUNCEMENT" /\ ~Tells(msg(m))
  BY <1>0, ArrivesStarted DEF Tells
<1>2. Handled(m, <<>> \o b)
  BY DEF ReceiveInstanceAnnouncement
<1>3. b \in Seq(Message) /\ \A y : Occurs(y, b) => ~Tells(y)
  BY <1>1, FurtherType, OccursOnce DEF Further
<1> HIDE DEF b
<1>4. Handled(m, b)
  <2>1. <<>> \o b = b
    BY <1>3
  <2> QED BY <1>2, <2>1
<1>5. QueuesQuiet
  BY <1>0, <1>1, <1>3, <1>4, HandledQuiet
<1> QED BY <1>5 DEF ReceiveInstanceAnnouncement, QuietStep, QueuesQuiet, Onward

\* createSingleNodeNetwork: nobody is there yet.
LEMMA CreateJoins ==
  ASSUME JoinInv, TypeInv', DataAtLeft', NEW n \in Node, createSingleNodeNetwork(n)
  PROVE  JoinInv'
<1>1. /\ n = First /\ pc[n] = "off" /\ pc' = [pc EXCEPT ![n] = "started"]
      /\ rightID' = [rightID EXCEPT ![n] = n] /\ leftID' = [leftID EXCEPT ![n] = n]
      /\ UNCHANGED <<sendQueue, liveNodes, liveNodesConsistent>>
  BY DEF createSingleNodeNetwork, Goto
<1>2. \A k \in Node : pc[k] = "off" /\ k \notin Started
  BY <1>1 DEF JoinInv, TypeInv, RingInv, FirstIsMember, Members, Started
<1>3. pc \in [Node -> PC] /\ rightID \in [Node -> Node \cup {NoNode}]
  BY DEF JoinInv, TypeInv, TypeOK
<1>4. /\ pc'[n] = "started" /\ rightID'[n] = n
      /\ \A k \in Node \ {n} : pc'[k] = "off"
  BY <1>1, <1>2, <1>3
<1>5. Started' = {n} /\ Members' = {n}
  BY <1>4 DEF Started, Members
<1>6. \A k \in Node : /\ sendQueue'[k] = <<>> /\ ~liveNodesConsistent'[k] /\ \A i \in Node : i \notin liveNodes'[k]
                      /\ \A y : ~Occurs(y, sendQueue'[k])
  BY <1>1, <1>2 DEF JoinInv, OutsidersUnknown, Occurs
<1>7. LeftRing(Started, rightID)'
  BY <1>4, <1>5 DEF LeftRing
<1>8. \A k \in Node : ~Resting(k)' /\ ~Settled(k)'
  BY <1>4, <1>6 DEF Resting, Settled
<1>9. FirstAlone' /\ LeftRests' /\ RestersSettled'
  BY <1>1, <1>4, <1>5, <1>8 DEF FirstAlone, LeftRests, RestersSettled
<1>10. OutsidersUnknown'
  BY <1>6 DEF OutsidersUnknown
<1>11. TalesPlaced' /\ AnnouncementsPass' /\ SettledKnown'
  BY <1>6, <1>8 DEF TalesPlaced, AnnouncementsPass, SettledKnown
<1>12. TalesOrdered'
  BY <1>6 DEF TalesOrdered, Ordered
<1>13. AnnouncementComes'
  BY <1>1, <1>5 DEF AnnouncementComes
<1> QED BY <1>7, <1>9, <1>10, <1>11, <1>12, <1>13 DEF JoinInv

\* ConnectAsLeftNode, between two nodes that rest.
LEMMA ConnectJoins ==
  ASSUME Calm, JoinInv, TypeInv', DataAtLeft', NEW n \in Node, NEW r \in Node, Connect(n, r)
  PROVE  JoinInv'
<1>1. /\ n # First /\ r \in Started /\ pc[n] = "off" /\ pc' = [pc EXCEPT ![n] = "connected"]
      /\ rightID' = [rightID EXCEPT ![n] = r]
      /\ leftID' = [leftID EXCEPT ![n] = leftID[r], ![r] = n]
      /\ UNCHANGED <<sendQueue, liveNodes, liveNodesConsistent>>
      /\ AtRest(r)
  BY DEF Connect, Goto
<1>2. /\ pc \in [Node -> PC] /\ rightID \in [Node -> Node \cup {NoNode}]
      /\ leftID \in [Node -> Node \cup {NoNode}] /\ First \in Node
  BY MembershipAssumption DEF JoinInv, TypeInv, TypeOK
<1>3. r \in Members /\ leftID[r] \in Members /\ Members \subseteq Node /\ n \notin Members
  BY <1>1 DEF JoinInv, TypeInv, RingInv, LeftRing, Members, Started
<1>4. Resting(r) /\ Resting(leftID[r])
  BY <1>1, <1>3 DEF AtRest, Resting, Members
<1>5. /\ pc'[n] = "connected" /\ \A k \in Node \ {n} : pc'[k] = pc[k]
      /\ leftID'[n] = leftID[r] /\ \A k \in Node \ {n, r} : leftID'[k] = leftID[k]
      /\ \A k \in Node \ {n} : rightID'[k] = rightID[k]
  BY <1>1, <1>2
<1>6. Started' = Started /\ n \notin Started /\ Started \subseteq Node
  BY <1>1, <1>5 DEF Started
<1>7. \A k \in Node : /\ Resting(k)' <=> Resting(k)
                      /\ Settled(k)' <=> Settled(k)
  BY <1>1, <1>5 DEF Resting, Settled
<1>8. LeftRing(Started, rightID)'
  <2>1. \A k \in Started : rightID'[k] = rightID[k]
    BY <1>5, <1>6
  <2>2. LeftRing(Started, rightID)
    BY DEF JoinInv
  <2>3. LeftRing(Started, rightID')
    BY <2>1, <2>2 DEF LeftRing
  <2> QED BY <1>6, <2>3
<1>9. FirstAlone'
  <2>1. pc[First] # "started"
    BY <1>3, <1>4 DEF JoinInv, FirstAlone, Resting
  <2> QED BY <1>1, <1>2, <1>5, <2>1 DEF JoinInv, FirstAlone
<1>10. LeftRests'
  <2> SUFFICES ASSUME NEW k \in Node, pc'[k] \in {"connected", "started", "init"}, k # First
               PROVE  pc'[leftID'[k]] \notin {"off", "connected", "started", "init"}
    BY DEF LeftRests, Resting
  <2>1. CASE k = n
    <3>1. leftID[r] \in Node \ {n} /\ leftID'[k] = leftID[r]
      BY <1>3, <1>5, <2>1
    <3> QED BY <1>4, <1>5, <3>1 DEF Resting
  <2>2. CASE k # n
    <3>1. pc[k] \in {"connected", "started", "init"} /\ k # r /\ leftID'[k] = leftID[k]
      BY <1>4, <1>5, <2>2 DEF Resting
    <3>2. Resting(leftID[k]) /\ leftID[k] \in Node
      BY <3>1 DEF JoinInv, LeftRests, TypeInv, RingInv, LeftRing, Members
    <3>3. leftID[k] # n
      BY <1>1, <3>2 DEF Resting
    <3> QED BY <1>5, <3>1, <3>2, <3>3 DEF Resting
  <2> QED BY <2>1, <2>2
<1>11. RestersSettled'
  BY <1>7 DEF JoinInv, RestersSettled
<1>12. OutsidersUnknown'
  BY <1>1, <1>6 DEF JoinInv, OutsidersUnknown
<1>13. TalesPlaced'
  <2> SUFFICES ASSUME NEW i \in Node, NEW k \in Node, NEW y, Occurs(y, sendQueue[k]),
                      Carry(i, y) \/ Res(i, y)
               PROVE  /\ k = leftID'[i] /\ i # First
                      /\ pc'[i] \in {"started", "init"} /\ ~liveNodesConsistent[i]
                      /\ \A j \in Node : \A z : Occurs(z, sendQueue[j]) => ~Own(i, z)
    BY <1>1 DEF TalesPlaced, Carry, Res, Own
  <2>1. /\ k = leftID[i] /\ i # First
        /\ pc[i] \in {"started", "init"} /\ ~liveNodesConsistent[i]
        /\ \A j \in Node : \A z : Occurs(z, sendQueue[j]) => ~Own(i, z)
    BY DEF JoinInv, TalesPlaced
  <2>2. i # n /\ i # r
    BY <1>1, <1>4, <2>1 DEF Resting
  <2> QED BY <1>5, <2>1, <2>2
<1>14. TalesOrdered'
  BY <1>1 DEF JoinInv, TalesOrdered, Ordered, Carry, Res
<1>15. \A i \in Node : \A m : Informed(i, m)' <=> Informed(i, m)
  BY <1>1 DEF Informed, Carry
<1>16. AnnouncementsPass'
  <2> SUFFICES ASSUME NEW b \in Node, NEW p \in Node, NEW y, Occurs(y, sendQueue[p]), Own(b, y)
               PROVE  Passed(p, b)'
    BY <1>1 DEF AnnouncementsPass, Own
  <2>1. PICK F \in SUBSET Started : Stretch(F, p, b) /\ \A i \in Started \ F : Informed(i, b)
    BY DEF JoinInv, AnnouncementsPass, Passed
  <2>2. p \in Started
    BY DEF JoinInv, OutsidersUnknown, Occurs
  <2>3. Stretch(F, p, b)'
    BY <1>5, <1>6, <2>1, <2>2 DEF Stretch
  <2>4. \A i \in Started \ F : Informed(i, b)'
    BY <1>6, <1>15, <2>1
  <2> QED BY <1>6, <2>1, <2>3, <2>4 DEF Passed
<1>17. SettledKnown'
  <2> SUFFICES ASSUME NEW m \in Node, Settled(m)', NEW i \in Started
               PROVE  Informed(i, m)'
    BY <1>6 DEF SettledKnown
  <2>1. Informed(i, m)
    BY <1>7 DEF JoinInv, SettledKnown
  <2> QED BY <1>6, <1>15, <2>1
<1>18. AnnouncementComes'
  <2> SUFFICES ASSUME NEW i \in Started, ~Settled(i)', i # First
               PROVE  \E k \in Node : \E y : Occurs(y, sendQueue'[k]) /\ (Res(i, y) \/ Own(i, y))
    BY <1>6 DEF AnnouncementComes, Res, Own
  <2>1. ~Settled(i)
    BY <1>6, <1>7
  <2> QED BY <1>1, <2>1 DEF JoinInv, AnnouncementComes
<1> QED BY <1>8, <1>9, <1>10, <1>11, <1>12, <1>13, <1>14, <1>16, <1>17, <1>18 DEF JoinInv

\* init() of the first node, alone.
LEMMA InitSingleJoins ==
  ASSUME JoinInv, TypeInv', DataAtLeft', NEW n \in Node, InitSingle(n)
  PROVE  JoinInv'
<1>1. /\ leftID[n] = n /\ pc[n] = "started" /\ pc' = [pc EXCEPT ![n] = "ready"]
      /\ liveNodes' = [liveNodes EXCEPT ![n] = @ \cup {n}]
      /\ UNCHANGED <<rightID, leftID, sendQueue, liveNodesConsistent>>
  BY DEF InitSingle, Goto, isSingle, netVars
<1>2. n = First
  <2>1. ~Resting(leftID[n])
    BY <1>1 DEF Resting
  <2> QED BY <1>1, <2>1 DEF JoinInv, LeftRests
<1>3. Members = {n} /\ Started = {n}
  BY <1>1, <1>2 DEF JoinInv, FirstAlone, Members, Started
<1>4. pc \in [Node -> PC] /\ liveNodes \in [Node -> SUBSET Node]
  BY DEF JoinInv, TypeInv, TypeOK
<1>5. /\ pc'[n] = "ready" /\ \A k \in Node \ {n} : pc[k] = "off" /\ pc'[k] = "off"
      /\ liveNodes'[n] = liveNodes[n] \cup {n} /\ \A k \in Node \ {n} : liveNodes'[k] = liveNodes[k]
  BY <1>1, <1>3, <1>4 DEF Members
<1>6. Started' = {n} /\ Members' = {n}
  BY <1>5 DEF Started, Members
<1>7. LeftRing(Started, rightID)'
  BY <1>1, <1>3, <1>6 DEF JoinInv
<1>8. FirstAlone' /\ LeftRests' /\ RestersSettled'
  BY <1>2, <1>5 DEF FirstAlone, LeftRests, RestersSettled, Resting, Settled
<1>9. OutsidersUnknown'
  <2> SUFFICES ASSUME NEW i \in Node \ {n}
               PROVE  /\ sendQueue[i] = <<>> /\ ~liveNodesConsistent[i]
                      /\ \A k \in Node :
                           /\ i \notin liveNodes'[k]
                           /\ \A y : Occurs(y, sendQueue[k]) =>
                                /\ ~Res(i, y)
                                /\ y.type = "NODE_ANNOUNCEMENT" => i # y.sourceNode /\ i \notin y.nodes
    BY <1>1, <1>6 DEF OutsidersUnknown, Res
  <2>1. /\ sendQueue[i] = <<>> /\ ~liveNodesConsistent[i]
        /\ \A k \in Node :
             /\ i \notin liveNodes[k]
             /\ \A y : Occurs(y, sendQueue[k]) =>
                  /\ ~Res(i, y)
                  /\ y.type = "NODE_ANNOUNCEMENT" => i # y.sourceNode /\ i \notin y.nodes
    BY <1>3 DEF JoinInv, OutsidersUnknown
  <2> QED BY <1>5, <2>1
<1>10. \A i, k \in Node : \A y : Occurs(y, sendQueue[k]) => ~Carry(i, y) /\ ~Res(i, y)
  <2> SUFFICES ASSUME NEW i \in Node, NEW k \in Node, NEW y, Occurs(y, sendQueue[k]), Carry(i, y) \/ Res(i, y)
               PROVE  FALSE
    OBVIOUS
  <2>1. i # First /\ pc[i] \in {"started", "init"}
    BY DEF JoinInv, TalesPlaced
  <2> QED BY <1>2, <1>5, <2>1
<1>11. TalesPlaced' /\ TalesOrdered'
  BY <1>1, <1>10 DEF TalesPlaced, JoinInv, TalesOrdered, Ordered, Carry, Res
<1>12. Informed(n, n)'
  BY <1>5 DEF Informed
<1>13. AnnouncementsPass'
  <2> SUFFICES ASSUME NEW b \in Node, NEW p \in Node, NEW y, Occurs(y, sendQueue[p]), Own(b, y)
               PROVE  Passed(p, b)'
    BY <1>1 DEF AnnouncementsPass, Own
  <2>1. PICK F \in SUBSET Started : Stretch(F, p, b) /\ \A i \in Started \ F : Informed(i, b)
    BY DEF JoinInv, AnnouncementsPass, Passed
  <2>2. Stretch(F, p, b)'
    BY <1>1, <2>1 DEF Stretch
  <2>3. F = {n}
    BY <1>3, <2>1 DEF Stretch
  <2> QED BY <1>6, <2>2, <2>3 DEF Passed
<1>14. SettledKnown'
  <2> SUFFICES ASSUME NEW m \in Node, Settled(m)'
               PROVE  Informed(n, m)'
    BY <1>6 DEF SettledKnown
  <2>1. CASE m = n
    BY <1>12, <2>1
  <2>2. CASE m # n
    <3>1. ~liveNodesConsistent[m]
      BY <1>3, <2>2 DEF JoinInv, OutsidersUnknown
    <3> QED BY <1>1, <1>2, <2>2, <3>1 DEF Settled
  <2> QED BY <2>1, <2>2
<1>15. AnnouncementComes'
  BY <1>2, <1>6 DEF AnnouncementComes
<1> QED BY <1>7, <1>8, <1>9, <1>11, <1>13, <1>14, <1>15 DEF JoinInv

\* What a new node is sent.
LEMMA SentData ==
  ASSUME TypeOK, NEW l \in Node, NEW n \in Node
  PROVE  /\ \A y : Occurs(y, sendAllData(l, n)) =>
              /\ y.sourceNode = n
              /\ y.type = "NODE_ANNOUNCEMENT" => y.nodes = liveNodes[l]
         /\ liveNodes[l] # {} => Occurs(NodeAnnouncement(n, liveNodes[l]), sendAllData(l, n))
         /\ Ordered(n, sendAllData(l, n))
         /\ DOMAIN data[l] # {} => \E y : Occurs(y, sendAllData(l, n)) /\ Res(n, y)
<1> DEFINE names == NodeAnnouncement(n, liveNodes[l])
           a == IF liveNodes[l] = {} THEN <<>> ELSE <<names>>
           b == instances(data[l], n)
<1>1. /\ names \in Message /\ b \in Seq(Message) /\ names.type = "NODE_ANNOUNCEMENT"
      /\ names.sourceNode = n /\ names.nodes = liveNodes[l]
  BY SentType DEF NodeAnnouncement
<1>2. /\ \A i \in DOMAIN b : /\ b[i].type = "INSTANCE_ANNOUNCEMENT" /\ b[i].sourceNode = n
                             /\ b[i].resume <=> i = Len(b)
      /\ DOMAIN data[l] # {} => b # <<>>
  <2>1. DOMAIN data[l] \subseteq ID /\ Range(data[l]) \subseteq WithFile
    BY DEF TypeOK
  <2> QED BY <2>1, InstancesType
<1>3. sendAllData(l, n) = a \o b
  BY DEF sendAllData
<1> HIDE DEF names, b
<1>4. /\ a \in Seq(Message)
      /\ \A y : Occurs(y, a) => y = names
      /\ liveNodes[l] # {} => Occurs(names, a)
  <2>1. <<names>> \in Seq(Message) /\ <<>> \in Seq(Message)
    BY <1>1, OneMessage
  <2>2. \A y : ~Occurs(y, <<>>) /\ (Occurs(y, <<names>>) <=> y = names)
    BY OccursOnce
  <2> QED BY <2>1, <2>2
<1> HIDE DEF a
<1>5. \A y : Occurs(y, a \o b) <=> Occurs(y, a) \/ Occurs(y, b)
  BY <1>1, <1>4, OccursAppended
<1>6. ASSUME NEW y, Occurs(y, a \o b)
      PROVE  y.sourceNode = n /\ (y.type = "NODE_ANNOUNCEMENT" => y.nodes = liveNodes[l])
  <2>1. CASE Occurs(y, a)
    BY <1>1, <1>4, <2>1
  <2>2. CASE Occurs(y, b)
    BY <1>2, <2>2 DEF Occurs
  <2> QED BY <1>5, <1>6, <2>1, <2>2
<1>7. Ordered(n, a \o b)
  <2> DEFINE u == a \o b
  <2>1. \A i \in DOMAIN u : /\ i \in Nat /\ Len(a) \in Nat /\ Len(b) \in Nat /\ i <= Len(a) + Len(b)
                            /\ i <= Len(a) => i \in DOMAIN a /\ u[i] = a[i]
                            /\ i > Len(a) => i - Len(a) \in DOMAIN b /\ u[i] = b[i - Len(a)]
    BY <1>1, <1>4
  <2> HIDE DEF u
  <2>2. ASSUME NEW i \in DOMAIN u, Res(n, u[i])
        PROVE  i = Len(a) + Len(b)
    <3>1. CASE i <= Len(a)
      <4>1. u[i] = names
        BY <1>4, <2>1, <3>1 DEF Occurs
      <4> QED BY <1>1, <2>2, <4>1 DEF Res
    <3>2. CASE i > Len(a)
      <4>1. i - Len(a) = Len(b)
        BY <1>2, <2>1, <2>2, <3>2 DEF Res
      <4> QED BY <2>1, <4>1
    <3> QED BY <2>1, <3>1, <3>2
  <2>3. Ordered(n, u)
    BY <2>1, <2>2 DEF Ordered
  <2> QED BY <2>3 DEF u
<1>8. ASSUME DOMAIN data[l] # {}
      PROVE  \E y : Occurs(y, a \o b) /\ Res(n, y)
  <2>1. Len(b) \in DOMAIN b
    BY <1>1, <1>2, <1>8
  <2>2. Occurs(b[Len(b)], b) /\ Res(n, b[Len(b)])
    BY <1>2, <2>1 DEF Occurs, Res
  <2> QED BY <1>5, <2>2
<1> QED BY <1>3, <1>4, <1>5, <1>6, <1>7, <1>8 DEF names

\* BuildNetAndRequestData at l, which rests and is therefore known to all, and
\* knows all that are settled.
LEMMA BuildJoins ==
  ASSUME JoinInv, TypeInv', DataAtLeft', NEW n \in Node, BuildNetAndRequestData(n)
  PROVE  JoinInv'
<1> DEFINE l == leftID[n]
           msgs == sendAllData(l, n)
<1>1. /\ pc[n] = "connected" /\ pc' = [pc EXCEPT ![n] = "started"]
      /\ rightID' = [rightID EXCEPT ![l] = n] /\ Send(l, msgs)
      /\ UNCHANGED <<leftID, liveNodes, liveNodesConsistent>>
  BY DEF BuildNetAndRequestData, Goto
<1>2. /\ TypeOK /\ pc \in [Node -> PC] /\ rightID \in [Node -> Node \cup {NoNode}]
      /\ liveNodes \in [Node -> SUBSET Node] /\ First \in Node
  BY MembershipAssumption DEF JoinInv, TypeInv, TypeOK
<1>3. n # First /\ Resting(l)
  BY <1>1 DEF JoinInv, FirstAlone, LeftRests
<1>4. /\ l \in Members /\ l \in Node /\ l \in Started /\ l # n /\ n \notin Started /\ n \in Members
      /\ rightID[l] = rightID[n]
  <2>1. n \in Members /\ l \in Members
    BY <1>1 DEF JoinInv, TypeInv, RingInv, LeftRing, Members
  <2>2. rightID[l] = rightID[n]
    BY <1>1, <2>1 DEF JoinInv, TypeInv, RingInv, RightFollows, Connected
  <2> QED BY <1>1, <1>3, <2>1, <2>2 DEF Members, Started, Resting
<1> HIDE DEF l
<1>5. /\ pc'[n] = "started" /\ \A k \in Node \ {n} : pc'[k] = pc[k]
      /\ rightID'[l] = n /\ rightID'[n] = rightID[l]
      /\ \A k \in Node \ {l} : rightID'[k] = rightID[k]
  BY <1>1, <1>2, <1>4
<1>6. Started' = Started \cup {n} /\ Started \subseteq Node /\ Members' = Members
  BY <1>1, <1>5 DEF Started, Members
<1>7. \A k \in Node : /\ Resting(k)' <=> Resting(k)
                      /\ Settled(k)' <=> Settled(k)
  BY <1>1, <1>5 DEF Resting, Settled
<1>8. LeftRing(Started, rightID)'
  <2>1. LeftRing(Started, rightID) /\ \A k \in Started \ {l} : rightID'[k] = rightID[k]
    BY <1>5, <1>6 DEF JoinInv
  <2>2. LeftRing(Started \cup {n}, rightID')
    BY <1>4, <1>5, <2>1, InsertKeepsRing
  <2> QED BY <1>6, <2>2
<1>9. FirstAlone' /\ RestersSettled'
  BY <1>2, <1>3, <1>5, <1>6, <1>7 DEF JoinInv, FirstAlone, RestersSettled
<1>10. LeftRests'
  <2> SUFFICES ASSUME NEW k \in Node, pc'[k] \in {"connected", "started", "init"}, k # First
               PROVE  pc'[leftID'[k]] \notin {"off", "connected", "started", "init"}
    BY DEF LeftRests, Resting
  <2>1. pc[k] \in {"connected", "started", "init"}
    BY <1>1, <1>5
  <2>2. Resting(leftID[k]) /\ leftID[k] \in Node
    BY <2>1 DEF JoinInv, LeftRests, TypeInv, RingInv, LeftRing, Members
  <2>3. leftID[k] # n
    BY <1>1, <2>2 DEF Resting
  <2> QED BY <1>1, <1>5, <2>2, <2>3 DEF Resting
\* The messages.
<1>11. n \notin liveNodes[l] /\ ~liveNodesConsistent[n]
  BY <1>4 DEF JoinInv, OutsidersUnknown
<1>12. /\ \A y : Occurs(y, msgs) =>
            y.sourceNode = n /\ (y.type = "NODE_ANNOUNCEMENT" => y.nodes = liveNodes[l])
       /\ liveNodes[l] # {} => Occurs(NodeAnnouncement(n, liveNodes[l]), msgs)
       /\ Ordered(n, msgs) /\ msgs \in Seq(Message)
       /\ \E y : Occurs(y, msgs) /\ Res(n, y)
  <2>1. DOMAIN data[l] # {}
    BY <1>1 DEF JoinInv, DataAtLeft, l
  <2> QED BY <1>2, <1>4, <2>1, SentData, SentType
<1> HIDE DEF msgs
<1>13. \A k \in Node : \A y :
         Occurs(y, sendQueue'[k]) <=> Occurs(y, sendQueue[k]) \/ (k = l /\ Occurs(y, msgs))
  BY <1>1, <1>2, <1>4, <1>12, QueuesGrow
<1>14. \A i \in Node : \A y : Occurs(y, msgs) => ~Own(i, y) /\ (i # n => ~Carry(i, y) /\ ~Res(i, y))
  BY <1>11, <1>12 DEF Own, Carry, Res
<1>15. \A k \in Node : \A y : Occurs(y, sendQueue[k]) => ~Own(n, y) /\ ~Carry(n, y) /\ ~Res(n, y)
  BY <1>4 DEF JoinInv, OutsidersUnknown, Own, Carry
<1>16. OutsidersUnknown'
  <2> SUFFICES ASSUME NEW i \in Node \ Started, i # n
               PROVE  /\ sendQueue'[i] = <<>> /\ ~liveNodesConsistent[i]
                      /\ \A k \in Node :
                           /\ i \notin liveNodes[k]
                           /\ \A y : Occurs(y, sendQueue'[k]) =>
                                /\ ~Res(i, y)
                                /\ y.type = "NODE_ANNOUNCEMENT" => i # y.sourceNode /\ i \notin y.nodes
    BY <1>1, <1>6 DEF OutsidersUnknown, Res
  <2>1. sendQueue'[i] = sendQueue[i]
    BY <1>1, <1>2, <1>4, <1>12, SendType
  <2>2. i \notin liveNodes[l]
    BY <1>4 DEF JoinInv, OutsidersUnknown
  <2> QED BY <1>12, <1>13, <1>14, <2>1, <2>2 DEF JoinInv, OutsidersUnknown
<1>17. TalesPlaced'
  <2> SUFFICES ASSUME NEW i \in Node, NEW k \in Node, NEW y, Occurs(y, sendQueue'[k]),
                      Carry(i, y) \/ Res(i, y)
               PROVE  /\ k = leftID[i] /\ i # First
                      /\ pc'[i] \in {"started", "init"} /\ ~liveNodesConsistent[i]
                      /\ \A j \in Node : \A z : Occurs(z, sendQueue'[j]) => ~Own(i, z)
    BY <1>1 DEF TalesPlaced, Carry, Res, Own
  <2>1. CASE i = n
    <3>1. k = l
      BY <1>13, <1>15, <2>1
    <3>2. \A j \in Node : \A z : Occurs(z, sendQueue'[j]) => ~Own(n, z)
      BY <1>13, <1>14, <1>15
    <3> QED BY <1>3, <1>5, <1>11, <2>1, <3>1, <3>2 DEF l
  <2>2. CASE i # n
    <3>1. Occurs(y, sendQueue[k])
      BY <1>13, <1>14, <2>2
    <3>2. /\ k = leftID[i] /\ i # First
          /\ pc[i] \in {"started", "init"} /\ ~liveNodesConsistent[i]
          /\ \A j \in Node : \A z : Occurs(z, sendQueue[j]) => ~Own(i, z)
      BY <3>1 DEF JoinInv, TalesPlaced
    <3> QED BY <1>5, <1>13, <1>14, <2>2, <3>2
  <2> QED BY <2>1, <2>2
<1>18. TalesOrdered'
  <2> SUFFICES ASSUME NEW i \in Node, NEW k \in Node
               PROVE  Ordered(i, sendQueue'[k])
    BY DEF TalesOrdered, Ordered, Carry, Res
  <2>1. Ordered(i, sendQueue[k]) /\ sendQueue[k] \in Seq(Message)
    BY <1>2 DEF JoinInv, TalesOrdered, TypeOK
  <2>2. CASE k = l
    <3>1. sendQueue'[k] = sendQueue[k] \o msgs
      BY <1>1, <1>2, <1>12, <2>2, SendType
    <3>2. i # n => \A y : Occurs(y, msgs) => ~Carry(i, y) /\ ~Res(i, y)
      BY <1>14
    <3>3. \A y : Occurs(y, sendQueue[k]) => ~Carry(n, y) /\ ~Res(n, y)
      BY <1>15
    <3>4. CASE i = n
      BY <1>12, <2>1, <3>1, <3>3, <3>4, OrderedAppended
    <3>5. CASE i # n
      BY <1>12, <2>1, <3>1, <3>2, <3>5, OrderedAppended
    <3> QED BY <3>4, <3>5
  <2>3. CASE k # l
    <3>1. sendQueue'[k] = sendQueue[k]
      BY <1>1, <1>2, <1>4, <1>12, <2>3, SendType
    <3> QED BY <2>1, <3>1
  <2> QED BY <2>2, <2>3
\* Who knows whom.
<1>19. \A i \in Node : \A m : Informed(i, m) => Informed(i, m)'
  BY <1>1, <1>13, InformedStays
<1>20. ASSUME NEW m \in Node, Informed(l, m)
       PROVE  Informed(n, m)'
  <2>1. \A k \in Node : \A y : Occurs(y, sendQueue[k]) => ~Carry(l, y)
    <3> SUFFICES ASSUME NEW k \in Node, NEW y, Occurs(y, sendQueue[k]), Carry(l, y) PROVE FALSE
      OBVIOUS
    <3>1. pc[l] \in {"started", "init"}
      BY <1>4 DEF JoinInv, TalesPlaced
    <3> QED BY <1>3, <3>1 DEF Resting
  <2>2. m \in liveNodes[l]
    BY <1>20, <2>1 DEF Informed
  <2> DEFINE y1 == NodeAnnouncement(n, liveNodes[l])
  <2>3. Carry(n, y1) /\ m \in y1.nodes
    BY <1>11, <2>2 DEF NodeAnnouncement, Carry
  <2>4. Occurs(y1, sendQueue'[l])
    BY <1>4, <1>12, <1>13, <2>2
  <2> HIDE DEF y1
  <2> QED BY <1>4, <2>3, <2>4 DEF Informed, Carry
<1>21. AnnouncementsPass'
  <2> SUFFICES ASSUME NEW b \in Node, NEW p \in Node, NEW y, Occurs(y, sendQueue'[p]), Own(b, y)
               PROVE  Passed(p, b)'
    BY DEF AnnouncementsPass, Own
  <2>1. Occurs(y, sendQueue[p]) /\ p \in Started
    <3>1. Occurs(y, sendQueue[p])
      BY <1>13, <1>14
    <3> QED BY <3>1 DEF JoinInv, OutsidersUnknown, Occurs
  <2>2. PICK F \in SUBSET Started : Stretch(F, p, b) /\ \A i \in Started \ F : Informed(i, b)
    BY <2>1 DEF JoinInv, AnnouncementsPass, Passed
  <2>3. \A i \in Started \ F : Informed(i, b)'
    BY <1>6, <1>19, <2>2
  <2>4. \/ (l = b \/ l \notin F) /\ Stretch(F, p, b)'
        \/ Stretch(F \cup {n}, p, b)'
    <3>1. /\ b \in F /\ F \subseteq Started /\ rightID[p] \in F
          /\ \A x \in F \ {b} : x # p /\ rightID[x] \in F
      BY <2>2 DEF Stretch
    <3>2. \A k \in Started \ {l} : rightID'[k] = rightID[k]
      BY <1>5, <1>6
    <3>4. /\ n \notin Started /\ l \in Started /\ p \in Started
          /\ rightID'[l] = n /\ rightID'[n] = rightID[l]
      BY <1>4, <1>5, <2>1
    <3>3. \/ /\ l = b \/ l \notin F
             /\ rightID'[p] \in F /\ \A x \in F \ {b} : x # p /\ rightID'[x] \in F
          \/ /\ rightID'[p] \in F \cup {n}
             /\ \A x \in (F \cup {n}) \ {b} : x # p /\ rightID'[x] \in F \cup {n}
      <4>1. CASE p = l
        BY <3>1, <3>2, <3>4, <4>1
      <4>2. CASE p # l /\ l \in F \ {b}
        BY <3>1, <3>2, <3>4, <4>2
      <4>3. CASE p # l /\ (l = b \/ l \notin F)
        BY <3>1, <3>2, <3>4, <4>3
      <4> QED BY <4>1, <4>2, <4>3
    <3> QED BY <3>1, <3>3 DEF Stretch
  <2>5. CASE (l = b \/ l \notin F) /\ Stretch(F, p, b)'
    <3>1. Informed(l, b)
      <4>1. CASE l \notin F
        BY <1>4, <2>2, <4>1
      <4>2. CASE l = b
        <5>1. Settled(l)
          BY <1>3, <1>4 DEF JoinInv, RestersSettled
        <5> QED BY <1>4, <4>2, <5>1 DEF JoinInv, SettledKnown
      <4> QED BY <2>5, <4>1, <4>2
    <3>2. Informed(n, b)'
      BY <1>20, <3>1
    <3> QED BY <1>6, <2>3, <2>5, <3>2 DEF Passed
  <2>6. CASE Stretch(F \cup {n}, p, b)'
    BY <1>6, <2>3, <2>6 DEF Passed
  <2> QED BY <2>4, <2>5, <2>6
<1>22. SettledKnown'
  <2> SUFFICES ASSUME NEW m \in Node, Settled(m)', NEW i \in Started \cup {n}
               PROVE  Informed(i, m)'
    BY <1>6 DEF SettledKnown
  <2>1. \A j \in Started : Informed(j, m)
    BY <1>7 DEF JoinInv, SettledKnown
  <2> QED BY <1>4, <1>6, <1>19, <1>20, <2>1
<1>23. AnnouncementComes'
  <2> SUFFICES ASSUME NEW i \in Started \cup {n}, ~Settled(i)', i # First
               PROVE  \E k \in Node : \E y : Occurs(y, sendQueue'[k]) /\ (Res(i, y) \/ Own(i, y))
    BY <1>6 DEF AnnouncementComes, Res, Own
  <2>1. CASE i = n
    BY <1>4, <1>12, <1>13, <2>1
  <2>2. CASE i # n
    <3>1. ~Settled(i)
      BY <1>6, <1>7, <2>2
    <3> QED BY <1>13, <2>2, <3>1 DEF JoinInv, AnnouncementComes
  <2> QED BY <2>1, <2>2
<1> QED BY <1>8, <1>9, <1>10, <1>16, <1>17, <1>18, <1>21, <1>22, <1>23 DEF JoinInv

\* The node on the right of leftID[s], a node whose start() is over, is s.
LEMMA RightOfLeft ==
  ASSUME JoinInv, NEW s \in Started
  PROVE  s \in Node /\ leftID[s] \in Members /\ rightID[leftID[s]] = s
<1>1. s \in Members /\ s \in Node /\ ~Connected(s)
  BY DEF Started, Members, Connected
<1> QED BY <1>1 DEF JoinInv, TypeInv, RingInv, LeftRing, RightFollows

\* The last instance for a new node comes in: it announces itself.
LEMMA ResumeJoins ==
  ASSUME JoinInv, TypeInv', DataAtLeft', NEW m \in Node, ReceiveInstanceAnnouncement(m), msg(m).resume
  PROVE  JoinInv'
<1> DEFINE r == rightID[m]
           own == NodeAnnouncement(r, {r})
<1>0. Arrives(m, "INSTANCE_ANNOUNCEMENT")
  BY DEF ReceiveInstanceAnnouncement
<1>1. /\ m \in Started /\ r \in Started /\ r \in Node /\ TypeOK /\ sendQueue[m] # <<>>
      /\ msg(m) \in Message /\ msg(m).type = "INSTANCE_ANNOUNCEMENT" /\ Occurs(msg(m), sendQueue[m])
  BY <1>0, ArrivesStarted
<1>2. msg(m).sourceNode = r /\ Res(r, msg(m))
  <2> DEFINE s == msg(m).sourceNode
  <2>1. s \in Node /\ Res(s, msg(m))
    BY <1>1, Fields DEF Res
  <2>2. m = leftID[s] /\ pc[s] \in {"started", "init"}
    BY <1>1, <2>1 DEF JoinInv, TalesPlaced
  <2>3. s \in Started
    BY <2>1, <2>2 DEF Started
  <2>4. rightID[m] = s
    BY <2>2, <2>3, RightOfLeft
  <2> QED BY <2>1, <2>4
<1>3. /\ m = leftID[r] /\ r # First /\ pc[r] \in {"started", "init"} /\ ~liveNodesConsistent[r]
      /\ \A j \in Node : \A z : Occurs(z, sendQueue[j]) => ~Own(r, z)
  BY <1>1, <1>2 DEF JoinInv, TalesPlaced
<1>4. /\ UNCHANGED <<pc, rightID, leftID, liveNodes, liveNodesConsistent>>
      /\ Handled(m, <<own>>)
  <2>1. Further(m, liveNodes[r]) = <<>>
    BY <1>2 DEF Further, originMe
  <2>2. Handled(m, <<own>> \o <<>>)
    BY <2>1 DEF ReceiveInstanceAnnouncement
  <2>3. <<own>> \o <<>> = <<own>>
    <3>1. own \in Message
      BY <1>1 DEF NodeAnnouncement, Message
    <3> HIDE DEF own
    <3> QED BY <3>1
  <2> QED BY <2>2, <2>3 DEF ReceiveInstanceAnnouncement, netVars
<1>5. /\ own \in Message /\ <<own>> \in Seq(Message) /\ own.type = "NODE_ANNOUNCEMENT"
      /\ own.sourceNode = r /\ own.nodes = {r}
  <2>1. own \in Message /\ own.type = "NODE_ANNOUNCEMENT" /\ own.sourceNode = r /\ own.nodes = {r}
    BY <1>1 DEF NodeAnnouncement, Message
  <2> QED BY <2>1, OneMessage
<1>6. /\ \A i \in Node : ~Carry(i, own) /\ ~Res(i, own)
      /\ \A i \in Node : Own(i, own) => i = r
  BY <1>5 DEF Carry, Res, Own
<1> HIDE DEF own
<1>7. \A k \in Node :
        /\ \A y : /\ Occurs(y, sendQueue[k]) <=> Occurs(y, Rest(k, m)) \/ (k = m /\ y = msg(m))
                  /\ Occurs(y, sendQueue'[k]) <=> Occurs(y, Rest(k, m)) \/ (k = r /\ y = own)
        /\ \A i \in Node : Ordered(i, sendQueue'[k])
  <2> SUFFICES ASSUME NEW k \in Node
               PROVE  /\ \A y : /\ Occurs(y, sendQueue[k]) <=> Occurs(y, Rest(k, m)) \/ (k = m /\ y = msg(m))
                                /\ Occurs(y, sendQueue'[k]) <=> Occurs(y, Rest(k, m)) \/ (k = r /\ y = own)
                      /\ \A i \in Node : Ordered(i, sendQueue'[k])
    OBVIOUS
  <2>1. \A y : Occurs(y, <<own>>) <=> y = own
    BY OccursOnce
  <2>2. \A y : /\ Occurs(y, sendQueue[k]) <=> Occurs(y, Rest(k, m)) \/ (k = m /\ y = msg(m))
               /\ Occurs(y, sendQueue'[k]) <=> Occurs(y, Rest(k, m)) \/ (k = r /\ Occurs(y, <<own>>))
    BY <1>1, <1>4, <1>5, QueuesMove
  <2>3. ASSUME NEW i \in Node PROVE Ordered(i, sendQueue'[k])
    <3>1. Ordered(i, sendQueue[k])
      BY DEF JoinInv, TalesOrdered
    <3>2. Ordered(i, Rest(k, m))
      BY <1>1, <1>4, <1>5, <3>1, QueuesMove
    <3>3. \A y : Occurs(y, <<own>>) => ~Carry(i, y) /\ ~Res(i, y)
      BY <1>6, <2>1
    <3> QED BY <1>1, <1>4, <1>5, <3>2, <3>3, QueuesMove
  <2> QED BY <2>1, <2>2, <2>3
\* Nothing is said in the name of r any more.
<1>8. \A k \in Node : \A y : Occurs(y, sendQueue'[k]) => ~Carry(r, y) /\ ~Res(r, y)
  <2> SUFFICES ASSUME NEW k \in Node, NEW y, Occurs(y, sendQueue'[k]), Carry(r, y) \/ Res(r, y)
               PROVE  FALSE
    OBVIOUS
  <2>1. Occurs(y, Rest(k, m))
    BY <1>1, <1>6, <1>7
  <2>2. Occurs(y, sendQueue[k])
    BY <1>7, <2>1
  <2>3. k = m
    BY <1>1, <1>3, <2>2 DEF JoinInv, TalesPlaced
  <2>4. Occurs(y, Tail(sendQueue[m]))
    BY <2>1, <2>3 DEF Rest
  <2>5. Ordered(r, sendQueue[m]) /\ sendQueue[m] \in Seq(Message)
    BY <1>1 DEF JoinInv, TalesOrdered, TypeOK
  <2>6. ~Carry(r, y) /\ ~Res(r, y)
    BY <1>1, <1>2, <2>4, <2>5, OrderedTail DEF msg
  <2> QED BY <2>6
<1>9. Started' = Started /\ Members' = Members /\ Started \subseteq Node
  BY <1>4 DEF Started, Members
<1>10. LeftRing(Started, rightID)' /\ FirstAlone' /\ LeftRests' /\ RestersSettled'
  BY <1>4, <1>9 DEF JoinInv, FirstAlone, LeftRests, RestersSettled, Resting, Settled
<1>11. OutsidersUnknown'
  <2> SUFFICES ASSUME NEW i \in Node \ Started
               PROVE  /\ sendQueue'[i] = <<>> /\ ~liveNodesConsistent[i]
                      /\ \A k \in Node :
                           /\ i \notin liveNodes[k]
                           /\ \A y : Occurs(y, sendQueue'[k]) =>
                                /\ ~Res(i, y)
                                /\ y.type = "NODE_ANNOUNCEMENT" => i # y.sourceNode /\ i \notin y.nodes
    BY <1>4, <1>9 DEF OutsidersUnknown, Res
  <2>1. sendQueue'[i] = <<>>
    BY <1>0, <1>4, <1>5, HandledOutside
  <2>2. i # r
    BY <1>1
  <2>3. OutsidersUnknown
    BY DEF JoinInv
  <2>4. /\ ~liveNodesConsistent[i]
        /\ \A k \in Node :
             /\ i \notin liveNodes[k]
             /\ \A y : Occurs(y, sendQueue[k]) =>
                  /\ ~Res(i, y)
                  /\ y.type = "NODE_ANNOUNCEMENT" => i # y.sourceNode /\ i \notin y.nodes
    BY <2>3 DEF OutsidersUnknown
  <2>5. ASSUME NEW k \in Node, NEW y, Occurs(y, sendQueue'[k])
        PROVE  /\ ~Res(i, y)
               /\ y.type = "NODE_ANNOUNCEMENT" => i # y.sourceNode /\ i \notin y.nodes
    <3>1. Occurs(y, sendQueue[k]) \/ y = own
      BY <1>7, <2>5
    <3>2. ~Res(i, own) /\ i # own.sourceNode /\ i \notin own.nodes
      BY <1>5, <1>6, <2>2
    <3> QED BY <2>4, <3>1, <3>2
  <2> QED BY <2>1, <2>4, <2>5
<1>12. TalesPlaced'
  <2> SUFFICES ASSUME NEW i \in Node, NEW k \in Node, NEW y, Occurs(y, sendQueue'[k]),
                      Carry(i, y) \/ Res(i, y)
               PROVE  /\ k = leftID[i] /\ i # First
                      /\ pc[i] \in {"started", "init"} /\ ~liveNodesConsistent[i]
                      /\ \A j \in Node : \A z : Occurs(z, sendQueue'[j]) => ~Own(i, z)
    BY <1>4 DEF TalesPlaced, Carry, Res, Own
  <2>1. i # r /\ Occurs(y, sendQueue[k])
    BY <1>6, <1>7, <1>8
  <2>2. /\ k = leftID[i] /\ i # First
        /\ pc[i] \in {"started", "init"} /\ ~liveNodesConsistent[i]
        /\ \A j \in Node : \A z : Occurs(z, sendQueue[j]) => ~Own(i, z)
    BY <2>1 DEF JoinInv, TalesPlaced
  <2> QED BY <1>6, <1>7, <2>1, <2>2
<1>13. TalesOrdered'
  BY <1>7 DEF TalesOrdered, Ordered, Carry, Res
<1>14. \A i \in Node : \A x : Informed(i, x) => Informed(i, x)'
  <2> SUFFICES ASSUME NEW i \in Node, NEW x, Informed(i, x)
               PROVE  Informed(i, x)'
    OBVIOUS
  <2>1. ~Carry(i, msg(m))
    BY <1>1 DEF Carry
  <2>2. \A k \in Node : \A y : Occurs(y, sendQueue[k]) /\ Carry(i, y) => Occurs(y, sendQueue'[k])
    BY <1>7, <2>1
  <2>3. liveNodes[i] \subseteq liveNodes'[i]
    BY <1>4
  <2> QED BY <2>2, <2>3, InformedStays
<1>15. AnnouncementsPass'
  <2> SUFFICES ASSUME NEW b \in Node, NEW p \in Node, NEW y, Occurs(y, sendQueue'[p]), Own(b, y)
               PROVE  Passed(p, b)'
    BY DEF AnnouncementsPass, Own
  <2>1. CASE Occurs(y, sendQueue[p])
    <3>1. PICK F \in SUBSET Started : Stretch(F, p, b) /\ \A i \in Started \ F : Informed(i, b)
      BY <2>1 DEF JoinInv, AnnouncementsPass, Passed
    <3>2. Stretch(F, p, b)'
      BY <1>4, <3>1 DEF Stretch
    <3>3. \A i \in Started \ F : Informed(i, b)'
      BY <1>9, <1>14, <3>1
    <3> QED BY <1>9, <3>1, <3>2, <3>3 DEF Passed
  <2>2. CASE y = own /\ p = r
    <3>1. b = r /\ p = r
      BY <1>6, <2>2
    <3>2. PICK F \in SUBSET Started : F = Started
      OBVIOUS
    <3>3. Stretch(F, p, b)'
      BY <1>1, <1>4, <3>1, <3>2 DEF JoinInv, LeftRing, Stretch
    <3> QED BY <1>9, <3>2, <3>3 DEF Passed
  <2> QED BY <1>7, <2>1, <2>2
<1>16. SettledKnown'
  <2> SUFFICES ASSUME NEW x \in Node, Settled(x)', NEW i \in Started
               PROVE  Informed(i, x)'
    BY <1>9 DEF SettledKnown
  <2>1. Informed(i, x)
    BY <1>4 DEF JoinInv, SettledKnown, Settled, Resting
  <2> QED BY <1>9, <1>14, <2>1
<1>17. AnnouncementComes'
  <2> SUFFICES ASSUME NEW i \in Started, ~Settled(i)', i # First
               PROVE  \E k \in Node : \E y : Occurs(y, sendQueue'[k]) /\ (Res(i, y) \/ Own(i, y))
    BY <1>9 DEF AnnouncementComes, Res, Own
  <2>1. CASE i = r
    <3>1. Own(i, own) /\ Occurs(own, sendQueue'[r])
      BY <1>1, <1>5, <1>7, <2>1 DEF Own
    <3> QED BY <1>1, <3>1
  <2>2. CASE i # r
    <3>1. ~Settled(i)
      BY <1>4 DEF Settled, Resting
    <3>2. PICK k \in Node : \E y : Occurs(y, sendQueue[k]) /\ (Res(i, y) \/ Own(i, y))
      BY <2>2, <3>1 DEF JoinInv, AnnouncementComes
    <3>3. PICK y : Occurs(y, sendQueue[k]) /\ (Res(i, y) \/ Own(i, y))
      BY <3>2
    <3>4. y # msg(m)
      BY <1>1, <1>2, <2>2, <3>3 DEF Res, Own
    <3>5. Occurs(y, sendQueue'[k])
      BY <1>7, <3>3, <3>4
    <3> QED BY <3>3, <3>5
  <2> QED BY <2>1, <2>2
<1> QED BY <1>10, <1>11, <1>12, <1>13, <1>15, <1>16, <1>17 DEF JoinInv

\* In a ring, an announcement that comes back has passed all other nodes, ...
LEMMA StretchEnds ==
  ASSUME NEW M, NEW right, LeftRing(M, right), NEW F \in SUBSET M, NEW p \in M, NEW b \in F,
         right[p] = b, \A x \in F \ {b} : x # p /\ right[x] \in F
  PROVE  F = {b}
<1> DEFINE S == F \ {b}
<1>1. \A x \in S : right[x] \in S
  <2> SUFFICES ASSUME NEW x \in S
               PROVE  right[x] # b
    OBVIOUS
  <2>1. \A i, j \in M : right[i] = right[j] => i = j
    BY DEF LeftRing
  <2> QED BY <2>1
<1>2. S \in SUBSET M /\ S # M
  OBVIOUS
<1>3. S = {}
  BY <1>1, <1>2 DEF LeftRing
<1> QED BY <1>3

\* ... and one that is passed on has one node less to pass.
LEMMA StretchShrinks ==
  ASSUME NEW M, NEW right, LeftRing(M, right), NEW F \in SUBSET M, NEW p \in M, NEW b \in F,
         NEW q \in F, right[p] = q, q # b, \A x \in F \ {b} : x # p /\ right[x] \in F
  PROVE  /\ right[q] \in F \ {q}
         /\ \A x \in F \ {b} : x # q => right[x] \in F \ {q}
<1>1. \A i, j \in M : right[i] = right[j] => i = j
  BY DEF LeftRing
<1>2. right[q] \in F /\ q # p
  OBVIOUS
<1>3. right[q] # q
  BY <1>1, <1>2
<1>4. \A x \in F \ {b} : x # q => right[x] \in F \ {q}
  BY <1>1
<1> QED BY <1>2, <1>3, <1>4

\* NODE_ANNOUNCEMENT: what the left neighbour tells, or a new node on its way.
LEMMA AnnounceJoins ==
  ASSUME JoinInv, TypeInv', DataAtLeft', NEW m \in Node, ReceiveNodeAnnouncement(m)
  PROVE  JoinInv'
<1> DEFINE r == rightID[m]
           y0 == msg(m)
           s == y0.sourceNode
           msgs == Further(m, liveNodes[r] \cup y0.nodes)
<1>0. Arrives(m, "NODE_ANNOUNCEMENT")
  BY DEF ReceiveNodeAnnouncement
<1>1. /\ m \in Started /\ r \in Started /\ r \in Node /\ TypeOK /\ sendQueue[m] # <<>>
      /\ y0 \in Message /\ y0.type = "NODE_ANNOUNCEMENT" /\ Occurs(y0, sendQueue[m])
  BY <1>0, ArrivesStarted
<1>2. s \in Node /\ y0.nodes \in SUBSET Node /\ (Own(s, y0) \/ Carry(s, y0))
  BY <1>1, Fields DEF Own, Carry
<1>3. s \in Started
  BY <1>1, <1>2 DEF JoinInv, OutsidersUnknown
<1>4. Carry(s, y0) => r = s
  <2> SUFFICES ASSUME Carry(s, y0) PROVE r = s
    OBVIOUS
  <2>1. m = leftID[s]
    BY <1>1, <1>2 DEF JoinInv, TalesPlaced
  <2> QED BY <1>3, <2>1, RightOfLeft
<1>5. msgs = IF r = s THEN <<>> ELSE <<y0>>
  BY <1>2, <1>4 DEF Further, originMe, Own
<1>6. confirms(m) <=> r = s /\ Own(s, y0)
  BY <1>1 DEF confirms, originMe, Own
<1>7. /\ UNCHANGED <<rightID, leftID>> /\ Handled(m, msgs)
      /\ liveNodes' = [liveNodes EXCEPT ![r] = @ \cup y0.nodes]
      /\ liveNodesConsistent' = [liveNodesConsistent EXCEPT ![r] = @ \/ confirms(m)]
      /\ pc' = [pc EXCEPT ![r] = IF confirms(m) /\ @ = "init" THEN "ready" ELSE @]
  BY DEF ReceiveNodeAnnouncement, netVars
<1>8. msgs \in Seq(Message) /\ \A y : Occurs(y, msgs) <=> y = y0 /\ r # s
  <2>1. <<y0>> \in Seq(Message) /\ <<>> \in Seq(Message)
    BY <1>1, OneMessage
  <2>2. \A y : ~Occurs(y, <<>>) /\ (Occurs(y, <<y0>>) <=> y = y0)
    BY OccursOnce
  <2> HIDE DEF y0
  <2> QED BY <1>5, <2>1, <2>2
<1> HIDE DEF msgs
<1>9. /\ liveNodes'[r] = liveNodes[r] \cup y0.nodes
      /\ \A k \in Node \ {r} : liveNodes'[k] = liveNodes[k]
      /\ \A k \in Node : liveNodes[k] \subseteq liveNodes'[k]
      /\ \A k \in Node : liveNodesConsistent'[k] <=> liveNodesConsistent[k] \/ (k = r /\ confirms(m))
      /\ \A k \in Node : pc'[k] = IF k = r /\ confirms(m) /\ pc[k] = "init" THEN "ready" ELSE pc[k]
  BY <1>1, <1>7 DEF TypeOK
<1> HIDE DEF y0
<1>10. Started' = Started /\ Members' = Members /\ Started \subseteq Node
  BY <1>9 DEF Started, Members
\* The queues.
<1>11. \A k \in Node : \A y :
         /\ Occurs(y, sendQueue[k]) <=> Occurs(y, Rest(k, m)) \/ (k = m /\ y = y0)
         /\ Occurs(y, sendQueue'[k]) <=> Occurs(y, Rest(k, m)) \/ (k = r /\ y = y0 /\ r # s)
  BY <1>1, <1>7, <1>8, QueuesMove DEF y0
<1>12. \A i, k \in Node : \A y : Carry(i, y) \/ Res(i, y) =>
         (Occurs(y, sendQueue'[k]) => Occurs(y, sendQueue[k]))
  <2>1. r # s => \A i \in Node : ~Carry(i, y0) /\ ~Res(i, y0)
    BY <1>1, <1>4 DEF Carry, Res
  <2> QED BY <1>11, <2>1
<1>13. \A j \in Node : \A z : Occurs(z, sendQueue'[j]) => \E k \in Node : Occurs(z, sendQueue[k])
  BY <1>1, <1>11
<1>14. TalesOrdered'
  <2> SUFFICES ASSUME NEW i \in Node, NEW k \in Node
               PROVE  Ordered(i, sendQueue'[k])
    BY DEF TalesOrdered, Ordered, Carry, Res
  <2>1. Ordered(i, Rest(k, m))
    BY <1>1, <1>7, <1>8, QueuesMove DEF JoinInv, TalesOrdered
  <2>2. \A y : Occurs(y, msgs) => ~Carry(i, y) /\ ~Res(i, y)
    BY <1>1, <1>4, <1>8 DEF Carry, Res
  <2> QED BY <1>1, <1>7, <1>8, <2>1, <2>2, QueuesMove
\* The announcement of r comes back: it has passed all nodes.
<1>15. \A i \in Node : \A x \in Node : Informed(i, x) => Informed(i, x)'
  <2> SUFFICES ASSUME NEW i \in Node, NEW x \in Node, Informed(i, x)
               PROVE  Informed(i, x)'
    OBVIOUS
  <2>1. \A k \in Node : \A y : Occurs(y, sendQueue[k]) /\ Carry(i, y) =>
          Occurs(y, sendQueue'[k]) \/ y.nodes \subseteq liveNodes'[i]
    <3> SUFFICES ASSUME NEW k \in Node, NEW y, Occurs(y, sendQueue[k]), Carry(i, y),
                        ~Occurs(y, sendQueue'[k])
                 PROVE  y.nodes \subseteq liveNodes'[i]
      OBVIOUS
    <3>1. k = m /\ y = y0
      BY <1>11
    <3>2. i = s
      BY <3>1 DEF Carry
    <3> QED BY <1>4, <1>9, <3>1, <3>2
  <2> QED BY <1>9, <2>1, InformedStays
<1>16. \A i, x \in Node : i = r /\ x \in y0.nodes => Informed(i, x)'
  BY <1>9 DEF Informed
<1>17. ASSUME confirms(m), NEW x \in Node, x = r, NEW i \in Started
       PROVE  Informed(i, x)'
  <2>1. x = s /\ Own(x, y0)
    BY <1>6, <1>17
  <2>2. PICK F \in SUBSET Started : Stretch(F, m, x) /\ \A j \in Started \ F : Informed(j, x)
    BY <1>1, <2>1 DEF JoinInv, AnnouncementsPass, Passed
  <2>3. F = {x}
    <3>1. LeftRing(Started, rightID) /\ x \in F /\ \A j \in F \ {x} : j # m /\ rightID[j] \in F
      BY <2>2 DEF JoinInv, Stretch
    <3> QED BY <1>1, <1>17, <3>1, StretchEnds
  <2>4. CASE i = x
    BY <1>16, <1>17, <2>1, <2>4 DEF Own
  <2>5. CASE i # x
    BY <1>10, <1>15, <2>2, <2>3, <2>5
  <2> QED BY <2>4, <2>5
\* The parts.
<1>18. ASSUME NEW k \in Node
       PROVE  /\ Resting(k) => Resting(k)'
              /\ Settled(k)' <=> Settled(k) \/ (k = r /\ confirms(m))
              /\ Resting(k)' => Resting(k) \/ (k = r /\ confirms(m))
              /\ pc'[k] \in {"connected", "started", "init"} => pc'[k] = pc[k]
              /\ k = First => pc'[k] = pc[k]
  <2>1. k = First => pc[k] # "init"
    BY DEF JoinInv, FirstAlone
  <2>2. (Resting(k) => Resting(k)') /\ (Resting(k)' => Resting(k) \/ (k = r /\ confirms(m)))
    BY <1>9 DEF Resting
  <2>3. k = First => pc'[k] = pc[k]
    BY <1>9, <2>1
  <2>4. k = First => (Resting(k)' <=> Resting(k))
    BY <2>3 DEF Resting
  <2>5. Settled(k)' <=> Settled(k) \/ (k = r /\ confirms(m))
    BY <1>9, <2>4 DEF Settled
  <2>6. pc'[k] \in {"connected", "started", "init"} => pc'[k] = pc[k]
    BY <1>9
  <2> QED BY <2>2, <2>3, <2>5, <2>6
<1>19. LeftRing(Started, rightID)' /\ FirstAlone' /\ RestersSettled'
  <2>1. LeftRing(Started, rightID)'
    BY <1>7, <1>10 DEF JoinInv
  <2>2. First \in Node
    BY MembershipAssumption
  <2>3. FirstAlone'
    BY <1>10, <1>18, <2>2 DEF JoinInv, FirstAlone
  <2>4. RestersSettled'
    BY <1>18 DEF JoinInv, RestersSettled
  <2> QED BY <2>1, <2>3, <2>4
<1>20. LeftRests'
  <2> SUFFICES ASSUME NEW k \in Node, pc'[k] \in {"connected", "started", "init"}, k # First
               PROVE  pc'[leftID'[k]] \notin {"off", "connected", "started", "init"}
    BY DEF LeftRests, Resting
  <2>1. Resting(leftID[k]) /\ leftID[k] \in Node
    BY <1>18 DEF JoinInv, LeftRests, TypeInv, RingInv, LeftRing, Members
  <2> QED BY <1>7, <1>9, <2>1 DEF Resting
<1>21. OutsidersUnknown'
  <2> SUFFICES ASSUME NEW i \in Node \ Started
               PROVE  /\ sendQueue'[i] = <<>> /\ ~liveNodesConsistent'[i]
                      /\ \A k \in Node :
                           /\ i \notin liveNodes'[k]
                           /\ \A y : Occurs(y, sendQueue'[k]) =>
                                /\ ~Res(i, y)
                                /\ y.type = "NODE_ANNOUNCEMENT" => i # y.sourceNode /\ i \notin y.nodes
    BY <1>10 DEF OutsidersUnknown, Res
  <2>1. sendQueue'[i] = <<>>
    BY <1>0, <1>7, <1>8, HandledOutside
  <2>2. ~liveNodesConsistent'[i]
    BY <1>1, <1>9 DEF JoinInv, OutsidersUnknown
  <2>3. i \notin y0.nodes
    BY <1>1 DEF JoinInv, OutsidersUnknown
  <2>4. \A k \in Node : i \notin liveNodes'[k]
    BY <1>9, <2>3 DEF JoinInv, OutsidersUnknown
  <2> QED BY <1>13, <2>1, <2>2, <2>4 DEF JoinInv, OutsidersUnknown
<1>22. TalesPlaced'
  <2> SUFFICES ASSUME NEW i \in Node, NEW k \in Node, NEW y, Occurs(y, sendQueue'[k]),
                      Carry(i, y) \/ Res(i, y)
               PROVE  /\ k = leftID[i] /\ i # First
                      /\ pc'[i] \in {"started", "init"} /\ ~liveNodesConsistent'[i]
                      /\ \A j \in Node : \A z : Occurs(z, sendQueue'[j]) => ~Own(i, z)
    BY <1>7 DEF TalesPlaced, Carry, Res, Own
  <2>1. Occurs(y, sendQueue[k])
    BY <1>12
  <2>2. /\ k = leftID[i] /\ i # First
        /\ pc[i] \in {"started", "init"} /\ ~liveNodesConsistent[i]
        /\ \A j \in Node : \A z : Occurs(z, sendQueue[j]) => ~Own(i, z)
    BY <2>1 DEF JoinInv, TalesPlaced
  <2>3. ~(i = r /\ confirms(m))
    BY <1>1, <1>6, <2>2
  <2> QED BY <1>9, <1>13, <2>2, <2>3
<1>23. AnnouncementsPass'
  <2> SUFFICES ASSUME NEW b \in Node, NEW p \in Node, NEW y, Occurs(y, sendQueue'[p]), Own(b, y)
               PROVE  Passed(p, b)'
    BY DEF AnnouncementsPass, Own
  <2>1. CASE Occurs(y, Rest(p, m))
    <3>1. PICK F \in SUBSET Started : Stretch(F, p, b) /\ \A i \in Started \ F : Informed(i, b)
      BY <1>11, <2>1 DEF JoinInv, AnnouncementsPass, Passed
    <3>2. Stretch(F, p, b)'
      BY <1>7, <3>1 DEF Stretch
    <3>3. \A i \in Started \ F : Informed(i, b)'
      BY <1>10, <1>15, <3>1
    <3> QED BY <1>10, <3>1, <3>2, <3>3 DEF Passed
  <2>2. CASE p = r /\ y = y0 /\ r # s
    <3>1. b = s /\ s \in y0.nodes
      BY <2>2 DEF Own
    <3>2. PICK F \in SUBSET Started : Stretch(F, m, b) /\ \A i \in Started \ F : Informed(i, b)
      BY <1>1, <2>2 DEF JoinInv, AnnouncementsPass, Passed
    <3>0. PICK G \in SUBSET Started : G = F \ {r}
      BY <3>2
    <3>3. /\ LeftRing(Started, rightID) /\ b \in F /\ p \in F /\ p = rightID[m] /\ p # b
          /\ \A x \in F \ {b} : x # m /\ rightID[x] \in F
      BY <2>2, <3>0, <3>1, <3>2 DEF JoinInv, Stretch
    <3>7. G = F \ {p}
      BY <2>2, <3>0
    <3>4. rightID[p] \in G /\ b \in G /\ \A x \in G \ {b} : x # p /\ rightID[x] \in G
      <4>1. /\ rightID[p] \in F \ {p}
            /\ \A x \in F \ {b} : x # p => rightID[x] \in F \ {p}
        <5>1. LeftRing(Started, rightID)
          BY <3>3
        <5>2. F \in SUBSET Started
          OBVIOUS
        <5>3. m \in Started
          BY <1>1
        <5>4. b \in F /\ p \in F
          BY <3>3
        <5>5. rightID[m] = p
          BY <3>3
        <5>6. p # b
          BY <3>3
        <5>7. \A x \in F \ {b} : x # m /\ rightID[x] \in F
          BY <3>3
        <5> HIDE DEF r
        <5> QED BY <5>1, <5>2, <5>3, <5>4, <5>5, <5>6, <5>7, StretchShrinks
      <4> QED BY <3>3, <3>7, <4>1
    <3>5. Stretch(G, p, b)'
      BY <1>7, <3>4 DEF Stretch
    <3>6. \A i \in Started \ G : Informed(i, b)'
      <4> SUFFICES ASSUME NEW i \in Started \ G PROVE Informed(i, b)'
        OBVIOUS
      <4>1. CASE i = r
        BY <1>1, <1>16, <3>1, <4>1
      <4>2. CASE i # r
        BY <1>10, <1>15, <3>0, <3>2, <4>2
      <4> QED BY <4>1, <4>2
    <3> QED BY <1>10, <3>5, <3>6 DEF Passed
  <2> QED BY <1>11, <2>1, <2>2
<1>24. SettledKnown'
  <2> SUFFICES ASSUME NEW x \in Node, Settled(x)', NEW i \in Started
               PROVE  Informed(i, x)'
    BY <1>10 DEF SettledKnown
  <2>1. CASE Settled(x)
    BY <1>10, <1>15, <2>1 DEF JoinInv, SettledKnown
  <2>2. CASE x = r /\ confirms(m)
    BY <1>17, <2>2
  <2> QED BY <1>18, <2>1, <2>2
<1>25. AnnouncementComes'
  <2> SUFFICES ASSUME NEW i \in Started, ~Settled(i)', i # First
               PROVE  \E k \in Node : \E y : Occurs(y, sendQueue'[k]) /\ (Res(i, y) \/ Own(i, y))
    BY <1>10 DEF AnnouncementComes, Res, Own
  <2>1. ~Settled(i) /\ ~(i = r /\ confirms(m))
    BY <1>10, <1>18
  <2>2. PICK k \in Node : \E y : Occurs(y, sendQueue[k]) /\ (Res(i, y) \/ Own(i, y))
    BY <2>1 DEF JoinInv, AnnouncementComes
  <2>3. PICK y : Occurs(y, sendQueue[k]) /\ (Res(i, y) \/ Own(i, y))
    BY <2>2
  <2>4. CASE y # y0 \/ k # m
    BY <1>11, <2>3, <2>4
  <2>5. CASE y = y0 /\ k = m
    <3>1. i = s /\ Own(s, y0)
      BY <1>1, <2>3, <2>5 DEF Res, Own
    <3>2. r # s
      BY <1>6, <2>1, <3>1
    <3>3. Occurs(y0, sendQueue'[r])
      BY <1>1, <1>11, <3>2
    <3> QED BY <1>1, <3>1, <3>3
  <2> QED BY <2>4, <2>5
<1> QED BY <1>14, <1>19, <1>20, <1>21, <1>22, <1>23, <1>24, <1>25 DEF JoinInv

\* A node that lets another in has an instance to send it.
LEMMA DataStays ==
  ASSUME Calm, JoinInv, Next
  PROVE  DataAtLeft'
<1>0. /\ TypeOK /\ LinkType /\ DOMAIN data = Node
      /\ \A k \in Members : leftID[k] \in Members /\ leftID[k] \in Node
  BY TypeParts DEF JoinInv, TypeInv, TypeOK, RingInv, LeftRing, Members
<1>1. PICK n \in Node :
        createSingleNodeNetwork(n) \/ (\E r \in Node : Connect(n, r)) \/ MainStep(n) \/ Deliver(n)
  BY DEF Next
<1>2. \A k \in Node : DOMAIN data[k] \subseteq DOMAIN data'[k]
  <2>1. CASE UNCHANGED data
    BY <2>1
  <2>2. CASE NewData(n)
    BY <1>0, <2>2 DEF NewData, inserted
  <2>3. CASE ReceiveInstanceAnnouncement(n)
    BY <1>0, <2>3 DEF ReceiveInstanceAnnouncement, inserted
  <2> QED BY <1>1, <2>1, <2>2, <2>3
       DEF createSingleNodeNetwork, Connect, MainStep, Deliver, BuildNetAndRequestData, InitSingle,
           InitSleep, SearchFreeID, SleepFreeID, WakeFreeID, TakeAnyID, ReceiveNodeAnnouncement,
           ReceiveFreeID, ReceiveSearch
<1>3. ASSUME NEW k \in Node, pc[k] = "connected", leftID'[k] = leftID[k]
      PROVE  DOMAIN data'[leftID'[k]] # {}
  <2>1. leftID[k] \in Node /\ DOMAIN data[leftID[k]] # {}
    BY <1>0, <1>3 DEF JoinInv, DataAtLeft, Members
  <2> QED BY <1>2, <1>3, <2>1
<1>4. CASE createSingleNodeNetwork(n)
  BY <1>0, <1>3, <1>4 DEF createSingleNodeNetwork, Goto, DataAtLeft, LinkType
<1>5. ASSUME NEW r \in Node, Connect(n, r)
      PROVE  DataAtLeft'
  <2>1. /\ pc[n] = "off" /\ pc' = [pc EXCEPT ![n] = "connected"] /\ r \in Started
        /\ leftID' = [leftID EXCEPT ![n] = leftID[r], ![r] = n]
        /\ AtRest(r) /\ UNCHANGED data
    BY <1>5 DEF Connect, Goto
  <2>2. r # n /\ pc[r] # "connected"
    BY <2>1 DEF Started
  <2>3. leftID'[n] = leftID[r] /\ \A k \in Node \ {n, r} : leftID'[k] = leftID[k]
    BY <1>0, <2>1, <2>2 DEF LinkType
  <2>4. \A k \in Node \ {n} : pc'[k] = pc[k]
    BY <1>0, <2>1 DEF LinkType
  <2>5. DOMAIN data'[leftID'[n]] # {}
    BY <2>1, <2>3 DEF AtRest
  <2> QED BY <1>3, <2>2, <2>3, <2>4, <2>5 DEF DataAtLeft
<1>6. CASE BuildNetAndRequestData(n)
  BY <1>0, <1>3, <1>6 DEF BuildNetAndRequestData, Goto, DataAtLeft, LinkType
<1>7. CASE (MainStep(n) /\ ~BuildNetAndRequestData(n)) \/ Deliver(n)
  <2>1. UNCHANGED leftID /\ \A k \in Node : pc'[k] = "connected" <=> pc[k] = "connected"
    BY <1>0, <1>7, OtherStep DEF netVars
  <2> QED BY <1>3, <2>1 DEF DataAtLeft
<1> QED BY <1>1, <1>4, <1>5, <1>6, <1>7

LEMMA JoinInvStep == Calm /\ JoinInv /\ [Next]_vars => JoinInv'
<1> SUFFICES ASSUME Calm, JoinInv, [Next]_vars
             PROVE  JoinInv'
  OBVIOUS
<1>1. TypeInv'
  BY TypeInvStep DEF JoinInv
<1>0. DataAtLeft'
  <2>1. CASE UNCHANGED vars
    BY <2>1 DEF vars, netVars, JoinInv, DataAtLeft
  <2> QED BY <2>1, DataStays
<1>2. CASE UNCHANGED vars
  <2>1. QuietStep
    BY <1>2 DEF vars, netVars, idVars, QuietStep, Onward, JoinInv, TalesOrdered, OutsidersUnknown
  <2> QED BY <1>0, <1>1, <2>1, QuietKeeps
<1>3. CASE Next
  <2>1. PICK n \in Node :
          createSingleNodeNetwork(n) \/ (\E r \in Node : Connect(n, r)) \/ MainStep(n) \/ Deliver(n)
    BY <1>3 DEF Next
  <2>2. CASE createSingleNodeNetwork(n)
    BY <1>0, <1>1, <2>2, CreateJoins
  <2>3. CASE \E r \in Node : Connect(n, r)
    BY <1>0, <1>1, <2>3, ConnectJoins
  <2>4. CASE MainStep(n)
    <3>1. CASE BuildNetAndRequestData(n)
      BY <1>0, <1>1, <3>1, BuildJoins
    <3>2. CASE InitSingle(n)
      BY <1>0, <1>1, <3>2, InitSingleJoins
    <3>3. CASE ~BuildNetAndRequestData(n) /\ ~InitSingle(n)
      BY <1>0, <1>1, <2>4, <3>3, MainQuiet, QuietKeeps
    <3> QED BY <3>1, <3>2, <3>3
  <2>5. CASE Deliver(n)
    <3>1. CASE ReceiveNodeAnnouncement(n)
      BY <1>0, <1>1, <3>1, AnnounceJoins
    <3>2. CASE ReceiveInstanceAnnouncement(n)
      BY <1>0, <1>1, <3>2, ResumeJoins, InstanceQuiet, QuietKeeps
    <3>3. CASE ReceiveFreeID(n) \/ ReceiveSearch(n)
      BY <1>0, <1>1, <3>3, SearchQuiet, QuietKeeps
    <3> QED BY <2>5, <3>1, <3>2, <3>3 DEF Deliver
  <2> QED BY <2>1, <2>2, <2>3, <2>4, <2>5
<1> QED BY <1>2, <1>3

\* However many nodes join, in different places at the same time, where the ring
\* rests there: whoever has heard its announcement come back knows all others
\* that have, so that no node drops the messages of a living one.
THEOREM NobodyTakenForDeadAlways == Calm => (Spec => []NobodyTakenForDead)
<1>1. SUFFICES ASSUME Calm
               PROVE  Spec => []NobodyTakenForDead
  OBVIOUS
<1>2. Init => JoinInv
  BY JoinInvInit
<1>3. JoinInv /\ [Next]_vars => JoinInv'
  BY <1>1, JoinInvStep
<1>4. JoinInv => NobodyTakenForDead
  BY JoinInvKnown
<1> QED BY <1>2, <1>3, <1>4, PTL DEF Spec

\* As soon as no message and no start() is under way, all that have joined know
\* the same nodes, however many joined and wherever, where the ring rests there.
THEOREM QuietNodesAgreeAlways == Calm => (Spec => []QuietNodesAgree)
<1>1. SUFFICES ASSUME Calm
               PROVE  Spec => []QuietNodesAgree
  OBVIOUS
<1>2. Init => JoinInv
  BY JoinInvInit
<1>3. JoinInv /\ [Next]_vars => JoinInv'
  BY <1>1, JoinInvStep
<1>4. JoinInv => QuietNodesAgree
  BY JoinInvQuiet
<1> QED BY <1>2, <1>3, <1>4, PTL DEF Spec

-----------------------------------------------------------------------------
(***************************************************************************)
(* Instances with IDs of their own                                         *)
(*                                                                         *)
(* A node with an ID for its instance has it in maxID.  A search for a free*)
(* ID begins with the maxID of its source and is raised above that of each *)
(* node it passes.  ReceiveSearch may send a search on twice, but the one  *)
(* that was raised goes first, and it alone is answered while its source   *)
(* sleeps; so when it is back it has passed every node, those that joined  *)
(* behind it excepted, which have no ID yet.                               *)
(***************************************************************************)
Seeking(n) == pc[n] \in {"searching", "asleep"}

\* In getFreeID().
Named(n) == Seeking(n) \/ pc[n] \in {"woken", "named"}

\* n has an ID for its instance.
HasID(n) == n \in WithFile /\ pc[n] \in {"named", "running"}

\* The nodes that have found an ID.
Given == {n \in WithFile : pc[n] \in {"woken", "named", "running"}}

\* No count of IDs gets this far before all instances have one.
EnoughIDs ==
  IsFiniteSet(WithFile) /\ \A g \in Garbage \cup {1} : g + Cardinality(WithFile) < IDs

\* No ID is higher once the nodes of G have one.
Under(G, id) == \E g \in Garbage \cup {1} : id <= g + Cardinality(G)

SearchOf(n, y) == y.type = "FREE_ID_SEARCH" /\ y.sourceNode = n

\* y is the first search of n in s.
Leads(n, y, s) ==
  \E i \in DOMAIN s : s[i] = y /\ SearchOf(n, y) /\ \A j \in DOMAIN s : j < i => ~SearchOf(n, s[j])

\* B are the nodes from n to p.
Behind(B, p, n) ==
  /\ p \in B /\ n \in B
  /\ \A x \in Started : x \in B \ {p} <=> rightID[x] \in B \ {n}

\* All searches of n that are under way are behind one that has been raised
\* above the IDs of all nodes it has passed.
Led(n) ==
  \E p \in Started : \E B \in SUBSET Started : \E y :
    /\ Behind(B, p, n)
    /\ Leads(n, y, sendQueue[p])
    /\ \A k \in Started \ B : \A z : Occurs(z, sendQueue[k]) => ~SearchOf(n, z)
    /\ \A k \in B : HasID(k) => maxID[k] <= y.slotA

\* What ~Rivals says, of a search to its end.
OneSeeker == \A m, n \in Node : Named(m) /\ Named(n) => m = n

SearchesLed == \A n \in Node : Seeking(n) => Led(n)

TakenIsMax == \A n \in Node : HasID(n) => computationID[n] = maxID[n]

FoundIsAbove == \A n \in Node : pc[n] = "woken" => \A k \in Node : HasID(k) => maxID[k] < maxID[n]

IDsDiffer == \A m, n \in Node : HasID(m) /\ HasID(n) /\ m # n => maxID[m] # maxID[n]

\* n has begun getFreeID(), or needs none.
HasSought(n) == Named(n) \/ pc[n] = "running"

\* What a search, a list of searches and a maxID hold.
SearchersKnown ==
  \A k \in Node :
    /\ \A y : Occurs(y, sendQueue[k]) /\ y.type = "FREE_ID_SEARCH" => HasSought(y.sourceNode) /\ Under(Given, y.slotA)
    /\ \A s : Occurs(s, idSearchColisionQueue[k]) => HasSought(s)
    /\ Under(Given, maxID[k])

RightRing == LeftRing(Started, rightID)

OutsidersSilent == \A n \in Node \ Started : sendQueue[n] = <<>>

IDInv ==
  /\ TypeInv
  /\ RightRing
  /\ OutsidersSilent
  /\ OneSeeker
  /\ SearchesLed
  /\ TakenIsMax
  /\ FoundIsAbove
  /\ IDsDiffer
  /\ SearchersKnown

LEMMA IDInvApart == IDInv => InstancesApart
<1> SUFFICES ASSUME IDInv, NEW m \in WithFile, NEW n \in WithFile, m # n, {pc[m], pc[n]} \subseteq {"named", "running"}
             PROVE  computationID[m] # computationID[n]
  BY DEF InstancesApart
<1>1. HasID(m) /\ HasID(n) /\ m \in Node /\ n \in Node
  BY MembershipAssumption DEF HasID
<1> QED BY <1>1 DEF IDInv, TakenIsMax, IDsDiffer

LEMMA IDInvInit == Init => IDInv
<1> SUFFICES ASSUME Init
             PROVE  IDInv
  OBVIOUS
<1>1. /\ Started = {}
      /\ \A n \in Node : ~Named(n) /\ ~HasID(n) /\ ~Seeking(n) /\ pc[n] # "woken"
  BY DEF Init, Started, Named, Seeking, HasID
<1>2. RightRing /\ OutsidersSilent
  BY <1>1 DEF RightRing, LeftRing, OutsidersSilent, Init
<1>3. Given = {}
  BY MembershipAssumption DEF Given, Init
<1>4. Cardinality(Given) = 0
  BY <1>3, FS_EmptySet
<1>5. \A n \in Node : Under(Given, maxID[n])
  <2>1. \A n \in Node : maxID[n] \in Garbage
    BY DEF Init
  <2>2. \A g \in Garbage : g \in Nat
    BY MembershipAssumption
  <2> QED BY <1>4, <2>1, <2>2 DEF Under
<1>6. SearchersKnown
  BY <1>5 DEF SearchersKnown, Init, Occurs
<1> QED BY <1>1, <1>2, <1>6, TypeInvInit DEF IDInv, OneSeeker, SearchesLed, TakenIsMax, FoundIsAbove, IDsDiffer

-----------------------------------------------------------------------------
(***************************************************************************)
(* The first search of a queue                                             *)
(***************************************************************************)
LEMMA LeadsAppended ==
  ASSUME NEW S, NEW s \in Seq(S), NEW t \in Seq(S), NEW n, NEW y, Leads(n, y, s)
  PROVE  Leads(n, y, s \o t)
<1>1. PICK i \in DOMAIN s : s[i] = y /\ SearchOf(n, y) /\ \A j \in DOMAIN s : j < i => ~SearchOf(n, s[j])
  BY DEF Leads
<1>2. i \in DOMAIN (s \o t) /\ (s \o t)[i] = y
  BY <1>1
<1>3. \A j \in DOMAIN (s \o t) : j < i => j \in DOMAIN s /\ (s \o t)[j] = s[j]
  OBVIOUS
<1> QED BY <1>1, <1>2, <1>3 DEF Leads

\* The first one that is sent.
LEMMA LeadsNew ==
  ASSUME NEW S, NEW s \in Seq(S), NEW y \in S, NEW t \in Seq(S), NEW n, SearchOf(n, y),
         \A z : Occurs(z, s) => ~SearchOf(n, z)
  PROVE  Leads(n, y, s \o (<<y>> \o t))
<1> DEFINE u == s \o (<<y>> \o t)
<1>1. Len(s) \in Nat /\ Len(s) + 1 \in DOMAIN u /\ u[Len(s) + 1] = y
  OBVIOUS
<1>2. \A j \in DOMAIN u : j < Len(s) + 1 => j \in DOMAIN s /\ u[j] = s[j]
  OBVIOUS
<1> HIDE DEF u
<1>3. \A j \in DOMAIN u : j < Len(s) + 1 => ~SearchOf(n, u[j])
  BY <1>2 DEF Occurs
<1>4. Leads(n, y, u)
  BY <1>1, <1>3 DEF Leads
<1> QED BY <1>4 DEF u

LEMMA LeadsTail ==
  ASSUME NEW S, NEW s \in Seq(S), s # <<>>, NEW n, NEW y, Leads(n, y, s)
  PROVE  /\ SearchOf(n, Head(s)) => y = Head(s)
         /\ ~SearchOf(n, Head(s)) => Leads(n, y, Tail(s))
<1>1. PICK i \in DOMAIN s : s[i] = y /\ SearchOf(n, y) /\ \A j \in DOMAIN s : j < i => ~SearchOf(n, s[j])
  BY DEF Leads
<1>2. i \in Nat /\ 1 \in DOMAIN s /\ s[1] = Head(s) /\ 1 <= i
  OBVIOUS
<1>3. CASE i = 1
  BY <1>1, <1>2, <1>3
<1>4. CASE i # 1
  <2>1. ~SearchOf(n, Head(s))
    BY <1>1, <1>2, <1>4
  <2>2. i - 1 \in DOMAIN Tail(s) /\ Tail(s)[i - 1] = y
    BY <1>1, <1>4
  <2>3. \A j \in DOMAIN Tail(s) : j < i - 1 => j + 1 \in DOMAIN s /\ j + 1 < i /\ Tail(s)[j] = s[j + 1]
    BY <1>2
  <2>4. \A j \in DOMAIN Tail(s) : j < i - 1 => ~SearchOf(n, Tail(s)[j])
    BY <1>1, <2>3
  <2> QED BY <1>1, <2>1, <2>2, <2>4 DEF Leads
<1> QED BY <1>3, <1>4

LEMMA LeadsOccurs ==
  ASSUME NEW n, NEW y, NEW s, Leads(n, y, s)
  PROVE  Occurs(y, s) /\ SearchOf(n, y)
BY DEF Leads, Occurs

\* Searches of n stay where they are.
Undisturbed(n) ==
  \A k \in Node :
    /\ \A y : Leads(n, y, sendQueue[k]) => Leads(n, y, sendQueue'[k])
    /\ \A y : Occurs(y, sendQueue'[k]) /\ SearchOf(n, y) => Occurs(y, sendQueue[k])

LEMMA SendUndisturbed ==
  ASSUME TypeOK, NEW k \in Node, NEW msgs \in Seq(Message), Send(k, msgs), NEW n,
         \A y : Occurs(y, msgs) => ~SearchOf(n, y)
  PROVE  Undisturbed(n)
<1> SUFFICES ASSUME NEW l \in Node
             PROVE  /\ \A y : Leads(n, y, sendQueue[l]) => Leads(n, y, sendQueue'[l])
                    /\ \A y : Occurs(y, sendQueue'[l]) /\ SearchOf(n, y) => Occurs(y, sendQueue[l])
  BY DEF Undisturbed
<1>1. sendQueue[l] \in Seq(Message)
  BY DEF TypeOK
<1>2. sendQueue'[l] = IF l = k THEN sendQueue[l] \o msgs ELSE sendQueue[l]
  BY SendType
<1>3. \A y : Occurs(y, sendQueue'[l]) <=> Occurs(y, sendQueue[l]) \/ (l = k /\ Occurs(y, msgs))
  BY QueuesGrow
<1> QED BY <1>1, <1>2, <1>3, LeadsAppended

LEMMA HandledUndisturbed ==
  ASSUME TypeOK, NEW m \in Node, sendQueue[m] # <<>>, NEW msgs \in Seq(Message), Handled(m, msgs), NEW n,
         ~SearchOf(n, msg(m)), \A y : Occurs(y, msgs) => ~SearchOf(n, y)
  PROVE  Undisturbed(n)
<1> SUFFICES ASSUME NEW k \in Node
             PROVE  /\ \A y : Leads(n, y, sendQueue[k]) => Leads(n, y, sendQueue'[k])
                    /\ \A y : Occurs(y, sendQueue'[k]) /\ SearchOf(n, y) => Occurs(y, sendQueue[k])
  BY DEF Undisturbed
<1>1. sendQueue[k] \in Seq(Message) /\ Rest(k, m) \in Seq(Message)
  BY QueuesMove DEF TypeOK
<1>2. sendQueue'[k] = Rest(k, m) \o (IF k = rightID[m] THEN msgs ELSE <<>>)
  BY HandledType DEF Rest
<1>3. \A y : /\ Occurs(y, sendQueue[k]) <=> Occurs(y, Rest(k, m)) \/ (k = m /\ y = msg(m))
             /\ Occurs(y, sendQueue'[k]) <=> Occurs(y, Rest(k, m)) \/ (k = rightID[m] /\ Occurs(y, msgs))
  BY QueuesMove
<1>4. ASSUME NEW y, Leads(n, y, sendQueue[k])
      PROVE  Leads(n, y, sendQueue'[k])
  <2>1. Leads(n, y, Rest(k, m))
    <3>1. CASE k = m
      BY <1>1, <1>4, <3>1, LeadsTail DEF Rest, msg
    <3>2. CASE k # m
      BY <1>4, <3>2 DEF Rest
    <3> QED BY <3>1, <3>2
  <2>2. (IF k = rightID[m] THEN msgs ELSE <<>>) \in Seq(Message)
    OBVIOUS
  <2> QED BY <1>1, <1>2, <2>1, <2>2, LeadsAppended
<1> QED BY <1>3, <1>4

\* The search of n is led as before.
LEMMA LedStays ==
  ASSUME NEW n, Led(n), Undisturbed(n), Started' = Started,
         \A k \in Started : rightID'[k] = rightID[k],
         \A k \in Started : HasID(k)' => HasID(k) /\ maxID'[k] = maxID[k]
  PROVE  Led(n)'
<1>1. PICK p \in Started, B \in SUBSET Started : \E y :
        /\ Behind(B, p, n)
        /\ Leads(n, y, sendQueue[p])
        /\ \A k \in Started \ B : \A z : Occurs(z, sendQueue[k]) => ~SearchOf(n, z)
        /\ \A k \in B : HasID(k) => maxID[k] <= y.slotA
  BY DEF Led
<1>2. PICK y :
        /\ Behind(B, p, n)
        /\ Leads(n, y, sendQueue[p])
        /\ \A k \in Started \ B : \A z : Occurs(z, sendQueue[k]) => ~SearchOf(n, z)
        /\ \A k \in B : HasID(k) => maxID[k] <= y.slotA
  BY <1>1
<1>3. Started \subseteq Node
  BY DEF Started
<1>4. Behind(B, p, n)'
  BY <1>2 DEF Behind
<1>5. Leads(n, y, sendQueue'[p])
  BY <1>2, <1>3 DEF Undisturbed
<1>6. \A k \in Started' \ B : \A z : Occurs(z, sendQueue'[k]) => ~SearchOf(n, z)
  BY <1>2, <1>3 DEF Undisturbed
<1>7. \A k \in B : HasID(k)' => maxID'[k] <= y.slotA
  BY <1>2
<1>8. p \in Started' /\ B \in SUBSET Started'
  BY <1>1
<1> QED BY <1>4, <1>5, <1>6, <1>7, <1>8 DEF Led, Leads, SearchOf

-----------------------------------------------------------------------------
(***************************************************************************)
(* How far the IDs have got                                                *)
(***************************************************************************)
LEMMA UnderGrows ==
  ASSUME EnoughIDs, NEW G \in SUBSET WithFile, NEW H \in SUBSET WithFile, G \subseteq H,
         NEW id \in Nat, Under(G, id)
  PROVE  Under(H, id)
<1>1. PICK g \in Garbage \cup {1} : id <= g + Cardinality(G)
  BY DEF Under
<1>2. g \in Nat
  BY MembershipAssumption
<1>3. IsFiniteSet(H) /\ IsFiniteSet(G)
  BY FS_Subset DEF EnoughIDs
<1>4. Cardinality(G) \in Nat /\ Cardinality(H) \in Nat /\ Cardinality(G) <= Cardinality(H)
  BY <1>3, FS_Subset, FS_CardinalityType
<1>5. id <= g + Cardinality(H)
  BY <1>1, <1>2, <1>4
<1> QED BY <1>5 DEF Under

\* The answer to the search of n does not wrap round.
LEMMA UnderNext ==
  ASSUME EnoughIDs, NEW G \in SUBSET WithFile, NEW n \in WithFile \ G, NEW id \in Nat, Under(G, id)
  PROVE  freeID(id) = id + 1 /\ Under(G \cup {n}, id + 1)
<1>1. PICK g \in Garbage \cup {1} : id <= g + Cardinality(G)
  BY DEF Under
<1>2. g \in Nat /\ g + Cardinality(WithFile) < IDs /\ IDs \in Nat
  BY MembershipAssumption DEF EnoughIDs
<1>3. IsFiniteSet(G) /\ IsFiniteSet(WithFile) /\ G \cup {n} \in SUBSET WithFile
  BY FS_Subset DEF EnoughIDs
<1>4. Cardinality(G \cup {n}) = Cardinality(G) + 1
  BY <1>3, FS_AddElement
<1>5. Cardinality(G) \in Nat /\ Cardinality(WithFile) \in Nat /\ Cardinality(G \cup {n}) <= Cardinality(WithFile)
  BY <1>3, FS_Subset, FS_CardinalityType
<1>6. id + 1 <= g + Cardinality(G \cup {n}) /\ id + 1 < IDs
  BY <1>1, <1>2, <1>4, <1>5
<1>7. (id + 1) % IDs = id + 1
  BY <1>2, <1>6
<1> QED BY <1>6, <1>7 DEF Under, freeID

\* Where main() goes.
Moves == {<<"off", "started">>, <<"off", "connected">>, <<"connected", "started">>,
          <<"started", "ready">>, <<"started", "init">>, <<"init", "ready">>,
          <<"ready", "searching">>, <<"searching", "asleep">>, <<"asleep", "woken">>,
          <<"ready", "named">>, <<"woken", "named">>, <<"named", "running">>, <<"ready", "running">>}

LEMMA PcMoves ==
  ASSUME TypeInv, Next
  PROVE  \/ pc' = pc
         \/ \E k \in Node : \E from, to \in PC : Goto(k, from, to) /\ <<from, to>> \in Moves
<1>0. pc \in [Node -> PC]
  BY DEF TypeInv, TypeOK
<1>1. PICK n \in Node :
        createSingleNodeNetwork(n) \/ (\E r \in Node : Connect(n, r)) \/ MainStep(n) \/ Deliver(n)
  BY DEF Next
<1>2. CASE createSingleNodeNetwork(n)
  BY <1>2 DEF createSingleNodeNetwork, PC, Moves
<1>3. CASE \E r \in Node : Connect(n, r)
  BY <1>3 DEF Connect, PC, Moves
<1>4. CASE MainStep(n)
  <2>1. CASE BuildNetAndRequestData(n)
    BY <2>1 DEF BuildNetAndRequestData, PC, Moves
  <2>2. CASE InitSingle(n) \/ InitSleep(n)
    BY <2>2 DEF InitSingle, InitSleep, PC, Moves
  <2>3. CASE SearchFreeID(n)
    <3>1. Goto(n, "ready", "named") \/ Goto(n, "ready", "searching")
      BY <2>3 DEF SearchFreeID
    <3> QED BY <3>1 DEF PC, Moves
  <2>4. CASE SleepFreeID(n) \/ WakeFreeID(n)
    BY <2>4 DEF SleepFreeID, WakeFreeID, PC, Moves
  <2>5. CASE NewData(n) \/ TakeAnyID(n)
    BY <2>5 DEF NewData, TakeAnyID, PC, Moves
  <2> QED BY <1>4, <2>1, <2>2, <2>3, <2>4, <2>5 DEF MainStep
<1>5. CASE Deliver(n)
  <2> DEFINE r == rightID[n]
  <2>0. pc = [pc EXCEPT ![r] = pc[r]]
    BY <1>0
  <2>1. CASE ReceiveNodeAnnouncement(n)
    <3>1. r \in Node
      BY <2>1, ArrivesType DEF ReceiveNodeAnnouncement
    <3>2. CASE confirms(n) /\ pc[r] = "init"
      <4>1. Goto(r, "init", "ready")
        BY <2>1, <3>2 DEF ReceiveNodeAnnouncement, Goto
      <4> QED BY <3>1, <4>1 DEF PC, Moves
    <3>3. CASE ~(confirms(n) /\ pc[r] = "init")
      BY <2>0, <2>1, <3>3 DEF ReceiveNodeAnnouncement
    <3> QED BY <3>2, <3>3
  <2>2. CASE ReceiveInstanceAnnouncement(n) \/ ReceiveSearch(n)
    BY <2>2 DEF ReceiveInstanceAnnouncement, ReceiveSearch
  <2>3. CASE ReceiveFreeID(n)
    <3>1. r \in Node
      BY <2>3, ArrivesType DEF ReceiveFreeID
    <3>2. CASE pc[r] = "asleep"
      <4>1. Goto(r, "asleep", "woken")
        BY <2>3, <3>2 DEF ReceiveFreeID, Goto
      <4> QED BY <3>1, <4>1 DEF PC, Moves
    <3>3. CASE pc[r] # "asleep"
      BY <2>0, <2>3, <3>3 DEF ReceiveFreeID
    <3> QED BY <3>2, <3>3
  <2> QED BY <1>5, <2>1, <2>2, <2>3 DEF Deliver
<1> QED BY <1>1, <1>2, <1>3, <1>4, <1>5

\* Nobody who has sought an ID, or found one, ever has not.
Forward ==
  /\ \A k \in Node : HasSought(k) => HasSought(k)'
  /\ \A k \in Node : k \in Given => k \in Given'

LEMMA ForwardStep ==
  ASSUME TypeInv, Next
  PROVE  Forward
<1>0. pc \in [Node -> PC]
  BY DEF TypeInv, TypeOK
<1>1. CASE pc' = pc
  BY <1>1 DEF Forward, HasSought, Named, Seeking, Given
<1>2. ASSUME NEW n \in Node, NEW from \in PC, NEW to \in PC, Goto(n, from, to), <<from, to>> \in Moves
      PROVE  Forward
  <2>1. pc[n] = from /\ pc'[n] = to /\ \A k \in Node \ {n} : pc'[k] = pc[k]
    BY <1>0, <1>2 DEF Goto
  <2>2. /\ from \in {"searching", "asleep", "woken", "named", "running"} =>
             to \in {"searching", "asleep", "woken", "named", "running"}
        /\ from \in {"woken", "named", "running"} => to \in {"woken", "named", "running"}
    BY <1>2 DEF Moves
  <2>3. \A k \in Node : HasSought(k) => HasSought(k)'
    BY <2>1, <2>2 DEF HasSought, Named, Seeking
  <2>4. \A k \in Node : k \in Given => k \in Given'
    BY <2>1, <2>2 DEF Given
  <2> QED BY <2>3, <2>4 DEF Forward
<1> QED BY <1>1, <1>2, PcMoves

\* What a step may add to what is known of those who search.
LEMMA KnownGrows ==
  ASSUME EnoughIDs, IDInv, TypeInv', Forward,
         \A k \in Node : \A y : Occurs(y, sendQueue'[k]) /\ y.type = "FREE_ID_SEARCH" =>
            \/ \E j \in Node : Occurs(y, sendQueue[j])
            \/ HasSought(y.sourceNode) /\ Under(Given, y.slotA)
            \/ HasSought(y.sourceNode)' /\ Under(Given', y.slotA),
         \A k \in Node : \A s : Occurs(s, idSearchColisionQueue'[k]) => HasSought(s) \/ HasSought(s)',
         \A k \in Node : maxID'[k] = maxID[k] \/ Under(Given', maxID'[k])
  PROVE  SearchersKnown'
<1>1. /\ Given \in SUBSET WithFile /\ Given' \in SUBSET WithFile /\ Given \subseteq Given'
  BY MembershipAssumption DEF Given, Forward
<1>2. \A id \in Nat : Under(Given, id) => Under(Given', id)
  BY <1>1, UnderGrows
<1>3. \A k \in Node : maxID'[k] \in Nat /\ sendQueue'[k] \in Seq(Message)
  BY MembershipAssumption DEF TypeInv, TypeOK, ID
<1>4. ASSUME NEW k \in Node, NEW y, Occurs(y, sendQueue'[k]), y.type = "FREE_ID_SEARCH"
      PROVE  HasSought(y.sourceNode)' /\ Under(Given', y.slotA)
  <2>1. y \in Message
    BY <1>3, <1>4 DEF Occurs
  <2>2. y.sourceNode \in Node /\ y.slotA \in Nat
    BY <1>4, <2>1, Fields, MembershipAssumption DEF ID
  <2>3. \/ HasSought(y.sourceNode) /\ Under(Given, y.slotA)
        \/ HasSought(y.sourceNode)' /\ Under(Given', y.slotA)
    BY <1>4 DEF IDInv, SearchersKnown
  <2> QED BY <1>2, <2>2, <2>3 DEF Forward
<1>5. ASSUME NEW k \in Node
      PROVE  Under(Given', maxID'[k])
  <2>1. maxID'[k] = maxID[k] => Under(Given, maxID'[k])
    BY DEF IDInv, SearchersKnown
  <2> QED BY <1>2, <1>3, <2>1
<1>6. ASSUME NEW k \in Node, NEW s, Occurs(s, idSearchColisionQueue'[k])
      PROVE  HasSought(s)'
  <2>1. s \in Node
    BY <1>6 DEF TypeInv, TypeOK, Occurs
  <2> QED BY <1>6, <2>1 DEF Forward
<1>7. \A k \in Node : \A y : Occurs(y, sendQueue[k])' /\ y.type = "FREE_ID_SEARCH" =>
        HasSought(y.sourceNode)' /\ Under(Given', y.slotA)
  BY <1>4 DEF Occurs
<1>8. \A k \in Node : \A s : Occurs(s, idSearchColisionQueue[k])' => HasSought(s)'
  BY <1>6 DEF Occurs
<1> QED BY <1>5, <1>7, <1>8 DEF SearchersKnown
-----------------------------------------------------------------------------
(***************************************************************************)
(* The ring of right links                                                 *)
(***************************************************************************)
LEMMA StartedKept ==
  ASSUME TypeInv, NEW n \in Node,
         \/ MainStep(n) /\ ~BuildNetAndRequestData(n)
         \/ Deliver(n)
  PROVE  Started' = Started /\ UNCHANGED netVars
<1>1. LinkType
  BY DEF TypeInv, RingInv
<1>2. /\ UNCHANGED netVars
      /\ \A k \in Node : /\ pc'[k] = "off" <=> pc[k] = "off"
                         /\ pc'[k] = "connected" <=> pc[k] = "connected"
  BY <1>1, OtherStep
<1> QED BY <1>2 DEF Started

LEMMA CreateStarts ==
  ASSUME TypeInv, NEW n \in Node, createSingleNodeNetwork(n)
  PROVE  /\ \A k \in Node : pc[k] = "off"
         /\ pc'[n] = "started" /\ rightID'[n] = n /\ \A k \in Node \ {n} : pc'[k] = "off"
         /\ Started = {} /\ Started' = {n}
<1>1. n = First /\ pc[n] = "off" /\ pc' = [pc EXCEPT ![n] = "started"] /\ rightID' = [rightID EXCEPT ![n] = n]
  BY DEF createSingleNodeNetwork, Goto
<1>2. \A k \in Node : pc[k] = "off"
  BY <1>1 DEF TypeInv, RingInv, FirstIsMember, Members
<1>3. pc \in [Node -> PC] /\ rightID \in [Node -> Node \cup {NoNode}]
  BY DEF TypeInv, TypeOK
<1>4. pc'[n] = "started" /\ rightID'[n] = n /\ \A k \in Node \ {n} : pc'[k] = "off"
  BY <1>1, <1>2, <1>3
<1> QED BY <1>2, <1>4 DEF Started

LEMMA ConnectStarts ==
  ASSUME TypeInv, NEW n \in Node, NEW r \in Node, Connect(n, r)
  PROVE  /\ pc[n] = "off" /\ pc'[n] = "connected" /\ \A k \in Node \ {n} : pc'[k] = pc[k]
         /\ Started' = Started /\ \A k \in Started : rightID'[k] = rightID[k]
<1>1. /\ pc[n] = "off" /\ pc' = [pc EXCEPT ![n] = "connected"] /\ rightID' = [rightID EXCEPT ![n] = r]
      /\ pc \in [Node -> PC] /\ rightID \in [Node -> Node \cup {NoNode}]
  BY DEF Connect, Goto, TypeInv, TypeOK
<1>2. pc'[n] = "connected" /\ \A k \in Node \ {n} : pc'[k] = pc[k] /\ rightID'[k] = rightID[k]
  BY <1>1
<1> QED BY <1>1, <1>2 DEF Started

LEMMA BuildStarts ==
  ASSUME TypeInv, NEW n \in Node, BuildNetAndRequestData(n)
  PROVE  /\ pc[n] = "connected" /\ pc'[n] = "started" /\ \A k \in Node \ {n} : pc'[k] = pc[k]
         /\ n \notin Started /\ Started' = Started \cup {n}
         /\ leftID[n] \in Started /\ rightID'[leftID[n]] = n /\ rightID'[n] = rightID[leftID[n]]
         /\ \A k \in Started \ {leftID[n]} : rightID'[k] = rightID[k]
<1> DEFINE l == leftID[n]
<1>1. /\ pc[n] = "connected" /\ pc[l] # "connected" /\ pc' = [pc EXCEPT ![n] = "started"]
      /\ rightID' = [rightID EXCEPT ![l] = n]
      /\ pc \in [Node -> PC] /\ rightID \in [Node -> Node \cup {NoNode}]
  BY DEF BuildNetAndRequestData, Goto, TypeInv, TypeOK
<1>2. n \in Members /\ l \in Members
  BY <1>1 DEF TypeInv, RingInv, LeftRing, Members
<1>3. rightID[l] = rightID[n]
  BY <1>1, <1>2 DEF TypeInv, RingInv, RightFollows, Connected
<1>4. l \in Started /\ l \in Node /\ l # n /\ n \notin Started
  BY <1>1, <1>2 DEF Members, Started
<1> HIDE DEF l
<1>5. /\ pc'[n] = "started" /\ \A k \in Node \ {n} : pc'[k] = pc[k]
      /\ rightID'[l] = n /\ rightID'[n] = rightID[l]
      /\ \A k \in Node \ {l} : rightID'[k] = rightID[k]
  BY <1>1, <1>3, <1>4
<1>6. Started' = Started \cup {n} /\ Started \subseteq Node
  BY <1>5 DEF Started
<1> QED BY <1>1, <1>4, <1>5, <1>6 DEF l

LEMMA RightRingStep ==
  ASSUME TypeInv, RightRing, Next
  PROVE  RightRing'
<1>1. PICK n \in Node :
        createSingleNodeNetwork(n) \/ (\E r \in Node : Connect(n, r)) \/ MainStep(n) \/ Deliver(n)
  BY DEF Next
<1>2. CASE createSingleNodeNetwork(n)
  <2>1. Started' = {n} /\ rightID'[n] = n
    BY <1>2, CreateStarts
  <2>2. LeftRing({n}, rightID')
    BY <2>1 DEF LeftRing
  <2> QED BY <2>1, <2>2 DEF RightRing
<1>3. CASE \E r \in Node : Connect(n, r)
  <2>1. Started' = Started /\ \A k \in Started : rightID'[k] = rightID[k]
    BY <1>3, ConnectStarts
  <2>2. LeftRing(Started, rightID')
    BY <2>1 DEF RightRing, LeftRing
  <2> QED BY <2>1, <2>2 DEF RightRing
<1>4. CASE BuildNetAndRequestData(n)
  <2> DEFINE l == leftID[n]
  <2>1. /\ n \notin Started /\ l \in Started /\ rightID'[l] = n /\ rightID'[n] = rightID[l]
        /\ \A k \in Started \ {l} : rightID'[k] = rightID[k]
        /\ Started' = Started \cup {n} /\ LeftRing(Started, rightID)
    BY <1>4, BuildStarts DEF RightRing
  <2> HIDE DEF l
  <2>2. LeftRing(Started \cup {n}, rightID')
    BY <2>1, InsertKeepsRing
  <2> QED BY <2>1, <2>2 DEF RightRing
<1>5. CASE (MainStep(n) /\ ~BuildNetAndRequestData(n)) \/ Deliver(n)
  BY <1>5, StartedKept DEF RightRing, netVars
<1> QED BY <1>1, <1>2, <1>3, <1>4, <1>5

-----------------------------------------------------------------------------
(***************************************************************************)
(* Steps that leave the searches alone                                     *)
(***************************************************************************)
IDsStill ==
  \A k \in Node :
    /\ Named(k)' => Named(k)
    /\ Seeking(k)' <=> Seeking(k)
    /\ HasID(k)' <=> HasID(k)
    /\ pc'[k] = "woken" <=> pc[k] = "woken"
    /\ HasID(k) \/ pc[k] = "woken" => maxID'[k] = maxID[k] /\ computationID'[k] = computationID[k]

LEMMA IDsKept ==
  ASSUME IDInv, TypeInv', RightRing', OutsidersSilent', SearchersKnown', IDsStill,
         \A n \in Node : Seeking(n) => Led(n)'
  PROVE  IDInv'
<1>1. OneSeeker'
  BY DEF IDInv, OneSeeker, IDsStill
<1>2. SearchesLed'
  BY DEF SearchesLed, IDsStill
<1>3. TakenIsMax'
  BY DEF IDInv, TakenIsMax, IDsStill
<1>4. FoundIsAbove'
  BY DEF IDInv, FoundIsAbove, IDsStill
<1>5. IDsDiffer'
  BY DEF IDInv, IDsDiffer, IDsStill
<1> QED BY <1>1, <1>2, <1>3, <1>4, <1>5 DEF IDInv

LEMMA UndisturbedKnown ==
  ASSUME EnoughIDs, IDInv, TypeInv', Forward,
         \A n \in Node : Undisturbed(n),
         UNCHANGED idSearchColisionQueue,
         \A k \in Node : maxID'[k] = maxID[k] \/ Under(Given', maxID'[k])
  PROVE  SearchersKnown'
<1>1. ASSUME NEW k \in Node, NEW y, Occurs(y, sendQueue'[k]), y.type = "FREE_ID_SEARCH"
      PROVE  \E j \in Node : Occurs(y, sendQueue[j])
  <2>1. y \in Message
    BY <1>1 DEF TypeInv, TypeOK, Occurs
  <2>2. y.sourceNode \in Node /\ SearchOf(y.sourceNode, y)
    BY <1>1, <2>1, Fields DEF SearchOf
  <2> QED BY <1>1, <2>2 DEF Undisturbed
<1>2. \A k \in Node : \A s : Occurs(s, idSearchColisionQueue'[k]) => HasSought(s) \/ HasSought(s)'
  BY DEF IDInv, SearchersKnown
<1> QED BY <1>1, <1>2, KnownGrows

LEMMA StillStep ==
  ASSUME IDInv, TypeInv', RightRing', IDsStill, OutsidersSilent', SearchersKnown',
         Started' = Started, \A k \in Started : rightID'[k] = rightID[k],
         \A n \in Node : Seeking(n) => Undisturbed(n)
  PROVE  IDInv'
<1>1. \A n \in Node : Seeking(n) => Led(n)'
  <2> SUFFICES ASSUME NEW n \in Node, Seeking(n)
               PROVE  Led(n)'
    OBVIOUS
  <2>1. Led(n)
    BY DEF IDInv, SearchesLed
  <2>2. \A k \in Started : HasID(k)' => HasID(k) /\ maxID'[k] = maxID[k]
    BY DEF IDsStill, Started
  <2> QED BY <2>1, <2>2, LedStays
<1> QED BY <1>1, IDsKept

\* Nobody who is not started sends, or is sent, anything.
LEMMA SendSilent ==
  ASSUME IDInv, NEW n \in Started, NEW msgs \in Seq(Message), Send(n, msgs), Started' = Started
  PROVE  OutsidersSilent'
<1>1. n \in Node /\ TypeOK
  BY DEF Started, IDInv, TypeInv
<1>2. \A k \in Node \ Started : sendQueue'[k] = sendQueue[k]
  BY <1>1, SendType
<1> QED BY <1>2 DEF IDInv, OutsidersSilent

LEMMA ArrivesInside ==
  ASSUME IDInv, NEW m \in Node, NEW type, Arrives(m, type)
  PROVE  /\ m \in Started /\ rightID[m] \in Started /\ rightID[m] \in Node
         /\ TypeOK /\ sendQueue[m] # <<>> /\ msg(m) \in Message /\ msg(m).type = type
         /\ Occurs(msg(m), sendQueue[m])
<1>1. m \in Started /\ sendQueue[m] # <<>> /\ msg(m) \in Message /\ msg(m).type = type
  BY ArrivesType DEF IDInv
<1>2. rightID[m] \in Started /\ rightID[m] \in Node
  BY <1>1 DEF IDInv, RightRing, LeftRing, Started
<1>3. TypeOK /\ sendQueue[m] \in Seq(Message)
  BY DEF IDInv, TypeInv, TypeOK
<1>4. Occurs(msg(m), sendQueue[m])
  BY <1>1, <1>3, OccursTail DEF msg
<1> QED BY <1>1, <1>2, <1>3, <1>4

LEMMA HandledSilent ==
  ASSUME IDInv, NEW m \in Node, NEW type, Arrives(m, type), NEW msgs \in Seq(Message), Handled(m, msgs),
         Started' = Started
  PROVE  OutsidersSilent'
<1> SUFFICES ASSUME NEW k \in Node \ Started
             PROVE  sendQueue'[k] = <<>>
  BY DEF OutsidersSilent
<1>1. k # m /\ k # rightID[m] /\ sendQueue[k] = <<>>
  BY ArrivesInside DEF IDInv, OutsidersSilent
<1>2. sendQueue'[k] = sendQueue[k] \o <<>>
  BY <1>1, ArrivesInside, HandledType
<1> QED BY <1>1, <1>2
-----------------------------------------------------------------------------
(***************************************************************************)
(* One step at a time                                                      *)
(***************************************************************************)
LEMMA NothingSent ==
  ASSUME IDInv, UNCHANGED sendQueue, Started \subseteq Started'
  PROVE  OutsidersSilent' /\ \A n : Undisturbed(n)
<1>1. OutsidersSilent'
  BY DEF IDInv, OutsidersSilent
<1>2. \A n : Undisturbed(n)
  BY DEF Undisturbed
<1> QED BY <1>1, <1>2

LEMMA CreateIDs ==
  ASSUME EnoughIDs, IDInv, TypeInv', RightRing', Forward, NEW n \in Node, createSingleNodeNetwork(n)
  PROVE  IDInv'
<1>1. /\ \A k \in Node : pc[k] = "off"
      /\ pc'[n] = "started" /\ \A k \in Node \ {n} : pc'[k] = "off"
      /\ Started = {} /\ Started' = {n}
  BY CreateStarts DEF IDInv
<1>2. \A k \in Node : /\ ~Named(k)' /\ ~HasID(k)' /\ ~Seeking(k)' /\ pc'[k] # "woken"
                      /\ ~Named(k) /\ ~HasID(k) /\ ~Seeking(k) /\ pc[k] # "woken"
  BY <1>1 DEF Named, Seeking, HasID
<1>3. UNCHANGED <<sendQueue, maxID, idSearchColisionQueue, computationID>>
  BY DEF createSingleNodeNetwork, idVars
<1>4. OutsidersSilent'
  BY <1>1, <1>3, NothingSent
<1>5. SearchersKnown'
  <2>1. \A k \in Node : \A y : Occurs(y, sendQueue'[k]) => \E j \in Node : Occurs(y, sendQueue[j])
    BY <1>3
  <2>2. \A k \in Node : \A s : Occurs(s, idSearchColisionQueue'[k]) => HasSought(s)
    BY <1>3 DEF IDInv, SearchersKnown
  <2> QED BY <1>3, <2>1, <2>2, KnownGrows
<1>6. IDsStill
  BY <1>2 DEF IDsStill
<1> QED BY <1>2, <1>4, <1>5, <1>6, IDsKept

LEMMA ConnectIDs ==
  ASSUME EnoughIDs, IDInv, TypeInv', RightRing', Forward, NEW n \in Node, NEW r \in Node, Connect(n, r)
  PROVE  IDInv'
<1>1. /\ pc[n] = "off" /\ pc'[n] = "connected" /\ \A k \in Node \ {n} : pc'[k] = pc[k]
      /\ Started' = Started /\ \A k \in Started : rightID'[k] = rightID[k]
  BY ConnectStarts DEF IDInv
<1>2. UNCHANGED <<sendQueue, maxID, idSearchColisionQueue, computationID>>
  BY DEF Connect, idVars
<1>3. OutsidersSilent' /\ \A k \in Node : Undisturbed(k)
  BY <1>1, <1>2, NothingSent
<1>4. IDsStill
  BY <1>1, <1>2 DEF IDsStill, Named, Seeking, HasID
<1>5. SearchersKnown'
  BY <1>2, <1>3, UndisturbedKnown
<1> QED BY <1>1, <1>3, <1>4, <1>5, StillStep

\* No search is sent to a new node.
LEMMA SentNoSearch ==
  ASSUME TypeOK, NEW l \in Node, NEW n \in Node, NEW y, Occurs(y, sendAllData(l, n))
  PROVE  y.type # "FREE_ID_SEARCH"
<1> DEFINE names == NodeAnnouncement(n, liveNodes[l])
           a == IF liveNodes[l] = {} THEN <<>> ELSE <<names>>
           b == instances(data[l], n)
<1>1. names \in Message /\ b \in Seq(Message) /\ names.type = "NODE_ANNOUNCEMENT"
  BY SentType DEF NodeAnnouncement
<1>2. \A i \in DOMAIN b : b[i].type = "INSTANCE_ANNOUNCEMENT"
  <2>1. DOMAIN data[l] \subseteq ID /\ Range(data[l]) \subseteq WithFile
    BY DEF TypeOK
  <2> QED BY <2>1, InstancesType
<1>3. sendAllData(l, n) = a \o b
  BY DEF sendAllData
<1> HIDE DEF names, b
<1>4. a \in Seq(Message) /\ \A z : Occurs(z, a) => z = names
  <2>1. <<names>> \in Seq(Message) /\ <<>> \in Seq(Message)
    BY <1>1, OneMessage
  <2>2. \A z : ~Occurs(z, <<>>) /\ (Occurs(z, <<names>>) <=> z = names)
    BY OccursOnce
  <2> QED BY <2>1, <2>2
<1> HIDE DEF a
<1>5. Occurs(y, a) \/ Occurs(y, b)
  BY <1>1, <1>3, <1>4, OccursAppended
<1>6. CASE Occurs(y, a)
  BY <1>1, <1>4, <1>6
<1>7. CASE Occurs(y, b)
  BY <1>2, <1>7 DEF Occurs
<1> QED BY <1>5, <1>6, <1>7

\* A new node is put between two nodes both of which a search has passed, or
\* before the next one it comes to.
LEMMA BuildIDs ==
  ASSUME EnoughIDs, IDInv, TypeInv', RightRing', Forward, NEW n \in Node, BuildNetAndRequestData(n)
  PROVE  IDInv'
<1> DEFINE l == leftID[n]
           msgs == sendAllData(l, n)
<1>1. /\ pc[n] = "connected" /\ pc'[n] = "started" /\ \A k \in Node \ {n} : pc'[k] = pc[k]
      /\ n \notin Started /\ Started' = Started \cup {n}
      /\ l \in Started /\ rightID'[l] = n /\ rightID'[n] = rightID[l]
      /\ \A k \in Started \ {l} : rightID'[k] = rightID[k]
  BY BuildStarts DEF IDInv
<1>2. UNCHANGED <<maxID, idSearchColisionQueue, computationID>> /\ Send(l, msgs)
  BY DEF BuildNetAndRequestData, idVars
<1>3. TypeOK /\ l \in Node /\ Started \subseteq Node
  BY <1>1 DEF IDInv, TypeInv, Started
<1>4. msgs \in Seq(Message) /\ \A y : Occurs(y, msgs) => y.type # "FREE_ID_SEARCH"
  BY <1>3, SentType, SentNoSearch
<1> HIDE DEF msgs, l
<1>5. \A k \in Node : Undisturbed(k)
  BY <1>2, <1>3, <1>4, SendUndisturbed DEF SearchOf
<1>6. OutsidersSilent'
  <2>1. \A k \in Node \ Started : sendQueue'[k] = sendQueue[k]
    BY <1>1, <1>2, <1>3, <1>4, SendType
  <2> QED BY <1>1, <2>1 DEF IDInv, OutsidersSilent
<1>7. IDsStill
  BY <1>1, <1>2 DEF IDsStill, Named, Seeking, HasID
<1>8. SearchersKnown'
  <2>1. \A k \in Node : \A y : Occurs(y, sendQueue'[k]) /\ y.type = "FREE_ID_SEARCH" =>
           \E j \in Node : Occurs(y, sendQueue[j])
    BY <1>2, <1>3, <1>4, QueuesGrow
  <2>2. \A k \in Node : \A s : Occurs(s, idSearchColisionQueue'[k]) => HasSought(s)
    BY <1>2 DEF IDInv, SearchersKnown
  <2> QED BY <1>2, <2>1, <2>2, KnownGrows
<1>9. ASSUME NEW s \in Node, Seeking(s)
      PROVE  Led(s)'
  <2>1. PICK p \in Started, B \in SUBSET Started : \E y :
          /\ Behind(B, p, s)
          /\ Leads(s, y, sendQueue[p])
          /\ \A k \in Started \ B : \A z : Occurs(z, sendQueue[k]) => ~SearchOf(s, z)
          /\ \A k \in B : HasID(k) => maxID[k] <= y.slotA
    BY <1>9 DEF IDInv, SearchesLed, Led
  <2>2. PICK y :
          /\ Behind(B, p, s)
          /\ Leads(s, y, sendQueue[p])
          /\ \A k \in Started \ B : \A z : Occurs(z, sendQueue[k]) => ~SearchOf(s, z)
          /\ \A k \in B : HasID(k) => maxID[k] <= y.slotA
    BY <2>1
  <2>3. \A k \in Started : rightID[k] \in Started
    BY DEF IDInv, RightRing, LeftRing
  <2>4. PICK C :
          /\ B \subseteq C /\ C \subseteq B \cup {n} /\ p \in C /\ s \in C
          /\ C \in SUBSET (Started \cup {n})
          /\ \A x \in Started \cup {n} : x \in C \ {p} <=> rightID'[x] \in C \ {s}
    <3>0. /\ p \in B /\ s \in B /\ B \subseteq Started /\ p # n /\ s # n
          /\ \A x \in Started : x \in B \ {p} <=> rightID[x] \in B \ {s}
          /\ \A x \in Started \ {l} : rightID'[x] = rightID[x] /\ rightID'[x] \in Started
      BY <1>1, <2>2, <2>3 DEF Behind
    <3>1. CASE l \in B \ {p}
      <4>1. \A x \in Started \cup {n} : x \in (B \cup {n}) \ {p} <=> rightID'[x] \in (B \cup {n}) \ {s}
        BY <1>1, <3>0, <3>1
      <4> QED BY <3>0, <4>1
    <3>2. CASE l \notin B \ {p}
      <4>1. \A x \in Started \cup {n} : x \in B \ {p} <=> rightID'[x] \in B \ {s}
        BY <1>1, <3>0, <3>2
      <4> QED BY <3>0, <4>1
    <3> QED BY <3>1, <3>2
  <2>5. Behind(C, p, s)'
    BY <1>1, <2>4 DEF Behind
  <2>6. Leads(s, y, sendQueue'[p])
    BY <1>3, <1>5, <2>2 DEF Undisturbed
  <2>7. ASSUME NEW k \in Started' \ C, NEW z, Occurs(z, sendQueue'[k])
        PROVE  ~SearchOf(s, z)
    <3>1. k \in Node
      BY <1>1, <1>3
    <3>2. SearchOf(s, z) => Occurs(z, sendQueue[k])
      BY <1>5, <2>7, <3>1 DEF Undisturbed
    <3>3. CASE k \in Started
      BY <2>2, <2>4, <2>7, <3>2, <3>3
    <3>4. CASE k \notin Started
      BY <3>1, <3>2, <3>4 DEF IDInv, OutsidersSilent, Occurs
    <3> QED BY <3>3, <3>4
  <2>8. \A k \in C : HasID(k)' => maxID'[k] <= y.slotA
    <3>1. ~HasID(n)'
      BY <1>1 DEF HasID
    <3>2. \A k \in Started : HasID(k)' <=> HasID(k)
      BY <1>3, <1>7 DEF IDsStill
    <3> QED BY <1>2, <2>2, <2>4, <3>1, <3>2
  <2>9. p \in Started' /\ C \in SUBSET Started'
    BY <1>1, <2>4
  <2> QED BY <2>5, <2>6, <2>7, <2>8, <2>9 DEF Led, Leads, SearchOf, Occurs
<1> QED BY <1>6, <1>7, <1>8, <1>9, IDsKept
\* A step of main() that sends no search.
LEMMA MainStill ==
  ASSUME EnoughIDs, IDInv, TypeInv', RightRing', Forward, NEW n \in Node,
         InitSingle(n) \/ InitSleep(n) \/ SleepFreeID(n) \/ NewData(n) \/ TakeAnyID(n)
  PROVE  IDInv'
<1>0. TypeOK /\ pc \in [Node -> PC] /\ maxID \in [Node -> ID] /\ computationID \in [Node -> ID]
  BY DEF IDInv, TypeInv, TypeOK
<1>1. Started' = Started /\ rightID' = rightID /\ UNCHANGED idSearchColisionQueue
  <2>1. MainStep(n) /\ ~BuildNetAndRequestData(n)
    BY DEF MainStep, BuildNetAndRequestData, InitSingle, InitSleep, SleepFreeID, NewData, TakeAnyID, Goto
  <2>2. Started' = Started /\ UNCHANGED netVars
    BY <2>1, StartedKept DEF IDInv
  <2> QED BY <2>2 DEF netVars, InitSingle, InitSleep, SleepFreeID, NewData, TakeAnyID, idVars
<1>2. n \in Started
  BY DEF Started, InitSingle, InitSleep, SleepFreeID, NewData, TakeAnyID, Goto
<1>3. OutsidersSilent' /\ \A k \in Node : Undisturbed(k)
  <2>1. CASE UNCHANGED sendQueue
    BY <1>1, <2>1, NothingSent
  <2>2. CASE NewData(n)
    <3> DEFINE y1 == InstanceAnnouncement(n, computationID[n], n, FALSE)
               msgs == IF isSingle(n) THEN <<>> ELSE <<y1>>
    <3>1. y1 \in Message /\ y1.type = "INSTANCE_ANNOUNCEMENT"
      <4>1. n \in WithFile /\ computationID[n] \in ID
        BY <1>0, <2>2 DEF NewData, Goto, IDInv, TypeInv, SeekersHaveFile, TypeOK
      <4> QED BY <4>1 DEF InstanceAnnouncement, Message
    <3>2. Send(n, msgs)
      BY <2>2 DEF NewData
    <3> HIDE DEF y1
    <3>3. msgs \in Seq(Message) /\ \A y : Occurs(y, msgs) => y.type # "FREE_ID_SEARCH"
      <4>1. <<y1>> \in Seq(Message) /\ <<>> \in Seq(Message)
        BY <3>1, OneMessage
      <4>2. \A y : ~Occurs(y, <<>>) /\ (Occurs(y, <<y1>>) => y = y1)
        BY OccursOnce
      <4> QED BY <3>1, <4>1, <4>2
    <3> HIDE DEF msgs
    <3>4. OutsidersSilent'
      BY <1>1, <1>2, <3>2, <3>3, SendSilent
    <3>5. \A k \in Node : Undisturbed(k)
      BY <1>0, <3>2, <3>3, SendUndisturbed DEF SearchOf
    <3> QED BY <3>4, <3>5
  <2> QED BY <2>1, <2>2 DEF InitSingle, InitSleep, SleepFreeID, TakeAnyID
<1>4. IDsStill
  <2>1. CASE InitSingle(n) \/ InitSleep(n)
    <3>1. /\ pc[n] = "started" /\ pc' = [pc EXCEPT ![n] = IF InitSingle(n) THEN "ready" ELSE "init"]
          /\ computationID' = computationID
          /\ maxID' = maxID \/ maxID' = [maxID EXCEPT ![n] = 1]
      <4>1. CASE InitSingle(n)
        BY <4>1 DEF InitSingle, Goto
      <4>2. CASE InitSleep(n) /\ ~InitSingle(n)
        BY <4>2 DEF InitSleep, Goto, idVars
      <4> QED BY <2>1, <4>1, <4>2
    <3>2. /\ pc'[n] \in {"ready", "init"}
          /\ \A k \in Node \ {n} : pc'[k] = pc[k] /\ maxID'[k] = maxID[k]
      BY <1>0, <3>1
    <3> QED BY <3>1, <3>2 DEF IDsStill, Named, Seeking, HasID
  <2>2. CASE SleepFreeID(n)
    BY <1>0, <2>2 DEF SleepFreeID, Goto, idVars, IDsStill, Named, Seeking, HasID
  <2>3. CASE NewData(n)
    BY <1>0, <2>3 DEF NewData, Goto, idVars, IDsStill, Named, Seeking, HasID
  <2>4. CASE TakeAnyID(n)
    BY <1>0, <2>4 DEF TakeAnyID, Goto, idVars, IDsStill, Named, Seeking, HasID
  <2> QED BY <2>1, <2>2, <2>3, <2>4
<1>5. \A k \in Node : maxID'[k] = maxID[k] \/ Under(Given', maxID'[k])
  <2>1. CASE InitSingle(n)
    <3>0. maxID' = [maxID EXCEPT ![n] = 1]
      BY <2>1 DEF InitSingle
    <3>1. \A k \in Node : maxID'[k] = maxID[k] \/ maxID'[k] = 1
      <4>1. maxID'[n] = 1 /\ \A k \in Node \ {n} : maxID'[k] = maxID[k]
        BY <1>0, <3>0
      <4> QED BY <4>1
    <3>2. Given' \in SUBSET WithFile
      BY DEF Given
    <3>3. Cardinality(Given') \in Nat
      BY <3>2, FS_Subset, FS_CardinalityType DEF EnoughIDs
    <3>4. Under(Given', 1)
      <4>1. 1 <= 1 + Cardinality(Given')
        BY <3>3
      <4> QED BY <4>1 DEF Under
    <3> QED BY <3>1, <3>4
  <2>2. CASE UNCHANGED maxID
    BY <2>2
  <2> QED BY <2>1, <2>2 DEF InitSleep, SleepFreeID, NewData, TakeAnyID, idVars
<1>6. SearchersKnown'
  BY <1>1, <1>3, <1>5, UndisturbedKnown
<1> QED BY <1>1, <1>3, <1>4, <1>6, StillStep

\* A node that is alone takes the ID it has.
LEMMA AloneIDs ==
  ASSUME EnoughIDs, IDInv, TypeInv', RightRing', Forward, ~Rivals, NEW n \in Node,
         SearchFreeID(n), isSingle(n)
  PROVE  IDInv'
<1>0. pc \in [Node -> PC] /\ computationID \in [Node -> ID]
  BY DEF IDInv, TypeInv, TypeOK
<1>1. /\ pc[n] = "ready" /\ pc' = [pc EXCEPT ![n] = "named"]
      /\ computationID' = [computationID EXCEPT ![n] = maxID[n]]
      /\ UNCHANGED <<sendQueue, maxID, idSearchColisionQueue>>
      /\ Unrivalled /\ leftID[n] = n
  BY DEF SearchFreeID, Goto, idVars, isSingle
<1>2. Members = {n}
  <2>1. n \in Members /\ {n} \in SUBSET Members /\ \A k \in {n} : leftID[k] \in {n}
    BY <1>1 DEF Members
  <2>2. LeftRing(Members, leftID)
    BY DEF IDInv, TypeInv, RingInv
  <2>3. {n} # {}
    OBVIOUS
  <2>4. \A S \in SUBSET Members : (S # {} /\ \A k \in S : leftID[k] \in S) => S = Members
    BY <2>2 DEF LeftRing
  <2> QED BY <2>1, <2>3, <2>4
<1>3. /\ pc'[n] = "named" /\ computationID'[n] = maxID[n]
      /\ \A k \in Node \ {n} : pc[k] = "off" /\ pc'[k] = "off"
  BY <1>0, <1>1, <1>2 DEF Members
<1>4. \A k \in Node \ {n} : ~Named(k)' /\ ~HasID(k)' /\ ~Seeking(k)' /\ pc'[k] # "woken"
  BY <1>3 DEF Named, Seeking, HasID
<1>5. OneSeeker'
  BY <1>4 DEF OneSeeker
<1>6. SearchesLed'
  <2>1. ~Seeking(n)'
    BY <1>3 DEF Seeking
  <2> QED BY <1>4, <2>1 DEF SearchesLed
<1>7. TakenIsMax' /\ FoundIsAbove' /\ IDsDiffer'
  BY <1>1, <1>3, <1>4 DEF TakenIsMax, FoundIsAbove, IDsDiffer
<1>8. Started' = Started
  BY <1>1, <1>3 DEF Started
<1>9. OutsidersSilent' /\ \A k \in Node : Undisturbed(k)
  BY <1>1, <1>8, NothingSent
<1>10. SearchersKnown'
  BY <1>1, <1>9, UndisturbedKnown
<1> QED BY <1>5, <1>6, <1>7, <1>9, <1>10 DEF IDInv

\* A search begins, before its source has passed any other.
LEMMA SearchIDs ==
  ASSUME EnoughIDs, IDInv, TypeInv', RightRing', Forward, ~Rivals, NEW n \in Node,
         SearchFreeID(n), ~isSingle(n)
  PROVE  IDInv'
<1> DEFINE y1 == FreeIDSearch(n, maxID[n])
<1>0. TypeOK /\ pc \in [Node -> PC] /\ maxID[n] \in ID /\ Started \subseteq Node
  BY DEF IDInv, TypeInv, TypeOK, Started
<1>1. /\ pc[n] = "ready" /\ pc' = [pc EXCEPT ![n] = "searching"]
      /\ Send(n, <<y1>>)
      /\ UNCHANGED <<rightID, computationID, maxID, idSearchColisionQueue>>
      /\ Unrivalled
  BY DEF SearchFreeID, Goto, idVars, netVars
<1>2. pc'[n] = "searching" /\ \A k \in Node \ {n} : pc'[k] = pc[k]
  BY <1>0, <1>1
<1>3. y1 \in Message /\ y1.type = "FREE_ID_SEARCH" /\ y1.sourceNode = n /\ y1.slotA = maxID[n]
  BY <1>0 DEF FreeIDSearch, Message
<1> HIDE DEF y1
<1>4. <<y1>> \in Seq(Message) /\ \A y : Occurs(y, <<y1>>) => y = y1
  BY <1>3, OneMessage, OccursOnce
<1>5. Started' = Started /\ n \in Started
  BY <1>1, <1>2 DEF Started
<1>6. OutsidersSilent'
  BY <1>1, <1>4, <1>5, SendSilent
<1>7. SearchersKnown'
  <2>1. HasSought(n)' /\ Under(Given, maxID[n])
    BY <1>2 DEF HasSought, Named, Seeking, IDInv, SearchersKnown
  <2>2. \A k \in Node : \A y :
          Occurs(y, sendQueue'[k]) <=> Occurs(y, sendQueue[k]) \/ (k = n /\ Occurs(y, <<y1>>))
    BY <1>0, <1>1, <1>4, QueuesGrow
  <2>3. Given' \in SUBSET WithFile /\ Given \in SUBSET WithFile /\ Given \subseteq Given' /\ maxID[n] \in Nat
    <3>1. Given' \in SUBSET WithFile /\ Given \in SUBSET WithFile /\ Given \in SUBSET Node
      BY MembershipAssumption DEF Given
    <3>2. maxID[n] \in Nat
      BY <1>0, MembershipAssumption DEF ID
    <3> QED BY <3>1, <3>2 DEF Forward
  <2>4. Under(Given', maxID[n])
    BY <2>1, <2>3, UnderGrows
  <2>5. \A k \in Node : \A y : Occurs(y, sendQueue'[k]) /\ y.type = "FREE_ID_SEARCH" =>
          \/ \E j \in Node : Occurs(y, sendQueue[j])
          \/ HasSought(y.sourceNode)' /\ Under(Given', y.slotA)
    BY <1>3, <1>4, <2>1, <2>2, <2>4
  <2>6. \A k \in Node : \A s : Occurs(s, idSearchColisionQueue'[k]) => HasSought(s)
    BY <1>1 DEF IDInv, SearchersKnown
  <2>7. \A k \in Node : maxID'[k] = maxID[k]
    BY <1>1
  <2> QED BY <2>5, <2>6, <2>7, KnownGrows
<1>8. \A k \in Node : /\ k # n => ~Named(k)' /\ ~Seeking(k)'
                      /\ pc'[k] # "woken"
                      /\ HasID(k)' <=> HasID(k)
  BY <1>1, <1>2 DEF Unrivalled, Named, Seeking, HasID
<1>9. Led(n)'
  <2>1. Behind({n}, n, n)'
    BY DEF Behind
  <2>2. \A k \in Node : \A z : Occurs(z, sendQueue[k]) => ~SearchOf(n, z)
    <3>1. ~HasSought(n)
      BY <1>1 DEF HasSought, Named, Seeking
    <3> QED BY <3>1 DEF IDInv, SearchersKnown, SearchOf
  <2>3. Leads(n, y1, sendQueue'[n])
    <3>1. sendQueue[n] \in Seq(Message) /\ sendQueue'[n] = sendQueue[n] \o <<y1>>
      BY <1>0, <1>1, <1>4, SendType DEF TypeOK
    <3>2. <<y1>> \o <<>> = <<y1>> /\ <<>> \in Seq(Message)
      BY <1>4
    <3>3. SearchOf(n, y1)
      BY <1>3 DEF SearchOf
    <3>4. Leads(n, y1, sendQueue[n] \o (<<y1>> \o <<>>))
      BY <1>3, <2>2, <3>1, <3>2, <3>3, LeadsNew
    <3> QED BY <3>1, <3>2, <3>4
  <2>4. \A k \in Started \ {n} : \A z : Occurs(z, sendQueue'[k]) => ~SearchOf(n, z)
    BY <1>0, <1>1, <1>4, <2>2, SendType
  <2>5. ~HasID(n)'
    BY <1>2 DEF HasID
  <2> QED BY <1>5, <2>1, <2>3, <2>4, <2>5 DEF Led, Leads, SearchOf, Occurs
<1>10. OneSeeker' /\ SearchesLed' /\ FoundIsAbove'
  BY <1>8, <1>9 DEF OneSeeker, SearchesLed, FoundIsAbove
<1>11. TakenIsMax' /\ IDsDiffer'
  BY <1>1, <1>8 DEF IDInv, TakenIsMax, IDsDiffer
<1> QED BY <1>6, <1>7, <1>10, <1>11 DEF IDInv
\* The only one that searches has an ID above all others, and takes it.
LEMMA WakeIDs ==
  ASSUME EnoughIDs, IDInv, TypeInv', RightRing', Forward, NEW n \in Node, WakeFreeID(n)
  PROVE  IDInv'
<1> DEFINE q == idSearchColisionQueue[n]
           msgs == [i \in DOMAIN q |-> FreeIDSearch(q[i], maxID[n])]
<1>0. /\ TypeOK /\ pc \in [Node -> PC] /\ maxID[n] \in ID /\ Started \subseteq Node
      /\ idSearchColisionQueue \in [Node -> Seq(Node)] /\ computationID \in [Node -> ID]
  BY DEF IDInv, TypeInv, TypeOK, Started
<1>1. /\ pc[n] = "woken" /\ pc' = [pc EXCEPT ![n] = "named"]
      /\ computationID' = [computationID EXCEPT ![n] = maxID[n]]
      /\ idSearchColisionQueue' = [idSearchColisionQueue EXCEPT ![n] = <<>>]
      /\ Send(n, msgs)
      /\ UNCHANGED <<rightID, maxID>>
  BY DEF WakeFreeID, Goto, netVars
<1>2. /\ pc'[n] = "named" /\ \A k \in Node \ {n} : pc'[k] = pc[k]
      /\ computationID'[n] = maxID[n] /\ \A k \in Node \ {n} : computationID'[k] = computationID[k]
  BY <1>0, <1>1
<1>3. q \in Seq(Node) /\ \A i \in DOMAIN q : /\ FreeIDSearch(q[i], maxID[n]) \in Message
                                             /\ FreeIDSearch(q[i], maxID[n]).sourceNode = q[i]
                                             /\ FreeIDSearch(q[i], maxID[n]).slotA = maxID[n]
  BY <1>0 DEF FreeIDSearch, Message
<1>4. msgs \in Seq(Message)
  <2>1. Len(q) \in Nat /\ DOMAIN q = 1 .. Len(q)
    BY <1>3
  <2> HIDE DEF q
  <2>2. msgs \in [1 .. Len(q) -> Message]
    BY <1>3, <2>1
  <2> QED BY <2>1, <2>2
<1>5. ASSUME NEW y, Occurs(y, msgs)
      PROVE  HasSought(y.sourceNode) /\ Under(Given, y.slotA)
  <2>1. PICK i \in DOMAIN q : y = FreeIDSearch(q[i], maxID[n])
    BY <1>5 DEF Occurs
  <2>2. Occurs(q[i], q)
    BY DEF Occurs
  <2>3. \A s : Occurs(s, q) => HasSought(s)
    BY DEF IDInv, SearchersKnown
  <2>4. HasSought(q[i]) /\ Under(Given, maxID[n])
    BY <2>2, <2>3 DEF IDInv, SearchersKnown
  <2> QED BY <1>3, <2>1, <2>4
<1> HIDE DEF msgs, q
<1>6. Started' = Started /\ n \in Started
  BY <1>1, <1>2 DEF Started
<1>7. OutsidersSilent'
  BY <1>1, <1>4, <1>6, SendSilent
<1>8. SearchersKnown'
  <2>1. \A k \in Node : \A y :
          Occurs(y, sendQueue'[k]) <=> Occurs(y, sendQueue[k]) \/ (k = n /\ Occurs(y, msgs))
    BY <1>0, <1>1, <1>4, QueuesGrow
  <2>2. \A k \in Node : \A y : Occurs(y, sendQueue'[k]) /\ y.type = "FREE_ID_SEARCH" =>
          \/ \E j \in Node : Occurs(y, sendQueue[j])
          \/ HasSought(y.sourceNode) /\ Under(Given, y.slotA)
    BY <1>5, <2>1
  <2>3. \A k \in Node : \A s : Occurs(s, idSearchColisionQueue'[k]) => HasSought(s)
    <3>1. \A s : ~Occurs(s, <<>>)
      BY OccursOnce
    <3>2. \A k \in Node : idSearchColisionQueue'[k] = <<>> \/ idSearchColisionQueue'[k] = idSearchColisionQueue[k]
      BY <1>0, <1>1
    <3> QED BY <3>1, <3>2 DEF IDInv, SearchersKnown
  <2>4. \A k \in Node : maxID'[k] = maxID[k]
    BY <1>1
  <2> QED BY <2>2, <2>3, <2>4, KnownGrows
<1>9. \A k \in Node : Named(k) => k = n
  BY <1>1 DEF IDInv, OneSeeker, Named
<1>10. \A k \in Node : /\ Named(k)' => k = n
                       /\ ~Seeking(k)' /\ pc'[k] # "woken"
                       /\ HasID(k)' => k = n \/ HasID(k)
  BY <1>2, <1>9 DEF Named, Seeking, HasID
<1>11. OneSeeker' /\ SearchesLed' /\ FoundIsAbove'
  BY <1>10 DEF OneSeeker, SearchesLed, FoundIsAbove
<1>12. TakenIsMax'
  <2> SUFFICES ASSUME NEW k \in Node, HasID(k)'
               PROVE  computationID'[k] = maxID'[k]
    BY DEF TakenIsMax
  <2>1. CASE k = n
    BY <1>1, <1>2, <2>1
  <2>2. CASE k # n
    BY <1>1, <1>2, <1>10, <2>2 DEF IDInv, TakenIsMax
  <2> QED BY <2>1, <2>2
<1>13. IDsDiffer'
  <2>1. \A k \in Node : HasID(k) => maxID[k] < maxID[n]
    BY <1>1 DEF IDInv, FoundIsAbove
  <2>2. \A k \in Node : HasID(k) => maxID[k] # maxID[n]
    <3>1. \A k \in Node : maxID[k] \in Nat
      BY MembershipAssumption DEF IDInv, TypeInv, TypeOK, ID
    <3> QED BY <2>1, <3>1
  <2>3. \A j, k \in Node : HasID(j)' /\ HasID(k)' /\ j # k => maxID[j] # maxID[k]
    BY <1>10, <2>2 DEF IDInv, IDsDiffer
  <2> QED BY <1>1, <2>3 DEF IDsDiffer
<1> QED BY <1>7, <1>8, <1>11, <1>12, <1>13 DEF IDInv

\* An announcement comes in.
LEMMA AnnouncedIDs ==
  ASSUME EnoughIDs, IDInv, TypeInv', RightRing', Forward, NEW m \in Node,
         ReceiveNodeAnnouncement(m) \/ ReceiveInstanceAnnouncement(m)
  PROVE  IDInv'
<1> DEFINE r == rightID[m]
<1>0. \E type \in {"NODE_ANNOUNCEMENT", "INSTANCE_ANNOUNCEMENT"} : Arrives(m, type)
  BY DEF ReceiveNodeAnnouncement, ReceiveInstanceAnnouncement
<1>1. /\ m \in Started /\ r \in Started /\ r \in Node
      /\ TypeOK /\ sendQueue[m] # <<>> /\ msg(m) \in Message /\ msg(m).type # "FREE_ID_SEARCH"
  BY <1>0, ArrivesInside
<1>2. /\ UNCHANGED <<rightID, maxID, idSearchColisionQueue, computationID>>
      /\ Started' = Started
  <2>1. Deliver(m)
    BY DEF Deliver
  <2>2. Started' = Started
    BY <2>1, StartedKept DEF IDInv
  <2> QED BY <2>2 DEF ReceiveNodeAnnouncement, ReceiveInstanceAnnouncement, netVars, idVars
<1>3. \E msgs \in Seq(Message) : Handled(m, msgs) /\ \A y : Occurs(y, msgs) => y.type # "FREE_ID_SEARCH"
  <2>1. CASE ReceiveNodeAnnouncement(m)
    <3> DEFINE b == Further(m, liveNodes[r] \cup msg(m).nodes)
    <3>1. b \in Seq(Message) /\ \A y : Occurs(y, b) => y.type # "FREE_ID_SEARCH"
      BY <1>1, FurtherType, OccursOnce DEF Further
    <3>2. Handled(m, b)
      BY <2>1 DEF ReceiveNodeAnnouncement
    <3> QED BY <3>1, <3>2
  <2>2. CASE ReceiveInstanceAnnouncement(m)
    <3> DEFINE y1 == NodeAnnouncement(r, {r})
               a == IF msg(m).resume THEN <<y1>> ELSE <<>>
               b == IF stopsBeforeSource(m) THEN <<>> ELSE Further(m, liveNodes[r])
    <3>1. b \in Seq(Message) /\ \A y : Occurs(y, b) => y.type # "FREE_ID_SEARCH"
      BY <1>1, FurtherType, OccursOnce DEF Further
    <3>2. y1 \in Message /\ y1.type # "FREE_ID_SEARCH"
      BY <1>1 DEF NodeAnnouncement, Message
    <3>3. Handled(m, a \o b)
      BY <2>2 DEF ReceiveInstanceAnnouncement
    <3> HIDE DEF y1, b
    <3>4. a \in Seq(Message) /\ \A y : Occurs(y, a) => y.type # "FREE_ID_SEARCH"
      <4>1. <<y1>> \in Seq(Message) /\ <<>> \in Seq(Message)
        BY <3>2, OneMessage
      <4>2. \A y : ~Occurs(y, <<>>) /\ (Occurs(y, <<y1>>) => y.type # "FREE_ID_SEARCH")
        BY <3>2, OccursOnce
      <4> QED BY <4>1, <4>2
    <3> HIDE DEF a
    <3>5. a \o b \in Seq(Message) /\ \A y : Occurs(y, a \o b) => y.type # "FREE_ID_SEARCH"
      BY <3>1, <3>4, OccursAppended
    <3> QED BY <3>3, <3>5
  <2> QED BY <2>1, <2>2
<1>4. PICK msgs \in Seq(Message) : Handled(m, msgs) /\ \A y : Occurs(y, msgs) => y.type # "FREE_ID_SEARCH"
  BY <1>3
<1>5. OutsidersSilent'
  BY <1>0, <1>2, <1>4, HandledSilent
<1>6. \A n \in Node : Undisturbed(n)
  BY <1>1, <1>4, HandledUndisturbed DEF SearchOf
<1>7. IDsStill
  <2>1. \A k \in Node : pc'[k] = pc[k] \/ (pc[k] = "init" /\ pc'[k] = "ready")
    <3>0. pc \in [Node -> PC]
      BY <1>1 DEF TypeOK
    <3>1. CASE ReceiveNodeAnnouncement(m)
      <4>1. pc' = [pc EXCEPT ![r] = IF confirms(m) /\ pc[r] = "init" THEN "ready" ELSE pc[r]]
        BY <3>1 DEF ReceiveNodeAnnouncement
      <4> QED BY <3>0, <4>1
    <3>2. CASE ReceiveInstanceAnnouncement(m)
      BY <3>2 DEF ReceiveInstanceAnnouncement
    <3> QED BY <3>1, <3>2
  <2> QED BY <1>2, <2>1 DEF IDsStill, Named, Seeking, HasID
<1>8. SearchersKnown'
  BY <1>2, <1>6, UndisturbedKnown
<1> QED BY <1>2, <1>5, <1>6, <1>7, <1>8, StillStep

\* The search of the only one that searches is back: it has passed all others.
LEMMA AnsweredIDs ==
  ASSUME EnoughIDs, Prompt, IDInv, TypeInv', RightRing', Forward, NEW m \in Node, ReceiveFreeID(m)
  PROVE  IDInv'
<1> DEFINE r == rightID[m]
           a == msg(m).slotA
<1>0. Arrives(m, "FREE_ID_SEARCH")
  BY DEF ReceiveFreeID
<1>1. /\ m \in Started /\ r \in Started /\ r \in Node /\ Started \subseteq Node
      /\ TypeOK /\ sendQueue[m] # <<>> /\ msg(m) \in Message /\ msg(m).type = "FREE_ID_SEARCH"
      /\ Occurs(msg(m), sendQueue[m]) /\ msg(m).sourceNode = r
      /\ pc \in [Node -> PC] /\ maxID \in [Node -> ID]
  BY <1>0, ArrivesInside DEF TypeOK, ReceiveFreeID, originMe, Started
<1>2. pc[r] \notin {"searching", "woken"}
  BY <1>0 DEF Arrives
<1>3. /\ UNCHANGED <<rightID, idSearchColisionQueue, computationID>>
      /\ Started' = Started /\ Handled(m, <<>>)
      /\ maxID' = [maxID EXCEPT ![r] = IF pc[r] \in {"asleep", "woken"} THEN freeID(a) ELSE maxID[r]]
      /\ pc' = [pc EXCEPT ![r] = IF pc[r] \in {"asleep", "woken"} THEN "woken" ELSE pc[r]]
  <2>1. Deliver(m)
    BY DEF Deliver
  <2>2. Started' = Started
    BY <2>1, StartedKept DEF IDInv
  <2> QED BY <2>2 DEF ReceiveFreeID, netVars
<1>4. <<>> \in Seq(Message) /\ \A y : ~Occurs(y, <<>>)
  <2>1. <<>> \in Seq(Message)
    OBVIOUS
  <2> QED BY <2>1, OccursOnce
<1>5. OutsidersSilent'
  BY <1>0, <1>3, <1>4, HandledSilent
<1>6. \A n : n # r => Undisturbed(n)
  <2>1. \A n : n # r => ~SearchOf(n, msg(m))
    BY <1>1 DEF SearchOf
  <2> QED BY <1>1, <1>3, <1>4, <2>1, HandledUndisturbed
<1>7. \A k \in Node : \A y : Occurs(y, sendQueue'[k]) => Occurs(y, sendQueue[k])
  BY <1>1, <1>3, <1>4, QueuesMove
<1>8. \A k \in Node : \A s : Occurs(s, idSearchColisionQueue'[k]) => HasSought(s)
  BY <1>3 DEF IDInv, SearchersKnown
<1>9. CASE pc[r] # "asleep"
  <2>1. \A k \in Node : pc'[k] = pc[k] /\ maxID'[k] = maxID[k]
    BY <1>1, <1>2, <1>3, <1>9
  <2>2. IDsStill
    BY <1>3, <2>1 DEF IDsStill, Named, Seeking, HasID
  <2>3. \A n \in Node : Seeking(n) => Undisturbed(n)
    BY <1>2, <1>6, <1>9 DEF Seeking
  <2>4. SearchersKnown'
    BY <1>7, <1>8, <2>1, KnownGrows
  <2> QED BY <1>3, <1>5, <2>2, <2>3, <2>4, StillStep
<1>10. CASE pc[r] = "asleep"
  <2>1. /\ pc'[r] = "woken" /\ maxID'[r] = freeID(a)
        /\ \A k \in Node \ {r} : pc'[k] = pc[k] /\ maxID'[k] = maxID[k]
    BY <1>1, <1>3, <1>10
  <2>2. \A k \in Node : Named(k) => k = r
    BY <1>1, <1>10 DEF IDInv, OneSeeker, Named, Seeking
  <2>3. \A k \in Node : HasID(k) => maxID[k] <= a
    <3>1. PICK p \in Started, B \in SUBSET Started : \E y :
            /\ Behind(B, p, r)
            /\ Leads(r, y, sendQueue[p])
            /\ \A k \in Started \ B : \A z : Occurs(z, sendQueue[k]) => ~SearchOf(r, z)
            /\ \A k \in B : HasID(k) => maxID[k] <= y.slotA
      BY <1>1, <1>10 DEF IDInv, SearchesLed, Seeking, Led
    <3>2. PICK y :
            /\ Behind(B, p, r)
            /\ Leads(r, y, sendQueue[p])
            /\ \A k \in Started \ B : \A z : Occurs(z, sendQueue[k]) => ~SearchOf(r, z)
            /\ \A k \in B : HasID(k) => maxID[k] <= y.slotA
      BY <3>1
    <3>3. SearchOf(r, msg(m))
      BY <1>1 DEF SearchOf
    <3>4. m \in B
      BY <1>1, <3>2, <3>3
    <3>5. m = p
      BY <1>1, <3>2, <3>4 DEF Behind
    <3>6. y = msg(m)
      BY <1>1, <3>2, <3>3, <3>5, LeadsTail DEF TypeOK, msg
    <3>7. B = Started
      <4>1. \A x \in B : rightID[x] \in B
        BY <3>1, <3>2, <3>5 DEF Behind
      <4> QED BY <3>1, <3>4, <4>1 DEF IDInv, RightRing, LeftRing
    <3>8. \A k \in Node : HasID(k) => k \in Started
      BY DEF HasID, Started
    <3> QED BY <3>2, <3>6, <3>7, <3>8
  <2>4. r \in WithFile \ Given /\ Given \in SUBSET WithFile
    BY <1>1, <1>10 DEF IDInv, TypeInv, SeekersHaveFile, Given
  <2>5. a \in Nat /\ Under(Given, a)
    <3>1. a \in Nat
      BY <1>1, Fields, MembershipAssumption DEF ID
    <3> QED BY <1>1, <3>1 DEF IDInv, SearchersKnown
  <2>6. maxID'[r] = a + 1 /\ Under(Given \cup {r}, a + 1)
    BY <2>1, <2>4, <2>5, UnderNext
  <2>7. Given' = Given \cup {r}
    <3>1. \A k \in WithFile : k \in Node
      BY MembershipAssumption
    <3> QED BY <1>1, <2>1, <2>4, <3>1 DEF Given
  <2>8. SearchersKnown'
    <3>1. \A k \in Node : maxID'[k] = maxID[k] \/ Under(Given', maxID'[k])
      BY <2>1, <2>6, <2>7
    <3> QED BY <1>7, <1>8, <3>1, KnownGrows
  <2>9. \A k \in Node : /\ Named(k)' => k = r
                        /\ ~Seeking(k)'
                        /\ HasID(k)' <=> HasID(k)
                        /\ HasID(k) => k # r
    BY <1>10, <2>1, <2>2 DEF Named, Seeking, HasID
  <2>10. OneSeeker' /\ SearchesLed'
    BY <2>9 DEF OneSeeker, SearchesLed
  <2>11. TakenIsMax' /\ IDsDiffer'
    BY <1>3, <2>1, <2>9 DEF IDInv, TakenIsMax, IDsDiffer
  <2>12. FoundIsAbove'
    <3> SUFFICES ASSUME NEW n \in Node, pc'[n] = "woken", NEW k \in Node, HasID(k)'
                 PROVE  maxID'[k] < maxID'[n]
      BY DEF FoundIsAbove
    <3>1. n = r
      BY <2>9 DEF Named
    <3>2. k # r /\ maxID'[k] = maxID[k] /\ maxID[k] <= a /\ maxID[k] \in Nat
      BY <1>1, <2>1, <2>3, <2>9, MembershipAssumption DEF ID
    <3> QED BY <2>5, <2>6, <3>1, <3>2
  <2> QED BY <1>5, <2>8, <2>10, <2>11, <2>12 DEF IDInv
<1> QED BY <1>9, <1>10
\* A search comes to another node, which raises it above its own ID.
LEMMA PassedIDs ==
  ASSUME EnoughIDs, IDInv, TypeInv', RightRing', Forward, NEW m \in Node, ReceiveSearch(m)
  PROVE  IDInv'
<1> DEFINE r == rightID[m]
           a == msg(m).slotA
           s == msg(m).sourceNode
           held == pc[r] \in {"asleep", "woken"} /\ r > s
           y1 == FreeIDSearch(s, raised(r, a))
           c == IF held THEN <<>> ELSE <<y1>>
           b == Further(m, liveNodes[r])
<1>0. Arrives(m, "FREE_ID_SEARCH")
  BY DEF ReceiveSearch
<1>1. /\ m \in Started /\ r \in Started /\ r \in Node /\ Started \subseteq Node
      /\ TypeOK /\ sendQueue[m] # <<>> /\ msg(m) \in Message /\ msg(m).type = "FREE_ID_SEARCH"
      /\ Occurs(msg(m), sendQueue[m]) /\ s # r /\ s \in Node /\ a \in ID
      /\ idSearchColisionQueue \in [Node -> Seq(Node)] /\ maxID[r] \in ID
      /\ sendQueue \in [Node -> Seq(Message)]
  <2>1. msg(m) \in Message /\ msg(m).type = "FREE_ID_SEARCH" /\ TypeOK
    BY <1>0, ArrivesInside
  <2> QED BY <1>0, <2>1, ArrivesInside, Fields DEF TypeOK, ReceiveSearch, originMe, Started
<1>2. /\ UNCHANGED <<pc, rightID, maxID, computationID>> /\ Started' = Started
      /\ idSearchColisionQueue' =
           [idSearchColisionQueue EXCEPT ![r] = IF held THEN Append(idSearchColisionQueue[r], s) ELSE idSearchColisionQueue[r]]
      /\ Handled(m, c \o b)
  <2>1. UNCHANGED <<pc, rightID, maxID, computationID>>
    BY DEF ReceiveSearch, netVars
  <2>2. Started' = Started
    BY <2>1 DEF Started
  <2> QED BY <2>1, <2>2 DEF ReceiveSearch
<1>3. raised(r, a) \in ID /\ a <= raised(r, a) /\ maxID[r] <= raised(r, a) /\ raised(r, a) \in {maxID[r], a}
  BY <1>1, MembershipAssumption DEF raised, ID
<1>4. y1 \in Message /\ y1.type = "FREE_ID_SEARCH" /\ y1.sourceNode = s /\ y1.slotA = raised(r, a)
  BY <1>1, <1>3 DEF FreeIDSearch, Message
<1>5. b \in Seq(Message) /\ \A y : Occurs(y, b) => y = msg(m)
  BY <1>1, FurtherType, OccursOnce DEF Further
<1> HIDE DEF y1, b
<1>6. c \in Seq(Message) /\ \A y : Occurs(y, c) => y = y1
  <2>1. <<y1>> \in Seq(Message) /\ <<>> \in Seq(Message)
    BY <1>4, OneMessage
  <2>2. \A y : ~Occurs(y, <<>>) /\ (Occurs(y, <<y1>>) <=> y = y1)
    BY OccursOnce
  <2> QED BY <2>1, <2>2
<1>7. ~held => c = <<y1>>
  OBVIOUS
<1> HIDE DEF c
<1>8. c \o b \in Seq(Message) /\ \A y : Occurs(y, c \o b) => y = y1 \/ y = msg(m)
  BY <1>5, <1>6, OccursAppended
<1>9. OutsidersSilent'
  BY <1>0, <1>2, <1>8, HandledSilent
<1>10. HasSought(s) /\ Under(Given, a) /\ Under(Given, maxID[r])
  BY <1>1 DEF IDInv, SearchersKnown
<1>11. SearchersKnown'
  <2>1. \A k \in Node : \A y : Occurs(y, sendQueue'[k]) =>
          Occurs(y, sendQueue[k]) \/ y = y1 \/ y = msg(m)
    BY <1>1, <1>2, <1>8, QueuesMove
  <2>2. \A k \in Node : \A y : Occurs(y, sendQueue'[k]) /\ y.type = "FREE_ID_SEARCH" =>
          \/ \E j \in Node : Occurs(y, sendQueue[j])
          \/ HasSought(y.sourceNode) /\ Under(Given, y.slotA)
    <3>1. HasSought(y1.sourceNode) /\ Under(Given, y1.slotA)
      BY <1>3, <1>4, <1>10
    <3> QED BY <1>1, <2>1, <3>1
  <2>3. ASSUME NEW k \in Node, NEW z, Occurs(z, idSearchColisionQueue'[k])
        PROVE  HasSought(z)
    <3> DEFINE q == idSearchColisionQueue[r]
    <3>0. q \in Seq(Node) /\ s \in Node
      BY <1>1
    <3>1. Append(q, s) \in Seq(Node) /\ \A i \in DOMAIN Append(q, s) :
            (i \in DOMAIN q /\ Append(q, s)[i] = q[i]) \/ Append(q, s)[i] = s
      BY <3>0
    <3>2. Occurs(z, Append(q, s)) => Occurs(z, q) \/ z = s
      BY <3>1 DEF Occurs
    <3>3. Occurs(z, q) => HasSought(z)
      BY <1>1 DEF IDInv, SearchersKnown
    <3> HIDE DEF q
    <3>4. CASE k = r
      <4>1. idSearchColisionQueue'[k] \in {q, Append(q, s)}
        BY <1>1, <1>2, <3>4 DEF q
      <4> QED BY <1>10, <2>3, <3>2, <3>3, <4>1
    <3>5. CASE k # r
      BY <1>1, <1>2, <2>3, <3>5 DEF IDInv, SearchersKnown
    <3> QED BY <3>4, <3>5
  <2>4. \A k \in Node : maxID'[k] = maxID[k]
    BY <1>2
  <2> QED BY <2>2, <2>3, <2>4, KnownGrows
<1>12. IDsStill
  BY <1>2 DEF IDsStill, Named, Seeking, HasID
<1>13. ASSUME NEW n \in Node, Seeking(n)
       PROVE  Led(n)'
  <2>1. Led(n)
    BY <1>13 DEF IDInv, SearchesLed
  <2>2. CASE n # s
    <3>1. ~SearchOf(n, msg(m)) /\ ~SearchOf(n, y1)
      BY <1>4, <2>2 DEF SearchOf
    <3>2. \A y : Occurs(y, c \o b) => ~SearchOf(n, y)
      BY <1>8, <3>1
    <3>3. Undisturbed(n)
      BY <1>1, <1>2, <1>8, <3>1, <3>2, HandledUndisturbed
    <3>4. \A k \in Started : rightID'[k] = rightID[k]
      BY <1>2
    <3>5. \A k \in Started : HasID(k)' => HasID(k) /\ maxID'[k] = maxID[k]
      BY <1>2 DEF HasID
    <3> QED BY <1>2, <2>1, <3>3, <3>4, <3>5, LedStays
  <2>3. CASE n = s
    <3>1. PICK p \in Started, B \in SUBSET Started : \E y :
            /\ Behind(B, p, n)
            /\ Leads(n, y, sendQueue[p])
            /\ \A k \in Started \ B : \A z : Occurs(z, sendQueue[k]) => ~SearchOf(n, z)
            /\ \A k \in B : HasID(k) => maxID[k] <= y.slotA
      BY <2>1, <2>3 DEF Led
    <3>2. PICK y :
            /\ Behind(B, p, n)
            /\ Leads(n, y, sendQueue[p])
            /\ \A k \in Started \ B : \A z : Occurs(z, sendQueue[k]) => ~SearchOf(n, z)
            /\ \A k \in B : HasID(k) => maxID[k] <= y.slotA
      BY <3>1
    <3>3. SearchOf(n, msg(m)) /\ SearchOf(n, y1)
      BY <1>1, <1>4, <2>3 DEF SearchOf
    <3>4. m \in B
      BY <1>1, <3>2, <3>3
    <3>5. \A k \in Node : /\ Rest(k, m) \in Seq(Message)
                          /\ sendQueue'[k] = Rest(k, m) \o (IF k = r THEN c \o b ELSE <<>>)
                          /\ \A z : Occurs(z, Rest(k, m)) => Occurs(z, sendQueue[k])
                          /\ \A z : Occurs(z, sendQueue'[k]) => Occurs(z, sendQueue[k]) \/ k = r
      <4>1. \A k \in Node : sendQueue'[k] = Rest(k, m) \o (IF k = r THEN c \o b ELSE <<>>)
        BY <1>1, <1>2, <1>8, HandledType DEF Rest
      <4> QED BY <1>1, <1>2, <1>8, <4>1, QueuesMove
    <3>6. CASE m # p
      <4>1. r \in B
        BY <1>1, <3>1, <3>2, <3>4, <3>6 DEF Behind
      <4>2. Leads(n, y, sendQueue'[p])
        <5>1. p \in Node /\ Rest(p, m) = sendQueue[p]
          BY <1>1, <3>6 DEF Rest
        <5>2. (IF p = r THEN c \o b ELSE <<>>) \in Seq(Message)
          BY <1>8
        <5>3. Leads(n, y, Rest(p, m) \o (IF p = r THEN c \o b ELSE <<>>))
          BY <3>2, <3>5, <5>1, <5>2, LeadsAppended
        <5> QED BY <3>5, <5>1, <5>3
      <4>3. \A k \in Started \ B : \A z : Occurs(z, sendQueue'[k]) => ~SearchOf(n, z)
        BY <1>1, <3>2, <3>5, <4>1
      <4>4. Behind(B, p, n)' /\ \A k \in B : HasID(k)' => maxID'[k] <= y.slotA
        BY <1>2, <3>2 DEF Behind, HasID
      <4>5. p \in Started' /\ B \in SUBSET Started'
        BY <1>2, <3>1
      <4>6. Leads(n, y, sendQueue[p])'
        BY <4>2 DEF Leads, SearchOf
      <4>7. (\A k \in Started \ B : \A z : Occurs(z, sendQueue[k]) => ~SearchOf(n, z))'
        BY <1>2, <4>3 DEF SearchOf, Occurs
      <4> QED BY <4>4, <4>5, <4>6, <4>7 DEF Led
    <3>7. CASE m = p
      <4>1. y = msg(m)
        BY <1>1, <3>2, <3>3, <3>7, LeadsTail DEF msg
      <4>2. r \notin B /\ r # m
        BY <1>1, <2>3, <3>1, <3>2, <3>4, <3>7 DEF Behind
      <4>3. ~held
        <5>1. held => Named(r)
          BY DEF Named, Seeking
        <5>2. Named(s)
          BY <1>13, <2>3 DEF Named
        <5> HIDE DEF held
        <5> QED BY <1>1, <5>1, <5>2 DEF IDInv, OneSeeker
      <4>4. Leads(n, y1, sendQueue'[r])
        <5>1. sendQueue'[r] = sendQueue[r] \o (<<y1>> \o b)
          <6>1. Rest(r, m) = sendQueue[r]
            BY <4>2 DEF Rest
          <6> QED BY <1>1, <1>7, <3>5, <4>3, <6>1
        <5>2. \A z : Occurs(z, sendQueue[r]) => ~SearchOf(n, z)
          BY <1>1, <3>2, <4>2
        <5>3. sendQueue[r] \in Seq(Message)
          BY <1>1
        <5>4. Leads(n, y1, sendQueue[r] \o (<<y1>> \o b))
          BY <1>4, <1>5, <3>3, <5>2, <5>3, LeadsNew
        <5> QED BY <5>1, <5>4
      <4>5. PICK t : t = r
        OBVIOUS
      <4> DEFINE C == B \cup {t}
      <4>6. Behind(C, t, n)'
        <5>1. \A x \in Started : rightID[x] = t => x = m
          BY <1>1, <4>5 DEF IDInv, RightRing, LeftRing
        <5>2. /\ p = m /\ m \in B /\ n \in B /\ t \notin B /\ t # n /\ rightID[m] = t /\ m \in Started
              /\ \A x \in Started : x \in B \ {p} <=> rightID[x] \in B \ {n}
          BY <1>1, <2>3, <3>2, <3>4, <3>7, <4>2, <4>5 DEF Behind
        <5>3. \A x \in Started : x \in C \ {t} <=> rightID[x] \in C \ {n}
          BY <5>1, <5>2
        <5> QED BY <1>2, <5>2, <5>3 DEF Behind
      <4>7. \A k \in Started \ C : \A z : Occurs(z, sendQueue'[k]) => ~SearchOf(n, z)
        BY <1>1, <3>2, <3>5, <4>5
      <4>8. \A k \in C : HasID(k)' => maxID'[k] <= y1.slotA
        <5>1. ASSUME NEW k \in B, HasID(k)
              PROVE  maxID[k] <= raised(r, a)
          <6>1. maxID[k] <= a
            BY <3>2, <4>1, <5>1
          <6>2. maxID[k] \in Nat /\ a \in Nat /\ raised(r, a) \in Nat
            <7>1. k \in Node
              BY <1>1
            <7> QED BY <1>1, <1>3, <7>1, MembershipAssumption DEF TypeOK, ID
          <6> QED BY <1>3, <6>1, <6>2
        <5>2. \A k \in C : HasID(k) => maxID[k] <= raised(r, a)
          BY <1>3, <4>5, <5>1
        <5> QED BY <1>2, <1>4, <5>2 DEF HasID
      <4>9. t \in Started' /\ C \in SUBSET Started'
        BY <1>1, <1>2, <3>1, <4>5
      <4>10. PICK y2 : y2 = y1
        OBVIOUS
      <4>11. Leads(n, y2, sendQueue'[t])
        BY <4>4, <4>5, <4>10
      <4> HIDE DEF C
      <4>12. Leads(n, y2, sendQueue[t])'
        BY <4>11 DEF Leads, SearchOf
      <4>13. PICK D : D = C
        OBVIOUS
      <4>14. (\A k \in Started \ D : \A z : Occurs(z, sendQueue[k]) => ~SearchOf(n, z))'
        BY <1>2, <4>7, <4>13 DEF SearchOf, Occurs
      <4>15. Behind(D, t, n)' /\ D \in SUBSET Started' /\ \A k \in D : HasID(k)' => maxID'[k] <= y2.slotA
        BY <4>6, <4>8, <4>9, <4>10, <4>13 DEF Behind
      <4> QED BY <4>9, <4>12, <4>14, <4>15 DEF Led
    <3> QED BY <3>6, <3>7
  <2> QED BY <2>2, <2>3
<1> QED BY <1>2, <1>9, <1>11, <1>12, <1>13, IDsKept

LEMMA IDInvStep == EnoughIDs /\ ~Rivals /\ Prompt /\ IDInv /\ [Next]_vars => IDInv'
<1> SUFFICES ASSUME EnoughIDs, ~Rivals, Prompt, IDInv, [Next]_vars
             PROVE  IDInv'
  OBVIOUS
<1>1. CASE UNCHANGED vars
  <2>1. UNCHANGED <<pc, rightID, leftID, sendQueue, maxID, idSearchColisionQueue, computationID>> /\ TypeInv'
    BY <1>1, TypeInvStep DEF IDInv, vars, netVars, idVars
  <2>2. RightRing'
    BY <2>1 DEF IDInv, RightRing, Started
  <2>3. OutsidersSilent' /\ OneSeeker'
    BY <2>1 DEF IDInv, OutsidersSilent, Started, OneSeeker, Named, Seeking
  <2>4. SearchesLed'
    <3>1. Started' = Started /\ \A n \in Node : Undisturbed(n) /\ (Seeking(n)' => Seeking(n))
      BY <2>1 DEF Started, Undisturbed, Seeking
    <3>2. \A k \in Started : rightID'[k] = rightID[k] /\ (HasID(k)' => HasID(k) /\ maxID'[k] = maxID[k])
      BY <2>1 DEF HasID
    <3> QED BY <3>1, <3>2, LedStays DEF IDInv, SearchesLed
  <2>5. TakenIsMax' /\ FoundIsAbove' /\ IDsDiffer'
    BY <2>1 DEF IDInv, TakenIsMax, FoundIsAbove, IDsDiffer, HasID
  <2>6. SearchersKnown'
    BY <2>1 DEF IDInv, SearchersKnown, HasSought, Named, Seeking, Given, Occurs
  <2> QED BY <2>1, <2>2, <2>3, <2>4, <2>5, <2>6 DEF IDInv
<1>2. CASE Next
  <2>0. TypeInv' /\ RightRing' /\ Forward
    BY <1>2, TypeInvStep, RightRingStep, ForwardStep DEF IDInv
  <2>1. PICK n \in Node :
          createSingleNodeNetwork(n) \/ (\E r \in Node : Connect(n, r)) \/ MainStep(n) \/ Deliver(n)
    BY <1>2 DEF Next
  <2>2. CASE createSingleNodeNetwork(n)
    BY <2>0, <2>2, CreateIDs
  <2>3. CASE \E r \in Node : Connect(n, r)
    BY <2>0, <2>3, ConnectIDs
  <2>4. CASE MainStep(n)
    <3>1. CASE BuildNetAndRequestData(n)
      BY <2>0, <3>1, BuildIDs
    <3>2. CASE InitSingle(n) \/ InitSleep(n) \/ SleepFreeID(n) \/ NewData(n) \/ TakeAnyID(n)
      BY <2>0, <3>2, MainStill
    <3>3. CASE SearchFreeID(n)
      BY <2>0, <3>3, AloneIDs, SearchIDs
    <3>4. CASE WakeFreeID(n)
      BY <2>0, <3>4, WakeIDs
    <3> QED BY <2>4, <3>1, <3>2, <3>3, <3>4 DEF MainStep
  <2>5. CASE Deliver(n)
    BY <2>0, <2>5, AnnouncedIDs, AnsweredIDs, PassedIDs DEF Deliver
  <2> QED BY <2>1, <2>2, <2>3, <2>4, <2>5
<1> QED BY <1>1, <1>2

\* No two instances are ever given one ID, however many nodes join, wherever and
\* whenever they do, while searches do not overlap and there are IDs enough.
THEOREM InstancesApartAlways ==
  EnoughIDs /\ ~Rivals /\ Prompt => (Spec => []InstancesApart)
<1> SUFFICES ASSUME EnoughIDs /\ ~Rivals /\ Prompt
             PROVE  Spec => []InstancesApart
  OBVIOUS
<1>1. Init => IDInv
  BY IDInvInit
<1>2. IDInv /\ [Next]_vars => IDInv'
  BY IDInvStep
<1>3. IDInv => InstancesApart
  BY IDInvApart
<1> QED BY <1>1, <1>2, <1>3, PTL DEF Spec

-----------------------------------------------------------------------------
(***************************************************************************)
(* Instances that all nodes have                                           *)
(*                                                                         *)
(* A node that has begun to work announces its instance to all others.  A  *)
(* node that joins behind the announcement is sent the instance by its left*)
(* neighbour, which has it by then (Gift); one that joins before it is met *)
(* by it.  No node takes the source for dead, and since no two instances   *)
(* have one ID, none keeps another one out.  A node that lets another in   *)
(* rests: it has been sent all that it was to be sent itself (NoGift).     *)
(***************************************************************************)
\* i works at its instance, and has told others of it.
Runs(i) == i \in WithFile /\ pc[i] = "running"

\* ... under this ID.
TrueEntry(id, i) == Runs(i) /\ computationID[i] = id

\* What is held, or said, of an instance is so.
DataTrue ==
  \A k \in Node :
    /\ \A id \in DOMAIN data[k] : TrueEntry(id, data[k][id])
    /\ \A y : Occurs(y, sendQueue[k]) /\ y.type = "INSTANCE_ANNOUNCEMENT" => TrueEntry(y.computationID, y.instance)

\* An instance that n is sent as it joins.
Gift(n, y) == y.type = "INSTANCE_ANNOUNCEMENT" /\ y.sourceNode = n /\ y.instance # n

\* The last of them gives the order to resume.
Followed(n, s) == \A i \in DOMAIN s : Gift(n, s[i]) => \E j \in DOMAIN s : i <= j /\ Res(n, s[j])

GiftsFollowed == \A n, k \in Node : Followed(n, sendQueue[k])

\* i announces its instance.
News(i, y) == y.type = "INSTANCE_ANNOUNCEMENT" /\ y.sourceNode = i /\ y.instance = i

\* F are the nodes between p and i.
Ahead(F, p, i) ==
  /\ rightID[p] \in F
  /\ \A x \in F : x # p /\ x # i /\ rightID[x] \in F \cup {i}

\* k has the instance of i, is sent it as it joins, or will be told of it.
Spread(k, i) ==
  \/ i \in Range(data[k])
  \/ \E j \in Node : \E y : Occurs(y, sendQueue[j]) /\ Gift(k, y) /\ y.instance = i
  \/ \E p \in Started : \E F \in SUBSET Started : k \in F /\ Ahead(F, p, i) /\ \E y : Occurs(y, sendQueue[p]) /\ News(i, y)

InstancesSpread == \A i \in Node : Runs(i) => \A k \in Started : Spread(k, i)

\* The instances of a node are a function.
Tabled == \A k \in Node : data[k] = [id \in DOMAIN data[k] |-> data[k][id]]

InstInv == JoinInv /\ IDInv /\ Tabled /\ DataTrue /\ GiftsFollowed /\ InstancesSpread
-----------------------------------------------------------------------------
(***************************************************************************)
(* What a new node is sent                                                 *)
(***************************************************************************)
LEMMA AscendingAll ==
  ASSUME NEW b \in Nat, NEW ids \in SUBSET (0 .. b - 1), NEW id \in ids
  PROVE  \E i \in 1 .. Cardinality(ids) : Ascending(ids)[i] = id
<1> DEFINE f == Ascending(ids)
           c == Cardinality(ids)
<1>1. f \in [1 .. c -> ids] /\ Climbs(f)
  BY AscendingExists
<1>2. IsFiniteSet(ids)
  <2>1. 0 \in Int /\ b - 1 \in Int
    OBVIOUS
  <2>2. IsFiniteSet(0 .. b - 1)
    BY <2>1, FS_Interval
  <2> QED BY <2>2, FS_Subset
<1>3. c \in Nat
  BY <1>2, FS_CardinalityType
<1> HIDE DEF f, c
<1>4. f \in Injection(1 .. c, ids)
  <2>1. ASSUME NEW i \in 1 .. c, NEW j \in 1 .. c, f[i] = f[j]
        PROVE  i = j
    <3>1. i < j \/ j < i \/ i = j
      BY <1>3
    <3>2. f[i] \in 0 .. b - 1
      BY <1>1
    <3>3. ~(i < j) /\ ~(j < i)
      BY <1>1, <2>1, <3>2 DEF Climbs
    <3> QED BY <3>1, <3>3
  <2> QED BY <1>1, <2>1 DEF Injection, IsInjective
<1>5. IsFiniteSet(1 .. c) /\ Cardinality(1 .. c) = c
  <2>1. 1 \in Int /\ c \in Int
    BY <1>3
  <2> QED BY <1>3, <2>1, FS_Interval
<1>6. f \in Surjection(1 .. c, ids)
  BY <1>2, <1>4, <1>5, FS_Injection DEF c
<1>7. \E i \in 1 .. c : f[i] = id
  BY <1>6 DEF Surjection
<1> QED BY <1>7 DEF f, c

LEMMA InstancesAll ==
  ASSUME NEW copies, DOMAIN copies \subseteq ID, NEW to
  PROVE  /\ \A i \in DOMAIN instances(copies, to) :
              LET y == instances(copies, to)[i] IN
              y.computationID \in DOMAIN copies /\ y.instance = copies[y.computationID]
         /\ \A id \in DOMAIN copies : \E i \in DOMAIN instances(copies, to) :
              instances(copies, to)[i].instance = copies[id]
<1> DEFINE ids == Ascending(DOMAIN copies)
           c == Cardinality(DOMAIN copies)
           msgs == [i \in DOMAIN ids |-> InstanceAnnouncement(to, ids[i], copies[ids[i]], i = Len(ids))]
<1>0. IDs \in Nat /\ DOMAIN copies \in SUBSET (0 .. IDs - 1)
  BY MembershipAssumption DEF ID
<1>1. instances(copies, to) = msgs
  BY DEF instances
<1>2. ids \in [1 .. c -> DOMAIN copies]
  BY <1>0, AscendingExists
<1>3. \A id \in DOMAIN copies : \E i \in 1 .. c : ids[i] = id
  BY <1>0, AscendingAll
<1> HIDE DEF ids, c
<1>4. DOMAIN ids = 1 .. c /\ DOMAIN msgs = 1 .. c
  BY <1>2
<1>5. \A i \in 1 .. c : msgs[i].computationID = ids[i] /\ msgs[i].instance = copies[ids[i]]
  BY <1>4 DEF InstanceAnnouncement
<1> HIDE DEF msgs
<1> QED BY <1>1, <1>2, <1>3, <1>4, <1>5

LEMMA SentInstances ==
  ASSUME TypeOK, NEW l \in Node, NEW n \in Node
  PROVE  /\ \A y : Occurs(y, sendAllData(l, n)) /\ y.type = "INSTANCE_ANNOUNCEMENT" =>
              y.computationID \in DOMAIN data[l] /\ y.instance = data[l][y.computationID]
         /\ \A id \in DOMAIN data[l] : \E y : /\ Occurs(y, sendAllData(l, n))
                                              /\ y.type = "INSTANCE_ANNOUNCEMENT"
                                              /\ y.sourceNode = n /\ y.instance = data[l][id]
         /\ \A k \in Node : Followed(k, sendAllData(l, n))
<1> DEFINE names == NodeAnnouncement(n, liveNodes[l])
           a == IF liveNodes[l] = {} THEN <<>> ELSE <<names>>
           b == instances(data[l], n)
<1>1. names \in Message /\ b \in Seq(Message) /\ names.type = "NODE_ANNOUNCEMENT"
  BY SentType DEF NodeAnnouncement
<1>2. /\ \A i \in DOMAIN b : /\ b[i].type = "INSTANCE_ANNOUNCEMENT" /\ b[i].sourceNode = n
                             /\ b[i].resume <=> i = Len(b)
      /\ \A i \in DOMAIN b : b[i].computationID \in DOMAIN data[l] /\ b[i].instance = data[l][b[i].computationID]
      /\ \A id \in DOMAIN data[l] : \E i \in DOMAIN b : b[i].instance = data[l][id]
  <2> DEFINE copies == data[l]
  <2>1. DOMAIN copies \subseteq ID /\ Range(copies) \subseteq WithFile
    BY DEF TypeOK
  <2> HIDE DEF copies
  <2>2. \A i \in DOMAIN instances(copies, n) :
          /\ instances(copies, n)[i].type = "INSTANCE_ANNOUNCEMENT" /\ instances(copies, n)[i].sourceNode = n
          /\ instances(copies, n)[i].resume <=> i = Len(instances(copies, n))
    BY <2>1, InstancesType
  <2>3. /\ \A i \in DOMAIN instances(copies, n) :
             /\ instances(copies, n)[i].computationID \in DOMAIN copies
             /\ instances(copies, n)[i].instance = copies[instances(copies, n)[i].computationID]
        /\ \A id \in DOMAIN copies : \E i \in DOMAIN instances(copies, n) :
             instances(copies, n)[i].instance = copies[id]
    BY <2>1, InstancesAll
  <2> QED BY <2>2, <2>3 DEF copies
<1>3. sendAllData(l, n) = a \o b
  BY DEF sendAllData
<1> HIDE DEF names, b
<1>4. a \in Seq(Message) /\ \A y : Occurs(y, a) => y = names
  <2>1. <<names>> \in Seq(Message) /\ <<>> \in Seq(Message)
    BY <1>1, OneMessage
  <2>2. \A y : ~Occurs(y, <<>>) /\ (Occurs(y, <<names>>) <=> y = names)
    BY OccursOnce
  <2> QED BY <2>1, <2>2
<1> HIDE DEF a
<1>5. \A y : Occurs(y, a \o b) <=> Occurs(y, a) \/ Occurs(y, b)
  BY <1>1, <1>4, OccursAppended
<1>6. ASSUME NEW y, Occurs(y, a \o b), y.type = "INSTANCE_ANNOUNCEMENT"
      PROVE  y.computationID \in DOMAIN data[l] /\ y.instance = data[l][y.computationID]
  <2>1. Occurs(y, b)
    BY <1>1, <1>4, <1>5, <1>6
  <2> QED BY <1>2, <2>1 DEF Occurs
<1>7. ASSUME NEW id \in DOMAIN data[l]
      PROVE  \E y : /\ Occurs(y, a \o b) /\ y.type = "INSTANCE_ANNOUNCEMENT"
                    /\ y.sourceNode = n /\ y.instance = data[l][id]
  <2>1. PICK i \in DOMAIN b : b[i].instance = data[l][id]
    BY <1>2
  <2>2. Occurs(b[i], b)
    BY DEF Occurs
  <2> QED BY <1>2, <1>5, <2>1, <2>2
<1>8. ASSUME NEW k \in Node
      PROVE  Followed(k, a \o b)
  <2> DEFINE u == a \o b
  <2>1. \A i \in DOMAIN u : /\ i \in Nat /\ Len(a) \in Nat /\ Len(b) \in Nat /\ i <= Len(a) + Len(b)
                            /\ i <= Len(a) => i \in DOMAIN a /\ u[i] = a[i]
                            /\ i > Len(a) => /\ i - Len(a) \in DOMAIN b /\ u[i] = b[i - Len(a)]
                                             /\ Len(a) + Len(b) \in DOMAIN u /\ Len(b) \in DOMAIN b
                                             /\ u[Len(a) + Len(b)] = b[Len(b)]
    BY <1>1, <1>4
  <2> HIDE DEF u
  <2>2. ASSUME NEW i \in DOMAIN u, Gift(k, u[i])
        PROVE  \E j \in DOMAIN u : i <= j /\ Res(k, u[j])
    <3>1. i > Len(a)
      <4>1. SUFFICES ASSUME i <= Len(a) PROVE FALSE
        BY <2>1
      <4>2. u[i] = names
        BY <1>4, <2>1, <4>1 DEF Occurs
      <4> QED BY <1>1, <2>2, <4>2 DEF Gift
    <3>2. k = n
      BY <1>2, <2>1, <2>2, <3>1 DEF Gift
    <3>3. Res(k, u[Len(a) + Len(b)])
      BY <1>2, <2>1, <3>1, <3>2 DEF Res
    <3> QED BY <2>1, <3>1, <3>3
  <2>3. Followed(k, u)
    BY <2>2 DEF Followed
  <2> QED BY <2>3 DEF u
<1> QED BY <1>3, <1>6, <1>7, <1>8

-----------------------------------------------------------------------------
(***************************************************************************)
(* The order to resume comes last                                          *)
(***************************************************************************)
LEMMA FollowedAppended ==
  ASSUME NEW n, NEW S, NEW s \in Seq(S), NEW t \in Seq(S), Followed(n, s), Followed(n, t)
  PROVE  Followed(n, s \o t)
<1> DEFINE u == s \o t
<1>1. \A i \in DOMAIN u : /\ i \in Nat /\ Len(s) \in Nat /\ Len(t) \in Nat
                          /\ i <= Len(s) => i \in DOMAIN s /\ u[i] = s[i]
                          /\ i > Len(s) => i - Len(s) \in DOMAIN t /\ u[i] = t[i - Len(s)]
  OBVIOUS
<1>2. /\ \A j \in DOMAIN s : j \in DOMAIN u /\ u[j] = s[j]
      /\ \A j \in DOMAIN t : j \in Nat /\ Len(s) + j \in DOMAIN u /\ u[Len(s) + j] = t[j]
  OBVIOUS
<1> HIDE DEF u
<1>3. ASSUME NEW i \in DOMAIN u, Gift(n, u[i])
      PROVE  \E j \in DOMAIN u : i <= j /\ Res(n, u[j])
  <2>1. CASE i <= Len(s)
    <3>1. PICK j \in DOMAIN s : i <= j /\ Res(n, s[j])
      BY <1>1, <1>3, <2>1 DEF Followed
    <3> QED BY <1>2, <3>1
  <2>2. CASE i > Len(s)
    <3>1. PICK j \in DOMAIN t : i - Len(s) <= j /\ Res(n, t[j])
      BY <1>1, <1>3, <2>2 DEF Followed
    <3>2. i <= Len(s) + j
      BY <1>1, <1>2, <3>1
    <3>3. Len(s) + j \in DOMAIN u /\ Res(n, u[Len(s) + j])
      BY <1>2, <3>1
    <3> QED BY <3>2, <3>3
  <2> QED BY <1>1, <2>1, <2>2
<1>4. Followed(n, u)
  BY <1>3 DEF Followed
<1> QED BY <1>4 DEF u

LEMMA FollowedTail ==
  ASSUME NEW n, NEW S, NEW s \in Seq(S), s # <<>>, Followed(n, s)
  PROVE  Followed(n, Tail(s))
<1> DEFINE t == Tail(s)
<1>1. /\ \A i \in DOMAIN t : i \in Nat /\ i >= 1 /\ i + 1 \in DOMAIN s /\ t[i] = s[i + 1]
      /\ \A j \in DOMAIN s : j \in Nat /\ (j > 1 => j - 1 \in DOMAIN t /\ t[j - 1] = s[j])
  OBVIOUS
<1> HIDE DEF t
<1>2. ASSUME NEW i \in DOMAIN t, Gift(n, t[i])
      PROVE  \E j \in DOMAIN t : i <= j /\ Res(n, t[j])
  <2>1. PICK j \in DOMAIN s : i + 1 <= j /\ Res(n, s[j])
    BY <1>1, <1>2 DEF Followed
  <2>2. j > 1 /\ i <= j - 1
    BY <1>1, <2>1
  <2> QED BY <1>1, <2>1, <2>2
<1>3. Followed(n, t)
  BY <1>2 DEF Followed
<1> QED BY <1>3 DEF t

LEMMA FollowedNone ==
  ASSUME NEW n, NEW s, \A y : Occurs(y, s) => ~Gift(n, y)
  PROVE  Followed(n, s)
BY DEF Followed, Occurs

LEMMA SendFollowed ==
  ASSUME TypeOK, GiftsFollowed, NEW k \in Node, NEW msgs \in Seq(Message), Send(k, msgs),
         \A n \in Node : Followed(n, msgs)
  PROVE  GiftsFollowed'
<1> SUFFICES ASSUME NEW n \in Node, NEW j \in Node
             PROVE  Followed(n, sendQueue'[j])
  BY DEF GiftsFollowed, Followed, Gift, Res
<1>1. sendQueue[j] \in Seq(Message) /\ Followed(n, sendQueue[j])
  BY DEF TypeOK, GiftsFollowed
<1>2. sendQueue'[j] = sendQueue[j] \/ sendQueue'[j] = sendQueue[j] \o msgs
  BY SendType
<1>3. Followed(n, sendQueue[j] \o msgs)
  BY <1>1, FollowedAppended
<1> QED BY <1>1, <1>2, <1>3

LEMMA HandledFollowed ==
  ASSUME TypeOK, GiftsFollowed, NEW m \in Node, sendQueue[m] # <<>>, NEW msgs \in Seq(Message),
         Handled(m, msgs), \A n \in Node : Followed(n, msgs)
  PROVE  GiftsFollowed'
<1> SUFFICES ASSUME NEW n \in Node, NEW j \in Node
             PROVE  Followed(n, sendQueue'[j])
  BY DEF GiftsFollowed, Followed, Gift, Res
<1>1. sendQueue[j] \in Seq(Message) /\ Followed(n, sendQueue[j]) /\ Rest(j, m) \in Seq(Message)
  BY QueuesMove DEF TypeOK, GiftsFollowed
<1>2. Followed(n, Rest(j, m))
  <2>1. CASE j = m
    BY <1>1, <2>1, FollowedTail DEF Rest
  <2>2. CASE j # m
    BY <1>1, <2>2 DEF Rest
  <2> QED BY <2>1, <2>2
<1>3. sendQueue'[j] = Rest(j, m) \o (IF j = rightID[m] THEN msgs ELSE <<>>)
  BY HandledType DEF Rest
<1>4. Followed(n, Rest(j, m) \o msgs)
  BY <1>1, <1>2, FollowedAppended
<1>5. Rest(j, m) \o <<>> = Rest(j, m)
  BY <1>1
<1> QED BY <1>2, <1>3, <1>4, <1>5

-----------------------------------------------------------------------------
(***************************************************************************)
(* Steps that leave the instances alone                                    *)
(***************************************************************************)
\* What speaks of instances.
IsInstance(y) == y.type = "INSTANCE_ANNOUNCEMENT"

InstancesStay == \A k \in Node : \A y : IsInstance(y) => (Occurs(y, sendQueue'[k]) <=> Occurs(y, sendQueue[k]))

LEMMA SendStays ==
  ASSUME TypeOK, GiftsFollowed, NEW k \in Node, NEW msgs \in Seq(Message), Send(k, msgs),
         \A y : Occurs(y, msgs) => ~IsInstance(y)
  PROVE  InstancesStay /\ GiftsFollowed'
<1>1. InstancesStay
  BY QueuesGrow DEF InstancesStay
<1>2. \A n \in Node : Followed(n, msgs)
  BY FollowedNone DEF IsInstance, Gift
<1> QED BY <1>1, <1>2, SendFollowed

LEMMA HandledStays ==
  ASSUME TypeOK, GiftsFollowed, NEW m \in Node, sendQueue[m] # <<>>, NEW msgs \in Seq(Message),
         Handled(m, msgs), ~IsInstance(msg(m)), \A y : Occurs(y, msgs) => ~IsInstance(y)
  PROVE  InstancesStay /\ GiftsFollowed'
<1>1. \A k \in Node : \A y :
        /\ Occurs(y, sendQueue[k]) <=> Occurs(y, Rest(k, m)) \/ (k = m /\ y = msg(m))
        /\ Occurs(y, sendQueue'[k]) <=> Occurs(y, Rest(k, m)) \/ (k = rightID[m] /\ Occurs(y, msgs))
  BY QueuesMove
<1>2. InstancesStay
  BY <1>1 DEF InstancesStay
<1>3. \A n \in Node : Followed(n, msgs)
  BY FollowedNone DEF IsInstance, Gift
<1> QED BY <1>2, <1>3, HandledFollowed

\* Who works at an instance of its own, and under which ID, stays the same.
WorkersStay ==
  \A i \in Node : (Runs(i)' <=> Runs(i)) /\ (Runs(i) => computationID'[i] = computationID[i])

\* A node that has an instance, or is about to be told of it, is so still.
LEMMA SpreadStays ==
  ASSUME NEW k \in Node, NEW i, Spread(k, i),
         data'[k] = data[k], Started' = Started, \A x \in Started : rightID'[x] = rightID[x],
         \A j \in Node : \A y : Occurs(y, sendQueue[j]) /\ IsInstance(y) => Occurs(y, sendQueue'[j])
  PROVE  Spread(k, i)'
<1>1. CASE i \in Range(data[k])
  BY <1>1 DEF Spread
<1>2. CASE \E j \in Node : \E y : Occurs(y, sendQueue[j]) /\ Gift(k, y) /\ y.instance = i
  <2>1. \E j \in Node : \E y : Occurs(y, sendQueue'[j]) /\ Gift(k, y) /\ y.instance = i
    BY <1>2 DEF Gift, IsInstance
  <2> QED BY <2>1 DEF Spread, Gift
<1>3. CASE \E p \in Started : \E F \in SUBSET Started :
             k \in F /\ Ahead(F, p, i) /\ \E y : Occurs(y, sendQueue[p]) /\ News(i, y)
  <2>1. PICK p \in Started, F \in SUBSET Started :
               k \in F /\ Ahead(F, p, i) /\ \E y : Occurs(y, sendQueue[p]) /\ News(i, y)
    BY <1>3
  <2>2. Ahead(F, p, i)'
    BY <2>1 DEF Ahead
  <2>3. \E y : Occurs(y, sendQueue'[p]) /\ News(i, y)
    BY <2>1 DEF News, IsInstance, Started
  <2>4. (\E y : Occurs(y, sendQueue[p]) /\ News(i, y))'
    BY <2>3 DEF News
  <2> QED BY <2>1, <2>2, <2>4 DEF Spread
<1> QED BY <1>1, <1>2, <1>3 DEF Spread

\* Nothing that speaks of instances comes or goes.
LEMMA InstancesKept ==
  ASSUME InstInv, JoinInv', IDInv', Tabled', GiftsFollowed', InstancesStay, WorkersStay, UNCHANGED data,
         Started' = Started, \A x \in Started : rightID'[x] = rightID[x]
  PROVE  InstInv'
<1>1. \A id : \A i : TrueEntry(id, i) => TrueEntry(id, i)'
  <2>1. WithFile \subseteq Node
    BY MembershipAssumption
  <2> QED BY <2>1 DEF WorkersStay, TrueEntry, Runs
<1>3. DataTrue'
  <2>1. ASSUME NEW k \in Node, NEW id \in DOMAIN data[k]
        PROVE  TrueEntry(id, data[k][id])'
    <3>1. PICK v : v = data[k][id]
      OBVIOUS
    <3>2. TrueEntry(id, v)'
      BY <1>1, <3>1 DEF InstInv, DataTrue
    <3> QED BY <3>1, <3>2
  <2>2. ASSUME NEW k \in Node, NEW y, Occurs(y, sendQueue'[k]), y.type = "INSTANCE_ANNOUNCEMENT"
        PROVE  TrueEntry(y.computationID, y.instance)'
    <3>1. Occurs(y, sendQueue[k])
      BY <2>2 DEF InstancesStay, IsInstance
    <3> QED BY <1>1, <2>2, <3>1 DEF InstInv, DataTrue
  <2> QED BY <2>1, <2>2 DEF DataTrue, Occurs
<1>4. InstancesSpread'
  <2>1. ASSUME NEW i \in Node, Runs(i)', NEW k \in Started
        PROVE  Spread(k, i)'
    <3>1. Spread(k, i) /\ k \in Node
      BY <2>1 DEF InstInv, InstancesSpread, WorkersStay, Started
    <3> QED BY <3>1, SpreadStays DEF InstancesStay
  <2> QED BY <2>1 DEF InstancesSpread
<1> QED BY <1>3, <1>4 DEF InstInv

\* The steps of main() that have nothing to do with instances.
LEMMA MainInst ==
  ASSUME InstInv, JoinInv', IDInv', Tabled', NEW n \in Node, MainStep(n), ~BuildNetAndRequestData(n), ~NewData(n)
  PROVE  InstInv'
<1>0. TypeOK /\ pc \in [Node -> PC] /\ maxID \in [Node -> ID] /\ computationID \in [Node -> ID]
      /\ GiftsFollowed /\ TypeInv
  BY DEF InstInv, IDInv, TypeInv, TypeOK
<1>1. Started' = Started /\ rightID' = rightID
  BY <1>0, StartedKept DEF netVars
<1>2. UNCHANGED data
  BY DEF MainStep, InitSingle, InitSleep, SearchFreeID, SleepFreeID, WakeFreeID, TakeAnyID
<1>3. WorkersStay
  <2>1. /\ \A k \in Node \ {n} : pc'[k] = pc[k] /\ computationID'[k] = computationID[k]
        /\ pc[n] # "running" /\ (pc'[n] = "running" => n \notin WithFile)
    <3>1. CASE InitSingle(n) \/ InitSleep(n) \/ SleepFreeID(n)
      BY <1>0, <3>1 DEF InitSingle, InitSleep, SleepFreeID, Goto
    <3>2. CASE SearchFreeID(n)
      <4>1. /\ pc[n] = "ready" /\ \E to \in {"named", "searching"} : pc' = [pc EXCEPT ![n] = to]
            /\ computationID' = [computationID EXCEPT ![n] = maxID[n]] \/ computationID' = computationID
        BY <3>2 DEF SearchFreeID, Goto
      <4> QED BY <1>0, <4>1
    <3>3. CASE WakeFreeID(n)
      BY <1>0, <3>3 DEF WakeFreeID, Goto
    <3>4. CASE TakeAnyID(n)
      BY <1>0, <3>4 DEF TakeAnyID, Goto
    <3> QED BY <3>1, <3>2, <3>3, <3>4 DEF MainStep
  <2> QED BY <2>1 DEF WorkersStay, Runs
<1>4. InstancesStay /\ GiftsFollowed'
  <2>1. CASE UNCHANGED sendQueue
    BY <1>0, <2>1 DEF InstancesStay, GiftsFollowed, Followed, Gift, Res
  <2>2. CASE SearchFreeID(n) /\ Send(n, <<FreeIDSearch(n, maxID[n])>>)
    <3> DEFINE y1 == FreeIDSearch(n, maxID[n])
    <3>1. y1 \in Message /\ ~IsInstance(y1)
      <4>1. maxID[n] \in ID
        BY <1>0
      <4> QED BY <4>1 DEF FreeIDSearch, Message, IsInstance
    <3>2. Send(n, <<y1>>)
      BY <2>2
    <3> HIDE DEF y1
    <3>3. <<y1>> \in Seq(Message)
      BY <3>1, OneMessage
    <3>4. \A y : Occurs(y, <<y1>>) => ~IsInstance(y)
      BY <3>1, OccursOnce
    <3> QED BY <1>0, <3>2, <3>3, <3>4, SendStays
  <2>3. CASE WakeFreeID(n)
    <3> DEFINE q == idSearchColisionQueue[n]
               msgs == [i \in DOMAIN q |-> FreeIDSearch(q[i], maxID[n])]
    <3>2. maxID[n] \in ID /\ q \in Seq(Node) /\ Send(n, msgs)
      BY <1>0, <2>3 DEF TypeOK, WakeFreeID
    <3>3. \A i \in DOMAIN q : FreeIDSearch(q[i], maxID[n]) \in Message /\ ~IsInstance(FreeIDSearch(q[i], maxID[n]))
      BY <3>2 DEF FreeIDSearch, Message, IsInstance
    <3>4. msgs \in Seq(Message)
      <4>1. Len(q) \in Nat /\ DOMAIN q = 1 .. Len(q)
        BY <3>2
      <4> HIDE DEF q
      <4>2. msgs \in [1 .. Len(q) -> Message]
        BY <3>3, <4>1
      <4> QED BY <4>1, <4>2
    <3>5. \A y : Occurs(y, msgs) => ~IsInstance(y)
      BY <3>3 DEF Occurs
    <3> HIDE DEF msgs
    <3> QED BY <1>0, <3>2, <3>4, <3>5, SendStays
  <2> QED BY <2>1, <2>2, <2>3 DEF MainStep, InitSingle, InitSleep, SearchFreeID, SleepFreeID, TakeAnyID
<1> QED BY <1>1, <1>2, <1>3, <1>4, InstancesKept

\* Names of nodes, or a search for a free ID, come in.
LEMMA DeliverInst ==
  ASSUME InstInv, JoinInv', IDInv', Tabled', NEW m \in Node,
         ReceiveNodeAnnouncement(m) \/ ReceiveFreeID(m) \/ ReceiveSearch(m)
  PROVE  InstInv'
<1> DEFINE r == rightID[m]
<1>0. \E type \in {"NODE_ANNOUNCEMENT", "FREE_ID_SEARCH"} : Arrives(m, type)
  BY DEF ReceiveNodeAnnouncement, ReceiveFreeID, ReceiveSearch
<1>1. /\ r \in Node /\ TypeOK /\ sendQueue[m] # <<>> /\ pc \in [Node -> PC]
      /\ msg(m) \in Message /\ ~IsInstance(msg(m)) /\ GiftsFollowed
  BY <1>0, ArrivesStarted DEF InstInv, IsInstance, TypeOK
<1>2. Started' = Started /\ rightID' = rightID
  <2>1. Deliver(m)
    BY DEF Deliver
  <2> QED BY <2>1, StartedKept DEF netVars, InstInv, IDInv
<1>3. UNCHANGED <<data, computationID>>
  BY DEF ReceiveNodeAnnouncement, ReceiveFreeID, ReceiveSearch
<1>4. WorkersStay
  <2>1. \A k \in Node : pc'[k] = "running" <=> pc[k] = "running"
    <3>1. CASE ReceiveNodeAnnouncement(m)
      <4>1. pc' = [pc EXCEPT ![r] = IF confirms(m) /\ pc[r] = "init" THEN "ready" ELSE pc[r]]
        BY <3>1 DEF ReceiveNodeAnnouncement
      <4> QED BY <1>1, <4>1
    <3>2. CASE ReceiveFreeID(m)
      <4>1. pc' = [pc EXCEPT ![r] = IF pc[r] \in {"asleep", "woken"} THEN "woken" ELSE pc[r]]
        BY <3>2 DEF ReceiveFreeID
      <4> QED BY <1>1, <4>1
    <3>3. CASE ReceiveSearch(m)
      BY <3>3 DEF ReceiveSearch
    <3> QED BY <3>1, <3>2, <3>3
  <2> QED BY <1>3, <2>1 DEF WorkersStay, Runs
<1>5. \E msgs \in Seq(Message) : Handled(m, msgs) /\ \A y : Occurs(y, msgs) => ~IsInstance(y)
  <2>1. CASE ReceiveNodeAnnouncement(m)
    <3> DEFINE b == Further(m, liveNodes[r] \cup msg(m).nodes)
    <3>1. b \in Seq(Message) /\ \A y : Occurs(y, b) => ~IsInstance(y)
      BY <1>1, FurtherType, OccursOnce DEF Further
    <3>2. Handled(m, b)
      BY <2>1 DEF ReceiveNodeAnnouncement
    <3> QED BY <3>1, <3>2
  <2>2. CASE ReceiveFreeID(m)
    <3>1. Handled(m, <<>>)
      BY <2>2 DEF ReceiveFreeID
    <3>2. <<>> \in Seq(Message)
      OBVIOUS
    <3>3. \A y : ~Occurs(y, <<>>)
      BY OccursOnce
    <3> QED BY <3>1, <3>2, <3>3
  <2>3. CASE ReceiveSearch(m)
    <3> DEFINE s == msg(m).sourceNode
               held == pc[r] \in {"asleep", "woken"} /\ r > s
               y1 == FreeIDSearch(s, raised(r, msg(m).slotA))
               a == IF held THEN <<>> ELSE <<y1>>
               b == Further(m, liveNodes[r])
    <3>0. msg(m).sourceNode \in Node /\ msg(m).slotA \in ID
      <4>1. msg(m).type = "FREE_ID_SEARCH"
        BY <2>3 DEF ReceiveSearch, Arrives
      <4> QED BY <1>1, <4>1, Fields
    <3>1. y1 \in Message /\ ~IsInstance(y1)
      <4>1. maxID[r] \in ID
        BY <1>1 DEF TypeOK
      <4>2. raised(r, msg(m).slotA) \in ID
        BY <3>0, <4>1 DEF raised
      <4> QED BY <3>0, <4>2 DEF FreeIDSearch, Message, IsInstance
    <3>2. Handled(m, a \o b)
      BY <2>3 DEF ReceiveSearch
    <3>3. b \in Seq(Message) /\ \A y : Occurs(y, b) => ~IsInstance(y)
      BY <1>1, FurtherType, OccursOnce DEF Further
    <3> HIDE DEF y1, held, b
    <3>4. a \in Seq(Message) /\ \A y : Occurs(y, a) => ~IsInstance(y)
      <4>1. <<y1>> \in Seq(Message) /\ <<>> \in Seq(Message)
        BY <3>1, OneMessage
      <4>2. \A y : ~Occurs(y, <<>>) /\ (Occurs(y, <<y1>>) => ~IsInstance(y))
        BY <3>1, OccursOnce
      <4> QED BY <4>1, <4>2
    <3> HIDE DEF a
    <3>5. a \o b \in Seq(Message) /\ \A y : Occurs(y, a \o b) => ~IsInstance(y)
      BY <3>3, <3>4, OccursAppended
    <3> QED BY <3>2, <3>5
  <2> QED BY <2>1, <2>2, <2>3
<1>6. InstancesStay /\ GiftsFollowed'
  BY <1>1, <1>5, HandledStays
<1> QED BY <1>2, <1>3, <1>4, <1>6, InstancesKept

\* createSingleNodeNetwork: nobody works yet, so there is no instance at all.
LEMMA CreateInst ==
  ASSUME InstInv, JoinInv', IDInv', Tabled', NEW n \in Node, createSingleNodeNetwork(n)
  PROVE  InstInv'
<1>1. /\ \A k \in Node : pc[k] = "off"
      /\ pc'[n] = "started" /\ \A k \in Node \ {n} : pc'[k] = "off"
  BY CreateStarts DEF InstInv, IDInv
<1>2. UNCHANGED <<sendQueue, data>>
  BY DEF createSingleNodeNetwork
<1>3. \A i : ~Runs(i) /\ ~Runs(i)'
  <2>1. WithFile \subseteq Node
    BY MembershipAssumption
  <2> QED BY <1>1, <2>1 DEF Runs
<1>4. DataTrue'
  BY <1>2, <1>3 DEF InstInv, DataTrue, TrueEntry, Occurs
<1>5. GiftsFollowed'
  BY <1>2 DEF InstInv, GiftsFollowed, Followed, Gift, Res
<1>6. InstancesSpread'
  BY <1>3 DEF InstancesSpread
<1> QED BY <1>4, <1>5, <1>6 DEF InstInv

\* ConnectAsLeftNode.
LEMMA ConnectInst ==
  ASSUME InstInv, JoinInv', IDInv', Tabled', NEW n \in Node, NEW r \in Node, Connect(n, r)
  PROVE  InstInv'
<1>1. /\ pc[n] = "off" /\ pc'[n] = "connected" /\ \A k \in Node \ {n} : pc'[k] = pc[k]
      /\ Started' = Started /\ \A k \in Started : rightID'[k] = rightID[k]
  BY ConnectStarts DEF InstInv, IDInv
<1>2. UNCHANGED <<sendQueue, data, computationID>>
  BY DEF Connect
<1>3. WorkersStay
  BY <1>1, <1>2 DEF WorkersStay, Runs
<1>4. InstancesStay /\ GiftsFollowed'
  BY <1>2 DEF InstInv, GiftsFollowed, Followed, Gift, Res, InstancesStay
<1> QED BY <1>1, <1>2, <1>3, <1>4, InstancesKept

\* Whoever rests has been sent all that it was to be sent as it joined.
LEMMA NoGift ==
  ASSUME InstInv, NEW l \in Node, Resting(l), NEW k \in Node, NEW y, Occurs(y, sendQueue[k])
  PROVE  ~Gift(l, y)
<1> SUFFICES ASSUME Gift(l, y) PROVE FALSE
  OBVIOUS
<1>1. PICK i \in DOMAIN sendQueue[k] : sendQueue[k][i] = y
  BY DEF Occurs
<1>2. PICK j \in DOMAIN sendQueue[k] : Res(l, sendQueue[k][j])
  BY <1>1 DEF InstInv, GiftsFollowed, Followed
<1>3. Occurs(sendQueue[k][j], sendQueue[k])
  BY DEF Occurs
<1>4. pc[l] \in {"started", "init"}
  BY <1>2, <1>3 DEF InstInv, JoinInv, TalesPlaced
<1> QED BY <1>4 DEF Resting

\* BuildNetAndRequestData: the new node is sent what its left neighbour has, and
\* is met by what that one has yet to be told.
LEMMA BuildInst ==
  ASSUME InstInv, JoinInv', IDInv', Tabled', NEW n \in Node, BuildNetAndRequestData(n)
  PROVE  InstInv'
<1> DEFINE l == leftID[n]
           msgs == sendAllData(l, n)
<1>0. TypeOK /\ TypeInv /\ GiftsFollowed /\ WithFile \subseteq Node
  BY MembershipAssumption DEF InstInv, IDInv, TypeInv
<1>1. /\ pc[n] = "connected" /\ pc'[n] = "started" /\ \A k \in Node \ {n} : pc'[k] = pc[k]
      /\ n \notin Started /\ Started' = Started \cup {n}
      /\ l \in Started /\ rightID'[l] = n /\ rightID'[n] = rightID[l]
      /\ \A k \in Started \ {l} : rightID'[k] = rightID[k]
  BY <1>0, BuildStarts
<1>2. UNCHANGED <<data, computationID>> /\ Send(l, msgs) /\ l \in Node
  BY <1>1 DEF BuildNetAndRequestData, Started
<1>3. /\ \A y : Occurs(y, msgs) /\ IsInstance(y) => y.computationID \in DOMAIN data[l] /\ y.instance = data[l][y.computationID]
      /\ \A id \in DOMAIN data[l] : \E y : Occurs(y, msgs) /\ IsInstance(y) /\ y.sourceNode = n /\ y.instance = data[l][id]
      /\ \A k \in Node : Followed(k, msgs)
  BY <1>0, <1>2, SentInstances DEF IsInstance
<1>4. msgs \in Seq(Message)
  BY <1>0, <1>2, SentType
<1>5. Resting(l)
  <2>1. n # First
    BY <1>1 DEF InstInv, JoinInv, FirstAlone
  <2> QED BY <1>1, <2>1 DEF InstInv, JoinInv, LeftRests
<1> HIDE DEF msgs, l
<1>6. \A k \in Node : \A y : Occurs(y, sendQueue'[k]) <=> Occurs(y, sendQueue[k]) \/ (k = l /\ Occurs(y, msgs))
  BY <1>0, <1>2, <1>4, QueuesGrow
<1>7. GiftsFollowed'
  BY <1>0, <1>2, <1>3, <1>4, SendFollowed
<1>8. \A i : /\ Runs(i)' <=> Runs(i)
             /\ Runs(i) => computationID'[i] = computationID[i] /\ i # n /\ i \in Node
  BY <1>0, <1>1, <1>2 DEF Runs
<1>9. \A id : \A i : TrueEntry(id, i) => TrueEntry(id, i)'
  BY <1>8 DEF TrueEntry
<1>10. DataTrue'
  <2>1. ASSUME NEW k \in Node, NEW id \in DOMAIN data[k]
        PROVE  TrueEntry(id, data[k][id])'
    <3>1. PICK v : v = data[k][id]
      OBVIOUS
    <3>2. TrueEntry(id, v)'
      BY <1>9, <3>1 DEF InstInv, DataTrue
    <3> QED BY <1>2, <3>1, <3>2
  <2>2. ASSUME NEW k \in Node, NEW y, Occurs(y, sendQueue'[k]), y.type = "INSTANCE_ANNOUNCEMENT"
        PROVE  TrueEntry(y.computationID, y.instance)'
    <3>1. CASE Occurs(y, sendQueue[k])
      BY <1>9, <2>2, <3>1 DEF InstInv, DataTrue
    <3>2. CASE Occurs(y, msgs)
      <4>1. y.computationID \in DOMAIN data[l] /\ y.instance = data[l][y.computationID]
        BY <1>3, <2>2, <3>2 DEF IsInstance
      <4> QED BY <1>2, <1>9, <4>1 DEF InstInv, DataTrue
    <3> QED BY <1>6, <2>2, <3>1, <3>2
  <2> QED BY <1>2, <2>1, <2>2 DEF DataTrue, Occurs
<1>11. \* What is on its way to the nodes of F comes to n as well if it comes to l.
       ASSUME NEW i \in Node, Runs(i), NEW p \in Started, NEW F \in SUBSET Started, Ahead(F, p, i),
              \E y : Occurs(y, sendQueue[p]) /\ News(i, y)
       PROVE  \E G \in SUBSET Started' : /\ F \subseteq G /\ (l \in F => n \in G)
                                         /\ Ahead(G, p, i)'
                                         /\ (\E y : Occurs(y, sendQueue[p]) /\ News(i, y))'
  <2>1. (\E y : Occurs(y, sendQueue[p]) /\ News(i, y))'
    <3>1. \E y : Occurs(y, sendQueue'[p]) /\ News(i, y)
      BY <1>6, <1>11 DEF Started
    <3> QED BY <3>1 DEF News
  <2>2. n # i /\ n # p
    BY <1>1, <1>8, <1>11
  <2>3. CASE l \in F \/ l = p
    <3> DEFINE G == F \cup {n}
    <3>1. rightID'[p] \in G
      BY <1>1, <1>11, <2>3 DEF Ahead
    <3>2. \A x \in G : x # p /\ x # i /\ rightID'[x] \in G \cup {i}
      BY <1>1, <1>11, <2>2, <2>3 DEF Ahead
    <3>3. Ahead(G, p, i)'
      BY <3>1, <3>2 DEF Ahead
    <3> QED BY <1>1, <2>1, <3>3
  <2>4. CASE l \notin F /\ l # p
    <3>1. Ahead(F, p, i)'
      BY <1>1, <1>11, <2>4 DEF Ahead
    <3> QED BY <1>1, <2>1, <2>4, <3>1
  <2> QED BY <2>3, <2>4
<1>12. ASSUME NEW i \in Node, Runs(i), NEW k \in Started
       PROVE  Spread(k, i)'
  <2>1. Spread(k, i)
    BY <1>12 DEF InstInv, InstancesSpread
  <2>2. CASE i \in Range(data[k])
    BY <1>2, <2>2 DEF Spread
  <2>3. CASE \E j \in Node : \E y : Occurs(y, sendQueue[j]) /\ Gift(k, y) /\ y.instance = i
    <3>1. \E j \in Node : \E y : Occurs(y, sendQueue'[j]) /\ Gift(k, y) /\ y.instance = i
      BY <1>6, <2>3
    <3> QED BY <3>1 DEF Spread, Gift
  <2>4. CASE \E p \in Started : \E F \in SUBSET Started :
               k \in F /\ Ahead(F, p, i) /\ \E y : Occurs(y, sendQueue[p]) /\ News(i, y)
    <3>1. PICK p \in Started, F \in SUBSET Started :
                 k \in F /\ Ahead(F, p, i) /\ \E y : Occurs(y, sendQueue[p]) /\ News(i, y)
      BY <2>4
    <3>2. PICK G \in SUBSET Started' : F \subseteq G /\ Ahead(G, p, i)' /\ (\E y : Occurs(y, sendQueue[p]) /\ News(i, y))'
      BY <1>11, <1>12, <3>1
    <3> QED BY <1>1, <3>1, <3>2 DEF Spread
  <2> QED BY <2>1, <2>2, <2>3, <2>4 DEF Spread
<1>13. ASSUME NEW i \in Node, Runs(i)
       PROVE  Spread(n, i)'
  <2>1. Spread(l, i)
    BY <1>1, <1>13 DEF InstInv, InstancesSpread
  <2>2. CASE i \in Range(data[l])
    <3>1. PICK id \in DOMAIN data[l] : data[l][id] = i
      BY <2>2 DEF Range
    <3>2. PICK y : Occurs(y, msgs) /\ IsInstance(y) /\ y.sourceNode = n /\ y.instance = i
      BY <1>3, <3>1
    <3>3. Occurs(y, sendQueue'[l]) /\ Gift(n, y)
      BY <1>2, <1>6, <1>8, <1>13, <3>2 DEF Gift, IsInstance
    <3>4. \E j \in Node : \E z : Occurs(z, sendQueue'[j]) /\ Gift(n, z) /\ z.instance = i
      BY <1>2, <3>2, <3>3
    <3> QED BY <3>4 DEF Spread, Gift
  <2>3. CASE \E j \in Node : \E y : Occurs(y, sendQueue[j]) /\ Gift(l, y) /\ y.instance = i
    BY <1>2, <1>5, <2>3, NoGift
  <2>4. CASE \E p \in Started : \E F \in SUBSET Started :
               l \in F /\ Ahead(F, p, i) /\ \E y : Occurs(y, sendQueue[p]) /\ News(i, y)
    <3>1. PICK p \in Started, F \in SUBSET Started :
                 l \in F /\ Ahead(F, p, i) /\ \E y : Occurs(y, sendQueue[p]) /\ News(i, y)
      BY <2>4
    <3>2. PICK G \in SUBSET Started' : n \in G /\ Ahead(G, p, i)' /\ (\E y : Occurs(y, sendQueue[p]) /\ News(i, y))'
      BY <1>11, <1>13, <3>1
    <3> QED BY <1>1, <3>1, <3>2 DEF Spread
  <2> QED BY <2>1, <2>2, <2>3, <2>4 DEF Spread
<1>14. InstancesSpread'
  BY <1>1, <1>8, <1>12, <1>13 DEF InstancesSpread
<1> QED BY <1>7, <1>10, <1>14 DEF InstInv

\* An instance that is inserted is there, and so are those that were before.
LEMMA InsertedRange ==
  ASSUME NEW copies, NEW id, NEW i
  PROVE  /\ \A j \in DOMAIN inserted(copies, id, i) :
              \/ j \in DOMAIN copies /\ inserted(copies, id, i)[j] = copies[j]
              \/ j = id /\ inserted(copies, id, i)[j] = i
         /\ Range(copies) \subseteq Range(inserted(copies, id, i))
         /\ (id \in DOMAIN copies => copies[id] = i) => i \in Range(inserted(copies, id, i))
BY DEF inserted, Range

\* Two instances have two IDs.
LEMMA TrueOnce ==
  ASSUME IDInv, NEW id, NEW i, NEW j, TrueEntry(id, i), TrueEntry(id, j)
  PROVE  i = j
<1>1. InstancesApart
  BY IDInvApart
<1> QED BY <1>1 DEF TrueEntry, Runs, InstancesApart

\* newData and startComputation: the instance is announced to all other nodes.
LEMMA NewDataInst ==
  ASSUME InstInv, JoinInv', IDInv', Tabled', NEW n \in Node, NewData(n)
  PROVE  InstInv'
<1>a. PICK id1 : id1 = computationID[n]
  OBVIOUS
<1> DEFINE y1 == InstanceAnnouncement(n, id1, n, FALSE)
           msgs == IF isSingle(n) THEN <<>> ELSE <<y1>>
<1>0. /\ TypeOK /\ TypeInv /\ GiftsFollowed /\ WithFile \subseteq Node
      /\ pc \in [Node -> PC] /\ DOMAIN data = Node /\ computationID \in [Node -> ID]
  BY MembershipAssumption DEF InstInv, IDInv, TypeInv, TypeOK
<1>1. /\ pc[n] = "named" /\ pc' = [pc EXCEPT ![n] = "running"]
      /\ data' = [data EXCEPT ![n] = inserted(data[n], id1, n)]
      /\ Send(n, msgs) /\ UNCHANGED <<rightID, leftID, computationID>>
  BY <1>a DEF NewData, Goto, netVars
<1>2. /\ n \in WithFile /\ n \in Started /\ Started' = Started /\ Started \subseteq Node
      /\ pc'[n] = "running" /\ \A k \in Node \ {n} : pc'[k] = pc[k]
  BY <1>0, <1>1 DEF TypeInv, SeekersHaveFile, Started
<1>3. data'[n] = inserted(data[n], id1, n) /\ \A k \in Node \ {n} : data'[k] = data[k]
  BY <1>0, <1>1
<1>4. y1 \in Message /\ News(n, y1) /\ y1.computationID = id1 /\ y1.instance = n /\ y1.sourceNode = n
  BY <1>0, <1>2, <1>a DEF InstanceAnnouncement, Message, News
<1> HIDE DEF y1
<1>5. /\ msgs \in Seq(Message) /\ \A y : Occurs(y, msgs) => y = y1
      /\ ~isSingle(n) => Occurs(y1, msgs)
  <2>1. <<y1>> \in Seq(Message) /\ <<>> \in Seq(Message)
    BY <1>4, OneMessage
  <2>2. \A y : ~Occurs(y, <<>>) /\ (Occurs(y, <<y1>>) <=> y = y1)
    BY OccursOnce
  <2> QED BY <2>1, <2>2
<1> HIDE DEF msgs
<1>6. \A k \in Node : \A y : Occurs(y, sendQueue'[k]) <=> Occurs(y, sendQueue[k]) \/ (k = n /\ Occurs(y, msgs))
  BY <1>0, <1>1, <1>5, QueuesGrow
<1>7. GiftsFollowed'
  <2>1. ASSUME NEW k \in Node PROVE Followed(k, msgs)
    <3>1. \A y : Occurs(y, msgs) => ~Gift(k, y)
      BY <1>4, <1>5 DEF Gift
    <3> QED BY <3>1, FollowedNone
  <2> QED BY <1>0, <1>1, <1>5, <2>1, SendFollowed
<1>8. \A i : /\ Runs(i)' <=> Runs(i) \/ i = n
             /\ Runs(i) => i \in Node
  BY <1>0, <1>1, <1>2 DEF Runs
<1>9. /\ \A id : \A i : TrueEntry(id, i) => TrueEntry(id, i)'
      /\ TrueEntry(id1, n)'
  BY <1>1, <1>8, <1>a DEF TrueEntry
<1>10. DataTrue'
  <2>1. ASSUME NEW k \in Node, NEW id \in DOMAIN data'[k]
        PROVE  TrueEntry(id, data[k][id])'
    <3>1. (id \in DOMAIN data[k] /\ data'[k][id] = data[k][id]) \/ (id = id1 /\ data'[k][id] = n)
      BY <1>3, InsertedRange
    <3>2. PICK v : v = data'[k][id]
      OBVIOUS
    <3>3. TrueEntry(id, v)'
      BY <1>9, <3>1, <3>2 DEF InstInv, DataTrue
    <3> QED BY <3>2, <3>3
  <2>2. ASSUME NEW k \in Node, NEW y, Occurs(y, sendQueue'[k]), y.type = "INSTANCE_ANNOUNCEMENT"
        PROVE  TrueEntry(y.computationID, y.instance)'
    <3>1. CASE Occurs(y, sendQueue[k])
      BY <1>9, <2>2, <3>1 DEF InstInv, DataTrue
    <3>2. CASE y = y1
      BY <1>4, <1>9, <3>2
    <3> QED BY <1>5, <1>6, <2>2, <3>1, <3>2
  <2> QED BY <2>1, <2>2 DEF DataTrue, Occurs
<1>11. \A k \in Node : Range(data[k]) \subseteq Range(data'[k])
  BY <1>3, InsertedRange
<1>12. ASSUME NEW i \in Node, Runs(i), NEW k \in Started
       PROVE  Spread(k, i)'
  <2>1. Spread(k, i) /\ k \in Node
    BY <1>2, <1>12 DEF InstInv, InstancesSpread
  <2>2. CASE i \in Range(data[k])
    BY <1>11, <2>1, <2>2 DEF Spread
  <2>3. CASE \E j \in Node : \E y : Occurs(y, sendQueue[j]) /\ Gift(k, y) /\ y.instance = i
    <3>1. \E j \in Node : \E y : Occurs(y, sendQueue'[j]) /\ Gift(k, y) /\ y.instance = i
      BY <1>6, <2>3
    <3> QED BY <3>1 DEF Spread, Gift
  <2>4. CASE \E p \in Started : \E F \in SUBSET Started :
               k \in F /\ Ahead(F, p, i) /\ \E y : Occurs(y, sendQueue[p]) /\ News(i, y)
    <3>1. PICK p \in Started, F \in SUBSET Started :
                 k \in F /\ Ahead(F, p, i) /\ \E y : Occurs(y, sendQueue[p]) /\ News(i, y)
      BY <2>4
    <3>2. Ahead(F, p, i)'
      BY <1>1, <3>1 DEF Ahead
    <3>3. \E y : Occurs(y, sendQueue'[p]) /\ News(i, y)
      BY <1>2, <1>6, <3>1
    <3>4. (\E y : Occurs(y, sendQueue[p]) /\ News(i, y))'
      BY <3>3 DEF News
    <3> QED BY <1>2, <3>1, <3>2, <3>4 DEF Spread
  <2> QED BY <2>1, <2>2, <2>3, <2>4 DEF Spread
<1>13. n \in Range(data'[n])
  <2>1. id1 \notin DOMAIN data[n]
    <3>1. SUFFICES ASSUME id1 \in DOMAIN data[n] PROVE FALSE
      OBVIOUS
    <3>2. PICK v : v = data[n][id1]
      OBVIOUS
    <3>3. TrueEntry(id1, v)
      BY <3>1, <3>2 DEF InstInv, DataTrue
    <3>4. v # n
      BY <1>1, <3>3 DEF TrueEntry, Runs
    <3>5. TrueEntry(id1, v)' /\ TrueEntry(id1, n)'
      BY <1>9, <3>3
    <3>6. v \in WithFile /\ pc'[v] = "running" /\ pc'[n] = "running" /\ computationID'[v] = computationID'[n]
      BY <1>2, <3>5 DEF TrueEntry, Runs
    <3>7. InstancesApart
      BY IDInvApart DEF InstInv
    <3>8. pc[v] = "running" /\ computationID[v] = computationID[n]
      BY <1>1, <3>3, <3>6 DEF TrueEntry, Runs
    <3> QED BY <1>1, <1>2, <3>4, <3>6, <3>7, <3>8 DEF InstancesApart
  <2> QED BY <1>3, <2>1, InsertedRange
<1>14. ASSUME NEW k \in Started
       PROVE  Spread(k, n)'
  <2>1. CASE k = n
    BY <1>13, <2>1 DEF Spread
  <2>2. CASE k # n
    <3>1. ~isSingle(n)
      <4>1. SUFFICES ASSUME leftID[n] = n PROVE FALSE
        BY DEF isSingle
      <4>2. n \in Members /\ k \in Members
        BY <1>2 DEF Started, Members
      <4>3. {n} \in SUBSET Members /\ {n} # {} /\ \A x \in {n} : leftID[x] \in {n}
        BY <4>1, <4>2
      <4>4. LeftRing(Members, leftID)
        BY <1>0 DEF TypeInv, RingInv
      <4>5. {n} = Members
        BY <4>3, <4>4 DEF LeftRing
      <4> QED BY <2>2, <4>2, <4>5
    <3>a. PICK F : F = Started \ {n}
      OBVIOUS
    <3>2. LeftRing(Started, rightID)
      BY DEF InstInv, JoinInv
    <3>3. rightID[n] # n
      <4>1. SUFFICES ASSUME rightID[n] = n PROVE FALSE
        OBVIOUS
      <4>2. {n} \in SUBSET Started /\ {n} # {} /\ \A x \in {n} : rightID[x] \in {n}
        BY <1>2, <4>1
      <4>3. {n} = Started
        BY <3>2, <4>2 DEF LeftRing
      <4> QED BY <2>2, <4>3
    <3>4. rightID'[n] \in F /\ \A x \in F : x # n /\ rightID'[x] \in F \cup {n}
      BY <1>1, <1>2, <3>2, <3>3, <3>a DEF LeftRing
    <3>5. Ahead(F, n, n)'
      BY <3>4 DEF Ahead
    <3>6. \E y : Occurs(y, sendQueue'[n]) /\ News(n, y)
      BY <1>4, <1>5, <1>6, <3>1
    <3>7. (\E y : Occurs(y, sendQueue[n]) /\ News(n, y))'
      BY <3>6 DEF News
    <3>8. k \in F /\ F \in SUBSET Started' /\ n \in Started'
      BY <1>2, <2>2, <3>a
    <3> QED BY <3>5, <3>7, <3>8 DEF Spread
  <2> QED BY <2>1, <2>2
<1>15. InstancesSpread'
  BY <1>2, <1>8, <1>12, <1>14 DEF InstancesSpread
<1> QED BY <1>7, <1>10, <1>15 DEF InstInv

\* What the announcement of i meets next.
LEMMA AheadShrinks ==
  ASSUME LeftRing(Started, rightID),
         NEW F \in SUBSET Started, NEW p \in Started, NEW i \in Started, Ahead(F, p, i)
  PROVE  /\ rightID[rightID[p]] = i => F = {rightID[p]}
         /\ rightID[rightID[p]] # i => Ahead(F \ {rightID[p]}, rightID[p], i)
<1>a. PICK r : r = rightID[p]
  OBVIOUS
<1>1. r \in F /\ p \notin F /\ i \notin F /\ \A x \in F : rightID[x] \in F \cup {i}
  BY <1>a DEF Ahead
<1>2. \A x \in F : rightID[x] # r
  BY <1>1, <1>a DEF LeftRing
<1>3. ASSUME rightID[r] = i PROVE F = {r}
  <2>1. SUFFICES ASSUME F \ {r} # {} PROVE FALSE
    BY <1>1
  <2>2. \A x \in F \ {r} : rightID[x] \in F \ {r}
    BY <1>1, <1>2, <1>3 DEF LeftRing
  <2>3. F \ {r} = Started
    BY <2>1, <2>2 DEF LeftRing
  <2> QED BY <1>1, <2>3
<1>4. ASSUME rightID[r] # i PROVE Ahead(F \ {r}, r, i)
  BY <1>1, <1>2, <1>4 DEF Ahead
<1> QED BY <1>3, <1>4, <1>a

\* A node does not drop what is said of one that works.
LEMMA NotDropped ==
  ASSUME InstInv, NEW r \in Started, NEW i \in Node, Runs(i)
  PROVE  ~liveNodesConsistent[r] \/ i \in liveNodes[r]
<1>1. Settled(i)
  BY DEF InstInv, JoinInv, RestersSettled, Resting, Runs
<1>2. Informed(r, i)
  BY <1>1 DEF InstInv, JoinInv, SettledKnown
<1>3. ASSUME NEW k \in Node, NEW y, Occurs(y, sendQueue[k]), Carry(r, y)
      PROVE  ~liveNodesConsistent[r]
  BY <1>3 DEF InstInv, JoinInv, TalesPlaced, Started
<1> QED BY <1>2, <1>3 DEF Informed

\* INSTANCE_ANNOUNCEMENT.
LEMMA AnnounceInst ==
  ASSUME InstInv, JoinInv', IDInv', Tabled', NEW m \in Node, ReceiveInstanceAnnouncement(m)
  PROVE  InstInv'
<1>a. PICK r : r = rightID[m]
  OBVIOUS
<1>b. PICK y0 : y0 = msg(m)
  OBVIOUS
<1> DEFINE y1 == NodeAnnouncement(r, {r})
           a == IF y0.resume THEN <<y1>> ELSE <<>>
           b == IF stopsBeforeSource(m) THEN <<>> ELSE Further(m, liveNodes[r])
           msgs == a \o b
<1>0. Arrives(m, "INSTANCE_ANNOUNCEMENT")
  BY DEF ReceiveInstanceAnnouncement
<1>1. /\ m \in Started /\ r \in Started /\ r \in Node /\ Started \subseteq Node
      /\ TypeOK /\ sendQueue[m] # <<>> /\ y0 \in Message /\ IsInstance(y0)
      /\ Occurs(y0, sendQueue[m]) /\ DOMAIN data = Node /\ GiftsFollowed /\ WithFile \subseteq Node
  BY <1>0, <1>a, <1>b, ArrivesStarted, MembershipAssumption DEF InstInv, IsInstance, TypeOK, Started
<1>2. Started' = Started /\ UNCHANGED <<pc, rightID, leftID, computationID>>
  BY DEF ReceiveInstanceAnnouncement, netVars, Started
<1>3. data' = [data EXCEPT ![r] = inserted(data[r], y0.computationID, y0.instance)] /\ Handled(m, msgs)
  BY <1>a, <1>b DEF ReceiveInstanceAnnouncement
<1>4. /\ data'[r] = inserted(data[r], y0.computationID, y0.instance)
      /\ \A k \in Node \ {r} : data'[k] = data[k]
  BY <1>1, <1>3
<1>5. LeftRing(Started, rightID)
  BY DEF InstInv, JoinInv
\* A gift is not for anyone further on.
<1>6. ASSUME NEW k \in Node, Gift(k, y0)
      PROVE  k = r
  <2>1. PICK i \in DOMAIN sendQueue[m] : sendQueue[m][i] = y0
    BY <1>1 DEF Occurs
  <2>2. PICK j \in DOMAIN sendQueue[m] : Res(k, sendQueue[m][j])
    BY <1>6, <2>1 DEF InstInv, GiftsFollowed, Followed
  <2>3. Occurs(sendQueue[m][j], sendQueue[m])
    BY DEF Occurs
  <2>4. m = leftID[k] /\ pc[k] \in {"started", "init"}
    BY <2>2, <2>3 DEF InstInv, JoinInv, TalesPlaced
  <2>5. k \in Started
    BY <2>4 DEF Started
  <2>6. rightID[leftID[k]] = k
    BY <2>5, RightOfLeft DEF InstInv
  <2> QED BY <1>a, <2>4, <2>6
<1>7. /\ b \in Seq(Message)
      /\ \A y : Occurs(y, b) => y = y0 /\ y0.sourceNode # r
      /\ \/ rightID[r] = y0.sourceNode \/ r = y0.sourceNode
         \/ liveNodesConsistent[r] /\ y0.sourceNode \notin liveNodes[r]
         \/ Occurs(y0, b)
  <2>1. <<y0>> \in Seq(Message) /\ <<>> \in Seq(Message)
    BY <1>1, OneMessage
  <2>2. \A y : ~Occurs(y, <<>>) /\ (Occurs(y, <<y0>>) <=> y = y0)
    BY OccursOnce
  <2>3. /\ originMe(m) <=> y0.sourceNode = r
        /\ stopsBeforeSource(m) <=> y0.sourceNode = rightID[r]
    BY <1>a, <1>b DEF originMe, stopsBeforeSource
  <2>4. Further(m, liveNodes[r]) =
          IF y0.sourceNode = r \/ (liveNodesConsistent[r] /\ y0.sourceNode \notin liveNodes[r]) THEN <<>> ELSE <<y0>>
    BY <1>a, <1>b, <2>3 DEF Further
  <2> QED BY <2>1, <2>2, <2>3, <2>4
<1>8. y1 \in Message /\ y1.type = "NODE_ANNOUNCEMENT"
  BY <1>1 DEF NodeAnnouncement, Message
<1> HIDE DEF y1, b
<1>9. a \in Seq(Message) /\ \A y : Occurs(y, a) => y.type = "NODE_ANNOUNCEMENT"
  <2>1. <<y1>> \in Seq(Message) /\ <<>> \in Seq(Message)
    BY <1>8, OneMessage
  <2>2. \A y : ~Occurs(y, <<>>) /\ (Occurs(y, <<y1>>) <=> y = y1)
    BY OccursOnce
  <2> QED BY <1>8, <2>1, <2>2
<1> HIDE DEF a
<1>10. /\ msgs \in Seq(Message)
       /\ \A y : Occurs(y, msgs) => y.type = "NODE_ANNOUNCEMENT" \/ (y = y0 /\ y0.sourceNode # r)
       /\ Occurs(y0, b) => Occurs(y0, msgs)
  BY <1>7, <1>9, OccursAppended
<1> HIDE DEF msgs
<1>11. \A k \in Node : \A y :
         /\ Occurs(y, sendQueue[k]) => Occurs(y, sendQueue'[k]) \/ (k = m /\ y = y0)
         /\ Occurs(y, sendQueue'[k]) => Occurs(y, sendQueue[k]) \/ (k = r /\ Occurs(y, msgs))
         /\ k = r /\ Occurs(y, msgs) => Occurs(y, sendQueue'[k])
  BY <1>1, <1>3, <1>10, <1>a, <1>b, QueuesMove
<1>12. GiftsFollowed'
  <2>1. ASSUME NEW k \in Node PROVE Followed(k, msgs)
    <3>1. \A y : Occurs(y, msgs) => ~Gift(k, y)
      BY <1>6, <1>10 DEF Gift
    <3> QED BY <3>1, FollowedNone
  <2> QED BY <1>1, <1>3, <1>10, <2>1, HandledFollowed
<1>13. (\A i : Runs(i)' <=> Runs(i)) /\ \A id : \A i : TrueEntry(id, i)' <=> TrueEntry(id, i)
  BY <1>2 DEF TrueEntry, Runs
<1>14. TrueEntry(y0.computationID, y0.instance)
  BY <1>1 DEF InstInv, DataTrue, IsInstance
<1>15. DataTrue'
  <2>1. ASSUME NEW k \in Node, NEW id \in DOMAIN data'[k]
        PROVE  TrueEntry(id, data[k][id])'
    <3>1. (id \in DOMAIN data[k] /\ data'[k][id] = data[k][id]) \/ (id = y0.computationID /\ data'[k][id] = y0.instance)
      BY <1>4, InsertedRange
    <3>2. PICK v : v = data'[k][id]
      OBVIOUS
    <3>3. TrueEntry(id, v)
      BY <1>14, <3>1, <3>2 DEF InstInv, DataTrue
    <3>4. TrueEntry(id, v)'
      BY <1>13, <3>3
    <3> QED BY <3>2, <3>4
  <2>2. ASSUME NEW k \in Node, NEW y, Occurs(y, sendQueue'[k]), y.type = "INSTANCE_ANNOUNCEMENT"
        PROVE  TrueEntry(y.computationID, y.instance)'
    <3>1. Occurs(y, sendQueue[k]) \/ y = y0
      BY <1>10, <1>11, <2>2
    <3>2. TrueEntry(y.computationID, y.instance)
      BY <1>14, <2>2, <3>1 DEF InstInv, DataTrue
    <3> QED BY <1>13, <3>2
  <2> QED BY <2>1, <2>2 DEF DataTrue, Occurs
<1>16. \A k \in Node : Range(data[k]) \subseteq Range(data'[k])
  BY <1>4, InsertedRange
<1>17. y0.instance \in Range(data'[r])
  <2>1. y0.computationID \in DOMAIN data[r] => data[r][y0.computationID] = y0.instance
    BY <1>1, <1>14, TrueOnce DEF InstInv, DataTrue
  <2> QED BY <1>4, <2>1, InsertedRange
<1>18. ASSUME NEW i \in Node, Runs(i), NEW k \in Started
       PROVE  Spread(k, i)'
  <2>1. Spread(k, i) /\ k \in Node
    BY <1>1, <1>18 DEF InstInv, InstancesSpread
  <2>2. CASE i \in Range(data[k])
    BY <1>16, <2>1, <2>2 DEF Spread
  <2>3. CASE \E j \in Node : \E y : Occurs(y, sendQueue[j]) /\ Gift(k, y) /\ y.instance = i
    <3>1. PICK j \in Node : \E y : Occurs(y, sendQueue[j]) /\ Gift(k, y) /\ y.instance = i
      BY <2>3
    <3>2. PICK y : Occurs(y, sendQueue[j]) /\ Gift(k, y) /\ y.instance = i
      BY <3>1
    <3>3. CASE Occurs(y, sendQueue'[j])
      <4>1. \E z : Occurs(z, sendQueue'[j]) /\ Gift(k, z) /\ z.instance = i
        BY <3>2, <3>3
      <4> QED BY <4>1 DEF Spread, Gift
    <3>4. CASE y = y0
      <4>1. k = r
        BY <1>6, <2>1, <3>2, <3>4
      <4>2. i \in Range(data'[k])
        BY <1>17, <3>2, <3>4, <4>1
      <4> QED BY <4>2 DEF Spread
    <3> QED BY <1>11, <3>2, <3>3, <3>4
  <2>4. CASE \E p \in Started : \E F \in SUBSET Started :
               k \in F /\ Ahead(F, p, i) /\ \E y : Occurs(y, sendQueue[p]) /\ News(i, y)
    <3>1. PICK p \in Started, F \in SUBSET Started :
                 k \in F /\ Ahead(F, p, i) /\ \E y : Occurs(y, sendQueue[p]) /\ News(i, y)
      BY <2>4
    <3>2. PICK y : Occurs(y, sendQueue[p]) /\ News(i, y)
      BY <3>1
    <3>3. CASE Occurs(y, sendQueue'[p])
      <4>1. Ahead(F, p, i)'
        BY <1>2, <3>1 DEF Ahead
      <4>2. \E z : Occurs(z, sendQueue'[p]) /\ News(i, z)
        BY <3>2, <3>3
      <4>3. (\E z : Occurs(z, sendQueue[p]) /\ News(i, z))'
        BY <4>2 DEF News
      <4> QED BY <1>2, <3>1, <4>1, <4>3 DEF Spread
    <3>4. CASE p = m /\ y = y0
      <4>1. y0.sourceNode = i /\ y0.instance = i
        BY <3>2, <3>4 DEF News
      <4>2. CASE k = r
        BY <1>17, <4>1, <4>2 DEF Spread
      <4>3. CASE k # r
        <5>1. i \in Started
          BY <1>18 DEF Runs, Started
        <5>2. rightID[r] # i /\ Ahead(F \ {r}, r, i)
          <6>1. F # {r} /\ Ahead(F, m, i)
            BY <3>1, <3>4, <4>3
          <6>2. /\ rightID[r] = i => F = {r}
                /\ rightID[r] # i => Ahead(F \ {r}, r, i)
            BY <1>1, <1>5, <1>a, <3>1, <5>1, <6>1, AheadShrinks
          <6> QED BY <6>1, <6>2
        <5>3. r # i
          BY <1>a, <3>1, <3>4 DEF Ahead
        <5>4. Occurs(y0, msgs)
          BY <1>1, <1>7, <1>10, <1>18, <4>1, <5>2, <5>3, NotDropped
        <5>5. \E z : Occurs(z, sendQueue'[r]) /\ News(i, z)
          BY <1>1, <1>11, <3>2, <3>4, <5>4
        <5>6. (\E z : Occurs(z, sendQueue[r]) /\ News(i, z))'
          BY <5>5 DEF News
        <5>7. Ahead(F \ {r}, r, i)'
          BY <1>2, <5>2 DEF Ahead
        <5>8. k \in F \ {r} /\ F \ {r} \in SUBSET Started' /\ r \in Started'
          BY <1>1, <1>2, <3>1, <4>3
        <5> QED BY <5>6, <5>7, <5>8 DEF Spread
      <4> QED BY <4>2, <4>3
    <3> QED BY <1>1, <1>11, <3>2, <3>3, <3>4
  <2> QED BY <2>1, <2>2, <2>3, <2>4 DEF Spread
<1>19. InstancesSpread'
  BY <1>2, <1>13, <1>18 DEF InstancesSpread
<1> QED BY <1>12, <1>15, <1>19 DEF InstInv

LEMMA TabledStep == TypeOK /\ Tabled /\ [Next]_vars => Tabled'
<1> SUFFICES ASSUME TypeOK, Tabled, [Next]_vars, NEW k \in Node
             PROVE  data'[k] = [id \in DOMAIN data'[k] |-> data'[k][id]]
  BY DEF Tabled
<1>1. \A copies, id, i : LET new == inserted(copies, id, i) IN new = [j \in DOMAIN new |-> new[j]]
  BY DEF inserted
<1>2. data'[k] = data[k] \/ \E id, i : data'[k] = inserted(data[k], id, i)
  <2>0. DOMAIN data = Node
    BY DEF TypeOK
  <2>1. CASE UNCHANGED data
    BY <2>1
  <2>2. CASE \E n \in Node : NewData(n)
    BY <2>0, <2>2 DEF NewData
  <2>3. CASE \E m \in Node : ReceiveInstanceAnnouncement(m)
    <3>1. PICK m \in Node : data' = [data EXCEPT ![rightID[m]] = inserted(@, msg(m).computationID, msg(m).instance)]
      BY <2>3 DEF ReceiveInstanceAnnouncement
    <3> QED BY <2>0, <3>1
  <2>4. UNCHANGED data \/ (\E n \in Node : NewData(n)) \/ (\E m \in Node : ReceiveInstanceAnnouncement(m))
    <3>1. CASE UNCHANGED vars
      BY <3>1 DEF vars
    <3>2. CASE Next
      <4>1. PICK n \in Node :
              createSingleNodeNetwork(n) \/ (\E r \in Node : Connect(n, r)) \/ MainStep(n) \/ Deliver(n)
        BY <3>2 DEF Next
      <4>2. createSingleNodeNetwork(n) \/ (\E r \in Node : Connect(n, r)) => UNCHANGED data
        BY DEF createSingleNodeNetwork, Connect
      <4>3. MainStep(n) => UNCHANGED data \/ NewData(n)
        BY DEF MainStep, BuildNetAndRequestData, InitSingle, InitSleep, SearchFreeID, SleepFreeID, WakeFreeID, TakeAnyID
      <4>4. Deliver(n) => UNCHANGED data \/ ReceiveInstanceAnnouncement(n)
        BY DEF Deliver, ReceiveNodeAnnouncement, ReceiveFreeID, ReceiveSearch
      <4> QED BY <4>1, <4>2, <4>3, <4>4
    <3> QED BY <3>1, <3>2
  <2> QED BY <2>1, <2>2, <2>3, <2>4
<1> QED BY <1>1, <1>2 DEF Tabled

LEMMA InstInvInit == Init => InstInv
<1> SUFFICES ASSUME Init PROVE InstInv
  OBVIOUS
<1>1. JoinInv /\ IDInv
  BY JoinInvInit, IDInvInit
<1>2. \A k \in Node : data[k] = NoData /\ sendQueue[k] = <<>> /\ pc[k] = "off"
  BY DEF Init
<1>3. \A k \in Node : DOMAIN data[k] = {} /\ \A y : ~Occurs(y, sendQueue[k])
  BY <1>2, OccursOnce DEF NoData
<1>4. DataTrue /\ Tabled
  BY <1>2, <1>3 DEF DataTrue, Tabled, NoData
<1>5. GiftsFollowed
  BY <1>3, FollowedNone DEF GiftsFollowed
<1>6. InstancesSpread
  BY <1>2 DEF InstancesSpread, Runs
<1> QED BY <1>1, <1>4, <1>5, <1>6 DEF InstInv

LEMMA InstInvStep ==
  Calm /\ ~Rivals /\ Prompt /\ EnoughIDs /\ InstInv /\ [Next]_vars => InstInv'
<1> SUFFICES ASSUME Calm, ~Rivals, Prompt, EnoughIDs, InstInv, [Next]_vars
             PROVE  InstInv'
  OBVIOUS
<1>1. JoinInv' /\ IDInv' /\ Tabled'
  BY JoinInvStep, IDInvStep, TabledStep DEF InstInv, IDInv, TypeInv
<1>2. CASE UNCHANGED vars
  <2>1. UNCHANGED <<pc, rightID, leftID, sendQueue, data, computationID>>
    BY <1>2 DEF vars, netVars
  <2>2. WorkersStay /\ InstancesStay /\ GiftsFollowed' /\ Started' = Started
    BY <2>1 DEF WorkersStay, Runs, InstancesStay, InstInv, GiftsFollowed, Followed, Gift, Res, Started
  <2> QED BY <1>1, <2>1, <2>2, InstancesKept
<1>3. CASE Next
  <2>1. PICK n \in Node :
          createSingleNodeNetwork(n) \/ (\E r \in Node : Connect(n, r)) \/ MainStep(n) \/ Deliver(n)
    BY <1>3 DEF Next
  <2>2. CASE createSingleNodeNetwork(n)
    BY <1>1, <2>2, CreateInst
  <2>3. CASE \E r \in Node : Connect(n, r)
    BY <1>1, <2>3, ConnectInst
  <2>4. CASE MainStep(n)
    BY <1>1, <2>4, BuildInst, NewDataInst, MainInst
  <2>5. CASE Deliver(n)
    BY <1>1, <2>5, DeliverInst, AnnounceInst DEF Deliver
  <2> QED BY <2>1, <2>2, <2>3, <2>4, <2>5
<1> QED BY <1>2, <1>3

\* Of what no node is told any more, all have been told.
LEMMA InstInvQuiet == InstInv => QuietInstancesAgree
<1> SUFFICES ASSUME InstInv, Quiet, NEW m \in Started, NEW n \in Started
             PROVE  data[m] = data[n]
  BY DEF QuietInstancesAgree
<1>1. \A k \in Node : \A y : ~Occurs(y, sendQueue[k])
  BY OccursOnce DEF Quiet
<1>2. WithFile \subseteq Node /\ Started \subseteq Node
  BY MembershipAssumption DEF Started
<1>3. \A i : \A k \in Started : Runs(i) => i \in Range(data[k])
  BY <1>1, <1>2 DEF InstInv, InstancesSpread, Spread, Runs
<1>4. ASSUME NEW p \in Started, NEW q \in Started, NEW id \in DOMAIN data[p]
      PROVE  id \in DOMAIN data[q] /\ data[q][id] = data[p][id]
  <2>1. TrueEntry(id, data[p][id])
    BY <1>2 DEF InstInv, DataTrue
  <2>2. PICK j \in DOMAIN data[q] : data[q][j] = data[p][id]
    BY <1>3, <2>1 DEF TrueEntry, Range
  <2>3. TrueEntry(j, data[p][id])
    BY <1>2, <2>2 DEF InstInv, DataTrue
  <2> QED BY <2>1, <2>2, <2>3 DEF TrueEntry
<1>5. DOMAIN data[m] = DOMAIN data[n] /\ \A id \in DOMAIN data[m] : data[m][id] = data[n][id]
  BY <1>4
<1>6. data[m] = [id \in DOMAIN data[m] |-> data[m][id]] /\ data[n] = [id \in DOMAIN data[n] |-> data[n][id]]
  <2>1. m \in Node /\ n \in Node
    BY <1>2
  <2> QED BY <2>1 DEF InstInv, Tabled
<1> QED BY <1>5, <1>6

\* As soon as no message and no start() is under way, all that have joined have
\* the same instances, where nodes join a ring that rests there and no two
\* searches for a free ID overlap.
THEOREM QuietInstancesAgreeAlways ==
  Calm /\ EnoughIDs /\ ~Rivals /\ Prompt => (Spec => []QuietInstancesAgree)
<1> SUFFICES ASSUME Calm /\ EnoughIDs /\ ~Rivals /\ Prompt
             PROVE  Spec => []QuietInstancesAgree
  OBVIOUS
<1>1. Init => InstInv
  BY InstInvInit
<1>2. InstInv /\ [Next]_vars => InstInv'
  BY InstInvStep
<1>3. InstInv => QuietInstancesAgree
  BY InstInvQuiet
<1> QED BY <1>1, <1>2, <1>3, PTL DEF Spec
=============================================================================
