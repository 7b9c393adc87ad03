------------------------ MODULE WorkSharingUnitsProofs ------------------------
(***************************************************************************)
(* What becomes of the branches, for every ring, search space and          *)
(* schedule: none is lost or duplicated (UnitsAccounted), a node that ends *)
(* unbidden has none and expects none (EndsEmptyHanded), and the protocol  *)
(* implements SharedSearch.                                                *)
(*                                                                         *)
(* Like requests in WorkSharingProofs, branches are followed from place to *)
(* place: the stacks of a node, a position of a queue, a handler, or the   *)
(* past.  That setWork replaces no branch rests on the invariant proved    *)
(* there: what a node receives answers its only request, and it has asked  *)
(* because its stacks are empty.                                           *)
(***************************************************************************)
EXTENDS WorkSharingProofs

Place == {"stack", "sendQueue", "handler", "explored"}

\* Place <<kind, m, i>> answers for branch u when the stacks are w, the explored
\* branches x, the queues q and the handlers h.
Has(w, x, q, h, kind, m, i, u) ==
  \/ kind = "stack" /\ i = 1 /\ u \in w[m]
  \/ kind = "sendQueue" /\ i \in DOMAIN q[m] /\ IsAssignment(q[m][i]) /\ u \in q[m][i].unit
  \/ kind = "handler" /\ i = 1 /\ h[m].op = "forward" /\ IsAssignment(h[m].msg) /\ u \in h[m].msg.unit
  \/ kind = "explored" /\ m = Initiator /\ i = 1 /\ u \in x

HasNow(kind, m, i, u) == Has(work, explored, sendQueue, handler, kind, m, i, u)
HasNext(kind, m, i, u) == Has(work', explored', sendQueue', handler', kind, m, i, u)

OneHolder(w, x, q, h) ==
  \A u \in Units, k1, k2 \in Place, m1, m2 \in Node, i1, i2 \in Pos :
    Has(w, x, q, h, k1, m1, i1, u) /\ Has(w, x, q, h, k2, m2, i2, u)
      => k1 = k2 /\ m1 = m2 /\ i1 = i2

NoneLost(w, x, q, h) ==
  \A u \in Units : \E kind \in Place, m \in Node, i \in Pos : Has(w, x, q, h, kind, m, i, u)

NobodyLeft == \A n \in Node : pc[n] # "left"

\* UnitsAccounted speaks of tuples; OneHolder and NoneLost of their components.
LEMMA HolderIs ==
  ASSUME TypeOK, NEW u, NEW p \in Holders(u)
  PROVE  \E kind \in Place, m \in Node, i \in Pos : p = <<kind, m, i>> /\ HasNow(kind, m, i, u)
<1>1. CASE p \in {<<"stack", n, 1>> : n \in {k \in Node : u \in work[k]}}
  BY <1>1 DEF Place, Pos, HasNow, Has
<1>2. CASE p \in UNION {{<<"sendQueue", m, i>> :
              i \in {j \in DOMAIN sendQueue[m] :
                IsAssignment(sendQueue[m][j]) /\ u \in sendQueue[m][j].unit}} : m \in Node}
  <2>1. PICK m \in Node :
          p \in {<<"sendQueue", m, i>> :
                   i \in {j \in DOMAIN sendQueue[m] :
                     IsAssignment(sendQueue[m][j]) /\ u \in sendQueue[m][j].unit}}
    BY <1>2
  <2>2. PICK i \in DOMAIN sendQueue[m] :
          p = <<"sendQueue", m, i>> /\ IsAssignment(sendQueue[m][i]) /\ u \in sendQueue[m][i].unit
    BY <2>1
  <2>3. "sendQueue" \in Place /\ i \in Pos
    BY DEF Place, Pos, TypeOK
  <2> QED BY <2>2, <2>3 DEF HasNow, Has
<1>3. CASE p \in {<<"handler", m, 1>> :
              m \in {k \in Node : /\ handler[k].op = "forward"
                                  /\ IsAssignment(handler[k].msg)
                                  /\ u \in handler[k].msg.unit}}
  BY <1>3 DEF Place, Pos, HasNow, Has
<1>4. CASE p \in {<<"explored", n, 1>> : n \in {k \in {Initiator} : u \in explored}}
  BY <1>4, NodeAssumption DEF Place, Pos, HasNow, Has
<1> QED BY <1>1, <1>2, <1>3, <1>4 DEF Holders

LEMMA HolderExists ==
  ASSUME NEW u, NEW kind, NEW m \in Node, NEW i, HasNow(kind, m, i, u)
  PROVE  Holders(u) # {}
<1>1. CASE u \in work[m]
  <2>1. <<"stack", m, 1>> \in Holders(u)
    BY <1>1 DEF Holders
  <2> QED BY <2>1
<1>2. CASE i \in DOMAIN sendQueue[m] /\ IsAssignment(sendQueue[m][i]) /\ u \in sendQueue[m][i].unit
  <2>1. <<"sendQueue", m, i>> \in
          {<<"sendQueue", m, j>> :
             j \in {l \in DOMAIN sendQueue[m] :
               IsAssignment(sendQueue[m][l]) /\ u \in sendQueue[m][l].unit}}
    BY <1>2
  <2>2. <<"sendQueue", m, i>> \in
          UNION {{<<"sendQueue", k, j>> :
             j \in {l \in DOMAIN sendQueue[k] :
               IsAssignment(sendQueue[k][l]) /\ u \in sendQueue[k][l].unit}} : k \in Node}
    BY <2>1
  <2>3. <<"sendQueue", m, i>> \in Holders(u)
    BY <2>2 DEF Holders
  <2> QED BY <2>3
<1>3. CASE handler[m].op = "forward" /\ IsAssignment(handler[m].msg) /\ u \in handler[m].msg.unit
  <2>1. <<"handler", m, 1>> \in Holders(u)
    BY <1>3 DEF Holders
  <2> QED BY <2>1
<1>4. CASE u \in explored
  <2>1. <<"explored", Initiator, 1>> \in Holders(u)
    BY <1>4 DEF Holders
  <2> QED BY <2>1
<1> QED BY <1>1, <1>2, <1>3, <1>4 DEF HasNow, Has

LEMMA UnitsAccountedIs ==
  ASSUME TypeOK, OneHolder(work, explored, sendQueue, handler),
         NobodyLeft => NoneLost(work, explored, sendQueue, handler)
  PROVE  UnitsAccounted
<1>1. ASSUME NEW u \in Units, NEW p \in Holders(u), NEW q \in Holders(u)
      PROVE  p = q
  <2>1. PICK k1 \in Place, m1 \in Node, i1 \in Pos : p = <<k1, m1, i1>> /\ HasNow(k1, m1, i1, u)
    BY <1>1, HolderIs
  <2>2. PICK k2 \in Place, m2 \in Node, i2 \in Pos : q = <<k2, m2, i2>> /\ HasNow(k2, m2, i2, u)
    BY <1>1, HolderIs
  <2>3. k1 = k2 /\ m1 = m2 /\ i1 = i2
    BY <2>1, <2>2 DEF OneHolder, HasNow
  <2> QED BY <2>1, <2>2, <2>3
<1>2. ASSUME NobodyLeft, NEW u \in Units
      PROVE  Holders(u) # {}
  <2>1. PICK kind \in Place, m \in Node, i \in Pos : HasNow(kind, m, i, u)
    BY <1>2 DEF NoneLost, HasNow
  <2> QED BY <2>1, HolderExists
<1> QED BY <1>1, <1>2 DEF UnitsAccounted, NobodyLeft

-----------------------------------------------------------------------------
(***************************************************************************)
(* How the places of a branch change                                       *)
(***************************************************************************)
\* Branch u, at place <<kind, m, i>> of the next state, was there before, but for
\* the first of channel <<k1, m1>>, which is now at position pos of <<k2, m2>>, or
\* nowhere when k2 is no place.  Nothing moves when k1 is no place either.
Moves(u, k1, m1, k2, m2, pos) ==
  \A kind \in Place, m \in Node, i \in Pos :
    HasNext(kind, m, i, u)
      => IF kind = k2 /\ m = m2 /\ i = pos
         THEN HasNow(k1, m1, 1, u)
         ELSE IF kind = k1 /\ m = m1 THEN HasNow(k1, m1, i + 1, u)
                                     ELSE HasNow(kind, m, i, u)

OneNow(u) ==
  \A k1, k2 \in Place, m1, m2 \in Node, i1, i2 \in Pos :
    HasNow(k1, m1, i1, u) /\ HasNow(k2, m2, i2, u) => k1 = k2 /\ m1 = m2 /\ i1 = i2

OneNext(u) ==
  \A k1, k2 \in Place, m1, m2 \in Node, i1, i2 \in Pos :
    HasNext(k1, m1, i1, u) /\ HasNext(k2, m2, i2, u) => k1 = k2 /\ m1 = m2 /\ i1 = i2

AliveNow(u) == \E kind \in Place, m \in Node, i \in Pos : HasNow(kind, m, i, u)
AliveNext(u) == \E kind \in Place, m \in Node, i \in Pos : HasNext(kind, m, i, u)

LEMMA MovesOne ==
  ASSUME NEW u, OneNow(u), NEW k1, NEW m1 \in Node, NEW k2, NEW m2, NEW pos,
         k2 \in Place => k1 \in Place /\ (k1 # k2 \/ m1 # m2),
         Moves(u, k1, m1, k2, m2, pos)
  PROVE  OneNext(u)
<1> DEFINE Before(kind, m, i, ok, om, oi) ==
      /\ ok \in Place /\ om \in Node /\ oi \in Pos
      /\ HasNow(ok, om, oi, u)
      /\ \/ kind = k2 /\ m = m2 /\ i = pos /\ ok = k1 /\ om = m1 /\ oi = 1
         \/ kind = k1 /\ m = m1 /\ ok = k1 /\ om = m1 /\ oi = i + 1
            /\ ~(kind = k2 /\ m = m2 /\ i = pos)
         \/ ~(kind = k2 /\ m = m2 /\ i = pos) /\ ~(kind = k1 /\ m = m1)
            /\ ok = kind /\ om = m /\ oi = i
<1> SUFFICES ASSUME NEW ka \in Place, NEW kb \in Place, NEW ma \in Node, NEW mb \in Node,
                    NEW ia \in Pos, NEW ib \in Pos,
                    HasNext(ka, ma, ia, u), HasNext(kb, mb, ib, u)
             PROVE  ka = kb /\ ma = mb /\ ia = ib
  BY DEF OneNext
<1>1. 1 \in Pos /\ ia + 1 \in Pos /\ ib + 1 \in Pos
  BY DEF Pos
<1>2. \E ok, om, oi : Before(ka, ma, ia, ok, om, oi)
  BY <1>1 DEF Moves
<1>3. \E ok, om, oi : Before(kb, mb, ib, ok, om, oi)
  BY <1>1 DEF Moves
<1>4. PICK ok, om, oi : Before(ka, ma, ia, ok, om, oi)
  BY <1>2
<1>5. PICK pk, pm, pi : Before(kb, mb, ib, pk, pm, pi)
  BY <1>3
<1>6. ok = pk /\ om = pm /\ oi = pi
  BY <1>4, <1>5 DEF OneNow
<1> QED BY <1>4, <1>5, <1>6 DEF Pos

\* Where nothing changes for u, it keeps its holder.
LEMMA SameHolder ==
  ASSUME NEW u, OneNow(u),
         \A kind \in Place, m \in Node, i \in Pos : HasNext(kind, m, i, u) <=> HasNow(kind, m, i, u)
  PROVE  OneNext(u) /\ (AliveNow(u) => AliveNext(u))
BY DEF OneNow, OneNext, AliveNow, AliveNext

-----------------------------------------------------------------------------
(***************************************************************************)
(* What each step does to the places                                       *)
(***************************************************************************)
LEMMA AppendKeeps ==
  ASSUME NEW S, NEW s \in Seq(S), NEW x \in S
  PROVE  /\ \A i \in DOMAIN s : i \in DOMAIN Append(s, x) /\ Append(s, x)[i] = s[i]
         /\ Len(s) + 1 \in DOMAIN Append(s, x) /\ Append(s, x)[Len(s) + 1] = x
OBVIOUS

LEMMA AppendTwoKeeps ==
  ASSUME NEW S, NEW s \in Seq(S), NEW a \in S, NEW b \in S
  PROVE  /\ \A i \in DOMAIN s : i \in DOMAIN (s \o <<a, b>>) /\ (s \o <<a, b>>)[i] = s[i]
         /\ Len(s) + 1 \in DOMAIN (s \o <<a, b>>) /\ (s \o <<a, b>>)[Len(s) + 1] = a
<1>1. <<a, b>> \in Seq(S) /\ Len(<<a, b>>) = 2 /\ <<a, b>>[1] = a
  OBVIOUS
<1>2. PICK t \in Seq(S) : t = <<a, b>> /\ Len(t) = 2 /\ t[1] = a
  BY <1>1
<1>3. /\ DOMAIN (s \o t) = 1 .. Len(s) + 2 /\ Len(s) \in Nat /\ DOMAIN s = 1 .. Len(s)
      /\ \A j \in 1 .. Len(s) + 2 : (s \o t)[j] = IF j <= Len(s) THEN s[j] ELSE t[j - Len(s)]
  BY <1>2
<1> QED BY <1>2, <1>3

LEMMA TailKeeps ==
  ASSUME NEW S, NEW s \in Seq(S), NEW i \in DOMAIN s, i # 1
  PROVE  i - 1 \in DOMAIN Tail(s) /\ Tail(s)[i - 1] = s[i] /\ i - 1 \in Pos
BY DEF Pos

\* Steps of the main thread that move no branch.
LEMMA QuietUnits ==
  ASSUME TypeOK, TokenOrigins, NEW n \in Node,
         Start(n) \/ MainStep(n) \/ SpuriousWakeup(n), ~AssignWork(n), ~Explore(n),
         NEW u, OneNow(u)
  PROVE  OneNext(u) /\ (AliveNow(u) => AliveNext(u))
<1>1. UNCHANGED <<work, explored, handler>>
  BY DEF MainStep, Start, SpuriousWakeup, EnterSynchronize, DeclineRequest, LeaveSynchronize,
         StopWorking, RequestWork, WakeWithWork, ResumeWorking, PassSavedToken, BecomeLeader,
         LeaderCommanded, GatherResult, RetryToken, StepDown, CommandTermination, ReturnFalse,
         Leave, netVars, searchVars
<1>2. ASSUME NEW m \in Node, NEW i
      PROVE  (i \in DOMAIN sendQueue'[m] /\ IsAssignment(sendQueue'[m][i]) /\ u \in sendQueue'[m][i].unit)
               <=> (i \in DOMAIN sendQueue[m] /\ IsAssignment(sendQueue[m][i]) /\ u \in sendQueue[m][i].unit)
  <2>1. CASE sendQueue'[m] = sendQueue[m]
    BY <2>1
  <2>2. CASE sendQueue'[m] # sendQueue[m]
    <3>1. PICK msg \in Message : msg.type # "WORK_ASSIGNMET" /\ Send(n, msg)
      BY <2>2, MainStepSends
    <3>2. sendQueue[m] \in Seq(Message) /\ sendQueue'[m] = Append(sendQueue[m], msg)
      BY <2>2, <3>1 DEF Send, TypeOK
    <3>3. ~IsAssignment(msg)
      BY <3>1 DEF IsAssignment
    <3> QED BY <3>2, <3>3, AppendKeeps, AppendPosition
  <2> QED BY <2>1, <2>2
<1>3. ASSUME NEW kind \in Place, NEW m \in Node, NEW i \in Pos
      PROVE  HasNext(kind, m, i, u) <=> HasNow(kind, m, i, u)
  BY <1>1, <1>2 DEF HasNow, HasNext, Has
<1> QED BY <1>3, SameHolder

\* A branch is explored where it was on the stacks.
LEMMA ExploreUnits ==
  ASSUME TypeOK, NEW n \in Node, Explore(n), NEW u, OneNow(u)
  PROVE  OneNext(u) /\ (AliveNow(u) => AliveNext(u))
<1>1. PICK v \in work[n] :
        /\ work' = [work EXCEPT ![n] = @ \ {v}]
        /\ explored' = explored \cup {v}
        /\ UNCHANGED <<sendQueue, handler>>
  BY DEF Explore, netVars
<1>t. /\ work'[n] = work[n] \ {v}
      /\ \A m \in Node \ {n} : work'[m] = work[m]
  BY <1>1 DEF TypeOK
<1>2. CASE u = v
  <2>1. Moves(u, "stack", n, "explored", Initiator, 1)
    <3> SUFFICES ASSUME NEW kind \in Place, NEW m \in Node, NEW i \in Pos, HasNext(kind, m, i, u)
                 PROVE  IF kind = "explored" /\ m = Initiator /\ i = 1
                        THEN HasNow("stack", n, 1, u)
                        ELSE IF kind = "stack" /\ m = n THEN HasNow("stack", n, i + 1, u)
                                                        ELSE HasNow(kind, m, i, u)
      BY DEF Moves
    <3>1. HasNow("stack", n, 1, u)
      BY <1>2 DEF HasNow, Has
    <3>2. CASE kind = "stack"
      BY <1>2, <1>t, <3>2 DEF HasNow, HasNext, Has
    <3>3. CASE kind = "explored"
      BY <3>1, <3>3 DEF HasNext, Has
    <3>4. CASE kind \in {"sendQueue", "handler"}
      BY <1>1, <3>4 DEF HasNow, HasNext, Has
    <3> QED BY <3>2, <3>3, <3>4 DEF Place
  <2>2. OneNext(u)
    BY <2>1, MovesOne DEF Place
  <2>3. HasNext("explored", Initiator, 1, u)
    BY <1>1, <1>2 DEF HasNext, Has
  <2> QED BY <2>2, <2>3, NodeAssumption DEF AliveNext, Place, Pos
<1>3. CASE u # v
  <2>1. ASSUME NEW kind \in Place, NEW m \in Node, NEW i \in Pos
        PROVE  HasNext(kind, m, i, u) <=> HasNow(kind, m, i, u)
    BY <1>1, <1>3, <1>t DEF HasNow, HasNext, Has
  <2> QED BY <2>1, SameHolder
<1> QED BY <1>2, <1>3

\* A branch that is given away goes to the assignment, the others stay.
LEMMA AssignUnits ==
  ASSUME TypeOK, NEW n \in Node, AssignWork(n), NEW u, OneNow(u)
  PROVE  OneNext(u) /\ (AliveNow(u) => AliveNext(u))
<1>1. PICK given \in Splits(work[n]) :
        /\ work' = [work EXCEPT ![n] = Kept(@, given)]
        /\ sendQueue' = [sendQueue EXCEPT
              ![n] = @ \o <<AssignmentTo(Head(workRequests[n]), given),
                            KeptAnnouncement(n, Kept(work[n], given))>>]
  BY DEF AssignWork
<1> DEFINE a == AssignmentTo(Head(workRequests[n]), given)
           b == KeptAnnouncement(n, Kept(work[n], given))
           last == Len(sendQueue[n]) + 1
<1>2. a \in Message /\ b \in Message /\ IsAssignment(a) /\ a.unit = given /\ ~IsAssignment(b)
  <2>1. Head(workRequests[n]) \in Node /\ given \in SUBSET Units
    BY DEF AssignWork, Splits, TypeOK
  <2>2. Kept(work[n], given) \in SUBSET Units
    BY DEF Kept, TypeOK
  <2>3. a \in Message /\ b \in Message
    BY <2>1, <2>2, AssignmentType
  <2>4. IsAssignment(a) /\ a.unit = given /\ ~IsAssignment(b)
    BY LeftOf DEF AssignmentTo, KeptAnnouncement, IsAssignment
  <2> QED BY <2>3, <2>4
<1>3. /\ work'[n] = work[n] \ given /\ given \subseteq work[n]
      /\ \A m \in Node \ {n} : work'[m] = work[m]
      /\ UNCHANGED <<explored, handler>>
  BY <1>1 DEF AssignWork, Kept, Splits, TypeOK
<1>4. sendQueue' = [sendQueue EXCEPT ![n] = @ \o <<a, b>>]
  BY <1>1
<1> HIDE DEF a, b
<1>5. /\ sendQueue[n] \in Seq(Message) /\ sendQueue'[n] = sendQueue[n] \o <<a, b>>
      /\ \A m \in Node \ {n} : sendQueue'[m] = sendQueue[m]
  BY <1>4 DEF TypeOK
<1>6. /\ \A i \in DOMAIN sendQueue[n] : i \in DOMAIN sendQueue'[n] /\ sendQueue'[n][i] = sendQueue[n][i]
      /\ last \in DOMAIN sendQueue'[n] /\ sendQueue'[n][last] = a
      /\ last \in Pos /\ last \notin DOMAIN sendQueue[n]
  BY <1>2, <1>5, AppendTwoKeeps DEF Pos
<1>7. ASSUME NEW i \in DOMAIN sendQueue'[n], IsAssignment(sendQueue'[n][i])
      PROVE  \/ i \in DOMAIN sendQueue[n] /\ sendQueue'[n][i] = sendQueue[n][i]
             \/ i = last /\ sendQueue'[n][i] = a
  BY <1>2, <1>5, <1>7, AppendTwoPosition
<1> HIDE DEF last
<1>8. CASE u \in given
  <2>1. Moves(u, "stack", n, "sendQueue", n, last)
    <3> SUFFICES ASSUME NEW kind \in Place, NEW m \in Node, NEW i \in Pos, HasNext(kind, m, i, u)
                 PROVE  IF kind = "sendQueue" /\ m = n /\ i = last
                        THEN HasNow("stack", n, 1, u)
                        ELSE IF kind = "stack" /\ m = n THEN HasNow("stack", n, i + 1, u)
                                                        ELSE HasNow(kind, m, i, u)
      BY DEF Moves
    <3>1. HasNow("stack", n, 1, u)
      BY <1>3, <1>8 DEF HasNow, Has
    <3>2. CASE kind \in {"stack", "handler", "explored"}
      BY <1>3, <1>8, <3>2 DEF HasNow, HasNext, Has
    <3>3. CASE kind = "sendQueue" /\ m # n
      BY <1>5, <3>3 DEF HasNow, HasNext, Has
    <3>4. CASE kind = "sendQueue" /\ m = n
      BY <1>7, <3>1, <3>4 DEF HasNow, HasNext, Has
    <3> QED BY <3>2, <3>3, <3>4 DEF Place
  <2>2. OneNext(u)
    BY <2>1, MovesOne DEF Place
  <2>3. HasNext("sendQueue", n, last, u)
    BY <1>2, <1>6, <1>8 DEF HasNext, Has
  <2> QED BY <1>6, <2>2, <2>3 DEF AliveNext, Place
<1>9. CASE u \notin given
  <2>1. ASSUME NEW kind \in Place, NEW m \in Node, NEW i \in Pos
        PROVE  HasNext(kind, m, i, u) <=> HasNow(kind, m, i, u)
    <3>1. CASE kind \in {"stack", "handler", "explored"}
      BY <1>3, <1>9, <3>1 DEF HasNow, HasNext, Has
    <3>2. CASE kind = "sendQueue" /\ m # n
      BY <1>5, <3>2 DEF HasNow, HasNext, Has
    <3>3. CASE kind = "sendQueue" /\ m = n
      BY <1>2, <1>6, <1>7, <1>9, <3>3 DEF HasNow, HasNext, Has
    <3> QED BY <3>1, <3>2, <3>3 DEF Place
  <2> QED BY <2>1, SameHolder
<1> QED BY <1>8, <1>9

\* The handler that sends a message on.
LEMMA FinishUnits ==
  ASSUME TypeOK, NEW n \in Node, FinishHandler(n), NEW u, OneNow(u)
  PROVE  OneNext(u) /\ (AliveNow(u) => AliveNext(u))
<1>1. /\ UNCHANGED <<work, explored>>
      /\ handler'[n].op = "none"
      /\ \A m \in Node \ {n} : handler'[m] = handler[m]
  BY DEF FinishHandler, AcceptRequest, Forward, searchVars, TypeOK
<1>2. CASE AcceptRequest(n)
  <2>1. UNCHANGED sendQueue /\ handler[n].op # "forward"
    BY <1>2 DEF AcceptRequest
  <2>2. ASSUME NEW kind \in Place, NEW m \in Node, NEW i \in Pos
        PROVE  HasNext(kind, m, i, u) <=> HasNow(kind, m, i, u)
    BY <1>1, <2>1 DEF HasNow, HasNext, Has
  <2> QED BY <2>2, SameHolder
<1>3. CASE Forward(n)
  <2> DEFINE msg == handler[n].msg
             last == Len(sendQueue[n]) + 1
  <2>1. /\ handler[n].op = "forward" /\ msg \in Message
        /\ sendQueue[n] \in Seq(Message) /\ sendQueue'[n] = Append(sendQueue[n], msg)
        /\ \A m \in Node \ {n} : sendQueue'[m] = sendQueue[m]
    BY <1>3 DEF Forward, Send, TypeOK, HandlerState
  <2>2. /\ \A i \in DOMAIN sendQueue[n] : i \in DOMAIN sendQueue'[n] /\ sendQueue'[n][i] = sendQueue[n][i]
        /\ last \in DOMAIN sendQueue'[n] /\ sendQueue'[n][last] = msg
        /\ last \in Pos
    BY <2>1, AppendKeeps DEF Pos
  <2>3. ASSUME NEW i \in DOMAIN sendQueue'[n]
        PROVE  \/ i \in DOMAIN sendQueue[n] /\ sendQueue'[n][i] = sendQueue[n][i]
               \/ i = last /\ sendQueue'[n][i] = msg
    BY <2>1, AppendPosition
  <2> HIDE DEF msg, last
  <2>4. Moves(u, "handler", n, "sendQueue", n, last)
    <3> SUFFICES ASSUME NEW kind \in Place, NEW m \in Node, NEW i \in Pos, HasNext(kind, m, i, u)
                 PROVE  IF kind = "sendQueue" /\ m = n /\ i = last
                        THEN HasNow("handler", n, 1, u)
                        ELSE IF kind = "handler" /\ m = n THEN HasNow("handler", n, i + 1, u)
                                                          ELSE HasNow(kind, m, i, u)
      BY DEF Moves
    <3>1. CASE kind \in {"stack", "explored"}
      BY <1>1, <3>1 DEF HasNow, HasNext, Has
    <3>2. CASE kind = "handler"
      BY <1>1, <3>2 DEF HasNow, HasNext, Has
    <3>3. CASE kind = "sendQueue" /\ m # n
      BY <2>1, <3>3 DEF HasNow, HasNext, Has
    <3>4. CASE kind = "sendQueue" /\ m = n /\ i # last
      BY <2>3, <3>4 DEF HasNow, HasNext, Has
    <3>5. CASE kind = "sendQueue" /\ m = n /\ i = last
      BY <2>1, <2>2, <3>5 DEF msg, HasNow, HasNext, Has
    <3> QED BY <3>1, <3>2, <3>3, <3>4, <3>5 DEF Place
  <2>5. OneNext(u)
    BY <2>4, MovesOne DEF Place
  <2>6. ASSUME NEW kind \in Place, NEW m \in Node, NEW i \in Pos, HasNow(kind, m, i, u)
        PROVE  AliveNext(u)
    <3>1. CASE kind = "handler" /\ m = n
      <4>1. HasNext("sendQueue", n, last, u)
        BY <2>2, <2>6, <3>1 DEF msg, HasNow, HasNext, Has
      <4> QED BY <2>2, <4>1 DEF AliveNext, Place
    <3>2. CASE ~(kind = "handler" /\ m = n)
      <4>1. HasNext(kind, m, i, u)
        <5>1. CASE kind = "sendQueue" /\ m = n
          BY <2>2, <2>6, <5>1 DEF HasNow, HasNext, Has
        <5>2. CASE ~(kind = "sendQueue" /\ m = n)
          BY <1>1, <2>1, <2>6, <3>2, <5>2 DEF HasNow, HasNext, Has
        <5> QED BY <5>1, <5>2
      <4> QED BY <4>1 DEF AliveNext
    <3> QED BY <3>1, <3>2
  <2> QED BY <2>5, <2>6 DEF AliveNow
<1> QED BY <1>2, <1>3 DEF FinishHandler

-----------------------------------------------------------------------------
(***************************************************************************)
(* Deliveries                                                              *)
(***************************************************************************)
\* The queue of m loses its first message; tokens may be added to another.
LEMMA DeliverQueues ==
  ASSUME TypeOK, NEW m \in Node, Deliver(m), NEW u, NEW k \in Node, NEW i \in Pos
  PROVE  /\ HasNext("sendQueue", k, i, u)
              => IF k = m THEN HasNow("sendQueue", m, i + 1, u) ELSE HasNow("sendQueue", k, i, u)
         /\ HasNow("sendQueue", k, i, u) /\ k # m => HasNext("sendQueue", k, i, u)
         /\ HasNow("sendQueue", k, i, u) /\ k = m /\ i # 1
              => i - 1 \in Pos /\ HasNext("sendQueue", m, i - 1, u)
<1>0. sendQueue[m] # <<>>
  BY DeliverIs
<1>1. /\ sendQueue \in [Node -> Seq(Message)] /\ sendQueue[m] # <<>>
      /\ Right[m] \in Node /\ Right[m] # m
  BY <1>0, RingAssumption DEF TypeOK
<1>2. \/ sendQueue' = [sendQueue EXCEPT ![m] = Tail(@)]
      \/ \E msg \in Message :
            /\ msg.type = "TERMINATION_TOKEN"
            /\ sendQueue' = [sendQueue EXCEPT ![m] = Tail(@), ![Right[m]] = Append(@, msg)]
  BY DeliverIs
<1>3. CASE k = m
  <2>1. sendQueue'[m] = Tail(sendQueue[m]) /\ sendQueue[m] \in Seq(Message)
    BY <1>1, <1>2
  <2> QED BY <1>1, <1>3, <2>1, TailPosition, TailKeeps DEF HasNow, HasNext, Has
<1>4. CASE k # m /\ sendQueue'[k] = sendQueue[k]
  BY <1>4 DEF HasNow, HasNext, Has
<1>5. CASE k # m /\ sendQueue'[k] # sendQueue[k]
  <2>1. PICK msg \in Message :
          msg.type = "TERMINATION_TOKEN" /\ sendQueue'[k] = Append(sendQueue[k], msg)
    BY <1>1, <1>2, <1>5
  <2>2. sendQueue[k] \in Seq(Message) /\ ~IsAssignment(msg)
    BY <1>1, <2>1 DEF IsAssignment
  <2>3. ASSUME HasNext("sendQueue", k, i, u)
        PROVE  HasNow("sendQueue", k, i, u)
    BY <2>1, <2>2, <2>3, AppendPosition DEF HasNow, HasNext, Has
  <2>4. ASSUME HasNow("sendQueue", k, i, u)
        PROVE  HasNext("sendQueue", k, i, u)
    BY <2>1, <2>2, <2>4, AppendKeeps DEF HasNow, HasNext, Has
  <2> QED BY <1>5, <2>3, <2>4
<1> QED BY <1>3, <1>4, <1>5

\* A delivered assignment is set, passed on, or dropped by a node that has left.
LEMMA DeliverAssignment ==
  ASSUME RequestInv, NEW m \in Node, Deliver(m), ~ReceiveAssignment(m),
         IsAssignment(Head(sendQueue[m]))
  PROVE  \/ originMe(m) /\ pc[Right[m]] = "left"
         \/ handler' = [handler EXCEPT ![Right[m]] = [op |-> "forward", msg |-> Head(sendQueue[m])]]
<1>1. Head(sendQueue[m]).type = "WORK_ASSIGNMET"
  BY DEF IsAssignment
<1>2. ReceiveOutside(m) \/ ReceiveForeignAssignment(m)
  BY <1>1 DEF Deliver, ReceiveDenial, ReceiveRequest, ReceiveMyToken, KeepForeignToken,
              PassForeignToken, SaveToken, ReceiveTerminalResult, ReceiveTerminate, Locks, Arrives
<1>3. PassOn(m)
  BY <1>2 DEF ReceiveOutside, ReceiveForeignAssignment
<1>4. CASE ~originMe(m)
  BY <1>3, <1>4 DEF PassOn
<1>5. CASE originMe(m)
  <2>1. Head(sendQueue[m]).asignee = Right[m] /\ Head(sendQueue[m]).sourceNode = Right[m]
    BY <1>5 DEF originMe, IsAssignment
  <2>2. ReceiveOutside(m)
    BY <1>2, <2>1 DEF ReceiveForeignAssignment
  <2>3. Right[m] \in Node /\ 1 \in DOMAIN sendQueue[m] /\ Head(sendQueue[m]) = sendQueue[m][1]
    BY <2>2, RingAssumption, HeadPosition DEF ReceiveOutside, Arrives, RequestInv, TypeOK
  <2>4. HoldsNow("sendQueue", m, 1, Right[m])
    BY <1>1, <2>1, <2>3 DEF HoldsNow, Holds, CarriesRequest
  <2>5. pc[Right[m]] \in Blocked \cup {"left"}
    BY <2>3, <2>4 DEF RequestInv, HolderWaits, Waits, Kind, Pos
  <2>6. pc[Right[m]] \in {"out", "left"}
    BY <2>2 DEF ReceiveOutside, InComputation
  <2>7. pc[Right[m]] = "left"
    BY <2>5, <2>6 DEF Blocked
  <2> QED BY <1>5, <2>7
<1> QED BY <1>4, <1>5

\* Deliveries that set no work.
LEMMA DeliverUnits ==
  ASSUME RequestInv, NEW m \in Node, Deliver(m), ~ReceiveAssignment(m), NEW u, OneNow(u)
  PROVE  OneNext(u) /\ (NobodyLeft /\ AliveNow(u) => AliveNext(u))
<1>1. /\ TypeOK /\ Right[m] \in Node /\ sendQueue[m] # <<>>
      /\ sendQueue[m] \in Seq(Message)
      /\ 1 \in DOMAIN sendQueue[m] /\ Head(sendQueue[m]) = sendQueue[m][1]
      /\ handler \in [Node -> HandlerState]
      /\ handler[Right[m]].op = "none"
  BY RingAssumption, DeliverIs, HeadPosition DEF RequestInv, TypeOK
<1>2. UNCHANGED <<work, explored>>
  BY DEF Deliver, ReceiveOutside, ReceiveDenial, ReceiveRequest, ReceiveForeignAssignment,
         ReceiveMyToken, KeepForeignToken, PassForeignToken, ReceiveTerminalResult,
         ReceiveTerminate, searchVars
<1>3. \/ handler' = handler
      \/ \E op \in {"accept", "forward"} :
            handler' = [handler EXCEPT ![Right[m]] = [op |-> op, msg |-> Head(sendQueue[m])]]
  BY <1>1, DeliverIs
<1>4. \A k \in Node \ {Right[m]} : handler'[k] = handler[k]
  BY <1>1, <1>3
<1>5. OneNext(u)
  <2>1. Moves(u, "sendQueue", m, "handler", Right[m], 1)
    <3> SUFFICES ASSUME NEW kind \in Place, NEW k \in Node, NEW i \in Pos, HasNext(kind, k, i, u)
                 PROVE  IF kind = "handler" /\ k = Right[m] /\ i = 1
                        THEN HasNow("sendQueue", m, 1, u)
                        ELSE IF kind = "sendQueue" /\ k = m THEN HasNow("sendQueue", m, i + 1, u)
                                                            ELSE HasNow(kind, k, i, u)
      BY DEF Moves
    <3>1. CASE kind \in {"stack", "explored"}
      BY <1>2, <3>1 DEF HasNow, HasNext, Has
    <3>2. CASE kind = "sendQueue"
      BY <1>1, <3>2, DeliverQueues
    <3>3. CASE kind = "handler" /\ k # Right[m]
      BY <1>4, <3>3 DEF HasNow, HasNext, Has
    <3>4. CASE kind = "handler" /\ k = Right[m]
      <4>1. i = 1 /\ handler'[k].op = "forward" /\ IsAssignment(handler'[k].msg) /\ u \in handler'[k].msg.unit
        BY <3>4 DEF HasNext, Has
      <4>2. handler'[k].msg = sendQueue[m][1]
        BY <1>1, <1>3, <3>4, <4>1
      <4> QED BY <1>1, <3>4, <4>1, <4>2 DEF HasNow, Has
    <3> QED BY <3>1, <3>2, <3>3, <3>4 DEF Place
  <2> QED BY <1>1, <2>1, MovesOne DEF Place
<1>6. ASSUME NobodyLeft, NEW kind \in Place, NEW k \in Node, NEW i \in Pos, HasNow(kind, k, i, u)
      PROVE  AliveNext(u)
  <2>1. CASE kind \in {"stack", "explored"}
    BY <1>2, <1>6, <2>1 DEF HasNow, HasNext, Has, AliveNext
  <2>2. CASE kind = "handler"
    <3>1. k # Right[m]
      BY <1>1, <1>6, <2>2 DEF HasNow, Has
    <3> QED BY <1>4, <1>6, <2>2, <3>1 DEF HasNow, HasNext, Has, AliveNext
  <2>3. CASE kind = "sendQueue" /\ ~(k = m /\ i = 1)
    BY <1>1, <1>6, <2>3, DeliverQueues DEF AliveNext
  <2>4. CASE kind = "sendQueue" /\ k = m /\ i = 1
    <3>1. IsAssignment(Head(sendQueue[m])) /\ u \in Head(sendQueue[m]).unit
      BY <1>1, <1>6, <2>4 DEF HasNow, Has
    <3>2. handler' = [handler EXCEPT ![Right[m]] = [op |-> "forward", msg |-> Head(sendQueue[m])]]
      BY <1>1, <1>6, <3>1, DeliverAssignment DEF NobodyLeft
    <3>3. HasNext("handler", Right[m], 1, u)
      BY <1>1, <3>1, <3>2 DEF HasNext, Has
    <3> QED BY <1>1, <3>3 DEF AliveNext, Place, Pos
  <2> QED BY <2>1, <2>2, <2>3, <2>4 DEF Place
<1> QED BY <1>5, <1>6 DEF AliveNow

\* setWork on empty stacks: the branches of the assignment become theirs.
LEMMA SetWorkUnits ==
  ASSUME RequestInv, NEW m \in Node, ReceiveAssignment(m), work[Right[m]] = {}, NEW u, OneNow(u)
  PROVE  OneNext(u) /\ (AliveNow(u) => AliveNext(u))
<1>0. /\ sendQueue[m] # <<>>
      /\ Head(sendQueue[m]).type = "WORK_ASSIGNMET" /\ Head(sendQueue[m]).asignee = Right[m]
  BY DEF ReceiveAssignment, Locks, Arrives
<1>d. TypeOK /\ Right[m] \in Node /\ sendQueue[m] \in Seq(Message) /\ Deliver(m)
  <2>1. TypeOK /\ Deliver(m)
    BY DEF RequestInv, Deliver
  <2> QED BY <2>1, RingAssumption DEF TypeOK
<1>1. /\ TypeOK /\ Right[m] \in Node /\ Deliver(m)
      /\ 1 \in DOMAIN sendQueue[m] /\ Head(sendQueue[m]) = sendQueue[m][1]
      /\ Head(sendQueue[m]).type = "WORK_ASSIGNMET" /\ Head(sendQueue[m]).asignee = Right[m]
  BY <1>0, <1>d, HeadPosition
<1>2. originMe(m)
  BY AssignmentEnds
<1>3. IsAssignment(Head(sendQueue[m]))
  BY <1>1, <1>2 DEF originMe, IsAssignment
<1>4. /\ UNCHANGED <<explored, handler>>
      /\ work' = [work EXCEPT ![Right[m]] = Head(sendQueue[m]).unit]
      /\ \A k \in Node \ {Right[m]} : work'[k] = work[k]
      /\ work'[Right[m]] = Head(sendQueue[m]).unit
  BY <1>1, <1>2 DEF ReceiveAssignment, PassOn, TypeOK
<1>5. OneNext(u)
  <2>1. Moves(u, "sendQueue", m, "stack", Right[m], 1)
    <3> SUFFICES ASSUME NEW kind \in Place, NEW k \in Node, NEW i \in Pos, HasNext(kind, k, i, u)
                 PROVE  IF kind = "stack" /\ k = Right[m] /\ i = 1
                        THEN HasNow("sendQueue", m, 1, u)
                        ELSE IF kind = "sendQueue" /\ k = m THEN HasNow("sendQueue", m, i + 1, u)
                                                            ELSE HasNow(kind, k, i, u)
      BY DEF Moves
    <3>1. CASE kind \in {"handler", "explored"}
      BY <1>4, <3>1 DEF HasNow, HasNext, Has
    <3>2. CASE kind = "sendQueue"
      BY <1>1, <3>2, DeliverQueues
    <3>3. CASE kind = "stack"
      BY <1>1, <1>3, <1>4, <3>3 DEF HasNow, HasNext, Has
    <3> QED BY <3>1, <3>2, <3>3 DEF Place
  <2> QED BY <1>1, <2>1, MovesOne DEF Place
<1>6. ASSUME NEW kind \in Place, NEW k \in Node, NEW i \in Pos, HasNow(kind, k, i, u)
      PROVE  AliveNext(u)
  <2>1. CASE kind \in {"stack", "handler", "explored"}
    <3>1. ~(kind = "stack" /\ k = Right[m])
      BY <1>6 DEF HasNow, Has
    <3> QED BY <1>4, <1>6, <2>1, <3>1 DEF HasNow, HasNext, Has, AliveNext
  <2>2. CASE kind = "sendQueue" /\ ~(k = m /\ i = 1)
    BY <1>1, <1>6, <2>2, DeliverQueues DEF AliveNext
  <2>3. CASE kind = "sendQueue" /\ k = m /\ i = 1
    <3>1. HasNext("stack", Right[m], 1, u)
      BY <1>1, <1>4, <1>6, <2>3 DEF HasNow, HasNext, Has
    <3> QED BY <1>1, <3>1 DEF AliveNext, Place, Pos
  <2> QED BY <2>1, <2>2, <2>3 DEF Place
<1> QED BY <1>5, <1>6 DEF AliveNow

-----------------------------------------------------------------------------
(***************************************************************************)
(* The inductive invariant                                                 *)
(***************************************************************************)
\* A node that has not yet received its first work, or has asked for more, has
\* nothing on its stacks.
Requested(n) == \E kind \in Kind, m \in Node, i \in Pos : HoldsNow(kind, m, i, n)

Asking(n) == pc[n] \in {"out", "start", "request"} \/ Requested(n)

AskerIdle == \A n \in Node : Asking(n) => work[n] = {}

UnitsInv ==
  /\ RequestInv
  /\ AskerIdle
  /\ OneHolder(work, explored, sendQueue, handler)
  /\ NobodyLeft => NoneLost(work, explored, sendQueue, handler)

Step(k) == Start(k) \/ MainStep(k) \/ SpuriousWakeup(k) \/ Deliver(k) \/ FinishHandler(k)

\* A request under way was under way before, or is that of the node that asks.
LEMMA RequestBefore ==
  ASSUME RequestInv, NEW k \in Node, Step(k), NEW n \in Node,
         NEW kind \in Kind, NEW m \in Node, NEW i \in Pos, HoldsNext(kind, m, i, n)
  PROVE  (RequestWork(k) /\ k = n) \/ Requested(n)
<1>0. TypeOK /\ TokenOrigins /\ Right[k] \in Node
  BY RingAssumption DEF RequestInv
<1>1. CASE RequestWork(k)
  <2> DEFINE msg == [type |-> "WORK_REQUEST", sourceNode |-> k]
  <2>1. /\ sendQueue[k] \in Seq(Message) /\ msg \in Message /\ msg.sourceNode = k
        /\ sendQueue'[k] = Append(sendQueue[k], msg)
        /\ \A j \in Node \ {k} : sendQueue'[j] = sendQueue[j]
        /\ UNCHANGED <<handler, workRequests>>
        /\ pc[k] = "request"
    BY <1>0, <1>1 DEF RequestWork, Send, TypeOK, Message
  <2> HIDE DEF msg
  <2>2. CASE n # k
    <3>1. HoldsNow(kind, m, i, n)
      <4>1. CASE kind = "sendQueue" /\ m = k
        BY <2>1, <2>2, <4>1, AppendPosition DEF HoldsNow, HoldsNext, Holds, CarriesRequest
      <4>2. CASE ~(kind = "sendQueue" /\ m = k)
        BY <2>1, <4>2 DEF HoldsNow, HoldsNext, Holds
      <4> QED BY <4>1, <4>2
    <3> QED BY <3>1 DEF Requested
  <2> QED BY <1>1, <2>2
<1>2. CASE ~RequestWork(k)
  <2>1. \E k1 \in Kind, m1 \in Node : \E k2, m2, pos :
          StaysNow \/ PopsNow(k1, m1) \/ TransfersNow(k1, m1, k2, m2, pos)
    <3>1. CASE AssignWork(k) \/ DeclineRequest(k)
      BY <1>0, <3>1, AnswerStep DEF Kind
    <3>2. CASE (Start(k) \/ MainStep(k) \/ SpuriousWakeup(k)) /\ ~AssignWork(k) /\ ~DeclineRequest(k)
      <4>1. StaysNow
        BY <1>0, <1>2, <3>2, QuietStep
      <4> QED BY <4>1 DEF Kind
    <3>3. CASE Deliver(k)
      BY <1>0, <3>3, DeliverStep DEF Kind
    <3>4. CASE FinishHandler(k)
      <4>1. handler[k].op = "accept" => handler[k].msg.type = "WORK_REQUEST"
        BY DEF RequestInv, MessagesSound, HandlersSound
      <4> QED BY <1>0, <3>4, <4>1, FinishStep DEF Kind
    <3> QED BY <3>1, <3>2, <3>3, <3>4 DEF Step
  <2>2. PICK k1 \in Kind, m1 \in Node : \E k2, m2, pos :
          StaysNow \/ PopsNow(k1, m1) \/ TransfersNow(k1, m1, k2, m2, pos)
    BY <2>1
  <2>3. PICK k2, m2, pos : StaysNow \/ PopsNow(k1, m1) \/ TransfersNow(k1, m1, k2, m2, pos)
    BY <2>2
  <2>4. \E kind2 \in Kind, mm \in Node, j \in Pos : HoldsNow(kind2, mm, j, n)
    BY <2>3, PlaceBefore
  <2> QED BY <2>4 DEF Requested
<1> QED BY <1>1, <1>2

\* Only an assignment to the node itself adds branches to its stacks.
LEMMA WorkShrinks ==
  ASSUME TypeOK, NEW k \in Node, Step(k), NEW n \in Node, ~(ReceiveAssignment(k) /\ n = Right[k])
  PROVE  work'[n] \subseteq work[n]
<1>1. CASE work' = work
  BY <1>1
<1>2. CASE ReceiveAssignment(k)
  BY <1>2 DEF ReceiveAssignment, TypeOK
<1>3. CASE Explore(k) \/ AssignWork(k)
  <2>1. \E gone : work' = [work EXCEPT ![k] = @ \ gone]
    BY <1>3 DEF Explore, AssignWork, Kept
  <2> QED BY <2>1 DEF TypeOK
<1> QED
  BY <1>1, <1>2, <1>3
  DEF Step, Start, MainStep, SpuriousWakeup, Deliver, FinishHandler,
      EnterSynchronize, DeclineRequest, LeaveSynchronize, StopWorking, RequestWork,
      WakeWithWork, ResumeWorking, PassSavedToken, BecomeLeader, LeaderCommanded,
      GatherResult, RetryToken, StepDown, CommandTermination, ReturnFalse, Leave,
      ReceiveOutside, ReceiveDenial, ReceiveRequest, ReceiveForeignAssignment,
      ReceiveMyToken, KeepForeignToken, PassForeignToken, ReceiveTerminalResult,
      ReceiveTerminate, AcceptRequest, Forward, searchVars

LEMMA AskerIdleStep ==
  ASSUME RequestInv, AskerIdle, NEW k \in Node, Step(k)
  PROVE  AskerIdle'
<1>0. TypeOK
  BY DEF RequestInv
<1> SUFFICES ASSUME NEW n \in Node,
                    \/ pc'[n] \in {"out", "start", "request"}
                    \/ \E kind \in Kind, m \in Node, i \in Pos : HoldsNext(kind, m, i, n)
             PROVE  work'[n] = {}
  BY DEF AskerIdle, Asking, Requested, HoldsNow, HoldsNext
<1>1. CASE ReceiveAssignment(k) /\ n = Right[k]
  <2>1. HoldsNow("sendQueue", k, 1, n) /\ \A kind \in Kind, m \in Node, i \in Pos : ~HoldsNext(kind, m, i, n)
    BY <1>1, AssignmentEnds, AssignmentLeaves
  <2>2. pc[n] \in Blocked \cup {"left"}
    BY <2>1 DEF RequestInv, HolderWaits, Waits, Kind, Pos
  <2>3. pc' = pc
    BY <1>1 DEF ReceiveAssignment
  <2> QED BY <2>1, <2>2, <2>3 DEF Blocked
<1>2. CASE ~(ReceiveAssignment(k) /\ n = Right[k])
  <2>1. work'[n] \subseteq work[n]
    BY <1>0, <1>2, WorkShrinks
  <2>2. CASE \E kind \in Kind, m \in Node, i \in Pos : HoldsNext(kind, m, i, n)
    <3>1. Asking(n)
      BY <2>2, RequestBefore DEF Asking, RequestWork
    <3> QED BY <2>1, <3>1 DEF AskerIdle
  <2>3. CASE pc'[n] \in {"out", "start", "request"}
    <3>1. pc[n] \in {"out", "start", "request"} \/ work[n] = {}
      <4>1. CASE pc'[n] = pc[n]
        BY <2>3, <4>1
      <4>2. CASE Start(k) \/ StopWorking(k)
        BY <1>0, <2>3, <4>2 DEF Start, StopWorking, TypeOK
      <4>3. CASE EnterSynchronize(k) \/ LeaveSynchronize(k) \/ RequestWork(k) \/ WakeWithWork(k)
                   \/ ResumeWorking(k) \/ PassSavedToken(k) \/ BecomeLeader(k)
                   \/ LeaderCommanded(k) \/ GatherResult(k) \/ StepDown(k)
                   \/ CommandTermination(k) \/ ReturnFalse(k) \/ Leave(k)
        BY <1>0, <2>3, <4>3
        DEF EnterSynchronize, LeaveSynchronize, RequestWork, WakeWithWork, ResumeWorking,
            PassSavedToken, BecomeLeader, LeaderCommanded, GatherResult, StepDown,
            CommandTermination, ReturnFalse, Leave, TypeOK
      <4> QED
        BY <4>1, <4>2, <4>3
        DEF Step, MainStep, SpuriousWakeup, Deliver, FinishHandler, Explore, AssignWork,
            DeclineRequest, RetryToken, ReceiveOutside, ReceiveDenial, ReceiveRequest,
            ReceiveAssignment, ReceiveForeignAssignment, ReceiveMyToken, KeepForeignToken,
            PassForeignToken, ReceiveTerminalResult, ReceiveTerminate, AcceptRequest, Forward,
            mainVars
    <3> QED BY <2>1, <3>1 DEF AskerIdle, Asking
  <2> QED BY <2>2, <2>3
<1> QED BY <1>1, <1>2

LEMMA LeftForEver ==
  ASSUME TypeOK, NEW k \in Node, Step(k), NEW n \in Node, pc[n] = "left"
  PROVE  pc'[n] = "left"
BY DEF TypeOK, Step, Start, MainStep, SpuriousWakeup, Deliver, FinishHandler, Explore,
       EnterSynchronize, AssignWork, DeclineRequest, LeaveSynchronize, StopWorking, RequestWork,
       WakeWithWork, ResumeWorking, PassSavedToken, BecomeLeader, LeaderCommanded, LeaderSees,
       GatherResult, RetryToken, StepDown, CommandTermination, ReturnFalse, Leave,
       ReceiveOutside, ReceiveDenial, ReceiveRequest, ReceiveAssignment,
       ReceiveForeignAssignment, ReceiveMyToken, KeepForeignToken, PassForeignToken,
       ReceiveTerminalResult, ReceiveTerminate, AcceptRequest, Forward, mainVars

LEMMA UnitsStep ==
  ASSUME UnitsInv, NEW k \in Node, Step(k), NEW u, OneNow(u)
  PROVE  OneNext(u) /\ (NobodyLeft /\ AliveNow(u) => AliveNext(u))
<1>0. RequestInv /\ TypeOK /\ TokenOrigins
  BY DEF UnitsInv, RequestInv
<1>1. CASE Explore(k)
  BY <1>0, <1>1, ExploreUnits
<1>2. CASE AssignWork(k)
  BY <1>0, <1>2, AssignUnits
<1>3. CASE (Start(k) \/ MainStep(k) \/ SpuriousWakeup(k)) /\ ~Explore(k) /\ ~AssignWork(k)
  BY <1>0, <1>3, QuietUnits
<1>4. CASE ReceiveAssignment(k)
  <2>1. HoldsNow("sendQueue", k, 1, Right[k]) /\ Right[k] \in Node
    BY <1>0, <1>4, AssignmentEnds
  <2>2. work[Right[k]] = {}
    BY <2>1 DEF UnitsInv, AskerIdle, Asking, Requested, Kind, Pos
  <2> QED BY <1>0, <1>4, <2>2, SetWorkUnits
<1>5. CASE Deliver(k) /\ ~ReceiveAssignment(k)
  BY <1>0, <1>5, DeliverUnits
<1>6. CASE FinishHandler(k)
  BY <1>0, <1>6, FinishUnits
<1> QED BY <1>1, <1>2, <1>3, <1>4, <1>5, <1>6 DEF Step

LEMMA UnitsInvInit == Init => UnitsInv
<1> SUFFICES ASSUME Init
             PROVE  UnitsInv
  OBVIOUS
<1>1. RequestInv
  BY RequestInvInit
<1>2. AskerIdle
  BY NodeAssumption DEF Init, AskerIdle, Asking, Requested, HoldsNow, Holds
<1>3. ASSUME NEW kind, NEW m \in Node, NEW i, NEW u \in Units
      PROVE  HasNow(kind, m, i, u) <=> kind = "stack" /\ m = Initiator /\ i = 1
  BY NodeAssumption DEF Init, HasNow, Has
<1>4. OneHolder(work, explored, sendQueue, handler)
  BY <1>3 DEF OneHolder, HasNow
<1>5. NoneLost(work, explored, sendQueue, handler)
  BY <1>3, NodeAssumption DEF NoneLost, HasNow, Place, Pos
<1> QED BY <1>1, <1>2, <1>4, <1>5 DEF UnitsInv

LEMMA UnitsInvStep == UnitsInv /\ [Next]_vars => UnitsInv'
<1> SUFFICES ASSUME UnitsInv, [Next]_vars
             PROVE  UnitsInv'
  OBVIOUS
<1>1. RequestInv'
  BY RequestInvStep DEF UnitsInv
<1>2. CASE Next
  <2>1. PICK k \in Node : Step(k)
    BY <1>2 DEF Next, Step
  <2>2. AskerIdle'
    BY <2>1, AskerIdleStep DEF UnitsInv
  <2>3. ASSUME NEW u \in Units
        PROVE  OneNext(u) /\ (NobodyLeft /\ AliveNow(u) => AliveNext(u))
    BY <2>1, UnitsStep DEF UnitsInv, OneHolder, OneNow, HasNow
  <2>4. OneHolder(work', explored', sendQueue', handler')
    BY <2>3 DEF OneHolder, OneNext, HasNext
  <2>5. NobodyLeft' => NobodyLeft
    BY <2>1, LeftForEver DEF UnitsInv, RequestInv, NobodyLeft
  <2>6. NobodyLeft' => NoneLost(work', explored', sendQueue', handler')
    BY <2>3, <2>5 DEF UnitsInv, NoneLost, AliveNow, AliveNext, HasNow, HasNext
  <2> QED BY <1>1, <2>2, <2>4, <2>6 DEF UnitsInv
<1>3. CASE UNCHANGED vars
  BY <1>1, <1>3
  DEF vars, mainVars, searchVars, netVars, shareVars, UnitsInv, AskerIdle, Asking, Requested, HoldsNow,
      NobodyLeft
<1> QED BY <1>2, <1>3

-----------------------------------------------------------------------------
\* In every ring and schedule, with any number of waits that return early, every
\* branch is on one node's stacks, in one assignment under way or explored, as
\* long as no node has left, and never in two of these.
THEOREM UnitsAccountedAlways == Spec => []UnitsAccounted
<1>1. UnitsInv => UnitsAccounted
  BY UnitsAccountedIs DEF UnitsInv, RequestInv
<1> QED BY <1>1, UnitsInvInit, UnitsInvStep, PTL DEF Spec

-----------------------------------------------------------------------------
(***************************************************************************)
(* Who ends unbidden ends empty-handed                                     *)
(*                                                                         *)
(* As long as a node has not been told to terminate, its request keeps it  *)
(* waiting, unsignalled, until the request is back or answered; branches   *)
(* come only with the answer, and wake it to work on them.                 *)
(***************************************************************************)
WaitsUnsignalled(n) == pc[n] = "idle" /\ ~awake[n]

AtWork(n) ==
  \/ pc[n] \in {"dfs", "sync", "resume"}
  \/ pc[n] = "idle" /\ awake[n] /\ workReciewed[n]

EmptyHanded(n) ==
  ~commandTerminate[n] =>
    /\ Requested(n) => WaitsUnsignalled(n)
    /\ work[n] # {} => AtWork(n)

EmptyInv == UnitsInv /\ (UnguardedWaits = {} => \A n \in Node : EmptyHanded(n))

\* A request that came back as refused is nowhere any more.
LEMMA DenialLeaves ==
  ASSUME RequestInv, NEW k \in Node, ReceiveDenial(k)
  PROVE  /\ Right[k] \in Node /\ Requested(Right[k])
         /\ \A kind \in Kind, m \in Node, i \in Pos : ~HoldsNext(kind, m, i, Right[k])
<1>1. /\ sendQueue[k] \in Seq(Message) /\ sendQueue[k] # <<>>
      /\ Head(sendQueue[k]).type = "WORK_REQUEST"
      /\ Head(sendQueue[k]).sourceNode = Right[k]
      /\ Right[k] \in Node
  <2>1. /\ sendQueue[k] # <<>> /\ Head(sendQueue[k]).type = "WORK_REQUEST"
        /\ Head(sendQueue[k]).sourceNode = Right[k]
    BY DEF ReceiveDenial, Locks, Arrives, originMe
  <2>2. sendQueue[k] \in Seq(Message) /\ Right[k] \in Node
    BY RingAssumption DEF RequestInv, TypeOK
  <2> QED BY <2>1, <2>2
<1>2. 1 \in Pos /\ "sendQueue" \in Kind
  BY DEF Pos, Kind
<1>3. HoldsNow("sendQueue", k, 1, Right[k])
  BY <1>1, HeadPosition DEF HoldsNow, Holds, CarriesRequest
<1>4. ASSUME NEW kind \in Kind, NEW m \in Node, NEW i \in Pos, HoldsNext(kind, m, i, Right[k])
      PROVE  FALSE
  <2>1. PopsNow("sendQueue", k)
    <3>1. originMe(k)
      BY DEF ReceiveDenial
    <3> QED BY <3>1, DeliverStep DEF RequestInv, Deliver
  <2>2. PICK p \in Pos : /\ HoldsNow(kind, m, p, Right[k])
                         /\ ~(kind = "sendQueue" /\ m = k /\ p = 1)
    <3>1. i + 1 \in Pos /\ i + 1 # 1
      BY DEF Pos
    <3> QED BY <1>1, <1>4, <2>1, <3>1 DEF PopsNow, Pops, HoldsNow, HoldsNext
  <2> QED BY <1>1, <1>2, <1>3, <2>2 DEF RequestInv, OnePlace, HoldsNow
<1> QED BY <1>1, <1>2, <1>3, <1>4 DEF Requested

\* A handler signals a waiting main thread only when its request is decided, or
\* it is told to terminate: the token that comes back is one of a node that waits
\* for it, not of one that waits for work.
LEMMA DeliverSignals ==
  ASSUME RequestInv, NEW k \in Node, Deliver(k), NEW n \in Node,
         ~commandTerminate'[n], WaitsUnsignalled(n)
  PROVE  \/ pc'[n] = "idle" /\ ~awake'[n]
         \/ n = Right[k] /\ (ReceiveDenial(k) \/ ReceiveAssignment(k))
<1>0. TypeOK /\ TokenOrigins /\ Right[k] \in Node
  BY RingAssumption DEF RequestInv
<1>1. CASE ReceiveDenial(k) \/ ReceiveAssignment(k)
  BY <1>0, <1>1 DEF ReceiveDenial, ReceiveAssignment, SignalIdle, TypeOK, WaitsUnsignalled
<1>2. CASE ReceiveMyToken(k)
  <2>1. /\ sendQueue[k] \in Seq(Message) /\ sendQueue[k] # <<>>
        /\ IsToken(Head(sendQueue[k])) /\ Head(sendQueue[k]).sourceNode = Right[k]
    BY <1>0, <1>2 DEF ReceiveMyToken, Locks, Arrives, originMe, IsToken, TypeOK
  <2>2. pc[Right[k]] \in Ending
    BY <1>0, <2>1, HeadPosition DEF TokenOrigins
  <2> QED BY <1>0, <1>2, <2>2 DEF ReceiveMyToken, SignalIdle, TypeOK, WaitsUnsignalled, Ending
<1>3. CASE ReceiveTerminate(k)
  BY <1>0, <1>3 DEF ReceiveTerminate, SignalIdle, TypeOK, WaitsUnsignalled
<1>4. CASE ReceiveTerminalResult(k)
  BY <1>0, <1>4 DEF ReceiveTerminalResult, TypeOK, WaitsUnsignalled
<1>5. CASE ReceiveOutside(k) \/ ReceiveRequest(k) \/ ReceiveForeignAssignment(k)
             \/ KeepForeignToken(k) \/ PassForeignToken(k)
  BY <1>5
  DEF ReceiveOutside, ReceiveRequest, ReceiveForeignAssignment, KeepForeignToken,
      PassForeignToken, mainVars, WaitsUnsignalled
<1> QED BY <1>1, <1>2, <1>3, <1>4, <1>5 DEF Deliver

\* The same for the steps of the main threads and the end of a handler.
LEMMA MainStepSignals ==
  ASSUME TypeOK, UnguardedWaits = {}, NEW n \in Node, WaitsUnsignalled(n),
         NEW k \in Node, Start(k) \/ MainStep(k) \/ SpuriousWakeup(k) \/ FinishHandler(k)
  PROVE  pc'[n] = "idle" /\ ~awake'[n]
<1>1. CASE Start(k) \/ SpuriousWakeup(k) \/ FinishHandler(k)
  BY <1>1
  DEF Start, SpuriousWakeup, FinishHandler, AcceptRequest, Forward, mainVars, TypeOK,
      WaitsUnsignalled
<1>2. CASE MainStep(k)
  BY <1>2
  DEF MainStep, Explore, EnterSynchronize, AssignWork, DeclineRequest, LeaveSynchronize,
      StopWorking, RequestWork, WakeWithWork, ResumeWorking, PassSavedToken, BecomeLeader,
      LeaderCommanded, LeaderSees, GatherResult, RetryToken, StepDown, CommandTermination,
      ReturnFalse, Leave, mainVars, TypeOK, WaitsUnsignalled
<1> QED BY <1>1, <1>2

LEMMA CommandStays ==
  ASSUME TypeOK, NEW k \in Node, Step(k), NEW n \in Node, commandTerminate[n]
  PROVE  commandTerminate'[n]
<1>1. CASE ReceiveTerminate(k)
  BY <1>1 DEF ReceiveTerminate, TypeOK
<1>2. CASE ~ReceiveTerminate(k)
  BY <1>2
  DEF Step, Start, MainStep, SpuriousWakeup, Deliver, FinishHandler, Explore,
      EnterSynchronize, AssignWork, DeclineRequest, LeaveSynchronize, StopWorking, RequestWork,
      WakeWithWork, ResumeWorking, PassSavedToken, BecomeLeader, LeaderCommanded, LeaderSees,
      GatherResult, RetryToken, StepDown, CommandTermination, ReturnFalse, Leave,
      ReceiveOutside, ReceiveDenial, ReceiveRequest, ReceiveAssignment,
      ReceiveForeignAssignment, ReceiveMyToken, KeepForeignToken, PassForeignToken,
      ReceiveTerminalResult, AcceptRequest, Forward, termVars
<1> QED BY <1>1, <1>2

\* Whoever has asked goes on waiting.
LEMMA RequestedWaits ==
  ASSUME RequestInv, UnguardedWaits = {}, NEW k \in Node, Step(k), NEW n \in Node,
         EmptyHanded(n), ~commandTerminate[n], ~commandTerminate'[n],
         NEW kind \in Kind, NEW m \in Node, NEW i \in Pos, HoldsNext(kind, m, i, n)
  PROVE  pc'[n] = "idle" /\ ~awake'[n]
<1>0. TypeOK
  BY DEF RequestInv
<1>1. CASE RequestWork(k) /\ k = n
  BY <1>0, <1>1 DEF RequestWork, TypeOK
<1>2. CASE Requested(n)
  <2>1. WaitsUnsignalled(n)
    BY <1>2 DEF EmptyHanded
  <2>2. CASE Deliver(k)
    <3>1. ~(n = Right[k] /\ ReceiveDenial(k))
      BY DenialLeaves
    <3>2. ~(n = Right[k] /\ ReceiveAssignment(k))
      BY AssignmentLeaves
    <3> QED BY <2>1, <2>2, <3>1, <3>2, DeliverSignals
  <2>3. CASE ~Deliver(k)
    BY <1>0, <2>1, <2>3, MainStepSignals DEF Step
  <2> QED BY <2>2, <2>3
<1> QED BY <1>1, <1>2, RequestBefore

\* Whoever has branches is at work on them, or about to be.
LEMMA HasWorkStep ==
  ASSUME RequestInv, UnguardedWaits = {}, NEW k \in Node, Step(k), NEW n \in Node,
         EmptyHanded(n), ~commandTerminate[n], work'[n] # {}
  PROVE  \/ pc'[n] \in {"dfs", "sync", "resume"}
         \/ pc'[n] = "idle" /\ awake'[n] /\ workReciewed'[n]
<1>0. TypeOK
  BY DEF RequestInv
<1>1. CASE ReceiveAssignment(k) /\ n = Right[k]
  <2>1. Requested(n)
    BY <1>1, AssignmentEnds DEF Requested, Kind, Pos
  <2>2. WaitsUnsignalled(n)
    BY <2>1 DEF EmptyHanded
  <2> QED BY <1>0, <1>1, <2>2 DEF ReceiveAssignment, SignalIdle, TypeOK, WaitsUnsignalled
<1>2. CASE ~(ReceiveAssignment(k) /\ n = Right[k])
  <2>1. work[n] # {} /\ AtWork(n)
    BY <1>0, <1>2, WorkShrinks DEF EmptyHanded
  <2>2. CASE ReceiveDenial(k)
    <3>1. n # Right[k]
      BY <2>1, <2>2, DenialLeaves DEF EmptyHanded, WaitsUnsignalled, AtWork
    <3> QED BY <1>0, <2>1, <2>2, <3>1 DEF ReceiveDenial, SignalIdle, TypeOK, AtWork
  <2>3. CASE ReceiveAssignment(k)
    BY <1>0, <1>2, <2>1, <2>3 DEF ReceiveAssignment, SignalIdle, TypeOK, AtWork
  <2>4. CASE Deliver(k) /\ ~ReceiveDenial(k) /\ ~ReceiveAssignment(k)
    BY <1>0, <2>1, <2>4
    DEF Deliver, ReceiveOutside, ReceiveRequest, ReceiveForeignAssignment, ReceiveMyToken,
        KeepForeignToken, PassForeignToken, ReceiveTerminalResult, ReceiveTerminate, SignalIdle,
        mainVars, shareVars, TypeOK, AtWork
  <2>5. CASE Start(k) \/ SpuriousWakeup(k) \/ FinishHandler(k)
    BY <1>0, <2>1, <2>5
    DEF Start, SpuriousWakeup, FinishHandler, AcceptRequest, Forward, mainVars, shareVars,
        TypeOK, AtWork
  <2>6. CASE MainStep(k)
    BY <1>0, <2>1, <2>6
    DEF MainStep, Explore, EnterSynchronize, AssignWork, DeclineRequest, LeaveSynchronize,
        StopWorking, RequestWork, WakeWithWork, ResumeWorking, PassSavedToken, BecomeLeader,
        LeaderCommanded, LeaderSees, GatherResult, RetryToken, StepDown, CommandTermination,
        ReturnFalse, Leave, mainVars, shareVars, TypeOK, AtWork
  <2> QED BY <2>2, <2>3, <2>4, <2>5, <2>6 DEF Step
<1> QED BY <1>1, <1>2

LEMMA EmptyInvInit == Init => EmptyInv
<1> SUFFICES ASSUME Init
             PROVE  EmptyInv
  OBVIOUS
<1>1. ASSUME NEW n \in Node
      PROVE  EmptyHanded(n)
  BY NodeAssumption
  DEF Init, EmptyHanded, AtWork, WaitsUnsignalled, Requested, HoldsNow, Holds
<1> QED BY <1>1, UnitsInvInit DEF EmptyInv

LEMMA EmptyInvStep == EmptyInv /\ [Next]_vars => EmptyInv'
<1> SUFFICES ASSUME EmptyInv, [Next]_vars
             PROVE  EmptyInv'
  OBVIOUS
<1>1. UnitsInv'
  BY UnitsInvStep DEF EmptyInv
<1>2. ASSUME Next, UnguardedWaits = {}, NEW n \in Node
      PROVE  EmptyHanded(n)'
  <2>1. PICK k \in Node : Step(k)
    BY <1>2 DEF Next, Step
  <2>2. RequestInv /\ TypeOK /\ EmptyHanded(n)
    BY <1>2 DEF EmptyInv, UnitsInv, RequestInv
  <2>3. CASE ~commandTerminate'[n]
    <3>1. ~commandTerminate[n]
      BY <2>1, <2>2, <2>3, CommandStays
    <3>2. ASSUME NEW kind \in Kind, NEW m \in Node, NEW i \in Pos, HoldsNext(kind, m, i, n)
          PROVE  pc'[n] = "idle" /\ ~awake'[n]
      BY <1>2, <2>1, <2>2, <2>3, <3>1, <3>2, RequestedWaits
    <3>3. work'[n] # {} => \/ pc'[n] \in {"dfs", "sync", "resume"}
                           \/ pc'[n] = "idle" /\ awake'[n] /\ workReciewed'[n]
      BY <1>2, <2>1, <2>2, <3>1, HasWorkStep
    <3> QED BY <3>2, <3>3 DEF EmptyHanded, Requested, WaitsUnsignalled, AtWork, HoldsNow, HoldsNext
  <2>4. CASE commandTerminate'[n]
    BY <2>4 DEF EmptyHanded
  <2> QED BY <2>3, <2>4
<1>3. ASSUME UNCHANGED vars, UnguardedWaits = {}, NEW n \in Node
      PROVE  EmptyHanded(n)'
  BY <1>3
  DEF vars, mainVars, searchVars, netVars, shareVars, termVars, EmptyInv, EmptyHanded, Requested,
      WaitsUnsignalled, AtWork, HoldsNow
<1> QED BY <1>1, <1>2, <1>3 DEF EmptyInv

\* In every ring, search space and schedule in which waits do not return early, a
\* node that ends without having been told to has no branch, and no request or
\* answer of its own is under way.
THEOREM EndsEmptyHandedAlways == Spec => []EndsEmptyHanded
<1>1. EmptyInv => EndsEmptyHanded
  <2> SUFFICES ASSUME EmptyInv, UnguardedWaits = {}, NEW n \in Node,
                      pc[n] \in Ending, ~commandTerminate[n]
               PROVE  work[n] = {} /\ RequestPlaces(n) = {}
    BY DEF EndsEmptyHanded
  <2>1. EmptyHanded(n) /\ TypeOK
    BY DEF EmptyInv, UnitsInv, RequestInv
  <2>2. ~Requested(n) /\ work[n] = {}
    BY <2>1 DEF EmptyHanded, WaitsUnsignalled, AtWork, Ending
  <2>3. \A p \in RequestPlaces(n) : FALSE
    BY <2>1, <2>2, RequestPlaceIs DEF Requested, HoldsNow
  <2> QED BY <2>2, <2>3
<1> QED BY <1>1, EmptyInvInit, EmptyInvStep, PTL DEF Spec

-----------------------------------------------------------------------------
(***************************************************************************)
(* Work sharing implements SharedSearch                                    *)
(*                                                                         *)
(* Only five kinds of step touch the work: a branch is explored, a split   *)
(* answers a request, an assignment is set, one is dropped by a node that  *)
(* has left, a node leaves.  All others keep the stacks and what is on its *)
(* way to each node, whichever queues and handlers it passes through.  That*)
(* a split goes to another node that nothing else is on its way to, and    *)
(* that an assignment finds empty stacks, follows from RequestInv and      *)
(* UnitsInv.                                                               *)
(***************************************************************************)
Brings(msg, n, u) == IsAssignment(msg) /\ msg.asignee = n /\ u \in msg.unit

QueueBrings(s, n, u) == \E i \in DOMAIN s : Brings(s[i], n, u)

HandlerBrings(state, n, u) == state.op = "forward" /\ Brings(state.msg, n, u)

\* Branch u is on its way to n when the queues are q and the handlers h.
OnWay(q, h, n, u) == \E m \in Node : QueueBrings(q[m], n, u) \/ HandlerBrings(h[m], n, u)

OnWayNow(n, u) == OnWay(sendQueue, handler, n, u)
OnWayNext(n, u) == OnWay(sendQueue', handler', n, u)

\* Variable assigned of SharedSearch, for given queues and handlers.
AssignedOf(q, h) ==
  [n \in Node |->
     UNION {msg.unit : msg \in
       {msg \in (UNION {{q[m][i] : i \in DOMAIN q[m]} : m \in Node})
                  \cup {h[m].msg : m \in {k \in Node : h[k].op = "forward"}} :
          IsAssignment(msg) /\ msg.asignee = n}}]

AssignedNow == AssignedOf(sendQueue, handler)
AssignedNext == AssignedOf(sendQueue', handler')

GoneNow == {n \in Node : pc[n] = "left"}
GoneNext == {n \in Node : pc'[n] = "left"}

LEMMA AssignedIs ==
  ASSUME NEW q, NEW h, NEW n \in Node, NEW u
  PROVE  u \in AssignedOf(q, h)[n] <=> OnWay(q, h, n, u)
<1> DEFINE queued == UNION {{q[m][i] : i \in DOMAIN q[m]} : m \in Node}
           handled == {h[m].msg : m \in {k \in Node : h[k].op = "forward"}}
           brought == {msg \in queued \cup handled : IsAssignment(msg) /\ msg.asignee = n}
<1>1. AssignedOf(q, h)[n] = UNION {msg.unit : msg \in brought}
  BY DEF AssignedOf
<1>2. \A msg : msg \in queued <=> \E m \in Node : \E i \in DOMAIN q[m] : msg = q[m][i]
  OBVIOUS
<1>3. \A msg : msg \in handled <=> \E m \in Node : h[m].op = "forward" /\ msg = h[m].msg
  OBVIOUS
<1> HIDE DEF queued, handled
<1>4. u \in UNION {msg.unit : msg \in brought} <=> \E msg \in queued \cup handled : Brings(msg, n, u)
  BY DEF Brings
<1>5. (\E msg \in queued \cup handled : Brings(msg, n, u)) <=> OnWay(q, h, n, u)
  BY <1>2, <1>3 DEF OnWay, QueueBrings, HandlerBrings
<1> QED BY <1>1, <1>4, <1>5

LEMMA AssignedSame ==
  ASSUME \A n \in Node : \A u : OnWayNext(n, u) <=> OnWayNow(n, u)
  PROVE  AssignedNext = AssignedNow
<1>1. ASSUME NEW n \in Node
      PROVE  AssignedNext[n] = AssignedNow[n]
  <2>1. \A u : u \in AssignedNext[n] <=> u \in AssignedNow[n]
    BY AssignedIs DEF AssignedNext, AssignedNow, OnWayNext, OnWayNow
  <2> QED BY <2>1
<1> QED BY <1>1 DEF AssignedNext, AssignedNow, AssignedOf

\* Only what is on its way to r changes: it becomes S.
LEMMA AssignedExcept ==
  ASSUME NEW r \in Node, NEW S,
         \A n \in Node \ {r} : \A u : OnWayNext(n, u) <=> OnWayNow(n, u),
         \A u : OnWayNext(r, u) <=> u \in S
  PROVE  AssignedNext = [AssignedNow EXCEPT ![r] = S]
<1>1. ASSUME NEW n \in Node \ {r}
      PROVE  AssignedNext[n] = AssignedNow[n]
  <2>1. \A u : u \in AssignedNext[n] <=> u \in AssignedNow[n]
    BY AssignedIs DEF AssignedNext, AssignedNow, OnWayNext, OnWayNow
  <2> QED BY <2>1
<1>2. AssignedNext[r] = S
  <2>1. \A u : u \in AssignedNext[r] <=> u \in S
    BY AssignedIs DEF AssignedNext, OnWayNext
  <2> QED BY <2>1
<1> QED BY <1>1, <1>2 DEF AssignedNext, AssignedNow, AssignedOf

-----------------------------------------------------------------------------
(***************************************************************************)
(* What queues bring                                                       *)
(***************************************************************************)
LEMMA AppendBrings ==
  ASSUME NEW S, NEW s \in Seq(S), NEW x \in S, NEW n, NEW u
  PROVE  QueueBrings(Append(s, x), n, u) <=> QueueBrings(s, n, u) \/ Brings(x, n, u)
<1>1. QueueBrings(Append(s, x), n, u) => QueueBrings(s, n, u) \/ Brings(x, n, u)
  BY AppendPosition DEF QueueBrings
<1>2. QueueBrings(s, n, u) \/ Brings(x, n, u) => QueueBrings(Append(s, x), n, u)
  BY AppendKeeps DEF QueueBrings
<1> QED BY <1>1, <1>2

LEMMA AppendTwoBrings ==
  ASSUME NEW S, NEW s \in Seq(S), NEW a \in S, NEW b \in S, NEW n, NEW u, ~Brings(b, n, u)
  PROVE  QueueBrings(s \o <<a, b>>, n, u) <=> QueueBrings(s, n, u) \/ Brings(a, n, u)
<1>1. QueueBrings(s \o <<a, b>>, n, u) => QueueBrings(s, n, u) \/ Brings(a, n, u)
  BY AppendTwoPosition DEF QueueBrings
<1>2. QueueBrings(s, n, u) \/ Brings(a, n, u) => QueueBrings(s \o <<a, b>>, n, u)
  BY AppendTwoKeeps DEF QueueBrings
<1> QED BY <1>1, <1>2

LEMMA HeadTailBrings ==
  ASSUME NEW S, NEW s \in Seq(S), s # <<>>, NEW n, NEW u
  PROVE  QueueBrings(s, n, u) <=> Brings(Head(s), n, u) \/ QueueBrings(Tail(s), n, u)
<1>1. QueueBrings(s, n, u) => Brings(Head(s), n, u) \/ QueueBrings(Tail(s), n, u)
  BY HeadPosition, TailKeeps DEF QueueBrings
<1>2. Brings(Head(s), n, u) \/ QueueBrings(Tail(s), n, u) => QueueBrings(s, n, u)
  BY HeadPosition, TailPosition DEF QueueBrings
<1> QED BY <1>1, <1>2

\* What is on its way to n answers its request.
LEMMA OnWayHolds ==
  ASSUME NEW n, NEW u, NEW q, NEW h, NEW r, OnWay(q, h, n, u), q \in [Node -> Seq(Message)]
  PROVE  \E kind \in {"sendQueue", "handler"}, m \in Node, i \in Pos : Holds(q, h, r, kind, m, i, n)
<1>1. PICK m \in Node : QueueBrings(q[m], n, u) \/ HandlerBrings(h[m], n, u)
  BY DEF OnWay
<1>2. CASE QueueBrings(q[m], n, u)
  <2>1. PICK i \in DOMAIN q[m] : Brings(q[m][i], n, u)
    BY <1>2 DEF QueueBrings
  <2>2. i \in Pos
    BY DEF Pos
  <2>3. Holds(q, h, r, "sendQueue", m, i, n)
    BY <2>1 DEF Holds, CarriesRequest, Brings, IsAssignment
  <2> QED BY <2>2, <2>3
<1>3. CASE HandlerBrings(h[m], n, u)
  <2>1. Holds(q, h, r, "handler", m, 1, n) /\ 1 \in Pos
    BY <1>3 DEF Holds, CarriesRequest, Brings, IsAssignment, HandlerBrings, Pos
  <2> QED BY <2>1
<1> QED BY <1>1, <1>2, <1>3

-----------------------------------------------------------------------------
(***************************************************************************)
(* Steps that change nothing that is on its way                            *)
(***************************************************************************)
LEMMA QuietWay ==
  ASSUME TypeOK, TokenOrigins, NEW n \in Node,
         Start(n) \/ MainStep(n) \/ SpuriousWakeup(n), ~AssignWork(n),
         NEW k, NEW u
  PROVE  OnWayNext(k, u) <=> OnWayNow(k, u)
<1>1. UNCHANGED handler
  BY DEF MainStep, Start, SpuriousWakeup, Explore, EnterSynchronize, DeclineRequest,
         LeaveSynchronize, StopWorking, RequestWork, WakeWithWork, ResumeWorking, PassSavedToken,
         BecomeLeader, LeaderCommanded, GatherResult, RetryToken, StepDown, CommandTermination,
         ReturnFalse, Leave, netVars
<1>2. ASSUME NEW m \in Node
      PROVE  QueueBrings(sendQueue'[m], k, u) <=> QueueBrings(sendQueue[m], k, u)
  <2>1. CASE sendQueue'[m] = sendQueue[m]
    BY <2>1
  <2>2. CASE sendQueue'[m] # sendQueue[m]
    <3>1. PICK msg \in Message : msg.type # "WORK_ASSIGNMET" /\ Send(n, msg)
      BY <2>2, MainStepSends
    <3>2. sendQueue[m] \in Seq(Message) /\ sendQueue'[m] = Append(sendQueue[m], msg)
      BY <2>2, <3>1 DEF Send, TypeOK
    <3>3. ~Brings(msg, k, u)
      BY <3>1 DEF Brings, IsAssignment
    <3> QED BY <3>2, <3>3, AppendBrings
  <2> QED BY <2>1, <2>2
<1> QED BY <1>1, <1>2 DEF OnWayNext, OnWayNow, OnWay

LEMMA FinishWay ==
  ASSUME TypeOK, NEW n \in Node, FinishHandler(n), NEW k, NEW u
  PROVE  OnWayNext(k, u) <=> OnWayNow(k, u)
<1>1. /\ handler'[n].op = "none"
      /\ \A m \in Node \ {n} : handler'[m] = handler[m]
  BY DEF FinishHandler, AcceptRequest, Forward, TypeOK
<1>2. ~HandlerBrings(handler'[n], k, u)
  BY <1>1 DEF HandlerBrings
<1>3. CASE AcceptRequest(n)
  <2>1. UNCHANGED sendQueue /\ ~HandlerBrings(handler[n], k, u)
    BY <1>3 DEF AcceptRequest, HandlerBrings
  <2> QED BY <1>1, <1>2, <2>1 DEF OnWayNext, OnWayNow, OnWay
<1>4. CASE Forward(n)
  <2>1. /\ handler[n].op = "forward" /\ handler[n].msg \in Message
        /\ sendQueue[n] \in Seq(Message) /\ sendQueue'[n] = Append(sendQueue[n], handler[n].msg)
        /\ \A m \in Node \ {n} : sendQueue'[m] = sendQueue[m]
    BY <1>4 DEF Forward, Send, TypeOK, HandlerState
  <2>2. QueueBrings(sendQueue'[n], k, u)
          <=> QueueBrings(sendQueue[n], k, u) \/ HandlerBrings(handler[n], k, u)
    BY <2>1, AppendBrings DEF HandlerBrings
  <2> QED BY <1>1, <1>2, <2>1, <2>2 DEF OnWayNext, OnWayNow, OnWay
<1> QED BY <1>3, <1>4 DEF FinishHandler

-----------------------------------------------------------------------------
(***************************************************************************)
(* Deliveries                                                              *)
(***************************************************************************)
\* The first message of the queue is taken; when it is passed on, nothing that
\* was on its way is lost.
LEMMA DeliverWay ==
  ASSUME TypeOK, NEW m \in Node, Deliver(m), NEW k, NEW u
  PROVE  /\ OnWayNow(k, u) <=> OnWayNext(k, u) \/ Brings(Head(sendQueue[m]), k, u)
         /\ handler' = [handler EXCEPT ![Right[m]] = [op |-> "forward", msg |-> Head(sendQueue[m])]]
              => (OnWayNow(k, u) <=> OnWayNext(k, u))
<1> DEFINE head == Head(sendQueue[m])
<1>1. /\ sendQueue \in [Node -> Seq(Message)] /\ handler \in [Node -> HandlerState]
      /\ Right[m] \in Node /\ Right[m] # m
      /\ sendQueue[m] # <<>> /\ handler[Right[m]].op = "none"
  BY RingAssumption, DeliverIs DEF TypeOK
<1>2. \/ sendQueue' = [sendQueue EXCEPT ![m] = Tail(@)]
      \/ \E msg \in Message :
            /\ msg.type = "TERMINATION_TOKEN"
            /\ sendQueue' = [sendQueue EXCEPT ![m] = Tail(@), ![Right[m]] = Append(@, msg)]
  BY DeliverIs
<1>3. sendQueue[m] \in Seq(Message) /\ sendQueue'[m] = Tail(sendQueue[m])
  BY <1>1, <1>2
<1>4. QueueBrings(sendQueue[m], k, u) <=> Brings(head, k, u) \/ QueueBrings(sendQueue'[m], k, u)
  BY <1>1, <1>3, HeadTailBrings
<1>5. ASSUME NEW j \in Node \ {m}
      PROVE  QueueBrings(sendQueue'[j], k, u) <=> QueueBrings(sendQueue[j], k, u)
  <2>1. CASE sendQueue'[j] = sendQueue[j]
    BY <2>1
  <2>2. CASE sendQueue'[j] # sendQueue[j]
    <3>1. PICK msg \in Message :
            msg.type = "TERMINATION_TOKEN" /\ sendQueue'[j] = Append(sendQueue[j], msg)
      BY <1>1, <1>2, <2>2
    <3>2. sendQueue[j] \in Seq(Message) /\ ~Brings(msg, k, u)
      BY <1>1, <3>1 DEF Brings, IsAssignment
    <3> QED BY <3>1, <3>2, AppendBrings
  <2> QED BY <2>1, <2>2
<1>6. ~HandlerBrings(handler[Right[m]], k, u)
  BY <1>1 DEF HandlerBrings
<1>7. CASE handler' = handler
  <2>1. handler' # [handler EXCEPT ![Right[m]] = [op |-> "forward", msg |-> Head(sendQueue[m])]]
    BY <1>1, <1>7
  <2> QED BY <1>4, <1>5, <1>7, <2>1 DEF OnWayNow, OnWayNext, OnWay
<1>8. CASE \E op \in {"accept", "forward"} :
             handler' = [handler EXCEPT ![Right[m]] = [op |-> op, msg |-> Head(sendQueue[m])]]
  <2>1. PICK op \in {"accept", "forward"} :
             handler' = [handler EXCEPT ![Right[m]] = [op |-> op, msg |-> Head(sendQueue[m])]]
    BY <1>8
  <2>2. \A j \in Node \ {Right[m]} : handler'[j] = handler[j]
    BY <1>1, <2>1
  <2>3. handler'[Right[m]] = [op |-> op, msg |-> head]
    BY <1>1, <2>1
  <2> HIDE DEF head
  <2>4. HandlerBrings(handler'[Right[m]], k, u) <=> op = "forward" /\ Brings(head, k, u)
    BY <2>3 DEF HandlerBrings
  <2>5. OnWayNow(k, u) <=> OnWayNext(k, u) \/ Brings(head, k, u)
    BY <1>1, <1>4, <1>5, <1>6, <2>2, <2>4 DEF OnWayNow, OnWayNext, OnWay
  <2>6. ASSUME handler' = [handler EXCEPT ![Right[m]] = [op |-> "forward", msg |-> head]],
               Brings(head, k, u)
        PROVE  OnWayNext(k, u)
    <3>1. HandlerBrings(handler'[Right[m]], k, u)
      BY <1>1, <2>6 DEF HandlerBrings
    <3> QED BY <1>1, <3>1 DEF OnWayNext, OnWay
  <2> QED BY <2>5, <2>6 DEF head
<1> QED BY <1>7, <1>8, DeliverIs

\* The answer that ends its journey was the only one: nothing more is on its way
\* to the node.
LEMMA LastAnswer ==
  ASSUME RequestInv, NEW m \in Node, Deliver(m), originMe(m),
         IsAssignment(Head(sendQueue[m])), NEW u
  PROVE  /\ ~OnWayNext(Right[m], u)
         /\ OnWayNow(Right[m], u) <=> u \in Head(sendQueue[m]).unit
         /\ \A k \in Node \ {Right[m]} : OnWayNext(k, u) <=> OnWayNow(k, u)
         /\ HoldsNow("sendQueue", m, 1, Right[m])
<1>1. /\ TypeOK /\ Right[m] \in Node
      /\ sendQueue[m] \in Seq(Message) /\ sendQueue[m] # <<>>
      /\ Head(sendQueue[m]).asignee = Right[m]
      /\ OnePlace(sendQueue, handler, workRequests)
  <2>1. TypeOK /\ OnePlace(sendQueue, handler, workRequests)
    BY DEF RequestInv
  <2>2. Right[m] \in Node /\ Head(sendQueue[m]).asignee = Right[m]
    BY RingAssumption DEF originMe, IsAssignment
  <2>3. sendQueue[m] # <<>>
    BY <2>1, DeliverIs
  <2> QED BY <2>1, <2>2, <2>3 DEF TypeOK
<1>2. 1 \in DOMAIN sendQueue[m] /\ Head(sendQueue[m]) = sendQueue[m][1]
  BY <1>1, HeadPosition
<1>3. HoldsNow("sendQueue", m, 1, Right[m])
  BY <1>2 DEF HoldsNow, Holds, CarriesRequest, originMe, IsAssignment
<1>4. ~OnWayNext(Right[m], u)
  <2> SUFFICES ASSUME OnWayNext(Right[m], u)
               PROVE  FALSE
    OBVIOUS
  <2>1. sendQueue' \in [Node -> Seq(Message)]
    BY <1>1, DeliverType DEF TypeOK
  <2>2. PICK kind \in {"sendQueue", "handler"}, j \in Node, i \in Pos : HoldsNext(kind, j, i, Right[m])
    BY <2>1, OnWayHolds DEF OnWayNext, HoldsNext
  <2>3. PopsNow("sendQueue", m)
    BY <1>1, DeliverStep
  <2>4. \E p \in Pos : HoldsNow(kind, j, p, Right[m]) /\ ~(kind = "sendQueue" /\ j = m /\ p = 1)
    <3>1. i + 1 \in Pos /\ i + 1 # 1 /\ kind \in Kind
      BY DEF Pos, Kind
    <3> QED BY <1>1, <2>2, <2>3, <3>1 DEF PopsNow, Pops, HoldsNow, HoldsNext
  <2>5. 1 \in Pos /\ "sendQueue" \in Kind /\ kind \in Kind
    BY DEF Pos, Kind
  <2> QED BY <1>1, <1>3, <2>4, <2>5 DEF OnePlace, HoldsNow
<1>5. OnWayNow(Right[m], u) <=> u \in Head(sendQueue[m]).unit
  BY <1>1, <1>4, DeliverWay DEF Brings
<1>6. ASSUME NEW k \in Node \ {Right[m]}
      PROVE  OnWayNext(k, u) <=> OnWayNow(k, u)
  BY <1>1, DeliverWay DEF Brings
<1> QED BY <1>3, <1>4, <1>5, <1>6

-----------------------------------------------------------------------------
(***************************************************************************)
(* The steps of SharedSearch                                               *)
(***************************************************************************)
LEMMA GoneStep ==
  ASSUME TypeOK, NEW k \in Node, Step(k), ~Leave(k)
  PROVE  GoneNext = GoneNow
<1>1. ASSUME NEW n \in Node, pc'[n] = "left"
      PROVE  pc[n] = "left"
  BY <1>1
  DEF TypeOK, Step, Start, MainStep, SpuriousWakeup, Deliver, FinishHandler, Explore,
      EnterSynchronize, AssignWork, DeclineRequest, LeaveSynchronize, StopWorking, RequestWork,
      WakeWithWork, ResumeWorking, PassSavedToken, BecomeLeader, LeaderCommanded, LeaderSees,
      GatherResult, RetryToken, StepDown, CommandTermination, ReturnFalse,
      ReceiveOutside, ReceiveDenial, ReceiveRequest, ReceiveAssignment,
      ReceiveForeignAssignment, ReceiveMyToken, KeepForeignToken, PassForeignToken,
      ReceiveTerminalResult, ReceiveTerminate, AcceptRequest, Forward, mainVars
<1>2. \A n \in Node : pc[n] = "left" => pc'[n] = "left"
  BY LeftForEver
<1> QED BY <1>1, <1>2 DEF GoneNext, GoneNow

\* Steps that touch neither the stacks nor the past.
LEMMA WorkKept ==
  ASSUME NEW k \in Node, Step(k), ~Explore(k), ~AssignWork(k), ~ReceiveAssignment(k)
  PROVE  UNCHANGED <<work, explored>>
BY DEF Step, Start, MainStep, SpuriousWakeup, Deliver, FinishHandler,
       EnterSynchronize, DeclineRequest, LeaveSynchronize, StopWorking, RequestWork,
       WakeWithWork, ResumeWorking, PassSavedToken, BecomeLeader, LeaderCommanded,
       GatherResult, RetryToken, StepDown, CommandTermination, ReturnFalse, Leave,
       ReceiveOutside, ReceiveDenial, ReceiveRequest, ReceiveForeignAssignment,
       ReceiveMyToken, KeepForeignToken, PassForeignToken, ReceiveTerminalResult,
       ReceiveTerminate, AcceptRequest, Forward, searchVars

\* A split answers a request of another node, to which nothing is on its way.
LEMMA AssignWay ==
  ASSUME RequestInv, NEW n \in Node, AssignWork(n)
  PROVE  \E r \in Node, given \in Splits(work[n]) :
           /\ r # n
           /\ AssignedNow[r] = {}
           /\ work' = [work EXCEPT ![n] = @ \ given]
           /\ AssignedNext = [AssignedNow EXCEPT ![r] = given]
           /\ explored' = explored
<1>1. PICK given \in Splits(work[n]) :
        /\ work' = [work EXCEPT ![n] = Kept(@, given)]
        /\ sendQueue' = [sendQueue EXCEPT
              ![n] = @ \o <<AssignmentTo(Head(workRequests[n]), given),
                            KeptAnnouncement(n, Kept(work[n], given))>>]
  BY DEF AssignWork
<1> DEFINE r == Head(workRequests[n])
           a == AssignmentTo(r, given)
           b == KeptAnnouncement(n, Kept(work[n], given))
<1>2. /\ TypeOK /\ OnePlace(sendQueue, handler, workRequests)
      /\ pc[n] = "sync" /\ UNCHANGED <<explored, handler>>
  BY DEF AssignWork, RequestInv
<1>3. /\ workRequests[n] \in Seq(Node) /\ workRequests[n] # <<>>
      /\ given \in SUBSET Units /\ Kept(work[n], given) \in SUBSET Units
      /\ sendQueue \in [Node -> Seq(Message)]
  BY <1>2 DEF AssignWork, TypeOK, Splits, Kept
<1>4. r \in Node /\ 1 \in DOMAIN workRequests[n] /\ workRequests[n][1] = r
  BY <1>3, HeadPosition
<1> HIDE DEF r
<1>5. HoldsNow("workRequests", n, 1, r)
  BY <1>4 DEF HoldsNow, Holds
<1>6. "workRequests" \in Kind /\ "sendQueue" \in Kind /\ "handler" \in Kind /\ 1 \in Pos
  BY DEF Kind, Pos
<1>7. r # n
  BY <1>2, <1>4, <1>5, <1>6 DEF RequestInv, HolderWaits, Waits, Blocked
<1>8. ASSUME NEW u
      PROVE  ~OnWayNow(r, u)
  <2> SUFFICES ASSUME OnWayNow(r, u)
               PROVE  FALSE
    OBVIOUS
  <2>1. PICK kind \in {"sendQueue", "handler"}, m \in Node, i \in Pos : HoldsNow(kind, m, i, r)
    BY <1>3, OnWayHolds DEF OnWayNow, HoldsNow
  <2> QED BY <1>2, <1>4, <1>5, <1>6, <2>1 DEF OnePlace, HoldsNow
<1>9. AssignedNow[r] = {}
  BY <1>4, <1>8, AssignedIs DEF AssignedNow, OnWayNow
<1>10. /\ a \in Message /\ b \in Message /\ b.asignee # b.sourceNode
       /\ a.sourceNode = r /\ a.asignee = r /\ a.type = "WORK_ASSIGNMET" /\ a.unit = given
  BY <1>3, <1>4, AssignmentType, LeftOf DEF AssignmentTo, KeptAnnouncement
<1>11. sendQueue' = [sendQueue EXCEPT ![n] = @ \o <<a, b>>]
  BY <1>1 DEF r
<1> HIDE DEF a, b
<1>12. /\ sendQueue[n] \in Seq(Message) /\ sendQueue'[n] = sendQueue[n] \o <<a, b>>
       /\ \A m \in Node \ {n} : sendQueue'[m] = sendQueue[m]
  BY <1>3, <1>11
<1>13. ASSUME NEW k, NEW u
       PROVE  OnWayNext(k, u) <=> OnWayNow(k, u) \/ (k = r /\ u \in given)
  <2>1. ~Brings(b, k, u) /\ (Brings(a, k, u) <=> k = r /\ u \in given)
    BY <1>10 DEF Brings, IsAssignment
  <2>2. QueueBrings(sendQueue'[n], k, u)
          <=> QueueBrings(sendQueue[n], k, u) \/ (k = r /\ u \in given)
    BY <1>10, <1>12, <2>1, AppendTwoBrings
  <2> QED BY <1>2, <1>12, <2>2 DEF OnWayNext, OnWayNow, OnWay
<1>14. AssignedNext = [AssignedNow EXCEPT ![r] = given]
  <2>1. \A k \in Node \ {r} : \A u : OnWayNext(k, u) <=> OnWayNow(k, u)
    BY <1>13
  <2>2. \A u : OnWayNext(r, u) <=> u \in given
    BY <1>8, <1>13
  <2> QED BY <1>4, <2>1, <2>2, AssignedExcept
<1>15. work' = [work EXCEPT ![n] = @ \ given]
  BY <1>1 DEF Kept
<1> QED BY <1>2, <1>4, <1>7, <1>9, <1>14, <1>15

\* An assignment that is set is all that was on its way to the node, and the
\* node's stacks were empty.
LEMMA SetWorkWay ==
  ASSUME UnitsInv, NEW m \in Node, ReceiveAssignment(m)
  PROVE  /\ Right[m] \in Node
         /\ work[Right[m]] = {}
         /\ work' = [work EXCEPT ![Right[m]] = AssignedNow[Right[m]]]
         /\ AssignedNext = [AssignedNow EXCEPT ![Right[m]] = {}]
         /\ explored' = explored
<1>1. /\ RequestInv /\ AskerIdle /\ Deliver(m) /\ Right[m] \in Node
      /\ Head(sendQueue[m]).type = "WORK_ASSIGNMET" /\ Head(sendQueue[m]).asignee = Right[m]
      /\ work' = [work EXCEPT ![Right[m]] = Head(sendQueue[m]).unit]
      /\ explored' = explored
  BY RingAssumption DEF UnitsInv, Deliver, ReceiveAssignment, Locks, Arrives
<1>2. originMe(m)
  BY <1>1, AssignmentEnds
<1>3. IsAssignment(Head(sendQueue[m]))
  BY <1>1, <1>2 DEF originMe, IsAssignment
<1>4. \A u : /\ ~OnWayNext(Right[m], u)
             /\ OnWayNow(Right[m], u) <=> u \in Head(sendQueue[m]).unit
             /\ \A k \in Node \ {Right[m]} : OnWayNext(k, u) <=> OnWayNow(k, u)
             /\ HoldsNow("sendQueue", m, 1, Right[m])
  BY <1>1, <1>2, <1>3, LastAnswer
<1>5. work[Right[m]] = {}
  BY <1>1, <1>4 DEF AskerIdle, Asking, Requested, Kind, Pos
<1>6. AssignedNow[Right[m]] = Head(sendQueue[m]).unit
  <2>1. \A u : u \in AssignedNow[Right[m]] <=> u \in Head(sendQueue[m]).unit
    BY <1>1, <1>4, AssignedIs DEF AssignedNow, OnWayNow
  <2> QED BY <2>1
<1>7. AssignedNext = [AssignedNow EXCEPT ![Right[m]] = {}]
  BY <1>1, <1>4, AssignedExcept
<1> QED BY <1>1, <1>5, <1>6, <1>7

\* Any other delivery keeps what is on its way, or drops what was on its way to a
\* node that has left.
LEMMA DeliverOther ==
  ASSUME RequestInv, NEW m \in Node, Deliver(m), ~ReceiveAssignment(m)
  PROVE  \/ AssignedNext = AssignedNow
         \/ /\ Right[m] \in GoneNow
            /\ AssignedNext = [AssignedNow EXCEPT ![Right[m]] = {}]
<1>1. TypeOK /\ Right[m] \in Node
  BY RingAssumption DEF RequestInv
<1>2. CASE ~IsAssignment(Head(sendQueue[m]))
  <2>1. \A n \in Node : \A u : OnWayNext(n, u) <=> OnWayNow(n, u)
    BY <1>1, <1>2, DeliverWay DEF Brings
  <2> QED BY <2>1, AssignedSame
<1>3. CASE handler' = [handler EXCEPT ![Right[m]] = [op |-> "forward", msg |-> Head(sendQueue[m])]]
  <2>1. \A n \in Node : \A u : OnWayNext(n, u) <=> OnWayNow(n, u)
    BY <1>1, <1>3, DeliverWay
  <2> QED BY <2>1, AssignedSame
<1>4. CASE /\ IsAssignment(Head(sendQueue[m]))
           /\ originMe(m) /\ pc[Right[m]] = "left"
  <2>1. \A u : /\ ~OnWayNext(Right[m], u)
               /\ \A k \in Node \ {Right[m]} : OnWayNext(k, u) <=> OnWayNow(k, u)
    BY <1>4, LastAnswer
  <2>2. AssignedNext = [AssignedNow EXCEPT ![Right[m]] = {}]
    BY <1>1, <2>1, AssignedExcept
  <2> QED BY <1>1, <1>4, <2>2 DEF GoneNow
<1> QED BY <1>2, <1>3, <1>4, DeliverAssignment

-----------------------------------------------------------------------------
(***************************************************************************)
(* The refinement                                                          *)
(***************************************************************************)
\* The refinement mapping, before and after a step.
LEMMA Mapping ==
  /\ [n \in Node |-> UNION {msg.unit : msg \in AssignmentsOf(n)}] = AssignedNow
  /\ [n \in Node |-> UNION {msg.unit : msg \in AssignmentsOf(n)}]' = AssignedNext
  /\ {n \in Node : pc[n] = "left"}' = GoneNext
BY DEF AssignedNow, AssignedNext, AssignedOf, AssignmentsOf, GoneNext

LEMMA RefinementInit == Init => Search!Init
<1> SUFFICES ASSUME Init
             PROVE  Search!Init
  OBVIOUS
<1>1. ASSUME NEW n \in Node, NEW u
      PROVE  ~OnWayNow(n, u)
  BY DEF Init, OnWayNow, OnWay, QueueBrings, HandlerBrings
<1>2. \A n \in Node : AssignedNow[n] = {}
  BY <1>1, AssignedIs DEF AssignedNow, OnWayNow
<1>3. AssignedNow = [n \in Node |-> {}]
  BY <1>2 DEF AssignedNow, AssignedOf
<1>4. {n \in Node : pc[n] = "left"} = {}
  BY DEF Init
<1> QED BY <1>3, <1>4, Mapping DEF Init, Search!Init

LEMMA RefinementStep == UnitsInv /\ [Next]_vars => [Search!Next]_(Search!vars)
<1> SUFFICES ASSUME UnitsInv, [Next]_vars
             PROVE  Search!Next \/ UNCHANGED Search!vars
  OBVIOUS
<1>0. TypeOK /\ TokenOrigins /\ RequestInv
  BY DEF UnitsInv, RequestInv
<1>1. CASE UNCHANGED vars
  <2>1. AssignedNext = AssignedNow /\ GoneNext = GoneNow
    BY <1>1 DEF vars, netVars, mainVars, AssignedNext, AssignedNow, GoneNext, GoneNow
  <2> QED BY <1>1, <2>1, Mapping DEF vars, searchVars, Search!vars, GoneNow
<1>2. CASE Next
  <2>1. PICK k \in Node : Step(k)
    BY <1>2 DEF Next, Step
  <2>2. CASE Explore(k)
    <3>1. AssignedNext = AssignedNow
      BY <1>0, <2>2, QuietWay, AssignedSame DEF MainStep, AssignWork, Explore
    <3>2. GoneNext = GoneNow
      BY <2>2 DEF Explore, mainVars, GoneNext, GoneNow
    <3>3. Search!Explore(k)
      BY <2>2, <3>1, <3>2, Mapping DEF Explore, Search!Explore, GoneNow
    <3> QED BY <3>3 DEF Search!Next
  <2>3. CASE AssignWork(k)
    <3>1. GoneNext = GoneNow
      BY <2>3 DEF AssignWork, mainVars, GoneNext, GoneNow
    <3>2. PICK r \in Node, given \in Splits(work[k]) :
           /\ r # k
           /\ AssignedNow[r] = {}
           /\ work' = [work EXCEPT ![k] = @ \ given]
           /\ AssignedNext = [AssignedNow EXCEPT ![r] = given]
           /\ explored' = explored
      BY <1>0, <2>3, AssignWay
    <3>3. Search!HandOver(k, r)
      BY <3>1, <3>2, Mapping DEF Search!HandOver, Splits, GoneNow
    <3> QED BY <3>3 DEF Search!Next
  <2>4. CASE ReceiveAssignment(k)
    <3>1. GoneNext = GoneNow
      BY <2>4 DEF ReceiveAssignment, GoneNext, GoneNow
    <3>2. /\ Right[k] \in Node
          /\ work[Right[k]] = {}
          /\ work' = [work EXCEPT ![Right[k]] = AssignedNow[Right[k]]]
          /\ AssignedNext = [AssignedNow EXCEPT ![Right[k]] = {}]
          /\ explored' = explored
      BY <2>4, SetWorkWay
    <3>3. CASE AssignedNow[Right[k]] # {}
      <4>1. Search!Receive(Right[k])
        BY <3>1, <3>2, <3>3, Mapping DEF Search!Receive, GoneNow
      <4> QED BY <3>2, <4>1 DEF Search!Next
    <3>4. CASE AssignedNow[Right[k]] = {}
      <4>1. work' = work
        BY <1>0, <3>2, <3>4 DEF TypeOK
      <4>2. AssignedNext = AssignedNow
        BY <3>2, <3>4 DEF AssignedNow, AssignedOf
      <4> QED BY <3>1, <3>2, <4>1, <4>2, Mapping DEF Search!vars, GoneNow
    <3> QED BY <3>3, <3>4
  <2>5. CASE Leave(k)
    <3>1. AssignedNext = AssignedNow
      BY <1>0, <2>5, QuietWay, AssignedSame DEF MainStep, AssignWork, Leave
    <3>2. k \notin GoneNow /\ GoneNext = GoneNow \cup {k} /\ UNCHANGED <<work, explored>>
      BY <1>0, <2>5 DEF Leave, TypeOK, GoneNext, GoneNow, searchVars
    <3>3. Search!Leave(k)
      BY <3>1, <3>2, Mapping DEF Search!Leave, GoneNow
    <3> QED BY <3>3 DEF Search!Next
  <2>6. CASE Deliver(k) /\ ~ReceiveAssignment(k) /\ ~Leave(k) /\ ~Explore(k) /\ ~AssignWork(k)
    <3>1. GoneNext = GoneNow /\ UNCHANGED <<work, explored>>
      BY <1>0, <2>1, <2>6, GoneStep, WorkKept
    <3>2. CASE AssignedNext = AssignedNow
      BY <3>1, <3>2, Mapping DEF Search!vars, GoneNow
    <3>3. CASE /\ Right[k] \in GoneNow
               /\ AssignedNext = [AssignedNow EXCEPT ![Right[k]] = {}]
      <4>1. Search!Lose(Right[k])
        BY <3>1, <3>3, Mapping DEF Search!Lose, GoneNow
      <4> QED BY <4>1, RingAssumption DEF Search!Next
    <3> QED BY <1>0, <2>6, <3>2, <3>3, DeliverOther
  <2>7. CASE /\ FinishHandler(k) \/ Start(k) \/ MainStep(k) \/ SpuriousWakeup(k)
             /\ ~ReceiveAssignment(k) /\ ~Leave(k) /\ ~Explore(k) /\ ~AssignWork(k)
    <3>1. GoneNext = GoneNow /\ UNCHANGED <<work, explored>>
      BY <1>0, <2>1, <2>7, GoneStep, WorkKept
    <3>2. AssignedNext = AssignedNow
      BY <1>0, <2>7, QuietWay, FinishWay, AssignedSame
    <3> QED BY <3>1, <3>2, Mapping DEF Search!vars, GoneNow
  <2> QED BY <2>1, <2>2, <2>3, <2>4, <2>5, <2>6, <2>7 DEF Step
<1> QED BY <1>1, <1>2

\* In every ring and schedule, with any number of waits that return early,
\* requests, refusals, relays and tokens do no more to the work than SharedSearch
\* allows: it is split and handed to one node at a time, which receives it on
\* empty stacks, and only a node that has left loses what was on its way to it.
THEOREM Refinement == Spec => ImplementsSharedSearch
<1>1. Init /\ [][Next]_vars => []UnitsInv
  BY UnitsInvInit, UnitsInvStep, PTL
<1> QED BY <1>1, RefinementInit, RefinementStep, PTL DEF Spec, ImplementsSharedSearch, Search!Spec

=============================================================================
