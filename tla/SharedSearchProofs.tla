-------------------------- MODULE SharedSearchProofs --------------------------
(***************************************************************************)
(* What SharedSearch promises: every branch is in one place, and none is   *)
(* lost unless a node has gone.                                            *)
(***************************************************************************)
EXTENDS SharedSearch, TLAPS

Types ==
  /\ stacks \in [Node -> SUBSET Units]
  /\ assigned \in [Node -> SUBSET Units]
  /\ explored \in SUBSET Units
  /\ gone \in SUBSET Node

SearchInv == Types /\ OnePlace /\ NothingLost

LEMMA SearchInvInit ==
  ASSUME Initiator \in Node, Init
  PROVE  SearchInv
BY DEF Init, SearchInv, Types, OnePlace, NothingLost

LEMMA ExploreKeeps ==
  ASSUME SearchInv, NEW n \in Node, Explore(n)
  PROVE  SearchInv'
<1>1. PICK u \in stacks[n] :
        /\ stacks' = [stacks EXCEPT ![n] = @ \ {u}]
        /\ explored' = explored \cup {u}
        /\ assigned' = assigned /\ gone' = gone
  BY DEF Explore
<1>2. /\ Types /\ stacks'[n] = stacks[n] \ {u} /\ u \in Units
      /\ \A k \in Node \ {n} : stacks'[k] = stacks[k]
  BY <1>1 DEF SearchInv, Types
<1>3. Types'
  BY <1>1, <1>2 DEF Types
<1>4. OnePlace'
  BY <1>1, <1>2 DEF SearchInv, OnePlace
<1>5. NothingLost'
  BY <1>1, <1>2 DEF SearchInv, NothingLost
<1> QED BY <1>3, <1>4, <1>5 DEF SearchInv

LEMMA HandOverKeeps ==
  ASSUME SearchInv, NEW n \in Node, NEW m \in Node, HandOver(n, m)
  PROVE  SearchInv'
<1>1. PICK given \in (SUBSET stacks[n]) \ {{}, stacks[n]} :
        /\ stacks' = [stacks EXCEPT ![n] = @ \ given]
        /\ assigned' = [assigned EXCEPT ![m] = given]
        /\ explored' = explored /\ gone' = gone
  BY DEF HandOver
<1>2. /\ Types /\ given \subseteq stacks[n] /\ assigned[m] = {}
      /\ stacks'[n] = stacks[n] \ given /\ assigned'[m] = given
      /\ \A k \in Node \ {n} : stacks'[k] = stacks[k]
      /\ \A k \in Node \ {m} : assigned'[k] = assigned[k]
  BY <1>1 DEF SearchInv, Types, HandOver
<1>3. Types'
  BY <1>1, <1>2 DEF Types
<1>4. OnePlace'
  <2>1. ASSUME NEW k \in Node
        PROVE  /\ stacks'[k] \subseteq stacks[k] /\ stacks'[k] \cap given = {}
               /\ assigned'[k] = IF k = m THEN given ELSE assigned[k]
               /\ given \cap (assigned[k] \cup explored) = {}
               /\ stacks'[k] \cap explored = {}
    BY <1>2 DEF SearchInv, OnePlace
  <2>2. ASSUME NEW k \in Node, NEW l \in Node
        PROVE  /\ stacks'[k] \cap assigned'[l] = {}
               /\ assigned'[k] \cap explored = {}
               /\ k # l => stacks'[k] \cap stacks'[l] = {} /\ assigned'[k] \cap assigned'[l] = {}
    BY <2>1 DEF SearchInv, OnePlace
  <2> QED BY <1>1, <2>1, <2>2 DEF OnePlace
<1>5. NothingLost'
  BY <1>1, <1>2 DEF SearchInv, NothingLost
<1> QED BY <1>3, <1>4, <1>5 DEF SearchInv

LEMMA ReceiveKeeps ==
  ASSUME SearchInv, NEW n \in Node, Receive(n)
  PROVE  SearchInv'
<1>1. /\ Types /\ stacks[n] = {}
      /\ stacks'[n] = assigned[n] /\ assigned'[n] = {}
      /\ \A k \in Node \ {n} : stacks'[k] = stacks[k] /\ assigned'[k] = assigned[k]
      /\ explored' = explored /\ gone' = gone
      /\ stacks' = [stacks EXCEPT ![n] = assigned[n]]
      /\ assigned' = [assigned EXCEPT ![n] = {}]
  BY DEF SearchInv, Types, Receive
<1>2. Types'
  BY <1>1 DEF Types
<1>3. OnePlace'
  BY <1>1 DEF SearchInv, OnePlace
<1>4. NothingLost'
  BY <1>1 DEF SearchInv, NothingLost
<1> QED BY <1>2, <1>3, <1>4 DEF SearchInv

LEMMA LoseKeeps ==
  ASSUME SearchInv, NEW n \in Node, Leave(n) \/ Lose(n)
  PROVE  SearchInv'
<1>1. /\ Types /\ UNCHANGED <<stacks, explored>> /\ n \in gone'
      /\ \A k \in Node : assigned'[k] \subseteq assigned[k]
      /\ Types'
  BY DEF SearchInv, Types, Leave, Lose
<1>2. OnePlace'
  BY <1>1 DEF SearchInv, OnePlace
<1>3. NothingLost'
  BY <1>1 DEF NothingLost
<1> QED BY <1>1, <1>2, <1>3 DEF SearchInv

\* SharedSearch loses no branch before a node goes, and duplicates none: what
\* WorkSharing implements is a search in which every branch has one place.
THEOREM SearchKeepsAll ==
  ASSUME Initiator \in Node
  PROVE  Spec => [](NothingLost /\ OnePlace)
<1>1. Init => SearchInv
  BY SearchInvInit
<1>2. SearchInv /\ [Next]_vars => SearchInv'
  <2> SUFFICES ASSUME SearchInv, [Next]_vars
               PROVE  SearchInv'
    OBVIOUS
  <2>1. CASE Next
    BY <2>1, ExploreKeeps, HandOverKeeps, ReceiveKeeps, LoseKeeps DEF Next
  <2>2. CASE UNCHANGED vars
    BY <2>2 DEF vars, SearchInv, Types, OnePlace, NothingLost
  <2> QED BY <2>1, <2>2
<1>3. SearchInv => NothingLost /\ OnePlace
  BY DEF SearchInv
<1> QED BY <1>1, <1>2, <1>3, PTL DEF Spec

=============================================================================
