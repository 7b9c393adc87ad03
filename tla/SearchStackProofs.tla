-------------------------- MODULE SearchStackProofs --------------------------
(***************************************************************************)
(* The search, for every instance and every number of nodes: what a split  *)
(* does to the stacks (SplitsDivide), that they never outgrow their arrays *)
(* (TypeOK), that branching and bounding lose no configuration that would  *)
(* improve on the best one found (Covered), and that the search does not   *)
(* end before the optimum is found (SolvesKnapsack), though a node may be  *)
(* told of a worse solution than its own and take it.                      *)
(*                                                                         *)
(* Sums over sets of items are the part that takes induction.  It is done  *)
(* by the least counterexample, NoneWithoutLeast.                          *)
(***************************************************************************)
EXTENDS SearchStack, FiniteSetTheorems, WellFoundedInduction, SequenceTheorems, TLAPS

N == instance.instanceSize

StackInv ==
  /\ instance \in Instances
  /\ stack \in [Node -> Seq(Level)]

LEMMA SizeIsNat == ASSUME instance \in Instances PROVE N \in Nat \ {0}
BY InstanceAssumption DEF InstanceAssumption, N

\* Numbers without a least one are none at all: the form in which induction is
\* used below.
LEMMA NoneWithoutLeast ==
  ASSUME NEW S \in SUBSET Nat, \A n \in S : \E m \in S : m < n
  PROVE  S = {}
<1> SUFFICES ASSUME S # {} PROVE FALSE
  OBVIOUS
<1> DEFINE R == OpToRel(<, Nat)
<1>1. IsWellFoundedOn(R, Nat)
  BY NatLessThanWellFounded
<1>2. \A x, y \in Nat : <<y, x>> \in R <=> y < x
  BY DEF OpToRel
<1> HIDE DEF R
<1>3. PICK x \in S : \A y \in S : ~(<<y, x>> \in R)
  BY <1>1, WFMin
<1>4. \A y \in S : ~(y < x)
  BY <1>2, <1>3, Zenon
<1> QED BY <1>4

\* The least element of a set of numbers is one of them.
LEMMA MinIsElement ==
  ASSUME NEW S \in SUBSET Nat, S # {}
  PROVE  Min(S) \in S /\ \A y \in S : Min(S) <= y
<1>1. PICK x \in S : \A m \in S : ~(m < x)
  BY NoneWithoutLeast
<1>2. \A y \in S : x <= y
  BY <1>1
<1> QED BY <1>2 DEF Min

LEMMA StackInvInit == Init => StackInv
<1> SUFFICES ASSUME Init PROVE StackInv
  OBVIOUS
<1>1. instance \in Instances
  BY DEF Init
<1>2. Root \in Level
  BY <1>1, SizeIsNat DEF Root, Level, Item, N
<1> QED BY <1>1, <1>2 DEF Init, StackInv

-----------------------------------------------------------------------------
(***************************************************************************)
(* The stacks keep their type                                              *)
(***************************************************************************)
\* The item that is taken next.
LEMMA BranchTaken ==
  ASSUME StackInv, NEW level \in Level, Branches(level) # {}
  PROVE  /\ Min(Branches(level)) \in Item
         /\ Min(Branches(level)) \in Interval(level)
<1>1. Branches(level) \subseteq Interval(level)
  BY DEF Branches
<1>2. /\ level.from \in Nat /\ level.to \in Nat /\ level.to <= N /\ N \in Nat
  BY SizeIsNat DEF StackInv, Level, N
<1>3. Branches(level) \subseteq Nat /\ Interval(level) \subseteq Item
  BY <1>1, <1>2 DEF Interval, Item, N
<1>4. Min(Branches(level)) \in Branches(level)
  BY <1>3, MinIsElement
<1> QED BY <1>1, <1>3, <1>4

LEMMA ExpandKeeps ==
  ASSUME StackInv, NEW n \in Node, Expand(n)
  PROVE  StackInv'
<1> DEFINE s == stack[n]
           level == Top(s)
           i == Min(Branches(level))
<1>1. /\ s \in Seq(Level) /\ s # <<>> /\ Len(s) \in Nat \ {0} /\ level = s[Len(s)] /\ level \in Level
  BY DEF StackInv, Expand, Top
<1>2. /\ Branches(level) # {}
      /\ stack' = [stack EXCEPT ![n] = Append([s EXCEPT ![Len(s)] = Nudged(level)], Child(level, i))]
      /\ instance' = instance
  BY <1>1 DEF Expand, evaluate, StackInv
<1> HIDE DEF level, i, s
<1>3. i \in Item /\ i \in Interval(level)
  BY <1>1, <1>2, BranchTaken DEF i
<1>4. N \in Nat
  BY SizeIsNat DEF StackInv
<1>5. Nudged(level) \in Level
  <2>1. level.from < level.to
    BY <1>1, <1>3 DEF Interval, Level
  <2> QED BY <1>1, <1>4, <2>1 DEF Nudged, Level, N
<1>6. Child(level, i) \in Level
  BY <1>1, <1>3, <1>4 DEF Child, Level, Item, N
<1>7. [s EXCEPT ![Len(s)] = Nudged(level)] \in Seq(Level)
  BY <1>1, <1>5, ExceptSeq
<1>8. stack' \in [Node -> Seq(Level)]
  BY <1>2, <1>6, <1>7, AppendProperties DEF StackInv
<1> QED BY <1>2, <1>8 DEF StackInv, Level, Item

LEMMA BacktrackKeeps ==
  ASSUME StackInv, NEW n \in Node, Backtrack(n)
  PROVE  StackInv'
<1> DEFINE s == stack[n]
           popped == SubSeq(s, 1, Len(s) - 1)
<1>1. s \in Seq(Level) /\ stack' = [stack EXCEPT ![n] = popped] /\ instance' = instance
  BY DEF Backtrack, StackInv
<1>2. popped \in Seq(Level)
  BY <1>1, SubSeqProperties, ElementOfSeq
<1> HIDE DEF popped
<1> QED BY <1>1, <1>2 DEF StackInv, Level, Item

-----------------------------------------------------------------------------
(***************************************************************************)
(* splitWork and setWork                                                   *)
(***************************************************************************)
\* Nine tenths of two branches or more are one at least, and not all of them.
LEMMA CutIsInside ==
  ASSUME StackInv, NEW level \in Level, branchCount(level) >= 2
  PROVE  cut(level) \in level.from + 1 .. level.to - 1
<1>1. level.from \in Nat /\ level.to \in Nat
  BY SizeIsNat DEF StackInv, Level, N
<1> DEFINE b == branchCount(level)
           given == (b * 9) \div 10
<1>2. b \in Nat /\ b >= 2 /\ b = level.to - level.from
  BY <1>1 DEF branchCount
<1> HIDE DEF b
<1>3. given \in Nat /\ given >= 1 /\ given <= b - 1
  BY <1>2
<1>4. cut(level) = level.to - given
  BY DEF cut, b
<1> HIDE DEF given
<1> QED BY <1>1, <1>2, <1>3, <1>4

LEMMA CutLevels ==
  ASSUME StackInv, NEW level \in Level, NEW c \in level.from + 1 .. level.to - 1
  PROVE  /\ [level EXCEPT !.to = c] \in Level
         /\ [level EXCEPT !.from = c] \in Level
<1>1. level.from \in 0 .. N /\ level.to \in 0 .. N /\ N \in Nat
  BY SizeIsNat DEF StackInv, Level, N
<1>2. c \in 0 .. N
  BY <1>1
<1> QED BY <1>2 DEF Level, N

\* The unit that is sent: its last level is cut.
LEMMA UnitIs ==
  ASSUME StackInv, NEW s \in Seq(Level), NEW k \in 1 .. Len(s), NEW c
  PROVE  Unit(s, k, c, s[k].to) = [SubSeq(s, 1, k) EXCEPT ![k] = [s[k] EXCEPT !.from = c]]
<1> DEFINE above == SubSeq(s, 1, k)
<1>1. above \in Seq(Level) /\ Len(above) = k /\ above[k] = s[k] /\ s[k] \in Level
  BY SubSeqProperties, ElementOfSeq
<1>2. Unit(s, k, c, s[k].to) = [[above EXCEPT ![k].from = c] EXCEPT ![k].to = s[k].to]
  BY DEF Unit
<1> HIDE DEF above
<1>3. /\ k \in DOMAIN above
      /\ [above EXCEPT ![k].from = c] = [above EXCEPT ![k] = [above[k] EXCEPT !.from = c]]
  BY <1>1
<1> DEFINE once == [above EXCEPT ![k] = [above[k] EXCEPT !.from = c]]
<1>4. once[k] = [s[k] EXCEPT !.from = c] /\ DOMAIN once = DOMAIN above
  BY <1>1, <1>3
<1>5. [once[k] EXCEPT !.to = s[k].to] = [s[k] EXCEPT !.from = c]
  BY <1>1, <1>4 DEF Level
<1>6. [once EXCEPT ![k].to = s[k].to] = [once EXCEPT ![k] = [once[k] EXCEPT !.to = s[k].to]]
  BY <1>3, <1>4
<1>7. [once EXCEPT ![k] = [s[k] EXCEPT !.from = c]] = [above EXCEPT ![k] = [s[k] EXCEPT !.from = c]]
  BY <1>1, <1>3, <1>4
<1> QED BY <1>2, <1>3, <1>5, <1>6, <1>7 DEF above

\* Stack s is divided at level k into what is kept and what is given.
Divided(s, kept, given, k) ==
  LET c == cut(s[k]) IN
  /\ k \in 1 .. Len(s)
  /\ c \in s[k].from + 1 .. s[k].to - 1
  /\ kept \in Seq(Level) /\ Len(kept) = Len(s)
  /\ \A j \in 1 .. Len(s) : kept[j] = IF j = k THEN [s[k] EXCEPT !.to = c] ELSE s[j]
  /\ given \in Seq(Level) /\ Len(given) = k
  /\ \A j \in 1 .. k : given[j] = IF j = k THEN [s[k] EXCEPT !.from = c] ELSE s[j]

LEMMA SplitStacks ==
  ASSUME StackInv, NEW n \in Node, NEW m \in Node \ {n}, SplitWork(n, m)
  PROVE  /\ \E k \in Nat : Divided(stack[n], stack'[n], stack'[m], k)
         /\ stack' = [stack EXCEPT ![n] = stack'[n], ![m] = stack'[m]]
         /\ instance' = instance
<1> DEFINE s == stack[n]
           k == Min(Splittable(s))
           c == cut(s[k])
           kept == [s EXCEPT ![k] = [s[k] EXCEPT !.to = c]]
           given == workToSend(s, k)
<1>1. s \in Seq(Level) /\ DOMAIN s = 1 .. Len(s) /\ Len(s) \in Nat
  BY DEF StackInv
<1>2. k \in DOMAIN s /\ branchCount(s[k]) >= 2
  <2>1. Splittable(s) \subseteq Nat /\ Splittable(s) # {}
    BY <1>1 DEF Splittable, Shallow, SplitWork
  <2>2. k \in Splittable(s)
    BY <2>1, MinIsElement
  <2> HIDE DEF k
  <2> QED BY <2>2 DEF Splittable, Shallow
<1>3. /\ stack' = [stack EXCEPT ![n] = kept, ![m] = given]
      /\ instance' = instance
  BY <1>1 DEF SplitWork
<1>4. stack'[n] = kept /\ stack'[m] = given
  BY <1>3 DEF StackInv
<1>5. stack' = [stack EXCEPT ![n] = stack'[n], ![m] = stack'[m]]
  BY <1>3, <1>4
<1> HIDE DEF k, s
<1>6. s[k] \in Level /\ k \in 1 .. Len(s) /\ k \in Nat
  BY <1>1, <1>2
<1>7. c \in s[k].from + 1 .. s[k].to - 1
  BY <1>2, <1>6, CutIsInside
<1> HIDE DEF c
<1>8. [s[k] EXCEPT !.to = c] \in Level /\ [s[k] EXCEPT !.from = c] \in Level
  BY <1>6, <1>7, CutLevels
<1>9. /\ kept \in Seq(Level) /\ Len(kept) = Len(s)
      /\ \A j \in 1 .. Len(s) : kept[j] = IF j = k THEN [s[k] EXCEPT !.to = c] ELSE s[j]
  BY <1>1, <1>6, <1>8, ExceptSeq
<1>10. /\ given \in Seq(Level) /\ Len(given) = k
       /\ \A j \in 1 .. k : given[j] = IF j = k THEN [s[k] EXCEPT !.from = c] ELSE s[j]
  <2> DEFINE above == SubSeq(s, 1, k)
             last == [s[k] EXCEPT !.from = c]
  <2>1. above \in Seq(Level) /\ Len(above) = k /\ \A j \in 1 .. k : above[j] = s[j]
    BY <1>1, <1>6, SubSeqProperties
  <2>2. given = [above EXCEPT ![k] = last]
    <3>1. given = Unit(s, k, c, s[k].to)
      BY DEF workToSend, c
    <3> HIDE DEF given
    <3>2. \A x : Unit(s, k, x, s[k].to) = [SubSeq(s, 1, k) EXCEPT ![k] = [s[k] EXCEPT !.from = x]]
      BY <1>1, <1>6, UnitIs
    <3> QED BY <3>1, <3>2
  <2>3. last \in Level
    BY <1>8
  <2> HIDE DEF above, last, given
  <2>4. /\ given \in Seq(Level) /\ Len(given) = k
        /\ \A j \in 1 .. k : given[j] = IF j = k THEN last ELSE above[j]
    BY <1>6, <2>1, <2>2, <2>3, ExceptSeq
  <2> QED BY <2>1, <2>4 DEF last
<1> HIDE DEF kept, given
<1>11. Divided(s, kept, given, k)
  BY <1>6, <1>7, <1>9, <1>10 DEF Divided, c
<1> QED BY <1>3, <1>4, <1>5, <1>6, <1>11 DEF s

LEMMA SplitKeeps ==
  ASSUME StackInv, NEW n \in Node, NEW m \in Node \ {n}, SplitWork(n, m)
  PROVE  StackInv'
<1>1. /\ stack'[n] \in Seq(Level) /\ stack'[m] \in Seq(Level)
      /\ stack' = [stack EXCEPT ![n] = stack'[n], ![m] = stack'[m]]
      /\ instance' = instance
  BY SplitStacks DEF Divided
<1>2. stack' \in [Node -> Seq(Level)]
  BY <1>1 DEF StackInv
<1> QED BY <1>1, <1>2 DEF StackInv, Level, Item

LEMMA StackInvNext == StackInv /\ [Next]_vars => StackInv'
<1> SUFFICES ASSUME StackInv, [Next]_vars PROVE StackInv'
  OBVIOUS
<1>1. ASSUME NEW n \in Node, DFS(n) PROVE StackInv'
  BY <1>1, ExpandKeeps, BacktrackKeeps DEF DFS
<1>2. ASSUME NEW n \in Node, Synchronize(n) \/ SplitFails(n) PROVE StackInv'
  BY <1>2 DEF Synchronize, SplitFails, StackInv, Level, Item
<1>3. ASSUME NEW n \in Node, NEW m \in Node \ {n}, SplitWork(n, m) PROVE StackInv'
  BY <1>3, SplitKeeps
<1>4. CASE UNCHANGED vars
  BY <1>4 DEF vars, StackInv, Level, Item
<1> QED BY <1>1, <1>2, <1>3, <1>4 DEF Next

\* Where the first additional item is in an interval, it is on one side of a cut.
LEMMA BelowCut ==
  ASSUME StackInv, NEW level \in Level, NEW c \in level.from + 1 .. level.to - 1, NEW config
  PROVE  Below(config, level) <=>
           \/ Below(config, [level EXCEPT !.to = c])
           \/ Below(config, [level EXCEPT !.from = c])
<1> DEFINE left == [level EXCEPT !.to = c]
           right == [level EXCEPT !.from = c]
<1>1. level.from \in Nat /\ level.to \in Nat /\ c \in Int
  BY SizeIsNat DEF StackInv, Level, N
<1>2. /\ left.config = level.config /\ left.from = level.from /\ left.to = c
      /\ right.config = level.config /\ right.from = c /\ right.to = level.to
  BY DEF Level
<1> HIDE DEF left, right
<1>3. Interval(level) = Interval(left) \cup Interval(right)
  BY <1>1, <1>2 DEF Interval
<1>4. Below(config, level) <=> Below(config, left) \/ Below(config, right)
  BY <1>2, <1>3 DEF Below
<1> QED BY <1>4 DEF left, right

\* Nothing that was ahead of the divided stack is lost, and nothing is added.
LEMMA DividedAhead ==
  ASSUME StackInv, NEW s \in Seq(Level), NEW kept, NEW given, NEW k, Divided(s, kept, given, k)
  PROVE  Ahead(kept) \cup Ahead(given) = Ahead(s)
<1> DEFINE c == cut(s[k])
<1>1. /\ k \in 1 .. Len(s) /\ k <= Len(s) /\ k \in Nat /\ Len(s) \in Nat
      /\ DOMAIN s = 1 .. Len(s) /\ DOMAIN kept = 1 .. Len(s) /\ DOMAIN given = 1 .. k
      /\ c \in s[k].from + 1 .. s[k].to - 1
      /\ s[k] \in Level
  BY ElementOfSeq DEF Divided
<1>2. /\ \A j \in 1 .. Len(s) : kept[j] = IF j = k THEN [s[k] EXCEPT !.to = c] ELSE s[j]
      /\ \A j \in 1 .. k : given[j] = IF j = k THEN [s[k] EXCEPT !.from = c] ELSE s[j]
  BY DEF Divided
<1> HIDE DEF c
<1>3. ASSUME NEW config
      PROVE  (\E j \in DOMAIN s : Below(config, s[j]))
               <=> \/ \E j \in DOMAIN kept : Below(config, kept[j])
                   \/ \E j \in DOMAIN given : Below(config, given[j])
  <2>1. Below(config, s[k]) <=> Below(config, kept[k]) \/ Below(config, given[k])
    BY <1>1, <1>2, BelowCut
  <2>2. \A j \in 1 .. Len(s) : j # k => kept[j] = s[j]
    BY <1>2
  <2>3. \A j \in 1 .. k : j # k => given[j] = s[j] /\ j \in 1 .. Len(s)
    BY <1>1, <1>2
  <2>4. k \in DOMAIN kept /\ k \in DOMAIN given /\ k \in DOMAIN s
    BY <1>1
  <2> QED BY <1>1, <2>1, <2>2, <2>3, <2>4, Zenon
<1> QED BY <1>3 DEF Ahead

\* Both parts of the level that is cut have a branch, and they share none.
LEMMA DividedParts ==
  ASSUME StackInv, NEW s \in Seq(Level), NEW kept, NEW given, NEW k, Divided(s, kept, given, k)
  PROVE  LET sent == Interval(Top(given))
             left == Interval(kept[Len(given)])
         IN  sent # {} /\ left # {} /\ sent \cap left = {}
<1> DEFINE c == cut(s[k])
<1>1. /\ k \in 1 .. Len(s) /\ s[k] \in Level /\ Len(given) = k
      /\ c \in s[k].from + 1 .. s[k].to - 1
      /\ kept[k] = [s[k] EXCEPT !.to = c] /\ given[k] = [s[k] EXCEPT !.from = c]
  <2>1. /\ k \in 1 .. Len(s) /\ Len(given) = k /\ c \in s[k].from + 1 .. s[k].to - 1
        /\ \A j \in 1 .. Len(s) : kept[j] = IF j = k THEN [s[k] EXCEPT !.to = c] ELSE s[j]
        /\ \A j \in 1 .. k : given[j] = IF j = k THEN [s[k] EXCEPT !.from = c] ELSE s[j]
    BY DEF Divided
  <2> HIDE DEF c
  <2>2. k \in 1 .. k /\ s[k] \in Level
    BY <2>1, ElementOfSeq
  <2> QED BY <2>1, <2>2
<1> HIDE DEF c
<1>2. s[k].from \in Nat /\ s[k].to \in Nat
  BY <1>1, SizeIsNat DEF StackInv, Level, N
<1>3. Interval(given[k]) = c .. s[k].to - 1 /\ Interval(kept[k]) = s[k].from .. c - 1
  BY <1>1 DEF Interval, Level
<1>4. c \in c .. s[k].to - 1 /\ s[k].from \in s[k].from .. c - 1
  BY <1>1, <1>2
<1>5. (c .. s[k].to - 1) \cap (s[k].from .. c - 1) = {}
  BY <1>1, <1>2
<1> QED BY <1>1, <1>3, <1>4, <1>5 DEF Top

\* SplitsDivide, for every instance, every stack the search can have built and
\* any number of nodes: splitWork and setWork (Computation.cpp:153-217) neither
\* lose nor invent a configuration, and cut a level into two parts.
THEOREM SplitsAlwaysDivide == Spec => SplitsDivide
<1> DEFINE Divides ==
      \A n \in Node : \A m \in Node \ {n} :
       SplitWork(n, m) =>
         /\ Ahead(stack'[n]) \cup Ahead(stack'[m]) = Ahead(stack[n])
         /\ LET given == Interval(Top(stack'[m]))
                kept == Interval(stack'[n][Len(stack'[m])])
            IN  given # {} /\ kept # {} /\ given \cap kept = {}
<1>1. StackInv /\ [Next]_vars => [Divides]_vars
  <2> SUFFICES ASSUME StackInv, NEW n \in Node, NEW m \in Node \ {n}, SplitWork(n, m)
               PROVE  /\ Ahead(stack'[n]) \cup Ahead(stack'[m]) = Ahead(stack[n])
                      /\ LET given == Interval(Top(stack'[m]))
                             kept == Interval(stack'[n][Len(stack'[m])])
                         IN  given # {} /\ kept # {} /\ given \cap kept = {}
    OBVIOUS
  <2>1. PICK k \in Nat : Divided(stack[n], stack'[n], stack'[m], k)
    BY SplitStacks
  <2>2. stack[n] \in Seq(Level)
    BY DEF StackInv
  <2> QED BY <2>1, <2>2, DividedAhead, DividedParts
<1> QED BY <1>1, StackInvInit, StackInvNext, PTL DEF Spec, SplitsDivide

-----------------------------------------------------------------------------
(***************************************************************************)
(* Sums over finite sets                                                   *)
(***************************************************************************)
Some(s) == CHOOSE x \in s : TRUE

LEMMA SomeIsElement == ASSUME NEW s, s # {} PROVE Some(s) \in s
BY DEF Some

\* The sum of w over a set, as CostOf and WeightOf compute it ...
Total(w, S) == MapThenSumSet(LAMBDA i : w[i], S)

\* ... and the function on the subsets of S they compute it by.
Adds(w, S, g) ==
  g = [s \in SUBSET S |-> IF s = {} THEN 0 ELSE w[Some(s)] + g[s \ {Some(s)}]]

LEMMA TotalIs ==
  ASSUME NEW w, NEW S
  PROVE  Total(w, S) = (CHOOSE g : Adds(w, S, g))[S]
BY Zenon DEF Total, MapThenSumSet, MapThenFoldSet, Adds, Some

\* What is left when an element is taken away.
LEMMA OneLess ==
  ASSUME NEW U, IsFiniteSet(U), NEW s \in SUBSET U, NEW x \in s
  PROVE  /\ s \ {x} \in SUBSET U /\ IsFiniteSet(s) /\ Cardinality(s) \in Nat \ {0}
         /\ Cardinality(s \ {x}) \in Nat /\ Cardinality(s \ {x}) = Cardinality(s) - 1
<1>1. IsFiniteSet(s) /\ Cardinality(s) \in Nat
  BY FS_Subset, FS_CardinalityType
<1>2. IsFiniteSet(s \ {x}) /\ Cardinality(s \ {x}) = Cardinality(s) - 1
  BY <1>1, FS_RemoveElement
<1>3. Cardinality(s \ {x}) \in Nat
  BY <1>2, FS_CardinalityType
<1> QED BY <1>1, <1>2, <1>3

Upto(U, n) == {s \in SUBSET U : Cardinality(s) <= n}

AddsUpto(w, U, n, g) ==
  /\ g \in [Upto(U, n) -> Nat]
  /\ \A s \in Upto(U, n) : g[s] = IF s = {} THEN 0 ELSE w[Some(s)] + g[s \ {Some(s)}]

LEMMA AddsUptoExists ==
  ASSUME NEW U, IsFiniteSet(U), NEW w, \A x \in U : w[x] \in Nat
  PROVE  \A n \in Nat : \E g : AddsUpto(w, U, n, g)
<1> DEFINE Bad == {n \in Nat : ~ \E g : AddsUpto(w, U, n, g)}
<1>1. ASSUME NEW n \in Bad PROVE \E m \in Bad : m < n
  <2>1. n # 0
    <3> SUFFICES ASSUME n = 0 PROVE FALSE
      OBVIOUS
    <3> DEFINE g == [s \in Upto(U, 0) |-> 0]
    <3>1. \A s \in Upto(U, 0) : s = {}
      BY FS_Subset, FS_CardinalityType, FS_EmptySet DEF Upto
    <3>2. AddsUpto(w, U, 0, g)
      BY <3>1 DEF AddsUpto
    <3> QED BY <3>2
  <2>2. n - 1 \in Nat /\ n \in Nat
    BY <2>1
  <2>3. ASSUME NEW g, AddsUpto(w, U, n - 1, g) PROVE FALSE
    <3> DEFINE h == [s \in Upto(U, n) |->
                       IF s = {} THEN 0 ELSE w[Some(s)] + g[s \ {Some(s)}]]
    <3>1. ASSUME NEW s \in Upto(U, n), s # {}
          PROVE  Some(s) \in U /\ s \ {Some(s)} \in Upto(U, n - 1) /\ s \ {Some(s)} \in Upto(U, n)
      <4>1. Some(s) \in s /\ s \in SUBSET U /\ Cardinality(s) <= n
        BY <3>1, SomeIsElement DEF Upto
      <4>2. /\ s \ {Some(s)} \in SUBSET U /\ Cardinality(s) \in Nat
            /\ Cardinality(s \ {Some(s)}) = Cardinality(s) - 1
        BY <4>1, OneLess
      <4> QED BY <2>2, <4>1, <4>2 DEF Upto
    <3>2. h \in [Upto(U, n) -> Nat]
      <4>1. ASSUME NEW s \in Upto(U, n) PROVE h[s] \in Nat
        <5>1. CASE s = {}
          BY <5>1
        <5>2. CASE s # {}
          BY <3>1, <2>3, <5>2 DEF AddsUpto
        <5> QED BY <5>1, <5>2
      <4> QED BY <4>1
    <3>3. \A s \in Upto(U, n - 1) : s \in Upto(U, n) /\ h[s] = g[s]
      <4> SUFFICES ASSUME NEW s \in Upto(U, n - 1)
                   PROVE  s \in Upto(U, n) /\ h[s] = g[s]
        OBVIOUS
      <4>1. s \in SUBSET U /\ Cardinality(s) \in Nat /\ Cardinality(s) <= n - 1
        BY FS_Subset, FS_CardinalityType DEF Upto
      <4>2. s \in Upto(U, n)
        BY <2>2, <4>1 DEF Upto
      <4> QED BY <2>3, <4>2 DEF AddsUpto
    <3>4. AddsUpto(w, U, n, h)
      BY <3>1, <3>2, <3>3 DEF AddsUpto
    <3> QED BY <3>4
  <2> QED BY <2>2, <2>3
<1>2. Bad = {}
  <2> HIDE DEF Bad
  <2>1. Bad \in SUBSET Nat
    BY DEF Bad
  <2> QED BY <1>1, <2>1, NoneWithoutLeast
<1> QED BY <1>2

LEMMA AddsExists ==
  ASSUME NEW S, IsFiniteSet(S), NEW w, \A x \in S : w[x] \in Nat
  PROVE  \E g : Adds(w, S, g) /\ g \in [SUBSET S -> Nat]
<1> DEFINE n == Cardinality(S)
<1>1. n \in Nat /\ Upto(S, n) = SUBSET S
  BY FS_Subset, FS_CardinalityType DEF Upto
<1>2. PICK g : AddsUpto(w, S, n, g)
  BY <1>1, AddsUptoExists
<1>3. g \in [SUBSET S -> Nat]
  BY <1>1, <1>2 DEF AddsUpto
<1>4. \A s \in SUBSET S : g[s] = IF s = {} THEN 0 ELSE w[Some(s)] + g[s \ {Some(s)}]
  BY <1>1, <1>2 DEF AddsUpto
<1>5. Adds(w, S, g)
  BY <1>3, <1>4 DEF Adds
<1> QED BY <1>3, <1>5

\* The functions for a set and for a subset of it agree.
LEMMA AddsAgree ==
  ASSUME NEW U, IsFiniteSet(U), NEW T \in SUBSET U, NEW w, NEW g, NEW h, Adds(w, U, g), Adds(w, T, h)
  PROVE  \A s \in SUBSET T : g[s] = h[s]
<1> DEFINE Bad == {n \in Nat : \E s \in SUBSET T : Cardinality(s) = n /\ g[s] # h[s]}
<1>1. ASSUME NEW n \in Bad PROVE \E m \in Bad : m < n
  <2>1. PICK s \in SUBSET T : Cardinality(s) = n /\ g[s] # h[s]
    OBVIOUS
  <2>2. /\ g[s] = IF s = {} THEN 0 ELSE w[Some(s)] + g[s \ {Some(s)}]
        /\ h[s] = IF s = {} THEN 0 ELSE w[Some(s)] + h[s \ {Some(s)}]
    BY DEF Adds
  <2>3. s # {} /\ g[s \ {Some(s)}] # h[s \ {Some(s)}]
    BY <2>1, <2>2
  <2>4. /\ s \ {Some(s)} \in SUBSET T /\ Cardinality(s \ {Some(s)}) \in Nat
        /\ Cardinality(s \ {Some(s)}) < Cardinality(s)
    BY <2>3, SomeIsElement, OneLess
  <2> QED BY <2>1, <2>3, <2>4
<1>2. Bad = {}
  <2> HIDE DEF Bad
  <2>1. Bad \in SUBSET Nat
    BY DEF Bad
  <2> QED BY <1>1, <2>1, NoneWithoutLeast
<1>3. \A s \in SUBSET T : Cardinality(s) \in Nat
  BY FS_Subset, FS_CardinalityType
<1> QED BY <1>2, <1>3

LEMMA TotalStep ==
  ASSUME NEW U, IsFiniteSet(U), NEW w \in [U -> Nat], NEW S \in SUBSET U
  PROVE  /\ Total(w, S) \in Nat
         /\ S = {} => Total(w, S) = 0
         /\ S # {} => Total(w, S) = w[Some(S)] + Total(w, S \ {Some(S)})
<1> DEFINE G(s) == CHOOSE g : Adds(w, s, g)
<1>1. ASSUME NEW s \in SUBSET U
      PROVE  IsFiniteSet(s) /\ Adds(w, s, G(s)) /\ G(s)[s] = Total(w, s) /\ Total(w, s) \in Nat
  <2>1. IsFiniteSet(s) /\ \A x \in s : w[x] \in Nat
    BY FS_Subset
  <2>2. PICK g : Adds(w, s, g) /\ g \in [SUBSET s -> Nat]
    BY <2>1, AddsExists
  <2>3. Adds(w, s, G(s))
    BY <2>2
  <2>4. G(s)[s] = g[s]
    BY <2>1, <2>2, <2>3, AddsAgree
  <2> QED BY <2>1, <2>2, <2>3, <2>4, TotalIs
<1> HIDE DEF G
<1>2. G(S)[S] = IF S = {} THEN 0 ELSE w[Some(S)] + G(S)[S \ {Some(S)}]
  BY <1>1 DEF Adds
<1>3. ASSUME S # {} PROVE Total(w, S) = w[Some(S)] + Total(w, S \ {Some(S)})
  <2> DEFINE T == S \ {Some(S)}
  <2>1. T \in SUBSET S /\ T \in SUBSET U
    OBVIOUS
  <2>2. Adds(w, T, G(T)) /\ G(T)[T] = Total(w, T)
    BY <1>1, <2>1
  <2>3. G(S)[T] = G(T)[T]
    BY <1>1, <2>1, <2>2, AddsAgree
  <2> QED BY <1>1, <1>2, <1>3, <2>2, <2>3
<1> QED BY <1>1, <1>2, <1>3

\* Whatever the element that is taken first.
LEMMA TotalRemove ==
  ASSUME NEW U, IsFiniteSet(U), NEW w \in [U -> Nat]
  PROVE  \A S \in SUBSET U : \A x \in S : Total(w, S) = w[x] + Total(w, S \ {x})
<1> DEFINE Bad == {n \in Nat : \E S \in SUBSET U : \E x \in S :
                     Cardinality(S) = n /\ Total(w, S) # w[x] + Total(w, S \ {x})}
<1>1. ASSUME NEW n \in Bad PROVE \E m \in Bad : m < n
  <2>1. PICK S \in SUBSET U : \E x \in S : Cardinality(S) = n /\ Total(w, S) # w[x] + Total(w, S \ {x})
    OBVIOUS
  <2>2. PICK x \in S : Cardinality(S) = n /\ Total(w, S) # w[x] + Total(w, S \ {x})
    BY <2>1
  <2> DEFINE p == Some(S)
             A == S \ {p}
             B == S \ {x}
             C == S \ {p, x}
  <2>3. p \in S /\ Total(w, S) = w[p] + Total(w, A)
    BY <2>2, SomeIsElement, TotalStep
  <2>4. p # x
    BY <2>2, <2>3
  <2>5. x \in A /\ p \in B /\ A \ {x} = C /\ B \ {p} = C /\ C \in SUBSET U
    BY <2>3, <2>4
  <2>6. /\ A \in SUBSET U /\ Cardinality(A) \in Nat /\ Cardinality(A) = Cardinality(S) - 1
        /\ B \in SUBSET U /\ Cardinality(B) \in Nat /\ Cardinality(B) = Cardinality(S) - 1
        /\ n \in Nat /\ n - 1 \in Nat
    BY <2>2, <2>3, OneLess
  <2> HIDE DEF p, A, B, C
  <2>7. /\ Total(w, A) \in Nat /\ Total(w, B) \in Nat /\ Total(w, C) \in Nat
        /\ w[p] \in Nat /\ w[x] \in Nat
    BY <2>2, <2>3, <2>5, <2>6, TotalStep
  <2>8. Total(w, A) # w[x] + Total(w, A \ {x}) \/ Total(w, B) # w[p] + Total(w, B \ {p})
    <3> SUFFICES ASSUME Total(w, A) = w[x] + Total(w, C), Total(w, B) = w[p] + Total(w, C)
                 PROVE  FALSE
      BY <2>5
    <3>1. Total(w, S) = w[x] + Total(w, B)
      BY <2>3, <2>7
    <3> QED BY <2>2, <3>1 DEF B
  <2>9. n - 1 \in Bad
    BY <2>2, <2>5, <2>6, <2>8
  <2> HIDE DEF Bad
  <2> QED BY <2>6, <2>9
<1>2. Bad = {}
  <2> HIDE DEF Bad
  <2>1. Bad \in SUBSET Nat
    BY DEF Bad
  <2> QED BY <1>1, <2>1, NoneWithoutLeast
<1>3. \A S \in SUBSET U : Cardinality(S) \in Nat
  BY FS_Subset, FS_CardinalityType
<1> QED BY <1>2, <1>3

\* A set and the rest.
LEMMA TotalSplit ==
  ASSUME NEW U, IsFiniteSet(U), NEW w \in [U -> Nat]
  PROVE  \A B \in SUBSET U : \A A \in SUBSET B : Total(w, B) = Total(w, A) + Total(w, B \ A)
<1> DEFINE Bad == {n \in Nat : \E B \in SUBSET U : \E A \in SUBSET B :
                     Cardinality(A) = n /\ Total(w, B) # Total(w, A) + Total(w, B \ A)}
<1>1. ASSUME NEW n \in Bad PROVE \E m \in Bad : m < n
  <2>1. PICK B \in SUBSET U : \E A \in SUBSET B :
                     Cardinality(A) = n /\ Total(w, B) # Total(w, A) + Total(w, B \ A)
    OBVIOUS
  <2>2. PICK A \in SUBSET B : Cardinality(A) = n /\ Total(w, B) # Total(w, A) + Total(w, B \ A)
    BY <2>1
  <2>3. A # {}
    <3> SUFFICES ASSUME A = {} PROVE FALSE
      OBVIOUS
    <3>1. B \ A = B /\ Total(w, A) = 0 /\ Total(w, B) \in Nat
      BY TotalStep
    <3> QED BY <2>2, <3>1
  <2>4. PICK x \in A : TRUE
    BY <2>3
  <2> DEFINE C == A \ {x}
             D == B \ {x}
  <2>5. D \in SUBSET U /\ C \in SUBSET D /\ D \ C = B \ A /\ A \in SUBSET U /\ x \in B /\ C \in SUBSET U
    OBVIOUS
  <2>6. Total(w, A) = w[x] + Total(w, C) /\ Total(w, B) = w[x] + Total(w, D)
    BY <2>5, TotalRemove
  <2>7. Cardinality(C) \in Nat /\ Cardinality(C) = Cardinality(A) - 1 /\ n \in Nat /\ n - 1 \in Nat
    BY <2>2, <2>5, OneLess
  <2> HIDE DEF C, D
  <2>8. /\ Total(w, C) \in Nat /\ Total(w, D) \in Nat /\ Total(w, B \ A) \in Nat /\ w[x] \in Nat
        /\ Total(w, A) \in Nat /\ Total(w, B) \in Nat
    BY <2>5, TotalStep
  <2>9. Total(w, D) # Total(w, C) + Total(w, D \ C)
    <3>1. Total(w, D \ C) = Total(w, B \ A)
      BY <2>5
    <3> QED BY <2>2, <2>6, <2>8, <3>1
  <2>10. n - 1 \in Bad
    BY <2>2, <2>5, <2>7, <2>9
  <2> HIDE DEF Bad
  <2> QED BY <2>7, <2>10
<1>2. Bad = {}
  <2> HIDE DEF Bad
  <2>1. Bad \in SUBSET Nat
    BY DEF Bad
  <2> QED BY <1>1, <2>1, NoneWithoutLeast
<1>3. \A B \in SUBSET U : \A A \in SUBSET B : Cardinality(A) \in Nat
  BY FS_Subset, FS_CardinalityType
<1> QED BY <1>2, <1>3

\* More items cost more, and what two sets cost together.
LEMMA TotalGrows ==
  ASSUME NEW U, IsFiniteSet(U), NEW w \in [U -> Nat], NEW B \in SUBSET U, NEW A \in SUBSET B
  PROVE  /\ Total(w, A) \in Nat /\ Total(w, B) \in Nat /\ Total(w, B \ A) \in Nat
         /\ Total(w, A) <= Total(w, B)
         /\ Total(w, B) = Total(w, A) + Total(w, B \ A)
<1>1. Total(w, A) \in Nat /\ Total(w, B) \in Nat /\ Total(w, B \ A) \in Nat
  BY TotalStep
<1> QED BY <1>1, TotalSplit

-----------------------------------------------------------------------------
(***************************************************************************)
(* Branching and bounding                                                  *)
(***************************************************************************)
\* The items fit, and a level has one item more than the one above it.
LevelsFit ==
  \A n \in Node : \A k \in DOMAIN stack[n] :
    stack[n][k].config \in Feasible /\ Cardinality(stack[n][k].config) = k - 1

\* What a node has, and what the ring has, was found.
SolutionsInv ==
  /\ optimum \in [Node -> Nat] /\ mySolutionOpt \in [Node -> Nat]
  /\ newSolutionFound \in [Node -> BOOLEAN]
  /\ announced \in SUBSET Nat
  /\ bestFound \in Nat
  /\ \A n \in Node : optimum[n] <= bestFound
  /\ \A cost \in announced : cost <= bestFound

\* The best solution found is one.
FoundReached == \E config \in Feasible : bestFound = CostOf(config)

SearchInv ==
  /\ StackInv
  /\ workSplitPossible \in [Node -> BOOLEAN]
  /\ SolutionsInv
  /\ FoundReached
  /\ LevelsFit
  /\ Covered

LEMMA ItemIs ==
  ASSUME instance \in Instances
  PROVE  /\ IsFiniteSet(Item) /\ Cardinality(Item) = N /\ Item \in SUBSET Nat
         /\ Item = 0 .. N - 1 /\ N \in Nat \ {0}
         /\ instance.weight \in [Item -> Nat] /\ instance.cost \in [Item -> Nat]
         /\ instance.capacity \in Nat
<1>1. N \in Nat \ {0} /\ N - 1 \in Int /\ Item = 0 .. N - 1
  BY SizeIsNat DEF Item, N
<1>2. IsFiniteSet(0 .. N - 1) /\ Cardinality(0 .. N - 1) = N
  BY <1>1, FS_Interval
<1> QED BY <1>1, <1>2, InstanceAssumption DEF InstanceAssumption, N

LEMMA CostIsTotal ==
  ASSUME NEW config
  PROVE  /\ CostOf(config) = Total(instance.cost, config)
         /\ WeightOf(config) = Total(instance.weight, config)
BY Zenon DEF CostOf, WeightOf, Total

LEMMA CostGrows ==
  ASSUME instance \in Instances, NEW B \in SUBSET Item, NEW A \in SUBSET B
  PROVE  /\ CostOf(A) \in Nat /\ CostOf(B) \in Nat /\ CostOf(B \ A) \in Nat
         /\ CostOf(A) <= CostOf(B)
         /\ CostOf(B) = CostOf(A) + CostOf(B \ A)
         /\ WeightOf(A) \in Nat /\ WeightOf(B) \in Nat
         /\ WeightOf(A) <= WeightOf(B)
<1>1. IsFiniteSet(Item) /\ instance.weight \in [Item -> Nat] /\ instance.cost \in [Item -> Nat]
  BY ItemIs
<1>2. /\ Total(instance.cost, A) \in Nat /\ Total(instance.cost, B) \in Nat /\ Total(instance.cost, B \ A) \in Nat
      /\ Total(instance.cost, A) <= Total(instance.cost, B)
      /\ Total(instance.cost, B) = Total(instance.cost, A) + Total(instance.cost, B \ A)
  BY <1>1, TotalGrows
<1>3. /\ Total(instance.weight, A) \in Nat /\ Total(instance.weight, B) \in Nat
      /\ Total(instance.weight, A) <= Total(instance.weight, B)
  BY <1>1, TotalGrows
<1> QED BY <1>2, <1>3, CostIsTotal

\* What one more item weighs.
LEMMA WeightAdded ==
  ASSUME instance \in Instances, NEW config \in SUBSET Item, NEW i \in Item \ config
  PROVE  WeightOf(config \cup {i}) = WeightOf(config) + instance.weight[i]
<1> DEFINE more == config \cup {i}
<1>1. more \in SUBSET Item /\ i \in more /\ more \ {i} = config
  OBVIOUS
<1>2. IsFiniteSet(Item) /\ instance.weight \in [Item -> Nat]
  BY ItemIs
<1>3. Total(instance.weight, more) = instance.weight[i] + Total(instance.weight, config)
  BY <1>1, <1>2, TotalRemove
<1>4. instance.weight[i] \in Nat /\ Total(instance.weight, config) \in Nat
  BY <1>2, TotalStep
<1> QED BY <1>3, <1>4, CostIsTotal

LEMMA NothingCosts ==
  ASSUME instance \in Instances
  PROVE  {} \in Feasible /\ CostOf({}) = 0
<1>1. Total(instance.cost, {}) = 0 /\ Total(instance.weight, {}) = 0
  BY ItemIs, TotalStep
<1> QED BY <1>1, ItemIs, CostIsTotal DEF Feasible

\* The first additional item of a feasible configuration below a level is one of
\* the branches of that level.
LEMMA FirstIsBranch ==
  ASSUME instance \in Instances, NEW level \in Level, NEW config \in Feasible, Below(config, level)
  PROVE  LET i == Min(config \ level.config)
         IN  /\ i \in config \ level.config /\ i \in Nat /\ \A j \in config \ level.config : i <= j
             /\ i \in Branches(level) /\ Branches(level) \in SUBSET Nat
<1> DEFINE more == config \ level.config
           i == Min(more)
<1>1. config \in SUBSET Item /\ level.config \in SUBSET config /\ level.config # config /\ i \in Interval(level)
  BY DEF Below, Feasible
<1>2. more \in SUBSET Nat /\ more # {} /\ level.config \in SUBSET Item
  BY <1>1, ItemIs
<1>3. i \in more /\ \A j \in more : i <= j
  BY <1>2, MinIsElement
<1>4. i \in Item \ level.config
  BY <1>1, <1>3
<1> HIDE DEF i
<1>5. WeightOf(level.config) + instance.weight[i] <= instance.capacity
  <2>1. WeightOf(level.config \cup {i}) = WeightOf(level.config) + instance.weight[i]
    BY <1>2, <1>4, WeightAdded
  <2>2. level.config \cup {i} \in SUBSET config
    BY <1>1, <1>3
  <2>3. /\ WeightOf(level.config \cup {i}) \in Nat /\ WeightOf(config) \in Nat
        /\ WeightOf(level.config \cup {i}) <= WeightOf(config)
    BY <1>1, <2>2, CostGrows
  <2>4. WeightOf(config) <= instance.capacity /\ instance.capacity \in Nat
    BY ItemIs DEF Feasible
  <2> QED BY <2>1, <2>3, <2>4
<1>6. i \in Branches(level)
  BY <1>1, <1>4, <1>5 DEF Branches, Fits
<1>7. Branches(level) \in SUBSET Nat
  <2>1. level.from \in Nat /\ level.to \in Nat
    BY ItemIs DEF Level, N
  <2> QED BY <2>1 DEF Branches, Interval
<1> QED BY <1>2, <1>3, <1>6, <1>7 DEF i

\* What is below a level that evaluate() gives up is no better than the optimum.
LEMMA GivenUp ==
  ASSUME instance \in Instances, NEW level \in Level, NEW opt \in Nat, ~evaluate(level, opt),
         NEW config \in Feasible, Below(config, level)
  PROVE  CostOf(config) <= opt
<1> DEFINE more == config \ level.config
           i == Min(more)
<1>1. /\ i \in more /\ i \in Nat /\ \A j \in more : i <= j
      /\ i \in Branches(level) /\ Branches(level) \in SUBSET Nat
  BY FirstIsBranch
<1>2. /\ config \in SUBSET Item /\ level.config \in SUBSET config
      /\ level.from \in Nat /\ N \in Nat /\ Item = 0 .. N - 1
  BY ItemIs DEF Below, Feasible, Level, N
<1> HIDE DEF i
<1>3. Min(Branches(level)) \in Branches(level) /\ Min(Branches(level)) <= i
  BY <1>1, MinIsElement
<1>4. PICK j \in level.from .. Min(Branches(level)) : ~Reaches(level, j, opt)
  BY <1>1 DEF evaluate
<1> DEFINE rest == j .. N - 1
<1>5. j \in Nat /\ j <= i
  BY <1>1, <1>2, <1>3, <1>4
<1>6. rest \in SUBSET Item /\ more \in SUBSET rest
  <2>1. rest \in SUBSET Item
    BY <1>2, <1>5
  <2>2. ASSUME NEW k \in more PROVE k \in rest
    <3>1. k \in 0 .. N - 1 /\ i <= k
      BY <1>1, <1>2
    <3> QED BY <1>1, <1>2, <1>5, <3>1
  <2> QED BY <2>1, <2>2
<1>7. CostOf(more) \in Nat /\ CostOf(rest) \in Nat /\ CostOf(more) <= CostOf(rest)
  BY <1>6, CostGrows
<1>8. /\ CostOf(level.config) \in Nat /\ CostOf(config) \in Nat
      /\ CostOf(config) = CostOf(level.config) + CostOf(more)
  BY <1>2, CostGrows
<1>9. ~(CostOf(level.config) + CostOf(rest) >= opt)
  BY <1>4 DEF Reaches, maxPossibleCost, N
<1> HIDE DEF rest, more
<1> QED BY <1>7, <1>8, <1>9

\* What is below a level stays below what is left of it or below its child, but
\* for the child's own configuration.
LEMMA Expanded ==
  ASSUME instance \in Instances, NEW level \in Level, NEW config \in Feasible, Below(config, level),
         NEW b, b = Min(Branches(level))
  PROVE  \/ Below(config, Nudged(level))
         \/ config = Child(level, b).config
         \/ Below(config, Child(level, b))
<1> DEFINE more == config \ level.config
           i == Min(more)
           child == Child(level, b)
<1>1. /\ i \in more /\ i \in Nat /\ \A j \in more : i <= j
      /\ i \in Branches(level) /\ Branches(level) \in SUBSET Nat
  BY FirstIsBranch
<1>2. /\ config \in SUBSET Item /\ level.config \in SUBSET config /\ level.config # config
      /\ i \in Interval(level)
      /\ level.from \in Nat /\ level.to \in Nat /\ N \in Nat /\ Item = 0 .. N - 1
  BY ItemIs DEF Below, Feasible, Level, N
<1>3. b \in Branches(level) /\ b <= i /\ b \in Nat
  BY <1>1, MinIsElement
<1>4. CASE i >= level.from + 1
  <2>1. /\ Nudged(level).config = level.config /\ Nudged(level).from = level.from + 1
        /\ Nudged(level).to = level.to
    BY DEF Nudged, Level
  <2>2. i \in Interval(Nudged(level))
    BY <1>1, <1>2, <1>4, <2>1 DEF Interval
  <2> QED BY <1>2, <2>1, <2>2 DEF Below
<1>5. CASE ~(i >= level.from + 1)
  <2>1. b = i
    <3>1. b \in level.from .. level.to - 1 /\ i \in level.from .. level.to - 1
      BY <1>2, <1>3 DEF Branches, Interval
    <3> QED BY <1>1, <1>2, <1>3, <1>5, <3>1
  <2>2. child.config = level.config \cup {b} /\ child.from = b + 1 /\ child.to = N
    BY DEF Child, N
  <2> HIDE DEF child, i
  <2>3. SUFFICES ASSUME config # child.config
                 PROVE  Below(config, child)
    BY DEF child
  <2> DEFINE others == config \ child.config
  <2>4. others # {} /\ others \in SUBSET Nat /\ child.config \subseteq config
    <3>1. child.config \subseteq config
      BY <1>1, <1>2, <2>1, <2>2
    <3>2. config \subseteq Nat
      BY <1>2
    <3> QED BY <2>3, <3>1, <3>2
  <2>5. Min(others) \in others
    BY <2>4, MinIsElement
  <2>6. \A j \in others : j \in b + 1 .. N - 1
    <3> SUFFICES ASSUME NEW j \in others PROVE j \in b + 1 .. N - 1
      OBVIOUS
    <3>1. j \in more /\ j # b /\ j \in 0 .. N - 1
      BY <1>2, <2>2
    <3> QED BY <1>1, <1>2, <1>3, <2>1, <3>1
  <2> QED BY <2>2, <2>3, <2>4, <2>5, <2>6 DEF Below, Interval
<1> QED BY <1>4, <1>5

-----------------------------------------------------------------------------
(***************************************************************************)
(* The best solution found                                                 *)
(***************************************************************************)
LEMMA MaxIs ==
  ASSUME NEW S \in SUBSET Nat, NEW x \in S, \A y \in S : x >= y
  PROVE  Max(S) = x
<1>1. \A z \in S : (\A y \in S : z >= y) => z = x
  OBVIOUS
<1> QED BY <1>1 DEF Max

\* What does not depend on the stacks and the optima.
LEMMA SameInstance ==
  ASSUME instance' = instance
  PROVE  /\ Item' = Item /\ Level' = Level /\ Feasible' = Feasible
         /\ \A config : CostOf(config)' = CostOf(config)
<1>1. Item' = Item
  BY DEF Item
<1>2. \A config : CostOf(config)' = CostOf(config) /\ WeightOf(config)' = WeightOf(config)
  BY SMT DEF CostOf, WeightOf, MapThenSumSet, MapThenFoldSet
<1> QED BY <1>1, <1>2 DEF Level, Feasible

\* The best solution gets no worse, and what was below a stack stays below one
\* unless it is no better than that solution.
LEMMA CoveredStays ==
  ASSUME SearchInv, instance' = instance, bestFound' \in Nat, bestFound' >= bestFound,
         \A config \in Feasible : \A n \in Node : \A k \in DOMAIN stack[n] :
           Below(config, stack[n][k]) =>
             \/ \E m \in Node : \E j \in DOMAIN stack'[m] : Below(config, stack'[m][j])
             \/ bestFound' >= CostOf(config)
  PROVE  Covered'
<1>1. Feasible' = Feasible /\ \A config : CostOf(config)' = CostOf(config)
  BY SameInstance
<1> SUFFICES ASSUME NEW config \in Feasible, CostOf(config) > bestFound'
             PROVE  \E m \in Node : \E j \in DOMAIN stack'[m] : Below(config, stack'[m][j])
  BY <1>1 DEF Covered, Below, Interval
<1>2. CostOf(config) \in Nat
  BY CostGrows DEF Feasible, SearchInv, StackInv
<1>3. CostOf(config) > bestFound
  BY <1>2 DEF SearchInv, SolutionsInv
<1>4. PICK n \in Node : \E k \in DOMAIN stack[n] : Below(config, stack[n][k])
  BY <1>3 DEF SearchInv, Covered
<1>5. ~(bestFound' >= CostOf(config))
  BY <1>2
<1> QED BY <1>4, <1>5

\* The same of a step that leaves the stacks and the best solution alone.
LEMMA StacksStay ==
  ASSUME SearchInv, UNCHANGED <<instance, stack, bestFound>>,
         SolutionsInv', workSplitPossible' \in [Node -> BOOLEAN]
  PROVE  SearchInv'
<1>1. Level' = Level /\ Feasible' = Feasible /\ \A config : CostOf(config)' = CostOf(config)
  BY SameInstance
<1>2. StackInv' /\ LevelsFit' /\ FoundReached'
  BY <1>1 DEF SearchInv, StackInv, LevelsFit, FoundReached
<1>3. Covered'
  BY <1>1 DEF SearchInv, Covered, Below, Interval
<1> QED BY <1>2, <1>3 DEF SearchInv

-----------------------------------------------------------------------------
(***************************************************************************)
(* The search                                                              *)
(***************************************************************************)
LEMMA SearchInvInit == Init => SearchInv
<1> SUFFICES ASSUME Init PROVE SearchInv
  OBVIOUS
<1>1. StackInv /\ instance \in Instances
  BY StackInvInit DEF Init
<1>2. {} \in Feasible /\ CostOf({}) = 0
  BY <1>1, NothingCosts
<1>3. FoundReached
  BY <1>2 DEF Init, FoundReached
<1>4. SolutionsInv /\ workSplitPossible \in [Node -> BOOLEAN]
  BY DEF Init, SolutionsInv
<1>5. Initiator \in Node
  BY InstanceAssumption DEF InstanceAssumption
<1>6. /\ stack[Initiator] = <<Root>> /\ DOMAIN stack[Initiator] = {1} /\ stack[Initiator][1] = Root
      /\ \A n \in Node \ {Initiator} : DOMAIN stack[n] = {}
  BY <1>5 DEF Init
<1>7. LevelsFit
  <2>1. Root.config = {} /\ Cardinality({}) = 0
    BY FS_EmptySet DEF Root
  <2> QED BY <1>2, <1>6, <2>1 DEF LevelsFit
<1>8. Covered
  <2> SUFFICES ASSUME NEW config \in Feasible, CostOf(config) > bestFound
               PROVE  Below(config, Root)
    BY <1>5, <1>6 DEF Covered
  <2>1. bestFound = 0
    BY DEF Init
  <2>2. config # {}
    BY <1>2, <2>1
  <2>3. config \in SUBSET Item /\ config \in SUBSET Nat /\ Item = 0 .. N - 1 /\ config \ {} = config
    BY <1>1, ItemIs DEF Feasible
  <2>4. Min(config) \in 0 .. N - 1
    BY <2>2, <2>3, MinIsElement
  <2> QED BY <2>2, <2>3, <2>4 DEF Below, Root, Interval, N
<1> QED BY <1>1, <1>3, <1>4, <1>7, <1>8 DEF SearchInv

LEMMA ExpandSearches ==
  ASSUME SearchInv, NEW n \in Node, Expand(n)
  PROVE  SearchInv'
<1> DEFINE s == stack[n]
           level == Top(s)
           i == Min(Branches(level))
           child == Child(level, i)
           t == Append([s EXCEPT ![Len(s)] = Nudged(level)], child)
           cost == CostOf(child.config)
<1>1. StackInv /\ StackInv' /\ instance \in Instances
  BY ExpandKeeps DEF SearchInv, StackInv
<1>2. /\ s \in Seq(Level) /\ s # <<>> /\ Len(s) \in Nat \ {0} /\ level = s[Len(s)] /\ level \in Level
      /\ Len(s) \in DOMAIN s /\ DOMAIN s = 1 .. Len(s)
  BY <1>1 DEF StackInv, Expand, Top
<1>3. /\ Branches(level) # {} /\ instance' = instance /\ workSplitPossible' = workSplitPossible
      /\ stack' = [stack EXCEPT ![n] = t]
      /\ mySolutionOpt' = mySolutionOpt /\ announced' = announced
      /\ IF cost >= optimum[n] THEN newSolution(n, cost)
         ELSE UNCHANGED <<optimum, newSolutionFound, bestFound>>
  BY <1>1, <1>2 DEF Expand, evaluate, StackInv, SearchInv
<1>4. stack'[n] = t /\ \A m \in Node \ {n} : stack'[m] = stack[m]
  BY <1>1, <1>3 DEF StackInv
<1> HIDE DEF s, level
<1>6. i \in Branches(level) /\ i \in Item
  <2>1. Branches(level) \in SUBSET Nat
    <3>1. level.from \in Nat /\ level.to \in Nat
      BY <1>1, <1>2, ItemIs DEF Level, N
    <3> QED BY <3>1 DEF Branches, Interval
  <2>2. i \in Branches(level)
    BY <1>3, <2>1, MinIsElement
  <2> QED BY <1>1, <1>2, <1>3, <2>2, BranchTaken
<1> HIDE DEF i
<1>7. level.config \in Feasible /\ Cardinality(level.config) = Len(s) - 1 /\ level.config \in SUBSET Item
  BY <1>2 DEF SearchInv, LevelsFit, Feasible, s
<1>8. /\ child.config \in Feasible /\ Cardinality(child.config) = Len(s)
      /\ child.config = level.config \cup {i}
  <2>1. child.config = level.config \cup {i}
    BY DEF Child
  <2>2. i \in Item \ level.config /\ WeightOf(level.config) + instance.weight[i] <= instance.capacity
    BY <1>6 DEF Branches, Fits
  <2>3. WeightOf(level.config \cup {i}) = WeightOf(level.config) + instance.weight[i]
    BY <1>1, <1>7, <2>2, WeightAdded
  <2>4. IsFiniteSet(level.config)
    BY <1>1, <1>7, ItemIs, FS_Subset
  <2>5. Cardinality(level.config \cup {i}) = Cardinality(level.config) + 1
    BY <2>2, <2>4, FS_AddElement
  <2> QED BY <1>2, <1>6, <1>7, <2>1, <2>2, <2>3, <2>5 DEF Feasible
<1>9. cost \in Nat /\ optimum[n] \in Nat /\ bestFound \in Nat /\ optimum[n] <= bestFound
  BY <1>1, <1>8, CostGrows DEF Feasible, SearchInv, SolutionsInv
<1> HIDE DEF child, cost
<1>10. /\ bestFound' \in Nat /\ bestFound' >= bestFound /\ bestFound' >= cost
       /\ bestFound' = cost \/ bestFound' = bestFound
  BY <1>3, <1>9 DEF newSolution
<1>11. /\ Feasible' = Feasible /\ \A config : CostOf(config)' = CostOf(config)
  BY <1>3, SameInstance
<1>12. SolutionsInv'
  <2>1. CASE cost >= optimum[n]
    <3>1. newSolution(n, cost)
      BY <1>3, <2>1
    <3>2. /\ optimum' \in [Node -> Nat] /\ newSolutionFound' \in [Node -> BOOLEAN]
          /\ \A m \in Node : optimum'[m] = IF m = n THEN cost ELSE optimum[m]
      BY <1>9, <3>1 DEF newSolution, SearchInv, SolutionsInv
    <3>3. \A m \in Node : optimum'[m] <= bestFound'
      BY <1>9, <1>10, <3>2 DEF SearchInv, SolutionsInv
    <3>4. \A c \in announced' : c <= bestFound'
      BY <1>3, <1>9, <1>10 DEF SearchInv, SolutionsInv
    <3> QED BY <1>3, <1>10, <3>2, <3>3, <3>4 DEF SearchInv, SolutionsInv
  <2>2. CASE ~(cost >= optimum[n])
    BY <1>3, <2>2 DEF SearchInv, SolutionsInv
  <2> QED BY <2>1, <2>2
<1>13. FoundReached'
  BY <1>8, <1>10, <1>11 DEF SearchInv, FoundReached, cost
<1>14. /\ DOMAIN t = 1 .. Len(s) + 1
       /\ \A k \in 1 .. Len(s) - 1 : t[k] = s[k]
       /\ t[Len(s)] = Nudged(level) /\ t[Len(s) + 1] = child
  <2> DEFINE u == [s EXCEPT ![Len(s)] = Nudged(level)]
  <2>1. Nudged(level) \in [config : SUBSET Item, from : Int, to : Int]
    <3>1. level.from \in Nat /\ level.to \in Nat
      BY <1>1, <1>2, ItemIs DEF Level, N
    <3> QED BY <1>2, <3>1 DEF Nudged, Level
  <2> DEFINE Wide == [config : SUBSET Item, from : Int, to : Int] \cup Level \cup {child}
  <2>2. s \in Seq(Wide) /\ Nudged(level) \in Wide /\ child \in Wide
    BY <1>2, <2>1
  <2> HIDE DEF Wide
  <2>3. /\ u \in Seq(Wide) /\ Len(u) = Len(s)
        /\ \A k \in 1 .. Len(s) : u[k] = IF k = Len(s) THEN Nudged(level) ELSE s[k]
    BY <1>2, <2>2, ExceptSeq
  <2> HIDE DEF u
  <2>4. t = Append(u, child)
    BY DEF u
  <2>5. /\ t \in Seq(Wide) /\ Len(t) = Len(s) + 1 /\ t[Len(s) + 1] = child
        /\ \A k \in 1 .. Len(s) : t[k] = u[k]
    <3> HIDE DEF t
    <3> QED BY <2>2, <2>3, <2>4, AppendProperties
  <2> HIDE DEF t
  <2>6. DOMAIN t = 1 .. Len(s) + 1
    BY <2>5
  <2>7. \A k \in 1 .. Len(s) - 1 : k \in 1 .. Len(s) /\ k # Len(s)
    <3>1. Len(s) \in Nat
      BY <1>2
    <3> QED BY <3>1
  <2>8. Len(s) \in 1 .. Len(s)
    BY <1>2
  <2> QED BY <2>3, <2>5, <2>6, <2>7, <2>8
<1> HIDE DEF t
<1>15. Nudged(level).config = level.config
  BY <1>2 DEF Nudged, Level
<1>16. LevelsFit'
  <2> SUFFICES ASSUME NEW m \in Node, NEW k \in DOMAIN stack'[m]
               PROVE  stack'[m][k].config \in Feasible /\ Cardinality(stack'[m][k].config) = k - 1
    BY <1>11 DEF LevelsFit
  <2>1. CASE m # n
    BY <1>4, <2>1 DEF SearchInv, LevelsFit
  <2>2. CASE m = n
    <3>1. k \in 1 .. Len(s) + 1
      BY <1>4, <1>14, <2>2
    <3>2. CASE k \in 1 .. Len(s) - 1
      <4>1. k \in DOMAIN s /\ stack'[m][k] = s[k]
        BY <1>2, <1>4, <1>14, <2>2, <3>2
      <4> QED BY <4>1 DEF SearchInv, LevelsFit, s
    <3>3. CASE k = Len(s)
      BY <1>4, <1>7, <1>14, <1>15, <2>2, <3>3
    <3>4. CASE k = Len(s) + 1
      <4>1. stack'[m][k] = child /\ k - 1 = Len(s)
        BY <1>2, <1>4, <1>14, <2>2, <3>4
      <4> QED BY <1>8, <4>1
    <3> QED BY <1>2, <3>1, <3>2, <3>3, <3>4
  <2> QED BY <2>1, <2>2
<1>17. ASSUME NEW config \in Feasible, NEW m \in Node, NEW k \in DOMAIN stack[m],
              Below(config, stack[m][k])
       PROVE  \/ \E j \in DOMAIN stack'[m] : Below(config, stack'[m][j])
              \/ bestFound' >= CostOf(config)
  <2>1. CASE m # n
    BY <1>4, <1>17, <2>1
  <2>2. CASE m = n /\ k \in 1 .. Len(s) - 1
    <3>1. k \in DOMAIN t /\ t[k] = stack[m][k]
      BY <1>2, <1>14, <2>2 DEF s
    <3> QED BY <1>4, <1>17, <2>2, <3>1
  <2>3. CASE m = n /\ k = Len(s)
    <3>1. Below(config, level)
      BY <1>2, <1>17, <2>3 DEF s
    <3>2. \/ Below(config, Nudged(level)) \/ config = child.config \/ Below(config, child)
      BY <1>1, <1>2, <3>1, Expanded DEF i, child
    <3>3. Len(s) \in DOMAIN t /\ Len(s) + 1 \in DOMAIN t
      BY <1>2, <1>14
    <3> QED BY <1>4, <1>10, <1>14, <2>3, <3>2, <3>3 DEF cost
  <2> QED BY <1>2, <2>1, <2>2, <2>3 DEF s
<1>18. Covered'
  <2>1. \A config \in Feasible : \A m \in Node : \A k \in DOMAIN stack[m] :
           Below(config, stack[m][k]) =>
             \/ \E l \in Node : \E j \in DOMAIN stack'[l] : Below(config, stack'[l][j])
             \/ bestFound' >= CostOf(config)
    BY <1>17
  <2> QED BY <1>3, <1>10, <2>1, CoveredStays
<1> QED BY <1>1, <1>3, <1>12, <1>13, <1>16, <1>18 DEF SearchInv

LEMMA BacktrackSearches ==
  ASSUME SearchInv, NEW n \in Node, Backtrack(n)
  PROVE  SearchInv'
<1> DEFINE s == stack[n]
           popped == SubSeq(s, 1, Len(s) - 1)
<1>1. /\ StackInv /\ StackInv' /\ instance \in Instances /\ instance' = instance
      /\ UNCHANGED solutionVars /\ workSplitPossible' = workSplitPossible
      /\ stack' = [stack EXCEPT ![n] = popped]
  BY BacktrackKeeps DEF SearchInv, StackInv, Backtrack
<1>2. stack'[n] = popped /\ \A m \in Node \ {n} : stack'[m] = stack[m]
  BY <1>1 DEF StackInv
<1>3. /\ s \in Seq(Level) /\ s # <<>> /\ Len(s) \in Nat \ {0} /\ DOMAIN s = 1 .. Len(s)
      /\ s[Len(s)] \in Level /\ ~evaluate(s[Len(s)], optimum[n])
      /\ optimum[n] \in Nat /\ bestFound \in Nat /\ optimum[n] <= bestFound
  BY <1>1 DEF StackInv, Backtrack, Top, SearchInv, SolutionsInv
<1>4. DOMAIN popped = 1 .. Len(s) - 1 /\ \A k \in 1 .. Len(s) - 1 : popped[k] = s[k]
  BY <1>3, SubSeqProperties
<1> HIDE DEF popped
<1>5. \A k \in DOMAIN popped : k \in DOMAIN s /\ popped[k] = s[k]
  <2>1. Len(s) \in Nat
    BY <1>3
  <2> HIDE DEF s
  <2>2. \A k \in 1 .. Len(s) - 1 : k \in 1 .. Len(s)
    BY <2>1
  <2> QED BY <1>3, <1>4, <2>2
<1>6. /\ Feasible' = Feasible /\ \A config : CostOf(config)' = CostOf(config)
  BY <1>1, SameInstance
<1>7. SolutionsInv' /\ FoundReached'
  BY <1>1, <1>6 DEF SearchInv, SolutionsInv, FoundReached, solutionVars
<1>8. LevelsFit'
  <2> SUFFICES ASSUME NEW m \in Node, NEW k \in DOMAIN stack'[m]
               PROVE  stack'[m][k].config \in Feasible /\ Cardinality(stack'[m][k].config) = k - 1
    BY <1>6 DEF LevelsFit
  <2>1. k \in DOMAIN stack[m] /\ stack'[m][k] = stack[m][k]
    BY <1>2, <1>5
  <2> QED BY <2>1 DEF SearchInv, LevelsFit
<1>9. ASSUME NEW config \in Feasible, NEW m \in Node, NEW k \in DOMAIN stack[m],
             Below(config, stack[m][k])
      PROVE  \/ \E j \in DOMAIN stack'[m] : Below(config, stack'[m][j])
             \/ bestFound' >= CostOf(config)
  <2>1. CASE m # n
    BY <1>2, <1>9, <2>1
  <2>2. CASE m = n /\ k = Len(s)
    <3>1. CostOf(config) <= optimum[n]
      BY <1>1, <1>3, <1>9, <2>2, GivenUp
    <3>2. CostOf(config) \in Nat
      BY <1>1, CostGrows DEF Feasible
    <3> QED BY <1>1, <1>3, <3>1, <3>2 DEF solutionVars
  <2>3. CASE m = n /\ k # Len(s)
    <3>1. k \in 1 .. Len(s) - 1
      BY <1>3, <2>3
    <3>2. k \in DOMAIN popped /\ popped[k] = stack[m][k]
      BY <1>4, <2>3, <3>1
    <3> QED BY <1>2, <1>9, <2>3, <3>2
  <2> QED BY <2>1, <2>2, <2>3
<1>10. Covered'
  <2>1. bestFound' \in Nat /\ bestFound' >= bestFound
    BY <1>1, <1>3 DEF solutionVars
  <2>2. \A config \in Feasible : \A m \in Node : \A k \in DOMAIN stack[m] :
           Below(config, stack[m][k]) =>
             \/ \E l \in Node : \E j \in DOMAIN stack'[l] : Below(config, stack'[l][j])
             \/ bestFound' >= CostOf(config)
    BY <1>9
  <2> QED BY <1>1, <2>1, <2>2, CoveredStays
<1> QED BY <1>1, <1>7, <1>8, <1>10 DEF SearchInv

\* Whatever the ring has was found, and so are the optima that take it, better or
\* worse.
LEMMA SynchronizeSearches ==
  ASSUME SearchInv, NEW n \in Node, Synchronize(n)
  PROVE  SearchInv'
<1>1. /\ UNCHANGED <<instance, stack, workSplitPossible, bestFound>>
      /\ newSolutionFound' = [newSolutionFound EXCEPT ![n] = FALSE]
      /\ AcceptCircle(n) \/ SendMine(n)
  BY DEF Synchronize
<1>2. SolutionsInv'
  <2>1. CASE AcceptCircle(n)
    <3>1. PICK cost \in announced :
            /\ optimum' = [optimum EXCEPT ![n] = cost]
            /\ mySolutionOpt' = [mySolutionOpt EXCEPT ![n] = cost]
            /\ announced' = announced
      BY <2>1 DEF AcceptCircle
    <3>2. cost \in Nat /\ cost <= bestFound
      BY DEF SearchInv, SolutionsInv
    <3>3. /\ optimum' \in [Node -> Nat] /\ mySolutionOpt' \in [Node -> Nat]
          /\ \A m \in Node : optimum'[m] = IF m = n THEN cost ELSE optimum[m]
      BY <3>1, <3>2 DEF SearchInv, SolutionsInv
    <3>4. newSolutionFound' \in [Node -> BOOLEAN]
      BY <1>1 DEF SearchInv, SolutionsInv
    <3> QED BY <1>1, <3>1, <3>2, <3>3, <3>4 DEF SearchInv, SolutionsInv
  <2>2. CASE SendMine(n)
    <3>1. /\ announced' = announced \cup {optimum[n]} /\ optimum' = optimum
          /\ mySolutionOpt' = [mySolutionOpt EXCEPT ![n] = optimum[n]]
      BY <2>2 DEF SendMine
    <3>2. optimum[n] \in Nat /\ optimum[n] <= bestFound
      BY DEF SearchInv, SolutionsInv
    <3>3. mySolutionOpt' \in [Node -> Nat] /\ newSolutionFound' \in [Node -> BOOLEAN]
      BY <1>1, <3>1, <3>2 DEF SearchInv, SolutionsInv
    <3> QED BY <1>1, <3>1, <3>2, <3>3 DEF SearchInv, SolutionsInv
  <2> QED BY <1>1, <2>1, <2>2
<1> QED BY <1>1, <1>2, StacksStay DEF SearchInv

LEMMA SplitSearches ==
  ASSUME SearchInv, NEW n \in Node, NEW m \in Node \ {n}, SplitWork(n, m)
  PROVE  SearchInv'
<1>1. /\ StackInv /\ StackInv' /\ instance \in Instances /\ instance' = instance
      /\ UNCHANGED <<optimum, mySolutionOpt, announced, bestFound>> /\ stack[m] = <<>>
      /\ newSolutionFound' = [newSolutionFound EXCEPT ![m] = FALSE]
      /\ workSplitPossible' \in [Node -> BOOLEAN]
  BY SplitKeeps DEF SearchInv, StackInv, SplitWork
<1>2. PICK k \in Nat : Divided(stack[n], stack'[n], stack'[m], k)
  BY <1>1, SplitStacks
<1>3. stack' = [stack EXCEPT ![n] = stack'[n], ![m] = stack'[m]]
  BY <1>1, SplitStacks
<1>4. \A l \in Node \ {n, m} : stack'[l] = stack[l]
  BY <1>3 DEF SearchInv, StackInv
<1>5. /\ Feasible' = Feasible /\ \A config : CostOf(config)' = CostOf(config)
  BY <1>1, SameInstance
<1>6. SolutionsInv' /\ FoundReached'
  BY <1>1, <1>5 DEF SearchInv, SolutionsInv, FoundReached
<1>7. stack[n] \in Seq(Level) /\ DOMAIN stack[n] = 1 .. Len(stack[n]) /\ Len(stack[n]) \in Nat
  BY <1>1 DEF StackInv
<1>8. /\ k \in 1 .. Len(stack[n])
      /\ DOMAIN stack'[n] = DOMAIN stack[n]
      /\ \A j \in DOMAIN stack[n] : stack'[n][j].config = stack[n][j].config
      /\ \A j \in DOMAIN stack'[m] : j \in DOMAIN stack[n] /\ stack'[m][j].config = stack[n][j].config
  <2> DEFINE s == stack[n]
             c == cut(s[k])
  <2>1. /\ k \in 1 .. Len(s)
        /\ stack'[n] \in Seq(Level) /\ Len(stack'[n]) = Len(s)
        /\ \A j \in 1 .. Len(s) : stack'[n][j] = IF j = k THEN [s[k] EXCEPT !.to = c] ELSE s[j]
        /\ stack'[m] \in Seq(Level) /\ Len(stack'[m]) = k
        /\ \A j \in 1 .. k : stack'[m][j] = IF j = k THEN [s[k] EXCEPT !.from = c] ELSE s[j]
    BY <1>2 DEF Divided
  <2>2. s[k] \in Level
    BY <1>7, <2>1
  <2> HIDE DEF c, s
  <2>3. [s[k] EXCEPT !.to = c].config = s[k].config /\ [s[k] EXCEPT !.from = c].config = s[k].config
    BY <2>2 DEF Level
  <2>4. DOMAIN stack'[n] = 1 .. Len(s) /\ DOMAIN stack'[m] = 1 .. k
    BY <2>1
  <2>5. \A j \in 1 .. k : j \in 1 .. Len(s)
    BY <1>7, <2>1 DEF s
  <2> QED BY <1>7, <2>1, <2>3, <2>4, <2>5 DEF s
<1>9. LevelsFit'
  <2> SUFFICES ASSUME NEW l \in Node, NEW j \in DOMAIN stack'[l]
               PROVE  stack'[l][j].config \in Feasible /\ Cardinality(stack'[l][j].config) = j - 1
    BY <1>5 DEF LevelsFit
  <2>1. PICK i \in Node : j \in DOMAIN stack[i] /\ stack'[l][j].config = stack[i][j].config
    <3>1. CASE l = n \/ l = m
      BY <1>8, <3>1
    <3>2. CASE l # n /\ l # m
      BY <1>4, <3>2
    <3> QED BY <3>1, <3>2
  <2> QED BY <2>1 DEF SearchInv, LevelsFit
<1>10. Covered'
  <2>1. bestFound' \in Nat /\ bestFound' >= bestFound
    BY <1>1 DEF SearchInv, SolutionsInv
  <2>2. Ahead(stack'[n]) \cup Ahead(stack'[m]) = Ahead(stack[n])
    BY <1>1, <1>2, <1>7, DividedAhead
  <2>3. ASSUME NEW config \in Feasible, NEW l \in Node, NEW j \in DOMAIN stack[l],
               Below(config, stack[l][j])
        PROVE  \E i \in Node : \E h \in DOMAIN stack'[i] : Below(config, stack'[i][h])
    <3>1. CASE l = n
      <4>1. config \in Ahead(stack[n])
        BY <2>3, <3>1 DEF Ahead, Feasible
      <4> QED BY <2>2, <4>1 DEF Ahead
    <3>2. CASE l = m
      BY <1>1, <3>2
    <3>3. CASE l # n /\ l # m
      BY <1>4, <2>3, <3>3
    <3> QED BY <3>1, <3>2, <3>3
  <2>4. \A config \in Feasible : \A l \in Node : \A j \in DOMAIN stack[l] :
           Below(config, stack[l][j]) =>
             \/ \E i \in Node : \E h \in DOMAIN stack'[i] : Below(config, stack'[i][h])
             \/ bestFound' >= CostOf(config)
    BY <2>3
  <2> QED BY <1>1, <2>1, <2>4, CoveredStays
<1> QED BY <1>1, <1>6, <1>9, <1>10 DEF SearchInv

LEMMA SearchInvNext == SearchInv /\ [Next]_vars => SearchInv'
<1> SUFFICES ASSUME SearchInv, [Next]_vars PROVE SearchInv'
  OBVIOUS
<1>1. ASSUME NEW n \in Node, DFS(n) PROVE SearchInv'
  BY <1>1, ExpandSearches, BacktrackSearches DEF DFS
<1>2. ASSUME NEW n \in Node, Synchronize(n) PROVE SearchInv'
  BY <1>2, SynchronizeSearches
<1>3. ASSUME NEW n \in Node, NEW m \in Node \ {n}, SplitWork(n, m) PROVE SearchInv'
  BY <1>3, SplitSearches
<1>4. ASSUME NEW n \in Node, SplitFails(n) PROVE SearchInv'
  <2>1. UNCHANGED <<instance, stack, bestFound>> /\ SolutionsInv'
    BY <1>4 DEF SplitFails, solutionVars, SearchInv, SolutionsInv
  <2>2. workSplitPossible' \in [Node -> BOOLEAN]
    BY <1>4 DEF SplitFails, SearchInv
  <2> QED BY <2>1, <2>2, StacksStay
<1>5. CASE UNCHANGED vars
  <2>1. UNCHANGED <<instance, stack, bestFound, workSplitPossible>> /\ SolutionsInv'
    BY <1>5 DEF vars, solutionVars, SearchInv, SolutionsInv
  <2> QED BY <2>1, StacksStay DEF SearchInv
<1> QED BY <1>1, <1>2, <1>3, <1>4, <1>5 DEF Next

LEMMA SearchInvAlways == Spec => []SearchInv
BY SearchInvInit, SearchInvNext, PTL DEF Spec

-----------------------------------------------------------------------------
(***************************************************************************)
(* What the search promises                                                *)
(***************************************************************************)
\* No stack is higher than its arrays are long (Knapsack.cpp:103): a level has as
\* many items as there are levels above it, and not all items fit.
LEMMA StacksAreLow == SearchInv => TypeOK
<1> SUFFICES ASSUME SearchInv PROVE TypeOK
  OBVIOUS
<1>1. instance \in Instances /\ stack \in [Node -> Seq(Level)]
  BY DEF SearchInv, StackInv
<1>2. IsFiniteSet(Item) /\ Cardinality(Item) = N /\ N \in Nat \ {0}
  BY <1>1, ItemIs
<1>3. ~(WeightOf(Item) <= instance.capacity)
  <2>1. MapThenSumSet(LAMBDA i : instance.weight[i], 0 .. instance.instanceSize - 1) > instance.capacity
    BY <1>1, CapacityAssumption
  <2>2. WeightOf(Item) > instance.capacity
    BY Zenon, <2>1 DEF WeightOf, Item
  <2>3. WeightOf(Item) \in Nat /\ instance.capacity \in Nat
    BY <1>1, CostGrows, ItemIs
  <2> QED BY <2>2, <2>3
<1>4. ASSUME NEW n \in Node PROVE Len(stack[n]) \in 0 .. N
  <2>1. Len(stack[n]) \in Nat /\ DOMAIN stack[n] = 1 .. Len(stack[n])
    BY <1>1
  <2> SUFFICES ASSUME N + 1 <= Len(stack[n]) PROVE FALSE
    BY <1>2, <2>1
  <2>2. N + 1 \in DOMAIN stack[n]
    BY <1>2, <2>1
  <2> DEFINE config == stack[n][N + 1].config
  <2>3. config \in Feasible /\ Cardinality(config) = N
    <3>1. LevelsFit
      BY DEF SearchInv
    <3>2. \A k \in DOMAIN stack[n] :
            stack[n][k].config \in Feasible /\ Cardinality(stack[n][k].config) = k - 1
      BY <3>1 DEF LevelsFit
    <3>3. config \in Feasible /\ Cardinality(config) = (N + 1) - 1
      BY <2>2, <3>2, Zenon
    <3> QED BY <1>2, <3>3
  <2> HIDE DEF config
  <2>4. Cardinality(config) = Cardinality(Item) /\ config \in SUBSET Item
    BY <1>2, <2>3 DEF Feasible
  <2>5. config = Item
    BY <1>2, <2>4, FS_Subset
  <2> QED BY <1>3, <2>3, <2>5 DEF Feasible
<1>5. \A n \in Node : \A k \in DOMAIN stack[n] : stack[n][k] \in Level
  BY <1>1
<1> QED BY <1>1, <1>4, <1>5 DEF TypeOK, SearchInv, SolutionsInv, N

LEMMA NothingLeft == SearchInv => SolvesKnapsack
<1> SUFFICES ASSUME SearchInv, \A n \in Node : stack[n] = <<>>
             PROVE  bestFound = Max({CostOf(config) : config \in Feasible})
  BY DEF SolvesKnapsack
<1>1. instance \in Instances
  BY DEF SearchInv, StackInv
<1>2. bestFound \in Nat /\ \E config \in Feasible : bestFound = CostOf(config)
  BY DEF SearchInv, SolutionsInv, FoundReached
<1>3. \A config \in Feasible : CostOf(config) \in Nat /\ ~(CostOf(config) > bestFound)
  <2>1. Covered
    BY DEF SearchInv
  <2>2. \A n \in Node : DOMAIN stack[n] = {}
    OBVIOUS
  <2>3. \A config \in Feasible : ~(CostOf(config) > bestFound)
    BY <2>1, <2>2 DEF Covered
  <2>4. \A config \in Feasible : CostOf(config) \in Nat
    BY <1>1, CostGrows DEF Feasible
  <2> QED BY <2>3, <2>4
<1> DEFINE S == {CostOf(config) : config \in Feasible}
<1>4. S \in SUBSET Nat /\ bestFound \in S
  BY <1>2, <1>3
<1>5. \A y \in S : bestFound >= y
  BY <1>2, <1>3
<1> HIDE DEF S
<1>6. Max(S) = bestFound
  BY <1>4, <1>5, MaxIs
<1> QED BY <1>6 DEF S

\* TypeOK, for every instance whose items do not all fit and any number of nodes;
\* above all, that the two stacks never outgrow their arrays.
THEOREM TypeCorrect == Spec => []TypeOK
BY SearchInvAlways, StacksAreLow, PTL

\* Covered: expand(), the bound in evaluate(), the nudge of the interval and splits
\* (Knapsack.cpp, Computation.cpp:145-217) never lose a configuration better than
\* the best one found, whatever solutions of other nodes setSolution puts in the
\* place of a node's own.
THEOREM CoveredAlways == Spec => []Covered
<1>1. SearchInv => Covered
  BY DEF SearchInv
<1> QED BY <1>1, SearchInvAlways, PTL

\* SolvesKnapsack: the nodes do not all run out of work before one of them has
\* found the optimum of the instance.
THEOREM SolvesKnapsackAlways == Spec => []SolvesKnapsack
BY SearchInvAlways, NothingLeft, PTL
=============================================================================
