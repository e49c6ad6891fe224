------------------------- MODULE RegexRouterProofs -------------------------
(***************************************************************************)
(* What RegexRouter says of the memory matrix, for any phrases, typo       *)
(* distances, answers and master reflexes, and FuzzyDistance of the typos, *)
(* for strings of any length over any alphabet.                            *)
(*                                                                         *)
(* LearnedIsKept speaks of readable files.  What makes it inductive is the *)
(* rewrite in between: the draft of a "learn" still has all that was       *)
(* learned, and a file that is not there never had any of it; a torn file  *)
(* may have lost it, but nothing is appended to a torn file.               *)
(*                                                                         *)
(* LookupIsNearest holds in every state whose items are items: it is about *)
(* the loop, whose turns (Compare) keep the nearest of the items seen.     *)
(*                                                                         *)
(* The distances that the lookup compares come from calculateFuzzyDistance *)
(* of the same class (FuzzyDistance).  Its table is right because a cell   *)
(* can be reached in three ways (CellFromThree), and in no other: edits    *)
(* that lead to a string can be split at its last character (NoOtherWay,   *)
(* by counting up the edits).  DistanceIsOne discharges what the router's  *)
(* module assumes of Distance.                                             *)
(***************************************************************************)
EXTENDS RegexRouter, FuzzyDistance, SequenceTheorems, FiniteSetTheorems, TLAPS

\* The file, the write that is not done, and what it must not forget.
MatrixInv ==
    /\ writing # "no" => memory = "torn"
    /\ memory = "absent" => learned = {}
    /\ writing = "learn" => draft # <<>> /\ learned \subseteq ToSet(draft)
    /\ writing = "init" => learned = {}

RTypeInv == RTypeOK /\ DOMAIN reply = {"what", "phrase", "answer"}

RInv == RTypeInv /\ MatrixInv /\ LearnedIsKept
-----------------------------------------------------------------------------
\* The set of a sequence: of one that grew, and of its last element.
LEMMA AppendSet ==
    ASSUME NEW S, NEW s \in Seq(S), NEW e \in S
    PROVE  /\ ToSet(Append(s, e)) = ToSet(s) \union {e}
           /\ Append(s, e) \in Seq(S) /\ Append(s, e) # <<>>
<1>1. /\ Append(s, e) \in Seq(S) /\ Len(Append(s, e)) = Len(s) + 1 /\ Len(s) \in Nat
      /\ \A x \in 1..Len(s) : Append(s, e)[x] = s[x]
      /\ Append(s, e)[Len(s) + 1] = e
  OBVIOUS
<1>2. DOMAIN Append(s, e) = 1..(Len(s) + 1) /\ DOMAIN s = 1..Len(s)
  BY <1>1
<1> HIDE DEF ToSet
<1>3. ToSet(Append(s, e)) = {Append(s, e)[x] : x \in 1..(Len(s) + 1)} /\ ToSet(s) = {s[x] : x \in 1..Len(s)}
  BY <1>2 DEF ToSet
<1>4. 1..(Len(s) + 1) = 1..Len(s) \union {Len(s) + 1}
  BY <1>1
<1>5. ToSet(Append(s, e)) = ToSet(s) \union {e}
  BY <1>1, <1>3, <1>4
<1> QED
  BY <1>1, <1>5

\* The last element of a sequence is one of its elements.
LEMMA LastInSet ==
    ASSUME NEW S, NEW s \in Seq(S), s # <<>>
    PROVE  Last(s) \in ToSet(s) /\ ToSet(s) \subseteq S
  BY DEF Last, ToSet

\* Every step keeps the types.
LEMMA RTypeStep == RTypeInv /\ MatrixInv /\ [RNext]_rvars => RTypeInv'
<1> SUFFICES ASSUME RTypeInv, MatrixInv, [RNext]_rvars PROVE RTypeInv'
  OBVIOUS
<1> USE DEF RTypeInv, RTypeOK, file
<1>1. ASSUME NEW p \in Phrases, Route(p) PROVE RTypeInv'
  <2>1. \E w, a : reply' = Reply(w, p, a)
    BY <1>1 DEF Route, Execute
  <2> QED
    BY <1>1, <2>1 DEF Route, Reply
<1>2. ASSUME NEW p \in Phrases, NEW a \in Answers, AddMemory(p, a) PROVE RTypeInv'
  <2>1. \E w : reply' = Reply(w, p, a)
    BY <1>2 DEF AddMemory
  <2>2. Item(p, a) \in Items
    BY DEF Item, Items
  <2>3. Append(items, Item(p, a)) \in Seq(Items) /\ <<>> \in Seq(Items)
    BY <2>2
  <2>4. items' \in Seq(Items) /\ draft' \in Seq(Items)
    BY <1>2, <2>3 DEF AddMemory, BeginWrite
  <2>5. /\ memory' \in {"absent", "json", "torn"} /\ (memory' # "json" => items' = <<>>)
        /\ writing' \in {"no", "learn", "init"}
    BY <1>2 DEF AddMemory, BeginWrite
  <2>6. reply'.phrase \in Phrases /\ DOMAIN reply' = {"what", "phrase", "answer"}
    BY <2>1 DEF Reply
  <2> QED
    BY <1>2, <2>4, <2>5, <2>6 DEF AddMemory
<1>3. ASSUME NEW p \in Phrases, NEW a \in Answers, ForgeMacro(p, a) PROVE RTypeInv'
  BY <1>3 DEF ForgeMacro, Reply
<1>4. CASE MatrixInit
  <2>1. <<>> \in Seq(Items)
    OBVIOUS
  <2> QED
    BY <1>4, <2>1, MasterAssumption DEF MatrixInit, BeginWrite
<1>5. CASE EndWrite
  <2>1. learned' \subseteq Items
    <3>1. CASE writing = "init"
      BY <1>5, <3>1 DEF EndWrite
    <3>2. CASE writing # "init"
      <4>1. draft # <<>> /\ draft \in Seq(Items)
        BY <1>5, <3>2 DEF EndWrite, MatrixInv
      <4>2. Last(draft) \in Items
        BY <4>1, LastInSet
      <4> QED
        BY <1>5, <3>2, <4>2 DEF EndWrite
    <3> QED
      BY <3>1, <3>2
  <2>2. reply'.phrase \in Phrases /\ DOMAIN reply' = DOMAIN reply
    BY <1>5 DEF EndWrite
  <2>3. <<>> \in Seq(Items)
    OBVIOUS
  <2> QED
    BY <1>5, <2>1, <2>2, <2>3 DEF EndWrite
<1>6. CASE Die
  <2>1. macros' \in [Phrases -> Answers \union {None}]
    BY <1>6 DEF Die
  <2>2. <<>> \in Seq(Items)
    OBVIOUS
  <2> QED
    BY <1>6, <2>1, <2>2 DEF Die
<1>7. CASE UNCHANGED rvars
  BY <1>7 DEF rvars
<1> QED
  BY <1>1, <1>2, <1>3, <1>4, <1>5, <1>6, <1>7 DEF RNext

\* Every step keeps what was learned.
LEMMA LearnedStep == RInv /\ [RNext]_rvars => MatrixInv' /\ LearnedIsKept'
<1> SUFFICES ASSUME RInv, [RNext]_rvars PROVE MatrixInv' /\ LearnedIsKept'
  OBVIOUS
<1>t. items \in Seq(Items) /\ draft \in Seq(Items) /\ (memory # "json" => items = <<>>)
      /\ memory \in {"absent", "json", "torn"} /\ writing \in {"no", "learn", "init"}
  BY DEF RInv, RTypeInv, RTypeOK
<1> USE DEF RInv, MatrixInv, LearnedIsKept
<1>1. CASE UNCHANGED <<file, learned>>
  BY <1>1 DEF file
<1>2. ASSUME NEW p \in Phrases, NEW a \in Answers, AddMemory(p, a)
      PROVE  MatrixInv' /\ LearnedIsKept'
  <2>1. CASE memory = "torn"
    BY <1>1, <1>2, <2>1 DEF AddMemory
  <2>2. CASE memory # "torn"
    <3>1. /\ memory' = "torn" /\ writing' = "learn" /\ learned' = learned
          /\ draft' = Append(items, Item(p, a))
      BY <1>2, <2>2 DEF AddMemory, BeginWrite
    <3>2. Item(p, a) \in Items
      BY DEF Item, Items
    <3>3. ToSet(items) \subseteq ToSet(draft') /\ draft' # <<>>
      BY <1>t, <3>1, <3>2, AppendSet
    <3>4. learned \subseteq ToSet(items)
      BY <1>t, <2>2
    <3> QED
      BY <3>1, <3>3, <3>4
  <2> QED
    BY <2>1, <2>2
<1>3. CASE MatrixInit
  BY <1>3 DEF MatrixInit, BeginWrite
<1>4. CASE EndWrite
  <2>1. CASE writing = "init"
    BY <1>4, <2>1 DEF EndWrite
  <2>2. CASE writing = "learn"
    <3>1. Last(draft) \in ToSet(draft)
      BY <1>t, <2>2, LastInSet
    <3> QED
      BY <1>4, <2>2, <3>1 DEF EndWrite
  <2> QED
    BY <1>4, <1>t, <2>1, <2>2 DEF EndWrite
<1>5. CASE Die
  BY <1>5 DEF Die
<1> QED
  BY <1>1, <1>2, <1>3, <1>4, <1>5 DEF RNext, rvars, Route, ForgeMacro

-----------------------------------------------------------------------------
(* The lookup.  Its loop is a fold, and a fold is a recursion over the     *)
(* sets of items seen.  Best tells what the loop has found when it has     *)
(* seen a set of them; it satisfies the recursion, and nothing else does.  *)

\* A set of numbers that is not empty has a least.
LEMMA LeastMember ==
    ASSUME NEW S, S \subseteq Nat, S # {}
    PROVE  Min(S) \in S /\ \A y \in S : Min(S) <= y
<1>1. PICK x : x \in S
  OBVIOUS
<1> DEFINE D == 0 .. x
           T == {0 .. y : y \in S \cap D}
           R == StrictSubsetOrdering(D)
<1>2. x \in Nat /\ IsFiniteSet(D)
  BY <1>1, FS_Interval
<1>3. IsWellFoundedOn(R, SUBSET D)
  BY <1>2, FS_StrictSubsetOrderingWellFounded, FS_FiniteSubsetsOfFinite
<1>4. T \subseteq SUBSET D /\ T # {}
  BY <1>1, <1>2
<1>5. PICK t \in T : \A u \in T : ~(<<u, t>> \in R)
  <2> HIDE DEF T, R, D
  <2> QED
    BY <1>3, <1>4, WFMin
<1>6. PICK m \in S \cap D : t = 0 .. m
  BY <1>5
<1>7. \A y \in S : m <= y
  <2> SUFFICES ASSUME NEW y \in S, y < m PROVE FALSE
    BY <1>2, <1>6
  <2>1. y \in Nat /\ m \in Nat /\ m <= x
    BY <1>2, <1>6
  <2>2. 0 .. y \in T /\ 0 .. y \in SUBSET t /\ m \in t /\ m \notin 0 .. y
    BY <1>2, <1>6, <2>1
  <2>3. <<0 .. y, t>> \in R
    BY <1>4, <1>5, <2>2 DEF StrictSubsetOrdering
  <2> QED
    BY <1>5, <2>2, <2>3
<1> QED
  BY <1>6, <1>7 DEF Min

\* A set of numbers up to n that is not empty has a greatest.
LEMMA GreatestMember ==
    ASSUME NEW n \in Nat, NEW t \in SUBSET (1 .. n), t # {}
    PROVE  Max(t) \in t /\ \A y \in t : y <= Max(t)
<1> DEFINE S == {n - y : y \in t}
<1>1. S \subseteq Nat /\ S # {}
  <2>1. \A y \in t : n - y \in Nat
    OBVIOUS
  <2> QED
    BY <2>1
<1>2. PICK x \in t : Min(S) = n - x
  <2> HIDE DEF S
  <2>1. Min(S) \in S
    BY <1>1, LeastMember
  <2> QED
    BY <2>1 DEF S
<1>3. \A y \in t : n - x <= n - y
  <2>1. \A z \in S : Min(S) <= z
    <3> HIDE DEF S
    <3> QED
      BY <1>1, LeastMember
  <2> QED
    BY <1>2, <2>1
<1>4. \A y \in t : x >= y
  BY <1>3
<1>5. Max(t) \in t /\ \A y \in t : Max(t) >= y
  BY <1>4 DEF Max
<1> QED
  BY <1>5

\* Of the items s: those in reach of a phrase, the nearest, and what the loop knows.
Far(input, k)    == Distance(input, items[k].phrase)
Reach(input, s)  == {k \in s : Far(input, k) <= AllowedTypos(items[k].phrase)}
IsNearest(input, s, k) ==
    /\ k \in Reach(input, s)
    /\ \A l \in Reach(input, s) :
         Far(input, k) < Far(input, l) \/ (Far(input, k) = Far(input, l) /\ k <= l)
Nearest(input, s) == CHOOSE k : IsNearest(input, s, k)
Best(input, s) ==
    IF Reach(input, s) = {} THEN Unmatched
    ELSE [exact    |-> Far(input, Nearest(input, s)) = 0,
          distance |-> Far(input, Nearest(input, s)),
          answer   |-> items[Nearest(input, s)].answer]

\* Distances are numbers, zero for the phrase itself, which is always in reach.
LEMMA Distances ==
    ASSUME items \in Seq(Items), NEW input \in Phrases, NEW k \in 1 .. Len(items)
    PROVE  /\ k \in Nat /\ items[k].phrase \in Phrases /\ Far(input, k) \in Nat
           /\ Far(input, k) = 0 <=> input = items[k].phrase
           /\ AllowedTypos(items[k].phrase) \in Nat
<1>1. items[k] \in Items /\ k \in Nat
  OBVIOUS
<1>2. items[k].phrase \in Phrases
  BY <1>1 DEF Items
<1>3. AllowedTypos(items[k].phrase) \in Nat
  BY DEF AllowedTypos
<1> QED
  BY <1>1, <1>2, <1>3, RouterAssumption DEF Far

\* Of the items in reach one is the nearest, and no other is; it is the property's.
LEMMA NearestIs ==
    ASSUME items \in Seq(Items), NEW input \in Phrases, NEW s \in SUBSET (1 .. Len(items)),
           Reach(input, s) # {}
    PROVE  /\ IsNearest(input, s, Nearest(input, s))
           /\ \A k : IsNearest(input, s, k) => k = Nearest(input, s)
           /\ LET least == Min({Far(input, k) : k \in Reach(input, s)})
              IN  Nearest(input, s) = Min({k \in Reach(input, s) : Far(input, k) = least})
<1> DEFINE near  == Reach(input, s)
           dists == {Far(input, k) : k \in near}
           least == Min(dists)
           ties  == {k \in near : Far(input, k) = least}
           first == Min(ties)
<1>1. near \subseteq 1 .. Len(items)
  BY DEF Reach
<1>2. \A k \in near : k \in Nat /\ Far(input, k) \in Nat
  BY <1>1, Distances
<1>3. least \in dists /\ \A d \in dists : least <= d
  <2>1. dists \subseteq Nat /\ dists # {}
    BY <1>2
  <2> HIDE DEF dists
  <2> QED
    BY <2>1, LeastMember
<1>4. first \in ties /\ \A k \in ties : first <= k
  <2>1. ties \subseteq Nat /\ ties # {}
    BY <1>2, <1>3
  <2> HIDE DEF ties
  <2> QED
    BY <2>1, LeastMember
<1> HIDE DEF least, first
<1>5. IsNearest(input, s, first)
  <2> SUFFICES ASSUME NEW l \in near
               PROVE  \/ Far(input, first) < Far(input, l)
                      \/ Far(input, first) = Far(input, l) /\ first <= l
    BY <1>4 DEF IsNearest
  <2>1. Far(input, first) = least /\ least <= Far(input, l) /\ first \in near
    BY <1>3, <1>4
  <2>2. Far(input, l) = least => first <= l
    BY <1>4
  <2> QED
    BY <1>2, <2>1, <2>2
<1>6. ASSUME NEW k, NEW l, IsNearest(input, s, k), IsNearest(input, s, l) PROVE k = l
  BY <1>2, <1>6 DEF IsNearest
<1>7. IsNearest(input, s, Nearest(input, s))
  BY <1>5 DEF Nearest
<1>8. Nearest(input, s) = first
  BY <1>5, <1>6, <1>7
<1> QED
  BY <1>6, <1>7, <1>8 DEF first, least

\* One turn of the loop: seeing an item with a higher index than those of s.
LEMMA BestStep ==
    ASSUME items \in Seq(Items), NEW input \in Phrases, NEW s \in SUBSET (1 .. Len(items)),
           NEW m \in 1 .. Len(items), \A k \in s : k < m
    PROVE  Best(input, s \union {m}) = Compare(input, Best(input, s), items[m])
<1> DEFINE t == s \union {m}
           b == Best(input, s)
           d == Far(input, m)
           typos == AllowedTypos(items[m].phrase)
           this == [exact |-> d = 0, distance |-> d, answer |-> items[m].answer]
<1>1. /\ m \in Nat /\ d \in Nat /\ typos \in Nat /\ (d = 0 <=> input = items[m].phrase)
      /\ \A k \in s : k \in Nat /\ Far(input, k) \in Nat /\ k < m
  BY Distances
<1>2. Reach(input, t) = Reach(input, s) \union (IF d <= typos THEN {m} ELSE {})
  BY DEF Reach
<1>3. Reach(input, s) \subseteq s
  BY DEF Reach
<1>4. t \in SUBSET (1 .. Len(items))
  OBVIOUS
<1>5. Compare(input, b, items[m]) =
        IF b.exact THEN b
        ELSE IF input = items[m].phrase THEN [exact |-> TRUE, distance |-> 0, answer |-> items[m].answer]
        ELSE IF d <= typos /\ (b.distance = -1 \/ d < b.distance)
             THEN [exact |-> FALSE, distance |-> d, answer |-> items[m].answer]
             ELSE b
  BY DEF Compare, Far
<1> HIDE DEF t, b, d, typos
<1>6. CASE ~(d <= typos)
  <2>1. Best(input, t) = b
    <3>1. Reach(input, t) = Reach(input, s)
      BY <1>2, <1>6
    <3>2. Nearest(input, t) = Nearest(input, s)
      BY <3>1 DEF Nearest, IsNearest
    <3> QED
      BY <3>1, <3>2 DEF Best, b
  <2>2. Compare(input, b, items[m]) = b
    BY <1>1, <1>5, <1>6
  <2> QED
    BY <2>1, <2>2 DEF b, t
<1>7. CASE d <= typos /\ Reach(input, s) = {}
  <2>1. Reach(input, t) = {m}
    BY <1>2, <1>7
  <2>2. Nearest(input, t) = m
    BY <1>4, <2>1, NearestIs DEF IsNearest
  <2>3. Best(input, t) = this
    BY <2>1, <2>2 DEF Best, d
  <2>4. ~b.exact /\ b.distance = -1
    BY <1>7 DEF b, Best, Unmatched
  <2> QED
    BY <1>1, <1>5, <1>7, <2>3, <2>4 DEF b, t
<1>8. CASE d <= typos /\ Reach(input, s) # {}
  <2> DEFINE n == Nearest(input, s)
             far == Far(input, n)
  <2>1. IsNearest(input, s, n)
    BY <1>8, NearestIs
  <2>2. n \in s /\ n \in Reach(input, s) /\ far \in Nat /\ n < m /\ n \in Nat
    BY <1>1, <1>3, <2>1 DEF IsNearest
  <2>3. b = [exact |-> far = 0, distance |-> far, answer |-> items[n].answer]
    BY <1>8 DEF b, Best
  <2>b. b.exact = (far = 0) /\ b.distance = far
    <3> DEFINE e == far = 0
    <3>1. b = [exact |-> e, distance |-> far, answer |-> items[n].answer]
      BY <2>3
    <3> HIDE DEF e, far, n
    <3>2. b.exact = e /\ b.distance = far
      BY <3>1, Zenon
    <3> QED
      BY <3>2 DEF e
  <2>4. Reach(input, t) = Reach(input, s) \union {m} /\ Reach(input, t) # {}
    BY <1>2, <1>8
  <2>5. \A k : IsNearest(input, t, k) => k = Nearest(input, t)
    BY <1>4, <2>4, NearestIs
  <2> HIDE DEF n
  <2>6. CASE d < far
    <3>1. IsNearest(input, t, m)
      <4> SUFFICES ASSUME NEW l \in Reach(input, t)
                   PROVE  d < Far(input, l) \/ (d = Far(input, l) /\ m <= l)
        BY <2>4 DEF IsNearest, d
      <4>1. CASE l = m
        BY <1>1, <4>1 DEF d
      <4>2. CASE l \in Reach(input, s)
        <5>1. far <= Far(input, l) /\ Far(input, l) \in Nat
          BY <1>1, <1>3, <2>1, <2>2, <4>2 DEF IsNearest
        <5> QED
          BY <1>1, <2>2, <2>6, <5>1
      <4> QED
        BY <2>4, <4>1, <4>2
    <3>2. Best(input, t) = this
      BY <2>4, <2>5, <3>1 DEF Best, d
    <3>3. ~b.exact /\ b.distance = far /\ far # -1
      <4>1. far # 0 /\ far # -1
        BY <1>1, <2>2, <2>6
      <4> HIDE DEF far
      <4> QED
        BY <2>b, <4>1, Zenon
    <3> QED
      BY <1>1, <1>5, <1>8, <2>6, <3>2, <3>3 DEF b, t
  <2>7. CASE ~(d < far)
    <3>1. IsNearest(input, t, n)
      <4> SUFFICES ASSUME NEW l \in Reach(input, t)
                   PROVE  far < Far(input, l) \/ (far = Far(input, l) /\ n <= l)
        BY <2>2, <2>4 DEF IsNearest
      <4>1. CASE l = m
        BY <1>1, <2>2, <2>7, <4>1 DEF d
      <4>2. CASE l \in Reach(input, s)
        BY <2>1, <4>2 DEF IsNearest
      <4> QED
        BY <2>4, <4>1, <4>2
    <3>2. Best(input, t) = b
      BY <2>3, <2>4, <2>5, <3>1 DEF Best
    <3>3. CASE far = 0
      <4>1. b.exact
        BY <2>b, <3>3
      <4> QED
        BY <1>5, <3>2, <4>1 DEF b, t
    <3>4. CASE far # 0
      <4>1. ~b.exact /\ b.distance = far /\ far # -1 /\ d # 0
        <5>1. far # -1 /\ d # 0
          BY <1>1, <2>2, <2>7, <3>4
        <5> HIDE DEF far
        <5> QED
          BY <2>b, <3>4, <5>1, Zenon
      <4> QED
        BY <1>1, <1>5, <2>2, <2>7, <3>2, <4>1 DEF b, t
    <3> QED
      BY <3>3, <3>4
  <2> QED
    BY <2>6, <2>7
<1> QED
  BY <1>6, <1>7, <1>8

\* The loop over all the items, of a file that parses, finds the best of them.
LEMMA LookupIs ==
    ASSUME items \in Seq(Items), memory = "json", NEW input \in Phrases
    PROVE  Lookup(input) = Best(input, 1 .. Len(items)).answer
<1> DEFINE D == 1 .. Len(items)
           Body(g) == [t \in SUBSET D |->
                        IF t = {} THEN Unmatched
                        ELSE Compare(input, g[t \ {Max(t)}], items[Max(t)])]
           G == CHOOSE g : g = Body(g)
           B == [t \in SUBSET D |-> Best(input, t)]
<1>n. Len(items) \in Nat /\ DOMAIN items = D /\ IsFiniteSet(D)
  BY FS_Interval
<1>1. Lookup(input) = G[D].answer
  <2> HIDE DEF D
  <2> QED
    BY <1>n DEF Lookup, FoldLeft, MapThenFoldSet
<1>2. \A t \in SUBSET D : t # {} => Max(t) \in t /\ t \ {Max(t)} \in SUBSET D
                             /\ \A k \in t \ {Max(t)} : k < Max(t)
  <2> SUFFICES ASSUME NEW t \in SUBSET D, t # {}
               PROVE  Max(t) \in t /\ \A k \in t \ {Max(t)} : k < Max(t)
    OBVIOUS
  <2>1. Max(t) \in t /\ \A k \in t : k <= Max(t)
    BY <1>n, GreatestMember
  <2>2. Max(t) \in Nat /\ \A k \in t : k \in Nat
    <3>1. \A k \in D : k \in Nat
      OBVIOUS
    <3> HIDE DEF D
    <3> QED
      BY <2>1, <3>1
  <2> HIDE DEF D
  <2> QED
    BY <2>1, <2>2
<1>3. B = Body(B)
  <2> SUFFICES ASSUME NEW t \in SUBSET D
               PROVE  Best(input, t) = IF t = {} THEN Unmatched
                                       ELSE Compare(input, B[t \ {Max(t)}], items[Max(t)])
    OBVIOUS
  <2>1. CASE t = {}
    BY <2>1 DEF Best, Reach
  <2>2. CASE t # {}
    <3> DEFINE m == Max(t)
               s == t \ {m}
    <3>1. m \in D /\ s \in SUBSET D /\ t = s \union {m} /\ \A k \in s : k < m
      BY <1>2, <2>2
    <3>2. B[s] = Best(input, s)
      BY <3>1
    <3> HIDE DEF m, s, B
    <3>3. Best(input, s \union {m}) = Compare(input, Best(input, s), items[m])
      BY <3>1, BestStep
    <3> QED
      BY <2>2, <3>1, <3>2, <3>3 DEF m, s
  <2> QED
    BY <2>1, <2>2
<1>4. G = Body(G)
  <2> HIDE DEF Body, B
  <2> QED
    BY <1>3
<1>5. G[D] = Best(input, D)
  <2> DEFINE T == {t \in SUBSET D : G[t] # Best(input, t)}
             R == StrictSubsetOrdering(D)
  <2>1. SUFFICES ASSUME T # {} PROVE FALSE
    OBVIOUS
  <2>2. IsWellFoundedOn(R, SUBSET D)
    BY <1>n, FS_StrictSubsetOrderingWellFounded, FS_FiniteSubsetsOfFinite
  <2>3. PICK t \in T : \A u \in T : ~(<<u, t>> \in R)
    <3>1. T \subseteq SUBSET D
      OBVIOUS
    <3> HIDE DEF T, R
    <3> QED
      BY <2>1, <2>2, <3>1, WFMin
  <2>4. \A u \in SUBSET D : G[u] = IF u = {} THEN Unmatched
                                   ELSE Compare(input, G[u \ {Max(u)}], items[Max(u)])
    <3> HIDE DEF G
    <3> QED
      BY <1>4
  <2>5. \A u \in SUBSET D : Best(input, u) =
                                IF u = {} THEN Unmatched
                                ELSE Compare(input, Best(input, u \ {Max(u)}), items[Max(u)])
    <3> SUFFICES ASSUME NEW u \in SUBSET D
                 PROVE  Best(input, u) = IF u = {} THEN Unmatched
                                         ELSE Compare(input, Best(input, u \ {Max(u)}), items[Max(u)])
      OBVIOUS
    <3>1. u \ {Max(u)} \in SUBSET D
      OBVIOUS
    <3>2. B[u] = Body(B)[u] /\ B[u] = Best(input, u) /\ B[u \ {Max(u)}] = Best(input, u \ {Max(u)})
      BY <1>3, <3>1
    <3> HIDE DEF B
    <3> QED
      BY <3>2
  <2> HIDE DEF G, B, Body
  <2>6. CASE t = {}
    BY <2>3, <2>4, <2>5, <2>6
  <2>7. CASE t # {}
    <3> DEFINE s == t \ {Max(t)}
    <3>1. s \in SUBSET D /\ <<s, t>> \in R
      BY <1>2, <2>3, <2>7 DEF StrictSubsetOrdering
    <3>2. G[s] = Best(input, s)
      BY <2>3, <3>1
    <3> HIDE DEF s, R
    <3> QED
      BY <2>3, <2>4, <2>5, <2>7, <3>2 DEF s
  <2> QED
    BY <2>6, <2>7
<1> QED
  BY <1>1, <1>5

-----------------------------------------------------------------------------
\* The inductive invariant of the memory matrix.
THEOREM RouterInvariant == RSpec => []RInv
<1>1. RInit => RInv
  <2> SUFFICES ASSUME RInit PROVE RInv
    OBVIOUS
  <2>1. (CHOOSE p \in Phrases : TRUE) \in Phrases
    BY RouterAssumption
  <2>2. <<>> \in Seq(Items)
    OBVIOUS
  <2>3. RTypeInv
    BY <2>1, <2>2 DEF RInit, RTypeInv, RTypeOK, Reply
  <2> QED
    BY <2>3 DEF RInit, RInv, MatrixInv, LearnedIsKept
<1>2. RInv /\ [RNext]_rvars => RInv'
  BY RTypeStep, LearnedStep DEF RInv
<1> QED
  BY <1>1, <1>2, PTL DEF RSpec

\* The values the variables may have.
THEOREM RouterTypeCorrect == RSpec => []RTypeOK
<1>1. RInv => RTypeOK
  BY DEF RInv, RTypeInv
<1> QED
  BY <1>1, RouterInvariant, PTL

\* No reset, refused "learn", torn file or death of the process makes a readable
\* matrix forget what was reported as learned (RegexRouter.kt:220, 231).
THEOREM LearnedCorrect == RSpec => []LearnedIsKept
<1>1. RInv => LearnedIsKept
  BY DEF RInv
<1> QED
  BY <1>1, RouterInvariant, PTL

\* The lookup, which compares item after item and keeps the best so far, answers
\* with the first of the nearest reflexes in reach, and with nothing when none
\* is, for every phrase and every matrix (RegexRouter.kt:251, 262).
THEOREM LookupCorrect == RSpec => []LookupIsNearest
<1>1. RInv => LookupIsNearest
  <2> SUFFICES ASSUME items \in Seq(Items), memory = "json", NEW p \in Phrases
               PROVE  IF Near(p) = {} THEN Lookup(p) = None
                      ELSE LET least == Min({Distance(p, items[k].phrase) : k \in Near(p)})
                               first == Min({k \in Near(p) : Distance(p, items[k].phrase) = least})
                           IN  Lookup(p) = items[first].answer
    BY DEF RInv, RTypeInv, RTypeOK, LookupIsNearest
  <2> DEFINE D == 1 .. Len(items)
  <2>1. Near(p) = Reach(p, D)
    BY DEF Near, Reach, Far
  <2>2. Lookup(p) = Best(p, D).answer
    BY LookupIs
  <2>3. CASE Near(p) = {}
    BY <2>1, <2>2, <2>3 DEF Best, Unmatched
  <2>4. CASE Near(p) # {}
    <3>1. Nearest(p, D) =
            LET least == Min({Far(p, k) : k \in Reach(p, D)})
            IN  Min({k \in Reach(p, D) : Far(p, k) = least})
      BY <2>1, <2>4, NearestIs
    <3>2. Lookup(p) = items[Nearest(p, D)].answer
      BY <2>1, <2>2, <2>4 DEF Best
    <3> QED
      BY <2>1, <2>4, <3>1, <3>2 DEF Far
  <2> QED
    BY <2>3, <2>4
<1> QED
  BY <1>1, RouterInvariant, PTL
-----------------------------------------------------------------------------
(* The typo distance.                                                      *)

\* A set of numbers that has 0 and with every number the next has them all.
LEMMA CountingUp ==
    ASSUME NEW Q, 0 \in Q, \A n \in Nat : n \in Q => n + 1 \in Q
    PROVE  Nat \subseteq Q
<1> DEFINE T == Nat \ Q
<1> SUFFICES ASSUME T # {} PROVE FALSE
  OBVIOUS
<1>1. Min(T) \in T /\ \A y \in T : Min(T) <= y
  <2>1. T \subseteq Nat
    OBVIOUS
  <2> HIDE DEF T
  <2> QED
    BY <2>1, LeastMember
<1>2. PICK m \in T : \A y \in T : m <= y
  BY <1>1
<1>3. m # 0 /\ m \in Nat
  OBVIOUS
<1>4. m - 1 \in Nat /\ (m - 1) + 1 = m /\ m - 1 \notin T
  BY <1>2, <1>3
<1> QED
  BY <1>3, <1>4

\* Within counts edits: within none there is the string, within one more what an
\* edit makes of those.
LEMMA WithinIs ==
    ASSUME NEW s
    PROVE  /\ Within(s, 0) = {s}
           /\ \A d \in Nat : Within(s, d + 1) =
                Within(s, d) \union UNION {Edits(t) : t \in Within(s, d)}
<1> DEFINE More(b) == b \union UNION {Edits(t) : t \in b}
           Body(f, d) == [n \in 0 .. d |-> IF n = 0 THEN {s} ELSE More(f[n - 1])]
           Ball(d) == CHOOSE f : f = Body(f, d)
           Q == {d \in Nat : \E f : f = Body(f, d)}
<1>1. \A d \in Nat : Within(s, d) = Ball(d)[d]
  BY DEF Within
<1> HIDE DEF More
<1>2. 0 \in Q
  <2> DEFINE f == [n \in 0 .. 0 |-> {s}]
  <2>1. f = Body(f, 0)
    BY \A n \in 0 .. 0 : n = 0
  <2> HIDE DEF f
  <2> QED
    BY <2>1
<1>3. ASSUME NEW d \in Nat, d \in Q PROVE d + 1 \in Q
  <2>1. PICK f : f = Body(f, d)
    BY <1>3
  <2> DEFINE g == [n \in 0 .. d + 1 |-> IF n = d + 1 THEN More(f[d]) ELSE f[n]]
  <2>2. \A n \in 0 .. d : g[n] = f[n]
    OBVIOUS
  <2>3. ASSUME NEW n \in 0 .. d + 1
        PROVE  g[n] = IF n = 0 THEN {s} ELSE More(g[n - 1])
    <3>1. CASE n = d + 1
      <4>1. g[n] = More(f[d]) /\ g[n - 1] = f[d] /\ n # 0
        BY <2>2, <3>1
      <4> QED
        BY <4>1
    <3>2. CASE n # d + 1
      <4>1. n \in 0 .. d /\ (n # 0 => n - 1 \in 0 .. d)
        BY <3>2
      <4>2. f[n] = IF n = 0 THEN {s} ELSE More(f[n - 1])
        <5> DEFINE h == Body(f, d)
        <5>1. h[n] = IF n = 0 THEN {s} ELSE More(f[n - 1])
          BY <4>1
        <5> HIDE DEF h
        <5> QED
          BY <2>1, <5>1 DEF h
      <4> HIDE DEF g
      <4> QED
        BY <2>2, <4>1, <4>2
    <3> QED
      BY <3>1, <3>2
  <2>4. g = Body(g, d + 1)
    <3>1. g = [n \in 0 .. d + 1 |-> g[n]]
      OBVIOUS
    <3> HIDE DEF g
    <3> QED
      BY <2>3, <3>1
  <2> HIDE DEF g
  <2> QED
    BY <2>4
<1>4. \A d \in Nat : Ball(d) = Body(Ball(d), d)
  <2> SUFFICES ASSUME NEW d \in Nat PROVE Ball(d) = Body(Ball(d), d)
    OBVIOUS
  <2>1. \E f : f = Body(f, d)
    <3> HIDE DEF Q
    <3>1. d \in Q
      BY <1>2, <1>3, CountingUp
    <3> QED
      BY <3>1 DEF Q
  <2> QED
    BY <2>1
<1>5. ASSUME NEW d \in Nat, NEW n \in 0 .. d
      PROVE  Ball(d)[n] = IF n = 0 THEN {s} ELSE More(Ball(d)[n - 1])
  <2> DEFINE f == Ball(d)
             h == Body(f, d)
  <2>1. f = h
    BY <1>4
  <2>2. h[n] = IF n = 0 THEN {s} ELSE More(f[n - 1])
    OBVIOUS
  <2> HIDE DEF f, h
  <2> QED
    BY <2>1, <2>2 DEF f
<1> HIDE DEF Ball
<1>6. ASSUME NEW d \in Nat
      PROVE  \A n \in 0 .. d : Ball(d)[n] = Ball(d + 1)[n]
  <2> DEFINE R == {n \in Nat : n <= d => Ball(d)[n] = Ball(d + 1)[n]}
  <2>1. 0 \in R
    BY <1>5
  <2>2. ASSUME NEW n \in Nat, n \in R PROVE n + 1 \in R
    <3> SUFFICES ASSUME n + 1 <= d PROVE Ball(d)[n + 1] = Ball(d + 1)[n + 1]
      OBVIOUS
    <3>1. n + 1 \in 0 .. d /\ n + 1 \in 0 .. d + 1 /\ n + 1 # 0 /\ (n + 1) - 1 = n /\ d + 1 \in Nat
      OBVIOUS
    <3>2. Ball(d)[n] = Ball(d + 1)[n]
      BY <2>2, <3>1
    <3>3. Ball(d)[n + 1] = More(Ball(d)[(n + 1) - 1])
      BY <1>5, <3>1
    <3>4. Ball(d + 1)[n + 1] = More(Ball(d + 1)[(n + 1) - 1])
      BY <1>5, <3>1
    <3> QED
      BY <3>1, <3>2, <3>3, <3>4
  <2>3. Nat \subseteq R
    <3> HIDE DEF R
    <3> QED
      BY <2>1, <2>2, CountingUp
  <2> QED
    BY <2>3
<1>7. Within(s, 0) = {s}
  BY <1>1, <1>5
<1>8. ASSUME NEW d \in Nat PROVE Within(s, d + 1) = More(Within(s, d))
  <2>1. d + 1 \in Nat /\ d + 1 \in 0 .. d + 1 /\ d + 1 # 0 /\ (d + 1) - 1 = d /\ d \in 0 .. d
    OBVIOUS
  <2>2. Ball(d + 1)[d + 1] = More(Ball(d + 1)[(d + 1) - 1])
    BY <1>5, <2>1
  <2>3. Ball(d)[d] = Ball(d + 1)[d]
    BY <1>6, <2>1
  <2> QED
    BY <1>1, <2>1, <2>2, <2>3
<1> QED
  BY <1>7, <1>8 DEF More

\* A string without its character k; with c after its character k.
Deleted(s, k)     == SubSeq(s, 1, k - 1) \o SubSeq(s, k + 1, Len(s))
Inserted(s, k, c) == SubSeq(s, 1, k) \o <<c>> \o SubSeq(s, k + 1, Len(s))

\* The edits of a string, one by one.
LEMMA EditIs ==
    ASSUME NEW s, NEW u
    PROVE  u \in Edits(s) <=>
             \/ \E k \in 1 .. Len(s) : u = Deleted(s, k)
             \/ \E k \in 0 .. Len(s), c \in Alphabet : u = Inserted(s, k, c)
             \/ \E k \in 1 .. Len(s), c \in Alphabet : u = [s EXCEPT ![k] = c]
<1>1. Edits(s) = {Deleted(s, k) : k \in 1 .. Len(s)}
                   \union {Inserted(s, k, c) : k \in 0 .. Len(s), c \in Alphabet}
                   \union {[s EXCEPT ![k] = c] : k \in 1 .. Len(s), c \in Alphabet}
  BY DEF Edits, Deleted, Inserted
<1> DEFINE A == {Deleted(s, k) : k \in 1 .. Len(s)}
           B == {Inserted(s, k, c) : k \in 0 .. Len(s), c \in Alphabet}
           C == {[s EXCEPT ![k] = c] : k \in 1 .. Len(s), c \in Alphabet}
<1>2. u \in A <=> \E k \in 1 .. Len(s) : u = Deleted(s, k)
  OBVIOUS
<1>3. u \in B <=> \E k \in 0 .. Len(s), c \in Alphabet : u = Inserted(s, k, c)
  OBVIOUS
<1>4. u \in C <=> \E k \in 1 .. Len(s), c \in Alphabet : u = [s EXCEPT ![k] = c]
  OBVIOUS
<1>5. Edits(s) = A \union B \union C
  BY <1>1
<1> HIDE DEF A, B, C
<1> QED
  BY <1>2, <1>3, <1>4, <1>5

\* What a deletion leaves.
LEMMA DeletedIs ==
    ASSUME NEW s \in Seq(Alphabet), NEW k \in 1 .. Len(s)
    PROVE  /\ Deleted(s, k) \in Seq(Alphabet) /\ Len(Deleted(s, k)) = Len(s) - 1
           /\ \A x \in 1 .. Len(s) - 1 : Deleted(s, k)[x] = IF x < k THEN s[x] ELSE s[x + 1]
<1> DEFINE p == SubSeq(s, 1, k - 1)
           q == SubSeq(s, k + 1, Len(s))
<1>n. Len(s) \in Nat /\ k \in Nat /\ k >= 1 /\ k <= Len(s)
  OBVIOUS
<1>1. /\ p \in Seq(Alphabet) /\ Len(p) = k - 1
      /\ \A x \in 1 .. k - 1 : p[x] = s[x]
  <2>1. \A x \in 1 .. k - 1 : s[x] \in Alphabet
    BY <1>n, ElementOfSeq
  <2>2. /\ SubSeq(s, 1, k - 1) \in Seq(Alphabet)
        /\ Len(SubSeq(s, 1, k - 1)) = IF 1 <= k - 1 THEN (k - 1) - 1 + 1 ELSE 0
        /\ \A x \in 1 .. (k - 1) - 1 + 1 : SubSeq(s, 1, k - 1)[x] = s[1 + x - 1]
    BY <1>n, <2>1, SubSeqProperties
  <2> QED
    BY <1>n, <2>2
<1>2. /\ q \in Seq(Alphabet) /\ Len(q) = Len(s) - k
      /\ \A x \in 1 .. Len(s) - k : q[x] = s[k + x]
  <2>1. \A x \in k + 1 .. Len(s) : s[x] \in Alphabet
    BY <1>n, ElementOfSeq
  <2>2. /\ SubSeq(s, k + 1, Len(s)) \in Seq(Alphabet)
        /\ Len(SubSeq(s, k + 1, Len(s))) = IF k + 1 <= Len(s) THEN Len(s) - (k + 1) + 1 ELSE 0
        /\ \A x \in 1 .. Len(s) - (k + 1) + 1 : SubSeq(s, k + 1, Len(s))[x] = s[(k + 1) + x - 1]
    BY <1>n, <2>1, SubSeqProperties
  <2> QED
    BY <1>n, <2>2
<1>3. Deleted(s, k) = p \o q
  BY DEF Deleted
<1> HIDE DEF p, q
<1>4. /\ p \o q \in Seq(Alphabet) /\ Len(p \o q) = Len(p) + Len(q)
      /\ \A x \in 1 .. Len(p) + Len(q) : (p \o q)[x] = IF x <= Len(p) THEN p[x] ELSE q[x - Len(p)]
  BY <1>1, <1>2, ConcatProperties
<1>5. ASSUME NEW x \in 1 .. Len(s) - 1
      PROVE  (p \o q)[x] = IF x < k THEN s[x] ELSE s[x + 1]
  <2>1. x \in 1 .. Len(p) + Len(q) /\ x \in Nat
    BY <1>n, <1>1, <1>2
  <2>2. CASE x < k
    <3>1. x \in 1 .. k - 1 /\ x <= Len(p)
      BY <1>n, <1>1, <2>1, <2>2
    <3> QED
      BY <1>1, <1>4, <2>1, <2>2, <3>1
  <2>3. CASE ~(x < k)
    <3>1. x - Len(p) \in 1 .. Len(s) - k /\ ~(x <= Len(p)) /\ k + (x - Len(p)) = x + 1
      BY <1>n, <1>1, <2>1, <2>3
    <3> QED
      BY <1>2, <1>4, <2>1, <2>3, <3>1
  <2> QED
    BY <2>2, <2>3
<1> QED
  BY <1>n, <1>1, <1>2, <1>3, <1>4, <1>5

\* What an insertion leaves.
IsInserted(r, s, k, c) ==
    /\ r \in Seq(Alphabet) /\ Len(r) = Len(s) + 1
    /\ \A x \in 1 .. Len(s) + 1 : r[x] = IF x <= k THEN s[x] ELSE IF x = k + 1 THEN c ELSE s[x - 1]

LEMMA InsertedIs ==
    ASSUME NEW s \in Seq(Alphabet), NEW k \in 0 .. Len(s), NEW c \in Alphabet
    PROVE  IsInserted(Inserted(s, k, c), s, k, c)
<1> DEFINE p == SubSeq(s, 1, k)
           m == <<c>>
           q == SubSeq(s, k + 1, Len(s))
<1>n. Len(s) \in Nat /\ k \in Nat /\ k <= Len(s)
  OBVIOUS
<1>1. /\ p \in Seq(Alphabet) /\ Len(p) = k
      /\ \A x \in 1 .. k : p[x] = s[x]
  <2>1. \A x \in 1 .. k : s[x] \in Alphabet
    BY <1>n, ElementOfSeq
  <2>2. /\ SubSeq(s, 1, k) \in Seq(Alphabet)
        /\ Len(SubSeq(s, 1, k)) = IF 1 <= k THEN k - 1 + 1 ELSE 0
        /\ \A x \in 1 .. k - 1 + 1 : SubSeq(s, 1, k)[x] = s[1 + x - 1]
    BY <1>n, <2>1, SubSeqProperties
  <2> QED
    BY <1>n, <2>2
<1>2. /\ q \in Seq(Alphabet) /\ Len(q) = Len(s) - k
      /\ \A x \in 1 .. Len(s) - k : q[x] = s[k + x]
  <2>1. \A x \in k + 1 .. Len(s) : s[x] \in Alphabet
    BY <1>n, ElementOfSeq
  <2>2. /\ SubSeq(s, k + 1, Len(s)) \in Seq(Alphabet)
        /\ Len(SubSeq(s, k + 1, Len(s))) = IF k + 1 <= Len(s) THEN Len(s) - (k + 1) + 1 ELSE 0
        /\ \A x \in 1 .. Len(s) - (k + 1) + 1 : SubSeq(s, k + 1, Len(s))[x] = s[(k + 1) + x - 1]
    BY <1>n, <2>1, SubSeqProperties
  <2> QED
    BY <1>n, <2>2
<1>m. m \in Seq(Alphabet) /\ Len(m) = 1 /\ m[1] = c
  OBVIOUS
<1>3. Inserted(s, k, c) = (p \o m) \o q
  BY DEF Inserted
<1> HIDE DEF p, m, q
<1> DEFINE r == p \o m
<1>4. /\ r \in Seq(Alphabet) /\ Len(r) = Len(p) + Len(m)
      /\ \A x \in 1 .. Len(p) + Len(m) : r[x] = IF x <= Len(p) THEN p[x] ELSE m[x - Len(p)]
  BY <1>1, <1>m, ConcatProperties
<1> HIDE DEF r
<1>5. /\ r \o q \in Seq(Alphabet) /\ Len(r \o q) = Len(r) + Len(q)
      /\ \A x \in 1 .. Len(r) + Len(q) : (r \o q)[x] = IF x <= Len(r) THEN r[x] ELSE q[x - Len(r)]
  <2>1. r \in Seq(Alphabet) /\ q \in Seq(Alphabet)
    BY <1>2, <1>4
  <2> QED
    BY <2>1, ConcatProperties
<1>6. ASSUME NEW x \in 1 .. Len(s) + 1
      PROVE  (r \o q)[x] = IF x <= k THEN s[x] ELSE IF x = k + 1 THEN c ELSE s[x - 1]
  <2>1. x \in 1 .. Len(r) + Len(q) /\ x \in Nat /\ Len(r) = k + 1
    BY <1>n, <1>1, <1>2, <1>m, <1>4
  <2>2. CASE x <= k
    <3>1. x \in 1 .. k /\ x <= Len(p) /\ x \in 1 .. Len(p) + Len(m) /\ x <= Len(r)
      BY <1>n, <1>1, <1>m, <2>1, <2>2
    <3>2. (r \o q)[x] = r[x] /\ r[x] = p[x] /\ p[x] = s[x]
      BY <1>1, <1>4, <1>5, <2>1, <3>1
    <3> QED
      BY <2>2, <3>2
  <2>3. CASE x = k + 1
    <3>1. x \in 1 .. Len(p) + Len(m) /\ x <= Len(r) /\ ~(x <= Len(p)) /\ x - Len(p) = 1 /\ ~(x <= k)
      BY <1>n, <1>1, <1>m, <2>1, <2>3
    <3>2. (r \o q)[x] = r[x] /\ r[x] = m[1]
      BY <1>4, <1>5, <2>1, <3>1
    <3> QED
      BY <1>m, <2>3, <3>1, <3>2
  <2>4. CASE x > k + 1
    <3>1. x - Len(r) \in 1 .. Len(s) - k /\ ~(x <= Len(r)) /\ k + (x - Len(r)) = x - 1 /\ ~(x <= k) /\ x # k + 1
      BY <1>n, <2>1, <2>4
    <3>2. (r \o q)[x] = q[x - Len(r)] /\ q[x - Len(r)] = s[x - 1]
      BY <1>2, <1>5, <2>1, <3>1
    <3> QED
      BY <3>1, <3>2
  <2> QED
    BY <1>n, <2>1, <2>2, <2>3, <2>4
<1> QED
  BY <1>n, <1>1, <1>2, <1>3, <1>m, <1>4, <1>5, <1>6 DEF r, IsInserted

\* Edits of strings are strings, and change their length by one at most.
LEMMA EditsAreStrings ==
    ASSUME NEW s \in Seq(Alphabet), NEW u \in Edits(s)
    PROVE  u \in Seq(Alphabet) /\ Len(u) <= Len(s) + 1 /\ Len(s) <= Len(u) + 1
<1>1. CASE \E k \in 1 .. Len(s) : u = Deleted(s, k)
  <2>1. u \in Seq(Alphabet) /\ Len(u) = Len(s) - 1
    BY <1>1, DeletedIs
  <2> QED
    BY <2>1
<1>2. CASE \E k \in 0 .. Len(s), c \in Alphabet : u = Inserted(s, k, c)
  <2>1. u \in Seq(Alphabet) /\ Len(u) = Len(s) + 1
    BY <1>2, InsertedIs DEF IsInserted
  <2> QED
    BY <2>1
<1>3. CASE \E k \in 1 .. Len(s), c \in Alphabet : u = [s EXCEPT ![k] = c]
  <2>1. u \in Seq(Alphabet) /\ Len(u) = Len(s)
    BY <1>3, ExceptSeq
  <2> QED
    BY <2>1
<1> QED
  BY <1>1, <1>2, <1>3, EditIs

\* An edit of a string is one of the string with a character appended.
LEMMA EditsUnderAppend ==
    ASSUME NEW s \in Seq(Alphabet), NEW u \in Edits(s), NEW b \in Alphabet
    PROVE  Append(u, b) \in Edits(Append(s, b))
<1> DEFINE t == Append(s, b)
           w == Append(u, b)
<1>n. Len(s) \in Nat /\ u \in Seq(Alphabet) /\ Len(u) \in Nat
  BY EditsAreStrings
<1>t. /\ t \in Seq(Alphabet) /\ Len(t) = Len(s) + 1 /\ t[Len(s) + 1] = b
      /\ \A x \in 1 .. Len(s) : t[x] = s[x]
  BY AppendProperties
<1>w. /\ w \in Seq(Alphabet) /\ Len(w) = Len(u) + 1 /\ w[Len(u) + 1] = b
      /\ \A x \in 1 .. Len(u) : w[x] = u[x]
  BY <1>n, AppendProperties
<1> HIDE DEF t, w
<1>1. ASSUME NEW k \in 1 .. Len(s), u = Deleted(s, k) PROVE w \in Edits(t)
  <2>1. k \in 1 .. Len(t) /\ k \in Nat /\ k <= Len(s)
    BY <1>n, <1>t
  <2>2. /\ Deleted(t, k) \in Seq(Alphabet) /\ Len(Deleted(t, k)) = Len(s)
        /\ \A x \in 1 .. Len(s) : Deleted(t, k)[x] = IF x < k THEN t[x] ELSE t[x + 1]
    <3>1. Len(t) - 1 = Len(s)
      BY <1>n, <1>t
    <3>2. /\ Deleted(t, k) \in Seq(Alphabet) /\ Len(Deleted(t, k)) = Len(t) - 1
          /\ \A x \in 1 .. Len(t) - 1 : Deleted(t, k)[x] = IF x < k THEN t[x] ELSE t[x + 1]
      BY <1>t, <2>1, DeletedIs
    <3> QED
      BY <3>1, <3>2
  <2>3. Len(u) = Len(s) - 1 /\ \A x \in 1 .. Len(s) - 1 : u[x] = IF x < k THEN s[x] ELSE s[x + 1]
    BY <1>1, DeletedIs
  <2>4. ASSUME NEW x \in 1 .. Len(s) PROVE w[x] = Deleted(t, k)[x]
    <3>1. CASE x = Len(s)
      BY <1>n, <1>t, <1>w, <2>1, <2>2, <2>3, <3>1
    <3>2. CASE x # Len(s)
      <4>1. x \in 1 .. Len(s) - 1 /\ x + 1 \in 1 .. Len(s) /\ x \in 1 .. Len(u)
        BY <1>n, <2>3, <3>2
      <4> QED
        BY <1>t, <1>w, <2>2, <2>3, <4>1
    <3> QED
      BY <3>1, <3>2
  <2>5. w = Deleted(t, k)
    <3>1. Len(w) = Len(s)
      BY <1>n, <1>w, <2>3
    <3> QED
      BY <1>w, <2>2, <2>4, <3>1, SeqEqual
  <2> QED
    BY <2>1, <2>5, EditIs
<1>2. ASSUME NEW k \in 0 .. Len(s), NEW c \in Alphabet, u = Inserted(s, k, c) PROVE w \in Edits(t)
  <2>1. k \in 0 .. Len(t) /\ k \in Nat /\ k <= Len(s)
    BY <1>n, <1>t
  <2>2. /\ Inserted(t, k, c) \in Seq(Alphabet) /\ Len(Inserted(t, k, c)) = Len(t) + 1
        /\ \A x \in 1 .. Len(t) + 1 :
             Inserted(t, k, c)[x] = IF x <= k THEN t[x] ELSE IF x = k + 1 THEN c ELSE t[x - 1]
    <3>1. t \in Seq(Alphabet) /\ k \in 0 .. Len(t)
      BY <1>t, <2>1
    <3>2. IsInserted(Inserted(t, k, c), t, k, c)
      BY <3>1, InsertedIs
    <3> QED
      BY <3>2 DEF IsInserted
  <2>3. Len(u) = Len(s) + 1 /\ \A x \in 1 .. Len(s) + 1 :
             u[x] = IF x <= k THEN s[x] ELSE IF x = k + 1 THEN c ELSE s[x - 1]
    <3>1. /\ Inserted(s, k, c) \in Seq(Alphabet) /\ Len(Inserted(s, k, c)) = Len(s) + 1
          /\ \A x \in 1 .. Len(s) + 1 :
               Inserted(s, k, c)[x] = IF x <= k THEN s[x] ELSE IF x = k + 1 THEN c ELSE s[x - 1]
      BY InsertedIs DEF IsInserted
    <3> QED
      BY <1>2, <3>1
  <2>l. Len(t) = Len(s) + 1 /\ Len(u) = Len(s) + 1
    BY <1>t, <2>3
  <2>4. ASSUME NEW x \in 1 .. Len(t) + 1 PROVE w[x] = Inserted(t, k, c)[x]
    <3>1. CASE x = Len(t) + 1
      <4>1. x = Len(u) + 1 /\ ~(x <= k) /\ x # k + 1 /\ x - 1 = Len(s) + 1
        BY <1>n, <1>t, <2>1, <2>3, <3>1
      <4> QED
        BY <1>t, <1>w, <2>2, <4>1
    <3>2. CASE x # Len(t) + 1
      <4>1. x \in 1 .. Len(s) + 1 /\ x \in 1 .. Len(u) /\ x \in Nat
        BY <1>n, <2>l, <3>2
      <4>2. /\ x <= k => x \in 1 .. Len(s)
            /\ ~(x <= k) /\ x # k + 1 => x - 1 \in 1 .. Len(s)
        BY <1>n, <2>1, <4>1
      <4> QED
        BY <1>t, <1>w, <2>2, <2>3, <4>1, <4>2
    <3> QED
      BY <3>1, <3>2
  <2>5. w = Inserted(t, k, c)
    <3>1. Len(w) = Len(t) + 1
      BY <1>n, <1>w, <1>t, <2>3
    <3> QED
      BY <1>w, <2>2, <2>4, <3>1, SeqEqual
  <2> QED
    BY <2>1, <2>5, EditIs
<1>3. ASSUME NEW k \in 1 .. Len(s), NEW c \in Alphabet, u = [s EXCEPT ![k] = c] PROVE w \in Edits(t)
  <2> DEFINE e == [t EXCEPT ![k] = c]
  <2>1. k \in 1 .. Len(t) /\ k \in Nat /\ k <= Len(s)
    BY <1>n, <1>t
  <2>2. e \in Seq(Alphabet) /\ Len(e) = Len(t) /\ \A x \in 1 .. Len(t) : e[x] = IF x = k THEN c ELSE t[x]
    BY <1>t, <2>1, ExceptSeq
  <2>3. Len(u) = Len(s) /\ \A x \in 1 .. Len(s) : u[x] = IF x = k THEN c ELSE s[x]
    BY <1>3, ExceptSeq
  <2> HIDE DEF e
  <2>4. ASSUME NEW x \in 1 .. Len(t) PROVE w[x] = e[x]
    <3>1. x = Len(s) + 1 \/ x \in 1 .. Len(s)
      BY <1>n, <1>t
    <3>2. Len(s) + 1 # k
      BY <1>n, <2>1
    <3> QED
      BY <1>t, <1>w, <2>2, <2>3, <3>1, <3>2
  <2>5. w = e
    <3>1. Len(w) = Len(t)
      BY <1>w, <1>t, <2>3
    <3> QED
      BY <1>w, <2>2, <2>4, <3>1, SeqEqual
  <2> QED
    BY <2>1, <2>5, EditIs DEF e
<1> QED
  BY <1>1, <1>2, <1>3, EditIs DEF t, w

\* Dropping, replacing and adding the last character are edits.
LEMMA EndEdits ==
    ASSUME NEW v \in Seq(Alphabet), NEW b \in Alphabet, NEW c \in Alphabet
    PROVE  /\ v \in Edits(Append(v, b))
           /\ Append(v, c) \in Edits(Append(v, b))
           /\ Append(v, b) \in Edits(v)
<1> DEFINE t == Append(v, b)
           w == Append(v, c)
           n == Len(v) + 1
<1>n. Len(v) \in Nat
  OBVIOUS
<1>t. t \in Seq(Alphabet) /\ Len(t) = n /\ t[n] = b /\ \A x \in 1 .. Len(v) : t[x] = v[x]
  BY AppendProperties
<1>w. w \in Seq(Alphabet) /\ Len(w) = n /\ w[n] = c /\ \A x \in 1 .. Len(v) : w[x] = v[x]
  BY AppendProperties
<1> HIDE DEF t, w
<1>1. v \in Edits(t)
  <2>1. n \in 1 .. Len(t) /\ Len(t) - 1 = Len(v)
    BY <1>n, <1>t
  <2>2. /\ Deleted(t, n) \in Seq(Alphabet) /\ Len(Deleted(t, n)) = Len(v)
        /\ \A x \in 1 .. Len(v) : Deleted(t, n)[x] = IF x < n THEN t[x] ELSE t[x + 1]
    <3>1. /\ Deleted(t, n) \in Seq(Alphabet) /\ Len(Deleted(t, n)) = Len(t) - 1
          /\ \A x \in 1 .. Len(t) - 1 : Deleted(t, n)[x] = IF x < n THEN t[x] ELSE t[x + 1]
      BY <1>t, <2>1, DeletedIs
    <3> QED
      BY <2>1, <3>1
  <2>3. \A x \in 1 .. Len(v) : v[x] = Deleted(t, n)[x]
    BY <1>n, <1>t, <2>2
  <2>4. v = Deleted(t, n)
    BY <2>2, <2>3, SeqEqual
  <2> QED
    BY <2>1, <2>4, EditIs
<1>2. w \in Edits(t)
  <2> DEFINE e == [t EXCEPT ![n] = c]
  <2>1. n \in 1 .. Len(t)
    BY <1>n, <1>t
  <2>2. e \in Seq(Alphabet) /\ Len(e) = Len(t) /\ \A x \in 1 .. Len(t) : e[x] = IF x = n THEN c ELSE t[x]
    BY <1>t, <2>1, ExceptSeq
  <2> HIDE DEF e
  <2>3. \A x \in 1 .. Len(w) : w[x] = e[x]
    BY <1>n, <1>t, <1>w, <2>2
  <2>4. w = e
    BY <1>t, <1>w, <2>2, <2>3, SeqEqual
  <2> QED
    BY <2>1, <2>4, EditIs DEF e
<1>3. t \in Edits(v)
  <2>1. Len(v) \in 0 .. Len(v)
    BY <1>n
  <2>2. /\ Inserted(v, Len(v), b) \in Seq(Alphabet) /\ Len(Inserted(v, Len(v), b)) = n
        /\ \A x \in 1 .. n : Inserted(v, Len(v), b)[x] =
             IF x <= Len(v) THEN v[x] ELSE IF x = Len(v) + 1 THEN b ELSE v[x - 1]
    BY <2>1, InsertedIs DEF IsInserted
  <2>3. \A x \in 1 .. n : t[x] = Inserted(v, Len(v), b)[x]
    BY <1>n, <1>t, <2>2
  <2>4. t = Inserted(v, Len(v), b)
    BY <1>t, <2>2, <2>3, SeqEqual
  <2> QED
    BY <2>1, <2>4, EditIs
<1> QED
  BY <1>1, <1>2, <1>3 DEF t, w

\* Every edit of v with b appended is one of v, or replaces or drops the b, or adds
\* a character after it.
LEMMA EditsOfAppend ==
    ASSUME NEW v \in Seq(Alphabet), NEW b \in Alphabet, NEW u \in Edits(Append(v, b))
    PROVE  \/ \E r \in Edits(v) : u = Append(r, b)
           \/ \E c \in Alphabet : u = Append(v, c)
           \/ u = v
           \/ \E c \in Alphabet : u = Append(Append(v, b), c)
<1> DEFINE t == Append(v, b)
           n == Len(v) + 1
           Goal == \/ \E r \in Edits(v) : u = Append(r, b)
                   \/ \E c \in Alphabet : u = Append(v, c)
                   \/ u = v
                   \/ \E c \in Alphabet : u = Append(t, c)
<1>n. Len(v) \in Nat /\ u \in Edits(t)
  OBVIOUS
<1>t. t \in Seq(Alphabet) /\ Len(t) = n /\ t[n] = b /\ \A x \in 1 .. Len(v) : t[x] = v[x]
  BY AppendProperties
<1> HIDE DEF t
<1>1. ASSUME NEW k \in 1 .. n, u = Deleted(t, k) PROVE Goal
  <2>1. Len(t) - 1 = Len(v) /\ k \in 1 .. Len(t) /\ k \in Nat
    BY <1>n, <1>t
  <2>2. u \in Seq(Alphabet) /\ Len(u) = Len(v) /\ \A x \in 1 .. Len(v) : u[x] = IF x < k THEN t[x] ELSE t[x + 1]
    <3>1. /\ Deleted(t, k) \in Seq(Alphabet) /\ Len(Deleted(t, k)) = Len(t) - 1
          /\ \A x \in 1 .. Len(t) - 1 : Deleted(t, k)[x] = IF x < k THEN t[x] ELSE t[x + 1]
      BY <1>t, <2>1, DeletedIs
    <3> QED
      BY <1>1, <2>1, <3>1
  <2>3. CASE k = n
    <3>1. \A x \in 1 .. Len(v) : u[x] = v[x]
      BY <1>n, <1>t, <2>2, <2>3
    <3> QED
      BY <2>2, <3>1, SeqEqual
  <2>4. CASE k # n
    <3> DEFINE r == Deleted(v, k)
               w == Append(r, b)
    <3>1. k \in 1 .. Len(v)
      BY <1>n, <2>1, <2>4
    <3>2. r \in Seq(Alphabet) /\ Len(r) = Len(v) - 1 /\ \A x \in 1 .. Len(v) - 1 : r[x] = IF x < k THEN v[x] ELSE v[x + 1]
      BY <3>1, DeletedIs
    <3>3. r \in Edits(v)
      BY <3>1, EditIs
    <3> HIDE DEF r
    <3>4. w \in Seq(Alphabet) /\ Len(w) = Len(v) /\ w[Len(v)] = b /\ \A x \in 1 .. Len(v) - 1 : w[x] = r[x]
      <4>1. /\ w \in Seq(Alphabet) /\ Len(w) = Len(r) + 1 /\ w[Len(r) + 1] = b
            /\ \A x \in 1 .. Len(r) : w[x] = r[x]
        BY <3>2, AppendProperties
      <4>2. Len(r) = Len(v) - 1 /\ Len(r) + 1 = Len(v)
        BY <1>n, <3>2
      <4> QED
        BY <4>1, <4>2
    <3> HIDE DEF w
    <3>5. ASSUME NEW x \in 1 .. Len(v) PROVE u[x] = w[x]
      <4>1. CASE x = Len(v)
        BY <1>n, <1>t, <2>1, <2>2, <3>1, <3>4, <4>1
      <4>2. CASE x # Len(v)
        <5>1. x \in 1 .. Len(v) - 1 /\ x + 1 \in 1 .. Len(v)
          BY <1>n, <4>2
        <5> QED
          BY <1>t, <2>2, <3>2, <3>4, <5>1
      <4> QED
        BY <4>1, <4>2
    <3>6. u = w
      BY <2>2, <3>4, <3>5, SeqEqual
    <3> QED
      BY <3>3, <3>6 DEF w
  <2> QED
    BY <2>3, <2>4
<1>2. ASSUME NEW k \in 0 .. n, NEW c \in Alphabet, u = Inserted(t, k, c) PROVE Goal
  <2>1. k \in 0 .. Len(t) /\ k \in Nat /\ Len(t) + 1 = n + 1 /\ n \in Nat
    BY <1>n, <1>t
  <2>2. /\ u \in Seq(Alphabet) /\ Len(u) = n + 1
        /\ \A x \in 1 .. n + 1 : u[x] = IF x <= k THEN t[x] ELSE IF x = k + 1 THEN c ELSE t[x - 1]
    <3>1. /\ Inserted(t, k, c) \in Seq(Alphabet) /\ Len(Inserted(t, k, c)) = Len(t) + 1
          /\ \A x \in 1 .. Len(t) + 1 :
               Inserted(t, k, c)[x] = IF x <= k THEN t[x] ELSE IF x = k + 1 THEN c ELSE t[x - 1]
      <4>1. t \in Seq(Alphabet) /\ k \in 0 .. Len(t)
        BY <1>t, <2>1
      <4>2. IsInserted(Inserted(t, k, c), t, k, c)
        BY <4>1, InsertedIs
      <4> QED
        BY <4>2 DEF IsInserted
    <3> QED
      BY <1>2, <2>1, <3>1
  <2>3. CASE k = n
    <3> DEFINE w == Append(t, c)
    <3>1. w \in Seq(Alphabet) /\ Len(w) = n + 1 /\ w[n + 1] = c /\ \A x \in 1 .. n : w[x] = t[x]
      BY <1>t, AppendProperties
    <3> HIDE DEF w
    <3>2. \A x \in 1 .. n + 1 : u[x] = w[x]
      BY <1>n, <2>2, <2>3, <3>1
    <3>3. u = w
      BY <2>2, <3>1, <3>2, SeqEqual
    <3> QED
      BY <3>3 DEF w
  <2>4. CASE k # n
    <3> DEFINE r == Inserted(v, k, c)
               w == Append(r, b)
    <3>1. k \in 0 .. Len(v)
      BY <1>n, <2>1, <2>4
    <3>2. /\ r \in Seq(Alphabet) /\ Len(r) = n
          /\ \A x \in 1 .. n : r[x] = IF x <= k THEN v[x] ELSE IF x = k + 1 THEN c ELSE v[x - 1]
      BY <3>1, InsertedIs DEF IsInserted
    <3>3. r \in Edits(v)
      BY <3>1, EditIs
    <3> HIDE DEF r
    <3>4. w \in Seq(Alphabet) /\ Len(w) = n + 1 /\ w[n + 1] = b /\ \A x \in 1 .. n : w[x] = r[x]
      BY <3>2, AppendProperties
    <3> HIDE DEF w
    <3>5. ASSUME NEW x \in 1 .. n + 1 PROVE u[x] = w[x]
      <4>1. CASE x = n + 1
        <5>1. ~(x <= k) /\ x # k + 1 /\ x - 1 = n
          BY <1>n, <2>1, <2>4, <4>1
        <5> QED
          BY <1>t, <2>2, <3>4, <4>1, <5>1
      <4>2. CASE x # n + 1
        <5>1. x \in 1 .. n
          BY <1>n, <4>2
        <5>2. /\ x <= k => x \in 1 .. Len(v)
              /\ ~(x <= k) /\ x # k + 1 => x - 1 \in 1 .. Len(v)
          BY <1>n, <2>1, <3>1, <5>1
        <5> QED
          BY <1>t, <2>2, <3>2, <3>4, <5>1, <5>2
      <4> QED
        BY <4>1, <4>2
    <3>6. u = w
      BY <2>2, <3>4, <3>5, SeqEqual
    <3> QED
      BY <3>3, <3>6 DEF w
  <2> QED
    BY <2>3, <2>4
<1>3. ASSUME NEW k \in 1 .. n, NEW c \in Alphabet, u = [t EXCEPT ![k] = c] PROVE Goal
  <2>1. k \in 1 .. Len(t) /\ k \in Nat
    BY <1>n, <1>t
  <2>2. u \in Seq(Alphabet) /\ Len(u) = n /\ \A x \in 1 .. n : u[x] = IF x = k THEN c ELSE t[x]
    BY <1>3, <1>t, <2>1, ExceptSeq
  <2>3. CASE k = n
    <3> DEFINE w == Append(v, c)
    <3>1. w \in Seq(Alphabet) /\ Len(w) = n /\ w[n] = c /\ \A x \in 1 .. Len(v) : w[x] = v[x]
      BY AppendProperties
    <3> HIDE DEF w
    <3>2. ASSUME NEW x \in 1 .. n PROVE u[x] = w[x]
      <4>1. x = n \/ x \in 1 .. Len(v)
        BY <1>n
      <4> QED
        BY <1>n, <1>t, <2>2, <2>3, <3>1, <4>1
    <3>3. u = w
      BY <2>2, <3>1, <3>2, SeqEqual
    <3> QED
      BY <3>3 DEF w
  <2>4. CASE k # n
    <3> DEFINE r == [v EXCEPT ![k] = c]
               w == Append(r, b)
    <3>1. k \in 1 .. Len(v)
      BY <1>n, <2>1, <2>4
    <3>2. r \in Seq(Alphabet) /\ Len(r) = Len(v) /\ \A x \in 1 .. Len(v) : r[x] = IF x = k THEN c ELSE v[x]
      BY <3>1, ExceptSeq
    <3>3. r \in Edits(v)
      BY <3>1, EditIs
    <3> HIDE DEF r
    <3>4. w \in Seq(Alphabet) /\ Len(w) = n /\ w[n] = b /\ \A x \in 1 .. Len(v) : w[x] = r[x]
      <4>1. /\ w \in Seq(Alphabet) /\ Len(w) = Len(r) + 1 /\ w[Len(r) + 1] = b
            /\ \A x \in 1 .. Len(r) : w[x] = r[x]
        BY <3>2, AppendProperties
      <4> QED
        BY <3>2, <4>1
    <3> HIDE DEF w
    <3>5. ASSUME NEW x \in 1 .. n PROVE u[x] = w[x]
      <4>1. x = n \/ x \in 1 .. Len(v)
        BY <1>n
      <4> QED
        BY <1>n, <1>t, <2>2, <2>4, <3>2, <3>4, <4>1
    <3>6. u = w
      BY <2>2, <3>4, <3>5, SeqEqual
    <3> QED
      BY <3>3, <3>6 DEF w
  <2> QED
    BY <2>3, <2>4
<1>4. \/ \E k \in 1 .. n : u = Deleted(t, k)
      \/ \E k \in 0 .. n, c \in Alphabet : u = Inserted(t, k, c)
      \/ \E k \in 1 .. n, c \in Alphabet : u = [t EXCEPT ![k] = c]
  BY <1>n, <1>t, EditIs
<1> QED
  BY <1>1, <1>2, <1>3, <1>4 DEF t

\* One edit more.
LEMMA OneMore ==
    ASSUME NEW s, NEW d \in Nat
    PROVE  /\ Within(s, d) \subseteq Within(s, d + 1)
           /\ \A t \in Within(s, d) : Edits(t) \subseteq Within(s, d + 1)
           /\ \A u \in Within(s, d + 1) : u \in Within(s, d) \/ \E t \in Within(s, d) : u \in Edits(t)
<1>1. Within(s, d + 1) = Within(s, d) \union UNION {Edits(t) : t \in Within(s, d)}
  BY WithinIs
<1> QED
  BY <1>1

\* Every d edits of a string leave a string, of a length that differs by d at most.
LEMMA WithinAreStrings ==
    ASSUME NEW s \in Seq(Alphabet), NEW d \in Nat, NEW t \in Within(s, d)
    PROVE  t \in Seq(Alphabet) /\ Len(t) <= Len(s) + d /\ Len(s) <= Len(t) + d
<1> DEFINE Close(u, e) == u \in Seq(Alphabet) /\ Len(u) <= Len(s) + e /\ Len(s) <= Len(u) + e
           Q == {e \in Nat : \A u \in Within(s, e) : Close(u, e)}
<1>1. 0 \in Q
  <2>1. Close(s, 0)
    OBVIOUS
  <2>2. Within(s, 0) = {s}
    BY WithinIs
  <2> HIDE DEF Close
  <2> QED
    BY <2>1, <2>2
<1>2. ASSUME NEW e \in Nat, e \in Q PROVE e + 1 \in Q
  <2> SUFFICES ASSUME NEW u \in Within(s, e + 1) PROVE Close(u, e + 1)
    OBVIOUS
  <2>1. u \in Within(s, e) \/ \E r \in Within(s, e) : u \in Edits(r)
    BY OneMore
  <2>2. CASE u \in Within(s, e)
    <3>1. Close(u, e)
      BY <1>2, <2>2
    <3> QED
      BY <3>1
  <2>3. ASSUME NEW r \in Within(s, e), u \in Edits(r) PROVE Close(u, e + 1)
    <3>1. Close(r, e)
      BY <1>2
    <3>2. u \in Seq(Alphabet) /\ Len(u) <= Len(r) + 1 /\ Len(r) <= Len(u) + 1
      BY <2>3, <3>1, EditsAreStrings
    <3>3. Len(u) \in Nat /\ Len(r) \in Nat /\ Len(s) \in Nat
      BY <3>1, <3>2
    <3> QED
      BY <3>1, <3>2, <3>3
  <2> QED
    BY <2>1, <2>2, <2>3
<1>3. Nat \subseteq Q
  <2> HIDE DEF Q
  <2> QED
    BY <1>1, <1>2, CountingUp
<1>4. d \in Q
  <2> HIDE DEF Q
  <2> QED
    BY <1>3
<1>5. Close(t, d)
  <2> HIDE DEF Close
  <2> QED
    BY <1>4
<1> QED
  BY <1>5

\* What is within fewer edits is within more.
LEMMA WithinGrows ==
    ASSUME NEW s, NEW d \in Nat, NEW e \in Nat, d <= e
    PROVE  Within(s, d) \subseteq Within(s, e)
<1> DEFINE Q == {n \in Nat : Within(s, d) \subseteq Within(s, d + n)}
<1>1. 0 \in Q
  BY d + 0 = d
<1>2. ASSUME NEW n \in Nat, n \in Q PROVE n + 1 \in Q
  <2>1. d + (n + 1) = (d + n) + 1 /\ d + n \in Nat
    OBVIOUS
  <2>2. Within(s, d + n) \subseteq Within(s, (d + n) + 1)
    BY <2>1, OneMore
  <2> QED
    BY <1>2, <2>1, <2>2
<1>3. e - d \in Nat /\ d + (e - d) = e
  OBVIOUS
<1>4. e - d \in Q
  <2> HIDE DEF Q
  <2> QED
    BY <1>1, <1>2, <1>3, CountingUp
<1> QED
  BY <1>3, <1>4

\* The same edits, under one more character.
LEMMA WithinUnderAppend ==
    ASSUME NEW s \in Seq(Alphabet), NEW b \in Alphabet, NEW d \in Nat, NEW v \in Within(s, d)
    PROVE  Append(v, b) \in Within(Append(s, b), d)
<1> DEFINE W(e) == Within(Append(s, b), e)
           Q == {e \in Nat : \A u \in Within(s, e) : Append(u, b) \in W(e)}
<1>1. 0 \in Q
  BY WithinIs
<1>2. ASSUME NEW e \in Nat, e \in Q PROVE e + 1 \in Q
  <2> SUFFICES ASSUME NEW u \in Within(s, e + 1) PROVE Append(u, b) \in W(e + 1)
    OBVIOUS
  <2>1. u \in Within(s, e) \/ \E r \in Within(s, e) : u \in Edits(r)
    BY OneMore
  <2>2. CASE u \in Within(s, e)
    BY <1>2, <2>2, OneMore
  <2>3. ASSUME NEW r \in Within(s, e), u \in Edits(r) PROVE Append(u, b) \in W(e + 1)
    <3>1. Append(r, b) \in W(e) /\ r \in Seq(Alphabet)
      BY <1>2, WithinAreStrings
    <3>2. Append(u, b) \in Edits(Append(r, b))
      BY <2>3, <3>1, EditsUnderAppend
    <3> QED
      BY <3>1, <3>2, OneMore
  <2> QED
    BY <2>1, <2>2, <2>3
<1>3. d \in Q
  <2> HIDE DEF Q
  <2> QED
    BY <1>1, <1>2, CountingUp
<1> QED
  BY <1>3

\* An edit that comes first.
LEMMA WithinAfterEdit ==
    ASSUME NEW s, NEW r, s \in Edits(r), NEW d \in Nat, NEW u \in Within(s, d)
    PROVE  u \in Within(r, d + 1)
<1> DEFINE Q == {e \in Nat : Within(s, e) \subseteq Within(r, e + 1)}
<1>1. 0 \in Q
  <2>1. Within(s, 0) = {s} /\ Within(r, 0) = {r}
    BY WithinIs
  <2>2. s \in Within(r, 0 + 1)
    BY <2>1, WithinIs
  <2> QED
    BY <2>1, <2>2
<1>2. ASSUME NEW e \in Nat, e \in Q PROVE e + 1 \in Q
  <2>1. e + 1 \in Nat /\ Within(s, e + 1) = Within(s, e) \union UNION {Edits(t) : t \in Within(s, e)}
    BY WithinIs
  <2>2. Within(r, (e + 1) + 1) = Within(r, e + 1) \union UNION {Edits(t) : t \in Within(r, e + 1)}
    BY <2>1, OneMore
  <2> QED
    BY <1>2, <2>1, <2>2
<1>3. d \in Q
  <2> HIDE DEF Q
  <2> QED
    BY <1>1, <1>2, CountingUp
<1> QED
  BY <1>3

\* The cost of a character against another.
Mismatch(a, b) == IF a = b THEN 0 ELSE 1

\* The three ways to a cell of the table.
LEMMA CellFromThree ==
    ASSUME NEW s \in Seq(Alphabet), NEW a \in Alphabet, NEW v \in Seq(Alphabet), NEW b \in Alphabet,
           NEW d \in Nat
    PROVE  /\ v \in Within(s, d) => Append(v, b) \in Within(Append(s, a), d + Mismatch(a, b))
           /\ v \in Within(Append(s, a), d) => Append(v, b) \in Within(Append(s, a), d + 1)
           /\ Append(v, b) \in Within(s, d) => Append(v, b) \in Within(Append(s, a), d + 1)
<1>1. ASSUME v \in Within(s, d) PROVE Append(v, b) \in Within(Append(s, a), d + Mismatch(a, b))
  <2>1. Append(v, a) \in Within(Append(s, a), d)
    BY <1>1, WithinUnderAppend
  <2>2. CASE a = b
    <3>1. d + Mismatch(a, b) = d
      BY <2>2 DEF Mismatch
    <3> QED
      BY <2>1, <2>2, <3>1
  <2>3. CASE a # b
    <3>1. d + Mismatch(a, b) = d + 1
      BY <2>3 DEF Mismatch
    <3>2. Append(v, b) \in Edits(Append(v, a))
      BY EndEdits
    <3> QED
      BY <2>1, <3>1, <3>2, OneMore
  <2> QED
    BY <2>2, <2>3
<1>2. ASSUME v \in Within(Append(s, a), d) PROVE Append(v, b) \in Within(Append(s, a), d + 1)
  <2>1. Append(v, b) \in Edits(v)
    BY EndEdits
  <2> QED
    BY <1>2, <2>1, OneMore
<1>3. ASSUME Append(v, b) \in Within(s, d) PROVE Append(v, b) \in Within(Append(s, a), d + 1)
  <2>1. s \in Edits(Append(s, a))
    BY EndEdits
  <2> QED
    BY <1>3, <2>1, WithinAfterEdit
<1> QED
  BY <1>1, <1>2, <1>3

\* n edits of s with a appended split, when they end in u with c appended.
Splits(s, a, u, c, n) ==
    \/ \E e \in Nat : e + Mismatch(a, c) = n /\ u \in Within(s, e)
    \/ \E e \in Nat : e + 1 = n /\ u \in Within(Append(s, a), e)
    \/ \E e \in Nat : e + 1 = n /\ Append(u, c) \in Within(s, e)

\* There is no fourth: edits that lead from one string to another, both not empty,
\* can be split at the last characters.
LEMMA NoOtherWay ==
    ASSUME NEW s \in Seq(Alphabet), NEW a \in Alphabet, NEW v \in Seq(Alphabet), NEW b \in Alphabet,
           NEW d \in Nat, Append(v, b) \in Within(Append(s, a), d)
    PROVE  Splits(s, a, v, b, d)
<1> DEFINE W(n) == Within(Append(s, a), n)
           Split(u, c, n) ==
             \/ \E e \in Nat : e + Mismatch(a, c) = n /\ u \in Within(s, e)
             \/ \E e \in Nat : e + 1 = n /\ u \in W(e)
             \/ \E e \in Nat : e + 1 = n /\ Append(u, c) \in Within(s, e)
           All(n) == \A u \in Seq(Alphabet), c \in Alphabet : Append(u, c) \in W(n) => Split(u, c, n)
           Q == {n \in Nat : All(n)}
<1>s. Append(s, a) \in Seq(Alphabet)
  BY AppendProperties
<1>m. \A c \in Alphabet : Mismatch(a, c) \in {0, 1}
  BY DEF Mismatch
<1>r. \A n \in Nat : /\ W(n) \subseteq W(n + 1) /\ Within(s, n) \subseteq Within(s, n + 1)
                     /\ \A t \in W(n) : Edits(t) \subseteq W(n + 1)
                     /\ \A t \in Within(s, n) : Edits(t) \subseteq Within(s, n + 1)
  BY OneMore
<1>0. 0 \in Q
  <2> SUFFICES ASSUME NEW u \in Seq(Alphabet), NEW c \in Alphabet, Append(u, c) \in W(0)
               PROVE  Split(u, c, 0)
    OBVIOUS
  <2>1. Append(u, c) = Append(s, a)
    BY WithinIs
  <2>2. u = s /\ c = a
    BY <2>1, AppendInjective
  <2>3. u \in Within(s, 0) /\ 0 + Mismatch(a, c) = 0
    BY <2>2, WithinIs DEF Mismatch
  <2> QED
    BY <2>3
\* Later splits are splits of one edit more.
<1>g. ASSUME NEW u \in Seq(Alphabet), NEW c \in Alphabet, NEW n \in Nat, Split(u, c, n)
      PROVE  Split(u, c, n + 1)
  <2>1. ASSUME NEW e \in Nat, e + Mismatch(a, c) = n, u \in Within(s, e) PROVE Split(u, c, n + 1)
    <3>1. e + 1 \in Nat /\ (e + 1) + Mismatch(a, c) = n + 1 /\ u \in Within(s, e + 1)
      <4>1. Mismatch(a, c) \in {0, 1}
        BY <1>m
      <4>2. u \in Within(s, e + 1)
        BY <1>r, <2>1
      <4> QED
        BY <2>1, <4>1, <4>2
    <3> HIDE DEF W
    <3> QED
      BY <3>1
  <2>2. ASSUME NEW e \in Nat, e + 1 = n, u \in W(e) PROVE Split(u, c, n + 1)
    <3>1. n \in Nat /\ u \in W(n)
      BY <1>r, <2>2
    <3> HIDE DEF W
    <3> QED
      BY <3>1
  <2>3. ASSUME NEW e \in Nat, e + 1 = n, Append(u, c) \in Within(s, e) PROVE Split(u, c, n + 1)
    <3>1. n \in Nat /\ Append(u, c) \in Within(s, n)
      BY <1>r, <2>3
    <3> HIDE DEF W
    <3> QED
      BY <3>1
  <2> HIDE DEF W
  <2> QED
    BY <1>g, <2>1, <2>2, <2>3
<1>1. ASSUME NEW n \in Nat, n \in Q PROVE n + 1 \in Q
  <2> SUFFICES ASSUME NEW u \in Seq(Alphabet), NEW c \in Alphabet, Append(u, c) \in W(n + 1)
               PROVE  Split(u, c, n + 1)
    OBVIOUS
  <2>h. All(n)
    BY <1>1
  <2>1. Append(u, c) \in W(n) \/ \E t \in W(n) : Append(u, c) \in Edits(t)
    BY OneMore
  <2>2. CASE Append(u, c) \in W(n)
    <3>1. Split(u, c, n)
      BY <2>h, <2>2
    <3> HIDE DEF Split
    <3> QED
      BY <1>g, <3>1
  <2>3. ASSUME NEW t \in W(n), Append(u, c) \in Edits(t) PROVE Split(u, c, n + 1)
    <3>1. t \in Seq(Alphabet)
      BY <1>s, WithinAreStrings
    <3>2. CASE t = << >>
      <4>1. u = << >>
        <5>1. Len(Append(u, c)) <= Len(t) + 1
          BY <2>3, <3>1, EditsAreStrings
        <5> QED
          BY <3>2, <5>1, AppendProperties, EmptySeq
      <4> HIDE DEF W
      <4> QED
        BY <3>2, <4>1
    <3>3. CASE t # << >>
      <4>1. PICK w \in Seq(Alphabet), b1 \in Alphabet : t = Append(w, b1)
        BY <3>1, <3>3, SequenceEmptyOrAppend
      <4>2. Split(w, b1, n)
        <5> HIDE DEF Split, W
        <5> QED
          BY <2>h, <4>1
      <4>3. \/ \E x \in Edits(w) : Append(u, c) = Append(x, b1)
            \/ \E c1 \in Alphabet : Append(u, c) = Append(w, c1)
            \/ Append(u, c) = w
            \/ \E c1 \in Alphabet : Append(u, c) = Append(t, c1)
        BY <2>3, <4>1, EditsOfAppend
      <4>4. ASSUME NEW x \in Edits(w), Append(u, c) = Append(x, b1) PROVE Split(u, c, n + 1)
        <5>1. u = x /\ c = b1
          BY <4>4, EditsAreStrings, AppendInjective
        <5>2. ASSUME NEW e \in Nat, e + Mismatch(a, b1) = n, w \in Within(s, e) PROVE Split(u, c, n + 1)
          <6>1. e + 1 \in Nat /\ (e + 1) + Mismatch(a, c) = n + 1 /\ u \in Within(s, e + 1)
            <7>1. Mismatch(a, c) \in {0, 1}
              BY <1>m
            <7>2. u \in Within(s, e + 1)
              BY <1>r, <5>1, <5>2
            <7> QED
              BY <5>1, <5>2, <7>1, <7>2
          <6> HIDE DEF W
          <6> QED
            BY <6>1
        <5>3. ASSUME NEW e \in Nat, e + 1 = n, w \in W(e) PROVE Split(u, c, n + 1)
          <6>1. u \in W(n)
            BY <1>r, <5>1, <5>3
          <6> HIDE DEF W
          <6> QED
            BY <6>1
        <5>4. ASSUME NEW e \in Nat, e + 1 = n, Append(w, b1) \in Within(s, e) PROVE Split(u, c, n + 1)
          <6>1. Append(u, c) \in Edits(Append(w, b1))
            BY <5>1, EditsUnderAppend
          <6>2. Append(u, c) \in Within(s, n)
            BY <1>r, <5>4, <6>1
          <6> HIDE DEF W
          <6> QED
            BY <6>2
        <5> HIDE DEF W
        <5> QED
          BY <4>2, <5>2, <5>3, <5>4
      <4>5. ASSUME NEW c1 \in Alphabet, Append(u, c) = Append(w, c1) PROVE Split(u, c, n + 1)
        <5>1. u = w /\ c = c1
          BY <4>5, AppendInjective
        <5>2. ASSUME NEW e \in Nat, e + Mismatch(a, b1) = n, w \in Within(s, e) PROVE Split(u, c, n + 1)
          <6>1. u \in Within(s, n) /\ u \in Within(s, n + 1)
            <7>1. n = e \/ n = e + 1
              BY <1>m, <5>2
            <7>2. w \in Within(s, n)
              BY <1>r, <5>2, <7>1
            <7> QED
              BY <1>r, <5>1, <7>2
          <6>2. n + 1 \in Nat /\ (n + Mismatch(a, c) = n + 1 \/ (n + 1) + Mismatch(a, c) = n + 1)
            BY <1>m
          <6> HIDE DEF W
          <6> QED
            BY <6>1, <6>2
        <5>3. ASSUME NEW e \in Nat, e + 1 = n, w \in W(e) PROVE Split(u, c, n + 1)
          <6>1. u \in W(n)
            BY <1>r, <5>1, <5>3
          <6> HIDE DEF W
          <6> QED
            BY <6>1
        <5>4. ASSUME NEW e \in Nat, e + 1 = n, Append(w, b1) \in Within(s, e) PROVE Split(u, c, n + 1)
          <6>1. Append(u, c) \in Edits(Append(w, b1))
            BY <5>1, EndEdits
          <6>2. Append(u, c) \in Within(s, n)
            BY <1>r, <5>4, <6>1
          <6> HIDE DEF W
          <6> QED
            BY <6>2
        <5> HIDE DEF W
        <5> QED
          BY <4>2, <5>2, <5>3, <5>4
      <4>6. ASSUME Append(u, c) = w PROVE Split(u, c, n + 1)
        <5>2. ASSUME NEW e \in Nat, e + Mismatch(a, b1) = n, w \in Within(s, e) PROVE Split(u, c, n + 1)
          <6>1. Append(u, c) \in Within(s, n)
            <7>1. n = e \/ n = e + 1
              BY <1>m, <5>2
            <7> QED
              BY <1>r, <4>6, <5>2, <7>1
          <6> HIDE DEF W
          <6> QED
            BY <6>1
        <5>3. ASSUME NEW e \in Nat, e + 1 = n, w \in W(e) PROVE Split(u, c, n + 1)
          <6>1. Append(u, c) \in W(n)
            BY <1>r, <4>6, <5>3
          <6>2. Split(u, c, n)
            <7> HIDE DEF Split, W
            <7> QED
              BY <2>h, <6>1
          <6> HIDE DEF Split
          <6> QED
            BY <1>g, <6>2
        <5>4. ASSUME NEW e \in Nat, e + 1 = n, Append(w, b1) \in Within(s, e) PROVE Split(u, c, n + 1)
          <6>1. w \in Edits(Append(w, b1))
            BY EndEdits
          <6>2. Append(u, c) \in Within(s, n)
            BY <1>r, <4>6, <5>4, <6>1
          <6> HIDE DEF W
          <6> QED
            BY <6>2
        <5> HIDE DEF W
        <5> QED
          BY <4>2, <5>2, <5>3, <5>4
      <4>7. ASSUME NEW c1 \in Alphabet, Append(u, c) = Append(t, c1) PROVE Split(u, c, n + 1)
        <5>1. u = t
          BY <3>1, <4>7, AppendInjective
        <5> HIDE DEF W
        <5> QED
          BY <5>1
      <4> HIDE DEF Split
      <4> QED
        BY <4>3, <4>4, <4>5, <4>6, <4>7
    <3> QED
      BY <3>2, <3>3
  <2> HIDE DEF Split
  <2> QED
    BY <2>1, <2>2, <2>3
<1>2. d \in Q
  <2> HIDE DEF Q
  <2> QED
    BY <1>0, <1>1, CountingUp
<1>3. Split(v, b, d)
  <2> HIDE DEF Split, W
  <2> QED
    BY <1>2 DEF W
<1> QED
  BY <1>3 DEF Splits

\* A distance is the least number of edits that is enough.
LEMMA DistanceIsLeast ==
    ASSUME NEW s, NEW t, NEW d \in Nat, IsEditDistance(s, t, d), NEW e \in Nat, t \in Within(s, e)
    PROVE  d <= e
<1> SUFFICES ASSUME e < d PROVE FALSE
  OBVIOUS
<1>1. d - 1 \in Nat /\ e <= d - 1 /\ d # 0
  OBVIOUS
<1>2. Within(s, e) \subseteq Within(s, d - 1)
  BY <1>1, WithinGrows
<1> QED
  BY <1>1, <1>2 DEF IsEditDistance

\* The recurrence of the table.
LEMMA NextCell ==
    ASSUME NEW s \in Seq(Alphabet), NEW a \in Alphabet, NEW v \in Seq(Alphabet), NEW b \in Alphabet,
           NEW d1 \in Nat, IsEditDistance(s, v, d1),
           NEW d2 \in Nat, IsEditDistance(Append(s, a), v, d2),
           NEW d3 \in Nat, IsEditDistance(s, Append(v, b), d3)
    PROVE  LET d == Min({d1 + Mismatch(a, b), d2 + 1, d3 + 1})
           IN  d \in Nat /\ IsEditDistance(Append(s, a), Append(v, b), d)
<1> DEFINE D == {d1 + Mismatch(a, b), d2 + 1, d3 + 1}
           d == Min(D)
<1>1. d \in D /\ \A y \in D : d <= y
  <2>1. D \subseteq Nat /\ D # {}
    BY DEF Mismatch
  <2> HIDE DEF D
  <2> QED
    BY <2>1, LeastMember
<1> HIDE DEF d
<1>2. d \in Nat
  BY <1>1 DEF Mismatch
<1>3. v \in Within(s, d1) /\ v \in Within(Append(s, a), d2) /\ Append(v, b) \in Within(s, d3)
  BY DEF IsEditDistance
<1>4. Append(v, b) \in Within(Append(s, a), d)
  <2>1. Append(v, b) \in Within(Append(s, a), d1 + Mismatch(a, b))
    BY <1>3, CellFromThree
  <2>2. Append(v, b) \in Within(Append(s, a), d2 + 1)
    BY <1>3, CellFromThree
  <2>3. Append(v, b) \in Within(Append(s, a), d3 + 1)
    BY <1>3, CellFromThree
  <2> QED
    BY <1>1, <2>1, <2>2, <2>3
<1>5. ASSUME d # 0, Append(v, b) \in Within(Append(s, a), d - 1) PROVE FALSE
  <2>1. d - 1 \in Nat
    BY <1>2, <1>5
  <2>2. \/ \E e \in Nat : e + Mismatch(a, b) = d - 1 /\ v \in Within(s, e)
        \/ \E e \in Nat : e + 1 = d - 1 /\ v \in Within(Append(s, a), e)
        \/ \E e \in Nat : e + 1 = d - 1 /\ Append(v, b) \in Within(s, e)
    <3>1. Splits(s, a, v, b, d - 1)
      BY <1>5, <2>1, NoOtherWay
    <3> QED
      BY <3>1 DEF Splits
  <2>3. ASSUME NEW e \in Nat, e + Mismatch(a, b) = d - 1, v \in Within(s, e) PROVE FALSE
    <3>1. d1 <= e
      BY <2>3, DistanceIsLeast
    <3> QED
      BY <1>1, <1>2, <2>3, <3>1 DEF Mismatch
  <2>4. ASSUME NEW e \in Nat, e + 1 = d - 1, v \in Within(Append(s, a), e) PROVE FALSE
    <3>1. d2 <= e
      BY <2>4, DistanceIsLeast
    <3> QED
      BY <1>1, <1>2, <2>4, <3>1
  <2>5. ASSUME NEW e \in Nat, e + 1 = d - 1, Append(v, b) \in Within(s, e) PROVE FALSE
    <3>1. d3 <= e
      BY <2>5, DistanceIsLeast
    <3> QED
      BY <1>1, <1>2, <2>5, <3>1
  <2> QED
    BY <2>2, <2>3, <2>4, <2>5
<1>6. IsEditDistance(Append(s, a), Append(v, b), d)
  BY <1>2, <1>4, <1>5 DEF IsEditDistance
<1> QED
  BY <1>2, <1>6 DEF d

\* The first k characters of a string.
Prefix(s, k) == SubSeq(s, 1, k)

\* Prefixes grow by a character at a time.
LEMMA PrefixIs ==
    ASSUME NEW s \in Seq(Alphabet)
    PROVE  /\ Prefix(s, 0) = << >> /\ Prefix(s, Len(s)) = s
           /\ \A k \in 0 .. Len(s) : Prefix(s, k) \in Seq(Alphabet) /\ Len(Prefix(s, k)) = k
           /\ \A k \in 1 .. Len(s) : s[k] \in Alphabet /\ Prefix(s, k) = Append(Prefix(s, k - 1), s[k])
<1>1. Prefix(s, 0) = << >> /\ Prefix(s, Len(s)) = s
  BY SubSeqEmpty, SubSeqFull DEF Prefix
<1>2. ASSUME NEW k \in 0 .. Len(s) PROVE Prefix(s, k) \in Seq(Alphabet) /\ Len(Prefix(s, k)) = k
  <2>1. k \in Nat /\ \A x \in 1 .. k : s[x] \in Alphabet
    BY ElementOfSeq
  <2>2. /\ SubSeq(s, 1, k) \in Seq(Alphabet)
        /\ Len(SubSeq(s, 1, k)) = IF 1 <= k THEN k - 1 + 1 ELSE 0
    BY <2>1, SubSeqProperties
  <2> QED
    BY <2>1, <2>2 DEF Prefix
<1>3. ASSUME NEW k \in 1 .. Len(s)
      PROVE  s[k] \in Alphabet /\ Prefix(s, k) = Append(Prefix(s, k - 1), s[k])
  <2>1. k - 1 \in 0 .. Len(s) /\ s[k] \in Alphabet /\ 1 \in 1 .. Len(s) /\ k \in 1 .. Len(s)
    OBVIOUS
  <2>2. SubSeq(s, 1, k) = SubSeq(s, 1, k - 1) \o <<s[k]>>
    BY <2>1, SubSeqRecursiveSecond
  <2>3. Append(Prefix(s, k - 1), s[k]) = Prefix(s, k - 1) \o <<s[k]>>
    BY <1>2, <2>1, AppendIsConcat
  <2> QED
    BY <2>1, <2>2, <2>3 DEF Prefix
<1> QED
  BY <1>1, <1>2, <1>3

\* The edges of the table: all characters dropped, or all added.
LEMMA Edges ==
    ASSUME NEW s \in Seq(Alphabet), NEW k \in 0 .. Len(s)
    PROVE  IsEditDistance(Prefix(s, k), << >>, k) /\ IsEditDistance(<< >>, Prefix(s, k), k)
<1> DEFINE Q == {n \in Nat : n <= Len(s) => /\ << >> \in Within(Prefix(s, n), n)
                                            /\ Prefix(s, n) \in Within(<< >>, n)}
<1>1. 0 \in Q
  BY PrefixIs, WithinIs
<1>2. ASSUME NEW n \in Nat, n \in Q PROVE n + 1 \in Q
  <2> SUFFICES ASSUME n + 1 <= Len(s)
               PROVE  /\ << >> \in Within(Prefix(s, n + 1), n + 1)
                      /\ Prefix(s, n + 1) \in Within(<< >>, n + 1)
    OBVIOUS
  <2>1. n + 1 \in 1 .. Len(s) /\ (n + 1) - 1 = n /\ n \in 0 .. Len(s)
    OBVIOUS
  <2>2. /\ s[n + 1] \in Alphabet /\ Prefix(s, n) \in Seq(Alphabet)
        /\ Prefix(s, n + 1) = Append(Prefix(s, n), s[n + 1])
    BY <2>1, PrefixIs
  <2>3. Prefix(s, n) \in Edits(Prefix(s, n + 1)) /\ Prefix(s, n + 1) \in Edits(Prefix(s, n))
    BY <2>2, EndEdits
  <2>4. << >> \in Within(Prefix(s, n), n) /\ Prefix(s, n) \in Within(<< >>, n)
    BY <1>2, <2>1
  <2> QED
    BY <2>3, <2>4, OneMore, WithinAfterEdit
<1>3. /\ << >> \in Within(Prefix(s, k), k) /\ Prefix(s, k) \in Within(<< >>, k)
  <2>1. k \in Nat /\ k <= Len(s)
    OBVIOUS
  <2>2. k \in Q
    <3> HIDE DEF Q
    <3> QED
      BY <1>1, <1>2, <2>1, CountingUp
  <2> QED
    BY <2>1, <2>2
<1>4. Prefix(s, k) \in Seq(Alphabet) /\ Len(Prefix(s, k)) = k /\ k \in Nat /\ << >> \in Seq(Alphabet) /\ Len(<< >>) = 0
  BY PrefixIs
<1>5. ASSUME k # 0 PROVE << >> \notin Within(Prefix(s, k), k - 1) /\ Prefix(s, k) \notin Within(<< >>, k - 1)
  <2>1. k - 1 \in Nat
    BY <1>4, <1>5
  <2>2. ASSUME << >> \in Within(Prefix(s, k), k - 1) PROVE FALSE
    <3>1. Len(Prefix(s, k)) <= Len(<< >>) + (k - 1)
      BY <1>4, <2>1, <2>2, WithinAreStrings
    <3> QED
      BY <1>4, <3>1
  <2>3. ASSUME Prefix(s, k) \in Within(<< >>, k - 1) PROVE FALSE
    <3>1. Len(Prefix(s, k)) <= Len(<< >>) + (k - 1)
      BY <1>4, <2>1, <2>3, WithinAreStrings
    <3> QED
      BY <1>4, <3>1
  <2> QED
    BY <2>2, <2>3
<1> QED
  BY <1>3, <1>5 DEF IsEditDistance

\* The types of the loop's variables; a row that was begun is one of the table's.
LoopTypes ==
    /\ lhs \in Seq(Alphabet) /\ rhs \in Seq(Alphabet)
    /\ i \in 1 .. Len(rhs) + 1 /\ j \in 0 .. Len(lhs) + 1
    /\ j # 0 => i <= Len(rhs)
    /\ cost \in [0 .. Len(lhs) -> Nat] /\ newCost \in [0 .. Len(lhs) -> Nat]

\* The cells of the row before i, and those of row i that were computed.
RowDone == \A k \in 0 .. Len(lhs) : IsEditDistance(Prefix(lhs, k), Prefix(rhs, i - 1), cost[k])
RowSoFar == \A k \in 0 .. Len(lhs) : k < j => IsEditDistance(Prefix(lhs, k), Prefix(rhs, i), newCost[k])

FInv == LoopTypes /\ RowDone /\ RowSoFar

\* The inductive invariant of the two-row table.
THEOREM TableInvariant == FSpec => []FInv
<1>1. FInit => FInv
  <2> SUFFICES ASSUME FInit PROVE FInv
    OBVIOUS
  <2>1. LoopTypes
    <3>1. Strings \subseteq Seq(Alphabet)
      BY FuzzyAssumption, SeqDef DEF Strings
    <3>2. lhs \in Seq(Alphabet) /\ rhs \in Seq(Alphabet)
      BY <3>1 DEF FInit
    <3>3. Len(lhs) \in Nat /\ Len(rhs) \in Nat
      BY <3>2
    <3> QED
      BY <3>2, <3>3 DEF FInit, LoopTypes
  <2>2. ASSUME NEW k \in 0 .. Len(lhs)
        PROVE  IsEditDistance(Prefix(lhs, k), Prefix(rhs, i - 1), cost[k])
    <3>1. cost[k] = k /\ Prefix(rhs, i - 1) = << >>
      BY <2>1, PrefixIs DEF FInit, LoopTypes
    <3> QED
      BY <2>1, <3>1, Edges DEF LoopTypes
  <2>3. RowSoFar
    BY DEF FInit, RowSoFar
  <2> QED
    BY <2>1, <2>2, <2>3 DEF FInv, RowDone
<1>2. FInv /\ [FNext]_fvars => FInv'
  <2> SUFFICES ASSUME FInv, [FNext]_fvars PROVE FInv'
    OBVIOUS
  <2> USE DEF FInv, LoopTypes
  <2>n. Len(lhs) \in Nat /\ Len(rhs) \in Nat /\ i \in Nat /\ j \in Nat
    OBVIOUS
  <2>1. CASE BeginRow
    <3>1. /\ lhs' = lhs /\ rhs' = rhs /\ i' = i /\ cost' = cost
          /\ i \in 1 .. Len(rhs) /\ j' = 1
          /\ newCost' = [newCost EXCEPT ![0] = i]
      BY <2>1, <2>n DEF BeginRow, Finished
    <3>2. LoopTypes' /\ RowDone'
      <4>1. 0 \in 0 .. Len(lhs)
        BY <2>n
      <4>2. newCost' \in [0 .. Len(lhs) -> Nat]
        BY <2>n, <3>1, <4>1
      <4> QED
        BY <2>n, <3>1, <4>2 DEF RowDone
    <3>3. ASSUME NEW k \in 0 .. Len(lhs), k < 1
          PROVE  IsEditDistance(Prefix(lhs, k), Prefix(rhs, i), newCost'[k])
      <4>1. k = 0 /\ newCost'[k] = i /\ Prefix(lhs, k) = << >>
        BY <3>1, <3>3, PrefixIs
      <4>2. IsEditDistance(<< >>, Prefix(rhs, i), i)
        BY <3>1, Edges
      <4> QED
        BY <4>1, <4>2
    <3> QED
      BY <3>1, <3>2, <3>3 DEF RowSoFar
  <2>2. CASE Cell
    <3> DEFINE match == IF lhs[j] = rhs[i] THEN 0 ELSE 1
               d == Min({cost[j - 1] + match, cost[j] + 1, newCost[j - 1] + 1})
    <3>1. /\ lhs' = lhs /\ rhs' = rhs /\ i' = i /\ cost' = cost
          /\ j \in 1 .. Len(lhs) /\ i \in 1 .. Len(rhs) /\ j' = j + 1
          /\ newCost' = [newCost EXCEPT ![j] = d]
      BY <2>2, <2>n DEF Cell
    <3>2. /\ j \in 0 .. Len(lhs) /\ j - 1 \in 0 .. Len(lhs) /\ j - 1 < j
          /\ cost[j - 1] \in Nat /\ cost[j] \in Nat /\ newCost[j - 1] \in Nat
      BY <3>1
    <3>3. d \in Nat /\ IsEditDistance(Prefix(lhs, j), Prefix(rhs, i), d)
      <4> DEFINE s == Prefix(lhs, j - 1)
                 v == Prefix(rhs, i - 1)
                 a == lhs[j]
                 b == rhs[i]
      <4>1. i - 1 \in 0 .. Len(rhs)
        BY <3>1
      <4>2. /\ s \in Seq(Alphabet) /\ v \in Seq(Alphabet) /\ a \in Alphabet /\ b \in Alphabet
            /\ Prefix(lhs, j) = Append(s, a) /\ Prefix(rhs, i) = Append(v, b)
        BY <3>1, <3>2, <4>1, PrefixIs
      <4>3. /\ IsEditDistance(s, v, cost[j - 1])
            /\ IsEditDistance(Append(s, a), v, cost[j])
            /\ IsEditDistance(s, Append(v, b), newCost[j - 1])
        BY <3>2, <4>2 DEF RowDone, RowSoFar
      <4>4. match = Mismatch(a, b)
        BY DEF Mismatch
      <4> DEFINE m == Min({cost[j - 1] + Mismatch(a, b), cost[j] + 1, newCost[j - 1] + 1})
      <4>5. d = m
        BY <4>4
      <4> HIDE DEF s, v, a, b, match, d
      <4>6. m \in Nat /\ IsEditDistance(Append(s, a), Append(v, b), m)
        BY <3>2, <4>2, <4>3, NextCell
      <4> HIDE DEF m
      <4> QED
        BY <4>2, <4>5, <4>6
    <3> HIDE DEF d
    <3>4. newCost' \in [0 .. Len(lhs) -> Nat] /\ newCost'[j] = d
          /\ \A k \in 0 .. Len(lhs) : k # j => newCost'[k] = newCost[k]
      BY <3>1, <3>2, <3>3
    <3>5. LoopTypes' /\ RowDone'
      BY <2>n, <3>1, <3>4 DEF RowDone
    <3>6. ASSUME NEW k \in 0 .. Len(lhs), k < j + 1
          PROVE  IsEditDistance(Prefix(lhs, k), Prefix(rhs, i), newCost'[k])
      <4>1. CASE k = j
        BY <3>3, <3>4, <4>1
      <4>2. CASE k # j
        <5>1. k < j /\ newCost'[k] = newCost[k]
          BY <2>n, <3>4, <3>6, <4>2
        <5> QED
          BY <5>1 DEF RowSoFar
      <4> QED
        BY <4>1, <4>2
    <3> QED
      BY <3>1, <3>5, <3>6 DEF RowSoFar
  <2>3. CASE EndRow
    <3>1. /\ lhs' = lhs /\ rhs' = rhs /\ i' = i + 1 /\ cost' = newCost /\ newCost' = cost
          /\ i \in 1 .. Len(rhs) /\ j = Len(lhs) + 1 /\ j' = 0 /\ i' - 1 = i
      BY <2>3, <2>n DEF EndRow, Finished
    <3>2. LoopTypes'
      BY <2>n, <3>1
    <3>3. RowDone'
      <4>1. \A k \in 0 .. Len(lhs) : k < j
        BY <2>n, <3>1
      <4> QED
        BY <3>1, <4>1 DEF RowDone, RowSoFar
    <3>4. RowSoFar'
      BY <2>n, <3>1 DEF RowSoFar
    <3> QED
      BY <3>2, <3>3, <3>4
  <2>4. CASE UNCHANGED fvars
    BY <2>4 DEF fvars, RowDone, RowSoFar
  <2> QED
    BY <2>1, <2>2, <2>3, <2>4 DEF FNext
<1> QED
  BY <1>1, <1>2, PTL DEF FSpec

\* Whenever a row of the table is complete, its cell k is the least number of typos
\* between the first k characters of lhs and what was read of rhs, for strings of
\* any length (RegexRouter.kt:34, 262).
THEOREM TableCorrect == FSpec => []RowsAreDistances
<1>1. FInv => RowsAreDistances
  BY DEF FInv, RowDone, RowsAreDistances, Prefix
<1> QED
  BY <1>1, TableInvariant, PTL

\* What the loops return is the one number of typos between the two strings, and
\* none only for a string and itself: what the router's module assumes of Distance.
THEOREM DistanceIsOne ==
    ASSUME NEW s \in Seq(Alphabet), NEW t \in Seq(Alphabet)
    PROVE  \E d \in Nat : /\ IsEditDistance(s, t, d)
                          /\ \A e \in Nat : IsEditDistance(s, t, e) => e = d
                          /\ d = 0 <=> s = t
<1> DEFINE R == {e \in Nat : t \in Within(s, e)}
           Q == {n \in Nat : n <= Len(t) => Prefix(t, n) \in Within(s, Len(s) + n)}
<1>n. Len(s) \in Nat /\ Len(t) \in Nat
  OBVIOUS
<1>1. 0 \in Q
  <2>1. Prefix(s, Len(s)) = s /\ Prefix(t, 0) = << >> /\ Len(s) \in 0 .. Len(s) /\ Len(s) + 0 = Len(s)
    BY <1>n, PrefixIs
  <2>2. << >> \in Within(s, Len(s))
    BY <2>1, Edges DEF IsEditDistance
  <2> QED
    BY <2>1, <2>2
<1>2. ASSUME NEW n \in Nat, n \in Q PROVE n + 1 \in Q
  <2> SUFFICES ASSUME n + 1 <= Len(t) PROVE Prefix(t, n + 1) \in Within(s, Len(s) + (n + 1))
    OBVIOUS
  <2>1. n + 1 \in 1 .. Len(t) /\ (n + 1) - 1 = n /\ n \in 0 .. Len(t) /\ n <= Len(t)
        /\ Len(s) + (n + 1) = (Len(s) + n) + 1 /\ Len(s) + n \in Nat
    BY <1>n
  <2>2. /\ t[n + 1] \in Alphabet /\ Prefix(t, n) \in Seq(Alphabet)
        /\ Prefix(t, n + 1) = Append(Prefix(t, n), t[n + 1])
    BY <2>1, PrefixIs
  <2>3. Prefix(t, n + 1) \in Edits(Prefix(t, n)) /\ Prefix(t, n) \in Within(s, Len(s) + n)
    BY <1>2, <2>1, <2>2, EndEdits
  <2> QED
    BY <2>1, <2>3, OneMore
<1>3. Len(s) + Len(t) \in R
  <2>1. Len(t) \in Q
    <3> HIDE DEF Q
    <3> QED
      BY <1>1, <1>2, <1>n, CountingUp
  <2> QED
    BY <1>n, <2>1, PrefixIs
<1>4. PICK d \in R : \A e \in R : d <= e
  <2>1. R \subseteq Nat /\ R # {}
    BY <1>3
  <2> HIDE DEF R
  <2> QED
    BY <2>1, LeastMember
<1>5. IsEditDistance(s, t, d)
  <2>1. d = 0 \/ (d - 1 \in Nat /\ ~(d <= d - 1))
    OBVIOUS
  <2> QED
    BY <1>4, <2>1 DEF IsEditDistance
<1>6. ASSUME NEW e \in Nat, IsEditDistance(s, t, e) PROVE e = d
  <2>1. t \in Within(s, e)
    BY <1>6 DEF IsEditDistance
  <2>2. e <= d /\ d <= e
    BY <1>4, <1>6, <2>1, DistanceIsLeast
  <2> QED
    BY <2>2
<1>7. d = 0 <=> s = t
  <2>1. s \in Within(s, 0) /\ \A r \in Within(s, 0) : r = s
    BY WithinIs
  <2>2. s = t => d <= 0
    BY <1>4, <2>1
  <2> QED
    BY <2>1, <2>2
<1> QED
  BY <1>5, <1>6, <1>7
=============================================================================
