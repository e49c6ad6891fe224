---------------------------- MODULE KvCacheProofs ----------------------------
(***************************************************************************)
(* Proofs about KvCache, for every number of cells, of sequences and of    *)
(* positions and every batch.  They go up in layers:                       *)
(*                                                                         *)
(*   folds       a loop of the code is a fold of the model; what holds of  *)
(*               nothing done and is kept by one turn holds at its end     *)
(*   cells       each operation of llama_kv_cells keeps the books of a     *)
(*               cache (GoodCaches), for the counts move with the cell     *)
(*   loops       so do seq_rm, seq_cp, seq_keep, seq_add and seq_div, and  *)
(*               each cell comes out as the loop's body leaves it          *)
(*   ubatches    find_slot gives distinct usable cells; apply_ubatch       *)
(*               writes them, and purges what is older than their tokens;  *)
(*               prepare's way back undoes it                              *)
(*   KInv        the decoder's state has its shape and the cache is good   *)
(*   StepIs      a step told by its effect on the cells; most of the      *)
(*               invariants that follow look at this alone                 *)
(*                                                                         *)
(* On top are the refusal (a slot takes as many empty cells as a cache of  *)
(* that many has), the positions (no cell of the sequence is at or above   *)
(* the next ubatch's first position), what stays as it was without a       *)
(* sliding window, the keys, and that no sequence gets a hole (what a      *)
(* trial makes of each cell is told from the recovery stack, and computing *)
(* the ubatches comes to the same).                                        *)
(***************************************************************************)
EXTENDS KvCache, FiniteSetTheorems, TLAPS

-----------------------------------------------------------------------------
(* Folds.                                                                  *)

\* A family of finite sets that has every set all of whose proper subsets it has.
LEMMA FiniteInduction ==
    ASSUME NEW D, IsFiniteSet(D), NEW Q,
           \A s \in SUBSET D : (\A t \in SUBSET s : t # s => t \in Q) => s \in Q
    PROVE  SUBSET D \subseteq Q
<1> DEFINE T == (SUBSET D) \ Q
           R == StrictSubsetOrdering(D)
<1>1. SUFFICES ASSUME T # {} PROVE FALSE
  OBVIOUS
<1>2. IsWellFoundedOn(R, SUBSET D)
  BY FS_StrictSubsetOrderingWellFounded, FS_FiniteSubsetsOfFinite
<1>3. T \subseteq SUBSET D
  OBVIOUS
<1>4. PICK s \in T : \A t \in T : ~(<<t, s>> \in R)
  <2> HIDE DEF T, R
  <2> QED
    BY <1>1, <1>2, <1>3, WFMin
<1>5. \A t \in SUBSET s : t # s => t \in Q
  <2> SUFFICES ASSUME NEW t \in SUBSET s, t # s, t \notin Q PROVE FALSE
    OBVIOUS
  <2>1. t \in T /\ <<t, s>> \in R
    BY DEF StrictSubsetOrdering
  <2> QED
    BY <1>4, <2>1
<1> QED
  BY <1>5

\* A set of numbers that has 0 and with every number the next has them all.
LEMMA NatSetInduction ==
    ASSUME NEW Q, 0 \in Q, \A n \in Nat : n \in Q => n + 1 \in Q
    PROVE  Nat \subseteq Q
<1> SUFFICES ASSUME NEW n \in Nat PROVE n \in Q
  OBVIOUS
<1> DEFINE D == 0 .. n
           F == {s \in SUBSET D : \A m \in D : s = 0 .. m => m \in Q}
<1>1. IsFiniteSet(D)
  BY FS_Interval
<1>2. ASSUME NEW s \in SUBSET D, \A t \in SUBSET s : t # s => t \in F
      PROVE  s \in F
  <2> SUFFICES ASSUME NEW m \in D, s = 0 .. m PROVE m \in Q
    OBVIOUS
  <2>1. CASE m = 0
    BY <2>1
  <2>2. CASE m # 0
    <3>1. m - 1 \in D /\ m - 1 \in Nat /\ (m - 1) + 1 = m
      BY <2>2
    <3>2. 0 .. (m - 1) \in SUBSET s /\ m \in s /\ m \notin 0 .. (m - 1)
      BY <2>2
    <3>3. 0 .. (m - 1) \in F
      BY <1>2, <3>2
    <3> QED
      BY <3>1, <3>3
  <2> QED
    BY <2>1, <2>2
<1>3. SUBSET D \subseteq F
  <2>1. \A s \in SUBSET D : (\A t \in SUBSET s : t # s => t \in F) => s \in F
    BY <1>2
  <2> HIDE DEF D, F
  <2> QED
    BY <1>1, <2>1, FiniteInduction
<1>4. D \in F
  <2> HIDE DEF D, F
  <2> QED
    BY <1>3
<1> QED
  BY <1>4

\* A fold over D is a recursion over its subsets: of each, ch takes an element away.
\* A step leads from one set of the family P to the next.
Picks(ch, D) == \A s \in SUBSET D : s # {} => ch[s] \in s
Leads(step, P, ch, D) ==
    \A s \in SUBSET D : s # {} => \A c \in P[s \ {ch[s]}] : step[<<s, c>>] \in P[s]
Folds(g, base, step, P, ch, D) ==
    /\ g = [s \in SUBSET D |-> g[s]] /\ g[{}] = base
    /\ \A s \in SUBSET D : g[s] \in P[s]
    /\ \A s \in SUBSET D : s # {} => g[s] = step[<<s, g[s \ {ch[s]}]>>]

\* There is a function that satisfies the recursion.
LEMMA FoldExists ==
    ASSUME NEW D, IsFiniteSet(D), NEW ch, Picks(ch, D),
           NEW P, NEW base \in P[{}], NEW step, Leads(step, P, ch, D)
    PROVE  \E g : Folds(g, base, step, P, ch, D)
<1> USE DEF Picks, Leads
<1> DEFINE U == UNION {P[s] : s \in SUBSET D}
<1>u. \A s \in SUBSET D : P[s] \subseteq U
  OBVIOUS
<1> HIDE DEF U
<1> DEFINE Eq(g, s) == g[s] = IF s = {} THEN base ELSE step[<<s, g[s \ {ch[s]}]>>]
           Small(n) == {s \in SUBSET D : Cardinality(s) <= n}
           Good(g, n) == \A s \in Small(n) : Eq(g, s) /\ g[s] \in P[s]
           Q == {n \in Nat : \E g \in [SUBSET D -> U] : Good(g, n)}
<1>1. \A s \in SUBSET D : IsFiniteSet(s) /\ Cardinality(s) \in Nat
  BY FS_Subset, FS_CardinalityType
<1>2. \A s \in SUBSET D : s # {} =>
        /\ s \ {ch[s]} \in SUBSET D /\ Cardinality(s \ {ch[s]}) = Cardinality(s) - 1
  BY <1>1, FS_RemoveElement
<1>3. 0 \in Q
  <2> DEFINE g == [s \in SUBSET D |-> base]
  <2>1. \A s \in Small(0) : s = {}
    BY <1>1, FS_EmptySet
  <2>2. g \in [SUBSET D -> U] /\ g[{}] = base
    BY <1>u
  <2>3. Good(g, 0)
    <3> HIDE DEF g, Small
    <3> QED
      BY <2>1, <2>2
  <2> QED
    BY <2>2, <2>3
<1>4. ASSUME NEW n \in Nat, n \in Q PROVE n + 1 \in Q
  <2>1. PICK g \in [SUBSET D -> U] : Good(g, n)
    BY <1>4
  <2> DEFINE h == [s \in SUBSET D |-> IF s \in Small(n) THEN g[s]
                                   ELSE IF s \in Small(n + 1) THEN step[<<s, g[s \ {ch[s]}]>>]
                                   ELSE base]
  <2>2. \A s \in Small(n + 1) : s # {} => s \ {ch[s]} \in Small(n)
    BY <1>1, <1>2
  <2>3. Small(n) \subseteq Small(n + 1) /\ {} \in Small(n) /\ Small(n + 1) \subseteq SUBSET D
    BY <1>1, FS_EmptySet
  <2>4. \A s \in Small(n) : h[s] = g[s]
    BY <2>3
  <2>5. \A s \in Small(n + 1) : s \notin Small(n) => h[s] = step[<<s, g[s \ {ch[s]}]>>]
    BY <2>3
  <2>6. Good(h, n + 1)
    <3> HIDE DEF h, Small
    <3> SUFFICES ASSUME NEW s \in Small(n + 1) PROVE Eq(h, s) /\ h[s] \in P[s]
      OBVIOUS
    <3>1. CASE s \in Small(n)
      BY <2>1, <2>2, <2>3, <2>4, <3>1
    <3>2. CASE s \notin Small(n)
      <4>1. s # {} /\ s \ {ch[s]} \in Small(n) /\ s \in SUBSET D
        BY <2>2, <2>3, <3>2
      <4>2. h[s \ {ch[s]}] = g[s \ {ch[s]}] /\ g[s \ {ch[s]}] \in P[s \ {ch[s]}]
        BY <2>1, <2>4, <4>1
      <4> QED
        BY <2>5, <3>2, <4>1, <4>2
    <3> QED
      BY <3>1, <3>2
  <2>7. h \in [SUBSET D -> U]
    <3> SUFFICES ASSUME NEW s \in SUBSET D PROVE h[s] \in U
      OBVIOUS
    <3>1. CASE s \in Small(n + 1)
      <4> HIDE DEF h, Small
      <4>1. h[s] \in P[s]
        BY <2>6, <3>1
      <4> QED
        BY <1>u, <4>1
    <3>2. CASE s \notin Small(n + 1)
      <4>1. h[s] = base
        BY <2>3, <3>2
      <4> HIDE DEF h
      <4> QED
        BY <1>u, <4>1
    <3> QED
      BY <3>1, <3>2
  <2> HIDE DEF h, Good
  <2> QED
    BY <2>6, <2>7
<1>5. Cardinality(D) \in Q
  <2>1. Nat \subseteq Q
    <3> HIDE DEF Q
    <3> QED
      BY <1>3, <1>4, NatSetInduction
  <2> HIDE DEF Q
  <2> QED
    BY <1>1, <2>1
<1>6. PICK g \in [SUBSET D -> U] : Good(g, Cardinality(D))
  BY <1>5
<1>7. Small(Cardinality(D)) = SUBSET D
  BY FS_Subset
<1>8. \A s \in SUBSET D : Eq(g, s) /\ g[s] \in P[s]
  <2> HIDE DEF Small
  <2> QED
    BY <1>6, <1>7
<1>9. g = [s \in SUBSET D |-> g[s]]
  OBVIOUS
<1> QED
  BY <1>8, <1>9 DEF Folds

\* A function that satisfies the recursion stays in the family.
LEMMA FoldInduction ==
    ASSUME NEW D, IsFiniteSet(D), NEW ch, Picks(ch, D), NEW P, NEW g, g[{}] \in P[{}],
           \A s \in SUBSET D : s # {} /\ g[s \ {ch[s]}] \in P[s \ {ch[s]}] => g[s] \in P[s]
    PROVE  g[D] \in P[D]
<1> USE DEF Picks
<1> DEFINE Q == {s \in SUBSET D : g[s] \in P[s]}
<1>1. ASSUME NEW s \in SUBSET D, \A t \in SUBSET s : t # s => t \in Q
      PROVE  s \in Q
  <2>1. CASE s = {}
    BY <2>1
  <2>2. CASE s # {}
    <3>1. s \ {ch[s]} \in Q
      BY <1>1, <2>2
    <3> QED
      BY <2>2, <3>1
  <2> QED
    BY <2>1, <2>2
<1>2. SUBSET D \subseteq Q
  <2>1. \A s \in SUBSET D : (\A t \in SUBSET s : t # s => t \in Q) => s \in Q
    BY <1>1
  <2> HIDE DEF Q
  <2> QED
    BY <2>1, FiniteInduction
<1> QED
  BY <1>2

-----------------------------------------------------------------------------
(* The cells.                                                              *)

\* Caches whose books agree with the cells; caches in the middle of a method.
GoodCaches == {k \in Caches : Books(k)}
RawCaches == [pos : [Cells -> Int], seq : [Cells -> SUBSET Seqs],
              shift : [Cells -> Int], used : SUBSET Cells,
              seq_pos : [Seqs -> [Positions -> Int]], has_shift : BOOLEAN]

\* What a cache may be, given up its books: negative counts, any position.
LEMMA CachesAreRaw == Caches \subseteq RawCaches
  BY DEF Caches, RawCaches, Positions

\* What CountPos does to the counts, and that it leaves the rest.
LEMMA CountPosEffect ==
    ASSUME NEW k \in RawCaches, NEW S, NEW p \in Int, NEW d \in Int
    PROVE  LET r == CountPos(k, S, p, d)
           IN  /\ r \in RawCaches
               /\ r.pos = k.pos /\ r.seq = k.seq /\ r.shift = k.shift
               /\ r.used = k.used /\ r.has_shift = k.has_shift
               /\ \A s \in Seqs, q \in Positions :
                    r.seq_pos[s][q] = k.seq_pos[s][q] + (IF s \in S /\ q = p THEN d ELSE 0)
<1> DEFINE c == [s \in Seqs |->
                  IF s \in S THEN [k.seq_pos[s] EXCEPT ![p] = @ + d] ELSE k.seq_pos[s]]
<1>1. k.seq_pos \in [Seqs -> [Positions -> Int]]
  BY DEF RawCaches
<1>2. ASSUME NEW s \in Seqs PROVE c[s] \in [Positions -> Int]
  <2> DEFINE e == [k.seq_pos[s] EXCEPT ![p] = @ + d]
  <2>1. k.seq_pos[s] \in [Positions -> Int]
    BY <1>1
  <2>2. e \in [Positions -> Int]
    <3> SUFFICES ASSUME NEW q \in Positions PROVE e[q] \in Int
      BY <2>1
    <3>1. CASE q = p
      BY <2>1, <3>1
    <3>2. CASE q # p
      BY <2>1, <3>2
    <3> QED
      BY <3>1, <3>2
  <2>3. c[s] = IF s \in S THEN e ELSE k.seq_pos[s]
    OBVIOUS
  <2> HIDE DEF c, e
  <2> QED
    BY <2>1, <2>2, <2>3
<1>3. \A s \in Seqs, q \in Positions :
        c[s][q] = k.seq_pos[s][q] + (IF s \in S /\ q = p THEN d ELSE 0)
  BY <1>1
<1>4. c \in [Seqs -> [Positions -> Int]]
  BY <1>2
<1>5. CountPos(k, S, p, d) = [k EXCEPT !.seq_pos = c]
  BY DEF CountPos
<1> HIDE DEF c
<1> QED
  BY <1>3, <1>4, <1>5 DEF RawCaches

\* Vacate empties a cell, and the counts stay for its callers to settle.
LEMMA VacateEffect ==
    ASSUME NEW k \in RawCaches, NEW i \in Cells
    PROVE  LET r == Vacate(k, i)
           IN  /\ r \in RawCaches
               /\ r.pos = [k.pos EXCEPT ![i] = -1] /\ r.seq = [k.seq EXCEPT ![i] = {}]
               /\ r.shift = [k.shift EXCEPT ![i] = 0] /\ r.used = k.used \ {i}
               /\ r.seq_pos = k.seq_pos /\ r.has_shift = k.has_shift
<1> DEFINE r == Vacate(k, i)
<1> DEFINE a == [k EXCEPT !.seq = [k.seq EXCEPT ![i] = {}]]
           b == [a EXCEPT !.pos = [k.pos EXCEPT ![i] = -1]]
           e == [b EXCEPT !.shift = [k.shift EXCEPT ![i] = 0]]
<1>0. r = [e EXCEPT !.used = k.used \ {i}]
  BY DEF Vacate, RawCaches
<1>1. /\ r.pos = [k.pos EXCEPT ![i] = -1] /\ r.seq = [k.seq EXCEPT ![i] = {}]
      /\ r.shift = [k.shift EXCEPT ![i] = 0] /\ r.used = k.used \ {i}
      /\ r.seq_pos = k.seq_pos /\ r.has_shift = k.has_shift
      /\ r = [pos |-> r.pos, seq |-> r.seq, shift |-> r.shift, used |-> r.used,
             seq_pos |-> r.seq_pos, has_shift |-> r.has_shift]
  <2> HIDE DEF r
  <2> QED
    BY <1>0 DEF RawCaches
<1>2. r.pos \in [Cells -> Int] /\ r.shift \in [Cells -> Int] /\ r.used \in SUBSET Cells
  BY <1>1 DEF RawCaches
<1>3. r.seq \in [Cells -> SUBSET Seqs]
  <2>1. k.seq \in [Cells -> SUBSET Seqs] /\ {} \in SUBSET Seqs
    BY DEF RawCaches
  <2> HIDE DEF r
  <2> QED
    BY <1>1, <2>1
<1>4. r.seq_pos \in [Seqs -> [Positions -> Int]] /\ r.has_shift \in BOOLEAN
  BY <1>1 DEF RawCaches
<1> HIDE DEF r
<1>5. r \in RawCaches
  BY <1>1, <1>2, <1>3, <1>4 DEF RawCaches
<1> QED
  BY <1>1, <1>5 DEF r

\* r differs from k in a cell, ...
Swapped(r, k, i) ==
    /\ \A j \in Cells : j # i => r.pos[j] = k.pos[j] /\ r.seq[j] = k.seq[j]
    /\ r.pos[i] \in Positions \union {-1}
    /\ r.used = IF r.pos[i] = -1 THEN k.used \ {i} ELSE k.used \union {i}
    /\ r.pos[i] = -1 <=> r.seq[i] = {}
\* ... and its counts have the new cell for the old one, ...
Counted(r, k, i) ==
    \A s \in Seqs, p \in Positions :
        r.seq_pos[s][p] = k.seq_pos[s][p]
          - (IF s \in k.seq[i] /\ p = k.pos[i] THEN 1 ELSE 0)
          + (IF s \in r.seq[i] /\ p = r.pos[i] THEN 1 ELSE 0)
\* ... or no longer have the old one.
Uncounted(r, k, i) ==
    \A s \in Seqs, p \in Positions :
        r.seq_pos[s][p] = k.seq_pos[s][p] + (IF s \in k.seq[i] /\ p = k.pos[i] THEN -1 ELSE 0)

\* A cache that differs from a good one in a cell, and whose books account for it.
LEMMA OneCell ==
    ASSUME NEW k \in GoodCaches, NEW r \in RawCaches, NEW i \in Cells,
           Swapped(r, k, i), Counted(r, k, i)
    PROVE  r \in GoodCaches
<1> USE DEF Swapped, Counted
<1>1. k \in Caches /\ Books(k) /\ IsFiniteSet(Cells)
  BY SizeAssumption, FS_Interval DEF GoodCaches, Cells
<1>2. ASSUME NEW s \in Seqs, NEW p \in Positions
      PROVE  /\ r.seq_pos[s][p] = Cardinality(Holding(r, s, p))
             /\ Cardinality(Holding(r, s, p)) \in Nat
  <2> DEFINE H == Holding(k, s, p)
             G == Holding(r, s, p)
  <2>1. IsFiniteSet(H) /\ IsFiniteSet(G)
    BY <1>1, FS_Subset DEF Holding
  <2>2. H \ {i} = G \ {i}
    BY DEF Holding
  <2>3. i \in H <=> s \in k.seq[i] /\ p = k.pos[i]
    BY DEF Holding
  <2>4. i \in G <=> s \in r.seq[i] /\ p = r.pos[i]
    BY DEF Holding
  <2>5. k.seq_pos[s][p] = Cardinality(H)
    BY <1>1 DEF Books
  <2> HIDE DEF H, G
  <2>6. /\ Cardinality(H) \in Nat
        /\ Cardinality(H \ {i}) = IF i \in H THEN Cardinality(H) - 1 ELSE Cardinality(H)
    BY <2>1, FS_RemoveElement, FS_CardinalityType
  <2>9. /\ Cardinality(G) \in Nat
        /\ Cardinality(G \ {i}) = IF i \in G THEN Cardinality(G) - 1 ELSE Cardinality(G)
    BY <2>1, FS_RemoveElement, FS_CardinalityType
  <2>7. r.seq_pos[s][p] = Cardinality(H) - (IF i \in H THEN 1 ELSE 0) + (IF i \in G THEN 1 ELSE 0)
    BY <2>3, <2>4, <2>5
  <2>8. r.seq_pos[s][p] = Cardinality(G)
    <3>1. Cardinality(H \ {i}) = Cardinality(G \ {i})
      BY <2>2
    <3> QED
      BY <2>6, <2>7, <2>9, <3>1
  <2> QED
    BY <2>8, <2>9 DEF G
<1>3. r.used = {j \in Cells : r.pos[j] # -1}
  BY <1>1 DEF Books, Caches
<1>4. \A j \in Cells : (r.pos[j] = -1) <=> (r.seq[j] = {})
  BY <1>1 DEF Books
<1>5. Books(r)
  BY <1>2, <1>3, <1>4 DEF Books
<1>6. r.pos \in [Cells -> Positions \union {-1}]
  <2>1. k.pos \in [Cells -> Positions \union {-1}] /\ r.pos \in [Cells -> Int]
    BY <1>1 DEF RawCaches, Caches
  <2>2. \A j \in Cells : r.pos[j] \in Positions \union {-1}
    BY <2>1
  <2> QED
    BY <2>1, <2>2
<1>7. r.seq_pos \in [Seqs -> [Positions -> Nat]]
  BY <1>2 DEF RawCaches
<1> QED
  BY <1>5, <1>6, <1>7 DEF RawCaches, Caches, GoodCaches

\* The parts of a good cache have their types.
LEMMA GoodTypes ==
    ASSUME NEW k \in GoodCaches
    PROVE  /\ k \in RawCaches /\ Books(k)
           /\ k.pos \in [Cells -> Positions \union {-1}] /\ k.seq \in [Cells -> SUBSET Seqs]
           /\ \A i \in Cells : k.pos[i] \in Int /\ (k.pos[i] = -1 <=> k.seq[i] = {})
           /\ \A i \in Cells : i \in k.used <=> k.pos[i] # -1
<1>1. k \in Caches /\ Books(k)
  BY DEF GoodCaches
<1>2. k.pos \in [Cells -> Positions \union {-1}] /\ k.seq \in [Cells -> SUBSET Seqs]
  BY <1>1 DEF Caches
<1>3. \A i \in Cells : (k.pos[i] = -1 <=> k.seq[i] = {}) /\ (i \in k.used <=> k.pos[i] # -1)
  BY <1>1 DEF Books
<1>4. \A i \in Cells : k.pos[i] \in Int
  BY <1>2 DEF Positions
<1> QED
  BY <1>1, <1>2, <1>3, <1>4, CachesAreRaw

\* rm: the cell falls empty, ...
LEMMA RmGood ==
    ASSUME NEW k \in GoodCaches, NEW i \in Cells
    PROVE  LET r == Rm(k, i)
           IN  /\ r \in GoodCaches
               /\ r.pos = [k.pos EXCEPT ![i] = -1] /\ r.seq = [k.seq EXCEPT ![i] = {}]
               /\ r.shift = [k.shift EXCEPT ![i] = 0] /\ r.has_shift = k.has_shift
<1> DEFINE m == SeqPosRm(k, i)
           r == Rm(k, i)
<1>1. /\ m \in RawCaches
      /\ m.pos = k.pos /\ m.seq = k.seq /\ m.shift = k.shift
      /\ m.used = k.used /\ m.has_shift = k.has_shift
      /\ \A s \in Seqs, q \in Positions :
           m.seq_pos[s][q] = k.seq_pos[s][q] + (IF s \in k.seq[i] /\ q = k.pos[i] THEN -1 ELSE 0)
  BY GoodTypes, CountPosEffect DEF SeqPosRm
<1>2. r = Vacate(m, i)
  BY DEF Rm
<1> HIDE DEF m, r
<1>3. /\ r \in RawCaches
      /\ r.pos = [k.pos EXCEPT ![i] = -1] /\ r.seq = [k.seq EXCEPT ![i] = {}]
      /\ r.shift = [k.shift EXCEPT ![i] = 0] /\ r.has_shift = k.has_shift
      /\ r.used = k.used \ {i} /\ r.seq_pos = m.seq_pos
  <2>1. /\ r \in RawCaches
        /\ r.pos = [m.pos EXCEPT ![i] = -1] /\ r.seq = [m.seq EXCEPT ![i] = {}]
        /\ r.shift = [m.shift EXCEPT ![i] = 0] /\ r.used = m.used \ {i}
        /\ r.seq_pos = m.seq_pos /\ r.has_shift = m.has_shift
    BY <1>1, <1>2, VacateEffect
  <2> QED
    BY <1>1, <2>1
<1>4. /\ r.pos[i] = -1 /\ r.seq[i] = {}
      /\ \A j \in Cells : j # i => r.pos[j] = k.pos[j] /\ r.seq[j] = k.seq[j]
  BY <1>3, GoodTypes
<1>5. \A s \in Seqs, p \in Positions :
        r.seq_pos[s][p] = k.seq_pos[s][p]
          - (IF s \in k.seq[i] /\ p = k.pos[i] THEN 1 ELSE 0)
          + (IF s \in r.seq[i] /\ p = r.pos[i] THEN 1 ELSE 0)
  BY <1>1, <1>3, <1>4, GoodTypes DEF RawCaches
<1>6. r \in GoodCaches
  <2>s. Swapped(r, k, i)
    BY <1>3, <1>4, <1>5 DEF Swapped
  <2>c. Counted(r, k, i)
    BY <1>3, <1>4, <1>5 DEF Counted
  <2> QED
    BY <1>3, <2>s, <2>c, OneCell
<1> QED
  BY <1>3, <1>6 DEF r

\* ... seq_rm: the cell loses a sequence, and falls empty with the last, ...
LEMMA SeqRmGood ==
    ASSUME NEW k \in GoodCaches, NEW i \in Cells, NEW s \in k.seq[i]
    PROVE  LET r == SeqRm(k, i, s)
           IN  /\ r \in GoodCaches
               /\ r.pos = IF k.seq[i] = {s} THEN [k.pos EXCEPT ![i] = -1] ELSE k.pos
               /\ r.seq = [k.seq EXCEPT ![i] = @ \ {s}]
               /\ r.shift = IF k.seq[i] = {s} THEN [k.shift EXCEPT ![i] = 0] ELSE k.shift
               /\ r.has_shift = k.has_shift
<1> DEFINE m == CountPos(k, {s}, k.pos[i], -1)
           n == [m EXCEPT !.seq[i] = @ \ {s}]
           r == SeqRm(k, i, s)
<1>1. /\ m \in RawCaches
      /\ m.pos = k.pos /\ m.seq = k.seq /\ m.shift = k.shift
      /\ m.used = k.used /\ m.has_shift = k.has_shift
      /\ \A t \in Seqs, q \in Positions :
           m.seq_pos[t][q] = k.seq_pos[t][q] + (IF t \in {s} /\ q = k.pos[i] THEN -1 ELSE 0)
  BY GoodTypes, CountPosEffect
<1>2. r = IF n.seq[i] = {} THEN Vacate(n, i) ELSE n
  BY DEF SeqRm
<1>3. n = [m EXCEPT !.seq = [m.seq EXCEPT ![i] = @ \ {s}]]
  OBVIOUS
<1> HIDE DEF m, n, r
<1>4. /\ [m.seq EXCEPT ![i] = @ \ {s}] \in [Cells -> SUBSET Seqs]
      /\ [m.seq EXCEPT ![i] = @ \ {s}][i] = k.seq[i] \ {s}
  <2>1. m.seq \in [Cells -> SUBSET Seqs] /\ m.seq[i] \ {s} \in SUBSET Seqs
    BY <1>1 DEF RawCaches
  <2> QED
    BY <1>1, <2>1
<1>5. /\ n \in RawCaches
      /\ n.pos = k.pos /\ n.seq = [k.seq EXCEPT ![i] = @ \ {s}] /\ n.shift = k.shift
      /\ n.used = k.used /\ n.has_shift = k.has_shift /\ n.seq_pos = m.seq_pos
      /\ n.seq[i] = k.seq[i] \ {s}
  BY <1>1, <1>3, <1>4 DEF RawCaches
<1>6. /\ r \in RawCaches
      /\ r.pos = IF k.seq[i] = {s} THEN [k.pos EXCEPT ![i] = -1] ELSE k.pos
      /\ r.seq = [k.seq EXCEPT ![i] = @ \ {s}]
      /\ r.shift = IF k.seq[i] = {s} THEN [k.shift EXCEPT ![i] = 0] ELSE k.shift
      /\ r.has_shift = k.has_shift /\ r.seq_pos = m.seq_pos
      /\ r.used = IF k.seq[i] = {s} THEN k.used \ {i} ELSE k.used
  <2>1. CASE k.seq[i] = {s}
    <3>1. r = Vacate(n, i)
      BY <1>2, <1>5, <2>1
    <3>2. [n.seq EXCEPT ![i] = {}] = [k.seq EXCEPT ![i] = @ \ {s}]
      <4>1. n.seq \in [Cells -> SUBSET Seqs] /\ n.seq[i] = {}
        BY <1>5, <2>1 DEF RawCaches
      <4>2. [n.seq EXCEPT ![i] = {}] = n.seq
        BY <4>1
      <4> QED
        BY <1>5, <4>2
    <3>3. /\ r \in RawCaches
          /\ r.pos = [n.pos EXCEPT ![i] = -1] /\ r.seq = [n.seq EXCEPT ![i] = {}]
          /\ r.shift = [n.shift EXCEPT ![i] = 0] /\ r.used = n.used \ {i}
          /\ r.seq_pos = n.seq_pos /\ r.has_shift = n.has_shift
      BY <1>5, <3>1, VacateEffect
    <3> QED
      BY <1>5, <2>1, <3>2, <3>3
  <2>2. CASE k.seq[i] # {s}
    <3>1. r = n
      BY <1>2, <1>5, <2>2
    <3> QED
      BY <1>5, <2>2, <3>1
  <2> QED
    BY <2>1, <2>2
<1>7. /\ r.pos[i] = IF k.seq[i] = {s} THEN -1 ELSE k.pos[i]
      /\ r.seq[i] = k.seq[i] \ {s}
      /\ \A j \in Cells : j # i => r.pos[j] = k.pos[j] /\ r.seq[j] = k.seq[j]
  BY <1>6, GoodTypes
<1>8. \A t \in Seqs, p \in Positions :
        r.seq_pos[t][p] = k.seq_pos[t][p]
          - (IF t \in k.seq[i] /\ p = k.pos[i] THEN 1 ELSE 0)
          + (IF t \in r.seq[i] /\ p = r.pos[i] THEN 1 ELSE 0)
  <2> SUFFICES ASSUME NEW t \in Seqs, NEW p \in Positions
               PROVE  r.seq_pos[t][p] = k.seq_pos[t][p]
                        - (IF t \in k.seq[i] /\ p = k.pos[i] THEN 1 ELSE 0)
                        + (IF t \in r.seq[i] /\ p = r.pos[i] THEN 1 ELSE 0)
    OBVIOUS
  <2>1. k.seq_pos[t][p] \in Int
    BY GoodTypes DEF RawCaches
  <2>2. r.seq_pos[t][p] = k.seq_pos[t][p] + (IF t = s /\ p = k.pos[i] THEN -1 ELSE 0)
    BY <1>1, <1>6
  <2>3. (t \in k.seq[i] /\ p = k.pos[i]) <=>
        ((t = s /\ p = k.pos[i]) \/ (t \in r.seq[i] /\ p = r.pos[i]))
    BY <1>7
  <2>4. ~(t = s /\ t \in r.seq[i])
    BY <1>7
  <2> QED
    BY <2>1, <2>2, <2>3, <2>4
<1>9. r \in GoodCaches
  <2>1. /\ r.pos[i] \in Positions \union {-1} /\ (r.pos[i] = -1 <=> r.seq[i] = {})
        /\ r.used = IF r.pos[i] = -1 THEN k.used \ {i} ELSE k.used \union {i}
    <3>1. k.seq[i] # {} /\ k.pos[i] # -1 /\ i \in k.used /\ k.pos[i] \in Positions \union {-1}
      BY GoodTypes
    <3>2. k.used \union {i} = k.used
      BY <3>1
    <3>3. r.seq[i] = {} <=> k.seq[i] = {s}
      BY <1>7
    <3> QED
      BY <1>6, <1>7, <3>1, <3>2, <3>3
  <2>s. Swapped(r, k, i)
    BY <1>6, <1>7, <1>8, <2>1 DEF Swapped
  <2>c. Counted(r, k, i)
    BY <1>6, <1>7, <1>8, <2>1 DEF Counted
  <2> QED
    BY <1>6, <2>s, <2>c, OneCell
<1> QED
  BY <1>6, <1>9 DEF r

\* One field of a cell is written: its sequences, ...
LEMMA WriteSeq ==
    ASSUME NEW k \in RawCaches, NEW i \in Cells, NEW S \in SUBSET Seqs
    PROVE  LET r == [k EXCEPT !.seq[i] = S]
           IN  /\ r \in RawCaches /\ r.seq = [k.seq EXCEPT ![i] = S]
               /\ r.pos = k.pos /\ r.shift = k.shift /\ r.used = k.used /\ r.seq_pos = k.seq_pos /\ r.has_shift = k.has_shift
<1>1. [k.seq EXCEPT ![i] = S] \in [Cells -> SUBSET Seqs]
  BY DEF RawCaches
<1> QED
  BY <1>1 DEF RawCaches

\* ... its position, ...
LEMMA WritePos ==
    ASSUME NEW k \in RawCaches, NEW i \in Cells, NEW p \in Int
    PROVE  LET r == [k EXCEPT !.pos[i] = p]
           IN  /\ r \in RawCaches /\ r.pos = [k.pos EXCEPT ![i] = p]
               /\ r.seq = k.seq /\ r.shift = k.shift /\ r.used = k.used /\ r.seq_pos = k.seq_pos /\ r.has_shift = k.has_shift
<1>1. [k.pos EXCEPT ![i] = p] \in [Cells -> Int]
  BY DEF RawCaches
<1> QED
  BY <1>1 DEF RawCaches

\* ... or its shift.
LEMMA WriteShift ==
    ASSUME NEW k \in RawCaches, NEW i \in Cells, NEW p \in Int
    PROVE  LET r == [k EXCEPT !.shift[i] = p]
           IN  /\ r \in RawCaches /\ r.shift = [k.shift EXCEPT ![i] = p]
               /\ r.pos = k.pos /\ r.seq = k.seq /\ r.used = k.used /\ r.seq_pos = k.seq_pos /\ r.has_shift = k.has_shift
<1>1. [k.shift EXCEPT ![i] = p] \in [Cells -> Int]
  BY DEF RawCaches
<1> QED
  BY <1>1 DEF RawCaches

\* ... seq_add: an occupied cell gets a sequence it did not have, ...
LEMMA SeqAddGood ==
    ASSUME NEW k \in GoodCaches, NEW i \in Cells, k.pos[i] # -1,
           NEW s \in Seqs, s \notin k.seq[i]
    PROVE  LET r == SeqAdd(k, i, s)
           IN  /\ r \in GoodCaches
               /\ r.pos = k.pos /\ r.seq = [k.seq EXCEPT ![i] = @ \union {s}]
               /\ r.shift = k.shift /\ r.has_shift = k.has_shift
<1> DEFINE m == [k EXCEPT !.seq[i] = @ \union {s}]
           r == SeqAdd(k, i, s)
<1>1. /\ m \in RawCaches /\ m.seq = [k.seq EXCEPT ![i] = @ \union {s}]
      /\ m.pos = k.pos /\ m.shift = k.shift /\ m.used = k.used
      /\ m.seq_pos = k.seq_pos /\ m.has_shift = k.has_shift
  <2>1. k.seq[i] \union {s} \in SUBSET Seqs /\ k.pos[i] \in Int /\ k \in RawCaches
    BY GoodTypes
  <2> QED
    BY <2>1, WriteSeq
<1>2. r = CountPos(m, {s}, k.pos[i], 1)
  BY DEF SeqAdd
<1> HIDE DEF m, r
<1>3. /\ r \in RawCaches /\ r.pos = m.pos /\ r.seq = m.seq /\ r.shift = m.shift
      /\ r.used = m.used /\ r.has_shift = m.has_shift
      /\ \A t \in Seqs, q \in Positions :
           r.seq_pos[t][q] = m.seq_pos[t][q] + (IF t \in {s} /\ q = k.pos[i] THEN 1 ELSE 0)
  BY <1>1, <1>2, CountPosEffect, GoodTypes
<1>4. /\ r.pos[i] = k.pos[i] /\ r.seq[i] = k.seq[i] \union {s}
      /\ \A j \in Cells : j # i => r.pos[j] = k.pos[j] /\ r.seq[j] = k.seq[j]
  BY <1>1, <1>3, GoodTypes
<1>5. \A t \in Seqs, p \in Positions :
        r.seq_pos[t][p] = k.seq_pos[t][p]
          - (IF t \in k.seq[i] /\ p = k.pos[i] THEN 1 ELSE 0)
          + (IF t \in r.seq[i] /\ p = r.pos[i] THEN 1 ELSE 0)
  <2> SUFFICES ASSUME NEW t \in Seqs, NEW p \in Positions
               PROVE  r.seq_pos[t][p] = k.seq_pos[t][p]
                        - (IF t \in k.seq[i] /\ p = k.pos[i] THEN 1 ELSE 0)
                        + (IF t \in r.seq[i] /\ p = r.pos[i] THEN 1 ELSE 0)
    OBVIOUS
  <2>1. k.seq_pos[t][p] \in Int
    BY GoodTypes DEF RawCaches
  <2>2. r.seq_pos[t][p] = k.seq_pos[t][p] + (IF t = s /\ p = k.pos[i] THEN 1 ELSE 0)
    BY <1>1, <1>3
  <2> QED
    BY <1>4, <2>1, <2>2
<1>6. r \in GoodCaches
  <2>1. r.seq[i] # {} /\ r.pos[i] # -1 /\ r.pos[i] \in Positions /\ r.used = k.used \union {i}
    BY <1>1, <1>3, <1>4, GoodTypes
  <2>s. Swapped(r, k, i)
    BY <1>3, <1>4, <1>5, <2>1 DEF Swapped
  <2>c. Counted(r, k, i)
    BY <1>3, <1>4, <1>5, <2>1 DEF Counted
  <2> QED
    BY <1>3, <2>s, <2>c, OneCell
<1> QED
  BY <1>1, <1>3, <1>6 DEF r

\* ... a token is put into a cell, whatever was there, ...
LEMMA PutTokenGood ==
    ASSUME NEW k \in GoodCaches, NEW i \in Cells, NEW p \in Positions, NEW s \in Seqs
    PROVE  LET r == PutToken(k, i, p, s)
           IN  /\ r \in GoodCaches
               /\ r.pos = [k.pos EXCEPT ![i] = p] /\ r.seq = [k.seq EXCEPT ![i] = {s}]
               /\ r.shift = IF k.pos[i] = -1 THEN k.shift ELSE [k.shift EXCEPT ![i] = 0]
               /\ r.has_shift = k.has_shift
<1> DEFINE u == IF IsEmpty(k, i) THEN k ELSE Rm(k, i)
           a == [u EXCEPT !.pos[i] = p]
           v == PosSet(u, i, p)
           m == [v EXCEPT !.seq[i] = @ \union {s}]
           r == PutToken(k, i, p, s)
<1>1. /\ u \in GoodCaches /\ u.pos = [k.pos EXCEPT ![i] = -1] /\ u.seq = [k.seq EXCEPT ![i] = {}]
      /\ u.shift = IF k.pos[i] = -1 THEN k.shift ELSE [k.shift EXCEPT ![i] = 0]
      /\ u.has_shift = k.has_shift /\ u.pos[i] = -1 /\ u.seq[i] = {}
  <2>1. CASE k.pos[i] = -1
    <3>1. u = k /\ k.seq[i] = {}
      BY <2>1, GoodTypes DEF IsEmpty
    <3>2. [k.pos EXCEPT ![i] = -1] = k.pos /\ [k.seq EXCEPT ![i] = {}] = k.seq
      <4>1. k.pos \in [Cells -> Positions \union {-1}] /\ k.seq \in [Cells -> SUBSET Seqs]
        BY GoodTypes
      <4> QED
        BY <2>1, <3>1, <4>1
    <3> HIDE DEF u
    <3> QED
      BY <2>1, <3>1, <3>2
  <2>2. CASE k.pos[i] # -1
    <3>1. u = Rm(k, i)
      BY <2>2 DEF IsEmpty
    <3> HIDE DEF u
    <3>2. /\ u \in GoodCaches /\ u.pos = [k.pos EXCEPT ![i] = -1] /\ u.seq = [k.seq EXCEPT ![i] = {}]
          /\ u.shift = [k.shift EXCEPT ![i] = 0] /\ u.has_shift = k.has_shift
      BY <3>1, RmGood
    <3> QED
      BY <2>2, <3>2, GoodTypes
  <2> QED
    BY <2>1, <2>2
<1>2. r = CountPos(m, {s}, v.pos[i], 1)
  BY DEF PutToken, SeqAdd
<1> HIDE DEF u
<1>3. p \in Int /\ {s} \in SUBSET Seqs /\ u \in RawCaches /\ Books(u)
  BY <1>1, GoodTypes DEF Positions
<1>4. /\ a \in RawCaches /\ a.pos = [u.pos EXCEPT ![i] = p]
      /\ a.seq = u.seq /\ a.shift = u.shift /\ a.used = u.used
      /\ a.seq_pos = u.seq_pos /\ a.has_shift = u.has_shift
  BY <1>3, WritePos
<1>5. v = [a EXCEPT !.used = u.used \union {i}]
  BY DEF PosSet
<1> HIDE DEF a, v
<1>6. /\ v \in RawCaches /\ v.pos = [u.pos EXCEPT ![i] = p]
      /\ v.seq = u.seq /\ v.shift = u.shift /\ v.used = u.used \union {i}
      /\ v.seq_pos = u.seq_pos /\ v.has_shift = u.has_shift
  BY <1>4, <1>5 DEF RawCaches
<1>7. v.seq[i] \union {s} = {s} /\ v.pos[i] = p
  BY <1>1, <1>6, GoodTypes
<1>8. /\ m \in RawCaches /\ m.seq = [u.seq EXCEPT ![i] = {s}]
      /\ m.pos = v.pos /\ m.shift = v.shift /\ m.used = v.used
      /\ m.seq_pos = v.seq_pos /\ m.has_shift = v.has_shift
  <2>1. v.seq[i] \union {s} \in SUBSET Seqs
    BY <1>3, <1>7
  <2>2. /\ m \in RawCaches /\ m.seq = [v.seq EXCEPT ![i] = v.seq[i] \union {s}]
        /\ m.pos = v.pos /\ m.shift = v.shift /\ m.used = v.used
        /\ m.seq_pos = v.seq_pos /\ m.has_shift = v.has_shift
    BY <1>6, <2>1, WriteSeq
  <2> QED
    BY <1>6, <1>7, <2>2
<1> HIDE DEF m, r
<1>9. /\ r \in RawCaches /\ r.pos = m.pos /\ r.seq = m.seq /\ r.shift = m.shift
      /\ r.used = m.used /\ r.has_shift = m.has_shift
      /\ \A t \in Seqs, q \in Positions :
           r.seq_pos[t][q] = m.seq_pos[t][q] + (IF t \in {s} /\ q = p THEN 1 ELSE 0)
  BY <1>2, <1>3, <1>7, <1>8, CountPosEffect
<1>10. /\ r.pos[i] = p /\ r.seq[i] = {s}
       /\ \A j \in Cells : j # i => r.pos[j] = u.pos[j] /\ r.seq[j] = u.seq[j]
  BY <1>1, <1>6, <1>8, <1>9, GoodTypes
<1>11. r \in GoodCaches
  <2>1. p # -1 /\ {s} # {} /\ r.used = u.used \union {i}
    BY <1>6, <1>8, <1>9 DEF Positions
  <2>2. \A t \in Seqs, q \in Positions :
        r.seq_pos[t][q] = u.seq_pos[t][q]
          - (IF t \in u.seq[i] /\ q = u.pos[i] THEN 1 ELSE 0)
          + (IF t \in r.seq[i] /\ q = r.pos[i] THEN 1 ELSE 0)
    BY <1>1, <1>3, <1>6, <1>8, <1>9, <1>10 DEF RawCaches
  <2>s. Swapped(r, u, i)
    BY <1>1, <1>9, <1>10, <2>1, <2>2 DEF Swapped
  <2>c. Counted(r, u, i)
    BY <1>1, <1>9, <1>10, <2>1, <2>2 DEF Counted
  <2> QED
    BY <1>1, <1>9, <2>s, <2>c, OneCell
<1>12. r.pos = [k.pos EXCEPT ![i] = p] /\ r.seq = [k.seq EXCEPT ![i] = {s}]
  <2>1. r.pos = [u.pos EXCEPT ![i] = p] /\ r.seq = [u.seq EXCEPT ![i] = {s}]
    BY <1>6, <1>8, <1>9
  <2>2. k.pos \in [Cells -> Positions \union {-1}] /\ k.seq \in [Cells -> SUBSET Seqs]
    BY GoodTypes
  <2>3. /\ [[k.pos EXCEPT ![i] = -1] EXCEPT ![i] = p] = [k.pos EXCEPT ![i] = p]
        /\ [[k.seq EXCEPT ![i] = {}] EXCEPT ![i] = {s}] = [k.seq EXCEPT ![i] = {s}]
    BY <2>2
  <2> QED
    BY <1>1, <2>1, <2>3
<1> QED
  BY <1>1, <1>6, <1>8, <1>9, <1>11, <1>12 DEF r

\* ... seq_keep: the cell keeps one sequence, or falls empty, ...
LEMMA SeqKeepGood ==
    ASSUME NEW k \in GoodCaches, NEW i \in Cells, NEW s \in Seqs
    PROVE  LET r == SeqKeep(k, i, s)
           IN  /\ r \in GoodCaches
               /\ r.pos = IF s \in k.seq[i] THEN k.pos ELSE [k.pos EXCEPT ![i] = -1]
               /\ r.seq = [k.seq EXCEPT ![i] = @ \intersect {s}]
               /\ r.shift = IF s \in k.seq[i] \/ k.pos[i] = -1 THEN k.shift
                                                           ELSE [k.shift EXCEPT ![i] = 0]
               /\ r.has_shift = k.has_shift
<1> DEFINE r == SeqKeep(k, i, s)
<1>1. CASE s \in k.seq[i]
  <2> DEFINE m == SeqPosRm(k, i)
             n == [m EXCEPT !.seq[i] = {s}]
  <2>1. /\ m \in RawCaches
        /\ m.pos = k.pos /\ m.seq = k.seq /\ m.shift = k.shift
        /\ m.used = k.used /\ m.has_shift = k.has_shift
        /\ \A t \in Seqs, q \in Positions :
             m.seq_pos[t][q] = k.seq_pos[t][q] + (IF t \in k.seq[i] /\ q = k.pos[i] THEN -1 ELSE 0)
    BY GoodTypes, CountPosEffect DEF SeqPosRm
  <2>2. r = CountPos(n, {s}, k.pos[i], 1)
    BY <1>1 DEF SeqKeep
  <2> HIDE DEF m, r
  <2>3. /\ n \in RawCaches /\ n.seq = [m.seq EXCEPT ![i] = {s}]
        /\ n.pos = m.pos /\ n.shift = m.shift /\ n.used = m.used
        /\ n.seq_pos = m.seq_pos /\ n.has_shift = m.has_shift
    <3>1. {s} \in SUBSET Seqs
      OBVIOUS
    <3> QED
      BY <2>1, <3>1, WriteSeq
  <2> HIDE DEF n
  <2>4. /\ r \in RawCaches /\ r.pos = n.pos /\ r.seq = n.seq /\ r.shift = n.shift
        /\ r.used = n.used /\ r.has_shift = n.has_shift
        /\ \A t \in Seqs, q \in Positions :
             r.seq_pos[t][q] = n.seq_pos[t][q] + (IF t \in {s} /\ q = k.pos[i] THEN 1 ELSE 0)
    BY <2>2, <2>3, CountPosEffect, GoodTypes
  <2>5. r.seq = [k.seq EXCEPT ![i] = @ \intersect {s}]
    <3>1. k.seq[i] \intersect {s} = {s}
      BY <1>1
    <3> QED
      BY <2>1, <2>3, <2>4, <3>1
  <2>6. /\ r.pos[i] = k.pos[i] /\ r.seq[i] = {s}
        /\ \A j \in Cells : j # i => r.pos[j] = k.pos[j] /\ r.seq[j] = k.seq[j]
    BY <2>1, <2>3, <2>4, GoodTypes
  <2>7. /\ k.pos[i] # -1 /\ k.pos[i] \in Positions /\ r.used = k.used \union {i}
    BY <1>1, <2>1, <2>3, <2>4, GoodTypes
  <2>8. \A t \in Seqs, q \in Positions :
          r.seq_pos[t][q] = k.seq_pos[t][q]
            - (IF t \in k.seq[i] /\ q = k.pos[i] THEN 1 ELSE 0)
            + (IF t \in r.seq[i] /\ q = r.pos[i] THEN 1 ELSE 0)
    <3> SUFFICES ASSUME NEW t \in Seqs, NEW q \in Positions
                 PROVE  r.seq_pos[t][q] = k.seq_pos[t][q]
                          - (IF t \in k.seq[i] /\ q = k.pos[i] THEN 1 ELSE 0)
                          + (IF t \in r.seq[i] /\ q = r.pos[i] THEN 1 ELSE 0)
      OBVIOUS
    <3>1. k.seq_pos[t][q] \in Int
      BY GoodTypes DEF RawCaches
    <3>2. m.seq_pos[t][q] = k.seq_pos[t][q] + (IF t \in k.seq[i] /\ q = k.pos[i] THEN -1 ELSE 0)
      BY <2>1
    <3>3. r.seq_pos[t][q] = m.seq_pos[t][q] + (IF t \in {s} /\ q = k.pos[i] THEN 1 ELSE 0)
      BY <2>3, <2>4
    <3> QED
      BY <2>6, <3>1, <3>2, <3>3
  <2>9. r \in GoodCaches
    <3>s. Swapped(r, k, i)
      BY <2>4, <2>6, <2>7, <2>8 DEF Swapped
    <3>c. Counted(r, k, i)
      BY <2>4, <2>6, <2>7, <2>8 DEF Counted
    <3> QED
      BY <2>4, <2>6, <3>s, <3>c, OneCell
  <2> QED
    BY <1>1, <2>1, <2>3, <2>4, <2>5, <2>9 DEF r
<1>2. CASE s \notin k.seq[i] /\ k.seq[i] # {}
  <2>1. r = Rm(k, i) /\ k.pos[i] # -1
    BY <1>2, GoodTypes DEF SeqKeep, Rm
  <2>2. k.seq[i] \intersect {s} = {}
    BY <1>2
  <2> HIDE DEF r
  <2>3. /\ r \in GoodCaches
        /\ r.pos = [k.pos EXCEPT ![i] = -1] /\ r.seq = [k.seq EXCEPT ![i] = {}]
        /\ r.shift = [k.shift EXCEPT ![i] = 0] /\ r.has_shift = k.has_shift
    BY <2>1, RmGood
  <2> QED
    BY <1>2, <2>1, <2>2, <2>3 DEF r
<1>3. CASE k.seq[i] = {}
  <2>1. r = k /\ k.pos[i] = -1
    BY <1>3, GoodTypes DEF SeqKeep
  <2>2. [k.pos EXCEPT ![i] = -1] = k.pos /\ [k.seq EXCEPT ![i] = @ \intersect {s}] = k.seq
    <3>1. k.pos \in [Cells -> Positions \union {-1}] /\ k.seq \in [Cells -> SUBSET Seqs]
      BY GoodTypes
    <3>2. k.seq[i] \intersect {s} = k.seq[i]
      BY <1>3
    <3> QED
      BY <2>1, <3>1, <3>2
  <2> HIDE DEF r
  <2> QED
    BY <1>3, <2>1, <2>2 DEF r
<1> QED
  BY <1>1, <1>2, <1>3

\* A cell that was taken out of the counts, changed and counted again.
LEMMA Recount ==
    ASSUME NEW k \in GoodCaches, NEW i \in Cells, NEW w \in RawCaches,
           Swapped(w, k, i), Uncounted(w, k, i)
    PROVE  /\ LET r == SeqPosAdd(w, i)
              IN  /\ r \in GoodCaches /\ r.pos = w.pos /\ r.seq = w.seq
                  /\ r.shift = w.shift /\ r.has_shift = w.has_shift
           /\ w.pos[i] = -1 => w \in GoodCaches
<1> DEFINE r == SeqPosAdd(w, i)
<1> USE DEF Uncounted
<1>1. w.pos[i] \in Int
  BY DEF RawCaches
<1>2. /\ r \in RawCaches /\ r.pos = w.pos /\ r.seq = w.seq /\ r.shift = w.shift
      /\ r.used = w.used /\ r.has_shift = w.has_shift
      /\ \A t \in Seqs, q \in Positions :
           r.seq_pos[t][q] = w.seq_pos[t][q] + (IF t \in w.seq[i] /\ q = w.pos[i] THEN 1 ELSE 0)
  BY <1>1, CountPosEffect DEF SeqPosAdd
<1> HIDE DEF r
<1>3. ASSUME NEW t \in Seqs, NEW q \in Positions
      PROVE  /\ r.seq_pos[t][q] = k.seq_pos[t][q]
                   - (IF t \in k.seq[i] /\ q = k.pos[i] THEN 1 ELSE 0)
                   + (IF t \in r.seq[i] /\ q = r.pos[i] THEN 1 ELSE 0)
             /\ w.seq[i] = {} => w.seq_pos[t][q] = k.seq_pos[t][q]
                   - (IF t \in k.seq[i] /\ q = k.pos[i] THEN 1 ELSE 0)
                   + (IF t \in w.seq[i] /\ q = w.pos[i] THEN 1 ELSE 0)
  <2>1. k.seq_pos[t][q] \in Int
    BY GoodTypes DEF RawCaches
  <2>2. w.seq_pos[t][q] = k.seq_pos[t][q] + (IF t \in k.seq[i] /\ q = k.pos[i] THEN -1 ELSE 0)
    OBVIOUS
  <2>3. r.seq_pos[t][q] = w.seq_pos[t][q] + (IF t \in r.seq[i] /\ q = r.pos[i] THEN 1 ELSE 0)
    BY <1>2
  <2> QED
    BY <2>1, <2>2, <2>3
<1>4. r \in GoodCaches
  <2>1. /\ r.pos[i] \in Positions \union {-1} /\ (r.pos[i] = -1 <=> r.seq[i] = {})
        /\ r.used = IF r.pos[i] = -1 THEN k.used \ {i} ELSE k.used \union {i}
        /\ \A j \in Cells : j # i => r.pos[j] = k.pos[j] /\ r.seq[j] = k.seq[j]
    BY <1>2 DEF Swapped
  <2>2. \A t \in Seqs, q \in Positions :
          r.seq_pos[t][q] = k.seq_pos[t][q]
            - (IF t \in k.seq[i] /\ q = k.pos[i] THEN 1 ELSE 0)
            + (IF t \in r.seq[i] /\ q = r.pos[i] THEN 1 ELSE 0)
    BY <1>3
  <2>s. Swapped(r, k, i)
    BY <1>2, <2>1, <2>2 DEF Swapped
  <2>c. Counted(r, k, i)
    BY <1>2, <2>1, <2>2 DEF Counted
  <2> QED
    BY <1>2, <2>s, <2>c, OneCell
<1>5. ASSUME w.pos[i] = -1 PROVE w \in GoodCaches
  <2>1. \A t \in Seqs, q \in Positions :
          w.seq_pos[t][q] = k.seq_pos[t][q]
            - (IF t \in k.seq[i] /\ q = k.pos[i] THEN 1 ELSE 0)
            + (IF t \in w.seq[i] /\ q = w.pos[i] THEN 1 ELSE 0)
    BY <1>3, <1>5 DEF Swapped
  <2>2. Counted(w, k, i)
    BY <2>1 DEF Counted
  <2> QED
    BY <2>2, OneCell
<1> QED
  BY <1>2, <1>4, <1>5 DEF r

\* The counts without the cell.
LEMMA SeqPosRmEffect ==
    ASSUME NEW k \in GoodCaches, NEW i \in Cells
    PROVE  LET m == SeqPosRm(k, i)
           IN  /\ m \in RawCaches
               /\ m.pos = k.pos /\ m.seq = k.seq /\ m.shift = k.shift
               /\ m.used = k.used /\ m.has_shift = k.has_shift
               /\ \A s \in Seqs, q \in Positions :
                    m.seq_pos[s][q] = k.seq_pos[s][q]
                                      + (IF s \in k.seq[i] /\ q = k.pos[i] THEN -1 ELSE 0)
<1>1. k \in RawCaches /\ k.pos[i] \in Int /\ -1 \in Int
  BY GoodTypes
<1> DEFINE m == CountPos(k, k.seq[i], k.pos[i], -1)
<1>2. /\ m \in RawCaches
      /\ m.pos = k.pos /\ m.seq = k.seq /\ m.shift = k.shift
      /\ m.used = k.used /\ m.has_shift = k.has_shift
      /\ \A s \in Seqs, q \in Positions :
           m.seq_pos[s][q] = k.seq_pos[s][q]
                             + (IF s \in k.seq[i] /\ q = k.pos[i] THEN -1 ELSE 0)
  BY <1>1, CountPosEffect
<1>3. SeqPosRm(k, i) = m
  BY DEF SeqPosRm
<1> HIDE DEF m
<1> QED
  BY <1>2, <1>3

\* What pos_add needs and what it does to a cell.
Movable(k, i, d) == d \in Int /\ k.pos[i] # -1 /\ k.pos[i] + d <= MaxPos
Moved(r, k, i, d) ==
    LET p == k.pos[i] + d
    IN  /\ r \in GoodCaches /\ r.has_shift = TRUE
        /\ r.pos[i] = IF p < 0 THEN -1 ELSE p
        /\ r.seq[i] = IF p < 0 THEN {} ELSE k.seq[i]
        /\ r.shift[i] = IF p < 0 THEN 0 ELSE k.shift[i] + d
        /\ \A j \in Cells : j # i => /\ r.pos[j] = k.pos[j] /\ r.seq[j] = k.seq[j]
                                     /\ r.shift[j] = k.shift[j]

\* ... pos_add: the cell moves, and falls empty when it moves below 0, ...
LEMMA PosAddGood ==
    ASSUME NEW k \in GoodCaches, NEW i \in Cells, NEW d, Movable(k, i, d)
    PROVE  Moved(PosAdd(k, i, d), k, i, d)
<1> DEFINE m == SeqPosRm(k, i)
           a == [m EXCEPT !.shift[i] = @ + d]
           b == [m EXCEPT !.shift[i] = @ + d, !.has_shift = TRUE]
           p == k.pos[i] + d
           w == [b EXCEPT !.pos[i] = p]
           r == PosAdd(k, i, d)
<1>0. d \in Int /\ k.pos[i] # -1 /\ k.pos[i] + d <= MaxPos
  BY DEF Movable
<1>1. /\ m \in RawCaches
      /\ m.pos = k.pos /\ m.seq = k.seq /\ m.shift = k.shift
      /\ m.used = k.used /\ m.has_shift = k.has_shift
      /\ \A s \in Seqs, q \in Positions :
           m.seq_pos[s][q] = k.seq_pos[s][q] + (IF s \in k.seq[i] /\ q = k.pos[i] THEN -1 ELSE 0)
  BY SeqPosRmEffect
<1>2. r = IF p < 0 THEN Vacate(b, i) ELSE SeqPosAdd(w, i)
  BY DEF PosAdd
<1>3. b = [a EXCEPT !.has_shift = TRUE]
  OBVIOUS
<1>4. p \in Int /\ k.shift[i] + d \in Int /\ m.shift[i] = k.shift[i] /\ k.pos[i] \in Int
  <2>1. k.shift[i] \in Int /\ k.pos[i] \in Int
    BY GoodTypes DEF RawCaches
  <2> QED
    BY <1>0, <1>1, <2>1
<1> HIDE DEF m
<1>5. /\ a \in RawCaches /\ a.shift = [m.shift EXCEPT ![i] = m.shift[i] + d]
      /\ a.pos = m.pos /\ a.seq = m.seq /\ a.used = m.used /\ a.seq_pos = m.seq_pos
  <2>1. m.shift[i] + d \in Int
    BY <1>4
  <2> QED
    BY <1>1, <2>1, WriteShift
<1> HIDE DEF a, b
<1>6. /\ b \in RawCaches /\ b.shift = [k.shift EXCEPT ![i] = @ + d]
      /\ b.pos = k.pos /\ b.seq = k.seq /\ b.used = k.used /\ b.seq_pos = m.seq_pos
      /\ b.has_shift = TRUE
  <2>1. /\ b \in RawCaches /\ b.shift = a.shift /\ b.has_shift = TRUE
        /\ b.pos = a.pos /\ b.seq = a.seq /\ b.used = a.used /\ b.seq_pos = a.seq_pos
    BY <1>3, <1>5 DEF RawCaches
  <2> QED
    BY <1>1, <1>5, <2>1
<1>7. CASE p < 0
  <2>1. /\ r \in RawCaches
        /\ r.pos = [b.pos EXCEPT ![i] = -1] /\ r.seq = [b.seq EXCEPT ![i] = {}]
        /\ r.shift = [b.shift EXCEPT ![i] = 0] /\ r.used = b.used \ {i}
        /\ r.seq_pos = b.seq_pos /\ r.has_shift = b.has_shift
    <3>1. r = Vacate(b, i)
      BY <1>2, <1>7
    <3> HIDE DEF r
    <3> QED
      BY <1>6, <3>1, VacateEffect
  <2> HIDE DEF r
  <2>2. /\ r.pos[i] = -1 /\ r.seq[i] = {} /\ r.used = k.used \ {i}
        /\ \A j \in Cells : j # i => r.pos[j] = k.pos[j] /\ r.seq[j] = k.seq[j]
    BY <1>0, <1>6, <2>1, GoodTypes
  <2>3. \A s \in Seqs, q \in Positions :
           r.seq_pos[s][q] = k.seq_pos[s][q] + (IF s \in k.seq[i] /\ q = k.pos[i] THEN -1 ELSE 0)
    BY <1>1, <1>6, <2>1
  <2>4. r \in GoodCaches
    <3>s. Swapped(r, k, i)
      BY <2>1, <2>2, <2>3 DEF Swapped
    <3>c. Uncounted(r, k, i)
      BY <2>1, <2>2, <2>3 DEF Uncounted
    <3> QED
      BY <2>1, <2>2, <3>s, <3>c, Recount
  <2>5. r.shift = [k.shift EXCEPT ![i] = 0]
    <3>1. k.shift \in [Cells -> Int]
      BY GoodTypes DEF RawCaches
    <3> QED
      BY <1>6, <2>1, <3>1
  <2>6. r.shift[i] = 0 /\ \A j \in Cells : j # i => r.shift[j] = k.shift[j]
    BY <2>5, GoodTypes DEF RawCaches
  <2> QED
    BY <1>6, <1>7, <2>1, <2>2, <2>4, <2>6 DEF r, Moved
<1>8. CASE ~(p < 0)
  <2>1. /\ w \in RawCaches /\ w.pos = [b.pos EXCEPT ![i] = p]
        /\ w.seq = b.seq /\ w.shift = b.shift /\ w.used = b.used
        /\ w.seq_pos = b.seq_pos /\ w.has_shift = b.has_shift
    BY <1>4, <1>6, WritePos
  <2>2. r = SeqPosAdd(w, i)
    BY <1>2, <1>8
  <2> HIDE DEF w, r
  <2>3. p \in Positions /\ p # -1
    BY <1>0, <1>4, <1>8 DEF Positions
  <2> HIDE DEF p
  <2>4. /\ w.pos[i] = p /\ w.seq[i] = k.seq[i] /\ k.seq[i] # {} /\ w.used = k.used \union {i}
        /\ \A j \in Cells : j # i => w.pos[j] = k.pos[j] /\ w.seq[j] = k.seq[j]
    BY <1>0, <1>6, <2>1, GoodTypes
  <2>5. \A s \in Seqs, q \in Positions :
           w.seq_pos[s][q] = k.seq_pos[s][q] + (IF s \in k.seq[i] /\ q = k.pos[i] THEN -1 ELSE 0)
    BY <1>1, <1>6, <2>1
  <2>6. r \in GoodCaches /\ r.pos = w.pos /\ r.seq = w.seq
        /\ r.shift = w.shift /\ r.has_shift = w.has_shift
    <3>1. /\ w.pos[i] \in Positions \union {-1} /\ (w.pos[i] = -1 <=> w.seq[i] = {})
          /\ w.used = IF w.pos[i] = -1 THEN k.used \ {i} ELSE k.used \union {i}
      BY <2>3, <2>4
    <3>2. w \in RawCaches /\ \A j \in Cells : j # i => w.pos[j] = k.pos[j] /\ w.seq[j] = k.seq[j]
      BY <2>1, <2>4
    <3>3. SeqPosAdd(w, i) \in GoodCaches /\ SeqPosAdd(w, i).pos = w.pos
          /\ SeqPosAdd(w, i).seq = w.seq /\ SeqPosAdd(w, i).shift = w.shift
          /\ SeqPosAdd(w, i).has_shift = w.has_shift
      <4>1. Swapped(w, k, i)
        BY <3>1, <3>2 DEF Swapped
      <4>2. Uncounted(w, k, i)
        BY <2>5 DEF Uncounted
      <4> QED
        BY <3>2, <4>1, <4>2, Recount
    <3> QED
      BY <2>2, <3>3
  <2>7. /\ r.shift[i] = k.shift[i] + d
        /\ \A j \in Cells : j # i => r.shift[j] = k.shift[j]
    BY <1>6, <2>1, <2>6, GoodTypes DEF RawCaches
  <2> QED
    BY <1>6, <1>8, <2>1, <2>4, <2>6, <2>7 DEF r, p, Moved
<1> QED
  BY <1>7, <1>8

\* Division makes a number no larger.
LEMMA DivBound ==
    ASSUME NEW a \in Nat, NEW d \in Nat \ {0}
    PROVE  a \div d \in Nat /\ a \div d <= a
<1> DEFINE q == a \div d
<1>1. q \in Int /\ d * q <= a /\ a < d * q + d
  OBVIOUS
<1> HIDE DEF q
<1>2. q >= 0
  <2>1. ASSUME q <= -1 PROVE FALSE
    <3>1. d * q <= d * (-1)
      BY <1>1, <2>1
    <3> QED
      BY <1>1, <3>1
  <2> QED
    BY <1>1, <2>1
<1>3. d * q >= q
  BY <1>1, <1>2
<1> QED
  BY <1>1, <1>2, <1>3 DEF q

\* ... pos_div: the cell's position is divided, ...
LEMMA PosDivGood ==
    ASSUME NEW k \in GoodCaches, NEW i \in Cells, k.pos[i] # -1, NEW d \in Nat \ {0}
    PROVE  LET r == PosDiv(k, i, d)
           IN  /\ r \in GoodCaches
               /\ r.pos = [k.pos EXCEPT ![i] = @ \div d] /\ r.seq = k.seq
               /\ \A j \in Cells : j # i => r.shift[j] = k.shift[j]
<1> DEFINE m == SeqPosRm(k, i)
           p == k.pos[i] \div d
           a == [m EXCEPT !.pos[i] = p]
           b == [a EXCEPT !.shift[i] = @ + (k.pos[i] - p)]
           w == [m EXCEPT !.pos[i] = p, !.has_shift = TRUE, !.shift[i] = @ + (k.pos[i] - p)]
           r == PosDiv(k, i, d)
<1>1. /\ m \in RawCaches
      /\ m.pos = k.pos /\ m.seq = k.seq /\ m.shift = k.shift
      /\ m.used = k.used /\ m.has_shift = k.has_shift
      /\ \A s \in Seqs, q \in Positions :
           m.seq_pos[s][q] = k.seq_pos[s][q] + (IF s \in k.seq[i] /\ q = k.pos[i] THEN -1 ELSE 0)
  BY SeqPosRmEffect
<1>2. r = SeqPosAdd(w, i)
  BY DEF PosDiv
<1>3. p \in Positions /\ p \in Int /\ p # -1
  <2>1. k.pos[i] \in Positions
    BY GoodTypes
  <2> QED
    BY <2>1, DivBound, PosAssumption DEF Positions
<1> HIDE DEF m, p
<1>4. /\ a \in RawCaches /\ a.pos = [m.pos EXCEPT ![i] = p]
      /\ a.seq = m.seq /\ a.shift = m.shift /\ a.used = m.used
      /\ a.seq_pos = m.seq_pos /\ a.has_shift = m.has_shift
  BY <1>1, <1>3, WritePos
<1>5. w = [b EXCEPT !.has_shift = TRUE]
  BY <1>1 DEF RawCaches
<1> HIDE DEF a, w
<1>6. /\ b \in RawCaches /\ b.shift = [a.shift EXCEPT ![i] = a.shift[i] + (k.pos[i] - p)]
      /\ b.pos = a.pos /\ b.seq = a.seq /\ b.used = a.used
      /\ b.seq_pos = a.seq_pos /\ b.has_shift = a.has_shift
  <2>1. a.shift[i] + (k.pos[i] - p) \in Int
    BY <1>3, <1>4, GoodTypes DEF RawCaches
  <2> QED
    BY <1>4, <2>1, WriteShift
<1> HIDE DEF b
<1>7. /\ w \in RawCaches /\ w.pos = [k.pos EXCEPT ![i] = p] /\ w.seq = k.seq /\ w.used = k.used
      /\ w.seq_pos = m.seq_pos /\ w.shift = b.shift
  <2>1. /\ w \in RawCaches /\ w.pos = b.pos /\ w.seq = b.seq /\ w.used = b.used
        /\ w.seq_pos = b.seq_pos /\ w.shift = b.shift
    BY <1>5, <1>6 DEF RawCaches
  <2> QED
    BY <1>1, <1>4, <1>6, <2>1
<1>8. /\ w.pos[i] = p /\ w.seq[i] # {} /\ w.used = k.used \union {i}
      /\ \A j \in Cells : j # i => w.pos[j] = k.pos[j] /\ w.seq[j] = k.seq[j]
  BY <1>7, GoodTypes
<1>9. \A j \in Cells : j # i => w.shift[j] = k.shift[j]
  BY <1>1, <1>4, <1>6, <1>7 DEF RawCaches
<1>10. SeqPosAdd(w, i) \in GoodCaches /\ SeqPosAdd(w, i).pos = w.pos
       /\ SeqPosAdd(w, i).seq = w.seq /\ SeqPosAdd(w, i).shift = w.shift
  <2>1. /\ w.pos[i] \in Positions \union {-1} /\ (w.pos[i] = -1 <=> w.seq[i] = {})
        /\ w.used = IF w.pos[i] = -1 THEN k.used \ {i} ELSE k.used \union {i}
    BY <1>3, <1>8
  <2>2. \A s \in Seqs, q \in Positions :
           w.seq_pos[s][q] = k.seq_pos[s][q] + (IF s \in k.seq[i] /\ q = k.pos[i] THEN -1 ELSE 0)
    BY <1>1, <1>7
  <2>3. w \in RawCaches /\ \A j \in Cells : j # i => w.pos[j] = k.pos[j] /\ w.seq[j] = k.seq[j]
    BY <1>7, <1>8
  <2>s. Swapped(w, k, i)
    BY <2>1, <2>2, <2>3 DEF Swapped
  <2>c. Uncounted(w, k, i)
    BY <2>1, <2>2, <2>3 DEF Uncounted
  <2> QED
    BY <2>3, <2>s, <2>c, Recount
<1> HIDE DEF r
<1> QED
  BY <1>2, <1>7, <1>9, <1>10 DEF r, p

\* ... and set: the cell gets back what it had in a copy.
LEMMA RestoreGood ==
    ASSUME NEW k \in GoodCaches, NEW i \in Cells, NEW old,
           old.pos[i] \in Positions \union {-1}, old.seq[i] \in SUBSET Seqs,
           old.pos[i] = -1 <=> old.seq[i] = {}
    PROVE  LET r == Restore(k, i, old)
           IN  /\ r \in GoodCaches
               /\ r.pos = [k.pos EXCEPT ![i] = old.pos[i]] /\ r.seq = [k.seq EXCEPT ![i] = old.seq[i]]
               /\ r.shift = k.shift /\ r.has_shift = k.has_shift
<1> DEFINE u == IF old.pos[i] = -1 THEN k.used \ {i} ELSE k.used \union {i}
           m == IF k.pos[i] # -1 THEN SeqPosRm(k, i) ELSE k
           p == old.pos[i]
           S == old.seq[i]
           a == [m EXCEPT !.used = u]
           b == [a EXCEPT !.pos[i] = p]
           w == [b EXCEPT !.seq[i] = S]
           r == Restore(k, i, old)
<1>1. /\ m \in RawCaches
      /\ m.pos = k.pos /\ m.seq = k.seq /\ m.shift = k.shift
      /\ m.used = k.used /\ m.has_shift = k.has_shift
      /\ \A s \in Seqs, q \in Positions :
           m.seq_pos[s][q] = k.seq_pos[s][q] + (IF s \in k.seq[i] /\ q = k.pos[i] THEN -1 ELSE 0)
  <2>1. CASE k.pos[i] # -1
    <3>1. m = SeqPosRm(k, i)
      BY <2>1
    <3> HIDE DEF m
    <3> QED
      BY <3>1, SeqPosRmEffect
  <2>2. CASE k.pos[i] = -1
    <3>1. m = k /\ k.seq[i] = {}
      BY <2>2, GoodTypes
    <3> HIDE DEF m
    <3> QED
      BY <3>1, GoodTypes DEF RawCaches
  <2> QED
    BY <2>1, <2>2
<1>2. p \in Int /\ p \in Positions \union {-1} /\ S \in SUBSET Seqs /\ (p = -1 <=> S = {})
  BY DEF Positions
<1>3. u \in SUBSET Cells /\ u = IF p = -1 THEN k.used \ {i} ELSE k.used \union {i}
  BY GoodTypes DEF RawCaches
<1>4. r = IF w.pos[i] # -1 THEN SeqPosAdd(w, i) ELSE w
  BY DEF Restore
<1> HIDE DEF m, u, p, S
<1>5. /\ a \in RawCaches /\ a.pos = k.pos /\ a.seq = k.seq /\ a.shift = k.shift
      /\ a.used = u /\ a.has_shift = k.has_shift /\ a.seq_pos = m.seq_pos
  BY <1>1, <1>3 DEF RawCaches
<1> HIDE DEF a
<1>6. /\ b \in RawCaches /\ b.pos = [a.pos EXCEPT ![i] = p]
      /\ b.seq = a.seq /\ b.shift = a.shift /\ b.used = a.used
      /\ b.seq_pos = a.seq_pos /\ b.has_shift = a.has_shift
  BY <1>2, <1>5, WritePos
<1> HIDE DEF b
<1>7. /\ w \in RawCaches /\ w.seq = [b.seq EXCEPT ![i] = S]
      /\ w.pos = b.pos /\ w.shift = b.shift /\ w.used = b.used
      /\ w.seq_pos = b.seq_pos /\ w.has_shift = b.has_shift
  BY <1>2, <1>6, WriteSeq
<1> HIDE DEF w, r
<1>8. /\ w.pos = [k.pos EXCEPT ![i] = p] /\ w.seq = [k.seq EXCEPT ![i] = S]
      /\ w.shift = k.shift /\ w.has_shift = k.has_shift /\ w.used = u /\ w.seq_pos = m.seq_pos
  BY <1>5, <1>6, <1>7
<1>9. /\ w.pos[i] = p /\ w.seq[i] = S
      /\ \A j \in Cells : j # i => w.pos[j] = k.pos[j] /\ w.seq[j] = k.seq[j]
  BY <1>8, GoodTypes
<1>10. /\ LET q == SeqPosAdd(w, i)
           IN  /\ q \in GoodCaches /\ q.pos = w.pos /\ q.seq = w.seq
               /\ q.shift = w.shift /\ q.has_shift = w.has_shift
       /\ w.pos[i] = -1 => w \in GoodCaches
  <2>1. /\ w.pos[i] \in Positions \union {-1} /\ (w.pos[i] = -1 <=> w.seq[i] = {})
        /\ w.used = IF w.pos[i] = -1 THEN k.used \ {i} ELSE k.used \union {i}
    BY <1>2, <1>3, <1>8, <1>9
  <2>2. \A s \in Seqs, q \in Positions :
           w.seq_pos[s][q] = k.seq_pos[s][q] + (IF s \in k.seq[i] /\ q = k.pos[i] THEN -1 ELSE 0)
    BY <1>1, <1>8
  <2>s. Swapped(w, k, i)
    BY <1>7, <1>9, <2>1, <2>2 DEF Swapped
  <2>c. Uncounted(w, k, i)
    BY <1>7, <1>9, <2>1, <2>2 DEF Uncounted
  <2> QED
    BY <1>7, <1>9, <2>1, <2>s, <2>c, Recount
<1> QED
  BY <1>4, <1>8, <1>10 DEF r, p, S

\* A new cache, and one whose shift was applied.
LEMMA ResetGood ==
    /\ Reset \in GoodCaches
    /\ \A k \in GoodCaches : ResetShift(k) \in GoodCaches
<1>1. Reset \in GoodCaches
  <2>1. Reset \in Caches
    <3>1. /\ [i \in Cells |-> -1] \in [Cells -> Positions \union {-1}]
          /\ [i \in Cells |-> {}] \in [Cells -> SUBSET Seqs]
          /\ [i \in Cells |-> 0] \in [Cells -> Int]
          /\ [s \in Seqs |-> [p \in Positions |-> 0]] \in [Seqs -> [Positions -> Nat]]
      OBVIOUS
    <3> QED
      BY <3>1 DEF Reset, Caches
  <2>2. \A s \in Seqs, p \in Positions : Holding(Reset, s, p) = {}
    BY DEF Holding, Reset
  <2>3. Books(Reset)
    <3>1. \A s \in Seqs, p \in Positions : Reset.seq_pos[s][p] = Cardinality(Holding(Reset, s, p))
      BY <2>2, FS_EmptySet DEF Reset
    <3>2. Reset.used = {i \in Cells : Reset.pos[i] # -1}
      BY DEF Reset
    <3>3. \A i \in Cells : (Reset.pos[i] = -1) <=> (Reset.seq[i] = {})
      BY DEF Reset
    <3> QED
      BY <3>1, <3>2, <3>3 DEF Books
  <2> QED
    BY <2>1, <2>3 DEF GoodCaches
<1>2. ASSUME NEW k \in GoodCaches PROVE ResetShift(k) \in GoodCaches
  <2> DEFINE r == ResetShift(k)
             z == [i \in Cells |-> 0]
  <2>1. z \in [Cells -> Int]
    OBVIOUS
  <2>2. r = [k EXCEPT !.has_shift = FALSE, !.shift = z]
    BY DEF ResetShift
  <2> HIDE DEF r, z
  <2>3. /\ r \in Caches /\ r.pos = k.pos /\ r.seq = k.seq /\ r.used = k.used
        /\ r.seq_pos = k.seq_pos
    BY <2>1, <2>2 DEF GoodCaches, Caches
  <2>4. \A s \in Seqs, p \in Positions : Holding(r, s, p) = Holding(k, s, p)
    BY <2>3 DEF Holding
  <2>5. Books(r)
    BY <2>3, <2>4 DEF GoodCaches, Books
  <2> QED
    BY <2>3, <2>5 DEF GoodCaches, r
<1> QED
  BY <1>1, <1>2

-----------------------------------------------------------------------------
(* Loops over the cells.                                                   *)

\* A nonempty finite set of integers has a greatest and a least element.
LEMMA Ends ==
    ASSUME NEW D, IsFiniteSet(D), D \subseteq Int, D # {}
    PROVE  /\ Max(D) \in D /\ \A y \in D : y <= Max(D)
           /\ Min(D) \in D /\ \A y \in D : Min(D) <= y
<1> DEFINE Top(s) == \E x \in s : \A y \in s : x >= y
           Bottom(s) == \E x \in s : \A y \in s : x <= y
           Q == {s \in SUBSET D : s # {} => Top(s) /\ Bottom(s)}
<1>1. ASSUME NEW s \in SUBSET D, \A t \in SUBSET s : t # s => t \in Q
      PROVE  s \in Q
  <2> SUFFICES ASSUME NEW a \in s PROVE Top(s) /\ Bottom(s)
    OBVIOUS
  <2>1. CASE s \ {a} = {}
    <3>1. \A y \in s : y = a
      BY <2>1
    <3>2. a \in Int
      OBVIOUS
    <3> QED
      BY <3>1, <3>2
  <2>2. CASE s \ {a} # {}
    <3>1. s \ {a} \in SUBSET s /\ s \ {a} # s /\ s \ {a} \in SUBSET D
      OBVIOUS
    <3>2. Top(s \ {a}) /\ Bottom(s \ {a})
      BY <1>1, <2>2, <3>1
    <3>3. PICK x \in s \ {a} : \A y \in s \ {a} : x >= y
      BY <3>2
    <3>4. PICK z \in s \ {a} : \A y \in s \ {a} : z <= y
      BY <3>2
    <3>5. a \in Int /\ x \in Int /\ z \in Int /\ s \subseteq Int
      OBVIOUS
    <3>6. Top(s)
      <4>1. CASE a >= x
        <5>1. \A y \in s : a >= y
          BY <3>3, <3>5, <4>1
        <5> QED
          BY <5>1
      <4>2. CASE ~(a >= x)
        <5>1. \A y \in s : x >= y
          BY <3>3, <3>5, <4>2
        <5> QED
          BY <5>1
      <4> QED
        BY <4>1, <4>2
    <3>7. Bottom(s)
      <4>1. CASE a <= z
        <5>1. \A y \in s : a <= y
          BY <3>4, <3>5, <4>1
        <5> QED
          BY <5>1
      <4>2. CASE ~(a <= z)
        <5>1. \A y \in s : z <= y
          BY <3>4, <3>5, <4>2
        <5> QED
          BY <5>1
      <4> QED
        BY <4>1, <4>2
    <3> QED
      BY <3>6, <3>7
  <2> QED
    BY <2>1, <2>2
<1>2. SUBSET D \subseteq Q
  <2>1. \A s \in SUBSET D : (\A t \in SUBSET s : t # s => t \in Q) => s \in Q
    BY <1>1
  <2> HIDE DEF Q
  <2> QED
    BY <2>1, FiniteInduction
<1>3. Top(D) /\ Bottom(D)
  BY <1>2
<1>4. Max(D) \in D /\ \A y \in D : Max(D) >= y
  BY <1>3 DEF Max
<1>5. Min(D) \in D /\ \A y \in D : Min(D) <= y
  BY <1>3 DEF Min
<1> QED
  BY <1>4, <1>5

\* The loops over the cells go through the indices 1 to Size.
LEMMA IndexDomain == DOMAIN Indices = 1 .. Size
  BY DEF Indices

\* The loop visits the cells.
LEMMA IndexOfMax ==
    \A t \in SUBSET (1 .. Size) : t # {} =>
        /\ Max(t) \in t /\ Indices[Max(t)] \in Cells /\ Indices[Max(t)] + 1 = Max(t)
<1> SUFFICES ASSUME NEW t \in SUBSET (1 .. Size), t # {}
             PROVE  Max(t) \in t /\ Indices[Max(t)] \in Cells /\ Indices[Max(t)] + 1 = Max(t)
  OBVIOUS
<1>1. IsFiniteSet(t) /\ t \subseteq Int
  <2>1. IsFiniteSet(1 .. Size)
    BY SizeAssumption, FS_Interval
  <2>2. t \subseteq Int
    BY SizeAssumption
  <2> QED
    BY <2>1, <2>2, FS_Subset
<1>2. Max(t) \in t
  BY <1>1, Ends
<1>3. Max(t) \in 1 .. Size /\ Indices[Max(t)] = Max(t) - 1
  BY <1>2 DEF Indices
<1> QED
  BY <1>2, <1>3, SizeAssumption DEF Cells

\* A cell as it was.
Untouched(r, k, i) == r.pos[i] = k.pos[i] /\ r.seq[i] = k.seq[i] /\ r.shift[i] = k.shift[i]

\* What RmRange does to a cell.
RmAt(r, k, i, s, p0, p1) ==
    IF PosIn(k, i, p0, p1) /\ s \in k.seq[i]
    THEN /\ r.seq[i] = k.seq[i] \ {s}
         /\ r.pos[i] = IF k.seq[i] = {s} THEN -1 ELSE k.pos[i]
         /\ r.shift[i] = IF k.seq[i] = {s} THEN 0 ELSE k.shift[i]
    ELSE Untouched(r, k, i)

\* RmRange takes a sequence out of the cells of a range, and empties those it was alone in.
LEMMA RmRangeGood ==
    ASSUME NEW k \in GoodCaches, NEW s \in Seqs, NEW p0 \in Int, NEW p1 \in Int
    PROVE  LET r == RmRange(k, s, p0, p1)
           IN  /\ r \in GoodCaches
               /\ \A i \in Cells : RmAt(r, k, i, s, p0, p1)
<1> DEFINE D == 1 .. Size
           Op(c, i) == IF PosIn(c, i, p0, p1) /\ s \in c.seq[i] THEN SeqRm(c, i, s) ELSE c
           After(c, i) == RmAt(c, k, i, s, p0, p1)
           P == [t \in SUBSET D |->
                  {c \in GoodCaches : \A i \in Cells :
                      IF i + 1 \in t THEN After(c, i) ELSE Untouched(c, k, i)}]
           step == [x \in (SUBSET D) \X GoodCaches |-> Op(x[2], Indices[Max(x[1])])]
           ch == [t \in SUBSET D |-> Max(t)]
           Body(g) == [t \in SUBSET D |-> IF t = {} THEN k
                                          ELSE Op(g[t \ {Max(t)}], Indices[Max(t)])]
           G == CHOOSE g : g = Body(g)
<1>1. RmRange(k, s, p0, p1) = G[D]
  BY IndexDomain DEF RmRange, ForCells, FoldLeft, MapThenFoldSet
<1>2. ASSUME NEW t \in SUBSET D, t # {}, NEW c \in P[t \ {Max(t)}]
      PROVE  Op(c, Indices[Max(t)]) \in P[t]
  <2> DEFINE i == Indices[Max(t)]
  <2>1. i \in Cells /\ i + 1 = Max(t) /\ i + 1 \in t
    BY <1>2, IndexOfMax
  <2>2. t \ {Max(t)} \in SUBSET D
    BY <1>2
  <2> HIDE DEF i
  <2>3. /\ c \in GoodCaches /\ Untouched(c, k, i)
        /\ \A j \in Cells : j # i => IF j + 1 \in t THEN After(c, j) ELSE Untouched(c, k, j)
    <3>1. \A j \in Cells : j # i => (j + 1 \in t <=> j + 1 \in t \ {Max(t)})
      BY <2>1 DEF Cells
    <3>2. c \in GoodCaches /\ \A j \in Cells :
             IF j + 1 \in t \ {Max(t)} THEN After(c, j) ELSE Untouched(c, k, j)
      BY <2>2
    <3> HIDE DEF After, P
    <3> QED
      BY <2>1, <3>1, <3>2
  <2>4. /\ Op(c, i) \in GoodCaches /\ After(Op(c, i), i)
        /\ \A j \in Cells : j # i => Untouched(Op(c, i), c, j)
    <3>1. CASE PosIn(c, i, p0, p1) /\ s \in c.seq[i]
      <4> DEFINE r == SeqRm(c, i, s)
      <4>1. /\ r \in GoodCaches
            /\ r.pos = IF c.seq[i] = {s} THEN [c.pos EXCEPT ![i] = -1] ELSE c.pos
            /\ r.seq = [c.seq EXCEPT ![i] = @ \ {s}]
            /\ r.shift = IF c.seq[i] = {s} THEN [c.shift EXCEPT ![i] = 0] ELSE c.shift
        BY <2>1, <2>3, <3>1, SeqRmGood
      <4>2. Op(c, i) = r
        BY <3>1
      <4>3. PosIn(k, i, p0, p1) /\ s \in k.seq[i]
        BY <2>3, <3>1 DEF PosIn, Untouched
      <4>4. /\ c.pos \in [Cells -> Positions \union {-1}] /\ c.seq \in [Cells -> SUBSET Seqs]
            /\ c.shift \in [Cells -> Int]
        BY <2>3, GoodTypes DEF RawCaches
      <4> HIDE DEF r, Op
      <4>5. /\ r.pos[i] = IF k.seq[i] = {s} THEN -1 ELSE k.pos[i]
            /\ r.seq[i] = k.seq[i] \ {s}
            /\ r.shift[i] = IF k.seq[i] = {s} THEN 0 ELSE k.shift[i]
        BY <2>1, <2>3, <4>1, <4>4 DEF Untouched
      <4>6. \A j \in Cells : j # i => Untouched(r, c, j)
        BY <4>1, <4>4 DEF Untouched
      <4> QED
        BY <4>1, <4>2, <4>3, <4>5, <4>6 DEF RmAt
    <3>2. CASE ~(PosIn(c, i, p0, p1) /\ s \in c.seq[i])
      <4>1. Op(c, i) = c
        BY <3>2
      <4>2. ~(PosIn(k, i, p0, p1) /\ s \in k.seq[i])
        BY <2>3, <3>2 DEF PosIn, Untouched
      <4> HIDE DEF Op
      <4> QED
        BY <2>3, <4>1, <4>2 DEF RmAt, Untouched
    <3> QED
      BY <3>1, <3>2
  <2>5. ASSUME NEW j \in Cells
        PROVE  IF j + 1 \in t THEN After(Op(c, i), j) ELSE Untouched(Op(c, i), k, j)
    <3> HIDE DEF Op
    <3>1. CASE j = i
      BY <2>1, <2>4, <3>1
    <3>2. CASE j # i
      BY <2>3, <2>4, <3>2 DEF Untouched, RmAt
    <3> QED
      BY <3>1, <3>2
  <2> HIDE DEF After, Op
  <2> QED
    BY <2>4, <2>5 DEF i
<1>3. k \in P[{}]
  BY DEF Untouched
<1> HIDE DEF Op, After
<1>4. Picks(ch, D)
  BY IndexOfMax DEF Picks
<1>5. \E g : g = Body(g)
  <2>1. \A t \in SUBSET D : t # {} => \A c \in P[t \ {ch[t]}] :
          step[<<t, c>>] = Op(c, Indices[Max(t)]) /\ step[<<t, c>>] \in P[t]
    <3> SUFFICES ASSUME NEW t \in SUBSET D, t # {}, NEW c \in P[t \ {ch[t]}]
                 PROVE  step[<<t, c>>] = Op(c, Indices[Max(t)]) /\ step[<<t, c>>] \in P[t]
      OBVIOUS
    <3>1. ch[t] = Max(t)
      OBVIOUS
    <3>2. t \ {ch[t]} \in SUBSET D
      OBVIOUS
    <3>3. c \in GoodCaches
      BY <3>2
    <3>4. step[<<t, c>>] = Op(c, Indices[Max(t)])
      BY <3>3
    <3> HIDE DEF P, step, ch
    <3> QED
      BY <1>2, <3>1, <3>4
  <2>2. IsFiniteSet(D)
    BY SizeAssumption, FS_Interval
  <2>3. \A t \in SUBSET D : ch[t] = Max(t)
    OBVIOUS
  <2> HIDE DEF P, step, ch, D
  <2>4. PICK g : Folds(g, k, step, P, ch, D)
    <3>1. Leads(step, P, ch, D)
      BY <2>1 DEF Leads
    <3> QED
      BY <1>3, <1>4, <2>2, <3>1, FoldExists
  <2>5. \A t \in SUBSET D : t # {} =>
          step[<<t, g[t \ {ch[t]}]>>] = Op(g[t \ {Max(t)}], Indices[Max(t)])
    BY <2>1, <2>3, <2>4 DEF Folds
  <2>6. g = Body(g)
    BY <2>4, <2>5 DEF Folds
  <2> QED
    BY <2>6
<1>6. G = Body(G)
  <2> HIDE DEF Body
  <2> QED
    BY <1>5
<1> HIDE DEF G
<1>7. G[D] \in P[D]
  <2>1. G[{}] = k /\ \A t \in SUBSET D : t # {} => G[t] = Op(G[t \ {Max(t)}], Indices[Max(t)])
    BY <1>6
  <2>2. \A t \in SUBSET D : t # {} /\ G[t \ {ch[t]}] \in P[t \ {ch[t]}] => G[t] \in P[t]
    <3>1. \A t \in SUBSET D : ch[t] = Max(t)
      OBVIOUS
    <3> HIDE DEF P, ch, Body
    <3> SUFFICES ASSUME NEW t \in SUBSET D, t # {}, G[t \ {ch[t]}] \in P[t \ {ch[t]}]
                 PROVE  G[t] \in P[t]
      OBVIOUS
    <3>2. ch[t] = Max(t)
      BY <3>1
    <3>3. Op(G[t \ {Max(t)}], Indices[Max(t)]) \in P[t]
      BY <1>2, <3>2
    <3>4. G[t] = Op(G[t \ {Max(t)}], Indices[Max(t)])
      BY <2>1
    <3> QED
      BY <3>3, <3>4
  <2>3. IsFiniteSet(D)
    BY SizeAssumption, FS_Interval
  <2> HIDE DEF P, ch, D, Body
  <2> QED
    BY <1>3, <1>4, <2>1, <2>2, <2>3, FoldInduction
<1>8. G[D] \in GoodCaches /\ \A i \in Cells : After(G[D], i)
  <2>1. \A i \in Cells : i + 1 \in D
    BY SizeAssumption DEF Cells
  <2>2. D \in SUBSET D
    OBVIOUS
  <2> HIDE DEF G
  <2> QED
    BY <1>7, <2>1, <2>2
<1> QED
  BY <1>1, <1>8 DEF After

\* What ClearRange does to a cell, ...
ClearAt(r, k, i, p0, p1) ==
    IF PosIn(k, i, p0, p1) THEN r.pos[i] = -1 /\ r.seq[i] = {} /\ r.shift[i] = 0
                           ELSE Untouched(r, k, i)

\* ClearRange empties the cells of a range.
LEMMA ClearRangeGood ==
    ASSUME NEW k \in GoodCaches, NEW p0 \in Int, NEW p1 \in Int
    PROVE  LET r == ClearRange(k, p0, p1)
           IN  /\ r \in GoodCaches
               /\ \A i \in Cells : ClearAt(r, k, i, p0, p1)
<1> DEFINE D == 1 .. Size
           Op(c, i) == IF PosIn(c, i, p0, p1) THEN Rm(c, i) ELSE c
           After(c, i) == ClearAt(c, k, i, p0, p1)
           P == [t \in SUBSET D |->
                  {c \in GoodCaches : \A i \in Cells :
                      IF i + 1 \in t THEN After(c, i) ELSE Untouched(c, k, i)}]
           step == [x \in (SUBSET D) \X GoodCaches |-> Op(x[2], Indices[Max(x[1])])]
           ch == [t \in SUBSET D |-> Max(t)]
           Body(g) == [t \in SUBSET D |-> IF t = {} THEN k
                                          ELSE Op(g[t \ {Max(t)}], Indices[Max(t)])]
           G == CHOOSE g : g = Body(g)
<1>1. ClearRange(k, p0, p1) = G[D]
  BY IndexDomain DEF ClearRange, ForCells, FoldLeft, MapThenFoldSet
<1>2. ASSUME NEW t \in SUBSET D, t # {}, NEW c \in P[t \ {Max(t)}]
      PROVE  Op(c, Indices[Max(t)]) \in P[t]
  <2> DEFINE i == Indices[Max(t)]
  <2>1. i \in Cells /\ i + 1 = Max(t) /\ i + 1 \in t
    BY <1>2, IndexOfMax
  <2>2. t \ {Max(t)} \in SUBSET D
    BY <1>2
  <2> HIDE DEF i
  <2>3. /\ c \in GoodCaches /\ Untouched(c, k, i)
        /\ \A j \in Cells : j # i => IF j + 1 \in t THEN After(c, j) ELSE Untouched(c, k, j)
    <3>1. \A j \in Cells : j # i => (j + 1 \in t <=> j + 1 \in t \ {Max(t)})
      BY <2>1 DEF Cells
    <3>2. c \in GoodCaches /\ \A j \in Cells :
             IF j + 1 \in t \ {Max(t)} THEN After(c, j) ELSE Untouched(c, k, j)
      BY <2>2
    <3> HIDE DEF After, P
    <3> QED
      BY <2>1, <3>1, <3>2
  <2>4. /\ Op(c, i) \in GoodCaches /\ After(Op(c, i), i)
        /\ \A j \in Cells : j # i => Untouched(Op(c, i), c, j)
    <3>1. CASE PosIn(c, i, p0, p1)
      <4> DEFINE r == Rm(c, i)
      <4>1. /\ r \in GoodCaches
            /\ r.pos = [c.pos EXCEPT ![i] = -1] /\ r.seq = [c.seq EXCEPT ![i] = {}]
            /\ r.shift = [c.shift EXCEPT ![i] = 0]
        BY <2>1, <2>3, <3>1, RmGood
      <4>2. Op(c, i) = r
        BY <3>1
      <4>3. PosIn(k, i, p0, p1)
        BY <2>3, <3>1 DEF PosIn, Untouched
      <4>4. /\ c.pos \in [Cells -> Positions \union {-1}] /\ c.seq \in [Cells -> SUBSET Seqs]
            /\ c.shift \in [Cells -> Int]
        BY <2>3, GoodTypes DEF RawCaches
      <4> HIDE DEF r, Op
      <4>5. r.pos[i] = -1 /\ r.seq[i] = {} /\ r.shift[i] = 0
        BY <2>1, <2>3, <4>1, <4>4 DEF Untouched
      <4>6. \A j \in Cells : j # i => Untouched(r, c, j)
        BY <4>1, <4>4 DEF Untouched
      <4> QED
        BY <2>3, <4>1, <4>2, <4>3, <4>5, <4>6 DEF ClearAt, Untouched
    <3>2. CASE ~(PosIn(c, i, p0, p1))
      <4>1. Op(c, i) = c
        BY <3>2
      <4>2. ~(PosIn(k, i, p0, p1))
        BY <2>3, <3>2 DEF PosIn, Untouched
      <4> HIDE DEF Op
      <4> QED
        BY <2>3, <4>1, <4>2 DEF ClearAt, Untouched
    <3> QED
      BY <3>1, <3>2
  <2>5. ASSUME NEW j \in Cells
        PROVE  IF j + 1 \in t THEN After(Op(c, i), j) ELSE Untouched(Op(c, i), k, j)
    <3> HIDE DEF Op
    <3>1. CASE j = i
      BY <2>1, <2>4, <3>1
    <3>2. CASE j # i
      BY <2>3, <2>4, <3>2 DEF Untouched, ClearAt
    <3> QED
      BY <3>1, <3>2
  <2> HIDE DEF After, Op
  <2> QED
    BY <2>4, <2>5 DEF i
<1>3. k \in P[{}]
  BY DEF Untouched
<1> HIDE DEF Op, After
<1>4. Picks(ch, D)
  BY IndexOfMax DEF Picks
<1>5. \E g : g = Body(g)
  <2>1. \A t \in SUBSET D : t # {} => \A c \in P[t \ {ch[t]}] :
          step[<<t, c>>] = Op(c, Indices[Max(t)]) /\ step[<<t, c>>] \in P[t]
    <3> SUFFICES ASSUME NEW t \in SUBSET D, t # {}, NEW c \in P[t \ {ch[t]}]
                 PROVE  step[<<t, c>>] = Op(c, Indices[Max(t)]) /\ step[<<t, c>>] \in P[t]
      OBVIOUS
    <3>1. ch[t] = Max(t)
      OBVIOUS
    <3>2. t \ {ch[t]} \in SUBSET D
      OBVIOUS
    <3>3. c \in GoodCaches
      BY <3>2
    <3>4. step[<<t, c>>] = Op(c, Indices[Max(t)])
      BY <3>3
    <3> HIDE DEF P, step, ch
    <3> QED
      BY <1>2, <3>1, <3>4
  <2>2. IsFiniteSet(D)
    BY SizeAssumption, FS_Interval
  <2>3. \A t \in SUBSET D : ch[t] = Max(t)
    OBVIOUS
  <2> HIDE DEF P, step, ch, D
  <2>4. PICK g : Folds(g, k, step, P, ch, D)
    <3>1. Leads(step, P, ch, D)
      BY <2>1 DEF Leads
    <3> QED
      BY <1>3, <1>4, <2>2, <3>1, FoldExists
  <2>5. \A t \in SUBSET D : t # {} =>
          step[<<t, g[t \ {ch[t]}]>>] = Op(g[t \ {Max(t)}], Indices[Max(t)])
    BY <2>1, <2>3, <2>4 DEF Folds
  <2>6. g = Body(g)
    BY <2>4, <2>5 DEF Folds
  <2> QED
    BY <2>6
<1>6. G = Body(G)
  <2> HIDE DEF Body
  <2> QED
    BY <1>5
<1> HIDE DEF G
<1>7. G[D] \in P[D]
  <2>1. G[{}] = k /\ \A t \in SUBSET D : t # {} => G[t] = Op(G[t \ {Max(t)}], Indices[Max(t)])
    BY <1>6
  <2>2. \A t \in SUBSET D : t # {} /\ G[t \ {ch[t]}] \in P[t \ {ch[t]}] => G[t] \in P[t]
    <3>1. \A t \in SUBSET D : ch[t] = Max(t)
      OBVIOUS
    <3> HIDE DEF P, ch, Body
    <3> SUFFICES ASSUME NEW t \in SUBSET D, t # {}, G[t \ {ch[t]}] \in P[t \ {ch[t]}]
                 PROVE  G[t] \in P[t]
      OBVIOUS
    <3>2. ch[t] = Max(t)
      BY <3>1
    <3>3. Op(G[t \ {Max(t)}], Indices[Max(t)]) \in P[t]
      BY <1>2, <3>2
    <3>4. G[t] = Op(G[t \ {Max(t)}], Indices[Max(t)])
      BY <2>1
    <3> QED
      BY <3>3, <3>4
  <2>3. IsFiniteSet(D)
    BY SizeAssumption, FS_Interval
  <2> HIDE DEF P, ch, D, Body
  <2> QED
    BY <1>3, <1>4, <2>1, <2>2, <2>3, FoldInduction
<1>8. G[D] \in GoodCaches /\ \A i \in Cells : After(G[D], i)
  <2>1. \A i \in Cells : i + 1 \in D
    BY SizeAssumption DEF Cells
  <2>2. D \in SUBSET D
    OBVIOUS
  <2> HIDE DEF G
  <2> QED
    BY <1>7, <2>1, <2>2
<1> QED
  BY <1>1, <1>8 DEF After

\* ... CpRange, ...
CpAt(r, k, i, s, t, p0, p1) ==
    /\ r.pos[i] = k.pos[i] /\ r.shift[i] = k.shift[i]
    /\ r.seq[i] = IF PosIn(k, i, p0, p1) /\ s \in k.seq[i] THEN k.seq[i] \union {t} ELSE k.seq[i]

\* CpRange adds a sequence to the cells of a range that have another, unless one has it.
LEMMA CpRangeGood ==
    ASSUME NEW k \in GoodCaches, NEW s \in Seqs, NEW q \in Seqs, NEW p0 \in Int, NEW p1 \in Int,
           \A i \in Cells : PosIn(k, i, p0, p1) => ~({s, q} \subseteq k.seq[i])
    PROVE  LET r == CpRange(k, s, q, p0, p1)
           IN  /\ r \in GoodCaches
               /\ \A i \in Cells : CpAt(r, k, i, s, q, p0, p1)
<1> DEFINE D == 1 .. Size
           Op(c, i) == IF PosIn(c, i, p0, p1) /\ s \in c.seq[i] THEN SeqAdd(c, i, q) ELSE c
           After(c, i) == CpAt(c, k, i, s, q, p0, p1)
           P == [t \in SUBSET D |->
                  {c \in GoodCaches : \A i \in Cells :
                      IF i + 1 \in t THEN After(c, i) ELSE Untouched(c, k, i)}]
           step == [x \in (SUBSET D) \X GoodCaches |-> Op(x[2], Indices[Max(x[1])])]
           ch == [t \in SUBSET D |-> Max(t)]
           Body(g) == [t \in SUBSET D |-> IF t = {} THEN k
                                          ELSE Op(g[t \ {Max(t)}], Indices[Max(t)])]
           G == CHOOSE g : g = Body(g)
<1>1. CpRange(k, s, q, p0, p1) = G[D]
  BY IndexDomain DEF CpRange, ForCells, FoldLeft, MapThenFoldSet
<1>2. ASSUME NEW t \in SUBSET D, t # {}, NEW c \in P[t \ {Max(t)}]
      PROVE  Op(c, Indices[Max(t)]) \in P[t]
  <2> DEFINE i == Indices[Max(t)]
  <2>1. i \in Cells /\ i + 1 = Max(t) /\ i + 1 \in t
    BY <1>2, IndexOfMax
  <2>2. t \ {Max(t)} \in SUBSET D
    BY <1>2
  <2> HIDE DEF i
  <2>3. /\ c \in GoodCaches /\ Untouched(c, k, i)
        /\ \A j \in Cells : j # i => IF j + 1 \in t THEN After(c, j) ELSE Untouched(c, k, j)
    <3>1. \A j \in Cells : j # i => (j + 1 \in t <=> j + 1 \in t \ {Max(t)})
      BY <2>1 DEF Cells
    <3>2. c \in GoodCaches /\ \A j \in Cells :
             IF j + 1 \in t \ {Max(t)} THEN After(c, j) ELSE Untouched(c, k, j)
      BY <2>2
    <3> HIDE DEF After, P
    <3> QED
      BY <2>1, <3>1, <3>2
  <2>4. /\ Op(c, i) \in GoodCaches /\ After(Op(c, i), i)
        /\ \A j \in Cells : j # i => Untouched(Op(c, i), c, j)
    <3>1. CASE PosIn(c, i, p0, p1) /\ s \in c.seq[i]
      <4> DEFINE r == SeqAdd(c, i, q)
      <4>p. c.pos[i] # -1 /\ q \notin c.seq[i]
        <5>1. c.pos[i] # -1
          BY <2>1, <2>3, <3>1, GoodTypes
        <5>2. q \notin c.seq[i]
          BY <2>1, <2>3, <3>1 DEF PosIn, Untouched
        <5> QED
          BY <5>1, <5>2
      <4>1. /\ r \in GoodCaches
            /\ r.pos = c.pos /\ r.seq = [c.seq EXCEPT ![i] = @ \union {q}] /\ r.shift = c.shift
        BY <2>1, <2>3, <3>1, <4>p, SeqAddGood
      <4>2. Op(c, i) = r
        BY <3>1
      <4>3. PosIn(k, i, p0, p1) /\ s \in k.seq[i]
        BY <2>3, <3>1 DEF PosIn, Untouched
      <4>4. /\ c.pos \in [Cells -> Positions \union {-1}] /\ c.seq \in [Cells -> SUBSET Seqs]
            /\ c.shift \in [Cells -> Int]
        BY <2>3, GoodTypes DEF RawCaches
      <4> HIDE DEF r, Op
      <4>5. r.pos[i] = k.pos[i] /\ r.seq[i] = k.seq[i] \union {q} /\ r.shift[i] = k.shift[i]
        BY <2>1, <2>3, <4>1, <4>4 DEF Untouched
      <4>6. \A j \in Cells : j # i => Untouched(r, c, j)
        BY <4>1, <4>4 DEF Untouched
      <4> QED
        BY <2>3, <4>1, <4>2, <4>3, <4>5, <4>6 DEF CpAt, Untouched
    <3>2. CASE ~(PosIn(c, i, p0, p1) /\ s \in c.seq[i])
      <4>1. Op(c, i) = c
        BY <3>2
      <4>2. ~(PosIn(k, i, p0, p1) /\ s \in k.seq[i])
        BY <2>3, <3>2 DEF PosIn, Untouched
      <4> HIDE DEF Op
      <4> QED
        BY <2>3, <4>1, <4>2 DEF CpAt, Untouched
    <3> QED
      BY <3>1, <3>2
  <2>5. ASSUME NEW j \in Cells
        PROVE  IF j + 1 \in t THEN After(Op(c, i), j) ELSE Untouched(Op(c, i), k, j)
    <3> HIDE DEF Op
    <3>1. CASE j = i
      BY <2>1, <2>4, <3>1
    <3>2. CASE j # i
      BY <2>3, <2>4, <3>2 DEF Untouched, CpAt
    <3> QED
      BY <3>1, <3>2
  <2> HIDE DEF After, Op
  <2> QED
    BY <2>4, <2>5 DEF i
<1>3. k \in P[{}]
  BY DEF Untouched
<1> HIDE DEF Op, After
<1>4. Picks(ch, D)
  BY IndexOfMax DEF Picks
<1>5. \E g : g = Body(g)
  <2>1. \A t \in SUBSET D : t # {} => \A c \in P[t \ {ch[t]}] :
          step[<<t, c>>] = Op(c, Indices[Max(t)]) /\ step[<<t, c>>] \in P[t]
    <3> SUFFICES ASSUME NEW t \in SUBSET D, t # {}, NEW c \in P[t \ {ch[t]}]
                 PROVE  step[<<t, c>>] = Op(c, Indices[Max(t)]) /\ step[<<t, c>>] \in P[t]
      OBVIOUS
    <3>1. ch[t] = Max(t)
      OBVIOUS
    <3>2. t \ {ch[t]} \in SUBSET D
      OBVIOUS
    <3>3. c \in GoodCaches
      BY <3>2
    <3>4. step[<<t, c>>] = Op(c, Indices[Max(t)])
      BY <3>3
    <3> HIDE DEF P, step, ch
    <3> QED
      BY <1>2, <3>1, <3>4
  <2>2. IsFiniteSet(D)
    BY SizeAssumption, FS_Interval
  <2>3. \A t \in SUBSET D : ch[t] = Max(t)
    OBVIOUS
  <2> HIDE DEF P, step, ch, D
  <2>4. PICK g : Folds(g, k, step, P, ch, D)
    <3>1. Leads(step, P, ch, D)
      BY <2>1 DEF Leads
    <3> QED
      BY <1>3, <1>4, <2>2, <3>1, FoldExists
  <2>5. \A t \in SUBSET D : t # {} =>
          step[<<t, g[t \ {ch[t]}]>>] = Op(g[t \ {Max(t)}], Indices[Max(t)])
    BY <2>1, <2>3, <2>4 DEF Folds
  <2>6. g = Body(g)
    BY <2>4, <2>5 DEF Folds
  <2> QED
    BY <2>6
<1>6. G = Body(G)
  <2> HIDE DEF Body
  <2> QED
    BY <1>5
<1> HIDE DEF G
<1>7. G[D] \in P[D]
  <2>1. G[{}] = k /\ \A t \in SUBSET D : t # {} => G[t] = Op(G[t \ {Max(t)}], Indices[Max(t)])
    BY <1>6
  <2>2. \A t \in SUBSET D : t # {} /\ G[t \ {ch[t]}] \in P[t \ {ch[t]}] => G[t] \in P[t]
    <3>1. \A t \in SUBSET D : ch[t] = Max(t)
      OBVIOUS
    <3> HIDE DEF P, ch, Body
    <3> SUFFICES ASSUME NEW t \in SUBSET D, t # {}, G[t \ {ch[t]}] \in P[t \ {ch[t]}]
                 PROVE  G[t] \in P[t]
      OBVIOUS
    <3>2. ch[t] = Max(t)
      BY <3>1
    <3>3. Op(G[t \ {Max(t)}], Indices[Max(t)]) \in P[t]
      BY <1>2, <3>2
    <3>4. G[t] = Op(G[t \ {Max(t)}], Indices[Max(t)])
      BY <2>1
    <3> QED
      BY <3>3, <3>4
  <2>3. IsFiniteSet(D)
    BY SizeAssumption, FS_Interval
  <2> HIDE DEF P, ch, D, Body
  <2> QED
    BY <1>3, <1>4, <2>1, <2>2, <2>3, FoldInduction
<1>8. G[D] \in GoodCaches /\ \A i \in Cells : After(G[D], i)
  <2>1. \A i \in Cells : i + 1 \in D
    BY SizeAssumption DEF Cells
  <2>2. D \in SUBSET D
    OBVIOUS
  <2> HIDE DEF G
  <2> QED
    BY <1>7, <2>1, <2>2
<1> QED
  BY <1>1, <1>8 DEF After

\* ... KeepOnly, ...
KeepAt(r, k, i, s) ==
    /\ r.seq[i] = k.seq[i] \intersect {s}
    /\ r.pos[i] = IF s \in k.seq[i] THEN k.pos[i] ELSE -1
    /\ r.shift[i] = IF s \in k.seq[i] \/ k.pos[i] = -1 THEN k.shift[i] ELSE 0

\* KeepOnly empties the cells that do not have the sequence.
LEMMA KeepOnlyGood ==
    ASSUME NEW k \in GoodCaches, NEW s \in Seqs
    PROVE  LET r == KeepOnly(k, s)
           IN  /\ r \in GoodCaches
               /\ \A i \in Cells : KeepAt(r, k, i, s)
<1> DEFINE D == 1 .. Size
           Op(c, i) == IF TRUE THEN SeqKeep(c, i, s) ELSE c
           After(c, i) == KeepAt(c, k, i, s)
           P == [t \in SUBSET D |->
                  {c \in GoodCaches : \A i \in Cells :
                      IF i + 1 \in t THEN After(c, i) ELSE Untouched(c, k, i)}]
           step == [x \in (SUBSET D) \X GoodCaches |-> Op(x[2], Indices[Max(x[1])])]
           ch == [t \in SUBSET D |-> Max(t)]
           Body(g) == [t \in SUBSET D |-> IF t = {} THEN k
                                          ELSE Op(g[t \ {Max(t)}], Indices[Max(t)])]
           G == CHOOSE g : g = Body(g)
<1>1. KeepOnly(k, s) = G[D]
  BY IndexDomain DEF KeepOnly, ForCells, FoldLeft, MapThenFoldSet
<1>2. ASSUME NEW t \in SUBSET D, t # {}, NEW c \in P[t \ {Max(t)}]
      PROVE  Op(c, Indices[Max(t)]) \in P[t]
  <2> DEFINE i == Indices[Max(t)]
  <2>1. i \in Cells /\ i + 1 = Max(t) /\ i + 1 \in t
    BY <1>2, IndexOfMax
  <2>2. t \ {Max(t)} \in SUBSET D
    BY <1>2
  <2> HIDE DEF i
  <2>3. /\ c \in GoodCaches /\ Untouched(c, k, i)
        /\ \A j \in Cells : j # i => IF j + 1 \in t THEN After(c, j) ELSE Untouched(c, k, j)
    <3>1. \A j \in Cells : j # i => (j + 1 \in t <=> j + 1 \in t \ {Max(t)})
      BY <2>1 DEF Cells
    <3>2. c \in GoodCaches /\ \A j \in Cells :
             IF j + 1 \in t \ {Max(t)} THEN After(c, j) ELSE Untouched(c, k, j)
      BY <2>2
    <3> HIDE DEF After, P
    <3> QED
      BY <2>1, <3>1, <3>2
  <2>4. /\ Op(c, i) \in GoodCaches /\ After(Op(c, i), i)
        /\ \A j \in Cells : j # i => Untouched(Op(c, i), c, j)
    <3> DEFINE r == SeqKeep(c, i, s)
    <3>0. c \in GoodCaches /\ i \in Cells
      BY <2>1, <2>3
    <3>1. /\ r \in GoodCaches
          /\ r.pos = IF s \in c.seq[i] THEN c.pos ELSE [c.pos EXCEPT ![i] = -1]
          /\ r.seq = [c.seq EXCEPT ![i] = @ \intersect {s}]
          /\ r.shift = IF s \in c.seq[i] \/ c.pos[i] = -1 THEN c.shift ELSE [c.shift EXCEPT ![i] = 0]
      BY <3>0, SeqKeepGood
    <3>2. Op(c, i) = r
      OBVIOUS
    <3>4. /\ c.pos \in [Cells -> Positions \union {-1}] /\ c.seq \in [Cells -> SUBSET Seqs]
          /\ c.shift \in [Cells -> Int]
      BY <2>3, GoodTypes DEF RawCaches
    <3> HIDE DEF r, Op
    <3>5. /\ r.pos[i] = IF s \in c.seq[i] THEN c.pos[i] ELSE -1
          /\ r.seq[i] = c.seq[i] \intersect {s}
          /\ r.shift[i] = IF s \in c.seq[i] \/ c.pos[i] = -1 THEN c.shift[i] ELSE 0
      BY <2>1, <3>1, <3>4
    <3>6. \A j \in Cells : j # i => Untouched(r, c, j)
      BY <3>1, <3>4 DEF Untouched
    <3> QED
      BY <2>3, <3>1, <3>2, <3>5, <3>6 DEF KeepAt, Untouched
  <2>5. ASSUME NEW j \in Cells
        PROVE  IF j + 1 \in t THEN After(Op(c, i), j) ELSE Untouched(Op(c, i), k, j)
    <3> HIDE DEF Op
    <3>1. CASE j = i
      BY <2>1, <2>4, <3>1
    <3>2. CASE j # i
      BY <2>3, <2>4, <3>2 DEF Untouched, KeepAt
    <3> QED
      BY <3>1, <3>2
  <2> HIDE DEF After, Op
  <2> QED
    BY <2>4, <2>5 DEF i
<1>3. k \in P[{}]
  BY DEF Untouched
<1> HIDE DEF Op, After
<1>4. Picks(ch, D)
  BY IndexOfMax DEF Picks
<1>5. \E g : g = Body(g)
  <2>1. \A t \in SUBSET D : t # {} => \A c \in P[t \ {ch[t]}] :
          step[<<t, c>>] = Op(c, Indices[Max(t)]) /\ step[<<t, c>>] \in P[t]
    <3> SUFFICES ASSUME NEW t \in SUBSET D, t # {}, NEW c \in P[t \ {ch[t]}]
                 PROVE  step[<<t, c>>] = Op(c, Indices[Max(t)]) /\ step[<<t, c>>] \in P[t]
      OBVIOUS
    <3>1. ch[t] = Max(t)
      OBVIOUS
    <3>2. t \ {ch[t]} \in SUBSET D
      OBVIOUS
    <3>3. c \in GoodCaches
      BY <3>2
    <3>4. step[<<t, c>>] = Op(c, Indices[Max(t)])
      BY <3>3
    <3> HIDE DEF P, step, ch
    <3> QED
      BY <1>2, <3>1, <3>4
  <2>2. IsFiniteSet(D)
    BY SizeAssumption, FS_Interval
  <2>3. \A t \in SUBSET D : ch[t] = Max(t)
    OBVIOUS
  <2> HIDE DEF P, step, ch, D
  <2>4. PICK g : Folds(g, k, step, P, ch, D)
    <3>1. Leads(step, P, ch, D)
      BY <2>1 DEF Leads
    <3> QED
      BY <1>3, <1>4, <2>2, <3>1, FoldExists
  <2>5. \A t \in SUBSET D : t # {} =>
          step[<<t, g[t \ {ch[t]}]>>] = Op(g[t \ {Max(t)}], Indices[Max(t)])
    BY <2>1, <2>3, <2>4 DEF Folds
  <2>6. g = Body(g)
    BY <2>4, <2>5 DEF Folds
  <2> QED
    BY <2>6
<1>6. G = Body(G)
  <2> HIDE DEF Body
  <2> QED
    BY <1>5
<1> HIDE DEF G
<1>7. G[D] \in P[D]
  <2>1. G[{}] = k /\ \A t \in SUBSET D : t # {} => G[t] = Op(G[t \ {Max(t)}], Indices[Max(t)])
    BY <1>6
  <2>2. \A t \in SUBSET D : t # {} /\ G[t \ {ch[t]}] \in P[t \ {ch[t]}] => G[t] \in P[t]
    <3>1. \A t \in SUBSET D : ch[t] = Max(t)
      OBVIOUS
    <3> HIDE DEF P, ch, Body
    <3> SUFFICES ASSUME NEW t \in SUBSET D, t # {}, G[t \ {ch[t]}] \in P[t \ {ch[t]}]
                 PROVE  G[t] \in P[t]
      OBVIOUS
    <3>2. ch[t] = Max(t)
      BY <3>1
    <3>3. Op(G[t \ {Max(t)}], Indices[Max(t)]) \in P[t]
      BY <1>2, <3>2
    <3>4. G[t] = Op(G[t \ {Max(t)}], Indices[Max(t)])
      BY <2>1
    <3> QED
      BY <3>3, <3>4
  <2>3. IsFiniteSet(D)
    BY SizeAssumption, FS_Interval
  <2> HIDE DEF P, ch, D, Body
  <2> QED
    BY <1>3, <1>4, <2>1, <2>2, <2>3, FoldInduction
<1>8. G[D] \in GoodCaches /\ \A i \in Cells : After(G[D], i)
  <2>1. \A i \in Cells : i + 1 \in D
    BY SizeAssumption DEF Cells
  <2>2. D \in SUBSET D
    OBVIOUS
  <2> HIDE DEF G
  <2> QED
    BY <1>7, <2>1, <2>2
<1> QED
  BY <1>1, <1>8 DEF After

\* ... AddRange, ...
AddAt(r, k, i, s, p0, p1, d) ==
    LET p == k.pos[i] + d
    IN  IF PosIn(k, i, p0, p1) /\ s \in k.seq[i]
        THEN /\ r.pos[i] = IF p < 0 THEN -1 ELSE p
             /\ r.seq[i] = IF p < 0 THEN {} ELSE k.seq[i]
             /\ r.shift[i] = IF p < 0 THEN 0 ELSE k.shift[i] + d
        ELSE Untouched(r, k, i)

\* AddRange moves the cells of a range, and empties those that leave it below.
LEMMA AddRangeGood ==
    ASSUME NEW k \in GoodCaches, NEW s \in Seqs, NEW p0 \in Int, NEW p1 \in Int, NEW d \in Int,
           \A i \in Cells : k.pos[i] + d <= MaxPos
    PROVE  LET r == AddRange(k, s, p0, p1, d)
           IN  /\ r \in GoodCaches
               /\ \A i \in Cells : AddAt(r, k, i, s, p0, p1, d)
<1> DEFINE D == 1 .. Size
           Op(c, i) == IF PosIn(c, i, p0, p1) /\ s \in c.seq[i] THEN PosAdd(c, i, d) ELSE c
           After(c, i) == AddAt(c, k, i, s, p0, p1, d)
           P == [t \in SUBSET D |->
                  {c \in GoodCaches : \A i \in Cells :
                      IF i + 1 \in t THEN After(c, i) ELSE Untouched(c, k, i)}]
           step == [x \in (SUBSET D) \X GoodCaches |-> Op(x[2], Indices[Max(x[1])])]
           ch == [t \in SUBSET D |-> Max(t)]
           Body(g) == [t \in SUBSET D |-> IF t = {} THEN k
                                          ELSE Op(g[t \ {Max(t)}], Indices[Max(t)])]
           G == CHOOSE g : g = Body(g)
<1>1. AddRange(k, s, p0, p1, d) = G[D]
  BY IndexDomain DEF AddRange, ForCells, FoldLeft, MapThenFoldSet
<1>2. ASSUME NEW t \in SUBSET D, t # {}, NEW c \in P[t \ {Max(t)}]
      PROVE  Op(c, Indices[Max(t)]) \in P[t]
  <2> DEFINE i == Indices[Max(t)]
  <2>1. i \in Cells /\ i + 1 = Max(t) /\ i + 1 \in t
    BY <1>2, IndexOfMax
  <2>2. t \ {Max(t)} \in SUBSET D
    BY <1>2
  <2> HIDE DEF i
  <2>3. /\ c \in GoodCaches /\ Untouched(c, k, i)
        /\ \A j \in Cells : j # i => IF j + 1 \in t THEN After(c, j) ELSE Untouched(c, k, j)
    <3>1. \A j \in Cells : j # i => (j + 1 \in t <=> j + 1 \in t \ {Max(t)})
      BY <2>1 DEF Cells
    <3>2. c \in GoodCaches /\ \A j \in Cells :
             IF j + 1 \in t \ {Max(t)} THEN After(c, j) ELSE Untouched(c, k, j)
      BY <2>2
    <3> HIDE DEF After, P
    <3> QED
      BY <2>1, <3>1, <3>2
  <2>4. /\ Op(c, i) \in GoodCaches /\ After(Op(c, i), i)
        /\ \A j \in Cells : j # i => Untouched(Op(c, i), c, j)
    <3>1. CASE PosIn(c, i, p0, p1) /\ s \in c.seq[i]
      <4> DEFINE r == PosAdd(c, i, d)
      <4>p. Movable(c, i, d)
        <5>1. c.pos[i] # -1
          BY <2>1, <2>3, <3>1, GoodTypes
        <5>2. c.pos[i] + d <= MaxPos
          BY <2>1, <2>3 DEF Untouched
        <5> QED
          BY <5>1, <5>2 DEF Movable
      <4>1. /\ r \in GoodCaches
            /\ r.pos[i] = IF c.pos[i] + d < 0 THEN -1 ELSE c.pos[i] + d
            /\ r.seq[i] = IF c.pos[i] + d < 0 THEN {} ELSE c.seq[i]
            /\ r.shift[i] = IF c.pos[i] + d < 0 THEN 0 ELSE c.shift[i] + d
            /\ \A j \in Cells : j # i => /\ r.pos[j] = c.pos[j] /\ r.seq[j] = c.seq[j]
                                         /\ r.shift[j] = c.shift[j]
        <5>1. c \in GoodCaches /\ i \in Cells
          BY <2>1, <2>3
        <5>2. Moved(PosAdd(c, i, d), c, i, d)
          <6> HIDE DEF P, step, G, Body
          <6> QED
            BY <5>1, <4>p, PosAddGood
        <5> QED
          BY <5>2 DEF Moved
      <4>2. Op(c, i) = r
        BY <3>1
      <4>3. PosIn(k, i, p0, p1) /\ s \in k.seq[i]
        BY <2>3, <3>1 DEF PosIn, Untouched
      <4>4. /\ c.pos \in [Cells -> Positions \union {-1}] /\ c.seq \in [Cells -> SUBSET Seqs]
            /\ c.shift \in [Cells -> Int]
        BY <2>3, GoodTypes DEF RawCaches
      <4> HIDE DEF r, Op
      <4>5. /\ r.pos[i] = IF k.pos[i] + d < 0 THEN -1 ELSE k.pos[i] + d
            /\ r.seq[i] = IF k.pos[i] + d < 0 THEN {} ELSE k.seq[i]
            /\ r.shift[i] = IF k.pos[i] + d < 0 THEN 0 ELSE k.shift[i] + d
        BY <2>1, <2>3, <4>1, <4>4 DEF Untouched
      <4>6. \A j \in Cells : j # i => Untouched(r, c, j)
        BY <4>1, <4>4 DEF Untouched
      <4> QED
        BY <2>3, <4>1, <4>2, <4>3, <4>5, <4>6 DEF AddAt, Untouched
    <3>2. CASE ~(PosIn(c, i, p0, p1) /\ s \in c.seq[i])
      <4>1. Op(c, i) = c
        BY <3>2
      <4>2. ~(PosIn(k, i, p0, p1) /\ s \in k.seq[i])
        BY <2>3, <3>2 DEF PosIn, Untouched
      <4> HIDE DEF Op
      <4> QED
        BY <2>3, <4>1, <4>2 DEF AddAt, Untouched
    <3> QED
      BY <3>1, <3>2
  <2>5. ASSUME NEW j \in Cells
        PROVE  IF j + 1 \in t THEN After(Op(c, i), j) ELSE Untouched(Op(c, i), k, j)
    <3> HIDE DEF Op
    <3>1. CASE j = i
      BY <2>1, <2>4, <3>1
    <3>2. CASE j # i
      BY <2>3, <2>4, <3>2 DEF Untouched, AddAt
    <3> QED
      BY <3>1, <3>2
  <2> HIDE DEF After, Op
  <2> QED
    BY <2>4, <2>5 DEF i
<1>3. k \in P[{}]
  BY DEF Untouched
<1> HIDE DEF Op, After
<1>4. Picks(ch, D)
  BY IndexOfMax DEF Picks
<1>5. \E g : g = Body(g)
  <2>1. \A t \in SUBSET D : t # {} => \A c \in P[t \ {ch[t]}] :
          step[<<t, c>>] = Op(c, Indices[Max(t)]) /\ step[<<t, c>>] \in P[t]
    <3> SUFFICES ASSUME NEW t \in SUBSET D, t # {}, NEW c \in P[t \ {ch[t]}]
                 PROVE  step[<<t, c>>] = Op(c, Indices[Max(t)]) /\ step[<<t, c>>] \in P[t]
      OBVIOUS
    <3>1. ch[t] = Max(t)
      OBVIOUS
    <3>2. t \ {ch[t]} \in SUBSET D
      OBVIOUS
    <3>3. c \in GoodCaches
      BY <3>2
    <3>4. step[<<t, c>>] = Op(c, Indices[Max(t)])
      BY <3>3
    <3> HIDE DEF P, step, ch
    <3> QED
      BY <1>2, <3>1, <3>4
  <2>2. IsFiniteSet(D)
    BY SizeAssumption, FS_Interval
  <2>3. \A t \in SUBSET D : ch[t] = Max(t)
    OBVIOUS
  <2> HIDE DEF P, step, ch, D
  <2>4. PICK g : Folds(g, k, step, P, ch, D)
    <3>1. Leads(step, P, ch, D)
      BY <2>1 DEF Leads
    <3> QED
      BY <1>3, <1>4, <2>2, <3>1, FoldExists
  <2>5. \A t \in SUBSET D : t # {} =>
          step[<<t, g[t \ {ch[t]}]>>] = Op(g[t \ {Max(t)}], Indices[Max(t)])
    BY <2>1, <2>3, <2>4 DEF Folds
  <2>6. g = Body(g)
    BY <2>4, <2>5 DEF Folds
  <2> QED
    BY <2>6
<1>6. G = Body(G)
  <2> HIDE DEF Body
  <2> QED
    BY <1>5
<1> HIDE DEF G
<1>7. G[D] \in P[D]
  <2>1. G[{}] = k /\ \A t \in SUBSET D : t # {} => G[t] = Op(G[t \ {Max(t)}], Indices[Max(t)])
    BY <1>6
  <2>2. \A t \in SUBSET D : t # {} /\ G[t \ {ch[t]}] \in P[t \ {ch[t]}] => G[t] \in P[t]
    <3>1. \A t \in SUBSET D : ch[t] = Max(t)
      OBVIOUS
    <3> HIDE DEF P, ch, Body
    <3> SUFFICES ASSUME NEW t \in SUBSET D, t # {}, G[t \ {ch[t]}] \in P[t \ {ch[t]}]
                 PROVE  G[t] \in P[t]
      OBVIOUS
    <3>2. ch[t] = Max(t)
      BY <3>1
    <3>3. Op(G[t \ {Max(t)}], Indices[Max(t)]) \in P[t]
      BY <1>2, <3>2
    <3>4. G[t] = Op(G[t \ {Max(t)}], Indices[Max(t)])
      BY <2>1
    <3> QED
      BY <3>3, <3>4
  <2>3. IsFiniteSet(D)
    BY SizeAssumption, FS_Interval
  <2> HIDE DEF P, ch, D, Body
  <2> QED
    BY <1>3, <1>4, <2>1, <2>2, <2>3, FoldInduction
<1>8. G[D] \in GoodCaches /\ \A i \in Cells : After(G[D], i)
  <2>1. \A i \in Cells : i + 1 \in D
    BY SizeAssumption DEF Cells
  <2>2. D \in SUBSET D
    OBVIOUS
  <2> HIDE DEF G
  <2> QED
    BY <1>7, <2>1, <2>2
<1> QED
  BY <1>1, <1>8 DEF After

\* ... and DivCells.
DivAt(r, k, i, hit, d) ==
    IF i \in hit THEN r.pos[i] = k.pos[i] \div d /\ r.seq[i] = k.seq[i]
                 ELSE Untouched(r, k, i)

\* DivCells divides the positions of some occupied cells.
LEMMA DivCellsGood ==
    ASSUME NEW k \in GoodCaches, NEW hit \in SUBSET Cells, \A i \in hit : k.pos[i] # -1, NEW d \in Nat \ {0}
    PROVE  LET r == DivCells(k, hit, d)
           IN  /\ r \in GoodCaches
               /\ \A i \in Cells : DivAt(r, k, i, hit, d)
<1> DEFINE D == 1 .. Size
           Op(c, i) == IF i \in hit THEN PosDiv(c, i, d) ELSE c
           After(c, i) == DivAt(c, k, i, hit, d)
           P == [t \in SUBSET D |->
                  {c \in GoodCaches : \A i \in Cells :
                      IF i + 1 \in t THEN After(c, i) ELSE Untouched(c, k, i)}]
           step == [x \in (SUBSET D) \X GoodCaches |-> Op(x[2], Indices[Max(x[1])])]
           ch == [t \in SUBSET D |-> Max(t)]
           Body(g) == [t \in SUBSET D |-> IF t = {} THEN k
                                          ELSE Op(g[t \ {Max(t)}], Indices[Max(t)])]
           G == CHOOSE g : g = Body(g)
<1>1. DivCells(k, hit, d) = G[D]
  BY IndexDomain DEF DivCells, ForCells, FoldLeft, MapThenFoldSet
<1>2. ASSUME NEW t \in SUBSET D, t # {}, NEW c \in P[t \ {Max(t)}]
      PROVE  Op(c, Indices[Max(t)]) \in P[t]
  <2> DEFINE i == Indices[Max(t)]
  <2>1. i \in Cells /\ i + 1 = Max(t) /\ i + 1 \in t
    BY <1>2, IndexOfMax
  <2>2. t \ {Max(t)} \in SUBSET D
    BY <1>2
  <2> HIDE DEF i
  <2>3. /\ c \in GoodCaches /\ Untouched(c, k, i)
        /\ \A j \in Cells : j # i => IF j + 1 \in t THEN After(c, j) ELSE Untouched(c, k, j)
    <3>1. \A j \in Cells : j # i => (j + 1 \in t <=> j + 1 \in t \ {Max(t)})
      BY <2>1 DEF Cells
    <3>2. c \in GoodCaches /\ \A j \in Cells :
             IF j + 1 \in t \ {Max(t)} THEN After(c, j) ELSE Untouched(c, k, j)
      BY <2>2
    <3> HIDE DEF After, P
    <3> QED
      BY <2>1, <3>1, <3>2
  <2>4. /\ Op(c, i) \in GoodCaches /\ After(Op(c, i), i)
        /\ \A j \in Cells : j # i => Untouched(Op(c, i), c, j)
    <3>1. CASE i \in hit
      <4> DEFINE r == PosDiv(c, i, d)
      <4>p. c.pos[i] # -1
        BY <2>1, <2>3, <3>1 DEF Untouched
      <4>1. /\ r \in GoodCaches
            /\ r.pos = [c.pos EXCEPT ![i] = @ \div d] /\ r.seq = c.seq
            /\ \A j \in Cells : j # i => r.shift[j] = c.shift[j]
        BY <2>1, <2>3, <3>1, <4>p, PosDivGood
      <4>2. Op(c, i) = r
        BY <3>1
      <4>3. i \in hit
        BY <2>3, <3>1 DEF PosIn, Untouched
      <4>4. /\ c.pos \in [Cells -> Positions \union {-1}] /\ c.seq \in [Cells -> SUBSET Seqs]
            /\ c.shift \in [Cells -> Int]
        BY <2>3, GoodTypes DEF RawCaches
      <4> HIDE DEF r, Op
      <4>5. r.pos[i] = k.pos[i] \div d /\ r.seq[i] = k.seq[i]
        BY <2>1, <2>3, <4>1, <4>4 DEF Untouched
      <4>6. \A j \in Cells : j # i => Untouched(r, c, j)
        BY <4>1, <4>4 DEF Untouched
      <4> QED
        BY <2>3, <4>1, <4>2, <4>3, <4>5, <4>6 DEF DivAt, Untouched
    <3>2. CASE ~(i \in hit)
      <4>1. Op(c, i) = c
        BY <3>2
      <4>2. ~(i \in hit)
        BY <2>3, <3>2 DEF PosIn, Untouched
      <4> HIDE DEF Op
      <4> QED
        BY <2>3, <4>1, <4>2 DEF DivAt, Untouched
    <3> QED
      BY <3>1, <3>2
  <2>5. ASSUME NEW j \in Cells
        PROVE  IF j + 1 \in t THEN After(Op(c, i), j) ELSE Untouched(Op(c, i), k, j)
    <3> HIDE DEF Op
    <3>1. CASE j = i
      BY <2>1, <2>4, <3>1
    <3>2. CASE j # i
      BY <2>3, <2>4, <3>2 DEF Untouched, DivAt
    <3> QED
      BY <3>1, <3>2
  <2> HIDE DEF After, Op
  <2> QED
    BY <2>4, <2>5 DEF i
<1>3. k \in P[{}]
  BY DEF Untouched
<1> HIDE DEF Op, After
<1>4. Picks(ch, D)
  BY IndexOfMax DEF Picks
<1>5. \E g : g = Body(g)
  <2>1. \A t \in SUBSET D : t # {} => \A c \in P[t \ {ch[t]}] :
          step[<<t, c>>] = Op(c, Indices[Max(t)]) /\ step[<<t, c>>] \in P[t]
    <3> SUFFICES ASSUME NEW t \in SUBSET D, t # {}, NEW c \in P[t \ {ch[t]}]
                 PROVE  step[<<t, c>>] = Op(c, Indices[Max(t)]) /\ step[<<t, c>>] \in P[t]
      OBVIOUS
    <3>1. ch[t] = Max(t)
      OBVIOUS
    <3>2. t \ {ch[t]} \in SUBSET D
      OBVIOUS
    <3>3. c \in GoodCaches
      BY <3>2
    <3>4. step[<<t, c>>] = Op(c, Indices[Max(t)])
      BY <3>3
    <3> HIDE DEF P, step, ch
    <3> QED
      BY <1>2, <3>1, <3>4
  <2>2. IsFiniteSet(D)
    BY SizeAssumption, FS_Interval
  <2>3. \A t \in SUBSET D : ch[t] = Max(t)
    OBVIOUS
  <2> HIDE DEF P, step, ch, D
  <2>4. PICK g : Folds(g, k, step, P, ch, D)
    <3>1. Leads(step, P, ch, D)
      BY <2>1 DEF Leads
    <3> QED
      BY <1>3, <1>4, <2>2, <3>1, FoldExists
  <2>5. \A t \in SUBSET D : t # {} =>
          step[<<t, g[t \ {ch[t]}]>>] = Op(g[t \ {Max(t)}], Indices[Max(t)])
    BY <2>1, <2>3, <2>4 DEF Folds
  <2>6. g = Body(g)
    BY <2>4, <2>5 DEF Folds
  <2> QED
    BY <2>6
<1>6. G = Body(G)
  <2> HIDE DEF Body
  <2> QED
    BY <1>5
<1> HIDE DEF G
<1>7. G[D] \in P[D]
  <2>1. G[{}] = k /\ \A t \in SUBSET D : t # {} => G[t] = Op(G[t \ {Max(t)}], Indices[Max(t)])
    BY <1>6
  <2>2. \A t \in SUBSET D : t # {} /\ G[t \ {ch[t]}] \in P[t \ {ch[t]}] => G[t] \in P[t]
    <3>1. \A t \in SUBSET D : ch[t] = Max(t)
      OBVIOUS
    <3> HIDE DEF P, ch, Body
    <3> SUFFICES ASSUME NEW t \in SUBSET D, t # {}, G[t \ {ch[t]}] \in P[t \ {ch[t]}]
                 PROVE  G[t] \in P[t]
      OBVIOUS
    <3>2. ch[t] = Max(t)
      BY <3>1
    <3>3. Op(G[t \ {Max(t)}], Indices[Max(t)]) \in P[t]
      BY <1>2, <3>2
    <3>4. G[t] = Op(G[t \ {Max(t)}], Indices[Max(t)])
      BY <2>1
    <3> QED
      BY <3>3, <3>4
  <2>3. IsFiniteSet(D)
    BY SizeAssumption, FS_Interval
  <2> HIDE DEF P, ch, D, Body
  <2> QED
    BY <1>3, <1>4, <2>1, <2>2, <2>3, FoldInduction
<1>8. G[D] \in GoodCaches /\ \A i \in Cells : After(G[D], i)
  <2>1. \A i \in Cells : i + 1 \in D
    BY SizeAssumption DEF Cells
  <2>2. D \in SUBSET D
    OBVIOUS
  <2> HIDE DEF G
  <2> QED
    BY <1>7, <2>1, <2>2
<1> QED
  BY <1>1, <1>8 DEF After

-----------------------------------------------------------------------------
(* A ubatch in the cache.                                                  *)

\* The index a loop over a sequence picks next.
LEMMA PickMax ==
    ASSUME NEW n \in Nat
    PROVE  /\ IsFiniteSet(1 .. n)
           /\ \A t \in SUBSET (1 .. n) : t # {} => Max(t) \in t /\ Min(t) \in t
<1>1. IsFiniteSet(1 .. n) /\ 1 .. n \subseteq Int
  BY FS_Interval
<1>2. ASSUME NEW t \in SUBSET (1 .. n), t # {} PROVE Max(t) \in t /\ Min(t) \in t
  <2>1. IsFiniteSet(t) /\ t \subseteq Int
    BY <1>1, FS_Subset
  <2> QED
    BY <1>2, <2>1, Ends
<1> QED
  BY <1>1, <1>2

\* What a cell holds when the tokens t of a ubatch are in.
PutAt(r, k, i, slot, t, first, s0) ==
    IF \E x \in t : slot[x] = i
    THEN /\ r.seq[i] = {s0} /\ r.shift[i] \in {0, k.shift[i]}
         /\ \E x \in t : slot[x] = i /\ r.pos[i] = first + x - 1
         /\ \A x \in t : slot[x] = i => r.pos[i] >= first + x - 1
    ELSE Untouched(r, k, i)

\* The tokens of a ubatch are put into the cells of its slot.
LEMMA PutAllGood ==
    ASSUME NEW k \in GoodCaches, NEW slot \in Seq(Cells), NEW first \in Nat, NEW s0 \in Seqs,
           first + Len(slot) - 1 <= MaxPos
    PROVE  LET r == PutAll(k, slot, first, s0)
           IN  /\ r \in GoodCaches /\ r.has_shift = k.has_shift
               /\ \A i \in Cells : PutAt(r, k, i, slot, 1 .. Len(slot), first, s0)
<1> DEFINE D == 1 .. Len(slot)
           ids == [j \in 1 .. Len(slot) |-> j]
           Op(c, x) == PutToken(c, slot[ids[x]], first + ids[x] - 1, s0)
           U == GoodCaches
           P == [t \in SUBSET D |-> {c \in GoodCaches :
                  c.has_shift = k.has_shift /\ \A i \in Cells : PutAt(c, k, i, slot, t, first, s0)}]
           step == [y \in (SUBSET D) \X U |-> Op(y[2], Max(y[1]))]
           ch == [t \in SUBSET D |-> Max(t)]
           Body(g) == [t \in SUBSET D |-> IF t = {} THEN k
                                          ELSE Op(g[t \ {Max(t)}], Max(t))]
           G == CHOOSE g : g = Body(g)
<1>n. Len(slot) \in Nat /\ \A x \in D : slot[x] \in Cells
  OBVIOUS
<1>i. DOMAIN ids = D /\ \A x \in D : ids[x] = x
  OBVIOUS
<1>1. PutAll(k, slot, first, s0) = G[D]
  <2>1. PutAll(k, slot, first, s0) =
          FoldLeft(LAMBDA c, j : PutToken(c, slot[j], first + j - 1, s0), k, ids)
    BY DEF PutAll
  <2> HIDE DEF ids, D
  <2> QED
    BY <1>i, <2>1 DEF FoldLeft, MapThenFoldSet
<1>f. IsFiniteSet(D)
  BY <1>n, PickMax
<1>4. \A t \in SUBSET D : t # {} => ch[t] = Max(t) /\ ch[t] \in t
  BY <1>n, PickMax
<1>2. ASSUME NEW t \in SUBSET D, t # {}, NEW x \in t, x = ch[t], NEW c \in P[t \ {x}]
      PROVE  Op(c, x) \in P[t]
  <2>1. c \in GoodCaches /\ c.has_shift = k.has_shift
        /\ \A i \in Cells : PutAt(c, k, i, slot, t \ {x}, first, s0)
    <3>1. t \ {x} \in SUBSET D
      OBVIOUS
    <3> HIDE DEF D
    <3> QED
      BY <3>1
  <2> DEFINE a == slot[x]
             p == first + x - 1
             r == PutToken(c, a, p, s0)
  <2>2. a \in Cells /\ p \in Positions /\ Op(c, x) = r /\ x \in D /\ x \in Int
    <3>1. x \in D /\ x \in Nat \ {0} /\ x <= Len(slot)
      OBVIOUS
    <3>2. ids[x] = x
      BY <1>i, <3>1
    <3>3. p \in Positions
      BY <1>n, <3>1, PosAssumption DEF Positions
    <3> HIDE DEF ids
    <3> QED
      BY <3>1, <3>2, <3>3
  <2> HIDE DEF a, p
  <2>3. /\ r \in GoodCaches
        /\ r.pos = [c.pos EXCEPT ![a] = p] /\ r.seq = [c.seq EXCEPT ![a] = {s0}]
        /\ r.shift = IF c.pos[a] = -1 THEN c.shift ELSE [c.shift EXCEPT ![a] = 0]
        /\ r.has_shift = c.has_shift
    <3>1. r = PutToken(c, a, p, s0)
      OBVIOUS
    <3>2. c \in GoodCaches /\ a \in Cells /\ p \in Positions
      BY <2>1, <2>2
    <3> HIDE DEF P, D, Op, ch, step, Body, G, r
    <3> QED
      BY <3>1, <3>2, PutTokenGood
  <2>4. /\ c.pos \in [Cells -> Positions \union {-1}] /\ c.seq \in [Cells -> SUBSET Seqs]
        /\ c.shift \in [Cells -> Int]
    BY <2>1, GoodTypes DEF RawCaches
  <2>5. /\ r.pos[a] = p /\ r.seq[a] = {s0} /\ r.shift[a] \in {0, c.shift[a]}
        /\ \A i \in Cells : i # a => Untouched(r, c, i)
    BY <2>2, <2>3, <2>4 DEF Untouched
  <2>6. ASSUME NEW i \in Cells PROVE PutAt(r, k, i, slot, t, first, s0)
    <3>1. CASE i = a
      <4>1. c.shift[a] \in {0, k.shift[a]}
        BY <2>1, <2>2 DEF PutAt, Untouched
      <4>2. r.pos[a] = first + x - 1 /\ slot[x] = a
        BY <2>5 DEF a, p
      <4>3. \A y \in t : y <= x
        <5>1. x = Max(t)
          <6> HIDE DEF ch
          <6> QED
            BY <1>2, <1>4
        <5>2. IsFiniteSet(t)
          <6> HIDE DEF D
          <6> QED
            BY <1>f, FS_Subset
        <5>3. t \subseteq Int
          OBVIOUS
        <5> QED
          BY <5>1, <5>2, <5>3, Ends
      <4>4. \A y \in t : slot[y] = i => r.pos[i] >= first + y - 1
        <5>1. first \in Int /\ t \subseteq Int /\ x \in Int
          OBVIOUS
        <5> HIDE DEF r
        <5> QED
          BY <3>1, <4>2, <4>3, <5>1
      <4> HIDE DEF r
      <4> QED
        BY <2>5, <3>1, <4>1, <4>2, <4>4 DEF PutAt
    <3>2. CASE i # a
      <4>1. Untouched(r, c, i)
        BY <2>5, <3>2
      <4>2. \A y \in t : slot[y] = i => y \in t \ {x}
        BY <3>2 DEF a
      <4>3. PutAt(c, k, i, slot, t \ {x}, first, s0)
        BY <2>1
      <4> HIDE DEF r, D
      <4> QED
        BY <4>1, <4>2, <4>3 DEF PutAt, Untouched
    <3> QED
      BY <3>1, <3>2
  <2> HIDE DEF r, Op
  <2> QED
    BY <2>1, <2>2, <2>3, <2>6
<1>3. k \in P[{}]
  <2>1. \A i \in Cells : PutAt(k, k, i, slot, {}, first, s0)
    BY DEF PutAt, Untouched
  <2> QED
    BY <2>1
<1>u. \A t \in SUBSET D : P[t] \subseteq U
  OBVIOUS
<1>p. Picks(ch, D)
  <2> HIDE DEF ch
  <2> QED
    BY <1>4 DEF Picks
<1>5. \E g : g = Body(g)
  <2>1. \A t \in SUBSET D : t # {} => \A c \in P[t \ {ch[t]}] :
          step[<<t, c>>] = Op(c, ch[t]) /\ step[<<t, c>>] \in P[t]
    <3> SUFFICES ASSUME NEW t \in SUBSET D, t # {}, NEW c \in P[t \ {ch[t]}]
                 PROVE  step[<<t, c>>] = Op(c, ch[t]) /\ step[<<t, c>>] \in P[t]
      OBVIOUS
    <3>1. ch[t] = Max(t) /\ ch[t] \in t
      <4> HIDE DEF ch
      <4> QED
        BY <1>4
    <3>2. t \ {ch[t]} \in SUBSET D
      OBVIOUS
    <3>3. c \in U
      <4> HIDE DEF ch, P, U
      <4> QED
        BY <1>u, <3>2
    <3>4. step[<<t, c>>] = Op(c, ch[t])
      <4> HIDE DEF ch, P, U, Op
      <4> QED
        BY <3>1, <3>3
    <3> HIDE DEF P, step, ch, Op
    <3> QED
      BY <1>2, <3>1, <3>4
  <2> HIDE DEF P, step, ch, D, Op, U
  <2>4. PICK g : Folds(g, k, step, P, ch, D)
    <3>1. Leads(step, P, ch, D)
      BY <2>1 DEF Leads
    <3> QED
      BY <1>f, <1>3, <1>p, <3>1, FoldExists
  <2>5. \A t \in SUBSET D : t # {} =>
          step[<<t, g[t \ {ch[t]}]>>] = Op(g[t \ {Max(t)}], Max(t))
    <3> SUFFICES ASSUME NEW t \in SUBSET D, t # {}
                 PROVE  step[<<t, g[t \ {ch[t]}]>>] = Op(g[t \ {ch[t]}], ch[t])
      BY <1>4
    <3>1. t \ {ch[t]} \in SUBSET D
      OBVIOUS
    <3>2. g[t \ {ch[t]}] \in P[t \ {ch[t]}]
      BY <2>4, <3>1 DEF Folds
    <3> QED
      BY <2>1, <3>2
  <2>6. g = Body(g)
    BY <2>4, <2>5 DEF Folds
  <2> QED
    BY <2>6
<1> HIDE DEF Op
<1>6. G = Body(G)
  <2> HIDE DEF Body
  <2> QED
    BY <1>5
<1> HIDE DEF G
<1>7. G[D] \in P[D]
  <2>1. G[{}] = k /\ \A t \in SUBSET D : t # {} => G[t] = Op(G[t \ {Max(t)}], Max(t))
    BY <1>6
  <2>2. \A t \in SUBSET D : t # {} /\ G[t \ {ch[t]}] \in P[t \ {ch[t]}] => G[t] \in P[t]
    <3> HIDE DEF P, ch, Body
    <3> SUFFICES ASSUME NEW t \in SUBSET D, t # {}, G[t \ {ch[t]}] \in P[t \ {ch[t]}]
                 PROVE  G[t] \in P[t]
      OBVIOUS
    <3>1. ch[t] = Max(t) /\ ch[t] \in t
      BY <1>4
    <3>2. Op(G[t \ {ch[t]}], ch[t]) \in P[t]
      BY <1>2, <3>1
    <3>3. G[t] = Op(G[t \ {Max(t)}], Max(t))
      BY <2>1
    <3>4. G[t] = Op(G[t \ {ch[t]}], ch[t])
      BY <3>1, <3>3
    <3> QED
      BY <3>2, <3>4
  <2> HIDE DEF P, ch, D, Body
  <2> QED
    BY <1>f, <1>3, <1>p, <2>1, <2>2, FoldInduction
<1> HIDE DEF step, ch, Body
<1>8. D \in SUBSET D
  OBVIOUS
<1> QED
  BY <1>1, <1>7, <1>8

\* A position is present if and only if a cell has it.
LEMMA PresentIs ==
    ASSUME NEW k \in GoodCaches, NEW s \in Seqs, NEW p \in Positions
    PROVE  p \in Present(k, s) <=> \E i \in Cells : s \in k.seq[i] /\ k.pos[i] = p
<1>1. k.seq_pos[s][p] = Cardinality(Holding(k, s, p))
  BY GoodTypes DEF Books
<1>2. IsFiniteSet(Holding(k, s, p))
  <2>1. IsFiniteSet(Cells)
    BY SizeAssumption, FS_Interval DEF Cells
  <2>2. Holding(k, s, p) \subseteq Cells
    BY DEF Holding
  <2> QED
    BY <2>1, <2>2, FS_Subset
<1>3. Cardinality(Holding(k, s, p)) \in Nat /\ (Cardinality(Holding(k, s, p)) = 0 <=> Holding(k, s, p) = {})
  BY <1>2, FS_CardinalityType, FS_EmptySet
<1>4. p \in Present(k, s) <=> k.seq_pos[s][p] > 0
  BY DEF Present
<1>5. Holding(k, s, p) # {} <=> \E i \in Cells : s \in k.seq[i] /\ k.pos[i] = p
  BY DEF Holding
<1> QED
  BY <1>1, <1>3, <1>4, <1>5

\* seq_pos_min: no cell of the sequence is below it.
LEMMA SeqStart ==
    ASSUME NEW k \in GoodCaches, NEW s \in Seqs
    PROVE  /\ SeqPosMin(k, s) \in Int
           /\ \A i \in Cells : s \in k.seq[i] => SeqPosMin(k, s) <= k.pos[i]
<1> DEFINE S == Present(k, s)
           m == SeqPosMin(k, s)
<1>1. \A i \in Cells : s \in k.seq[i] => k.pos[i] \in S
  <2> SUFFICES ASSUME NEW i \in Cells, s \in k.seq[i] PROVE k.pos[i] \in S
    OBVIOUS
  <2>1. k.pos[i] \in Positions
    BY GoodTypes
  <2> QED
    BY <2>1, PresentIs
<1>2. CASE S = {}
  BY <1>1, <1>2 DEF SeqPosMin
<1>3. CASE S # {}
  <2>1. S \subseteq Int /\ IsFiniteSet(S)
    <3>1. S \subseteq Positions /\ Positions \subseteq Int /\ IsFiniteSet(Positions)
      BY FS_Interval, PosAssumption DEF Present, Positions
    <3>2. IsFiniteSet(S)
      BY <3>1, FS_Subset
    <3> QED
      BY <3>1, <3>2
  <2>2. \E p \in S : \A q \in S : p <= q
    <3> HIDE DEF S
    <3> QED
      BY <1>3, <2>1, Ends
  <2>3. m \in S /\ \A q \in S : m <= q
    BY <1>3, <2>2 DEF SeqPosMin
  <2> HIDE DEF S, m
  <2> QED
    BY <1>1, <2>1, <2>3 DEF m
<1> QED
  BY <1>2, <1>3

\* A cell that may have lost sequences, and is empty if it lost them all.
Shrunk(r, k, i) ==
    /\ r.seq[i] \subseteq k.seq[i]
    /\ \/ r.pos[i] = k.pos[i] /\ r.shift[i] = k.shift[i]
       \/ r.pos[i] = -1 /\ r.shift[i] = 0

\* It still belongs to the sequences that were not purged, or only below its position.
Kept(r, c, i, k, slot, S) ==
    \A q \in c.seq[i] : q \notin S \/ (\A p \in Lost(k, slot, q) : p < c.pos[i]) => q \in r.seq[i]

\* It no longer belongs to the sequences that were purged up to its position.
Purged(r, c, i, k, slot, S) ==
    \A q \in r.seq[i] : q \in S => \A p \in Lost(k, slot, q) : p < c.pos[i]

\* A purge takes a sequence out of the cells below what it lost.
LEMMA PurgeGood ==
    ASSUME NEW k \in GoodCaches, NEW slot \in Seq(Cells), NEW s \in Seqs, NEW c \in GoodCaches
    PROVE  LET r == Purge(k, slot, s, c)
           IN  /\ r \in GoodCaches
               /\ \A i \in Cells : /\ Shrunk(r, c, i) /\ Kept(r, c, i, k, slot, {s})
                                   /\ Purged(r, c, i, k, slot, {s})
<1> DEFINE L == Lost(k, slot, s)
           r == Purge(k, slot, s, c)
           p0 == SeqPosMin(c, s)
           p1 == Max(L) + 1
<1>l. IsFiniteSet(L) /\ L \subseteq Int
  <2> DEFINE S == {i \in ToSet(slot) : k.seq[i] = {s}}
  <2>1. IsFiniteSet(Cells)
    BY SizeAssumption, FS_Interval DEF Cells
  <2>2. S \subseteq Cells
    BY DEF ToSet
  <2>3. IsFiniteSet(S)
    BY <2>1, <2>2, FS_Subset
  <2> DEFINE at == [i \in S |-> k.pos[i]]
  <2>4. L = {at[i] : i \in S} /\ at \in [S -> L]
    BY DEF Lost
  <2>a. \A i \in S : at[i] = k.pos[i]
    OBVIOUS
  <2> HIDE DEF S, L, at
  <2>5. IsFiniteSet(L)
    <3>1. at \in Surjection(S, L)
      BY <2>4 DEF Surjection
    <3> QED
      BY <2>3, <3>1, FS_Surjection
  <2>6. L \subseteq Int
    BY <2>2, <2>4, <2>a, GoodTypes
  <2> QED
    BY <2>5, <2>6
<1>s. p0 \in Int /\ \A i \in Cells : s \in c.seq[i] => p0 <= c.pos[i]
  BY SeqStart
<1>1. CASE L # {} /\ p0 <= Max(L)
  <2>2. Max(L) \in L /\ Max(L) \in Int
    <3> HIDE DEF L
    <3> QED
      BY <1>1, <1>l, Ends
  <2>4. r = RmRange(c, s, p0, p1) /\ p1 \in Int
    BY <1>1, <2>2 DEF Purge
  <2> HIDE DEF r
  <2>5. r \in GoodCaches /\ \A i \in Cells : RmAt(r, c, i, s, p0, p1)
    <3> HIDE DEF p0, p1
    <3> QED
      BY <1>s, <2>4, RmRangeGood
  <2>6. ASSUME NEW i \in Cells PROVE /\ Shrunk(r, c, i) /\ Kept(r, c, i, k, slot, {s})
                                        /\ Purged(r, c, i, k, slot, {s})
    <3>1. RmAt(r, c, i, s, p0, p1)
      BY <2>5
    <3>2. Shrunk(r, c, i)
      BY <3>1 DEF Shrunk, RmAt, Untouched
    <3>3. ASSUME NEW q \in c.seq[i], q \notin {s} \/ (\A p \in Lost(k, slot, q) : p < c.pos[i])
          PROVE  q \in r.seq[i]
      <4>1. CASE q # s
        BY <3>1, <4>1 DEF RmAt, Untouched
      <4>2. CASE q = s
        <5>1. Max(L) < c.pos[i]
          BY <2>2, <3>3, <4>2
        <5>2. ~PosIn(c, i, p0, p1)
          <6>1. c.pos[i] \in Int
            BY GoodTypes
          <6> HIDE DEF L
          <6> QED
            BY <2>2, <5>1, <6>1 DEF PosIn
        <5> QED
          BY <3>1, <5>2 DEF RmAt, Untouched
      <4> QED
        BY <4>1, <4>2
    <3>4. ASSUME s \in r.seq[i], NEW p \in L PROVE p < c.pos[i]
      <4>1. s \in c.seq[i] /\ ~PosIn(c, i, p0, p1)
        BY <3>1, <3>4 DEF RmAt, Untouched
      <4>2. p0 <= c.pos[i] /\ c.pos[i] \in Int
        BY <1>s, <4>1, GoodTypes
      <4>3. p <= Max(L) /\ p \in Int
        <5> HIDE DEF L
        <5> QED
          BY <1>1, <1>l, Ends
      <4>4. c.pos[i] >= p1
        <5> HIDE DEF p0, p1
        <5> QED
          BY <1>s, <2>4, <4>1, <4>2 DEF PosIn
      <4> HIDE DEF L
      <4> QED
        BY <2>2, <4>2, <4>3, <4>4
    <3> QED
      BY <3>2, <3>3, <3>4 DEF Kept, Purged
  <2> QED
    BY <2>5, <2>6 DEF r
<1>2. CASE ~(L # {} /\ p0 <= Max(L))
  <2>1. r = c
    BY <1>2 DEF Purge
  <2> HIDE DEF r
  <2>2. ASSUME NEW i \in Cells, s \in c.seq[i], NEW p \in L PROVE p < c.pos[i]
    <3>1. Max(L) \in Int /\ p <= Max(L) /\ p \in Int
      <4> HIDE DEF L
      <4> QED
        BY <1>l, Ends
    <3>2. p0 <= c.pos[i] /\ c.pos[i] \in Int /\ p0 > Max(L)
      <4>1. L # {}
        OBVIOUS
      <4>2. c.pos[i] \in Int
        BY GoodTypes
      <4>3. p0 <= c.pos[i] /\ p0 \in Int
        BY <1>s, <2>2
      <4>4. ~(p0 <= Max(L))
        BY <1>2, <4>1
      <4> HIDE DEF L, p0
      <4> QED
        BY <3>1, <4>2, <4>3, <4>4
    <3> HIDE DEF L, p0
    <3> QED
      BY <1>s, <3>1, <3>2
  <2>3. \A i \in Cells : Purged(c, c, i, k, slot, {s})
    BY <2>2 DEF Purged
  <2> QED
    BY <2>1, <2>3 DEF Shrunk, Kept, r
<1> QED
  BY <1>1, <1>2

\* All the purges of a ubatch.
LEMMA PurgesGood ==
    ASSUME NEW k \in GoodCaches, NEW slot \in Seq(Cells), NEW first, NEW s0,
           PutAll(k, slot, first, s0) \in GoodCaches
    PROVE  LET a == PutAll(k, slot, first, s0)
               r == ApplyUbatch(k, slot, first, s0)
           IN  /\ r \in GoodCaches
               /\ \A i \in Cells : /\ Shrunk(r, a, i) /\ Kept(r, a, i, k, slot, Seqs)
                                   /\ Purged(r, a, i, k, slot, Seqs)
<1> DEFINE D == Seqs
           a == PutAll(k, slot, first, s0)
           Op(c, x) == Purge(k, slot, x, c)
           U == GoodCaches
           P == [t \in SUBSET D |-> {c \in GoodCaches :
                  \A i \in Cells : Shrunk(c, a, i) /\ Kept(c, a, i, k, slot, t)
                                   /\ Purged(c, a, i, k, slot, t)}]
           step == [y \in (SUBSET D) \X U |-> Op(y[2], (CHOOSE x \in y[1] : TRUE))]
           ch == [t \in SUBSET D |-> (CHOOSE x \in t : TRUE)]
           Body(g) == [t \in SUBSET D |-> IF t = {} THEN a
                                          ELSE Op(g[t \ {(CHOOSE x \in t : TRUE)}], (CHOOSE x \in t : TRUE))]
           G == CHOOSE g : g = Body(g)
<1>1. ApplyUbatch(k, slot, first, s0) = G[D]
  <2> HIDE DEF a
  <2>1. ApplyUbatch(k, slot, first, s0) = FoldSet(LAMBDA s, c : Purge(k, slot, s, c), a, Seqs)
    BY DEF ApplyUbatch, a
  <2> QED
    BY <2>1 DEF FoldSet, MapThenFoldSet
<1> HIDE DEF a
<1>f. IsFiniteSet(D)
  BY SeqsAssumption
<1>4. \A t \in SUBSET D : t # {} => ch[t] = (CHOOSE x \in t : TRUE) /\ ch[t] \in t
  OBVIOUS
<1>2. ASSUME NEW t \in SUBSET D, t # {}, NEW x \in t, x = ch[t], NEW c \in P[t \ {x}]
      PROVE  Op(c, x) \in P[t]
  <2>1. c \in GoodCaches
        /\ \A i \in Cells : Shrunk(c, a, i) /\ Kept(c, a, i, k, slot, t \ {x})
                            /\ Purged(c, a, i, k, slot, t \ {x})
    <3>1. t \ {x} \in SUBSET D
      OBVIOUS
    <3> HIDE DEF D
    <3> QED
      BY <3>1
  <2> DEFINE r == Op(c, x)
  <2>2. r \in GoodCaches /\ \A i \in Cells : Shrunk(r, c, i) /\ Kept(r, c, i, k, slot, {x})
                                            /\ Purged(r, c, i, k, slot, {x})
    <3>1. x \in Seqs
      OBVIOUS
    <3>2. r = Purge(k, slot, x, c)
      OBVIOUS
    <3> HIDE DEF P, D, Op, ch, step, Body, G, r
    <3> QED
      BY <2>1, <3>1, <3>2, PurgeGood
  <2> HIDE DEF r
  <2>3. ASSUME NEW i \in Cells PROVE Shrunk(r, a, i) /\ Kept(r, a, i, k, slot, t)
                                        /\ Purged(r, a, i, k, slot, t)
    <3>1. Shrunk(r, c, i) /\ Kept(r, c, i, k, slot, {x}) /\ Shrunk(c, a, i)
          /\ Kept(c, a, i, k, slot, t \ {x})
          /\ Purged(r, c, i, k, slot, {x}) /\ Purged(c, a, i, k, slot, t \ {x})
      BY <2>1, <2>2
    <3>2. Shrunk(r, a, i)
      <4>1. c.pos[i] = -1 => r.pos[i] = -1 /\ r.shift[i] \in {c.shift[i], 0}
        BY <3>1 DEF Shrunk
      <4> QED
        BY <3>1, <4>1 DEF Shrunk
    <3>3. ASSUME NEW q \in a.seq[i], q \notin t \/ (\A p \in Lost(k, slot, q) : p < a.pos[i])
          PROVE  q \in r.seq[i]
      <4>1. q \in c.seq[i]
        BY <3>1, <3>3 DEF Kept
      <4>2. c.pos[i] = a.pos[i]
        <5>1. c.pos[i] # -1
          BY <2>1, <4>1, GoodTypes
        <5> QED
          BY <3>1, <5>1 DEF Shrunk
      <4> QED
        BY <3>1, <3>3, <4>1, <4>2 DEF Kept
    <3>4. ASSUME NEW q \in r.seq[i], q \in t, NEW p \in Lost(k, slot, q) PROVE p < a.pos[i]
      <4>1. q \in c.seq[i] /\ c.pos[i] = a.pos[i]
        <5>1. q \in c.seq[i]
          BY <3>1 DEF Shrunk
        <5>2. c.pos[i] # -1
          BY <2>1, <5>1, GoodTypes
        <5> QED
          BY <3>1, <5>1, <5>2 DEF Shrunk
      <4>2. CASE q = x
        BY <3>1, <3>4, <4>1, <4>2 DEF Purged
      <4>3. CASE q # x
        BY <3>1, <3>4, <4>1, <4>3 DEF Purged
      <4> QED
        BY <4>2, <4>3
    <3> QED
      BY <3>2, <3>3, <3>4 DEF Kept, Purged
  <2> QED
    BY <2>2, <2>3 DEF r
<1>3. a \in P[{}]
  <2>1. \A i \in Cells : Shrunk(a, a, i) /\ Kept(a, a, i, k, slot, {})
                         /\ Purged(a, a, i, k, slot, {})
    BY DEF Shrunk, Kept, Purged
  <2>2. a \in GoodCaches
    BY DEF a
  <2> QED
    BY <2>1, <2>2
<1>u. \A t \in SUBSET D : P[t] \subseteq U
  OBVIOUS
<1>p. Picks(ch, D)
  <2> HIDE DEF ch
  <2> QED
    BY <1>4 DEF Picks
<1>5. \E g : g = Body(g)
  <2>1. \A t \in SUBSET D : t # {} => \A c \in P[t \ {ch[t]}] :
          step[<<t, c>>] = Op(c, ch[t]) /\ step[<<t, c>>] \in P[t]
    <3> SUFFICES ASSUME NEW t \in SUBSET D, t # {}, NEW c \in P[t \ {ch[t]}]
                 PROVE  step[<<t, c>>] = Op(c, ch[t]) /\ step[<<t, c>>] \in P[t]
      OBVIOUS
    <3>1. ch[t] = (CHOOSE x \in t : TRUE) /\ ch[t] \in t
      <4> HIDE DEF ch
      <4> QED
        BY <1>4
    <3>2. t \ {ch[t]} \in SUBSET D
      OBVIOUS
    <3>3. c \in U
      <4> HIDE DEF ch, P, U
      <4> QED
        BY <1>u, <3>2
    <3>4. step[<<t, c>>] = Op(c, ch[t])
      <4> HIDE DEF ch, P, U, Op
      <4> QED
        BY <3>1, <3>3
    <3> HIDE DEF P, step, ch, Op
    <3> QED
      BY <1>2, <3>1, <3>4
  <2> HIDE DEF P, step, ch, D, Op, U
  <2>4. PICK g : Folds(g, a, step, P, ch, D)
    <3>1. Leads(step, P, ch, D)
      BY <2>1 DEF Leads
    <3> QED
      BY <1>f, <1>3, <1>p, <3>1, FoldExists
  <2>5. \A t \in SUBSET D : t # {} =>
          step[<<t, g[t \ {ch[t]}]>>] = Op(g[t \ {(CHOOSE x \in t : TRUE)}], (CHOOSE x \in t : TRUE))
    <3> SUFFICES ASSUME NEW t \in SUBSET D, t # {}
                 PROVE  step[<<t, g[t \ {ch[t]}]>>] = Op(g[t \ {ch[t]}], ch[t])
      BY <1>4
    <3>1. t \ {ch[t]} \in SUBSET D
      OBVIOUS
    <3>2. g[t \ {ch[t]}] \in P[t \ {ch[t]}]
      BY <2>4, <3>1 DEF Folds
    <3> QED
      BY <2>1, <3>2
  <2>6. g = Body(g)
    <3>1. \A t \in SUBSET D : g[t] = IF t = {} THEN a ELSE Op(g[t \ {(CHOOSE x \in t : TRUE)}], (CHOOSE x \in t : TRUE))
      BY <2>4, <2>5 DEF Folds
    <3>2. g = [t \in SUBSET D |-> g[t]]
      BY <2>4 DEF Folds
    <3> QED
      BY <3>1, <3>2
  <2> QED
    BY <2>6
<1> HIDE DEF Op
<1>6. G = Body(G)
  <2> HIDE DEF Body
  <2> QED
    BY <1>5
<1> HIDE DEF G
<1>7. G[D] \in P[D]
  <2>1. G[{}] = a /\ \A t \in SUBSET D : t # {} => G[t] = Op(G[t \ {(CHOOSE x \in t : TRUE)}], (CHOOSE x \in t : TRUE))
    BY <1>6
  <2>2. \A t \in SUBSET D : t # {} /\ G[t \ {ch[t]}] \in P[t \ {ch[t]}] => G[t] \in P[t]
    <3> HIDE DEF P, ch, Body
    <3> SUFFICES ASSUME NEW t \in SUBSET D, t # {}, G[t \ {ch[t]}] \in P[t \ {ch[t]}]
                 PROVE  G[t] \in P[t]
      OBVIOUS
    <3>1. ch[t] = (CHOOSE x \in t : TRUE) /\ ch[t] \in t
      BY <1>4
    <3>2. Op(G[t \ {ch[t]}], ch[t]) \in P[t]
      BY <1>2, <3>1
    <3>3. G[t] = Op(G[t \ {(CHOOSE x \in t : TRUE)}], (CHOOSE x \in t : TRUE))
      BY <2>1
    <3>4. G[t] = Op(G[t \ {ch[t]}], ch[t])
      BY <3>1, <3>3
    <3> QED
      BY <3>2, <3>4
  <2> HIDE DEF P, ch, D, Body
  <2> QED
    BY <1>f, <1>3, <1>p, <2>1, <2>2, FoldInduction
<1> HIDE DEF step, ch, Body
<1>8. D \in SUBSET D
  OBVIOUS
<1> QED
  BY <1>1, <1>7, <1>8 DEF a

\* A ubatch in the cache: outside of its slot cells may have lost sequences, ...
Applied(r, k, slot, first, s0) ==
    \A i \in Cells :
        IF i \in ToSet(slot)
        THEN /\ r.seq[i] \subseteq {s0} /\ r.shift[i] \in {0, k.shift[i]}
             /\ r.pos[i] = -1 \/ \E x \in 1 .. Len(slot) : r.pos[i] = first + x - 1
        ELSE Shrunk(r, k, i)

\* ... but have not when the slot was empty, ...
AllPut(r, k, slot, first, s0) ==
    \A i \in Cells :
        IF i \in ToSet(slot)
        THEN /\ r.seq[i] = {s0} /\ r.shift[i] \in {0, k.shift[i]}
             /\ \E x \in 1 .. Len(slot) : r.pos[i] = first + x - 1
        ELSE /\ r.pos[i] = k.pos[i] /\ r.seq[i] = k.seq[i]
             /\ r.shift[i] = k.shift[i] \/ (k.pos[i] = -1 /\ r.shift[i] = 0)

\* ... and its last token is there when its positions are new to the sequence.
LEMMA ApplyGood ==
    ASSUME NEW k \in GoodCaches, NEW slot \in Seq(Cells), slot # << >>, NEW first \in Nat,
           NEW s0 \in Seqs, first + Len(slot) - 1 <= MaxPos
    PROVE  LET r == ApplyUbatch(k, slot, first, s0)
           IN  /\ r \in GoodCaches /\ Applied(r, k, slot, first, s0)
               /\ (\A i \in ToSet(slot) : k.pos[i] = -1) => AllPut(r, k, slot, first, s0)
               /\ (\A i \in Cells : s0 \in k.seq[i] => k.pos[i] < first) =>
                    r.seq[Last(slot)] = {s0} /\ r.pos[Last(slot)] = first + Len(slot) - 1
<1> DEFINE a == PutAll(k, slot, first, s0)
           r == ApplyUbatch(k, slot, first, s0)
           n == Len(slot)
<1>1. a \in GoodCaches /\ \A i \in Cells : PutAt(a, k, i, slot, 1 .. n, first, s0)
  BY PutAllGood
<1>2. r \in GoodCaches /\ \A i \in Cells : Shrunk(r, a, i) /\ Kept(r, a, i, k, slot, Seqs)
  BY <1>1, PurgesGood
<1> HIDE DEF a, r
<1>3. n \in Nat \ {0} /\ (\A x \in 1 .. n : slot[x] \in Cells) /\ ToSet(slot) = {slot[x] : x \in 1 .. n}
  BY DEF ToSet
<1>4. \A i \in Cells : i \in ToSet(slot) <=> \E x \in 1 .. n : slot[x] = i
  BY <1>3
<1> HIDE DEF n
<1>5. Applied(r, k, slot, first, s0)
  <2> SUFFICES ASSUME NEW i \in Cells
               PROVE  IF i \in ToSet(slot)
                      THEN /\ r.seq[i] \subseteq {s0} /\ r.shift[i] \in {0, k.shift[i]}
                           /\ r.pos[i] = -1 \/ \E x \in 1 .. n : r.pos[i] = first + x - 1
                      ELSE Shrunk(r, k, i)
    BY DEF Applied, n
  <2>1. PutAt(a, k, i, slot, 1 .. n, first, s0) /\ Shrunk(r, a, i)
    BY <1>1, <1>2
  <2>2. CASE i \in ToSet(slot)
    BY <1>4, <2>1, <2>2 DEF PutAt, Shrunk
  <2>3. CASE i \notin ToSet(slot)
    <3>1. Untouched(a, k, i)
      BY <1>4, <2>1, <2>3 DEF PutAt
    <3> QED
      BY <2>1, <2>3, <3>1 DEF Untouched, Shrunk
  <2> QED
    BY <2>2, <2>3
<1>6. ASSUME \A i \in ToSet(slot) : k.pos[i] = -1
      PROVE  AllPut(r, k, slot, first, s0)
  <2>1. \A q : Lost(k, slot, q) = {}
    <3>0. ToSet(slot) \subseteq Cells
      BY <1>3
    <3>1. \A i \in ToSet(slot) : k.seq[i] = {}
      BY <1>6, <3>0, GoodTypes
    <3> QED
      BY <3>1 DEF Lost
  <2> SUFFICES ASSUME NEW i \in Cells
               PROVE  IF i \in ToSet(slot)
                      THEN /\ r.seq[i] = {s0} /\ r.shift[i] \in {0, k.shift[i]}
                           /\ \E x \in 1 .. n : r.pos[i] = first + x - 1
                      ELSE /\ r.pos[i] = k.pos[i] /\ r.seq[i] = k.seq[i]
                           /\ r.shift[i] = k.shift[i] \/ (k.pos[i] = -1 /\ r.shift[i] = 0)
    BY DEF AllPut, n
  <2>2. PutAt(a, k, i, slot, 1 .. n, first, s0) /\ Shrunk(r, a, i)
    BY <1>1, <1>2
  <2>3. r.seq[i] = a.seq[i]
    BY <1>2, <2>1, <2>2 DEF Kept, Shrunk
  <2>4. r.pos[i] = a.pos[i] /\ (r.shift[i] = a.shift[i] \/ (a.pos[i] = -1 /\ r.shift[i] = 0))
    BY <1>1, <1>2, <2>2, <2>3, GoodTypes DEF Shrunk
  <2>5. CASE i \in ToSet(slot)
    BY <1>4, <2>2, <2>3, <2>4, <2>5 DEF PutAt
  <2>6. CASE i \notin ToSet(slot)
    <3>1. Untouched(a, k, i)
      BY <1>4, <2>2, <2>6 DEF PutAt
    <3> QED
      BY <2>3, <2>4, <2>6, <3>1 DEF Untouched
  <2> QED
    BY <2>5, <2>6
<1>7. ASSUME \A i \in Cells : s0 \in k.seq[i] => k.pos[i] < first
      PROVE  r.seq[Last(slot)] = {s0} /\ r.pos[Last(slot)] = first + n - 1
  <2> DEFINE i == Last(slot)
  <2>1. i \in Cells /\ n \in 1 .. n /\ slot[n] = i
    BY <1>3 DEF Last, n
  <2> HIDE DEF i
  <2>2. PutAt(a, k, i, slot, 1 .. n, first, s0) /\ Shrunk(r, a, i) /\ Kept(r, a, i, k, slot, Seqs)
    BY <1>1, <1>2, <2>1
  <2>3. a.seq[i] = {s0} /\ a.pos[i] >= first + n - 1
    BY <2>1, <2>2 DEF PutAt
  <2>4. PICK x \in 1 .. n : a.pos[i] = first + x - 1
    BY <2>1, <2>2 DEF PutAt
  <2>5. a.pos[i] = first + n - 1
    BY <1>3, <2>3, <2>4
  <2>6. \A p \in Lost(k, slot, s0) : p < a.pos[i]
    <3> SUFFICES ASSUME NEW j \in ToSet(slot), k.seq[j] = {s0} PROVE k.pos[j] < a.pos[i]
      BY DEF Lost
    <3>1. j \in Cells /\ k.pos[j] < first /\ k.pos[j] \in Int
      BY <1>3, <1>7, GoodTypes
    <3> QED
      BY <1>3, <2>5, <3>1
  <2>7. s0 \in r.seq[i]
    BY <2>2, <2>3, <2>6 DEF Kept
  <2>8. r.seq[i] = {s0} /\ r.pos[i] = a.pos[i]
    BY <1>2, <2>1, <2>2, <2>3, <2>7, GoodTypes DEF Shrunk
  <2> QED
    BY <2>5, <2>8 DEF i
<1> QED
  BY <1>2, <1>5, <1>6, <1>7 DEF r, n

\* No cell occurs twice.
Apart(q) == \A x, y \in 1 .. Len(q) : q[x] = q[y] => x = y

\* The cells were taken one by one from the places t of the order.
TakenFrom(c, order, t) ==
    Apart(order) => Apart(c) /\ \A y \in 1 .. Len(c) : \E j \in t : c[y] = order[j]

\* One cell more, from another place.
LEMMA TakeOne ==
    ASSUME NEW c \in Seq(Cells), NEW order \in Seq(Cells), NEW t \in SUBSET (1 .. Len(order)),
           NEW x \in t, TakenFrom(c, order, t \ {x})
    PROVE  TakenFrom(Append(c, order[x]), order, t) /\ TakenFrom(c, order, t)
<1>1. TakenFrom(c, order, t)
  BY DEF TakenFrom
<1> DEFINE o == order[x]
           r == Append(c, o)
<1>2. TakenFrom(r, order, t)
  <2> SUFFICES ASSUME Apart(order) PROVE Apart(r) /\ \A y \in 1 .. Len(r) : \E j \in t : r[y] = order[j]
    BY DEF TakenFrom
  <2>1. Apart(c) /\ \A y \in 1 .. Len(c) : \E j \in t \ {x} : c[y] = order[j]
    BY DEF TakenFrom
  <2>2. \A y \in 1 .. Len(c) : c[y] # o
    <3> SUFFICES ASSUME NEW y \in 1 .. Len(c), c[y] = o PROVE FALSE
      OBVIOUS
    <3>1. PICK j \in t \ {x} : c[y] = order[j]
      BY <2>1
    <3> QED
      BY <3>1 DEF Apart
  <2>3. Len(c) \in Nat /\ Len(r) = Len(c) + 1 /\ r[Len(c) + 1] = o /\ \A y \in 1 .. Len(c) : r[y] = c[y]
    <3>1. o \in Cells
      OBVIOUS
    <3> HIDE DEF o
    <3> QED
      BY <3>1
  <2>o. o = order[x]
    OBVIOUS
  <2> HIDE DEF r, o
  <2>4. \A y \in 1 .. Len(r) : y = Len(c) + 1 \/ y \in 1 .. Len(c)
    BY <2>3
  <2>5. Apart(r)
    <3> SUFFICES ASSUME NEW y \in 1 .. Len(r), NEW z \in 1 .. Len(r), r[y] = r[z] PROVE y = z
      BY DEF Apart
    <3>1. CASE y \in 1 .. Len(c) /\ z \in 1 .. Len(c)
      BY <2>1, <2>3, <3>1 DEF Apart
    <3>2. ~(y \in 1 .. Len(c) /\ z = Len(c) + 1) /\ ~(z \in 1 .. Len(c) /\ y = Len(c) + 1)
      BY <2>2, <2>3
    <3> QED
      BY <2>4, <3>1, <3>2
  <2>6. \A y \in 1 .. Len(r) : \E j \in t : r[y] = order[j]
    BY <2>1, <2>3, <2>4, <2>o
  <2> QED
    BY <2>5, <2>6
<1> QED
  BY <1>1, <1>2

\* The search finds usable cells, and all of them when it finds too few.
LEMMA UsableGood ==
    ASSUME NEW k, NEW n \in Nat, NEW order \in Seq(Cells)
    PROVE  LET r == Usable(k, n, order)
           IN  /\ r \in Seq(Cells) /\ Len(r) <= n /\ \A x \in 1 .. Len(r) : CanUse(k, r[x])
               /\ Len(r) < n => \A j \in 1 .. Len(order) :
                                  CanUse(k, order[j]) => order[j] \in ToSet(r)
               /\ Apart(order) => Apart(r)
<1> DEFINE D == 1 .. Len(order)
           Op(c, x) == IF Len(c) < n /\ CanUse(k, order[x]) THEN Append(c, order[x]) ELSE c
           U == Seq(Cells)
           P == [t \in SUBSET D |-> {c \in Seq(Cells) :
                  /\ Len(c) <= n /\ \A y \in 1 .. Len(c) : CanUse(k, c[y])
                  /\ Len(c) < n => \A j \in t : CanUse(k, order[j]) => order[j] \in ToSet(c)
                  /\ TakenFrom(c, order, t)}]
           step == [y \in (SUBSET D) \X U |-> Op(y[2], Max(y[1]))]
           ch == [t \in SUBSET D |-> Max(t)]
           Body(g) == [t \in SUBSET D |-> IF t = {} THEN << >>
                                          ELSE Op(g[t \ {Max(t)}], Max(t))]
           G == CHOOSE g : g = Body(g)
<1>n. Len(order) \in Nat /\ DOMAIN order = D /\ \A x \in D : order[x] \in Cells
  OBVIOUS
<1>1. Usable(k, n, order) = G[D]
  <2> HIDE DEF D
  <2> QED
    BY <1>n DEF Usable, FoldLeft, MapThenFoldSet
<1>f. IsFiniteSet(D)
  BY <1>n, PickMax
<1>4. \A t \in SUBSET D : t # {} => ch[t] = Max(t) /\ ch[t] \in t
  BY <1>n, PickMax
<1>2. ASSUME NEW t \in SUBSET D, t # {}, NEW x \in t, x = ch[t], NEW c \in P[t \ {x}]
      PROVE  Op(c, x) \in P[t]
  <2>1. /\ c \in Seq(Cells) /\ Len(c) <= n /\ \A y \in 1 .. Len(c) : CanUse(k, c[y])
        /\ Len(c) < n => \A j \in t \ {x} : CanUse(k, order[j]) => order[j] \in ToSet(c)
        /\ TakenFrom(c, order, t \ {x})
    <3>1. t \ {x} \in SUBSET D
      OBVIOUS
    <3> HIDE DEF D
    <3> QED
      BY <3>1
  <2> DEFINE r == Op(c, x)
             o == order[x]
  <2>o. o \in Cells
    BY <1>n
  <2>t. TakenFrom(Append(c, o), order, t) /\ TakenFrom(c, order, t)
    <3>1. t \in SUBSET (1 .. Len(order))
      OBVIOUS
    <3> HIDE DEF D, P, ch, step, Body, G, Op
    <3> QED
      BY <2>1, <3>1, TakeOne
  <2>2. CASE Len(c) < n /\ CanUse(k, o)
    <3>1. r = Append(c, o)
      BY <2>2
    <3> HIDE DEF r, o, D, P, ch, step, Body, G, Op
    <3>2. /\ r \in Seq(Cells) /\ Len(r) = Len(c) + 1 /\ r[Len(r)] = o
          /\ \A y \in 1 .. Len(c) : r[y] = c[y]
      BY <2>1, <2>o, <3>1
    <3>3. \A y \in 1 .. Len(r) : CanUse(k, r[y])
      <4> SUFFICES ASSUME NEW y \in 1 .. Len(r) PROVE CanUse(k, r[y])
        OBVIOUS
      <4>1. Len(c) \in Nat
        BY <2>1
      <4>2. y = Len(r) \/ y \in 1 .. Len(c)
        BY <3>2, <4>1
      <4>3. CASE y = Len(r)
        BY <2>2, <3>2, <4>3
      <4>4. CASE y \in 1 .. Len(c)
        <5>1. CanUse(k, c[y]) /\ r[y] = c[y]
          BY <2>1, <3>2, <4>4
        <5> QED
          BY <5>1
      <4> QED
        BY <4>2, <4>3, <4>4
    <3>4. o \in ToSet(r) /\ \A z \in ToSet(c) : z \in ToSet(r)
      <4>1. DOMAIN r = 1 .. Len(r) /\ DOMAIN c = 1 .. Len(c) /\ Len(c) \in Nat
        BY <2>1, <3>2
      <4>2. Len(r) \in DOMAIN r
        BY <3>2, <4>1
      <4>3. \A y \in 1 .. Len(c) : y \in DOMAIN r
        BY <3>2, <4>1
      <4> QED
        BY <3>2, <4>1, <4>2, <4>3 DEF ToSet
    <3>5. Len(r) <= n
      BY <2>1, <2>2, <3>2
    <3>6. \A j \in t : CanUse(k, order[j]) => order[j] \in ToSet(r)
      <4> SUFFICES ASSUME NEW j \in t, CanUse(k, order[j]) PROVE order[j] \in ToSet(r)
        OBVIOUS
      <4>1. CASE j = x
        BY <3>4, <4>1 DEF o
      <4>2. CASE j # x
        BY <2>1, <2>2, <3>4, <4>2
      <4> QED
        BY <4>1, <4>2
    <3> QED
      BY <2>t, <3>1, <3>2, <3>3, <3>5, <3>6 DEF r, P
  <2>3. CASE ~(Len(c) < n /\ CanUse(k, o))
    <3>1. r = c
      BY <2>3
    <3>2. Len(c) < n => \A j \in t : CanUse(k, order[j]) => order[j] \in ToSet(c)
      <4> HIDE DEF r, D, P, ch, step, Body, G, Op
      <4> QED
        BY <2>1, <2>3
    <3> HIDE DEF r
    <3> QED
      BY <2>1, <2>t, <3>1, <3>2 DEF r
  <2> QED
    BY <2>2, <2>3
<1>3. << >> \in P[{}]
  <2>1. TakenFrom(<< >>, order, {})
    BY DEF TakenFrom, Apart
  <2> QED
    BY <2>1
<1>u. \A t \in SUBSET D : P[t] \subseteq U
  OBVIOUS
<1>p. Picks(ch, D)
  <2> HIDE DEF ch
  <2> QED
    BY <1>4 DEF Picks
<1>5. \E g : g = Body(g)
  <2>1. \A t \in SUBSET D : t # {} => \A c \in P[t \ {ch[t]}] :
          step[<<t, c>>] = Op(c, ch[t]) /\ step[<<t, c>>] \in P[t]
    <3> SUFFICES ASSUME NEW t \in SUBSET D, t # {}, NEW c \in P[t \ {ch[t]}]
                 PROVE  step[<<t, c>>] = Op(c, ch[t]) /\ step[<<t, c>>] \in P[t]
      OBVIOUS
    <3>1. ch[t] = Max(t) /\ ch[t] \in t
      <4> HIDE DEF ch
      <4> QED
        BY <1>4
    <3>2. t \ {ch[t]} \in SUBSET D
      OBVIOUS
    <3>3. c \in U
      <4> HIDE DEF ch, P, U
      <4> QED
        BY <1>u, <3>2
    <3>4. step[<<t, c>>] = Op(c, ch[t])
      <4> HIDE DEF ch, P, U, Op
      <4> QED
        BY <3>1, <3>3
    <3> HIDE DEF P, step, ch, Op
    <3> QED
      BY <1>2, <3>1, <3>4
  <2> HIDE DEF P, step, ch, D, Op, U
  <2>4. PICK g : Folds(g, << >>, step, P, ch, D)
    <3>1. Leads(step, P, ch, D)
      BY <2>1 DEF Leads
    <3> QED
      BY <1>f, <1>3, <1>p, <3>1, FoldExists
  <2>5. \A t \in SUBSET D : t # {} =>
          step[<<t, g[t \ {ch[t]}]>>] = Op(g[t \ {Max(t)}], Max(t))
    <3> SUFFICES ASSUME NEW t \in SUBSET D, t # {}
                 PROVE  step[<<t, g[t \ {ch[t]}]>>] = Op(g[t \ {ch[t]}], ch[t])
      BY <1>4
    <3>1. t \ {ch[t]} \in SUBSET D
      OBVIOUS
    <3>2. g[t \ {ch[t]}] \in P[t \ {ch[t]}]
      BY <2>4, <3>1 DEF Folds
    <3> QED
      BY <2>1, <3>2
  <2>6. g = Body(g)
    <3>1. \A t \in SUBSET D : g[t] = IF t = {} THEN << >> ELSE Op(g[t \ {Max(t)}], Max(t))
      BY <2>4, <2>5 DEF Folds
    <3>2. g = [t \in SUBSET D |-> g[t]]
      BY <2>4 DEF Folds
    <3> QED
      BY <3>1, <3>2
  <2> QED
    BY <2>6
<1> HIDE DEF Op
<1>6. G = Body(G)
  <2> HIDE DEF Body
  <2> QED
    BY <1>5
<1> HIDE DEF G
<1>7. G[D] \in P[D]
  <2>1. G[{}] = << >> /\ \A t \in SUBSET D : t # {} => G[t] = Op(G[t \ {Max(t)}], Max(t))
    BY <1>6
  <2>2. \A t \in SUBSET D : t # {} /\ G[t \ {ch[t]}] \in P[t \ {ch[t]}] => G[t] \in P[t]
    <3> HIDE DEF P, ch, Body
    <3> SUFFICES ASSUME NEW t \in SUBSET D, t # {}, G[t \ {ch[t]}] \in P[t \ {ch[t]}]
                 PROVE  G[t] \in P[t]
      OBVIOUS
    <3>1. ch[t] = Max(t) /\ ch[t] \in t
      BY <1>4
    <3>2. Op(G[t \ {ch[t]}], ch[t]) \in P[t]
      BY <1>2, <3>1
    <3> QED
      BY <2>1, <3>1, <3>2
  <2>3. G[{}] \in P[{}]
    <3> HIDE DEF P, Body
    <3> QED
      BY <1>3, <2>1
  <2> HIDE DEF P, ch, D, Body
  <2> QED
    BY <1>f, <1>p, <2>2, <2>3, FoldInduction
<1> HIDE DEF step, ch, Body
<1>8. D \in SUBSET D
  OBVIOUS
<1> QED
  BY <1>1, <1>7, <1>8 DEF TakenFrom

\* Once around the cache.
LEMMA Around ==
    ASSUME NEW c \in Cells
    PROVE  c % Size = c /\ (c + Size) % Size = c
<1>1. c \in Nat /\ c < Size /\ Size \in Nat \ {0}
  BY SizeAssumption DEF Cells
<1> QED
  BY <1>1

\* The cells with no position.
Empties(k) == {i \in Cells : k.pos[i] = -1}

\* The empty cells can be counted.
LEMMA EmptiesFinite ==
    ASSUME NEW k
    PROVE  IsFiniteSet(Empties(k)) /\ Cardinality(Empties(k)) \in Nat
<1>1. IsFiniteSet(Cells)
  BY SizeAssumption, FS_Interval DEF Cells
<1>2. Empties(k) \subseteq Cells
  BY DEF Empties
<1> QED
  BY <1>1, <1>2, FS_Subset, FS_CardinalityType

\* A sequence has no more elements than places.
LEMMA SeqCardinality ==
    ASSUME NEW S, NEW q \in Seq(S)
    PROVE  IsFiniteSet(ToSet(q)) /\ Cardinality(ToSet(q)) <= Len(q) /\ Cardinality(ToSet(q)) \in Nat
<1>1. q \in [1 .. Len(q) -> ToSet(q)] /\ \A e \in ToSet(q) : \E x \in 1 .. Len(q) : q[x] = e
  BY DEF ToSet
<1>2. Len(q) \in Nat
  OBVIOUS
<1>3. q \in Surjection(1 .. Len(q), ToSet(q))
  BY <1>1 DEF Surjection
<1>4. IsFiniteSet(1 .. Len(q)) /\ Cardinality(1 .. Len(q)) = Len(q)
  BY <1>2, FS_Interval
<1> QED
  BY <1>2, <1>3, <1>4, FS_Surjection, FS_CardinalityType

\* Once around the cache no cell is met twice.
LEMMA NotTwice ==
    ASSUME NEW h \in 0 .. Size
    PROVE  Apart([j \in 1 .. Size |-> (h + j - 1) % Size])
<1>1. Size \in Nat /\ Size > 0
  BY SizeAssumption
<1>2. ASSUME NEW x \in 1 .. Size, NEW y \in 1 .. Size, x < y
      PROVE  (h + x - 1) % Size # (h + y - 1) % Size
  <2>1. \A n \in Nat : n < Size => n % Size = n /\ (n + Size) % Size = n
    BY <1>1, Around DEF Cells
  <2> DEFINE a == h + x - 1
             b == h + y - 1
  <2>2. a \in Nat /\ b \in Nat /\ a < b /\ b < a + Size /\ b < Size + Size
    BY <1>1, <1>2
  <2> HIDE DEF a, b
  <2>3. CASE b < Size
    <3>1. a % Size = a /\ b % Size = b
      BY <1>1, <2>1, <2>2, <2>3
    <3> QED
      BY <2>2, <3>1 DEF a, b
  <2>4. CASE a < Size /\ b >= Size
    <3>1. a % Size = a /\ (b - Size) \in Nat /\ (b - Size) < Size /\ (b - Size) + Size = b
      BY <1>1, <2>1, <2>2, <2>4
    <3>2. b % Size = b - Size
      BY <2>1, <3>1
    <3> QED
      BY <1>1, <2>2, <3>1, <3>2 DEF a, b
  <2>5. CASE a >= Size
    <3>1. /\ (b - Size) \in Nat /\ (b - Size) < Size /\ (b - Size) + Size = b
          /\ (a - Size) \in Nat /\ (a - Size) < Size /\ (a - Size) + Size = a
      BY <1>1, <2>2, <2>5
    <3>2. b % Size = b - Size /\ a % Size = a - Size
      BY <2>1, <3>1
    <3> QED
      BY <1>1, <2>2, <3>2 DEF a, b
  <2> QED
    BY <1>1, <2>2, <2>3, <2>4, <2>5
<1>3. Len([j \in 1 .. Size |-> (h + j - 1) % Size]) = Size
  BY <1>1
<1> QED
  BY <1>1, <1>2, <1>3 DEF Apart

\* find_slot returns cells it may use, one for every token, or there are too few empty ones.
LEMMA FindSlotGood ==
    ASSUME NEW k, NEW h \in 0 .. Size, NEW n \in Nat \ {0}, Cardinality(k.used) \in Nat
    PROVE  LET r == FindSlot(k, h, n)
           IN  /\ r \in Seq(Cells) /\ \A x \in 1 .. Len(r) : CanUse(k, r[x])
               /\ r # << >> => Len(r) = n /\ Apart(r)
               /\ r = << >> => Cardinality(Empties(k)) < n
<1> DEFINE start == IF h > Cardinality(k.used) + 2 * n THEN 0 ELSE h
           order == [j \in 1 .. Size |-> (start + j - 1) % Size]
           idxs == Usable(k, n, order)
           r == FindSlot(k, h, n)
<1>1. r = IF Len(idxs) < n THEN << >> ELSE idxs
  BY DEF FindSlot
<1>2. start \in 0 .. Size
  BY SizeAssumption
<1> HIDE DEF start
<1>3. order \in Seq(Cells) /\ Len(order) = Size
  <2>1. \A j \in 1 .. Size : (start + j - 1) % Size \in Cells
    <3> SUFFICES ASSUME NEW j \in 1 .. Size PROVE (start + j - 1) % Size \in Cells
      OBVIOUS
    <3> DEFINE m == start + j - 1
    <3>1. m \in Int /\ Size \in Nat \ {0}
      BY <1>2, SizeAssumption
    <3> HIDE DEF m
    <3>2. m % Size \in 0 .. (Size - 1)
      BY <3>1
    <3> QED
      BY <3>2 DEF Cells, m
  <2>2. Size \in Nat
    BY SizeAssumption
  <2> QED
    BY <2>1, <2>2
<1>a. Apart(order)
  BY <1>2, NotTwice
<1>4. \A c \in Cells : \E j \in 1 .. Size : order[j] = c
  <2> SUFFICES ASSUME NEW c \in Cells PROVE \E j \in 1 .. Size : order[j] = c
    OBVIOUS
  <2>0. c \in Int /\ 0 <= c /\ c < Size /\ Size \in Int
    BY SizeAssumption DEF Cells
  <2>1. CASE c >= start
    <3>1. c - start + 1 \in 1 .. Size /\ start + (c - start + 1) - 1 = c
      BY <1>2, <2>0, <2>1
    <3> QED
      BY <3>1, Around
  <2>2. CASE ~(c >= start)
    <3>1. c - start + 1 + Size \in 1 .. Size /\ start + (c - start + 1 + Size) - 1 = c + Size
      BY <1>2, <2>0, <2>2
    <3> QED
      BY <3>1, Around
  <2> QED
    BY <2>1, <2>2
<1> HIDE DEF order
<1>5. /\ idxs \in Seq(Cells) /\ Len(idxs) <= n /\ \A x \in 1 .. Len(idxs) : CanUse(k, idxs[x])
      /\ Len(idxs) < n => \A j \in 1 .. Len(order) :
                            CanUse(k, order[j]) => order[j] \in ToSet(idxs)
      /\ Apart(idxs)
  BY <1>3, <1>a, UsableGood
<1> HIDE DEF idxs, r
<1>6. ASSUME Len(idxs) < n PROVE Cardinality(Empties(k)) < n
  <2>1. Empties(k) \subseteq ToSet(idxs)
    <3> SUFFICES ASSUME NEW c \in Cells, k.pos[c] = -1 PROVE c \in ToSet(idxs)
      BY DEF Empties
    <3>1. CanUse(k, c)
      BY DEF CanUse, IsEmpty
    <3>2. PICK j \in 1 .. Size : order[j] = c
      BY <1>4
    <3> QED
      BY <1>3, <1>5, <1>6, <3>1, <3>2
  <2>2. /\ IsFiniteSet(ToSet(idxs)) /\ Cardinality(ToSet(idxs)) <= Len(idxs)
        /\ Cardinality(ToSet(idxs)) \in Nat
    BY <1>5, SeqCardinality
  <2>3. Cardinality(Empties(k)) <= Cardinality(ToSet(idxs))
    BY <2>1, <2>2, FS_Subset
  <2>4. Cardinality(Empties(k)) \in Nat /\ Len(idxs) \in Nat
    BY <1>5, EmptiesFinite
  <2> QED
    BY <1>6, <2>2, <2>3, <2>4
<1>7. CASE Len(idxs) < n
  <2>1. r = << >>
    BY <1>1, <1>7
  <2>2. << >> \in Seq(Cells) /\ Len(<< >>) = 0
    OBVIOUS
  <2>3. Cardinality(Empties(k)) < n
    BY <1>6, <1>7
  <2>4. r \in Seq(Cells) /\ \A x \in 1 .. Len(r) : CanUse(k, r[x])
    BY <2>1, <2>2
  <2> QED
    BY <2>1, <2>3, <2>4 DEF r
<1>8. CASE ~(Len(idxs) < n)
  <2>1. r = idxs /\ Len(idxs) = n
    <3>1. Len(idxs) \in Nat
      BY <1>5
    <3> QED
      BY <1>1, <1>5, <1>8, <3>1
  <2>2. r # << >>
    <3>1. Len(<< >>) = 0
      OBVIOUS
    <3> QED
      BY <2>1, <3>1
  <2> QED
    BY <1>5, <2>1, <2>2 DEF r
<1> QED
  BY <1>7, <1>8

-----------------------------------------------------------------------------
(* The trial is taken back.                                                *)

\* An entry of the recovery stack.
GoodState(st) ==
    /\ st.slot \in Seq(Cells)
    /\ \A i \in ToSet(st.slot) : /\ st.old.pos[i] \in Positions \union {-1}
                                 /\ st.old.seq[i] \in SUBSET Seqs
                                 /\ st.old.pos[i] = -1 <=> st.old.seq[i] = {}

\* A cell that has what it had in a copy, and its shift.
Back(r, old, k, i) == r.pos[i] = old.pos[i] /\ r.seq[i] = old.seq[i] /\ r.shift[i] = k.shift[i]

\* The cells of a slot get back what they had.
LEMMA PutBackGood ==
    ASSUME NEW k \in GoodCaches, NEW st, GoodState(st)
    PROVE  LET r == PutBack(st, k)
           IN  /\ r \in GoodCaches
               /\ \A i \in Cells : IF i \in ToSet(st.slot) THEN Back(r, st.old, k, i)
                                                           ELSE Untouched(r, k, i)
<1> DEFINE D == 1 .. Len(st.slot)
           Op(c, x) == Restore(c, st.slot[x], st.old)
           U == GoodCaches
           P == [t \in SUBSET D |-> {c \in GoodCaches :
                  \A i \in Cells : IF \E x \in t : st.slot[x] = i THEN Back(c, st.old, k, i)
                                                                  ELSE Untouched(c, k, i)}]
           step == [y \in (SUBSET D) \X U |-> Op(y[2], Max(y[1]))]
           ch == [t \in SUBSET D |-> Max(t)]
           Body(g) == [t \in SUBSET D |-> IF t = {} THEN k
                                          ELSE Op(g[t \ {Max(t)}], Max(t))]
           G == CHOOSE g : g = Body(g)
<1>n. Len(st.slot) \in Nat /\ DOMAIN st.slot = D /\ \A x \in D : st.slot[x] \in Cells
  BY DEF GoodState
<1>1. PutBack(st, k) = G[D]
  <2> HIDE DEF D
  <2> QED
    BY <1>n DEF PutBack, FoldLeft, MapThenFoldSet
<1>f. IsFiniteSet(D)
  BY <1>n, PickMax
<1>4. \A t \in SUBSET D : t # {} => ch[t] = Max(t) /\ ch[t] \in t
  BY <1>n, PickMax
<1>2. ASSUME NEW t \in SUBSET D, t # {}, NEW x \in t, x = ch[t], NEW c \in P[t \ {x}]
      PROVE  Op(c, x) \in P[t]
  <2>1. c \in GoodCaches
        /\ \A i \in Cells : IF \E y \in t \ {x} : st.slot[y] = i THEN Back(c, st.old, k, i)
                                                                ELSE Untouched(c, k, i)
    <3>1. t \ {x} \in SUBSET D
      OBVIOUS
    <3> HIDE DEF D
    <3> QED
      BY <3>1
  <2> DEFINE r == Op(c, x)
             a == st.slot[x]
             old == st.old
  <2>2. r = Restore(c, a, old)
    OBVIOUS
  <2>3. /\ a \in Cells /\ old.pos[a] \in Positions \union {-1} /\ old.seq[a] \in SUBSET Seqs
        /\ old.pos[a] = -1 <=> old.seq[a] = {}
    <3>1. x \in D
      OBVIOUS
    <3>2. a \in Cells /\ a \in ToSet(st.slot)
      BY <1>n, <3>1 DEF ToSet
    <3> QED
      BY <3>2 DEF GoodState
  <2> HIDE DEF r, a, old, D, P, ch, step, Body, G, Op
  <2>4. /\ r \in GoodCaches
        /\ r.pos = [c.pos EXCEPT ![a] = old.pos[a]] /\ r.seq = [c.seq EXCEPT ![a] = old.seq[a]]
        /\ r.shift = c.shift
    BY <2>1, <2>2, <2>3, RestoreGood
  <2>5. /\ c.pos \in [Cells -> Positions \union {-1}] /\ c.seq \in [Cells -> SUBSET Seqs]
    BY <2>1, GoodTypes
  <2>6. /\ r.pos[a] = old.pos[a] /\ r.seq[a] = old.seq[a]
        /\ \A i \in Cells : i # a => r.pos[i] = c.pos[i] /\ r.seq[i] = c.seq[i]
    BY <2>3, <2>4, <2>5
  <2>7. ASSUME NEW i \in Cells
        PROVE  IF \E y \in t : st.slot[y] = i THEN Back(r, st.old, k, i) ELSE Untouched(r, k, i)
    <3>1. r.shift[i] = c.shift[i] /\ c.shift[i] = k.shift[i]
      BY <2>1, <2>4 DEF Back, Untouched
    <3>2. CASE i = a
      BY <2>6, <3>1, <3>2 DEF Back, a, old
    <3>3. CASE i # a
      <4>1. \A y \in t : st.slot[y] = i => y \in t \ {x}
        BY <3>3 DEF a
      <4>2. IF \E y \in t \ {x} : st.slot[y] = i THEN Back(c, st.old, k, i) ELSE Untouched(c, k, i)
        BY <2>1
      <4> QED
        BY <2>6, <3>1, <3>3, <4>1, <4>2 DEF Back, Untouched
    <3> QED
      BY <3>2, <3>3
  <2> QED
    BY <2>4, <2>7 DEF r, P
<1>3. k \in P[{}]
  BY DEF Untouched
<1>u. \A t \in SUBSET D : P[t] \subseteq U
  OBVIOUS
<1>p. Picks(ch, D)
  <2> HIDE DEF ch
  <2> QED
    BY <1>4 DEF Picks
<1>5. \E g : g = Body(g)
  <2>1. \A t \in SUBSET D : t # {} => \A c \in P[t \ {ch[t]}] :
          step[<<t, c>>] = Op(c, ch[t]) /\ step[<<t, c>>] \in P[t]
    <3> SUFFICES ASSUME NEW t \in SUBSET D, t # {}, NEW c \in P[t \ {ch[t]}]
                 PROVE  step[<<t, c>>] = Op(c, ch[t]) /\ step[<<t, c>>] \in P[t]
      OBVIOUS
    <3>1. ch[t] = Max(t) /\ ch[t] \in t
      <4> HIDE DEF ch
      <4> QED
        BY <1>4
    <3>2. t \ {ch[t]} \in SUBSET D
      OBVIOUS
    <3>3. c \in U
      <4> HIDE DEF ch, P, U
      <4> QED
        BY <1>u, <3>2
    <3>4. step[<<t, c>>] = Op(c, ch[t])
      <4> HIDE DEF ch, P, U, Op
      <4> QED
        BY <3>1, <3>3
    <3> HIDE DEF P, step, ch, Op
    <3> QED
      BY <1>2, <3>1, <3>4
  <2> HIDE DEF P, step, ch, D, Op, U
  <2>4. PICK g : Folds(g, k, step, P, ch, D)
    <3>1. Leads(step, P, ch, D)
      BY <2>1 DEF Leads
    <3> QED
      BY <1>f, <1>3, <1>p, <3>1, FoldExists
  <2>5. \A t \in SUBSET D : t # {} =>
          step[<<t, g[t \ {ch[t]}]>>] = Op(g[t \ {Max(t)}], Max(t))
    <3> SUFFICES ASSUME NEW t \in SUBSET D, t # {}
                 PROVE  step[<<t, g[t \ {ch[t]}]>>] = Op(g[t \ {ch[t]}], ch[t])
      BY <1>4
    <3>1. t \ {ch[t]} \in SUBSET D
      OBVIOUS
    <3>2. g[t \ {ch[t]}] \in P[t \ {ch[t]}]
      BY <2>4, <3>1 DEF Folds
    <3> QED
      BY <2>1, <3>2
  <2>6. g = Body(g)
    <3>1. \A t \in SUBSET D : g[t] = IF t = {} THEN k ELSE Op(g[t \ {Max(t)}], Max(t))
      BY <2>4, <2>5 DEF Folds
    <3>2. g = [t \in SUBSET D |-> g[t]]
      BY <2>4 DEF Folds
    <3> QED
      BY <3>1, <3>2
  <2> QED
    BY <2>6
<1> HIDE DEF Op
<1>6. G = Body(G)
  <2> HIDE DEF Body
  <2> QED
    BY <1>5
<1> HIDE DEF G
<1>7. G[D] \in P[D]
  <2>1. G[{}] = k /\ \A t \in SUBSET D : t # {} => G[t] = Op(G[t \ {Max(t)}], Max(t))
    BY <1>6
  <2>2. \A t \in SUBSET D : t # {} /\ G[t \ {ch[t]}] \in P[t \ {ch[t]}] => G[t] \in P[t]
    <3> HIDE DEF P, ch, Body
    <3> SUFFICES ASSUME NEW t \in SUBSET D, t # {}, G[t \ {ch[t]}] \in P[t \ {ch[t]}]
                 PROVE  G[t] \in P[t]
      OBVIOUS
    <3>1. ch[t] = Max(t) /\ ch[t] \in t
      BY <1>4
    <3>2. Op(G[t \ {ch[t]}], ch[t]) \in P[t]
      BY <1>2, <3>1
    <3> QED
      BY <2>1, <3>1, <3>2
  <2>3. G[{}] \in P[{}]
    <3> HIDE DEF P, Body
    <3> QED
      BY <1>3, <2>1
  <2> HIDE DEF P, ch, D, Body
  <2> QED
    BY <1>f, <1>p, <2>2, <2>3, FoldInduction
<1> HIDE DEF step, ch, Body
<1>8. D \in SUBSET D
  OBVIOUS
<1>9. \A i \in Cells : i \in ToSet(st.slot) <=> \E x \in D : st.slot[x] = i
  BY <1>n DEF ToSet
<1>10. G[D] \in GoodCaches
       /\ \A i \in Cells : IF \E x \in D : st.slot[x] = i THEN Back(G[D], st.old, k, i)
                                                       ELSE Untouched(G[D], k, i)
  BY <1>7, <1>8
<1> HIDE DEF D, P
<1> QED
  BY <1>1, <1>9, <1>10

\* What is left of a trial whose states t were taken back: a cell has what it had before
\* the first of them that used it.
Unplaced(r, k, t) ==
    /\ \A i \in Cells : /\ r.shift[i] = k.shift[i]
                        /\ (\A j \in t : i \notin ToSet(states[j].slot)) => Untouched(r, k, i)
    /\ \A j \in t : \A i \in ToSet(states[j].slot) :
         (\A m \in t : m < j => i \notin ToSet(states[m].slot)) => Back(r, states[j].old, k, i)

\* The whole trial is taken back, the last ubatch first.
LEMMA UnplaceGood ==
    ASSUME NEW k \in GoodCaches, Len(states) \in Nat, DOMAIN states = 1 .. Len(states),
           \A j \in 1 .. Len(states) : GoodState(states[j])
    PROVE  LET r == Unplace(k)
           IN  r \in GoodCaches /\ Unplaced(r, k, 1 .. Len(states))
<1> DEFINE D == 1 .. Len(states)
           Op(c, x) == PutBack(states[x], c)
           U == GoodCaches
           P == [t \in SUBSET D |-> {c \in GoodCaches : Unplaced(c, k, t)}]
           step == [y \in (SUBSET D) \X U |-> Op(y[2], Min(y[1]))]
           ch == [t \in SUBSET D |-> Min(t)]
           Body(g) == [t \in SUBSET D |-> IF t = {} THEN k
                                          ELSE Op(g[t \ {Min(t)}], Min(t))]
           G == CHOOSE g : g = Body(g)
<1>n. DOMAIN states = D
  OBVIOUS
<1>1. Unplace(k) = G[D]
  <2> HIDE DEF D
  <2> QED
    BY <1>n DEF Unplace, FoldRight, MapThenFoldSet
<1>f. IsFiniteSet(D)
  BY PickMax
<1>4. \A t \in SUBSET D : t # {} => ch[t] = Min(t) /\ ch[t] \in t
  BY PickMax
<1>2. ASSUME NEW t \in SUBSET D, t # {}, NEW x \in t, x = ch[t], NEW c \in P[t \ {x}]
      PROVE  Op(c, x) \in P[t]
  <2>1. c \in GoodCaches /\ Unplaced(c, k, t \ {x})
    <3>1. t \ {x} \in SUBSET D
      OBVIOUS
    <3> HIDE DEF D
    <3> QED
      BY <3>1
  <2> DEFINE r == Op(c, x)
             st == states[x]
  <2>2. r = PutBack(st, c) /\ GoodState(st)
    OBVIOUS
  <2>m. t \subseteq Int /\ \A j \in t : x <= j
    <3>1. t \subseteq Int
      OBVIOUS
    <3>2. IsFiniteSet(t)
      <4> HIDE DEF D
      <4> QED
        BY <1>f, FS_Subset
    <3>3. x = Min(t)
      <4> HIDE DEF ch
      <4> QED
        BY <1>2, <1>4
    <3> QED
      BY <3>1, <3>2, <3>3, Ends
  <2>s. \A j \in t : ToSet(states[j].slot) \subseteq Cells
    <3> SUFFICES ASSUME NEW j \in t, NEW y \in DOMAIN states[j].slot
                 PROVE  states[j].slot[y] \in Cells
      BY DEF ToSet
    <3>1. states[j].slot \in Seq(Cells)
      BY DEF GoodState
    <3> QED
      BY <3>1
  <2> HIDE DEF r, st, D, P, ch, step, Body, G, Op
  <2>3. /\ r \in GoodCaches
        /\ \A i \in Cells : IF i \in ToSet(st.slot) THEN Back(r, st.old, c, i)
                                                    ELSE Untouched(r, c, i)
    BY <2>1, <2>2, PutBackGood
  <2>4. ASSUME NEW i \in Cells
        PROVE  /\ r.shift[i] = k.shift[i]
               /\ (\A j \in t : i \notin ToSet(states[j].slot)) => Untouched(r, k, i)
    <3>1. /\ c.shift[i] = k.shift[i]
          /\ (\A j \in t \ {x} : i \notin ToSet(states[j].slot)) => Untouched(c, k, i)
      BY <2>1 DEF Unplaced
    <3>2. r.shift[i] = c.shift[i]
      BY <2>3 DEF Back, Untouched
    <3>3. ASSUME \A j \in t : i \notin ToSet(states[j].slot) PROVE Untouched(r, k, i)
      <4>1. Untouched(r, c, i)
        BY <2>3, <3>3 DEF st
      <4> QED
        BY <3>1, <3>3, <4>1 DEF Untouched
    <3> QED
      BY <3>1, <3>2, <3>3
  <2>5. ASSUME NEW j \in t, NEW i \in ToSet(states[j].slot),
               \A m \in t : m < j => i \notin ToSet(states[m].slot)
        PROVE  Back(r, states[j].old, k, i)
    <3>0. i \in Cells /\ c.shift[i] = k.shift[i]
      BY <2>1, <2>s DEF Unplaced
    <3>1. CASE j = x
      <4>1. Back(r, st.old, c, i)
        BY <2>3, <3>0, <3>1 DEF st
      <4> QED
        BY <3>0, <3>1, <4>1 DEF Back, st
    <3>2. CASE j # x
      <4>1. x < j
        BY <2>m, <3>2
      <4>2. i \notin ToSet(st.slot)
        BY <2>5, <4>1 DEF st
      <4>3. Untouched(r, c, i)
        BY <2>3, <3>0, <4>2
      <4>4. Back(c, states[j].old, k, i)
        BY <2>1, <2>5, <3>2 DEF Unplaced
      <4> QED
        BY <4>3, <4>4 DEF Back, Untouched
    <3> QED
      BY <3>1, <3>2
  <2> QED
    BY <2>3, <2>4, <2>5 DEF r, P, Unplaced
<1>3. k \in P[{}]
  BY DEF Unplaced, Untouched
<1>u. \A t \in SUBSET D : P[t] \subseteq U
  OBVIOUS
<1>p. Picks(ch, D)
  <2> HIDE DEF ch
  <2> QED
    BY <1>4 DEF Picks
<1>5. \E g : g = Body(g)
  <2>1. \A t \in SUBSET D : t # {} => \A c \in P[t \ {ch[t]}] :
          step[<<t, c>>] = Op(c, ch[t]) /\ step[<<t, c>>] \in P[t]
    <3> SUFFICES ASSUME NEW t \in SUBSET D, t # {}, NEW c \in P[t \ {ch[t]}]
                 PROVE  step[<<t, c>>] = Op(c, ch[t]) /\ step[<<t, c>>] \in P[t]
      OBVIOUS
    <3>1. ch[t] = Min(t) /\ ch[t] \in t
      <4> HIDE DEF ch
      <4> QED
        BY <1>4
    <3>2. t \ {ch[t]} \in SUBSET D
      OBVIOUS
    <3>3. c \in U
      <4> HIDE DEF ch, P, U
      <4> QED
        BY <1>u, <3>2
    <3>4. step[<<t, c>>] = Op(c, ch[t])
      <4> HIDE DEF ch, P, U, Op
      <4> QED
        BY <3>1, <3>3
    <3> HIDE DEF P, step, ch, Op
    <3> QED
      BY <1>2, <3>1, <3>4
  <2> HIDE DEF P, step, ch, D, Op, U
  <2>4. PICK g : Folds(g, k, step, P, ch, D)
    <3>1. Leads(step, P, ch, D)
      BY <2>1 DEF Leads
    <3> QED
      BY <1>f, <1>3, <1>p, <3>1, FoldExists
  <2>5. \A t \in SUBSET D : t # {} =>
          step[<<t, g[t \ {ch[t]}]>>] = Op(g[t \ {Min(t)}], Min(t))
    <3> SUFFICES ASSUME NEW t \in SUBSET D, t # {}
                 PROVE  step[<<t, g[t \ {ch[t]}]>>] = Op(g[t \ {ch[t]}], ch[t])
      BY <1>4
    <3>1. t \ {ch[t]} \in SUBSET D
      OBVIOUS
    <3>2. g[t \ {ch[t]}] \in P[t \ {ch[t]}]
      BY <2>4, <3>1 DEF Folds
    <3> QED
      BY <2>1, <3>2
  <2>6. g = Body(g)
    <3>1. \A t \in SUBSET D : g[t] = IF t = {} THEN k ELSE Op(g[t \ {Min(t)}], Min(t))
      BY <2>4, <2>5 DEF Folds
    <3>2. g = [t \in SUBSET D |-> g[t]]
      BY <2>4 DEF Folds
    <3> QED
      BY <3>1, <3>2
  <2> QED
    BY <2>6
<1> HIDE DEF Op
<1>6. G = Body(G)
  <2> HIDE DEF Body
  <2> QED
    BY <1>5
<1> HIDE DEF G
<1>7. G[D] \in P[D]
  <2>1. G[{}] = k /\ \A t \in SUBSET D : t # {} => G[t] = Op(G[t \ {Min(t)}], Min(t))
    BY <1>6
  <2>2. \A t \in SUBSET D : t # {} /\ G[t \ {ch[t]}] \in P[t \ {ch[t]}] => G[t] \in P[t]
    <3> HIDE DEF P, ch, Body
    <3> SUFFICES ASSUME NEW t \in SUBSET D, t # {}, G[t \ {ch[t]}] \in P[t \ {ch[t]}]
                 PROVE  G[t] \in P[t]
      OBVIOUS
    <3>1. ch[t] = Min(t) /\ ch[t] \in t
      BY <1>4
    <3>2. Op(G[t \ {ch[t]}], ch[t]) \in P[t]
      BY <1>2, <3>1
    <3> QED
      BY <2>1, <3>1, <3>2
  <2>3. G[{}] \in P[{}]
    <3> HIDE DEF P, Body
    <3> QED
      BY <1>3, <2>1
  <2> HIDE DEF P, ch, D, Body
  <2> QED
    BY <1>f, <1>p, <2>2, <2>3, FoldInduction
<1> HIDE DEF step, ch, Body
<1>8. D \in SUBSET D
  OBVIOUS
<1> QED
  BY <1>1, <1>7, <1>8

-----------------------------------------------------------------------------
(* Ubatches and the ends of a sequence.                                    *)

\* A batch of n tokens has this many ubatches: all but the last are full.
LEMMA SplitEqual ==
    ASSUME NEW n \in Nat \ {0}
    PROVE  LET N == (n + UBatch - 1) \div UBatch
           IN  /\ N \in Nat \ {0} /\ n - (N - 1) * UBatch \in 1 .. UBatch
               /\ \A j \in 1 .. N : j < N => (j - 1) * UBatch + UBatch < n
<1> DEFINE U == UBatch
           N == (n + U - 1) \div U
<1>1. U \in Nat \ {0}
  BY BatchAssumption
<1> HIDE DEF U
<1>2. N \in Int /\ U * N <= n + U - 1 /\ n + U - 1 < U * N + U
  <2> DEFINE m == n + U - 1
  <2>1. m \in Nat
    BY <1>1
  <2> HIDE DEF m
  <2>2. m \div U \in Int /\ U * (m \div U) <= m /\ m < U * (m \div U) + U
    BY <1>1, <2>1
  <2> QED
    BY <2>2 DEF m
<1> HIDE DEF N
<1>3. N >= 1
  <2>1. ASSUME N <= 0 PROVE FALSE
    <3>1. U * N <= 0
      BY <1>1, <1>2, <2>1
    <3> QED
      BY <1>1, <1>2, <3>1
  <2> QED
    BY <1>2, <2>1
<1>4. (N - 1) * U = U * N - U /\ U * N \in Int
  BY <1>1, <1>2
<1>5. n - (N - 1) * U \in 1 .. U
  BY <1>1, <1>2, <1>4
<1>6. ASSUME NEW j \in 1 .. N, j < N PROVE (j - 1) * U + U < n
  <2>1. j \in Int /\ j <= N - 1
    BY <1>2, <1>6
  <2>2. (j - 1) * U + U = j * U /\ j * U \in Int
    BY <1>1, <2>1
  <2>3. j * U <= (N - 1) * U
    BY <1>1, <1>2, <2>1
  <2> DEFINE a == (j - 1) * U
             b == j * U
             m == (N - 1) * U
  <2>4. a + U = b /\ b <= m /\ n - m \in 1 .. U
    BY <1>5, <2>2, <2>3
  <2>5. a \in Int /\ b \in Int /\ m \in Int
    BY <1>1, <1>2, <2>1
  <2> HIDE DEF a, b, m
  <2>6. a + U < n
    BY <1>1, <2>4, <2>5
  <2> QED
    BY <2>6 DEF a
<1> QED
  BY <1>2, <1>3, <1>5, <1>6 DEF N, U

\* The same, of the batch that is decoded.
LEMMA UbatchFits ==
    ASSUME batch.n \in Nat \ {0}
    PROVE  /\ NUbatches \in Nat \ {0}
           /\ \A j \in 1 .. NUbatches :
                /\ ULen(j) \in 1 .. UBatch /\ (j - 1) * UBatch \in Nat
                /\ j < NUbatches => ULen(j) = UBatch /\ (j - 1) * UBatch + UBatch < batch.n
                /\ j = NUbatches => (j - 1) * UBatch + ULen(j) = batch.n
                /\ (j - 1) * UBatch + ULen(j) <= batch.n
<1> DEFINE n == batch.n
           N == NUbatches
<1>1. /\ N \in Nat \ {0} /\ n - (N - 1) * UBatch \in 1 .. UBatch
      /\ \A j \in 1 .. N : j < N => (j - 1) * UBatch + UBatch < n
  BY SplitEqual DEF NUbatches
<1> SUFFICES ASSUME NEW j \in 1 .. N
             PROVE  /\ ULen(j) \in 1 .. UBatch /\ (j - 1) * UBatch \in Nat
                    /\ j < N => ULen(j) = UBatch /\ (j - 1) * UBatch + UBatch < n
                    /\ j = N => (j - 1) * UBatch + ULen(j) = n
                    /\ (j - 1) * UBatch + ULen(j) <= n
  BY <1>1
<1>2. ULen(j) = IF j < N THEN UBatch ELSE n - (j - 1) * UBatch
  BY DEF ULen
<1> HIDE DEF N
<1>3. UBatch \in Nat \ {0} /\ n \in Nat
  BY BatchAssumption
<1> HIDE DEF n
<1>4. j \in Nat /\ j - 1 \in Nat /\ j <= N
  BY <1>1
<1>5. (j - 1) * UBatch \in Nat
  BY <1>3, <1>4
<1>6. CASE j < N
  BY <1>1, <1>2, <1>3, <1>5, <1>6
<1>7. CASE j = N
  BY <1>1, <1>2, <1>3, <1>5, <1>7
<1> QED
  BY <1>1, <1>4, <1>6, <1>7

\* Where a ubatch ends the next begins.
LEMMA NextUbatch ==
    ASSUME batch.first \in Nat, NEW j \in Nat
    PROVE  /\ UFirst(j + 1) = UFirst(j) + UBatch /\ UFirst(1) = batch.first
           /\ UFirst(j) = batch.first + (j - 1) * UBatch /\ UFirst(j) \in Int
<1>1. UBatch \in Nat \ {0} /\ j \in Int
  BY BatchAssumption
<1>2. ((j + 1) - 1) * UBatch = (j - 1) * UBatch + UBatch /\ (j - 1) * UBatch \in Int
  BY <1>1
<1>3. (1 - 1) * UBatch = 0
  BY <1>1
<1> QED
  BY <1>1, <1>2, <1>3 DEF UFirst

\* seq_pos_max: no cell of the sequence is above it, and one is there unless it is empty.
SeqEndsAt(k, s, m) ==
    /\ m \in Positions \union {-1} /\ m \in Int
    /\ \A i \in Cells : s \in k.seq[i] => k.pos[i] <= m
    /\ m # -1 => \E i \in Cells : s \in k.seq[i] /\ k.pos[i] = m

\* seq_pos_max reads off the counts what the cells hold.
LEMMA SeqEnd ==
    ASSUME NEW k \in GoodCaches, NEW s \in Seqs
    PROVE  SeqEndsAt(k, s, SeqPosMax(k, s))
<1> DEFINE S == Present(k, s)
           m == SeqPosMax(k, s)
<1>1. \A i \in Cells : s \in k.seq[i] => k.pos[i] \in S /\ k.pos[i] \in Int
  <2> SUFFICES ASSUME NEW i \in Cells, s \in k.seq[i] PROVE k.pos[i] \in S /\ k.pos[i] \in Int
    OBVIOUS
  <2>1. k.pos[i] \in Positions /\ k.pos[i] \in Int
    BY GoodTypes
  <2> QED
    BY <2>1, PresentIs
<1>2. CASE S = {}
  <2>1. m = -1
    BY <1>2 DEF SeqPosMax
  <2> QED
    BY <1>1, <1>2, <2>1 DEF SeqEndsAt
<1>3. CASE S # {}
  <2>1. S \subseteq Positions /\ Positions \subseteq Int
    BY DEF Present, Positions
  <2>2. IsFiniteSet(Positions)
    BY FS_Interval, PosAssumption DEF Positions
  <2>3. IsFiniteSet(S)
    BY <2>1, <2>2, FS_Subset
  <2>4. \E p \in S : \A q \in S : p >= q
    <3> HIDE DEF S
    <3>1. Max(S) \in S /\ \A q \in S : q <= Max(S)
      BY <1>3, <2>1, <2>3, Ends
    <3> QED
      BY <2>1, <3>1
  <2>5. m \in S /\ \A q \in S : m >= q
    BY <1>3, <2>4 DEF SeqPosMax
  <2> HIDE DEF m
  <2>6. \E i \in Cells : s \in k.seq[i] /\ k.pos[i] = m
    BY <2>1, <2>5, PresentIs
  <2> HIDE DEF S
  <2>7. \A i \in Cells : s \in k.seq[i] => k.pos[i] <= m
    BY <1>1, <2>1, <2>5
  <2> QED
    BY <2>1, <2>5, <2>6, <2>7 DEF SeqEndsAt, m
<1> QED
  BY <1>2, <1>3

\* The end is where no cell is above and one is, ...
LEMMA SeqEndIs ==
    ASSUME NEW k \in GoodCaches, NEW s \in Seqs, NEW p \in Nat,
           \A i \in Cells : s \in k.seq[i] => k.pos[i] < p,
           p = 0 \/ \E i \in Cells : s \in k.seq[i] /\ k.pos[i] = p - 1
    PROVE  SeqPosMax(k, s) = p - 1
<1> DEFINE m == SeqPosMax(k, s)
<1>1. SeqEndsAt(k, s, m)
  BY SeqEnd
<1> HIDE DEF m
<1>2. CASE p = 0
  <2>1. \A i \in Cells : s \notin k.seq[i]
    <3> SUFFICES ASSUME NEW i \in Cells, s \in k.seq[i] PROVE FALSE
      OBVIOUS
    <3>1. k.pos[i] \in Positions /\ k.pos[i] < 0
      BY <1>2, GoodTypes
    <3> QED
      BY <3>1 DEF Positions
  <2> QED
    BY <1>1, <1>2, <2>1 DEF SeqEndsAt, m
<1>3. CASE p # 0
  <2>1. PICK i \in Cells : s \in k.seq[i] /\ k.pos[i] = p - 1
    BY <1>3
  <2>2. p - 1 <= m /\ m \in Int
    BY <1>1, <2>1 DEF SeqEndsAt
  <2>3. m < p
    BY <1>1, <1>3, <2>2 DEF SeqEndsAt
  <2> QED
    BY <2>2, <2>3 DEF m
<1> QED
  BY <1>2, <1>3

\* ... and the search for a slot may count the used cells.
LEMMA UsedFinite ==
    ASSUME NEW k \in GoodCaches
    PROVE  Cardinality(k.used) \in Nat
<1>1. IsFiniteSet(Cells) /\ k.used \subseteq Cells
  BY SizeAssumption, FS_Interval, GoodTypes DEF Cells, RawCaches
<1> QED
  BY <1>1, FS_Subset, FS_CardinalityType

-----------------------------------------------------------------------------
(* The inductive invariant: the decoder's state has its shape.             *)

\* What the recovery stack may hold.
Olds == UNION {[pos : [S -> Positions \union {-1}], seq : [S -> SUBSET Seqs]] : S \in SUBSET Cells}
StackEntries ==
    {st \in [slot : Seq(Cells), head : 0 .. Size, old : Olds] : st.slot # << >> /\ GoodState(st)}

\* A decode is under way.
Decoding == phase \in {"place", "unwind", "compute", "returned"}

BatchFits ==
    Decoding => /\ batch.seq \in Seqs /\ batch.n \in 1 .. Size /\ batch.first \in Nat
                /\ batch.first + batch.n - 1 <= MaxPos

StackFits ==
    /\ states \in Seq(StackEntries)
    /\ phase \in {"place", "unwind", "compute"} =>
         \A j \in 1 .. Len(states) : j <= NUbatches /\ Len(states[j].slot) = ULen(j)

PhaseFits ==
    /\ phase \in {"idle", "returned", "dead"} => states = << >>
    /\ phase = "idle" => done = 0
    /\ phase = "place" => done = 0 /\ Len(states) < NUbatches
    /\ phase = "unwind" => done = 0 /\ Len(states) <= NUbatches
    /\ phase = "compute" => Len(states) = NUbatches /\ done < NUbatches
    /\ phase # "returned" => result = NoResult

KInv == KTypeOK /\ Books(kv) /\ BatchFits /\ StackFits /\ PhaseFits

\* A refused batch had too few empty cells: what a trial has taken so far are the
\* cells of its slots.
CellsTaken ==
    LET free == Cardinality(Empties(before))
    IN  /\ phase = "place" => \/ free < batch.n
                              \/ free <= Cardinality(Empties(kv)) + Len(states) * UBatch
        /\ phase = "unwind" /\ Len(states) < NUbatches => free < batch.n
        /\ result = 1 => free < batch.n

\* The positions of the batch are new to its sequence, wherever its tokens are put.
Below(k, i, p) == batch.seq \in k.seq[i] => k.pos[i] < p
InSlot(i, S) == \E j \in S : i \in ToSet(states[j].slot)
PositionsAreNew ==
    /\ phase \in {"place", "unwind"} =>
         /\ \A i \in Cells : ~InSlot(i, 1 .. Len(states)) => Below(kv, i, batch.first)
         /\ \A j \in 1 .. Len(states) : \A i \in ToSet(states[j].slot) :
              ~InSlot(i, 1 .. (j - 1)) => Below(states[j].old, i, batch.first)
    /\ phase = "compute" => \A i \in Cells : Below(kv, i, UFirst(done + 1))
    /\ result = 0 => SeqPosMax(kv, batch.seq) = batch.first + batch.n - 1

\* Without a sliding window a decode touches only cells that were empty.
EndsAt(k, p) == p = 0 \/ \E i \in Cells : batch.seq \in k.seq[i] /\ k.pos[i] = p - 1
Steady ==
    n_swa = 0 /\ Decoding =>
      /\ \A i \in Cells : before.pos[i] # -1 =>
           kv.pos[i] = before.pos[i] /\ kv.seq[i] = before.seq[i]
      /\ \A j \in 1 .. Len(states) : \A i \in ToSet(states[j].slot) :
           /\ before.pos[i] = -1 /\ states[j].old.pos[i] = -1
           /\ ~InSlot(i, 1 .. (j - 1))
           /\ phase \in {"place", "unwind"} => kv.pos[i] # -1
           /\ phase = "compute" /\ j > done => kv.pos[i] = -1
      /\ \A i \in Cells : before.pos[i] = -1 /\ kv.pos[i] # -1 =>
           \/ phase \in {"place", "unwind"} /\ InSlot(i, 1 .. Len(states))
           \/ phase \in {"compute", "returned"} /\ kv.pos[i] >= batch.first
      /\ phase \in {"place", "unwind"} => EndsAt(before, batch.first)
      /\ phase = "compute" => EndsAt(kv, UFirst(done + 1))

\* The keys, without a sliding window: of the cells that are not on trial.
OnTrial(i) == phase \in {"place", "unwind"} /\ before.pos[i] = -1
KeysAreRight ==
    n_swa = 0 => \A i \in Cells :
      /\ kv.pos[i] # -1 /\ ~OnTrial(i) /\ rope[i] \notin Spoilt =>
           rope[i] >= 0 /\ rope[i] + kv.shift[i] = kv.pos[i]
      /\ kv.pos[i] = -1 \/ (Decoding /\ before.pos[i] = -1) => kv.shift[i] = 0

-----------------------------------------------------------------------------
(* Steps of the decoder.                                                   *)

\* A key that is rotated to its cell's position, pending shift included, unless
\* it is spoilt already.
KeyOk(keys, k, i) == keys[i] \notin Spoilt => keys[i] >= 0 /\ keys[i] + k.shift[i] = k.pos[i]

\* memory_update moves no cell, and every key as far as its cell, or it spoils it.
LEMMA MemoryKeeps ==
    ASSUME NEW k \in GoodCaches, NEW ok \in BOOLEAN, rope \in [Cells -> Int], MemoryUpdate(k, ok)
    PROVE  /\ kv' \in GoodCaches /\ kv'.pos = k.pos /\ kv'.seq = k.seq /\ rope' \in [Cells -> Int]
           /\ \A i \in Cells : /\ k.shift[i] = 0 => kv'.shift[i] = 0
                               /\ k.pos[i] # -1 /\ KeyOk(rope, k, i) => KeyOk(rope', kv', i)
<1>0. k.shift \in [Cells -> Int] /\ \A i \in Cells : k.shift[i] \in Int
  BY GoodTypes DEF RawCaches
<1>1. CASE k.has_shift /\ ok
  <2>1. /\ kv' = ResetShift(k)
        /\ rope' = [i \in Cells |-> IF rope[i] < 0 THEN rope[i] ELSE rope[i] + k.shift[i]]
    BY <1>1 DEF MemoryUpdate
  <2>2. kv' \in GoodCaches
    BY <2>1, ResetGood
  <2>3. kv'.pos = k.pos /\ kv'.seq = k.seq /\ kv'.shift = [i \in Cells |-> 0]
    BY <2>1, GoodTypes DEF ResetShift, RawCaches
  <2>4. rope' \in [Cells -> Int]
    BY <1>0, <2>1
  <2>5. ASSUME NEW i \in Cells, k.pos[i] # -1, KeyOk(rope, k, i) PROVE KeyOk(rope', kv', i)
    <3>1. rope'[i] = IF rope[i] < 0 THEN rope[i] ELSE rope[i] + k.shift[i]
      BY <2>1
    <3>2. kv'.shift[i] = 0 /\ kv'.pos[i] = k.pos[i]
      BY <2>3
    <3>3. k.pos[i] \in Int /\ k.pos[i] >= 0
      BY <2>5, GoodTypes DEF Positions
    <3>4. CASE rope[i] \in Spoilt
      <4>1. rope'[i] = rope[i]
        BY <3>1, <3>4 DEF Spoilt, Divided, Torn
      <4> QED
        BY <3>4, <4>1 DEF KeyOk
    <3>5. CASE rope[i] \notin Spoilt
      <4>1. rope[i] >= 0 /\ rope[i] + k.shift[i] = k.pos[i] /\ rope[i] \in Int
        BY <2>5, <3>5 DEF KeyOk
      <4>2. rope'[i] = k.pos[i]
        BY <3>1, <4>1
      <4> QED
        BY <3>2, <3>3, <4>2 DEF KeyOk
    <3> QED
      BY <3>4, <3>5
  <2> QED
    BY <2>2, <2>3, <2>4, <2>5
<1>2. CASE ~(k.has_shift /\ ok)
  <2>1. kv' = k /\ (rope' = rope \/ rope' = TornKeys(k))
    BY <1>2 DEF MemoryUpdate
  <2>2. CASE rope' = rope
    BY <2>1, <2>2
  <2>3. CASE rope' = TornKeys(k)
    <3>1. Torn \in Int /\ Torn \in Spoilt
      BY DEF Torn, Spoilt
    <3>2. rope' \in [Cells -> Int]
      <4> HIDE DEF Torn
      <4> QED
        BY <2>3, <3>1 DEF TornKeys
    <3>3. ASSUME NEW i \in Cells, KeyOk(rope, k, i) PROVE KeyOk(rope', kv', i)
      <4>1. rope'[i] = rope[i] \/ rope'[i] = Torn
        BY <2>3 DEF TornKeys
      <4> QED
        BY <2>1, <3>1, <3>3, <4>1 DEF KeyOk
    <3> QED
      BY <2>1, <3>2, <3>3
  <2> QED
    BY <2>1, <2>2, <2>3
<1> QED
  BY <1>1, <1>2

\* The head stays in the cache.
LEMMA HeadStays ==
    ASSUME NEW k, NEW r, NEW h \in 0 .. Size
    PROVE  /\ HeadAfter(k, r, h) \in 0 .. Size
           /\ (IF Freed(k, r) # {} THEN Min(Freed(k, r)) ELSE 0) \in 0 .. Size
<1> DEFINE F == Freed(k, r)
<1>1. F \subseteq Cells /\ IsFiniteSet(Cells) /\ Cells \subseteq Int /\ Cells \subseteq 0 .. Size
  BY SizeAssumption, FS_Interval DEF Freed, Cells
<1>2. IsFiniteSet(F)
  BY <1>1, FS_Subset
<1>3. F # {} => Min(F) \in 0 .. Size
  <2> HIDE DEF F
  <2>1. F # {} => Min(F) \in F
    BY <1>1, <1>2, Ends
  <2> QED
    BY <1>1, <2>1
<1>4. 0 \in 0 .. Size
  BY SizeAssumption
<1> QED
  BY <1>3, <1>4 DEF HeadAfter

\* A slot that fits ubatch j.
SlotFits(slot, j) ==
    /\ slot \in Seq(Cells) /\ slot # << >> /\ ToSet(slot) \subseteq Cells /\ Last(slot) \in Cells
    /\ j \in 1 .. NUbatches /\ Len(slot) = ULen(j) /\ Len(slot) \in Nat \ {0}
    /\ UFirst(j) \in Nat /\ UFirst(j) >= batch.first /\ UFirst(j) + Len(slot) - 1 <= MaxPos
    /\ batch.seq \in Seqs

\* The slot find_slot gives a ubatch of the batch fits it.
LEMMA SlotIsFit ==
    ASSUME BatchFits, Decoding, NEW j \in 1 .. NUbatches, NEW slot \in Seq(Cells),
           Len(slot) = ULen(j)
    PROVE  SlotFits(slot, j)
<1>1. /\ batch.n \in Nat \ {0} /\ batch.first \in Nat /\ batch.first + batch.n - 1 <= MaxPos
      /\ batch.seq \in Seqs
  BY SizeAssumption DEF BatchFits
<1>2. /\ ULen(j) \in 1 .. UBatch /\ (j - 1) * UBatch \in Nat
      /\ (j - 1) * UBatch + ULen(j) <= batch.n
  BY <1>1, UbatchFits
<1>3. UFirst(j) = batch.first + (j - 1) * UBatch
  BY DEF UFirst
<1>4. Len(slot) \in Nat \ {0} /\ UBatch \in Nat
  BY <1>2, BatchAssumption
<1>5. slot # << >> /\ ToSet(slot) \subseteq Cells /\ Last(slot) \in Cells
  <2>1. slot # << >>
    BY <1>4
  <2>2. \A x \in 1 .. Len(slot) : slot[x] \in Cells
    OBVIOUS
  <2>3. Len(slot) \in 1 .. Len(slot)
    BY <1>4
  <2> QED
    BY <2>1, <2>2, <2>3 DEF ToSet, Last
<1>6. /\ UFirst(j) \in Nat /\ UFirst(j) >= batch.first /\ UFirst(j) + Len(slot) - 1 <= MaxPos
  <2> DEFINE q == (j - 1) * UBatch
  <2>1. q \in Nat /\ q + ULen(j) <= batch.n /\ UFirst(j) = batch.first + q
    BY <1>2, <1>3
  <2> HIDE DEF q
  <2>2. /\ batch.first \in Nat /\ batch.n \in Nat /\ MaxPos \in Nat /\ Len(slot) \in Nat
        /\ q + Len(slot) <= batch.n /\ batch.first + batch.n - 1 <= MaxPos
    BY <1>1, <1>2, <1>4, <2>1, PosAssumption
  <2>3. batch.first + q \in Nat /\ batch.first + q >= batch.first
    BY <2>1, <2>2
  <2>4. batch.first + q + Len(slot) - 1 <= MaxPos
    BY <2>1, <2>2
  <2> QED
    BY <2>1, <2>3, <2>4
<1> QED
  BY <1>1, <1>4, <1>5, <1>6 DEF SlotFits

\* The ubatch that is placed or computed next.
LEMMA NextSlot ==
    ASSUME KInv
    PROVE  /\ phase = "place" =>
                LET j == Len(states) + 1
                    slot == FindSlot(kv, head, ULen(j))
                IN  /\ j \in 1 .. NUbatches /\ ULen(j) \in Nat \ {0}
                    /\ slot # << >> => SlotFits(slot, j) /\ \A i \in ToSet(slot) : CanUse(kv, i)
                    /\ slot = << >> => Cardinality(Empties(kv)) < ULen(j)
           /\ phase = "compute" => SlotFits(states[done + 1].slot, done + 1)
<1>1. CASE phase = "place"
  <2> DEFINE j == Len(states) + 1
             slot == FindSlot(kv, head, ULen(j))
  <2>1. BatchFits /\ Decoding /\ batch.n \in Nat \ {0}
    BY <1>1, SizeAssumption DEF KInv, Decoding, BatchFits
  <2>2. j \in 1 .. NUbatches /\ ULen(j) \in Nat \ {0}
    <3>1. Len(states) \in Nat /\ Len(states) < NUbatches
      BY <1>1 DEF KInv, StackFits, PhaseFits
    <3>2. NUbatches \in Nat /\ UBatch \in Nat
      BY <2>1, UbatchFits, BatchAssumption
    <3>3. j \in 1 .. NUbatches
      BY <3>1, <3>2
    <3> HIDE DEF j
    <3>4. ULen(j) \in 1 .. UBatch
      BY <2>1, <3>3, UbatchFits
    <3> QED
      BY <3>2, <3>3, <3>4
  <2>3. kv \in GoodCaches /\ head \in 0 .. Size
    BY DEF KInv, KTypeOK, GoodCaches
  <2>4. Cardinality(kv.used) \in Nat
    BY <2>3, UsedFinite
  <2> HIDE DEF j
  <2>5. /\ slot \in Seq(Cells) /\ \A x \in 1 .. Len(slot) : CanUse(kv, slot[x])
        /\ slot # << >> => Len(slot) = ULen(j)
        /\ slot = << >> => Cardinality(Empties(kv)) < ULen(j)
    BY <2>2, <2>3, <2>4, FindSlotGood
  <2> HIDE DEF slot
  <2>6. slot # << >> => SlotFits(slot, j)
    BY <2>1, <2>2, <2>5, SlotIsFit
  <2>7. \A i \in ToSet(slot) : CanUse(kv, i)
    BY <2>5 DEF ToSet
  <2> QED
    BY <1>1, <2>2, <2>5, <2>6, <2>7 DEF j, slot
<1>2. CASE phase = "compute"
  <2> DEFINE j == done + 1
             slot == states[j].slot
  <2>1. BatchFits /\ Decoding /\ batch.n \in Nat \ {0}
    BY <1>2, SizeAssumption DEF KInv, Decoding, BatchFits
  <2>2. NUbatches \in Nat
    BY <2>1, UbatchFits
  <2>3. j \in 1 .. NUbatches /\ j \in 1 .. Len(states)
    BY <1>2, <2>2 DEF KInv, KTypeOK, PhaseFits
  <2> HIDE DEF j
  <2>4. states[j] \in StackEntries /\ Len(slot) = ULen(j)
    BY <1>2, <2>3 DEF KInv, StackFits
  <2>5. slot \in Seq(Cells)
    BY <2>4 DEF StackEntries
  <2> HIDE DEF slot
  <2>6. SlotFits(slot, j)
    BY <2>1, <2>3, <2>4, <2>5, SlotIsFit
  <2> QED
    BY <1>2, <2>6 DEF slot, j
<1> QED
  BY <1>1, <1>2

\* What goes on the recovery stack.
LEMMA EntryFits ==
    ASSUME NEW k \in GoodCaches, NEW slot \in Seq(Cells), slot # << >>,
           ToSet(slot) \subseteq Cells, NEW h \in 0 .. Size
    PROVE  LET e == [slot |-> slot, head |-> h, old |-> Cp(k, ToSet(slot))]
           IN  /\ e \in StackEntries
               /\ \A i \in ToSet(slot) : e.old.pos[i] = k.pos[i] /\ e.old.seq[i] = k.seq[i]
<1> DEFINE S == ToSet(slot)
           o == Cp(k, S)
           e == [slot |-> slot, head |-> h, old |-> o]
<1>1. \A i \in S : /\ k.pos[i] \in Positions \union {-1} /\ k.seq[i] \in SUBSET Seqs
                   /\ k.pos[i] = -1 <=> k.seq[i] = {}
  BY GoodTypes
<1> HIDE DEF S
<1>2. /\ o \in [pos : [S -> Positions \union {-1}], seq : [S -> SUBSET Seqs]]
      /\ \A i \in S : o.pos[i] = k.pos[i] /\ o.seq[i] = k.seq[i]
  BY <1>1 DEF Cp
<1> HIDE DEF o
<1>3. S \in SUBSET Cells
  BY DEF S
<1>4. o \in Olds
  BY <1>2, <1>3 DEF Olds
<1>5. e.slot = slot /\ e.head = h /\ e.old = o
  OBVIOUS
<1>6. e \in [slot : Seq(Cells), head : 0 .. Size, old : Olds]
  BY <1>4
<1> HIDE DEF e
<1>7. GoodState(e)
  BY <1>1, <1>2, <1>5 DEF GoodState, S
<1>8. e \in StackEntries
  BY <1>5, <1>6, <1>7 DEF StackEntries
<1> QED
  BY <1>2, <1>5, <1>8 DEF e, o, S

\* Taking back the trial.
LEMMA UnwindGood ==
    ASSUME KInv
    PROVE  /\ Unplace(kv) \in GoodCaches /\ Unplaced(Unplace(kv), kv, 1 .. Len(states))
           /\ OldHead \in 0 .. Size
<1>1. states \in Seq(StackEntries) /\ kv \in GoodCaches /\ head \in 0 .. Size
  BY DEF KInv, KTypeOK, StackFits, GoodCaches
<1>2. /\ Len(states) \in Nat /\ DOMAIN states = 1 .. Len(states)
      /\ \A j \in 1 .. Len(states) : states[j] \in StackEntries
  BY <1>1
<1>3. \A j \in 1 .. Len(states) : GoodState(states[j]) /\ states[j].head \in 0 .. Size
  BY <1>2 DEF StackEntries
<1>4. OldHead \in 0 .. Size
  <2>1. CASE states = << >>
    BY <1>1, <2>1 DEF OldHead
  <2>2. CASE states # << >>
    <3>1. 1 \in 1 .. Len(states)
      BY <1>1, <2>2
    <3> QED
      BY <1>3, <2>2, <3>1 DEF OldHead
  <2> QED
    BY <2>1, <2>2
<1> QED
  BY <1>1, <1>2, <1>3, <1>4, UnplaceGood

\* Nothing of a batch changes: neither do its ubatches.
LEMMA SameBatch ==
    ASSUME batch' = batch
    PROVE  /\ NUbatches' = NUbatches
           /\ \A j : UFirst(j)' = UFirst(j) /\ ULen(j)' = ULen(j)
  BY DEF NUbatches, UFirst, ULen

\* An edit leaves a cache with balanced books.
EditGood ==
    phase = "idle" /\ kv' \in GoodCaches /\ head' \in 0 .. Size /\ rope' \in [Cells -> Int]
    /\ UNCHANGED <<n_swa, phase, batch, states, done, optimized, result, before>>

\* The keys and cells after an edit, ...
EditKeys ==
    \A i \in Cells :
        /\ kv.pos[i] # -1 /\ KeyOk(rope, kv, i) /\ kv'.pos[i] # -1 => KeyOk(rope', kv', i)
        /\ kv'.pos[i] # -1 => kv.pos[i] # -1
        /\ kv'.pos[i] = -1 /\ (kv.pos[i] = -1 => kv.shift[i] = 0) => kv'.shift[i] = 0

\* ... whose cells are as they were, or empty.
LEMMA EditLeaves ==
    ASSUME NEW r, NEW h \in 0 .. Size, r \in GoodCaches, rope \in [Cells -> Int], Edit(r, h),
           \A i \in Cells : \/ r.pos[i] = kv.pos[i] /\ r.shift[i] = kv.shift[i]
                            \/ r.pos[i] = -1 /\ r.shift[i] = 0
    PROVE  EditGood /\ EditKeys
<1>1. /\ phase = "idle" /\ kv' = r /\ head' = h /\ rope' = KeysOf(r, rope)
      /\ UNCHANGED <<n_swa, phase, batch, states, done, optimized, result, before>>
  BY DEF Edit, EditTo
<1>2. rope' = [i \in Cells |-> IF r.pos[i] = -1 THEN 0 ELSE rope[i]]
  BY <1>1 DEF KeysOf, IsEmpty
<1>3. EditGood
  <2>1. rope' \in [Cells -> Int]
    BY <1>2
  <2> QED
    BY <1>1, <2>1 DEF EditGood
<1>4. EditKeys
  BY <1>1, <1>2 DEF EditKeys, KeyOk
<1> QED
  BY <1>3, <1>4

\* Every edit of a caller keeps the books, the keys and the emptiness of empty cells.
LEMMA CallerEditsGood ==
    ASSUME KInv, CallerEdits
    PROVE  EditGood /\ EditKeys
<1>1. kv \in GoodCaches /\ head \in 0 .. Size /\ rope \in [Cells -> Int]
  BY DEF KInv, KTypeOK, GoodCaches
<1>2. CASE CacheClear
  <2>1. Edit(Reset, 0) /\ 0 \in 0 .. Size
    BY <1>2, SizeAssumption DEF CacheClear
  <2>2. \A i \in Cells : Reset.pos[i] = -1 /\ Reset.shift[i] = 0
    BY DEF Reset
  <2>3. Reset \in GoodCaches
    BY ResetGood
  <2> QED
    BY <1>1, <2>1, <2>2, <2>3, EditLeaves
<1>3. ASSUME NEW s \in Seqs, CacheSeqKeep(s) PROVE EditGood /\ EditKeys
  <2> DEFINE r == KeepOnly(kv, s)
             h == HeadAfter(kv, r, head)
  <2>1. r \in GoodCaches /\ \A i \in Cells : KeepAt(r, kv, i, s)
    BY <1>1, KeepOnlyGood
  <2>2. Edit(r, h)
    BY <1>3 DEF CacheSeqKeep
  <2> HIDE DEF r
  <2>3. h \in 0 .. Size
    BY <1>1, HeadStays
  <2>4. \A i \in Cells : \/ r.pos[i] = kv.pos[i] /\ r.shift[i] = kv.shift[i]
                         \/ r.pos[i] = -1 /\ r.shift[i] = 0
    BY <2>1 DEF KeepAt, Untouched
  <2> HIDE DEF h
  <2> QED
    BY <1>1, <2>1, <2>2, <2>3, <2>4, EditLeaves
<1>4. ASSUME NEW p \in Ranges PROVE p[1] \in Int /\ p[2] \in Int
  BY EditAssumption
<1>5. ASSUME NEW p \in Ranges, CacheRmAny(p[1], p[2]) PROVE EditGood /\ EditKeys
  <2> DEFINE r == ClearRange(kv, p[1], p[2])
             h == HeadAfter(kv, r, head)
  <2>1. r \in GoodCaches /\ \A i \in Cells : ClearAt(r, kv, i, p[1], p[2])
    BY <1>1, <1>4, ClearRangeGood
  <2>2. Edit(r, h)
    BY <1>5 DEF CacheRmAny
  <2> HIDE DEF r
  <2>3. h \in 0 .. Size
    BY <1>1, HeadStays
  <2>4. \A i \in Cells : \/ r.pos[i] = kv.pos[i] /\ r.shift[i] = kv.shift[i]
                         \/ r.pos[i] = -1 /\ r.shift[i] = 0
    BY <2>1 DEF ClearAt, Untouched
  <2> HIDE DEF h
  <2> QED
    BY <1>1, <2>1, <2>2, <2>3, <2>4, EditLeaves
<1>6. ASSUME NEW p \in Ranges, NEW s \in Seqs, CacheSeqRm(s, p[1], p[2])
      PROVE  EditGood /\ EditKeys
  <2> DEFINE r == RmRange(kv, s, p[1], p[2])
             h == HeadAfter(kv, r, head)
  <2>1. r \in GoodCaches /\ \A i \in Cells : RmAt(r, kv, i, s, p[1], p[2])
    BY <1>1, <1>4, RmRangeGood
  <2>2. Edit(r, h)
    BY <1>6 DEF CacheSeqRm
  <2> HIDE DEF r
  <2>3. h \in 0 .. Size
    BY <1>1, HeadStays
  <2>4. \A i \in Cells : \/ r.pos[i] = kv.pos[i] /\ r.shift[i] = kv.shift[i]
                         \/ r.pos[i] = -1 /\ r.shift[i] = 0
    BY <2>1 DEF RmAt, Untouched
  <2> HIDE DEF h
  <2> QED
    BY <1>1, <2>1, <2>2, <2>3, <2>4, EditLeaves
<1>7. ASSUME NEW p \in Ranges, NEW s \in Seqs, NEW t \in Seqs, CacheSeqCp(s, t, p[1], p[2])
      PROVE  EditGood /\ EditKeys
  <2> DEFINE r == CpRange(kv, s, t, p[1], p[2])
  <2>1. /\ s # t /\ \A i \in Cells : PosIn(kv, i, p[1], p[2]) => ~({s, t} \subseteq kv.seq[i])
        /\ Edit(r, head)
    BY <1>7 DEF CacheSeqCp
  <2>2. r \in GoodCaches /\ \A i \in Cells : CpAt(r, kv, i, s, t, p[1], p[2])
    BY <1>1, <1>4, <2>1, CpRangeGood
  <2> HIDE DEF r
  <2>3. \A i \in Cells : r.pos[i] = kv.pos[i] /\ r.shift[i] = kv.shift[i]
    BY <2>2 DEF CpAt, Untouched
  <2> QED
    BY <1>1, <2>1, <2>2, <2>3, EditLeaves
<1>8. ASSUME NEW p \in Ranges, NEW s \in Seqs, NEW d \in Deltas, CacheSeqAdd(s, p[1], p[2], d)
      PROVE  EditGood /\ EditKeys
  <2> DEFINE r == AddRange(kv, s, p[1], p[2], d)
             h == IF Freed(kv, r) # {} THEN Min(Freed(kv, r)) ELSE 0
  <2>0. d \in Int
    BY EditAssumption
  <2>1. Edit(r, h) /\ \A i \in Cells : kv.pos[i] + d <= MaxPos
    BY <1>8 DEF CacheSeqAdd
  <2>2. r \in GoodCaches /\ \A i \in Cells : AddAt(r, kv, i, s, p[1], p[2], d)
    BY <1>1, <1>4, <2>0, <2>1, AddRangeGood
  <2> HIDE DEF r
  <2>3. h \in 0 .. Size
    BY <1>1, HeadStays
  <2> HIDE DEF h
  <2>4. /\ phase = "idle" /\ kv' = r /\ head' = h /\ rope' = KeysOf(r, rope)
        /\ UNCHANGED <<n_swa, phase, batch, states, done, optimized, result, before>>
    BY <2>1 DEF Edit, EditTo
  <2>5. rope' = [i \in Cells |-> IF r.pos[i] = -1 THEN 0 ELSE rope[i]]
    BY <2>4 DEF KeysOf, IsEmpty
  <2>6. rope' \in [Cells -> Int]
    BY <1>1, <2>5
  <2>7. EditGood
    BY <2>2, <2>3, <2>4, <2>6 DEF EditGood
  <2>8. ASSUME NEW i \in Cells
        PROVE  /\ kv.pos[i] # -1 /\ KeyOk(rope, kv, i) /\ kv'.pos[i] # -1 => KeyOk(rope', kv', i)
               /\ kv'.pos[i] # -1 => kv.pos[i] # -1
               /\ kv'.pos[i] = -1 /\ (kv.pos[i] = -1 => kv.shift[i] = 0) => kv'.shift[i] = 0
    <3>1. AddAt(r, kv, i, s, p[1], p[2], d) /\ kv' = r
      BY <2>2, <2>4
    <3>2. rope'[i] = IF r.pos[i] = -1 THEN 0 ELSE rope[i]
      BY <2>5
    <3>3. kv.pos[i] \in Int /\ kv.shift[i] \in Int /\ rope[i] \in Int
      BY <1>1, GoodTypes DEF RawCaches
    <3>4. CASE PosIn(kv, i, p[1], p[2]) /\ s \in kv.seq[i]
      <4>1. kv.pos[i] # -1
        BY <1>1, <3>4, GoodTypes
      <4>2. CASE kv.pos[i] + d < 0
        BY <3>1, <3>4, <4>1, <4>2 DEF AddAt
      <4>3. CASE ~(kv.pos[i] + d < 0)
        <5>1. r.pos[i] = kv.pos[i] + d /\ r.shift[i] = kv.shift[i] + d /\ r.pos[i] # -1
          BY <2>0, <3>1, <3>3, <3>4, <4>3 DEF AddAt
        <5>2. rope'[i] = rope[i]
          BY <3>2, <5>1
        <5>3. KeyOk(rope, kv, i) => KeyOk(rope', kv', i)
          BY <2>0, <3>1, <3>3, <5>1, <5>2 DEF KeyOk
        <5> QED
          BY <3>1, <4>1, <5>1, <5>3
      <4> QED
        BY <4>2, <4>3
    <3>5. CASE ~(PosIn(kv, i, p[1], p[2]) /\ s \in kv.seq[i])
      <4>1. Untouched(r, kv, i)
        BY <3>1, <3>5 DEF AddAt
      <4> QED
        BY <3>1, <3>2, <4>1 DEF Untouched, KeyOk
    <3> QED
      BY <3>4, <3>5
  <2> QED
    BY <2>7, <2>8 DEF EditKeys
<1>9. ASSUME NEW p \in Ranges, NEW s \in Seqs, NEW d \in Divisors, CacheSeqDiv(s, p[1], p[2], d)
      PROVE  EditGood /\ EditKeys
  <2> DEFINE hit == {i \in Cells : PosIn(kv, i, p[1], p[2]) /\ s \in kv.seq[i]}
             r == DivCells(kv, hit, d)
             keys == [i \in Cells |-> IF i \in hit THEN Divided ELSE rope[i]]
  <2>0. d \in Nat \ {0}
    BY EditAssumption
  <2>1. EditTo(r, head, keys)
    BY <1>9 DEF CacheSeqDiv
  <2>h. hit \in SUBSET Cells /\ \A i \in hit : kv.pos[i] # -1
    BY <1>1, GoodTypes
  <2> HIDE DEF hit
  <2>2. r \in GoodCaches /\ \A i \in Cells : DivAt(r, kv, i, hit, d)
    BY <1>1, <2>0, <2>h, DivCellsGood
  <2> HIDE DEF r
  <2>4. /\ phase = "idle" /\ kv' = r /\ head' = head /\ rope' = KeysOf(r, keys)
        /\ UNCHANGED <<n_swa, phase, batch, states, done, optimized, result, before>>
    BY <2>1 DEF EditTo
  <2>5. rope' = [i \in Cells |-> IF r.pos[i] = -1 THEN 0 ELSE IF i \in hit THEN Divided ELSE rope[i]]
    BY <2>4 DEF KeysOf, IsEmpty
  <2>6. rope' \in [Cells -> Int]
    <3>1. Divided \in Int
      BY DEF Divided
    <3> QED
      BY <1>1, <2>5, <3>1
  <2>7. EditGood
    BY <1>1, <2>2, <2>4, <2>6 DEF EditGood
  <2>8. ASSUME NEW i \in Cells
        PROVE  /\ kv.pos[i] # -1 /\ KeyOk(rope, kv, i) /\ kv'.pos[i] # -1 => KeyOk(rope', kv', i)
               /\ kv'.pos[i] # -1 => kv.pos[i] # -1
               /\ kv'.pos[i] = -1 /\ (kv.pos[i] = -1 => kv.shift[i] = 0) => kv'.shift[i] = 0
    <3>1. DivAt(r, kv, i, hit, d) /\ kv' = r
      BY <2>2, <2>4
    <3>2. rope'[i] = IF r.pos[i] = -1 THEN 0 ELSE IF i \in hit THEN Divided ELSE rope[i]
      BY <2>5
    <3>3. CASE i \in hit
      <4>1. kv.pos[i] # -1 /\ kv.seq[i] # {} /\ r.seq[i] = kv.seq[i]
        BY <1>1, <2>h, <3>1, <3>3, GoodTypes DEF DivAt
      <4>2. r.pos[i] # -1
        BY <2>2, <4>1, GoodTypes
      <4> QED
        BY <3>1, <3>2, <3>3, <4>1, <4>2 DEF KeyOk, Spoilt
    <3>4. CASE i \notin hit
      <4>1. Untouched(r, kv, i)
        BY <3>1, <3>4 DEF DivAt
      <4> QED
        BY <3>1, <3>2, <3>4, <4>1 DEF Untouched, KeyOk
    <3> QED
      BY <3>3, <3>4
  <2> QED
    BY <2>7, <2>8 DEF EditKeys
<1> QED
  BY <1>2, <1>3, <1>5, <1>6, <1>7, <1>8, <1>9 DEF CallerEdits

-----------------------------------------------------------------------------
(* What the steps of a decode do.                                          *)

\* The trial goes one ubatch further: it is in the slot, and its entry is on the stack.
Placed(slot) ==
    LET j == Len(states) + 1
    IN  /\ phase = "place" /\ SlotFits(slot, j) /\ \A i \in ToSet(slot) : CanUse(kv, i)
        /\ kv' \in GoodCaches /\ Applied(kv', kv, slot, UFirst(j), batch.seq)
        /\ (\A i \in ToSet(slot) : kv.pos[i] = -1) => AllPut(kv', kv, slot, UFirst(j), batch.seq)
        /\ head' \in 0 .. Size
        /\ \E e \in StackEntries :
             /\ e.slot = slot /\ states' = Append(states, e)
             /\ \A i \in ToSet(slot) : e.old.pos[i] = kv.pos[i] /\ e.old.seq[i] = kv.seq[i]
        /\ phase' = IF j = NUbatches THEN "unwind" ELSE "place"
        /\ UNCHANGED <<n_swa, batch, done, optimized, result, before, rope>>

\* Or it stops, for there are fewer empty cells than tokens.
NoRoom ==
    /\ phase = "place" /\ Cardinality(Empties(kv)) < ULen(Len(states) + 1)
    /\ phase' = "unwind"
    /\ UNCHANGED <<kv, head, n_swa, batch, states, done, optimized, result, before, rope>>

\* prepare's loop either places the next ubatch or finds no room for it.
LEMMA PlaceDoes ==
    ASSUME KInv, Place
    PROVE  NoRoom \/ \E slot : Placed(slot)
<1> DEFINE j == Len(states) + 1
           slot == FindSlot(kv, head, ULen(j))
           k == ApplyUbatch(kv, slot, UFirst(j), batch.seq)
           e == [slot |-> slot, head |-> head, old |-> Cp(kv, ToSet(slot))]
<1>1. /\ phase = "place"
      /\ UNCHANGED <<n_swa, batch, done, optimized, result, before, rope>>
      /\ slot = << >> => phase' = "unwind" /\ UNCHANGED <<kv, head, states>>
      /\ slot # << >> => /\ states' = Append(states, e) /\ kv' = k /\ head' = Last(slot) + 1
                         /\ phase' = IF j = NUbatches THEN "unwind" ELSE "place"
  BY DEF Place
<1>2. /\ slot # << >> => SlotFits(slot, j) /\ \A i \in ToSet(slot) : CanUse(kv, i)
      /\ slot = << >> => Cardinality(Empties(kv)) < ULen(j)
  BY <1>1, NextSlot
<1>3. kv \in GoodCaches /\ head \in 0 .. Size
  BY DEF KInv, KTypeOK, GoodCaches
<1> HIDE DEF slot, j
<1>4. CASE slot = << >>
  BY <1>1, <1>2, <1>4 DEF NoRoom, j
<1>5. CASE slot # << >>
  <2>1. SlotFits(slot, j)
    BY <1>2, <1>5
  <2>2. /\ k \in GoodCaches /\ Applied(k, kv, slot, UFirst(j), batch.seq)
        /\ (\A i \in ToSet(slot) : kv.pos[i] = -1) => AllPut(k, kv, slot, UFirst(j), batch.seq)
    BY <1>3, <2>1, ApplyGood DEF SlotFits
  <2>3. /\ e \in StackEntries
        /\ \A i \in ToSet(slot) : e.old.pos[i] = kv.pos[i] /\ e.old.seq[i] = kv.seq[i]
    BY <1>3, <2>1, EntryFits DEF SlotFits
  <2>4. e.slot = slot
    OBVIOUS
  <2> HIDE DEF k, e
  <2>5. kv' = k /\ states' = Append(states, e) /\ head' = Last(slot) + 1
    BY <1>1, <1>5
  <2>6. head' \in 0 .. Size
    BY <2>1, <2>5, SizeAssumption DEF SlotFits, Cells
  <2>7. \E x \in StackEntries :
             /\ x.slot = slot /\ states' = Append(states, x)
             /\ \A i \in ToSet(slot) : x.old.pos[i] = kv.pos[i] /\ x.old.seq[i] = kv.seq[i]
    BY <2>3, <2>4, <2>5
  <2>8. Placed(slot)
    BY <1>1, <1>2, <1>5, <2>1, <2>2, <2>5, <2>6, <2>7 DEF Placed, j
  <2> QED
    BY <2>8
<1> QED
  BY <1>4, <1>5

\* A ubatch is placed in its slot to be computed.
Computing(slot, k) ==
    LET first == UFirst(done + 1)
    IN  /\ phase = "compute" /\ slot = states[done + 1].slot /\ SlotFits(slot, done + 1)
        /\ k \in GoodCaches /\ Applied(k, kv, slot, first, batch.seq)
        /\ (\A i \in ToSet(slot) : kv.pos[i] = -1) => AllPut(k, kv, slot, first, batch.seq)
        /\ (\A i \in Cells : Below(kv, i, first)) =>
             k.seq[Last(slot)] = {batch.seq} /\ k.pos[Last(slot)] = first + Len(slot) - 1
        /\ rope' \in [Cells -> Int]
        /\ UNCHANGED <<n_swa, batch, optimized, before>>

\* It is computed, ...
Computed(slot) ==
    LET j == done + 1
    IN  /\ Computing(slot, kv') /\ head' \in 0 .. Size /\ done' = j
        /\ rope' = [i \in Cells |-> IF i \in ToSet(slot) THEN kv'.pos[i] ELSE rope[i]]
        /\ j < NUbatches => UNCHANGED <<phase, states, result>>
        /\ ~(j < NUbatches) => phase' = "returned" /\ states' = << >> /\ result' = 0

\* ... or is not, and is removed.
Aborted(slot) ==
    /\ \E k : Computing(slot, k) /\ \A i \in Cells :
                RmAt(kv', k, i, batch.seq, UFirst(done + 1), MaxPos + 1)
    /\ kv' \in GoodCaches /\ head' \in 0 .. Size
    /\ rope' = [i \in Cells |-> IF i \in ToSet(slot) THEN Garbage ELSE rope[i]]
    /\ phase' = "returned" /\ states' = << >> /\ result' = 2 /\ UNCHANGED done

\* The ubatch that is computed either stays or, when the graph fails, is taken out.
LEMMA ComputeDoes ==
    ASSUME KInv, ComputeOk \/ ComputeFails
    PROVE  \E slot : Computed(slot) \/ Aborted(slot)
<1> DEFINE j == done + 1
           slot == states[j].slot
           k == ApplyUbatch(kv, slot, UFirst(j), batch.seq)
           r == RmRange(k, batch.seq, UFirst(j), MaxPos + 1)
<1>1. phase = "compute"
  BY DEF ComputeOk, ComputeFails
<1>2. SlotFits(slot, j)
  BY <1>1, NextSlot
<1>3. kv \in GoodCaches /\ rope \in [Cells -> Int]
  BY DEF KInv, KTypeOK, GoodCaches
<1> HIDE DEF slot
<1>4. /\ k \in GoodCaches /\ Applied(k, kv, slot, UFirst(j), batch.seq)
      /\ (\A i \in ToSet(slot) : kv.pos[i] = -1) => AllPut(k, kv, slot, UFirst(j), batch.seq)
      /\ (\A i \in Cells : Below(kv, i, UFirst(j))) =>
             k.seq[Last(slot)] = {batch.seq} /\ k.pos[Last(slot)] = UFirst(j) + Len(slot) - 1
  <2> DEFINE first == UFirst(j)
  <2>1. /\ slot \in Seq(Cells) /\ slot # << >> /\ first \in Nat /\ batch.seq \in Seqs
        /\ first + Len(slot) - 1 <= MaxPos
    BY <1>2 DEF SlotFits
  <2>2. (\A i \in Cells : Below(kv, i, first)) => \A i \in Cells : batch.seq \in kv.seq[i] => kv.pos[i] < first
    BY DEF Below
  <2> HIDE DEF first, j
  <2>3. LET q == ApplyUbatch(kv, slot, first, batch.seq)
        IN  /\ q \in GoodCaches /\ Applied(q, kv, slot, first, batch.seq)
            /\ (\A i \in ToSet(slot) : kv.pos[i] = -1) => AllPut(q, kv, slot, first, batch.seq)
            /\ (\A i \in Cells : batch.seq \in kv.seq[i] => kv.pos[i] < first) =>
                 q.seq[Last(slot)] = {batch.seq} /\ q.pos[Last(slot)] = first + Len(slot) - 1
    BY <1>3, <2>1, ApplyGood
  <2> QED
    BY <2>2, <2>3 DEF first
<1>5. Last(slot) + 1 \in 0 .. Size
  BY <1>2, SizeAssumption DEF SlotFits, Cells
<1>6. ComputeOk => /\ kv' = k /\ head' = Last(slot) + 1 /\ done' = j
                   /\ rope' = [i \in Cells |-> IF i \in ToSet(slot) THEN k.pos[i] ELSE rope[i]]
                   /\ j < NUbatches => UNCHANGED <<phase, states, result>>
                   /\ ~(j < NUbatches) => phase' = "returned" /\ states' = << >> /\ result' = 0
                   /\ UNCHANGED <<n_swa, batch, optimized, before>>
  BY DEF ComputeOk, slot
<1>7. ComputeFails => /\ kv' = r /\ head' = HeadAfter(k, r, Last(slot) + 1)
                      /\ rope' = [i \in Cells |-> IF i \in ToSet(slot) THEN Garbage ELSE rope[i]]
                      /\ phase' = "returned" /\ states' = << >> /\ result' = 2
                      /\ UNCHANGED <<n_swa, batch, done, optimized, before>>
  BY DEF ComputeFails, slot
<1> HIDE DEF k
<1>8. \A i \in Cells : k.pos[i] \in Int
  BY <1>4, GoodTypes
<1>9. CASE ComputeOk
  <2>1. rope' \in [Cells -> Int]
    BY <1>3, <1>6, <1>8, <1>9
  <2>2. Computing(slot, k)
    BY <1>1, <1>2, <1>4, <1>6, <1>9, <2>1 DEF Computing, slot
  <2>3. Computed(slot)
    BY <1>5, <1>6, <1>9, <2>2 DEF Computed
  <2> QED
    BY <2>3
<1>10. CASE ComputeFails
  <2>1. rope' \in [Cells -> Int]
    <3>1. Garbage \in Int
      BY DEF Garbage
    <3> QED
      BY <1>3, <1>7, <1>10, <3>1
  <2>2. Computing(slot, k)
    BY <1>1, <1>2, <1>4, <1>7, <1>10, <2>1 DEF Computing, slot
  <2>3. batch.seq \in Seqs /\ UFirst(j) \in Int /\ MaxPos + 1 \in Int
    BY <1>2, PosAssumption DEF SlotFits
  <2>4. r \in GoodCaches /\ \A i \in Cells : RmAt(r, k, i, batch.seq, UFirst(j), MaxPos + 1)
    BY <1>4, <2>3, RmRangeGood
  <2> HIDE DEF r
  <2>5. head' \in 0 .. Size
    BY <1>5, <1>7, <1>10, HeadStays
  <2>6. \A i \in Cells : RmAt(kv', k, i, batch.seq, UFirst(j), MaxPos + 1)
    BY <1>7, <1>10, <2>4
  <2>7. Aborted(slot)
    BY <1>7, <1>10, <2>2, <2>4, <2>5, <2>6 DEF Aborted
  <2> QED
    BY <2>7
<1> QED
  BY <1>9, <1>10

\* The trial is taken back: whether it had room or not.
Unwound ==
    /\ phase = "unwind" /\ head' \in 0 .. Size
    /\ \E r \in GoodCaches :
         /\ Unplaced(r, kv, 1 .. Len(states))
         /\ kv' \in GoodCaches /\ kv'.pos = r.pos /\ kv'.seq = r.seq
         /\ \A i \in Cells : /\ r.shift[i] = 0 => kv'.shift[i] = 0
                             /\ r.pos[i] # -1 /\ KeyOk(rope, r, i) => KeyOk(rope', kv', i)
    /\ rope' \in [Cells -> Int]
    /\ UNCHANGED <<n_swa, batch, done, before>>

\* prepare's second loop gives the cells of the trial back, whatever comes next.
LEMMA UnwindDoes ==
    ASSUME KInv, UnwindFits \/ UnwindRefused \/ \E ok \in BOOLEAN : UnwindRetry(ok)
    PROVE  Unwound
<1> DEFINE r == Unplace(kv)
<1>1. r \in GoodCaches /\ Unplaced(r, kv, 1 .. Len(states)) /\ OldHead \in 0 .. Size
  BY UnwindGood
<1>2. rope \in [Cells -> Int]
  BY DEF KInv, KTypeOK
<1>3. /\ phase = "unwind" /\ head' = OldHead /\ UNCHANGED <<n_swa, batch, done, before>>
      /\ \/ kv' = r /\ rope' = rope
         \/ \E ok \in BOOLEAN : MemoryUpdate(r, ok)
  BY DEF UnwindFits, UnwindRefused, UnwindRetry
<1> HIDE DEF r
<1>4. /\ kv' \in GoodCaches /\ kv'.pos = r.pos /\ kv'.seq = r.seq /\ rope' \in [Cells -> Int]
      /\ \A i \in Cells : /\ r.shift[i] = 0 => kv'.shift[i] = 0
                          /\ r.pos[i] # -1 /\ KeyOk(rope, r, i) => KeyOk(rope', kv', i)
  <2>1. CASE kv' = r /\ rope' = rope
    BY <1>1, <1>2, <2>1
  <2>2. ASSUME NEW ok \in BOOLEAN, MemoryUpdate(r, ok)
        PROVE  /\ kv' \in GoodCaches /\ kv'.pos = r.pos /\ kv'.seq = r.seq
               /\ rope' \in [Cells -> Int]
               /\ \A i \in Cells : /\ r.shift[i] = 0 => kv'.shift[i] = 0
                                   /\ r.pos[i] # -1 /\ KeyOk(rope, r, i) => KeyOk(rope', kv', i)
    BY <1>1, <1>2, <2>2, MemoryKeeps
  <2> QED
    BY <1>3, <2>1, <2>2
<1> QED
  BY <1>1, <1>3, <1>4 DEF Unwound

\* A decode begins: its positions follow the end of its sequence.
Begun(n, s) ==
    /\ phase = "idle" /\ phase' = "place" /\ n \in 1 .. Size /\ s \in Seqs
    /\ Start(s) \in Nat /\ SeqEndsAt(kv, s, Start(s) - 1) /\ Start(s) + n - 1 <= MaxPos
    /\ batch' = [seq |-> s, first |-> Start(s), n |-> n]
    /\ kv' \in GoodCaches /\ kv'.pos = kv.pos /\ kv'.seq = kv.seq
    /\ \A i \in Cells : /\ kv.shift[i] = 0 => kv'.shift[i] = 0
                        /\ kv.pos[i] # -1 /\ KeyOk(rope, kv, i) => KeyOk(rope', kv', i)
    /\ before' = Cp(kv, Cells) /\ rope' \in [Cells -> Int]
    /\ UNCHANGED <<head, n_swa, states, done, optimized, result>>

\* llama_decode starts at the end of its sequence, after the pending shifts.
LEMMA DecodeDoes ==
    ASSUME KInv, NEW n \in Batches, NEW s \in Seqs, NEW ok \in BOOLEAN, Decode(n, s, ok)
    PROVE  Begun(n, s)
<1>1. kv \in GoodCaches /\ rope \in [Cells -> Int]
  BY DEF KInv, KTypeOK, GoodCaches
<1>2. /\ phase = "idle" /\ n <= Size /\ Start(s) + n - 1 <= MaxPos
      /\ batch' = [seq |-> s, first |-> Start(s), n |-> n] /\ MemoryUpdate(kv, ok)
      /\ phase' = "place" /\ before' = Cp(kv, Cells)
      /\ UNCHANGED <<head, n_swa, states, done, optimized, result>>
  BY DEF Decode
<1>3. SeqEndsAt(kv, s, SeqPosMax(kv, s))
  BY <1>1, SeqEnd
<1>4. Start(s) \in Nat /\ SeqEndsAt(kv, s, Start(s) - 1)
  <2> DEFINE m == SeqPosMax(kv, s)
  <2>1. SeqEndsAt(kv, s, m) /\ m \in Positions \union {-1} /\ m \in Int /\ Start(s) = m + 1
    BY <1>3 DEF SeqEndsAt, Start
  <2> HIDE DEF m
  <2>2. Start(s) \in Nat /\ Start(s) - 1 = m
    BY <2>1, PosAssumption DEF Positions
  <2> QED
    BY <2>1, <2>2
<1>5. n \in 1 .. Size
  BY <1>2, BatchAssumption, SizeAssumption
<1>6. /\ kv' \in GoodCaches /\ kv'.pos = kv.pos /\ kv'.seq = kv.seq /\ rope' \in [Cells -> Int]
      /\ \A i \in Cells : /\ kv.shift[i] = 0 => kv'.shift[i] = 0
                          /\ kv.pos[i] # -1 /\ KeyOk(rope, kv, i) => KeyOk(rope', kv', i)
  BY <1>1, <1>2, MemoryKeeps
<1> QED
  BY <1>2, <1>4, <1>5, <1>6 DEF Begun

-----------------------------------------------------------------------------
(* The invariant.                                                          *)

\* A sequence with one element more.
LEMMA AppendIs ==
    ASSUME NEW S, NEW q \in Seq(S), NEW e \in S
    PROVE  /\ Append(q, e) \in Seq(S) /\ Len(q) \in Nat /\ Len(Append(q, e)) = Len(q) + 1
           /\ \A j \in 1 .. Len(q) : Append(q, e)[j] = q[j]
           /\ Append(q, e)[Len(q) + 1] = e
  OBVIOUS

\* The types of what a step may leave.
LEMMA TypesStay ==
    ASSUME KInv, kv' \in GoodCaches, head' \in 0 .. Size, rope' \in [Cells -> Int], n_swa' = n_swa,
           phase' \in {"idle", "place", "unwind", "compute", "returned", "dead"},
           result' \in {NoResult, 0, 1, 2, -2}, done' \in Nat, optimized' \in BOOLEAN
    PROVE  KTypeOK' /\ Books(kv)'
<1>1. kv' \in Caches /\ Books(kv')
  BY DEF GoodCaches
<1>2. n_swa' \in Windows
  BY DEF KInv, KTypeOK
<1> QED
  BY <1>1, <1>2 DEF KTypeOK, Books, Holding

\* At the start the cache is empty and nothing is decoded.
LEMMA KStart == KInit => KInv
<1> SUFFICES ASSUME KInit PROVE KInv
  OBVIOUS
<1>1. kv \in GoodCaches
  BY ResetGood DEF KInit
<1>2. KTypeOK /\ Books(kv)
  <2>1. kv \in Caches /\ Books(kv)
    BY <1>1 DEF GoodCaches
  <2>2. /\ head = 0 /\ n_swa \in Windows /\ phase = "idle" /\ done = 0 /\ optimized = FALSE
        /\ result = NoResult /\ rope = [i \in Cells |-> 0]
    BY DEF KInit
  <2>3. rope \in [Cells -> Int]
    BY <2>2
  <2>4. head \in 0 .. Size /\ done \in Nat
    BY <2>2, SizeAssumption
  <2>5. optimized \in BOOLEAN
    BY <2>2
  <2> QED
    BY <2>1, <2>2, <2>3, <2>4, <2>5 DEF KTypeOK
<1>3. BatchFits /\ StackFits /\ PhaseFits
  BY DEF KInit, BatchFits, StackFits, PhaseFits, Decoding
<1> QED
  BY <1>2, <1>3 DEF KInv

\* Every step keeps the invariant.
LEMMA KStep == KInv /\ [KNext]_vars => KInv'
<1> SUFFICES ASSUME KInv, [KNext]_vars PROVE KInv'
  OBVIOUS
<1>1. /\ kv \in GoodCaches /\ head \in 0 .. Size /\ rope \in [Cells -> Int] /\ done \in Nat
      /\ optimized \in BOOLEAN /\ result \in {NoResult, 0, 1, 2, -2}
      /\ phase \in {"idle", "place", "unwind", "compute", "returned", "dead"}
      /\ BatchFits /\ StackFits /\ PhaseFits
      /\ states \in Seq(StackEntries) /\ Len(states) \in Nat
  BY DEF KInv, KTypeOK, GoodCaches, StackFits
<1>2. Decoding => NUbatches \in Nat \ {0}
  <2>1. Decoding => batch.n \in Nat \ {0}
    BY <1>1, SizeAssumption DEF BatchFits
  <2> QED
    BY <2>1, UbatchFits
<1>3. ASSUME NEW n \in Batches, DecodeTooLong(n) PROVE KInv'
  <2>1. /\ phase = "idle" /\ phase' = "dead"
        /\ UNCHANGED <<kv, head, n_swa, batch, states, done, optimized, result, before, rope>>
    BY <1>3 DEF DecodeTooLong
  <2>2. KTypeOK' /\ Books(kv)'
    BY <1>1, <2>1, TypesStay
  <2>3. BatchFits' /\ StackFits' /\ PhaseFits'
    BY <1>1, <2>1 DEF BatchFits, StackFits, PhaseFits, Decoding
  <2> QED
    BY <2>2, <2>3 DEF KInv
<1>4. ASSUME NEW n \in Batches, NEW s \in Seqs, NEW ok \in BOOLEAN, Decode(n, s, ok)
      PROVE  KInv'
  <2>1. Begun(n, s)
    BY <1>4, DecodeDoes
  <2>2. KTypeOK' /\ Books(kv)'
    BY <1>1, <2>1, TypesStay DEF Begun
  <2>3. BatchFits'
    BY <2>1 DEF Begun, BatchFits
  <2>4. states = << >> /\ states' = << >> /\ done = 0 /\ result = NoResult
    BY <1>1, <2>1 DEF Begun, PhaseFits
  <2>5. StackFits'
    BY <2>4 DEF StackFits
  <2>6. NUbatches' \in Nat \ {0}
    <3>1. (n + UBatch - 1) \div UBatch \in Nat \ {0}
      BY <2>1, SizeAssumption, SplitEqual DEF Begun
    <3>2. NUbatches' = (n + UBatch - 1) \div UBatch
      BY <2>1 DEF Begun, NUbatches
    <3> QED
      BY <3>1, <3>2
  <2>7. PhaseFits'
    BY <2>1, <2>4, <2>6 DEF Begun, PhaseFits
  <2> QED
    BY <2>2, <2>3, <2>5, <2>7 DEF KInv
<1>5. CASE Place
  <2>1. CASE NoRoom
    <3>1. KTypeOK' /\ Books(kv)'
      BY <1>1, <2>1, TypesStay DEF NoRoom
    <3>2. /\ phase = "place" /\ phase' = "unwind" /\ batch' = batch /\ states' = states
          /\ done' = done /\ result' = result
      BY <2>1 DEF NoRoom
    <3>3. NUbatches' = NUbatches /\ \A j : ULen(j)' = ULen(j)
      BY <3>2, SameBatch
    <3>4. BatchFits'
      BY <1>1, <3>2 DEF BatchFits, Decoding
    <3>5. StackFits'
      BY <1>1, <3>2, <3>3 DEF StackFits
    <3>6. PhaseFits'
      <4> HIDE DEF NUbatches
      <4> QED
        BY <1>1, <1>2, <3>2, <3>3 DEF PhaseFits, Decoding
    <3> QED
      BY <3>1, <3>4, <3>5, <3>6 DEF KInv
  <2>2. ASSUME NEW slot, Placed(slot) PROVE KInv'
    <3>1. /\ phase = "place" /\ phase' \in {"place", "unwind"} /\ batch' = batch
          /\ phase' = (IF Len(states) + 1 = NUbatches THEN "unwind" ELSE "place")
          /\ done' = done /\ result' = result
      BY <2>2 DEF Placed
    <3>2. KTypeOK' /\ Books(kv)'
      BY <1>1, <2>2, <3>1, TypesStay DEF Placed
    <3>3. NUbatches' = NUbatches /\ \A j : ULen(j)' = ULen(j)
      BY <3>1, SameBatch
    <3>4. BatchFits'
      BY <1>1, <3>1 DEF BatchFits, Decoding
    <3>5. PICK e \in StackEntries : e.slot = slot /\ states' = Append(states, e)
      BY <2>2 DEF Placed
    <3>6. /\ states' \in Seq(StackEntries) /\ Len(states') = Len(states) + 1
          /\ \A j \in 1 .. Len(states) : states'[j] = states[j]
          /\ states'[Len(states) + 1] = e
      BY <1>1, <3>5, AppendIs
    <3>7. SlotFits(slot, Len(states) + 1)
      BY <2>2 DEF Placed
    <3>8. StackFits'
      <4>1. ASSUME NEW j \in 1 .. Len(states')
            PROVE  j <= NUbatches' /\ Len(states'[j].slot) = ULen(j)'
        <5>1. CASE j \in 1 .. Len(states)
          BY <1>1, <3>1, <3>3, <3>6, <5>1 DEF StackFits
        <5>2. CASE j = Len(states) + 1
          BY <1>2, <3>1, <3>3, <3>5, <3>6, <3>7, <5>2 DEF SlotFits, Decoding
        <5> QED
          BY <1>1, <3>6, <5>1, <5>2
      <4> QED
        BY <3>6, <4>1 DEF StackFits
    <3>9. PhaseFits'
      <4>1. Len(states) < NUbatches /\ done = 0 /\ result = NoResult /\ NUbatches \in Nat
        BY <1>1, <1>2, <3>1 DEF PhaseFits, Decoding
      <4> HIDE DEF NUbatches
      <4>2. CASE Len(states) + 1 = NUbatches
        BY <1>1, <3>1, <3>3, <3>6, <4>1, <4>2 DEF PhaseFits
      <4>3. CASE Len(states) + 1 # NUbatches
        BY <1>1, <3>1, <3>3, <3>6, <4>1, <4>3 DEF PhaseFits
      <4> QED
        BY <4>2, <4>3
    <3> QED
      BY <3>2, <3>4, <3>8, <3>9 DEF KInv
  <2> QED
    BY <1>5, <2>1, <2>2, PlaceDoes
<1>6. CASE UnwindFits \/ UnwindRefused \/ \E ok \in BOOLEAN : UnwindRetry(ok)
  <2>1. Unwound
    BY <1>6, UnwindDoes
  <2>2. /\ phase = "unwind" /\ batch' = batch /\ done' = done
        /\ \/ /\ phase' = "compute" /\ states' = states /\ Len(states) = NUbatches
              /\ result' = result /\ optimized' = optimized
           \/ /\ phase' = "returned" /\ states' = << >> /\ result' = 1 /\ optimized' = optimized
           \/ /\ phase' = "place" /\ states' = << >> /\ result' = result /\ optimized' = TRUE
    BY <1>6 DEF UnwindFits, UnwindRefused, UnwindRetry
  <2>3. KTypeOK' /\ Books(kv)'
    BY <1>1, <2>1, <2>2, TypesStay DEF Unwound
  <2>4. NUbatches' = NUbatches /\ \A j : ULen(j)' = ULen(j)
    BY <2>2, SameBatch
  <2>5. BatchFits'
    BY <1>1, <2>2 DEF BatchFits, Decoding
  <2>6. StackFits'
    <3>1. CASE states' = << >>
      BY <3>1 DEF StackFits
    <3>2. CASE phase' = "compute" /\ states' = states
      <4>1. \A j \in 1 .. Len(states) : j <= NUbatches /\ Len(states[j].slot) = ULen(j)
        BY <1>1, <2>2 DEF StackFits
      <4> QED
        BY <1>1, <2>4, <3>2, <4>1 DEF StackFits
    <3> QED
      BY <2>2, <3>1, <3>2
  <2>7. PhaseFits'
    <3>1. done = 0 /\ result = NoResult /\ NUbatches \in Nat \ {0}
      BY <1>1, <1>2, <2>2 DEF PhaseFits, Decoding
    <3> HIDE DEF NUbatches
    <3>2. CASE states' = << >>
      BY <2>2, <2>4, <3>1, <3>2 DEF PhaseFits
    <3>3. CASE phase' = "compute" /\ states' = states /\ Len(states) = NUbatches /\ result' = result
      BY <2>2, <2>4, <3>1, <3>3 DEF PhaseFits
    <3> QED
      BY <2>2, <3>2, <3>3
  <2> QED
    BY <2>3, <2>5, <2>6, <2>7 DEF KInv
<1>7. CASE ReserveFails
  <2>1. /\ phase = "compute" /\ phase' = "returned" /\ states' = << >> /\ result' = -2
        /\ UNCHANGED <<kv, head, n_swa, batch, done, optimized, before, rope>>
    BY <1>7 DEF ReserveFails
  <2>2. KTypeOK' /\ Books(kv)'
    BY <1>1, <2>1, TypesStay
  <2>3. BatchFits' /\ StackFits' /\ PhaseFits'
    BY <1>1, <2>1 DEF BatchFits, StackFits, PhaseFits, Decoding
  <2> QED
    BY <2>2, <2>3 DEF KInv
<1>8. CASE ComputeOk \/ ComputeFails
  <2>1. PICK slot : Computed(slot) \/ Aborted(slot)
    BY <1>8, ComputeDoes
  <2>2. /\ phase = "compute" /\ kv' \in GoodCaches /\ head' \in 0 .. Size
        /\ rope' \in [Cells -> Int] /\ n_swa' = n_swa /\ batch' = batch /\ optimized' = optimized
    BY <2>1 DEF Computed, Aborted, Computing
  <2>3. \/ /\ done' = done + 1 /\ done + 1 < NUbatches
           /\ phase' = phase /\ states' = states /\ result' = result
        \/ phase' = "returned" /\ states' = << >> /\ result' \in {0, 2} /\ done' \in Nat
    BY <1>1, <2>1 DEF Computed, Aborted
  <2>4. KTypeOK' /\ Books(kv)'
    BY <1>1, <2>2, <2>3, TypesStay
  <2>5. NUbatches' = NUbatches /\ \A j : ULen(j)' = ULen(j)
    BY <2>2, SameBatch
  <2>6. BatchFits'
    BY <1>1, <2>2, <2>3 DEF BatchFits, Decoding
  <2>7. StackFits'
    <3>1. CASE states' = << >> /\ phase' = "returned"
      BY <3>1 DEF StackFits
    <3>2. CASE phase' = phase /\ states' = states
      <4>1. \A j \in 1 .. Len(states) : j <= NUbatches /\ Len(states[j].slot) = ULen(j)
        BY <1>1, <2>2 DEF StackFits
      <4> QED
        BY <1>1, <2>2, <2>5, <3>2, <4>1 DEF StackFits
    <3> QED
      BY <2>3, <3>1, <3>2
  <2>8. PhaseFits'
    <3> HIDE DEF NUbatches
    <3>1. CASE states' = << >> /\ phase' = "returned"
      BY <3>1 DEF PhaseFits
    <3>2. CASE /\ done' = done + 1 /\ done + 1 < NUbatches
               /\ phase' = phase /\ states' = states /\ result' = result
      BY <1>1, <2>2, <2>5, <3>2 DEF PhaseFits
    <3> QED
      BY <2>3, <3>1, <3>2
  <2> QED
    BY <2>4, <2>6, <2>7, <2>8 DEF KInv
<1>9. CASE Return
  <2>1. /\ phase = "returned" /\ phase' = "idle" /\ done' = 0 /\ optimized' = FALSE
        /\ result' = NoResult /\ rope' = KeysOf(kv, rope) /\ UNCHANGED <<kv, head, n_swa, states>>
    BY <1>9 DEF Return
  <2>2. rope' \in [Cells -> Int]
    BY <1>1, <2>1 DEF KeysOf
  <2>3. KTypeOK' /\ Books(kv)'
    BY <1>1, <2>1, <2>2, TypesStay
  <2>4. BatchFits' /\ StackFits' /\ PhaseFits'
    BY <1>1, <2>1 DEF BatchFits, StackFits, PhaseFits, Decoding
  <2> QED
    BY <2>3, <2>4 DEF KInv
<1>10. CASE CallerEdits
  <2>1. EditGood
    BY <1>10, CallerEditsGood
  <2>2. KTypeOK' /\ Books(kv)'
    BY <1>1, <2>1, TypesStay DEF EditGood
  <2>3. BatchFits' /\ StackFits' /\ PhaseFits'
    BY <1>1, <2>1 DEF BatchFits, StackFits, PhaseFits, Decoding, EditGood
  <2> QED
    BY <2>2, <2>3 DEF KInv
<1>11. CASE UNCHANGED vars
  <2>1. UNCHANGED <<kv, head, n_swa, phase, batch, states, done, optimized, result, before, rope>>
    BY <1>11 DEF vars
  <2>2. KTypeOK' /\ Books(kv)'
    BY <1>1, <2>1, TypesStay
  <2>3. NUbatches' = NUbatches /\ \A j : ULen(j)' = ULen(j)
    BY <2>1, SameBatch
  <2>4. BatchFits' /\ StackFits'
    BY <1>1, <2>1, <2>3 DEF BatchFits, StackFits, Decoding
  <2>5. PhaseFits'
    BY <1>1, <2>1, <2>3 DEF PhaseFits
  <2> QED
    BY <2>2, <2>4, <2>5 DEF KInv
<1> QED
  BY <1>3, <1>4, <1>5, <1>6, <1>7, <1>8, <1>9, <1>10, <1>11 DEF KNext, DecodeStep, Dead

\* The decoder's state keeps its shape: the inductive invariant.
THEOREM KvInvariant == KSpec => []KInv
<1> QED
  BY KStart, KStep, PTL DEF KSpec

\* Cells, books and the decoder's state have their types.
THEOREM KTypeCorrect == KSpec => []KTypeOK
<1>1. KInv => KTypeOK
  BY DEF KInv
<1> QED
  BY <1>1, KvInvariant, PTL

\* llama_kv_cells: the set of used cells and the counts of every sequence agree with the
\* cells, through every trial, retreat, failure and edit.
THEOREM BooksCorrect == KSpec => []BooksBalance
<1>1. KInv => BooksBalance
  BY DEF KInv, BooksBalance
<1> QED
  BY <1>1, KvInvariant, PTL

\* Every step of a decode leaves less to do.
LEMMA KAhead ==
    ASSUME KInv, KNext
    PROVE  GetsAhead
<1> SUFFICES ASSUME phase \in {"place", "unwind", "compute"}
             PROVE  Remaining' < Remaining /\ Remaining' >= 0
  BY DEF GetsAhead
<1> DEFINE N == NUbatches
           w == N + 2
           tries == IF optimized THEN w ELSE 3 * w
<1>1. /\ Remaining = CASE phase = "place"   -> tries + N - Len(states)
                       [] phase = "unwind"  -> tries
                       [] phase = "compute" -> N - done
                       [] OTHER             -> 0
      /\ Remaining' = CASE phase' = "place"   -> tries' + N' - Len(states')
                        [] phase' = "unwind"  -> tries'
                        [] phase' = "compute" -> N' - done'
                        [] OTHER              -> 0
  BY DEF Remaining
<1>2. batch' = batch => N' = N
  BY SameBatch
<1>3. N \in Nat \ {0}
  <2>1. batch.n \in Nat \ {0}
    BY SizeAssumption DEF KInv, BatchFits, Decoding
  <2> QED
    BY <2>1, UbatchFits
<1>4. /\ done \in Nat /\ optimized \in BOOLEAN /\ states \in Seq(StackEntries) /\ Len(states) \in Nat
      /\ phase = "place" => done = 0 /\ Len(states) < N
      /\ phase = "unwind" => done = 0
      /\ phase = "compute" => Len(states) = N /\ done < N
  BY DEF KInv, KTypeOK, StackFits, PhaseFits
<1> HIDE DEF N
<1>5. w \in Nat /\ tries \in Nat /\ tries >= w
  BY <1>3
<1>6. CASE Place
  <2>1. CASE NoRoom
    <3>1. /\ phase = "place" /\ phase' = "unwind" /\ batch' = batch
          /\ optimized' = optimized
      BY <2>1 DEF NoRoom
    <3> QED
      BY <1>1, <1>2, <1>3, <1>4, <1>5, <3>1
  <2>2. ASSUME NEW slot, Placed(slot) PROVE Remaining' < Remaining /\ Remaining' >= 0
    <3>1. /\ phase = "place" /\ batch' = batch /\ optimized' = optimized
          /\ phase' = IF Len(states) + 1 = N THEN "unwind" ELSE "place"
      BY <2>2 DEF Placed, N
    <3>2. PICK e \in StackEntries : states' = Append(states, e)
      BY <2>2 DEF Placed
    <3>3. Len(states') = Len(states) + 1
      BY <1>4, <3>2, AppendIs
    <3>4. tries' = tries /\ N' = N
      BY <1>2, <3>1
    <3> HIDE DEF tries
    <3>5. CASE Len(states) + 1 = N
      BY <1>1, <1>3, <1>4, <1>5, <3>1, <3>4, <3>5
    <3>6. CASE Len(states) + 1 # N
      BY <1>1, <1>3, <1>4, <1>5, <3>1, <3>3, <3>4, <3>6
    <3> QED
      BY <3>5, <3>6
  <2> QED
    BY <1>6, <2>1, <2>2, PlaceDoes
<1>7. CASE UnwindFits
  <2>1. phase = "unwind" /\ phase' = "compute" /\ batch' = batch /\ done' = done
    BY <1>7 DEF UnwindFits
  <2> QED
    BY <1>1, <1>2, <1>3, <1>4, <1>5, <2>1
<1>8. CASE UnwindRefused
  <2>1. phase = "unwind" /\ phase' = "returned"
    BY <1>8 DEF UnwindRefused
  <2> QED
    BY <1>1, <1>3, <1>5, <2>1
<1>9. CASE \E ok \in BOOLEAN : UnwindRetry(ok)
  <2>1. /\ phase = "unwind" /\ phase' = "place" /\ batch' = batch /\ states' = << >>
        /\ optimized = FALSE /\ optimized' = TRUE
    BY <1>4, <1>9 DEF UnwindRetry
  <2>2. Remaining = 3 * w /\ Remaining' = w + N
    <3>1. Len(states') = 0 /\ N' = N
      BY <1>2, <2>1
    <3>2. tries' = w
      BY <2>1, <3>1
    <3>3. tries = 3 * w
      BY <2>1
    <3> HIDE DEF tries
    <3> QED
      BY <1>1, <1>3, <2>1, <3>1, <3>2, <3>3
  <2> QED
    BY <1>3, <2>2
<1>10. CASE ComputeOk \/ ComputeFails
  <2>1. PICK slot : Computed(slot) \/ Aborted(slot)
    BY <1>10, ComputeDoes
  <2>2. phase = "compute" /\ batch' = batch
    BY <2>1 DEF Computed, Aborted, Computing
  <2>3. \/ done' = done + 1 /\ done + 1 < N /\ phase' = phase
        \/ phase' = "returned"
    BY <2>1 DEF Computed, Aborted, N
  <2> HIDE DEF tries
  <2> QED
    BY <1>1, <1>2, <1>3, <1>4, <2>2, <2>3
<1>11. CASE ReserveFails
  <2>1. phase = "compute" /\ phase' = "returned"
    BY <1>11 DEF ReserveFails
  <2> HIDE DEF tries
  <2> QED
    BY <1>1, <1>3, <1>4, <2>1
<1>12. ~\E n \in Batches : DecodeTooLong(n)
  BY DEF DecodeTooLong
<1>13. ~\E n \in Batches, s \in Seqs, ok \in BOOLEAN : Decode(n, s, ok)
  BY DEF Decode
<1>14. ~CallerEdits
  BY CallerEditsGood DEF EditGood
<1> QED
  BY <1>6, <1>7, <1>8, <1>9, <1>10, <1>11, <1>12, <1>13, <1>14 DEF KNext, DecodeStep, Return, Dead

\* llama_decode returns: a bound on what is left to do falls with every step of it, through
\* the trial, the one retry and the loop over the ubatches.
THEOREM ReturnsCorrect == KSpec => DecodeReturns
<1>1. KInv /\ [KNext]_vars => [GetsAhead]_vars
  BY KAhead
<1> QED
  BY <1>1, KvInvariant, PTL DEF KSpec, DecodeReturns

-----------------------------------------------------------------------------
(* Refusal.                                                                *)

\* A ubatch takes no empty cells but those of its slot.
LEMMA TakesSlot ==
    ASSUME NEW k, NEW r, NEW slot \in Seq(Cells), NEW first, NEW s0,
           Applied(r, k, slot, first, s0)
    PROVE  Cardinality(Empties(k)) <= Cardinality(Empties(r)) + Len(slot)
<1> DEFINE A == Empties(k)
           B == Empties(r)
           S == ToSet(slot)
<1>1. /\ IsFiniteSet(A) /\ Cardinality(A) \in Nat /\ IsFiniteSet(B) /\ Cardinality(B) \in Nat
      /\ IsFiniteSet(S) /\ Cardinality(S) \in Nat /\ Cardinality(S) <= Len(slot) /\ Len(slot) \in Nat
  BY EmptiesFinite, SeqCardinality
<1>2. A \subseteq B \union S
  BY DEF Applied, Shrunk, Empties
<1> HIDE DEF A, B, S
<1>3. /\ IsFiniteSet(B \union S) /\ Cardinality(B \union S) \in Nat
      /\ Cardinality(B \union S) <= Cardinality(B) + Cardinality(S)
  <2>1. /\ Cardinality(B \union S) = Cardinality(B) + Cardinality(S) - Cardinality(B \intersect S)
        /\ IsFiniteSet(B \union S)
    BY <1>1, FS_Union
  <2>2. Cardinality(B \intersect S) \in Nat
    BY <1>1, FS_Intersection, FS_CardinalityType
  <2> QED
    BY <1>1, <2>1, <2>2, FS_CardinalityType
<1>4. Cardinality(A) <= Cardinality(B \union S)
  BY <1>2, <1>3, FS_Subset
<1> QED
  BY <1>1, <1>3, <1>4 DEF A, B

\* Every step keeps what is known of the empty cells.
LEMMA TakenStep == KInv /\ CellsTaken /\ [KNext]_vars => CellsTaken'
<1> SUFFICES ASSUME KInv, CellsTaken, [KNext]_vars PROVE CellsTaken'
  OBVIOUS
<1> DEFINE free == Cardinality(Empties(before))
<1>0. /\ free \in Nat /\ free' \in Nat /\ Cardinality(Empties(kv)) \in Nat
      /\ Cardinality(Empties(kv')) \in Nat
  BY EmptiesFinite
<1>1. /\ phase = "place" => \/ free < batch.n
                            \/ free <= Cardinality(Empties(kv)) + Len(states) * UBatch
      /\ phase = "unwind" /\ Len(states) < NUbatches => free < batch.n
      /\ result = 1 => free < batch.n
  BY DEF CellsTaken
<1>2. /\ phase = "place" => \/ free < batch.n
                            \/ free <= Cardinality(Empties(kv)) + Len(states) * UBatch
      /\ phase = "unwind" /\ Len(states) < NUbatches => free < batch.n
      /\ result = 1 => free < batch.n
  BY <1>1
<1>3. CellsTaken' <=>
      /\ phase' = "place" => \/ free' < batch'.n
                             \/ free' <= Cardinality(Empties(kv')) + Len(states') * UBatch
      /\ phase' = "unwind" /\ Len(states') < NUbatches' => free' < batch'.n
      /\ result' = 1 => free' < batch'.n
  BY DEF CellsTaken
<1>4. before' = before => free' = free
  OBVIOUS
<1>5. /\ states \in Seq(StackEntries) /\ Len(states) \in Nat /\ UBatch \in Nat
      /\ phase \in {"idle", "dead"} => states = << >>
      /\ phase # "returned" => result = NoResult
      /\ phase = "place" => Len(states) < NUbatches
      /\ phase = "unwind" => Len(states) <= NUbatches
  BY BatchAssumption DEF KInv, StackFits, PhaseFits
<1>6. NoResult # 1
  BY DEF NoResult
<1> HIDE DEF free
<1>7. ASSUME NEW n \in Batches, DecodeTooLong(n) PROVE CellsTaken'
  BY <1>3, <1>5, <1>6, <1>7 DEF DecodeTooLong
<1>8. ASSUME NEW n \in Batches, NEW s \in Seqs, NEW ok \in BOOLEAN, Decode(n, s, ok)
      PROVE  CellsTaken'
  <2>1. Begun(n, s)
    BY <1>8, DecodeDoes
  <2>2. /\ phase = "idle" /\ phase' = "place" /\ states' = states /\ result' = result
        /\ kv'.pos = kv.pos /\ before' = Cp(kv, Cells)
    BY <2>1 DEF Begun
  <2>3. Len(states') = 0 /\ result' # 1
    BY <1>5, <1>6, <2>2
  <2>4. Empties(before') = Empties(kv')
    <3>1. \A i \in Cells : before'.pos[i] = kv.pos[i]
      BY <2>2 DEF Cp
    <3> QED
      BY <2>2, <3>1 DEF Empties
  <2>5. free' <= Cardinality(Empties(kv')) + Len(states') * UBatch
    <3>1. Len(states') * UBatch = 0
      BY <1>5, <2>3
    <3>2. free' = Cardinality(Empties(kv'))
      BY <2>4 DEF free
    <3> QED
      BY <1>0, <3>1, <3>2
  <2> QED
    BY <1>3, <2>2, <2>3, <2>5
<1>9. CASE Place
  <2>0. phase = "place" /\ batch.n \in Nat \ {0} /\ Len(states) + 1 \in 1 .. NUbatches
    <3>1. phase = "place"
      BY <1>9 DEF Place
    <3>2. batch.n \in Nat \ {0}
      BY <3>1, SizeAssumption DEF KInv, BatchFits, Decoding
    <3>3. NUbatches \in Nat \ {0}
      BY <3>2, UbatchFits
    <3> HIDE DEF NUbatches
    <3> QED
      BY <1>5, <3>1, <3>2, <3>3
  <2> DEFINE j == Len(states) + 1
             q == Len(states) * UBatch
  <2>1. /\ ULen(j) \in 1 .. UBatch /\ q \in Nat /\ q + ULen(j) <= batch.n
        /\ j < NUbatches => ULen(j) = UBatch
    <3>1. (j - 1) * UBatch = q
      BY <1>5
    <3>2. j \in 1 .. NUbatches
      BY <2>0
    <3> HIDE DEF j, q
    <3> QED
      BY <2>0, <3>1, <3>2, UbatchFits
  <2>2. free < batch.n \/ free <= Cardinality(Empties(kv)) + q
    BY <1>2, <2>0
  <2>3. CASE NoRoom
    <3>1. /\ phase' = "unwind" /\ batch' = batch /\ before' = before /\ result' = result
          /\ Cardinality(Empties(kv)) < ULen(j)
      BY <2>3 DEF NoRoom
    <3> HIDE DEF q
    <3>2. free < batch.n
      BY <1>0, <1>5, <2>0, <2>1, <2>2, <3>1
    <3> QED
      BY <1>3, <1>4, <1>5, <1>6, <2>0, <3>1, <3>2
  <2>4. ASSUME NEW slot, Placed(slot) PROVE CellsTaken'
    <3>1. /\ batch' = batch /\ before' = before /\ result' = result /\ SlotFits(slot, j)
          /\ Applied(kv', kv, slot, UFirst(j), batch.seq)
          /\ phase' = IF j = NUbatches THEN "unwind" ELSE "place"
      BY <2>4 DEF Placed
    <3>2. PICK e \in StackEntries : states' = Append(states, e)
      BY <2>4 DEF Placed
    <3>3. Len(states') = Len(states) + 1
      BY <1>5, <3>2, AppendIs
    <3>4. Cardinality(Empties(kv)) <= Cardinality(Empties(kv')) + Len(slot)
      BY <3>1, TakesSlot DEF SlotFits
    <3>5. Len(slot) = ULen(j) /\ Len(slot) \in Nat
      BY <3>1 DEF SlotFits
    <3>6. NUbatches' = NUbatches
      BY <3>1, SameBatch
    <3>7. free < batch.n \/ free <= Cardinality(Empties(kv')) + Len(states') * UBatch
      <4>1. Len(states') * UBatch = q + UBatch
        BY <1>5, <3>3
      <4> HIDE DEF q
      <4> QED
        BY <1>0, <1>5, <2>1, <2>2, <3>4, <3>5, <4>1
    <3>8. result' # 1
      BY <1>5, <1>6, <2>0, <3>1
    <3>9. CASE j = NUbatches
      BY <1>3, <1>5, <3>1, <3>3, <3>6, <3>8, <3>9
    <3>10. CASE j # NUbatches
      BY <1>3, <1>4, <3>1, <3>7, <3>8, <3>10
    <3> QED
      BY <3>9, <3>10
  <2> QED
    BY <1>9, <2>3, <2>4, PlaceDoes
<1>10. CASE UnwindFits
  BY <1>3, <1>5, <1>6, <1>10 DEF UnwindFits
<1>11. CASE UnwindRefused
  BY <1>2, <1>3, <1>4, <1>11 DEF UnwindRefused
<1>12. CASE \E ok \in BOOLEAN : UnwindRetry(ok)
  <2>1. /\ phase = "unwind" /\ Len(states) < NUbatches /\ phase' = "place"
        /\ batch' = batch /\ before' = before /\ result' = result
    BY <1>12 DEF UnwindRetry
  <2> QED
    BY <1>2, <1>3, <1>4, <1>5, <1>6, <2>1
<1>13. CASE ReserveFails
  BY <1>3, <1>13 DEF ReserveFails
<1>14. CASE ComputeOk \/ ComputeFails
  <2>1. PICK slot : Computed(slot) \/ Aborted(slot)
    BY <1>14, ComputeDoes
  <2>2. phase = "compute"
    BY <2>1 DEF Computed, Aborted, Computing
  <2>3. \/ phase' = phase /\ result' = result
        \/ phase' = "returned" /\ result' \in {0, 2}
    BY <2>1 DEF Computed, Aborted
  <2> QED
    BY <1>3, <1>5, <1>6, <2>2, <2>3
<1>15. CASE Return
  BY <1>3, <1>6, <1>15 DEF Return
<1>16. CASE CallerEdits
  <2>1. phase = "idle" /\ phase' = phase /\ result' = result
    BY <1>16, CallerEditsGood DEF EditGood
  <2> QED
    BY <1>3, <1>5, <1>6, <2>1
<1>17. CASE UNCHANGED vars
  <2>1. /\ kv' = kv /\ phase' = phase /\ batch' = batch /\ states' = states /\ result' = result
        /\ before' = before
    BY <1>17 DEF vars
  <2>2. NUbatches' = NUbatches
    BY <2>1, SameBatch
  <2> QED
    BY <1>2, <1>3, <1>4, <2>1, <2>2
<1> QED
  BY <1>7, <1>8, <1>9, <1>10, <1>11, <1>12, <1>13, <1>14, <1>15, <1>16, <1>17
     DEF KNext, DecodeStep, Dead

\* A batch is only refused when there were fewer empty cells than it has tokens, wherever
\* the search starts and however the cells are scattered.
THEOREM RefusalCorrect == KSpec => []RefusalMeansFull
<1>1. KInit => CellsTaken
  BY DEF KInit, CellsTaken, NoResult
<1>2. CellsTaken => RefusalMeansFull
  BY DEF CellsTaken, RefusalMeansFull, Empties
<1> QED
  BY <1>1, <1>2, TakenStep, KvInvariant, PTL DEF KSpec

-----------------------------------------------------------------------------
(* Positions.                                                              *)

\* The trial ends: with room for the batch, or it is refused, or tried once more.
Fitted  == Unwound /\ phase' = "compute" /\ states' = states /\ result' = result
Refused == Unwound /\ phase' = "returned" /\ states' = << >> /\ result' = 1
Retried == Unwound /\ phase' = "place" /\ states' = << >> /\ result' = result

\* The computation does not begin.
NoOutput ==
    /\ phase = "compute" /\ done = 0 /\ phase' = "returned" /\ states' = << >> /\ result' = -2
    /\ UNCHANGED <<kv, n_swa, batch, done, before, rope>>

\* Nothing is decoded, before the step or after it.
Leaves ==
    /\ phase \in {"idle", "returned"} /\ phase' \in {"idle", "dead"}
    /\ states' = << >> /\ result' = NoResult /\ n_swa' = n_swa /\ EditKeys

\* The steps, by what they do.
StepIs ==
    \/ \E n \in Batches, s \in Seqs : Begun(n, s)
    \/ NoRoom
    \/ \E slot : Placed(slot)
    \/ Fitted \/ Refused \/ Retried
    \/ \E slot : Computed(slot) \/ Aborted(slot)
    \/ NoOutput
    \/ Leaves
    \/ UNCHANGED vars

\* Every step of the decoder, told by what the arguments below use of it.
LEMMA StepDoes ==
    ASSUME KInv, [KNext]_vars
    PROVE  StepIs
<1>1. /\ kv \in GoodCaches /\ rope \in [Cells -> Int] /\ PhaseFits
  BY DEF KInv, KTypeOK, GoodCaches
<1>2. ASSUME NEW n \in Batches, DecodeTooLong(n) PROVE Leaves
  <2>1. /\ phase = "idle" /\ phase' = "dead" /\ UNCHANGED <<kv, n_swa, states, result, rope>>
    BY <1>2 DEF DecodeTooLong
  <2>2. states = << >> /\ result = NoResult
    BY <1>1, <2>1 DEF PhaseFits
  <2>3. EditKeys
    BY <2>1 DEF EditKeys, KeyOk
  <2> QED
    BY <2>1, <2>2, <2>3 DEF Leaves
<1>3. ASSUME Return PROVE Leaves
  <2>1. /\ phase = "returned" /\ phase' = "idle" /\ result' = NoResult
        /\ rope' = KeysOf(kv, rope) /\ UNCHANGED <<kv, n_swa, states>>
    BY <1>3 DEF Return
  <2>2. states = << >>
    BY <1>1, <2>1 DEF PhaseFits
  <2>3. \A i \in Cells : kv.pos[i] # -1 => rope'[i] = rope[i]
    BY <2>1 DEF KeysOf, IsEmpty
  <2>4. EditKeys
    BY <2>1, <2>3 DEF EditKeys, KeyOk
  <2> QED
    BY <2>1, <2>2, <2>4 DEF Leaves
<1>4. ASSUME CallerEdits PROVE Leaves
  <2>1. EditGood /\ EditKeys
    BY <1>4, CallerEditsGood
  <2>2. states = << >> /\ result = NoResult
    BY <1>1, <2>1 DEF EditGood, PhaseFits
  <2> QED
    BY <2>1, <2>2 DEF EditGood, Leaves
<1>5. UnwindFits => Fitted
  BY UnwindDoes DEF UnwindFits, Fitted
<1>6. UnwindRefused => Refused
  BY UnwindDoes DEF UnwindRefused, Refused
<1>7. (\E ok \in BOOLEAN : UnwindRetry(ok)) => Retried
  BY UnwindDoes DEF UnwindRetry, Retried
<1>8. ReserveFails => NoOutput
  BY DEF ReserveFails, NoOutput
<1>9. Place => NoRoom \/ \E slot : Placed(slot)
  BY PlaceDoes
<1>10. ComputeOk \/ ComputeFails => \E slot : Computed(slot) \/ Aborted(slot)
  BY ComputeDoes
<1>11. \A n \in Batches, s \in Seqs, ok \in BOOLEAN : Decode(n, s, ok) => Begun(n, s)
  BY DecodeDoes
<1>12. CASE KNext
  BY <1>2, <1>3, <1>4, <1>5, <1>6, <1>7, <1>8, <1>9, <1>10, <1>11, <1>12
     DEF KNext, DecodeStep, Dead, StepIs
<1> QED
  BY <1>12 DEF StepIs

\* A cell that was in a slot was in one first.
LEMMA FirstSlot ==
    ASSUME NEW i, Len(states) \in Nat, InSlot(i, 1 .. Len(states))
    PROVE  \E j \in 1 .. Len(states) :
             /\ i \in ToSet(states[j].slot) /\ ~InSlot(i, 1 .. (j - 1))
             /\ \A m \in 1 .. Len(states) : m < j => i \notin ToSet(states[m].slot)
<1> DEFINE J == {j \in 1 .. Len(states) : i \in ToSet(states[j].slot)}
<1>1. J # {} /\ J \subseteq 1 .. Len(states)
  BY DEF InSlot
<1>2. Min(J) \in J
  <2> HIDE DEF J
  <2> QED
    BY <1>1, PickMax
<1>3. \A y \in J : Min(J) <= y
  <2>1. IsFiniteSet(J) /\ J \subseteq Int
    <3>1. IsFiniteSet(1 .. Len(states))
      BY FS_Interval
    <3> HIDE DEF J
    <3>2. \A x \in 1 .. Len(states) : x \in Int
      OBVIOUS
    <3> DEFINE A == 1 .. Len(states)
    <3> HIDE DEF A
    <3>3. IsFiniteSet(J)
      <4>1. IsFiniteSet(A) /\ J \subseteq A
        BY <1>1, <3>1 DEF A
      <4> QED
        BY <4>1, FS_Subset
    <3> QED
      BY <1>1, <3>2, <3>3
  <2> HIDE DEF J
  <2> QED
    BY <1>1, <2>1, Ends
<1> DEFINE j == Min(J)
<1> HIDE DEF j
<1>4. j \in J /\ \A y \in J : j <= y
  BY <1>2, <1>3 DEF j
<1>5. \A m \in 1 .. Len(states) : m < j => m \notin J
  BY <1>4
<1>6. \A m \in 1 .. (j - 1) : m \in 1 .. Len(states) /\ m < j
  BY <1>4
<1> QED
  BY <1>4, <1>5, <1>6 DEF InSlot

\* What the taking back of a trial leaves in a cell: what it had, or what it had before
\* the first slot it was in.
LEMMA UnwoundCell ==
    ASSUME KInv, Unwound, NEW i \in Cells
    PROVE  \/ /\ ~InSlot(i, 1 .. Len(states))
              /\ kv'.pos[i] = kv.pos[i] /\ kv'.seq[i] = kv.seq[i]
              /\ kv.pos[i] # -1 /\ KeyOk(rope, kv, i) => KeyOk(rope', kv', i)
           \/ \E j \in 1 .. Len(states) :
                /\ i \in ToSet(states[j].slot) /\ ~InSlot(i, 1 .. (j - 1))
                /\ kv'.pos[i] = states[j].old.pos[i] /\ kv'.seq[i] = states[j].old.seq[i]
<1>1. Len(states) \in Nat
  BY DEF KInv, StackFits
<1>2. PICK r \in GoodCaches :
        /\ Unplaced(r, kv, 1 .. Len(states)) /\ kv'.pos = r.pos /\ kv'.seq = r.seq
        /\ r.pos[i] # -1 /\ KeyOk(rope, r, i) => KeyOk(rope', kv', i)
  BY DEF Unwound
<1>3. CASE InSlot(i, 1 .. Len(states))
  <2>1. PICK j \in 1 .. Len(states) :
             /\ i \in ToSet(states[j].slot) /\ ~InSlot(i, 1 .. (j - 1))
             /\ \A m \in 1 .. Len(states) : m < j => i \notin ToSet(states[m].slot)
    BY <1>1, <1>3, FirstSlot
  <2>2. Back(r, states[j].old, kv, i)
    BY <1>2, <2>1 DEF Unplaced
  <2> QED
    BY <1>2, <2>1, <2>2 DEF Back
<1>4. CASE ~InSlot(i, 1 .. Len(states))
  <2>1. Untouched(r, kv, i)
    BY <1>2, <1>4 DEF Unplaced, InSlot
  <2>2. KeyOk(rope, kv, i) => KeyOk(rope, r, i)
    BY <2>1 DEF Untouched, KeyOk
  <2> QED
    BY <1>2, <1>4, <2>1, <2>2 DEF Untouched
<1> QED
  BY <1>3, <1>4

\* The stack of a trial that went one ubatch further.
LEMMA PlacedStack ==
    ASSUME KInv, NEW slot, Placed(slot)
    PROVE  /\ Len(states) \in Nat /\ Len(states') = Len(states) + 1
           /\ \A j \in 1 .. Len(states) : states'[j] = states[j]
           /\ states'[Len(states) + 1].slot = slot
           /\ \A i \in ToSet(slot) : LET old == states'[Len(states) + 1].old
                                     IN  old.pos[i] = kv.pos[i] /\ old.seq[i] = kv.seq[i]
           /\ \A j \in 0 .. Len(states) : \A i : InSlot(i, 1 .. j)' <=> InSlot(i, 1 .. j)
           /\ \A i : InSlot(i, 1 .. Len(states))' <=> InSlot(i, 1 .. Len(states)) \/ i \in ToSet(slot)
<1>1. states \in Seq(StackEntries)
  BY DEF KInv, StackFits
<1>2. PICK e \in StackEntries :
        /\ e.slot = slot /\ states' = Append(states, e)
        /\ \A i \in ToSet(slot) : e.old.pos[i] = kv.pos[i] /\ e.old.seq[i] = kv.seq[i]
  BY DEF Placed
<1>3. /\ Len(states) \in Nat /\ Len(states') = Len(states) + 1
      /\ \A j \in 1 .. Len(states) : states'[j] = states[j]
      /\ states'[Len(states) + 1] = e
  BY <1>1, <1>2, AppendIs
<1>4. \A j \in 0 .. Len(states) : \A i : InSlot(i, 1 .. j)' <=> InSlot(i, 1 .. j)
  <2> SUFFICES ASSUME NEW j \in 0 .. Len(states), NEW i
               PROVE  InSlot(i, 1 .. j)' <=> InSlot(i, 1 .. j)
    OBVIOUS
  <2>1. \A m \in 1 .. j : states'[m] = states[m]
    BY <1>3
  <2> QED
    BY <2>1 DEF InSlot
<1>5. \A i : InSlot(i, 1 .. Len(states))' <=> InSlot(i, 1 .. Len(states)) \/ i \in ToSet(slot)
  <2> SUFFICES ASSUME NEW i
               PROVE  InSlot(i, 1 .. Len(states))' <=> InSlot(i, 1 .. Len(states)) \/ i \in ToSet(slot)
    OBVIOUS
  <2>1. 1 .. Len(states') = 1 .. Len(states) \union {Len(states) + 1}
    BY <1>3
  <2>2. InSlot(i, 1 .. Len(states))' <=> \E m \in 1 .. Len(states') : i \in ToSet(states'[m].slot)
    BY DEF InSlot
  <2> QED
    BY <1>2, <1>3, <2>1, <2>2 DEF InSlot
<1> QED
  BY <1>2, <1>3, <1>4, <1>5

\* Below a position, wherever the cell ended up.
LEMMA BelowStays ==
    ASSUME NEW k, NEW r, NEW i, NEW p, batch' = batch, Below(k, i, p),
           r.pos[i] = k.pos[i], r.seq[i] \subseteq k.seq[i]
    PROVE  Below(r, i, p) /\ (Below(r, i, p))'
  BY DEF Below

\* After a trial that was taken back they are new.
LEMMA UnwoundNew ==
    ASSUME KInv, PositionsAreNew, Unwound
    PROVE  \A i \in Cells : Below(kv, i, batch.first)'
<1>1. phase = "unwind" /\ batch' = batch
  BY DEF Unwound
<1> SUFFICES ASSUME NEW i \in Cells PROVE Below(kv, i, batch.first)'
  OBVIOUS
<1>2. CASE /\ ~InSlot(i, 1 .. Len(states))
           /\ kv'.pos[i] = kv.pos[i] /\ kv'.seq[i] = kv.seq[i]
  BY <1>1, <1>2 DEF Below, PositionsAreNew
<1>3. ASSUME NEW j \in 1 .. Len(states), i \in ToSet(states[j].slot), ~InSlot(i, 1 .. (j - 1)),
             kv'.pos[i] = states[j].old.pos[i], kv'.seq[i] = states[j].old.seq[i]
      PROVE  Below(kv, i, batch.first)'
  BY <1>1, <1>3 DEF Below, PositionsAreNew
<1> QED
  BY <1>2, <1>3, UnwoundCell

\* Every step keeps the positions of the batch new to its sequence.
LEMMA NewStep == KInv /\ PositionsAreNew /\ [KNext]_vars => PositionsAreNew'
<1> SUFFICES ASSUME KInv, PositionsAreNew, [KNext]_vars PROVE PositionsAreNew'
  OBVIOUS
<1>1. /\ kv \in GoodCaches /\ states \in Seq(StackEntries) /\ Len(states) \in Nat /\ done \in Nat
      /\ phase # "returned" => result = NoResult
      /\ phase \in {"idle", "returned", "dead"} => states = << >>
      /\ phase = "unwind" => done = 0
      /\ Decoding => /\ batch.seq \in Seqs /\ batch.n \in Nat \ {0} /\ batch.first \in Nat
                     /\ batch.first + batch.n - 1 <= MaxPos
  BY SizeAssumption DEF KInv, KTypeOK, GoodCaches, StackFits, PhaseFits, BatchFits
<1>2. NoResult # 0
  BY DEF NoResult
<1>3. /\ phase \in {"place", "unwind"} =>
           /\ \A i \in Cells : ~InSlot(i, 1 .. Len(states)) => Below(kv, i, batch.first)
           /\ \A j \in 1 .. Len(states) : \A i \in ToSet(states[j].slot) :
                ~InSlot(i, 1 .. (j - 1)) => Below(states[j].old, i, batch.first)
      /\ phase = "compute" => \A i \in Cells : Below(kv, i, UFirst(done + 1))
      /\ result = 0 => SeqPosMax(kv, batch.seq) = batch.first + batch.n - 1
  BY DEF PositionsAreNew
<1>4. ASSUME phase' \notin {"place", "unwind", "compute"}, result' # 0 PROVE PositionsAreNew'
  BY <1>4 DEF PositionsAreNew
<1>5. ASSUME NEW n \in Batches, NEW s \in Seqs, Begun(n, s) PROVE PositionsAreNew'
  <2>1. /\ phase = "idle" /\ phase' = "place" /\ states' = states /\ result' = result
        /\ SeqEndsAt(kv, s, Start(s) - 1) /\ Start(s) \in Nat
        /\ batch' = [seq |-> s, first |-> Start(s), n |-> n]
        /\ kv'.pos = kv.pos /\ kv'.seq = kv.seq
    BY <1>5 DEF Begun
  <2>2. states' = << >> /\ result' # 0
    BY <1>1, <1>2, <2>1
  <2>3. batch'.seq = s /\ batch'.first = Start(s)
    BY <2>1
  <2>4. \A i \in Cells : kv.pos[i] \in Int
    BY <1>1, GoodTypes
  <2>5. \A i \in Cells : Below(kv, i, batch.first)'
    <3> SUFFICES ASSUME NEW i \in Cells, s \in kv.seq[i] PROVE kv.pos[i] < Start(s)
      BY <2>1, <2>3 DEF Below
    <3>1. kv.pos[i] <= Start(s) - 1
      BY <2>1 DEF SeqEndsAt
    <3> QED
      BY <2>1, <2>4, <3>1
  <2> QED
    BY <2>1, <2>2, <2>5 DEF PositionsAreNew
<1>6. CASE NoRoom
  <2>1. /\ phase = "place" /\ phase' = "unwind"
        /\ UNCHANGED <<kv, batch, states, done, result>>
    BY <1>6 DEF NoRoom
  <2>2. result' # 0
    BY <1>1, <1>2, <2>1
  <2> QED
    BY <1>3, <2>1, <2>2 DEF PositionsAreNew, InSlot, Below
<1>7. ASSUME NEW slot, Placed(slot) PROVE PositionsAreNew'
  <2> DEFINE j == Len(states) + 1
  <2>1. /\ phase = "place" /\ phase' \in {"place", "unwind"} /\ batch' = batch /\ result' = result
        /\ kv' \in GoodCaches /\ Applied(kv', kv, slot, UFirst(j), batch.seq) /\ SlotFits(slot, j)
    BY <1>7 DEF Placed
  <2>2. result' # 0
    BY <1>1, <1>2, <2>1
  <2>3. /\ Len(states') = j
        /\ \A m \in 1 .. Len(states) : states'[m] = states[m]
        /\ states'[j].slot = slot
        /\ \A i \in ToSet(slot) : LET old == states'[j].old
                                  IN  old.pos[i] = kv.pos[i] /\ old.seq[i] = kv.seq[i]
        /\ \A m \in 0 .. Len(states) : \A i : InSlot(i, 1 .. m)' <=> InSlot(i, 1 .. m)
        /\ \A i : InSlot(i, 1 .. Len(states))' <=> InSlot(i, 1 .. Len(states)) \/ i \in ToSet(slot)
    BY <1>7, PlacedStack
  <2>4. batch.first \in Nat /\ batch'.first = batch.first /\ batch'.seq = batch.seq
    BY <1>1, <2>1 DEF Decoding
  <2>5. ASSUME NEW i \in Cells, ~(InSlot(i, 1 .. Len(states))') PROVE Below(kv, i, batch.first)'
    <3>1. Below(kv, i, batch.first) /\ i \notin ToSet(slot)
      BY <1>3, <2>1, <2>3, <2>5
    <3>2. Shrunk(kv', kv, i)
      BY <2>1, <3>1 DEF Applied
    <3> QED
      BY <2>4, <3>1, <3>2 DEF Below, Shrunk
  <2>6. ASSUME NEW m \in 1 .. Len(states'), NEW i \in ToSet(states'[m].slot),
               ~(InSlot(i, 1 .. (m - 1))')
        PROVE  Below(states[m].old, i, batch.first)'
    <3>1. CASE m \in 1 .. Len(states)
      <4>1. m - 1 \in 0 .. Len(states) /\ states'[m] = states[m]
        BY <1>1, <2>3, <3>1
      <4>2. ~InSlot(i, 1 .. (m - 1))
        BY <2>3, <2>6, <4>1
      <4>3. Below(states[m].old, i, batch.first)
        BY <1>3, <2>1, <2>6, <3>1, <4>1, <4>2
      <4> QED
        BY <2>4, <4>1, <4>3 DEF Below
    <3>2. CASE m = j
      <4>1. i \in ToSet(slot) /\ i \in Cells /\ m - 1 = Len(states)
        BY <1>1, <2>1, <2>3, <2>6, <3>2 DEF SlotFits
      <4>2. ~InSlot(i, 1 .. Len(states))
        <5>1. Len(states) \in 0 .. Len(states)
          BY <1>1
        <5> QED
          BY <2>3, <2>6, <4>1, <5>1
      <4>3. Below(kv, i, batch.first)
        BY <1>3, <2>1, <4>1, <4>2
      <4>4. states'[m].old.pos[i] = kv.pos[i] /\ states'[m].old.seq[i] = kv.seq[i]
        BY <2>3, <3>2, <4>1
      <4> QED
        BY <2>4, <4>3, <4>4 DEF Below
    <3> QED
      BY <1>1, <2>3, <3>1, <3>2
  <2> QED
    BY <2>1, <2>2, <2>5, <2>6 DEF PositionsAreNew
<1>9. CASE Fitted
  <2>1. phase = "unwind" /\ phase' = "compute" /\ batch' = batch /\ result' = result /\ done' = done
    BY <1>9 DEF Fitted, Unwound
  <2>2. result' # 0 /\ done = 0 /\ batch.first \in Nat
    BY <1>1, <1>2, <2>1 DEF Decoding
  <2>3. UFirst(done + 1)' = batch.first
    <3>1. UFirst(1) = batch.first
      BY <2>2, NextUbatch
    <3> QED
      BY <2>1, <2>2, <3>1 DEF UFirst
  <2>4. \A i \in Cells : Below(kv, i, batch.first)'
    BY <1>9, UnwoundNew DEF Fitted
  <2>5. \A i \in Cells : Below(kv, i, UFirst(done + 1))'
    BY <2>1, <2>3, <2>4 DEF Below
  <2> QED
    BY <2>1, <2>2, <2>5 DEF PositionsAreNew
<1>10. CASE Refused
  BY <1>4, <1>10 DEF Refused
<1>11. CASE Retried
  <2>1. phase = "unwind" /\ phase' = "place" /\ states' = << >> /\ result' = result
    BY <1>11 DEF Retried, Unwound
  <2>2. result' # 0
    BY <1>1, <1>2, <2>1
  <2>3. \A i \in Cells : Below(kv, i, batch.first)'
    BY <1>11, UnwoundNew DEF Retried
  <2> QED
    BY <2>1, <2>2, <2>3 DEF PositionsAreNew
<1>12. ASSUME NEW slot, Computed(slot) PROVE PositionsAreNew'
  <2> DEFINE j == done + 1
             first == UFirst(j)
             N == NUbatches
  <2>1. /\ phase = "compute" /\ SlotFits(slot, j) /\ kv' \in GoodCaches /\ batch' = batch
        /\ Applied(kv', kv, slot, first, batch.seq) /\ done' = j
        /\ (\A i \in Cells : Below(kv, i, first)) =>
             kv'.seq[Last(slot)] = {batch.seq} /\ kv'.pos[Last(slot)] = first + Len(slot) - 1
        /\ j < N => UNCHANGED <<phase, states, result>>
        /\ ~(j < N) => phase' = "returned" /\ states' = << >> /\ result' = 0
    BY <1>12 DEF Computed, Computing
  <2>2. /\ batch.seq \in Seqs /\ batch.n \in Nat \ {0} /\ batch.first \in Nat
        /\ batch.first + batch.n - 1 <= MaxPos /\ result = NoResult
    BY <1>1, <2>1 DEF Decoding
  <2>3. \A i \in Cells : Below(kv, i, first)
    BY <1>3, <2>1
  <2>4. /\ UFirst(j + 1) = first + UBatch /\ first = batch.first + (j - 1) * UBatch
        /\ first \in Nat
    <3>1. j \in Nat
      BY <1>1
    <3> HIDE DEF j
    <3> QED
      BY <2>1, <2>2, <3>1, NextUbatch DEF SlotFits
  <2>5. /\ ULen(j) \in 1 .. UBatch /\ (j - 1) * UBatch \in Nat
        /\ j = N => (j - 1) * UBatch + ULen(j) = batch.n
        /\ j \in 1 .. N /\ N \in Nat
    <3>1. j \in 1 .. NUbatches
      BY <2>1 DEF SlotFits
    <3> HIDE DEF j
    <3> QED
      BY <2>2, <3>1, UbatchFits
  <2>6. /\ Len(slot) = ULen(j) /\ Last(slot) \in Cells /\ UBatch \in Nat \ {0}
        /\ ToSet(slot) \subseteq Cells
    BY <2>1, BatchAssumption DEF SlotFits
  <2> DEFINE q == (j - 1) * UBatch
  <2>7. q \in Nat /\ first = batch.first + q /\ (j = N => q + ULen(j) = batch.n)
    BY <2>4, <2>5
  <2>8. UFirst(j + 1) = first + UBatch
    BY <2>4
  <2> HIDE DEF first, N, q
  <2>9. ASSUME NEW i \in Cells, batch.seq \in kv'.seq[i] PROVE kv'.pos[i] < first + Len(slot)
    <3>1. kv'.pos[i] \in Int /\ kv.pos[i] \in Int
      BY <1>1, <2>1, GoodTypes
    <3>2. CASE i \in ToSet(slot)
      <4>1. kv'.pos[i] = -1 \/ \E x \in 1 .. Len(slot) : kv'.pos[i] = first + x - 1
        BY <2>1, <3>2 DEF Applied
      <4> QED
        BY <2>4, <2>5, <2>6, <4>1
    <3>3. CASE i \notin ToSet(slot)
      <4>1. Shrunk(kv', kv, i)
        BY <2>1, <3>3 DEF Applied
      <4>2. kv.pos[i] < first
        BY <2>3, <2>9, <4>1 DEF Below, Shrunk
      <4>3. kv'.pos[i] \in {kv.pos[i], -1}
        BY <4>1 DEF Shrunk
      <4>4. first \in Nat /\ Len(slot) \in Nat \ {0}
        BY <2>4, <2>5, <2>6
      <4> QED
        BY <3>1, <4>2, <4>3, <4>4
    <3> QED
      BY <3>2, <3>3
  <2>10. CASE j < N
    <3>1. phase' = "compute" /\ result' # 0 /\ done' = j
      BY <1>2, <2>1, <2>2, <2>10
    <3>2. UFirst(done + 1)' = first + UBatch
      <4>1. UFirst(done + 1)' = UFirst(j + 1)
        BY <2>1 DEF UFirst
      <4> QED
        BY <2>8, <4>1
    <3>3. \A i \in Cells : batch.seq \in kv'.seq[i] => kv'.pos[i] < first + UBatch
      <4> SUFFICES ASSUME NEW i \in Cells, batch.seq \in kv'.seq[i]
                   PROVE  kv'.pos[i] < first + UBatch
        OBVIOUS
      <4>1. kv'.pos[i] < first + Len(slot) /\ kv'.pos[i] \in Int
        BY <2>1, <2>9, GoodTypes
      <4> QED
        BY <2>4, <2>5, <2>6, <4>1
    <3>4. \A i \in Cells : Below(kv, i, UFirst(done + 1))'
      BY <2>1, <3>2, <3>3 DEF Below
    <3> QED
      BY <3>1, <3>4 DEF PositionsAreNew
  <2>11. CASE ~(j < N)
    <3>1. phase' = "returned" /\ result' = 0 /\ j = N
      BY <2>1, <2>5, <2>11
    <3>2. first + Len(slot) = batch.first + batch.n
      <4>1. q + ULen(j) = batch.n /\ Len(slot) = ULen(j) /\ first = batch.first + q
        BY <2>6, <2>7, <3>1
      <4>2. ULen(j) \in Nat
        BY <2>5, <2>6
      <4> DEFINE u == ULen(j)
      <4> HIDE DEF u
      <4>3. u \in Nat /\ q + u = batch.n /\ first + Len(slot) = (batch.first + q) + u
        BY <4>1, <4>2 DEF u
      <4> QED
        BY <2>2, <2>7, <4>3
    <3>a. first \in Nat /\ Len(slot) \in Nat
      BY <2>4, <2>5, <2>6
    <3>3. /\ batch.first + batch.n \in Nat /\ batch.first + batch.n # 0
          /\ first + Len(slot) - 1 = batch.first + batch.n - 1
      BY <2>2, <3>2, <3>a
    <3>p. PICK p \in Nat : p = batch.first + batch.n
      BY <3>3
    <3>4. \E i \in Cells : batch.seq \in kv'.seq[i] /\ kv'.pos[i] = p - 1
      <4>1. kv'.seq[Last(slot)] = {batch.seq} /\ kv'.pos[Last(slot)] = first + Len(slot) - 1
        BY <2>1, <2>3
      <4>2. kv'.pos[Last(slot)] = p - 1
        BY <2>2, <3>3, <3>a, <3>p, <4>1
      <4> QED
        BY <2>6, <4>1, <4>2
    <3>5. \A i \in Cells : batch.seq \in kv'.seq[i] => kv'.pos[i] < p
      BY <2>9, <3>2, <3>p
    <3>6. SeqPosMax(kv', batch.seq) = p - 1
      BY <2>1, <2>2, <3>4, <3>5, SeqEndIs
    <3>7. SeqPosMax(kv', batch'.seq) = batch'.first + batch'.n - 1
      <4>1. batch' = batch
        BY <2>1
      <4>2. SeqPosMax(kv', batch.seq) = batch.first + batch.n - 1
        BY <2>2, <3>6, <3>p
      <4> QED
        BY <4>1, <4>2
    <3> QED
      BY <3>1, <3>7 DEF PositionsAreNew
  <2> QED
    BY <2>10, <2>11
<1>13. ASSUME NEW slot, Aborted(slot) PROVE PositionsAreNew'
  BY <1>4, <1>13 DEF Aborted
<1>14. CASE NoOutput
  BY <1>4, <1>14 DEF NoOutput
<1>15. CASE Leaves
  BY <1>2, <1>4, <1>15 DEF Leaves
<1>16. CASE UNCHANGED vars
  <2>1. UNCHANGED <<kv, phase, batch, states, done, result>>
    BY <1>16 DEF vars
  <2>2. UFirst(done + 1)' = UFirst(done + 1)
    BY <2>1 DEF UFirst
  <2>3. SeqPosMax(kv, batch.seq)' = SeqPosMax(kv, batch.seq)
    BY <2>1 DEF SeqPosMax, Present
  <2> QED
    BY <1>3, <2>1, <2>2, <2>3 DEF PositionsAreNew, InSlot, Below
<1> QED
  BY <1>5, <1>6, <1>7, <1>9, <1>10, <1>11, <1>12, <1>13, <1>14, <1>15, <1>16, StepDoes DEF StepIs

-----------------------------------------------------------------------------
(* Without a sliding window.                                               *)

\* Then only an empty cell can be used.
LEMMA OnlyEmpty ==
    ASSUME n_swa = 0, NEW k, NEW i, CanUse(k, i)
    PROVE  k.pos[i] = -1
  BY DEF CanUse, IsEmpty, Masked

\* The parts of Steady: occupied cells stay, slots were empty and are disjoint, what is new
\* is of the batch, and the sequence goes on where it ended.
CellsStay == \A i \in Cells : before.pos[i] # -1 =>
               kv.pos[i] = before.pos[i] /\ kv.seq[i] = before.seq[i]
SlotsApart ==
    \A j \in 1 .. Len(states) : \A i \in ToSet(states[j].slot) :
       /\ before.pos[i] = -1 /\ states[j].old.pos[i] = -1
       /\ ~InSlot(i, 1 .. (j - 1))
       /\ phase \in {"place", "unwind"} => kv.pos[i] # -1
       /\ phase = "compute" /\ j > done => kv.pos[i] = -1
NewIsBatch ==
    \A i \in Cells : before.pos[i] = -1 /\ kv.pos[i] # -1 =>
       \/ phase \in {"place", "unwind"} /\ InSlot(i, 1 .. Len(states))
       \/ phase \in {"compute", "returned"} /\ kv.pos[i] >= batch.first
GoesOn ==
    /\ phase \in {"place", "unwind"} => EndsAt(before, batch.first)
    /\ phase = "compute" => EndsAt(kv, UFirst(done + 1))

\* Steady, by its parts.
LEMMA SteadyParts ==
    Steady <=> (n_swa = 0 /\ Decoding => CellsStay /\ SlotsApart /\ NewIsBatch /\ GoesOn)
  BY DEF Steady, CellsStay, SlotsApart, NewIsBatch, GoesOn

\* A trial that is taken back leaves the cells as they were before the decode.
LEMMA UnwoundSteady ==
    ASSUME KInv, Steady, n_swa = 0, Unwound, NEW i \in Cells
    PROVE  /\ before.pos[i] # -1 =>
                /\ kv'.pos[i] = before.pos[i] /\ kv'.seq[i] = before.seq[i]
                /\ KeyOk(rope, kv, i) => KeyOk(rope', kv', i)
           /\ before.pos[i] = -1 => kv'.pos[i] = -1
           /\ InSlot(i, 1 .. Len(states)) => kv'.pos[i] = -1
<1>1. phase = "unwind"
  BY DEF Unwound
<1>2. CellsStay /\ SlotsApart /\ NewIsBatch
  BY <1>1, SteadyParts DEF Decoding
<1>3. CASE /\ ~InSlot(i, 1 .. Len(states))
           /\ kv'.pos[i] = kv.pos[i] /\ kv'.seq[i] = kv.seq[i]
           /\ kv.pos[i] # -1 /\ KeyOk(rope, kv, i) => KeyOk(rope', kv', i)
  BY <1>1, <1>2, <1>3 DEF CellsStay, NewIsBatch
<1>4. ASSUME NEW j \in 1 .. Len(states), i \in ToSet(states[j].slot),
             kv'.pos[i] = states[j].old.pos[i]
      PROVE  before.pos[i] = -1 /\ kv'.pos[i] = -1
  BY <1>2, <1>4 DEF SlotsApart
<1> QED
  BY <1>3, <1>4, UnwoundCell

\* The cells and the end of the sequence are as they were before the decode.
LEMMA UnwoundGoesOn ==
    ASSUME KInv, Steady, n_swa = 0, Unwound
    PROVE  /\ CellsStay' /\ NewIsBatch' /\ EndsAt(before, batch.first)
           /\ EndsAt(kv, batch.first)' /\ EndsAt(before, batch.first)'
<1>1. /\ phase = "unwind" /\ batch' = batch /\ before' = before
  BY DEF Unwound
<1>2. CellsStay /\ SlotsApart /\ NewIsBatch /\ GoesOn /\ batch.first \in Nat
  BY <1>1, SteadyParts DEF Decoding, KInv, BatchFits
<1>3. CellsStay'
  BY <1>1, UnwoundSteady DEF CellsStay
<1>4. NewIsBatch'
  BY <1>1, UnwoundSteady DEF NewIsBatch
<1>5. EndsAt(before, batch.first)
  BY <1>1, <1>2 DEF GoesOn
<1>6. EndsAt(kv, batch.first)'
  <2>1. CASE batch.first = 0
    BY <1>1, <2>1 DEF EndsAt
  <2>2. CASE batch.first # 0
    <3>1. PICK i \in Cells : batch.seq \in before.seq[i] /\ before.pos[i] = batch.first - 1
      BY <1>5, <2>2 DEF EndsAt
    <3>2. before.pos[i] # -1
      BY <1>2, <2>2, <3>1
    <3>3. kv'.pos[i] = before.pos[i] /\ kv'.seq[i] = before.seq[i]
      BY <3>2, UnwoundSteady
    <3> QED
      BY <1>1, <3>1, <3>3 DEF EndsAt
  <2> QED
    BY <2>1, <2>2
<1>7. EndsAt(before, batch.first)'
  BY <1>1, <1>5 DEF EndsAt
<1> QED
  BY <1>3, <1>4, <1>5, <1>6, <1>7

\* A ubatch that is computed was put into empty cells.
LEMMA ComputingSteady ==
    ASSUME KInv, PositionsAreNew, Steady, n_swa = 0, NEW slot, NEW k, Computing(slot, k)
    PROVE  /\ AllPut(k, kv, slot, UFirst(done + 1), batch.seq)
           /\ CellsStay /\ SlotsApart /\ NewIsBatch /\ GoesOn
           /\ \A i \in ToSet(slot) : i \in Cells /\ kv.pos[i] = -1 /\ before.pos[i] = -1
           /\ \A i \in Cells : Below(kv, i, UFirst(done + 1))
<1> DEFINE j == done + 1
<1>1. /\ phase = "compute" /\ slot = states[j].slot /\ SlotFits(slot, j) /\ done \in Nat
      /\ (\A i \in ToSet(slot) : kv.pos[i] = -1) => AllPut(k, kv, slot, UFirst(j), batch.seq)
  BY DEF Computing, KInv, KTypeOK
<1>2. CellsStay /\ SlotsApart /\ NewIsBatch /\ GoesOn
  BY <1>1, SteadyParts DEF Decoding
<1>3. j \in 1 .. Len(states) /\ j > done
  BY <1>1 DEF SlotFits, KInv, PhaseFits
<1>4. \A i \in ToSet(slot) : i \in Cells /\ kv.pos[i] = -1 /\ before.pos[i] = -1
  BY <1>1, <1>2, <1>3 DEF SlotFits, SlotsApart
<1>5. \A i \in Cells : Below(kv, i, UFirst(done + 1))
  BY <1>1 DEF PositionsAreNew
<1> QED
  BY <1>1, <1>2, <1>4, <1>5

\* A ubatch that failed leaves its cells empty and the others alone.
LEMMA AbortedCell ==
    ASSUME KInv, PositionsAreNew, Steady, n_swa = 0, NEW slot, Aborted(slot), NEW i \in Cells
    PROVE  IF i \in ToSet(slot) THEN kv'.pos[i] = -1 /\ kv'.shift[i] = 0
           ELSE /\ kv'.pos[i] = kv.pos[i] /\ kv'.seq[i] = kv.seq[i]
                /\ kv'.shift[i] = kv.shift[i] \/ (kv.pos[i] = -1 /\ kv'.shift[i] = 0)
<1> DEFINE first == UFirst(done + 1)
<1>1. PICK k : Computing(slot, k) /\ RmAt(kv', k, i, batch.seq, first, MaxPos + 1)
  BY DEF Aborted
<1>2. /\ AllPut(k, kv, slot, first, batch.seq) /\ Below(kv, i, first)
  BY <1>1, ComputingSteady
<1>3. /\ first \in Nat /\ Len(slot) \in Nat /\ first + Len(slot) - 1 <= MaxPos
      /\ MaxPos \in Nat
  BY <1>1, PosAssumption DEF Computing, SlotFits
<1>4. kv.pos[i] \in Int
  BY GoodTypes DEF KInv, KTypeOK, GoodCaches
<1> HIDE DEF first
<1>5. CASE i \in ToSet(slot)
  <2>1. k.seq[i] = {batch.seq} /\ \E x \in 1 .. Len(slot) : k.pos[i] = first + x - 1
    BY <1>2, <1>5 DEF AllPut
  <2>2. PosIn(k, i, first, MaxPos + 1)
    BY <1>3, <2>1 DEF PosIn
  <2> QED
    BY <1>1, <1>5, <2>1, <2>2 DEF RmAt
<1>6. CASE i \notin ToSet(slot)
  <2>1. /\ k.pos[i] = kv.pos[i] /\ k.seq[i] = kv.seq[i]
        /\ k.shift[i] = kv.shift[i] \/ (kv.pos[i] = -1 /\ k.shift[i] = 0)
    BY <1>2, <1>6 DEF AllPut
  <2>2. ~(PosIn(k, i, first, MaxPos + 1) /\ batch.seq \in k.seq[i])
    <3>1. batch.seq \in kv.seq[i] => kv.pos[i] < first
      BY <1>2 DEF Below
    <3> QED
      BY <1>3, <1>4, <2>1, <3>1 DEF PosIn
  <2> QED
    BY <1>1, <1>6, <2>1, <2>2 DEF RmAt, Untouched
<1> QED
  BY <1>5, <1>6

\* Every step of a decode touches only cells that were empty.
LEMMA SteadyStep == KInv /\ PositionsAreNew /\ Steady /\ [KNext]_vars => Steady'
<1> SUFFICES ASSUME KInv, PositionsAreNew, Steady, [KNext]_vars, n_swa' = 0, Decoding'
             PROVE  CellsStay' /\ SlotsApart' /\ NewIsBatch' /\ GoesOn'
  BY DEF Steady, CellsStay, SlotsApart, NewIsBatch, GoesOn
<1>1. /\ kv \in GoodCaches /\ states \in Seq(StackEntries) /\ Len(states) \in Nat /\ done \in Nat
      /\ phase \in {"idle", "returned", "dead"} => states = << >>
      /\ phase = "unwind" => done = 0
      /\ Decoding => batch.seq \in Seqs /\ batch.n \in Nat \ {0} /\ batch.first \in Nat
  BY SizeAssumption DEF KInv, KTypeOK, GoodCaches, StackFits, PhaseFits, BatchFits
<1>2. ASSUME n_swa = 0, Decoding PROVE CellsStay /\ SlotsApart /\ NewIsBatch /\ GoesOn
  BY <1>2, SteadyParts
<1>3. ASSUME states' = << >> PROVE SlotsApart'
  BY <1>3 DEF SlotsApart
<1>4. ASSUME phase' = "returned" PROVE GoesOn'
  BY <1>4 DEF GoesOn
<1>5. ASSUME NEW n \in Batches, NEW s \in Seqs, Begun(n, s)
      PROVE  CellsStay' /\ SlotsApart' /\ NewIsBatch' /\ GoesOn'
  <2>1. /\ phase = "idle" /\ phase' = "place" /\ states' = states
        /\ SeqEndsAt(kv, s, Start(s) - 1) /\ Start(s) \in Nat
        /\ batch' = [seq |-> s, first |-> Start(s), n |-> n]
        /\ kv'.pos = kv.pos /\ kv'.seq = kv.seq /\ before' = Cp(kv, Cells)
    BY <1>5 DEF Begun
  <2>2. \A i \in Cells : before'.pos[i] = kv.pos[i] /\ before'.seq[i] = kv.seq[i]
    BY <2>1 DEF Cp
  <2>3. states' = << >>
    BY <1>1, <2>1
  <2>4. CellsStay'
    BY <2>1, <2>2 DEF CellsStay
  <2>5. NewIsBatch'
    BY <2>1, <2>2 DEF NewIsBatch
  <2>6. GoesOn'
    <3>1. batch'.seq = s /\ batch'.first = Start(s)
      BY <2>1
    <3>2. Start(s) = 0 \/ \E i \in Cells : s \in kv.seq[i] /\ kv.pos[i] = Start(s) - 1
      BY <2>1 DEF SeqEndsAt
    <3>3. EndsAt(before, batch.first)'
      BY <2>2, <3>1, <3>2 DEF EndsAt
    <3> QED
      BY <2>1, <3>3 DEF GoesOn
  <2> QED
    BY <1>3, <2>3, <2>4, <2>5, <2>6
<1>6. CASE NoRoom
  <2>1. /\ phase = "place" /\ phase' = "unwind"
        /\ UNCHANGED <<kv, n_swa, batch, states, done, before>>
    BY <1>6 DEF NoRoom
  <2>2. CellsStay /\ SlotsApart /\ NewIsBatch /\ GoesOn
    BY <1>2, <2>1 DEF Decoding
  <2>3. CellsStay'
    BY <2>1, <2>2 DEF CellsStay
  <2>4. SlotsApart'
    BY <2>1, <2>2 DEF SlotsApart, InSlot
  <2>5. NewIsBatch'
    BY <2>1, <2>2 DEF NewIsBatch, InSlot
  <2>6. GoesOn'
    BY <2>1, <2>2 DEF GoesOn, EndsAt
  <2> QED
    BY <2>3, <2>4, <2>5, <2>6
<1>7. ASSUME NEW slot, Placed(slot)
      PROVE  CellsStay' /\ SlotsApart' /\ NewIsBatch' /\ GoesOn'
  <2> DEFINE j == Len(states) + 1
             first == UFirst(j)
  <2>1. /\ phase = "place" /\ phase' \in {"place", "unwind"} /\ batch' = batch
        /\ before' = before /\ done' = done /\ n_swa' = n_swa
        /\ SlotFits(slot, j) /\ kv' \in GoodCaches
        /\ \A i \in ToSet(slot) : CanUse(kv, i)
        /\ (\A i \in ToSet(slot) : kv.pos[i] = -1) => AllPut(kv', kv, slot, first, batch.seq)
    BY <1>7 DEF Placed
  <2>2. /\ Len(states') = j
        /\ \A m \in 1 .. Len(states) : states'[m] = states[m]
        /\ states'[j].slot = slot
        /\ \A i \in ToSet(slot) : states'[j].old.pos[i] = kv.pos[i]
        /\ \A m \in 0 .. Len(states) : \A i : InSlot(i, 1 .. m)' <=> InSlot(i, 1 .. m)
        /\ \A i : InSlot(i, 1 .. Len(states))' <=> InSlot(i, 1 .. Len(states)) \/ i \in ToSet(slot)
    BY <1>7, PlacedStack
  <2>3. \A i \in ToSet(slot) : kv.pos[i] = -1 /\ i \in Cells
    BY <2>1, OnlyEmpty DEF SlotFits
  <2>4. AllPut(kv', kv, slot, first, batch.seq)
    BY <2>1, <2>3
  <2>5. CellsStay /\ SlotsApart /\ NewIsBatch /\ GoesOn
    BY <1>2, <2>1 DEF Decoding
  <2>6. \A i \in Cells : IF i \in ToSet(slot) THEN kv'.pos[i] # -1
                         ELSE kv'.pos[i] = kv.pos[i] /\ kv'.seq[i] = kv.seq[i]
    <3> SUFFICES ASSUME NEW i \in Cells, i \in ToSet(slot) PROVE kv'.pos[i] # -1
      BY <2>4 DEF AllPut
    <3>1. kv'.seq[i] = {batch.seq}
      BY <2>4 DEF AllPut
    <3> QED
      BY <2>1, <3>1, GoodTypes
  <2> HIDE DEF first
  <2>7. CellsStay'
    <3> SUFFICES ASSUME NEW i \in Cells, before.pos[i] # -1
                 PROVE  kv'.pos[i] = before.pos[i] /\ kv'.seq[i] = before.seq[i]
      BY <2>1 DEF CellsStay
    <3>1. kv.pos[i] = before.pos[i] /\ kv.seq[i] = before.seq[i]
      BY <2>5 DEF CellsStay
    <3> QED
      BY <2>3, <2>6, <3>1
  <2>8. ASSUME NEW m \in 1 .. Len(states'), NEW i \in ToSet(states'[m].slot)
        PROVE  /\ before.pos[i] = -1 /\ states'[m].old.pos[i] = -1
               /\ ~(InSlot(i, 1 .. (m - 1))') /\ kv'.pos[i] # -1
    <3>1. CASE m \in 1 .. Len(states)
      <4>1. m - 1 \in 0 .. Len(states) /\ states'[m] = states[m] /\ i \in ToSet(states[m].slot)
        BY <1>1, <2>2, <2>8, <3>1
      <4>2. /\ before.pos[i] = -1 /\ states[m].old.pos[i] = -1 /\ ~InSlot(i, 1 .. (m - 1))
            /\ kv.pos[i] # -1
        BY <2>1, <2>5, <3>1, <4>1 DEF SlotsApart
      <4>3. i \in Cells
        <5>1. states[m].slot \in Seq(Cells)
          BY <1>1, <3>1 DEF StackEntries
        <5> QED
          BY <4>1, <5>1 DEF ToSet
      <4>4. kv'.pos[i] # -1
        BY <2>6, <4>2, <4>3
      <4> QED
        BY <2>2, <4>1, <4>2, <4>4
    <3>2. CASE m = j
      <4>1. i \in ToSet(slot) /\ m - 1 = Len(states) /\ Len(states) \in 0 .. Len(states)
        BY <1>1, <2>2, <2>8, <3>2
      <4>2. kv.pos[i] = -1 /\ i \in Cells /\ states'[m].old.pos[i] = -1
        BY <2>2, <2>3, <3>2, <4>1
      <4>3. before.pos[i] = -1
        BY <2>5, <4>2 DEF CellsStay
      <4>4. ~InSlot(i, 1 .. Len(states))
        BY <2>1, <2>5, <4>2 DEF SlotsApart, InSlot
      <4>5. kv'.pos[i] # -1
        BY <2>6, <4>1, <4>2
      <4> QED
        BY <2>2, <4>1, <4>2, <4>3, <4>4, <4>5
    <3> QED
      BY <1>1, <2>2, <3>1, <3>2
  <2>9. SlotsApart'
    BY <2>1, <2>8 DEF SlotsApart
  <2>10. NewIsBatch'
    <3> SUFFICES ASSUME NEW i \in Cells, before.pos[i] = -1, kv'.pos[i] # -1
                 PROVE  InSlot(i, 1 .. Len(states))'
      BY <2>1 DEF NewIsBatch
    <3>1. CASE i \in ToSet(slot)
      BY <2>2, <3>1
    <3>2. CASE i \notin ToSet(slot)
      <4>1. InSlot(i, 1 .. Len(states))
        BY <2>1, <2>5, <2>6, <3>2 DEF NewIsBatch
      <4> QED
        BY <2>2, <4>1
    <3> QED
      BY <3>1, <3>2
  <2>11. GoesOn'
    BY <2>1, <2>5 DEF GoesOn, EndsAt
  <2> QED
    BY <2>7, <2>9, <2>10, <2>11
<1>9. CASE Fitted
  <2>1. /\ phase = "unwind" /\ phase' = "compute" /\ states' = states /\ batch' = batch
        /\ before' = before /\ done' = done /\ n_swa' = n_swa /\ Unwound
    BY <1>9 DEF Fitted, Unwound
  <2>2. done = 0 /\ batch.first \in Nat
    BY <1>1, <2>1 DEF Decoding
  <2>3. SlotsApart /\ CellsStay' /\ NewIsBatch' /\ EndsAt(kv, batch.first)'
    BY <1>2, <2>1, UnwoundGoesOn DEF Decoding
  <2>4. SlotsApart'
    <3> SUFFICES ASSUME NEW m \in 1 .. Len(states), NEW i \in ToSet(states[m].slot)
                 PROVE  /\ before.pos[i] = -1 /\ states[m].old.pos[i] = -1
                        /\ ~(InSlot(i, 1 .. (m - 1))') /\ kv'.pos[i] = -1
      BY <2>1 DEF SlotsApart
    <3>1. before.pos[i] = -1 /\ states[m].old.pos[i] = -1 /\ ~InSlot(i, 1 .. (m - 1))
      BY <2>3 DEF SlotsApart
    <3>2. ~(InSlot(i, 1 .. (m - 1))')
      BY <2>1, <3>1 DEF InSlot
    <3>3. i \in Cells
      <4>1. states[m].slot \in Seq(Cells)
        BY <1>1 DEF StackEntries
      <4> QED
        BY <4>1 DEF ToSet
    <3>4. kv'.pos[i] = -1
      BY <2>1, <3>1, <3>3, UnwoundSteady
    <3> QED
      BY <3>1, <3>2, <3>4
  <2>5. GoesOn'
    <3>1. UFirst(done + 1)' = batch.first
      <4>1. UFirst(1) = batch.first
        BY <2>2, NextUbatch
      <4> QED
        BY <2>1, <2>2, <4>1 DEF UFirst
    <3> QED
      BY <2>1, <2>3, <3>1 DEF GoesOn, EndsAt
  <2> QED
    BY <2>3, <2>4, <2>5
<1>10. CASE Refused
  BY <1>3, <1>4, <1>10, UnwoundGoesOn DEF Refused, Unwound
<1>11. CASE Retried
  <2>1. Unwound /\ n_swa = 0 /\ phase' = "place" /\ states' = << >>
    BY <1>11 DEF Retried, Unwound
  <2>2. GoesOn'
    BY <2>1, UnwoundGoesOn DEF GoesOn
  <2> QED
    BY <1>3, <2>1, <2>2, UnwoundGoesOn
<1>13. ASSUME NEW slot, Computed(slot)
       PROVE  CellsStay' /\ SlotsApart' /\ NewIsBatch' /\ GoesOn'
  <2> DEFINE j == done + 1
             first == UFirst(j)
             N == NUbatches
  <2>1. /\ phase = "compute" /\ slot = states[j].slot /\ SlotFits(slot, j) /\ kv' \in GoodCaches
        /\ batch' = batch /\ before' = before /\ done' = j /\ Computing(slot, kv')
        /\ n_swa' = n_swa
        /\ (\A i \in Cells : Below(kv, i, first)) =>
             kv'.seq[Last(slot)] = {batch.seq} /\ kv'.pos[Last(slot)] = first + Len(slot) - 1
        /\ j < N => UNCHANGED <<phase, states>>
        /\ ~(j < N) => phase' = "returned" /\ states' = << >>
    BY <1>13 DEF Computed, Computing
  <2>2. /\ AllPut(kv', kv, slot, first, batch.seq)
        /\ CellsStay /\ SlotsApart /\ NewIsBatch /\ GoesOn
        /\ \A i \in ToSet(slot) : i \in Cells /\ kv.pos[i] = -1 /\ before.pos[i] = -1
        /\ \A i \in Cells : Below(kv, i, first)
    BY <2>1, ComputingSteady
  <2>3. \A i \in Cells : i \notin ToSet(slot) => kv'.pos[i] = kv.pos[i] /\ kv'.seq[i] = kv.seq[i]
    BY <2>2 DEF AllPut
  <2>4. CellsStay'
    BY <2>1, <2>2, <2>3 DEF CellsStay
  <2>5. NewIsBatch'
    <3>0. phase' \in {"compute", "returned"} /\ batch.first \in Nat
      BY <1>1, <2>1 DEF Decoding
    <3> SUFFICES ASSUME NEW i \in Cells, before.pos[i] = -1, kv'.pos[i] # -1
                 PROVE  kv'.pos[i] >= batch.first
      BY <2>1, <3>0 DEF NewIsBatch
    <3>1. CASE i \in ToSet(slot)
      <4>1. PICK x \in 1 .. Len(slot) : kv'.pos[i] = first + x - 1
        BY <2>2, <3>1 DEF AllPut
      <4>2. first \in Nat /\ first >= batch.first /\ Len(slot) \in Nat
        BY <2>1 DEF SlotFits
      <4> HIDE DEF first
      <4> QED
        BY <3>0, <4>1, <4>2
    <3>2. CASE i \notin ToSet(slot)
      BY <2>1, <2>2, <2>3, <3>2 DEF NewIsBatch
    <3> QED
      BY <3>1, <3>2
  <2>6. CASE j < N
    <3>1. phase' = "compute" /\ states' = states
      BY <2>1, <2>6
    <3>2. SlotsApart'
      <4> SUFFICES ASSUME NEW m \in 1 .. Len(states), NEW i \in ToSet(states[m].slot)
                   PROVE  /\ before.pos[i] = -1 /\ states[m].old.pos[i] = -1
                          /\ ~(InSlot(i, 1 .. (m - 1))')
                          /\ m > j => kv'.pos[i] = -1
        BY <2>1, <3>1 DEF SlotsApart
      <4>1. /\ before.pos[i] = -1 /\ states[m].old.pos[i] = -1 /\ ~InSlot(i, 1 .. (m - 1))
            /\ m > done => kv.pos[i] = -1
        BY <2>1, <2>2 DEF SlotsApart
      <4>2. ~(InSlot(i, 1 .. (m - 1))')
        BY <3>1, <4>1 DEF InSlot
      <4>3. i \in Cells
        <5>1. states[m].slot \in Seq(Cells)
          BY <1>1 DEF StackEntries
        <5> QED
          BY <5>1 DEF ToSet
      <4>4. ASSUME m > j PROVE kv'.pos[i] = -1
        <5>1. j \in 1 .. (m - 1) /\ m > done
          BY <1>1, <4>4
        <5>2. i \notin ToSet(slot)
          BY <2>1, <4>1, <5>1 DEF InSlot
        <5> QED
          BY <2>3, <4>1, <4>3, <5>1, <5>2
      <4> QED
        BY <4>1, <4>2, <4>4
    <3>3. GoesOn'
      <4>1. /\ ULen(j) = UBatch /\ UFirst(j + 1) = first + UBatch /\ first \in Nat
            /\ UBatch \in Nat \ {0} /\ Len(slot) = ULen(j) /\ Last(slot) \in Cells
        <5>1. batch.n \in Nat \ {0} /\ batch.first \in Nat
          BY <1>1, <2>1 DEF Decoding
        <5>2. j \in 1 .. NUbatches /\ j \in Nat /\ j < NUbatches
          BY <1>1, <2>1, <2>6 DEF SlotFits
        <5>3. first \in Nat /\ Len(slot) = ULen(j) /\ Last(slot) \in Cells
          BY <2>1 DEF SlotFits
        <5> HIDE DEF j
        <5>4. ULen(j) = UBatch
          BY <5>1, <5>2, UbatchFits
        <5>5. UFirst(j + 1) = first + UBatch
          BY <5>1, <5>2, NextUbatch
        <5> QED
          BY <5>3, <5>4, <5>5, BatchAssumption
      <4>2. kv'.seq[Last(slot)] = {batch.seq} /\ kv'.pos[Last(slot)] = first + Len(slot) - 1
        BY <2>1, <2>2
      <4>3. UFirst(done + 1)' = UFirst(j + 1)
        BY <2>1 DEF UFirst
      <4> HIDE DEF first
      <4>4. kv'.pos[Last(slot)] = UFirst(j + 1) - 1
        BY <4>1, <4>2
      <4>5. EndsAt(kv, UFirst(done + 1))'
        BY <2>1, <4>1, <4>2, <4>3, <4>4 DEF EndsAt
      <4> QED
        BY <3>1, <4>5 DEF GoesOn
    <3> QED
      BY <2>4, <2>5, <3>2, <3>3
  <2>7. CASE ~(j < N)
    BY <1>3, <1>4, <2>1, <2>4, <2>5, <2>7
  <2> QED
    BY <2>6, <2>7
<1>14. ASSUME NEW slot, Aborted(slot)
       PROVE  CellsStay' /\ SlotsApart' /\ NewIsBatch' /\ GoesOn'
  <2>1. /\ phase' = "returned" /\ states' = << >> /\ \E k : Computing(slot, k)
    BY <1>14 DEF Aborted
  <2>2. /\ phase = "compute" /\ batch' = batch /\ before' = before /\ n_swa = 0
    BY <2>1 DEF Computing
  <2>3. /\ CellsStay /\ NewIsBatch
        /\ \A i \in ToSet(slot) : i \in Cells /\ kv.pos[i] = -1 /\ before.pos[i] = -1
    BY <2>1, <2>2, ComputingSteady
  <2>4. \A i \in Cells : IF i \in ToSet(slot) THEN kv'.pos[i] = -1
                         ELSE kv'.pos[i] = kv.pos[i] /\ kv'.seq[i] = kv.seq[i]
    BY <1>14, <2>2, AbortedCell
  <2>5. CellsStay'
    BY <2>2, <2>3, <2>4 DEF CellsStay
  <2>6. NewIsBatch'
    BY <2>1, <2>2, <2>3, <2>4 DEF NewIsBatch
  <2> QED
    BY <1>3, <1>4, <2>1, <2>5, <2>6
<1>15. CASE NoOutput
  <2>1. /\ phase = "compute" /\ phase' = "returned" /\ states' = << >>
        /\ UNCHANGED <<kv, n_swa, batch, before>>
    BY <1>15 DEF NoOutput
  <2>2. CellsStay /\ NewIsBatch
    BY <1>2, <2>1 DEF Decoding
  <2>3. CellsStay' /\ NewIsBatch'
    BY <2>1, <2>2 DEF CellsStay, NewIsBatch
  <2> QED
    BY <1>3, <1>4, <2>1, <2>3
<1>16. ~Leaves
  BY DEF Leaves, Decoding
<1>17. CASE UNCHANGED vars
  <2>1. UNCHANGED <<kv, n_swa, phase, batch, states, done, before>>
    BY <1>17 DEF vars
  <2>2. CellsStay /\ SlotsApart /\ NewIsBatch /\ GoesOn
    BY <1>2, <2>1 DEF Decoding
  <2>3. CellsStay'
    BY <2>1, <2>2 DEF CellsStay
  <2>4. SlotsApart'
    BY <2>1, <2>2 DEF SlotsApart, InSlot
  <2>5. NewIsBatch'
    BY <2>1, <2>2 DEF NewIsBatch, InSlot
  <2>6. UFirst(done + 1)' = UFirst(done + 1)
    BY <2>1 DEF UFirst
  <2>7. GoesOn'
    BY <2>1, <2>2, <2>6 DEF GoesOn, EndsAt
  <2> QED
    BY <2>3, <2>4, <2>5, <2>7
<1> QED
  BY <1>5, <1>6, <1>7, <1>9, <1>10, <1>11, <1>13, <1>14, <1>15, <1>16, <1>17, StepDoes DEF StepIs

\* Where the sequence ends when a decode did not succeed.
EndsWell ==
    phase = "returned" /\ n_swa = 0 /\ result # 0 =>
      SeqPosMax(kv, batch.seq) = batch.first + done * UBatch - 1

\* The end, from the cells.
LEMMA EndFollows ==
    ASSUME kv' \in GoodCaches, batch' = batch, batch.seq \in Seqs, NEW p \in Nat,
           \A i \in Cells : batch.seq \in kv'.seq[i] => kv'.pos[i] < p,
           p = 0 \/ \E i \in Cells : batch.seq \in kv'.seq[i] /\ kv'.pos[i] = p - 1
    PROVE  SeqPosMax(kv', batch'.seq) = p - 1
  BY SeqEndIs

\* Every step that returns leaves the sequence where the last ubatch that was computed ended.
LEMMA EndsStep ==
    KInv /\ PositionsAreNew /\ Steady /\ EndsWell /\ [KNext]_vars => EndsWell'
<1> SUFFICES ASSUME KInv, PositionsAreNew, Steady, EndsWell, [KNext]_vars,
                    phase' = "returned", n_swa' = 0, result' # 0
             PROVE  SeqPosMax(kv', batch'.seq) = batch'.first + done' * UBatch - 1
  BY DEF EndsWell
<1>1. /\ kv \in GoodCaches /\ done \in Nat /\ UBatch \in Nat
      /\ phase = "unwind" => done = 0
      /\ Decoding => batch.seq \in Seqs /\ batch.first \in Nat
  BY BatchAssumption DEF KInv, KTypeOK, GoodCaches, PhaseFits, BatchFits
<1>2. CASE Refused
  <2>1. Unwound /\ n_swa = 0 /\ phase = "unwind" /\ batch' = batch /\ done' = done /\ kv' \in GoodCaches
    BY <1>2 DEF Refused, Unwound
  <2>2. batch.seq \in Seqs /\ batch.first \in Nat /\ done = 0
    BY <1>1, <2>1 DEF Decoding
  <2>3. \A i \in Cells : batch.seq \in kv'.seq[i] => kv'.pos[i] < batch.first
    BY <2>1, UnwoundNew DEF Below
  <2>4. batch.first = 0 \/ \E i \in Cells : batch.seq \in kv'.seq[i] /\ kv'.pos[i] = batch.first - 1
    <3>1. EndsAt(kv, batch.first)'
      BY <2>1, UnwoundGoesOn
    <3> QED
      BY <2>1, <3>1 DEF EndsAt
  <2>5. SeqPosMax(kv', batch'.seq) = batch.first - 1
    BY <2>1, <2>2, <2>3, <2>4, EndFollows
  <2>6. done' * UBatch = 0
    BY <1>1, <2>1, <2>2
  <2> QED
    BY <2>1, <2>2, <2>5, <2>6
<1>3. ASSUME NEW slot, Computed(slot) PROVE FALSE
  <2>1. phase = "compute"
    BY <1>3 DEF Computed, Computing
  <2> QED
    BY <1>3, <2>1 DEF Computed
<1>4. ASSUME phase = "compute"
      PROVE  /\ UFirst(done + 1) = batch.first + done * UBatch /\ UFirst(done + 1) \in Nat
             /\ batch.first \in Nat /\ done * UBatch \in Nat
             /\ batch.seq \in Seqs /\ \A i \in Cells : Below(kv, i, UFirst(done + 1))
             /\ n_swa = 0 => EndsAt(kv, UFirst(done + 1)) /\ CellsStay /\ NewIsBatch
  <2>1. batch.seq \in Seqs /\ batch.first \in Nat
    BY <1>1, <1>4 DEF Decoding
  <2>2. (done + 1) - 1 = done
    BY <1>1
  <2>3. UFirst(done + 1) = batch.first + done * UBatch
    BY <2>2 DEF UFirst
  <2>4. done * UBatch \in Nat
    BY <1>1
  <2>5. UFirst(done + 1) \in Nat
    BY <2>1, <2>3, <2>4
  <2>6. \A i \in Cells : Below(kv, i, UFirst(done + 1))
    BY <1>4 DEF PositionsAreNew
  <2>7. n_swa = 0 => EndsAt(kv, UFirst(done + 1)) /\ CellsStay /\ NewIsBatch
    BY <1>4, SteadyParts DEF Decoding, GoesOn
  <2> QED
    BY <2>1, <2>3, <2>4, <2>5, <2>6, <2>7
<1>5. ASSUME NEW slot, Aborted(slot)
      PROVE  SeqPosMax(kv', batch'.seq) = batch'.first + done' * UBatch - 1
  <2> DEFINE p == UFirst(done + 1)
  <2>1. /\ kv' \in GoodCaches /\ done' = done /\ \E k : Computing(slot, k)
    BY <1>5 DEF Aborted
  <2>2. phase = "compute" /\ batch' = batch /\ n_swa = 0
    BY <2>1 DEF Computing
  <2>3. \A i \in ToSet(slot) : i \in Cells /\ kv.pos[i] = -1
    BY <2>1, <2>2, ComputingSteady
  <2>4. /\ p = batch.first + done * UBatch /\ p \in Nat /\ batch.seq \in Seqs
        /\ batch.first \in Nat /\ done * UBatch \in Nat
        /\ \A i \in Cells : Below(kv, i, p)
        /\ EndsAt(kv, p)
    BY <1>4, <2>2
  <2> HIDE DEF p
  <2>5. \A i \in Cells : IF i \in ToSet(slot) THEN kv'.pos[i] = -1
                         ELSE kv'.pos[i] = kv.pos[i] /\ kv'.seq[i] = kv.seq[i]
    BY <1>5, <2>2, AbortedCell
  <2>6. \A i \in Cells : batch.seq \in kv'.seq[i] => kv'.pos[i] < p
    <3> SUFFICES ASSUME NEW i \in Cells, batch.seq \in kv'.seq[i] PROVE kv'.pos[i] < p
      OBVIOUS
    <3>1. CASE i \in ToSet(slot)
      BY <2>4, <2>5, <3>1
    <3>2. CASE i \notin ToSet(slot)
      BY <2>4, <2>5, <3>2 DEF Below
    <3> QED
      BY <3>1, <3>2
  <2>7. p = 0 \/ \E i \in Cells : batch.seq \in kv'.seq[i] /\ kv'.pos[i] = p - 1
    <3> SUFFICES ASSUME p # 0 PROVE \E i \in Cells : batch.seq \in kv'.seq[i] /\ kv'.pos[i] = p - 1
      OBVIOUS
    <3>1. PICK i \in Cells : batch.seq \in kv.seq[i] /\ kv.pos[i] = p - 1
      BY <2>4 DEF EndsAt
    <3>2. kv.pos[i] # -1
      BY <2>4, <3>1
    <3> QED
      BY <2>3, <2>5, <3>1, <3>2
  <2>8. SeqPosMax(kv', batch'.seq) = p - 1
    BY <2>1, <2>2, <2>4, <2>6, <2>7, EndFollows
  <2>9. batch'.first = batch.first /\ done' * UBatch = done * UBatch
    BY <2>1, <2>2
  <2> QED
    BY <2>4, <2>8, <2>9
<1>6. CASE NoOutput
  <2> DEFINE p == UFirst(done + 1)
  <2>1. phase = "compute" /\ UNCHANGED <<kv, n_swa, batch, done>>
    BY <1>6 DEF NoOutput
  <2>2. /\ p = batch.first + done * UBatch /\ p \in Nat /\ batch.seq \in Seqs
        /\ batch.first \in Nat /\ done * UBatch \in Nat
        /\ \A i \in Cells : Below(kv, i, p)
        /\ EndsAt(kv, p)
    BY <1>4, <2>1
  <2> HIDE DEF p
  <2>3. /\ \A i \in Cells : batch.seq \in kv'.seq[i] => kv'.pos[i] < p
        /\ p = 0 \/ \E i \in Cells : batch.seq \in kv'.seq[i] /\ kv'.pos[i] = p - 1
    BY <2>1, <2>2 DEF Below, EndsAt
  <2>4. SeqPosMax(kv', batch'.seq) = p - 1
    BY <1>1, <2>1, <2>2, <2>3, EndFollows
  <2>5. batch'.first = batch.first /\ done' * UBatch = done * UBatch
    BY <2>1
  <2> QED
    BY <2>2, <2>4, <2>5
<1>7. CASE UNCHANGED vars
  <2>1. UNCHANGED <<kv, n_swa, phase, batch, done, result>>
    BY <1>7 DEF vars
  <2>2. SeqPosMax(kv, batch.seq) = batch.first + done * UBatch - 1
    BY <2>1 DEF EndsWell
  <2> QED
    BY <2>1, <2>2
<1>8. ~(\E n \in Batches, s \in Seqs : Begun(n, s)) /\ ~NoRoom /\ ~(\E slot : Placed(slot))
      /\ ~Fitted /\ ~Retried /\ ~Leaves
  BY DEF Begun, NoRoom, Placed, Fitted, Retried, Leaves
<1> QED
  BY <1>2, <1>3, <1>5, <1>6, <1>7, <1>8, StepDoes DEF StepIs

\* What holds of the positions, together.
PInv == KInv /\ PositionsAreNew /\ Steady

\* They are invariant together: each needs the others in its steps.
LEMMA PositionsInvariant == KSpec => []PInv
<1>1. KInit => PositionsAreNew /\ Steady
  BY DEF KInit, PositionsAreNew, Steady, Decoding, NoResult
<1>2. KInv /\ PositionsAreNew /\ Steady /\ [KNext]_vars => PositionsAreNew' /\ Steady'
  BY NewStep, SteadyStep
<1> QED
  BY <1>1, <1>2, KvInvariant, PTL DEF KSpec, PInv

\* llama_decode's contract: after success the sequence ends with the batch; without a
\* sliding window it ends with the last ubatch computed, and occupied cells are as they were.
THEOREM OutcomeCorrect == KSpec => []DecodeOutcome
<1>1. KInit => EndsWell
  BY DEF KInit, EndsWell
<1>2. PInv /\ EndsWell /\ [KNext]_vars => EndsWell'
  BY EndsStep DEF PInv
<1>3. KSpec => []EndsWell
  BY <1>1, <1>2, PositionsInvariant, PTL DEF KSpec
<1>4. PInv /\ EndsWell => DecodeOutcome
  <2> SUFFICES ASSUME PInv, EndsWell, phase = "returned"
               PROVE  LET kept == IF result = 0 THEN batch.n ELSE done * UBatch
                      IN  /\ result = 0 \/ n_swa = 0 => SeqPosMax(kv, batch.seq) = batch.first + kept - 1
                          /\ n_swa = 0 => \A i \in Cells : before.pos[i] # -1 =>
                               kv.pos[i] = before.pos[i] /\ kv.seq[i] = before.seq[i]
    BY DEF DecodeOutcome
  <2>1. n_swa = 0 => CellsStay
    BY SteadyParts DEF PInv, Decoding
  <2>2. result = 0 => SeqPosMax(kv, batch.seq) = batch.first + batch.n - 1
    BY DEF PInv, PositionsAreNew
  <2>3. result # 0 /\ n_swa = 0 => SeqPosMax(kv, batch.seq) = batch.first + done * UBatch - 1
    BY DEF EndsWell
  <2> QED
    BY <2>1, <2>2, <2>3 DEF CellsStay
<1> QED
  BY <1>3, <1>4, PositionsInvariant, PTL

-----------------------------------------------------------------------------
(* The keys.                                                               *)

\* Every step leaves the keys at the positions of their cells.
LEMMA KeysStep == PInv /\ PInv' /\ KeysAreRight /\ [KNext]_vars => KeysAreRight'
<1> DEFINE Held(i) == kv.pos[i] # -1 /\ ~OnTrial(i) => KeyOk(rope, kv, i)
           Calm(i) == kv.pos[i] = -1 \/ (Decoding /\ before.pos[i] = -1) => kv.shift[i] = 0
<1>0. KeysAreRight <=> (n_swa = 0 => \A i \in Cells : Held(i) /\ Calm(i))
  BY DEF KeysAreRight, KeyOk
<1>p. KeysAreRight' <=> (n_swa' = 0 => \A i \in Cells : Held(i)' /\ Calm(i)')
  BY DEF KeysAreRight, KeyOk
<1> SUFFICES ASSUME PInv, PInv', KeysAreRight, [KNext]_vars, n_swa' = 0, NEW i \in Cells
             PROVE  Held(i)' /\ Calm(i)'
  BY <1>p
<1>1. n_swa = 0
  <2>1. n_swa' = n_swa
    BY StepDoes DEF PInv, StepIs, Begun, NoRoom, Placed, Fitted, Refused, Retried, Unwound, Computed,
                    Aborted, Computing, NoOutput, Leaves, vars
  <2> QED
    BY <2>1
<1>2. Held(i) /\ Calm(i)
  BY <1>0, <1>1
<1>3. /\ KInv /\ PositionsAreNew /\ Steady /\ kv \in GoodCaches /\ kv' \in GoodCaches
      /\ Decoding => CellsStay /\ SlotsApart /\ NewIsBatch
      /\ Decoding' => CellsStay'
  <2>1. KInv /\ PositionsAreNew /\ Steady /\ KInv' /\ Steady'
    BY DEF PInv
  <2>2. kv \in GoodCaches /\ kv' \in GoodCaches
    BY <2>1 DEF KInv, KTypeOK, GoodCaches, Books, Holding
  <2>3. Decoding => CellsStay /\ SlotsApart /\ NewIsBatch
    BY <1>1, <2>1, SteadyParts
  <2>4. Decoding' => CellsStay'
    BY <2>1 DEF Steady, CellsStay
  <2> QED
    BY <2>1, <2>2, <2>3, <2>4
<1> HIDE DEF Held, Calm
<1>4. ASSUME NEW n \in Batches, NEW s \in Seqs, Begun(n, s) PROVE Held(i)' /\ Calm(i)'
  <2>1. /\ phase = "idle" /\ phase' = "place" /\ kv'.pos = kv.pos /\ before' = Cp(kv, Cells)
        /\ kv.shift[i] = 0 => kv'.shift[i] = 0
        /\ kv.pos[i] # -1 /\ KeyOk(rope, kv, i) => KeyOk(rope', kv', i)
    BY <1>4 DEF Begun
  <2>2. before'.pos[i] = kv.pos[i]
    BY <2>1 DEF Cp
  <2>3. Held(i)'
    BY <1>2, <2>1, <2>2 DEF Held, OnTrial
  <2>4. Calm(i)'
    BY <1>2, <2>1, <2>2 DEF Calm
  <2> QED
    BY <2>3, <2>4
<1>5. CASE NoRoom
  <2>1. phase = "place" /\ phase' = "unwind" /\ UNCHANGED <<kv, before, rope>>
    BY <1>5 DEF NoRoom
  <2> QED
    BY <1>2, <2>1 DEF Held, Calm, OnTrial, KeyOk, Decoding
<1>6. ASSUME NEW slot, NEW k, NEW first, NEW s, AllPut(k, kv, slot, first, s),
             \A x \in ToSet(slot) : x \in Cells /\ kv.pos[x] = -1, before.pos[i] = kv.pos[i] \/ Decoding
      PROVE  /\ kv.pos[i] = -1 \/ before.pos[i] = -1 => k.shift[i] = 0
             /\ kv.pos[i] # -1 => /\ i \notin ToSet(slot) /\ k.pos[i] = kv.pos[i]
                                  /\ k.shift[i] = kv.shift[i]
             /\ i \notin ToSet(slot) => k.pos[i] = kv.pos[i]
             /\ i \in ToSet(slot) => k.shift[i] = 0
  <2>1. kv.pos[i] = -1 \/ before.pos[i] = -1 => kv.shift[i] = 0
    BY <1>2, <1>6 DEF Calm
  <2>2. CASE i \in ToSet(slot)
    BY <1>6, <2>1, <2>2 DEF AllPut
  <2>3. CASE i \notin ToSet(slot)
    BY <1>6, <2>1, <2>3 DEF AllPut
  <2> QED
    BY <2>2, <2>3
<1>7. ASSUME NEW slot, Placed(slot) PROVE Held(i)' /\ Calm(i)'
  <2> DEFINE j == Len(states) + 1
  <2>1. /\ phase = "place" /\ phase' \in {"place", "unwind"} /\ UNCHANGED <<before, rope>>
        /\ SlotFits(slot, j) /\ \A x \in ToSet(slot) : CanUse(kv, x)
        /\ (\A x \in ToSet(slot) : kv.pos[x] = -1) =>
             AllPut(kv', kv, slot, UFirst(j), batch.seq)
    BY <1>7 DEF Placed
  <2>2. \A x \in ToSet(slot) : x \in Cells /\ kv.pos[x] = -1
    BY <1>1, <2>1, OnlyEmpty DEF SlotFits
  <2>3. /\ kv.pos[i] = -1 \/ before.pos[i] = -1 => kv'.shift[i] = 0
        /\ kv.pos[i] # -1 => /\ kv'.pos[i] = kv.pos[i] /\ kv'.shift[i] = kv.shift[i]
    BY <1>6, <2>1, <2>2 DEF Decoding
  <2>4. before.pos[i] # -1 => kv.pos[i] # -1 /\ ~OnTrial(i)
    BY <1>3, <2>1 DEF CellsStay, Decoding, OnTrial
  <2>5. Held(i)'
    BY <1>2, <2>1, <2>3, <2>4 DEF Held, OnTrial, KeyOk
  <2>6. Calm(i)'
    BY <2>1, <2>3, <2>4 DEF Calm
  <2> QED
    BY <2>5, <2>6
<1>8. CASE Unwound
  <2>1. /\ phase = "unwind" /\ before' = before /\ Calm(i) /\ Held(i)
    BY <1>2, <1>8 DEF Unwound
  <2>2. PICK r \in GoodCaches :
          Unplaced(r, kv, 1 .. Len(states)) /\ (r.shift[i] = 0 => kv'.shift[i] = 0)
    BY <1>8 DEF Unwound
  <2>3. r.shift[i] = kv.shift[i]
    BY <2>2 DEF Unplaced
  <2>4. /\ before.pos[i] # -1 => /\ kv'.pos[i] = before.pos[i]
                                 /\ KeyOk(rope, kv, i) => KeyOk(rope', kv', i)
        /\ before.pos[i] = -1 => kv'.pos[i] = -1
    BY <1>1, <1>3, <1>8, UnwoundSteady
  <2>5. before.pos[i] # -1 => kv.pos[i] # -1 /\ ~OnTrial(i)
    BY <1>3, <2>1 DEF CellsStay, Decoding, OnTrial
  <2>6. Held(i)'
    BY <2>1, <2>4, <2>5 DEF Held
  <2>7. Calm(i)'
    BY <2>1, <2>2, <2>3, <2>4 DEF Calm, Decoding
  <2> QED
    BY <2>6, <2>7
<1>9. ASSUME NEW slot, Computed(slot) PROVE Held(i)' /\ Calm(i)'
  <2>1. /\ phase = "compute" /\ before' = before /\ Computing(slot, kv')
        /\ phase' \in {"compute", "returned"}
        /\ rope'[i] = IF i \in ToSet(slot) THEN kv'.pos[i] ELSE rope[i]
    BY <1>9 DEF Computed, Computing
  <2>2. /\ AllPut(kv', kv, slot, UFirst(done + 1), batch.seq)
        /\ \A x \in ToSet(slot) : x \in Cells /\ kv.pos[x] = -1
    BY <1>1, <1>3, <2>1, ComputingSteady
  <2>3. /\ kv.pos[i] = -1 \/ before.pos[i] = -1 => kv'.shift[i] = 0
        /\ kv.pos[i] # -1 => /\ i \notin ToSet(slot) /\ kv'.pos[i] = kv.pos[i]
                             /\ kv'.shift[i] = kv.shift[i]
        /\ i \notin ToSet(slot) => kv'.pos[i] = kv.pos[i]
        /\ i \in ToSet(slot) => kv'.shift[i] = 0
    BY <1>6, <2>1, <2>2 DEF Decoding
  <2>4. kv'.pos[i] \in Positions \union {-1}
    BY <1>3, GoodTypes
  <2>5. Held(i)'
    <3> SUFFICES ASSUME kv'.pos[i] # -1 PROVE KeyOk(rope', kv', i)
      BY DEF Held
    <3>1. CASE i \in ToSet(slot)
      BY <2>1, <2>3, <2>4, <3>1 DEF KeyOk, Positions
    <3>2. CASE i \notin ToSet(slot)
      <4>1. kv.pos[i] # -1 /\ KeyOk(rope, kv, i)
        BY <1>2, <2>1, <2>3, <3>2 DEF Held, OnTrial
      <4> QED
        BY <2>1, <2>3, <3>2, <4>1 DEF KeyOk
    <3> QED
      BY <3>1, <3>2
  <2>6. Calm(i)'
    BY <2>1, <2>2, <2>3 DEF Calm, AllPut
  <2> QED
    BY <2>5, <2>6
<1>10. ASSUME NEW slot, Aborted(slot) PROVE Held(i)' /\ Calm(i)'
  <2>1. /\ \E k : Computing(slot, k)
        /\ phase' = "returned"
        /\ rope'[i] = IF i \in ToSet(slot) THEN Garbage ELSE rope[i]
    BY <1>10 DEF Aborted
  <2>2. phase = "compute" /\ before' = before
    BY <2>1 DEF Computing
  <2>3. IF i \in ToSet(slot) THEN kv'.pos[i] = -1 /\ kv'.shift[i] = 0
        ELSE /\ kv'.pos[i] = kv.pos[i]
             /\ kv'.shift[i] = kv.shift[i] \/ (kv.pos[i] = -1 /\ kv'.shift[i] = 0)
    BY <1>1, <1>3, <1>10, AbortedCell
  <2>4. Held(i)'
    BY <1>2, <2>1, <2>2, <2>3 DEF Held, OnTrial, KeyOk
  <2>5. Calm(i)'
    BY <1>2, <2>1, <2>2, <2>3 DEF Calm, Decoding
  <2> QED
    BY <2>4, <2>5
<1>11. CASE NoOutput
  <2>1. phase = "compute" /\ phase' = "returned" /\ UNCHANGED <<kv, before, rope>>
    BY <1>11 DEF NoOutput
  <2> QED
    BY <1>2, <2>1 DEF Held, Calm, OnTrial, KeyOk, Decoding
<1>12. CASE Leaves
  <2>1. /\ phase \in {"idle", "returned"} /\ phase' \in {"idle", "dead"}
        /\ kv.pos[i] # -1 /\ KeyOk(rope, kv, i) /\ kv'.pos[i] # -1 => KeyOk(rope', kv', i)
        /\ kv'.pos[i] # -1 => kv.pos[i] # -1
        /\ kv'.pos[i] = -1 /\ (kv.pos[i] = -1 => kv.shift[i] = 0) => kv'.shift[i] = 0
    BY <1>12 DEF Leaves, EditKeys
  <2>2. Held(i)'
    BY <1>2, <2>1 DEF Held, OnTrial
  <2>3. Calm(i)'
    BY <1>2, <2>1 DEF Calm, Decoding
  <2> QED
    BY <2>2, <2>3
<1>13. CASE UNCHANGED vars
  <2>1. UNCHANGED <<kv, phase, before, rope>>
    BY <1>13 DEF vars
  <2> QED
    BY <1>2, <2>1 DEF Held, Calm, OnTrial, KeyOk, Decoding
<1> QED
  BY <1>3, <1>4, <1>5, <1>7, <1>8, <1>9, <1>10, <1>11, <1>12, <1>13, StepDoes
     DEF StepIs, Fitted, Refused, Retried

\* Every occupied cell holds a computed key, at the cell's position once the pending shift
\* is applied.
THEOREM KeysCorrect == KSpec => []KeysMatchPositions
<1>1. KInit => KeysAreRight
  BY DEF KInit, KeysAreRight, Reset
<1>2. KeysAreRight => KeysMatchPositions
  BY DEF KeysAreRight, KeysMatchPositions, OnTrial, IsEmpty
<1> QED
  BY <1>1, <1>2, KeysStep, PositionsInvariant, PTL DEF KSpec

-----------------------------------------------------------------------------
(* No hole.  A trial that starts from whole sequences leaves them whole,    *)
(* for what it overwrites of a sequence it makes up by the purge below it,  *)
(* and the ubatches, computed one by one, leave the cells as the trial did. *)

\* A ubatch in the cache, told exactly.
Took(r, k, slot, first, s0) ==
    \A i \in Cells :
        IF i \in ToSet(slot)
        THEN r.seq[i] = {s0} /\ \E x \in 1 .. Len(slot) : slot[x] = i /\ r.pos[i] = first + x - 1
        ELSE /\ r.seq[i] = {s \in k.seq[i] : \A p \in Lost(k, slot, s) : p < k.pos[i]}
             /\ r.seq[i] # {} => r.pos[i] = k.pos[i]

\* apply_ubatch puts every token in, and of every sequence it purges all that is not above
\* what the tokens overwrote, and no more.
LEMMA ApplyTook ==
    ASSUME NEW k \in GoodCaches, NEW slot \in Seq(Cells), NEW first \in Nat,
           NEW s0 \in Seqs, first + Len(slot) - 1 <= MaxPos,
           \A i \in Cells : s0 \in k.seq[i] => k.pos[i] < first
    PROVE  Took(ApplyUbatch(k, slot, first, s0), k, slot, first, s0)
<1> DEFINE a == PutAll(k, slot, first, s0)
           r == ApplyUbatch(k, slot, first, s0)
           n == Len(slot)
<1>1. a \in GoodCaches /\ \A i \in Cells : PutAt(a, k, i, slot, 1 .. n, first, s0)
  BY PutAllGood
<1>2. r \in GoodCaches /\ \A i \in Cells : /\ Shrunk(r, a, i) /\ Kept(r, a, i, k, slot, Seqs)
                                          /\ Purged(r, a, i, k, slot, Seqs)
  BY <1>1, PurgesGood
<1> HIDE DEF a, r
<1>3. n \in Nat /\ (\A x \in 1 .. n : slot[x] \in Cells) /\ ToSet(slot) = {slot[x] : x \in 1 .. n}
  BY DEF ToSet
<1>4. \A i \in Cells : i \in ToSet(slot) <=> \E x \in 1 .. n : slot[x] = i
  BY <1>3
<1> HIDE DEF n
<1> SUFFICES ASSUME NEW i \in Cells
             PROVE  IF i \in ToSet(slot)
                    THEN r.seq[i] = {s0} /\ \E x \in 1 .. n : slot[x] = i /\ r.pos[i] = first + x - 1
                    ELSE /\ r.seq[i] = {s \in k.seq[i] : \A p \in Lost(k, slot, s) : p < k.pos[i]}
                         /\ r.seq[i] # {} => r.pos[i] = k.pos[i]
  BY DEF Took, r, n
<1>5. /\ PutAt(a, k, i, slot, 1 .. n, first, s0)
      /\ Shrunk(r, a, i) /\ Kept(r, a, i, k, slot, Seqs) /\ Purged(r, a, i, k, slot, Seqs)
  BY <1>1, <1>2
<1>6. r.seq[i] # {} => r.pos[i] = a.pos[i]
  BY <1>2, <1>5, GoodTypes DEF Shrunk
<1>7. CASE i \in ToSet(slot)
  <2>1. PICK x \in 1 .. n : a.seq[i] = {s0} /\ slot[x] = i /\ a.pos[i] = first + x - 1
    BY <1>4, <1>5, <1>7 DEF PutAt
  <2>2. \A p \in Lost(k, slot, s0) : p < a.pos[i]
    <3> SUFFICES ASSUME NEW j \in ToSet(slot), k.seq[j] = {s0} PROVE k.pos[j] < a.pos[i]
      BY DEF Lost
    <3>1. j \in Cells /\ k.pos[j] < first /\ k.pos[j] \in Int
      BY <1>3, GoodTypes
    <3> QED
      BY <1>3, <2>1, <3>1
  <2>3. s0 \in r.seq[i]
    BY <1>5, <2>1, <2>2 DEF Kept
  <2>4. r.seq[i] = {s0}
    BY <1>5, <2>1, <2>3 DEF Shrunk
  <2> QED
    BY <1>6, <1>7, <2>1, <2>4
<1>8. CASE i \notin ToSet(slot)
  <2>1. a.pos[i] = k.pos[i] /\ a.seq[i] = k.seq[i] /\ k.seq[i] \subseteq Seqs
    BY <1>4, <1>5, <1>8, GoodTypes DEF PutAt, Untouched
  <2>2. \A s \in r.seq[i] : s \in k.seq[i] /\ \A p \in Lost(k, slot, s) : p < k.pos[i]
    BY <1>5, <2>1 DEF Shrunk, Purged
  <2>3. \A s \in k.seq[i] : (\A p \in Lost(k, slot, s) : p < k.pos[i]) => s \in r.seq[i]
    BY <1>5, <2>1 DEF Kept
  <2>4. r.seq[i] = {s \in k.seq[i] : \A p \in Lost(k, slot, s) : p < k.pos[i]}
    BY <2>2, <2>3
  <2> QED
    BY <1>6, <1>8, <2>1, <2>4
<1> QED
  BY <1>7, <1>8

\* Position of token x of ubatch m.
TokenAt(bt, m, x) == bt.first + (m - 1) * UBatch + x - 1

\* Tokens of the first d ubatches have the next positions after the first one, ...
LEMMA TokenRange ==
    ASSUME NEW bt, bt.first \in Nat, NEW d \in Nat, NEW m \in 1 .. d, NEW x \in 1 .. UBatch
    PROVE  TokenAt(bt, m, x) \in Nat /\ bt.first <= TokenAt(bt, m, x)
           /\ TokenAt(bt, m, x) < bt.first + d * UBatch
<1> DEFINE a == m - 1
           c == d - m
<1>1. UBatch \in Nat /\ UBatch > 0 /\ a \in Nat /\ c \in Nat /\ d = a + 1 + c
  BY BatchAssumption
<1> HIDE DEF a, c
<1>2. a * UBatch \in Nat /\ c * UBatch \in Nat /\ (a + 1 + c) * UBatch = a * UBatch + UBatch + c * UBatch
  BY <1>1
<1>3. TokenAt(bt, m, x) = bt.first + a * UBatch + x - 1
  BY DEF TokenAt, a
<1> DEFINE A == a * UBatch
           C == c * UBatch
<1>4. A \in Nat /\ C \in Nat /\ d * UBatch = A + UBatch + C /\ TokenAt(bt, m, x) = bt.first + A + x - 1
  BY <1>1, <1>2, <1>3
<1> HIDE DEF A, C
<1> QED
  BY <1>1, <1>4

\* ... and all of them.
LEMMA TokenOfPosition ==
    ASSUME NEW bt, bt.first \in Nat, NEW d \in Nat, NEW q \in Int,
           bt.first <= q, q < bt.first + d * UBatch
    PROVE  \E m \in 1 .. d : \E x \in 1 .. UBatch : q = TokenAt(bt, m, x)
<1> DEFINE Q == {n \in Nat : q < bt.first + n * UBatch =>
                   \E m \in 1 .. n : \E x \in 1 .. UBatch : q = TokenAt(bt, m, x)}
<1>u. UBatch \in Nat /\ UBatch > 0
  BY BatchAssumption
<1>1. 0 \in Q
  <2>1. 0 * UBatch = 0
    BY <1>u
  <2> QED
    BY <2>1
<1>2. ASSUME NEW n \in Nat, n \in Q PROVE n + 1 \in Q
  <2> DEFINE A == n * UBatch
  <2>1. A \in Nat /\ (n + 1) * UBatch = A + UBatch
    BY <1>u
  <2>2. q < bt.first + A => \E m \in 1 .. n : \E x \in 1 .. UBatch : q = TokenAt(bt, m, x)
    BY <1>2
  <2>3. \A x : TokenAt(bt, n + 1, x) = bt.first + A + x - 1
    <3>1. (n + 1) - 1 = n
      OBVIOUS
    <3> QED
      BY <3>1 DEF TokenAt
  <2> HIDE DEF A
  <2>4. ASSUME q < bt.first + (A + UBatch)
        PROVE  \E m \in 1 .. n + 1 : \E x \in 1 .. UBatch : q = TokenAt(bt, m, x)
    <3>1. CASE q < bt.first + A
      <4>1. \A m \in 1 .. n : m \in 1 .. n + 1
        OBVIOUS
      <4> QED
        BY <2>2, <3>1, <4>1
    <3>2. CASE ~(q < bt.first + A)
      <4> DEFINE x == q - bt.first - A + 1
      <4>1. x \in 1 .. UBatch /\ q = bt.first + A + x - 1
        BY <1>u, <2>1, <2>4, <3>2
      <4>2. n + 1 \in 1 .. n + 1
        OBVIOUS
      <4> HIDE DEF x
      <4> QED
        BY <2>3, <4>1, <4>2
    <3> QED
      BY <3>1, <3>2
  <2> QED
    BY <2>1, <2>4
<1> HIDE DEF Q
<1>3. d \in Q
  BY <1>1, <1>2, NatSetInduction
<1> QED
  BY <1>3 DEF Q

\* What the trial makes of a cell, from what it was before (b), the recovery stack (st)
\* and the batch (bt).  After d ubatches the cell was last written by a token, or never, ...
SlotsHave(st, i, J) == \E j \in J : i \in ToSet(st[j].slot)
Writes(st, bt, i, m, p) == \E x \in 1 .. Len(st[m].slot) : st[m].slot[x] = i /\ p = TokenAt(bt, m, x)
Written(st, b, bt, i, d, p, S) ==
    \/ ~SlotsHave(st, i, 1 .. d) /\ p = b.pos[i] /\ S = b.seq[i]
    \/ \E m \in 1 .. d : Writes(st, bt, i, m, p) /\ ~SlotsHave(st, i, (m + 1) .. d) /\ S = {bt.seq}
\* ... and of the sequences it had then it has those that lost nothing above it.
Outlives(st, s, p, d) == \A m \in 1 .. d : \A q \in Lost(st[m].old, st[m].slot, s) : q < p
Tells(r, st, b, bt, i, d) ==
    \E p \in Int, S \in SUBSET Seqs :
        /\ Written(st, b, bt, i, d, p, S)
        /\ r.seq[i] = {s \in S : Outlives(st, s, p, d)} /\ (r.seq[i] # {} => r.pos[i] = p)

\* The stack remembers what the trial had made of the cells it overwrote, and a slot has
\* distinct cells of a single sequence or none.
StackTells(st, b, bt) ==
    \A j \in 1 .. Len(st) :
        /\ Len(st[j].slot) \in 1 .. UBatch /\ (j < Len(st) => Len(st[j].slot) = UBatch)
        /\ Apart(st[j].slot)
        /\ \A i \in ToSet(st[j].slot) : /\ Tells(st[j].old, st, b, bt, i, j - 1)
                                        /\ \A s \in st[j].old.seq[i] : st[j].old.seq[i] = {s}
\* What the trial starts from: the batch continues its sequence.
BaseTells(b, bt) ==
    /\ b.pos \in [Cells -> Positions \union {-1}] /\ b.seq \in [Cells -> SUBSET Seqs]
    /\ \A i \in Cells : b.pos[i] = -1 <=> b.seq[i] = {}
    /\ bt.first \in Nat /\ bt.seq \in Seqs /\ SeqEndsAt(b, bt.seq, bt.first - 1)
Told(st, b, bt) == st \in Seq(StackEntries) /\ StackTells(st, b, bt) /\ BaseTells(b, bt)

\* The entries of the stack.
LEMMA EntryIs ==
    ASSUME NEW st, NEW b, NEW bt, Told(st, b, bt), NEW m \in 1 .. Len(st)
    PROVE  /\ Len(st) \in Nat /\ st[m].slot \in Seq(Cells) /\ GoodState(st[m])
           /\ Len(st[m].slot) \in 1 .. UBatch /\ (m < Len(st) => Len(st[m].slot) = UBatch)
           /\ Apart(st[m].slot)
           /\ \A i \in ToSet(st[m].slot) : /\ i \in Cells /\ Tells(st[m].old, st, b, bt, i, m - 1)
                                           /\ \A s \in st[m].old.seq[i] : st[m].old.seq[i] = {s}
           /\ \A x \in 1 .. Len(st[m].slot) : st[m].slot[x] \in ToSet(st[m].slot)
           /\ \A s : \A q \in Lost(st[m].old, st[m].slot, s) : q \in Int
<1>1. st[m] \in StackEntries /\ Len(st) \in Nat
  BY DEF Told
<1>2. st[m].slot \in Seq(Cells) /\ GoodState(st[m])
  BY <1>1 DEF StackEntries
<1>3. ToSet(st[m].slot) = {st[m].slot[x] : x \in 1 .. Len(st[m].slot)}
  BY <1>2 DEF ToSet
<1>4. \A i \in ToSet(st[m].slot) : i \in Cells
  BY <1>2, <1>3
<1>5. \A s : \A q \in Lost(st[m].old, st[m].slot, s) : q \in Int
  BY <1>2 DEF Lost, GoodState, Positions
<1> QED
  BY <1>1, <1>2, <1>3, <1>4, <1>5 DEF Told, StackTells

\* A cell was written last by one token.
LEMMA WrittenOnce ==
    ASSUME NEW st, NEW b, NEW bt, Told(st, b, bt), NEW i, NEW d \in 0 .. Len(st),
           NEW p, NEW S, NEW p2, NEW S2,
           Written(st, b, bt, i, d, p, S), Written(st, b, bt, i, d, p2, S2)
    PROVE  p = p2 /\ S = S2
<1>n. Len(st) \in Nat
  BY DEF Told
<1>1. ASSUME NEW m \in 1 .. d, NEW q, Writes(st, bt, i, m, q) PROVE i \in ToSet(st[m].slot)
  <2>1. m \in 1 .. Len(st)
    BY <1>n
  <2> QED
    BY <1>1, <2>1, EntryIs DEF Writes
<1>2. CASE ~SlotsHave(st, i, 1 .. d)
  BY <1>1, <1>2 DEF Written, SlotsHave
<1>3. CASE SlotsHave(st, i, 1 .. d)
  <2>1. PICK m \in 1 .. d : Writes(st, bt, i, m, p) /\ ~SlotsHave(st, i, (m + 1) .. d) /\ S = {bt.seq}
    BY <1>3 DEF Written
  <2>2. PICK m2 \in 1 .. d : Writes(st, bt, i, m2, p2) /\ ~SlotsHave(st, i, (m2 + 1) .. d) /\ S2 = {bt.seq}
    BY <1>3 DEF Written
  <2>3. i \in ToSet(st[m].slot) /\ i \in ToSet(st[m2].slot)
    BY <1>1, <2>1, <2>2
  <2>4. ~(m < m2) /\ ~(m2 < m)
    <3>1. m < m2 => m2 \in (m + 1) .. d
      OBVIOUS
    <3>2. m2 < m => m \in (m2 + 1) .. d
      OBVIOUS
    <3> QED
      BY <2>1, <2>2, <2>3, <3>1, <3>2 DEF SlotsHave
  <2>5. m = m2
    BY <2>4
  <2>6. Apart(st[m].slot)
    <3>1. m \in 1 .. Len(st)
      BY <1>n
    <3> QED
      BY <3>1, EntryIs
  <2>7. p = p2
    BY <2>1, <2>2, <2>5, <2>6 DEF Writes, Apart
  <2> QED
    BY <2>1, <2>2, <2>7
<1> QED
  BY <1>2, <1>3

\* Two caches agree in a cell.
Alike(r, k, i) == r.seq[i] = k.seq[i] /\ (r.seq[i] # {} => r.pos[i] = k.pos[i])

\* So do two caches that are told the same.
LEMMA ToldAlike ==
    ASSUME NEW st, NEW b, NEW bt, Told(st, b, bt), NEW i, NEW d \in 0 .. Len(st), NEW r, NEW r2,
           Tells(r, st, b, bt, i, d), Tells(r2, st, b, bt, i, d)
    PROVE  Alike(r, r2, i)
<1>1. PICK p \in Int, S \in SUBSET Seqs :
        /\ Written(st, b, bt, i, d, p, S)
        /\ r.seq[i] = {s \in S : Outlives(st, s, p, d)} /\ (r.seq[i] # {} => r.pos[i] = p)
  BY DEF Tells
<1>2. PICK p2 \in Int, S2 \in SUBSET Seqs :
        /\ Written(st, b, bt, i, d, p2, S2)
        /\ r2.seq[i] = {s \in S2 : Outlives(st, s, p2, d)} /\ (r2.seq[i] # {} => r2.pos[i] = p2)
  BY DEF Tells
<1>3. p = p2 /\ S = S2
  BY <1>1, <1>2, WrittenOnce
<1> QED
  BY <1>1, <1>2, <1>3 DEF Alike

\* What a cell of the batch's sequence was written with is below the next ubatch, ...
LEMMA WrittenBelow ==
    ASSUME NEW st, NEW b, NEW bt, Told(st, b, bt), NEW i \in Cells, NEW d \in 0 .. Len(st),
           NEW p, NEW S, Written(st, b, bt, i, d, p, S), bt.seq \in S
    PROVE  p \in Int /\ p < bt.first + d * UBatch
<1>u. UBatch \in Nat /\ d \in Nat /\ Len(st) \in Nat /\ bt.first \in Nat /\ d * UBatch \in Nat
  BY BatchAssumption DEF Told, BaseTells
<1>1. CASE ~SlotsHave(st, i, 1 .. d) /\ p = b.pos[i] /\ S = b.seq[i]
  <2>1. p <= bt.first - 1 /\ p \in Int
    BY <1>1 DEF Told, BaseTells, SeqEndsAt, Positions
  <2> DEFINE A == d * UBatch
  <2> HIDE DEF A
  <2>2. A \in Nat
    BY <1>u DEF A
  <2>3. p < bt.first + A
    BY <1>u, <2>1, <2>2
  <2> QED
    BY <2>1, <2>3 DEF A
<1>2. ASSUME NEW m \in 1 .. d, Writes(st, bt, i, m, p)
      PROVE  p \in Int /\ p < bt.first + d * UBatch
  <2>1. PICK x \in 1 .. Len(st[m].slot) : p = TokenAt(bt, m, x)
    BY <1>2 DEF Writes
  <2>2. x \in 1 .. UBatch
    <3>1. m \in 1 .. Len(st)
      BY <1>u
    <3>2. Len(st[m].slot) \in 1 .. UBatch
      BY <3>1, EntryIs
    <3> QED
      BY <1>u, <3>2
  <2>3. TokenAt(bt, m, x) \in Nat /\ TokenAt(bt, m, x) < bt.first + d * UBatch
    BY <1>u, <2>2, TokenRange
  <2> QED
    BY <2>1, <2>3
<1> QED
  BY <1>1, <1>2 DEF Written

\* ... and so is what the next ubatch overwrites of it.
LEMMA LostBelow ==
    ASSUME NEW st, NEW b, NEW bt, Told(st, b, bt), NEW m \in 1 .. Len(st),
           NEW q \in Lost(st[m].old, st[m].slot, bt.seq)
    PROVE  q < bt.first + (m - 1) * UBatch
<1>1. PICK i \in ToSet(st[m].slot) : st[m].old.seq[i] = {bt.seq} /\ q = st[m].old.pos[i]
  BY DEF Lost
<1>2. i \in Cells /\ Tells(st[m].old, st, b, bt, i, m - 1) /\ m - 1 \in 0 .. Len(st)
  <2>1. Len(st) \in Nat
    BY EntryIs
  <2> QED
    BY <2>1, EntryIs
<1>3. PICK p \in Int, S \in SUBSET Seqs :
        /\ Written(st, b, bt, i, m - 1, p, S) /\ bt.seq \in S /\ st[m].old.pos[i] = p
  BY <1>1, <1>2 DEF Tells
<1>4. p < bt.first + (m - 1) * UBatch
  BY <1>2, <1>3, WrittenBelow
<1> QED
  BY <1>1, <1>3, <1>4

\* A cell that the next slot leaves alone, ...
LEMMA WrittenStays ==
    ASSUME NEW st, NEW b, NEW bt, NEW i, NEW d \in Nat, NEW p, NEW S,
           Written(st, b, bt, i, d, p, S), i \notin ToSet(st[d + 1].slot)
    PROVE  Written(st, b, bt, i, d + 1, p, S)
<1>1. \A m \in 1 .. d + 1 : m \in 1 .. d \/ m = d + 1
  OBVIOUS
<1>2. CASE ~SlotsHave(st, i, 1 .. d) /\ p = b.pos[i] /\ S = b.seq[i]
  <2>1. ~SlotsHave(st, i, 1 .. d + 1)
    BY <1>1, <1>2 DEF SlotsHave
  <2> QED
    BY <1>2, <2>1 DEF Written
<1>3. ASSUME NEW m \in 1 .. d, Writes(st, bt, i, m, p), ~SlotsHave(st, i, (m + 1) .. d), S = {bt.seq}
      PROVE  Written(st, b, bt, i, d + 1, p, S)
  <2>1. \A j \in (m + 1) .. d + 1 : j \in (m + 1) .. d \/ j = d + 1
    OBVIOUS
  <2>2. ~SlotsHave(st, i, (m + 1) .. d + 1)
    BY <1>3, <2>1 DEF SlotsHave
  <2>3. m \in 1 .. d + 1
    OBVIOUS
  <2> QED
    BY <1>3, <2>2, <2>3 DEF Written
<1> QED
  BY <1>2, <1>3 DEF Written

\* ... and one that it writes.
LEMMA WrittenNow ==
    ASSUME NEW st, NEW b, NEW bt, NEW i, NEW d \in Nat, NEW x \in 1 .. Len(st[d + 1].slot),
           st[d + 1].slot[x] = i
    PROVE  Written(st, b, bt, i, d + 1, TokenAt(bt, d + 1, x), {bt.seq})
<1>1. ~SlotsHave(st, i, (d + 1 + 1) .. d + 1) /\ d + 1 \in 1 .. d + 1
  BY DEF SlotsHave
<1> QED
  BY <1>1 DEF Written, Writes

\* What was written and lost nothing above it is still there: a slot would have lost it.
LEMMA TrialStays ==
    ASSUME NEW st, NEW b, NEW bt, Told(st, b, bt), NEW i \in Cells, NEW d \in 0 .. Len(st),
           NEW d0 \in 0 .. d, NEW p \in Int, NEW S \in SUBSET Seqs, NEW s \in S,
           Written(st, b, bt, i, d0, p, S), Outlives(st, s, p, d)
    PROVE  Written(st, b, bt, i, d, p, S)
<1>n. Len(st) \in Nat /\ d \in Nat /\ d0 \in Nat
  BY DEF Told
<1> DEFINE Q == {n \in Nat : d0 + n <= d => Written(st, b, bt, i, d0 + n, p, S)}
<1>1. 0 \in Q
  <2>1. d0 + 0 = d0
    BY <1>n
  <2> QED
    BY <2>1
<1>2. ASSUME NEW n \in Nat, n \in Q PROVE n + 1 \in Q
  <2> SUFFICES ASSUME d0 + (n + 1) <= d PROVE Written(st, b, bt, i, d0 + (n + 1), p, S)
    OBVIOUS
  <2> DEFINE e == d0 + n
  <2>1. e \in Nat /\ e \in 0 .. Len(st) /\ e + 1 = d0 + (n + 1) /\ e + 1 \in 1 .. Len(st)
        /\ e + 1 \in 1 .. d /\ (e + 1) - 1 = e
    BY <1>n
  <2>2. Written(st, b, bt, i, e, p, S)
    BY <1>2, <1>n
  <2> HIDE DEF Q, e
  <2>3. ASSUME i \in ToSet(st[e + 1].slot) PROVE FALSE
    <3>1. Tells(st[e + 1].old, st, b, bt, i, e) /\ \A z \in st[e + 1].old.seq[i] : st[e + 1].old.seq[i] = {z}
      BY <2>1, <2>3, EntryIs
    <3>2. PICK p2 \in Int, S2 \in SUBSET Seqs :
        /\ Written(st, b, bt, i, e, p2, S2)
        /\ st[e + 1].old.seq[i] = {z \in S2 : Outlives(st, z, p2, e)}
        /\ st[e + 1].old.seq[i] # {} => st[e + 1].old.pos[i] = p2
      BY <3>1 DEF Tells
    <3>3. p = p2 /\ S = S2
      BY <2>1, <2>2, <3>2, WrittenOnce
    <3>4. Outlives(st, s, p, e)
      <4>1. \A m \in 1 .. e : m \in 1 .. d
        BY <1>n, <2>1
      <4> QED
        BY <4>1 DEF Outlives
    <3>5. st[e + 1].old.seq[i] = {s} /\ st[e + 1].old.pos[i] = p
      BY <3>1, <3>2, <3>3, <3>4
    <3>6. p \in Lost(st[e + 1].old, st[e + 1].slot, s)
      BY <2>3, <3>5 DEF Lost
    <3>7. p < p
      BY <2>1, <3>6 DEF Outlives
    <3> QED
      BY <3>7
  <2>4. Written(st, b, bt, i, e + 1, p, S)
    BY <2>1, <2>2, <2>3, WrittenStays
  <2> QED
    BY <2>1, <2>4
<1> HIDE DEF Q
<1>3. Nat \subseteq Q
  BY <1>1, <1>2, NatSetInduction
<1>4. d - d0 \in Nat /\ d0 + (d - d0) = d
  BY <1>n
<1>5. d - d0 \in Q
  BY <1>3, <1>4
<1> QED
  BY <1>4, <1>5 DEF Q

\* The next ubatch, in a cell that is told.
LEMMA TellsNext ==
    ASSUME NEW st, NEW b, NEW bt, Told(st, b, bt), NEW d \in Nat, d + 1 <= Len(st),
           NEW k, NEW r, Took(r, k, st[d + 1].slot, bt.first + d * UBatch, bt.seq),
           \A s : Lost(k, st[d + 1].slot, s) = Lost(st[d + 1].old, st[d + 1].slot, s),
           NEW i \in Cells, Tells(k, st, b, bt, i, d) \/ i \in ToSet(st[d + 1].slot)
    PROVE  Tells(r, st, b, bt, i, d + 1)
<1> DEFINE j == d + 1
           slot == st[j].slot
<1>1. j \in 1 .. Len(st) /\ j - 1 = d
  <2>1. Len(st) \in Nat
    BY DEF Told
  <2> QED
    BY <2>1
<1>u. UBatch \in Nat /\ bt.first \in Nat /\ bt.seq \in Seqs
  BY BatchAssumption DEF Told, BaseTells
<1>2. CASE i \in ToSet(slot)
  <2>1. PICK x \in 1 .. Len(slot) : /\ r.seq[i] = {bt.seq} /\ slot[x] = i
                                    /\ r.pos[i] = bt.first + d * UBatch + x - 1
    BY <1>2 DEF Took
  <2> DEFINE p == TokenAt(bt, j, x)
  <2>2. p = bt.first + d * UBatch + x - 1
    BY <1>1 DEF TokenAt
  <2>3. Written(st, b, bt, i, j, p, {bt.seq})
    BY <2>1, WrittenNow
  <2>4. d * UBatch \in Nat /\ x \in Nat /\ x >= 1 /\ p \in Int
    <3>1. Len(slot) \in 1 .. UBatch
      BY <1>1, EntryIs
    <3>2. x \in Nat /\ x >= 1 /\ d * UBatch \in Nat
      BY <1>u, <3>1
    <3> QED
      BY <1>u, <2>2, <3>2
  <2> HIDE DEF p, j, slot
  <2>5. Outlives(st, bt.seq, p, j)
    <3> SUFFICES ASSUME NEW m \in 1 .. j, NEW q \in Lost(st[m].old, st[m].slot, bt.seq) PROVE q < p
      BY DEF Outlives
    <3>1. m \in 1 .. Len(st) /\ Len(st) \in Nat
      <4>1. Len(st) \in Nat
        BY DEF Told
      <4> QED
        BY <1>1, <4>1
    <3>2. q < bt.first + (m - 1) * UBatch /\ q \in Int
      BY <3>1, LostBelow, EntryIs
    <3>3. (m - 1) * UBatch \in Nat /\ (m - 1) * UBatch <= d * UBatch
      <4> DEFINE a == m - 1
                 c == d - a
      <4>1. a \in Nat /\ c \in Nat /\ d = a + c
        BY <1>1
      <4> HIDE DEF a, c
      <4>2. a * UBatch \in Nat /\ c * UBatch \in Nat /\ (a + c) * UBatch = a * UBatch + c * UBatch
        BY <1>u, <4>1
      <4> QED
        BY <4>1, <4>2 DEF a
    <3> DEFINE A == (m - 1) * UBatch
               D == d * UBatch
    <3> HIDE DEF A, D
    <3>4. q < bt.first + A /\ A \in Nat /\ D \in Nat /\ A <= D /\ p = bt.first + D + x - 1
      BY <2>2, <2>4, <3>2, <3>3 DEF A, D
    <3> DEFINE f == bt.first
    <3> HIDE DEF f
    <3>5. f \in Nat /\ q < f + A /\ p = f + D + x - 1
      BY <1>u, <3>4 DEF f
    <3>6. q < f + D
      BY <3>2, <3>4, <3>5
    <3> QED
      BY <2>4, <3>2, <3>4, <3>5, <3>6
  <2>6. r.seq[i] = {s \in {bt.seq} : Outlives(st, s, p, j)} /\ r.pos[i] = p
    BY <2>1, <2>2, <2>5
  <2>7. {bt.seq} \in SUBSET Seqs
    BY <1>u
  <2> QED
    BY <2>3, <2>4, <2>6, <2>7 DEF Tells, j
<1>3. CASE i \notin ToSet(slot)
  <2>1. PICK p \in Int, S \in SUBSET Seqs :
        /\ Written(st, b, bt, i, d, p, S)
        /\ k.seq[i] = {s \in S : Outlives(st, s, p, d)} /\ (k.seq[i] # {} => k.pos[i] = p)
    BY <1>3 DEF Tells
  <2>2. Written(st, b, bt, i, j, p, S)
    BY <1>3, <2>1, WrittenStays
  <2>3. /\ r.seq[i] = {s \in k.seq[i] : \A q \in Lost(st[j].old, slot, s) : q < k.pos[i]}
        /\ r.seq[i] # {} => r.pos[i] = k.pos[i]
    BY <1>3 DEF Took
  <2> HIDE DEF slot
  <2>4. \A m : m \in 1 .. j <=> m \in 1 .. d \/ m = j
    BY <1>1
  <2>5. \A s : Outlives(st, s, p, j) <=> /\ Outlives(st, s, p, d)
                                         /\ \A q \in Lost(st[j].old, slot, s) : q < p
    BY <2>4 DEF Outlives, slot
  <2> HIDE DEF j
  <2>6. r.seq[i] = {s \in S : Outlives(st, s, p, j)}
    BY <2>1, <2>3, <2>5
  <2>7. r.seq[i] # {} => r.pos[i] = p
    BY <2>1, <2>3
  <2> QED
    BY <2>1, <2>2, <2>6, <2>7 DEF Tells, j
<1> QED
  BY <1>2, <1>3

\* The positions of a sequence after d ubatches: those it had and got, above what it lost.
Given(st, b, bt, s, q, d) ==
    \/ \E i \in Cells : s \in b.seq[i] /\ b.pos[i] = q
    \/ s = bt.seq /\ \E m \in 1 .. d : \E x \in 1 .. Len(st[m].slot) : q = TokenAt(bt, m, x)
HeldIn(k, s, q) == \E i \in Cells : s \in k.seq[i] /\ k.pos[i] = q

\* The cells hold exactly those positions.
LEMMA TellsHeld ==
    ASSUME NEW st, NEW b, NEW bt, Told(st, b, bt), NEW d \in 0 .. Len(st), NEW r,
           \A i \in Cells : Tells(r, st, b, bt, i, d), NEW s \in Seqs, NEW q \in Int
    PROVE  HeldIn(r, s, q) <=> Given(st, b, bt, s, q, d) /\ Outlives(st, s, q, d)
<1>n. Len(st) \in Nat /\ d \in Nat
  BY DEF Told
<1>1. ASSUME NEW i \in Cells, s \in r.seq[i], r.pos[i] = q
      PROVE  Given(st, b, bt, s, q, d) /\ Outlives(st, s, q, d)
  <2>1. PICK p \in Int, S \in SUBSET Seqs :
        /\ Written(st, b, bt, i, d, p, S)
        /\ r.seq[i] = {z \in S : Outlives(st, z, p, d)} /\ (r.seq[i] # {} => r.pos[i] = p)
    BY DEF Tells
  <2>2. p = q /\ s \in S /\ Outlives(st, s, q, d)
    BY <1>1, <2>1
  <2>3. Given(st, b, bt, s, q, d)
    BY <2>1, <2>2 DEF Written, Writes, Given
  <2> QED
    BY <2>2, <2>3
<1>2. ASSUME NEW i \in Cells, NEW d0 \in 0 .. d, NEW S \in SUBSET Seqs, s \in S,
             Written(st, b, bt, i, d0, q, S), Outlives(st, s, q, d)
      PROVE  HeldIn(r, s, q)
  <2>1. Written(st, b, bt, i, d, q, S)
    BY <1>2, TrialStays
  <2>2. PICK p \in Int, S2 \in SUBSET Seqs :
        /\ Written(st, b, bt, i, d, p, S2)
        /\ r.seq[i] = {z \in S2 : Outlives(st, z, p, d)} /\ (r.seq[i] # {} => r.pos[i] = p)
    BY DEF Tells
  <2>3. p = q /\ S2 = S
    BY <2>1, <2>2, WrittenOnce
  <2> QED
    BY <1>2, <2>2, <2>3 DEF HeldIn
<1>3. ASSUME NEW i \in Cells, s \in b.seq[i], b.pos[i] = q, Outlives(st, s, q, d)
      PROVE  HeldIn(r, s, q)
  <2>1. Written(st, b, bt, i, 0, q, b.seq[i])
    <3>1. ~SlotsHave(st, i, 1 .. 0)
      BY DEF SlotsHave
    <3> QED
      BY <1>3, <3>1 DEF Written
  <2>2. b.seq[i] \in SUBSET Seqs /\ 0 \in 0 .. d
    BY <1>n DEF Told, BaseTells
  <2> QED
    BY <1>2, <1>3, <2>1, <2>2
<1>4. ASSUME s = bt.seq, NEW m \in 1 .. d, NEW x \in 1 .. Len(st[m].slot), q = TokenAt(bt, m, x),
             Outlives(st, s, q, d)
      PROVE  HeldIn(r, s, q)
  <2>1. m \in 1 .. Len(st) /\ m \in 0 .. d /\ m - 1 \in Nat /\ (m - 1) + 1 = m
    BY <1>n
  <2>2. st[m].slot[x] \in Cells
    BY <2>1, EntryIs
  <2>3. Written(st, b, bt, st[m].slot[x], m, q, {s})
    <3> DEFINE e == m - 1
    <3>1. e \in Nat /\ e + 1 = m
      BY <2>1
    <3> HIDE DEF e
    <3>2. Written(st, b, bt, st[m].slot[x], e + 1, TokenAt(bt, e + 1, x), {bt.seq})
      BY <3>1, WrittenNow
    <3> QED
      BY <1>4, <3>1, <3>2
  <2>4. {s} \in SUBSET Seqs /\ s \in {s}
    OBVIOUS
  <2> QED
    BY <1>2, <1>4, <2>1, <2>2, <2>3, <2>4
<1> QED
  BY <1>1, <1>3, <1>4 DEF HeldIn, Given

\* Whole, position by position.
LEMMA WholeIs ==
    ASSUME NEW k, NEW s, \A i \in Cells : s \in k.seq[i] => k.pos[i] \in Int
    PROVE  Whole(k, s) <=> \A p, q \in Int : HeldIn(k, s, p) /\ HeldIn(k, s, q) =>
                             \A y \in p .. q : HeldIn(k, s, y)
<1> DEFINE held == {k.pos[i] : i \in {i \in Cells : s \in k.seq[i]}}
<1>1. \A y : y \in held <=> HeldIn(k, s, y)
  BY DEF HeldIn
<1>2. held \subseteq Int
  OBVIOUS
<1>3. Whole(k, s) <=> \A p, q \in held : p .. q \subseteq held
  BY DEF Whole
<1> HIDE DEF held
<1> QED
  BY <1>1, <1>2, <1>3

\* The cells that the trial tells have no hole where there was none before.
LEMMA TellsWhole ==
    ASSUME NEW st, NEW b, NEW bt, Told(st, b, bt), NEW d \in 0 .. Len(st), NEW r \in GoodCaches,
           \A i \in Cells : Tells(r, st, b, bt, i, d), NEW s \in Seqs, Whole(b, s)
    PROVE  Whole(r, s)
<1>n. Len(st) \in Nat /\ d \in Nat /\ UBatch \in Nat /\ UBatch > 0 /\ bt.first \in Nat
  BY BatchAssumption DEF Told, BaseTells
<1>b. /\ \A i \in Cells : s \in b.seq[i] => b.pos[i] \in Nat
      /\ SeqEndsAt(b, bt.seq, bt.first - 1)
  BY DEF Told, BaseTells, Positions
<1>1. \A p, q \in Int : HeldIn(b, s, p) /\ HeldIn(b, s, q) => \A y \in p .. q : HeldIn(b, s, y)
  BY <1>b, WholeIs
<1> SUFFICES ASSUME NEW p \in Int, NEW q \in Int, HeldIn(r, s, p), HeldIn(r, s, q), NEW y \in p .. q
             PROVE  HeldIn(r, s, y)
  <2>1. \A i \in Cells : s \in r.seq[i] => r.pos[i] \in Int
    BY GoodTypes
  <2> QED
    BY <2>1, WholeIs
<1>2. /\ Given(st, b, bt, s, p, d) /\ Outlives(st, s, p, d)
      /\ Given(st, b, bt, s, q, d) /\ Outlives(st, s, q, d)
      /\ y \in Int /\ p <= y /\ y <= q
  BY TellsHeld
<1>3. Outlives(st, s, y, d)
  <2> SUFFICES ASSUME NEW m \in 1 .. d, NEW z \in Lost(st[m].old, st[m].slot, s) PROVE z < y
    BY DEF Outlives
  <2>1. m \in 1 .. Len(st)
    BY <1>n
  <2>2. z < p /\ z \in Int
    BY <1>2, <2>1, EntryIs DEF Outlives
  <2> QED
    BY <1>2, <2>2
<1>t. ASSUME NEW z \in Int, NEW m \in 1 .. d, NEW x \in 1 .. Len(st[m].slot), z = TokenAt(bt, m, x)
      PROVE  bt.first <= z /\ z < bt.first + m * UBatch
  <2>1. m \in 1 .. Len(st) /\ m \in Nat /\ m \in 1 .. m
    BY <1>n
  <2>2. x \in 1 .. UBatch
    <3>1. Len(st[m].slot) \in 1 .. UBatch
      BY <2>1, EntryIs
    <3> QED
      BY <1>n, <3>1
  <2>3. bt.first <= TokenAt(bt, m, x) /\ TokenAt(bt, m, x) < bt.first + m * UBatch
    BY <1>n, <2>1, <2>2, TokenRange
  <2> QED
    BY <1>t, <2>3
<1>e. HeldIn(b, s, y) => HeldIn(r, s, y)
  <2>1. HeldIn(b, s, y) => Given(st, b, bt, s, y, d)
    BY DEF HeldIn, Given
  <2> QED
    BY <1>2, <1>3, <2>1, TellsHeld
<1>4. CASE HeldIn(b, s, p) /\ HeldIn(b, s, q)
  BY <1>1, <1>4, <1>e
<1>5. CASE s = bt.seq
  <2>1. \A z \in Int : HeldIn(b, s, z) => z < bt.first
    BY <1>5, <1>b, <1>n DEF SeqEndsAt, HeldIn
  <2>2. CASE y < bt.first
    <3>1. HeldIn(b, s, p)
      <4>1. p < bt.first
        BY <1>2, <1>n, <2>2
      <4> QED
        BY <1>2, <1>t, <1>n, <4>1 DEF Given, HeldIn
    <3>2. HeldIn(b, s, bt.first - 1)
      <4>1. p \in Nat /\ p < bt.first
        BY <1>b, <1>2, <2>2, <1>n, <3>1 DEF HeldIn
      <4>2. bt.first - 1 # -1
        BY <1>n, <4>1
      <4> QED
        BY <1>5, <1>b, <4>2 DEF SeqEndsAt, HeldIn
    <3>3. y \in p .. (bt.first - 1) /\ bt.first - 1 \in Int
      BY <1>2, <1>n, <2>2
    <3>4. HeldIn(b, s, y)
      BY <1>1, <3>1, <3>2, <3>3
    <3> QED
      BY <1>e, <3>4
  <2>3. CASE ~(y < bt.first)
    <3>1. PICK m2 \in 1 .. d : \E x2 \in 1 .. Len(st[m2].slot) : q = TokenAt(bt, m2, x2)
      <4>1. ~HeldIn(b, s, q)
        BY <1>2, <1>n, <2>1, <2>3
      <4> QED
        BY <1>2, <4>1 DEF Given, HeldIn
    <3>2. PICK x2 \in 1 .. Len(st[m2].slot) : q = TokenAt(bt, m2, x2)
      BY <3>1
    <3>3. q < bt.first + m2 * UBatch
      BY <1>t, <3>2
    <3>4. m2 \in Nat /\ m2 \in 1 .. Len(st) /\ m2 * UBatch \in Nat
      BY <1>n
    <3>5. PICK m \in 1 .. m2 : \E x \in 1 .. UBatch : y = TokenAt(bt, m, x)
      <4>1. y < bt.first + m2 * UBatch
        <5> DEFINE A == m2 * UBatch
        <5> HIDE DEF A
        <5>1. A \in Nat /\ q < bt.first + A
          BY <3>3, <3>4 DEF A
        <5>2. y < bt.first + A
          BY <1>2, <1>n, <5>1
        <5> QED
          BY <5>2 DEF A
      <4>2. bt.first <= y
        BY <1>n, <1>2, <2>3
      <4> QED
        BY <1>n, <1>2, <3>4, <4>1, <4>2, TokenOfPosition
    <3>6. PICK x \in 1 .. UBatch : y = TokenAt(bt, m, x)
      BY <3>5
    <3>7. x \in 1 .. Len(st[m].slot)
      <4>1. CASE m < m2
        <5>1. m \in 1 .. Len(st) /\ m < Len(st)
          BY <1>n, <4>1
        <5>2. Len(st[m].slot) = UBatch
          BY <5>1, EntryIs
        <5> QED
          BY <5>2
      <4>2. CASE m = m2
        <5> DEFINE A == (m - 1) * UBatch
        <5>1. A \in Nat
          <6>1. m - 1 \in Nat
            BY <1>n
          <6> QED
            BY <1>n, <6>1
        <5>2. y = bt.first + A + x - 1 /\ q = bt.first + A + x2 - 1
          BY <3>2, <3>6, <4>2 DEF TokenAt
        <5> HIDE DEF A
        <5>3. Len(st[m].slot) \in Nat /\ x2 \in 1 .. Len(st[m].slot)
          <6>1. Len(st[m2].slot) \in 1 .. UBatch
            BY <3>4, EntryIs
          <6> QED
            BY <1>n, <4>2, <6>1
        <5>4. x <= x2
          BY <1>2, <1>n, <5>1, <5>2, <5>3
        <5> QED
          BY <5>3, <5>4
      <4> QED
        BY <1>n, <4>1, <4>2
    <3>8. Given(st, b, bt, s, y, d)
      <4>1. m \in 1 .. d
        BY <1>n
      <4> QED
        BY <1>5, <3>6, <3>7, <4>1 DEF Given
    <3> QED
      BY <1>2, <1>3, <3>8, TellsHeld
  <2> QED
    BY <2>2, <2>3
<1>6. CASE s # bt.seq
  BY <1>2, <1>4, <1>6 DEF Given, HeldIn
<1> QED
  BY <1>5, <1>6

\* A stack that goes on as another does tells the same as far as that one goes.
LEMMA TellsMore ==
    ASSUME NEW st, NEW st2, NEW b, NEW bt, NEW d \in Nat, \A m \in 1 .. d : st2[m] = st[m],
           NEW r, NEW i
    PROVE  Tells(r, st2, b, bt, i, d) <=> Tells(r, st, b, bt, i, d)
<1>1. \A s, p : Outlives(st2, s, p, d) <=> Outlives(st, s, p, d)
  BY DEF Outlives
<1>2. \A p, S : Written(st2, b, bt, i, d, p, S) <=> Written(st, b, bt, i, d, p, S)
  <2>1. \A m \in 1 .. d : \A j \in (m + 1) .. d : j \in 1 .. d
    OBVIOUS
  <2>2. \A m \in 1 .. d : SlotsHave(st2, i, (m + 1) .. d) <=> SlotsHave(st, i, (m + 1) .. d)
    BY <2>1 DEF SlotsHave
  <2>3. SlotsHave(st2, i, 1 .. d) <=> SlotsHave(st, i, 1 .. d)
    BY DEF SlotsHave
  <2>4. \A m \in 1 .. d : \A p : Writes(st2, bt, i, m, p) <=> Writes(st, bt, i, m, p)
    BY DEF Writes
  <2> QED
    BY <2>2, <2>3, <2>4 DEF Written
<1> QED
  BY <1>1, <1>2 DEF Tells

\* Only what the cell holds counts.
LEMMA TellsSame ==
    ASSUME NEW st, NEW b, NEW bt, NEW d, NEW k, NEW r, NEW i,
           Tells(k, st, b, bt, i, d), r.seq[i] = k.seq[i], r.pos[i] = k.pos[i]
    PROVE  Tells(r, st, b, bt, i, d)
  BY DEF Tells

\* What a slot overwrites depends on its cells.
LEMMA LostSame ==
    ASSUME NEW slot, NEW k, NEW r,
           \A i \in ToSet(slot) : Alike(r, k, i)
    PROVE  \A s : Lost(r, slot, s) = Lost(k, slot, s)
<1> SUFFICES ASSUME NEW s PROVE Lost(r, slot, s) = Lost(k, slot, s)
  OBVIOUS
<1> DEFINE I == {i \in ToSet(slot) : r.seq[i] = {s}}
           J == {i \in ToSet(slot) : k.seq[i] = {s}}
<1>1. I = J /\ \A i \in I : r.pos[i] = k.pos[i]
  BY DEF Alike
<1>2. Lost(r, slot, s) = {r.pos[i] : i \in I} /\ Lost(k, slot, s) = {k.pos[i] : i \in J}
  BY DEF Lost
<1> HIDE DEF I, J
<1> QED
  BY <1>1, <1>2

\* While the ubatches are computed, the first d of them are in, a cell may be ahead: when
\* its next slot is still to come, or it is in none, the trial has purged it up to there.
Ahead(k, st, b, bt, i, d) ==
    \E e \in d .. Len(st) :
        /\ SlotsHave(st, i, 1 .. d) => e = d
        /\ ~SlotsHave(st, i, (d + 1) .. e)
        /\ SlotsHave(st, i, 1 .. d) \/ e = Len(st) \/ i \in ToSet(st[e + 1].slot)
        /\ Tells(k, st, b, bt, i, e)

\* The next ubatch overwrites what it overwrote on trial, and purges what it purged then.
LEMMA AheadNext ==
    ASSUME NEW st, NEW b, NEW bt, Told(st, b, bt), NEW d \in Nat, d + 1 <= Len(st),
           NEW k, NEW r, Took(r, k, st[d + 1].slot, bt.first + d * UBatch, bt.seq),
           \A i \in Cells : Ahead(k, st, b, bt, i, d)
    PROVE  \A i \in Cells : Ahead(r, st, b, bt, i, d + 1)
<1> DEFINE j == d + 1
           slot == st[j].slot
<1>n. Len(st) \in Nat /\ j \in 1 .. Len(st) /\ j - 1 = d /\ d \in 0 .. Len(st) /\ j \in j .. Len(st)
  <2>1. Len(st) \in Nat
    BY DEF Told
  <2> QED
    BY <2>1
<1>j. \A i : SlotsHave(st, i, 1 .. j) <=> SlotsHave(st, i, 1 .. d) \/ i \in ToSet(slot)
  <2>1. \A m : m \in 1 .. j <=> m \in 1 .. d \/ m = j
    BY <1>n
  <2> QED
    BY <2>1 DEF SlotsHave
<1>1. \A i \in ToSet(slot) : Tells(k, st, b, bt, i, d)
  <2> SUFFICES ASSUME NEW i \in ToSet(slot) PROVE Tells(k, st, b, bt, i, d)
    OBVIOUS
  <2>1. i \in Cells
    BY <1>n, EntryIs
  <2>2. PICK e \in d .. Len(st) : ~SlotsHave(st, i, j .. e) /\ Tells(k, st, b, bt, i, e)
    BY <2>1 DEF Ahead
  <2>3. e # d => j \in j .. e
    BY <1>n
  <2>4. e = d
    BY <2>2, <2>3 DEF SlotsHave
  <2> QED
    BY <2>2, <2>4
<1>2. \A s : Lost(k, slot, s) = Lost(st[j].old, slot, s)
  <2>1. \A i \in ToSet(slot) : Alike(k, st[j].old, i)
    <3> SUFFICES ASSUME NEW i \in ToSet(slot) PROVE Alike(k, st[j].old, i)
      OBVIOUS
    <3>1. Tells(st[j].old, st, b, bt, i, j - 1)
      <4>1. j \in 1 .. Len(st)
        BY <1>n
      <4> HIDE DEF j
      <4> QED
        BY <4>1, EntryIs
    <3>2. Tells(st[j].old, st, b, bt, i, d) /\ d \in 0 .. Len(st)
      BY <1>n, <3>1
    <3>3. Tells(k, st, b, bt, i, d)
      BY <1>1
    <3> HIDE DEF slot, j
    <3> QED
      BY <3>2, <3>3, ToldAlike
  <2> HIDE DEF slot, j
  <2> QED
    BY <2>1, LostSame
<1>3. ASSUME NEW i \in Cells, Tells(k, st, b, bt, i, d) \/ i \in ToSet(slot), SlotsHave(st, i, 1 .. j)
      PROVE  Ahead(r, st, b, bt, i, j)
  <2>1. Tells(r, st, b, bt, i, j)
    BY <1>n, <1>2, <1>3, TellsNext
  <2>2. ~SlotsHave(st, i, (j + 1) .. j)
    BY <1>n DEF SlotsHave
  <2> HIDE DEF slot, j
  <2> QED
    BY <1>n, <1>3, <2>1, <2>2 DEF Ahead
<1>4. ASSUME NEW i \in Cells, i \notin ToSet(slot), ~SlotsHave(st, i, 1 .. d)
      PROVE  Ahead(r, st, b, bt, i, j)
  <2>1. PICK e \in d .. Len(st) : /\ ~SlotsHave(st, i, j .. e)
                                  /\ e = Len(st) \/ i \in ToSet(st[e + 1].slot)
                                  /\ Tells(k, st, b, bt, i, e)
    BY <1>4 DEF Ahead
  <2>2. e \in j .. Len(st)
    <3>1. e # d
      BY <1>4, <1>n, <2>1
    <3> QED
      BY <1>n, <3>1
  <2>3. PICK p \in Int, S \in SUBSET Seqs :
        /\ Written(st, b, bt, i, e, p, S)
        /\ k.seq[i] = {s \in S : Outlives(st, s, p, e)} /\ (k.seq[i] # {} => k.pos[i] = p)
    BY <2>1 DEF Tells
  <2>4. /\ r.seq[i] = {s \in k.seq[i] : \A q \in Lost(k, slot, s) : q < k.pos[i]}
        /\ r.seq[i] # {} => r.pos[i] = k.pos[i]
    BY <1>4 DEF Took
  <2>5. j \in 1 .. e
    BY <1>n, <2>2
  <2>6. \A s \in k.seq[i] : \A q \in Lost(k, slot, s) : q < k.pos[i]
    BY <1>2, <2>3, <2>5 DEF Outlives
  <2>7. r.seq[i] = k.seq[i]
    BY <2>4, <2>6
  <2>8. Tells(r, st, b, bt, i, e)
    BY <2>3, <2>4, <2>7 DEF Tells
  <2>9. ~SlotsHave(st, i, 1 .. j)
    BY <1>4, <1>j
  <2>10. ~SlotsHave(st, i, (j + 1) .. e)
    <3>1. \A m \in (j + 1) .. e : m \in j .. e
      BY <1>n
    <3> QED
      BY <2>1, <3>1 DEF SlotsHave
  <2> HIDE DEF slot, j
  <2> QED
    BY <2>1, <2>2, <2>8, <2>9, <2>10 DEF Ahead
<1>5. ASSUME NEW i \in Cells, SlotsHave(st, i, 1 .. d)
      PROVE  Ahead(r, st, b, bt, i, j)
  <2>1. Tells(k, st, b, bt, i, d)
    BY <1>5 DEF Ahead
  <2> QED
    BY <1>3, <1>5, <1>j, <2>1
<1>6. ASSUME NEW i \in Cells, i \in ToSet(slot)
      PROVE  Ahead(r, st, b, bt, i, j)
  BY <1>3, <1>6, <1>j
<1> QED
  BY <1>4, <1>5, <1>6

\* When the last ubatch is in, no cell is ahead.
LEMMA AheadEnds ==
    ASSUME NEW st, Len(st) \in Nat, NEW b, NEW bt, NEW k, NEW i, Ahead(k, st, b, bt, i, Len(st))
    PROVE  Tells(k, st, b, bt, i, Len(st))
<1>1. \A e \in Len(st) .. Len(st) : e = Len(st)
  OBVIOUS
<1> QED
  BY <1>1 DEF Ahead

\* Nor ever, if the slots were empty.
LEMMA AheadEmpty ==
    ASSUME NEW st, NEW b, NEW bt, Told(st, b, bt), NEW d \in Nat, d <= Len(st), NEW k, NEW i \in Cells,
           \A m \in 1 .. Len(st) : \A c \in ToSet(st[m].slot) : st[m].old.pos[c] = -1,
           Ahead(k, st, b, bt, i, d)
    PROVE  Tells(k, st, b, bt, i, d)
<1>1. Len(st) \in Nat
  BY DEF Told
<1>2. PICK e \in d .. Len(st) : ~SlotsHave(st, i, (d + 1) .. e) /\ Tells(k, st, b, bt, i, e)
  BY DEF Ahead
<1>3. PICK p \in Int, S \in SUBSET Seqs :
        /\ Written(st, b, bt, i, e, p, S)
        /\ k.seq[i] = {s \in S : Outlives(st, s, p, e)} /\ (k.seq[i] # {} => k.pos[i] = p)
  BY <1>2 DEF Tells
<1>4. \A s, n : n \in 0 .. Len(st) => Outlives(st, s, p, n)
  <2> SUFFICES ASSUME NEW s, NEW n \in 0 .. Len(st), NEW m \in 1 .. n, NEW c \in ToSet(st[m].slot),
                      st[m].old.seq[c] = {s}
               PROVE  FALSE
    BY DEF Outlives, Lost
  <2>1. m \in 1 .. Len(st)
    BY <1>1
  <2>2. GoodState(st[m]) /\ st[m].old.pos[c] = -1
    BY <2>1, EntryIs
  <2> QED
    BY <2>2 DEF GoodState
<1>5. d \in 0 .. Len(st) /\ e \in 0 .. Len(st) /\ d <= e
  BY <1>1
<1>6. Written(st, b, bt, i, d, p, S)
  <2>1. CASE ~SlotsHave(st, i, 1 .. e) /\ p = b.pos[i] /\ S = b.seq[i]
    <3>1. \A m \in 1 .. d : m \in 1 .. e
      BY <1>5
    <3>2. ~SlotsHave(st, i, 1 .. d)
      BY <2>1, <3>1 DEF SlotsHave
    <3> QED
      BY <2>1, <3>2 DEF Written
  <2>2. ASSUME NEW m \in 1 .. e, Writes(st, bt, i, m, p), ~SlotsHave(st, i, (m + 1) .. e), S = {bt.seq}
        PROVE  Written(st, b, bt, i, d, p, S)
    <3>1. i \in ToSet(st[m].slot)
      <4>1. m \in 1 .. Len(st)
        BY <1>5
      <4> QED
        BY <2>2, <4>1, EntryIs DEF Writes
    <3>2. m \in 1 .. d
      <4>1. m \notin (d + 1) .. e
        BY <1>2, <3>1 DEF SlotsHave
      <4> QED
        BY <1>5, <4>1
    <3>3. \A n \in (m + 1) .. d : n \in (m + 1) .. e
      BY <1>5
    <3>4. ~SlotsHave(st, i, (m + 1) .. d)
      BY <2>2, <3>3 DEF SlotsHave
    <3> QED
      BY <2>2, <3>2, <3>4 DEF Written
  <2> QED
    BY <1>3, <2>1, <2>2 DEF Written
<1>7. k.seq[i] = {s \in S : Outlives(st, s, p, d)}
  BY <1>3, <1>4, <1>5
<1> QED
  BY <1>3, <1>6, <1>7 DEF Tells

-----------------------------------------------------------------------------
(* The decoder's trials, told.  A second trial without a window starts from  *)
(* the same cells; under one it does not, and nothing is said of it.         *)

\* A trial that is told, its ubatches being placed, taken back or computed, ...
Trying == phase \in {"place", "unwind", "compute"} /\ (n_swa = 0 \/ ~optimized)
\* ... and what it tells of the cells.
TrialTells ==
    Trying =>
      /\ Told(states, before, batch)
      /\ phase \in {"place", "unwind"} =>
           \A i \in Cells : Tells(kv, states, before, batch, i, Len(states))
      /\ phase = "compute" => \A i \in Cells : Ahead(kv, states, before, batch, i, done)

\* The action behind a step of a decode, and what becomes of did_optimize.
LEMMA StepActs ==
    ASSUME KInv, [KNext]_vars
    PROVE  /\ phase = "place" /\ states' # states => Place
           /\ phase = "compute" /\ phase' # "idle" => ComputeOk \/ ComputeFails \/ ReserveFails \/ UNCHANGED vars
           /\ phase \in {"place", "unwind", "compute"} => (optimized => optimized')
           /\ phase = "unwind" /\ phase' = "place" => optimized'
<1>1. CASE UNCHANGED vars
  BY <1>1 DEF vars
<1>2. CASE KNext
  <2>1. CallerEdits => phase = "idle"
    BY CallerEditsGood DEF EditGood
  <2>2. CASE Place
    BY <2>2 DEF Place
  <2>3. CASE UnwindFits \/ UnwindRefused \/ \E ok \in BOOLEAN : UnwindRetry(ok)
    BY <2>3 DEF UnwindFits, UnwindRefused, UnwindRetry
  <2>4. CASE ComputeOk \/ ComputeFails \/ ReserveFails
    BY <2>4 DEF ComputeOk, ComputeFails, ReserveFails
  <2>5. CASE phase \in {"idle", "returned", "dead"}
    BY <2>5
  <2>6. phase \in {"idle", "returned", "dead"} \/ Place \/ UnwindFits \/ UnwindRefused
        \/ (\E ok \in BOOLEAN : UnwindRetry(ok)) \/ ComputeOk \/ ComputeFails \/ ReserveFails
    BY <1>2, <2>1 DEF KNext, DecodeTooLong, Decode, DecodeStep, Return, Dead
  <2> QED
    BY <2>2, <2>3, <2>4, <2>5, <2>6
<1> QED
  BY <1>1, <1>2

\* A usable cell belongs to one sequence or to none.
LEMMA UsableSingle ==
    ASSUME NEW k \in GoodCaches, NEW i \in Cells, CanUse(k, i)
    PROVE  \A s \in k.seq[i] : k.seq[i] = {s}
<1>1. k.pos[i] = -1 <=> k.seq[i] = {}
  BY GoodTypes
<1> QED
  BY <1>1 DEF CanUse, IsEmpty

\* The cells of a slot that find_slot gave are distinct.
LEMMA PlacedBy ==
    ASSUME KInv, NEW slot, Placed(slot), Place
    PROVE  kv' = ApplyUbatch(kv, slot, UFirst(Len(states) + 1), batch.seq) /\ Apart(slot)
<1> DEFINE j == Len(states) + 1
           fs == FindSlot(kv, head, ULen(j))
           e == [slot |-> fs, head |-> head, old |-> Cp(kv, ToSet(fs))]
<1>1. /\ fs = << >> => states' = states
      /\ fs # << >> => states' = Append(states, e) /\ kv' = ApplyUbatch(kv, fs, UFirst(j), batch.seq)
  BY DEF Place
<1>2. Len(states) \in Nat /\ Len(states') = Len(states) + 1 /\ states'[Len(states) + 1].slot = slot
  BY PlacedStack
<1>3. /\ kv \in GoodCaches /\ head \in 0 .. Size /\ ULen(j) \in Nat \ {0} /\ states \in Seq(StackEntries)
      /\ Cardinality(kv.used) \in Nat
  <2>1. kv \in GoodCaches /\ head \in 0 .. Size /\ states \in Seq(StackEntries)
    BY DEF KInv, KTypeOK, StackFits, GoodCaches
  <2>2. ULen(j) \in Nat \ {0}
    BY NextSlot DEF Placed
  <2>3. Cardinality(kv.used) \in Nat
    BY <2>1, UsedFinite
  <2> QED
    BY <2>1, <2>2, <2>3
<1>4. fs # << >> => Apart(fs)
  BY <1>3, FindSlotGood
<1>e. e.slot = fs
  OBVIOUS
<1> HIDE DEF fs, e, j
<1>5. fs # << >>
  <2>1. Len(states') # Len(states)
    BY <1>2
  <2> QED
    BY <1>1, <2>1
<1>6. fs = slot
  <2>1. Append(states, e)[Len(states) + 1] = e
    BY <1>3
  <2> QED
    BY <1>1, <1>2, <1>5, <1>e, <2>1
<1> QED
  BY <1>1, <1>4, <1>5, <1>6 DEF j

\* The trial goes one ubatch further, and the stack with it.
LEMMA PlacedTells ==
    ASSUME KInv, KInv', TrialTells, Trying, NEW slot, Placed(slot), Place
    PROVE  /\ Told(states', before, batch)
           /\ \A i \in Cells : Tells(kv', states', before, batch, i, Len(states'))
<1> DEFINE n == Len(states)
           j == n + 1
           old == states'[j].old
<1>1. /\ phase = "place" /\ SlotFits(slot, j) /\ \A i \in ToSet(slot) : CanUse(kv, i)
  BY DEF Placed
<1>2. /\ n \in Nat /\ Len(states') = j /\ (\A m \in 1 .. n : states'[m] = states[m])
      /\ states'[j].slot = slot
      /\ \A i \in ToSet(slot) : old.pos[i] = kv.pos[i] /\ old.seq[i] = kv.seq[i]
  BY PlacedStack
<1>3. Told(states, before, batch) /\ \A i \in Cells : Tells(kv, states, before, batch, i, n)
  BY <1>1 DEF TrialTells
<1>4. states' \in Seq(StackEntries) /\ kv \in GoodCaches
  BY DEF KInv, KTypeOK, StackFits, GoodCaches
<1>5. kv' = ApplyUbatch(kv, slot, UFirst(j), batch.seq) /\ Apart(slot)
  BY PlacedBy
<1>6. j \in 1 .. NUbatches /\ Len(slot) = ULen(j) /\ n < NUbatches /\ batch.n \in Nat \ {0}
  <2>1. batch.n \in Nat \ {0} /\ n < NUbatches
    BY <1>1 DEF KInv, BatchFits, Decoding, PhaseFits
  <2> QED
    BY <1>1, <2>1 DEF SlotFits
<1>7. Len(slot) \in 1 .. UBatch
  BY <1>6, UbatchFits
<1>8. UFirst(j) = batch.first + n * UBatch
  <2>1. j - 1 = n
    BY <1>2
  <2> HIDE DEF n, j
  <2> QED
    BY <2>1 DEF UFirst
<1>9. /\ slot \in Seq(Cells) /\ UFirst(j) \in Nat /\ batch.seq \in Seqs
      /\ UFirst(j) + Len(slot) - 1 <= MaxPos /\ ToSet(slot) \subseteq Cells
  BY <1>1 DEF SlotFits
<1> HIDE DEF n, j
<1>j. j = n + 1 /\ n \in 0 .. n /\ n = Len(states)
  BY <1>2 DEF n, j
<1>10. \A m \in 1 .. n : Len(states[m].slot) = UBatch
  <2> SUFFICES ASSUME NEW m \in 1 .. n PROVE Len(states[m].slot) = UBatch
    OBVIOUS
  <2>1. m \in 1 .. NUbatches /\ m < NUbatches
    <3>1. NUbatches \in Nat
      BY <1>6, UbatchFits
    <3> QED
      BY <1>2, <1>6, <3>1
  <2>2. Len(states[m].slot) = ULen(m)
    BY <1>1, <1>j DEF KInv, StackFits
  <2> QED
    BY <1>6, <2>1, <2>2, UbatchFits
<1>11. \A m \in 0 .. n : \A r, i : Tells(r, states, before, batch, i, m) =>
                                  Tells(r, states', before, batch, i, m)
  <2> SUFFICES ASSUME NEW m \in 0 .. n, NEW r, NEW i, Tells(r, states, before, batch, i, m)
               PROVE  Tells(r, states', before, batch, i, m)
    OBVIOUS
  <2>1. m \in Nat /\ \A x \in 1 .. m : states'[x] = states[x]
    BY <1>2
  <2> DEFINE st2 == states'
  <2>2. \A x \in 1 .. m : st2[x] = states[x]
    BY <2>1
  <2> HIDE DEF st2
  <2>3. Tells(r, st2, before, batch, i, m)
    BY <2>1, <2>2, TellsMore
  <2> QED
    BY <2>3 DEF st2
<1>12. \A i \in ToSet(slot) : Tells(old, states', before, batch, i, n) /\ \A s \in old.seq[i] : old.seq[i] = {s}
  <2> SUFFICES ASSUME NEW i \in ToSet(slot)
               PROVE  Tells(old, states', before, batch, i, n) /\ \A s \in old.seq[i] : old.seq[i] = {s}
    OBVIOUS
  <2>0. i \in Cells /\ old.pos[i] = kv.pos[i] /\ old.seq[i] = kv.seq[i]
    BY <1>2, <1>9
  <2>1. Tells(old, states, before, batch, i, n)
    <3>1. Tells(kv, states, before, batch, i, n)
      BY <1>3, <2>0
    <3> HIDE DEF old
    <3> QED
      BY <2>0, <3>1, TellsSame
  <2>2. Tells(old, states', before, batch, i, n)
    BY <1>11, <1>j, <2>1
  <2>3. \A s \in kv.seq[i] : kv.seq[i] = {s}
    BY <1>1, <1>4, <2>0, UsableSingle
  <2> HIDE DEF old
  <2> QED
    BY <2>0, <2>2, <2>3
<1>13. StackTells(states', before, batch)
  <2> SUFFICES ASSUME NEW m \in 1 .. j
               PROVE  /\ Len(states'[m].slot) \in 1 .. UBatch
                      /\ m < j => Len(states'[m].slot) = UBatch
                      /\ Apart(states'[m].slot)
                      /\ \A i \in ToSet(states'[m].slot) :
                           /\ Tells(states'[m].old, states', before, batch, i, m - 1)
                           /\ \A s \in states'[m].old.seq[i] : states'[m].old.seq[i] = {s}
    BY <1>2 DEF StackTells
  <2>1. CASE m = j
    <3>1. m - 1 = n
      BY <1>2, <1>j, <2>1
    <3> QED
      BY <1>2, <1>5, <1>7, <1>12, <2>1, <3>1
  <2>2. CASE m # j
    <3>1. m \in 1 .. n /\ m - 1 \in 0 .. n /\ states'[m] = states[m]
      BY <1>2, <1>j, <2>2
    <3>2. /\ Apart(states[m].slot)
          /\ \A i \in ToSet(states[m].slot) :
               /\ Tells(states[m].old, states, before, batch, i, m - 1)
               /\ \A s \in states[m].old.seq[i] : states[m].old.seq[i] = {s}
      BY <1>3, <1>j, <3>1 DEF Told, StackTells
    <3>3. Len(states[m].slot) = UBatch /\ UBatch \in 1 .. UBatch
      BY <1>10, <3>1, BatchAssumption
    <3> QED
      BY <1>11, <3>1, <3>2, <3>3
  <2> QED
    BY <2>1, <2>2
<1>14. Told(states', before, batch)
  BY <1>3, <1>4, <1>13 DEF Told
<1>15. Took(kv', kv, slot, batch.first + n * UBatch, batch.seq)
  <2>1. \A i \in Cells : batch.seq \in kv.seq[i] => kv.pos[i] < UFirst(j)
    <3> SUFFICES ASSUME NEW i \in Cells, batch.seq \in kv.seq[i] PROVE kv.pos[i] < UFirst(j)
      OBVIOUS
    <3>1. PICK p \in Int, S \in SUBSET Seqs :
            Written(states, before, batch, i, n, p, S) /\ batch.seq \in S /\ kv.pos[i] = p
      BY <1>3 DEF Tells
    <3>2. p < batch.first + n * UBatch
      BY <1>3, <1>j, <3>1, WrittenBelow
    <3> QED
      BY <1>8, <3>1, <3>2
  <2>2. Took(ApplyUbatch(kv, slot, UFirst(j), batch.seq), kv, slot, UFirst(j), batch.seq)
    BY <1>4, <1>9, <2>1, ApplyTook
  <2> QED
    BY <1>5, <1>8, <2>2
<1>16. \A s : Lost(kv, slot, s) = Lost(old, slot, s)
  <2>1. \A i \in ToSet(slot) : Alike(kv, old, i)
    BY <1>2 DEF Alike
  <2> HIDE DEF old
  <2> QED
    BY <2>1, LostSame
<1>17. ASSUME NEW i \in Cells PROVE Tells(kv', states', before, batch, i, j)
  <2> DEFINE st2 == states'
             r == kv'
  <2>1. Tells(kv, st2, before, batch, i, n)
    BY <1>3, <1>11, <1>j
  <2>2. /\ Told(st2, before, batch) /\ n \in Nat /\ n + 1 <= Len(st2)
        /\ Took(r, kv, st2[n + 1].slot, batch.first + n * UBatch, batch.seq)
        /\ \A s : Lost(kv, st2[n + 1].slot, s) = Lost(st2[n + 1].old, st2[n + 1].slot, s)
    BY <1>2, <1>j, <1>14, <1>15, <1>16
  <2> HIDE DEF st2, r
  <2>3. Tells(r, st2, before, batch, i, n + 1)
    BY <2>1, <2>2, TellsNext
  <2> QED
    BY <1>j, <2>3 DEF st2, r
<1> QED
  BY <1>2, <1>14, <1>17

\* A trial that was taken back: no cell is in yet, and each is ahead as far as the trial
\* went without it.
LEMMA UnwoundAhead ==
    ASSUME KInv, TrialTells, Trying, Unwound
    PROVE  \A i \in Cells : Ahead(kv', states, before, batch, i, 0)
<1> DEFINE r == kv'
           n == Len(states)
<1>1. /\ Told(states, before, batch) /\ n \in Nat
      /\ \A i \in Cells : Tells(kv, states, before, batch, i, n)
  BY DEF TrialTells, Unwound, Told
<1> HIDE DEF r
<1> SUFFICES ASSUME NEW i \in Cells PROVE Ahead(r, states, before, batch, i, 0)
  BY DEF r
<1>2. \A J : InSlot(i, J) <=> SlotsHave(states, i, J)
  BY DEF InSlot, SlotsHave
<1>3. ~SlotsHave(states, i, 1 .. 0)
  BY DEF SlotsHave
<1>4. CASE ~InSlot(i, 1 .. n) /\ r.pos[i] = kv.pos[i] /\ r.seq[i] = kv.seq[i]
  <2>1. Tells(r, states, before, batch, i, n)
    BY <1>1, <1>4, TellsSame
  <2>2. n \in 0 .. n /\ 0 + 1 = 1
    BY <1>1
  <2> QED
    BY <1>2, <1>3, <1>4, <2>1, <2>2 DEF Ahead
<1>5. ASSUME NEW j \in 1 .. n, i \in ToSet(states[j].slot), ~InSlot(i, 1 .. (j - 1)),
             r.pos[i] = states[j].old.pos[i], r.seq[i] = states[j].old.seq[i]
      PROVE  Ahead(r, states, before, batch, i, 0)
  <2> DEFINE e == j - 1
  <2>1. e \in 0 .. n /\ e + 1 = j /\ 0 + 1 = 1
    BY <1>1
  <2>2. Tells(states[j].old, states, before, batch, i, e)
    BY <1>1, <1>5, EntryIs
  <2>3. ~SlotsHave(states, i, 1 .. e)
    BY <1>2, <1>5
  <2> HIDE DEF e
  <2>4. Tells(r, states, before, batch, i, e)
    BY <1>5, <2>2, TellsSame
  <2>5. i \in ToSet(states[e + 1].slot)
    BY <1>5, <2>1
  <2> QED
    BY <1>3, <2>1, <2>3, <2>4, <2>5 DEF Ahead
<1> QED
  BY <1>4, <1>5, UnwoundCell DEF r

\* The next ubatch of a decode, in the cells.
NextCells == ApplyUbatch(kv, states[done + 1].slot, UFirst(done + 1), batch.seq)

\* The ubatch that is computed does to the cells what it did on trial.
LEMMA ComputeTook ==
    ASSUME KInv, PositionsAreNew, TrialTells, Trying, phase = "compute"
    PROVE  /\ NextCells \in GoodCaches
           /\ Told(states, before, batch) /\ Len(states) = NUbatches /\ Len(states) \in Nat
           /\ done \in Nat /\ done + 1 \in 0 .. Len(states)
           /\ \A i \in Cells : Ahead(NextCells, states, before, batch, i, done + 1)
<1> DEFINE j == done + 1
           slot == states[j].slot
<1>1. /\ Told(states, before, batch) /\ Len(states) \in Nat
      /\ \A i \in Cells : Ahead(kv, states, before, batch, i, done)
  BY DEF TrialTells, Told
<1>2. /\ Len(states) = NUbatches /\ done \in Nat /\ done < NUbatches /\ kv \in GoodCaches
  BY DEF KInv, KTypeOK, PhaseFits, GoodCaches
<1>3. SlotFits(slot, j)
  BY NextSlot
<1>4. \A i \in Cells : Below(kv, i, UFirst(j))
  BY DEF PositionsAreNew
<1>5. UFirst(j) = batch.first + done * UBatch
  <2>1. j - 1 = done
    BY <1>2
  <2> HIDE DEF j
  <2> QED
    BY <2>1 DEF UFirst
<1>6. /\ slot \in Seq(Cells) /\ slot # << >> /\ UFirst(j) \in Nat /\ batch.seq \in Seqs
      /\ UFirst(j) + Len(slot) - 1 <= MaxPos
  BY <1>3 DEF SlotFits
<1>7. done + 1 \in 0 .. Len(states) /\ done + 1 <= Len(states)
  BY <1>1, <1>2
<1> HIDE DEF j, slot
<1>8. \A i \in Cells : batch.seq \in kv.seq[i] => kv.pos[i] < UFirst(j)
  BY <1>4 DEF Below
<1>9. /\ Took(ApplyUbatch(kv, slot, UFirst(j), batch.seq), kv, slot, UFirst(j), batch.seq)
      /\ ApplyUbatch(kv, slot, UFirst(j), batch.seq) \in GoodCaches
  BY <1>2, <1>6, <1>8, ApplyTook, ApplyGood
<1>10. NextCells = ApplyUbatch(kv, slot, UFirst(j), batch.seq)
  BY DEF NextCells, j, slot
<1>11. Took(NextCells, kv, states[done + 1].slot, batch.first + done * UBatch, batch.seq)
  BY <1>5, <1>9, <1>10 DEF j, slot
<1>12. \A i \in Cells : Ahead(NextCells, states, before, batch, i, done + 1)
  BY <1>1, <1>2, <1>7, <1>11, AheadNext
<1> QED
  BY <1>1, <1>2, <1>7, <1>9, <1>10, <1>12

\* Without a window a trial that is taken back leaves the cells as they were.
LEMMA UnwoundAsBefore ==
    ASSUME KInv, Steady, TrialTells, n_swa = 0, Unwound, NEW i \in Cells
    PROVE  kv'.pos[i] = before.pos[i] /\ kv'.seq[i] = before.seq[i]
<1>1. before.pos[i] = -1 <=> before.seq[i] = {}
  BY DEF TrialTells, Trying, Told, BaseTells, Unwound
<1>2. kv'.pos[i] = -1 <=> kv'.seq[i] = {}
  <2>1. kv' \in GoodCaches
    BY DEF Unwound
  <2> QED
    BY <2>1, GoodTypes
<1> QED
  BY <1>1, <1>2, UnwoundSteady

\* Before the first ubatch the cells are what the trial starts from.
LEMMA NoneTold ==
    ASSUME NEW b, NEW bt, BaseTells(b, bt), NEW k,
           \A i \in Cells : k.pos[i] = b.pos[i] /\ k.seq[i] = b.seq[i]
    PROVE  Told(<< >>, b, bt) /\ \A i \in Cells : Tells(k, << >>, b, bt, i, Len(<< >>))
<1>1. Len(<< >>) = 0 /\ << >> \in Seq(StackEntries)
  OBVIOUS
<1>2. StackTells(<< >>, b, bt)
  BY <1>1 DEF StackTells
<1>3. ASSUME NEW i \in Cells PROVE Tells(k, << >>, b, bt, i, 0)
  <2>1. b.pos[i] \in Int /\ b.seq[i] \in SUBSET Seqs
    BY DEF BaseTells, Positions
  <2>2. Written(<< >>, b, bt, i, 0, b.pos[i], b.seq[i])
    BY DEF Written, SlotsHave
  <2>3. \A s : Outlives(<< >>, s, b.pos[i], 0)
    BY DEF Outlives
  <2>4. k.seq[i] = {s \in b.seq[i] : Outlives(<< >>, s, b.pos[i], 0)}
    BY <2>3
  <2> QED
    BY <2>1, <2>2, <2>4 DEF Tells
<1> QED
  BY <1>1, <1>2, <1>3 DEF Told

\* Every step keeps the trial told.
LEMMA TellsStep ==
    ASSUME KInv, KInv', PositionsAreNew, Steady, TrialTells, [KNext]_vars
    PROVE  TrialTells'
<1> DEFINE Told1(b, bt) == Told(states', b, bt)
           All1(b, bt) == \A i \in Cells : Tells(kv', states', b, bt, i, Len(states'))
           Ahead1 == \A i \in Cells : Ahead(kv', states', before, batch, i, done')
<1>w. ASSUME Told1(before', batch'), phase' \in {"place", "unwind"}, All1(before', batch')
      PROVE  TrialTells'
  BY <1>w DEF TrialTells
<1>c. ASSUME Told1(before, batch), phase' = "compute", Ahead1, UNCHANGED <<before, batch>>
      PROVE  TrialTells'
  BY <1>c DEF TrialTells
<1> HIDE DEF Told1, All1, Ahead1
<1> SUFFICES ASSUME Trying' PROVE TrialTells'
  BY DEF TrialTells
<1>n. n_swa' = n_swa
  BY StepDoes DEF StepIs, Begun, NoRoom, Placed, Fitted, Refused, Retried, Unwound, Computed,
                  Aborted, Computing, NoOutput, Leaves, vars
<1>1. phase \in {"place", "unwind", "compute"} => Trying
  BY <1>n, StepActs DEF Trying
<1>2. ASSUME NEW n \in Batches, NEW s \in Seqs, Begun(n, s) PROVE TrialTells'
  <2>1. /\ kv'.pos = kv.pos /\ kv'.seq = kv.seq /\ kv \in GoodCaches
        /\ before' = Cp(kv, Cells) /\ batch' = [seq |-> s, first |-> Start(s), n |-> n]
        /\ Start(s) \in Nat /\ SeqEndsAt(kv, s, Start(s) - 1)
        /\ phase' = "place" /\ states' = << >>
    BY <1>2 DEF Begun, KInv, KTypeOK, PhaseFits, GoodCaches
  <2> DEFINE b == before'
             bt == batch'
             k == kv'
  <2>2. b.pos = [i \in Cells |-> kv.pos[i]] /\ b.seq = [i \in Cells |-> kv.seq[i]]
    BY <2>1 DEF Cp
  <2>3. \A i \in Cells : k.pos[i] = b.pos[i] /\ k.seq[i] = b.seq[i]
    BY <2>1, <2>2
  <2>4. bt.first = Start(s) /\ bt.seq = s
    BY <2>1
  <2>5. /\ kv.pos \in [Cells -> Positions \union {-1}] /\ kv.seq \in [Cells -> SUBSET Seqs]
        /\ \A i \in Cells : kv.pos[i] = -1 <=> kv.seq[i] = {}
    BY <2>1, GoodTypes
  <2> HIDE DEF b, bt, k
  <2>6. SeqEndsAt(b, s, Start(s) - 1)
    BY <2>1, <2>2 DEF SeqEndsAt
  <2>7. b.pos \in [Cells -> Positions \union {-1}] /\ b.seq \in [Cells -> SUBSET Seqs]
    BY <2>2, <2>5
  <2>8. BaseTells(b, bt)
    BY <2>1, <2>2, <2>4, <2>5, <2>6, <2>7 DEF BaseTells
  <2>9. Told(<< >>, b, bt) /\ \A i \in Cells : Tells(k, << >>, b, bt, i, Len(<< >>))
    BY <2>3, <2>8, NoneTold
  <2> QED
    BY <1>w, <2>1, <2>9 DEF Told1, All1, b, bt, k
<1>3. CASE NoRoom
  <2>1. /\ phase = "place" /\ phase' = "unwind" /\ UNCHANGED <<kv, states, before, batch>>
    BY <1>3 DEF NoRoom
  <2>2. Told(states, before, batch) /\ \A i \in Cells : Tells(kv, states, before, batch, i, Len(states))
    BY <1>1, <2>1 DEF TrialTells
  <2> QED
    BY <1>w, <2>1, <2>2 DEF Told1, All1
<1>4. ASSUME NEW slot, Placed(slot) PROVE TrialTells'
  <2>1. /\ phase = "place" /\ phase' \in {"place", "unwind"} /\ UNCHANGED <<before, batch>>
    BY <1>4 DEF Placed
  <2>2. states' # states
    <3>1. Len(states) \in Nat /\ Len(states') = Len(states) + 1
      BY <1>4, PlacedStack
    <3> QED
      BY <3>1
  <2>3. Place /\ Trying
    BY <1>1, <2>1, <2>2, StepActs
  <2>4. /\ Told(states', before, batch)
        /\ \A i \in Cells : Tells(kv', states', before, batch, i, Len(states'))
    BY <1>4, <2>3, PlacedTells
  <2> QED
    BY <1>w, <2>1, <2>4 DEF Told1, All1
<1>5. CASE Fitted
  <2>1. /\ Unwound /\ phase = "unwind" /\ phase' = "compute"
        /\ UNCHANGED <<states, before, batch, done>> /\ done = 0
    BY <1>5 DEF Fitted, Unwound, KInv, PhaseFits
  <2>2. Trying
    BY <1>1, <2>1
  <2>3. Told(states, before, batch) /\ \A i \in Cells : Ahead(kv', states, before, batch, i, 0)
    BY <2>1, <2>2, UnwoundAhead DEF TrialTells
  <2> QED
    BY <1>c, <2>1, <2>3 DEF Told1, Ahead1
<1>6. CASE Retried
  <2>1. /\ Unwound /\ phase = "unwind" /\ phase' = "place" /\ states' = << >>
        /\ UNCHANGED <<before, batch>>
    BY <1>6 DEF Retried, Unwound
  <2>2. n_swa = 0
    BY <1>n, <2>1, StepActs DEF Trying
  <2>3. BaseTells(before, batch)
    BY <2>1, <2>2 DEF TrialTells, Trying, Told
  <2> DEFINE k == kv'
  <2>4. \A i \in Cells : k.pos[i] = before.pos[i] /\ k.seq[i] = before.seq[i]
    BY <2>1, <2>2, UnwoundAsBefore
  <2> HIDE DEF k
  <2>5. Told(<< >>, before, batch) /\ \A i \in Cells : Tells(k, << >>, before, batch, i, Len(<< >>))
    BY <2>3, <2>4, NoneTold
  <2> QED
    BY <1>w, <2>1, <2>5 DEF Told1, All1, k
<1>7. CASE phase = "compute"
  <2>1. phase' = "compute" /\ (ComputeOk \/ UNCHANGED vars)
    <3>1. phase' # "idle"
      BY DEF Trying
    <3>2. ComputeOk \/ ComputeFails \/ ReserveFails \/ UNCHANGED vars
      BY <1>7, <3>1, StepActs
    <3> QED
      BY <1>7, <3>1, <3>2 DEF ComputeFails, ReserveFails, ComputeOk, vars, Trying
  <2>2. Trying
    BY <1>1, <1>7, <2>1
  <2>3. CASE ComputeOk
    <3>1. /\ kv' = NextCells /\ done' = done + 1 /\ UNCHANGED <<before, batch>>
          /\ done + 1 < NUbatches => states' = states
          /\ ~(done + 1 < NUbatches) => phase' = "returned"
      BY <2>3 DEF ComputeOk, NextCells
    <3>2. states' = states
      BY <2>1, <3>1
    <3>3. /\ Told(states, before, batch)
          /\ \A i \in Cells : Ahead(NextCells, states, before, batch, i, done + 1)
      BY <1>7, <2>2, ComputeTook
    <3> QED
      BY <1>c, <2>1, <3>1, <3>2, <3>3 DEF Told1, Ahead1
  <2>4. CASE UNCHANGED vars
    <3>1. UNCHANGED <<kv, states, before, batch, done>>
      BY <2>4 DEF vars
    <3>2. Told(states, before, batch) /\ \A i \in Cells : Ahead(kv, states, before, batch, i, done)
      BY <1>7, <2>2 DEF TrialTells
    <3> QED
      BY <1>c, <2>1, <3>1, <3>2 DEF Told1, Ahead1
  <2> QED
    BY <2>1, <2>3, <2>4
<1>8. CASE UNCHANGED vars /\ phase # "compute"
  <2>1. UNCHANGED <<kv, states, before, batch, phase>>
    BY <1>8 DEF vars
  <2>2. phase \in {"place", "unwind"} /\ Trying
    BY <1>n, <1>8, <2>1, <1>1 DEF Trying
  <2>3. Told(states, before, batch) /\ \A i \in Cells : Tells(kv, states, before, batch, i, Len(states))
    BY <2>2 DEF TrialTells
  <2> QED
    BY <1>w, <2>1, <2>2, <2>3 DEF Told1, All1
<1>9. CASE Refused \/ Leaves
  BY <1>9 DEF Refused, Leaves, Trying
<1>10. ASSUME NEW slot, Computed(slot) \/ Aborted(slot) PROVE phase = "compute"
  BY <1>10 DEF Computed, Aborted, Computing
<1>11. NoOutput => phase = "compute"
  BY DEF NoOutput
<1> QED
  BY <1>2, <1>3, <1>4, <1>5, <1>6, <1>7, <1>8, <1>9, <1>10, <1>11, StepDoes DEF StepIs

\* What is removed again from a position on leaves no hole below it.
LEMMA RmWhole ==
    ASSUME NEW k \in GoodCaches, NEW r, NEW s0, NEW p0 \in Int,
           \A i \in Cells : RmAt(r, k, i, s0, p0, MaxPos + 1), NEW s, Whole(k, s)
    PROVE  Whole(r, s)
<1>1. \A i \in Cells : /\ k.pos[i] \in Int /\ k.pos[i] < MaxPos + 1
                       /\ s \in r.seq[i] => /\ s \in k.seq[i] /\ r.pos[i] = k.pos[i]
                                            /\ ~(s = s0 /\ p0 <= k.pos[i])
                       /\ s \in k.seq[i] /\ ~(s = s0 /\ p0 <= k.pos[i]) =>
                            s \in r.seq[i] /\ r.pos[i] = k.pos[i]
  <2> SUFFICES ASSUME NEW i \in Cells
               PROVE  /\ k.pos[i] \in Int /\ k.pos[i] < MaxPos + 1
                      /\ s \in r.seq[i] => /\ s \in k.seq[i] /\ r.pos[i] = k.pos[i]
                                           /\ ~(s = s0 /\ p0 <= k.pos[i])
                      /\ s \in k.seq[i] /\ ~(s = s0 /\ p0 <= k.pos[i]) =>
                           s \in r.seq[i] /\ r.pos[i] = k.pos[i]
    OBVIOUS
  <2>1. k.pos[i] \in Int /\ k.pos[i] < MaxPos + 1
    BY PosAssumption, GoodTypes DEF Positions
  <2>2. RmAt(r, k, i, s0, p0, MaxPos + 1)
    OBVIOUS
  <2>3. CASE p0 <= k.pos[i] /\ s0 \in k.seq[i]
    <3>1. /\ r.seq[i] = k.seq[i] \ {s0}
          /\ r.pos[i] = IF k.seq[i] = {s0} THEN -1 ELSE k.pos[i]
      BY <2>1, <2>2, <2>3 DEF RmAt, PosIn
    <3> QED
      BY <2>1, <2>3, <3>1
  <2>4. CASE ~(p0 <= k.pos[i] /\ s0 \in k.seq[i])
    <3>1. r.seq[i] = k.seq[i] /\ r.pos[i] = k.pos[i]
      BY <2>1, <2>2, <2>4 DEF RmAt, PosIn, Untouched
    <3> QED
      BY <2>1, <2>4, <3>1
  <2> QED
    BY <2>3, <2>4
<1>2. \A q \in Int : HeldIn(r, s, q) <=> HeldIn(k, s, q) /\ ~(s = s0 /\ p0 <= q)
  BY <1>1 DEF HeldIn
<1>3. \A p, q \in Int : HeldIn(k, s, p) /\ HeldIn(k, s, q) => \A y \in p .. q : HeldIn(k, s, y)
  BY <1>1, WholeIs
<1>4. ASSUME NEW p \in Int, NEW q \in Int, HeldIn(r, s, p), HeldIn(r, s, q), NEW y \in p .. q
      PROVE  HeldIn(r, s, y)
  <2>1. y \in Int /\ y <= q /\ HeldIn(k, s, y)
    BY <1>2, <1>3, <1>4
  <2> QED
    BY <1>2, <1>4, <2>1
<1>5. \A i \in Cells : s \in r.seq[i] => r.pos[i] \in Int
  BY <1>1
<1> QED
  BY <1>4, <1>5, WholeIs

\* Cells that are as they were have no hole where there was none.
LEMMA SameWhole ==
    ASSUME NEW k, NEW r, \A i \in Cells : r.pos[i] = k.pos[i] /\ r.seq[i] = k.seq[i],
           NEW s, Whole(k, s)
    PROVE  Whole(r, s)
<1> DEFINE held(c) == {c.pos[i] : i \in {i \in Cells : s \in c.seq[i]}}
<1>1. held(r) = held(k)
  OBVIOUS
<1>2. \A c : Whole(c, s) <=> \A p, q \in held(c) : p .. q \subseteq held(c)
  BY DEF Whole
<1> HIDE DEF held
<1> QED
  BY <1>1, <1>2

\* Without a window no slot had anything to lose, and no cell is ahead.
LEMMA SteadyAhead ==
    ASSUME Steady, TrialTells, n_swa = 0, phase = "compute", NEW d \in Nat, d <= Len(states),
           NEW k, \A i \in Cells : Ahead(k, states, before, batch, i, d)
    PROVE  \A i \in Cells : Tells(k, states, before, batch, i, d)
<1>1. Told(states, before, batch)
  BY DEF TrialTells, Trying
<1>2. \A m \in 1 .. Len(states) : \A c \in ToSet(states[m].slot) : states[m].old.pos[c] = -1
  BY SteadyParts DEF Decoding, SlotsApart
<1> QED
  BY <1>1, <1>2, AheadEmpty

\* Every step that returns leaves no hole.
LEMMA HoleStep ==
    ASSUME KInv, KInv', PositionsAreNew, Steady, TrialTells, DecodeLeavesNoHole, [KNext]_vars
    PROVE  DecodeLeavesNoHole'
<1> SUFFICES ASSUME phase' = "returned", n_swa' = 0 \/ (result' = 0 /\ ~optimized'),
                    NEW s \in Seqs, Whole(before', s)
             PROVE  Whole(kv', s)
  <2>1. DecodeLeavesNoHole' <=>
          (phase' = "returned" /\ (n_swa' = 0 \/ (result' = 0 /\ ~optimized')) =>
             \A z \in Seqs : Whole(before', z) => Whole(kv', z))
    BY DEF DecodeLeavesNoHole, Whole
  <2> QED
    BY <2>1
<1>1. CASE Refused
  <2>1. Unwound /\ result' = 1 /\ n_swa' = n_swa /\ before' = before
    BY <1>1 DEF Refused, Unwound
  <2>2. n_swa = 0 /\ Whole(before, s)
    BY <2>1
  <2> DEFINE r == kv'
  <2>3. \A i \in Cells : r.pos[i] = before.pos[i] /\ r.seq[i] = before.seq[i]
    BY <2>1, <2>2, UnwoundAsBefore
  <2> HIDE DEF r
  <2>4. Whole(r, s)
    BY <2>2, <2>3, SameWhole
  <2> QED
    BY <2>4 DEF r
<1>2. CASE phase = "compute"
  <2>1. ComputeOk \/ ComputeFails \/ ReserveFails
    <3>1. UNCHANGED vars => phase' = phase
      BY DEF vars
    <3> QED
      BY <1>2, <3>1, StepActs
  <2>2. result = NoResult
    BY <1>2 DEF KInv, PhaseFits
  <2>3. CASE ComputeOk
    <3>1. /\ kv' = NextCells /\ UNCHANGED <<n_swa, before, optimized>>
          /\ done + 1 < NUbatches => phase' = phase
      BY <2>3 DEF ComputeOk, NextCells
    <3>2. Trying /\ Whole(before, s)
      BY <1>2, <3>1 DEF Trying
    <3>3. /\ NextCells \in GoodCaches
          /\ Told(states, before, batch) /\ Len(states) = NUbatches /\ Len(states) \in Nat
          /\ done \in Nat /\ done + 1 \in 0 .. Len(states)
          /\ \A i \in Cells : Ahead(NextCells, states, before, batch, i, done + 1)
      BY <1>2, <3>2, ComputeTook
    <3>4. done + 1 = Len(states) /\ Len(states) \in 0 .. Len(states)
      BY <1>2, <3>1, <3>3
    <3>5. \A i \in Cells : Tells(NextCells, states, before, batch, i, Len(states))
      BY <3>3, <3>4, AheadEnds
    <3>6. Whole(NextCells, s)
      BY <3>2, <3>3, <3>4, <3>5, TellsWhole
    <3> QED
      BY <3>1, <3>6
  <2>4. CASE ComputeFails
    <3>1. /\ kv' = RmRange(NextCells, batch.seq, UFirst(done + 1), MaxPos + 1)
          /\ UNCHANGED <<n_swa, before>> /\ result' = 2
      BY <2>4 DEF ComputeFails, NextCells
    <3>2. n_swa = 0 /\ Trying /\ Whole(before, s)
      BY <1>2, <3>1 DEF Trying
    <3>3. /\ NextCells \in GoodCaches
          /\ Told(states, before, batch) /\ Len(states) \in Nat
          /\ done \in Nat /\ done + 1 \in 0 .. Len(states)
          /\ \A i \in Cells : Ahead(NextCells, states, before, batch, i, done + 1)
      BY <1>2, <3>2, ComputeTook
    <3> DEFINE d == done + 1
    <3>4. d \in Nat /\ d <= Len(states) /\ d \in 0 .. Len(states)
      BY <3>3
    <3>5. \A i \in Cells : Tells(NextCells, states, before, batch, i, d)
      <4>1. \A i \in Cells : Ahead(NextCells, states, before, batch, i, d)
        BY <3>3
      <4> HIDE DEF d
      <4> QED
        BY <1>2, <3>2, <3>4, <4>1, SteadyAhead
    <3> HIDE DEF d
    <3>6. Whole(NextCells, s)
      BY <3>2, <3>3, <3>4, <3>5, TellsWhole
    <3>7. batch.seq \in Seqs /\ UFirst(done + 1) \in Int /\ MaxPos + 1 \in Int
      <4>1. SlotFits(states[done + 1].slot, done + 1)
        BY <1>2, NextSlot
      <4> QED
        BY <4>1, PosAssumption DEF SlotFits
    <3> DEFINE r == RmRange(NextCells, batch.seq, UFirst(done + 1), MaxPos + 1)
    <3>8. \A i \in Cells : RmAt(r, NextCells, i, batch.seq, UFirst(done + 1), MaxPos + 1)
      BY <3>3, <3>7, RmRangeGood
    <3> HIDE DEF r
    <3> DEFINE k == NextCells
               p0 == UFirst(done + 1)
    <3>9. k \in GoodCaches /\ Whole(k, s) /\ p0 \in Int
      BY <3>3, <3>6, <3>7
    <3>10. \A i \in Cells : RmAt(r, k, i, batch.seq, p0, MaxPos + 1)
      BY <3>8
    <3> HIDE DEF k, p0
    <3>11. Whole(r, s)
      BY <3>9, <3>10, RmWhole
    <3> QED
      BY <3>1, <3>11 DEF r
  <2>5. CASE ReserveFails
    <3>1. UNCHANGED <<kv, n_swa, before>> /\ result' = -2 /\ done = 0
      BY <2>5 DEF ReserveFails
    <3>2. n_swa = 0 /\ Trying /\ Whole(before, s) /\ kv \in GoodCaches
      BY <1>2, <3>1 DEF Trying, KInv, KTypeOK, GoodCaches
    <3>3. /\ Told(states, before, batch) /\ 0 \in 0 .. Len(states) /\ 0 <= Len(states) /\ 0 \in Nat
          /\ \A i \in Cells : Ahead(kv, states, before, batch, i, 0)
      <4>1. Told(states, before, batch) /\ \A i \in Cells : Ahead(kv, states, before, batch, i, 0)
        BY <1>2, <3>1, <3>2 DEF TrialTells
      <4>2. Len(states) \in Nat
        BY <4>1 DEF Told
      <4> QED
        BY <4>1, <4>2
    <3>4. \A i \in Cells : Tells(kv, states, before, batch, i, 0)
      BY <1>2, <3>2, <3>3, SteadyAhead
    <3>5. Whole(kv, s)
      BY <3>2, <3>3, <3>4, TellsWhole
    <3> QED
      BY <3>1, <3>5
  <2> QED
    BY <2>1, <2>3, <2>4, <2>5
<1>3. CASE UNCHANGED vars
  <2>1. UNCHANGED <<kv, n_swa, before, phase, result, optimized>>
    BY <1>3 DEF vars
  <2>2. Whole(before, s) => Whole(kv, s)
    BY <2>1 DEF DecodeLeavesNoHole
  <2> QED
    BY <2>1, <2>2
<1>4. \A slot : Computed(slot) \/ Aborted(slot) => phase = "compute"
  BY DEF Computed, Aborted, Computing
<1>5. NoOutput => phase = "compute"
  BY DEF NoOutput
<1>6. ~NoRoom /\ ~Fitted /\ ~Retried /\ ~Leaves
      /\ (\A n, z : ~Begun(n, z)) /\ (\A slot : ~Placed(slot))
  BY DEF NoRoom, Fitted, Retried, Leaves, Begun, Placed
<1> QED
  BY <1>1, <1>2, <1>3, <1>4, <1>5, <1>6, StepDoes DEF StepIs

\* The trial is told in every state of a decode, with the positions: the inductive invariant.
LEMMA TrialInvariant == KSpec => []TrialTells
<1>1. KInit => TrialTells
  BY DEF KInit, TrialTells, Trying
<1>2. PInv /\ PInv' /\ TrialTells /\ [KNext]_vars => TrialTells'
  BY TellsStep DEF PInv
<1> QED
  BY <1>1, <1>2, PositionsInvariant, PTL DEF KSpec

\* The comment in apply_ubatch, "we want to preserve the invariant that all positions between
\* [pos_min, pos_max] for each sequence will be present": a decode keeps every sequence whole
\* that was whole before it, if it succeeds at its first trial, and whatever its outcome if
\* the cache has no window.
THEOREM NoHoleCorrect == KSpec => []DecodeLeavesNoHole
<1>1. KInit => DecodeLeavesNoHole
  BY DEF KInit, DecodeLeavesNoHole
<1>2. PInv /\ PInv' /\ TrialTells /\ DecodeLeavesNoHole /\ [KNext]_vars => DecodeLeavesNoHole'
  BY HoleStep DEF PInv
<1> QED
  BY <1>1, <1>2, PositionsInvariant, TrialInvariant, PTL DEF KSpec
=============================================================================
