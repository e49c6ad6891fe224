------------------------------- MODULE KvCells -------------------------------
(***************************************************************************)
(* llama_kv_cells: the metadata of the engine's key/value cache.  A cell   *)
(* holds one position of one or more sequences, or nothing (pos = -1).     *)
(* Beside the cells the class keeps two redundant books, the set of used   *)
(* cells and for every sequence how often each position occurs; the search *)
(* for a free slot and the ends of a sequence are read from the books.     *)
(*                                                                         *)
(* A cache is a record k; every operator below is one method, from the     *)
(* cache before the call to the cache after it.  2D positions (ext) are    *)
(* left out.                                                               *)
(***************************************************************************)
EXTENDS Integers, FiniteSets

CONSTANTS Size,         \* number of cells
          Seqs,         \* sequence ids
          MaxPos        \* bound: the largest position

ASSUME SizeAssumption == Size \in Nat \ {0}
ASSUME PosAssumption  == MaxPos \in Nat
ASSUME SeqsAssumption == IsFiniteSet(Seqs)  \* there are LLAMA_MAX_SEQ of them

Cells == 0 .. (Size - 1)
Positions == 0 .. MaxPos

Caches == [pos : [Cells -> Positions \union {-1}], seq : [Cells -> SUBSET Seqs],
           shift : [Cells -> Int], used : SUBSET Cells,
           seq_pos : [Seqs -> [Positions -> Nat]], has_shift : BOOLEAN]

Reset == [pos |-> [i \in Cells |-> -1], seq |-> [i \in Cells |-> {}],
          shift |-> [i \in Cells |-> 0], used |-> {},
          seq_pos |-> [s \in Seqs |-> [p \in Positions |-> 0]], has_shift |-> FALSE]

ResetShift(k) == [k EXCEPT !.has_shift = FALSE, !.shift = [i \in Cells |-> 0]]

IsEmpty(k, i) == k.pos[i] = -1
PosIn(k, i, p0, p1) == k.pos[i] >= p0 /\ k.pos[i] < p1

\* seq_pos_min and seq_pos_max: the ends of a sequence, -1 if it is empty.
Present(k, s) == {p \in Positions : k.seq_pos[s][p] > 0}
SeqPosMin(k, s) ==
  IF Present(k, s) = {} THEN -1
  ELSE CHOOSE p \in Present(k, s) : \A q \in Present(k, s) : p <= q
SeqPosMax(k, s) ==
  IF Present(k, s) = {} THEN -1
  ELSE CHOOSE p \in Present(k, s) : \A q \in Present(k, s) : p >= q

\* Adds d to the counts of cell i's position for the sequences S: the methods
\* seq_pos_inc, seq_pos_dec, seq_pos_add and seq_pos_rm.
CountPos(k, S, p, d) ==
  [k EXCEPT !.seq_pos = [s \in Seqs |->
     IF s \in S THEN [k.seq_pos[s] EXCEPT ![p] = @ + d] ELSE k.seq_pos[s]]]
SeqPosRm(k, i)  == CountPos(k, k.seq[i], k.pos[i], -1)
SeqPosAdd(k, i) == CountPos(k, k.seq[i], k.pos[i], 1)

\* The end of rm, seq_rm, seq_keep and pos_add for a cell that falls empty.
Vacate(k, i) == [k EXCEPT !.seq[i] = {}, !.pos[i] = -1, !.shift[i] = 0, !.used = @ \ {i}]

Rm(k, i) == Vacate(SeqPosRm(k, i), i)

\* Mutant: every sequence of the cell is taken out of the counts
SeqRmCountsAll(k, i, s) ==
  LET r == [SeqPosRm(k, i) EXCEPT !.seq[i] = @ \ {s}]
  IN  IF r.seq[i] = {} THEN Vacate(r, i) ELSE r

SeqRm(k, i, s) ==
  LET r == [CountPos(k, {s}, k.pos[i], -1) EXCEPT !.seq[i] = @ \ {s}]
  IN  IF r.seq[i] = {} THEN Vacate(r, i) ELSE r

SeqKeep(k, i, s) ==
  IF s \in k.seq[i]
  THEN CountPos([SeqPosRm(k, i) EXCEPT !.seq[i] = {s}], {s}, k.pos[i], 1)
  ELSE IF k.seq[i] # {} THEN Vacate(SeqPosRm(k, i), i) ELSE k

SeqAdd(k, i, s) == CountPos([k EXCEPT !.seq[i] = @ \union {s}], {s}, k.pos[i], 1)

PosSet(k, i, p) == [k EXCEPT !.pos[i] = p, !.used = @ \union {i}]

PosAdd(k, i, d) ==
  LET r == [SeqPosRm(k, i) EXCEPT !.shift[i] = @ + d, !.has_shift = TRUE]
      p == k.pos[i] + d
  IN  IF p < 0 THEN Vacate(r, i) ELSE SeqPosAdd([r EXCEPT !.pos[i] = p], i)

\* The shift accumulates the old position less the new one.
PosDiv(k, i, d) ==
  LET p == k.pos[i] \div d
  IN  SeqPosAdd([SeqPosRm(k, i) EXCEPT !.pos[i] = p, !.has_shift = TRUE,
                                       !.shift[i] = @ + (k.pos[i] - p)], i)

\* Mutant: a cell that was empty stays among the used
RestoreStaysUsed(k, i, old) ==
  LET r == IF k.pos[i] # -1 THEN SeqPosRm(k, i) ELSE k
      w == [r EXCEPT !.pos[i] = old.pos[i], !.seq[i] = old.seq[i]]
  IN  IF w.pos[i] # -1 THEN SeqPosAdd(w, i) ELSE w

\* set, for one cell: the position and sequences the cell had in the copy old.
Restore(k, i, old) ==
  LET u == IF old.pos[i] = -1 THEN k.used \ {i} ELSE k.used \union {i}
      r == IF k.pos[i] # -1 THEN SeqPosRm(k, i) ELSE k
      w == [r EXCEPT !.used = u, !.pos[i] = old.pos[i], !.seq[i] = old.seq[i]]
  IN  IF w.pos[i] # -1 THEN SeqPosAdd(w, i) ELSE w

-----------------------------------------------------------------------------
\* The books agree with the cells: used has the cells with a position, the
\* counts of a sequence are those of its cells, and a cell without a position
\* belongs to nobody.
Holding(k, s, p) == {i \in Cells : s \in k.seq[i] /\ k.pos[i] = p}
Books(k) ==
  /\ k.used = {i \in Cells : k.pos[i] # -1}
  /\ \A s \in Seqs, p \in Positions : k.seq_pos[s][p] = Cardinality(Holding(k, s, p))
  /\ \A i \in Cells : (k.pos[i] = -1) <=> (k.seq[i] = {})
=============================================================================
