------------------------------- MODULE KvCache -------------------------------
(***************************************************************************)
(* llama_kv_cache and llama_decode, as native-lib.cpp drives them: the     *)
(* batch gets its positions from the cache, is split into ubatches, every  *)
(* ubatch is placed once on trial (prepare) and taken out again, and then  *)
(* the ubatches are placed for good and computed one after the other.  A   *)
(* batch may be refused for want of cells, and a computation may fail or   *)
(* be aborted half-way.  Between two decodes a caller may edit sequences.  *)
(*                                                                         *)
(* One stream (n_stream = 1), slots need not be contiguous, the standard   *)
(* sliding window (n_swa = 0: none).  A batch continues one sequence, with *)
(* generated positions, as llama_batch_get_one makes it.                   *)
(*                                                                         *)
(* A model with a sliding window has two of these caches, of which one is  *)
(* windowed, in a llama_kv_cache_iswa: its init_batch may place a batch on *)
(* trial twice, with two ways of splitting it, before it is refused, and   *)
(* either cache may refuse.  What is said here for n_swa > 0 is said of    *)
(* the class llama_kv_cache by itself, with one trial for an init_batch.   *)
(***************************************************************************)
EXTENDS KvCells, Sequences, SequencesExt, FiniteSetsExt

CONSTANTS Windows,      \* the values of n_swa, 0 without a sliding window
          UBatch,       \* n_ubatch
          Batches,      \* how many tokens a batch has
          Ranges,       \* the position ranges <<p0, p1>> a caller edits
          Deltas,       \* what seq_add adds
          Divisors,     \* what seq_div divides by
          MaxShift      \* bound: how far positions are moved between two decodes

ASSUME WindowAssumption == Windows \subseteq Nat
ASSUME BatchAssumption  == UBatch \in Nat \ {0} /\ Batches \subseteq Nat \ {0}
ASSUME EditAssumption   == /\ Ranges \subseteq Int \X Int /\ Deltas \subseteq Int
                           /\ Divisors \subseteq Nat \ {0} /\ MaxShift \in Nat

VARIABLES kv, head,     \* the cells; where the search for a slot starts
          n_swa,        \* the sliding window of the cache, fixed at its creation
          phase,        \* "idle", "place", "unwind", "compute", "returned", "dead"
          batch,        \* the batch being decoded: sequence, first position, length
          states,       \* prepare's recovery stack: slot, copied cells, old head
          done,         \* ubatches computed
          optimized,    \* did_optimize
          result,       \* what llama_decode returns
          before,       \* history: the cells when it was called
          rope          \* history: the position the key in a cell is rotated to

vars == <<kv, head, n_swa, phase, batch, states, done, optimized, result, before, rope>>

NoBatch  == [seq |-> "none", first |-> 0, n |-> 0]
NoResult == 99
Garbage  == -9          \* a key that was being written when the graph failed
Divided  == -8          \* a key whose position was divided
Torn     == -7          \* a key that only some of the layers have shifted

\* llama_kv_cells::cp, the position and sequences of the cells S.
Cp(k, S) == [pos |-> [i \in S |-> k.pos[i]], seq |-> [i \in S |-> k.seq[i]]]

KInit ==
  /\ kv = Reset /\ head = 0 /\ n_swa \in Windows
  /\ phase = "idle" /\ batch = NoBatch /\ states = << >> /\ done = 0
  /\ optimized = FALSE /\ result = NoResult /\ before = Cp(Reset, {})
  /\ rope = [i \in Cells |-> 0]

-----------------------------------------------------------------------------
(* The cache as a whole: loops over the cells.                             *)

Indices == [j \in 1 .. Size |-> j - 1]
ForCells(k, f(_, _), test(_, _)) ==
  FoldLeft(LAMBDA c, i : IF test(c, i) THEN f(c, i) ELSE c, k, Indices)

\* If a cell fell empty and lies before the head, the search starts there.
Freed(k, r) == {i \in Cells : ~IsEmpty(k, i) /\ IsEmpty(r, i)}
HeadAfter(k, r, h) == IF Freed(k, r) # {} /\ Min(Freed(k, r)) < h THEN Min(Freed(k, r)) ELSE h

RmRange(k, s, p0, p1) ==
  ForCells(k, LAMBDA c, i : SeqRm(c, i, s), LAMBDA c, i : PosIn(c, i, p0, p1) /\ s \in c.seq[i])
ClearRange(k, p0, p1) ==
  ForCells(k, LAMBDA c, i : Rm(c, i), LAMBDA c, i : PosIn(c, i, p0, p1))
CpRange(k, s, t, p0, p1) ==
  ForCells(k, LAMBDA c, i : SeqAdd(c, i, t), LAMBDA c, i : PosIn(c, i, p0, p1) /\ s \in c.seq[i])
KeepOnly(k, s) == ForCells(k, LAMBDA c, i : SeqKeep(c, i, s), LAMBDA c, i : TRUE)
AddRange(k, s, p0, p1, d) ==
  ForCells(k, LAMBDA c, i : PosAdd(c, i, d), LAMBDA c, i : PosIn(c, i, p0, p1) /\ s \in c.seq[i])
DivCells(k, hit, d) == ForCells(k, LAMBDA c, i : PosDiv(c, i, d), LAMBDA c, i : i \in hit)

\* is_masked_swa, standard window.
Masked(p0, p1) == n_swa > 0 /\ p1 - p0 >= n_swa

CanUse(k, i) ==
  \/ IsEmpty(k, i)
  \/ \E s \in Seqs : k.seq[i] = {s} /\ Masked(k.pos[i], SeqPosMax(k, s) + 1)

\* The first n usable cells of a sequence of cells, or fewer if it has fewer.
Usable(k, n, order) ==
  FoldLeft(LAMBDA idxs, i : IF Len(idxs) < n /\ CanUse(k, i) THEN Append(idxs, i) ELSE idxs,
           << >>, order)

\* Mutant: the search stops at the end of the cache
FindSlotOnce(k, h, n) ==
  LET idxs == Usable(k, n, [j \in 1 .. Size - h |-> h + j - 1])
  IN  IF Len(idxs) < n THEN << >> ELSE idxs

\* The first n usable cells, cyclically from the head; << >> if there are fewer.
FindSlot(k, h, n) ==
  LET start == IF h > Cardinality(k.used) + 2 * n THEN 0 ELSE h
      idxs == Usable(k, n, [j \in 1 .. Size |-> (start + j - 1) % Size])
  IN  IF Len(idxs) < n THEN << >> ELSE idxs

\* A token is put into a cell, which loses what it held.
PutToken(k, i, p, s) ==
  SeqAdd(PosSet(IF IsEmpty(k, i) THEN k ELSE Rm(k, i), i, p), i, s)

PutAll(k, slot, first, s0) ==
  FoldLeft(LAMBDA c, j : PutToken(c, slot[j], first + j - 1, s0),
           k, [j \in 1 .. Len(slot) |-> j])

\* Mutant: nothing is purged
ApplyUbatchLeaves(k, slot, first, s0) == PutAll(k, slot, first, s0)

\* apply_ubatch without the head: after the tokens are in, positions below the
\* ones of k that were overwritten are purged, so that no sequence gets a hole.
Lost(k, slot, s) == {k.pos[i] : i \in {i \in ToSet(slot) : k.seq[i] = {s}}}
Purge(k, slot, s, c) ==
  IF Lost(k, slot, s) # {} /\ SeqPosMin(c, s) <= Max(Lost(k, slot, s))
  THEN RmRange(c, s, SeqPosMin(c, s), Max(Lost(k, slot, s)) + 1) ELSE c
ApplyUbatch(k, slot, first, s0) ==
  FoldSet(LAMBDA s, c : Purge(k, slot, s, c), PutAll(k, slot, first, s0), Seqs)

-----------------------------------------------------------------------------
(* llama_decode.                                                           *)

\* Ubatch j of the batch: its first position and its length (split_simple).
NUbatches == (batch.n + UBatch - 1) \div UBatch
UFirst(j) == batch.first + (j - 1) * UBatch
ULen(j)   == IF j < NUbatches THEN UBatch ELSE batch.n - (j - 1) * UBatch

\* The keys that matter: those of occupied cells.
KeysOf(k, keys) == [i \in Cells |-> IF IsEmpty(k, i) THEN 0 ELSE keys[i]]

\* A shift that failed half-way: the keys are shifted in place, layer by layer.
TornKeys(k) == [i \in Cells |-> IF rope[i] < 0 \/ k.shift[i] = 0 THEN rope[i] ELSE Torn]

\* memory_update: a pending shift is applied to the keys and forgotten.  If its
\* graph cannot be allocated nothing has changed; if its computation fails, some
\* layers may have been shifted.  Both times the shift stays pending.
MemoryUpdate(k, ok) ==
  IF k.has_shift /\ ok
  THEN /\ kv' = ResetShift(k)
       /\ rope' = [i \in Cells |-> IF rope[i] < 0 THEN rope[i] ELSE rope[i] + k.shift[i]]
  ELSE /\ kv' = k
       /\ \/ UNCHANGED rope
          \/ k.has_shift /\ rope' = TornKeys(k)

\* The generated positions continue the sequence.
Start(s) == SeqPosMax(kv, s) + 1

\* GGML_ASSERT(n_tokens_all <= cparams.n_batch), n_batch at most n_ctx cells.
DecodeTooLong(n) ==
  /\ phase = "idle" /\ n > Size
  /\ phase' = "dead"
  /\ UNCHANGED <<kv, head, n_swa, batch, states, done, optimized, result, before, rope>>

Decode(n, s, ok) ==
  /\ phase = "idle" /\ n <= Size /\ Start(s) + n - 1 <= MaxPos
  /\ kv.has_shift \/ ok
  /\ batch' = [seq |-> s, first |-> Start(s), n |-> n]
  /\ MemoryUpdate(kv, ok)
  /\ phase' = "place" /\ before' = Cp(kv, Cells)
  /\ UNCHANGED <<head, n_swa, states, done, optimized, result>>

\* prepare places the next ubatch on trial.
Place ==
  /\ phase = "place"
  /\ LET j == Len(states) + 1
         slot == FindSlot(kv, head, ULen(j))
     IN  IF slot = << >>
         THEN phase' = "unwind" /\ UNCHANGED <<kv, head, states>>
         ELSE /\ states' = Append(states, [slot |-> slot, head |-> head,
                                          old |-> Cp(kv, ToSet(slot))])
              /\ kv' = ApplyUbatch(kv, slot, UFirst(j), batch.seq)
              /\ head' = Last(slot) + 1
              /\ phase' = IF j = NUbatches THEN "unwind" ELSE "place"
  /\ UNCHANGED <<n_swa, batch, done, optimized, result, before, rope>>

\* prepare takes the ubatches out again, the last one first: the cells of the
\* slots get back what they held.
PutBack(st, k) == FoldLeft(LAMBDA c, i : Restore(c, i, st.old), k, st.slot)
Unplace(k) == FoldRight(LAMBDA st, c : PutBack(st, c), states, k)

OldHead == IF states = << >> THEN head ELSE states[1].head

UnwindFits ==
  /\ phase = "unwind" /\ Len(states) = NUbatches
  /\ kv' = Unplace(kv) /\ head' = OldHead
  /\ phase' = "compute"
  /\ UNCHANGED <<n_swa, batch, states, done, optimized, result, before, rope>>

\* No slot: the batch is refused, unless an update that failed before the
\* trial can be made up for, which is tried once.
UnwindRefused ==
  /\ phase = "unwind" /\ Len(states) < NUbatches
  /\ optimized \/ ~kv.has_shift
  /\ kv' = Unplace(kv) /\ head' = OldHead /\ states' = << >>
  /\ phase' = "returned" /\ result' = 1
  /\ UNCHANGED <<n_swa, batch, done, optimized, before, rope>>

\* Mutant: did_optimize is not set
UnwindRetryAgain(ok) ==
  /\ phase = "unwind" /\ Len(states) < NUbatches
  /\ ~optimized /\ kv.has_shift
  /\ MemoryUpdate(Unplace(kv), ok)
  /\ head' = OldHead /\ states' = << >>
  /\ phase' = "place"
  /\ UNCHANGED <<n_swa, batch, done, optimized, result, before>>

UnwindRetry(ok) ==
  /\ phase = "unwind" /\ Len(states) < NUbatches
  /\ ~optimized /\ kv.has_shift
  /\ MemoryUpdate(Unplace(kv), ok)
  /\ head' = OldHead /\ states' = << >>
  /\ phase' = "place" /\ optimized' = TRUE
  /\ UNCHANGED <<n_swa, batch, done, result, before>>

\* The buffer for the outputs cannot be allocated.
ReserveFails ==
  /\ phase = "compute" /\ done = 0
  /\ phase' = "returned" /\ states' = << >> /\ result' = -2
  /\ UNCHANGED <<kv, head, n_swa, batch, done, optimized, before, rope>>

\* process_ubatch: the ubatch is placed in the slot found for it and computed;
\* its keys are written.
ComputeOk ==
  /\ phase = "compute"
  /\ LET j == done + 1
         slot == states[j].slot
         k == ApplyUbatch(kv, slot, UFirst(j), batch.seq)
     IN  /\ kv' = k /\ head' = Last(slot) + 1
         /\ rope' = [i \in Cells |-> IF i \in ToSet(slot) THEN k.pos[i] ELSE rope[i]]
         /\ done' = j
         /\ IF j < NUbatches THEN UNCHANGED <<phase, states, result>>
            ELSE phase' = "returned" /\ states' = << >> /\ result' = 0
  /\ UNCHANGED <<n_swa, batch, optimized, before>>

\* Mutant: the failed ubatch stays
ComputeFailsKeeps ==
  /\ phase = "compute"
  /\ LET slot == states[done + 1].slot
     IN  /\ kv' = ApplyUbatch(kv, slot, UFirst(done + 1), batch.seq)
         /\ head' = Last(slot) + 1
         /\ rope' = [i \in Cells |-> IF i \in ToSet(slot) THEN Garbage ELSE rope[i]]
  /\ phase' = "returned" /\ states' = << >> /\ result' = 2
  /\ UNCHANGED <<n_swa, batch, done, optimized, before>>
\* Mutant: the whole batch is removed
ComputeFailsBatch ==
  /\ phase = "compute"
  /\ LET slot == states[done + 1].slot
         k == ApplyUbatch(kv, slot, UFirst(done + 1), batch.seq)
         r == RmRange(k, batch.seq, batch.first, MaxPos + 1)
     IN  /\ kv' = r /\ head' = HeadAfter(k, r, Last(slot) + 1)
         /\ rope' = [i \in Cells |-> IF i \in ToSet(slot) THEN Garbage ELSE rope[i]]
  /\ phase' = "returned" /\ states' = << >> /\ result' = 2
  /\ UNCHANGED <<n_swa, batch, done, optimized, before>>

\* Failed or aborted: the ubatch is removed again, from its first position on,
\* for the first sequence of its tokens.  Result 2 stands for -2 and -3 too.
ComputeFails ==
  /\ phase = "compute"
  /\ LET j == done + 1
         slot == states[j].slot
         k == ApplyUbatch(kv, slot, UFirst(j), batch.seq)
         r == RmRange(k, batch.seq, UFirst(j), MaxPos + 1)
     IN  /\ kv' = r /\ head' = HeadAfter(k, r, Last(slot) + 1)
         /\ rope' = [i \in Cells |-> IF i \in ToSet(slot) THEN Garbage ELSE rope[i]]
  /\ phase' = "returned" /\ states' = << >> /\ result' = 2
  /\ UNCHANGED <<n_swa, batch, done, optimized, before>>

\* The caller has the result; what is known of empty cells is forgotten.
Return ==
  /\ phase = "returned"
  /\ phase' = "idle" /\ batch' = NoBatch /\ done' = 0 /\ optimized' = FALSE
  /\ result' = NoResult /\ before' = Cp(Reset, {}) /\ rope' = KeysOf(kv, rope)
  /\ UNCHANGED <<kv, head, n_swa, states>>

-----------------------------------------------------------------------------
(* The caller edits sequences (the llama_memory_seq functions).            *)

\* An edit between two decodes, from the cells kv to r.
EditTo(r, h, keys) ==
  /\ phase = "idle"
  /\ kv' = r /\ head' = h /\ rope' = KeysOf(r, keys)
  /\ UNCHANGED <<n_swa, phase, batch, states, done, optimized, result, before>>

Edit(r, h) == EditTo(r, h, rope)

CacheClear == Edit(Reset, 0)

CacheSeqRm(s, p0, p1) ==
  LET r == RmRange(kv, s, p0, p1)
  IN  Edit(r, HeadAfter(kv, r, head))

CacheRmAny(p0, p1) ==
  LET r == ClearRange(kv, p0, p1)
  IN  Edit(r, HeadAfter(kv, r, head))

\* The destination must not be in the copied cells (assertion in seq_add).
CacheSeqCp(s, t, p0, p1) ==
  /\ s # t /\ \A i \in Cells : PosIn(kv, i, p0, p1) => ~({s, t} \subseteq kv.seq[i])
  /\ Edit(CpRange(kv, s, t, p0, p1), head)

CacheSeqKeep(s) ==
  LET r == KeepOnly(kv, s)
  IN  Edit(r, HeadAfter(kv, r, head))

ShiftInBounds(k) == \A i \in Cells : k.shift[i] \in -MaxShift .. MaxShift

CacheSeqAdd(s, p0, p1, d) ==
  /\ d # 0 /\ p0 # p1
  /\ \A i \in Cells : kv.pos[i] + d <= MaxPos
  /\ LET r == AddRange(kv, s, p0, p1, d)
     IN  /\ ShiftInBounds(r)
         /\ Edit(r, IF Freed(kv, r) # {} THEN Min(Freed(kv, r)) ELSE 0)

CacheSeqDiv(s, p0, p1, d) ==
  /\ d # 1 /\ p0 # p1
  /\ LET hit == {i \in Cells : PosIn(kv, i, p0, p1) /\ s \in kv.seq[i]}
         r == DivCells(kv, hit, d)
     IN  /\ ShiftInBounds(r)
         /\ EditTo(r, head, [i \in Cells |-> IF i \in hit THEN Divided ELSE rope[i]])

-----------------------------------------------------------------------------
DecodeStep ==
  \/ Place \/ UnwindFits \/ UnwindRefused \/ ComputeOk \/ ComputeFails \/ ReserveFails
  \/ Return
  \/ \E ok \in BOOLEAN : UnwindRetry(ok)

CallerEdits ==
  \/ CacheClear
  \/ \E s \in Seqs : CacheSeqKeep(s)
  \/ \E r \in Ranges :
       \/ CacheRmAny(r[1], r[2])
       \/ \E s \in Seqs :
            \/ CacheSeqRm(s, r[1], r[2])
            \/ \E t \in Seqs : CacheSeqCp(s, t, r[1], r[2])
            \/ \E d \in Deltas : CacheSeqAdd(s, r[1], r[2], d)
            \/ \E d \in Divisors : CacheSeqDiv(s, r[1], r[2], d)

\* The process was killed by an assertion.
Dead == phase = "dead" /\ UNCHANGED vars

KNext ==
  \/ \E n \in Batches : DecodeTooLong(n)
  \/ \E n \in Batches, s \in Seqs, ok \in BOOLEAN : Decode(n, s, ok)
  \/ DecodeStep
  \/ CallerEdits
  \/ Dead

KSpec == KInit /\ [][KNext]_vars

-----------------------------------------------------------------------------
(* Properties.                                                             *)

\* Cells, books and the decoder's state have their types.
KTypeOK ==
  /\ kv \in Caches /\ head \in 0 .. Size /\ n_swa \in Windows
  /\ phase \in {"idle", "place", "unwind", "compute", "returned", "dead"}
  /\ result \in {NoResult, 0, 1, 2, -2} /\ done \in Nat /\ optimized \in BOOLEAN
  /\ rope \in [Cells -> Int]

\* llama_kv_cells keeps its books through every trial, retreat, failure and
\* edit, so that the ends of a sequence and the free cells are what they seem.
BooksBalance == Books(kv)

\* find_slot: a batch is only refused when there were fewer empty cells than
\* tokens, wherever the search starts and however the cells are scattered.  (In
\* llama_kv_cache_iswa the other cache may refuse it as well.)
RefusalMeansFull ==
  result = 1 => Cardinality({i \in Cells : before.pos[i] = -1}) < batch.n

\* llama_decode's contract.  After success the sequence ends with the batch.
\* Without a sliding window it ends, whatever the outcome, with the last ubatch
\* that was computed, and every cell that was occupied before is as it was.
DecodeOutcome ==
  phase = "returned" =>
    LET kept == IF result = 0 THEN batch.n ELSE done * UBatch
    IN  /\ result = 0 \/ n_swa = 0 => SeqPosMax(kv, batch.seq) = batch.first + kept - 1
        /\ n_swa = 0 => \A i \in Cells : before.pos[i] # -1 =>
             kv.pos[i] = before.pos[i] /\ kv.seq[i] = before.seq[i]

\* Attention relies on it: every occupied cell holds a computed key, rotated to
\* the cell's position once the pending shift is applied.  It is stated without
\* a sliding window and for the keys that no seq_div touched, whose shift has the
\* opposite sign, and no shift that failed half-way: the code keeps that shift
\* pending, and the layers which have had it get it again at the next decode.
Spoilt == {Divided, Torn}
KeysMatchPositions ==
  n_swa = 0 /\ phase \in {"idle", "returned"} =>
    \A i \in Cells : ~IsEmpty(kv, i) /\ rope[i] \notin Spoilt =>
      rope[i] + kv.shift[i] = kv.pos[i]

\* The comment in apply_ubatch: "we want to preserve the invariant that all
\* positions between [pos_min, pos_max] for each sequence will be present".  It is
\* kept by a decode that succeeds at the first trial, and by every decode without
\* a sliding window.  Under one, a second trial starts from what the first has
\* purged for nothing, and may leave the hole; in llama_kv_cache_iswa the second
\* way of splitting the batch is such a trial too.
Whole(k, s) ==
  LET held == {k.pos[i] : i \in {i \in Cells : s \in k.seq[i]}}
  IN  \A p, q \in held : p .. q \subseteq held
DecodeLeavesNoHole ==
  phase = "returned" /\ (n_swa = 0 \/ (result = 0 /\ ~optimized)) =>
    \A s \in Seqs : Whole(before, s) => Whole(kv, s)

\* What a decode still has to do, at most: the ubatches left to place or to
\* compute, and the one retry of a refused batch.
Remaining ==
  LET w == NUbatches + 2
      tries == IF optimized THEN w ELSE 3 * w
  IN  CASE phase = "place"   -> tries + NUbatches - Len(states)
        [] phase = "unwind"  -> tries
        [] phase = "compute" -> NUbatches - done
        [] OTHER             -> 0

\* llama_decode returns: every step of it leaves less to do, so that neither the
\* retry loop nor the loop over the ubatches goes on for ever (no state of a
\* decode being a deadlock).
GetsAhead == phase \in {"place", "unwind", "compute"} =>
               Remaining' < Remaining /\ Remaining' >= 0
DecodeReturns == [][GetsAhead]_vars
=============================================================================
