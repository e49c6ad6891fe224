------------------------------ MODULE MCKvCache ------------------------------
(* KvCache for TLC: what a caller edits. *)
EXTENDS KvCache, TLC

MCRanges == {<<0, 1>>, <<2, MaxPos + 1>>}
MCDeltas == {-1}
MCDivisors == {2}
SeqSymmetry == Permutations(Seqs)
=============================================================================
