SPECIFICATION KSpec
CONSTANTS
  Size = 3
  Seqs = {s0, s1}
  MaxPos = 3
  Windows = {0, 2}
  UBatch = 2
  Batches = {1, 3, 4}
  Ranges <- MCRanges
  Deltas <- MCDeltas
  Divisors <- MCDivisors
  MaxShift = 1
SYMMETRY SeqSymmetry
INVARIANTS KTypeOK BooksBalance RefusalMeansFull DecodeOutcome KeysMatchPositions DecodeLeavesNoHole
PROPERTY DecodeReturns
