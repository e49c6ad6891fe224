SPECIFICATION PSpec
CONSTANTS
  Pool = 3
  Graphs <- MCGraphs
  Plans = {1, 2, 4}
  Factor = 1
  CanAbort = TRUE
  MaxGraphs = 2
INVARIANTS PTypeOK ParametersAreQuiet ChunkHasOneOwner WorkBufferIsStable InputsAreComplete
PROPERTIES ImplementsExecutor CallsReturn
