SPECIFICATION Spec
INVARIANTS ClientStreamIsLegal ClientHearsTheAnswer RecordShowsWhatIsSaid DoneFramesRepeatTheDeltas EndReachesTheClient SynthesizedStreamSaysTheSame
CONSTANTS
  Routes <- AllRoutes
  TextPairs <- MCTextPairs
  ArgsPairs <- MCArgsPairs
  Pieces <- MCPieces
  Name <- MCMock
  Trouble <- MCMock
  ForeignBlocks = {"image"}
  MaxBlocks = 2
  MaxPieces = 3
  Continuation = {}
CHECK_DEADLOCK FALSE
