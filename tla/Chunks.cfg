SPECIFICATION StreamSpec
INVARIANTS FramesIgnoreChunks RestorationIgnoresChunks
CONSTANTS
  Bytes <- MCBytes
  Tables <- MCTables
  Leads <- MCLeads
  Continuation <- MCContinuation
  MaxChunk = 2
  MaxBuf = 5
CHECK_DEADLOCK FALSE
