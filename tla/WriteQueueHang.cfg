SPECIFICATION FairSpec
CONSTANTS
  w1 = w1
  w2 = w2
  Writers = {w1, w2}
  NoWriter = NoWriter
  Batches <- MCPuts
  MaxBatchSize = 2
  MaxCalls = 1
PROPERTY EveryWriteReturns
CHECK_DEADLOCK FALSE
