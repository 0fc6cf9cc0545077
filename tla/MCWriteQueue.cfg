SPECIFICATION Spec
CONSTANTS
  w1 = w1
  w2 = w2
  Writers = {w1, w2}
  NoWriter = NoWriter
  Batches <- MCBatches
  MaxBatchSize = 3
  MaxCalls = 2
SYMMETRY MCSymmetry
INVARIANTS TypeOK SingleLeader LogOrdered WriteAhead ReturnedLogged AtomicVisibility
CHECK_DEADLOCK FALSE
