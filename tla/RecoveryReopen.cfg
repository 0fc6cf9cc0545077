SPECIFICATION Spec
CONSTANTS
  WriteBuffer = 1
  MaxWrites = 1
  MaxOpens = 2
INVARIANTS ReopenKeeps
CHECK_DEADLOCK FALSE
