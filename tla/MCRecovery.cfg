SPECIFICATION Spec
CONSTANTS
  WriteBuffer = 1
  MaxWrites = 4
  MaxOpens = 3
INVARIANTS TypeOK CurrentComplete TablesPresent
PROPERTIES LogRetired
CHECK_DEADLOCK FALSE
