SPECIFICATION Spec
CONSTANTS
  BlockSize = 7
  HeaderSize = 2
  BufferSize = 17
  PartialLengths = {2, 3}
  Sizes = {1, 3, 9}
  MaxRecords = 3
INVARIANTS RecordsWhole
CHECK_DEADLOCK FALSE
