SPECIFICATION Spec
CONSTANTS
  RestartInterval = 2
  BufferSize = 32
  PartialLengths = {1, 5}
  FilterBase = 16
  BitsPerKey = 10
  WordBits = 16
  RotateBits = 9
  Hash <- MCHash
  TableKeys <- MCKeys
  ValueLengths = {1, 40, 90}
  DataBlockSize = 9
  BackSize = 1
  FooterSize = 2
  Compressed <- MCCompressed
INVARIANT IndexComplete
CHECK_DEADLOCK FALSE
