SPECIFICATION Spec
CONSTANTS
  Keys = {1, 2}
  WriteBuffer = 0
  FirstLog = 7
  Script <- MCPuts
  Openings <- MCOpenings
  kL0_SlowdownWrites = 2
  MaxUnsynced = 1
  MaxGets = 0
INVARIANT AckedDurable
CHECK_DEADLOCK FALSE
