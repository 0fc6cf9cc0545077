SPECIFICATION Spec
CONSTANTS
  Keys = {1, 2}
  WriteBuffer = 0
  FirstLog = 3
  Script <- MCScript
  Openings <- MCOpenings
  kL0_SlowdownWrites = 2
  MaxUnsynced = 1
  MaxGets = 1
INVARIANTS TypeOK AckedDurable GetExact CloseWaits
CHECK_DEADLOCK FALSE
