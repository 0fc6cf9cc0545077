SPECIFICATION Spec
CONSTANTS
  Keys = {1, 2}
  NumLevels = 3
  MaxReplayed = 2
  MaxOpens = 3
INVARIANTS TypeOK VersionExact ReplayAgrees EditLogKnown
CHECK_DEADLOCK FALSE
