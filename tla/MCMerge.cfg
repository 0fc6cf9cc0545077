SPECIFICATION SpecM
CONSTANTS
  BlockSize = 48
  Keys = {1, 2}
  KeySize <- MCKeySize
  UserKey <- MCUserKey
  ValueSizes = {40}
  MaxAdds = 4
  RestartInterval = 2
  MaxBlocks = 3
INVARIANTS TypeOK AllocationsDisjoint AllocationsAligned WasteBounded GetNewest
PROPERTIES IteratorIsCursor
CHECK_DEADLOCK FALSE
