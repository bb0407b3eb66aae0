SPECIFICATION LiveSpec
CONSTANTS
  Readers = {r}
  Watchdog = w
  Other = o
  NoFile = none
  Levels <- MCLevels
  Filters <- MCFilters
  MaxOpen = 2
  Size = 2
  MaxWrites = 3
INVARIANTS
  TypeOK
  OpenFindsSlot
  InOrder
  NoLostWakeup
  ChangeKnown
PROPERTIES
  LevelReported
  ReadReturns
