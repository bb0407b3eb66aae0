SPECIFICATION Spec
CONSTANTS
  NFilters = 2
  NFeeds = 2
  NEntries = 2
  Params <- MCParams
  Workloads <- MCWorkloads
  Size = 5
  Header = 2
  Length = 3
  Counts = {1, 5}
INVARIANTS
  TypeOK
  
  
  
  InSequence
  Framed
