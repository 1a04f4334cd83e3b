CONSTANTS
  Pools = {"p"}
  DReps = {"v"}
  Names = {"A", "B"}
  None = None
  Tokens = {"x"}
  Datums <- MCDatums
  Entries <- MCEntries
  Blocks <- MCBlocks
  Interval = 2
  MaxHistory = 2
  Depth = 2
  MaxBlocks = 3
  MaxRows = 2
  MaxCommits = 1
  MaxFaults = 2
SPECIFICATION Spec
INVARIANTS
  NamesFollowDbSync
  DatumsOutrankRegistry
CHECK_DEADLOCK FALSE
