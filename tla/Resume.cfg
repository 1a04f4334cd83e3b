CONSTANTS
  a = a  b = b  e = e
  Labels = {a, e}
  Empty = {e}
  Genesis <- ThreeBlocks
  Depth = 2
  MaxHistory = 3
  MaxCrumbs = 2
  Window = 2
  PortSize = 2
  MaxHeight = 5
  MaxFork = 3
  Faults = {"crash", "drop"}
  MaxFaults = 2
SPECIFICATION Spec
INVARIANTS
  SettledHistoryIsTheChain
  CrumbsAreOnPath
  SavedPointIsOnChain
PROPERTIES
  CatchesUpFromChainPoint
CHECK_DEADLOCK FALSE
