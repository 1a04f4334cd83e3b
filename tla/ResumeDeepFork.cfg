CONSTANTS
  a = a  b = b  e = e
  Labels = {a, b}
  Empty = {}
  Genesis <- ThreeBlocks
  Depth = 2
  MaxHistory = 3
  MaxCrumbs = 2
  Window = 2
  PortSize = 1
  MaxHeight = 5
  MaxFork = 2
  Faults = {"drop"}
  MaxFaults = 1
SPECIFICATION Spec
PROPERTIES
  CatchesUp
CHECK_DEADLOCK FALSE
