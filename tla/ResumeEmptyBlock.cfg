CONSTANTS
  a = a  b = b  e = e
  Labels = {a, e}
  Empty = {e}
  Genesis <- EmptySecond
  Depth = 2
  MaxHistory = 3
  MaxCrumbs = 2
  Window = 1
  PortSize = 1
  MaxHeight = 5
  MaxFork = 0
  Faults = {"crash"}
  MaxFaults = 1
SPECIFICATION Spec
PROPERTIES
  CatchesUp
CHECK_DEADLOCK FALSE
