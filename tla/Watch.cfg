CONSTANTS
  PortSize = 2
  ReadLimit = 3
  DumpAfter = 2
  RestartAfter = 3
  MaxSlot = 4
  MaxForks = 1
  MaxFaults = 2
SPECIFICATION Spec
PROPERTIES
  BlocksGetApplied
  PagesOpen
CHECK_DEADLOCK FALSE
