CONSTANTS
  x = x  y = y  page = page
  Txs = {x, y}
  Pages = {}
  MaxBlocks = 1
  MaxHeight = 2
  PortSize = 1
  Buffer = 1
  MaxRestarts = 0
SPECIFICATION Spec
INVARIANTS
  MonitorRemembers
PROPERTIES
  GoneTxsLeave
  PendingTxsShow
CHECK_DEADLOCK FALSE
