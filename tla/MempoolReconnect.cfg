CONSTANTS
  x = x  y = y  page = page
  Txs = {x, y}
  Pages = {}
  MaxBlocks = 1
  MaxHeight = 1
  PortSize = 1
  Buffer = 1
  MaxRestarts = 1
SPECIFICATION Spec
PROPERTIES
  GoneTxsLeave
CHECK_DEADLOCK FALSE
