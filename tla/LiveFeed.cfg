CONSTANTS
  x = x  y = y  page = page
  Txs = {x}
  Pages = {page}
  MaxBlocks = 2
  MaxHeight = 3
  PortSize = 1
  Buffer = 2
  MaxRestarts = 1
SPECIFICATION Spec
INVARIANTS
  BusHoldsChainEnd
  PagesShowSameBlocks
  PagesShowSamePending
CHECK_DEADLOCK FALSE
