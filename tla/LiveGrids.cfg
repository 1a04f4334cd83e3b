CONSTANTS
  Creds = {1, 2, 3}
  CredOf <- MCCredOf
  Targets = {"P", "Q"}
  NoTarget = "none"
  Views <- MCViews
  Genesis <- MCGenesis
  Blocks <- MCBlocks
  Reward = 1
  PageSize = 2
  MaxBlocks = 2
  MaxAhead = 2
  MaxRolls = 1
  MaxDrops = 1
SPECIFICATION Spec
INVARIANTS
  ChangesAddUp
  MagnitudesAreChanges
  HeaderShowsState
  GridShowsDelegators
  GridShowsAssets
CHECK_DEADLOCK FALSE
