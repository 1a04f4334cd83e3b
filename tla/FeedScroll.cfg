CONSTANTS
  Feeds <- MCFeeds
  Rewards <- MCRewards
  Stake0 = 5
  Top = 100
  PageSize = 2
  Start = 4
  MaxLag = 1
  Retained = 1
  MaxShown = 2
SPECIFICATION Spec
INVARIANTS
  StakeIsTheLedgers
  FeedHasNoGap
PROPERTIES
  ReadsInOrder
CHECK_DEADLOCK FALSE
