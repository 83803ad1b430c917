SPECIFICATION BlockFairSpec
CONSTANTS
  BlockIds = {b1, b2}
  BlockFaults <- AllFaults
  MaxCrashes = 2
INVARIANTS
  RestoredMeansGone
  RowFollowsRule
  BlockHasKeeper
PROPERTIES
  NoEarlyLift
  ExpiryLiftsBlock
  ExpiryClosesRecord
