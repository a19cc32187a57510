CONSTANTS
  FS_SERVER_COUNT = 2
  Names = {1, 2, 3, 4, 5}
  Fit = 2
  MaxChanges = 2
  Hash <- MCHash
  Setups <- MCSetups
SPECIFICATION Spec
INVARIANTS StaysListed ListedOnce
PROPERTY ListingEnds
CHECK_DEADLOCK FALSE
