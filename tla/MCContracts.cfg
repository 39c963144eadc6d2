\* The contracts that are followed one at a time; the bounds stop them.
SPECIFICATION MCSpec
CONSTANTS
  ann = ann
  bob = bob
  cat = cat
  eve = eve
  dan = dan
  coins = coins
  cards = cards
  Self = Self
  None = None
  OfInsurance <- MCInsurance
  OfBridge <- MCBridge
  OfPuzzleDao <- MCPuzzleDao
  OfGovernance <- MCGovernance
  OfPuzzlePoolStaking <- MCPuzzlePoolStaking
  OfPuzzleRental <- MCPuzzleRental
  OfStaking <- MCStaking
  OfLending <- MCLending
  OfVesting <- MCVesting
  OfVestingSchedule <- MCVestingSchedule
  OfFlashLoan <- MCFlashLoan
SYMMETRY Symmetric
CONSTRAINT Bounded
INVARIANTS
  HoldingsBacked
PROPERTY DecidedOnce
CHECK_DEADLOCK FALSE
