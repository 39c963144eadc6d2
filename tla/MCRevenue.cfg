CONSTANTS
  maker = maker
  ann = ann
  bob = bob
  fan = fan
  gold = gold
  Self = Self
  None = None
  Addr = {maker, ann, bob, fan}
  Token = {gold}
  Admins = {maker}
  Payers = {fan}
  Terms <- MCTerms
  Changes <- MCChanges
  Amounts = {0, 3}
  BpsDenominator = 4
  MaxBeneficiaries = 2
  InitBalance = 6
  MaxAgreements = 2
  LastDeposit = 1
  MaxTime = 2
  Royalty = gold
  Governance = gold
  Creators = {maker, ann, bob}
  Players = {ann, bob}
  RoyaltyShares = {0, 1, 2}
  RoyaltyBalance = 3
  MAX_RECIPIENTS = 3
  EMERGENCY_TIMELOCK = 1
  MaxPeriods = 3
  MaxPool = 6
SPECIFICATION MCSpec
INVARIANTS
  TypeOK
  Books
  RecipientsIndexed
  ClaimsCovered
PROPERTIES
  Custodian
  PastRevenueToPastParties
  FrozenUntilResolved
  SettledInTime
  RoyaltiesKept
CHECK_DEADLOCK FALSE
