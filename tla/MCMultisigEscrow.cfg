CONSTANTS
  buyer = buyer
  seller = seller
  s1 = s1
  s2 = s2
  s3 = s3
  gold = gold
  Self = Self
  None = None
  Addr = {buyer, seller, s1, s2, s3}
  Token = {gold}
  Offers <- MCOffers
  InitBalance = 5
  MaxEscrows = 2
  MaxTime = 3
SPECIFICATION FairSpec
INVARIANTS
  TypeOK
  Solvent
  NoRivalQuorums
PROPERTIES
  Custodian
  LeavesActiveForAReason
  ClosedForGood
  PaidInFull
  ActiveEnds
CHECK_DEADLOCK FALSE
