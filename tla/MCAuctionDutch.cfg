CONSTANTS
  ann = ann
  bob = bob
  boss = boss
  vault = vault
  gold = gold
  sword = sword
  Self = Self
  None = None
  Addr = {ann, bob, boss}
  Bidders = {ann, bob}
  Token = {gold}
  Item = {sword}
  Lots <- MCLots
  Bids = {1, 2, 3}
  InitBalance = 4
  Extension = 1
  MaxAuctions = 2
  MaxTime = 2
  Plans <- MCPlans
  Amounts = {1, 2}
  MaxCampaigns = 2
  Covered = {vault}
  DEFAULT_CONFIG <- MCDefaultConfig
  Rates = {4}
  Ratios = {4, 5}
  Limits <- MCLimits
  Coverages = {2, 3}
  Periods = {1}
  SECONDS_PER_DAY = 1
  BASIS_POINTS = 4
  YEAR = 1
  LOOKBACK = 1
  MIN_RESERVE = 1
  CLAIM_LIMIT = 1
  POOL_LIMIT = 1
  HIGH_RISK = 2
  MaxClaims = 2
  PoolBalance = 2
  PoolMaxTime = 1
  cat = cat
  dan = dan
  eve = eve
  OfSocialTipping <- MCSocialTipping
  OfHintMarketplace <- MCHintMarketplace
SPECIFICATION MCSpec
CONSTRAINT Bounded
PROPERTY SaleCompleted
CHECK_DEADLOCK FALSE
