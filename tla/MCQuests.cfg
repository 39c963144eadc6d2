CONSTANTS
  ann = ann
  bob = bob
  boss = boss
  mia = mia
  cat = cat
  eve = eve
  dan = dan
  gold = gold
  relic = relic
  Self = Self
  None = None
  NoQuest = NoQuest
  Addr = {ann, bob, boss, mia}
  Owner = boss
  Players = {ann, bob}
  Raters = {ann, bob}
  Staff = {mia}
  Token = {gold, relic}
  Nft = relic
  NftIds = {2}
  Blueprints <- MCBlueprints
  Fundings <- MCFundings
  Configs <- MCConfigs
  Ratings = {0, 5}
  InitBalance = 2
  DEFAULT_CONFIG <- MCDefaultConfig
  MAX_LEADERBOARD_ENTRIES = 2
  MaxChains = 2
  MaxCompletions = 2
  MaxTime = 1
  Timelocks = {0, 1, 2}
  DEFAULT_TIMELOCK = 1
  U64_MAX = 2
  MaxEvents = 5
  OfAntiBot <- MCAntiBot
  OfDynamicMetadata <- MCDynamicMetadata
  OfAchievementSets <- MCAchievementSets
  OfReferral <- MCReferral
  OfCrossContract <- MCCrossContract
  OfGuild <- MCGuild
  OfEnergy <- MCEnergy
SPECIFICATION MCSpec
CONSTRAINT Bounded
SYMMETRY PlayerSymmetry
INVARIANTS
  PoolsBacked
  ChainBooks
  PendingEarned
  UnpauseWaits
  RecordsAgree
CHECK_DEADLOCK FALSE
