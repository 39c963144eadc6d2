CONSTANTS
  a1 = a1
  a2 = a2
  s1 = s1
  Addr <- Holders
  Spenders = {s1}
  Amounts <- MCAmounts
  Configs <- MCConfigs
  MaxSupply = 2
  MaxProposals = 1
  MaxCheckpoints = 3
  LastApproval = 2
  MaxLedger = 5
SPECIFICATION Spec
SYMMETRY Symmetry
CONSTRAINT Bounded
INVARIANT WeightFromSnapshot
CHECK_DEADLOCK FALSE
