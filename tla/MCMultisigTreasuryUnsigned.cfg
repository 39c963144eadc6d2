CONSTANTS
  a1 = a1
  a2 = a2
  a3 = a3
  Addr <- Accounts3
  Proposals <- MCProposals
  Thresholds = {1, 2}
  Timeouts = {0}
  PendingLimits = {1}
  Cooldowns = {1}
  InitFunds = 1
  MaxTx = 1
  StartTime = 1
  MaxTime = 2
SPECIFICATION Spec
SYMMETRY Symmetry
INVARIANTS
  ExecutedWasSigned
CHECK_DEADLOCK FALSE
