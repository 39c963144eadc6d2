---------------------------- MODULE MCContracts ----------------------------
(***************************************************************************)
(* Contracts that hold tokens, one at a time: each behaviour runs one of   *)
(* them, chosen in the initial state.  They share no storage and do not    *)
(* call one another, so contracts that use the same name for a key share   *)
(* the variable, and what is not theirs stays 0.                           *)
(*                                                                         *)
(* The contracts come first, with their constants as parameters            *)
(* (OfInsurance and so on, records of the constants' values) and the       *)
(* proofs that each of them keeps its invariant.  The values that TLC      *)
(* gives the parameters, the bounds, the specification, its properties and *)
(* the theorems about it follow.                                           *)
(*                                                                         *)
(* For TLC, eve and dan stand for one another wherever they occur; ann,    *)
(* bob and cat do not.                                                     *)
(***************************************************************************)
EXTENDS TokenUnitsProofs, Sequences, TLC

CONSTANTS
  ann, bob, cat, eve, dan, coins, cards, Self, None,
  \* the constants of each contract that holds tokens, by their names there
  OfInsurance, OfBridge, OfPuzzleDao, OfGovernance, OfPuzzlePoolStaking, OfPuzzleRental,
  OfStaking, OfLending, OfVesting, OfVestingSchedule, OfFlashLoan

VARIABLES
  contract,   \* the one that runs
  now,        \* ledger timestamp
  bal, config, policy, claim, pool, fraud, validators, locked, status, nonce, wrapped, tier,
  stake, power, delegatee, proposal, voted, multisig, action, deposited, funds, position,
  total_staked, stakers, epoch, current, solves, claimed, initialized, listing, next_listing,
  active_listings, owner_listings, rental, next_rental, renter_rentals, history, info,
  reward_pool, owner, offer, loan, extension, paused, schedule, next_id, of_user, record,
  analytics,
  late, strayed, paid_out, stake_time, vested_then   \* for the properties alone

vars == <<contract, now, bal, config, policy, claim, pool, fraud, validators, locked, status,
          nonce, wrapped, tier, stake, power, delegatee, proposal, voted, multisig, action,
          deposited, funds, position, total_staked, stakers, epoch, current, solves, claimed,
          initialized, listing, next_listing, active_listings, owner_listings, rental,
          next_rental, renter_rentals, history, info, reward_pool, owner, offer, loan,
          extension, paused, schedule, next_id, of_user, record, analytics, late, strayed,
          paid_out, stake_time, vested_then>>

\* The contracts that keep a Config.
WithConfig ==
  {"insurance", "bridge", "puzzle_dao", "governance", "puzzle_pool_staking", "staking", "flash_loan"}

\* Storage that is not of the contract that runs, in the initial state and later.
OthersAbsent ==
  /\ contract # "insurance" => policy = 0 /\ claim = 0 /\ fraud = 0
  /\ contract # "bridge" => validators = 0 /\ locked = 0 /\ status = 0 /\ nonce = 0
         /\ wrapped = 0
  /\ contract # "puzzle_dao" => tier = 0 /\ stake = 0
  /\ contract # "governance" => deposited = 0
  /\ contract # "puzzle_pool_staking" => funds = 0 /\ epoch = 0 /\ current = 0 /\ solves = 0
  /\ contract # "puzzle_rental" => initialized = 0 /\ next_listing = 0 /\ owner_listings = 0
         /\ rental = 0 /\ next_rental = 0 /\ renter_rentals = 0 /\ late = 0 /\ strayed = 0
  /\ contract # "staking" => info = 0 /\ reward_pool = 0 /\ paid_out = 0 /\ stake_time = 0
  /\ contract # "lending" => offer = 0 /\ loan = 0 /\ extension = 0
  /\ contract # "vesting" => next_id = 0 /\ vested_then = 0
  /\ contract # "vesting_schedule" => of_user = 0
  /\ contract # "flash_loan" => record = 0 /\ analytics = 0
  /\ contract \notin WithConfig => config = 0
  /\ contract \notin {"insurance", "flash_loan"} => pool = 0
  /\ contract \notin {"puzzle_dao", "governance"} => power = 0 /\ delegatee = 0 /\ multisig = 0
         /\ action = 0 /\ proposal = 0 /\ voted = 0
  /\ contract \notin {"puzzle_pool_staking", "flash_loan"} => position = 0
  /\ contract \notin {"puzzle_pool_staking", "staking"} => total_staked = 0 /\ stakers = 0
  /\ contract # "puzzle_pool_staking" => claimed = 0
  /\ contract # "puzzle_rental" => listing = 0 /\ active_listings = 0
  /\ contract \notin {"puzzle_rental", "vesting_schedule"} => history = 0
  /\ contract # "lending" => owner = 0
  /\ contract \notin {"vesting", "vesting_schedule"} => paused = 0 /\ schedule = 0

OthersStay ==
  /\ contract # "insurance" => UNCHANGED <<policy, claim, fraud>>
  /\ contract # "bridge" => UNCHANGED <<validators, locked, status, nonce, wrapped>>
  /\ contract # "puzzle_dao" => UNCHANGED <<tier, stake>>
  /\ contract # "governance" => UNCHANGED deposited
  /\ contract # "puzzle_pool_staking" => UNCHANGED <<funds, epoch, current, solves>>
  /\ contract # "puzzle_rental" => UNCHANGED <<initialized, next_listing, owner_listings,
         rental, next_rental, renter_rentals, late, strayed>>
  /\ contract # "staking" => UNCHANGED <<info, reward_pool, paid_out, stake_time>>
  /\ contract # "lending" => UNCHANGED <<offer, loan, extension>>
  /\ contract # "vesting" => UNCHANGED <<next_id, vested_then>>
  /\ contract # "vesting_schedule" => UNCHANGED of_user
  /\ contract # "flash_loan" => UNCHANGED <<record, analytics>>
  /\ contract \notin WithConfig => UNCHANGED config
  /\ contract \notin {"insurance", "flash_loan"} => UNCHANGED pool
  /\ contract \notin {"puzzle_dao", "governance"} => UNCHANGED <<power, delegatee, multisig,
         action, proposal, voted>>
  /\ contract \notin {"puzzle_pool_staking", "flash_loan"} => UNCHANGED position
  /\ contract \notin {"puzzle_pool_staking", "staking"} => UNCHANGED <<total_staked, stakers>>
  /\ contract # "puzzle_pool_staking" => UNCHANGED claimed
  /\ contract # "puzzle_rental" => UNCHANGED <<listing, active_listings>>
  /\ contract \notin {"puzzle_rental", "vesting_schedule"} => UNCHANGED history
  /\ contract # "lending" => UNCHANGED owner
  /\ contract \notin {"vesting", "vesting_schedule"} => UNCHANGED <<paused, schedule>>

Weight(condition, n) == IF condition THEN n ELSE 0

-----------------------------------------------------------------------------
(***************************************************************************)
(* The contracts that hold tokens, for any constants; OfBridge.Users are   *)
(* the users of the bridge.                                                *)
(***************************************************************************)
Insurance == INSTANCE Insurance WITH
  Users <- OfInsurance.Users, Admin <- OfInsurance.Admin,
  DEFAULT_CONFIG <- OfInsurance.DEFAULT_CONFIG, Rates <- OfInsurance.Rates,
  Limits <- OfInsurance.Limits, FraudParams <- OfInsurance.FraudParams,
  Coverages <- OfInsurance.Coverages, Periods <- OfInsurance.Periods,
  Amounts <- OfInsurance.Amounts, InitBalance <- OfInsurance.InitBalance,
  SECONDS_PER_DAY <- OfInsurance.SECONDS_PER_DAY, YEAR <- OfInsurance.YEAR,
  DENOMINATOR <- OfInsurance.DENOMINATOR,
  FRAUD_LOOKBACK_PERIOD <- OfInsurance.FRAUD_LOOKBACK_PERIOD,
  MaxClaims <- OfInsurance.MaxClaims, MaxTime <- OfInsurance.MaxTime

Bridge == INSTANCE Bridge WITH
  Users <- OfBridge.Users, Validators <- OfBridge.Validators, AssetIds <- OfBridge.AssetIds,
  NftContracts <- OfBridge.NftContracts, Amounts <- OfBridge.Amounts, Chains <- OfBridge.Chains,
  MAX_VALIDATORS <- OfBridge.MAX_VALIDATORS, MAX_CHAIN_ID <- OfBridge.MAX_CHAIN_ID,
  BASIS_POINTS <- OfBridge.BASIS_POINTS, FeeRules <- OfBridge.FeeRules,
  InitBalance <- OfBridge.InitBalance, MaxNonce <- OfBridge.MaxNonce,
  MaxTime <- OfBridge.MaxTime

PuzzleDao == INSTANCE PuzzleDao WITH
  Users <- OfPuzzleDao.Users, Configs <- OfPuzzleDao.Configs, Stakes <- OfPuzzleDao.Stakes,
  ACTIVE <- OfPuzzleDao.ACTIVE, PREMIUM <- OfPuzzleDao.PREMIUM, COUNCIL <- OfPuzzleDao.COUNCIL,
  Actions <- OfPuzzleDao.Actions, InitBalance <- OfPuzzleDao.InitBalance,
  MaxThreshold <- OfPuzzleDao.MaxThreshold, ActionTtl <- OfPuzzleDao.ActionTtl,
  MaxProposals <- OfPuzzleDao.MaxProposals, MaxActions <- OfPuzzleDao.MaxActions,
  MaxTime <- OfPuzzleDao.MaxTime

Governance == INSTANCE Governance WITH
  Users <- OfGovernance.Users, Configs <- OfGovernance.Configs, Amounts <- OfGovernance.Amounts,
  Actions <- OfGovernance.Actions, InitBalance <- OfGovernance.InitBalance,
  MaxThreshold <- OfGovernance.MaxThreshold, ActionTtl <- OfGovernance.ActionTtl,
  MaxProposals <- OfGovernance.MaxProposals, MaxActions <- OfGovernance.MaxActions,
  MaxTime <- OfGovernance.MaxTime

PuzzlePoolStaking == INSTANCE PuzzlePoolStaking WITH
  Players <- OfPuzzlePoolStaking.Players, Amounts <- OfPuzzlePoolStaking.Amounts,
  Difficulties <- OfPuzzlePoolStaking.Difficulties, Budgets <- OfPuzzlePoolStaking.Budgets,
  STAKER_SHARE <- OfPuzzlePoolStaking.STAKER_SHARE,
  SOLVER_SHARE <- OfPuzzlePoolStaking.SOLVER_SHARE,
  BASIS_POINTS <- OfPuzzlePoolStaking.BASIS_POINTS, Shares <- OfPuzzlePoolStaking.Shares,
  LOCK_PERIOD <- OfPuzzlePoolStaking.LOCK_PERIOD, EPOCH <- OfPuzzlePoolStaking.EPOCH,
  InitBalance <- OfPuzzlePoolStaking.InitBalance, MaxFunds <- OfPuzzlePoolStaking.MaxFunds,
  MaxSolves <- OfPuzzlePoolStaking.MaxSolves, MaxEpochs <- OfPuzzlePoolStaking.MaxEpochs,
  MaxTime <- OfPuzzlePoolStaking.MaxTime

PuzzleRental == INSTANCE PuzzleRental WITH
  Users <- OfPuzzleRental.Users, Listings <- OfPuzzleRental.Listings,
  Coins <- OfPuzzleRental.Coins, InitBalance <- OfPuzzleRental.InitBalance, MaxListings <- OfPuzzleRental.MaxListings,
  MaxRentals <- OfPuzzleRental.MaxRentals, MaxTime <- OfPuzzleRental.MaxTime

Staking == INSTANCE Staking WITH
  Stakers <- OfStaking.Stakers, Admin <- OfStaking.Admin, Amounts <- OfStaking.Amounts,
  BASIS_POINTS <- OfStaking.BASIS_POINTS, YEAR <- OfStaking.YEAR,
  DEFAULT_CONFIG <- OfStaking.DEFAULT_CONFIG, Apys <- OfStaking.Apys,
  Thresholds <- OfStaking.Thresholds, Params <- OfStaking.Params,
  InitBalance <- OfStaking.InitBalance, MaxStake <- OfStaking.MaxStake,
  MaxTime <- OfStaking.MaxTime

Lending == INSTANCE Lending WITH
  Users <- OfLending.Users, NFTs <- OfLending.NFTs, InitOwner <- OfLending.InitOwner,
  Offers <- OfLending.Offers, InitBalance <- OfLending.InitBalance,
  Amounts <- OfLending.Amounts, MaxOffers <- OfLending.MaxOffers, MaxTime <- OfLending.MaxTime

Vesting == INSTANCE Vesting WITH
  Users <- OfVesting.Users, Admin <- OfVesting.Admin, WHOLE <- OfVesting.WHOLE,
  Schedules <- OfVesting.Schedules, Durations <- OfVesting.Durations,
  Milestones <- OfVesting.Milestones, InitBalance <- OfVesting.InitBalance,
  MaxSchedules <- OfVesting.MaxSchedules, MaxTime <- OfVesting.MaxTime

VestingSchedule == INSTANCE VestingSchedule WITH
  Users <- OfVestingSchedule.Users, Admin <- OfVestingSchedule.Admin,
  Schedules <- OfVestingSchedule.Schedules, Cliffs <- OfVestingSchedule.Cliffs,
  Durations <- OfVestingSchedule.Durations, SPAN <- OfVestingSchedule.SPAN,
  InitBalance <- OfVestingSchedule.InitBalance, MaxSchedules <- OfVestingSchedule.MaxSchedules,
  MaxEvents <- OfVestingSchedule.MaxEvents, MaxTime <- OfVestingSchedule.MaxTime

FlashLoan == INSTANCE FlashLoan WITH
  Users <- OfFlashLoan.Users, Admin <- OfFlashLoan.Admin, Fees <- OfFlashLoan.Fees,
  Ratios <- OfFlashLoan.Ratios, BASIS_POINTS <- OfFlashLoan.BASIS_POINTS,
  Amounts <- OfFlashLoan.Amounts, Extras <- OfFlashLoan.Extras,
  InitBalance <- OfFlashLoan.InitBalance, MaxLoans <- OfFlashLoan.MaxLoans

-----------------------------------------------------------------------------
(***************************************************************************)
(* Proofs: what the contracts that hold tokens share.                      *)
(***************************************************************************)
\* A transfer, as each contract has it.
Moves(from, to, n) ==
  /\ bal[from] >= n
  /\ bal' = [bal EXCEPT ![from] = @ - n, ![to] = @ + n]

\* Balances are natural numbers, and stay so.
LEMMA Moved ==
  ASSUME NEW A, bal \in [A -> Nat], NEW from \in A, NEW to \in A, from # to, NEW n \in Nat,
         Moves(from, to, n)
  PROVE  /\ bal' \in [A -> Nat]
         /\ bal'[from] = bal[from] - n /\ bal'[to] = bal[to] + n
         /\ \A a \in A \ {from, to} : bal'[a] = bal[a]
<1>1. bal[from] \in Nat /\ bal[to] \in Nat /\ bal[from] - n \in Nat /\ bal[to] + n \in Nat
  BY DEF Moves
<1>2. bal' = [bal EXCEPT ![from] = bal[from] - n, ![to] = bal[to] + n]
  BY DEF Moves
<1> QED BY <1>1, <1>2

\* Products and quotients of natural numbers.
LEMMA Multiplied ==
  ASSUME NEW x \in Nat, NEW y \in Nat
  PROVE  x * y \in Nat /\ (x # 0 /\ y # 0 => x * y # 0)
OBVIOUS

LEMMA Divided == ASSUME NEW x \in Nat, NEW y \in Nat \ {0} PROVE x \div y \in Nat
OBVIOUS

\* A quotient that is rounded down is the largest number that fits.
LEMMA Floor ==
  ASSUME NEW n \in Nat, NEW u \in Nat \ {0}
  PROVE  /\ n \div u \in Nat /\ (n \div u) * u <= n
         /\ \A x \in Nat : x * u <= n => x <= n \div u
<1> DEFINE q == n \div u
           r == n % u
<1>1. q \in Nat /\ r \in 0 .. u - 1 /\ n = q * u + r
  OBVIOUS
<1> HIDE DEF q, r
<1>2. ASSUME NEW x \in Nat, x * u <= n, x > q PROVE FALSE
  <2>1. (q + 1) * u <= x * u
    BY <1>1, <1>2, ProductGrows
  <2>2. (q + 1) * u = q * u + u /\ q * u \in Nat /\ x * u \in Nat
    BY <1>1
  <2> QED BY <1>1, <1>2, <2>1, <2>2
<1>3. q * u <= n /\ \A x \in Nat : x * u <= n => x <= q
  BY <1>1, <1>2
<1> QED BY <1>1, <1>3 DEF q

\* It grows with the number that is divided.
LEMMA FloorGrows ==
  ASSUME NEW m \in Nat, NEW n \in Nat, NEW u \in Nat \ {0}, m <= n
  PROVE  m \div u <= n \div u
<1> DEFINE x == m \div u
<1>1. x \in Nat /\ x * u <= m
  BY Floor
<1> HIDE DEF x
<1>2. x * u <= n
  BY <1>1
<1> QED BY <1>1, <1>2, Floor DEF x

\* Shares of n in parts of d that are rounded down.
LEMMA ShareGrows ==
  ASSUME NEW n \in Nat, NEW x \in Nat, NEW y \in Nat, NEW d \in Nat \ {0}, x <= y, y <= d
  PROVE  /\ (n * x) \div d \in Nat /\ (n * y) \div d \in Nat
         /\ (n * x) \div d <= (n * y) \div d /\ (n * y) \div d <= n
<1> DEFINE a == n * x
           b == n * y
           q == b \div d
<1>1. x * n <= y * n /\ y * n <= d * n
  BY ProductGrows
<1>2. x * n = a /\ y * n = b /\ a \in Nat /\ b \in Nat /\ d * n = n * d /\ n * d \in Nat
  OBVIOUS
<1> HIDE DEF a, b
<1>3. a <= b /\ b <= n * d
  BY <1>1, <1>2
<1>4. a \div d \in Nat /\ q \in Nat /\ q * d <= b /\ a \div d <= q
  BY <1>2, <1>3, Floor, FloorGrows
<1> HIDE DEF q
<1>5. ASSUME q > n PROVE FALSE
  <2>1. (n + 1) * d <= q * d
    BY <1>4, <1>5, ProductGrows
  <2>2. (n + 1) * d = n * d + d /\ q * d \in Nat
    BY <1>4
  <2> QED BY <1>2, <1>3, <1>4, <2>1, <2>2
<1>6. q <= n
  BY <1>4, <1>5
<1> QED BY <1>4, <1>6 DEF a, b, q

-----------------------------------------------------------------------------
(***************************************************************************)
(* Proofs: the proposals of puzzle_dao and governance, which are records   *)
(* of a set S, at most M of them.                                          *)
(***************************************************************************)
Ballots(S) ==
  \A r \in S : /\ r.status \in {"Pending", "Active", "Executed", "Canceled"}
               /\ r.start_time \in Nat /\ r.end_time \in Nat
               /\ r.call.amount \in Nat

\* A proposal is voted for from its start on and executed after its end.
Timed(r) ==
  /\ r.start_time <= r.end_time
  /\ r.status = "Active" => r.start_time <= now
  /\ r.status = "Executed" => r.end_time < now

BallotInv(S, M) ==
  /\ now \in Nat
  /\ proposal \in Seq(S) /\ Len(proposal) <= M
  /\ \A i \in 1 .. Len(proposal) : Timed(proposal[i])

\* What the proposals paid, and their states.
Payment(r) == IF r.status = "Executed" THEN r.call.amount ELSE 0
Payments(M) ==
  [i \in 1 .. M |-> IF i \in 1 .. Len(proposal) THEN Payment(proposal[i]) ELSE 0]
States(M) ==
  [i \in 1 .. M |-> IF i \in 1 .. Len(proposal) THEN proposal[i].status ELSE "none"]

\* One of them is opened or decided, or their states stay.
Decides(M) ==
  \/ States(M)' = States(M)
  \/ \E i \in 1 .. M, s \in {"Pending", "Active", "Executed", "Canceled"} :
       /\ States(M)[i] \in {"none", "Pending", "Active"}
       /\ States(M)' = [States(M) EXCEPT ![i] = s]

\* Payments are natural numbers.
LEMMA PaymentsType ==
  ASSUME NEW M \in Nat, NEW S, Ballots(S), BallotInv(S, M)
  PROVE  Payments(M) \in [1 .. M -> Nat] /\ IsFiniteSet(1 .. M) /\ Total(Payments(M)) \in Nat
<1>1. ASSUME NEW i \in 1 .. Len(proposal) PROVE Payment(proposal[i]) \in Nat
  <2>1. proposal[i] \in S
    BY DEF BallotInv
  <2> QED BY <2>1 DEF Ballots, Payment
<1>2. Payments(M) \in [1 .. M -> Nat]
  BY <1>1 DEF Payments
<1>3. IsFiniteSet(1 .. M)
  <2>1. 1 \in Int /\ M \in Int
    OBVIOUS
  <2> QED BY <2>1, FS_Interval
<1> QED BY <1>2, <1>3, UnitsFinite

\* A proposal is made.
LEMMA BallotAdded ==
  ASSUME NEW M \in Nat, NEW S, Ballots(S), BallotInv(S, M), NEW r \in S,
         Len(proposal) < M, proposal' = Append(proposal, r), now' = now,
         r.status = "Pending", r.start_time <= r.end_time
  PROVE  BallotInv(S, M)' /\ Payments(M)' = Payments(M) /\ Decides(M)
<1> DEFINE n == Len(proposal)
<1>1. /\ proposal \in Seq(S) /\ n \in Nat /\ n + 1 \in 1 .. M
      /\ proposal' \in Seq(S) /\ Len(proposal') = n + 1 /\ proposal'[n + 1] = r
      /\ \A i \in 1 .. n : proposal'[i] = proposal[i]
  BY DEF BallotInv
<1>2. Timed(r)'
  BY DEF Timed
<1>3. BallotInv(S, M)'
  <2>1. ASSUME NEW i \in 1 .. Len(proposal') PROVE Timed(proposal[i])'
    <3>1. CASE i = n + 1
      BY <1>1, <1>2, <3>1 DEF Timed
    <3>2. CASE i # n + 1
      BY <1>1, <3>2 DEF BallotInv, Timed
    <3> QED BY <3>1, <3>2
  <2> QED BY <1>1, <2>1 DEF BallotInv
<1>4. Payments(M)' = Payments(M)
  <2>1. ASSUME NEW i \in 1 .. M PROVE Payments(M)'[i] = Payments(M)[i]
    <3>1. CASE i = n + 1
      BY <1>1, <3>1 DEF Payments, Payment
    <3>2. CASE i # n + 1
      BY <1>1, <3>2 DEF Payments, Payment
    <3> QED BY <3>1, <3>2
  <2> QED BY <2>1 DEF Payments
<1>5. States(M)[n + 1] = "none" /\ States(M)' = [States(M) EXCEPT ![n + 1] = "Pending"]
  <2>1. ASSUME NEW i \in 1 .. M
        PROVE  States(M)'[i] = IF i = n + 1 THEN "Pending" ELSE States(M)[i]
    <3>1. CASE i = n + 1
      BY <1>1, <3>1 DEF States
    <3>2. CASE i # n + 1
      BY <1>1, <3>2 DEF States
    <3> QED BY <3>1, <3>2
  <2> DEFINE s == States(M)
             t == States(M)'
  <2>2. t = [i \in 1 .. M |-> t[i]] /\ s = [i \in 1 .. M |-> s[i]]
    BY DEF States
  <2>3. s[n + 1] = "none"
    BY <1>1 DEF States
  <2> HIDE DEF s, t
  <2>4. t = [s EXCEPT ![n + 1] = "Pending"]
    BY <1>1, <2>1, <2>2 DEF s, t
  <2> QED BY <2>3, <2>4 DEF s, t
<1> QED BY <1>1, <1>3, <1>4, <1>5 DEF Decides

\* A proposal is voted on, executed or canceled.
LEMMA BallotChanged ==
  ASSUME NEW M \in Nat, NEW S, Ballots(S), BallotInv(S, M), NEW id \in 1 .. Len(proposal),
         NEW r \in S, proposal' = [proposal EXCEPT ![id] = r], now' = now,
         r.call = proposal[id].call, r.start_time = proposal[id].start_time,
         r.end_time = proposal[id].end_time, Timed(r),
         \/ r.status = proposal[id].status
         \/ proposal[id].status \in {"Pending", "Active"} /\ r.status # "Pending"
  PROVE  /\ BallotInv(S, M)'
         /\ Decides(M)
         /\ \/ r.status # "Executed" /\ Payments(M)' = Payments(M)
            \/ r.status = "Executed" /\ proposal[id].status = "Executed"
                 /\ Payments(M)' = Payments(M)
            \/ /\ r.status = "Executed" /\ proposal[id].status # "Executed"
               /\ Total(Payments(M)') = Total(Payments(M)) + r.call.amount
<1>1. /\ proposal \in Seq(S) /\ id \in 1 .. M /\ proposal[id] \in S
      /\ proposal' \in Seq(S) /\ Len(proposal') = Len(proposal) /\ proposal'[id] = r
      /\ \A i \in 1 .. Len(proposal) : i # id => proposal'[i] = proposal[i]
  BY DEF BallotInv
<1>2. BallotInv(S, M)'
  <2>1. ASSUME NEW i \in 1 .. Len(proposal') PROVE Timed(proposal[i])'
    <3>1. CASE i = id
      BY <1>1, <3>1 DEF Timed
    <3>2. CASE i # id
      BY <1>1, <3>2 DEF BallotInv, Timed
    <3> QED BY <3>1, <3>2
  <2> QED BY <1>1, <2>1 DEF BallotInv
<1>3. \A i \in 1 .. M : i # id => /\ Payments(M)'[i] = Payments(M)[i]
                                  /\ States(M)'[i] = States(M)[i]
  BY <1>1 DEF Payments, Payment, States
<1>4. /\ Payments(M)'[id] = Payment(r) /\ Payments(M)[id] = Payment(proposal[id])
      /\ States(M)'[id] = r.status /\ States(M)[id] = proposal[id].status
  BY <1>1 DEF Payments, Payment, States
<1>5. Decides(M)
  <2>1. States(M)' = [States(M) EXCEPT ![id] = r.status]
    BY <1>1, <1>3, <1>4 DEF States
  <2>2. r.status \in {"Pending", "Active", "Executed", "Canceled"}
    BY DEF Ballots
  <2>3. CASE r.status = proposal[id].status
    <3>1. States(M)' = States(M)
      BY <1>4, <2>1, <2>3 DEF States
    <3> QED BY <3>1 DEF Decides
  <2>4. CASE proposal[id].status \in {"Pending", "Active"}
    BY <1>1, <1>4, <2>1, <2>2, <2>4 DEF Decides
  <2> QED BY <2>3, <2>4
<1>6. ASSUME r.status # "Executed" \/ proposal[id].status = "Executed"
      PROVE  Payments(M)' = Payments(M)
  <2>1. Payments(M)'[id] = Payments(M)[id]
    BY <1>4, <1>6 DEF Payment
  <2> QED BY <1>3, <2>1 DEF Payments
<1>7. ASSUME r.status = "Executed", proposal[id].status # "Executed"
      PROVE  Total(Payments(M)') = Total(Payments(M)) + r.call.amount
  <2> DEFINE f == Payments(M)
             g == Payments(M)'
  <2>1. f \in [1 .. M -> Nat] /\ IsFiniteSet(1 .. M)
    BY PaymentsType
  <2>2. g[id] = r.call.amount /\ f[id] = 0 /\ r.call.amount \in Nat
    BY <1>4, <1>7 DEF Payment, Ballots
  <2>3. g \in [1 .. M -> Nat]
    <3>1. \A i \in 1 .. M : g[i] \in Nat
      BY <1>3, <2>1, <2>2
    <3> QED BY <3>1 DEF Payments
  <2>4. \A i \in (1 .. M) \ {id} : g[i] = f[i]
    BY <1>3
  <2> DEFINE I == 1 .. M
  <2>5. /\ f \in [I -> Nat] /\ g \in [I -> Nat] /\ IsFiniteSet(I) /\ id \in I
        /\ \A i \in I \ {id} : g[i] = f[i]
    BY <1>1, <2>1, <2>3, <2>4
  <2> HIDE DEF f, g, I
  <2>6. Total(g) = Total(f) + (g[id] - f[id]) /\ Total(f) \in Nat
    BY <2>5, TotalChange
  <2> QED BY <2>2, <2>6 DEF f, g
<1> QED BY <1>2, <1>5, <1>6, <1>7

\* Nothing happens to the proposals, and the clock does not go back.
LEMMA BallotsQuiet ==
  ASSUME NEW M \in Nat, NEW S, Ballots(S), BallotInv(S, M), UNCHANGED proposal,
         now' \in {now, now + 1}
  PROVE  BallotInv(S, M)' /\ Payments(M)' = Payments(M) /\ Decides(M)
<1>1. ASSUME NEW i \in 1 .. Len(proposal) PROVE Timed(proposal[i])'
  <2>1. proposal[i] \in S /\ Timed(proposal[i])
    BY DEF BallotInv
  <2>2. proposal[i].start_time \in Nat /\ proposal[i].end_time \in Nat
    BY <2>1 DEF Ballots
  <2> QED BY <2>1, <2>2 DEF Timed, BallotInv
<1>2. BallotInv(S, M)'
  BY <1>1 DEF BallotInv
<1> QED BY <1>2 DEF Payments, Payment, States, Decides

\* The sum of what was paid, as the contracts state it.
LEMMA PaidTotal ==
  ASSUME NEW M \in Nat, NEW S, Ballots(S), BallotInv(S, M)
  PROVE  LET paid == {i \in DOMAIN proposal : proposal[i].status = "Executed"}
         IN Total([i \in paid |-> proposal[i].call.amount]) = Total(Payments(M))
<1> DEFINE T == {i \in DOMAIN proposal : proposal[i].status = "Executed"}
           k == Payments(M)
           I == 1 .. M
<1>1. k \in [1 .. M -> Nat] /\ T \in SUBSET (1 .. M) /\ DOMAIN proposal = 1 .. Len(proposal)
  BY PaymentsType DEF BallotInv
<1>2. [i \in T |-> k[i]] = [i \in T |-> proposal[i].call.amount]
  BY <1>1 DEF Payments, Payment
<1>3. [i \in I |-> IF i \in T THEN k[i] ELSE 0] = k
  BY <1>1 DEF Payments, Payment
<1>4. Total([i \in T |-> k[i]]) = Total([i \in I |-> IF i \in T THEN k[i] ELSE 0])
  <2>1. k \in [I -> Nat] /\ T \in SUBSET I
    BY <1>1
  <2>2. \A i \in T : k[i] \in Nat
    BY <2>1
  <2> HIDE DEF T, k, I
  <2> QED BY <2>1, <2>2, TotalWithin
<1> QED BY <1>2, <1>3, <1>4

-----------------------------------------------------------------------------
(***************************************************************************)
(* Proofs: the bridge.                                                     *)
(***************************************************************************)
\* The accounts, what they own and lock, and the bounds.
ASSUME BridgeAssumption ==
  /\ Self \notin OfBridge.Users /\ None \notin OfBridge.Users
  /\ IsFiniteSet(OfBridge.Amounts) /\ OfBridge.Amounts \subseteq Nat
  /\ IsFiniteSet(OfBridge.AssetIds) /\ IsFiniteSet(OfBridge.Chains)
  /\ OfBridge.InitBalance \in Nat /\ OfBridge.MaxNonce \in Nat /\ OfBridge.MaxTime \in Nat

BridgeAccounts == OfBridge.Users \cup {Self}

\* What a message locks, of the token.
LockedBy(i) == IF i[2][1] = "Token" /\ locked[i] # None THEN i[2][2] ELSE 0
Locks == [i \in Bridge!MessageIds |-> LockedBy(i)]

BridgeInv ==
  /\ now \in 0 .. OfBridge.MaxTime
  /\ bal \in [BridgeAccounts -> Nat]
  /\ nonce \in [OfBridge.Users -> Nat]
  /\ locked \in [Bridge!MessageIds -> OfBridge.Users \cup {None}]
  /\ status \in [Bridge!MessageIds -> {"none", "Pending", "Completed", "Cancelled"}]
  /\ \A i \in Bridge!MessageIds : locked[i] # None => status[i] \in {"Pending", "Completed"}
  /\ bal[Self] = Total(Locks)

\* The messages are finitely many and what they lock is a number.
LEMMA MessagesFinite ==
  /\ IsFiniteSet(Bridge!MessageIds)
  /\ \A i \in Bridge!MessageIds : i[2][1] = "Token" => i[2][2] \in Nat
<1>1. IsFiniteSet(Bridge!Assets)
  <2>1. IsFiniteSet({"Token"}) /\ IsFiniteSet({"NFT"})
    BY FS_Singleton
  <2>2. /\ IsFiniteSet({"Token"} \X OfBridge.Amounts)
        /\ IsFiniteSet({"NFT"} \X OfBridge.AssetIds)
    BY <2>1, FS_Product, BridgeAssumption
  <2> QED BY <2>2, FS_Union DEF Bridge!Assets
<1>2. IsFiniteSet(0 .. OfBridge.MaxTime) /\ IsFiniteSet(1 .. OfBridge.MaxNonce)
  <2>1. OfBridge.MaxTime \in Int /\ OfBridge.MaxNonce \in Int /\ 0 \in Int /\ 1 \in Int
    BY BridgeAssumption
  <2> QED BY <2>1, FS_Interval
<1>3. IsFiniteSet(Bridge!MessageIds)
  <2> DEFINE T == 0 .. OfBridge.MaxTime
             N == 1 .. OfBridge.MaxNonce
             A == Bridge!Assets
             C == OfBridge.Chains
             I == T \X A \X C \X N
             P == (T \X A) \X (C \X N)
             f == [i \in I |-> <<<<i[1], i[2]>>, <<i[3], i[4]>>>>]
  <2>1. IsFiniteSet(T \X A) /\ IsFiniteSet(C \X N)
    BY <1>1, <1>2, FS_Product, BridgeAssumption
  <2>2. IsFiniteSet(P)
    BY <2>1, FS_Product
  <2> HIDE DEF T, N, A, C
  <2>3. f \in Injection(I, P)
    <3>1. f \in [I -> P]
      OBVIOUS
    <3>2. ASSUME NEW i \in I, NEW j \in I, f[i] = f[j] PROVE i = j
      BY <3>2
    <3> QED BY <3>1, <3>2 DEF Injection, IsInjective
  <2>4. IsFiniteSet(I)
    <3> HIDE DEF I, P, f
    <3> QED BY <2>2, <2>3, FS_Injection
  <2> QED BY <2>4 DEF T, N, A, C, Bridge!MessageIds
<1> QED BY <1>3, BridgeAssumption DEF Bridge!MessageIds, Bridge!Assets

\* What the messages lock are numbers.
LEMMA LocksType == ASSUME BridgeInv PROVE Locks \in [Bridge!MessageIds -> Nat]
BY MessagesFinite DEF BridgeInv, Locks, LockedBy

\* Assets are locked by their owner.
LEMMA LockKeeps ==
  ASSUME BridgeInv, NEW u \in OfBridge.Users, NEW asset \in Bridge!Assets,
         NEW chain \in OfBridge.Chains, Bridge!BridgeAssets(u, asset, chain)
  PROVE  BridgeInv' /\ Bridge!D!Step
<1> DEFINE id == Bridge!MessageId(u, asset, chain)
<1>1. /\ status[id] = "none" /\ Bridge!Lock(u, asset)
      /\ locked' = [locked EXCEPT ![id] = u]
      /\ status' = [status EXCEPT ![id] = "Pending"]
      /\ nonce' = [nonce EXCEPT ![u] = @ + 1] /\ nonce[u] < OfBridge.MaxNonce
      /\ now' = now
  BY DEF Bridge!BridgeAssets
<1>2. id \in Bridge!MessageIds /\ id[2] = asset
  <2>1. now \in 0 .. OfBridge.MaxTime /\ nonce[u] + 1 \in 1 .. OfBridge.MaxNonce
    BY <1>1, BridgeAssumption DEF BridgeInv
  <2> QED BY <2>1 DEF Bridge!MessageIds, Bridge!MessageId
<1> HIDE DEF id
<1>3. /\ locked' \in [Bridge!MessageIds -> OfBridge.Users \cup {None}]
      /\ status' \in [Bridge!MessageIds -> {"none", "Pending", "Completed", "Cancelled"}]
      /\ nonce' \in [OfBridge.Users -> Nat] /\ now' \in 0 .. OfBridge.MaxTime
      /\ \A i \in Bridge!MessageIds : locked'[i] # None => status'[i] \in {"Pending", "Completed"}
  BY <1>1, <1>2 DEF BridgeInv
<1>4. locked[id] = None /\ locked'[id] = u /\ u # None
  BY <1>1, <1>2, BridgeAssumption DEF BridgeInv
<1>5. bal' \in [BridgeAccounts -> Nat] /\ bal'[Self] = bal[Self] + Locks'[id] /\ Locks[id] = 0
  <2>1. Locks[id] = 0 /\ Locks'[id] = IF asset[1] = "Token" THEN asset[2] ELSE 0
    BY <1>2, <1>4 DEF Locks, LockedBy
  <2>2. CASE asset[1] = "Token"
    <3>1. asset[2] \in Nat
      BY <1>2, <2>2, MessagesFinite
    <3>2. Moves(u, Self, asset[2])
      BY <1>1, <2>2 DEF Bridge!Lock, Bridge!Transfer, Moves
    <3>3. u \in BridgeAccounts /\ Self \in BridgeAccounts /\ u # Self
            /\ bal \in [BridgeAccounts -> Nat]
      BY BridgeAssumption DEF BridgeAccounts, BridgeInv
    <3> QED BY <2>1, <2>2, <3>1, <3>2, <3>3, Moved
  <2>3. CASE asset[1] # "Token"
    <3>1. bal' = bal /\ bal[Self] \in Nat
      BY <1>1, <2>3 DEF Bridge!Lock, BridgeInv, BridgeAccounts
    <3> QED BY <2>1, <2>3, <3>1 DEF BridgeInv
  <2> QED BY <2>2, <2>3
<1>6. Total(Locks') = Total(Locks) + Locks'[id]
  <2> DEFINE f == Locks
             g == Locks'
             I == Bridge!MessageIds
  <2>1. f \in [I -> Nat] /\ IsFiniteSet(I)
    BY LocksType, MessagesFinite
  <2>2. g \in [I -> Nat]
    BY <1>3, MessagesFinite DEF Locks, LockedBy
  <2>3. \A i \in I \ {id} : g[i] = f[i]
    BY <1>1, <1>2 DEF BridgeInv, Locks, LockedBy
  <2> HIDE DEF f, g, I
  <2>4. Total(g) = Total(f) + (g[id] - f[id]) /\ Total(f) \in Nat /\ g[id] \in Nat
    BY <1>2, <2>1, <2>2, <2>3, TotalChange DEF I
  <2> QED BY <1>5, <2>4 DEF f, g
<1>7. BridgeInv'
  BY <1>3, <1>5, <1>6 DEF BridgeInv
<1>8. Bridge!D!Step
  BY <1>1, <1>2 DEF Bridge!D!Step, Bridge!D!Next, Bridge!D!Proceed, Bridge!D!Becomes
<1> QED BY <1>7, <1>8

\* A message is cancelled and its asset refunded.
LEMMA CancelKeeps ==
  ASSUME BridgeInv, NEW id \in Bridge!MessageIds, Bridge!CancelBridge(id)
  PROVE  BridgeInv' /\ Bridge!D!Step
<1>1. /\ locked[id] # None /\ status[id] \in {"none", "Pending"} /\ Bridge!Refund(id)
      /\ locked' = [locked EXCEPT ![id] = None]
      /\ status' = [status EXCEPT ![id] = "Cancelled"]
      /\ now' = now /\ nonce' = nonce
  BY DEF Bridge!CancelBridge, Bridge!Undecided
<1>2. /\ locked' \in [Bridge!MessageIds -> OfBridge.Users \cup {None}]
      /\ status' \in [Bridge!MessageIds -> {"none", "Pending", "Completed", "Cancelled"}]
      /\ nonce' \in [OfBridge.Users -> Nat] /\ now' \in 0 .. OfBridge.MaxTime
      /\ \A i \in Bridge!MessageIds : locked'[i] # None => status'[i] \in {"Pending", "Completed"}
  BY <1>1 DEF BridgeInv
<1>3. locked[id] \in OfBridge.Users /\ locked'[id] = None
  BY <1>1 DEF BridgeInv
<1>4. bal' \in [BridgeAccounts -> Nat] /\ bal'[Self] = bal[Self] - Locks[id] /\ Locks'[id] = 0
  <2>1. Locks'[id] = 0 /\ Locks[id] = IF id[2][1] = "Token" THEN id[2][2] ELSE 0
    BY <1>3, BridgeAssumption DEF Locks, LockedBy
  <2>2. CASE id[2][1] = "Token"
    <3>1. id[2][2] \in Nat
      BY <2>2, MessagesFinite
    <3>2. Moves(Self, locked[id], id[2][2])
      BY <1>1, <2>2 DEF Bridge!Refund, Bridge!Transfer, Moves
    <3>3. /\ locked[id] \in BridgeAccounts /\ Self \in BridgeAccounts /\ locked[id] # Self
          /\ bal \in [BridgeAccounts -> Nat]
      BY <1>3, BridgeAssumption DEF BridgeAccounts, BridgeInv
    <3> QED BY <2>1, <2>2, <3>1, <3>2, <3>3, Moved
  <2>3. CASE id[2][1] # "Token"
    <3>1. bal' = bal /\ bal[Self] \in Nat
      BY <1>1, <2>3 DEF Bridge!Refund, BridgeInv, BridgeAccounts
    <3> QED BY <2>1, <2>3, <3>1 DEF BridgeInv
  <2> QED BY <2>2, <2>3
<1>5. Total(Locks') = Total(Locks) - Locks[id]
  <2> DEFINE f == Locks
             g == Locks'
             I == Bridge!MessageIds
  <2>1. f \in [I -> Nat] /\ IsFiniteSet(I)
    BY LocksType, MessagesFinite
  <2>2. g \in [I -> Nat]
    BY <1>2, MessagesFinite DEF Locks, LockedBy
  <2>3. \A i \in I \ {id} : g[i] = f[i]
    BY <1>1, <1>2 DEF BridgeInv, Locks, LockedBy
  <2> HIDE DEF f, g, I
  <2>4. Total(g) = Total(f) + (g[id] - f[id]) /\ Total(f) \in Nat /\ f[id] \in Nat
    BY <2>1, <2>2, <2>3, TotalChange DEF I
  <2> QED BY <1>4, <2>4 DEF f, g
<1>6. BridgeInv'
  BY <1>2, <1>4, <1>5 DEF BridgeInv
<1>7. Bridge!D!Step
  BY <1>1 DEF Bridge!D!Step, Bridge!D!Next, Bridge!D!Decide, Bridge!D!Becomes
<1> QED BY <1>6, <1>7

LEMMA CompleteKeeps ==
  ASSUME BridgeInv, NEW id \in Bridge!MessageIds, NEW v, NEW signatures,
         Bridge!CompleteBridge(v, id, signatures)
  PROVE  BridgeInv' /\ Bridge!D!Step
<1>1. /\ status[id] \in {"none", "Pending"} /\ status' = [status EXCEPT ![id] = "Completed"]
      /\ UNCHANGED <<now, bal, nonce, locked>>
  BY DEF Bridge!CompleteBridge, Bridge!Undecided
<1>2. Locks' = Locks
  BY <1>1 DEF Locks, LockedBy
<1>3. BridgeInv'
  BY <1>1, <1>2 DEF BridgeInv
<1> QED
  BY <1>1, <1>3 DEF Bridge!D!Step, Bridge!D!Next, Bridge!D!Decide, Bridge!D!Becomes

\* What locks nothing and decides nothing.
LEMMA BridgeQuiet ==
  ASSUME BridgeInv, UNCHANGED <<bal, locked, status, nonce>>, now' \in 0 .. OfBridge.MaxTime
  PROVE  BridgeInv' /\ Bridge!D!Step
<1>1. Locks' = Locks
  BY DEF Locks, LockedBy
<1> QED BY <1>1 DEF BridgeInv, Bridge!D!Step

LEMMA BridgeStep == ASSUME BridgeInv, Bridge!Next PROVE BridgeInv' /\ Bridge!D!Step
<1> DEFINE Stays == UNCHANGED <<bal, locked, status, nonce>> /\ now' \in 0 .. OfBridge.MaxTime
<1>1. now \in 0 .. OfBridge.MaxTime
  BY DEF BridgeInv
<1>2. ASSUME NEW n, NEW fees, Bridge!Initialize(n, fees) \/ Bridge!UpdateFees(fees) PROVE Stays
  BY <1>1, <1>2 DEF Bridge!Initialize, Bridge!UpdateFees
<1>3. ASSUME NEW v, Bridge!AddValidator(v) \/ Bridge!RemoveValidator(v) \/ Bridge!SetPaused(v)
      PROVE  Stays
  BY <1>1, <1>3 DEF Bridge!AddValidator, Bridge!RemoveValidator, Bridge!SetPaused
<1>4. ASSUME NEW u, NEW w, \/ Bridge!UnwrapNft(u, w)
                           \/ \E c, i, chain : Bridge!WrapNft(u, c, i, chain)
      PROVE  Stays
  BY <1>1, <1>4 DEF Bridge!UnwrapNft, Bridge!WrapNft
<1>5. ASSUME Bridge!Tick PROVE Stays
  BY <1>1, <1>5, BridgeAssumption DEF Bridge!Tick
<1> HIDE DEF Stays
<1>6. \/ Stays
      \/ \E u \in OfBridge.Users, chain \in OfBridge.Chains, asset \in Bridge!Assets :
           Bridge!BridgeAssets(u, asset, chain)
      \/ \E id \in Bridge!MessageIds : Bridge!CancelBridge(id)
      \/ \E id \in Bridge!MessageIds : \E v, s : Bridge!CompleteBridge(v, id, s)
  BY <1>2, <1>3, <1>4, <1>5 DEF Bridge!Next
<1> QED BY <1>6, LockKeeps, CancelKeeps, CompleteKeeps, BridgeQuiet DEF Stays

LEMMA BridgeInit == ASSUME Bridge!Init PROVE BridgeInv /\ Bridge!D!Init
<1>1. /\ \A i \in Bridge!MessageIds : locked[i] = None /\ status[i] = "none"
      /\ bal \in [BridgeAccounts -> Nat] /\ bal[Self] = 0
  BY BridgeAssumption DEF Bridge!Init, BridgeAccounts
<1>2. Total(Locks) = 0
  <2> DEFINE f == Locks
             I == Bridge!MessageIds
  <2>1. f \in [I -> Nat] /\ \A i \in I : f[i] = 0
    BY <1>1 DEF Locks, LockedBy
  <2> HIDE DEF f, I
  <2> QED BY <2>1, TotalZero DEF f
<1>3. BridgeInv
  BY <1>1, <1>2, BridgeAssumption DEF Bridge!Init, BridgeInv
<1> QED BY <1>3 DEF Bridge!Init, Bridge!D!Init

LEMMA BridgeSays == ASSUME BridgeInv PROVE Bridge!LocksBacked
<1> DEFINE I == Bridge!MessageIds
           T == {i \in I : i[2][1] = "Token" /\ locked[i] # None}
           k == Locks
           f == [i \in T |-> i[2][2]]
<1>1. k \in [I -> Nat] /\ T \in SUBSET I
  BY LocksType
<1>2. [i \in T |-> k[i]] = f
  BY DEF Locks, LockedBy
<1>3. [i \in I |-> IF i \in T THEN k[i] ELSE 0] = k
  BY DEF Locks, LockedBy
<1>4. Total([i \in T |-> k[i]]) = Total([i \in I |-> IF i \in T THEN k[i] ELSE 0])
  <2> HIDE DEF I, T, k
  <2> QED BY <1>1, TotalWithin
<1>5. bal[Self] = Total(f)
  BY <1>2, <1>3, <1>4 DEF BridgeInv
<1>6. Bridge!Total(f) = Total(f)
  BY Zenon DEF Bridge!Total, Total, Bridge!Units, Units, Bridge!Cardinality, Cardinality
<1> QED BY <1>5, <1>6 DEF BridgeInv, Bridge!LocksBacked

-----------------------------------------------------------------------------
(***************************************************************************)
(* Proofs: the insurance.                                                  *)
(***************************************************************************)
Settings ==
  [base_premium_rate : Nat, multiplier : [Insurance!CoverageType -> Nat],
   min_coverage_period : Nat, max_coverage_period : Nat, max_coverage_amount : Nat,
   max_claims_per_period : Nat, claim_cooldown : Nat, paused : BOOLEAN]

\* The accounts, the settings and the limits.
ASSUME InsuranceAssumption ==
  /\ Self \notin OfInsurance.Users /\ Self # OfInsurance.Admin
  /\ OfInsurance.DEFAULT_CONFIG \in Settings
  /\ OfInsurance.Rates \subseteq
       [base_premium_rate : Nat, multiplier : [Insurance!CoverageType -> Nat]]
  /\ OfInsurance.Limits \subseteq
       [min_coverage_period : Nat, max_coverage_period : Nat, max_coverage_amount : Nat]
  /\ OfInsurance.FraudParams \subseteq [max_claims_per_period : Nat, claim_cooldown : Nat]
  /\ OfInsurance.Periods \subseteq Nat /\ OfInsurance.Amounts \subseteq Nat
  /\ OfInsurance.InitBalance \in Nat /\ OfInsurance.FRAUD_LOOKBACK_PERIOD \in Nat
  /\ OfInsurance.SECONDS_PER_DAY \in Nat \ {0} /\ OfInsurance.YEAR \in Nat \ {0}
  /\ OfInsurance.DENOMINATOR \in Nat \ {0}

Insured == OfInsurance.Users \cup {OfInsurance.Admin, Self}

Policy ==
  [coverage_type : Insurance!CoverageType, coverage_amount : Nat, premium_paid : Nat,
   start_time : Nat, end_time : Nat, status : {"Active", "Cancelled"}]
Claim ==
  [policy_owner : OfInsurance.Users, claim_amount : Nat, submission_time : Nat,
   status : {"Submitted", "Approved", "Rejected", "Paid"}, payout_amount : Nat]
Metrics == [recent_claims : SUBSET Nat, last_claim_time : Nat, flagged : BOOLEAN]

\* A claim that is recent is among those that are kept.
ClaimKept(c, i, f) ==
  /\ c.submission_time <= f.last_claim_time
  /\ c.submission_time >= now - OfInsurance.FRAUD_LOOKBACK_PERIOD => i \in f.recent_claims

PoolTypes ==
  /\ now \in Nat /\ bal \in [Insured -> Nat]
  /\ config \in Settings \cup {None}
  /\ policy \in [OfInsurance.Users -> Policy \cup {None}]
  /\ \A u \in OfInsurance.Users : policy[u] # None => policy[u].start_time <= now

ClaimTypes ==
  /\ claim \in Seq(Claim)
  /\ fraud \in [OfInsurance.Users -> Metrics]
  /\ \A u \in OfInsurance.Users : fraud[u].last_claim_time <= now

ClaimsKept == \A i \in 1 .. Len(claim) : ClaimKept(claim[i], i, fraud[claim[i].policy_owner])

InsuranceInv == PoolTypes /\ pool = bal[Self] /\ ClaimTypes /\ ClaimsKept

\* Premiums are natural numbers.
LEMMA PremiumType ==
  ASSUME InsuranceInv, config # None, NEW type \in Insurance!CoverageType, NEW n \in Nat,
         NEW period \in OfInsurance.Periods
  PROVE  Insurance!Premium(type, n, period) \in Nat
<1> DEFINE days == period \div OfInsurance.SECONDS_PER_DAY
           perday == config.base_premium_rate
           m == config.multiplier[type]
           d == OfInsurance.YEAR * OfInsurance.DENOMINATOR
<1>1. perday \in Nat /\ m \in Nat
  BY DEF InsuranceInv, PoolTypes, Settings
<1>2. days \in Nat
  BY Divided, InsuranceAssumption
<1>3. d \in Nat \ {0}
  BY Multiplied, InsuranceAssumption
<1> HIDE DEF days, perday, m, d
<1>4. n * perday * m * days \in Nat
  <2>1. n * perday \in Nat
    BY <1>1, Multiplied
  <2>2. (n * perday) * m \in Nat
    BY <1>1, <2>1, Multiplied
  <2> QED BY <1>2, <2>2, Multiplied
<1>5. (n * perday * m * days) \div d \in Nat
  BY <1>3, <1>4, Divided
<1> QED BY <1>5 DEF Insurance!Premium, days, perday, m, d

\* Refunds are natural numbers.
LEMMA UnusedType ==
  ASSUME NEW p \in Policy, now \in Nat, p.start_time <= now PROVE Insurance!Unused(p) \in Nat
<1>1. CASE p.end_time > now
  <2> DEFINE x == p.premium_paid
             y == p.end_time - now
             z == p.end_time - p.start_time
  <2>1. x \in Nat /\ y \in Nat /\ z \in Nat \ {0}
    BY <1>1 DEF Policy
  <2> HIDE DEF x, y, z
  <2>2. (x * y) \div z \in Nat
    BY <2>1, Multiplied, Divided
  <2> QED BY <1>1, <2>2 DEF Insurance!Unused, x, y, z
<1> QED BY <1>1 DEF Insurance!Unused

\* The pool takes in what is paid, and pays out.
LEMMA PoolMoved ==
  ASSUME InsuranceInv, NEW a \in Insured \ {Self}, NEW n \in Nat,
         \/ Insurance!Transfer(a, Self, n) /\ pool' = pool + n
         \/ Insurance!Transfer(Self, a, n) /\ pool' = pool - n
  PROVE  bal' \in [Insured -> Nat] /\ pool' = bal'[Self]
<1>1. Self \in Insured /\ bal \in [Insured -> Nat] /\ pool = bal[Self]
  BY DEF Insured, InsuranceInv, PoolTypes
<1>2. CASE Insurance!Transfer(a, Self, n) /\ pool' = pool + n
  <2>1. Moves(a, Self, n)
    BY <1>2 DEF Insurance!Transfer, Moves
  <2> QED BY <1>1, <1>2, <2>1, Moved
<1>3. CASE Insurance!Transfer(Self, a, n) /\ pool' = pool - n
  <2>1. Moves(Self, a, n)
    BY <1>3 DEF Insurance!Transfer, Moves
  <2> QED BY <1>1, <1>3, <2>1, Moved
<1> QED BY <1>2, <1>3

\* The claims are left alone, and the clock does not go back.
LEMMA ClaimsLeft ==
  ASSUME InsuranceInv, UNCHANGED claim, now' \in {now, now + 1},
         fraud' \in [OfInsurance.Users -> Metrics],
         \A u \in OfInsurance.Users : /\ fraud'[u].recent_claims = fraud[u].recent_claims
                                      /\ fraud'[u].last_claim_time = fraud[u].last_claim_time
  PROVE  now' \in Nat /\ ClaimTypes' /\ ClaimsKept'
<1>1. now \in Nat /\ now' \in Nat /\ now <= now'
  BY DEF InsuranceInv, PoolTypes
<1>2. \A u \in OfInsurance.Users : fraud[u] \in Metrics /\ fraud[u].last_claim_time \in Nat
  BY DEF InsuranceInv, ClaimTypes, Metrics
<1>3. ClaimTypes'
  BY <1>1, <1>2 DEF InsuranceInv, ClaimTypes
<1>4. ASSUME NEW i \in 1 .. Len(claim)
      PROVE  ClaimKept(claim[i], i, fraud[claim[i].policy_owner])'
  <2>1. claim[i] \in Claim /\ claim[i].policy_owner \in OfInsurance.Users
        /\ claim[i].submission_time \in Nat
    <3>1. claim[i] \in Claim
      BY DEF InsuranceInv, ClaimTypes
    <3> QED BY <3>1 DEF Claim
  <2>2. ClaimKept(claim[i], i, fraud[claim[i].policy_owner])
    BY DEF InsuranceInv, ClaimsKept
  <2> QED BY <1>1, <2>1, <2>2, InsuranceAssumption DEF ClaimKept
<1> QED BY <1>1, <1>3, <1>4 DEF ClaimsKept

\* One claim is reviewed or paid.
LEMMA ClaimSettled ==
  ASSUME InsuranceInv, NEW id \in 1 .. Len(claim), NEW c \in Claim,
         claim' = [claim EXCEPT ![id] = c], c.policy_owner = claim[id].policy_owner,
         c.submission_time = claim[id].submission_time, UNCHANGED <<now, fraud>>
  PROVE  ClaimTypes' /\ ClaimsKept'
<1>1. claim \in Seq(Claim)
  BY DEF InsuranceInv, ClaimTypes
<1>2. /\ claim' \in Seq(Claim) /\ Len(claim') = Len(claim)
      /\ \A i \in 1 .. Len(claim) : claim'[i] = IF i = id THEN c ELSE claim[i]
  BY <1>1
<1>3. ClaimTypes'
  BY <1>2 DEF InsuranceInv, ClaimTypes
<1>4. ASSUME NEW i \in 1 .. Len(claim')
      PROVE  ClaimKept(claim[i], i, fraud[claim[i].policy_owner])'
  <2>1. /\ claim'[i].policy_owner = claim[i].policy_owner
        /\ claim'[i].submission_time = claim[i].submission_time
    BY <1>2
  <2>2. ClaimKept(claim[i], i, fraud[claim[i].policy_owner])
    BY <1>2 DEF InsuranceInv, ClaimsKept
  <2> QED BY <2>1, <2>2 DEF ClaimKept
<1> QED BY <1>3, <1>4 DEF ClaimsKept

\* A policy is bought, renewed or cancelled: only policies, the pool and the
\* balances change.
LEMMA PolicyKeeps ==
  ASSUME InsuranceInv, NEW u \in OfInsurance.Users, NEW p \in Policy, p.start_time <= now,
         policy' = [policy EXCEPT ![u] = p], UNCHANGED <<now, config, claim, fraud>>,
         bal' \in [Insured -> Nat], pool' = bal'[Self]
  PROVE  InsuranceInv'
<1>1. now' \in Nat /\ ClaimTypes' /\ ClaimsKept'
  <2>1. /\ now' \in {now, now + 1} /\ fraud' \in [OfInsurance.Users -> Metrics] /\ UNCHANGED claim
        /\ \A v \in OfInsurance.Users : /\ fraud'[v].recent_claims = fraud[v].recent_claims
                                        /\ fraud'[v].last_claim_time = fraud[v].last_claim_time
    BY DEF InsuranceInv, ClaimTypes
  <2> QED BY <2>1, ClaimsLeft
<1>2. PoolTypes'
  BY DEF InsuranceInv, PoolTypes
<1> QED BY <1>1, <1>2 DEF InsuranceInv

LEMMA PurchaseKeeps ==
  ASSUME InsuranceInv, NEW u \in OfInsurance.Users, NEW type \in Insurance!CoverageType, NEW n,
         NEW period \in OfInsurance.Periods, Insurance!PurchasePolicy(u, type, n, period)
  PROVE  InsuranceInv'
<1> DEFINE premium == Insurance!Premium(type, n, period)
           p == [coverage_type |-> type, coverage_amount |-> n, premium_paid |-> premium,
                 start_time |-> now, end_time |-> now + period, status |-> "Active"]
<1>1. /\ config # None /\ n \in 1 .. config.max_coverage_amount
      /\ Insurance!Transfer(u, Self, premium) /\ pool' = pool + premium
      /\ policy' = [policy EXCEPT ![u] = p] /\ UNCHANGED <<now, config, claim, fraud>>
  BY DEF Insurance!PurchasePolicy, Insurance!Open, Insurance!Initialized
<1>2. n \in Nat
  BY <1>1
<1>3. premium \in Nat
  BY <1>1, <1>2, PremiumType
<1> HIDE DEF premium
<1>4. now \in Nat /\ p \in Policy /\ p.start_time <= now
  BY <1>2, <1>3, InsuranceAssumption DEF Policy, InsuranceInv, PoolTypes
<1>5. u \in Insured \ {Self}
  BY InsuranceAssumption DEF Insured
<1>6. bal' \in [Insured -> Nat] /\ pool' = bal'[Self]
  BY <1>1, <1>3, <1>5, PoolMoved
<1> HIDE DEF p
<1> QED BY <1>1, <1>4, <1>6, PolicyKeeps

LEMMA RenewKeeps ==
  ASSUME InsuranceInv, NEW u \in OfInsurance.Users,
         NEW period \in OfInsurance.Periods, Insurance!RenewPolicy(u, period)
  PROVE  InsuranceInv'
<1> DEFINE o == policy[u]
           premium == Insurance!Premium(o.coverage_type, o.coverage_amount, period)
           end == period + IF o.end_time > now THEN o.end_time ELSE now
           p == [o EXCEPT !.end_time = end, !.premium_paid = @ + premium]
<1>1. /\ config # None /\ o # None
      /\ Insurance!Transfer(u, Self, premium) /\ pool' = pool + premium
      /\ policy' = [policy EXCEPT ![u].end_time = end, ![u].premium_paid = @ + premium]
      /\ UNCHANGED <<now, config, claim, fraud>>
  BY DEF Insurance!RenewPolicy, Insurance!Open, Insurance!Initialized
<1>2. o \in Policy /\ o.start_time <= now /\ now \in Nat
  BY <1>1 DEF InsuranceInv, PoolTypes
<1>3. policy' = [policy EXCEPT ![u] = p]
  BY <1>1 DEF InsuranceInv, PoolTypes
<1>4. premium \in Nat
  BY <1>1, <1>2, PremiumType DEF Policy
<1>5. u \in Insured \ {Self}
  BY InsuranceAssumption DEF Insured
<1> HIDE DEF premium, o
<1>6. end \in Nat
  BY <1>2, InsuranceAssumption DEF Policy
<1> HIDE DEF end
<1>7. p \in Policy /\ p.start_time <= now
  <2>1. o.premium_paid + premium \in Nat
    BY <1>2, <1>4 DEF Policy
  <2>2. p = [o EXCEPT !.end_time = end, !.premium_paid = o.premium_paid + premium]
    BY <1>2 DEF Policy
  <2> HIDE DEF p
  <2> QED BY <1>2, <1>6, <2>1, <2>2 DEF Policy
<1>8. bal' \in [Insured -> Nat] /\ pool' = bal'[Self]
  BY <1>1, <1>4, <1>5, PoolMoved
<1> HIDE DEF p
<1> QED BY <1>1, <1>3, <1>7, <1>8, PolicyKeeps

LEMMA CancelPolicyKeeps ==
  ASSUME InsuranceInv, NEW u \in OfInsurance.Users, Insurance!CancelPolicy(u) PROVE InsuranceInv'
<1> DEFINE o == policy[u]
           refund == Insurance!Unused(o)
           p == [o EXCEPT !.status = "Cancelled"]
<1>1. /\ o # None /\ Insurance!Transfer(Self, u, refund) /\ pool' = pool - refund
      /\ policy' = [policy EXCEPT ![u].status = "Cancelled"]
      /\ UNCHANGED <<now, config, claim, fraud>>
  BY DEF Insurance!CancelPolicy
<1>2. o \in Policy /\ o.start_time <= now /\ now \in Nat
  BY <1>1 DEF InsuranceInv, PoolTypes
<1>3. policy' = [policy EXCEPT ![u] = p]
  BY <1>1 DEF InsuranceInv, PoolTypes
<1>4. refund \in Nat
  BY <1>2, UnusedType
<1>5. u \in Insured \ {Self}
  BY InsuranceAssumption DEF Insured
<1> HIDE DEF refund, o
<1>6. p \in Policy /\ p.start_time <= now
  BY <1>2 DEF Policy
<1>7. bal' \in [Insured -> Nat] /\ pool' = bal'[Self]
  BY <1>1, <1>4, <1>5, PoolMoved
<1> HIDE DEF p
<1> QED BY <1>1, <1>3, <1>6, <1>7, PolicyKeeps

\* A new claim is counted, and the claims that count with it.
LEMMA SubmitClaimKeeps ==
  ASSUME InsuranceInv, NEW u \in OfInsurance.Users, NEW asset, NEW n \in OfInsurance.Amounts,
         Insurance!SubmitClaim(u, asset, n)
  PROVE  InsuranceInv'
<1> DEFINE id == Len(claim) + 1
           c == [policy_owner |-> u, claim_amount |-> n, submission_time |-> now,
                 status |-> "Submitted", payout_amount |-> 0]
           recent == Insurance!Recent(fraud[u].recent_claims) \cup {id}
           f == [fraud[u] EXCEPT !.last_claim_time = now, !.recent_claims = recent]
<1>1. claim' = Append(claim, c) /\ UNCHANGED <<now, bal, config, policy, pool>>
  BY DEF Insurance!SubmitClaim
<1>2. fraud' = [fraud EXCEPT ![u].last_claim_time = now, ![u].recent_claims = recent]
  BY DEF Insurance!SubmitClaim, Insurance!Counted
<1>3. /\ now \in Nat /\ claim \in Seq(Claim) /\ fraud \in [OfInsurance.Users -> Metrics]
      /\ fraud[u].recent_claims \subseteq Nat
  BY DEF InsuranceInv, PoolTypes, ClaimTypes, Metrics
<1>4. c \in Claim
  BY <1>3, InsuranceAssumption DEF Claim
<1>5. id \in Nat /\ recent \subseteq Nat /\ id \in recent
  BY <1>3 DEF Insurance!Recent
<1>6. fraud' = [fraud EXCEPT ![u] = f]
  BY <1>2, <1>3
<1>7. ASSUME NEW i \in fraud[u].recent_claims,
             claim[i].submission_time >= now - OfInsurance.FRAUD_LOOKBACK_PERIOD,
             claim[i].submission_time \in Nat
      PROVE  i \in recent
  BY <1>3, <1>7, InsuranceAssumption DEF Insurance!Recent
<1> HIDE DEF c, recent
<1>8. f \in Metrics /\ f.last_claim_time = now /\ f.recent_claims = recent
  BY <1>3, <1>5 DEF Metrics
<1> HIDE DEF f
<1>9. /\ claim' \in Seq(Claim) /\ Len(claim') = id /\ claim'[id] = c
      /\ \A i \in 1 .. Len(claim) : claim'[i] = claim[i]
  BY <1>1, <1>3, <1>4
<1>10. ClaimTypes'
  BY <1>1, <1>3, <1>6, <1>8, <1>9 DEF InsuranceInv, ClaimTypes
<1>11. ASSUME NEW i \in 1 .. Len(claim') PROVE ClaimKept(claim[i], i, fraud[claim[i].policy_owner])'
  <2>1. CASE i = id
    <3>1. claim'[i].policy_owner = u /\ claim'[i].submission_time = now
      BY <1>9, <2>1 DEF c
    <3> QED BY <1>1, <1>3, <1>5, <1>6, <1>8, <2>1, <3>1 DEF ClaimKept
  <2>2. CASE i # id
    <3>1. i \in 1 .. Len(claim) /\ claim'[i] = claim[i]
      BY <1>3, <1>9, <2>2
    <3>2. /\ claim[i] \in Claim
          /\ ClaimKept(claim[i], i, fraud[claim[i].policy_owner])
      BY <1>3, <3>1 DEF InsuranceInv, ClaimsKept
    <3>3. claim[i].submission_time \in Nat /\ claim[i].policy_owner \in OfInsurance.Users
      BY <3>2 DEF Claim
    <3>4. CASE claim[i].policy_owner = u
      <4>1. fraud'[u] = f /\ fraud[u].last_claim_time \in Nat /\ fraud[u].last_claim_time <= now
        BY <1>3, <1>6 DEF InsuranceInv, ClaimTypes, Metrics
      <4>2. claim[i].submission_time <= now
        BY <1>3, <3>2, <3>3, <3>4, <4>1 DEF ClaimKept
      <4> QED BY <1>1, <1>7, <1>8, <3>1, <3>2, <3>3, <3>4, <4>1, <4>2 DEF ClaimKept
    <3>5. CASE claim[i].policy_owner # u
      <4>1. fraud'[claim[i].policy_owner] = fraud[claim[i].policy_owner]
        BY <1>3, <1>6, <3>3, <3>5
      <4> QED BY <1>1, <3>1, <3>2, <4>1 DEF ClaimKept
    <3> QED BY <3>4, <3>5
  <2> QED BY <2>1, <2>2
<1> QED BY <1>1, <1>10, <1>11 DEF InsuranceInv, PoolTypes, ClaimsKept

LEMMA ReviewKeeps ==
  ASSUME InsuranceInv, NEW id \in 1 .. Len(claim), NEW approved \in BOOLEAN,
         NEW payout \in OfInsurance.Amounts, Insurance!ReviewClaim(id, approved, payout)
  PROVE  InsuranceInv'
<1> DEFINE o == claim[id]
           c == [o EXCEPT !.status = IF approved THEN "Approved" ELSE "Rejected",
                          !.payout_amount = IF approved THEN payout ELSE 0]
<1>1. claim \in Seq(Claim) /\ o \in Claim
  BY DEF InsuranceInv, ClaimTypes
<1>2. claim' = [claim EXCEPT ![id] = c] /\ UNCHANGED <<now, bal, config, policy, pool, fraud>>
  BY <1>1 DEF Insurance!ReviewClaim
<1> HIDE DEF o
<1>3. c \in Claim /\ c.policy_owner = o.policy_owner /\ c.submission_time = o.submission_time
  BY <1>1, InsuranceAssumption DEF Claim
<1> HIDE DEF c
<1>4. ClaimTypes' /\ ClaimsKept'
  BY <1>2, <1>3, ClaimSettled DEF o
<1> QED BY <1>2, <1>4 DEF InsuranceInv, PoolTypes

LEMMA PayoutKeeps ==
  ASSUME InsuranceInv, NEW id \in 1 .. Len(claim), Insurance!ProcessPayout(id)
  PROVE  InsuranceInv'
<1> DEFINE o == claim[id]
           c == [o EXCEPT !.status = "Paid"]
<1>1. claim \in Seq(Claim) /\ o \in Claim
  BY DEF InsuranceInv, ClaimTypes
<1>2. /\ claim' = [claim EXCEPT ![id] = c] /\ UNCHANGED <<now, config, policy, fraud>>
      /\ Insurance!Transfer(Self, o.policy_owner, o.payout_amount)
      /\ pool' = pool - o.payout_amount
  BY <1>1 DEF Insurance!ProcessPayout
<1> HIDE DEF o
<1>3. c \in Claim /\ c.policy_owner = o.policy_owner /\ c.submission_time = o.submission_time
  BY <1>1 DEF Claim
<1> HIDE DEF c
<1>4. ClaimTypes' /\ ClaimsKept'
  BY <1>2, <1>3, ClaimSettled DEF o
<1>5. o.policy_owner \in Insured \ {Self} /\ o.payout_amount \in Nat
  BY <1>1, InsuranceAssumption DEF Claim, Insured
<1>6. bal' \in [Insured -> Nat] /\ pool' = bal'[Self]
  BY <1>2, <1>5, PoolMoved
<1> QED BY <1>2, <1>4, <1>6 DEF InsuranceInv, PoolTypes

\* The administrator adds to the pool and takes from it.
LEMMA PoolKeeps ==
  ASSUME InsuranceInv,
         \/ \E n \in OfInsurance.Amounts : Insurance!AddToPool(n) \/ Insurance!WithdrawFromPool(n)
         \/ Insurance!EmergencyWithdraw
  PROVE  InsuranceInv'
<1>1. UNCHANGED <<now, config, policy, claim, fraud>>
  BY DEF Insurance!AddToPool, Insurance!WithdrawFromPool, Insurance!EmergencyWithdraw
<1>2. OfInsurance.Admin \in Insured \ {Self}
  BY InsuranceAssumption DEF Insured
<1>3. pool \in Nat
  BY DEF InsuranceInv, PoolTypes, Insured
<1>4. \E n \in Nat :
        \/ Insurance!Transfer(OfInsurance.Admin, Self, n) /\ pool' = pool + n
        \/ Insurance!Transfer(Self, OfInsurance.Admin, n) /\ pool' = pool - n
  <2>1. CASE Insurance!EmergencyWithdraw
    BY <1>3, <2>1 DEF Insurance!EmergencyWithdraw
  <2>2. CASE \E n \in OfInsurance.Amounts : Insurance!AddToPool(n) \/ Insurance!WithdrawFromPool(n)
    <3>1. PICK n \in OfInsurance.Amounts : Insurance!AddToPool(n) \/ Insurance!WithdrawFromPool(n)
      BY <2>2
    <3>2. n \in Nat
      BY InsuranceAssumption
    <3> QED BY <3>1, <3>2 DEF Insurance!AddToPool, Insurance!WithdrawFromPool
  <2> QED BY <2>1, <2>2
<1>5. bal' \in [Insured -> Nat] /\ pool' = bal'[Self]
  BY <1>2, <1>4, PoolMoved
<1>6. ClaimTypes' /\ ClaimsKept'
  BY <1>1 DEF InsuranceInv, ClaimTypes, ClaimsKept, ClaimKept
<1> QED BY <1>1, <1>5, <1>6 DEF InsuranceInv, PoolTypes

\* The settings stay a configuration.
LEMMA SettingsKeep ==
  ASSUME InsuranceInv,
         NEW c \in OfInsurance.Rates \cup OfInsurance.Limits \cup OfInsurance.FraudParams
                     \cup [{"paused"} -> BOOLEAN],
         Insurance!UpdateConfig(c)
  PROVE  InsuranceInv'
<1> DEFINE Fields == {"base_premium_rate", "multiplier", "min_coverage_period",
                      "max_coverage_period", "max_coverage_amount", "max_claims_per_period",
                      "claim_cooldown", "paused"}
<1>1. /\ config \in Settings /\ UNCHANGED <<now, bal, policy, claim, pool, fraud>>
      /\ config' = [f \in DOMAIN config |-> IF f \in DOMAIN c THEN c[f] ELSE config[f]]
  BY DEF Insurance!UpdateConfig, Insurance!Initialized, InsuranceInv, PoolTypes
<1>2. DOMAIN config = Fields
  BY <1>1 DEF Settings
<1>3. config' \in Settings
  <2>1. CASE c \in OfInsurance.Rates
    <3>1. c \in [base_premium_rate : Nat, multiplier : [Insurance!CoverageType -> Nat]]
      BY <2>1, InsuranceAssumption
    <3> QED BY <1>1, <1>2, <3>1 DEF Settings
  <2>2. CASE c \in OfInsurance.Limits
    <3>1. c \in [min_coverage_period : Nat, max_coverage_period : Nat, max_coverage_amount : Nat]
      BY <2>2, InsuranceAssumption
    <3> QED BY <1>1, <1>2, <3>1 DEF Settings
  <2>3. CASE c \in OfInsurance.FraudParams
    <3>1. c \in [max_claims_per_period : Nat, claim_cooldown : Nat]
      BY <2>3, InsuranceAssumption
    <3> QED BY <1>1, <1>2, <3>1 DEF Settings
  <2>4. CASE c \in [{"paused"} -> BOOLEAN]
    BY <1>1, <1>2, <2>4 DEF Settings
  <2> QED BY <2>1, <2>2, <2>3, <2>4
<1>4. ClaimTypes' /\ ClaimsKept'
  BY <1>1 DEF InsuranceInv, ClaimTypes, ClaimsKept, ClaimKept
<1> QED BY <1>1, <1>3, <1>4 DEF InsuranceInv, PoolTypes

\* Initialization, flags and the clock.
LEMMA InsuranceQuiet ==
  ASSUME InsuranceInv, \/ Insurance!Initialize \/ Insurance!Tick
                       \/ \E u \in OfInsurance.Users, on \in BOOLEAN : Insurance!FlagUser(u, on)
                       \/ UNCHANGED Insurance!vars
  PROVE  InsuranceInv'
<1>1. UNCHANGED <<bal, policy, claim, pool>> /\ now' \in {now, now + 1}
        /\ config' \in Settings \cup {None}
  BY InsuranceAssumption
  DEF Insurance!Initialize, Insurance!Tick, Insurance!FlagUser, Insurance!vars, InsuranceInv,
      PoolTypes
<1>2. /\ fraud' \in [OfInsurance.Users -> Metrics]
      /\ \A u \in OfInsurance.Users : /\ fraud'[u].recent_claims = fraud[u].recent_claims
                                      /\ fraud'[u].last_claim_time = fraud[u].last_claim_time
  <2>1. fraud \in [OfInsurance.Users -> Metrics]
    BY DEF InsuranceInv, ClaimTypes
  <2>2. CASE fraud' = fraud
    BY <2>1, <2>2
  <2>3. ASSUME NEW v \in OfInsurance.Users, NEW on \in BOOLEAN, Insurance!FlagUser(v, on)
        PROVE  <1>2!1 /\ <1>2!2
    <3>1. fraud' = [fraud EXCEPT ![v] = [fraud[v] EXCEPT !.flagged = on]]
      BY <2>1, <2>3 DEF Insurance!FlagUser
    <3>2. [fraud[v] EXCEPT !.flagged = on] \in Metrics
      BY <2>1 DEF Metrics
    <3> QED BY <2>1, <3>1, <3>2 DEF Metrics
  <2> QED BY <2>2, <2>3 DEF Insurance!Initialize, Insurance!Tick, Insurance!vars
<1>3. now' \in Nat /\ ClaimTypes' /\ ClaimsKept'
  <2>1. UNCHANGED claim
    BY <1>1
  <2> QED BY <1>1, <1>2, <2>1, ClaimsLeft
<1>4. ASSUME NEW u \in OfInsurance.Users, policy[u] # None PROVE policy[u].start_time <= now'
  <2>1. policy[u] \in Policy /\ policy[u].start_time <= now /\ now \in Nat
    BY <1>4 DEF InsuranceInv, PoolTypes
  <2>2. policy[u].start_time \in Nat
    BY <2>1 DEF Policy
  <2> QED BY <1>1, <2>1, <2>2
<1> QED BY <1>1, <1>3, <1>4 DEF InsuranceInv, PoolTypes

LEMMA InsuranceStep == ASSUME InsuranceInv, Insurance!Next PROVE InsuranceInv'
<1>1. DOMAIN claim = 1 .. Len(claim)
  BY DEF InsuranceInv, ClaimTypes
<1>2. ASSUME NEW u \in OfInsurance.Users,
             \/ \E type \in Insurance!CoverageType, n \in OfInsurance.Coverages,
                   period \in OfInsurance.Periods : Insurance!PurchasePolicy(u, type, n, period)
             \/ \E period \in OfInsurance.Periods : Insurance!RenewPolicy(u, period)
             \/ Insurance!CancelPolicy(u)
             \/ \E asset \in {"NFT", "Token"}, n \in OfInsurance.Amounts :
                   Insurance!SubmitClaim(u, asset, n)
      PROVE  InsuranceInv'
  BY <1>2, PurchaseKeeps, RenewKeeps, CancelPolicyKeeps, SubmitClaimKeeps
<1>3. ASSUME NEW id \in 1 .. Len(claim),
             \/ Insurance!ProcessPayout(id)
             \/ \E ok \in BOOLEAN, n \in OfInsurance.Amounts : Insurance!ReviewClaim(id, ok, n)
      PROVE  InsuranceInv'
  BY <1>3, ReviewKeeps, PayoutKeeps
<1> QED BY <1>1, <1>2, <1>3, PoolKeeps, SettingsKeep, InsuranceQuiet DEF Insurance!Next

LEMMA InsuranceInit == ASSUME Insurance!Init PROVE InsuranceInv
<1>1. now = 1 /\ config = None /\ claim = <<>> /\ pool = 0 /\ pool = bal[Self]
  BY DEF Insurance!Init, Insured
<1>2. bal \in [Insured -> Nat]
  BY InsuranceAssumption DEF Insurance!Init, Insured
<1>3. policy \in [OfInsurance.Users -> Policy \cup {None}]
        /\ \A u \in OfInsurance.Users : policy[u] = None
  BY DEF Insurance!Init
<1>4. fraud \in [OfInsurance.Users -> Metrics]
        /\ \A u \in OfInsurance.Users : fraud[u].last_claim_time = 0
  BY DEF Insurance!Init, Metrics
<1>5. claim \in Seq(Claim) /\ Len(claim) = 0
  BY <1>1
<1> QED BY <1>1, <1>2, <1>3, <1>4, <1>5 DEF InsuranceInv, PoolTypes, ClaimTypes, ClaimsKept

LEMMA InsuranceSays == ASSUME InsuranceInv PROVE Insurance!PoolAndLimits
<1>1. DOMAIN claim = 1 .. Len(claim)
  BY DEF InsuranceInv, ClaimTypes
<1> QED BY <1>1 DEF InsuranceInv, ClaimsKept, ClaimKept, Insurance!PoolAndLimits

-----------------------------------------------------------------------------
(***************************************************************************)
(* Proofs: governance by deposits.                                         *)
(***************************************************************************)
\* The accounts, the configurations and what proposals call; the contract does
\* not pay itself.
ASSUME GovernanceAssumption ==
  /\ IsFiniteSet(OfGovernance.Users) /\ Self \notin OfGovernance.Users
  /\ \A c \in OfGovernance.Configs :
       c.voting_delay \in Nat /\ c.voting_period \in Nat /\ c.quorum_percentage \in Nat
  /\ None \notin OfGovernance.Configs
  /\ OfGovernance.Actions \subseteq [to : OfGovernance.Users, amount : Nat]
  /\ OfGovernance.Amounts \subseteq Nat /\ OfGovernance.InitBalance \in Nat
  /\ OfGovernance.MaxProposals \in Nat

Voters == OfGovernance.Users
GovernanceBallots ==
  [proposer : Voters, call : OfGovernance.Actions,
   status : {"Pending", "Active", "Executed", "Canceled"}, start_time : Nat, end_time : Nat,
   for_votes : Int, against_votes : Int, abstain_votes : Int, quorum : Int]

\* What is deposited by those who delegate to u.
EntrustedTo(u) == [v \in Voters |-> IF delegatee[v] = u THEN deposited[v] ELSE 0]

DepositInv ==
  /\ bal \in [Voters \cup {Self} -> Nat]
  /\ deposited \in [Voters -> Nat] /\ delegatee \in [Voters -> Voters]
  /\ power \in [Voters -> Int]
  /\ \A u \in Voters : power[u] = Total(EntrustedTo(u))
  /\ bal[Self] = Total(deposited) - Total(Payments(OfGovernance.MaxProposals))

GovernanceInv ==
  /\ config = None \/ config \in OfGovernance.Configs
  /\ BallotInv(GovernanceBallots, OfGovernance.MaxProposals)
  /\ DepositInv

LEMMA GovernanceBallotsTyped == Ballots(GovernanceBallots)
<1> SUFFICES ASSUME NEW r \in GovernanceBallots
             PROVE  /\ r.status \in {"Pending", "Active", "Executed", "Canceled"}
                    /\ r.start_time \in Nat /\ r.end_time \in Nat /\ r.call.amount \in Nat
  BY DEF Ballots
<1>1. r.call \in [to : OfGovernance.Users, amount : Nat]
  BY GovernanceAssumption DEF GovernanceBallots
<1> QED BY <1>1 DEF GovernanceBallots

\* The sums are of natural numbers.
LEMMA EntrustedType ==
  ASSUME DepositInv, NEW u \in Voters
  PROVE  /\ EntrustedTo(u) \in [Voters -> Nat] /\ deposited \in [Voters -> Nat]
         /\ IsFiniteSet(Voters) /\ Total(deposited) \in Nat /\ Total(EntrustedTo(u)) \in Nat
<1>1. EntrustedTo(u) \in [Voters -> Nat] /\ deposited \in [Voters -> Nat] /\ IsFiniteSet(Voters)
  BY GovernanceAssumption DEF DepositInv, EntrustedTo, Voters
<1> QED BY <1>1, UnitsFinite

\* The deposit of u changes to n, with the power of the delegatee.
LEMMA DepositChanged ==
  ASSUME DepositInv, NEW u \in Voters, NEW n \in Nat, deposited' = [deposited EXCEPT ![u] = n],
         power' = [power EXCEPT ![delegatee[u]] = @ + (n - deposited[u])], UNCHANGED delegatee
  PROVE  /\ deposited' \in [Voters -> Nat] /\ power' \in [Voters -> Int]
         /\ Total(deposited') = Total(deposited) + (n - deposited[u])
         /\ \A v \in Voters : power'[v] = Total(EntrustedTo(v)')
<1>1. /\ deposited \in [Voters -> Nat] /\ delegatee \in [Voters -> Voters]
           /\ power \in [Voters -> Int]
      /\ deposited[u] \in Nat /\ delegatee[u] \in Voters /\ IsFiniteSet(Voters)
  BY GovernanceAssumption DEF DepositInv, Voters
<1>2. deposited' \in [Voters -> Nat] /\ deposited'[u] = n
        /\ \A v \in Voters \ {u} : deposited'[v] = deposited[v]
  BY <1>1
<1>3. power[delegatee[u]] + (n - deposited[u]) \in Int
  BY <1>1
<1>4. power' \in [Voters -> Int]
  BY <1>1, <1>3
<1>5. Total(deposited') = Total(deposited) + (n - deposited[u])
  <2> DEFINE f == deposited
             g == deposited'
  <2>1. /\ f \in [Voters -> Nat] /\ g \in [Voters -> Nat] /\ g[u] = n
        /\ \A v \in Voters \ {u} : g[v] = f[v]
    BY <1>1, <1>2
  <2> HIDE DEF f, g
  <2>2. Total(g) = Total(f) + (g[u] - f[u])
    BY <1>1, <2>1, TotalChange
  <2> QED BY <2>1, <2>2 DEF f, g
<1>6. ASSUME NEW v \in Voters PROVE power'[v] = Total(EntrustedTo(v)')
  <2> DEFINE f == EntrustedTo(v)
             g == EntrustedTo(v)'
  <2>1. f \in [Voters -> Nat] /\ power[v] = Total(f) /\ power[v] \in Int
    BY EntrustedType DEF DepositInv
  <2>2. g \in [Voters -> Nat]
    BY <1>1, <1>2 DEF EntrustedTo
  <2>3. \A w \in Voters \ {u} : g[w] = f[w]
    BY <1>1, <1>2 DEF EntrustedTo
  <2>4. g[u] - f[u] = IF delegatee[u] = v THEN n - deposited[u] ELSE 0
    BY <1>1, <1>2 DEF EntrustedTo
  <2> HIDE DEF f, g
  <2>5. Total(g) = Total(f) + (g[u] - f[u])
    BY <1>1, <2>1, <2>2, <2>3, TotalChange
  <2>6. CASE delegatee[u] = v
    <3>1. power'[v] = power[v] + (n - deposited[u])
      BY <1>1, <2>6
    <3> QED BY <2>1, <2>4, <2>5, <2>6, <3>1 DEF g
  <2>7. CASE delegatee[u] # v
    <3>1. power'[v] = power[v]
      BY <1>1, <2>7
    <3> QED BY <2>1, <2>4, <2>5, <2>7, <3>1 DEF g
  <2> QED BY <2>6, <2>7
<1> QED BY <1>2, <1>4, <1>5, <1>6

\* What is deposited and withdrawn is held.
LEMMA DepositKeeps ==
  ASSUME GovernanceInv, NEW u \in Voters, NEW n \in OfGovernance.Amounts,
         Governance!Deposit(u, n) \/ Governance!Withdraw(u, n)
  PROVE  GovernanceInv' /\ Decides(OfGovernance.MaxProposals)
<1> DEFINE M == OfGovernance.MaxProposals
           S == GovernanceBallots
<1>1. /\ bal \in [Voters \cup {Self} -> Nat] /\ deposited \in [Voters -> Nat]
           /\ deposited[u] \in Nat
      /\ delegatee \in [Voters -> Voters] /\ power \in [Voters -> Int]
           /\ power[delegatee[u]] \in Int
      /\ n \in Nat /\ u # Self
  BY GovernanceAssumption DEF GovernanceInv, DepositInv, Voters
<1>2. UNCHANGED <<now, config, delegatee, proposal>>
  BY DEF Governance!Deposit, Governance!Withdraw, Governance!ballots
<1>3. BallotInv(S, M)' /\ Payments(M)' = Payments(M) /\ Decides(M) /\ Total(Payments(M)) \in Nat
  <2>1. Ballots(S) /\ M \in Nat /\ BallotInv(S, M) /\ UNCHANGED proposal /\ now' \in {now, now + 1}
    BY <1>2, GovernanceAssumption, GovernanceBallotsTyped DEF GovernanceInv
  <2> HIDE DEF S, M
  <2> QED BY <2>1, BallotsQuiet, PaymentsType
<1>4. ASSUME NEW k \in Nat, deposited' = [deposited EXCEPT ![u] = k],
             power' = [power EXCEPT ![delegatee[u]] = power[delegatee[u]] + (k - deposited[u])],
             bal' \in [Voters \cup {Self} -> Nat], bal'[Self] = bal[Self] + (k - deposited[u])
      PROVE  DepositInv'
  <2>1. /\ deposited' \in [Voters -> Nat] /\ power' \in [Voters -> Int]
        /\ Total(deposited') = Total(deposited) + (k - deposited[u])
        /\ \A v \in Voters : power'[v] = Total(EntrustedTo(v)')
    BY <1>2, <1>4, DepositChanged DEF GovernanceInv
  <2>2. Total(deposited) \in Nat
    BY EntrustedType DEF GovernanceInv
  <2> QED BY <1>1, <1>2, <1>3, <1>4, <2>1, <2>2 DEF GovernanceInv, DepositInv
<1>5. CASE Governance!Deposit(u, n)
  <2>1. Moves(u, Self, n)
    BY <1>5 DEF Governance!Deposit, Governance!Transfer, Moves
  <2>2. bal' \in [Voters \cup {Self} -> Nat] /\ bal'[Self] = bal[Self] + n
    BY <1>1, <2>1, Moved
  <2>3. /\ deposited' = [deposited EXCEPT ![u] = deposited[u] + n]
        /\ power' = [power EXCEPT ![delegatee[u]] = power[delegatee[u]] + n]
    BY <1>5 DEF Governance!Deposit
  <2>4. (deposited[u] + n) - deposited[u] = n /\ deposited[u] + n \in Nat
    BY <1>1
  <2>5. DepositInv'
    BY <1>4, <2>2, <2>3, <2>4
  <2> QED BY <1>2, <1>3, <2>5 DEF GovernanceInv
<1>6. CASE Governance!Withdraw(u, n)
  <2>1. Moves(Self, u, n) /\ deposited[u] >= n
    BY <1>6 DEF Governance!Withdraw, Governance!Transfer, Moves
  <2>2. bal' \in [Voters \cup {Self} -> Nat] /\ bal'[Self] = bal[Self] - n
    BY <1>1, <2>1, Moved
  <2>3. /\ deposited' = [deposited EXCEPT ![u] = deposited[u] - n]
        /\ power' = [power EXCEPT ![delegatee[u]] = power[delegatee[u]] - n]
    BY <1>6 DEF Governance!Withdraw
  <2>4. /\ (deposited[u] - n) - deposited[u] = 0 - n /\ deposited[u] - n \in Nat
        /\ power[delegatee[u]] - n = power[delegatee[u]] + (0 - n)
        /\ bal[Self] - n = bal[Self] + (0 - n)
    BY <1>1, <2>1
  <2>5. DepositInv'
    BY <1>4, <2>2, <2>3, <2>4
  <2> QED BY <1>2, <1>3, <2>5 DEF GovernanceInv
<1> QED BY <1>5, <1>6

\* The power of a deposit moves with its delegation.
LEMMA DelegateKeeps ==
  ASSUME GovernanceInv, NEW u \in Voters, NEW to \in Voters, Governance!Delegate(u, to)
  PROVE  GovernanceInv' /\ Decides(OfGovernance.MaxProposals)
<1> DEFINE M == OfGovernance.MaxProposals
           S == GovernanceBallots
           d == deposited[u]
           o == delegatee[u]
<1>1. /\ deposited \in [Voters -> Nat] /\ d \in Nat /\ o \in Voters /\ IsFiniteSet(Voters)
      /\ delegatee \in [Voters -> Voters] /\ power \in [Voters -> Int]
  BY GovernanceAssumption DEF GovernanceInv, DepositInv, Voters
<1>2. /\ o # to /\ UNCHANGED <<now, bal, config, deposited, proposal>>
      /\ power' = [[power EXCEPT ![o] = @ - d] EXCEPT ![to] = @ + d]
      /\ delegatee' = [delegatee EXCEPT ![u] = to]
  BY DEF Governance!Delegate, Governance!ballots
<1>3. BallotInv(S, M)' /\ Payments(M)' = Payments(M) /\ Decides(M)
  <2>1. Ballots(S) /\ M \in Nat /\ BallotInv(S, M) /\ UNCHANGED proposal /\ now' \in {now, now + 1}
    BY <1>2, GovernanceAssumption, GovernanceBallotsTyped DEF GovernanceInv
  <2> HIDE DEF S, M
  <2> QED BY <2>1, BallotsQuiet
<1>4. /\ power' \in [Voters -> Int] /\ delegatee' \in [Voters -> Voters]
      /\ power'[o] = power[o] - d /\ power'[to] = power[to] + d
      /\ \A v \in Voters \ {o, to} : power'[v] = power[v]
  <2>1. power[o] - d \in Int /\ power[to] + d \in Int
    BY <1>1
  <2> QED BY <1>1, <1>2, <2>1
<1>5. ASSUME NEW v \in Voters PROVE power'[v] = Total(EntrustedTo(v)')
  <2> DEFINE f == EntrustedTo(v)
             g == EntrustedTo(v)'
  <2>1. f \in [Voters -> Nat] /\ power[v] = Total(f) /\ power[v] \in Int
    BY EntrustedType DEF GovernanceInv, DepositInv
  <2>2. g \in [Voters -> Nat]
    BY <1>1, <1>2 DEF EntrustedTo
  <2>3. \A w \in Voters \ {u} : g[w] = f[w]
    BY <1>1, <1>2 DEF EntrustedTo
  <2>4. /\ f[u] = IF o = v THEN d ELSE 0
        /\ g[u] = IF to = v THEN d ELSE 0
    BY <1>1, <1>2 DEF EntrustedTo
  <2> HIDE DEF f, g
  <2>5. Total(g) = Total(f) + (g[u] - f[u])
    BY <1>1, <2>1, <2>2, <2>3, TotalChange
  <2>6. power'[v] = power[v] + (g[u] - f[u])
    <3>1. CASE v = o
      BY <1>1, <1>2, <1>4, <2>4, <3>1
    <3>2. CASE v = to
      BY <1>1, <1>2, <1>4, <2>4, <3>2
    <3>3. CASE v \notin {o, to}
      BY <1>1, <1>4, <2>1, <2>4, <3>3
    <3> QED BY <3>1, <3>2, <3>3
  <2> QED BY <2>1, <2>5, <2>6 DEF g
<1>6. DepositInv'
  BY <1>2, <1>3, <1>4, <1>5 DEF GovernanceInv, DepositInv
<1> QED BY <1>2, <1>3, <1>6 DEF GovernanceInv

\* A proposal is made, voted on or canceled: nothing is paid.
LEMMA GovernanceProposes ==
  ASSUME GovernanceInv, NEW u \in Voters, NEW call \in OfGovernance.Actions,
         Governance!Propose(u, call)
  PROVE  GovernanceInv' /\ Decides(OfGovernance.MaxProposals)
<1> DEFINE M == OfGovernance.MaxProposals
           S == GovernanceBallots
           start == now + config.voting_delay
           quorum == (Governance!Supply * config.quorum_percentage) \div 100
           r == [proposer |-> u, call |-> call, status |-> "Pending",
                 start_time |-> start, end_time |-> start + config.voting_period,
                 for_votes |-> 0, against_votes |-> 0, abstain_votes |-> 0, quorum |-> quorum]
<1>1. /\ config # None /\ Len(proposal) < M /\ proposal' = Append(proposal, r)
      /\ UNCHANGED <<now, bal, config, deposited, power, delegatee>>
  BY DEF Governance!Propose, Governance!deposits
<1>2. /\ now \in Nat /\ config.voting_delay \in Nat /\ config.voting_period \in Nat
      /\ config.quorum_percentage \in Nat
  BY <1>1, GovernanceAssumption DEF GovernanceInv, BallotInv
<1>3. quorum \in Int
  <2>1. Governance!Cardinality(Voters) = Cardinality(Voters) /\ Cardinality(Voters) \in Nat
    <3>1. Governance!Cardinality(Voters) = Cardinality(Voters)
      BY Zenon DEF Governance!Cardinality, Cardinality
    <3> QED BY <3>1, GovernanceAssumption, FS_CardinalityType DEF Voters
  <2>2. Governance!Supply \in Nat
    BY <2>1, GovernanceAssumption, Multiplied DEF Governance!Supply, Voters
  <2>3. Governance!Supply * config.quorum_percentage \in Nat
    BY <1>2, <2>2, Multiplied
  <2> QED BY <2>3
<1> HIDE DEF quorum
<1>4. start \in Nat /\ start + config.voting_period \in Nat /\ start <= start + config.voting_period
  BY <1>2
<1> HIDE DEF start
<1>5. r \in S /\ r.status = "Pending" /\ r.start_time <= r.end_time
  BY <1>3, <1>4 DEF GovernanceBallots
<1>6. BallotInv(S, M)' /\ Payments(M)' = Payments(M) /\ Decides(M)
  <2>1. Ballots(S) /\ M \in Nat /\ BallotInv(S, M)
    BY GovernanceAssumption, GovernanceBallotsTyped DEF GovernanceInv
  <2>2. now' = now
    BY <1>1
  <2> HIDE DEF S, M, r
  <2> QED BY <1>1, <1>5, <2>1, <2>2, BallotAdded
<1>7. DepositInv'
  BY <1>1, <1>6 DEF GovernanceInv, DepositInv, EntrustedTo
<1> QED BY <1>1, <1>6, <1>7 DEF GovernanceInv

\* One proposal changes: r is what becomes of it.
LEMMA GovernanceBallot ==
  ASSUME GovernanceInv, NEW id \in 1 .. Len(proposal), NEW r \in GovernanceBallots,
         proposal' = [proposal EXCEPT ![id] = r],
         UNCHANGED <<now, config, deposited, power, delegatee>>,
         r.call = proposal[id].call, r.start_time = proposal[id].start_time,
         r.end_time = proposal[id].end_time, Timed(r),
         \/ r.status = proposal[id].status /\ UNCHANGED bal
         \/ /\ proposal[id].status \in {"Pending", "Active"} /\ r.status \in {"Active", "Canceled"}
            /\ UNCHANGED bal
         \/ /\ proposal[id].status \in {"Pending", "Active"} /\ r.status = "Executed"
            /\ Governance!Call(r.call)
  PROVE  GovernanceInv' /\ Decides(OfGovernance.MaxProposals)
<1> DEFINE M == OfGovernance.MaxProposals
           S == GovernanceBallots
<1>1. Ballots(S) /\ M \in Nat /\ BallotInv(S, M)
  BY GovernanceAssumption, GovernanceBallotsTyped DEF GovernanceInv
<1>2. /\ BallotInv(S, M)'
      /\ Decides(M)
      /\ \/ r.status # "Executed" /\ Payments(M)' = Payments(M)
         \/ r.status = "Executed" /\ proposal[id].status = "Executed" /\ Payments(M)' = Payments(M)
         \/ /\ r.status = "Executed" /\ proposal[id].status # "Executed"
            /\ Total(Payments(M)') = Total(Payments(M)) + r.call.amount
  <2>1. now' = now /\ r \in S
    OBVIOUS
  <2> HIDE DEF S, M
  <2> QED BY <1>1, <2>1, BallotChanged
<1>3. Total(deposited) \in Nat /\ Total(Payments(M)) \in Nat
  <2>1. IsFiniteSet(Voters) /\ deposited \in [Voters -> Nat]
    BY GovernanceAssumption DEF GovernanceInv, DepositInv, Voters
  <2> HIDE DEF S, M
  <2> QED BY <1>1, <2>1, UnitsFinite, PaymentsType
<1>4. CASE UNCHANGED bal /\ Payments(M)' = Payments(M)
  <2>1. DepositInv'
    BY <1>4 DEF GovernanceInv, DepositInv, EntrustedTo
  <2> QED BY <1>2, <2>1 DEF GovernanceInv
<1>5. CASE /\ Governance!Call(r.call) /\ Total(Payments(M)') = Total(Payments(M)) + r.call.amount
  <2>1. r.call \in [to : Voters, amount : Nat]
    BY GovernanceAssumption DEF GovernanceBallots, Voters
  <2>2. bal' \in [Voters \cup {Self} -> Nat] /\ bal'[Self] = bal[Self] - r.call.amount
    <3>1. bal \in [Voters \cup {Self} -> Nat] /\ bal[Self] \in Nat
      BY DEF GovernanceInv, DepositInv
    <3>2. CASE r.call.amount > 0
      <4>1. Moves(Self, r.call.to, r.call.amount)
        BY <1>5, <3>2 DEF Governance!Call, Governance!Transfer, Moves
      <4>2. r.call.to \in Voters \cup {Self} /\ r.call.to # Self /\ r.call.amount \in Nat
        BY <2>1, GovernanceAssumption DEF Voters
      <4> QED BY <3>1, <4>1, <4>2, Moved
    <3>3. CASE ~(r.call.amount > 0)
      BY <1>5, <2>1, <3>1, <3>3 DEF Governance!Call
    <3> QED BY <3>2, <3>3
  <2>3. r.call.amount \in Nat
    BY <2>1
  <2>4. DepositInv'
    BY <1>3, <1>5, <2>2, <2>3 DEF GovernanceInv, DepositInv, EntrustedTo
  <2> QED BY <1>2, <2>4 DEF GovernanceInv
<1> QED BY <1>2, <1>4, <1>5

LEMMA GovernanceVotes ==
  ASSUME GovernanceInv, NEW v \in Voters, NEW id \in 1 .. Len(proposal),
         NEW type \in {"For", "Against", "Abstain"}, Governance!Vote(v, id, type)
  PROVE  GovernanceInv' /\ Decides(OfGovernance.MaxProposals)
<1> DEFINE o == proposal[id]
           t == Governance!Tally(o, type, power[v])
           r == [t EXCEPT !.status = IF @ = "Pending" THEN "Active" ELSE @]
<1>1. /\ o.start_time <= now /\ now <= o.end_time /\ proposal' = [proposal EXCEPT ![id] = r]
      /\ UNCHANGED <<now, bal, config, deposited, power, delegatee>>
  BY DEF Governance!Vote, Governance!deposits
<1>2. o \in GovernanceBallots /\ Timed(o) /\ power[v] \in Int /\ now \in Nat
  BY DEF GovernanceInv, BallotInv, DepositInv
<1>3. /\ t \in GovernanceBallots /\ t.status = o.status /\ t.call = o.call
      /\ t.start_time = o.start_time /\ t.end_time = o.end_time
  <2> HIDE DEF o
  <2>1. o.for_votes + power[v] \in Int /\ o.against_votes + power[v] \in Int
          /\ o.abstain_votes + power[v] \in Int
    BY <1>2 DEF GovernanceBallots
  <2>2. t \in {[o EXCEPT !.for_votes = o.for_votes + power[v]],
               [o EXCEPT !.against_votes = o.against_votes + power[v]],
               [o EXCEPT !.abstain_votes = o.abstain_votes + power[v]]}
    BY DEF Governance!Tally
  <2> HIDE DEF t
  <2> QED BY <1>2, <2>1, <2>2 DEF GovernanceBallots
<1> HIDE DEF o, t
<1>4. /\ r \in GovernanceBallots /\ r.call = o.call
      /\ r.start_time = o.start_time /\ r.end_time = o.end_time
      /\ r.status = IF o.status = "Pending" THEN "Active" ELSE o.status
  BY <1>3 DEF GovernanceBallots
<1>5. Timed(r)
  BY <1>1, <1>2, <1>4 DEF Timed, GovernanceBallots
<1> HIDE DEF r
<1> QED BY <1>1, <1>4, <1>5, GovernanceBallot DEF o

LEMMA GovernanceCancels ==
  ASSUME GovernanceInv, NEW id \in 1 .. Len(proposal), Governance!Cancel(id)
  PROVE  GovernanceInv' /\ Decides(OfGovernance.MaxProposals)
<1> DEFINE o == proposal[id]
           r == [o EXCEPT !.status = "Canceled"]
<1>1. /\ now < o.start_time /\ proposal' = [proposal EXCEPT ![id] = r]
      /\ UNCHANGED <<now, bal, config, deposited, power, delegatee>>
  BY DEF Governance!Cancel, Governance!deposits
<1>2. o \in GovernanceBallots /\ Timed(o) /\ now \in Nat
  BY DEF GovernanceInv, BallotInv
<1> HIDE DEF o
<1>3. /\ r \in GovernanceBallots /\ r.call = o.call /\ r.status = "Canceled"
      /\ r.start_time = o.start_time /\ r.end_time = o.end_time
  BY <1>2 DEF GovernanceBallots
<1>4. Timed(r) /\ o.status \in {"Pending", "Canceled"}
  <2>1. /\ o.start_time \in Nat /\ o.end_time \in Nat
        /\ o.status \in {"Pending", "Active", "Executed", "Canceled"}
    BY <1>2 DEF GovernanceBallots
  <2> QED BY <1>1, <1>2, <1>3, <2>1 DEF Timed
<1> HIDE DEF r
<1> QED BY <1>1, <1>3, <1>4, GovernanceBallot DEF o

\* What an executed proposal pays is taken from the deposits.
LEMMA GovernanceExecutes ==
  ASSUME GovernanceInv, NEW id \in 1 .. Len(proposal), Governance!Execute(id)
  PROVE  GovernanceInv' /\ Decides(OfGovernance.MaxProposals)
<1> DEFINE o == proposal[id]
           r == [o EXCEPT !.status = "Executed"]
<1>1. /\ now > o.end_time /\ o.status \notin {"Executed", "Canceled"} /\ Governance!Call(o.call)
      /\ proposal' = [proposal EXCEPT ![id] = r]
      /\ UNCHANGED <<now, config, deposited, power, delegatee>>
  BY DEF Governance!Execute, Governance!deposits
<1>2. o \in GovernanceBallots /\ Timed(o) /\ now \in Nat
  BY DEF GovernanceInv, BallotInv
<1> HIDE DEF o
<1>3. /\ r \in GovernanceBallots /\ r.call = o.call /\ r.status = "Executed"
      /\ r.start_time = o.start_time /\ r.end_time = o.end_time
  BY <1>2 DEF GovernanceBallots
<1>4. Timed(r) /\ o.status \in {"Pending", "Active"}
  <2>1. /\ o.start_time \in Nat /\ o.end_time \in Nat
        /\ o.status \in {"Pending", "Active", "Executed", "Canceled"}
    BY <1>2 DEF GovernanceBallots
  <2> QED BY <1>1, <1>2, <1>3, <2>1 DEF Timed
<1>5. Governance!Call(r.call)
  BY <1>1, <1>3
<1> HIDE DEF r
<1> QED BY <1>1, <1>3, <1>4, <1>5, GovernanceBallot DEF o

LEMMA GovernanceQuiet ==
  ASSUME GovernanceInv, UNCHANGED <<bal, deposited, power, delegatee, proposal>>,
         now' \in {now, now + 1}, config' = config \/ config' \in OfGovernance.Configs
  PROVE  GovernanceInv' /\ Decides(OfGovernance.MaxProposals)
<1> DEFINE M == OfGovernance.MaxProposals
           S == GovernanceBallots
<1>1. BallotInv(S, M)' /\ Payments(M)' = Payments(M) /\ Decides(M)
  <2>1. Ballots(S) /\ M \in Nat /\ BallotInv(S, M) /\ UNCHANGED proposal
    BY GovernanceAssumption, GovernanceBallotsTyped DEF GovernanceInv
  <2> HIDE DEF S, M
  <2> QED BY <2>1, BallotsQuiet
<1>2. DepositInv'
  BY <1>1 DEF GovernanceInv, DepositInv, EntrustedTo
<1> QED BY <1>1, <1>2 DEF GovernanceInv

LEMMA GovernanceStep ==
  ASSUME GovernanceInv, Governance!Next \/ UNCHANGED Governance!vars
  PROVE  GovernanceInv' /\ Decides(OfGovernance.MaxProposals)
<1> DEFINE Stays == /\ UNCHANGED <<bal, deposited, power, delegatee, proposal>>
                    /\ now' \in {now, now + 1}
                    /\ config' = config \/ config' \in OfGovernance.Configs
           G == GovernanceInv' /\ Decides(OfGovernance.MaxProposals)
<1>1. DOMAIN proposal = 1 .. Len(proposal)
  BY DEF GovernanceInv, BallotInv
<1>2. ASSUME NEW c \in OfGovernance.Configs, Governance!Initialize(c) PROVE Stays
  BY <1>2 DEF Governance!Initialize, Governance!deposits, Governance!ballots
<1>3. ASSUME \/ \E n \in 1 .. OfGovernance.MaxThreshold : Governance!InitializeMultisig(n)
             \/ \E u \in Voters : Governance!ProposeAdminAction(u)
             \/ \E id \in DOMAIN action :
                  \/ \E u \in Voters : Governance!SignAdminAction(u, id)
                  \/ Governance!ExecuteAdminAction(id)
      PROVE  Stays
  BY <1>3 DEF Governance!InitializeMultisig, Governance!ProposeAdminAction,
              Governance!SignAdminAction,
              Governance!ExecuteAdminAction, Governance!deposits, Governance!ballots
<1>4. ASSUME Governance!Tick \/ UNCHANGED Governance!vars PROVE Stays
  BY <1>4 DEF Governance!Tick, Governance!vars, Governance!deposits, Governance!ballots
<1>5. ASSUME Stays PROVE G
  BY <1>5, GovernanceQuiet
<1>6. ASSUME NEW u \in Voters,
             \/ \E n \in OfGovernance.Amounts :
                   Governance!Deposit(u, n) \/ Governance!Withdraw(u, n)
             \/ \E v \in Voters : Governance!Delegate(u, v)
             \/ \E c \in OfGovernance.Actions : Governance!Propose(u, c)
      PROVE  G
  BY <1>6, DepositKeeps, DelegateKeeps, GovernanceProposes
<1>7. ASSUME NEW id \in 1 .. Len(proposal),
             \/ \E u \in Voters, type \in {"For", "Against", "Abstain"} :
                   Governance!Vote(u, id, type)
             \/ Governance!Execute(id) \/ Governance!Cancel(id)
      PROVE  G
  BY <1>7, GovernanceVotes, GovernanceExecutes, GovernanceCancels
<1> HIDE DEF Stays, G
<1> QED BY <1>1, <1>2, <1>3, <1>4, <1>5, <1>6, <1>7 DEF Governance!Next, Voters, G

LEMMA GovernanceInit ==
  ASSUME Governance!Init PROVE GovernanceInv /\ Governance!D!Init
<1> DEFINE M == OfGovernance.MaxProposals
           S == GovernanceBallots
<1>1. /\ now = 0 /\ config = None /\ proposal = <<>> /\ bal[Self] = 0
      /\ bal \in [Voters \cup {Self} -> Nat]
  BY GovernanceAssumption DEF Governance!Init, Voters
<1>2. /\ deposited \in [Voters -> Nat] /\ delegatee \in [Voters -> Voters]
           /\ power \in [Voters -> Int]
      /\ \A u \in Voters : deposited[u] = 0 /\ power[u] = 0
  BY DEF Governance!Init, Voters
<1>3. BallotInv(S, M)
  <2>1. Len(proposal) = 0 /\ proposal \in Seq(S) /\ M \in Nat
    BY <1>1, GovernanceAssumption
  <2> HIDE DEF M
  <2> QED BY <1>1, <2>1 DEF BallotInv
<1>4. Total(deposited) = 0
  BY <1>2, TotalZero
<1>5. Total(Payments(M)) = 0
  <2> DEFINE f == Payments(M)
             I == 1 .. M
  <2>1. f \in [I -> Nat] /\ \A i \in I : f[i] = 0
    BY <1>1 DEF Payments
  <2> HIDE DEF f, I
  <2> QED BY <2>1, TotalZero DEF f
<1>6. ASSUME NEW u \in Voters PROVE power[u] = Total(EntrustedTo(u))
  <2> DEFINE f == EntrustedTo(u)
  <2>1. f \in [Voters -> Nat] /\ \A v \in Voters : f[v] = 0
    BY <1>2 DEF EntrustedTo
  <2> HIDE DEF f
  <2>2. Total(f) = 0
    BY <2>1, TotalZero
  <2> QED BY <1>2, <2>2 DEF f
<1>7. GovernanceInv
  BY <1>1, <1>2, <1>3, <1>4, <1>5, <1>6 DEF GovernanceInv, DepositInv
<1>8. Governance!D!Init
  BY <1>1 DEF Governance!D!Init
<1> QED BY <1>7, <1>8

LEMMA GovernanceSays == ASSUME GovernanceInv PROVE Governance!PowerIsDeposits
<1> DEFINE M == OfGovernance.MaxProposals
           S == GovernanceBallots
           paid == {i \in DOMAIN proposal : proposal[i].status = "Executed"}
           f == [i \in paid |-> proposal[i].call.amount]
<1>1. Total(f) = Total(Payments(M))
  <2>1. Ballots(S) /\ M \in Nat /\ BallotInv(S, M)
    BY GovernanceAssumption, GovernanceBallotsTyped DEF GovernanceInv
  <2> HIDE DEF S, M
  <2> QED BY <2>1, PaidTotal
<1>2. ASSUME NEW u \in Voters
      PROVE  power[u] = Total([v \in {w \in Voters : delegatee[w] = u} |-> deposited[v]])
  <2> DEFINE T == {w \in Voters : delegatee[w] = u}
  <2>1. T \in SUBSET Voters /\ \A v \in T : deposited[v] \in Nat
    BY DEF GovernanceInv, DepositInv
  <2>2. EntrustedTo(u) = [v \in Voters |-> IF v \in T THEN deposited[v] ELSE 0]
    BY DEF EntrustedTo
  <2> HIDE DEF T
  <2>3. Total([v \in T |-> deposited[v]])
          = Total([v \in Voters |-> IF v \in T THEN deposited[v] ELSE 0])
    BY <2>1, TotalWithin
  <2> QED BY <2>2, <2>3 DEF T, GovernanceInv, DepositInv
<1>3. \A g : Governance!Total(g) = Total(g)
  BY Zenon DEF Governance!Total, Total, Governance!Units, Units, Governance!Cardinality, Cardinality
<1>4. bal[Self] = Total(deposited) - Total(f)
  BY <1>1 DEF GovernanceInv, DepositInv
<1> HIDE DEF f
<1>5. /\ \A u \in Voters :
           power[u] = Governance!Total([v \in {w \in Voters : delegatee[w] = u} |-> deposited[v]])
      /\ bal[Self] = Governance!Total(deposited) - Governance!Total(f)
  BY <1>2, <1>3, <1>4
<1> QED BY <1>5 DEF f, Governance!PowerIsDeposits, Voters

LEMMA GovernanceDecides ==
  ASSUME GovernanceInv, GovernanceInv', Decides(OfGovernance.MaxProposals)
  PROVE  Governance!D!Step
<1> DEFINE M == OfGovernance.MaxProposals
           s == [id \in 1 .. M |-> IF id \in DOMAIN proposal THEN proposal[id].status ELSE "none"]
<1>1. s = States(M) /\ s' = States(M)'
  BY DEF GovernanceInv, BallotInv, States
<1>2. \/ s' = s
      \/ \E i \in 1 .. M, x \in {"Pending", "Active", "Executed", "Canceled"} :
           s[i] \in {"none", "Pending", "Active"} /\ s' = [s EXCEPT ![i] = x]
  BY <1>1 DEF Decides
<1> HIDE DEF M
<1> QED
  BY <1>2
  DEF M, Governance!D!Step, Governance!D!Next, Governance!D!Proceed, Governance!D!Decide,
      Governance!D!Becomes

-----------------------------------------------------------------------------
(***************************************************************************)
(* Proofs: the DAO.                                                        *)
(***************************************************************************)
Tiers == {"Basic", "Active", "Premium", "Council"}

\* The accounts, the configurations and what proposals call; the DAO does not
\* pay itself.
ASSUME PuzzleDaoAssumption ==
  /\ IsFiniteSet(OfPuzzleDao.Users) /\ Self \notin OfPuzzleDao.Users /\ None \notin Tiers
  /\ \A c \in OfPuzzleDao.Configs :
       /\ c.voting_delay \in Nat /\ c.voting_period \in Nat
       /\ c.quorum_percentage \in Nat /\ c.emergency_quorum_percentage \in Nat
  /\ None \notin OfPuzzleDao.Configs
  /\ OfPuzzleDao.Actions \subseteq [to : OfPuzzleDao.Users, amount : Nat]
  /\ OfPuzzleDao.Stakes \subseteq Nat /\ OfPuzzleDao.InitBalance \in Nat
  /\ OfPuzzleDao.MaxProposals \in Nat /\ OfPuzzleDao.ActionTtl \in Nat

Citizens == OfPuzzleDao.Users
DaoBallots ==
  [proposer : Citizens, call : OfPuzzleDao.Actions, emergency : BOOLEAN,
   status : {"Pending", "Active", "Executed", "Canceled"}, start_time : Nat, end_time : Nat,
   for_votes : Int, against_votes : Int, abstain_votes : Int, quorum : Int]
AdminAction ==
  [status : {"Pending", "Approved", "Executed"}, expires_at : Nat, signers : SUBSET Citizens]

StakeInv ==
  /\ bal \in [Citizens \cup {Self} -> Nat]
  /\ tier \in [Citizens -> Tiers \cup {None}] /\ stake \in [Citizens -> Nat]
  /\ delegatee \in [Citizens -> Citizens] /\ power \in [Citizens -> Int]
  /\ \A u \in Citizens : tier[u] = None => stake[u] = 0
  /\ bal[Self] = Total(stake) - Total(Payments(OfPuzzleDao.MaxProposals))

\* Who may sign is agreed on before there is something to sign.
SignedInv ==
  /\ action \in Seq(AdminAction)
  /\ multisig \in Nat \cup {None} /\ (action # <<>> => multisig \in Nat /\ multisig # None)
  /\ \A i \in 1 .. Len(action) :
       action[i].status \in {"Approved", "Executed"} => Cardinality(action[i].signers) >= multisig

\* A member belongs to a DAO that was initialized.
PuzzleDaoInv ==
  /\ config = None \/ config \in OfPuzzleDao.Configs
  /\ \A u \in Citizens : tier[u] # None => config # None
  /\ BallotInv(DaoBallots, OfPuzzleDao.MaxProposals)
  /\ StakeInv /\ SignedInv

LEMMA DaoBallotsTyped == Ballots(DaoBallots)
<1> SUFFICES ASSUME NEW r \in DaoBallots
             PROVE  /\ r.status \in {"Pending", "Active", "Executed", "Canceled"}
                    /\ r.start_time \in Nat /\ r.end_time \in Nat /\ r.call.amount \in Nat
  BY DEF Ballots
<1>1. r.call \in [to : OfPuzzleDao.Users, amount : Nat]
  BY PuzzleDaoAssumption DEF DaoBallots
<1> QED BY <1>1 DEF DaoBallots

\* Proposals and signatures when a step leaves them alone.
LEMMA DaoBallotsStay ==
  ASSUME PuzzleDaoInv, UNCHANGED proposal, now' \in {now, now + 1}
  PROVE  /\ BallotInv(DaoBallots, OfPuzzleDao.MaxProposals)'
         /\ Payments(OfPuzzleDao.MaxProposals)' = Payments(OfPuzzleDao.MaxProposals)
         /\ Decides(OfPuzzleDao.MaxProposals)
         /\ Total(Payments(OfPuzzleDao.MaxProposals)) \in Nat
<1> DEFINE M == OfPuzzleDao.MaxProposals
           S == DaoBallots
<1>1. Ballots(S) /\ M \in Nat /\ BallotInv(S, M)
  BY PuzzleDaoAssumption, DaoBallotsTyped DEF PuzzleDaoInv
<1> HIDE DEF S, M
<1>2. BallotInv(S, M)' /\ Payments(M)' = Payments(M) /\ Decides(M) /\ Total(Payments(M)) \in Nat
  BY <1>1, BallotsQuiet, PaymentsType
<1> QED BY <1>2 DEF S, M

LEMMA SignedStays == ASSUME SignedInv, UNCHANGED <<multisig, action>> PROVE SignedInv'
BY DEF SignedInv

\* The stake of m becomes n, what it grows by was paid in and what it shrinks by
\* is paid out.
LEMMA StakeChanged ==
  ASSUME PuzzleDaoInv, NEW m \in Citizens, NEW n \in Nat, NEW t \in Tiers \cup {None},
         stake' = [stake EXCEPT ![m] = n], tier' = [tier EXCEPT ![m] = t],
         t = None => n = 0, t # None => config # None,
         bal' \in [Citizens \cup {Self} -> Nat], bal'[Self] = bal[Self] + (n - stake[m]),
         power' \in [Citizens -> Int], delegatee' \in [Citizens -> Citizens],
         UNCHANGED <<now, config, proposal, multisig, action>>
  PROVE  PuzzleDaoInv' /\ Decides(OfPuzzleDao.MaxProposals)
<1> DEFINE M == OfPuzzleDao.MaxProposals
<1>1. /\ BallotInv(DaoBallots, M)' /\ Payments(M)' = Payments(M) /\ Decides(M)
      /\ Total(Payments(M)) \in Nat
  <2>1. UNCHANGED proposal /\ now' \in {now, now + 1}
    OBVIOUS
  <2> QED BY <2>1, DaoBallotsStay
<1>2. /\ stake \in [Citizens -> Nat] /\ IsFiniteSet(Citizens) /\ bal[Self] \in Nat
      /\ bal[Self] = Total(stake) - Total(Payments(M)) /\ tier \in [Citizens -> Tiers \cup {None}]
  BY PuzzleDaoAssumption DEF PuzzleDaoInv, StakeInv, Citizens
<1> DEFINE f == stake
           g == stake'
<1>3. /\ f \in [Citizens -> Nat] /\ g \in [Citizens -> Nat] /\ g[m] = n
      /\ \A v \in Citizens \ {m} : g[v] = f[v]
  BY <1>2
<1> HIDE DEF f, g
<1>4. Total(g) = Total(f) + (g[m] - f[m]) /\ Total(f) \in Nat /\ f[m] \in Nat
  BY <1>2, <1>3, TotalChange
<1>5. bal'[Self] = Total(g) - Total(Payments(M)')
  BY <1>1, <1>2, <1>3, <1>4 DEF f
<1>6. StakeInv'
  <2>1. stake' \in [Citizens -> Nat] /\ tier' \in [Citizens -> Tiers \cup {None}]
    BY <1>2
  <2>2. \A u \in Citizens : tier'[u] = None => stake'[u] = 0
    BY <1>2 DEF PuzzleDaoInv, StakeInv
  <2> QED BY <1>5, <2>1, <2>2 DEF g, StakeInv
<1>7. SignedInv'
  BY SignedStays DEF PuzzleDaoInv
<1>8. \A u \in Citizens : tier'[u] # None => config' # None
  BY <1>2 DEF PuzzleDaoInv
<1> QED BY <1>1, <1>6, <1>7, <1>8 DEF PuzzleDaoInv

LEMMA JoinKeeps ==
  ASSUME PuzzleDaoInv, NEW m \in Citizens, NEW n \in OfPuzzleDao.Stakes,
         PuzzleDao!JoinDao(m, n) \/ PuzzleDao!UpgradeMembership(m, n)
  PROVE  PuzzleDaoInv' /\ Decides(OfPuzzleDao.MaxProposals)
<1>1. /\ bal \in [Citizens \cup {Self} -> Nat] /\ stake \in [Citizens -> Nat] /\ stake[m] \in Nat
      /\ delegatee \in [Citizens -> Citizens] /\ power \in [Citizens -> Int]
      /\ n \in Nat /\ m # Self
  BY PuzzleDaoAssumption DEF PuzzleDaoInv, StakeInv, Citizens
<1>2. /\ UNCHANGED <<now, config, delegatee, proposal, multisig, action>>
      /\ Moves(m, Self, n) /\ config # None
      /\ PuzzleDao!Staked(m, stake[m] + n)
  <2>1. CASE PuzzleDao!JoinDao(m, n)
    <3>1. stake[m] = 0
      BY <2>1 DEF PuzzleDao!JoinDao, PuzzleDaoInv, StakeInv
    <3>2. stake[m] + n = n
      BY <1>1, <3>1
    <3> QED
      BY <2>1, <3>2 DEF PuzzleDao!JoinDao, PuzzleDao!Transfer, Moves, PuzzleDao!Staked,
                        PuzzleDao!ballots,
                  PuzzleDao!council
  <2>2. CASE PuzzleDao!UpgradeMembership(m, n)
    BY <2>2 DEF PuzzleDao!UpgradeMembership, PuzzleDao!Transfer, Moves, PuzzleDao!Staked,
                PuzzleDao!ballots, PuzzleDao!council, PuzzleDaoInv
  <2> QED BY <2>1, <2>2
<1> DEFINE k == stake[m] + n
           t == PuzzleDao!TierOf(k)
<1>3. k \in Nat /\ k - stake[m] = n
  BY <1>1
<1>4. t \in Tiers
  BY DEF PuzzleDao!TierOf, Tiers
<1>5. /\ stake' = [stake EXCEPT ![m] = k] /\ tier' = [tier EXCEPT ![m] = t]
      /\ power' = [power EXCEPT ![m] = k]
  BY <1>2 DEF PuzzleDao!Staked
<1>6. bal' \in [Citizens \cup {Self} -> Nat] /\ bal'[Self] = bal[Self] + n
  BY <1>1, <1>2, Moved
<1> HIDE DEF k, t
<1>7. power' \in [Citizens -> Int] /\ delegatee' \in [Citizens -> Citizens] /\ t # None
  BY <1>1, <1>2, <1>3, <1>4, <1>5, PuzzleDaoAssumption
<1> QED BY <1>2, <1>3, <1>4, <1>5, <1>6, <1>7, StakeChanged

LEMMA LeaveKeeps ==
  ASSUME PuzzleDaoInv, NEW m \in Citizens, PuzzleDao!LeaveDao(m)
  PROVE  PuzzleDaoInv' /\ Decides(OfPuzzleDao.MaxProposals)
<1>1. /\ bal \in [Citizens \cup {Self} -> Nat] /\ stake \in [Citizens -> Nat] /\ stake[m] \in Nat
      /\ delegatee \in [Citizens -> Citizens] /\ power \in [Citizens -> Int]
      /\ delegatee[m] \in Citizens /\ bal[Self] \in Nat /\ m # Self
  BY PuzzleDaoAssumption DEF PuzzleDaoInv, StakeInv, Citizens
<1>2. /\ UNCHANGED <<now, config, proposal, multisig, action>> /\ Moves(Self, m, stake[m])
      /\ stake' = [stake EXCEPT ![m] = 0] /\ tier' = [tier EXCEPT ![m] = None]
      /\ power' = [[power EXCEPT ![delegatee[m]] = @ - stake[m]] EXCEPT ![m] = 0]
      /\ delegatee' = [delegatee EXCEPT ![m] = m]
  BY DEF PuzzleDao!LeaveDao, PuzzleDao!Transfer, Moves, PuzzleDao!ballots, PuzzleDao!council
<1>3. power' \in [Citizens -> Int] /\ delegatee' \in [Citizens -> Citizens]
  <2>1. power[delegatee[m]] - stake[m] \in Int
    BY <1>1
  <2> QED BY <1>1, <1>2, <2>1
<1>4. bal' \in [Citizens \cup {Self} -> Nat] /\ bal'[Self] = bal[Self] + (0 - stake[m])
  <2>1. bal' \in [Citizens \cup {Self} -> Nat] /\ bal'[Self] = bal[Self] - stake[m]
    BY <1>1, <1>2, Moved
  <2> QED BY <1>1, <2>1
<1> QED BY <1>2, <1>3, <1>4, StakeChanged

LEMMA DaoDelegates ==
  ASSUME PuzzleDaoInv, NEW u \in Citizens, NEW to \in Citizens, PuzzleDao!Delegate(u, to)
  PROVE  PuzzleDaoInv' /\ Decides(OfPuzzleDao.MaxProposals)
<1> DEFINE o == delegatee[u]
           d == stake[u]
<1>1. /\ d \in Nat /\ o \in Citizens /\ delegatee \in [Citizens -> Citizens]
      /\ power \in [Citizens -> Int]
  BY DEF PuzzleDaoInv, StakeInv
<1>2. /\ o # to /\ UNCHANGED <<now, bal, config, tier, stake, proposal, multisig, action>>
      /\ power' = [[power EXCEPT ![o] = @ - d] EXCEPT ![to] = @ + d]
      /\ delegatee' = [delegatee EXCEPT ![u] = to]
  BY DEF PuzzleDao!Delegate, PuzzleDao!ballots, PuzzleDao!council
<1>3. power' \in [Citizens -> Int] /\ delegatee' \in [Citizens -> Citizens]
  <2>1. power[o] - d \in Int /\ power[to] + d \in Int
    BY <1>1
  <2> QED BY <1>1, <1>2, <2>1
<1>4. /\ BallotInv(DaoBallots, OfPuzzleDao.MaxProposals)'
      /\ Payments(OfPuzzleDao.MaxProposals)' = Payments(OfPuzzleDao.MaxProposals)
      /\ Decides(OfPuzzleDao.MaxProposals)
  <2>1. UNCHANGED proposal /\ now' \in {now, now + 1}
    BY <1>2
  <2> QED BY <2>1, DaoBallotsStay
<1>5. StakeInv'
  BY <1>2, <1>3, <1>4 DEF PuzzleDaoInv, StakeInv
<1>6. SignedInv'
  BY <1>2, SignedStays DEF PuzzleDaoInv
<1> QED BY <1>2, <1>4, <1>5, <1>6 DEF PuzzleDaoInv

\* A proposal is made, voted on or canceled: nothing is paid.
LEMMA DaoProposes ==
  ASSUME PuzzleDaoInv, NEW u \in Citizens, NEW emergency \in BOOLEAN,
         NEW call \in OfPuzzleDao.Actions, PuzzleDao!Propose(u, emergency, call)
  PROVE  PuzzleDaoInv' /\ Decides(OfPuzzleDao.MaxProposals)
<1> DEFINE M == OfPuzzleDao.MaxProposals
           S == DaoBallots
           start == now + config.voting_delay
           quorum == (PuzzleDao!Supply * PuzzleDao!QuorumPercentage(emergency)) \div 100
           r == [proposer |-> u, call |-> call, emergency |-> emergency, status |-> "Pending",
                 start_time |-> start, end_time |-> start + config.voting_period,
                 for_votes |-> 0, against_votes |-> 0, abstain_votes |-> 0, quorum |-> quorum]
<1>1. /\ tier[u] # None /\ Len(proposal) < M /\ proposal' = Append(proposal, r)
      /\ UNCHANGED <<now, bal, config, tier, stake, power, delegatee, multisig, action>>
  BY DEF PuzzleDao!Propose, PuzzleDao!members, PuzzleDao!council
<1>2. /\ now \in Nat /\ config.voting_delay \in Nat /\ config.voting_period \in Nat
      /\ PuzzleDao!QuorumPercentage(emergency) \in Nat
  BY <1>1, PuzzleDaoAssumption DEF PuzzleDaoInv, BallotInv, PuzzleDao!QuorumPercentage
<1>3. quorum \in Int
  <2>1. PuzzleDao!Cardinality(Citizens) = Cardinality(Citizens) /\ Cardinality(Citizens) \in Nat
    <3>1. PuzzleDao!Cardinality(Citizens) = Cardinality(Citizens)
      BY Zenon DEF PuzzleDao!Cardinality, Cardinality
    <3> QED BY <3>1, PuzzleDaoAssumption, FS_CardinalityType DEF Citizens
  <2>2. PuzzleDao!Supply \in Nat
    BY <2>1, PuzzleDaoAssumption, Multiplied DEF PuzzleDao!Supply, Citizens
  <2>3. PuzzleDao!Supply * PuzzleDao!QuorumPercentage(emergency) \in Nat
    BY <1>2, <2>2, Multiplied
  <2> QED BY <2>3
<1> HIDE DEF quorum
<1>4. start \in Nat /\ start + config.voting_period \in Nat /\ start <= start + config.voting_period
  BY <1>2
<1> HIDE DEF start
<1>5. r \in S /\ r.status = "Pending" /\ r.start_time <= r.end_time
  BY <1>3, <1>4 DEF DaoBallots
<1>6. BallotInv(S, M)' /\ Payments(M)' = Payments(M) /\ Decides(M)
  <2>1. Ballots(S) /\ M \in Nat /\ BallotInv(S, M)
    BY PuzzleDaoAssumption, DaoBallotsTyped DEF PuzzleDaoInv
  <2>2. now' = now
    BY <1>1
  <2> HIDE DEF S, M, r
  <2> QED BY <1>1, <1>5, <2>1, <2>2, BallotAdded
<1>7. StakeInv' /\ SignedInv'
  BY <1>1, <1>6, SignedStays DEF PuzzleDaoInv, StakeInv
<1> QED BY <1>1, <1>6, <1>7 DEF PuzzleDaoInv

\* One proposal changes: r is what becomes of it.
LEMMA DaoBallot ==
  ASSUME PuzzleDaoInv, NEW id \in 1 .. Len(proposal), NEW r \in DaoBallots,
         proposal' = [proposal EXCEPT ![id] = r],
         UNCHANGED <<now, config, tier, stake, power, delegatee, multisig, action>>,
         r.call = proposal[id].call, r.start_time = proposal[id].start_time,
         r.end_time = proposal[id].end_time, Timed(r),
         \/ r.status = proposal[id].status /\ UNCHANGED bal
         \/ /\ proposal[id].status \in {"Pending", "Active"} /\ r.status \in {"Active", "Canceled"}
            /\ UNCHANGED bal
         \/ /\ proposal[id].status \in {"Pending", "Active"} /\ r.status = "Executed"
            /\ PuzzleDao!Call(r.call)
  PROVE  PuzzleDaoInv' /\ Decides(OfPuzzleDao.MaxProposals)
<1> DEFINE M == OfPuzzleDao.MaxProposals
           S == DaoBallots
<1>1. Ballots(S) /\ M \in Nat /\ BallotInv(S, M)
  BY PuzzleDaoAssumption, DaoBallotsTyped DEF PuzzleDaoInv
<1>2. /\ BallotInv(S, M)'
      /\ Decides(M)
      /\ \/ r.status # "Executed" /\ Payments(M)' = Payments(M)
         \/ r.status = "Executed" /\ proposal[id].status = "Executed" /\ Payments(M)' = Payments(M)
         \/ /\ r.status = "Executed" /\ proposal[id].status # "Executed"
            /\ Total(Payments(M)') = Total(Payments(M)) + r.call.amount
  <2>1. now' = now /\ r \in S
    OBVIOUS
  <2> HIDE DEF S, M
  <2> QED BY <1>1, <2>1, BallotChanged
<1>3. Total(stake) \in Nat /\ Total(Payments(M)) \in Nat
  <2>1. IsFiniteSet(Citizens) /\ stake \in [Citizens -> Nat]
    BY PuzzleDaoAssumption DEF PuzzleDaoInv, StakeInv, Citizens
  <2> HIDE DEF S, M
  <2> QED BY <1>1, <2>1, UnitsFinite, PaymentsType
<1>6. SignedInv'
  BY SignedStays DEF PuzzleDaoInv
<1>4. CASE UNCHANGED bal /\ Payments(M)' = Payments(M)
  <2>1. StakeInv'
    BY <1>4 DEF PuzzleDaoInv, StakeInv
  <2> QED BY <1>2, <1>6, <2>1 DEF PuzzleDaoInv
<1>5. CASE /\ PuzzleDao!Call(r.call) /\ Total(Payments(M)') = Total(Payments(M)) + r.call.amount
  <2>1. r.call \in [to : Citizens, amount : Nat]
    BY PuzzleDaoAssumption DEF DaoBallots, Citizens
  <2>2. bal' \in [Citizens \cup {Self} -> Nat] /\ bal'[Self] = bal[Self] - r.call.amount
    <3>1. bal \in [Citizens \cup {Self} -> Nat] /\ bal[Self] \in Nat
      BY DEF PuzzleDaoInv, StakeInv
    <3>2. CASE r.call.amount > 0
      <4>1. Moves(Self, r.call.to, r.call.amount)
        BY <1>5, <3>2 DEF PuzzleDao!Call, PuzzleDao!Transfer, Moves
      <4>2. r.call.to \in Citizens \cup {Self} /\ r.call.to # Self /\ r.call.amount \in Nat
        BY <2>1, PuzzleDaoAssumption DEF Citizens
      <4> QED BY <3>1, <4>1, <4>2, Moved
    <3>3. CASE ~(r.call.amount > 0)
      BY <1>5, <2>1, <3>1, <3>3 DEF PuzzleDao!Call
    <3> QED BY <3>2, <3>3
  <2>3. r.call.amount \in Nat
    BY <2>1
  <2>4. StakeInv'
    BY <1>3, <1>5, <2>2, <2>3 DEF PuzzleDaoInv, StakeInv
  <2> QED BY <1>2, <1>6, <2>4 DEF PuzzleDaoInv
<1> QED BY <1>2, <1>4, <1>5

LEMMA DaoVotes ==
  ASSUME PuzzleDaoInv, NEW v \in Citizens, NEW id \in 1 .. Len(proposal),
         NEW type \in {"For", "Against", "Abstain"}, PuzzleDao!Vote(v, id, type)
  PROVE  PuzzleDaoInv' /\ Decides(OfPuzzleDao.MaxProposals)
<1> DEFINE o == proposal[id]
           t == PuzzleDao!Tally(o, type, power[v])
           r == [t EXCEPT !.status = IF @ = "Pending" THEN "Active" ELSE @]
<1>1. /\ o.start_time <= now /\ now <= o.end_time /\ proposal' = [proposal EXCEPT ![id] = r]
      /\ UNCHANGED <<now, bal, config, tier, stake, power, delegatee, multisig, action>>
  BY DEF PuzzleDao!Vote, PuzzleDao!members, PuzzleDao!council
<1>2. o \in DaoBallots /\ Timed(o) /\ power[v] \in Int /\ now \in Nat
  BY DEF PuzzleDaoInv, BallotInv, StakeInv
<1>3. /\ t \in DaoBallots /\ t.status = o.status /\ t.call = o.call
      /\ t.start_time = o.start_time /\ t.end_time = o.end_time
  <2> HIDE DEF o
  <2>1. o.for_votes + power[v] \in Int /\ o.against_votes + power[v] \in Int
          /\ o.abstain_votes + power[v] \in Int
    BY <1>2 DEF DaoBallots
  <2>2. t \in {[o EXCEPT !.for_votes = o.for_votes + power[v]],
               [o EXCEPT !.against_votes = o.against_votes + power[v]],
               [o EXCEPT !.abstain_votes = o.abstain_votes + power[v]]}
    BY DEF PuzzleDao!Tally
  <2> HIDE DEF t
  <2> QED BY <1>2, <2>1, <2>2 DEF DaoBallots
<1> HIDE DEF o, t
<1>4. /\ r \in DaoBallots /\ r.call = o.call
      /\ r.start_time = o.start_time /\ r.end_time = o.end_time
      /\ r.status = IF o.status = "Pending" THEN "Active" ELSE o.status
  BY <1>3 DEF DaoBallots
<1>5. Timed(r)
  BY <1>1, <1>2, <1>4 DEF Timed, DaoBallots
<1> HIDE DEF r
<1> QED BY <1>1, <1>4, <1>5, DaoBallot DEF o

LEMMA DaoCancels ==
  ASSUME PuzzleDaoInv, NEW id \in 1 .. Len(proposal), PuzzleDao!Cancel(id)
  PROVE  PuzzleDaoInv' /\ Decides(OfPuzzleDao.MaxProposals)
<1> DEFINE o == proposal[id]
           r == [o EXCEPT !.status = "Canceled"]
<1>1. /\ now < o.start_time /\ proposal' = [proposal EXCEPT ![id] = r]
      /\ UNCHANGED <<now, bal, config, tier, stake, power, delegatee, multisig, action>>
  BY DEF PuzzleDao!Cancel, PuzzleDao!members, PuzzleDao!council
<1>2. o \in DaoBallots /\ Timed(o) /\ now \in Nat
  BY DEF PuzzleDaoInv, BallotInv
<1> HIDE DEF o
<1>3. /\ r \in DaoBallots /\ r.call = o.call /\ r.status = "Canceled"
      /\ r.start_time = o.start_time /\ r.end_time = o.end_time
  BY <1>2 DEF DaoBallots
<1>4. Timed(r) /\ o.status \in {"Pending", "Canceled"}
  <2>1. /\ o.start_time \in Nat /\ o.end_time \in Nat
        /\ o.status \in {"Pending", "Active", "Executed", "Canceled"}
    BY <1>2 DEF DaoBallots
  <2> QED BY <1>1, <1>2, <1>3, <2>1 DEF Timed
<1> HIDE DEF r
<1> QED BY <1>1, <1>3, <1>4, DaoBallot DEF o

\* What an executed proposal pays is taken from the deposits.
LEMMA DaoExecutes ==
  ASSUME PuzzleDaoInv, NEW id \in 1 .. Len(proposal), PuzzleDao!Execute(id)
  PROVE  PuzzleDaoInv' /\ Decides(OfPuzzleDao.MaxProposals)
<1> DEFINE o == proposal[id]
           r == [o EXCEPT !.status = "Executed"]
<1>1. /\ now > o.end_time /\ o.status \notin {"Executed", "Canceled"} /\ PuzzleDao!Call(o.call)
      /\ proposal' = [proposal EXCEPT ![id] = r]
      /\ UNCHANGED <<now, config, tier, stake, power, delegatee, multisig, action>>
  BY DEF PuzzleDao!Execute, PuzzleDao!members, PuzzleDao!council
<1>2. o \in DaoBallots /\ Timed(o) /\ now \in Nat
  BY DEF PuzzleDaoInv, BallotInv
<1> HIDE DEF o
<1>3. /\ r \in DaoBallots /\ r.call = o.call /\ r.status = "Executed"
      /\ r.start_time = o.start_time /\ r.end_time = o.end_time
  BY <1>2 DEF DaoBallots
<1>4. Timed(r) /\ o.status \in {"Pending", "Active"}
  <2>1. /\ o.start_time \in Nat /\ o.end_time \in Nat
        /\ o.status \in {"Pending", "Active", "Executed", "Canceled"}
    BY <1>2 DEF DaoBallots
  <2> QED BY <1>1, <1>2, <1>3, <2>1 DEF Timed
<1>5. PuzzleDao!Call(r.call)
  BY <1>1, <1>3
<1> HIDE DEF r
<1> QED BY <1>1, <1>3, <1>4, <1>5, DaoBallot DEF o

\* The council's steps: an action is approved with enough signatures.
LEMMA CouncilSigns ==
  ASSUME PuzzleDaoInv,
         \/ \E n \in 1 .. OfPuzzleDao.MaxThreshold : PuzzleDao!InitializeMultisig(n)
         \/ \E u \in Citizens : PuzzleDao!ProposeAdminAction(u)
         \/ \E u \in Citizens, id \in DOMAIN action :
              PuzzleDao!SignAdminAction(u, id) \/ PuzzleDao!ExecuteAdminAction(u, id)
  PROVE  SignedInv'
<1>1. /\ action \in Seq(AdminAction) /\ DOMAIN action = 1 .. Len(action)
      /\ multisig \in Nat \cup {None} /\ (action # <<>> => multisig \in Nat /\ multisig # None)
      /\ now \in Nat /\ IsFiniteSet(Citizens)
  BY PuzzleDaoAssumption DEF PuzzleDaoInv, SignedInv, BallotInv, Citizens
<1>2. ASSUME NEW n \in 1 .. OfPuzzleDao.MaxThreshold, PuzzleDao!InitializeMultisig(n)
      PROVE  SignedInv'
  <2>1. action = <<>> /\ action' = action /\ multisig' \in Nat
    BY <1>1, <1>2 DEF PuzzleDao!InitializeMultisig
  <2> QED BY <1>1, <2>1 DEF SignedInv
<1>3. ASSUME NEW u \in Citizens, PuzzleDao!ProposeAdminAction(u)
      PROVE  SignedInv'
  <2> DEFINE r == [status |-> "Pending", expires_at |-> now + OfPuzzleDao.ActionTtl,
                   signers |-> {u}]
  <2>1. multisig # None /\ multisig' = multisig /\ action' = Append(action, r)
    BY <1>3 DEF PuzzleDao!ProposeAdminAction
  <2>2. r \in AdminAction /\ r.status = "Pending"
    BY <1>1, PuzzleDaoAssumption DEF AdminAction
  <2> HIDE DEF r
  <2>3. /\ action' \in Seq(AdminAction) /\ Len(action') = Len(action) + 1
             /\ action'[Len(action) + 1] = r
        /\ \A i \in 1 .. Len(action) : action'[i] = action[i]
    BY <1>1, <2>1, <2>2
  <2>4. multisig \in Nat
    BY <1>1, <2>1 DEF PuzzleDaoInv, SignedInv
  <2> QED BY <1>1, <2>1, <2>2, <2>3, <2>4 DEF PuzzleDaoInv, SignedInv
<1>4. ASSUME NEW u \in Citizens, NEW id \in 1 .. Len(action),
             PuzzleDao!SignAdminAction(u, id) \/ PuzzleDao!ExecuteAdminAction(u, id)
      PROVE  SignedInv'
  <2> DEFINE o == action[id]
             signers == o.signers \cup {u}
             s == [o EXCEPT !.signers = signers,
                     !.status = IF Cardinality(signers) >= multisig THEN "Approved" ELSE @]
             e == [o EXCEPT !.status = "Executed"]
  <2>1. o \in AdminAction /\ multisig \in Nat /\ multisig # None /\ action # <<>>
    BY <1>1
  <2>2. PICK r \in AdminAction :
          /\ action' = [action EXCEPT ![id] = r] /\ multisig' = multisig
          /\ r.status \in {"Approved", "Executed"} => Cardinality(r.signers) >= multisig
    <3>1. CASE PuzzleDao!SignAdminAction(u, id)
      <4>1. PuzzleDao!Cardinality(signers) = Cardinality(signers)
        BY Zenon DEF PuzzleDao!Cardinality, Cardinality
      <4>2. action' = [action EXCEPT ![id] = s] /\ multisig' = multisig /\ o.status = "Pending"
        <5> DEFINE T == action[id].signers \cup {u}
                   x == IF PuzzleDao!Cardinality(T) >= multisig THEN "Approved" ELSE "Pending"
                   y == IF Cardinality(T) >= multisig THEN "Approved" ELSE "Pending"
                   z == [action[id] EXCEPT !.signers = T,
                     !.status = IF PuzzleDao!Cardinality(T) >= multisig THEN "Approved" ELSE @]
        <5>1. action' = [action EXCEPT ![id] = z] /\ multisig' = multisig
                /\ action[id].status = "Pending"
          BY <3>1 DEF PuzzleDao!SignAdminAction
        <5>2. x = y
          BY <4>1
        <5> HIDE DEF T
        <5>3. z = [action[id] EXCEPT !.signers = T, !.status = x]
          BY <5>1
        <5>4. s = [action[id] EXCEPT !.signers = T, !.status = y]
          BY <5>1 DEF T
        <5> HIDE DEF s, x, y, z
        <5> QED BY <5>1, <5>2, <5>3, <5>4 DEF o
      <4> HIDE DEF o
      <4>3. /\ s \in AdminAction /\ s.signers = signers
            /\ s.status = IF Cardinality(signers) >= multisig THEN "Approved" ELSE "Pending"
        BY <2>1, <4>2 DEF AdminAction
      <4> HIDE DEF s
      <4> QED BY <4>2, <4>3
    <3>2. CASE PuzzleDao!ExecuteAdminAction(u, id)
      <4>1. action' = [action EXCEPT ![id] = e] /\ multisig' = multisig /\ o.status = "Approved"
        BY <1>1, <3>2 DEF PuzzleDao!ExecuteAdminAction
      <4>2. Cardinality(o.signers) >= multisig
        BY <4>1 DEF PuzzleDaoInv, SignedInv
      <4> HIDE DEF o
      <4>3. e \in AdminAction /\ e.signers = o.signers
        BY <2>1 DEF AdminAction
      <4> HIDE DEF e
      <4> QED BY <4>1, <4>2, <4>3
    <3> QED BY <1>4, <3>1, <3>2
  <2>3. /\ action' \in Seq(AdminAction) /\ Len(action') = Len(action) /\ action'[id] = r
        /\ \A i \in 1 .. Len(action) : i # id => action'[i] = action[i]
    BY <1>1, <2>2
  <2> QED BY <2>1, <2>2, <2>3 DEF PuzzleDaoInv, SignedInv
<1> QED BY <1>1, <1>2, <1>3, <1>4

\* What leaves the stakes and the proposals alone.
LEMMA DaoQuiet ==
  ASSUME PuzzleDaoInv, UNCHANGED <<bal, tier, stake, power, delegatee, proposal>>,
         now' \in {now, now + 1}, config' = config \/ config' \in OfPuzzleDao.Configs, SignedInv'
  PROVE  PuzzleDaoInv' /\ Decides(OfPuzzleDao.MaxProposals)
<1>1. /\ BallotInv(DaoBallots, OfPuzzleDao.MaxProposals)'
      /\ Payments(OfPuzzleDao.MaxProposals)' = Payments(OfPuzzleDao.MaxProposals)
      /\ Decides(OfPuzzleDao.MaxProposals)
  <2>1. UNCHANGED proposal
    OBVIOUS
  <2> QED BY <2>1, DaoBallotsStay
<1>2. StakeInv'
  BY <1>1 DEF PuzzleDaoInv, StakeInv
<1> QED BY <1>1, <1>2, PuzzleDaoAssumption DEF PuzzleDaoInv

LEMMA PuzzleDaoStep ==
  ASSUME PuzzleDaoInv, PuzzleDao!Next \/ UNCHANGED PuzzleDao!vars
  PROVE  PuzzleDaoInv' /\ Decides(OfPuzzleDao.MaxProposals)
<1> DEFINE Stays == /\ UNCHANGED <<bal, tier, stake, power, delegatee, proposal>>
                    /\ now' \in {now, now + 1}
                    /\ config' = config \/ config' \in OfPuzzleDao.Configs
           G == PuzzleDaoInv' /\ Decides(OfPuzzleDao.MaxProposals)
<1>1. DOMAIN proposal = 1 .. Len(proposal) /\ SignedInv
  BY DEF PuzzleDaoInv, BallotInv
<1>2. ASSUME NEW c \in OfPuzzleDao.Configs, PuzzleDao!Initialize(c) PROVE Stays /\ SignedInv'
  BY <1>1, <1>2, SignedStays
  DEF PuzzleDao!Initialize, PuzzleDao!members, PuzzleDao!ballots, PuzzleDao!council
<1>3. ASSUME \/ \E n \in 1 .. OfPuzzleDao.MaxThreshold : PuzzleDao!InitializeMultisig(n)
             \/ \E u \in Citizens : PuzzleDao!ProposeAdminAction(u)
             \/ \E u \in Citizens, id \in DOMAIN action :
                  PuzzleDao!SignAdminAction(u, id) \/ PuzzleDao!ExecuteAdminAction(u, id)
      PROVE  Stays /\ SignedInv'
  <2>1. Stays
    BY <1>3 DEF PuzzleDao!InitializeMultisig, PuzzleDao!ProposeAdminAction,
                PuzzleDao!SignAdminAction,
                PuzzleDao!ExecuteAdminAction, PuzzleDao!members, PuzzleDao!ballots
  <2> QED BY <1>3, <2>1, CouncilSigns
<1>4. ASSUME PuzzleDao!Tick \/ UNCHANGED PuzzleDao!vars PROVE Stays /\ SignedInv'
  BY <1>1, <1>4, SignedStays
  DEF PuzzleDao!Tick, PuzzleDao!vars, PuzzleDao!members, PuzzleDao!ballots, PuzzleDao!council
<1>5. ASSUME Stays, SignedInv' PROVE G
  BY <1>5, DaoQuiet
<1>6. ASSUME NEW u \in Citizens,
             \/ \E n \in OfPuzzleDao.Stakes :
                   PuzzleDao!JoinDao(u, n) \/ PuzzleDao!UpgradeMembership(u, n)
             \/ PuzzleDao!LeaveDao(u)
             \/ \E v \in Citizens : PuzzleDao!Delegate(u, v)
             \/ \E emergency \in BOOLEAN, c \in OfPuzzleDao.Actions :
                   PuzzleDao!Propose(u, emergency, c)
      PROVE  G
  BY <1>6, JoinKeeps, LeaveKeeps, DaoDelegates, DaoProposes
<1>7. ASSUME NEW id \in 1 .. Len(proposal),
             \/ \E u \in Citizens, type \in {"For", "Against", "Abstain"} :
                   PuzzleDao!Vote(u, id, type)
             \/ PuzzleDao!Execute(id) \/ PuzzleDao!Cancel(id)
      PROVE  G
  BY <1>7, DaoVotes, DaoExecutes, DaoCancels
<1> HIDE DEF Stays, G
<1> QED BY <1>1, <1>2, <1>3, <1>4, <1>5, <1>6, <1>7 DEF PuzzleDao!Next, Citizens, G

LEMMA PuzzleDaoInit == ASSUME PuzzleDao!Init PROVE PuzzleDaoInv /\ PuzzleDao!D!Init
<1> DEFINE M == OfPuzzleDao.MaxProposals
           S == DaoBallots
<1>1. /\ now = 0 /\ config = None /\ proposal = <<>> /\ action = <<>> /\ bal[Self] = 0
      /\ bal \in [Citizens \cup {Self} -> Nat]
  BY PuzzleDaoAssumption DEF PuzzleDao!Init, Citizens
<1>2. /\ stake \in [Citizens -> Nat] /\ delegatee \in [Citizens -> Citizens]
      /\ power \in [Citizens -> Int] /\ tier \in [Citizens -> Tiers \cup {None}]
      /\ \A u \in Citizens : stake[u] = 0 /\ tier[u] = None
  BY DEF PuzzleDao!Init, Citizens
<1>3. BallotInv(S, M)
  <2>1. Len(proposal) = 0 /\ proposal \in Seq(S) /\ M \in Nat
    BY <1>1, PuzzleDaoAssumption
  <2> HIDE DEF M
  <2> QED BY <1>1, <2>1 DEF BallotInv
<1>4. Total(stake) = 0
  BY <1>2, TotalZero
<1>5. Total(Payments(M)) = 0
  <2> DEFINE f == Payments(M)
             I == 1 .. M
  <2>1. f \in [I -> Nat] /\ \A i \in I : f[i] = 0
    BY <1>1 DEF Payments
  <2> HIDE DEF f, I
  <2> QED BY <2>1, TotalZero DEF f
<1>6. SignedInv
  BY <1>1, PuzzleDaoAssumption DEF SignedInv, PuzzleDao!Init
<1>7. PuzzleDaoInv
  BY <1>1, <1>2, <1>3, <1>4, <1>5, <1>6 DEF PuzzleDaoInv, StakeInv
<1>8. PuzzleDao!D!Init
  BY <1>1 DEF PuzzleDao!D!Init
<1> QED BY <1>7, <1>8

LEMMA PuzzleDaoSays == ASSUME PuzzleDaoInv PROVE PuzzleDao!StakesAndSignatures
<1> DEFINE M == OfPuzzleDao.MaxProposals
           S == DaoBallots
           paid == {i \in DOMAIN proposal : proposal[i].status = "Executed"}
           f == [i \in paid |-> proposal[i].call.amount]
<1>1. Total(f) = Total(Payments(M))
  <2>1. Ballots(S) /\ M \in Nat /\ BallotInv(S, M)
    BY PuzzleDaoAssumption, DaoBallotsTyped DEF PuzzleDaoInv
  <2> HIDE DEF S, M
  <2> QED BY <2>1, PaidTotal
<1>2. \A g : PuzzleDao!Total(g) = Total(g)
  BY Zenon DEF PuzzleDao!Total, Total, PuzzleDao!Units, Units, PuzzleDao!Cardinality, Cardinality
<1>3. \A T : PuzzleDao!Cardinality(T) = Cardinality(T)
  BY Zenon DEF PuzzleDao!Cardinality, Cardinality
<1>4. bal[Self] = Total(stake) - Total(f)
  BY <1>1 DEF PuzzleDaoInv, StakeInv
<1> HIDE DEF f
<1>5. bal[Self] = PuzzleDao!Total(stake) - PuzzleDao!Total(f)
  BY <1>2, <1>4
<1>6. DOMAIN action = 1 .. Len(action)
  BY DEF PuzzleDaoInv, SignedInv
<1>7. \A i \in DOMAIN action :
        action[i].status \in {"Approved", "Executed"}
          => PuzzleDao!Cardinality(action[i].signers) >= multisig
  BY <1>3, <1>6 DEF PuzzleDaoInv, SignedInv
<1> QED BY <1>5, <1>7 DEF f, PuzzleDao!StakesAndSignatures

LEMMA PuzzleDaoDecides ==
  ASSUME PuzzleDaoInv, PuzzleDaoInv', Decides(OfPuzzleDao.MaxProposals)
  PROVE  PuzzleDao!D!Step
<1> DEFINE M == OfPuzzleDao.MaxProposals
           s == [id \in 1 .. M |-> IF id \in DOMAIN proposal THEN proposal[id].status ELSE "none"]
<1>1. s = States(M) /\ s' = States(M)'
  BY DEF PuzzleDaoInv, BallotInv, States
<1>2. \/ s' = s
      \/ \E i \in 1 .. M, x \in {"Pending", "Active", "Executed", "Canceled"} :
           s[i] \in {"none", "Pending", "Active"} /\ s' = [s EXCEPT ![i] = x]
  BY <1>1 DEF Decides
<1> HIDE DEF M
<1> QED
  BY <1>2
  DEF M, PuzzleDao!D!Step, PuzzleDao!D!Next, PuzzleDao!D!Proceed, PuzzleDao!D!Decide,
      PuzzleDao!D!Becomes

-----------------------------------------------------------------------------
(***************************************************************************)
(* Proofs: flash loans.                                                    *)
(***************************************************************************)
\* Lenders are not the contract, and fees are numbers.
ASSUME FlashLoanAssumption ==
  /\ IsFiniteSet(OfFlashLoan.Users) /\ Self \notin OfFlashLoan.Users /\ Self # OfFlashLoan.Admin
  /\ OfFlashLoan.Fees \subseteq Nat /\ OfFlashLoan.BASIS_POINTS \in Nat \ {0}
  /\ OfFlashLoan.Amounts \subseteq Nat /\ OfFlashLoan.Extras \subseteq Nat
  /\ OfFlashLoan.InitBalance \in Nat /\ OfFlashLoan.Ratios \subseteq Nat
  /\ None \notin [total_liquidity : Int, available_liquidity : Int, total_borrowed : {0},
                  fees_collected : Nat, lenders : SUBSET OfFlashLoan.Users]

Lenders == OfFlashLoan.Users
LenderAccounts == Lenders \cup {OfFlashLoan.Admin, Self}
LoanPool ==
  [total_liquidity : Int, available_liquidity : Int, total_borrowed : {0},
   fees_collected : Nat, lenders : SUBSET Lenders]
LoanConfig == [fee_bps : Nat, max_loan_ratio : Nat, paused : BOOLEAN]
LoanRecord == [borrower : Lenders, principal : Nat, fee : Nat, status : {"Repaid"}]
LoanTotals ==
  [total_loans : Nat, total_volume_borrowed : Nat, total_fees_collected : Nat, total_repaid : Nat]
Repaid == [i \in DOMAIN record |-> record[i].principal + record[i].fee]

\* The liquidity of a pool that is p, when the contract has earned fees.
PoolAccounts(p, earned) ==
  p.available_liquidity = p.total_liquidity + 2 * earned - p.fees_collected

FlashLoanInv ==
  /\ bal \in [LenderAccounts -> Nat] /\ position \in [Lenders -> Nat]
  /\ record \in Seq(LoanRecord) /\ analytics \in LoanTotals
  /\ config # None => config \in LoanConfig
  /\ pool \in LoanPool \cup {None}
  /\ pool = None => analytics.total_fees_collected = 0 /\ bal[Self] >= Total(position)
  /\ pool # None => /\ PoolAccounts(pool, analytics.total_fees_collected)
                    /\ bal[Self] >= Total(position) + pool.fees_collected
  /\ analytics.total_repaid = Total(Repaid)

\* What every step but a loan leaves alone.
LEMMA LoansStay ==
  ASSUME FlashLoanInv, UNCHANGED <<record, analytics>>
  PROVE  /\ record' \in Seq(LoanRecord) /\ analytics' \in LoanTotals
         /\ analytics'.total_repaid = Total(Repaid')
BY DEF FlashLoanInv, Repaid

\* A deposit or a withdrawal of u: the position and the pool change by as much
\* as the balance.
LEMMA PositionChanged ==
  ASSUME FlashLoanInv, NEW u \in Lenders, NEW n \in Nat, NEW p \in LoanPool,
         bal' \in [LenderAccounts -> Nat], position' = [position EXCEPT ![u] = n],
         pool' = p, PoolAccounts(p, analytics.total_fees_collected),
         bal'[Self] + position[u] >= bal[Self] + n,
         p.fees_collected = IF pool = None THEN 0 ELSE pool.fees_collected,
         UNCHANGED config, UNCHANGED <<record, analytics>>
  PROVE  FlashLoanInv'
<1> DEFINE f == position
           g == position'
<1>1. f \in [Lenders -> Nat] /\ IsFiniteSet(Lenders) /\ bal[Self] \in Nat /\ bal'[Self] \in Nat
  BY FlashLoanAssumption DEF FlashLoanInv, Lenders, LenderAccounts
<1>2. g \in [Lenders -> Nat] /\ g[u] = n /\ \A v \in Lenders \ {u} : g[v] = f[v]
  BY <1>1
<1> HIDE DEF f, g
<1>3. Total(g) = Total(f) + (g[u] - f[u]) /\ Total(f) \in Nat /\ f[u] \in Nat /\ Total(g) \in Nat
  BY <1>1, <1>2, TotalChange
<1>4. p.fees_collected \in Nat /\ p # None
  BY FlashLoanAssumption DEF LoanPool, Lenders
<1>5. bal[Self] >= Total(f) + p.fees_collected
  BY <1>1, <1>3 DEF FlashLoanInv, f
<1>6. bal'[Self] >= Total(g) + p.fees_collected
  BY <1>1, <1>2, <1>3, <1>4, <1>5 DEF f
<1>7. /\ record' \in Seq(LoanRecord) /\ analytics' \in LoanTotals
      /\ analytics'.total_repaid = Total(Repaid') /\ analytics' = analytics
  BY LoansStay
<1>8. config' # None => config' \in LoanConfig
  BY DEF FlashLoanInv
<1> QED BY <1>2, <1>4, <1>6, <1>7, <1>8 DEF g, FlashLoanInv

LEMMA LiquidityAdded ==
  ASSUME FlashLoanInv, NEW u \in Lenders, NEW n \in OfFlashLoan.Amounts,
         FlashLoan!AddLiquidity(u, n)
  PROVE  FlashLoanInv'
<1> DEFINE o == FlashLoan!GetOrCreatePool
           p == [o EXCEPT !.total_liquidity = @ + n, !.available_liquidity = @ + n,
                          !.lenders = @ \cup {u}]
<1>1. /\ Moves(u, Self, n) /\ pool' = p /\ position' = [position EXCEPT ![u] = n]
      /\ UNCHANGED config /\ UNCHANGED <<record, analytics>>
  BY DEF FlashLoan!AddLiquidity, FlashLoan!Transfer, Moves
<1>2. /\ n \in Nat /\ u # Self /\ u \in LenderAccounts /\ Self \in LenderAccounts
      /\ bal \in [LenderAccounts -> Nat] /\ position[u] \in Nat
      /\ analytics.total_fees_collected \in Nat /\ bal[Self] \in Nat
  BY FlashLoanAssumption DEF FlashLoanInv, Lenders, LenderAccounts, LoanTotals
<1>3. /\ o \in LoanPool /\ PoolAccounts(o, analytics.total_fees_collected)
      /\ o.fees_collected = IF pool = None THEN 0 ELSE pool.fees_collected
  BY DEF FlashLoan!GetOrCreatePool, FlashLoanInv, LoanPool, PoolAccounts
<1>4. bal' \in [LenderAccounts -> Nat] /\ bal'[Self] = bal[Self] + n
  BY <1>1, <1>2, Moved
<1> HIDE DEF o
<1>A. /\ o.total_liquidity \in Int /\ o.available_liquidity \in Int /\ o.fees_collected \in Nat
      /\ o.lenders \cup {u} \in SUBSET Lenders
  BY <1>3 DEF LoanPool
<1>5. /\ p \in LoanPool /\ p.fees_collected = o.fees_collected
      /\ p.total_liquidity = o.total_liquidity + n
      /\ p.available_liquidity = o.available_liquidity + n
  <2>1. o.total_liquidity + n \in Int /\ o.available_liquidity + n \in Int
    BY <1>2, <1>A
  <2> QED BY <1>3, <1>A, <2>1 DEF LoanPool
<1> HIDE DEF p
<1>6. PoolAccounts(p, analytics.total_fees_collected)
  BY <1>2, <1>3, <1>A, <1>5 DEF PoolAccounts
<1>7. bal'[Self] + position[u] >= bal[Self] + n
  BY <1>2, <1>4
<1> QED BY <1>1, <1>2, <1>3, <1>4, <1>5, <1>6, <1>7, PositionChanged

LEMMA LiquidityRemoved ==
  ASSUME FlashLoanInv, NEW u \in Lenders, NEW n \in OfFlashLoan.Amounts,
         FlashLoan!RemoveLiquidity(u, n)
  PROVE  FlashLoanInv'
<1> DEFINE p == [pool EXCEPT !.total_liquidity = @ - n, !.available_liquidity = @ - n]
           k == position[u] - n
<1>1. /\ Moves(Self, u, n) /\ pool' = p /\ position' = [position EXCEPT ![u] = k]
      /\ pool # None /\ position[u] >= n
      /\ UNCHANGED config /\ UNCHANGED <<record, analytics>>
  BY DEF FlashLoan!RemoveLiquidity, FlashLoan!Transfer, Moves
<1>2. /\ n \in Nat /\ u # Self /\ u \in LenderAccounts /\ Self \in LenderAccounts
      /\ bal \in [LenderAccounts -> Nat] /\ position[u] \in Nat
      /\ analytics.total_fees_collected \in Nat /\ bal[Self] \in Nat
  BY FlashLoanAssumption DEF FlashLoanInv, Lenders, LenderAccounts, LoanTotals
<1>3. pool \in LoanPool /\ PoolAccounts(pool, analytics.total_fees_collected)
  BY <1>1 DEF FlashLoanInv
<1>4. bal' \in [LenderAccounts -> Nat] /\ bal'[Self] = bal[Self] - n
  BY <1>1, <1>2, Moved
<1>A. /\ pool.total_liquidity \in Int /\ pool.available_liquidity \in Int
      /\ pool.fees_collected \in Nat
  BY <1>3 DEF LoanPool
<1>5. /\ p \in LoanPool /\ p.fees_collected = pool.fees_collected
      /\ p.total_liquidity = pool.total_liquidity - n
      /\ p.available_liquidity = pool.available_liquidity - n
  <2>1. pool.total_liquidity - n \in Int /\ pool.available_liquidity - n \in Int
    BY <1>2, <1>A
  <2> QED BY <1>3, <2>1 DEF LoanPool
<1> HIDE DEF p
<1>6. PoolAccounts(p, analytics.total_fees_collected)
  BY <1>2, <1>3, <1>A, <1>5 DEF PoolAccounts
<1>7. k \in Nat /\ bal'[Self] + position[u] >= bal[Self] + k
  BY <1>1, <1>2, <1>4
<1> HIDE DEF k
<1> QED BY <1>1, <1>4, <1>5, <1>6, <1>7, PositionChanged

LEMMA FeesWithdrawn ==
  ASSUME FlashLoanInv, NEW n \in OfFlashLoan.Amounts, FlashLoan!WithdrawFees(n)
  PROVE  FlashLoanInv'
<1> DEFINE p == [pool EXCEPT !.fees_collected = @ - n, !.total_liquidity = @ - n]
           a == OfFlashLoan.Admin
<1>1. /\ Moves(Self, a, n) /\ pool' = p /\ pool # None /\ pool.fees_collected >= n
      /\ UNCHANGED <<config, position>> /\ UNCHANGED <<record, analytics>>
  BY DEF FlashLoan!WithdrawFees, FlashLoan!Transfer, Moves
<1>2. /\ n \in Nat /\ a # Self /\ a \in LenderAccounts /\ Self \in LenderAccounts
      /\ bal \in [LenderAccounts -> Nat]
      /\ analytics.total_fees_collected \in Nat /\ bal[Self] \in Nat
  BY FlashLoanAssumption DEF FlashLoanInv, Lenders, LenderAccounts, LoanTotals
<1>3. /\ pool \in LoanPool /\ PoolAccounts(pool, analytics.total_fees_collected)
      /\ bal[Self] >= Total(position) + pool.fees_collected
  BY <1>1 DEF FlashLoanInv
<1>4. bal' \in [LenderAccounts -> Nat] /\ bal'[Self] = bal[Self] - n
  BY <1>1, <1>2, Moved
<1>A. /\ pool.total_liquidity \in Int /\ pool.available_liquidity \in Int
      /\ pool.fees_collected \in Nat
  BY <1>3 DEF LoanPool
<1>5. /\ p \in LoanPool /\ p.fees_collected = pool.fees_collected - n
      /\ p.total_liquidity = pool.total_liquidity - n
      /\ p.available_liquidity = pool.available_liquidity
  <2>1. pool.total_liquidity - n \in Int /\ pool.fees_collected - n \in Nat
    BY <1>1, <1>2, <1>A
  <2> QED BY <1>3, <2>1 DEF LoanPool
<1> HIDE DEF p
<1>6. PoolAccounts(p, analytics.total_fees_collected) /\ p # None
  <2>1. PoolAccounts(p, analytics.total_fees_collected)
    BY <1>2, <1>3, <1>A, <1>5 DEF PoolAccounts
  <2> QED BY <2>1, <1>5, FlashLoanAssumption DEF LoanPool, Lenders
<1>7. Total(position) \in Nat
  BY FlashLoanAssumption, UnitsFinite DEF FlashLoanInv, Lenders
<1>8. bal'[Self] >= Total(position) + p.fees_collected
  BY <1>2, <1>3, <1>A, <1>4, <1>5, <1>7
<1>9. /\ record' \in Seq(LoanRecord) /\ analytics' \in LoanTotals
      /\ analytics'.total_repaid = Total(Repaid')
  BY <1>1, LoansStay
<1> QED BY <1>1, <1>4, <1>5, <1>6, <1>8, <1>9 DEF FlashLoanInv

\* A loan is repaid with its fee and more.
LEMMA LoanTaken ==
  ASSUME FlashLoanInv, NEW u \in Lenders, NEW n \in OfFlashLoan.Amounts,
         NEW extra \in OfFlashLoan.Extras, FlashLoan!TakeFlashLoan(u, n, extra)
  PROVE  FlashLoanInv'
<1> DEFINE fee == FlashLoan!CalculateFee(n)
           p == [pool EXCEPT !.available_liquidity = @ + fee, !.fees_collected = @ + fee]
           r == [borrower |-> u, principal |-> n, fee |-> fee, status |-> "Repaid"]
           k == Len(record)
<1>1. /\ config # None /\ pool # None /\ Moves(u, Self, fee + extra) /\ pool' = p
      /\ record' = Append(record, r) /\ UNCHANGED <<config, position>>
      /\ analytics' = [total_loans |-> analytics.total_loans + 1,
                total_volume_borrowed |-> analytics.total_volume_borrowed + n,
                total_fees_collected |-> analytics.total_fees_collected + fee,
                total_repaid |-> analytics.total_repaid + n + fee]
  BY DEF FlashLoan!TakeFlashLoan, FlashLoan!Transfer, FlashLoan!UpdateAnalytics, Moves
<1>2. /\ n \in Nat /\ extra \in Nat /\ u # Self /\ u \in LenderAccounts /\ Self \in LenderAccounts
      /\ bal \in [LenderAccounts -> Nat] /\ bal[Self] \in Nat /\ config.fee_bps \in Nat
      /\ k \in Nat
  BY <1>1, FlashLoanAssumption DEF FlashLoanInv, Lenders, LenderAccounts, LoanConfig
<1>3. fee \in Nat
  <2>1. n * config.fee_bps \in Nat
    BY <1>2, Multiplied
  <2> QED BY <2>1, FlashLoanAssumption, Divided DEF FlashLoan!CalculateFee
<1> HIDE DEF fee
<1>4. bal' \in [LenderAccounts -> Nat] /\ bal'[Self] = bal[Self] + (fee + extra)
  <2>1. fee + extra \in Nat
    BY <1>2, <1>3
  <2> QED BY <1>1, <1>2, <2>1, Moved
<1>5. /\ pool \in LoanPool /\ PoolAccounts(pool, analytics.total_fees_collected)
      /\ bal[Self] >= Total(position) + pool.fees_collected
  BY <1>1 DEF FlashLoanInv
<1>A. /\ pool.total_liquidity \in Int /\ pool.available_liquidity \in Int
      /\ pool.fees_collected \in Nat
  BY <1>5 DEF LoanPool
<1>6. /\ p \in LoanPool /\ p.fees_collected = pool.fees_collected + fee
      /\ p.total_liquidity = pool.total_liquidity
      /\ p.available_liquidity = pool.available_liquidity + fee
  <2>1. pool.available_liquidity + fee \in Int /\ pool.fees_collected + fee \in Nat
    BY <1>3, <1>A
  <2> QED BY <1>5, <2>1 DEF LoanPool
<1> HIDE DEF p
<1>7. /\ analytics.total_loans \in Nat /\ analytics.total_volume_borrowed \in Nat
      /\ analytics.total_fees_collected \in Nat /\ analytics.total_repaid \in Nat
  BY DEF FlashLoanInv, LoanTotals
<1>8. /\ analytics' \in LoanTotals
      /\ analytics'.total_fees_collected = analytics.total_fees_collected + fee
      /\ analytics'.total_repaid = analytics.total_repaid + n + fee
  <2>1. /\ analytics.total_loans + 1 \in Nat /\ analytics.total_volume_borrowed + n \in Nat
        /\ analytics.total_fees_collected + fee \in Nat /\ analytics.total_repaid + n + fee \in Nat
    <3>1. \A x, y, z \in Nat : x + y \in Nat /\ x + y + z \in Nat
      OBVIOUS
    <3>2. n \in Nat /\ 1 \in Nat
      BY <1>2
    <3> HIDE DEF r, k
    <3> QED BY <1>3, <1>7, <3>1, <3>2
  <2> QED BY <1>1, <2>1 DEF LoanTotals
<1>9. PoolAccounts(p, analytics'.total_fees_collected) /\ p # None
  <2>1. PoolAccounts(p, analytics'.total_fees_collected)
    BY <1>3, <1>A, <1>5, <1>6, <1>7, <1>8 DEF PoolAccounts
  <2> QED BY <2>1, <1>6, FlashLoanAssumption DEF LoanPool, Lenders
<1>10. Total(position) \in Nat
  BY FlashLoanAssumption, UnitsFinite DEF FlashLoanInv, Lenders
<1>11. bal'[Self] >= Total(position) + p.fees_collected
  <2>1. \A b, t, c \in Nat : b >= t + c => b + (fee + extra) >= t + (c + fee)
    BY <1>2, <1>3
  <2>2. bal[Self] \in Nat
    BY <1>2
  <2> HIDE DEF r, k
  <2> QED BY <1>A, <1>4, <1>5, <1>6, <1>10, <2>1, <2>2
<1>12. r \in LoanRecord
  BY <1>2, <1>3 DEF LoanRecord
<1>13. /\ record \in Seq(LoanRecord) /\ record' \in Seq(LoanRecord) /\ Len(record') = k + 1
       /\ record'[k + 1] = r /\ \A i \in 1 .. k : record'[i] = record[i]
  <2> HIDE DEF r
  <2> QED BY <1>1, <1>12 DEF FlashLoanInv
<1>14. analytics'.total_repaid = Total(Repaid')
  <2> DEFINE f == Repaid
             g == Repaid'
             I == 1 .. k
  <2>1. DOMAIN record = I /\ DOMAIN record' = I \cup {k + 1}
    BY <1>2, <1>13
  <2>2. f \in [I -> Nat]
    <3>1. \A i \in I : record[i] \in LoanRecord
      BY <1>13
    <3>2. \A i \in I : record[i].principal + record[i].fee \in Nat
      BY <3>1 DEF LoanRecord
    <3> QED BY <2>1, <3>2 DEF Repaid
  <2>3. g[k + 1] = n + fee /\ \A i \in I : g[i] = f[i]
    BY <1>2, <1>13, <2>1 DEF Repaid
  <2>4. g \in [I \cup {k + 1} -> Nat]
    <3>1. \A i \in I \cup {k + 1} : g[i] \in Nat
      BY <1>2, <1>3, <2>2, <2>3
    <3>2. g = [i \in I \cup {k + 1} |-> g[i]]
      BY <2>1 DEF Repaid
    <3> HIDE DEF f, g, I
    <3> QED BY <3>1, <3>2
  <2>5. IsFiniteSet(I) /\ k + 1 \notin I
    <3>1. 1 \in Int /\ k \in Int
      BY <1>2
    <3>2. IsFiniteSet(1 .. k)
      BY <3>1, FS_Interval
    <3> QED BY <1>2, <3>2
  <2>6. analytics.total_repaid = Total(f)
    BY DEF FlashLoanInv
  <2> DEFINE x == k + 1
  <2>b. x \notin I /\ g \in [I \cup {x} -> Nat] /\ IsFiniteSet(I) /\ \A i \in I : g[i] = f[i]
    BY <2>3, <2>4, <2>5
  <2> HIDE DEF f, g, I, x
  <2>c. Total(g) = Total(f) + g[x]
    BY <2>2, <2>b, TotalExtend
  <2>7. Total(g) = Total(f) + g[k + 1]
    BY <2>c DEF x
  <2>8. analytics'.total_repaid = Total(g)
    BY <1>2, <1>3, <1>7, <1>8, <2>3, <2>6, <2>7
  <2> QED BY <2>8 DEF g
<1>15. position' \in [Lenders -> Nat] /\ (config' # None => config' \in LoanConfig)
  BY <1>1 DEF FlashLoanInv
<1>16. bal'[Self] >= Total(position') + p.fees_collected
  BY <1>1, <1>11
<1> HIDE DEF r
<1> QED BY <1>1, <1>4, <1>6, <1>8, <1>9, <1>13, <1>14, <1>15, <1>16 DEF FlashLoanInv

LEMMA FlashLoanStep == ASSUME FlashLoanInv, FlashLoan!Next PROVE FlashLoanInv'
<1>1. ASSUME UNCHANGED <<bal, pool, position, record, analytics>>,
             config' # None => config' \in LoanConfig
      PROVE  FlashLoanInv'
  BY <1>1 DEF FlashLoanInv, Repaid
<1>2. ASSUME NEW fee \in OfFlashLoan.Fees, FlashLoan!Initialize(fee) PROVE FlashLoanInv'
  <2>1. 8 * OfFlashLoan.BASIS_POINTS \in Nat /\ (8 * OfFlashLoan.BASIS_POINTS) \div 10 \in Nat
    BY FlashLoanAssumption
  <2> QED BY <1>1, <1>2, <2>1, FlashLoanAssumption DEF FlashLoan!Initialize, LoanConfig
<1>3. ASSUME \/ \E fee \in OfFlashLoan.Fees : FlashLoan!SetFeeBps(fee)
             \/ \E r \in OfFlashLoan.Ratios : FlashLoan!SetMaxLoanRatio(r)
             \/ \E p \in BOOLEAN : FlashLoan!SetPaused(p)
      PROVE  FlashLoanInv'
  <2>1. /\ config # None /\ UNCHANGED <<bal, pool, position, record, analytics>>
        /\ config \in LoanConfig
    BY <1>3
    DEF FlashLoan!SetFeeBps, FlashLoan!SetMaxLoanRatio, FlashLoan!SetPaused, FlashLoan!Configure,
        FlashLoanInv
  <2>2. config' \in LoanConfig
    BY <1>3, <2>1, FlashLoanAssumption
    DEF FlashLoan!SetFeeBps, FlashLoan!SetMaxLoanRatio, FlashLoan!SetPaused, FlashLoan!Configure,
        LoanConfig
  <2> QED BY <1>1, <2>1, <2>2
<1>4. ASSUME NEW u \in Lenders, NEW n \in OfFlashLoan.Amounts,
             \/ FlashLoan!AddLiquidity(u, n) \/ FlashLoan!RemoveLiquidity(u, n)
             \/ \E extra \in OfFlashLoan.Extras : FlashLoan!TakeFlashLoan(u, n, extra)
      PROVE  FlashLoanInv'
  BY <1>4, LiquidityAdded, LiquidityRemoved, LoanTaken
<1> QED BY <1>2, <1>3, <1>4, FeesWithdrawn DEF FlashLoan!Next, Lenders

LEMMA FlashLoanQuiet == ASSUME FlashLoanInv, UNCHANGED FlashLoan!vars PROVE FlashLoanInv'
BY DEF FlashLoanInv, FlashLoan!vars, Repaid

LEMMA FlashLoanInit == ASSUME FlashLoan!Init PROVE FlashLoanInv
<1>1. /\ bal \in [LenderAccounts -> Nat] /\ bal[Self] = 0 /\ position \in [Lenders -> Nat]
      /\ \A u \in Lenders : position[u] = 0
  BY FlashLoanAssumption DEF FlashLoan!Init, LenderAccounts, Lenders
<1>2. Total(position) = 0
  BY <1>1, TotalZero
<1>3. Total(Repaid) = 0 /\ record = <<>>
  <2> DEFINE f == Repaid
  <2>1. f \in [{} -> Nat] /\ record = <<>>
    BY DEF Repaid, FlashLoan!Init
  <2> HIDE DEF f
  <2>2. Total(f) = 0
    BY <2>1, TotalZero
  <2> QED BY <2>1, <2>2 DEF f
<1> QED BY <1>1, <1>2, <1>3 DEF FlashLoan!Init, FlashLoanInv, LoanTotals

LEMMA FlashLoanSays == ASSUME FlashLoanInv PROVE FlashLoan!PositionsCovered
<1>1. \A g : FlashLoan!Total(g) = Total(g)
  BY Zenon DEF FlashLoan!Total, Total, FlashLoan!Units, Units, FlashLoan!Cardinality, Cardinality
<1> QED BY <1>1 DEF FlashLoanInv, FlashLoan!PositionsCovered, PoolAccounts, Repaid

-----------------------------------------------------------------------------
(***************************************************************************)
(* Proofs: staking with rewards of epochs.                                 *)
(***************************************************************************)
\* The players and what they stake and solve; a stake is not empty.
ASSUME PuzzlePoolStakingAssumption ==
  /\ IsFiniteSet(OfPuzzlePoolStaking.Players) /\ Self \notin OfPuzzlePoolStaking.Players
  /\ OfPuzzlePoolStaking.Amounts \subseteq Nat \ {0}
  /\ OfPuzzlePoolStaking.Difficulties \subseteq Nat /\ OfPuzzlePoolStaking.Budgets \subseteq Nat
  /\ OfPuzzlePoolStaking.EPOCH \in Nat /\ OfPuzzlePoolStaking.InitBalance \in Nat
  /\ OfPuzzlePoolStaking.MaxEpochs \in Nat
  /\ OfPuzzlePoolStaking.STAKER_SHARE \in Int /\ OfPuzzlePoolStaking.SOLVER_SHARE \in Int
  /\ OfPuzzlePoolStaking.BASIS_POINTS \in Int /\ OfPuzzlePoolStaking.Shares \subseteq Int
  /\ None \notin [amount : Nat, staked_at : Nat, last_claim_epoch : Nat]
  /\ None \notin [staker : Int, solver : Int, paused : BOOLEAN]

Players == OfPuzzlePoolStaking.Players
Epochs == 0 .. OfPuzzlePoolStaking.MaxEpochs
StakePosition == [amount : Nat, staked_at : Nat, last_claim_epoch : Nat]
SharesConfig == [staker : Int, solver : Int, paused : BOOLEAN]
EpochRecord ==
  [start_at : Nat, end_at : Nat, total_solves : Nat, total_staked : Nat, reward_budget : Nat,
   distributed : BOOLEAN]
StakeOf(p) == IF position[p] = None THEN 0 ELSE position[p].amount
StakesOf == [p \in Players |-> StakeOf(p)]
SolvesIn(e) == [p \in Players |-> solves[p][e]]

StakersInv ==
  /\ now \in Nat
  /\ bal \in [Players \cup {Self} -> Nat]
  /\ position \in [Players -> StakePosition \cup {None}]
  /\ bal[Self] = total_staked /\ total_staked = Total(StakesOf)
  /\ stakers = {p \in Players : StakeOf(p) > 0}

\* What an epoch that was opened says, when epoch c is the current one.
EpochSays(e, c) ==
  /\ epoch[e] \in EpochRecord
  /\ epoch[e].distributed = (e < c)
  /\ epoch[e].total_solves = Total(SolvesIn(e))

\* No player has solved anything in an epoch to come.
EpochInv ==
  /\ epoch \in [Epochs -> EpochRecord \cup {None}]
  /\ solves \in [Players -> [Epochs -> Nat]]
  /\ current \in Epochs
  /\ config = None => /\ current = 0 /\ \A p \in Players : solves[p][0] = 0
                      /\ \A e \in Epochs : epoch[e] = None
  /\ config # None => \A e \in Epochs : e <= current => EpochSays(e, current)
  /\ \A e \in Epochs : e > current => epoch[e] = None /\ \A p \in Players : solves[p][e] = 0
  /\ \A e \in Epochs : 0 < e /\ e <= current => epoch[e].start_at = epoch[e - 1].end_at

ClaimedInv ==
  claimed \in SUBSET (Players \X Epochs) /\ \A c \in claimed : c[2] < current

PuzzlePoolStakingInv ==
  config \in SharesConfig \cup {None} /\ StakersInv /\ EpochInv /\ ClaimedInv

\* The position of p becomes r, by a payment of what it grows or shrinks by.
LEMMA StakeOfChanges ==
  ASSUME StakersInv, NEW p \in Players, NEW r \in StakePosition,
         position' = [position EXCEPT ![p] = r], now' = now,
         bal' \in [Players \cup {Self} -> Nat],
         bal'[Self] = bal[Self] + (r.amount - StakeOf(p)), total_staked' = bal'[Self],
         stakers' = IF r.amount > 0 THEN stakers \cup {p} ELSE stakers \ {p}
  PROVE  StakersInv'
<1> DEFINE f == StakesOf
           g == StakesOf'
<1>1. position' \in [Players -> StakePosition \cup {None}] /\ r.amount \in Nat /\ r # None
  BY PuzzlePoolStakingAssumption DEF StakersInv, StakePosition
<1>2. StakeOf(p)' = r.amount /\ \A q \in Players \ {p} : StakeOf(q)' = StakeOf(q)
  BY <1>1 DEF StakersInv, StakeOf
<1>3. \A q \in Players : StakeOf(q) \in Nat /\ StakeOf(q)' \in Nat
  BY <1>1 DEF StakersInv, StakeOf, StakePosition
<1>4. /\ f \in [Players -> Nat] /\ g \in [Players -> Nat] /\ IsFiniteSet(Players)
      /\ f[p] = StakeOf(p) /\ g[p] = r.amount /\ \A q \in Players \ {p} : g[q] = f[q]
  BY <1>2, <1>3, PuzzlePoolStakingAssumption DEF StakesOf, Players
<1>5. Total(f) = bal[Self] /\ bal[Self] \in Nat
  BY DEF StakersInv
<1> HIDE DEF f, g
<1>6. Total(g) = Total(f) + (g[p] - f[p])
  BY <1>4, TotalChange
<1>7. total_staked' = Total(g)
  BY <1>4, <1>5, <1>6
<1>8. stakers' = {q \in Players : StakeOf(q)' > 0}
  BY <1>1, <1>2 DEF StakersInv
<1> QED BY <1>1, <1>7, <1>8 DEF StakersInv, g

LEMMA StakeKeeps ==
  ASSUME StakersInv, NEW p \in Players, NEW n \in OfPuzzlePoolStaking.Amounts,
         EpochInv, PuzzlePoolStaking!Stake(p, n) \/ PuzzlePoolStaking!Unstake(p, n)
  PROVE  StakersInv'
<1>1. /\ n \in Nat /\ n > 0 /\ p # Self /\ bal \in [Players \cup {Self} -> Nat] /\ bal[Self] \in Nat
      /\ position[p] # None => position[p] \in StakePosition
      /\ position[p] # None => position[p].amount \in Nat /\ position[p].last_claim_epoch \in Nat
      /\ StakeOf(p) \in Nat /\ now \in Nat /\ total_staked = bal[Self]
  BY PuzzlePoolStakingAssumption DEF StakersInv, StakeOf, StakePosition, Players
<1>2. PuzzlePoolStaking!Staked(p) = StakeOf(p)
  BY DEF PuzzlePoolStaking!Staked, StakeOf
<1>3. CASE PuzzlePoolStaking!Stake(p, n)
  <2> DEFINE k == StakeOf(p) + n
             r == [amount |-> k, staked_at |-> now,
                   last_claim_epoch |->
                      IF position[p] = None THEN 0 ELSE position[p].last_claim_epoch]
  <2>1. /\ Moves(p, Self, n) /\ position' = [position EXCEPT ![p] = r] /\ now' = now
        /\ total_staked' = total_staked + n /\ stakers' = stakers \cup {p}
    BY <1>2, <1>3 DEF PuzzlePoolStaking!Stake, PuzzlePoolStaking!Transfer, Moves
  <2>2. k \in Nat /\ k > 0 /\ k - StakeOf(p) = n
    BY <1>1
  <2> HIDE DEF k
  <2>3. r \in StakePosition /\ r.amount = k
    BY <1>1, <2>2 DEF StakePosition
  <2>4. bal' \in [Players \cup {Self} -> Nat] /\ bal'[Self] = bal[Self] + n
    BY <1>1, <2>1, Moved
  <2> HIDE DEF r
  <2> QED BY <1>1, <2>1, <2>2, <2>3, <2>4, StakeOfChanges
<1>4. CASE PuzzlePoolStaking!Unstake(p, n)
  <2> DEFINE k == StakeOf(p) - n
             r == [position[p] EXCEPT !.amount = @ - n]
  <2>1. /\ Moves(Self, p, n) /\ position[p] # None /\ StakeOf(p) >= n /\ now' = now
        /\ position' = [position EXCEPT ![p].amount = @ - n]
        /\ total_staked' = total_staked - n
        /\ stakers' = IF StakeOf(p) = n THEN stakers \ {p} ELSE stakers
    BY <1>2, <1>4 DEF PuzzlePoolStaking!Unstake, PuzzlePoolStaking!Transfer, Moves
  <2>2. position' = [position EXCEPT ![p] = r]
    BY <2>1
  <2>3. k \in Nat /\ (k > 0 <=> StakeOf(p) # n) /\ k - StakeOf(p) = 0 - n
    BY <1>1, <2>1
  <2>4. r \in StakePosition /\ r.amount = k
    BY <1>1, <2>1, <2>3 DEF StakeOf, StakePosition
  <2>5. bal' \in [Players \cup {Self} -> Nat] /\ bal'[Self] = bal[Self] - n
    BY <1>1, <2>1, Moved
  <2>6. stakers' = IF k > 0 THEN stakers \cup {p} ELSE stakers \ {p}
    <3>1. p \in stakers
      BY <1>1, <2>1 DEF StakersInv
    <3> HIDE DEF k
    <3> QED BY <2>1, <2>3, <3>1
  <2>7. bal'[Self] = bal[Self] + (k - StakeOf(p)) /\ total_staked' = bal'[Self]
    BY <1>1, <2>1, <2>3, <2>5
  <2> HIDE DEF k, r
  <2> QED BY <1>1, <2>1, <2>2, <2>4, <2>5, <2>6, <2>7, StakeOfChanges
<1> QED BY <1>3, <1>4

\* Positions, and the time, of the steps that are no stakes.
LEMMA StakersStay ==
  ASSUME StakersInv, UNCHANGED <<bal, position, total_staked, stakers>>, now' \in {now, now + 1}
  PROVE  StakersInv'
<1>1. StakesOf' = StakesOf /\ \A p \in Players : StakeOf(p)' = StakeOf(p)
  BY DEF StakesOf, StakeOf
<1> QED BY <1>1 DEF StakersInv

LEMMA EpochsStay ==
  ASSUME EpochInv, UNCHANGED <<epoch, current, solves>>, config' = None <=> config = None
  PROVE  EpochInv'
<1>1. \A e \in Epochs : EpochSays(e, current)' = EpochSays(e, current)
  BY DEF EpochSays, SolvesIn
<1> QED BY <1>1 DEF EpochInv

\* A reward leaves the stake of the player alone.
LEMMA ClaimKeeps ==
  ASSUME PuzzlePoolStakingInv, NEW p \in Players, NEW id \in Epochs,
         PuzzlePoolStaking!ClaimEpochReward(p, id)
  PROVE  PuzzlePoolStakingInv'
<1>1. /\ UNCHANGED <<now, bal, config, total_staked, stakers>>
           /\ UNCHANGED <<epoch, current, solves>>
      /\ config # None /\ epoch[id] # None /\ epoch[id].distributed
      /\ claimed' = claimed \cup {<<p, id>>}
      /\ position' = [position EXCEPT ![p] =
          IF @ = None THEN @
          ELSE [position[p] EXCEPT !.last_claim_epoch = IF id > @ THEN id ELSE @]]
  BY DEF PuzzlePoolStaking!ClaimEpochReward, PuzzlePoolStaking!Open, PuzzlePoolStaking!Initialized,
         PuzzlePoolStaking!epochs
<1>2. EpochInv'
  BY <1>1, EpochsStay DEF PuzzlePoolStakingInv
<1>3. id < current
  <2>1. id <= current
    BY <1>1 DEF PuzzlePoolStakingInv, EpochInv, Epochs
  <2>2. EpochSays(id, current)
    BY <1>1, <2>1 DEF PuzzlePoolStakingInv, EpochInv
  <2> QED BY <1>1, <2>2 DEF EpochSays
<1>4. ClaimedInv'
  BY <1>1, <1>3 DEF PuzzlePoolStakingInv, ClaimedInv
<1>5. StakersInv'
  <2> DEFINE o == position[p]
             k == IF id > o.last_claim_epoch THEN id ELSE o.last_claim_epoch
             r == [o EXCEPT !.last_claim_epoch = k]
  <2>1. o \in StakePosition \cup {None} /\ id \in Nat
    BY DEF PuzzlePoolStakingInv, StakersInv, Epochs
  <2>2. CASE o = None
    <3>1. position' = position
      BY <1>1, <2>2 DEF PuzzlePoolStakingInv, StakersInv
    <3>2. UNCHANGED <<bal, position, total_staked, stakers>> /\ now' \in {now, now + 1}
      BY <1>1, <3>1
    <3> QED BY <3>2, StakersStay DEF PuzzlePoolStakingInv
  <2>3. CASE o # None
    <3>1. position' = [position EXCEPT ![p] = r]
      <4> DEFINE z == [o EXCEPT !.last_claim_epoch = IF id > @ THEN id ELSE @]
      <4>1. position' = [position EXCEPT ![p] = z]
        BY <1>1, <2>3
      <4>2. z = r
        OBVIOUS
      <4> HIDE DEF z, r
      <4> QED BY <4>1, <4>2
    <3>2. k \in Nat
      BY <2>1, <2>3 DEF StakePosition
    <3>3. o \in StakePosition
      BY <2>1, <2>3
    <3>4. StakeOf(p) = o.amount
      BY <2>3 DEF StakeOf
    <3> HIDE DEF k, o
    <3>5. r \in StakePosition /\ r.amount = o.amount /\ o.amount \in Nat
      BY <3>2, <3>3 DEF StakePosition
    <3> HIDE DEF r
    <3>6. /\ bal \in [Players \cup {Self} -> Nat] /\ bal[Self] = total_staked /\ bal[Self] \in Nat
          /\ stakers = IF r.amount > 0 THEN stakers \cup {p} ELSE stakers \ {p}
      BY <3>4, <3>5 DEF PuzzlePoolStakingInv, StakersInv
    <3>7. bal[Self] = bal[Self] + (r.amount - StakeOf(p))
      BY <3>4, <3>5, <3>6
    <3> QED BY <1>1, <3>1, <3>5, <3>6, <3>7, StakeOfChanges DEF PuzzlePoolStakingInv
  <2> QED BY <2>2, <2>3
<1> QED BY <1>1, <1>2, <1>4, <1>5 DEF PuzzlePoolStakingInv

\* A player solves something in the current epoch.
LEMMA SolveKeeps ==
  ASSUME EpochInv, NEW p \in Players, NEW d \in OfPuzzlePoolStaking.Difficulties,
         PuzzlePoolStaking!RecordSolve(p, d)
  PROVE  EpochInv'
<1> DEFINE r == [epoch[current] EXCEPT !.total_solves = @ + d]
           f == SolvesIn(current)
           g == SolvesIn(current)'
<1>1. /\ config # None /\ UNCHANGED <<config, current>>
      /\ solves' = [solves EXCEPT ![p][current] = @ + d]
      /\ epoch' = [epoch EXCEPT ![current].total_solves = @ + d]
  BY DEF PuzzlePoolStaking!RecordSolve, PuzzlePoolStaking!Open, PuzzlePoolStaking!Initialized
<1>2. /\ d \in Nat /\ IsFiniteSet(Players) /\ current \in Epochs /\ current \in Nat
      /\ EpochSays(current, current) /\ epoch[current] \in EpochRecord
      /\ epoch[current].total_solves \in Nat
  BY <1>1, PuzzlePoolStakingAssumption DEF EpochInv, Epochs, EpochSays, Players, EpochRecord
<1>3. /\ solves' \in [Players -> [Epochs -> Nat]] /\ solves'[p][current] = solves[p][current] + d
      /\ \A q \in Players : \A e \in Epochs :
           q # p \/ e # current => solves'[q][e] = solves[q][e]
  <2>1. solves[p] \in [Epochs -> Nat] /\ solves[p][current] \in Nat
    BY <1>2 DEF EpochInv
  <2>2. solves' = [solves EXCEPT ![p] = [solves[p] EXCEPT ![current] = solves[p][current] + d]]
    BY <1>1
  <2> QED BY <1>2, <2>1, <2>2 DEF EpochInv
<1>4. epoch' = [epoch EXCEPT ![current] = r]
  BY <1>1
<1>5. /\ r \in EpochRecord /\ r.total_solves = epoch[current].total_solves + d
      /\ r.distributed = epoch[current].distributed /\ r.start_at = epoch[current].start_at
      /\ r.end_at = epoch[current].end_at
  <2>1. epoch[current].total_solves + d \in Nat
    BY <1>2
  <2> QED BY <1>2, <2>1 DEF EpochRecord
<1> HIDE DEF r
<1>6. /\ epoch' \in [Epochs -> EpochRecord \cup {None}] /\ epoch'[current] = r
      /\ \A e \in Epochs : e # current => epoch'[e] = epoch[e]
  BY <1>2, <1>4, <1>5 DEF EpochInv
<1>7. Total(g) = Total(f) + d
  <2>1. f \in [Players -> Nat] /\ g \in [Players -> Nat]
    BY <1>1, <1>2, <1>3 DEF EpochInv, SolvesIn
  <2>2. g[p] = f[p] + d /\ \A q \in Players \ {p} : g[q] = f[q]
    BY <1>1, <1>2, <1>3 DEF SolvesIn
  <2> HIDE DEF f, g
  <2> QED BY <1>2, <2>1, <2>2, TotalRaise
<1>8. \A e \in Epochs : e # current => SolvesIn(e)' = SolvesIn(e)
  BY <1>3 DEF SolvesIn
<1>9. ASSUME NEW e \in Epochs, e <= current PROVE EpochSays(e, current)'
  <2>1. EpochSays(e, current)
    BY <1>1, <1>9 DEF EpochInv
  <2>2. CASE e = current
    BY <1>1, <1>2, <1>5, <1>6, <1>7, <2>1, <2>2 DEF EpochSays
  <2>3. CASE e # current
    BY <1>1, <1>6, <1>8, <2>1, <2>3 DEF EpochSays
  <2> QED BY <2>2, <2>3
<1>10. \A e \in Epochs : e > current' => epoch'[e] = None /\ \A q \in Players : solves'[q][e] = 0
  BY <1>1, <1>2, <1>3, <1>6 DEF EpochInv, Epochs
<1>11. \A e \in Epochs : 0 < e /\ e <= current' => epoch'[e].start_at = epoch'[e - 1].end_at
  <2> SUFFICES ASSUME NEW e \in Epochs, 0 < e, e <= current
               PROVE  epoch'[e].start_at = epoch'[e - 1].end_at
    BY <1>1
  <2>1. e - 1 \in Epochs /\ e - 1 # current /\ epoch[e].start_at = epoch[e - 1].end_at
    BY <1>2, PuzzlePoolStakingAssumption DEF EpochInv, Epochs
  <2> QED BY <1>5, <1>6, <2>1
<1> QED BY <1>1, <1>2, <1>3, <1>6, <1>9, <1>10, <1>11 DEF EpochInv

\* The current epoch is closed and the next one opened.
LEMMA CloseKeeps ==
  ASSUME EpochInv, now \in Nat, total_staked \in Nat, NEW b \in OfPuzzlePoolStaking.Budgets,
         PuzzlePoolStaking!CloseEpoch(b)
  PROVE  EpochInv' /\ current' = current + 1
<1> DEFINE o == epoch[current]
           c == current + 1
           r == [o EXCEPT !.reward_budget = b, !.total_staked = total_staked, !.distributed = TRUE]
           s == PuzzlePoolStaking!CreateEpoch(o.end_at)
<1>1. /\ config # None /\ UNCHANGED <<config, solves>> /\ current' = c
      /\ current < OfPuzzlePoolStaking.MaxEpochs
      /\ epoch' = [epoch EXCEPT ![current] = r, ![c] = s]
  BY DEF PuzzlePoolStaking!CloseEpoch, PuzzlePoolStaking!Open, PuzzlePoolStaking!Initialized
<1>2. /\ b \in Nat /\ current \in Epochs /\ current \in Nat /\ c \in Epochs /\ c \in Nat
           /\ c # current
      /\ EpochSays(current, current) /\ o \in EpochRecord
  BY <1>1, PuzzlePoolStakingAssumption DEF EpochInv, Epochs, EpochSays
<1>3. /\ r \in EpochRecord /\ r.total_solves = o.total_solves /\ r.distributed = TRUE
      /\ r.start_at = o.start_at /\ r.end_at = o.end_at
  <2> HIDE DEF o
  <2> QED BY <1>2 DEF EpochRecord
<1>4. s \in EpochRecord /\ s.total_solves = 0 /\ s.distributed = FALSE /\ s.start_at = o.end_at
  <2>1. o.end_at \in Nat /\ o.end_at + OfPuzzlePoolStaking.EPOCH \in Nat
    BY <1>2, PuzzlePoolStakingAssumption DEF EpochRecord
  <2> HIDE DEF o
  <2> QED BY <2>1 DEF EpochRecord, PuzzlePoolStaking!CreateEpoch
<1> HIDE DEF r, s
<1>5. /\ epoch' \in [Epochs -> EpochRecord \cup {None}] /\ epoch'[current] = r /\ epoch'[c] = s
      /\ \A e \in Epochs : e # current /\ e # c => epoch'[e] = epoch[e]
  BY <1>1, <1>2, <1>3, <1>4 DEF EpochInv
<1>6. \A e \in Epochs : SolvesIn(e)' = SolvesIn(e)
  BY <1>1 DEF SolvesIn
<1>7. Total(SolvesIn(c)) = 0
  <2> DEFINE f == SolvesIn(c)
  <2>1. f \in [Players -> Nat] /\ \A p \in Players : f[p] = 0
    BY <1>2 DEF EpochInv, SolvesIn
  <2> HIDE DEF f
  <2> QED BY <2>1, TotalZero DEF f
<1>8. ASSUME NEW e \in Epochs, e <= c PROVE EpochSays(e, current)'
  <2>1. CASE e = c
    <3>1. (e < current') = FALSE /\ epoch'[e] = s
      BY <1>1, <1>2, <1>5, <2>1
    <3>2. epoch'[e].total_solves = Total(SolvesIn(e)')
      BY <1>4, <1>6, <1>7, <2>1, <3>1
    <3> QED BY <1>4, <3>1, <3>2 DEF EpochSays
  <2>2. CASE e = current
    <3>1. e < current' /\ epoch'[e] = r
      BY <1>1, <1>2, <1>5, <2>2
    <3>2. epoch'[e].total_solves = Total(SolvesIn(e)')
      BY <1>2, <1>3, <1>6, <2>2, <3>1 DEF EpochSays
    <3> QED BY <1>3, <3>1, <3>2 DEF EpochSays
  <2>3. CASE e # c /\ e # current
    <3>1. e <= current /\ e < current /\ e < c
      BY <1>2, <1>8, <2>3 DEF Epochs
    <3>2. EpochSays(e, current)
      BY <1>1, <3>1 DEF EpochInv
    <3> QED BY <1>1, <1>5, <1>6, <2>3, <3>1, <3>2 DEF EpochSays
  <2> QED BY <2>1, <2>2, <2>3
<1>9. \A e \in Epochs : e <= current' => EpochSays(e, current)'
  BY <1>1, <1>8
<1>10. \A e \in Epochs : e > current' => epoch'[e] = None /\ \A q \in Players : solves'[q][e] = 0
  BY <1>1, <1>2, <1>5 DEF EpochInv, Epochs
<1>11. \A e \in Epochs : 0 < e /\ e <= current' => epoch'[e].start_at = epoch'[e - 1].end_at
  <2> SUFFICES ASSUME NEW e \in Epochs, 0 < e, e <= c
               PROVE  epoch'[e].start_at = epoch'[e - 1].end_at
    BY <1>1
  <2>1. CASE e = c
    <3>1. e - 1 = current
      BY <1>2, <2>1
    <3> QED BY <1>3, <1>4, <1>5, <2>1, <3>1
  <2>2. CASE e # c
    <3>1. /\ e - 1 \in Epochs /\ e - 1 # current /\ e - 1 # c /\ e <= current
          /\ epoch[e].start_at = epoch[e - 1].end_at
      BY <1>2, <2>2, PuzzlePoolStakingAssumption DEF EpochInv, Epochs
    <3> QED BY <1>3, <1>5, <2>2, <3>1
  <2> QED BY <2>1, <2>2
<1> QED BY <1>1, <1>2, <1>5, <1>9, <1>10, <1>11 DEF EpochInv

\* The first epoch is opened.
LEMMA EpochsOpen ==
  ASSUME EpochInv, now \in Nat, PuzzlePoolStaking!Initialize
  PROVE  EpochInv'
<1> DEFINE r == PuzzlePoolStaking!CreateEpoch(now)
<1>1. /\ config = None /\ UNCHANGED <<current, solves>> /\ epoch' = [epoch EXCEPT ![0] = r]
  BY DEF PuzzlePoolStaking!Initialize
<1>2. current = 0 /\ 0 \in Epochs /\ current' = 0
  BY <1>1, PuzzlePoolStakingAssumption DEF EpochInv, Epochs
<1>3. r \in EpochRecord /\ r.total_solves = 0 /\ r.distributed = FALSE
  <2>1. now + OfPuzzlePoolStaking.EPOCH \in Nat
    BY PuzzlePoolStakingAssumption
  <2> QED BY <2>1 DEF EpochRecord, PuzzlePoolStaking!CreateEpoch
<1> HIDE DEF r
<1>4. /\ epoch' \in [Epochs -> EpochRecord \cup {None}] /\ epoch'[0] = r
      /\ \A e \in Epochs : e # 0 => epoch'[e] = epoch[e]
  BY <1>1, <1>2, <1>3 DEF EpochInv
<1>5. Total(SolvesIn(0)') = 0
  <2> DEFINE f == SolvesIn(0)'
  <2>1. f \in [Players -> Nat] /\ \A p \in Players : f[p] = 0
    BY <1>1, <1>2 DEF EpochInv, SolvesIn
  <2> HIDE DEF f
  <2> QED BY <2>1, TotalZero DEF f
<1>6. EpochSays(0, current)'
  <2>1. (0 < current') = FALSE /\ epoch'[0] = r
    BY <1>2, <1>4
  <2>2. epoch'[0].total_solves = Total(SolvesIn(0)')
    BY <1>3, <1>5, <2>1
  <2> QED BY <1>3, <2>1, <2>2 DEF EpochSays
<1>7. \A e \in Epochs : e <= current' => EpochSays(e, current)'
  <2>1. \A e \in Epochs : e <= current' => e = 0
    BY <1>2 DEF Epochs
  <2> QED BY <1>6, <2>1
<1>8. \A e \in Epochs : e > current' => e # 0
  BY <1>2 DEF Epochs
<1>9. /\ \A e \in Epochs : e > current' => epoch'[e] = None /\ \A q \in Players : solves'[q][e] = 0
      /\ \A e \in Epochs : ~(0 < e /\ e <= current')
  BY <1>1, <1>2, <1>4, <1>8 DEF EpochInv, Epochs
<1>10. config' # None
  <2>1. config' \in SharesConfig
    BY PuzzlePoolStakingAssumption DEF PuzzlePoolStaking!Initialize, SharesConfig
  <2> QED BY <2>1, PuzzlePoolStakingAssumption DEF SharesConfig
<1> QED BY <1>1, <1>2, <1>4, <1>7, <1>9, <1>10 DEF EpochInv

LEMMA PuzzlePoolStakingStep ==
  ASSUME PuzzlePoolStakingInv, PuzzlePoolStaking!Next
  PROVE  PuzzlePoolStakingInv'
<1> DEFINE Kept == UNCHANGED <<bal, position, total_staked, stakers>>
           Same == UNCHANGED <<epoch, current, solves>>
           Typed == config' \in SharesConfig \cup {None}
<1>1. StakersInv /\ EpochInv /\ ClaimedInv /\ config \in SharesConfig \cup {None}
  BY DEF PuzzlePoolStakingInv
<1>2. now \in Nat /\ total_staked \in Nat
  BY <1>1 DEF StakersInv
<1>3. ASSUME Kept, now' \in {now, now + 1} PROVE StakersInv'
  BY <1>1, <1>3, StakersStay
<1>4. ASSUME Same, config' = None <=> config = None PROVE EpochInv'
  BY <1>1, <1>4, EpochsStay
<1>5. ASSUME claimed' = claimed, current' = current PROVE ClaimedInv'
  BY <1>1, <1>5 DEF ClaimedInv
<1>6. CASE PuzzlePoolStaking!Initialize
  <2>1. Kept /\ now' = now /\ claimed' = claimed /\ current' = current /\ Typed
    BY <1>6, PuzzlePoolStakingAssumption
    DEF PuzzlePoolStaking!Initialize, PuzzlePoolStaking!stakes, SharesConfig
  <2>2. EpochInv'
    BY <1>1, <1>2, <1>6, EpochsOpen
  <2> QED BY <1>3, <1>5, <2>1, <2>2 DEF PuzzlePoolStakingInv
<1>7. ASSUME \/ \E s \in OfPuzzlePoolStaking.Shares : PuzzlePoolStaking!UpdateYieldShares(s)
             \/ \E p \in BOOLEAN : PuzzlePoolStaking!SetPaused(p)
      PROVE  PuzzlePoolStakingInv'
  <2>1. Kept /\ now' = now /\ claimed' = claimed /\ Same /\ config # None
    BY <1>7
    DEF PuzzlePoolStaking!UpdateYieldShares, PuzzlePoolStaking!SetPaused, PuzzlePoolStaking!stakes,
        PuzzlePoolStaking!epochs, PuzzlePoolStaking!Initialized
  <2>2. config' \in SharesConfig
    <3>1. config \in SharesConfig
      BY <1>1, <2>1
    <3>2. ASSUME NEW s \in OfPuzzlePoolStaking.Shares, PuzzlePoolStaking!UpdateYieldShares(s)
          PROVE  config' \in SharesConfig
      <4>1. s \in Int /\ OfPuzzlePoolStaking.BASIS_POINTS - s \in Int
        BY PuzzlePoolStakingAssumption
      <4> QED BY <3>1, <3>2, <4>1 DEF PuzzlePoolStaking!UpdateYieldShares, SharesConfig
    <3>3. ASSUME NEW p \in BOOLEAN, PuzzlePoolStaking!SetPaused(p)
          PROVE  config' \in SharesConfig
      BY <3>1, <3>3 DEF PuzzlePoolStaking!SetPaused, SharesConfig
    <3> QED BY <1>7, <3>2, <3>3
  <2>3. config' # None
    BY <2>2, PuzzlePoolStakingAssumption DEF SharesConfig
  <2> QED BY <1>3, <1>4, <1>5, <2>1, <2>2, <2>3 DEF PuzzlePoolStakingInv
<1>8. ASSUME \/ \E n \in OfPuzzlePoolStaking.Amounts : PuzzlePoolStaking!AddRewards(n)
             \/ PuzzlePoolStaking!Tick
      PROVE  PuzzlePoolStakingInv'
  <2>1. Kept /\ now' \in {now, now + 1} /\ claimed' = claimed /\ Same /\ config' = config
    BY <1>8
    DEF PuzzlePoolStaking!AddRewards, PuzzlePoolStaking!Tick, PuzzlePoolStaking!stakes,
        PuzzlePoolStaking!epochs
  <2> QED BY <1>1, <1>3, <1>4, <1>5, <2>1 DEF PuzzlePoolStakingInv
<1>9. ASSUME NEW p \in Players, NEW n \in OfPuzzlePoolStaking.Amounts,
             PuzzlePoolStaking!Stake(p, n) \/ PuzzlePoolStaking!Unstake(p, n)
      PROVE  PuzzlePoolStakingInv'
  <2>1. claimed' = claimed /\ Same /\ config' = config
    BY <1>9 DEF PuzzlePoolStaking!Stake, PuzzlePoolStaking!Unstake, PuzzlePoolStaking!epochs
  <2>2. StakersInv'
    BY <1>1, <1>9, StakeKeeps
  <2> QED BY <1>1, <1>4, <1>5, <2>1, <2>2 DEF PuzzlePoolStakingInv
<1>10. ASSUME NEW p \in Players, NEW d \in OfPuzzlePoolStaking.Difficulties,
              PuzzlePoolStaking!RecordSolve(p, d)
       PROVE  PuzzlePoolStakingInv'
  <2>1. Kept /\ now' = now /\ claimed' = claimed /\ current' = current /\ config' = config
    BY <1>10 DEF PuzzlePoolStaking!RecordSolve, PuzzlePoolStaking!stakes
  <2>2. EpochInv'
    BY <1>1, <1>10, SolveKeeps
  <2> QED BY <1>1, <1>3, <1>5, <2>1, <2>2 DEF PuzzlePoolStakingInv
<1>11. ASSUME NEW b \in OfPuzzlePoolStaking.Budgets, PuzzlePoolStaking!CloseEpoch(b)
       PROVE  PuzzlePoolStakingInv'
  <2>1. Kept /\ now' = now /\ claimed' = claimed /\ config' = config
    BY <1>11 DEF PuzzlePoolStaking!CloseEpoch, PuzzlePoolStaking!stakes
  <2>2. EpochInv' /\ current' = current + 1
    BY <1>1, <1>2, <1>11, CloseKeeps
  <2>3. ClaimedInv'
    <3>1. current \in Nat /\ \A c \in claimed : c[2] \in Nat
      BY <1>1 DEF EpochInv, ClaimedInv, Epochs
    <3> QED BY <1>1, <2>1, <2>2, <3>1 DEF ClaimedInv
  <2> QED BY <1>1, <1>3, <2>1, <2>2, <2>3 DEF PuzzlePoolStakingInv
<1>12. ASSUME NEW p \in Players, NEW id \in Epochs, PuzzlePoolStaking!ClaimEpochReward(p, id)
       PROVE  PuzzlePoolStakingInv'
  BY <1>12, ClaimKeeps
<1>13. PuzzlePoolStaking!Epochs = Epochs
  BY DEF PuzzlePoolStaking!Epochs, Epochs
<1> HIDE DEF Kept, Same, Typed
<1> QED
  BY <1>6, <1>7, <1>8, <1>9, <1>10, <1>11, <1>12, <1>13 DEF PuzzlePoolStaking!Next, Players

LEMMA PuzzlePoolStakingQuiet ==
  ASSUME PuzzlePoolStakingInv, UNCHANGED PuzzlePoolStaking!vars
  PROVE  PuzzlePoolStakingInv'
<1>1. /\ UNCHANGED <<bal, position, total_staked, stakers>> /\ UNCHANGED <<epoch, current, solves>>
      /\ now' = now /\ config' = config /\ claimed' = claimed
  BY DEF PuzzlePoolStaking!vars
<1>2. StakersInv' /\ EpochInv'
  BY <1>1, StakersStay, EpochsStay DEF PuzzlePoolStakingInv
<1> QED BY <1>1, <1>2 DEF PuzzlePoolStakingInv, ClaimedInv

LEMMA PuzzlePoolStakingInit == ASSUME PuzzlePoolStaking!Init PROVE PuzzlePoolStakingInv
<1>1. PuzzlePoolStaking!Epochs = Epochs /\ 0 \in Epochs
  BY PuzzlePoolStakingAssumption DEF PuzzlePoolStaking!Epochs, Epochs
<1>2. /\ bal \in [Players \cup {Self} -> Nat] /\ bal[Self] = 0
      /\ \A p \in Players : StakeOf(p) = 0
  BY PuzzlePoolStakingAssumption DEF PuzzlePoolStaking!Init, Players, StakeOf
<1>3. Total(StakesOf) = 0
  <2> DEFINE f == StakesOf
  <2>1. f \in [Players -> Nat] /\ \A p \in Players : f[p] = 0
    BY <1>2 DEF StakesOf
  <2> HIDE DEF f
  <2> QED BY <2>1, TotalZero DEF f
<1>4. StakersInv
  BY <1>2, <1>3 DEF PuzzlePoolStaking!Init, StakersInv, Players
<1>5. EpochInv
  <2>1. \A e \in Epochs : ~(0 < e /\ e <= 0)
    BY DEF Epochs
  <2> QED BY <1>1, <2>1 DEF PuzzlePoolStaking!Init, EpochInv, Players
<1> QED BY <1>4, <1>5 DEF PuzzlePoolStaking!Init, PuzzlePoolStakingInv, ClaimedInv

LEMMA PuzzlePoolStakingSays ==
  ASSUME PuzzlePoolStakingInv
  PROVE  PuzzlePoolStaking!StakesAndEpochs
<1>1. \A g : PuzzlePoolStaking!Total(g) = Total(g)
  BY Zenon DEF PuzzlePoolStaking!Total, Total, PuzzlePoolStaking!Units, Units,
               PuzzlePoolStaking!Cardinality, Cardinality
<1>2. \A p : PuzzlePoolStaking!Staked(p) = StakeOf(p)
  BY DEF PuzzlePoolStaking!Staked, StakeOf
<1>3. [p \in OfPuzzlePoolStaking.Players |-> PuzzlePoolStaking!Staked(p)] = StakesOf
  BY <1>2 DEF StakesOf, Players
<1>4. /\ bal[Self] = total_staked
      /\ total_staked
           = PuzzlePoolStaking!Total([p \in OfPuzzlePoolStaking.Players |->
                                         PuzzlePoolStaking!Staked(p)])
      /\ stakers = {p \in OfPuzzlePoolStaking.Players : PuzzlePoolStaking!Staked(p) > 0}
  BY <1>1, <1>2, <1>3 DEF PuzzlePoolStakingInv, StakersInv, Players
<1>5. ASSUME config # None, NEW e \in 0 .. current
      PROVE  /\ epoch[e].distributed = (e < current)
             /\ e > 0 => epoch[e].start_at = epoch[e - 1].end_at
             /\ epoch[e].total_solves
                  = PuzzlePoolStaking!Total([p \in OfPuzzlePoolStaking.Players |-> solves[p][e]])
  <2>1. e \in Epochs /\ e <= current /\ (e > 0 <=> 0 < e)
    BY PuzzlePoolStakingAssumption DEF PuzzlePoolStakingInv, EpochInv, Epochs
  <2>2. EpochSays(e, current)
    BY <1>5, <2>1 DEF PuzzlePoolStakingInv, EpochInv
  <2>3. [p \in OfPuzzlePoolStaking.Players |-> solves[p][e]] = SolvesIn(e)
    BY DEF SolvesIn, Players
  <2> QED BY <1>1, <2>1, <2>2, <2>3 DEF PuzzlePoolStakingInv, EpochInv, EpochSays
<1>6. \A c \in claimed : c[2] < current
  BY DEF PuzzlePoolStakingInv, ClaimedInv
<1> QED
  BY <1>4, <1>5, <1>6 DEF PuzzlePoolStaking!StakesAndEpochs, PuzzlePoolStaking!Initialized

-----------------------------------------------------------------------------
(***************************************************************************)
(* Proofs: rentals.                                                        *)
(***************************************************************************)
RentedNfts == {l.nft : l \in OfPuzzleRental.Listings}
ListingRecord ==
  [owner : OfPuzzleRental.Users, nft : RentedNfts, token : OfPuzzleRental.Coins,
   price_per_period : Nat, period_duration : Nat,
   max_periods : {l.max_periods : l \in OfPuzzleRental.Listings},
   allow_extensions : {l.extensions : l \in OfPuzzleRental.Listings}, refund_pct : Nat,
   status : {"Active", "Cancelled"}]
RentalRecord ==
  [listing : 1 .. OfPuzzleRental.MaxListings, nft : RentedNfts, owner : OfPuzzleRental.Users,
   renter : OfPuzzleRental.Users, token : OfPuzzleRental.Coins, total_paid : Nat, periods : Nat,
   start_time : Nat, end_time : Nat, refund_pct : Nat,
   status : {"Active", "Terminated", "Expired"}]
ArchivedRental == [total_paid : Nat, final_status : {"Terminated", "Expired"}]

\* Owners and renters are not the contract; prices, periods and refunds are
\* numbers.
ASSUME PuzzleRentalAssumption ==
  /\ Self \notin OfPuzzleRental.Users /\ None \notin ListingRecord /\ None \notin RentalRecord
  /\ \A l \in OfPuzzleRental.Listings :
       /\ l.price \in Nat /\ l.period \in Nat /\ l.refund_pct \in Nat
       /\ l.token \in OfPuzzleRental.Coins
  /\ OfPuzzleRental.InitBalance \in Nat
  /\ OfPuzzleRental.MaxListings \in Nat /\ OfPuzzleRental.MaxRentals \in Nat

Tenants == OfPuzzleRental.Users
RentCoins == OfPuzzleRental.Coins
RentBalances == [RentCoins -> [Tenants \cup {Self} -> Int]]
Listed == 1 .. OfPuzzleRental.MaxListings
Rented == 1 .. OfPuzzleRental.MaxRentals
Runs(i) == rental[i] # None /\ rental[i].status = "Active"
PaidFor(t, i) == IF Runs(i) /\ rental[i].token = t THEN rental[i].total_paid ELSE 0
PaidForRentals(t) == [i \in Rented |-> PaidFor(t, i)]

\* What rental i needs while it runs, and what is left of it afterwards.  Its
\* listing is for the same token unless the numbering started again.
RentalSays(i) ==
  /\ Runs(i) => /\ i \in renter_rentals[rental[i].renter] /\ rental[i].start_time <= now
                /\ listing[rental[i].listing] # None
                /\ ~late => listing[rental[i].listing].token = rental[i].token
  /\ rental[i] # None /\ rental[i].status # "Active" =>
       history[i] = [total_paid |-> rental[i].total_paid, final_status |-> rental[i].status]

\* A listing in the list is active, and new ones take free numbers unless the
\* numbering started again.
ListingsInv ==
  /\ listing \in [Listed -> ListingRecord \cup {None}] /\ next_listing \in Nat \ {0}
  /\ \A i \in active_listings : i \in Listed /\ listing[i] # None /\ listing[i].status = "Active"
  /\ late => initialized
  /\ ~late => \A i \in Listed : listing[i] # None => i < next_listing

RentalsInv ==
  /\ now \in Nat /\ bal \in RentBalances
  /\ rental \in [Rented -> RentalRecord \cup {None}] /\ next_rental \in Nat \ {0}
  /\ renter_rentals \in [Tenants -> SUBSET Rented]
  /\ history \in [Rented -> ArchivedRental \cup {None}]
  /\ \A i \in Rented : RentalSays(i)
  /\ strayed \in [RentCoins -> Nat]
  /\ ~late => \A t \in RentCoins : strayed[t] = 0
  /\ \A t \in RentCoins : bal[t][Self] + strayed[t] >= Total(PaidForRentals(t))

PuzzleRentalInv == ListingsInv /\ RentalsInv

\* What is paid for rentals is a number.
LEMMA RentalsPaid ==
  ASSUME RentalsInv, NEW t \in RentCoins
  PROVE  /\ PaidForRentals(t) \in [Rented -> Nat] /\ IsFiniteSet(Rented)
         /\ Total(PaidForRentals(t)) \in Nat
<1>1. \A i \in Rented : PaidFor(t, i) \in Nat
  BY DEF RentalsInv, PaidFor, Runs, RentalRecord
<1>2. PaidForRentals(t) \in [Rented -> Nat]
  BY <1>1 DEF PaidForRentals
<1>3. IsFiniteSet(Rented)
  <2>1. 1 \in Int /\ OfPuzzleRental.MaxRentals \in Int
    BY PuzzleRentalAssumption
  <2> QED BY <2>1, FS_Interval DEF Rented
<1> QED BY <1>2, <1>3, UnitsFinite

\* What rental r counts as paid in token t while it runs.
Due(t, r) == IF r.status = "Active" /\ r.token = t THEN r.total_paid ELSE 0

\* Rental i becomes r, and in each token the contract holds at least as much
\* more as r counts more than what was there.
LEMMA RentalChanged ==
  ASSUME RentalsInv, NEW i \in Rented, NEW r \in RentalRecord, NEW h \in ArchivedRental \cup {None},
         rental' = [rental EXCEPT ![i] = r], now' = now, listing' = listing, late' = late,
         history' = [history EXCEPT ![i] = h],
         renter_rentals' \in [Tenants -> SUBSET Rented],
         \A u \in Tenants : renter_rentals[u] \subseteq renter_rentals'[u],
         bal' \in RentBalances, next_rental' \in Nat \ {0}, strayed' \in [RentCoins -> Nat],
         ~late => strayed' = strayed,
         \A t \in RentCoins :
           bal'[t][Self] + strayed'[t] >= bal[t][Self] + strayed[t] + (Due(t, r) - PaidFor(t, i)),
         r.status = "Active" => /\ i \in renter_rentals'[r.renter] /\ r.start_time <= now
                                /\ listing[r.listing] # None
                                /\ ~late => listing[r.listing].token = r.token,
         r.status # "Active" => h = [total_paid |-> r.total_paid, final_status |-> r.status]
  PROVE  RentalsInv'
<1>1. /\ rental' \in [Rented -> RentalRecord \cup {None}] /\ rental'[i] = r /\ r # None
      /\ \A j \in Rented \ {i} : rental'[j] = rental[j]
  BY PuzzleRentalAssumption DEF RentalsInv
<1>2. /\ history' \in [Rented -> ArchivedRental \cup {None}] /\ history'[i] = h
      /\ \A j \in Rented \ {i} : history'[j] = history[j]
  BY DEF RentalsInv
<1>3. r.total_paid \in Nat
  BY DEF RentalRecord
<1>4. ASSUME NEW j \in Rented PROVE RentalSays(j)'
  <2>1. CASE j = i
    <3>1. CASE r.status = "Active"
      BY <1>1, <2>1, <3>1 DEF RentalSays, Runs
    <3>2. CASE r.status # "Active"
      BY <1>1, <1>2, <2>1, <3>2 DEF RentalSays, Runs
    <3> QED BY <3>1, <3>2
  <2>2. CASE j # i
    <3>1. rental[j] # None => rental[j].renter \in Tenants
      BY DEF RentalsInv, RentalRecord, Tenants
    <3>2. RentalSays(j)
      BY DEF RentalsInv
    <3> QED BY <1>1, <1>2, <2>2, <3>1, <3>2 DEF RentalSays, Runs
  <2> QED BY <2>1, <2>2
<1>5. ASSUME NEW t \in RentCoins
      PROVE  bal'[t][Self] + strayed'[t] >= Total(PaidForRentals(t)')
  <2> DEFINE f == PaidForRentals(t)
             g == PaidForRentals(t)'
             p == Due(t, r)
             x == bal[t][Self] + strayed[t]
             y == bal'[t][Self] + strayed'[t]
  <2>1. f \in [Rented -> Nat] /\ IsFiniteSet(Rented) /\ Total(f) \in Nat /\ x >= Total(f)
    BY RentalsPaid DEF RentalsInv
  <2>2. \A j \in Rented \ {i} : PaidFor(t, j)' = PaidFor(t, j)
    BY <1>1 DEF PaidFor, Runs
  <2>3. PaidFor(t, i)' = p /\ p \in Nat
    BY <1>1, <1>3 DEF PaidFor, Runs, Due
  <2>4. f[i] = PaidFor(t, i) /\ \A j \in Rented : f[j] = PaidFor(t, j) /\ PaidFor(t, j) \in Nat
    BY <2>1 DEF PaidForRentals
  <2>5. g[i] = p /\ (\A j \in Rented \ {i} : g[j] = f[j])
    BY <2>2, <2>3, <2>4 DEF PaidForRentals
  <2>6. g \in [Rented -> Nat]
    <3>1. \A j \in Rented : PaidFor(t, j)' \in Nat
      BY <2>2, <2>3, <2>4
    <3> QED BY <3>1 DEF PaidForRentals
  <2>7. y >= x + (p - PaidFor(t, i)) /\ x \in Int /\ y \in Int
    <3>1. /\ bal[t][Self] \in Int /\ bal'[t][Self] \in Int /\ strayed[t] \in Nat
          /\ strayed'[t] \in Nat
      BY DEF RentalsInv, RentBalances
    <3> QED BY <3>1
  <2> HIDE DEF f, g, p, x, y
  <2>8. Total(g) = Total(f) + (g[i] - f[i])
    BY <2>1, <2>5, <2>6, TotalChange
  <2>9. Total(g) \in Nat
    BY <2>1, <2>6, UnitsFinite
  <2>10. y >= Total(g)
    BY <2>1, <2>3, <2>4, <2>5, <2>7, <2>8
  <2> QED BY <2>10 DEF g, y
<1>6. ~late => \A t \in RentCoins : strayed'[t] = 0
  BY DEF RentalsInv
<1> QED BY <1>1, <1>2, <1>4, <1>5, <1>6 DEF RentalsInv

LEMMA ListingsStay ==
  ASSUME ListingsInv, UNCHANGED <<listing, next_listing, active_listings, initialized, late>>
  PROVE  ListingsInv'
BY DEF ListingsInv

\* Renter u pays n of token t.
LEMMA RentPaid ==
  ASSUME bal \in RentBalances, NEW t \in RentCoins, NEW u \in Tenants, NEW n \in Nat,
         PuzzleRental!Pay(t, u, n)
  PROVE  /\ bal' \in RentBalances /\ bal'[t][Self] = bal[t][Self] + n
         /\ \A c \in RentCoins \ {t} : bal'[c] = bal[c]
<1>1. /\ u # Self /\ bal[t][u] - n \in Int /\ bal[t][Self] + n \in Int
  BY PuzzleRentalAssumption DEF RentBalances, Tenants
<1>2. bal' = [bal EXCEPT ![t] = [bal[t] EXCEPT ![u] = bal[t][u] - n, ![Self] = bal[t][Self] + n]]
  BY <1>1 DEF PuzzleRental!Pay, RentBalances
<1> QED BY <1>1, <1>2 DEF RentBalances

LEMMA RentKeeps ==
  ASSUME PuzzleRentalInv, NEW u \in Tenants, NEW i \in Listed, NEW n \in Nat,
         PuzzleRental!Rent(u, i, n)
  PROVE  PuzzleRentalInv'
<1> DEFINE l == listing[i]
           cost == l.price_per_period * n
           k == next_rental
           r == [listing |-> i, nft |-> l.nft, owner |-> l.owner, renter |-> u, token |-> l.token,
                 total_paid |-> cost, periods |-> n, start_time |-> now,
                 end_time |-> now + l.period_duration * n, refund_pct |-> l.refund_pct,
                 status |-> "Active"]
<1>1. /\ k <= OfPuzzleRental.MaxRentals /\ l # None /\ PuzzleRental!Pay(l.token, u, cost)
      /\ rental' = [rental EXCEPT ![k] = r] /\ next_rental' = k + 1
      /\ renter_rentals' = [renter_rentals EXCEPT ![u] = @ \cup {k}]
      /\ now' = now /\ history' = history /\ strayed' = strayed
      /\ UNCHANGED <<listing, next_listing, active_listings, initialized, late>>
  BY DEF PuzzleRental!Rent, PuzzleRental!market
<1>2. k \in Rented /\ k \in Nat \ {0} /\ k + 1 \in Nat \ {0} /\ now \in Nat /\ u # Self
  BY <1>1, PuzzleRentalAssumption DEF PuzzleRentalInv, RentalsInv, Rented, Tenants
<1>3. /\ l \in ListingRecord
      /\ l.price_per_period \in Nat /\ l.period_duration \in Nat /\ l.refund_pct \in Nat
      /\ l.nft \in RentedNfts /\ l.owner \in OfPuzzleRental.Users /\ l.token \in RentCoins
  BY <1>1 DEF PuzzleRentalInv, ListingsInv, ListingRecord, RentCoins
<1>4. cost \in Nat /\ now + l.period_duration * n \in Nat
  <2>1. l.period_duration * n \in Nat /\ cost \in Nat
    BY <1>3, Multiplied
  <2> QED BY <1>2, <2>1
<1>5. r \in RentalRecord /\ r.status = "Active" /\ r.total_paid = cost /\ r.renter = u
      /\ r.start_time = now /\ r.listing = i /\ r.token = l.token
  <2> DEFINE e == now + l.period_duration * n
  <2> HIDE DEF e, l, cost
  <2> QED BY <1>2, <1>3, <1>4 DEF RentalRecord, Listed, Tenants, RentCoins, e
<1> HIDE DEF r
<1>6. /\ bal' \in RentBalances /\ bal'[l.token][Self] = bal[l.token][Self] + cost
      /\ \A t \in RentCoins \ {l.token} : bal'[t] = bal[t]
  BY <1>1, <1>2, <1>3, <1>4, RentPaid DEF PuzzleRentalInv, RentalsInv
<1>7. /\ renter_rentals' \in [Tenants -> SUBSET Rented] /\ k \in renter_rentals'[u]
      /\ \A v \in Tenants : renter_rentals[v] \subseteq renter_rentals'[v]
  BY <1>1, <1>2 DEF PuzzleRentalInv, RentalsInv
<1>8. history[k] \in ArchivedRental \cup {None} /\ history' = [history EXCEPT ![k] = history[k]]
  BY <1>1, <1>2 DEF PuzzleRentalInv, RentalsInv
<1>9. \A t \in RentCoins :
        bal'[t][Self] + strayed'[t] >= bal[t][Self] + strayed[t] + (Due(t, r) - PaidFor(t, k))
  <2>1. \A t \in RentCoins : bal[t][Self] \in Int /\ PaidFor(t, k) \in Nat /\ strayed[t] \in Nat
    BY <1>2 DEF PuzzleRentalInv, RentalsInv, PaidFor, Runs, RentalRecord, RentBalances
  <2> HIDE DEF cost
  <2> QED BY <1>1, <1>4, <1>5, <1>6, <2>1 DEF Due
<1>10. RentalsInv'
  <2> DEFINE h == history[k]
  <2>1. /\ listing' = listing /\ listing[i] # None /\ next_rental' \in Nat \ {0} /\ now <= now
        /\ late' = late /\ listing[r.listing].token = r.token
        /\ strayed' \in [RentCoins -> Nat] /\ strayed' = strayed
    BY <1>1, <1>2, <1>5 DEF PuzzleRentalInv, RentalsInv
  <2>2. h \in ArchivedRental \cup {None} /\ history' = [history EXCEPT ![k] = h]
    BY <1>8
  <2>3. RentalsInv /\ k \in Rented /\ rental' = [rental EXCEPT ![k] = r] /\ now' = now
    BY <1>1, <1>2 DEF PuzzleRentalInv
  <2> HIDE DEF cost, k, h, l
  <2> QED BY <1>5, <1>6, <1>7, <1>9, <2>1, <2>2, <2>3, RentalChanged
<1> QED BY <1>1, <1>10, ListingsStay DEF PuzzleRentalInv

LEMMA ExtendKeeps ==
  ASSUME PuzzleRentalInv, NEW i \in Rented, PuzzleRental!ExtendRental(i, 1)
  PROVE  PuzzleRentalInv'
<1> DEFINE o == rental[i]
           l == listing[o.listing]
           cost == l.price_per_period * 1
           e == l.period_duration * 1
           r == [o EXCEPT !.end_time = @ + e, !.total_paid = @ + cost, !.periods = @ + 1]
<1>1. /\ o # None /\ o.status = "Active" /\ PuzzleRental!Pay(l.token, o.renter, cost)
      /\ strayed' = IF l.token = o.token THEN strayed
                    ELSE [strayed EXCEPT ![o.token] = @ + cost]
      /\ rental' = [rental EXCEPT ![i] = r]
      /\ UNCHANGED <<now, next_rental, renter_rentals, history>>
      /\ UNCHANGED <<listing, next_listing, active_listings, initialized, late>>
  BY DEF PuzzleRental!ExtendRental, PuzzleRental!Running, PuzzleRental!market
<1>2. rental' = [rental EXCEPT ![i] = r] /\ o.status = "Active"
  BY <1>1
<1>3. /\ o \in RentalRecord /\ o.renter \in Tenants /\ o.renter # Self /\ o.total_paid \in Nat
      /\ o.end_time \in Nat /\ o.periods \in Nat /\ o.listing \in Listed /\ o.token \in RentCoins
  <2>1. o \in RentalRecord
    BY <1>1 DEF PuzzleRentalInv, RentalsInv
  <2> HIDE DEF o
  <2> QED BY <2>1, PuzzleRentalAssumption DEF RentalRecord, Tenants, Listed, RentCoins
<1>4. /\ RentalSays(i) /\ Runs(i)
      /\ \A t \in RentCoins : PaidFor(t, i) = IF o.token = t THEN o.total_paid ELSE 0
  BY <1>1 DEF PuzzleRentalInv, RentalsInv, Runs, PaidFor
<1>5. /\ l \in ListingRecord /\ l.price_per_period \in Nat /\ l.period_duration \in Nat
      /\ l.token \in RentCoins /\ (~late => l.token = o.token)
  <2>1. l # None /\ (~late => l.token = o.token)
    BY <1>4 DEF RentalSays
  <2>2. l \in ListingRecord
    BY <1>3, <2>1 DEF PuzzleRentalInv, ListingsInv
  <2> HIDE DEF l, o
  <2> QED BY <2>1, <2>2 DEF ListingRecord, RentCoins
<1>6. cost \in Nat /\ e \in Nat
  BY <1>5
<1> HIDE DEF cost, e, l, o
<1>7. /\ r \in RentalRecord /\ r.total_paid = o.total_paid + cost /\ r.status = "Active"
      /\ r.renter = o.renter /\ r.start_time = o.start_time /\ r.listing = o.listing
      /\ r.token = o.token
  <2>1. o.end_time + e \in Nat /\ o.total_paid + cost \in Nat /\ o.periods + 1 \in Nat
    BY <1>3, <1>6
  <2> QED BY <1>2, <1>3, <2>1 DEF RentalRecord
<1>8. /\ bal' \in RentBalances /\ bal'[l.token][Self] = bal[l.token][Self] + cost
      /\ \A t \in RentCoins \ {l.token} : bal'[t] = bal[t]
  BY <1>1, <1>3, <1>5, <1>6, RentPaid DEF PuzzleRentalInv, RentalsInv
<1>9. /\ strayed' \in [RentCoins -> Nat] /\ (~late => strayed' = strayed)
      /\ \A t \in RentCoins :
           bal'[t][Self] + strayed'[t] >= bal[t][Self] + strayed[t] + (Due(t, r) - PaidFor(t, i))
  <2>1. /\ \A t \in RentCoins : bal[t][Self] \in Int /\ strayed[t] \in Nat
        /\ strayed \in [RentCoins -> Nat]
    BY DEF PuzzleRentalInv, RentalsInv, RentBalances
  <2>2. /\ strayed' \in [RentCoins -> Nat]
        /\ strayed'[o.token] = strayed[o.token] + (IF l.token = o.token THEN 0 ELSE cost)
        /\ \A t \in RentCoins \ {o.token} : strayed'[t] = strayed[t]
    BY <1>1, <1>3, <1>6, <2>1
  <2>3. \A t \in RentCoins : Due(t, r) - PaidFor(t, i) = IF o.token = t THEN cost ELSE 0
    BY <1>3, <1>4, <1>6, <1>7 DEF Due
  <2>4. ASSUME NEW t \in RentCoins
        PROVE  bal'[t][Self] + strayed'[t]
                 >= bal[t][Self] + strayed[t] + (Due(t, r) - PaidFor(t, i))
    <3>1. bal[t][Self] \in Int /\ strayed[t] \in Nat
      BY <2>1
    <3>2. bal'[t][Self] = bal[t][Self] + (IF l.token = t THEN cost ELSE 0)
      BY <1>6, <1>8, <3>1
    <3>3. strayed'[t] = strayed[t] + (IF t = o.token /\ l.token # o.token THEN cost ELSE 0)
      BY <1>6, <2>2, <3>1
    <3>4. Due(t, r) - PaidFor(t, i) = IF o.token = t THEN cost ELSE 0
      BY <2>3
    <3> QED BY <1>6, <3>1, <3>2, <3>3, <3>4
  <2> QED BY <1>1, <1>5, <2>2, <2>4
<1>10. history[i] \in ArchivedRental \cup {None} /\ history' = [history EXCEPT ![i] = history[i]]
  BY <1>1 DEF PuzzleRentalInv, RentalsInv
<1>11. /\ i \in renter_rentals'[r.renter] /\ r.start_time <= now /\ listing[r.listing] # None
       /\ ~late => listing[r.listing].token = r.token
  BY <1>1, <1>4, <1>7 DEF RentalSays, o
<1>12. RentalsInv'
  <2> DEFINE h == history[i]
  <2>1. /\ listing' = listing /\ next_rental' \in Nat \ {0} /\ now' = now /\ late' = late
        /\ renter_rentals' \in [Tenants -> SUBSET Rented]
        /\ \A v \in Tenants : renter_rentals[v] \subseteq renter_rentals'[v]
    BY <1>1 DEF PuzzleRentalInv, RentalsInv
  <2>2. h \in ArchivedRental \cup {None} /\ history' = [history EXCEPT ![i] = h]
    BY <1>10
  <2>3. RentalsInv
    BY DEF PuzzleRentalInv
  <2> HIDE DEF h, r
  <2> QED BY <1>2, <1>7, <1>8, <1>9, <1>11, <2>1, <2>2, <2>3, RentalChanged
<1> QED BY <1>1, <1>12, ListingsStay DEF PuzzleRentalInv

\* A rental ends: what was paid for it goes to its owner and its renter.
LEMMA RentalEnds ==
  ASSUME PuzzleRentalInv, NEW i \in Rented, NEW n \in Int, NEW m \in Int,
         NEW x \in {"Terminated", "Expired"},
         Runs(i), n + m = rental[i].total_paid,
         PuzzleRental!Disburse(rental[i].token, rental[i].owner, n, rental[i].renter, m),
         rental' = [rental EXCEPT ![i].status = x], PuzzleRental!Archive(i, x),
         UNCHANGED <<now, next_rental, renter_rentals, strayed>>,
         UNCHANGED <<listing, next_listing, active_listings, initialized, late>>
  PROVE  PuzzleRentalInv'
<1> DEFINE o == rental[i]
           r == [o EXCEPT !.status = x]
           h == [total_paid |-> o.total_paid, final_status |-> x]
           u == o.owner
           v == o.renter
           c == o.token
<1>1. o \in RentalRecord
  BY DEF PuzzleRentalInv, RentalsInv, Runs
<1>2. rental' = [rental EXCEPT ![i] = r] /\ history' = [history EXCEPT ![i] = h]
  BY DEF PuzzleRental!Archive
<1>3. \A t \in RentCoins : PaidFor(t, i) = IF t = c THEN o.total_paid ELSE 0
  BY DEF PaidFor
<1>4. /\ bal' = [bal EXCEPT ![c] = [bal[c] EXCEPT ![Self] = @ - n - m, ![u] = @ + n, ![v] = @ + m]]
      /\ bal \in RentBalances /\ n + m = o.total_paid
  BY DEF PuzzleRental!Disburse, PuzzleRentalInv, RentalsInv
<1> HIDE DEF o
<1>5. /\ u \in Tenants /\ v \in Tenants /\ u # Self /\ v # Self /\ o.total_paid \in Nat
      /\ c \in RentCoins
  BY <1>1, PuzzleRentalAssumption DEF RentalRecord, Tenants, RentCoins
<1>6. r \in RentalRecord /\ r.status = x /\ r.total_paid = o.total_paid /\ x # "Active"
  BY <1>1 DEF RentalRecord
<1>7. h \in ArchivedRental /\ h = [total_paid |-> r.total_paid, final_status |-> r.status]
  BY <1>5, <1>6 DEF ArchivedRental
<1> HIDE DEF u, v, c, r, h
<1>8. /\ bal' \in RentBalances /\ bal'[c][Self] = bal[c][Self] - n - m
      /\ \A t \in RentCoins \ {c} : bal'[t] = bal[t]
  <2>1. bal[c] \in [Tenants \cup {Self} -> Int]
    BY <1>4, <1>5 DEF RentBalances
  <2> DEFINE b == bal[c]
             w == [b EXCEPT ![Self] = @ - n - m, ![u] = @ + n, ![v] = @ + m]
  <2>2. bal' = [bal EXCEPT ![c] = w]
    BY <1>4
  <2>3. b[Self] - n - m \in Int /\ \A a \in Tenants : b[a] + n \in Int /\ b[a] + m \in Int
    BY <2>1
  <2> HIDE DEF b
  <2>4. PICK y \in Int, z \in Int : w = [b EXCEPT ![Self] = b[Self] - n - m, ![u] = y, ![v] = z]
    BY <1>4, <1>5, <2>1, <2>3 DEF b
  <2>5. w \in [Tenants \cup {Self} -> Int] /\ w[Self] = b[Self] - n - m
    BY <1>5, <2>1, <2>3, <2>4 DEF b
  <2> HIDE DEF w
  <2> QED BY <1>4, <1>5, <2>2, <2>5 DEF RentBalances, b
<1>9. \A t \in RentCoins :
        bal'[t][Self] + strayed'[t] >= bal[t][Self] + strayed[t] + (Due(t, r) - PaidFor(t, i))
  <2>1. /\ \A t \in RentCoins : bal[t][Self] \in Int /\ strayed'[t] = strayed[t]
        /\ \A t \in RentCoins : strayed[t] \in Nat /\ Due(t, r) = 0
    BY <1>4, <1>6 DEF PuzzleRentalInv, RentalsInv, RentBalances, Due
  <2>2. ASSUME NEW t \in RentCoins
        PROVE  bal'[t][Self] + strayed'[t]
                 >= bal[t][Self] + strayed[t] + (Due(t, r) - PaidFor(t, i))
    <3>1. /\ bal[t][Self] \in Int /\ strayed[t] \in Nat /\ strayed'[t] = strayed[t]
          /\ Due(t, r) = 0
      BY <2>1
    <3>2. CASE t = c
      <4>1. PaidFor(t, i) = o.total_paid /\ bal'[t][Self] = bal[t][Self] - n - m
        BY <1>3, <1>8, <3>2
      <4> QED BY <1>4, <1>5, <3>1, <4>1
    <3>3. CASE t # c
      <4>1. PaidFor(t, i) = 0 /\ bal'[t][Self] = bal[t][Self]
        BY <1>3, <1>8, <3>3
      <4> QED BY <3>1, <4>1
    <3> QED BY <3>2, <3>3
  <2> QED BY <2>2
<1>10. /\ renter_rentals' \in [Tenants -> SUBSET Rented] /\ next_rental' \in Nat \ {0} /\ now' = now
       /\ \A w \in Tenants : renter_rentals[w] \subseteq renter_rentals'[w]
       /\ listing' = listing /\ late' = late /\ strayed' \in [RentCoins -> Nat]
       /\ strayed' = strayed
  BY DEF PuzzleRentalInv, RentalsInv
<1>11. RentalsInv'
  BY <1>2, <1>6, <1>7, <1>8, <1>9, <1>10, RentalChanged DEF PuzzleRentalInv
<1> QED BY <1>11, ListingsStay DEF PuzzleRentalInv

LEMMA EndKeeps ==
  ASSUME PuzzleRentalInv, NEW i \in Rented,
         PuzzleRental!TerminateRental(i) \/ PuzzleRental!ExpireRental(i)
  PROVE  PuzzleRentalInv'
<1> DEFINE o == rental[i]
<1>1. Runs(i)
  BY DEF PuzzleRental!TerminateRental, PuzzleRental!ExpireRental, PuzzleRental!Running, Runs
<1>2. /\ o.total_paid \in Nat /\ o.start_time \in Nat /\ o.end_time \in Nat /\ o.refund_pct \in Nat
      /\ now \in Nat /\ o.start_time <= now
  <2>1. o \in RentalRecord /\ RentalSays(i) /\ now \in Nat
    BY <1>1 DEF PuzzleRentalInv, RentalsInv, Runs
  <2>2. o.start_time <= now
    BY <1>1, <2>1 DEF RentalSays
  <2> HIDE DEF o
  <2> QED BY <2>1, <2>2 DEF RentalRecord
<1>3. CASE PuzzleRental!TerminateRental(i)
  <2> DEFINE m == PuzzleRental!Refund(o)
             n == o.total_paid - m
             x == "Terminated"
  <2>1. /\ PuzzleRental!Disburse(o.token, o.owner, n, o.renter, m) /\ PuzzleRental!Archive(i, x)
        /\ rental' = [rental EXCEPT ![i].status = x]
        /\ UNCHANGED <<now, next_rental, renter_rentals, strayed>>
        /\ UNCHANGED <<listing, next_listing, active_listings, initialized, late>>
        /\ now < o.end_time
    BY <1>3 DEF PuzzleRental!TerminateRental, PuzzleRental!OwnerShare, PuzzleRental!Running,
                PuzzleRental!market
  <2>2. m \in Int
    <3> DEFINE a == o.total_paid * (o.end_time - now)
               b == o.end_time - o.start_time
               c == a \div b
               d == o.refund_pct
    <3>1. a \in Nat
      <4>1. o.end_time - now \in Nat
        BY <1>2, <2>1
      <4> QED BY <1>2, <4>1, Multiplied
    <3>2. b \in Nat \ {0} /\ d \in Nat
      BY <1>2, <2>1
    <3>3. m = (c * d) \div 100
      BY DEF PuzzleRental!Refund
    <3> HIDE DEF a, b, d, m
    <3>4. c \in Nat
      BY <3>1, <3>2, Divided
    <3> HIDE DEF c
    <3>5. c * d \in Nat
      BY <3>2, <3>4, Multiplied
    <3> QED BY <3>3, <3>5
  <2> HIDE DEF m
  <2>3. n \in Int /\ n + m = o.total_paid
    BY <1>2, <2>2
  <2> HIDE DEF n
  <2> QED BY <1>1, <2>1, <2>2, <2>3, RentalEnds
<1>4. CASE PuzzleRental!ExpireRental(i)
  <2> DEFINE n == o.total_paid
             x == "Expired"
  <2>1. /\ PuzzleRental!Disburse(o.token, o.owner, n, o.renter, 0) /\ PuzzleRental!Archive(i, x)
        /\ rental' = [rental EXCEPT ![i].status = x]
        /\ UNCHANGED <<now, next_rental, renter_rentals, strayed>>
        /\ UNCHANGED <<listing, next_listing, active_listings, initialized, late>>
    BY <1>4 DEF PuzzleRental!ExpireRental, PuzzleRental!market
  <2>2. n \in Int /\ n + 0 = o.total_paid /\ 0 \in Int
    BY <1>2
  <2> HIDE DEF n
  <2> QED BY <1>1, <2>1, <2>2, RentalEnds
<1> QED BY <1>3, <1>4

\* Rentals, when only time passes and listings come and go.
LEMMA RentalsStay ==
  ASSUME PuzzleRentalInv, UNCHANGED <<bal, rental, renter_rentals, history, strayed>>,
         now' \in {now, now + 1}, next_rental' \in Nat \ {0},
         late => late',
         \A i \in Listed : listing[i] # None =>
           listing'[i] # None /\ (~late' => listing'[i].token = listing[i].token)
  PROVE  RentalsInv'
<1>1. \A t \in RentCoins : PaidForRentals(t)' = PaidForRentals(t)
  BY DEF PaidForRentals, PaidFor, Runs
<1>2. ASSUME NEW i \in Rented PROVE RentalSays(i)'
  <2>1. RentalSays(i) /\ now \in Nat
    BY DEF PuzzleRentalInv, RentalsInv
  <2>2. Runs(i) => rental[i].listing \in Listed /\ rental[i].start_time \in Nat
    BY DEF PuzzleRentalInv, RentalsInv, Runs, RentalRecord, Listed
  <2> QED BY <2>1, <2>2 DEF RentalSays, Runs
<1>3. now' \in Nat
  BY DEF PuzzleRentalInv, RentalsInv
<1> QED BY <1>1, <1>2, <1>3 DEF PuzzleRentalInv, RentalsInv

LEMMA ListingKeeps ==
  ASSUME PuzzleRentalInv,
         \/ \E u \in Tenants, l \in OfPuzzleRental.Listings : PuzzleRental!CreateListing(u, l)
         \/ \E i \in Listed : PuzzleRental!CancelListing(i)
  PROVE  PuzzleRentalInv'
<1>1. CASE \E u \in Tenants, l \in OfPuzzleRental.Listings : PuzzleRental!CreateListing(u, l)
  <2>1. PICK u \in Tenants, l \in OfPuzzleRental.Listings : PuzzleRental!CreateListing(u, l)
    BY <1>1
  <2> DEFINE k == next_listing
             r == [owner |-> u, nft |-> l.nft, token |-> l.token,
                   price_per_period |-> l.price, period_duration |-> l.period,
                   max_periods |-> l.max_periods,
                   allow_extensions |-> l.extensions, refund_pct |-> l.refund_pct,
                   status |-> "Active"]
  <2>2. /\ k <= OfPuzzleRental.MaxListings /\ listing' = [listing EXCEPT ![k] = r]
        /\ active_listings' = active_listings \cup {k} /\ next_listing' = k + 1
        /\ UNCHANGED <<bal, rental, renter_rentals, history, strayed>> /\ now' = now
        /\ UNCHANGED <<next_rental, initialized, late>>
    BY <2>1 DEF PuzzleRental!CreateListing, PuzzleRental!rentals
  <2>3. r \in ListingRecord /\ r.status = "Active" /\ r # None
    <3>1. r \in ListingRecord
      BY PuzzleRentalAssumption DEF ListingRecord, RentedNfts, Tenants
    <3> HIDE DEF r
    <3>2. r # None
      BY <3>1, PuzzleRentalAssumption
    <3> QED BY <3>1, <3>2 DEF r
  <2>4. k \in Listed /\ k + 1 \in Nat \ {0} /\ k \in Nat
    BY <2>2, PuzzleRentalAssumption DEF PuzzleRentalInv, ListingsInv, Listed
  <2> HIDE DEF r, k
  <2>5. /\ listing' \in [Listed -> ListingRecord \cup {None}] /\ listing'[k] = r
        /\ \A i \in Listed \ {k} : listing'[i] = listing[i]
    BY <2>2, <2>3, <2>4 DEF PuzzleRentalInv, ListingsInv
  <2>6. ListingsInv'
    <3>1. next_listing' \in Nat \ {0} /\ late' = late /\ initialized' = initialized
      BY <2>2, <2>4
    <3>2. \A i \in active_listings' : i \in Listed /\ listing'[i] # None /\ listing'[i].status = "Active"
      BY <2>2, <2>3, <2>4, <2>5 DEF PuzzleRentalInv, ListingsInv
    <3>3. ~late => \A i \in Listed : listing'[i] # None => i < next_listing'
      <4>1. ASSUME ~late, NEW i \in Listed, listing'[i] # None PROVE i < k + 1
        <5>1. CASE i = k
          BY <2>4, <5>1
        <5>2. CASE i # k
          <6>1. listing[i] # None
            BY <2>5, <4>1, <5>2
          <6>2. i < k /\ i \in Int
            BY <4>1, <6>1 DEF PuzzleRentalInv, ListingsInv, Listed, k
          <6> QED BY <2>4, <6>2
        <5> QED BY <5>1, <5>2
      <4> QED BY <2>2, <4>1
    <3> QED BY <2>5, <3>1, <3>2, <3>3 DEF PuzzleRentalInv, ListingsInv
  <2>7. RentalsInv'
    <3>1. \A i \in Listed : listing[i] # None =>
            listing'[i] # None /\ (~late' => listing'[i].token = listing[i].token)
      <4>1. ASSUME ~late PROVE listing[k] = None
        <5>1. listing[k] # None => k < k
          BY <2>4, <4>1 DEF PuzzleRentalInv, ListingsInv, k
        <5> QED BY <2>4, <5>1
      <4> QED BY <2>2, <2>3, <2>4, <2>5, <4>1
    <3>2. next_rental' \in Nat \ {0} /\ now' \in {now, now + 1}
      BY <2>2 DEF PuzzleRentalInv, RentalsInv
    <3> QED BY <2>2, <3>1, <3>2, RentalsStay
  <2> QED BY <2>6, <2>7 DEF PuzzleRentalInv
<1>2. CASE \E i \in Listed : PuzzleRental!CancelListing(i)
  <2>1. PICK k \in Listed : PuzzleRental!CancelListing(k)
    BY <1>2
  <2> DEFINE r == [listing[k] EXCEPT !.status = "Cancelled"]
  <2>2. /\ listing[k] # None /\ listing' = [listing EXCEPT ![k] = r]
        /\ active_listings' = active_listings \ {k} /\ next_listing' = next_listing
        /\ UNCHANGED <<bal, rental, renter_rentals, history, strayed>> /\ now' = now
        /\ UNCHANGED <<next_rental, initialized, late>>
    BY <2>1 DEF PuzzleRental!CancelListing, PuzzleRental!rentals
  <2>3. r \in ListingRecord
    <3>1. listing[k] \in ListingRecord
      BY <2>2 DEF PuzzleRentalInv, ListingsInv
    <3> QED BY <3>1 DEF ListingRecord
  <2> HIDE DEF r
  <2>4. r # None
    BY <2>3, PuzzleRentalAssumption
  <2>5. /\ listing' \in [Listed -> ListingRecord \cup {None}] /\ listing'[k] = r
        /\ \A i \in Listed \ {k} : listing'[i] = listing[i]
    BY <2>2, <2>3 DEF PuzzleRentalInv, ListingsInv
  <2>6. ListingsInv'
    <3>1. \A i \in active_listings' : i \in Listed /\ listing'[i] # None /\ listing'[i].status = "Active"
      BY <2>2, <2>5 DEF PuzzleRentalInv, ListingsInv
    <3>2. ~late => \A i \in Listed : listing'[i] # None => i < next_listing'
      BY <2>2, <2>5 DEF PuzzleRentalInv, ListingsInv
    <3> QED BY <2>2, <2>5, <3>1, <3>2 DEF PuzzleRentalInv, ListingsInv
  <2>7. RentalsInv'
    <3>1. \A i \in Listed : listing[i] # None =>
            listing'[i] # None /\ (~late' => listing'[i].token = listing[i].token)
      <4>1. listing[k] \in ListingRecord /\ r.token = listing[k].token
        BY <2>2 DEF PuzzleRentalInv, ListingsInv, ListingRecord, r
      <4> QED BY <2>2, <2>4, <2>5, <4>1
    <3>2. next_rental' \in Nat \ {0} /\ now' \in {now, now + 1}
      BY <2>2 DEF PuzzleRentalInv, RentalsInv
    <3> QED BY <2>2, <3>1, <3>2, RentalsStay
  <2> QED BY <2>6, <2>7 DEF PuzzleRentalInv
<1> QED BY <1>1, <1>2

LEMMA PuzzleRentalStep ==
  ASSUME PuzzleRentalInv, PuzzleRental!Next \/ UNCHANGED PuzzleRental!vars
  PROVE  PuzzleRentalInv'
<1>1. DOMAIN listing = Listed /\ DOMAIN rental = Rented /\ next_rental \in Nat \ {0}
  BY DEF PuzzleRentalInv, ListingsInv, RentalsInv
<1>2. CASE PuzzleRental!Initialize
  <2>1. ListingsInv'
    <3>1. /\ initialized' = TRUE /\ next_listing' = 1 /\ active_listings' = {} /\ listing' = listing
          /\ late' = (next_listing > 1) /\ ~late
      BY <1>2 DEF PuzzleRentalInv, ListingsInv, PuzzleRental!Initialize
    <3>2. ASSUME ~late' PROVE \A i \in Listed : listing'[i] # None => i < next_listing'
      <4>1. ~(next_listing > 1)
        BY <3>1, <3>2, Zenon
      <4>2. next_listing = 1
        BY <4>1 DEF PuzzleRentalInv, ListingsInv
      <4> QED BY <3>1, <4>2 DEF PuzzleRentalInv, ListingsInv
    <3> QED BY <3>1, <3>2 DEF PuzzleRentalInv, ListingsInv
  <2>2. /\ UNCHANGED <<bal, rental, renter_rentals, history, strayed>> /\ now' \in {now, now + 1}
        /\ next_rental' \in Nat \ {0} /\ listing' = listing
        /\ late => late'
    BY <1>2 DEF PuzzleRental!Initialize, PuzzleRentalInv, ListingsInv
  <2>3. RentalsInv'
    BY <2>2, RentalsStay
  <2> QED BY <2>1, <2>3 DEF PuzzleRentalInv
<1>3. CASE PuzzleRental!Tick \/ UNCHANGED PuzzleRental!vars
  <2>1. /\ UNCHANGED <<bal, rental, renter_rentals, history, strayed>> /\ now' \in {now, now + 1}
        /\ next_rental' \in Nat \ {0} /\ listing' = listing
        /\ UNCHANGED <<listing, next_listing, active_listings, initialized, late>>
    BY <1>1, <1>3
    DEF PuzzleRental!Tick, PuzzleRental!vars, PuzzleRental!market, PuzzleRental!rentals
  <2>2. RentalsInv'
    BY <2>1, RentalsStay
  <2> QED BY <2>1, <2>2, ListingsStay DEF PuzzleRentalInv
<1>4. ASSUME NEW u \in Tenants, NEW i \in Listed, NEW n \in 1 .. 2, PuzzleRental!Rent(u, i, n)
      PROVE  PuzzleRentalInv'
  <2>1. n \in Nat
    OBVIOUS
  <2> QED BY <1>4, <2>1, RentKeeps
<1> QED
  BY <1>1, <1>2, <1>3, <1>4, ListingKeeps, ExtendKeeps, EndKeeps DEF PuzzleRental!Next, Tenants

LEMMA PuzzleRentalInit == ASSUME PuzzleRental!Init PROVE PuzzleRentalInv
<1>1. /\ bal \in RentBalances /\ \A t \in RentCoins : bal[t][Self] = 0 /\ strayed[t] = 0
      /\ \A i \in Rented : rental[i] = None
  BY PuzzleRentalAssumption DEF PuzzleRental!Init, Tenants, Rented, RentCoins, RentBalances
<1>2. ASSUME NEW t \in RentCoins PROVE Total(PaidForRentals(t)) = 0
  <2> DEFINE f == PaidForRentals(t)
  <2>1. f \in [Rented -> Nat] /\ \A i \in Rented : f[i] = 0
    BY <1>1 DEF PaidForRentals, PaidFor, Runs
  <2> HIDE DEF f
  <2> QED BY <2>1, TotalZero DEF f
<1>3. \A i \in Rented : RentalSays(i)
  BY <1>1 DEF RentalSays, Runs
<1>4. ListingsInv
  BY DEF PuzzleRental!Init, ListingsInv, Listed
<1>5. RentalsInv
  BY <1>1, <1>2, <1>3 DEF PuzzleRental!Init, RentalsInv, Rented, Tenants, RentCoins
<1> QED BY <1>4, <1>5 DEF PuzzleRentalInv

LEMMA PuzzleRentalSays == ASSUME PuzzleRentalInv PROVE PuzzleRental!RentalsBacked
<1> DEFINE there == {i \in DOMAIN rental : rental[i] # None}
           open == {i \in there : rental[i].status = "Active"}
           of(t) == {i \in open : rental[i].token = t}
           counted(t) == [i \in of(t) |-> rental[i].total_paid]
<1>1. /\ DOMAIN rental = Rented /\ open = {i \in Rented : Runs(i)} /\ open \in SUBSET Rented
      /\ \A i \in there \ open : i \in Rented /\ rental[i] # None /\ rental[i].status # "Active"
  BY DEF PuzzleRentalInv, RentalsInv, Runs
<1>2. \A t : PuzzleRental!Total(counted(t)) = Total(counted(t))
  BY Zenon DEF PuzzleRental!Total, Total, PuzzleRental!Units, Units, PuzzleRental!Cardinality,
               Cardinality
<1>3. ASSUME NEW t \in RentCoins PROVE Total(counted(t)) = Total(PaidForRentals(t))
  <2> DEFINE k == [i \in Rented |-> PaidFor(t, i)]
             T == of(t)
  <2>1. \A i \in T : k[i] \in Nat /\ k[i] = rental[i].total_paid
    BY <1>1 DEF PaidFor, Runs, PuzzleRentalInv, RentalsInv, RentalRecord
  <2>2. [i \in T |-> k[i]] = counted(t)
    BY <2>1
  <2>3. [i \in Rented |-> IF i \in T THEN k[i] ELSE 0] = PaidForRentals(t)
    BY <1>1 DEF PaidForRentals, PaidFor
  <2>4. T \in SUBSET Rented
    BY <1>1
  <2> HIDE DEF k, T, open, counted
  <2>5. Total([i \in T |-> k[i]]) = Total([i \in Rented |-> IF i \in T THEN k[i] ELSE 0])
    BY <2>1, <2>4, TotalWithin
  <2> QED BY <2>2, <2>3, <2>5
<1>4. \A t \in RentCoins : /\ bal[t][Self] + strayed[t] >= PuzzleRental!Total(counted(t))
                           /\ ~late => strayed[t] = 0
  <2>1. ASSUME NEW t \in RentCoins
        PROVE  bal[t][Self] + strayed[t] >= PuzzleRental!Total(counted(t))
    <3>1. bal[t][Self] + strayed[t] >= Total(PaidForRentals(t))
      BY DEF PuzzleRentalInv, RentalsInv
    <3>2. PuzzleRental!Total(counted(t)) = Total(PaidForRentals(t))
      BY <1>2, <1>3
    <3> HIDE DEF counted
    <3> QED BY <3>1, <3>2
  <2> HIDE DEF counted
  <2> QED BY <2>1 DEF PuzzleRentalInv, RentalsInv
<1>5. \A i \in there \ open :
        history[i] = [total_paid |-> rental[i].total_paid, final_status |-> rental[i].status]
  BY <1>1 DEF PuzzleRentalInv, RentalsInv, RentalSays
<1>6. \A i \in open :
        PuzzleRental!Running(i) => PuzzleRental!HasAccess(rental[i].renter, rental[i].nft)
  BY <1>1 DEF PuzzleRentalInv, RentalsInv, RentalSays, PuzzleRental!HasAccess
<1>7. \A i \in active_listings : listing[i].status = "Active"
  BY DEF PuzzleRentalInv, ListingsInv
<1> QED BY <1>4, <1>5, <1>6, <1>7 DEF PuzzleRental!RentalsBacked, RentCoins

-----------------------------------------------------------------------------
(***************************************************************************)
(* Proofs: staking with a yearly reward.                                   *)
(***************************************************************************)
StakingApys == OfStaking.Apys \cup {OfStaking.DEFAULT_CONFIG.apy}
StakingSettings ==
  [apy : StakingApys,
   thresholds : OfStaking.Thresholds \cup {OfStaking.DEFAULT_CONFIG.thresholds},
   params : [lock : Nat, early : Nat, emergency : Nat], paused : BOOLEAN]
StakerRecord ==
  [staked : 0 .. OfStaking.MaxStake, staked_at : Nat, claimed_at : Nat, accumulated : Nat,
   tier : {"None", "Bronze", "Silver", "Gold"}]

\* The stakers and the settings: the rates are numbers, and one of all those
\* that can be set is the highest (there are finitely many, u32 in the code).
ASSUME StakingAssumption ==
  /\ IsFiniteSet(OfStaking.Stakers) /\ Self \notin OfStaking.Stakers
  /\ Self # OfStaking.Admin
  /\ OfStaking.Amounts \subseteq Nat \ {0}
  /\ OfStaking.BASIS_POINTS \in Nat \ {0} /\ OfStaking.YEAR \in Nat \ {0}
  /\ OfStaking.InitBalance \in Nat /\ OfStaking.MaxStake \in Nat
  /\ OfStaking.DEFAULT_CONFIG \in StakingSettings
  /\ OfStaking.Params \subseteq [lock : Nat, early : Nat, emergency : Nat]
  /\ \A a \in StakingApys :
       a.base \in Nat /\ a.bronze \in Nat /\ a.silver \in Nat /\ a.gold \in Nat
  /\ \E r \in Staking!Rates : \A q \in Staking!Rates : q <= r
  /\ None \notin StakingSettings /\ None \notin StakerRecord

BestRate == Staking!BestRate
YearUnits == OfStaking.BASIS_POINTS * OfStaking.YEAR
StakedBy(p) == IF info[p] = None THEN 0 ELSE info[p].staked
StakedByAll == [p \in OfStaking.Stakers |-> StakedBy(p)]

\* With record i, k rewards paid and v of stake and time, what was earned until
\* the last time that was settled is not too much for the stake and time then.
Settlement(i, k, v) ==
  /\ i.claimed_at <= now /\ i.staked * (now - i.claimed_at) <= v
  /\ (k + i.accumulated) * YearUnits <= BestRate * (v - i.staked * (now - i.claimed_at))

EarnedBy(p) ==
  IF info[p] = None THEN paid_out[p] = 0
  ELSE config # None /\ Settlement(info[p], paid_out[p], stake_time[p])

StakesBooked ==
  /\ info \in [OfStaking.Stakers -> StakerRecord \cup {None}]
  /\ total_staked = Total(StakedByAll)
  /\ stakers = {p \in OfStaking.Stakers : StakedBy(p) > 0}
  /\ paid_out \in [OfStaking.Stakers -> Nat] /\ stake_time \in [OfStaking.Stakers -> Nat]
  /\ \A p \in OfStaking.Stakers : EarnedBy(p)

StakingInv ==
  /\ now \in Nat /\ reward_pool \in Nat
  /\ bal \in [OfStaking.Stakers \cup {Self, OfStaking.Admin} -> Nat]
  /\ bal[Self] >= total_staked + reward_pool
  /\ config \in StakingSettings \cup {None}
  /\ StakesBooked

LEMMA BestRateIs == BestRate \in Nat /\ \A q \in Staking!Rates : q <= BestRate
<1> DEFINE R == Staking!Rates
           best(r) == \A q \in R : q <= r
<1>1. \E r \in R : best(r)
  BY StakingAssumption
<1>2. \A r \in R : r \in Nat
  BY StakingAssumption DEF Staking!Rates, StakingApys
<1>3. BestRate = CHOOSE r \in R : best(r)
  BY DEF BestRate, Staking!BestRate
<1> HIDE DEF R, best
<1>4. BestRate \in R /\ best(BestRate)
  BY <1>1, <1>3
<1> QED BY <1>2, <1>4 DEF best, R

LEMMA RateOfTier ==
  ASSUME config \in StakingSettings, NEW t \in {"None", "Bronze", "Silver", "Gold"}
  PROVE  Staking!GetApyForTier(t) \in Nat /\ Staking!GetApyForTier(t) <= BestRate
<1> DEFINE a == config.apy
<1>1. a \in StakingApys
  BY DEF StakingSettings
<1>2. a.base \in Nat /\ a.bronze \in Nat /\ a.silver \in Nat /\ a.gold \in Nat
  BY <1>1, StakingAssumption
<1>3. {a.base, a.base + a.bronze, a.base + a.silver, a.base + a.gold} \subseteq Staking!Rates
  BY <1>1 DEF Staking!Rates, StakingApys
<1>4. \/ Staking!GetApyForTier(t) = a.base + 0
      \/ Staking!GetApyForTier(t) = a.base + a.bronze
      \/ Staking!GetApyForTier(t) = a.base + a.silver
      \/ Staking!GetApyForTier(t) = a.base + a.gold
  BY DEF Staking!GetApyForTier
<1> HIDE DEF a
<1>5. Staking!GetApyForTier(t) \in Staking!Rates /\ Staking!GetApyForTier(t) \in Nat
  BY <1>2, <1>3, <1>4
<1> QED BY <1>5, BestRateIs

\* Rewards that are rounded down twice are at most the exact ones.
LEMMA RoundedTwice ==
  ASSUME NEW s \in Nat, NEW r \in Nat, NEW m \in Nat, NEW b \in Nat, NEW t \in Nat,
         NEW u \in Nat \ {0}, NEW y \in Nat \ {0}, s <= m, r <= b
  PROVE  LET pend == (((s * r) \div u) * t) \div y
         IN pend \in Nat /\ pend * (u * y) <= (m * b) * t
<1> DEFINE a == s * r
           q == a \div u
           c == q * t
           d == c \div y
<1>1. a \in Nat /\ a <= m * b
  <2>1. s * r <= m * r /\ r * m <= b * m
    BY ProductGrows
  <2>2. s * r \in Nat /\ m * r = r * m /\ b * m = m * b /\ r * m \in Nat /\ b * m \in Nat
    OBVIOUS
  <2> QED BY <2>1, <2>2
<1> HIDE DEF a
<1>2. q \in Nat /\ q * u <= a
  BY <1>1, Floor
<1> HIDE DEF q
<1>3. c \in Nat
  BY <1>2
<1> HIDE DEF c
<1>4. d \in Nat /\ d * y <= c
  BY <1>3, Floor
<1> HIDE DEF d
<1>5. (d * y) * u <= c * u
  BY <1>3, <1>4, ProductGrows, d * y \in Nat
<1>6. (q * u) * t <= a * t /\ a * t <= (m * b) * t
  BY <1>1, <1>2, ProductGrows, q * u \in Nat, m * b \in Nat
<1>7. d * (u * y) = (d * y) * u
  BY <1>4
<1>8. c * u = (q * u) * t
  BY <1>2 DEF c
<1>9. /\ (d * y) * u \in Nat /\ c * u \in Nat /\ (q * u) * t \in Nat /\ a * t \in Nat
      /\ (m * b) * t \in Nat
  BY <1>1, <1>2, <1>3, <1>4
<1>10. d * (u * y) <= (m * b) * t
  BY <1>5, <1>6, <1>7, <1>8, <1>9
<1> QED BY <1>4, <1>10 DEF d, c, q, a

LEMMA UnitsOfYears == YearUnits \in Nat \ {0}
BY StakingAssumption, Multiplied DEF YearUnits

\* Nor is what has accrued since.
LEMMA Accrued ==
  ASSUME config \in StakingSettings, now \in Nat, NEW i \in StakerRecord, NEW k \in Nat,
         NEW v \in Nat, Settlement(i, k, v)
  PROVE  LET total == i.accumulated + Staking!CalculatePendingRewards(i)
         IN /\ Staking!CalculatePendingRewards(i) \in Nat /\ total \in Nat
            /\ (k + total) * YearUnits <= BestRate * v
<1> DEFINE s == i.staked
           r == Staking!GetApyForTier(i.tier)
           t == now - i.claimed_at
           u == OfStaking.BASIS_POINTS
           y == OfStaking.YEAR
           a == i.accumulated
           b == BestRate
           e == s * t
           pend == (((s * r) \div u) * t) \div y
<1>1. /\ s \in Nat /\ i.tier \in {"None", "Bronze", "Silver", "Gold"} /\ t \in Nat
      /\ u \in Nat \ {0} /\ y \in Nat \ {0} /\ a \in Nat /\ b \in Nat
      /\ e <= v /\ (k + a) * (u * y) <= b * (v - e)
  BY StakingAssumption, BestRateIs DEF StakerRecord, Settlement, YearUnits
<1>2. r \in Nat /\ r <= b
  BY <1>1, RateOfTier
<1>3. Staking!CalculatePendingRewards(i) = pend
  BY DEF Staking!CalculatePendingRewards
<1>4. b = BestRate /\ a = i.accumulated
  OBVIOUS
<1> HIDE DEF s, r, t, u, y, a, b
<1>5. pend \in Nat /\ pend * (u * y) <= (s * b) * t
  BY <1>1, <1>2, s <= s, RoundedTwice
<1> HIDE DEF pend
<1>6. (s * b) * t = b * e /\ e \in Nat
  BY <1>1
<1> HIDE DEF e
<1> DEFINE w == u * y
           z == v - e
<1>7. w \in Nat /\ z \in Nat /\ v = z + e
  BY <1>1, <1>6
<1>8. pend * w <= b * e /\ (k + a) * w <= b * z
  BY <1>1, <1>5, <1>6
<1> HIDE DEF w, z
<1>9. (k + (a + pend)) * w = (k + a) * w + pend * w /\ b * (z + e) = b * z + b * e
  BY <1>1, <1>5, <1>6, <1>7
<1>10. (k + a) * w \in Nat /\ pend * w \in Nat /\ b * z \in Nat /\ b * e \in Nat
  BY <1>1, <1>5, <1>6, <1>7
<1>11. (k + (a + pend)) * w <= b * v /\ a + pend \in Nat
  BY <1>1, <1>5, <1>7, <1>8, <1>9, <1>10
<1> QED BY <1>3, <1>4, <1>5, <1>11 DEF w, u, y, YearUnits

\* A record that is settled now.
LEMMA SettledNow ==
  ASSUME now \in Nat, NEW r \in StakerRecord, NEW k \in Nat, NEW v \in Nat, r.claimed_at <= now,
         r.claimed_at = now \/ r.staked = 0, (k + r.accumulated) * YearUnits <= BestRate * v
  PROVE  Settlement(r, k, v)
<1>1. r.staked \in Nat /\ r.claimed_at \in Nat
  BY DEF StakerRecord
<1>2. r.staked * (now - r.claimed_at) = 0
  BY <1>1
<1>3. v - 0 = v
  OBVIOUS
<1> QED BY <1>2, <1>3 DEF Settlement

\* The record of p becomes r, and k are paid.
LEMMA StakerBecomes ==
  ASSUME StakesBooked, now \in Nat, NEW p \in OfStaking.Stakers, NEW r \in StakerRecord,
         NEW k \in Nat, paid_out' = [paid_out EXCEPT ![p] = k], stake_time' = stake_time,
         info' = [info EXCEPT ![p] = r], now' = now, config' = config, config # None,
         Settlement(r, k, stake_time[p]), total_staked' = total_staked + (r.staked - StakedBy(p)),
         stakers' = IF r.staked > 0 THEN stakers \cup {p} ELSE stakers \ {p}
  PROVE  StakesBooked'
<1> DEFINE f == StakedByAll
           g == StakedByAll'
           P == OfStaking.Stakers
<1>1. info' \in [P -> StakerRecord \cup {None}] /\ r.staked \in Nat /\ r # None
  BY StakingAssumption DEF StakesBooked, StakerRecord
<1>2. StakedBy(p)' = r.staked /\ \A q \in P \ {p} : StakedBy(q)' = StakedBy(q)
  BY <1>1 DEF StakesBooked, StakedBy
<1>3. \A q \in P : StakedBy(q) \in Nat /\ StakedBy(q)' \in Nat
  BY <1>1 DEF StakesBooked, StakedBy, StakerRecord
<1>4. /\ f \in [P -> Nat] /\ g \in [P -> Nat] /\ IsFiniteSet(P)
      /\ f[p] = StakedBy(p) /\ g[p] = r.staked /\ \A q \in P \ {p} : g[q] = f[q]
  BY <1>2, <1>3, StakingAssumption DEF StakedByAll
<1>5. total_staked = Total(f)
  BY DEF StakesBooked
<1> HIDE DEF f, g
<1>6. Total(g) = Total(f) + (g[p] - f[p])
  BY <1>4, TotalChange
<1>7. total_staked' = Total(g)
  BY <1>4, <1>5, <1>6
<1>8. stakers' = {q \in P : StakedBy(q)' > 0}
  BY <1>1, <1>2 DEF StakesBooked
<1>9. /\ paid_out' \in [P -> Nat] /\ stake_time' \in [P -> Nat]
      /\ \A q \in P : EarnedBy(q)'
  <2>1. /\ paid_out' \in [P -> Nat] /\ stake_time' \in [P -> Nat] /\ paid_out'[p] = k
        /\ info'[p] = r
        /\ \A q \in P \ {p} : info'[q] = info[q] /\ paid_out'[q] = paid_out[q] /\ EarnedBy(q)
    BY DEF StakesBooked
  <2>2. ASSUME NEW q \in P PROVE EarnedBy(q)'
    <3>1. CASE q = p
      BY <1>1, <2>1, <3>1 DEF EarnedBy, Settlement
    <3>2. CASE q # p
      BY <2>1, <3>2 DEF EarnedBy, Settlement
    <3> QED BY <3>1, <3>2
  <2> QED BY <2>1, <2>2
<1> HIDE DEF P
<1> QED BY <1>1, <1>7, <1>8, <1>9 DEF StakesBooked, g, P

\* The stake becomes n, and what it earned is kept; staked_at is any time.
LEMMA SettledRecord ==
  ASSUME config \in StakingSettings, now \in Nat, NEW i \in StakerRecord, NEW k \in Nat,
         NEW v \in Nat, Settlement(i, k, v), NEW n \in 0 .. OfStaking.MaxStake
  PROVE  LET r == Staking!Settled(i, n)
             s == [r EXCEPT !.staked_at = now]
         IN /\ r \in StakerRecord /\ r.staked = n /\ Settlement(r, k, v)
            /\ s \in StakerRecord /\ s.staked = n /\ Settlement(s, k, v)
<1> DEFINE total == i.accumulated + Staking!CalculatePendingRewards(i)
           c == Staking!CalculateTier(n)
           r == Staking!Settled(i, n)
           s == [r EXCEPT !.staked_at = now]
<1>1. total \in Nat /\ (k + total) * YearUnits <= BestRate * v
  BY Accrued
<1>2. c \in {"None", "Bronze", "Silver", "Gold"}
  BY DEF Staking!CalculateTier
<1>3. r = [i EXCEPT !.accumulated = total, !.staked = n, !.claimed_at = now, !.tier = c]
  BY DEF Staking!Settled
<1> HIDE DEF total, c, r
<1>4. r \in StakerRecord /\ r.staked = n /\ r.accumulated = total /\ r.claimed_at = now
  BY <1>1, <1>2, <1>3 DEF StakerRecord
<1>5. s \in StakerRecord /\ s.staked = n /\ s.accumulated = total /\ s.claimed_at = now
  BY <1>4 DEF StakerRecord
<1> HIDE DEF s
<1>6. Settlement(r, k, v) /\ Settlement(s, k, v)
  BY <1>1, <1>4, <1>5, now <= now, SettledNow
<1> QED BY <1>4, <1>5, <1>6 DEF r, s

LEMMA EmptyRecord ==
  ASSUME now \in Nat, NEW t \in {0, now}, NEW k \in Nat, NEW v \in Nat,
         k * YearUnits <= BestRate * v
  PROVE  LET r == [Staking!Empty EXCEPT !.claimed_at = t]
         IN r \in StakerRecord /\ r.staked = 0 /\ Settlement(r, k, v)
<1> DEFINE r == [Staking!Empty EXCEPT !.claimed_at = t]
<1>1. r = [staked |-> 0, staked_at |-> 0, claimed_at |-> t, accumulated |-> 0, tier |-> "None"]
  BY DEF Staking!Empty
<1>2. t \in Nat /\ t <= now /\ 0 \in 0 .. OfStaking.MaxStake /\ k + 0 = k
  BY StakingAssumption
<1> HIDE DEF r
<1>3. r \in StakerRecord /\ r.staked = 0 /\ r.accumulated = 0 /\ r.claimed_at = t
  BY <1>1, <1>2 DEF StakerRecord
<1>4. Settlement(r, k, v)
  BY <1>2, <1>3, SettledNow
<1> QED BY <1>3, <1>4 DEF r

\* A penalty is a number.
LEMMA PenaltyIs ==
  ASSUME NEW n \in Nat, NEW b \in Nat
  PROVE  Staking!Penalty(n, b) \in Nat
BY StakingAssumption, Multiplied, Divided DEF Staking!Penalty

\* The tokens move, of which the contract keeps enough.
LEMMA StakingMoves ==
  ASSUME StakingInv, NEW from \in OfStaking.Stakers \cup {Self, OfStaking.Admin},
         NEW to \in OfStaking.Stakers \cup {Self, OfStaking.Admin}, NEW n \in Int,
         Staking!Transfer(from, to, n), from # to
  PROVE  /\ bal' \in [OfStaking.Stakers \cup {Self, OfStaking.Admin} -> Nat] /\ n \in Nat
         /\ bal'[from] = bal[from] - n /\ bal'[to] = bal[to] + n
         /\ bal[Self] \in Nat /\ total_staked \in Nat
<1>1. n \in Nat /\ Moves(from, to, n)
  BY DEF Staking!Transfer, Moves
<1>2. bal \in [OfStaking.Stakers \cup {Self, OfStaking.Admin} -> Nat]
  BY DEF StakingInv
<1>3. total_staked \in Nat
  <2> DEFINE f == StakedByAll
  <2>1. f \in [OfStaking.Stakers -> Nat]
    BY DEF StakingInv, StakesBooked, StakedByAll, StakedBy, StakerRecord
  <2>2. total_staked = Total(f)
    BY DEF StakingInv, StakesBooked
  <2> HIDE DEF f
  <2> QED BY <2>1, <2>2, StakingAssumption, UnitsFinite
<1> QED BY <1>1, <1>2, <1>3, Moved

LEMMA StakingStake ==
  ASSUME StakingInv, NEW p \in OfStaking.Stakers, NEW n \in OfStaking.Amounts,
         Staking!Stake(p, n)
  PROVE  StakingInv'
<1> DEFINE old == IF info[p] = None THEN [Staking!Empty EXCEPT !.claimed_at = now] ELSE info[p]
           k == old.staked + n
           r == [Staking!Settled(old, k) EXCEPT !.staked_at = now]
<1>1. /\ config # None /\ k <= OfStaking.MaxStake /\ Staking!Transfer(p, Self, n)
      /\ info' = [info EXCEPT ![p] = r] /\ stakers' = stakers \cup {p}
      /\ total_staked' = total_staked + n
      /\ now' = now /\ config' = config /\ reward_pool' = reward_pool
      /\ paid_out' = paid_out /\ stake_time' = stake_time
  BY DEF Staking!Stake, Staking!Open, Staking!Initialized, Staking!books
<1>2. /\ now \in Nat /\ n \in Nat /\ n > 0 /\ config \in StakingSettings /\ p # Self
      /\ reward_pool \in Nat /\ bal[Self] >= total_staked + reward_pool
      /\ paid_out[p] \in Nat /\ stake_time[p] \in Nat
  BY <1>1, StakingAssumption DEF StakingInv, StakesBooked
<1>3. /\ old \in StakerRecord /\ Settlement(old, paid_out[p], stake_time[p])
      /\ old.staked = StakedBy(p)
  <2>1. CASE info[p] = None
    <3>1. paid_out[p] = 0
      BY <2>1 DEF StakingInv, StakesBooked, EarnedBy
    <3>2. 0 * YearUnits <= BestRate * stake_time[p]
      BY <1>2, UnitsOfYears, BestRateIs, Multiplied
    <3>3. old = [Staking!Empty EXCEPT !.claimed_at = now]
      BY <2>1
    <3> HIDE DEF old
    <3> QED BY <1>2, <2>1, <3>1, <3>2, <3>3, EmptyRecord DEF StakedBy
  <2>2. CASE info[p] # None
    BY <2>2 DEF StakingInv, StakesBooked, StakedBy, EarnedBy
  <2> QED BY <2>1, <2>2
<1> HIDE DEF old
<1>4. old.staked \in Nat /\ k \in 0 .. OfStaking.MaxStake /\ k > 0 /\ k - StakedBy(p) = n
  <2>1. old.staked \in 0 .. OfStaking.MaxStake
    BY <1>3 DEF StakerRecord
  <2> QED BY <1>1, <1>2, <1>3, <2>1, StakingAssumption
<1> HIDE DEF k
<1>5. r \in StakerRecord /\ r.staked = k /\ Settlement(r, paid_out[p], stake_time[p])
  BY <1>2, <1>3, <1>4, SettledRecord
<1> HIDE DEF r
<1>6. StakesBooked'
  <2>1. StakesBooked
    BY DEF StakingInv
  <2>2. stakers' = IF r.staked > 0 THEN stakers \cup {p} ELSE stakers \ {p}
    BY <1>1, <1>4, <1>5
  <2>3. total_staked' = total_staked + (r.staked - StakedBy(p))
    BY <1>1, <1>4, <1>5
  <2>4. paid_out' = [paid_out EXCEPT ![p] = paid_out[p]]
    BY <1>1, <2>1 DEF StakesBooked
  <2> QED BY <1>1, <1>2, <1>5, <2>1, <2>2, <2>3, <2>4, StakerBecomes
<1>7. /\ bal' \in [OfStaking.Stakers \cup {Self, OfStaking.Admin} -> Nat]
      /\ bal'[Self] = bal[Self] + n /\ bal[Self] \in Nat /\ total_staked \in Nat
  BY <1>1, <1>2, n \in Int, StakingMoves
<1> QED BY <1>1, <1>2, <1>6, <1>7 DEF StakingInv

\* The stake shrinks by n, of which x is paid.
LEMMA StakeShrinks ==
  ASSUME StakingInv, config # None, NEW p \in OfStaking.Stakers, NEW n \in Nat, NEW x \in Int,
         info[p] # None, info[p].staked >= n, n > 0, x <= n, NEW r \in StakerRecord,
         Settlement(r, paid_out[p], stake_time[p]), paid_out' = paid_out, stake_time' = stake_time,
         r.staked = info[p].staked - n, info' = [info EXCEPT ![p] = r],
         Staking!Transfer(Self, p, x), total_staked' = total_staked - n,
         stakers' = IF info[p].staked = n THEN stakers \ {p} ELSE stakers,
         now' = now, config' = config, reward_pool' = reward_pool
  PROVE  StakingInv'
<1>1. /\ now \in Nat /\ p # Self /\ reward_pool \in Nat /\ StakesBooked
      /\ bal[Self] >= total_staked + reward_pool /\ config \in StakingSettings \cup {None}
  BY StakingAssumption DEF StakingInv
<1>2. info[p].staked \in Nat /\ StakedBy(p) = info[p].staked
  BY <1>1 DEF StakesBooked, StakerRecord, StakedBy
<1>3. stakers' = IF r.staked > 0 THEN stakers \cup {p} ELSE stakers \ {p}
  <2>1. p \in stakers
    BY <1>1, <1>2 DEF StakesBooked
  <2>2. (r.staked > 0) <=> (info[p].staked # n)
    BY <1>2
  <2>3. stakers \cup {p} = stakers
    BY <2>1
  <2> QED BY <2>2, <2>3
<1>4. /\ bal' \in [OfStaking.Stakers \cup {Self, OfStaking.Admin} -> Nat]
      /\ bal'[Self] = bal[Self] - x /\ bal[Self] \in Nat /\ total_staked \in Nat
  BY <1>1, StakingMoves
<1>5. total_staked' = total_staked + (r.staked - StakedBy(p))
  BY <1>2, <1>4
<1>6. StakesBooked'
  <2>1. paid_out[p] \in Nat /\ paid_out' = [paid_out EXCEPT ![p] = paid_out[p]]
    BY <1>1 DEF StakesBooked
  <2> QED BY <1>1, <1>3, <1>5, <2>1, StakerBecomes
<1>7. bal'[Self] >= total_staked' + reward_pool'
  BY <1>1, <1>4
<1>8. config' \in StakingSettings \cup {None} /\ now' \in Nat /\ reward_pool' \in Nat
  BY <1>1
<1> QED BY <1>4, <1>6, <1>7, <1>8 DEF StakingInv

LEMMA StakingUnstake ==
  ASSUME StakingInv, NEW p \in OfStaking.Stakers, NEW n \in OfStaking.Amounts,
         Staking!Unstake(p, n)
  PROVE  StakingInv'
<1> DEFINE early == info[p] # None /\ now - info[p].staked_at < config.params.lock
           kept == IF early THEN Staking!Penalty(n, config.params.early) ELSE 0
           k == info[p].staked - n
           r == Staking!Settled(info[p], k)
<1>1. /\ config # None /\ info[p] # None /\ info[p].staked >= n
      /\ Staking!Transfer(Self, p, n - kept)
      /\ total_staked' = total_staked - n
      /\ stakers' = IF info[p].staked = n THEN stakers \ {p} ELSE stakers
      /\ now' = now /\ config' = config /\ reward_pool' = reward_pool
      /\ paid_out' = paid_out /\ stake_time' = stake_time
  BY DEF Staking!Unstake, Staking!Open, Staking!Initialized, Staking!books
<1>2. info' = [info EXCEPT ![p] = r]
  BY DEF Staking!Unstake
<1>3. /\ n \in Nat /\ n > 0 /\ now \in Nat /\ config \in StakingSettings
      /\ info[p] \in StakerRecord /\ Settlement(info[p], paid_out[p], stake_time[p])
      /\ paid_out[p] \in Nat /\ stake_time[p] \in Nat
  BY <1>1, StakingAssumption DEF StakingInv, StakesBooked, EarnedBy
<1>4. kept \in Nat
  <2>1. config.params.early \in Nat
    BY <1>3, StakingAssumption DEF StakingSettings
  <2> QED BY <1>3, <2>1, PenaltyIs
<1> HIDE DEF kept
<1>5. n - kept \in Int /\ n - kept <= n
  BY <1>3, <1>4
<1>6. k \in 0 .. OfStaking.MaxStake
  <2>1. info[p].staked \in 0 .. OfStaking.MaxStake
    BY <1>3 DEF StakerRecord
  <2> QED BY <1>1, <1>3, <2>1, StakingAssumption
<1> HIDE DEF k
<1>7. r \in StakerRecord /\ r.staked = k /\ Settlement(r, paid_out[p], stake_time[p])
  BY <1>3, <1>6, SettledRecord
<1> HIDE DEF r
<1>8. r.staked = info[p].staked - n
  BY <1>7 DEF k
<1> QED BY <1>1, <1>2, <1>3, <1>5, <1>7, <1>8, StakeShrinks

LEMMA StakingEmergency ==
  ASSUME StakingInv, NEW p \in OfStaking.Stakers, Staking!EmergencyWithdraw(p)
  PROVE  StakingInv'
<1> DEFINE n == info[p].staked
           kept == Staking!Penalty(n, config.params.emergency)
           r == [Staking!Empty EXCEPT !.claimed_at = 0]
<1>1. /\ info[p] # None /\ n > 0
      /\ Staking!Transfer(Self, p, n - kept)
      /\ total_staked' = total_staked - n /\ stakers' = stakers \ {p}
      /\ now' = now /\ config' = config /\ reward_pool' = reward_pool
      /\ paid_out' = paid_out /\ stake_time' = stake_time
  BY DEF Staking!EmergencyWithdraw, Staking!books
<1>2. info' = [info EXCEPT ![p] = r]
  BY DEF Staking!EmergencyWithdraw, Staking!Empty
<1>3. /\ config # None /\ now \in Nat /\ config \in StakingSettings
      /\ n \in Nat /\ paid_out[p] \in Nat /\ stake_time[p] \in Nat
      /\ info[p] \in StakerRecord /\ Settlement(info[p], paid_out[p], stake_time[p])
  BY <1>1 DEF StakingInv, StakesBooked, StakerRecord, EarnedBy
<1>4. kept \in Nat
  <2>1. config.params.emergency \in Nat
    BY <1>3, StakingAssumption DEF StakingSettings
  <2> QED BY <1>3, <2>1, PenaltyIs
<1> HIDE DEF kept
<1>5. n - kept \in Int /\ n - kept <= n
  BY <1>3, <1>4
<1>6. r \in StakerRecord /\ r.staked = 0 /\ Settlement(r, paid_out[p], stake_time[p])
  <2> DEFINE total == info[p].accumulated + Staking!CalculatePendingRewards(info[p])
             k == paid_out[p]
             z == BestRate * stake_time[p]
  <2>1. total \in Nat /\ (k + total) * YearUnits <= z
    BY <1>3, Accrued
  <2>2. YearUnits \in Nat \ {0} /\ z \in Nat /\ k \in Nat
    BY <1>3, UnitsOfYears, BestRateIs
  <2> HIDE DEF total, z, k
  <2>3. k * YearUnits <= (k + total) * YearUnits
    BY <2>1, <2>2, ProductGrows
  <2>4. k * YearUnits <= z
    BY <2>1, <2>2, <2>3
  <2> QED BY <1>3, <2>4, EmptyRecord DEF z, k
<1> HIDE DEF r
<1>7. /\ r.staked = info[p].staked - n /\ info[p].staked >= n
      /\ stakers' = IF info[p].staked = n THEN stakers \ {p} ELSE stakers
  BY <1>1, <1>3, <1>6
<1> QED BY <1>1, <1>2, <1>3, <1>5, <1>6, <1>7, StakeShrinks

LEMMA StakingClaim ==
  ASSUME StakingInv, NEW p \in OfStaking.Stakers, Staking!ClaimRewards(p)
  PROVE  StakingInv'
<1> DEFINE total == info[p].accumulated + Staking!CalculatePendingRewards(info[p])
           r == [info[p] EXCEPT !.accumulated = 0, !.claimed_at = now]
           k == paid_out[p] + total
<1>1. /\ config # None /\ info[p] # None /\ total > 0 /\ reward_pool >= total
      /\ info' = [info EXCEPT ![p] = r]
      /\ reward_pool' = reward_pool - total /\ Staking!Transfer(Self, p, total)
      /\ now' = now /\ config' = config /\ stakers' = stakers /\ total_staked' = total_staked
      /\ paid_out' = [paid_out EXCEPT ![p] = @ + total] /\ stake_time' = stake_time
  BY DEF Staking!ClaimRewards, Staking!Open, Staking!Initialized
<1>2. /\ now \in Nat /\ config \in StakingSettings /\ p # Self /\ reward_pool \in Nat
      /\ info[p] \in StakerRecord /\ Settlement(info[p], paid_out[p], stake_time[p])
      /\ paid_out[p] \in Nat /\ stake_time[p] \in Nat /\ StakesBooked
      /\ bal[Self] >= total_staked + reward_pool
  BY <1>1, StakingAssumption DEF StakingInv, StakesBooked, EarnedBy
<1>3. total \in Nat /\ k * YearUnits <= BestRate * stake_time[p]
  BY <1>2, Accrued
<1> HIDE DEF total
<1>4. /\ bal' \in [OfStaking.Stakers \cup {Self, OfStaking.Admin} -> Nat]
      /\ bal'[Self] = bal[Self] - total /\ bal[Self] \in Nat /\ total_staked \in Nat
  BY <1>1, <1>2, <1>3, total \in Int, StakingMoves
<1>5. r \in StakerRecord /\ r.staked = info[p].staked /\ r.accumulated = 0 /\ r.claimed_at = now
  BY <1>2 DEF StakerRecord
<1>6. info[p].staked \in Nat /\ StakedBy(p) = info[p].staked
  BY <1>1, <1>2 DEF StakerRecord, StakedBy
<1> HIDE DEF r
<1>7. Settlement(r, k, stake_time[p]) /\ k \in Nat /\ paid_out' = [paid_out EXCEPT ![p] = k]
  <2>1. k \in Nat /\ k + r.accumulated = k /\ paid_out' = [paid_out EXCEPT ![p] = k]
    BY <1>1, <1>2, <1>3, <1>5
  <2> HIDE DEF k
  <2> QED BY <1>2, <1>3, <1>5, <2>1, SettledNow
<1> HIDE DEF k
<1>8. StakesBooked'
  <2>1. total_staked' = total_staked + (r.staked - StakedBy(p))
    BY <1>1, <1>4, <1>5, <1>6
  <2>2. stakers' = IF r.staked > 0 THEN stakers \cup {p} ELSE stakers \ {p}
    <3>1. (p \in stakers) <=> (r.staked > 0)
      BY <1>2, <1>5, <1>6 DEF StakesBooked
    <3>2. stakers' = stakers
      BY <1>1
    <3> QED BY <3>1, <3>2
  <2> QED BY <1>1, <1>2, <1>5, <1>7, <2>1, <2>2, StakerBecomes
<1>9. bal'[Self] >= total_staked' + reward_pool' /\ reward_pool' \in Nat
  BY <1>1, <1>2, <1>3, <1>4
<1> QED BY <1>1, <1>2, <1>4, <1>8, <1>9 DEF StakingInv

\* The settings, the rewards to pay and the time change.
LEMMA StakingOthers ==
  ASSUME StakingInv, info' = info, stakers' = stakers, total_staked' = total_staked,
         config' \in StakingSettings \cup {None}, config # None => config' # None,
         paid_out' = paid_out, reward_pool' \in Nat,
         \/ now' = now /\ stake_time' = stake_time
         \/ /\ now' = now + 1
            /\ stake_time' = [p \in OfStaking.Stakers |-> stake_time[p] + StakedBy(p)],
         bal' \in [OfStaking.Stakers \cup {Self, OfStaking.Admin} -> Nat],
         bal'[Self] >= total_staked + reward_pool'
  PROVE  StakingInv'
<1>1. StakesBooked /\ now \in Nat
  BY DEF StakingInv
<1>2. StakedByAll' = StakedByAll /\ \A p \in OfStaking.Stakers : StakedBy(p)' = StakedBy(p)
  BY DEF StakedByAll, StakedBy
<1>3. ASSUME NEW p \in OfStaking.Stakers PROVE stake_time'[p] \in Nat /\ EarnedBy(p)'
  <2> DEFINE v == stake_time[p]
             s == info[p].staked
             c == info[p].claimed_at
  <2>1. /\ EarnedBy(p) /\ v \in Nat /\ StakedBy(p) \in Nat /\ info'[p] = info[p]
        /\ paid_out'[p] = paid_out[p]
        /\ info[p] # None => s \in Nat /\ c \in Nat /\ StakedBy(p) = s
    BY <1>1 DEF StakesBooked, StakedBy, StakerRecord
  <2>2. CASE now' = now /\ stake_time' = stake_time
    BY <2>1, <2>2 DEF EarnedBy, Settlement
  <2>3. CASE /\ now' = now + 1
             /\ stake_time' = [q \in OfStaking.Stakers |-> stake_time[q] + StakedBy(q)]
    <3>1. stake_time'[p] = v + StakedBy(p) /\ stake_time'[p] \in Nat
      BY <2>1, <2>3
    <3>2. CASE info[p] = None
      BY <2>1, <3>1, <3>2 DEF EarnedBy
    <3>3. CASE info[p] # None
      <4>1. c <= now /\ s * (now - c) <= v
        BY <2>1, <3>3 DEF EarnedBy, Settlement
      <4>2. /\ now - c \in Nat /\ now' - c = (now - c) + 1 /\ c <= now' /\ s \in Nat
            /\ v \in Nat /\ stake_time'[p] = v + s
        BY <1>1, <2>1, <2>3, <3>1, <3>3, <4>1
      <4>3. s * (now' - c) = s * (now - c) + s /\ s * (now - c) \in Nat
        <5> DEFINE d == now - c
        <5>1. s * (d + 1) = s * d + s /\ s * d \in Nat
          BY <4>2
        <5> QED BY <4>2, <5>1
      <4>4. /\ s * (now' - c) <= stake_time'[p]
            /\ stake_time'[p] - s * (now' - c) = v - s * (now - c)
        BY <4>1, <4>2, <4>3
      <4> QED BY <2>1, <3>1, <3>3, <4>2, <4>4 DEF EarnedBy, Settlement
    <3> QED BY <3>1, <3>2, <3>3
  <2> QED BY <2>1, <2>2, <2>3
<1>4. stake_time' \in [OfStaking.Stakers -> Nat] /\ now' \in Nat
  BY <1>1, <1>3 DEF StakesBooked
<1>5. StakesBooked'
  BY <1>1, <1>2, <1>3, <1>4 DEF StakesBooked
<1> QED BY <1>4, <1>5 DEF StakingInv

LEMMA StakingStep ==
  ASSUME StakingInv, Staking!Next
  PROVE  StakingInv'
<1> DEFINE P == OfStaking.Stakers \cup {Self, OfStaking.Admin}
<1>1. /\ bal \in [P -> Nat] /\ config \in StakingSettings \cup {None} /\ now \in Nat
      /\ reward_pool \in Nat /\ bal[Self] >= total_staked + reward_pool
  BY DEF StakingInv
<1> HIDE DEF P
<1>2. ASSUME UNCHANGED <<bal, info, stakers, total_staked, reward_pool, now, paid_out, stake_time>>,
             config' \in StakingSettings
      PROVE  StakingInv'
  <2>1. config' # None
    BY <1>2, StakingAssumption
  <2> QED BY <1>1, <1>2, <2>1, StakingOthers DEF P
<1>3. CASE Staking!Initialize
  BY <1>2, <1>3, StakingAssumption DEF Staking!Initialize, Staking!books
<1>4. ASSUME NEW a \in OfStaking.Apys, Staking!UpdateApyConfig(a) PROVE StakingInv'
  <2>1. config \in StakingSettings
    BY <1>1, <1>4 DEF Staking!UpdateApyConfig, Staking!Initialized
  <2>2. config' \in StakingSettings
    BY <1>4, <2>1 DEF Staking!UpdateApyConfig, StakingSettings, StakingApys
  <2> QED BY <1>2, <1>4, <2>2 DEF Staking!UpdateApyConfig, Staking!books
<1>5. ASSUME NEW t \in OfStaking.Thresholds, Staking!UpdateTierThresholds(t) PROVE StakingInv'
  <2>1. config \in StakingSettings
    BY <1>1, <1>5 DEF Staking!UpdateTierThresholds, Staking!Initialized
  <2>2. config' \in StakingSettings
    BY <1>5, <2>1 DEF Staking!UpdateTierThresholds, StakingSettings
  <2> QED BY <1>2, <1>5, <2>2 DEF Staking!UpdateTierThresholds, Staking!books
<1>6. ASSUME NEW p \in OfStaking.Params, Staking!UpdateStakingParams(p) PROVE StakingInv'
  <2>1. config \in StakingSettings
    BY <1>1, <1>6 DEF Staking!UpdateStakingParams, Staking!Initialized
  <2>2. config' \in StakingSettings
    BY <1>6, <2>1, StakingAssumption DEF Staking!UpdateStakingParams, StakingSettings
  <2> QED BY <1>2, <1>6, <2>2 DEF Staking!UpdateStakingParams, Staking!books
<1>7. ASSUME NEW p \in BOOLEAN, Staking!SetPaused(p) PROVE StakingInv'
  <2>1. config \in StakingSettings
    BY <1>1, <1>7 DEF Staking!SetPaused, Staking!Initialized
  <2>2. config' \in StakingSettings
    BY <1>7, <2>1 DEF Staking!SetPaused, StakingSettings
  <2> QED BY <1>2, <1>7, <2>2 DEF Staking!SetPaused, Staking!books
<1>8. ASSUME NEW n \in OfStaking.Amounts, Staking!AddRewards(n) PROVE StakingInv'
  <2>1. /\ Staking!Transfer(OfStaking.Admin, Self, n) /\ reward_pool' = reward_pool + n
        /\ now' = now /\ config' = config /\ info' = info /\ stakers' = stakers
        /\ total_staked' = total_staked /\ paid_out' = paid_out /\ stake_time' = stake_time
    BY <1>8 DEF Staking!AddRewards, Staking!books
  <2>2. n \in Nat /\ Self # OfStaking.Admin
    BY StakingAssumption
  <2>3. /\ bal' \in [P -> Nat] /\ bal'[Self] = bal[Self] + n /\ bal[Self] \in Nat
        /\ total_staked \in Nat
    BY <2>1, <2>2, n \in Int, StakingMoves DEF P
  <2>4. bal'[Self] >= total_staked + reward_pool' /\ reward_pool' \in Nat
    BY <1>1, <2>1, <2>2, <2>3
  <2> QED BY <1>1, <2>1, <2>3, <2>4, StakingOthers DEF P
<1>9. ASSUME NEW p \in OfStaking.Stakers, NEW n \in OfStaking.Amounts,
             Staking!Stake(p, n) \/ Staking!Unstake(p, n)
      PROVE  StakingInv'
  BY <1>9, StakingStake, StakingUnstake
<1>10. ASSUME NEW p \in OfStaking.Stakers,
              Staking!ClaimRewards(p) \/ Staking!EmergencyWithdraw(p)
       PROVE  StakingInv'
  BY <1>10, StakingClaim, StakingEmergency
<1>11. CASE Staking!Tick
  <2>1. /\ now' = now + 1
        /\ stake_time' = [p \in OfStaking.Stakers |-> stake_time[p] + StakedBy(p)]
    BY <1>11 DEF Staking!Tick, Staking!StakedBy, StakedBy
  <2> QED BY <1>1, <1>11, <2>1, StakingOthers DEF Staking!Tick, P
<1> QED
  BY <1>3, <1>4, <1>5, <1>6, <1>7, <1>8, <1>9, <1>10, <1>11 DEF Staking!Next

LEMMA StakingQuiet == ASSUME StakingInv, UNCHANGED Staking!vars PROVE StakingInv'
<1>1. UNCHANGED <<now, bal, config, info, stakers, total_staked, reward_pool, paid_out, stake_time>>
  BY DEF Staking!vars
<1> QED BY <1>1, StakingOthers DEF StakingInv

LEMMA StakingInit == ASSUME Staking!Init PROVE StakingInv
<1> DEFINE f == StakedByAll
<1>1. \A p \in OfStaking.Stakers : info[p] = None /\ StakedBy(p) = 0
  BY DEF Staking!Init, StakedBy
<1>2. f \in [OfStaking.Stakers -> Nat] /\ \A p \in OfStaking.Stakers : f[p] = 0
  BY <1>1 DEF StakedByAll
<1> HIDE DEF f
<1>3. Total(f) = 0
  BY <1>2, TotalZero
<1>4. StakesBooked
  BY <1>1, <1>3 DEF StakesBooked, Staking!Init, EarnedBy, f
<1>5. bal \in [OfStaking.Stakers \cup {Self, OfStaking.Admin} -> Nat] /\ bal[Self] = 0
  BY StakingAssumption DEF Staking!Init
<1> QED BY <1>4, <1>5 DEF Staking!Init, StakingInv

LEMMA StakingSays == ASSUME StakingInv PROVE Staking!StakesAndRewards
<1> DEFINE P == OfStaking.Stakers
           there == {p \in P : info[p] # None}
<1>1. \A g : Staking!Total(g) = Total(g)
  BY Zenon DEF Staking!Total, Total, Staking!Units, Units, Staking!Cardinality, Cardinality
<1>2. Total([p \in there |-> info[p].staked]) = Total(StakedByAll)
  <2> DEFINE k == [p \in there |-> info[p].staked]
             f == [p \in there |-> k[p]]
             g == [p \in P |-> IF p \in there THEN k[p] ELSE 0]
  <2>1. \A p \in there : k[p] \in Nat
    BY DEF StakingInv, StakesBooked, StakerRecord
  <2>2. there \in SUBSET P
    OBVIOUS
  <2>3. g = StakedByAll
    BY DEF StakedByAll, StakedBy
  <2>4. f = k
    OBVIOUS
  <2> HIDE DEF k, there
  <2>5. Total(f) = Total(g)
    BY <2>1, <2>2, TotalWithin
  <2> QED BY <2>3, <2>4, <2>5 DEF k
<1>3. /\ bal[Self] >= total_staked + reward_pool
      /\ total_staked = Total([p \in there |-> info[p].staked])
  BY <1>2 DEF StakingInv, StakesBooked
<1>4. stakers = {p \in there : info[p].staked > 0}
  BY DEF StakingInv, StakesBooked, StakedBy
<1>5. ASSUME NEW p \in P
      PROVE  Staking!Earned(p) <= (BestRate * stake_time[p]) \div YearUnits
  <2> DEFINE z == BestRate * stake_time[p]
  <2>1. /\ now \in Nat /\ paid_out[p] \in Nat /\ stake_time[p] \in Nat /\ EarnedBy(p)
        /\ YearUnits \in Nat \ {0} /\ z \in Nat
    BY UnitsOfYears, BestRateIs DEF StakingInv, StakesBooked
  <2>2. Staking!Earned(p) \in Nat /\ Staking!Earned(p) * YearUnits <= z
    <3>1. CASE info[p] = None
      BY <2>1, <3>1 DEF EarnedBy, Staking!Earned
    <3>2. CASE info[p] # None
      <4> DEFINE total == info[p].accumulated + Staking!CalculatePendingRewards(info[p])
      <4>1. /\ config \in StakingSettings /\ info[p] \in StakerRecord
            /\ Settlement(info[p], paid_out[p], stake_time[p])
        BY <2>1, <3>2 DEF StakingInv, StakesBooked, EarnedBy
      <4>2. total \in Nat /\ (paid_out[p] + total) * YearUnits <= z
        BY <2>1, <4>1, Accrued
      <4>3. Staking!Earned(p) = paid_out[p] + total
        BY <3>2 DEF Staking!Earned
      <4> HIDE DEF total, z
      <4> QED BY <2>1, <4>2, <4>3
    <3> QED BY <3>1, <3>2
  <2> HIDE DEF z
  <2> QED BY <2>1, <2>2, Floor DEF z
<1> QED BY <1>1, <1>3, <1>4, <1>5 DEF Staking!StakesAndRewards, BestRate, YearUnits

-----------------------------------------------------------------------------
(***************************************************************************)
(* Proofs: loans between players.                                          *)
(***************************************************************************)
LendingAssets ==
  [asset_type : {"Token"}, amount : Nat] \cup [asset_type : {"NFT"}, nft_id : OfLending.NFTs]
LendingTerms ==
  [loan_asset : LendingAssets, collateral_asset : LendingAssets, principal : Nat \ {0},
   duration_secs : Nat \ {0}, interest_bps : Nat, max_extension_secs : Nat]

\* The users, what they own and what they agree on.
ASSUME LendingAssumption ==
  /\ Self \notin OfLending.Users /\ None \notin Nat
  /\ OfLending.Offers \subseteq LendingTerms /\ OfLending.Amounts \subseteq Nat
  /\ OfLending.InitBalance \in Nat /\ OfLending.MaxOffers \in Nat
  /\ OfLending.InitOwner \in [OfLending.NFTs -> OfLending.Users]

LendingAccounts == OfLending.Users \cup {Self}
OfferRecord ==
  [lender : OfLending.Users, terms : LendingTerms, status : {"Open", "Cancelled", "Accepted"}]
RunningLoan ==
  [offer_id : Nat, lender : OfLending.Users, borrower : OfLending.Users, terms : LendingTerms,
   outstanding_principal : Nat, accrued_interest : Nat, start_time : Nat, due_time : Nat,
   last_accrual_time : Nat, status : {"Active", "Repaid", "Liquidated"}, extension_secs : Nat]

\* A loan is due when its extensions say and is repaid when nothing is owed.
LoanFits(l) ==
  /\ l.extension_secs <= l.terms.max_extension_secs
  /\ l.due_time = l.start_time + l.terms.duration_secs + l.extension_secs
  /\ (l.status = "Repaid") = Lending!Settled(l)

\* What is kept under each key, of all the keys there can be.
KeptKeys == {"offer", "loan"} \X (1 .. OfLending.MaxOffers)
Nothing == [asset_type |-> "Token", amount |-> 0]
OfferKeeps(o) == IF o.status = "Open" THEN o.terms.loan_asset ELSE Nothing
LoanKeeps(l) == IF l.status = "Active" THEN l.terms.collateral_asset ELSE Nothing
KeptFor(k) ==
  IF k[1] = "offer"
  THEN IF k[2] \in 1 .. Len(offer) THEN OfferKeeps(offer[k[2]]) ELSE Nothing
  ELSE IF k[2] \in 1 .. Len(loan) THEN LoanKeeps(loan[k[2]]) ELSE Nothing
KeptAssets == [k \in KeptKeys |-> KeptFor(k)]

Worth(asset) == IF asset.asset_type = "Token" THEN asset.amount ELSE 0
Worths(K) == [k \in KeptKeys |-> Worth(K[k])]
IsNFT(asset, x) == asset.asset_type = "NFT" /\ asset.nft_id = x

\* The assets K are the balance b and the NFTs in H, each of them once.
Keeps(K, b, H) ==
  /\ K \in [KeptKeys -> LendingAssets]
  /\ b = Total(Worths(K))
  /\ \A k \in KeptKeys, x \in OfLending.NFTs : IsNFT(K[k], x) => x \in H
  /\ \A x \in H : \E k \in KeptKeys : IsNFT(K[k], x)
  /\ \A j, k \in KeptKeys, x \in OfLending.NFTs : IsNFT(K[j], x) /\ IsNFT(K[k], x) => j = k

HeldNFTs == {x \in OfLending.NFTs : owner[x] = Self}
AcceptedOffers == {i \in 1 .. Len(offer) : offer[i].status = "Accepted"}

\* An extension is asked for an existing loan and fits its terms.
ExtensionFits(i) ==
  extension[i] # None =>
    /\ i \in 1 .. Len(loan)
    /\ loan[i].extension_secs + extension[i] <= loan[i].terms.max_extension_secs

LendingInv ==
  /\ now \in Nat
  /\ bal \in [LendingAccounts -> Nat]
  /\ owner \in [OfLending.NFTs -> LendingAccounts]
  /\ offer \in Seq(OfferRecord) /\ Len(offer) <= OfLending.MaxOffers
  /\ loan \in Seq(RunningLoan)
  /\ \A i \in 1 .. Len(loan) : LoanFits(loan[i])
  /\ Cardinality(AcceptedOffers) = Len(loan)
  /\ extension \in [1 .. OfLending.MaxOffers -> Nat \cup {None}]
  /\ \A i \in 1 .. OfLending.MaxOffers : ExtensionFits(i)
  /\ Keeps(KeptAssets, bal[Self], HeldNFTs)

LEMMA KeysFinite == IsFiniteSet(KeptKeys)
<1>1. IsFiniteSet({"offer", "loan"})
  <2>1. IsFiniteSet({"offer"}) /\ {"offer", "loan"} = {"offer"} \cup {"loan"}
    BY FS_Singleton
  <2> QED BY <2>1, FS_AddElement
<1>2. IsFiniteSet(1 .. OfLending.MaxOffers)
  <2>1. 1 \in Int /\ OfLending.MaxOffers \in Int
    BY LendingAssumption
  <2> QED BY <2>1, FS_Interval
<1> QED BY <1>1, <1>2, FS_Product DEF KeptKeys

LEMMA WorthType ==
  /\ \A a \in LendingAssets : Worth(a) \in Nat
  /\ Nothing \in LendingAssets /\ Worth(Nothing) = 0
  /\ \A x : ~IsNFT(Nothing, x)
BY DEF LendingAssets, Worth, Nothing, IsNFT

\* Something is kept under a key that has nothing.
LEMMA AssetPut ==
  ASSUME NEW K, NEW b, NEW H \in SUBSET OfLending.NFTs, Keeps(K, b, H), NEW k \in KeptKeys,
         K[k] = Nothing, NEW a \in LendingAssets, \A x \in H : ~IsNFT(a, x)
  PROVE  /\ Keeps([K EXCEPT ![k] = a], b + Worth(a), H \cup {x \in OfLending.NFTs : IsNFT(a, x)})
         /\ b \in Nat
<1> DEFINE L == [K EXCEPT ![k] = a]
           G == H \cup {x \in OfLending.NFTs : IsNFT(a, x)}
<1>1. /\ L \in [KeptKeys -> LendingAssets] /\ L[k] = a
      /\ \A j \in KeptKeys : j # k => L[j] = K[j]
      /\ K \in [KeptKeys -> LendingAssets]
  BY DEF Keeps
<1> HIDE DEF L
<1>2. Total(Worths(L)) = b + Worth(a) /\ b \in Nat
  <2> DEFINE f == Worths(K)
             g == Worths(L)
             I == KeptKeys
  <2>1. /\ f \in [I -> Nat] /\ g \in [I -> Nat] /\ IsFiniteSet(I) /\ k \in I
        /\ f[k] = 0 /\ g[k] = Worth(a) /\ Worth(a) \in Nat
        /\ \A j \in I \ {k} : g[j] = f[j]
    BY <1>1, WorthType, KeysFinite DEF Worths
  <2> HIDE DEF f, g, I
  <2>2. Total(g) = Total(f) + (g[k] - f[k]) /\ Total(f) \in Nat
    BY <2>1, TotalChange
  <2>3. b = Total(f)
    BY DEF f, Keeps
  <2> QED BY <2>1, <2>2, <2>3 DEF g
<1>3. \A j \in KeptKeys, x \in OfLending.NFTs : IsNFT(L[j], x) => x \in G
  BY <1>1 DEF Keeps
<1>4. \A x \in G : \E j \in KeptKeys : IsNFT(L[j], x)
  <2>1. ASSUME NEW x \in H PROVE \E j \in KeptKeys : IsNFT(L[j], x)
    <3>1. PICK j \in KeptKeys : IsNFT(K[j], x)
      BY DEF Keeps
    <3>2. j # k
      BY <3>1, WorthType
    <3> QED BY <1>1, <3>1, <3>2
  <2> QED BY <1>1, <2>1
<1>5. \A i, j \in KeptKeys, x \in OfLending.NFTs : IsNFT(L[i], x) /\ IsNFT(L[j], x) => i = j
  BY <1>1 DEF Keeps
<1>6. Keeps(L, b + Worth(a), G)
  BY <1>1, <1>2, <1>3, <1>4, <1>5 DEF Keeps
<1> QED BY <1>2, <1>6 DEF L

\* What is kept under a key is taken out.
LEMMA AssetTaken ==
  ASSUME NEW K, NEW b, NEW H \in SUBSET OfLending.NFTs, Keeps(K, b, H), NEW k \in KeptKeys
  PROVE  /\ Keeps([K EXCEPT ![k] = Nothing], b - Worth(K[k]),
                  H \ {x \in OfLending.NFTs : IsNFT(K[k], x)})
         /\ b \in Nat /\ Worth(K[k]) \in Nat /\ Worth(K[k]) <= b
<1> DEFINE L == [K EXCEPT ![k] = Nothing]
           G == H \ {x \in OfLending.NFTs : IsNFT(K[k], x)}
<1>1. /\ L \in [KeptKeys -> LendingAssets] /\ L[k] = Nothing
      /\ \A j \in KeptKeys : j # k => L[j] = K[j]
      /\ K \in [KeptKeys -> LendingAssets]
  BY WorthType DEF Keeps
<1> HIDE DEF L
<1>2. /\ Total(Worths(L)) = b - Worth(K[k]) /\ b \in Nat /\ Worth(K[k]) \in Nat
      /\ Worth(K[k]) <= b
  <2> DEFINE f == Worths(K)
             g == Worths(L)
             I == KeptKeys
  <2>1. /\ f \in [I -> Nat] /\ g \in [I -> Nat] /\ IsFiniteSet(I) /\ k \in I
        /\ g[k] = 0 /\ f[k] = Worth(K[k]) /\ Worth(K[k]) \in Nat
        /\ \A j \in I \ {k} : g[j] = f[j]
    BY <1>1, WorthType, KeysFinite DEF Worths
  <2> HIDE DEF f, g, I
  <2>2. Total(g) = Total(f) + (g[k] - f[k]) /\ Total(f) \in Nat /\ f[k] <= Total(f)
    BY <2>1, TotalChange, TotalCovers
  <2>3. b = Total(f)
    BY DEF f, Keeps
  <2> QED BY <2>1, <2>2, <2>3 DEF g
<1>3. \A j \in KeptKeys, x \in OfLending.NFTs : IsNFT(L[j], x) => x \in G
  <2>1. ASSUME NEW j \in KeptKeys, NEW x \in OfLending.NFTs, IsNFT(L[j], x) PROVE x \in G
    <3>1. j # k
      BY <1>1, <2>1, WorthType
    <3>2. x \in H /\ ~IsNFT(K[k], x)
      BY <1>1, <2>1, <3>1 DEF Keeps
    <3> QED BY <3>2
  <2> QED BY <2>1
<1>4. \A x \in G : \E j \in KeptKeys : IsNFT(L[j], x)
  <2>1. ASSUME NEW x \in G PROVE \E j \in KeptKeys : IsNFT(L[j], x)
    <3>1. PICK j \in KeptKeys : IsNFT(K[j], x)
      BY DEF Keeps
    <3> QED BY <1>1, <3>1
  <2> QED BY <2>1
<1>5. \A i, j \in KeptKeys, x \in OfLending.NFTs : IsNFT(L[i], x) /\ IsNFT(L[j], x) => i = j
  BY <1>1, WorthType DEF Keeps
<1>6. Keeps(L, b - Worth(K[k]), G)
  BY <1>1, <1>2, <1>3, <1>4, <1>5 DEF Keeps
<1> QED BY <1>2, <1>6 DEF L

\* An asset goes from a user to the contract, or back.
LEMMA AssetIn ==
  ASSUME LendingInv, NEW a \in LendingAssets, NEW u \in OfLending.Users,
         Lending!TransferAsset(a, u, Self)
  PROVE  /\ bal' \in [LendingAccounts -> Nat] /\ owner' \in [OfLending.NFTs -> LendingAccounts]
         /\ bal'[Self] = bal[Self] + Worth(a)
         /\ HeldNFTs' = HeldNFTs \cup {x \in OfLending.NFTs : IsNFT(a, x)}
         /\ \A x \in HeldNFTs : ~IsNFT(a, x)
<1>1. /\ u \in LendingAccounts /\ Self \in LendingAccounts /\ u # Self
      /\ bal \in [LendingAccounts -> Nat] /\ owner \in [OfLending.NFTs -> LendingAccounts]
  BY LendingAssumption DEF LendingAccounts, LendingInv
<1>2. CASE a.asset_type = "Token"
  <2>1. Moves(u, Self, a.amount) /\ owner' = owner /\ a.amount \in Nat /\ Worth(a) = a.amount
    BY <1>2 DEF Lending!TransferAsset, Moves, LendingAssets, Worth
  <2>2. bal' \in [LendingAccounts -> Nat] /\ bal'[Self] = bal[Self] + a.amount
    BY <1>1, <2>1, Moved
  <2>3. \A x : ~IsNFT(a, x)
    BY <1>2 DEF IsNFT
  <2> QED BY <1>1, <2>1, <2>2, <2>3 DEF HeldNFTs
<1>3. CASE a.asset_type # "Token"
  <2>1. /\ a.asset_type = "NFT" /\ a.nft_id \in OfLending.NFTs
        /\ owner[a.nft_id] = u /\ owner' = [owner EXCEPT ![a.nft_id] = Self] /\ bal' = bal
        /\ Worth(a) = 0
    BY <1>3 DEF Lending!TransferAsset, LendingAssets, Worth
  <2>2. \A x : IsNFT(a, x) <=> x = a.nft_id
    BY <2>1 DEF IsNFT
  <2>3. bal'[Self] = bal[Self] + Worth(a)
    BY <1>1, <2>1
  <2> QED BY <1>1, <2>1, <2>2, <2>3 DEF HeldNFTs
<1> QED BY <1>2, <1>3

LEMMA AssetOut ==
  ASSUME LendingInv, NEW a \in LendingAssets, NEW u \in OfLending.Users,
         Lending!TransferAsset(a, Self, u)
  PROVE  /\ bal' \in [LendingAccounts -> Nat] /\ owner' \in [OfLending.NFTs -> LendingAccounts]
         /\ bal'[Self] = bal[Self] - Worth(a)
         /\ HeldNFTs' = HeldNFTs \ {x \in OfLending.NFTs : IsNFT(a, x)}
<1>1. /\ u \in LendingAccounts /\ Self \in LendingAccounts /\ u # Self
      /\ bal \in [LendingAccounts -> Nat] /\ owner \in [OfLending.NFTs -> LendingAccounts]
  BY LendingAssumption DEF LendingAccounts, LendingInv
<1>2. CASE a.asset_type = "Token"
  <2>1. Moves(Self, u, a.amount) /\ owner' = owner /\ a.amount \in Nat /\ Worth(a) = a.amount
    BY <1>2 DEF Lending!TransferAsset, Moves, LendingAssets, Worth
  <2>2. bal' \in [LendingAccounts -> Nat] /\ bal'[Self] = bal[Self] - a.amount
    BY <1>1, <2>1, Moved
  <2>3. \A x : ~IsNFT(a, x)
    BY <1>2 DEF IsNFT
  <2> QED BY <1>1, <2>1, <2>2, <2>3 DEF HeldNFTs
<1>3. CASE a.asset_type # "Token"
  <2>1. /\ a.asset_type = "NFT" /\ a.nft_id \in OfLending.NFTs
        /\ owner[a.nft_id] = Self /\ owner' = [owner EXCEPT ![a.nft_id] = u] /\ bal' = bal
        /\ Worth(a) = 0
    BY <1>3 DEF Lending!TransferAsset, LendingAssets, Worth
  <2>2. \A x : IsNFT(a, x) <=> x = a.nft_id
    BY <2>1 DEF IsNFT
  <2>3. bal'[Self] = bal[Self] - Worth(a)
    BY <1>1, <2>1
  <2> QED BY <1>1, <2>1, <2>2, <2>3 DEF HeldNFTs
<1> QED BY <1>2, <1>3

\* The states of the loans: one of them is opened or decided, or they stay.
LoanStates ==
  [i \in 1 .. OfLending.MaxOffers |-> IF i \in 1 .. Len(loan) THEN loan[i].status ELSE "none"]
LoanDecides ==
  \/ LoanStates' = LoanStates
  \/ \E i \in 1 .. OfLending.MaxOffers, s \in {"Active", "Repaid", "Liquidated"} :
       /\ LoanStates[i] \in {"none", "Active"}
       /\ LoanStates' = [LoanStates EXCEPT ![i] = s]

\* The loans have keys.
LEMMA LoansFit ==
  ASSUME LendingInv
  PROVE  /\ Len(loan) \in Nat /\ Len(offer) \in Nat /\ Len(loan) <= Len(offer)
         /\ OfLending.MaxOffers \in Nat
         /\ \A i \in 1 .. Len(loan) :
              /\ i \in 1 .. OfLending.MaxOffers /\ <<"loan", i>> \in KeptKeys
              /\ loan[i] \in RunningLoan /\ LoanFits(loan[i])
         /\ \A i \in 1 .. Len(offer) :
              /\ i \in 1 .. OfLending.MaxOffers /\ <<"offer", i>> \in KeptKeys
              /\ offer[i] \in OfferRecord
         /\ DOMAIN loan = 1 .. Len(loan) /\ DOMAIN offer = 1 .. Len(offer)
         /\ KeptAssets \in [KeptKeys -> LendingAssets]
         /\ HeldNFTs \in SUBSET OfLending.NFTs
<1>1. /\ loan \in Seq(RunningLoan) /\ Len(loan) \in Nat
      /\ offer \in Seq(OfferRecord) /\ Len(offer) \in Nat
      /\ Len(offer) <= OfLending.MaxOffers /\ OfLending.MaxOffers \in Nat
  BY LendingAssumption DEF LendingInv
<1>2. Len(loan) <= Len(offer)
  <2> DEFINE n == Len(offer)
             I == 1 .. n
  <2>1. n \in Int /\ 1 \in Int /\ n >= 0
    BY <1>1
  <2>2. IsFiniteSet(I) /\ Cardinality(I) = n
    <3> HIDE DEF n
    <3> QED BY <2>1, FS_Interval
  <2>3. AcceptedOffers \in SUBSET I
    BY DEF AcceptedOffers
  <2> HIDE DEF I
  <2>4. Cardinality(AcceptedOffers) <= Cardinality(I)
    BY <2>2, <2>3, FS_Subset
  <2> QED BY <2>2, <2>4 DEF LendingInv
<1>3. \A i \in 1 .. Len(loan) : i \in 1 .. OfLending.MaxOffers /\ loan[i] \in RunningLoan
  BY <1>1, <1>2
<1>4. \A i \in 1 .. Len(offer) : i \in 1 .. OfLending.MaxOffers /\ offer[i] \in OfferRecord
  BY <1>1
<1> QED BY <1>1, <1>2, <1>3, <1>4 DEF LendingInv, KeptKeys, Keeps, HeldNFTs

\* One offer changes.
LEMMA OfferChanged ==
  ASSUME LendingInv, NEW i \in 1 .. Len(offer), NEW r \in OfferRecord,
         offer' = [offer EXCEPT ![i] = r], loan' = loan
  PROVE  /\ offer' \in Seq(OfferRecord) /\ Len(offer') = Len(offer)
         /\ KeptAssets' = [KeptAssets EXCEPT ![<<"offer", i>>] = OfferKeeps(r)]
<1>1. /\ offer \in Seq(OfferRecord) /\ offer' \in Seq(OfferRecord) /\ Len(offer') = Len(offer)
      /\ offer'[i] = r /\ \A j \in 1 .. Len(offer) : j # i => offer'[j] = offer[j]
  BY DEF LendingInv
<1>2. ASSUME NEW k \in KeptKeys
      PROVE  KeptFor(k)' = IF k = <<"offer", i>> THEN OfferKeeps(r) ELSE KeptFor(k)
  <2>1. k[1] \in {"offer", "loan"} /\ k = <<k[1], k[2]>>
    BY DEF KeptKeys
  <2>2. CASE k[1] = "offer" /\ k[2] = i
    BY <1>1, <2>1, <2>2 DEF KeptFor, OfferKeeps, Nothing
  <2>3. CASE ~(k[1] = "offer" /\ k[2] = i)
    BY <1>1, <2>1, <2>3 DEF KeptFor, OfferKeeps, LoanKeeps, Nothing
  <2> QED BY <2>2, <2>3
<1> QED BY <1>1, <1>2 DEF KeptAssets

\* One loan changes.
LEMMA LoanChanged ==
  ASSUME LendingInv, NEW i \in 1 .. Len(loan), NEW r \in RunningLoan, LoanFits(r),
         loan' = [loan EXCEPT ![i] = r], offer' = offer, loan[i].status = "Active"
  PROVE  /\ loan' \in Seq(RunningLoan) /\ Len(loan') = Len(loan)
         /\ \A j \in 1 .. Len(loan) : loan'[j] = IF j = i THEN r ELSE loan[j]
         /\ \A j \in 1 .. Len(loan') : LoanFits(loan'[j])
         /\ KeptAssets' = [KeptAssets EXCEPT ![<<"loan", i>>] = LoanKeeps(r)]
         /\ AcceptedOffers' = AcceptedOffers
         /\ LoanDecides
<1>1. /\ loan \in Seq(RunningLoan) /\ loan' \in Seq(RunningLoan) /\ Len(loan') = Len(loan)
      /\ loan'[i] = r /\ \A j \in 1 .. Len(loan) : j # i => loan'[j] = loan[j]
  BY DEF LendingInv
<1>2. ASSUME NEW k \in KeptKeys
      PROVE  KeptFor(k)' = IF k = <<"loan", i>> THEN LoanKeeps(r) ELSE KeptFor(k)
  <2>1. k[1] \in {"offer", "loan"} /\ k = <<k[1], k[2]>>
    BY DEF KeptKeys
  <2>2. CASE k[1] = "loan" /\ k[2] = i
    BY <1>1, <2>1, <2>2 DEF KeptFor, LoanKeeps, Nothing
  <2>3. CASE ~(k[1] = "loan" /\ k[2] = i)
    BY <1>1, <2>1, <2>3 DEF KeptFor, OfferKeeps, LoanKeeps, Nothing
  <2> QED BY <2>2, <2>3
<1>3. KeptAssets' = [KeptAssets EXCEPT ![<<"loan", i>>] = LoanKeeps(r)]
  BY <1>2 DEF KeptAssets
<1>4. \A j \in 1 .. Len(loan') : LoanFits(loan'[j])
  BY <1>1 DEF LendingInv
<1>5. LoanDecides
  <2>1. i \in 1 .. OfLending.MaxOffers /\ r.status \in {"Active", "Repaid", "Liquidated"}
    BY LoansFit DEF RunningLoan
  <2>2. LoanStates[i] = "Active"
    BY <2>1 DEF LoanStates
  <2>3. \A j \in 1 .. OfLending.MaxOffers :
          LoanStates'[j] = IF j = i THEN r.status ELSE LoanStates[j]
    BY <1>1 DEF LoanStates
  <2>4. LoanStates' = [LoanStates EXCEPT ![i] = r.status]
    BY <2>3 DEF LoanStates
  <2> QED BY <2>1, <2>2, <2>4 DEF LoanDecides
<1> QED BY <1>1, <1>3, <1>4, <1>5 DEF AcceptedOffers

\* An offer is made and its loan put into the contract.
LEMMA OfferMade ==
  ASSUME LendingInv, NEW u \in OfLending.Users, NEW o \in OfLending.Offers,
         Lending!CreateOffer(u, o)
  PROVE  LendingInv' /\ LoanDecides
<1> DEFINE n == Len(offer)
           r == [lender |-> u, terms |-> o, status |-> "Open"]
           a == o.loan_asset
           key == <<"offer", n + 1>>
<1>1. /\ n < OfLending.MaxOffers /\ Lending!TransferAsset(a, u, Self)
      /\ offer' = Append(offer, r) /\ now' = now /\ loan' = loan /\ extension' = extension
  BY DEF Lending!CreateOffer
<1>2. /\ o \in LendingTerms /\ a \in LendingAssets /\ r \in OfferRecord /\ r.status = "Open"
      /\ OfferKeeps(r) = a
  BY LendingAssumption DEF LendingTerms, OfferRecord, OfferKeeps
<1>3. n \in Nat /\ OfLending.MaxOffers \in Nat /\ n + 1 \in 1 .. OfLending.MaxOffers
  BY <1>1, LoansFit
<1>4. key \in KeptKeys
  BY <1>3 DEF KeptKeys
<1> HIDE DEF r
<1>5. /\ offer \in Seq(OfferRecord) /\ offer' \in Seq(OfferRecord) /\ Len(offer') = n + 1
      /\ offer'[n + 1] = r /\ \A i \in 1 .. n : offer'[i] = offer[i]
  BY <1>1, <1>2 DEF LendingInv
<1>6. KeptAssets' = [KeptAssets EXCEPT ![key] = a] /\ KeptAssets[key] = Nothing
  <2>1. ASSUME NEW k \in KeptKeys PROVE KeptFor(k)' = IF k = key THEN a ELSE KeptFor(k)
    <3>1. k[1] \in {"offer", "loan"} /\ k = <<k[1], k[2]>>
      BY DEF KeptKeys
    <3>2. CASE k[1] = "offer" /\ k[2] = n + 1
      BY <1>2, <1>3, <1>5, <3>1, <3>2 DEF KeptFor, OfferKeeps, Nothing
    <3>3. CASE ~(k[1] = "offer" /\ k[2] = n + 1)
      BY <1>1, <1>3, <1>5, <3>1, <3>3 DEF KeptFor, OfferKeeps, LoanKeeps, Nothing
    <3> QED BY <3>2, <3>3
  <2>2. KeptFor(key) = Nothing
    BY <1>3 DEF KeptFor
  <2> QED BY <1>4, <2>1, <2>2 DEF KeptAssets
<1>7. AcceptedOffers' = AcceptedOffers
  BY <1>2, <1>3, <1>5 DEF AcceptedOffers
<1>8. /\ bal' \in [LendingAccounts -> Nat] /\ owner' \in [OfLending.NFTs -> LendingAccounts]
      /\ Keeps(KeptAssets', bal'[Self], HeldNFTs')
  <2>1. /\ bal' \in [LendingAccounts -> Nat] /\ owner' \in [OfLending.NFTs -> LendingAccounts]
        /\ bal'[Self] = bal[Self] + Worth(a)
        /\ HeldNFTs' = HeldNFTs \cup {x \in OfLending.NFTs : IsNFT(a, x)}
        /\ \A x \in HeldNFTs : ~IsNFT(a, x)
    BY <1>1, <1>2, AssetIn
  <2>2. Keeps(KeptAssets, bal[Self], HeldNFTs) /\ HeldNFTs \in SUBSET OfLending.NFTs
    BY DEF LendingInv, HeldNFTs
  <2>3. Keeps([KeptAssets EXCEPT ![key] = a], bal[Self] + Worth(a),
              HeldNFTs \cup {x \in OfLending.NFTs : IsNFT(a, x)})
    <3> DEFINE K == KeptAssets
               H == HeldNFTs
               b == bal[Self]
    <3>1. /\ Keeps(K, b, H) /\ H \in SUBSET OfLending.NFTs /\ key \in KeptKeys
          /\ K[key] = Nothing /\ a \in LendingAssets /\ \A x \in H : ~IsNFT(a, x)
      BY <1>2, <1>4, <1>6, <2>1, <2>2
    <3> HIDE DEF K, H, b, key, a
    <3>2. Keeps([K EXCEPT ![key] = a], b + Worth(a), H \cup {x \in OfLending.NFTs : IsNFT(a, x)})
      BY <3>1, AssetPut
    <3> QED BY <3>2 DEF K, H, b
  <2> QED BY <1>6, <2>1, <2>3
<1>9. \A i \in 1 .. OfLending.MaxOffers : ExtensionFits(i)'
  BY <1>1 DEF ExtensionFits, LendingInv
<1>10. LendingInv'
  BY <1>1, <1>3, <1>5, <1>7, <1>8, <1>9 DEF LendingInv
<1>11. LoanDecides
  BY <1>1 DEF LoanDecides, LoanStates
<1> QED BY <1>10, <1>11

\* What is left when what is kept under a key is taken out.
LEMMA KeptLess ==
  ASSUME LendingInv, NEW key \in KeptKeys, NEW a, a = KeptAssets[key]
  PROVE  Keeps([KeptAssets EXCEPT ![key] = Nothing], bal[Self] - Worth(a),
               HeldNFTs \ {x \in OfLending.NFTs : IsNFT(a, x)})
<1> DEFINE K == KeptAssets
           H == HeldNFTs
           b == bal[Self]
<1>1. Keeps(K, b, H) /\ H \in SUBSET OfLending.NFTs
  BY DEF LendingInv, HeldNFTs
<1>2. K[key] = a
  OBVIOUS
<1> HIDE DEF K, H, b
<1>3. Keeps([K EXCEPT ![key] = Nothing], b - Worth(K[key]),
            H \ {x \in OfLending.NFTs : IsNFT(K[key], x)})
  BY <1>1, AssetTaken
<1> QED BY <1>2, <1>3 DEF K, H, b

\* What is kept under a key goes to a user.
LEMMA KeptGoes ==
  ASSUME LendingInv, NEW key \in KeptKeys, NEW u \in OfLending.Users,
         NEW a \in LendingAssets, a = KeptAssets[key],
         Lending!TransferAsset(a, Self, u), KeptAssets' = [KeptAssets EXCEPT ![key] = Nothing]
  PROVE  /\ bal' \in [LendingAccounts -> Nat] /\ owner' \in [OfLending.NFTs -> LendingAccounts]
         /\ Keeps(KeptAssets', bal'[Self], HeldNFTs')
<1>1. /\ bal' \in [LendingAccounts -> Nat] /\ owner' \in [OfLending.NFTs -> LendingAccounts]
      /\ bal'[Self] = bal[Self] - Worth(a)
      /\ HeldNFTs' = HeldNFTs \ {x \in OfLending.NFTs : IsNFT(a, x)}
  BY AssetOut
<1>2. Keeps([KeptAssets EXCEPT ![key] = Nothing], bal[Self] - Worth(a),
            HeldNFTs \ {x \in OfLending.NFTs : IsNFT(a, x)})
  BY KeptLess
<1> QED BY <1>1, <1>2

\* An offer is cancelled and its loan goes back to the lender.
LEMMA OfferCancelled ==
  ASSUME LendingInv, NEW i \in 1 .. Len(offer), Lending!CancelOffer(i)
  PROVE  LendingInv' /\ LoanDecides
<1> DEFINE o == offer[i]
           r == [o EXCEPT !.status = "Cancelled"]
           key == <<"offer", i>>
           a == o.terms.loan_asset
<1>1. /\ o.status = "Open" /\ offer' = [offer EXCEPT ![i] = r]
      /\ Lending!TransferAsset(a, Self, o.lender)
      /\ now' = now /\ loan' = loan /\ extension' = extension
  BY DEF Lending!CancelOffer
<1>2. o \in OfferRecord /\ key \in KeptKeys
  BY LoansFit
<1>3. /\ r \in OfferRecord /\ r.status = "Cancelled" /\ o.lender \in OfLending.Users
      /\ a \in LendingAssets /\ OfferKeeps(o) = a /\ OfferKeeps(r) = Nothing
  BY <1>1, <1>2 DEF OfferRecord, LendingTerms, OfferKeeps
<1> HIDE DEF r
<1>4. /\ offer' \in Seq(OfferRecord) /\ Len(offer') = Len(offer)
      /\ KeptAssets' = [KeptAssets EXCEPT ![key] = Nothing]
  BY <1>1, <1>3, OfferChanged
<1>5. KeptAssets[key] = a
  BY <1>2, <1>3 DEF KeptAssets, KeptFor
<1>6. AcceptedOffers' = AcceptedOffers
  <2>1. \A j \in 1 .. Len(offer) : offer'[j] = IF j = i THEN r ELSE offer[j]
    BY <1>1, LoansFit
  <2> QED BY <1>1, <1>3, <1>4, <2>1 DEF AcceptedOffers
<1>7. /\ bal' \in [LendingAccounts -> Nat] /\ owner' \in [OfLending.NFTs -> LendingAccounts]
      /\ Keeps(KeptAssets', bal'[Self], HeldNFTs')
  <2> HIDE DEF key, a
  <2> QED BY <1>1, <1>2, <1>3, <1>4, <1>5, KeptGoes
<1>8. \A j \in 1 .. OfLending.MaxOffers : ExtensionFits(j)'
  BY <1>1 DEF ExtensionFits, LendingInv
<1>9. LendingInv'
  BY <1>1, <1>4, <1>6, <1>7, <1>8 DEF LendingInv
<1>10. LoanDecides
  BY <1>1 DEF LoanDecides, LoanStates
<1> QED BY <1>9, <1>10

\* The collateral comes in and what is lent goes out.
LEMMA Exchanged ==
  ASSUME LendingInv, NEW u \in OfLending.Users, NEW c \in LendingAssets, NEW a \in LendingAssets,
         NEW j \in KeptKeys, NEW k \in KeptKeys, j # k,
         KeptAssets[j] = Nothing, KeptAssets[k] = a, Lending!Exchange(c, a, u),
         KeptAssets' = [[KeptAssets EXCEPT ![j] = c] EXCEPT ![k] = Nothing]
  PROVE  /\ bal' \in [LendingAccounts -> Nat] /\ owner' \in [OfLending.NFTs -> LendingAccounts]
         /\ Keeps(KeptAssets', bal'[Self], HeldNFTs')
<1>1. /\ u \in LendingAccounts /\ Self \in LendingAccounts /\ u # Self
      /\ bal \in [LendingAccounts -> Nat] /\ owner \in [OfLending.NFTs -> LendingAccounts]
      /\ Worth(c) \in Nat /\ Worth(a) \in Nat
  BY LendingAssumption, WorthType DEF LendingAccounts, LendingInv
<1>2. /\ bal' = [bal EXCEPT ![u] = bal[u] - Worth(c) + Worth(a),
                            ![Self] = bal[Self] + Worth(c) - Worth(a)]
      /\ bal[u] >= Worth(c)
  <2>1. 1 * Worth(c) = Worth(c) /\ 1 * Worth(a) = Worth(a)
    BY <1>1
  <2>2. c.asset_type = "Token" => Worth(c) = c.amount /\ 1 * c.amount = c.amount
    BY DEF Worth, LendingAssets
  <2>3. a.asset_type = "Token" => Worth(a) = a.amount /\ 1 * a.amount = a.amount
    BY DEF Worth, LendingAssets
  <2>4. c.asset_type # "Token" => Worth(c) = 0
    BY DEF Worth
  <2>5. a.asset_type # "Token" => Worth(a) = 0
    BY DEF Worth
  <2>6. bal[u] >= Worth(c)
    BY <1>1, <2>2, <2>4 DEF Lending!Exchange
  <2>7. bal' = [bal EXCEPT ![u] = bal[u] - Worth(c) + Worth(a),
                           ![Self] = bal[Self] + Worth(c) - Worth(a)]
    <3>1. CASE c.asset_type = "Token"
      <4>1. CASE a.asset_type = "Token"
        BY <2>2, <2>3, <3>1, <4>1 DEF Lending!Exchange
      <4>2. CASE a.asset_type # "Token"
        BY <2>2, <2>5, <3>1, <4>2 DEF Lending!Exchange
      <4> QED BY <4>1, <4>2
    <3>2. CASE c.asset_type # "Token"
      <4>1. CASE a.asset_type = "Token"
        BY <2>4, <2>3, <3>2, <4>1 DEF Lending!Exchange
      <4>2. CASE a.asset_type # "Token"
        BY <2>4, <2>5, <3>2, <4>2 DEF Lending!Exchange
      <4> QED BY <4>1, <4>2
    <3> QED BY <3>1, <3>2
  <2> QED BY <2>6, <2>7
<1>3. \A x \in OfLending.NFTs : IsNFT(c, x) => owner[x] = u
  BY DEF Lending!Exchange, IsNFT
<1>4. /\ owner' \in [OfLending.NFTs -> LendingAccounts]
      /\ \A x \in OfLending.NFTs : owner'[x] = IF IsNFT(a, x) THEN u
                                               ELSE IF IsNFT(c, x) THEN Self ELSE owner[x]
  BY <1>1 DEF Lending!Exchange, IsNFT
<1> DEFINE K == KeptAssets
           H == HeldNFTs
           b == bal[Self]
           L == [K EXCEPT ![j] = c]
           G == H \cup {x \in OfLending.NFTs : IsNFT(c, x)}
<1>5. /\ Keeps(K, b, H) /\ H \in SUBSET OfLending.NFTs /\ K[j] = Nothing
      /\ \A x \in H : ~IsNFT(c, x)
  BY <1>1, <1>3 DEF LendingInv, HeldNFTs
<1>6. G \in SUBSET OfLending.NFTs
  BY <1>5
<1>7. L[k] = a
  BY LoansFit
<1>8. bal'[Self] = (b + Worth(c)) - Worth(a) /\ HeldNFTs' = G \ {x \in OfLending.NFTs : IsNFT(a, x)}
  <2>1. bal'[Self] = (b + Worth(c)) - Worth(a)
    BY <1>1, <1>2
  <2>2. ASSUME NEW x \in OfLending.NFTs
        PROVE  owner'[x] = Self <=> x \in G /\ ~IsNFT(a, x)
    BY <1>1, <1>4 DEF HeldNFTs
  <2> QED BY <2>1, <2>2 DEF HeldNFTs
<1> HIDE DEF K, H, b
<1>9. Keeps(L, b + Worth(c), G) /\ b \in Nat
  BY <1>5, AssetPut
<1>10. /\ Keeps([L EXCEPT ![k] = Nothing], (b + Worth(c)) - Worth(a),
                G \ {x \in OfLending.NFTs : IsNFT(a, x)})
       /\ Worth(a) <= b + Worth(c)
  <2> DEFINE B == b + Worth(c)
  <2> HIDE DEF L, G, B
  <2>1. Keeps(L, B, G)
    BY <1>9 DEF B
  <2>2. /\ Keeps([L EXCEPT ![k] = Nothing], B - Worth(L[k]),
                 G \ {x \in OfLending.NFTs : IsNFT(L[k], x)})
        /\ Worth(L[k]) <= B
    BY <1>6, <2>1, AssetTaken
  <2> QED BY <1>7, <2>2 DEF B
<1>11. bal' \in [LendingAccounts -> Nat]
  <2>1. bal[u] \in Nat /\ bal[Self] \in Nat /\ bal[Self] = b
    BY <1>1 DEF b
  <2>2. bal[u] - Worth(c) + Worth(a) \in Nat /\ bal[Self] + Worth(c) - Worth(a) \in Nat
    BY <1>1, <1>2, <1>10, <2>1
  <2> QED BY <1>1, <1>2, <2>2
<1>12. Keeps(KeptAssets', bal'[Self], HeldNFTs')
  BY <1>8, <1>10 DEF K
<1> QED BY <1>4, <1>11, <1>12

\* An offer is accepted.
LEMMA OfferAccepted ==
  ASSUME LendingInv, NEW u \in OfLending.Users, NEW i \in 1 .. Len(offer),
         Lending!AcceptOffer(u, i)
  PROVE  LendingInv' /\ LoanDecides
<1> DEFINE o == offer[i]
           t == o.terms
           n == Len(loan)
           p == [o EXCEPT !.status = "Accepted"]
           r == [offer_id |-> i, lender |-> o.lender, borrower |-> u, terms |-> t,
                 outstanding_principal |-> t.principal, accrued_interest |-> 0,
                 start_time |-> now, due_time |-> now + t.duration_secs,
                 last_accrual_time |-> now, status |-> "Active", extension_secs |-> 0]
           j == <<"loan", n + 1>>
           k == <<"offer", i>>
           a == t.loan_asset
           c == t.collateral_asset
<1>1. /\ o.status = "Open" /\ offer' = [offer EXCEPT ![i] = p] /\ loan' = Append(loan, r)
      /\ Lending!Exchange(c, a, u) /\ now' = now /\ extension' = extension
  BY DEF Lending!AcceptOffer
<1>2. /\ o \in OfferRecord /\ k \in KeptKeys /\ n \in Nat /\ Len(offer) \in Nat
      /\ OfLending.MaxOffers \in Nat /\ Len(offer) <= OfLending.MaxOffers /\ now \in Nat
      /\ offer \in Seq(OfferRecord) /\ loan \in Seq(RunningLoan)
  BY LoansFit DEF LendingInv
<1>3. t \in LendingTerms /\ p \in OfferRecord /\ p.status = "Accepted"
        /\ o.lender \in OfLending.Users
  BY <1>2 DEF OfferRecord
<1>4. /\ a \in LendingAssets /\ c \in LendingAssets /\ t.principal \in Nat \ {0}
      /\ t.duration_secs \in Nat \ {0} /\ t.max_extension_secs \in Nat
  BY <1>3 DEF LendingTerms
<1>5. r \in RunningLoan /\ r.status = "Active" /\ LoanKeeps(r) = c /\ r.extension_secs = 0
  <2>1. i \in Nat /\ t.principal \in Nat /\ now + t.duration_secs \in Nat
    BY <1>2, <1>4
  <2>2. r \in RunningLoan
    BY <1>2, <1>3, <2>1 DEF RunningLoan
  <2> QED BY <2>2 DEF LoanKeeps
<1>6. LoanFits(r)
  <2>1. Lending!Settled(r) = FALSE /\ (r.status = "Repaid") = FALSE
    BY <1>4 DEF Lending!Settled
  <2>2. r.due_time = r.start_time + r.terms.duration_secs + r.extension_secs
    BY <1>2, <1>4
  <2>3. r.extension_secs <= r.terms.max_extension_secs
    BY <1>4
  <2> HIDE DEF r
  <2> QED BY <2>1, <2>2, <2>3 DEF LoanFits
<1>7. OfferKeeps(o) = a /\ OfferKeeps(p) = Nothing
  BY <1>1, <1>3 DEF OfferKeeps
<1> HIDE DEF p, r
<1>8. /\ offer' \in Seq(OfferRecord) /\ Len(offer') = Len(offer) /\ offer'[i] = p
      /\ \A m \in 1 .. Len(offer) : m # i => offer'[m] = offer[m]
      /\ loan' \in Seq(RunningLoan) /\ Len(loan') = n + 1 /\ loan'[n + 1] = r
      /\ \A m \in 1 .. n : loan'[m] = loan[m]
  BY <1>1, <1>2, <1>3, <1>5
<1>9. Cardinality(AcceptedOffers') = n + 1 /\ n + 1 <= Len(offer)
  <2> DEFINE I == 1 .. Len(offer)
             A == AcceptedOffers
             B == AcceptedOffers'
  <2>1. A \in SUBSET I /\ i \notin A /\ B = A \cup {i} /\ B \in SUBSET I
    BY <1>1, <1>3, <1>8 DEF AcceptedOffers
  <2>2. IsFiniteSet(I) /\ Cardinality(I) = Len(offer)
    <3> DEFINE m == Len(offer)
    <3>1. m \in Int /\ 1 \in Int /\ m >= 0
      BY <1>2
    <3> HIDE DEF m
    <3>2. IsFiniteSet(1 .. m) /\ Cardinality(1 .. m) = m
      BY <3>1, FS_Interval
    <3> QED BY <3>2 DEF m
  <2>3. Cardinality(A) = n
    BY DEF LendingInv
  <2> HIDE DEF I, A, B
  <2>4. IsFiniteSet(A)
    BY <2>1, <2>2, FS_Subset
  <2>5. Cardinality(B) = n + 1
    BY <2>1, <2>3, <2>4, FS_AddElement
  <2>6. Cardinality(B) <= Cardinality(I)
    BY <2>1, <2>2, FS_Subset
  <2> QED BY <2>2, <2>5, <2>6 DEF B
<1>10. n + 1 \in 1 .. OfLending.MaxOffers /\ j \in KeptKeys /\ j # k
  BY <1>2, <1>9 DEF KeptKeys
<1>11. KeptAssets' = [[KeptAssets EXCEPT ![j] = c] EXCEPT ![k] = Nothing]
  <2>1. ASSUME NEW m \in KeptKeys
        PROVE  KeptFor(m)' = IF m = k THEN Nothing ELSE IF m = j THEN c ELSE KeptFor(m)
    <3>1. m[1] \in {"offer", "loan"} /\ m = <<m[1], m[2]>>
      BY DEF KeptKeys
    <3>2. CASE m[1] = "offer"
      <4>1. CASE m[2] = i
        BY <1>7, <1>8, <3>1, <3>2, <4>1 DEF KeptFor
      <4>2. CASE m[2] # i
        BY <1>8, <3>1, <3>2, <4>2 DEF KeptFor, OfferKeeps, Nothing
      <4> QED BY <4>1, <4>2
    <3>3. CASE m[1] # "offer"
      <4>1. CASE m[2] = n + 1
        BY <1>2, <1>5, <1>8, <3>1, <3>3, <4>1 DEF KeptFor
      <4>2. CASE m[2] # n + 1
        BY <1>2, <1>8, <3>1, <3>3, <4>2 DEF KeptFor, LoanKeeps, Nothing
      <4> QED BY <4>1, <4>2
    <3> QED BY <3>2, <3>3
  <2> QED BY <1>10, <2>1 DEF KeptAssets
<1>12. KeptAssets[j] = Nothing /\ KeptAssets[k] = a
  BY <1>2, <1>7, <1>10 DEF KeptAssets, KeptFor
<1>13. /\ bal' \in [LendingAccounts -> Nat] /\ owner' \in [OfLending.NFTs -> LendingAccounts]
       /\ Keeps(KeptAssets', bal'[Self], HeldNFTs')
  <2> HIDE DEF a, c, j, k
  <2> QED BY <1>1, <1>2, <1>4, <1>10, <1>11, <1>12, Exchanged
<1>14. \A m \in 1 .. OfLending.MaxOffers : ExtensionFits(m)'
  <2>1. ASSUME NEW m \in 1 .. OfLending.MaxOffers, extension'[m] # None
        PROVE  /\ m \in 1 .. Len(loan')
               /\ loan'[m].extension_secs + extension'[m] <= loan'[m].terms.max_extension_secs
    <3>1. m \in 1 .. n /\ loan[m].extension_secs + extension[m] <= loan[m].terms.max_extension_secs
      BY <1>1, <2>1 DEF LendingInv, ExtensionFits
    <3> QED BY <1>1, <1>2, <1>8, <3>1
  <2> QED BY <2>1 DEF ExtensionFits
<1>15. \A m \in 1 .. Len(loan') : LoanFits(loan'[m])
  <2>1. ASSUME NEW m \in 1 .. Len(loan') PROVE LoanFits(loan'[m])
    <3>1. CASE m = n + 1
      BY <1>6, <1>8, <3>1
    <3>2. CASE m # n + 1
      <4>1. m \in 1 .. n
        BY <1>2, <1>8, <3>2
      <4> QED BY <1>8, <4>1 DEF LendingInv
    <3> QED BY <3>1, <3>2
  <2> QED BY <2>1
<1>16. LendingInv'
  BY <1>1, <1>2, <1>8, <1>9, <1>13, <1>14, <1>15 DEF LendingInv
<1>17. LoanDecides
  <2>1. LoanStates[n + 1] = "none"
    BY <1>2, <1>10 DEF LoanStates
  <2>2. \A m \in 1 .. OfLending.MaxOffers :
          LoanStates'[m] = IF m = n + 1 THEN "Active" ELSE LoanStates[m]
    <3>1. ASSUME NEW m \in 1 .. OfLending.MaxOffers
          PROVE  LoanStates'[m] = IF m = n + 1 THEN "Active" ELSE LoanStates[m]
      <4>1. CASE m = n + 1
        BY <1>2, <1>5, <1>8, <4>1 DEF LoanStates
      <4>2. CASE m # n + 1
        BY <1>2, <1>8, <4>2 DEF LoanStates
      <4> QED BY <4>1, <4>2
    <3> QED BY <3>1
  <2>3. LoanStates' = [LoanStates EXCEPT ![n + 1] = "Active"]
    BY <2>2 DEF LoanStates
  <2> QED BY <1>10, <2>1, <2>3 DEF LoanDecides
<1> QED BY <1>16, <1>17

\* Interest accrues and nothing else about the loan changes.
LEMMA InterestAccrues ==
  ASSUME now \in Nat, NEW l \in RunningLoan, LoanFits(l)
  PROVE  LET m == Lending!Accrued(l)
         IN /\ m \in RunningLoan /\ m.accrued_interest >= l.accrued_interest
            /\ m.status = l.status /\ m.terms = l.terms /\ m.due_time = l.due_time
            /\ m.extension_secs = l.extension_secs /\ m.start_time = l.start_time
            /\ m.lender = l.lender /\ m.borrower = l.borrower
            /\ m.outstanding_principal = l.outstanding_principal
<1> DEFINE end == IF now < l.due_time THEN now ELSE l.due_time
           delta == end - l.last_accrual_time
           product == l.outstanding_principal * l.terms.interest_bps * delta
           span == l.due_time - l.start_time
           interest == (product \div span) \div Lending!BASIS_POINTS
<1>1. /\ l.outstanding_principal \in Nat /\ l.accrued_interest \in Nat /\ l.due_time \in Nat
      /\ l.start_time \in Nat /\ l.last_accrual_time \in Nat /\ l.terms \in LendingTerms
      /\ l.extension_secs \in Nat
  BY DEF RunningLoan
<1>2. l.terms.interest_bps \in Nat /\ l.terms.duration_secs \in Nat \ {0}
  BY <1>1 DEF LendingTerms
<1>3. end \in Nat
  BY <1>1
<1>4. Lending!Accrued(l) =
        IF delta <= 0 THEN l
        ELSE [l EXCEPT !.accrued_interest = l.accrued_interest + interest,
                    !.last_accrual_time = end]
  BY DEF Lending!Accrued
<1> HIDE DEF end
<1>5. CASE delta <= 0
  <2>1. Lending!Accrued(l) = l
    BY <1>4, <1>5
  <2> QED BY <1>1, <2>1
<1>6. CASE delta > 0
  <2>1. delta \in Nat /\ span \in Nat \ {0}
    <3>1. span = l.terms.duration_secs + l.extension_secs
      BY <1>1, <1>2 DEF LoanFits
    <3> QED BY <1>1, <1>2, <1>3, <1>6, <3>1
  <2>2. product \in Nat
    <3> DEFINE x == l.outstanding_principal
               y == l.terms.interest_bps
    <3>1. x \in Nat /\ y \in Nat
      BY <1>1, <1>2
    <3> HIDE DEF x, y, delta
    <3>2. x * y \in Nat
      BY <3>1
    <3>3. (x * y) * delta \in Nat
      BY <2>1, <3>2
    <3> QED BY <3>3 DEF x, y
  <2> HIDE DEF product, span
  <2>3. product \div span \in Nat
    BY <2>1, <2>2
  <2>4. interest \in Nat
    BY <2>3, Divided DEF Lending!BASIS_POINTS
  <2>5. ~(delta <= 0)
    BY <1>6, <2>1
  <2> HIDE DEF interest, delta
  <2>6. /\ l.accrued_interest + interest \in Nat
        /\ l.accrued_interest + interest >= l.accrued_interest
    BY <1>1, <2>4
  <2>7. Lending!Accrued(l) = [l EXCEPT !.accrued_interest = l.accrued_interest + interest,
                                       !.last_accrual_time = end]
    BY <1>4, <2>5
  <2> DEFINE e == l.accrued_interest + interest
  <2> HIDE DEF e
  <2>8. Lending!Accrued(l) = [l EXCEPT !.accrued_interest = e, !.last_accrual_time = end]
    BY <2>7 DEF e
  <2>9. e \in Nat /\ e >= l.accrued_interest
    BY <2>6 DEF e
  <2> QED BY <1>3, <2>8, <2>9 DEF RunningLoan
<1>7. delta <= 0 \/ delta > 0
  BY <1>1, <1>3
<1> HIDE DEF delta
<1> QED BY <1>5, <1>6, <1>7

\* Loans that accrue stay what they were.
LEMMA AccruedFits ==
  ASSUME LendingInv, NEW i \in 1 .. Len(loan), loan[i].status = "Active"
  PROVE  LET l == loan[i]
             m == Lending!Accrued(l)
         IN /\ l \in RunningLoan /\ m \in RunningLoan /\ LoanFits(m)
            /\ m.status = "Active" /\ m.terms = l.terms /\ m.due_time = l.due_time
            /\ m.extension_secs = l.extension_secs /\ m.start_time = l.start_time
            /\ m.lender = l.lender /\ m.borrower = l.borrower
            /\ Lending!Settled(m) = FALSE
<1> DEFINE l == loan[i]
<1>1. l \in RunningLoan /\ LoanFits(l) /\ now \in Nat
  BY LoansFit DEF LendingInv
<1>3. Lending!Settled(l) = FALSE /\ l.outstanding_principal \in Nat /\ l.accrued_interest \in Nat
  BY <1>1 DEF LoanFits, RunningLoan, Lending!Settled
<1> DEFINE m == Lending!Accrued(l)
<1> HIDE DEF l
<1>4. /\ m \in RunningLoan /\ m.accrued_interest >= l.accrued_interest
      /\ m.status = l.status /\ m.terms = l.terms /\ m.due_time = l.due_time
      /\ m.extension_secs = l.extension_secs /\ m.start_time = l.start_time
      /\ m.lender = l.lender /\ m.borrower = l.borrower
      /\ m.outstanding_principal = l.outstanding_principal
  BY <1>1, InterestAccrues
<1> HIDE DEF m
<1>5. m.accrued_interest \in Nat /\ l.status = "Active"
  BY <1>4 DEF RunningLoan, l
<1>6. Lending!Settled(m) = FALSE
  BY <1>3, <1>4, <1>5 DEF Lending!Settled
<1>7. LoanFits(m)
  BY <1>1, <1>4, <1>5, <1>6 DEF LoanFits
<1> QED BY <1>1, <1>4, <1>5, <1>6, <1>7 DEF m, l

\* What the last payment gives back comes out of what was kept for the loan.
LEMMA CollateralGivenBack ==
  ASSUME LendingInv, NEW l \in RunningLoan, NEW n \in Nat, Lending!GiveBack(l, n),
         NEW key \in KeptKeys, KeptAssets[key] = l.terms.collateral_asset,
         KeptAssets' = [KeptAssets EXCEPT ![key] = Nothing]
  PROVE  /\ bal' \in [LendingAccounts -> Nat] /\ owner' \in [OfLending.NFTs -> LendingAccounts]
         /\ Keeps(KeptAssets', bal'[Self], HeldNFTs')
<1> DEFINE a == l.terms.collateral_asset
           lent == l.terms.loan_asset
           back == Worth(a)
           u == l.borrower
           v == l.lender
           got(x) == (IF x = v THEN n ELSE 0) + (IF x = u THEN back - n ELSE 0)
                     - (IF x = Self THEN back ELSE 0)
           home(x) == IF IsNFT(a, x) THEN u ELSE owner[x]
<1>1. /\ u \in OfLending.Users /\ v \in OfLending.Users /\ l.terms \in LendingTerms
      /\ Self \notin OfLending.Users
  BY LendingAssumption DEF RunningLoan
<1>2. a \in LendingAssets /\ lent \in LendingAssets /\ back \in Nat
  BY <1>1, WorthType DEF LendingTerms
<1>3. /\ bal \in [LendingAccounts -> Nat] /\ owner \in [OfLending.NFTs -> LendingAccounts]
      /\ Self \in LendingAccounts /\ u \in LendingAccounts /\ v \in LendingAccounts
      /\ u # Self /\ v # Self
  BY <1>1 DEF LendingInv, LendingAccounts
<1>4. bal[u] >= n /\ bal[Self] >= back /\ bal' = [x \in LendingAccounts |-> bal[x] + got(x)]
  <2>1. DOMAIN bal = LendingAccounts
    BY <1>3
  <2> QED BY <2>1 DEF Lending!GiveBack, Worth
<1>5. \A x, y \in LendingAssets, z \in OfLending.NFTs : (x = Lending!NFT(z)) <=> IsNFT(x, z)
  <2>1. ASSUME NEW x \in LendingAssets, NEW z \in OfLending.NFTs
        PROVE  (x = Lending!NFT(z)) <=> IsNFT(x, z)
    <3>1. CASE x \in [asset_type : {"NFT"}, nft_id : OfLending.NFTs]
      BY <3>1 DEF IsNFT, Lending!NFT
    <3>2. CASE x \in [asset_type : {"Token"}, amount : Nat]
      BY <3>2 DEF IsNFT, Lending!NFT
    <3> QED BY <3>1, <3>2 DEF LendingAssets
  <2> QED BY <2>1
<1>6. \A x \in OfLending.NFTs :
        /\ IsNFT(a, x) => owner[x] = Self
        /\ IsNFT(lent, x) => home(x) = u
        /\ owner'[x] = IF IsNFT(lent, x) THEN v ELSE home(x)
  <2>1. \A x \in OfLending.NFTs : /\ (a = Lending!NFT(x)) <=> IsNFT(a, x)
                                  /\ (lent = Lending!NFT(x)) <=> IsNFT(lent, x)
    BY <1>2, <1>5
  <2> QED BY <2>1 DEF Lending!GiveBack
<1>7. owner' \in [OfLending.NFTs -> LendingAccounts]
  <2>1. owner' = [x \in OfLending.NFTs |-> owner'[x]]
    BY DEF Lending!GiveBack
  <2>2. \A x \in OfLending.NFTs : owner'[x] \in LendingAccounts
    BY <1>3, <1>6
  <2> QED BY <2>1, <2>2
<1>8. HeldNFTs' = HeldNFTs \ {x \in OfLending.NFTs : IsNFT(a, x)}
  <2>1. ASSUME NEW x \in OfLending.NFTs
        PROVE  owner'[x] = Self <=> owner[x] = Self /\ ~IsNFT(a, x)
    BY <1>3, <1>6
  <2> QED BY <2>1 DEF HeldNFTs
<1> HIDE DEF back, u, v, a
<1>9. bal' \in [LendingAccounts -> Nat] /\ bal'[Self] = bal[Self] - back
  <2>1. ASSUME NEW x \in LendingAccounts PROVE bal[x] + got(x) \in Nat
    <3>1. bal[x] \in Nat /\ bal[u] \in Nat
      BY <1>3
    <3> QED BY <1>2, <1>3, <1>4, <3>1
  <2>2. bal[Self] \in Nat /\ got(Self) = 0 - back
    BY <1>2, <1>3
  <2>3. bal[Self] + got(Self) = bal[Self] - back
    BY <1>2, <2>2
  <2> HIDE DEF got
  <2> QED BY <1>3, <1>4, <2>1, <2>3
<1>10. Keeps([KeptAssets EXCEPT ![key] = Nothing], bal[Self] - back,
             HeldNFTs \ {x \in OfLending.NFTs : IsNFT(a, x)})
  <2>1. KeptAssets[key] = a
    BY DEF a
  <2> QED BY <2>1, KeptLess DEF back
<1> QED BY <1>7, <1>8, <1>9, <1>10

\* A loan changes, and with it what is kept for it.
LEMMA LoanUpdated ==
  ASSUME LendingInv, NEW i \in 1 .. Len(loan), NEW r \in RunningLoan, LoanFits(r),
         loan' = [loan EXCEPT ![i] = r], offer' = offer, now' = now, loan[i].status = "Active",
         r.terms = loan[i].terms,
         bal' \in [LendingAccounts -> Nat], owner' \in [OfLending.NFTs -> LendingAccounts],
         Keeps(KeptAssets', bal'[Self], HeldNFTs'),
         NEW e \in Nat \cup {None}, extension' = [extension EXCEPT ![i] = e],
         e # None => r.extension_secs + e <= r.terms.max_extension_secs
  PROVE  LendingInv' /\ LoanDecides
<1>1. /\ loan' \in Seq(RunningLoan) /\ Len(loan') = Len(loan)
      /\ \A j \in 1 .. Len(loan) : loan'[j] = IF j = i THEN r ELSE loan[j]
      /\ \A j \in 1 .. Len(loan') : LoanFits(loan'[j])
      /\ AcceptedOffers' = AcceptedOffers
      /\ LoanDecides
  BY LoanChanged
<1>2. i \in 1 .. OfLending.MaxOffers
  BY LoansFit
<1>3. /\ extension' \in [1 .. OfLending.MaxOffers -> Nat \cup {None}]
      /\ \A j \in 1 .. OfLending.MaxOffers : extension'[j] = IF j = i THEN e ELSE extension[j]
  BY <1>2 DEF LendingInv
<1>4. \A j \in 1 .. OfLending.MaxOffers : ExtensionFits(j)'
  <2>1. ASSUME NEW j \in 1 .. OfLending.MaxOffers, extension'[j] # None
        PROVE  /\ j \in 1 .. Len(loan')
               /\ loan'[j].extension_secs + extension'[j] <= loan'[j].terms.max_extension_secs
    <3>1. CASE j = i
      BY <1>1, <1>3, <2>1, <3>1
    <3>2. CASE j # i
      <4>1. j \in 1 .. Len(loan)
              /\ loan[j].extension_secs + extension[j] <= loan[j].terms.max_extension_secs
        BY <1>3, <2>1, <3>2 DEF LendingInv, ExtensionFits
      <4> QED BY <1>1, <1>3, <3>2, <4>1
    <3> QED BY <3>1, <3>2
  <2> QED BY <2>1 DEF ExtensionFits
<1>5. offer' \in Seq(OfferRecord) /\ Len(offer') <= OfLending.MaxOffers /\ now' \in Nat
  BY DEF LendingInv
<1>6. Cardinality(AcceptedOffers') = Len(loan')
  BY <1>1 DEF LendingInv
<1>7. LendingInv'
  BY <1>1, <1>3, <1>4, <1>5, <1>6 DEF LendingInv
<1> QED BY <1>1, <1>7

\* What is asked for stays when nobody asks.
LEMMA NothingAsked ==
  ASSUME LendingInv, NEW i \in 1 .. Len(loan), extension' = extension
  PROVE  /\ extension[i] \in Nat \cup {None} /\ extension' = [extension EXCEPT ![i] = extension[i]]
         /\ extension[i] # None =>
              loan[i].extension_secs + extension[i] <= loan[i].terms.max_extension_secs
<1>1. i \in 1 .. OfLending.MaxOffers
  BY LoansFit
<1> QED BY <1>1 DEF LendingInv, ExtensionFits

\* What is kept for a loan that runs stays when it goes on running.
LEMMA LoanGoesOn ==
  ASSUME LendingInv, NEW i \in 1 .. Len(loan), NEW r \in RunningLoan, LoanFits(r),
         loan' = [loan EXCEPT ![i] = r], offer' = offer, loan[i].status = "Active",
         r.status = "Active", r.terms = loan[i].terms
  PROVE  KeptAssets' = KeptAssets
<1>1. KeptAssets' = [KeptAssets EXCEPT ![<<"loan", i>>] = LoanKeeps(r)]
  BY LoanChanged
<1>2. KeptAssets[<<"loan", i>>] = LoanKeeps(r)
  BY LoansFit DEF KeptAssets, KeptFor, LoanKeeps
<1> QED BY <1>1, <1>2, LoansFit

\* A payment lowers the interest, and then the principal.
LEMMA PaymentLowers ==
  ASSUME NEW l \in RunningLoan, LoanFits(l), Lending!Settled(l) = FALSE, NEW n \in Nat,
         n <= l.outstanding_principal + l.accrued_interest
  PROVE  LET m == Lending!Paid(l, n)
             r == [m EXCEPT !.status = "Repaid"]
         IN /\ m \in RunningLoan /\ r \in RunningLoan /\ r.status = "Repaid"
            /\ m.status = l.status /\ m.terms = l.terms /\ r.terms = l.terms
            /\ m.extension_secs = l.extension_secs /\ r.extension_secs = l.extension_secs
            /\ Lending!Settled(m) => LoanFits(r)
            /\ ~Lending!Settled(m) => LoanFits(m)
<1> DEFINE x == IF n < l.accrued_interest THEN n ELSE l.accrued_interest
           m == Lending!Paid(l, n)
           r == [m EXCEPT !.status = "Repaid"]
           p == l.outstanding_principal - (n - x)
           q == l.accrued_interest - x
<1>1. l.outstanding_principal \in Nat /\ l.accrued_interest \in Nat
  BY DEF RunningLoan
<1>2. x \in Nat /\ p \in Nat /\ q \in Nat
  BY <1>1
<1>3. m = [l EXCEPT !.accrued_interest = q, !.outstanding_principal = p]
  BY DEF Lending!Paid
<1> HIDE DEF p, q, m
<1>4. /\ m \in RunningLoan
      /\ m.status = l.status /\ m.terms = l.terms /\ m.extension_secs = l.extension_secs
      /\ m.due_time = l.due_time /\ m.start_time = l.start_time
      /\ m.outstanding_principal = p /\ m.accrued_interest = q
  BY <1>2, <1>3 DEF RunningLoan
<1>5. /\ r \in RunningLoan
      /\ r.status = "Repaid" /\ r.terms = l.terms /\ r.extension_secs = l.extension_secs
      /\ r.due_time = l.due_time /\ r.start_time = l.start_time
      /\ r.outstanding_principal = p /\ r.accrued_interest = q
  BY <1>4 DEF RunningLoan
<1> HIDE DEF r
<1>6. l.status # "Repaid"
  BY DEF LoanFits
<1>7. ASSUME Lending!Settled(m) PROVE LoanFits(r)
  BY <1>4, <1>5, <1>7 DEF LoanFits, Lending!Settled
<1>8. ASSUME ~Lending!Settled(m) PROVE LoanFits(m)
  <2>1. Lending!Settled(m) = FALSE /\ (m.status = "Repaid") = FALSE
    BY <1>4, <1>6, <1>8 DEF Lending!Settled
  <2> QED BY <1>4, <2>1 DEF LoanFits
<1> QED BY <1>4, <1>5, <1>7, <1>8 DEF r, m

\* A loan is repaid, in part or in full.
LEMMA LoanRepaid ==
  ASSUME LendingInv, NEW i \in 1 .. Len(loan), NEW n \in OfLending.Amounts, Lending!Repay(i, n)
  PROVE  LendingInv' /\ LoanDecides
<1> DEFINE o == loan[i]
           l == Lending!Accrued(o)
           m == Lending!Paid(l, n)
           r == [m EXCEPT !.status = "Repaid"]
           key == <<"loan", i>>
<1>1. /\ l.status = "Active" /\ n <= l.outstanding_principal + l.accrued_interest
      /\ \/ Lending!Settled(m) /\ Lending!GiveBack(l, n) /\ loan' = [loan EXCEPT ![i] = r]
         \/ /\ ~Lending!Settled(m) /\ loan' = [loan EXCEPT ![i] = m]
            /\ Lending!TransferAsset(Lending!Token(n), l.borrower, l.lender)
      /\ now' = now /\ offer' = offer /\ extension' = extension
  BY DEF Lending!Repay
<1>2. n \in Nat /\ o \in RunningLoan /\ LoanFits(o) /\ key \in KeptKeys /\ now \in Nat
  BY LendingAssumption, LoansFit DEF LendingInv
<1>3. o.status = "Active"
  <2> HIDE DEF o
  <2>1. l.status = o.status
    BY <1>2, InterestAccrues
  <2> QED BY <1>1, <2>1
<1>4. /\ l \in RunningLoan /\ LoanFits(l) /\ l.terms = o.terms
      /\ l.extension_secs = o.extension_secs /\ Lending!Settled(l) = FALSE
  BY <1>3, AccruedFits
<1>5. KeptAssets[key] = o.terms.collateral_asset
  BY <1>2, <1>3 DEF KeptAssets, KeptFor, LoanKeeps
<1> HIDE DEF l, o, key
<1>6. /\ m \in RunningLoan /\ r \in RunningLoan /\ r.status = "Repaid" /\ m.status = "Active"
      /\ m.terms = o.terms /\ r.terms = o.terms
      /\ m.extension_secs = o.extension_secs /\ r.extension_secs = o.extension_secs
      /\ Lending!Settled(m) => LoanFits(r)
      /\ ~Lending!Settled(m) => LoanFits(m)
  BY <1>1, <1>2, <1>4, PaymentLowers
<1> HIDE DEF r, m
<1> DEFINE e == extension[i]
<1>7. /\ e \in Nat \cup {None} /\ extension' = [extension EXCEPT ![i] = e]
      /\ e # None => o.extension_secs + e <= o.terms.max_extension_secs
  BY <1>1, NothingAsked DEF o
<1> HIDE DEF e
<1>8. CASE Lending!Settled(m)
  <2>1. /\ Lending!GiveBack(l, n) /\ loan' = [loan EXCEPT ![i] = r] /\ LoanFits(r)
        /\ LoanKeeps(r) = Nothing
    BY <1>1, <1>6, <1>8 DEF LoanKeeps
  <2>2. KeptAssets' = [KeptAssets EXCEPT ![key] = Nothing]
    BY <1>1, <1>3, <1>6, <2>1, LoanChanged DEF o, key
  <2>3. KeptAssets[key] = l.terms.collateral_asset
    BY <1>4, <1>5
  <2>4. /\ bal' \in [LendingAccounts -> Nat] /\ owner' \in [OfLending.NFTs -> LendingAccounts]
        /\ Keeps(KeptAssets', bal'[Self], HeldNFTs')
    BY <1>2, <1>4, <2>1, <2>2, <2>3, CollateralGivenBack
  <2> QED BY <1>1, <1>3, <1>6, <1>7, <2>1, <2>4, LoanUpdated DEF o
<1>9. CASE ~Lending!Settled(m)
  <2>1. /\ loan' = [loan EXCEPT ![i] = m] /\ LoanFits(m)
        /\ Lending!TransferAsset(Lending!Token(n), l.borrower, l.lender)
    BY <1>1, <1>6, <1>9
  <2>2. KeptAssets' = KeptAssets
    BY <1>1, <1>3, <1>6, <2>1, LoanGoesOn DEF o
  <2>3. /\ bal' \in [LendingAccounts -> Nat] /\ bal'[Self] = bal[Self]
        /\ owner' = owner
    <3> DEFINE u == l.borrower
               v == l.lender
    <3>1. /\ u \in LendingAccounts /\ v \in LendingAccounts /\ u # Self /\ v # Self
          /\ bal \in [LendingAccounts -> Nat] /\ Self \in LendingAccounts
      BY <1>4, LendingAssumption DEF RunningLoan, LendingAccounts, LendingInv
    <3>2. /\ bal[u] >= n /\ owner' = owner
          /\ bal' = [bal EXCEPT ![u] = @ - n, ![v] = @ + n]
      BY <2>1 DEF Lending!TransferAsset, Lending!Token
    <3> HIDE DEF u, v
    <3>3. bal[u] \in Nat /\ bal[v] \in Nat /\ bal[u] - n \in Nat
      BY <1>2, <3>1, <3>2
    <3>4. CASE u = v
      BY <1>2, <3>1, <3>2, <3>3, <3>4
    <3>5. CASE u # v
      <4>1. Moves(u, v, n)
        BY <3>2 DEF Moves
      <4> QED BY <1>2, <3>1, <3>2, <3>5, <4>1, Moved
    <3> QED BY <3>4, <3>5
  <2>4. /\ owner' \in [OfLending.NFTs -> LendingAccounts] /\ HeldNFTs' = HeldNFTs
        /\ Keeps(KeptAssets', bal'[Self], HeldNFTs')
    BY <2>2, <2>3 DEF LendingInv, HeldNFTs
  <2> QED BY <1>1, <1>3, <1>6, <1>7, <2>1, <2>3, <2>4, LoanUpdated DEF o
<1> QED BY <1>8, <1>9

\* The lender takes the collateral.
LEMMA LoanLiquidated ==
  ASSUME LendingInv, NEW i \in 1 .. Len(loan), Lending!Liquidate(i)
  PROVE  LendingInv' /\ LoanDecides
<1> DEFINE o == loan[i]
           l == Lending!Accrued(o)
           r == [l EXCEPT !.status = "Liquidated"]
           key == <<"loan", i>>
           a == o.terms.collateral_asset
<1>1. /\ o.status = "Active" /\ Lending!TransferAsset(a, Self, o.lender)
      /\ loan' = [loan EXCEPT ![i] = r] /\ extension' = [extension EXCEPT ![i] = None]
      /\ now' = now /\ offer' = offer
  BY DEF Lending!Liquidate
<1>2. o \in RunningLoan /\ LoanFits(o) /\ key \in KeptKeys
  BY LoansFit
<1>3. o.lender \in OfLending.Users /\ a \in LendingAssets
  BY <1>2 DEF RunningLoan, LendingTerms
<1>4. /\ l \in RunningLoan /\ LoanFits(l) /\ l.terms = o.terms /\ Lending!Settled(l) = FALSE
  BY <1>1, AccruedFits
<1>5. KeptAssets[key] = a
  BY <1>1, <1>2 DEF KeptAssets, KeptFor, LoanKeeps
<1> HIDE DEF l
<1>6. r \in RunningLoan /\ r.status = "Liquidated" /\ r.terms = o.terms /\ LoanKeeps(r) = Nothing
  BY <1>4 DEF RunningLoan, LoanKeeps
<1>7. LoanFits(r)
  <2>1. /\ r.extension_secs = l.extension_secs /\ r.due_time = l.due_time
        /\ r.start_time = l.start_time /\ r.terms = l.terms
        /\ r.outstanding_principal = l.outstanding_principal
        /\ r.accrued_interest = l.accrued_interest
    BY <1>4 DEF RunningLoan
  <2> HIDE DEF r
  <2>2. Lending!Settled(r) = FALSE /\ (r.status = "Repaid") = FALSE
    BY <1>4, <1>6, <2>1 DEF Lending!Settled
  <2> QED BY <1>4, <2>1, <2>2 DEF LoanFits
<1> HIDE DEF r
<1>8. KeptAssets' = [KeptAssets EXCEPT ![key] = Nothing]
  BY <1>1, <1>6, <1>7, LoanChanged
<1>9. /\ bal' \in [LendingAccounts -> Nat] /\ owner' \in [OfLending.NFTs -> LendingAccounts]
      /\ Keeps(KeptAssets', bal'[Self], HeldNFTs')
  <2> HIDE DEF key, a
  <2> QED BY <1>1, <1>2, <1>3, <1>5, <1>8, KeptGoes
<1> DEFINE e == None
<1>10. e \in Nat \cup {None} /\ e = None
  OBVIOUS
<1> QED BY <1>1, <1>6, <1>7, <1>9, <1>10, LoanUpdated

\* More time is asked for.
LEMMA ExtensionAsked ==
  ASSUME LendingInv, NEW i \in 1 .. Len(loan), NEW n \in 1 .. 2, Lending!RequestExtension(i, n)
  PROVE  LendingInv' /\ LoanDecides
<1>1. /\ loan[i].extension_secs + n <= loan[i].terms.max_extension_secs
      /\ extension' = [extension EXCEPT ![i] = n]
      /\ UNCHANGED <<now, bal, owner, offer, loan>>
  BY DEF Lending!RequestExtension, Lending!assets
<1>2. i \in 1 .. OfLending.MaxOffers /\ n \in Nat
  <2>1. n \in Nat
    OBVIOUS
  <2> QED BY <2>1, LoansFit
<1>3. extension' \in [1 .. OfLending.MaxOffers -> Nat \cup {None}]
  BY <1>1, <1>2 DEF LendingInv
<1>4. \A j \in 1 .. OfLending.MaxOffers : ExtensionFits(j)'
  BY <1>1, <1>2 DEF LendingInv, ExtensionFits
<1>5. KeptAssets' = KeptAssets /\ HeldNFTs' = HeldNFTs /\ AcceptedOffers' = AcceptedOffers
  BY <1>1 DEF KeptAssets, KeptFor, HeldNFTs, AcceptedOffers
<1>6. LendingInv'
  BY <1>1, <1>3, <1>4, <1>5 DEF LendingInv
<1> QED BY <1>1, <1>6 DEF LoanDecides, LoanStates

\* More time is given.
LEMMA ExtensionApproved ==
  ASSUME LendingInv, NEW i \in 1 .. Len(loan), Lending!ApproveExtension(i)
  PROVE  LendingInv' /\ LoanDecides
<1> DEFINE o == loan[i]
           l == Lending!Accrued(o)
           n == extension[i]
           r == [l EXCEPT !.due_time = l.due_time + n, !.extension_secs = l.extension_secs + n]
<1>1. /\ o.status = "Active" /\ n # None /\ loan' = [loan EXCEPT ![i] = r]
      /\ extension' = [extension EXCEPT ![i] = None]
      /\ UNCHANGED <<now, bal, owner, offer>>
  BY DEF Lending!ApproveExtension, Lending!assets
<1>2. o \in RunningLoan /\ LoanFits(o) /\ i \in 1 .. OfLending.MaxOffers
  BY LoansFit
<1>3. n \in Nat /\ o.extension_secs + n <= o.terms.max_extension_secs
  BY <1>1, <1>2 DEF LendingInv, ExtensionFits
<1>4. /\ l \in RunningLoan /\ LoanFits(l) /\ l.terms = o.terms /\ Lending!Settled(l) = FALSE
      /\ l.extension_secs = o.extension_secs /\ l.status = "Active"
  BY <1>1, AccruedFits
<1> HIDE DEF l, n
<1>5. /\ r \in RunningLoan /\ r.status = "Active" /\ r.terms = o.terms
      /\ r.extension_secs = l.extension_secs + n /\ r.due_time = l.due_time + n
      /\ r.start_time = l.start_time
      /\ r.outstanding_principal = l.outstanding_principal
      /\ r.accrued_interest = l.accrued_interest
  <2>1. l.due_time + n \in Nat /\ l.extension_secs + n \in Nat
    BY <1>3, <1>4 DEF RunningLoan
  <2> QED BY <1>4, <2>1 DEF RunningLoan
<1> HIDE DEF r
<1>6. LoanFits(r)
  <2>1. Lending!Settled(r) = FALSE /\ (r.status = "Repaid") = FALSE
    BY <1>4, <1>5 DEF Lending!Settled
  <2>2. /\ l.start_time \in Nat /\ l.terms.duration_secs \in Nat /\ l.extension_secs \in Nat
        /\ l.due_time = l.start_time + l.terms.duration_secs + l.extension_secs
    BY <1>4 DEF RunningLoan, LendingTerms, LoanFits
  <2>3. r.due_time = r.start_time + r.terms.duration_secs + r.extension_secs
    BY <1>3, <1>4, <1>5, <2>2
  <2>4. r.extension_secs <= r.terms.max_extension_secs
    BY <1>3, <1>4, <1>5
  <2> QED BY <2>1, <2>3, <2>4 DEF LoanFits
<1>7. /\ bal' \in [LendingAccounts -> Nat] /\ owner' \in [OfLending.NFTs -> LendingAccounts]
      /\ Keeps(KeptAssets', bal'[Self], HeldNFTs')
  <2>1. KeptAssets' = KeptAssets
    BY <1>1, <1>5, <1>6, LoanGoesOn
  <2> QED BY <1>1, <2>1 DEF LendingInv, HeldNFTs
<1> QED BY <1>1, <1>5, <1>6, <1>7, LoanUpdated

LEMMA LendingStep ==
  ASSUME LendingInv, Lending!Next \/ UNCHANGED Lending!vars
  PROVE  LendingInv' /\ LoanDecides
<1> DEFINE Stays == UNCHANGED <<bal, owner, offer, loan, extension>> /\ now' \in {now, now + 1}
           G == LendingInv' /\ LoanDecides
<1>1. ASSUME Stays PROVE G
  <2>1. KeptAssets' = KeptAssets /\ HeldNFTs' = HeldNFTs /\ AcceptedOffers' = AcceptedOffers
    BY <1>1 DEF KeptAssets, KeptFor, HeldNFTs, AcceptedOffers
  <2>2. \A j \in 1 .. OfLending.MaxOffers : ExtensionFits(j)'
    BY <1>1 DEF LendingInv, ExtensionFits
  <2>3. LendingInv'
    BY <1>1, <2>1, <2>2 DEF LendingInv
  <2> QED BY <1>1, <2>3 DEF LoanDecides, LoanStates
<1>2. CASE Lending!Tick
  <2>1. Stays
    BY <1>2 DEF Lending!Tick, Lending!assets
  <2> QED BY <1>1, <2>1
<1>3. CASE UNCHANGED Lending!vars
  <2>1. Stays
    BY <1>3 DEF Lending!vars
  <2> QED BY <1>1, <2>1
<1>4. DOMAIN loan = 1 .. Len(loan) /\ DOMAIN offer = 1 .. Len(offer)
  BY LoansFit
<1>5. ASSUME NEW u \in OfLending.Users, NEW o \in OfLending.Offers, Lending!CreateOffer(u, o)
      PROVE  G
  BY <1>5, OfferMade
<1>6. ASSUME NEW u \in OfLending.Users, NEW i \in 1 .. Len(offer), Lending!AcceptOffer(u, i)
      PROVE  G
  BY <1>6, OfferAccepted
<1>7. ASSUME NEW i \in 1 .. Len(offer), Lending!CancelOffer(i) PROVE G
  BY <1>7, OfferCancelled
<1>8. ASSUME NEW i \in 1 .. Len(loan), NEW n \in OfLending.Amounts, Lending!Repay(i, n) PROVE G
  BY <1>8, LoanRepaid
<1>9. ASSUME NEW i \in 1 .. Len(loan), Lending!Liquidate(i) \/ Lending!ApproveExtension(i)
      PROVE  G
  BY <1>9, LoanLiquidated, ExtensionApproved
<1>10. ASSUME NEW i \in 1 .. Len(loan), NEW n \in 1 .. 2, Lending!RequestExtension(i, n) PROVE G
  BY <1>10, ExtensionAsked
<1> HIDE DEF G, Stays
<1>11. CASE Lending!Next
  <2>1. CASE \E u \in OfLending.Users : \/ \E o \in OfLending.Offers : Lending!CreateOffer(u, o)
                                        \/ \E i \in 1 .. Len(offer) : Lending!AcceptOffer(u, i)
    BY <1>5, <1>6, <2>1 DEF G
  <2>2. CASE \E i \in 1 .. Len(offer) : Lending!CancelOffer(i)
    BY <1>7, <2>2 DEF G
  <2>3. CASE \E i \in 1 .. Len(loan) : \/ \E n \in OfLending.Amounts : Lending!Repay(i, n)
                                       \/ Lending!Liquidate(i)
                                       \/ \E n \in 1 .. 2 : Lending!RequestExtension(i, n)
                                       \/ Lending!ApproveExtension(i)
    BY <1>8, <1>9, <1>10, <2>3 DEF G
  <2> QED BY <1>2, <1>4, <1>11, <2>1, <2>2, <2>3 DEF Lending!Next, G
<1> QED BY <1>3, <1>11 DEF G

\* The states of the loans follow the specification Decisions.
LEMMA LendingDecides ==
  ASSUME LendingInv, LendingInv', LoanDecides PROVE Lending!D!Step
<1> DEFINE M == OfLending.MaxOffers
           s == [i \in 1 .. M |-> IF i \in DOMAIN loan THEN loan[i].status ELSE "none"]
<1>1. s = LoanStates /\ s' = LoanStates'
  BY DEF LendingInv, LoanStates
<1>2. \/ s' = s
      \/ \E i \in 1 .. M, x \in {"Active", "Repaid", "Liquidated"} :
           s[i] \in {"none", "Active"} /\ s' = [s EXCEPT ![i] = x]
  BY <1>1 DEF LoanDecides
<1> HIDE DEF M
<1> QED
  BY <1>2
  DEF M, Lending!D!Step, Lending!D!Next, Lending!D!Proceed, Lending!D!Decide,
      Lending!D!Becomes

LEMMA LendingInit == ASSUME Lending!Init PROVE LendingInv /\ Lending!D!Init
<1>1. /\ now = 0 /\ offer = <<>> /\ loan = <<>> /\ Len(offer) = 0 /\ Len(loan) = 0
      /\ offer \in Seq(OfferRecord) /\ loan \in Seq(RunningLoan)
      /\ OfLending.MaxOffers \in Nat
  BY LendingAssumption DEF Lending!Init
<1>2. /\ bal \in [LendingAccounts -> Nat] /\ bal[Self] = 0
      /\ owner \in [OfLending.NFTs -> OfLending.Users]
      /\ extension \in [1 .. OfLending.MaxOffers -> {None}]
  BY LendingAssumption DEF Lending!Init, LendingAccounts
<1>3. HeldNFTs = {} /\ AcceptedOffers = {}
  BY <1>1, <1>2, LendingAssumption DEF HeldNFTs, AcceptedOffers
<1>4. \A k \in KeptKeys : KeptAssets[k] = Nothing
  BY <1>1 DEF KeptAssets, KeptFor
<1>5. Total(Worths(KeptAssets)) = 0
  <2> DEFINE f == Worths(KeptAssets)
             I == KeptKeys
  <2>1. f \in [I -> Nat] /\ \A k \in I : f[k] = 0
    BY <1>4, WorthType DEF Worths
  <2> HIDE DEF f, I
  <2> QED BY <2>1, TotalZero DEF f
<1>6. Keeps(KeptAssets, bal[Self], HeldNFTs)
  BY <1>2, <1>3, <1>4, <1>5, WorthType DEF Keeps, KeptAssets
<1>7. Cardinality(AcceptedOffers) = Len(loan)
  BY <1>1, <1>3, FS_EmptySet
<1>8. \A i \in 1 .. OfLending.MaxOffers : ExtensionFits(i)
  BY <1>2 DEF ExtensionFits
<1>9. LendingInv
  BY <1>1, <1>2, <1>6, <1>7, <1>8 DEF LendingInv, LendingAccounts
<1>10. Lending!D!Init
  BY <1>1 DEF Lending!D!Init
<1> QED BY <1>9, <1>10

\* What the inductive invariant says of the contract.
LEMMA LendingSays == ASSUME LendingInv PROVE Lending!CollateralKept
<1> DEFINE D == DOMAIN Lending!Kept
           worth(x) == IF x.asset_type = "Token" THEN x.amount ELSE 0
           W == Worths(KeptAssets)
           f == [k \in D |-> IF Lending!Kept[k].asset_type = "Token"
                             THEN Lending!Kept[k].amount ELSE 0]
<1>1. D = ({"offer"} \X (1 .. Len(offer))) \cup ({"loan"} \X (1 .. Len(loan)))
  BY LoansFit DEF Lending!Kept
<1>2. D \in SUBSET KeptKeys
  BY <1>1, LoansFit DEF KeptKeys
<1>3. \A k \in D : Lending!Kept[k] = KeptAssets[k]
  <2>1. ASSUME NEW k \in D PROVE Lending!Kept[k] = KeptFor(k)
    <3>1. CASE k[1] = "offer"
      <4>1. k[2] \in 1 .. Len(offer)
        BY <1>1, <3>1
      <4> QED BY <3>1, <4>1 DEF Lending!Kept, KeptFor, OfferKeeps, Nothing, Lending!Token
    <3>2. CASE k[1] # "offer"
      <4>1. k[1] = "loan" /\ k[2] \in 1 .. Len(loan)
        BY <1>1, <3>2
      <4> QED BY <3>2, <4>1 DEF Lending!Kept, KeptFor, LoanKeeps, Nothing, Lending!Token
    <3> QED BY <3>1, <3>2
  <2> QED BY <1>2, <2>1 DEF KeptAssets
<1>4. \A k \in KeptKeys : k \notin D => KeptAssets[k] = Nothing
  BY <1>1 DEF KeptKeys, KeptAssets, KeptFor
<1>5. KeptAssets \in [KeptKeys -> LendingAssets] /\ W \in [KeptKeys -> Nat]
  BY LoansFit, WorthType DEF Worths
<1> HIDE DEF D
<1>6. bal[Self] = Total(f)
  <2>1. [k \in D |-> W[k]] = f
    BY <1>2, <1>3 DEF Worths, Worth
  <2>2. [k \in KeptKeys |-> IF k \in D THEN W[k] ELSE 0] = W
    BY <1>4, WorthType DEF Worths
  <2>3. Total([k \in D |-> W[k]]) = Total([k \in KeptKeys |-> IF k \in D THEN W[k] ELSE 0])
    <3>1. \A k \in D : W[k] \in Nat
      BY <1>2, <1>5
    <3> HIDE DEF W
    <3> QED BY <1>2, <3>1, TotalWithin
  <2> QED BY <2>1, <2>2, <2>3 DEF LendingInv, Keeps
<1>7. Lending!Total(f) = Total(f)
  BY Zenon DEF Lending!Total, Total, Lending!Units, Units, Lending!Cardinality, Cardinality
<1>8. ASSUME NEW x \in OfLending.NFTs
      PROVE  Cardinality({k \in D : Lending!Kept[k] = Lending!NFT(x)})
               = IF owner[x] = Self THEN 1 ELSE 0
  <2> DEFINE S == {k \in D : Lending!Kept[k] = Lending!NFT(x)}
             R == {k \in KeptKeys : IsNFT(KeptAssets[k], x)}
  <2>1. ASSUME NEW a \in LendingAssets PROVE (a = Lending!NFT(x)) <=> IsNFT(a, x)
    <3>1. CASE a \in [asset_type : {"NFT"}, nft_id : OfLending.NFTs]
      BY <3>1 DEF IsNFT, Lending!NFT
    <3>2. CASE a \in [asset_type : {"Token"}, amount : Nat]
      BY <3>2 DEF IsNFT, Lending!NFT
    <3> QED BY <3>1, <3>2 DEF LendingAssets
  <2>2. S = R
    <3>1. ASSUME NEW k \in S PROVE k \in R
      BY <1>2, <1>3, <1>5, <2>1
    <3>2. ASSUME NEW k \in R PROVE k \in S
      <4>1. k \in D
        BY <1>4, WorthType
      <4> QED BY <1>3, <1>5, <2>1, <4>1
    <3> QED BY <3>1, <3>2
  <2> HIDE DEF S
  <2>3. CASE owner[x] = Self
    <3>1. PICK k \in KeptKeys : IsNFT(KeptAssets[k], x)
      BY <2>3 DEF LendingInv, Keeps, HeldNFTs
    <3>2. R = {k}
      BY <3>1 DEF LendingInv, Keeps
    <3> QED BY <2>2, <2>3, <3>2, FS_Singleton DEF S
  <2>4. CASE owner[x] # Self
    <3>1. R = {}
      BY <2>4 DEF LendingInv, Keeps, HeldNFTs
    <3> QED BY <2>2, <2>4, <3>1, FS_EmptySet DEF S
  <2> QED BY <2>3, <2>4
<1>9. ASSUME NEW i \in DOMAIN loan
      PROVE  /\ LoanFits(loan[i])
             /\ loan[i].outstanding_principal >= 0 /\ loan[i].accrued_interest >= 0
  <2>1. loan[i] \in RunningLoan /\ LoanFits(loan[i])
    BY LoansFit
  <2>2. loan[i].outstanding_principal \in Nat /\ loan[i].accrued_interest \in Nat
    BY <2>1 DEF RunningLoan
  <2> QED BY <2>1, <2>2
<1>10. \A x : Lending!Cardinality(x) = Cardinality(x)
  BY Zenon DEF Lending!Cardinality, Cardinality
<1> QED BY <1>6, <1>7, <1>8, <1>9, <1>10 DEF Lending!CollateralKept, LoanFits, D

-----------------------------------------------------------------------------
(***************************************************************************)
(* Proofs: vesting with time and milestones.                               *)
(***************************************************************************)
MilestoneRecord == [id : Nat, percentage : Nat, completed : BOOLEAN]
VestingTypes == {"TimeBased", "MilestoneBased", "Hybrid"}
VestingTerms ==
  [total_amount : Nat, start_time : Nat, cliff_duration : Nat, vesting_duration : Nat,
   revocable : BOOLEAN, vesting_type : VestingTypes, milestones : Seq(MilestoneRecord)]
VestingRecord ==
  [schedule_id : Nat, total_amount : Nat, released_amount : Nat, start_time : Nat,
   cliff_duration : Nat, vesting_duration : Nat, revocable : BOOLEAN, revoked : BOOLEAN,
   milestones : Seq(MilestoneRecord), vesting_type : VestingTypes]

\* The beneficiaries, which are neither the admin nor the contract, and terms.
ASSUME VestingAssumption ==
  /\ IsFiniteSet(OfVesting.Users) /\ Self \notin OfVesting.Users
  /\ OfVesting.Admin \notin OfVesting.Users /\ Self # OfVesting.Admin
  /\ OfVesting.WHOLE \in Nat \ {0} /\ OfVesting.InitBalance \in Nat
  /\ OfVesting.Durations \subseteq Nat /\ OfVesting.Milestones \subseteq Seq(MilestoneRecord)
  /\ OfVesting.Schedules \subseteq VestingTerms
  /\ None \notin VestingRecord

TimeVested(s, t) ==
  IF t >= s.start_time + s.vesting_duration THEN s.total_amount
  ELSE (s.total_amount * (t - s.start_time)) \div s.vesting_duration

Completed(ms) == {j \in DOMAIN ms : ms[j].completed}
MilestoneShare(n, ms) == [i \in DOMAIN ms |-> (n * ms[i].percentage) \div OfVesting.WHOLE]
MilestonesVested(n, ms) == Total([i \in Completed(ms) |-> MilestoneShare(n, ms)[i]])

\* What is vested of s at time t.
VestedAt(s, t) ==
  IF t < s.start_time + s.cliff_duration THEN 0
  ELSE IF s.vesting_type = "TimeBased" THEN TimeVested(s, t)
  ELSE IF s.vesting_type = "MilestoneBased" THEN MilestonesVested(s.total_amount, s.milestones)
  ELSE IF TimeVested(s, t) < MilestonesVested(s.total_amount, s.milestones) THEN TimeVested(s, t)
  ELSE MilestonesVested(s.total_amount, s.milestones)

\* k is what was vested when s was revoked, if it was.
ScheduleSays(s, t, k) ==
  /\ Vesting!Sums(s.milestones) /\ s.released_amount <= s.total_amount
  /\ s.released_amount <= IF s.revoked THEN k ELSE VestedAt(s, t)

GivenOf(s, k) == (IF s.revoked THEN k ELSE s.total_amount) - s.released_amount
StillGiven(u) == IF schedule[u] # None THEN GivenOf(schedule[u], vested_then[u]) ELSE 0
GivenToAll == [u \in OfVesting.Users |-> StillGiven(u)]

VestingInv ==
  /\ now \in Nat /\ next_id \in Nat
  /\ bal \in [OfVesting.Users \cup {OfVesting.Admin, Self} -> Nat]
  /\ schedule \in [OfVesting.Users -> VestingRecord \cup {None}]
  /\ vested_then \in [OfVesting.Users -> Nat]
  /\ \A u \in OfVesting.Users : schedule[u] # None =>
       ScheduleSays(schedule[u], now, vested_then[u]) /\ bal[u] >= schedule[u].released_amount
  /\ bal[Self] >= Total(GivenToAll)

LEMMA VestingSums == \A g : Vesting!Total(g) = Total(g)
BY Zenon DEF Vesting!Total, Total, Vesting!Units, Units, Vesting!Cardinality, Cardinality

LEMMA MilestoneLists ==
  ASSUME NEW ms \in Seq(MilestoneRecord)
  PROVE  /\ IsFiniteSet(DOMAIN ms) /\ Completed(ms) \in SUBSET DOMAIN ms
         /\ \A i \in DOMAIN ms : ms[i] \in MilestoneRecord /\ ms[i].percentage \in Nat
         /\ \A n \in Nat : MilestoneShare(n, ms) \in [DOMAIN ms -> Nat]
<1>1. DOMAIN ms = 1 .. Len(ms) /\ Len(ms) \in Nat
  OBVIOUS
<1>2. IsFiniteSet(DOMAIN ms)
  BY <1>1, FS_Interval
<1>3. \A i \in DOMAIN ms : ms[i] \in MilestoneRecord /\ ms[i].percentage \in Nat
  <2>1. \A i \in DOMAIN ms : ms[i] \in MilestoneRecord
    BY <1>1
  <2> QED BY <2>1 DEF MilestoneRecord
<1>4. ASSUME NEW n \in Nat, NEW i \in DOMAIN ms
      PROVE  (n * ms[i].percentage) \div OfVesting.WHOLE \in Nat
  BY <1>3, VestingAssumption, Multiplied, Divided
<1> QED BY <1>2, <1>3, <1>4 DEF Completed, MilestoneShare

\* Milestones never give more than the whole amount.
LEMMA MilestonesFit ==
  ASSUME NEW ms \in Seq(MilestoneRecord), Vesting!Sums(ms), NEW n \in Nat
  PROVE  MilestonesVested(n, ms) \in Nat /\ MilestonesVested(n, ms) <= n
<1> DEFINE S == DOMAIN ms
           f == MilestoneShare(n, ms)
           w == [i \in S |-> ms[i].percentage]
           T == Completed(ms)
<1>1. /\ IsFiniteSet(S) /\ T \in SUBSET S /\ f \in [S -> Nat]
      /\ \A i \in S : ms[i].percentage \in Nat
  BY MilestoneLists
<1>2. w \in [S -> Nat] /\ \A i \in S : w[i] = ms[i].percentage
  BY <1>1
<1>3. \A i \in S : f[i] = (n * w[i]) \div OfVesting.WHOLE
  BY <1>2 DEF MilestoneShare
<1>4. S # {} => Total(w) = OfVesting.WHOLE
  <2>1. S # {} => ms # <<>>
    OBVIOUS
  <2> QED BY <2>1, VestingSums DEF Vesting!Sums
<1> HIDE DEF S, f, w, T
<1>5. CASE S = {}
  <2>1. \A i \in S : f[i] = 0
    BY <1>5
  <2>2. Total(f) = 0
    BY <1>1, <2>1, TotalZero
  <2>3. Total([a \in T |-> f[a]]) <= Total(f) /\ Total([a \in T |-> f[a]]) \in Nat
    BY <1>1, TotalPart
  <2> QED BY <2>2, <2>3 DEF MilestonesVested, f, T
<1>6. CASE S # {}
  <2>1. RoundedDown(f, S, n, w, OfVesting.WHOLE)
    BY <1>3 DEF RoundedDown
  <2>2. Total(w) <= OfVesting.WHOLE
    BY <1>4, <1>6, VestingAssumption
  <2>3. Total(f) <= n
    BY <1>1, <1>2, <2>1, <2>2, VestingAssumption, FloorSharesFit
  <2>4. /\ Total([a \in T |-> f[a]]) <= Total(f) /\ Total([a \in T |-> f[a]]) \in Nat
        /\ Total(f) \in Nat
    BY <1>1, TotalPart, UnitsFinite
  <2>5. Total([a \in T |-> f[a]]) <= n
    BY <2>3, <2>4
  <2> QED BY <2>4, <2>5 DEF MilestonesVested, f, T
<1> QED BY <1>5, <1>6

LEMMA TimeGrows ==
  ASSUME NEW s \in VestingRecord, NEW t \in Nat, NEW z \in Nat, s.start_time <= t, t <= z
  PROVE  /\ TimeVested(s, t) \in Nat /\ TimeVested(s, z) \in Nat
         /\ TimeVested(s, t) <= TimeVested(s, z) /\ TimeVested(s, z) <= s.total_amount
<1> DEFINE n == s.total_amount
           d == s.vesting_duration
           x == t - s.start_time
           y == z - s.start_time
<1>1. /\ n \in Nat /\ d \in Nat /\ x \in Nat /\ y \in Nat /\ x <= y
      /\ (t >= s.start_time + d <=> x >= d) /\ (z >= s.start_time + d <=> y >= d)
  BY DEF VestingRecord
<1>2. /\ TimeVested(s, t) = IF x >= d THEN n ELSE (n * x) \div d
      /\ TimeVested(s, z) = IF y >= d THEN n ELSE (n * y) \div d
  BY <1>1 DEF TimeVested
<1> HIDE DEF n, d, x, y
<1>3. CASE y < d
  <2>1. d \in Nat \ {0} /\ x < d /\ y <= d
    BY <1>1, <1>3
  <2>2. /\ (n * x) \div d \in Nat /\ (n * y) \div d \in Nat
        /\ (n * x) \div d <= (n * y) \div d /\ (n * y) \div d <= n
    BY <1>1, <2>1, ShareGrows
  <2>3. ~(x >= d) /\ ~(y >= d)
    BY <1>1, <1>3, <2>1
  <2> QED BY <1>2, <2>2, <2>3 DEF n
<1>4. CASE y >= d /\ x < d
  <2>1. d \in Nat \ {0} /\ x <= d /\ ~(x >= d)
    BY <1>1, <1>4
  <2>2. (n * x) \div d \in Nat /\ (n * x) \div d <= n
    BY <1>1, <2>1, ShareGrows
  <2> QED BY <1>1, <1>2, <1>4, <2>1, <2>2 DEF n
<1>5. CASE x >= d
  <2>1. y >= d
    BY <1>1, <1>5
  <2> QED BY <1>1, <1>2, <1>5, <2>1 DEF n
<1> QED BY <1>1, <1>3, <1>4, <1>5

\* What is vested grows with time, up to the whole amount.
LEMMA VestedGrows ==
  ASSUME NEW s \in VestingRecord, Vesting!Sums(s.milestones), NEW t \in Nat, NEW z \in Nat, t <= z
  PROVE  /\ VestedAt(s, t) \in Nat /\ VestedAt(s, z) \in Nat
         /\ VestedAt(s, t) <= VestedAt(s, z) /\ VestedAt(s, z) <= s.total_amount
<1> DEFINE m == MilestonesVested(s.total_amount, s.milestones)
           x == TimeVested(s, t)
           y == TimeVested(s, z)
           c == s.start_time + s.cliff_duration
           n == s.total_amount
<1>1. /\ n \in Nat /\ c \in Nat /\ s.milestones \in Seq(MilestoneRecord)
      /\ s.start_time \in Nat /\ s.start_time <= c
  BY DEF VestingRecord
<1>2. m \in Nat /\ m <= n
  BY <1>1, MilestonesFit
<1>3. t >= c => x \in Nat /\ y \in Nat /\ x <= y /\ y <= n
  BY <1>1, TimeGrows
<1>4. z >= c => y \in Nat /\ y <= n
  BY <1>1, TimeGrows, z <= z
<1>5. /\ VestedAt(s, t) = IF t < c THEN 0 ELSE IF s.vesting_type = "TimeBased" THEN x
           ELSE IF s.vesting_type = "MilestoneBased" THEN m ELSE IF x < m THEN x ELSE m
      /\ VestedAt(s, z) = IF z < c THEN 0 ELSE IF s.vesting_type = "TimeBased" THEN y
           ELSE IF s.vesting_type = "MilestoneBased" THEN m ELSE IF y < m THEN y ELSE m
  BY DEF VestedAt
<1> HIDE DEF m, x, y, c, n
<1>6. CASE z < c
  <2>1. t < c
    BY <1>1, <1>6
  <2> QED BY <1>1, <1>5, <1>6, <2>1 DEF n
<1>7. CASE t < c /\ z >= c
  BY <1>1, <1>2, <1>4, <1>5, <1>7 DEF n
<1>8. CASE t >= c
  <2>1. z >= c /\ ~(t < c) /\ ~(z < c)
    BY <1>1, <1>8
  <2> QED BY <1>1, <1>2, <1>3, <1>5, <1>8, <2>1 DEF n
<1> QED BY <1>1, <1>6, <1>7, <1>8

LEMMA VestedNow ==
  ASSUME NEW s \in VestingRecord, now \in Nat
  PROVE  Vesting!CalculateVestedAmount(s) = VestedAt(s, now)
<1> DEFINE m == MilestonesVested(s.total_amount, s.milestones)
           x == TimeVested(s, now)
           c == s.start_time + s.cliff_duration
<1>1. c \in Nat
  BY DEF VestingRecord
<1>2. Vesting!CalculateTimeBasedVesting(s) = x
  BY DEF Vesting!CalculateTimeBasedVesting, TimeVested
<1>3. Vesting!CalculateMilestoneBasedVesting(s) = m
  <2>1. [i \in {j \in DOMAIN s.milestones : s.milestones[j].completed} |->
           (s.total_amount * s.milestones[i].percentage) \div OfVesting.WHOLE]
          = [i \in Completed(s.milestones) |-> MilestoneShare(s.total_amount, s.milestones)[i]]
    BY DEF Completed, MilestoneShare
  <2> QED BY <2>1, VestingSums DEF Vesting!CalculateMilestoneBasedVesting, MilestonesVested
<1>4. VestedAt(s, now) = IF now < c THEN 0 ELSE IF s.vesting_type = "TimeBased" THEN x
        ELSE IF s.vesting_type = "MilestoneBased" THEN m ELSE IF x < m THEN x ELSE m
  BY DEF VestedAt
<1>5. Vesting!CalculateVestedAmount(s) =
        CASE now < c -> 0
          [] now >= c /\ s.vesting_type = "TimeBased" -> x
          [] now >= c /\ s.vesting_type = "MilestoneBased" -> m
          [] OTHER -> IF x < m THEN x ELSE m
  BY <1>2, <1>3 DEF Vesting!CalculateVestedAmount
<1> HIDE DEF m, x, c
<1>6. (now < c) <=> ~(now >= c)
  BY <1>1
<1> QED BY <1>4, <1>5, <1>6

LEMMA VestingGivenOf ==
  ASSUME NEW s \in VestingRecord, NEW t, NEW k \in Nat, ScheduleSays(s, t, k)
  PROVE  GivenOf(s, k) \in Nat
<1>1. s.total_amount \in Nat /\ s.released_amount \in Nat /\ s.revoked \in BOOLEAN
  BY DEF VestingRecord
<1>2. s.released_amount <= s.total_amount /\ (s.revoked => s.released_amount <= k)
  BY <1>1, Zenon DEF ScheduleSays
<1> QED BY <1>1, <1>2 DEF GivenOf

LEMMA VestingGiven ==
  ASSUME VestingInv, NEW u \in OfVesting.Users
  PROVE  StillGiven(u) \in Nat
<1> SUFFICES ASSUME schedule[u] # None PROVE StillGiven(u) \in Nat
  BY DEF StillGiven
<1>1. /\ schedule[u] \in VestingRecord /\ vested_then[u] \in Nat
      /\ ScheduleSays(schedule[u], now, vested_then[u])
  BY DEF VestingInv
<1> QED BY <1>1, VestingGivenOf DEF StillGiven

\* The schedule of u becomes r, and the contract pays what it gives less.
LEMMA VestingBecomes ==
  ASSUME VestingInv, NEW u \in OfVesting.Users, NEW r \in VestingRecord, NEW k \in Nat,
         schedule' = [schedule EXCEPT ![u] = r], vested_then' = [vested_then EXCEPT ![u] = k],
         ScheduleSays(r, now, k), now' = now, next_id' \in Nat,
         bal' \in [OfVesting.Users \cup {OfVesting.Admin, Self} -> Nat],
         \A v \in OfVesting.Users : bal'[v] >= bal[v], bal'[u] >= r.released_amount,
         NEW x \in Int, bal'[Self] >= bal[Self] + x, x >= GivenOf(r, k) - StillGiven(u)
  PROVE  VestingInv'
<1> DEFINE P == OfVesting.Users
           f == GivenToAll
           g == GivenToAll'
           y == GivenOf(r, k)
<1>1. /\ schedule \in [P -> VestingRecord \cup {None}]
      /\ schedule' \in [P -> VestingRecord \cup {None}] /\ r # None
      /\ schedule'[u] = r /\ \A v \in P \ {u} : schedule'[v] = schedule[v]
      /\ vested_then' \in [P -> Nat] /\ vested_then'[u] = k
      /\ \A v \in P \ {u} : vested_then'[v] = vested_then[v]
      /\ now \in Nat /\ bal \in [P \cup {OfVesting.Admin, Self} -> Nat]
      /\ bal[Self] >= Total(f)
  BY VestingAssumption DEF VestingInv
<1>2. y \in Nat
  BY VestingGivenOf
<1>3. StillGiven(u)' = y /\ \A v \in P \ {u} : StillGiven(v)' = StillGiven(v)
  BY <1>1 DEF StillGiven, GivenOf
<1>4. \A v \in P : StillGiven(v) \in Nat
  BY VestingGiven
<1>5. /\ f \in [P -> Nat] /\ g \in [P -> Nat] /\ f[u] = StillGiven(u) /\ g[u] = y
      /\ \A v \in P \ {u} : g[v] = f[v]
      /\ IsFiniteSet(P) /\ u \in P
  BY <1>2, <1>3, <1>4, VestingAssumption DEF GivenToAll
<1> HIDE DEF f, g, P
<1>6. Total(g) = Total(f) + (g[u] - f[u]) /\ Total(f) \in Nat /\ Total(g) \in Nat
  BY <1>5, TotalChange
<1>7. x >= y - StillGiven(u)
  OBVIOUS
<1> HIDE DEF y
<1>8. bal'[Self] >= Total(g)
  <2>1. bal[Self] \in Nat /\ bal'[Self] \in Nat /\ StillGiven(u) \in Nat
    BY <1>1, <1>4 DEF P
  <2> QED BY <1>1, <1>2, <1>5, <1>6, <1>7, <2>1
<1>9. ASSUME NEW v \in P, schedule'[v] # None
      PROVE  ScheduleSays(schedule[v], now, vested_then[v])' /\ bal'[v] >= schedule'[v].released_amount
  <2> USE DEF P
  <2>1. CASE v = u
    BY <1>1, <2>1 DEF ScheduleSays, VestedAt, TimeVested
  <2>2. CASE v # u
    <3>1. schedule[v] \in VestingRecord /\ ScheduleSays(schedule[v], now, vested_then[v])
            /\ schedule'[v] = schedule[v] /\ vested_then'[v] = vested_then[v]
          /\ bal[v] >= schedule[v].released_amount
      BY <1>1, <1>9, <2>2 DEF VestingInv
    <3>2. bal[v] \in Nat /\ bal'[v] \in Nat /\ bal'[v] >= bal[v]
            /\ schedule[v].released_amount \in Nat
      BY <1>1, <3>1 DEF VestingRecord
    <3> QED BY <3>1, <3>2 DEF ScheduleSays, VestedAt, TimeVested
  <2> QED BY <2>1, <2>2
<1> QED BY <1>1, <1>8, <1>9 DEF VestingInv, g, P

LEMMA VestingMoves ==
  ASSUME VestingInv, NEW from \in OfVesting.Users \cup {OfVesting.Admin, Self},
         NEW to \in OfVesting.Users \cup {OfVesting.Admin, Self}, NEW n \in Nat,
         Vesting!Transfer(from, to, n), from # to, from \notin OfVesting.Users
  PROVE  /\ bal' \in [OfVesting.Users \cup {OfVesting.Admin, Self} -> Nat]
         /\ bal'[from] = bal[from] - n /\ bal'[to] = bal[to] + n
         /\ \A v \in OfVesting.Users : bal'[v] >= bal[v]
         /\ \A v \in OfVesting.Users \cup {OfVesting.Admin, Self} : bal[v] \in Nat
<1>1. Moves(from, to, n) /\ bal \in [OfVesting.Users \cup {OfVesting.Admin, Self} -> Nat]
  BY DEF Vesting!Transfer, Moves, VestingInv
<1>2. /\ bal' \in [OfVesting.Users \cup {OfVesting.Admin, Self} -> Nat]
      /\ bal'[from] = bal[from] - n /\ bal'[to] = bal[to] + n
      /\ \A a \in (OfVesting.Users \cup {OfVesting.Admin, Self}) \ {from, to} : bal'[a] = bal[a]
  BY <1>1, Moved
<1>3. \A v \in OfVesting.Users : v # from /\ (v = to \/ bal'[v] = bal[v]) /\ bal[v] \in Nat
  BY <1>1, <1>2
<1> QED BY <1>1, <1>2, <1>3

LEMMA VestingCreate ==
  ASSUME VestingInv, NEW u \in OfVesting.Users, NEW s \in OfVesting.Schedules,
         Vesting!CreateSchedule(u, s)
  PROVE  VestingInv'
<1> DEFINE r == [schedule_id |-> next_id, total_amount |-> s.total_amount, released_amount |-> 0,
                 start_time |-> s.start_time, cliff_duration |-> s.cliff_duration,
                 vesting_duration |-> s.vesting_duration, revocable |-> s.revocable,
                 revoked |-> FALSE, milestones |-> s.milestones, vesting_type |-> s.vesting_type]
           n == s.total_amount
<1>1. /\ schedule' = [schedule EXCEPT ![u] = r] /\ next_id' = next_id + 1 /\ now' = now
      /\ vested_then' = [vested_then EXCEPT ![u] = 0]
      /\ Vesting!Transfer(OfVesting.Admin, Self, n) /\ Vesting!Sums(s.milestones)
  BY DEF Vesting!CreateSchedule
<1>2. s \in VestingTerms /\ n \in Nat /\ next_id \in Nat /\ now \in Nat
  BY VestingAssumption DEF VestingTerms, VestingInv
<1>3. /\ r \in VestingRecord /\ r.total_amount = n /\ r.released_amount = 0
      /\ r.milestones = s.milestones /\ r.revoked = FALSE
  BY <1>2 DEF VestingTerms, VestingRecord
<1> HIDE DEF r, n
<1>4. ScheduleSays(r, now, 0)
  <2>1. VestedAt(r, now) \in Nat
    BY <1>1, <1>2, <1>3, VestedGrows, now <= now
  <2> QED BY <1>1, <1>2, <1>3, <2>1 DEF ScheduleSays
<1>5. /\ bal' \in [OfVesting.Users \cup {OfVesting.Admin, Self} -> Nat]
      /\ bal'[Self] = bal[Self] + n /\ \A v \in OfVesting.Users : bal'[v] >= bal[v]
      /\ \A v \in OfVesting.Users \cup {OfVesting.Admin, Self} : bal[v] \in Nat
  <2> DEFINE a == OfVesting.Admin
  <2>1. a # Self /\ a \notin OfVesting.Users /\ a \in OfVesting.Users \cup {OfVesting.Admin, Self}
    BY VestingAssumption
  <2>2. Vesting!Transfer(a, Self, n) /\ n \in Nat
          /\ Self \in OfVesting.Users \cup {OfVesting.Admin, Self}
    BY <1>1, <1>2
  <2> HIDE DEF a
  <2> QED BY <2>1, <2>2, VestingMoves
<1>6. StillGiven(u) \in Nat
  BY VestingGiven
<1>7. /\ n >= GivenOf(r, 0) - StillGiven(u) /\ 0 \in Nat
      /\ bal'[Self] >= bal[Self] + n /\ bal'[u] >= r.released_amount /\ next_id' \in Nat
      /\ n \in Int
  BY <1>1, <1>2, <1>3, <1>5, <1>6 DEF GivenOf
<1> QED BY <1>1, <1>3, <1>4, <1>5, <1>7, VestingBecomes

\* A schedule there is.
LEMMA VestingLive ==
  ASSUME VestingInv, NEW u \in OfVesting.Users, schedule[u] # None
  PROVE  LET s == schedule[u]
         IN /\ s \in VestingRecord /\ s.total_amount \in Nat /\ s.released_amount \in Nat
            /\ Vesting!Sums(s.milestones) /\ s.milestones \in Seq(MilestoneRecord)
            /\ s.released_amount <= s.total_amount /\ now \in Nat
            /\ Vesting!CalculateVestedAmount(s) = VestedAt(s, now)
            /\ VestedAt(s, now) \in Nat /\ VestedAt(s, now) <= s.total_amount
            /\ vested_then[u] \in Nat /\ s.revoked \in BOOLEAN
            /\ ~s.revoked => /\ s.released_amount <= VestedAt(s, now)
                             /\ StillGiven(u) = s.total_amount - s.released_amount
            /\ s.revoked => /\ s.released_amount <= vested_then[u]
                            /\ StillGiven(u) = vested_then[u] - s.released_amount
            /\ bal[u] >= s.released_amount
<1> DEFINE s == schedule[u]
<1>1. /\ s \in VestingRecord /\ ScheduleSays(s, now, vested_then[u]) /\ now \in Nat
      /\ bal[u] >= s.released_amount /\ vested_then[u] \in Nat
  BY DEF VestingInv
<1>2. /\ ~s.revoked => StillGiven(u) = s.total_amount - s.released_amount
      /\ s.revoked => StillGiven(u) = vested_then[u] - s.released_amount
  BY DEF StillGiven, GivenOf
<1> HIDE DEF s
<1>3. /\ s.total_amount \in Nat /\ s.released_amount \in Nat
      /\ s.milestones \in Seq(MilestoneRecord) /\ s.revoked \in BOOLEAN
  BY <1>1 DEF VestingRecord
<1>4. Vesting!CalculateVestedAmount(s) = VestedAt(s, now)
  BY <1>1, VestedNow
<1>5. VestedAt(s, now) \in Nat /\ VestedAt(s, now) <= s.total_amount
  BY <1>1, VestedGrows, now <= now DEF ScheduleSays
<1> QED BY <1>1, <1>2, <1>3, <1>4, <1>5 DEF ScheduleSays, s

\* What is vested does not depend on what was released or revoked.
LEMMA VestedOfTerms ==
  ASSUME NEW s, NEW r, NEW t,
         r.total_amount = s.total_amount, r.start_time = s.start_time,
         r.cliff_duration = s.cliff_duration, r.vesting_duration = s.vesting_duration,
         r.milestones = s.milestones, r.vesting_type = s.vesting_type
  PROVE  VestedAt(r, t) = VestedAt(s, t)
BY DEF VestedAt, TimeVested

LEMMA VestingKeeps ==
  ASSUME VestingInv, NEW u \in OfVesting.Users, vested_then' = vested_then
  PROVE  /\ vested_then[u] \in Nat
         /\ vested_then' = [vested_then EXCEPT ![u] = vested_then[u]]
BY DEF VestingInv

LEMMA VestingRelease ==
  ASSUME VestingInv, NEW u \in OfVesting.Users, Vesting!Release(u)
  PROVE  VestingInv'
<1> DEFINE s == schedule[u]
           n == Vesting!CalculateVestedAmount(s) - s.released_amount
           r == [s EXCEPT !.released_amount = @ + n]
<1>1. /\ s # None /\ ~s.revoked /\ n > 0 /\ Vesting!Transfer(Self, u, n)
      /\ schedule' = [schedule EXCEPT ![u] = r] /\ now' = now /\ next_id' = next_id
      /\ vested_then' = vested_then
  BY DEF Vesting!Release, Vesting!Live
<1>2. /\ s \in VestingRecord /\ s.total_amount \in Nat /\ s.released_amount \in Nat
      /\ Vesting!Sums(s.milestones) /\ now \in Nat
      /\ Vesting!CalculateVestedAmount(s) = VestedAt(s, now)
      /\ VestedAt(s, now) \in Nat /\ VestedAt(s, now) <= s.total_amount
      /\ s.released_amount <= VestedAt(s, now)
      /\ StillGiven(u) = s.total_amount - s.released_amount /\ bal[u] >= s.released_amount
  BY <1>1, VestingLive
<1> HIDE DEF s
<1>3. n \in Nat /\ s.released_amount + n = VestedAt(s, now)
  BY <1>2
<1> HIDE DEF n
<1>4. r = [s EXCEPT !.released_amount = VestedAt(s, now)]
  BY <1>3
<1> HIDE DEF r
<1>5. /\ r \in VestingRecord /\ r.released_amount = VestedAt(s, now)
      /\ r.total_amount = s.total_amount /\ r.start_time = s.start_time
      /\ r.cliff_duration = s.cliff_duration /\ r.vesting_duration = s.vesting_duration
      /\ r.milestones = s.milestones /\ r.vesting_type = s.vesting_type /\ r.revoked = s.revoked
  BY <1>2, <1>4 DEF VestingRecord
<1> DEFINE k == vested_then[u]
<1>k. k \in Nat /\ vested_then' = [vested_then EXCEPT ![u] = k]
  BY <1>1, VestingKeeps
<1> HIDE DEF k
<1>6. ScheduleSays(r, now, k)
  <2>1. VestedAt(r, now) = VestedAt(s, now)
    BY <1>5, VestedOfTerms
  <2>2. ~r.revoked
    BY <1>1, <1>5
  <2> QED BY <1>2, <1>5, <2>1, <2>2 DEF ScheduleSays
<1>7. /\ bal' \in [OfVesting.Users \cup {OfVesting.Admin, Self} -> Nat]
      /\ bal'[Self] = bal[Self] - n /\ bal'[u] = bal[u] + n
      /\ \A v \in OfVesting.Users : bal'[v] >= bal[v]
      /\ \A v \in OfVesting.Users \cup {OfVesting.Admin, Self} : bal[v] \in Nat
  BY <1>1, <1>3, VestingAssumption, VestingMoves
<1>8. /\ 0 - n >= GivenOf(r, k) - StillGiven(u)
      /\ 0 - n \in Int /\ bal'[Self] >= bal[Self] + (0 - n) /\ bal'[u] >= r.released_amount
  <2>1. r.revoked = FALSE \/ r.revoked = TRUE
    BY <1>5 DEF VestingRecord
  <2>2. r.revoked = FALSE
    BY <1>1, <1>5, <2>1
  <2>3. 0 - n = (s.total_amount - VestedAt(s, now)) - (s.total_amount - s.released_amount)
    BY <1>2, <1>3
  <2>4. GivenOf(r, k) = s.total_amount - VestedAt(s, now)
    BY <1>5, <2>2 DEF GivenOf
  <2> QED BY <1>2, <1>3, <1>5, <1>7, <2>3, <2>4
<1>9. next_id' \in Nat
  BY <1>1 DEF VestingInv
<1> HIDE DEF s
<1> QED BY <1>1, <1>5, <1>6, <1>7, <1>8, <1>9, <1>k, VestingBecomes

LEMMA VestingRevoke ==
  ASSUME VestingInv, NEW u \in OfVesting.Users, Vesting!RevokeSchedule(u)
  PROVE  VestingInv'
<1> DEFINE s == schedule[u]
           n == s.total_amount - Vesting!CalculateVestedAmount(s)
           r == [s EXCEPT !.revoked = TRUE]
           k == VestedAt(s, now)
<1>1. /\ s # None /\ ~s.revoked /\ Vesting!Transfer(Self, OfVesting.Admin, n)
      /\ schedule' = [schedule EXCEPT ![u] = r] /\ now' = now /\ next_id' = next_id
      /\ vested_then' = [vested_then EXCEPT ![u] = Vesting!CalculateVestedAmount(s)]
  BY DEF Vesting!RevokeSchedule
<1>2. /\ s \in VestingRecord /\ s.total_amount \in Nat /\ s.released_amount \in Nat
      /\ Vesting!Sums(s.milestones) /\ now \in Nat
      /\ Vesting!CalculateVestedAmount(s) = VestedAt(s, now)
      /\ VestedAt(s, now) \in Nat /\ VestedAt(s, now) <= s.total_amount
      /\ s.released_amount <= VestedAt(s, now) /\ s.released_amount <= s.total_amount
      /\ StillGiven(u) = s.total_amount - s.released_amount /\ bal[u] >= s.released_amount
  BY <1>1, VestingLive
<1> HIDE DEF s
<1>3. n \in Nat /\ 0 - n = (k - s.released_amount) - StillGiven(u) /\ k \in Nat
  BY <1>2
<1>k. vested_then' = [vested_then EXCEPT ![u] = k] /\ s.released_amount <= k
  BY <1>1, <1>2
<1> HIDE DEF n, k
<1>4. /\ r \in VestingRecord /\ r.released_amount = s.released_amount
      /\ r.total_amount = s.total_amount /\ r.milestones = s.milestones /\ r.revoked = TRUE
  BY <1>2 DEF VestingRecord
<1> HIDE DEF r
<1>5. ScheduleSays(r, now, k)
  BY <1>2, <1>4, <1>k DEF ScheduleSays
<1>6. /\ bal' \in [OfVesting.Users \cup {OfVesting.Admin, Self} -> Nat]
      /\ bal'[Self] = bal[Self] - n
      /\ \A v \in OfVesting.Users : bal'[v] >= bal[v]
      /\ \A v \in OfVesting.Users \cup {OfVesting.Admin, Self} : bal[v] \in Nat
  BY <1>1, <1>3, VestingAssumption, VestingMoves
<1>7. /\ 0 - n >= GivenOf(r, k) - StillGiven(u)
      /\ 0 - n \in Int /\ bal'[Self] >= bal[Self] + (0 - n) /\ bal'[u] >= r.released_amount
  <2>1. bal'[u] >= bal[u] /\ bal[u] \in Nat /\ bal'[u] \in Nat
    BY <1>6
  <2>2. GivenOf(r, k) = k - s.released_amount
    BY <1>4 DEF GivenOf
  <2> QED BY <1>2, <1>3, <1>4, <1>6, <2>1, <2>2
<1>8. next_id' \in Nat
  BY <1>1 DEF VestingInv
<1> QED BY <1>1, <1>3, <1>4, <1>5, <1>6, <1>7, <1>8, <1>k, VestingBecomes

\* Nothing is paid, and no less is vested.
LEMMA VestingAmended ==
  ASSUME VestingInv, NEW u \in OfVesting.Users, schedule[u] # None, ~schedule[u].revoked,
         NEW r \in VestingRecord, schedule' = [schedule EXCEPT ![u] = r], now' = now,
         next_id' = next_id, bal' = bal, vested_then' = vested_then, Vesting!Sums(r.milestones),
         r.total_amount = schedule[u].total_amount,
         r.released_amount = schedule[u].released_amount, r.revoked = schedule[u].revoked,
         VestedAt(r, now) >= VestedAt(schedule[u], now)
  PROVE  VestingInv'
<1> DEFINE s == schedule[u]
<1>1. /\ s \in VestingRecord /\ s.total_amount \in Nat /\ s.released_amount \in Nat /\ now \in Nat
      /\ VestedAt(s, now) \in Nat /\ s.released_amount <= VestedAt(s, now)
      /\ s.released_amount <= s.total_amount /\ bal[u] >= s.released_amount
      /\ StillGiven(u) = s.total_amount - s.released_amount
  BY VestingLive
<1>2. VestedAt(r, now) \in Nat
  BY <1>1, VestedGrows, now <= now
<1>3. /\ VestedAt(r, now) >= VestedAt(s, now) /\ ~s.revoked /\ r.total_amount = s.total_amount
      /\ r.released_amount = s.released_amount /\ r.revoked = s.revoked
  OBVIOUS
<1> DEFINE k == vested_then[u]
<1>k. k \in Nat /\ vested_then' = [vested_then EXCEPT ![u] = k]
  BY VestingKeeps
<1> HIDE DEF s, k
<1>4. ScheduleSays(r, now, k)
  <2>1. r.released_amount <= VestedAt(r, now)
    BY <1>1, <1>2, <1>3
  <2> QED BY <1>1, <1>3, <2>1 DEF ScheduleSays
<1>5. /\ bal \in [OfVesting.Users \cup {OfVesting.Admin, Self} -> Nat] /\ next_id' \in Nat
      /\ \A v \in OfVesting.Users : bal[v] \in Nat /\ bal[Self] \in Nat
  BY DEF VestingInv
<1>6. /\ 0 >= GivenOf(r, k) - StillGiven(u)
      /\ bal'[Self] >= bal[Self] + 0 /\ bal'[u] >= r.released_amount
      /\ \A v \in OfVesting.Users : bal'[v] >= bal[v]
  <2>1. GivenOf(r, k) = s.total_amount - s.released_amount
    BY <1>3 DEF GivenOf
  <2> QED BY <1>1, <1>3, <1>5, <2>1
<1>7. bal' \in [OfVesting.Users \cup {OfVesting.Admin, Self} -> Nat] /\ 0 \in Int
  BY <1>5
<1> QED BY <1>4, <1>5, <1>6, <1>7, <1>k, VestingBecomes

LEMMA VestingComplete ==
  ASSUME VestingInv, NEW u \in OfVesting.Users, NEW id, Vesting!CompleteMilestone(u, id)
  PROVE  VestingInv'
<1> DEFINE s == schedule[u]
           ms == s.milestones
           found == {i \in DOMAIN ms : ms[i].id = id}
           ns == [i \in DOMAIN ms |->
                    IF i \in found THEN [ms[i] EXCEPT !.completed = TRUE] ELSE ms[i]]
           r == [s EXCEPT !.milestones = ns]
           n == s.total_amount
<1>1. /\ s # None /\ ~s.revoked /\ found # {}
      /\ schedule' = [schedule EXCEPT ![u] = r] /\ now' = now /\ next_id' = next_id /\ bal' = bal
      /\ vested_then' = vested_then
  BY DEF Vesting!CompleteMilestone, Vesting!Live
<1>2. /\ s \in VestingRecord /\ n \in Nat /\ ms \in Seq(MilestoneRecord) /\ Vesting!Sums(ms)
      /\ now \in Nat
  BY <1>1, VestingLive
<1> HIDE DEF s, ms
<1>3. /\ \A i \in DOMAIN ms : ms[i] \in MilestoneRecord /\ ms[i].percentage \in Nat
      /\ DOMAIN ms = 1 .. Len(ms) /\ Len(ms) \in Nat
  BY <1>2, MilestoneLists
<1>4. /\ DOMAIN ns = DOMAIN ms
      /\ \A i \in DOMAIN ms : /\ ns[i] \in MilestoneRecord /\ ns[i].percentage = ms[i].percentage
                              /\ ms[i].completed => ns[i].completed
  <2>1. ASSUME NEW i \in DOMAIN ms, i \in found
        PROVE  LET m == [ms[i] EXCEPT !.completed = TRUE]
               IN m \in MilestoneRecord /\ m.percentage = ms[i].percentage /\ m.completed
    BY <1>3 DEF MilestoneRecord
  <2>2. \A i \in DOMAIN ms :
          ns[i] = IF i \in found THEN [ms[i] EXCEPT !.completed = TRUE] ELSE ms[i]
    OBVIOUS
  <2>3. DOMAIN ns = DOMAIN ms
    OBVIOUS
  <2> HIDE DEF ns, found
  <2> QED BY <1>3, <2>1, <2>2, <2>3
<1>5. ns \in Seq(MilestoneRecord)
  <2>1. ns \in [1 .. Len(ms) -> MilestoneRecord]
    <3>1. ns = [i \in DOMAIN ms |-> ns[i]]
      OBVIOUS
    <3>2. \A i \in DOMAIN ms : ns[i] \in MilestoneRecord
      BY <1>4
    <3>3. DOMAIN ms = 1 .. Len(ms)
      BY <1>3
    <3> HIDE DEF ns
    <3> QED BY <3>1, <3>2, <3>3
  <2> HIDE DEF ns
  <2> QED BY <1>3, <2>1
<1>6. Vesting!Sums(ns)
  <2>1. ms # <<>>
    BY <1>1, <1>3
  <2>2. [i \in DOMAIN ns |-> ns[i].percentage] = [i \in DOMAIN ms |-> ms[i].percentage]
    BY <1>4
  <2> HIDE DEF ns
  <2> QED BY <1>2, <2>1, <2>2 DEF Vesting!Sums
<1> HIDE DEF found, ns
<1>7. MilestonesVested(n, ms) <= MilestonesVested(n, ns)
  <2> DEFINE f == MilestoneShare(n, ms)
             T == Completed(ns)
             h == [i \in T |-> f[i]]
             U == Completed(ms)
  <2>1. MilestoneShare(n, ns) = f
    <3>1. DOMAIN ns = DOMAIN ms /\ \A i \in DOMAIN ms : ns[i].percentage = ms[i].percentage
      BY <1>4
    <3> HIDE DEF n
    <3> QED BY <3>1 DEF MilestoneShare
  <2>2. IsFiniteSet(DOMAIN ns) /\ T \in SUBSET DOMAIN ns /\ f \in [DOMAIN ns -> Nat]
    BY <1>2, <1>4, <1>5, MilestoneLists
  <2>3. U \in SUBSET T
    <3>1. DOMAIN ns = DOMAIN ms /\ \A i \in DOMAIN ms : ms[i].completed => ns[i].completed
      BY <1>4
    <3> QED BY <3>1, Zenon DEF Completed
  <2>4. MilestonesVested(n, ns) = Total(h)
    BY <2>1 DEF MilestonesVested
  <2>5. IsFiniteSet(T) /\ h \in [T -> Nat]
    BY <2>2, FS_Subset
  <2>6. [i \in U |-> h[i]] = [i \in U |-> f[i]]
    BY <2>3
  <2>7. MilestonesVested(n, ms) = Total([i \in U |-> h[i]])
    BY <2>6 DEF MilestonesVested
  <2> HIDE DEF h, T, U
  <2> QED BY <2>3, <2>4, <2>5, <2>7, TotalPart
<1>8. /\ r \in VestingRecord /\ r.milestones = ns /\ r.total_amount = n
      /\ r.released_amount = s.released_amount /\ r.start_time = s.start_time
      /\ r.cliff_duration = s.cliff_duration /\ r.vesting_duration = s.vesting_duration
      /\ r.vesting_type = s.vesting_type /\ r.revoked = s.revoked
  BY <1>2, <1>5 DEF VestingRecord
<1> HIDE DEF r
<1>9. VestedAt(r, now) >= VestedAt(s, now)
  <2> DEFINE c == s.start_time + s.cliff_duration
             x == TimeVested(s, now)
             m == MilestonesVested(n, ms)
             k == MilestonesVested(n, ns)
  <2>1. TimeVested(r, now) = x
    BY <1>8 DEF TimeVested
  <2>2. m \in Nat /\ k \in Nat /\ m <= k
    BY <1>2, <1>5, <1>6, <1>7, MilestonesFit
  <2>3. ~(now < c) => x \in Nat
    <3>1. s.start_time \in Nat /\ s.cliff_duration \in Nat
      BY <1>2 DEF VestingRecord
    <3> QED BY <1>2, <3>1, TimeGrows, now <= now
  <2>4. /\ VestedAt(s, now) = IF now < c THEN 0 ELSE IF s.vesting_type = "TimeBased" THEN x
             ELSE IF s.vesting_type = "MilestoneBased" THEN m ELSE IF x < m THEN x ELSE m
        /\ VestedAt(r, now) = IF now < c THEN 0 ELSE IF s.vesting_type = "TimeBased" THEN x
             ELSE IF s.vesting_type = "MilestoneBased" THEN k ELSE IF x < k THEN x ELSE k
    BY <1>8, <2>1 DEF VestedAt, ms, n
  <2> HIDE DEF c, x, m, k
  <2> QED BY <2>2, <2>3, <2>4
<1> QED BY <1>1, <1>6, <1>8, <1>9, VestingAmended DEF s

LEMMA VestingModify ==
  ASSUME VestingInv, NEW u \in OfVesting.Users, NEW d \in OfVesting.Durations,
         NEW ms \in OfVesting.Milestones, Vesting!ModifySchedule(u, d, ms)
  PROVE  VestingInv'
<1> DEFINE s == schedule[u]
           x == IF d > 0 THEN d ELSE s.vesting_duration
           ns == IF ms # <<>> THEN ms ELSE s.milestones
           r == [s EXCEPT !.vesting_duration = x, !.milestones = ns]
<1>1. Vesting!Modified(s, d, ms) = r
  BY DEF Vesting!Modified
<1>2. /\ s # None /\ ~s.revoked /\ Vesting!Sums(ms)
      /\ Vesting!CalculateVestedAmount(r) >= Vesting!CalculateVestedAmount(s)
      /\ schedule' = [schedule EXCEPT ![u] = r] /\ now' = now /\ next_id' = next_id /\ bal' = bal
      /\ vested_then' = vested_then
  BY <1>1 DEF Vesting!ModifySchedule, Vesting!Live
<1>3. /\ s \in VestingRecord /\ Vesting!Sums(s.milestones) /\ now \in Nat
      /\ Vesting!CalculateVestedAmount(s) = VestedAt(s, now)
      /\ s.milestones \in Seq(MilestoneRecord) /\ s.vesting_duration \in Nat
  BY <1>2, VestingLive DEF VestingRecord
<1>4. x \in Nat /\ ns \in Seq(MilestoneRecord) /\ Vesting!Sums(ns)
  BY <1>2, <1>3, VestingAssumption
<1> HIDE DEF x, ns, s
<1>5. /\ r \in VestingRecord /\ r.milestones = ns /\ r.total_amount = s.total_amount
      /\ r.released_amount = s.released_amount /\ r.revoked = s.revoked
  BY <1>3, <1>4 DEF VestingRecord
<1> HIDE DEF r
<1>6. VestedAt(r, now) >= VestedAt(s, now)
  BY <1>2, <1>3, <1>5, VestedNow
<1> QED BY <1>2, <1>4, <1>5, <1>6, VestingAmended DEF s

LEMMA VestingStays ==
  ASSUME VestingInv, UNCHANGED <<bal, schedule, next_id, vested_then>>, now' \in Nat, now <= now'
  PROVE  VestingInv'
<1>1. GivenToAll' = GivenToAll
  BY DEF GivenToAll, StillGiven
<1>2. ASSUME NEW u \in OfVesting.Users, schedule[u] # None
      PROVE  ScheduleSays(schedule[u], now', vested_then[u])
  <2> DEFINE s == schedule[u]
             k == vested_then[u]
  <2>1. s \in VestingRecord /\ ScheduleSays(s, now, k) /\ now \in Nat
    BY <1>2 DEF VestingInv
  <2> HIDE DEF s, k
  <2>2. VestedAt(s, now) <= VestedAt(s, now') /\ VestedAt(s, now) \in Nat
          /\ VestedAt(s, now') \in Nat
    BY <2>1, VestedGrows DEF ScheduleSays
  <2>3. s.released_amount \in Nat
    BY <2>1 DEF VestingRecord
  <2>4. ScheduleSays(s, now', k)
    BY <2>1, <2>2, <2>3 DEF ScheduleSays
  <2> QED BY <2>4 DEF s, k
<1>3. ASSUME NEW u \in OfVesting.Users, schedule'[u] # None
      PROVE  ScheduleSays(schedule[u], now, vested_then[u])'
  BY <1>2, <1>3 DEF ScheduleSays, VestedAt, TimeVested
<1> QED BY <1>1, <1>3 DEF VestingInv

LEMMA VestingStep ==
  ASSUME VestingInv, Vesting!Next \/ UNCHANGED Vesting!vars
  PROVE  VestingInv'
<1>1. now \in Nat
  BY DEF VestingInv
<1>2. CASE UNCHANGED Vesting!vars
  BY <1>1, <1>2, now <= now, VestingStays DEF Vesting!vars
<1>3. ASSUME NEW u \in OfVesting.Users,
             \/ \E s \in OfVesting.Schedules : Vesting!CreateSchedule(u, s)
             \/ Vesting!Release(u) \/ Vesting!RevokeSchedule(u)
             \/ \E id \in 1 .. 2 : Vesting!CompleteMilestone(u, id)
             \/ \E d \in OfVesting.Durations, ms \in OfVesting.Milestones :
                  Vesting!ModifySchedule(u, d, ms)
      PROVE  VestingInv'
  BY <1>3, VestingCreate, VestingRelease, VestingRevoke, VestingComplete, VestingModify
<1>4. ASSUME NEW p \in BOOLEAN, Vesting!SetPaused(p) PROVE VestingInv'
  BY <1>1, <1>4, now <= now, VestingStays DEF Vesting!SetPaused
<1>5. CASE Vesting!Tick
  <2>1. now' \in Nat /\ now <= now'
    BY <1>1, <1>5 DEF Vesting!Tick
  <2> QED BY <1>5, <2>1, VestingStays DEF Vesting!Tick
<1> QED BY <1>2, <1>3, <1>4, <1>5 DEF Vesting!Next

LEMMA VestingInit == ASSUME Vesting!Init PROVE VestingInv
<1> DEFINE f == GivenToAll
<1>1. f \in [OfVesting.Users -> Nat] /\ \A u \in OfVesting.Users : f[u] = 0
  BY DEF Vesting!Init, GivenToAll, StillGiven
<1> HIDE DEF f
<1>2. Total(f) = 0
  BY <1>1, TotalZero
<1>3. bal \in [OfVesting.Users \cup {OfVesting.Admin, Self} -> Nat] /\ bal[Self] = 0
  BY VestingAssumption DEF Vesting!Init
<1> QED BY <1>2, <1>3 DEF Vesting!Init, VestingInv, f

LEMMA VestingSays == ASSUME VestingInv PROVE Vesting!VestingCovered
<1> DEFINE P == OfVesting.Users
           kept == {u \in P : schedule[u] # None}
<1>1. ASSUME NEW u \in kept
      PROVE  /\ schedule[u].released_amount <= schedule[u].total_amount
             /\ schedule[u].released_amount
                  <= (IF Vesting!Live(u) THEN Vesting!CalculateVestedAmount(schedule[u])
                      ELSE vested_then[u])
             /\ bal[u] >= schedule[u].released_amount
             /\ Vesting!Kept(u) = StillGiven(u)
  BY VestingLive DEF Vesting!Live, Vesting!Kept
<1>2. Total([u \in kept |-> Vesting!Kept(u)]) = Total(GivenToAll)
  <2> DEFINE k == [u \in kept |-> StillGiven(u)]
             f == [u \in kept |-> k[u]]
             g == [u \in P |-> IF u \in kept THEN k[u] ELSE 0]
  <2>1. \A u \in kept : k[u] \in Nat
    BY VestingGiven
  <2>2. kept \in SUBSET P /\ g = GivenToAll /\ f = k
    BY DEF GivenToAll, StillGiven
  <2>3. k = [u \in kept |-> Vesting!Kept(u)]
    BY <1>1
  <2> HIDE DEF k, kept
  <2>4. Total(f) = Total(g)
    BY <2>1, <2>2, TotalWithin
  <2> QED BY <2>2, <2>3, <2>4
<1>3. bal[Self] >= Total(GivenToAll)
  BY DEF VestingInv
<1> QED BY <1>1, <1>2, <1>3, VestingSums DEF Vesting!VestingCovered

-----------------------------------------------------------------------------
(***************************************************************************)
(* Proofs: vesting schedules with a history.                               *)
(***************************************************************************)
LinearTerms ==
  [total_amount : Nat, start_time : Nat, cliff_duration : Nat, vesting_duration : Nat,
   revocable : BOOLEAN]
LinearRecord ==
  [beneficiary : OfVestingSchedule.Users, total_amount : Nat, released_amount : Nat,
   start_time : Nat, cliff_duration : Nat, vesting_duration : Nat, revocable : BOOLEAN,
   revoked : BOOLEAN]
EventTypes == {"ScheduleCreated", "TokensReleased", "ScheduleRevoked", "ScheduleModified"}
EventRecord == [event_type : EventTypes, amount : Nat]

\* The beneficiaries, which are neither the admin nor the contract, and terms.
ASSUME VestingScheduleAssumption ==
  /\ IsFiniteSet(OfVestingSchedule.Users) /\ Self \notin OfVestingSchedule.Users
  /\ OfVestingSchedule.Admin \notin OfVestingSchedule.Users /\ Self # OfVestingSchedule.Admin
  /\ OfVestingSchedule.Schedules \subseteq LinearTerms
  /\ OfVestingSchedule.Cliffs \subseteq Nat /\ OfVestingSchedule.Durations \subseteq Nat
  /\ OfVestingSchedule.InitBalance \in Nat /\ OfVestingSchedule.SPAN \in Nat
  /\ OfVestingSchedule.MaxSchedules \in Nat /\ OfVestingSchedule.MaxEvents \in Nat
  /\ None \notin EventRecord

\* What is vested of s at time t.
LinearAt(s, t) ==
  IF t < s.start_time + s.cliff_duration THEN 0
  ELSE IF t >= s.start_time + s.vesting_duration THEN s.total_amount
  ELSE (s.total_amount * (t - s.start_time - s.cliff_duration))
         \div (s.vesting_duration - s.cliff_duration)

LinearSays(s, t) ==
  /\ s.cliff_duration < s.vesting_duration /\ s.released_amount <= s.total_amount
  /\ ~s.revoked => s.released_amount <= LinearAt(s, t)

Ids == 1 .. OfVestingSchedule.MaxSchedules
HistoryKeys ==
  0 .. OfVestingSchedule.MaxSchedules * OfVestingSchedule.SPAN + OfVestingSchedule.MaxEvents

LeftIn(s) == IF s.revoked THEN 0 ELSE s.total_amount - s.released_amount
LeftInAll == [id \in Ids |-> IF id \in DOMAIN schedule THEN LeftIn(schedule[id]) ELSE 0]
PartFor(s, u) == IF s.beneficiary = u THEN s.released_amount ELSE 0
ReleasedTo(u) == [id \in Ids |-> IF id \in DOMAIN schedule THEN PartFor(schedule[id], u) ELSE 0]
EventAmount(k, type) ==
  IF history[k] # None /\ history[k].event_type = type THEN history[k].amount ELSE 0
BookedAs(type) == [k \in HistoryKeys |-> EventAmount(k, type)]

\* What the history books is what the contract has.
EventsBooked ==
  /\ history \in [HistoryKeys -> EventRecord \cup {None}]
  /\ bal[Self] = Total(BookedAs("ScheduleCreated")) - Total(BookedAs("TokensReleased"))
                   - Total(BookedAs("ScheduleRevoked"))

SchedulesKept ==
  /\ now \in Nat
  /\ bal \in [OfVestingSchedule.Users \cup {OfVestingSchedule.Admin, Self} -> Nat]
  /\ schedule \in Seq(LinearRecord) /\ Len(schedule) <= OfVestingSchedule.MaxSchedules
  /\ \A id \in DOMAIN schedule : LinearSays(schedule[id], now)
  /\ bal[Self] >= Total(LeftInAll)
  /\ \A u \in OfVestingSchedule.Users : bal[u] = Total(ReleasedTo(u))

OfUsers ==
  /\ of_user \in [OfVestingSchedule.Users -> Seq(Nat)]
  /\ \A u \in OfVestingSchedule.Users :
       {of_user[u][i] : i \in DOMAIN of_user[u]}
         = {id \in DOMAIN schedule : schedule[id].beneficiary = u}

VestingScheduleInv == EventsBooked /\ SchedulesKept /\ OfUsers

LEMMA LinearGrows ==
  ASSUME NEW s \in LinearRecord, s.cliff_duration < s.vesting_duration,
         NEW t \in Nat, NEW z \in Nat, t <= z
  PROVE  /\ LinearAt(s, t) \in Nat /\ LinearAt(s, z) \in Nat
         /\ LinearAt(s, t) <= LinearAt(s, z) /\ LinearAt(s, z) <= s.total_amount
<1> DEFINE n == s.total_amount
           d == s.vesting_duration - s.cliff_duration
           x == t - s.start_time - s.cliff_duration
           y == z - s.start_time - s.cliff_duration
<1>1. /\ n \in Nat /\ d \in Nat \ {0} /\ x \in Int /\ y \in Int /\ x <= y
      /\ (t < s.start_time + s.cliff_duration) <=> (x < 0)
      /\ (z < s.start_time + s.cliff_duration) <=> (y < 0)
      /\ (t >= s.start_time + s.vesting_duration) <=> (x >= d)
      /\ (z >= s.start_time + s.vesting_duration) <=> (y >= d)
  BY DEF LinearRecord
<1>2. /\ LinearAt(s, t) = IF x < 0 THEN 0 ELSE IF x >= d THEN n ELSE (n * x) \div d
      /\ LinearAt(s, z) = IF y < 0 THEN 0 ELSE IF y >= d THEN n ELSE (n * y) \div d
  BY <1>1 DEF LinearAt
<1> HIDE DEF n, d, x, y
<1>3. CASE x >= 0 /\ y < d
  <2>1. x \in Nat /\ y \in Nat /\ y <= d /\ ~(x < 0) /\ ~(x >= d) /\ ~(y < 0) /\ ~(y >= d)
    BY <1>1, <1>3
  <2>2. /\ (n * x) \div d \in Nat /\ (n * y) \div d \in Nat
        /\ (n * x) \div d <= (n * y) \div d /\ (n * y) \div d <= n
    BY <1>1, <2>1, ShareGrows
  <2> QED BY <1>2, <2>1, <2>2 DEF n
<1>4. CASE x >= 0 /\ x < d /\ y >= d
  <2>1. x \in Nat /\ x <= d /\ ~(x < 0) /\ ~(x >= d) /\ ~(y < 0)
    BY <1>1, <1>4
  <2>2. (n * x) \div d \in Nat /\ (n * x) \div d <= n
    BY <1>1, <2>1, ShareGrows, x <= x
  <2> QED BY <1>1, <1>2, <1>4, <2>1, <2>2 DEF n
<1>5. CASE x >= d
  <2>1. y >= d /\ ~(x < 0) /\ ~(y < 0)
    BY <1>1, <1>5
  <2> QED BY <1>1, <1>2, <1>5, <2>1 DEF n
<1>6. CASE x < 0 /\ y >= 0 /\ y < d
  <2>1. y \in Nat /\ y <= d /\ ~(y < 0) /\ ~(y >= d)
    BY <1>1, <1>6
  <2>2. (n * y) \div d \in Nat /\ (n * y) \div d <= n
    BY <1>1, <2>1, ShareGrows, y <= y
  <2> QED BY <1>1, <1>2, <1>6, <2>1, <2>2 DEF n
<1>7. CASE x < 0 /\ y >= d
  <2>1. ~(y < 0)
    BY <1>1, <1>7
  <2> QED BY <1>1, <1>2, <1>7, <2>1 DEF n
<1>8. CASE x < 0 /\ y < 0
  BY <1>1, <1>2, <1>8 DEF n
<1> QED BY <1>1, <1>3, <1>4, <1>5, <1>6, <1>7, <1>8

LEMMA LinearNow ==
  ASSUME NEW s \in LinearRecord, s.cliff_duration < s.vesting_duration, now \in Nat
  PROVE  VestingSchedule!CalculateVestedAmount(s) = LinearAt(s, now)
<1> DEFINE c == s.start_time + s.cliff_duration
           d == s.start_time + s.vesting_duration
           v == (s.total_amount * (now - s.start_time - s.cliff_duration))
                  \div (s.vesting_duration - s.cliff_duration)
<1>1. c \in Nat /\ d \in Nat /\ c < d
  BY DEF LinearRecord
<1>2. VestingSchedule!CalculateVestedAmount(s) =
        CASE now < c -> 0 [] now >= d -> s.total_amount [] OTHER -> v
  BY DEF VestingSchedule!CalculateVestedAmount
<1>3. LinearAt(s, now) = IF now < c THEN 0 ELSE IF now >= d THEN s.total_amount ELSE v
  BY DEF LinearAt
<1> HIDE DEF c, d, v
<1>4. ~(now < c /\ now >= d)
  BY <1>1
<1> QED BY <1>2, <1>3, <1>4

LEMMA HistoryKeysIs ==
  IsFiniteSet(HistoryKeys) /\ VestingSchedule!Keys = HistoryKeys /\ IsFiniteSet(Ids)
<1> DEFINE m == OfVestingSchedule.MaxSchedules * OfVestingSchedule.SPAN
                  + OfVestingSchedule.MaxEvents
<1>1. m \in Int
  BY VestingScheduleAssumption
<1>2. HistoryKeys = 0 .. m
  BY DEF HistoryKeys
<1>3. VestingSchedule!Keys = HistoryKeys
  BY DEF VestingSchedule!Keys, HistoryKeys
<1> HIDE DEF m
<1> QED BY <1>1, <1>2, <1>3, VestingScheduleAssumption, FS_Interval DEF Ids

\* An event goes to a key that has none, and is booked with its type.
LEMMA EventIsBooked ==
  ASSUME history \in [HistoryKeys -> EventRecord \cup {None}], NEW id, NEW n \in Nat,
         NEW type \in EventTypes, VestingSchedule!RecordHistory(id, type, n), NEW z \in EventTypes
  PROVE  /\ history' \in [HistoryKeys -> EventRecord \cup {None}]
         /\ Total(BookedAs(z)) \in Nat
         /\ Total(BookedAs(z)') = Total(BookedAs(z)) + Weight(z = type, n)
<1> DEFINE e == [event_type |-> type, amount |-> n]
           f == BookedAs(z)
           g == BookedAs(z)'
           y == Weight(z = type, n)
<1>1. PICK k \in HistoryKeys : history[k] = None /\ history' = [history EXCEPT ![k] = e]
  BY HistoryKeysIs DEF VestingSchedule!RecordHistory, VestingSchedule!Recorded
<1>2. e \in EventRecord /\ e # None /\ e.event_type = type /\ e.amount = n
  BY VestingScheduleAssumption DEF EventRecord
<1> HIDE DEF e
<1>3. /\ history' \in [HistoryKeys -> EventRecord \cup {None}]
      /\ history'[k] = e /\ \A j \in HistoryKeys \ {k} : history'[j] = history[j]
  BY <1>1, <1>2
<1>4. /\ EventAmount(k, z) = 0 /\ EventAmount(k, z)' = y
      /\ \A j \in HistoryKeys \ {k} : EventAmount(j, z)' = EventAmount(j, z)
  BY <1>1, <1>2, <1>3 DEF EventAmount, Weight
<1>5. ASSUME NEW j \in HistoryKeys PROVE EventAmount(j, z) \in Nat
  <2> SUFFICES ASSUME history[j] # None PROVE EventAmount(j, z) \in Nat
    BY DEF EventAmount
  <2>1. history[j] \in EventRecord
    OBVIOUS
  <2>2. history[j].amount \in Nat
    BY <2>1 DEF EventRecord
  <2> QED BY <2>2 DEF EventAmount
<1>6. y \in Nat
  BY DEF Weight
<1> HIDE DEF y
<1>7. /\ f \in [HistoryKeys -> Nat] /\ g \in [HistoryKeys -> Nat] /\ f[k] = 0 /\ g[k] = y
      /\ \A j \in HistoryKeys \ {k} : g[j] = f[j]
      /\ IsFiniteSet(HistoryKeys) /\ k \in HistoryKeys
  BY <1>4, <1>5, <1>6, HistoryKeysIs DEF BookedAs
<1> HIDE DEF f, g
<1>8. Total(g) = Total(f) + (g[k] - f[k]) /\ Total(f) \in Nat /\ Total(g) \in Nat
  BY <1>7, TotalChange
<1>9. Total(g) = Total(f) + y
  BY <1>6, <1>7, <1>8
<1> QED BY <1>3, <1>8, <1>9 DEF f, g, y

\* The contract's balance changes by what is booked of it.
LEMMA BooksStay ==
  ASSUME EventsBooked, NEW id, NEW n \in Nat, NEW type \in EventTypes,
         VestingSchedule!RecordHistory(id, type, n), bal[Self] \in Nat,
         bal'[Self] = bal[Self] + (IF type = "ScheduleCreated" THEN n
                                   ELSE IF type = "ScheduleModified" THEN 0 ELSE 0 - n)
  PROVE  EventsBooked'
<1>1. history \in [HistoryKeys -> EventRecord \cup {None}]
  BY DEF EventsBooked
<1>2. \A z \in EventTypes :
        /\ Total(BookedAs(z)) \in Nat
        /\ Total(BookedAs(z)') = Total(BookedAs(z)) + Weight(z = type, n)
  BY <1>1, EventIsBooked
<1>3. history' \in [HistoryKeys -> EventRecord \cup {None}]
  BY <1>1, EventIsBooked
<1> DEFINE a == Total(BookedAs("ScheduleCreated"))
           b == Total(BookedAs("TokensReleased"))
           c == Total(BookedAs("ScheduleRevoked"))
           a1 == Total(BookedAs("ScheduleCreated")')
           b1 == Total(BookedAs("TokensReleased")')
           c1 == Total(BookedAs("ScheduleRevoked")')
<1>4. /\ a \in Nat /\ a1 = a + Weight("ScheduleCreated" = type, n)
      /\ b \in Nat /\ b1 = b + Weight("TokensReleased" = type, n)
      /\ c \in Nat /\ c1 = c + Weight("ScheduleRevoked" = type, n)
  <2>1. {"ScheduleCreated", "TokensReleased", "ScheduleRevoked"} \subseteq EventTypes
    BY DEF EventTypes
  <2> QED BY <1>2, <2>1
<1>5. bal[Self] = a - b - c
  BY DEF EventsBooked
<1> HIDE DEF a, b, c, a1, b1, c1
<1>6. bal'[Self] = a1 - b1 - c1
  BY <1>4, <1>5 DEF EventTypes, Weight
<1> QED BY <1>3, <1>6 DEF EventsBooked, a1, b1, c1

\* Amounts are numbers.
LEMMA LinearParts ==
  ASSUME NEW s \in LinearRecord, s.released_amount <= s.total_amount
  PROVE  LeftIn(s) \in Nat /\ \A u : PartFor(s, u) \in Nat
<1>1. s.total_amount \in Nat /\ s.released_amount \in Nat
  BY DEF LinearRecord
<1> QED BY <1>1 DEF LeftIn, PartFor

LEMMA LinearSums ==
  ASSUME SchedulesKept
  PROVE  LeftInAll \in [Ids -> Nat] /\ \A u : ReleasedTo(u) \in [Ids -> Nat]
<1>1. ASSUME NEW id \in Ids, id \in DOMAIN schedule
      PROVE  LeftIn(schedule[id]) \in Nat /\ \A u : PartFor(schedule[id], u) \in Nat
  <2>1. schedule[id] \in LinearRecord /\ LinearSays(schedule[id], now)
    BY <1>1 DEF SchedulesKept
  <2> QED BY <2>1, LinearParts DEF LinearSays
<1> QED BY <1>1 DEF LeftInAll, ReleasedTo

\* A sum over the schedules changes by what it changes by at one of them.
LEMMA IdChange ==
  ASSUME NEW f \in [Ids -> Nat], NEW g \in [Ids -> Nat], NEW a \in Ids,
         \A b \in Ids \ {a} : g[b] = f[b]
  PROVE  Total(g) = Total(f) + (g[a] - f[a]) /\ Total(f) \in Nat /\ Total(g) \in Nat
<1>1. IsFiniteSet(Ids)
  BY HistoryKeysIs
<1> QED BY <1>1, TotalChange

\* The schedule id becomes r, or is added as r.
LEMMA LinearBecomes ==
  ASSUME SchedulesKept, NEW id \in Ids, NEW r \in LinearRecord, LinearSays(r, now), now' = now,
         schedule' \in Seq(LinearRecord), Len(schedule') <= OfVestingSchedule.MaxSchedules,
         DOMAIN schedule' = DOMAIN schedule \cup {id}, schedule'[id] = r,
         \A j \in DOMAIN schedule \ {id} : schedule'[j] = schedule[j],
         bal' \in [OfVestingSchedule.Users \cup {OfVestingSchedule.Admin, Self} -> Nat],
         NEW x \in Int, bal'[Self] >= bal[Self] + x, x >= LeftIn(r) - LeftInAll[id],
         \A u \in OfVestingSchedule.Users : bal'[u] = bal[u] + (PartFor(r, u) - ReleasedTo(u)[id])
  PROVE  SchedulesKept'
<1> DEFINE f == LeftInAll
           g == LeftInAll'
<1>1. /\ f \in [Ids -> Nat] /\ LeftIn(r) \in Nat /\ now \in Nat
      /\ bal \in [OfVestingSchedule.Users \cup {OfVestingSchedule.Admin, Self} -> Nat]
      /\ bal[Self] >= Total(f) /\ \A u : PartFor(r, u) \in Nat
  BY LinearSums, LinearParts DEF SchedulesKept, LinearSays
<1>2. g = [j \in Ids |-> IF j = id THEN LeftIn(r) ELSE f[j]]
  BY DEF LeftInAll
<1>3. ASSUME NEW u \in OfVestingSchedule.Users PROVE bal'[u] = Total(ReleasedTo(u)')
  <2> DEFINE h == ReleasedTo(u)
             i == ReleasedTo(u)'
             y == PartFor(r, u)
  <2>1. h \in [Ids -> Nat] /\ y \in Nat
    BY <1>1, LinearSums
  <2>2. i = [j \in Ids |-> IF j = id THEN y ELSE h[j]]
    BY DEF ReleasedTo
  <2>3. bal[u] = Total(h) /\ bal'[u] = bal[u] + (y - h[id])
    BY DEF SchedulesKept
  <2> HIDE DEF h, i, y
  <2>4. i \in [Ids -> Nat] /\ i[id] = y /\ \A j \in Ids \ {id} : i[j] = h[j]
    BY <2>1, <2>2
  <2>5. Total(i) = Total(h) + (i[id] - h[id]) /\ Total(h) \in Nat /\ Total(i) \in Nat
    BY <2>1, <2>4, IdChange
  <2> QED BY <2>3, <2>4, <2>5 DEF i
<1> HIDE DEF f, g
<1>4. /\ g \in [Ids -> Nat] /\ g[id] = LeftIn(r) /\ \A j \in Ids \ {id} : g[j] = f[j]
  BY <1>1, <1>2
<1>5. Total(g) = Total(f) + (g[id] - f[id]) /\ Total(f) \in Nat /\ Total(g) \in Nat
  BY <1>1, <1>4, IdChange
<1>6. x >= LeftIn(r) - f[id]
  BY DEF f
<1>7. bal'[Self] >= Total(g)
  <2>1. bal[Self] \in Nat /\ bal'[Self] \in Nat /\ f[id] \in Nat
    BY <1>1
  <2> QED BY <1>1, <1>4, <1>5, <1>6, <2>1
<1>8. ASSUME NEW j \in DOMAIN schedule' PROVE LinearSays(schedule[j], now)'
  <2>1. CASE j = id
    BY <2>1 DEF LinearSays, LinearAt
  <2>2. CASE j # id
    <3>1. j \in DOMAIN schedule /\ schedule'[j] = schedule[j] /\ LinearSays(schedule[j], now)
      BY <2>2 DEF SchedulesKept
    <3> QED BY <3>1 DEF LinearSays, LinearAt
  <2> QED BY <2>1, <2>2
<1> QED BY <1>1, <1>3, <1>7, <1>8 DEF SchedulesKept, g

\* The tokens move; nobody else's do.
LEMMA LinearMoves ==
  ASSUME SchedulesKept,
         NEW from \in OfVestingSchedule.Users \cup {OfVestingSchedule.Admin, Self},
         NEW to \in OfVestingSchedule.Users \cup {OfVestingSchedule.Admin, Self}, NEW n \in Nat,
         VestingSchedule!Transfer(from, to, n), from # to
  PROVE  /\ bal' \in [OfVestingSchedule.Users \cup {OfVestingSchedule.Admin, Self} -> Nat]
         /\ bal'[from] = bal[from] - n /\ bal'[to] = bal[to] + n
         /\ \A v \in OfVestingSchedule.Users \ {from, to} : bal'[v] = bal[v]
         /\ \A v \in OfVestingSchedule.Users \cup {OfVestingSchedule.Admin, Self} : bal[v] \in Nat
<1>1. /\ Moves(from, to, n)
      /\ bal \in [OfVestingSchedule.Users \cup {OfVestingSchedule.Admin, Self} -> Nat]
  BY DEF VestingSchedule!Transfer, Moves, SchedulesKept
<1> DEFINE A == OfVestingSchedule.Users \cup {OfVestingSchedule.Admin, Self}
<1>2. \A v \in OfVestingSchedule.Users : v \in A
  OBVIOUS
<1> HIDE DEF A
<1>3. /\ bal' \in [A -> Nat] /\ bal'[from] = bal[from] - n /\ bal'[to] = bal[to] + n
      /\ \A v \in A \ {from, to} : bal'[v] = bal[v]
  BY <1>1, Moved DEF A
<1>4. \A v \in A : bal[v] \in Nat
  BY <1>1 DEF A
<1> QED BY <1>2, <1>3, <1>4 DEF A

LEMMA OfUsersStay ==
  ASSUME OfUsers, of_user' = of_user, DOMAIN schedule' = DOMAIN schedule,
         \A id \in DOMAIN schedule : schedule'[id].beneficiary = schedule[id].beneficiary
  PROVE  OfUsers'
BY DEF OfUsers

\* A schedule.
LEMMA LinearOne ==
  ASSUME SchedulesKept, NEW id \in DOMAIN schedule
  PROVE  LET s == schedule[id]
         IN /\ id \in Ids /\ s \in LinearRecord /\ LinearSays(s, now) /\ now \in Nat
            /\ s.total_amount \in Nat /\ s.released_amount \in Nat
            /\ s.released_amount <= s.total_amount
            /\ VestingSchedule!CalculateVestedAmount(s) = LinearAt(s, now)
            /\ LinearAt(s, now) \in Nat /\ LinearAt(s, now) <= s.total_amount
            /\ LeftInAll[id] = LeftIn(s) /\ \A u : ReleasedTo(u)[id] = PartFor(s, u)
<1> DEFINE s == schedule[id]
<1>1. /\ s \in LinearRecord /\ LinearSays(s, now) /\ now \in Nat /\ id \in Ids
  <2>1. DOMAIN schedule = 1 .. Len(schedule) /\ Len(schedule) <= OfVestingSchedule.MaxSchedules
    BY DEF SchedulesKept
  <2>2. id \in Ids
    BY <2>1, VestingScheduleAssumption DEF Ids, SchedulesKept
  <2> QED BY <2>2 DEF SchedulesKept
<1>2. LeftInAll[id] = LeftIn(s) /\ \A u : ReleasedTo(u)[id] = PartFor(s, u)
  BY <1>1 DEF LeftInAll, ReleasedTo
<1> HIDE DEF s
<1>3. s.total_amount \in Nat /\ s.released_amount \in Nat
  BY <1>1 DEF LinearRecord
<1>4. VestingSchedule!CalculateVestedAmount(s) = LinearAt(s, now)
  BY <1>1, LinearNow DEF LinearSays
<1>5. LinearAt(s, now) \in Nat /\ LinearAt(s, now) <= s.total_amount
  BY <1>1, LinearGrows, now <= now DEF LinearSays
<1> QED BY <1>1, <1>2, <1>3, <1>4, <1>5 DEF LinearSays, s

\* The schedule id becomes r, for the same beneficiary.
LEMMA LinearReplaced ==
  ASSUME SchedulesKept, OfUsers, NEW id \in DOMAIN schedule, NEW r \in LinearRecord,
         LinearSays(r, now), now' = now, of_user' = of_user,
         schedule' = [schedule EXCEPT ![id] = r], r.beneficiary = schedule[id].beneficiary,
         bal' \in [OfVestingSchedule.Users \cup {OfVestingSchedule.Admin, Self} -> Nat],
         NEW x \in Int, bal'[Self] >= bal[Self] + x, x >= LeftIn(r) - LeftIn(schedule[id]),
         \A u \in OfVestingSchedule.Users :
           bal'[u] = bal[u] + (PartFor(r, u) - PartFor(schedule[id], u))
  PROVE  SchedulesKept' /\ OfUsers'
<1>1. /\ schedule \in Seq(LinearRecord) /\ Len(schedule) <= OfVestingSchedule.MaxSchedules
      /\ DOMAIN schedule = 1 .. Len(schedule)
  BY DEF SchedulesKept
<1>2. /\ schedule' \in Seq(LinearRecord) /\ Len(schedule') = Len(schedule)
      /\ DOMAIN schedule' = DOMAIN schedule /\ schedule'[id] = r
      /\ \A j \in DOMAIN schedule \ {id} : schedule'[j] = schedule[j]
  BY <1>1
<1>3. id \in Ids /\ LeftInAll[id] = LeftIn(schedule[id])
      /\ \A u : ReleasedTo(u)[id] = PartFor(schedule[id], u)
  BY LinearOne
<1>4. OfUsers'
  BY <1>2, OfUsersStay
<1>5. DOMAIN schedule' = DOMAIN schedule \cup {id}
  BY <1>2
<1>6. SchedulesKept'
  BY <1>1, <1>2, <1>3, <1>5, LinearBecomes
<1> QED BY <1>4, <1>6

\* What is vested does not depend on what was released or revoked.
LEMMA LinearOfTerms ==
  ASSUME NEW s, NEW r, NEW t, r.total_amount = s.total_amount, r.start_time = s.start_time,
         r.cliff_duration = s.cliff_duration, r.vesting_duration = s.vesting_duration
  PROVE  LinearAt(r, t) = LinearAt(s, t)
BY DEF LinearAt

LEMMA LinearCreate ==
  ASSUME VestingScheduleInv, NEW u \in OfVestingSchedule.Users,
         NEW t \in OfVestingSchedule.Schedules, VestingSchedule!CreateSchedule(u, t)
  PROVE  VestingScheduleInv'
<1> DEFINE id == Len(schedule) + 1
           n == t.total_amount
           r == [beneficiary |-> u, total_amount |-> n, released_amount |-> 0,
                 start_time |-> t.start_time, cliff_duration |-> t.cliff_duration,
                 vesting_duration |-> t.vesting_duration, revocable |-> t.revocable,
                 revoked |-> FALSE]
           a == OfVestingSchedule.Admin
<1>1. /\ Len(schedule) < OfVestingSchedule.MaxSchedules /\ t.cliff_duration < t.vesting_duration
      /\ schedule' = Append(schedule, r) /\ now' = now
      /\ of_user' = [of_user EXCEPT ![u] = Append(@, id)]
      /\ VestingSchedule!RecordHistory(id, "ScheduleCreated", n)
      /\ VestingSchedule!Transfer(a, Self, n)
  BY DEF VestingSchedule!CreateSchedule
<1>2. /\ EventsBooked /\ SchedulesKept /\ OfUsers /\ now \in Nat
      /\ schedule \in Seq(LinearRecord) /\ Len(schedule) \in Nat
      /\ DOMAIN schedule = 1 .. Len(schedule)
  BY DEF VestingScheduleInv, SchedulesKept
<1>3. t \in LinearTerms /\ n \in Nat
  BY VestingScheduleAssumption DEF LinearTerms
<1>4. /\ r \in LinearRecord /\ r.total_amount = n /\ r.released_amount = 0 /\ r.revoked = FALSE
      /\ r.cliff_duration < r.vesting_duration /\ r.beneficiary = u
  BY <1>1, <1>3 DEF LinearTerms, LinearRecord
<1> HIDE DEF r, n
<1>5. LinearSays(r, now)
  <2>1. LinearAt(r, now) \in Nat
    BY <1>2, <1>4, LinearGrows, now <= now
  <2> QED BY <1>3, <1>4, <2>1 DEF LinearSays
<1>6. /\ id \in Ids /\ id \notin DOMAIN schedule /\ DOMAIN schedule' = DOMAIN schedule \cup {id}
      /\ schedule' \in Seq(LinearRecord) /\ Len(schedule') <= OfVestingSchedule.MaxSchedules
      /\ schedule'[id] = r /\ \A j \in DOMAIN schedule \ {id} : schedule'[j] = schedule[j]
  <2>1. Len(schedule') = id /\ schedule' \in Seq(LinearRecord) /\ DOMAIN schedule' = 1 .. id
    BY <1>1, <1>2, <1>4
  <2>2. schedule'[id] = r /\ \A j \in 1 .. Len(schedule) : schedule'[j] = schedule[j]
    BY <1>1, <1>2, <1>4
  <2>3. id \in Ids /\ id \notin DOMAIN schedule /\ 1 .. id = (1 .. Len(schedule)) \cup {id}
    BY <1>1, <1>2, VestingScheduleAssumption DEF Ids
  <2> QED BY <1>1, <1>2, <2>1, <2>2, <2>3, VestingScheduleAssumption
<1>7. /\ a # Self /\ a \notin OfVestingSchedule.Users /\ Self \notin OfVestingSchedule.Users
      /\ a \in OfVestingSchedule.Users \cup {OfVestingSchedule.Admin, Self}
      /\ Self \in OfVestingSchedule.Users \cup {OfVestingSchedule.Admin, Self}
  BY VestingScheduleAssumption
<1> HIDE DEF a
<1>8. /\ bal' \in [OfVestingSchedule.Users \cup {OfVestingSchedule.Admin, Self} -> Nat]
      /\ bal'[Self] = bal[Self] + n
      /\ \A v \in OfVestingSchedule.Users \ {a, Self} : bal'[v] = bal[v]
      /\ \A v \in OfVestingSchedule.Users \cup {OfVestingSchedule.Admin, Self} : bal[v] \in Nat
  BY <1>1, <1>2, <1>3, <1>7, LinearMoves
<1>9. LeftInAll[id] = 0 /\ LeftIn(r) = n /\ \A v : ReleasedTo(v)[id] = 0 /\ PartFor(r, v) = 0
  BY <1>3, <1>4, <1>6 DEF LeftInAll, LeftIn, ReleasedTo, PartFor
<1>10. bal[Self] \in Nat /\ \A v \in OfVestingSchedule.Users : bal[v] \in Nat /\ bal'[v] = bal[v]
  BY <1>7, <1>8
<1>11. SchedulesKept'
  <2>1. \A v \in OfVestingSchedule.Users : bal'[v] = bal[v] + (PartFor(r, v) - ReleasedTo(v)[id])
    BY <1>9, <1>10
  <2>2. /\ bal'[Self] >= bal[Self] + n /\ n >= LeftIn(r) - LeftInAll[id] /\ n \in Int
    BY <1>3, <1>8, <1>9, <1>10
  <2> HIDE DEF id
  <2> QED BY <1>1, <1>2, <1>4, <1>5, <1>6, <1>8, <2>1, <2>2, LinearBecomes
<1>12. EventsBooked'
  <2>1. "ScheduleCreated" \in EventTypes
    BY DEF EventTypes
  <2>2. bal'[Self] = bal[Self] + (IF "ScheduleCreated" = "ScheduleCreated" THEN n
                                  ELSE IF "ScheduleCreated" = "ScheduleModified" THEN 0 ELSE 0 - n)
    BY <1>8
  <2> HIDE DEF id
  <2> QED BY <1>1, <1>2, <1>3, <1>10, <2>1, <2>2, BooksStay
<1>13. OfUsers'
  <2> DEFINE q(v) == {of_user[v][i] : i \in DOMAIN of_user[v]}
             q1(v) == {of_user'[v][i] : i \in DOMAIN of_user'[v]}
  <2>1. of_user' \in [OfVestingSchedule.Users -> Seq(Nat)]
    BY <1>1, <1>2 DEF OfUsers
  <2>2. \A v \in OfVestingSchedule.Users \ {u} : of_user'[v] = of_user[v]
    BY <1>1, <1>2 DEF OfUsers
  <2>3. q1(u) = q(u) \cup {id}
    <3>1. of_user[u] \in Seq(Nat) /\ of_user'[u] = Append(of_user[u], id) /\ id \in Nat
      BY <1>1, <1>2 DEF OfUsers
    <3> HIDE DEF id
    <3> DEFINE w == of_user[u]
               m == Len(w)
    <3>2. m \in Nat /\ DOMAIN w = 1 .. m /\ DOMAIN of_user'[u] = 1 .. m + 1
          /\ of_user'[u][m + 1] = id /\ \A i \in 1 .. m : of_user'[u][i] = w[i]
      BY <3>1
    <3>3. 1 .. m + 1 = (1 .. m) \cup {m + 1}
      BY <3>2
    <3> HIDE DEF m, w
    <3>4. q1(u) = {w[i] : i \in 1 .. m} \cup {id}
      BY <3>2, <3>3
    <3> QED BY <3>2, <3>4 DEF w
  <2>4. ASSUME NEW v \in OfVestingSchedule.Users
        PROVE  q1(v) = {j \in DOMAIN schedule' : schedule'[j].beneficiary = v}
    <3>1. q(v) = {j \in DOMAIN schedule : schedule[j].beneficiary = v}
      BY <1>2 DEF OfUsers
    <3>2. CASE v = u
      <4> HIDE DEF q, q1, id
      <4> QED BY <1>4, <1>6, <2>3, <3>1, <3>2
    <3>3. CASE v # u
      <4>1. q1(v) = q(v)
        BY <2>2, <3>3
      <4> HIDE DEF q, q1, id
      <4> QED BY <1>4, <1>6, <3>1, <3>3, <4>1
    <3> QED BY <3>2, <3>3
  <2> QED BY <2>1, <2>4 DEF OfUsers
<1> QED BY <1>11, <1>12, <1>13 DEF VestingScheduleInv

LEMMA LinearRelease ==
  ASSUME VestingScheduleInv, NEW id \in DOMAIN schedule, VestingSchedule!Release(id)
  PROVE  VestingScheduleInv'
<1> DEFINE s == schedule[id]
           n == VestingSchedule!CalculateVestedAmount(s) - s.released_amount
           r == [s EXCEPT !.released_amount = @ + n]
<1>1. /\ ~s.revoked /\ n > 0 /\ VestingSchedule!Transfer(Self, s.beneficiary, n)
      /\ schedule' = [schedule EXCEPT ![id] = r] /\ now' = now /\ of_user' = of_user
      /\ VestingSchedule!RecordHistory(id, "TokensReleased", n)
  BY DEF VestingSchedule!Release
<1>2. EventsBooked /\ SchedulesKept /\ OfUsers
  BY DEF VestingScheduleInv
<1>3. /\ s \in LinearRecord /\ LinearSays(s, now) /\ now \in Nat
      /\ s.total_amount \in Nat /\ s.released_amount \in Nat
      /\ VestingSchedule!CalculateVestedAmount(s) = LinearAt(s, now)
      /\ LinearAt(s, now) \in Nat /\ LinearAt(s, now) <= s.total_amount
  BY <1>2, LinearOne
<1> HIDE DEF s
<1>4. n \in Nat /\ s.released_amount + n = LinearAt(s, now)
  BY <1>1, <1>3
<1> HIDE DEF n
<1>5. r = [s EXCEPT !.released_amount = LinearAt(s, now)]
  BY <1>4
<1> HIDE DEF r
<1>6. /\ r \in LinearRecord /\ r.released_amount = LinearAt(s, now)
      /\ r.total_amount = s.total_amount /\ r.start_time = s.start_time
      /\ r.cliff_duration = s.cliff_duration /\ r.vesting_duration = s.vesting_duration
      /\ r.beneficiary = s.beneficiary /\ r.revoked = s.revoked
      /\ s.beneficiary \in OfVestingSchedule.Users
  BY <1>3, <1>5 DEF LinearRecord
<1>7. LinearSays(r, now)
  <2>1. LinearAt(r, now) = LinearAt(s, now)
    BY <1>6, LinearOfTerms
  <2> QED BY <1>3, <1>6, <2>1 DEF LinearSays
<1> DEFINE b == s.beneficiary
<1>8. /\ bal' \in [OfVestingSchedule.Users \cup {OfVestingSchedule.Admin, Self} -> Nat]
      /\ bal'[Self] = bal[Self] - n /\ bal'[b] = bal[b] + n /\ b # Self
      /\ \A v \in OfVestingSchedule.Users \ {Self, b} : bal'[v] = bal[v]
      /\ \A v \in OfVestingSchedule.Users \cup {OfVestingSchedule.Admin, Self} : bal[v] \in Nat
  <2>1. /\ Self # b /\ b \in OfVestingSchedule.Users \cup {OfVestingSchedule.Admin, Self}
        /\ Self \in OfVestingSchedule.Users \cup {OfVestingSchedule.Admin, Self}
    BY <1>6, VestingScheduleAssumption
  <2> HIDE DEF b
  <2>2. VestingSchedule!Transfer(Self, b, n)
    BY <1>1 DEF b
  <2> QED BY <1>2, <1>4, <2>1, <2>2, LinearMoves
<1>9. bal[Self] \in Nat /\ Self \notin OfVestingSchedule.Users
  BY <1>8, VestingScheduleAssumption
<1>10. SchedulesKept' /\ OfUsers'
  <2>1. LeftIn(r) - LeftIn(s) = 0 - n
    BY <1>1, <1>3, <1>4, <1>6 DEF LeftIn
  <2>2. ASSUME NEW v \in OfVestingSchedule.Users
        PROVE  bal'[v] = bal[v] + (PartFor(r, v) - PartFor(s, v))
    <3>1. CASE v = b
      BY <1>3, <1>4, <1>6, <1>8, <3>1 DEF PartFor
    <3>2. CASE v # b
      BY <1>6, <1>8, <1>9, <3>2 DEF PartFor
    <3> QED BY <3>1, <3>2
  <2>3. 0 - n \in Int /\ bal'[Self] >= bal[Self] + (0 - n) /\ 0 - n >= LeftIn(r) - LeftIn(s)
    BY <1>4, <1>8, <1>9, <2>1
  <2> QED BY <1>1, <1>2, <1>6, <1>7, <1>8, <2>2, <2>3, LinearReplaced DEF s
<1>11. EventsBooked'
  <2>1. "TokensReleased" \in EventTypes
    BY DEF EventTypes
  <2>2. bal'[Self] = bal[Self] + (IF "TokensReleased" = "ScheduleCreated" THEN n
                                  ELSE IF "TokensReleased" = "ScheduleModified" THEN 0 ELSE 0 - n)
    BY <1>4, <1>8, <1>9
  <2> QED BY <1>1, <1>2, <1>4, <1>9, <2>1, <2>2, BooksStay
<1> QED BY <1>10, <1>11 DEF VestingScheduleInv

LEMMA LinearRevoke ==
  ASSUME VestingScheduleInv, NEW id \in DOMAIN schedule, VestingSchedule!RevokeSchedule(id)
  PROVE  VestingScheduleInv'
<1> DEFINE s == schedule[id]
           n == s.total_amount - VestingSchedule!CalculateVestedAmount(s)
           r == [s EXCEPT !.revoked = TRUE]
           a == OfVestingSchedule.Admin
<1>1. /\ ~s.revoked /\ VestingSchedule!Transfer(Self, a, n)
      /\ schedule' = [schedule EXCEPT ![id] = r] /\ now' = now /\ of_user' = of_user
      /\ VestingSchedule!RecordHistory(id, "ScheduleRevoked", n)
  BY DEF VestingSchedule!RevokeSchedule
<1>2. EventsBooked /\ SchedulesKept /\ OfUsers
  BY DEF VestingScheduleInv
<1>3. /\ s \in LinearRecord /\ LinearSays(s, now) /\ now \in Nat
      /\ s.total_amount \in Nat /\ s.released_amount \in Nat
      /\ VestingSchedule!CalculateVestedAmount(s) = LinearAt(s, now)
      /\ LinearAt(s, now) \in Nat /\ LinearAt(s, now) <= s.total_amount
      /\ s.released_amount <= s.total_amount
  BY <1>2, LinearOne
<1> HIDE DEF s
<1>4. n \in Nat /\ s.released_amount <= LinearAt(s, now) /\ n = s.total_amount - LinearAt(s, now)
  BY <1>1, <1>3 DEF LinearSays
<1> HIDE DEF n
<1>5. /\ r \in LinearRecord /\ r.released_amount = s.released_amount /\ r.revoked = TRUE
      /\ r.total_amount = s.total_amount /\ r.beneficiary = s.beneficiary
      /\ r.cliff_duration = s.cliff_duration /\ r.vesting_duration = s.vesting_duration
  BY <1>3 DEF LinearRecord
<1> HIDE DEF r
<1>6. LinearSays(r, now)
  BY <1>3, <1>5 DEF LinearSays
<1>7. /\ a # Self /\ a \notin OfVestingSchedule.Users /\ Self \notin OfVestingSchedule.Users
      /\ a \in OfVestingSchedule.Users \cup {OfVestingSchedule.Admin, Self}
      /\ Self \in OfVestingSchedule.Users \cup {OfVestingSchedule.Admin, Self}
  BY VestingScheduleAssumption
<1> HIDE DEF a
<1>8. /\ bal' \in [OfVestingSchedule.Users \cup {OfVestingSchedule.Admin, Self} -> Nat]
      /\ bal'[Self] = bal[Self] - n
      /\ \A v \in OfVestingSchedule.Users \ {Self, a} : bal'[v] = bal[v]
      /\ \A v \in OfVestingSchedule.Users \cup {OfVestingSchedule.Admin, Self} : bal[v] \in Nat
  BY <1>1, <1>2, <1>4, <1>7, LinearMoves
<1>9. bal[Self] \in Nat /\ \A v \in OfVestingSchedule.Users : bal[v] \in Nat /\ bal'[v] = bal[v]
  BY <1>7, <1>8
<1>10. SchedulesKept' /\ OfUsers'
  <2>1. LeftIn(r) = 0 /\ LeftIn(s) = s.total_amount - s.released_amount
    BY <1>1, <1>5 DEF LeftIn
  <2>2. ASSUME NEW v \in OfVestingSchedule.Users
        PROVE  bal'[v] = bal[v] + (PartFor(r, v) - PartFor(s, v))
    <3>1. PartFor(r, v) = PartFor(s, v) /\ PartFor(s, v) \in Nat
      BY <1>3, <1>5 DEF PartFor
    <3> QED BY <1>9, <3>1
  <2>3. 0 - n \in Int /\ bal'[Self] >= bal[Self] + (0 - n) /\ 0 - n >= LeftIn(r) - LeftIn(s)
    BY <1>3, <1>4, <1>8, <1>9, <2>1
  <2> QED BY <1>1, <1>2, <1>5, <1>6, <1>8, <2>2, <2>3, LinearReplaced DEF s
<1>11. EventsBooked'
  <2>1. "ScheduleRevoked" \in EventTypes
    BY DEF EventTypes
  <2>2. bal'[Self] = bal[Self] + (IF "ScheduleRevoked" = "ScheduleCreated" THEN n
                                  ELSE IF "ScheduleRevoked" = "ScheduleModified" THEN 0 ELSE 0 - n)
    BY <1>4, <1>8, <1>9
  <2> QED BY <1>1, <1>2, <1>4, <1>9, <2>1, <2>2, BooksStay
<1> QED BY <1>10, <1>11 DEF VestingScheduleInv

LEMMA LinearModify ==
  ASSUME VestingScheduleInv, NEW id \in DOMAIN schedule, NEW c \in OfVestingSchedule.Cliffs,
         NEW d \in OfVestingSchedule.Durations, VestingSchedule!ModifySchedule(id, c, d)
  PROVE  VestingScheduleInv'
<1> DEFINE s == schedule[id]
           x == IF c > 0 THEN c ELSE s.cliff_duration
           y == IF d > 0 THEN d ELSE s.vesting_duration
           r == [s EXCEPT !.cliff_duration = x, !.vesting_duration = y]
<1>1. r = [s EXCEPT !.cliff_duration = IF c > 0 THEN c ELSE @,
                    !.vesting_duration = IF d > 0 THEN d ELSE @]
  OBVIOUS
<1>2. /\ ~s.revoked /\ (c > 0 => c < s.vesting_duration)
      /\ (d > 0 => d > r.cliff_duration)
      /\ VestingSchedule!CalculateVestedAmount(r) >= VestingSchedule!CalculateVestedAmount(s)
      /\ schedule' = [schedule EXCEPT ![id] = r] /\ now' = now /\ of_user' = of_user /\ bal' = bal
      /\ VestingSchedule!RecordHistory(id, "ScheduleModified", 0)
  BY <1>1 DEF VestingSchedule!ModifySchedule
<1>3. EventsBooked /\ SchedulesKept /\ OfUsers
  BY DEF VestingScheduleInv
<1>4. /\ s \in LinearRecord /\ LinearSays(s, now) /\ now \in Nat
      /\ s.total_amount \in Nat /\ s.released_amount \in Nat
      /\ VestingSchedule!CalculateVestedAmount(s) = LinearAt(s, now)
      /\ LinearAt(s, now) \in Nat /\ s.released_amount <= s.total_amount
  BY <1>3, LinearOne
<1>5. c \in Nat /\ d \in Nat /\ s.cliff_duration \in Nat /\ s.vesting_duration \in Nat
      /\ s.cliff_duration < s.vesting_duration
  BY <1>4, VestingScheduleAssumption DEF LinearRecord, LinearSays
<1>6. x \in Nat /\ y \in Nat /\ x < s.vesting_duration
  BY <1>2, <1>5
<1>7. d > 0 => d > x
  <2>1. r.cliff_duration = x
    BY <1>4 DEF LinearRecord
  <2> QED BY <1>2, <2>1
<1>8. x < y
  BY <1>5, <1>6, <1>7
<1> HIDE DEF x, y, s
<1>9. /\ r \in LinearRecord /\ r.released_amount = s.released_amount /\ r.revoked = s.revoked
      /\ r.total_amount = s.total_amount /\ r.beneficiary = s.beneficiary
      /\ r.cliff_duration = x /\ r.vesting_duration = y
  BY <1>4, <1>6 DEF LinearRecord
<1> HIDE DEF r
<1>10. LinearSays(r, now)
  <2>1. VestingSchedule!CalculateVestedAmount(r) = LinearAt(r, now) /\ LinearAt(r, now) \in Nat
    BY <1>4, <1>8, <1>9, LinearNow, LinearGrows, now <= now
  <2>2. s.released_amount <= LinearAt(s, now)
    BY <1>2, <1>4 DEF LinearSays
  <2>3. s.released_amount <= LinearAt(r, now)
    BY <1>2, <1>4, <2>1, <2>2
  <2> QED BY <1>4, <1>8, <1>9, <2>3 DEF LinearSays
<1>11. /\ bal \in [OfVestingSchedule.Users \cup {OfVestingSchedule.Admin, Self} -> Nat]
       /\ bal[Self] \in Nat /\ \A v \in OfVestingSchedule.Users : bal[v] \in Nat
  BY <1>3 DEF SchedulesKept
<1>12. SchedulesKept' /\ OfUsers'
  <2>1. LeftIn(r) = LeftIn(s) /\ LeftIn(s) \in Nat
    BY <1>4, <1>9, LinearParts DEF LeftIn
  <2>2. ASSUME NEW v \in OfVestingSchedule.Users
        PROVE  bal'[v] = bal[v] + (PartFor(r, v) - PartFor(s, v))
    <3>1. PartFor(r, v) = PartFor(s, v) /\ PartFor(s, v) \in Nat
      BY <1>4, <1>9 DEF PartFor
    <3> QED BY <1>2, <1>11, <3>1
  <2>3. 0 \in Int /\ bal'[Self] >= bal[Self] + 0 /\ 0 >= LeftIn(r) - LeftIn(s)
        /\ bal' \in [OfVestingSchedule.Users \cup {OfVestingSchedule.Admin, Self} -> Nat]
    BY <1>2, <1>11, <2>1
  <2> QED BY <1>2, <1>3, <1>9, <1>10, <2>2, <2>3, LinearReplaced DEF s
<1>13. EventsBooked'
  <2>1. "ScheduleModified" \in EventTypes /\ 0 \in Nat
    BY DEF EventTypes
  <2>2. bal'[Self] = bal[Self] + (IF "ScheduleModified" = "ScheduleCreated" THEN 0
                                  ELSE IF "ScheduleModified" = "ScheduleModified" THEN 0 ELSE 0 - 0)
    BY <1>2, <1>11
  <2> QED BY <1>2, <1>3, <1>11, <2>1, <2>2, BooksStay
<1> QED BY <1>12, <1>13 DEF VestingScheduleInv

LEMMA LinearStays ==
  ASSUME VestingScheduleInv, UNCHANGED <<bal, schedule, of_user, history>>,
         now' \in Nat, now <= now'
  PROVE  VestingScheduleInv'
<1>1. /\ LeftInAll' = LeftInAll /\ \A u : ReleasedTo(u)' = ReleasedTo(u)
      /\ \A type : BookedAs(type)' = BookedAs(type)
  BY DEF LeftInAll, ReleasedTo, BookedAs, EventAmount
<1>2. ASSUME NEW id \in DOMAIN schedule' PROVE LinearSays(schedule[id], now)'
  <2> DEFINE s == schedule[id]
  <2>1. s \in LinearRecord /\ LinearSays(s, now) /\ now \in Nat /\ schedule'[id] = s
    BY LinearOne DEF VestingScheduleInv
  <2> HIDE DEF s
  <2>2. LinearAt(s, now) <= LinearAt(s, now') /\ LinearAt(s, now) \in Nat
          /\ LinearAt(s, now') \in Nat
    BY <2>1, LinearGrows DEF LinearSays
  <2>3. s.released_amount \in Nat
    BY <2>1 DEF LinearRecord
  <2>4. LinearSays(s, now')
    BY <2>1, <2>2, <2>3 DEF LinearSays
  <2>5. LinearSays(schedule'[id], now')
    BY <2>1, <2>4
  <2> QED BY <2>5 DEF LinearSays, LinearAt
<1>3. SchedulesKept'
  BY <1>1, <1>2 DEF VestingScheduleInv, SchedulesKept
<1>4. EventsBooked' /\ OfUsers'
  BY <1>1 DEF VestingScheduleInv, EventsBooked, OfUsers
<1> QED BY <1>3, <1>4 DEF VestingScheduleInv

LEMMA VestingScheduleStep ==
  ASSUME VestingScheduleInv, VestingSchedule!Next \/ UNCHANGED VestingSchedule!vars
  PROVE  VestingScheduleInv'
<1>1. now \in Nat
  BY DEF VestingScheduleInv, SchedulesKept
<1>2. CASE UNCHANGED VestingSchedule!vars
  BY <1>1, <1>2, now <= now, LinearStays DEF VestingSchedule!vars
<1>3. ASSUME NEW u \in OfVestingSchedule.Users, NEW s \in OfVestingSchedule.Schedules,
             VestingSchedule!CreateSchedule(u, s)
      PROVE  VestingScheduleInv'
  BY <1>3, LinearCreate
<1>4. ASSUME NEW id \in DOMAIN schedule,
             \/ VestingSchedule!Release(id) \/ VestingSchedule!RevokeSchedule(id)
             \/ \E c \in OfVestingSchedule.Cliffs, d \in OfVestingSchedule.Durations :
                  VestingSchedule!ModifySchedule(id, c, d)
      PROVE  VestingScheduleInv'
  BY <1>4, LinearRelease, LinearRevoke, LinearModify
<1>5. ASSUME NEW p \in BOOLEAN, VestingSchedule!SetPaused(p) PROVE VestingScheduleInv'
  BY <1>1, <1>5, now <= now, LinearStays DEF VestingSchedule!SetPaused
<1>6. CASE VestingSchedule!Tick
  <2>1. now' \in Nat /\ now <= now'
    BY <1>1, <1>6 DEF VestingSchedule!Tick
  <2> QED BY <1>6, <2>1, LinearStays DEF VestingSchedule!Tick
<1> QED BY <1>2, <1>3, <1>4, <1>5, <1>6 DEF VestingSchedule!Next

LEMMA VestingScheduleInit == ASSUME VestingSchedule!Init PROVE VestingScheduleInv
<1>1. /\ schedule = <<>> /\ Len(schedule) = 0 /\ DOMAIN schedule = {}
      /\ schedule \in Seq(LinearRecord) /\ now = 0
  BY DEF VestingSchedule!Init
<1>2. /\ history \in [HistoryKeys -> EventRecord \cup {None}]
      /\ \A k \in HistoryKeys : history[k] = None
  BY HistoryKeysIs DEF VestingSchedule!Init
<1>3. ASSUME NEW type PROVE Total(BookedAs(type)) = 0
  <2> DEFINE f == BookedAs(type)
  <2>1. f \in [HistoryKeys -> Nat] /\ \A k \in HistoryKeys : f[k] = 0
    BY <1>2 DEF BookedAs, EventAmount
  <2> HIDE DEF f
  <2> QED BY <2>1, TotalZero DEF f
<1>4. Total(LeftInAll) = 0
  <2> DEFINE f == LeftInAll
  <2>1. f \in [Ids -> Nat] /\ \A k \in Ids : f[k] = 0
    BY <1>1 DEF LeftInAll
  <2> HIDE DEF f
  <2> QED BY <2>1, TotalZero DEF f
<1>5. ASSUME NEW u PROVE Total(ReleasedTo(u)) = 0
  <2> DEFINE f == ReleasedTo(u)
  <2>1. f \in [Ids -> Nat] /\ \A k \in Ids : f[k] = 0
    BY <1>1 DEF ReleasedTo
  <2> HIDE DEF f
  <2> QED BY <2>1, TotalZero DEF f
<1>6. /\ bal \in [OfVestingSchedule.Users \cup {OfVestingSchedule.Admin, Self} -> Nat]
      /\ bal[Self] = 0 /\ \A u \in OfVestingSchedule.Users : bal[u] = 0
  BY VestingScheduleAssumption DEF VestingSchedule!Init
<1>7. SchedulesKept
  BY <1>1, <1>4, <1>5, <1>6, VestingScheduleAssumption DEF SchedulesKept
<1>8. EventsBooked
  BY <1>2, <1>3, <1>6 DEF EventsBooked
<1>9. OfUsers
  <2>1. \A u \in OfVestingSchedule.Users : of_user[u] = <<>> /\ DOMAIN of_user[u] = {}
    BY DEF VestingSchedule!Init
  <2>2. of_user \in [OfVestingSchedule.Users -> Seq(Nat)]
    BY DEF VestingSchedule!Init
  <2> QED BY <1>1, <2>1, <2>2 DEF OfUsers
<1> QED BY <1>7, <1>8, <1>9 DEF VestingScheduleInv

LEMMA VestingScheduleSays == ASSUME VestingScheduleInv PROVE VestingSchedule!HistoryAccounts
<1> DEFINE live == {id \in DOMAIN schedule : ~schedule[id].revoked}
           of(u) == {id \in DOMAIN schedule : schedule[id].beneficiary = u}
<1>1. \A g : VestingSchedule!Total(g) = Total(g)
  BY Zenon DEF VestingSchedule!Total, Total, VestingSchedule!Units, Units,
               VestingSchedule!Cardinality, Cardinality
<1>2. EventsBooked /\ SchedulesKept /\ OfUsers
  BY DEF VestingScheduleInv
<1>3. \A id \in DOMAIN schedule : id \in Ids /\ schedule[id].released_amount \in Nat
      /\ LeftIn(schedule[id]) \in Nat
  BY <1>2, LinearOne, LinearParts
<1>4. ASSUME NEW type PROVE VestingSchedule!Booked(type) = Total(BookedAs(type))
  <2> DEFINE T == {j \in VestingSchedule!Recorded : history[j].event_type = type}
             k == [j \in T |-> history[j].amount]
             f == [j \in T |-> k[j]]
             g == [j \in HistoryKeys |-> IF j \in T THEN k[j] ELSE 0]
  <2>1. T = {j \in HistoryKeys : history[j] # None /\ history[j].event_type = type}
    BY HistoryKeysIs DEF VestingSchedule!Recorded
  <2>2. ASSUME NEW j \in T PROVE k[j] \in Nat
    <3>1. history[j] \in EventRecord
      BY <1>2, <2>1 DEF EventsBooked
    <3> QED BY <3>1 DEF EventRecord
  <2>3. T \in SUBSET HistoryKeys /\ g = BookedAs(type) /\ f = k
    BY <2>1 DEF BookedAs, EventAmount
  <2>4. VestingSchedule!Booked(type) = Total(k)
    BY <1>1 DEF VestingSchedule!Booked
  <2> HIDE DEF k, T
  <2>5. Total(f) = Total(g)
    BY <2>2, <2>3, TotalWithin
  <2> QED BY <2>3, <2>4, <2>5
<1>5. Total([id \in live |-> schedule[id].total_amount - schedule[id].released_amount])
        = Total(LeftInAll)
  <2> DEFINE k == [id \in live |-> schedule[id].total_amount - schedule[id].released_amount]
             f == [id \in live |-> k[id]]
             g == [id \in Ids |-> IF id \in live THEN k[id] ELSE 0]
  <2>1. \A id \in live : k[id] \in Nat
    BY <1>3 DEF LeftIn
  <2>2. live \in SUBSET Ids /\ g = LeftInAll /\ f = k
    BY <1>3 DEF LeftInAll, LeftIn
  <2> HIDE DEF k, live
  <2>3. Total(f) = Total(g)
    BY <2>1, <2>2, TotalWithin
  <2> QED BY <2>2, <2>3 DEF k
<1>6. ASSUME NEW u \in OfVestingSchedule.Users
      PROVE  bal[u] = Total([id \in of(u) |-> schedule[id].released_amount])
  <2> DEFINE T == of(u)
             k == [id \in T |-> schedule[id].released_amount]
             f == [id \in T |-> k[id]]
             g == [id \in Ids |-> IF id \in T THEN k[id] ELSE 0]
  <2>1. \A id \in T : k[id] \in Nat
    BY <1>3
  <2>2. T \in SUBSET Ids /\ g = ReleasedTo(u) /\ f = k
    BY <1>3 DEF ReleasedTo, PartFor
  <2>3. bal[u] = Total(ReleasedTo(u))
    BY <1>2 DEF SchedulesKept
  <2> HIDE DEF k, T
  <2>4. Total(f) = Total(g)
    BY <2>1, <2>2, TotalWithin
  <2> QED BY <2>2, <2>3, <2>4 DEF k, T
<1>7. ASSUME NEW id \in live
      PROVE  schedule[id].released_amount <= VestingSchedule!CalculateVestedAmount(schedule[id])
  BY <1>2, LinearOne DEF LinearSays
<1> QED
  BY <1>1, <1>2, <1>4, <1>5, <1>6, <1>7
  DEF VestingSchedule!HistoryAccounts, EventsBooked, SchedulesKept, OfUsers

-----------------------------------------------------------------------------
(***************************************************************************)
(* Contracts that hold tokens: the values of their constants for TLC.      *)
(***************************************************************************)
\* insurance: one player, a claim or two, one or two changes of the settings
InsuranceConfig ==
  [base_premium_rate |-> 1, multiplier |-> [NFT |-> 2, Token |-> 1, Combined |-> 2],
   min_coverage_period |-> 1, max_coverage_period |-> 2, max_coverage_amount |-> 2,
   max_claims_per_period |-> 2, claim_cooldown |-> 1, paused |-> FALSE]

MCInsurance ==
  [Users |-> {ann}, Admin |-> cat, DEFAULT_CONFIG |-> InsuranceConfig,
   Rates |-> {[base_premium_rate |-> 2, multiplier |-> InsuranceConfig.multiplier]},
   Limits |-> {[min_coverage_period |-> 1, max_coverage_period |-> 1, max_coverage_amount |->
   1]}, FraudParams |-> {[max_claims_per_period |-> 1, claim_cooldown |-> 0]},
   Coverages |-> {2}, Periods |-> {1}, Amounts |-> {1, 2}, InitBalance |-> 3,
   SECONDS_PER_DAY |-> 1, YEAR |-> 2, DENOMINATOR |-> 2, FRAUD_LOOKBACK_PERIOD |-> 1,
   MaxClaims |-> 2, MaxTime |-> 2]

InsuranceSmall ==
  config # None =>
    /\ config.max_coverage_amount = 1 => policy[ann] = None
    /\ Cardinality({f \in DOMAIN InsuranceConfig : config[f] # InsuranceConfig[f]})
         + Len(claim) + now + Weight(fraud[ann].flagged, 1) + pool <= 5

\* bridge: two owners, two validators, two NFT contracts
FeeRule(lo) == [base_fee_bps |-> 1, min_fee |-> lo, max_fee |-> 2]

MCBridge ==
  [Users |-> {eve, dan}, Validators |-> {ann, bob}, AssetIds |-> {7}, NftContracts |-> {coins,
   cards}, Amounts |-> {2}, Chains |-> {1}, MAX_VALIDATORS |-> 2, MAX_CHAIN_ID |-> 1,
   BASIS_POINTS |-> 10, FeeRules |-> {FeeRule(1), FeeRule(3)}, InitBalance |-> 2,
   MaxNonce |-> 2, MaxTime |-> 1]

BridgeSmall ==
  Cardinality(validators) + Cardinality({w \in DOMAIN wrapped : wrapped[w] # None}) + nonce[eve]
    + nonce[dan] + now + (IF config = None THEN 0 ELSE Weight(config.paused, 1))
    + Cardinality({i \in DOMAIN status : status[i] = "Completed"}) <= 3

\* puzzle_dao: either a proposal or the multisig, with two members
DaoConfig ==
  [voting_delay |-> 1, voting_period |-> 0, proposal_threshold |-> 2, quorum_percentage |-> 50,
   execution_delay |-> 2, emergency_quorum_percentage |-> 25]
DaoPayments == {[to |-> bob, amount |-> 0], [to |-> bob, amount |-> 1]}

MCPuzzleDao ==
  [Users |-> {ann, bob}, Configs |-> {DaoConfig}, Stakes |-> {1, 2}, ACTIVE |-> 1,
   PREMIUM |-> 2, COUNCIL |-> 2, Actions |-> DaoPayments, InitBalance |-> 2, MaxThreshold |-> 2,
   ActionTtl |-> 2, MaxProposals |-> 1, MaxActions |-> 1, MaxTime |-> 3]

Delegators == Cardinality({u \in {ann, bob} : delegatee[u] # u})

PuzzleDaoSmall ==
  /\ proposal = <<>> \/ multisig = None
  /\ now > 0 => proposal # <<>> \/ action # <<>>
  /\ \A u \in {ann, bob} : power[u] \in (0 - 1) .. 3
  /\ Delegators <= Weight(multisig = None /\ proposal = <<>>, 1)
  /\ proposal # <<>> => \A u \in {ann, bob} : stake[u] # 1
  /\ \A i \in DOMAIN proposal :
       /\ proposal[i].call.amount = 0 => proposal[i].emergency
       /\ proposal[i].abstain_votes # 0 => Cardinality(voted) = 1

\* governance: the same with deposits
GovernanceConfig ==
  [voting_delay |-> 1, voting_period |-> 0, proposal_threshold |-> 2, quorum_percentage |-> 50]

MCGovernance ==
  [Users |-> {ann, bob}, Configs |-> {GovernanceConfig}, Amounts |-> {1, 2},
   Actions |-> DaoPayments, InitBalance |-> 2, MaxThreshold |-> 2, ActionTtl |-> 1,
   MaxProposals |-> 1, MaxActions |-> 1, MaxTime |-> 2]

GovernanceSmall ==
  /\ proposal = <<>> \/ multisig = None
  /\ now > 0 => proposal # <<>> \/ action # <<>>
  /\ Delegators <= Weight(multisig = None /\ now = 0, 1)
  /\ \A i \in DOMAIN proposal : proposal[i].abstain_votes # 0 => Cardinality(voted) = 1

\* puzzle_pool_staking: one epoch after the current one
MCPuzzlePoolStaking ==
  [Players |-> {ann, bob}, Amounts |-> {1, 2}, Difficulties |-> {1, 2}, Budgets |-> {4},
   STAKER_SHARE |-> 1, SOLVER_SHARE |-> 1, BASIS_POINTS |-> 2, Shares |-> {0},
   LOCK_PERIOD |-> 1, EPOCH |-> 1, InitBalance |-> 2, MaxFunds |-> 4, MaxSolves |-> 3,
   MaxEpochs |-> 1, MaxTime |-> 2]

PuzzlePoolStakingSmall ==
  /\ config # None => /\ config.paused => current = 0 /\ total_staked = 0
                      /\ config.staker = 0 => total_staked = 0
  /\ funds \in {0, 2, 4} /\ (funds > 0 => current = 1)
  /\ position[bob] # None => solves[bob][0] = 0 /\ funds # 2 /\ position[bob].amount = 1
  /\ solves[ann][1] = 0 /\ solves[bob][1] <= 1

\* puzzle_rental: two listings or two rentals of the first, which another one
\* for the other token replaces when the numbering starts again
RentedOut(token) ==
  [nft |-> 1, token |-> token, price |-> 1, period |-> 1, max_periods |-> 2, extensions |-> TRUE,
   refund_pct |-> 50]

MCPuzzleRental ==
  [Users |-> {eve, dan}, Listings |-> {RentedOut(coins), RentedOut(cards)},
   Coins |-> {coins, cards}, InitBalance |-> 4, MaxListings |-> 2, MaxRentals |-> 2,
   MaxTime |-> 2]

PuzzleRentalSmall ==
  /\ (next_rental > 1 \/ late) => listing[2] = None
  /\ now > 0 => next_rental > 1
  /\ bal[cards][Self] > 0 => late

\* staking: a year of one second; gold earns the most, then bronze
StakingConfig ==
  [apy |-> [base |-> 2, bronze |-> 0, silver |-> 0, gold |-> 2],
   thresholds |-> [bronze |-> 1, silver |-> 2, gold |-> 3],
   params |-> [lock |-> 1, early |-> 1, emergency |-> 2], paused |-> FALSE]

MCStaking ==
  [Stakers |-> {ann, bob}, Admin |-> cat, Amounts |-> {1, 2}, BASIS_POINTS |-> 2, YEAR |-> 1,
   DEFAULT_CONFIG |-> StakingConfig, Apys |-> {[base |-> 1, bronze |-> 3, silver |-> 1, gold |->
   2]}, Thresholds |-> {[bronze |-> 1, silver |-> 1, gold |-> 2]}, Params |-> {[lock |-> 0,
   early |-> 2, emergency |-> 1]}, InitBalance |-> 2, MaxStake |-> 2, MaxTime |-> 2]

StakingSmall ==
  /\ config # None => (config.paused => now = 0 /\ total_staked > 0)
  /\ reward_pool # 1 /\ (reward_pool > 0 => now > 0 /\ info[ann] # None)
  /\ bal[bob] # 1 /\ (info[bob] # None => reward_pool = 0 /\ now <= 1)

\* lending: tokens for an NFT, and an NFT for tokens
Tokens(n) == [asset_type |-> "Token", amount |-> n]
NFT(x) == [asset_type |-> "NFT", nft_id |-> x]
Terms(lent, collateral, principal) ==
  [loan_asset |-> lent, collateral_asset |-> collateral, principal |-> principal,
   duration_secs |-> 1, interest_bps |-> 5000, max_extension_secs |-> 2]

MCLending ==
  [Users |-> {ann, bob}, NFTs |-> {1}, InitOwner |-> [x \in {1} |-> ann],
   Offers |-> {Terms(Tokens(2), NFT(1), 2), Terms(NFT(1), Tokens(1), 2)}, InitBalance |-> 4,
   Amounts |-> {1, 3}, MaxOffers |-> 2, MaxTime |-> 3]

LendingSmall ==
  /\ now > 0 => Len(loan) > 0 /\ \A i \in DOMAIN offer : offer[i].status # "Open"
  /\ Len(loan) = 2 => now <= 1 /\ extension[2] = None

\* vesting: milestones of a quarter and three quarters
Milestone(id, quarters, completed) ==
  [id |-> id, percentage |-> quarters, completed |-> completed]
Schedule(type, start, cliff, milestones) ==
  [total_amount |-> 4, start_time |-> start, cliff_duration |-> cliff, vesting_duration |-> 2,
   revocable |-> TRUE, vesting_type |-> type, milestones |-> milestones]
Two(completed) == <<Milestone(1, 1, completed), Milestone(2, 3, completed)>>

MCVesting ==
  [Users |-> {ann, bob}, Admin |-> cat, WHOLE |-> 4, Schedules |-> {Schedule("TimeBased", 0, 1,
   <<>>), Schedule("Hybrid", 1, 0, Two(FALSE)), Schedule("MilestoneBased", 0, 1, Two(FALSE))},
   Durations |-> {0, 4}, Milestones |-> {<<>>, <<Milestone(1, 4, FALSE)>>, Two(TRUE)},
   InitBalance |-> 8, MaxSchedules |-> 2, MaxTime |-> 3]

VestingSmall ==
  /\ now > 0 => next_id > 0
  /\ next_id = 2 => /\ now <= 2
               /\ \A u \in {ann, bob} : schedule[u] # None => schedule[u].vesting_type = "TimeBased"
  /\ paused => now = 1
  /\ schedule[bob] # None => next_id = 2

\* vesting_schedule: two keys for a schedule, so that the third event runs on
Linear(amount, start, cliff, duration) ==
  [total_amount |-> amount, start_time |-> start, cliff_duration |-> cliff,
   vesting_duration |-> duration, revocable |-> start = 0]

MCVestingSchedule ==
  [Users |-> {eve, dan}, Admin |-> cat, Schedules |-> {Linear(3, 0, 1, 3), Linear(2, 1, 0, 2),
   Linear(2, 0, 2, 2)}, Cliffs |-> {0, 1, 2}, Durations |-> {0, 2, 4}, SPAN |-> 2,
   InitBalance |-> 5, MaxSchedules |-> 2, MaxEvents |-> 6, MaxTime |-> 3]

VestingScheduleSmall == now > 0 => schedule # <<>>

\* flash_loan, which reads no clock
MCFlashLoan ==
  [Users |-> {ann, bob}, Admin |-> cat, Fees |-> {5}, Ratios |-> {10}, BASIS_POINTS |-> 10,
   Amounts |-> {1, 2}, Extras |-> {0, 1}, InitBalance |-> 3, MaxLoans |-> 2]

FlashLoanSmall == config # None /\ pool = None => ~config.paused

-----------------------------------------------------------------------------
(***************************************************************************)
(* One contract at a time.                                                 *)
(***************************************************************************)
MCInit ==
  /\ \/ contract = "insurance" /\ Insurance!Init
     \/ contract = "bridge" /\ Bridge!Init
     \/ contract = "puzzle_dao" /\ PuzzleDao!Init
     \/ contract = "governance" /\ Governance!Init
     \/ contract = "puzzle_pool_staking" /\ PuzzlePoolStaking!Init
     \/ contract = "puzzle_rental" /\ PuzzleRental!Init
     \/ contract = "staking" /\ Staking!Init
     \/ contract = "lending" /\ Lending!Init
     \/ contract = "vesting" /\ Vesting!Init
     \/ contract = "vesting_schedule" /\ VestingSchedule!Init
     \/ contract = "flash_loan" /\ FlashLoan!Init /\ now = 0
  /\ OthersAbsent

MCNext ==
  /\ \/ contract = "insurance" /\ Insurance!Next
     \/ contract = "bridge" /\ Bridge!Next
     \/ contract = "puzzle_dao" /\ PuzzleDao!Next
     \/ contract = "governance" /\ Governance!Next
     \/ contract = "puzzle_pool_staking" /\ PuzzlePoolStaking!Next
     \/ contract = "puzzle_rental" /\ PuzzleRental!Next
     \/ contract = "staking" /\ Staking!Next
     \/ contract = "lending" /\ Lending!Next
     \/ contract = "vesting" /\ Vesting!Next
     \/ contract = "vesting_schedule" /\ VestingSchedule!Next
     \/ contract = "flash_loan" /\ FlashLoan!Next /\ UNCHANGED now
  /\ UNCHANGED contract /\ OthersStay

MCSpec == MCInit /\ [][MCNext]_vars

Bounded ==
  /\ contract = "insurance" => InsuranceSmall
  /\ contract = "bridge" => BridgeSmall
  /\ contract = "puzzle_dao" => PuzzleDaoSmall
  /\ contract = "governance" => GovernanceSmall
  /\ contract = "puzzle_pool_staking" => PuzzlePoolStakingSmall
  /\ contract = "puzzle_rental" => PuzzleRentalSmall
  /\ contract = "staking" => StakingSmall
  /\ contract = "lending" => LendingSmall
  /\ contract = "vesting" => VestingSmall
  /\ contract = "vesting_schedule" => VestingScheduleSmall
  /\ contract = "flash_loan" => FlashLoanSmall

Symmetric == Permutations({eve, dan})

-----------------------------------------------------------------------------
\* What a contract holds is what it owes, or covers it: the pool of premiums
\* and the limits of claims, the locked tokens, the stakes of members and
\* voters, the stakes of pools and their rewards, the rentals, the collateral
\* of loans, the vesting schedules with their history, and the positions of
\* lenders.  Each module says it of its contract.
HoldingsBacked ==
  /\ contract = "insurance" => Insurance!PoolAndLimits
  /\ contract = "bridge" => Bridge!LocksBacked
  /\ contract = "puzzle_dao" => PuzzleDao!StakesAndSignatures
  /\ contract = "governance" => Governance!PowerIsDeposits
  /\ contract = "puzzle_pool_staking" => PuzzlePoolStaking!StakesAndEpochs
  /\ contract = "puzzle_rental" => PuzzleRental!RentalsBacked
  /\ contract = "staking" => Staking!StakesAndRewards
  /\ contract = "lending" => Lending!CollateralKept
  /\ contract = "vesting" => Vesting!VestingCovered
  /\ contract = "vesting_schedule" => VestingSchedule!HistoryAccounts
  /\ contract = "flash_loan" => FlashLoan!PositionsCovered

\* Transfers to other chains, proposals and loans are decided once: each of the
\* contracts implements the specification Decisions.
DecidedOnce ==
  /\ contract = "bridge" => Bridge!D!Init
  /\ contract = "puzzle_dao" => PuzzleDao!D!Init
  /\ contract = "governance" => Governance!D!Init
  /\ contract = "lending" => Lending!D!Init
  /\ [][contract = "bridge" => Bridge!D!Step]_vars
  /\ [][contract = "puzzle_dao" => PuzzleDao!D!Step]_vars
  /\ [][contract = "governance" => Governance!D!Step]_vars
  /\ [][contract = "lending" => Lending!D!Step]_vars

-----------------------------------------------------------------------------
(***************************************************************************)
(* Proofs: the contracts that hold tokens, side by side.                   *)
(***************************************************************************)
\* The inductive invariant: that of the contract that runs.
IInv ==
  /\ contract = "insurance" => InsuranceInv
  /\ contract = "bridge" => BridgeInv
  /\ contract = "puzzle_dao" => PuzzleDaoInv
  /\ contract = "governance" => GovernanceInv
  /\ contract = "puzzle_pool_staking" => PuzzlePoolStakingInv
  /\ contract = "puzzle_rental" => PuzzleRentalInv
  /\ contract = "staking" => StakingInv
  /\ contract = "lending" => LendingInv
  /\ contract = "vesting" => VestingInv
  /\ contract = "vesting_schedule" => VestingScheduleInv
  /\ contract = "flash_loan" => FlashLoanInv

\* What a step of the contract that runs is an outcome of.
Decided ==
  /\ contract = "bridge" => Bridge!D!Step
  /\ contract = "puzzle_dao" => PuzzleDao!D!Step
  /\ contract = "governance" => Governance!D!Step
  /\ contract = "lending" => Lending!D!Step

\* A step is one of the contract that runs, which stays the same.
LEMMA OneRuns ==
  ASSUME [MCNext]_vars
  PROVE  /\ contract' = contract
         /\ contract = "insurance" => Insurance!Next \/ UNCHANGED Insurance!vars
         /\ contract = "bridge" => Bridge!Next \/ UNCHANGED Bridge!vars
         /\ contract = "puzzle_dao" => PuzzleDao!Next \/ UNCHANGED PuzzleDao!vars
         /\ contract = "governance" => Governance!Next \/ UNCHANGED Governance!vars
         /\ contract = "puzzle_pool_staking" =>
              PuzzlePoolStaking!Next \/ UNCHANGED PuzzlePoolStaking!vars
         /\ contract = "puzzle_rental" => PuzzleRental!Next \/ UNCHANGED PuzzleRental!vars
         /\ contract = "staking" => Staking!Next \/ UNCHANGED Staking!vars
         /\ contract = "lending" => Lending!Next \/ UNCHANGED Lending!vars
         /\ contract = "vesting" => Vesting!Next \/ UNCHANGED Vesting!vars
         /\ contract = "vesting_schedule" =>
              VestingSchedule!Next \/ UNCHANGED VestingSchedule!vars
         /\ contract = "flash_loan" => FlashLoan!Next \/ UNCHANGED FlashLoan!vars
<1>1. CASE MCNext
  BY <1>1 DEF MCNext
<1>2. CASE UNCHANGED vars
  <2>1. /\ contract' = contract
        /\ UNCHANGED Insurance!vars /\ UNCHANGED Bridge!vars /\ UNCHANGED PuzzleDao!vars
        /\ UNCHANGED Governance!vars /\ UNCHANGED PuzzlePoolStaking!vars
        /\ UNCHANGED PuzzleRental!vars /\ UNCHANGED Staking!vars /\ UNCHANGED Lending!vars
        /\ UNCHANGED Vesting!vars /\ UNCHANGED VestingSchedule!vars /\ UNCHANGED FlashLoan!vars
    BY <1>2 DEF vars, Insurance!vars, Bridge!vars, PuzzleDao!vars, Governance!vars,
                PuzzlePoolStaking!vars, PuzzleRental!vars, Staking!vars, Lending!vars,
                Vesting!vars, VestingSchedule!vars, FlashLoan!vars
  <2> QED BY <2>1
<1> QED BY <1>1, <1>2

\* The invariant holds when the contracts are deployed, and no case is open.
LEMMA DeployedAsStated ==
  ASSUME MCInit
  PROVE  /\ IInv
         /\ contract = "bridge" => Bridge!D!Init
         /\ contract = "puzzle_dao" => PuzzleDao!D!Init
         /\ contract = "governance" => Governance!D!Init
         /\ contract = "lending" => Lending!D!Init
<1>1. /\ contract = "insurance" => Insurance!Init
      /\ contract = "bridge" => Bridge!Init
      /\ contract = "puzzle_dao" => PuzzleDao!Init
      /\ contract = "governance" => Governance!Init
      /\ contract = "puzzle_pool_staking" => PuzzlePoolStaking!Init
      /\ contract = "puzzle_rental" => PuzzleRental!Init
      /\ contract = "staking" => Staking!Init
      /\ contract = "lending" => Lending!Init
      /\ contract = "vesting" => Vesting!Init
      /\ contract = "vesting_schedule" => VestingSchedule!Init
      /\ contract = "flash_loan" => FlashLoan!Init
  BY DEF MCInit
<1> QED BY <1>1, InsuranceInit, BridgeInit, PuzzleDaoInit, GovernanceInit,
           PuzzlePoolStakingInit, PuzzleRentalInit, StakingInit, LendingInit, VestingInit,
           VestingScheduleInit, FlashLoanInit DEF IInv

\* Every step keeps the invariant, and decides at most one case, once.
LEMMA StepsAsStated == ASSUME IInv, [MCNext]_vars PROVE IInv' /\ Decided
<1>1. contract' = contract
  BY OneRuns
<1>2. ASSUME contract = "insurance" PROVE InsuranceInv'
  BY <1>2, OneRuns, InsuranceStep, InsuranceQuiet DEF IInv
<1>3. ASSUME contract = "bridge" PROVE BridgeInv' /\ Bridge!D!Step
  <2>1. BridgeInv /\ (Bridge!Next \/ UNCHANGED Bridge!vars)
    BY <1>3, OneRuns DEF IInv
  <2>2. CASE UNCHANGED Bridge!vars
    <3>1. UNCHANGED <<bal, locked, status, nonce>> /\ now' \in 0 .. OfBridge.MaxTime
      BY <2>1, <2>2 DEF Bridge!vars, BridgeInv
    <3> QED BY <2>1, <3>1, BridgeQuiet
  <2> QED BY <2>1, <2>2, BridgeStep
<1>4. ASSUME contract = "puzzle_dao" PROVE PuzzleDaoInv' /\ PuzzleDao!D!Step
  <2>1. PuzzleDaoInv /\ PuzzleDaoInv' /\ Decides(OfPuzzleDao.MaxProposals)
    BY <1>4, OneRuns, PuzzleDaoStep DEF IInv
  <2> QED BY <2>1, PuzzleDaoDecides
<1>5. ASSUME contract = "governance" PROVE GovernanceInv' /\ Governance!D!Step
  <2>1. GovernanceInv /\ GovernanceInv' /\ Decides(OfGovernance.MaxProposals)
    BY <1>5, OneRuns, GovernanceStep DEF IInv
  <2> QED BY <2>1, GovernanceDecides
<1>6. ASSUME contract = "puzzle_pool_staking" PROVE PuzzlePoolStakingInv'
  BY <1>6, OneRuns, PuzzlePoolStakingStep, PuzzlePoolStakingQuiet DEF IInv
<1>7. ASSUME contract = "puzzle_rental" PROVE PuzzleRentalInv'
  BY <1>7, OneRuns, PuzzleRentalStep DEF IInv
<1>8. ASSUME contract = "staking" PROVE StakingInv'
  BY <1>8, OneRuns, StakingStep, StakingQuiet DEF IInv
<1>9. ASSUME contract = "lending" PROVE LendingInv' /\ Lending!D!Step
  <2>1. LendingInv /\ LendingInv' /\ LoanDecides
    BY <1>9, OneRuns, LendingStep DEF IInv
  <2> QED BY <2>1, LendingDecides
<1>10. ASSUME contract = "vesting" PROVE VestingInv'
  BY <1>10, OneRuns, VestingStep DEF IInv
<1>11. ASSUME contract = "vesting_schedule" PROVE VestingScheduleInv'
  BY <1>11, OneRuns, VestingScheduleStep DEF IInv
<1>12. ASSUME contract = "flash_loan" PROVE FlashLoanInv'
  BY <1>12, OneRuns, FlashLoanStep, FlashLoanQuiet DEF IInv
<1> QED BY <1>1, <1>2, <1>3, <1>4, <1>5, <1>6, <1>7, <1>8, <1>9, <1>10, <1>11, <1>12
        DEF IInv, Decided

\* The contracts that hold tokens keep their invariants, whatever the users do.
THEOREM InvariantKept == MCSpec => []IInv
<1>1. MCInit => IInv
  BY DeployedAsStated
<1>2. IInv /\ [MCNext]_vars => IInv'
  BY StepsAsStated
<1> QED BY <1>1, <1>2, PTL DEF MCSpec

\* What each of them holds is what it owes, or covers it: premiums, locked
\* tokens, stakes, deposits, rentals, collateral, schedules and positions.
THEOREM HoldingsAreBacked == MCSpec => []HoldingsBacked
<1>1. IInv => HoldingsBacked
  BY InsuranceSays, BridgeSays, PuzzleDaoSays, GovernanceSays, PuzzlePoolStakingSays,
     PuzzleRentalSays, StakingSays, LendingSays, VestingSays, VestingScheduleSays,
     FlashLoanSays DEF IInv, HoldingsBacked
<1> QED BY <1>1, InvariantKept, PTL

\* Transfers to other chains, proposals and loans are decided once: the bridge,
\* the two governances and the lending implement the specification Decisions.
THEOREM DecisionsAreFinal == MCSpec => DecidedOnce
<1>1. ASSUME MCInit
      PROVE  /\ contract = "bridge" => Bridge!D!Init
             /\ contract = "puzzle_dao" => PuzzleDao!D!Init
             /\ contract = "governance" => Governance!D!Init
             /\ contract = "lending" => Lending!D!Init
  BY <1>1, DeployedAsStated
<1>2. ASSUME IInv, [MCNext]_vars
      PROVE  /\ [contract = "bridge" => Bridge!D!Step]_vars
             /\ [contract = "puzzle_dao" => PuzzleDao!D!Step]_vars
             /\ [contract = "governance" => Governance!D!Step]_vars
             /\ [contract = "lending" => Lending!D!Step]_vars
  BY <1>2, StepsAsStated DEF Decided
<1> QED BY <1>1, <1>2, InvariantKept, PTL DEF MCSpec, DecidedOnce

=============================================================================
