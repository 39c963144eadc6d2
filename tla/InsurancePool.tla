--------------------------- MODULE InsurancePool ---------------------------
(***************************************************************************)
(* The insurance pool (contracts/insurance_pool): premiums for the         *)
(* coverage of contracts go into one pool, from which claims are paid once *)
(* the administrator has approved them, cancelled coverage is refunded and *)
(* the administrator withdraws what is not in reserve.                     *)
(*                                                                         *)
(* As in MultisigEscrow a call is one action and its error paths are its   *)
(* guards.  Texts, counters and metrics, which the contract never reads,   *)
(* are left out.  The literal limits of the code are constants.            *)
(***************************************************************************)
EXTENDS Integers, Sequences, FiniteSets, TokenUnits

CONSTANTS
  Addr,            \* accounts
  Self,            \* the address of the contract
  None,            \* no policy, no risk score
  Token,           \* the payment token, in a set of its own
  Admin,           \* the administrator
  Payers,          \* the accounts that pay premiums and submit claims
  Covered,         \* the contracts that are insured
  DEFAULT_CONFIG,  \* the configuration that initialize stores
  Rates, Ratios, Limits,    \* what the update_ functions are called with
  Coverages, Periods, Amounts,   \* what coverage, claims and the pool are called with
  InitBalance,     \* what the administrator and the payers have at the start
  SECONDS_PER_DAY, BASIS_POINTS,
  YEAR,            \* 365 days
  LOOKBACK,        \* the 30 days within which claims are counted
  MIN_RESERVE,     \* the part of the pool that is never withdrawn, in basis points
  CLAIM_LIMIT,     \* recent claims of a contract (3)
  POOL_LIMIT,      \* recent claims of all contracts (5)
  HIGH_RISK,       \* claims that make a contract a high risk (3)
  MaxClaims,       \* bound on the number of claims
  MaxTime          \* bound on the ledger timestamp

Account == Addr \cup {Self}
RiskLevel == {"Low", "Medium", "High", "Critical"}

VARIABLES
  now,        \* ledger timestamp
  bal,        \* balances of the token
  config,     \* DataKey::Config, None before initialize
  policy,     \* DataKey::ContractPolicy(contract); its domain is PolicyList
  claim,      \* DataKey::Claim(id), ids from 1 on; ContractClaims by their contract
  pool,       \* DataKey::PremiumPool
  reserve,    \* DataKey::ReservePool
  risk        \* DataKey::RiskScore(contract): level and total_claims

vars == <<now, bal, config, policy, claim, pool, reserve, risk>>

Init ==
  /\ now = 0
  /\ bal = [t \in Token |->
              [a \in Account |-> IF a \in Payers \cup {Admin} THEN InitBalance ELSE 0]]
  /\ config = None
  /\ policy = [c \in Covered |-> None]
  /\ claim = <<>>
  /\ pool = 0
  /\ reserve = 0
  /\ risk = [c \in Covered |-> None]

Transfer(from, to, amount) ==
  /\ amount >= 0
  /\ \A t \in Token : bal[t][from] >= amount
  /\ bal' = [t \in Token |->
               LET less == [bal[t] EXCEPT ![from] = @ - amount]
               IN [less EXCEPT ![to] = @ + amount]]

Initialize ==
  /\ config = None
  /\ config' = DEFAULT_CONFIG
  /\ pool' = 0 /\ reserve' = 0
  /\ UNCHANGED <<now, bal, policy, claim, risk>>

Initialized == config # None
Open == Initialized /\ ~config.paused

\* The part of an amount that ratio basis points make.
Part(amount, ratio) == (amount * ratio) \div BASIS_POINTS

-----------------------------------------------------------------------------
(***************************************************************************)
(* Policies.                                                               *)
(***************************************************************************)
\* calculate_premium_rate
PremiumRate(level) ==
  LET multiplier == CASE level = "Low" -> 80 [] level = "Medium" -> 100
                      [] level = "High" -> 150 [] level = "Critical" -> 200
  IN (config.base_premium_rate * multiplier) \div 100

\* calculate_premium, at least 1
Premium(rate, coverage, period) ==
  LET p == (coverage * rate * (period \div SECONDS_PER_DAY)) \div (YEAR * BASIS_POINTS)
  IN IF p < 1 THEN 1 ELSE p

\* A premium goes into the pool, a part of it into the reserve.
Collect(from, amount) ==
  /\ Transfer(from, Self, amount)
  /\ pool' = pool + amount
  /\ reserve' = reserve + Part(amount, config.reserve_ratio)

Scored(c) == IF risk[c] = None THEN [level |-> "Medium", total_claims |-> 0] ELSE risk[c]

\* purchase_coverage, called by the payer.  A policy that has ended is still
\* Active: it is renewed or cancelled first.
PurchaseCoverage(c, coverage, period, payer) ==
  LET rate == PremiumRate(Scored(c).level)
      premium == Premium(rate, coverage, period)
  IN /\ Open
     /\ coverage \in 1 .. config.max_coverage_amount
     /\ period \in config.min_coverage_period .. config.max_coverage_period
     /\ policy[c] # None => policy[c].status # "Active"
     /\ Collect(payer, premium)
     /\ policy' = [policy EXCEPT ![c] =
          [coverage_amount |-> coverage, premium_paid |-> premium, premium_rate |-> rate,
           start_time |-> now, end_time |-> now + period, status |-> "Active"]]
     /\ risk' = [risk EXCEPT ![c] = Scored(c)]
     /\ UNCHANGED <<now, config, claim>>

\* renew_coverage, called by the payer
RenewCoverage(c, period, payer) ==
  LET p == policy[c]
      end == period + IF p.end_time > now THEN p.end_time ELSE now
      premium == Premium(p.premium_rate, p.coverage_amount, period)
  IN /\ Open
     /\ p # None
     /\ p.status = "Active"
     /\ end - p.start_time <= config.max_coverage_period
     /\ Collect(payer, premium)
     /\ policy' = [policy EXCEPT ![c].end_time = end, ![c].premium_paid = @ + premium]
     /\ UNCHANGED <<now, config, claim, risk>>

\* The unused part of the premiums of policy p.
Unused(p) ==
  IF p.end_time > now
    THEN (p.premium_paid * (p.end_time - now)) \div (p.end_time - p.start_time) ELSE 0

\* Mutated form: the pool is not reduced by the refund.
CancelCoverageOnly(c, payer) ==
  /\ policy[c] # None
  /\ policy[c].status = "Active"
  /\ policy' = [policy EXCEPT ![c].status = "Cancelled"]
  /\ Transfer(Self, payer, Unused(policy[c]))
  /\ UNCHANGED <<now, config, claim, pool, reserve, risk>>

\* cancel_coverage, called by the payer
CancelCoverage(c, payer) ==
  LET refund == Unused(policy[c])
  IN /\ policy[c] # None
     /\ policy[c].status = "Active"
     /\ policy' = [policy EXCEPT ![c].status = "Cancelled"]
     /\ Transfer(Self, payer, refund)
     /\ pool' = pool - refund
     /\ reserve' = reserve - Part(refund, config.reserve_ratio)
     /\ UNCHANGED <<now, config, claim, risk>>

-----------------------------------------------------------------------------
(***************************************************************************)
(* Claims.                                                                 *)
(***************************************************************************)
ClaimIds == 1 .. Len(claim)
Recent == {i \in ClaimIds : now - claim[i].submission_time < LOOKBACK}

\* submit_claim, by anybody, with verify_claim and update_risk_score_on_claim;
\* the branch of the latter for Critical comes after that for High and is
\* never taken
SubmitClaim(c, amount) ==
  LET p == policy[c]
      total == Scored(c).total_claims + 1
  IN /\ Open
     /\ p # None
     /\ p.status = "Active"
     /\ now \in p.start_time .. p.end_time
     /\ amount \in 1 .. p.coverage_amount
     /\ Cardinality({i \in Recent : claim[i].contract = c}) < CLAIM_LIMIT
     /\ Cardinality(Recent) < POOL_LIMIT
     /\ Len(claim) < MaxClaims
     /\ claim' = Append(claim, [contract |-> c, claim_amount |-> amount,
                                submission_time |-> now, status |-> "Submitted",
                                payout_amount |-> 0])
     /\ risk' = [risk EXCEPT ![c] =
          [level |-> IF total >= HIGH_RISK THEN "High" ELSE Scored(c).level,
           total_claims |-> total]]
     /\ UNCHANGED <<now, bal, config, policy, pool, reserve>>

\* review_claim, called by the administrator
ReviewClaim(i, approved, payout) ==
  /\ i \in ClaimIds
  /\ claim[i].status = "Submitted"
  /\ approved => payout \in 1 .. Part(claim[i].claim_amount, config.max_payout_ratio)
  /\ claim' = [claim EXCEPT ![i].status = IF approved THEN "Approved" ELSE "Rejected",
                            ![i].payout_amount = IF approved THEN payout ELSE 0]
  /\ UNCHANGED <<now, bal, config, policy, pool, reserve, risk>>

\* Mutated form: the claim stays Approved.
ProcessPayoutAgain(i, recipient) ==
  /\ i \in ClaimIds
  /\ claim[i].status = "Approved"
  /\ pool - reserve < claim[i].payout_amount => pool >= claim[i].payout_amount
  /\ Transfer(Self, recipient, claim[i].payout_amount)
  /\ pool' = pool - claim[i].payout_amount
  /\ UNCHANGED <<now, config, claim, policy, reserve, risk>>

\* process_payout, called by the administrator; the reserve may be used and
\* is not reduced
ProcessPayout(i, recipient) ==
  LET payout == claim[i].payout_amount
  IN /\ i \in ClaimIds
     /\ claim[i].status = "Approved"
     /\ pool - reserve < payout => pool >= payout
     /\ Transfer(Self, recipient, payout)
     /\ claim' = [claim EXCEPT ![i].status = "Paid"]
     /\ pool' = pool - payout
     /\ UNCHANGED <<now, config, policy, reserve, risk>>

-----------------------------------------------------------------------------
(***************************************************************************)
(* The administrator.                                                      *)
(***************************************************************************)
AddToPool(amount) ==
  /\ Initialized
  /\ amount > 0
  /\ Collect(Admin, amount)
  /\ UNCHANGED <<now, config, policy, claim, risk>>

\* withdraw_from_pool
WithdrawFromPool(amount) ==
  LET least == Part(pool, MIN_RESERVE)
      kept == IF reserve > least THEN reserve ELSE least
  IN /\ Initialized
     /\ amount > 0
     /\ pool - kept >= amount
     /\ Transfer(Self, Admin, amount)
     /\ pool' = pool - amount
     /\ reserve' = reserve - Part(amount, config.reserve_ratio)
     /\ UNCHANGED <<now, config, policy, claim, risk>>

\* update_reserves
UpdateReserves ==
  LET required == Part(pool, config.reserve_ratio)
  IN /\ Initialized
     /\ reserve' = IF reserve < required /\ pool - reserve < required - reserve THEN reserve
                   ELSE required
     /\ UNCHANGED <<now, bal, config, policy, claim, pool, risk>>

\* emergency_withdraw
EmergencyWithdraw ==
  /\ Initialized
  /\ pool > 0
  /\ Transfer(Self, Admin, pool)
  /\ pool' = 0 /\ reserve' = 0
  /\ UNCHANGED <<now, config, policy, claim, risk>>

\* set_risk_level
SetRiskLevel(c, level) ==
  /\ Initialized
  /\ risk' = [risk EXCEPT ![c] = [Scored(c) EXCEPT !.level = level]]
  /\ UNCHANGED <<now, bal, config, policy, claim, pool, reserve>>

\* update_premium_rate, update_coverage_limits, update_reserve_ratio,
\* update_max_payout_ratio, set_paused
UpdateConfig ==
  /\ Initialized
  /\ \/ \E rate \in Rates : config' = [config EXCEPT !.base_premium_rate = rate]
     \/ \E l \in Limits :
          config' = [config EXCEPT !.min_coverage_period = l.min_period,
                                   !.max_coverage_period = l.max_period,
                                   !.max_coverage_amount = l.max_amount]
     \/ \E ratio \in Ratios : /\ ratio <= BASIS_POINTS
                              /\ config' = [config EXCEPT !.reserve_ratio = ratio]
     \/ \E ratio \in Ratios : /\ ratio <= BASIS_POINTS
                              /\ config' = [config EXCEPT !.max_payout_ratio = ratio]
     \/ \E paused \in BOOLEAN : config' = [config EXCEPT !.paused = paused]
  /\ UNCHANGED <<now, bal, policy, claim, pool, reserve, risk>>

Tick ==
  /\ now < MaxTime
  /\ now' = now + 1
  /\ UNCHANGED <<bal, config, policy, claim, pool, reserve, risk>>

Next ==
  \/ Initialize
  \/ \E c \in Covered, p \in Payers :
       \/ \E n \in Coverages, d \in Periods : PurchaseCoverage(c, n, d, p)
       \/ \E d \in Periods : RenewCoverage(c, d, p)
       \/ CancelCoverage(c, p)
  \/ \E c \in Covered, n \in Amounts : SubmitClaim(c, n)
  \/ \E i \in 1 .. MaxClaims :
       \/ \E on \in BOOLEAN, n \in Amounts : ReviewClaim(i, on, n)
       \/ \E p \in Payers : ProcessPayout(i, p)
  \/ \E n \in Amounts : AddToPool(n) \/ WithdrawFromPool(n)
  \/ UpdateReserves
  \/ EmergencyWithdraw
  \/ \E c \in Covered, level \in RiskLevel : SetRiskLevel(c, level)
  \/ UpdateConfig
  \/ Tick

Spec == Init /\ [][Next]_vars

-----------------------------------------------------------------------------
C == INSTANCE Custody WITH
       Slot <- {"premiums"},
       pool <- [t \in Token |-> bal[t][Self]],
       owed <- [t \in Token |-> [s \in {"premiums"} |-> pool]]

\* PremiumPool is covered by the balance: every step is a deposit or a
\* discharge of Custody, or a stutter.
Custodian == C!Spec

\* A claim is decided once and paid once, with what was approved of it: it goes
\* from Submitted to Approved or Rejected and from Approved to Paid, its payout
\* is within the claim, and nothing but that payout leaves the pool as it is
\* paid; no other step takes anything out of the pool on its behalf.
ClaimsPaidOnce ==
  [][/\ Len(claim') >= Len(claim)
     /\ \A i \in ClaimIds :
          \/ claim'[i] = claim[i]
          \/ /\ claim[i].status = "Submitted"
             /\ claim'[i].status \in {"Approved", "Rejected"}
             /\ claim'[i].payout_amount <= claim[i].claim_amount
             /\ pool' = pool
          \/ /\ claim[i].status = "Approved"
             /\ claim'[i] = [claim[i] EXCEPT !.status = "Paid"]
             /\ pool' = pool - claim[i].payout_amount
     /\ pool' < pool /\ claim' = claim =>
          (\E c \in Covered : policy'[c] # policy[c]) \/ (\E t \in Token : bal'[t][Admin] > bal[t][Admin])]_vars

=============================================================================
