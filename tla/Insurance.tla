----------------------------- MODULE Insurance -----------------------------
(***************************************************************************)
(* The insurance of players' assets (contracts/insurance): policies and    *)
(* their premiums, which go into one pool, claims on them with limits that *)
(* should keep fraud away, and payouts and refunds from the pool.          *)
(*                                                                         *)
(* A call is one action, its error paths are its guards.  Texts, addresses *)
(* of assets, lists of policies and counters that the contract never reads *)
(* are left out.  The literal limits of the code are constants.            *)
(***************************************************************************)
EXTENDS Integers, Sequences, FiniteSets

CONSTANTS
  Users, Admin, Self,  \* the accounts and the address of the contract
  None,                \* no policy, no configuration
  DEFAULT_CONFIG,      \* the configuration that initialize stores
  Rates, Limits, FraudParams,  \* records of the fields that the update_ functions set
  Coverages, Periods, Amounts, \* what coverage, claims and the pool are called with
  InitBalance,         \* what each account has at the start
  SECONDS_PER_DAY, YEAR,
  DENOMINATOR,         \* BASIS_POINTS * 100
  FRAUD_LOOKBACK_PERIOD,
  MaxClaims, MaxTime   \* bounds

CoverageType == {"NFT", "Token", "Combined"}

VARIABLES
  now,      \* ledger timestamp
  bal,      \* balances of the payment token
  config,   \* DataKey::Config
  policy,   \* DataKey::Policy(user)
  claim,    \* DataKey::Claim(id), ids from 1 on
  pool,     \* DataKey::PremiumPool
  fraud     \* DataKey::FraudFlags(user); of the list of recent claims, each once, the set

vars == <<now, bal, config, policy, claim, pool, fraud>>

Init ==
  /\ now = 1
  /\ bal = [a \in Users \cup {Admin, Self} |-> IF a = Self THEN 0 ELSE InitBalance]
  /\ config = None
  /\ policy = [u \in Users |-> None]
  /\ claim = <<>>
  /\ pool = 0
  /\ fraud = [u \in Users |-> [recent_claims |-> {}, last_claim_time |-> 0, flagged |-> FALSE]]

Transfer(from, to, n) ==
  /\ bal[from] >= n
  /\ bal' = [bal EXCEPT ![from] = @ - n, ![to] = @ + n]

Initialize ==
  /\ config = None
  /\ config' = DEFAULT_CONFIG
  /\ UNCHANGED <<now, bal, policy, claim, pool, fraud>>

Initialized == config # None
Open == Initialized /\ ~config.paused

-----------------------------------------------------------------------------
(***************************************************************************)
(* Policies, called by their owners.                                       *)
(***************************************************************************)
\* calculate_premium_internal, at least 1
Premium(type, coverage, period) ==
  LET p == (coverage * config.base_premium_rate * config.multiplier[type]
              * (period \div SECONDS_PER_DAY)) \div (YEAR * DENOMINATOR)
  IN IF p < 1 THEN 1 ELSE p

\* A policy whose time is over stays Active: it can be renewed or cancelled
\* but no new one bought in its place.
PurchasePolicy(u, type, coverage, period) ==
  LET premium == Premium(type, coverage, period)
  IN /\ Open
     /\ coverage \in 1 .. config.max_coverage_amount
     /\ period \in config.min_coverage_period .. config.max_coverage_period
     /\ policy[u] # None => policy[u].status # "Active"
     /\ Transfer(u, Self, premium)
     /\ policy' = [policy EXCEPT ![u] =
          [coverage_type |-> type, coverage_amount |-> coverage, premium_paid |-> premium,
           start_time |-> now, end_time |-> now + period, status |-> "Active"]]
     /\ pool' = pool + premium
     /\ UNCHANGED <<now, config, claim, fraud>>

RenewPolicy(u, period) ==
  LET p == policy[u]
      end == period + IF p.end_time > now THEN p.end_time ELSE now
      premium == Premium(p.coverage_type, p.coverage_amount, period)
  IN /\ Open
     /\ p # None
     /\ p.status = "Active"
     /\ end - p.start_time <= config.max_coverage_period
     /\ Transfer(u, Self, premium)
     /\ policy' = [policy EXCEPT ![u].end_time = end, ![u].premium_paid = @ + premium]
     /\ pool' = pool + premium
     /\ UNCHANGED <<now, config, claim, fraud>>

Unused(p) ==
  IF p.end_time > now
    THEN (p.premium_paid * (p.end_time - now)) \div (p.end_time - p.start_time) ELSE 0

CancelPolicy(u) ==
  LET refund == Unused(policy[u])
  IN /\ policy[u] # None
     /\ policy[u].status = "Active"
     /\ policy' = [policy EXCEPT ![u].status = "Cancelled"]
     /\ Transfer(Self, u, refund)
     /\ pool' = pool - refund
     /\ UNCHANGED <<now, config, claim, fraud>>

-----------------------------------------------------------------------------
(***************************************************************************)
(* Claims.                                                                 *)
(***************************************************************************)
Covers(type, asset) == type = "Combined" \/ type = asset

\* The claims among ids that count as recent.
Recent(ids) ==
  LET since == IF now > FRAUD_LOOKBACK_PERIOD THEN now - FRAUD_LOOKBACK_PERIOD ELSE 0
  IN {i \in ids : claim[i].submission_time >= since}

\* check_fraud
Trusted(u) ==
  /\ ~fraud[u].flagged
  /\ fraud[u].last_claim_time > 0 => now - fraud[u].last_claim_time >= config.claim_cooldown
  /\ Cardinality(Recent(fraud[u].recent_claims)) < config.max_claims_per_period

\* Mutated form: only the latest claim is remembered.
CountedLast(u, id) ==
  [fraud EXCEPT ![u].last_claim_time = now, ![u].recent_claims = {id}]

\* update_fraud_metrics
Counted(u, id) ==
  [fraud EXCEPT ![u].last_claim_time = now, ![u].recent_claims = Recent(@) \cup {id}]

SubmitClaim(u, asset, amount) ==
  LET p == policy[u]
      id == Len(claim) + 1
  IN /\ Open
     /\ p # None
     /\ p.status = "Active"
     /\ now \in p.start_time .. p.end_time
     /\ Covers(p.coverage_type, asset)
     /\ amount \in 1 .. p.coverage_amount
     /\ Trusted(u)
     /\ id <= MaxClaims
     /\ claim' = Append(claim, [policy_owner |-> u, claim_amount |-> amount,
                                submission_time |-> now, status |-> "Submitted",
                                payout_amount |-> 0])
     /\ fraud' = Counted(u, id)
     /\ UNCHANGED <<now, bal, config, policy, pool>>

\* review_claim, called by the administrator
ReviewClaim(id, approved, payout) ==
  /\ claim[id].status = "Submitted"
  /\ approved => payout \in 1 .. claim[id].claim_amount
  /\ claim' = [claim EXCEPT ![id].status = IF approved THEN "Approved" ELSE "Rejected",
                            ![id].payout_amount = IF approved THEN payout ELSE 0]
  /\ UNCHANGED <<now, bal, config, policy, pool, fraud>>

\* process_payout, called by the administrator
ProcessPayout(id) ==
  /\ claim[id].status = "Approved"
  /\ pool >= claim[id].payout_amount
  /\ Transfer(Self, claim[id].policy_owner, claim[id].payout_amount)
  /\ claim' = [claim EXCEPT ![id].status = "Paid"]
  /\ pool' = pool - claim[id].payout_amount
  /\ UNCHANGED <<now, config, policy, fraud>>

-----------------------------------------------------------------------------
(***************************************************************************)
(* Administration.                                                         *)
(***************************************************************************)
AddToPool(n) ==
  /\ Initialized /\ n > 0
  /\ Transfer(Admin, Self, n)
  /\ pool' = pool + n
  /\ UNCHANGED <<now, config, policy, claim, fraud>>

WithdrawFromPool(n) ==
  /\ Initialized /\ n > 0 /\ pool >= n
  /\ Transfer(Self, Admin, n)
  /\ pool' = pool - n
  /\ UNCHANGED <<now, config, policy, claim, fraud>>

EmergencyWithdraw ==
  /\ Initialized /\ pool > 0
  /\ Transfer(Self, Admin, pool)
  /\ pool' = 0
  /\ UNCHANGED <<now, config, policy, claim, fraud>>

\* flag_user, unflag_user
FlagUser(u, flag) ==
  /\ Initialized
  /\ fraud' = [fraud EXCEPT ![u].flagged = flag]
  /\ UNCHANGED <<now, bal, config, policy, claim, pool>>

\* update_premium_rates, update_coverage_limits, update_fraud_params, set_paused
UpdateConfig(c) ==
  /\ Initialized
  /\ config' = [f \in DOMAIN config |-> IF f \in DOMAIN c THEN c[f] ELSE config[f]]
  /\ UNCHANGED <<now, bal, policy, claim, pool, fraud>>

Tick ==
  /\ now < MaxTime
  /\ now' = now + 1
  /\ UNCHANGED <<bal, config, policy, claim, pool, fraud>>

Next ==
  \/ Initialize
  \/ \E u \in Users :
       \/ \E type \in CoverageType, coverage \in Coverages, period \in Periods :
            PurchasePolicy(u, type, coverage, period)
       \/ \E period \in Periods : RenewPolicy(u, period)
       \/ CancelPolicy(u)
       \/ \E asset \in {"NFT", "Token"}, n \in Amounts : SubmitClaim(u, asset, n)
       \/ \E flag \in BOOLEAN : FlagUser(u, flag)
  \/ \E id \in DOMAIN claim :
       \/ \E ok \in BOOLEAN, n \in Amounts : ReviewClaim(id, ok, n)
       \/ ProcessPayout(id)
  \/ \E n \in Amounts : AddToPool(n) \/ WithdrawFromPool(n)
  \/ EmergencyWithdraw
  \/ \E c \in Rates \cup Limits \cup FraudParams \cup [{"paused"} -> BOOLEAN] : UpdateConfig(c)
  \/ Tick

Spec == Init /\ [][Next]_vars

-----------------------------------------------------------------------------
\* PremiumPool is what the contract holds after any mixture of premiums,
\* refunds, payouts and withdrawals, and the limits on claims see every claim
\* that they should: none of a user's recent claims is missing from those
\* that are kept, which are pruned with each new claim.
PoolAndLimits ==
  /\ pool = bal[Self]
  /\ \A i \in DOMAIN claim :
       LET f == fraud[claim[i].policy_owner]
       IN /\ claim[i].submission_time <= f.last_claim_time
          /\ claim[i].submission_time >= now - FRAUD_LOOKBACK_PERIOD
               => i \in f.recent_claims

=============================================================================
