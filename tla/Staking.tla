------------------------------ MODULE Staking ------------------------------
(***************************************************************************)
(* Staking by tiers (contracts/staking): stakes earn a yearly reward that  *)
(* depends on their tier, out of a pool that the administrator fills, and  *)
(* leave with a penalty when they leave early.                             *)
(*                                                                         *)
(* A call is one action and its error paths are its guards.  Stakes and    *)
(* rewards are of one token, as the code allows: nothing but its numbers   *)
(* keeps them apart.  Two variables are there for the properties alone:    *)
(* the rewards that were paid, and what was staked, second by second.      *)
(***************************************************************************)
EXTENDS Integers, FiniteSets, TokenUnits

CONSTANTS
  Stakers, Self, Admin, None,
  Amounts,
  DEFAULT_CONFIG,       \* the configuration that initialize stores
  Apys,                 \* [base, bronze, silver, gold] that update_apy_config is called with
  Thresholds,           \* [bronze, silver, gold] of update_tier_thresholds
  Params,               \* [lock, early, emergency] of update_staking_params
  BASIS_POINTS, YEAR,
  InitBalance,          \* what each staker and the administrator have
  MaxStake, MaxTime     \* bounds

VARIABLES
  now,             \* ledger timestamp
  bal,             \* balances of the token
  config,          \* DataKey::Config
  info,            \* DataKey::StakerInfo(staker)
  stakers,         \* DataKey::StakersList
  total_staked,    \* DataKey::TotalStaked
  reward_pool,     \* DataKey::RewardPool
  paid_out,        \* the rewards that each staker claimed
  stake_time       \* what each of them had staked, added up over the seconds

vars == <<now, bal, config, info, stakers, total_staked, reward_pool, paid_out, stake_time>>
books == <<paid_out, stake_time>>

Empty == [staked |-> 0, staked_at |-> 0, claimed_at |-> 0, accumulated |-> 0, tier |-> "None"]

Init ==
  /\ now = 0
  /\ bal = [a \in Stakers \cup {Self, Admin} |-> IF a = Self THEN 0 ELSE InitBalance]
  /\ config = None
  /\ info = [p \in Stakers |-> None]
  /\ stakers = {} /\ total_staked = 0 /\ reward_pool = 0
  /\ paid_out = [p \in Stakers |-> 0] /\ stake_time = [p \in Stakers |-> 0]

Transfer(from, to, n) ==
  /\ bal[from] >= n /\ n >= 0
  /\ bal' = [bal EXCEPT ![from] = @ - n, ![to] = @ + n]

-----------------------------------------------------------------------------
(***************************************************************************)
(* Administration.  Rewards that have accrued are not settled before the   *)
(* rates change, and the tiers not before the next stake.                  *)
(***************************************************************************)
Initialize ==
  /\ config = None
  /\ config' = DEFAULT_CONFIG
  /\ UNCHANGED <<now, bal, info, stakers, total_staked, reward_pool, books>>

Initialized == config # None

UpdateApyConfig(a) ==
  /\ Initialized
  /\ config' = [config EXCEPT !.apy = a]
  /\ UNCHANGED <<now, bal, info, stakers, total_staked, reward_pool, books>>

UpdateTierThresholds(t) ==
  /\ Initialized
  /\ config' = [config EXCEPT !.thresholds = t]
  /\ UNCHANGED <<now, bal, info, stakers, total_staked, reward_pool, books>>

UpdateStakingParams(p) ==
  /\ Initialized
  /\ config' = [config EXCEPT !.params = p]
  /\ UNCHANGED <<now, bal, info, stakers, total_staked, reward_pool, books>>

SetPaused(p) ==
  /\ Initialized
  /\ config' = [config EXCEPT !.paused = p]
  /\ UNCHANGED <<now, bal, info, stakers, total_staked, reward_pool, books>>

AddRewards(n) ==
  /\ Initialized
  /\ Transfer(Admin, Self, n)
  /\ reward_pool' = reward_pool + n
  /\ UNCHANGED <<now, config, info, stakers, total_staked, books>>

-----------------------------------------------------------------------------
(***************************************************************************)
(* Stakes and rewards.                                                     *)
(***************************************************************************)
CalculateTier(n) ==
  LET t == config.thresholds
  IN IF n >= t.gold THEN "Gold" ELSE IF n >= t.silver THEN "Silver"
     ELSE IF n >= t.bronze THEN "Bronze" ELSE "None"

GetApyForTier(tier) ==
  LET a == config.apy
  IN a.base + (CASE tier = "None" -> 0 [] tier = "Bronze" -> a.bronze
                 [] tier = "Silver" -> a.silver [] tier = "Gold" -> a.gold)

\* calculate_pending_rewards, rounded down twice
CalculatePendingRewards(i) ==
  (((i.staked * GetApyForTier(i.tier)) \div BASIS_POINTS) * (now - i.claimed_at)) \div YEAR

Open == Initialized /\ ~config.paused

\* The stake becomes n, and what it earned until now is kept.
Settled(i, n) ==
  [i EXCEPT !.accumulated = @ + CalculatePendingRewards(i), !.staked = n,
            !.claimed_at = now, !.tier = CalculateTier(n)]

Stake(p, n) ==
  LET old == IF info[p] = None THEN [Empty EXCEPT !.claimed_at = now] ELSE info[p]
  IN /\ Open
     /\ old.staked + n <= MaxStake
     /\ Transfer(p, Self, n)
     /\ info' = [info EXCEPT ![p] = [Settled(old, old.staked + n) EXCEPT !.staked_at = now]]
     /\ stakers' = stakers \cup {p}
     /\ total_staked' = total_staked + n
     /\ UNCHANGED <<now, config, reward_pool, books>>

Penalty(n, bps) == (n * bps) \div BASIS_POINTS

Unstake(p, n) ==
  LET early == info[p] # None /\ now - info[p].staked_at < config.params.lock
      penalty == IF early THEN Penalty(n, config.params.early) ELSE 0
  IN /\ Open
     /\ info[p] # None
     /\ info[p].staked >= n
     /\ info' = [info EXCEPT ![p] = Settled(@, @.staked - n)]
     /\ Transfer(Self, p, n - penalty)
     /\ total_staked' = total_staked - n
     /\ stakers' = IF info[p].staked = n THEN stakers \ {p} ELSE stakers
     /\ UNCHANGED <<now, config, reward_pool, books>>

\* Mutated form: the time of the last claim stays.
ClaimRewardsUntimed(p) ==
  LET total == info[p].accumulated + CalculatePendingRewards(info[p])
  IN /\ Open
     /\ info[p] # None
     /\ total > 0 /\ reward_pool >= total
     /\ info' = [info EXCEPT ![p].accumulated = 0]
     /\ reward_pool' = reward_pool - total
     /\ Transfer(Self, p, total)
     /\ paid_out' = [paid_out EXCEPT ![p] = @ + total]
     /\ UNCHANGED <<now, config, stakers, total_staked, stake_time>>

ClaimRewards(p) ==
  LET total == info[p].accumulated + CalculatePendingRewards(info[p])
  IN /\ Open
     /\ info[p] # None
     /\ total > 0 /\ reward_pool >= total
     /\ info' = [info EXCEPT ![p] = [@ EXCEPT !.accumulated = 0, !.claimed_at = now]]
     /\ reward_pool' = reward_pool - total
     /\ Transfer(Self, p, total)
     /\ paid_out' = [paid_out EXCEPT ![p] = @ + total]
     /\ UNCHANGED <<now, config, stakers, total_staked, stake_time>>

\* emergency_withdraw, also when paused; the rewards are lost
EmergencyWithdraw(p) ==
  /\ info[p] # None
  /\ info[p].staked > 0
  /\ info' = [info EXCEPT ![p] = Empty]
  /\ Transfer(Self, p, info[p].staked - Penalty(info[p].staked, config.params.emergency))
  /\ total_staked' = total_staked - info[p].staked
  /\ stakers' = stakers \ {p}
  /\ UNCHANGED <<now, config, reward_pool, books>>

StakedBy(p) == IF info[p] = None THEN 0 ELSE info[p].staked

Tick ==
  /\ now < MaxTime
  /\ now' = now + 1
  /\ stake_time' = [p \in Stakers |-> stake_time[p] + StakedBy(p)]
  /\ UNCHANGED <<bal, config, info, stakers, total_staked, reward_pool, paid_out>>

Next ==
  \/ Initialize
  \/ \E a \in Apys : UpdateApyConfig(a)
  \/ \E t \in Thresholds : UpdateTierThresholds(t)
  \/ \E p \in Params : UpdateStakingParams(p)
  \/ \E p \in BOOLEAN : SetPaused(p)
  \/ \E n \in Amounts : AddRewards(n)
  \/ \E p \in Stakers, n \in Amounts : Stake(p, n) \/ Unstake(p, n)
  \/ \E p \in Stakers : ClaimRewards(p) \/ EmergencyWithdraw(p)
  \/ Tick

Spec == Init /\ [][Next]_vars

-----------------------------------------------------------------------------
\* The yearly rates that there can be, whatever the administrator sets.
Rates ==
  UNION {{a.base, a.base + a.bronze, a.base + a.silver, a.base + a.gold} :
           a \in Apys \cup {DEFAULT_CONFIG.apy}}
BestRate == CHOOSE r \in Rates : \A q \in Rates : q <= r

\* What p has earned: paid, kept and accrued rewards.
Earned(p) ==
  paid_out[p] + (IF info[p] = None THEN 0
                 ELSE info[p].accumulated + CalculatePendingRewards(info[p]))

\* Stakes and rewards are both there, although they are of one token and
\* penalties stay, the total and the list are those of the stakes, and no time
\* is rewarded twice: in whatever order a staker stakes, unstakes and claims,
\* the rewards paid and due together are no more than the best rate gives for
\* what was staked, for the time that it was staked.
StakesAndRewards ==
  LET there == {p \in Stakers : info[p] # None}
  IN /\ bal[Self] >= total_staked + reward_pool
     /\ total_staked = Total([p \in there |-> info[p].staked])
     /\ stakers = {p \in there : info[p].staked > 0}
     /\ \A p \in Stakers : Earned(p) <= (BestRate * stake_time[p]) \div (BASIS_POINTS * YEAR)

=============================================================================
