------------------------- MODULE PuzzlePoolStaking -------------------------
(***************************************************************************)
(* Staking with rewards of epochs (contracts/puzzle_pool_staking): stakes  *)
(* are locked for a while, an oracle records what players solve, and the   *)
(* administrator closes epochs with a budget that stakers and solvers      *)
(* share.                                                                  *)
(*                                                                         *)
(* A call is one action and its error paths are its guards.  The staking   *)
(* token and the reward token are two tokens.                              *)
(***************************************************************************)
EXTENDS Integers, FiniteSets, TokenUnits

CONSTANTS
  Players, Self, None,
  Amounts, Difficulties, Budgets,
  STAKER_SHARE, SOLVER_SHARE, BASIS_POINTS,
  Shares,             \* the staker's shares that update_yield_shares is called with
  LOCK_PERIOD, EPOCH, \* lock_period and epoch_duration
  InitBalance,        \* what each player has of the staking token
  MaxFunds, MaxSolves, MaxEpochs, MaxTime   \* bounds

VARIABLES
  now,             \* ledger timestamp
  bal,             \* balances of the staking token
  funds,           \* the contract's balance of the reward token
  config,          \* DataKey::Config
  position,        \* DataKey::StakePosition(player)
  total_staked,    \* DataKey::TotalStaked
  stakers,         \* DataKey::StakersList
  epoch,           \* DataKey::Epoch(id)
  current,         \* DataKey::CurrentEpochId
  solves,          \* DataKey::PlayerSolves(player, epoch)
  claimed          \* DataKey::ClaimedReward(player, epoch)

vars == <<now, bal, funds, config, position, total_staked, stakers, epoch, current, solves, claimed>>
stakes == <<bal, position, total_staked, stakers>>
epochs == <<epoch, current, solves>>

Epochs == 0 .. MaxEpochs

\* create_epoch
CreateEpoch(start) ==
  [start_at |-> start, end_at |-> start + EPOCH, total_solves |-> 0, total_staked |-> 0,
   reward_budget |-> 0, distributed |-> FALSE]

Init ==
  /\ now = 0
  /\ bal = [a \in Players \cup {Self} |-> IF a = Self THEN 0 ELSE InitBalance]
  /\ funds = 0
  /\ config = None
  /\ position = [p \in Players |-> None]
  /\ total_staked = 0 /\ stakers = {}
  /\ epoch = [e \in Epochs |-> None] /\ current = 0
  /\ solves = [p \in Players |-> [e \in Epochs |-> 0]]
  /\ claimed = {}

Transfer(from, to, n) ==
  /\ bal[from] >= n
  /\ bal' = [bal EXCEPT ![from] = @ - n, ![to] = @ + n]

-----------------------------------------------------------------------------
(***************************************************************************)
(* Administration.                                                         *)
(***************************************************************************)
Initialize ==
  /\ config = None
  /\ config' = [staker |-> STAKER_SHARE, solver |-> SOLVER_SHARE, paused |-> FALSE]
  /\ epoch' = [epoch EXCEPT ![0] = CreateEpoch(now)]
  /\ UNCHANGED <<now, funds, stakes, current, solves, claimed>>

Initialized == config # None
Open == Initialized /\ ~config.paused

UpdateYieldShares(s) ==
  /\ Initialized
  /\ config' = [config EXCEPT !.staker = s, !.solver = BASIS_POINTS - s]
  /\ UNCHANGED <<now, funds, stakes, epochs, claimed>>

SetPaused(p) ==
  /\ Initialized
  /\ config' = [config EXCEPT !.paused = p]
  /\ UNCHANGED <<now, funds, stakes, epochs, claimed>>

AddRewards(n) ==
  /\ Initialized /\ funds + n <= MaxFunds
  /\ funds' = funds + n
  /\ UNCHANGED <<now, config, stakes, epochs, claimed>>

-----------------------------------------------------------------------------
(***************************************************************************)
(* Stakes.                                                                 *)
(***************************************************************************)
Staked(p) == IF position[p] = None THEN 0 ELSE position[p].amount

\* stake, which locks the whole position again
Stake(p, n) ==
  /\ Open
  /\ Transfer(p, Self, n)
  /\ position' = [position EXCEPT ![p] =
       [amount |-> Staked(p) + n, staked_at |-> now,
        last_claim_epoch |-> IF position[p] = None THEN 0 ELSE position[p].last_claim_epoch]]
  /\ total_staked' = total_staked + n
  /\ stakers' = stakers \cup {p}
  /\ UNCHANGED <<now, funds, config, epochs, claimed>>

\* Mutated form: whoever unstakes something leaves the list.
UnstakeDelisted(p, n) ==
  /\ Open
  /\ position[p] # None
  /\ Staked(p) >= n
  /\ position' = [position EXCEPT ![p].amount = @ - n]
  /\ total_staked' = total_staked - n
  /\ Transfer(Self, p, n)
  /\ stakers' = stakers \ {p}
  /\ UNCHANGED <<now, funds, config, epochs, claimed>>

Unstake(p, n) ==
  /\ Open
  /\ position[p] # None
  /\ Staked(p) >= n
  /\ now - position[p].staked_at >= LOCK_PERIOD
  /\ position' = [position EXCEPT ![p].amount = @ - n]
  /\ total_staked' = total_staked - n
  /\ Transfer(Self, p, n)
  /\ stakers' = IF Staked(p) = n THEN stakers \ {p} ELSE stakers
  /\ UNCHANGED <<now, funds, config, epochs, claimed>>

-----------------------------------------------------------------------------
(***************************************************************************)
(* Epochs.                                                                 *)
(***************************************************************************)
RecordSolve(p, difficulty) ==
  /\ Open
  /\ now <= epoch[current].end_at
  /\ epoch[current].total_solves + difficulty <= MaxSolves
  /\ solves' = [solves EXCEPT ![p][current] = @ + difficulty]
  /\ epoch' = [epoch EXCEPT ![current].total_solves = @ + difficulty]
  /\ UNCHANGED <<now, funds, config, stakes, current, claimed>>

\* close_epoch; the budget need not be there
CloseEpoch(budget) ==
  LET e == epoch[current]
  IN /\ Open
     /\ current < MaxEpochs
     /\ now >= e.end_at /\ ~e.distributed
     /\ epoch' = [epoch EXCEPT
          ![current] = [@ EXCEPT !.reward_budget = budget, !.total_staked = total_staked,
                                 !.distributed = TRUE],
          ![current + 1] = CreateEpoch(e.end_at)]
     /\ current' = current + 1
     /\ UNCHANGED <<now, funds, config, stakes, solves, claimed>>

\* calculate_player_reward: by the stake of now, not that of the epoch
CalculatePlayerReward(p, id) ==
  LET e == epoch[id]
      solver == (e.reward_budget * config.solver) \div BASIS_POINTS
      staker == (e.reward_budget * config.staker) \div BASIS_POINTS
  IN (IF e.total_solves > 0 THEN (solver * solves[p][id]) \div e.total_solves ELSE 0)
     + (IF e.total_staked > 0 THEN (staker * Staked(p)) \div e.total_staked ELSE 0)

ClaimEpochReward(p, id) ==
  LET reward == CalculatePlayerReward(p, id)
  IN /\ Open
     /\ <<p, id>> \notin claimed
     /\ epoch[id] # None
     /\ epoch[id].distributed
     /\ reward > 0
     /\ claimed' = claimed \cup {<<p, id>>}
     /\ position' = [position EXCEPT ![p] =
          IF @ = None THEN @
          ELSE [position[p] EXCEPT !.last_claim_epoch = IF id > @ THEN id ELSE @]]
     /\ funds >= reward
     /\ funds' = funds - reward
     /\ UNCHANGED <<now, bal, config, total_staked, stakers, epochs>>

Tick ==
  /\ now < MaxTime
  /\ now' = now + 1
  /\ UNCHANGED <<funds, config, stakes, epochs, claimed>>

Next ==
  \/ Initialize
  \/ \E s \in Shares : UpdateYieldShares(s)
  \/ \E p \in BOOLEAN : SetPaused(p)
  \/ \E n \in Amounts : AddRewards(n)
  \/ \E p \in Players, n \in Amounts : Stake(p, n) \/ Unstake(p, n)
  \/ \E p \in Players, d \in Difficulties : RecordSolve(p, d)
  \/ \E b \in Budgets : CloseEpoch(b)
  \/ \E p \in Players, id \in Epochs : ClaimEpochReward(p, id)
  \/ Tick

Spec == Init /\ [][Next]_vars

-----------------------------------------------------------------------------
\* The contract holds what the positions say, the list names those who have a
\* stake, epochs follow each other without a gap, all but the last are closed,
\* and what players solved in an epoch adds up, also for solves that arrive
\* between the end of an epoch and its closing.
StakesAndEpochs ==
  /\ bal[Self] = total_staked
  /\ total_staked = Total([p \in Players |-> Staked(p)])
  /\ stakers = {p \in Players : Staked(p) > 0}
  /\ Initialized => \A e \in 0 .. current :
       /\ epoch[e].distributed = (e < current)
       /\ e > 0 => epoch[e].start_at = epoch[e - 1].end_at
       /\ epoch[e].total_solves = Total([p \in Players |-> solves[p][e]])
  /\ \A c \in claimed : c[2] < current

=============================================================================
