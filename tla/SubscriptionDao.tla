--------------------------- MODULE SubscriptionDao ---------------------------
(***************************************************************************)
(* The subscription DAO (contracts/subscription_dao): the revenue of a     *)
(* period is shared equally among the players who took part in it.  The    *)
(* contract only keeps accounts and returns the share of the player who    *)
(* claims it; the tokens are moved outside of it.                          *)
(*                                                                         *)
(* As in MultisigEscrow a call is one action and its error paths are its   *)
(* guards.  snapshot_at is never read and is left out.  returned is not in *)
(* the code: it keeps, for the property, what the claims of a period       *)
(* returned.                                                               *)
(***************************************************************************)
EXTENDS Integers, Sequences, FiniteSets, TokenUnits

CONSTANTS
  Addr,         \* players and other accounts
  Self,         \* the address of the contract
  Token,        \* token contracts
  Governance,   \* the governance token, of which a player must hold some
  Players,      \* the players whose participation is recorded
  Amounts,      \* the amounts that deposit_revenue is called with
  MaxPeriods,   \* bound on the number of periods
  MaxPool       \* bound on the revenue of a period

Account == Addr \cup {Self}
Periods == 1 .. MaxPeriods

VARIABLES
  bal,              \* token balances, kept by the token contracts
  currentPeriodId,  \* DataKey::CurrentPeriodId, 0 before initialize
  pool,             \* DataKey::RevenuePool(period)
  participation,    \* DataKey::Participation(period, player)
  claims,           \* DataKey::Claim(period, player)
  returned          \* period -> the sum of the shares that its claims returned

vars == <<bal, currentPeriodId, pool, participation, claims, returned>>

NoPool == [balance |-> 0, eligible_participants |-> <<>>, distributed |-> FALSE]

Init ==
  /\ bal \in [Token -> [Account -> Nat]]
  /\ currentPeriodId = 0
  /\ pool = [p \in Periods |-> NoPool]
  /\ participation = [p \in Periods |-> {}]
  /\ claims = [p \in Periods |-> {}]
  /\ returned = [p \in Periods |-> 0]

\* initialize
Initialize ==
  /\ currentPeriodId = 0
  /\ currentPeriodId' = 1
  /\ pool' = [pool EXCEPT ![1] = NoPool]
  /\ UNCHANGED <<bal, participation, claims, returned>>

\* deposit_revenue: the current period is never distributed, because
\* close_period opens the next one
DepositRevenue(amount) ==
  /\ currentPeriodId # 0
  /\ amount > 0
  /\ ~pool[currentPeriodId].distributed
  /\ pool[currentPeriodId].balance + amount <= MaxPool
  /\ pool' = [pool EXCEPT ![currentPeriodId].balance = @ + amount]
  /\ UNCHANGED <<bal, currentPeriodId, participation, claims, returned>>

\* Mutated form: the participation of an earlier period counts.
RecordParticipationOnce(player) ==
  /\ currentPeriodId # 0
  /\ participation' = [participation EXCEPT ![currentPeriodId] = @ \cup {player}]
  /\ IF \E p \in Periods : player \in participation[p] THEN UNCHANGED pool
     ELSE pool' = [pool EXCEPT ![currentPeriodId].eligible_participants = Append(@, player)]
  /\ UNCHANGED <<bal, currentPeriodId, claims, returned>>

\* record_participation: a second record of a player is ignored
RecordParticipation(player) ==
  /\ currentPeriodId # 0
  /\ ~pool[currentPeriodId].distributed
  /\ player \notin participation[currentPeriodId]
  /\ participation' = [participation EXCEPT ![currentPeriodId] = @ \cup {player}]
  /\ pool' = [pool EXCEPT ![currentPeriodId].eligible_participants = Append(@, player)]
  /\ UNCHANGED <<bal, currentPeriodId, claims, returned>>

\* close_period, called by the admin
ClosePeriod ==
  /\ currentPeriodId # 0
  /\ currentPeriodId < MaxPeriods
  /\ ~pool[currentPeriodId].distributed
  /\ pool' = [pool EXCEPT ![currentPeriodId].distributed = TRUE, ![currentPeriodId + 1] = NoPool]
  /\ currentPeriodId' = currentPeriodId + 1
  /\ UNCHANGED <<bal, participation, claims, returned>>

\* The share of everybody who took part in period p.
Share(p) == pool[p].balance \div Len(pool[p].eligible_participants)

\* claim_period_share, called by the player, who must hold governance tokens
\* when it claims; the share is returned, and paid outside of the contract
ClaimPeriodShare(p, player) ==
  /\ currentPeriodId # 0
  /\ pool[p].distributed
  /\ player \notin claims[p]
  /\ player \in participation[p]
  /\ bal[Governance][player] > 0
  /\ pool[p].eligible_participants # <<>>
  /\ claims' = [claims EXCEPT ![p] = @ \cup {player}]
  /\ returned' = [returned EXCEPT ![p] = @ + Share(p)]
  /\ UNCHANGED <<bal, currentPeriodId, pool, participation>>

\* token::Client::transfer: the balances b after moving one unit.
Moved(b, from, to) == [[b EXCEPT ![from] = @ - 1] EXCEPT ![to] = @ + 1]

\* The governance tokens move between players at any time.
HandOver(from, to) ==
  /\ bal[Governance][from] > 0
  /\ bal' = [bal EXCEPT ![Governance] = Moved(@, from, to)]
  /\ UNCHANGED <<currentPeriodId, pool, participation, claims, returned>>

Next ==
  \/ Initialize
  \/ \E m \in Amounts : DepositRevenue(m)
  \/ \E player \in Players :
       \/ RecordParticipation(player)
       \/ \E p \in Periods : ClaimPeriodShare(p, player)
  \/ ClosePeriod
  \/ \E from, to \in Players : HandOver(from, to)

-----------------------------------------------------------------------------
\* What the claims of a period returned, with the shares of the players whose
\* participation is recorded and who have not claimed yet, is within the revenue
\* recorded for the period: however the governance tokens go around, nobody's
\* claim leaves less than a share for a later one, although the list that the
\* share is computed from, the records that admit a player and those of the
\* claims are kept apart.
ClaimsCovered ==
  \A p \in Periods : pool[p].eligible_participants # <<>> =>
    returned[p] + Cardinality(participation[p] \ claims[p]) * Share(p) <= pool[p].balance

=============================================================================
