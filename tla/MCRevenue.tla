------------------------------ MODULE MCRevenue ------------------------------
(***************************************************************************)
(* Instance for TLC of the contracts that divide revenue.  Each behaviour  *)
(* runs one of them, chosen in the initial state, by the same clock: the   *)
(* revenue share agreements, the royalty distribution or the subscription  *)
(* DAO.  Shares are counted in quarters.                                   *)
(***************************************************************************)
EXTENDS RevenueShare

CONSTANTS maker, ann, bob, fan, gold,
          Royalty, Governance, Creators, Players, RoyaltyShares, RoyaltyBalance,
          MAX_RECIPIENTS, EMERGENCY_TIMELOCK, MaxPeriods, MaxPool

ASSUME DivisionAssumption ==
  /\ Royalty \in Token /\ Governance \in Token
  /\ Creators \subseteq Addr /\ Players \subseteq Addr /\ RoyaltyShares \subseteq Int
  /\ RoyaltyBalance \in Nat /\ MAX_RECIPIENTS \in Nat /\ EMERGENCY_TIMELOCK \in Nat
  /\ MaxPeriods \in Nat \ {0} /\ MaxPool \in Nat

VARIABLES
  contract,              \* which one runs
  royaltyBal, holdings,  \* the token balances around the other two
  configured, requestedAt, recipients, recipientIndex, pendingBalance,
  currentPeriodId, pool, participation, claims, returned

Royalties == INSTANCE RoyaltyDistribution WITH bal <- royaltyBal, InitBalance <- RoyaltyBalance
Dao == INSTANCE SubscriptionDao WITH bal <- holdings

revenueVars == <<bal, admin, counter, agreement, beneficiaryTotal>>
royaltyVars == <<royaltyBal, configured, requestedAt, recipients, recipientIndex, pendingBalance>>
daoVars == <<holdings, currentPeriodId, pool, participation, claims, returned>>
allVars == <<contract, now, revenueVars, royaltyVars, daoVars>>

MCInit ==
  /\ contract \in {"revenue_share", "royalty_distribution", "subscription_dao"}
  /\ holdings = [t \in Token |-> [a \in Account |-> IF a = ann THEN 1 ELSE 0]]
  /\ Init /\ Royalties!Init /\ Dao!Init

RevenueStep(A) == contract = "revenue_share" /\ A /\ UNCHANGED <<contract, royaltyVars, daoVars>>

MCNext ==
  \/ RevenueStep(Next)
  \/ /\ contract = "royalty_distribution" /\ Royalties!Next
     /\ UNCHANGED <<contract, revenueVars, daoVars>>
  \/ /\ contract = "subscription_dao" /\ Dao!Next
     /\ UNCHANGED <<contract, now, revenueVars, royaltyVars>>

MCSpec ==
  /\ MCInit /\ [][MCNext]_allVars
  /\ WF_allVars(RevenueStep(Tick))
  /\ \A id \in Ids : WF_allVars(RevenueStep(SettleDistribution(id)))

-----------------------------------------------------------------------------
Part(a, bps) == [address |-> a, basis_points |-> bps]

MCTerm(split, period, clawback, deadline) ==
  [owner |-> maker, token |-> gold, beneficiaries |-> split, period |-> period,
   clawback_enabled |-> clawback, clawback_deadline |-> deadline]

MCTerms ==
  { MCTerm(<<Part(ann, 1), Part(bob, 3)>>, 1, TRUE, 1),
    MCTerm(<<Part(ann, 1), Part(ann, 1)>>, 1, FALSE, 0),
    MCTerm(<<Part(ann, 3), Part(bob, 2)>>, 1, FALSE, 0),
    MCTerm(<<>>, 0, FALSE, 0) }

MCChanges ==
  { [beneficiaries |-> <<Part(bob, 3)>>, period |-> 1],
    [beneficiaries |-> <<Part(bob, 1), Part(maker, 2)>>, period |-> 0],
    [beneficiaries |-> <<Part(bob, 0)>>, period |-> 1] }

-----------------------------------------------------------------------------
\* royalty_distribution: what the contract holds beyond what is pending for
\* its recipients changes by a timelocked emergency withdrawal only.
RoyaltiesKept == Royalties!Kept

\* royalty_distribution: the index of the recipients agrees with their list
\* after any sequence of additions and removals.
RecipientsIndexed == Royalties!Indexed

\* subscription_dao: what the claims of a period returned and what may still be
\* claimed of it is within the revenue recorded for it.
ClaimsCovered == Dao!ClaimsCovered
=============================================================================
