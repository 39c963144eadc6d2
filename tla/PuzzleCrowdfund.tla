-------------------------- MODULE PuzzleCrowdfund --------------------------
(***************************************************************************)
(* The crowdfunding campaigns (contracts/puzzle_crowdfund): backers pay    *)
(* into a campaign, which pays approved milestones to its creator if it    *)
(* reaches its goal and its backers back if it does not.                   *)
(*                                                                         *)
(* As in MultisigEscrow a call is one action and its error paths are its   *)
(* guards.  Names, times of events, the history of contributions and the   *)
(* marks on stretch goals, which the contract never reads, are left out.   *)
(***************************************************************************)
EXTENDS Integers, Sequences, FiniteSets, TokenUnits

CONSTANTS
  Addr,          \* accounts
  Self,          \* the address of the contract
  Token,         \* the token of the contract, in a set of its own
  Backers,       \* the accounts that contribute
  Plans,         \* the arguments that create_campaign is called with
  Amounts,       \* the amounts that are contributed
  InitBalance,   \* what every backer has at the start
  MaxCampaigns,  \* bound on the number of campaigns
  MaxTime        \* bound on the ledger timestamp

Account == Addr \cup {Self}
Ids == 1 .. MaxCampaigns
CampaignStatus == {"Active", "Successful", "Failed", "Completed"}

VARIABLES
  now,           \* ledger timestamp
  bal,           \* balances of the token
  initialized,   \* whether DataKey::Admin is there
  nextId,        \* DataKey::NextCampaignId
  campaign       \* DataKey::Campaign(id)

vars == <<now, bal, initialized, nextId, campaign>>

NoCampaign ==
  [exists |-> FALSE, amount_raised |-> 0, amount_claimed |-> 0, refunded_amount |-> 0,
   contributions |-> [b \in Backers |-> 0], refunded_backers |-> {}, milestones |-> <<>>,
   status |-> "Active"]

Init ==
  /\ now = 0
  /\ bal = [t \in Token |-> [a \in Account |-> IF a \in Backers THEN InitBalance ELSE 0]]
  /\ initialized = FALSE
  /\ nextId = 1
  /\ campaign = [id \in Ids |-> NoCampaign]

Transfer(from, to, amount) ==
  /\ \A t \in Token : bal[t][from] >= amount
  /\ bal' = [t \in Token |-> [bal[t] EXCEPT ![from] = @ - amount, ![to] = @ + amount]]

Initialize ==
  /\ ~initialized
  /\ initialized' = TRUE
  /\ nextId' = 1
  /\ UNCHANGED <<now, bal, campaign>>

\* The sum of what the payouts at the positions I come to.
Payouts(milestones, I) == Total([i \in I |-> milestones[i].payout_amount])

\* build_stretch_goals: above the goal and ascending
Ascending(goal, targets) ==
  \A i \in 1 .. Len(targets) : targets[i] > IF i = 1 THEN goal ELSE targets[i - 1]

\* max_target_from_inputs, of targets that ascend
MaxTarget(goal, targets) == IF targets = <<>> THEN goal ELSE targets[Len(targets)]

\* create_campaign, called by the creator
CreateCampaign(p) ==
  /\ initialized
  /\ nextId <= MaxCampaigns
  /\ p.goal_amount > 0 /\ p.deadline > now
  /\ Ascending(p.goal_amount, p.stretch_goals)
  /\ \A i \in 1 .. Len(p.payouts) : p.payouts[i] > 0
  /\ Total([i \in 1 .. Len(p.payouts) |-> p.payouts[i]])
       <= MaxTarget(p.goal_amount, p.stretch_goals)
  /\ nextId' = nextId + 1
  /\ campaign' = [campaign EXCEPT ![nextId] =
       [exists |-> TRUE, creator |-> p.creator, goal_amount |-> p.goal_amount,
        deadline |-> p.deadline, amount_raised |-> 0, amount_claimed |-> 0,
        refunded_amount |-> 0, status |-> "Active",
        contributions |-> [b \in Backers |-> 0], refunded_backers |-> {},
        milestones |-> [i \in 1 .. Len(p.payouts) |->
          [payout_amount |-> p.payouts[i], approved |-> FALSE, claimed |-> FALSE]]]]
  /\ UNCHANGED <<now, bal, initialized>>

\* refresh_campaign
Refreshed(c) ==
  LET over == now > c.deadline
      status ==
        IF c.amount_raised >= c.goal_amount
          THEN IF /\ over /\ c.amount_claimed = c.amount_raised
                  /\ \A i \in 1 .. Len(c.milestones) : c.milestones[i].claimed
                 THEN "Completed" ELSE "Successful"
          ELSE IF over THEN "Failed" ELSE "Active"
  IN [c EXCEPT !.status = status]

Save(id, c) == campaign' = [campaign EXCEPT ![id] = c]

\* contribute, called by the backer
Contribute(id, b, amount) ==
  LET c == Refreshed(campaign[id])
  IN /\ initialized /\ campaign[id].exists
     /\ amount > 0
     /\ now <= c.deadline
     /\ c.status \notin {"Failed", "Completed"}
     /\ Transfer(b, Self, amount)
     /\ Save(id, Refreshed([c EXCEPT !.contributions[b] = @ + amount,
                                     !.amount_raised = @ + amount]))
     /\ UNCHANGED <<now, initialized, nextId>>

\* approve_milestone, called by the administrator
ApproveMilestone(id, i) ==
  LET c == Refreshed(campaign[id])
  IN /\ initialized /\ campaign[id].exists
     /\ c.status = "Successful"
     /\ i \in 1 .. Len(c.milestones)
     /\ ~c.milestones[i].approved
     /\ Save(id, [c EXCEPT !.milestones[i].approved = TRUE])
     /\ UNCHANGED <<now, bal, initialized, nextId>>

\* claim_milestone, called by the creator
ClaimMilestone(id, i) ==
  LET c == Refreshed(campaign[id])
      payout == c.milestones[i].payout_amount
  IN /\ initialized /\ campaign[id].exists
     /\ c.status = "Successful"
     /\ i \in 1 .. Len(c.milestones)
     /\ c.milestones[i].approved /\ ~c.milestones[i].claimed
     /\ c.amount_claimed + payout <= c.amount_raised
     /\ Transfer(Self, c.creator, payout)
     /\ Save(id, Refreshed([c EXCEPT !.milestones[i].claimed = TRUE,
                                     !.amount_claimed = @ + payout]))
     /\ UNCHANGED <<now, initialized, nextId>>

\* Mutated form: every campaign whose deadline has passed refunds.
RefundAfterDeadline(id, b) ==
  LET c == campaign[id]
  IN /\ initialized /\ campaign[id].exists
     /\ c.status # "Completed" /\ now > c.deadline
     /\ c.contributions[b] > 0 /\ b \notin c.refunded_backers
     /\ Transfer(Self, b, c.contributions[b])
     /\ Save(id, [c EXCEPT !.refunded_backers = @ \cup {b},
                           !.refunded_amount = @ + c.contributions[b]])
     /\ UNCHANGED <<now, initialized, nextId>>

\* refund, called by the backer
Refund(id, b) ==
  LET c == Refreshed(campaign[id])
  IN /\ initialized /\ campaign[id].exists
     /\ c.status = "Failed"
     /\ c.contributions[b] > 0 /\ b \notin c.refunded_backers
     /\ Transfer(Self, b, c.contributions[b])
     /\ Save(id, [c EXCEPT !.refunded_backers = @ \cup {b},
                           !.refunded_amount = @ + c.contributions[b]])
     /\ UNCHANGED <<now, initialized, nextId>>

\* get_campaign and the getters that call it store the refreshed status.
GetCampaign(id) ==
  /\ campaign[id].exists
  /\ Save(id, Refreshed(campaign[id]))
  /\ UNCHANGED <<now, bal, initialized, nextId>>

Tick ==
  /\ now < MaxTime
  /\ now' = now + 1
  /\ UNCHANGED <<bal, initialized, nextId, campaign>>

Positions == UNION {1 .. Len(p.payouts) : p \in Plans}

Next ==
  \/ Initialize
  \/ \E p \in Plans : CreateCampaign(p)
  \/ \E id \in Ids :
       \/ \E b \in Backers : Refund(id, b) \/ \E n \in Amounts : Contribute(id, b, n)
       \/ \E i \in Positions : ApproveMilestone(id, i) \/ ClaimMilestone(id, i)
       \/ GetCampaign(id)
  \/ Tick

Spec == Init /\ [][Next]_vars

-----------------------------------------------------------------------------
Available(c) == c.amount_raised - c.amount_claimed - c.refunded_amount

C == INSTANCE Custody WITH
       Slot <- Ids,
       pool <- [t \in Token |-> bal[t][Self]],
       owed <- [t \in Token |-> [id \in Ids |-> Available(campaign[id])]]

\* The campaigns keep custody of the contributions: every step is a deposit
\* or a discharge of Custody, or a stutter.
Custodian == C!Spec

\* A campaign pays its creator or its backers back, never both: a campaign
\* that reached its goal refunds nobody, one that missed it pays no milestone.
\* Its totals are those of its backers and milestones: contributions, refunds
\* to backers who have been refunded, approved milestones that were claimed.
CampaignBooks ==
  \A id \in Ids :
    LET c == campaign[id]
        claimed == {i \in 1 .. Len(c.milestones) : c.milestones[i].claimed}
    IN /\ c.amount_claimed = 0 \/ c.refunded_amount = 0
       /\ c.refunded_amount > 0 => c.status = "Failed" /\ c.amount_raised < c.goal_amount
       /\ c.amount_raised = Total(c.contributions)
       /\ c.refunded_amount = Total([b \in c.refunded_backers |-> c.contributions[b]])
       /\ c.amount_claimed = Payouts(c.milestones, claimed)
       /\ c.amount_claimed + c.refunded_amount <= c.amount_raised
       /\ \A i \in claimed : c.milestones[i].approved

=============================================================================
