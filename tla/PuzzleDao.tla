----------------------------- MODULE PuzzleDao -----------------------------
(***************************************************************************)
(* The DAO of puzzle makers (contracts/puzzle_dao): members stake tokens,  *)
(* vote with the power of their stakes or delegate it, and a council signs *)
(* administrative actions.                                                 *)
(*                                                                         *)
(* A call is one action and its error paths are its guards: what execute   *)
(* and the signing of an expired action store before they panic is undone. *)
(* What a proposal calls matters when it is the token: the DAO is then the *)
(* caller and pays out of the stakes.                                      *)
(***************************************************************************)
EXTENDS Integers, Sequences, FiniteSets, TokenUnits

CONSTANTS
  Users, Self, None,
  Configs,                     \* what initialize is called with
  Stakes,                      \* what is staked at a time
  ACTIVE, PREMIUM, COUNCIL,    \* get_membership_thresholds
  Actions,                     \* the calls proposals make: [to, amount], 0 for other calls
  InitBalance,                 \* what each user has of the token
  MaxThreshold, ActionTtl,     \* what initialize_multisig is called with
  MaxProposals, MaxActions, MaxTime   \* bounds

VARIABLES
  now,         \* ledger timestamp
  bal,         \* balances of the token
  config,      \* DataKey::Config
  tier,        \* DataKey::Member(address): its tier, or None
  stake,       \* DataKey::TokenBalance
  power,       \* DataKey::VotingPower, which can become negative
  delegatee,   \* DataKey::Delegation, oneself when there is none
  proposal,    \* DataKey::Proposal(id), ids from 1 on
  voted,       \* DataKey::Vote(id, voter)
  multisig,    \* DataKey::MultisigConfig: the threshold
  action       \* DataKey::AdminAction(id), ids from 1 on

vars == <<now, bal, config, tier, stake, power, delegatee, proposal, voted, multisig, action>>
members == <<tier, stake, power, delegatee>>
ballots == <<proposal, voted>>
council == <<multisig, action>>

Supply == Cardinality(Users) * InitBalance

Init ==
  /\ now = 0
  /\ bal = [a \in Users \cup {Self} |-> IF a = Self THEN 0 ELSE InitBalance]
  /\ config = None
  /\ tier = [u \in Users |-> None]
  /\ stake = [u \in Users |-> 0]
  /\ power = [u \in Users |-> 0]
  /\ delegatee = [u \in Users |-> u]
  /\ proposal = <<>> /\ voted = {}
  /\ multisig = None /\ action = <<>>

Transfer(from, to, n) ==
  /\ bal[from] >= n
  /\ bal' = [bal EXCEPT ![from] = @ - n, ![to] = @ + n]

Initialize(c) ==
  /\ config = None
  /\ config' = c
  /\ UNCHANGED <<now, bal, members, ballots, council>>

-----------------------------------------------------------------------------
(***************************************************************************)
(* Membership.                                                             *)
(***************************************************************************)
TierOf(amount) ==
  CASE amount >= COUNCIL -> "Council"
    [] amount >= PREMIUM /\ amount < COUNCIL -> "Premium"
    [] amount >= ACTIVE /\ amount < PREMIUM -> "Active"
    [] OTHER -> "Basic"

\* The stake and the power of m become amount, whatever was delegated.
Staked(m, amount) ==
  /\ tier' = [tier EXCEPT ![m] = TierOf(amount)]
  /\ stake' = [stake EXCEPT ![m] = amount]
  /\ power' = [power EXCEPT ![m] = amount]
  /\ UNCHANGED delegatee

JoinDao(m, amount) ==
  /\ config # None /\ tier[m] = None
  /\ Transfer(m, Self, amount)
  /\ Staked(m, amount)
  /\ UNCHANGED <<now, config, ballots, council>>

UpgradeMembership(m, amount) ==
  /\ tier[m] # None
  /\ Transfer(m, Self, amount)
  /\ Staked(m, stake[m] + amount)
  /\ UNCHANGED <<now, config, ballots, council>>

\* leave_dao: the power delegated to m is removed with m's own
LeaveDao(m) ==
  /\ tier[m] # None
  /\ Transfer(Self, m, stake[m])
  /\ tier' = [tier EXCEPT ![m] = None]
  /\ stake' = [stake EXCEPT ![m] = 0]
  /\ power' = [[power EXCEPT ![delegatee[m]] = @ - stake[m]] EXCEPT ![m] = 0]
  /\ delegatee' = [delegatee EXCEPT ![m] = m]
  /\ UNCHANGED <<now, config, ballots, council>>

\* delegate, by members and others; a non-member's delegation waits for a stake
Delegate(u, to) ==
  /\ delegatee[u] # to
  /\ power' = [[power EXCEPT ![delegatee[u]] = @ - stake[u]] EXCEPT ![to] = @ + stake[u]]
  /\ delegatee' = [delegatee EXCEPT ![u] = to]
  /\ UNCHANGED <<now, bal, config, tier, stake, ballots, council>>

-----------------------------------------------------------------------------
(***************************************************************************)
(* Proposals.                                                              *)
(***************************************************************************)
Threshold(emergency) ==
  IF emergency THEN config.proposal_threshold \div 2 ELSE config.proposal_threshold

QuorumPercentage(emergency) ==
  IF emergency THEN config.emergency_quorum_percentage ELSE config.quorum_percentage

Propose(p, emergency, call) ==
  LET start == now + config.voting_delay
  IN /\ Len(proposal) < MaxProposals
     /\ tier[p] # None
     /\ power[p] >= Threshold(emergency)
     /\ proposal' = Append(proposal,
          [proposer |-> p, call |-> call, emergency |-> emergency, status |-> "Pending",
           start_time |-> start, end_time |-> start + config.voting_period,
           for_votes |-> 0, against_votes |-> 0, abstain_votes |-> 0,
           quorum |-> (Supply * QuorumPercentage(emergency)) \div 100])
     /\ UNCHANGED <<now, bal, config, members, voted, council>>

Tally(r, type, n) ==
  CASE type = "For" -> [r EXCEPT !.for_votes = @ + n]
    [] type = "Against" -> [r EXCEPT !.against_votes = @ + n]
    [] type = "Abstain" -> [r EXCEPT !.abstain_votes = @ + n]

\* vote, which can be called for a canceled proposal
Vote(v, id, type) ==
  LET r == proposal[id]
  IN /\ tier[v] # None
     /\ now >= r.start_time /\ now <= r.end_time
     /\ <<id, v>> \notin voted
     /\ power[v] # 0
     /\ proposal' = [proposal EXCEPT ![id] =
          [Tally(r, type, power[v]) EXCEPT !.status = IF @ = "Pending" THEN "Active" ELSE @]]
     /\ voted' = voted \cup {<<id, v>>}
     /\ UNCHANGED <<now, bal, config, members, council>>

Passed(r) ==
  /\ r.for_votes + r.against_votes + r.abstain_votes >= r.quorum
  /\ r.for_votes > r.against_votes

\* What a proposal calls: a payment by the DAO, or something else.
Call(c) == IF c.amount > 0 THEN Transfer(Self, c.to, c.amount) ELSE UNCHANGED bal

\* Mutated form: only a second execution is refused.
ExecuteUnexecuted(id) ==
  /\ now > proposal[id].end_time
  /\ proposal[id].status # "Executed"
  /\ Passed(proposal[id])
  /\ Call(proposal[id].call)
  /\ proposal' = [proposal EXCEPT ![id].status = "Executed"]
  /\ UNCHANGED <<now, config, members, voted, council>>

\* execute, by anybody
Execute(id) ==
  LET r == proposal[id]
  IN /\ now > r.end_time
     /\ r.status \notin {"Executed", "Canceled"}
     /\ Passed(r)
     /\ ~r.emergency => now >= r.end_time + config.execution_delay
     /\ Call(r.call)
     /\ proposal' = [proposal EXCEPT ![id].status = "Executed"]
     /\ UNCHANGED <<now, config, members, voted, council>>

\* cancel, by the proposer; the status is not looked at
Cancel(id) ==
  /\ now < proposal[id].start_time
  /\ proposal' = [proposal EXCEPT ![id].status = "Canceled"]
  /\ UNCHANGED <<now, bal, config, members, voted, council>>

-----------------------------------------------------------------------------
(***************************************************************************)
(* Administrative actions, which only record that they were executed.      *)
(***************************************************************************)
\* initialize_multisig, by whoever calls it first
InitializeMultisig(threshold) ==
  /\ multisig = None
  /\ multisig' = threshold
  /\ UNCHANGED <<now, bal, config, members, ballots, action>>

OnCouncil(u) == tier[u] = "Council"

\* propose_admin_action: pending even when the proposer's signature is enough
ProposeAdminAction(p) ==
  /\ Len(action) < MaxActions
  /\ OnCouncil(p) /\ multisig # None
  /\ action' = Append(action, [status |-> "Pending", expires_at |-> now + ActionTtl, signers |-> {p}])
  /\ UNCHANGED <<now, bal, config, members, ballots, multisig>>

SignAdminAction(s, id) ==
  LET signers == action[id].signers \cup {s}
      enough == Cardinality(signers) >= multisig
  IN /\ OnCouncil(s)
     /\ action[id].status = "Pending"
     /\ now <= action[id].expires_at
     /\ s \notin action[id].signers
     /\ action' = [action EXCEPT ![id] = [action[id] EXCEPT !.signers = signers,
                     !.status = IF enough THEN "Approved" ELSE @]]
     /\ UNCHANGED <<now, bal, config, members, ballots, multisig>>

\* Mutated form: what is not rejected is approved.
ExecuteUnrejected(e, id) ==
  /\ OnCouncil(e)
  /\ action[id].status # "Rejected"
  /\ now <= action[id].expires_at
  /\ action' = [action EXCEPT ![id].status = "Executed"]
  /\ UNCHANGED <<now, bal, config, members, ballots, multisig>>

ExecuteAdminAction(e, id) ==
  /\ OnCouncil(e)
  /\ action[id].status = "Approved"
  /\ now <= action[id].expires_at
  /\ action' = [action EXCEPT ![id].status = "Executed"]
  /\ UNCHANGED <<now, bal, config, members, ballots, multisig>>

Tick ==
  /\ now < MaxTime
  /\ now' = now + 1
  /\ UNCHANGED <<bal, config, members, ballots, council>>

Next ==
  \/ \E c \in Configs : Initialize(c)
  \/ \E u \in Users, n \in Stakes : JoinDao(u, n) \/ UpgradeMembership(u, n)
  \/ \E u \in Users : LeaveDao(u)
  \/ \E u, v \in Users : Delegate(u, v)
  \/ \E u \in Users, emergency \in BOOLEAN, c \in Actions : Propose(u, emergency, c)
  \/ \E id \in DOMAIN proposal :
       \/ \E u \in Users, type \in {"For", "Against", "Abstain"} : Vote(u, id, type)
       \/ Execute(id) \/ Cancel(id)
  \/ \E n \in 1 .. MaxThreshold : InitializeMultisig(n)
  \/ \E u \in Users : ProposeAdminAction(u)
  \/ \E u \in Users, id \in DOMAIN action : SignAdminAction(u, id) \/ ExecuteAdminAction(u, id)
  \/ Tick

Spec == Init /\ [][Next]_vars

-----------------------------------------------------------------------------
\* The DAO holds the stakes of its members except what proposals that were
\* executed paid out of them, and an administrative action is approved and
\* executed with as many signatures as the council agreed on, although members
\* leave, come back and change their tiers meanwhile.
StakesAndSignatures ==
  LET paid == {id \in DOMAIN proposal : proposal[id].status = "Executed"}
  IN /\ bal[Self] = Total(stake) - Total([id \in paid |-> proposal[id].call.amount])
     /\ \A id \in DOMAIN action :
          action[id].status \in {"Approved", "Executed"}
            => Cardinality(action[id].signers) >= multisig

D == INSTANCE Decisions WITH
       Case <- 1 .. MaxProposals, Open <- {"Pending", "Active"},
       Outcome <- {"Executed", "Canceled"},
       state <- [id \in 1 .. MaxProposals |->
                   IF id \in DOMAIN proposal THEN proposal[id].status ELSE "none"]

\* A proposal is executed or canceled, once, whatever the members do; that
\* cancel does not look at the status relies on the times of the voting.
DecidedOnce == D!Spec

=============================================================================
