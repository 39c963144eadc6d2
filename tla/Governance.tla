----------------------------- MODULE Governance -----------------------------
(***************************************************************************)
(* Governance by deposits (contracts/governance): tokens are deposited for *)
(* voting power, which can be delegated, proposals are decided by votes    *)
(* and administrative actions by signatures.                               *)
(*                                                                         *)
(* A call is one action and its error paths are its guards: what execute   *)
(* and the signing of an expired action store before they panic is undone. *)
(* What a proposal calls matters when it is the token: the contract is     *)
(* then the caller and pays out of the deposits.                           *)
(***************************************************************************)
EXTENDS Integers, Sequences, FiniteSets, TokenUnits

CONSTANTS
  Users, Self, None,
  Configs,                   \* what initialize is called with
  Amounts,                   \* what is deposited and withdrawn at a time
  Actions,                   \* the calls proposals make: [to, amount], 0 for other calls
  InitBalance,               \* what each user has of the token
  MaxThreshold, ActionTtl,   \* what initialize_multisig is called with
  MaxProposals, MaxActions, MaxTime   \* bounds

VARIABLES
  now,         \* ledger timestamp
  bal,         \* balances of the token
  config,      \* DataKey::Config
  deposited,   \* DataKey::TokenBalance
  power,       \* DataKey::VotingPower
  delegatee,   \* DataKey::Delegation, oneself when there is none
  proposal,    \* DataKey::Proposal(id), ids from 1 on
  voted,       \* DataKey::Vote(id, voter)
  multisig,    \* DataKey::MultisigConfig: the threshold
  action       \* DataKey::AdminAction(id), ids from 1 on

vars == <<now, bal, config, deposited, power, delegatee, proposal, voted, multisig, action>>
deposits == <<deposited, power, delegatee>>
ballots == <<proposal, voted>>

Init ==
  /\ now = 0
  /\ bal = [a \in Users \cup {Self} |-> IF a = Self THEN 0 ELSE InitBalance]
  /\ config = None
  /\ deposited = [u \in Users |-> 0]
  /\ power = [u \in Users |-> 0]
  /\ delegatee = [u \in Users |-> u]
  /\ proposal = <<>> /\ voted = {}
  /\ multisig = None /\ action = <<>>

Transfer(from, to, n) ==
  /\ bal[from] >= n
  /\ bal' = [bal EXCEPT ![from] = @ - n, ![to] = @ + n]

Initialize(c) ==
  /\ config = None
  /\ config' = c
  /\ UNCHANGED <<now, bal, deposits, ballots, multisig, action>>

-----------------------------------------------------------------------------
(***************************************************************************)
(* Deposits and their power.                                               *)
(***************************************************************************)
Deposit(u, n) ==
  /\ config # None
  /\ Transfer(u, Self, n)
  /\ deposited' = [deposited EXCEPT ![u] = @ + n]
  /\ power' = [power EXCEPT ![delegatee[u]] = @ + n]
  /\ UNCHANGED <<now, config, delegatee, ballots, multisig, action>>

\* Mutated form: the depositor's own power is taken back.
WithdrawOwn(u, n) ==
  /\ deposited[u] >= n
  /\ deposited' = [deposited EXCEPT ![u] = @ - n]
  /\ power' = [power EXCEPT ![u] = @ - n]
  /\ Transfer(Self, u, n)
  /\ UNCHANGED <<now, config, delegatee, ballots, multisig, action>>

Withdraw(u, n) ==
  /\ deposited[u] >= n
  /\ deposited' = [deposited EXCEPT ![u] = @ - n]
  /\ power' = [power EXCEPT ![delegatee[u]] = @ - n]
  /\ Transfer(Self, u, n)
  /\ UNCHANGED <<now, config, delegatee, ballots, multisig, action>>

Delegate(u, to) ==
  /\ delegatee[u] # to
  /\ power' = [[power EXCEPT ![delegatee[u]] = @ - deposited[u]] EXCEPT ![to] = @ + deposited[u]]
  /\ delegatee' = [delegatee EXCEPT ![u] = to]
  /\ UNCHANGED <<now, bal, config, deposited, ballots, multisig, action>>

-----------------------------------------------------------------------------
(***************************************************************************)
(* Proposals.                                                              *)
(***************************************************************************)
Supply == Cardinality(Users) * InitBalance

Propose(p, call) ==
  LET start == now + config.voting_delay
  IN /\ config # None /\ Len(proposal) < MaxProposals
     /\ power[p] >= config.proposal_threshold
     /\ proposal' = Append(proposal,
          [proposer |-> p, call |-> call, status |-> "Pending",
           start_time |-> start, end_time |-> start + config.voting_period,
           for_votes |-> 0, against_votes |-> 0, abstain_votes |-> 0,
           quorum |-> (Supply * config.quorum_percentage) \div 100])
     /\ UNCHANGED <<now, bal, config, deposits, voted, multisig, action>>

Tally(r, type, n) ==
  CASE type = "For" -> [r EXCEPT !.for_votes = @ + n]
    [] type = "Against" -> [r EXCEPT !.against_votes = @ + n]
    [] type = "Abstain" -> [r EXCEPT !.abstain_votes = @ + n]

\* vote, with the power of the moment, which can be moved and used again;
\* also for a canceled proposal
Vote(v, id, type) ==
  LET r == proposal[id]
  IN /\ now >= r.start_time /\ now <= r.end_time
     /\ <<id, v>> \notin voted
     /\ power[v] # 0
     /\ proposal' = [proposal EXCEPT ![id] =
          [Tally(r, type, power[v]) EXCEPT !.status = IF @ = "Pending" THEN "Active" ELSE @]]
     /\ voted' = voted \cup {<<id, v>>}
     /\ UNCHANGED <<now, bal, config, deposits, multisig, action>>

Passed(r) ==
  /\ r.for_votes + r.against_votes + r.abstain_votes >= r.quorum
  /\ r.for_votes > r.against_votes

\* What a proposal calls: a payment by the contract, or something else.
Call(c) == IF c.amount > 0 THEN Transfer(Self, c.to, c.amount) ELSE UNCHANGED bal

\* execute, by anybody
Execute(id) ==
  LET r == proposal[id]
  IN /\ now > r.end_time
     /\ r.status \notin {"Executed", "Canceled"}
     /\ Passed(r)
     /\ Call(r.call)
     /\ proposal' = [proposal EXCEPT ![id].status = "Executed"]
     /\ UNCHANGED <<now, config, deposits, voted, multisig, action>>

\* Mutated form: a proposal can be canceled at any time.
CancelAny(id) ==
  /\ proposal' = [proposal EXCEPT ![id].status = "Canceled"]
  /\ UNCHANGED <<now, bal, config, deposits, voted, multisig, action>>

\* cancel, by the proposer; the status is not looked at
Cancel(id) ==
  /\ now < proposal[id].start_time
  /\ proposal' = [proposal EXCEPT ![id].status = "Canceled"]
  /\ UNCHANGED <<now, bal, config, deposits, voted, multisig, action>>

-----------------------------------------------------------------------------
(***************************************************************************)
(* Administrative actions, which only record that they were executed.  Any *)
(* account may propose, sign and execute them.                             *)
(***************************************************************************)
\* initialize_multisig, by whoever calls it first
InitializeMultisig(threshold) ==
  /\ multisig = None
  /\ multisig' = threshold
  /\ UNCHANGED <<now, bal, config, deposits, ballots, action>>

\* propose_admin_action: pending even when the proposer's signature is enough
ProposeAdminAction(p) ==
  /\ multisig # None /\ Len(action) < MaxActions
  /\ action' = Append(action, [status |-> "Pending", expires_at |-> now + ActionTtl, signers |-> {p}])
  /\ UNCHANGED <<now, bal, config, deposits, ballots, multisig>>

SignAdminAction(s, id) ==
  LET signers == action[id].signers \cup {s}
      enough == Cardinality(signers) >= multisig
  IN /\ action[id].status = "Pending"
     /\ now <= action[id].expires_at
     /\ s \notin action[id].signers
     /\ action' = [action EXCEPT ![id] = [@ EXCEPT !.signers = signers,
                     !.status = IF enough THEN "Approved" ELSE @]]
     /\ UNCHANGED <<now, bal, config, deposits, ballots, multisig>>

\* execute_admin_action, by anybody
ExecuteAdminAction(id) ==
  /\ action[id].status = "Approved"
  /\ now <= action[id].expires_at
  /\ action' = [action EXCEPT ![id].status = "Executed"]
  /\ UNCHANGED <<now, bal, config, deposits, ballots, multisig>>

Tick ==
  /\ now < MaxTime
  /\ now' = now + 1
  /\ UNCHANGED <<bal, config, deposits, ballots, multisig, action>>

Next ==
  \/ \E c \in Configs : Initialize(c)
  \/ \E u \in Users, n \in Amounts : Deposit(u, n) \/ Withdraw(u, n)
  \/ \E u, v \in Users : Delegate(u, v)
  \/ \E u \in Users, c \in Actions : Propose(u, c)
  \/ \E id \in DOMAIN proposal :
       \/ \E u \in Users, type \in {"For", "Against", "Abstain"} : Vote(u, id, type)
       \/ Execute(id) \/ Cancel(id)
  \/ \E n \in 1 .. MaxThreshold : InitializeMultisig(n)
  \/ \E u \in Users : ProposeAdminAction(u)
  \/ \E id \in DOMAIN action :
       \/ \E u \in Users : SignAdminAction(u, id)
       \/ ExecuteAdminAction(id)
  \/ Tick

Spec == Init /\ [][Next]_vars

-----------------------------------------------------------------------------
\* The voting power of an account is what is deposited by those who delegate
\* to it, in whatever order they deposit, delegate and withdraw, and the
\* contract holds the deposits except what executed proposals paid.
PowerIsDeposits ==
  LET paid == {id \in DOMAIN proposal : proposal[id].status = "Executed"}
  IN /\ \A u \in Users :
          power[u] = Total([v \in {w \in Users : delegatee[w] = u} |-> deposited[v]])
     /\ bal[Self] = Total(deposited) - Total([id \in paid |-> proposal[id].call.amount])

D == INSTANCE Decisions WITH
       Case <- 1 .. MaxProposals, Open <- {"Pending", "Active"},
       Outcome <- {"Executed", "Canceled"},
       state <- [id \in 1 .. MaxProposals |->
                   IF id \in DOMAIN proposal THEN proposal[id].status ELSE "none"]

\* A proposal is executed or canceled, once, although neither cancel nor vote
\* looks at the status: the times of the voting keep them apart.
DecidedOnce == D!Spec

=============================================================================
