-------------------------- MODULE MultisigTreasury --------------------------
(***************************************************************************)
(* The treasury contract (contracts/multisig_treasury): members with roles *)
(* propose, sign and execute transactions under an M-of-N threshold, and   *)
(* owners can run an emergency recovery.                                   *)
(*                                                                         *)
(* A call that panics leaves no trace: its conditions are the guards.  One *)
(* consequence is that the status Expired is never stored, because         *)
(* sign_transaction panics right after it sets it.  The members list is a  *)
(* set: an address is appended only when it has no member record.  Fields  *)
(* that are written and shown but never read (config.owner, the reason and *)
(* new owner of a recovery, descriptions, times of signatures) are left    *)
(* out, and so are the flags active and emergency_recovery_enabled, which  *)
(* are TRUE from creation on.                                              *)
(***************************************************************************)
EXTENDS Integers, FiniteSets

CONSTANTS
  Addr,           \* accounts
  Proposals,      \* what the proposals of the run ask for
  Thresholds,     \* thresholds given to initialize and update_config
  Timeouts,       \* proposal timeouts given to them
  PendingLimits,  \* limits on pending proposals given to them
  Cooldowns,      \* emergency cooldowns given to initialize
  InitFunds,      \* tokens the treasury owns at the start
  MaxTx,          \* bound on the number of proposals
  StartTime,      \* ledger time of the first call
  MaxTime         \* bound on the ledger time

Role == {"Signer", "Admin", "Owner"}
NoRole == "NoRole"
TxIds == 1 .. MaxTx

\* What a proposal asks for: a transfer of an amount, a call of another
\* contract, or a change of the members.
ManagementAction == {"add", "remove", "update_role", "other"}
Proposal ==
  [type : {"TokenTransfer"}, amount : Int] \cup
  [type : {"ContractCall"}] \cup
  [type : {"SignerManagement"}, action : ManagementAction, target : Addr, role : Role]

TransactionStatus == {"Pending", "Approved", "Executed", "Rejected"}

\* A stored transaction: HasSigned keys are the set signed, the length of the
\* list of signatures is sigs.
Transaction ==
  [proposer : Addr, what : Proposal, status : TransactionStatus, expires_at : Nat,
   required_role : Role, signed : SUBSET Addr, sigs : Nat]
NoTx == [status |-> "Absent"]

EmergencyState == [activated_by : Addr, recovery_approved : BOOLEAN]
NoEmergency == [activated_by |-> "nobody"]

ASSUME TreasuryAssumption ==
  /\ IsFiniteSet(Addr)
  /\ Proposals \subseteq Proposal
  /\ Thresholds \subseteq Nat /\ Timeouts \subseteq Nat
  /\ PendingLimits \subseteq Nat /\ Cooldowns \subseteq Nat
  /\ InitFunds \in Nat /\ MaxTx \in Nat /\ StartTime \in Nat /\ MaxTime \in Nat

VARIABLES
  now,            \* ledger timestamp
  funds,          \* tokens of the treasury
  allowance,      \* what others may draw of them (the token's allowances)
  initialized,    \* DataKey::Config is set
  config,         \* its threshold, total_signers, timeout, limit and cooldown
  role,           \* DataKey::Member(a).role, NoRole without a record
  members,        \* DataKey::Members
  nextTx,         \* DataKey::NextTransactionId
  tx,             \* DataKey::Transaction(id)
  pending,        \* DataKey::PendingTransactions
  history,        \* ids with a DataKey::TransactionHistory record
  emergency,      \* DataKey::EmergencyState
  lastEmergency   \* DataKey::LastEmergencyAt, 0 when absent

tokens == <<funds, allowance>>
vars == <<now, tokens, initialized, config, role, members, nextTx, tx, pending,
          history, emergency, lastEmergency>>
membership == <<config, role, members>>
ledger == <<nextTx, tx, pending, history>>
recovery == <<emergency, lastEmergency>>

Config ==
  [threshold : Nat, total_signers : Nat, proposal_timeout : Nat,
   max_pending_proposals : Nat, emergency_cooldown : Nat]
NoConfig == [threshold |-> 0, total_signers |-> 0]

Init ==
  /\ now = StartTime
  /\ funds = InitFunds
  /\ allowance = 0
  /\ initialized = FALSE
  /\ config = NoConfig
  /\ role = [a \in Addr |-> NoRole]
  /\ members = {}
  /\ nextTx = 0
  /\ tx = [i \in TxIds |-> NoTx]
  /\ pending = {}
  /\ history = {}
  /\ emergency = NoEmergency
  /\ lastEmergency = 0

-----------------------------------------------------------------------------
\* initialize: the threshold may exceed the number of members, which is 1.
Initialize(owner, threshold, timeout, limit, cooldown) ==
  /\ ~initialized
  /\ threshold # 0
  /\ initialized' = TRUE
  /\ config' = [threshold |-> threshold, total_signers |-> 1,
                proposal_timeout |-> timeout, max_pending_proposals |-> limit,
                emergency_cooldown |-> cooldown]
  /\ role' = [role EXCEPT ![owner] = "Owner"]
  /\ members' = {owner}
  /\ nextTx' = 0
  /\ UNCHANGED <<now, tokens, tx, pending, history, recovery>>

\* add_member
AddMember(caller, new, r) ==
  /\ role[caller] \in {"Admin", "Owner"}
  /\ role[new] = NoRole
  /\ r \in {"Owner", "Admin"} => role[caller] = "Owner"
  /\ config.threshold <= config.total_signers + 1
  /\ role' = [role EXCEPT ![new] = r]
  /\ members' = members \cup {new}
  /\ config' = [config EXCEPT !.total_signers = @ + 1]

\* The listed members who are owners, which the contract counts.
Owners == {m \in members : role[m] = "Owner"}

\* Mutated form: the threshold stays when a member goes.
RemoveMemberKeepThreshold(caller, target) ==
  /\ role[caller] # NoRole
  /\ role[target] # NoRole
  /\ caller = target /\ role[target] = "Owner" => Cardinality(Owners) > 1
  /\ role[caller] # "Owner" => role[caller] = "Admin" /\ role[target] = "Signer"
  /\ config.total_signers >= 1
  /\ members' = members \ {target}
  /\ role' = [role EXCEPT ![target] = NoRole]
  /\ config' = [config EXCEPT !.total_signers = @ - 1]

\* Mutated form: the subtraction is not checked for underflow.
RemoveMemberUnchecked(caller, target) ==
  /\ role[caller] # NoRole
  /\ role[target] # NoRole
  /\ caller = target /\ role[target] = "Owner" => Cardinality(Owners) > 1
  /\ role[caller] # "Owner" => role[caller] = "Admin" /\ role[target] = "Signer"
  /\ members' = members \ {target}
  /\ role' = [role EXCEPT ![target] = NoRole]
  /\ LET total == config.total_signers - 1
         threshold == IF config.threshold > total THEN total ELSE config.threshold
     IN config' = [config EXCEPT !.total_signers = total, !.threshold = threshold]

\* remove_member.  total_signers is a u32 and overflow checks are on: the
\* subtraction panics at 0.
RemoveMember(caller, target) ==
  /\ role[caller] # NoRole
  /\ role[target] # NoRole
  /\ caller = target /\ role[target] = "Owner" => Cardinality(Owners) > 1
  /\ role[caller] # "Owner" => role[caller] = "Admin" /\ role[target] = "Signer"
  /\ config.total_signers >= 1
  /\ members' = members \ {target}
  /\ role' = [role EXCEPT ![target] = NoRole]
  /\ LET total == config.total_signers - 1
         threshold == IF config.threshold > total THEN total ELSE config.threshold
     IN config' = [config EXCEPT !.total_signers = total, !.threshold = threshold]

\* Mutated form: the last owner may be demoted.
UpdateMemberRoleUnchecked(caller, member, r) ==
  /\ role[caller] = "Owner"
  /\ role[member] # NoRole
  /\ role' = [role EXCEPT ![member] = r]
  /\ UNCHANGED <<members, config>>

\* update_member_role
UpdateMemberRole(caller, member, r) ==
  /\ role[caller] = "Owner"
  /\ role[member] # NoRole
  /\ role[member] = "Owner" /\ r # "Owner" => Cardinality(Owners) > 1
  /\ role' = [role EXCEPT ![member] = r]
  /\ UNCHANGED <<members, config>>

\* update_config
UpdateConfig(caller, threshold, timeout, limit) ==
  /\ role[caller] = "Owner"
  /\ threshold # 0 /\ threshold <= config.total_signers
  /\ config' = [config EXCEPT !.threshold = threshold, !.proposal_timeout = timeout,
                              !.max_pending_proposals = limit]
  /\ UNCHANGED <<now, tokens, initialized, role, members, ledger, recovery>>

-----------------------------------------------------------------------------
\* propose_transfer and propose_contract_call need any member,
\* propose_signer_management an Admin or Owner.
MayPropose(proposer, p) ==
  \/ p.type = "TokenTransfer" /\ role[proposer] # NoRole /\ p.amount > 0
  \/ p.type = "ContractCall" /\ role[proposer] # NoRole
  \/ p.type = "SignerManagement" /\ role[proposer] \in {"Admin", "Owner"}

RequiredRole(p) == IF p.type = "SignerManagement" THEN "Admin" ELSE "Signer"

\* The three propose_ functions and create_transaction
Propose(proposer, p) ==
  /\ initialized
  /\ nextTx < MaxTx
  /\ MayPropose(proposer, p)
  /\ Cardinality(pending) < config.max_pending_proposals
  /\ nextTx' = nextTx + 1
  /\ tx' = [tx EXCEPT ![nextTx + 1] =
       [proposer |-> proposer, what |-> p, status |-> "Pending",
        expires_at |-> now + config.proposal_timeout,
        required_role |-> RequiredRole(p), signed |-> {}, sigs |-> 0]]
  /\ pending' = pending \cup {nextTx + 1}
  /\ UNCHANGED <<now, tokens, initialized, membership, history, recovery>>

RoleLevel(r) == CASE r = "Signer" -> 1 [] r = "Admin" -> 2 [] r = "Owner" -> 3

\* sign_transaction
SignTransaction(signer, id) ==
  LET t == tx[id]
      sigs == t.sigs + 1
  IN /\ t.status = "Pending"
     /\ now <= t.expires_at
     /\ role[signer] # NoRole
     /\ RoleLevel(role[signer]) >= RoleLevel(t.required_role)
     /\ signer \notin t.signed
     /\ tx' = [tx EXCEPT ![id].signed = @ \cup {signer}, ![id].sigs = sigs,
          ![id].status = IF sigs >= config.threshold THEN "Approved" ELSE "Pending"]
     /\ UNCHANGED <<now, tokens, initialized, membership, nextTx, pending, history, recovery>>

\* Mutated form: a pending transaction may be executed with its signatures short by one.
ExecutableOneShort(t) ==
  \/ t.status = "Approved"
  \/ t.status = "Pending" /\ t.sigs + 1 >= config.threshold

\* A transaction may be executed once approved, or while pending if the
\* threshold has come down to the signatures it has.
Executable(t) ==
  \/ t.status = "Approved"
  \/ t.status = "Pending" /\ t.sigs >= config.threshold

\* The token transfer, which panics when the treasury cannot pay.
TransferOut(amount) ==
  /\ funds >= amount
  /\ funds' = funds - amount

\* What executing p does.  A contract call may be any call, the token's transfer
\* and approve included.  Member changes run with the rights of the executor,
\* whose second authorisation the host grants when the executor is the calling
\* contract, and an unknown action does nothing.
Effect(executor, p) ==
  \/ /\ p.type = "TokenTransfer"
     /\ TransferOut(p.amount)
     /\ UNCHANGED <<allowance, membership>>
  \/ /\ p.type = "ContractCall"
     /\ \E spent \in 0 .. funds : funds' = funds - spent
     /\ allowance' \in 0 .. InitFunds
     /\ UNCHANGED membership
  \/ /\ p.type = "SignerManagement"
     /\ \/ p.action = "add" /\ AddMember(executor, p.target, p.role)
        \/ p.action = "remove" /\ RemoveMember(executor, p.target)
        \/ p.action = "update_role" /\ UpdateMemberRole(executor, p.target, p.role)
        \/ p.action = "other" /\ UNCHANGED membership
     /\ UNCHANGED tokens

\* execute_transaction: the expiry is not looked at.
ExecuteTransaction(executor, id) ==
  /\ role[executor] # NoRole
  /\ Executable(tx[id])
  /\ Effect(executor, tx[id].what)
  /\ tx' = [tx EXCEPT ![id].status = "Executed"]
  /\ pending' = pending \ {id}
  /\ history' = history \cup {id}
  /\ UNCHANGED <<now, initialized, nextTx, recovery>>

\* Mutated form: an approved transaction can be rejected.
RejectApproved(id) ==
  /\ tx[id].status \in {"Pending", "Approved"}
  /\ tx' = [tx EXCEPT ![id].status = "Rejected"]
  /\ pending' = pending \ {id}
  /\ UNCHANGED <<now, tokens, initialized, membership, nextTx, history, recovery>>

\* Mutated form: the slot of a rejected transaction is not freed.
RejectAndKeepSlot(id) ==
  /\ tx[id].status = "Pending"
  /\ tx' = [tx EXCEPT ![id].status = "Rejected"]
  /\ UNCHANGED <<now, tokens, initialized, membership, nextTx, pending, history, recovery>>

\* reject_transaction, called by the proposer, who need not be a member any more
RejectTransaction(id) ==
  /\ tx[id].status = "Pending"
  /\ tx' = [tx EXCEPT ![id].status = "Rejected"]
  /\ pending' = pending \ {id}
  /\ UNCHANGED <<now, tokens, initialized, membership, nextTx, history, recovery>>

-----------------------------------------------------------------------------
\* activate_emergency_recovery
ActivateEmergency(caller) ==
  /\ role[caller] = "Owner"
  /\ now >= lastEmergency + config.emergency_cooldown
  /\ emergency' = [activated_by |-> caller, recovery_approved |-> FALSE]
  /\ lastEmergency' = now
  /\ UNCHANGED <<now, tokens, initialized, membership, ledger>>

\* execute_emergency_recovery: any owner but the one who activated it; a new
\* member is not counted in total_signers.
ExecuteEmergency(caller, newOwner) ==
  /\ emergency # NoEmergency
  /\ ~emergency.recovery_approved
  /\ role[caller] = "Owner"
  /\ caller # emergency.activated_by
  /\ role' = [role EXCEPT ![newOwner] = "Owner"]
  /\ members' = members \cup {newOwner}
  /\ emergency' = [emergency EXCEPT !.recovery_approved = TRUE]
  /\ UNCHANGED <<now, tokens, initialized, config, ledger, lastEmergency>>

\* cancel_emergency_recovery
CancelEmergency(caller) ==
  /\ emergency # NoEmergency
  /\ ~emergency.recovery_approved
  /\ role[caller] # NoRole
  /\ caller = emergency.activated_by \/ role[caller] = "Owner"
  /\ emergency' = NoEmergency
  /\ UNCHANGED <<now, tokens, initialized, membership, ledger, lastEmergency>>

Tick ==
  /\ now < MaxTime
  /\ now' = now + 1
  /\ UNCHANGED <<tokens, initialized, membership, ledger, recovery>>

\* A spender draws on its allowance.
Draw(amount) ==
  /\ amount <= allowance /\ amount <= funds
  /\ funds' = funds - amount
  /\ allowance' = allowance - amount
  /\ UNCHANGED <<now, initialized, membership, ledger, recovery>>

\* A direct call of one of the three member functions.
ManageMembers ==
  /\ \E c, a \in Addr :
       \/ \E r \in Role : AddMember(c, a, r) \/ UpdateMemberRole(c, a, r)
       \/ RemoveMember(c, a)
  /\ UNCHANGED <<now, tokens, initialized, ledger, recovery>>

Next ==
  \/ \E o \in Addr, m \in Thresholds, t \in Timeouts, l \in PendingLimits, c \in Cooldowns :
       Initialize(o, m, t, l, c)
  \/ ManageMembers
  \/ \E a \in Addr :
       \/ \E m \in Thresholds, t \in Timeouts, l \in PendingLimits : UpdateConfig(a, m, t, l)
       \/ \E p \in Proposals : Propose(a, p)
       \/ \E id \in TxIds : SignTransaction(a, id) \/ ExecuteTransaction(a, id)
       \/ ActivateEmergency(a)
       \/ \E n \in Addr : ExecuteEmergency(a, n)
       \/ CancelEmergency(a)
  \/ \E id \in TxIds : RejectTransaction(id)
  \/ \E amount \in 1 .. InitFunds : Draw(amount)
  \/ Tick

Spec == Init /\ [][Next]_vars

-----------------------------------------------------------------------------
(***************************************************************************)
(* Properties.                                                             *)
(***************************************************************************)
TypeOK ==
  /\ now \in Nat /\ funds \in Nat /\ allowance \in Nat /\ initialized \in BOOLEAN
  /\ config \in Config \cup {NoConfig}
  /\ role \in [Addr -> Role \cup {NoRole}]
  /\ members \subseteq Addr
  /\ nextTx \in 0 .. MaxTx
  /\ tx \in [TxIds -> Transaction \cup {NoTx}]
  /\ pending \subseteq TxIds /\ history \subseteq TxIds
  /\ emergency \in EmergencyState \cup {NoEmergency}
  /\ lastEmergency \in Nat

\* No sequence of removals, demotions, executed signer management proposals
\* and emergency recoveries leaves the treasury without an Owner, although
\* the contract counts the owners only when one removes or demotes itself or
\* is demoted.
AlwaysAnOwner == initialized => \E a \in Addr : role[a] = "Owner"

\* The members list and the member records, which are stored apart, agree.
ListedMembers == members = {a \in Addr : role[a] # NoRole}

\* Once a second member has been added, the members can always muster as many
\* signatures as the threshold asks for.
QuorumReachable ==
  initialized => config.total_signers = 1 \/ config.threshold <= Cardinality(members)

\* Every proposal that can still be executed takes one of the pending slots,
\* no finished one does, and exactly the executed ones are in the history.
PendingSlots ==
  /\ pending = {id \in TxIds : tx[id].status \in {"Pending", "Approved"}}
  /\ history = {id \in TxIds : tx[id].status = "Executed"}

\* The treasury spends, and lets others draw on it, only by executing a
\* transaction, and a transaction gets past Pending only with signatures of as
\* many distinct accounts as the threshold of that moment, each with the role
\* the transaction requires when it signed.
SpendsByAgreement ==
  [][/\ funds' # funds \/ allowance' > allowance =>
          \/ \E id \in TxIds : tx[id].status # "Executed" /\ tx'[id].status = "Executed"
          \/ funds - funds' = allowance - allowance' /\ funds' < funds
     /\ \A id \in TxIds :
          tx[id].status = "Pending" /\ tx'[id].status \in {"Approved", "Executed"} =>
            Cardinality(tx'[id].signed) >= config.threshold
     /\ \A id \in TxIds : tx[id] # NoTx =>
          \A a \in tx'[id].signed \ tx[id].signed :
            RoleLevel(role[a]) >= RoleLevel(tx[id].required_role)]_vars

\* A decision stands: an Approved transaction can only be executed, an
\* executed or rejected one never changes (so nothing is executed twice), and
\* signatures are never lost.
DecisionsStand ==
  [][\A id \in TxIds :
       LET t == tx[id]
           u == tx'[id]
       IN /\ t.status = "Approved" => u.status \in {"Approved", "Executed"}
          /\ t.status \in {"Executed", "Rejected"} => u = t
          /\ t # NoTx => u # NoTx /\ t.what = u.what /\ t.signed \subseteq u.signed]_vars

\* A transaction is executed only after somebody signed it: the threshold is
\* at least 1 ("need at least 1 signature").
ExecutedWasSigned == \A id \in TxIds : tx[id].status = "Executed" => tx[id].signed # {}

=============================================================================
