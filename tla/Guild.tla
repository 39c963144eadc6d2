-------------------------------- MODULE Guild --------------------------------
(***************************************************************************)
(* A guild of players (contracts/guild): members with roles, a treasury    *)
(* that officers spend in small amounts and votes in large ones, and the   *)
(* sharing out of the treasury when the leader disbands the guild.         *)
(*                                                                         *)
(* A call is one action and its error paths are its guards.  Init is the   *)
(* state initialize leaves.  The votes on general proposals, the resources *)
(* and the achievements are counters that nothing else reads.              *)
(***************************************************************************)
EXTENDS Integers, Sequences, FiniteSets, TokenUnits

CONSTANTS
  Users, Leader, Self, None,
  THRESHOLD,               \* withdrawal_threshold, 10000 in the code
  Amounts,                 \* what is deposited and withdrawn at a time
  InitBalance,             \* what each user has of the token
  MaxWithdrawals, MaxProposals, MaxCount, MaxTime   \* bounds

VARIABLES
  now,            \* ledger timestamp
  bal,            \* balances of the token
  role,           \* DataKey::Member(address)
  members,        \* DataKey::MembersList
  disbanded,      \* GuildConfig.disbanded
  withdrawal,     \* DataKey::WithdrawalProposal(id), ids from 1 on
  voted,          \* DataKey::WithdrawalVoted(id, address)
  proposal,       \* DataKey::Proposal(id), ids from 1 on
  counters,       \* DataKey::Resource and DataKey::Achievement
  competition     \* DataKey::Competition(timestamp)

vars == <<now, bal, role, members, disbanded, withdrawal, voted, proposal, counters, competition>>
roles == <<role, members>>
votes == <<withdrawal, voted>>
records == <<proposal, counters, competition>>

Init ==
  /\ now = 0
  /\ bal = [a \in Users \cup {Self} |-> IF a = Self THEN 0 ELSE InitBalance]
  /\ role = [u \in Users |-> IF u = Leader THEN "Leader" ELSE None]
  /\ members = <<Leader>>
  /\ disbanded = FALSE
  /\ withdrawal = <<>> /\ voted = {}
  /\ proposal = <<>> /\ counters = [resource |-> 0, achievement |-> 0]
  /\ competition = [t \in 0 .. MaxTime |-> None]

Transfer(from, to, n) ==
  /\ bal[from] >= n
  /\ bal' = [bal EXCEPT ![from] = @ - n, ![to] = @ + n]

-----------------------------------------------------------------------------
(***************************************************************************)
(* Members.                                                                *)
(***************************************************************************)
AssertActive == ~disbanded
AssertMember(u) == role[u] # None
AssertLeader(u) == role[u] = "Leader"
AssertOfficerOrLeader(u) == role[u] \in {"Leader", "Officer"}

\* set_role_internal: who is not in the list yet is added
SetRoleInternal(u, r) ==
  /\ role' = [role EXCEPT ![u] = r]
  /\ members' = IF \E i \in DOMAIN members : members[i] = u THEN members ELSE Append(members, u)
  /\ UNCHANGED <<now, bal, disbanded, votes, records>>

Join(u) ==
  /\ AssertActive
  /\ role[u] = None
  /\ SetRoleInternal(u, "Member")

\* set_role, of anybody, also of the leader who calls it
SetRole(leader, u, r) ==
  /\ AssertLeader(leader)
  /\ AssertActive
  /\ SetRoleInternal(u, r)

-----------------------------------------------------------------------------
(***************************************************************************)
(* The treasury.                                                           *)
(***************************************************************************)
Deposit(u, n) ==
  /\ AssertActive
  /\ AssertMember(u)
  /\ Transfer(u, Self, n)
  /\ UNCHANGED <<now, roles, disbanded, votes, records>>

\* withdraw: up to the threshold at once, above it with a vote
Withdraw(u, n, deadline) ==
  /\ AssertOfficerOrLeader(u)
  /\ AssertActive
  /\ IF n > THRESHOLD
     THEN /\ Len(withdrawal) < MaxWithdrawals
          /\ withdrawal' = Append(withdrawal, [officer |-> u, amount |-> n, yes |-> 0, no |-> 0,
                                               deadline |-> deadline, executed |-> FALSE])
          /\ UNCHANGED bal
     ELSE /\ Transfer(Self, u, n)
          /\ UNCHANGED withdrawal
  /\ UNCHANGED <<now, roles, disbanded, voted, records>>

\* Mutated form: members vote again.
VoteAgain(u, id, approve) ==
  /\ AssertActive
  /\ AssertMember(u)
  /\ now <= withdrawal[id].deadline
  /\ ~withdrawal[id].executed
  /\ withdrawal[id].yes + withdrawal[id].no <= Cardinality(Users)
  /\ withdrawal' = [withdrawal EXCEPT ![id].yes = IF approve THEN @ + 1 ELSE @,
                                      ![id].no = IF approve THEN @ ELSE @ + 1]
  /\ voted' = voted \cup {<<id, u>>}
  /\ UNCHANGED <<now, bal, roles, disbanded, records>>

VoteWithdrawal(u, id, approve) ==
  /\ AssertActive
  /\ AssertMember(u)
  /\ <<id, u>> \notin voted
  /\ now <= withdrawal[id].deadline
  /\ ~withdrawal[id].executed
  /\ withdrawal' = [withdrawal EXCEPT ![id].yes = IF approve THEN @ + 1 ELSE @,
                                      ![id].no = IF approve THEN @ ELSE @ + 1]
  /\ voted' = voted \cup {<<id, u>>}
  /\ UNCHANGED <<now, bal, roles, disbanded, records>>

\* execute_withdrawal, by any member: more than half of those who are members now
ExecuteWithdrawal(u, id) ==
  LET w == withdrawal[id]
  IN /\ AssertActive
     /\ AssertMember(u)
     /\ now <= w.deadline
     /\ ~w.executed
     /\ w.yes > Len(members) \div 2
     /\ Transfer(Self, w.officer, w.amount)
     /\ withdrawal' = [withdrawal EXCEPT ![id].executed = TRUE]
     /\ UNCHANGED <<now, roles, disbanded, voted, records>>

\* disband: what cannot be shared out evenly stays in the contract
Disband(leader) ==
  LET share == bal[Self] \div Len(members)
      part(a) == IF a = Self THEN 0 - share * Len(members)
                 ELSE share * Cardinality({i \in DOMAIN members : members[i] = a})
  IN /\ AssertLeader(leader)
     /\ AssertActive
     /\ bal' = [a \in DOMAIN bal |-> bal[a] + part(a)]
     /\ disbanded' = TRUE
     /\ UNCHANGED <<now, roles, votes, records>>

-----------------------------------------------------------------------------
(***************************************************************************)
(* Resources, general proposals and competitions.                          *)
(***************************************************************************)
AddTo(u, counter) ==
  /\ AssertOfficerOrLeader(u)
  /\ AssertActive
  /\ counters[counter] < MaxCount
  /\ counters' = [counters EXCEPT ![counter] = @ + 1]
  /\ UNCHANGED <<now, bal, roles, disbanded, votes, proposal, competition>>

AddResource(u) == AddTo(u, "resource")
AddAchievement(u) == AddTo(u, "achievement")

CreateProposal(u, deadline) ==
  /\ Len(proposal) < MaxProposals
  /\ AssertOfficerOrLeader(u)
  /\ AssertActive
  /\ proposal' = Append(proposal, [yes |-> 0, no |-> 0, deadline |-> deadline])
  /\ UNCHANGED <<now, bal, roles, disbanded, votes, counters, competition>>

\* vote, as often as a member likes
Vote(u, id, approve) ==
  /\ AssertActive
  /\ AssertMember(u)
  /\ now <= proposal[id].deadline
  /\ proposal[id].yes + proposal[id].no < MaxCount
  /\ proposal' = [proposal EXCEPT ![id].yes = IF approve THEN @ + 1 ELSE @,
                                  ![id].no = IF approve THEN @ ELSE @ + 1]
  /\ UNCHANGED <<now, bal, roles, disbanded, votes, counters, competition>>

\* record_competition: one for each time, the last one stays
RecordCompetition(leader, opponent, won) ==
  /\ AssertLeader(leader)
  /\ AssertActive
  /\ competition' = [competition EXCEPT ![now] = [opponent |-> opponent, won |-> won]]
  /\ UNCHANGED <<now, bal, roles, disbanded, votes, proposal, counters>>

Tick ==
  /\ now < MaxTime
  /\ now' = now + 1
  /\ UNCHANGED <<bal, roles, disbanded, votes, records>>

Next ==
  \/ \E u \in Users :
       \/ Join(u) \/ Disband(u)
       \/ \E v \in Users, r \in {"Member", "Officer", "Leader"} : SetRole(u, v, r)
       \/ \E n \in Amounts : Deposit(u, n) \/ Withdraw(u, n, now + 1)
       \/ \E id \in DOMAIN withdrawal :
            \/ \E b \in BOOLEAN : VoteWithdrawal(u, id, b)
            \/ ExecuteWithdrawal(u, id)
       \/ AddResource(u) \/ AddAchievement(u) \/ CreateProposal(u, now + 1)
       \/ \E id \in DOMAIN proposal, b \in BOOLEAN : Vote(u, id, b)
       \/ \E v \in Users, b \in BOOLEAN : RecordCompetition(u, v, b)
  \/ Tick

Spec == Init /\ [][Next]_vars

-----------------------------------------------------------------------------
\* A large withdrawal has a vote of each member who voted, though the number
\* of members and their roles change meanwhile; who has a role is a member
\* once, so that a disbanded guild keeps less than would be a share.
VotesOfMembers ==
  /\ \A i, j \in DOMAIN members : i # j => members[i] # members[j]
  /\ {members[i] : i \in DOMAIN members} = {u \in Users : role[u] # None}
  /\ \A id \in DOMAIN withdrawal :
       LET w == withdrawal[id]
           voters == {u \in Users : <<id, u>> \in voted}
       IN /\ w.yes + w.no = Cardinality(voters)
          /\ \A u \in voters : role[u] # None
          /\ w.executed => 2 * w.yes > w.yes + w.no
  /\ disbanded => bal[Self] < Len(members)

=============================================================================
