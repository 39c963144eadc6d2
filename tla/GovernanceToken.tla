--------------------------- MODULE GovernanceToken ---------------------------
(***************************************************************************)
(* The governance token (contracts/governance_token): a token whose        *)
(* holders delegate their voting power, checkpoints of that power per      *)
(* ledger, and proposals decided by it under a quorum and a timelock.      *)
(*                                                                         *)
(* A call that panics leaves no trace, so its conditions are the guards;   *)
(* queue and execute panic right after they set Defeated or Expired, hence *)
(* these two statuses are never stored.  The contract reads two clocks,    *)
(* the ledger sequence and the ledger timestamp.  Both grow with every     *)
(* ledger; one variable stands for both, and delays are counted in         *)
(* ledgers (a gap of several seconds is a run of ledgers without a call).  *)
(***************************************************************************)
EXTENDS Integers, Sequences, FiniteSets, TokenUnits

CONSTANTS
  Addr,           \* accounts
  Spenders,       \* accounts that approve is called for
  Amounts,        \* amounts that the token calls are made with
  Configs,        \* governance configurations given to initialize
  MaxSupply,      \* bound on the supply
  MaxProposals,   \* bound on the number of proposals
  MaxCheckpoints, \* bound on the number of checkpoints
  LastApproval,   \* bound: approve is not called after this ledger
  MaxLedger       \* bound on the ledger sequence

Ids == 1 .. MaxProposals

GovernanceConfig ==
  [voting_delay : Nat, voting_period : Nat, proposal_threshold : Int,
   quorum_numerator : Nat, timelock_delay : Nat, grace_period : Nat]
NoConfig == [quorum_numerator |-> 0]

Checkpoint == [sequence : Nat, votes : Nat]

VoteType == {"For", "Against", "Abstain"}
ProposalStatus == {"Pending", "Active", "Queued", "Executed", "Canceled"}
Proposal ==
  [proposer : Addr, start_time : Nat, end_time : Nat, snapshot_sequence : Nat,
   votes : [VoteType -> Nat], status : ProposalStatus, quorum : Nat, eta : Nat]
NoProposal == [status |-> "Absent"]

VoteReceipt == [vote_type : VoteType, weight : Nat]
NoReceipt == [weight |-> 0]

ASSUME GovernanceAssumption ==
  /\ IsFiniteSet(Addr)
  /\ Amounts \subseteq Int
  /\ Configs \subseteq GovernanceConfig
  /\ MaxSupply \in Nat /\ MaxProposals \in Nat /\ MaxLedger \in Nat
  /\ MaxCheckpoints \in Nat /\ LastApproval \in Nat

VARIABLES
  ledger,      \* ledger sequence and timestamp
  config,      \* DataKey::Config, set with DataKey::Admin
  bal,         \* DataKey::Balance(a)
  supply,      \* DataKey::TotalSupply
  allowance,   \* DataKey::Allowance(owner, spender)
  delegate,    \* DataKey::Delegate(a), the account itself when absent
  power,       \* DataKey::VotingPower(a)
  ckpts,       \* DataKey::Checkpoints(a); NumCheckpoints is its length
  count,       \* DataKey::ProposalCount
  proposal,    \* DataKey::Proposal(id)
  receipt,     \* DataKey::VoteReceipt(id, a); HasVoted when there is one
  closing      \* history: the voting power when each past ledger closed

balances == <<bal, supply>>
voting == <<delegate, power, ckpts>>
proposals == <<count, proposal, receipt>>
vars == <<ledger, config, balances, allowance, voting, proposals, closing>>

Init ==
  /\ ledger = 1
  /\ config = NoConfig
  /\ bal = [a \in Addr |-> 0]
  /\ supply = 0
  /\ allowance = [a \in Addr |-> [s \in Spenders |-> 0]]
  /\ delegate = [a \in Addr |-> a]
  /\ power = [a \in Addr |-> 0]
  /\ ckpts = [a \in Addr |-> <<>>]
  /\ count = 0
  /\ proposal = [i \in Ids |-> NoProposal]
  /\ receipt = [i \in Ids |-> [a \in Addr |-> NoReceipt]]
  /\ closing = <<>>

-----------------------------------------------------------------------------
\* initialize
Initialize(c) ==
  /\ config = NoConfig
  /\ c.quorum_numerator <= 100
  /\ config' = c
  /\ supply' = 0
  /\ UNCHANGED <<ledger, bal, allowance, voting, proposals, closing>>

\* Mutated form: the first change of a ledger is kept, not the last.
WriteCheckpointOnce(l, v) ==
  IF l # <<>> /\ l[Len(l)].sequence = ledger
    THEN l
    ELSE Append(l, [sequence |-> ledger, votes |-> v])

\* _write_checkpoint: the checkpoint list l when the power becomes v.  The
\* last checkpoint is overwritten if it is of the current ledger.
WriteCheckpoint(l, v) ==
  LET c == [sequence |-> ledger, votes |-> v] IN
  IF l # <<>> /\ l[Len(l)].sequence = ledger
    THEN [l EXCEPT ![Len(l)] = c]
    ELSE Append(l, c)

\* The power of account a and its checkpoints after a becomes v.
SetPower(p, c, a, v) ==
  [power |-> [p EXCEPT ![a] = v], ckpts |-> [c EXCEPT ![a] = WriteCheckpoint(@, v)]]

\* The power and the checkpoints become those of c.
StorePower(c) ==
  /\ Total([a \in Addr |-> Len(c.ckpts[a])]) <= MaxCheckpoints
  /\ power' = c.power
  /\ ckpts' = c.ckpts

\* _move_voting_power, of an amount above 0: the source first, then the
\* destination, which may be the same account.
MovePower(src, dst, amount) ==
  LET out == SetPower(power, ckpts, src, power[src] - amount)
  IN StorePower(SetPower(out.power, out.ckpts, dst, out.power[dst] + amount))

\* Mutated form: the amount is not checked.
MintAnyAmount(to, amount) ==
  /\ config # NoConfig
  /\ supply + amount <= MaxSupply
  /\ bal' = [bal EXCEPT ![to] = @ + amount]
  /\ supply' = supply + amount
  /\ UNCHANGED <<ledger, config, allowance, voting, proposals, closing>>

\* mint, called by the admin
Mint(to, amount) ==
  /\ config # NoConfig
  /\ amount > 0
  /\ supply + amount <= MaxSupply
  /\ bal' = [bal EXCEPT ![to] = @ + amount]
  /\ supply' = supply + amount
  /\ LET d == delegate[to]
     IN StorePower(SetPower(power, ckpts, d, power[d] + amount))
  /\ UNCHANGED <<ledger, config, allowance, delegate, proposals, closing>>

\* burn, called by the holder
Burn(from, amount) ==
  /\ amount > 0
  /\ bal[from] >= amount
  /\ bal' = [bal EXCEPT ![from] = @ - amount]
  /\ supply' = supply - amount
  /\ LET d == delegate[from]
     IN StorePower(SetPower(power, ckpts, d, power[d] - amount))
  /\ UNCHANGED <<ledger, config, allowance, delegate, proposals, closing>>

\* What transfer and transfer_from do once they are allowed to.
MoveTokens(from, to, amount) ==
  /\ amount > 0
  /\ bal[from] >= amount
  /\ bal' = [[bal EXCEPT ![from] = @ - amount] EXCEPT ![to] = @ + amount]
  /\ MovePower(delegate[from], delegate[to], amount)

\* transfer, called by the holder
Transfer(from, to, amount) ==
  /\ MoveTokens(from, to, amount)
  /\ UNCHANGED <<ledger, config, supply, allowance, delegate, proposals, closing>>

\* approve, called by the owner
Approve(owner, spender, amount) ==
  /\ ledger <= LastApproval
  /\ amount >= 0
  /\ allowance' = [allowance EXCEPT ![owner][spender] = amount]
  /\ UNCHANGED <<ledger, config, balances, voting, proposals, closing>>

\* transfer_from, called by the spender
TransferFrom(spender, from, to, amount) ==
  /\ allowance[from][spender] >= amount
  /\ MoveTokens(from, to, amount)
  /\ allowance' = [allowance EXCEPT ![from][spender] = @ - amount]
  /\ UNCHANGED <<ledger, config, supply, delegate, proposals, closing>>

\* Mutated form: the power is taken from the delegator, not from its delegate.
DelegateFromSelf(delegator, delegatee) ==
  /\ delegate[delegator] # delegatee
  /\ \/ /\ bal[delegator] > 0
        /\ MovePower(delegator, delegatee, bal[delegator])
     \/ /\ bal[delegator] <= 0
        /\ UNCHANGED <<power, ckpts>>
  /\ delegate' = [delegate EXCEPT ![delegator] = delegatee]
  /\ UNCHANGED <<ledger, config, balances, allowance, proposals, closing>>

\* delegate, called by the delegator
Delegate(delegator, delegatee) ==
  /\ delegate[delegator] # delegatee
  /\ \/ /\ bal[delegator] > 0
        /\ MovePower(delegate[delegator], delegatee, bal[delegator])
     \/ /\ bal[delegator] <= 0
        /\ UNCHANGED <<power, ckpts>>
  /\ delegate' = [delegate EXCEPT ![delegator] = delegatee]
  /\ UNCHANGED <<ledger, config, balances, allowance, proposals, closing>>

-----------------------------------------------------------------------------
\* The checkpoint that _find_past_votes probes between low and high.
Middle(low, high) == low + ((high - low + 1) \div 2)

\* The binary search of _find_past_votes: where it ends in checkpoints l when
\* it looks for sequence s between r[1] and r[2].
Search(l, s) ==
  LET search[r \in (1 .. Len(l)) \X (1 .. Len(l))] ==
        IF r[1] >= r[2] THEN r[1]
        ELSE IF l[Middle(r[1], r[2])].sequence <= s THEN search[<<Middle(r[1], r[2]), r[2]>>]
        ELSE search[<<r[1], Middle(r[1], r[2]) - 1>>]
  IN  search

\* _find_past_votes: the votes of the last checkpoint of l at or before
\* sequence s, 0 without one.
FindPastVotes(l, s) ==
  LET n == Len(l) IN
  IF n = 0 THEN 0
  ELSE IF l[n].sequence <= s THEN l[n].votes
  ELSE IF l[1].sequence > s THEN 0
  ELSE l[Search(l, s)[<<1, n>>]].votes

\* propose
Propose(proposer) ==
  /\ config # NoConfig
  /\ count < MaxProposals
  /\ power[proposer] >= config.proposal_threshold
  /\ count' = count + 1
  /\ LET start == ledger + config.voting_delay IN
     proposal' = [proposal EXCEPT ![count + 1] =
       [proposer |-> proposer, start_time |-> start,
        end_time |-> start + config.voting_period, snapshot_sequence |-> ledger,
        votes |-> [v \in VoteType |-> 0], status |-> "Pending",
        quorum |-> (supply * config.quorum_numerator) \div 100, eta |-> 0]]
  /\ UNCHANGED <<ledger, config, balances, allowance, voting, receipt, closing>>

\* Mutated form: votes weigh the current power.
VoteWeightNow(voter, p) == power[voter]

\* The weight of a vote: the power at the snapshot or, if that is 0, the
\* current power.
VoteWeight(voter, p) ==
  LET past == FindPastVotes(ckpts[voter], p.snapshot_sequence) IN
  IF past = 0 THEN power[voter] ELSE past

\* _apply_vote
ApplyVote(voter, id, type, weight) ==
  /\ proposal' = [proposal EXCEPT
       ![id].votes[type] = @ + weight,
       ![id].status = IF @ = "Pending" THEN "Active" ELSE @]
  /\ receipt' = [receipt EXCEPT ![id][voter] = [vote_type |-> type, weight |-> weight]]

\* Mutated form: votes are taken after the end of voting.
VoteLate(voter, id, type) ==
  LET p == proposal[id]
      weight == VoteWeight(voter, p)
  IN /\ p # NoProposal
     /\ ledger >= p.start_time
     /\ receipt[id][voter] = NoReceipt
     /\ weight # 0
     /\ ApplyVote(voter, id, type, weight)
     /\ UNCHANGED <<ledger, config, balances, allowance, voting, count, closing>>

\* vote: the status of the proposal is not looked at.
Vote(voter, id, type) ==
  LET p == proposal[id]
      weight == VoteWeight(voter, p)
  IN /\ p # NoProposal
     /\ ledger >= p.start_time /\ ledger <= p.end_time
     /\ receipt[id][voter] = NoReceipt
     /\ weight # 0
     /\ ApplyVote(voter, id, type, weight)
     /\ UNCHANGED <<ledger, config, balances, allowance, voting, count, closing>>

\* Mutated form: a proposal is queued on its quorum alone.
QueueOnQuorum(id) ==
  LET p == proposal[id] IN
  /\ p.status \in {"Pending", "Active"}
  /\ ledger > p.end_time
  /\ p.votes["For"] + p.votes["Against"] + p.votes["Abstain"] >= p.quorum
  /\ proposal' = [proposal EXCEPT ![id].eta = ledger + config.timelock_delay,
                                  ![id].status = "Queued"]
  /\ UNCHANGED <<ledger, config, balances, allowance, voting, count, receipt, closing>>

\* queue: anyone may call it
Queue(id) ==
  LET p == proposal[id] IN
  /\ p.status \in {"Pending", "Active"}
  /\ ledger > p.end_time
  /\ p.votes["For"] + p.votes["Against"] + p.votes["Abstain"] >= p.quorum
  /\ p.votes["For"] > p.votes["Against"]
  /\ proposal' = [proposal EXCEPT ![id].eta = ledger + config.timelock_delay,
                                  ![id].status = "Queued"]
  /\ UNCHANGED <<ledger, config, balances, allowance, voting, count, receipt, closing>>

\* execute: anyone may call it.  The call of the target contract is code of
\* others, which cannot re-enter this one; if it fails the whole call does.
Execute(id) ==
  LET p == proposal[id] IN
  /\ p.status = "Queued"
  /\ ledger >= p.eta
  /\ ledger <= p.eta + config.grace_period
  /\ proposal' = [proposal EXCEPT ![id].status = "Executed"]
  /\ UNCHANGED <<ledger, config, balances, allowance, voting, count, receipt, closing>>

\* cancel, called by the proposer; the status is not looked at.
Cancel(id) ==
  /\ proposal[id] # NoProposal
  /\ ledger < proposal[id].start_time
  /\ proposal' = [proposal EXCEPT ![id].status = "Canceled"]
  /\ UNCHANGED <<ledger, config, balances, allowance, voting, count, receipt, closing>>

\* The current ledger closes.
NextLedger ==
  /\ ledger < MaxLedger
  /\ ledger' = ledger + 1
  /\ closing' = Append(closing, power)
  /\ UNCHANGED <<config, balances, allowance, voting, proposals>>

Next ==
  \/ \E c \in Configs : Initialize(c)
  \/ \E a \in Addr, m \in Amounts :
       \/ Mint(a, m)
       \/ Burn(a, m)
       \/ \E b \in Addr : Transfer(a, b, m)
       \/ \E s \in Spenders : Approve(a, s, m)
       \/ \E s \in Spenders, b \in Addr : TransferFrom(s, a, b, m)
  \/ \E a, b \in Addr : Delegate(a, b)
  \/ \E a \in Addr : Propose(a)
  \/ \E id \in Ids :
       \/ \E a \in Addr, v \in VoteType : Vote(a, id, v)
       \/ Queue(id)
       \/ Execute(id)
       \/ Cancel(id)
  \/ NextLedger

Spec == Init /\ [][Next]_vars

-----------------------------------------------------------------------------
(***************************************************************************)
(* Properties.                                                             *)
(***************************************************************************)
TypeOK ==
  /\ ledger \in Nat
  /\ config \in GovernanceConfig \cup {NoConfig}
  /\ bal \in [Addr -> Nat]
  /\ supply \in Nat
  /\ allowance \in [Addr -> [Spenders -> Nat]]
  /\ delegate \in [Addr -> Addr]
  /\ power \in [Addr -> Nat]
  /\ ckpts \in [Addr -> Seq(Checkpoint)]
  /\ count \in 0 .. MaxProposals
  /\ proposal \in [Ids -> Proposal \cup {NoProposal}]
  /\ receipt \in [Ids -> [Addr -> VoteReceipt \cup {NoReceipt}]]
  /\ closing \in Seq([Addr -> Nat])

\* The balances of those who delegate to account a.
Delegated(a) == [b \in Addr |-> IF delegate[b] = a THEN bal[b] ELSE 0]

\* The voting power of an account is what the holders who delegate to it
\* own, and the supply is what all own: no order of mints, burns, transfers
\* and changes of delegates creates or loses voting power.
PowerIsDelegated ==
  /\ supply = Total(bal)
  /\ \A a \in Addr : power[a] = Total(Delegated(a))

\* get_past_votes answers, for every ledger that has closed, the power an
\* account had when it closed, however many changes happened in one ledger
\* and wherever the binary search has to look.
PastVotesTrue ==
  \A a \in Addr : \A s \in 1 .. ledger - 1 : FindPastVotes(ckpts[a], s) = closing[s][a]

\* The weights of the votes of one type on a proposal.
Weights(id, type) ==
  [a \in Addr |-> IF receipt[id][a] # NoReceipt /\ receipt[id][a].vote_type = type
                    THEN receipt[id][a].weight ELSE 0]

\* A proposal is queued or executed only if the receipts of its voters, one
\* vote each, make up its quorum and a majority; tallies and receipts agree.
QueuedByMajority ==
  \A id \in Ids :
    LET for == Total(Weights(id, "For"))
        against == Total(Weights(id, "Against"))
        abstain == Total(Weights(id, "Abstain"))
    IN proposal[id].status \in {"Queued", "Executed"} =>
         /\ for > against
         /\ for + against + abstain >= proposal[id].quorum
         /\ proposal[id].votes = [t \in VoteType |-> Total(Weights(id, t))]

\* A voter whose power counted at the snapshot votes with exactly the power
\* of that ledger's close, whatever happened to its tokens since (when voting
\* starts after the ledger of the proposal).
SnapshotHonoured ==
  \A id \in Ids : \A a \in Addr :
    LET p == proposal[id] IN
    /\ p # NoProposal /\ p.start_time > p.snapshot_sequence
    /\ receipt[id][a] # NoReceipt
    => LET past == closing[p.snapshot_sequence][a] IN
       past # 0 => receipt[id][a].weight = past

\* Once voting on a proposal is over its outcome is settled: its votes never
\* change, it can no longer be cancelled, it is queued at most once, and it is
\* executed only within the grace period after a timelock that began after
\* the end of voting.
OutcomeSettled ==
  [][\A id \in Ids :
       LET p == proposal[id]
           q == proposal'[id]
       IN p # NoProposal /\ ledger > p.end_time =>
            /\ q.votes = p.votes /\ q.quorum = p.quorum
            /\ p.status \in {"Executed", "Canceled"} => q = p
            /\ p.status = "Queued" => q.eta = p.eta /\ q.status \in {"Queued", "Executed"}
            /\ p.status # "Executed" /\ q.status = "Executed" =>
                 /\ ledger > p.end_time + config.timelock_delay
                 /\ ledger - p.eta \in 0 .. config.grace_period]_vars

\* The weight of every vote is read from the snapshot taken at the creation
\* of the proposal, as the comment of vote says.
WeightFromSnapshot ==
  \A id \in Ids : \A a \in Addr :
    LET p == proposal[id] IN
    /\ p # NoProposal /\ p.start_time > p.snapshot_sequence
    /\ receipt[id][a] # NoReceipt
    => receipt[id][a].weight = closing[p.snapshot_sequence][a]

=============================================================================
