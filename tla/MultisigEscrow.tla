--------------------------- MODULE MultisigEscrow ---------------------------
(***************************************************************************)
(* The M-of-N escrow contract (contracts/multisig_escrow).                 *)
(*                                                                         *)
(* Every entry point is one action: a Soroban call is atomic, and a call   *)
(* that returns an error or panics (in a nested token transfer too) leaves *)
(* no trace, so the error paths are the guards.  Storage keys that a       *)
(* contract has not written yet are read with unwrap_or(0) or as "absent"; *)
(* they are modelled by the value they are read as.  Who may call an entry *)
(* point (require_auth) is the parameter the action takes.                 *)
(***************************************************************************)
EXTENDS Integers, Sequences, FiniteSets, TokenUnits

CONSTANTS
  Addr,          \* accounts that can sign calls
  Self,          \* the address of the escrow contract
  Token,         \* token contracts
  None,          \* the absent arbitrator
  Offers,        \* the arguments that create_escrow is called with
  InitBalance,   \* what every account owns of every token at the start
  MaxEscrows,    \* bound on the number of escrows
  MaxTime        \* bound on the ledger timestamp

Account == Addr \cup {Self}
Ids == 1 .. MaxEscrows

VoteAction == {"ApproveRelease", "ApproveRefund"}
DisputeResolution == {"Release", "Refund", "Split"}
DisputeStage == {"none", "open"} \cup DisputeResolution
EscrowState == {"Pending", "Active", "Released", "Refunded",
                "Disputed", "Cancelled", "Expired"}

\* The arguments of create_escrow.  Its amount may be zero or negative and
\* its signers a list of any length with repetitions: the guards refuse them.
Offer == [depositor : Addr, beneficiary : Account, token : Token, amount : Int,
          signers : Seq(Addr), threshold : Nat, arbitrator : Addr \cup {None},
          expires_at : Nat]

\* A stored escrow.  The dispute list is empty, holds an open dispute, or
\* holds one that is stamped with its resolution.
Escrow == [depositor : Addr, beneficiary : Account, token : Token, amount : Nat,
           signers : SUBSET Addr, threshold : Nat, arbitrator : Addr \cup {None},
           expires_at : Nat, funded : BOOLEAN, state : EscrowState,
           dispute : DisputeStage]

NoEscrow == [state |-> "Absent"]
NoVote == "NoVote"

ASSUME AddrAssumption == Self \notin Addr /\ None \notin Addr /\ IsFiniteSet(Addr)
ASSUME OfferAssumption == Offers \subseteq Offer
ASSUME BoundAssumption == InitBalance \in Nat /\ MaxEscrows \in Nat /\ MaxTime \in Nat

VARIABLES
  now,            \* ledger timestamp
  bal,            \* token balances, kept by the token contracts
  initialized,    \* DataKey::Admin is set
  counter,        \* DataKey::EscrowCounter
  escrow,         \* DataKey::Escrow(id)
  vote,           \* DataKey::Vote(id, signer)
  releaseCount,   \* DataKey::ReleaseCount(id)
  refundCount     \* DataKey::RefundCount(id)

vars == <<now, bal, initialized, counter, escrow, vote, releaseCount, refundCount>>
votes == <<vote, releaseCount, refundCount>>

Init ==
  /\ now = 0
  /\ bal = [t \in Token |-> [a \in Account |-> IF a = Self THEN 0 ELSE InitBalance]]
  /\ initialized = FALSE
  /\ counter = 0
  /\ escrow = [i \in Ids |-> NoEscrow]
  /\ vote = [i \in Ids |-> [a \in Addr |-> NoVote]]
  /\ releaseCount = [i \in Ids |-> 0]
  /\ refundCount = [i \in Ids |-> 0]

\* token::Client::transfer, which panics when the balance is too small: the
\* balances b after moving the amount m.
Transfer(b, from, to, m) == [[b EXCEPT ![from] = @ - m] EXCEPT ![to] = @ + m]

\* The contract pays m of token t to an account.
Pay(t, to, m) ==
  /\ bal[t][Self] >= m
  /\ bal' = [bal EXCEPT ![t] = Transfer(@, Self, to, m)]

-----------------------------------------------------------------------------
\* initialize
Initialize ==
  /\ ~initialized
  /\ initialized' = TRUE
  /\ counter' = 0
  /\ UNCHANGED <<now, bal, escrow, votes>>

\* has_duplicates
HasDuplicates(list) == \E i, j \in 1 .. Len(list) : i < j /\ list[i] = list[j]

Members(list) == {list[i] : i \in 1 .. Len(list)}

\* Mutated form: the amount is not checked.
ValidOfferOfAnyAmount(o) ==
  /\ o.signers # <<>>
  /\ o.threshold # 0 /\ o.threshold <= Len(o.signers)
  /\ ~HasDuplicates(o.signers)
  /\ \A s \in Members(o.signers) : s # o.depositor /\ s # o.beneficiary
  /\ o.expires_at > now

ValidOffer(o) ==
  /\ o.amount > 0
  /\ o.signers # <<>>
  /\ o.threshold # 0 /\ o.threshold <= Len(o.signers)
  /\ ~HasDuplicates(o.signers)
  /\ \A s \in Members(o.signers) : s # o.depositor /\ s # o.beneficiary
  /\ o.expires_at > now

\* create_escrow
CreateEscrow(o) ==
  /\ initialized
  /\ counter < MaxEscrows
  /\ ValidOffer(o)
  /\ counter' = counter + 1
  /\ escrow' = [escrow EXCEPT ![counter + 1] =
        [depositor |-> o.depositor, beneficiary |-> o.beneficiary, token |-> o.token,
         amount |-> o.amount, signers |-> Members(o.signers), threshold |-> o.threshold,
         arbitrator |-> o.arbitrator, expires_at |-> o.expires_at,
         funded |-> FALSE, state |-> "Pending", dispute |-> "none"]]
  /\ UNCHANGED <<now, bal, initialized, votes>>

\* Mutated form: the deposit is recorded but not transferred.
FundEscrowOnPaper(id) ==
  LET e == escrow[id] IN
  /\ e.state = "Pending" /\ ~e.funded
  /\ escrow' = [escrow EXCEPT ![id].funded = TRUE, ![id].state = "Active"]
  /\ UNCHANGED <<now, bal, initialized, counter, votes>>

\* fund_escrow, called by the depositor
FundEscrow(id) ==
  LET e == escrow[id] IN
  /\ e.state = "Pending"
  /\ ~e.funded
  /\ bal[e.token][e.depositor] >= e.amount
  /\ bal' = [bal EXCEPT ![e.token] = Transfer(@, e.depositor, Self, e.amount)]
  /\ escrow' = [escrow EXCEPT ![id].funded = TRUE, ![id].state = "Active"]
  /\ UNCHANGED <<now, initialized, counter, votes>>

\* Mutated form: a signer may vote again.
SignApproveAgain(id, signer, action) ==
  /\ escrow[id].state = "Active"
  /\ signer \in escrow[id].signers
  /\ vote' = [vote EXCEPT ![id][signer] = action]
  /\ releaseCount' = [releaseCount EXCEPT ![id] =
                        IF action = "ApproveRelease" THEN @ + 1 ELSE @]
  /\ refundCount' = [refundCount EXCEPT ![id] =
                       IF action = "ApproveRefund" THEN @ + 1 ELSE @]
  /\ UNCHANGED <<now, bal, initialized, counter, escrow>>

\* sign_approve
SignApprove(id, signer, action) ==
  /\ escrow[id].state = "Active"
  /\ signer \in escrow[id].signers
  /\ vote[id][signer] = NoVote
  /\ vote' = [vote EXCEPT ![id][signer] = action]
  /\ \/ /\ action = "ApproveRelease"
        /\ releaseCount' = [releaseCount EXCEPT ![id] = @ + 1]
        /\ UNCHANGED refundCount
     \/ /\ action = "ApproveRefund"
        /\ refundCount' = [refundCount EXCEPT ![id] = @ + 1]
        /\ UNCHANGED releaseCount
  /\ UNCHANGED <<now, bal, initialized, counter, escrow>>

\* release_funds: anyone may call it
ReleaseFunds(id) ==
  LET e == escrow[id] IN
  /\ e.state = "Active"
  /\ e.funded
  /\ releaseCount[id] >= e.threshold
  /\ Pay(e.token, e.beneficiary, e.amount)
  /\ escrow' = [escrow EXCEPT ![id].state = "Released"]
  /\ UNCHANGED <<now, initialized, counter, votes>>

\* refund_funds: anyone may call it
RefundFunds(id) ==
  LET e == escrow[id] IN
  /\ e.state = "Active"
  /\ e.funded
  /\ refundCount[id] >= e.threshold
  /\ Pay(e.token, e.depositor, e.amount)
  /\ escrow' = [escrow EXCEPT ![id].state = "Refunded"]
  /\ UNCHANGED <<now, initialized, counter, votes>>

\* raise_dispute, called by the depositor or the beneficiary
RaiseDispute(id, caller) ==
  LET e == escrow[id] IN
  /\ e.state = "Active"
  /\ e.dispute = "none"
  /\ e.arbitrator # None
  /\ caller \in {e.depositor, e.beneficiary}
  /\ escrow' = [escrow EXCEPT ![id].dispute = "open", ![id].state = "Disputed"]
  /\ UNCHANGED <<now, bal, initialized, counter, votes>>

\* Mutated form: both halves are rounded up.
PaySplitRoundedUp(e) ==
  LET half == (e.amount + 1) \div 2
  IN /\ bal[e.token][Self] >= e.amount
     /\ bal' = [bal EXCEPT ![e.token] =
                  Transfer(Transfer(@, Self, e.beneficiary, half),
                           Self, e.depositor, half)]

\* The two transfers of a Split: the beneficiary gets the floor of the half,
\* the depositor the rest.
PaySplit(e) ==
  LET half == e.amount \div 2
      remainder == e.amount - half
  IN /\ bal[e.token][Self] >= e.amount
     /\ bal' = [bal EXCEPT ![e.token] =
                  Transfer(Transfer(@, Self, e.beneficiary, half),
                           Self, e.depositor, remainder)]

\* resolve_dispute, called by the arbitrator
ResolveDispute(id, arbitrator, resolution) ==
  LET e == escrow[id] IN
  /\ e.state = "Disputed"
  /\ e.arbitrator = arbitrator
  /\ e.funded
  /\ \/ /\ resolution = "Release"
        /\ Pay(e.token, e.beneficiary, e.amount)
     \/ /\ resolution = "Refund"
        /\ Pay(e.token, e.depositor, e.amount)
     \/ /\ resolution = "Split"
        /\ PaySplit(e)
  /\ escrow' = [escrow EXCEPT
        ![id].state = IF resolution = "Refund" THEN "Refunded" ELSE "Released",
        ![id].dispute = resolution]
  /\ UNCHANGED <<now, initialized, counter, votes>>

\* Mutated form: an escrow that was never funded is paid back as well.
GiveBackUnfunded(id, final) ==
  LET e == escrow[id] IN
  /\ Pay(e.token, e.depositor, e.amount)
  /\ escrow' = [escrow EXCEPT ![id].state = final, ![id].funded = FALSE]

\* What cancel_escrow and expire_escrow do with the deposit and the record.
GiveBack(id, final) ==
  LET e == escrow[id] IN
  /\ \/ e.funded /\ Pay(e.token, e.depositor, e.amount)
     \/ ~e.funded /\ UNCHANGED bal
  /\ escrow' = [escrow EXCEPT ![id].state = final, ![id].funded = FALSE]

\* Mutated form: only the votes for release stop a cancellation.
CancelEscrowAgainstRefundVotes(id) ==
  /\ \/ escrow[id].state = "Pending"
     \/ escrow[id].state = "Active" /\ releaseCount[id] = 0
  /\ GiveBack(id, "Cancelled")
  /\ UNCHANGED <<now, initialized, counter, votes>>

\* cancel_escrow, called by the depositor
CancelEscrow(id) ==
  /\ \/ escrow[id].state = "Pending"
     \/ escrow[id].state = "Active" /\ releaseCount[id] + refundCount[id] = 0
  /\ GiveBack(id, "Cancelled")
  /\ UNCHANGED <<now, initialized, counter, votes>>

\* Mutated form: only disputed escrows are protected from expiry.
ExpireEscrowUnlessDisputed(id) ==
  /\ escrow[id].state \notin {"Absent", "Disputed"}
  /\ now > escrow[id].expires_at
  /\ GiveBack(id, "Expired")
  /\ UNCHANGED <<now, initialized, counter, votes>>

\* Mutated form: a funded escrow cannot be expired.
ExpireEscrowPending(id) ==
  /\ escrow[id].state = "Pending"
  /\ now > escrow[id].expires_at
  /\ GiveBack(id, "Expired")
  /\ UNCHANGED <<now, initialized, counter, votes>>

\* expire_escrow: anyone may call it
ExpireEscrow(id) ==
  /\ escrow[id].state \in {"Pending", "Active"}
  /\ now > escrow[id].expires_at
  /\ GiveBack(id, "Expired")
  /\ UNCHANGED <<now, initialized, counter, votes>>

\* Time passes between ledgers.
Tick ==
  /\ now < MaxTime
  /\ now' = now + 1
  /\ UNCHANGED <<bal, initialized, counter, escrow, votes>>

Next ==
  \/ Initialize
  \/ \E o \in Offers : CreateEscrow(o)
  \/ \E id \in Ids :
       \/ FundEscrow(id)
       \/ \E s \in Addr, v \in VoteAction : SignApprove(id, s, v)
       \/ ReleaseFunds(id)
       \/ RefundFunds(id)
       \/ \E c \in Addr : RaiseDispute(id, c)
       \/ \E a \in Addr, r \in DisputeResolution : ResolveDispute(id, a, r)
       \/ CancelEscrow(id)
       \/ ExpireEscrow(id)
  \/ Tick

Spec == Init /\ [][Next]_vars

\* Time passes, and somebody calls expire_escrow when it can succeed: it asks
\* for no authorisation, so every account, the depositor first, can.
FairSpec == Spec /\ WF_vars(Tick) /\ \A id \in Ids : WF_vars(ExpireEscrow(id))

-----------------------------------------------------------------------------
(***************************************************************************)
(* Properties.                                                             *)
(***************************************************************************)
TypeOK ==
  /\ now \in Nat
  /\ bal \in [Token -> [Account -> Nat]]
  /\ initialized \in BOOLEAN
  /\ counter \in 0 .. MaxEscrows
  /\ escrow \in [Ids -> Escrow \cup {NoEscrow}]
  /\ vote \in [Ids -> [Addr -> VoteAction \cup {NoVote}]]
  /\ releaseCount \in [Ids -> Nat]
  /\ refundCount \in [Ids -> Nat]

\* The contract holds the deposit of these escrows.
Holding(e) == e.state \in {"Active", "Disputed"}

Final(e) == e.state \in {"Released", "Refunded", "Cancelled", "Expired"}

Owed == [t \in Token |-> [i \in Ids |->
          IF Holding(escrow[i]) /\ escrow[i].token = t THEN escrow[i].amount ELSE 0]]

Pool == [t \in Token |-> bal[t][Self]]

\* The escrow contract keeps what the custody of tokens promises: deposits
\* reach it in full before an escrow counts as Active, and no entry point
\* pays out more than the escrow it closes ("Funds held securely").
Vault == INSTANCE Custody WITH Slot <- Ids, pool <- Pool, owed <- Owed
Custodian == Vault!Spec

\* For each token the contract's balance covers the deposits of all the
\* escrows that are Active or Disputed, so that no transfer of release_funds,
\* refund_funds, resolve_dispute, cancel_escrow or expire_escrow can fail.
Solvent == Vault!Solvent

Voters(id, action) == {s \in Addr : vote[id][s] = action}

\* ReleaseCount and RefundCount, which are stored apart from the votes, are
\* the numbers of distinct signers of the escrow who voted that way.
VotesCounted ==
  \A id \in Ids :
    /\ releaseCount[id] = Cardinality(Voters(id, "ApproveRelease"))
    /\ refundCount[id] = Cardinality(Voters(id, "ApproveRefund"))
    /\ escrow[id] # NoEscrow =>
         \A s \in Addr : vote[id][s] # NoVote => s \in escrow[id].signers

\* With a majority threshold, release_funds and refund_funds are never both
\* open for an escrow, whatever the signers do: nobody can win a race of the
\* two calls.
NoRivalQuorums ==
  \A id \in Ids :
    LET e == escrow[id] IN
    e # NoEscrow /\ 2 * e.threshold > Cardinality(e.signers) =>
      ~(releaseCount[id] >= e.threshold /\ refundCount[id] >= e.threshold)

\* How escrow id may change while it is Active.
LeavesActive(id) ==
  LET e == escrow[id]
      final == escrow'[id].state
  IN \/ final = "Active"
     \/ /\ final = "Released"
        /\ Cardinality(Voters(id, "ApproveRelease") \cap e.signers) >= e.threshold
     \/ /\ final = "Refunded"
        /\ Cardinality(Voters(id, "ApproveRefund") \cap e.signers) >= e.threshold
     \/ final = "Cancelled" /\ \A s \in e.signers : vote[id][s] = NoVote
     \/ final = "Expired" /\ now > e.expires_at
     \/ final = "Disputed" /\ e.arbitrator # None

\* An escrow leaves Active for a reason: Released and Refunded only with
\* threshold many distinct votes of its signers, Cancelled only before any
\* vote, Expired only after its time, Disputed only if an arbitrator exists.
LeavesActiveForAReason ==
  [][\A id \in Ids : escrow[id].state = "Active" => LeavesActive(id)]_vars

\* A closed escrow is never touched again: no entry point pays for it a
\* second time, reopens it or changes how it ended.
ClosedForGood ==
  [][\A id \in Ids : Final(escrow[id]) => escrow'[id] = escrow[id]]_vars

\* Closing a funded escrow pays out its whole amount, to its depositor and
\* its beneficiary and to nobody else; the two halves of a Split add up to
\* the amount (escrows that name the contract itself as the beneficiary
\* excepted).
PaidInFull ==
  [][\A id \in Ids :
       Holding(escrow[id]) /\ Final(escrow'[id]) =>
         LET e == escrow[id]
             parties == {e.depositor, e.beneficiary}
         IN /\ \A a \in Addr \ parties : bal'[e.token][a] = bal[e.token][a]
            /\ e.beneficiary # Self =>
                 Total([a \in parties |-> bal'[e.token][a]])
                   = Total([a \in parties |-> bal[e.token][a]]) + e.amount]_vars

\* A funded escrow does not stay Active for ever, even if no signer ever
\* votes: it can be expired by anyone once its time has passed.
ActiveEnds == \A id \in Ids : escrow[id].state = "Active" ~> escrow[id].state # "Active"

=============================================================================
