------------------------ MODULE RoyaltyDistribution ------------------------
(***************************************************************************)
(* The royalty distribution contract (contracts/royalty_distribution):     *)
(* royalties are divided among a list of recipients at once and wait in    *)
(* the contract until the recipients withdraw; the admin can empty the     *)
(* contract a week after asking to.                                        *)
(*                                                                         *)
(* As in MultisigEscrow a call is one action and its error paths are its   *)
(* guards.  The histories and totals, which the contract never reads, are  *)
(* left out.                                                               *)
(***************************************************************************)
EXTENDS Integers, Sequences, FiniteSets, TokenUnits

CONSTANTS
  Addr,               \* accounts
  Self,               \* the address of the contract
  Token,              \* token contracts
  Royalty,            \* the token the contract is initialized with
  Payers,             \* the accounts that call distribute
  Creators,           \* the accounts that become recipients
  RoyaltyShares,      \* the basis points that entry points are called with
  Amounts,            \* the amounts that entry points are called with
  BpsDenominator,     \* BPS_DENOMINATOR
  MAX_RECIPIENTS,
  EMERGENCY_TIMELOCK,
  InitBalance,        \* what every account owns of every token at the start
  MaxTime             \* bound on the ledger timestamp

Account == Addr \cup {Self}

VARIABLES
  now,              \* ledger timestamp
  bal,              \* token balances, kept by the token contracts
  configured,       \* DataKey::Config is set
  requestedAt,      \* Config: emergency_requested_at if requested, else NotRequested
  recipients,       \* DataKey::Recipients
  recipientIndex,   \* DataKey::RecipientIndex(address), 0 if absent
  pendingBalance    \* DataKey::PendingBalance(address)

vars == <<now, bal, configured, requestedAt, recipients, recipientIndex, pendingBalance>>

NotRequested == MaxTime + 1

Init ==
  /\ now = 0
  /\ bal = [t \in Token |-> [a \in Account |-> IF a = Self THEN 0 ELSE InitBalance]]
  /\ configured = FALSE
  /\ requestedAt = NotRequested
  /\ recipients = <<>>
  /\ recipientIndex = [a \in Addr |-> 0]
  /\ pendingBalance = [a \in Addr |-> 0]

\* token::Client::transfer: the balances b after moving the amount m.
Transfer(b, from, to, m) == [[b EXCEPT ![from] = @ - m] EXCEPT ![to] = @ + m]

Positions == 1 .. Len(recipients)

\* The sum of the shares of the recipients at the positions P.
TotalBps(P) == Total([i \in P |-> recipients[i].basis_points])

-----------------------------------------------------------------------------
\* initialize
Initialize ==
  /\ ~configured
  /\ configured' = TRUE
  /\ UNCHANGED <<now, bal, requestedAt, recipients, recipientIndex, pendingBalance>>

\* add_recipient, called by the admin.  Positions count from 1 here.
AddRecipient(a, bps) ==
  /\ configured
  /\ bps \in 1 .. BpsDenominator
  /\ Len(recipients) < MAX_RECIPIENTS
  /\ recipientIndex[a] = 0
  /\ TotalBps(Positions) + bps <= BpsDenominator
  /\ recipients' = Append(recipients, [address |-> a, basis_points |-> bps])
  /\ recipientIndex' = [recipientIndex EXCEPT ![a] = Len(recipients) + 1]
  /\ pendingBalance' = [pendingBalance EXCEPT ![a] = 0]
  /\ UNCHANGED <<now, bal, configured, requestedAt>>

\* withdraw_to_recipient, the payment
PayRecipient(a, m) ==
  /\ bal[Royalty][Self] >= m
  /\ bal' = [bal EXCEPT ![Royalty] = Transfer(@, Self, a, m)]

\* Mutated form: the positions after the removed one keep their index.
ReindexedNever(list, a) == [recipientIndex EXCEPT ![a] = 0]

\* remove_recipient: RecipientIndex after a left, with list what remains.
Reindexed(list, a) ==
  [b \in Addr |->
     IF b = a THEN 0
     ELSE IF \E i \in 1 .. Len(list) : i >= recipientIndex[a] /\ list[i].address = b
     THEN CHOOSE i \in 1 .. Len(list) : i >= recipientIndex[a] /\ list[i].address = b
     ELSE recipientIndex[b]]

\* remove_recipient, called by the admin
RemoveRecipient(a) ==
  LET index == recipientIndex[a]
      rest == SubSeq(recipients, 1, index - 1) \o SubSeq(recipients, index + 1, Len(recipients))
  IN /\ configured
     /\ index # 0
     /\ \/ pendingBalance[a] > 0 /\ PayRecipient(a, pendingBalance[a])
        \/ pendingBalance[a] <= 0 /\ UNCHANGED bal
     /\ recipients' = rest
     /\ recipientIndex' = Reindexed(rest, a)
     /\ pendingBalance' = [pendingBalance EXCEPT ![a] = 0]
     /\ UNCHANGED <<now, configured, requestedAt>>

\* update_recipient_share, called by the admin: the new share is assigned to a
\* copy of the recipient, and the list is stored as it was.
UpdateRecipientShare(a, bps) ==
  /\ configured
  /\ bps \in 1 .. BpsDenominator
  /\ recipientIndex[a] # 0
  /\ TotalBps(Positions \ {recipientIndex[a]}) + bps <= BpsDenominator
  /\ recipients' = recipients
  /\ UNCHANGED <<now, bal, configured, requestedAt, recipientIndex, pendingBalance>>

\* What the recipient at position i gets of an amount, rounded down.
FloorShare(amount, i) == (amount * recipients[i].basis_points) \div TotalBps(Positions)

\* Mutated form: the last recipient gets a rounded share too.
ShareWithoutRest(amount, i) == FloorShare(amount, i)

\* distribute: the last recipient gets what is left
ShareOf(amount, i) ==
  IF i = Len(recipients)
    THEN amount - Total([j \in 1 .. i - 1 |-> FloorShare(amount, j)])
    ELSE FloorShare(amount, i)

\* distribute, called by the payer
Distribute(from, amount) ==
  /\ configured
  /\ amount > 0
  /\ recipients # <<>>
  /\ bal[Royalty][from] >= amount
  /\ bal' = [bal EXCEPT ![Royalty] = Transfer(@, from, Self, amount)]
  /\ pendingBalance' = [a \in Addr |->
       pendingBalance[a]
         + Total([i \in {j \in Positions : recipients[j].address = a} |-> ShareOf(amount, i)])]
  /\ UNCHANGED <<now, configured, requestedAt, recipients, recipientIndex>>

\* withdraw (everything) and withdraw_amount, called by the recipient
Withdraw(a, amount) ==
  /\ configured
  /\ amount > 0
  /\ amount <= pendingBalance[a]
  /\ PayRecipient(a, amount)
  /\ pendingBalance' = [pendingBalance EXCEPT ![a] = @ - amount]
  /\ UNCHANGED <<now, configured, requestedAt, recipients, recipientIndex>>

\* request_emergency_withdrawal, called by the admin
RequestEmergencyWithdrawal ==
  /\ configured
  /\ requestedAt = NotRequested
  /\ requestedAt' = now
  /\ UNCHANGED <<now, bal, configured, recipients, recipientIndex, pendingBalance>>

\* execute_emergency_withdrawal, called by the admin: everything leaves, what
\* is pending for the recipients included, and their claims stay.
ExecuteEmergencyWithdrawal(to) ==
  /\ configured
  /\ requestedAt # NotRequested
  /\ now >= requestedAt + EMERGENCY_TIMELOCK
  /\ bal[Royalty][Self] > 0
  /\ bal' = [bal EXCEPT ![Royalty] = Transfer(@, Self, to, @[Self])]
  /\ requestedAt' = NotRequested
  /\ UNCHANGED <<now, configured, recipients, recipientIndex, pendingBalance>>

\* cancel_emergency_withdrawal, called by the admin
CancelEmergencyWithdrawal ==
  /\ configured
  /\ requestedAt' = NotRequested
  /\ UNCHANGED <<now, bal, configured, recipients, recipientIndex, pendingBalance>>

\* Time passes between ledgers.
Tick ==
  /\ now < MaxTime
  /\ now' = now + 1
  /\ UNCHANGED <<bal, configured, requestedAt, recipients, recipientIndex, pendingBalance>>

Next ==
  \/ Initialize
  \/ \E a \in Creators :
       \/ \E bps \in RoyaltyShares : AddRecipient(a, bps) \/ UpdateRecipientShare(a, bps)
       \/ RemoveRecipient(a)
       \/ \E m \in Amounts \cup {pendingBalance[a]} : Withdraw(a, m)
  \/ \E p \in Payers, m \in Amounts : Distribute(p, m)
  \/ RequestEmergencyWithdrawal
  \/ \E to \in Payers : ExecuteEmergencyWithdrawal(to)
  \/ CancelEmergencyWithdrawal
  \/ Tick

Spec == Init /\ [][Next]_vars

-----------------------------------------------------------------------------
(***************************************************************************)
(* Properties.                                                             *)
(***************************************************************************)
\* RecipientIndex, stored apart from the list, always tells the position of a
\* recipient in it, so that remove_recipient and update_recipient_share act
\* on the recipient they are called for.
Indexed ==
  /\ \A a \in Addr : recipientIndex[a] # 0 =>
       recipientIndex[a] \in Positions /\ recipients[recipientIndex[a]].address = a
  /\ \A i \in Positions : recipientIndex[recipients[i].address] = i

\* The emergency withdrawal, at least a timelock after its request.
Drains ==
  /\ requestedAt # NotRequested
  /\ now >= requestedAt + EMERGENCY_TIMELOCK
  /\ bal'[Royalty][Self] = 0

\* What the contract holds beyond what is pending never changes but by an
\* emergency withdrawal: a distribution credits every unit of it ("no dust is
\* lost"), and nobody leaves with a unit that is not taken off its pending
\* balance, by being removed or re-added either.
Kept ==
  [][\/ Drains
     \/ bal'[Royalty][Self] - Total(pendingBalance') =
          bal[Royalty][Self] - Total(pendingBalance)]_vars

=============================================================================
