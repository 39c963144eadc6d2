---------------------------- MODULE RevenueShare ----------------------------
(***************************************************************************)
(* The revenue share agreements (contracts/revenue_share): deposits wait   *)
(* in the contract until anybody settles them, by the split the agreement  *)
(* has at that time; an agreement with period 0 pays every deposit out at  *)
(* once.                                                                   *)
(*                                                                         *)
(* As in MultisigEscrow a call is one action and its error paths are its   *)
(* guards.  The history, the counters of calls and last_settlement_at are  *)
(* written but never read by the contract and are left out.                *)
(***************************************************************************)
EXTENDS Integers, Sequences, FiniteSets, TokenUnits

CONSTANTS
  Addr,             \* accounts that can sign calls
  Self,             \* the address of the revenue share contract
  Token,            \* token contracts
  None,             \* no admin yet
  Admins,           \* the accounts that become admin
  Payers,           \* the accounts that deposit revenue
  Terms,            \* the arguments that create_agreement is called with
  Changes,          \* the arguments that modify_agreement is called with
  Amounts,          \* the amounts that deposit_revenue is called with
  BpsDenominator,   \* BPS_DENOMINATOR
  MaxBeneficiaries, \* MAX_BENEFICIARIES
  InitBalance,      \* what every account owns of every token at the start
  MaxAgreements,    \* bound on the number of agreements
  LastDeposit,      \* bound on the time of a deposit
  MaxTime           \* bound on the ledger timestamp

Account == Addr \cup {Self}
Ids == 1 .. MaxAgreements
Index == 1 .. MaxBeneficiaries

AgreementState == {"Active", "Disputed", "Paused", "Cancelled"}
DisputeResolution == {"Continue", "Cancel", "Pause"}
DisputeStage == {"none", "open"} \cup DisputeResolution

BeneficiaryShare == [address : Account, basis_points : Nat]

\* The arguments of create_agreement and of modify_agreement, which check them.
Term == [owner : Account, token : Token, beneficiaries : Seq(BeneficiaryShare),
         period : Nat, clawback_enabled : BOOLEAN, clawback_deadline : Nat]
Change == [beneficiaries : Seq(BeneficiaryShare), period : Nat]

Agreement == [owner : Account, token : Token, beneficiaries : Seq(BeneficiaryShare),
              period : Nat, next_settlement_at : Nat, clawback_enabled : BOOLEAN,
              clawback_deadline : Nat, state : AgreementState, received : Nat,
              distributed : Nat, clawed_back : Nat, unsettled : Nat,
              dispute : DisputeStage]

NoAgreement == [state |-> "Absent"]

ASSUME AddrAssumption ==
  /\ Self \notin Addr /\ None \notin Addr /\ IsFiniteSet(Addr)
  /\ Admins \subseteq Addr /\ Payers \subseteq Addr
ASSUME ArgumentAssumption == Terms \subseteq Term /\ Changes \subseteq Change /\ Amounts \subseteq Int
ASSUME BoundAssumption ==
  /\ BpsDenominator \in Nat \ {0} /\ MaxBeneficiaries \in Nat /\ InitBalance \in Nat
  /\ MaxAgreements \in Nat /\ LastDeposit \in Nat /\ MaxTime \in Nat

VARIABLES
  now,               \* ledger timestamp
  bal,               \* token balances, kept by the token contracts
  admin,             \* DataKey::Admin
  counter,           \* DataKey::AgreementCounter
  agreement,         \* DataKey::Agreement(id)
  beneficiaryTotal   \* DataKey::BeneficiaryTotal(id, index)

vars == <<now, bal, admin, counter, agreement, beneficiaryTotal>>

Init ==
  /\ now = 0
  /\ bal = [t \in Token |-> [a \in Account |-> IF a = Self THEN 0 ELSE InitBalance]]
  /\ admin = None
  /\ counter = 0
  /\ agreement = [id \in Ids |-> NoAgreement]
  /\ beneficiaryTotal = [id \in Ids |-> [i \in Index |-> 0]]

\* token::Client::transfer: the balances b after moving the amount m.
Transfer(b, from, to, m) == [[b EXCEPT ![from] = @ - m] EXCEPT ![to] = @ + m]

-----------------------------------------------------------------------------
(***************************************************************************)
(* Shares and settlement.                                                  *)
(***************************************************************************)
Indices(split) == 1 .. Len(split)

\* Mutated form: shares are rounded up.
SharesRoundedUp(split, amount) ==
  [i \in Indices(split) |->
     (amount * split[i].basis_points + BpsDenominator - 1) \div BpsDenominator]

\* compute_shares
Shares(split, amount) ==
  [i \in Indices(split) |-> (amount * split[i].basis_points) \div BpsDenominator]

\* What create_agreement and modify_agreement demand of a list of beneficiaries.
ValidSplit(split) ==
  /\ Len(split) \in Index
  /\ \A i \in Indices(split) : split[i].basis_points \in 1 .. BpsDenominator
  /\ \A i, j \in Indices(split) : split[i].address = split[j].address => i = j
  /\ Total([i \in Indices(split) |-> split[i].basis_points]) <= BpsDenominator

\* The owner's share: the rest, paid if it is positive.
OwnerShare(split, amount) ==
  LET rest == amount - Total(Shares(split, amount)) IN IF rest > 0 THEN rest ELSE 0

\* settle_in_place, the transfers: the balances b of the agreement's token
\* after amount has been paid out.
PaidOut(b, ag, amount) ==
  LET share == Shares(ag.beneficiaries, amount)
      rest == OwnerShare(ag.beneficiaries, amount)
      of(a) == {i \in Indices(ag.beneficiaries) : ag.beneficiaries[i].address = a}
  IN [a \in Account |->
        b[a] + Total([i \in of(a) |-> share[i]])
             + (IF a = ag.owner THEN rest ELSE 0)
             - (IF a = Self THEN Total(share) + rest ELSE 0)]

\* settle_in_place, the running totals of the beneficiaries.
Credited(totals, split, amount) ==
  [i \in Index |->
     totals[i] + (IF i \in Indices(split) THEN Shares(split, amount)[i] ELSE 0)]

\* settle_in_place, the agreement record.
Settled(ag) == [ag EXCEPT !.distributed = @ + ag.unsettled, !.unsettled = 0]

\* now.saturating_add(period), or 0 for an agreement that pays at once
NextSettlement(period) == IF period = 0 THEN 0 ELSE now + period

-----------------------------------------------------------------------------
\* initialize
Initialize(a) ==
  /\ admin = None
  /\ admin' = a
  /\ counter' = 0
  /\ UNCHANGED <<now, bal, agreement, beneficiaryTotal>>

\* set_admin, called by the admin
SetAdmin(a) ==
  /\ admin # None
  /\ admin' = a
  /\ UNCHANGED <<now, bal, counter, agreement, beneficiaryTotal>>

\* create_agreement, called by the owner
CreateAgreement(t) ==
  /\ admin # None
  /\ counter < MaxAgreements
  /\ ValidSplit(t.beneficiaries)
  /\ counter' = counter + 1
  /\ agreement' = [agreement EXCEPT ![counter + 1] =
        [owner |-> t.owner, token |-> t.token, beneficiaries |-> t.beneficiaries,
         period |-> t.period, next_settlement_at |-> NextSettlement(t.period),
         clawback_enabled |-> t.clawback_enabled, clawback_deadline |-> t.clawback_deadline,
         state |-> "Active", received |-> 0, distributed |-> 0, clawed_back |-> 0,
         unsettled |-> 0, dispute |-> "none"]]
  /\ UNCHANGED <<now, bal, admin, beneficiaryTotal>>

\* deposit_revenue of an agreement that pays at once: the deposit is settled,
\* but the agreement record with the new totals is not stored.
PayAtOnce(id, amount, b) ==
  LET ag == agreement[id]
      due == ag.unsettled + amount
  IN /\ bal' = [bal EXCEPT ![ag.token] = PaidOut(b, ag, due)]
     /\ beneficiaryTotal' = [beneficiaryTotal EXCEPT ![id] =
                               Credited(@, ag.beneficiaries, due)]
     /\ UNCHANGED agreement

\* deposit_revenue of an agreement with a settlement period
Accumulate(id, amount, b) ==
  /\ bal' = [bal EXCEPT ![agreement[id].token] = b]
  /\ agreement' = [agreement EXCEPT ![id].received = @ + amount, ![id].unsettled = @ + amount]
  /\ UNCHANGED beneficiaryTotal

\* Mutated form: a disputed or paused agreement takes deposits.
DepositRevenueUnlessCancelled(id, from, amount) ==
  LET ag == agreement[id]
      b == Transfer(bal[ag.token], from, Self, amount)
  IN /\ now <= LastDeposit
     /\ amount > 0
     /\ ag.state \notin {"Absent", "Cancelled"}
     /\ bal[ag.token][from] >= amount
     /\ IF ag.period = 0 THEN PayAtOnce(id, amount, b) ELSE Accumulate(id, amount, b)
     /\ UNCHANGED <<now, admin, counter>>

\* deposit_revenue
DepositRevenue(id, from, amount) ==
  LET ag == agreement[id]
      b == Transfer(bal[ag.token], from, Self, amount)
  IN /\ now <= LastDeposit
     /\ amount > 0
     /\ ag.state = "Active"
     /\ bal[ag.token][from] >= amount
     /\ IF ag.period = 0 THEN PayAtOnce(id, amount, b) ELSE Accumulate(id, amount, b)
     /\ UNCHANGED <<now, admin, counter>>

\* settle_in_place on a stored agreement, which becomes next.
Settle(id, next) ==
  LET ag == agreement[id] IN
  /\ bal[ag.token][Self] >= ag.unsettled
  /\ bal' = [bal EXCEPT ![ag.token] = PaidOut(@, ag, ag.unsettled)]
  /\ beneficiaryTotal' = [beneficiaryTotal EXCEPT ![id] =
                            Credited(@, ag.beneficiaries, ag.unsettled)]
  /\ agreement' = [agreement EXCEPT ![id] = next]

\* Mutated form: settlement waits for another period.
SettleDistributionLate(id) ==
  LET ag == agreement[id] IN
  /\ ag.state = "Active"
  /\ ag.period # 0
  /\ now > ag.next_settlement_at + ag.period
  /\ ag.unsettled > 0
  /\ Settle(id, [Settled(ag) EXCEPT !.next_settlement_at = NextSettlement(ag.period)])
  /\ UNCHANGED <<now, admin, counter>>

\* settle_distribution: anyone may call it
SettleDistribution(id) ==
  LET ag == agreement[id] IN
  /\ ag.state = "Active"
  /\ ag.period # 0
  /\ now >= ag.next_settlement_at
  /\ ag.unsettled > 0
  /\ Settle(id, [Settled(ag) EXCEPT !.next_settlement_at = NextSettlement(ag.period)])
  /\ UNCHANGED <<now, admin, counter>>

\* Mutated form: the amount stays recorded as unsettled.
ClawBackOnly(id, next) ==
  LET ag == agreement[id] IN
  /\ bal[ag.token][Self] >= ag.unsettled
  /\ bal' = [bal EXCEPT ![ag.token] = Transfer(@, Self, ag.owner, ag.unsettled)]
  /\ agreement' = [agreement EXCEPT ![id] = [next EXCEPT !.clawed_back = @ + ag.unsettled]]

\* What clawback_unsettled and a cancellation do: the unsettled amount goes
\* back to the owner, and the agreement becomes next otherwise.
ClawBack(id, next) ==
  LET ag == agreement[id] IN
  /\ bal[ag.token][Self] >= ag.unsettled
  /\ bal' = [bal EXCEPT ![ag.token] = Transfer(@, Self, ag.owner, ag.unsettled)]
  /\ agreement' = [agreement EXCEPT ![id] =
       [next EXCEPT !.clawed_back = @ + ag.unsettled, !.unsettled = 0]]

\* clawback_unsettled, called by the owner
ClawbackUnsettled(id) ==
  LET ag == agreement[id] IN
  /\ ag.state = "Active"
  /\ ag.clawback_enabled
  /\ ag.clawback_deadline # 0 => now <= ag.clawback_deadline
  /\ ag.unsettled > 0
  /\ ClawBack(id, ag)
  /\ UNCHANGED <<now, admin, counter, beneficiaryTotal>>

\* raise_dispute, called by the owner or a beneficiary
RaiseDispute(id, caller) ==
  LET ag == agreement[id] IN
  /\ ag.state = "Active"
  /\ ag.dispute = "none"
  /\ \/ caller = ag.owner
     \/ \E i \in Indices(ag.beneficiaries) : ag.beneficiaries[i].address = caller
  /\ agreement' = [agreement EXCEPT ![id].dispute = "open", ![id].state = "Disputed"]
  /\ UNCHANGED <<now, bal, admin, counter, beneficiaryTotal>>

\* resolve_dispute, called by the admin
ResolveDispute(id, resolution) ==
  LET ag == agreement[id]
      stamped(state) == [ag EXCEPT !.dispute = resolution, !.state = state]
  IN /\ admin # None
     /\ ag.state = "Disputed"
     /\ \/ /\ resolution = "Continue"
           /\ agreement' = [agreement EXCEPT ![id] = stamped("Active")]
           /\ UNCHANGED bal
        \/ /\ resolution = "Pause"
           /\ agreement' = [agreement EXCEPT ![id] = stamped("Paused")]
           /\ UNCHANGED bal
        \/ /\ resolution = "Cancel"
           /\ ClawBack(id, stamped("Cancelled"))
     /\ UNCHANGED <<now, admin, counter, beneficiaryTotal>>

\* pause, called by the admin
Pause(id) ==
  /\ admin # None
  /\ agreement[id].state = "Active"
  /\ agreement' = [agreement EXCEPT ![id].state = "Paused"]
  /\ UNCHANGED <<now, bal, admin, counter, beneficiaryTotal>>

\* unpause, called by the admin
Unpause(id) ==
  /\ admin # None
  /\ agreement[id].state = "Paused"
  /\ agreement' = [agreement EXCEPT ![id].state = "Active"]
  /\ UNCHANGED <<now, bal, admin, counter, beneficiaryTotal>>

\* Mutated form: the totals of the new beneficiaries' positions are cleared.
ClearedForNew(totals, old, new) ==
  [i \in Index |-> IF i \in Indices(new) THEN 0 ELSE totals[i]]

\* modify_agreement: the totals of the old beneficiaries' positions are removed.
Cleared(totals, old, new) ==
  [i \in Index |-> IF i \in Indices(old) THEN 0 ELSE totals[i]]

\* Mutated form: pending revenue is left for the new split.
ModifyAgreementUnsettled(id, c) ==
  LET ag == agreement[id] IN
  /\ ag.state = "Active"
  /\ ValidSplit(c.beneficiaries)
  /\ UNCHANGED bal
  /\ agreement' = [agreement EXCEPT ![id].beneficiaries = c.beneficiaries,
                     ![id].period = c.period,
                     ![id].next_settlement_at = NextSettlement(c.period)]
  /\ beneficiaryTotal' = [beneficiaryTotal EXCEPT ![id] =
                            Cleared(@, ag.beneficiaries, c.beneficiaries)]
  /\ UNCHANGED <<now, admin, counter>>

\* modify_agreement, called by the owner: pending revenue is settled first,
\* by the old split.
ModifyAgreement(id, c) ==
  LET ag == agreement[id]
      pending == ag.unsettled > 0 /\ ag.period # 0
      kept == IF pending THEN Settled(ag) ELSE ag
  IN /\ ag.state = "Active"
     /\ ValidSplit(c.beneficiaries)
     /\ pending => bal[ag.token][Self] >= ag.unsettled
     /\ bal' = IF pending
                 THEN [bal EXCEPT ![ag.token] = PaidOut(@, ag, ag.unsettled)]
                 ELSE bal
     /\ agreement' = [agreement EXCEPT ![id] =
          [kept EXCEPT !.beneficiaries = c.beneficiaries, !.period = c.period,
                       !.next_settlement_at = NextSettlement(c.period)]]
     /\ beneficiaryTotal' = [beneficiaryTotal EXCEPT ![id] =
                               Cleared(@, ag.beneficiaries, c.beneficiaries)]
     /\ UNCHANGED <<now, admin, counter>>

\* Time passes between ledgers.
Tick ==
  /\ now < MaxTime
  /\ now' = now + 1
  /\ UNCHANGED <<bal, admin, counter, agreement, beneficiaryTotal>>

Next ==
  \/ \E a \in Admins : Initialize(a) \/ SetAdmin(a)
  \/ \E t \in Terms : CreateAgreement(t)
  \/ \E id \in Ids :
       \/ \E p \in Payers, m \in Amounts : DepositRevenue(id, p, m)
       \/ SettleDistribution(id)
       \/ ClawbackUnsettled(id)
       \/ \E c \in Addr : RaiseDispute(id, c)
       \/ \E r \in DisputeResolution : ResolveDispute(id, r)
       \/ Pause(id)
       \/ Unpause(id)
       \/ \E c \in Changes : ModifyAgreement(id, c)
  \/ Tick

Spec == Init /\ [][Next]_vars

\* Time passes, and somebody calls settle_distribution when it can succeed:
\* every account can, the beneficiaries first.
FairSpec == Spec /\ WF_vars(Tick) /\ \A id \in Ids : WF_vars(SettleDistribution(id))

-----------------------------------------------------------------------------
(***************************************************************************)
(* Properties.                                                             *)
(***************************************************************************)
TypeOK ==
  /\ now \in Nat
  /\ bal \in [Token -> [Account -> Nat]]
  /\ admin \in Admins \cup {None}
  /\ counter \in 0 .. MaxAgreements
  /\ agreement \in [Ids -> Agreement \cup {NoAgreement}]
  /\ beneficiaryTotal \in [Ids -> [Index -> Nat]]

Exists(id) == agreement[id] # NoAgreement

Owed == [t \in Token |-> [id \in Ids |->
          IF Exists(id) /\ agreement[id].token = t THEN agreement[id].unsettled ELSE 0]]

Pool == [t \in Token |-> bal[t][Self]]

\* The contract keeps what the custody of tokens promises: it counts revenue
\* as unsettled only when the tokens are there, and a settlement, clawback or
\* cancellation of one agreement never pays with the revenue of another, the
\* dust of the rounded shares included.
Vault == INSTANCE Custody WITH Slot <- Ids, pool <- Pool, owed <- Owed
Custodian == Vault!Spec

\* For each token the contract's balance covers the unsettled revenue of all
\* agreements, so that no transfer out of it can fail.
Solvent == Vault!Solvent

\* All recorded revenue is distributed, clawed back or still waiting.
Balanced(ag) == ag.received = ag.distributed + ag.clawed_back + ag.unsettled

\* Revenue waits only where an entry point can still move it: settle_distribution
\* refuses agreements that pay at once, and nothing works on cancelled ones.
Movable(ag) == ag.unsettled > 0 => ag.period # 0 /\ ag.state # "Cancelled"

\* The books of every agreement are in order: its totals add up, no revenue
\* is stranded by a change of the period or a cancellation, and no position
\* beyond the current beneficiaries keeps a running total.
Books ==
  \A id \in Ids : Exists(id) =>
    /\ Balanced(agreement[id])
    /\ Movable(agreement[id])
    /\ \A i \in Index \ Indices(agreement[id].beneficiaries) : beneficiaryTotal[id][i] = 0

Parties(ag) ==
  {ag.owner} \cup {ag.beneficiaries[i].address : i \in Indices(ag.beneficiaries)}

\* Revenue goes to those who were parties to the agreement when it was paid:
\* whatever stops being unsettled arrives in full at the parties of the split
\* before the step and nobody else, and a change of the split leaves nothing
\* behind for the new one ("so that the new split does not retroactively apply
\* to past revenue").  Agreements with the contract itself are excepted.
PastRevenueToPastParties ==
  [][\A id \in Ids :
       LET ag == agreement[id] IN
       Exists(id) /\ Self \notin Parties(ag) =>
         /\ agreement'[id].beneficiaries # ag.beneficiaries => agreement'[id].unsettled = 0
         /\ agreement'[id].unsettled < ag.unsettled =>
              /\ \A a \in Addr \ Parties(ag) : bal'[ag.token][a] = bal[ag.token][a]
              /\ Total([a \in Parties(ag) |-> bal'[ag.token][a]])
                   = Total([a \in Parties(ag) |-> bal[ag.token][a]])
                       + ag.unsettled - agreement'[id].unsettled]_vars

\* A dispute or a pause freezes an agreement: its revenue neither grows nor
\* shrinks and its split stays, until an administrator acts; only the
\* cancellation of a disputed agreement takes revenue out.
FrozenUntilResolved ==
  [][\A id \in Ids :
       agreement[id].state \in {"Disputed", "Paused", "Cancelled"} =>
         /\ agreement'[id].beneficiaries = agreement[id].beneficiaries
         /\ \/ agreement'[id].unsettled = agreement[id].unsettled
            \/ agreement[id].state = "Disputed" /\ agreement'[id].state = "Cancelled"]_vars

\* Unsettled revenue of an active agreement does not wait for ever, whatever
\* its owner does: changing the agreement again and again does not put its
\* settlement off.
SettledInTime ==
  \A id \in Ids :
    agreement[id].state = "Active" /\ agreement[id].unsettled > 0
      ~> agreement[id].state # "Active" \/ agreement[id].unsettled = 0

\* The doc's promise: the running totals of an agreement cover what its
\* beneficiaries have been paid.
TotalsRecorded ==
  \A id \in Ids : Exists(id) => Total(beneficiaryTotal[id]) <= agreement[id].distributed

=============================================================================
