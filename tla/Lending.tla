------------------------------- MODULE Lending -------------------------------
(***************************************************************************)
(* Loans between players (contracts/lending): a lender offers tokens or an *)
(* NFT against collateral, which the contract keeps until the loan is      *)
(* repaid or the lender takes it for a default; the lender can agree to    *)
(* give more time.                                                         *)
(*                                                                         *)
(* A call is one action and its error paths are its guards.  There is one  *)
(* token; an NFT is a member of NFTs and has an owner.  Repayments go from *)
(* the borrower to the lender directly.                                    *)
(***************************************************************************)
EXTENDS Integers, Sequences, FiniteSets, TokenUnits

CONSTANTS
  Users, Self, None,
  NFTs,                        \* the NFTs there are
  Offers,                      \* what create_offer is called with
  Amounts,                     \* what is repaid at a time
  InitBalance, InitOwner,      \* what each user has of the token, the owners of the NFTs
  MaxOffers, MaxTime           \* bounds

VARIABLES
  now,         \* ledger timestamp
  bal,         \* balances of the token
  owner,       \* owners of the NFTs
  offer,       \* DataKey::Offer(id), ids from 1 on
  loan,        \* DataKey::Loan(id), ids from 1 on
  extension    \* DataKey::ExtensionRequest(id): the time asked for, or None

vars == <<now, bal, owner, offer, loan, extension>>
assets == <<bal, owner>>

BASIS_POINTS == 10000

Init ==
  /\ now = 0
  /\ bal = [a \in Users \cup {Self} |-> IF a = Self THEN 0 ELSE InitBalance]
  /\ owner = InitOwner
  /\ offer = <<>>
  /\ loan = <<>>
  /\ extension = [i \in 1 .. MaxOffers |-> None]

\* Assets are amounts of the token or NFTs.
Token(n) == [asset_type |-> "Token", amount |-> n]
NFT(x) == [asset_type |-> "NFT", nft_id |-> x]

\* The token client and the NFT contract refuse what from does not have.
TransferAsset(asset, from, to) ==
  IF asset.asset_type = "Token"
  THEN /\ bal[from] >= asset.amount
       /\ bal' = [bal EXCEPT ![from] = @ - asset.amount, ![to] = @ + asset.amount]
       /\ UNCHANGED owner
  ELSE /\ owner[asset.nft_id] = from
       /\ owner' = [owner EXCEPT ![asset.nft_id] = to]
       /\ UNCHANGED bal

-----------------------------------------------------------------------------
(***************************************************************************)
(* Offers.                                                                 *)
(***************************************************************************)
CreateOffer(u, o) ==
  /\ Len(offer) < MaxOffers
  /\ o.loan_asset.asset_type = "Token" => o.principal = o.loan_asset.amount
  /\ TransferAsset(o.loan_asset, u, Self)
  /\ offer' = Append(offer, [lender |-> u, terms |-> o, status |-> "Open"])
  /\ UNCHANGED <<now, loan, extension>>

CancelOffer(i) ==
  /\ i \in DOMAIN offer
  /\ offer[i].status = "Open"
  /\ offer' = [offer EXCEPT ![i].status = "Cancelled"]
  /\ TransferAsset(offer[i].terms.loan_asset, Self, offer[i].lender)
  /\ UNCHANGED <<now, loan, extension>>

\* The collateral comes in and the loan goes out: both are in one call.
Exchange(collateral, lent, u) ==
  LET in(n, asset) == IF asset.asset_type = "Token" THEN n * asset.amount ELSE 0
      moved(asset, x) == asset.asset_type = "NFT" /\ asset.nft_id = x
  IN /\ IF collateral.asset_type = "Token" THEN bal[u] >= collateral.amount
                                           ELSE owner[collateral.nft_id] = u
     /\ bal' = [bal EXCEPT ![u] = @ - in(1, collateral) + in(1, lent),
                           ![Self] = @ + in(1, collateral) - in(1, lent)]
     /\ owner' = [x \in NFTs |-> IF moved(lent, x) THEN u
                                 ELSE IF moved(collateral, x) THEN Self ELSE owner[x]]

\* accept_offer, by anybody, the lender included
AcceptOffer(u, i) ==
  LET t == offer[i].terms
  IN /\ i \in DOMAIN offer
     /\ offer[i].status = "Open"
     /\ Exchange(t.collateral_asset, t.loan_asset, u)
     /\ loan' = Append(loan,
          [offer_id |-> i, lender |-> offer[i].lender, borrower |-> u, terms |-> t,
           outstanding_principal |-> t.principal, accrued_interest |-> 0, start_time |-> now,
           due_time |-> now + t.duration_secs, last_accrual_time |-> now, status |-> "Active",
           extension_secs |-> 0])
     /\ offer' = [offer EXCEPT ![i].status = "Accepted"]
     /\ UNCHANGED <<now, extension>>

-----------------------------------------------------------------------------
(***************************************************************************)
(* Loans.                                                                  *)
(***************************************************************************)
\* accrue_interest: nothing accrues after the due time, and what is rounded
\* off is not accrued later
Accrued(l) ==
  LET end == IF now < l.due_time THEN now ELSE l.due_time
      delta == end - l.last_accrual_time
      interest == ((l.outstanding_principal * l.terms.interest_bps * delta)
                     \div (l.due_time - l.start_time)) \div BASIS_POINTS
  IN IF delta <= 0 THEN l
     ELSE [l EXCEPT !.accrued_interest = @ + interest, !.last_accrual_time = end]

\* A payment of n goes to the interest first.
Paid(l, n) ==
  LET interest == IF n < l.accrued_interest THEN n ELSE l.accrued_interest
  IN [l EXCEPT !.accrued_interest = @ - interest, !.outstanding_principal = @ - (n - interest)]

Settled(l) == l.outstanding_principal = 0 /\ l.accrued_interest = 0

\* What the last payment n of the loan l gives back: the collateral to the
\* borrower and an NFT, which the borrower must still have, to the lender
GiveBack(l, n) ==
  LET collateral == l.terms.collateral_asset
      lent == l.terms.loan_asset
      back == IF collateral.asset_type = "Token" THEN collateral.amount ELSE 0
      got(a) == (IF a = l.lender THEN n ELSE 0) + (IF a = l.borrower THEN back - n ELSE 0)
              - (IF a = Self THEN back ELSE 0)
      home(x) == IF collateral = NFT(x) THEN l.borrower ELSE owner[x]
  IN /\ bal[l.borrower] >= n /\ bal[Self] >= back
     /\ bal' = [a \in DOMAIN bal |-> bal[a] + got(a)]
     /\ \A x \in NFTs : /\ collateral = NFT(x) => owner[x] = Self
                        /\ lent = NFT(x) => home(x) = l.borrower
     /\ owner' = [x \in NFTs |-> IF lent = NFT(x) THEN l.lender ELSE home(x)]

Repay(i, n) ==
  LET l == Accrued(loan[i])
      paid == Paid(l, n)
  IN /\ i \in DOMAIN loan
     /\ l.status = "Active"
     /\ n <= l.outstanding_principal + l.accrued_interest
     /\ IF Settled(paid) THEN /\ GiveBack(l, n)
                              /\ loan' = [loan EXCEPT ![i] = [paid EXCEPT !.status = "Repaid"]]
                         ELSE /\ TransferAsset(Token(n), l.borrower, l.lender)
                              /\ loan' = [loan EXCEPT ![i] = paid]
     /\ UNCHANGED <<now, offer, extension>>

\* liquidate: what was paid before is not given back
Liquidate(i) ==
  LET l == loan[i]
  IN /\ i \in DOMAIN loan
     /\ l.status = "Active"
     /\ now > l.due_time
     /\ TransferAsset(l.terms.collateral_asset, Self, l.lender)
     /\ loan' = [loan EXCEPT ![i] = [Accrued(l) EXCEPT !.status = "Liquidated"]]
     /\ extension' = [extension EXCEPT ![i] = None]
     /\ UNCHANGED <<now, offer>>

\* request_extension: a request replaces the one before
RequestExtension(i, n) ==
  LET l == loan[i]
  IN /\ i \in DOMAIN loan
     /\ l.status = "Active"
     /\ now <= l.due_time
     /\ l.extension_secs + n <= l.terms.max_extension_secs
     /\ extension' = [extension EXCEPT ![i] = n]
     /\ UNCHANGED <<now, assets, offer, loan>>

\* Mutated form: the request stays and can be approved again.
ApproveAgain(i) ==
  /\ i \in DOMAIN loan
  /\ loan[i].status = "Active"
  /\ extension[i] # None
  /\ loan' = [loan EXCEPT ![i] = [Accrued(loan[i]) EXCEPT !.due_time = @ + extension[i],
                                                          !.extension_secs = @ + extension[i]]]
  /\ UNCHANGED <<now, assets, offer, extension>>

\* approve_extension, also when the loan is already due
ApproveExtension(i) ==
  /\ i \in DOMAIN loan
  /\ loan[i].status = "Active"
  /\ extension[i] # None
  /\ loan' = [loan EXCEPT ![i] = [Accrued(loan[i]) EXCEPT !.due_time = @ + extension[i],
                                                          !.extension_secs = @ + extension[i]]]
  /\ extension' = [extension EXCEPT ![i] = None]
  /\ UNCHANGED <<now, assets, offer>>

Tick ==
  /\ now < MaxTime
  /\ now' = now + 1
  /\ UNCHANGED <<assets, offer, loan, extension>>

Next ==
  \/ \E u \in Users : \/ \E o \in Offers : CreateOffer(u, o)
                      \/ \E i \in DOMAIN offer : AcceptOffer(u, i)
  \/ \E i \in DOMAIN offer : CancelOffer(i)
  \/ \E i \in DOMAIN loan :
       \/ \E n \in Amounts : Repay(i, n)
       \/ Liquidate(i)
       \/ \E n \in 1 .. 2 : RequestExtension(i, n)
       \/ ApproveExtension(i)
  \/ Tick

Spec == Init /\ [][Next]_vars

-----------------------------------------------------------------------------
\* The assets that open offers and active loans keep in the contract.
Kept ==
  [k \in (({"offer"} \X DOMAIN offer) \cup ({"loan"} \X DOMAIN loan)) |->
     IF k[1] = "offer" /\ offer[k[2]].status = "Open" THEN offer[k[2]].terms.loan_asset
     ELSE IF k[1] = "loan" /\ loan[k[2]].status = "Active" THEN loan[k[2]].terms.collateral_asset
     ELSE Token(0)]

\* The contract keeps the loans that are offered and the collateral of those
\* that run, and nothing else: each NFT for one of them.  An active loan is
\* owed something, is due when its extensions say and is extended no longer
\* than agreed.
CollateralKept ==
  /\ bal[Self] = Total([k \in DOMAIN Kept |->
                          IF Kept[k].asset_type = "Token" THEN Kept[k].amount ELSE 0])
  /\ \A x \in NFTs :
       Cardinality({k \in DOMAIN Kept : Kept[k] = NFT(x)}) = IF owner[x] = Self THEN 1 ELSE 0
  /\ \A i \in DOMAIN loan :
       LET l == loan[i]
       IN /\ l.extension_secs <= l.terms.max_extension_secs
          /\ l.due_time = l.start_time + l.terms.duration_secs + l.extension_secs
          /\ (l.status = "Repaid") = Settled(l)
          /\ l.outstanding_principal >= 0 /\ l.accrued_interest >= 0

D == INSTANCE Decisions WITH
       Case <- 1 .. MaxOffers, Open <- {"Active"}, Outcome <- {"Repaid", "Liquidated"},
       state <- [i \in 1 .. MaxOffers |-> IF i \in DOMAIN loan THEN loan[i].status ELSE "none"]

\* A loan is repaid in full or liquidated, once, also when the lender and the
\* borrower call in the same ledger and when extensions are still asked for.
DecidedOnce == D!Spec

=============================================================================
