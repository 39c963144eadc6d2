------------------------------ MODULE FlashLoan ------------------------------
(***************************************************************************)
(* Flash loans (contracts/flash_loan): lenders put tokens into a pool,     *)
(* which lends them for the length of one call and takes a fee.            *)
(*                                                                         *)
(* A call is one action and its error paths are its guards.  A loan with   *)
(* the call of the borrower's contract is one action too: the host lets    *)
(* nobody enter this contract again before the call is over, and a loan    *)
(* that is not paid back is undone with everything its callback did, so    *)
(* records are never seen Active or Defaulted.  There is one token.        *)
(***************************************************************************)
EXTENDS Integers, Sequences, FiniteSets, TokenUnits

CONSTANTS
  Users, Admin, Self, None,
  Fees, Ratios,          \* what initialize, set_fee_bps and set_max_loan_ratio store
  BASIS_POINTS,          \* 10000
  Amounts,               \* what is deposited, withdrawn and borrowed at a time
  Extras,                \* what a callback pays back beyond the fee
  InitBalance,           \* what each user has of the token
  MaxLoans               \* bound

VARIABLES
  bal,         \* balances of the token
  config,      \* DataKey::Config
  pool,        \* DataKey::Pool(token), or None
  position,    \* DataKeyKey::LenderPosition(token, lender), 0 when there is none
  record,      \* DataKey::FlashLoanRecord(id), ids from 1 on
  analytics    \* DataKey::Analytics

vars == <<bal, config, pool, position, record, analytics>>

Init ==
  /\ bal = [a \in Users \cup {Admin, Self} |-> IF a \in Users THEN InitBalance ELSE 0]
  /\ config = None
  /\ pool = None
  /\ position = [u \in Users |-> 0]
  /\ record = <<>>
  /\ analytics = [total_loans |-> 0, total_volume_borrowed |-> 0, total_fees_collected |-> 0,
                  total_repaid |-> 0]

Transfer(from, to, n) ==
  /\ bal[from] >= n
  /\ bal' = [bal EXCEPT ![from] = @ - n, ![to] = @ + n]

\* initialize: 8000 basis points can be lent
Initialize(fee) ==
  /\ config = None
  /\ config' = [fee_bps |-> fee, max_loan_ratio |-> (8 * BASIS_POINTS) \div 10, paused |-> FALSE]
  /\ UNCHANGED <<bal, pool, position, record, analytics>>

Configure(c) ==
  /\ config # None
  /\ config' = c
  /\ UNCHANGED <<bal, pool, position, record, analytics>>

SetFeeBps(fee) == Configure([config EXCEPT !.fee_bps = fee])
SetMaxLoanRatio(ratio) == Configure([config EXCEPT !.max_loan_ratio = ratio])

\* pause and unpause
SetPaused(p) == Configure([config EXCEPT !.paused = p])

Open == config # None /\ ~config.paused

-----------------------------------------------------------------------------
(***************************************************************************)
(* Liquidity.                                                              *)
(***************************************************************************)
GetOrCreatePool ==
  IF pool # None THEN pool
  ELSE [total_liquidity |-> 0, available_liquidity |-> 0, total_borrowed |-> 0,
        fees_collected |-> 0, lenders |-> {}]

\* add_liquidity: the position of a lender is the last deposit
AddLiquidity(u, n) ==
  LET p == GetOrCreatePool
  IN /\ config # None
     /\ Open
     /\ Transfer(u, Self, n)
     /\ pool' = [p EXCEPT !.total_liquidity = @ + n, !.available_liquidity = @ + n,
                          !.lenders = @ \cup {u}]
     /\ position' = [position EXCEPT ![u] = n]
     /\ UNCHANGED <<config, record, analytics>>

RemoveLiquidity(u, n) ==
  /\ config # None
  /\ Open
  /\ pool # None
  /\ pool.available_liquidity >= n
  /\ position[u] >= n
  /\ Transfer(Self, u, n)
  /\ pool' = [pool EXCEPT !.total_liquidity = @ - n, !.available_liquidity = @ - n]
  /\ position' = [position EXCEPT ![u] = @ - n]
  /\ UNCHANGED <<config, record, analytics>>

\* Mutated form: the fees stay withdrawable.
WithdrawFeesAgain(n) ==
  /\ pool # None
  /\ pool.fees_collected >= n
  /\ pool' = [pool EXCEPT !.total_liquidity = @ - n]
  /\ Transfer(Self, Admin, n)
  /\ UNCHANGED <<config, position, record, analytics>>

\* withdraw_fees: the fees are not taken from what is available
WithdrawFees(n) ==
  /\ pool # None
  /\ pool.fees_collected >= n
  /\ pool' = [pool EXCEPT !.fees_collected = @ - n, !.total_liquidity = @ - n]
  /\ Transfer(Self, Admin, n)
  /\ UNCHANGED <<config, position, record, analytics>>

-----------------------------------------------------------------------------
(***************************************************************************)
(* Loans.                                                                  *)
(***************************************************************************)
CalculateFee(n) == (n * config.fee_bps) \div BASIS_POINTS

\* update_analytics, of a loan that was repaid
UpdateAnalytics(n, fee) ==
  analytics' = [total_loans |-> analytics.total_loans + 1,
                total_volume_borrowed |-> analytics.total_volume_borrowed + n,
                total_fees_collected |-> analytics.total_fees_collected + fee,
                total_repaid |-> analytics.total_repaid + n + fee]

\* flash_loan: the callback of u pays back the loan, the fee and extra, which
\* the pool does not count
TakeFlashLoan(u, n, extra) ==
  LET fee == CalculateFee(n)
  IN /\ Len(record) < MaxLoans
     /\ config # None
     /\ Open
     /\ pool # None
     /\ n <= (pool.available_liquidity * config.max_loan_ratio) \div BASIS_POINTS
     /\ n <= pool.available_liquidity
     /\ n <= bal[Self]
     /\ Transfer(u, Self, fee + extra)
     /\ pool' = [pool EXCEPT !.available_liquidity = @ + fee, !.fees_collected = @ + fee]
     /\ record' = Append(record, [borrower |-> u, principal |-> n, fee |-> fee, status |-> "Repaid"])
     /\ UpdateAnalytics(n, fee)
     /\ UNCHANGED <<config, position>>

Next ==
  \/ \E fee \in Fees : Initialize(fee) \/ SetFeeBps(fee)
  \/ \E r \in Ratios : SetMaxLoanRatio(r)
  \/ \E p \in BOOLEAN : SetPaused(p)
  \/ \E u \in Users, n \in Amounts :
       \/ AddLiquidity(u, n) \/ RemoveLiquidity(u, n)
       \/ \E extra \in Extras : TakeFlashLoan(u, n, extra)
  \/ \E n \in Amounts : WithdrawFees(n)

Spec == Init /\ [][Next]_vars

-----------------------------------------------------------------------------
\* What the lenders' positions and the fees still to be withdrawn say is in
\* the contract, whoever withdraws first; and what is available is the
\* liquidity with the fees ever collected and, once more, those withdrawn.
PositionsCovered ==
  pool # None =>
    /\ bal[Self] >= Total(position) + pool.fees_collected
    /\ pool.available_liquidity
         = pool.total_liquidity + 2 * analytics.total_fees_collected - pool.fees_collected
    /\ analytics.total_repaid = Total([i \in DOMAIN record |-> record[i].principal + record[i].fee])

=============================================================================
