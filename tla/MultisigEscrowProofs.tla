------------------------ MODULE MultisigEscrowProofs ------------------------
(***************************************************************************)
(* The escrow contract is type correct, its vote counters count votes, and *)
(* it is a custodian in the sense of Custody, hence solvent, and an escrow *)
(* that closes is paid in full: for every set of accounts, tokens and      *)
(* offers and every bound on escrows and time.                             *)
(***************************************************************************)
EXTENDS MultisigEscrow, TokenUnitsProofs

V == INSTANCE Custody WITH Slot <- Ids, pool <- Pool, owed <- Owed

\* What the proofs need to know of the stored escrows: an escrow is Pending
\* exactly until its deposit has arrived.
FundsMatch == \A id \in Ids : escrow[id].state = "Pending" => ~escrow[id].funded

\* Escrow numbers are handed out in order, and only after initialize.
Allocated ==
  /\ ~initialized => counter = 0
  /\ \A id \in Ids : id > counter => escrow[id] = NoEscrow

IInv == TypeOK /\ FundsMatch /\ Allocated

\* A transfer of the token contract keeps balances natural numbers, takes no
\* more than its amount from the payer and nothing from anyone else.
LEMMA TransferFacts ==
  ASSUME NEW b \in [Account -> Nat], NEW from \in Account, NEW to \in Account,
         NEW m \in Nat, b[from] >= m
  PROVE  /\ Transfer(b, from, to, m) \in [Account -> Nat]
         /\ Transfer(b, from, to, m)[from] >= b[from] - m
         /\ to # from => Transfer(b, from, to, m)[to] = b[to] + m
         /\ \A a \in Account \ {from} : Transfer(b, from, to, m)[a] >= b[a]
BY DEF Transfer

\* What Pay does to the balances.
LEMMA PayFacts ==
  ASSUME bal \in [Token -> [Account -> Nat]], NEW t \in Token, NEW to \in Account,
         NEW m \in Nat, Pay(t, to, m)
  PROVE  /\ bal' \in [Token -> [Account -> Nat]]
         /\ bal'[t][Self] + m >= bal[t][Self]
         /\ \A u \in Token \ {t} : bal'[u] = bal[u]
<1>1. Self \in Account /\ bal[t] \in [Account -> Nat]
  BY DEF Account
<1> DEFINE b == Transfer(bal[t], Self, to, m)
<1>2. b \in [Account -> Nat] /\ b[Self] >= bal[t][Self] - m
  BY <1>1, TransferFacts DEF Pay
<1>3. bal' = [bal EXCEPT ![t] = b]
  BY DEF Pay
<1> HIDE DEF b
<1>4. bal' \in [Token -> [Account -> Nat]] /\ bal'[t] = b
      /\ \A u \in Token \ {t} : bal'[u] = bal[u]
  BY <1>2, <1>3
<1> QED BY <1>1, <1>2, <1>4

\* Two transfers in a row out of the same account.
LEMMA TwoTransfers ==
  ASSUME NEW b \in [Account -> Nat], NEW from \in Account, NEW to \in Account,
         NEW other \in Account, NEW m \in Nat, NEW n \in Nat, b[from] >= m + n
  PROVE  /\ Transfer(Transfer(b, from, to, m), from, other, n) \in [Account -> Nat]
         /\ Transfer(Transfer(b, from, to, m), from, other, n)[from] >= b[from] - (m + n)
<1> DEFINE c == Transfer(b, from, to, m)
<1>1. b[from] \in Nat
  OBVIOUS
<1>2. c \in [Account -> Nat] /\ c[from] >= b[from] - m
  BY <1>1, TransferFacts
<1> HIDE DEF c
<1>3. c[from] \in Nat /\ c[from] >= n
  BY <1>1, <1>2
<1>4. Transfer(c, from, other, n) \in [Account -> Nat]
      /\ Transfer(c, from, other, n)[from] >= c[from] - n
  BY <1>2, <1>3, TransferFacts
<1>5. Transfer(c, from, other, n)[from] \in Nat
  BY <1>4
<1> QED BY <1>1, <1>2, <1>3, <1>4, <1>5 DEF c

\* The two transfers of a Split pay exactly the amount between them.
LEMMA PaySplitFacts ==
  ASSUME bal \in [Token -> [Account -> Nat]], NEW e \in Escrow, PaySplit(e)
  PROVE  /\ bal' \in [Token -> [Account -> Nat]]
         /\ bal'[e.token][Self] + e.amount >= bal[e.token][Self]
         /\ \A u \in Token \ {e.token} : bal'[u] = bal[u]
<1> DEFINE t == e.token
           m == e.amount
           half == m \div 2
           remainder == m - half
           c == Transfer(Transfer(bal[t], Self, e.beneficiary, half),
                         Self, e.depositor, remainder)
<1>1. /\ Self \in Account /\ t \in Token /\ m \in Nat
      /\ e.beneficiary \in Account /\ e.depositor \in Account
  BY DEF Account, Escrow
<1>2. bal' = [bal EXCEPT ![t] = c] /\ bal[t][Self] >= m
  BY DEF PaySplit
<1> HIDE DEF t, m
<1>3. half \in Nat /\ remainder \in Nat /\ half + remainder = m
  BY <1>1
<1>4. bal[t] \in [Account -> Nat] /\ bal[t][Self] \in Nat
  BY <1>1
<1> HIDE DEF half, remainder
<1>5. c \in [Account -> Nat] /\ c[Self] >= bal[t][Self] - m
  BY <1>1, <1>2, <1>3, <1>4, TwoTransfers
<1> HIDE DEF c
<1>6. bal' \in [Token -> [Account -> Nat]] /\ bal'[t] = c
      /\ \A u \in Token \ {t} : bal'[u] = bal[u]
  BY <1>1, <1>2, <1>5
<1>7. bal'[t][Self] + m >= bal[t][Self]
  BY <1>1, <1>4, <1>5, <1>6
<1> QED BY <1>6, <1>7 DEF t, m

-----------------------------------------------------------------------------
(***************************************************************************)
(* The steps as the custodian sees them.                                   *)
(***************************************************************************)
Balances == [Token -> [Account -> Nat]]

\* Escrow id is replaced by r and the pools of the other tokens stay.
Replaces(id, r) ==
  /\ escrow[id] \in Escrow /\ r \in Escrow
  /\ r.token = escrow[id].token /\ r.amount = escrow[id].amount
  /\ r.signers = escrow[id].signers
  /\ escrow' = [escrow EXCEPT ![id] = r]
  /\ bal' \in Balances
  /\ \A u \in Token \ {r.token} : bal'[u] = bal[u]

\* Fields of an escrow's record, and the records a handler writes back.
LEMMA EscrowFacts ==
  ASSUME NEW e \in Escrow
  PROVE  /\ e.depositor \in Addr /\ e.beneficiary \in Account /\ e.token \in Token
         /\ e.amount \in Nat /\ e.signers \in SUBSET Addr /\ e.threshold \in Nat
         /\ e.funded \in BOOLEAN /\ e.state \in EscrowState
         /\ e.depositor \in Account /\ e.depositor # Self
BY AddrAssumption DEF Escrow, Account

\* What a record keeps when only its state is written.
LEMMA UpdateState ==
  ASSUME NEW e \in Escrow, NEW st \in EscrowState
  PROVE  /\ [e EXCEPT !.state = st] \in Escrow
         /\ [e EXCEPT !.state = st].state = st
         /\ [e EXCEPT !.state = st].token = e.token
         /\ [e EXCEPT !.state = st].amount = e.amount
         /\ [e EXCEPT !.state = st].funded = e.funded
         /\ [e EXCEPT !.state = st].signers = e.signers
BY DEF Escrow

\* What a record keeps when the mark of its funding is written too.
LEMMA UpdateFunded ==
  ASSUME NEW e \in Escrow, NEW st \in EscrowState, NEW fd \in BOOLEAN
  PROVE  LET r == [e EXCEPT !.funded = fd, !.state = st] IN
         /\ r \in Escrow /\ r.state = st /\ r.token = e.token
         /\ r.amount = e.amount /\ r.funded = fd /\ r.signers = e.signers
         /\ r = [e EXCEPT !.state = st, !.funded = fd]
BY DEF Escrow

\* What is owed changes in one place when one escrow is replaced.
LEMMA ReplaceOwed ==
  ASSUME TypeOK, NEW id \in Ids, NEW r, Replaces(id, r)
  PROVE  LET o == IF Holding(r) THEN r.amount ELSE 0 IN
         /\ o \in Nat /\ r.token \in Token
         /\ Owed' = [Owed EXCEPT ![r.token][id] = o]
         /\ Owed[r.token][id] = IF Holding(escrow[id]) THEN r.amount ELSE 0
         /\ Owed'[r.token][id] = o
<1> DEFINE t == r.token
           o == IF Holding(r) THEN r.amount ELSE 0
<1>1. t \in Token /\ r.amount \in Nat /\ o \in Nat /\ escrow[id].token = t
      /\ escrow[id].amount = r.amount
  BY EscrowFacts DEF Replaces
<1>2. escrow'[id] = r /\ \A j \in Ids \ {id} : escrow'[j] = escrow[j]
  BY DEF TypeOK, Replaces
<1>3. \A u \in Token, j \in Ids :
        Owed'[u][j] = IF Holding(escrow'[j]) /\ escrow'[j].token = u
                        THEN escrow'[j].amount ELSE 0
  BY DEF Owed, Holding
<1>4. \A u \in Token, j \in Ids :
        Owed[u][j] = IF Holding(escrow[j]) /\ escrow[j].token = u
                       THEN escrow[j].amount ELSE 0
  BY DEF Owed
<1> HIDE DEF o
<1>5. \A u \in Token, j \in Ids :
        Owed'[u][j] = IF u = t /\ j = id THEN o ELSE Owed[u][j]
  BY <1>1, <1>2, <1>3, <1>4 DEF o
<1>6. /\ DOMAIN Owed = Token /\ DOMAIN Owed' = Token
      /\ \A u \in Token : DOMAIN Owed[u] = Ids /\ DOMAIN Owed'[u] = Ids
      /\ Owed = [u \in Token |-> Owed[u]] /\ Owed' = [u \in Token |-> Owed'[u]]
      /\ \A u \in Token : Owed[u] = [j \in Ids |-> Owed[u][j]]
                          /\ Owed'[u] = [j \in Ids |-> Owed'[u][j]]
  BY DEF Owed
<1>7. Owed' = [Owed EXCEPT ![t][id] = o]
  BY SMTT(30), <1>1, <1>5, <1>6
<1> QED BY <1>1, <1>3, <1>2, <1>4, <1>7 DEF o

\* Pools in terms of balances.
LEMMA PoolFacts ==
  ASSUME NEW t \in Token, bal \in Balances, bal' \in Balances,
         \A u \in Token \ {t} : bal'[u] = bal[u]
  PROVE  /\ Pool[t] = bal[t][Self] /\ Pool'[t] = bal'[t][Self]
         /\ Pool[t] \in Nat /\ Pool'[t] \in Nat
         /\ Pool' = [Pool EXCEPT ![t] = Pool'[t]]
<1>1. Self \in Account
  BY DEF Account
<1>2. Pool = [u \in Token |-> bal[u][Self]] /\ Pool' = [u \in Token |-> bal'[u][Self]]
  BY DEF Pool
<1>3. \A u \in Token \ {t} : Pool'[u] = Pool[u]
  BY <1>2
<1>4. Pool[t] = bal[t][Self] /\ Pool'[t] = bal'[t][Self]
  BY <1>2
<1>5. Pool[t] \in Nat /\ Pool'[t] \in Nat
  BY <1>1, <1>4 DEF Balances
<1>6. DOMAIN Pool = Token /\ DOMAIN Pool' = Token /\ Pool' = [u \in Token |-> Pool'[u]]
  BY <1>2
<1>7. [Pool EXCEPT ![t] = Pool'[t]] = [u \in Token |-> Pool'[u]]
  BY <1>3, <1>6
<1> QED BY <1>4, <1>5, <1>6, <1>7

\* A step that replaces one escrow is a step of a custodian if the balance
\* moves with what is owed.
LEMMA ReplaceIsCustody ==
  ASSUME TypeOK, NEW id \in Ids, NEW r, Replaces(id, r),
         LET t == r.token IN
         \/ /\ Holding(r) /\ ~Holding(escrow[id])
            /\ bal'[t][Self] = bal[t][Self] + r.amount
         \/ /\ ~Holding(r) /\ Holding(escrow[id])
            /\ bal'[t][Self] + r.amount >= bal[t][Self]
         \/ /\ Holding(r) <=> Holding(escrow[id])
            /\ bal' = bal
  PROVE  V!Next
<1> DEFINE t == r.token
           o == IF Holding(r) THEN r.amount ELSE 0
           q == IF Holding(escrow[id]) THEN r.amount ELSE 0
<1>1. /\ o \in Nat /\ t \in Token
      /\ Owed' = [Owed EXCEPT ![t][id] = o]
      /\ Owed[t][id] = q
      /\ Owed'[t][id] = o
  BY ReplaceOwed
<1>2. r.amount \in Nat /\ q \in Nat
  BY EscrowFacts DEF Replaces
<1>3. bal \in Balances /\ bal' \in Balances /\ \A u \in Token \ {t} : bal'[u] = bal[u]
  BY DEF Replaces, TypeOK, Balances
<1>4. /\ Pool[t] = bal[t][Self] /\ Pool'[t] = bal'[t][Self]
      /\ Pool[t] \in Nat /\ Pool'[t] \in Nat
      /\ Pool' = [Pool EXCEPT ![t] = Pool'[t]]
  BY <1>1, <1>3, PoolFacts
<1>5. V!Only(t, id)
  BY <1>1, <1>4 DEF V!Only
<1>6. \/ o >= q /\ Pool'[t] >= Pool[t] + (o - q)
      \/ o <= q /\ Pool[t] <= Pool'[t] + (q - o)
  BY <1>1, <1>2, <1>4
<1> HIDE DEF o, q
<1>7. V!Deposit(t, id) \/ V!Discharge(t, id)
  BY <1>1, <1>5, <1>6 DEF V!Deposit, V!Discharge
<1> QED BY <1>1, <1>7 DEF V!Next

\* A step that replaces one escrow keeps the invariant.
LEMMA ReplaceKeeps ==
  ASSUME IInv, NEW id \in Ids, NEW r, Replaces(id, r), r.state # "Pending",
         UNCHANGED <<now, initialized, counter, votes>>
  PROVE  IInv'
<1>1. escrow' \in [Ids -> Escrow \cup {NoEscrow}] /\ bal' \in Balances
  BY DEF IInv, TypeOK, Replaces
<1>2. TypeOK'
  BY <1>1 DEF IInv, TypeOK, votes, Balances
<1>3. FundsMatch'
  BY DEF IInv, TypeOK, FundsMatch, Replaces
<1>4. Allocated'
  <2>1. escrow[id] # NoEscrow
    BY DEF Replaces, Escrow, NoEscrow
  <2>2. \A j \in Ids : j # id => escrow'[j] = escrow[j]
    BY DEF IInv, TypeOK, Replaces
  <2> QED BY <2>1, <2>2 DEF IInv, Allocated
<1> QED BY <1>2, <1>3, <1>4 DEF IInv

\* What every handler that works on an escrow knows about it.
LEMMA StoredEscrow ==
  ASSUME TypeOK, NEW id \in Ids, escrow[id].state \in EscrowState
  PROVE  escrow[id] \in Escrow
BY DEF TypeOK, NoEscrow, EscrowState

\* The summary of a step of one escrow.
Moves(id) ==
  \E r : /\ Replaces(id, r)
         /\ ~Final(escrow[id]) /\ r.state # "Pending"
         /\ UNCHANGED <<now, initialized, counter, votes>>
         /\ \/ /\ Holding(r) /\ ~Holding(escrow[id])
               /\ bal'[r.token][Self] = bal[r.token][Self] + r.amount
            \/ /\ ~Holding(r) /\ Holding(escrow[id])
               /\ bal'[r.token][Self] + r.amount >= bal[r.token][Self]
            \/ /\ Holding(r) <=> Holding(escrow[id])
               /\ bal' = bal

\* A step that moves one escrow keeps the invariant and is a step of Custody.
LEMMA MovesKeeps ==
  ASSUME IInv, NEW id \in Ids, Moves(id)
  PROVE  IInv' /\ V!Next
<1>1. PICK r : /\ Replaces(id, r)
               /\ r.state # "Pending"
               /\ UNCHANGED <<now, initialized, counter, votes>>
               /\ \/ /\ Holding(r) /\ ~Holding(escrow[id])
                     /\ bal'[r.token][Self] = bal[r.token][Self] + r.amount
                  \/ /\ ~Holding(r) /\ Holding(escrow[id])
                     /\ bal'[r.token][Self] + r.amount >= bal[r.token][Self]
                  \/ /\ Holding(r) <=> Holding(escrow[id])
                     /\ bal' = bal
  BY DEF Moves
<1>2. IInv'
  BY <1>1, ReplaceKeeps
<1>3. TypeOK
  BY DEF IInv
<1>4. V!Next
  BY <1>1, <1>3, ReplaceIsCustody
<1> QED BY <1>2, <1>4

\* fund_escrow moves the escrow: it turns the deposit over to the contract.
LEMMA FundMoves ==
  ASSUME IInv, NEW id \in Ids, FundEscrow(id) PROVE Moves(id)
<1> DEFINE e == escrow[id]
           r == [e EXCEPT !.funded = TRUE, !.state = "Active"]
           b == Transfer(bal[e.token], e.depositor, Self, e.amount)
<1>1. e \in Escrow /\ e.state = "Pending"
  BY StoredEscrow DEF FundEscrow, IInv, EscrowState
<1>2. r \in Escrow /\ r.state = "Active" /\ r.token = e.token /\ r.amount = e.amount
      /\ r.signers = e.signers
  <2> HIDE DEF e, r
  <2>1. r = [e EXCEPT !.funded = TRUE, !.state = "Active"]
    BY DEF r
  <2>2. "Active" \in EscrowState
    BY DEF EscrowState
  <2> QED BY ONLY <1>1, <2>1, <2>2 DEF Escrow
<1>3. escrow' = [escrow EXCEPT ![id] = r] /\ bal' = [bal EXCEPT ![e.token] = b]
      /\ bal[e.token][e.depositor] >= e.amount
      /\ UNCHANGED <<now, initialized, counter, votes>>
  BY DEF FundEscrow
<1>4. e.token \in Token /\ e.depositor \in Account /\ e.depositor # Self
      /\ e.amount \in Nat /\ Self \in Account /\ bal \in Balances
  BY <1>1, EscrowFacts DEF Account, IInv, TypeOK, Balances
<1>5. bal[e.token] \in [Account -> Nat]
  BY <1>4 DEF Balances
<1> HIDE DEF e, r
<1>6. b \in [Account -> Nat] /\ b[Self] = bal[e.token][Self] + e.amount
  BY <1>3, <1>4, <1>5, TransferFacts
<1> HIDE DEF b
<1>7. bal' \in Balances /\ bal'[e.token] = b /\ \A u \in Token \ {e.token} : bal'[u] = bal[u]
  BY <1>3, <1>4, <1>6 DEF Balances
<1>8. Replaces(id, r)
  BY <1>1, <1>2, <1>3, <1>7 DEF Replaces, e
<1>9. Holding(r) /\ ~Holding(e) /\ r.state # "Pending" /\ ~Final(e)
  BY <1>1, <1>2 DEF Holding, Final
<1> QED BY <1>2, <1>3, <1>6, <1>7, <1>8, <1>9 DEF Moves, e

\* A step that closes an escrow and pays for it.
LEMMA PayMoves ==
  ASSUME IInv, NEW id \in Ids, NEW r \in Escrow, Holding(escrow[id]),
         r.state \in {"Released", "Refunded", "Cancelled", "Expired"},
         r.token = escrow[id].token, r.amount = escrow[id].amount,
         r.signers = escrow[id].signers,
         escrow' = [escrow EXCEPT ![id] = r],
         \/ Pay(escrow[id].token, escrow[id].beneficiary, escrow[id].amount)
         \/ Pay(escrow[id].token, escrow[id].depositor, escrow[id].amount)
         \/ PaySplit(escrow[id]),
         UNCHANGED <<now, initialized, counter, votes>>
  PROVE  Moves(id)
<1> DEFINE e == escrow[id]
<1>1. e \in Escrow
  BY StoredEscrow DEF IInv, EscrowState, Holding
<1>2. e.token \in Token /\ e.depositor \in Account /\ e.beneficiary \in Account
      /\ e.amount \in Nat
  BY <1>1, EscrowFacts
<1>3. bal \in [Token -> [Account -> Nat]]
  BY DEF IInv, TypeOK
<1>4. /\ bal' \in [Token -> [Account -> Nat]]
      /\ bal'[e.token][Self] + e.amount >= bal[e.token][Self]
      /\ \A u \in Token \ {e.token} : bal'[u] = bal[u]
  <2>1. CASE Pay(e.token, e.beneficiary, e.amount)
    <3> HIDE DEF e
    <3> QED BY <1>2, <1>3, <2>1, PayFacts
  <2>2. CASE Pay(e.token, e.depositor, e.amount)
    <3> HIDE DEF e
    <3> QED BY <1>2, <1>3, <2>2, PayFacts
  <2>3. CASE PaySplit(e)
    <3> HIDE DEF e
    <3> QED BY <1>1, <1>3, <2>3, PaySplitFacts
  <2> QED BY <2>1, <2>2, <2>3
<1>5. Replaces(id, r)
  BY <1>1, <1>4 DEF Replaces, Balances
<1>6. ~Holding(r) /\ r.state # "Pending"
  BY DEF Holding
<1>7. ~Final(escrow[id])
  BY DEF Final, Holding
<1> QED BY <1>4, <1>5, <1>6, <1>7 DEF Moves

\* release_funds moves the escrow: it pays the beneficiary and closes.
LEMMA ReleaseMoves ==
  ASSUME IInv, NEW id \in Ids, ReleaseFunds(id) PROVE Moves(id)
<1> DEFINE r == [escrow[id] EXCEPT !.state = "Released"]
<1>1. Holding(escrow[id]) /\ escrow[id] \in Escrow
  BY StoredEscrow DEF ReleaseFunds, Holding, IInv, EscrowState
<1>2. r \in Escrow /\ r.state = "Released" /\ r.token = escrow[id].token
      /\ r.amount = escrow[id].amount /\ r.signers = escrow[id].signers
  BY <1>1, UpdateState DEF EscrowState
<1>3. escrow' = [escrow EXCEPT ![id] = r]
      /\ Pay(escrow[id].token, escrow[id].beneficiary, escrow[id].amount)
      /\ UNCHANGED <<now, initialized, counter, votes>>
  BY DEF ReleaseFunds
<1> HIDE DEF r
<1> QED BY <1>1, <1>2, <1>3, PayMoves

\* refund_funds moves the escrow: it pays the depositor and closes.
LEMMA RefundMoves ==
  ASSUME IInv, NEW id \in Ids, RefundFunds(id) PROVE Moves(id)
<1> DEFINE r == [escrow[id] EXCEPT !.state = "Refunded"]
<1>1. Holding(escrow[id]) /\ escrow[id] \in Escrow
  BY StoredEscrow DEF RefundFunds, Holding, IInv, EscrowState
<1>2. r \in Escrow /\ r.state = "Refunded" /\ r.token = escrow[id].token
      /\ r.amount = escrow[id].amount /\ r.signers = escrow[id].signers
  BY <1>1, UpdateState DEF EscrowState
<1>3. escrow' = [escrow EXCEPT ![id] = r]
      /\ Pay(escrow[id].token, escrow[id].depositor, escrow[id].amount)
      /\ UNCHANGED <<now, initialized, counter, votes>>
  BY DEF RefundFunds
<1> HIDE DEF r
<1> QED BY <1>1, <1>2, <1>3, PayMoves

\* raise_dispute moves the escrow, which goes on holding its deposit.
LEMMA RaiseMoves ==
  ASSUME IInv, NEW id \in Ids, NEW c, RaiseDispute(id, c) PROVE Moves(id)
<1> DEFINE r == [escrow[id] EXCEPT !.dispute = "open", !.state = "Disputed"]
<1>1. Holding(escrow[id]) /\ escrow[id] \in Escrow
  BY StoredEscrow DEF RaiseDispute, Holding, IInv, EscrowState
<1>2. r \in Escrow /\ r.state = "Disputed" /\ r.token = escrow[id].token
      /\ r.amount = escrow[id].amount /\ r.signers = escrow[id].signers
  <2>1. "Disputed" \in EscrowState /\ "open" \in DisputeStage
    BY DEF EscrowState, DisputeStage
  <2> QED BY <1>1, <2>1 DEF Escrow
<1>3. escrow' = [escrow EXCEPT ![id] = r] /\ bal' = bal
      /\ UNCHANGED <<now, initialized, counter, votes>>
  BY DEF RaiseDispute
<1> HIDE DEF r
<1>4. Replaces(id, r)
  BY <1>1, <1>2, <1>3 DEF Replaces, Balances, IInv, TypeOK
<1>5. Holding(r) /\ r.state # "Pending"
  BY <1>2 DEF Holding
<1>6. ~Final(escrow[id])
  BY <1>1 DEF Final, Holding
<1> QED BY <1>1, <1>3, <1>4, <1>5, <1>6 DEF Moves

\* resolve_dispute moves the escrow: the whole, or the two halves, go out.
LEMMA ResolveMoves ==
  ASSUME IInv, NEW id \in Ids, NEW a, NEW d \in DisputeResolution, ResolveDispute(id, a, d)
  PROVE  Moves(id)
<1> DEFINE st == IF d = "Refund" THEN "Refunded" ELSE "Released"
           r == [escrow[id] EXCEPT !.dispute = d, !.state = st]
<1>1. Holding(escrow[id]) /\ escrow[id] \in Escrow
  BY StoredEscrow DEF ResolveDispute, Holding, IInv, EscrowState
<1>2. r \in Escrow /\ r.state = st /\ r.token = escrow[id].token
      /\ r.amount = escrow[id].amount /\ r.signers = escrow[id].signers
      /\ r = [escrow[id] EXCEPT !.state = st, !.dispute = d]
  <2>1. st \in EscrowState /\ d \in DisputeStage
    BY DEF EscrowState, DisputeStage
  <2> HIDE DEF st
  <2> QED BY <1>1, <2>1 DEF Escrow
<1>3. escrow' = [escrow EXCEPT ![id] = [escrow[id] EXCEPT !.state = st, !.dispute = d]]
      /\ UNCHANGED <<now, initialized, counter, votes>>
  BY DEF ResolveDispute
<1>4. \/ Pay(escrow[id].token, escrow[id].beneficiary, escrow[id].amount)
      \/ Pay(escrow[id].token, escrow[id].depositor, escrow[id].amount)
      \/ PaySplit(escrow[id])
  BY DEF ResolveDispute
<1>5. r.state \in {"Released", "Refunded", "Cancelled", "Expired"}
  BY <1>2
<1> HIDE DEF r, st
<1> QED BY <1>1, <1>2, <1>3, <1>4, <1>5, PayMoves

\* cancel_escrow and expire_escrow move the escrow: what it holds goes back.
LEMMA GiveBackMoves ==
  ASSUME IInv, NEW id \in Ids, NEW final \in {"Cancelled", "Expired"},
         escrow[id].state \in {"Pending", "Active"}, GiveBack(id, final),
         UNCHANGED <<now, initialized, counter, votes>>
  PROVE  Moves(id)
<1> DEFINE r == [escrow[id] EXCEPT !.funded = FALSE, !.state = final]
<1>1. escrow[id] \in Escrow
  BY StoredEscrow DEF IInv, EscrowState
<1>2. r \in Escrow /\ r.state = final /\ r.token = escrow[id].token
      /\ r.amount = escrow[id].amount /\ r.signers = escrow[id].signers
      /\ r = [escrow[id] EXCEPT !.state = final, !.funded = FALSE]
  <2>1. final \in EscrowState /\ FALSE \in BOOLEAN
    BY DEF EscrowState
  <2> QED BY <1>1, <2>1, UpdateFunded
<1>3. escrow' = [escrow EXCEPT ![id] = [escrow[id] EXCEPT !.state = final, !.funded = FALSE]]
  BY DEF GiveBack
<1> HIDE DEF r
<1>4. ~Holding(r) /\ r.state # "Pending"
  BY <1>2 DEF Holding
<1>5. CASE escrow[id].funded
  <2>1. Holding(escrow[id])
    BY <1>5 DEF IInv, FundsMatch, Holding
  <2>2. Pay(escrow[id].token, escrow[id].depositor, escrow[id].amount)
    BY <1>5 DEF GiveBack
  <2> QED BY <1>2, <1>3, <2>1, <2>2, PayMoves
<1>6. CASE ~escrow[id].funded
  <2>1. bal' = bal
    BY <1>6 DEF GiveBack
  <2>2. Replaces(id, r)
    BY <1>1, <1>2, <1>3, <2>1 DEF Replaces, Balances, IInv, TypeOK
  <2>3. r.token \in Token /\ r.amount \in Nat /\ Self \in Account
    BY <1>1, <1>2, EscrowFacts DEF Account
  <2>4. bal[r.token][Self] \in Nat
    BY <2>3 DEF IInv, TypeOK
  <2>5. bal'[r.token][Self] + r.amount >= bal[r.token][Self]
    BY <2>1, <2>3, <2>4
  <2>6. ~Final(escrow[id])
    BY DEF Final
  <2> QED BY <1>4, <2>1, <2>2, <2>5, <2>6 DEF Moves
<1> QED BY <1>5, <1>6

-----------------------------------------------------------------------------
\* The initial states satisfy the invariant and are initial states of Custody.
LEMMA IInvInit == Init => IInv /\ V!Init
<1> SUFFICES ASSUME Init PROVE IInv /\ V!Init
  OBVIOUS
<1>1. bal \in [Token -> [Account -> Nat]]
  BY BoundAssumption DEF Init
<1>2. TypeOK
  <2>0. counter \in 0 .. MaxEscrows
    BY BoundAssumption DEF Init
  <2>1. now \in Nat /\ initialized \in BOOLEAN
    BY DEF Init
  <2>2. escrow \in [Ids -> Escrow \cup {NoEscrow}]
    BY DEF Init
  <2>3. vote \in [Ids -> [Addr -> VoteAction \cup {NoVote}]]
    BY DEF Init
  <2>4. releaseCount \in [Ids -> Nat] /\ refundCount \in [Ids -> Nat]
    BY DEF Init
  <2> QED BY <1>1, <2>0, <2>1, <2>2, <2>3, <2>4 DEF TypeOK
<1>3. FundsMatch
  BY DEF Init, FundsMatch, NoEscrow
<1>4. Pool \in [Token -> Nat]
  BY <1>1 DEF Pool, Account
<1>5. Owed = [t \in Token |-> [i \in Ids |-> 0]]
  BY DEF Init, Owed, Holding, NoEscrow
<1>6. Allocated
  BY DEF Init, Allocated
<1> QED BY <1>2, <1>3, <1>4, <1>5, <1>6 DEF IInv, V!Init

\* create_escrow stores a record of the right type, and owes nothing yet.
LEMMA CreateKeeps ==
  ASSUME IInv, NEW o \in Offers, CreateEscrow(o)
  PROVE  IInv' /\ UNCHANGED V!vars
<1> DEFINE id == counter + 1
           r == [depositor |-> o.depositor, beneficiary |-> o.beneficiary,
                 token |-> o.token, amount |-> o.amount,
                 signers |-> Members(o.signers), threshold |-> o.threshold,
                 arbitrator |-> o.arbitrator, expires_at |-> o.expires_at,
                 funded |-> FALSE, state |-> "Pending", dispute |-> "none"]
<1>1. o \in Offer /\ o.amount > 0 /\ o.amount \in Int
  BY OfferAssumption DEF CreateEscrow, ValidOffer, Offer
<1>2. Members(o.signers) \in SUBSET Addr
  BY <1>1 DEF Members, Offer
<1>3. o.amount \in Nat /\ "Pending" \in EscrowState /\ "none" \in DisputeStage
  BY <1>1 DEF EscrowState, DisputeStage
<1>4. r \in Escrow /\ r.state = "Pending" /\ r.funded = FALSE
  BY <1>1, <1>2, <1>3 DEF Escrow, Offer
<1>5. /\ escrow' = [escrow EXCEPT ![id] = r] /\ counter' = id
      /\ counter < MaxEscrows
      /\ UNCHANGED <<now, bal, initialized, votes>>
  BY DEF CreateEscrow
<1>6. id \in Ids /\ id \in 0 .. MaxEscrows
  BY <1>5, BoundAssumption DEF IInv, TypeOK, Ids
<1> HIDE DEF r, id
<1>7. TypeOK'
  BY <1>4, <1>5, <1>6 DEF IInv, TypeOK, votes
<1>8. FundsMatch'
  BY <1>4, <1>5, <1>6 DEF IInv, TypeOK, FundsMatch
<1>9. Allocated'
  BY <1>5, <1>6 DEF IInv, TypeOK, Allocated, CreateEscrow, Ids
<1>10. ~Holding(escrow[id]) /\ ~Holding(escrow'[id])
  <2>1. escrow[id] = NoEscrow
    BY <1>6 DEF IInv, TypeOK, Allocated, id
  <2> QED BY <1>4, <1>5, <1>6, <2>1 DEF Holding, NoEscrow, IInv, TypeOK
<1>11. \A j \in Ids \ {id} : escrow'[j] = escrow[j]
  BY <1>5 DEF IInv, TypeOK
<1>12. \A t \in Token, j \in Ids :
         (IF Holding(escrow'[j]) /\ escrow'[j].token = t THEN escrow'[j].amount ELSE 0)
           = (IF Holding(escrow[j]) /\ escrow[j].token = t THEN escrow[j].amount ELSE 0)
  BY <1>10, <1>11
<1>13. Owed' = Owed
  BY <1>12 DEF Owed, Holding
<1>14. Pool' = Pool
  BY <1>5 DEF Pool
<1> QED BY <1>7, <1>8, <1>9, <1>13, <1>14 DEF IInv, V!vars

\* The other entry points change neither deposits nor balances.
LEMMA QuietKeeps ==
  ASSUME IInv,
         \/ Initialize \/ Tick
         \/ \E id \in Ids, s \in Addr, v \in VoteAction : SignApprove(id, s, v)
  PROVE  IInv' /\ UNCHANGED V!vars
<1>1. CASE Initialize
  <2>1. TypeOK' /\ FundsMatch' /\ Allocated'
    BY <1>1, BoundAssumption
       DEF Initialize, IInv, TypeOK, FundsMatch, Allocated, votes
  <2>2. Owed' = Owed /\ Pool' = Pool
    BY <1>1 DEF Initialize, Owed, Pool, Holding
  <2> QED BY <2>1, <2>2 DEF IInv, V!vars
<1>2. CASE Tick
  <2>1. TypeOK' /\ FundsMatch' /\ Allocated'
    BY <1>2 DEF Tick, IInv, TypeOK, FundsMatch, Allocated, votes
  <2>2. Owed' = Owed /\ Pool' = Pool
    BY <1>2 DEF Tick, Owed, Pool, Holding
  <2> QED BY <2>1, <2>2 DEF IInv, V!vars
<1>3. CASE \E id \in Ids, s \in Addr, v \in VoteAction : SignApprove(id, s, v)
  <2>1. PICK id \in Ids, s \in Addr, v \in VoteAction : SignApprove(id, s, v)
    BY <1>3
  <2>2. UNCHANGED <<now, bal, initialized, counter, escrow>>
    BY <2>1 DEF SignApprove
  <2>3. vote' \in [Ids -> [Addr -> VoteAction \cup {NoVote}]]
    BY <2>1 DEF SignApprove, IInv, TypeOK
  <2>4. releaseCount' \in [Ids -> Nat] /\ refundCount' \in [Ids -> Nat]
    BY <2>1 DEF SignApprove, IInv, TypeOK
  <2>5. TypeOK' /\ FundsMatch' /\ Allocated'
    BY <2>2, <2>3, <2>4 DEF IInv, TypeOK, FundsMatch, Allocated
  <2>6. Owed' = Owed /\ Pool' = Pool
    BY <2>2 DEF Owed, Pool, Holding
  <2> QED BY <2>5, <2>6 DEF IInv, V!vars
<1> QED BY <1>1, <1>2, <1>3

\* The steps of the contract, summed up.
LEMMA StepKinds ==
  ASSUME IInv, [Next]_vars
  PROVE  \/ \E o \in Offers : CreateEscrow(o)
         \/ \E id \in Ids : Moves(id)
         \/ \E id \in Ids, s \in Addr, v \in VoteAction : SignApprove(id, s, v)
         \/ Initialize \/ Tick
         \/ UNCHANGED vars
<1>1. ASSUME NEW id \in Ids, CancelEscrow(id) PROVE Moves(id)
  BY <1>1, GiveBackMoves DEF CancelEscrow
<1>2. ASSUME NEW id \in Ids, ExpireEscrow(id) PROVE Moves(id)
  BY <1>2, GiveBackMoves DEF ExpireEscrow
<1>3. ASSUME NEW id \in Ids,
             \/ FundEscrow(id) \/ ReleaseFunds(id) \/ RefundFunds(id)
             \/ \E c \in Addr : RaiseDispute(id, c)
             \/ \E a \in Addr, r \in DisputeResolution : ResolveDispute(id, a, r)
      PROVE  Moves(id)
  BY <1>3, FundMoves, ReleaseMoves, RefundMoves, RaiseMoves, ResolveMoves
<1> QED BY <1>1, <1>2, <1>3 DEF Next

\* Every step of the contract keeps the invariant and is, seen through the
\* pools and the obligations, a step of a custodian or none at all.
LEMMA StepFacts ==
  ASSUME IInv, [Next]_vars
  PROVE  IInv' /\ [V!Next]_(V!vars)
<1>1. CASE \E o \in Offers : CreateEscrow(o)
  BY <1>1, CreateKeeps
<1>2. CASE \/ Initialize \/ Tick
           \/ \E id \in Ids, s \in Addr, v \in VoteAction : SignApprove(id, s, v)
  BY <1>2, QuietKeeps
<1>3. CASE \E id \in Ids : Moves(id)
  BY <1>3, MovesKeeps
<1>4. CASE UNCHANGED vars
  <2>1. IInv'
    BY <1>4 DEF vars, votes, IInv, TypeOK, FundsMatch, Allocated
  <2>2. Owed' = Owed /\ Pool' = Pool
    BY <1>4 DEF vars, Owed, Pool, Holding
  <2> QED BY <2>1, <2>2 DEF V!vars
<1> QED BY <1>1, <1>2, <1>3, <1>4, StepKinds

\* Every reachable state of the escrow contract has the types of TypeOK.
THEOREM TypeCorrect == Spec => []TypeOK
<1>1. Init => IInv
  BY IInvInit
<1>2. IInv /\ [Next]_vars => IInv'
  BY StepFacts
<1>3. IInv => TypeOK
  BY DEF IInv
<1> QED BY <1>1, <1>2, <1>3, PTL DEF Spec

\* The two instances of Custody, here and in MultisigEscrow, are the same.
LEMMA SameVault == (V!Spec <=> Custodian) /\ (V!Solvent <=> Solvent)
<1>1. V!Init <=> Vault!Init
  BY DEF V!Init, Vault!Init
<1>2. [V!Next]_(V!vars) <=> [Vault!Next]_(Vault!vars)
  BY DEF V!Next, Vault!Next, V!vars, Vault!vars, V!Deposit, Vault!Deposit,
         V!Discharge, Vault!Discharge, V!Only, Vault!Only
<1>3. V!Solvent <=> Solvent
  BY DEF V!Solvent, Solvent, Vault!Solvent, V!Total, Vault!Total, V!Units, Vault!Units,
         V!Cardinality, Vault!Cardinality
<1> QED BY <1>1, <1>2, <1>3, PTL DEF Custodian, Vault!Spec, V!Spec

\* The escrow contract implements Custody: deposits come in before an escrow
\* counts as funded and no entry point pays out more than what it closes.
THEOREM ImplementsCustody == Spec => Custodian
<1>1. Init => IInv /\ V!Init
  BY IInvInit
<1>2. IInv /\ [Next]_vars => IInv' /\ [V!Next]_(V!vars)
  BY StepFacts
<1>3. Spec => V!Spec
  BY <1>1, <1>2, PTL DEF Spec, V!Spec
<1> QED BY <1>3, SameVault, PTL

\* Who behaves as Custody says can pay what it owes, for any tokens and any finite
\* set of obligations.
THEOREM CustodianSolvent == IsFiniteSet(Ids) => (V!Spec => []V!Solvent)
<1> SUFFICES ASSUME IsFiniteSet(Ids) PROVE V!Spec => []V!Solvent
  OBVIOUS
<1>1. \A f : V!Total(f) = Total(f)
  BY Zenon DEF V!Total, Total, V!Units, Units, V!Cardinality, Cardinality
<1>2. V!Init => V!TypeOK /\ V!Solvent
  <2> SUFFICES ASSUME V!Init PROVE V!TypeOK /\ V!Solvent
    OBVIOUS
  <2>1. V!TypeOK
    BY DEF V!Init, V!TypeOK
  <2>2. ASSUME NEW t \in Token PROVE Pool[t] >= Total(Owed[t])
    <3> DEFINE f == Owed[t]
    <3>1. f \in [Ids -> Nat] /\ \A s \in Ids : f[s] = 0
      BY DEF V!Init
    <3> HIDE DEF f
    <3>2. Total(f) = 0
      BY <3>1, TotalZero
    <3> QED BY <2>1, <3>2 DEF f, V!TypeOK
  <2> QED BY <1>1, <2>1, <2>2 DEF V!Solvent
<1>3. V!TypeOK /\ V!Solvent /\ [V!Next]_(V!vars) => (V!TypeOK /\ V!Solvent)'
  <2> SUFFICES ASSUME V!TypeOK, V!Solvent, [V!Next]_(V!vars) PROVE V!TypeOK' /\ V!Solvent'
    OBVIOUS
  <2>1. CASE UNCHANGED V!vars
    BY <2>1 DEF V!vars, V!TypeOK, V!Solvent
  <2>2. ASSUME NEW t \in Token, NEW s \in Ids, V!Deposit(t, s) \/ V!Discharge(t, s)
        PROVE  V!TypeOK' /\ V!Solvent'
    <3> DEFINE f == Owed[t]
               g == Owed'[t]
               p == Pool[t]
               q == Pool'[t]
    <3>1. /\ q \in Nat /\ g[s] \in Nat /\ Pool' = [Pool EXCEPT ![t] = q]
          /\ Owed' = [Owed EXCEPT ![t][s] = g[s]]
      BY <2>2 DEF V!Deposit, V!Discharge, V!Only
    <3>2. /\ Pool \in [Token -> Nat] /\ Owed \in [Token -> [Ids -> Nat]]
          /\ \A u \in Token : Pool[u] >= Total(Owed[u])
      BY <1>1 DEF V!TypeOK, V!Solvent
    <3>3. q >= p + (g[s] - f[s])
      <4>1. /\ p \in Nat /\ f[s] \in Nat
            /\ \/ q >= p + (g[s] - f[s])
               \/ p <= q + (f[s] - g[s])
        BY <2>2, <3>2 DEF V!Deposit, V!Discharge
      <4> HIDE DEF p, q, f, g
      <4> QED BY <3>1, <4>1
    <3> DEFINE x == q
               y == g[s]
    <3> HIDE DEF x, y
    <3>4. x \in Nat /\ y \in Nat /\ Pool' = [Pool EXCEPT ![t] = x]
          /\ Owed' = [Owed EXCEPT ![t][s] = y]
      BY <3>1 DEF x, y
    <3>5. /\ Pool' \in [Token -> Nat] /\ Owed' \in [Token -> [Ids -> Nat]]
          /\ \A u \in Token \ {t} : Pool'[u] = Pool[u] /\ Owed'[u] = Owed[u]
          /\ f \in [Ids -> Nat] /\ g \in [Ids -> Nat] /\ \A r \in Ids \ {s} : g[r] = f[r]
      BY <3>2, <3>4
    <3>6. p \in Nat /\ p >= Total(f)
      BY <3>2
    <3>7. q >= Total(g)
      <4>1. q \in Nat
        BY <3>1
      <4> HIDE DEF p, q, f, g
      <4> QED BY <3>3, <3>5, <3>6, <4>1, StillCovers
    <3>8. \A u \in Token : Pool'[u] >= Total(Owed'[u])
      BY <3>2, <3>5, <3>7
    <3>9. (\A u \in Token : Pool[u] >= V!Total(Owed[u]))'
      BY <1>1, <3>8
    <3> QED BY <3>5, <3>9 DEF V!TypeOK, V!Solvent
  <2> QED BY <2>1, <2>2 DEF V!Next
<1> QED BY <1>2, <1>3, PTL DEF V!Spec

\* The contract can always pay the deposits of all Active and Disputed
\* escrows: inherited from Custody.
THEOREM EscrowSolvent == Spec => []Solvent
<1>1. IsFiniteSet(Ids)
  BY BoundAssumption, FS_Interval DEF Ids
<1>2. V!Spec => []V!Solvent
  BY <1>1, CustodianSolvent, PTL
<1> QED BY <1>2, ImplementsCustody, SameVault, PTL

-----------------------------------------------------------------------------
(***************************************************************************)
(* Votes.                                                                  *)
(***************************************************************************)

\* Nobody has voted on an escrow that does not exist yet.
Unvoted == \A id \in Ids : escrow[id] = NoEscrow => \A s \in Addr : vote[id][s] = NoVote

VInv == IInv /\ VotesCounted /\ Unvoted

\* The signers who voted one way are finitely many accounts.
LEMMA VotersFinite ==
  ASSUME NEW id, NEW v
  PROVE  IsFiniteSet(Voters(id, v)) /\ Voters(id, v) \subseteq Addr
         /\ Cardinality(Voters(id, v)) \in Nat
<1>1. Voters(id, v) \subseteq Addr
  BY DEF Voters
<1> QED BY <1>1, AddrAssumption, FS_Subset, FS_CardinalityType

\* Steps that leave the votes alone and keep the signers of every escrow.
LEMMA VotesStay ==
  ASSUME VInv, UNCHANGED votes,
         \A id \in Ids : \/ escrow'[id] = escrow[id]
                         \/ /\ escrow[id] # NoEscrow /\ escrow'[id] # NoEscrow
                            /\ escrow'[id].signers = escrow[id].signers
                         \/ escrow[id] = NoEscrow
  PROVE  VotesCounted' /\ Unvoted'
<1>1. \A id, v : Voters(id, v)' = Voters(id, v)
  BY DEF Voters, votes
<1>2. VotesCounted'
  BY <1>1 DEF VInv, VotesCounted, Unvoted, votes
<1>3. Unvoted'
  BY DEF VInv, Unvoted, votes
<1> QED BY <1>2, <1>3

\* sign_approve adds one voter and counts it once.
LEMMA SignCounts ==
  ASSUME VInv, NEW id \in Ids, NEW s \in Addr, NEW v \in VoteAction, SignApprove(id, s, v)
  PROVE  VotesCounted' /\ Unvoted'
<1>1. /\ vote[id][s] = NoVote /\ vote' = [vote EXCEPT ![id][s] = v]
      /\ escrow' = escrow /\ escrow[id].state = "Active" /\ s \in escrow[id].signers
  BY DEF SignApprove
<1>2. vote \in [Ids -> [Addr -> VoteAction \cup {NoVote}]]
      /\ releaseCount \in [Ids -> Nat] /\ refundCount \in [Ids -> Nat]
  BY DEF VInv, IInv, TypeOK
<1>3. \A j \in Ids, a \in Addr : vote'[j][a] = IF j = id /\ a = s THEN v ELSE vote[j][a]
  BY <1>1, <1>2
<1>4. v # NoVote
  BY DEF VoteAction, NoVote
<1>5. \A j \in Ids, w \in VoteAction :
        Voters(j, w)' = IF j = id /\ w = v THEN Voters(id, v) \cup {s} ELSE Voters(j, w)
  BY <1>1, <1>3, <1>4 DEF Voters, VoteAction, NoVote
<1>6. s \notin Voters(id, v)
  BY <1>1, <1>4 DEF Voters
<1>7. Cardinality(Voters(id, v) \cup {s}) = Cardinality(Voters(id, v)) + 1
  BY <1>6, VotersFinite, FS_AddElement
<1>8. \A j \in Ids :
        releaseCount'[j] = Cardinality(Voters(j, "ApproveRelease")')
        /\ refundCount'[j] = Cardinality(Voters(j, "ApproveRefund")')
  <2>1. CASE v = "ApproveRelease"
    BY <1>2, <1>5, <1>7, <2>1 DEF SignApprove, VInv, VotesCounted, VoteAction
  <2>2. CASE v = "ApproveRefund"
    BY <1>2, <1>5, <1>7, <2>2 DEF SignApprove, VInv, VotesCounted, VoteAction
  <2> QED BY <2>1, <2>2 DEF VoteAction
<1>9. \A j \in Ids : escrow'[j] # NoEscrow =>
        \A a \in Addr : vote'[j][a] # NoVote => a \in escrow'[j].signers
  BY <1>1, <1>3 DEF VInv, VotesCounted
<1>10. VotesCounted'
  BY <1>8, <1>9 DEF VotesCounted
<1>11. Unvoted'
  BY <1>1, <1>3 DEF VInv, Unvoted, NoEscrow
<1> QED BY <1>10, <1>11

\* Moving an escrow leaves its votes and their counts alone.
LEMMA MovesVotes ==
  ASSUME VInv, NEW id \in Ids, Moves(id)
  PROVE  VotesCounted' /\ Unvoted'
<1>1. PICK r : Replaces(id, r) /\ UNCHANGED votes
  BY DEF Moves, votes
<1>2. escrow[id] # NoEscrow /\ r # NoEscrow /\ r.signers = escrow[id].signers
  BY <1>1 DEF Replaces, Escrow, NoEscrow
<1>3. escrow'[id] = r /\ \A j \in Ids \ {id} : escrow'[j] = escrow[j]
  BY <1>1 DEF Replaces, VInv, IInv, TypeOK
<1> QED BY <1>1, <1>2, <1>3, VotesStay

\* Every step keeps the counts equal to the votes cast.
LEMMA VotesStep ==
  ASSUME VInv, [Next]_vars PROVE VInv'
<1> IInv
  BY DEF VInv
<1>1. IInv'
  BY StepFacts
<1>2. CASE \E o \in Offers : CreateEscrow(o)
  <2>1. PICK o \in Offers : CreateEscrow(o)
    BY <1>2
  <2>2. counter + 1 \in Ids /\ escrow[counter + 1] = NoEscrow /\ UNCHANGED votes
    BY <2>1, BoundAssumption DEF CreateEscrow, IInv, TypeOK, Allocated, Ids
  <2>3. \A j \in Ids : j # counter + 1 => escrow'[j] = escrow[j]
    BY <2>1 DEF CreateEscrow, IInv, TypeOK
  <2>4. VotesCounted' /\ Unvoted'
    <3>1. \A j \in Ids : escrow'[j] = escrow[j] \/ escrow[j] = NoEscrow
      BY <2>2, <2>3
    <3> QED BY <2>2, <3>1, VotesStay
  <2> QED BY <1>1, <2>4 DEF VInv
<1>3. CASE \E id \in Ids : Moves(id)
  BY <1>1, <1>3, MovesVotes DEF VInv
<1>4. CASE \E id \in Ids, s \in Addr, v \in VoteAction : SignApprove(id, s, v)
  BY <1>1, <1>4, SignCounts DEF VInv
<1>5. CASE Initialize \/ Tick \/ UNCHANGED vars
  <2>1. UNCHANGED <<escrow, votes>>
    BY <1>5 DEF Initialize, Tick, vars, votes
  <2>2. VotesCounted' /\ Unvoted'
    BY <2>1, VotesStay DEF votes
  <2> QED BY <1>1, <2>2 DEF VInv
<1> QED BY <1>2, <1>3, <1>4, <1>5, StepKinds

\* Nobody has voted at the start.
LEMMA VotesInit == Init => VInv
<1> SUFFICES ASSUME Init PROVE VInv
  OBVIOUS
<1>1. IInv
  BY IInvInit
<1>2. \A id \in Ids, v \in VoteAction : Voters(id, v) = {}
  BY DEF Init, Voters, VoteAction, NoVote
<1>3. Cardinality({}) = 0
  BY FS_EmptySet
<1>4. VotesCounted
  BY <1>2, <1>3 DEF Init, VotesCounted, VoteAction
<1>5. Unvoted
  BY DEF Init, Unvoted
<1> QED BY <1>1, <1>4, <1>5 DEF VInv

\* ReleaseCount and RefundCount always equal the number of distinct signers
\* that voted for release and for refund.
THEOREM CountsAreVotes == Spec => []VotesCounted
<1>1. VInv => VotesCounted
  BY DEF VInv
<1> QED BY VotesInit, VotesStep, <1>1, PTL DEF Spec

\* Under a majority threshold the two quorums exclude each other, for any
\* number of signers.
THEOREM QuorumsExclude == Spec => []NoRivalQuorums
<1>1. ASSUME VInv PROVE NoRivalQuorums
  <2>1. SUFFICES ASSUME NEW id \in Ids, escrow[id] # NoEscrow,
                        2 * escrow[id].threshold > Cardinality(escrow[id].signers),
                        releaseCount[id] >= escrow[id].threshold,
                        refundCount[id] >= escrow[id].threshold
                 PROVE  FALSE
    BY DEF NoRivalQuorums
  <2> DEFINE A == Voters(id, "ApproveRelease")
             B == Voters(id, "ApproveRefund")
             S == escrow[id].signers
             m == escrow[id].threshold
  <2>2. S \subseteq Addr /\ m \in Nat
    <3>1. escrow[id] \in Escrow
      BY <1>1, <2>1 DEF VInv, IInv, TypeOK
    <3> QED BY <3>1, EscrowFacts
  <2>3. IsFiniteSet(S)
    BY <2>2, AddrAssumption, FS_Subset
  <2>4. A \cap B = {} /\ A \cup B \subseteq S
    BY <2>1, <1>1 DEF Voters, VInv, VotesCounted, VoteAction, NoVote
  <2>5. Cardinality(A) >= m /\ Cardinality(B) >= m
    BY <1>1, <2>1 DEF VInv, VotesCounted
  <2>6. 2 * m > Cardinality(S)
    BY <2>1
  <2>7. IsFiniteSet(A) /\ IsFiniteSet(B)
    BY VotersFinite
  <2> HIDE DEF A, B, S, m
  <2>8. Cardinality(A \cup B) = Cardinality(A) + Cardinality(B) - Cardinality(A \cap B)
    BY <2>7, FS_Union
  <2>9. Cardinality(A \cap B) = 0
    BY <2>4, FS_EmptySet
  <2>10. Cardinality(A \cup B) <= Cardinality(S)
    BY <2>3, <2>4, FS_Subset
  <2>11. Cardinality(A) \in Nat /\ Cardinality(B) \in Nat /\ Cardinality(S) \in Nat
    BY <2>3, <2>7, FS_CardinalityType
  <2> QED BY <2>2, <2>5, <2>6, <2>8, <2>9, <2>10, <2>11
<1> QED BY VotesInit, VotesStep, <1>1, PTL DEF Spec

\* A closed escrow never changes again.
THEOREM ClosedStays == Spec => ClosedForGood
<1>1. ASSUME IInv, [Next]_vars
      PROVE  \A id \in Ids : Final(escrow[id]) => escrow'[id] = escrow[id]
  <2>1. CASE \E o \in Offers : CreateEscrow(o)
    <3>1. PICK o \in Offers : CreateEscrow(o)
      BY <2>1
    <3>2. counter + 1 \in Ids /\ escrow[counter + 1] = NoEscrow
      BY <1>1, <3>1, BoundAssumption DEF CreateEscrow, IInv, TypeOK, Allocated, Ids
    <3>3. ~Final(escrow[counter + 1])
      BY <3>2 DEF Final, NoEscrow
    <3>4. \A j \in Ids : j # counter + 1 => escrow'[j] = escrow[j]
      BY <1>1, <3>1 DEF CreateEscrow, IInv, TypeOK
    <3> QED BY <3>3, <3>4
  <2>2. CASE \E id \in Ids : Moves(id)
    BY <1>1, <2>2 DEF Moves, Replaces, IInv, TypeOK
  <2>3. CASE \/ \E id \in Ids, s \in Addr, v \in VoteAction : SignApprove(id, s, v)
             \/ Initialize \/ Tick \/ UNCHANGED vars
    BY <2>3 DEF SignApprove, Initialize, Tick, vars
  <2> QED BY <1>1, <2>1, <2>2, <2>3, StepKinds
<1>2. IInv /\ [Next]_vars => [\A id \in Ids : Final(escrow[id]) => escrow'[id] = escrow[id]]_vars
  BY <1>1
<1>3. Init => IInv
  BY IInvInit
<1>4. IInv /\ [Next]_vars => IInv'
  BY StepFacts
<1> QED BY <1>2, <1>3, <1>4, PTL DEF Spec, ClosedForGood

\* An Active escrow is Released or Refunded only with the agreement of
\* threshold many of its signers, Cancelled only if none has voted.
THEOREM AgreementNeeded == Spec => LeavesActiveForAReason
<1>1. ASSUME VInv, [Next]_vars, NEW id \in Ids, escrow[id].state = "Active"
      PROVE  LeavesActive(id)
  <2> IInv /\ TypeOK /\ VotesCounted
    BY <1>1 DEF VInv, IInv
  <2>1. escrow[id] \in Escrow /\ escrow[id] # NoEscrow
    BY <1>1, StoredEscrow DEF EscrowState, NoEscrow
  <2>2. \A v \in VoteAction : Voters(id, v) \cap escrow[id].signers = Voters(id, v)
    BY <2>1 DEF Voters, VotesCounted, VoteAction, NoVote
  <2>3. /\ releaseCount[id] = Cardinality(Voters(id, "ApproveRelease") \cap escrow[id].signers)
        /\ refundCount[id] = Cardinality(Voters(id, "ApproveRefund") \cap escrow[id].signers)
    BY <2>2 DEF VotesCounted, VoteAction
  <2>4. CASE escrow'[id] = escrow[id]
    BY <1>1, <2>4 DEF LeavesActive
  <2>5. CASE ReleaseFunds(id)
    <3>1. escrow'[id].state = "Released" /\ releaseCount[id] >= escrow[id].threshold
      BY <2>1, <2>5 DEF ReleaseFunds, TypeOK, Escrow
    <3> QED BY <2>3, <3>1 DEF LeavesActive
  <2>6. CASE RefundFunds(id)
    <3>1. escrow'[id].state = "Refunded" /\ refundCount[id] >= escrow[id].threshold
      BY <2>1, <2>6 DEF RefundFunds, TypeOK, Escrow
    <3> QED BY <2>3, <3>1 DEF LeavesActive
  <2>7. CASE \E c \in Addr : RaiseDispute(id, c)
    <3>1. escrow'[id].state = "Disputed" /\ escrow[id].arbitrator # None
      BY <2>1, <2>7 DEF RaiseDispute, TypeOK, Escrow
    <3> QED BY <3>1 DEF LeavesActive
  <2>8. CASE CancelEscrow(id)
    <3>1. escrow'[id].state = "Cancelled" /\ releaseCount[id] + refundCount[id] = 0
      BY <1>1, <2>1, <2>8 DEF CancelEscrow, GiveBack, TypeOK, Escrow
    <3>2. Cardinality(Voters(id, "ApproveRelease")) = 0
          /\ Cardinality(Voters(id, "ApproveRefund")) = 0
      BY <3>1, VotersFinite DEF VotesCounted
    <3>3. Voters(id, "ApproveRelease") = {} /\ Voters(id, "ApproveRefund") = {}
      BY <3>2, VotersFinite, FS_EmptySet
    <3>4. \A s \in escrow[id].signers : vote[id][s] = NoVote
      BY <2>1, <3>3, EscrowFacts DEF Voters, TypeOK, VoteAction
    <3> QED BY <3>1, <3>4 DEF LeavesActive
  <2>9. CASE ExpireEscrow(id)
    <3>1. escrow'[id].state = "Expired" /\ now > escrow[id].expires_at
      BY <2>1, <2>9 DEF ExpireEscrow, GiveBack, TypeOK, Escrow
    <3> QED BY <3>1 DEF LeavesActive
  <2>10. ASSUME NEW j \in Ids, j # id, Moves(j) PROVE escrow'[id] = escrow[id]
    BY <2>10 DEF Moves, Replaces, TypeOK
  <2>11. CASE \E o \in Offers : CreateEscrow(o)
    <3>1. PICK o \in Offers : CreateEscrow(o)
      BY <2>11
    <3>2. counter + 1 \in Ids /\ escrow[counter + 1] = NoEscrow
      BY <3>1, BoundAssumption DEF CreateEscrow, IInv, TypeOK, Allocated, Ids
    <3>3. escrow'[id] = escrow[id]
      BY <2>1, <3>1, <3>2 DEF CreateEscrow, TypeOK
    <3> QED BY <2>4, <3>3
  <2>12. CASE \/ \E j \in Ids, s \in Addr, v \in VoteAction : SignApprove(j, s, v)
              \/ Initialize \/ Tick \/ UNCHANGED vars
    <3>1. escrow' = escrow
      BY <2>12 DEF SignApprove, Initialize, Tick, vars
    <3> QED BY <2>4, <3>1
  <2>13. ASSUME NEW j \in Ids,
                \/ FundEscrow(j) \/ ReleaseFunds(j) \/ RefundFunds(j)
                \/ \E c \in Addr : RaiseDispute(j, c)
                \/ \E a \in Addr, r \in DisputeResolution : ResolveDispute(j, a, r)
                \/ CancelEscrow(j) \/ ExpireEscrow(j)
         PROVE  LeavesActive(id)
    <3>1. CASE j # id
      <4>1. Moves(j)
        BY <2>13, FundMoves, ReleaseMoves, RefundMoves, RaiseMoves, ResolveMoves,
           GiveBackMoves DEF CancelEscrow, ExpireEscrow
      <4> QED BY <2>4, <2>10, <3>1, <4>1
    <3>2. CASE j = id
      <4>1. ~FundEscrow(id) /\ ~\E a \in Addr, r \in DisputeResolution : ResolveDispute(id, a, r)
        BY <1>1 DEF FundEscrow, ResolveDispute
      <4> QED BY <2>5, <2>6, <2>7, <2>8, <2>9, <2>13, <3>2, <4>1
    <3> QED BY <3>1, <3>2
  <2> QED BY <1>1, <2>11, <2>12, <2>13 DEF Next
<1>2. VInv /\ [Next]_vars => [\A id \in Ids : escrow[id].state = "Active" => LeavesActive(id)]_vars
  BY <1>1
<1> QED BY VotesInit, VotesStep, <1>2, PTL DEF Spec, LeavesActiveForAReason

-----------------------------------------------------------------------------
\* What closing escrow e pays, and to whom.
PaidFor(e) ==
  LET parties == {e.depositor, e.beneficiary}
  IN /\ \A a \in Addr \ parties : bal'[e.token][a] = bal[e.token][a]
     /\ e.beneficiary # Self =>
          Total([a \in parties |-> bal'[e.token][a]])
            = Total([a \in parties |-> bal[e.token][a]]) + e.amount

\* A payment out of the contract to one of several accounts is what these have
\* more than before.
LEMMA OnePaid ==
  ASSUME NEW b \in [Account -> Nat], NEW S \in SUBSET Addr, IsFiniteSet(S),
         NEW to \in S, NEW m \in Nat, b[Self] >= m
  PROVE  Total([a \in S |-> Transfer(b, Self, to, m)[a]]) = Total([a \in S |-> b[a]]) + m
<1> DEFINE f == [a \in S |-> b[a]]
           g == [a \in S |-> Transfer(b, Self, to, m)[a]]
<1>1. S \subseteq Account /\ Self \in Account /\ Self \notin S
  BY AddrAssumption DEF Account
<1>2. Transfer(b, Self, to, m) \in [Account -> Nat]
  BY <1>1, TransferFacts
<1>3. f \in [S -> Nat] /\ g \in [S -> Nat]
  BY <1>1, <1>2
<1>4. g[to] = f[to] + m /\ \A a \in S \ {to} : g[a] = f[a]
  BY <1>1 DEF Transfer
<1> HIDE DEF f, g
<1>5. Total(g) = Total(f) + m
  BY <1>3, <1>4, TotalRaise
<1> QED BY <1>5 DEF f, g

\* The two parties of an escrow.
LEMMA Parties ==
  ASSUME NEW e \in Escrow, e.beneficiary # Self
  PROVE  /\ {e.depositor, e.beneficiary} \in SUBSET Addr
         /\ IsFiniteSet({e.depositor, e.beneficiary})
<1>1. e.depositor \in Addr /\ e.beneficiary \in Addr
  BY EscrowFacts DEF Account
<1>2. {e.depositor, e.beneficiary} = {e.depositor} \cup {e.beneficiary}
  OBVIOUS
<1>3. IsFiniteSet({e.depositor} \cup {e.beneficiary})
  BY FS_Singleton, FS_Union
<1> QED BY <1>1, <1>2, <1>3

\* The whole amount goes to one of the parties.
LEMMA PayPaid ==
  ASSUME TypeOK, NEW e \in Escrow, NEW to \in {e.depositor, e.beneficiary},
         Pay(e.token, to, e.amount)
  PROVE  PaidFor(e)
<1> DEFINE t == e.token
           m == e.amount
           S == {e.depositor, e.beneficiary}
<1>1. t \in Token /\ m \in Nat /\ to \in Account /\ bal[t] \in [Account -> Nat]
  BY EscrowFacts DEF TypeOK
<1>2. bal'[t] = Transfer(bal[t], Self, to, m) /\ bal[t][Self] >= m
  BY <1>1 DEF Pay, TypeOK
<1>3. \A a \in Addr \ S : bal'[t][a] = bal[t][a]
  BY <1>1, <1>2, AddrAssumption DEF Transfer, Account
<1>4. e.beneficiary # Self =>
        Total([a \in S |-> bal'[t][a]]) = Total([a \in S |-> bal[t][a]]) + m
  <2> SUFFICES ASSUME e.beneficiary # Self
               PROVE  Total([a \in S |-> bal'[t][a]]) = Total([a \in S |-> bal[t][a]]) + m
    OBVIOUS
  <2>1. S \in SUBSET Addr /\ IsFiniteSet(S) /\ to \in S
    BY Parties
  <2> HIDE DEF S, t, m
  <2> QED BY <1>1, <1>2, <2>1, OnePaid
<1> QED BY <1>3, <1>4 DEF PaidFor

\* The two halves go to the two parties, which may be one account.
LEMMA SplitPaid ==
  ASSUME TypeOK, NEW e \in Escrow, PaySplit(e)
  PROVE  PaidFor(e)
<1> DEFINE t == e.token
           m == e.amount
           half == m \div 2
           rest == m - half
           S == {e.depositor, e.beneficiary}
           b == bal[t]
           c == Transfer(b, Self, e.beneficiary, half)
           d == Transfer(c, Self, e.depositor, rest)
<1>1. /\ t \in Token /\ m \in Nat /\ b \in [Account -> Nat]
      /\ e.depositor \in Account /\ e.beneficiary \in Account /\ Self \in Account
  BY EscrowFacts DEF TypeOK, Account
<1>2. half \in Nat /\ rest \in Nat /\ half + rest = m
  <2> HIDE DEF m
  <2> QED BY <1>1
<1>3. bal'[t] = d /\ b[Self] >= m
  BY <1>1 DEF PaySplit, TypeOK
<1>4. \A a \in Addr \ S : d[a] = b[a]
  BY <1>1, AddrAssumption DEF Transfer, Account
<1>5. e.beneficiary # Self => Total([a \in S |-> d[a]]) = Total([a \in S |-> b[a]]) + m
  <2> SUFFICES ASSUME e.beneficiary # Self
               PROVE  Total([a \in S |-> d[a]]) = Total([a \in S |-> b[a]]) + m
    OBVIOUS
  <2>1. S \in SUBSET Addr /\ IsFiniteSet(S) /\ e.depositor \in S /\ e.beneficiary \in S
    BY Parties
  <2> HIDE DEF S, half, rest, b, m
  <2>2. b[Self] \in Nat /\ b[Self] >= half
    BY <1>1, <1>2, <1>3
  <2>3. c \in [Account -> Nat] /\ c[Self] >= b[Self] - half
    BY <1>1, <1>2, <2>2, TransferFacts
  <2>4. Total([a \in S |-> c[a]]) = Total([a \in S |-> b[a]]) + half
    BY <1>1, <1>2, <2>1, <2>2, OnePaid
  <2> HIDE DEF c
  <2>5. c[Self] >= rest
    BY <1>1, <1>2, <1>3, <2>2, <2>3
  <2>6. Total([a \in S |-> d[a]]) = Total([a \in S |-> c[a]]) + rest
    BY <1>2, <2>1, <2>3, <2>5, OnePaid
  <2>7. [a \in S |-> b[a]] \in [S -> Nat]
    BY <1>1, <2>1 DEF Account
  <2>8. Total([a \in S |-> b[a]]) \in Nat
    BY <2>1, <2>7, UnitsFinite
  <2> QED BY <1>2, <2>4, <2>6, <2>8
<1> HIDE DEF d, b
<1> QED BY <1>3, <1>4, <1>5 DEF PaidFor, b

\* A held deposit is marked as funded, which is what cancel_escrow and
\* expire_escrow look at before they pay it back.
HeldFunded == \A id \in Ids : Holding(escrow[id]) => escrow[id].funded

\* What a handler of escrow j does to its record and for its deposit.
Honest(j) ==
  /\ \A i \in Ids \ {j} : escrow'[i] = escrow[i]
  /\ Holding(escrow'[j]) => escrow'[j].funded
  /\ Holding(escrow[j]) /\ Final(escrow'[j]) => PaidFor(escrow[j])

\* Every handler of an escrow is one of these.
LEMMA HandlersHonest ==
  ASSUME IInv, HeldFunded, NEW j \in Ids,
         \/ FundEscrow(j) \/ ReleaseFunds(j) \/ RefundFunds(j)
         \/ \E c \in Addr : RaiseDispute(j, c)
         \/ \E a \in Addr, r \in DisputeResolution : ResolveDispute(j, a, r)
         \/ CancelEscrow(j) \/ ExpireEscrow(j)
  PROVE  Honest(j)
<1> TypeOK
  BY DEF IInv
<1> DEFINE e == escrow[j]
<1>1. e \in Escrow
  BY StoredEscrow DEF FundEscrow, ReleaseFunds, RefundFunds, RaiseDispute, ResolveDispute,
     CancelEscrow, ExpireEscrow, EscrowState
<1>2. \A i \in Ids \ {j} : escrow'[i] = escrow[i]
  BY DEF TypeOK, FundEscrow, ReleaseFunds, RefundFunds, RaiseDispute, ResolveDispute,
     CancelEscrow, ExpireEscrow, GiveBack
<1>3. CASE FundEscrow(j)
  BY <1>1, <1>2, <1>3 DEF Honest, FundEscrow, Holding, TypeOK, Escrow
<1>4. CASE \E c \in Addr : RaiseDispute(j, c)
  <2>1. escrow'[j].state = "Disputed" /\ escrow'[j].funded = e.funded /\ e.state = "Active"
    BY <1>1, <1>4 DEF RaiseDispute, TypeOK, Escrow
  <2> QED BY <1>2, <2>1 DEF Honest, HeldFunded, Holding, Final
<1>5. CASE ReleaseFunds(j) \/ RefundFunds(j)
  <2>1. escrow'[j].state \in {"Released", "Refunded"}
    BY <1>1, <1>5 DEF ReleaseFunds, RefundFunds, TypeOK, Escrow
  <2>2. Pay(e.token, e.beneficiary, e.amount) \/ Pay(e.token, e.depositor, e.amount)
    BY <1>5 DEF ReleaseFunds, RefundFunds
  <2>3. PaidFor(e)
    BY <1>1, <2>2, PayPaid
  <2> QED BY <1>2, <2>1, <2>3 DEF Honest, Holding
<1>6. CASE \E a \in Addr, r \in DisputeResolution : ResolveDispute(j, a, r)
  <2>1. escrow'[j].state \in {"Released", "Refunded"}
    <3>1. PICK r \in DisputeResolution :
            escrow' = [escrow EXCEPT
              ![j].state = IF r = "Refund" THEN "Refunded" ELSE "Released", ![j].dispute = r]
      BY <1>6 DEF ResolveDispute
    <3> DEFINE st == IF r = "Refund" THEN "Refunded" ELSE "Released"
    <3>2. st \in {"Released", "Refunded"} /\ escrow'[j] = [e EXCEPT !.state = st, !.dispute = r]
      BY <3>1 DEF TypeOK
    <3> HIDE DEF st
    <3> QED BY <1>1, <3>2 DEF Escrow
  <2>2. \/ Pay(e.token, e.beneficiary, e.amount) \/ Pay(e.token, e.depositor, e.amount)
        \/ PaySplit(e)
    BY <1>6 DEF ResolveDispute
  <2>3. PaidFor(e)
    BY <1>1, <2>2, PayPaid, SplitPaid
  <2> QED BY <1>2, <2>1, <2>3 DEF Honest, Holding
<1>7. CASE CancelEscrow(j) \/ ExpireEscrow(j)
  <2>1. PICK final \in {"Cancelled", "Expired"} : GiveBack(j, final)
    BY <1>7 DEF CancelEscrow, ExpireEscrow
  <2>2. escrow'[j].state = final
    BY <1>1, <2>1 DEF GiveBack, TypeOK, Escrow
  <2>3. Holding(e) => PaidFor(e)
    <3>1. Holding(e) => Pay(e.token, e.depositor, e.amount)
      BY <2>1 DEF GiveBack, HeldFunded
    <3> QED BY <1>1, <3>1, PayPaid
  <2> QED BY <1>2, <2>2, <2>3 DEF Honest, Holding
<1> QED BY <1>3, <1>4, <1>5, <1>6, <1>7

\* Every step keeps deposits marked and pays the escrows it closes in full.
LEMMA StepPays ==
  ASSUME IInv, HeldFunded, [Next]_vars
  PROVE  /\ HeldFunded'
         /\ \A id \in Ids : Holding(escrow[id]) /\ Final(escrow'[id]) => PaidFor(escrow[id])
<1>1. ASSUME NEW j \in Ids, Honest(j)
      PROVE  /\ HeldFunded'
             /\ \A id \in Ids : Holding(escrow[id]) /\ Final(escrow'[id]) => PaidFor(escrow[id])
  <2>1. HeldFunded'
    BY <1>1 DEF Honest, HeldFunded, Holding
  <2>2. ASSUME NEW id \in Ids, Holding(escrow[id]), Final(escrow'[id])
        PROVE  PaidFor(escrow[id])
    <3>1. id = j
      BY <1>1, <2>2 DEF Honest, Holding, Final
    <3> QED BY <1>1, <2>2, <3>1 DEF Honest
  <2> QED BY <2>1, <2>2
<1>2. CASE \E o \in Offers : CreateEscrow(o)
  <2>1. PICK o \in Offers : CreateEscrow(o)
    BY <1>2
  <2>2. counter + 1 \in Ids /\ escrow[counter + 1] = NoEscrow
    BY <2>1, BoundAssumption DEF CreateEscrow, IInv, TypeOK, Allocated, Ids
  <2>3. /\ escrow'[counter + 1].state = "Pending"
        /\ \A j \in Ids \ {counter + 1} : escrow'[j] = escrow[j]
    BY <2>1, <2>2 DEF CreateEscrow, IInv, TypeOK
  <2> QED BY <1>1, <2>2, <2>3 DEF Honest, Holding, Final
<1>3. CASE UNCHANGED escrow
  BY <1>3 DEF HeldFunded, Holding, Final
<1>4. CASE \/ \E id \in Ids, s \in Addr, v \in VoteAction : SignApprove(id, s, v)
           \/ Initialize \/ Tick \/ UNCHANGED vars
  BY <1>3, <1>4 DEF SignApprove, Initialize, Tick, vars
<1>5. ASSUME NEW j \in Ids,
             \/ FundEscrow(j) \/ ReleaseFunds(j) \/ RefundFunds(j)
             \/ \E c \in Addr : RaiseDispute(j, c)
             \/ \E a \in Addr, r \in DisputeResolution : ResolveDispute(j, a, r)
             \/ CancelEscrow(j) \/ ExpireEscrow(j)
      PROVE  Honest(j)
  BY <1>5, HandlersHonest
<1> QED BY <1>1, <1>2, <1>4, <1>5 DEF Next

\* Closing a funded escrow pays out its whole amount, to its depositor and its
\* beneficiary and to nobody else, for any amounts, offers and accounts.
THEOREM ClosedPaysInFull == Spec => PaidInFull
<1>1. Init => HeldFunded
  BY DEF Init, HeldFunded, Holding, NoEscrow
<1>2. IInv /\ HeldFunded /\ [Next]_vars
        => [\A id \in Ids : Holding(escrow[id]) /\ Final(escrow'[id]) => PaidFor(escrow[id])]_vars
  BY StepPays
<1>3. IInv /\ HeldFunded /\ [Next]_vars => HeldFunded'
  BY StepPays
<1>4. Init => IInv
  BY IInvInit
<1>5. IInv /\ [Next]_vars => IInv'
  BY StepFacts
<1> QED BY <1>1, <1>2, <1>3, <1>4, <1>5, PTL DEF Spec, PaidInFull, PaidFor

=============================================================================
