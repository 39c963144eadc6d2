------------------------- MODULE RevenueShareProofs -------------------------
(***************************************************************************)
(* The revenue share contract is type correct, its books are in order, its *)
(* parties get what was received in their time, and it is a custodian in   *)
(* the sense of Custody, hence solvent: for every set of accounts, tokens  *)
(* and arguments and every bound on agreements, time and beneficiaries.    *)
(* The heart of it is that shares rounded down never add up to more than   *)
(* the amount (FloorSharesFit of TokenUnitsProofs).  The same is what lets *)
(* subscription_dao cover its claims; that and what MCRevenue states of    *)
(* royalty_distribution follow at the end.                                 *)
(***************************************************************************)
EXTENDS MCRevenue, TokenUnitsProofs, SequenceTheorems

V == INSTANCE Custody WITH Slot <- Ids, pool <- Pool, owed <- Owed

\* An agreement ag whose positions have the running totals in order.
Sound(ag, totals) ==
  /\ ValidSplit(ag.beneficiaries)
  /\ Balanced(ag)
  /\ Movable(ag)
  /\ \A i \in Index \ Indices(ag.beneficiaries) : totals[i] = 0

AllSound == \A id \in Ids : Exists(id) => Sound(agreement[id], beneficiaryTotal[id])

\* Agreement numbers are handed out in order, and only after initialize.
Allocated ==
  /\ admin = None => counter = 0
  /\ \A id \in Ids : id > counter => ~Exists(id)
  /\ \A id \in Ids : ~Exists(id) => \A i \in Index : beneficiaryTotal[id][i] = 0

IInv == TypeOK /\ AllSound /\ Allocated

Balances == [Token -> [Account -> Nat]]
Totals == [Index -> Nat]

-----------------------------------------------------------------------------
(***************************************************************************)
(* Shares, payments and transfers.                                         *)
(***************************************************************************)
\* The shares of a valid split and the owner's rest are the amount, exactly.
LEMMA SharesFacts ==
  ASSUME NEW split \in Seq(BeneficiaryShare), ValidSplit(split), NEW m \in Nat
  PROVE  /\ IsFiniteSet(Indices(split))
         /\ Shares(split, m) \in [Indices(split) -> Nat]
         /\ Total(Shares(split, m)) \in Nat
         /\ OwnerShare(split, m) \in Nat
         /\ Total(Shares(split, m)) + OwnerShare(split, m) = m
<1> DEFINE S == Indices(split)
           w == [i \in S |-> split[i].basis_points]
           f == Shares(split, m)
           D == BpsDenominator
<1>1. IsFiniteSet(S)
  <2>1. Len(split) \in Int /\ 1 \in Int
    OBVIOUS
  <2> QED BY <2>1, FS_Interval DEF Indices
<1>2. \A i \in S : split[i] \in BeneficiaryShare
  BY DEF Indices
<1>3. \A i \in S : split[i].basis_points \in Nat
  BY <1>2 DEF BeneficiaryShare
<1>4. w \in [S -> Nat] /\ Total(w) <= D /\ D \in Nat \ {0}
  BY <1>3, BoundAssumption DEF ValidSplit
<1>5. \A i \in S : (m * split[i].basis_points) \div D \in Nat
  <2> TAKE i \in S
  <2> DEFINE x == m * split[i].basis_points
  <2>1. x \in Nat
    BY <1>3
  <2> HIDE DEF x
  <2>2. x \div D \in Nat
    BY <1>4, <2>1
  <2> QED BY <2>2 DEF x
<1>6. f \in [S -> Nat] /\ \A i \in S : f[i] = (m * w[i]) \div D
  BY <1>5 DEF Shares
<1> HIDE DEF f, w, S, D
<1>7. Total(f) <= m
  <2>1. \A i \in S : f[i] = (m * w[i]) \div D
    BY <1>6
  <2>2. PICK d \in Nat \ {0} : d = D
    BY <1>4
  <2>3. PICK ff \in [S -> Nat] : ff = f
    BY <1>6
  <2>4. PICK ww \in [S -> Nat] : ww = w
    BY <1>4
  <2>5. Total(ww) <= d
    BY <1>4, <2>2, <2>4
  <2>7. RoundedDown(ff, S, m, ww, d)
    BY <2>1, <2>2, <2>3, <2>4 DEF RoundedDown
  <2>6. Total(ff) <= m
    BY ONLY m \in Nat, <1>1, <2>5, <2>7, FloorSharesFit
  <2> QED BY <2>3, <2>6
<1>8. Total(f) \in Nat
  BY <1>1, <1>6, UnitsFinite
<1>9. OwnerShare(split, m) = m - Total(f)
  BY <1>7, <1>8 DEF OwnerShare, f
<1> QED BY <1>1, <1>6, <1>7, <1>8, <1>9 DEF f, S

\* settle_in_place pays natural numbers and takes no more than the amount out
\* of the contract.
LEMMA PaidOutFacts ==
  ASSUME NEW b \in [Account -> Nat], NEW ag \in Agreement,
         ValidSplit(ag.beneficiaries), NEW m \in Nat, b[Self] >= m
  PROVE  /\ PaidOut(b, ag, m) \in [Account -> Nat]
         /\ PaidOut(b, ag, m)[Self] + m >= b[Self]
<1> DEFINE split == ag.beneficiaries
           share == Shares(split, m)
           rest == OwnerShare(split, m)
           of(a) == {i \in Indices(split) : split[i].address = a}
           part(a) == Total([i \in of(a) |-> share[i]])
           c == PaidOut(b, ag, m)
<1>1. split \in Seq(BeneficiaryShare)
  BY DEF Agreement
<1>2. /\ IsFiniteSet(Indices(split)) /\ share \in [Indices(split) -> Nat]
      /\ Total(share) \in Nat /\ rest \in Nat /\ Total(share) + rest = m
  BY <1>1, SharesFacts
<1>3. ASSUME NEW a PROVE part(a) \in Nat
  <2> DEFINE f == [i \in of(a) |-> share[i]]
  <2>1. IsFiniteSet(of(a))
    BY <1>2, FS_Subset
  <2>2. f \in [of(a) -> Nat]
    BY <1>2
  <2> HIDE DEF f, of
  <2>3. Total(f) \in Nat
    BY <2>1, <2>2, UnitsFinite
  <2> QED BY <2>3 DEF f, of
<1>4. c = [a \in Account |-> b[a] + part(a) + (IF a = ag.owner THEN rest ELSE 0)
                               - (IF a = Self THEN Total(share) + rest ELSE 0)]
  BY DEF PaidOut
<1> HIDE DEF part, share, rest, c, split
<1>5. \A a \in Account : c[a] \in Nat
  BY <1>2, <1>3, <1>4
<1>6. Self \in Account
  BY DEF Account
<1>7. c[Self] + m >= b[Self]
  <2>1. c[Self] = b[Self] + part(Self) + (IF Self = ag.owner THEN rest ELSE 0) - m
    BY <1>2, <1>3, <1>4, <1>6
  <2> QED BY <1>2, <1>3, <1>6, <2>1
<1> QED BY <1>4, <1>5, <1>7 DEF c

\* The running totals stay natural numbers, and a payment credits only the
\* positions of the split.
LEMMA CreditedFacts ==
  ASSUME NEW totals \in Totals, NEW split \in Seq(BeneficiaryShare), ValidSplit(split),
         NEW m \in Nat
  PROVE  /\ Credited(totals, split, m) \in Totals
         /\ \A i \in Index \ Indices(split) : Credited(totals, split, m)[i] = totals[i]
<1>1. Shares(split, m) \in [Indices(split) -> Nat]
  BY SharesFacts
<1> QED BY <1>1 DEF Credited, Totals

\* A transfer of the token contract keeps balances natural numbers and takes
\* no more than its amount from the payer.
LEMMA TransferFacts ==
  ASSUME NEW b \in [Account -> Nat], NEW from \in Account, NEW to \in Account,
         NEW m \in Nat, b[from] >= m
  PROVE  /\ Transfer(b, from, to, m) \in [Account -> Nat]
         /\ Transfer(b, from, to, m)[from] + m >= b[from]
         /\ to # from => Transfer(b, from, to, m)[to] = b[to] + m
BY DEF Transfer

-----------------------------------------------------------------------------
(***************************************************************************)
(* The steps as the custodian sees them.                                   *)
(***************************************************************************)
\* Agreement id becomes r; the contract gives up no more than r owes less.
Replaces(id, r) ==
  LET ag == agreement[id] IN
  /\ ag \in Agreement /\ r \in Agreement /\ r.token = ag.token
  /\ agreement' = [agreement EXCEPT ![id] = r]
  /\ bal' \in Balances
  /\ \A t \in Token \ {r.token} : bal'[t] = bal[t]
  /\ bal'[r.token][Self] + ag.unsettled >= bal[r.token][Self] + r.unsettled
  /\ beneficiaryTotal'[id] \in Totals
  /\ beneficiaryTotal' = [beneficiaryTotal EXCEPT ![id] = beneficiaryTotal'[id]]
  /\ Sound(r, beneficiaryTotal'[id])
  /\ UNCHANGED <<now, admin, counter>>

Moves(id) == \E r : Replaces(id, r)

\* Fields of a stored agreement.
LEMMA Fields ==
  ASSUME NEW ag \in Agreement
  PROVE  /\ ag # NoAgreement /\ ag.state \in AgreementState
         /\ ag.owner \in Account /\ ag.token \in Token
         /\ ag.beneficiaries \in Seq(BeneficiaryShare) /\ ag.period \in Nat
         /\ ag.received \in Nat /\ ag.distributed \in Nat /\ ag.clawed_back \in Nat
         /\ ag.unsettled \in Nat
BY DEF Agreement, NoAgreement

\* What every handler that works on an agreement knows about it.
LEMMA Stored ==
  ASSUME IInv, NEW id \in Ids, agreement[id].state \in AgreementState
  PROVE  /\ agreement[id] \in Agreement /\ Exists(id)
         /\ Sound(agreement[id], beneficiaryTotal[id])
         /\ beneficiaryTotal[id] \in Totals
<1>1. agreement[id] # NoAgreement
  BY DEF NoAgreement, AgreementState
<1>2. agreement[id] \in Agreement /\ Exists(id)
  BY <1>1 DEF IInv, TypeOK, Exists
<1> QED BY <1>2 DEF IInv, AllSound, TypeOK, Totals

\* A step that replaces one agreement keeps the invariant.
LEMMA ReplaceKeeps ==
  ASSUME IInv, NEW id \in Ids, NEW r, Replaces(id, r)
  PROVE  IInv'
<1>1. /\ agreement'[id] = r /\ \A j \in Ids \ {id} : agreement'[j] = agreement[j]
      /\ \A j \in Ids \ {id} : beneficiaryTotal'[j] = beneficiaryTotal[j]
      /\ r # NoAgreement /\ agreement[id] # NoAgreement
  BY Fields DEF Replaces, IInv, TypeOK
<1>2. TypeOK'
  <2>1. agreement' \in [Ids -> Agreement \cup {NoAgreement}]
    BY DEF Replaces, IInv, TypeOK
  <2>2. beneficiaryTotal' \in [Ids -> [Index -> Nat]]
    BY DEF Replaces, IInv, TypeOK, Totals
  <2> QED BY <2>1, <2>2 DEF Replaces, IInv, TypeOK, Balances
<1>3. AllSound'
  BY <1>1 DEF AllSound, Exists, Replaces, IInv
<1>4. Allocated'
  BY <1>1 DEF Allocated, Exists, Replaces, IInv
<1> QED BY <1>2, <1>3, <1>4 DEF IInv

\* What is owed changes in one place when one agreement is replaced.
LEMMA ReplaceOwed ==
  ASSUME TypeOK, NEW id \in Ids, NEW r, Replaces(id, r)
  PROVE  LET t == r.token IN
         /\ t \in Token
         /\ Owed' = [Owed EXCEPT ![t][id] = r.unsettled]
         /\ Owed[t][id] = agreement[id].unsettled
         /\ Owed'[t][id] = r.unsettled
<1> DEFINE t == r.token
           o == r.unsettled
<1>1. t \in Token /\ agreement[id].token = t /\ agreement[id] # NoAgreement /\ r # NoAgreement
  BY Fields DEF Replaces
<1>2. agreement'[id] = r /\ \A j \in Ids \ {id} : agreement'[j] = agreement[j]
  BY DEF TypeOK, Replaces
<1>3. \A u \in Token, j \in Ids :
        Owed'[u][j] = IF agreement'[j] # NoAgreement /\ agreement'[j].token = u
                        THEN agreement'[j].unsettled ELSE 0
  BY DEF Owed, Exists
<1>4. \A u \in Token, j \in Ids :
        Owed[u][j] = IF agreement[j] # NoAgreement /\ agreement[j].token = u
                       THEN agreement[j].unsettled ELSE 0
  BY DEF Owed, Exists
<1>5. \A u \in Token, j \in Ids :
        Owed'[u][j] = IF u = t /\ j = id THEN o ELSE Owed[u][j]
  BY <1>1, <1>2, <1>3, <1>4
<1>6. /\ DOMAIN Owed = Token /\ DOMAIN Owed' = Token
      /\ \A u \in Token : DOMAIN Owed[u] = Ids /\ DOMAIN Owed'[u] = Ids
      /\ Owed = [u \in Token |-> Owed[u]] /\ Owed' = [u \in Token |-> Owed'[u]]
      /\ \A u \in Token : Owed[u] = [j \in Ids |-> Owed[u][j]]
                          /\ Owed'[u] = [j \in Ids |-> Owed'[u][j]]
  BY DEF Owed
<1>7. Owed' = [Owed EXCEPT ![t][id] = o]
  <2> HIDE DEF o, t
  <2>1. t \in Token
    BY <1>1
  <2>2. [Owed EXCEPT ![t][id] = o]
          = [u \in Token |-> IF u = t THEN [Owed[t] EXCEPT ![id] = o] ELSE Owed[u]]
    BY <1>6, <2>1
  <2>3. [Owed[t] EXCEPT ![id] = o] = Owed'[t]
    BY <1>5, <1>6, <2>1
  <2>4. \A u \in Token : u # t => Owed'[u] = Owed[u]
    BY <1>5, <1>6
  <2> QED BY <1>6, <2>1, <2>2, <2>3, <2>4
<1> QED BY <1>1, <1>2, <1>3, <1>4, <1>7

\* A step that replaces one agreement is a step of a custodian.
LEMMA ReplaceIsCustody ==
  ASSUME TypeOK, NEW id \in Ids, NEW r, Replaces(id, r)
  PROVE  V!Next
<1> DEFINE t == r.token
           o == r.unsettled
           q == agreement[id].unsettled
<1>1. t \in Token /\ Owed' = [Owed EXCEPT ![t][id] = o] /\ Owed[t][id] = q /\ Owed'[t][id] = o
  BY ReplaceOwed
<1>2. o \in Nat /\ q \in Nat
  BY Fields DEF Replaces
<1>3. Self \in Account /\ bal \in Balances /\ bal' \in Balances
      /\ \A u \in Token \ {t} : bal'[u] = bal[u]
  BY DEF Replaces, TypeOK, Balances, Account
<1>4. /\ Pool = [u \in Token |-> bal[u][Self]] /\ Pool' = [u \in Token |-> bal'[u][Self]]
  BY DEF Pool
<1>5. Pool[t] \in Nat /\ Pool'[t] \in Nat /\ Pool' = [Pool EXCEPT ![t] = Pool'[t]]
  <2>1. \A u \in Token \ {t} : Pool'[u] = Pool[u]
    BY <1>3, <1>4
  <2>2. [Pool EXCEPT ![t] = Pool'[t]] = [u \in Token |-> Pool'[u]]
    BY <1>4, <2>1
  <2>3. Pool' = [u \in Token |-> Pool'[u]]
    BY <1>4
  <2> QED BY <1>1, <1>3, <1>4, <2>2, <2>3 DEF Balances
<1>6. Pool'[t] + q >= Pool[t] + o
  BY <1>1, <1>4 DEF Replaces
<1> HIDE DEF o, q, t
<1>7. V!Only(t, id)
  BY <1>1, <1>2, <1>5 DEF V!Only
<1>8. V!Deposit(t, id) \/ V!Discharge(t, id)
  BY <1>1, <1>2, <1>5, <1>6, <1>7 DEF V!Deposit, V!Discharge
<1> QED BY <1>1, <1>8 DEF V!Next

-----------------------------------------------------------------------------
(***************************************************************************)
(* Every handler moves one agreement.                                      *)
(***************************************************************************)
\* A table with one entry rewritten to itself is the same table.
LEMMA SameEntries ==
  ASSUME TypeOK, NEW id \in Ids
  PROVE  /\ agreement = [agreement EXCEPT ![id] = agreement[id]]
         /\ beneficiaryTotal = [beneficiaryTotal EXCEPT ![id] = beneficiaryTotal[id]]
BY DEF TypeOK

\* What a change of the state leaves alone.
LEMMA UpdateStateOnly ==
  ASSUME NEW ag \in Agreement, NEW st \in AgreementState
  PROVE  LET r == [ag EXCEPT !.state = st] IN
         /\ r \in Agreement /\ r.state = st /\ r.token = ag.token
         /\ r.beneficiaries = ag.beneficiaries
         /\ r.period = ag.period /\ r.received = ag.received
         /\ r.distributed = ag.distributed /\ r.clawed_back = ag.clawed_back
         /\ r.unsettled = ag.unsettled
BY DEF Agreement

\* A record whose money and split are those of a sound one is sound, unless
\* it is cancelled with revenue waiting.
LEMMA SoundStays ==
  ASSUME NEW ag, NEW r, NEW totals, Sound(ag, totals),
         r.beneficiaries = ag.beneficiaries, r.period = ag.period,
         r.received = ag.received, r.distributed = ag.distributed,
         r.clawed_back = ag.clawed_back, r.unsettled = ag.unsettled,
         r.state # "Cancelled"
  PROVE  Sound(r, totals)
BY DEF Sound, Balanced, Movable

\* A handler that moves no tokens and writes only states moves the agreement.
LEMMA StateMoves ==
  ASSUME IInv, NEW id \in Ids, agreement[id].state \in AgreementState,
         NEW r \in Agreement, agreement' = [agreement EXCEPT ![id] = r],
         UNCHANGED <<now, bal, admin, counter, beneficiaryTotal>>,
         r.token = agreement[id].token, r.unsettled = agreement[id].unsettled,
         Sound(r, beneficiaryTotal[id])
  PROVE  Replaces(id, r)
<1>1. agreement[id] \in Agreement /\ beneficiaryTotal[id] \in Totals
  BY Stored
<1>2. r.unsettled \in Nat /\ r.token \in Token /\ Self \in Account
  BY Fields DEF Account
<1>3. bal \in Balances
  BY DEF IInv, TypeOK, Balances
<1>4. bal[r.token][Self] \in Nat
  BY <1>2, <1>3 DEF Balances
<1>5. beneficiaryTotal = [beneficiaryTotal EXCEPT ![id] = beneficiaryTotal[id]]
  BY SameEntries DEF IInv
<1> QED BY <1>1, <1>2, <1>3, <1>4, <1>5 DEF Replaces

LEMMA RaiseMoves ==
  ASSUME IInv, NEW id \in Ids, NEW c \in Addr, RaiseDispute(id, c) PROVE Moves(id)
<1> DEFINE ag == agreement[id]
           r == [ag EXCEPT !.dispute = "open", !.state = "Disputed"]
<1>1. ag.state = "Active" /\ ag.state \in AgreementState
  BY DEF RaiseDispute, AgreementState
<1>2. ag \in Agreement /\ Sound(ag, beneficiaryTotal[id])
  BY <1>1, Stored
<1>3. /\ r \in Agreement /\ r.state = "Disputed" /\ r.token = ag.token
      /\ r.beneficiaries = ag.beneficiaries
      /\ r.period = ag.period /\ r.received = ag.received
      /\ r.distributed = ag.distributed /\ r.clawed_back = ag.clawed_back
      /\ r.unsettled = ag.unsettled
  <2>1. "Disputed" \in AgreementState /\ "open" \in DisputeStage
    BY DEF AgreementState, DisputeStage
  <2>2. ag \in Agreement
    BY <1>2
  <2> QED BY <2>1, <2>2 DEF Agreement
<1>4. agreement' = [agreement EXCEPT ![id] = r]
      /\ UNCHANGED <<now, bal, admin, counter, beneficiaryTotal>>
  BY DEF RaiseDispute
<1> HIDE DEF r
<1>5. Sound(r, beneficiaryTotal[id])
  BY <1>2, <1>3, SoundStays
<1> QED BY <1>1, <1>3, <1>4, <1>5, StateMoves DEF Moves

LEMMA PauseMoves ==
  ASSUME IInv, NEW id \in Ids, Pause(id) \/ Unpause(id) PROVE Moves(id)
<1>1. PICK st \in {"Active", "Paused"} :
        /\ agreement[id].state \in {"Active", "Paused"}
        /\ agreement' = [agreement EXCEPT ![id].state = st]
        /\ UNCHANGED <<now, bal, admin, counter, beneficiaryTotal>>
  BY DEF Pause, Unpause
<1> DEFINE ag == agreement[id]
           r == [ag EXCEPT !.state = st]
<1>2. ag.state \in AgreementState /\ st \in AgreementState
  BY <1>1 DEF AgreementState
<1>3. ag \in Agreement /\ Sound(ag, beneficiaryTotal[id])
  BY <1>2, Stored
<1>4. /\ r \in Agreement /\ r.state = st /\ r.token = ag.token
      /\ r.beneficiaries = ag.beneficiaries
      /\ r.period = ag.period /\ r.received = ag.received
      /\ r.distributed = ag.distributed /\ r.clawed_back = ag.clawed_back
      /\ r.unsettled = ag.unsettled
  BY <1>2, <1>3, UpdateStateOnly
<1>5. agreement' = [agreement EXCEPT ![id] = r]
  BY <1>1
<1> HIDE DEF r
<1>6. r.state # "Cancelled"
  BY <1>1, <1>4
<1>7. Sound(r, beneficiaryTotal[id])
  BY <1>3, <1>4, <1>6, SoundStays
<1> QED BY <1>1, <1>2, <1>4, <1>5, <1>7, StateMoves DEF Moves

\* What a claw back writes into an agreement.
LEMMA UpdateClawedBack ==
  ASSUME NEW n \in Agreement, NEW u \in Nat
  PROVE  LET r == [n EXCEPT !.clawed_back = @ + u, !.unsettled = 0] IN
         /\ r \in Agreement /\ r.state = n.state /\ r.token = n.token
         /\ r.beneficiaries = n.beneficiaries
         /\ r.period = n.period /\ r.received = n.received
         /\ r.distributed = n.distributed /\ r.clawed_back = n.clawed_back + u
         /\ r.unsettled = 0
<1>1. n.clawed_back + u \in Nat
  BY Fields
<1> QED BY <1>1 DEF Agreement

\* The claw back of an agreement, whatever state it goes to.
LEMMA ClawBackMoves ==
  ASSUME IInv, NEW id \in Ids, agreement[id].state \in AgreementState,
         NEW n \in Agreement, ClawBack(id, n),
         n.token = agreement[id].token, n.beneficiaries = agreement[id].beneficiaries,
         n.period = agreement[id].period, n.received = agreement[id].received,
         n.distributed = agreement[id].distributed,
         n.clawed_back = agreement[id].clawed_back,
         UNCHANGED <<now, admin, counter, beneficiaryTotal>>
  PROVE  Moves(id)
<1> DEFINE ag == agreement[id]
           u == ag.unsettled
           t == ag.token
           r == [n EXCEPT !.clawed_back = @ + u, !.unsettled = 0]
           b == Transfer(bal[t], Self, ag.owner, u)
<1>1. ag \in Agreement /\ Sound(ag, beneficiaryTotal[id]) /\ beneficiaryTotal[id] \in Totals
  BY Stored
<1>2. /\ u \in Nat /\ t \in Token /\ ag.owner \in Account /\ Self \in Account
      /\ ag.received \in Nat /\ ag.distributed \in Nat /\ ag.clawed_back \in Nat
      /\ bal[t] \in [Account -> Nat] /\ bal \in Balances
  BY <1>1, Fields DEF Account, IInv, TypeOK, Balances
<1>3. /\ r \in Agreement /\ r.token = t /\ r.beneficiaries = ag.beneficiaries
      /\ r.received = ag.received /\ r.distributed = ag.distributed
      /\ r.clawed_back = ag.clawed_back + u /\ r.unsettled = 0
  <2>1. n \in Agreement /\ u \in Nat
    BY <1>2
  <2> HIDE DEF u
  <2>2. /\ r \in Agreement /\ r.token = n.token /\ r.beneficiaries = n.beneficiaries
        /\ r.received = n.received /\ r.distributed = n.distributed
        /\ r.clawed_back = n.clawed_back + u /\ r.unsettled = 0
    BY <2>1, UpdateClawedBack, Zenon
  <2> QED BY <2>2
<1>4. bal[t][Self] >= u /\ bal' = [bal EXCEPT ![t] = b] /\ agreement' = [agreement EXCEPT ![id] = r]
  BY DEF ClawBack
<1> HIDE DEF r
<1>5. b \in [Account -> Nat] /\ b[Self] + u >= bal[t][Self]
  BY <1>2, <1>4, TransferFacts
<1> HIDE DEF b
<1>6. bal' \in Balances /\ bal'[t] = b /\ \A s \in Token \ {t} : bal'[s] = bal[s]
  BY <1>2, <1>4, <1>5 DEF Balances
<1>7. Sound(r, beneficiaryTotal[id])
  BY <1>1, <1>2, <1>3 DEF Sound, Balanced, Movable
<1>8. beneficiaryTotal = [beneficiaryTotal EXCEPT ![id] = beneficiaryTotal[id]]
  BY SameEntries DEF IInv
<1>9. bal'[t][Self] + u >= bal[t][Self] + r.unsettled
  BY <1>2, <1>3, <1>5, <1>6
<1>10. Replaces(id, r)
  BY <1>1, <1>3, <1>4, <1>6, <1>7, <1>8, <1>9 DEF Replaces
<1> QED BY <1>10 DEF Moves

LEMMA ClawbackUnsettledMoves ==
  ASSUME IInv, NEW id \in Ids, ClawbackUnsettled(id) PROVE Moves(id)
<1>1. agreement[id].state \in AgreementState
  BY DEF ClawbackUnsettled, AgreementState
<1>2. agreement[id] \in Agreement
  BY <1>1, Stored
<1> QED BY <1>1, <1>2, ClawBackMoves DEF ClawbackUnsettled

LEMMA ResolveMoves ==
  ASSUME IInv, NEW id \in Ids, NEW d \in DisputeResolution, ResolveDispute(id, d)
  PROVE  Moves(id)
<1> DEFINE ag == agreement[id]
           r(st) == [ag EXCEPT !.dispute = d, !.state = st]
<1>1. ag.state = "Disputed" /\ ag.state \in AgreementState
  BY DEF ResolveDispute, AgreementState
<1>2. ag \in Agreement /\ Sound(ag, beneficiaryTotal[id])
  BY <1>1, Stored
<1>3. ASSUME NEW st \in AgreementState
      PROVE  /\ r(st) \in Agreement /\ r(st).state = st /\ r(st).token = ag.token
             /\ r(st).beneficiaries = ag.beneficiaries
             /\ r(st).period = ag.period /\ r(st).received = ag.received
             /\ r(st).distributed = ag.distributed /\ r(st).clawed_back = ag.clawed_back
             /\ r(st).unsettled = ag.unsettled
  <2>1. d \in DisputeStage /\ ag \in Agreement
    BY <1>2 DEF DisputeStage
  <2> QED BY <2>1 DEF Agreement
<1>4. \/ \E st \in {"Active", "Paused"} :
           /\ agreement' = [agreement EXCEPT ![id] = r(st)]
           /\ UNCHANGED <<now, bal, admin, counter, beneficiaryTotal>>
      \/ ClawBack(id, r("Cancelled")) /\ UNCHANGED <<now, admin, counter, beneficiaryTotal>>
  BY DEF ResolveDispute
<1> HIDE DEF r
<1>5. ASSUME NEW st \in {"Active", "Paused"},
             agreement' = [agreement EXCEPT ![id] = r(st)],
             UNCHANGED <<now, bal, admin, counter, beneficiaryTotal>>
      PROVE  Moves(id)
  <2>1. st \in AgreementState /\ st # "Cancelled"
    BY DEF AgreementState
  <2>2. Sound(r(st), beneficiaryTotal[id])
    BY <1>2, <1>3, <2>1, SoundStays
  <2> QED BY <1>1, <1>3, <1>5, <2>1, <2>2, StateMoves DEF Moves
<1>6. CASE ClawBack(id, r("Cancelled")) /\ UNCHANGED <<now, admin, counter, beneficiaryTotal>>
  <2>1. "Cancelled" \in AgreementState
    BY DEF AgreementState
  <2> QED BY <1>1, <1>3, <1>6, <2>1, ClawBackMoves
<1> QED BY <1>4, <1>5, <1>6

-----------------------------------------------------------------------------
(***************************************************************************)
(* Deposits, settlements and modifications.                                *)
(***************************************************************************)
\* What the settlement of an agreement does to the balances of its token and
\* to its running totals.
LEMMA PaymentFacts ==
  ASSUME IInv, NEW id \in Ids, agreement[id].state \in AgreementState,
         NEW m \in Nat, NEW b \in [Account -> Nat], b[Self] >= m
  PROVE  LET ag == agreement[id]
             c == PaidOut(b, ag, m)
             totals == Credited(beneficiaryTotal[id], ag.beneficiaries, m)
         IN /\ c \in [Account -> Nat] /\ c[Self] + m >= b[Self]
            /\ [bal EXCEPT ![ag.token] = c] \in Balances
            /\ totals \in Totals
            /\ Sound(ag, totals)
<1> DEFINE ag == agreement[id]
           c == PaidOut(b, ag, m)
           totals == Credited(beneficiaryTotal[id], ag.beneficiaries, m)
<1>1. ag \in Agreement /\ Sound(ag, beneficiaryTotal[id]) /\ beneficiaryTotal[id] \in Totals
  BY Stored
<1>2. ag.beneficiaries \in Seq(BeneficiaryShare) /\ ValidSplit(ag.beneficiaries)
      /\ ag.token \in Token /\ bal \in Balances
  BY <1>1, Fields DEF Sound, IInv, TypeOK, Balances
<1>3. c \in [Account -> Nat] /\ c[Self] + m >= b[Self]
  BY <1>1, <1>2, PaidOutFacts
<1>4. totals \in Totals /\ \A i \in Index \ Indices(ag.beneficiaries) :
                              totals[i] = beneficiaryTotal[id][i]
  BY <1>1, <1>2, CreditedFacts
<1> HIDE DEF c, totals
<1>5. Sound(ag, totals)
  BY <1>1, <1>4 DEF Sound
<1>6. [bal EXCEPT ![ag.token] = c] \in Balances
  BY <1>2, <1>3 DEF Balances
<1> QED BY <1>3, <1>4, <1>5, <1>6 DEF c, totals

\* What settle_in_place writes into an agreement.
LEMMA UpdateSettled ==
  ASSUME NEW ag \in Agreement, NEW x \in Nat
  PROVE  LET r == [Settled(ag) EXCEPT !.next_settlement_at = x] IN
         /\ r \in Agreement /\ r.token = ag.token /\ r.state = ag.state
         /\ r.beneficiaries = ag.beneficiaries /\ r.received = ag.received
         /\ r.distributed = ag.distributed + ag.unsettled
         /\ r.clawed_back = ag.clawed_back /\ r.unsettled = 0
<1>1. ag.distributed + ag.unsettled \in Nat
  BY Fields
<1> QED BY <1>1 DEF Agreement, Settled

\* The time of the next settlement is a time.
LEMMA NextSettlementIsTime ==
  ASSUME IInv, NEW p \in Nat PROVE NextSettlement(p) \in Nat
BY DEF NextSettlement, IInv, TypeOK

LEMMA SettleMoves ==
  ASSUME IInv, NEW id \in Ids, SettleDistribution(id) PROVE Moves(id)
<1> DEFINE ag == agreement[id]
           u == ag.unsettled
           t == ag.token
           r == [Settled(ag) EXCEPT !.next_settlement_at = NextSettlement(ag.period)]
           c == PaidOut(bal[t], ag, u)
           totals == Credited(beneficiaryTotal[id], ag.beneficiaries, u)
<1>1. ag.state \in AgreementState /\ bal[t][Self] >= u
      /\ bal' = [bal EXCEPT ![t] = c] /\ agreement' = [agreement EXCEPT ![id] = r]
      /\ beneficiaryTotal' = [beneficiaryTotal EXCEPT ![id] = totals]
      /\ UNCHANGED <<now, admin, counter>>
  BY DEF SettleDistribution, Settle, AgreementState
<1>2. ag \in Agreement
  BY <1>1, Stored
<1>3. /\ u \in Nat /\ t \in Token /\ ag.period \in Nat /\ Self \in Account
      /\ ag.received \in Nat /\ ag.distributed \in Nat /\ ag.clawed_back \in Nat
      /\ bal[t] \in [Account -> Nat] /\ bal \in Balances
  BY <1>2, Fields DEF Account, IInv, TypeOK, Balances
<1>4. /\ c \in [Account -> Nat] /\ c[Self] + u >= bal[t][Self]
      /\ bal' \in Balances /\ totals \in Totals /\ Sound(ag, totals)
  BY <1>1, <1>3, PaymentFacts
<1>5. NextSettlement(ag.period) \in Nat
  BY <1>3, NextSettlementIsTime
<1>6. /\ r \in Agreement /\ r.token = t /\ r.beneficiaries = ag.beneficiaries
      /\ r.received = ag.received /\ r.distributed = ag.distributed + u
      /\ r.clawed_back = ag.clawed_back /\ r.unsettled = 0
  BY <1>2, <1>5, UpdateSettled
<1> HIDE DEF r, c, totals
<1>7. Sound(r, totals)
  BY <1>3, <1>4, <1>6 DEF Sound, Balanced, Movable
<1>8. bal'[t] = c /\ \A s \in Token \ {t} : bal'[s] = bal[s]
  BY <1>1, <1>3 DEF Balances
<1>9. beneficiaryTotal'[id] = totals
  BY <1>1 DEF IInv, TypeOK
<1>10. bal'[t][Self] + u >= bal[t][Self] + r.unsettled
  BY <1>3, <1>4, <1>6, <1>8
<1>11. Replaces(id, r)
  BY <1>1, <1>2, <1>4, <1>6, <1>7, <1>8, <1>9, <1>10 DEF Replaces
<1> QED BY <1>11 DEF Moves

\* What a deposit writes into an agreement with a settlement period.
LEMMA UpdateReceived ==
  ASSUME NEW ag \in Agreement, NEW m \in Nat
  PROVE  LET r == [ag EXCEPT !.received = @ + m, !.unsettled = @ + m] IN
         /\ r \in Agreement /\ r.token = ag.token /\ r.state = ag.state
         /\ r.beneficiaries = ag.beneficiaries /\ r.received = ag.received + m
         /\ r.distributed = ag.distributed /\ r.period = ag.period
         /\ r.clawed_back = ag.clawed_back /\ r.unsettled = ag.unsettled + m
<1>1. ag.received + m \in Nat /\ ag.unsettled + m \in Nat
  BY Fields
<1> QED BY <1>1 DEF Agreement

LEMMA DepositMoves ==
  ASSUME IInv, NEW id \in Ids, NEW p \in Payers, NEW m \in Amounts, DepositRevenue(id, p, m)
  PROVE  Moves(id)
<1> DEFINE ag == agreement[id]
           t == ag.token
           b == Transfer(bal[t], p, Self, m)
<1>1. /\ m > 0 /\ ag.state = "Active" /\ ag.state \in AgreementState /\ bal[t][p] >= m
      /\ IF ag.period = 0 THEN PayAtOnce(id, m, b) ELSE Accumulate(id, m, b)
      /\ UNCHANGED <<now, admin, counter>>
  BY DEF DepositRevenue, AgreementState
<1>2. /\ ag \in Agreement /\ Sound(ag, beneficiaryTotal[id])
      /\ beneficiaryTotal[id] \in Totals
  BY <1>1, Stored
<1>3. /\ ag.unsettled \in Nat /\ t \in Token /\ Self \in Account /\ p \in Account /\ p # Self
      /\ ag.received \in Nat /\ ag.distributed \in Nat /\ ag.clawed_back \in Nat
      /\ bal[t] \in [Account -> Nat] /\ bal \in Balances
  BY <1>2, Fields, AddrAssumption DEF Account, IInv, TypeOK, Balances
<1>4. m \in Nat
  BY <1>1, ArgumentAssumption
<1>5. b \in [Account -> Nat] /\ b[Self] = bal[t][Self] + m
  BY <1>1, <1>3, <1>4, TransferFacts
<1> HIDE DEF b
<1>6. CASE ag.period = 0
  <2> DEFINE c == PaidOut(b, ag, m)
             totals == Credited(beneficiaryTotal[id], ag.beneficiaries, m)
  <2>1. ag.unsettled = 0
    BY <1>2, <1>3, <1>6 DEF Sound, Movable
  <2>2. ag.unsettled + m = m
    BY <1>4, <2>1
  <2>3. bal' = [bal EXCEPT ![t] = c] /\ agreement' = agreement
        /\ beneficiaryTotal' = [beneficiaryTotal EXCEPT ![id] = totals]
    BY <1>1, <1>6, <2>2 DEF PayAtOnce
  <2>4. b[Self] >= m
    BY <1>3, <1>4, <1>5
  <2>5. /\ c \in [Account -> Nat] /\ c[Self] + m >= b[Self]
        /\ bal' \in Balances /\ totals \in Totals /\ Sound(ag, totals)
    BY <1>1, <1>4, <1>5, <2>3, <2>4, PaymentFacts
  <2> HIDE DEF c, totals
  <2>6. bal'[t] = c /\ \A s \in Token \ {t} : bal'[s] = bal[s]
    BY <1>3, <2>3 DEF Balances
  <2>7. beneficiaryTotal'[id] = totals /\ agreement = [agreement EXCEPT ![id] = ag]
    BY <2>3, SameEntries DEF IInv, TypeOK
  <2>8. bal'[t][Self] + ag.unsettled >= bal[t][Self] + ag.unsettled
    BY <1>3, <1>4, <1>5, <2>1, <2>5, <2>6
  <2>9. Replaces(id, ag)
    BY <1>1, <1>2, <2>3, <2>5, <2>6, <2>7, <2>8 DEF Replaces
  <2> QED BY <2>9 DEF Moves
<1>7. CASE ag.period # 0
  <2> DEFINE r == [ag EXCEPT !.received = @ + m, !.unsettled = @ + m]
  <2>1. bal' = [bal EXCEPT ![t] = b] /\ agreement' = [agreement EXCEPT ![id] = r]
        /\ beneficiaryTotal' = beneficiaryTotal
    BY <1>1, <1>7 DEF Accumulate, IInv, TypeOK
  <2>2. /\ r \in Agreement /\ r.token = t /\ r.state = ag.state
        /\ r.beneficiaries = ag.beneficiaries /\ r.received = ag.received + m
        /\ r.distributed = ag.distributed /\ r.period = ag.period
        /\ r.clawed_back = ag.clawed_back /\ r.unsettled = ag.unsettled + m
    BY <1>2, <1>4, UpdateReceived
  <2> HIDE DEF r
  <2>3. Sound(r, beneficiaryTotal[id])
    BY <1>1, <1>2, <1>3, <1>4, <1>7, <2>2 DEF Sound, Balanced, Movable
  <2>4. bal' \in Balances /\ bal'[t] = b /\ \A s \in Token \ {t} : bal'[s] = bal[s]
    BY <1>3, <1>5, <2>1 DEF Balances
  <2>5. bal'[t][Self] + ag.unsettled >= bal[t][Self] + r.unsettled
    BY <1>3, <1>4, <1>5, <2>2, <2>4
  <2>6. beneficiaryTotal = [beneficiaryTotal EXCEPT ![id] = beneficiaryTotal[id]]
    BY SameEntries DEF IInv
  <2>7. Replaces(id, r)
    BY <1>1, <1>2, <2>1, <2>2, <2>3, <2>4, <2>5, <2>6 DEF Replaces
  <2> QED BY <2>7 DEF Moves
<1> QED BY <1>6, <1>7

\* The record that settle_in_place leaves behind.
LEMMA SettledFacts ==
  ASSUME NEW ag \in Agreement
  PROVE  /\ Settled(ag) \in Agreement /\ Settled(ag).token = ag.token
         /\ Settled(ag).received = ag.received /\ Settled(ag).state = ag.state
         /\ Settled(ag).distributed = ag.distributed + ag.unsettled
         /\ Settled(ag).clawed_back = ag.clawed_back /\ Settled(ag).unsettled = 0
<1>1. ag.distributed + ag.unsettled \in Nat
  BY Fields
<1> QED BY <1>1 DEF Agreement, Settled

LEMMA ModifyMoves ==
  ASSUME IInv, NEW id \in Ids, NEW c \in Changes, ModifyAgreement(id, c)
  PROVE  Moves(id)
<1> DEFINE ag == agreement[id]
           t == ag.token
           pending == ag.unsettled > 0 /\ ag.period # 0
           kept == IF pending THEN Settled(ag) ELSE ag
           x == NextSettlement(c.period)
           r == [kept EXCEPT !.beneficiaries = c.beneficiaries, !.period = c.period,
                             !.next_settlement_at = x]
           paid == PaidOut(bal[t], ag, ag.unsettled)
           totals == Cleared(beneficiaryTotal[id], ag.beneficiaries, c.beneficiaries)
<1>1. /\ ag.state = "Active" /\ ag.state \in AgreementState
      /\ ValidSplit(c.beneficiaries)
      /\ pending => bal[t][Self] >= ag.unsettled
      /\ bal' = IF pending THEN [bal EXCEPT ![t] = paid] ELSE bal
      /\ agreement' = [agreement EXCEPT ![id] = r]
      /\ beneficiaryTotal' = [beneficiaryTotal EXCEPT ![id] = totals]
      /\ UNCHANGED <<now, admin, counter>>
  BY DEF ModifyAgreement, AgreementState
<1>2. /\ ag \in Agreement /\ Sound(ag, beneficiaryTotal[id])
      /\ beneficiaryTotal[id] \in Totals
  BY <1>1, Stored
<1>3. /\ ag.unsettled \in Nat /\ t \in Token /\ Self \in Account /\ ag.period \in Nat
      /\ ag.received \in Nat /\ ag.distributed \in Nat /\ ag.clawed_back \in Nat
      /\ bal[t] \in [Account -> Nat] /\ bal \in Balances
  BY <1>2, Fields DEF Account, IInv, TypeOK, Balances
<1>4. c.beneficiaries \in Seq(BeneficiaryShare) /\ c.period \in Nat
  BY ArgumentAssumption DEF Change
<1>5. x \in Nat
  BY <1>4, NextSettlementIsTime
<1>6. /\ kept \in Agreement /\ kept.token = t /\ kept.received = ag.received
      /\ kept.state = ag.state /\ kept.clawed_back = ag.clawed_back
      /\ kept.distributed + kept.unsettled = ag.distributed + ag.unsettled
      /\ kept.distributed \in Nat /\ kept.unsettled = 0
  <2>1. CASE pending
    BY <1>2, <1>3, <2>1, SettledFacts
  <2>2. CASE ~pending
    <3>1. ag.unsettled = 0
      BY <1>2, <1>3, <2>2 DEF Sound, Movable
    <3> QED BY <1>2, <1>3, <2>2, <3>1
  <2> QED BY <2>1, <2>2
<1> HIDE DEF kept, x
<1>7. /\ r \in Agreement /\ r.token = t /\ r.state = ag.state
      /\ r.beneficiaries = c.beneficiaries /\ r.received = ag.received
      /\ r.distributed = kept.distributed
      /\ r.clawed_back = ag.clawed_back /\ r.unsettled = 0
  <2>1. kept \in Agreement
    BY <1>6
  <2>2. /\ r \in Agreement /\ r.token = kept.token /\ r.state = kept.state
        /\ r.beneficiaries = c.beneficiaries /\ r.received = kept.received
        /\ r.distributed = kept.distributed
        /\ r.clawed_back = kept.clawed_back /\ r.unsettled = kept.unsettled
    BY <1>4, <1>5, <2>1 DEF Agreement
  <2> HIDE DEF r
  <2> QED BY <1>6, <2>2
<1> HIDE DEF r
<1>8. totals \in Totals
  BY <1>2 DEF Cleared, Totals
<1>9. \A i \in Index \ Indices(c.beneficiaries) : totals[i] = 0
  BY <1>2 DEF Cleared, Sound
<1> HIDE DEF totals
<1>10. Sound(r, totals)
  <2>1. Balanced(r) /\ Movable(r)
    BY <1>2, <1>3, <1>6, <1>7 DEF Sound, Balanced, Movable
  <2> QED BY <1>1, <1>7, <1>9, <2>1 DEF Sound
<1>11. /\ bal' \in Balances /\ \A s \in Token \ {t} : bal'[s] = bal[s]
       /\ bal'[t][Self] + ag.unsettled >= bal[t][Self] + r.unsettled
  <2>1. CASE pending
    <3>1. bal[t][Self] >= ag.unsettled /\ bal' = [bal EXCEPT ![t] = paid]
      BY <1>1, <2>1
    <3>2. /\ paid \in [Account -> Nat] /\ paid[Self] + ag.unsettled >= bal[t][Self]
          /\ bal' \in Balances
      <4> DEFINE u == ag.unsettled
      <4>1. u \in Nat /\ bal[t] \in [Account -> Nat] /\ bal[t][Self] >= u
        BY <1>3, <3>1
      <4>2. /\ paid \in [Account -> Nat] /\ paid[Self] + u >= bal[t][Self]
            /\ [bal EXCEPT ![t] = paid] \in Balances
        <5> HIDE DEF u
        <5> QED BY <1>1, <4>1, PaymentFacts DEF u
      <4> QED BY <3>1, <4>2
    <3> HIDE DEF paid
    <3>3. bal'[t] = paid /\ \A s \in Token \ {t} : bal'[s] = bal[s]
      BY <1>3, <3>1 DEF Balances
    <3> QED BY <1>3, <1>7, <3>2, <3>3
  <2>2. CASE ~pending
    <3>1. bal' = bal /\ bal[t][Self] \in Nat
      BY <1>1, <1>3, <2>2
    <3> QED BY <1>3, <1>7, <3>1
  <2> QED BY <2>1, <2>2
<1>12. beneficiaryTotal'[id] = totals
  BY <1>1 DEF IInv, TypeOK
<1>13. Replaces(id, r)
  BY <1>1, <1>2, <1>7, <1>8, <1>10, <1>11, <1>12 DEF Replaces
<1> QED BY <1>13 DEF Moves

-----------------------------------------------------------------------------
(***************************************************************************)
(* The specification.                                                      *)
(***************************************************************************)
\* create_agreement adds an agreement that owes nothing.
LEMMA CreateKeeps ==
  ASSUME IInv, NEW a \in Terms, CreateAgreement(a)
  PROVE  /\ IInv' /\ Pool' = Pool /\ Owed' = Owed
         /\ counter + 1 \in Ids /\ ~Exists(counter + 1)
         /\ \A j \in Ids : j # counter + 1 => agreement'[j] = agreement[j]
<1> DEFINE n == counter + 1
           r == [owner |-> a.owner, token |-> a.token, beneficiaries |-> a.beneficiaries,
                 period |-> a.period, next_settlement_at |-> NextSettlement(a.period),
                 clawback_enabled |-> a.clawback_enabled,
                 clawback_deadline |-> a.clawback_deadline,
                 state |-> "Active", received |-> 0, distributed |-> 0, clawed_back |-> 0,
                 unsettled |-> 0, dispute |-> "none"]
<1>1. /\ n \in Ids /\ counter \in Nat /\ counter < MaxAgreements /\ admin # None
      /\ ValidSplit(a.beneficiaries) /\ counter' = n
      /\ agreement' = [agreement EXCEPT ![n] = r]
      /\ UNCHANGED <<now, bal, admin, beneficiaryTotal>>
  BY BoundAssumption DEF CreateAgreement, IInv, TypeOK, Ids
<1>2. /\ a.owner \in Account /\ a.token \in Token /\ a.beneficiaries \in Seq(BeneficiaryShare)
      /\ a.period \in Nat /\ a.clawback_enabled \in BOOLEAN /\ a.clawback_deadline \in Nat
  BY ArgumentAssumption DEF Term
<1>3. NextSettlement(a.period) \in Nat
  BY <1>2, NextSettlementIsTime
<1>4. r \in Agreement
  BY <1>2, <1>3 DEF Agreement, AgreementState, DisputeStage
<1>5. /\ r.beneficiaries = a.beneficiaries /\ r.state = "Active"
      /\ r.received = 0 /\ r.distributed = 0 /\ r.clawed_back = 0 /\ r.unsettled = 0
  OBVIOUS
<1> HIDE DEF r
<1>6. /\ agreement'[n] = r /\ \A j \in Ids : j # n => agreement'[j] = agreement[j]
      /\ agreement[n] = NoAgreement /\ r # NoAgreement
  BY <1>1, <1>4, Fields DEF IInv, TypeOK, Allocated, Exists
<1>7. \A i \in Index : beneficiaryTotal[n][i] = 0
  BY <1>1, <1>6 DEF IInv, Allocated, Exists
<1>8. Sound(r, beneficiaryTotal[n])
  BY <1>1, <1>5, <1>7 DEF Sound, Balanced, Movable
<1>9. AllSound'
  BY <1>1, <1>6, <1>8 DEF AllSound, Exists, IInv
<1>10. TypeOK'
  <2>1. agreement' \in [Ids -> Agreement \cup {NoAgreement}]
    BY <1>1, <1>4 DEF IInv, TypeOK
  <2>2. counter' \in 0 .. MaxAgreements
    BY <1>1, BoundAssumption DEF IInv, TypeOK
  <2> QED BY <1>1, <2>1, <2>2 DEF IInv, TypeOK
<1>11. Allocated'
  <2>1. admin' # None
    BY <1>1
  <2>2. ASSUME NEW j \in Ids, j > counter' PROVE ~Exists(j)'
    BY <1>1, <1>6, <2>2 DEF IInv, Allocated, Exists, Ids
  <2>3. ASSUME NEW j \in Ids, ~Exists(j)', NEW i \in Index PROVE beneficiaryTotal'[j][i] = 0
    BY <1>1, <1>6, <2>3 DEF IInv, Allocated, Exists
  <2> QED BY <2>1, <2>2, <2>3 DEF Allocated
<1>12. Pool' = Pool
  BY <1>1 DEF Pool
<1>13. Owed' = Owed
  <2>1. \A u \in Token, j \in Ids :
          (IF agreement'[j] # NoAgreement /\ agreement'[j].token = u
             THEN agreement'[j].unsettled ELSE 0)
            = (IF agreement[j] # NoAgreement /\ agreement[j].token = u
                 THEN agreement[j].unsettled ELSE 0)
    BY <1>5, <1>6
  <2> QED BY <2>1 DEF Owed, Exists
<1> QED BY <1>1, <1>6, <1>9, <1>10, <1>11, <1>12, <1>13 DEF IInv, Exists

\* The kinds of steps there are.
LEMMA StepKinds ==
  ASSUME IInv, [Next]_vars
  PROVE  \/ \E a \in Terms : CreateAgreement(a)
         \/ \E id \in Ids : Moves(id)
         \/ /\ UNCHANGED <<bal, agreement, beneficiaryTotal>>
            /\ \/ \E a \in Admins : Initialize(a) \/ SetAdmin(a)
               \/ Tick
               \/ UNCHANGED vars
<1>1. CASE \E a \in Admins : Initialize(a) \/ SetAdmin(a)
  BY <1>1 DEF Initialize, SetAdmin
<1>2. CASE \E a \in Terms : CreateAgreement(a)
  BY <1>2
<1>3. ASSUME NEW id \in Ids,
             \/ \E p \in Payers, m \in Amounts : DepositRevenue(id, p, m)
             \/ SettleDistribution(id)
             \/ ClawbackUnsettled(id)
             \/ \E c \in Addr : RaiseDispute(id, c)
             \/ \E r \in DisputeResolution : ResolveDispute(id, r)
             \/ Pause(id)
             \/ Unpause(id)
             \/ \E c \in Changes : ModifyAgreement(id, c)
      PROVE  Moves(id)
  BY <1>3, DepositMoves, SettleMoves, ClawbackUnsettledMoves, RaiseMoves, ResolveMoves,
     PauseMoves, ModifyMoves
<1>4. CASE Tick \/ UNCHANGED vars
  BY <1>4 DEF Tick, vars
<1> QED BY <1>1, <1>2, <1>3, <1>4 DEF Next

\* Every step keeps the invariant and is a step of a custodian, or none.
LEMMA StepFacts ==
  ASSUME IInv, [Next]_vars
  PROVE  IInv' /\ [V!Next]_(V!vars)
<1>1. CASE \E a \in Terms : CreateAgreement(a)
  BY <1>1, CreateKeeps DEF V!vars
<1>2. CASE \E id \in Ids : Moves(id)
  BY <1>2, ReplaceKeeps, ReplaceIsCustody DEF Moves, IInv
<1>3. CASE /\ UNCHANGED <<bal, agreement, beneficiaryTotal>>
           /\ \/ \E a \in Admins : Initialize(a) \/ SetAdmin(a)
              \/ Tick
              \/ UNCHANGED vars
  <2>1. /\ now' \in Nat /\ admin' \in Admins \cup {None} /\ counter' \in 0 .. MaxAgreements
        /\ admin' = None => counter' = 0
        /\ counter' = counter
    <3>1. None \notin Admins
      BY AddrAssumption
    <3> QED BY <1>3, <3>1, BoundAssumption
          DEF IInv, TypeOK, Allocated, Initialize, SetAdmin, Tick, vars
  <2>2. IInv'
    BY <1>3, <2>1 DEF IInv, TypeOK, AllSound, Allocated, Exists
  <2>3. Pool' = Pool /\ Owed' = Owed
    BY <1>3 DEF Pool, Owed, Exists
  <2> QED BY <2>2, <2>3 DEF V!vars
<1> QED BY <1>1, <1>2, <1>3, StepKinds

\* The invariant holds at the start, and nothing is owed.
LEMMA InitFacts ==
  ASSUME Init PROVE IInv /\ V!Init
<1>1. \A id \in Ids : ~Exists(id)
  BY DEF Init, Exists
<1>2. bal \in [Token -> [Account -> Nat]]
  BY BoundAssumption DEF Init
<1>3. TypeOK
  BY <1>2, BoundAssumption DEF Init, TypeOK
<1>4. AllSound /\ Allocated
  BY <1>1 DEF Init, AllSound, Allocated
<1>5. Pool \in [Token -> Nat]
  BY <1>2 DEF Pool, Account
<1>6. Owed = [t \in Token |-> [id \in Ids |-> 0]]
  BY <1>1 DEF Owed
<1> QED BY <1>3, <1>4, <1>5, <1>6 DEF IInv, V!Init

\* Every variable has its type, and the counters stay in their bounds.
THEOREM TypeCorrect == Spec => []TypeOK
<1>1. Init => IInv
  BY InitFacts
<1>2. IInv /\ [Next]_vars => IInv'
  BY StepFacts
<1>3. IInv => TypeOK
  BY DEF IInv
<1> QED BY <1>1, <1>2, <1>3, PTL DEF Spec

\* All revenue of an agreement is distributed, clawed back or still waiting
\* where it can be moved, and only current positions have running totals.
THEOREM BooksInOrder == Spec => []Books
<1>1. Init => IInv
  BY InitFacts
<1>2. IInv /\ [Next]_vars => IInv'
  BY StepFacts
<1>3. IInv => Books
  BY DEF IInv, AllSound, Sound, Books
<1> QED BY <1>1, <1>2, <1>3, PTL DEF Spec

\* The two instances of Custody, here and in RevenueShare, are the same.
LEMMA SameVault == (V!Spec <=> Custodian) /\ (V!Solvent <=> Solvent)
<1>1. V!Init <=> Vault!Init
  BY DEF V!Init, Vault!Init
<1>2. [V!Next]_(V!vars) <=> [Vault!Next]_(Vault!vars)
  BY DEF V!Next, Vault!Next, V!vars, Vault!vars, V!Deposit, Vault!Deposit,
         V!Discharge, Vault!Discharge, V!Only, Vault!Only
<1>3. V!Solvent <=> Solvent
  BY DEF V!Solvent, Solvent, Vault!Solvent, V!Total, Vault!Total, V!Units, Vault!Units,
         V!Cardinality, Vault!Cardinality
<1> QED BY <1>1, <1>2, <1>3, PTL DEF Custodian, Vault!Spec, V!Spec

\* The revenue share contract implements Custody: a settlement pays out no
\* more than the unsettled revenue, however many shares are rounded.
THEOREM ImplementsCustody == Spec => Custodian
<1>1. Init => IInv /\ V!Init
  BY InitFacts
<1>2. IInv /\ [Next]_vars => IInv' /\ [V!Next]_(V!vars)
  BY StepFacts
<1>3. Spec => V!Spec
  BY <1>1, <1>2, PTL DEF Spec, V!Spec
<1> QED BY <1>3, SameVault, PTL

\* A custodian of revenue can pay what it owes.
LEMMA CustodianSolvent == IsFiniteSet(Ids) => (V!Spec => []V!Solvent)
<1> SUFFICES ASSUME IsFiniteSet(Ids) PROVE V!Spec => []V!Solvent
  OBVIOUS
<1>1. \A f : V!Total(f) = Total(f)
  BY Zenon DEF V!Total, Total, V!Units, Units, V!Cardinality, Cardinality
<1>2. V!Init => V!TypeOK /\ V!Solvent
  <2> SUFFICES ASSUME V!Init PROVE V!TypeOK /\ V!Solvent
    OBVIOUS
  <2>1. V!TypeOK
    BY DEF V!Init, V!TypeOK
  <2>2. ASSUME NEW t \in Token PROVE Pool[t] >= Total(Owed[t])
    <3> DEFINE f == Owed[t]
    <3>1. f \in [Ids -> Nat] /\ \A s \in Ids : f[s] = 0
      BY DEF V!Init
    <3> HIDE DEF f
    <3>2. Total(f) = 0
      BY <3>1, TotalZero
    <3> QED BY <2>1, <3>2 DEF f, V!TypeOK
  <2> QED BY <1>1, <2>1, <2>2 DEF V!Solvent
<1>3. V!TypeOK /\ V!Solvent /\ [V!Next]_(V!vars) => (V!TypeOK /\ V!Solvent)'
  <2> SUFFICES ASSUME V!TypeOK, V!Solvent, [V!Next]_(V!vars) PROVE V!TypeOK' /\ V!Solvent'
    OBVIOUS
  <2>1. CASE UNCHANGED V!vars
    BY <2>1 DEF V!vars, V!TypeOK, V!Solvent
  <2>2. ASSUME NEW t \in Token, NEW s \in Ids, V!Deposit(t, s) \/ V!Discharge(t, s)
        PROVE  V!TypeOK' /\ V!Solvent'
    <3> DEFINE f == Owed[t]
               g == Owed'[t]
               p == Pool[t]
               q == Pool'[t]
    <3>1. /\ q \in Nat /\ g[s] \in Nat /\ Pool' = [Pool EXCEPT ![t] = q]
          /\ Owed' = [Owed EXCEPT ![t][s] = g[s]]
      BY <2>2 DEF V!Deposit, V!Discharge, V!Only
    <3>2. /\ Pool \in [Token -> Nat] /\ Owed \in [Token -> [Ids -> Nat]]
          /\ \A u \in Token : Pool[u] >= Total(Owed[u])
      BY <1>1 DEF V!TypeOK, V!Solvent
    <3>3. q >= p + (g[s] - f[s])
      <4>1. /\ p \in Nat /\ f[s] \in Nat
            /\ \/ q >= p + (g[s] - f[s])
               \/ p <= q + (f[s] - g[s])
        BY <2>2, <3>2 DEF V!Deposit, V!Discharge
      <4> HIDE DEF p, q, f, g
      <4> QED BY <3>1, <4>1
    <3> DEFINE x == q
               y == g[s]
    <3> HIDE DEF x, y
    <3>4. x \in Nat /\ y \in Nat /\ Pool' = [Pool EXCEPT ![t] = x]
          /\ Owed' = [Owed EXCEPT ![t][s] = y]
      BY <3>1 DEF x, y
    <3>5. /\ Pool' \in [Token -> Nat] /\ Owed' \in [Token -> [Ids -> Nat]]
          /\ \A u \in Token \ {t} : Pool'[u] = Pool[u] /\ Owed'[u] = Owed[u]
          /\ f \in [Ids -> Nat] /\ g \in [Ids -> Nat] /\ \A r \in Ids \ {s} : g[r] = f[r]
      BY <3>2, <3>4
    <3>6. p \in Nat /\ p >= Total(f)
      BY <3>2
    <3>7. q >= Total(g)
      <4>1. q \in Nat
        BY <3>1
      <4> HIDE DEF p, q, f, g
      <4> QED BY <3>3, <3>5, <3>6, <4>1, StillCovers
    <3>8. \A u \in Token : Pool'[u] >= Total(Owed'[u])
      BY <3>2, <3>5, <3>7
    <3>9. (\A u \in Token : Pool[u] >= V!Total(Owed[u]))'
      BY <1>1, <3>8
    <3> QED BY <3>5, <3>9 DEF V!TypeOK, V!Solvent
  <2> QED BY <2>1, <2>2 DEF V!Next
<1> QED BY <1>2, <1>3, PTL DEF V!Spec

\* The contract's balance covers the unsettled revenue of all agreements:
\* inherited from Custody.
THEOREM RevenueSolvent == Spec => []Solvent
<1>1. IsFiniteSet(Ids)
  BY BoundAssumption, FS_Interval DEF Ids
<1>2. V!Spec => []V!Solvent
  BY <1>1, CustodianSolvent, PTL
<1> QED BY <1>2, ImplementsCustody, SameVault, PTL

\* What a step may do to the revenue and the split of a frozen agreement.
FrozenStep(id) ==
  /\ agreement'[id].beneficiaries = agreement[id].beneficiaries
  /\ \/ agreement'[id].unsettled = agreement[id].unsettled
     \/ agreement[id].state = "Disputed" /\ agreement'[id].state = "Cancelled"

\* A disputed, paused or cancelled agreement keeps its split and its revenue,
\* but for the cancellation that resolves a dispute.
THEOREM DisputesFreeze == Spec => FrozenUntilResolved
<1>1. ASSUME IInv, [Next]_vars, NEW id \in Ids,
             agreement[id].state \in {"Disputed", "Paused", "Cancelled"}
      PROVE  FrozenStep(id)
  <2>1. agreement[id] \in Agreement /\ Exists(id)
    <3>1. agreement[id].state \in AgreementState
      BY <1>1 DEF AgreementState
    <3> QED BY <1>1, <3>1, Stored
  <2>2. CASE agreement'[id] = agreement[id]
    BY <2>2 DEF FrozenStep
  <2>3. CASE \E a \in Terms : CreateAgreement(a)
    <3>1. PICK a \in Terms : CreateAgreement(a)
      BY <2>3
    <3> QED BY <1>1, <2>1, <2>2, <3>1, CreateKeeps
  <2>4. ASSUME NEW j \in Ids, j # id, Moves(j) PROVE FrozenStep(id)
    <3>1. agreement'[id] = agreement[id]
      BY <1>1, <2>4 DEF Moves, Replaces, IInv, TypeOK
    <3> QED BY <2>2, <3>1
  <2>5. CASE \E r \in DisputeResolution : ResolveDispute(id, r)
    <3>1. PICK r \in DisputeResolution : ResolveDispute(id, r)
      BY <2>5
    <3> DEFINE ag == agreement[id]
               s(st) == [ag EXCEPT !.dispute = r, !.state = st]
               n == [s("Cancelled") EXCEPT !.clawed_back = @ + ag.unsettled, !.unsettled = 0]
    <3>2. ASSUME NEW st PROVE s(st).beneficiaries = ag.beneficiaries /\ s(st).unsettled = ag.unsettled
      BY <2>1 DEF Agreement
    <3>3. n.beneficiaries = ag.beneficiaries /\ n.state = "Cancelled" /\ ag.state = "Disputed"
      BY <2>1, <3>1 DEF Agreement, ResolveDispute
    <3>4. \/ agreement' = [agreement EXCEPT ![id] = s("Active")]
          \/ agreement' = [agreement EXCEPT ![id] = s("Paused")]
          \/ agreement' = [agreement EXCEPT ![id] = n]
      BY <3>1 DEF ResolveDispute, ClawBack
    <3> HIDE DEF s, n
    <3>5. agreement'[id] \in {s("Active"), s("Paused"), n}
      BY <1>1, <3>4 DEF IInv, TypeOK
    <3> QED BY <3>2, <3>3, <3>5 DEF FrozenStep
  <2>6. CASE Unpause(id)
    BY <1>1, <2>1, <2>6 DEF Unpause, FrozenStep, Agreement, IInv, TypeOK
  <2>7. CASE \/ \E a \in Admins : Initialize(a) \/ SetAdmin(a)
             \/ Tick \/ UNCHANGED vars
    BY <2>2, <2>7 DEF Initialize, SetAdmin, Tick, vars
  <2>8. ASSUME NEW j \in Ids,
               \/ \E p \in Payers, m \in Amounts : DepositRevenue(j, p, m)
               \/ SettleDistribution(j)
               \/ ClawbackUnsettled(j)
               \/ \E c \in Addr : RaiseDispute(j, c)
               \/ \E r \in DisputeResolution : ResolveDispute(j, r)
               \/ Pause(j)
               \/ Unpause(j)
               \/ \E c \in Changes : ModifyAgreement(j, c)
        PROVE  FrozenStep(id)
    <3>1. CASE j # id
      <4>1. Moves(j)
        BY <1>1, <2>8, DepositMoves, SettleMoves, ClawbackUnsettledMoves, RaiseMoves,
           ResolveMoves, PauseMoves, ModifyMoves
      <4> QED BY <2>4, <3>1, <4>1
    <3>2. CASE j = id
      BY <1>1, <2>5, <2>6, <2>8, <3>2
         DEF DepositRevenue, SettleDistribution, ClawbackUnsettled, RaiseDispute, Pause,
             ModifyAgreement
    <3> QED BY <3>1, <3>2
  <2> QED BY <1>1, <2>3, <2>7, <2>8 DEF Next
<1>2. IInv /\ [Next]_vars =>
        [\A id \in Ids : agreement[id].state \in {"Disputed", "Paused", "Cancelled"} =>
                           FrozenStep(id)]_vars
  BY <1>1
<1>3. Init => IInv
  BY InitFacts
<1>4. IInv /\ [Next]_vars => IInv'
  BY StepFacts
<1> QED BY <1>2, <1>3, <1>4, PTL DEF Spec, FrozenUntilResolved, FrozenStep

-----------------------------------------------------------------------------
(***************************************************************************)
(* Where revenue goes when it stops being unsettled.                       *)
(***************************************************************************)
\* The parties of an agreement are finitely many accounts.
LEMMA PartiesFinite ==
  ASSUME NEW ag \in Agreement
  PROVE  IsFiniteSet(Parties(ag)) /\ Parties(ag) \subseteq Account
<1> DEFINE split == ag.beneficiaries
           S == Indices(split)
           key == [i \in S |-> split[i].address]
           Paid == {key[i] : i \in S}
<1>1. split \in Seq(BeneficiaryShare) /\ ag.owner \in Account
  BY Fields
<1>2. ASSUME NEW i \in S PROVE split[i].address \in Account
  <2>1. split[i] \in BeneficiaryShare
    BY <1>1 DEF Indices
  <2> QED BY <2>1 DEF BeneficiaryShare
<1>3. Parties(ag) = Paid \cup {ag.owner} /\ Paid \subseteq Account
  BY <1>2 DEF Parties
<1>4. key \in Surjection(S, Paid)
  BY DEF Surjection
<1>5. IsFiniteSet(S)
  <2>1. Len(split) \in Int /\ 1 \in Int
    BY <1>1
  <2> QED BY <2>1, FS_Interval DEF Indices
<1> HIDE DEF Paid, key, S
<1>6. IsFiniteSet(Paid)
  BY <1>4, <1>5, FS_Surjection
<1> QED BY <1>1, <1>3, <1>6, FS_AddElement

\* A settlement pays the whole amount to the parties of the agreement and
\* leaves all other accounts alone.
LEMMA PartiesPaid ==
  ASSUME NEW b \in [Account -> Nat], NEW ag \in Agreement,
         ValidSplit(ag.beneficiaries), NEW m \in Nat, b[Self] >= m, Self \notin Parties(ag)
  PROVE  LET c == PaidOut(b, ag, m) IN
         /\ \A a \in Addr \ Parties(ag) : c[a] = b[a]
         /\ Total([a \in Parties(ag) |-> c[a]]) = Total([a \in Parties(ag) |-> b[a]]) + m
<1> DEFINE split == ag.beneficiaries
           S == Indices(split)
           P == Parties(ag)
           share == Shares(split, m)
           rest == OwnerShare(split, m)
           key == [i \in S |-> split[i].address]
           c == PaidOut(b, ag, m)
           p == [a \in P |-> PartOf(share, key, S, a)]
           before == [a \in P |-> b[a]]
           shared == [a \in P |-> b[a] + p[a]]
           after == [a \in P |-> c[a]]
<1>1. split \in Seq(BeneficiaryShare) /\ ag.owner \in Account
  BY Fields
<1>2. /\ IsFiniteSet(S) /\ share \in [S -> Nat]
      /\ Total(share) \in Nat /\ rest \in Nat /\ Total(share) + rest = m
  BY <1>1, SharesFacts
<1>3. P = {ag.owner} \cup {split[i].address : i \in S} /\ P \subseteq Account
  BY PartiesFinite DEF Parties
<1>4. IsFiniteSet(P)
  BY PartiesFinite
<1>5. key \in [S -> P]
  BY <1>3
<1>6. p \in [P -> Nat] /\ Total(p) = Total(share)
  <2> HIDE DEF S, P, share, key
  <2> QED BY <1>2, <1>4, <1>5, TotalRegroup
<1>7. ASSUME NEW a \in Account \ {Self}
      PROVE  c[a] = b[a] + PartOf(share, key, S, a) + (IF a = ag.owner THEN rest ELSE 0)
  <2> DEFINE of == {i \in S : split[i].address = a}
  <2>1. {j \in S : key[j] = a} = of
    OBVIOUS
  <2>2. PartOf(share, key, S, a) = Total([i \in of |-> share[i]])
    BY <2>1 DEF PartOf
  <2>3. of = {i \in Indices(ag.beneficiaries) : ag.beneficiaries[i].address = a}
    OBVIOUS
  <2> DEFINE part == Total([i \in of |-> share[i]])
  <2>4. c[a] = b[a] + part + (IF a = ag.owner THEN rest ELSE 0) - 0
    BY DEF PaidOut
  <2>5. part \in Nat
    <3> DEFINE f == [i \in of |-> share[i]]
    <3>1. IsFiniteSet(of) /\ f \in [of -> Nat]
      BY <1>2, FS_Subset
    <3> HIDE DEF f, of
    <3>2. Total(f) \in Nat
      BY <3>1, UnitsFinite
    <3> QED BY <3>2 DEF f
  <2> HIDE DEF part, of, rest, c
  <2> QED BY <1>2, <2>2, <2>4, <2>5 DEF part
<1> HIDE DEF share, rest, c
<1>8. ASSUME NEW a \in Addr \ P PROVE c[a] = b[a]
  <2>1. a \in Account \ {Self} /\ a # ag.owner
    BY <1>3, AddrAssumption DEF Account
  <2>2. {j \in S : key[j] = a} = {}
    BY <1>5
  <2>3. PartOf(share, key, S, a) = 0
    <3> DEFINE f == [i \in {j \in S : key[j] = a} |-> share[i]]
    <3>1. f \in [{} -> Nat]
      BY <2>2
    <3>2. Total(f) = 0
      <4> HIDE DEF f
      <4> QED BY <3>1, TotalZero
    <3> QED BY <3>2 DEF PartOf
  <2> HIDE DEF key, S, P
  <2> QED BY <1>7, <2>1, <2>3
<1>9. ASSUME NEW a \in P PROVE c[a] = b[a] + p[a] + (IF a = ag.owner THEN rest ELSE 0)
  <2>1. a \in Account \ {Self}
    BY <1>3
  <2>2. p[a] = PartOf(share, key, S, a)
    OBVIOUS
  <2> HIDE DEF key, S, P, p
  <2> QED BY <1>7, <2>1, <2>2
<1>10. /\ before \in [P -> Nat] /\ shared \in [P -> Nat] /\ after \in [P -> Nat]
       /\ \A a \in P : shared[a] = before[a] + p[a]
  <2>1. \A a \in P : b[a] \in Nat
    BY <1>3
  <2> HIDE DEF P, p, S, key
  <2> QED BY <1>2, <1>6, <1>9, <2>1
<1>11. Total(shared) = Total(before) + Total(p)
  <2> HIDE DEF shared, before, p, P, S, key
  <2> QED BY <1>4, <1>6, <1>10, TotalAdd
<1>12. Total(after) = Total(shared) + rest
  <2>1. ag.owner \in P
    BY <1>3
  <2>2. /\ after[ag.owner] = shared[ag.owner] + rest
        /\ \A a \in P \ {ag.owner} : after[a] = shared[a]
    <3>1. \A a \in P : shared[a] = b[a] + p[a] /\ after[a] = c[a] /\ shared[a] \in Nat
      BY <1>10
    <3> HIDE DEF shared, after, p, P, S, key
    <3> QED BY <1>2, <1>9, <2>1, <3>1
  <2> HIDE DEF shared, after, p, P, S, key
  <2> QED BY <1>2, <1>4, <1>10, <2>1, <2>2, TotalRaise
<1>13. Total(before) \in Nat
  <2> HIDE DEF before, P
  <2> QED BY <1>4, <1>10, UnitsFinite
<1>14. Total(after) = Total(before) + m
  <2> HIDE DEF shared, after, before, p, P, S, key
  <2> QED BY <1>2, <1>6, <1>11, <1>12, <1>13
<1> QED BY <1>8, <1>14 DEF c

\* What a step may do to the revenue and the split of agreement id.
PastStep(id) ==
  LET ag == agreement[id] IN
  /\ agreement'[id].beneficiaries # ag.beneficiaries => agreement'[id].unsettled = 0
  /\ agreement'[id].unsettled < ag.unsettled =>
       /\ \A a \in Addr \ Parties(ag) : bal'[ag.token][a] = bal[ag.token][a]
       /\ Total([a \in Parties(ag) |-> bal'[ag.token][a]])
            = Total([a \in Parties(ag) |-> bal[ag.token][a]])
                + ag.unsettled - agreement'[id].unsettled

\* A step that takes no revenue and keeps the split, or pays all of it out.
LEMMA Quiet ==
  ASSUME NEW id \in Ids, agreement'[id].beneficiaries = agreement[id].beneficiaries,
         ~(agreement'[id].unsettled < agreement[id].unsettled)
  PROVE  PastStep(id)
BY DEF PastStep

LEMMA PaidInFull ==
  ASSUME IInv, NEW id \in Ids, Exists(id), Self \notin Parties(agreement[id]),
         agreement'[id].unsettled = 0,
         LET ag == agreement[id] IN
         /\ bal[ag.token][Self] >= ag.unsettled
         /\ bal' = [bal EXCEPT ![ag.token] = PaidOut(@, ag, ag.unsettled)]
  PROVE  PastStep(id)
<1> DEFINE ag == agreement[id]
           t == ag.token
           u == ag.unsettled
           P == Parties(ag)
           c == PaidOut(bal[t], ag, u)
<1>1. ag \in Agreement /\ ValidSplit(ag.beneficiaries)
  BY DEF IInv, TypeOK, AllSound, Sound, Exists
<1>2. /\ t \in Token /\ u \in Nat /\ bal[t] \in [Account -> Nat] /\ bal[t][Self] >= u
      /\ bal' = [bal EXCEPT ![t] = c]
  BY <1>1, Fields DEF IInv, TypeOK
<1>3. /\ \A a \in Addr \ P : c[a] = bal[t][a]
      /\ Total([a \in P |-> c[a]]) = Total([a \in P |-> bal[t][a]]) + u
  <2> DEFINE b == bal[t]
  <2>1. b \in [Account -> Nat] /\ b[Self] >= u /\ u \in Nat
    BY <1>2
  <2> HIDE DEF b, u
  <2>2. /\ \A a \in Addr \ Parties(ag) : PaidOut(b, ag, u)[a] = b[a]
        /\ Total([a \in Parties(ag) |-> PaidOut(b, ag, u)[a]])
             = Total([a \in Parties(ag) |-> b[a]]) + u
    BY <1>1, <2>1, PartiesPaid
  <2> QED BY <2>2 DEF b
<1>4. bal'[t] = c
  BY <1>2 DEF IInv, TypeOK
<1> HIDE DEF c
<1>5. agreement'[id].unsettled = 0 /\ u - 0 = u
  BY <1>2
<1>6. Total([a \in P |-> bal'[t][a]]) = Total([a \in P |-> bal[t][a]]) + u - 0
  <2>1. Total([a \in P |-> bal[t][a]]) + u - 0 = Total([a \in P |-> bal[t][a]]) + u
    <3> DEFINE x == Total([a \in P |-> bal[t][a]])
    <3>1. x \in Nat
      <4>1. IsFiniteSet(P) /\ P \subseteq Account
        BY <1>1, PartiesFinite
      <4>2. [a \in P |-> bal[t][a]] \in [P -> Nat]
        BY <1>2, <4>1
      <4> QED BY <4>1, <4>2, UnitsFinite
    <3> HIDE DEF x
    <3> QED BY <1>2, <3>1
  <2> QED BY <1>3, <1>4, <2>1
<1> QED BY <1>3, <1>4, <1>5, <1>6 DEF PastStep

\* A claw back returns the whole amount to the owner.
LEMMA ReturnedInFull ==
  ASSUME IInv, NEW id \in Ids, Exists(id), Self \notin Parties(agreement[id]),
         NEW next \in Agreement, next.beneficiaries = agreement[id].beneficiaries,
         ClawBack(id, next)
  PROVE  PastStep(id)
<1> DEFINE ag == agreement[id]
           t == ag.token
           u == ag.unsettled
           P == Parties(ag)
           c == Transfer(bal[t], Self, ag.owner, u)
           r == [next EXCEPT !.clawed_back = @ + u, !.unsettled = 0]
           before == [a \in P |-> bal[t][a]]
           after == [a \in P |-> bal'[t][a]]
<1>1. ag \in Agreement
  BY DEF IInv, TypeOK, Exists
<1>2. /\ t \in Token /\ u \in Nat /\ bal[t] \in [Account -> Nat] /\ bal[t][Self] >= u
      /\ bal' = [bal EXCEPT ![t] = c] /\ agreement' = [agreement EXCEPT ![id] = r]
  BY <1>1, Fields DEF IInv, TypeOK, ClawBack
<1>3. r.unsettled = 0 /\ r.beneficiaries = ag.beneficiaries
  BY DEF Agreement
<1>4. agreement'[id] = r /\ bal'[t] = c
  BY <1>2 DEF IInv, TypeOK
<1>5. /\ IsFiniteSet(P) /\ P \subseteq Account /\ ag.owner \in P /\ Self \notin P
  BY <1>1, PartiesFinite DEF Parties
<1>6. \A a \in Account \ {Self} : c[a] = IF a = ag.owner THEN bal[t][a] + u ELSE bal[t][a]
  <2> DEFINE b == bal[t]
             o == ag.owner
  <2>1. b \in [Account -> Nat] /\ o \in Account /\ o # Self /\ Self \in Account
    BY <1>2, <1>5 DEF Account
  <2> HIDE DEF b, o, u
  <2> QED BY <1>2, <2>1 DEF Transfer
<1> HIDE DEF c, r, P
<1>7. \A a \in Addr \ P : bal'[t][a] = bal[t][a]
  BY <1>4, <1>5, <1>6, AddrAssumption DEF Account
<1>8. /\ before \in [P -> Nat] /\ after \in [P -> Nat]
      /\ after[ag.owner] = before[ag.owner] + u
      /\ \A a \in P \ {ag.owner} : after[a] = before[a]
  <2>1. \A a \in P : a \in Account \ {Self} /\ bal[t][a] \in Nat
    BY <1>2, <1>5
  <2> HIDE DEF u, t
  <2> QED BY <1>2, <1>4, <1>5, <1>6, <2>1
<1> HIDE DEF before, after
<1>9. Total(after) = Total(before) + u /\ Total(before) \in Nat
  BY <1>2, <1>5, <1>8, TotalRaise, UnitsFinite
<1>10. Total(after) = Total(before) + u - 0
  <2> HIDE DEF u
  <2> QED BY <1>2, <1>9
<1> QED BY <1>3, <1>4, <1>7, <1>10 DEF PastStep, P, before, after

\* Whatever stops being unsettled goes to those who were parties to the
\* agreement before the step, and a new split finds nothing unsettled.
THEOREM PastPartiesPaid == Spec => PastRevenueToPastParties
<1>1. ASSUME IInv, [Next]_vars, NEW id \in Ids, Exists(id), Self \notin Parties(agreement[id])
      PROVE  PastStep(id)
  <2> DEFINE ag == agreement[id]
  <2>1. ag \in Agreement /\ Sound(ag, beneficiaryTotal[id]) /\ ag.unsettled \in Nat
    BY <1>1, Fields DEF IInv, TypeOK, AllSound, Exists
  <2>2. CASE agreement'[id] = ag
    BY <2>1, <2>2, Quiet
  <2>3. CASE \E a \in Terms : CreateAgreement(a)
    <3>1. PICK a \in Terms : CreateAgreement(a)
      BY <2>3
    <3> QED BY <1>1, <2>2, <3>1, CreateKeeps
  <2>4. ASSUME NEW j \in Ids, j # id, Moves(j) PROVE PastStep(id)
    <3>1. agreement'[id] = ag
      BY <1>1, <2>4 DEF Moves, Replaces, IInv, TypeOK
    <3> QED BY <2>2, <3>1
  <2>5. ASSUME NEW p \in Payers, NEW m \in Amounts, DepositRevenue(id, p, m)
        PROVE  PastStep(id)
    <3>1. CASE ag.period = 0
      BY <2>2, <2>5, <3>1 DEF DepositRevenue, PayAtOnce
    <3>2. CASE ag.period # 0
      <4> DEFINE r == [ag EXCEPT !.received = @ + m, !.unsettled = @ + m]
      <4>0. Accumulate(id, m, Transfer(bal[ag.token], p, Self, m)) /\ m > 0
        BY <2>5, <3>2 DEF DepositRevenue
      <4>1. m \in Nat
        BY <4>0, ArgumentAssumption
      <4>5. agreement' = [agreement EXCEPT ![id] = r]
        BY <1>1, <4>0 DEF Accumulate, IInv, TypeOK
      <4>2. r.beneficiaries = ag.beneficiaries /\ r.unsettled = ag.unsettled + m
        BY <2>1, <4>1, UpdateReceived
      <4> HIDE DEF r
      <4>3. agreement'[id] = r
        BY <1>1, <4>5 DEF IInv, TypeOK
      <4> QED BY <2>1, <4>1, <4>2, <4>3, Quiet
    <3> QED BY <3>1, <3>2
  <2>6. CASE SettleDistribution(id)
    <3> DEFINE x == NextSettlement(ag.period)
               r == [Settled(ag) EXCEPT !.next_settlement_at = x]
    <3>1. x \in Nat
      BY <1>1, <2>1, Fields, NextSettlementIsTime
    <3>2. agreement' = [agreement EXCEPT ![id] = r]
      BY <2>6 DEF SettleDistribution, Settle
    <3> HIDE DEF x
    <3>3. r.unsettled = 0
      BY <2>1, <3>1, UpdateSettled
    <3> HIDE DEF r
    <3>4. agreement'[id].unsettled = 0
      BY <1>1, <3>2, <3>3 DEF IInv, TypeOK
    <3> QED BY <1>1, <2>6, <3>4, PaidInFull DEF SettleDistribution, Settle
  <2>7. CASE ClawbackUnsettled(id)
    BY <1>1, <2>1, <2>7, ReturnedInFull DEF ClawbackUnsettled
  <2>8. ASSUME NEW c \in Addr, RaiseDispute(id, c) PROVE PastStep(id)
    <3> DEFINE r == [ag EXCEPT !.dispute = "open", !.state = "Disputed"]
    <3>1. agreement' = [agreement EXCEPT ![id] = r]
      BY <2>8 DEF RaiseDispute
    <3>2. r.beneficiaries = ag.beneficiaries /\ r.unsettled = ag.unsettled
      BY <2>1 DEF Agreement
    <3> HIDE DEF r
    <3>3. agreement'[id] = r
      BY <1>1, <3>1 DEF IInv, TypeOK
    <3> QED BY <2>1, <3>2, <3>3, Quiet
  <2>9. ASSUME NEW d \in DisputeResolution, ResolveDispute(id, d) PROVE PastStep(id)
    <3> DEFINE s(st) == [ag EXCEPT !.dispute = d, !.state = st]
    <3>1. ASSUME NEW st \in AgreementState
          PROVE  /\ s(st) \in Agreement /\ s(st).beneficiaries = ag.beneficiaries
                 /\ s(st).unsettled = ag.unsettled
      BY <2>1 DEF Agreement, DisputeStage
    <3>2. \/ agreement' = [agreement EXCEPT ![id] = s("Active")]
          \/ agreement' = [agreement EXCEPT ![id] = s("Paused")]
          \/ ClawBack(id, s("Cancelled"))
      BY <2>9 DEF ResolveDispute
    <3> HIDE DEF s
    <3>3. "Active" \in AgreementState /\ "Paused" \in AgreementState /\ "Cancelled" \in AgreementState
      BY DEF AgreementState
    <3>4. CASE \/ agreement' = [agreement EXCEPT ![id] = s("Active")]
               \/ agreement' = [agreement EXCEPT ![id] = s("Paused")]
      <4>1. agreement'[id] \in {s("Active"), s("Paused")}
        BY <1>1, <3>4 DEF IInv, TypeOK
      <4> QED BY <2>1, <3>1, <3>3, <4>1, Quiet
    <3>5. CASE ClawBack(id, s("Cancelled"))
      BY <1>1, <3>1, <3>3, <3>5, ReturnedInFull
    <3> QED BY <3>2, <3>4, <3>5
  <2>10. CASE Pause(id) \/ Unpause(id)
    <3>1. PICK st \in {"Active", "Paused"} : agreement' = [agreement EXCEPT ![id].state = st]
      BY <2>10 DEF Pause, Unpause
    <3> DEFINE r == [ag EXCEPT !.state = st]
    <3>2. r.beneficiaries = ag.beneficiaries /\ r.unsettled = ag.unsettled
      BY <2>1 DEF Agreement
    <3>3. agreement'[id] = r
      BY <1>1, <3>1 DEF IInv, TypeOK
    <3> HIDE DEF r
    <3> QED BY <2>1, <3>2, <3>3, Quiet
  <2>11. ASSUME NEW c \in Changes, ModifyAgreement(id, c) PROVE PastStep(id)
    <3> DEFINE pending == ag.unsettled > 0 /\ ag.period # 0
               kept == IF pending THEN Settled(ag) ELSE ag
               r == [kept EXCEPT !.beneficiaries = c.beneficiaries, !.period = c.period,
                                 !.next_settlement_at = NextSettlement(c.period)]
    <3>1. agreement' = [agreement EXCEPT ![id] = r]
      BY <2>11 DEF ModifyAgreement
    <3>2. kept \in Agreement /\ kept.unsettled = 0
      <4>1. CASE pending
        BY <2>1, <4>1, SettledFacts
      <4>2. CASE ~pending
        <5>1. ag.unsettled = 0
          BY <2>1, <4>2 DEF Sound, Movable
        <5> QED BY <2>1, <4>2, <5>1
      <4> QED BY <4>1, <4>2
    <3>3. r.unsettled = 0
      <4> HIDE DEF kept
      <4> QED BY <3>2 DEF Agreement
    <3> HIDE DEF r
    <3>4. agreement'[id].unsettled = 0
      BY <1>1, <3>1, <3>3 DEF IInv, TypeOK
    <3>5. CASE pending
      BY <1>1, <2>11, <3>4, <3>5, PaidInFull DEF ModifyAgreement
    <3>6. CASE ~pending
      <4>1. ag.unsettled = 0
        BY <2>1, <3>6 DEF Sound, Movable
      <4> QED BY <3>4, <4>1 DEF PastStep
    <3> QED BY <3>5, <3>6
  <2>12. CASE \/ \E a \in Admins : Initialize(a) \/ SetAdmin(a)
              \/ Tick \/ UNCHANGED vars
    BY <2>2, <2>12 DEF Initialize, SetAdmin, Tick, vars
  <2>13. ASSUME NEW j \in Ids,
                \/ \E p \in Payers, m \in Amounts : DepositRevenue(j, p, m)
                \/ SettleDistribution(j)
                \/ ClawbackUnsettled(j)
                \/ \E c \in Addr : RaiseDispute(j, c)
                \/ \E d \in DisputeResolution : ResolveDispute(j, d)
                \/ Pause(j)
                \/ Unpause(j)
                \/ \E c \in Changes : ModifyAgreement(j, c)
         PROVE  PastStep(id)
    <3>1. CASE j # id
      <4>1. Moves(j)
        BY <1>1, <2>13, DepositMoves, SettleMoves, ClawbackUnsettledMoves, RaiseMoves,
           ResolveMoves, PauseMoves, ModifyMoves
      <4> QED BY <2>4, <3>1, <4>1
    <3>2. CASE j = id
      BY <2>5, <2>6, <2>7, <2>8, <2>9, <2>10, <2>11, <2>13, <3>2
    <3> QED BY <3>1, <3>2
  <2> QED BY <1>1, <2>3, <2>12, <2>13 DEF Next
<1>2. IInv /\ [Next]_vars =>
        [\A id \in Ids : Exists(id) /\ Self \notin Parties(agreement[id]) => PastStep(id)]_vars
  BY <1>1
<1>3. Init => IInv
  BY InitFacts
<1>4. IInv /\ [Next]_vars => IInv'
  BY StepFacts
<1> QED BY <1>2, <1>3, <1>4, PTL DEF Spec, PastRevenueToPastParties, PastStep

-----------------------------------------------------------------------------
(***************************************************************************)
(* royalty_distribution.  What is pending for an account that is not       *)
(* listed is nothing (Listed): without it a recipient added again would    *)
(* lose what it was owed.                                                  *)
(***************************************************************************)
Recipient == [address : Addr, basis_points : Nat \ {0}]

RoyaltyTypes ==
  /\ recipients \in Seq(Recipient)
  /\ recipientIndex \in [Addr -> Nat]
  /\ pendingBalance \in [Addr -> Nat]
  /\ royaltyBal \in Balances

Listed == \A a \in Addr : recipientIndex[a] = 0 => pendingBalance[a] = 0

RoyaltyInv == RoyaltyTypes /\ Royalties!Indexed /\ Listed

\* What a step may do to the tokens that are nobody's pending balance.
KeptStep ==
  \/ Royalties!Drains
  \/ royaltyBal'[Royalty][Self] - Total(pendingBalance') =
       royaltyBal[Royalty][Self] - Total(pendingBalance)

\* The sums of the instance are those of TokenUnits.
LEMMA RoyaltyTotal == ASSUME NEW f PROVE Royalties!Total(f) = Total(f)
BY Zenon DEF Royalties!Total, Total, Royalties!Units, Units, Royalties!Cardinality, Cardinality

\* Where the entries of a list go when the one at k is taken out.
LEMMA Without ==
  ASSUME NEW T, NEW l \in Seq(T), NEW k \in 1 .. Len(l)
  PROVE  LET rest == SubSeq(l, 1, k - 1) \o SubSeq(l, k + 1, Len(l)) IN
         /\ rest \in Seq(T) /\ Len(rest) = Len(l) - 1
         /\ \A i \in 1 .. Len(l) - 1 : rest[i] = IF i < k THEN l[i] ELSE l[i + 1]
<1> DEFINE n == Len(l)
           before == SubSeq(l, 1, k - 1)
           after == SubSeq(l, k + 1, n)
           rest == before \o after
<1>1. n \in Nat /\ k \in 1 .. n
  OBVIOUS
<1>2. before \in Seq(T) /\ Len(before) = k - 1 /\ \A i \in 1 .. k - 1 : before[i] = l[i]
  <2>1. 1 \in 1 .. n + 1 /\ k - 1 \in 0 .. n
    BY <1>1
  <2> QED BY <1>1, <2>1
<1>3. after \in Seq(T) /\ Len(after) = n - k /\ \A i \in 1 .. n - k : after[i] = l[i + k]
  <2>1. k + 1 \in 1 .. n + 1 /\ n \in 0 .. n
    BY <1>1
  <2> QED BY <1>1, <2>1
<1> HIDE DEF before, after, n
<1>4. rest \in Seq(T) /\ Len(rest) = n - 1
  <2>1. rest \in Seq(T)
    BY <1>2, <1>3
  <2>0. before \in Seq(T) /\ after \in Seq(T)
    BY <1>2, <1>3
  <2>2. Len(rest) = Len(before) + Len(after)
    BY ONLY <2>0, ConcatProperties DEF rest
  <2> HIDE DEF rest
  <2> QED BY <1>1, <1>2, <1>3, <2>1, <2>2
<1>5. ASSUME NEW i \in 1 .. n - 1 PROVE rest[i] = IF i < k THEN l[i] ELSE l[i + 1]
  <2>1. CASE i < k
    <3>1. i \in 1 .. k - 1 /\ rest[i] = before[i]
      BY <1>1, <1>2, <1>3, <2>1
    <3> QED BY <1>2, <2>1, <3>1
  <2>2. CASE i >= k
    <3>1. i - (k - 1) \in 1 .. n - k /\ rest[i] = after[i - (k - 1)] /\ i - (k - 1) + k = i + 1
      BY <1>1, <1>2, <1>3, <2>2
    <3>2. after[i - (k - 1)] = l[i - (k - 1) + k]
      BY <1>3, <3>1
    <3> QED BY <1>1, <2>2, <3>1, <3>2
  <2>3. i < k \/ i >= k
    BY <1>1
  <2> HIDE DEF rest
  <2> QED BY <2>1, <2>2, <2>3
<1> QED BY <1>4, <1>5 DEF before, after, n

\* rest is the list of recipients without the one of a.
ListWithout(rest, a) ==
  /\ rest \in Seq(Recipient) /\ Len(rest) = Len(recipients) - 1
  /\ \A i \in 1 .. Len(recipients) - 1 :
       rest[i] = IF i < recipientIndex[a] THEN recipients[i] ELSE recipients[i + 1]

\* remove_recipient leaves an index that agrees with the remaining list.
LEMMA ReindexedAgrees ==
  ASSUME RoyaltyTypes, Royalties!Indexed, NEW a \in Addr, recipientIndex[a] # 0,
         NEW rest, ListWithout(rest, a)
  PROVE  LET new == Royalties!Reindexed(rest, a) IN
         /\ new \in [Addr -> Nat] /\ new[a] = 0
         /\ \A b \in Addr : new[b] = 0 => b = a \/ recipientIndex[b] = 0
         /\ \A b \in Addr : new[b] # 0 => new[b] \in 1 .. Len(rest) /\ rest[new[b]].address = b
         /\ \A i \in 1 .. Len(rest) : new[rest[i].address] = i
<1> DEFINE l == recipients
           n == Len(l)
           k == recipientIndex[a]
           P(b, i) == i >= k /\ rest[i].address = b
           J == 1 .. n - 1
           new == Royalties!Reindexed(rest, a)
<1>1. /\ l \in Seq(Recipient) /\ n \in Nat /\ k \in 1 .. n /\ l[k].address = a
      /\ \A b \in Addr : recipientIndex[b] \in Nat
      /\ \A b \in Addr : recipientIndex[b] # 0 =>
           recipientIndex[b] \in 1 .. n /\ l[recipientIndex[b]].address = b
      /\ \A i \in 1 .. n : recipientIndex[l[i].address] = i
      /\ \A i \in 1 .. n : l[i].address \in Addr
  <2>1. l \in Seq(Recipient) /\ \A i \in 1 .. n : l[i] \in Recipient
    BY DEF RoyaltyTypes
  <2>2. \A i \in 1 .. n : l[i].address \in Addr
    BY <2>1 DEF Recipient
  <2> QED BY <2>1, <2>2 DEF RoyaltyTypes, Royalties!Indexed, Royalties!Positions
<1>2. \A i \in J : rest[i] = IF i < k THEN l[i] ELSE l[i + 1]
  BY DEF ListWithout
<1>3. Len(rest) = n - 1 /\ J = 1 .. Len(rest)
  BY DEF ListWithout
<1>4. new = [b \in Addr |-> IF b = a THEN 0
                            ELSE IF \E i \in J : P(b, i) THEN CHOOSE i \in J : P(b, i)
                            ELSE recipientIndex[b]]
  BY <1>3 DEF Royalties!Reindexed
<1> HIDE DEF new, l, n, k
<1>5. ASSUME NEW b \in Addr, b # a, NEW i \in J, P(b, i)
      PROVE  new[b] = i /\ recipientIndex[b] = i + 1
  <2> DEFINE j == CHOOSE j \in J : P(b, j)
  <2>1. j \in J /\ P(b, j)
    BY <1>5
  <2>2. new[b] = j
    BY <1>4, <1>5
  <2> HIDE DEF j
  <2>3. ASSUME NEW x \in J, P(b, x) PROVE recipientIndex[b] = x + 1
    <3>1. rest[x] = l[x + 1] /\ x + 1 \in 1 .. n
      BY <1>1, <1>2, <2>3
    <3> QED BY <1>1, <2>3, <3>1
  <2> QED BY <1>1, <1>5, <2>1, <2>2, <2>3
<1>6. ASSUME NEW b \in Addr, b # a, \A i \in J : ~P(b, i)
      PROVE  /\ new[b] = recipientIndex[b]
             /\ recipientIndex[b] # 0 => recipientIndex[b] \in J /\ recipientIndex[b] < k
  <2>1. new[b] = recipientIndex[b]
    BY <1>4, <1>6
  <2>2. ASSUME recipientIndex[b] # 0 PROVE recipientIndex[b] \in J /\ recipientIndex[b] < k
    <3> DEFINE x == recipientIndex[b]
    <3>1. x \in 1 .. n /\ l[x].address = b /\ x # k
      BY <1>1, <1>6, <2>2
    <3>2. ASSUME x > k PROVE FALSE
      <4>1. x - 1 \in J /\ x - 1 >= k /\ (x - 1) + 1 = x
        BY <1>1, <3>1, <3>2
      <4>2. rest[x - 1] = l[x]
        BY <1>1, <1>2, <4>1
      <4> QED BY <1>6, <3>1, <4>1, <4>2
    <3> QED BY <1>1, <3>1, <3>2
  <2> QED BY <2>1, <2>2
<1>7. new \in [Addr -> Nat] /\ new[a] = 0
  <2>1. ASSUME NEW b \in Addr PROVE new[b] \in Nat
    <3>1. CASE b = a
      BY <1>4, <3>1
    <3>2. CASE b # a /\ \E i \in J : P(b, i)
      <4>1. PICK i \in J : P(b, i)
        BY <3>2
      <4>2. new[b] = i
        BY <1>5, <3>2, <4>1
      <4> QED BY <1>1, <4>2
    <3>3. CASE b # a /\ \A i \in J : ~P(b, i)
      BY <1>1, <1>6, <3>3
    <3> QED BY <3>1, <3>2, <3>3
  <2> QED BY <1>4, <2>1
<1>8. ASSUME NEW b \in Addr, new[b] = 0 PROVE b = a \/ recipientIndex[b] = 0
  BY <1>5, <1>6, <1>8
<1>9. ASSUME NEW b \in Addr, new[b] # 0 PROVE new[b] \in J /\ rest[new[b]].address = b
  <2>1. b # a
    BY <1>7, <1>9
  <2>2. CASE \E i \in J : P(b, i)
    <3>1. PICK i \in J : P(b, i)
      BY <2>2
    <3>2. new[b] = i
      BY <1>5, <2>1, <3>1
    <3> QED BY <3>1, <3>2
  <2>3. CASE \A i \in J : ~P(b, i)
    <3>1. new[b] = recipientIndex[b] /\ recipientIndex[b] \in J /\ recipientIndex[b] < k
      BY <1>6, <1>9, <2>1, <2>3
    <3>2. rest[recipientIndex[b]] = l[recipientIndex[b]]
      BY <1>2, <3>1
    <3> QED BY <1>1, <1>9, <3>1, <3>2
  <2> QED BY <2>2, <2>3
<1>10. ASSUME NEW i \in J PROVE new[rest[i].address] = i
  <2> DEFINE b == rest[i].address
  <2>1. CASE i >= k
    <3>1. rest[i] = l[i + 1] /\ i + 1 \in 1 .. n /\ i + 1 # k
      BY <1>1, <1>2, <2>1
    <3>2. b \in Addr /\ recipientIndex[b] = i + 1
      BY <1>1, <3>1
    <3>3. b # a
      BY <3>1, <3>2 DEF k
    <3> QED BY <1>5, <2>1, <3>2, <3>3
  <2>2. CASE i < k
    <3>1. rest[i] = l[i] /\ i \in 1 .. n /\ i # k
      BY <1>1, <1>2, <2>2
    <3>2. b \in Addr /\ recipientIndex[b] = i
      BY <1>1, <3>1
    <3>3. b # a
      BY <3>1, <3>2 DEF k
    <3> HIDE DEF b
    <3>4. \A x \in J : ~P(b, x)
      <4>1. ASSUME NEW x \in J, P(b, x) PROVE FALSE
        <5>1. i = x + 1
          BY <1>5, <3>2, <3>3, <4>1
        <5> QED BY <1>1, <2>2, <4>1, <5>1
      <4> QED BY <4>1
    <3>5. new[b] = i
      BY <1>6, <3>2, <3>3, <3>4
    <3> QED BY <3>5 DEF b
  <2> QED BY <1>1, <2>1, <2>2
<1> QED BY <1>3, <1>7, <1>8, <1>9, <1>10 DEF new

\* distribute divides the whole amount: every share is a natural number, and
\* they add up to it.
LEMMA SharesAreAll ==
  ASSUME RoyaltyTypes, recipients # <<>>, NEW m \in Nat
  PROVE  LET share == [i \in 1 .. Len(recipients) |-> Royalties!ShareOf(m, i)] IN
         share \in [1 .. Len(recipients) -> Nat] /\ Total(share) = m
<1> DEFINE l == recipients
           n == Len(l)
           w == [i \in 1 .. n |-> l[i].basis_points]
           D == Total(w)
           Others == 1 .. n - 1
           f == [i \in Others |-> (m * w[i]) \div D]
           v == [i \in Others |-> w[i]]
           share == [i \in 1 .. n |-> Royalties!ShareOf(m, i)]
<1>1. n \in Nat \ {0} /\ \A i \in 1 .. n : w[i] \in Nat \ {0}
  <2>1. l \in Seq(Recipient) /\ l # <<>>
    BY DEF RoyaltyTypes
  <2>2. ASSUME NEW i \in 1 .. n PROVE l[i] \in Recipient
    BY <2>1
  <2>3. n \in Nat \ {0}
    BY <2>1
  <2> QED BY <2>2, <2>3 DEF Recipient
<1>2. /\ IsFiniteSet(1 .. n) /\ IsFiniteSet(Others) /\ n \notin Others
      /\ 1 .. n = Others \cup {n}
  <2>1. 1 \in Int /\ n \in Int /\ n - 1 \in Int
    BY <1>1
  <2> HIDE DEF n
  <2>2. IsFiniteSet(1 .. n) /\ IsFiniteSet(Others)
    BY <2>1, FS_Interval
  <2>3. n \notin Others
    BY <2>1
  <2>4. 1 .. n = Others \cup {n}
    BY <1>1
  <2> QED BY <2>2, <2>3, <2>4
<1>3. w \in [1 .. n -> Nat]
  BY <1>1
<1> HIDE DEF w, n, l
<1>4. D \in Nat \ {0}
  <2>1. n \in 1 .. n
    BY <1>1
  <2>2. w[n] <= D /\ D \in Nat
    BY <1>2, <1>3, <2>1, TotalCovers, UnitsFinite
  <2> HIDE DEF D
  <2> QED BY <1>1, <2>1, <2>2
<1>5. v \in [Others -> Nat] /\ Total(v) <= D
  <2>1. \A i \in Others \cup {n} : w[i] \in Nat
    BY <1>2, <1>3
  <2>2. w = [i \in Others \cup {n} |-> w[i]]
    BY <1>2, <1>3
  <2>3. Total([i \in Others \cup {n} |-> w[i]]) = Total([i \in Others |-> w[i]]) + w[n]
    <3> HIDE DEF Others
    <3> QED BY <1>2, <2>1, TotalOneMore
  <2>4. v \in [Others -> Nat]
    BY <2>1
  <2>5. Total(v) \in Nat
    <3> HIDE DEF v, Others
    <3> QED BY <1>2, <2>4, UnitsFinite
  <2>6. D = Total(v) + w[n]
    BY <2>2, <2>3
  <2>7. w[n] \in Nat
    BY <1>2, <2>1
  <2> HIDE DEF v, D
  <2> QED BY <2>4, <2>5, <2>6, <2>7
<1>6. f \in [Others -> Nat]
  <2>1. ASSUME NEW i \in Others PROVE (m * w[i]) \div D \in Nat
    <3> DEFINE x == m * w[i]
    <3>1. x \in Nat
      <4>1. w[i] \in Nat
        BY <1>2, <1>3
      <4> QED BY <4>1
    <3> HIDE DEF x, D
    <3>2. x \div D \in Nat
      BY <1>4, <3>1
    <3> QED BY <3>2 DEF x
  <2> HIDE DEF D, Others
  <2> QED BY <2>1
<1>7. Total(f) <= m /\ Total(f) \in Nat
  <2>1. PICK d \in Nat \ {0} : d = D
    BY <1>4
  <2>2. PICK vv \in [Others -> Nat] : vv = v
    BY <1>5
  <2>3. PICK ff \in [Others -> Nat] : ff = f
    BY <1>6
  <2>4. RoundedDown(ff, Others, m, vv, d)
    BY <2>1, <2>2, <2>3 DEF RoundedDown
  <2>5. Total(vv) <= d
    BY <1>5, <2>1, <2>2
  <2> HIDE DEF f, v, D, Others
  <2>7. IsFiniteSet(Others)
    BY <1>2
  <2>6. Total(ff) <= m
    BY ONLY m \in Nat, <2>4, <2>5, <2>7, FloorSharesFit
  <2> QED BY <1>2, <1>6, <2>3, <2>6, UnitsFinite
<1>8. Royalties!TotalBps(Royalties!Positions) = D
  BY RoyaltyTotal DEF Royalties!TotalBps, Royalties!Positions, w, n, l
<1>9. ASSUME NEW i \in Others PROVE Royalties!FloorShare(m, i) = f[i]
  <2>1. w[i] = recipients[i].basis_points
    BY <1>2 DEF w, l
  <2> HIDE DEF D
  <2> QED BY <1>8, <2>1 DEF Royalties!FloorShare
<1>10. \A i \in Others : share[i] = f[i]
  <2> TAKE i \in Others
  <2>1. i # n /\ i \in 1 .. n
    BY <1>2
  <2>2. share[i] = Royalties!FloorShare(m, i)
    BY <2>1 DEF Royalties!ShareOf, n, l
  <2> HIDE DEF f, share
  <2> QED BY <1>9, <2>2
<1>11. share[n] = m - Total(f)
  <2>1. n \in 1 .. n
    BY <1>1
  <2>2. share[n] = m - Royalties!Total([j \in 1 .. n - 1 |-> Royalties!FloorShare(m, j)])
    BY <2>1 DEF Royalties!ShareOf, n, l
  <2>3. [j \in Others |-> Royalties!FloorShare(m, j)] = f
    BY <1>9
  <2> HIDE DEF f, share
  <2> QED BY <2>2, <2>3, RoyaltyTotal
<1> HIDE DEF f
<1>12. share \in [1 .. n -> Nat]
  <2>1. ASSUME NEW i \in 1 .. n PROVE share[i] \in Nat
    <3> HIDE DEF share
    <3>1. CASE i = n
      BY <1>7, <1>11, <3>1
    <3>2. CASE i \in Others
      BY <1>6, <1>10, <3>2
    <3> QED BY <1>2, <3>1, <3>2
  <2>2. DOMAIN share = 1 .. n /\ share = [i \in 1 .. n |-> share[i]]
    OBVIOUS
  <2> HIDE DEF share
  <2> QED BY <2>1, <2>2
<1> HIDE DEF share
<1>13. Total(share) = Total(f) + share[n]
  <2>1. /\ share = [i \in Others \cup {n} |-> share[i]] /\ f = [i \in Others |-> share[i]]
        /\ \A i \in Others \cup {n} : share[i] \in Nat
    BY <1>2, <1>6, <1>10, <1>12
  <2>2. Total([i \in Others \cup {n} |-> share[i]]) = Total([i \in Others |-> share[i]]) + share[n]
    <3> HIDE DEF Others
    <3> QED BY <1>2, <2>1, TotalOneMore
  <2> HIDE DEF Others
  <2> QED BY <2>1, <2>2
<1>14. Total(share) = m
  BY <1>7, <1>11, <1>13
<1> QED BY <1>12, <1>14 DEF share, n, l

\* A transfer of the royalty token between two accounts.
LEMMA RoyaltyTransfer ==
  ASSUME RoyaltyTypes, NEW from \in Account, NEW to \in Account, from # to, NEW m \in Nat,
         royaltyBal[Royalty][from] >= m,
         royaltyBal' = [royaltyBal EXCEPT ![Royalty] = Royalties!Transfer(@, from, to, m)]
  PROVE  /\ royaltyBal' \in Balances
         /\ royaltyBal'[Royalty][from] = royaltyBal[Royalty][from] - m
         /\ royaltyBal'[Royalty][to] = royaltyBal[Royalty][to] + m
         /\ royaltyBal[Royalty][from] \in Nat /\ royaltyBal[Royalty][to] \in Nat
<1> DEFINE r == royaltyBal[Royalty]
           s == Royalties!Transfer(r, from, to, m)
<1>1. r \in [Account -> Nat] /\ royaltyBal \in Balances /\ Royalty \in Token /\ r[from] >= m
  BY DivisionAssumption DEF RoyaltyTypes, Balances
<1>2. royaltyBal' = [royaltyBal EXCEPT ![Royalty] = s]
  OBVIOUS
<1> HIDE DEF r
<1>3. s \in [Account -> Nat] /\ s[from] = r[from] - m /\ s[to] = r[to] + m
  BY <1>1 DEF Royalties!Transfer
<1> HIDE DEF s
<1>4. royaltyBal' \in Balances /\ royaltyBal'[Royalty] = s
  BY <1>1, <1>2, <1>3 DEF Balances
<1>5. r[from] \in Nat /\ r[to] \in Nat
  BY <1>1
<1> QED BY <1>3, <1>4, <1>5 DEF r

\* A payment out of the contract that is taken off a pending balance.
LEMMA PayKeeps ==
  ASSUME RoyaltyInv, NEW a \in Addr, NEW m \in Nat, m <= pendingBalance[a],
         Royalties!PayRecipient(a, m),
         pendingBalance' = [pendingBalance EXCEPT ![a] = pendingBalance[a] - m]
  PROVE  royaltyBal' \in Balances /\ pendingBalance' \in [Addr -> Nat] /\ KeptStep
<1> DEFINE b == royaltyBal[Royalty][Self]
           c == royaltyBal'[Royalty][Self]
<1>1. Self \in Account /\ a \in Account /\ Self # a /\ pendingBalance \in [Addr -> Nat]
  BY AddrAssumption DEF Account, RoyaltyInv, RoyaltyTypes
<1>2. royaltyBal' \in Balances /\ c = b - m /\ b \in Nat
  BY <1>1, RoyaltyTransfer DEF RoyaltyInv, Royalties!PayRecipient
<1>3. /\ pendingBalance' \in [Addr -> Nat] /\ pendingBalance'[a] = pendingBalance[a] - m
      /\ \A x \in Addr \ {a} : pendingBalance'[x] = pendingBalance[x]
  BY <1>1
<1>4. Total(pendingBalance') = Total(pendingBalance) - m
  <2>1. PICK old \in [Addr -> Nat] : old = pendingBalance
    BY <1>1
  <2>2. PICK new \in [Addr -> Nat] : new = pendingBalance'
    BY <1>3
  <2>3. new[a] = old[a] - m /\ \A x \in Addr \ {a} : new[x] = old[x]
    BY <1>3, <2>1, <2>2
  <2>4. Total(new) = Total(old) - m
    BY <2>3, AddrAssumption, TotalLower
  <2> QED BY <2>1, <2>2, <2>4
<1>5. Total(pendingBalance) \in Nat
  BY <1>1, AddrAssumption, UnitsFinite
<1>6. c - Total(pendingBalance') = b - Total(pendingBalance)
  <2> HIDE DEF b, c
  <2> QED BY <1>2, <1>4, <1>5
<1> QED BY <1>2, <1>3, <1>6 DEF KeptStep

LEMMA AddRecipientKeeps ==
  ASSUME RoyaltyInv, NEW a \in Addr, NEW bps \in Int, Royalties!AddRecipient(a, bps)
  PROVE  RoyaltyInv' /\ KeptStep
<1> DEFINE l == recipients
           n == Len(l)
           e == [address |-> a, basis_points |-> bps]
<1>1. /\ bps \in 1 .. BpsDenominator /\ recipientIndex[a] = 0
      /\ recipients' = Append(l, e)
      /\ recipientIndex' = [recipientIndex EXCEPT ![a] = n + 1]
      /\ pendingBalance' = [pendingBalance EXCEPT ![a] = 0] /\ royaltyBal' = royaltyBal
  BY DEF Royalties!AddRecipient
<1>2. /\ l \in Seq(Recipient) /\ n \in Nat /\ recipientIndex \in [Addr -> Nat]
      /\ pendingBalance \in [Addr -> Nat] /\ royaltyBal \in Balances
  BY DEF RoyaltyInv, RoyaltyTypes
<1>3. e \in Recipient
  BY <1>1, BoundAssumption DEF Recipient
<1>4. /\ recipients' \in Seq(Recipient) /\ Len(recipients') = n + 1 /\ recipients'[n + 1] = e
      /\ \A i \in 1 .. n : recipients'[i] = l[i]
  BY <1>1, <1>2, <1>3
<1>5. pendingBalance' = pendingBalance
  BY <1>1, <1>2 DEF RoyaltyInv, Listed
<1>6. RoyaltyTypes'
  BY <1>1, <1>2, <1>4, <1>5 DEF RoyaltyTypes
<1>7. Listed'
  BY <1>1, <1>2, <1>5 DEF Listed, RoyaltyInv
<1>8. /\ \A b \in Addr : recipientIndex[b] # 0 =>
           recipientIndex[b] \in 1 .. n /\ l[recipientIndex[b]].address = b
      /\ \A i \in 1 .. n : recipientIndex[l[i].address] = i
  BY DEF RoyaltyInv, Royalties!Indexed, Royalties!Positions
<1>9. \A i \in 1 .. n : l[i].address \in Addr
  <2>1. \A i \in 1 .. n : l[i] \in Recipient
    BY <1>2
  <2> QED BY <2>1 DEF Recipient
<1> HIDE DEF n, l
<1>10. ASSUME NEW b \in Addr, recipientIndex'[b] # 0
       PROVE  recipientIndex'[b] \in 1 .. n + 1 /\ recipients'[recipientIndex'[b]].address = b
  <2>1. CASE b = a
    BY <1>1, <1>2, <1>4, <2>1
  <2>2. CASE b # a
    <3>1. recipientIndex'[b] = recipientIndex[b] /\ recipientIndex[b] \in 1 .. n
      BY <1>1, <1>2, <1>8, <1>10, <2>2
    <3> QED BY <1>2, <1>4, <1>8, <1>10, <3>1
  <2> QED BY <2>1, <2>2
<1>11. ASSUME NEW i \in 1 .. n + 1 PROVE recipientIndex'[recipients'[i].address] = i
  <2>1. CASE i = n + 1
    <3>1. recipients'[i].address = a
      BY <1>4, <2>1
    <3> QED BY <1>1, <1>2, <2>1, <3>1
  <2>2. CASE i # n + 1
    <3>1. i \in 1 .. n
      BY <1>2, <2>2
    <3>2. recipients'[i] = l[i] /\ l[i].address \in Addr /\ recipientIndex[l[i].address] = i
      BY <1>4, <1>8, <1>9, <3>1
    <3>3. l[i].address # a
      BY <1>1, <2>2, <3>1, <3>2
    <3> QED BY <1>1, <1>2, <3>2, <3>3
  <2> QED BY <2>1, <2>2
<1>12. Royalties!Indexed'
  BY <1>4, <1>10, <1>11 DEF Royalties!Indexed, Royalties!Positions
<1>13. KeptStep
  BY <1>1, <1>5 DEF KeptStep
<1> QED BY <1>6, <1>7, <1>12, <1>13 DEF RoyaltyInv

LEMMA RemoveRecipientKeeps ==
  ASSUME RoyaltyInv, NEW a \in Addr, Royalties!RemoveRecipient(a)
  PROVE  RoyaltyInv' /\ KeptStep
<1> DEFINE l == recipients
           k == recipientIndex[a]
           rest == SubSeq(l, 1, k - 1) \o SubSeq(l, k + 1, Len(l))
           m == pendingBalance[a]
<1>1. /\ k # 0 /\ recipients' = rest
      /\ recipientIndex' = Royalties!Reindexed(rest, a)
      /\ pendingBalance' = [pendingBalance EXCEPT ![a] = 0]
      /\ \/ m > 0 /\ Royalties!PayRecipient(a, m)
         \/ m <= 0 /\ royaltyBal' = royaltyBal
  BY DEF Royalties!RemoveRecipient
<1>2. /\ RoyaltyTypes /\ Royalties!Indexed /\ Listed /\ m \in Nat
      /\ l \in Seq(Recipient) /\ k \in 1 .. Len(l) /\ pendingBalance \in [Addr -> Nat]
  BY <1>1 DEF RoyaltyInv, RoyaltyTypes, Royalties!Indexed, Royalties!Positions
<1>3. /\ rest \in Seq(Recipient) /\ Len(rest) = Len(l) - 1
      /\ \A i \in 1 .. Len(l) - 1 : rest[i] = IF i < k THEN l[i] ELSE l[i + 1]
  <2> HIDE DEF k, l
  <2> QED BY <1>2, Without
<1> HIDE DEF rest
<1>4. /\ recipientIndex' \in [Addr -> Nat] /\ recipientIndex'[a] = 0
      /\ \A b \in Addr : recipientIndex'[b] = 0 => b = a \/ recipientIndex[b] = 0
      /\ \A b \in Addr : recipientIndex'[b] # 0 =>
           recipientIndex'[b] \in 1 .. Len(rest) /\ rest[recipientIndex'[b]].address = b
      /\ \A i \in 1 .. Len(rest) : recipientIndex'[rest[i].address] = i
  <2>1. recipientIndex' = Royalties!Reindexed(rest, a) /\ recipientIndex[a] # 0
    BY <1>1
  <2>2. ListWithout(rest, a)
    BY <1>3 DEF ListWithout
  <2> HIDE DEF k, l, m
  <2> QED BY ONLY <1>2, <2>1, <2>2, a \in Addr, ReindexedAgrees
<1>5. royaltyBal' \in Balances /\ pendingBalance' \in [Addr -> Nat] /\ KeptStep
  <2>1. CASE m > 0 /\ Royalties!PayRecipient(a, m)
    <3>1. m - m = 0 /\ m <= m
      BY <1>2
    <3>2. pendingBalance' = [pendingBalance EXCEPT ![a] = pendingBalance[a] - m]
      BY <1>1, <3>1
    <3>3. m \in Nat /\ m <= pendingBalance[a]
      BY <1>2, <3>1
    <3> HIDE DEF m
    <3> QED BY <2>1, <3>2, <3>3, PayKeeps
  <2>2. CASE m <= 0 /\ royaltyBal' = royaltyBal
    <3>1. pendingBalance' = pendingBalance
      BY <1>1, <1>2, <2>2
    <3> QED BY <1>2, <2>2, <3>1 DEF KeptStep, RoyaltyTypes
  <2> QED BY <1>1, <2>1, <2>2
<1>6. RoyaltyTypes'
  BY <1>1, <1>3, <1>4, <1>5 DEF RoyaltyTypes
<1>7. Royalties!Indexed'
  BY <1>1, <1>4 DEF Royalties!Indexed, Royalties!Positions
<1>8. Listed'
  <2>1. ASSUME NEW b \in Addr, recipientIndex'[b] = 0 PROVE pendingBalance'[b] = 0
    <3>1. b = a \/ recipientIndex[b] = 0
      BY <1>4, <2>1
    <3> QED BY <1>1, <1>2, <3>1 DEF Listed
  <2> QED BY <2>1 DEF Listed
<1> QED BY <1>5, <1>6, <1>7, <1>8 DEF RoyaltyInv

LEMMA DistributeKeeps ==
  ASSUME RoyaltyInv, NEW p \in Payers, NEW m \in Amounts, Royalties!Distribute(p, m)
  PROVE  RoyaltyInv' /\ KeptStep
<1> DEFINE l == recipients
           S == 1 .. Len(l)
           key == [i \in S |-> l[i].address]
           share == [i \in S |-> Royalties!ShareOf(m, i)]
           part == [a \in Addr |-> PartOf(share, key, S, a)]
           b == royaltyBal[Royalty][Self]
           c == royaltyBal'[Royalty][Self]
<1>1. /\ m > 0 /\ l # <<>> /\ royaltyBal[Royalty][p] >= m
      /\ royaltyBal' = [royaltyBal EXCEPT ![Royalty] = Royalties!Transfer(@, p, Self, m)]
      /\ pendingBalance' = [a \in Addr |-> pendingBalance[a]
           + Royalties!Total([i \in {j \in Royalties!Positions : l[j].address = a} |->
                                Royalties!ShareOf(m, i)])]
      /\ recipients' = l /\ recipientIndex' = recipientIndex
  BY DEF Royalties!Distribute
<1>2. m \in Nat
  BY <1>1, ArgumentAssumption
<1>3. RoyaltyTypes /\ l \in Seq(Recipient) /\ pendingBalance \in [Addr -> Nat]
  BY DEF RoyaltyInv, RoyaltyTypes
<1>4. Self \in Account /\ p \in Account /\ Self # p
  BY AddrAssumption DEF Account
<1>5. royaltyBal' \in Balances /\ c = b + m /\ b \in Nat
  BY <1>1, <1>2, <1>3, <1>4, RoyaltyTransfer
<1>6. share \in [S -> Nat] /\ Total(share) = m
  BY <1>1, <1>2, <1>3, SharesAreAll
<1>7. IsFiniteSet(S)
  <2>1. 1 \in Int /\ Len(l) \in Int
    BY <1>3
  <2> QED BY <2>1, FS_Interval
<1>8. key \in [S -> Addr]
  <2>1. \A i \in S : l[i] \in Recipient
    BY <1>3
  <2> QED BY <2>1 DEF Recipient
<1>9. part \in [Addr -> Nat] /\ Total(part) = Total(share)
  <2> HIDE DEF S, key, share
  <2> QED BY <1>6, <1>7, <1>8, AddrAssumption, TotalRegroup
<1>10. \A a \in Addr : pendingBalance'[a] = pendingBalance[a] + part[a]
  <2> TAKE a \in Addr
  <2> DEFINE of == {j \in S : l[j].address = a}
  <2>1. of = {j \in S : key[j] = a} /\ of = {j \in Royalties!Positions : l[j].address = a}
    BY DEF Royalties!Positions
  <2>2. [i \in of |-> Royalties!ShareOf(m, i)] = [i \in of |-> share[i]]
    OBVIOUS
  <2>3. part[a] = Total([i \in of |-> share[i]])
    BY <2>1 DEF PartOf
  <2>4. pendingBalance'[a] = pendingBalance[a]
          + Royalties!Total([i \in {j \in Royalties!Positions : l[j].address = a} |->
                               Royalties!ShareOf(m, i)])
    BY <1>1
  <2> HIDE DEF of, part, share
  <2> QED BY <2>1, <2>2, <2>3, <2>4, RoyaltyTotal
<1> HIDE DEF part, key, S
<1>11. pendingBalance' \in [Addr -> Nat]
  <2>1. \A a \in Addr : pendingBalance'[a] \in Nat
    BY <1>3, <1>9, <1>10
  <2>2. pendingBalance' = [a \in Addr |-> pendingBalance'[a]]
    BY <1>1
  <2> QED BY <2>1, <2>2
<1>12. Total(pendingBalance') = Total(pendingBalance) + Total(part)
  <2>1. PICK old \in [Addr -> Nat] : old = pendingBalance
    BY <1>3
  <2>2. PICK new \in [Addr -> Nat] : new = pendingBalance'
    BY <1>11
  <2>3. \A a \in Addr : new[a] = old[a] + part[a]
    BY <1>10, <2>1, <2>2
  <2>4. Total(new) = Total(old) + Total(part)
    BY <1>9, <2>3, AddrAssumption, TotalAdd
  <2> QED BY <2>1, <2>2, <2>4
<1>13. Total(pendingBalance) \in Nat
  BY <1>3, AddrAssumption, UnitsFinite
<1>14. KeptStep
  <2>1. c - Total(pendingBalance') = b - Total(pendingBalance)
    <3> HIDE DEF b, c, share
    <3> QED BY <1>2, <1>5, <1>6, <1>9, <1>12, <1>13
  <2> QED BY <2>1 DEF KeptStep
<1>15. RoyaltyTypes' /\ Royalties!Indexed'
  BY <1>1, <1>5, <1>11 DEF RoyaltyInv, RoyaltyTypes, Royalties!Indexed, Royalties!Positions
<1>16. Listed'
  <2>1. ASSUME NEW a \in Addr, recipientIndex[a] = 0 PROVE pendingBalance'[a] = 0
    <3>1. \A i \in S : key[i] # a
      <4>1. \A i \in S : recipientIndex[key[i]] = i /\ i # 0
        BY <1>3 DEF S, key, RoyaltyInv, Royalties!Indexed, Royalties!Positions
      <4> QED BY <2>1, <4>1
    <3>2. {j \in S : key[j] = a} = {}
      BY <3>1
    <3>3. PartOf(share, key, S, a) = 0
      <4> DEFINE f == [i \in {j \in S : key[j] = a} |-> share[i]]
      <4>1. f \in [{} -> Nat]
        BY <3>2
      <4>2. Total(f) = 0
        <5> HIDE DEF f
        <5> QED BY <4>1, TotalZero
      <4> QED BY <4>2 DEF PartOf
    <3>4. part[a] = 0
      BY <3>3 DEF part
    <3>5. pendingBalance[a] = 0
      BY <2>1 DEF RoyaltyInv, Listed
    <3> QED BY <1>10, <3>4, <3>5
  <2> QED BY <1>1, <2>1 DEF Listed
<1> QED BY <1>14, <1>15, <1>16 DEF RoyaltyInv

\* Every step of the royalty contract, and every step of another contract.
LEMMA RoyaltyStep ==
  ASSUME RoyaltyInv, [MCNext]_allVars
  PROVE  RoyaltyInv' /\ KeptStep
<1>1. CASE UNCHANGED <<royaltyBal, recipients, recipientIndex, pendingBalance>>
  <2>1. RoyaltyInv'
    BY <1>1 DEF RoyaltyInv, RoyaltyTypes, Listed, Royalties!Indexed, Royalties!Positions
  <2> QED BY <1>1, <2>1 DEF KeptStep
<1>2. ASSUME NEW a \in Creators, NEW m \in Amounts \cup {pendingBalance[a]},
             Royalties!Withdraw(a, m)
      PROVE  RoyaltyInv' /\ KeptStep
  <2>1. a \in Addr /\ pendingBalance \in [Addr -> Nat]
    BY DivisionAssumption DEF RoyaltyInv, RoyaltyTypes
  <2>2. /\ m > 0 /\ m <= pendingBalance[a] /\ Royalties!PayRecipient(a, m)
        /\ pendingBalance' = [pendingBalance EXCEPT ![a] = pendingBalance[a] - m]
        /\ UNCHANGED <<recipients, recipientIndex>>
    BY <1>2 DEF Royalties!Withdraw
  <2>3. m \in Nat
    BY <2>1, <2>2, ArgumentAssumption
  <2>4. royaltyBal' \in Balances /\ pendingBalance' \in [Addr -> Nat] /\ KeptStep
    BY <2>1, <2>2, <2>3, PayKeeps
  <2>5. RoyaltyTypes' /\ Royalties!Indexed'
    BY <2>2, <2>4 DEF RoyaltyInv, RoyaltyTypes, Royalties!Indexed, Royalties!Positions
  <2>6. Listed'
    <3>1. recipientIndex[a] # 0
      BY <2>1, <2>2, <2>3 DEF RoyaltyInv, Listed
    <3> QED BY <2>1, <2>2, <3>1 DEF RoyaltyInv, Listed
  <2> QED BY <2>4, <2>5, <2>6 DEF RoyaltyInv
<1>3. ASSUME NEW to \in Payers, Royalties!ExecuteEmergencyWithdrawal(to)
      PROVE  RoyaltyInv' /\ KeptStep
  <2> DEFINE b == royaltyBal[Royalty][Self]
  <2>1. /\ b > 0 /\ royaltyBal' = [royaltyBal EXCEPT ![Royalty] = Royalties!Transfer(@, Self, to, b)]
        /\ requestedAt # Royalties!NotRequested /\ now >= requestedAt + EMERGENCY_TIMELOCK
        /\ UNCHANGED <<recipients, recipientIndex, pendingBalance>>
    BY <1>3 DEF Royalties!ExecuteEmergencyWithdrawal
  <2>2. Self \in Account /\ to \in Account /\ Self # to /\ b \in Nat /\ b >= b
    BY AddrAssumption, DivisionAssumption DEF Account, RoyaltyInv, RoyaltyTypes, Balances
  <2>3. royaltyBal' \in Balances /\ royaltyBal'[Royalty][Self] = b - b
    BY <2>1, <2>2, RoyaltyTransfer DEF RoyaltyInv
  <2>4. RoyaltyInv'
    BY <2>1, <2>3 DEF RoyaltyInv, RoyaltyTypes, Listed, Royalties!Indexed, Royalties!Positions
  <2>5. Royalties!Drains
    BY <2>1, <2>2, <2>3 DEF Royalties!Drains
  <2> QED BY <2>4, <2>5 DEF KeptStep
<1>4. CASE Royalties!Next
  <2>1. CASE Royalties!Initialize \/ Royalties!RequestEmergencyWithdrawal
             \/ Royalties!CancelEmergencyWithdrawal \/ Royalties!Tick
    BY <1>1, <2>1 DEF Royalties!Initialize, Royalties!RequestEmergencyWithdrawal,
         Royalties!CancelEmergencyWithdrawal, Royalties!Tick
  <2>2. ASSUME NEW a \in Creators, NEW bps \in RoyaltyShares,
               Royalties!AddRecipient(a, bps) \/ Royalties!UpdateRecipientShare(a, bps)
        PROVE  RoyaltyInv' /\ KeptStep
    <3>1. a \in Addr /\ bps \in Int
      BY DivisionAssumption
    <3>2. CASE Royalties!UpdateRecipientShare(a, bps)
      BY <1>1, <3>2 DEF Royalties!UpdateRecipientShare
    <3> QED BY <2>2, <3>1, <3>2, AddRecipientKeeps
  <2>3. ASSUME NEW a \in Creators, Royalties!RemoveRecipient(a) PROVE RoyaltyInv' /\ KeptStep
    BY <2>3, DivisionAssumption, RemoveRecipientKeeps
  <2> QED BY <1>2, <1>3, <1>4, <2>1, <2>2, <2>3, DistributeKeeps DEF Royalties!Next
<1>5. CASE \/ RevenueStep(Next) \/ UNCHANGED allVars
           \/ contract = "subscription_dao" /\ Dao!Next
              /\ UNCHANGED <<contract, now, revenueVars, royaltyVars>>
  BY <1>1, <1>5 DEF RevenueStep, royaltyVars, allVars
<1> QED BY <1>4, <1>5 DEF MCNext

LEMMA RoyaltyInit ==
  ASSUME MCInit PROVE RoyaltyInv
<1>1. /\ royaltyBal = [t \in Token |-> [a \in Account |-> IF a = Self THEN 0 ELSE RoyaltyBalance]]
      /\ recipients = <<>> /\ recipientIndex = [a \in Addr |-> 0]
      /\ pendingBalance = [a \in Addr |-> 0]
  BY DEF MCInit, Royalties!Init, Royalties!Account, Account
<1>2. royaltyBal \in Balances
  BY <1>1, DivisionAssumption DEF Balances
<1> QED BY <1>1, <1>2 DEF RoyaltyInv, RoyaltyTypes, Listed, Royalties!Indexed, Royalties!Positions

\* remove_recipient and update_recipient_share find the recipient they are
\* called for: the stored index agrees with the list, after any sequence of
\* additions and removals.
THEOREM IndexAgrees == MCSpec => []RecipientsIndexed
<1>1. RoyaltyInv /\ [MCNext]_allVars => RoyaltyInv'
  BY RoyaltyStep
<1>2. RoyaltyInv => RecipientsIndexed
  BY DEF RoyaltyInv, RecipientsIndexed
<1> QED BY <1>1, <1>2, RoyaltyInit, PTL DEF MCSpec

\* Royalties leave the contract as pending balances that are paid or in the
\* timelocked emergency, and no unit of a distribution is lost.
THEOREM RoyaltiesAccounted == MCSpec => RoyaltiesKept
<1>1. RoyaltyInv /\ [MCNext]_allVars => RoyaltyInv'
  BY RoyaltyStep
<1>2. RoyaltyInv /\ [MCNext]_allVars =>
        [\/ Royalties!Drains
         \/ royaltyBal'[Royalty][Self] - Royalties!Total(pendingBalance') =
              royaltyBal[Royalty][Self] - Royalties!Total(pendingBalance)]_(Royalties!vars)
  BY RoyaltyStep, RoyaltyTotal DEF KeptStep
<1> QED BY <1>1, <1>2, RoyaltyInit, PTL DEF MCSpec, RoyaltiesKept, Royalties!Kept

-----------------------------------------------------------------------------
(***************************************************************************)
(* subscription_dao.  The list of the players that a period is divided     *)
(* among is as long as the set of those whose participation is recorded,   *)
(* and only they claim.                                                    *)
(***************************************************************************)
PoolRecord == [balance : Nat, eligible_participants : Seq(Addr), distributed : BOOLEAN]

DaoTypes ==
  /\ currentPeriodId \in 0 .. MaxPeriods
  /\ pool \in [Dao!Periods -> PoolRecord]
  /\ participation \in [Dao!Periods -> SUBSET Addr]
  /\ claims \in [Dao!Periods -> SUBSET Addr]
  /\ returned \in [Dao!Periods -> Nat]

\* The records of period p agree, and its claims returned a share each.
PeriodAgrees(p) ==
  /\ claims[p] \subseteq participation[p]
  /\ Len(pool[p].eligible_participants) = Cardinality(participation[p])
  /\ p > currentPeriodId => participation[p] = {}
  /\ pool[p].distributed => p < currentPeriodId
  /\ claims[p] # {} => pool[p].distributed
  /\ claims[p] = {} => returned[p] = 0
  /\ claims[p] # {} => returned[p] = Cardinality(claims[p]) * Dao!Share(p)

DaoInv == DaoTypes /\ \A p \in Dao!Periods : PeriodAgrees(p)

\* The records of a period that a step leaves alone still agree.
LEMMA PeriodStays ==
  ASSUME NEW p \in Dao!Periods, PeriodAgrees(p),
         pool'[p].eligible_participants = pool[p].eligible_participants,
         pool'[p].distributed = pool[p].distributed,
         pool[p].distributed => pool'[p].balance = pool[p].balance,
         participation'[p] = participation[p], claims'[p] = claims[p],
         returned'[p] = returned[p], currentPeriodId' = currentPeriodId
  PROVE  PeriodAgrees(p)'
BY DEF PeriodAgrees, Dao!Share

LEMMA OpensKeeps ==
  ASSUME DaoInv, currentPeriodId < MaxPeriods,
         currentPeriodId' = currentPeriodId + 1,
         UNCHANGED <<participation, claims, returned>>,
         pool' \in [Dao!Periods -> PoolRecord],
         \A p \in Dao!Periods :
           /\ p = currentPeriodId + 1 => pool'[p] = Dao!NoPool
           /\ p # currentPeriodId + 1 =>
                /\ pool'[p].eligible_participants = pool[p].eligible_participants
                /\ pool'[p].balance = pool[p].balance
                /\ pool'[p].distributed <=> (pool[p].distributed \/ p = currentPeriodId)
  PROVE  DaoInv'
<1>1. currentPeriodId \in Nat /\ MaxPeriods \in Nat
  BY DivisionAssumption DEF DaoInv, DaoTypes
<1>2. DaoTypes'
  BY <1>1 DEF DaoInv, DaoTypes
<1>3. ASSUME NEW p \in Dao!Periods PROVE PeriodAgrees(p)'
  <2>1. PeriodAgrees(p) /\ p \in Nat
    BY DEF DaoInv, Dao!Periods
  <2>2. /\ p > currentPeriodId + 1 => p > currentPeriodId
        /\ p < currentPeriodId => p < currentPeriodId + 1
        /\ p = currentPeriodId => p < currentPeriodId + 1
    BY <1>1, <2>1
  <2>3. CASE p = currentPeriodId + 1
    <3>1. participation[p] = {} /\ pool'[p] = Dao!NoPool /\ claims[p] = {} /\ returned[p] = 0
      BY <1>1, <2>1, <2>3 DEF PeriodAgrees
    <3>2. Cardinality({}) = 0
      BY FS_EmptySet
    <3>3. pool'[p].eligible_participants = <<>> /\ ~pool'[p].distributed
      BY <3>1 DEF Dao!NoPool
    <3> QED BY <1>1, <2>1, <2>3, <3>1, <3>2, <3>3 DEF PeriodAgrees
  <2>4. CASE p # currentPeriodId + 1
    <3>1. /\ pool'[p].eligible_participants = pool[p].eligible_participants
          /\ pool'[p].balance = pool[p].balance
          /\ pool'[p].distributed <=> (pool[p].distributed \/ p = currentPeriodId)
      BY <2>4
    <3> QED BY <2>1, <2>2, <3>1 DEF PeriodAgrees, Dao!Share
  <2> QED BY <2>3, <2>4
<1> QED BY <1>2, <1>3 DEF DaoInv

LEMMA RecordKeeps ==
  ASSUME DaoInv, NEW player \in Players, Dao!RecordParticipation(player)
  PROVE  DaoInv'
<1> DEFINE c == currentPeriodId
           e == pool[c].eligible_participants
<1>1. /\ c # 0 /\ player \notin participation[c] /\ ~pool[c].distributed
      /\ participation' = [participation EXCEPT ![c] = @ \cup {player}]
      /\ pool' = [pool EXCEPT ![c].eligible_participants = Append(e, player)]
      /\ UNCHANGED <<currentPeriodId, claims, returned>>
  BY DEF Dao!RecordParticipation
<1>2. /\ c \in Dao!Periods /\ player \in Addr /\ pool[c] \in PoolRecord
      /\ pool \in [Dao!Periods -> PoolRecord] /\ participation \in [Dao!Periods -> SUBSET Addr]
      /\ c \in Nat
  BY <1>1, DivisionAssumption DEF DaoInv, DaoTypes, Dao!Periods
<1>3. e \in Seq(Addr)
  BY <1>2 DEF PoolRecord
<1>4. Append(e, player) \in Seq(Addr) /\ Len(Append(e, player)) = Len(e) + 1
  BY <1>2, <1>3
<1> DEFINE q == [pool[c] EXCEPT !.eligible_participants = Append(e, player)]
<1>5. /\ q \in PoolRecord /\ q.eligible_participants = Append(e, player)
      /\ q.distributed = pool[c].distributed
  <2>1. pool[c] \in PoolRecord
    BY <1>2
  <2> HIDE DEF e
  <2> QED BY <1>4, <2>1 DEF PoolRecord
<1>6. pool' = [pool EXCEPT ![c] = q]
  BY <1>1
<1> HIDE DEF q
<1>7. DaoTypes'
  BY <1>1, <1>2, <1>5, <1>6 DEF DaoInv, DaoTypes
<1>8. ASSUME NEW p \in Dao!Periods PROVE PeriodAgrees(p)'
  <2>1. PeriodAgrees(p)
    BY DEF DaoInv
  <2>2. CASE p # c
    <3>1. pool'[p] = pool[p] /\ participation'[p] = participation[p]
      BY <1>1, <1>2, <1>6, <2>2
    <3> QED BY <1>1, <2>1, <3>1, PeriodStays
  <2>3. CASE p = c
    <3>1. IsFiniteSet(participation[c])
      BY <1>2, AddrAssumption, FS_Subset
    <3>2. Cardinality(participation[c] \cup {player}) = Cardinality(participation[c]) + 1
      BY <1>1, <3>1, FS_AddElement
    <3>3. pool'[c] = q /\ participation'[c] = participation[c] \cup {player}
      BY <1>1, <1>2, <1>6
    <3>4. Len(e) = Cardinality(participation[c])
      BY <2>1, <2>3 DEF PeriodAgrees
    <3>5. Len(pool'[c].eligible_participants) = Cardinality(participation'[c])
      BY <1>4, <1>5, <3>2, <3>3, <3>4
    <3>6. /\ claims'[c] \subseteq participation'[c] /\ ~(c > currentPeriodId')
          /\ claims'[c] = {} /\ returned'[c] = 0 /\ ~pool'[c].distributed
      BY <1>1, <1>2, <1>5, <2>1, <2>3, <3>3 DEF PeriodAgrees
    <3> QED BY <2>3, <3>5, <3>6 DEF PeriodAgrees
  <2> QED BY <2>2, <2>3
<1> QED BY <1>7, <1>8 DEF DaoInv

LEMMA DaoStep ==
  ASSUME DaoInv, [MCNext]_allVars
  PROVE  DaoInv'
<1>1. CASE UNCHANGED <<currentPeriodId, pool, participation, claims, returned>>
  BY <1>1 DEF DaoInv, DaoTypes, PeriodAgrees, Dao!Share
<1>2. /\ currentPeriodId \in 0 .. MaxPeriods /\ MaxPeriods \in Nat
      /\ pool \in [Dao!Periods -> PoolRecord]
      /\ participation \in [Dao!Periods -> SUBSET Addr]
      /\ claims \in [Dao!Periods -> SUBSET Addr] /\ returned \in [Dao!Periods -> Nat]
      /\ Dao!Periods = 1 .. MaxPeriods
  BY DivisionAssumption DEF DaoInv, DaoTypes, Dao!Periods
<1>3. Dao!NoPool \in PoolRecord
  BY DEF Dao!NoPool, PoolRecord
<1>4. ASSUME Dao!Initialize PROVE DaoInv'
  <2>1. /\ currentPeriodId < MaxPeriods /\ currentPeriodId' = currentPeriodId + 1
        /\ pool' = [pool EXCEPT ![1] = Dao!NoPool] /\ UNCHANGED <<participation, claims, returned>>
        /\ currentPeriodId + 1 = 1
    BY <1>2, <1>4, DivisionAssumption DEF Dao!Initialize
  <2>2. /\ pool' \in [Dao!Periods -> PoolRecord]
        /\ \A p \in Dao!Periods :
             /\ p = currentPeriodId + 1 => pool'[p] = Dao!NoPool
             /\ p # currentPeriodId + 1 =>
                  /\ pool'[p].eligible_participants = pool[p].eligible_participants
                  /\ pool'[p].balance = pool[p].balance
                  /\ pool'[p].distributed <=> (pool[p].distributed \/ p = currentPeriodId)
    BY <1>2, <1>3, <1>4, <2>1 DEF Dao!Initialize
  <2> QED BY <2>1, <2>2, OpensKeeps
<1>5. ASSUME NEW m \in Amounts, Dao!DepositRevenue(m) PROVE DaoInv'
  <2> DEFINE c == currentPeriodId
             q == [pool[c] EXCEPT !.balance = @ + m]
  <2>1. /\ c \in Dao!Periods /\ m \in Nat /\ pool' = [pool EXCEPT ![c] = q]
        /\ ~pool[c].distributed
        /\ UNCHANGED <<currentPeriodId, participation, claims, returned>>
    BY <1>2, <1>5, ArgumentAssumption DEF Dao!DepositRevenue
  <2>2. /\ q \in PoolRecord /\ q.eligible_participants = pool[c].eligible_participants
        /\ q.distributed = pool[c].distributed
    <3>1. pool[c] \in PoolRecord
      BY <1>2, <2>1
    <3> QED BY <2>1, <3>1 DEF PoolRecord
  <2> HIDE DEF q
  <2>3. DaoTypes'
    BY <1>2, <2>1, <2>2 DEF DaoTypes
  <2>4. ASSUME NEW p \in Dao!Periods PROVE PeriodAgrees(p)'
    <3>1. /\ pool'[p].eligible_participants = pool[p].eligible_participants
          /\ pool'[p].distributed = pool[p].distributed
          /\ p # c => pool'[p].balance = pool[p].balance
      BY <1>2, <2>1, <2>2
    <3> QED BY <2>1, <3>1, PeriodStays DEF DaoInv
  <2> QED BY <2>3, <2>4 DEF DaoInv
<1>6. ASSUME Dao!ClosePeriod PROVE DaoInv'
  <2> DEFINE c == currentPeriodId
             q == [pool[c] EXCEPT !.distributed = TRUE]
  <2>1. /\ c \in Dao!Periods /\ c < MaxPeriods /\ currentPeriodId' = c + 1
        /\ c + 1 \in Dao!Periods /\ c + 1 # c
        /\ pool' = [pool EXCEPT ![c].distributed = TRUE, ![c + 1] = Dao!NoPool]
        /\ UNCHANGED <<participation, claims, returned>>
    BY <1>2, <1>6 DEF Dao!ClosePeriod
  <2>2. /\ q \in PoolRecord /\ q.eligible_participants = pool[c].eligible_participants
        /\ q.balance = pool[c].balance /\ q.distributed
    <3>1. pool[c] \in PoolRecord
      BY <1>2, <2>1
    <3> QED BY <3>1 DEF PoolRecord
  <2>3. pool' = [[pool EXCEPT ![c] = q] EXCEPT ![c + 1] = Dao!NoPool]
    BY <2>1
  <2> HIDE DEF q
  <2>4. /\ pool' \in [Dao!Periods -> PoolRecord]
        /\ \A p \in Dao!Periods :
             /\ p = currentPeriodId + 1 => pool'[p] = Dao!NoPool
             /\ p # currentPeriodId + 1 =>
                  /\ pool'[p].eligible_participants = pool[p].eligible_participants
                  /\ pool'[p].balance = pool[p].balance
                  /\ pool'[p].distributed <=> (pool[p].distributed \/ p = currentPeriodId)
    BY <1>2, <1>3, <2>1, <2>2, <2>3
  <2> QED BY <2>1, <2>4, OpensKeeps
<1>7. ASSUME NEW p \in Dao!Periods, NEW player \in Players, Dao!ClaimPeriodShare(p, player)
      PROVE  DaoInv'
  <2> DEFINE n == Len(pool[p].eligible_participants)
             x == Dao!Share(p)
             k == Cardinality(claims[p])
  <2>1. /\ player \in participation[p] /\ claims' = [claims EXCEPT ![p] = @ \cup {player}]
        /\ returned' = [returned EXCEPT ![p] = @ + x]
        /\ player \notin claims[p] /\ pool[p].distributed
        /\ UNCHANGED <<currentPeriodId, pool, participation>> /\ player \in Addr
    BY <1>7, DivisionAssumption DEF Dao!ClaimPeriodShare
  <2>2. /\ IsFiniteSet(participation[p]) /\ IsFiniteSet(claims[p]) /\ PeriodAgrees(p)
        /\ returned[p] \in Nat
    BY <1>2, AddrAssumption, FS_Subset DEF DaoInv
  <2>3. x \in Nat
    <3>1. n \in Nat \ {0}
      BY <2>1, <2>2, FS_EmptySet, FS_CardinalityType DEF PeriodAgrees
    <3>2. pool[p].balance \in Nat /\ x = pool[p].balance \div n
      BY <1>2 DEF PoolRecord, Dao!Share
    <3> HIDE DEF n, x
    <3> QED BY <3>1, <3>2
  <2>4. Cardinality(claims[p] \cup {player}) = k + 1 /\ k \in Nat /\ (claims[p] = {} => k = 0)
    BY <2>1, <2>2, FS_AddElement, FS_CardinalityType, FS_EmptySet
  <2>5. returned[p] = k * x
    <3>1. /\ claims[p] = {} => returned[p] = 0
          /\ claims[p] # {} => returned[p] = k * x
      BY <2>2 DEF PeriodAgrees
    <3>2. claims[p] = {} => k = 0
      BY <2>4
    <3> HIDE DEF k, x
    <3>3. 0 * x = 0
      BY <2>3
    <3> QED BY <3>1, <3>2, <3>3
  <2>6. Dao!Share(p)' = x
    BY <2>1 DEF Dao!Share
  <2> HIDE DEF n, x, k
  <2>7. returned[p] + x = (k + 1) * x /\ returned[p] + x \in Nat
    BY <2>2, <2>3, <2>4, <2>5
  <2>8. DaoTypes'
    BY <1>2, <2>1, <2>7 DEF DaoTypes
  <2>9. ASSUME NEW s \in Dao!Periods PROVE PeriodAgrees(s)'
    <3>1. CASE s # p
      BY <1>2, <2>1, <3>1, PeriodStays DEF DaoInv
    <3>2. CASE s = p
      <4>1. claims'[p] = claims[p] \cup {player} /\ returned'[p] = (k + 1) * x
        BY <1>2, <2>1, <2>7
      <4> QED BY <2>1, <2>2, <2>4, <2>6, <3>2, <4>1 DEF PeriodAgrees
    <3> QED BY <3>1, <3>2
  <2> QED BY <2>8, <2>9 DEF DaoInv
<1>8. CASE Dao!Next
  <2>1. CASE \E from, to \in Players : Dao!HandOver(from, to)
    BY <1>1, <2>1 DEF Dao!HandOver
  <2> QED BY <1>4, <1>5, <1>6, <1>7, <1>8, <2>1, RecordKeeps DEF Dao!Next
<1>9. CASE \/ RevenueStep(Next) \/ UNCHANGED allVars
           \/ contract = "royalty_distribution" /\ Royalties!Next
              /\ UNCHANGED <<contract, revenueVars, daoVars>>
  BY <1>1, <1>9 DEF RevenueStep, daoVars, allVars
<1> QED BY <1>8, <1>9 DEF MCNext

LEMMA DaoInit ==
  ASSUME MCInit PROVE DaoInv
<1>1. /\ currentPeriodId = 0 /\ pool = [p \in Dao!Periods |-> Dao!NoPool]
      /\ participation = [p \in Dao!Periods |-> {}] /\ claims = [p \in Dao!Periods |-> {}]
      /\ returned = [p \in Dao!Periods |-> 0]
  BY DEF MCInit, Dao!Init
<1>2. /\ Dao!NoPool \in PoolRecord /\ Dao!NoPool.eligible_participants = <<>>
      /\ Dao!NoPool.distributed = FALSE
  BY DEF Dao!NoPool, PoolRecord
<1>3. DaoTypes
  BY <1>1, <1>2, DivisionAssumption DEF DaoTypes
<1>4. Cardinality({}) = 0
  BY FS_EmptySet
<1> QED BY <1>1, <1>2, <1>3, <1>4 DEF DaoInv, PeriodAgrees

\* subscription_dao: what the claims of a period returned and the shares that
\* may still be claimed of it are within the revenue recorded for the period,
\* whoever takes part and claims in which order and however the governance
\* tokens go around.
THEOREM SharesCovered == MCSpec => []ClaimsCovered
<1>1. DaoInv /\ [MCNext]_allVars => DaoInv'
  BY DaoStep
<1>2. ASSUME DaoInv, NEW p \in Dao!Periods, pool[p].eligible_participants # <<>>
      PROVE  returned[p] + Dao!Cardinality(participation[p] \ claims[p]) * Dao!Share(p)
               <= pool[p].balance
  <2> DEFINE n == Len(pool[p].eligible_participants)
             k == Cardinality(claims[p])
             b == pool[p].balance
             s == b \div n
             rest == participation[p] \ claims[p]
  <2>1. Dao!Cardinality(rest) = Cardinality(rest)
    BY Zenon DEF Dao!Cardinality, Cardinality
  <2>2. Dao!Share(p) = s
    BY DEF Dao!Share
  <2>3. /\ b \in Nat /\ participation[p] \subseteq Addr /\ PeriodAgrees(p)
        /\ pool[p].eligible_participants \in Seq(Addr)
    BY <1>2 DEF DaoInv, DaoTypes, PoolRecord
  <2>4. IsFiniteSet(participation[p]) /\ claims[p] \subseteq participation[p] /\ n = Cardinality(participation[p])
    BY <1>2, <2>3, AddrAssumption, FS_Subset DEF PeriodAgrees
  <2>5. k \in Nat /\ n \in Nat /\ k <= n /\ n # 0
    <3>1. n # 0
      BY <1>2, <2>3
    <3> QED BY <2>4, <3>1, FS_Subset, FS_CardinalityType
  <2>6. Cardinality(rest) = n - k
    <3>1. participation[p] \cap claims[p] = claims[p]
      BY <2>4
    <3>2. Cardinality(rest) = Cardinality(participation[p]) - Cardinality(participation[p] \cap claims[p])
      BY <2>4, FS_Difference
    <3> HIDE DEF n
    <3> QED BY <2>4, <3>1, <3>2
  <2>7. s \in Nat /\ n * s <= b
    <3> HIDE DEF n, b
    <3> QED BY <2>3, <2>5
  <2>8. returned[p] = k * s
    <3>1. claims[p] = {} => k = 0
      BY FS_EmptySet
    <3>2. /\ claims[p] = {} => returned[p] = 0
          /\ claims[p] # {} => returned[p] = k * s
      BY <2>2, <2>3 DEF PeriodAgrees
    <3> HIDE DEF k, s
    <3> QED BY <2>7, <3>1, <3>2
  <2> HIDE DEF n, k, b, s, rest
  <2>9. k * s + (n - k) * s = n * s
    BY <2>5, <2>7
  <2> QED BY <2>1, <2>2, <2>6, <2>7, <2>8, <2>9 DEF b, rest
<1>3. DaoInv => ClaimsCovered
  BY <1>2 DEF ClaimsCovered, Dao!ClaimsCovered
<1> QED BY <1>1, <1>3, DaoInit, PTL DEF MCSpec

=============================================================================
