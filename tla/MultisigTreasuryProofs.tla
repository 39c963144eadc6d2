----------------------- MODULE MultisigTreasuryProofs -----------------------
(***************************************************************************)
(* Theorems about the treasury: who spends, that decisions stand, that an  *)
(* owner and a quorum remain and that its records agree, for any accounts, *)
(* thresholds and proposals.  At the end, that decisions stand in whatever *)
(* implements Decisions, and that the governance contract does.            *)
(***************************************************************************)
EXTENDS MultisigTreasury, Sequences, FiniteSetTheorems, TLAPS

\* The inductive invariant: AlwaysAnOwner rests on the agreement of list and
\* records, because the contract counts the owners it finds through the list.
Governed ==
  /\ role \in [Addr -> Role \cup {NoRole}]
  /\ ListedMembers
  /\ ~initialized => members = {}
  /\ AlwaysAnOwner

\* More than one owner means that there is one besides any given account.
LEMMA AnotherOwner ==
  ASSUME Governed, NEW x, Cardinality(Owners) > 1
  PROVE  \E o \in Addr : o # x /\ role[o] = "Owner"
<1>1. Owners \subseteq Addr /\ \A o \in Owners : role[o] = "Owner"
  BY DEF Owners, Governed, ListedMembers
<1>2. SUFFICES ASSUME \A o \in Owners : o = x PROVE FALSE
  BY <1>1
<1>3. Owners \subseteq {x}
  BY <1>2
<1>4. IsFiniteSet({x}) /\ Cardinality({x}) = 1
  BY FS_Singleton
<1>5. Cardinality(Owners) <= 1 /\ Cardinality(Owners) \in Nat
  BY <1>3, <1>4, FS_Subset, FS_CardinalityType
<1> QED BY <1>5

\* A change of the members, called directly or by an executed proposal.
LEMMA AddMemberGoverned ==
  ASSUME Governed, NEW c \in Addr, NEW a \in Addr, NEW r \in Role,
         AddMember(c, a, r), initialized' = initialized
  PROVE  Governed'
<1>1. PICK o \in Addr : role[o] # NoRole /\ (initialized => role[o] = "Owner")
  BY DEF Governed, AlwaysAnOwner, AddMember, NoRole
<1>2. /\ role' = [role EXCEPT ![a] = r] /\ members' = members \cup {a}
      /\ role[a] = NoRole /\ role[c] # NoRole /\ r # NoRole
  BY DEF AddMember, NoRole, Role
<1>3. o # a
  BY <1>1, <1>2
<1>4. initialized
  BY <1>2 DEF Governed, ListedMembers
<1>5. role'[o] = "Owner"
  BY <1>1, <1>2, <1>3, <1>4 DEF Governed
<1>6. role' \in [Addr -> Role \cup {NoRole}]
  BY <1>2 DEF Governed
<1>7. ListedMembers'
  BY <1>2 DEF Governed, ListedMembers
<1> QED BY <1>4, <1>5, <1>6, <1>7 DEF Governed, AlwaysAnOwner

\* remove_member leaves an owner: the caller, another owner, or the same one.
LEMMA RemoveMemberGoverned ==
  ASSUME Governed, NEW c \in Addr, NEW a \in Addr,
         RemoveMember(c, a), initialized' = initialized
  PROVE  Governed'
<1>1. /\ role' = [role EXCEPT ![a] = NoRole] /\ members' = members \ {a}
      /\ role[c] # NoRole /\ role[a] # NoRole
  BY DEF RemoveMember
<1>2. initialized
  BY <1>1 DEF Governed, ListedMembers
<1>3. \E o \in Addr : o # a /\ role[o] = "Owner"
  <2>1. CASE c = a /\ role[a] = "Owner"
    BY <2>1, AnotherOwner DEF RemoveMember
  <2>2. CASE c # a /\ role[c] = "Owner"
    BY <2>2
  <2>3. CASE role[a] # "Owner"
    BY <1>2, <2>3 DEF Governed, AlwaysAnOwner
  <2>4. CASE role[c] # "Owner"
    BY <1>2, <2>4 DEF RemoveMember, Governed, AlwaysAnOwner
  <2> QED BY <2>1, <2>2, <2>3, <2>4
<1>4. \E o \in Addr : role'[o] = "Owner"
  BY <1>1, <1>3 DEF Governed
<1>5. role' \in [Addr -> Role \cup {NoRole}]
  BY <1>1 DEF Governed
<1>6. ListedMembers'
  BY <1>1 DEF Governed, ListedMembers
<1> QED BY <1>2, <1>4, <1>5, <1>6 DEF Governed, AlwaysAnOwner

\* update_member_role leaves an owner.
LEMMA UpdateRoleGoverned ==
  ASSUME Governed, NEW c \in Addr, NEW a \in Addr, NEW r \in Role,
         UpdateMemberRole(c, a, r), initialized' = initialized
  PROVE  Governed'
<1>1. /\ role' = [role EXCEPT ![a] = r] /\ members' = members
      /\ role[c] = "Owner" /\ role[a] # NoRole /\ r # NoRole
  BY DEF UpdateMemberRole, NoRole, Role
<1>2. initialized
  BY <1>1 DEF Governed, ListedMembers, NoRole
<1>3. \E o \in Addr : role'[o] = "Owner"
  <2>1. CASE r = "Owner"
    BY <1>1, <2>1 DEF Governed
  <2>2. CASE r # "Owner" /\ role[a] = "Owner"
    <3>1. PICK o \in Addr : o # a /\ role[o] = "Owner"
      BY <2>2, AnotherOwner DEF UpdateMemberRole
    <3> QED BY <1>1, <3>1 DEF Governed
  <2>3. CASE role[a] # "Owner"
    <3>1. c # a
      BY <1>1, <2>3
    <3> QED BY <1>1, <3>1 DEF Governed
  <2> QED BY <2>1, <2>2, <2>3
<1>4. role' \in [Addr -> Role \cup {NoRole}]
  BY <1>1 DEF Governed
<1>5. ListedMembers'
  BY <1>1 DEF Governed, ListedMembers
<1> QED BY <1>2, <1>3, <1>4, <1>5 DEF Governed, AlwaysAnOwner

\* The proposals of the treasury name accounts and roles.
LEMMA EffectGoverned ==
  ASSUME Governed, NEW e \in Addr, NEW p \in Proposal, Effect(e, p),
         initialized' = initialized
  PROVE  Governed'
<1>1. ASSUME UNCHANGED membership PROVE Governed'
  BY <1>1 DEF membership, Governed, ListedMembers, AlwaysAnOwner
<1>2. ASSUME p.type = "SignerManagement" PROVE p.target \in Addr /\ p.role \in Role
  BY <1>2 DEF Proposal
<1> QED
  BY <1>1, <1>2, AddMemberGoverned, RemoveMemberGoverned, UpdateRoleGoverned DEF Effect

-----------------------------------------------------------------------------
\* A stored transaction changes only in its signatures and its status.
LEMMA SignedType ==
  ASSUME NEW t \in Transaction, NEW a \in Addr, NEW n \in Nat, NEW st \in TransactionStatus
  PROVE  /\ [t EXCEPT !.signed = @ \cup {a}, !.sigs = n, !.status = st] \in Transaction
         /\ [t EXCEPT !.signed = @ \cup {a}, !.sigs = n, !.status = st].signed = t.signed \cup {a}
         /\ [t EXCEPT !.signed = @ \cup {a}, !.sigs = n, !.status = st].sigs = n
         /\ [t EXCEPT !.signed = @ \cup {a}, !.sigs = n, !.status = st].status = st
         /\ [t EXCEPT !.signed = @ \cup {a}, !.sigs = n, !.status = st].what = t.what
BY DEF Transaction

\* A stored transaction of which only the status is written.
LEMMA StatusType ==
  ASSUME NEW t \in Transaction, NEW st \in TransactionStatus
  PROVE  /\ [t EXCEPT !.status = st] \in Transaction
         /\ [t EXCEPT !.status = st].signed = t.signed
         /\ [t EXCEPT !.status = st].sigs = t.sigs
         /\ [t EXCEPT !.status = st].status = st
         /\ [t EXCEPT !.status = st].what = t.what
BY DEF Transaction

\* A record of a transaction is not the absence of one.
LEMMA StatusOfTx ==
  ASSUME NEW t \in Transaction \cup {NoTx}, t.status \in TransactionStatus
  PROVE  t \in Transaction
BY DEF NoTx, TransactionStatus

\* What the contract keeps about transactions: signatures are counted, and
\* pending and history are the transactions of the matching status.
Booked ==
  /\ nextTx \in 0 .. MaxTx
  /\ tx \in [TxIds -> Transaction \cup {NoTx}]
  /\ \A id \in TxIds : id > nextTx => tx[id] = NoTx
  /\ \A id \in TxIds : tx[id] \in Transaction => tx[id].sigs = Cardinality(tx[id].signed)
  /\ PendingSlots

\* How tx may change in a step.
TxStep(id, u) ==
  /\ tx' = [tx EXCEPT ![id] = u]
  /\ u \in Transaction
  /\ u.sigs = Cardinality(u.signed)
  /\ nextTx' \in 0 .. MaxTx /\ nextTx' >= nextTx /\ id <= nextTx'
  /\ pending' = IF u.status \in {"Pending", "Approved"} THEN pending \cup {id}
                                                        ELSE pending \ {id}
  /\ history' = IF u.status = "Executed" THEN history \cup {id} ELSE history \ {id}

\* Writing one transaction and filing it by its status keeps the books in order.
LEMMA TxStepBooked ==
  ASSUME Booked, NEW id \in TxIds, NEW u, TxStep(id, u)
  PROVE  Booked'
<1>1. /\ tx' \in [TxIds -> Transaction \cup {NoTx}] /\ tx'[id] = u
      /\ \A j \in TxIds \ {id} : tx'[j] = tx[j]
  BY DEF Booked, TxStep
<1>2. \A j \in TxIds : j > nextTx' => tx'[j] = NoTx
  BY <1>1 DEF Booked, TxStep, TxIds
<1>3. \A j \in TxIds : tx'[j] \in Transaction => tx'[j].sigs = Cardinality(tx'[j].signed)
  BY <1>1 DEF Booked, TxStep
<1>4. PendingSlots'
  BY <1>1 DEF Booked, TxStep, PendingSlots
<1> QED BY <1>1, <1>2, <1>3, <1>4 DEF Booked, TxStep

\* The inductive invariant of the module.
IInv ==
  /\ TypeOK
  /\ Governed
  /\ Booked
  /\ initialized => config \in Config
  /\ ~initialized => nextTx = 0

\* A proposal writes a new transaction without signatures.
LEMMA ProposeStep ==
  ASSUME IInv, NEW a \in Addr, NEW p \in Proposals, Propose(a, p)
  PROVE  \E id \in TxIds, u \in Transaction : TxStep(id, u) /\ u.signed = {} /\ tx[id] = NoTx
<1> DEFINE id == nextTx + 1
           u == [proposer |-> a, what |-> p, status |-> "Pending",
                 expires_at |-> now + config.proposal_timeout,
                 required_role |-> RequiredRole(p), signed |-> {}, sigs |-> 0]
<1>1. p \in Proposal /\ MaxTx \in Nat
  BY TreasuryAssumption
<1>2. nextTx \in Nat /\ nextTx < MaxTx /\ nextTx <= MaxTx
  BY <1>1 DEF IInv, Booked, Propose
<1>3. id \in TxIds /\ id > nextTx /\ id \in 0 .. MaxTx
  BY <1>1, <1>2 DEF TxIds
<1>4. tx[id] = NoTx
  BY <1>3 DEF IInv, Booked
<1>5. now + config.proposal_timeout \in Nat
  BY DEF IInv, TypeOK, Propose, Config
<1>6. u \in Transaction
  BY <1>1, <1>5 DEF Transaction, RequiredRole, TransactionStatus, Role
<1>7. u.status = "Pending" /\ u.signed = {} /\ u.sigs = Cardinality(u.signed)
  BY FS_EmptySet
<1>8. tx' = [tx EXCEPT ![id] = u] /\ nextTx' = id /\ pending' = pending \cup {id}
      /\ history' = history
  BY DEF Propose
<1> HIDE DEF id, u
<1>9. id \notin history
  BY <1>3, <1>4 DEF IInv, Booked, PendingSlots, NoTx
<1>10. TxStep(id, u)
  BY <1>2, <1>3, <1>6, <1>7, <1>8, <1>9 DEF TxStep
<1> QED BY <1>3, <1>4, <1>6, <1>7, <1>10

\* A signature is added to a pending transaction, which is approved only when its
\* signers are as many as the threshold.
LEMMA SignStep ==
  ASSUME IInv, NEW a \in Addr, NEW id \in TxIds, SignTransaction(a, id)
  PROVE  \E u \in Transaction :
           /\ TxStep(id, u) /\ tx[id] \in Transaction /\ tx[id].status = "Pending"
           /\ u.signed = tx[id].signed \cup {a} /\ u.what = tx[id].what
           /\ u.status \in {"Pending", "Approved"}
           /\ u.status = "Approved" => Cardinality(u.signed) >= config.threshold
<1> DEFINE t == tx[id]
           st == IF t.sigs + 1 >= config.threshold THEN "Approved" ELSE "Pending"
           u == [t EXCEPT !.signed = @ \cup {a}, !.sigs = t.sigs + 1, !.status = st]
<1>1. t \in Transaction /\ t.status = "Pending" /\ a \notin t.signed
  BY StatusOfTx DEF IInv, Booked, SignTransaction, TransactionStatus
<1>2. t.sigs = Cardinality(t.signed) /\ t.sigs \in Nat /\ t.signed \subseteq Addr
  BY <1>1 DEF IInv, Booked, Transaction
<1>3. IsFiniteSet(t.signed)
  BY <1>2, TreasuryAssumption, FS_Subset
<1>4. Cardinality(t.signed \cup {a}) = t.sigs + 1
  BY <1>1, <1>2, <1>3, FS_AddElement
<1>5. tx' = [tx EXCEPT ![id] = u]
  BY DEF SignTransaction
<1>6. st \in {"Pending", "Approved"} /\ st \in TransactionStatus
      /\ (st = "Approved" => t.sigs + 1 >= config.threshold)
  BY DEF TransactionStatus
<1>7. UNCHANGED <<nextTx, pending, history>>
  BY DEF SignTransaction
<1>8. id \in pending /\ id \notin history
  BY <1>1 DEF IInv, Booked, PendingSlots
<1>9. id <= nextTx /\ nextTx \in 0 .. MaxTx
  <2>1. tx[id] # NoTx
    BY <1>1 DEF NoTx, TransactionStatus
  <2> QED BY <2>1, TreasuryAssumption DEF IInv, Booked, TxIds
<1>10. t.sigs + 1 \in Nat
  BY <1>2
<1> HIDE DEF st, t
<1>11. u \in Transaction /\ u.signed = t.signed \cup {a} /\ u.sigs = t.sigs + 1
       /\ u.status = st /\ u.what = t.what
  BY <1>1, <1>6, <1>10 DEF Transaction
<1> HIDE DEF u
<1>12. TxStep(id, u)
  BY <1>4, <1>5, <1>6, <1>7, <1>8, <1>9, <1>11, TreasuryAssumption DEF TxStep
<1> QED BY <1>1, <1>4, <1>6, <1>11, <1>12 DEF t

\* Execution starts from an approved transaction or a pending one with enough
\* signatures, and changes its status only.
LEMMA ExecuteStep ==
  ASSUME IInv, NEW a \in Addr, NEW id \in TxIds, ExecuteTransaction(a, id)
  PROVE  \E u \in Transaction :
           /\ TxStep(id, u) /\ tx[id] \in Transaction
           /\ tx[id].status \in {"Pending", "Approved"}
           /\ tx[id].status = "Pending" => Cardinality(u.signed) >= config.threshold
           /\ u.signed = tx[id].signed /\ u.what = tx[id].what /\ u.status = "Executed"
<1> DEFINE t == tx[id]
           u == [t EXCEPT !.status = "Executed"]
<1>1. t \in Transaction /\ t.status \in {"Pending", "Approved"}
      /\ (t.status = "Pending" => t.sigs >= config.threshold)
  BY StatusOfTx DEF IInv, Booked, ExecuteTransaction, Executable, TransactionStatus
<1>2. t.sigs = Cardinality(t.signed)
  BY <1>1 DEF IInv, Booked
<1>3. tx' = [tx EXCEPT ![id] = u] /\ pending' = pending \ {id} /\ history' = history \cup {id}
      /\ nextTx' = nextTx
  BY DEF ExecuteTransaction
<1>4. id <= nextTx /\ nextTx \in 0 .. MaxTx
  <2>1. tx[id] # NoTx
    BY <1>1 DEF NoTx
  <2> QED BY <2>1, TreasuryAssumption DEF IInv, Booked, TxIds
<1>5. u \in Transaction /\ u.signed = t.signed /\ u.sigs = t.sigs /\ u.status = "Executed"
      /\ u.what = t.what
  BY <1>1, StatusType DEF TransactionStatus
<1> HIDE DEF u, t
<1>6. TxStep(id, u)
  BY <1>2, <1>3, <1>4, <1>5, TreasuryAssumption DEF TxStep
<1> QED BY <1>1, <1>2, <1>5, <1>6 DEF t

\* Only a pending transaction is rejected.
LEMMA RejectStep ==
  ASSUME IInv, NEW id \in TxIds, RejectTransaction(id)
  PROVE  \E u \in Transaction :
           /\ TxStep(id, u) /\ tx[id] \in Transaction /\ tx[id].status = "Pending"
           /\ u.signed = tx[id].signed /\ u.what = tx[id].what /\ u.status = "Rejected"
<1> DEFINE t == tx[id]
           u == [t EXCEPT !.status = "Rejected"]
<1>1. t \in Transaction /\ t.status = "Pending"
  BY StatusOfTx DEF IInv, Booked, RejectTransaction, TransactionStatus
<1>2. t.sigs = Cardinality(t.signed)
  BY <1>1 DEF IInv, Booked
<1>3. tx' = [tx EXCEPT ![id] = u] /\ pending' = pending \ {id} /\ history' = history
      /\ nextTx' = nextTx
  BY DEF RejectTransaction
<1>4. id <= nextTx /\ nextTx \in 0 .. MaxTx /\ id \notin history
  <2>1. tx[id] # NoTx
    BY <1>1 DEF NoTx
  <2> QED BY <1>1, <2>1, TreasuryAssumption DEF IInv, Booked, TxIds, PendingSlots
<1>5. u \in Transaction /\ u.signed = t.signed /\ u.sigs = t.sigs /\ u.status = "Rejected"
      /\ u.what = t.what
  BY <1>1, StatusType DEF TransactionStatus
<1> HIDE DEF u, t
<1>6. TxStep(id, u)
  BY <1>2, <1>3, <1>4, <1>5, TreasuryAssumption DEF TxStep
<1> QED BY <1>1, <1>5, <1>6 DEF t

-----------------------------------------------------------------------------
\* The types of everything but the transactions.
Typed ==
  /\ now \in Nat /\ funds \in Nat /\ allowance \in Nat /\ initialized \in BOOLEAN
  /\ config \in Config \cup {NoConfig}
  /\ initialized => config \in Config
  /\ ~initialized => nextTx = 0
  /\ emergency \in EmergencyState \cup {NoEmergency}
  /\ lastEmergency \in Nat

\* The invariant is proved in three parts: types, members and transactions.
LEMMA Parts == IInv <=> Typed /\ Governed /\ Booked
<1>1. Booked => pending \subseteq TxIds /\ history \subseteq TxIds
  BY DEF Booked, PendingSlots
<1>2. Governed => members \subseteq Addr
  BY DEF Governed, ListedMembers
<1> QED BY <1>1, <1>2 DEF IInv, Typed, TypeOK, Governed, Booked

\* The three parts together are the invariant, in the next state too.
LEMMA PartsNext == Typed' /\ Governed' /\ Booked' => IInv'
<1>1. Booked' => pending' \subseteq TxIds /\ history' \subseteq TxIds
  BY DEF Booked, PendingSlots
<1>2. Governed' => members' \subseteq Addr
  BY DEF Governed, ListedMembers
<1> QED BY <1>1, <1>2 DEF IInv, Typed, TypeOK, Governed, Booked

\* Only members change the members, and there are none before initialize.
LEMMA MembersAfterInit ==
  ASSUME IInv, NEW a \in Addr, role[a] # NoRole
  PROVE  initialized /\ config \in Config
BY DEF IInv, Governed, ListedMembers

\* A change of the members leaves a well typed configuration.
LEMMA MembershipTyped ==
  ASSUME IInv, NEW c \in Addr, NEW a \in Addr, NEW r \in Role,
         AddMember(c, a, r) \/ UpdateMemberRole(c, a, r) \/ RemoveMember(c, a)
  PROVE  config' \in Config
<1>1. config \in Config
  BY MembersAfterInit DEF AddMember, UpdateMemberRole, RemoveMember, NoRole
<1>2. ASSUME AddMember(c, a, r) PROVE config' \in Config
  <2>1. config' = [config EXCEPT !.total_signers = @ + 1]
    BY <1>2 DEF AddMember
  <2> QED BY <1>1, <2>1 DEF Config
<1>3. ASSUME RemoveMember(c, a) PROVE config' \in Config
  <2>1. PICK n \in Nat, m \in Nat :
          config' = [config EXCEPT !.total_signers = n, !.threshold = m]
    <3>1. config.total_signers \in Nat /\ config.threshold \in Nat
          /\ config.total_signers - 1 \in Nat
      BY <1>1, <1>3 DEF RemoveMember, Config
    <3> QED BY <1>3, <3>1 DEF RemoveMember
  <2> QED BY <1>1, <2>1 DEF Config
<1>4. ASSUME UpdateMemberRole(c, a, r) PROVE config' \in Config
  BY <1>1, <1>4 DEF UpdateMemberRole
<1> QED BY <1>2, <1>3, <1>4

\* The initial states satisfy the invariant.
LEMMA InitIInv == Init => IInv
<1> SUFFICES ASSUME Init PROVE Typed /\ Governed /\ Booked
  BY Parts
<1>1. Typed
  BY TreasuryAssumption DEF Init, Typed
<1>2. Governed
  BY DEF Init, Governed, ListedMembers, AlwaysAnOwner
<1>3. Booked
  <2>1. \A id \in TxIds : tx[id] = NoTx
    BY DEF Init
  <2>2. NoTx \notin Transaction
    BY DEF NoTx, Transaction, TransactionStatus
  <2> QED BY <2>1, <2>2, TreasuryAssumption DEF Init, Booked, PendingSlots, NoTx
<1> QED BY <1>1, <1>2, <1>3

\* A step that leaves the members alone keeps what holds of them.
LEMMA GovernedFrame ==
  ASSUME Governed, UNCHANGED <<role, members, initialized>>
  PROVE  Governed'
BY DEF Governed, ListedMembers, AlwaysAnOwner

\* A step that leaves the transactions alone keeps what holds of them.
LEMMA BookedFrame ==
  ASSUME Booked, UNCHANGED ledger
  PROVE  Booked'
BY DEF Booked, PendingSlots, ledger

\* Every step keeps the invariant.
LEMMA NextIInv == IInv /\ [Next]_vars => IInv'
<1> SUFFICES ASSUME IInv, [Next]_vars PROVE Typed' /\ Governed' /\ Booked'
  BY PartsNext
<1>0. Typed /\ Governed /\ Booked
  BY Parts
<1>1. ASSUME NEW o \in Addr, NEW m \in Thresholds, NEW t \in Timeouts,
             NEW l \in PendingLimits, NEW c \in Cooldowns, Initialize(o, m, t, l, c)
      PROVE  Typed' /\ Governed' /\ Booked'
  <2>1. Typed'
    BY <1>0, <1>1, TreasuryAssumption DEF Initialize, Typed, Config, recovery, tokens
  <2>2. Governed'
    BY <1>0, <1>1 DEF Initialize, Governed, ListedMembers, AlwaysAnOwner, Role, NoRole
  <2>3. Booked'
    <3>1. nextTx = 0
      BY <1>0, <1>1 DEF Initialize, Typed
    <3> QED BY <1>0, <1>1, <3>1, BookedFrame DEF Initialize, ledger
  <2> QED BY <2>1, <2>2, <2>3
<1>2. ASSUME ManageMembers PROVE Typed' /\ Governed' /\ Booked'
  <2>1. PICK c \in Addr, a \in Addr, r \in Role :
          AddMember(c, a, r) \/ UpdateMemberRole(c, a, r) \/ RemoveMember(c, a)
    BY <1>2 DEF ManageMembers, Role
  <2>2. Typed'
    BY <1>0, <1>2, <2>1, MembershipTyped
       DEF ManageMembers, Typed, recovery, ledger, tokens
  <2>3. Governed'
    BY <1>0, <1>2, <2>1, AddMemberGoverned, RemoveMemberGoverned, UpdateRoleGoverned
       DEF ManageMembers
  <2> QED BY <1>0, <1>2, <2>2, <2>3, BookedFrame DEF ManageMembers
<1>3. ASSUME NEW a \in Addr, NEW m \in Thresholds, NEW t \in Timeouts,
             NEW l \in PendingLimits, UpdateConfig(a, m, t, l)
      PROVE  Typed' /\ Governed' /\ Booked'
  <2>1. config \in Config
    BY <1>3, MembersAfterInit DEF UpdateConfig, NoRole
  <2>2. config' \in Config
    BY <1>3, <2>1, TreasuryAssumption DEF UpdateConfig, Config
  <2>3. Typed'
    BY <1>0, <1>3, <2>2 DEF UpdateConfig, Typed, recovery, ledger, tokens
  <2> QED BY <1>0, <1>3, <2>3, GovernedFrame, BookedFrame DEF UpdateConfig
<1>4. ASSUME NEW a \in Addr, NEW p \in Proposals, Propose(a, p)
      PROVE  Typed' /\ Governed' /\ Booked'
  <2>1. Booked'
    BY <1>0, <1>4, ProposeStep, TxStepBooked
  <2>2. Typed'
    BY <1>0, <1>4 DEF Propose, Typed, recovery, membership, tokens
  <2> QED BY <1>0, <1>4, <2>1, <2>2, GovernedFrame DEF Propose, membership
<1>5. ASSUME NEW a \in Addr, NEW id \in TxIds, SignTransaction(a, id)
      PROVE  Typed' /\ Governed' /\ Booked'
  <2>1. Booked'
    BY <1>0, <1>5, SignStep, TxStepBooked
  <2>2. Typed'
    BY <1>0, <1>5 DEF SignTransaction, Typed, recovery, membership, tokens
  <2> QED BY <1>0, <1>5, <2>1, <2>2, GovernedFrame DEF SignTransaction, membership
<1>6. ASSUME NEW a \in Addr, NEW id \in TxIds, ExecuteTransaction(a, id)
      PROVE  Typed' /\ Governed' /\ Booked'
  <2>1. Booked'
    BY <1>0, <1>6, ExecuteStep, TxStepBooked
  <2>2. PICK p \in Proposal : Effect(a, p)
    <3>1. tx[id] \in Transaction
      BY <1>6, ExecuteStep
    <3> QED BY <1>6, <3>1 DEF ExecuteTransaction, Transaction
  <2>3. Governed'
    BY <1>0, <1>6, <2>2, EffectGoverned DEF ExecuteTransaction
  <2>4. funds' \in Nat /\ allowance' \in Nat
    <3>1. p.type = "TokenTransfer" => p.amount \in Int
      BY DEF Proposal
    <3>2. funds \in Nat /\ allowance \in Nat /\ InitFunds \in Nat
      BY <1>0, TreasuryAssumption DEF Typed
    <3> QED BY <2>2, <3>1, <3>2 DEF Effect, TransferOut, tokens
  <2>5. config' \in Config
    <3>1. role[a] # NoRole
      BY <1>6 DEF ExecuteTransaction
    <3>2. config \in Config
      BY <3>1, MembersAfterInit
    <3>3. CASE p.type = "SignerManagement"
      <4>1. p.target \in Addr /\ p.role \in Role
        BY <3>3 DEF Proposal
      <4> QED BY <2>2, <3>2, <3>3, <4>1, MembershipTyped DEF Effect, membership
    <3>4. CASE p.type # "SignerManagement"
      BY <2>2, <3>2, <3>4 DEF Effect, membership
    <3> QED BY <3>3, <3>4
  <2>6. Typed'
    BY <1>0, <1>6, <2>4, <2>5 DEF ExecuteTransaction, Typed, recovery
  <2> QED BY <2>1, <2>3, <2>6
<1>7. ASSUME NEW id \in TxIds, RejectTransaction(id)
      PROVE  Typed' /\ Governed' /\ Booked'
  <2>1. Booked'
    BY <1>0, <1>7, RejectStep, TxStepBooked
  <2>2. Typed'
    BY <1>0, <1>7 DEF RejectTransaction, Typed, recovery, membership, tokens
  <2> QED BY <1>0, <1>7, <2>1, <2>2, GovernedFrame DEF RejectTransaction, membership
<1>8. ASSUME NEW a \in Addr, ActivateEmergency(a)
      PROVE  Typed' /\ Governed' /\ Booked'
  <2>1. Typed'
    BY <1>0, <1>8 DEF ActivateEmergency, Typed, membership, ledger, EmergencyState, tokens
  <2> QED BY <1>0, <1>8, <2>1, GovernedFrame, BookedFrame DEF ActivateEmergency, membership
<1>9. ASSUME NEW a \in Addr, NEW n \in Addr, ExecuteEmergency(a, n)
      PROVE  Typed' /\ Governed' /\ Booked'
  <2>1. Typed'
    BY <1>0, <1>9 DEF ExecuteEmergency, Typed, ledger, EmergencyState, tokens
  <2>2. Governed'
    <3>1. /\ role' = [role EXCEPT ![n] = "Owner"] /\ members' = members \cup {n}
          /\ initialized' = initialized /\ role[a] = "Owner"
      BY <1>9 DEF ExecuteEmergency
    <3>2. initialized
      BY <3>1, MembersAfterInit DEF NoRole
    <3> QED BY <1>0, <3>1, <3>2 DEF Governed, ListedMembers, AlwaysAnOwner, Role, NoRole
  <2> QED BY <1>0, <1>9, <2>1, <2>2, BookedFrame DEF ExecuteEmergency
<1>10. ASSUME NEW a \in Addr, CancelEmergency(a)
       PROVE  Typed' /\ Governed' /\ Booked'
  <2>1. Typed'
    BY <1>0, <1>10 DEF CancelEmergency, Typed, membership, ledger, tokens
  <2> QED BY <1>0, <1>10, <2>1, GovernedFrame, BookedFrame DEF CancelEmergency, membership
<1>11. ASSUME Tick PROVE Typed' /\ Governed' /\ Booked'
  <2>1. Typed'
    BY <1>0, <1>11 DEF Tick, Typed, membership, ledger, recovery, tokens
  <2> QED BY <1>0, <1>11, <2>1, GovernedFrame, BookedFrame DEF Tick, membership
<1>12. ASSUME UNCHANGED vars PROVE Typed' /\ Governed' /\ Booked'
  <2>1. Typed'
    BY <1>0, <1>12 DEF vars, Typed, tokens
  <2> QED BY <1>0, <1>12, <2>1, GovernedFrame, BookedFrame DEF vars, ledger
<1>13. ASSUME NEW n \in 1 .. InitFunds, Draw(n) PROVE Typed' /\ Governed' /\ Booked'
  <2>1. n \in Nat /\ funds \in Nat /\ allowance \in Nat
    BY <1>0, TreasuryAssumption DEF Typed
  <2>2. funds' \in Nat /\ allowance' \in Nat
    BY <1>13, <2>1 DEF Draw
  <2>3. Typed'
    BY <1>0, <1>13, <2>2 DEF Draw, Typed, membership, ledger, recovery
  <2> QED BY <1>0, <1>13, <2>3, GovernedFrame, BookedFrame DEF Draw, membership
<1> QED
  BY <1>1, <1>2, <1>3, <1>4, <1>5, <1>6, <1>7, <1>8, <1>9, <1>10, <1>11, <1>12, <1>13
     DEF Next

\* The invariant holds in every reachable state.
LEMMA Invariant == Spec => []IInv
BY InitIInv, NextIInv, PTL DEF Spec

\* The state of the treasury has its type in every reachable state.
THEOREM TypeCorrect == Spec => []TypeOK
BY Invariant, PTL DEF IInv

\* However members are removed, demoted and recovered, directly or by an
\* executed proposal, the treasury keeps an Owner.
THEOREM OwnerRemains == Spec => []AlwaysAnOwner
BY Invariant, PTL DEF IInv, Governed

\* The members list and the member records agree in every reachable state.
THEOREM ListAgrees == Spec => []ListedMembers
BY Invariant, PTL DEF IInv, Governed

\* The pending list and the history are the transactions with the matching
\* status in every reachable state.
THEOREM SlotsAgree == Spec => []PendingSlots
BY Invariant, PTL DEF IInv, Booked

-----------------------------------------------------------------------------
\* The six ways in which a step treats the transactions and the tokens.
LEMMA TxChange ==
  ASSUME IInv, [Next]_vars
  PROVE  \/ tx' = tx /\ UNCHANGED tokens
         \/ \E n \in 1 .. InitFunds : Draw(n) /\ tx' = tx
         \/ \E a \in Addr, p \in Proposals : Propose(a, p)
         \/ \E a \in Addr, id \in TxIds : SignTransaction(a, id)
         \/ \E a \in Addr, id \in TxIds : ExecuteTransaction(a, id)
         \/ \E id \in TxIds : RejectTransaction(id)
BY DEF Next, vars, Initialize, ManageMembers, UpdateConfig, ActivateEmergency,
       ExecuteEmergency, CancelEmergency, Tick, Draw, ledger

\* A step that replaces the transaction id by u, as the properties see it.
LEMMA OthersStay ==
  ASSUME IInv, NEW id \in TxIds, NEW u, TxStep(id, u), NEW j \in TxIds
  PROVE  tx'[j] = IF j = id THEN u ELSE tx[j]
BY DEF IInv, Booked, TxStep

\* Who may spend and approve, stated for one step.
SpendingStep ==
  /\ funds' # funds \/ allowance' > allowance =>
       \/ \E id \in TxIds : tx[id].status # "Executed" /\ tx'[id].status = "Executed"
       \/ funds - funds' = allowance - allowance' /\ funds' < funds
  /\ \A id \in TxIds :
       tx[id].status = "Pending" /\ tx'[id].status \in {"Approved", "Executed"} =>
         Cardinality(tx'[id].signed) >= config.threshold
  /\ \A id \in TxIds : tx[id] # NoTx =>
       \A a \in tx'[id].signed \ tx[id].signed :
         RoleLevel(role[a]) >= RoleLevel(tx[id].required_role)

\* Every step spends by agreement.
LEMMA StepSpends ==
  ASSUME IInv, [Next]_vars
  PROVE  SpendingStep
<1>0. funds \in Nat /\ allowance \in Nat
  BY DEF IInv, TypeOK
<1>1. CASE tx' = tx /\ UNCHANGED tokens
  BY <1>0, <1>1 DEF SpendingStep, tokens
<1>2. ASSUME NEW a \in Addr, NEW p \in Proposals, Propose(a, p) PROVE SpendingStep
  <2>1. PICK id \in TxIds, u \in Transaction :
          TxStep(id, u) /\ u.signed = {} /\ tx[id] = NoTx
    BY <1>2, ProposeStep
  <2>2. UNCHANGED tokens
    BY <1>2 DEF Propose
  <2>3. \A j \in TxIds : tx'[j] = IF j = id THEN u ELSE tx[j]
    BY <2>1, OthersStay
  <2> QED BY <1>0, <2>1, <2>2, <2>3 DEF SpendingStep, NoTx, tokens
<1>3. ASSUME NEW a \in Addr, NEW id \in TxIds, SignTransaction(a, id) PROVE SpendingStep
  <2>1. PICK u \in Transaction :
           /\ TxStep(id, u) /\ tx[id] \in Transaction /\ tx[id].status = "Pending"
           /\ u.signed = tx[id].signed \cup {a} /\ u.what = tx[id].what
           /\ u.status \in {"Pending", "Approved"}
           /\ u.status = "Approved" => Cardinality(u.signed) >= config.threshold
    BY <1>3, SignStep
  <2>2. /\ UNCHANGED tokens
        /\ RoleLevel(role[a]) >= RoleLevel(tx[id].required_role)
    BY <1>3 DEF SignTransaction
  <2>3. \A j \in TxIds : tx'[j] = IF j = id THEN u ELSE tx[j]
    BY <2>1, OthersStay
  <2>4. funds' = funds /\ ~(allowance' > allowance)
    BY <1>0, <2>2 DEF tokens
  <2> QED BY <2>1, <2>2, <2>3, <2>4 DEF SpendingStep
<1>4. ASSUME NEW a \in Addr, NEW id \in TxIds, ExecuteTransaction(a, id) PROVE SpendingStep
  <2>1. PICK u \in Transaction :
           /\ TxStep(id, u) /\ tx[id] \in Transaction
           /\ tx[id].status \in {"Pending", "Approved"}
           /\ tx[id].status = "Pending" => Cardinality(u.signed) >= config.threshold
           /\ u.signed = tx[id].signed /\ u.what = tx[id].what /\ u.status = "Executed"
    BY <1>4, ExecuteStep
  <2>2. \A j \in TxIds : tx'[j] = IF j = id THEN u ELSE tx[j]
    BY <2>1, OthersStay
  <2> QED BY <2>1, <2>2 DEF SpendingStep
<1>5. ASSUME NEW id \in TxIds, RejectTransaction(id) PROVE SpendingStep
  <2>1. PICK u \in Transaction :
           /\ TxStep(id, u) /\ tx[id] \in Transaction /\ tx[id].status = "Pending"
           /\ u.signed = tx[id].signed /\ u.what = tx[id].what /\ u.status = "Rejected"
    BY <1>5, RejectStep
  <2>2. UNCHANGED tokens
    BY <1>5 DEF RejectTransaction
  <2>3. \A j \in TxIds : tx'[j] = IF j = id THEN u ELSE tx[j]
    BY <2>1, OthersStay
  <2> QED BY <1>0, <2>1, <2>2, <2>3 DEF SpendingStep, tokens
<1>6. ASSUME NEW n \in 1 .. InitFunds, Draw(n), tx' = tx PROVE SpendingStep
  <2>1. n \in Nat /\ n >= 1
    BY TreasuryAssumption
  <2>2. funds' = funds - n /\ allowance' = allowance - n
    BY <1>6 DEF Draw
  <2> QED BY <1>0, <1>6, <2>1, <2>2 DEF SpendingStep
<1> QED BY <1>1, <1>2, <1>3, <1>4, <1>5, <1>6, TxChange

\* For any members, thresholds and proposals, the treasury spends only what
\* its members agreed on.
THEOREM AgreementSpends == Spec => SpendsByAgreement
<1>1. IInv /\ [Next]_vars => SpendingStep
  BY StepSpends
<1> QED BY <1>1, Invariant, PTL DEF Spec, SpendsByAgreement, SpendingStep

\* How one step treats transaction id when decisions stand.
StandsIn(id) ==
  LET t == tx[id]
      u == tx'[id]
  IN /\ t.status = "Approved" => u.status \in {"Approved", "Executed"}
     /\ t.status \in {"Executed", "Rejected"} => u = t
     /\ t # NoTx => u # NoTx /\ t.what = u.what /\ t.signed \subseteq u.signed

\* No step takes back a decision on transaction j.
LEMMA StepStands ==
  ASSUME IInv, [Next]_vars, NEW j \in TxIds
  PROVE  StandsIn(j)
<1>0. \A t \in Transaction : t # NoTx
  BY DEF NoTx, Transaction, TransactionStatus
<1>1. CASE tx' = tx
  BY <1>1 DEF StandsIn
<1>2. ASSUME NEW a \in Addr, NEW p \in Proposals, Propose(a, p) PROVE StandsIn(j)
  <2>1. PICK id \in TxIds, u \in Transaction :
          TxStep(id, u) /\ u.signed = {} /\ tx[id] = NoTx
    BY <1>2, ProposeStep
  <2>2. tx'[j] = IF j = id THEN u ELSE tx[j]
    BY <2>1, OthersStay
  <2> QED BY <2>1, <2>2 DEF StandsIn, NoTx
<1>3. ASSUME NEW a \in Addr, NEW id \in TxIds, SignTransaction(a, id) PROVE StandsIn(j)
  <2>1. PICK u \in Transaction :
           /\ TxStep(id, u) /\ tx[id] \in Transaction /\ tx[id].status = "Pending"
           /\ u.signed = tx[id].signed \cup {a} /\ u.what = tx[id].what
           /\ u.status \in {"Pending", "Approved"}
           /\ u.status = "Approved" => Cardinality(u.signed) >= config.threshold
    BY <1>3, SignStep
  <2>2. tx'[j] = IF j = id THEN u ELSE tx[j]
    BY <2>1, OthersStay
  <2> QED BY <1>0, <2>1, <2>2 DEF StandsIn
<1>4. ASSUME NEW a \in Addr, NEW id \in TxIds, ExecuteTransaction(a, id) PROVE StandsIn(j)
  <2>1. PICK u \in Transaction :
           /\ TxStep(id, u) /\ tx[id] \in Transaction
           /\ tx[id].status \in {"Pending", "Approved"}
           /\ tx[id].status = "Pending" => Cardinality(u.signed) >= config.threshold
           /\ u.signed = tx[id].signed /\ u.what = tx[id].what /\ u.status = "Executed"
    BY <1>4, ExecuteStep
  <2>2. tx'[j] = IF j = id THEN u ELSE tx[j]
    BY <2>1, OthersStay
  <2> QED BY <1>0, <2>1, <2>2 DEF StandsIn
<1>5. ASSUME NEW id \in TxIds, RejectTransaction(id) PROVE StandsIn(j)
  <2>1. PICK u \in Transaction :
           /\ TxStep(id, u) /\ tx[id] \in Transaction /\ tx[id].status = "Pending"
           /\ u.signed = tx[id].signed /\ u.what = tx[id].what /\ u.status = "Rejected"
    BY <1>5, RejectStep
  <2>2. tx'[j] = IF j = id THEN u ELSE tx[j]
    BY <2>1, OthersStay
  <2> QED BY <1>0, <2>1, <2>2 DEF StandsIn
<1> QED BY <1>1, <1>2, <1>3, <1>4, <1>5, TxChange

\* For any members, thresholds and proposals, no decision on a transaction is
\* taken back and nothing is executed twice.
THEOREM DecisionsLast == Spec => DecisionsStand
<1>1. IInv /\ [Next]_vars => \A id \in TxIds : StandsIn(id)
  BY StepStands
<1> QED BY <1>1, Invariant, PTL DEF Spec, DecisionsStand, StandsIn

-----------------------------------------------------------------------------
\* Why enough members remain: the members counted are listed ones, though not
\* every listed one is counted, and past the first addition the threshold does
\* not exceed that count.
Counted ==
  initialized =>
    /\ config.total_signers \in Nat /\ config.threshold \in Nat
    /\ config.total_signers <= Cardinality(members)
    /\ config.total_signers = 1 \/ config.threshold <= config.total_signers

\* The list of members is finite: an addition makes it longer by one, a removal
\* shorter by one.
LEMMA MemberCount ==
  ASSUME Governed, NEW a \in Addr
  PROVE  /\ IsFiniteSet(members) /\ Cardinality(members) \in Nat
         /\ role[a] = NoRole => Cardinality(members \cup {a}) = Cardinality(members) + 1
         /\ role[a] # NoRole => Cardinality(members \ {a}) = Cardinality(members) - 1
         /\ Cardinality(members \cup {a}) >= Cardinality(members)
<1>1. members = {m \in Addr : role[m] # NoRole}
  BY DEF Governed, ListedMembers
<1>2. IsFiniteSet(members)
  BY <1>1, TreasuryAssumption, FS_Subset
<1>3. Cardinality(members) \in Nat
  BY <1>2, FS_CardinalityType
<1>4. role[a] = NoRole => Cardinality(members \cup {a}) = Cardinality(members) + 1
  BY <1>1, <1>2, FS_AddElement
<1>5. role[a] # NoRole => Cardinality(members \ {a}) = Cardinality(members) - 1
  BY <1>1, <1>2, FS_RemoveElement
<1>6. role[a] # NoRole => members \cup {a} = members
  BY <1>1
<1>7. Cardinality(members \cup {a}) >= Cardinality(members)
  <2>1. CASE role[a] = NoRole
    BY <1>3, <1>4, <2>1
  <2>2. CASE role[a] # NoRole
    BY <1>3, <1>6, <2>2
  <2> QED BY <2>1, <2>2
<1> QED BY <1>2, <1>3, <1>4, <1>5, <1>7

\* The changes of the members, called directly or by an executed proposal.
LEMMA MembershipCounted ==
  ASSUME IInv, Counted, initialized, NEW c \in Addr, NEW a \in Addr, NEW r \in Role,
         AddMember(c, a, r) \/ RemoveMember(c, a) \/ UpdateMemberRole(c, a, r)
  PROVE  Counted'
<1> DEFINE n == config.total_signers
           m == config.threshold
<1>1. /\ Governed /\ config \in Config /\ n \in Nat /\ m \in Nat
      /\ n <= Cardinality(members) /\ (n = 1 \/ m <= n)
  BY DEF IInv, Counted
<1>2. Cardinality(members) \in Nat
  BY <1>1, MemberCount
<1>3. CASE AddMember(c, a, r)
  <2>1. /\ config' = [config EXCEPT !.total_signers = n + 1] /\ m <= n + 1
        /\ members' = members \cup {a} /\ role[a] = NoRole
    BY <1>3 DEF AddMember
  <2>2. config'.total_signers = n + 1 /\ config'.threshold = m
    BY <1>1, <2>1 DEF Config
  <2>3. Cardinality(members') = Cardinality(members) + 1
    BY <1>1, <2>1, MemberCount
  <2> HIDE DEF n, m
  <2> QED BY <1>1, <1>2, <2>1, <2>2, <2>3 DEF Counted
<1>4. CASE RemoveMember(c, a)
  <2> DEFINE k == IF m > n - 1 THEN n - 1 ELSE m
  <2>1. /\ config' = [config EXCEPT !.total_signers = n - 1, !.threshold = k] /\ n >= 1
        /\ members' = members \ {a} /\ role[a] # NoRole
    BY <1>4 DEF RemoveMember
  <2>2. config'.total_signers = n - 1 /\ config'.threshold = k
    BY <1>1, <2>1 DEF Config
  <2>3. Cardinality(members') = Cardinality(members) - 1
    BY <1>1, <2>1, MemberCount
  <2> HIDE DEF n, m
  <2> QED BY <1>1, <1>2, <2>1, <2>2, <2>3 DEF Counted
<1>5. CASE UpdateMemberRole(c, a, r)
  BY <1>1, <1>5 DEF UpdateMemberRole, Counted
<1> QED BY <1>3, <1>4, <1>5

\* Every step keeps the count of members honest.
LEMMA StepCounted ==
  ASSUME IInv, Counted, [Next]_vars
  PROVE  Counted'
<1>1. ASSUME UNCHANGED <<initialized, config, members>> PROVE Counted'
  BY <1>1 DEF Counted
<1>2. ASSUME NEW o \in Addr, NEW m \in Thresholds, NEW t \in Timeouts,
             NEW l \in PendingLimits, NEW c \in Cooldowns, Initialize(o, m, t, l, c)
      PROVE  Counted'
  <2>1. members' = {o} /\ Cardinality({o}) = 1
    BY <1>2, FS_Singleton DEF Initialize
  <2>2. config'.total_signers = 1 /\ config'.threshold = m
    BY <1>2 DEF Initialize
  <2> QED BY <2>1, <2>2, TreasuryAssumption DEF Counted
<1>3. ASSUME NEW a \in Addr, role[a] # NoRole PROVE initialized
  BY <1>3 DEF IInv, Governed, ListedMembers
<1>4. CASE ManageMembers
  <2>1. PICK c \in Addr, a \in Addr :
          \/ \E r \in Role : AddMember(c, a, r) \/ UpdateMemberRole(c, a, r)
          \/ RemoveMember(c, a)
    BY <1>4 DEF ManageMembers
  <2>2. role[c] # NoRole
    BY <2>1 DEF AddMember, UpdateMemberRole, RemoveMember, NoRole
  <2>3. "Owner" \in Role
    BY DEF Role
  <2> QED BY <1>3, <2>1, <2>2, <2>3, MembershipCounted
<1>5. ASSUME NEW a \in Addr, NEW m \in Thresholds, NEW t \in Timeouts, NEW l \in PendingLimits,
             UpdateConfig(a, m, t, l)
      PROVE  Counted'
  <2>1. initialized /\ config \in Config
    BY <1>3, <1>5 DEF UpdateConfig, IInv, NoRole
  <2>2. /\ config'.total_signers = config.total_signers /\ config'.threshold = m
        /\ m <= config.total_signers /\ members' = members
    BY <1>5, <2>1 DEF UpdateConfig, membership, Config
  <2> QED BY <2>1, <2>2, TreasuryAssumption DEF Counted
<1>6. ASSUME NEW a \in Addr, NEW id \in TxIds, ExecuteTransaction(a, id) PROVE Counted'
  <2>1. initialized
    BY <1>3, <1>6 DEF ExecuteTransaction
  <2>2. PICK p \in Proposal : Effect(a, p)
    <3>1. tx[id] \in Transaction
      BY <1>6, ExecuteStep
    <3> QED BY <1>6, <3>1 DEF ExecuteTransaction, Transaction
  <2>3. CASE UNCHANGED membership
    BY <1>1, <1>6, <2>3 DEF membership, ExecuteTransaction
  <2>4. CASE p.type = "SignerManagement"
    <3>1. p.target \in Addr /\ p.role \in Role
      BY <2>4 DEF Proposal
    <3> QED BY <2>1, <2>2, <2>3, <2>4, <3>1, MembershipCounted DEF Effect
  <2> QED BY <2>2, <2>3, <2>4 DEF Effect
<1>7. ASSUME NEW a \in Addr, NEW o \in Addr, ExecuteEmergency(a, o) PROVE Counted'
  <2>1. initialized /\ Governed
    BY <1>3, <1>7 DEF ExecuteEmergency, IInv, NoRole
  <2>2. config' = config /\ members' = members \cup {o} /\ initialized' = initialized
    BY <1>7 DEF ExecuteEmergency
  <2>3. Cardinality(members') >= Cardinality(members) /\ Cardinality(members) \in Nat
    BY <2>1, <2>2, MemberCount
  <2>4. Cardinality(members') \in Nat
    BY <2>1, <2>2, <2>3, MemberCount, FS_AddElement, FS_CardinalityType
  <2> QED BY <2>1, <2>2, <2>3, <2>4 DEF Counted
<1>8. ASSUME \/ \E a \in Addr :
                  \/ \E p \in Proposals : Propose(a, p)
                  \/ \E id \in TxIds : SignTransaction(a, id)
                  \/ ActivateEmergency(a) \/ CancelEmergency(a)
             \/ \E id \in TxIds : RejectTransaction(id)
             \/ \E amount \in 1 .. InitFunds : Draw(amount)
             \/ Tick \/ UNCHANGED vars
      PROVE  Counted'
  BY <1>1, <1>8 DEF Propose, SignTransaction, ActivateEmergency, CancelEmergency,
     RejectTransaction, Draw, Tick, vars, membership
<1> QED BY <1>2, <1>4, <1>5, <1>6, <1>7, <1>8 DEF Next

\* For any members, thresholds and proposals: once a second member has been added
\* the members listed are as many as the threshold asks for, however members are
\* removed, recovered and the threshold changed.
THEOREM QuorumRemains == Spec => []QuorumReachable
<1>1. Init => Counted
  BY DEF Init, Counted
<1>2. IInv /\ Counted /\ [Next]_vars => Counted'
  BY StepCounted
<1>3. IInv /\ Counted => QuorumReachable
  <2>1. IInv => members \subseteq Addr
    BY DEF IInv, TypeOK
  <2>2. IInv => Cardinality(members) \in Nat
    BY <2>1, TreasuryAssumption, FS_Subset, FS_CardinalityType
  <2> QED BY <2>2 DEF Counted, QuorumReachable
<1> QED BY Invariant, <1>1, <1>2, <1>3, PTL DEF Spec

-----------------------------------------------------------------------------
(***************************************************************************)
(* Decisions in general, of the contracts that implement Decisions: the    *)
(* cases of any of them are transfers, proposals or loans.                 *)
(***************************************************************************)
CONSTANTS Case, Open, Outcome

VARIABLE state

Cases == INSTANCE Decisions

Decided == state \in [Case -> {"none"} \cup Open \cup Outcome]

\* A contract that implements Decisions never changes what it decided: an
\* executed proposal, a completed transfer or a repaid loan stays that.
THEOREM OutcomeStands == ASSUME Cases!Distinct PROVE Cases!Spec => Cases!OutcomesStand
<1>1. Cases!Init => Decided
  BY DEF Cases!Init, Decided
<1>2. Decided /\ [Cases!Next]_state => Decided'
  <2> SUFFICES ASSUME Decided, [Cases!Next]_state PROVE Decided'
    OBVIOUS
  <2>1. CASE UNCHANGED state
    BY <2>1 DEF Decided
  <2>2. ASSUME NEW c \in Case, Cases!Proceed(c) \/ Cases!Decide(c) PROVE Decided'
    BY <2>2 DEF Decided, Cases!Proceed, Cases!Decide, Cases!Becomes
  <2>3. QED
    BY <2>1, <2>2 DEF Cases!Next
<1>3. Decided /\ [Cases!Next]_state
        => [\A c \in Case : state[c] \in Outcome => state'[c] = state[c]]_state
  <2> SUFFICES ASSUME Decided, Cases!Next, NEW c \in Case, state[c] \in Outcome
               PROVE  state'[c] = state[c]
    OBVIOUS
  <2>1. PICK d \in Case : Cases!Proceed(d) \/ Cases!Decide(d)
    BY DEF Cases!Next
  <2>2. d # c
    BY <2>1 DEF Cases!Proceed, Cases!Decide, Cases!Distinct
  <2>3. QED
    BY <2>1, <2>2 DEF Decided, Cases!Proceed, Cases!Decide, Cases!Becomes
<1>4. QED
  BY <1>1, <1>2, <1>3, PTL DEF Cases!Spec, Cases!OutcomesStand

-----------------------------------------------------------------------------
(***************************************************************************)
(* That the proposals of the governance contract are decided once, for any *)
(* users, amounts and times.                                               *)
(***************************************************************************)
CONSTANTS
  Users, Self, None, Configs, Amounts, Actions, InitBalance, MaxThreshold, ActionTtl,
  MaxProposals, MaxActions

VARIABLES bal, deposited, power, delegatee, proposal, voted, multisig, action

Gov == INSTANCE Governance

\* What the calls are made with.
Parameters ==
  /\ IsFiniteSet(Users) /\ InitBalance \in Nat /\ Amounts \subseteq Nat
  /\ MaxTime \in Nat /\ MaxProposals \in Nat
  /\ Actions \subseteq [to : Users, amount : Nat]
  /\ None \notin Configs
  /\ Configs \subseteq [voting_delay : Nat, voting_period : Nat, proposal_threshold : Nat,
                        quorum_percentage : Nat]

Ballots ==
  [proposer : Users, call : Actions, status : {"Pending", "Active", "Executed", "Canceled"},
   start_time : Nat, end_time : Nat, for_votes : Int, against_votes : Int, abstain_votes : Int,
   quorum : Int]

BallotsTyped ==
  /\ now \in Nat /\ config \in Configs \cup {None}
  /\ deposited \in [Users -> Int] /\ power \in [Users -> Int] /\ delegatee \in [Users -> Users]
  /\ proposal \in Seq(Ballots) /\ Len(proposal) <= MaxProposals

\* What keeps votes and cancellations, which do not look at the status, from
\* undoing an execution: it comes after the voting, which comes after its start.
VotesBeforeExecution ==
  \A id \in DOMAIN proposal :
    /\ proposal[id].start_time <= proposal[id].end_time
    /\ proposal[id].status = "Executed" => now > proposal[id].end_time

BallotInv == BallotsTyped /\ VotesBeforeExecution

\* The status of each proposal, as Decisions sees it.
ProposalStates == [id \in 1 .. MaxProposals |->
              IF id \in DOMAIN proposal THEN proposal[id].status ELSE "none"]

\* Initially there are no proposals.
LEMMA BallotsInit == Parameters /\ Gov!Init => BallotInv
BY DEF Parameters, Gov!Init, BallotInv, BallotsTyped, VotesBeforeExecution

\* A proposal that is made starts no earlier than now and ends no earlier than
\* it starts.
LEMMA BallotsPropose ==
  ASSUME Parameters, BallotInv, NEW u \in Users, NEW call \in Actions, Gov!Propose(u, call)
  PROVE  /\ BallotInv'
         /\ Len(proposal') = Len(proposal) + 1
         /\ \A i \in DOMAIN proposal : proposal'[i] = proposal[i]
         /\ proposal'[Len(proposal) + 1].status = "Pending"
<1> DEFINE start == now + config.voting_delay
           r == [proposer |-> u, call |-> call, status |-> "Pending",
                 start_time |-> start, end_time |-> start + config.voting_period,
                 for_votes |-> 0, against_votes |-> 0, abstain_votes |-> 0,
                 quorum |-> (Gov!Supply * config.quorum_percentage) \div 100]
<1>1. config \in Configs /\ config.voting_delay \in Nat /\ config.voting_period \in Nat
        /\ config.quorum_percentage \in Nat
  BY DEF Gov!Propose, BallotInv, BallotsTyped, Parameters
<1>2. Gov!Supply \in Nat
  <2>1. Cardinality(Users) \in Nat
    BY FS_CardinalityType DEF Parameters
  <2>2. QED
    BY <2>1 DEF Gov!Supply, Gov!Cardinality, Cardinality, Parameters
<1>3. (Gov!Supply * config.quorum_percentage) \div 100 \in Int
  BY <1>1, <1>2
<1>4. start \in Nat /\ start + config.voting_period \in Nat /\ start <= start + config.voting_period
  BY <1>1 DEF BallotInv, BallotsTyped
<1>5. r \in Ballots
  BY <1>3, <1>4 DEF Ballots
<1>6. proposal' = Append(proposal, r) /\ Len(proposal) < MaxProposals
        /\ UNCHANGED <<now, config, deposited, power, delegatee>>
  BY DEF Gov!Propose, Gov!deposits
<1>7. /\ proposal' \in Seq(Ballots) /\ Len(proposal') = Len(proposal) + 1
      /\ \A i \in DOMAIN proposal : proposal'[i] = proposal[i]
      /\ proposal'[Len(proposal) + 1] = r
  <2> HIDE DEF r
  <2> QED
    BY <1>5, <1>6 DEF BallotInv, BallotsTyped
<1>8. BallotsTyped'
  BY SMTT(30), <1>6, <1>7 DEF BallotInv, BallotsTyped, Parameters
<1>9. VotesBeforeExecution'
  <2> SUFFICES ASSUME NEW i \in DOMAIN proposal'
               PROVE  /\ proposal'[i].start_time <= proposal'[i].end_time
                      /\ proposal'[i].status = "Executed" => now' > proposal'[i].end_time
    BY DEF VotesBeforeExecution
  <2>1. CASE i \in DOMAIN proposal
    BY <2>1, <1>6, <1>7 DEF BallotInv, VotesBeforeExecution
  <2>2. CASE i = Len(proposal) + 1
    <3>1. proposal'[i] = r
      <4> HIDE DEF r
      <4> QED
        BY <2>2, <1>7
    <3>2. r.start_time <= r.end_time /\ r.status = "Pending"
      BY <1>4
    <3>3. QED
      BY <3>1, <3>2
  <2>3. QED
    BY <2>1, <2>2, <1>7 DEF BallotInv, BallotsTyped
<1>10. r.status = "Pending"
  OBVIOUS
<1>11. QED
  <2> HIDE DEF r
  <2> QED
    BY <1>7, <1>8, <1>9, <1>10 DEF BallotInv

\* A vote, an execution and a cancellation change one proposal: not its times,
\* and its status only if it was undecided, as an execution comes too late for
\* the other two.
LEMMA BallotChanges ==
  ASSUME Parameters, BallotInv, NEW id \in DOMAIN proposal,
         \/ \E u \in Users, type \in {"For", "Against", "Abstain"} : Gov!Vote(u, id, type)
         \/ Gov!Execute(id) \/ Gov!Cancel(id)
  PROVE  \E r \in Ballots :
           /\ proposal' = [proposal EXCEPT ![id] = r]
           /\ now' = now
           /\ UNCHANGED <<config, deposited, power, delegatee>>
           /\ r.start_time = proposal[id].start_time /\ r.end_time = proposal[id].end_time
           /\ r.status = "Executed" => now > r.end_time
           /\ \/ r.status = proposal[id].status
              \/ proposal[id].status \in {"Pending", "Active"}
<1> DEFINE b == proposal[id]
<1>1. b \in Ballots /\ b.start_time <= b.end_time
        /\ (b.status = "Executed" => now > b.end_time)
        /\ now \in Nat /\ b.start_time \in Nat /\ b.end_time \in Nat
  <2>1. b \in Ballots /\ now \in Nat
    BY DEF BallotInv, BallotsTyped
  <2>2. b.start_time \in Nat /\ b.end_time \in Nat
    BY <2>1 DEF Ballots
  <2>3. QED
    BY <2>1, <2>2 DEF BallotInv, VotesBeforeExecution
<1>2. ASSUME NEW u \in Users, NEW type \in {"For", "Against", "Abstain"}, Gov!Vote(u, id, type)
      PROVE  b.status # "Executed" /\
             \E r \in Ballots :
               /\ proposal' = [proposal EXCEPT ![id] = r]
               /\ UNCHANGED <<now, config, deposited, power, delegatee>>
               /\ r.start_time = b.start_time /\ r.end_time = b.end_time
               /\ r.status = IF b.status = "Pending" THEN "Active" ELSE b.status
  <2> DEFINE t == Gov!Tally(b, type, power[u])
             r == [t EXCEPT !.status = IF @ = "Pending" THEN "Active" ELSE @]
  <2>1. power[u] \in Int
    BY DEF BallotInv, BallotsTyped
  <2>2. t \in Ballots /\ t.start_time = b.start_time /\ t.end_time = b.end_time
          /\ t.status = b.status
    BY <1>1, <2>1 DEF Gov!Tally, Ballots
  <2>3. /\ r \in Ballots /\ r.start_time = b.start_time /\ r.end_time = b.end_time
        /\ r.status = IF b.status = "Pending" THEN "Active" ELSE b.status
    <3> HIDE DEF t
    <3> QED
      BY <2>2 DEF Ballots
  <2>4. proposal' = [proposal EXCEPT ![id] = r]
          /\ UNCHANGED <<now, config, deposited, power, delegatee>> /\ now <= b.end_time
    BY <1>2 DEF Gov!Vote, Gov!deposits
  <2>5. b.status # "Executed"
    BY <2>4, <1>1
  <2>6. QED
    <3> HIDE DEF r
    <3> QED
      BY <2>3, <2>4, <2>5
<1>3. ASSUME Gov!Execute(id)
      PROVE  /\ b.status \notin {"Executed", "Canceled"} /\ now > b.end_time
             /\ proposal' = [proposal EXCEPT ![id] = [b EXCEPT !.status = "Executed"]]
             /\ UNCHANGED <<now, config, deposited, power, delegatee>>
  BY <1>3 DEF Gov!Execute, Gov!deposits
<1>4. ASSUME Gov!Cancel(id)
      PROVE  /\ b.status # "Executed"
             /\ proposal' = [proposal EXCEPT ![id] = [b EXCEPT !.status = "Canceled"]]
             /\ UNCHANGED <<now, config, deposited, power, delegatee>>
  BY <1>4, <1>1 DEF Gov!Cancel, Gov!deposits
<1>5. \A s \in {"Executed", "Canceled"} :
        LET r == [b EXCEPT !.status = s]
        IN r \in Ballots /\ r.status = s /\ r.start_time = b.start_time /\ r.end_time = b.end_time
  BY <1>1 DEF Ballots
<1>6. CASE \E u \in Users, type \in {"For", "Against", "Abstain"} : Gov!Vote(u, id, type)
  BY <1>1, <1>2, <1>6 DEF Ballots
<1>7. CASE Gov!Execute(id)
  BY <1>1, <1>3, <1>5, <1>7 DEF Ballots
<1>8. CASE Gov!Cancel(id)
  BY <1>1, <1>4, <1>5, <1>8 DEF Ballots
<1>9. QED
  BY <1>6, <1>7, <1>8

\* A call about something else leaves the proposals alone.
LEMMA OthersStep ==
  ASSUME Parameters, BallotInv, [Gov!Next]_(Gov!vars),
         ~ \E u \in Users, c \in Actions : Gov!Propose(u, c),
         ~ \E id \in DOMAIN proposal :
             \/ \E u \in Users, type \in {"For", "Against", "Abstain"} : Gov!Vote(u, id, type)
             \/ Gov!Execute(id) \/ Gov!Cancel(id)
  PROVE  BallotInv' /\ proposal' = proposal
<1> DEFINE OthersKept == /\ proposal' = proposal /\ now' \in Nat /\ now' >= now
                   /\ config' \in Configs \cup {None}
                   /\ deposited' \in [Users -> Int] /\ power' \in [Users -> Int]
                   /\ delegatee' \in [Users -> Users]
<1> USE DEF BallotInv, BallotsTyped, Gov!deposits, Gov!ballots
<1>1. ASSUME NEW c \in Configs, Gov!Initialize(c) PROVE OthersKept
  BY <1>1 DEF Gov!Initialize
<1>2. ASSUME NEW u \in Users, NEW n \in Amounts, Gov!Deposit(u, n) PROVE OthersKept
  BY <1>2 DEF Gov!Deposit, Parameters
<1>3. ASSUME NEW u \in Users, NEW n \in Amounts, Gov!Withdraw(u, n) PROVE OthersKept
  BY <1>3 DEF Gov!Withdraw, Parameters
<1>4. ASSUME NEW u \in Users, NEW v \in Users, Gov!Delegate(u, v) PROVE OthersKept
  BY <1>4 DEF Gov!Delegate
<1>5. ASSUME NEW n \in 1 .. MaxThreshold, Gov!InitializeMultisig(n) PROVE OthersKept
  BY <1>5 DEF Gov!InitializeMultisig
<1>6. ASSUME NEW u \in Users, Gov!ProposeAdminAction(u) PROVE OthersKept
  BY <1>6 DEF Gov!ProposeAdminAction
<1>7. ASSUME NEW id \in DOMAIN action, Gov!ExecuteAdminAction(id) PROVE OthersKept
  BY <1>7 DEF Gov!ExecuteAdminAction
<1>8. ASSUME NEW id \in DOMAIN action, NEW u \in Users, Gov!SignAdminAction(u, id) PROVE OthersKept
  BY <1>8 DEF Gov!SignAdminAction
<1>9. ASSUME Gov!Tick \/ UNCHANGED Gov!vars PROVE OthersKept
  BY <1>9 DEF Gov!Tick, Gov!vars
<1>10. OthersKept
  <2> HIDE DEF OthersKept, BallotInv, BallotsTyped, Gov!deposits, Gov!ballots
  <2> QED
    BY <1>1, <1>2, <1>3, <1>4, <1>5, <1>6, <1>7, <1>8, <1>9 DEF Gov!Next
<1>11. VotesBeforeExecution'
  <2> SUFFICES ASSUME NEW id \in DOMAIN proposal
               PROVE  /\ proposal[id].start_time <= proposal[id].end_time
                      /\ proposal[id].status = "Executed" => now' > proposal[id].end_time
    BY <1>10 DEF VotesBeforeExecution
  <2>1. proposal[id] \in Ballots
    OBVIOUS
  <2>2. proposal[id].end_time \in Nat
    BY <2>1 DEF Ballots
  <2>3. QED
    BY <1>10, <2>2 DEF VotesBeforeExecution
<1>12. QED
  BY <1>10, <1>11

\* Every step leaves the invariant in force.
LEMMA BallotsStep == Parameters /\ BallotInv /\ [Gov!Next]_(Gov!vars) => BallotInv'
<1> SUFFICES ASSUME Parameters, BallotInv, [Gov!Next]_(Gov!vars) PROVE BallotInv'
  OBVIOUS
<1>1. CASE \E u \in Users, c \in Actions : Gov!Propose(u, c)
  BY <1>1, BallotsPropose
<1>2. ASSUME NEW id \in DOMAIN proposal,
             \/ \E u \in Users, type \in {"For", "Against", "Abstain"} : Gov!Vote(u, id, type)
             \/ Gov!Execute(id) \/ Gov!Cancel(id)
      PROVE  BallotInv'
  <2>1. PICK r \in Ballots :
           /\ proposal' = [proposal EXCEPT ![id] = r]
           /\ now' = now
           /\ UNCHANGED <<config, deposited, power, delegatee>>
           /\ r.start_time = proposal[id].start_time /\ r.end_time = proposal[id].end_time
           /\ r.status = "Executed" => now > r.end_time
    BY <1>2, BallotChanges
  <2>2. BallotsTyped'
    BY <2>1 DEF BallotInv, BallotsTyped
  <2>3. VotesBeforeExecution'
    BY <2>1 DEF BallotInv, BallotsTyped, VotesBeforeExecution
  <2>4. QED
    BY <2>2, <2>3 DEF BallotInv
<1>3. QED
  BY <1>1, <1>2, OthersStep

\* A proposal is opened when it is made; votes, executions and cancellations
\* bring it closer to a decision, decide it, or leave it as it was decided.
LEMMA StepDecides == Parameters /\ BallotInv /\ [Gov!Next]_(Gov!vars) => [Gov!D!Next]_ProposalStates
<1> SUFFICES ASSUME Parameters, BallotInv, [Gov!Next]_(Gov!vars) PROVE Gov!D!Next \/ UNCHANGED ProposalStates
  OBVIOUS
<1>1. ASSUME NEW u \in Users, NEW call \in Actions, Gov!Propose(u, call) PROVE Gov!D!Next
  <2> DEFINE id == Len(proposal) + 1
  <2>1. BallotInv' /\ Len(proposal') = id
    BY <1>1, BallotsPropose
  <2>2. /\ \A i \in DOMAIN proposal : proposal'[i] = proposal[i]
        /\ proposal'[id].status = "Pending"
    BY <1>1, BallotsPropose
  <2>3. id \in 1 .. MaxProposals /\ DOMAIN proposal' = DOMAIN proposal \cup {id}
          /\ id \notin DOMAIN proposal
    <3>1. /\ proposal \in Seq(Ballots) /\ proposal' \in Seq(Ballots)
          /\ Len(proposal') <= MaxProposals /\ MaxProposals \in Nat
      BY <2>1 DEF BallotInv, BallotsTyped, Parameters
    <3>2. DOMAIN proposal = 1 .. Len(proposal) /\ DOMAIN proposal' = 1 .. Len(proposal')
            /\ Len(proposal) \in Nat
      BY <3>1
    <3>3. QED
      BY <2>1, <3>1, <3>2
  <2>4. ProposalStates' = [ProposalStates EXCEPT ![id] = "Pending"] /\ ProposalStates[id] = "none"
    <3> HIDE DEF id
    <3> QED
      BY <2>2, <2>3 DEF ProposalStates
  <2>5. QED
    BY <2>3, <2>4 DEF Gov!D!Next, Gov!D!Proceed, Gov!D!Becomes, ProposalStates
<1>2. ASSUME NEW id \in DOMAIN proposal,
             \/ \E u \in Users, type \in {"For", "Against", "Abstain"} : Gov!Vote(u, id, type)
             \/ Gov!Execute(id) \/ Gov!Cancel(id)
      PROVE  Gov!D!Next \/ UNCHANGED ProposalStates
  <2>1. PICK r \in Ballots :
           /\ proposal' = [proposal EXCEPT ![id] = r]
           /\ \/ r.status = proposal[id].status
              \/ proposal[id].status \in {"Pending", "Active"}
    BY <1>2, BallotChanges
  <2>2. id \in 1 .. MaxProposals /\ ProposalStates[id] = proposal[id].status
    BY DEF BallotInv, BallotsTyped, Parameters, ProposalStates
  <2>3. ProposalStates' = [ProposalStates EXCEPT ![id] = r.status]
    BY <2>1, <2>2 DEF ProposalStates, BallotInv, BallotsTyped
  <2>4. r.status \in {"Pending", "Active", "Executed", "Canceled"}
    BY DEF Ballots
  <2>5. CASE r.status = proposal[id].status
    BY <2>2, <2>3, <2>5 DEF ProposalStates
  <2>6. CASE proposal[id].status \in {"Pending", "Active"}
    BY <2>2, <2>3, <2>4, <2>6 DEF Gov!D!Next, Gov!D!Proceed, Gov!D!Decide, Gov!D!Becomes, ProposalStates
  <2>7. QED
    BY <2>1, <2>5, <2>6
<1>3. CASE proposal' = proposal
  BY <1>3 DEF ProposalStates
<1>4. QED
  BY <1>1, <1>2, <1>3, OthersStep

\* A proposal of the governance contract is executed or canceled, once, for any
\* deposits, times and numbers of proposals: although neither vote nor cancel
\* looks at the status, the times of the voting keep them apart.
THEOREM ProposalsDecidedOnce == ASSUME Parameters PROVE Gov!Spec => Gov!DecidedOnce
<1>1. Gov!Init => BallotInv
  BY BallotsInit
<1>2. Gov!Init => Gov!D!Init
  BY DEF Gov!Init, Gov!D!Init
<1>3. BallotInv /\ [Gov!Next]_(Gov!vars) => BallotInv'
  BY BallotsStep
<1>4. BallotInv /\ [Gov!Next]_(Gov!vars) => [Gov!D!Next]_ProposalStates
  BY StepDecides
<1>5. QED
  BY <1>1, <1>2, <1>3, <1>4, PTL DEF Gov!Spec, Gov!DecidedOnce, Gov!D!Spec, ProposalStates

=============================================================================
