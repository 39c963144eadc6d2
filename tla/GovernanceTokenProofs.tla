------------------------ MODULE GovernanceTokenProofs ------------------------
(***************************************************************************)
(* GovernanceToken is correct for any accounts, amounts and configurations *)
(* and any number of ledgers: voting power is conserved, the outcome of a  *)
(* vote is settled when its time is over, the binary search over the       *)
(* checkpoints of an account finds the power at the close of every past    *)
(* ledger, votes weigh that power, and only a majority queues a proposal.  *)
(***************************************************************************)
EXTENDS GovernanceToken, TokenUnitsProofs, TLAPS

\* What the accounts whose delegate in d is account a own in b.
Backing(b, d, a) == [x \in Addr |-> IF d[x] = a THEN b[x] ELSE 0]

\* The powers p are what the balances b and the delegates d amount to.
Backed(b, d, p) ==
  /\ b \in [Addr -> Nat] /\ d \in [Addr -> Addr] /\ p \in [Addr -> Nat]
  /\ \A a \in Addr : p[a] = Total(Backing(b, d, a))

\* Balances backed by powers have a backing of natural numbers.
LEMMA BackingType ==
  ASSUME NEW b \in [Addr -> Nat], NEW d \in [Addr -> Addr], NEW a
  PROVE  Backing(b, d, a) \in [Addr -> Nat]
BY DEF Backing

\* An account that gets m tokens gives m of power to its delegate.
LEMMA BackedRaise ==
  ASSUME NEW b, NEW d, NEW p, Backed(b, d, p), NEW x \in Addr, NEW m \in Nat
  PROVE  /\ Backed([b EXCEPT ![x] = @ + m], d, [p EXCEPT ![d[x]] = @ + m])
         /\ Total([b EXCEPT ![x] = @ + m]) = Total(b) + m
<1> DEFINE c == [b EXCEPT ![x] = @ + m]
           q == [p EXCEPT ![d[x]] = @ + m]
<1>1. b \in [Addr -> Nat] /\ d \in [Addr -> Addr] /\ p \in [Addr -> Nat] /\ d[x] \in Addr
  BY DEF Backed
<1>2. c \in [Addr -> Nat] /\ c[x] = b[x] + m /\ \A y \in Addr \ {x} : c[y] = b[y]
  BY <1>1
<1>3. q \in [Addr -> Nat] /\ q[d[x]] = p[d[x]] + m /\ \A a \in Addr \ {d[x]} : q[a] = p[a]
  BY <1>1
<1> HIDE DEF c, q
<1>4. IsFiniteSet(Addr)
  BY GovernanceAssumption
<1>5. Total(c) = Total(b) + m
  BY <1>1, <1>2, <1>4, TotalRaise
<1>6. ASSUME NEW a \in Addr PROVE q[a] = Total(Backing(c, d, a))
  <2>1. Backing(b, d, a) \in [Addr -> Nat] /\ Backing(c, d, a) \in [Addr -> Nat]
    BY <1>1, <1>2, BackingType
  <2>2. p[a] = Total(Backing(b, d, a))
    BY DEF Backed
  <2>3. CASE a = d[x]
    <3>1. /\ Backing(c, d, a)[x] = Backing(b, d, a)[x] + m
          /\ \A y \in Addr \ {x} : Backing(c, d, a)[y] = Backing(b, d, a)[y]
      BY <1>2, <2>3 DEF Backing
    <3>2. Total(Backing(c, d, a)) = Total(Backing(b, d, a)) + m
      BY <1>4, <2>1, <3>1, TotalRaise
    <3> QED BY <1>3, <2>2, <2>3, <3>2
  <2>4. CASE a # d[x]
    <3>1. \A y \in Addr : (IF d[y] = a THEN c[y] ELSE 0) = (IF d[y] = a THEN b[y] ELSE 0)
      BY <1>2, <2>4
    <3>2. Backing(c, d, a) = Backing(b, d, a)
      BY <3>1 DEF Backing
    <3> QED BY <1>3, <2>2, <2>4, <3>2
  <2> QED BY <2>3, <2>4
<1>7. Backed(c, d, q)
  BY <1>1, <1>2, <1>3, <1>6 DEF Backed
<1> QED BY <1>5, <1>7 DEF c, q

\* An account that gives m tokens away takes m of power from its delegate.
LEMMA BackedLower ==
  ASSUME NEW b, NEW d, NEW p, Backed(b, d, p), NEW x \in Addr, NEW m \in Nat, m <= b[x]
  PROVE  /\ Backed([b EXCEPT ![x] = @ - m], d, [p EXCEPT ![d[x]] = @ - m])
         /\ Total([b EXCEPT ![x] = @ - m]) = Total(b) - m
<1> DEFINE c == [b EXCEPT ![x] = @ - m]
           q == [p EXCEPT ![d[x]] = @ - m]
<1>1. b \in [Addr -> Nat] /\ d \in [Addr -> Addr] /\ p \in [Addr -> Nat] /\ d[x] \in Addr
  BY DEF Backed
<1>2. c \in [Addr -> Nat] /\ c[x] = b[x] - m /\ \A y \in Addr \ {x} : c[y] = b[y]
  <2>1. b[x] \in Nat /\ b[x] - m \in Nat
    BY <1>1
  <2> QED BY <1>1, <2>1
<1>3. q[d[x]] = p[d[x]] - m /\ (\A a \in Addr \ {d[x]} : q[a] = p[a])
      /\ q = [a \in Addr |-> q[a]]
  <2>1. q[d[x]] = p[d[x]] - m
    BY <1>1
  <2>2. \A a \in Addr \ {d[x]} : q[a] = p[a]
    BY <1>1
  <2>3. q = [a \in Addr |-> q[a]]
    BY <1>1
  <2> QED BY <2>1, <2>2, <2>3
<1> HIDE DEF c, q
<1>4. IsFiniteSet(Addr)
  BY GovernanceAssumption
<1>5. Total(c) = Total(b) - m
  BY SMTT(30), <1>1, <1>2, <1>4, TotalLower
<1>6. ASSUME NEW a \in Addr PROVE q[a] = Total(Backing(c, d, a)) /\ q[a] \in Nat
  <2>1. Backing(b, d, a) \in [Addr -> Nat] /\ Backing(c, d, a) \in [Addr -> Nat]
    BY <1>1, <1>2, BackingType
  <2>2. p[a] = Total(Backing(b, d, a)) /\ Total(Backing(c, d, a)) \in Nat
    BY <1>4, <2>1, UnitsFinite DEF Backed
  <2>3. CASE a = d[x]
    <3>1. /\ Backing(c, d, a)[x] = Backing(b, d, a)[x] - m
          /\ \A y \in Addr \ {x} : Backing(c, d, a)[y] = Backing(b, d, a)[y]
      BY <1>2, <2>3 DEF Backing
    <3>2. Total(Backing(c, d, a)) = Total(Backing(b, d, a)) - m
      BY <1>4, <2>1, <3>1, TotalLower
    <3> QED BY <1>3, <2>2, <2>3, <3>2
  <2>4. CASE a # d[x]
    <3>1. \A y \in Addr : (IF d[y] = a THEN c[y] ELSE 0) = (IF d[y] = a THEN b[y] ELSE 0)
      BY <1>2, <2>4
    <3>2. Backing(c, d, a) = Backing(b, d, a)
      BY <3>1 DEF Backing
    <3> QED BY <1>3, <2>2, <2>4, <3>2
  <2> QED BY <2>3, <2>4
<1>7. Backed(c, d, q)
  BY <1>1, <1>2, <1>3, <1>6 DEF Backed
<1> QED BY <1>5, <1>7 DEF c, q

\* An account without tokens chooses its delegate freely.
LEMMA BackedRedirect ==
  ASSUME NEW b, NEW d, NEW p, Backed(b, d, p), NEW x \in Addr, NEW y \in Addr, b[x] = 0
  PROVE  Backed(b, [d EXCEPT ![x] = y], p)
<1> DEFINE e == [d EXCEPT ![x] = y]
<1>1. b \in [Addr -> Nat] /\ d \in [Addr -> Addr] /\ p \in [Addr -> Nat]
  BY DEF Backed
<1>2. e \in [Addr -> Addr] /\ \A z \in Addr \ {x} : e[z] = d[z]
  BY <1>1
<1> HIDE DEF e
<1>3. ASSUME NEW a \in Addr PROVE Backing(b, e, a) = Backing(b, d, a)
  <2>1. \A z \in Addr : (IF e[z] = a THEN b[z] ELSE 0) = (IF d[z] = a THEN b[z] ELSE 0)
    BY <1>2
  <2> QED BY <2>1 DEF Backing
<1>4. Backed(b, e, p)
  BY <1>1, <1>2, <1>3 DEF Backed
<1> QED BY <1>4 DEF e

-----------------------------------------------------------------------------
\* The inductive invariant.  The last conjunct is there for initialize, which
\* resets the supply: nothing has been minted before it.
Conserved ==
  /\ Backed(bal, delegate, power)
  /\ supply = Total(bal)
  /\ config = NoConfig => supply = 0

\* The power after MovePower.
LEMMA MovedPower ==
  ASSUME NEW src \in Addr, NEW dst \in Addr, NEW m, MovePower(src, dst, m),
         power \in [Addr -> Nat]
  PROVE  power' = [[power EXCEPT ![src] = @ - m] EXCEPT ![dst] = @ + m]
BY DEF MovePower, SetPower, StorePower

\* mint raises the supply, the balance of the receiver and the power of its
\* delegate by the same amount.
LEMMA MintConserves ==
  ASSUME Conserved, NEW to \in Addr, NEW m \in Amounts, Mint(to, m)
  PROVE  Conserved'
<1>1. m \in Nat
  BY GovernanceAssumption DEF Mint
<1>2. /\ Backed([bal EXCEPT ![to] = @ + m], delegate, [power EXCEPT ![delegate[to]] = @ + m])
      /\ Total([bal EXCEPT ![to] = @ + m]) = Total(bal) + m
  BY <1>1, BackedRaise DEF Conserved
<1>3. power' = [power EXCEPT ![delegate[to]] = @ + m]
  BY DEF Mint, SetPower, StorePower
<1> QED BY <1>2, <1>3 DEF Conserved, Mint

\* burn lowers the three by the same amount.
LEMMA BurnConserves ==
  ASSUME Conserved, NEW from \in Addr, NEW m \in Amounts, Burn(from, m)
  PROVE  Conserved'
<1>1. m \in Nat /\ m <= bal[from]
  BY GovernanceAssumption DEF Burn, Conserved, Backed
<1>2. /\ Backed([bal EXCEPT ![from] = @ - m], delegate, [power EXCEPT ![delegate[from]] = @ - m])
      /\ Total([bal EXCEPT ![from] = @ - m]) = Total(bal) - m
  BY <1>1, BackedLower DEF Conserved
<1>3. power' = [power EXCEPT ![delegate[from]] = @ - m]
  BY DEF Burn, SetPower, StorePower
<1>4. supply # 0
  <2>1. bal[from] <= Total(bal) /\ Total(bal) \in Nat
    BY GovernanceAssumption, TotalCovers, UnitsFinite DEF Conserved, Backed
  <2>2. m > 0 /\ bal[from] \in Nat
    BY DEF Burn, Conserved, Backed
  <2> QED BY <1>1, <2>1, <2>2 DEF Conserved
<1> QED BY <1>2, <1>3, <1>4 DEF Conserved, Burn

\* Tokens that move between holders, by transfer or transfer_from.
LEMMA MoveConserves ==
  ASSUME Conserved, NEW from \in Addr, NEW to \in Addr, NEW m \in Amounts,
         MoveTokens(from, to, m), UNCHANGED <<delegate, supply, config>>
  PROVE  Conserved'
<1> DEFINE b1 == [bal EXCEPT ![from] = @ - m]
           p1 == [power EXCEPT ![delegate[from]] = @ - m]
<1>1. m \in Nat /\ m <= bal[from]
  BY GovernanceAssumption DEF MoveTokens, Conserved, Backed
<1>2. Backed(b1, delegate, p1) /\ Total(b1) = Total(bal) - m
  BY <1>1, BackedLower DEF Conserved
<1>3. power' = [p1 EXCEPT ![delegate[to]] = @ + m]
  BY MovedPower DEF MoveTokens, Conserved, Backed
<1>4. bal' = [b1 EXCEPT ![to] = @ + m]
  BY DEF MoveTokens
<1> HIDE DEF b1, p1
<1>5. Backed(bal', delegate, power') /\ Total(bal') = Total(b1) + m
  BY <1>1, <1>2, <1>3, <1>4, BackedRaise
<1>6. Total(bal) \in Nat
  BY GovernanceAssumption, UnitsFinite DEF Conserved, Backed
<1>7. Total(bal') = Total(bal)
  BY <1>1, <1>2, <1>5, <1>6
<1> QED BY <1>5, <1>7 DEF Conserved

\* delegate takes the power of a holder's balance along to the new delegate.
LEMMA DelegateConserves ==
  ASSUME Conserved, NEW x \in Addr, NEW y \in Addr, Delegate(x, y)
  PROVE  Conserved'
<1>1. /\ delegate' = [delegate EXCEPT ![x] = y] /\ bal' = bal /\ supply' = supply
      /\ bal \in [Addr -> Nat] /\ delegate \in [Addr -> Addr] /\ power \in [Addr -> Nat]
      /\ bal[x] \in Nat
  BY DEF Delegate, balances, Conserved, Backed
<1>2. CASE bal[x] > 0
  <2> DEFINE m == bal[x]
             b0 == [bal EXCEPT ![x] = @ - m]
             p0 == [power EXCEPT ![delegate[x]] = @ - m]
  <2>0. m \in Nat /\ m <= bal[x]
    BY <1>1
  <2> HIDE DEF m
  <2>1. Backed(b0, delegate, p0)
    BY <2>0, BackedLower DEF Conserved
  <2>2. b0[x] = 0
    BY <1>1 DEF m
  <2>3. bal = [b0 EXCEPT ![x] = @ + m]
    <3>1. [b0 EXCEPT ![x] = @ + m] = [bal EXCEPT ![x] = (bal[x] - m) + m]
      BY <1>1
    <3>2. (bal[x] - m) + m = bal[x]
      BY <1>1, <2>0
    <3> QED BY <1>1, <3>1, <3>2
  <2>4. power' = [p0 EXCEPT ![y] = @ + m]
    BY <1>1, <1>2, MovedPower DEF Delegate, m
  <2> HIDE DEF b0, p0
  <2>5. Backed(b0, delegate', p0) /\ delegate'[x] = y
    BY <1>1, <2>1, <2>2, BackedRedirect
  <2>6. Backed(bal, delegate', power')
    BY <2>0, <2>3, <2>4, <2>5, BackedRaise
  <2> QED BY <1>1, <2>6 DEF Conserved, Delegate
<1>3. CASE ~(bal[x] > 0)
  <2>1. bal[x] = 0 /\ power' = power
    BY <1>1, <1>3 DEF Delegate
  <2>2. Backed(bal, delegate', power)
    BY <1>1, <2>1, BackedRedirect DEF Conserved
  <2> QED BY <1>1, <2>1, <2>2 DEF Conserved, Delegate
<1> QED BY <1>2, <1>3

\* At the start there are no tokens and no power.
LEMMA InitConserved == Init => Conserved
<1> SUFFICES ASSUME Init PROVE Conserved
  OBVIOUS
<1>1. bal \in [Addr -> Nat] /\ delegate \in [Addr -> Addr] /\ power \in [Addr -> Nat]
  BY DEF Init
<1>2. Total(bal) = 0
  BY <1>1, TotalZero DEF Init
<1>3. ASSUME NEW a \in Addr PROVE Total(Backing(bal, delegate, a)) = 0
  <2>1. Backing(bal, delegate, a) \in [Addr -> Nat]
    BY <1>1, BackingType
  <2>2. \A x \in Addr : Backing(bal, delegate, a)[x] = 0
    BY DEF Backing, Init
  <2> QED BY <2>1, <2>2, TotalZero
<1> QED BY <1>1, <1>2, <1>3 DEF Conserved, Backed, Init

\* Every step keeps the two sums in balance.
LEMMA NextConserves == Conserved /\ [Next]_vars => Conserved'
<1> SUFFICES ASSUME Conserved, [Next]_vars PROVE Conserved'
  OBVIOUS
<1>1. ASSUME NEW c \in Configs, Initialize(c) PROVE Conserved'
  BY <1>1 DEF Initialize, Conserved, voting
<1>2. ASSUME NEW a \in Addr, NEW m \in Amounts, Mint(a, m) PROVE Conserved'
  BY <1>2, MintConserves
<1>3. ASSUME NEW a \in Addr, NEW m \in Amounts, Burn(a, m) PROVE Conserved'
  BY <1>3, BurnConserves
<1>4. ASSUME NEW a \in Addr, NEW b \in Addr, NEW m \in Amounts, Transfer(a, b, m)
      PROVE  Conserved'
  BY <1>4, MoveConserves DEF Transfer
<1>5. ASSUME NEW s \in Spenders, NEW a \in Addr, NEW b \in Addr, NEW m \in Amounts,
             TransferFrom(s, a, b, m)
      PROVE  Conserved'
  BY <1>5, MoveConserves DEF TransferFrom
<1>6. ASSUME NEW a \in Addr, NEW b \in Addr, Delegate(a, b) PROVE Conserved'
  BY <1>6, DelegateConserves
<1>7. ASSUME UNCHANGED <<config, bal, supply, delegate, power>> PROVE Conserved'
  BY <1>7 DEF Conserved
<1>8. ASSUME NEW a \in Addr, NEW s \in Spenders, NEW m \in Amounts, Approve(a, s, m)
      PROVE  Conserved'
  BY <1>7, <1>8 DEF Approve, balances, voting
<1>9. ASSUME NEW a \in Addr, Propose(a) PROVE Conserved'
  BY <1>7, <1>9 DEF Propose, balances, voting
<1>10. ASSUME NEW id \in Ids, NEW a \in Addr, NEW v \in VoteType, Vote(a, id, v)
       PROVE  Conserved'
  BY <1>7, <1>10 DEF Vote, balances, voting
<1>11. ASSUME NEW id \in Ids, Queue(id) \/ Execute(id) \/ Cancel(id) PROVE Conserved'
  BY <1>7, <1>11 DEF Queue, Execute, Cancel, balances, voting
<1>12. ASSUME NextLedger PROVE Conserved'
  BY <1>7, <1>12 DEF NextLedger, balances, voting
<1>13. ASSUME UNCHANGED vars PROVE Conserved'
  BY <1>7, <1>13 DEF vars, balances, voting
<1> QED
  BY <1>1, <1>2, <1>3, <1>4, <1>5, <1>6, <1>8, <1>9, <1>10, <1>11, <1>12, <1>13 DEF Next

\* Voting power is neither created nor lost: in every reachable state it is,
\* account by account, what the holders who delegate to the account own, and
\* the supply is what all own.
THEOREM PowerConserved == Spec => []PowerIsDelegated
<1>1. Conserved => PowerIsDelegated
  BY DEF Conserved, Backed, Backing, PowerIsDelegated, Delegated
<1> QED BY <1>1, InitConserved, NextConserves, PTL DEF Spec

-----------------------------------------------------------------------------
\* What the times of a proposal need of its record, whatever its votes and its
\* quorum are.
Shaped(p) ==
  p \in [proposer : {p.proposer}, start_time : Nat, end_time : Nat,
         snapshot_sequence : {p.snapshot_sequence}, votes : {p.votes},
         status : ProposalStatus, quorum : {p.quorum}, eta : Nat]

\* A stored proposal ends no earlier than it starts, and if it was queued its
\* timelock began after its end.
InOrder(p) ==
  /\ Shaped(p)
  /\ p.start_time <= p.end_time
  /\ p.status \in {"Queued", "Executed"} => p.eta > p.end_time + config.timelock_delay

Timed ==
  /\ ledger \in Nat /\ count \in Nat
  /\ config \in GovernanceConfig \cup {NoConfig}
  /\ proposal = [id \in Ids |-> proposal[id]]
  /\ \A id \in Ids : proposal[id] # NoProposal =>
       id <= count /\ config # NoConfig /\ InOrder(proposal[id])

\* What a step may do to a proposal.
Settled(id) ==
  LET p == proposal[id]
      q == proposal'[id]
  IN p # NoProposal /\ ledger > p.end_time =>
       /\ q.votes = p.votes /\ q.quorum = p.quorum
       /\ p.status \in {"Executed", "Canceled"} => q = p
       /\ p.status = "Queued" => q.eta = p.eta /\ q.status \in {"Queued", "Executed"}
       /\ p.status # "Executed" /\ q.status = "Executed" =>
            /\ ledger > p.end_time + config.timelock_delay
            /\ ledger - p.eta \in 0 .. config.grace_period

\* At the start there are no proposals.
LEMMA InitTimed == Init => Timed
BY DEF Init, Timed

\* A step that leaves the proposals alone.
LEMMA QuietTimed ==
  ASSUME Timed, UNCHANGED <<config, count, proposal>>, ledger' \in Nat
  PROVE  Timed' /\ \A id \in Ids : Settled(id)
<1>1. \A id \in Ids : InOrder(proposal[id]) => InOrder(proposal[id])'
  BY DEF InOrder, Shaped
<1>2. Timed'
  BY <1>1 DEF Timed
<1>3. ASSUME NEW id \in Ids PROVE Settled(id)
  BY DEF Timed, InOrder, Shaped, Settled
<1> QED BY <1>2, <1>3

\* A step that changes one proposal.
LEMMA OneTimed ==
  ASSUME Timed, UNCHANGED <<ledger, config, count>>, NEW id \in Ids,
         proposal[id] # NoProposal, NEW q, proposal' = [proposal EXCEPT ![id] = q],
         InOrder(q), proposal'[id] = q => Settled(id)
  PROVE  Timed' /\ \A i \in Ids : Settled(i)
<1>1. proposal'[id] = q /\ \A i \in Ids \ {id} : proposal'[i] = proposal[i]
  BY DEF Timed
<1>3. Timed'
  <2>1. proposal' = [i \in Ids |-> proposal'[i]]
    BY DEF Timed
  <2>2. ASSUME NEW i \in Ids, proposal'[i] # NoProposal
        PROVE  i <= count' /\ config' # NoConfig /\ InOrder(proposal[i])'
    <3>1. CASE i = id
      BY <1>1, <3>1 DEF Timed, InOrder, Shaped
    <3>2. CASE i # id
      BY <1>1, <2>2, <3>2 DEF Timed, InOrder, Shaped
    <3> QED BY <3>1, <3>2
  <2> QED BY <2>1, <2>2 DEF Timed
<1>4. ASSUME NEW i \in Ids, i # id PROVE Settled(i)
  BY <1>1, <1>4 DEF Timed, InOrder, Shaped, Settled
<1> QED BY <1>1, <1>3, <1>4

\* A vote counts before the end only.
LEMMA VoteTimed ==
  ASSUME Timed, NEW a \in Addr, NEW id \in Ids, NEW v \in VoteType, Vote(a, id, v)
  PROVE  Timed' /\ \A i \in Ids : Settled(i)
<1> DEFINE p == proposal[id]
           w == [p.votes EXCEPT ![v] = @ + VoteWeight(a, p)]
           q == [[p EXCEPT !.votes = w] EXCEPT !.status = IF @ = "Pending" THEN "Active" ELSE @]
<1>1. /\ p # NoProposal /\ ledger <= p.end_time /\ UNCHANGED <<ledger, config, count>>
      /\ proposal' = [proposal EXCEPT ![id] = q]
  BY DEF Vote, ApplyVote, balances, voting, Timed
<1>2. InOrder(p) /\ ledger \in Nat
  BY <1>1 DEF Timed
<1>3. InOrder(q)
  <2> HIDE DEF w
  <2> QED BY <1>2 DEF InOrder, Shaped, ProposalStatus
<1>4. Settled(id)
  BY <1>1, <1>2 DEF Settled, InOrder, Shaped
<1> HIDE DEF q
<1> QED BY <1>1, <1>3, <1>4, OneTimed

\* queue, execute and cancel.
LEMMA DecideTimed ==
  ASSUME Timed, NEW id \in Ids, Queue(id) \/ Execute(id) \/ Cancel(id)
  PROVE  Timed' /\ \A i \in Ids : Settled(i)
<1> DEFINE p == proposal[id]
<1>0. p # NoProposal
  BY DEF Queue, Execute, Cancel, NoProposal
<1>1. /\ InOrder(p) /\ ledger \in Nat /\ config.timelock_delay \in Nat
      /\ config.grace_period \in Nat
  BY <1>0 DEF Timed, GovernanceConfig
<1>2. CASE Queue(id)
  <2> DEFINE e == ledger + config.timelock_delay
             q == [[p EXCEPT !.eta = e] EXCEPT !.status = "Queued"]
  <2>1. UNCHANGED <<ledger, config, count>> /\ proposal' = [proposal EXCEPT ![id] = q]
    BY <1>2 DEF Queue, balances, voting, Timed
  <2>2. /\ e \in Nat /\ e > p.end_time + config.timelock_delay
        /\ p.status \in {"Pending", "Active"}
    BY <1>1, <1>2 DEF Queue, InOrder, Shaped
  <2> HIDE DEF e
  <2>3. InOrder(q)
    BY <1>1, <2>2 DEF InOrder, Shaped, ProposalStatus
  <2>4. proposal'[id] = q => Settled(id)
    <3>1. q.votes = p.votes /\ q.quorum = p.quorum /\ q.status = "Queued"
      BY <1>1 DEF InOrder, Shaped
    <3> HIDE DEF q
    <3> QED BY <2>2, <3>1 DEF Settled
  <2> HIDE DEF q
  <2> QED BY <1>0, <2>1, <2>3, <2>4, OneTimed
<1>3. CASE Execute(id)
  <2> DEFINE q == [p EXCEPT !.status = "Executed"]
  <2>1. UNCHANGED <<ledger, config, count>> /\ proposal' = [proposal EXCEPT ![id] = q]
    BY <1>3 DEF Execute, balances, voting, Timed
  <2>2. InOrder(q)
    BY <1>1, <1>3 DEF Execute, InOrder, Shaped, ProposalStatus
  <2>3. proposal'[id] = q => Settled(id)
    BY <1>1, <1>3 DEF Settled, Execute, InOrder, Shaped
  <2> HIDE DEF q
  <2> QED BY <1>0, <2>1, <2>2, <2>3, OneTimed
<1>4. CASE Cancel(id)
  <2> DEFINE q == [p EXCEPT !.status = "Canceled"]
  <2>1. UNCHANGED <<ledger, config, count>> /\ proposal' = [proposal EXCEPT ![id] = q]
    BY <1>4 DEF Cancel, balances, voting, Timed
  <2>2. InOrder(q)
    BY <1>1, <1>4 DEF Cancel, InOrder, Shaped, ProposalStatus
  <2>3. proposal'[id] = q => Settled(id)
    BY <1>1, <1>4 DEF Settled, Cancel, InOrder, Shaped
  <2> HIDE DEF q
  <2> QED BY <1>0, <2>1, <2>2, <2>3, OneTimed
<1> QED BY <1>2, <1>3, <1>4

\* propose takes a number that is free.
LEMMA ProposeTimed ==
  ASSUME Timed, NEW a \in Addr, Propose(a)
  PROVE  Timed' /\ \A i \in Ids : Settled(i)
<1> DEFINE start == ledger + config.voting_delay
           n == count + 1
           q == [proposer |-> a, start_time |-> start,
                 end_time |-> start + config.voting_period, snapshot_sequence |-> ledger,
                 votes |-> [v \in VoteType |-> 0], status |-> "Pending",
                 quorum |-> (supply * config.quorum_numerator) \div 100, eta |-> 0]
<1>1. /\ config \in GovernanceConfig /\ config # NoConfig /\ n \in Ids /\ count' = n
      /\ ledger \in Nat /\ UNCHANGED <<ledger, config>>
      /\ proposal' = [proposal EXCEPT ![n] = q]
  BY GovernanceAssumption DEF Propose, Timed, Ids, balances, voting
<1>2. InOrder(q)
  <2>1. start \in Nat /\ config.voting_period \in Nat
    BY <1>1 DEF GovernanceConfig
  <2> HIDE DEF start
  <2> QED BY <2>1 DEF InOrder, Shaped, ProposalStatus
<1> HIDE DEF q
<1>3. proposal[n] = NoProposal
  BY <1>1 DEF Timed, Ids
<1>4. proposal'[n] = q /\ \A i \in Ids \ {n} : proposal'[i] = proposal[i]
  BY <1>1 DEF Timed
<1>5. Timed'
  <2>1. proposal' = [i \in Ids |-> proposal'[i]]
    BY <1>1 DEF Timed
  <2>2. ASSUME NEW i \in Ids, proposal'[i] # NoProposal
        PROVE  i <= count' /\ config' # NoConfig /\ InOrder(proposal[i])'
    <3>1. CASE i = n
      BY <1>1, <1>2, <1>4, <3>1 DEF Ids, InOrder, Shaped
    <3>2. CASE i # n
      <4>1. i <= count /\ InOrder(proposal[i]) /\ proposal'[i] = proposal[i]
        BY <1>4, <2>2, <3>2 DEF Timed
      <4> QED BY <1>1, <4>1 DEF Timed, Ids, InOrder, Shaped
    <3> QED BY <3>1, <3>2
  <2> QED BY <1>1, <2>1, <2>2 DEF Timed
<1>6. ASSUME NEW i \in Ids PROVE Settled(i)
  <2>1. CASE i = n
    BY <1>3, <2>1 DEF Settled
  <2>2. CASE i # n
    BY <1>4, <2>2 DEF Timed, InOrder, Shaped, Settled
  <2> QED BY <2>1, <2>2
<1> QED BY <1>5, <1>6

\* Every step keeps the times in order and changes no settled outcome.
LEMMA StepTimed ==
  ASSUME Timed, [Next]_vars
  PROVE  Timed' /\ \A id \in Ids : Settled(id)
<1>1. ASSUME NEW c \in Configs, Initialize(c) PROVE Timed' /\ \A id \in Ids : Settled(id)
  <2>1. \A id \in Ids : proposal[id] = NoProposal
    BY <1>1 DEF Initialize, Timed
  <2>2. c \in GovernanceConfig /\ UNCHANGED <<ledger, count, proposal>> /\ config' = c
    BY <1>1, GovernanceAssumption DEF Initialize, proposals
  <2> QED BY <2>1, <2>2 DEF Timed, Settled
<1>2. ASSUME NEW a \in Addr, Propose(a) PROVE Timed' /\ \A id \in Ids : Settled(id)
  BY <1>2, ProposeTimed
<1>3. ASSUME NEW a \in Addr, NEW id \in Ids, NEW v \in VoteType, Vote(a, id, v)
      PROVE  Timed' /\ \A i \in Ids : Settled(i)
  BY <1>3, VoteTimed
<1>4. ASSUME NEW id \in Ids, Queue(id) \/ Execute(id) \/ Cancel(id)
      PROVE  Timed' /\ \A i \in Ids : Settled(i)
  BY <1>4, DecideTimed
<1>5. ASSUME NextLedger PROVE Timed' /\ \A id \in Ids : Settled(id)
  BY <1>5, QuietTimed DEF NextLedger, proposals, Timed
<1>6. ASSUME UNCHANGED <<ledger, config, proposals>>
      PROVE  Timed' /\ \A id \in Ids : Settled(id)
  BY <1>6, QuietTimed DEF proposals, Timed
<1>7. ASSUME NEW a \in Addr, NEW m \in Amounts, Mint(a, m) \/ Burn(a, m)
      PROVE  Timed' /\ \A id \in Ids : Settled(id)
  BY <1>6, <1>7 DEF Mint, Burn
<1>8. ASSUME NEW a \in Addr, NEW b \in Addr, NEW m \in Amounts, NEW s \in Spenders,
             Approve(a, s, m) \/ TransferFrom(s, a, b, m)
      PROVE  Timed' /\ \A id \in Ids : Settled(id)
  BY <1>6, <1>8 DEF Approve, TransferFrom
<1>9. ASSUME NEW a \in Addr, NEW b \in Addr, NEW m \in Amounts, Transfer(a, b, m)
      PROVE  Timed' /\ \A id \in Ids : Settled(id)
  BY <1>6, <1>9 DEF Transfer
<1>10. ASSUME NEW a \in Addr, NEW b \in Addr, Delegate(a, b)
       PROVE  Timed' /\ \A id \in Ids : Settled(id)
  BY <1>6, <1>10 DEF Delegate
<1>11. CASE UNCHANGED vars
  BY <1>6, <1>11 DEF vars
<1> QED
  BY <1>1, <1>2, <1>3, <1>4, <1>5, <1>7, <1>8, <1>9, <1>10, <1>11 DEF Next

\* Whatever the accounts, powers, delays and times: after the end of voting
\* nothing about a proposal changes but that it is queued once and executed in
\* its time.
THEOREM OutcomesSettle == Spec => OutcomeSettled
<1>1. Timed /\ [Next]_vars => [\A id \in Ids : Settled(id)]_vars
  BY StepTimed
<1>2. Timed /\ [Next]_vars => Timed'
  BY StepTimed
<1> QED BY <1>1, <1>2, InitTimed, PTL DEF Spec, OutcomeSettled, Settled

-----------------------------------------------------------------------------
\* A checkpoint list in the order of its ledgers.
Ordered(l) ==
  /\ l \in Seq(Checkpoint)
  /\ \A i, j \in 1 .. Len(l) : i < j => l[i].sequence < l[j].sequence

\* Checkpoint i is the last one of lo .. hi at or before s, or lo if there is none.
LastOf(l, s, lo, hi, i) ==
  /\ i \in lo .. hi
  /\ i = lo \/ l[i].sequence <= s
  /\ \A j \in (i + 1) .. hi : l[j].sequence > s

\* One round of the search, the narrower ranges being left to g.
Round(l, s, g) ==
  [r \in (1 .. Len(l)) \X (1 .. Len(l)) |->
     IF r[1] >= r[2] THEN r[1]
     ELSE IF l[Middle(r[1], r[2])].sequence <= s THEN g[<<Middle(r[1], r[2]), r[2]>>]
     ELSE g[<<r[1], Middle(r[1], r[2]) - 1>>]]

\* The probe lies above low and not above high.
LEMMA MiddleRange ==
  ASSUME NEW low \in Nat, NEW high \in Nat, low < high
  PROVE  Middle(low, high) \in (low + 1) .. high
BY DEF Middle

\* The numbers in a checkpoint list.
LEMMA OrderedType ==
  ASSUME NEW l, Ordered(l)
  PROVE  /\ Len(l) \in Nat
         /\ \A i \in 1 .. Len(l) : l[i].sequence \in Nat /\ l[i].votes \in Nat
<1>1. Len(l) \in Nat /\ \A i \in 1 .. Len(l) : l[i] \in Checkpoint
  BY DEF Ordered
<1> QED BY <1>1 DEF Checkpoint

\* In every range of checkpoints there is such a one: among the distances from
\* hi at which a checkpoint at or before s is found, take the least.
LEMMA LastExists ==
  ASSUME NEW l, Ordered(l), NEW s \in Nat, NEW lo \in 1 .. Len(l), NEW hi \in lo .. Len(l)
  PROVE  \E i : LastOf(l, s, lo, hi, i)
<1> DEFINE T == {k \in 0 .. (hi - lo) : k = hi - lo \/ l[hi - k].sequence <= s}
<1>1. Len(l) \in Nat /\ lo \in Nat /\ hi \in Nat /\ lo <= hi /\ hi <= Len(l)
  BY DEF Ordered
<1>2. T \in SUBSET Nat /\ T # {}
  <2>1. hi - lo \in T
    BY <1>1
  <2>2. \A k \in T : k \in Nat
    BY <1>1
  <2> HIDE DEF T
  <2> QED BY <2>1, <2>2
<1>3. PICK k \in T : \A m \in T : k <= m
  BY <1>2, Least
<1>4. hi - k \in lo .. hi /\ (hi - k = lo \/ l[hi - k].sequence <= s)
  BY <1>1, <1>3
<1>5. ASSUME NEW j \in (hi - k + 1) .. hi PROVE l[j].sequence > s
  <2>1. /\ hi - j \in 0 .. (hi - lo) /\ hi - j < k /\ hi - j # hi - lo
        /\ j = hi - (hi - j) /\ j \in 1 .. Len(l)
    BY <1>1, <1>4, <1>3
  <2>2. ~ (l[j].sequence <= s)
    BY <2>1, <1>1, <1>3
  <2>3. l[j].sequence \in Nat
    BY <2>1, OrderedType
  <2> QED BY <2>2, <2>3
<1> HIDE DEF T
<1> QED BY <1>4, <1>5 DEF LastOf

\* The recursive definition of the search is the equation it states, if some
\* function satisfies that equation.
LEMMA SearchRound ==
  ASSUME NEW l, NEW s, NEW h, h = Round(l, s, h)
  PROVE  Search(l, s) = Round(l, s, Search(l, s))
<1>1. Search(l, s) = CHOOSE f : f = Round(l, s, f)
  BY Zenon DEF Search, Round
<1> QED BY <1>1, Zenon

\* The last one of the half that a probe leaves is the last one of the whole
\* range, because the list is in order.
LEMMA LastNarrows ==
  ASSUME NEW l, Ordered(l), NEW s \in Nat,
         NEW lo \in 1 .. Len(l), NEW hi \in 1 .. Len(l), lo < hi, NEW i,
         IF l[Middle(lo, hi)].sequence <= s THEN LastOf(l, s, Middle(lo, hi), hi, i)
         ELSE LastOf(l, s, lo, Middle(lo, hi) - 1, i)
  PROVE  LastOf(l, s, lo, hi, i)
<1> DEFINE mid == Middle(lo, hi)
<1>1. Len(l) \in Nat /\ lo \in Nat /\ hi \in Nat /\ hi <= Len(l) /\ lo >= 1
  BY DEF Ordered
<1>2. mid \in (lo + 1) .. hi
  BY <1>1, MiddleRange
<1> HIDE DEF mid
<1>3. CASE l[mid].sequence <= s
  BY <1>1, <1>2, <1>3 DEF LastOf, mid
<1>4. CASE ~ (l[mid].sequence <= s)
  <2>1. LastOf(l, s, lo, mid - 1, i)
    BY <1>4 DEF mid
  <2>2. \A j \in 1 .. Len(l) : l[j].sequence \in Nat
    BY OrderedType
  <2>3. ASSUME NEW j \in (i + 1) .. hi PROVE l[j].sequence > s
    <3>1. i \in Nat /\ i >= lo /\ i <= mid - 1 /\ mid \in 1 .. Len(l) /\ j \in 1 .. Len(l)
      BY <1>1, <1>2, <2>1 DEF LastOf
    <3>2. CASE j < mid
      BY <1>1, <1>2, <2>1, <3>1, <3>2 DEF LastOf
    <3>3. CASE ~ (j < mid)
      <4>1. j = mid \/ l[mid].sequence < l[j].sequence
        BY <3>1, <3>3 DEF Ordered
      <4> QED BY <1>4, <2>2, <3>1, <4>1
    <3> QED BY <3>2, <3>3
  <2> QED BY <1>1, <1>2, <2>1, <2>3 DEF LastOf
<1> QED BY <1>3, <1>4

\* There is a function that satisfies the equation of the search: the one that
\* maps a range to the last of its checkpoints at or before s.
LEMMA RoundExists ==
  ASSUME NEW l, Ordered(l), NEW s \in Nat
  PROVE  \E h : h = Round(l, s, h)
<1> DEFINE D == (1 .. Len(l)) \X (1 .. Len(l))
           h == [r \in D |-> IF r[1] >= r[2] THEN r[1]
                         ELSE CHOOSE i : LastOf(l, s, r[1], r[2], i)]
<1>0. Len(l) \in Nat
  BY DEF Ordered
<1>1. ASSUME NEW lo \in 1 .. Len(l), NEW hi \in 1 .. Len(l), lo < hi
      PROVE  LastOf(l, s, lo, hi, h[<<lo, hi>>])
  <2>1. h[<<lo, hi>>] = CHOOSE i : LastOf(l, s, lo, hi, i)
    BY <1>0, <1>1
  <2>2. \E i : LastOf(l, s, lo, hi, i)
    BY <1>0, <1>1, LastExists
  <2> HIDE DEF h
  <2> QED BY <2>1, <2>2, Zenon
<1>2. ASSUME NEW lo \in 1 .. Len(l), NEW hi \in 1 .. Len(l), lo <= hi
      PROVE  LastOf(l, s, lo, hi, h[<<lo, hi>>])
  <2>0. lo # hi => lo < hi
    BY <1>0, <1>2
  <2>1. CASE lo = hi
    <3>1. h[<<lo, hi>>] = lo
      BY <1>0, <2>1
    <3> HIDE DEF h
    <3> QED BY <1>0, <2>1, <3>1 DEF LastOf
  <2>2. CASE lo # hi
    <3> HIDE DEF h
    <3> QED BY <2>0, <2>2, <1>1
  <2> QED BY <2>1, <2>2
<1>3. ASSUME NEW lo \in 1 .. Len(l), NEW hi \in 1 .. Len(l), lo >= hi
      PROVE  h[<<lo, hi>>] = lo
  BY <1>3
<1>4. h = [r \in D |-> h[r]]
  OBVIOUS
<1>5. ASSUME NEW lo, NEW hi, NEW i, NEW k, LastOf(l, s, lo, hi, i), LastOf(l, s, lo, hi, k),
             lo \in 1 .. Len(l), hi \in 1 .. Len(l)
      PROVE  i = k
  <2>1. \A j \in 1 .. Len(l) : l[j].sequence \in Nat
    BY OrderedType
  <2> QED BY <1>0, <1>5, <2>1 DEF LastOf
<1> HIDE DEF h
<1>6. ASSUME NEW lo \in 1 .. Len(l), NEW hi \in 1 .. Len(l)
      PROVE  h[<<lo, hi>>] = IF lo >= hi THEN lo
     ELSE IF l[Middle(lo, hi)].sequence <= s THEN h[<<Middle(lo, hi), hi>>]
     ELSE h[<<lo, Middle(lo, hi) - 1>>]
  <2>1. CASE lo >= hi
    BY <1>3, <2>1
  <2>2. CASE ~ (lo >= hi)
    <3> DEFINE mid == Middle(lo, hi)
    <3>1. mid \in (lo + 1) .. hi
      BY <1>0, <2>2, MiddleRange
    <3> HIDE DEF mid
    <3>2. mid \in 1 .. Len(l) /\ mid - 1 \in 1 .. Len(l) /\ mid <= hi /\ lo <= mid - 1 /\ lo < hi
      BY <1>0, <2>2, <3>1
    <3>3. CASE l[mid].sequence <= s
      <4>1. LastOf(l, s, mid, hi, h[<<mid, hi>>])
        BY <1>2, <3>2
      <4>2. LastOf(l, s, lo, hi, h[<<mid, hi>>])
        BY <4>1, <3>2, <3>3, LastNarrows DEF mid
      <4>3. h[<<lo, hi>>] = h[<<mid, hi>>]
        BY <4>2, <1>1, <3>2, <1>5
      <4> QED BY <2>2, <3>3, <4>3 DEF mid
    <3>4. CASE ~ (l[mid].sequence <= s)
      <4>1. LastOf(l, s, lo, mid - 1, h[<<lo, mid - 1>>])
        BY <1>2, <3>2
      <4>2. LastOf(l, s, lo, hi, h[<<lo, mid - 1>>])
        BY <4>1, <3>2, <3>4, LastNarrows DEF mid
      <4>3. h[<<lo, hi>>] = h[<<lo, mid - 1>>]
        BY <4>2, <1>1, <3>2, <1>5
      <4> QED BY <2>2, <3>4, <4>3 DEF mid
    <3> QED BY <3>3, <3>4
  <2> QED BY <2>1, <2>2
<1>7. h = Round(l, s, h)
  <2>1. ASSUME NEW r \in D PROVE h[r] = Round(l, s, h)[r]
    <3>1. PICK lo \in 1 .. Len(l), hi \in 1 .. Len(l) : r = <<lo, hi>>
      OBVIOUS
    <3>2. Round(l, s, h)[<<lo, hi>>] = IF lo >= hi THEN lo
     ELSE IF l[Middle(lo, hi)].sequence <= s THEN h[<<Middle(lo, hi), hi>>]
     ELSE h[<<lo, Middle(lo, hi) - 1>>]
      BY DEF Round
    <3> QED BY <1>6, <3>1, <3>2
  <2>2. Round(l, s, h) = [r \in D |-> Round(l, s, h)[r]]
    BY DEF Round
  <2> QED BY <1>4, <2>1, <2>2
<1> QED BY <1>7

\* Between lo and hi the search ends at the last checkpoint at or before s: there
\* is no shortest range where it goes wrong.
LEMMA SearchFindsLast ==
  ASSUME NEW l, Ordered(l), NEW s \in Nat, NEW lo \in 1 .. Len(l), NEW hi \in lo .. Len(l)
  PROVE  LastOf(l, s, lo, hi, Search(l, s)[<<lo, hi>>])
<1> DEFINE f == Search(l, s)
           Right(x, y) == LastOf(l, s, x, y, f[<<x, y>>])
           T == {n \in Nat : \E x, y \in 1 .. Len(l) : x <= y /\ n = y - x /\ ~ Right(x, y)}
<1>1. Len(l) \in Nat
  BY OrderedType
<1>2. f = Round(l, s, f)
  BY RoundExists, SearchRound
<1>3. ASSUME NEW x \in 1 .. Len(l), NEW y \in 1 .. Len(l)
      PROVE  f[<<x, y>>] = IF x >= y THEN x
     ELSE IF l[Middle(x, y)].sequence <= s THEN f[<<Middle(x, y), y>>]
     ELSE f[<<x, Middle(x, y) - 1>>]
  <2>1. Round(l, s, f)[<<x, y>>] = IF x >= y THEN x
     ELSE IF l[Middle(x, y)].sequence <= s THEN f[<<Middle(x, y), y>>]
     ELSE f[<<x, Middle(x, y) - 1>>]
    BY DEF Round
  <2> HIDE DEF f
  <2> QED BY <1>2, <2>1
<1> HIDE DEF f, Right
<1>4. ASSUME NEW n \in T, \A m \in T : n <= m PROVE FALSE
  <2>1. PICK x \in 1 .. Len(l), y \in 1 .. Len(l) : x <= y /\ n = y - x /\ ~ Right(x, y)
    BY DEF T
  <2>2. ASSUME NEW u \in 1 .. Len(l), NEW v \in 1 .. Len(l), u <= v, v - u < n
        PROVE  Right(u, v)
    <3>1. v - u \in Nat /\ ~ (n <= v - u)
      BY <1>1, <2>1, <2>2
    <3>2. ~ Right(u, v) => v - u \in T
      BY <2>2, <3>1
    <3> HIDE DEF T
    <3> QED BY <1>4, <3>1, <3>2
  <2> HIDE DEF T
  <2>5. f[<<x, y>>] = IF x >= y THEN x
     ELSE IF l[Middle(x, y)].sequence <= s THEN f[<<Middle(x, y), y>>]
     ELSE f[<<x, Middle(x, y) - 1>>]
    BY <1>3
  <2>3. CASE x = y
    BY <1>1, <2>1, <2>3, <2>5 DEF Right, LastOf
  <2>4. CASE x # y
    <3> DEFINE mid == Middle(x, y)
    <3>1. x < y /\ x \in Nat /\ y \in Nat /\ y <= Len(l)
      BY <1>1, <2>1, <2>4
    <3>2. mid \in (x + 1) .. y
      BY <3>1, MiddleRange
    <3> HIDE DEF mid
    <3>3. /\ mid \in 1 .. Len(l) /\ mid - 1 \in 1 .. Len(l) /\ mid <= y /\ x <= mid - 1
          /\ y - mid < n /\ (mid - 1) - x < n
      BY <1>1, <2>1, <3>1, <3>2
    <3>4. Right(mid, y) /\ Right(x, mid - 1)
      BY <2>2, <3>3
    <3>5. Right(x, y)
      <4>1. CASE l[mid].sequence <= s
        <5>1. f[<<x, y>>] = f[<<mid, y>>]
          BY <2>5, <3>1, <4>1 DEF mid
        <5> QED BY <3>1, <3>4, <4>1, <5>1, LastNarrows DEF Right, mid
      <4>2. CASE ~ (l[mid].sequence <= s)
        <5>1. f[<<x, y>>] = f[<<x, mid - 1>>]
          BY <2>5, <3>1, <4>2 DEF mid
        <5> QED BY <3>1, <3>4, <4>2, <5>1, LastNarrows DEF Right, mid
      <4> QED BY <4>1, <4>2
    <3> QED BY <2>1, <3>5
  <2> QED BY <2>3, <2>4
<1>5. T = {}
  <2>1. T \in SUBSET Nat
    OBVIOUS
  <2> HIDE DEF T
  <2> QED BY <1>4, <2>1, Least
<1>6. lo \in 1 .. Len(l) /\ hi \in 1 .. Len(l) /\ lo <= hi /\ hi - lo \in Nat
  BY <1>1
<1>7. Right(lo, hi)
  BY <1>5, <1>6
<1> QED BY <1>7 DEF Right, f

\* The votes v that checkpoints l hold for sequence s: those of the last
\* checkpoint at or before s, 0 without one.
VotesAt(l, s, v) ==
  \/ v = 0 /\ \A i \in 1 .. Len(l) : l[i].sequence > s
  \/ \E i \in 1 .. Len(l) :
       /\ l[i].sequence <= s /\ l[i].votes = v
       /\ \A j \in (i + 1) .. Len(l) : l[j].sequence > s

\* _find_past_votes is correct: on every checkpoint list in order, however long,
\* it answers the votes of the last checkpoint at or before s, 0 without one.
THEOREM PastVotesFound ==
  ASSUME NEW l, Ordered(l), NEW s \in Nat, NEW v, VotesAt(l, s, v)
  PROVE  FindPastVotes(l, s) = v
<1> DEFINE n == Len(l)
<1>1. n \in Nat /\ \A i \in 1 .. n : l[i].sequence \in Nat
  BY OrderedType
<1>2. CASE \A i \in 1 .. n : l[i].sequence > s
  <2>1. v = 0
    BY <1>1, <1>2 DEF VotesAt
  <2>2. n = 0 \/ (l[1].sequence > s /\ ~ (l[n].sequence <= s))
    BY <1>1, <1>2
  <2> QED BY <2>1, <2>2 DEF FindPastVotes
<1>3. CASE \E i \in 1 .. n : ~ (l[i].sequence > s)
  <2>1. PICK i \in 1 .. n : /\ l[i].sequence <= s /\ l[i].votes = v
                           /\ \A j \in (i + 1) .. n : l[j].sequence > s
    BY <1>1, <1>3 DEF VotesAt
  <2>2. n # 0 /\ ~ (l[1].sequence > s)
    <3>1. i = 1 \/ l[1].sequence < l[i].sequence
      BY <1>1 DEF Ordered
    <3> QED BY <1>1, <2>1, <3>1
  <2>3. CASE l[n].sequence <= s
    <3>1. i = n
      BY <1>1, <2>1, <2>2, <2>3
    <3> QED BY <2>1, <2>2, <2>3, <3>1 DEF FindPastVotes
  <2>4. CASE ~ (l[n].sequence <= s)
    <3> DEFINE k == Search(l, s)[<<1, n>>]
    <3>1. LastOf(l, s, 1, n, k)
      BY <1>1, <2>2, SearchFindsLast
    <3>2. FindPastVotes(l, s) = l[k].votes
      BY <2>2, <2>4 DEF FindPastVotes
    <3> HIDE DEF k
    <3>3. k = i
      BY <1>1, <2>1, <2>2, <3>1 DEF LastOf
    <3> QED BY <2>1, <3>2, <3>3
  <2> QED BY <2>3, <2>4
<1> QED BY <1>2, <1>3

-----------------------------------------------------------------------------
\* The power that checkpoints l end with.
Latest(l) == IF l = <<>> THEN 0 ELSE l[Len(l)].votes

\* Checkpoints l of account a, whose power is v: none is of a later ledger, the
\* last one is of the power now, and for every closed ledger they hold the power
\* at its close.
Recorded(l, v, a) ==
  /\ Ordered(l)
  /\ \A i \in 1 .. Len(l) : l[i].sequence <= ledger
  /\ v = Latest(l)
  /\ \A s \in 1 .. ledger - 1 : VotesAt(l, s, closing[s][a])

\* The clock and the powers that the past ledgers closed with.
Clocked ==
  /\ ledger \in Nat \ {0}
  /\ closing \in Seq([Addr -> Nat]) /\ Len(closing) = ledger - 1

\* Powers p and checkpoints c of all accounts belong together.
AllRecorded(p, c) ==
  /\ p \in [Addr -> Nat]
  /\ c = [a \in Addr |-> c[a]]
  /\ \A a \in Addr : Recorded(c[a], p[a], a)

History == Clocked /\ AllRecorded(power, ckpts)

\* _write_checkpoint: the list keeps its order and what it holds for the closed
\* ledgers, whether the last checkpoint is overwritten or a new one is added.
LEMMA WriteRecords ==
  ASSUME Clocked, NEW l, NEW u, NEW a, Recorded(l, u, a), NEW v \in Nat
  PROVE  Recorded(WriteCheckpoint(l, v), v, a)
<1> DEFINE n == Len(l)
           c == [sequence |-> ledger, votes |-> v]
           k == WriteCheckpoint(l, v)
<1>1. /\ l \in Seq(Checkpoint) /\ n \in Nat /\ ledger \in Nat \ {0} /\ c \in Checkpoint
      /\ \A i \in 1 .. n : l[i].sequence \in Nat /\ l[i].sequence <= ledger
  BY OrderedType DEF Clocked, Recorded, Ordered, Checkpoint
<1> DEFINE Q(m) ==
             /\ m > 0 /\ k \in Seq(Checkpoint) /\ Len(k) = m
             /\ k[m].sequence = ledger /\ k[m].votes = v
             /\ \A i \in 1 .. m - 1 : i \in 1 .. n /\ k[i] = l[i] /\ l[i].sequence < ledger
             /\ m = n => l[n].sequence = ledger
<1>2. Q(n) \/ Q(n + 1)
  <2>0. c.sequence = ledger /\ c.votes = v
    OBVIOUS
  <2>1. CASE l # <<>> /\ l[n].sequence = ledger
    <3>1. n > 0 /\ k = [l EXCEPT ![n] = c]
      BY <1>1, <2>1 DEF WriteCheckpoint
    <3>2. \A i \in 1 .. n - 1 : i \in 1 .. n /\ l[i].sequence < ledger
      BY <1>1, <2>1, <3>1 DEF Recorded, Ordered
    <3> HIDE DEF c, k
    <3>3. k \in Seq(Checkpoint) /\ Len(k) = n /\ k[n] = c /\ \A i \in 1 .. n - 1 : k[i] = l[i]
      BY <1>1, <3>1
    <3>4. Q(n)
      BY <2>0, <2>1, <3>1, <3>2, <3>3
    <3> QED BY <3>4
  <2>2. CASE ~ (l # <<>> /\ l[n].sequence = ledger)
    <3>1. k = Append(l, c)
      BY <2>2 DEF WriteCheckpoint
    <3>2. \A i \in 1 .. n : l[i].sequence < ledger
      <4>1. n = 0 \/ l[n].sequence < ledger
        BY <1>1, <2>2
      <4> QED BY <1>1, <4>1 DEF Recorded, Ordered
    <3> HIDE DEF c, k
    <3>3. k \in Seq(Checkpoint) /\ Len(k) = n + 1 /\ k[n + 1] = c /\ \A i \in 1 .. n : k[i] = l[i]
      BY <1>1, <3>1
    <3>4. \A i \in 1 .. (n + 1) - 1 : i \in 1 .. n
      BY <1>1
    <3>5. Q(n + 1)
      BY <1>1, <2>0, <3>2, <3>3, <3>4
    <3> QED BY <3>5
  <2> QED BY <2>1, <2>2
<1> HIDE DEF k
<1>3. PICK m \in {n, n + 1} : Q(m)
  BY <1>2
<1>4. /\ m \in Nat /\ m > 0 /\ k \in Seq(Checkpoint) /\ Len(k) = m /\ k # <<>>
      /\ k[m].sequence = ledger /\ k[m].votes = v
      /\ \A i \in 1 .. m : i = m \/ (i \in 1 .. m - 1 /\ i \in 1 .. n /\ k[i] = l[i]
                                   /\ k[i].sequence \in Nat /\ k[i].sequence < ledger)
  BY <1>1, <1>3
<1>5. Ordered(k)
  <2>1. ASSUME NEW i \in 1 .. m, NEW j \in 1 .. m, i < j PROVE k[i].sequence < k[j].sequence
    <3>0. i # m
      BY <1>4, <2>1
    <3>1. CASE j = m
      BY <1>4, <2>1, <3>0, <3>1
    <3>2. CASE j # m
      <4>1. k[i] = l[i] /\ k[j] = l[j] /\ i \in 1 .. n /\ j \in 1 .. n
        BY <1>4, <3>0, <3>2
      <4> QED BY <2>1, <4>1 DEF Recorded, Ordered
    <3> QED BY <3>1, <3>2
  <2> QED BY <1>4, <2>1 DEF Ordered
<1>6. \A i \in 1 .. m : k[i].sequence <= ledger
  BY <1>1, <1>4
<1>7. v = Latest(k)
  BY <1>4 DEF Latest
<1>8. ASSUME NEW s \in 1 .. ledger - 1 PROVE VotesAt(k, s, closing[s][a])
  <2>1. s \in Nat /\ s < ledger /\ k[m].sequence > s
    BY <1>1, <1>4
  <2>2. CASE closing[s][a] = 0 /\ \A i \in 1 .. n : l[i].sequence > s
    <3>1. \A i \in 1 .. m : k[i].sequence > s
      BY <1>4, <2>1, <2>2
    <3> QED BY <1>4, <2>2, <3>1 DEF VotesAt
  <2>3. ASSUME NEW i \in 1 .. n, l[i].sequence <= s, l[i].votes = closing[s][a],
               \A j \in (i + 1) .. n : l[j].sequence > s
        PROVE  VotesAt(k, s, closing[s][a])
    <3>1. i \in 1 .. m /\ i # m
      BY <1>1, <1>3, <1>4, <2>1, <2>3
    <3>2. ASSUME NEW j \in (i + 1) .. m PROVE k[j].sequence > s
      <4>1. CASE j = m
        BY <2>1, <4>1
      <4>2. CASE j # m
        <5>1. j \in 1 .. m
          BY <1>4, <3>1
        <5>2. k[j] = l[j] /\ j \in 1 .. n
          BY <1>4, <4>2, <5>1
        <5>3. j \in (i + 1) .. n
          BY <1>1, <5>2
        <5> QED BY <2>3, <5>2, <5>3
      <4> QED BY <4>1, <4>2
    <3>3. k[i] = l[i]
      BY <1>4, <3>1
    <3> QED BY <1>4, <2>3, <3>1, <3>2, <3>3 DEF VotesAt
  <2>4. VotesAt(l, s, closing[s][a])
    BY DEF Recorded
  <2> QED BY <2>2, <2>3, <2>4 DEF VotesAt
<1>9. Recorded(k, v, a)
  BY <1>4, <1>5, <1>6, <1>7, <1>8 DEF Recorded
<1> QED BY <1>9 DEF k

\* What checkpoints hold for the current ledger is the power now.
LEMMA LatestNow ==
  ASSUME Clocked, NEW a, NEW v, NEW l, Recorded(l, v, a)
  PROVE  VotesAt(l, ledger, v)
<1> DEFINE n == Len(l)
<1>1. /\ l \in Seq(Checkpoint) /\ n \in Nat /\ v = Latest(l)
      /\ \A i \in 1 .. n : l[i].sequence \in Nat /\ l[i].sequence <= ledger
  BY OrderedType DEF Recorded, Ordered
<1>2. CASE n = 0
  BY <1>1, <1>2 DEF VotesAt, Latest
<1>3. CASE n # 0
  <2>1. n \in 1 .. n /\ l[n].votes = v /\ (n + 1) .. n = {}
    BY <1>1, <1>3 DEF Latest
  <2> QED BY <1>1, <2>1 DEF VotesAt
<1> QED BY <1>2, <1>3

\* When the ledger closes, the checkpoints hold the power at its close too.
LEMMA CloseRecords ==
  ASSUME Clocked, power \in [Addr -> Nat],
         ledger' = ledger + 1, closing' = Append(closing, power),
         NEW a \in Addr, NEW l, Recorded(l, power[a], a)
  PROVE  Clocked' /\ \A s \in 1 .. ledger : VotesAt(l, s, closing'[s][a])
<1>1. /\ closing \in Seq([Addr -> Nat]) /\ Len(closing) = ledger - 1
      /\ ledger \in Nat \ {0}
  BY DEF Clocked
<1>2. /\ closing' \in Seq([Addr -> Nat]) /\ Len(closing') = ledger
      /\ closing'[ledger] = power
      /\ \A s \in 1 .. ledger - 1 : closing'[s] = closing[s]
  BY <1>1
<1>3. Clocked'
  BY <1>1, <1>2 DEF Clocked
<1>4. VotesAt(l, ledger, power[a])
  BY LatestNow
<1>5. ASSUME NEW s \in 1 .. ledger PROVE VotesAt(l, s, closing'[s][a])
  <2>1. CASE s = ledger
    BY <1>2, <1>4, <2>1
  <2>2. CASE s # ledger
    <3>1. s \in 1 .. ledger - 1
      BY <1>1, <2>2
    <3> QED BY <1>2, <3>1 DEF Recorded
  <2> QED BY <2>1, <2>2
<1> QED BY <1>3, <1>5

\* A change of the power of one account.
LEMMA SetRecords ==
  ASSUME Clocked, NEW p, NEW c, AllRecorded(p, c), NEW x \in Addr, NEW v \in Nat
  PROVE  AllRecorded(SetPower(p, c, x, v).power, SetPower(p, c, x, v).ckpts)
<1> DEFINE q == [p EXCEPT ![x] = v]
           d == [c EXCEPT ![x] = WriteCheckpoint(@, v)]
<1>1. SetPower(p, c, x, v).power = q /\ SetPower(p, c, x, v).ckpts = d
  BY DEF SetPower
<1>2. /\ q \in [Addr -> Nat] /\ q[x] = v /\ d[x] = WriteCheckpoint(c[x], v)
      /\ d = [a \in Addr |-> d[a]] /\ \A a \in Addr \ {x} : q[a] = p[a] /\ d[a] = c[a]
  BY DEF AllRecorded
<1> HIDE DEF q, d
<1>3. Recorded(d[x], q[x], x)
  BY <1>2, WriteRecords DEF AllRecorded
<1>4. ASSUME NEW a \in Addr, a # x PROVE Recorded(d[a], q[a], a)
  BY <1>2, <1>4 DEF AllRecorded
<1> QED BY <1>1, <1>2, <1>3, <1>4 DEF AllRecorded

\* A step within a ledger.
LEMMA SameLedger ==
  ASSUME Clocked, UNCHANGED <<ledger, closing>>, AllRecorded(power', ckpts')
  PROVE  History'
<1>1. Clocked'
  BY DEF Clocked
<1>2. ASSUME NEW a \in Addr PROVE Recorded(ckpts[a], power[a], a)'
  BY DEF AllRecorded, Recorded
<1> QED BY <1>1, <1>2 DEF AllRecorded, History

\* _move_voting_power, also between an account and itself.
LEMMA MoveRecords ==
  ASSUME History, NEW src \in Addr, NEW dst \in Addr, NEW m \in Nat, m <= power[src],
         MovePower(src, dst, m), UNCHANGED <<ledger, closing>>
  PROVE  History'
<1> DEFINE out == SetPower(power, ckpts, src, power[src] - m)
<1>1. power[src] - m \in Nat
  BY DEF History, AllRecorded
<1>2. AllRecorded(out.power, out.ckpts)
  BY <1>1, SetRecords DEF History
<1>3. /\ power' = SetPower(out.power, out.ckpts, dst, out.power[dst] + m).power
      /\ ckpts' = SetPower(out.power, out.ckpts, dst, out.power[dst] + m).ckpts
  BY DEF MovePower, StorePower
<1> HIDE DEF out
<1>4. out.power[dst] + m \in Nat
  BY <1>2 DEF AllRecorded
<1> QED BY <1>2, <1>3, <1>4, SetRecords, SameLedger DEF History

\* The power of a delegate is no less than what one of its delegators owns, so
\* no subtraction goes below 0.
LEMMA PowerCovers ==
  ASSUME Conserved, NEW x \in Addr
  PROVE  bal[x] \in Nat /\ delegate[x] \in Addr /\ bal[x] <= power[delegate[x]]
<1> DEFINE f == Backing(bal, delegate, delegate[x])
<1>1. f \in [Addr -> Nat] /\ f[x] = bal[x]
  BY DEF Conserved, Backed, Backing
<1>2. f[x] <= Total(f)
  BY <1>1, GovernanceAssumption, TotalCovers
<1> QED BY <1>1, <1>2 DEF Conserved, Backed

\* At the start there is nothing to remember.
LEMMA InitHistory == Init => History
<1> SUFFICES ASSUME Init PROVE History
  OBVIOUS
<1>1. Clocked
  BY DEF Init, Clocked
<1>2. ASSUME NEW a \in Addr PROVE Recorded(ckpts[a], power[a], a)
  <2>1. ckpts[a] = <<>> /\ power[a] = 0 /\ 1 .. ledger - 1 = {}
    BY DEF Init
  <2>2. Ordered(<<>>) /\ Latest(<<>>) = 0 /\ Len(<<>>) = 0
    BY DEF Ordered, Latest
  <2> QED BY <2>1, <2>2 DEF Recorded
<1> QED BY <1>1, <1>2 DEF History, AllRecorded, Init

\* Every step keeps the checkpoints in accord with the past.
LEMMA NextHistory == Conserved /\ History /\ [Next]_vars => History'
<1> SUFFICES ASSUME Conserved, History, [Next]_vars PROVE History'
  OBVIOUS
<1>0. Clocked /\ AllRecorded(power, ckpts) /\ power \in [Addr -> Nat]
  BY DEF History, AllRecorded
<1>1. ASSUME UNCHANGED <<ledger, power, ckpts, closing>> PROVE History'
  BY <1>0, <1>1, SameLedger
<1>2. ASSUME NEW a \in Addr, NEW m \in Amounts, Mint(a, m) PROVE History'
  <2>1. delegate[a] \in Addr /\ power[delegate[a]] + m \in Nat
    BY <1>0, <1>2, PowerCovers, GovernanceAssumption DEF Mint
  <2>2. /\ power' = SetPower(power, ckpts, delegate[a], power[delegate[a]] + m).power
        /\ ckpts' = SetPower(power, ckpts, delegate[a], power[delegate[a]] + m).ckpts
        /\ UNCHANGED <<ledger, closing>>
    BY <1>2 DEF Mint, StorePower
  <2> QED BY <1>0, <2>1, <2>2, SetRecords, SameLedger
<1>3. ASSUME NEW a \in Addr, NEW m \in Amounts, Burn(a, m) PROVE History'
  <2>1. delegate[a] \in Addr /\ power[delegate[a]] - m \in Nat
    BY <1>0, <1>3, PowerCovers, GovernanceAssumption DEF Burn
  <2>2. /\ power' = SetPower(power, ckpts, delegate[a], power[delegate[a]] - m).power
        /\ ckpts' = SetPower(power, ckpts, delegate[a], power[delegate[a]] - m).ckpts
        /\ UNCHANGED <<ledger, closing>>
    BY <1>3 DEF Burn, StorePower
  <2> QED BY <1>0, <2>1, <2>2, SetRecords, SameLedger
<1>4. ASSUME NEW a \in Addr, NEW b \in Addr, NEW m \in Amounts, MoveTokens(a, b, m),
             UNCHANGED <<ledger, closing>>
      PROVE  History'
  <2>1. /\ delegate[a] \in Addr /\ delegate[b] \in Addr /\ m \in Nat
        /\ m <= power[delegate[a]]
    BY <1>0, <1>4, PowerCovers, GovernanceAssumption DEF MoveTokens
  <2> QED BY <1>4, <2>1, MoveRecords DEF MoveTokens
<1>5. ASSUME NEW a \in Addr, NEW b \in Addr, Delegate(a, b) PROVE History'
  <2>1. bal[a] \in Nat /\ delegate[a] \in Addr /\ bal[a] <= power[delegate[a]]
    BY PowerCovers
  <2>2. UNCHANGED <<ledger, closing>>
    BY <1>5 DEF Delegate
  <2>3. CASE bal[a] > 0
    BY <1>5, <2>1, <2>2, <2>3, MoveRecords DEF Delegate
  <2>4. CASE ~ (bal[a] > 0)
    BY <1>1, <1>5, <2>2, <2>4 DEF Delegate
  <2> QED BY <2>3, <2>4
<1>6. ASSUME NextLedger PROVE History'
  <2>1. /\ ledger' = ledger + 1 /\ closing' = Append(closing, power)
        /\ UNCHANGED <<power, ckpts>>
    BY <1>6 DEF NextLedger, voting
  <2>2. ASSUME NEW a \in Addr
        PROVE  Clocked' /\ \A s \in 1 .. ledger : VotesAt(ckpts[a], s, closing'[s][a])
    BY <1>0, <2>1, CloseRecords DEF AllRecorded
  <2>3. Clocked'
    BY <1>0, <2>1 DEF Clocked
  <2>4. ASSUME NEW a \in Addr PROVE Recorded(ckpts[a], power[a], a)'
    <3>1. /\ Ordered(ckpts[a]) /\ power[a] = Latest(ckpts[a])
          /\ \A i \in 1 .. Len(ckpts[a]) : ckpts[a][i].sequence <= ledger
      BY <1>0 DEF AllRecorded, Recorded
    <3>2. \A i \in 1 .. Len(ckpts[a]) : ckpts[a][i].sequence <= ledger'
      BY <1>0, <2>1, <3>1, OrderedType DEF Clocked
    <3>3. 1 .. ledger' - 1 = 1 .. ledger
      BY <1>0, <2>1 DEF Clocked
    <3> QED BY <2>1, <2>2, <3>1, <3>2, <3>3 DEF Recorded
  <2> QED BY <1>0, <2>1, <2>3, <2>4 DEF History, AllRecorded
<1>7. ASSUME NEW c \in Configs, Initialize(c) PROVE History'
  BY <1>1, <1>7 DEF Initialize, voting
<1>8. ASSUME NEW a \in Addr, NEW b \in Addr, NEW m \in Amounts, Transfer(a, b, m)
      PROVE  History'
  BY <1>4, <1>8 DEF Transfer
<1>9. ASSUME NEW s \in Spenders, NEW a \in Addr, NEW b \in Addr, NEW m \in Amounts,
             TransferFrom(s, a, b, m)
      PROVE  History'
  BY <1>4, <1>9 DEF TransferFrom
<1>10. ASSUME NEW a \in Addr, NEW s \in Spenders, NEW m \in Amounts, Approve(a, s, m)
       PROVE  History'
  BY <1>1, <1>10 DEF Approve, voting
<1>11. ASSUME NEW a \in Addr, Propose(a) PROVE History'
  BY <1>1, <1>11 DEF Propose, voting
<1>12. ASSUME NEW id \in Ids, NEW a \in Addr, NEW v \in VoteType, Vote(a, id, v)
       PROVE  History'
  BY <1>1, <1>12 DEF Vote, voting
<1>13. ASSUME NEW id \in Ids, Queue(id) \/ Execute(id) \/ Cancel(id) PROVE History'
  BY <1>1, <1>13 DEF Queue, Execute, Cancel, voting
<1>14. ASSUME UNCHANGED vars PROVE History'
  BY <1>1, <1>14 DEF vars, voting
<1> QED
  BY <1>2, <1>3, <1>5, <1>6, <1>7, <1>8, <1>9, <1>10, <1>11, <1>12, <1>13, <1>14 DEF Next

\* The two invariants hold together: the second needs the first for powers that
\* never go below 0.
LEMMA HistoryInvariant == Spec => [](Conserved /\ History)
BY InitConserved, NextConserves, InitHistory, NextHistory, PTL DEF Spec

\* The votes found for a past ledger are the power at its close.
LEMMA VotesFound ==
  ASSUME History, NEW a \in Addr, NEW s \in 1 .. ledger - 1
  PROVE  FindPastVotes(ckpts[a], s) = closing[s][a]
<1>1. Ordered(ckpts[a]) /\ VotesAt(ckpts[a], s, closing[s][a]) /\ s \in Nat
  BY DEF History, AllRecorded, Recorded, Clocked
<1> QED BY <1>1, PastVotesFound

\* get_past_votes tells the truth about every closed ledger, for any accounts and
\* any number of ledgers, checkpoints, mints, burns, transfers and delegations.
THEOREM PastVotesAreTrue == Spec => []PastVotesTrue
<1>1. History => PastVotesTrue
  BY VotesFound DEF PastVotesTrue
<1> QED BY <1>1, HistoryInvariant, PTL

-----------------------------------------------------------------------------
\* The weights of the votes of one type among receipts r.
WeightsOf(r, type) ==
  [a \in Addr |-> IF r[a] # NoReceipt /\ r[a].vote_type = type THEN r[a].weight ELSE 0]

\* A proposal that was queued was decided when its time was over.
Decided(p) ==
  p.status \in {"Queued", "Executed"} =>
    /\ ledger > p.end_time
    /\ p.votes["For"] > p.votes["Against"]
    /\ p.votes["For"] + p.votes["Against"] + p.votes["Abstain"] >= p.quorum

\* The receipts r on proposal p, of voters that had power at the snapshot.
Honoured(p, r) ==
  \A a \in Addr : r[a] # NoReceipt /\ p.start_time > p.snapshot_sequence =>
    /\ p.snapshot_sequence < ledger
    /\ closing[p.snapshot_sequence][a] # 0 => r[a].weight = closing[p.snapshot_sequence][a]

\* A stored proposal p and the receipts r of its voters agree.
Counted(p, r) ==
  /\ p \in Proposal
  /\ r \in [Addr -> VoteReceipt \cup {NoReceipt}]
  /\ p.snapshot_sequence \in 1 .. ledger
  /\ p.votes = [t \in VoteType |-> Total(WeightsOf(r, t))]
  /\ Decided(p)
  /\ Honoured(p, r)

Ballots ==
  /\ proposal = [id \in Ids |-> proposal[id]]
  /\ receipt = [id \in Ids |-> receipt[id]]
  /\ \A id \in Ids :
       IF proposal[id] = NoProposal THEN receipt[id] = [a \in Addr |-> NoReceipt]
       ELSE Counted(proposal[id], receipt[id])

\* A vote that was counted stays counted as ledgers close.
LEMMA CountedLater ==
  ASSUME Clocked, NEW p, NEW r, Counted(p, r),
         \/ UNCHANGED <<ledger, closing>>
         \/ ledger' = ledger + 1 /\ closing' = Append(closing, power)
  PROVE  Counted(p, r)'
<1>1. CASE UNCHANGED <<ledger, closing>>
  BY <1>1 DEF Counted, Decided, Honoured, WeightsOf
<1>2. CASE ledger' = ledger + 1 /\ closing' = Append(closing, power)
  <2>1. \A s \in 1 .. ledger - 1 : closing'[s] = closing[s]
    BY <1>2 DEF Clocked
  <2>2. ledger \in Nat /\ p.snapshot_sequence \in 1 .. ledger /\ p.end_time \in Nat
    BY DEF Clocked, Counted, Proposal
  <2>3. Decided(p)'
    BY <1>2, <2>2 DEF Counted, Decided
  <2>4. Honoured(p, r)'
    <3> DEFINE s == p.snapshot_sequence
    <3>1. ASSUME NEW a \in Addr, r[a] # NoReceipt, p.start_time > s
          PROVE  s < ledger' /\ (closing'[s][a] # 0 => r[a].weight = closing'[s][a])
      <4>1. s < ledger /\ (closing[s][a] # 0 => r[a].weight = closing[s][a])
        BY <3>1 DEF Counted, Honoured
      <4>2. closing'[s] = closing[s]
        BY <2>1, <2>2, <4>1
      <4> QED BY <1>2, <2>2, <4>1, <4>2
    <3> QED BY <3>1 DEF Honoured
  <2> QED BY <1>2, <2>2, <2>3, <2>4 DEF Counted, WeightsOf
<1> QED BY <1>1, <1>2

\* A step that leaves proposals and receipts alone.
LEMMA QuietBallots ==
  ASSUME Clocked, Ballots, UNCHANGED <<proposal, receipt>>,
         \/ UNCHANGED <<ledger, closing>>
         \/ ledger' = ledger + 1 /\ closing' = Append(closing, power)
  PROVE  Ballots'
<1>1. ASSUME NEW id \in Ids, proposal[id] # NoProposal
      PROVE  Counted(proposal[id], receipt[id])'
  BY <1>1, CountedLater DEF Ballots, Counted, Decided, Honoured, WeightsOf
<1> QED BY <1>1 DEF Ballots

\* A step that changes one proposal and its receipts.
LEMMA OneBallot ==
  ASSUME Clocked, Ballots, UNCHANGED <<ledger, closing>>,
         NEW id \in Ids, NEW q, NEW r, q # NoProposal, Counted(q, r),
         proposal' = [proposal EXCEPT ![id] = q], receipt' = [receipt EXCEPT ![id] = r]
  PROVE  Ballots'
<1>1. /\ proposal'[id] = q /\ receipt'[id] = r 
      /\ \A i \in Ids \ {id} : proposal'[i] = proposal[i] /\ receipt'[i] = receipt[i]
      /\ proposal' = [i \in Ids |-> proposal'[i]] /\ receipt' = [i \in Ids |-> receipt'[i]]
  BY DEF Ballots
<1>2. ASSUME NEW i \in Ids
      PROVE  IF proposal'[i] = NoProposal THEN receipt'[i] = [a \in Addr |-> NoReceipt]
             ELSE Counted(proposal'[i], receipt'[i])
  <2>1. CASE i = id
    BY <1>1, <2>1
  <2>2. CASE i # id
    BY <1>1, <2>2 DEF Ballots
  <2> QED BY <2>1, <2>2
<1>3. \A p, s : Counted(p, s) => Counted(p, s)'
  BY DEF Counted, Decided, Honoured, WeightsOf
<1> QED BY <1>1, <1>2, <1>3 DEF Ballots

\* The weight of a vote is the power at the close of the snapshot's ledger, if
\* that ledger has closed and the power was not 0.
LEMMA WeightIsPast ==
  ASSUME History, NEW a \in Addr, NEW p, p.snapshot_sequence \in 1 .. ledger
  PROVE  /\ VoteWeight(a, p) \in Nat
         /\ p.snapshot_sequence < ledger /\ closing[p.snapshot_sequence][a] # 0
              => VoteWeight(a, p) = closing[p.snapshot_sequence][a]
<1> DEFINE s == p.snapshot_sequence
           past == FindPastVotes(ckpts[a], s)
<1>1. /\ Clocked /\ power[a] \in Nat /\ Recorded(ckpts[a], power[a], a)
      /\ ledger \in Nat \ {0} /\ s \in Nat
  BY DEF History, AllRecorded, Clocked
<1>2. CASE s < ledger
  <2>1. s \in 1 .. ledger - 1
    BY <1>1, <1>2
  <2>2. past = closing[s][a]
    BY <2>1, VotesFound
  <2>3. closing[s][a] \in Nat
    BY <1>1, <2>1 DEF Clocked
  <2> HIDE DEF past, s
  <2> QED BY <1>1, <2>2, <2>3 DEF VoteWeight, past, s
<1>3. CASE ~ (s < ledger)
  <2>1. s = ledger
    BY <1>1, <1>3
  <2>2. past = power[a]
    BY <1>1, <2>1, LatestNow, PastVotesFound DEF Recorded
  <2> HIDE DEF past, s
  <2> QED BY <1>1, <1>3, <2>2 DEF VoteWeight, past, s
<1> QED BY <1>2, <1>3

\* vote adds the weight of the receipt to the tally of its type.
LEMMA VoteCounts ==
  ASSUME History, Timed, Ballots,
         NEW a \in Addr, NEW id \in Ids, NEW v \in VoteType, Vote(a, id, v)
  PROVE  Ballots'
<1> DEFINE p == proposal[id]
           w == VoteWeight(a, p)
           x == [p.votes EXCEPT ![v] = @ + w]
           q == [[p EXCEPT !.votes = x] EXCEPT !.status = IF @ = "Pending" THEN "Active" ELSE @]
           c == [vote_type |-> v, weight |-> w]
           r == [receipt[id] EXCEPT ![a] = c]
<1>1. /\ p # NoProposal /\ ledger >= p.start_time /\ ledger <= p.end_time
      /\ receipt[id][a] = NoReceipt /\ w # 0
      /\ UNCHANGED <<ledger, closing>>
      /\ proposal' = [proposal EXCEPT ![id] = q] /\ receipt' = [receipt EXCEPT ![id] = r]
  BY DEF Vote, ApplyVote, balances, voting, Ballots
<1>2. Counted(p, receipt[id]) /\ Clocked
  BY <1>1 DEF Ballots, History
<1>3. /\ w \in Nat
      /\ p.snapshot_sequence < ledger /\ closing[p.snapshot_sequence][a] # 0
           => w = closing[p.snapshot_sequence][a]
  BY <1>2, WeightIsPast DEF Counted
<1>4. /\ c \in VoteReceipt /\ c.vote_type = v /\ c.weight = w
      /\ c # NoReceipt
  BY <1>1, <1>3 DEF VoteReceipt, NoReceipt
<1> HIDE DEF w, c
<1>5. /\ r \in [Addr -> VoteReceipt \cup {NoReceipt}]
      /\ r[a] = c /\ \A b \in Addr \ {a} : r[b] = receipt[id][b]
  BY <1>2, <1>4 DEF Counted
<1> HIDE DEF r
<1>6. ASSUME NEW t \in VoteType PROVE x[t] = Total(WeightsOf(r, t)) /\ x[t] \in Nat
  <2> DEFINE f == WeightsOf(receipt[id], t)
             g == WeightsOf(r, t)
  <2>0. \A s \in VoteReceipt : s.weight \in Nat
    BY DEF VoteReceipt
  <2>1. f \in [Addr -> Nat] /\ g \in [Addr -> Nat]
    BY <1>2, <1>5, <2>0 DEF WeightsOf, Counted
  <2>2. f[a] = 0 /\ \A b \in Addr \ {a} : g[b] = f[b]
    BY <1>1, <1>5 DEF WeightsOf
  <2>3. g[a] = IF t = v THEN w ELSE 0
    BY <1>4, <1>5 DEF WeightsOf
  <2>4. p.votes = [u \in VoteType |-> Total(WeightsOf(receipt[id], u))]
    BY <1>2 DEF Counted
  <2> HIDE DEF f, g
  <2>5. p.votes[t] = Total(f) /\ Total(f) \in Nat
    BY <2>1, <2>4, UnitsFinite, GovernanceAssumption DEF f
  <2>6. Total(g) = Total(f) + (IF t = v THEN w ELSE 0)
    BY <1>3, <2>1, <2>2, <2>3, TotalRaise, GovernanceAssumption
  <2>7. x[t] = p.votes[t] + (IF t = v THEN w ELSE 0)
    BY <1>3, <2>4, <2>5
  <2> QED BY <1>3, <2>5, <2>6, <2>7 DEF g
<1>7. x = [t \in VoteType |-> Total(WeightsOf(r, t))] /\ x \in [VoteType -> Nat]
  <2>1. x = [t \in VoteType |-> x[t]]
    BY <1>2 DEF Counted
  <2> HIDE DEF x
  <2> QED BY <1>6, <2>1
<1> HIDE DEF x
<1>8. p.status \notin {"Queued", "Executed"} /\ p \in Proposal
  BY <1>1, <1>2 DEF Counted, Decided, Proposal, Clocked
<1>9. /\ q \in Proposal /\ q # NoProposal /\ q.status \notin {"Queued", "Executed"}
      /\ q.votes = x /\ q.snapshot_sequence = p.snapshot_sequence /\ q.start_time = p.start_time
  BY <1>7, <1>8 DEF Proposal, ProposalStatus, NoProposal
<1> HIDE DEF q
<1>10. Honoured(q, r)
  <2>1. p.snapshot_sequence \in Nat /\ p.start_time \in Nat /\ ledger \in Nat
    BY <1>2 DEF Counted, Proposal, Clocked
  <2>2. ASSUME NEW b \in Addr, r[b] # NoReceipt, q.start_time > q.snapshot_sequence
        PROVE  /\ q.snapshot_sequence < ledger
               /\ closing[q.snapshot_sequence][b] # 0
                    => r[b].weight = closing[q.snapshot_sequence][b]
    <3>1. q.snapshot_sequence < ledger
      BY <1>1, <1>9, <2>1, <2>2
    <3>2. CASE b = a
      BY <1>3, <1>4, <1>5, <1>9, <3>1, <3>2
    <3>3. CASE b # a
      BY <1>2, <1>5, <1>9, <2>2, <3>1, <3>3 DEF Counted, Honoured
    <3> QED BY <3>1, <3>2, <3>3
  <2> QED BY <2>2 DEF Honoured
<1>11. Counted(q, r)
  BY <1>2, <1>5, <1>7, <1>9, <1>10 DEF Counted, Decided
<1> QED BY <1>1, <1>2, <1>9, <1>11, OneBallot

\* The votes of a proposal are numbers.
LEMMA VotesType ==
  ASSUME NEW p, p \in Proposal
  PROVE  /\ p.votes["For"] \in Nat /\ p.votes["Against"] \in Nat /\ p.votes["Abstain"] \in Nat
         /\ p.quorum \in Nat /\ p.end_time \in Nat /\ p.start_time \in Nat
         /\ p.eta \in Nat /\ p.status \in ProposalStatus
<1>1. p.votes \in [VoteType -> Nat]
  BY DEF Proposal
<1> QED BY <1>1 DEF Proposal, VoteType

\* queue, execute and cancel leave tallies and receipts alone, and queue checks
\* the tallies.
LEMMA DecideCounts ==
  ASSUME History, Timed, Ballots, NEW id \in Ids, Queue(id) \/ Execute(id) \/ Cancel(id)
  PROVE  Ballots'
<1> DEFINE p == proposal[id]
<1>0. p # NoProposal /\ UNCHANGED <<ledger, config, closing, receipt>>
  BY DEF Queue, Execute, Cancel, NoProposal
<1>1. /\ p \in Proposal /\ Counted(p, receipt[id]) /\ Clocked /\ ledger \in Nat
      /\ config.timelock_delay \in Nat /\ p.start_time <= p.end_time
  BY <1>0 DEF Timed, InOrder, Ballots, Counted, GovernanceConfig, History, Clocked
<1>2. /\ p.end_time \in Nat /\ p.start_time \in Nat /\ p.quorum \in Nat
  BY <1>1, VotesType
<1>3. receipt' = [receipt EXCEPT ![id] = receipt[id]]
  BY <1>0 DEF Ballots
<1>4. ASSUME NEW q \in Proposal, q.votes = p.votes, q.quorum = p.quorum,
             q.end_time = p.end_time, q.start_time = p.start_time,
             q.snapshot_sequence = p.snapshot_sequence, Decided(q),
             proposal' = [proposal EXCEPT ![id] = q]
      PROVE  Ballots'
  <2>1. q # NoProposal
    BY DEF Proposal, ProposalStatus, NoProposal
  <2>2. Counted(q, receipt[id])
    BY <1>1, <1>4 DEF Counted, Honoured
  <2> QED BY <1>0, <1>1, <1>3, <1>4, <2>1, <2>2, OneBallot
<1>5. CASE Queue(id)
  <2> DEFINE e == ledger + config.timelock_delay
             q == [[p EXCEPT !.eta = e] EXCEPT !.status = "Queued"]
  <2>1. proposal' = [proposal EXCEPT ![id] = q]
    BY <1>5 DEF Queue, Ballots
  <2>2. e \in Nat
    BY <1>1
  <2> HIDE DEF e
  <2>3. /\ q \in Proposal /\ q.votes = p.votes /\ q.quorum = p.quorum
        /\ q.end_time = p.end_time /\ q.start_time = p.start_time /\ q.snapshot_sequence = p.snapshot_sequence
    BY <1>1, <2>2 DEF Proposal, ProposalStatus
  <2> HIDE DEF q
  <2>4. Decided(q)
    BY <1>5, <2>3 DEF Queue, Decided
  <2> QED BY <1>4, <2>1, <2>3, <2>4
<1>6. CASE Execute(id)
  <2> DEFINE q == [p EXCEPT !.status = "Executed"]
  <2>1. proposal' = [proposal EXCEPT ![id] = q]
    BY <1>6 DEF Execute, Ballots
  <2>2. /\ q \in Proposal /\ q.votes = p.votes /\ q.quorum = p.quorum
        /\ q.end_time = p.end_time /\ q.start_time = p.start_time /\ q.snapshot_sequence = p.snapshot_sequence
    BY <1>1 DEF Proposal, ProposalStatus
  <2> HIDE DEF q
  <2>3. Decided(q)
    BY <1>1, <1>6, <2>2 DEF Execute, Counted, Decided
  <2> QED BY <1>4, <2>1, <2>2, <2>3
<1>7. CASE Cancel(id)
  <2> DEFINE q == [p EXCEPT !.status = "Canceled"]
  <2>1. proposal' = [proposal EXCEPT ![id] = q]
    BY <1>7 DEF Cancel, Ballots
  <2>2. /\ q \in Proposal /\ q.votes = p.votes /\ q.quorum = p.quorum
        /\ q.end_time = p.end_time /\ q.start_time = p.start_time /\ q.snapshot_sequence = p.snapshot_sequence
        /\ q.status = "Canceled"
    BY <1>1 DEF Proposal, ProposalStatus
  <2> HIDE DEF q
  <2>3. Decided(q)
    BY <2>2 DEF Decided
  <2> QED BY <1>4, <2>1, <2>2, <2>3
<1> QED BY <1>5, <1>6, <1>7

\* propose starts with no receipts and empty tallies.
LEMMA ProposeCounts ==
  ASSUME Conserved, History, Timed, Ballots, NEW a \in Addr, Propose(a)
  PROVE  Ballots'
<1> DEFINE start == ledger + config.voting_delay
           end == start + config.voting_period
           n == count + 1
           x == [v \in VoteType |-> 0]
           m == (supply * config.quorum_numerator) \div 100
           r == [b \in Addr |-> NoReceipt]
           q == [proposer |-> a, start_time |-> start, end_time |-> end,
                 snapshot_sequence |-> ledger,
                 votes |-> x, status |-> "Pending", quorum |-> m, eta |-> 0]
<1>1. /\ config \in GovernanceConfig /\ n \in Ids /\ ledger \in Nat \ {0} /\ Clocked
      /\ UNCHANGED <<ledger, closing, receipt>>
      /\ proposal' = [proposal EXCEPT ![n] = q]
  BY GovernanceAssumption DEF Propose, Timed, Ids, balances, voting, History, Clocked
<1>2. proposal[n] = NoProposal /\ receipt[n] = r
  BY <1>1 DEF Timed, Ids, Ballots
<1>3. receipt' = [receipt EXCEPT ![n] = r]
  BY <1>1, <1>2 DEF Ballots
<1>4. start \in Nat /\ end \in Nat
  BY <1>1 DEF GovernanceConfig
<1>5. m \in Nat
  <2>1. supply \in Nat
    BY UnitsFinite, GovernanceAssumption DEF Conserved, Backed
  <2>2. config.quorum_numerator \in Nat
    BY <1>1 DEF GovernanceConfig
  <2>3. supply * config.quorum_numerator \in Nat
    BY <2>1, <2>2, ProductGrows
  <2> QED BY <2>3
<1>6. x \in [VoteType -> Nat] /\ r \in [Addr -> VoteReceipt \cup {NoReceipt}]
  OBVIOUS
<1>7. x = [t \in VoteType |-> Total(WeightsOf(r, t))]
  <2>1. ASSUME NEW t \in VoteType PROVE Total(WeightsOf(r, t)) = 0
    <3>1. WeightsOf(r, t) \in [Addr -> Nat] /\ \A b \in Addr : WeightsOf(r, t)[b] = 0
      BY DEF WeightsOf
    <3> QED BY <3>1, TotalZero
  <2> QED BY <2>1
<1> HIDE DEF start, end, x, m
<1>8. /\ q \in Proposal /\ q # NoProposal /\ q.status = "Pending" /\ q.votes = x
      /\ q.snapshot_sequence = ledger
  BY <1>1, <1>4, <1>5, <1>6 DEF Proposal, ProposalStatus, NoProposal
<1>9. Decided(q) /\ Honoured(q, r)
  <2> HIDE DEF q
  <2>1. \A b \in Addr : r[b] = NoReceipt
    OBVIOUS
  <2> QED BY <1>8, <2>1 DEF Decided, Honoured
<1> HIDE DEF q, r
<1>10. Counted(q, r)
  BY <1>1, <1>6, <1>7, <1>8, <1>9 DEF Counted
<1> QED BY <1>1, <1>3, <1>8, <1>10, OneBallot

\* At the start there are no proposals and no receipts.
LEMMA InitBallots == Init => Ballots
BY DEF Init, Ballots

\* Every step keeps tallies and receipts in agreement.
LEMMA NextBallots == Conserved /\ History /\ Timed /\ Ballots /\ [Next]_vars => Ballots'
<1> SUFFICES ASSUME Conserved, History, Timed, Ballots, [Next]_vars PROVE Ballots'
  OBVIOUS
<1>0. Clocked
  BY DEF History
<1>1. ASSUME UNCHANGED <<ledger, closing, proposal, receipt>> PROVE Ballots'
  BY <1>0, <1>1, QuietBallots
<1>2. ASSUME NEW c \in Configs, Initialize(c) PROVE Ballots'
  BY <1>1, <1>2 DEF Initialize, proposals
<1>3. ASSUME NEW a \in Addr, NEW m \in Amounts, Mint(a, m) \/ Burn(a, m) PROVE Ballots'
  BY <1>1, <1>3 DEF Mint, Burn, proposals
<1>4. ASSUME NEW a \in Addr, NEW b \in Addr, NEW m \in Amounts, Transfer(a, b, m)
      PROVE  Ballots'
  BY <1>1, <1>4 DEF Transfer, proposals
<1>5. ASSUME NEW a \in Addr, NEW b \in Addr, NEW m \in Amounts, NEW s \in Spenders,
             Approve(a, s, m) \/ TransferFrom(s, a, b, m)
      PROVE  Ballots'
  BY <1>1, <1>5 DEF Approve, TransferFrom, proposals
<1>6. ASSUME NEW a \in Addr, NEW b \in Addr, Delegate(a, b) PROVE Ballots'
  BY <1>1, <1>6 DEF Delegate, proposals
<1>7. ASSUME NEW a \in Addr, Propose(a) PROVE Ballots'
  BY <1>7, ProposeCounts
<1>8. ASSUME NEW id \in Ids, NEW a \in Addr, NEW v \in VoteType, Vote(a, id, v)
      PROVE  Ballots'
  BY <1>8, VoteCounts
<1>9. ASSUME NEW id \in Ids, Queue(id) \/ Execute(id) \/ Cancel(id) PROVE Ballots'
  BY <1>9, DecideCounts
<1>10. ASSUME NextLedger PROVE Ballots'
  BY <1>0, <1>10, QuietBallots DEF NextLedger, proposals
<1>11. ASSUME UNCHANGED vars PROVE Ballots'
  BY <1>1, <1>11 DEF vars, proposals
<1> QED
  BY <1>2, <1>3, <1>4, <1>5, <1>6, <1>7, <1>8, <1>9, <1>10, <1>11 DEF Next

\* What remains of the types.
Rest ==
  /\ allowance \in [Addr -> [Spenders -> Nat]]
  /\ count \in 0 .. MaxProposals

\* The allowances and the number of proposals at the start.
LEMMA InitRest == Init => Rest
BY GovernanceAssumption DEF Init, Rest

\* No allowance goes below 0 and no proposal is numbered beyond the bound.
LEMMA NextRest == Rest /\ [Next]_vars => Rest'
<1> SUFFICES ASSUME Rest, [Next]_vars PROVE Rest'
  OBVIOUS
<1>1. ASSUME UNCHANGED <<allowance, count>> PROVE Rest'
  BY <1>1 DEF Rest
<1>2. ASSUME NEW c \in Configs, Initialize(c) PROVE Rest'
  BY <1>1, <1>2 DEF Initialize, proposals
<1>3. ASSUME NEW a \in Addr, NEW m \in Amounts, Mint(a, m) \/ Burn(a, m) PROVE Rest'
  BY <1>1, <1>3 DEF Mint, Burn, proposals
<1>4. ASSUME NEW a \in Addr, NEW b \in Addr, NEW m \in Amounts, Transfer(a, b, m)
      PROVE  Rest'
  BY <1>1, <1>4 DEF Transfer, proposals
<1>5. ASSUME NEW a \in Addr, NEW s \in Spenders, NEW m \in Amounts, Approve(a, s, m) PROVE Rest'
  <2>1. m \in Nat
    BY <1>5, GovernanceAssumption DEF Approve
  <2> QED BY <1>5, <2>1 DEF Approve, Rest, proposals
<1>6. ASSUME NEW s \in Spenders, NEW a \in Addr, NEW b \in Addr, NEW m \in Amounts,
             TransferFrom(s, a, b, m)
      PROVE  Rest'
  <2>1. m \in Nat /\ allowance[a][s] \in Nat /\ allowance[a][s] - m \in Nat
    BY <1>6, GovernanceAssumption DEF TransferFrom, MoveTokens, Rest
  <2> QED BY <1>6, <2>1 DEF TransferFrom, Rest, proposals
<1>7. ASSUME NEW a \in Addr, NEW b \in Addr, Delegate(a, b) PROVE Rest'
  BY <1>1, <1>7 DEF Delegate, proposals
<1>8. ASSUME NEW a \in Addr, Propose(a) PROVE Rest'
  BY <1>8, GovernanceAssumption DEF Propose, Rest
<1>9. ASSUME NEW id \in Ids, NEW a \in Addr, NEW v \in VoteType, Vote(a, id, v)
      PROVE  Rest'
  BY <1>1, <1>9 DEF Vote
<1>10. ASSUME NEW id \in Ids, Queue(id) \/ Execute(id) \/ Cancel(id) PROVE Rest'
  BY <1>1, <1>10 DEF Queue, Execute, Cancel
<1>11. ASSUME NextLedger \/ UNCHANGED vars PROVE Rest'
  BY <1>1, <1>11 DEF NextLedger, vars, proposals
<1> QED
  BY <1>2, <1>3, <1>4, <1>5, <1>6, <1>7, <1>8, <1>9, <1>10, <1>11 DEF Next

\* The inductive invariant of the contract.
IInv == Conserved /\ History /\ Timed /\ Ballots /\ Rest

\* The invariant holds in every reachable state.
LEMMA Invariant == Spec => []IInv
<1>1. Init => IInv
  BY InitConserved, InitHistory, InitTimed, InitBallots, InitRest DEF IInv
<1>2. IInv /\ [Next]_vars => IInv'
  BY NextConserves, NextHistory, StepTimed, NextBallots, NextRest DEF IInv
<1> QED BY <1>1, <1>2, PTL DEF Spec

\* Every variable keeps its type: in particular no balance, power, checkpoint,
\* allowance or tally ever goes below 0.
THEOREM TypeCorrect == Spec => []TypeOK
<1>1. IInv => TypeOK
  <2> SUFFICES ASSUME IInv PROVE TypeOK
    OBVIOUS
  <2>1. /\ ledger \in Nat /\ config \in GovernanceConfig \cup {NoConfig}
        /\ bal \in [Addr -> Nat] /\ delegate \in [Addr -> Addr] /\ power \in [Addr -> Nat]
        /\ allowance \in [Addr -> [Spenders -> Nat]] /\ count \in 0 .. MaxProposals
        /\ closing \in Seq([Addr -> Nat])
    BY DEF IInv, Conserved, Backed, Timed, Rest, History, Clocked
  <2>2. supply \in Nat
    BY <2>1, UnitsFinite, GovernanceAssumption DEF IInv, Conserved
  <2>3. ckpts \in [Addr -> Seq(Checkpoint)]
    BY DEF IInv, History, AllRecorded, Recorded, Ordered
  <2>4. /\ proposal \in [Ids -> Proposal \cup {NoProposal}]
        /\ receipt \in [Ids -> [Addr -> VoteReceipt \cup {NoReceipt}]]
    <3>1. ASSUME NEW id \in Ids
          PROVE  /\ proposal[id] \in Proposal \cup {NoProposal}
                 /\ receipt[id] \in [Addr -> VoteReceipt \cup {NoReceipt}]
      BY DEF IInv, Ballots, Counted
    <3> QED BY <3>1 DEF IInv, Ballots
  <2> QED BY <2>1, <2>2, <2>3, <2>4 DEF TypeOK
<1> QED BY <1>1, Invariant, PTL

\* Whatever the voters and the order of their votes, a proposal is queued or
\* executed only with the quorum and the majority that its receipts make up.
THEOREM MajorityQueues == Spec => []QueuedByMajority
<1>1. IInv => QueuedByMajority
  <2> SUFFICES ASSUME IInv, NEW id \in Ids, proposal[id].status \in {"Queued", "Executed"}
               PROVE  /\ Total(Weights(id, "For")) > Total(Weights(id, "Against"))
                      /\ Total(Weights(id, "For")) + Total(Weights(id, "Against"))
                           + Total(Weights(id, "Abstain")) >= proposal[id].quorum
                      /\ proposal[id].votes = [t \in VoteType |-> Total(Weights(id, t))]
    BY DEF QueuedByMajority
  <2>1. proposal[id] # NoProposal
    BY DEF NoProposal
  <2>2. Counted(proposal[id], receipt[id])
    BY <2>1 DEF IInv, Ballots
  <2>3. \A t : Weights(id, t) = WeightsOf(receipt[id], t)
    BY DEF Weights, WeightsOf
  <2>4. proposal[id].votes = [t \in VoteType |-> Total(Weights(id, t))]
    BY <2>2, <2>3 DEF Counted
  <2>5. \A t \in VoteType : proposal[id].votes[t] = Total(Weights(id, t))
    BY <2>4
  <2> QED BY <2>2, <2>4, <2>5 DEF Counted, Decided, VoteType
<1> QED BY <1>1, Invariant, PTL

\* A voter with power at the close of the snapshot's ledger votes with exactly
\* that power, whatever moved between that ledger and the vote.
THEOREM SnapshotsHonoured == Spec => []SnapshotHonoured
<1>1. IInv => SnapshotHonoured
  BY DEF IInv, Ballots, Counted, Honoured, SnapshotHonoured
<1> QED BY <1>1, Invariant, PTL

=============================================================================
