------------------------------ MODULE Custody ------------------------------
(***************************************************************************)
(* What every contract that holds other people's tokens promises, told     *)
(* without saying how: the contract keeps a pool of each token and owes    *)
(* amounts out of it.  It takes on an obligation only together with the    *)
(* tokens that cover it, and it pays out no more than the obligation that  *)
(* the payment discharges.  That a custodian is solvent is proved with the *)
(* contracts that implement it.                                            *)
(***************************************************************************)
EXTENDS TokenUnits

CONSTANTS Token, Slot     \* tokens, and the names of the obligations

VARIABLES
  pool,     \* what the contract holds of each token
  owed      \* what it owes of each token, per slot

vars == <<pool, owed>>

Init ==
  /\ pool \in [Token -> Nat]
  /\ owed = [t \in Token |-> [s \in Slot |-> 0]]

\* Only the entries of token t and slot s change.
Only(t, s) ==
  /\ pool'[t] \in Nat /\ owed'[t][s] \in Nat
  /\ pool' = [pool EXCEPT ![t] = pool'[t]]
  /\ owed' = [owed EXCEPT ![t][s] = owed'[t][s]]

\* An obligation grows, and the pool by at least as much.
Deposit(t, s) ==
  /\ Only(t, s)
  /\ owed'[t][s] >= owed[t][s]
  /\ pool'[t] >= pool[t] + (owed'[t][s] - owed[t][s])

\* An obligation shrinks, and the pool by no more than that.
Discharge(t, s) ==
  /\ Only(t, s)
  /\ owed'[t][s] <= owed[t][s]
  /\ pool[t] <= pool'[t] + (owed[t][s] - owed'[t][s])

Next == \E t \in Token, s \in Slot : Deposit(t, s) \/ Discharge(t, s)

Spec == Init /\ [][Next]_vars

TypeOK ==
  /\ pool \in [Token -> Nat]
  /\ owed \in [Token -> [Slot -> Nat]]

\* The contract can always pay everything it owes.
Solvent == \A t \in Token : pool[t] >= Total(owed[t])

=============================================================================
