------------------------- MODULE MCMultisigTreasury -------------------------
(***************************************************************************)
(* Instance of MultisigTreasury for TLC: three accounts that may all       *)
(* become members, a transfer and a signer management proposal.            *)
(***************************************************************************)
EXTENDS MultisigTreasury, TLC

CONSTANTS a1, a2, a3

Accounts3 == {a1, a2, a3}
Symmetry == Permutations({a1, a2})

MCProposals ==
  { [type |-> "TokenTransfer", amount |-> 1],
    [type |-> "TokenTransfer", amount |-> 0],
    [type |-> "ContractCall"],
    [type |-> "SignerManagement", action |-> "add", target |-> a3, role |-> "Owner"],
    [type |-> "SignerManagement", action |-> "remove", target |-> a3, role |-> "Signer"],
    [type |-> "SignerManagement", action |-> "update_role", target |-> a3, role |-> "Signer"],
    [type |-> "SignerManagement", action |-> "other", target |-> a3, role |-> "Signer"] }

\* Bound: a recovery is not followed once the transaction is finished.
Bounded ==
  \A id \in TxIds : tx[id].status \in {"Executed", "Rejected"} => emergency = NoEmergency
=============================================================================
