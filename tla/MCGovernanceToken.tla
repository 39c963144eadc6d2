-------------------------- MODULE MCGovernanceToken --------------------------
(***************************************************************************)
(* Instance of GovernanceToken for TLC: two holders, a spender, and a      *)
(* configuration that decides a proposal by half of the supply.  The       *)
(* second configuration is refused.                                        *)
(***************************************************************************)
EXTENDS GovernanceToken, TLC

CONSTANTS a1, a2, s1

Holders == {a1, a2}
Symmetry == Permutations(Holders)

MCConfig(delay, period, threshold, quorum, timelock, grace) ==
  [voting_delay |-> delay, voting_period |-> period, proposal_threshold |-> threshold,
   quorum_numerator |-> quorum, timelock_delay |-> timelock, grace_period |-> grace]

MCAmounts == {-1, 0, 1}

MCConfigs == { MCConfig(1, 0, 1, 50, 1, 0), MCConfig(1, 0, 1, 101, 1, 0) }

\* Bounds: an allowance is used or withdrawn before the ledger after the last
\* approval and before a proposal is made, and the proposal is made within
\* three ledgers.
Bounded ==
  /\ \/ count = 0 /\ ledger <= LastApproval
     \/ \A a \in Addr, s \in Spenders : allowance[a][s] = 0
  /\ count = 0 => ledger <= 3
=============================================================================
