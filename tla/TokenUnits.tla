----------------------------- MODULE TokenUnits -----------------------------
(***************************************************************************)
(* Sums of token amounts.  The contracts of this repository keep amounts   *)
(* per account, per escrow or per proposal and rely on their sums (a       *)
(* contract's balance covers what it owes, voting power adds up to the     *)
(* supply).  A sum is stated here as the number of token units: the k-th   *)
(* unit counted at index a is the pair <<a, k>>.  Counting pairs instead   *)
(* of folding a recursive sum keeps every fact about sums within reach of  *)
(* the theorems on finite sets (module TokenUnitsProofs).                  *)
(***************************************************************************)
EXTENDS Integers, FiniteSets

\* The token units that the amounts of f stand for.
Units(f) == UNION {{a} \X (1 .. f[a]) : a \in DOMAIN f}

\* The sum of f[a] over the domain of f.
Total(f) == Cardinality(Units(f))

=============================================================================
