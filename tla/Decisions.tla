----------------------------- MODULE Decisions -----------------------------
(***************************************************************************)
(* What contracts that decide cases promise - transfers to another chain,  *)
(* proposals, loans - told without saying how: a case is opened once and   *)
(* decided once, by an outcome that is one of its own, and after that      *)
(* nothing changes it.                                                     *)
(***************************************************************************)
CONSTANTS
  Case,
  Open,       \* the states of a case that wait for a decision
  Outcome     \* the decisions

VARIABLE state     \* of each case: "none", one of Open or an outcome

Init == state = [c \in Case |-> "none"]

Becomes(c, s) == state' = [state EXCEPT ![c] = s]

\* A case is opened, or it comes closer to its decision.
Proceed(c) == state[c] \in {"none"} \cup Open /\ \E s \in Open : Becomes(c, s)

Decide(c) == state[c] \in {"none"} \cup Open /\ \E s \in Outcome : Becomes(c, s)

Next == \E c \in Case : Proceed(c) \/ Decide(c)

\* One step of a system whose cases are these, or a step that leaves them alone.
Step == [Next]_state

Spec == Init /\ [][Next]_state

-----------------------------------------------------------------------------
\* What it comes to: no outcome is changed or taken back.
OutcomesStand == [][\A c \in Case : state[c] \in Outcome => state'[c] = state[c]]_state

\* The states of a case are what they are for.
Distinct == Open \cap Outcome = {} /\ "none" \notin Outcome

=============================================================================
