--------------------------- MODULE EmergencyPause ---------------------------
(***************************************************************************)
(* The emergency pause (contracts/emergency_pause): any guardian pauses at *)
(* once, a pause ends only after a timelock that a guardian starts.        *)
(*                                                                         *)
(* As in MultisigEscrow a call is one action and its error paths are its   *)
(* guards.  Reasons are left out, and so are paused_at and paused_by,      *)
(* which the contract never reads.                                         *)
(***************************************************************************)
EXTENDS Integers, Sequences, FiniteSets

CONSTANTS
  Addr,              \* accounts
  Self,              \* the address of the contract
  None,              \* not initialized
  Timelocks,         \* the durations that set_timelock is called with
  DEFAULT_TIMELOCK,
  U64_MAX,           \* the largest timestamp
  MaxEvents,         \* bound on the history
  MaxTime            \* bound on the ledger timestamp

VARIABLES
  now,          \* ledger timestamp
  admin,        \* DataKey::Admin
  guardians,    \* DataKey::Guardians
  pause,        \* DataKey::PauseState
  timelock,     \* DataKey::UnpauseTimelock
  history       \* DataKey::PauseHistory; the timelock of an entry is the model's own

vars == <<now, admin, guardians, pause, timelock, history>>

NotPaused == [paused |-> FALSE, unpause_after |-> 0]

Init ==
  /\ now = 0
  /\ admin = None
  /\ guardians = {}
  /\ pause = NotPaused
  /\ timelock = 0
  /\ history = <<>>

Initialize(a) ==
  /\ admin = None
  /\ admin' = a
  /\ guardians' = {a}
  /\ timelock' = DEFAULT_TIMELOCK
  /\ history' = <<>>
  /\ UNCHANGED <<now, pause>>

\* record_event
Record(action, actor) ==
  /\ Len(history) < MaxEvents
  /\ history' = Append(history, [action |-> action, actor |-> actor, timestamp |-> now,
                                 timelock |-> timelock])

\* pause
Pause(g) ==
  /\ g \in guardians
  /\ ~pause.paused
  /\ pause' = [paused |-> TRUE, unpause_after |-> 0]
  /\ Record("paused", g)
  /\ UNCHANGED <<now, admin, guardians, timelock>>

\* request_unpause; another request starts the countdown again
RequestUnpause(g) ==
  /\ g \in guardians
  /\ pause.paused
  /\ now + timelock <= U64_MAX
  /\ pause' = [pause EXCEPT !.unpause_after = now + timelock]
  /\ Record("unpause_req", g)
  /\ UNCHANGED <<now, admin, guardians, timelock>>

\* Mutated form: without a request the timelock counts as expired.
ExecuteUnpauseUnrequested ==
  /\ pause.paused
  /\ now >= pause.unpause_after
  /\ pause' = NotPaused
  /\ Record("unpaused", Self)
  /\ UNCHANGED <<now, admin, guardians, timelock>>

\* execute_unpause, called by anybody
ExecuteUnpause ==
  /\ pause.paused
  /\ pause.unpause_after # 0
  /\ now >= pause.unpause_after
  /\ pause' = NotPaused
  /\ Record("unpaused", Self)
  /\ UNCHANGED <<now, admin, guardians, timelock>>

\* add_guardian, remove_guardian, called by the admin, who may remove itself
ChangeGuardians(a) ==
  /\ admin # None
  /\ guardians' \in {guardians \cup {a}, guardians \ {a}}
  /\ guardians' # guardians
  /\ UNCHANGED <<now, admin, pause, timelock, history>>

\* set_timelock, called by the admin: a countdown that runs keeps its end
SetTimelock(duration) ==
  /\ admin # None
  /\ duration > 0
  /\ timelock' = duration
  /\ UNCHANGED <<now, admin, guardians, pause, history>>

Tick ==
  /\ now < MaxTime
  /\ now' = now + 1
  /\ UNCHANGED <<admin, guardians, pause, timelock, history>>

Next ==
  \/ \E a \in Addr : Initialize(a) \/ Pause(a) \/ RequestUnpause(a) \/ ChangeGuardians(a)
  \/ ExecuteUnpause
  \/ \E d \in Timelocks : SetTimelock(d)
  \/ Tick

Spec == Init /\ [][Next]_vars

-----------------------------------------------------------------------------
\* A pause lasts: each unpause in the history follows a request of the same
\* pause, and the last such request is as long ago as the timelock that was in
\* force when it was made, whoever changed timelock and guardians since.  And
\* the contract is paused exactly if its history says so.
UnpauseWaits ==
  LET At(action) == {i \in 1 .. Len(history) : history[i].action = action}
      Since(i, j) == {k \in At("unpause_req") : i < k /\ k < j}
      Latest(S) == CHOOSE k \in S : \A l \in S : l <= k
      Pauses(j) == {i \in At("paused") : i < j}
      over == At("unpaused")
  IN /\ \A j \in over :
          /\ Pauses(j) # {}
          /\ LET requests == Since(Latest(Pauses(j)), j)
             IN /\ requests # {}
                /\ history[j].timestamp >=
                     history[Latest(requests)].timestamp + history[Latest(requests)].timelock
     /\ pause.paused <=> Cardinality(At("paused")) = Cardinality(over) + 1

=============================================================================
