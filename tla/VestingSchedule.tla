--------------------------- MODULE VestingSchedule ---------------------------
(***************************************************************************)
(* Vesting schedules with a history (contracts/vesting_schedule): the      *)
(* admin locks tokens in any number of schedules, beneficiaries get them   *)
(* after a cliff with time, and the admin can change or revoke a schedule. *)
(*                                                                         *)
(* A call is one action and its error paths are its guards.  Texts and     *)
(* times of events are left out.  A schedule has SPAN keys for its events, *)
(* 1000 in the code: what is beyond them goes to the next free key, which  *)
(* is one of the following schedule.                                       *)
(***************************************************************************)
EXTENDS Integers, Sequences, TokenUnits

CONSTANTS
  Users, Admin, Self, None,
  Schedules,             \* what create_schedule is called with
  Cliffs, Durations,     \* what modify_schedule is called with, 0 for no change
  SPAN,
  InitBalance,           \* what the admin has of the token
  MaxSchedules, MaxEvents, MaxTime  \* bounds

VARIABLES
  now,        \* ledger timestamp
  bal,        \* balances of the token
  paused,     \* DataKey::Paused
  schedule,   \* DataKey::Schedule(id), the id is the index less 1
  of_user,    \* DataKey::BeneficiarySchedules(beneficiary)
  history     \* DataKey::VestingHistory(key), None when there is no event

vars == <<now, bal, paused, schedule, of_user, history>>

Keys == 0 .. MaxSchedules * SPAN + MaxEvents

\* What initialize leaves.
Init ==
  /\ now = 0
  /\ bal = [a \in Users \cup {Admin, Self} |-> IF a = Admin THEN InitBalance ELSE 0]
  /\ paused = FALSE
  /\ schedule = <<>>
  /\ of_user = [u \in Users |-> <<>>]
  /\ history = [k \in Keys |-> None]

Transfer(from, to, n) ==
  /\ bal[from] >= n
  /\ bal' = [bal EXCEPT ![from] = @ - n, ![to] = @ + n]

Recorded == {k \in Keys : history[k] # None}

\* record_history: the first free key from the schedule's own on.
RecordHistory(id, type, amount) ==
  /\ Cardinality(Recorded) < MaxEvents
  /\ \E k \in Keys \ Recorded :
       /\ k >= (id - 1) * SPAN
       /\ \A j \in (id - 1) * SPAN .. k - 1 : history[j] # None
       /\ history' = [history EXCEPT ![k] = [event_type |-> type, amount |-> amount]]

CalculateVestedAmount(s) ==
  CASE now < s.start_time + s.cliff_duration -> 0
    [] now >= s.start_time + s.vesting_duration -> s.total_amount
    [] OTHER -> (s.total_amount * (now - s.start_time - s.cliff_duration))
                  \div (s.vesting_duration - s.cliff_duration)

CreateSchedule(u, s) ==
  LET id == Len(schedule) + 1
  IN /\ ~paused
     /\ Len(schedule) < MaxSchedules
     /\ s.total_amount > 0
     /\ s.vesting_duration # 0
     /\ s.cliff_duration < s.vesting_duration
     /\ schedule' = Append(schedule,
          [beneficiary |-> u, total_amount |-> s.total_amount, released_amount |-> 0,
           start_time |-> s.start_time, cliff_duration |-> s.cliff_duration,
           vesting_duration |-> s.vesting_duration, revocable |-> s.revocable, revoked |-> FALSE])
     /\ of_user' = [of_user EXCEPT ![u] = Append(@, id)]
     /\ RecordHistory(id, "ScheduleCreated", s.total_amount)
     /\ Transfer(Admin, Self, s.total_amount)
     /\ UNCHANGED <<now, paused>>

\* release, by the beneficiary
Release(id) ==
  LET s == schedule[id]
      releasable == CalculateVestedAmount(s) - s.released_amount
  IN /\ ~paused
     /\ ~s.revoked
     /\ releasable > 0
     /\ schedule' = [schedule EXCEPT ![id].released_amount = @ + releasable]
     /\ Transfer(Self, s.beneficiary, releasable)
     /\ RecordHistory(id, "TokensReleased", releasable)
     /\ UNCHANGED <<now, paused, of_user>>

\* revoke_schedule, also while paused: what is vested and not released stays in
\* the contract, where nobody can get it.
RevokeSchedule(id) ==
  LET s == schedule[id]
      unvested == s.total_amount - CalculateVestedAmount(s)
  IN /\ s.revocable
     /\ ~s.revoked
     /\ schedule' = [schedule EXCEPT ![id].revoked = TRUE]
     /\ Transfer(Self, Admin, unvested)
     /\ RecordHistory(id, "ScheduleRevoked", unvested)
     /\ UNCHANGED <<now, paused, of_user>>

\* Mutated form: a schedule can be changed so that less is vested.
ModifyUnchecked(id, cliff, duration) ==
  LET s == schedule[id]
      new == [s EXCEPT !.cliff_duration = IF cliff > 0 THEN cliff ELSE @,
                       !.vesting_duration = IF duration > 0 THEN duration ELSE @]
  IN /\ ~paused
     /\ ~s.revoked
     /\ cliff > 0 => cliff < s.vesting_duration
     /\ duration > 0 => duration > new.cliff_duration
     /\ schedule' = [schedule EXCEPT ![id] = new]
     /\ RecordHistory(id, "ScheduleModified", 0)
     /\ UNCHANGED <<now, bal, paused, of_user>>

\* modify_schedule: the new cliff is compared with the old duration, the new
\* duration with the new cliff.
ModifySchedule(id, cliff, duration) ==
  LET s == schedule[id]
      new == [s EXCEPT !.cliff_duration = IF cliff > 0 THEN cliff ELSE @,
                       !.vesting_duration = IF duration > 0 THEN duration ELSE @]
  IN /\ ~paused
     /\ ~s.revoked
     /\ cliff > 0 => cliff < s.vesting_duration
     /\ duration > 0 => duration > new.cliff_duration
     /\ CalculateVestedAmount(new) >= CalculateVestedAmount(s)
     /\ schedule' = [schedule EXCEPT ![id] = new]
     /\ RecordHistory(id, "ScheduleModified", 0)
     /\ UNCHANGED <<now, bal, paused, of_user>>

\* pause and unpause
SetPaused(p) ==
  /\ paused # p
  /\ paused' = p
  /\ UNCHANGED <<now, bal, schedule, of_user, history>>

Tick ==
  /\ now < MaxTime
  /\ now' = now + 1
  /\ UNCHANGED <<bal, paused, schedule, of_user, history>>

Next ==
  \/ \E u \in Users, s \in Schedules : CreateSchedule(u, s)
  \/ \E id \in DOMAIN schedule :
       \/ Release(id) \/ RevokeSchedule(id)
       \/ \E cliff \in Cliffs, duration \in Durations : ModifySchedule(id, cliff, duration)
  \/ \E p \in BOOLEAN : SetPaused(p)
  \/ Tick

Spec == Init /\ [][Next]_vars

-----------------------------------------------------------------------------
\* The sum of the amounts of the events of one type.
Booked(type) ==
  Total([k \in {j \in Recorded : history[j].event_type = type} |-> history[k].amount])

\* No event is lost, also when a schedule's events run on among those of the
\* next: they account for the balance to the unit.  The balance covers what
\* live schedules still give, whatever was changed and revoked, a release is
\* never taken back by a change, and beneficiaries have what was released.
HistoryAccounts ==
  LET live == {id \in DOMAIN schedule : ~schedule[id].revoked}
      of(u) == {id \in DOMAIN schedule : schedule[id].beneficiary = u}
  IN /\ bal[Self] = Booked("ScheduleCreated") - Booked("TokensReleased") - Booked("ScheduleRevoked")
     /\ bal[Self] >= Total([id \in live |-> schedule[id].total_amount - schedule[id].released_amount])
     /\ \A id \in live : schedule[id].released_amount <= CalculateVestedAmount(schedule[id])
     /\ \A u \in Users :
          /\ bal[u] = Total([id \in of(u) |-> schedule[id].released_amount])
          /\ {of_user[u][i] : i \in DOMAIN of_user[u]} = of(u)

=============================================================================
