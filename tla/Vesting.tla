------------------------------- MODULE Vesting -------------------------------
(***************************************************************************)
(* Vesting of tokens (contracts/vesting): the admin locks tokens for a     *)
(* beneficiary, who gets them with time, with milestones or with both, and *)
(* can change a schedule or revoke what is not vested.                     *)
(*                                                                         *)
(* A call is one action and its error paths are its guards.  There is one  *)
(* schedule for a beneficiary: a new one replaces the old, whose tokens    *)
(* stay in the contract, and so do those vested but not released of a      *)
(* revoked schedule.  Percentages are in parts of WHOLE, 10000 in the code.*)
(* vested_then is not in the code: it keeps, for the property, what was    *)
(* vested when a schedule was revoked.                                     *)
(***************************************************************************)
EXTENDS Integers, Sequences, FiniteSets, TokenUnits

CONSTANTS
  Users, Admin, Self, None,
  WHOLE,                 \* 100 percent
  Schedules,             \* what create_schedule is called with
  Durations,             \* what modify_schedule is called with, 0 for no change
  Milestones,            \* the lists of milestones it is called with, <<>> for no change
  InitBalance,           \* what the admin has of the token
  MaxSchedules, MaxTime  \* bounds

VARIABLES
  now,        \* ledger timestamp
  bal,        \* balances of the token
  paused,     \* DataKey::Paused
  schedule,   \* DataKey::VestingSchedule(beneficiary)
  next_id,    \* DataKey::NextScheduleId
  vested_then \* beneficiary -> what was vested when the schedule was revoked

vars == <<now, bal, paused, schedule, next_id, vested_then>>

\* What initialize leaves.
Init ==
  /\ now = 0
  /\ bal = [a \in Users \cup {Admin, Self} |-> IF a = Admin THEN InitBalance ELSE 0]
  /\ paused = FALSE
  /\ schedule = [u \in Users |-> None]
  /\ next_id = 0
  /\ vested_then = [u \in Users |-> 0]

Transfer(from, to, n) ==
  /\ bal[from] >= n
  /\ bal' = [bal EXCEPT ![from] = @ - n, ![to] = @ + n]

-----------------------------------------------------------------------------
(***************************************************************************)
(* What is vested.                                                         *)
(***************************************************************************)
CalculateTimeBasedVesting(s) ==
  IF now >= s.start_time + s.vesting_duration THEN s.total_amount
  ELSE (s.total_amount * (now - s.start_time)) \div s.vesting_duration

CalculateMilestoneBasedVesting(s) ==
  Total([i \in {j \in DOMAIN s.milestones : s.milestones[j].completed} |->
           (s.total_amount * s.milestones[i].percentage) \div WHOLE])

CalculateVestedAmount(s) ==
  LET time == CalculateTimeBasedVesting(s)
      milestone == CalculateMilestoneBasedVesting(s)
  IN CASE now < s.start_time + s.cliff_duration -> 0
       [] now >= s.start_time + s.cliff_duration /\ s.vesting_type = "TimeBased" -> time
       [] now >= s.start_time + s.cliff_duration /\ s.vesting_type = "MilestoneBased" -> milestone
       [] OTHER -> IF time < milestone THEN time ELSE milestone

\* The milestones make up the whole.
Sums(milestones) ==
  milestones # <<>> => Total([i \in DOMAIN milestones |-> milestones[i].percentage]) = WHOLE

-----------------------------------------------------------------------------
(***************************************************************************)
(* Schedules.                                                              *)
(***************************************************************************)
CreateSchedule(u, s) ==
  /\ next_id < MaxSchedules
  /\ ~paused
  /\ Sums(s.milestones)
  /\ s.vesting_type # "TimeBased" => s.milestones # <<>>
  /\ schedule' = [schedule EXCEPT ![u] =
       [schedule_id |-> next_id, total_amount |-> s.total_amount, released_amount |-> 0,
        start_time |-> s.start_time, cliff_duration |-> s.cliff_duration,
        vesting_duration |-> s.vesting_duration, revocable |-> s.revocable, revoked |-> FALSE,
        milestones |-> s.milestones, vesting_type |-> s.vesting_type]]
  /\ next_id' = next_id + 1
  /\ vested_then' = [vested_then EXCEPT ![u] = 0]
  /\ Transfer(Admin, Self, s.total_amount)
  /\ UNCHANGED <<now, paused>>

Live(u) == schedule[u] # None /\ ~schedule[u].revoked

Release(u) ==
  LET releasable == CalculateVestedAmount(schedule[u]) - schedule[u].released_amount
  IN /\ ~paused
     /\ schedule[u] # None
     /\ Live(u)
     /\ releasable > 0
     /\ schedule' = [schedule EXCEPT ![u].released_amount = @ + releasable]
     /\ Transfer(Self, u, releasable)
     /\ UNCHANGED <<now, paused, next_id, vested_then>>

\* complete_milestone completes every milestone with this id
CompleteMilestone(u, id) ==
  LET ms == schedule[u].milestones
      found == {i \in DOMAIN ms : ms[i].id = id}
  IN /\ ~paused
     /\ schedule[u] # None
     /\ Live(u)
     /\ found # {}
     /\ \A i \in found : ~ms[i].completed
     /\ schedule' = [schedule EXCEPT ![u].milestones =
          [i \in DOMAIN ms |-> IF i \in found THEN [ms[i] EXCEPT !.completed = TRUE] ELSE ms[i]]]
     /\ UNCHANGED <<now, bal, paused, next_id, vested_then>>

\* revoke_schedule, also while paused
RevokeSchedule(u) ==
  /\ schedule[u] # None
  /\ schedule[u].revocable
  /\ ~schedule[u].revoked
  /\ schedule' = [schedule EXCEPT ![u].revoked = TRUE]
  /\ vested_then' = [vested_then EXCEPT ![u] = CalculateVestedAmount(schedule[u])]
  /\ Transfer(Self, Admin, schedule[u].total_amount - CalculateVestedAmount(schedule[u]))
  /\ UNCHANGED <<now, paused, next_id>>

Modified(s, duration, milestones) ==
  [s EXCEPT !.vesting_duration = IF duration > 0 THEN duration ELSE @,
            !.milestones = IF milestones # <<>> THEN milestones ELSE @]

\* Mutated form: what is vested is not compared.
ModifyUnchecked(u, duration, milestones) ==
  /\ ~paused
  /\ schedule[u] # None
  /\ Live(u)
  /\ Sums(milestones)
  /\ schedule' = [schedule EXCEPT ![u] = Modified(@, duration, milestones)]
  /\ UNCHANGED <<now, bal, paused, next_id, vested_then>>

ModifySchedule(u, duration, milestones) ==
  LET new == Modified(schedule[u], duration, milestones)
  IN /\ ~paused
     /\ schedule[u] # None
     /\ Live(u)
     /\ Sums(milestones)
     /\ CalculateVestedAmount(new) >= CalculateVestedAmount(schedule[u])
     /\ schedule' = [schedule EXCEPT ![u] = new]
     /\ UNCHANGED <<now, bal, paused, next_id, vested_then>>

\* pause and unpause
SetPaused(p) ==
  /\ paused # p
  /\ paused' = p
  /\ UNCHANGED <<now, bal, schedule, next_id, vested_then>>

Tick ==
  /\ now < MaxTime
  /\ now' = now + 1
  /\ UNCHANGED <<bal, paused, schedule, next_id, vested_then>>

Next ==
  \/ \E u \in Users :
       \/ \E s \in Schedules : CreateSchedule(u, s)
       \/ Release(u) \/ RevokeSchedule(u)
       \/ \E id \in 1 .. 2 : CompleteMilestone(u, id)
       \/ \E d \in Durations, ms \in Milestones : ModifySchedule(u, d, ms)
  \/ \E p \in BOOLEAN : SetPaused(p)
  \/ Tick

Spec == Init /\ [][Next]_vars

-----------------------------------------------------------------------------
\* What the beneficiary of a schedule has not been given: the rest of a live
\* one, and what was vested of a revoked one when it was revoked.
Kept(u) ==
  (IF Live(u) THEN schedule[u].total_amount ELSE vested_then[u]) - schedule[u].released_amount

\* Nobody got more than is vested, now or when the schedule was revoked,
\* though cliffs, milestones and changed schedules raise it unevenly; and the
\* contract has what live schedules still give and, of the revoked ones, what
\* was vested by then: revoking took back no more than was not vested.
VestingCovered ==
  LET kept == {u \in Users : schedule[u] # None}
  IN /\ \A u \in kept :
          /\ schedule[u].released_amount <= schedule[u].total_amount
          /\ schedule[u].released_amount
               <= (IF Live(u) THEN CalculateVestedAmount(schedule[u]) ELSE vested_then[u])
          /\ bal[u] >= schedule[u].released_amount
     /\ bal[Self] >= Total([u \in kept |-> Kept(u)])

=============================================================================
