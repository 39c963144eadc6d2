------------------------------- MODULE Energy -------------------------------
(***************************************************************************)
(* The energy of players (contracts/energy): it regenerates with the time  *)
(* that passed since it was last looked at, a puzzle uses it up, tokens    *)
(* refill it, boosts speed it up and players give it to one another.       *)
(*                                                                         *)
(* A call is one action and its error paths are its guards.  A record is   *)
(* made when a player is first seen, by any call, the views included; its  *)
(* last_gift_reset is never read and left out.  The day's reset of gifts   *)
(* stores its time and no more: gifted_today only grows.                   *)
(***************************************************************************)
EXTENDS Integers, FiniteSets

CONSTANTS
  Players, Self, None,
  Configs,               \* what initialize and update_config store
  Boosts,                \* the multipliers of the boosts, 2, 3 and 5
  Durations, Gifts,      \* of boosts; amounts given at a time
  DAY, U32_MAX,          \* seconds in a day; what fits in 32 bits
  InitBalance,           \* what each player has of the reward token
  MaxTime                \* bound

VARIABLES
  now,                \* ledger timestamp
  bal,                \* balances of the reward token
  config,             \* DataKey::Config, None before initialize
  energy,             \* DataKey::PlayerEnergy(player)
  total_players,      \* DataKey::TotalPlayers
  gift_reset          \* DataKey::DailyGiftReset

vars == <<now, bal, config, energy, total_players, gift_reset>>

Init ==
  /\ now = 0
  /\ bal = [p \in Players \cup {Self} |-> IF p = Self THEN 0 ELSE InitBalance]
  /\ config = None
  /\ energy = [p \in Players |-> None]
  /\ total_players = 0 /\ gift_reset = 0

Initialize(c) ==
  /\ config = None
  /\ ~c.paused
  /\ config' = c /\ total_players' = 0
  /\ UNCHANGED <<now, bal, energy, gift_reset>>

UpdateConfig(c) ==
  /\ config # None
  /\ config' = [c EXCEPT !.paused = config.paused]
  /\ UNCHANGED <<now, bal, energy, total_players, gift_reset>>

SetPaused(on) ==
  /\ config # None
  /\ config' = [config EXCEPT !.paused = on]
  /\ UNCHANGED <<now, bal, energy, total_players, gift_reset>>

-----------------------------------------------------------------------------
(***************************************************************************)
(* Records and regeneration.                                               *)
(***************************************************************************)
\* get_or_create_player_energy
Record(p) ==
  IF energy[p] # None THEN energy[p]
  ELSE [current_energy |-> config.default_max_energy, max_energy |-> config.default_max_energy,
        last_update |-> now, active_boost |-> None, boost_expires_at |-> 0, gifted_today |-> 0]

\* reset_daily_gifts_if_needed
ResetDailyGifts == gift_reset' = IF now - gift_reset >= DAY THEN now ELSE gift_reset

\* how the records of the players in seen are counted and their day looked at
Seen(seen) ==
  /\ total_players' = total_players + Cardinality({p \in seen : energy[p] = None})
  /\ IF \E p \in seen : energy[p] # None THEN ResetDailyGifts ELSE UNCHANGED gift_reset

Elapsed(e) == (now - e.last_update) % (U32_MAX + 1)
Boosted(e) == e.active_boost # None /\ e.boost_expires_at > now
Regenerated(e) ==
  Elapsed(e) * config.base_regen_rate * (IF Boosted(e) THEN e.active_boost ELSE 1)

\* update_energy_regeneration; the product panics when it does not fit
Smaller(a, b) == IF a < b THEN a ELSE b
Regenerate(e) ==
  IF Elapsed(e) = 0 THEN e
  ELSE [e EXCEPT !.current_energy = Smaller(@ + Regenerated(e), e.max_energy),
                 !.last_update = now,
                 !.active_boost = IF e.boost_expires_at > now THEN @ ELSE None,
                 !.boost_expires_at = IF @ > now THEN @ ELSE 0]
Fits(e) == Regenerated(e) <= U32_MAX

NotPaused == config # None /\ ~config.paused

-----------------------------------------------------------------------------
\* the views, which store the record of a player they have not seen
GetPlayerEnergy(p) ==
  /\ config # None
  /\ energy' = [energy EXCEPT ![p] = Record(p)]
  /\ Seen({p})
  /\ UNCHANGED <<now, bal, config>>

ConsumeEnergy(p) ==
  LET e == Regenerate(Record(p)) IN
  /\ NotPaused
  /\ Fits(Record(p))
  /\ e.current_energy >= config.puzzle_energy_cost
  /\ energy' = [energy EXCEPT ![p] =
       [e EXCEPT !.current_energy = @ - config.puzzle_energy_cost, !.last_update = now]]
  /\ Seen({p})
  /\ UNCHANGED <<now, bal, config>>

InstantRefill(p) ==
  LET e == Record(p) IN
  /\ NotPaused
  /\ bal[p] >= config.refill_token_cost
  /\ e.max_energy >= e.current_energy
  /\ bal' = [bal EXCEPT ![p] = @ - config.refill_token_cost,
                        ![Self] = @ + config.refill_token_cost]
  /\ energy' = [energy EXCEPT ![p] = [e EXCEPT !.current_energy = e.max_energy, !.last_update = now]]
  /\ Seen({p})
  /\ UNCHANGED <<now, config>>

\* Mutated form: the energy of the receiver is not brought up to date and has
\* no maximum.
GiftEnergyUnchecked(from, to, amount) ==
  LET f == Regenerate(Record(from))
      t == Record(to)
  IN
  /\ NotPaused
  /\ from # to /\ amount > 0
  /\ Fits(Record(from))
  /\ f.current_energy >= amount
  /\ f.gifted_today + amount <= config.max_gift_per_day
  /\ energy' = [energy EXCEPT
       ![from] = [f EXCEPT !.current_energy = @ - amount, !.gifted_today = @ + amount,
                           !.last_update = now],
       ![to] = [t EXCEPT !.current_energy = @ + amount, !.last_update = now]]
  /\ total_players' = total_players + Cardinality({p \in {from, to} : energy[p] = None})
  /\ ResetDailyGifts
  /\ UNCHANGED <<now, bal, config>>

GiftEnergy(from, to, amount) ==
  LET f == Regenerate(Record(from))
      t == Regenerate(Record(to))
  IN
  /\ NotPaused
  /\ from # to /\ amount > 0
  /\ Fits(Record(from)) /\ Fits(Record(to))
  /\ f.current_energy >= amount
  /\ f.gifted_today + amount <= config.max_gift_per_day
  /\ t.current_energy + amount <= t.max_energy
  /\ energy' = [energy EXCEPT
       ![from] = [f EXCEPT !.current_energy = @ - amount, !.gifted_today = @ + amount,
                           !.last_update = now],
       ![to] = [t EXCEPT !.current_energy = @ + amount, !.last_update = now]]
  /\ total_players' = total_players + Cardinality({p \in {from, to} : energy[p] = None})
  /\ ResetDailyGifts
  /\ UNCHANGED <<now, bal, config>>

\* what regenerated before the boost is not taken into account
ApplyBoost(p, boost, duration) ==
  /\ NotPaused
  /\ ~Boosted(Record(p))
  /\ energy' = [energy EXCEPT ![p] = [Record(p) EXCEPT !.active_boost = boost,
       !.boost_expires_at = now + duration, !.last_update = now]]
  /\ Seen({p})
  /\ UNCHANGED <<now, bal, config>>

Tick ==
  /\ now < MaxTime
  /\ now' = now + 1
  /\ UNCHANGED <<bal, config, energy, total_players, gift_reset>>

Next ==
  \/ \E c \in Configs : Initialize(c) \/ UpdateConfig(c)
  \/ \E on \in BOOLEAN : SetPaused(on)
  \/ \E p \in Players : GetPlayerEnergy(p) \/ ConsumeEnergy(p) \/ InstantRefill(p)
  \/ \E p, q \in Players, n \in Gifts : GiftEnergy(p, q, n)
  \/ \E p \in Players, b \in Boosts, d \in Durations : ApplyBoost(p, b, d)
  \/ Tick

Spec == Init /\ [][Next]_vars

-----------------------------------------------------------------------------
\* Whatever is used, given, refilled, boosted and regenerated and however the
\* configuration changes, nobody has more energy than the maximum of the
\* record (the subtraction in instant_refill, lib.rs:274, relies on it), no
\* record is ahead of the ledger, a record without a boost has no time it
\* ends at, and every player is counted once, whichever call saw the player
\* first (lib.rs:478).
EnergyBooks ==
  /\ total_players = Cardinality({p \in Players : energy[p] # None})
  /\ \A p \in Players : energy[p] # None =>
       /\ energy[p].current_energy <= energy[p].max_energy
       /\ energy[p].last_update <= now
       /\ energy[p].active_boost = None => energy[p].boost_expires_at = 0
  /\ gift_reset <= now

=============================================================================
