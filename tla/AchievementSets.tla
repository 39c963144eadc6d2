-------------------------- MODULE AchievementSets --------------------------
(***************************************************************************)
(* Sets of achievements (contracts/achievement_sets): players who own all  *)
(* achievements of a set claim its bonus, some sets as limited editions,   *)
(* sets are combined to synergies, and bonuses make the leaderboards.      *)
(*                                                                         *)
(* A call is one action and its error paths are its guards.  The           *)
(* achievements are NFTs of another contract: who owns them changes at any *)
(* time.  The reward token, of which bonuses are minted, names and the     *)
(* times on the leaderboards are left out.                                 *)
(***************************************************************************)
EXTENDS Integers, Sequences, FiniteSets, TokenUnits

CONSTANTS
  Players, Puzzles, None,
  SetDefs,       \* what create_set is called with
  SynergyDefs,   \* what create_synergy is called with
  Tops,          \* max_top_entries that initialize is called with
  MaxSets, MaxSynergies   \* bounds

VARIABLES
  owns,            \* the puzzle ids of the achievements of each player
  top,             \* DataKey::Config: max_top_entries
  set, synergy,    \* DataKey::Set(id) and DataKey::Synergy(id), ids from 1 on
  progress,        \* DataKey::PlayerProgress(player, set)
  claimed,         \* DataKey::SetClaimed(player, set)
  combined,        \* DataKey::SynergyClaimed(player, synergy)
  claims,          \* DataKey::SetClaims(set), of limited editions
  unlocks,         \* DataKey::Unlocks(player)
  setboard,        \* DataKey::SetLeaderboard(set)
  board,           \* DataKey::GlobalLeaderboard
  bonus,           \* DataKey::PlayerTotalBonus(player)
  edition,         \* DataKey::EditionToken(id), ids from 1 on
  editions         \* DataKey::EditionByOwner(player)

vars == <<owns, top, set, synergy, progress, claimed, combined, claims, unlocks, setboard, board,
          bonus, edition, editions>>
definitions == <<top, set, synergy>>

Init ==
  /\ owns = [p \in Players |-> {}]
  /\ top = None
  /\ set = <<>> /\ synergy = <<>>
  /\ progress = [p \in Players |-> [s \in 1 .. MaxSets |-> {}]]
  /\ claimed = {} /\ combined = {}
  /\ claims = [s \in 1 .. MaxSets |-> 0]
  /\ unlocks = [p \in Players |-> {}]
  /\ setboard = [s \in 1 .. MaxSets |-> <<>>]
  /\ board = <<>>
  /\ bonus = [p \in Players |-> 0]
  /\ edition = <<>>
  /\ editions = [p \in Players |-> {}]

Initialize(n) ==
  /\ top = None
  /\ top' = n
  /\ UNCHANGED <<owns, set, synergy, progress, claimed, combined, claims, unlocks, setboard,
                 board, bonus, edition, editions>>

CreateSet(d) ==
  /\ top # None /\ Len(set) < MaxSets
  /\ set' = Append(set, d)
  /\ UNCHANGED <<owns, top, synergy, progress, claimed, combined, claims, unlocks, setboard,
                 board, bonus, edition, editions>>

CreateSynergy(d) ==
  /\ top # None /\ Len(synergy) < MaxSynergies
  /\ \A i \in DOMAIN d.required : d.required[i] \in DOMAIN set
  /\ synergy' = Append(synergy, d)
  /\ UNCHANGED <<owns, top, set, progress, claimed, combined, claims, unlocks, setboard,
                 board, bonus, edition, editions>>

\* Achievements are earned, and given to others.
PuzzleIdsOf(p, z) ==
  /\ owns' = [owns EXCEPT ![p] = IF z \in @ THEN @ \ {z} ELSE @ \cup {z}]
  /\ UNCHANGED <<definitions, progress, claimed, combined, claims, unlocks, setboard, board,
                 bonus, edition, editions>>

-----------------------------------------------------------------------------
(***************************************************************************)
(* Progress and leaderboards.                                              *)
(***************************************************************************)
Elements(s) == {s[i] : i \in DOMAIN s}

\* What sync_player_set stores of p for the set s.
Completed(p, s) == Elements(set[s].required) \cap owns[p]

\* is_completed: a set that requires a puzzle twice is never completed
IsCompleted(p, s) ==
  /\ Cardinality(Completed(p, s)) >= Len(set[s].required)
  /\ Elements(set[s].required) \subseteq Completed(p, s)

SyncPlayerSet(p, s) ==
  /\ s \in DOMAIN set
  /\ progress' = [progress EXCEPT ![p][s] = Completed(p, s)]
  /\ UNCHANGED <<owns, definitions, claimed, combined, claims, unlocks, setboard, board, bonus,
                 edition, editions>>

TierBonus(tier) ==
  CASE tier = "Common" -> 0 [] tier = "Rare" -> 50 [] tier = "Epic" -> 125
    [] tier = "Legendary" -> 300 [] tier = "Mythic" -> 750

\* The leaderboard lb without the entry of p, which has at most one
Others(lb, p) ==
  LET of_p == {i \in DOMAIN lb : lb[i].player = p}
      i == CHOOSE i \in of_p : TRUE
  IN IF of_p = {} THEN lb ELSE [j \in 1 .. Len(lb) - 1 |-> IF j < i THEN lb[j] ELSE lb[j + 1]]

\* The leaderboard lb with an entry before the first one that is worse, and
\* no longer than the maximum
Inserted(lb, p, score) ==
  LET k == CHOOSE k \in 1 .. Len(lb) + 1 : /\ \A j \in 1 .. k - 1 : lb[j].score >= score
                                           /\ k \in DOMAIN lb => lb[k].score < score
  IN [j \in 1 .. IF Len(lb) < top THEN Len(lb) + 1 ELSE top |->
        CASE j < k -> lb[j]
          [] j = k -> [player |-> p, score |-> score]
          [] j > k -> lb[j - 1]]

\* Mutated form: the old entry of the player stays.
RankedTwice(lb, p, score) == Inserted(lb, p, score)

Ranked(lb, p, score) == Inserted(Others(lb, p), p, score)

GrantUnlock(p, key) == unlocks' = [unlocks EXCEPT ![p] = @ \cup {key}]

\* add_player_bonus with update_global_leaderboard
AddPlayerBonus(p, n) ==
  /\ bonus' = [bonus EXCEPT ![p] = @ + n]
  /\ board' = Ranked(board, p, bonus[p] + n)

-----------------------------------------------------------------------------
(***************************************************************************)
(* Claims and limited editions.                                            *)
(***************************************************************************)
\* The edition token of p's claim of the limited set s.
MintEdition(p, s) ==
  LET serial == claims[s] + 1
  IN /\ claims' = [claims EXCEPT ![s] = serial]
     /\ edition' = Append(edition, [set_id |-> s, serial |-> serial, owner |-> p])
     /\ editions' = [editions EXCEPT ![p] = @ \cup {Len(edition) + 1}]

ClaimSetBonus(p, s) ==
  LET d == set[s]
      n == d.base_bonus + TierBonus(d.tier)
  IN /\ s \in DOMAIN set
     /\ <<p, s>> \notin claimed
     /\ d.cap # None => claims[s] < d.cap
     /\ IsCompleted(p, s)
     /\ progress' = [progress EXCEPT ![p][s] = Completed(p, s)]
     /\ claimed' = claimed \cup {<<p, s>>}
     /\ IF d.cap # None THEN MintEdition(p, s) ELSE UNCHANGED <<claims, edition, editions>>
     /\ GrantUnlock(p, d.unlock_key)
     /\ AddPlayerBonus(p, n)
     /\ setboard' = [setboard EXCEPT ![s] = Ranked(@, p, n)]
     /\ UNCHANGED <<owns, definitions, combined>>

\* claim_synergy_bonus: the sets must be completed now, but need not be claimed
ClaimSynergyBonus(p, y) ==
  LET sets == Elements(synergy[y].required)
  IN /\ y \in DOMAIN synergy
     /\ <<p, y>> \notin combined
     /\ \A s \in sets : IsCompleted(p, s)
     /\ progress' = [progress EXCEPT ![p] =
          [s \in 1 .. MaxSets |-> IF s \in sets THEN Completed(p, s) ELSE @[s]]]
     /\ combined' = combined \cup {<<p, y>>}
     /\ GrantUnlock(p, synergy[y].unlock_key)
     /\ AddPlayerBonus(p, synergy[y].bonus)
     /\ UNCHANGED <<owns, definitions, claimed, claims, setboard, edition, editions>>

TransferEditionToken(from, to, id) ==
  /\ id \in DOMAIN edition
  /\ from # to
  /\ edition[id].owner = from
  /\ editions' = [editions EXCEPT ![from] = @ \ {id}, ![to] = @ \cup {id}]
  /\ edition' = [edition EXCEPT ![id].owner = to]
  /\ UNCHANGED <<owns, definitions, progress, claimed, combined, claims, unlocks, setboard,
                 board, bonus>>

Next ==
  \/ \E n \in Tops : Initialize(n)
  \/ \E d \in SetDefs : CreateSet(d)
  \/ \E d \in SynergyDefs : CreateSynergy(d)
  \/ \E p \in Players :
       \/ \E z \in Puzzles : PuzzleIdsOf(p, z)
       \/ \E s \in DOMAIN set : SyncPlayerSet(p, s) \/ ClaimSetBonus(p, s)
       \/ \E y \in DOMAIN synergy : ClaimSynergyBonus(p, y)
       \/ \E q \in Players, id \in DOMAIN edition : TransferEditionToken(p, q, id)

Spec == Init /\ [][Next]_vars

-----------------------------------------------------------------------------
\* A leaderboard shows the best of those with a score: each once, with this
\* score, best first, and nobody who is left out did better than anybody shown.
Best(lb, score) ==
  LET shown == {lb[i].player : i \in DOMAIN lb}
      out == {p \in Players : score[p] > 0} \ shown
  IN /\ Cardinality(shown) = Len(lb)
     /\ \A i \in DOMAIN lb : /\ lb[i].score = score[lb[i].player]
                             /\ i > 1 => lb[i - 1].score >= lb[i].score
                             /\ \A p \in out : score[p] <= lb[i].score
     /\ out # {} => Len(lb) = top

\* The global leaderboard shows the players with the best bonuses, although it
\* is cut at every claim and never rebuilt, and the editions of a limited set
\* are numbered, no more than its cap, and listed for their owners only.
BoardsAndEditions ==
  /\ Best(board, bonus)
  /\ \A s \in DOMAIN set : set[s].cap # None =>
       LET serials == {edition[i].serial : i \in {j \in DOMAIN edition : edition[j].set_id = s}}
       IN serials = 1 .. claims[s] /\ claims[s] <= set[s].cap
  /\ \A p \in Players : editions[p] = {i \in DOMAIN edition : edition[i].owner = p}
  /\ Len(edition) = Total(claims)

=============================================================================
