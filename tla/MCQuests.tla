------------------------------ MODULE MCQuests ------------------------------
(***************************************************************************)
(* The contracts that players and guardians drive through phases, the      *)
(* quest chains and the emergency pause, and those that keep records of    *)
(* players.  Each behaviour runs one of them, chosen in the initial state. *)
(*                                                                         *)
(* The quest chains and the pause come first, with what TLC instantiates   *)
(* them with and the proofs of their invariants.  The contracts that keep  *)
(* records follow, with their constants as parameters (OfAntiBot and so    *)
(* on, records of the constants' values) and their proofs, then the values *)
(* that TLC gives these parameters, the specification, its properties and  *)
(* the theorems about it.                                                  *)
(***************************************************************************)
EXTENDS QuestChain, TokenUnitsProofs, TLC

CONSTANTS
  ann, bob, boss, mia, cat, eve, dan, gold, relic, Timelocks, DEFAULT_TIMELOCK, U64_MAX, MaxEvents,
  \* the constants of each contract that keeps records, by their names there
  OfAntiBot, OfDynamicMetadata, OfAchievementSets, OfReferral, OfCrossContract,
  OfGuild, OfEnergy

VARIABLES
  contract,   \* which one runs
  admin, guardians, pause, timelock, history

Emergency == INSTANCE EmergencyPause WITH Addr <- Staff \cup {Owner}

questVars == <<bal, nft, roles, counter, chain, progress, owed, pool, results, participants,
               ratings>>
pauseVars == <<admin, guardians, pause, timelock, history>>

-----------------------------------------------------------------------------
MCConfig(chains, min, max) ==
  [owner |-> None, max_chains |-> chains, min_quests_per_chain |-> min,
   max_quests_per_chain |-> max]

MCDefaultConfig == MCConfig(1, 1, 3)
MCConfigs == {MCDefaultConfig, MCConfig(2, 2, 3)}

Never == MaxTime + 1
Due(type, token, amount) == [token_type |-> type, token |-> token, amount |-> amount]

MCQuest(id, rewards, prerequisites, branches, checkpoint, expiry) ==
  [id |-> id, rewards |-> rewards, prerequisites |-> prerequisites, branches |-> branches,
   checkpoint |-> checkpoint, expires_at |-> expiry]

\* A chain with a checkpoint, whose first quest leads on to the last one,
\* passing over the second; a chain for one player at a time that expires;
\* a chain that is refused.
MCBlueprints ==
  { [quests |-> << MCQuest(1, <<Due("ERC20", gold, 1)>>, {}, <<3>>, TRUE, Never),
                   MCQuest(2, <<>>, {1}, <<>>, FALSE, 1),
                   MCQuest(3, <<Due("ERC721", relic, 2)>>, {1, 2}, <<>>, FALSE, Never) >>,
     start_time |-> 0, end_time |-> 0, max_participants |-> 3],
    [quests |-> << MCQuest(1, <<Due("Native", gold, 1), Due("ERC20", gold, 1)>>, {}, <<>>,
                           FALSE, Never) >>,
     start_time |-> 1, end_time |-> 1, max_participants |-> 1],
    [quests |-> << MCQuest(1, <<>>, {2}, <<>>, FALSE, Never) >>,
     start_time |-> 0, end_time |-> Never, max_participants |-> 3] }

\* The owner is done with roles and configuration and has created one chain
\* before the first player starts, and has from then on only ERC20 gold for the
\* chain that does not exist yet; a behaviour is not followed beyond a rating.
\* Between a fall back to the checkpoint and the next claim no time passes, and
\* nothing is due to the other player.
QuestsBounded ==
  /\ ratings = {}
  /\ \A p, r \in Players, c \in ChainIds : p # r /\ fallen[p][c] =>
       now = 0 /\ settled[r][c] = 0 /\ pending[r][c] = <<>>
  /\ (\E p \in Players, c \in ChainIds : Started(p, c)) =>
       /\ managers = {} /\ moderators = {}
       /\ config = [DEFAULT_CONFIG EXCEPT !.owner = Owner]
       /\ counter = 1 /\ chain[1].active
       /\ \A k \in Keys : pool[2][k] > 0 => k = <<"ERC20", gold>>

PlayerSymmetry == Permutations(Players)

MCFundings == {Due("ERC20", gold, 1), Due("Native", gold, 1), Due("ERC721", relic, 2)}

-----------------------------------------------------------------------------
\* emergency_pause: a pause ends only after the timelock of a request made
\* during it.
UnpauseWaits == Emergency!UnpauseWaits

-----------------------------------------------------------------------------
(***************************************************************************)
(* Proofs: the emergency pause.                                            *)
(***************************************************************************)
\* The guardians are accounts, and timelocks are times.
ASSUME GuardiansAssumption ==
  /\ None \notin Staff \cup {Owner}
  /\ DEFAULT_TIMELOCK \in Nat /\ Timelocks \subseteq Nat

\* An entry of the history.
Event ==
  [action : {"paused", "unpause_req", "unpaused"}, actor : Staff \cup {Owner, Self},
   timestamp : Nat, timelock : Nat]

\* The entries of h for an action.
EventsOf(h, action) == {i \in 1 .. Len(h) : h[i].action = action}

\* Entry j of h is an unpause that waited: i and k are the last pause and the
\* last request before it.
Waited(h, j) ==
  \E i \in EventsOf(h, "paused"), k \in EventsOf(h, "unpause_req") :
    /\ i < k /\ k < j
    /\ \A l \in EventsOf(h, "paused") : l < j => l <= i
    /\ \A l \in EventsOf(h, "unpause_req") : l < j => l <= k
    /\ h[j].timestamp >= h[k].timestamp + h[k].timelock

PauseTypes ==
  /\ now \in Nat /\ timelock \in Nat /\ history \in Seq(Event)
  /\ pause \in [paused : BOOLEAN, unpause_after : Nat]

\* Before the initialization nothing happens.
PauseIdle == admin = None => guardians = {} /\ history = <<>> /\ ~pause.paused

\* A pause that goes on is the last one of the history, and has been followed
\* by requests only; when a countdown runs, the last of them started it.
PauseRuns ==
  pause.paused =>
    /\ \E p \in EventsOf(history, "paused") :
         \A i \in 1 .. Len(history) : i > p => history[i].action = "unpause_req"
    /\ pause.unpause_after # 0 =>
         /\ history[Len(history)].action = "unpause_req"
         /\ pause.unpause_after =
              history[Len(history)].timestamp + history[Len(history)].timelock

\* Pauses and unpauses alternate.
PauseCount ==
  Cardinality(EventsOf(history, "paused")) =
    Cardinality(EventsOf(history, "unpaused")) + (IF pause.paused THEN 1 ELSE 0)

PauseInv ==
  /\ PauseTypes /\ PauseIdle /\ PauseRuns /\ PauseCount
  /\ \A j \in EventsOf(history, "unpaused") : Waited(history, j)

\* One more entry adds a position to the entries of its action.
LEMMA EventAdded ==
  ASSUME NEW h \in Seq(Event), NEW e \in Event
  PROVE  LET g == Append(h, e) n == Len(h) + 1 IN
         /\ g \in Seq(Event) /\ Len(g) = n /\ g[n] = e
         /\ \A i \in 1 .. Len(h) : g[i] = h[i]
         /\ \A a : EventsOf(g, a) = IF e.action = a THEN EventsOf(h, a) \cup {n} ELSE EventsOf(h, a)
         /\ \A a : /\ IsFiniteSet(EventsOf(h, a)) /\ n \notin EventsOf(h, a)
                   /\ Cardinality(EventsOf(h, a)) \in Nat
                   /\ Cardinality(EventsOf(g, a)) =
                        Cardinality(EventsOf(h, a)) + (IF e.action = a THEN 1 ELSE 0)
<1> DEFINE g == Append(h, e)
           n == Len(h) + 1
<1>1. /\ g \in Seq(Event) /\ Len(g) = n /\ g[n] = e /\ Len(h) \in Nat
      /\ \A i \in 1 .. Len(h) : g[i] = h[i]
  OBVIOUS
<1> HIDE DEF g
<1>2. ASSUME NEW a
      PROVE  EventsOf(g, a) = IF e.action = a THEN EventsOf(h, a) \cup {n} ELSE EventsOf(h, a)
  BY <1>1 DEF EventsOf
<1>3. ASSUME NEW a
      PROVE  /\ IsFiniteSet(EventsOf(h, a)) /\ n \notin EventsOf(h, a)
             /\ Cardinality(EventsOf(h, a)) \in Nat
  <2>1. EventsOf(h, a) \subseteq 1 .. Len(h) /\ 1 \in Int /\ Len(h) \in Int
    BY <1>1 DEF EventsOf
  <2>2. IsFiniteSet(1 .. Len(h))
    BY <2>1, FS_Interval
  <2>3. n \notin 1 .. Len(h)
    BY <1>1
  <2> HIDE DEF n
  <2> QED BY <2>1, <2>2, <2>3, FS_Subset, FS_CardinalityType
<1>4. ASSUME NEW a
      PROVE  Cardinality(EventsOf(g, a)) =
               Cardinality(EventsOf(h, a)) + (IF e.action = a THEN 1 ELSE 0)
  <2>1. Cardinality(EventsOf(h, a) \cup {n}) = Cardinality(EventsOf(h, a)) + 1
    <3> HIDE DEF n
    <3> QED BY <1>3, FS_AddElement
  <2>2. CASE e.action = a
    BY <1>2, <2>1, <2>2
  <2>3. CASE e.action # a
    BY <1>2, <1>3, <2>3
  <2> QED BY <2>2, <2>3
<1> QED BY <1>1, <1>2, <1>3, <1>4 DEF g

\* What an unpause has waited for does not change by what comes after it.
LEMMA WaitedStays ==
  ASSUME NEW h \in Seq(Event), NEW e \in Event, NEW j \in 1 .. Len(h), Waited(h, j)
  PROVE  Waited(Append(h, e), j)
<1> DEFINE g == Append(h, e)
           n == Len(h) + 1
<1>1. /\ \A i \in 1 .. Len(h) : g[i] = h[i]
      /\ \A a : EventsOf(g, a) = IF e.action = a THEN EventsOf(h, a) \cup {n} ELSE EventsOf(h, a)
  BY EventAdded
<1>2. PICK i \in EventsOf(h, "paused"), k \in EventsOf(h, "unpause_req") :
        /\ i < k /\ k < j
        /\ \A l \in EventsOf(h, "paused") : l < j => l <= i
        /\ \A l \in EventsOf(h, "unpause_req") : l < j => l <= k
        /\ h[j].timestamp >= h[k].timestamp + h[k].timelock
  BY DEF Waited
<1>3. Len(h) \in Nat /\ i \in 1 .. Len(h) /\ k \in 1 .. Len(h) /\ ~ (n < j)
  BY DEF EventsOf
<1>4. i \in EventsOf(g, "paused") /\ k \in EventsOf(g, "unpause_req")
  BY <1>1
<1>5. /\ \A l \in EventsOf(g, "paused") : l < j => l <= i
      /\ \A l \in EventsOf(g, "unpause_req") : l < j => l <= k
  <2> HIDE DEF g, n
  <2> QED BY <1>1, <1>2, <1>3
<1>6. g[j] = h[j] /\ g[k] = h[k]
  BY <1>1, <1>3
<1> HIDE DEF g
<1>7. Waited(g, j)
  BY <1>2, <1>4, <1>5, <1>6 DEF Waited
<1> QED BY <1>7 DEF g

\* An entry that is no unpause leaves what is said of the unpauses.
LEMMA WaitedAll ==
  ASSUME NEW h \in Seq(Event), NEW e \in Event,
         \A j \in EventsOf(h, "unpaused") : Waited(h, j),
         e.action = "unpaused" => Waited(Append(h, e), Len(h) + 1)
  PROVE  \A j \in EventsOf(Append(h, e), "unpaused") : Waited(Append(h, e), j)
<1> TAKE j \in EventsOf(Append(h, e), "unpaused")
<1>1. j \in EventsOf(h, "unpaused") \/ (j = Len(h) + 1 /\ e.action = "unpaused")
  BY EventAdded
<1>2. CASE j \in EventsOf(h, "unpaused")
  <2>1. j \in 1 .. Len(h)
    BY <1>2 DEF EventsOf
  <2> QED BY <1>2, <2>1, WaitedStays
<1> QED BY <1>1, <1>2

LEMMA PauseKeeps == ASSUME PauseInv, NEW a \in Staff \cup {Owner}, Emergency!Pause(a) PROVE PauseInv'
<1> DEFINE e == [action |-> "paused", actor |-> a, timestamp |-> now, timelock |-> timelock]
           n == Len(history) + 1
<1>1. /\ history' = Append(history, e) /\ ~pause.paused /\ a \in guardians
      /\ pause' = [paused |-> TRUE, unpause_after |-> 0]
      /\ UNCHANGED <<now, admin, guardians, timelock>>
  BY DEF Emergency!Pause, Emergency!Record
<1>2. PauseTypes /\ PauseIdle /\ PauseCount /\ history \in Seq(Event)
      /\ \A j \in EventsOf(history, "unpaused") : Waited(history, j)
  BY DEF PauseInv, PauseTypes
<1>3. e \in Event /\ e.action = "paused"
  BY <1>2 DEF Event, PauseTypes
<1> HIDE DEF e
<1>4. /\ history' \in Seq(Event) /\ Len(history') = n /\ Len(history) \in Nat
      /\ EventsOf(history', "paused") = EventsOf(history, "paused") \cup {n}
      /\ Cardinality(EventsOf(history', "paused")) = Cardinality(EventsOf(history, "paused")) + 1
      /\ Cardinality(EventsOf(history', "unpaused")) = Cardinality(EventsOf(history, "unpaused")) + 0
      /\ Cardinality(EventsOf(history, "paused")) \in Nat
      /\ Cardinality(EventsOf(history, "unpaused")) \in Nat
  BY <1>1, <1>2, <1>3, EventAdded
<1>5. PauseTypes'
  BY <1>1, <1>2, <1>4 DEF PauseTypes
<1>6. PauseIdle'
  BY <1>1, <1>2 DEF PauseIdle
<1>7. PauseRuns'
  <2>1. n \in EventsOf(history', "paused")
    BY <1>4
  <2>2. \A i \in 1 .. Len(history') : ~ (i > n)
    BY <1>4
  <2> QED BY <1>1, <2>1, <2>2 DEF PauseRuns
<1>8. PauseCount'
  BY <1>1, <1>2, <1>4 DEF PauseCount
<1>9. \A j \in EventsOf(history', "unpaused") : Waited(history', j)
  BY <1>1, <1>2, <1>3, WaitedAll
<1> QED BY <1>5, <1>6, <1>7, <1>8, <1>9 DEF PauseInv

LEMMA RequestKeeps ==
  ASSUME PauseInv, NEW a \in Staff \cup {Owner}, Emergency!RequestUnpause(a) PROVE PauseInv'
<1> DEFINE e == [action |-> "unpause_req", actor |-> a, timestamp |-> now, timelock |-> timelock]
           n == Len(history) + 1
<1>1. /\ history' = Append(history, e) /\ pause.paused /\ a \in guardians
      /\ pause' = [pause EXCEPT !.unpause_after = now + timelock]
      /\ UNCHANGED <<now, admin, guardians, timelock>>
  BY DEF Emergency!RequestUnpause, Emergency!Record
<1>2. PauseTypes /\ PauseIdle /\ PauseCount /\ PauseRuns /\ history \in Seq(Event)
      /\ \A j \in EventsOf(history, "unpaused") : Waited(history, j)
  BY DEF PauseInv, PauseTypes
<1>3. e \in Event /\ e.action = "unpause_req" /\ e.timestamp = now /\ e.timelock = timelock
  BY <1>2 DEF Event, PauseTypes
<1> HIDE DEF e
<1>4. /\ history' \in Seq(Event) /\ Len(history') = n /\ Len(history) \in Nat
      /\ history'[n] = e /\ \A i \in 1 .. Len(history) : history'[i] = history[i]
      /\ EventsOf(history', "paused") = EventsOf(history, "paused")
      /\ Cardinality(EventsOf(history', "unpaused")) = Cardinality(EventsOf(history, "unpaused")) + 0
      /\ Cardinality(EventsOf(history, "unpaused")) \in Nat
  BY <1>1, <1>2, <1>3, EventAdded
<1>5. PauseTypes' /\ pause'.paused /\ pause'.unpause_after = now + timelock
  BY <1>1, <1>2, <1>4 DEF PauseTypes
<1>6. PauseIdle'
  BY <1>1, <1>2 DEF PauseIdle
<1>7. PauseRuns'
  <2>1. PICK p \in EventsOf(history, "paused") :
          \A i \in 1 .. Len(history) : i > p => history[i].action = "unpause_req"
    BY <1>1, <1>2 DEF PauseRuns
  <2>2. ASSUME NEW i \in 1 .. Len(history'), i > p PROVE history'[i].action = "unpause_req"
    BY <1>3, <1>4, <2>1, <2>2
  <2> QED BY <1>3, <1>4, <1>5, <2>1, <2>2 DEF PauseRuns
<1>8. PauseCount'
  BY <1>1, <1>2, <1>4, <1>5 DEF PauseCount
<1>9. \A j \in EventsOf(history', "unpaused") : Waited(history', j)
  BY <1>1, <1>2, <1>3, WaitedAll
<1> QED BY <1>5, <1>6, <1>7, <1>8, <1>9 DEF PauseInv

LEMMA UnpauseKeeps == ASSUME PauseInv, Emergency!ExecuteUnpause PROVE PauseInv'
<1> DEFINE e == [action |-> "unpaused", actor |-> Self, timestamp |-> now, timelock |-> timelock]
           n == Len(history) + 1
           m == Len(history)
<1>1. /\ history' = Append(history, e) /\ pause.paused /\ pause.unpause_after # 0
      /\ now >= pause.unpause_after
      /\ pause' = [paused |-> FALSE, unpause_after |-> 0]
      /\ UNCHANGED <<now, admin, guardians, timelock>>
  BY DEF Emergency!ExecuteUnpause, Emergency!Record, Emergency!NotPaused
<1>2. PauseTypes /\ PauseIdle /\ PauseCount /\ PauseRuns /\ history \in Seq(Event)
      /\ \A j \in EventsOf(history, "unpaused") : Waited(history, j)
  BY DEF PauseInv, PauseTypes
<1>3. e \in Event /\ e.action = "unpaused" /\ e.timestamp = now
  BY <1>2 DEF Event, PauseTypes
<1> HIDE DEF e
<1>4. /\ history' \in Seq(Event) /\ Len(history') = n /\ m \in Nat
      /\ history'[n] = e /\ \A i \in 1 .. m : history'[i] = history[i]
      /\ EventsOf(history', "paused") = EventsOf(history, "paused")
      /\ EventsOf(history', "unpause_req") = EventsOf(history, "unpause_req")
      /\ Cardinality(EventsOf(history', "paused")) = Cardinality(EventsOf(history, "paused")) + 0
      /\ Cardinality(EventsOf(history', "unpaused")) = Cardinality(EventsOf(history, "unpaused")) + 1
      /\ Cardinality(EventsOf(history, "paused")) \in Nat
      /\ Cardinality(EventsOf(history, "unpaused")) \in Nat
  BY <1>1, <1>2, <1>3, EventAdded
<1>5. PauseTypes' /\ ~pause'.paused
  BY <1>1, <1>2, <1>4 DEF PauseTypes
<1>6. PauseIdle'
  BY <1>1, <1>2 DEF PauseIdle
<1>7. PauseRuns'
  BY <1>5 DEF PauseRuns
<1>8. PauseCount'
  BY <1>1, <1>2, <1>4, <1>5 DEF PauseCount
<1>9. Waited(history', n)
  <2>1. PICK p \in EventsOf(history, "paused") :
          \A i \in 1 .. m : i > p => history[i].action = "unpause_req"
    BY <1>1, <1>2 DEF PauseRuns
  <2>2. history[m].action = "unpause_req" /\ pause.unpause_after = history[m].timestamp + history[m].timelock
    BY <1>1, <1>2 DEF PauseRuns
  <2>3. p \in 1 .. m /\ history[p].action = "paused" /\ p < m
    BY <1>4, <2>2 DEF EventsOf
  <2>4. m \in EventsOf(history, "unpause_req")
    BY <2>2, <2>3 DEF EventsOf
  <2>5. \A l \in EventsOf(history, "paused") : l <= p
    BY <1>4, <2>1, <2>3 DEF EventsOf
  <2>6. \A l \in EventsOf(history, "unpause_req") : l <= m
    BY <1>4 DEF EventsOf
  <2>7. history'[n].timestamp >= history'[m].timestamp + history'[m].timelock
    BY <1>1, <1>3, <1>4, <2>2, <2>3
  <2>8. m < n
    BY <1>4
  <2> HIDE DEF m, n
  <2> QED BY <1>4, <2>3, <2>4, <2>5, <2>6, <2>7, <2>8 DEF Waited
<1>10. \A j \in EventsOf(history', "unpaused") : Waited(history', j)
  BY <1>1, <1>2, <1>3, <1>9, WaitedAll
<1> QED BY <1>5, <1>6, <1>7, <1>8, <1>10 DEF PauseInv

\* Calls that leave pause and history alone.
LEMMA PauseQuiet ==
  ASSUME PauseInv, now' \in Nat, timelock' \in Nat, pause' = pause, history' = history,
         admin' = None => admin = None /\ guardians' = guardians
  PROVE  PauseInv'
<1>1. PauseTypes'
  BY DEF PauseInv, PauseTypes
<1>2. PauseIdle' /\ PauseRuns' /\ PauseCount'
  BY DEF PauseInv, PauseIdle, PauseRuns, PauseCount
<1> QED BY <1>1, <1>2 DEF PauseInv

LEMMA PauseInit == Emergency!Init => PauseInv
<1> SUFFICES ASSUME Emergency!Init PROVE PauseInv
  OBVIOUS
<1>1. /\ now = 0 /\ admin = None /\ guardians = {} /\ timelock = 0 /\ history = <<>>
      /\ pause = [paused |-> FALSE, unpause_after |-> 0]
  BY DEF Emergency!Init, Emergency!NotPaused
<1>2. PauseTypes /\ PauseIdle /\ PauseRuns
  BY <1>1 DEF PauseTypes, PauseIdle, PauseRuns
<1>3. \A a : EventsOf(history, a) = {}
  BY <1>1 DEF EventsOf
<1>4. PauseCount
  BY <1>1, <1>3, FS_EmptySet DEF PauseCount
<1> QED BY <1>2, <1>3, <1>4 DEF PauseInv

LEMMA PauseStep == ASSUME PauseInv, Emergency!Next PROVE PauseInv'
<1>1. now \in Nat /\ timelock \in Nat /\ None \notin Staff \cup {Owner}
  BY GuardiansAssumption DEF PauseInv, PauseTypes
<1>2. ASSUME NEW a \in Staff \cup {Owner}, Emergency!Initialize(a) PROVE PauseInv'
  <2>1. history' = history
    BY <1>2 DEF PauseInv, PauseIdle, Emergency!Initialize
  <2> QED BY <1>1, <1>2, <2>1, PauseQuiet, GuardiansAssumption DEF Emergency!Initialize
<1>3. ASSUME NEW a \in Staff \cup {Owner}, Emergency!ChangeGuardians(a) PROVE PauseInv'
  BY <1>1, <1>3, PauseQuiet DEF Emergency!ChangeGuardians
<1>4. ASSUME NEW d \in Timelocks, Emergency!SetTimelock(d) PROVE PauseInv'
  BY <1>1, <1>4, PauseQuiet, GuardiansAssumption DEF Emergency!SetTimelock
<1>5. CASE Emergency!Tick
  BY <1>1, <1>5, PauseQuiet DEF Emergency!Tick
<1> QED
  BY <1>2, <1>3, <1>4, <1>5, PauseKeeps, RequestKeeps, UnpauseKeeps DEF Emergency!Next

\* The invariant says what the property says.
LEMMA PauseSays == PauseInv => UnpauseWaits
<1> SUFFICES ASSUME PauseInv PROVE UnpauseWaits
  OBVIOUS
<1> DEFINE Pauses(j) == {i \in EventsOf(history, "paused") : i < j}
           Since(i, j) == {k \in EventsOf(history, "unpause_req") : i < k /\ k < j}
           Latest(S) == CHOOSE k \in S : \A l \in S : l <= k
<1>1. ASSUME NEW S \in SUBSET Nat, NEW k \in S, \A l \in S : l <= k PROVE Latest(S) = k
  <2>1. Latest(S) \in S /\ \A l \in S : l <= Latest(S)
    BY <1>1
  <2> HIDE DEF Latest
  <2>2. Latest(S) \in Nat /\ k \in Nat /\ Latest(S) <= k /\ k <= Latest(S)
    BY <1>1, <2>1
  <2> QED BY <2>2
<1>2. \A a : EventsOf(history, a) \subseteq Nat
  BY DEF EventsOf
<1>3. ASSUME NEW j \in EventsOf(history, "unpaused")
      PROVE  /\ Pauses(j) # {} /\ Since(Latest(Pauses(j)), j) # {}
             /\ history[j].timestamp >=
                  history[Latest(Since(Latest(Pauses(j)), j))].timestamp
                    + history[Latest(Since(Latest(Pauses(j)), j))].timelock
  <2>1. PICK i \in EventsOf(history, "paused"), k \in EventsOf(history, "unpause_req") :
          /\ i < k /\ k < j
          /\ \A l \in EventsOf(history, "paused") : l < j => l <= i
          /\ \A l \in EventsOf(history, "unpause_req") : l < j => l <= k
          /\ history[j].timestamp >= history[k].timestamp + history[k].timelock
    BY DEF PauseInv, Waited
  <2>2. i \in Nat /\ k \in Nat /\ j \in Nat
    BY <1>2
  <2>3. i \in Pauses(j) /\ Pauses(j) \subseteq Nat /\ \A l \in Pauses(j) : l <= i
    BY <1>2, <2>1, <2>2
  <2>4. Latest(Pauses(j)) = i
    <3> HIDE DEF Latest, Pauses
    <3> QED BY <1>1, <2>3
  <2>5. k \in Since(i, j) /\ Since(i, j) \subseteq Nat /\ \A l \in Since(i, j) : l <= k
    BY <1>2, <2>1, <2>2
  <2>6. Latest(Since(i, j)) = k
    <3> HIDE DEF Latest, Since
    <3> QED BY <1>1, <2>5
  <2> HIDE DEF Latest, Since, Pauses
  <2> QED BY <2>1, <2>3, <2>4, <2>5, <2>6
<1>4. pause.paused <=> Cardinality(EventsOf(history, "paused")) = Cardinality(EventsOf(history, "unpaused")) + 1
  <2>1. history \in Seq(Event)
    BY DEF PauseInv, PauseTypes
  <2>2. Cardinality(EventsOf(history, "unpaused")) \in Nat
    <3>1. EventsOf(history, "unpaused") \subseteq 1 .. Len(history) /\ 1 \in Int /\ Len(history) \in Int
      BY <2>1 DEF EventsOf
    <3>2. IsFiniteSet(1 .. Len(history))
      BY <3>1, FS_Interval
    <3> QED BY <3>1, <3>2, FS_Subset, FS_CardinalityType
  <2>3. pause.paused \in BOOLEAN
    BY DEF PauseInv, PauseTypes
  <2> QED BY <2>2, <2>3 DEF PauseInv, PauseCount
<1>5. \A S : Emergency!Cardinality(S) = Cardinality(S)
  BY Zenon DEF Emergency!Cardinality, Cardinality
<1> HIDE DEF Pauses, Since, Latest
<1>6. pause.paused <=> Emergency!Cardinality(EventsOf(history, "paused"))
                         = Emergency!Cardinality(EventsOf(history, "unpaused")) + 1
  BY <1>4, <1>5
<1> QED
  BY Zenon, <1>3, <1>6
  DEF UnpauseWaits, Emergency!UnpauseWaits, Pauses, Since, Latest, EventsOf

-----------------------------------------------------------------------------
(***************************************************************************)
(* Proofs: the books of the quest chains.                                  *)
(***************************************************************************)
\* What the contract is called with.
Reward == [token_type : TokenType, token : Token \cup {None}, amount : Int]
Quest ==
  [id : Nat, rewards : Seq(Reward), prerequisites : SUBSET Nat, branches : Seq(Nat),
   checkpoint : BOOLEAN, expires_at : Nat]
Config ==
  [owner : {None, Owner}, max_chains : Nat, min_quests_per_chain : Nat,
   max_quests_per_chain : Nat]

\* Accounts, tokens and arguments are what their types say.
ASSUME QuestsAssumption ==
  /\ IsFiniteSet(Players) /\ IsFiniteSet(NftIds)
  /\ Players \subseteq Addr /\ Owner \in Addr /\ Self \notin Addr /\ None \notin Addr
  /\ NftIds \subseteq Nat /\ Nft \in Token
  /\ InitBalance \in Nat /\ MAX_LEADERBOARD_ENTRIES \in Nat /\ MaxChains \in Nat
  /\ DEFAULT_CONFIG \in Config /\ Configs \subseteq Config
  /\ Fundings \subseteq [token_type : TokenType, token : Token, amount : Int]
  /\ \A b \in Blueprints : b.quests \in Seq(Quest)

\* A started progress is a record of its own fields, with a checkpoint only
\* among the completed quests, which are quests of the chain.
Record(pr) ==
  pr = [completed |-> pr.completed, current |-> pr.current, checkpoint |-> pr.checkpoint,
        start_time |-> pr.start_time, completion_time |-> pr.completion_time]

InProgress(quests, pr) ==
  /\ Record(pr)
  /\ pr.completed \in Seq(Nat) /\ pr.start_time \in Nat
  /\ pr.checkpoint = NoQuest \/ \E i \in 1 .. Len(pr.completed) : pr.completed[i] = pr.checkpoint
  /\ \A i \in 1 .. Len(pr.completed) :
       \E j \in 1 .. Len(quests) : quests[j].id = pr.completed[i]

BoardEntry == [player : Players, duration : Int]

BookTypes ==
  /\ now \in Nat
  /\ config \in Config /\ counter \in 0 .. MaxChains
  /\ participants \in [ChainIds -> Nat] /\ completions \in [ChainIds -> Nat]
  /\ board \in [ChainIds -> Seq(BoardEntry)]
  /\ DOMAIN chain = ChainIds /\ chain = [c \in ChainIds |-> chain[c]]
  /\ progress = [p \in Players |-> [c \in ChainIds |-> progress[p][c]]]

\* Chains that are not created yet, and those that are.
Shelf(c) ==
  /\ chain[c].quests \in Seq(Quest)
  /\ c > counter => chain[c] = NoChain
  /\ \A p \in Players : Started(p, c) => c <= counter /\ InProgress(chain[c].quests, progress[p][c])

\* The leaderboard l of a chain that was completed n times.
BoardOf(l, n) ==
  /\ Len(l) = IF n < MAX_LEADERBOARD_ENTRIES THEN n ELSE MAX_LEADERBOARD_ENTRIES
  /\ \A i, j \in 1 .. Len(l) : i < j => l[i].duration <= l[j].duration

BooksInv ==
  /\ BookTypes
  /\ config.owner = None => counter = 0
  /\ \A c \in ChainIds :
       /\ Shelf(c)
       /\ participants[c] = Cardinality({p \in Players : Started(p, c)})
       /\ BoardOf(board[c], completions[c])

\* The progress of one player in one chain changes to r.
Puts(p, c, r) == progress' = [progress EXCEPT ![p][c] = r]

\* Nothing else changes then.
LEMMA ProgressChange ==
  ASSUME BookTypes, NEW p \in Players, NEW c \in ChainIds, NEW r, Puts(p, c, r)
  PROVE  /\ progress' = [q \in Players |-> [d \in ChainIds |-> progress'[q][d]]]
         /\ progress'[p][c] = r
         /\ \A q \in Players, d \in ChainIds :
              q # p \/ d # c => progress'[q][d] = progress[q][d]
<1>1. progress = [q \in Players |-> [d \in ChainIds |-> progress[q][d]]]
  BY DEF BookTypes
<1>2. progress' = [q \in Players |-> [d \in ChainIds |-> IF q = p /\ d = c THEN r ELSE progress[q][d]]]
  BY <1>1 DEF Puts
<1>3. progress'[p][c] = r
  BY <1>2
<1>4. ASSUME NEW q \in Players, NEW d \in ChainIds, q # p \/ d # c
      PROVE  progress'[q][d] = progress[q][d]
  BY <1>2, <1>4
<1>5. progress' = [q \in Players |-> [d \in ChainIds |-> progress'[q][d]]]
  BY <1>2, Zenon
<1> QED BY <1>3, <1>4, <1>5

\* A progress that is a record is not the one of a player that has not started.
LEMMA RecordStarted == ASSUME NEW pr, Record(pr) PROVE pr # NotStarted
<1>1. "checkpoint" \in DOMAIN pr
  BY DEF Record
<1>2. "checkpoint" \notin DOMAIN NotStarted
  BY DEF NotStarted
<1> QED BY <1>1, <1>2

\* What completing a quest and going back to a checkpoint make of a record.
Advanced(pr, l, q, k, t) ==
  [pr EXCEPT !.completed = l, !.current = q, !.checkpoint = k, !.completion_time = t]
WentBack(pr, l, q) == [pr EXCEPT !.completed = l, !.current = q]

LEMMA RecordUpdated ==
  ASSUME NEW pr, Record(pr), NEW l, NEW q, NEW k, NEW t
  PROVE  /\ Advanced(pr, l, q, k, t)
              = [completed |-> l, current |-> q, checkpoint |-> k, start_time |-> pr.start_time,
                 completion_time |-> t]
         /\ WentBack(pr, l, q)
              = [completed |-> l, current |-> q, checkpoint |-> pr.checkpoint,
                 start_time |-> pr.start_time, completion_time |-> pr.completion_time]
<1> DEFINE x == [pr EXCEPT !.completed = l, !.current = q, !.checkpoint = k, !.completion_time = t]
           y == [pr EXCEPT !.completed = l, !.current = q]
<1>1. DOMAIN pr = {"completed", "current", "checkpoint", "start_time", "completion_time"}
  BY DEF Record
<1>2. /\ DOMAIN x = DOMAIN pr /\ x = [f \in DOMAIN pr |-> x[f]]
      /\ x.completed = l /\ x.current = q /\ x.checkpoint = k /\ x.completion_time = t
      /\ x.start_time = pr.start_time
  BY ONLY <1>1
<1>3. /\ DOMAIN y = DOMAIN pr /\ y = [f \in DOMAIN pr |-> y[f]]
      /\ y.completed = l /\ y.current = q /\ y.checkpoint = pr.checkpoint
      /\ y.completion_time = pr.completion_time /\ y.start_time = pr.start_time
  BY ONLY <1>1
<1> HIDE DEF x, y
<1>4. x = [completed |-> l, current |-> q, checkpoint |-> k, start_time |-> pr.start_time,
           completion_time |-> t]
  BY ONLY <1>1, <1>2
<1>5. y = [completed |-> l, current |-> q, checkpoint |-> pr.checkpoint,
           start_time |-> pr.start_time, completion_time |-> pr.completion_time]
  BY ONLY <1>1, <1>3
<1> QED BY <1>4, <1>5 DEF x, y, Advanced, WentBack

\* The records that are at least as fast come first in an ordered list, as many
\* as there are of them.
LEMMA FasterFirst ==
  ASSUME NEW l \in Seq(BoardEntry), NEW d \in Int,
         \A i, j \in 1 .. Len(l) : i < j => l[i].duration <= l[j].duration
  PROVE  LET k == Cardinality({i \in 1 .. Len(l) : l[i].duration <= d}) + 1 IN
         /\ k \in 1 .. Len(l) + 1
         /\ \A i \in 1 .. Len(l) : l[i].duration <= d <=> i < k
<1> DEFINE n == Len(l)
           F == {i \in 1 .. n : l[i].duration <= d}
           T == {i \in 1 .. n + 1 : i \notin F}
<1>1. n \in Nat /\ \A i \in 1 .. n : l[i].duration \in Int
  <2>1. \A i \in 1 .. n : l[i] \in BoardEntry
    OBVIOUS
  <2> QED BY <2>1 DEF BoardEntry
<1>2. T \in SUBSET Nat /\ T # {}
  <2>1. n + 1 \in T
    BY <1>1
  <2> QED BY <1>1, <2>1
<1>3. PICK x \in T : \A y \in T : x <= y
  BY <1>2, Least
<1>4. x \in 1 .. n + 1 /\ x \notin F
  OBVIOUS
<1>5. \A i \in 1 .. n : i < x => i \in F
  <2> TAKE i \in 1 .. n
  <2> HAVE i < x
  <2>1. i \notin F => i \in T
    BY <1>1
  <2> QED BY <1>1, <1>3, <1>4, <2>1
<1>6. \A i \in 1 .. n : i \in F => i < x
  <2> TAKE i \in 1 .. n
  <2> HAVE i \in F
  <2>1. SUFFICES ASSUME x <= i PROVE FALSE
    BY <1>1, <1>4
  <2>2. x # i /\ x \in 1 .. n
    BY <1>1, <1>4, <2>1
  <2>3. l[x].duration <= l[i].duration /\ l[i].duration <= d
    BY <1>1, <1>4, <2>1, <2>2
  <2>4. l[x].duration <= d
    BY <1>1, <2>2, <2>3
  <2> QED BY <1>4, <2>2, <2>4
<1>7. F = 1 .. x - 1
  BY <1>1, <1>4, <1>5, <1>6
<1>8. Cardinality(F) = x - 1
  <2>1. 1 \in Int /\ x - 1 \in Int /\ Cardinality(1 .. x - 1) = (IF 1 > x - 1 THEN 0 ELSE (x - 1) - 1 + 1)
    BY <1>1, <1>4, FS_Interval
  <2>2. x \in Nat /\ x >= 1
    BY <1>1, <1>4
  <2>3. (IF 1 > x - 1 THEN 0 ELSE (x - 1) - 1 + 1) = x - 1
    BY <2>2
  <2> QED BY <1>7, <2>1, <2>3
<1>9. /\ Cardinality(F) + 1 \in 1 .. n + 1
      /\ \A i \in 1 .. n : l[i].duration <= d <=> i < Cardinality(F) + 1
  <2>1. Cardinality(F) + 1 = x
    BY <1>1, <1>4, <1>8
  <2> QED BY <1>4, <1>5, <1>6, <2>1
<1> QED BY <1>9

\* add_to_leaderboard keeps the order and the length.
LEMMA RankedOrdered ==
  ASSUME NEW l \in Seq(BoardEntry), NEW n \in Nat, BoardOf(l, n), NEW e \in BoardEntry
  PROVE  Ranked(l, e) \in Seq(BoardEntry) /\ BoardOf(Ranked(l, e), n + 1)
<1> DEFINE M == MAX_LEADERBOARD_ENTRIES
           m == Len(l)
           F == {i \in 1 .. m : l[i].duration <= e.duration}
           k == Cardinality(F) + 1
           size == IF m = M THEN m ELSE m + 1
           g == Ranked(l, e)
<1>1. /\ M \in Nat /\ m \in Nat /\ e.duration \in Int
      /\ \A i \in 1 .. m : l[i] \in BoardEntry /\ l[i].duration \in Int
  <2>1. \A i \in 1 .. m : l[i] \in BoardEntry
    OBVIOUS
  <2> QED BY <2>1, QuestsAssumption DEF BoardEntry
<1>2. /\ m = IF n < M THEN n ELSE M
      /\ \A i, j \in 1 .. m : i < j => l[i].duration <= l[j].duration
  BY DEF BoardOf
<1>3. /\ k \in 1 .. m + 1
      /\ \A i \in 1 .. m : l[i].duration <= e.duration <=> i < k
  BY <1>1, <1>2, FasterFirst
<1>4. g = [i \in 1 .. size |-> IF i < k THEN l[i] ELSE IF i = k THEN e ELSE l[i - 1]]
  BY DEF Ranked
<1> HIDE DEF g, F, k
<1>5. size \in Nat /\ size <= m + 1 /\ size = IF n + 1 < M THEN n + 1 ELSE M
  BY <1>1, <1>2
<1>6. ASSUME NEW i \in 1 .. size PROVE g[i] \in BoardEntry /\ g[i].duration \in Int
  <2>1. CASE i < k
    BY <1>1, <1>3, <1>4, <1>5, <2>1
  <2>2. CASE i = k
    BY <1>1, <1>4, <2>2
  <2>3. CASE i > k
    <3>1. i - 1 \in 1 .. m
      BY <1>1, <1>3, <1>5, <2>3
    <3>2. g[i] = l[i - 1]
      BY <1>3, <1>4, <2>3
    <3> QED BY <1>1, <3>1, <3>2
  <2> QED BY <1>3, <2>1, <2>2, <2>3
<1> HIDE DEF size
<1>7. g \in Seq(BoardEntry) /\ Len(g) = size
  <2>1. g \in [1 .. size -> BoardEntry]
    BY <1>4, <1>6
  <2> QED BY <1>5, <2>1
<1>8. ASSUME NEW i \in 1 .. size, NEW j \in 1 .. size, i < j
      PROVE  g[i].duration <= g[j].duration
  <2>1. i \in Nat /\ j \in Nat /\ k \in Nat /\ i <= m /\ j <= m + 1 /\ j - 1 \in Nat
    BY <1>1, <1>3, <1>5, <1>8
  <2>2. CASE j < k
    <3>1. g[i] = l[i] /\ g[j] = l[j] /\ i \in 1 .. m /\ j \in 1 .. m
      BY <1>3, <1>4, <1>8, <2>1, <2>2
    <3> QED BY <1>2, <1>8, <3>1
  <2>3. CASE j = k
    <3>1. g[i] = l[i] /\ g[j] = e /\ i \in 1 .. m /\ i < k
      BY <1>4, <1>8, <2>1, <2>3
    <3> QED BY <1>3, <3>1
  <2>4. CASE k < j /\ i < k
    <3>1. g[i] = l[i] /\ g[j] = l[j - 1] /\ i \in 1 .. m /\ j - 1 \in 1 .. m /\ i < j - 1
      BY <1>4, <1>8, <2>1, <2>4
    <3> QED BY <1>2, <3>1
  <2>5. CASE k < j /\ i = k
    <3>1. g[i] = e /\ g[j] = l[j - 1] /\ j - 1 \in 1 .. m /\ ~ (j - 1 < k)
      BY <1>3, <1>4, <1>8, <2>1, <2>5
    <3> QED BY <1>1, <1>3, <3>1
  <2>6. CASE k < i
    <3>1. g[i] = l[i - 1] /\ g[j] = l[j - 1] /\ i - 1 \in 1 .. m /\ j - 1 \in 1 .. m /\ i - 1 < j - 1
      BY <1>3, <1>4, <1>8, <2>1, <2>6
    <3> QED BY <1>2, <3>1
  <2> QED BY <1>8, <2>1, <2>2, <2>3, <2>4, <2>5, <2>6
<1>9. BoardOf(g, n + 1)
  <2> HIDE DEF M
  <2>1. Len(g) = IF n + 1 < M THEN n + 1 ELSE M
    BY <1>5, <1>7 DEF size
  <2> QED BY <1>7, <1>8, <2>1 DEF BoardOf, M
<1> QED BY <1>7, <1>9 DEF g

\* What the steps of the books have in common: chain by chain.
ChainOk(c) ==
  /\ Shelf(c)
  /\ participants[c] = Cardinality({p \in Players : Started(p, c)})
  /\ BoardOf(board[c], completions[c])

\* Steps that leave chains, progress and counters alone.
LEMMA BooksQuiet ==
  ASSUME BooksInv, now' \in Nat, config' \in Config,
         config'.owner = None => config.owner = None,
         UNCHANGED <<counter, chain, progress, participants, completions, board>>
  PROVE  BooksInv'
<1>1. BookTypes'
  BY DEF BooksInv, BookTypes
<1>2. ASSUME NEW c \in ChainIds PROVE ChainOk(c)'
  BY DEF BooksInv, ChainOk, Shelf, Started
<1> QED BY <1>1, <1>2 DEF BooksInv, ChainOk

LEMMA CreateKeeps ==
  ASSUME BooksInv, NEW a, NEW b \in Blueprints, CreateChain(a, b) PROVE BooksInv'
<1>0. /\ config.owner # None /\ counter < MaxChains /\ counter \in Nat /\ MaxChains \in Nat
  BY QuestsAssumption DEF CreateChain, BooksInv, BookTypes
<1> PICK n \in ChainIds : n = counter + 1
  BY <1>0 DEF ChainIds
<1> DEFINE x == [active |-> TRUE, quests |-> b.quests, start_time |-> b.start_time,
                 end_time |-> b.end_time, max_participants |-> b.max_participants]
<1>1. /\ config.owner # None /\ counter < MaxChains /\ counter' = n
      /\ chain' = [chain EXCEPT ![n] = x]
      /\ completions' = [completions EXCEPT ![n] = 0]
      /\ participants' = [participants EXCEPT ![n] = 0]
      /\ board' = [board EXCEPT ![n] = <<>>]
      /\ UNCHANGED <<now, config, progress>>
  BY DEF CreateChain, roles
<1>2. BookTypes
  BY DEF BooksInv
<1>3. BookTypes'
  <2>1. counter' \in 0 .. MaxChains
    BY <1>0, <1>1
  <2>2. DOMAIN chain' = ChainIds /\ chain' = [c \in ChainIds |-> chain'[c]]
    BY <1>1, <1>2 DEF BookTypes
  <2>3. participants' \in [ChainIds -> Nat] /\ completions' \in [ChainIds -> Nat]
        /\ board' \in [ChainIds -> Seq(BoardEntry)]
    BY <1>1, <1>2 DEF BookTypes
  <2> QED BY <1>1, <1>2, <2>1, <2>2, <2>3 DEF BookTypes
<1>4. \A p \in Players : ~Started(p, n)
  <2>1. ~ (n <= counter)
    BY <1>0
  <2> QED BY <2>1 DEF BooksInv, Shelf
<1>5. ChainOk(n)'
  <2>1. x.quests \in Seq(Quest)
    BY QuestsAssumption
  <2>2. chain'[n] = x /\ completions'[n] = 0 /\ participants'[n] = 0 /\ board'[n] = <<>>
    BY <1>1, <1>2 DEF BookTypes
  <2>3. \A p \in Players : progress'[p][n] = NotStarted
    BY <1>1, <1>4 DEF Started
  <2>4. ~ (n > counter')
    BY <1>0, <1>1
  <2>5. BoardOf(<<>>, 0)
    BY QuestsAssumption DEF BoardOf
  <2> HIDE DEF x
  <2>6. Shelf(n)'
    BY <2>1, <2>2, <2>3, <2>4 DEF Shelf, Started
  <2>7. {p \in Players : progress'[p][n] # NotStarted} = {}
    BY <2>3
  <2> QED BY <2>2, <2>5, <2>6, <2>7, FS_EmptySet DEF ChainOk, Started
<1>6. ASSUME NEW c \in ChainIds, c # n PROVE ChainOk(c)'
  <2>1. /\ chain'[c] = chain[c] /\ completions'[c] = completions[c]
        /\ participants'[c] = participants[c] /\ board'[c] = board[c] /\ progress' = progress
    BY <1>1, <1>2, <1>6 DEF BookTypes
  <2>2. (c > counter' => c > counter) /\ (c <= counter => c <= counter')
    BY <1>0, <1>1 DEF ChainIds
  <2> QED BY <2>1, <2>2 DEF BooksInv, ChainOk, Shelf, Started
<1>7. ASSUME NEW c \in ChainIds PROVE ChainOk(c)'
  BY <1>5, <1>6
<1>8. (config.owner = None => counter = 0)'
  BY <1>1
<1> QED BY <1>3, <1>7, <1>8 DEF BooksInv, ChainOk

\* Steps that change the progress of one player in one chain to r.
LEMMA PlayerStep ==
  ASSUME BooksInv, NEW p \in Players, NEW c \in ChainIds, NEW r,
         Puts(p, c, r),
         UNCHANGED <<now, config, counter, chain>>,
         participants' \in [ChainIds -> Nat], completions' \in [ChainIds -> Nat],
         board' \in [ChainIds -> Seq(BoardEntry)],
         \A d \in ChainIds \ {c} : /\ participants'[d] = participants[d]
                                   /\ completions'[d] = completions[d] /\ board'[d] = board[d],
         r # NotStarted => c <= counter /\ InProgress(chain[c].quests, r),
         participants'[c] = Cardinality({q \in Players : Started(q, c)'}),
         BoardOf(board'[c], completions'[c])
  PROVE  BooksInv'
<1>1. BookTypes
  BY DEF BooksInv
<1>2. /\ progress' = [q \in Players |-> [d \in ChainIds |-> progress'[q][d]]]
      /\ progress'[p][c] = r
      /\ \A q \in Players, d \in ChainIds :
           q # p \/ d # c => progress'[q][d] = progress[q][d]
  BY <1>1, ProgressChange
<1>3. BookTypes'
  BY <1>1, <1>2 DEF BookTypes
<1>4. ASSUME NEW d \in ChainIds PROVE Shelf(d)'
  <2>1. Shelf(d) /\ chain' = chain /\ counter' = counter
    BY DEF BooksInv
  <2>2. ASSUME NEW q \in Players, Started(q, d)'
        PROVE  d <= counter /\ InProgress(chain[d].quests, progress'[q][d])
    <3>1. CASE q = p /\ d = c
      BY <1>2, <2>2, <3>1 DEF Started
    <3>2. CASE q # p \/ d # c
      BY <1>2, <2>1, <2>2, <3>2 DEF Started, Shelf
    <3> QED BY <3>1, <3>2
  <2> QED BY <2>1, <2>2 DEF Shelf
<1>5. ASSUME NEW d \in ChainIds PROVE ChainOk(d)'
  <2>1. CASE d = c
    BY <1>4, <2>1 DEF ChainOk
  <2>2. CASE d # c
    <3>1. \A q \in Players : Started(q, d)' <=> Started(q, d)
      BY <1>2, <2>2 DEF Started
    <3>2. {q \in Players : Started(q, d)'} = {q \in Players : Started(q, d)}
      BY <3>1
    <3> QED BY <1>4, <2>2, <3>2 DEF BooksInv, ChainOk
  <2> QED BY <2>1, <2>2
<1> QED BY <1>3, <1>5 DEF BooksInv, ChainOk

LEMMA StartKeeps ==
  ASSUME BooksInv, NEW p \in Players, NEW c \in ChainIds, StartChain(p, c) PROVE BooksInv'
<1> DEFINE r == [completed |-> <<>>, current |-> InitialQuest(chain[c].quests),
                 checkpoint |-> NoQuest, start_time |-> now, completion_time |-> None]
           S == {q \in Players : Started(q, c)}
<1>1. /\ chain[c].active /\ ~Started(p, c)
      /\ Puts(p, c, r)
      /\ participants' = [participants EXCEPT ![c] = @ + 1]
      /\ UNCHANGED <<now, config, counter, chain, completions, board>>
  BY DEF StartChain, roles, results, Puts
<1>2. BookTypes /\ Shelf(c) /\ participants[c] = Cardinality(S) /\ BoardOf(board[c], completions[c])
      /\ now \in Nat
  BY DEF BooksInv, BookTypes
<1>3. c <= counter
  <2>1. c \in Nat /\ counter \in Nat
    BY <1>2 DEF BookTypes, ChainIds
  <2>2. chain[c] # NoChain
    BY <1>1 DEF NoChain
  <2> QED BY <1>2, <2>1, <2>2 DEF Shelf
<1>4. Record(r) /\ r.completed = <<>> /\ r.checkpoint = NoQuest /\ r.start_time = now
  BY DEF Record
<1> HIDE DEF r
<1>5. InProgress(chain[c].quests, r) /\ r # NotStarted
  BY <1>2, <1>4, RecordStarted DEF InProgress
<1>6. participants'[c] = Cardinality({q \in Players : Started(q, c)'})
  <2>1. \A q \in Players : Started(q, c)' <=> Started(q, c) \/ q = p
    BY <1>1, <1>2, <1>5, ProgressChange DEF Started
  <2>2. {q \in Players : Started(q, c)'} = S \cup {p}
    BY <2>1
  <2>3. IsFiniteSet(S) /\ p \notin S
    BY <1>1, QuestsAssumption, FS_Subset
  <2>4. Cardinality(S \cup {p}) = Cardinality(S) + 1
    BY <2>3, FS_AddElement
  <2> QED BY <1>1, <1>2, <2>2, <2>4 DEF BookTypes
<1>7. participants' \in [ChainIds -> Nat] /\ \A d \in ChainIds \ {c} : participants'[d] = participants[d]
  BY <1>1, <1>2 DEF BookTypes
<1>8. completions' \in [ChainIds -> Nat] /\ board' \in [ChainIds -> Seq(BoardEntry)]
  BY <1>1, <1>2 DEF BookTypes
<1> QED BY <1>1, <1>2, <1>3, <1>5, <1>6, <1>7, <1>8, PlayerStep

LEMMA ResetKeeps ==
  ASSUME BooksInv, NEW p \in Players, NEW c \in ChainIds, ResetChain(p, c) PROVE BooksInv'
<1> DEFINE S == {q \in Players : Started(q, c)}
<1>1. /\ Started(p, c)
      /\ Puts(p, c, NotStarted)
      /\ participants' = [participants EXCEPT ![c] = IF @ > 0 THEN @ - 1 ELSE @]
      /\ UNCHANGED <<now, config, counter, chain, completions, board>>
  BY DEF ResetChain, roles, results, Puts
<1>2. BookTypes /\ participants[c] = Cardinality(S) /\ BoardOf(board[c], completions[c])
      /\ participants[c] \in Nat
  BY DEF BooksInv, BookTypes
<1>3. IsFiniteSet(S) /\ p \in S
  BY <1>1, QuestsAssumption, FS_Subset
<1>4. Cardinality(S \ {p}) = Cardinality(S) - 1 /\ Cardinality(S \ {p}) \in Nat
  BY <1>3, FS_RemoveElement, FS_CardinalityType
<1>5. {q \in Players : Started(q, c)'} = S \ {p}
  <2>1. \A q \in Players : Started(q, c)' <=> Started(q, c) /\ q # p
    BY <1>1, <1>2, ProgressChange DEF Started
  <2> QED BY <2>1
<1> HIDE DEF S
<1>6. participants'[c] = Cardinality({q \in Players : Started(q, c)'})
  <2>1. participants[c] = Cardinality(S) /\ Cardinality(S) > 0
    BY <1>2, <1>4
  <2>2. participants'[c] = participants[c] - 1
    BY <1>1, <1>2, <2>1 DEF BookTypes
  <2> QED BY <1>4, <1>5, <2>1, <2>2
<1>7. participants' \in [ChainIds -> Nat] /\ \A d \in ChainIds \ {c} : participants'[d] = participants[d]
  BY <1>1, <1>2 DEF BookTypes
<1>8. completions' \in [ChainIds -> Nat] /\ board' \in [ChainIds -> Seq(BoardEntry)]
  BY <1>1, <1>2 DEF BookTypes
<1> QED BY <1>1, <1>2, <1>6, <1>7, <1>8, PlayerStep

\* A call that leaves the players of the chain the same.
LEMMA SamePlayers ==
  ASSUME BooksInv, NEW p \in Players, NEW c \in ChainIds, NEW r, r # NotStarted, Started(p, c),
         Puts(p, c, r), participants' = participants
  PROVE  /\ participants' \in [ChainIds -> Nat]
         /\ participants'[c] = Cardinality({q \in Players : Started(q, c)'})
<1>1. BookTypes /\ participants[c] = Cardinality({q \in Players : Started(q, c)})
  BY DEF BooksInv
<1>2. \A q \in Players : Started(q, c)' <=> Started(q, c)
  BY <1>1, ProgressChange DEF Started
<1>3. {q \in Players : Started(q, c)'} = {q \in Players : Started(q, c)}
  BY <1>2
<1> QED BY <1>1, <1>3 DEF BookTypes

LEMMA CompleteKeeps ==
  ASSUME BooksInv, NEW p \in Players, NEW c \in ChainIds, NEW q \in QuestIds, CompleteQuest(p, c, q)
  PROVE  BooksInv'
<1> DEFINE quests == chain[c].quests
           quest == QuestOf(quests, q)
           pr == progress[p][c]
           list == Append(pr.completed, q)
           finished == Len(list) = Len(quests)
           r == [pr EXCEPT !.completed = list,
                           !.current = NextQuest(quests, Elements(list), q),
                           !.checkpoint = IF quest.checkpoint THEN q ELSE @,
                           !.completion_time = IF finished THEN now ELSE @]
           e == [player |-> p, duration |-> now - pr.start_time]
<1>1. /\ Started(p, c) /\ q \in {quests[i].id : i \in 1 .. Len(quests)}
      /\ Puts(p, c, r)
      /\ \/ /\ board' = [board EXCEPT ![c] = Ranked(@, e)]
            /\ completions' = [completions EXCEPT ![c] = @ + 1]
         \/ UNCHANGED <<board, completions>>
      /\ UNCHANGED <<now, config, counter, chain, participants>>
  BY DEF CompleteQuest, roles, results, Puts
<1>2. BookTypes /\ Shelf(c) /\ BoardOf(board[c], completions[c]) /\ now \in Nat
  BY DEF BooksInv, BookTypes
<1>3. c <= counter /\ InProgress(quests, pr) /\ quests \in Seq(Quest)
  BY <1>1, <1>2 DEF Shelf
<1>4. PICK j \in 1 .. Len(quests) : quests[j].id = q
  BY <1>1
<1>5. q \in Nat
  <2>1. quests[j] \in Quest
    BY <1>3
  <2> QED BY <1>4, <2>1 DEF Quest
<1>6. Record(pr) /\ pr.completed \in Seq(Nat) /\ pr.start_time \in Nat
  BY <1>3 DEF InProgress
<1> HIDE DEF quests, quest, pr
<1>7. /\ Record(r) /\ r.completed = list /\ r.start_time = pr.start_time
      /\ r.checkpoint \in {q, pr.checkpoint}
  <2> HIDE DEF list
  <2>1. r = [completed |-> list, current |-> NextQuest(quests, Elements(list), q),
             checkpoint |-> IF quest.checkpoint THEN q ELSE pr.checkpoint,
             start_time |-> pr.start_time,
             completion_time |-> IF finished THEN now ELSE pr.completion_time]
    <3>1. r = Advanced(pr, list, NextQuest(quests, Elements(list), q),
                       IF quest.checkpoint THEN q ELSE pr.checkpoint,
                       IF finished THEN now ELSE pr.completion_time)
      BY DEF Advanced
    <3> HIDE DEF r, finished
    <3> QED BY <1>6, <3>1, RecordUpdated
  <2> HIDE DEF r
  <2> QED BY <2>1 DEF Record
<1>8. /\ list \in Seq(Nat) /\ Len(list) = Len(pr.completed) + 1 /\ list[Len(list)] = q
      /\ \A i \in 1 .. Len(pr.completed) : list[i] = pr.completed[i]
      /\ Len(pr.completed) \in Nat
  BY <1>5, <1>6
<1> HIDE DEF r, list
<1>9. InProgress(quests, r)
  <2>1. r.checkpoint = NoQuest \/ \E i \in 1 .. Len(list) : list[i] = r.checkpoint
    <3>1. CASE r.checkpoint = q
      BY <1>8, <3>1
    <3>2. CASE r.checkpoint = pr.checkpoint
      BY <1>3, <1>8, <3>2 DEF InProgress
    <3> QED BY <1>7, <3>1, <3>2
  <2>2. ASSUME NEW i \in 1 .. Len(list) PROVE \E k \in 1 .. Len(quests) : quests[k].id = list[i]
    <3>1. CASE i = Len(list)
      BY <1>4, <1>8, <3>1
    <3>2. CASE i # Len(list)
      <4>1. i \in 1 .. Len(pr.completed)
        BY <1>8, <3>2
      <4> QED BY <1>3, <1>8, <4>1 DEF InProgress
    <3> QED BY <3>1, <3>2
  <2> QED BY <1>6, <1>7, <1>8, <2>1, <2>2 DEF InProgress
<1>10. r # NotStarted
  BY <1>7, RecordStarted
<1>11. participants' \in [ChainIds -> Nat] /\ participants'[c] = Cardinality({x \in Players : Started(x, c)'})
  BY <1>1, <1>10, SamePlayers
<1>12. e \in BoardEntry
  BY <1>2, <1>6 DEF BoardEntry
<1>13. /\ completions' \in [ChainIds -> Nat] /\ board' \in [ChainIds -> Seq(BoardEntry)]
       /\ \A d \in ChainIds \ {c} : completions'[d] = completions[d] /\ board'[d] = board[d]
       /\ BoardOf(board'[c], completions'[c])
  <2>1. CASE UNCHANGED <<board, completions>>
    BY <1>2, <2>1 DEF BookTypes
  <2>2. CASE /\ board' = [board EXCEPT ![c] = Ranked(@, e)]
             /\ completions' = [completions EXCEPT ![c] = @ + 1]
    <3>1. board[c] \in Seq(BoardEntry) /\ completions[c] \in Nat
      BY <1>2 DEF BookTypes
    <3>2. Ranked(board[c], e) \in Seq(BoardEntry) /\ BoardOf(Ranked(board[c], e), completions[c] + 1)
      BY <1>2, <1>12, <3>1, RankedOrdered
    <3> HIDE DEF e
    <3> QED BY <1>2, <2>2, <3>1, <3>2 DEF BookTypes
  <2> QED BY <1>1, <2>1, <2>2
<1>14. \A d \in ChainIds \ {c} : participants'[d] = participants[d]
  BY <1>1
<1> HIDE DEF e
<1> QED BY <1>1, <1>3, <1>9, <1>11, <1>13, <1>14, PlayerStep DEF quests

\* What reset_to_checkpoint leaves of the list: what was completed up to the
\* checkpoint.
LEMMA UpToCheckpoint ==
  ASSUME NEW quests, NEW pr, InProgress(quests, pr), pr.checkpoint # NoQuest
  PROVE  LET last == {i \in 1 .. Len(pr.completed) : pr.completed[i] = pr.checkpoint}
             k == CHOOSE i \in last : TRUE
             list == SubSeq(pr.completed, 1, k)
         IN /\ k \in 1 .. Len(pr.completed) /\ list \in Seq(Nat) /\ Len(list) = k
            /\ list[k] = pr.checkpoint
            /\ \A i \in 1 .. k : list[i] = pr.completed[i]
<1> DEFINE last == {i \in 1 .. Len(pr.completed) : pr.completed[i] = pr.checkpoint}
           k == CHOOSE i \in last : TRUE
           list == SubSeq(pr.completed, 1, k)
<1>1. last # {} /\ pr.completed \in Seq(Nat)
  BY DEF InProgress
<1>2. k \in last
  BY <1>1
<1> HIDE DEF k
<1>3. k \in 1 .. Len(pr.completed) /\ pr.completed[k] = pr.checkpoint
  BY <1>2
<1>4. list \in Seq(Nat) /\ Len(list) = k /\ \A i \in 1 .. k : list[i] = pr.completed[i]
  BY <1>1, <1>3
<1>5. list[k] = pr.checkpoint
  BY <1>3, <1>4
<1> QED BY <1>3, <1>4, <1>5 DEF k

LEMMA CheckpointKeeps ==
  ASSUME BooksInv, NEW p \in Players, NEW c \in ChainIds, ResetToCheckpoint(p, c) PROVE BooksInv'
<1> DEFINE quests == chain[c].quests
           pr == progress[p][c]
           last == {i \in 1 .. Len(pr.completed) : pr.completed[i] = pr.checkpoint}
           k == CHOOSE i \in last : TRUE
           list == SubSeq(pr.completed, 1, k)
           r == [pr EXCEPT !.completed = list,
                           !.current = NextQuest(quests, Elements(list), pr.checkpoint)]
<1>1. /\ Started(p, c) /\ pr.checkpoint # NoQuest
      /\ Puts(p, c, r)
      /\ UNCHANGED <<now, config, counter, chain, participants, board, completions>>
  BY DEF ResetToCheckpoint, roles, results, Puts
<1>2. BookTypes /\ Shelf(c) /\ BoardOf(board[c], completions[c])
  BY DEF BooksInv
<1>3. c <= counter /\ InProgress(quests, pr)
  BY <1>1, <1>2 DEF Shelf
<1>4. Record(pr) /\ pr.completed \in Seq(Nat) /\ pr.start_time \in Nat
  BY <1>3 DEF InProgress
<1>5. /\ k \in 1 .. Len(pr.completed) /\ list \in Seq(Nat) /\ Len(list) = k
      /\ list[k] = pr.checkpoint
      /\ \A i \in 1 .. k : list[i] = pr.completed[i]
  <2> HIDE DEF pr, quests
  <2> QED BY <1>1, <1>3, UpToCheckpoint
<1> HIDE DEF quests, pr, list, last, k
<1>6. /\ Record(r) /\ r.completed = list /\ r.start_time = pr.start_time
      /\ r.checkpoint = pr.checkpoint
  <2>1. r = [completed |-> list, current |-> NextQuest(quests, Elements(list), pr.checkpoint),
             checkpoint |-> pr.checkpoint, start_time |-> pr.start_time,
             completion_time |-> pr.completion_time]
    <3>1. r = WentBack(pr, list, NextQuest(quests, Elements(list), pr.checkpoint))
      BY DEF WentBack
    <3> HIDE DEF r
    <3> QED BY <1>4, <3>1, RecordUpdated
  <2> HIDE DEF r
  <2> QED BY <2>1 DEF Record
<1> HIDE DEF r
<1>7. InProgress(quests, r)
  <2>1. \E i \in 1 .. Len(list) : list[i] = r.checkpoint
    BY <1>5, <1>6
  <2>2. ASSUME NEW i \in 1 .. Len(list) PROVE \E j \in 1 .. Len(quests) : quests[j].id = list[i]
    <3>1. i \in 1 .. Len(pr.completed) /\ list[i] = pr.completed[i]
      BY <1>4, <1>5
    <3> QED BY <1>3, <3>1 DEF InProgress
  <2> QED BY <1>4, <1>5, <1>6, <2>1, <2>2 DEF InProgress
<1>8. r # NotStarted
  BY <1>6, RecordStarted
<1>9. participants' \in [ChainIds -> Nat] /\ participants'[c] = Cardinality({x \in Players : Started(x, c)'})
  BY <1>1, <1>8, SamePlayers
<1>10. completions' \in [ChainIds -> Nat] /\ board' \in [ChainIds -> Seq(BoardEntry)]
  BY <1>1, <1>2 DEF BookTypes
<1> QED BY <1>1, <1>2, <1>3, <1>7, <1>9, <1>10, PlayerStep DEF quests

LEMMA ActiveKeeps ==
  ASSUME BooksInv, NEW a, NEW c \in ChainIds, NEW on \in BOOLEAN, SetChainActive(a, c, on)
  PROVE  BooksInv'
<1>1. /\ chain[c] # NoChain /\ chain' = [chain EXCEPT ![c].active = on]
      /\ UNCHANGED <<now, config, counter, progress, participants, board, completions>>
  BY DEF SetChainActive, roles, results
<1>2. BookTypes
  BY DEF BooksInv
<1>3. BookTypes'
  <2>1. DOMAIN chain' = ChainIds /\ chain' = [d \in ChainIds |-> chain'[d]]
    BY <1>1, <1>2 DEF BookTypes
  <2>2. progress' = [p \in Players |-> [d \in ChainIds |-> progress'[p][d]]]
    BY <1>1, <1>2 DEF BookTypes
  <2>3. /\ now' \in Nat /\ config' \in Config /\ counter' \in 0 .. MaxChains
        /\ participants' \in [ChainIds -> Nat] /\ completions' \in [ChainIds -> Nat]
        /\ board' \in [ChainIds -> Seq(BoardEntry)]
    BY <1>1, <1>2 DEF BookTypes
  <2> QED BY <2>1, <2>2, <2>3 DEF BookTypes
<1>4. /\ \A d \in ChainIds : chain'[d].quests = chain[d].quests
      /\ \A d \in ChainIds \ {c} : chain'[d] = chain[d]
  <2>1. chain'[c] = [chain[c] EXCEPT !.active = on]
    BY <1>1, <1>2 DEF BookTypes
  <2>2. \A d \in ChainIds \ {c} : chain'[d] = chain[d]
    BY <1>1, <1>2 DEF BookTypes
  <2>3. chain'[c].quests = chain[c].quests
    BY <2>1
  <2> QED BY <2>2, <2>3
<1>5. ASSUME NEW d \in ChainIds PROVE ChainOk(d)'
  <2>1. ChainOk(d) /\ (d = c => ~ (d > counter))
    BY <1>1 DEF BooksInv, ChainOk, Shelf
  <2>2. Shelf(d)'
    BY <1>1, <1>4, <2>1 DEF ChainOk, Shelf, Started
  <2> QED BY <1>1, <2>1, <2>2 DEF ChainOk, Started
<1>6. (config.owner = None => counter = 0)'
  BY <1>1 DEF BooksInv
<1> QED BY <1>3, <1>5, <1>6 DEF BooksInv, ChainOk

LEMMA BooksInit == Init => BooksInv
<1> SUFFICES ASSUME Init PROVE BooksInv
  OBVIOUS
<1>1. config \in Config
  BY QuestsAssumption DEF Init, Config
<1>2. BookTypes
  BY <1>1, QuestsAssumption DEF Init, BookTypes
<1>3. \A p \in Players, c \in ChainIds : ~Started(p, c)
  BY DEF Init, Started
<1>4. ASSUME NEW c \in ChainIds PROVE ChainOk(c)
  <2>1. chain[c] = NoChain /\ participants[c] = 0 /\ completions[c] = 0 /\ board[c] = <<>>
    BY DEF Init
  <2>2. {p \in Players : Started(p, c)} = {}
    BY <1>3
  <2>3. NoChain.quests = <<>>
    BY DEF NoChain
  <2>4. BoardOf(<<>>, 0)
    BY QuestsAssumption DEF BoardOf
  <2>5. Shelf(c)
    BY <1>3, <2>1, <2>3 DEF Shelf
  <2> QED BY <2>1, <2>2, <2>4, <2>5, FS_EmptySet DEF ChainOk
<1> QED BY <1>2, <1>4 DEF BooksInv, ChainOk, Init

LEMMA BooksStep == ASSUME BooksInv, Next PROVE BooksInv'
<1>1. now \in Nat /\ config \in Config
  BY DEF BooksInv, BookTypes
<1>2. CASE Initialize
  <2>1. config'.owner = Owner /\ config' \in Config
    BY <1>2, QuestsAssumption DEF Initialize, Config
  <2>2. counter' = counter /\ None # Owner
    BY <1>2, QuestsAssumption DEF Initialize, BooksInv
  <2> QED BY <1>1, <1>2, <2>1, <2>2, BooksQuiet DEF Initialize, results
<1>3. ASSUME NEW f \in Configs, UpdateConfig(f) PROVE BooksInv'
  <2>1. config' = [f EXCEPT !.owner = config.owner] /\ f \in Config
    BY <1>3, QuestsAssumption DEF UpdateConfig
  <2>2. config' \in Config /\ config'.owner = config.owner
    BY <1>1, <2>1 DEF Config
  <2> QED BY <1>1, <1>3, <2>2, BooksQuiet DEF UpdateConfig, results
<1>4. ASSUME NEW p \in Players, NEW c \in ChainIds, ClaimRewards(p, c) PROVE BooksInv'
  BY <1>1, <1>4, BooksQuiet DEF ClaimRewards, roles, results
<1>5. ASSUME NEW p \in Raters, NEW q \in QuestIds, NEW r \in Ratings, RateQuest(p, q, r) PROVE BooksInv'
  BY <1>1, <1>5, BooksQuiet DEF RateQuest, roles, results
<1>6. ASSUME NEW c \in ChainIds, NEW f \in Fundings, FundRewardPool(c, f) PROVE BooksInv'
  BY <1>1, <1>6, BooksQuiet DEF FundRewardPool, roles, results
<1>7. ASSUME NEW a \in Staff, ChangeRoles(a) PROVE BooksInv'
  BY <1>1, <1>7, BooksQuiet DEF ChangeRoles, results
<1>8. CASE Tick
  BY <1>1, <1>8, BooksQuiet DEF Tick, roles, results
<1> QED
  BY <1>2, <1>3, <1>4, <1>5, <1>6, <1>7, <1>8, CreateKeeps, ActiveKeeps, StartKeeps, ResetKeeps,
     CompleteKeeps, CheckpointKeeps DEF Next

-----------------------------------------------------------------------------
(***************************************************************************)
(* Proofs: what is pending was earned.                                     *)
(***************************************************************************)
\* The lists of step, one after the other: g[m] joins the first m of them.
Joined(step, n, g) ==
  g = [m \in 0 .. n |-> IF m = 0 THEN <<>> ELSE g[m - 1] \o step[m]]

LEMMA JoinedExists == ASSUME NEW step, NEW n \in Nat PROVE \E g : Joined(step, n, g)
<1> DEFINE T == {m \in Nat : ~ \E g : Joined(step, m, g)}
<1>1. SUFFICES ASSUME T # {} PROVE FALSE
  OBVIOUS
<1>2. PICK m \in T : \A y \in T : m <= y
  <2>1. T \in SUBSET Nat
    OBVIOUS
  <2> HIDE DEF T
  <2> QED BY <1>1, <2>1, Least
<1>3. m # 0
  <2>1. Joined(step, 0, [x \in 0 .. 0 |-> <<>>])
    BY DEF Joined
  <2> QED BY <2>1
<1>4. m - 1 \in Nat /\ m \in Nat /\ ~ (m <= m - 1)
  BY <1>3
<1>5. PICK g : Joined(step, m - 1, g)
  BY <1>2, <1>4
<1> DEFINE h == [x \in 0 .. m |-> IF x = m THEN g[m - 1] \o step[m] ELSE g[x]]
<1>6. ASSUME NEW x \in 0 .. m
      PROVE  h[x] = IF x = 0 THEN <<>> ELSE h[x - 1] \o step[x]
  <2>1. g = [y \in 0 .. m - 1 |-> IF y = 0 THEN <<>> ELSE g[y - 1] \o step[y]]
    BY <1>5 DEF Joined
  <2>2. CASE x = m
    <3>1. h[x] = g[m - 1] \o step[m] /\ h[x - 1] = g[m - 1]
      BY <1>3, <1>4, <2>2
    <3> QED BY <1>3, <2>2, <3>1
  <2>3. CASE x # m
    <3>1. x \in 0 .. m - 1 /\ h[x] = g[x]
      BY <1>4, <2>3
    <3>2. g[x] = IF x = 0 THEN <<>> ELSE g[x - 1] \o step[x]
      <4> HIDE DEF h
      <4> QED BY <2>1, <3>1
    <3>3. x # 0 => h[x - 1] = g[x - 1]
      BY <1>4, <3>1
    <3> HIDE DEF h
    <3> QED BY <3>1, <3>2, <3>3
  <2> QED BY <2>2, <2>3
<1>7. Joined(step, m, h)
  <2>1. h = [x \in 0 .. m |-> h[x]]
    OBVIOUS
  <2> HIDE DEF h
  <2> QED BY <1>6, <2>1 DEF Joined
<1> QED BY <1>2, <1>7

\* What is joined first does not depend on what follows.
LEMMA JoinedAgree ==
  ASSUME NEW step, NEW n \in Nat, NEW g, Joined(step, n, g),
         NEW more, NEW k \in Nat, NEW h, Joined(more, k, h), n <= k,
         \A m \in 1 .. n : step[m] = more[m]
  PROVE  g[n] = h[n]
<1> DEFINE T == {m \in 0 .. n : g[m] # h[m]}
<1>1. SUFFICES ASSUME T # {} PROVE FALSE
  OBVIOUS
<1>2. PICK m \in T : \A y \in T : m <= y
  <2>1. T \in SUBSET Nat
    OBVIOUS
  <2> HIDE DEF T
  <2> QED BY <1>1, <2>1, Least
<1>3. \A x \in 0 .. n : /\ g[x] = IF x = 0 THEN <<>> ELSE g[x - 1] \o step[x]
                        /\ h[x] = IF x = 0 THEN <<>> ELSE h[x - 1] \o more[x]
  <2> TAKE x \in 0 .. n
  <2>1. x \in 0 .. k
    OBVIOUS
  <2>2. g[x] = IF x = 0 THEN <<>> ELSE g[x - 1] \o step[x]
    BY DEF Joined
  <2>3. h[x] = IF x = 0 THEN <<>> ELSE h[x - 1] \o more[x]
    BY <2>1 DEF Joined
  <2> QED BY <2>2, <2>3
<1>4. m # 0
  BY <1>3
<1>5. m - 1 \in 0 .. n /\ m \in 1 .. n /\ ~ (m <= m - 1)
  BY <1>4
<1>6. g[m - 1] = h[m - 1]
  BY <1>2, <1>5
<1> QED BY <1>3, <1>4, <1>5, <1>6

\* The rewards of the listed quests.
StepsOf(quests, list) == [m \in 1 .. Len(list) |-> QuestOf(quests, list[m]).rewards]

LEMMA RewardsJoined ==
  ASSUME NEW quests, NEW list \in Seq(Nat)
  PROVE  \E g : Joined(StepsOf(quests, list), Len(list), g) /\ RewardsOf(quests, list) = g[Len(list)]
<1> DEFINE n == Len(list)
           Gathers(g) == g = [m \in 0 .. n |-> IF m = 0 THEN <<>>
                                             ELSE g[m - 1] \o QuestOf(quests, list[m]).rewards]
           k == CHOOSE g : Gathers(g)
<1>1. n \in Nat
  OBVIOUS
<1>2. ASSUME NEW g PROVE Joined(StepsOf(quests, list), n, g) <=> Gathers(g)
  <2>1. \A m \in 0 .. n : m # 0 => StepsOf(quests, list)[m] = QuestOf(quests, list[m]).rewards
    BY <1>1 DEF StepsOf
  <2>2. [m \in 0 .. n |-> IF m = 0 THEN <<>> ELSE g[m - 1] \o StepsOf(quests, list)[m]]
          = [m \in 0 .. n |-> IF m = 0 THEN <<>> ELSE g[m - 1] \o QuestOf(quests, list[m]).rewards]
    BY <2>1
  <2> QED BY <2>2 DEF Joined
<1>3. PICK g : Joined(StepsOf(quests, list), n, g)
  BY <1>1, JoinedExists
<1>4. RewardsOf(quests, list) = k[n]
  BY DEF RewardsOf
<1>5. Gathers(g)
  BY <1>2, <1>3
<1>6. Gathers(k)
  <2> HIDE DEF Gathers
  <2> QED BY <1>5
<1> HIDE DEF k
<1>7. Joined(StepsOf(quests, list), n, k)
  BY <1>2, <1>6
<1> QED BY <1>4, <1>7

LEMMA NoRewards == ASSUME NEW quests PROVE RewardsOf(quests, <<>>) = <<>>
<1>1. <<>> \in Seq(Nat) /\ Len(<<>>) = 0
  OBVIOUS
<1>2. PICK g : Joined(StepsOf(quests, <<>>), Len(<<>>), g) /\ RewardsOf(quests, <<>>) = g[Len(<<>>)]
  BY <1>1, RewardsJoined
<1> QED BY <1>1, <1>2 DEF Joined

\* One more quest adds its rewards.
LEMMA RewardsAdded ==
  ASSUME NEW quests, NEW list \in Seq(Nat), NEW q \in Nat
  PROVE  RewardsOf(quests, Append(list, q)) = RewardsOf(quests, list) \o QuestOf(quests, q).rewards
<1> DEFINE n == Len(list)
           more == Append(list, q)
           s == StepsOf(quests, list)
           t == StepsOf(quests, more)
<1>1. /\ n \in Nat /\ n + 1 \in Nat /\ more \in Seq(Nat) /\ Len(more) = n + 1 /\ more[n + 1] = q
      /\ \A m \in 1 .. n : more[m] = list[m]
  OBVIOUS
<1> HIDE DEF more
<1>2. PICK g : Joined(s, n, g) /\ RewardsOf(quests, list) = g[n]
  BY RewardsJoined
<1>3. PICK h : Joined(t, n + 1, h) /\ RewardsOf(quests, more) = h[n + 1]
  BY <1>1, RewardsJoined
<1>4. \A m \in 1 .. n : s[m] = t[m]
  BY <1>1 DEF StepsOf
<1>5. t[n + 1] = QuestOf(quests, q).rewards
  BY <1>1 DEF StepsOf
<1> HIDE DEF s, t, n
<1>6. g[n] = h[n]
  BY <1>1, <1>2, <1>3, <1>4, JoinedAgree
<1>7. h[n + 1] = h[n] \o t[n + 1]
  <2>1. n + 1 \in 0 .. n + 1 /\ n + 1 # 0 /\ (n + 1) - 1 = n
    BY <1>1
  <2> QED BY <1>3, <2>1 DEF Joined
<1> QED BY <1>2, <1>3, <1>5, <1>6, <1>7 DEF more

\* get_quest_by_id finds a quest of the chain.
LEMMA QuestFound ==
  ASSUME NEW quests \in Seq(Quest), NEW q, \E i \in 1 .. Len(quests) : quests[i].id = q
  PROVE  QuestOf(quests, q) \in Quest /\ QuestOf(quests, q).rewards \in Seq(Reward)
<1> DEFINE k == CHOOSE i \in 1 .. Len(quests) : quests[i].id = q
<1>1. k \in 1 .. Len(quests)
  OBVIOUS
<1> HIDE DEF k
<1>2. quests[k] \in Quest
  BY <1>1
<1> QED BY <1>2 DEF QuestOf, Quest, k

\* Rewards of quests of the chain are rewards.
LEMMA RewardsType ==
  ASSUME NEW quests \in Seq(Quest), NEW list \in Seq(Nat),
         \A i \in 1 .. Len(list) : \E j \in 1 .. Len(quests) : quests[j].id = list[i]
  PROVE  RewardsOf(quests, list) \in Seq(Reward)
<1> DEFINE n == Len(list)
           s == StepsOf(quests, list)
<1>1. n \in Nat
  OBVIOUS
<1>2. PICK g : Joined(s, n, g) /\ RewardsOf(quests, list) = g[n]
  BY RewardsJoined
<1>3. \A m \in 1 .. n : s[m] \in Seq(Reward)
  BY QuestFound DEF StepsOf
<1> HIDE DEF s, n
<1> DEFINE T == {m \in 0 .. n : g[m] \notin Seq(Reward)}
<1>4. ASSUME T # {} PROVE FALSE
  <2>1. PICK m \in T : \A y \in T : m <= y
    <3>1. T \in SUBSET Nat
      BY <1>1
    <3> HIDE DEF T
    <3> QED BY <1>4, <3>1, Least
  <2>2. \A x \in 0 .. n : g[x] = IF x = 0 THEN <<>> ELSE g[x - 1] \o s[x]
    BY <1>2 DEF Joined
  <2>3. m # 0
    <3>1. g[0] = <<>>
      BY <1>1, <2>2
    <3>2. <<>> \in Seq(Reward)
      OBVIOUS
    <3>3. g[m] \notin Seq(Reward)
      OBVIOUS
    <3> QED BY <3>1, <3>2, <3>3
  <2>4. m - 1 \in 0 .. n /\ m \in 1 .. n /\ ~ (m <= m - 1)
    BY <1>1, <2>3
  <2>5. g[m - 1] \in Seq(Reward)
    BY <2>1, <2>4
  <2>6. g[m] = g[m - 1] \o s[m]
    BY <2>2, <2>3, <2>4
  <2>7. g[m] \in Seq(Reward)
    BY <1>3, <2>4, <2>5, <2>6
  <2> QED BY <2>7
<1>5. n \in 0 .. n
  BY <1>1
<1> QED BY <1>2, <1>4, <1>5

\* The quests of a list behind the first n: the list grows at its end, and its
\* elements stay.
LEMMA RestAppend ==
  ASSUME NEW list \in Seq(Nat), NEW q \in Nat, NEW n \in 0 .. Len(list)
  PROVE  Rest(Append(list, q), n) = Append(Rest(list, n), q)
<1> DEFINE m == Len(list)
           more == Append(list, q)
           x == SubSeq(more, n + 1, m + 1)
           y == Append(SubSeq(list, n + 1, m), q)
<1>1. m \in Nat /\ n \in Nat /\ n <= m /\ more \in Seq(Nat) /\ Len(more) = m + 1
  OBVIOUS
<1>2. more[m + 1] = q /\ \A i \in 1 .. m : more[i] = list[i]
  OBVIOUS
<1>3. Len(x) = m + 1 - n /\ x \in Seq(Nat) /\ \A i \in 1 .. m + 1 - n : x[i] = more[n + i]
  BY <1>1
<1>4. /\ SubSeq(list, n + 1, m) \in Seq(Nat) /\ Len(SubSeq(list, n + 1, m)) = m - n
      /\ \A i \in 1 .. m - n : SubSeq(list, n + 1, m)[i] = list[n + i]
  BY <1>1
<1>5. /\ Len(y) = m + 1 - n /\ y \in Seq(Nat) /\ y[m + 1 - n] = q
      /\ \A i \in 1 .. m - n : y[i] = list[n + i]
  BY <1>1, <1>4
<1>6. ASSUME NEW i \in 1 .. m + 1 - n PROVE x[i] = y[i]
  <2>1. CASE i = m + 1 - n
    BY <1>1, <1>2, <1>3, <1>5, <2>1
  <2>2. CASE i \in 1 .. m - n
    BY <1>1, <1>2, <1>3, <1>5, <2>2
  <2>3. i \in 1 .. m - n \/ i = m + 1 - n
    <3> HIDE DEF m
    <3> QED BY <1>1
  <2> QED BY <2>1, <2>2, <2>3
<1>7. x = y
  <2> HIDE DEF x, y, m
  <2>1. /\ x = [i \in 1 .. Len(x) |-> x[i]] /\ y = [i \in 1 .. Len(y) |-> y[i]]
        /\ Len(x) = Len(y) /\ Len(x) = m + 1 - n
    BY <1>3, <1>5
  <2> QED BY <1>6, <2>1
<1> QED BY <1>1, <1>7 DEF Rest

LEMMA RestType ==
  ASSUME NEW list \in Seq(Nat), NEW n \in 0 .. Len(list)
  PROVE  /\ Rest(list, n) \in Seq(Nat)
         /\ \A i \in 1 .. Len(Rest(list, n)) : \E j \in 1 .. Len(list) : Rest(list, n)[i] = list[j]
<1>1. /\ Rest(list, n) \in Seq(Nat) /\ Len(Rest(list, n)) = Len(list) - n
      /\ \A i \in 1 .. Len(list) - n : Rest(list, n)[i] = list[n + i]
  BY DEF Rest
<1>2. \A i \in 1 .. Len(list) - n : n + i \in 1 .. Len(list)
  OBVIOUS
<1> QED BY <1>1, <1>2

LEMMA RestEnds ==
  ASSUME NEW list \in Seq(Nat) PROVE Rest(list, 0) = list /\ Rest(list, Len(list)) = <<>>
<1>1. Rest(list, 0) = list
  BY DEF Rest
<1>2. Rest(list, Len(list)) \in Seq(Nat) /\ Len(Rest(list, Len(list))) = 0
  BY DEF Rest
<1> QED BY <1>1, <1>2

\* What is due to a player with progress pr in a chain of quests, of which it
\* has claimed n, and fallen back since if f.
Earned(due, pr, quests, n, f) ==
  /\ due \in Seq(Reward) /\ n \in Nat /\ f \in BOOLEAN
  /\ pr = NotStarted => due = <<>> /\ n = 0 /\ f = FALSE
  /\ pr # NotStarted => /\ n <= Len(pr.completed)
                        /\ due = RewardsOf(quests, Rest(pr.completed, IF f THEN 0 ELSE n))

\* Something that is kept for every player and chain; one entry changes to x.
Table(f) == f = [p \in Players |-> [c \in ChainIds |-> f[p][c]]]
Enters(g, f, p, c, x) == g = [f EXCEPT ![p][c] = x]
Entered(g, f, p, c, x) ==
  /\ g[p][c] = x
  /\ \A q \in Players, d \in ChainIds : q # p \/ d # c => g[q][d] = f[q][d]

EarnedInv ==
  /\ Table(pending) /\ Table(settled) /\ Table(fallen)
  /\ \A p \in Players, c \in ChainIds :
       Earned(pending[p][c], progress[p][c], chain[c].quests, settled[p][c], fallen[p][c])

LEMMA EntryChange ==
  ASSUME NEW f, Table(f), NEW p \in Players, NEW c \in ChainIds, NEW x, NEW g, Enters(g, f, p, c, x)
  PROVE  Table(g) /\ Entered(g, f, p, c, x)
<1>1. g = [q \in Players |-> [d \in ChainIds |-> IF q = p /\ d = c THEN x ELSE f[q][d]]]
  BY DEF Table, Enters
<1>2. g[p][c] = x
  BY <1>1
<1>3. ASSUME NEW q \in Players, NEW d \in ChainIds, q # p \/ d # c PROVE g[q][d] = f[q][d]
  BY <1>1, <1>3
<1>4. g = [q \in Players |-> [d \in ChainIds |-> g[q][d]]]
  BY <1>1, Zenon
<1> QED BY <1>2, <1>3, <1>4 DEF Table, Entered

\* What stays is written again.
LEMMA EntryStays ==
  ASSUME NEW f, Table(f), NEW p \in Players, NEW c \in ChainIds
  PROVE  Enters(f, f, p, c, f[p][c])
BY DEF Table, Enters

\* What one player is owed in one chain, and the history of it.
Owes(p, c, due, n, f) ==
  Enters(pending', pending, p, c, due) /\ Enters(settled', settled, p, c, n)
    /\ Enters(fallen', fallen, p, c, f)

\* A step of one player in one chain.
LEMMA EarnedStep ==
  ASSUME BookTypes, EarnedInv, NEW p \in Players, NEW c \in ChainIds, NEW r, NEW due, NEW n, NEW f,
         Puts(p, c, r), Owes(p, c, due, n, f), chain' = chain,
         Earned(due, r, chain[c].quests, n, f)
  PROVE  EarnedInv'
<1>1. /\ progress'[p][c] = r
      /\ \A q \in Players, d \in ChainIds : q # p \/ d # c => progress'[q][d] = progress[q][d]
  BY ProgressChange
<1>2. /\ Table(pending') /\ Entered(pending', pending, p, c, due)
      /\ Table(settled') /\ Entered(settled', settled, p, c, n)
      /\ Table(fallen') /\ Entered(fallen', fallen, p, c, f)
  BY EntryChange DEF EarnedInv, Owes
<1>3. ASSUME NEW q \in Players, NEW d \in ChainIds
      PROVE  Earned(pending'[q][d], progress'[q][d], chain'[d].quests, settled'[q][d], fallen'[q][d])
  <2>1. CASE q = p /\ d = c
    BY <1>1, <1>2, <2>1 DEF Entered
  <2>2. CASE q # p \/ d # c
    BY <1>1, <1>2, <2>2 DEF EarnedInv, Entered
  <2> QED BY <2>1, <2>2
<1>4. (\A q \in Players, d \in ChainIds :
         Earned(pending[q][d], progress[q][d], chain[d].quests, settled[q][d], fallen[q][d]))'
  BY <1>3
<1> QED BY <1>2, <1>4 DEF EarnedInv, Table

\* Steps that leave progress and what is owed alone, and the quests of every
\* chain that somebody has started.
LEMMA EarnedQuiet ==
  ASSUME EarnedInv, UNCHANGED <<progress, owed>>,
         \A p \in Players, c \in ChainIds : Started(p, c) => chain'[c].quests = chain[c].quests
  PROVE  EarnedInv'
<1>1. ASSUME NEW p \in Players, NEW c \in ChainIds
      PROVE  Earned(pending'[p][c], progress'[p][c], chain'[c].quests, settled'[p][c], fallen'[p][c])
  <2>1. Earned(pending[p][c], progress[p][c], chain[c].quests, settled[p][c], fallen[p][c])
    BY DEF EarnedInv
  <2>2. CASE Started(p, c)
    BY <2>1, <2>2 DEF owed
  <2>3. CASE ~Started(p, c)
    BY <2>1, <2>3 DEF Earned, Started, owed
  <2> QED BY <2>2, <2>3
<1>2. (\A q \in Players, d \in ChainIds :
         Earned(pending[q][d], progress[q][d], chain[d].quests, settled[q][d], fallen[q][d]))'
  BY <1>1
<1> QED BY <1>2 DEF EarnedInv, Table, owed

LEMMA StartEarns ==
  ASSUME BooksInv, EarnedInv, NEW p \in Players, NEW c \in ChainIds, StartChain(p, c)
  PROVE  EarnedInv'
<1> DEFINE r == [completed |-> <<>>, current |-> InitialQuest(chain[c].quests),
                 checkpoint |-> NoQuest, start_time |-> now, completion_time |-> None]
<1>1. Puts(p, c, r) /\ ~Started(p, c) /\ UNCHANGED <<chain, pending, settled, fallen>>
  BY DEF StartChain, Puts, owed
<1>2. r # NotStarted /\ r.completed = <<>>
  <2>1. Record(r) /\ r.completed = <<>>
    BY DEF Record
  <2> HIDE DEF r
  <2> QED BY <2>1, RecordStarted
<1> HIDE DEF r
<1>3. pending[p][c] = <<>> /\ settled[p][c] = 0 /\ fallen[p][c] = FALSE
  BY <1>1 DEF EarnedInv, Earned, Started
<1>4. Owes(p, c, <<>>, 0, FALSE)
  BY <1>1, <1>3, EntryStays DEF Owes, EarnedInv
<1>5. Earned(<<>>, r, chain[c].quests, 0, FALSE)
  <2>1. <<>> \in Seq(Nat) /\ Len(<<>>) = 0 /\ <<>> \in Seq(Reward)
    OBVIOUS
  <2>2. Rest(<<>>, 0) = <<>>
    BY <2>1, RestEnds
  <2> QED BY <1>2, <2>1, <2>2, NoRewards DEF Earned
<1> QED BY <1>1, <1>4, <1>5, EarnedStep DEF BooksInv

LEMMA CompleteEarns ==
  ASSUME BooksInv, EarnedInv, NEW p \in Players, NEW c \in ChainIds, NEW q \in QuestIds,
         CompleteQuest(p, c, q)
  PROVE  EarnedInv'
<1> DEFINE quests == chain[c].quests
           quest == QuestOf(quests, q)
           pr == progress[p][c]
           list == Append(pr.completed, q)
           finished == Len(list) = Len(quests)
           r == [pr EXCEPT !.completed = list,
                           !.current = NextQuest(quests, Elements(list), q),
                           !.checkpoint = IF quest.checkpoint THEN q ELSE @,
                           !.completion_time = IF finished THEN now ELSE @]
           due == pending[p][c] \o quest.rewards
           n == settled[p][c]
           f == fallen[p][c]
           k == IF f THEN 0 ELSE n
<1>1. /\ Started(p, c) /\ q \in {quests[i].id : i \in 1 .. Len(quests)}
      /\ Puts(p, c, r)
      /\ pending' = [pending EXCEPT ![p][c] = @ \o quest.rewards]
      /\ UNCHANGED <<settled, fallen>>
      /\ chain' = chain
  BY DEF CompleteQuest, Puts
<1>2. BookTypes /\ Shelf(c)
  BY DEF BooksInv
<1>3. InProgress(quests, pr) /\ quests \in Seq(Quest)
  BY <1>1, <1>2 DEF Shelf
<1>4. PICK j \in 1 .. Len(quests) : quests[j].id = q
  BY <1>1
<1>5. q \in Nat
  <2>1. quests[j] \in Quest
    BY <1>3
  <2> QED BY <1>4, <2>1 DEF Quest
<1>6. Record(pr) /\ pr.completed \in Seq(Nat)
  BY <1>3 DEF InProgress
<1>7. quest.rewards \in Seq(Reward)
  <2> HIDE DEF quests
  <2> QED BY <1>3, <1>4, QuestFound
<1>8. Owes(p, c, due, n, f)
  <2>1. Enters(settled', settled, p, c, n) /\ Enters(fallen', fallen, p, c, f)
    BY <1>1, EntryStays DEF EarnedInv
  <2> HIDE DEF quest
  <2>2. Enters(pending', pending, p, c, due)
    BY <1>1 DEF Enters
  <2> QED BY <2>1, <2>2 DEF Owes
<1>9. /\ pending[p][c] \in Seq(Reward) /\ n \in Nat /\ f \in BOOLEAN
      /\ n <= Len(pr.completed)
      /\ pending[p][c] = RewardsOf(quests, Rest(pr.completed, k))
  BY <1>1 DEF EarnedInv, Earned, Started
<1> HIDE DEF quests, quest, pr, n, f
<1>10. r # NotStarted /\ r.completed = list
  <2> HIDE DEF list
  <2>1. r = Advanced(pr, list, NextQuest(quests, Elements(list), q),
                     IF quest.checkpoint THEN q ELSE pr.checkpoint,
                     IF finished THEN now ELSE pr.completion_time)
    BY DEF Advanced
  <2> HIDE DEF r, finished
  <2>2. r = [completed |-> list, current |-> NextQuest(quests, Elements(list), q),
             checkpoint |-> IF quest.checkpoint THEN q ELSE pr.checkpoint,
             start_time |-> pr.start_time,
             completion_time |-> IF finished THEN now ELSE pr.completion_time]
    BY <1>6, <2>1, RecordUpdated
  <2>3. Record(r) /\ r.completed = list
    BY <2>2 DEF Record
  <2> QED BY <2>3, RecordStarted
<1> HIDE DEF r
<1>11. due \in Seq(Reward) /\ n <= Len(list)
  BY <1>5, <1>6, <1>7, <1>9
<1>12. k \in 0 .. Len(pr.completed)
  BY <1>6, <1>9
<1> HIDE DEF k
<1>13. Rest(list, k) = Append(Rest(pr.completed, k), q)
  BY <1>5, <1>6, <1>12, RestAppend
<1>14. due = RewardsOf(quests, Rest(list, k))
  <2>1. Rest(pr.completed, k) \in Seq(Nat)
    BY <1>6, <1>12, RestType
  <2>2. RewardsOf(quests, Append(Rest(pr.completed, k), q))
          = RewardsOf(quests, Rest(pr.completed, k)) \o quest.rewards
    BY <1>5, <2>1, RewardsAdded DEF quest
  <2> QED BY <1>9, <1>13, <2>2
<1> HIDE DEF due, list
<1>15. Earned(due, r, quests, n, f)
  BY <1>9, <1>10, <1>11, <1>14 DEF Earned, k
<1> QED BY <1>1, <1>2, <1>8, <1>15, EarnedStep DEF quests

LEMMA CheckpointEarns ==
  ASSUME BooksInv, EarnedInv, NEW p \in Players, NEW c \in ChainIds, ResetToCheckpoint(p, c)
  PROVE  EarnedInv'
<1> DEFINE quests == chain[c].quests
           pr == progress[p][c]
           last == {i \in 1 .. Len(pr.completed) : pr.completed[i] = pr.checkpoint}
           k == CHOOSE i \in last : TRUE
           list == SubSeq(pr.completed, 1, k)
           r == [pr EXCEPT !.completed = list,
                           !.current = NextQuest(quests, Elements(list), pr.checkpoint)]
           due == RewardsOf(quests, list)
           n == IF settled[p][c] > Len(list) THEN Len(list) ELSE settled[p][c]
<1>1. /\ Started(p, c) /\ pr.checkpoint # NoQuest
      /\ Puts(p, c, r)
      /\ Owes(p, c, due, n, TRUE)
      /\ chain' = chain
  BY DEF ResetToCheckpoint, Puts, Owes, Enters
<1>2. BookTypes /\ Shelf(c)
  BY DEF BooksInv
<1>3. InProgress(quests, pr) /\ quests \in Seq(Quest) /\ settled[p][c] \in Nat
  BY <1>1, <1>2 DEF Shelf, EarnedInv, Earned
<1>4. Record(pr) /\ pr.completed \in Seq(Nat)
  BY <1>3 DEF InProgress
<1>5. /\ k \in 1 .. Len(pr.completed) /\ list \in Seq(Nat) /\ Len(list) = k
      /\ \A i \in 1 .. k : list[i] = pr.completed[i]
  <2> HIDE DEF pr, quests
  <2> QED BY <1>1, <1>3, UpToCheckpoint
<1> HIDE DEF quests, pr, list, last, k
<1>6. r # NotStarted /\ r.completed = list
  <2>1. r = WentBack(pr, list, NextQuest(quests, Elements(list), pr.checkpoint))
    BY DEF WentBack
  <2> HIDE DEF r
  <2>2. r = [completed |-> list, current |-> NextQuest(quests, Elements(list), pr.checkpoint),
             checkpoint |-> pr.checkpoint, start_time |-> pr.start_time,
             completion_time |-> pr.completion_time]
    BY <1>4, <2>1, RecordUpdated
  <2>3. Record(r) /\ r.completed = list
    BY <2>2 DEF Record
  <2> QED BY <2>3, RecordStarted
<1> HIDE DEF r
<1>7. due \in Seq(Reward)
  <2>1. ASSUME NEW i \in 1 .. Len(list) PROVE \E j \in 1 .. Len(quests) : quests[j].id = list[i]
    <3>1. i \in 1 .. Len(pr.completed) /\ list[i] = pr.completed[i]
      BY <1>4, <1>5
    <3> QED BY <1>3, <3>1 DEF InProgress
  <2> QED BY <1>3, <1>5, <2>1, RewardsType
<1>8. n \in Nat /\ n <= Len(list)
  BY <1>3, <1>5
<1>9. Rest(list, 0) = list
  BY <1>5, RestEnds
<1> HIDE DEF n
<1>10. Earned(due, r, quests, n, TRUE)
  BY <1>6, <1>7, <1>8, <1>9 DEF Earned
<1> HIDE DEF due
<1> QED BY <1>1, <1>2, <1>10, EarnedStep DEF quests

LEMMA ResetEarns ==
  ASSUME BooksInv, EarnedInv, NEW p \in Players, NEW c \in ChainIds, ResetChain(p, c)
  PROVE  EarnedInv'
<1>1. /\ Puts(p, c, NotStarted) /\ Owes(p, c, <<>>, 0, FALSE) /\ chain' = chain
  BY DEF ResetChain, Puts, Owes, Enters
<1>2. Earned(<<>>, NotStarted, chain[c].quests, 0, FALSE)
  BY DEF Earned
<1> QED BY <1>1, <1>2, EarnedStep DEF BooksInv

LEMMA ClaimEarns ==
  ASSUME BooksInv, EarnedInv, NEW p \in Players, NEW c \in ChainIds, ClaimRewards(p, c)
  PROVE  EarnedInv'
<1> DEFINE pr == progress[p][c]
           n == Len(pr.completed)
<1>1. /\ Owes(p, c, <<>>, n, FALSE) /\ pending[p][c] # <<>>
      /\ chain' = chain /\ progress' = progress
  BY DEF ClaimRewards, Settle, Owes, Enters
<1>2. Puts(p, c, pr)
  <2>1. progress = [q \in Players |-> [d \in ChainIds |-> progress[q][d]]]
    BY DEF BooksInv, BookTypes
  <2> QED BY <1>1, <2>1 DEF Puts
<1>3. pr # NotStarted
  BY <1>1 DEF EarnedInv, Earned
<1>4. pr.completed \in Seq(Nat)
  <2>1. Shelf(c)
    BY DEF BooksInv
  <2> QED BY <1>3, <2>1 DEF Shelf, Started, InProgress
<1>5. Earned(<<>>, pr, chain[c].quests, n, FALSE)
  <2>1. <<>> \in Seq(Reward) /\ n \in Nat
    BY <1>4
  <2>2. Rest(pr.completed, n) = <<>>
    BY <1>4, RestEnds
  <2> HIDE DEF pr
  <2> QED BY <1>3, <2>1, <2>2, NoRewards DEF Earned
<1> HIDE DEF pr, n
<1> QED BY <1>1, <1>2, <1>5, EarnedStep DEF BooksInv

LEMMA CreateEarns ==
  ASSUME BooksInv, EarnedInv, NEW a, NEW b \in Blueprints, CreateChain(a, b)
  PROVE  EarnedInv'
<1> DEFINE x == [active |-> TRUE, quests |-> b.quests, start_time |-> b.start_time,
                 end_time |-> b.end_time, max_participants |-> b.max_participants]
<1>1. chain' = [chain EXCEPT ![counter + 1] = x] /\ UNCHANGED <<progress, owed>>
  BY DEF CreateChain
<1> HIDE DEF x
<1>2. ASSUME NEW p \in Players, NEW c \in ChainIds, Started(p, c)
      PROVE  chain'[c].quests = chain[c].quests
  <2>0. Shelf(c) /\ BookTypes
    BY DEF BooksInv
  <2>1. c <= counter /\ counter \in Nat
    BY <1>2, <2>0 DEF Shelf, BookTypes
  <2>2. c # counter + 1
    BY <2>1 DEF ChainIds
  <2> QED BY <1>1, <2>2 DEF BooksInv, BookTypes
<1> QED BY <1>1, <1>2, EarnedQuiet

LEMMA ActiveEarns ==
  ASSUME BooksInv, EarnedInv, NEW a, NEW c \in ChainIds, NEW on \in BOOLEAN, SetChainActive(a, c, on)
  PROVE  EarnedInv'
<1>1. chain' = [chain EXCEPT ![c].active = on] /\ UNCHANGED <<progress, owed>>
  BY DEF SetChainActive
<1>2. ASSUME NEW d \in ChainIds PROVE chain'[d].quests = chain[d].quests
  <2>1. chain'[d] = IF d = c THEN [chain[c] EXCEPT !.active = on] ELSE chain[d]
    BY <1>1 DEF BooksInv, BookTypes
  <2> QED BY <2>1
<1> QED BY <1>1, <1>2, EarnedQuiet

LEMMA EarnedInit == Init => EarnedInv
BY DEF Init, EarnedInv, Earned, Table

LEMMA EarnedNext == ASSUME BooksInv, EarnedInv, Next PROVE EarnedInv'
<1>1. CASE Initialize
  BY <1>1, EarnedQuiet DEF Initialize
<1>2. ASSUME NEW f \in Configs, UpdateConfig(f) PROVE EarnedInv'
  BY <1>2, EarnedQuiet DEF UpdateConfig
<1>3. ASSUME NEW p \in Raters, NEW q \in QuestIds, NEW r \in Ratings, RateQuest(p, q, r)
      PROVE  EarnedInv'
  BY <1>3, EarnedQuiet DEF RateQuest
<1>4. ASSUME NEW c \in ChainIds, NEW f \in Fundings, FundRewardPool(c, f) PROVE EarnedInv'
  BY <1>4, EarnedQuiet DEF FundRewardPool
<1>5. ASSUME NEW a \in Staff, ChangeRoles(a) PROVE EarnedInv'
  BY <1>5, EarnedQuiet DEF ChangeRoles
<1>6. CASE Tick
  BY <1>6, EarnedQuiet DEF Tick
<1> QED
  BY <1>1, <1>2, <1>3, <1>4, <1>5, <1>6, CreateEarns, ActiveEarns, StartEarns, ResetEarns,
     CompleteEarns, CheckpointEarns, ClaimEarns DEF Next

LEMMA EarnedSays == EarnedInv => PendingEarned
BY DEF EarnedInv, Earned, PendingEarned, Started

-----------------------------------------------------------------------------
(***************************************************************************)
(* Proofs: the pools are backed.                                           *)
(***************************************************************************)
\* The pools that the chains and types have for token t.
PoolIds == ChainIds \X TokenType
PoolsFor(pools, t) == [ck \in PoolIds |-> pools[ck[1]][<<ck[2], t>>]]

\* What the contract holds, for given holders of the tokens of Nft, each of
\* which counts as its number, and given balances.
HeldSum(holder) == [n \in NftIds |-> IF holder[n] = Self THEN n ELSE 0]
Holds(balance, holder, t) == IF t = Nft THEN Total(HeldSum(holder)) ELSE balance[t][Self]

FundTypes(balance, holder, pools) ==
  /\ balance \in [Token -> [Account -> Nat]] /\ holder \in [NftIds -> Account]
  /\ pools \in [ChainIds -> [Keys -> Nat]]

Covered(balance, holder, pools) ==
  \A t \in Token : Holds(balance, holder, t) >= Total(PoolsFor(pools, t))

FundsInv == FundTypes(bal, nft, pool) /\ Covered(bal, nft, pool)

LEMMA PoolIdsFinite == IsFiniteSet(PoolIds) /\ IsFiniteSet(NftIds)
<1>1. IsFiniteSet(ChainIds)
  <2>1. 1 \in Int /\ MaxChains \in Int
    BY QuestsAssumption
  <2> QED BY <2>1, FS_Interval DEF ChainIds
<1>2. IsFiniteSet(TokenType)
  <2>1. IsFiniteSet({"Native"}) /\ TokenType = ({"Native"} \cup {"ERC20"}) \cup {"ERC721"}
    BY FS_Singleton DEF TokenType
  <2> QED BY <2>1, FS_AddElement
<1>3. IsFiniteSet(PoolIds)
  BY <1>1, <1>2, FS_Product DEF PoolIds
<1> QED BY <1>3, QuestsAssumption

LEMMA HoldsType ==
  ASSUME NEW balance, NEW holder, NEW pools, FundTypes(balance, holder, pools), NEW t \in Token
  PROVE  /\ PoolsFor(pools, t) \in [PoolIds -> Nat] /\ Total(PoolsFor(pools, t)) \in Nat
         /\ HeldSum(holder) \in [NftIds -> Nat]
         /\ Holds(balance, holder, t) \in Nat
<1>1. PoolsFor(pools, t) \in [PoolIds -> Nat]
  <2>1. ASSUME NEW ck \in PoolIds PROVE pools[ck[1]][<<ck[2], t>>] \in Nat
    <3>1. ck[1] \in ChainIds /\ <<ck[2], t>> \in Keys
      BY DEF PoolIds, Keys
    <3> QED BY <3>1 DEF FundTypes
  <2> QED BY <2>1 DEF PoolsFor
<1>2. HeldSum(holder) \in [NftIds -> Nat]
  BY QuestsAssumption DEF HeldSum
<1>3. Total(PoolsFor(pools, t)) \in Nat /\ Total(HeldSum(holder)) \in Nat
  BY <1>1, <1>2, PoolIdsFinite, UnitsFinite
<1>4. balance[t][Self] \in Nat
  BY DEF FundTypes, Account
<1> QED BY <1>1, <1>2, <1>3, <1>4 DEF Holds

\* Holdings counts the same.
LEMMA HoldingsHold == ASSUME NEW t \in Token PROVE Holdings(t) = Holds(bal, nft, t)
<1> DEFINE k == [n \in NftIds |-> n]
           Held == {m \in NftIds : nft[m] = Self}
<1>1. Held \in SUBSET NftIds /\ \A n \in Held : k[n] \in Nat
  BY QuestsAssumption
<1>2. Total([n \in Held |-> k[n]]) = Total([n \in NftIds |-> IF n \in Held THEN k[n] ELSE 0])
  <2> HIDE DEF k, Held
  <2> QED BY <1>1, TotalWithin
<1>3. /\ [n \in Held |-> k[n]] = [n \in Held |-> n]
      /\ [n \in NftIds |-> IF n \in Held THEN k[n] ELSE 0] = HeldSum(nft)
  BY DEF HeldSum
<1>4. Total([n \in Held |-> n]) = Total(HeldSum(nft))
  BY <1>2, <1>3
<1> QED BY <1>4 DEF Holdings, Holds

LEMMA FundsSay == FundsInv => PoolsBacked
BY HoldingsHold DEF FundsInv, Covered, PoolsBacked, PoolsFor, PoolIds

\* The table f is the sum of g and h.
Parts(S, f, g, h) ==
  f \in [S -> Nat] /\ g \in [S -> Nat] /\ h \in [S -> Nat] /\ \A a \in S : f[a] = g[a] + h[a]

LEMMA PartsAdd ==
  ASSUME NEW S, IsFiniteSet(S), NEW f, NEW g, NEW h, Parts(S, f, g, h)
  PROVE  Total(f) = Total(g) + Total(h)
BY TotalAdd DEF Parts

\* What a claim takes out of the pools for token t.
LEMMA PoolsPaid ==
  ASSUME FundTypes(bal, nft, pool), FundTypes(bal', nft', pool'), NEW t \in Token, NEW c \in ChainIds, NEW due \in Seq(Reward),
         \A i \in 1 .. Len(due) : due[i].amount >= 0,
         \A k \in Keys : pool'[c][k] = pool[c][k] - Sum(due, {i \in 1 .. Len(due) : KeyOf(due[i]) = k}),
         \A d \in ChainIds \ {c} : pool'[d] = pool[d]
  PROVE  /\ Sum(due, {i \in 1 .. Len(due) : due[i].token = t}) \in Nat
         /\ Total(PoolsFor(pool, t)) =
              Total(PoolsFor(pool', t)) + Sum(due, {i \in 1 .. Len(due) : due[i].token = t})
<1> DEFINE S == {i \in 1 .. Len(due) : due[i].token = t}
           f == [i \in S |-> due[i].amount]
           key == [i \in S |-> <<c, due[i].token_type>>]
           g == [ck \in PoolIds |-> PartOf(f, key, S, ck)]
<1>1. \A i \in 1 .. Len(due) : due[i] \in Reward /\ due[i].amount \in Nat
  <2> TAKE i \in 1 .. Len(due)
  <2>1. due[i] \in Reward
    OBVIOUS
  <2>2. due[i].amount \in Int /\ due[i].amount >= 0
    BY <2>1 DEF Reward
  <2> QED BY <2>1, <2>2
<1>2. IsFiniteSet(S)
  <2>1. 1 \in Int /\ Len(due) \in Int
    OBVIOUS
  <2>2. IsFiniteSet(1 .. Len(due))
    BY <2>1, FS_Interval
  <2> QED BY <2>2, FS_Subset
<1>3. f \in [S -> Nat]
  BY <1>1
<1>4. key \in [S -> PoolIds]
  BY <1>1 DEF Reward, PoolIds
<1>5. Sum(due, S) = Total(f) /\ Total(f) \in Nat
  <2>1. Sum(due, S) = Total(f)
    BY Zenon DEF Sum
  <2> HIDE DEF f, S
  <2> QED BY <1>2, <1>3, <2>1, UnitsFinite
<1>6. g \in [PoolIds -> Nat] /\ Total(g) = Total(f)
  <2> HIDE DEF f, S, key
  <2> QED BY <1>2, <1>3, <1>4, PoolIdsFinite, TotalRegroup
<1>7. ASSUME NEW ck \in PoolIds PROVE PoolsFor(pool, t)[ck] = PoolsFor(pool', t)[ck] + g[ck]
  <2> DEFINE Sk == {j \in S : key[j] = ck}
  <2>1. g[ck] = Total([i \in Sk |-> f[i]]) /\ g[ck] \in Nat
    <3>1. g[ck] = PartOf(f, key, S, ck)
      OBVIOUS
    <3>2. PartOf(f, key, S, ck) = Total([i \in Sk |-> f[i]])
      BY Zenon DEF PartOf
    <3> HIDE DEF g, f, key, Sk, S
    <3> QED BY <1>6, <3>1, <3>2
  <2>2. /\ PoolsFor(pool, t)[ck] = pool[ck[1]][<<ck[2], t>>]
        /\ PoolsFor(pool', t)[ck] = pool'[ck[1]][<<ck[2], t>>]
    BY DEF PoolsFor
  <2>3. PICK d \in ChainIds, tt \in TokenType : ck = <<d, tt>>
    BY DEF PoolIds
  <2>4. <<tt, t>> \in Keys /\ pool[d][<<tt, t>>] \in Nat /\ pool'[d][<<tt, t>>] \in Nat
    BY <2>3 DEF FundTypes, Keys
  <2>5. CASE d = c
    <3> DEFINE K == {i \in 1 .. Len(due) : KeyOf(due[i]) = <<tt, t>>}
    <3>1. Sk = K
      <4>1. \A j \in S : key[j] = ck <=> due[j].token_type = tt
        BY <2>3, <2>5
      <4>2. \A j \in 1 .. Len(due) :
              KeyOf(due[j]) = <<tt, t>> <=> due[j].token_type = tt /\ due[j].token = t
        BY DEF KeyOf
      <4> QED BY <4>1, <4>2
    <3>2. [i \in Sk |-> f[i]] = [i \in K |-> due[i].amount]
      <4>1. \A i \in K : i \in S
        BY <3>1
      <4>2. \A i \in K : f[i] = due[i].amount
        BY <4>1
      <4> HIDE DEF f, K, Sk
      <4> QED BY <3>1, <4>2
    <3>3. Sum(due, K) = Total([i \in K |-> due[i].amount])
      BY Zenon DEF Sum
    <3> HIDE DEF K, Sk, f, g
    <3>4. Sum(due, K) = g[ck]
      BY <2>1, <3>2, <3>3
    <3>5. pool'[c][<<tt, t>>] = pool[c][<<tt, t>>] - Sum(due, K)
      BY <2>4 DEF K
    <3> QED BY <2>1, <2>2, <2>3, <2>4, <2>5, <3>4, <3>5
  <2>6. CASE d # c
    <3>1. Sk = {}
      BY <2>3, <2>6
    <3>2. Total([i \in Sk |-> f[i]]) = 0
      <4>1. [i \in {} |-> f[i]] \in [{} -> Nat]
        OBVIOUS
      <4> HIDE DEF f
      <4>2. Total([i \in {} |-> f[i]]) = 0
        BY <4>1, TotalZero
      <4> QED BY <3>1, <4>2
    <3> HIDE DEF Sk, f, g
    <3> QED BY <2>1, <2>2, <2>3, <2>4, <2>6, <3>2
  <2> QED BY <2>5, <2>6
<1>8. PoolsFor(pool, t) \in [PoolIds -> Nat] /\ PoolsFor(pool', t) \in [PoolIds -> Nat]
  BY HoldsType
<1>9. Total(PoolsFor(pool, t)) = Total(PoolsFor(pool', t)) + Total(g)
  <2> HIDE DEF g
  <2>1. Parts(PoolIds, PoolsFor(pool, t), PoolsFor(pool', t), g)
    BY <1>6, <1>7, <1>8 DEF Parts
  <2> QED BY <2>1, PoolIdsFinite, PartsAdd
<1> HIDE DEF f, g
<1> QED BY <1>5, <1>6, <1>9

\* The tokens of Nft that a claim pays out, each once.
LEMMA HeldPaid ==
  ASSUME FundTypes(bal, nft, pool), NEW p \in Players, NEW due \in Seq(Reward),
         \A i \in 1 .. Len(due) : due[i].amount >= 0, PayRewards(p, due)
  PROVE  Total(HeldSum(nft)) = Total(HeldSum(nft')) + Sum(due, {i \in 1 .. Len(due) : due[i].token = Nft})
<1> DEFINE S == {i \in 1 .. Len(due) : due[i].token = Nft}
           f == [i \in S |-> due[i].amount]
           g == [n \in NftIds |-> PartOf(f, f, S, n)]
           paid(n) == \E i \in S : due[i].amount = n
<1>1. /\ \A i \in S : due[i].amount \in NftIds /\ nft[due[i].amount] = Self
      /\ \A i, j \in S : due[i].amount = due[j].amount => i = j
      /\ nft' = [n \in NftIds |-> IF paid(n) THEN p ELSE nft[n]]
  BY DEF PayRewards
<1>2. IsFiniteSet(S)
  <2>1. 1 \in Int /\ Len(due) \in Int
    OBVIOUS
  <2>2. IsFiniteSet(1 .. Len(due))
    BY <2>1, FS_Interval
  <2> QED BY <2>2, FS_Subset
<1>3. f \in [S -> Nat] /\ f \in [S -> NftIds]
  BY <1>1, QuestsAssumption
<1>4. Sum(due, S) = Total(f)
  BY Zenon DEF Sum
<1>5. g \in [NftIds -> Nat] /\ Total(g) = Total(f)
  <2> HIDE DEF f, S
  <2> QED BY <1>2, <1>3, PoolIdsFinite, TotalRegroup
<1>6. \A i \in S : f[i] = due[i].amount
  OBVIOUS
<1> HIDE DEF f, S
<1>7. ASSUME NEW n \in NftIds PROVE g[n] = IF paid(n) THEN n ELSE 0
  <2> DEFINE Sn == {j \in S : f[j] = n}
  <2>1. g[n] = Total([i \in Sn |-> f[i]])
    <3>1. g[n] = PartOf(f, f, S, n)
      OBVIOUS
    <3>2. PartOf(f, f, S, n) = Total([i \in Sn |-> f[i]])
      BY Zenon DEF PartOf
    <3> QED BY <3>1, <3>2
  <2> HIDE DEF g
  <2>2. n \in Nat
    BY QuestsAssumption
  <2>3. Total([i \in {} |-> f[i]]) = 0
    <3>1. [i \in {} |-> f[i]] \in [{} -> Nat]
      OBVIOUS
    <3> QED BY <3>1, TotalZero
  <2>4. CASE paid(n)
    <3>1. PICK i \in S : due[i].amount = n
      BY <2>4
    <3>2. Sn = {} \cup {i}
      BY <1>1, <1>6, <3>1
    <3>3. i \notin {} /\ \A a \in {} \cup {i} : f[a] \in Nat
      BY <1>6, <2>2, <3>1
    <3>4. Total([a \in {} \cup {i} |-> f[a]]) = Total([a \in {} |-> f[a]]) + f[i]
      <4>1. IsFiniteSet({})
        BY FS_EmptySet
      <4> QED BY <3>3, <4>1, TotalOneMore
    <3> HIDE DEF Sn
    <3>5. g[n] = 0 + f[i]
      BY <2>1, <2>3, <3>2, <3>4
    <3>6. f[i] = n
      BY <1>6, <3>1
    <3> QED BY <2>2, <2>4, <3>5, <3>6
  <2>5. CASE ~paid(n)
    <3>1. Sn = {}
      BY <1>6, <2>5
    <3> HIDE DEF Sn
    <3> QED BY <2>1, <2>3, <2>5, <3>1
  <2> QED BY <2>4, <2>5
<1>8. HeldSum(nft) \in [NftIds -> Nat] /\ HeldSum(nft') \in [NftIds -> Nat]
  BY QuestsAssumption DEF HeldSum
<1>9. ASSUME NEW n \in NftIds PROVE HeldSum(nft)[n] = HeldSum(nft')[n] + g[n]
  <2>1. n \in Nat /\ p # Self
    BY QuestsAssumption
  <2>2. HeldSum(nft)[n] = (IF nft[n] = Self THEN n ELSE 0) /\ HeldSum(nft')[n] = (IF nft'[n] = Self THEN n ELSE 0)
    BY DEF HeldSum
  <2>3. CASE paid(n)
    <3>1. nft[n] = Self /\ nft'[n] = p
      BY <1>1, <2>3
    <3> HIDE DEF g
    <3> QED BY <1>7, <2>1, <2>2, <2>3, <3>1
  <2>4. CASE ~paid(n)
    <3>1. nft'[n] = nft[n]
      BY <1>1, <2>4
    <3> HIDE DEF g
    <3> QED BY <1>7, <2>1, <2>2, <2>4, <3>1
  <2> QED BY <2>3, <2>4
<1> HIDE DEF g
<1>10. Total(HeldSum(nft)) = Total(HeldSum(nft')) + Total(g)
  <2>1. Parts(NftIds, HeldSum(nft), HeldSum(nft'), g)
    BY <1>5, <1>8, <1>9 DEF Parts
  <2> QED BY <2>1, PoolIdsFinite, PartsAdd
<1> QED BY <1>4, <1>5, <1>10 DEF S

LEMMA ClaimBacked ==
  ASSUME FundsInv, EarnedInv, NEW p \in Players, NEW c \in ChainIds, ClaimRewards(p, c)
  PROVE  FundsInv'
<1> DEFINE due == pending[p][c]
           of(t) == {i \in 1 .. Len(due) : due[i].token = t}
           on(k) == {i \in 1 .. Len(due) : KeyOf(due[i]) = k}
<1>1. /\ \A i \in 1 .. Len(due) : due[i].amount >= 0
      /\ \A k \in Keys : pool[c][k] >= Sum(due, on(k))
      /\ PayRewards(p, due)
      /\ pool' = [pool EXCEPT ![c] = [k \in Keys |-> @[k] - Sum(due, on(k))]]
  BY DEF ClaimRewards
<1>2. due \in Seq(Reward)
  BY DEF EarnedInv, Earned
<1> HIDE DEF due
<1>3. FundTypes(bal, nft, pool)
  BY DEF FundsInv
<1>4. p \in Account /\ p # Self /\ Self \in Account
  BY QuestsAssumption DEF Account
<1>5. \A i \in 1 .. Len(due) : due[i].amount \in Nat
  <2> TAKE i \in 1 .. Len(due)
  <2>1. due[i] \in Reward
    BY <1>2
  <2> QED BY <1>1, <2>1 DEF Reward
<1>6. ASSUME NEW I \in SUBSET (1 .. Len(due)) PROVE Sum(due, I) \in Nat
  <2>1. 1 \in Int /\ Len(due) \in Int
    BY <1>2
  <2>2. IsFiniteSet(I)
    BY <2>1, FS_Interval, FS_Subset
  <2>3. [i \in I |-> due[i].amount] \in [I -> Nat]
    BY <1>5
  <2> QED BY <2>2, <2>3, UnitsFinite DEF Sum
<1>7. pool' \in [ChainIds -> [Keys -> Nat]]
  <2>1. ASSUME NEW k \in Keys PROVE pool[c][k] - Sum(due, on(k)) \in Nat
    <3>1. pool[c][k] \in Nat
      BY <1>3 DEF FundTypes
    <3>2. Sum(due, on(k)) \in Nat
      BY <1>6
    <3> QED BY <1>1, <3>1, <3>2
  <2> HIDE DEF on
  <2>2. [k \in Keys |-> pool[c][k] - Sum(due, on(k))] \in [Keys -> Nat]
    BY <2>1
  <2> QED BY <1>1, <1>3, <2>2 DEF FundTypes
<1>8. /\ \A t \in Token \ {Nft} : bal[t][Self] >= Sum(due, of(t))
      /\ bal' = [t \in Token |->
                  IF t = Nft THEN bal[t]
                  ELSE [bal[t] EXCEPT ![Self] = @ - Sum(due, of(t)), ![p] = @ + Sum(due, of(t))]]
      /\ nft' = [n \in NftIds |-> IF \E i \in of(Nft) : due[i].amount = n THEN p ELSE nft[n]]
  BY <1>1 DEF PayRewards
<1>9. \A t \in Token : Sum(due, of(t)) \in Nat
  BY <1>6
<1>10. ASSUME NEW t \in Token
       PROVE  /\ bal'[t] \in [Account -> Nat]
              /\ t # Nft => bal'[t][Self] = bal[t][Self] - Sum(due, of(t))
  <2>1. bal[t] \in [Account -> Nat]
    BY <1>3 DEF FundTypes
  <2> HIDE DEF of
  <2>2. CASE t = Nft
    BY <1>8, <2>1, <2>2
  <2>3. CASE t # Nft
    <3> DEFINE x == Sum(due, of(t))
    <3>1. x \in Nat /\ bal[t][Self] >= x
      BY <1>8, <1>9, <2>3
    <3>2. bal'[t] = [bal[t] EXCEPT ![Self] = @ - x, ![p] = @ + x]
      BY <1>8, <2>3
    <3> HIDE DEF x
    <3>3. bal'[t] \in [Account -> Nat] /\ bal'[t][Self] = bal[t][Self] - x
      BY <1>4, <2>1, <3>1, <3>2
    <3> QED BY <3>3 DEF x
  <2> QED BY <2>2, <2>3
<1>11. FundTypes(bal', nft', pool')
  <2>1. nft' \in [NftIds -> Account]
    BY <1>3, <1>4, <1>8 DEF FundTypes
  <2>2. bal' \in [Token -> [Account -> Nat]]
    <3>1. bal' = [t \in Token |-> bal'[t]]
      BY <1>8
    <3> QED BY <1>10, <3>1
  <2> QED BY <1>7, <2>1, <2>2 DEF FundTypes
<1>12. ASSUME NEW t \in Token PROVE Holds(bal', nft', t) >= Total(PoolsFor(pool', t))
  <2>1. Total(PoolsFor(pool, t)) = Total(PoolsFor(pool', t)) + Sum(due, of(t))
    <3>1. \A k \in Keys : pool'[c][k] = pool[c][k] - Sum(due, on(k))
      BY <1>1, <1>3 DEF FundTypes
    <3>2. \A d \in ChainIds \ {c} : pool'[d] = pool[d]
      BY <1>1, <1>3 DEF FundTypes
    <3> QED BY <1>1, <1>2, <1>3, <1>11, <3>1, <3>2, PoolsPaid
  <2>2. /\ Holds(bal, nft, t) >= Total(PoolsFor(pool, t))
        /\ Holds(bal, nft, t) \in Nat /\ Total(PoolsFor(pool, t)) \in Nat
    BY <1>3, HoldsType DEF FundsInv, Covered
  <2>3. Total(PoolsFor(pool', t)) \in Nat /\ Holds(bal', nft', t) \in Nat
    BY <1>11, HoldsType
  <2>4. Holds(bal, nft, t) = Holds(bal', nft', t) + Sum(due, of(t))
    <3>1. CASE t = Nft
      <4>1. Total(HeldSum(nft)) = Total(HeldSum(nft')) + Sum(due, of(t))
        BY <1>1, <1>2, <1>3, <3>1, HeldPaid
      <4> QED BY <3>1, <4>1 DEF Holds
    <3>2. CASE t # Nft
      <4>1. bal'[t][Self] = bal[t][Self] - Sum(due, of(t))
        BY <1>10, <3>2
      <4>2. Holds(bal, nft, t) = bal[t][Self] /\ Holds(bal', nft', t) = bal'[t][Self]
        BY <3>2 DEF Holds
      <4> HIDE DEF of
      <4> QED BY <1>9, <2>2, <2>3, <4>1, <4>2
    <3> QED BY <3>1, <3>2
  <2> HIDE DEF of
  <2> QED BY <1>9, <2>1, <2>2, <2>3, <2>4
<1> QED BY <1>11, <1>12 DEF FundsInv, Covered

\* The table g is f with the amount of a raised by d.
Raised(S, f, g, a, d) ==
  f \in [S -> Nat] /\ g \in [S -> Nat] /\ a \in S /\ d \in Nat
  /\ g[a] = f[a] + d /\ \A b \in S \ {a} : g[b] = f[b]

LEMMA RaisedAdds ==
  ASSUME NEW S, IsFiniteSet(S), NEW f, NEW g, NEW a, NEW d, Raised(S, f, g, a, d)
  PROVE  Total(g) = Total(f) + d
BY TotalRaise DEF Raised

\* What fund_reward_pool adds to the pools.
Fills(c, k, d) == pool' = [pool EXCEPT ![c][k] = @ + d]

LEMMA PoolsFunded ==
  ASSUME FundTypes(bal, nft, pool), NEW c \in ChainIds, NEW k \in Keys, NEW d \in Nat,
         Fills(c, k, d), NEW t \in Token
  PROVE  /\ pool' \in [ChainIds -> [Keys -> Nat]]
         /\ t = k[2] => Total(PoolsFor(pool', t)) = Total(PoolsFor(pool, t)) + d
         /\ t # k[2] => PoolsFor(pool', t) = PoolsFor(pool, t)
<1>1. pool \in [ChainIds -> [Keys -> Nat]]
  BY DEF FundTypes
<1>2. pool[c][k] + d \in Nat
  BY <1>1
<1>3. /\ pool' \in [ChainIds -> [Keys -> Nat]]
      /\ \A e \in ChainIds, l \in Keys :
           pool'[e][l] = IF e = c /\ l = k THEN pool[c][k] + d ELSE pool[e][l]
  BY <1>1, <1>2 DEF Fills
<1>4. PICK tt \in TokenType, u \in Token : k = <<tt, u>>
  BY DEF Keys
<1>5. ASSUME NEW ck \in PoolIds
      PROVE  /\ PoolsFor(pool, t)[ck] = pool[ck[1]][<<ck[2], t>>]
             /\ PoolsFor(pool', t)[ck] = pool'[ck[1]][<<ck[2], t>>]
             /\ ck[1] \in ChainIds /\ ck[2] \in TokenType /\ <<ck[2], t>> \in Keys
             /\ ck = <<ck[1], ck[2]>>
  BY DEF PoolsFor, PoolIds, Keys
<1>6. /\ PoolsFor(pool, t) = [ck \in PoolIds |-> PoolsFor(pool, t)[ck]]
      /\ PoolsFor(pool', t) = [ck \in PoolIds |-> PoolsFor(pool', t)[ck]]
  BY DEF PoolsFor
<1>7. PoolsFor(pool, t) \in [PoolIds -> Nat] /\ PoolsFor(pool', t) \in [PoolIds -> Nat]
  <2>1. ASSUME NEW ck \in PoolIds
        PROVE  PoolsFor(pool, t)[ck] \in Nat /\ PoolsFor(pool', t)[ck] \in Nat
    <3>1. pool[ck[1]] \in [Keys -> Nat] /\ pool'[ck[1]] \in [Keys -> Nat]
      BY <1>1, <1>3, <1>5
    <3> QED BY <1>5, <3>1
  <2> QED BY <1>6, <2>1
<1>8. CASE t = k[2]
  <2> DEFINE a == <<c, tt>>
  <2>0. u = t
    BY <1>4, <1>8
  <2>1. a \in PoolIds /\ a[1] = c /\ a[2] = tt
    BY DEF PoolIds
  <2> HIDE DEF a
  <2>2. PoolsFor(pool', t)[a] = PoolsFor(pool, t)[a] + d
    BY <1>3, <1>4, <1>5, <2>0, <2>1
  <2>3. ASSUME NEW b \in PoolIds \ {a} PROVE PoolsFor(pool', t)[b] = PoolsFor(pool, t)[b]
    <3>1. b = <<b[1], b[2]>> /\ a = <<c, tt>>
      BY <1>5, <2>1 DEF a
    <3>2. ~ (b[1] = c /\ <<b[2], t>> = k)
      BY <1>4, <3>1
    <3>3. b[1] \in ChainIds /\ <<b[2], t>> \in Keys /\ b \in PoolIds
      BY <1>5
    <3>4. pool'[b[1]][<<b[2], t>>] = pool[b[1]][<<b[2], t>>]
      BY <1>3, <3>2, <3>3
    <3> QED BY <1>5, <3>3, <3>4
  <2>4. Raised(PoolIds, PoolsFor(pool, t), PoolsFor(pool', t), a, d)
    BY <1>7, <2>1, <2>2, <2>3 DEF Raised
  <2> QED BY <1>3, <1>8, <2>4, PoolIdsFinite, RaisedAdds
<1>9. CASE t # k[2]
  <2>1. \A ck \in PoolIds : PoolsFor(pool', t)[ck] = PoolsFor(pool, t)[ck]
    <3> TAKE ck \in PoolIds
    <3>1. <<ck[2], t>> # k
      BY <1>4, <1>9
    <3>2. ck[1] \in ChainIds /\ <<ck[2], t>> \in Keys
      BY <1>5
    <3>3. pool'[ck[1]][<<ck[2], t>>] = pool[ck[1]][<<ck[2], t>>]
      BY <1>3, <3>1, <3>2
    <3> QED BY <1>5, <3>3
  <2>2. PoolsFor(pool', t) = PoolsFor(pool, t)
    BY <1>6, <2>1
  <2> QED BY <1>3, <1>9, <2>2
<1> QED BY <1>8, <1>9

LEMMA FundBacked ==
  ASSUME BooksInv, FundsInv, NEW c \in ChainIds, NEW f \in Fundings, FundRewardPool(c, f)
  PROVE  FundsInv'
<1> DEFINE k == KeyOf(f)
           d == f.amount
           o == config.owner
<1>1. f \in [token_type : TokenType, token : Token, amount : Int] /\ d > 0
  BY QuestsAssumption DEF FundRewardPool
<1>2. k \in Keys /\ d \in Nat /\ k[2] = f.token
  BY <1>1 DEF KeyOf, Keys
<1>3. o = Owner /\ Owner \in Account /\ Owner # Self /\ Self \in Account
  <2>1. o # None /\ o \in {None, Owner}
    BY DEF FundRewardPool, BooksInv, BookTypes, Config
  <2> QED BY <2>1, QuestsAssumption DEF Account
<1>4. Fills(c, k, d)
  BY DEF FundRewardPool, Fills
<1>5. \/ /\ f.token = Nft /\ d \in NftIds /\ nft[d] = o
         /\ nft' = [nft EXCEPT ![d] = Self] /\ bal' = bal
      \/ /\ f.token # Nft /\ bal[f.token][o] >= d
         /\ bal' = [bal EXCEPT ![f.token][o] = @ - d, ![f.token][Self] = @ + d] /\ nft' = nft
  BY DEF FundRewardPool
<1>6. FundTypes(bal, nft, pool) /\ Covered(bal, nft, pool)
  BY DEF FundsInv
<1>7. f.token \in Token
  BY <1>1
<1> HIDE DEF k, d, o
<1>8. pool' \in [ChainIds -> [Keys -> Nat]]
  BY <1>2, <1>4, <1>6, <1>7, PoolsFunded
<1>9. /\ bal' \in [Token -> [Account -> Nat]] /\ nft' \in [NftIds -> Account]
      /\ f.token # Nft =>
           \A t \in Token : bal'[t][Self] = bal[t][Self] + (IF t = f.token THEN d ELSE 0)
  <2>1. bal \in [Token -> [Account -> Nat]] /\ nft \in [NftIds -> Account]
    BY <1>6 DEF FundTypes
  <2>2. CASE f.token = Nft
    BY <1>3, <1>5, <2>1, <2>2
  <2>3. CASE f.token # Nft
    <3>1. /\ bal' = [bal EXCEPT ![f.token][o] = @ - d, ![f.token][Self] = @ + d] /\ nft' = nft
          /\ bal[f.token][o] >= d /\ bal[f.token] \in [Account -> Nat]
      BY <1>5, <1>7, <2>1, <2>3
    <3>2. bal[f.token][o] - d \in Nat /\ bal[f.token][Self] + d \in Nat
      BY <1>2, <1>3, <3>1
    <3>3. \A t \in Token :
            bal'[t] = IF t = f.token
                        THEN [bal[t] EXCEPT ![o] = bal[f.token][o] - d, ![Self] = bal[f.token][Self] + d]
                        ELSE bal[t]
      BY <1>3, <1>7, <2>1, <3>1
    <3>4. ASSUME NEW t \in Token
          PROVE  /\ bal'[t] \in [Account -> Nat]
                 /\ bal'[t][Self] = bal[t][Self] + (IF t = f.token THEN d ELSE 0)
      <4>1. bal[t] \in [Account -> Nat] /\ bal[t][Self] \in Nat
        BY <1>3, <2>1
      <4>2. CASE t = f.token
        <5>1. bal'[t] = [bal[t] EXCEPT ![o] = bal[f.token][o] - d, ![Self] = bal[f.token][Self] + d]
          BY <3>3, <4>2
        <5> QED BY <1>3, <3>2, <4>1, <4>2, <5>1
      <4>3. CASE t # f.token
        <5>1. bal'[t] = bal[t]
          BY <3>3, <4>3
        <5> QED BY <4>1, <4>3, <5>1
      <4> QED BY <4>2, <4>3
    <3>5. bal' = [t \in Token |-> bal'[t]]
      BY <2>1, <3>1
    <3> QED BY <2>1, <3>1, <3>4, <3>5
  <2> QED BY <2>2, <2>3
<1>10. FundTypes(bal', nft', pool')
  BY <1>8, <1>9 DEF FundTypes
<1>11. ASSUME NEW t \in Token PROVE Holds(bal', nft', t) >= Total(PoolsFor(pool', t))
  <2>1. /\ Holds(bal, nft, t) >= Total(PoolsFor(pool, t))
        /\ Holds(bal, nft, t) \in Nat /\ Total(PoolsFor(pool, t)) \in Nat
        /\ HeldSum(nft) \in [NftIds -> Nat]
    BY <1>6, HoldsType DEF Covered
  <2>2. /\ t = f.token => Total(PoolsFor(pool', t)) = Total(PoolsFor(pool, t)) + d
        /\ t # f.token => PoolsFor(pool', t) = PoolsFor(pool, t)
    BY <1>2, <1>4, <1>6, PoolsFunded
  <2>3. HeldSum(nft') \in [NftIds -> Nat]
    BY <1>10, HoldsType
  <2>4. Holds(bal', nft', t) = Holds(bal, nft, t) + (IF t = f.token THEN d ELSE 0)
    <3>1. CASE t = Nft /\ f.token = Nft
      <4>1. d \in NftIds /\ nft[d] = Owner /\ nft' = [nft EXCEPT ![d] = Self]
        BY <1>3, <1>5, <3>1
      <4>2. HeldSum(nft')[d] = HeldSum(nft)[d] + d
        BY <1>2, <1>3, <1>6, <4>1 DEF HeldSum, FundTypes
      <4>3. \A n \in NftIds \ {d} : HeldSum(nft')[n] = HeldSum(nft)[n]
        BY <1>6, <4>1 DEF HeldSum, FundTypes
      <4>4. Raised(NftIds, HeldSum(nft), HeldSum(nft'), d, d)
        BY <1>2, <2>1, <2>3, <4>1, <4>2, <4>3 DEF Raised
      <4>5. Total(HeldSum(nft')) = Total(HeldSum(nft)) + d
        BY <4>4, PoolIdsFinite, RaisedAdds
      <4> QED BY <3>1, <4>5 DEF Holds
    <3>2. CASE t = Nft /\ f.token # Nft
      <4>1. nft' = nft
        BY <1>5, <3>2
      <4> QED BY <2>1, <3>2, <4>1 DEF Holds
    <3>3. CASE t # Nft
      <4>1. bal'[t][Self] = bal[t][Self] + (IF t = f.token THEN d ELSE 0)
        <5>1. CASE f.token = Nft
          <6>1. bal[t][Self] \in Nat
            BY <1>3, <1>6 DEF FundTypes
          <6> QED BY <1>5, <3>3, <5>1, <6>1
        <5>2. CASE f.token # Nft
          BY <1>9, <5>2
        <5> QED BY <5>1, <5>2
      <4> QED BY <3>3, <4>1 DEF Holds
    <3> QED BY <3>1, <3>2, <3>3
  <2>5. CASE t = f.token
    BY <1>2, <2>1, <2>2, <2>4, <2>5
  <2>6. CASE t # f.token
    BY <2>1, <2>2, <2>4, <2>6
  <2> QED BY <2>5, <2>6
<1> QED BY <1>10, <1>11 DEF FundsInv, Covered

LEMMA FundsInit == Init => FundsInv
<1> SUFFICES ASSUME Init PROVE FundsInv
  OBVIOUS
<1>1. FundTypes(bal, nft, pool)
  <2>1. Owner \in Account
    BY QuestsAssumption DEF Account
  <2> QED BY <2>1, QuestsAssumption DEF Init, FundTypes
<1>2. ASSUME NEW t \in Token PROVE Holds(bal, nft, t) >= Total(PoolsFor(pool, t))
  <2>1. PoolsFor(pool, t) \in [PoolIds -> Nat] /\ Holds(bal, nft, t) \in Nat
    BY <1>1, HoldsType
  <2>2. \A ck \in PoolIds : PoolsFor(pool, t)[ck] = 0
    BY DEF Init, PoolsFor, PoolIds, Keys
  <2>3. Total(PoolsFor(pool, t)) = 0
    BY <2>1, <2>2, TotalZero
  <2> QED BY <2>1, <2>3
<1> QED BY <1>1, <1>2 DEF FundsInv, Covered

LEMMA FundsQuiet == ASSUME FundsInv, UNCHANGED funds PROVE FundsInv'
<1>1. bal' = bal /\ nft' = nft /\ pool' = pool
  BY DEF funds
<1> QED BY <1>1 DEF FundsInv

LEMMA FundsNext == ASSUME BooksInv, EarnedInv, FundsInv, Next PROVE FundsInv'
<1>1. CASE Initialize
  BY <1>1, FundsQuiet DEF Initialize
<1>2. ASSUME NEW a, NEW b, CreateChain(a, b) PROVE FundsInv'
  BY <1>2, FundsQuiet DEF CreateChain
<1>3. ASSUME NEW a, NEW c, NEW on, SetChainActive(a, c, on) PROVE FundsInv'
  BY <1>3, FundsQuiet DEF SetChainActive
<1>4. ASSUME NEW p, NEW c, StartChain(p, c) \/ ResetToCheckpoint(p, c) \/ ResetChain(p, c)
      PROVE  FundsInv'
  BY <1>4, FundsQuiet DEF StartChain, ResetToCheckpoint, ResetChain
<1>5. ASSUME NEW p, NEW c, NEW q, CompleteQuest(p, c, q) PROVE FundsInv'
  BY <1>5, FundsQuiet DEF CompleteQuest
<1>6. ASSUME NEW p, NEW q, NEW r, RateQuest(p, q, r) PROVE FundsInv'
  BY <1>6, FundsQuiet DEF RateQuest
<1>7. ASSUME NEW f, UpdateConfig(f) PROVE FundsInv'
  BY <1>7, FundsQuiet DEF UpdateConfig
<1>8. ASSUME NEW a, ChangeRoles(a) PROVE FundsInv'
  BY <1>8, FundsQuiet DEF ChangeRoles
<1>9. CASE Tick
  BY <1>9, FundsQuiet DEF Tick
<1> QED
  BY <1>1, <1>2, <1>3, <1>4, <1>5, <1>6, <1>7, <1>8, <1>9, FundBacked, ClaimBacked DEF Next

-----------------------------------------------------------------------------
(***************************************************************************)
(* The contracts that keep records of players: their storage, 0 where it   *)
(* is not of the contract that runs.  They share no storage and do not     *)
(* call one another, so contracts that use the same name for a key share   *)
(* the variable; what they do not share with the quest chains has a name   *)
(* of its own: clock is their ledger timestamp, tokens the balances,       *)
(* settings the Config, log the history and so on.                         *)
(***************************************************************************)
VARIABLES
  clock, settings, profile, rate, pattern, suspicious, challenge, penalty, appeal, window,
  whitelisted, blacklisted, paused, token, log, versions, metric, image, traitRule,
  triggerRule, owns, top, set, synergy, gathered, claimed, combined, claims, unlocks, setboard,
  scores, bonus, edition, editions, tokens, counting, code, owner, referrer, count, referees,
  stats, rate_limit, route, message, slot, head, tail, sender_window, audit, role, members,
  disbanded, withdrawal, voted, proposal, counters, competition, energy, total_players,
  gift_reset

recordVars ==
  <<clock, settings, profile, rate, pattern, suspicious, challenge, penalty, appeal, window,
    whitelisted, blacklisted, paused, token, log, versions, metric, image, traitRule,
    triggerRule, owns, top, set, synergy, gathered, claimed, combined, claims, unlocks,
    setboard, scores, bonus, edition, editions, tokens, counting, code, owner, referrer, count,
    referees, stats, rate_limit, route, message, slot, head, tail, sender_window, audit, role,
    members, disbanded, withdrawal, voted, proposal, counters, competition, energy,
    total_players, gift_reset>>

Weight(condition, n) == IF condition THEN n ELSE 0

AntiBot == INSTANCE AntiBot WITH
  now <- clock, config <- settings, Players <- OfAntiBot.Players, Puzzles <- OfAntiBot.Puzzles,
  DEFAULT_CONFIG <- OfAntiBot.DEFAULT_CONFIG, Configs <- OfAntiBot.Configs,
  Windows <- OfAntiBot.Windows, SolveTimes <- OfAntiBot.SolveTimes,
  Severities <- OfAntiBot.Severities, TimeSteps <- OfAntiBot.TimeSteps, DAY <- OfAntiBot.DAY,
  MaxActivity <- OfAntiBot.MaxActivity, MaxReports <- OfAntiBot.MaxReports,
  MaxPenalties <- OfAntiBot.MaxPenalties, MaxAppeals <- OfAntiBot.MaxAppeals,
  MaxTime <- OfAntiBot.MaxTime

DynamicMetadata == INSTANCE DynamicMetadata WITH
  now <- clock, config <- settings, history <- log, Owners <- OfDynamicMetadata.Owners,
  Contents <- OfDynamicMetadata.Contents, Traits <- OfDynamicMetadata.Traits,
  Metrics <- OfDynamicMetadata.Metrics, Values <- OfDynamicMetadata.Values,
  BaseUris <- OfDynamicMetadata.BaseUris, TraitRules <- OfDynamicMetadata.TraitRules,
  TriggerRules <- OfDynamicMetadata.TriggerRules,
  MAX_SCHEMA_VERSION <- OfDynamicMetadata.MAX_SCHEMA_VERSION,
  MAX_TRAITS_PER_TOKEN <- OfDynamicMetadata.MAX_TRAITS_PER_TOKEN,
  MaxTokens <- OfDynamicMetadata.MaxTokens, MaxRules <- OfDynamicMetadata.MaxRules,
  MaxVersions <- OfDynamicMetadata.MaxVersions, MaxScore <- OfDynamicMetadata.MaxScore,
  MaxTime <- OfDynamicMetadata.MaxTime

AchievementSets == INSTANCE AchievementSets WITH
  progress <- gathered, board <- scores, Players <- OfAchievementSets.Players,
  Puzzles <- OfAchievementSets.Puzzles, SetDefs <- OfAchievementSets.SetDefs,
  SynergyDefs <- OfAchievementSets.SynergyDefs, Tops <- OfAchievementSets.Tops,
  MaxSets <- OfAchievementSets.MaxSets, MaxSynergies <- OfAchievementSets.MaxSynergies

Referral == INSTANCE Referral WITH
  now <- clock, bal <- tokens, config <- settings, counter <- counting,
  Users <- OfReferral.Users, Rewards <- OfReferral.Rewards, Limits <- OfReferral.Limits,
  Depths <- OfReferral.Depths, MAX_CHAIN_DEPTH <- OfReferral.MAX_CHAIN_DEPTH,
  LETTERS <- OfReferral.LETTERS, Funds <- OfReferral.Funds, MaxTime <- OfReferral.MaxTime

CrossContract == INSTANCE CrossContract WITH
  now <- clock, Senders <- OfCrossContract.Senders, Routes <- OfCrossContract.Routes,
  Targets <- OfCrossContract.Targets, Callbacks <- OfCrossContract.Callbacks,
  RateLimits <- OfCrossContract.RateLimits, MaxMessages <- OfCrossContract.MaxMessages,
  MaxTime <- OfCrossContract.MaxTime

Guild == INSTANCE Guild WITH
  now <- clock, bal <- tokens, Users <- OfGuild.Users, Leader <- OfGuild.Leader,
  THRESHOLD <- OfGuild.THRESHOLD, Amounts <- OfGuild.Amounts,
  InitBalance <- OfGuild.InitBalance, MaxWithdrawals <- OfGuild.MaxWithdrawals,
  MaxProposals <- OfGuild.MaxProposals, MaxCount <- OfGuild.MaxCount,
  MaxTime <- OfGuild.MaxTime

Energy == INSTANCE Energy WITH
  now <- clock, bal <- tokens, config <- settings, Players <- OfEnergy.Players,
  Configs <- OfEnergy.Configs, Boosts <- OfEnergy.Boosts, Durations <- OfEnergy.Durations,
  Gifts <- OfEnergy.Gifts, DAY <- OfEnergy.DAY, U32_MAX <- OfEnergy.U32_MAX,
  InitBalance <- OfEnergy.InitBalance, MaxTime <- OfEnergy.MaxTime

-----------------------------------------------------------------------------
(***************************************************************************)
(* Proofs: the profiles of players agree with the records.                 *)
(***************************************************************************)
BotStatuses ==
  {"Unverified", "Verified", "Flagged", "Penalized", "Blacklisted", "AppealPending", "Whitelisted"}

BotProfile ==
  [status : BotStatuses, trust_score : Int, successful : Nat, failed : Nat, fast : Nat,
   first_seen : Nat, penalty_count : Nat, appeal_count : Nat]

BotPenalty == [player : OfAntiBot.Players, applied_at : Nat, expires_at : Int, active : BOOLEAN]
AppealStatuses == {"Pending", "Approved", "Rejected"}
BotAppeal == [player : OfAntiBot.Players, penalty_id : Nat, status : AppealStatuses]
BotConfigs == {OfAntiBot.DEFAULT_CONFIG} \cup OfAntiBot.Configs

\* Periods and severities are numbers.
ASSUME AntiBotAssumption ==
  /\ \A c \in BotConfigs : c.pattern_window \in Nat /\ c.default_penalty \in Nat
  /\ OfAntiBot.Severities \subseteq Nat /\ OfAntiBot.TimeSteps \subseteq Nat
  /\ OfAntiBot.DAY \in Nat \ {0} /\ OfAntiBot.MaxTime \in Nat
  /\ None \notin BotProfile

BotTypes ==
  /\ clock \in Nat /\ settings \in BotConfigs \cup {None}
  /\ profile \in [OfAntiBot.Players -> BotProfile \cup {None}]
  /\ DOMAIN pattern = OfAntiBot.Players
  /\ \A p \in OfAntiBot.Players : pattern[p].times \in Seq(Nat) /\ "times" \in DOMAIN pattern[p]
  /\ penalty \in Seq(BotPenalty) /\ appeal \in Seq(BotAppeal)
  /\ \A a \in 1 .. Len(appeal) : appeal[a].penalty_id \in 1 .. Len(penalty)

\* The records rs, penalties or appeals, of the player p.
RecordsOf(rs, p) == {i \in 1 .. Len(rs) : rs[i].player = p}

\* The profile f of p counts the records.
Profiled(f, p, ps, as, q) ==
  /\ f.penalty_count = Cardinality(RecordsOf(ps, p))
  /\ f.appeal_count = Cardinality(RecordsOf(as, p))
  /\ f.successful + f.failed >= Len(q.times)
  /\ f.fast <= f.successful

\* A penalty has one open appeal at most, and is lifted by an appeal granted.
AppealsOnce(as) ==
  \A a, b \in 1 .. Len(as) :
     as[a].penalty_id = as[b].penalty_id /\ as[a].status = "Pending"
       => a = b \/ as[b].status # "Pending"

GrantsLift(as, ps) ==
  \A a \in 1 .. Len(as) : as[a].status = "Approved" => ~ps[as[a].penalty_id].active

BotInv ==
  /\ BotTypes
  /\ \A p \in OfAntiBot.Players : Profiled(AntiBot!Profile(p), p, penalty, appeal, pattern[p])
  /\ AppealsOnce(appeal) /\ GrantsLift(appeal, penalty)

Alike(f, g) ==
  /\ f.penalty_count = g.penalty_count /\ f.appeal_count = g.appeal_count
  /\ f.successful = g.successful /\ f.failed = g.failed /\ f.fast = g.fast

LEMMA ProfileStored ==
  ASSUME BotTypes, NEW p \in OfAntiBot.Players
  PROVE  AntiBot!Profile(p) \in BotProfile
<1>1. profile[p] \in BotProfile \cup {None} /\ clock \in Nat
  BY DEF BotTypes
<1>2. CASE profile[p] # None
  BY <1>1, <1>2 DEF AntiBot!Profile
<1>3. CASE profile[p] = None
  BY <1>1, <1>3 DEF AntiBot!Profile, BotProfile, BotStatuses
<1> QED BY <1>2, <1>3

\* Changes of what is not counted.
LEMMA StatusSet ==
  ASSUME NEW f \in BotProfile, NEW s \in BotStatuses
  PROVE  [f EXCEPT !.status = s] \in BotProfile /\ Alike([f EXCEPT !.status = s], f)
BY DEF BotProfile, Alike

LEMMA TrustSet ==
  ASSUME NEW f \in BotProfile, NEW t \in Int
  PROVE  [f EXCEPT !.trust_score = t] \in BotProfile /\ Alike([f EXCEPT !.trust_score = t], f)
BY DEF BotProfile, Alike

LEMMA Alikes ==
  ASSUME NEW f, NEW g, NEW h, Alike(f, g), Alike(g, h) PROVE Alike(f, h)
BY DEF Alike

LEMMA QuotientInt ==
  ASSUME NEW n \in Int, NEW u \in Nat \ {0} PROVE n \div u \in Int
  OBVIOUS

LEMMA AtMostInt ==
  ASSUME NEW a \in Int, NEW b \in Int
  PROVE  AntiBot!AtMost(a, b) \in Int /\ AntiBot!Less(a, b) \in Int
BY DEF AntiBot!AtMost, AntiBot!Less

\* update_trust_score changes nothing that is counted.
LEMMA TrustedProfile ==
  ASSUME clock \in Nat, NEW f \in BotProfile, NEW q
  PROVE  AntiBot!Trusted(f, q) \in BotProfile /\ Alike(AntiBot!Trusted(f, q), f)
<1> DEFINE total == f.successful + f.failed
           rate1 == IF total > 0 THEN AntiBot!AtMost((f.successful * 300) \div total, 300) ELSE 0
           rated == 500 + rate1
           days == (clock - f.first_seen) \div OfAntiBot.DAY
           aged == rated + AntiBot!AtMost(days * 10, 100)
           timed == CASE 1000 - q.variance > 800 -> AntiBot!Less(aged, 100)
                      [] 1000 - q.variance < 300 -> aged + 50
                      [] OTHER -> aged
           score == AntiBot!AtMost(AntiBot!Less(AntiBot!Less(timed, f.penalty_count * 50), f.fast * 20),
                                   1000)
           s == IF score >= 800 /\ f.status = "Unverified" THEN "Verified" ELSE f.status
<1>1. /\ f.successful \in Nat /\ f.failed \in Nat /\ f.first_seen \in Nat /\ f.fast \in Nat
      /\ f.penalty_count \in Nat /\ f.status \in BotStatuses /\ OfAntiBot.DAY \in Nat \ {0}
  BY AntiBotAssumption DEF BotProfile
<1>2. rate1 \in Int
  <2>1. total \in Nat /\ f.successful * 300 \in Int
    BY <1>1
  <2>2. CASE total > 0
    <3>1. total \in Nat \ {0}
      BY <2>1, <2>2
    <3>2. (f.successful * 300) \div total \in Int
      <4> HIDE DEF total
      <4> QED BY <2>1, <3>1, QuotientInt
    <3> QED BY <2>2, <3>2, AtMostInt
  <2>3. CASE ~(total > 0)
    BY <2>3
  <2> QED BY <2>2, <2>3
<1> HIDE DEF rate1
<1>3. aged \in Int
  <2>1. days \in Int
    <3>1. clock - f.first_seen \in Int
      BY <1>1
    <3> QED BY <1>1, <3>1, QuotientInt
  <2> HIDE DEF days
  <2>2. AntiBot!AtMost(days * 10, 100) \in Int
    BY <2>1, AtMostInt
  <2> QED BY <1>2, <2>2
<1> HIDE DEF aged
<1>4. timed \in Int
  <2>1. AntiBot!Less(aged, 100) \in Int /\ aged + 50 \in Int
    BY <1>3, AtMostInt
  <2> QED BY <1>3, <2>1
<1> HIDE DEF timed
<1>5. score \in Int
  <2>1. f.penalty_count * 50 \in Int /\ f.fast * 20 \in Int /\ 1000 \in Int
    BY <1>1
  <2>2. AntiBot!Less(timed, f.penalty_count * 50) \in Int
    BY <1>4, <2>1, AtMostInt
  <2>3. AntiBot!Less(AntiBot!Less(timed, f.penalty_count * 50), f.fast * 20) \in Int
    BY <2>1, <2>2, AtMostInt
  <2> QED BY <2>1, <2>3, AtMostInt
<1>6. AntiBot!Trusted(f, q) = [f EXCEPT !.trust_score = score, !.status = s]
  BY DEF AntiBot!Trusted, timed, aged, rate1
<1> HIDE DEF score
<1>7. s \in BotStatuses
  BY <1>1 DEF BotStatuses
<1> HIDE DEF s
<1> QED BY <1>5, <1>6, <1>7 DEF BotProfile, Alike

\* Profiles change in what is not counted, and records in what is not their player.
LEMMA StatusesKeep ==
  ASSUME BotInv, clock' \in Nat, settings' \in BotConfigs \cup {None},
         profile' \in [OfAntiBot.Players -> BotProfile \cup {None}],
         \A q \in OfAntiBot.Players :
            \/ profile'[q] = profile[q]
            \/ profile'[q] \in BotProfile /\ Alike(profile'[q], AntiBot!Profile(q)),
         UNCHANGED pattern,
         penalty' \in Seq(BotPenalty), Len(penalty') = Len(penalty),
         \A i \in 1 .. Len(penalty) : penalty'[i].player = penalty[i].player,
         appeal' \in Seq(BotAppeal), Len(appeal') = Len(appeal),
         \A a \in 1 .. Len(appeal) : /\ appeal'[a].player = appeal[a].player
                                     /\ appeal'[a].penalty_id = appeal[a].penalty_id,
         AppealsOnce(appeal'), GrantsLift(appeal', penalty')
  PROVE  BotInv'
<1>1. BotTypes'
  BY DEF BotInv, BotTypes
<1>2. ASSUME NEW q \in OfAntiBot.Players
      PROVE  Profiled(AntiBot!Profile(q)', q, penalty', appeal', pattern'[q])
  <2>1. Profiled(AntiBot!Profile(q), q, penalty, appeal, pattern[q])
    BY DEF BotInv
  <2>2. RecordsOf(penalty', q) = RecordsOf(penalty, q) /\ RecordsOf(appeal', q) = RecordsOf(appeal, q)
    BY DEF RecordsOf
  <2>3. Alike(AntiBot!Profile(q)', AntiBot!Profile(q))
    <3>1. CASE profile'[q] = profile[q]
      BY <3>1 DEF AntiBot!Profile, Alike
    <3>2. CASE profile'[q] \in BotProfile /\ Alike(profile'[q], AntiBot!Profile(q))
      BY <3>2, AntiBotAssumption DEF AntiBot!Profile
    <3> QED BY <3>1, <3>2
  <2> QED BY <2>1, <2>2, <2>3 DEF Profiled, Alike
<1> QED BY <1>1, <1>2 DEF BotInv

LEMMA StatusKeeps ==
  ASSUME BotInv, NEW p \in OfAntiBot.Players, NEW f \in BotProfile, Alike(f, AntiBot!Profile(p)),
         AntiBot!Store(p, f), UNCHANGED <<clock, settings, pattern, penalty, appeal>>
  PROVE  BotInv'
<1>1. /\ clock' \in Nat /\ settings' \in BotConfigs \cup {None}
      /\ profile \in [OfAntiBot.Players -> BotProfile \cup {None}]
      /\ penalty' \in Seq(BotPenalty) /\ appeal' \in Seq(BotAppeal)
      /\ AppealsOnce(appeal') /\ GrantsLift(appeal', penalty')
  BY DEF BotInv, BotTypes
<1>2. /\ profile' \in [OfAntiBot.Players -> BotProfile \cup {None}] /\ profile'[p] = f
      /\ \A q \in OfAntiBot.Players : q # p => profile'[q] = profile[q]
  BY <1>1 DEF AntiBot!Store
<1>3. \A q \in OfAntiBot.Players :
            \/ profile'[q] = profile[q]
            \/ profile'[q] \in BotProfile /\ Alike(profile'[q], AntiBot!Profile(q))
  BY <1>2
<1> QED BY <1>1, <1>2, <1>3, StatusesKeep

-----------------------------------------------------------------------------
\* What stays and what comes with one record more.
LEMMA ProfiledStays ==
  ASSUME BotInv, NEW q \in OfAntiBot.Players, profile'[q] = profile[q],
         RecordsOf(penalty', q) = RecordsOf(penalty, q),
         RecordsOf(appeal', q) = RecordsOf(appeal, q), pattern'[q] = pattern[q]
  PROVE  Profiled(AntiBot!Profile(q)', q, penalty', appeal', pattern'[q])
<1>1. Profiled(AntiBot!Profile(q), q, penalty, appeal, pattern[q])
  BY DEF BotInv
<1>2. Alike(AntiBot!Profile(q)', AntiBot!Profile(q))
  BY DEF AntiBot!Profile, Alike
<1> QED BY <1>1, <1>2 DEF Profiled, Alike

LEMMA RecordsFinite ==
  ASSUME NEW T, NEW rs \in Seq(T), NEW p
  PROVE  IsFiniteSet(RecordsOf(rs, p)) /\ Cardinality(RecordsOf(rs, p)) \in Nat
<1>1. Len(rs) \in Nat
  OBVIOUS
<1>2. IsFiniteSet(1 .. Len(rs))
  BY <1>1, FS_Interval
<1>3. RecordsOf(rs, p) \subseteq 1 .. Len(rs)
  BY DEF RecordsOf
<1> QED BY <1>2, <1>3, FS_Subset, FS_CardinalityType

LEMMA OneRecordMore ==
  ASSUME NEW T, NEW rs \in Seq(T), NEW x \in T, NEW p
  PROVE  /\ x.player # p => RecordsOf(Append(rs, x), p) = RecordsOf(rs, p)
         /\ x.player = p => Cardinality(RecordsOf(Append(rs, x), p)) = Cardinality(RecordsOf(rs, p)) + 1
<1> DEFINE as == Append(rs, x)
           n == Len(rs)
           A == RecordsOf(as, p)
           R == RecordsOf(rs, p)
<1>1. n \in Nat /\ Len(as) = n + 1 /\ as[n + 1] = x /\ \A j \in 1 .. n : as[j] = rs[j]
  BY Appended
<1>2. \A i : i \in A <=> i \in 1 .. n + 1 /\ as[i].player = p
  <2> HIDE DEF as
  <2> QED BY <1>1 DEF RecordsOf
<1>3. \A i : i \in R <=> i \in 1 .. n /\ rs[i].player = p
  BY DEF RecordsOf
<1> HIDE DEF as, n, A, R
<1>4. CASE x.player # p
  <2>1. A = R
    <3>1. ASSUME NEW i PROVE i \in A <=> i \in R
      <4>1. i \in 1 .. n + 1 <=> i \in 1 .. n \/ i = n + 1
        BY <1>1
      <4>2. CASE i \in 1 .. n
        BY <1>1, <1>2, <1>3, <4>1, <4>2
      <4>3. CASE i \notin 1 .. n
        BY <1>1, <1>2, <1>3, <1>4, <4>1, <4>3
      <4> QED BY <4>2, <4>3
    <3> QED BY <3>1
  <2> QED BY <1>4, <2>1 DEF A, R, as
<1>5. CASE x.player = p
  <2>1. A = R \cup {n + 1} /\ n + 1 \notin R
    <3>1. n + 1 \notin R
      BY <1>1, <1>3
    <3>2. ASSUME NEW i PROVE i \in A <=> i \in R \/ i = n + 1
      <4>1. i \in 1 .. n + 1 <=> i \in 1 .. n \/ i = n + 1
        BY <1>1
      <4>2. CASE i \in 1 .. n
        <5>1. i # n + 1
          BY <1>1, <4>2
        <5> QED BY <1>1, <1>2, <1>3, <4>1, <4>2, <5>1
      <4>3. CASE i \notin 1 .. n
        BY <1>1, <1>2, <1>3, <1>5, <4>1, <4>3
      <4> QED BY <4>2, <4>3
    <3> QED BY <3>1, <3>2
  <2>2. IsFiniteSet(R) /\ Cardinality(R) \in Nat
    BY RecordsFinite DEF R
  <2>3. Cardinality(A) = Cardinality(R) + 1
    BY <2>1, <2>2, FS_AddElement
  <2> QED BY <1>5, <2>3 DEF A, R, as
<1> QED BY <1>4, <1>5

\* A report may flag the player.
LEMMA SuspicionKeeps ==
  ASSUME BotInv, NEW p \in OfAntiBot.Players, NEW f \in BotProfile, Alike(f, AntiBot!Profile(p)),
         NEW severity, AntiBot!Report(p, f, severity),
         UNCHANGED <<clock, settings, pattern, penalty, appeal>>
  PROVE  BotInv'
<1> DEFINE reports == Append(suspicious[p], severity)
           g == AntiBot!Flagged(f, reports, severity)
<1>1. AntiBot!Store(p, g)
  BY DEF AntiBot!Report
<1>2. g = f \/ g = [f EXCEPT !.status = "Flagged"]
  BY DEF AntiBot!Flagged
<1>3. "Flagged" \in BotStatuses
  BY DEF BotStatuses
<1>4. g \in BotProfile /\ Alike(g, f)
  <2>1. CASE g = f
    BY <2>1 DEF Alike
  <2>2. CASE g = [f EXCEPT !.status = "Flagged"]
    <3> HIDE DEF g
    <3> QED BY <1>3, <2>2, StatusSet
  <2> QED BY <1>2, <2>1, <2>2
<1> HIDE DEF g
<1>5. Alike(g, AntiBot!Profile(p))
  BY <1>4, Alikes
<1> QED BY <1>1, <1>4, <1>5, StatusKeeps

\* The status of a player, and with it the trust, is set.
LEMMA WithStatusKeeps ==
  ASSUME BotTypes, NEW p \in OfAntiBot.Players, NEW s \in BotStatuses
  PROVE  /\ AntiBot!WithStatus(p, s) \in BotProfile
         /\ Alike(AntiBot!WithStatus(p, s), AntiBot!Profile(p))
BY ProfileStored, StatusSet DEF AntiBot!WithStatus

LEMMA ListedKeeps ==
  ASSUME BotInv, NEW p \in OfAntiBot.Players, NEW s \in BotStatuses, NEW t \in Int,
         AntiBot!Listed(p, s, t), UNCHANGED <<clock, settings, pattern, penalty, appeal>>
  PROVE  BotInv'
<1> DEFINE w == AntiBot!WithStatus(p, s)
           g == [w EXCEPT !.trust_score = t]
<1>1. w \in BotProfile /\ Alike(w, AntiBot!Profile(p))
  BY WithStatusKeeps DEF BotInv
<1>2. AntiBot!Store(p, g)
  BY DEF AntiBot!Listed
<1> HIDE DEF w
<1>3. g \in BotProfile /\ Alike(g, w)
  BY <1>1, TrustSet
<1> HIDE DEF g
<1>4. Alike(g, AntiBot!Profile(p))
  BY <1>1, <1>3, Alikes
<1> QED BY <1>2, <1>3, <1>4, StatusKeeps

\* Calls that change no profile.
LEMMA BotQuiet ==
  ASSUME BotInv, clock' \in Nat, settings' \in BotConfigs \cup {None},
         UNCHANGED <<profile, pattern, penalty, appeal>>
  PROVE  BotInv'
<1>1. /\ profile \in [OfAntiBot.Players -> BotProfile \cup {None}]
      /\ penalty \in Seq(BotPenalty) /\ appeal \in Seq(BotAppeal)
      /\ AppealsOnce(appeal) /\ GrantsLift(appeal, penalty)
  BY DEF BotInv, BotTypes
<1> QED BY <1>1, StatusesKeep

-----------------------------------------------------------------------------
\* One penalty more.
LEMMA PunishKeeps ==
  ASSUME BotInv, NEW p \in OfAntiBot.Players, NEW f \in BotProfile, Alike(f, AntiBot!Profile(p)),
         NEW type \in AntiBot!PenaltyType, NEW severity \in Nat,
         AntiBot!Punish(p, f, type, severity), UNCHANGED <<clock, settings, pattern, appeal>>
  PROVE  BotInv'
<1> DEFINE x == [player |-> p, applied_at |-> clock, expires_at |-> AntiBot!Expiry(type),
                 active |-> TRUE]
           t == IF type = "ScoreReduction"
                  THEN AntiBot!Less(f.trust_score, AntiBot!AtMost(severity * 50, 300))
                  ELSE f.trust_score
           g == [f EXCEPT !.penalty_count = f.penalty_count + 1, !.status = "Penalized",
                          !.trust_score = t]
<1>1. /\ BotTypes /\ clock \in Nat /\ settings \in BotConfigs \cup {None}
      /\ profile \in [OfAntiBot.Players -> BotProfile \cup {None}]
      /\ penalty \in Seq(BotPenalty) /\ appeal \in Seq(BotAppeal)
      /\ \A a \in 1 .. Len(appeal) : appeal[a].penalty_id \in 1 .. Len(penalty)
      /\ AppealsOnce(appeal) /\ GrantsLift(appeal, penalty)
  BY DEF BotInv, BotTypes
<1>2. settings # None /\ penalty' = Append(penalty, x)
      /\ profile' = [profile EXCEPT ![p] = g]
  BY DEF AntiBot!Punish, AntiBot!Initialized, AntiBot!Store
<1>3. x \in BotPenalty
  <2>1. settings.default_penalty \in Nat /\ OfAntiBot.MaxTime \in Nat
    BY <1>1, <1>2, AntiBotAssumption
  <2>2. AntiBot!Expiry(type) \in Int
    BY <1>1, <2>1 DEF AntiBot!Expiry, AntiBot!PenaltyType, AntiBot!Forever
  <2> QED BY <1>1, <2>2 DEF BotPenalty
<1>4. t \in Int
  <2>1. f.trust_score \in Int /\ severity * 50 \in Int
    BY DEF BotProfile
  <2>2. AntiBot!AtMost(severity * 50, 300) \in Int
    BY <2>1, AtMostInt
  <2>3. AntiBot!Less(f.trust_score, AntiBot!AtMost(severity * 50, 300)) \in Int
    BY <2>1, <2>2, AtMostInt
  <2> QED BY <2>1, <2>3
<1> HIDE DEF t
<1>5. /\ g \in BotProfile /\ g.penalty_count = f.penalty_count + 1
      /\ g.appeal_count = f.appeal_count /\ g.successful = f.successful
      /\ g.failed = f.failed /\ g.fast = f.fast
  <2>1. f.penalty_count + 1 \in Nat /\ "Penalized" \in BotStatuses
    BY DEF BotProfile, BotStatuses
  <2>2. g = [f EXCEPT !.penalty_count = f.penalty_count + 1, !.status = "Penalized",
                      !.trust_score = t]
    OBVIOUS
  <2> HIDE DEF g
  <2> DEFINE n == f.penalty_count + 1
             s == "Penalized"
  <2>3. n \in Nat /\ s \in BotStatuses /\ g = [f EXCEPT !.penalty_count = n, !.status = s,
                                                     !.trust_score = t]
    BY <2>1, <2>2
  <2> HIDE DEF n, s
  <2>4. /\ g \in BotProfile /\ g.penalty_count = n
        /\ g.appeal_count = f.appeal_count /\ g.successful = f.successful
        /\ g.failed = f.failed /\ g.fast = f.fast
    BY <1>4, <2>3 DEF BotProfile
  <2> QED BY <2>4 DEF n
<1> HIDE DEF g
<1>6. /\ penalty' \in Seq(BotPenalty) /\ Len(penalty') = Len(penalty) + 1 /\ Len(penalty) \in Nat
      /\ \A i \in 1 .. Len(penalty) : penalty'[i] = penalty[i]
  <2> HIDE DEF x
  <2> QED BY <1>1, <1>2, <1>3, Appended
<1>7. profile' \in [OfAntiBot.Players -> BotProfile \cup {None}] /\ profile'[p] = g
      /\ \A q \in OfAntiBot.Players : q # p => profile'[q] = profile[q]
  BY <1>1, <1>2, <1>5
<1>8. BotTypes'
  BY <1>1, <1>6, <1>7 DEF BotTypes
<1>9. GrantsLift(appeal', penalty')
  BY <1>1, <1>6 DEF GrantsLift
<1>10. RecordsOf(appeal', p) = RecordsOf(appeal, p)
  OBVIOUS
<1>11. \A q \in OfAntiBot.Players : q # p => RecordsOf(penalty', q) = RecordsOf(penalty, q)
  <2> SUFFICES ASSUME NEW q \in OfAntiBot.Players, q # p
               PROVE  RecordsOf(penalty', q) = RecordsOf(penalty, q)
    OBVIOUS
  <2>1. x.player # q
    OBVIOUS
  <2> HIDE DEF x
  <2> QED BY <1>1, <1>2, <1>3, <2>1, OneRecordMore
<1>12. Cardinality(RecordsOf(penalty', p)) = Cardinality(RecordsOf(penalty, p)) + 1
  <2>1. x.player = p
    OBVIOUS
  <2> HIDE DEF x
  <2> QED BY <1>1, <1>2, <1>3, <2>1, OneRecordMore
<1>13. ASSUME NEW q \in OfAntiBot.Players
       PROVE  Profiled(AntiBot!Profile(q)', q, penalty', appeal', pattern'[q])
  <2>1. CASE q # p
    BY <1>7, <1>11, <2>1, ProfiledStays
  <2>2. CASE q = p
    <3>1. AntiBot!Profile(q)' = g
      BY <1>5, <1>7, <2>2, AntiBotAssumption DEF AntiBot!Profile
    <3>2. Profiled(AntiBot!Profile(p), p, penalty, appeal, pattern[p])
      BY DEF BotInv
    <3>3. Profiled(g, p, penalty', appeal, pattern[p])
      BY <1>5, <1>12, <3>2 DEF Profiled, Alike
    <3> QED BY <2>2, <3>1, <3>3
  <2> QED BY <2>1, <2>2
<1> QED BY <1>1, <1>8, <1>9, <1>13 DEF BotInv

\* Penalties are lifted.
LEMMA LiftedKeeps ==
  ASSUME BotTypes, NEW id \in 1 .. Len(penalty)
  PROVE  /\ AntiBot!Lifted(id) \in Seq(BotPenalty) /\ Len(AntiBot!Lifted(id)) = Len(penalty)
         /\ \A i \in 1 .. Len(penalty) :
              /\ AntiBot!Lifted(id)[i].player = penalty[i].player
              /\ AntiBot!Lifted(id)[i].active => penalty[i].active
         /\ ~AntiBot!Lifted(id)[id].active
<1> DEFINE x == [penalty[id] EXCEPT !.active = FALSE]
<1>1. penalty \in Seq(BotPenalty) /\ penalty[id] \in BotPenalty
  BY DEF BotTypes
<1>2. x \in BotPenalty /\ x.player = penalty[id].player /\ x.active = FALSE
  BY <1>1 DEF BotPenalty
<1>3. AntiBot!Lifted(id) = [penalty EXCEPT ![id] = x]
  BY DEF AntiBot!Lifted
<1> HIDE DEF x
<1>4. /\ AntiBot!Lifted(id) \in Seq(BotPenalty) /\ Len(AntiBot!Lifted(id)) = Len(penalty)
      /\ AntiBot!Lifted(id)[id] = x
      /\ \A j \in 1 .. Len(penalty) : j # id => AntiBot!Lifted(id)[j] = penalty[j]
  BY <1>1, <1>2, <1>3, Replaced
<1> QED BY <1>2, <1>4

LEMMA RemovePenaltyKeeps ==
  ASSUME BotInv, NEW id, AntiBot!RemovePenalty(id)
  PROVE  BotInv'
<1> DEFINE p == penalty[id].player
           s == AntiBot!Released(p, penalty')
<1>1. BotTypes /\ penalty \in Seq(BotPenalty) /\ appeal \in Seq(BotAppeal)
      /\ profile \in [OfAntiBot.Players -> BotProfile \cup {None}]
      /\ AppealsOnce(appeal) /\ GrantsLift(appeal, penalty)
      /\ clock \in Nat /\ settings \in BotConfigs \cup {None}
      /\ \A a \in 1 .. Len(appeal) : appeal[a].penalty_id \in 1 .. Len(penalty)
  BY DEF BotInv, BotTypes
<1>2. id \in 1 .. Len(penalty) /\ penalty' = AntiBot!Lifted(id)
      /\ profile' = [profile EXCEPT ![p] = AntiBot!WithStatus(p, s)]
      /\ UNCHANGED <<clock, settings, pattern, appeal>>
  BY <1>1 DEF AntiBot!RemovePenalty, AntiBot!Store, AntiBot!lists
<1>3. p \in OfAntiBot.Players
  <2>1. penalty[id] \in BotPenalty
    BY <1>1, <1>2
  <2> QED BY <2>1 DEF BotPenalty
<1>4. s \in BotStatuses
  <2>1. AntiBot!Profile(p) \in BotProfile
    BY <1>1, <1>3, ProfileStored
  <2> QED BY <2>1 DEF AntiBot!Released, BotStatuses, BotProfile
<1> HIDE DEF p, s
<1>5. AntiBot!WithStatus(p, s) \in BotProfile /\ Alike(AntiBot!WithStatus(p, s), AntiBot!Profile(p))
  BY <1>1, <1>3, <1>4, WithStatusKeeps
<1>6. /\ penalty' \in Seq(BotPenalty) /\ Len(penalty') = Len(penalty)
      /\ \A i \in 1 .. Len(penalty) : /\ penalty'[i].player = penalty[i].player
                                      /\ penalty'[i].active => penalty[i].active
  BY <1>1, <1>2, LiftedKeeps
<1>7. GrantsLift(appeal', penalty')
  BY <1>1, <1>2, <1>6 DEF GrantsLift
<1>8. /\ profile' \in [OfAntiBot.Players -> BotProfile \cup {None}]
      /\ \A q \in OfAntiBot.Players :
            \/ profile'[q] = profile[q]
            \/ profile'[q] \in BotProfile /\ Alike(profile'[q], AntiBot!Profile(q))
  BY <1>1, <1>2, <1>3, <1>5
<1> QED BY <1>1, <1>2, <1>6, <1>7, <1>8, StatusesKeep

\* One appeal more.
LEMMA SubmitKeeps ==
  ASSUME BotInv, NEW p \in OfAntiBot.Players, NEW id, AntiBot!SubmitAppeal(p, id)
  PROVE  BotInv'
<1> DEFINE x == [player |-> p, penalty_id |-> id, status |-> "Pending"]
           w == AntiBot!WithStatus(p, "AppealPending")
           g == [w EXCEPT !.appeal_count = w.appeal_count + 1]
<1>1. /\ BotTypes /\ clock \in Nat /\ settings \in BotConfigs \cup {None}
      /\ profile \in [OfAntiBot.Players -> BotProfile \cup {None}]
      /\ penalty \in Seq(BotPenalty) /\ appeal \in Seq(BotAppeal)
      /\ \A a \in 1 .. Len(appeal) : appeal[a].penalty_id \in 1 .. Len(penalty)
      /\ AppealsOnce(appeal) /\ GrantsLift(appeal, penalty)
  BY DEF BotInv, BotTypes
<1>2. /\ id \in 1 .. Len(penalty)
      /\ \A a \in 1 .. Len(appeal) : appeal[a].penalty_id = id => appeal[a].status # "Pending"
      /\ appeal' = Append(appeal, x) /\ profile' = [profile EXCEPT ![p] = g]
      /\ UNCHANGED <<clock, settings, pattern, penalty>>
  BY <1>1 DEF AntiBot!SubmitAppeal, AntiBot!Store, AntiBot!lists
<1>3. x \in BotAppeal
  <2>1. id \in Nat
    BY <1>2
  <2> QED BY <2>1 DEF BotAppeal, AppealStatuses
<1>4. w \in BotProfile /\ Alike(w, AntiBot!Profile(p))
  <2>1. "AppealPending" \in BotStatuses
    BY DEF BotStatuses
  <2> QED BY <1>1, <2>1, WithStatusKeeps
<1> HIDE DEF w
<1>5. /\ g \in BotProfile /\ g.penalty_count = w.penalty_count
      /\ g.appeal_count = w.appeal_count + 1 /\ g.successful = w.successful
      /\ g.failed = w.failed /\ g.fast = w.fast
  <2>1. w.appeal_count + 1 \in Nat
    BY <1>4 DEF BotProfile
  <2> QED BY <1>4, <2>1 DEF BotProfile
<1> HIDE DEF g
<1>6. /\ appeal' \in Seq(BotAppeal) /\ Len(appeal') = Len(appeal) + 1 /\ Len(appeal) \in Nat
      /\ \A i \in 1 .. Len(appeal) : appeal'[i] = appeal[i]
      /\ appeal'[Len(appeal) + 1] = x
  <2> HIDE DEF x
  <2> QED BY <1>1, <1>2, <1>3, Appended
<1>7. profile' \in [OfAntiBot.Players -> BotProfile \cup {None}] /\ profile'[p] = g
      /\ \A q \in OfAntiBot.Players : q # p => profile'[q] = profile[q]
  BY <1>1, <1>2, <1>5
<1>8. x.player = p /\ x.penalty_id = id /\ x.status = "Pending"
  OBVIOUS
<1> HIDE DEF x
<1>9. \A a \in 1 .. Len(appeal') :
         \/ a \in 1 .. Len(appeal) /\ appeal'[a] = appeal[a]
         \/ a = Len(appeal) + 1 /\ appeal'[a] = x
  BY <1>6
<1>10. \A a \in 1 .. Len(appeal') : appeal'[a].penalty_id \in 1 .. Len(penalty')
  BY <1>1, <1>2, <1>8, <1>9
<1>11. BotTypes'
  BY <1>1, <1>2, <1>6, <1>7, <1>10 DEF BotTypes
<1>12. GrantsLift(appeal', penalty')
  BY <1>1, <1>2, <1>8, <1>9 DEF GrantsLift
<1>13. AppealsOnce(appeal')
  BY <1>1, <1>2, <1>8, <1>9 DEF AppealsOnce
<1>14. RecordsOf(penalty', p) = RecordsOf(penalty, p)
  BY <1>2
<1>15. \A q \in OfAntiBot.Players : q # p => RecordsOf(appeal', q) = RecordsOf(appeal, q)
  BY <1>1, <1>2, <1>3, <1>8, OneRecordMore
<1>16. Cardinality(RecordsOf(appeal', p)) = Cardinality(RecordsOf(appeal, p)) + 1
  BY <1>1, <1>2, <1>3, <1>8, OneRecordMore
<1>17. ASSUME NEW q \in OfAntiBot.Players
       PROVE  Profiled(AntiBot!Profile(q)', q, penalty', appeal', pattern'[q])
  <2>1. CASE q # p
    BY <1>2, <1>7, <1>15, <2>1, ProfiledStays
  <2>2. CASE q = p
    <3>1. AntiBot!Profile(q)' = g
      BY <1>5, <1>7, <2>2, AntiBotAssumption DEF AntiBot!Profile
    <3>2. Profiled(AntiBot!Profile(p), p, penalty, appeal, pattern[p])
      BY DEF BotInv
    <3>3. Profiled(g, p, penalty', appeal', pattern[p])
      BY <1>4, <1>5, <1>14, <1>16, <3>2 DEF Profiled, Alike
    <3> QED BY <1>2, <2>2, <3>1, <3>3
  <2> QED BY <2>1, <2>2
<1> QED BY <1>11, <1>12, <1>13, <1>17 DEF BotInv

LEMMA ReviewKeeps ==
  ASSUME BotInv, NEW a, NEW approved \in BOOLEAN, AntiBot!ReviewAppeal(a, approved)
  PROVE  BotInv'
<1> DEFINE p == appeal[a].player
           id == appeal[a].penalty_id
           o == penalty[id].player
           mine == IF approved \/ AntiBot!Active(penalty, p) = {} THEN "Verified" ELSE "Penalized"
           w == AntiBot!WithStatus(p, mine)
           t == IF approved THEN AntiBot!AtMost(w.trust_score + 100, 1000) ELSE w.trust_score
           f == [w EXCEPT !.trust_score = t]
           z == IF approved THEN "Approved" ELSE "Rejected"
           x == [appeal[a] EXCEPT !.status = z]
           g == AntiBot!WithStatus(o, AntiBot!Released(o, penalty'))
<1>1. BotTypes /\ penalty \in Seq(BotPenalty) /\ appeal \in Seq(BotAppeal)
      /\ profile \in [OfAntiBot.Players -> BotProfile \cup {None}]
      /\ AppealsOnce(appeal) /\ GrantsLift(appeal, penalty)
      /\ clock \in Nat /\ settings \in BotConfigs \cup {None}
      /\ \A b \in 1 .. Len(appeal) : appeal[b].penalty_id \in 1 .. Len(penalty)
  BY DEF BotInv, BotTypes
<1>2. /\ a \in 1 .. Len(appeal) /\ appeal[a].status = "Pending"
      /\ appeal' = [appeal EXCEPT ![a] = x]
      /\ penalty' = IF approved THEN AntiBot!Lifted(id) ELSE penalty
      /\ profile' = IF approved THEN [profile EXCEPT ![o] = g, ![p] = f]
                                ELSE [profile EXCEPT ![p] = f]
      /\ UNCHANGED <<clock, settings, pattern>>
  BY <1>1 DEF AntiBot!ReviewAppeal, AntiBot!lists
<1>3. appeal[a] \in BotAppeal /\ id \in 1 .. Len(penalty)
  BY <1>1, <1>2
<1>4. p \in OfAntiBot.Players /\ o \in OfAntiBot.Players
  <2>1. penalty[id] \in BotPenalty
    BY <1>1, <1>3
  <2> QED BY <1>3, <2>1 DEF BotAppeal, BotPenalty
<1>5. /\ x \in BotAppeal /\ x.player = p /\ x.penalty_id = id /\ x.status = z
      /\ z # "Pending" /\ (z = "Approved" => approved)
  BY <1>3 DEF BotAppeal, AppealStatuses
<1> HIDE DEF x
<1>6. /\ appeal' \in Seq(BotAppeal) /\ Len(appeal') = Len(appeal) /\ appeal'[a] = x
      /\ \A b \in 1 .. Len(appeal) : b # a => appeal'[b] = appeal[b]
  BY <1>1, <1>2, <1>5, Replaced
<1>7. \A b \in 1 .. Len(appeal) :
         /\ appeal'[b].player = appeal[b].player
         /\ appeal'[b].penalty_id = appeal[b].penalty_id
         /\ appeal'[b].status = "Pending" => appeal[b].status = "Pending"
         /\ b # a => appeal'[b].status = appeal[b].status
  <2> SUFFICES ASSUME NEW b \in 1 .. Len(appeal)
               PROVE  /\ appeal'[b].player = appeal[b].player
                      /\ appeal'[b].penalty_id = appeal[b].penalty_id
                      /\ appeal'[b].status = "Pending" => appeal[b].status = "Pending"
                      /\ b # a => appeal'[b].status = appeal[b].status
    OBVIOUS
  <2>1. CASE b = a
    BY <1>5, <1>6, <2>1
  <2>2. CASE b # a
    BY <1>6, <2>2
  <2> QED BY <2>1, <2>2
<1>8. /\ penalty' \in Seq(BotPenalty) /\ Len(penalty') = Len(penalty)
      /\ \A i \in 1 .. Len(penalty) : /\ penalty'[i].player = penalty[i].player
                                      /\ penalty'[i].active => penalty[i].active
      /\ approved => ~penalty'[id].active
  <2> HIDE DEF id
  <2> QED BY <1>1, <1>2, <1>3, LiftedKeeps
<1>9. AppealsOnce(appeal')
  <2> SUFFICES ASSUME NEW b \in 1 .. Len(appeal), NEW c \in 1 .. Len(appeal),
                      appeal'[b].penalty_id = appeal'[c].penalty_id,
                      appeal'[b].status = "Pending", b # c
               PROVE  appeal'[c].status # "Pending"
    BY <1>6 DEF AppealsOnce
  <2>1. appeal[b].penalty_id = appeal[c].penalty_id /\ appeal[b].status = "Pending"
    BY <1>7
  <2>2. appeal[c].status # "Pending"
    BY <1>1, <2>1 DEF AppealsOnce
  <2> QED BY <1>7, <2>2
<1>10. GrantsLift(appeal', penalty')
  <2> SUFFICES ASSUME NEW b \in 1 .. Len(appeal), appeal'[b].status = "Approved"
               PROVE  ~penalty'[appeal'[b].penalty_id].active
    BY <1>6 DEF GrantsLift
  <2>1. CASE b = a
    BY <1>5, <1>6, <1>8, <2>1
  <2>2. CASE b # a
    <3>1. ~penalty[appeal[b].penalty_id].active /\ appeal[b].penalty_id \in 1 .. Len(penalty)
      BY <1>1, <1>7, <2>2 DEF GrantsLift
    <3> QED BY <1>7, <1>8, <3>1
  <2> QED BY <2>1, <2>2
<1>11. mine \in BotStatuses
  BY DEF BotStatuses
<1> HIDE DEF p, o, mine
<1>12. w \in BotProfile /\ Alike(w, AntiBot!Profile(p))
  BY <1>1, <1>4, <1>11, WithStatusKeeps
<1> HIDE DEF w
<1>13. t \in Int
  <2>1. w.trust_score \in Int /\ w.trust_score + 100 \in Int /\ 1000 \in Int
    BY <1>12 DEF BotProfile
  <2> DEFINE v == w.trust_score + 100
  <2>2. AntiBot!AtMost(v, 1000) \in Int
    <3>1. v \in Int /\ 1000 \in Int
      BY <2>1
    <3> HIDE DEF v
    <3> QED BY <3>1, AtMostInt
  <2> QED BY <2>1, <2>2
<1> HIDE DEF t
<1>14. f \in BotProfile /\ Alike(f, w)
  BY <1>12, <1>13, TrustSet
<1> HIDE DEF f
<1>15. Alike(f, AntiBot!Profile(p))
  BY <1>12, <1>14, Alikes
<1>16. g \in BotProfile /\ Alike(g, AntiBot!Profile(o))
  <2>1. AntiBot!Profile(o) \in BotProfile
    BY <1>1, <1>4, ProfileStored
  <2>2. AntiBot!Released(o, penalty') \in BotStatuses
    BY <2>1 DEF AntiBot!Released, BotStatuses, BotProfile
  <2> QED BY <1>1, <1>4, <2>2, WithStatusKeeps
<1> HIDE DEF g
<1>17. /\ profile' \in [OfAntiBot.Players -> BotProfile \cup {None}]
       /\ \A q \in OfAntiBot.Players :
            \/ profile'[q] = profile[q]
            \/ profile'[q] \in BotProfile /\ Alike(profile'[q], AntiBot!Profile(q))
  BY <1>1, <1>2, <1>4, <1>14, <1>15, <1>16
<1> QED BY <1>1, <1>2, <1>6, <1>7, <1>8, <1>9, <1>10, <1>17, StatusesKeep

-----------------------------------------------------------------------------
\* One attempt more: update_behavioral_pattern keeps the times of the last ones.
LEMMA PatternTimes ==
  ASSUME BotTypes, settings # None, NEW p \in OfAntiBot.Players, NEW gas
  PROVE  LET q == AntiBot!Pattern(p, gas)
         IN /\ q.times \in Seq(Nat) /\ "times" \in DOMAIN q
            /\ Len(q.times) <= Len(pattern[p].times) + 1
<1> DEFINE all == Append(pattern[p].times, clock)
           m == AntiBot!AtMost(Len(all), settings.pattern_window)
           times == SubSeq(all, Len(all) - m + 1, Len(all))
           gaps == AntiBot!Intervals(times)
           squares == [i \in DOMAIN gaps |-> (gaps[i] - AntiBot!Average(gaps))
                                               * (gaps[i] - AntiBot!Average(gaps))]
           v == AntiBot!AtMost(AntiBot!Average(squares), 1000000) \div 1000
           g == CASE gas = "none" -> pattern[p].gas [] gas = "round" -> 900
                  [] gas = "uneven" -> 400
<1>1. /\ pattern[p].times \in Seq(Nat) /\ "times" \in DOMAIN pattern[p] /\ clock \in Nat
      /\ settings.pattern_window \in Nat
  BY AntiBotAssumption DEF BotTypes
<1>2. AntiBot!Pattern(p, gas) = IF Len(times) < 3 THEN [pattern[p] EXCEPT !.times = times]
                                ELSE [times |-> times, variance |-> v, gas |-> g]
  BY DEF AntiBot!Pattern
<1> HIDE DEF v, g
<1>3. all \in Seq(Nat) /\ Len(all) = Len(pattern[p].times) + 1
  BY <1>1, Appended
<1> HIDE DEF all
<1>4. m \in 0 .. Len(all) /\ Len(all) \in Nat
  BY <1>1, <1>3 DEF AntiBot!AtMost
<1> HIDE DEF m
<1>5. times \in Seq(Nat) /\ Len(times) <= Len(all)
  <2> DEFINE lo == Len(all) - m + 1
  <2>1. lo \in 1 .. Len(all) + 1 /\ lo \in Nat
    BY <1>4
  <2> HIDE DEF lo
  <2>2. SubSeq(all, lo, Len(all)) \in Seq(Nat) /\ Len(SubSeq(all, lo, Len(all))) <= Len(all)
    BY <1>3, <1>4, <2>1
  <2> QED BY <2>2 DEF lo
<1> HIDE DEF times
<1>6. CASE Len(times) < 3
  <2>1. /\ [pattern[p] EXCEPT !.times = times].times = times
        /\ "times" \in DOMAIN [pattern[p] EXCEPT !.times = times]
    BY <1>1
  <2> QED BY <1>2, <1>3, <1>5, <1>6, <2>1
<1>7. CASE ~(Len(times) < 3)
  BY <1>2, <1>3, <1>5, <1>7
<1> QED BY <1>6, <1>7

LEMMA ActivityKeeps ==
  ASSUME BotInv, NEW p \in OfAntiBot.Players, NEW t, NEW gas, NEW ok \in BOOLEAN,
         AntiBot!RecordActivity(p, t, gas, ok)
  PROVE  BotInv'
<1> DEFINE f == AntiBot!Profile(p)
           c == AntiBot!Counted(p, t, ok)
           q == AntiBot!Pattern(p, gas)
           g == AntiBot!Trusted(c, q)
<1>1. /\ BotTypes /\ clock \in Nat /\ settings \in BotConfigs \cup {None}
      /\ profile \in [OfAntiBot.Players -> BotProfile \cup {None}]
      /\ DOMAIN pattern = OfAntiBot.Players
      /\ AppealsOnce(appeal) /\ GrantsLift(appeal, penalty)
      /\ Profiled(f, p, penalty, appeal, pattern[p]) /\ pattern[p].times \in Seq(Nat)
  BY DEF BotInv, BotTypes
<1>2. /\ settings # None /\ profile' = [profile EXCEPT ![p] = g]
      /\ pattern' = [pattern EXCEPT ![p] = q]
      /\ UNCHANGED <<clock, settings, penalty, appeal>>
  BY DEF AntiBot!RecordActivity, AntiBot!Store, AntiBot!Initialized, AntiBot!lists
<1>3. f \in BotProfile
  BY <1>1, ProfileStored
<1>4. /\ c \in BotProfile /\ c.penalty_count = f.penalty_count /\ c.appeal_count = f.appeal_count
      /\ c.successful + c.failed = f.successful + f.failed + 1 /\ c.fast <= c.successful
  <2>1. /\ f.successful \in Nat /\ f.failed \in Nat /\ f.fast \in Nat /\ f.fast <= f.successful
    BY <1>1, <1>3 DEF BotProfile, Profiled
  <2>2. c = [f EXCEPT !.successful = IF ok THEN f.successful + 1 ELSE f.successful,
                      !.failed = IF ok THEN f.failed ELSE f.failed + 1,
                      !.fast = IF ok /\ t < settings.min_solve_time THEN f.fast + 1 ELSE 0]
    BY DEF AntiBot!Counted
  <2> HIDE DEF f, c
  <2> DEFINE x == IF ok THEN f.successful + 1 ELSE f.successful
             y == IF ok THEN f.failed ELSE f.failed + 1
             v == IF ok /\ t < settings.min_solve_time THEN f.fast + 1 ELSE 0
  <2>3. x \in Nat /\ y \in Nat /\ v \in Nat /\ v <= x /\ x + y = f.successful + f.failed + 1
    <3>1. x \in Nat /\ y \in Nat /\ x + y = f.successful + f.failed + 1
      BY <2>1
    <3>2. CASE v = 0
      BY <3>1, <3>2
    <3>3. CASE v # 0
      <4>1. ok /\ v = f.fast + 1
        BY <3>3
      <4> QED BY <2>1, <3>1, <4>1
    <3> QED BY <3>2, <3>3
  <2>4. c = [f EXCEPT !.successful = x, !.failed = y, !.fast = v]
    BY <2>2
  <2> HIDE DEF x, y, v
  <2>5. /\ c \in BotProfile /\ c.penalty_count = f.penalty_count
        /\ c.appeal_count = f.appeal_count
        /\ c.successful = x /\ c.failed = y /\ c.fast = v
    BY <1>3, <2>3, <2>4 DEF BotProfile
  <2> QED BY <2>3, <2>5
<1>5. /\ q.times \in Seq(Nat) /\ "times" \in DOMAIN q /\ Len(q.times) <= Len(pattern[p].times) + 1
  BY <1>1, <1>2, PatternTimes
<1> HIDE DEF q, c
<1>6. g \in BotProfile /\ Alike(g, c)
  BY <1>1, <1>4, TrustedProfile
<1> HIDE DEF g
<1>7. /\ profile' \in [OfAntiBot.Players -> BotProfile \cup {None}] /\ profile'[p] = g
      /\ \A u \in OfAntiBot.Players : u # p => profile'[u] = profile[u]
  BY <1>1, <1>2, <1>6
<1>8. /\ DOMAIN pattern' = OfAntiBot.Players /\ pattern'[p] = q
      /\ \A u \in OfAntiBot.Players : u # p => pattern'[u] = pattern[u]
  BY <1>1, <1>2
<1>9. BotTypes'
  <2>1. \A u \in OfAntiBot.Players : pattern'[u].times \in Seq(Nat) /\ "times" \in DOMAIN pattern'[u]
    BY <1>1, <1>5, <1>8 DEF BotTypes
  <2> QED BY <1>1, <1>2, <1>7, <1>8, <2>1 DEF BotTypes
<1>10. ASSUME NEW u \in OfAntiBot.Players
       PROVE  Profiled(AntiBot!Profile(u)', u, penalty', appeal', pattern'[u])
  <2>1. CASE u # p
    BY <1>2, <1>7, <1>8, <2>1, ProfiledStays
  <2>2. CASE u = p
    <3>1. AntiBot!Profile(u)' = g
      BY <1>6, <1>7, <2>2, AntiBotAssumption DEF AntiBot!Profile
    <3>2. g.successful + g.failed >= Len(q.times)
      <4>1. /\ f.successful \in Nat /\ f.failed \in Nat /\ Len(q.times) \in Nat
            /\ Len(pattern[p].times) \in Nat /\ f.successful + f.failed >= Len(pattern[p].times)
        BY <1>1, <1>3, <1>5 DEF BotProfile, Profiled
      <4>2. g.successful + g.failed = f.successful + f.failed + 1
        BY <1>4, <1>6 DEF Alike
      <4> HIDE DEF f
      <4> QED BY <1>5, <4>1, <4>2
    <3>3. Profiled(g, p, penalty, appeal, q)
      BY <1>1, <1>4, <1>6, <3>2 DEF Profiled, Alike
    <3> QED BY <1>2, <1>8, <2>2, <3>1, <3>3
  <2> QED BY <2>1, <2>2
<1>11. AppealsOnce(appeal') /\ GrantsLift(appeal', penalty')
  BY <1>1, <1>2
<1> QED BY <1>9, <1>10, <1>11 DEF BotInv

-----------------------------------------------------------------------------
\* The other calls.
LEMMA ProofKeeps ==
  ASSUME BotInv, NEW p \in OfAntiBot.Players, NEW id, NEW verified \in BOOLEAN,
         AntiBot!VerifyProof(p, id, verified)
  PROVE  BotInv'
<1>1. BotTypes /\ UNCHANGED <<clock, settings, pattern, penalty, appeal>>
  BY DEF AntiBot!VerifyProof, AntiBot!lists, BotInv
<1>2. CASE verified
  <2>1. "Verified" \in BotStatuses
    BY DEF BotStatuses
  <2>2. /\ AntiBot!WithStatus(p, "Verified") \in BotProfile
        /\ Alike(AntiBot!WithStatus(p, "Verified"), AntiBot!Profile(p))
    BY <1>1, <2>1, WithStatusKeeps
  <2>3. AntiBot!Store(p, AntiBot!WithStatus(p, "Verified"))
    BY <1>2 DEF AntiBot!VerifyProof
  <2> QED BY <1>1, <2>2, <2>3, StatusKeeps
<1>3. CASE ~verified
  <2>1. AntiBot!Report(p, AntiBot!Profile(p), 5)
    BY <1>3 DEF AntiBot!VerifyProof
  <2>2. AntiBot!Profile(p) \in BotProfile /\ Alike(AntiBot!Profile(p), AntiBot!Profile(p))
    BY <1>1, ProfileStored DEF Alike
  <2> QED BY <1>1, <2>1, <2>2, SuspicionKeeps
<1> QED BY <1>2, <1>3

LEMMA SubmissionKeeps ==
  ASSUME BotInv, NEW p \in OfAntiBot.Players, NEW z, NEW t, AntiBot!ValidateSubmissionTime(p, z, t)
  PROVE  BotInv'
<1>1. BotTypes /\ UNCHANGED <<clock, settings, pattern, penalty, appeal>>
      /\ (AntiBot!Report(p, AntiBot!Profile(p), 7) \/ UNCHANGED profile)
  BY DEF AntiBot!ValidateSubmissionTime, AntiBot!lists, BotInv
<1>2. clock' \in Nat /\ settings' \in BotConfigs \cup {None}
  BY <1>1 DEF BotTypes
<1>3. AntiBot!Profile(p) \in BotProfile /\ Alike(AntiBot!Profile(p), AntiBot!Profile(p))
  BY <1>1, ProfileStored DEF Alike
<1> QED BY <1>1, <1>2, <1>3, SuspicionKeeps, BotQuiet

LEMMA VerifyKeeps ==
  ASSUME BotInv, NEW p \in OfAntiBot.Players, NEW z, NEW t, AntiBot!VerifyPlayer(p, z, t)
  PROVE  BotInv'
<1>1. /\ BotTypes /\ UNCHANGED <<clock, settings, pattern, appeal>>
      /\ \/ AntiBot!Report(p, AntiBot!Profile(p), 7) /\ UNCHANGED penalty
         \/ AntiBot!Punish(p, AntiBot!Profile(p), "TemporaryBan", 7)
         \/ AntiBot!Store(p, AntiBot!Profile(p)) /\ UNCHANGED penalty
  BY DEF AntiBot!VerifyPlayer, BotInv
<1>2. AntiBot!Profile(p) \in BotProfile /\ Alike(AntiBot!Profile(p), AntiBot!Profile(p))
  BY <1>1, ProfileStored DEF Alike
<1>3. "TemporaryBan" \in AntiBot!PenaltyType /\ 7 \in Nat
  BY DEF AntiBot!PenaltyType
<1> QED BY <1>1, <1>2, <1>3, SuspicionKeeps, PunishKeeps, StatusKeeps

LEMMA PenaltyKeeps ==
  ASSUME BotInv, NEW p \in OfAntiBot.Players, NEW type \in AntiBot!PenaltyType,
         NEW s \in OfAntiBot.Severities, AntiBot!ApplyPenalty(p, type, s)
  PROVE  BotInv'
<1>1. AntiBot!Profile(p) \in BotProfile /\ Alike(AntiBot!Profile(p), AntiBot!Profile(p))
  BY ProfileStored DEF Alike, BotInv
<1>2. s \in Nat
  BY AntiBotAssumption
<1>3. AntiBot!Punish(p, AntiBot!Profile(p), type, s) /\ UNCHANGED <<clock, settings, pattern, appeal>>
  BY DEF AntiBot!ApplyPenalty
<1> QED BY <1>1, <1>2, <1>3, PunishKeeps

LEMMA BotListKeeps ==
  ASSUME BotInv, NEW p \in OfAntiBot.Players,
         \/ AntiBot!UnflagPlayer(p) \/ AntiBot!BlacklistPlayer(p) \/ AntiBot!RemoveBlacklist(p)
         \/ AntiBot!LookUp(p) \/ \E on \in BOOLEAN : AntiBot!WhitelistPlayer(p, on)
         \/ \E s \in OfAntiBot.Severities : AntiBot!FlagPlayer(p, s)
  PROVE  BotInv'
<1> DEFINE f == AntiBot!Profile(p)
<1>1. BotTypes /\ f \in BotProfile /\ Alike(f, f)
  BY ProfileStored DEF BotInv, Alike
<1>2. {"Verified", "Flagged", "Whitelisted"} \subseteq BotStatuses
  BY DEF BotStatuses
<1>3. CASE AntiBot!UnflagPlayer(p)
  <2>1. AntiBot!Store(p, AntiBot!WithStatus(p, "Verified"))
        /\ UNCHANGED <<clock, settings, pattern, penalty, appeal>>
    BY <1>3 DEF AntiBot!UnflagPlayer, AntiBot!records
  <2>2. /\ AntiBot!WithStatus(p, "Verified") \in BotProfile
        /\ Alike(AntiBot!WithStatus(p, "Verified"), AntiBot!Profile(p))
    BY <1>1, <1>2, WithStatusKeeps
  <2> QED BY <2>1, <2>2, StatusKeeps
<1>4. CASE AntiBot!BlacklistPlayer(p)
  <2> DEFINE g == [f EXCEPT !.trust_score = 0]
  <2>1. AntiBot!Punish(p, g, "PermanentBan", 10) /\ UNCHANGED <<clock, settings, pattern, appeal>>
    BY <1>4 DEF AntiBot!BlacklistPlayer
  <2>2. "PermanentBan" \in AntiBot!PenaltyType /\ 10 \in Nat
    BY DEF AntiBot!PenaltyType
  <2>3. g \in BotProfile /\ Alike(g, f)
    <3> HIDE DEF f
    <3>1. 0 \in Int
      OBVIOUS
    <3> QED BY <1>1, <3>1, TrustSet
  <2> HIDE DEF g
  <2> QED BY <2>1, <2>2, <2>3, PunishKeeps
<1>5. CASE AntiBot!RemoveBlacklist(p)
  <2>1. AntiBot!Listed(p, "Verified", 300) /\ UNCHANGED <<clock, settings, pattern, penalty, appeal>>
    BY <1>5 DEF AntiBot!RemoveBlacklist, AntiBot!records
  <2>2. 300 \in Int
    OBVIOUS
  <2> QED BY <1>2, <2>1, <2>2, ListedKeeps
<1>6. CASE AntiBot!LookUp(p)
  <2>1. AntiBot!Store(p, f) /\ UNCHANGED <<clock, settings, pattern, penalty, appeal>>
    BY <1>6 DEF AntiBot!LookUp, AntiBot!records
  <2> HIDE DEF f
  <2> QED BY <1>1, <2>1, StatusKeeps DEF f
<1>7. ASSUME NEW on \in BOOLEAN, AntiBot!WhitelistPlayer(p, on) PROVE BotInv'
  <2>1. (AntiBot!Listed(p, "Whitelisted", 1000) \/ AntiBot!Listed(p, "Verified", 800))
        /\ UNCHANGED <<clock, settings, pattern, penalty, appeal>>
    BY <1>7 DEF AntiBot!WhitelistPlayer, AntiBot!records
  <2>2. 1000 \in Int /\ 800 \in Int
    OBVIOUS
  <2> QED BY <1>2, <2>1, <2>2, ListedKeeps
<1>8. ASSUME NEW s \in OfAntiBot.Severities, AntiBot!FlagPlayer(p, s) PROVE BotInv'
  <2>1. AntiBot!Report(p, AntiBot!WithStatus(p, "Flagged"), s)
        /\ UNCHANGED <<clock, settings, pattern, penalty, appeal>>
    BY <1>8 DEF AntiBot!FlagPlayer, AntiBot!lists
  <2>2. /\ AntiBot!WithStatus(p, "Flagged") \in BotProfile
        /\ Alike(AntiBot!WithStatus(p, "Flagged"), AntiBot!Profile(p))
    BY <1>1, <1>2, WithStatusKeeps
  <2> QED BY <2>1, <2>2, SuspicionKeeps
<1> QED BY <1>3, <1>4, <1>5, <1>6, <1>7, <1>8

LEMMA AntiBotStep == ASSUME BotInv, AntiBot!Next PROVE BotInv'
<1>1. clock \in Nat /\ settings \in BotConfigs \cup {None} /\ OfAntiBot.TimeSteps \subseteq Nat
  BY AntiBotAssumption DEF BotInv, BotTypes
<1>2. CASE AntiBot!Initialize
  <2>1. settings' \in BotConfigs /\ UNCHANGED <<clock, profile, pattern, penalty, appeal>>
    BY <1>2 DEF AntiBot!Initialize, AntiBot!records, BotConfigs
  <2> QED BY <1>1, <2>1, BotQuiet
<1>3. CASE AntiBot!GenerateChallenge
  <2>1. UNCHANGED <<clock, settings, profile, pattern, penalty, appeal>>
    BY <1>3 DEF AntiBot!GenerateChallenge
  <2> QED BY <1>1, <2>1, BotQuiet
<1>4. ASSUME NEW p \in OfAntiBot.Players, AntiBot!CheckRateLimit(p) PROVE BotInv'
  <2>1. UNCHANGED <<clock, settings, profile, pattern, penalty, appeal>>
    BY <1>4 DEF AntiBot!CheckRateLimit
  <2> QED BY <1>1, <2>1, BotQuiet
<1>5. ASSUME NEW z, NEW w, AntiBot!SetTimeWindow(z, w) PROVE BotInv'
  <2>1. UNCHANGED <<clock, settings, profile, pattern, penalty, appeal>>
    BY <1>5 DEF AntiBot!SetTimeWindow
  <2> QED BY <1>1, <2>1, BotQuiet
<1>6. ASSUME NEW c \in OfAntiBot.Configs, AntiBot!UpdateConfig(c) PROVE BotInv'
  <2>1. settings' \in BotConfigs /\ UNCHANGED <<clock, profile, pattern, penalty, appeal>>
    BY <1>6 DEF AntiBot!UpdateConfig, AntiBot!records, BotConfigs
  <2> QED BY <1>1, <2>1, BotQuiet
<1>7. ASSUME NEW d \in OfAntiBot.TimeSteps, AntiBot!Tick(d) PROVE BotInv'
  <2>1. clock' = clock + d /\ UNCHANGED <<settings, profile, pattern, penalty, appeal>>
    BY <1>7 DEF AntiBot!Tick, AntiBot!records
  <2>2. clock' \in Nat
    BY <1>1, <2>1
  <2> QED BY <1>1, <2>1, <2>2, BotQuiet
<1> QED BY <1>2, <1>3, <1>4, <1>5, <1>6, <1>7, ProofKeeps, SubmissionKeeps, VerifyKeeps, PenaltyKeeps,
           BotListKeeps, ActivityKeeps, SubmitKeeps, ReviewKeeps, RemovePenaltyKeeps
        DEF AntiBot!Next

LEMMA AntiBotStays == ASSUME BotInv, UNCHANGED AntiBot!vars PROVE BotInv'
BY BotQuiet DEF AntiBot!vars, BotInv, BotTypes

LEMMA AntiBotInit == ASSUME AntiBot!Init PROVE BotInv
<1>1. /\ clock = 0 /\ settings = None /\ profile = [p \in OfAntiBot.Players |-> None]
      /\ pattern = [p \in OfAntiBot.Players |-> [times |-> <<>>, variance |-> 500, gas |-> 500]]
      /\ penalty = <<>> /\ appeal = <<>>
  BY DEF AntiBot!Init
<1>2. BotTypes
  <2>1. \A p \in OfAntiBot.Players : pattern[p].times \in Seq(Nat) /\ "times" \in DOMAIN pattern[p]
    BY <1>1
  <2> QED BY <1>1, <2>1 DEF BotTypes
<1>3. AppealsOnce(appeal) /\ GrantsLift(appeal, penalty)
  BY <1>1 DEF AppealsOnce, GrantsLift
<1>4. ASSUME NEW p \in OfAntiBot.Players PROVE Profiled(AntiBot!Profile(p), p, penalty, appeal, pattern[p])
  <2>1. /\ AntiBot!Profile(p).penalty_count = 0 /\ AntiBot!Profile(p).appeal_count = 0
        /\ AntiBot!Profile(p).successful = 0 /\ AntiBot!Profile(p).failed = 0
        /\ AntiBot!Profile(p).fast = 0
    BY <1>1 DEF AntiBot!Profile
  <2>2. RecordsOf(penalty, p) = {} /\ RecordsOf(appeal, p) = {} /\ Len(pattern[p].times) = 0
    BY <1>1 DEF RecordsOf
  <2> QED BY <2>1, <2>2, FS_EmptySet DEF Profiled
<1> QED BY <1>2, <1>3, <1>4 DEF BotInv

LEMMA AntiBotSays == ASSUME BotInv PROVE AntiBot!ProfilesAgree
<1>1. /\ DOMAIN penalty = 1 .. Len(penalty) /\ DOMAIN appeal = 1 .. Len(appeal)
      /\ AppealsOnce(appeal) /\ GrantsLift(appeal, penalty)
  BY DEF BotInv, BotTypes
<1>2. \A S : AntiBot!Cardinality(S) = Cardinality(S)
  BY DEF AntiBot!Cardinality, Cardinality
<1>3. ASSUME NEW p \in OfAntiBot.Players
      PROVE  LET f == AntiBot!Profile(p)
             IN /\ f.penalty_count
                     = AntiBot!Cardinality({i \in DOMAIN penalty : penalty[i].player = p})
                /\ f.appeal_count
                     = AntiBot!Cardinality({a \in DOMAIN appeal : appeal[a].player = p})
                /\ f.successful + f.failed >= Len(pattern[p].times)
                /\ f.fast <= f.successful
  <2>1. Profiled(AntiBot!Profile(p), p, penalty, appeal, pattern[p])
    BY DEF BotInv
  <2>2. /\ RecordsOf(penalty, p) = {i \in DOMAIN penalty : penalty[i].player = p}
        /\ RecordsOf(appeal, p) = {a \in DOMAIN appeal : appeal[a].player = p}
    BY <1>1 DEF RecordsOf
  <2> QED BY <1>2, <2>1, <2>2 DEF Profiled
<1> QED BY <1>1, <1>3 DEF AntiBot!ProfilesAgree, AppealsOnce, GrantsLift

-----------------------------------------------------------------------------
(***************************************************************************)
(* Proofs: the versions of tokens with metadata that change.               *)
(***************************************************************************)
TraitKeys ==
  OfDynamicMetadata.Traits \cup {r.trait : r \in OfDynamicMetadata.TraitRules}
    \cup {r.trait : r \in OfDynamicMetadata.TriggerRules}

Numbers == UNION {[d -> Nat] : d \in SUBSET TraitKeys}

Metadata ==
  [owner : OfDynamicMetadata.Owners, content : OfDynamicMetadata.Contents,
   string_traits : SUBSET TraitKeys, numeric_traits : Numbers, level : Nat, rarity : Nat,
   performance_score : Nat, schema_version : Int, updated_at : Nat, frozen : BOOLEAN]

Image == [base : OfDynamicMetadata.BaseUris, level : Nat, rarity : Nat]
TokenEvent == {"Mint", "Transfer", "Burn"} \X OfDynamicMetadata.Owners
MetadataSettings == [image_base_uri : OfDynamicMetadata.BaseUris, schema_version : Int]

\* Rules have one of the known actions, and values and levels are numbers.
ASSUME DynamicMetadataAssumption ==
  /\ OfDynamicMetadata.Values \subseteq Nat
  /\ \A r \in OfDynamicMetadata.TraitRules : r.target_level \in Nat /\ r.new_rarity \in Nat
  /\ \A r \in OfDynamicMetadata.TriggerRules :
       \/ r.action = "add_trait"
       \/ r.action \in {"add_numeric_trait", "bump_level"} /\ r.value \in Nat
  /\ None \notin Image /\ None \notin MetadataSettings

\* The metadata m of a token agrees with its versions, events and cached image.
Agreed(m, vs, es, c) ==
  /\ m \in Metadata
  /\ vs \in Seq(Metadata) /\ Len(vs) > 0
  /\ [vs[Len(vs)] EXCEPT !.performance_score = m.performance_score] = m
  /\ es \in Seq(TokenEvent) /\ Len(es) > 0 /\ es[Len(es)][2] = m.owner
  /\ c \in Image \cup {None} /\ (c # None => c.level = m.level /\ c.rarity = m.rarity)

MetadataTypes ==
  /\ clock \in Nat
  /\ settings \in MetadataSettings \cup {None}
  /\ Len(token) > 0 => settings # None
  /\ token \in Seq(Metadata) /\ versions \in Seq(Seq(Metadata)) /\ log \in Seq(Seq(TokenEvent))
  /\ image \in Seq(Image \cup {None}) /\ metric \in Seq([OfDynamicMetadata.Metrics -> Nat])
  /\ Len(versions) = Len(token) /\ Len(log) = Len(token)
  /\ Len(image) = Len(token) /\ Len(metric) = Len(token)
  /\ traitRule \in Seq(OfDynamicMetadata.TraitRules \cup {None})
  /\ triggerRule \in Seq(OfDynamicMetadata.TriggerRules \cup {None})

MetadataInv ==
  /\ MetadataTypes
  /\ \A id \in 1 .. Len(token) : Agreed(token[id], versions[id], log[id], image[id])

\* Sequences of at most one element, joined.
LEMMA TraitsJoined ==
  ASSUME NEW S, NEW a \in S, NEW b \in S, NEW v \in Seq(S)
  PROVE  /\ <<>> \o <<b>> = <<b>> /\ <<a>> \o <<>> = <<a>> /\ <<a>> \o <<b>> = Append(<<a>>, b)
         /\ <<>> \o <<>> = <<>> /\ v \o <<>> = v
<1>1. <<>> \o <<b>> = <<b>> /\ <<a>> \o <<>> = <<a>>
  OBVIOUS
<1>2. <<a>> \o <<b>> = Append(<<a>>, b)
  OBVIOUS
<1>3. <<>> \o <<>> = <<>>
  OBVIOUS
<1>4. v \o <<>> = v
  OBVIOUS
<1> QED BY <1>1, <1>2, <1>3, <1>4

\* The storage of one token changes.
LEMMA TokenChanges ==
  ASSUME MetadataInv, NEW id \in 1 .. Len(token), NEW m, NEW vs, NEW es, NEW c,
         Agreed(m, vs, es, c),
         token' = [token EXCEPT ![id] = m], versions' = [versions EXCEPT ![id] = vs],
         log' = [log EXCEPT ![id] = es], image' = [image EXCEPT ![id] = c],
         metric' \in Seq([OfDynamicMetadata.Metrics -> Nat]), Len(metric') = Len(metric),
         UNCHANGED <<clock, settings, traitRule, triggerRule>>
  PROVE  MetadataInv'
<1> DEFINE n == Len(token)
<1>1. /\ m \in Metadata /\ vs \in Seq(Metadata) /\ es \in Seq(TokenEvent) /\ c \in Image \cup {None}
      /\ n \in Nat /\ token \in Seq(Metadata) /\ versions \in Seq(Seq(Metadata))
      /\ log \in Seq(Seq(TokenEvent)) /\ image \in Seq(Image \cup {None})
      /\ Len(versions) = n /\ Len(log) = n /\ Len(image) = n
  BY DEF Agreed, MetadataInv, MetadataTypes
<1>2. /\ token' \in Seq(Metadata) /\ Len(token') = n /\ token'[id] = m
      /\ \A i \in 1 .. n : i # id => token'[i] = token[i]
  BY <1>1
<1>3. /\ versions' \in Seq(Seq(Metadata)) /\ Len(versions') = n /\ versions'[id] = vs
      /\ \A i \in 1 .. n : i # id => versions'[i] = versions[i]
  <2> DEFINE T == Seq(Metadata)
  <2>1. vs \in T /\ versions \in Seq(T)
    BY <1>1
  <2> HIDE DEF T
  <2>2. versions' \in Seq(T) /\ Len(versions') = n
    BY <1>1, <2>1
  <2>3. versions'[id] = vs /\ \A i \in 1 .. n : i # id => versions'[i] = versions[i]
    BY <1>1, <2>1
  <2> QED BY <2>2, <2>3 DEF T
<1>4. /\ log' \in Seq(Seq(TokenEvent)) /\ Len(log') = n /\ log'[id] = es
      /\ \A i \in 1 .. n : i # id => log'[i] = log[i]
  <2> DEFINE T == Seq(TokenEvent)
  <2>1. es \in T /\ log \in Seq(T)
    BY <1>1
  <2> HIDE DEF T
  <2>2. log' \in Seq(T) /\ Len(log') = n
    BY <1>1, <2>1
  <2>3. log'[id] = es /\ \A i \in 1 .. n : i # id => log'[i] = log[i]
    BY <1>1, <2>1
  <2> QED BY <2>2, <2>3 DEF T
<1>5. /\ image' \in Seq(Image \cup {None}) /\ Len(image') = n /\ image'[id] = c
      /\ \A i \in 1 .. n : i # id => image'[i] = image[i]
  <2> DEFINE T == Image \cup {None}
  <2>1. c \in T /\ image \in Seq(T)
    BY <1>1
  <2> HIDE DEF T
  <2>2. image' \in Seq(T) /\ Len(image') = n
    BY <1>1, <2>1
  <2>3. image'[id] = c /\ \A i \in 1 .. n : i # id => image'[i] = image[i]
    BY <1>1, <2>1
  <2> QED BY <2>2, <2>3 DEF T
<1>6. MetadataTypes'
  BY <1>2, <1>3, <1>4, <1>5 DEF MetadataInv, MetadataTypes
<1>7. ASSUME NEW i \in 1 .. n PROVE Agreed(token'[i], versions'[i], log'[i], image'[i])
  <2>1. CASE i = id
    BY <1>2, <1>3, <1>4, <1>5, <2>1
  <2>2. CASE i # id
    <3>1. Agreed(token[i], versions[i], log[i], image[i])
      BY DEF MetadataInv
    <3> QED BY <1>2, <1>3, <1>4, <1>5, <2>2, <3>1
  <2> QED BY <2>1, <2>2
<1>8. \A i \in 1 .. Len(token') : Agreed(token'[i], versions'[i], log'[i], image'[i])
  BY <1>2, <1>7
<1> QED BY <1>6, <1>8 DEF MetadataInv, Agreed

\* What is stored for a token has its type.
LEMMA TokenStored ==
  ASSUME MetadataInv, NEW id \in 1 .. Len(token)
  PROVE  /\ Agreed(token[id], versions[id], log[id], image[id]) /\ token[id] \in Metadata
         /\ clock \in Nat /\ settings \in MetadataSettings
         /\ versions[id] \in Seq(Metadata) /\ log[id] \in Seq(TokenEvent)
         /\ metric[id] \in [OfDynamicMetadata.Metrics -> Nat]
         /\ token = [token EXCEPT ![id] = token[id]] /\ log = [log EXCEPT ![id] = log[id]]
         /\ image = [image EXCEPT ![id] = image[id]]
         /\ versions = [versions EXCEPT ![id] = versions[id]]
<1>1. Len(token) > 0 /\ Agreed(token[id], versions[id], log[id], image[id])
  BY DEF MetadataInv, MetadataTypes
<1>2. token = [token EXCEPT ![id] = token[id]] /\ log = [log EXCEPT ![id] = log[id]]
  BY DEF MetadataInv, MetadataTypes
<1>3. /\ image = [image EXCEPT ![id] = image[id]]
      /\ versions = [versions EXCEPT ![id] = versions[id]]
  BY DEF MetadataInv, MetadataTypes
<1>4. metric[id] \in [OfDynamicMetadata.Metrics -> Nat]
  BY DEF MetadataInv, MetadataTypes
<1> QED BY <1>1, <1>2, <1>3, <1>4 DEF MetadataInv, MetadataTypes, Agreed

\* A version is added that shows the metadata as they are.
LEMMA VersionAdded ==
  ASSUME NEW m \in Metadata, NEW vs \in Seq(Metadata)
  PROVE  /\ Append(vs, m) \in Seq(Metadata) /\ Len(Append(vs, m)) > 0
         /\ Append(vs, m)[Len(Append(vs, m))] = m
         /\ [m EXCEPT !.performance_score = m.performance_score] = m
<1>1. [m EXCEPT !.performance_score = m.performance_score] = m
  BY DEF Metadata
<1> HIDE DEF Metadata
<1> QED BY <1>1

\* write_metadata of metadata of the same owner.
LEMMA WriteKeeps ==
  ASSUME MetadataInv, NEW id \in 1 .. Len(token), NEW m \in Metadata, m.owner = token[id].owner,
         DynamicMetadata!Write(id, m),
         UNCHANGED <<clock, settings, log, metric, traitRule, triggerRule>>
  PROVE  MetadataInv'
<1> DEFINE x == [m EXCEPT !.updated_at = clock]
           vs == Append(versions[id], x)
<1>1. /\ token' = [token EXCEPT ![id] = x] /\ image' = [image EXCEPT ![id] = None]
      /\ versions' = [versions EXCEPT ![id] = vs]
  BY DEF DynamicMetadata!Write, DynamicMetadata!Snapshot
<1>2. x \in Metadata /\ x.owner = m.owner
  BY TokenStored DEF Metadata
<1>3. Agreed(token[id], versions[id], log[id], image[id]) /\ versions[id] \in Seq(Metadata)
  BY TokenStored
<1> HIDE DEF x
<1>4. /\ vs \in Seq(Metadata) /\ Len(vs) > 0
      /\ [vs[Len(vs)] EXCEPT !.performance_score = x.performance_score] = x
  BY <1>2, <1>3, VersionAdded
<1>5. Agreed(x, vs, log[id], None)
  BY <1>2, <1>3, <1>4 DEF Agreed
<1>6. log' = [log EXCEPT ![id] = log[id]]
  BY TokenStored
<1>7. metric' \in Seq([OfDynamicMetadata.Metrics -> Nat]) /\ Len(metric') = Len(metric)
  BY DEF MetadataInv, MetadataTypes
<1> HIDE DEF vs
<1> QED BY <1>1, <1>5, <1>6, <1>7, TokenChanges

\* The evolution of traits and the rules that fire keep the owner.
LEMMA EvolvedMetadata ==
  ASSUME MetadataInv, clock \in Nat, NEW m \in Metadata
  PROVE  /\ DynamicMetadata!Evolved(m) \in Metadata
         /\ DynamicMetadata!Evolved(m).owner = m.owner
<1>1. CASE ~DynamicMetadata!Evolves(m)
  BY <1>1 DEF DynamicMetadata!Evolved
<1>2. CASE DynamicMetadata!Evolves(m)
  <2> DEFINE i == CHOOSE j \in DynamicMetadata!Best(m) : TRUE
             r == traitRule[i]
             s == m.string_traits \cup {r.trait}
             y == DynamicMetadata!Larger(m.rarity, r.new_rarity)
             l == DynamicMetadata!Larger(m.level, r.target_level)
             x == [m EXCEPT !.string_traits = s, !.rarity = y, !.level = l, !.updated_at = clock]
  <2>1. i \in DynamicMetadata!Best(m)
    BY <1>2 DEF DynamicMetadata!Evolves
  <2>2. i \in DOMAIN traitRule /\ traitRule[i] # None
    <3> HIDE DEF i
    <3> QED BY <2>1 DEF DynamicMetadata!Best
  <2>3. DynamicMetadata!Evolved(m) = x
    BY <1>2 DEF DynamicMetadata!Evolved
  <2> HIDE DEF i
  <2>4. r \in OfDynamicMetadata.TraitRules
    BY <2>2 DEF MetadataInv, MetadataTypes
  <2>5. s \in SUBSET TraitKeys /\ y \in Nat /\ l \in Nat
    <3>1. r.trait \in TraitKeys /\ m.string_traits \in SUBSET TraitKeys
      BY <2>4 DEF TraitKeys, Metadata
    <3>2. r.new_rarity \in Nat /\ r.target_level \in Nat /\ m.rarity \in Nat /\ m.level \in Nat
      BY <2>4, DynamicMetadataAssumption DEF Metadata
    <3> HIDE DEF r
    <3> QED BY <3>1, <3>2 DEF DynamicMetadata!Larger
  <2> HIDE DEF s, y, l
  <2>6. x \in Metadata /\ x.owner = m.owner
    BY <2>5 DEF Metadata
  <2> QED BY <2>3, <2>6
<1> QED BY <1>1, <1>2

LEMMA PutNumber ==
  ASSUME NEW f \in Numbers, NEW k \in TraitKeys, NEW v \in Nat
  PROVE  DynamicMetadata!Put(f, k, v) \in Numbers
<1>1. PICK d \in SUBSET TraitKeys : f \in [d -> Nat]
  BY DEF Numbers
<1> DEFINE g == [x \in d \cup {k} |-> IF x = k THEN v ELSE f[x]]
<1>2. g \in [d \cup {k} -> Nat] /\ d \cup {k} \in SUBSET TraitKeys
  BY <1>1
<1>3. DynamicMetadata!Put(f, k, v) = g
  BY <1>1 DEF DynamicMetadata!Put
<1> HIDE DEF g
<1> QED BY <1>2, <1>3 DEF Numbers

LEMMA AppliedMetadata ==
  ASSUME NEW m \in Metadata, NEW r \in OfDynamicMetadata.TriggerRules
  PROVE  /\ DynamicMetadata!Applied(m, r) \in Metadata
         /\ DynamicMetadata!Applied(m, r).owner = m.owner
<1>1. r.trait \in TraitKeys
  BY DEF TraitKeys
<1>2. CASE r.action = "add_trait"
  <2> DEFINE s == m.string_traits \cup {r.trait}
             x == [m EXCEPT !.string_traits = s]
  <2>1. s \in SUBSET TraitKeys
    BY <1>1 DEF Metadata
  <2>2. DynamicMetadata!Applied(m, r) = x
    BY <1>2 DEF DynamicMetadata!Applied
  <2> HIDE DEF s
  <2>3. x \in Metadata /\ x.owner = m.owner
    BY <2>1 DEF Metadata
  <2> QED BY <2>2, <2>3
<1>3. CASE r.action = "add_numeric_trait"
  <2> DEFINE s == DynamicMetadata!Put(m.numeric_traits, r.trait, r.value)
             x == [m EXCEPT !.numeric_traits = s]
  <2>1. m.numeric_traits \in Numbers /\ r.value \in Nat
    BY <1>3, DynamicMetadataAssumption DEF Metadata
  <2>2. s \in Numbers
    BY <1>1, <2>1, PutNumber
  <2>3. DynamicMetadata!Applied(m, r) = x
    BY <1>3 DEF DynamicMetadata!Applied
  <2> HIDE DEF s
  <2>4. x \in Metadata /\ x.owner = m.owner
    BY <2>2 DEF Metadata
  <2> QED BY <2>3, <2>4
<1>4. CASE r.action = "bump_level"
  <2> DEFINE s == m.level + r.value
             x == [m EXCEPT !.level = s]
  <2>1. m.level \in Nat /\ r.value \in Nat
    BY <1>4, DynamicMetadataAssumption DEF Metadata
  <2>2. s \in Nat
    BY <2>1
  <2>3. DynamicMetadata!Applied(m, r) = x
    BY <1>4 DEF DynamicMetadata!Applied
  <2> HIDE DEF s
  <2>4. x \in Metadata /\ x.owner = m.owner
    BY <2>2 DEF Metadata
  <2> QED BY <2>3, <2>4
<1> QED BY <1>2, <1>3, <1>4, DynamicMetadataAssumption

LEMMA TriggeredMetadata ==
  ASSUME MetadataInv, clock \in Nat, NEW id, NEW m \in Metadata, NEW k
  PROVE  /\ DynamicMetadata!Triggered(id, m, k) \in Metadata
         /\ DynamicMetadata!Triggered(id, m, k).owner = m.owner
<1> DEFINE fired == DynamicMetadata!Fired(id, m, k)
           n == Len(triggerRule)
           after[i \in 0 .. n] ==
             IF i = 0 THEN m
             ELSE IF i \in fired THEN DynamicMetadata!Applied(after[i - 1], triggerRule[i])
                  ELSE after[i - 1]
           S == {x \in Metadata : x.owner = m.owner}
           step == [i \in 1 .. n |-> [x \in S |->
                      IF i \in fired THEN DynamicMetadata!Applied(x, triggerRule[i]) ELSE x]]
<1>1. n \in Nat /\ m \in S
  BY DEF MetadataInv, MetadataTypes
<1>2. \A i \in fired : i \in 1 .. n => triggerRule[i] \in OfDynamicMetadata.TriggerRules
  <2>1. ASSUME NEW i \in fired, i \in 1 .. n PROVE triggerRule[i] # None
    BY <2>1 DEF DynamicMetadata!Fired
  <2>2. triggerRule \in Seq(OfDynamicMetadata.TriggerRules \cup {None})
    BY DEF MetadataInv, MetadataTypes
  <2> HIDE DEF fired
  <2> QED BY <2>1, <2>2
<1>3. step \in [1 .. n -> [S -> S]]
  <2>1. ASSUME NEW i \in 1 .. n, NEW x \in S
        PROVE  (IF i \in fired THEN DynamicMetadata!Applied(x, triggerRule[i]) ELSE x) \in S
    <3> HIDE DEF fired
    <3> QED BY <1>2, AppliedMetadata
  <2> HIDE DEF S, fired
  <2> QED BY <2>1
<1>4. PICK f \in [0 .. n -> S] : f[0] = m /\ \A i \in 1 .. n : f[i] = step[i][f[i - 1]]
  <2> HIDE DEF step, S, n
  <2>1. Stepping(n, S, m, step) # {}
    BY <1>1, <1>3, CountingFunction
  <2> QED BY <2>1 DEF Stepping
<1>5. f = [i \in 0 .. n |->
             IF i = 0 THEN m
             ELSE IF i \in fired THEN DynamicMetadata!Applied(f[i - 1], triggerRule[i])
                  ELSE f[i - 1]]
  <2> DEFINE h == [i \in 0 .. n |->
                     IF i = 0 THEN m
                     ELSE IF i \in fired THEN DynamicMetadata!Applied(f[i - 1], triggerRule[i])
                          ELSE f[i - 1]]
  <2>1. ASSUME NEW i \in 0 .. n PROVE f[i] = h[i]
    <3>1. CASE i = 0
      BY <1>4, <3>1
    <3>2. CASE i # 0
      <4>1. i \in 1 .. n /\ f[i - 1] \in S /\ f[i] = step[i][f[i - 1]]
        <5> HIDE DEF S, step, n
        <5> QED BY <1>1, <1>4, <3>2
      <4> HIDE DEF S, fired, n
      <4> QED BY <3>2, <4>1
    <3> QED BY <3>1, <3>2
  <2> HIDE DEF S, fired, n
  <2> QED BY <1>4, <2>1
<1>6. after = [i \in 0 .. n |->
                 IF i = 0 THEN m
                 ELSE IF i \in fired THEN DynamicMetadata!Applied(after[i - 1], triggerRule[i])
                      ELSE after[i - 1]]
  <2> HIDE DEF fired, n, S, step
  <2> QED BY <1>5, Zenon
<1>7. after[n] \in S
  <2> DEFINE T == {i \in 0 .. n : after[i] \in S}
  <2>1. 0 \in T
    <3> HIDE DEF after, fired, S
    <3> QED BY <1>1, <1>6
  <2>2. ASSUME NEW i \in 0 .. n - 1, i \in T PROVE i + 1 \in T
    <3>1. after[i] \in S /\ i + 1 \in 1 .. n /\ i + 1 - 1 = i
      BY <1>1, <2>2
    <3>2. after[i + 1] = IF i + 1 \in fired THEN DynamicMetadata!Applied(after[i], triggerRule[i + 1])
                         ELSE after[i]
      <4> HIDE DEF after, fired, S, n
      <4> QED BY <1>1, <1>6, <3>1
    <3>3. after[i + 1] \in S
      <4> HIDE DEF after, fired, n
      <4> QED BY <1>2, <3>1, <3>2, AppliedMetadata
    <3> QED BY <3>1, <3>3
  <2>3. \A i \in 0 .. n - 1 : i \in T => i + 1 \in T
    BY <2>2
  <2> HIDE DEF T
  <2>4. \A i \in 0 .. n : i \in T
    <3> HIDE DEF n
    <3> QED BY <1>1, <2>1, <2>3, CountingUp
  <2>5. n \in T
    BY <1>1, <2>4
  <2> QED BY <2>5 DEF T
<1>8. DynamicMetadata!Triggered(id, m, k)
        \in {m, [after[n] EXCEPT !.updated_at = clock]}
  BY DEF DynamicMetadata!Triggered
<1>9. ASSUME NEW x \in S
      PROVE  [x EXCEPT !.updated_at = clock] \in Metadata
             /\ [x EXCEPT !.updated_at = clock].owner = m.owner
  BY DEF Metadata
<1> HIDE DEF after
<1> QED BY <1>7, <1>8, <1>9

\* An edit of the metadata of a token.
LEMMA EditKeeps ==
  ASSUME MetadataInv, NEW id \in 1 .. Len(token), NEW m \in Metadata, m.owner = token[id].owner,
         DynamicMetadata!Edit(id, m)
  PROVE  MetadataInv'
<1>1. DynamicMetadata!Write(id, m) /\ UNCHANGED <<clock, settings, log, metric, traitRule, triggerRule>>
  BY DEF DynamicMetadata!Edit, DynamicMetadata!settings, DynamicMetadata!rules
<1> QED BY <1>1, WriteKeeps

LEMMA MintKeeps ==
  ASSUME MetadataInv, NEW o \in OfDynamicMetadata.Owners, NEW c \in OfDynamicMetadata.Contents,
         NEW s \in SUBSET OfDynamicMetadata.Traits, NEW d \in SUBSET OfDynamicMetadata.Traits,
         DynamicMetadata!MintToken(o, c, s, d)
  PROVE  MetadataInv'
<1> DEFINE n == Len(token)
           num == [t \in d |-> 1]
           m == [owner |-> o, content |-> c, string_traits |-> s, numeric_traits |-> num,
                 level |-> 1, rarity |-> 1, performance_score |-> 0,
                 schema_version |-> settings.schema_version, updated_at |-> clock, frozen |-> FALSE]
           im == [base |-> settings.image_base_uri, level |-> 1, rarity |-> 1]
           ev == <<"Mint", o>>
           k == [x \in OfDynamicMetadata.Metrics |-> 0]
<1>1. /\ settings # None /\ token' = Append(token, m) /\ log' = Append(log, <<ev>>)
      /\ versions' = Append(versions, <<m>>) /\ metric' = Append(metric, k)
      /\ image' = Append(image, im)
      /\ UNCHANGED <<clock, settings, traitRule, triggerRule>>
  BY DEF DynamicMetadata!MintToken, DynamicMetadata!Initialized, DynamicMetadata!settings,
         DynamicMetadata!rules, DynamicMetadata!Uri
<1>2. MetadataTypes /\ n \in Nat /\ clock \in Nat /\ settings \in MetadataSettings
  BY <1>1 DEF MetadataInv, MetadataTypes
<1>3. num \in Numbers
  <2>1. num \in [d -> Nat] /\ d \in SUBSET TraitKeys
    BY DEF TraitKeys
  <2> HIDE DEF num
  <2> QED BY <2>1 DEF Numbers
<1>4. m \in Metadata /\ m.owner = o /\ m.level = 1 /\ m.rarity = 1
  <2>1. s \in SUBSET TraitKeys
    BY DEF TraitKeys
  <2> HIDE DEF num
  <2> QED BY <1>2, <1>3, <2>1 DEF Metadata, MetadataSettings
<1>5. im \in Image /\ im.level = 1 /\ im.rarity = 1
  BY <1>2 DEF Image, MetadataSettings
<1>6. ev \in TokenEvent /\ ev[2] = o
  BY DEF TokenEvent
<1>7. k \in [OfDynamicMetadata.Metrics -> Nat]
  OBVIOUS
<1> HIDE DEF m, im, ev, k, num
<1> DEFINE vs == <<m>>
           es == <<ev>>
<1>8. vs \in Seq(Metadata) /\ Len(vs) = 1 /\ vs[1] = m
  BY <1>4
<1>9. es \in Seq(TokenEvent) /\ Len(es) = 1 /\ es[1] = ev
  BY <1>6
<1>10. [m EXCEPT !.performance_score = m.performance_score] = m
  BY <1>4, VersionAdded, vs \in Seq(Metadata), <1>8
<1> HIDE DEF vs, es
<1>11. Agreed(m, vs, es, im)
  <2>1. [vs[Len(vs)] EXCEPT !.performance_score = m.performance_score] = m
    BY <1>8, <1>10
  <2> QED BY <1>4, <1>5, <1>6, <1>8, <1>9, <2>1 DEF Agreed
<1>12. /\ token' \in Seq(Metadata) /\ Len(token') = n + 1 /\ token'[n + 1] = m
       /\ \A i \in 1 .. n : token'[i] = token[i]
  BY <1>1, <1>2, <1>4 DEF MetadataTypes
<1>13. /\ versions' \in Seq(Seq(Metadata)) /\ Len(versions') = n + 1 /\ versions'[n + 1] = vs
       /\ \A i \in 1 .. n : versions'[i] = versions[i]
  <2> DEFINE T == Seq(Metadata)
  <2>1. vs \in T /\ versions \in Seq(T) /\ Len(versions) = n /\ versions' = Append(versions, vs)
    BY <1>1, <1>2, <1>8 DEF MetadataTypes, vs
  <2> HIDE DEF T, n
  <2>2. versions' \in Seq(T) /\ Len(versions') = n + 1 /\ versions'[n + 1] = vs
    BY <2>1
  <2>3. \A i \in 1 .. n : versions'[i] = versions[i]
    BY <2>1
  <2> QED BY <2>2, <2>3 DEF T
<1>14. /\ log' \in Seq(Seq(TokenEvent)) /\ Len(log') = n + 1 /\ log'[n + 1] = es
       /\ \A i \in 1 .. n : log'[i] = log[i]
  <2> DEFINE T == Seq(TokenEvent)
  <2>1. es \in T /\ log \in Seq(T) /\ Len(log) = n /\ log' = Append(log, es)
    BY <1>1, <1>2, <1>9 DEF MetadataTypes, es
  <2> HIDE DEF T, n
  <2>2. log' \in Seq(T) /\ Len(log') = n + 1 /\ log'[n + 1] = es
    BY <2>1
  <2>3. \A i \in 1 .. n : log'[i] = log[i]
    BY <2>1
  <2> QED BY <2>2, <2>3 DEF T
<1>15. /\ image' \in Seq(Image \cup {None}) /\ Len(image') = n + 1 /\ image'[n + 1] = im
       /\ \A i \in 1 .. n : image'[i] = image[i]
  <2> DEFINE T == Image \cup {None}
  <2>1. im \in T /\ image \in Seq(T) /\ Len(image) = n
    BY <1>2, <1>5 DEF MetadataTypes
  <2> HIDE DEF T, n
  <2>2. image' \in Seq(T) /\ Len(image') = n + 1 /\ image'[n + 1] = im
    BY <1>1, <2>1
  <2>3. \A i \in 1 .. n : image'[i] = image[i]
    BY <1>1, <2>1
  <2> QED BY <2>2, <2>3 DEF T
<1>16. metric' \in Seq([OfDynamicMetadata.Metrics -> Nat]) /\ Len(metric') = n + 1
  <2> DEFINE T == [OfDynamicMetadata.Metrics -> Nat]
  <2>1. k \in T /\ metric \in Seq(T) /\ Len(metric) = n /\ metric' = Append(metric, k)
    BY <1>1, <1>2, <1>7 DEF MetadataTypes
  <2> HIDE DEF T, n
  <2>2. metric' \in Seq(T) /\ Len(metric') = n + 1
    BY <2>1
  <2> QED BY <2>2 DEF T
<1>17. MetadataTypes'
  BY <1>1, <1>2, <1>12, <1>13, <1>14, <1>15, <1>16 DEF MetadataTypes
<1>18. ASSUME NEW i \in 1 .. n + 1 PROVE Agreed(token'[i], versions'[i], log'[i], image'[i])
  <2>1. CASE i = n + 1
    BY <1>11, <1>12, <1>13, <1>14, <1>15, <2>1
  <2>2. CASE i \in 1 .. n
    <3>1. Agreed(token[i], versions[i], log[i], image[i])
      BY <2>2 DEF MetadataInv
    <3> QED BY <1>12, <1>13, <1>14, <1>15, <2>2, <3>1
  <2> QED BY <1>2, <2>1, <2>2
<1> QED BY <1>12, <1>17, <1>18 DEF MetadataInv, Agreed

\* A token is transferred or burned: an event and a version are added.
LEMMA EventKeeps ==
  ASSUME MetadataInv, NEW id \in 1 .. Len(token), NEW o \in OfDynamicMetadata.Owners,
         NEW ev \in TokenEvent, ev[2] = o, NEW m,
         m = [token[id] EXCEPT !.owner = o, !.updated_at = clock],
         token' = [token EXCEPT ![id] = m], log' = [log EXCEPT ![id] = Append(@, ev)],
         DynamicMetadata!Snapshot(id, m),
         UNCHANGED <<clock, settings, metric, image, traitRule, triggerRule>>
  PROVE  MetadataInv'
<1> DEFINE vs == Append(versions[id], m)
           es == Append(log[id], ev)
<1>1. /\ Agreed(token[id], versions[id], log[id], image[id]) /\ versions[id] \in Seq(Metadata)
      /\ log[id] \in Seq(TokenEvent) /\ token[id] \in Metadata /\ clock \in Nat
  BY TokenStored
<1>2. m \in Metadata /\ m.owner = o /\ m.level = token[id].level /\ m.rarity = token[id].rarity
  BY <1>1 DEF Metadata
<1>3. /\ vs \in Seq(Metadata) /\ Len(vs) > 0
      /\ [vs[Len(vs)] EXCEPT !.performance_score = m.performance_score] = m
  BY <1>1, <1>2, VersionAdded
<1>4. es \in Seq(TokenEvent) /\ Len(es) > 0 /\ es[Len(es)] = ev
  BY <1>1
<1>5. versions' = [versions EXCEPT ![id] = vs] /\ log' = [log EXCEPT ![id] = es]
  BY DEF DynamicMetadata!Snapshot
<1> HIDE DEF vs, es
<1>6. Agreed(m, vs, es, image[id])
  BY <1>1, <1>2, <1>3, <1>4 DEF Agreed
<1>7. image' = [image EXCEPT ![id] = image[id]]
  BY TokenStored
<1>8. metric' \in Seq([OfDynamicMetadata.Metrics -> Nat]) /\ Len(metric') = Len(metric)
  BY DEF MetadataInv, MetadataTypes
<1> QED BY <1>5, <1>6, <1>7, <1>8, TokenChanges

LEMMA MigrateKeeps ==
  ASSUME MetadataInv, NEW id \in 1 .. Len(token),
         NEW v \in 1 .. OfDynamicMetadata.MAX_SCHEMA_VERSION, NEW c \in OfDynamicMetadata.Contents,
         NEW s \in SUBSET OfDynamicMetadata.Traits, NEW l \in {0, 2},
         DynamicMetadata!MigrateMetadata(id, v, c, s, s, l)
  PROVE  MetadataInv'
<1> DEFINE x == token[id]
           num == [t \in s |-> 1]
           lev == IF l > 0 THEN l ELSE x.level
           rar == IF l > 0 THEN l ELSE x.rarity
           m == [x EXCEPT !.content = c, !.string_traits = s, !.numeric_traits = num,
                          !.level = lev, !.rarity = rar, !.schema_version = v,
                          !.updated_at = clock]
           vs == versions[id] \o <<x, m>>
<1>1. /\ token' = [token EXCEPT ![id] = m] /\ image' = [image EXCEPT ![id] = None]
      /\ versions' = [versions EXCEPT ![id] = vs]
      /\ UNCHANGED <<clock, settings, log, metric, traitRule, triggerRule>>
  BY DEF DynamicMetadata!MigrateMetadata, DynamicMetadata!settings, DynamicMetadata!rules
<1>2. /\ Agreed(x, versions[id], log[id], image[id]) /\ versions[id] \in Seq(Metadata)
      /\ x \in Metadata /\ clock \in Nat
  BY TokenStored
<1>3. num \in Numbers /\ lev \in Nat /\ rar \in Nat /\ s \in SUBSET TraitKeys /\ v \in Int
  <2>1. num \in [s -> Nat] /\ s \in SUBSET TraitKeys
    BY DEF TraitKeys
  <2>2. num \in Numbers
    <3> HIDE DEF num
    <3> QED BY <2>1 DEF Numbers
  <2>3. lev \in Nat /\ rar \in Nat
    BY <1>2 DEF Metadata
  <2> QED BY <2>1, <2>2, <2>3
<1> HIDE DEF num, lev, rar, x
<1>4. m \in Metadata /\ m.owner = x.owner
  BY <1>2, <1>3 DEF Metadata
<1> HIDE DEF m
<1>5. vs \in Seq(Metadata) /\ Len(vs) > 0 /\ vs[Len(vs)] = m
  BY <1>2, <1>4
<1>6. [m EXCEPT !.performance_score = m.performance_score] = m
  BY <1>2, <1>4, VersionAdded
<1> HIDE DEF vs
<1>7. Agreed(m, vs, log[id], None)
  <2>1. [vs[Len(vs)] EXCEPT !.performance_score = m.performance_score] = m
    BY <1>5, <1>6
  <2> QED BY <1>2, <1>4, <1>5, <2>1 DEF Agreed
<1>8. log' = [log EXCEPT ![id] = log[id]]
  BY <1>1, TokenStored
<1>9. metric' \in Seq([OfDynamicMetadata.Metrics -> Nat]) /\ Len(metric') = Len(metric)
  BY <1>1 DEF MetadataInv, MetadataTypes
<1> QED BY <1>1, <1>7, <1>8, <1>9, TokenChanges

\* What the oracle reports, and the rules that this fires.
LEMMA ReportKeeps ==
  ASSUME MetadataInv, NEW id \in 1 .. Len(token), NEW key \in OfDynamicMetadata.Metrics,
         NEW value \in Nat, NEW delta \in Nat, DynamicMetadata!Report(id, key, value, delta)
  PROVE  MetadataInv'
<1> DEFINE x == token[id]
           k == [metric[id] EXCEPT ![key] = value]
           score == x.performance_score + delta
           m == [x EXCEPT !.performance_score = score]
           e == DynamicMetadata!Evolved(m)
           t == DynamicMetadata!Triggered(id, e, k)
           es == IF DynamicMetadata!Evolves(m) THEN <<e>> ELSE <<>>
           ts == IF DynamicMetadata!Fires(id, e, k) THEN <<t>> ELSE <<>>
           taken == es \o ts
           vs == versions[id] \o taken
           c == IF taken = <<>> THEN image[id] ELSE None
<1>1. /\ metric' = [metric EXCEPT ![id] = k] /\ token' = [token EXCEPT ![id] = t]
      /\ versions' = [versions EXCEPT ![id] = vs]
      /\ image' = IF taken = <<>> THEN image ELSE [image EXCEPT ![id] = None]
      /\ UNCHANGED <<clock, settings, log, traitRule, triggerRule>>
  <2>1. m = [token[id] EXCEPT !.performance_score = token[id].performance_score + delta]
    OBVIOUS
  <2> HIDE DEF DynamicMetadata!Evolved
  <2> QED BY <2>1 DEF DynamicMetadata!Report, DynamicMetadata!settings, DynamicMetadata!rules
<1>2. /\ Agreed(x, versions[id], log[id], image[id]) /\ versions[id] \in Seq(Metadata)
      /\ x \in Metadata /\ clock \in Nat /\ metric[id] \in [OfDynamicMetadata.Metrics -> Nat]
      /\ log = [log EXCEPT ![id] = log[id]] /\ image = [image EXCEPT ![id] = image[id]]
  BY TokenStored
<1>3. score \in Nat /\ k \in [OfDynamicMetadata.Metrics -> Nat]
  BY <1>2 DEF Metadata
<1> HIDE DEF score, x
<1>4. /\ m \in Metadata /\ m.owner = x.owner /\ m.level = x.level /\ m.rarity = x.rarity
      /\ m.performance_score = score /\ m = [x EXCEPT !.performance_score = score]
  BY <1>2, <1>3 DEF Metadata
<1> HIDE DEF m
<1>5. e \in Metadata /\ e.owner = x.owner
  BY <1>2, <1>4, EvolvedMetadata
<1> HIDE DEF e, k
<1>6. t \in Metadata /\ t.owner = x.owner
  BY <1>2, <1>5, TriggeredMetadata
<1>7. /\ ~DynamicMetadata!Evolves(m) => e = m
      /\ ~DynamicMetadata!Fires(id, e, k) => t = e
  BY DEF DynamicMetadata!Evolved, DynamicMetadata!Triggered, DynamicMetadata!Fires, e
<1> HIDE DEF t
<1> DEFINE v == versions[id]
<1>8. \/ vs = v \o <<t>> /\ taken # <<>>
      \/ vs = v \o Append(<<e>>, t) /\ taken # <<>>
      \/ vs = v /\ taken = <<>> /\ t = m
  <2>1. v \in Seq(Metadata)
    BY <1>2
  <2> HIDE DEF v
  <2>2. es = IF DynamicMetadata!Evolves(m) THEN <<e>> ELSE <<>>
    OBVIOUS
  <2>3. ts = IF DynamicMetadata!Fires(id, e, k) THEN <<t>> ELSE <<>>
    OBVIOUS
  <2>4. taken = es \o ts /\ vs = v \o taken
    BY DEF v
  <2> HIDE DEF es, ts, taken, vs
  <2>5. /\ <<>> \o <<t>> = <<t>> /\ <<e>> \o <<>> = <<e>> /\ <<e>> \o <<t>> = Append(<<e>>, t)
        /\ <<>> \o <<>> = <<>> /\ v \o <<>> = v
    BY <1>5, <1>6, <2>1, TraitsJoined
  <2>6. <<t>> # <<>> /\ <<e>> # <<>> /\ Append(<<e>>, t) # <<>>
    OBVIOUS
  <2>7. CASE DynamicMetadata!Fires(id, e, k) /\ DynamicMetadata!Evolves(m)
    BY <2>2, <2>3, <2>4, <2>5, <2>6, <2>7
  <2>8. CASE DynamicMetadata!Fires(id, e, k) /\ ~DynamicMetadata!Evolves(m)
    BY <2>2, <2>3, <2>4, <2>5, <2>6, <2>8
  <2>9. CASE ~DynamicMetadata!Fires(id, e, k) /\ DynamicMetadata!Evolves(m)
    BY <1>7, <2>2, <2>3, <2>4, <2>5, <2>6, <2>9
  <2>10. CASE ~DynamicMetadata!Fires(id, e, k) /\ ~DynamicMetadata!Evolves(m)
    BY <1>7, <2>2, <2>3, <2>4, <2>5, <2>10
  <2> QED BY <2>7, <2>8, <2>9, <2>10
<1> HIDE DEF taken, vs
<1>9. Agreed(t, vs, log[id], c)
  <2>1. /\ v \in Seq(Metadata) /\ Len(v) > 0 /\ v[Len(v)] \in Metadata
        /\ [v[Len(v)] EXCEPT !.performance_score = x.performance_score] = x
        /\ image[id] \in Image \cup {None}
        /\ (image[id] # None => image[id].level = x.level /\ image[id].rarity = x.rarity)
        /\ log[id] \in Seq(TokenEvent) /\ Len(log[id]) > 0 /\ log[id][Len(log[id])][2] = x.owner
    BY <1>2 DEF Agreed
  <2>2. [t EXCEPT !.performance_score = t.performance_score] = t
    BY <1>2, <1>6, VersionAdded
  <2>3. CASE vs = v \o <<t>> /\ taken # <<>>
    <3>1. vs \in Seq(Metadata) /\ Len(vs) > 0 /\ vs[Len(vs)] = t
      BY <1>6, <2>1, <2>3
    <3> QED BY <1>6, <2>1, <2>2, <2>3, <3>1 DEF Agreed
  <2>4. CASE vs = v \o Append(<<e>>, t) /\ taken # <<>>
    <3>1. vs \in Seq(Metadata) /\ Len(vs) > 0 /\ vs[Len(vs)] = t
      BY <1>5, <1>6, <2>1, <2>4
    <3> QED BY <1>6, <2>1, <2>2, <2>4, <3>1 DEF Agreed
  <2>5. CASE vs = v /\ taken = <<>> /\ t = m
    <3> DEFINE l == v[Len(v)]
    <3>1. [l EXCEPT !.performance_score = m.performance_score] = m
      <4>1. l \in Metadata /\ x \in Metadata /\ [l EXCEPT !.performance_score = x.performance_score] = x
        BY <1>2, <2>1
      <4> HIDE DEF l
      <4> QED BY <1>3, <1>4, <4>1 DEF Metadata
    <3> HIDE DEF v
    <3> QED BY <1>4, <1>6, <2>1, <2>5, <3>1 DEF Agreed
  <2> QED BY <1>8, <2>3, <2>4, <2>5
<1>10. image' = [image EXCEPT ![id] = c]
  BY <1>1, <1>2
<1>11. log' = [log EXCEPT ![id] = log[id]]
  BY <1>1, <1>2
<1>12. metric' \in Seq([OfDynamicMetadata.Metrics -> Nat]) /\ Len(metric') = Len(metric)
  <2> DEFINE T == [OfDynamicMetadata.Metrics -> Nat]
  <2>1. /\ k \in T /\ metric \in Seq(T) /\ Len(metric) = Len(token)
        /\ metric' = [metric EXCEPT ![id] = k]
    BY <1>1, <1>3 DEF MetadataInv, MetadataTypes
  <2> HIDE DEF T
  <2>2. id \in 1 .. Len(metric)
    BY <2>1
  <2>3. metric' \in Seq(T) /\ Len(metric') = Len(metric)
    BY <2>1, <2>2
  <2> QED BY <2>3 DEF T
<1> HIDE DEF c
<1> QED BY <1>1, <1>9, <1>10, <1>11, <1>12, TokenChanges

LEMMA DynamicMetadataStep ==
  ASSUME MetadataInv, DynamicMetadata!Next PROVE MetadataInv'
<1>1. MetadataTypes /\ clock \in Nat /\ DOMAIN token = 1 .. Len(token)
  BY DEF MetadataInv, MetadataTypes
<1>2. ASSUME UNCHANGED <<token, versions, log, image, metric>>, clock' \in Nat,
             settings' \in MetadataSettings \cup {None}, settings # None => settings' # None,
             traitRule' \in Seq(OfDynamicMetadata.TraitRules \cup {None}),
             triggerRule' \in Seq(OfDynamicMetadata.TriggerRules \cup {None})
      PROVE  MetadataInv'
  BY <1>2 DEF MetadataInv, MetadataTypes, Agreed
<1>3. ASSUME NEW uri \in OfDynamicMetadata.BaseUris,
             NEW v \in 1 .. OfDynamicMetadata.MAX_SCHEMA_VERSION,
             DynamicMetadata!Initialize(uri, v)
      PROVE  MetadataInv'
  <2>1. [image_base_uri |-> uri, schema_version |-> v] \in MetadataSettings
    BY DEF MetadataSettings
  <2> QED BY <1>1, <1>2, <1>3, <2>1, DynamicMetadataAssumption
          DEF DynamicMetadata!Initialize, DynamicMetadata!rules, MetadataTypes
<1>4. ASSUME NEW uri \in OfDynamicMetadata.BaseUris, DynamicMetadata!UpdateImageBaseUri(uri)
      PROVE  MetadataInv'
  <2>1. settings \in MetadataSettings /\ settings' = [settings EXCEPT !.image_base_uri = uri]
    BY <1>1, <1>4
    DEF DynamicMetadata!UpdateImageBaseUri, DynamicMetadata!Initialized, MetadataTypes
  <2>2. settings' \in MetadataSettings
    BY <2>1 DEF MetadataSettings
  <2> QED BY <1>1, <1>2, <1>4, <2>2, DynamicMetadataAssumption
          DEF DynamicMetadata!UpdateImageBaseUri, DynamicMetadata!rules, MetadataTypes
<1>5. ASSUME NEW v \in 1 .. OfDynamicMetadata.MAX_SCHEMA_VERSION,
             DynamicMetadata!UpdateSchemaVersion(v)
      PROVE  MetadataInv'
  <2>1. settings \in MetadataSettings /\ settings' = [settings EXCEPT !.schema_version = v]
    BY <1>1, <1>5
    DEF DynamicMetadata!UpdateSchemaVersion, DynamicMetadata!Initialized, MetadataTypes
  <2>2. settings' \in MetadataSettings
    BY <2>1 DEF MetadataSettings
  <2> QED BY <1>1, <1>2, <1>5, <2>2, DynamicMetadataAssumption
          DEF DynamicMetadata!UpdateSchemaVersion, DynamicMetadata!rules, MetadataTypes
<1>6. ASSUME NEW p, DynamicMetadata!SetPaused(p) PROVE MetadataInv'
  BY <1>1, <1>2, <1>6 DEF DynamicMetadata!SetPaused, DynamicMetadata!rules, MetadataTypes
<1>7. ASSUME NEW r \in OfDynamicMetadata.TraitRules, DynamicMetadata!ConfigureTraitRule(r)
      PROVE  MetadataInv'
  <2>1. traitRule' \in Seq(OfDynamicMetadata.TraitRules \cup {None})
    BY <1>1, <1>7 DEF DynamicMetadata!ConfigureTraitRule, MetadataTypes
  <2> QED BY <1>1, <1>2, <1>7, <2>1
          DEF DynamicMetadata!ConfigureTraitRule, DynamicMetadata!settings, MetadataTypes
<1>8. ASSUME NEW r \in OfDynamicMetadata.TriggerRules, DynamicMetadata!ConfigureTriggerRule(r)
      PROVE  MetadataInv'
  <2>1. triggerRule' \in Seq(OfDynamicMetadata.TriggerRules \cup {None})
    BY <1>1, <1>8 DEF DynamicMetadata!ConfigureTriggerRule, MetadataTypes
  <2> QED BY <1>1, <1>2, <1>8, <2>1
          DEF DynamicMetadata!ConfigureTriggerRule, DynamicMetadata!settings, MetadataTypes
<1>9. ASSUME NEW i, DynamicMetadata!RemoveTraitRule(i) PROVE MetadataInv'
  <2>1. traitRule' \in Seq(OfDynamicMetadata.TraitRules \cup {None})
    <3> DEFINE T == OfDynamicMetadata.TraitRules \cup {None}
    <3>1. /\ None \in T /\ traitRule \in Seq(T) /\ i \in DOMAIN traitRule
          /\ traitRule' = [traitRule EXCEPT ![i] = None]
      BY <1>1, <1>9 DEF DynamicMetadata!RemoveTraitRule, MetadataTypes
    <3> HIDE DEF T
    <3>2. traitRule' \in Seq(T)
      BY <3>1
    <3> QED BY <3>2 DEF T
  <2> QED BY <1>1, <1>2, <1>9, <2>1
          DEF DynamicMetadata!RemoveTraitRule, DynamicMetadata!settings, MetadataTypes
<1>10. ASSUME NEW i, DynamicMetadata!RemoveTriggerRule(i) PROVE MetadataInv'
  <2>1. triggerRule' \in Seq(OfDynamicMetadata.TriggerRules \cup {None})
    <3> DEFINE T == OfDynamicMetadata.TriggerRules \cup {None}
    <3>1. /\ None \in T /\ triggerRule \in Seq(T) /\ i \in DOMAIN triggerRule
          /\ triggerRule' = [triggerRule EXCEPT ![i] = None]
      BY <1>1, <1>10 DEF DynamicMetadata!RemoveTriggerRule, MetadataTypes
    <3> HIDE DEF T
    <3>2. triggerRule' \in Seq(T)
      BY <3>1
    <3> QED BY <3>2 DEF T
  <2> QED BY <1>1, <1>2, <1>10, <2>1
          DEF DynamicMetadata!RemoveTriggerRule, DynamicMetadata!settings, MetadataTypes
<1>11. CASE DynamicMetadata!Tick
  BY <1>1, <1>2, <1>11
  DEF DynamicMetadata!Tick, DynamicMetadata!settings, DynamicMetadata!rules, MetadataTypes
<1>12. ASSUME NEW id \in 1 .. Len(token)
       PROVE  token[id] \in Metadata /\ metric[id] \in [OfDynamicMetadata.Metrics -> Nat]
  BY <1>12, TokenStored
<1>13. ASSUME NEW id \in 1 .. Len(token), NEW o \in OfDynamicMetadata.Owners,
              DynamicMetadata!TransferToken(id, o)
       PROVE  MetadataInv'
  <2> DEFINE ev == <<"Transfer", o>>
             m == [token[id] EXCEPT !.owner = o, !.updated_at = clock]
  <2>1. ev \in TokenEvent /\ ev[2] = o
    BY DEF TokenEvent
  <2> HIDE DEF ev
  <2>2. /\ token' = [token EXCEPT ![id] = m] /\ log' = [log EXCEPT ![id] = Append(@, ev)]
        /\ DynamicMetadata!Snapshot(id, m)
        /\ UNCHANGED <<clock, settings, metric, image, traitRule, triggerRule>>
    BY <1>13
    DEF ev, DynamicMetadata!TransferToken, DynamicMetadata!settings, DynamicMetadata!rules
  <2> HIDE DEF m
  <2> QED BY <2>1, <2>2, EventKeeps DEF m
<1>14. ASSUME NEW id \in 1 .. Len(token), DynamicMetadata!BurnToken(id) PROVE MetadataInv'
  <2> DEFINE o == token[id].owner
             x == [token[id] EXCEPT !.updated_at = clock]
             ev == <<"Burn", o>>
             m == [token[id] EXCEPT !.owner = o, !.updated_at = clock]
  <2>1. o \in OfDynamicMetadata.Owners /\ x = m /\ x.owner = o
    BY <1>12 DEF Metadata
  <2>2. ev \in TokenEvent /\ ev[2] = o
    BY <2>1 DEF TokenEvent
  <2>3. /\ token' = [token EXCEPT ![id] = x] /\ log' = [log EXCEPT ![id] = Append(@, <<"Burn", x.owner>>)]
        /\ DynamicMetadata!Snapshot(id, x)
        /\ UNCHANGED <<clock, settings, metric, image, traitRule, triggerRule>>
    BY <1>14 DEF DynamicMetadata!BurnToken, DynamicMetadata!settings, DynamicMetadata!rules
  <2>4. log' = [log EXCEPT ![id] = Append(@, ev)]
    BY <2>1, <2>3
  <2> HIDE DEF o, m, x, ev
  <2> QED BY <2>1, <2>2, <2>3, <2>4, EventKeeps DEF m
<1>15. ASSUME NEW id \in 1 .. Len(token), DynamicMetadata!EvolveTraits(id) PROVE MetadataInv'
  BY <1>1, <1>12, <1>15, EvolvedMetadata, EditKeeps DEF DynamicMetadata!EvolveTraits
<1>16. ASSUME NEW id \in 1 .. Len(token), DynamicMetadata!CheckAndApplyTriggers(id)
       PROVE  MetadataInv'
  BY <1>1, <1>12, <1>16, TriggeredMetadata, EditKeeps DEF DynamicMetadata!CheckAndApplyTriggers
<1>17. ASSUME NEW id \in 1 .. Len(token), DynamicMetadata!GetImageUri(id) PROVE MetadataInv'
  <2> DEFINE x == token[id]
             c == [base |-> settings.image_base_uri, level |-> x.level, rarity |-> x.rarity]
  <2>1. /\ image' = [image EXCEPT ![id] = c]
        /\ UNCHANGED <<clock, settings, token, log, versions, metric, traitRule, triggerRule>>
    BY <1>17 DEF DynamicMetadata!GetImageUri, DynamicMetadata!Uri, DynamicMetadata!settings,
                 DynamicMetadata!rules
  <2>2. /\ Agreed(x, versions[id], log[id], image[id]) /\ settings \in MetadataSettings
        /\ token = [token EXCEPT ![id] = x] /\ log = [log EXCEPT ![id] = log[id]]
        /\ versions = [versions EXCEPT ![id] = versions[id]] /\ x \in Metadata
    BY TokenStored
  <2>3. c \in Image /\ c.level = x.level /\ c.rarity = x.rarity
    BY <2>2 DEF Image, Metadata, MetadataSettings
  <2> HIDE DEF c, x
  <2>4. Agreed(x, versions[id], log[id], c)
    BY <2>2, <2>3 DEF Agreed
  <2>5. metric' \in Seq([OfDynamicMetadata.Metrics -> Nat]) /\ Len(metric') = Len(metric)
    BY <1>1, <2>1 DEF MetadataTypes
  <2> QED BY <2>1, <2>2, <2>4, <2>5, TokenChanges
<1>18. ASSUME NEW id \in 1 .. Len(token), NEW c \in OfDynamicMetadata.Contents,
              DynamicMetadata!UpdateMetadata(id, c)
       PROVE  MetadataInv'
  <2> DEFINE m == [token[id] EXCEPT !.content = c]
  <2>1. m \in Metadata /\ m.owner = token[id].owner
    BY <1>12 DEF Metadata
  <2> HIDE DEF m
  <2> QED BY <1>18, <2>1, EditKeeps DEF m, DynamicMetadata!UpdateMetadata
<1>19. ASSUME NEW id \in 1 .. Len(token), NEW t \in OfDynamicMetadata.Traits,
              DynamicMetadata!AddStringTrait(id, t) \/ DynamicMetadata!RemoveStringTrait(id, t)
       PROVE  MetadataInv'
  <2> DEFINE a == token[id].string_traits \cup {t}
             d == token[id].string_traits \ {t}
             m == [token[id] EXCEPT !.string_traits = a]
             w == [token[id] EXCEPT !.string_traits = d]
  <2>1. a \in SUBSET TraitKeys /\ d \in SUBSET TraitKeys
    BY <1>12 DEF Metadata, TraitKeys
  <2>2. DynamicMetadata!Edit(id, m) \/ DynamicMetadata!Edit(id, w)
    BY <1>19 DEF DynamicMetadata!AddStringTrait, DynamicMetadata!RemoveStringTrait
  <2> HIDE DEF a, d
  <2>3. /\ m \in Metadata /\ m.owner = token[id].owner
        /\ w \in Metadata /\ w.owner = token[id].owner
    BY <1>12, <2>1 DEF Metadata
  <2> HIDE DEF m, w
  <2> QED BY <2>2, <2>3, EditKeeps
<1>20. ASSUME NEW id \in 1 .. Len(token), NEW t \in OfDynamicMetadata.Traits, NEW v \in Nat,
              DynamicMetadata!Edit(id, [token[id] EXCEPT !.numeric_traits =
                                          DynamicMetadata!Put(@, t, v)])
       PROVE  MetadataInv'
  <2> DEFINE a == DynamicMetadata!Put(token[id].numeric_traits, t, v)
             m == [token[id] EXCEPT !.numeric_traits = a]
  <2>1. token[id].numeric_traits \in Numbers /\ t \in TraitKeys
    BY <1>12 DEF Metadata, TraitKeys
  <2>2. a \in Numbers
    BY <2>1, PutNumber
  <2>3. DynamicMetadata!Edit(id, m)
    BY <1>20
  <2> HIDE DEF a
  <2>4. m \in Metadata /\ m.owner = token[id].owner
    BY <1>12, <2>2 DEF Metadata
  <2> HIDE DEF m
  <2> QED BY <2>3, <2>4, EditKeeps
<1>21. ASSUME NEW id \in 1 .. Len(token), NEW t \in OfDynamicMetadata.Traits,
              NEW v \in OfDynamicMetadata.Values, DynamicMetadata!AddNumericTrait(id, t, v)
       PROVE  MetadataInv'
  BY <1>20, <1>21, DynamicMetadataAssumption DEF DynamicMetadata!AddNumericTrait
<1>22. ASSUME NEW id \in 1 .. Len(token), NEW t \in OfDynamicMetadata.Traits,
              NEW v \in OfDynamicMetadata.Values, DynamicMetadata!IncrementNumericTrait(id, t, v)
       PROVE  MetadataInv'
  <2> DEFINE held == token[id].numeric_traits
             old == IF t \in DOMAIN held THEN held[t] ELSE 0
  <2>1. DynamicMetadata!Edit(id, [token[id] EXCEPT !.numeric_traits =
                                    DynamicMetadata!Put(@, t, old + v)])
    BY <1>22 DEF DynamicMetadata!IncrementNumericTrait
  <2>2. old + v \in Nat
    <3>1. held \in Numbers /\ v \in Nat
      BY <1>12, DynamicMetadataAssumption DEF Metadata
    <3> HIDE DEF held
    <3>2. old \in Nat
      BY <3>1 DEF Numbers
    <3> QED BY <3>1, <3>2
  <2> HIDE DEF old
  <2> QED BY <1>20, <2>1, <2>2
<1>23. ASSUME NEW id \in 1 .. Len(token), NEW f \in BOOLEAN, DynamicMetadata!SetFrozen(id, f)
       PROVE  MetadataInv'
  <2> DEFINE m == [token[id] EXCEPT !.frozen = f]
  <2>1. m \in Metadata /\ m.owner = token[id].owner
    BY <1>12 DEF Metadata
  <2>2. /\ DynamicMetadata!Write(id, m)
        /\ UNCHANGED <<clock, settings, log, metric, traitRule, triggerRule>>
    BY <1>23 DEF DynamicMetadata!SetFrozen, DynamicMetadata!settings, DynamicMetadata!rules
  <2> HIDE DEF m
  <2> QED BY <2>1, <2>2, WriteKeeps
<1>24. ASSUME NEW id \in 1 .. Len(token), NEW k \in OfDynamicMetadata.Metrics,
              NEW v \in OfDynamicMetadata.Values,
              DynamicMetadata!SetPerformanceMetric(id, k, v)
                \/ DynamicMetadata!AddPerformanceMetric(id, k, v)
       PROVE  MetadataInv'
  <2> DEFINE old == metric[id][k]
             up == old + v
             d == DynamicMetadata!Less(v, old)
  <2>1. old \in Nat /\ v \in Nat
    BY <1>12, DynamicMetadataAssumption
  <2>2. up \in Nat /\ d \in Nat
    BY <2>1 DEF DynamicMetadata!Less
  <2>3. DynamicMetadata!Report(id, k, v, d) \/ DynamicMetadata!Report(id, k, up, v)
    BY <1>24 DEF DynamicMetadata!SetPerformanceMetric, DynamicMetadata!AddPerformanceMetric
  <2> HIDE DEF up, d
  <2> QED BY <2>1, <2>2, <2>3, ReportKeeps
<1> QED BY <1>1, <1>3, <1>4, <1>5, <1>6, <1>7, <1>8, <1>9, <1>10, <1>11, <1>13, <1>14, <1>15, <1>16,
           <1>17, <1>18, <1>19, <1>21, <1>22, <1>23, <1>24, MintKeeps, MigrateKeeps
        DEF DynamicMetadata!Next

LEMMA DynamicMetadataStays ==
  ASSUME MetadataInv, UNCHANGED DynamicMetadata!vars PROVE MetadataInv'
BY DEF DynamicMetadata!vars, MetadataInv, MetadataTypes, Agreed

LEMMA DynamicMetadataInit == ASSUME DynamicMetadata!Init PROVE MetadataInv
<1>1. MetadataTypes
  BY DEF DynamicMetadata!Init, MetadataTypes
<1>2. Len(token) = 0
  BY DEF DynamicMetadata!Init
<1> QED BY <1>1, <1>2 DEF MetadataInv

LEMMA DynamicMetadataSays == ASSUME MetadataInv PROVE DynamicMetadata!VersionsAgree
<1>1. DOMAIN token = 1 .. Len(token)
  BY DEF MetadataInv, MetadataTypes
<1> QED BY <1>1 DEF MetadataInv, Agreed, DynamicMetadata!VersionsAgree

-----------------------------------------------------------------------------
(***************************************************************************)
(* Proofs: leaderboards of the best, and numbered editions.                *)
(***************************************************************************)
SetIds == 1 .. OfAchievementSets.MaxSets
RankedEntry == [player : OfAchievementSets.Players, score : Nat]
EditionToken == [set_id : SetIds, serial : Nat, owner : OfAchievementSets.Players]
SetTiers == {"Common", "Rare", "Epic", "Legendary", "Mythic"}

\* Bonuses are positive, and a leaderboard has room for somebody.
ASSUME AchievementSetsAssumption ==
  /\ OfAchievementSets.MaxSets \in Nat
  /\ OfAchievementSets.Tops \subseteq Nat \ {0} /\ None \notin OfAchievementSets.Tops
  /\ \A d \in OfAchievementSets.SetDefs :
        d.base_bonus \in Nat /\ d.tier \in SetTiers /\ d.cap \in Nat \cup {None}
  /\ \A d \in OfAchievementSets.SynergyDefs : d.bonus \in Nat

\* The entries of a leaderboard: each player once, with the total, best first.
Ranks(l, total) ==
  /\ \A i \in 1 .. Len(l) : l[i].score = total[l[i].player]
  /\ \A i, j \in 1 .. Len(l) : i < j => l[i].player # l[j].player /\ l[i].score >= l[j].score

\* Who is left out of the m best is no better than those shown.
BestFirst(l, total, m) ==
  /\ l \in Seq(RankedEntry) /\ Len(l) <= m /\ Ranks(l, total)
  /\ \A p \in OfAchievementSets.Players :
        total[p] > 0 /\ (\A i \in 1 .. Len(l) : l[i].player # p)
          => Len(l) = m /\ \A i \in 1 .. Len(l) : total[p] <= l[i].score

BoardTypes ==
  /\ top \in OfAchievementSets.Tops \cup {None}
  /\ set \in Seq(OfAchievementSets.SetDefs) /\ Len(set) <= OfAchievementSets.MaxSets
  /\ synergy \in Seq(OfAchievementSets.SynergyDefs)
  /\ top = None => Len(set) = 0 /\ Len(synergy) = 0
  /\ bonus \in [OfAchievementSets.Players -> Nat]
  /\ claims \in [SetIds -> Nat]
  /\ edition \in Seq(EditionToken)
  /\ editions \in [OfAchievementSets.Players -> SUBSET Nat]

Boards ==
  /\ top = None => scores = <<>> /\ \A p \in OfAchievementSets.Players : bonus[p] = 0
  /\ top # None => BestFirst(scores, bonus, top)

\* The serial numbers of the set s among the tokens t, and those that p owns.
Serials(t, s) == {t[i].serial : i \in {j \in 1 .. Len(t) : t[j].set_id = s}}
OwnedBy(t, p) == {i \in 1 .. Len(t) : t[i].owner = p}

EditionsNumbered ==
  /\ \A s \in SetIds :
        /\ Serials(edition, s) = 1 .. claims[s]
        /\ claims[s] > 0 => /\ s \in 1 .. Len(set) /\ set[s].cap # None
                            /\ claims[s] <= set[s].cap
  /\ \A p \in OfAchievementSets.Players : editions[p] = OwnedBy(edition, p)
  /\ Len(edition) = Total(claims)

AchievementInv == BoardTypes /\ Boards /\ EditionsNumbered

-----------------------------------------------------------------------------
\* Others takes the entry of p out.
LEMMA EntryOut ==
  ASSUME NEW l \in Seq(RankedEntry), NEW total, Ranks(l, total), NEW p \in OfAchievementSets.Players
  PROVE  LET o == AchievementSets!Others(l, p) IN
         /\ o \in Seq(RankedEntry) /\ Ranks(o, total)
         /\ \A j \in 1 .. Len(o) : o[j].player # p /\ \E i \in 1 .. Len(l) : o[j] = l[i]
         /\ \A i \in 1 .. Len(l) : l[i].player # p => \E j \in 1 .. Len(o) : o[j] = l[i]
         /\ \/ Len(o) = Len(l) /\ \A i \in 1 .. Len(l) : l[i].player # p
            \/ Len(o) = Len(l) - 1 /\ \E i \in 1 .. Len(l) : l[i].player = p
<1> DEFINE m == Len(l)
           of_p == {i \in DOMAIN l : l[i].player = p}
           x == CHOOSE i \in of_p : TRUE
           g == [j \in 1 .. m - 1 |-> IF j < x THEN l[j] ELSE l[j + 1]]
           o == AchievementSets!Others(l, p)
<1>1. o = IF of_p = {} THEN l ELSE g
  BY Zenon DEF AchievementSets!Others
<1>2. m \in Nat /\ DOMAIN l = 1 .. m /\ \A i \in 1 .. m : l[i] \in RankedEntry
  OBVIOUS
<1>3. CASE of_p = {}
  <2>1. o = l /\ \A i \in 1 .. m : l[i].player # p
    BY <1>1, <1>2, <1>3
  <2> QED BY <2>1
<1>4. CASE of_p # {}
  <2>1. o = g /\ x \in of_p
    BY <1>1, <1>4
  <2>2. x \in 1 .. m /\ l[x].player = p
    BY <1>2, <2>1
  <2> HIDE DEF x, of_p
  <2>3. \A i, j \in 1 .. m : i < j => l[i].player # l[j].player /\ l[i].score >= l[j].score
    BY DEF Ranks
  <2>4. \A i \in 1 .. m : l[i].score = total[l[i].player]
    BY DEF Ranks
  <2> DEFINE s(j) == IF j < x THEN j ELSE j + 1
  <2>5. \A j \in 1 .. m - 1 : s(j) \in 1 .. m /\ s(j) # x /\ g[j] = l[s(j)]
    BY <1>2, <2>2
  <2>6. \A i, j \in 1 .. m - 1 : i < j => s(i) < s(j)
    BY <1>2, <2>2
  <2>7. \A i \in 1 .. m : i # x => \E j \in 1 .. m - 1 : s(j) = i
    <3> SUFFICES ASSUME NEW i \in 1 .. m, i # x PROVE \E j \in 1 .. m - 1 : s(j) = i
      OBVIOUS
    <3>1. CASE i < x
      <4>1. i \in 1 .. m - 1 /\ s(i) = i
        BY <1>2, <2>2, <3>1
      <4> QED BY <4>1
    <3>2. CASE i > x
      <4>1. i - 1 \in 1 .. m - 1 /\ s(i - 1) = i
        BY <1>2, <2>2, <3>2
      <4> QED BY <4>1
    <3> QED BY <2>2, <3>1, <3>2
  <2>8. m - 1 \in Nat
    BY <1>2, <2>2
  <2> HIDE DEF s
  <2>9. g \in Seq(RankedEntry) /\ Len(g) = m - 1
    <3>1. g = [j \in 1 .. m - 1 |-> g[j]] /\ \A j \in 1 .. m - 1 : g[j] \in RankedEntry
      BY <1>2, <2>5
    <3> HIDE DEF g, m
    <3>2. g \in [1 .. m - 1 -> RankedEntry]
      BY <3>1
    <3> QED BY <2>8, <3>2, AsSequence
  <2> HIDE DEF g, m
  <2>10. \A i \in 1 .. m : i # x => l[i].player # p
    <3> SUFFICES ASSUME NEW i \in 1 .. m, i # x PROVE l[i].player # p
      OBVIOUS
    <3>1. i < x \/ x < i
      BY <2>2
    <3> QED BY <2>2, <2>3, <3>1
  <2>11. \A i, j \in 1 .. m - 1 : i < j => g[i].player # g[j].player /\ g[i].score >= g[j].score
    BY <2>3, <2>5, <2>6
  <2>12. \A i \in 1 .. m - 1 : g[i].score = total[g[i].player]
    BY <2>4, <2>5
  <2>13. Ranks(g, total)
    BY <2>9, <2>11, <2>12 DEF Ranks
  <2>14. \A j \in 1 .. m - 1 : g[j].player # p /\ \E i \in 1 .. m : g[j] = l[i]
    BY <2>5, <2>10
  <2>15. \A i \in 1 .. m : l[i].player # p => \E j \in 1 .. m - 1 : g[j] = l[i]
    BY <2>2, <2>5, <2>7
  <2> QED BY <2>1, <2>2, <2>9, <2>13, <2>14, <2>15 DEF m
<1> QED BY <1>3, <1>4

\* In g, of at most n entries, the entry e is at k among those of o.
PlacedAt(g, o, k, e, n) ==
  /\ g \in Seq(RankedEntry) /\ k \in 1 .. Len(o) + 1
  /\ Len(g) = IF Len(o) < n THEN Len(o) + 1 ELSE n
  /\ \A j \in 1 .. Len(o) : j < k <=> o[j].score >= e.score
  /\ \A j \in 1 .. Len(g) : \/ j < k /\ j \in 1 .. Len(o) /\ g[j] = o[j]
                            \/ j = k /\ g[j] = e
                            \/ j > k /\ j - 1 \in 1 .. Len(o) /\ g[j] = o[j - 1]

LEMMA EntryIn ==
  ASSUME NEW o \in Seq(RankedEntry), NEW total, Ranks(o, total), top \in Nat, Len(o) <= top,
         NEW p \in OfAchievementSets.Players, NEW n \in Nat
  PROVE  \E k \in 1 .. Len(o) + 1 :
           PlacedAt(AchievementSets!Inserted(o, p, n), o, k, [player |-> p, score |-> n], top)
<1> DEFINE m == Len(o)
           e == [player |-> p, score |-> n]
           T == {j \in 1 .. m + 1 : j \in DOMAIN o => o[j].score < n}
           Here(j) == /\ \A i \in 1 .. j - 1 : o[i].score >= n
                      /\ j \in DOMAIN o => o[j].score < n
           k == CHOOSE j \in 1 .. m + 1 : Here(j)
           size == IF m < top THEN m + 1 ELSE top
           g == [j \in 1 .. size |-> CASE j < k -> o[j] [] j = k -> e [] j > k -> o[j - 1]]
<1>1. m \in Nat /\ DOMAIN o = 1 .. m /\ \A i \in 1 .. m : o[i] \in RankedEntry /\ o[i].score \in Nat
  <2>1. m \in Nat /\ DOMAIN o = 1 .. m /\ \A i \in 1 .. m : o[i] \in RankedEntry
    OBVIOUS
  <2> QED BY <2>1 DEF RankedEntry
<1>2. \E j \in 1 .. m + 1 : Here(j)
  <2>1. T \in SUBSET Nat /\ m + 1 \in T
    BY <1>1
  <2>2. PICK x \in T : \A y \in T : x <= y
    <3> HIDE DEF T
    <3> QED BY <2>1, Least
  <2>3. x \in 1 .. m + 1 /\ (x \in DOMAIN o => o[x].score < n)
    OBVIOUS
  <2>4. ASSUME NEW i \in 1 .. x - 1 PROVE o[i].score >= n
    <3>1. i \in 1 .. m + 1 /\ i \in 1 .. m /\ ~ (x <= i)
      BY <1>1, <2>3
    <3>2. i \notin T
      BY <2>2, <3>1
    <3>3. ~ (o[i].score < n)
      BY <3>1, <3>2
    <3> QED BY <1>1, <3>1, <3>3
  <2> QED BY <2>3, <2>4
<1>3. AchievementSets!Inserted(o, p, n) = g
  BY Zenon DEF AchievementSets!Inserted
<1>4. k \in 1 .. m + 1 /\ Here(k)
  <2> HIDE DEF Here
  <2> QED BY <1>2
<1> HIDE DEF k
<1>5. ASSUME NEW j \in 1 .. m PROVE j < k <=> o[j].score >= n
  <2>1. CASE j < k
    <3>1. j \in 1 .. k - 1
      BY <1>1, <1>4, <2>1
    <3> QED BY <1>4, <2>1, <3>1
  <2>2. CASE j = k
    BY <1>1, <1>4, <2>2
  <2>3. CASE j > k
    <3>1. k \in 1 .. m
      BY <1>1, <1>4, <2>3
    <3>2. o[k].score < n /\ o[k].score >= o[j].score
      BY <1>1, <1>4, <2>3, <3>1 DEF Ranks
    <3> QED BY <1>1, <2>3, <3>1, <3>2
  <2> QED BY <1>1, <1>4, <2>1, <2>2, <2>3
<1> HIDE DEF Here
<1>6. size \in Nat /\ size <= m + 1
  BY <1>1
<1>7. e \in RankedEntry /\ e.score = n
  BY DEF RankedEntry
<1> HIDE DEF e, m
<1>8. ASSUME NEW j \in 1 .. size
      PROVE  \/ j < k /\ j \in 1 .. m /\ g[j] = o[j]
             \/ j = k /\ g[j] = e
             \/ j > k /\ j - 1 \in 1 .. m /\ g[j] = o[j - 1]
  <2> HIDE DEF size
  <2>1. CASE j < k
    BY <1>1, <1>4, <1>6, <2>1
  <2>2. CASE j = k
    BY <1>4, <1>6, <2>2
  <2>3. CASE j > k
    BY <1>1, <1>4, <1>6, <2>3
  <2> QED BY <1>4, <1>6, <2>1, <2>2, <2>3
<1>9. g \in Seq(RankedEntry) /\ Len(g) = size
  <2> HIDE DEF size
  <2>1. \A j \in 1 .. size : g[j] \in RankedEntry
    <3> HIDE DEF g
    <3> QED BY <1>1, <1>7, <1>8
  <2>2. g \in [1 .. size -> RankedEntry]
    BY <2>1
  <2> HIDE DEF g
  <2> QED BY <1>6, <2>2, AsSequence
<1> HIDE DEF g
<1>10. PlacedAt(g, o, k, e, top)
  BY <1>4, <1>5, <1>7, <1>8, <1>9 DEF PlacedAt, m
<1> QED BY <1>3, <1>4, <1>10 DEF e, m

\* A leaderboard with the raised total of p still has the best.
LEMMA PlacedRanks ==
  ASSUME NEW o \in Seq(RankedEntry), NEW total \in [OfAchievementSets.Players -> Nat], Ranks(o, total),
         NEW p \in OfAchievementSets.Players, NEW n \in Nat, \A j \in 1 .. Len(o) : o[j].player # p,
         NEW after, after = [total EXCEPT ![p] = n],
         NEW g, NEW k, NEW m \in Nat, PlacedAt(g, o, k, [player |-> p, score |-> n], m)
  PROVE  Ranks(g, after)
<1> DEFINE e == [player |-> p, score |-> n]
<1>1. e.player = p /\ e.score = n
  OBVIOUS
<1>2. \A j \in 1 .. Len(o) : o[j] \in RankedEntry /\ Len(o) \in Nat
  OBVIOUS
<1>3. \A j \in 1 .. Len(o) : o[j].player \in OfAchievementSets.Players /\ o[j].score \in Nat
  BY <1>2 DEF RankedEntry
<1>4. /\ \A j \in 1 .. Len(o) : o[j].score = after[o[j].player] /\ o[j].player # p
      /\ after[p] = n
  BY <1>3 DEF Ranks
<1>5. /\ k \in 1 .. Len(o) + 1 /\ Len(g) \in Nat /\ Len(o) \in Nat
      /\ \A j \in 1 .. Len(o) : j < k <=> o[j].score >= n
      /\ \A j \in 1 .. Len(g) : \/ j < k /\ j \in 1 .. Len(o) /\ g[j] = o[j]
                                \/ j = k /\ g[j] = e
                                \/ j > k /\ j - 1 \in 1 .. Len(o) /\ g[j] = o[j - 1]
  BY DEF PlacedAt
<1>6. \A i, j \in 1 .. Len(o) : i < j => o[i].player # o[j].player /\ o[i].score >= o[j].score
  BY DEF Ranks
<1> HIDE DEF e
<1>7. ASSUME NEW j \in 1 .. Len(g) PROVE g[j].score = after[g[j].player]
  BY <1>1, <1>4, <1>5
<1>8. ASSUME NEW a \in 1 .. Len(g), NEW b \in 1 .. Len(g), a < b
      PROVE  g[a].player # g[b].player /\ g[a].score >= g[b].score
  <2>1. CASE b < k
    <3>1. a < k /\ a \in 1 .. Len(o) /\ g[a] = o[a] /\ b \in 1 .. Len(o) /\ g[b] = o[b]
      BY <1>5, <1>8, <2>1
    <3> QED BY <1>6, <1>8, <3>1
  <2>2. CASE b = k
    <3>1. a < k /\ a \in 1 .. Len(o) /\ g[a] = o[a] /\ g[b] = e
      BY <1>5, <1>8, <2>2
    <3> QED BY <1>1, <1>4, <1>5, <3>1
  <2>3. CASE b > k
    <3>1. b - 1 \in 1 .. Len(o) /\ g[b] = o[b - 1]
      BY <1>5, <2>3
    <3>2. CASE a < k
      <4>1. a \in 1 .. Len(o) /\ g[a] = o[a] /\ a < b - 1
        BY <1>5, <2>3, <3>2
      <4> QED BY <1>6, <3>1, <4>1
    <3>3. CASE a = k
      <4>1. g[a] = e /\ ~ (b - 1 < k)
        BY <1>5, <2>3, <3>3
      <4>2. ~ (o[b - 1].score >= n) /\ o[b - 1].score \in Nat
        BY <1>3, <1>5, <3>1, <4>1
      <4> QED BY <1>1, <1>4, <3>1, <4>1, <4>2
    <3>4. CASE a > k
      <4>1. a - 1 \in 1 .. Len(o) /\ g[a] = o[a - 1] /\ a - 1 < b - 1
        BY <1>5, <1>8, <3>4
      <4> QED BY <1>6, <3>1, <4>1
    <3> QED BY <1>5, <3>2, <3>3, <3>4
  <2> QED BY <1>5, <2>1, <2>2, <2>3
<1> QED BY <1>7, <1>8 DEF Ranks

LEMMA RankedBest ==
  ASSUME NEW l, NEW total \in [OfAchievementSets.Players -> Nat], top \in Nat \ {0},
         BestFirst(l, total, top), NEW p \in OfAchievementSets.Players, NEW n \in Nat, total[p] <= n,
         NEW after, after = [total EXCEPT ![p] = n]
  PROVE  BestFirst(AchievementSets!Ranked(l, p, n), after, top)
<1> DEFINE o == AchievementSets!Others(l, p)
           g == AchievementSets!Inserted(o, p, n)
           e == [player |-> p, score |-> n]
<1>1. /\ l \in Seq(RankedEntry) /\ Len(l) <= top /\ Ranks(l, total)
      /\ \A q \in OfAchievementSets.Players :
            total[q] > 0 /\ (\A i \in 1 .. Len(l) : l[i].player # q)
              => Len(l) = top /\ \A i \in 1 .. Len(l) : total[q] <= l[i].score
  BY DEF BestFirst
<1>2. /\ o \in Seq(RankedEntry) /\ Ranks(o, total)
      /\ \A j \in 1 .. Len(o) : o[j].player # p /\ \E i \in 1 .. Len(l) : o[j] = l[i]
      /\ \A i \in 1 .. Len(l) : l[i].player # p => \E j \in 1 .. Len(o) : o[j] = l[i]
      /\ \/ Len(o) = Len(l) /\ \A i \in 1 .. Len(l) : l[i].player # p
         \/ Len(o) = Len(l) - 1 /\ \E i \in 1 .. Len(l) : l[i].player = p
  BY <1>1, EntryOut
<1> HIDE DEF o
<1>3. Len(l) \in Nat /\ Len(o) \in Nat /\ Len(o) <= top /\ top \in Nat
  BY <1>1, <1>2
<1>4. PICK k \in 1 .. Len(o) + 1 : PlacedAt(g, o, k, e, top)
  BY <1>2, <1>3, EntryIn
<1> HIDE DEF g
<1>5. Ranks(g, after)
  BY <1>2, <1>3, <1>4, PlacedRanks
<1>6. e.player = p /\ e.score = n
  OBVIOUS
<1> HIDE DEF e
<1>7. /\ g \in Seq(RankedEntry) /\ Len(g) \in Nat
      /\ Len(g) = IF Len(o) < top THEN Len(o) + 1 ELSE top
      /\ \A j \in 1 .. Len(o) : j < k <=> o[j].score >= n
      /\ \A j \in 1 .. Len(g) : \/ j < k /\ j \in 1 .. Len(o) /\ g[j] = o[j]
                                \/ j = k /\ g[j] = e
                                \/ j > k /\ j - 1 \in 1 .. Len(o) /\ g[j] = o[j - 1]
  BY <1>4, <1>6 DEF PlacedAt
<1>8. Len(g) <= top
  BY <1>3, <1>7
<1>12. /\ Len(g) = IF Len(o) < top THEN Len(o) + 1 ELSE top
       /\ Len(o) \in Nat /\ Len(o) <= top /\ top \in Nat /\ k \in 1 .. Len(o) + 1
  BY <1>3, <1>4, <1>7
<1>13. ASSUME NEW j \in 1 .. Len(g)
       PROVE  \/ j < k /\ j \in 1 .. Len(o) /\ g[j] = o[j]
              \/ j = k /\ g[j] = e
              \/ j > k /\ j - 1 \in 1 .. Len(o) /\ g[j] = o[j - 1]
  BY <1>7
<1>9. /\ \A j \in 1 .. Len(l) : l[j].player \in OfAchievementSets.Players /\ l[j].score \in Nat
      /\ \A j \in 1 .. Len(o) : o[j].player \in OfAchievementSets.Players /\ o[j].score \in Nat
  <2>1. /\ \A j \in 1 .. Len(l) : l[j] \in RankedEntry
        /\ \A j \in 1 .. Len(o) : o[j] \in RankedEntry
    BY <1>1, <1>2
  <2> QED BY <2>1 DEF RankedEntry
<1>10. ASSUME NEW q \in OfAchievementSets.Players, after[q] > 0, \A i \in 1 .. Len(g) : g[i].player # q
       PROVE  Len(g) = top /\ \A i \in 1 .. Len(g) : after[q] <= g[i].score
  <2>1. CASE q = p
    <3>1. k \notin 1 .. Len(g)
      BY <1>6, <1>7, <1>10, <2>1
    <3>2. Len(g) = top /\ k = Len(o) + 1
      BY ONLY <1>12, <3>1
    <3>4. after[q] = n
      BY <2>1
    <3>3. ASSUME NEW i \in 1 .. Len(g) PROVE n <= g[i].score
      <4>1. i < k /\ i \in 1 .. Len(o) /\ g[i] = o[i]
        BY <1>7, <3>1, <3>2
      <4>2. o[i].score >= n /\ o[i].score \in Nat
        BY <1>7, <1>9, <4>1
      <4> QED BY <4>1, <4>2
    <3> QED BY <3>2, <3>3, <3>4
  <2>2. CASE q # p
    <3>1. after[q] = total[q] /\ total[q] > 0
      BY <1>10, <2>2
    \* An entry of o that is as good as q, or q is the one that was cut.
    <3>2. /\ Len(g) = top /\ \A j \in 1 .. Len(o) : total[q] <= o[j].score
          /\ k <= Len(g) => total[q] <= n
      <4>1. CASE \A i \in 1 .. Len(l) : l[i].player # q
        <5>1. Len(l) = top /\ \A i \in 1 .. Len(l) : total[q] <= l[i].score
          BY <1>1, <3>1, <4>1
        <5>2. \A j \in 1 .. Len(o) : total[q] <= o[j].score
          BY <1>2, <5>1
        <5>3. Len(g) = top
          BY <1>2, <1>3, <1>7, <5>1
        <5>4. ASSUME k <= Len(g) PROVE total[q] <= n
          <6>1. CASE \E i \in 1 .. Len(l) : l[i].player = p
            <7>1. PICK i \in 1 .. Len(l) : l[i].player = p
              BY <6>1
            <7>2. l[i].score = total[p]
              BY <1>1, <7>1 DEF Ranks
            <7>3. total[q] \in Nat /\ total[p] \in Nat /\ total[q] <= total[p]
              BY <5>1, <7>2
            <7> QED BY <7>3
          <6>2. CASE \A i \in 1 .. Len(l) : l[i].player # p
            <7>1. k \in 1 .. Len(o)
              <8>1. Len(o) = top
                BY <1>2, <1>3, <5>1, <6>2
              <8> QED BY <1>12, <5>3, <5>4, <8>1
            <7>2. ~ (o[k].score >= n) /\ o[k].score \in Nat /\ total[q] <= o[k].score
              BY <1>7, <1>9, <5>2, <7>1
            <7>3. total[q] \in Nat
              OBVIOUS
            <7> QED BY <7>2, <7>3
          <6> QED BY <6>1, <6>2
        <5> QED BY <5>2, <5>3, <5>4
      <4>2. CASE ~ (\A i \in 1 .. Len(l) : l[i].player # q)
        <5>1. PICK i \in 1 .. Len(l) : l[i].player = q
          BY <4>2
        <5>2. PICK j \in 1 .. Len(o) : o[j] = l[i]
          BY <1>2, <2>2, <5>1
        <5>3. o[j].player = q /\ o[j].score = total[q] /\ total[q] \in Nat
          BY <1>2, <5>1, <5>2 DEF Ranks
        <5>4. ~ (j < k) /\ j = Len(g) /\ j = Len(o)
          <6>1. j < k => j \notin 1 .. Len(g)
            BY <1>10, <1>12, <1>13, <5>3
          <6>2. ~ (j < k) => j + 1 \notin 1 .. Len(g)
            <7> SUFFICES ASSUME ~ (j < k), j + 1 \in 1 .. Len(g) PROVE FALSE
              OBVIOUS
            <7>1. j + 1 > k /\ j + 1 - 1 = j
              BY <1>4
            <7>2. g[j + 1] = o[j]
              BY <1>4, <1>7, <7>1
            <7> QED BY <1>10, <5>3, <7>2
          <6>3. Len(g) >= Len(o)
            BY <1>3, <1>7
          <6> QED BY <1>3, <1>4, <1>7, <6>1, <6>2, <6>3
        <5>5. Len(g) = top
          BY <1>3, <1>7, <5>4
        <5>6. ASSUME NEW b \in 1 .. Len(o) PROVE total[q] <= o[b].score
          <6>1. b < j \/ b = j
            BY <1>3, <5>4
          <6>2. CASE b < j
            <7>1. o[b].score >= o[j].score /\ o[b].score \in Nat
              BY <1>2, <1>9, <6>2 DEF Ranks
            <7> QED BY <5>3, <7>1
          <6>3. CASE b = j
            BY <5>3, <6>3
          <6> QED BY <6>1, <6>2, <6>3
        <5>7. ~ (o[j].score >= n)
          BY <1>7, <5>4
        <5> QED BY <5>3, <5>5, <5>6, <5>7
      <4> QED BY <4>1, <4>2
    <3>3. ASSUME NEW i \in 1 .. Len(g) PROVE after[q] <= g[i].score
      <4>1. CASE i < k /\ i \in 1 .. Len(o) /\ g[i] = o[i]
        BY <3>1, <3>2, <4>1
      <4>2. CASE i = k /\ g[i] = e
        BY <1>6, <1>12, <3>1, <3>2, <4>2
      <4>3. CASE i > k /\ i - 1 \in 1 .. Len(o) /\ g[i] = o[i - 1]
        BY <3>1, <3>2, <4>3
      <4> QED BY <1>13, <4>1, <4>2, <4>3
    <3> QED BY <3>2, <3>3
  <2> QED BY <2>1, <2>2
<1>11. AchievementSets!Ranked(l, p, n) = g
  BY DEF AchievementSets!Ranked, g, o
<1> QED BY <1>5, <1>7, <1>8, <1>10, <1>11 DEF BestFirst

-----------------------------------------------------------------------------
\* A bonus for p keeps the global leaderboard.
LEMMA BonusAdded ==
  ASSUME BoardTypes, Boards, top # None, NEW p \in OfAchievementSets.Players, NEW n \in Nat,
         AchievementSets!AddPlayerBonus(p, n), top' = top
  PROVE  bonus' \in [OfAchievementSets.Players -> Nat] /\ Boards'
<1> DEFINE more == bonus[p] + n
<1>1. /\ bonus' = [bonus EXCEPT ![p] = more]
      /\ scores' = AchievementSets!Ranked(scores, p, more)
  BY DEF AchievementSets!AddPlayerBonus
<1>2. bonus \in [OfAchievementSets.Players -> Nat] /\ BestFirst(scores, bonus, top)
      /\ top \in Nat \ {0}
  BY AchievementSetsAssumption DEF BoardTypes, Boards
<1>3. more \in Nat /\ bonus[p] <= more
  <2>1. bonus[p] \in Nat
    BY <1>2
  <2> QED BY <2>1
<1> HIDE DEF more
<1>4. BestFirst(scores', bonus', top)
  BY <1>1, <1>2, <1>3, RankedBest
<1>5. bonus' \in [OfAchievementSets.Players -> Nat]
  BY <1>1, <1>2, <1>3
<1> QED BY <1>4, <1>5 DEF Boards

\* The tokens with one more.
LEMMA EditionMore ==
  ASSUME NEW t \in Seq(EditionToken), NEW x \in EditionToken
  PROVE  LET u == Append(t, x) IN
         /\ u \in Seq(EditionToken) /\ Len(u) = Len(t) + 1
         /\ \A s : Serials(u, s) = IF s = x.set_id THEN Serials(t, s) \cup {x.serial} ELSE Serials(t, s)
         /\ \A p : OwnedBy(u, p) = IF p = x.owner THEN OwnedBy(t, p) \cup {Len(t) + 1} ELSE OwnedBy(t, p)
<1> DEFINE u == Append(t, x)
           m == Len(t)
<1>1. /\ u \in Seq(EditionToken) /\ Len(u) = m + 1 /\ m \in Nat /\ u[m + 1] = x
      /\ \A j \in 1 .. m : u[j] = t[j]
  BY Appended
<1> HIDE DEF u, m
<1>2. \A i : i \in 1 .. m + 1 <=> i \in 1 .. m \/ i = m + 1
  BY <1>1
<1>3. m + 1 \notin 1 .. m
  BY <1>1
<1>4. ASSUME NEW s
      PROVE  Serials(u, s) = IF s = x.set_id THEN Serials(t, s) \cup {x.serial} ELSE Serials(t, s)
  <2> DEFINE S == {j \in 1 .. Len(u) : u[j].set_id = s}
             R == {j \in 1 .. m : t[j].set_id = s}
  <2>1. CASE s = x.set_id
    <3>1. S = R \cup {m + 1}
      BY <1>1, <1>2, <2>1
    <3>2. \A i \in R : u[i].serial = t[i].serial
      BY <1>1
    <3>3. u[m + 1].serial = x.serial
      BY <1>1
    <3>4. Serials(u, s) = {u[i].serial : i \in R \cup {m + 1}}
      BY <3>1 DEF Serials
    <3>5. Serials(t, s) = {t[i].serial : i \in R}
      BY DEF Serials, m
    <3> HIDE DEF R, S
    <3>6. Serials(u, s) = {u[i].serial : i \in R} \cup {u[m + 1].serial}
      BY <3>4
    <3>7. {u[i].serial : i \in R} = {t[i].serial : i \in R}
      BY <3>2
    <3> QED BY <2>1, <3>3, <3>5, <3>6, <3>7
  <2>2. CASE s # x.set_id
    <3>1. S = R
      BY <1>1, <1>2, <2>2
    <3>2. \A i \in R : u[i].serial = t[i].serial
      BY <1>1
    <3>3. Serials(u, s) = {u[i].serial : i \in S} /\ Serials(t, s) = {t[i].serial : i \in R}
      BY DEF Serials, m
    <3> HIDE DEF R, S
    <3>4. {u[i].serial : i \in R} = {t[i].serial : i \in R}
      BY <3>2
    <3> QED BY <2>2, <3>1, <3>3, <3>4
  <2> QED BY <2>1, <2>2
<1>5. ASSUME NEW p
      PROVE  OwnedBy(u, p) = IF p = x.owner THEN OwnedBy(t, p) \cup {m + 1} ELSE OwnedBy(t, p)
  <2>1. OwnedBy(t, p) = {i \in 1 .. m : t[i].owner = p}
        /\ OwnedBy(u, p) = {i \in 1 .. m + 1 : u[i].owner = p}
    BY <1>1 DEF OwnedBy, m
  <2>2. CASE p = x.owner
    BY <1>1, <1>2, <2>1, <2>2
  <2>3. CASE p # x.owner
    BY <1>1, <1>2, <2>1, <2>3
  <2> QED BY <2>2, <2>3
<1> QED BY <1>1, <1>4, <1>5 DEF u, m

LEMMA EditionMinted ==
  ASSUME BoardTypes, EditionsNumbered, NEW p \in OfAchievementSets.Players, NEW s \in 1 .. Len(set),
         set[s].cap # None, claims[s] < set[s].cap,
         AchievementSets!MintEdition(p, s), set' = set
  PROVE  /\ claims' \in [SetIds -> Nat] /\ edition' \in Seq(EditionToken)
         /\ editions' \in [OfAchievementSets.Players -> SUBSET Nat]
         /\ EditionsNumbered'
<1> DEFINE n == claims[s] + 1
           x == [set_id |-> s, serial |-> n, owner |-> p]
           m == Len(edition)
<1>1. /\ claims' = [claims EXCEPT ![s] = n]
      /\ edition' = Append(edition, x)
      /\ editions' = [editions EXCEPT ![p] = editions[p] \cup {m + 1}]
  BY DEF AchievementSets!MintEdition
<1>2. /\ set \in Seq(OfAchievementSets.SetDefs) /\ claims \in [SetIds -> Nat]
      /\ edition \in Seq(EditionToken) /\ s \in SetIds
      /\ editions \in [OfAchievementSets.Players -> SUBSET Nat]
      /\ IsFiniteSet(SetIds)
  <2>1. set \in Seq(OfAchievementSets.SetDefs) /\ Len(set) <= OfAchievementSets.MaxSets
        /\ OfAchievementSets.MaxSets \in Nat
    BY AchievementSetsAssumption DEF BoardTypes
  <2>2. 1 \in Int /\ OfAchievementSets.MaxSets \in Int /\ s \in SetIds
    BY <2>1 DEF SetIds
  <2>3. IsFiniteSet(SetIds)
    BY <2>2, FS_Interval DEF SetIds
  <2> QED BY <2>1, <2>2, <2>3 DEF BoardTypes
<1>3. claims[s] \in Nat /\ n \in Nat /\ m \in Nat
  BY <1>2
<1>4. x \in EditionToken /\ x.set_id = s /\ x.serial = n /\ x.owner = p
  BY <1>2, <1>3 DEF EditionToken
<1> HIDE DEF x
<1>5. /\ edition' \in Seq(EditionToken) /\ Len(edition') = m + 1
      /\ \A r : Serials(edition', r) = IF r = s THEN Serials(edition, r) \cup {n} ELSE Serials(edition, r)
      /\ \A q : OwnedBy(edition', q) = IF q = p THEN OwnedBy(edition, q) \cup {m + 1}
                                       ELSE OwnedBy(edition, q)
  BY <1>1, <1>2, <1>4, EditionMore
<1> HIDE DEF m
<1>6. /\ claims' \in [SetIds -> Nat] /\ claims'[s] = n
      /\ \A r \in SetIds : r # s => claims'[r] = claims[r]
  BY <1>1, <1>2, <1>3
<1>7. /\ editions' \in [OfAchievementSets.Players -> SUBSET Nat]
      /\ editions'[p] = editions[p] \cup {m + 1}
      /\ \A q \in OfAchievementSets.Players : q # p => editions'[q] = editions[q]
  BY <1>1, <1>2, <1>3
<1>8. /\ \A r \in SetIds :
            /\ Serials(edition, r) = 1 .. claims[r]
            /\ claims[r] > 0 => /\ r \in 1 .. Len(set) /\ set[r].cap # None
                                /\ claims[r] <= set[r].cap
      /\ \A q \in OfAchievementSets.Players : editions[q] = OwnedBy(edition, q)
      /\ m = Total(claims)
  BY DEF EditionsNumbered, m
<1>9. ASSUME NEW r \in SetIds
      PROVE  /\ Serials(edition', r) = 1 .. claims'[r]
             /\ claims'[r] > 0 => /\ r \in 1 .. Len(set) /\ set[r].cap # None
                                  /\ claims'[r] <= set[r].cap
  <2>1. CASE r = s
    <3>1. Serials(edition', r) = (1 .. claims[s]) \cup {claims[s] + 1}
      BY <1>5, <1>8, <2>1
    <3>2. (1 .. claims[s]) \cup {claims[s] + 1} = 1 .. claims[s] + 1
      BY <1>3
    <3>3. set[s].cap \in Nat
      <4>1. set[s] \in OfAchievementSets.SetDefs
        BY <1>2
      <4> QED BY <4>1, AchievementSetsAssumption
    <3>4. claims'[r] <= set[r].cap
      BY <1>3, <1>6, <2>1, <3>3
    <3> QED BY <1>6, <2>1, <3>1, <3>2, <3>4
  <2>2. CASE r # s
    BY <1>5, <1>6, <1>8, <2>2
  <2> QED BY <2>1, <2>2
<1>10. \A q \in OfAchievementSets.Players : editions'[q] = OwnedBy(edition', q)
  BY <1>5, <1>7, <1>8
<1>11. Len(edition') = Total(claims')
  <2>1. claims'[s] = claims[s] + 1 /\ \A r \in SetIds \ {s} : claims'[r] = claims[r]
    BY <1>6
  <2>2. Total(claims') = Total(claims) + 1
    <3> DEFINE f == claims
               g == claims'
               U == SetIds
    <3>1. /\ IsFiniteSet(U) /\ f \in [U -> Nat] /\ g \in [U -> Nat] /\ s \in U
          /\ \A r \in U \ {s} : g[r] = f[r]
      BY <1>2, <1>6, <2>1
    <3>2. g[s] = f[s] + 1 /\ f[s] \in Nat
      BY <1>3, <2>1
    <3> HIDE DEF f, g, U
    <3>3. Total(g) = Total(f) + (g[s] - f[s]) /\ Total(f) \in Nat
      BY ONLY <3>1, TotalChange
    <3>4. Total(g) = Total(f) + 1
      BY <3>2, <3>3
    <3> QED BY <3>4 DEF f, g
  <2> QED BY <1>5, <1>8, <2>2
<1>12. EditionsNumbered'
  BY <1>9, <1>10, <1>11 DEF EditionsNumbered
<1> QED BY <1>5, <1>6, <1>7, <1>12

LEMMA ClaimKeeps ==
  ASSUME AchievementInv, NEW p \in OfAchievementSets.Players, NEW s, AchievementSets!ClaimSetBonus(p, s)
  PROVE  AchievementInv'
<1> DEFINE n == set[s].base_bonus + AchievementSets!TierBonus(set[s].tier)
<1>1. /\ s \in DOMAIN set /\ top' = top /\ set' = set /\ synergy' = synergy
      /\ set[s].cap # None => claims[s] < set[s].cap
      /\ IF set[s].cap # None THEN AchievementSets!MintEdition(p, s)
         ELSE UNCHANGED <<claims, edition, editions>>
      /\ AchievementSets!AddPlayerBonus(p, n)
  BY DEF AchievementSets!ClaimSetBonus, AchievementSets!definitions
<1>2. BoardTypes /\ Boards /\ EditionsNumbered
  BY DEF AchievementInv
<1>3. s \in 1 .. Len(set) /\ set[s] \in OfAchievementSets.SetDefs
  BY <1>1, <1>2 DEF BoardTypes
<1>4. top # None
  BY <1>2, <1>3 DEF BoardTypes
<1>5. n \in Nat
  <2>1. set[s].base_bonus \in Nat /\ set[s].tier \in SetTiers
    BY <1>3, AchievementSetsAssumption
  <2>2. AchievementSets!TierBonus(set[s].tier) \in Nat
    BY <2>1 DEF AchievementSets!TierBonus, SetTiers
  <2> QED BY <2>1, <2>2
<1> HIDE DEF n
<1>6. bonus' \in [OfAchievementSets.Players -> Nat] /\ Boards'
  BY <1>1, <1>2, <1>4, <1>5, BonusAdded
<1>7. /\ claims' \in [SetIds -> Nat] /\ edition' \in Seq(EditionToken)
      /\ editions' \in [OfAchievementSets.Players -> SUBSET Nat]
      /\ EditionsNumbered'
  <2>1. CASE set[s].cap # None
    BY <1>1, <1>2, <1>3, <2>1, EditionMinted
  <2>2. CASE set[s].cap = None
    <3>1. UNCHANGED <<claims, edition, editions, set>>
      BY <1>1, <2>2
    <3> QED BY <1>2, <3>1 DEF BoardTypes, EditionsNumbered
  <2> QED BY <2>1, <2>2
<1>8. BoardTypes'
  BY <1>1, <1>2, <1>6, <1>7 DEF BoardTypes
<1> QED BY <1>6, <1>7, <1>8 DEF AchievementInv

LEMMA SynergyKeeps ==
  ASSUME AchievementInv, NEW p \in OfAchievementSets.Players, NEW y,
         AchievementSets!ClaimSynergyBonus(p, y)
  PROVE  AchievementInv'
<1>1. /\ y \in DOMAIN synergy
      /\ AchievementSets!AddPlayerBonus(p, synergy[y].bonus)
      /\ UNCHANGED <<top, set, synergy, claims, edition, editions>>
  BY DEF AchievementSets!ClaimSynergyBonus, AchievementSets!definitions
<1>2. BoardTypes /\ Boards /\ EditionsNumbered
  BY DEF AchievementInv
<1>3. y \in 1 .. Len(synergy) /\ synergy[y] \in OfAchievementSets.SynergyDefs
  BY <1>1, <1>2 DEF BoardTypes
<1>4. top # None /\ synergy[y].bonus \in Nat
  BY <1>2, <1>3, AchievementSetsAssumption DEF BoardTypes
<1>5. bonus' \in [OfAchievementSets.Players -> Nat] /\ Boards'
  BY <1>1, <1>2, <1>4, BonusAdded
<1>6. BoardTypes' /\ EditionsNumbered'
  BY <1>1, <1>2, <1>5 DEF BoardTypes, EditionsNumbered
<1> QED BY <1>5, <1>6 DEF AchievementInv

LEMMA TransferKeeps ==
  ASSUME AchievementInv, NEW from \in OfAchievementSets.Players, NEW to \in OfAchievementSets.Players,
         NEW id, AchievementSets!TransferEditionToken(from, to, id)
  PROVE  AchievementInv'
<1> DEFINE x == [edition[id] EXCEPT !.owner = to]
<1>1. /\ id \in DOMAIN edition /\ from # to /\ edition[id].owner = from
      /\ editions' = [editions EXCEPT ![from] = editions[from] \ {id}, ![to] = editions[to] \cup {id}]
      /\ edition' = [edition EXCEPT ![id] = x]
      /\ UNCHANGED <<top, set, synergy, claims, scores, bonus>>
  BY DEF AchievementSets!TransferEditionToken, AchievementSets!definitions
<1>2. BoardTypes /\ Boards /\ EditionsNumbered
  BY DEF AchievementInv
<1>3. /\ edition \in Seq(EditionToken) /\ id \in 1 .. Len(edition) /\ edition[id] \in EditionToken
      /\ editions \in [OfAchievementSets.Players -> SUBSET Nat]
  BY <1>1, <1>2 DEF BoardTypes
<1>4. /\ x \in EditionToken /\ x.set_id = edition[id].set_id /\ x.serial = edition[id].serial
      /\ x.owner = to
  BY <1>3 DEF EditionToken
<1> HIDE DEF x
<1>5. /\ edition' \in Seq(EditionToken) /\ Len(edition') = Len(edition) /\ edition'[id] = x
      /\ \A j \in 1 .. Len(edition) : j # id => edition'[j] = edition[j]
  BY <1>1, <1>3, <1>4, Replaced
<1>6. ASSUME NEW s PROVE Serials(edition', s) = Serials(edition, s)
  <2> DEFINE S == {j \in 1 .. Len(edition') : edition'[j].set_id = s}
             R == {j \in 1 .. Len(edition) : edition[j].set_id = s}
  <2>1. \A j \in 1 .. Len(edition) : /\ edition'[j].set_id = edition[j].set_id
                                     /\ edition'[j].serial = edition[j].serial
    BY <1>4, <1>5
  <2>2. S = R /\ \A j \in R : edition'[j].serial = edition[j].serial
    BY <1>5, <2>1
  <2>3. Serials(edition', s) = {edition'[j].serial : j \in S}
        /\ Serials(edition, s) = {edition[j].serial : j \in R}
    BY DEF Serials
  <2> HIDE DEF S, R
  <2> QED BY <2>2, <2>3
<1>7. ASSUME NEW q \in OfAchievementSets.Players PROVE editions'[q] = OwnedBy(edition', q)
  <2>1. editions[q] = {j \in 1 .. Len(edition) : edition[j].owner = q}
    BY <1>2 DEF EditionsNumbered, OwnedBy
  <2>2. OwnedBy(edition', q) = {j \in 1 .. Len(edition) : edition'[j].owner = q}
    BY <1>5 DEF OwnedBy
  <2>3. editions'[q] = IF q = to THEN editions[q] \cup {id}
                       ELSE IF q = from THEN editions[q] \ {id} ELSE editions[q]
    BY <1>1, <1>3
  <2>4. CASE q = to
    BY <1>3, <1>4, <1>5, <2>1, <2>2, <2>3, <2>4
  <2>5. CASE q = from
    <3>1. editions'[q] = editions[q] \ {id} /\ x.owner # q
      BY <1>1, <1>4, <2>3, <2>5
    <3>2. \A j \in 1 .. Len(edition) : edition'[j].owner = q <=> edition[j].owner = q /\ j # id
      BY <1>5, <3>1
    <3> QED BY <2>1, <2>2, <3>1, <3>2
  <2>6. CASE q # to /\ q # from
    BY <1>1, <1>3, <1>4, <1>5, <2>1, <2>2, <2>3, <2>6
  <2> QED BY <2>4, <2>5, <2>6
<1>8. EditionsNumbered'
  BY <1>1, <1>2, <1>5, <1>6, <1>7 DEF EditionsNumbered
<1>9. editions' \in [OfAchievementSets.Players -> SUBSET Nat]
  BY <1>1, <1>3
<1>10. BoardTypes' /\ Boards'
  BY <1>1, <1>2, <1>5, <1>9 DEF BoardTypes, Boards
<1> QED BY <1>8, <1>10 DEF AchievementInv

LEMMA AchievementSetsStep ==
  ASSUME AchievementInv, AchievementSets!Next PROVE AchievementInv'
<1>1. BoardTypes /\ Boards /\ EditionsNumbered
  BY DEF AchievementInv
<1>2. ASSUME NEW n \in OfAchievementSets.Tops, AchievementSets!Initialize(n) PROVE AchievementInv'
  <2>1. top = None /\ top' = n /\ n \in Nat \ {0} /\ n # None
        /\ UNCHANGED <<set, synergy, claims, scores, bonus, edition, editions>>
    BY <1>2, AchievementSetsAssumption DEF AchievementSets!Initialize
  <2>2. BoardTypes' /\ EditionsNumbered'
    BY <1>1, <2>1 DEF BoardTypes, EditionsNumbered
  <2>3. scores = <<>> /\ \A p \in OfAchievementSets.Players : bonus[p] = 0
    BY <1>1, <2>1 DEF Boards
  <2>4. BestFirst(<<>>, bonus, n)
    <3>1. <<>> \in Seq(RankedEntry) /\ Len(<<>>) = 0 /\ 1 .. 0 = {} /\ 0 <= n
      BY <2>1
    <3> QED BY <2>3, <3>1 DEF BestFirst, Ranks
  <2>5. Boards'
    BY <2>1, <2>3, <2>4 DEF Boards
  <2> QED BY <2>2, <2>5 DEF AchievementInv
<1>3. ASSUME NEW d \in OfAchievementSets.SetDefs, AchievementSets!CreateSet(d) PROVE AchievementInv'
  <2>1. top # None /\ Len(set) < OfAchievementSets.MaxSets /\ set' = Append(set, d)
        /\ UNCHANGED <<top, synergy, claims, scores, bonus, edition, editions>>
    BY <1>3 DEF AchievementSets!CreateSet
  <2>2. set \in Seq(OfAchievementSets.SetDefs) /\ OfAchievementSets.MaxSets \in Nat
    BY <1>1, AchievementSetsAssumption DEF BoardTypes
  <2>3. /\ set' \in Seq(OfAchievementSets.SetDefs) /\ Len(set') = Len(set) + 1 /\ Len(set) \in Nat
        /\ \A s \in 1 .. Len(set) : set'[s] = set[s]
    BY <2>1, <2>2, Appended
  <2>4. BoardTypes'
    BY <1>1, <2>1, <2>2, <2>3 DEF BoardTypes
  <2>5. Boards'
    BY <1>1, <2>1 DEF Boards
  <2>6. EditionsNumbered'
    <3>1. \A s \in 1 .. Len(set) : s \in 1 .. Len(set')
      BY <2>3
    <3> QED BY <1>1, <2>1, <2>3, <3>1 DEF EditionsNumbered
  <2> QED BY <2>4, <2>5, <2>6 DEF AchievementInv
<1>4. ASSUME NEW d \in OfAchievementSets.SynergyDefs, AchievementSets!CreateSynergy(d)
      PROVE  AchievementInv'
  <2>1. top # None /\ synergy' = Append(synergy, d)
        /\ UNCHANGED <<top, set, claims, scores, bonus, edition, editions>>
    BY <1>4 DEF AchievementSets!CreateSynergy
  <2>2. synergy' \in Seq(OfAchievementSets.SynergyDefs)
    BY <1>1, <2>1, Appended DEF BoardTypes
  <2>3. BoardTypes' /\ Boards' /\ EditionsNumbered'
    BY <1>1, <2>1, <2>2 DEF BoardTypes, Boards, EditionsNumbered
  <2> QED BY <2>3 DEF AchievementInv
<1>5. ASSUME UNCHANGED <<top, set, synergy, claims, scores, bonus, edition, editions>>
      PROVE  AchievementInv'
  BY <1>1, <1>5 DEF AchievementInv, BoardTypes, Boards, EditionsNumbered
<1>6. ASSUME NEW p, NEW z, AchievementSets!PuzzleIdsOf(p, z) \/ AchievementSets!SyncPlayerSet(p, z)
      PROVE  AchievementInv'
  <2>1. UNCHANGED <<top, set, synergy, claims, scores, bonus, edition, editions>>
    BY <1>6 DEF AchievementSets!PuzzleIdsOf, AchievementSets!SyncPlayerSet, AchievementSets!definitions
  <2> QED BY <1>5, <2>1
<1> QED BY <1>2, <1>3, <1>4, <1>6, ClaimKeeps, SynergyKeeps, TransferKeeps DEF AchievementSets!Next

LEMMA AchievementSetsStays ==
  ASSUME AchievementInv, UNCHANGED AchievementSets!vars PROVE AchievementInv'
BY DEF AchievementSets!vars, AchievementInv, BoardTypes, Boards, EditionsNumbered

LEMMA AchievementSetsInit ==
  ASSUME AchievementSets!Init PROVE AchievementInv
<1>1. /\ top = None /\ set = <<>> /\ synergy = <<>> /\ scores = <<>> /\ edition = <<>>
      /\ bonus = [p \in OfAchievementSets.Players |-> 0]
      /\ claims = [s \in SetIds |-> 0]
      /\ editions = [p \in OfAchievementSets.Players |-> {}]
  BY DEF AchievementSets!Init, SetIds
<1>2. Len(<<>>) = 0 /\ 1 .. 0 = {}
  OBVIOUS
<1>3. BoardTypes
  BY <1>1, <1>2, AchievementSetsAssumption DEF BoardTypes
<1>4. Boards
  BY <1>1 DEF Boards
<1>5. Total(claims) = 0
  <2>1. claims \in [SetIds -> Nat] /\ \A s \in SetIds : claims[s] = 0
    BY <1>1
  <2> QED BY <2>1, TotalZero
<1>6. EditionsNumbered
  <2>1. \A s : Serials(edition, s) = {}
    BY <1>1, <1>2 DEF Serials
  <2>2. \A p : OwnedBy(edition, p) = {}
    BY <1>1, <1>2 DEF OwnedBy
  <2> QED BY <1>1, <1>2, <1>5, <2>1, <2>2 DEF EditionsNumbered
<1> QED BY <1>3, <1>4, <1>6 DEF AchievementInv

\* What Best says of a leaderboard with the best.
LEMMA BestIs ==
  ASSUME NEW l \in Seq(RankedEntry), NEW total \in [OfAchievementSets.Players -> Nat], Ranks(l, total),
         \A p \in OfAchievementSets.Players :
           total[p] > 0 /\ (\A i \in 1 .. Len(l) : l[i].player # p)
             => Len(l) = top /\ \A i \in 1 .. Len(l) : total[p] <= l[i].score
  PROVE  AchievementSets!Best(l, total)
<1> DEFINE m == Len(l)
           shown == {l[i].player : i \in DOMAIN l}
           out == {p \in OfAchievementSets.Players : total[p] > 0} \ shown
           f == [i \in 1 .. m |-> l[i].player]
<1>1. DOMAIN l = 1 .. m /\ m \in Nat
  OBVIOUS
<1>2. \A i, j \in 1 .. m : i < j => l[i].player # l[j].player /\ l[i].score >= l[j].score
  BY DEF Ranks
<1>3. f \in Bijection(1 .. m, shown)
  <2>1. \A i, j \in 1 .. m : f[i] = f[j] => i = j
    <3> SUFFICES ASSUME NEW i \in 1 .. m, NEW j \in 1 .. m, f[i] = f[j], i # j PROVE FALSE
      OBVIOUS
    <3>1. i < j \/ j < i
      BY <1>1
    <3> QED BY <1>2, <3>1
  <2>2. f \in [1 .. m -> shown] /\ \A p \in shown : \E i \in 1 .. m : f[i] = p
    BY <1>1
  <2> HIDE DEF f, shown, m
  <2> QED BY <2>1, <2>2 DEF Bijection, Injection, Surjection, IsInjective
<1>4. Cardinality(shown) = m
  <2>1. ExistsBijection(1 .. m, shown)
    <3> HIDE DEF f, shown, m
    <3> QED BY <1>3 DEF ExistsBijection
  <2> HIDE DEF shown, m
  <2> QED BY <1>1, <2>1, FS_CountingElements
<1>5. AchievementSets!Cardinality(shown) = m
  BY <1>4 DEF AchievementSets!Cardinality, Cardinality
<1>6. ASSUME NEW i \in 1 .. m
      PROVE  l[i].score = total[l[i].player] /\ (i > 1 => l[i - 1].score >= l[i].score)
  <2>1. i > 1 => i - 1 \in 1 .. m /\ i - 1 < i
    BY <1>1
  <2> QED BY <1>2, <2>1 DEF Ranks
<1>7. ASSUME NEW p \in out PROVE m = top /\ \A i \in 1 .. m : total[p] <= l[i].score
  <2>1. p \in OfAchievementSets.Players /\ total[p] > 0 /\ \A i \in 1 .. m : l[i].player # p
    BY <1>1
  <2> QED BY <2>1
<1>8. out # {} => m = top
  BY <1>7
<1> HIDE DEF m
<1>9. /\ AchievementSets!Cardinality(shown) = Len(l)
      /\ \A i \in DOMAIN l : /\ l[i].score = total[l[i].player]
                             /\ i > 1 => l[i - 1].score >= l[i].score
                             /\ \A p \in out : total[p] <= l[i].score
      /\ out # {} => Len(l) = top
  <2> HIDE DEF shown, out
  <2> QED BY <1>1, <1>5, <1>6, <1>7, <1>8 DEF m
<1> QED BY <1>9 DEF AchievementSets!Best

LEMMA AchievementSetsSays ==
  ASSUME AchievementInv PROVE AchievementSets!BoardsAndEditions
<1>1. BoardTypes /\ Boards /\ EditionsNumbered
  BY DEF AchievementInv
<1>2. AchievementSets!Best(scores, bonus)
  <2>1. bonus \in [OfAchievementSets.Players -> Nat]
    BY <1>1 DEF BoardTypes
  <2>2. CASE top = None
    <3>1. scores = <<>> /\ \A p \in OfAchievementSets.Players : bonus[p] = 0
      BY <1>1, <2>2 DEF Boards
    <3>2. <<>> \in Seq(RankedEntry) /\ Len(<<>>) = 0 /\ 1 .. 0 = {}
      OBVIOUS
    <3>3. Ranks(<<>>, bonus)
      BY <3>2 DEF Ranks
    <3>4. scores \in Seq(RankedEntry) /\ Ranks(scores, bonus)
      BY <3>1, <3>2, <3>3
    <3>5. \A p \in OfAchievementSets.Players : ~ (bonus[p] > 0)
      BY <3>1
    <3> QED BY <2>1, <3>4, <3>5, BestIs
  <2>3. CASE top # None
    BY <1>1, <2>1, <2>3, BestIs DEF Boards, BestFirst
  <2> QED BY <2>2, <2>3
<1>3. DOMAIN edition = 1 .. Len(edition) /\ DOMAIN set = 1 .. Len(set)
      /\ 1 .. Len(set) \subseteq SetIds
  <2>1. edition \in Seq(EditionToken) /\ set \in Seq(OfAchievementSets.SetDefs)
        /\ Len(set) <= OfAchievementSets.MaxSets /\ OfAchievementSets.MaxSets \in Nat
    BY <1>1, AchievementSetsAssumption DEF BoardTypes
  <2> QED BY <2>1 DEF SetIds
<1>4. ASSUME NEW s \in DOMAIN set, set[s].cap # None
      PROVE  /\ Serials(edition, s) = 1 .. claims[s]
             /\ claims[s] <= set[s].cap
  <2>1. s \in SetIds /\ set[s] \in OfAchievementSets.SetDefs
    BY <1>1, <1>3 DEF BoardTypes
  <2>2. claims[s] \in Nat /\ set[s].cap \in Nat
    BY <1>1, <1>4, <2>1, AchievementSetsAssumption DEF BoardTypes
  <2> QED BY <1>1, <2>1, <2>2 DEF EditionsNumbered
<1>5. \A s : Serials(edition, s)
               = {edition[i].serial : i \in {j \in DOMAIN edition : edition[j].set_id = s}}
  BY <1>3 DEF Serials
<1>6. \A p \in OfAchievementSets.Players : editions[p] = {i \in DOMAIN edition : edition[i].owner = p}
  BY <1>1, <1>3 DEF EditionsNumbered, OwnedBy
<1>7. Len(edition) = AchievementSets!Total(claims)
  <2>1. AchievementSets!Total(claims) = Total(claims)
    BY DEF AchievementSets!Total, AchievementSets!Units, AchievementSets!Cardinality, Total, Units, Cardinality
  <2> QED BY <1>1, <2>1 DEF EditionsNumbered
<1> QED BY <1>2, <1>4, <1>5, <1>6, <1>7 DEF AchievementSets!BoardsAndEditions

-----------------------------------------------------------------------------
(***************************************************************************)
(* Proofs: the books of the referrals.                                     *)
(***************************************************************************)
WalkDepths == {Referral!Depth(x) : x \in OfReferral.Depths}

ReferralSettings ==
  [referrer_reward : OfReferral.Rewards, referee_reward : OfReferral.Rewards,
   max_referrals : OfReferral.Limits, max_chain_depth : WalkDepths]

ReferralStats ==
  [total_referrals : Nat, rewarded : Nat, referrer_rewards : Nat, referee_rewards : Nat]

\* There are finitely many users, the contract is none of them, rewards and
\* deposits are numbers, codes have letters and walks have a depth.
ASSUME ReferralAssumption ==
  /\ IsFiniteSet(OfReferral.Users) /\ Self \notin OfReferral.Users /\ None \notin OfReferral.Users
  /\ None \notin Referral!Codes
  /\ OfReferral.Rewards \subseteq Nat /\ OfReferral.Funds \subseteq Nat
  /\ OfReferral.LETTERS \in Nat \ {0} /\ OfReferral.MAX_CHAIN_DEPTH \in Nat \ {0}
  /\ OfReferral.Depths \subseteq Nat /\ OfReferral.Depths # {}

ReferralTypes ==
  /\ clock \in Nat /\ counting \in Nat
  /\ tokens \in [OfReferral.Users \cup {Self} -> Nat]
  /\ settings \in ReferralSettings \cup {None}
  /\ code \in [OfReferral.Users -> Referral!Codes \cup {None}]
  /\ owner \in [Referral!Codes -> OfReferral.Users \cup {None}]
  /\ referrer \in [OfReferral.Users -> OfReferral.Users \cup {None}]
  /\ count \in [OfReferral.Users -> Nat]
  /\ referees \in [OfReferral.Users -> SUBSET OfReferral.Users]
  /\ stats \in ReferralStats

\* Codes are owned by, and referrals made to, users who have generated a code.
CodesGenerated ==
  /\ \A c \in Referral!Codes : owner[c] # None => code[owner[c]] # None
  /\ \A v \in OfReferral.Users : referrer[v] # None => code[referrer[v]] # None

Referred(f, u) == {v \in OfReferral.Users : f[v] = u}
Registered(f) == {v \in OfReferral.Users : f[v] # None}

ReferralsBooked ==
  /\ \A u \in OfReferral.Users : /\ referees[u] = Referred(referrer, u)
                                 /\ count[u] = Cardinality(Referred(referrer, u))
  /\ stats.total_referrals = Cardinality(Registered(referrer))
  /\ Total([u \in OfReferral.Users |-> tokens[u]]) = stats.referrer_rewards + stats.referee_rewards

\* p goes from user to referrer, n times.
Climbs(f, n, p) == \A i \in 0 .. n - 1 : f[p[i]] = p[i + 1]

LeastDepth == CHOOSE d \in WalkDepths : \A x \in OfReferral.Depths : d <= Referral!Depth(x)

Acyclic(f) ==
  \A n \in 1 .. LeastDepth + 1 : \A p \in [0 .. n -> OfReferral.Users] :
     Climbs(f, n, p) => p[0] # p[n]

ReferralInv == ReferralTypes /\ CodesGenerated /\ ReferralsBooked /\ Acyclic(referrer)

\* The smallest depth of a walk.
LEMMA LeastDepthIs ==
  /\ LeastDepth \in Nat \ {0} /\ WalkDepths \subseteq Nat \ {0}
  /\ \A d \in WalkDepths : LeastDepth <= d
<1>1. ASSUME NEW x \in OfReferral.Depths PROVE Referral!Depth(x) \in Nat \ {0}
  BY ReferralAssumption DEF Referral!Depth
<1>2. WalkDepths \subseteq Nat \ {0} /\ WalkDepths # {}
  BY <1>1, ReferralAssumption DEF WalkDepths
<1>3. PICK d \in WalkDepths : \A e \in WalkDepths : d <= e
  BY <1>2, Least
<1>4. \A x \in OfReferral.Depths : d <= Referral!Depth(x)
  BY <1>3 DEF WalkDepths
<1>5. LeastDepth \in WalkDepths /\ \A x \in OfReferral.Depths : LeastDepth <= Referral!Depth(x)
  BY <1>4 DEF LeastDepth
<1> QED BY <1>2, <1>5 DEF WalkDepths


\* Who is n referrals above u, step by step.
Above(x) == IF x = None THEN None ELSE referrer[x]
Lineages(u, n) ==
  {f \in [0 .. n -> OfReferral.Users \cup {None}] :
     f[0] = u /\ \A k \in 1 .. n : f[k] = Above(f[k - 1])}

LEMMA AncestorUp ==
  ASSUME ReferralTypes, NEW u \in OfReferral.Users, NEW n \in Nat
  PROVE  \E f \in Lineages(u, n) : f[n] = Referral!Ancestor(u, n)
<1> DEFINE S == OfReferral.Users \cup {None}
           step == [k \in 1 .. n |-> [x \in S |-> Above(x)]]
           up[k \in 0 .. n] == IF k = 0 THEN u
                               ELSE IF up[k - 1] = None THEN None ELSE referrer[up[k - 1]]
<1>1. step \in [1 .. n -> [S -> S]] /\ u \in S
  BY DEF ReferralTypes, Above
<1>2. \A k \in 1 .. n : \A x \in S : step[k][x] = Above(x)
  OBVIOUS
<1> HIDE DEF step, S
<1>3. Stepping(n, S, u, step) # {}
  BY <1>1, CountingFunction
<1>4. PICK f \in [0 .. n -> S] : f[0] = u /\ \A k \in 1 .. n : f[k] = step[k][f[k - 1]]
  BY <1>3 DEF Stepping
<1>5. \A k \in 1 .. n : f[k] = Above(f[k - 1])
  BY <1>2, <1>4
<1>6. f = [k \in 0 .. n |-> IF k = 0 THEN u ELSE IF f[k - 1] = None THEN None ELSE referrer[f[k - 1]]]
  BY <1>4, <1>5 DEF Above
<1>7. up = [k \in 0 .. n |-> IF k = 0 THEN u
                             ELSE IF up[k - 1] = None THEN None ELSE referrer[up[k - 1]]]
  BY <1>6, Zenon
<1>8. Referral!Ancestor(u, n) = up[n]
  BY DEF Referral!Ancestor
<1> HIDE DEF up
<1>9. \A k \in 0 .. n : up[k] = f[k]
  <2> DEFINE T == {k \in 0 .. n : up[k] = f[k]}
  <2>1. 0 \in T
    BY <1>4, <1>7
  <2>2. \A k \in 0 .. n - 1 : k \in T => k + 1 \in T
    <3> SUFFICES ASSUME NEW k \in 0 .. n - 1, k \in T PROVE k + 1 \in T
      OBVIOUS
    <3>1. k + 1 \in 1 .. n /\ k + 1 - 1 = k
      OBVIOUS
    <3>2. up[k + 1] = Above(up[k])
      BY <1>7, <3>1 DEF Above
    <3>3. f[k + 1] = Above(f[k])
      BY <1>5, <3>1
    <3> QED BY <3>1, <3>2, <3>3
  <2> HIDE DEF T
  <2>3. \A k \in 0 .. n : k \in T
    BY <2>1, <2>2, CountingUp
  <2> QED BY <2>3 DEF T
<1>10. f \in Lineages(u, n)
  BY <1>4, <1>5 DEF Lineages, S
<1> QED BY <1>8, <1>9, <1>10

\* Who goes up from user to referrer meets the ancestors.
LEMMA ClimbMeets ==
  ASSUME ReferralTypes, NEW n \in Nat, NEW p \in [0 .. n -> OfReferral.Users],
         Climbs(referrer, n, p)
  PROVE  Referral!Ancestor(p[0], n) = p[n]
<1>1. p[0] \in OfReferral.Users
  OBVIOUS
<1>2. PICK f \in Lineages(p[0], n) : f[n] = Referral!Ancestor(p[0], n)
  BY <1>1, AncestorUp
<1>3. f[0] = p[0] /\ \A k \in 1 .. n : f[k] = Above(f[k - 1])
  BY DEF Lineages
<1> DEFINE T == {k \in 0 .. n : f[k] = p[k]}
<1>4. 0 \in T
  BY <1>3
<1>5. \A k \in 0 .. n - 1 : k \in T => k + 1 \in T
  <2> SUFFICES ASSUME NEW k \in 0 .. n - 1, k \in T PROVE k + 1 \in T
    OBVIOUS
  <2>1. k + 1 \in 1 .. n /\ k + 1 - 1 = k
    OBVIOUS
  <2>2. f[k + 1] = Above(f[k])
    BY <1>3, <2>1
  <2>3. p[k + 1] = referrer[p[k]] /\ p[k] # None
    BY ReferralAssumption DEF Climbs
  <2> QED BY <2>1, <2>2, <2>3 DEF Above
<1> HIDE DEF T
<1>6. \A k \in 0 .. n : k \in T
  BY <1>4, <1>5, CountingUp
<1> QED BY <1>2, <1>6 DEF T

\* A user who is among the own ancestors has gone up in a cycle.
LEMMA AncestorClimbs ==
  ASSUME ReferralTypes, NEW u \in OfReferral.Users, NEW n \in Nat, Referral!Ancestor(u, n) = u
  PROVE  \E p \in [0 .. n -> OfReferral.Users] : Climbs(referrer, n, p) /\ p[0] = p[n]
<1>1. PICK f \in Lineages(u, n) : f[n] = u
  BY AncestorUp
<1>2. /\ f \in [0 .. n -> OfReferral.Users \cup {None}] /\ f[0] = u
      /\ \A k \in 1 .. n : f[k] = Above(f[k - 1])
  BY DEF Lineages
<1> DEFINE T == {j \in 0 .. n : f[n - j] # None}
<1>3. 0 \in T
  BY <1>1, ReferralAssumption
<1>4. \A j \in 0 .. n - 1 : j \in T => j + 1 \in T
  <2> SUFFICES ASSUME NEW j \in 0 .. n - 1, j \in T PROVE j + 1 \in T
    OBVIOUS
  <2>1. n - j \in 1 .. n /\ n - j - 1 = n - (j + 1) /\ j + 1 \in 0 .. n
    OBVIOUS
  <2>2. f[n - j] = Above(f[n - (j + 1)])
    BY <1>2, <2>1
  <2> QED BY <2>1, <2>2 DEF Above
<1> HIDE DEF T
<1>5. \A j \in 0 .. n : j \in T
  BY <1>3, <1>4, CountingUp
<1>6. ASSUME NEW k \in 0 .. n PROVE f[k] # None
  <2>1. n - k \in 0 .. n /\ n - (n - k) = k
    OBVIOUS
  <2> QED BY <1>5, <2>1 DEF T
<1>7. f \in [0 .. n -> OfReferral.Users]
  BY <1>2, <1>6
<1>8. Climbs(referrer, n, f)
  <2> SUFFICES ASSUME NEW i \in 0 .. n - 1 PROVE referrer[f[i]] = f[i + 1]
    BY DEF Climbs
  <2>1. i + 1 \in 1 .. n /\ i + 1 - 1 = i /\ i \in 0 .. n
    OBVIOUS
  <2> QED BY <1>2, <1>6, <2>1 DEF Above
<1> QED BY <1>1, <1>2, <1>7, <1>8

\* A referral that the walk lets through closes no short cycle.
LEMMA StillAcyclic ==
  ASSUME ReferralTypes, Acyclic(referrer), NEW u \in OfReferral.Users, NEW r \in OfReferral.Users,
         r # u, NEW d \in WalkDepths, ~Referral!Meets(r, u, d)
  PROVE  Acyclic([referrer EXCEPT ![u] = r])
<1> DEFINE g == [referrer EXCEPT ![u] = r]
<1>1. /\ g[u] = r /\ \A x \in OfReferral.Users : x # u => g[x] = referrer[x]
  BY DEF ReferralTypes
<1>2. LeastDepth \in Nat \ {0} /\ d \in Nat /\ LeastDepth <= d
  BY LeastDepthIs
<1> SUFFICES ASSUME NEW n \in 1 .. LeastDepth + 1, NEW p \in [0 .. n -> OfReferral.Users],
                    Climbs(g, n, p), p[0] = p[n]
             PROVE  FALSE
  BY DEF Acyclic
<1> HIDE DEF g
<1>3. n \in Nat /\ n <= d + 1 /\ n >= 1
  BY <1>2
<1>4. \A i \in 0 .. n - 1 : g[p[i]] = p[i + 1]
  BY DEF Climbs
<1>5. CASE \A i \in 0 .. n - 1 : p[i] # u
  <2>1. Climbs(referrer, n, p)
    <3> SUFFICES ASSUME NEW i \in 0 .. n - 1 PROVE referrer[p[i]] = p[i + 1]
      BY DEF Climbs
    <3>1. p[i] \in OfReferral.Users /\ p[i] # u /\ g[p[i]] = p[i + 1]
      BY <1>3, <1>4, <1>5
    <3> QED BY <1>1, <3>1
  <2> QED BY <2>1 DEF Acyclic
<1>6. CASE \E i \in 0 .. n - 1 : p[i] = u
  <2>1. PICK i \in 0 .. n - 1 : p[i] = u
    BY <1>6
  <2> DEFINE at(j) == IF i + 1 + j <= n THEN i + 1 + j ELSE i + 1 + j - n
             q == [j \in 0 .. n - 1 |-> p[at(j)]]
  <2>2. \A j \in 0 .. n - 1 : at(j) \in 0 .. n /\ q[j] = p[at(j)] /\ q[j] \in OfReferral.Users
    BY <1>3
  <2>3. q[0] = r
    <3>1. at(0) = i + 1 /\ 0 \in 0 .. n - 1
      BY <1>3
    <3>2. g[p[i]] = p[i + 1]
      BY <1>4
    <3> QED BY <1>1, <2>1, <2>2, <3>1, <3>2
  <2>4. q[n - 1] = u
    <3>1. n - 1 \in 0 .. n - 1
      BY <1>3
    <3>2. CASE i = 0
      <4>1. at(n - 1) = n
        BY <1>3, <3>2
      <4> QED BY <2>1, <2>2, <3>1, <3>2, <4>1
    <3>3. CASE i > 0
      <4>1. at(n - 1) = i
        BY <1>3, <3>3
      <4> QED BY <2>1, <2>2, <3>1, <4>1
    <3> QED BY <3>2, <3>3
  <2>5. ASSUME NEW j \in 0 .. n - 2 PROVE g[q[j]] = q[j + 1]
    <3>1. j \in 0 .. n - 1 /\ j + 1 \in 0 .. n - 1
      BY <1>3
    <3>2. q[j] = p[at(j)] /\ q[j + 1] = p[at(j + 1)]
      BY <2>2, <3>1
    <3>3. CASE i + 1 + j < n
      <4>1. at(j + 1) = at(j) + 1 /\ at(j) \in 0 .. n - 1
        BY <1>3, <3>3
      <4> QED BY <1>4, <3>2, <4>1
    <3>4. CASE i + 1 + j = n
      <4>1. at(j) = n /\ at(j + 1) = 1 /\ 0 \in 0 .. n - 1 /\ 0 + 1 = 1
        BY <1>3, <3>4
      <4>2. g[p[0]] = p[1]
        BY <1>4, <4>1
      <4> QED BY <3>2, <4>1, <4>2
    <3>5. CASE i + 1 + j > n
      <4>1. at(j + 1) = at(j) + 1 /\ at(j) \in 0 .. n - 1
        BY <1>3, <3>5
      <4> QED BY <1>4, <3>2, <4>1
    <3> QED BY <1>3, <3>3, <3>4, <3>5
  <2> HIDE DEF q, at
  <2> DEFINE M == {j \in 0 .. n - 1 : q[j] = u}
  <2>6. PICK m \in M : \A j \in M : m <= j
    <3>1. n - 1 \in M /\ M \subseteq Nat
      BY <1>3, <2>4
    <3> HIDE DEF M
    <3> QED BY <3>1, Least
  <2>7. m \in 1 .. n - 1 /\ q[m] = u /\ \A j \in 0 .. m - 1 : q[j] # u
    <3>1. m \in 0 .. n - 1 /\ q[m] = u /\ m # 0
      BY <2>3, <2>6
    <3>2. \A j \in 0 .. m - 1 : j \in 0 .. n - 1 /\ ~(m <= j)
      BY <3>1
    <3>3. \A j \in 0 .. m - 1 : j \notin M
      BY <2>6, <3>2
    <3> QED BY <3>1, <3>2, <3>3
  <2> HIDE DEF M
  <2> DEFINE w == [j \in 0 .. m |-> q[j]]
  <2>8. /\ m \in Nat /\ w \in [0 .. m -> OfReferral.Users] /\ w[0] = r /\ w[m] = u
        /\ \A j \in 0 .. m : w[j] = q[j]
    BY <1>3, <2>2, <2>3, <2>7
  <2> HIDE DEF w
  <2>9. Climbs(referrer, m, w)
    <3> SUFFICES ASSUME NEW j \in 0 .. m - 1 PROVE referrer[w[j]] = w[j + 1]
      BY DEF Climbs
    <3>1. j \in 0 .. n - 2 /\ j \in 0 .. m /\ j + 1 \in 0 .. m /\ j \in 0 .. n - 1
      BY <1>3, <2>7
    <3>2. g[q[j]] = q[j + 1] /\ q[j] # u /\ q[j] \in OfReferral.Users
      BY <2>2, <2>5, <2>7, <3>1
    <3> QED BY <1>1, <2>8, <3>1, <3>2
  <2>10. Referral!Ancestor(r, m) = u
    BY <2>8, <2>9, ClimbMeets
  <2>11. m \in 1 .. d
    BY <1>2, <1>3, <2>7
  <2> QED BY <2>10, <2>11 DEF Referral!Meets
<1> QED BY <1>5, <1>6

\* The books change only with the referrals and the payments.
LEMMA ReferralQuiet ==
  ASSUME ReferralInv, ReferralTypes', CodesGenerated',
         UNCHANGED <<referrer, count, referees, stats>>,
         Total([u \in OfReferral.Users |-> tokens'[u]])
           = Total([u \in OfReferral.Users |-> tokens[u]])
  PROVE  ReferralInv'
BY DEF ReferralInv, ReferralsBooked

\* A code is generated by who has none, and so has referred nobody.
LEMMA GenerateKeeps ==
  ASSUME ReferralInv, NEW u \in OfReferral.Users, Referral!GenerateReferralCode(u)
  PROVE  ReferralInv'
<1> DEFINE c == Referral!BytesToCode(counting, clock)
<1>1. /\ code[u] = None /\ counting' = counting + 1
      /\ code' = [code EXCEPT ![u] = c] /\ owner' = [owner EXCEPT ![c] = u]
      /\ count' = [count EXCEPT ![u] = 0] /\ referees' = [referees EXCEPT ![u] = {}]
      /\ UNCHANGED <<clock, tokens, settings, referrer, stats>>
  BY DEF Referral!GenerateReferralCode, Referral!Generated
<1>2. ReferralTypes /\ CodesGenerated /\ ReferralsBooked /\ Acyclic(referrer)
  BY DEF ReferralInv
<1>3. c \in Referral!Codes
  <2>1. counting \in Nat /\ clock \in Nat /\ OfReferral.LETTERS \in Nat \ {0}
    BY <1>2, ReferralAssumption DEF ReferralTypes
  <2>2. counting % OfReferral.LETTERS \in 0 .. OfReferral.LETTERS - 1
    BY <2>1
  <2>3. clock % OfReferral.LETTERS \in 0 .. OfReferral.LETTERS - 1
    BY <2>1
  <2> QED BY <2>2, <2>3 DEF Referral!BytesToCode, Referral!Codes
<1> HIDE DEF c
<1>4. /\ code' \in [OfReferral.Users -> Referral!Codes \cup {None}] /\ code'[u] = c /\ c # None
      /\ \A v \in OfReferral.Users : v # u => code'[v] = code[v]
  BY <1>1, <1>2, <1>3, ReferralAssumption DEF ReferralTypes
<1>5. /\ owner' \in [Referral!Codes -> OfReferral.Users \cup {None}] /\ owner'[c] = u
      /\ \A x \in Referral!Codes : x # c => owner'[x] = owner[x]
  BY <1>1, <1>2, <1>3 DEF ReferralTypes
<1>6. /\ count' \in [OfReferral.Users -> Nat] /\ count'[u] = 0
      /\ \A v \in OfReferral.Users : v # u => count'[v] = count[v]
  BY <1>1, <1>2 DEF ReferralTypes
<1>7. /\ referees' \in [OfReferral.Users -> SUBSET OfReferral.Users] /\ referees'[u] = {}
      /\ \A v \in OfReferral.Users : v # u => referees'[v] = referees[v]
  BY <1>1, <1>2 DEF ReferralTypes
<1>8. ReferralTypes'
  BY <1>1, <1>2, <1>4, <1>5, <1>6, <1>7 DEF ReferralTypes
<1>9. CodesGenerated'
  <2>1. \A v \in OfReferral.Users : code[v] # None => code'[v] # None
    BY <1>4
  <2>2. \A x \in Referral!Codes : owner'[x] # None => code'[owner'[x]] # None
    <3> SUFFICES ASSUME NEW x \in Referral!Codes, owner'[x] # None PROVE code'[owner'[x]] # None
      OBVIOUS
    <3>1. CASE x = c
      BY <1>4, <1>5, <3>1
    <3>2. CASE x # c
      <4>1. owner'[x] = owner[x] /\ owner[x] \in OfReferral.Users
        BY <1>2, <1>5, <3>2 DEF ReferralTypes
      <4> QED BY <1>2, <2>1, <4>1 DEF CodesGenerated
    <3> QED BY <3>1, <3>2
  <2>3. \A v \in OfReferral.Users : referrer[v] # None => code'[referrer[v]] # None
    BY <1>2, <2>1 DEF CodesGenerated, ReferralTypes
  <2> QED BY <1>1, <2>2, <2>3 DEF CodesGenerated
<1>10. Referred(referrer, u) = {} /\ Cardinality({}) = 0
  BY <1>1, <1>2, ReferralAssumption, FS_EmptySet DEF CodesGenerated, Referred
<1>11. ASSUME NEW v \in OfReferral.Users
       PROVE  /\ referees'[v] = Referred(referrer, v)
              /\ count'[v] = Cardinality(Referred(referrer, v))
  <2>1. CASE v = u
    BY <1>6, <1>7, <1>10, <2>1
  <2>2. CASE v # u
    BY <1>2, <1>6, <1>7, <2>2 DEF ReferralsBooked
  <2> QED BY <2>1, <2>2
<1>12. ReferralsBooked'
  BY <1>1, <1>2, <1>11 DEF ReferralsBooked
<1> QED BY <1>1, <1>2, <1>8, <1>9, <1>12 DEF ReferralInv

\* What is paid to a referrer and a referee is in the statistics.
LEMMA RewardsBooked ==
  ASSUME ReferralTypes, settings # None, NEW r \in OfReferral.Users, NEW u \in OfReferral.Users,
         r # u, Referral!DistributeRewards(r, u),
         Total([v \in OfReferral.Users |-> tokens[v]]) = stats.referrer_rewards + stats.referee_rewards
  PROVE  /\ tokens' \in [OfReferral.Users \cup {Self} -> Nat] /\ stats' \in ReferralStats
         /\ stats'.total_referrals = stats.total_referrals + 1
         /\ Total([v \in OfReferral.Users |-> tokens'[v]])
              = stats'.referrer_rewards + stats'.referee_rewards
<1> DEFINE a == settings.referrer_reward
           b == settings.referee_reward
           U == OfReferral.Users
           f == [v \in U |-> tokens[v]]
           m == [v \in U |-> IF v = r THEN tokens[v] + a ELSE tokens[v]]
           g == [v \in U |-> tokens'[v]]
<1>1. a \in Nat /\ b \in Nat
  <2>1. settings \in ReferralSettings
    BY DEF ReferralTypes
  <2> QED BY <2>1, ReferralAssumption DEF ReferralSettings
<1>2. /\ stats.total_referrals \in Nat /\ stats.rewarded \in Nat /\ stats.referrer_rewards \in Nat
      /\ stats.referee_rewards \in Nat /\ stats \in ReferralStats
  BY DEF ReferralTypes, ReferralStats
<1>3. CASE Referral!Rewarded
  <2>1. /\ tokens' = [tokens EXCEPT ![Self] = @ - (a + b), ![r] = @ + a, ![u] = @ + b]
        /\ stats' = [total_referrals |-> stats.total_referrals + 1,
                     rewarded |-> stats.rewarded + 1,
                     referrer_rewards |-> stats.referrer_rewards + a,
                     referee_rewards |-> stats.referee_rewards + b]
    BY <1>3 DEF Referral!DistributeRewards
  <2>2. tokens[Self] >= a + b
    BY <1>3 DEF Referral!Rewarded
  <2> HIDE DEF a, b
  <2>3. stats' \in ReferralStats /\ stats'.total_referrals = stats.total_referrals + 1
        /\ stats'.referrer_rewards + stats'.referee_rewards
             = stats.referrer_rewards + stats.referee_rewards + (a + b)
    BY <1>1, <1>2, <2>1 DEF ReferralStats
  <2>4. /\ tokens \in [OfReferral.Users \cup {Self} -> Nat] /\ r # Self /\ u # Self /\ r # u
    BY ReferralAssumption DEF ReferralTypes
  <2>5. tokens[r] \in Nat /\ tokens[u] \in Nat /\ tokens[Self] \in Nat
    BY <2>4
  <2>6. tokens'[Self] = tokens[Self] - (a + b) /\ tokens'[r] = tokens[r] + a
        /\ tokens'[u] = tokens[u] + b
    BY <2>1, <2>4
  <2>7. \A v \in U : v # r /\ v # u => tokens'[v] = tokens[v]
    BY <2>1, <2>4, ReferralAssumption
  <2>8. tokens' \in [OfReferral.Users \cup {Self} -> Nat]
    <3>1. \A v \in OfReferral.Users \cup {Self} : tokens'[v] \in Nat
      BY <1>1, <2>2, <2>4, <2>5, <2>6, <2>7
    <3>2. DOMAIN tokens' = OfReferral.Users \cup {Self} /\ tokens' = [v \in DOMAIN tokens' |-> tokens'[v]]
      BY <2>1, <2>4
    <3> QED BY <3>1, <3>2
  <2>9. /\ IsFiniteSet(U) /\ f \in [U -> Nat] /\ m \in [U -> Nat] /\ g \in [U -> Nat]
        /\ m[r] = f[r] + a /\ g[u] = m[u] + b
        /\ \A v \in U \ {r} : m[v] = f[v]
        /\ \A v \in U \ {u} : g[v] = m[v]
    BY <1>1, <2>4, <2>5, <2>6, <2>7, <2>8, ReferralAssumption
  <2> HIDE DEF f, m, g, U
  <2>10. Total(m) = Total(f) + a
    BY <1>1, <2>9, TotalRaise DEF U
  <2>11. Total(g) = Total(m) + b
    BY <1>1, <2>9, TotalRaise DEF U
  <2>12. Total(f) = stats.referrer_rewards + stats.referee_rewards
    BY DEF f, U
  <2>13. Total(g) = stats'.referrer_rewards + stats'.referee_rewards
    BY <1>1, <1>2, <2>3, <2>10, <2>11, <2>12
  <2> QED BY <2>3, <2>8, <2>13 DEF g, U
<1>4. CASE ~Referral!Rewarded
  <2>1. tokens' = tokens /\ stats' = [stats EXCEPT !.total_referrals = stats.total_referrals + 1]
    BY <1>4 DEF Referral!DistributeRewards
  <2>2. stats' \in ReferralStats /\ stats'.total_referrals = stats.total_referrals + 1
        /\ stats'.referrer_rewards = stats.referrer_rewards
        /\ stats'.referee_rewards = stats.referee_rewards
    BY <1>2, <2>1 DEF ReferralStats
  <2> QED BY <2>1, <2>2 DEF ReferralTypes
<1> QED BY <1>3, <1>4

LEMMA RegisterKeeps ==
  ASSUME ReferralInv, NEW u \in OfReferral.Users, NEW c \in Referral!Codes,
         Referral!RegisterWithReferralCode(u, c)
  PROVE  ReferralInv'
<1> DEFINE r == owner[c]
           d == settings.max_chain_depth
<1>1. /\ settings # None /\ referrer[u] = None /\ r # None /\ r # u /\ ~Referral!Meets(r, u, d)
      /\ referrer' = [referrer EXCEPT ![u] = r] /\ count' = [count EXCEPT ![r] = count[r] + 1]
      /\ referees' = [referees EXCEPT ![r] = referees[r] \cup {u}]
      /\ Referral!DistributeRewards(r, u)
      /\ UNCHANGED <<clock, settings, counting, code, owner>>
  BY DEF Referral!RegisterWithReferralCode, Referral!codes
<1>2. ReferralTypes /\ CodesGenerated /\ ReferralsBooked /\ Acyclic(referrer)
  BY DEF ReferralInv
<1>3. r \in OfReferral.Users /\ code[r] # None
  BY <1>1, <1>2 DEF ReferralTypes, CodesGenerated
<1>4. d \in WalkDepths
  <2>1. settings \in ReferralSettings
    BY <1>1, <1>2 DEF ReferralTypes
  <2> QED BY <2>1 DEF ReferralSettings
<1> HIDE DEF r, d
<1>5. Acyclic(referrer')
  BY <1>1, <1>2, <1>3, <1>4, StillAcyclic
<1>6. /\ tokens' \in [OfReferral.Users \cup {Self} -> Nat] /\ stats' \in ReferralStats
      /\ stats'.total_referrals = stats.total_referrals + 1
      /\ Total([v \in OfReferral.Users |-> tokens'[v]])
           = stats'.referrer_rewards + stats'.referee_rewards
  BY <1>1, <1>2, <1>3, RewardsBooked DEF ReferralsBooked
<1>7. /\ referrer' \in [OfReferral.Users -> OfReferral.Users \cup {None}] /\ referrer'[u] = r
      /\ \A v \in OfReferral.Users : v # u => referrer'[v] = referrer[v]
  BY <1>1, <1>2, <1>3 DEF ReferralTypes
<1>8. /\ count' \in [OfReferral.Users -> Nat] /\ count'[r] = count[r] + 1 /\ count[r] \in Nat
      /\ \A v \in OfReferral.Users : v # r => count'[v] = count[v]
  BY <1>1, <1>2, <1>3 DEF ReferralTypes
<1>9. /\ referees' \in [OfReferral.Users -> SUBSET OfReferral.Users]
      /\ referees'[r] = referees[r] \cup {u}
      /\ \A v \in OfReferral.Users : v # r => referees'[v] = referees[v]
  BY <1>1, <1>2, <1>3 DEF ReferralTypes
<1>10. ReferralTypes'
  BY <1>1, <1>2, <1>6, <1>7, <1>8, <1>9 DEF ReferralTypes
<1>11. CodesGenerated'
  <2>1. \A v \in OfReferral.Users : referrer'[v] # None => code[referrer'[v]] # None
    <3> SUFFICES ASSUME NEW v \in OfReferral.Users, referrer'[v] # None
                 PROVE  code[referrer'[v]] # None
      OBVIOUS
    <3>1. CASE v = u
      BY <1>3, <1>7, <3>1
    <3>2. CASE v # u
      BY <1>2, <1>7, <3>2 DEF CodesGenerated
    <3> QED BY <3>1, <3>2
  <2> QED BY <1>1, <1>2, <2>1 DEF CodesGenerated
<1>12. Referred(referrer', r) = Referred(referrer, r) \cup {u} /\ u \notin Referred(referrer, r)
  BY <1>1, <1>3, <1>7 DEF Referred
<1>13. \A v \in OfReferral.Users : v # r => Referred(referrer', v) = Referred(referrer, v)
  <2> SUFFICES ASSUME NEW v \in OfReferral.Users, v # r
               PROVE  Referred(referrer', v) = Referred(referrer, v)
    OBVIOUS
  <2>1. \A x \in OfReferral.Users : referrer'[x] = v <=> referrer[x] = v
    BY <1>1, <1>7, ReferralAssumption
  <2> QED BY <2>1 DEF Referred
<1>14. Registered(referrer') = Registered(referrer) \cup {u} /\ u \notin Registered(referrer)
  BY <1>1, <1>3, <1>7, ReferralAssumption DEF Registered
<1>15. /\ IsFiniteSet(Referred(referrer, r)) /\ IsFiniteSet(Registered(referrer))
       /\ Cardinality(Referred(referrer', r)) = Cardinality(Referred(referrer, r)) + 1
       /\ Cardinality(Registered(referrer')) = Cardinality(Registered(referrer)) + 1
  <2>1. Referred(referrer, r) \subseteq OfReferral.Users /\ Registered(referrer) \subseteq OfReferral.Users
    BY DEF Referred, Registered
  <2>2. IsFiniteSet(Referred(referrer, r)) /\ IsFiniteSet(Registered(referrer))
    BY <2>1, FS_Subset, ReferralAssumption
  <2> QED BY <1>12, <1>14, <2>2, FS_AddElement
<1>16. ASSUME NEW v \in OfReferral.Users
       PROVE  /\ referees'[v] = Referred(referrer', v)
              /\ count'[v] = Cardinality(Referred(referrer', v))
  <2>1. referees[v] = Referred(referrer, v) /\ count[v] = Cardinality(Referred(referrer, v))
    BY <1>2 DEF ReferralsBooked
  <2>2. CASE v = r
    BY <1>8, <1>9, <1>12, <1>15, <2>1, <2>2
  <2>3. CASE v # r
    BY <1>8, <1>9, <1>13, <2>1, <2>3
  <2> QED BY <2>2, <2>3
<1>17. stats'.total_referrals = Cardinality(Registered(referrer'))
  BY <1>2, <1>6, <1>15 DEF ReferralsBooked
<1>18. ReferralsBooked'
  BY <1>6, <1>16, <1>17 DEF ReferralsBooked
<1> QED BY <1>5, <1>10, <1>11, <1>18 DEF ReferralInv

LEMMA ReferralStep ==
  ASSUME ReferralInv, Referral!Next PROVE ReferralInv'
<1>1. ReferralTypes /\ CodesGenerated
  BY DEF ReferralInv
<1>2. ASSUME NEW a \in OfReferral.Rewards, NEW b \in OfReferral.Rewards, NEW l \in OfReferral.Limits,
             NEW d \in OfReferral.Depths
      PROVE  Referral!Config(a, b, l, d) \in ReferralSettings
  BY DEF Referral!Config, ReferralSettings, WalkDepths
<1>3. ASSUME NEW x \in ReferralSettings, Referral!Initialize(x) \/ Referral!UpdateConfig(x)
      PROVE  ReferralInv'
  <2>1. /\ settings' = x /\ counting' \in Nat
        /\ UNCHANGED <<clock, tokens, code, owner, referrer, count, referees, stats>>
    BY <1>1, <1>3 DEF Referral!Initialize, Referral!UpdateConfig, Referral!codes, Referral!referrals,
                      ReferralTypes
  <2>2. ReferralTypes' /\ CodesGenerated'
    BY <1>1, <2>1 DEF ReferralTypes, CodesGenerated
  <2> QED BY <2>1, <2>2, ReferralQuiet
<1>4. ASSUME NEW n \in OfReferral.Funds, Referral!DepositRewardTokens(n) PROVE ReferralInv'
  <2>1. /\ tokens' = [tokens EXCEPT ![Self] = tokens[Self] + n]
        /\ UNCHANGED <<clock, settings, counting, code, owner, referrer, count, referees, stats>>
    BY <1>4 DEF Referral!DepositRewardTokens, Referral!codes, Referral!referrals
  <2>2. tokens \in [OfReferral.Users \cup {Self} -> Nat] /\ n \in Nat /\ Self \notin OfReferral.Users
    BY <1>1, ReferralAssumption DEF ReferralTypes
  <2>3. /\ tokens' \in [OfReferral.Users \cup {Self} -> Nat]
        /\ [u \in OfReferral.Users |-> tokens'[u]] = [u \in OfReferral.Users |-> tokens[u]]
    BY <2>1, <2>2
  <2>4. ReferralTypes' /\ CodesGenerated'
    BY <1>1, <2>1, <2>3 DEF ReferralTypes, CodesGenerated
  <2> QED BY <2>1, <2>3, <2>4, ReferralQuiet
<1>5. CASE Referral!Tick
  <2>1. /\ clock' = clock + 1
        /\ UNCHANGED <<tokens, settings, counting, code, owner, referrer, count, referees, stats>>
    BY <1>5 DEF Referral!Tick, Referral!codes, Referral!referrals
  <2>2. ReferralTypes' /\ CodesGenerated'
    BY <1>1, <2>1 DEF ReferralTypes, CodesGenerated
  <2> QED BY <2>1, <2>2, ReferralQuiet
<1> QED BY <1>2, <1>3, <1>4, <1>5, GenerateKeeps, RegisterKeeps DEF Referral!Next

LEMMA ReferralStays == ASSUME ReferralInv, UNCHANGED Referral!vars PROVE ReferralInv'
BY DEF Referral!vars, ReferralInv, ReferralTypes, CodesGenerated, ReferralsBooked

LEMMA ReferralInit == ASSUME Referral!Init PROVE ReferralInv
<1>1. /\ clock = 0 /\ counting = 0 /\ settings = None
      /\ tokens = [a \in OfReferral.Users \cup {Self} |-> 0]
      /\ code = [u \in OfReferral.Users |-> None] /\ owner = [c \in Referral!Codes |-> None]
      /\ referrer = [u \in OfReferral.Users |-> None] /\ count = [u \in OfReferral.Users |-> 0]
      /\ referees = [u \in OfReferral.Users |-> {}]
      /\ stats = [total_referrals |-> 0, rewarded |-> 0, referrer_rewards |-> 0,
                  referee_rewards |-> 0]
  BY DEF Referral!Init
<1>2. stats \in ReferralStats /\ stats.total_referrals = 0 /\ stats.referrer_rewards = 0
      /\ stats.referee_rewards = 0
  BY <1>1 DEF ReferralStats
<1>3. ReferralTypes
  BY <1>1, <1>2 DEF ReferralTypes
<1>4. CodesGenerated
  BY <1>1 DEF CodesGenerated
<1>5. Registered(referrer) = {} /\ \A u \in OfReferral.Users : Referred(referrer, u) = {}
  BY <1>1, ReferralAssumption DEF Registered, Referred
<1>6. Total([u \in OfReferral.Users |-> tokens[u]]) = 0
  <2> DEFINE f == [u \in OfReferral.Users |-> tokens[u]]
  <2>1. f \in [OfReferral.Users -> Nat] /\ \A u \in OfReferral.Users : f[u] = 0
    BY <1>1
  <2> HIDE DEF f
  <2>2. Total(f) = 0
    BY <2>1, TotalZero
  <2> QED BY <2>2 DEF f
<1>7. ReferralsBooked
  <2>1. Cardinality({}) = 0
    BY FS_EmptySet
  <2>2. \A u \in OfReferral.Users : /\ referees[u] = Referred(referrer, u)
                                   /\ count[u] = Cardinality(Referred(referrer, u))
    BY <1>1, <1>5, <2>1
  <2>3. stats.total_referrals = Cardinality(Registered(referrer))
    BY <1>2, <1>5, <2>1
  <2>4. stats.referrer_rewards + stats.referee_rewards = 0
    BY <1>2
  <2> QED BY <1>6, <2>2, <2>3, <2>4 DEF ReferralsBooked
<1>8. Acyclic(referrer)
  <2> SUFFICES ASSUME NEW n \in 1 .. LeastDepth + 1, NEW p \in [0 .. n -> OfReferral.Users],
                      Climbs(referrer, n, p)
               PROVE  p[0] # p[n]
    BY DEF Acyclic
  <2>1. n \in Nat /\ 0 \in 0 .. n - 1 /\ 0 \in 0 .. n /\ 1 \in 0 .. n
    BY LeastDepthIs
  <2>2. referrer[p[0]] = p[0 + 1] /\ p[0] \in OfReferral.Users /\ p[1] \in OfReferral.Users
    BY <2>1 DEF Climbs
  <2> QED BY <1>1, <2>2, ReferralAssumption
<1> QED BY <1>3, <1>4, <1>7, <1>8 DEF ReferralInv

LEMMA ReferralSays == ASSUME ReferralInv PROVE Referral!ReferralBooks
<1>1. \A S : Referral!Cardinality(S) = Cardinality(S)
  BY DEF Referral!Cardinality, Cardinality
<1>2. \A f : Referral!Total(f) = Total(f)
  BY <1>1 DEF Referral!Total, Total, Referral!Units, Units
<1>3. ReferralTypes /\ ReferralsBooked /\ Acyclic(referrer)
  BY DEF ReferralInv
<1>4. ASSUME NEW u \in OfReferral.Users, NEW n \in 1 .. LeastDepth + 1
      PROVE  Referral!Ancestor(u, n) # u
  <2>1. n \in Nat
    BY LeastDepthIs
  <2> QED BY <1>3, <2>1, AncestorClimbs DEF Acyclic
<1>5. \A u \in OfReferral.Users :
         /\ referees[u] = {v \in OfReferral.Users : referrer[v] = u}
         /\ count[u] = Referral!Cardinality(referees[u])
  BY <1>1, <1>3 DEF ReferralsBooked, Referred
<1>6. /\ stats.total_referrals = Referral!Cardinality({u \in OfReferral.Users : referrer[u] # None})
      /\ Referral!Total([u \in OfReferral.Users |-> tokens[u]])
           = stats.referrer_rewards + stats.referee_rewards
  BY <1>1, <1>2, <1>3 DEF ReferralsBooked, Registered
<1>7. LeastDepth = CHOOSE d \in {Referral!Depth(x) : x \in OfReferral.Depths} :
                      \A x \in OfReferral.Depths : d <= Referral!Depth(x)
  BY DEF LeastDepth, WalkDepths
<1> QED BY <1>4, <1>5, <1>6, <1>7 DEF Referral!ReferralBooks

-----------------------------------------------------------------------------
(***************************************************************************)
(* Proofs: the messages between contracts.                                 *)
(***************************************************************************)
Envelope ==
  [route : OfCrossContract.Routes, sender : OfCrossContract.Senders, atomic : BOOLEAN,
   target : OfCrossContract.Targets, callback : OfCrossContract.Callbacks \cup {None},
   status : {"Queued", "Delivered"}, queued_at : Nat, processed_at : Nat \cup {None}]

RouteTo ==
  [target : OfCrossContract.Targets, callback : OfCrossContract.Callbacks \cup {None},
   enabled : BOOLEAN]

Trail == Seq({"Enqueued", "Routed", "CallbackSucceeded", "Delivered"})

\* The queue has room for a number of messages, and no route is a value.
ASSUME CrossContractAssumption ==
  /\ OfCrossContract.MaxMessages \in Nat
  /\ None \notin RouteTo

CrossContractTypes ==
  /\ clock \in Nat /\ head \in Nat /\ tail \in Nat
  /\ route \in [OfCrossContract.Routes -> RouteTo \cup {None}]
  /\ message \in Seq(Envelope) /\ Len(message) <= OfCrossContract.MaxMessages
  /\ slot \in [0 .. OfCrossContract.MaxMessages - 1 -> Nat \cup {None}]
  /\ audit \in Seq(Trail) /\ Len(audit) = Len(message)

\* The first messages are delivered, and the rest are in the queue, in order.
InQueue ==
  /\ head <= tail /\ tail = Len(message)
  /\ \A n \in 0 .. OfCrossContract.MaxMessages - 1 :
       slot[n] = IF n \in head .. tail - 1 THEN n + 1 ELSE None
  /\ \A i \in 1 .. Len(message) :
       message[i].status = IF i <= head THEN "Delivered" ELSE "Queued"

\* The trail of a message ends with its delivery.
Trailed ==
  \A i \in 1 .. Len(message) :
    /\ Len(audit[i]) > 0
    /\ audit[i][Len(audit[i])] = "Delivered" <=> i <= head

\* Deliveries have times, one after the other.
DeliveryTimes ==
  /\ \A i \in 1 .. head : message[i].processed_at \in Nat /\ message[i].processed_at <= clock
  /\ \A i, j \in 1 .. head : i < j => message[i].processed_at <= message[j].processed_at

CrossContractInv == CrossContractTypes /\ InQueue /\ Trailed /\ DeliveryTimes

\* queue_message puts a message behind the others.
LEMMA QueueKeeps ==
  ASSUME CrossContractInv, NEW s \in OfCrossContract.Senders, NEW k \in OfCrossContract.Routes,
         NEW atomic \in BOOLEAN, NEW c \in OfCrossContract.Callbacks \cup {None},
         CrossContract!QueueMessage(s, k, atomic, c)
  PROVE  CrossContractInv'
<1> DEFINE n == Len(message)
           m == [route |-> k, sender |-> s, atomic |-> atomic, target |-> route[k].target,
                 callback |-> CrossContract!ResolveCallback(k, c), status |-> "Queued",
                 queued_at |-> clock, processed_at |-> None]
<1>1. /\ n + 1 <= OfCrossContract.MaxMessages /\ route[k] # None
      /\ message' = Append(message, m)
      /\ slot' = [slot EXCEPT ![tail] = n + 1]
      /\ tail' = tail + 1
      /\ audit' = Append(audit, <<"Enqueued">>)
      /\ UNCHANGED <<clock, route, head>>
  BY DEF CrossContract!QueueMessage
<1>2. /\ CrossContractTypes /\ InQueue /\ Trailed /\ DeliveryTimes /\ n \in Nat
      /\ OfCrossContract.MaxMessages \in Nat
  BY CrossContractAssumption DEF CrossContractInv, CrossContractTypes
<1>3. m \in Envelope
  <2>1. route[k] \in RouteTo
    BY <1>1, <1>2 DEF CrossContractTypes
  <2>2. /\ route[k].target \in OfCrossContract.Targets
        /\ CrossContract!ResolveCallback(k, c) \in OfCrossContract.Callbacks \cup {None}
    BY <2>1 DEF RouteTo, CrossContract!ResolveCallback
  <2> QED BY <1>2, <2>2 DEF Envelope, CrossContractTypes
<1>4. m.status = "Queued"
  OBVIOUS
<1> HIDE DEF m
<1>5. /\ message' \in Seq(Envelope) /\ Len(message') = n + 1 /\ message'[n + 1] = m
      /\ \A i \in 1 .. n : message'[i] = message[i]
  BY <1>1, <1>2, <1>3 DEF CrossContractTypes
<1>6. <<"Enqueued">> \in Trail
  BY DEF Trail
<1>7. /\ audit' \in Seq(Trail) /\ Len(audit') = n + 1 /\ audit'[n + 1] = <<"Enqueued">>
      /\ \A i \in 1 .. n : audit'[i] = audit[i]
  BY <1>1, <1>2, <1>6 DEF CrossContractTypes
<1> HIDE DEF n
<1>8. tail = n /\ head <= n /\ head \in Nat
  BY <1>2 DEF InQueue, CrossContractTypes, n
<1>9. CrossContractTypes'
  BY <1>1, <1>2, <1>5, <1>7, <1>8 DEF CrossContractTypes
<1>10. InQueue'
  <2>1. ASSUME NEW i \in 0 .. OfCrossContract.MaxMessages - 1
        PROVE  slot'[i] = IF i \in head .. tail' - 1 THEN i + 1 ELSE None
    BY <1>1, <1>2, <1>8 DEF InQueue, CrossContractTypes
  <2>2. ASSUME NEW i \in 1 .. n + 1
        PROVE  message'[i].status = IF i <= head THEN "Delivered" ELSE "Queued"
    BY <1>2, <1>4, <1>5, <1>8 DEF InQueue, n
  <2>3. head' = head /\ tail' = n + 1 /\ head <= n + 1 /\ Len(message') = n + 1
    BY <1>1, <1>2, <1>5, <1>8
  <2> QED BY <2>1, <2>2, <2>3 DEF InQueue
<1>11. Trailed'
  <2>1. ASSUME NEW i \in 1 .. n + 1
        PROVE  Len(audit'[i]) > 0 /\ (audit'[i][Len(audit'[i])] = "Delivered" <=> i <= head)
    <3>1. CASE i \in 1 .. n
      BY <1>2, <1>7, <3>1 DEF Trailed, n
    <3>2. CASE i = n + 1
      <4> DEFINE t == <<"Enqueued">>
      <4>1. Len(t) = 1 /\ t[1] # "Delivered" /\ ~(i <= head) /\ audit'[i] = t
        BY <1>2, <1>7, <1>8, <3>2
      <4> HIDE DEF t
      <4>2. Len(audit'[i]) = 1 /\ audit'[i][1] # "Delivered"
        BY <4>1
      <4>3. audit'[i][Len(audit'[i])] # "Delivered"
        BY <4>2
      <4> QED BY <4>1, <4>2, <4>3
    <3> QED BY <1>2, <3>1, <3>2
  <2> QED BY <1>1, <1>5, <2>1 DEF Trailed
<1>12. DeliveryTimes'
  <2>1. \A i \in 1 .. head : message'[i] = message[i]
    BY <1>2, <1>5, <1>8
  <2> QED BY <1>1, <1>2, <2>1 DEF DeliveryTimes
<1> QED BY <1>9, <1>10, <1>11, <1>12 DEF CrossContractInv

\* process_next delivers the first message of the queue.
LEMMA DeliveredKeeps ==
  ASSUME CrossContractInv, head < tail, CrossContract!Delivered(slot[head])
  PROVE  CrossContractInv'
<1> DEFINE n == Len(message)
           id == slot[head]
           m == [message[id] EXCEPT !.status = "Delivered", !.processed_at = clock]
           more == IF message[id].callback # None
                   THEN <<"Routed", "CallbackSucceeded", "Delivered">>
                   ELSE <<"Routed", "Delivered">>
<1>1. /\ message' = [message EXCEPT ![id].status = "Delivered", ![id].processed_at = clock]
      /\ slot' = [slot EXCEPT ![head] = None]
      /\ head' = head + 1
      /\ audit' = [audit EXCEPT ![id] = @ \o more]
      /\ UNCHANGED <<tail, clock, route>>
  BY DEF CrossContract!Delivered, CrossContract!PopQueue, CrossContract!AppendAudit
<1>2. /\ CrossContractTypes /\ InQueue /\ Trailed /\ DeliveryTimes /\ n \in Nat
      /\ OfCrossContract.MaxMessages \in Nat /\ clock \in Nat /\ head \in Nat
  BY CrossContractAssumption DEF CrossContractInv, CrossContractTypes
<1>3. id = head + 1 /\ id \in 1 .. n /\ tail = n
  <2>1. tail = n /\ n <= OfCrossContract.MaxMessages
    BY <1>2 DEF InQueue, CrossContractTypes
  <2> QED BY <1>2, <2>1 DEF InQueue
<1>4. m \in Envelope /\ m.status = "Delivered" /\ m.processed_at = clock
  <2>1. message[id] \in Envelope
    BY <1>2, <1>3 DEF CrossContractTypes
  <2> QED BY <1>2, <2>1 DEF Envelope
<1>5. message' = [message EXCEPT ![id] = m]
  <2>1. message \in Seq(Envelope)
    BY <1>2 DEF CrossContractTypes
  <2> QED BY <1>1, <1>3, <2>1
<1> HIDE DEF m
<1>6. /\ message' \in Seq(Envelope) /\ Len(message') = n /\ message'[id] = m
      /\ \A i \in 1 .. n : i # id => message'[i] = message[i]
  <2>1. message \in Seq(Envelope)
    BY <1>2 DEF CrossContractTypes
  <2> QED BY <1>3, <1>4, <1>5, <2>1
<1>7. /\ audit[id] \o more \in Trail /\ Len(audit[id] \o more) > 0
      /\ (audit[id] \o more)[Len(audit[id] \o more)] = "Delivered"
  <2>1. audit[id] \in Trail
    BY <1>2, <1>3 DEF CrossContractTypes
  <2> DEFINE a == audit[id]
  <2> HIDE DEF a, id
  <2> DEFINE p == a \o <<"Routed", "CallbackSucceeded", "Delivered">>
             q == a \o <<"Routed", "Delivered">>
             x == a \o more
  <2>2. p \in Trail /\ Len(p) = Len(a) + 3 /\ p[Len(a) + 3] = "Delivered"
    BY <2>1 DEF Trail, a
  <2>3. q \in Trail /\ Len(q) = Len(a) + 2 /\ q[Len(a) + 2] = "Delivered"
    BY <2>1 DEF Trail, a
  <2>4. Len(a) \in Nat
    BY <2>1 DEF Trail, a
  <2>5. x = p \/ x = q
    OBVIOUS
  <2> HIDE DEF p, q, x
  <2>6. x \in Trail /\ Len(x) > 0 /\ x[Len(x)] = "Delivered"
    BY <2>2, <2>3, <2>4, <2>5
  <2> QED BY <2>6 DEF x, a
<1> DEFINE b == audit[id] \o more
<1> HIDE DEF b, more
<1>8. /\ audit' \in Seq(Trail) /\ Len(audit') = n /\ audit'[id] = b
      /\ \A i \in 1 .. n : i # id => audit'[i] = audit[i]
  <2>1. audit \in Seq(Trail) /\ Len(audit) = n /\ audit' = [audit EXCEPT ![id] = b] /\ b \in Trail
    BY <1>1, <1>2, <1>7 DEF CrossContractTypes, b
  <2> QED BY <1>3, <2>1
<1>9. Len(b) > 0 /\ b[Len(b)] = "Delivered"
  BY <1>7 DEF b
<1> HIDE DEF id, n
<1>10. CrossContractTypes'
  <2>1. slot' \in [0 .. OfCrossContract.MaxMessages - 1 -> Nat \cup {None}]
    BY <1>1, <1>2 DEF CrossContractTypes
  <2>2. n <= OfCrossContract.MaxMessages
    BY <1>2 DEF CrossContractTypes, n
  <2> QED BY <1>1, <1>2, <1>6, <1>8, <2>1, <2>2 DEF CrossContractTypes
<1>11. InQueue'
  <2>1. ASSUME NEW i \in 0 .. OfCrossContract.MaxMessages - 1
        PROVE  slot'[i] = IF i \in head' .. tail - 1 THEN i + 1 ELSE None
    BY <1>1, <1>2, <1>3 DEF InQueue, CrossContractTypes
  <2>2. ASSUME NEW i \in 1 .. n
        PROVE  message'[i].status = IF i <= head' THEN "Delivered" ELSE "Queued"
    <3>1. CASE i = id
      BY <1>1, <1>2, <1>3, <1>4, <1>6, <3>1
    <3>2. CASE i # id
      BY <1>1, <1>2, <1>3, <1>6, <3>2 DEF InQueue, n
    <3> QED BY <3>1, <3>2
  <2> QED BY <1>1, <1>2, <1>3, <1>6, <2>1, <2>2 DEF InQueue
<1>12. Trailed'
  <2>1. ASSUME NEW i \in 1 .. n
        PROVE  Len(audit'[i]) > 0 /\ (audit'[i][Len(audit'[i])] = "Delivered" <=> i <= head')
    <3>1. CASE i = id
      BY <1>1, <1>2, <1>3, <1>8, <1>9, <3>1
    <3>2. CASE i # id
      BY <1>1, <1>2, <1>3, <1>8, <3>2 DEF Trailed, n
    <3> QED BY <3>1, <3>2
  <2> QED BY <1>6, <2>1 DEF Trailed
<1>13. DeliveryTimes'
  <2>1. \A i \in 1 .. head : message'[i] = message[i]
    BY <1>2, <1>3, <1>6
  <2>2. message'[head'].processed_at = clock /\ head' = head + 1 /\ clock' = clock
    BY <1>1, <1>3, <1>4, <1>6
  <2>3. \A i \in 1 .. head' : i \in 1 .. head \/ i = head'
    BY <1>2, <2>2
  <2>4. \A i \in 1 .. head' : message'[i].processed_at \in Nat /\ message'[i].processed_at <= clock
    BY <1>2, <2>1, <2>2, <2>3 DEF DeliveryTimes
  <2>5. ASSUME NEW i \in 1 .. head', NEW j \in 1 .. head', i < j
        PROVE  message'[i].processed_at <= message'[j].processed_at
    <3>1. CASE j = head'
      BY <2>2, <2>4, <3>1
    <3>2. CASE j # head'
      <4>1. i \in 1 .. head /\ j \in 1 .. head
        BY <1>2, <2>2, <2>5, <3>2
      <4> QED BY <1>2, <2>1, <2>5, <4>1 DEF DeliveryTimes
    <3> QED BY <3>1, <3>2
  <2> QED BY <2>2, <2>4, <2>5 DEF DeliveryTimes
<1> QED BY <1>10, <1>11, <1>12, <1>13 DEF CrossContractInv

\* What leaves the messages, the queue and the trails does not disturb them.
LEMMA CrossContractQuiet ==
  ASSUME CrossContractInv, UNCHANGED <<message, slot, head, tail, audit>>,
         clock' \in Nat, clock' >= clock,
         route' \in [OfCrossContract.Routes -> RouteTo \cup {None}]
  PROVE  CrossContractInv'
<1>1. CrossContractTypes'
  BY DEF CrossContractInv, CrossContractTypes
<1>2. InQueue' /\ Trailed'
  BY DEF CrossContractInv, InQueue, Trailed
<1>3. DeliveryTimes'
  BY DEF CrossContractInv, CrossContractTypes, DeliveryTimes
<1> QED BY <1>1, <1>2, <1>3 DEF CrossContractInv

LEMMA CrossContractStep == ASSUME CrossContractInv, CrossContract!Next PROVE CrossContractInv'
<1>1. /\ clock \in Nat /\ clock <= clock
      /\ route \in [OfCrossContract.Routes -> RouteTo \cup {None}]
  BY DEF CrossContractInv, CrossContractTypes
<1>2. ASSUME NEW limit, CrossContract!Initialize(limit) \/ CrossContract!SetRateLimit(limit)
      PROVE  CrossContractInv'
  <2>1. UNCHANGED <<message, slot, head, tail, audit, clock, route>>
    BY <1>2 DEF CrossContract!Initialize, CrossContract!SetRateLimit, CrossContract!queue
  <2> QED BY <1>1, <2>1, CrossContractQuiet
<1>3. ASSUME NEW k \in OfCrossContract.Routes, NEW t \in OfCrossContract.Targets,
             NEW c \in OfCrossContract.Callbacks \cup {None}, CrossContract!RegisterRoute(k, t, c)
      PROVE  CrossContractInv'
  <2>1. /\ UNCHANGED <<message, slot, head, tail, audit, clock>>
        /\ route' = [route EXCEPT ![k] = [target |-> t, callback |-> c, enabled |-> TRUE]]
    BY <1>3 DEF CrossContract!RegisterRoute, CrossContract!queue
  <2>2. route' \in [OfCrossContract.Routes -> RouteTo \cup {None}]
    BY <1>1, <2>1 DEF RouteTo
  <2> QED BY <1>1, <2>1, <2>2, CrossContractQuiet
<1>4. ASSUME NEW k \in OfCrossContract.Routes, NEW on \in BOOLEAN,
             CrossContract!SetRouteEnabled(k, on)
      PROVE  CrossContractInv'
  <2>1. /\ UNCHANGED <<message, slot, head, tail, audit, clock>>
        /\ route[k] # None /\ route' = [route EXCEPT ![k].enabled = on]
    BY <1>4 DEF CrossContract!SetRouteEnabled, CrossContract!queue
  <2>2. route[k] \in RouteTo
    BY <1>1, <2>1
  <2>3. [route[k] EXCEPT !.enabled = on] \in RouteTo
    BY <2>2 DEF RouteTo
  <2>4. route' \in [OfCrossContract.Routes -> RouteTo \cup {None}]
    BY <1>1, <2>1, <2>3
  <2> QED BY <1>1, <2>1, <2>4, CrossContractQuiet
<1>5. CASE CrossContract!ProcessNext
  BY <1>5, DeliveredKeeps
  DEF CrossContract!ProcessNext, CrossContract!ProcessAtomic, CrossContract!ProcessNonAtomic,
      CrossContract!PeekQueue
<1>6. CASE CrossContract!Tick
  <2>1. clock' = clock + 1 /\ UNCHANGED <<message, slot, head, tail, audit, route>>
    BY <1>6 DEF CrossContract!Tick, CrossContract!queue
  <2> QED BY <1>1, <2>1, CrossContractQuiet
<1> QED BY <1>2, <1>3, <1>4, <1>5, <1>6, QueueKeeps DEF CrossContract!Next

LEMMA CrossContractStays ==
  ASSUME CrossContractInv, UNCHANGED CrossContract!vars PROVE CrossContractInv'
BY CrossContractQuiet DEF CrossContract!vars, CrossContractInv, CrossContractTypes

LEMMA CrossContractInit == ASSUME CrossContract!Init PROVE CrossContractInv
<1>1. CrossContractTypes
  BY CrossContractAssumption DEF CrossContract!Init, CrossContractTypes
<1>2. InQueue
  BY CrossContractAssumption DEF CrossContract!Init, InQueue
<1>3. Trailed /\ DeliveryTimes
  BY DEF CrossContract!Init, Trailed, DeliveryTimes
<1> QED BY <1>1, <1>2, <1>3 DEF CrossContractInv

LEMMA CrossContractSays == ASSUME CrossContractInv PROVE CrossContract!DeliveredInOrder
<1>1. /\ DOMAIN message = 1 .. Len(message) /\ Len(message) \in Nat
      /\ DOMAIN slot = 0 .. OfCrossContract.MaxMessages - 1
  BY DEF CrossContractInv, CrossContractTypes
<1>2. \A id \in DOMAIN message :
        (message[id].status = "Delivered") = (audit[id][Len(audit[id])] = "Delivered")
  BY <1>1 DEF CrossContractInv, InQueue, Trailed
<1> QED BY <1>1, <1>2
        DEF CrossContractInv, InQueue, DeliveryTimes, CrossContract!DeliveredInOrder

-----------------------------------------------------------------------------
(***************************************************************************)
(* Proofs: the votes of the members of a guild.                            *)
(***************************************************************************)
GuildRoles == {"Member", "Officer", "Leader"}

Request ==
  [officer : OfGuild.Users, amount : Nat, yes : Nat, no : Nat, deadline : Nat, executed : BOOLEAN]

\* There are finitely many users, the guild is none of them, and amounts are numbers.
ASSUME GuildAssumption ==
  /\ IsFiniteSet(OfGuild.Users) /\ OfGuild.Leader \in OfGuild.Users /\ Self \notin OfGuild.Users
  /\ None \notin GuildRoles
  /\ OfGuild.Amounts \subseteq Nat /\ OfGuild.InitBalance \in Nat

GuildTypes ==
  /\ clock \in Nat /\ disbanded \in BOOLEAN
  /\ tokens \in [OfGuild.Users \cup {Self} -> Nat]
  /\ role \in [OfGuild.Users -> GuildRoles \cup {None}]
  /\ members \in Seq(OfGuild.Users)
  /\ withdrawal \in Seq(Request)
  /\ voted \subseteq (1 .. Len(withdrawal)) \X OfGuild.Users

\* Who has a role is a member once.
Enlisted ==
  /\ \A i, j \in 1 .. Len(members) : i # j => members[i] # members[j]
  /\ \A u \in OfGuild.Users : role[u] # None <=> \E i \in 1 .. Len(members) : members[i] = u

VotersOn(v, id) == {u \in OfGuild.Users : <<id, u>> \in v}

\* A request has a vote of each member who voted, and more than half of the
\* members were for it when it was executed.
Counted(w, v, id) ==
  /\ w[id].yes + w[id].no = Cardinality(VotersOn(v, id))
  /\ \A u \in VotersOn(v, id) : role[u] # None
  /\ w[id].executed => 2 * w[id].yes > w[id].yes + w[id].no

GuildInv ==
  /\ GuildTypes /\ Enlisted
  /\ \A id \in 1 .. Len(withdrawal) : Counted(withdrawal, voted, id)
  /\ disbanded => tokens[Self] < Len(members)

\* Those who have voted are no more than the members.
LEMMA VotersAreMembers ==
  ASSUME GuildTypes, Enlisted, NEW V \in SUBSET OfGuild.Users, \A u \in V : role[u] # None
  PROVE  Cardinality(V) <= Len(members) /\ Cardinality(V) \in Nat
<1> DEFINE n == Len(members)
           M == {u \in OfGuild.Users : role[u] # None}
           f == [i \in 1 .. n |-> members[i]]
<1>1. n \in Nat /\ \A i \in 1 .. n : members[i] \in OfGuild.Users
  BY DEF GuildTypes
<1>2. f \in [1 .. n -> M]
  BY <1>1 DEF Enlisted
<1>3. \A u \in M : \E i \in 1 .. n : f[i] = u
  BY DEF Enlisted
<1> HIDE DEF f
<1>4. ExistsSurjection(1 .. n, M)
  BY <1>2, <1>3 DEF ExistsSurjection, Surjection
<1>5. V \subseteq M /\ M \subseteq OfGuild.Users
  OBVIOUS
<1> HIDE DEF M, n
<1>6. Cardinality(M) <= n
  BY <1>1, <1>4, FS_SurjCardinalityBound
<1>7. IsFiniteSet(M) /\ IsFiniteSet(V)
  BY <1>5, GuildAssumption, FS_Subset
<1>8. /\ Cardinality(V) <= Cardinality(M)
      /\ Cardinality(V) \in Nat /\ Cardinality(M) \in Nat
  BY <1>5, <1>7, FS_Subset, FS_CardinalityType
<1> QED BY <1>1, <1>6, <1>8 DEF n

\* A transfer of the guild's token.
LEMMA GuildTransfers ==
  ASSUME GuildTypes, NEW a \in OfGuild.Users \cup {Self}, NEW b \in OfGuild.Users \cup {Self},
         a # b, NEW n \in Nat, Guild!Transfer(a, b, n)
  PROVE  tokens' \in [OfGuild.Users \cup {Self} -> Nat]
<1>1. tokens[a] \in Nat /\ tokens[b] \in Nat /\ tokens[a] - n \in Nat /\ tokens[b] + n \in Nat
  BY DEF GuildTypes, Guild!Transfer
<1>2. tokens' = [tokens EXCEPT ![a] = tokens[a] - n, ![b] = tokens[b] + n]
  BY DEF Guild!Transfer
<1> QED BY <1>1, <1>2 DEF GuildTypes

\* While the guild is active, what leaves the members and the requests keeps
\* the invariant.
LEMMA GuildQuiet ==
  ASSUME GuildInv, UNCHANGED <<role, members, withdrawal, voted>>,
         clock' \in Nat, tokens' \in [OfGuild.Users \cup {Self} -> Nat], disbanded' \in BOOLEAN,
         disbanded' => tokens'[Self] < Len(members)
  PROVE  GuildInv'
<1>1. GuildTypes' /\ Enlisted'
  BY DEF GuildInv, GuildTypes, Enlisted
<1>2. \A id \in 1 .. Len(withdrawal') : Counted(withdrawal, voted, id)'
  BY DEF GuildInv, Counted, VotersOn
<1> QED BY <1>1, <1>2 DEF GuildInv

LEMMA GetsRole ==
  ASSUME GuildInv, NEW u \in OfGuild.Users, NEW r \in GuildRoles, ~disbanded,
         Guild!SetRoleInternal(u, r)
  PROVE  GuildInv'
<1> DEFINE n == Len(members)
<1>1. /\ role' = [role EXCEPT ![u] = r]
      /\ members' = IF \E i \in DOMAIN members : members[i] = u THEN members
                    ELSE Append(members, u)
      /\ UNCHANGED <<clock, tokens, disbanded, withdrawal, voted>>
  BY DEF Guild!SetRoleInternal, Guild!votes
<1>2. GuildTypes /\ Enlisted /\ n \in Nat /\ DOMAIN members = 1 .. n
  BY DEF GuildInv, GuildTypes
<1>3. r # None
  BY GuildAssumption
<1>4. /\ role' \in [OfGuild.Users -> GuildRoles \cup {None}] /\ role'[u] # None
      /\ \A v \in OfGuild.Users : v # u => role'[v] = role[v]
  BY <1>1, <1>2, <1>3 DEF GuildTypes
<1>5. members' \in Seq(OfGuild.Users) /\ Enlisted'
  <2>1. CASE \E i \in 1 .. n : members[i] = u
    <3>1. members' = members
      BY <1>1, <1>2, <2>1
    <3>2. \A v \in OfGuild.Users : role'[v] # None <=> \E i \in 1 .. n : members[i] = v
      BY <1>2, <1>4, <2>1 DEF Enlisted
    <3> QED BY <1>2, <3>1, <3>2 DEF Enlisted, GuildTypes
  <2>2. CASE ~ \E i \in 1 .. n : members[i] = u
    <3>1. members' = Append(members, u) /\ members \in Seq(OfGuild.Users)
      BY <1>1, <1>2, <2>2 DEF GuildTypes
    <3>2. /\ members' \in Seq(OfGuild.Users) /\ Len(members') = n + 1 /\ members'[n + 1] = u
          /\ \A i \in 1 .. n : members'[i] = members[i]
      BY <3>1
    <3> HIDE DEF n
    <3>3. \A i, j \in 1 .. n + 1 : i # j => members'[i] # members'[j]
      <4>1. \A i, j \in 1 .. n : i # j => members[i] # members[j]
        BY <1>2 DEF Enlisted, n
      <4>2. \A i \in 1 .. n + 1 : i \in 1 .. n \/ i = n + 1
        BY <1>2
      <4> QED BY <2>2, <3>2, <4>1, <4>2
    <3>4. \A v \in OfGuild.Users : role'[v] # None <=> \E i \in 1 .. n + 1 : members'[i] = v
      <4>1. \A v \in OfGuild.Users : role[v] # None <=> \E i \in 1 .. n : members[i] = v
        BY <1>2 DEF Enlisted, n
      <4>2. \A i : i \in 1 .. n + 1 <=> i \in 1 .. n \/ i = n + 1
        BY <1>2
      <4> QED BY <1>4, <3>2, <4>1, <4>2
    <3> QED BY <3>2, <3>3, <3>4 DEF Enlisted
  <2> QED BY <2>1, <2>2
<1>6. GuildTypes'
  BY <1>1, <1>2, <1>4, <1>5 DEF GuildTypes
<1>7. ASSUME NEW id \in 1 .. Len(withdrawal) PROVE Counted(withdrawal, voted, id)'
  <2>1. Counted(withdrawal, voted, id) /\ VotersOn(voted, id) \subseteq OfGuild.Users
    BY DEF GuildInv, VotersOn
  <2> QED BY <1>1, <1>4, <2>1 DEF Counted, VotersOn
<1> QED BY <1>1, <1>5, <1>6, <1>7 DEF GuildInv

\* The request of one more withdrawal, which nobody has voted on.
LEMMA RequestAdded ==
  ASSUME GuildInv, ~disbanded, NEW w \in Request, w.yes = 0, w.no = 0, ~w.executed,
         withdrawal' = Append(withdrawal, w),
         UNCHANGED <<clock, tokens, role, members, disbanded, voted>>
  PROVE  GuildInv'
<1> DEFINE n == Len(withdrawal)
<1>1. /\ GuildTypes /\ Enlisted /\ n \in Nat /\ withdrawal \in Seq(Request)
      /\ \A id \in 1 .. n : Counted(withdrawal, voted, id)
      /\ voted \subseteq (1 .. n) \X OfGuild.Users
  BY DEF GuildInv, GuildTypes
<1>2. /\ withdrawal' \in Seq(Request) /\ Len(withdrawal') = n + 1 /\ withdrawal'[n + 1] = w
      /\ \A i \in 1 .. n : withdrawal'[i] = withdrawal[i]
  BY <1>1
<1> HIDE DEF n
<1>3. voted \subseteq (1 .. n + 1) \X OfGuild.Users
  BY <1>1
<1>4. GuildTypes' /\ Enlisted'
  BY <1>1, <1>2, <1>3 DEF GuildTypes, Enlisted
<1>5. ASSUME NEW id \in 1 .. n + 1 PROVE Counted(withdrawal, voted, id)'
  <2>1. CASE id = n + 1
    <3>1. VotersOn(voted, id) = {}
      BY <1>1, <2>1 DEF VotersOn
    <3>2. Cardinality(VotersOn(voted, id)) = 0 /\ withdrawal'[id] = w
      BY <1>2, <2>1, <3>1, FS_EmptySet
    <3>3. w.yes + w.no = Cardinality(VotersOn(voted, id))
      BY <3>2
    <3> QED BY <1>2, <3>1, <3>2, <3>3 DEF Counted, VotersOn
  <2>2. CASE id \in 1 .. n
    <3>1. Counted(withdrawal, voted, id) /\ withdrawal'[id] = withdrawal[id]
      BY <1>1, <1>2, <2>2
    <3> QED BY <3>1 DEF Counted, VotersOn
  <2> QED BY <1>1, <2>1, <2>2
<1> QED BY <1>2, <1>4, <1>5 DEF GuildInv

LEMMA WithdrawKeeps ==
  ASSUME GuildInv, NEW u \in OfGuild.Users, NEW n \in OfGuild.Amounts,
         Guild!Withdraw(u, n, clock + 1)
  PROVE  GuildInv'
<1> DEFINE w == [officer |-> u, amount |-> n, yes |-> 0, no |-> 0, deadline |-> clock + 1,
                 executed |-> FALSE]
<1>1. /\ ~disbanded /\ UNCHANGED <<clock, role, members, disbanded, voted>>
      /\ \/ withdrawal' = Append(withdrawal, w) /\ UNCHANGED tokens
         \/ Guild!Transfer(Self, u, n) /\ UNCHANGED withdrawal
  BY DEF Guild!Withdraw, Guild!AssertActive, Guild!roles
<1>2. GuildTypes /\ n \in Nat /\ u # Self /\ clock \in Nat
  BY GuildAssumption DEF GuildInv, GuildTypes
<1>3. w \in Request /\ w.yes = 0 /\ w.no = 0 /\ ~w.executed
  BY <1>2 DEF Request
<1> HIDE DEF w
<1>4. CASE withdrawal' = Append(withdrawal, w) /\ UNCHANGED tokens
  BY <1>1, <1>3, <1>4, RequestAdded
<1>5. CASE Guild!Transfer(Self, u, n) /\ UNCHANGED withdrawal
  <2>1. tokens' \in [OfGuild.Users \cup {Self} -> Nat]
    BY <1>2, <1>5, GuildTransfers
  <2>2. UNCHANGED <<role, members, withdrawal, voted>> /\ clock' \in Nat /\ ~disbanded'
        /\ disbanded' \in BOOLEAN
    BY <1>1, <1>2, <1>5 DEF GuildTypes
  <2> QED BY <2>1, <2>2, GuildQuiet
<1> QED BY <1>1, <1>4, <1>5

\* One request changes.
LEMMA RequestChanged ==
  ASSUME GuildInv, ~disbanded, NEW id \in 1 .. Len(withdrawal), NEW w \in Request, NEW v,
         withdrawal' = [withdrawal EXCEPT ![id] = w],
         v \subseteq (1 .. Len(withdrawal)) \X OfGuild.Users, voted' = v,
         \A i \in 1 .. Len(withdrawal) : i # id => VotersOn(v, i) = VotersOn(voted, i),
         w.yes + w.no = Cardinality(VotersOn(v, id)),
         \A u \in VotersOn(v, id) : role[u] # None,
         w.executed => 2 * w.yes > w.yes + w.no,
         tokens' \in [OfGuild.Users \cup {Self} -> Nat],
         UNCHANGED <<clock, role, members, disbanded>>
  PROVE  GuildInv'
<1> DEFINE n == Len(withdrawal)
<1>1. /\ GuildTypes /\ Enlisted /\ n \in Nat /\ withdrawal \in Seq(Request)
      /\ \A i \in 1 .. n : Counted(withdrawal, voted, i)
  BY DEF GuildInv, GuildTypes
<1>2. /\ withdrawal' \in Seq(Request) /\ Len(withdrawal') = n /\ withdrawal'[id] = w
      /\ \A i \in 1 .. n : i # id => withdrawal'[i] = withdrawal[i]
  BY <1>1
<1>3. GuildTypes' /\ Enlisted'
  BY <1>1, <1>2 DEF GuildTypes, Enlisted
<1>4. ASSUME NEW i \in 1 .. n PROVE Counted(withdrawal, voted, i)'
  <2>1. CASE i = id
    BY <1>2, <2>1 DEF Counted, VotersOn
  <2>2. CASE i # id
    <3>1. Counted(withdrawal, voted, i) /\ withdrawal'[i] = withdrawal[i]
      BY <1>1, <1>2, <2>2
    <3>2. VotersOn(voted, i)' = VotersOn(voted, i)
      BY <2>2 DEF VotersOn
    <3> QED BY <3>1, <3>2 DEF Counted
  <2> QED BY <2>1, <2>2
<1> QED BY <1>2, <1>3, <1>4 DEF GuildInv

LEMMA GuildVotes ==
  ASSUME GuildInv, NEW u \in OfGuild.Users, NEW id \in 1 .. Len(withdrawal), NEW b \in BOOLEAN,
         Guild!VoteWithdrawal(u, id, b)
  PROVE  GuildInv'
<1> DEFINE x == withdrawal[id]
           y == IF b THEN x.yes + 1 ELSE x.yes
           z == IF b THEN x.no ELSE x.no + 1
           w == [x EXCEPT !.yes = y, !.no = z]
           v == voted \cup {<<id, u>>}
<1>1. /\ ~disbanded /\ role[u] # None /\ <<id, u>> \notin voted /\ ~x.executed
      /\ withdrawal' = [withdrawal EXCEPT ![id] = w] /\ voted' = v
      /\ UNCHANGED <<clock, tokens, role, members, disbanded>>
  <2>1. withdrawal \in Seq(Request)
    BY DEF GuildInv, GuildTypes
  <2>2. /\ ~disbanded /\ role[u] # None /\ <<id, u>> \notin voted /\ ~x.executed /\ voted' = v
        /\ withdrawal' = [withdrawal EXCEPT ![id].yes = IF b THEN @ + 1 ELSE @,
                                            ![id].no = IF b THEN @ ELSE @ + 1]
        /\ UNCHANGED <<clock, tokens, role, members, disbanded>>
    BY DEF Guild!VoteWithdrawal, Guild!AssertActive, Guild!AssertMember, Guild!roles
  <2>3. withdrawal' = [withdrawal EXCEPT ![id] = w]
    BY <2>1, <2>2
  <2> QED BY <2>2, <2>3
<1>2. /\ GuildTypes /\ Enlisted /\ x \in Request /\ Counted(withdrawal, voted, id)
      /\ voted \subseteq (1 .. Len(withdrawal)) \X OfGuild.Users
  BY DEF GuildInv, GuildTypes
<1>3. w \in Request /\ w.yes + w.no = x.yes + x.no + 1 /\ w.executed = x.executed
  <2>1. x.yes \in Nat /\ x.no \in Nat
    BY <1>2 DEF Request
  <2>2. y \in Nat /\ z \in Nat /\ y + z = x.yes + x.no + 1
    <3>1. CASE b
      BY <2>1, <3>1
    <3>2. CASE ~b
      BY <2>1, <3>2
    <3> QED BY <3>1, <3>2
  <2> HIDE DEF x, y, z
  <2>3. w \in Request /\ w.yes = y /\ w.no = z /\ w.executed = x.executed
    BY <1>2, <2>2 DEF Request
  <2> QED BY <2>2, <2>3
<1>4. VotersOn(v, id) = VotersOn(voted, id) \cup {u} /\ u \notin VotersOn(voted, id)
  BY <1>1 DEF VotersOn
<1>5. Cardinality(VotersOn(v, id)) = Cardinality(VotersOn(voted, id)) + 1
  <2>1. IsFiniteSet(VotersOn(voted, id))
    <3>1. VotersOn(voted, id) \subseteq OfGuild.Users
      BY DEF VotersOn
    <3> QED BY <3>1, GuildAssumption, FS_Subset
  <2> QED BY <1>4, <2>1, FS_AddElement
<1>6. x.yes + x.no = Cardinality(VotersOn(voted, id))
  BY <1>2 DEF Counted
<1>7. \A i \in 1 .. Len(withdrawal) : i # id => VotersOn(v, i) = VotersOn(voted, i)
  BY DEF VotersOn
<1>8. \A a \in VotersOn(v, id) : role[a] # None
  BY <1>1, <1>2, <1>4 DEF Counted
<1>9. v \subseteq (1 .. Len(withdrawal)) \X OfGuild.Users
  BY <1>2
<1>10. tokens' \in [OfGuild.Users \cup {Self} -> Nat]
  BY <1>1, <1>2 DEF GuildTypes
<1>11. w.yes + w.no = Cardinality(VotersOn(v, id)) /\ ~w.executed
  BY <1>1, <1>3, <1>5, <1>6
<1> HIDE DEF w, v, x
<1> QED BY <1>1, <1>3, <1>7, <1>8, <1>9, <1>10, <1>11, RequestChanged

LEMMA ExecuteKeeps ==
  ASSUME GuildInv, NEW u \in OfGuild.Users, NEW id \in 1 .. Len(withdrawal),
         Guild!ExecuteWithdrawal(u, id)
  PROVE  GuildInv'
<1> DEFINE x == withdrawal[id]
           w == [x EXCEPT !.executed = TRUE]
<1>1. /\ ~disbanded /\ x.yes > Len(members) \div 2
      /\ Guild!Transfer(Self, x.officer, x.amount)
      /\ withdrawal' = [withdrawal EXCEPT ![id].executed = TRUE]
      /\ UNCHANGED <<clock, role, members, disbanded, voted>>
  BY DEF Guild!ExecuteWithdrawal, Guild!AssertActive, Guild!roles
<1>2. /\ GuildTypes /\ Enlisted /\ x \in Request /\ Counted(withdrawal, voted, id)
      /\ voted \subseteq (1 .. Len(withdrawal)) \X OfGuild.Users
      /\ withdrawal \in Seq(Request) /\ Len(members) \in Nat
  BY DEF GuildInv, GuildTypes
<1>3. withdrawal' = [withdrawal EXCEPT ![id] = w]
  BY <1>1, <1>2
<1>4. w \in Request /\ w.yes = x.yes /\ w.no = x.no /\ x.yes \in Nat /\ x.no \in Nat
  BY <1>2 DEF Request
<1>5. x.yes + x.no <= Len(members)
  <2>1. VotersOn(voted, id) \subseteq OfGuild.Users
    BY DEF VotersOn
  <2> QED BY <1>2, <2>1, VotersAreMembers DEF Counted
<1>6. 2 * w.yes > w.yes + w.no
  BY <1>1, <1>2, <1>4, <1>5
<1>7. tokens' \in [OfGuild.Users \cup {Self} -> Nat]
  <2>1. x.officer \in OfGuild.Users /\ x.amount \in Nat /\ x.officer # Self
    BY <1>2, GuildAssumption DEF Request
  <2> QED BY <1>1, <1>2, <2>1, GuildTransfers
<1>8. /\ w.yes + w.no = Cardinality(VotersOn(voted, id))
      /\ \A a \in VotersOn(voted, id) : role[a] # None
  BY <1>2, <1>4 DEF Counted
<1> HIDE DEF w, x
<1> QED BY <1>1, <1>2, <1>3, <1>4, <1>6, <1>7, <1>8, RequestChanged

\* What cannot be shared out evenly is less than a share for each.
LEMMA DisbandKeeps ==
  ASSUME GuildInv, NEW u \in OfGuild.Users, Guild!Disband(u)
  PROVE  GuildInv'
<1> DEFINE n == Len(members)
           share == tokens[Self] \div n
           c(a) == Cardinality({i \in DOMAIN members : members[i] = a})
           part(a) == IF a = Self THEN 0 - share * n ELSE share * c(a)
<1>1. /\ role[u] = "Leader" /\ disbanded'
      /\ tokens' = [a \in DOMAIN tokens |-> tokens[a] + part(a)]
      /\ UNCHANGED <<clock, role, members, withdrawal, voted>>
  <2>1. \A S : Guild!Cardinality(S) = Cardinality(S)
    BY DEF Guild!Cardinality, Cardinality
  <2> QED BY <2>1 DEF Guild!Disband, Guild!AssertLeader, Guild!roles, Guild!votes
<1>2. /\ GuildTypes /\ Enlisted /\ n \in Nat /\ DOMAIN members = 1 .. n
      /\ tokens \in [OfGuild.Users \cup {Self} -> Nat] /\ tokens[Self] \in Nat
  BY DEF GuildInv, GuildTypes
<1>3. n > 0
  <2>1. role[u] # None
    BY <1>1, GuildAssumption DEF GuildRoles
  <2> QED BY <1>2, <2>1 DEF Enlisted
<1>4. share \in Nat /\ share * n <= tokens[Self] /\ tokens[Self] - share * n < n
  <2>1. n \in Nat \ {0}
    BY <1>2, <1>3
  <2> HIDE DEF n
  <2> QED BY <1>2, <2>1, Quotient
<1>5. share * n \in Nat
  BY <1>2, <1>4, ProductGrows
<1>6. ASSUME NEW a \in OfGuild.Users PROVE tokens'[a] \in Nat
  <2>1. c(a) \in Nat
    <3>1. {i \in DOMAIN members : members[i] = a} \subseteq 1 .. n /\ IsFiniteSet(1 .. n)
      BY <1>2, FS_Interval
    <3> QED BY <3>1, FS_Subset, FS_CardinalityType
  <2> HIDE DEF c, share
  <2>2. share * c(a) \in Nat
    BY <1>4, <2>1, ProductGrows
  <2>3. tokens'[a] = tokens[a] + share * c(a) /\ tokens[a] \in Nat
    BY <1>1, <1>2, GuildAssumption
  <2> QED BY <2>2, <2>3
<1> HIDE DEF share, c
<1>7. tokens'[Self] = tokens[Self] - share * n
  BY <1>1, <1>2, <1>5
<1>8. tokens' \in [OfGuild.Users \cup {Self} -> Nat]
  <2>1. tokens'[Self] \in Nat
    BY <1>2, <1>4, <1>5, <1>7
  <2>2. DOMAIN tokens' = OfGuild.Users \cup {Self}
    BY <1>1, <1>2
  <2>3. tokens' = [a \in OfGuild.Users \cup {Self} |-> tokens'[a]]
    BY <1>1, <2>2
  <2> QED BY <1>6, <2>1, <2>3
<1>9. tokens'[Self] < Len(members) /\ clock' \in Nat /\ disbanded' \in BOOLEAN
  BY <1>1, <1>2, <1>4, <1>7 DEF GuildTypes
<1> QED BY <1>1, <1>8, <1>9, GuildQuiet

LEMMA GuildStep == ASSUME GuildInv, Guild!Next PROVE GuildInv'
<1>1. /\ clock \in Nat /\ disbanded \in BOOLEAN /\ tokens \in [OfGuild.Users \cup {Self} -> Nat]
      /\ disbanded => tokens[Self] < Len(members)
      /\ DOMAIN withdrawal = 1 .. Len(withdrawal)
  BY DEF GuildInv, GuildTypes
<1>2. ASSUME NEW u \in OfGuild.Users, Guild!Join(u) PROVE GuildInv'
  BY <1>2, GetsRole DEF Guild!Join, Guild!AssertActive, GuildRoles
<1>3. ASSUME NEW u \in OfGuild.Users, NEW v \in OfGuild.Users, NEW r \in GuildRoles,
             Guild!SetRole(u, v, r)
      PROVE  GuildInv'
  BY <1>3, GetsRole DEF Guild!SetRole, Guild!AssertActive
<1>4. ASSUME NEW u \in OfGuild.Users, NEW n \in OfGuild.Amounts, Guild!Deposit(u, n)
      PROVE  GuildInv'
  <2>1. /\ ~disbanded /\ Guild!Transfer(u, Self, n)
        /\ UNCHANGED <<clock, role, members, disbanded, withdrawal, voted>>
    BY <1>4 DEF Guild!Deposit, Guild!AssertActive, Guild!roles, Guild!votes
  <2>2. tokens' \in [OfGuild.Users \cup {Self} -> Nat]
    BY <2>1, GuildTransfers, GuildAssumption DEF GuildInv
  <2> QED BY <1>1, <2>1, <2>2, GuildQuiet
<1>5. ASSUME UNCHANGED <<clock, tokens, role, members, disbanded, withdrawal, voted>>
      PROVE  GuildInv'
  BY <1>1, <1>5, GuildQuiet
<1>6. ASSUME NEW u, NEW c, Guild!AddTo(u, c) PROVE GuildInv'
  BY <1>5, <1>6 DEF Guild!AddTo, Guild!roles, Guild!votes
<1>7. ASSUME NEW u, NEW d, Guild!CreateProposal(u, d) PROVE GuildInv'
  BY <1>5, <1>7 DEF Guild!CreateProposal, Guild!roles, Guild!votes
<1>8. ASSUME NEW u, NEW id, NEW b, Guild!Vote(u, id, b) PROVE GuildInv'
  BY <1>5, <1>8 DEF Guild!Vote, Guild!roles, Guild!votes
<1>9. ASSUME NEW u, NEW v, NEW b, Guild!RecordCompetition(u, v, b) PROVE GuildInv'
  BY <1>5, <1>9 DEF Guild!RecordCompetition, Guild!roles, Guild!votes
<1>10. CASE Guild!Tick
  <2>1. clock' = clock + 1 /\ UNCHANGED <<tokens, role, members, disbanded, withdrawal, voted>>
    BY <1>10 DEF Guild!Tick, Guild!roles, Guild!votes
  <2> QED BY <1>1, <2>1, GuildQuiet
<1> QED BY <1>1, <1>2, <1>3, <1>4, <1>6, <1>7, <1>8, <1>9, <1>10, WithdrawKeeps, GuildVotes,
           ExecuteKeeps, DisbandKeeps
        DEF Guild!Next, Guild!AddResource, Guild!AddAchievement, GuildRoles

LEMMA GuildStays == ASSUME GuildInv, UNCHANGED Guild!vars PROVE GuildInv'
BY GuildQuiet DEF Guild!vars, GuildInv, GuildTypes

LEMMA GuildInit == ASSUME Guild!Init PROVE GuildInv
<1>1. GuildTypes
  <2>1. clock = 0 /\ disbanded = FALSE /\ withdrawal = <<>> /\ voted = {}
        /\ members = <<OfGuild.Leader>>
    BY DEF Guild!Init
  <2>2. tokens \in [OfGuild.Users \cup {Self} -> Nat]
    BY GuildAssumption DEF Guild!Init
  <2>3. role \in [OfGuild.Users -> GuildRoles \cup {None}]
    BY DEF Guild!Init, GuildRoles
  <2>4. <<OfGuild.Leader>> \in Seq(OfGuild.Users)
    <3> DEFINE l == OfGuild.Leader
               U == OfGuild.Users
    <3>1. l \in U
      BY GuildAssumption
    <3> HIDE DEF l, U
    <3>2. <<l>> \in Seq(U)
      BY <3>1
    <3> QED BY <3>2 DEF l, U
  <2>5. withdrawal \in Seq(Request)
    BY <2>1
  <2> QED BY <2>1, <2>2, <2>3, <2>4, <2>5 DEF GuildTypes
<1>2. Len(members) = 1 /\ members[1] = OfGuild.Leader /\ ~disbanded /\ Len(withdrawal) = 0
  BY DEF Guild!Init
<1>3. Enlisted
  BY <1>2, GuildAssumption DEF Guild!Init, Enlisted, GuildRoles
<1> QED BY <1>1, <1>2, <1>3 DEF GuildInv

LEMMA GuildSays == ASSUME GuildInv PROVE Guild!VotesOfMembers
<1>1. /\ DOMAIN members = 1 .. Len(members) /\ Len(members) \in Nat
      /\ DOMAIN withdrawal = 1 .. Len(withdrawal)
      /\ \A i \in 1 .. Len(members) : members[i] \in OfGuild.Users
  BY DEF GuildInv, GuildTypes
<1>2. \A S : Guild!Cardinality(S) = Cardinality(S)
  BY DEF Guild!Cardinality, Cardinality
<1>3. {members[i] : i \in DOMAIN members} = {u \in OfGuild.Users : role[u] # None}
  BY <1>1 DEF GuildInv, Enlisted
<1>4. ASSUME NEW id \in 1 .. Len(withdrawal)
      PROVE  LET w == withdrawal[id]
                 voters == {u \in OfGuild.Users : <<id, u>> \in voted}
             IN /\ w.yes + w.no = Guild!Cardinality(voters)
                /\ \A u \in voters : role[u] # None
                /\ w.executed => 2 * w.yes > w.yes + w.no
  BY <1>2 DEF GuildInv, Counted, VotersOn
<1> QED BY <1>1, <1>3, <1>4 DEF GuildInv, Enlisted, Guild!VotesOfMembers

-----------------------------------------------------------------------------
(***************************************************************************)
(* Proofs: the energy of players.                                          *)
(***************************************************************************)
EnergySettings ==
  [base_regen_rate : Nat, default_max_energy : Nat, puzzle_energy_cost : Nat,
   refill_token_cost : Nat, max_gift_per_day : Nat, paused : BOOLEAN]

EnergyRecord ==
  [current_energy : Nat, max_energy : Nat, last_update : Nat,
   active_boost : OfEnergy.Boosts \cup {None}, boost_expires_at : Nat, gifted_today : Nat]

\* There are finitely many players, and amounts, rates and times are numbers.
ASSUME EnergyAssumption ==
  /\ IsFiniteSet(OfEnergy.Players)
  /\ OfEnergy.Configs \subseteq EnergySettings
  /\ OfEnergy.Boosts \subseteq Nat /\ OfEnergy.Durations \subseteq Nat
  /\ OfEnergy.Gifts \subseteq Nat
  /\ OfEnergy.U32_MAX \in Nat /\ OfEnergy.MaxTime \in Nat
  /\ None \notin EnergySettings /\ None \notin EnergyRecord /\ None \notin OfEnergy.Boosts

\* A record as the calls leave it at a time.
Sound(e, time) ==
  /\ e \in EnergyRecord
  /\ e.current_energy <= e.max_energy
  /\ e.last_update <= time
  /\ e.active_boost = None => e.boost_expires_at = 0

\* Before initialize nobody has a record, and from then on all are sound.
EnergyInv ==
  /\ clock \in Nat
  /\ settings \in EnergySettings \cup {None}
  /\ energy \in [OfEnergy.Players -> EnergyRecord \cup {None}]
  /\ \A p \in OfEnergy.Players : energy[p] # None => Sound(energy[p], clock)
  /\ settings = None => \A p \in OfEnergy.Players : energy[p] = None
  /\ total_players = Cardinality({p \in OfEnergy.Players : energy[p] # None})
  /\ gift_reset \in Nat /\ gift_reset <= clock

\* The counts of the instance are those of FiniteSets.
LEMMA EnergyCounts == \A S : Energy!Cardinality(S) = Cardinality(S)
BY DEF Energy!Cardinality, Cardinality

\* What a call does to the records of the players that it saw.
LEMMA PlayersSeen ==
  ASSUME EnergyInv, settings # None, UNCHANGED <<clock, settings>>,
         NEW S \in SUBSET OfEnergy.Players, NEW e,
         \A p \in S : Sound(e[p], clock),
         energy' = [p \in OfEnergy.Players |-> IF p \in S THEN e[p] ELSE energy[p]],
         total_players' = total_players + Cardinality({p \in S : energy[p] = None}),
         gift_reset' \in {gift_reset, clock}
  PROVE  EnergyInv'
<1> DEFINE A == {p \in OfEnergy.Players : energy[p] # None}
           B == {p \in S : energy[p] = None}
<1>1. IsFiniteSet(A) /\ IsFiniteSet(B) /\ A \cap B = {}
  <2>1. A \subseteq OfEnergy.Players /\ B \subseteq OfEnergy.Players /\ A \cap B = {}
    OBVIOUS
  <2> QED BY <2>1, EnergyAssumption, FS_Subset
<1>2. {p \in OfEnergy.Players : energy'[p] # None} = A \cup B
  <2>1. \A p \in S : e[p] # None
    BY EnergyAssumption DEF Sound
  <2> QED BY <2>1
<1>3. Cardinality(A \cup B) = Cardinality(A) + Cardinality(B)
  <2>1. /\ Cardinality(A \cup B) = Cardinality(A) + Cardinality(B) - Cardinality({})
        /\ Cardinality(A) \in Nat /\ Cardinality(B) \in Nat
    <3> HIDE DEF A, B
    <3> QED BY <1>1, FS_Union, FS_CardinalityType
  <2> QED BY <2>1, FS_EmptySet
<1>4. total_players' = Cardinality({p \in OfEnergy.Players : energy'[p] # None})
  BY <1>2, <1>3 DEF EnergyInv
<1>5. /\ energy' \in [OfEnergy.Players -> EnergyRecord \cup {None}]
      /\ \A p \in OfEnergy.Players : energy'[p] # None => Sound(energy'[p], clock)
  BY DEF EnergyInv, Sound
<1> QED BY <1>4, <1>5 DEF EnergyInv

\* get_or_create_player_energy returns a sound record.
LEMMA RecordSound ==
  ASSUME EnergyInv, settings # None, NEW p \in OfEnergy.Players
  PROVE  Sound(Energy!Record(p), clock)
<1>1. CASE energy[p] # None
  BY <1>1 DEF EnergyInv, Energy!Record
<1>2. CASE energy[p] = None
  BY <1>2, EnergyAssumption
  DEF EnergyInv, EnergySettings, EnergyRecord, Energy!Record, Sound
<1> QED BY <1>1, <1>2

\* update_energy_regeneration keeps a record sound.
LEMMA RegenerateSound ==
  ASSUME EnergyInv, settings # None, NEW e, Sound(e, clock)
  PROVE  Sound(Energy!Regenerate(e), clock)
<1>1. Energy!Regenerated(e) \in Nat
  <2>1. Energy!Elapsed(e) \in Nat
    <3>1. clock - e.last_update \in Int /\ OfEnergy.U32_MAX + 1 \in Nat \ {0}
      BY EnergyAssumption DEF EnergyInv, Sound, EnergyRecord
    <3> QED BY <3>1 DEF Energy!Elapsed
  <2>2. settings.base_regen_rate \in Nat
    BY DEF EnergyInv, EnergySettings
  <2>3. ASSUME Energy!Boosted(e) PROVE e.active_boost \in Nat
    BY <2>3, EnergyAssumption DEF Energy!Boosted, Sound, EnergyRecord
  <2> DEFINE a == Energy!Elapsed(e) * settings.base_regen_rate
             b == IF Energy!Boosted(e) THEN e.active_boost ELSE 1
  <2>4. a \in Nat
    BY <2>1, <2>2, ProductGrows
  <2>5. b \in Nat
    BY <2>3
  <2> HIDE DEF a, b
  <2>6. a * b \in Nat
    BY <2>4, <2>5, ProductGrows
  <2> QED BY <2>6 DEF a, b, Energy!Regenerated
<1>2. CASE Energy!Elapsed(e) = 0
  BY <1>2 DEF Energy!Regenerate
<1>3. CASE Energy!Elapsed(e) # 0
  <2> DEFINE n == e.current_energy + Energy!Regenerated(e)
             c == Energy!Smaller(n, e.max_energy)
             b == IF e.boost_expires_at > clock THEN e.active_boost ELSE None
             x == IF e.boost_expires_at > clock THEN e.boost_expires_at ELSE 0
             r == [e EXCEPT !.current_energy = c, !.last_update = clock, !.active_boost = b,
                            !.boost_expires_at = x]
  <2>1. Energy!Regenerate(e) = r
    BY <1>3 DEF Energy!Regenerate
  <2>2. n \in Nat /\ e.max_energy \in Nat /\ clock \in Nat
    BY <1>1 DEF Sound, EnergyRecord, EnergyInv
  <2> HIDE DEF n
  <2>3. c \in Nat /\ c <= e.max_energy
    BY <2>2 DEF Energy!Smaller
  <2>4. b \in OfEnergy.Boosts \cup {None} /\ x \in Nat /\ (b = None => x = 0)
    BY <2>2 DEF Sound, EnergyRecord
  <2> HIDE DEF c, b, x
  <2>5. /\ r \in EnergyRecord /\ r.current_energy = c /\ r.max_energy = e.max_energy
        /\ r.last_update = clock /\ r.active_boost = b /\ r.boost_expires_at = x
    BY <2>2, <2>3, <2>4 DEF Sound, EnergyRecord
  <2> HIDE DEF r
  <2> QED BY <2>1, <2>2, <2>3, <2>4, <2>5 DEF Sound
<1> QED BY <1>2, <1>3

\* The record of one player is written, and the player counted.
LEMMA OnePlayerSeen ==
  ASSUME EnergyInv, settings # None, UNCHANGED <<clock, settings>>,
         NEW p \in OfEnergy.Players, NEW r, Sound(r, clock),
         energy' = [energy EXCEPT ![p] = r], Energy!Seen({p})
  PROVE  EnergyInv'
<1> DEFINE e == [q \in {p} |-> r]
<1>1. energy' = [q \in OfEnergy.Players |-> IF q \in {p} THEN e[q] ELSE energy[q]]
  BY DEF EnergyInv
<1>2. gift_reset' \in {gift_reset, clock}
  BY DEF Energy!Seen, Energy!ResetDailyGifts
<1>3. total_players' = total_players + Cardinality({q \in {p} : energy[q] = None})
  BY EnergyCounts DEF Energy!Seen
<1>4. \A q \in {p} : Sound(e[q], clock)
  OBVIOUS
<1> HIDE DEF e
<1> QED BY <1>1, <1>2, <1>3, <1>4, PlayersSeen

LEMMA ConsumeKeeps ==
  ASSUME EnergyInv, NEW p \in OfEnergy.Players, Energy!ConsumeEnergy(p)
  PROVE  EnergyInv'
<1> DEFINE e == Energy!Regenerate(Energy!Record(p))
           c == e.current_energy - settings.puzzle_energy_cost
           r == [e EXCEPT !.current_energy = c, !.last_update = clock]
<1>1. /\ settings # None /\ UNCHANGED <<clock, settings>> /\ Energy!Seen({p})
      /\ e.current_energy >= settings.puzzle_energy_cost /\ energy' = [energy EXCEPT ![p] = r]
  BY DEF Energy!ConsumeEnergy, Energy!NotPaused
<1>2. Sound(e, clock)
  BY <1>1, RecordSound, RegenerateSound
<1> HIDE DEF e
<1>3. clock \in Nat /\ c \in Nat /\ c <= e.max_energy
  BY <1>1, <1>2 DEF EnergyInv, EnergySettings, Sound, EnergyRecord
<1> HIDE DEF c, r
<1>4. /\ r \in EnergyRecord /\ r.current_energy = c /\ r.max_energy = e.max_energy
      /\ r.last_update = clock /\ r.active_boost = e.active_boost
      /\ r.boost_expires_at = e.boost_expires_at
  BY <1>2, <1>3 DEF Sound, EnergyRecord, r
<1>5. Sound(r, clock)
  BY <1>2, <1>3, <1>4 DEF Sound
<1> QED BY <1>1, <1>5, OnePlayerSeen

LEMMA RefillKeeps ==
  ASSUME EnergyInv, NEW p \in OfEnergy.Players, Energy!InstantRefill(p)
  PROVE  EnergyInv'
<1> DEFINE e == Energy!Record(p)
           c == e.max_energy
           r == [e EXCEPT !.current_energy = c, !.last_update = clock]
<1>1. /\ settings # None /\ UNCHANGED <<clock, settings>> /\ Energy!Seen({p})
      /\ energy' = [energy EXCEPT ![p] = r]
  BY DEF Energy!InstantRefill, Energy!NotPaused
<1>2. Sound(e, clock)
  BY <1>1, RecordSound
<1> HIDE DEF e
<1>3. clock \in Nat /\ c \in Nat /\ c <= e.max_energy
  BY <1>2 DEF EnergyInv, Sound, EnergyRecord
<1> HIDE DEF c, r
<1>4. /\ r \in EnergyRecord /\ r.current_energy = c /\ r.max_energy = e.max_energy
      /\ r.last_update = clock /\ r.active_boost = e.active_boost
      /\ r.boost_expires_at = e.boost_expires_at
  BY <1>2, <1>3 DEF Sound, EnergyRecord, r
<1>5. Sound(r, clock)
  BY <1>2, <1>3, <1>4 DEF Sound
<1> QED BY <1>1, <1>5, OnePlayerSeen

LEMMA BoostKeeps ==
  ASSUME EnergyInv, NEW p \in OfEnergy.Players, NEW b \in OfEnergy.Boosts,
         NEW d \in OfEnergy.Durations, Energy!ApplyBoost(p, b, d)
  PROVE  EnergyInv'
<1> DEFINE e == Energy!Record(p)
           x == clock + d
           r == [e EXCEPT !.active_boost = b, !.boost_expires_at = x, !.last_update = clock]
<1>1. /\ settings # None /\ UNCHANGED <<clock, settings>> /\ Energy!Seen({p})
      /\ energy' = [energy EXCEPT ![p] = r]
  BY DEF Energy!ApplyBoost, Energy!NotPaused
<1>2. Sound(e, clock)
  BY <1>1, RecordSound
<1> HIDE DEF e
<1>3. clock \in Nat /\ b # None /\ x \in Nat
  BY EnergyAssumption DEF EnergyInv
<1> HIDE DEF x, r
<1>4. /\ r \in EnergyRecord /\ r.current_energy = e.current_energy
      /\ r.max_energy = e.max_energy /\ r.last_update = clock
      /\ r.active_boost = b /\ r.boost_expires_at = x
  BY <1>2, <1>3 DEF Sound, EnergyRecord, r
<1>5. Sound(r, clock)
  BY <1>2, <1>3, <1>4 DEF Sound
<1> QED BY <1>1, <1>5, OnePlayerSeen

LEMMA GiftKeeps ==
  ASSUME EnergyInv, NEW p \in OfEnergy.Players, NEW q \in OfEnergy.Players,
         NEW n \in OfEnergy.Gifts, Energy!GiftEnergy(p, q, n)
  PROVE  EnergyInv'
<1> DEFINE f == Energy!Regenerate(Energy!Record(p))
           t == Energy!Regenerate(Energy!Record(q))
           c == f.current_energy - n
           d == t.current_energy + n
           g == f.gifted_today + n
           x == [f EXCEPT !.current_energy = c, !.gifted_today = g, !.last_update = clock]
           y == [t EXCEPT !.current_energy = d, !.last_update = clock]
           e == [z \in {p, q} |-> IF z = p THEN x ELSE y]
<1>1. /\ settings # None /\ UNCHANGED <<clock, settings>> /\ p # q
      /\ f.current_energy >= n /\ t.current_energy + n <= t.max_energy
      /\ energy' = [energy EXCEPT ![p] = x, ![q] = y]
      /\ total_players' = total_players + Cardinality({z \in {p, q} : energy[z] = None})
      /\ gift_reset' \in {gift_reset, clock}
  BY EnergyCounts DEF Energy!GiftEnergy, Energy!NotPaused, Energy!ResetDailyGifts
<1>2. Sound(f, clock) /\ Sound(t, clock) /\ n \in Nat
  BY <1>1, RecordSound, RegenerateSound, EnergyAssumption
<1> HIDE DEF f, t
<1>3. /\ clock \in Nat /\ c \in Nat /\ d \in Nat /\ g \in Nat
      /\ c <= f.max_energy /\ d <= t.max_energy
  BY <1>1, <1>2 DEF EnergyInv, Sound, EnergyRecord
<1> HIDE DEF c, d, g, x, y
<1>6. Sound(x, clock) /\ Sound(y, clock)
  <2>1. /\ x \in EnergyRecord /\ x.current_energy = c /\ x.max_energy = f.max_energy
        /\ x.last_update = clock /\ x.active_boost = f.active_boost
        /\ x.boost_expires_at = f.boost_expires_at
    BY <1>2, <1>3 DEF Sound, EnergyRecord, x
  <2>2. /\ y \in EnergyRecord /\ y.current_energy = d /\ y.max_energy = t.max_energy
        /\ y.last_update = clock /\ y.active_boost = t.active_boost
        /\ y.boost_expires_at = t.boost_expires_at
    BY <1>2, <1>3 DEF Sound, EnergyRecord, y
  <2> QED BY <1>2, <1>3, <2>1, <2>2 DEF Sound
<1>4. energy' = [z \in OfEnergy.Players |-> IF z \in {p, q} THEN e[z] ELSE energy[z]]
  BY <1>1 DEF EnergyInv
<1>5. \A z \in {p, q} : Sound(e[z], clock)
  BY <1>6
<1> HIDE DEF e
<1> QED BY <1>1, <1>4, <1>5, PlayersSeen

LEMMA EnergyStep == ASSUME EnergyInv, Energy!Next PROVE EnergyInv'
<1>1. ASSUME NEW c \in OfEnergy.Configs, Energy!Initialize(c) PROVE EnergyInv'
  <2>1. /\ settings' = c /\ total_players' = 0 /\ UNCHANGED <<clock, energy, gift_reset>>
        /\ \A p \in OfEnergy.Players : energy[p] = None
    BY <1>1 DEF Energy!Initialize, EnergyInv
  <2>2. {p \in OfEnergy.Players : energy'[p] # None} = {}
    BY <2>1
  <2>3. total_players' = Cardinality({p \in OfEnergy.Players : energy'[p] # None})
    BY <2>1, <2>2, FS_EmptySet
  <2> QED BY <2>1, <2>3, EnergyAssumption DEF EnergyInv
<1>2. ASSUME NEW c \in OfEnergy.Configs, Energy!UpdateConfig(c) PROVE EnergyInv'
  BY <1>2, EnergyAssumption DEF Energy!UpdateConfig, EnergyInv, EnergySettings
<1>3. ASSUME NEW on \in BOOLEAN, Energy!SetPaused(on) PROVE EnergyInv'
  BY <1>3, EnergyAssumption DEF Energy!SetPaused, EnergyInv, EnergySettings
<1>4. ASSUME NEW p \in OfEnergy.Players, Energy!GetPlayerEnergy(p) PROVE EnergyInv'
  <2>1. /\ settings # None /\ UNCHANGED <<clock, settings>> /\ Energy!Seen({p})
        /\ energy' = [energy EXCEPT ![p] = Energy!Record(p)]
    BY <1>4 DEF Energy!GetPlayerEnergy
  <2>2. Sound(Energy!Record(p), clock)
    BY <2>1, RecordSound
  <2> QED BY <2>1, <2>2, OnePlayerSeen
<1>5. CASE Energy!Tick
  <2>1. clock' = clock + 1 /\ UNCHANGED <<settings, energy, total_players, gift_reset>>
    BY <1>5 DEF Energy!Tick
  <2>2. ASSUME NEW p \in OfEnergy.Players, energy[p] # None PROVE Sound(energy[p], clock + 1)
    BY <2>2 DEF EnergyInv, Sound, EnergyRecord
  <2> QED BY <2>1, <2>2 DEF EnergyInv
<1> QED BY <1>1, <1>2, <1>3, <1>4, <1>5, ConsumeKeeps, RefillKeeps, GiftKeeps, BoostKeeps
        DEF Energy!Next

LEMMA EnergyQuiet == ASSUME EnergyInv, UNCHANGED Energy!vars PROVE EnergyInv'
BY DEF Energy!vars, EnergyInv

LEMMA EnergyInit == ASSUME Energy!Init PROVE EnergyInv
<1>1. {p \in OfEnergy.Players : energy[p] # None} = {}
  BY DEF Energy!Init
<1> QED BY <1>1, FS_EmptySet DEF Energy!Init, EnergyInv

LEMMA EnergySays == ASSUME EnergyInv PROVE Energy!EnergyBooks
BY EnergyCounts DEF EnergyInv, Sound, EnergyRecord, Energy!EnergyBooks

-----------------------------------------------------------------------------
(***************************************************************************)
(* Contracts that keep records: the values of their constants for TLC.     *)
(***************************************************************************)
\* anti_bot: few records at a time
AntiBotConfig ==
  [max_attempts |-> 2, rate_limit_window |-> 1, default_penalty |-> 1, appeal_period |-> 1,
   captcha_validity |-> 1, pattern_window |-> 3, max_fast_solves |-> 2, min_solve_time |-> 2,
   suspicious_solve_time |-> 1]
Window == [submission_start |-> 0, submission_end |-> 1, grace_period |-> 1, min_solve_time |-> 1,
           max_solve_time |-> 3]

MCAntiBot ==
  [Players |-> {ann, bob}, Puzzles |-> {cat}, DEFAULT_CONFIG |-> AntiBotConfig,
   Configs |-> {[AntiBotConfig EXCEPT !.default_penalty = 2]},
   Windows |-> {Window}, SolveTimes |-> {0, 2}, Severities |-> {8}, TimeSteps |-> {1}, DAY |-> 1,
   MaxActivity |-> 1, MaxReports |-> 1, MaxPenalties |-> 1, MaxAppeals |-> 2, MaxTime |-> 2]

RecordCount(p) ==
  Len(suspicious[p]) + Len(pattern[p].times) + Weight(profile[p] # None, 1)
    + (IF rate[p] = None THEN 0 ELSE rate[p].attempt_count)
AntiBotSmall ==
  Len(challenge) + Len(penalty) + Len(appeal) + RecordCount(ann) + RecordCount(bob)
    + 2 * Cardinality(whitelisted \cup blacklisted)
    + Weight(window[cat] # None, 2) + Weight(settings \notin {None, AntiBotConfig}, 2) + clock <= 4

\* dynamic_metadata: one token and few rules and versions
TraitRule == [threshold |-> 1, trait |-> eve, target_level |-> 1, new_rarity |-> 2]
TriggerRules ==
  {[type |-> "metric", metric |-> dan, threshold |-> 1, action |-> "bump_level", trait |-> eve,
    value |-> 1],
   [type |-> "ownership_count", threshold |-> 2, action |-> "add_numeric_trait", trait |-> eve,
    value |-> 1],
   [type |-> "time", threshold |-> 1, action |-> "add_trait", trait |-> eve]}

MCDynamicMetadata ==
  [Owners |-> {ann, bob}, Contents |-> {1}, Traits |-> {eve}, Metrics |-> {dan}, Values |-> {0, 1},
   BaseUris |-> {1, 2}, TraitRules |-> {TraitRule}, TriggerRules |-> TriggerRules,
   MAX_SCHEMA_VERSION |-> 1, MAX_TRAITS_PER_TOKEN |-> 1,
   MaxTokens |-> 1, MaxRules |-> 2, MaxVersions |-> 3, MaxScore |-> 2, MaxTime |-> 1]

DynamicMetadataSmall ==
  /\ clock = 1 => metric # <<>>
  /\ Len(triggerRule) > 0 => settings.image_base_uri = 1 /\ ~paused
  /\ Len(traitRule) + Len(triggerRule) + Weight(paused, 1)
       + (IF token = <<>> THEN 0 ELSE Len(versions[1])) + clock
       + (IF settings = None THEN 0 ELSE settings.image_base_uri - 1) <= 3

\* achievement_sets: one limited set and one that is not
SetDef(rarity, cap) ==
  [required |-> <<1>>, tier |-> rarity, base_bonus |-> 1, cap |-> cap, unlock_key |-> 1]

MCAchievementSets ==
  [Players |-> {ann, bob}, Puzzles |-> {1}, SetDefs |-> {SetDef("Common", 2), SetDef("Rare", None)},
   SynergyDefs |-> {[required |-> <<1, 2>>, bonus |-> 2, unlock_key |-> 2]},
   Tops |-> {1, 2}, MaxSets |-> 2, MaxSynergies |-> 1]

AchievementSetsSmall ==
  /\ Len(set) > 0 => set[1].cap = 2
  /\ Len(set) = 2 => set[2].cap = None
  /\ owns # [p \in {ann, bob} |-> {}] => Len(set) = 2
  /\ \A p \in {ann, bob} : gathered[p][2] = {} \/ <<p, 2>> \in claimed \/ <<p, 1>> \in combined
  /\ Cardinality(claimed) + Cardinality(combined) <= 3

\* referral: three players, so that chains are longer than two
MCReferral ==
  [Users |-> {ann, bob, cat}, Rewards |-> {0, 1}, Limits |-> {1, 2}, Depths |-> {1},
   MAX_CHAIN_DEPTH |-> 2, LETTERS |-> 4, Funds |-> {3}, MaxTime |-> 1]

ReferralSmall ==
  /\ tokens[Self] <= 3
  /\ settings # None => /\ settings.referrer_reward + settings.referee_reward \in {1, 2}
                      /\ settings.referrer_reward >= settings.referee_reward
  /\ clock = 1 => counting = 1 /\ stats.total_referrals = 0

\* cross_contract: two routes, one of them without messages of its own
RateLimit(secs, n) == [window_secs |-> secs, max_messages |-> n]

MCCrossContract ==
  [Senders |-> {ann, bob}, Routes |-> {1, 2}, Targets |-> {8}, Callbacks |-> {9},
   RateLimits |-> {RateLimit(2, 1), RateLimit(1, 2)}, MaxMessages |-> 2, MaxTime |-> 2]

CrossContractSmall ==
  /\ route[2] = None \/ (route[1] = None /\ tail = 0)
  /\ \A i \in DOMAIN message : message[i].callback # None => message[i].atomic
  /\ clock > 0 => tail > 0

\* guild: eve leads
MCGuild ==
  [Users |-> {eve, dan, cat}, Leader |-> eve, THRESHOLD |-> 1, Amounts |-> {1, 2}, InitBalance |-> 2,
   MaxWithdrawals |-> 1, MaxProposals |-> 1, MaxCount |-> 1, MaxTime |-> 1]

GuildSmall ==
  /\ role[cat] \in {None, "Member"} /\ role[dan] # "Leader"
  /\ role[dan] \in {None, "Officer"} \/ withdrawal # <<>>
  /\ tokens[dan] = 2 /\ tokens[cat] <= 2
  /\ clock > 0 => Len(withdrawal) > 0
  /\ counters.resource = counters.achievement \/ counters.achievement = 0
  /\ counters.resource + Len(proposal)
       + Cardinality({t \in DOMAIN competition : competition[t] # None})
       <= Weight(withdrawal = <<>> /\ tokens[Self] = 0, 2)

\* energy
EnergyConfig(regen, max) ==
  [base_regen_rate |-> regen, default_max_energy |-> max, puzzle_energy_cost |-> 1,
   refill_token_cost |-> 1, max_gift_per_day |-> 2, paused |-> FALSE]

MCEnergy ==
  [Players |-> {eve, dan}, Configs |-> {EnergyConfig(1, 2), EnergyConfig(2, 3)}, Boosts |-> {2},
   Durations |-> {1}, Gifts |-> {1}, DAY |-> 1, U32_MAX |-> 3, InitBalance |-> 1, MaxTime |-> 2]

EnergySmall ==
  /\ clock > 0 => total_players > 0
  /\ total_players > 0 /\ energy[eve] = None => clock = 0
  /\ settings # None => (settings.paused => clock = 0 /\ total_players = 0)
  /\ energy[dan] # None => tokens[dan] = 1 /\ energy[dan].active_boost = None
  /\ settings = EnergyConfig(2, 3) => energy[dan] = None
  /\ tokens[eve] = 0 => gift_reset = clock

-----------------------------------------------------------------------------
(***************************************************************************)
(* One contract at a time.                                                 *)
(***************************************************************************)
\* Storage that is not of the contract that runs, in the initial state and later.
OthersAbsent ==
  /\ contract # "anti_bot" => profile = 0 /\ rate = 0 /\ pattern = 0 /\ suspicious = 0
         /\ challenge = 0 /\ penalty = 0 /\ appeal = 0 /\ window = 0 /\ whitelisted = 0
         /\ blacklisted = 0
  /\ contract # "dynamic_metadata" => paused = 0 /\ token = 0 /\ log = 0 /\ versions = 0
         /\ metric = 0 /\ image = 0 /\ traitRule = 0 /\ triggerRule = 0
  /\ contract # "achievement_sets" => owns = 0 /\ top = 0 /\ set = 0 /\ synergy = 0
         /\ gathered = 0 /\ claimed = 0 /\ combined = 0 /\ claims = 0 /\ unlocks = 0
         /\ setboard = 0 /\ scores = 0 /\ bonus = 0 /\ edition = 0 /\ editions = 0
  /\ contract # "referral" => counting = 0 /\ code = 0 /\ owner = 0 /\ referrer = 0 /\ count = 0
         /\ referees = 0 /\ stats = 0
  /\ contract # "cross_contract" => rate_limit = 0 /\ route = 0 /\ message = 0 /\ slot = 0
         /\ head = 0 /\ tail = 0 /\ sender_window = 0 /\ audit = 0
  /\ contract # "guild" => role = 0 /\ members = 0 /\ disbanded = 0 /\ withdrawal = 0
         /\ voted = 0 /\ proposal = 0 /\ counters = 0 /\ competition = 0
  /\ contract # "energy" => energy = 0 /\ total_players = 0 /\ gift_reset = 0
  /\ contract \in {"quest_chain", "emergency_pause", "achievement_sets"}
         => clock = 0
  /\ contract \in {"quest_chain", "emergency_pause", "achievement_sets", "cross_contract",
                   "guild"}
         => settings = 0
  /\ contract \notin {"referral", "guild", "energy"} => tokens = 0

OthersStay ==
  /\ contract # "anti_bot" => UNCHANGED <<profile, rate, pattern, suspicious, challenge,
         penalty, appeal, window, whitelisted, blacklisted>>
  /\ contract # "dynamic_metadata" => UNCHANGED <<paused, token, log, versions, metric, image,
         traitRule, triggerRule>>
  /\ contract # "achievement_sets" => UNCHANGED <<owns, top, set, synergy, gathered, claimed,
         combined, claims, unlocks, setboard, scores, bonus, edition, editions>>
  /\ contract # "referral" => UNCHANGED <<counting, code, owner, referrer, count, referees,
         stats>>
  /\ contract # "cross_contract" => UNCHANGED <<rate_limit, route, message, slot, head, tail,
         sender_window, audit>>
  /\ contract # "guild" => UNCHANGED <<role, members, disbanded, withdrawal, voted, proposal,
         counters, competition>>
  /\ contract # "energy" => UNCHANGED <<energy, total_players, gift_reset>>
  /\ contract \in {"quest_chain", "emergency_pause", "achievement_sets"}
         => UNCHANGED clock
  /\ contract \in {"quest_chain", "emergency_pause", "achievement_sets", "cross_contract",
                   "guild"}
         => UNCHANGED settings
  /\ contract \notin {"referral", "guild", "energy"} => UNCHANGED tokens

MCInit ==
  /\ Init /\ Emergency!Init
  /\ \/ contract \in {"quest_chain", "emergency_pause"}
     \/ contract = "anti_bot" /\ AntiBot!Init
     \/ contract = "dynamic_metadata" /\ DynamicMetadata!Init
     \/ contract = "achievement_sets" /\ AchievementSets!Init
     \/ contract = "referral" /\ Referral!Init
     \/ contract = "cross_contract" /\ CrossContract!Init
     \/ contract = "guild" /\ Guild!Init
     \/ contract = "energy" /\ Energy!Init
  /\ OthersAbsent

RecordsNext ==
  \/ contract = "anti_bot" /\ AntiBot!Next
  \/ contract = "dynamic_metadata" /\ DynamicMetadata!Next
  \/ contract = "achievement_sets" /\ AchievementSets!Next
  \/ contract = "referral" /\ Referral!Next
  \/ contract = "cross_contract" /\ CrossContract!Next
  \/ contract = "guild" /\ Guild!Next
  \/ contract = "energy" /\ Energy!Next

MCNext ==
  \/ contract = "quest_chain" /\ Next /\ UNCHANGED <<contract, pauseVars, recordVars>>
  \/ contract = "emergency_pause" /\ Emergency!Next /\ UNCHANGED <<contract, questVars, recordVars>>
  \/ RecordsNext /\ OthersStay /\ UNCHANGED <<contract, now, questVars, pauseVars>>

MCSpec == MCInit /\ [][MCNext]_<<contract, now, questVars, pauseVars, recordVars>>

Bounded ==
  /\ QuestsBounded
  /\ contract = "anti_bot" => AntiBotSmall
  /\ contract = "dynamic_metadata" => DynamicMetadataSmall
  /\ contract = "achievement_sets" => AchievementSetsSmall
  /\ contract = "referral" => ReferralSmall
  /\ contract = "cross_contract" => CrossContractSmall
  /\ contract = "guild" => GuildSmall
  /\ contract = "energy" => EnergySmall

-----------------------------------------------------------------------------
\* What several calls of a contract count, copy and hand on stays in agreement
\* with what it was counted from: the profiles and their penalties, the
\* versions of a token, the boards and the editions, the referrals and their
\* rewards, the queues of messages, the votes of members and the energy.  Each
\* module says it of its contract.
RecordsAgree ==
  /\ contract = "anti_bot" => AntiBot!ProfilesAgree
  /\ contract = "dynamic_metadata" => DynamicMetadata!VersionsAgree
  /\ contract = "achievement_sets" => AchievementSets!BoardsAndEditions
  /\ contract = "referral" => Referral!ReferralBooks
  /\ contract = "cross_contract" => CrossContract!DeliveredInOrder
  /\ contract = "guild" => Guild!VotesOfMembers
  /\ contract = "energy" => Energy!EnergyBooks

-----------------------------------------------------------------------------
(***************************************************************************)
(* The theorems.                                                           *)
(***************************************************************************)
QuestsInv == PauseInv /\ BooksInv /\ EarnedInv /\ FundsInv

LEMMA QuestsHold == MCSpec => []QuestsInv
<1>1. MCInit => QuestsInv
  BY PauseInit, BooksInit, EarnedInit, FundsInit DEF MCInit, QuestsInv
<1>2. ASSUME QuestsInv, Next, UNCHANGED pauseVars PROVE QuestsInv'
  <2>1. BooksInv' /\ EarnedInv' /\ FundsInv'
    BY <1>2, BooksStep, EarnedNext, FundsNext DEF QuestsInv
  <2>2. now' \in Nat /\ timelock' \in Nat
    BY <1>2, <2>1 DEF BooksInv, BookTypes, QuestsInv, PauseInv, PauseTypes, pauseVars
  <2>3. PauseInv'
    BY <1>2, <2>2, PauseQuiet DEF QuestsInv, pauseVars
  <2> QED BY <2>1, <2>3 DEF QuestsInv
<1>3. ASSUME QuestsInv, now' \in Nat, UNCHANGED questVars PROVE BooksInv' /\ EarnedInv' /\ FundsInv'
  <2>1. UNCHANGED <<bal, nft, config, counter, chain, progress, owed, pool, board, completions,
                    participants>>
    BY <1>3 DEF questVars, roles, results
  <2>2. BooksInv'
    BY <1>3, <2>1, BooksQuiet DEF QuestsInv, BooksInv, BookTypes
  <2>3. EarnedInv'
    BY <1>3, <2>1, EarnedQuiet DEF QuestsInv
  <2>4. FundsInv'
    BY <1>3, <2>1, FundsQuiet DEF QuestsInv, funds
  <2> QED BY <2>2, <2>3, <2>4
<1>4. ASSUME QuestsInv, Emergency!Next, UNCHANGED questVars PROVE QuestsInv'
  <2>1. PauseInv'
    BY <1>4, PauseStep DEF QuestsInv
  <2>2. now' \in Nat
    BY <2>1 DEF PauseInv, PauseTypes
  <2> QED BY <1>3, <1>4, <2>1, <2>2 DEF QuestsInv
<1>5. ASSUME QuestsInv, UNCHANGED <<now, questVars, pauseVars>> PROVE QuestsInv'
  <2>1. now' \in Nat /\ timelock' \in Nat /\ UNCHANGED questVars
    BY <1>5 DEF QuestsInv, PauseInv, PauseTypes, pauseVars
  <2>2. PauseInv'
    BY <1>5, <2>1, PauseQuiet DEF QuestsInv, pauseVars
  <2> QED BY <1>3, <1>5, <2>1, <2>2 DEF QuestsInv
<1>6. QuestsInv /\ [MCNext]_<<contract, now, questVars, pauseVars, recordVars>> => QuestsInv'
  BY <1>2, <1>4, <1>5 DEF MCNext
<1> QED BY <1>1, <1>6, PTL DEF MCSpec

\* emergency_pause: every unpause of the history is preceded by a request that
\* was made during its pause and whose timelock had passed, for any guardians,
\* timelocks and length of the history.
THEOREM UnpausesWait == MCSpec => []UnpauseWaits
<1>1. QuestsInv => UnpauseWaits
  BY PauseSays DEF QuestsInv
<1> QED BY <1>1, QuestsHold, PTL

\* The participants and completions that quest_chain counts for a chain agree
\* with the progress and the leaderboard it keeps, and the leaderboard is
\* ordered, for any players, chains and quests.
THEOREM BooksAgree == MCSpec => []ChainBooks
<1>1. BooksInv => ChainBooks
  BY DEF BooksInv, ChainBooks, BoardOf
<1>2. QuestsInv => ChainBooks
  BY <1>1 DEF QuestsInv
<1> QED BY <1>2, QuestsHold, PTL

\* What is pending for a player is exactly the rewards of the quests completed
\* now and not claimed yet, or, once it has fallen back to a checkpoint after its
\* last claim, of all that are completed now: only a fall back makes what was
\* claimed due again, for any chains, quests, claims and resets.
THEOREM PendingIsEarned == MCSpec => []PendingEarned
<1>1. QuestsInv => PendingEarned
  BY EarnedSays DEF QuestsInv
<1> QED BY <1>1, QuestsHold, PTL

\* The reward pools of all chains together are covered by what the contract
\* holds, for any tokens and any number of fundings and claims.
THEOREM PoolsAreBacked == MCSpec => []PoolsBacked
<1>1. QuestsInv => PoolsBacked
  BY FundsSay DEF QuestsInv
<1> QED BY <1>1, QuestsHold, PTL

\* The invariant of the contract that runs, for those that keep records.
RecordsInv ==
  /\ contract = "anti_bot" => BotInv
  /\ contract = "dynamic_metadata" => MetadataInv
  /\ contract = "achievement_sets" => AchievementInv
  /\ contract = "referral" => ReferralInv
  /\ contract = "cross_contract" => CrossContractInv
  /\ contract = "guild" => GuildInv
  /\ contract = "energy" => EnergyInv

\* A step of a contract that keeps records, or one that leaves them alone.
LEMMA RecordsStep ==
  ASSUME [MCNext]_<<contract, now, questVars, pauseVars, recordVars>>
  PROVE  /\ contract' = contract
         /\ contract = "anti_bot" =>
              AntiBot!Next \/ UNCHANGED AntiBot!vars
         /\ contract = "dynamic_metadata" =>
              DynamicMetadata!Next \/ UNCHANGED DynamicMetadata!vars
         /\ contract = "achievement_sets" =>
              AchievementSets!Next \/ UNCHANGED AchievementSets!vars
         /\ contract = "referral" =>
              Referral!Next \/ UNCHANGED Referral!vars
         /\ contract = "cross_contract" =>
              CrossContract!Next \/ UNCHANGED CrossContract!vars
         /\ contract = "guild" =>
              Guild!Next \/ UNCHANGED Guild!vars
         /\ contract = "energy" =>
              Energy!Next \/ UNCHANGED Energy!vars
<1>1. CASE RecordsNext /\ OthersStay /\ UNCHANGED <<contract, now, questVars, pauseVars>>
  BY <1>1 DEF RecordsNext
<1>2. CASE UNCHANGED <<contract, recordVars>>
  <2>1. /\ contract' = contract
        /\ UNCHANGED AntiBot!vars
        /\ UNCHANGED DynamicMetadata!vars
        /\ UNCHANGED AchievementSets!vars
        /\ UNCHANGED Referral!vars
        /\ UNCHANGED CrossContract!vars
        /\ UNCHANGED Guild!vars
        /\ UNCHANGED Energy!vars
    BY <1>2 DEF recordVars, AntiBot!vars, DynamicMetadata!vars, AchievementSets!vars,
                Referral!vars, CrossContract!vars, Guild!vars, Energy!vars
  <2> QED BY <2>1
<1> QED BY <1>1, <1>2 DEF MCNext

LEMMA RecordsHold == MCSpec => []RecordsInv
<1>1. MCInit => RecordsInv
  BY AntiBotInit, DynamicMetadataInit, AchievementSetsInit, ReferralInit, CrossContractInit,
     GuildInit, EnergyInit DEF MCInit, RecordsInv
<1>2. RecordsInv /\ [MCNext]_<<contract, now, questVars, pauseVars, recordVars>> => RecordsInv'
  <2> SUFFICES ASSUME RecordsInv, [MCNext]_<<contract, now, questVars, pauseVars, recordVars>>
               PROVE  RecordsInv'
    OBVIOUS
  <2>1. ASSUME contract = "anti_bot" PROVE BotInv'
    BY <2>1, RecordsStep, AntiBotStep, AntiBotStays DEF RecordsInv
  <2>2. ASSUME contract = "dynamic_metadata" PROVE MetadataInv'
    BY <2>2, RecordsStep, DynamicMetadataStep, DynamicMetadataStays DEF RecordsInv
  <2>3. ASSUME contract = "achievement_sets" PROVE AchievementInv'
    BY <2>3, RecordsStep, AchievementSetsStep, AchievementSetsStays DEF RecordsInv
  <2>4. ASSUME contract = "referral" PROVE ReferralInv'
    BY <2>4, RecordsStep, ReferralStep, ReferralStays DEF RecordsInv
  <2>5. ASSUME contract = "cross_contract" PROVE CrossContractInv'
    BY <2>5, RecordsStep, CrossContractStep, CrossContractStays DEF RecordsInv
  <2>6. ASSUME contract = "guild" PROVE GuildInv'
    BY <2>6, RecordsStep, GuildStep, GuildStays DEF RecordsInv
  <2>7. ASSUME contract = "energy" PROVE EnergyInv'
    BY <2>7, RecordsStep, EnergyStep, EnergyQuiet DEF RecordsInv
  <2> QED BY RecordsStep, <2>1, <2>2, <2>3, <2>4, <2>5, <2>6, <2>7 DEF RecordsInv
<1> QED BY <1>1, <1>2, PTL DEF MCSpec

\* What the contracts that keep records count, copy and hand on agrees with
\* what it was counted from, for any players and configurations: profiles with
\* penalties and appeals, tokens with their versions, boards and editions with
\* bonuses and claims, referrals with their lists and rewards, messages with
\* their queues, votes with members, and energy with its maximum.
THEOREM RecordsAlwaysAgree == MCSpec => []RecordsAgree
<1>1. RecordsInv => RecordsAgree
  BY AntiBotSays, DynamicMetadataSays, AchievementSetsSays, ReferralSays, CrossContractSays,
     GuildSays, EnergySays
  DEF RecordsInv, RecordsAgree
<1> QED BY <1>1, RecordsHold, PTL

=============================================================================
