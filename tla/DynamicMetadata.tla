-------------------------- MODULE DynamicMetadata --------------------------
(***************************************************************************)
(* Tokens whose metadata changes (contracts/dynamic_metadata): by their    *)
(* owners and the administrator, by what an oracle reports and the rules   *)
(* that this fires, and by migrations to newer schemas.                    *)
(*                                                                         *)
(* A call is one action, its error paths are its guards.  Names, texts and *)
(* images are one value, `content'; the values of string traits, and who   *)
(* changed what and why, are left out, and with them the choice between    *)
(* the callers that are allowed (owner or administrator).                  *)
(***************************************************************************)
EXTENDS Integers, Sequences, FiniteSets

CONSTANTS
  Owners, Contents, Traits, Metrics,
  None,            \* no rule, no configuration, nothing cached
  Values,          \* what metrics and numeric traits are set or raised to
  BaseUris,        \* bases of image URIs
  TraitRules,      \* what configure_trait_rule is called with
  TriggerRules,    \* what configure_trigger_rule is called with
  MAX_SCHEMA_VERSION, MAX_TRAITS_PER_TOKEN,
  MaxTokens, MaxRules, MaxVersions, MaxScore, MaxTime    \* bounds

VARIABLES
  now,          \* ledger timestamp
  config,       \* DataKey::Config: image_base_uri and schema_version
  paused,       \* DataKey::GlobalPaused
  token,        \* DataKey::TokenMetadata(id), ids from 1 on
  history,      \* DataKey::OwnershipHistory(id)
  versions,     \* DataKey::VersionHistory(id): the snapshots
  metric,       \* DataKey::PerfMetric(id, key)
  image,        \* DataKey::GeneratedImageUri(id)
  traitRule,    \* DataKey::TraitRules, ids from 1 on; None when removed
  triggerRule   \* DataKey::TriggerRules, ids from 1 on; None when removed

vars == <<now, config, paused, token, history, versions, metric, image, traitRule, triggerRule>>
settings == <<config, paused>>
rules == <<traitRule, triggerRule>>

Init ==
  /\ now = 0 /\ config = None /\ paused = FALSE
  /\ token = <<>> /\ history = <<>> /\ versions = <<>> /\ metric = <<>> /\ image = <<>>
  /\ traitRule = <<>> /\ triggerRule = <<>>

Larger(a, b) == IF a > b THEN a ELSE b
Less(a, b) == IF a > b THEN a - b ELSE 0                    \* saturating_sub
Put(f, k, v) == [x \in DOMAIN f \cup {k} |-> IF x = k THEN v ELSE f[x]]

-----------------------------------------------------------------------------
(***************************************************************************)
(* Administration.                                                         *)
(***************************************************************************)
Initialize(uri, v) ==
  /\ config = None /\ v \in 1 .. MAX_SCHEMA_VERSION
  /\ config' = [image_base_uri |-> uri, schema_version |-> v]
  /\ UNCHANGED <<now, paused, token, history, versions, metric, image, rules>>

Initialized == config # None

SetPaused(p) ==
  /\ Initialized
  /\ paused' = p
  /\ UNCHANGED <<now, config, token, history, versions, metric, image, rules>>

UpdateImageBaseUri(uri) ==
  /\ Initialized
  /\ config' = [config EXCEPT !.image_base_uri = uri]
  /\ UNCHANGED <<now, paused, token, history, versions, metric, image, rules>>

UpdateSchemaVersion(v) ==
  /\ Initialized
  /\ v \in config.schema_version .. MAX_SCHEMA_VERSION
  /\ config' = [config EXCEPT !.schema_version = v]
  /\ UNCHANGED <<now, paused, token, history, versions, metric, image, rules>>

ConfigureTraitRule(r) ==
  /\ Initialized /\ Len(traitRule) < MaxRules
  /\ traitRule' = Append(traitRule, r)
  /\ UNCHANGED <<now, settings, token, history, versions, metric, image, triggerRule>>

RemoveTraitRule(i) ==
  /\ i \in DOMAIN traitRule /\ traitRule[i] # None
  /\ traitRule' = [traitRule EXCEPT ![i] = None]
  /\ UNCHANGED <<now, settings, token, history, versions, metric, image, triggerRule>>

ConfigureTriggerRule(r) ==
  /\ Initialized /\ Len(triggerRule) < MaxRules
  /\ triggerRule' = Append(triggerRule, r)
  /\ UNCHANGED <<now, settings, token, history, versions, metric, image, traitRule>>

RemoveTriggerRule(i) ==
  /\ i \in DOMAIN triggerRule /\ triggerRule[i] # None
  /\ triggerRule' = [triggerRule EXCEPT ![i] = None]
  /\ UNCHANGED <<now, settings, token, history, versions, metric, image, traitRule>>

-----------------------------------------------------------------------------
(***************************************************************************)
(* Minting, transfer and burning.                                          *)
(***************************************************************************)
\* compute_and_cache_image_uri
Uri(m) == [base |-> config.image_base_uri, level |-> m.level, rarity |-> m.rarity]

MintToken(o, c, strings, numbers) ==
  LET m == [owner |-> o, content |-> c, string_traits |-> strings,
            numeric_traits |-> [t \in numbers |-> 1], level |-> 1, rarity |-> 1,
            performance_score |-> 0, schema_version |-> config.schema_version,
            updated_at |-> now, frozen |-> FALSE]
  IN /\ Initialized /\ ~paused
     /\ Cardinality(strings) <= MAX_TRAITS_PER_TOKEN /\ Cardinality(numbers) <= MAX_TRAITS_PER_TOKEN
     /\ Len(token) < MaxTokens
     /\ token' = Append(token, m)
     /\ history' = Append(history, << <<"Mint", o>> >>)
     /\ versions' = Append(versions, <<m>>)
     /\ metric' = Append(metric, [k \in Metrics |-> 0])
     /\ image' = Append(image, Uri(m))
     /\ UNCHANGED <<now, settings, rules>>

Snapshot(id, m) ==
  /\ Len(versions[id]) < MaxVersions
  /\ versions' = [versions EXCEPT ![id] = Append(@, m)]

\* The cached image stays, also when a burned token is transferred: its
\* metadata is as before the burning.
TransferToken(id, to) ==
  LET m == [token[id] EXCEPT !.owner = to, !.updated_at = now]
  IN /\ ~paused
     /\ token' = [token EXCEPT ![id] = m]
     /\ history' = [history EXCEPT ![id] = Append(@, <<"Transfer", to>>)]
     /\ Snapshot(id, m)
     /\ UNCHANGED <<now, settings, metric, image, rules>>

BurnToken(id) ==
  LET m == [token[id] EXCEPT !.updated_at = now]
  IN /\ ~paused /\ ~m.frozen
     /\ token' = [token EXCEPT ![id] = m]
     /\ history' = [history EXCEPT ![id] = Append(@, <<"Burn", m.owner>>)]
     /\ Snapshot(id, m)
     /\ UNCHANGED <<now, settings, metric, image, rules>>

-----------------------------------------------------------------------------
(***************************************************************************)
(* Changes of the metadata.                                                *)
(***************************************************************************)
\* write_metadata, which drops the cached image, and snapshot_version
Write(id, m) ==
  /\ token' = [token EXCEPT ![id] = [m EXCEPT !.updated_at = now]]
  /\ image' = [image EXCEPT ![id] = None]
  /\ Snapshot(id, [m EXCEPT !.updated_at = now])

Edit(id, m) ==
  /\ ~paused /\ ~token[id].frozen
  /\ Write(id, m)
  /\ UNCHANGED <<now, settings, history, metric, rules>>

UpdateMetadata(id, c) == Edit(id, [token[id] EXCEPT !.content = c])

AddStringTrait(id, t) ==
  /\ t \in token[id].string_traits
       \/ Cardinality(token[id].string_traits) < MAX_TRAITS_PER_TOKEN
  /\ Edit(id, [token[id] EXCEPT !.string_traits = @ \cup {t}])

RemoveStringTrait(id, t) == Edit(id, [token[id] EXCEPT !.string_traits = @ \ {t}])

AddNumericTrait(id, t, v) ==
  LET held == DOMAIN token[id].numeric_traits
  IN /\ t \in held \/ Cardinality(held) < MAX_TRAITS_PER_TOKEN
     /\ Edit(id, [token[id] EXCEPT !.numeric_traits = Put(@, t, v)])

\* increment_numeric_trait: it may add a trait beyond the limit
IncrementNumericTrait(id, t, v) ==
  LET held == token[id].numeric_traits
      old == IF t \in DOMAIN held THEN held[t] ELSE 0
  IN /\ old + v <= MaxScore
     /\ Edit(id, [token[id] EXCEPT !.numeric_traits = Put(@, t, old + v)])

\* freeze_metadata, unfreeze_metadata: also while the contract is paused
SetFrozen(id, f) ==
  /\ Write(id, [token[id] EXCEPT !.frozen = f])
  /\ UNCHANGED <<now, settings, history, metric, rules>>

\* migrate_metadata, called by the migrator: also for a frozen token; it
\* snapshots what was there before and what is there after
MigrateMetadata(id, v, c, strings, numbers, level) ==
  LET m == [token[id] EXCEPT !.content = c, !.string_traits = strings,
                             !.numeric_traits = [t \in numbers |-> 1],
                             !.level = IF level > 0 THEN level ELSE @,
                             !.rarity = IF level > 0 THEN level ELSE @,
                             !.schema_version = v, !.updated_at = now]
  IN /\ v \in config.schema_version .. MAX_SCHEMA_VERSION
     /\ Cardinality(strings) <= MAX_TRAITS_PER_TOKEN /\ Cardinality(numbers) <= MAX_TRAITS_PER_TOKEN
     /\ Len(versions[id]) + 1 < MaxVersions
     /\ token' = [token EXCEPT ![id] = m]
     /\ image' = [image EXCEPT ![id] = None]
     /\ versions' = [versions EXCEPT ![id] = @ \o <<token[id], m>>]
     /\ UNCHANGED <<now, settings, history, metric, rules>>

-----------------------------------------------------------------------------
(***************************************************************************)
(* Rules.  apply_trait_evolution and apply_trigger_rules as functions of   *)
(* the metadata m; what they return unchanged was not written.             *)
(***************************************************************************)
\* The rule of the highest threshold, the oldest of such
Best(m) ==
  LET open == {i \in DOMAIN traitRule :
                 IF traitRule[i] = None THEN FALSE
                 ELSE m.performance_score >= traitRule[i].threshold
                        /\ m.level >= traitRule[i].target_level}
  IN {i \in open : \A j \in open : traitRule[j].threshold < traitRule[i].threshold
                                     \/ (traitRule[j].threshold = traitRule[i].threshold /\ i <= j)}

Evolves(m) == ~m.frozen /\ Best(m) # {}

Evolved(m) ==
  IF ~Evolves(m) THEN m
  ELSE LET r == traitRule[CHOOSE i \in Best(m) : TRUE]
       IN [m EXCEPT !.string_traits = @ \cup {r.trait}, !.rarity = Larger(@, r.new_rarity),
                    !.level = Larger(@, r.target_level), !.updated_at = now]

\* count_distinct_owners: mints and transfers
Holdings(id) == Cardinality({i \in DOMAIN history[id] : history[id][i][1] # "Burn"})

\* The rules that fire for token id with metadata m and metrics k
Fired(id, m, k) ==
  {i \in DOMAIN triggerRule :
     LET r == triggerRule[i]
     IN IF r = None THEN FALSE
        ELSE CASE r.type = "metric" -> k[r.metric] >= r.threshold
               [] r.type = "ownership_count" -> Holdings(id) >= r.threshold
               [] r.type = "time" -> Less(now, m.updated_at) >= r.threshold}

Applied(m, r) ==
  CASE r.action = "add_trait" -> [m EXCEPT !.string_traits = @ \cup {r.trait}]
    [] r.action = "add_numeric_trait" -> [m EXCEPT !.numeric_traits = Put(@, r.trait, r.value)]
    [] r.action = "bump_level" -> [m EXCEPT !.level = @ + r.value]

Triggered(id, m, k) ==
  LET fired == Fired(id, m, k)
      after[i \in 0 .. Len(triggerRule)] ==
        IF i = 0 THEN m
        ELSE IF i \in fired THEN Applied(after[i - 1], triggerRule[i]) ELSE after[i - 1]
  IN IF m.frozen \/ fired = {} THEN m
     ELSE [after[Len(triggerRule)] EXCEPT !.updated_at = now]

Fires(id, m, k) == ~m.frozen /\ Fired(id, m, k) # {}

EvolveTraits(id) == Evolves(token[id]) /\ Edit(id, Evolved(token[id]))

CheckAndApplyTriggers(id) ==
  /\ Fires(id, token[id], metric[id])
  /\ Edit(id, Triggered(id, token[id], metric[id]))

\* Mutated form: the cached image of a token outlives its rules.
ReportCached(id, key, value, delta) ==
  LET k == [metric[id] EXCEPT ![key] = value]
      m == [token[id] EXCEPT !.performance_score = @ + delta]
      e == Evolved(m)
      t == Triggered(id, e, k)
      taken == (IF Evolves(m) THEN <<e>> ELSE <<>>) \o (IF Fires(id, e, k) THEN <<t>> ELSE <<>>)
  IN /\ ~paused
     /\ m.performance_score <= MaxScore
     /\ Len(versions[id]) + Len(taken) <= MaxVersions
     /\ metric' = [metric EXCEPT ![id] = k]
     /\ token' = [token EXCEPT ![id] = t]
     /\ versions' = [versions EXCEPT ![id] = @ \o taken]
     /\ UNCHANGED <<now, settings, history, image, rules>>

\* What the oracle reports: a metric of a token becomes value, which adds delta
\* to the score, and then the rules apply.
Report(id, key, value, delta) ==
  LET k == [metric[id] EXCEPT ![key] = value]
      m == [token[id] EXCEPT !.performance_score = @ + delta]
      e == Evolved(m)
      t == Triggered(id, e, k)
      taken == (IF Evolves(m) THEN <<e>> ELSE <<>>) \o (IF Fires(id, e, k) THEN <<t>> ELSE <<>>)
  IN /\ ~paused
     /\ m.performance_score <= MaxScore
     /\ Len(versions[id]) + Len(taken) <= MaxVersions
     /\ metric' = [metric EXCEPT ![id] = k]
     /\ token' = [token EXCEPT ![id] = t]
     /\ versions' = [versions EXCEPT ![id] = @ \o taken]
     /\ image' = IF taken = <<>> THEN image ELSE [image EXCEPT ![id] = None]
     /\ UNCHANGED <<now, settings, history, rules>>

\* set_performance_metric: a lower value leaves the score as it is
SetPerformanceMetric(id, key, v) == Report(id, key, v, Less(v, metric[id][key]))

AddPerformanceMetric(id, key, v) == Report(id, key, metric[id][key] + v, v)

\* get_image_uri
GetImageUri(id) ==
  /\ image[id] = None
  /\ image' = [image EXCEPT ![id] = Uri(token[id])]
  /\ UNCHANGED <<now, settings, token, history, versions, metric, rules>>

Tick ==
  /\ now < MaxTime
  /\ now' = now + 1
  /\ UNCHANGED <<settings, token, history, versions, metric, image, rules>>

Next ==
  \/ \E uri \in BaseUris :
       \/ \E v \in 1 .. MAX_SCHEMA_VERSION : Initialize(uri, v)
       \/ UpdateImageBaseUri(uri)
  \/ \E p \in BOOLEAN : SetPaused(p)
  \/ \E v \in 1 .. MAX_SCHEMA_VERSION : UpdateSchemaVersion(v)
  \/ \E r \in TraitRules : ConfigureTraitRule(r)
  \/ \E r \in TriggerRules : ConfigureTriggerRule(r)
  \/ \E i \in 1 .. MaxRules : RemoveTraitRule(i) \/ RemoveTriggerRule(i)
  \/ \E o \in Owners, c \in Contents, s, n \in SUBSET Traits : MintToken(o, c, s, n)
  \/ \E id \in DOMAIN token :
       \/ \E o \in Owners : TransferToken(id, o)
       \/ BurnToken(id) \/ EvolveTraits(id) \/ CheckAndApplyTriggers(id) \/ GetImageUri(id)
       \/ \E c \in Contents : UpdateMetadata(id, c)
       \/ \E t \in Traits :
            \/ AddStringTrait(id, t) \/ RemoveStringTrait(id, t)
            \/ \E v \in Values : AddNumericTrait(id, t, v) \/ IncrementNumericTrait(id, t, v)
       \/ \E f \in BOOLEAN : SetFrozen(id, f)
       \/ \E v \in 1 .. MAX_SCHEMA_VERSION, c \in Contents, s \in SUBSET Traits, l \in {0, 2} :
            MigrateMetadata(id, v, c, s, s, l)
       \/ \E k \in Metrics, v \in Values : SetPerformanceMetric(id, k, v) \/ AddPerformanceMetric(id, k, v)
  \/ Tick

Spec == Init /\ [][Next]_vars

-----------------------------------------------------------------------------
\* Whatever edits, rules, transfers and migrations do to a token, in whatever
\* order, its last snapshot shows it as it is (but for the score), its owner is
\* the last of its history, and a cached image shows its level and rarity.
VersionsAgree ==
  \A id \in DOMAIN token :
    LET m == token[id]
        last == versions[id][Len(versions[id])]
    IN /\ [last EXCEPT !.performance_score = m.performance_score] = m
       /\ history[id][Len(history[id])][2] = m.owner
       /\ LET cached == image[id]
          IN cached # None => cached.level = m.level /\ cached.rarity = m.rarity

=============================================================================
