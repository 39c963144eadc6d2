------------------------------ MODULE AntiBot ------------------------------
(***************************************************************************)
(* The detection of bots (contracts/anti_bot): profiles of players that    *)
(* their activity, reports of suspicious activity, challenges, penalties   *)
(* and appeals change, and lists of players who always or never pass.      *)
(*                                                                         *)
(* As in MultisigEscrow a call is one action and its error paths are its   *)
(* guards: what a call reports before it returns an error is undone with   *)
(* it.  The administrator is a contract that calls this one, as some entry *)
(* points ask for its authorisation twice.  Texts, average times and tiers *)
(* of reputation, which the contract never reads, are left out.            *)
(***************************************************************************)
EXTENDS Integers, Sequences, FiniteSets

CONSTANTS
  Players,
  Puzzles,
  None,            \* no profile, no configuration, no window
  DEFAULT_CONFIG,  \* the configuration that initialize stores
  Configs,         \* what update_config is called with
  Windows,         \* what set_time_window is called with
  SolveTimes,      \* how long puzzles are worked on
  Severities,      \* of reports and penalties
  TimeSteps,       \* by how much the clock advances
  DAY,             \* in units of the clock
  MaxActivity,     \* bound on the attempts recorded for a player
  MaxReports,      \* bound on the suspicious activities of a player
  MaxPenalties,    \* bound on the number of penalties
  MaxAppeals,      \* bound on the number of appeals
  MaxTime          \* bound on the ledger timestamp

PenaltyType == {"Warning", "TemporaryBan", "ExtendedBan", "PermanentBan", "ScoreReduction",
                "VerificationRequired"}
Forever == 8 * MaxTime       \* u64::MAX

VARIABLES
  now,          \* ledger timestamp
  config,       \* DataKey::Config
  profile,      \* DataKey::PlayerProfile(player)
  rate,         \* DataKey::RateLimit(player): the start of the window and the attempts in it
  pattern,      \* DataKey::BehavioralPattern(player)
  suspicious,   \* DataKey::SuspiciousActivity(player, index): the severities
  challenge,    \* DataKey::CaptchaChallenge(id): when they expire
  penalty,      \* DataKey::Penalty(id), ids from 1 on
  appeal,       \* DataKey::Appeal(id), ids from 1 on
  window,       \* DataKey::TimeWindow(puzzle)
  whitelisted, blacklisted

vars == <<now, config, profile, rate, pattern, suspicious, challenge, penalty, appeal, window,
          whitelisted, blacklisted>>
records == <<rate, pattern, suspicious, challenge, penalty, appeal, window>>
lists == <<whitelisted, blacklisted>>

Init ==
  /\ now = 0
  /\ config = None
  /\ profile = [p \in Players |-> None]
  /\ rate = [p \in Players |-> None]
  /\ pattern = [p \in Players |-> [times |-> <<>>, variance |-> 500, gas |-> 500]]
  /\ suspicious = [p \in Players |-> <<>>]
  /\ challenge = <<>> /\ penalty = <<>> /\ appeal = <<>>
  /\ window = [z \in Puzzles |-> None]
  /\ whitelisted = {} /\ blacklisted = {}

Initialize ==
  /\ config = None
  /\ config' = DEFAULT_CONFIG
  /\ UNCHANGED <<now, profile, records, lists>>

Initialized == config # None

AtMost(a, b) == IF a < b THEN a ELSE b
Less(a, b) == IF a < b THEN 0 ELSE a - b          \* saturating_sub

-----------------------------------------------------------------------------
(***************************************************************************)
(* Profiles.  A profile is made when it is first asked for.                *)
(***************************************************************************)
Profile(p) ==
  IF profile[p] # None THEN profile[p]
  ELSE [status |-> "Unverified", trust_score |-> 500, successful |-> 0, failed |-> 0,
        fast |-> 0, first_seen |-> now, penalty_count |-> 0, appeal_count |-> 0]

Store(p, f) == profile' = [profile EXCEPT ![p] = f]

WithStatus(p, status) == [Profile(p) EXCEPT !.status = status]

\* record_suspicious_activity, with count_high_severity_activities, on the
\* profile f: the reports are those after the new one of this severity
Flagged(f, reports, severity) ==
  LET high == {i \in DOMAIN reports : reports[i] >= 7}
  IN IF /\ f.status \notin {"Flagged", "Penalized", "Blacklisted"}
        /\ severity >= 8 \/ (Len(reports) >= 5 /\ Cardinality(high) >= 2)
       THEN [f EXCEPT !.status = "Flagged"] ELSE f

Report(p, f, severity) ==
  LET reports == Append(suspicious[p], severity)
  IN /\ Len(reports) <= MaxReports
     /\ suspicious' = [suspicious EXCEPT ![p] = reports]
     /\ Store(p, Flagged(f, reports, severity))

\* generate_captcha_challenge
GenerateChallenge ==
  /\ Initialized
  /\ challenge' = Append(challenge, now + config.captcha_validity)
  /\ UNCHANGED <<now, config, profile, rate, pattern, suspicious, penalty, appeal, window, lists>>

\* verify_captcha_proof: whether the hash of a nonce is small enough is chance,
\* and a challenge can be answered more than once, by anybody.
VerifyProof(p, id, verified) ==
  /\ id \in DOMAIN challenge
  /\ now <= challenge[id]
  /\ IF verified THEN Store(p, WithStatus(p, "Verified")) /\ UNCHANGED suspicious
     ELSE Report(p, Profile(p), 5)
  /\ UNCHANGED <<now, config, rate, pattern, challenge, penalty, appeal, window, lists>>

-----------------------------------------------------------------------------
(***************************************************************************)
(* Activity.                                                               *)
(***************************************************************************)
\* check_rate_limit; beyond the limit it returns an error
CheckedRate(p) ==
  LET w == rate[p]
      over == w # None => now - w.window_start > config.rate_limit_window
  IN IF over THEN [window_start |-> now, attempt_count |-> 0] ELSE w

WithinRate(p) == CheckedRate(p).attempt_count < config.max_attempts
RateCounted(p) == [rate EXCEPT ![p] = [CheckedRate(p) EXCEPT !.attempt_count = @ + 1]]

CheckRateLimit(p) ==
  /\ Initialized /\ WithinRate(p)
  /\ rate' = RateCounted(p)
  /\ UNCHANGED <<now, config, profile, pattern, suspicious, challenge, penalty, appeal, window,
                 lists>>

Intervals(times) == [i \in 1 .. Len(times) - 1 |-> times[i + 1] - times[i]]

\* sum of the values of a sequence
Sum(s) == LET f[i \in 0 .. Len(s)] == IF i = 0 THEN 0 ELSE f[i - 1] + s[i] IN f[Len(s)]

Average(s) == Sum(s) \div Len(s)

\* update_behavioral_pattern: the variance of the intervals between the last
\* attempts, in steps of 1000 up to 1000; the consistency score is 1000 - variance
Pattern(p, gas) ==
  LET all == Append(pattern[p].times, now)
      times == SubSeq(all, Len(all) - AtMost(Len(all), config.pattern_window) + 1, Len(all))
      gaps == Intervals(times)
      squares == [i \in DOMAIN gaps |-> (gaps[i] - Average(gaps)) * (gaps[i] - Average(gaps))]
  IN IF Len(times) < 3 THEN [pattern[p] EXCEPT !.times = times]
     ELSE [times |-> times,
           variance |-> AtMost(Average(squares), 1000000) \div 1000,
           gas |-> CASE gas = "none" -> pattern[p].gas [] gas = "round" -> 900
                     [] gas = "uneven" -> 400]

\* update_trust_score, by the pattern q
Trusted(f, q) ==
  LET total == f.successful + f.failed
      rated == 500 + (IF total > 0 THEN AtMost((f.successful * 300) \div total, 300) ELSE 0)
      aged == rated + AtMost(((now - f.first_seen) \div DAY) * 10, 100)
      timed == CASE 1000 - q.variance > 800 -> Less(aged, 100)
                 [] 1000 - q.variance < 300 -> aged + 50
                 [] OTHER -> aged
      score == AtMost(Less(Less(timed, f.penalty_count * 50), f.fast * 20), 1000)
  IN [f EXCEPT !.trust_score = score,
               !.status = IF score >= 800 /\ @ = "Unverified" THEN "Verified" ELSE @]

\* record_activity counts the attempt ...
Counted(p, solve_time, success) ==
  [Profile(p) EXCEPT !.successful = IF success THEN @ + 1 ELSE @,
                     !.failed = IF success THEN @ ELSE @ + 1,
                     !.fast = IF success /\ solve_time < config.min_solve_time THEN @ + 1 ELSE 0]

\* ... and reports it when it is too fast, and again after several such.  The
\* flag that a report may store is overwritten with the profile that was read
\* before.
RecordActivity(p, solve_time, gas, success) ==
  LET f == Counted(p, solve_time, success)
      q == Pattern(p, gas)
      reports ==
        (IF success /\ solve_time < config.suspicious_solve_time THEN <<7>> ELSE <<>>)
          \o (IF f.fast >= config.max_fast_solves THEN <<8>> ELSE <<>>)
  IN /\ Initialized
     /\ f.successful + f.failed <= MaxActivity
     /\ Len(suspicious[p]) + Len(reports) <= MaxReports
     /\ suspicious' = [suspicious EXCEPT ![p] = @ \o reports]
     /\ pattern' = [pattern EXCEPT ![p] = q]
     /\ Store(p, Trusted(f, q))
     /\ UNCHANGED <<now, config, rate, challenge, penalty, appeal, window, lists>>

\* set_time_window, called by the administrator
SetTimeWindow(z, w) ==
  /\ Initialized
  /\ w.submission_end > w.submission_start /\ w.min_solve_time < w.max_solve_time
  /\ window' = [window EXCEPT ![z] = w]
  /\ UNCHANGED <<now, config, profile, rate, pattern, suspicious, challenge, penalty, appeal, lists>>

\* validate_submission_time, when it returns no error
InWindow(z) ==
  /\ window[z] # None
  /\ now \in window[z].submission_start .. window[z].submission_end + window[z].grace_period

ValidateSubmissionTime(p, z, solve_time) ==
  /\ InWindow(z)
  /\ IF solve_time < window[z].min_solve_time THEN Report(p, Profile(p), 7)
     ELSE UNCHANGED <<profile, suspicious>>
  /\ UNCHANGED <<now, config, rate, pattern, challenge, penalty, appeal, window, lists>>

-----------------------------------------------------------------------------
(***************************************************************************)
(* Penalties and appeals.                                                  *)
(***************************************************************************)
Expiry(type) ==
  CASE type \in {"Warning", "ScoreReduction"} -> now
    [] type \in {"TemporaryBan", "VerificationRequired"} -> now + config.default_penalty
    [] type = "ExtendedBan" -> now + 7 * config.default_penalty
    [] type = "PermanentBan" -> Forever

\* get_active_penalties, of the penalties ps
Active(ps, p) == {i \in DOMAIN ps : ps[i].player = p /\ ps[i].active /\ ps[i].expires_at > now}

\* apply_penalty, on the profile f
Punish(p, f, type, severity) ==
  /\ Initialized
  /\ Len(penalty) < MaxPenalties
  /\ penalty' = Append(penalty, [player |-> p, applied_at |-> now, expires_at |-> Expiry(type),
                                 active |-> TRUE])
  /\ Store(p, [f EXCEPT !.penalty_count = @ + 1, !.status = "Penalized",
                        !.trust_score = IF type = "ScoreReduction"
                                          THEN Less(@, AtMost(severity * 50, 300)) ELSE @])
  /\ blacklisted' = IF type = "PermanentBan" THEN blacklisted \cup {p} ELSE blacklisted

\* apply_penalty
ApplyPenalty(p, type, severity) ==
  /\ Punish(p, Profile(p), type, severity)
  /\ UNCHANGED <<now, config, rate, pattern, suspicious, challenge, appeal, window, whitelisted>>

Lifted(id) == [penalty EXCEPT ![id].active = FALSE]

\* The status of player p after remove_penalty has left the penalties ps
Released(p, ps) ==
  IF Active(ps, p) = {} /\ Profile(p).status = "Penalized" THEN "Verified" ELSE Profile(p).status

\* remove_penalty, called by the administrator
RemovePenalty(id) ==
  LET p == penalty[id].player
  IN /\ Initialized
     /\ id \in DOMAIN penalty
     /\ penalty' = Lifted(id)
     /\ Store(p, WithStatus(p, Released(p, penalty')))
     /\ UNCHANGED <<now, config, rate, pattern, suspicious, challenge, appeal, window, lists>>

\* Mutated form: a penalty that has been appealed is appealed again.
SubmitAppealAgain(p, id) ==
  /\ Initialized
  /\ id \in DOMAIN penalty /\ penalty[id].active
  /\ now <= penalty[id].applied_at + config.appeal_period
  /\ Len(appeal) < MaxAppeals
  /\ appeal' = Append(appeal, [player |-> p, penalty_id |-> id, status |-> "Pending"])
  /\ Store(p, [WithStatus(p, "AppealPending") EXCEPT !.appeal_count = @ + 1])
  /\ UNCHANGED <<now, config, rate, pattern, suspicious, challenge, penalty, window, lists>>

\* submit_appeal, called by the player
SubmitAppeal(p, id) ==
  /\ Initialized
  /\ id \in DOMAIN penalty /\ penalty[id].active
  /\ now <= penalty[id].applied_at + config.appeal_period
  /\ \A a \in DOMAIN appeal : appeal[a].penalty_id = id => appeal[a].status # "Pending"
  /\ Len(appeal) < MaxAppeals
  /\ appeal' = Append(appeal, [player |-> p, penalty_id |-> id, status |-> "Pending"])
  /\ Store(p, [WithStatus(p, "AppealPending") EXCEPT !.appeal_count = @ + 1])
  /\ UNCHANGED <<now, config, rate, pattern, suspicious, challenge, penalty, window, lists>>

\* review_appeal, called by the administrator.  An approved appeal lifts the
\* penalty, whose player need not be the one who appealed.
ReviewAppeal(a, approved) ==
  LET p == appeal[a].player
      id == appeal[a].penalty_id
      owner == penalty[id].player
      mine == IF approved \/ Active(penalty, p) = {} THEN "Verified" ELSE "Penalized"
      f == [WithStatus(p, mine) EXCEPT
              !.trust_score = IF approved THEN AtMost(@ + 100, 1000) ELSE @]
  IN /\ Initialized
     /\ a \in DOMAIN appeal /\ appeal[a].status = "Pending"
     /\ appeal' = [appeal EXCEPT ![a].status = IF approved THEN "Approved" ELSE "Rejected"]
     /\ penalty' = IF approved THEN Lifted(id) ELSE penalty
     /\ profile' = IF approved
          THEN [profile EXCEPT ![owner] = WithStatus(owner, Released(owner, penalty')), ![p] = f]
          ELSE [profile EXCEPT ![p] = f]
     /\ UNCHANGED <<now, config, rate, pattern, suspicious, challenge, window, lists>>

-----------------------------------------------------------------------------
(***************************************************************************)
(* Lists, flags and the verification of players.                           *)
(***************************************************************************)
\* flag_player: Flagged whatever the status was, then a report of it
FlagPlayer(p, severity) ==
  /\ Initialized
  /\ Report(p, WithStatus(p, "Flagged"), severity)
  /\ UNCHANGED <<now, config, rate, pattern, challenge, penalty, appeal, window, lists>>

UnflagPlayer(p) ==
  /\ Initialized
  /\ Profile(p).status = "Flagged"
  /\ Store(p, WithStatus(p, "Verified"))
  /\ UNCHANGED <<now, config, records, lists>>

Listed(p, status, trust) == Store(p, [WithStatus(p, status) EXCEPT !.trust_score = trust])

\* whitelist_player, remove_whitelist
WhitelistPlayer(p, on) ==
  /\ Initialized
  /\ whitelisted' = IF on THEN whitelisted \cup {p} ELSE whitelisted \ {p}
  /\ IF on THEN Listed(p, "Whitelisted", 1000) ELSE Listed(p, "Verified", 800)
  /\ UNCHANGED <<now, config, records, blacklisted>>

\* blacklist_player, which also applies a permanent penalty, so that the status
\* ends up Penalized
BlacklistPlayer(p) ==
  /\ Punish(p, [Profile(p) EXCEPT !.trust_score = 0], "PermanentBan", 10)
  /\ UNCHANGED <<now, config, rate, pattern, suspicious, challenge, appeal, window, whitelisted>>

\* remove_blacklist: the permanent penalty stays
RemoveBlacklist(p) ==
  /\ Initialized
  /\ blacklisted' = blacklisted \ {p}
  /\ Listed(p, "Verified", 300)
  /\ UNCHANGED <<now, config, records, whitelisted>>

\* analyze_player: the bot probability of p
Probability(p) ==
  LET f == Profile(p)
      seen == pattern[p].times # <<>>
      points == << <<f.fast >= 3, 30>>, <<f.failed > 2 * f.successful, 20>>,
                   <<seen /\ pattern[p].variance < 200, 25>>, <<seen /\ pattern[p].gas > 700, 15>>,
                   <<seen /\ pattern[p].variance < 100, 20>>, <<f.trust_score < 300, 20>> >>
  IN Sum([i \in DOMAIN points |-> IF points[i][1] THEN points[i][2] ELSE 0])

\* verify_player, for one who is on neither list; others change nothing.  A
\* likely bot is banned if the administrator signs the call as well.
VerifyPlayer(p, z, solve_time) ==
  /\ Initialized
  /\ p \notin whitelisted /\ p \notin blacklisted /\ Active(penalty, p) = {}
  /\ WithinRate(p) /\ rate' = RateCounted(p)
  /\ InWindow(z)
  /\ IF solve_time < window[z].min_solve_time
       THEN Report(p, Profile(p), 7) /\ UNCHANGED <<penalty, blacklisted>>
       ELSE /\ UNCHANGED suspicious
            /\ IF solve_time <= window[z].max_solve_time /\ Probability(p) > 85
                 THEN Punish(p, Profile(p), "TemporaryBan", 7)
                 ELSE Store(p, Profile(p)) /\ UNCHANGED <<penalty, blacklisted>>
  /\ UNCHANGED <<now, config, pattern, challenge, appeal, window, whitelisted>>

\* analyze_player, get_trust_score, get_reputation_tier: they store a new profile.
LookUp(p) ==
  /\ Store(p, Profile(p))
  /\ UNCHANGED <<now, config, records, lists>>

UpdateConfig(c) ==
  /\ Initialized
  /\ config' = c
  /\ UNCHANGED <<now, profile, records, lists>>

Tick(d) ==
  /\ now + d <= MaxTime
  /\ now' = now + d
  /\ UNCHANGED <<config, profile, records, lists>>

Next ==
  \/ Initialize \/ GenerateChallenge
  \/ \E p \in Players :
       \/ \E id \in DOMAIN challenge, verified \in BOOLEAN : VerifyProof(p, id, verified)
       \/ CheckRateLimit(p) \/ UnflagPlayer(p) \/ BlacklistPlayer(p) \/ RemoveBlacklist(p)
       \/ \E t \in SolveTimes :
            \/ \E gas \in {"none", "round", "uneven"}, ok \in BOOLEAN : RecordActivity(p, t, gas, ok)
            \/ \E z \in Puzzles : ValidateSubmissionTime(p, z, t) \/ VerifyPlayer(p, z, t)
       \/ \E type \in PenaltyType, s \in Severities : ApplyPenalty(p, type, s)
       \/ \E id \in DOMAIN penalty : SubmitAppeal(p, id)
       \/ \E s \in Severities : FlagPlayer(p, s)
       \/ \E on \in BOOLEAN : WhitelistPlayer(p, on)
       \/ LookUp(p)
  \/ \E z \in Puzzles, w \in Windows : SetTimeWindow(z, w)
  \/ \E id \in DOMAIN penalty : RemovePenalty(id)
  \/ \E a \in DOMAIN appeal, ok \in BOOLEAN : ReviewAppeal(a, ok)
  \/ \E c \in Configs : UpdateConfig(c)
  \/ \E d \in TimeSteps : Tick(d)

Spec == Init /\ [][Next]_vars

-----------------------------------------------------------------------------
\* The profiles, which several calls read, hand on and write back, agree with
\* the records: no penalty, appeal or attempt is lost or counted twice, a
\* penalty has one open appeal at most, and an appeal that was granted has
\* lifted its penalty.
ProfilesAgree ==
  /\ \A p \in Players :
       LET f == Profile(p)
       IN /\ f.penalty_count = Cardinality({i \in DOMAIN penalty : penalty[i].player = p})
          /\ f.appeal_count = Cardinality({a \in DOMAIN appeal : appeal[a].player = p})
          /\ f.successful + f.failed >= Len(pattern[p].times)
          /\ f.fast <= f.successful
  /\ \A a, b \in DOMAIN appeal :
       appeal[a].penalty_id = appeal[b].penalty_id /\ appeal[a].status = "Pending"
         => a = b \/ appeal[b].status # "Pending"
  /\ \A a \in DOMAIN appeal :
       appeal[a].status = "Approved" => ~penalty[appeal[a].penalty_id].active

=============================================================================
