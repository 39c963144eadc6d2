---------------------------- MODULE SocialTipping ----------------------------
(***************************************************************************)
(* Tips between players (contracts/social_tipping): tokens go from one to  *)
(* another directly, no more than so many a day and so often, and the      *)
(* contract keeps the totals and the leaderboards.                         *)
(*                                                                         *)
(* A call is one action and its error paths are its guards.  A tip with a  *)
(* message is a tip.  A batch is checked against the limits after it was   *)
(* counted, so it may not reach the daily limit and needs a cooldown of 0. *)
(* Days last DAY instead of 86400 seconds.                                 *)
(***************************************************************************)
EXTENDS Integers, Sequences, FiniteSets, TokenUnits

CONSTANTS
  Users, None,
  Configs,             \* what initialize is called with
  Amounts,             \* what is tipped at a time
  DAY,                 \* seconds in a day
  InitBalance,         \* what each user has of the token
  Start,               \* the time of the first ledger
  MaxTips, MaxTime     \* bounds

VARIABLES
  now,               \* ledger timestamp
  bal,               \* balances of the token
  config,            \* DataKey::Config
  tipper,            \* DataKey::TipperStats(address)
  recipient,         \* DataKey::RecipientStats(address)
  history,           \* DataKey::TipHistory(recipient)
  daily,             \* DataKey::DailyTipCount(tipper, day)
  top_tippers,       \* DataKey::TopTippers
  top_recipients     \* DataKey::TopRecipients

vars == <<now, bal, config, tipper, recipient, history, daily, top_tippers, top_recipients>>

Days == 0 .. (MaxTime \div DAY)

Init ==
  /\ now = Start
  /\ bal = [u \in Users |-> InitBalance]
  /\ config = None
  /\ tipper = [u \in Users |-> [total_tipped |-> 0, tip_count |-> 0, last_tip_time |-> 0]]
  /\ recipient = [u \in Users |-> [total_received |-> 0, tip_count |-> 0]]
  /\ history = [u \in Users |-> <<>>]
  /\ daily = [u \in Users |-> [d \in Days |-> 0]]
  /\ top_tippers = <<>> /\ top_recipients = <<>>

Initialize(c) ==
  /\ config = None
  /\ config' = c
  /\ UNCHANGED <<now, bal, tipper, recipient, history, daily, top_tippers, top_recipients>>

-----------------------------------------------------------------------------
(***************************************************************************)
(* Limits, statistics and leaderboards.                                    *)
(***************************************************************************)
\* check_tip_limits, of what is stored as stats and counted today
CheckTipLimits(stats, count) ==
  /\ count < config.max_tips_per_day
  /\ stats.last_tip_time > 0 => now - stats.last_tip_time >= config.cooldown_seconds

\* update_top_tippers and update_top_recipients: the entry of u, the last one
\* if it is new, gets the total, which never falls, and moves up behind those
\* with at least as much.
UpdateTop(board, u, total) ==
  LET old == {i \in DOMAIN board : board[i].player = u}
      i == IF old = {} THEN Len(board) + 1 ELSE CHOOSE j \in old : TRUE
      k == Cardinality({j \in 1 .. i - 1 : board[j].amount >= total}) + 1
  IN [j \in DOMAIN board \cup {i} |-> CASE j < k \/ j > i -> board[j]
                                       [] j = k -> [player |-> u, amount |-> total]
                                       [] j > k /\ j <= i -> board[j - 1]]

\* update_tipper_stats and update_tipper_stats_batch, for n tips of amount in all
UpdateTipperStats(u, amount, n) ==
  LET total == tipper[u].total_tipped + amount
  IN /\ tipper' = [tipper EXCEPT ![u] =
          [total_tipped |-> total, tip_count |-> @.tip_count + n, last_tip_time |-> now]]
     /\ daily' = [daily EXCEPT ![u][now \div DAY] = @ + n]
     /\ top_tippers' = UpdateTop(top_tippers, u, total)

Received(u, amount) == [total_received |-> recipient[u].total_received + amount,
                        tip_count |-> recipient[u].tip_count + 1]

RecordTip(tips, u, amount) == Append(tips, [from |-> u, amount |-> amount, timestamp |-> now])

Given == Total([u \in Users |-> Len(history[u])])

-----------------------------------------------------------------------------
(***************************************************************************)
(* Tips.                                                                   *)
(***************************************************************************)
\* tip and tip_with_message
Tip(u, to, amount) ==
  /\ Given < MaxTips
  /\ config # None
  /\ amount <= config.max_tip_per_transaction
  /\ u # to
  /\ CheckTipLimits(tipper[u], daily[u][now \div DAY])
  /\ bal[u] >= amount
  /\ bal' = [bal EXCEPT ![u] = @ - amount, ![to] = @ + amount]
  /\ UpdateTipperStats(u, amount, 1)
  /\ recipient' = [recipient EXCEPT ![to] = Received(to, amount)]
  /\ top_recipients' = UpdateTop(top_recipients, to, recipient[to].total_received + amount)
  /\ history' = [history EXCEPT ![to] = RecordTip(@, u, amount)]
  /\ UNCHANGED <<now, config>>

\* The recipients' side of a batch of tips of u: the first k of them
Batched(u, to, amounts) ==
  LET after[k \in 0 .. Len(to)] ==
        IF k = 0 THEN [recipient |-> recipient, history |-> history, top |-> top_recipients]
        ELSE LET b == after[k - 1]
                 r == to[k]
                 total == b.recipient[r].total_received + amounts[k]
             IN [recipient |-> [b.recipient EXCEPT ![r] =
                                  [total_received |-> total, tip_count |-> @.tip_count + 1]],
                 history |-> [b.history EXCEPT ![r] = RecordTip(@, u, amounts[k])],
                 top |-> UpdateTop(b.top, r, total)]
  IN after[Len(to)]

\* Mutated form: the limits are not checked once the batch is counted.
BatchTipUnchecked(u, to, amounts) ==
  LET b == Batched(u, to, amounts)
      total == Total([k \in DOMAIN amounts |-> amounts[k]])
      to_each(v) == Total([k \in {j \in DOMAIN to : to[j] = v} |-> amounts[k]])
  IN /\ Given + Len(to) <= MaxTips
     /\ config # None
     /\ Len(to) <= config.max_batch_size
     /\ \A k \in DOMAIN to : amounts[k] <= config.max_tip_per_transaction /\ to[k] # u
     /\ bal[u] >= total
     /\ bal' = [v \in Users |-> bal[v] + to_each(v) - (IF v = u THEN total ELSE 0)]
     /\ recipient' = b.recipient /\ history' = b.history /\ top_recipients' = b.top
     /\ UpdateTipperStats(u, total, Len(to))
     /\ UNCHANGED <<now, config>>

BatchTip(u, to, amounts) ==
  LET b == Batched(u, to, amounts)
      total == Total([k \in DOMAIN amounts |-> amounts[k]])
      to_each(v) == Total([k \in {j \in DOMAIN to : to[j] = v} |-> amounts[k]])
  IN /\ Given + Len(to) <= MaxTips
     /\ config # None
     /\ Len(to) <= config.max_batch_size
     /\ \A k \in DOMAIN to : amounts[k] <= config.max_tip_per_transaction /\ to[k] # u
     /\ bal[u] >= total
     /\ bal' = [v \in Users |-> bal[v] + to_each(v) - (IF v = u THEN total ELSE 0)]
     /\ recipient' = b.recipient /\ history' = b.history /\ top_recipients' = b.top
     /\ UpdateTipperStats(u, total, Len(to))
     /\ CheckTipLimits(tipper'[u], daily'[u][now \div DAY])
     /\ UNCHANGED <<now, config>>

Tick ==
  /\ now < MaxTime
  /\ now' = now + 1
  /\ UNCHANGED <<bal, config, tipper, recipient, history, daily, top_tippers, top_recipients>>

Next ==
  \/ \E c \in Configs : Initialize(c)
  \/ \E u, v \in Users, n \in Amounts : Tip(u, v, n)
  \/ \E u \in Users, k \in 0 .. 2 : \E to \in [1 .. k -> Users], n \in [1 .. k -> Amounts] :
       BatchTip(u, to, n)
  \/ Tick

Spec == Init /\ [][Next]_vars

-----------------------------------------------------------------------------
\* The tips of u, as their recipients' histories have them.
TipsOf(u) ==
  {t \in Users \X (1 .. MaxTips) : /\ t[2] \in DOMAIN history[t[1]]
                                  /\ history[t[1]][t[2]].from = u}

Ordered(board, total) ==
  /\ {u \in Users : total[u] > 0} \subseteq {board[i].player : i \in DOMAIN board}
  /\ \A i \in DOMAIN board : board[i].amount = total[board[i].player]
  /\ \A i, j \in DOMAIN board :
       i < j => board[i].player # board[j].player /\ board[i].amount >= board[j].amount

\* The totals and counts of tippers and recipients are those of the tips in
\* the histories, the leaderboards have everybody once in the order of the
\* totals, and nobody tipped more often in a day than allowed or, a batch
\* apart, again before the cooldown was over.
TipsBooked ==
  /\ \A u \in Users :
       LET amount(t) == history[t[1]][t[2]].amount
           time(t) == history[t[1]][t[2]].timestamp
           tips == TipsOf(u)
       IN /\ tipper[u].total_tipped = Total([t \in tips |-> amount(t)])
          /\ tipper[u].tip_count = Cardinality(tips)
          /\ recipient[u].total_received
               = Total([i \in DOMAIN history[u] |-> history[u][i].amount])
          /\ bal[u] = InitBalance + recipient[u].total_received - tipper[u].total_tipped
          /\ \A d \in Days : LET today == {t \in tips : time(t) \div DAY = d}
                             IN today # {} => Cardinality(today) <= config.max_tips_per_day
          /\ \A s, t \in tips :
               time(s) < time(t) => time(t) - time(s) >= config.cooldown_seconds
  /\ Ordered(top_tippers, [u \in Users |-> tipper[u].total_tipped])
  /\ Ordered(top_recipients, [u \in Users |-> recipient[u].total_received])

=============================================================================
