----------------------------- MODULE QuestChain -----------------------------
(***************************************************************************)
(* The quest chains (contracts/quest_chain): players complete the quests   *)
(* of a chain, fall back to a checkpoint or start again, and claim the     *)
(* rewards of what they have completed from pools that the owner fills.    *)
(*                                                                         *)
(* As in MultisigEscrow a call is one action and its error paths are its   *)
(* guards.  Titles, puzzle ids and the status field of a quest, which the  *)
(* contract never reads, are left out, and so are time and path of a       *)
(* record; completed_quests and path_taken are always equal and are one    *)
(* field.                                                                  *)
(***************************************************************************)
EXTENDS Integers, Sequences, FiniteSets, TokenUnits

CONSTANTS
  Addr,              \* accounts
  Self,              \* the address of the contract
  None,              \* no owner yet, or a reward without token address
  NoQuest,           \* no current quest, or no checkpoint
  Owner,             \* the account that initializes the contract
  Players,           \* the accounts that play
  Raters,            \* the players that rate quests
  Staff,             \* the accounts that get roles
  Token,             \* token contracts
  Nft,               \* the token contract that takes amounts as token ids
  NftIds,            \* its tokens
  Blueprints,        \* the arguments that create_chain is called with
  Fundings,          \* the arguments that fund_reward_pool is called with
  Configs,           \* the arguments that update_config is called with
  Ratings,           \* the ratings that rate_quest is called with
  InitBalance,       \* what the owner has of every fungible token at the start
  DEFAULT_CONFIG,    \* DEFAULT_MAX_CHAINS and the bounds on quests
  MAX_LEADERBOARD_ENTRIES,
  MaxChains,         \* bound on the number of chains
  MaxCompletions,    \* bound on the completions of a chain
  MaxTime            \* bound on the ledger timestamp

Account == Addr \cup {Self}
ChainIds == 1 .. MaxChains
TokenType == {"Native", "ERC20", "ERC721"}
Keys == TokenType \X Token

VARIABLES
  now,            \* ledger timestamp
  bal,            \* balances of the fungible tokens
  nft,            \* the holders of the tokens of Nft
  config,         \* DataKey::Config
  managers,       \* DataKey::Manager
  moderators,     \* DataKey::Moderator
  counter,        \* DataKey::ChainCounter
  chain,          \* DataKey::Chain(id)
  progress,       \* DataKey::PlayerProgress(player, id)
  pending,        \* DataKey::PendingRewards(player, id)
  pool,           \* DataKey::RewardPool(id, type, token)
  board,          \* DataKey::CompletionLeaderboard(id)
  completions,    \* DataKey::ChainCompletions(id)
  participants,   \* DataKey::ChainParticipants(id)
  ratings,        \* DataKey::PlayerRatedQuest and QuestRatings: who gave what
  settled,        \* history: how many of the completed quests a player has claimed
  fallen          \* history: it fell back to a checkpoint since its last claim

roles == <<config, managers, moderators>>
funds == <<bal, nft, pool>>
results == <<board, completions>>
owed == <<pending, settled, fallen>>
vars == <<now, bal, nft, config, managers, moderators, counter, chain, progress, pending,
          pool, board, completions, participants, ratings, settled, fallen>>

NoChain == [active |-> FALSE, quests |-> <<>>]
NotStarted == [completed |-> <<>>, current |-> None]

Init ==
  /\ now = 0
  /\ bal = [t \in Token |-> [a \in Account |-> IF a = Owner THEN InitBalance ELSE 0]]
  /\ nft = [n \in NftIds |-> Owner]
  /\ config = [DEFAULT_CONFIG EXCEPT !.owner = None]
  /\ managers = {}
  /\ moderators = {}
  /\ counter = 0
  /\ chain = [c \in ChainIds |-> NoChain]
  /\ progress = [p \in Players |-> [c \in ChainIds |-> NotStarted]]
  /\ pending = [p \in Players |-> [c \in ChainIds |-> <<>>]]
  /\ pool = [c \in ChainIds |-> [k \in Keys |-> 0]]
  /\ board = [c \in ChainIds |-> <<>>]
  /\ completions = [c \in ChainIds |-> 0]
  /\ participants = [c \in ChainIds |-> 0]
  /\ ratings = {}
  /\ settled = [p \in Players |-> [c \in ChainIds |-> 0]]
  /\ fallen = [p \in Players |-> [c \in ChainIds |-> FALSE]]

Elements(s) == {s[i] : i \in 1 .. Len(s)}
Started(p, c) == progress[p][c] # NotStarted
Done(p, c) == Elements(progress[p][c].completed)

-----------------------------------------------------------------------------
(***************************************************************************)
(* Quests.                                                                 *)
(***************************************************************************)
\* The first element of s at the positions I.
FirstOf(s, I) == s[CHOOSE i \in I : \A j \in I : i <= j]

\* validate_quest_chain
ValidChain(quests) ==
  LET I == 1 .. Len(quests)
      ids == {quests[i].id : i \in I}
  IN /\ \A i, j \in I : quests[i].id = quests[j].id => i = j
     /\ \A i \in I : quests[i].prerequisites \cup Elements(quests[i].branches) \subseteq ids

\* get_quest_by_id
QuestOf(quests, q) == quests[CHOOSE i \in 1 .. Len(quests) : quests[i].id = q]

\* get_initial_quest
InitialQuest(quests) ==
  LET I == {i \in 1 .. Len(quests) : quests[i].prerequisites = {}}
  IN IF I = {} THEN NoQuest ELSE FirstOf(quests, I).id

\* are_prerequisites_met, is_quest_unlocked_by_branch
PrerequisitesMet(done, quest) == quest.prerequisites \subseteq done
UnlockedByBranch(done, quest) == Elements(quest.branches) \cap done # {}

\* get_next_quest: a branch of q, else a quest with q among its branches, else
\* one with q among its prerequisites, the others of which may be missing.
NextQuest(quests, done, q) ==
  LET I == 1 .. Len(quests)
      branches == QuestOf(quests, q).branches
      open == {i \in 1 .. Len(branches) : branches[i] \notin done}
      entitled == {i \in I : /\ q \in Elements(quests[i].branches)
                             /\ quests[i].id \notin done
                             /\ \/ PrerequisitesMet(done, quests[i])
                                \/ UnlockedByBranch(done, quests[i])}
      following == {i \in I : q \in quests[i].prerequisites /\ quests[i].id \notin done}
  IN IF open # {} THEN FirstOf(branches, open)
     ELSE IF entitled # {} THEN FirstOf(quests, entitled).id
     ELSE IF following # {} THEN FirstOf(quests, following).id
     ELSE NoQuest

\* The rewards of the quests in the list, in order.
RewardsOf(quests, list) ==
  LET gather[n \in 0 .. Len(list)] ==
        IF n = 0 THEN <<>> ELSE gather[n - 1] \o QuestOf(quests, list[n]).rewards
  IN gather[Len(list)]

\* Mutated form: the last record goes first.
RankedFirst(list, record) ==
  LET full == Len(list) = MAX_LEADERBOARD_ENTRIES
  IN [i \in 1 .. (IF full THEN Len(list) ELSE Len(list) + 1) |->
        IF i = 1 THEN record ELSE list[i - 1]]

\* add_to_leaderboard: behind every record that is at least as fast, and the
\* last one falls out of a full list.
Ranked(list, record) ==
  LET faster == {i \in 1 .. Len(list) : list[i].duration <= record.duration}
      k == Cardinality(faster) + 1
      full == Len(list) = MAX_LEADERBOARD_ENTRIES
  IN [i \in 1 .. (IF full THEN Len(list) ELSE Len(list) + 1) |->
        IF i < k THEN list[i] ELSE IF i = k THEN record ELSE list[i - 1]]

-----------------------------------------------------------------------------
(***************************************************************************)
(* Chains and progress.                                                    *)
(***************************************************************************)
\* initialize
Initialize ==
  /\ config.owner = None
  /\ config' = [DEFAULT_CONFIG EXCEPT !.owner = Owner]
  /\ counter' = 0
  /\ UNCHANGED <<now, managers, moderators, funds, chain, progress, owed, results,
                 participants, ratings>>

\* create_chain, called by the owner or a manager
CreateChain(caller, b) ==
  /\ config.owner # None
  /\ caller = config.owner \/ caller \in managers
  /\ Len(b.quests) \in config.min_quests_per_chain .. config.max_quests_per_chain
  /\ ValidChain(b.quests)
  /\ counter + 1 <= config.max_chains
  /\ counter < MaxChains
  /\ counter' = counter + 1
  /\ chain' = [chain EXCEPT ![counter + 1] =
                 [active |-> TRUE, quests |-> b.quests, start_time |-> b.start_time,
                  end_time |-> b.end_time, max_participants |-> b.max_participants]]
  /\ completions' = [completions EXCEPT ![counter + 1] = 0]
  /\ participants' = [participants EXCEPT ![counter + 1] = 0]
  /\ board' = [board EXCEPT ![counter + 1] = <<>>]
  /\ UNCHANGED <<now, roles, funds, progress, owed, ratings>>

\* start_chain, called by the player
StartChain(p, c) ==
  /\ chain[c].active
  /\ now \in chain[c].start_time .. chain[c].end_time
  /\ participants[c] < chain[c].max_participants
  /\ ~Started(p, c)
  /\ progress' = [progress EXCEPT ![p][c] =
       [completed |-> <<>>, current |-> InitialQuest(chain[c].quests),
        checkpoint |-> NoQuest, start_time |-> now, completion_time |-> None]]
  /\ participants' = [participants EXCEPT ![c] = @ + 1]
  /\ UNCHANGED <<now, roles, counter, funds, chain, owed, results, ratings>>

\* complete_quest, called by the player
CompleteQuest(p, c, q) ==
  LET quests == chain[c].quests
      quest == QuestOf(quests, q)
      pr == progress[p][c]
      list == Append(pr.completed, q)
      finished == Len(list) = Len(quests)
  IN /\ chain[c].active
     /\ Started(p, c)
     /\ q \in {quests[i].id : i \in 1 .. Len(quests)}
     /\ now < quest.expires_at
     /\ q \notin Done(p, c)
     /\ \/ PrerequisitesMet(Done(p, c), quest)
        \/ UnlockedByBranch(Done(p, c), quest)
        \/ pr.current = q
     /\ finished => completions[c] < MaxCompletions
     /\ pending' = [pending EXCEPT ![p][c] = @ \o quest.rewards]
     /\ UNCHANGED <<settled, fallen>>
     /\ progress' = [progress EXCEPT ![p][c] =
          [pr EXCEPT !.completed = list,
                     !.current = NextQuest(quests, Elements(list), q),
                     !.checkpoint = IF quest.checkpoint THEN q ELSE @,
                     !.completion_time = IF finished THEN now ELSE @]]
     /\ \/ /\ finished
           /\ board' = [board EXCEPT ![c] = Ranked(@,
                [player |-> p, duration |-> now - pr.start_time])]
           /\ completions' = [completions EXCEPT ![c] = @ + 1]
        \/ /\ ~finished
           /\ UNCHANGED results
     /\ UNCHANGED <<now, roles, counter, funds, chain, participants, ratings>>

\* reset_to_checkpoint, called by the player: completion_time stays, and the
\* rewards of all the quests that are kept are due, those claimed before too
ResetToCheckpoint(p, c) ==
  LET pr == progress[p][c]
      quests == chain[c].quests
      last == {i \in 1 .. Len(pr.completed) : pr.completed[i] = pr.checkpoint}
      list == SubSeq(pr.completed, 1, CHOOSE i \in last : TRUE)
  IN /\ Started(p, c)
     /\ pr.checkpoint # NoQuest
     /\ progress' = [progress EXCEPT ![p][c] =
          [pr EXCEPT !.completed = list,
                     !.current = NextQuest(quests, Elements(list), pr.checkpoint)]]
     /\ pending' = [pending EXCEPT ![p][c] = RewardsOf(quests, list)]
     /\ settled' = [settled EXCEPT ![p][c] = IF @ > Len(list) THEN Len(list) ELSE @]
     /\ fallen' = [fallen EXCEPT ![p][c] = TRUE]
     /\ UNCHANGED <<now, roles, counter, funds, chain, results, participants, ratings>>

\* reset_chain, called by the player
ResetChain(p, c) ==
  /\ Started(p, c)
  /\ progress' = [progress EXCEPT ![p][c] = NotStarted]
  /\ participants' = [participants EXCEPT ![c] = IF @ > 0 THEN @ - 1 ELSE @]
  /\ pending' = [pending EXCEPT ![p][c] = <<>>]
  /\ settled' = [settled EXCEPT ![p][c] = 0]
  /\ fallen' = [fallen EXCEPT ![p][c] = FALSE]
  /\ UNCHANGED <<now, roles, counter, funds, chain, results, ratings>>

\* rate_quest, called by a player that has it completed in any chain
RateQuest(p, q, rating) ==
  /\ rating \in 1 .. 5
  /\ ~\E r \in ratings : r.player = p /\ r.quest = q
  /\ \E c \in 1 .. counter : Started(p, c) /\ q \in Done(p, c)
  /\ ratings' = ratings \cup {[player |-> p, quest |-> q, rating |-> rating]}
  /\ UNCHANGED <<now, roles, counter, funds, chain, progress, owed, results, participants>>

-----------------------------------------------------------------------------
(***************************************************************************)
(* Rewards.                                                                *)
(***************************************************************************)
\* The sum of the amounts in the list of rewards due at the positions I.
Sum(due, I) == Total([i \in I |-> due[i].amount])

KeyOf(reward) == <<reward.token_type, reward.token>>

\* All transfers of a claim, one after the other, by the token contracts.
PayRewards(p, due) ==
  LET I == 1 .. Len(due)
      of(t) == {i \in I : due[i].token = t}
  IN /\ \A t \in Token \ {Nft} : bal[t][Self] >= Sum(due, of(t))
     /\ \A i \in of(Nft) : due[i].amount \in NftIds /\ nft[due[i].amount] = Self
     /\ \A i, j \in of(Nft) : due[i].amount = due[j].amount => i = j
     /\ bal' = [t \in Token |->
                  IF t = Nft THEN bal[t]
                  ELSE [bal[t] EXCEPT ![Self] = @ - Sum(due, of(t)), ![p] = @ + Sum(due, of(t))]]
     /\ nft' = [n \in NftIds |-> IF \E i \in of(Nft) : due[i].amount = n THEN p ELSE nft[n]]

\* History: all quests of the progress are claimed.
Settle(p, c) ==
  /\ settled' = [settled EXCEPT ![p][c] = Len(progress[p][c].completed)]
  /\ fallen' = [fallen EXCEPT ![p][c] = FALSE]

\* Mutated form: the pools are not reduced.
ClaimRewardsOnly(p, c) ==
  LET due == pending[p][c]
      I == 1 .. Len(due)
      of(k) == {i \in I : KeyOf(due[i]) = k}
  IN /\ due # <<>>
     /\ \A i \in I : due[i].amount >= 0 /\ due[i].token # None
     /\ \A k \in Keys : pool[c][k] >= Sum(due, of(k))
     /\ PayRewards(p, due)
     /\ UNCHANGED pool
     /\ pending' = [pending EXCEPT ![p][c] = <<>>]
     /\ Settle(p, c)
     /\ UNCHANGED <<now, roles, counter, chain, progress, results, participants, ratings>>

\* Mutated form: what is paid stays due.
ClaimRewardsAgain(p, c) ==
  LET due == pending[p][c]
      I == 1 .. Len(due)
      of(k) == {i \in I : KeyOf(due[i]) = k}
  IN /\ due # <<>>
     /\ \A i \in I : due[i].amount >= 0 /\ due[i].token # None
     /\ \A k \in Keys : pool[c][k] >= Sum(due, of(k))
     /\ PayRewards(p, due)
     /\ pool' = [pool EXCEPT ![c] = [k \in Keys |-> @[k] - Sum(due, of(k))]]
     /\ Settle(p, c)
     /\ UNCHANGED <<now, roles, counter, chain, progress, pending, results, participants, ratings>>

\* claim_rewards, called by the player: everything that is pending, or nothing
ClaimRewards(p, c) ==
  LET due == pending[p][c]
      I == 1 .. Len(due)
      of(k) == {i \in I : KeyOf(due[i]) = k}
  IN /\ due # <<>>
     /\ \A i \in I : due[i].amount >= 0 /\ due[i].token # None
     /\ \A k \in Keys : pool[c][k] >= Sum(due, of(k))
     /\ PayRewards(p, due)
     /\ pool' = [pool EXCEPT ![c] = [k \in Keys |-> @[k] - Sum(due, of(k))]]
     /\ pending' = [pending EXCEPT ![p][c] = <<>>]
     /\ Settle(p, c)
     /\ UNCHANGED <<now, roles, counter, chain, progress, results, participants, ratings>>

\* fund_reward_pool, called by the owner, for any chain id
FundRewardPool(c, f) ==
  /\ config.owner # None
  /\ f.amount > 0
  /\ \/ /\ f.token = Nft
        /\ f.amount \in NftIds /\ nft[f.amount] = config.owner
        /\ nft' = [nft EXCEPT ![f.amount] = Self]
        /\ UNCHANGED bal
     \/ /\ f.token # Nft
        /\ bal[f.token][config.owner] >= f.amount
        /\ bal' = [bal EXCEPT ![f.token][config.owner] = @ - f.amount,
                              ![f.token][Self] = @ + f.amount]
        /\ UNCHANGED nft
  /\ pool' = [pool EXCEPT ![c][KeyOf(f)] = @ + f.amount]
  /\ UNCHANGED <<now, roles, counter, chain, progress, owed, results, participants, ratings>>

-----------------------------------------------------------------------------
(***************************************************************************)
(* Administration.                                                         *)
(***************************************************************************)
\* update_config, called by the owner
UpdateConfig(f) ==
  /\ config.owner # None
  /\ config' = [f EXCEPT !.owner = config.owner]
  /\ UNCHANGED <<now, managers, moderators, counter, funds, chain, progress, owed, results,
                 participants, ratings>>

\* set_chain_active, called by the owner, a manager or a moderator
SetChainActive(caller, c, active) ==
  /\ config.owner # None
  /\ caller = config.owner \/ caller \in managers \cup moderators
  /\ chain[c] # NoChain
  /\ chain' = [chain EXCEPT ![c].active = active]
  /\ UNCHANGED <<now, roles, counter, funds, progress, owed, results, participants, ratings>>

\* assign_manager, revoke_manager, assign_moderator, revoke_moderator, called
\* by the owner
ChangeRoles(a) ==
  /\ config.owner # None
  /\ \/ managers' \in {managers \cup {a}, managers \ {a}} /\ UNCHANGED moderators
     \/ moderators' \in {moderators \cup {a}, moderators \ {a}} /\ UNCHANGED managers
  /\ UNCHANGED <<now, config, counter, funds, chain, progress, owed, results, participants,
                 ratings>>

\* Time passes between ledgers.
Tick ==
  /\ now < MaxTime
  /\ now' = now + 1
  /\ UNCHANGED <<roles, counter, funds, chain, progress, owed, results, participants, ratings>>

QuestIds == UNION {{b.quests[i].id : i \in 1 .. Len(b.quests)} : b \in Blueprints}

Next ==
  \/ Initialize
  \/ \E a \in Staff \cup {Owner} :
       \/ \E b \in Blueprints : CreateChain(a, b)
       \/ \E c \in ChainIds, on \in BOOLEAN : SetChainActive(a, c, on)
  \/ \E p \in Players, c \in ChainIds :
       \/ StartChain(p, c)
       \/ \E q \in QuestIds : CompleteQuest(p, c, q)
       \/ ResetToCheckpoint(p, c)
       \/ ResetChain(p, c)
       \/ ClaimRewards(p, c)
  \/ \E p \in Raters, q \in QuestIds, r \in Ratings : RateQuest(p, q, r)
  \/ \E c \in ChainIds, f \in Fundings : FundRewardPool(c, f)
  \/ \E f \in Configs : UpdateConfig(f)
  \/ \E a \in Staff : ChangeRoles(a)
  \/ Tick

Spec == Init /\ [][Next]_vars

-----------------------------------------------------------------------------
(***************************************************************************)
(* Properties.                                                             *)
(***************************************************************************)
\* What the contract holds of token t; a token of Nft counts as its number,
\* as it does in the pools.
Holdings(t) ==
  IF t = Nft THEN Total([n \in {m \in NftIds : nft[m] = Self} |-> n]) ELSE bal[t][Self]

\* The pools of all chains and types that name a token are covered by what
\* the contract holds of it: claims of one chain never spend the pool of
\* another.
PoolsBacked ==
  \A t \in Token :
    Holdings(t) >= Total([ck \in ChainIds \X TokenType |-> pool[ck[1]][<<ck[2], t>>]])

\* The counters of a chain agree with what they count, whatever was reset in
\* between: its participants have progress, and its leaderboard holds the
\* fastest completions in order.
ChainBooks ==
  \A c \in ChainIds :
    /\ participants[c] = Cardinality({p \in Players : Started(p, c)})
    /\ Len(board[c]) = IF completions[c] < MAX_LEADERBOARD_ENTRIES
                         THEN completions[c] ELSE MAX_LEADERBOARD_ENTRIES
    /\ \A i, j \in 1 .. Len(board[c]) : i < j => board[c][i].duration <= board[c][j].duration

\* The quests of the list behind the first n.
Rest(list, n) == SubSeq(list, n + 1, Len(list))

\* What a player can claim is, to the reward, what it has completed and not
\* claimed yet; a reset of the chain takes it along.  The exception is what the
\* code makes of a fall back to a checkpoint: the rewards of every quest that
\* is kept are due again, those claimed before too, once for each claim that a
\* fall back follows.  Without a fall back no completion is paid twice.
PendingEarned ==
  \A p \in Players, c \in ChainIds :
    pending[p][c] =
      IF Started(p, c)
        THEN RewardsOf(chain[c].quests,
                       Rest(progress[p][c].completed, IF fallen[p][c] THEN 0 ELSE settled[p][c]))
        ELSE <<>>

\* The doc's promise: completion_time is None if the chain is not completed.
CompletionTimeHonest ==
  \A p \in Players, c \in ChainIds :
    Started(p, c) /\ Len(progress[p][c].completed) < Len(chain[c].quests) =>
      progress[p][c].completion_time = None

=============================================================================
