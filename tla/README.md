# Formal models of the Mindmint contracts

The repository holds 111 Soroban (Stellar) smart contracts of a puzzle game, under
`contracts/`. This directory holds TLA+ models of them, TLC configurations that check
the models on small instances, and TLAPS proofs of the properties that matter most.

## 1. The system

### How a contract runs

Each contract is a crate of its own with its own storage. A *call* names an entry
point (a `pub fn` of the `#[contractimpl]` block). The host runs calls one at a time, and
a call is atomic: when it panics or traps, everything it wrote, and everything the
contracts it called wrote, is undone. From this the models take

* one action per entry point, whose guard collects every condition under which the
  call returns without panicking. A write that is followed by a panic in the same call
  never happens (`sign_transaction` of the treasury stores `Expired` and panics: no
  transaction is ever stored as `Expired`);
* interleaving of calls of any accounts in any order. There are no threads; what is
  hard is the order of calls, what is stale when the next one comes, and time;
* ledger time and the ledger sequence as variables that an environment action advances;
* `require_auth` as a restriction of who the caller is: an action is taken with the
  caller as a parameter, and the conditions on the caller are guards;
* `overflow-checks = true` in the release profile (`Cargo.toml`): arithmetic that leaves
  its type panics, so it is a guard.

Contracts interact with (a) the Stellar token contract they hold balances in, which is
external code and modelled from how the contracts use it, and (b), in about twenty crates, with
another contract of the repository through a client or `invoke_contract`, at an address that is
given at run time (`auction` → NFT, `conditional_reward` → NFTs and tokens, `flash_loan` →
the borrower's callback, `puzzle_voting` → staking, `seasonal_event` → leaderboard).

### Inventory

The contracts fall into families. For each: the state it keeps, its operations, what is
hard about it, and what makes it correct. `PROJECT.json` lists every crate with its status: 31 are
modelled, 80 are not, each with its reason (section 6). Crates in bold are the modelled ones.

| Family (crates) | State | Operations | Hard | Correct when |
|---|---|---|---|---|
| **Escrow by vote** (**`multisig_escrow`**) | escrows by id, votes, vote counts, tokens | create, fund, sign, release, refund, dispute, resolve, cancel, expire | five ways to close; votes against cancellation, expiry and disputes | pays each deposit out once, in full, for a reason; always solvent |
| **Treasury by signatures** (**`multisig_treasury`**) | members and roles, threshold, transactions, pending list, recovery | add/remove/demote members, propose, sign, execute, reject, emergency recovery | members and thresholds change under pending transactions; executed proposals change members | spends by quorum only; decisions final; owner and quorum remain |
| **Votes by token** (**`governance_token`**) | balances, delegates, powers and checkpoints, proposals, receipts | mint, burn, transfer, delegate, propose, vote, queue, execute, cancel | snapshots against moving power; deadlines | power conserved; past power exact; outcome follows the votes |
| **Votes by membership or deposit** (**`governance`**, **`guild`**, **`puzzle_dao`**, `puzzle_voting`, `community_grant`) | members or deposits, delegations, proposals, small multisigs | join, leave, deposit, withdraw, vote, execute | weight that changes after a vote; quorum against members who leave | each weight votes once; a proposal executes once |
| **Custody of deposits** (**`auction`**, `bounty`, `puzzle_bounty`, **`flash_loan`**, **`lending`**, **`insurance`**, **`insurance_pool`**, `puzzle_insurance`, `lottery`, `puzzle_lottery`, `prediction_market`, `prize_pool`, `tournament`, `tournament_prize_pool`, `social_wager`, **`puzzle_crowdfund`**, `charity_donation`, `player_sponsorship`, `reward_vault`, `timelock_vault`, **`puzzle_rental`**, `progressive_jackpot`, `liquidity_pool`, `token_swap`) | one record per deposit, its phase, pool totals, tokens | deposit, settle, claim, refund, cancel, liquidate | settlement against refund; rounding; deadlines; a pool total that drifts from the sum of its records | what is owed is covered; each record paid at most once |
| **Accrual over time** (**`staking`**, `staking_rewards`, **`puzzle_pool_staking`**, `nft_staking`, `yield_farming`, `liquidity_mining`, **`vesting`**, **`vesting_schedule`**) | stakes or schedules, accumulated rewards, reward pool | stake, unstake, claim, close epoch, release, revoke, pause | rewards computed against a changing total; integer division; revocation between releases | never releases more than vested; stakes always withdrawable |
| **Shares of revenue** (**`revenue_share`**, `payment_splitter`, **`royalty_distribution`**, `royalty_splitter`, **`subscription_dao`**) | recipients and shares, deposited and released amounts, disputes | deposit, settle, claw back, change shares | shares that change between deposit and release; dust | what is paid is what was deposited |
| **Messages of validators** (**`bridge`**, `nft_wrapper`, **`cross_contract`**) | validators, nonces, transfers, queue | bridge, complete, cancel, wrap, process next | a message twice or late; completion against cancellation; validators who change | each message has one effect, by a quorum |
| **Control of other contracts** (**`emergency_pause`**, `rbac`, `proxy`, `delegation`, `whitelist`) | roles, guardians, pause and timelock | pause, request and execute unpause, grant, revoke, upgrade | a request that outlives the pause it was made for; the last admin | only the entitled act; the timelock holds |
| **Quests and rewards** (**`quest_chain`**, `quest`, **`referral`**, `referral_reward`, `airdrop_merkle_claim`, `battle_pass`, `clawback_reward`, `conditional_reward`, `daily_rewards`, **`energy`**, `seasonal_event`, `flash_challenge`, `reward_token`) | progress per player, prerequisites, claims, reward pool | start, complete, reset, claim, fund | reset against claim; limits; a pool that runs dry | each reward is claimed once, by who earned it |
| **Prices** (`oracle`, `oracle_integration`, `oracle_price_feed`) | reports per source, thresholds, dispute or emergency flags | submit, dispute, change sources | stale and missing reports | the price comes from a quorum of fresh reports |
| **Items and listings** (**`achievement_sets`**, `achievement_collection`, `achievement_nft`, `completion_certificate`, `crafting`, **`dynamic_metadata`**, `dynamic_nft`, `event_ticket`, `fractional_nft`, **`hint_marketplace`**, `marketplace`, `nft-leasing`, `nft_*`, `skill_badge`, `token_burn`) | owner and attributes per item, listings, offers | mint, transfer, burn, list, buy | a listing that is stale when it is bought | one owner per item; a sale swaps item and price |
| **Scores and profiles** (**`anti_bot`**, `batch_processing`, `event_logging`, `gamification_rewards`, `identity`, `decentralized_identity`, `*leaderboard`, `loyalty_points`, `mentorship`, `multiplayer_match`, `proof_of_activity`, `puzzle_co_creation`, `puzzle_factory`, `puzzle_subscription_tier`, `puzzle_verification`, `reputation`, `skill_rating`, **`social_tipping`**, `subscription`, `subscription_gift`, `time_attack`) | records per player | record, rate, score | few interactions of actors | sorted, bounded, authorised |
| **No state machine** (`zk_proof`, `escrow`) | | | `zk_proof` is cryptographic verification; `escrow` does not compile (an unresolved merge leaves two versions of its types) | |

## 2. Modules

| Module | Models | Kind |
|---|---|---|
| `Custody` | what a contract that holds tokens for others promises | abstract specification |
| `TokenUnits` | the arithmetic of a set of obligations (sums over finite sets) | operators |
| `MultisigEscrow` | `contracts/multisig_escrow/src/lib.rs`, and the token it uses | component; implements `Custody` |
| `MultisigTreasury` | `contracts/multisig_treasury/src/{lib,types,storage}.rs` | component |
| `GovernanceToken` | `contracts/governance_token/src/{lib,types,storage}.rs` | component |
| `RevenueShare` | `contracts/revenue_share/src/lib.rs`, and the tokens it uses | component; implements `Custody` |
| `RoyaltyDistribution` | `contracts/royalty_distribution/src/lib.rs` | component |
| `SubscriptionDao` | `contracts/subscription_dao/src/lib.rs` | component |
| `QuestChain` | `contracts/quest_chain/src/lib.rs`, and the tokens it pays rewards in | component |
| `EmergencyPause` | `contracts/emergency_pause/src/lib.rs` | component |
| `Auction` | `contracts/auction/src/lib.rs`, with the tokens and the NFT contract it uses | component; implements `Custody` |
| `PuzzleCrowdfund` | `contracts/puzzle_crowdfund/src/lib.rs` | component; implements `Custody` |
| `InsurancePool` | `contracts/insurance_pool/src/lib.rs` | component; implements `Custody` |
| `Decisions` | what a contract that decides cases promises: an outcome is never changed | abstract specification |
| `Bridge`, `PuzzleDao`, `Governance`, `Lending` | `contracts/{bridge,puzzle_dao,governance,lending}` | components; implement `Decisions` |
| `AntiBot`, `DynamicMetadata`, `AchievementSets`, `Referral`, `CrossContract`, `SocialTipping`, `HintMarketplace`, `Guild`, `Energy` | the crates of these names | components that keep records |
| `Insurance`, `PuzzlePoolStaking`, `PuzzleRental`, `Staking`, `Vesting`, `VestingSchedule`, `FlashLoan` | the crates of these names | components that hold tokens |
| `MC*` | the instances TLC checks; `MCRevenue` holds the three revenue contracts, `MCQuests` the quest chains, the pause and seven contracts that keep records, `MCCustody` the auctions, the crowdfunding, the insurance pool, the tips and the hint market, `MCContracts` the eleven other contracts of the three rows above | instances |
| `*Proofs` | theorems about the module of that name, `MultisigTreasuryProofs` also about `Decisions` and `Governance`; `RevenueShareProofs` about the contracts of `MCRevenue`. `MCCustody`, `MCQuests` and `MCContracts` hold their own | proofs |

### MultisigEscrow

`escrow[id]` is the stored `Escrow`, `vote[id][s]` the stored vote of a signer, `releaseCount` and `refundCount` the stored
counters of the votes, `counter` the id counter, `bal[token][account]` the
token contract's balances with the contract's own account among them. The eight entry points that change
an escrow after its creation are `FundEscrow`, `SignApprove`, `ReleaseFunds`, `RefundFunds`, `RaiseDispute`, `ResolveDispute`,
`CancelEscrow` and `ExpireEscrow`. `CreateEscrow` takes an *offer*: the arguments of the call, including invalid
ones, which `ValidOffer` refuses as the code does. `Transfer` and `Pay` are the token's
`transfer`, which panics on an insufficient balance. Only the wording of a dispute is left out.

The refinement: a *deposit* of `Custody` is an escrow whose funds the contract holds (`Holding`: funded and
not closed), its worth the escrow's amount; everything else (votes, disputes, time) stutters.

### MultisigTreasury

`role` and `members` are the member records and the members list, which the code stores
apart; `config` the fields of `TreasuryConfig` that are read; `tx`, `pending` and `history` the
transactions, the pending list and the execution records; `emergency` and `lastEmergency` the recovery state. The
three `propose_` functions and `create_transaction` are one action, `Propose`, over what is proposed. `ExecuteTransaction` includes the effect: the transfer, any call
of another contract (which may spend any part of the funds and may set an allowance others `Draw` on later),
or the member change, with the rights of the *executor*, as in the code.

The nested member functions call `require_auth` for the executor a second time. The host refuses this when
the executor is an account, and grants it when the executor is the contract that
calls the treasury; the model covers the second case, which has more behaviours. An action of an unknown name does nothing and the transaction still counts as executed.

### GovernanceToken

`bal`, `delegate`, `power`, `supply` and `allowance` are the stored token state, `ckpts` the list of each account's past powers, `proposal` and
`receipt` the proposals and the votes on them. Every operation that moves tokens calls `MovePower`
as the code does, which writes the checkpoints of both delegates. `FindPastVotes` is the
binary search of `_find_past_votes`. The ledger sequence (used by checkpoints) and the timestamp
(used by the deadlines) are one variable, `ledger`: both only grow. `closing`, a history variable, remembers the powers at the close of every ledger so that
properties can compare what the search answers with what was the case.

### RevenueShare

`agreement[id]` is the stored agreement with the dispute as a field of it, `beneficiaryTotal[id][i]` the running total of
the beneficiary at position `i`, `bal` the balances of the tokens. Shares are taken in units of `BpsDenominator`, a
constant. A deposit of an agreement with period 0 (`PayAtOnce`) pays out and credits the beneficiaries but stores no agreement, as in the
code; with a period it waits (`Accumulate`). `Settle`, `ClawBack` and `Cleared` are what `settle_in_place`, the two ways of paying the owner back
and the removal of old totals have in common. `Terms` and `Changes` are the arguments of `create_agreement` and `modify_agreement`, invalid ones
among them. The history and the counters of calls are written and never read by the contract, and left out.

The refinement of `Custody`: the obligation of an agreement is its unsettled revenue.

### RoyaltyDistribution and SubscriptionDao

`RoyaltyDistribution` keeps the list of recipients and, apart from it, `recipientIndex` and `pendingBalance`, as the contract does;
`requestedAt` is the request of an emergency withdrawal. `UpdateRecipientShare` stores the list as it was, because the code assigns the new
share to a copy. `SubscriptionDao` keeps the pool of each period with its list of participants next to `participation` and
`claims`; the contract moves no tokens itself, so what its claims return is kept in `returned`, a history variable. Neither calls another contract of the repository, so they are composed by
interleaving in `MCRevenue`.

### QuestChain and EmergencyPause

`QuestChain` keeps `progress[player][id]` and `pending[player][id]` (a list of rewards, in the order earned), the pools by chain, token type and token, and per chain the
counters and the leaderboard. `NextQuest`, `PrerequisitesMet` and `UnlockedByBranch` decide which quest is open, as in the code; `CreateChain` takes a *blueprint*,
which `ValidChain` may refuse. `ClaimRewards` collects the effect of the loop over the pending rewards: any pool, balance or item that is missing undoes the whole claim. ERC-721 tokens
are counted in the pools by their number, because the code adds the token id to the pool. `Never` stands for "no limit". Two history variables say how far the quests that a player completed are paid: `settled` is
how many of them its last claim saw, and `fallen` whether it fell back to a checkpoint since, which makes the code take the rewards of all quests that are kept as due again.

`EmergencyPause` keeps the pause state, the guardians, the timelock and the history of events; an entry of `history` also has, for the property only, the timelock at its time.
A timestamp that leaves 64 bits makes the request fail (`U64_MAX`).

### Auction, PuzzleCrowdfund and InsurancePool

`auction[id]` is the stored `AuctionInfo`, `sealed[id][bidder]` how far a sealed bid got, `holder` who holds each NFT. `TakeOver` is what `place_bid` and
`reveal_sealed_bid` have in common: the bid that is beaten goes back before the new one is paid. The NFT contract is external: it moves an item from the seller only while the
seller holds it, so `SettleAuction` has that as a guard, and `GiveItem` moves items at any time. Lists of bids and analytics are never read; the hash of a sealed bid is never
compared, so a bidder reveals any amount. The obligation of an auction is its highest bid, until the seller is paid.

`campaign[id]` of `PuzzleCrowdfund` is the stored campaign; `Refreshed` is `refresh_campaign`, with which most calls begin and end, and `GetCampaign` is
there because the getters store its result. The obligation is `get_campaign_balance`: raised, less claimed, less refunded.

`InsurancePool` keeps one policy per insured contract, the claims in the order of their ids, `pool` and `reserve`. Basis points, days and the limits of the
fraud check are constants. Its only obligation is `pool`.

### Contracts that decide cases: Bridge, PuzzleDao, Governance, Lending

`Decisions` has one state per case: "none", waiting, or an outcome; a step opens or decides a case or leaves all alone. `Bridge` implements it with the
status of a message, `PuzzleDao` and `Governance` with the stored status of a proposal, `Lending` with that of a loan (`D` in each module). Nothing in these contracts says it in one place:
`vote` and `cancel` of `governance` do not look at the status at all, and only the times keep them apart from `execute`.

`Bridge` keeps `status`, locks and confirmations per message id. A hash is the tuple of what is hashed, which leaves out the sender, so that messages of two senders can share an id as in the code; signatures are names of validators,
because the code verifies none. `PuzzleDao` keeps members with stake, tier and delegated power, and a council with its actions. `Governance` keeps deposits, delegatees and powers next to each other and the proposals with their votes (`ballots`). In both a proposal
that is executed may call the token with the contract as caller and so pay out of the stakes. `Lending` keeps offers, loans and requests for more time; interest is rounded where the code rounds it.

### Contracts that keep records

`AntiBot` keeps profiles, rates, patterns, penalties and appeals; many calls read a profile, call one another and write their copy back (`Store`), which is modelled copy by copy. `DynamicMetadata` keeps tokens with history, snapshots, metrics and
cached images; `Edit` is what all edits have in common, and rules fire in the order stored. `AchievementSets` keeps sets, claims, two leaderboards and editions; who owns which achievement is external (`owns`) and may change at any time. `Referral` keeps codes (which collide after so
many letters), referrers and statistics. `CrossContract` is a queue of messages (`slot`, `head`, `tail`): a target or callback that fails undoes the whole call, including what the call stored about the failure, so the message stays at the head. The
rest are `SocialTipping` (histories, totals, limits by day and by time), `HintMarketplace` (hints, listings, demand, quality, packs), `Guild` (roles, treasury, votes on withdrawals) and `Energy` (regeneration, gifts, boosts).

### Contracts that hold tokens

`Insurance` (policies, claims, a pool and the two lists that limits on claims read), `PuzzlePoolStaking` (positions, epochs and the solves in each), `PuzzleRental` (listings, rentals that pay an owner in the end, in several tokens: an extension is charged in the token of the listing and paid out in that of the rental), `Staking` (stakes, rewards by time, penalties), `Vesting` (one schedule per beneficiary, by time or
milestones), `VestingSchedule` (any number of schedules, and their events under the keys `schedule_id * 1000 + index`, 1000 being the constant `SPAN`) and `FlashLoan` (positions of lenders, fees; the borrower's contract is a choice of what it pays back within the one call).
Some of these modules have history variables, which no guard reads and which a comment names as such: `late` and `strayed` of `PuzzleRental` (the numbering started again; what extensions paid in another token than their rental's), `paid_out` and `stake_time` of `Staking` (rewards paid to each staker; its stake added up over the
seconds), `vested_then` of `Vesting` (what was vested when a schedule was revoked).

### One contract at a time

The twenty contracts of these three groups share no storage and call none of the others. The variable `contract` says which contract a behaviour runs: in `MCContracts` one of the eleven that are in the row of `Bridge` or of
`Insurance`; in `MCQuests` the quest chains and the pause, or one of `AntiBot`, `DynamicMetadata`, `AchievementSets`, `Referral`, `CrossContract`, `Guild` and `Energy`; in `MCCustody` the three custodians, or `SocialTipping` or `HintMarketplace`. Storage keys keep their names;
contracts that use the same name (`config`, `bal`, `proposal`) share the variable, and what is not of the contract that runs is 0 and stays so (`OthersAbsent`, `OthersStay`). `now` is the ledger's
time. So one run follows all of them, and `HoldingsBacked`, `DecidedOnce`, `RecordsAgree` and `TradesBooked` have one part for each contract.

The twenty contracts are instantiated with parameters: `OfInsurance`, `OfBridge` and so on are records of the values of their constants. The proofs are about any such records; for TLC the
configuration gives them `MCInsurance`, `MCBridge` and so on, which the module of the instance defines after the proofs.

## 3. What the runs check

| Run | Instance | Shows |
|---|---|---|
| `escrow` | `MCMultisigEscrow` | `Solvent`: the balance covers all open deposits. `Custodian`: every step is a step of `Custody`. `NoRivalQuorums`: with a majority threshold release and refund are never both open. `LeavesActiveForAReason`: agreement, no vote yet, expiry or the arbitrator. `ClosedForGood`; `PaidInFull`: a close moves the whole amount to depositor and beneficiary. `ActiveEnds`: a funded escrow does not stay Active for ever. |
| `treasury` | `MCMultisigTreasury` | `AlwaysAnOwner`, `QuorumReachable`, `PendingSlots` (the lists agree with the transactions), `SpendsByAgreement` (funds leave, and others are allowed to draw, only by an execution with enough distinct and sufficiently privileged signatures), `DecisionsStand`. |
| `treasury_unsigned` | the same | a disagreement: see section 5. |
| `governance` | `MCGovernanceToken` | `PowerIsDelegated`: power is conserved and is what the delegating holders own. `PastVotesTrue`: the search over checkpoints finds the power at the close of every past ledger. `QueuedByMajority`: quorum and majority are of the votes on the receipts. `SnapshotHonoured`: a voter who had power at the snapshot votes with it. `OutcomeSettled`: votes only within the period, execution only between eta and the end of the grace period, terminal statuses final. |
| `governance_snapshot` | the same | a disagreement: see section 5. |
| `revenue` | `MCRevenue` | Of `RevenueShare`: `Custodian`; `Books` (totals add up, no revenue stranded, no stale running total); `PastRevenueToPastParties` (what stops being unsettled arrives in full at the parties of the old split); `FrozenUntilResolved` (disputes and pauses freeze revenue and split); `SettledInTime` (liveness). Of `RoyaltyDistribution`: `RecipientsIndexed`, `RoyaltiesKept` (no unit is lost or paid twice but by the emergency withdrawal). Of `SubscriptionDao`: `ClaimsCovered` (what the claims of a period returned, with a share for each participant who has not claimed, is within the revenue recorded for it; it is about accounts, the tokens are held elsewhere). |
| `revenue_totals` | the same | a disagreement: see section 5. |
| `quests` | `MCQuests` | Of `QuestChain`: `PoolsBacked` (the pools of all chains are covered by the tokens held), `ChainBooks` (participants, completions and a sorted, bounded leaderboard, whatever was reset), `PendingEarned` (what can be claimed is, to the reward, what was completed after the last claim; only a fall back to a checkpoint makes rewards due that were claimed before, and then those of all the quests it keeps). Of `EmergencyPause`: `UnpauseWaits` (each pause ends by a request of its own, after the timelock of that request). `RecordsAgree`, one part for each of seven contracts: what several calls count, copy and hand on stays in agreement with what it was counted from (profiles with penalties and appeals; the last snapshot and the cached image with the token; a cut leaderboard with the bonuses, and serial numbers with claims; referrals with their lists and payments; messages leave a queue in order; the votes on a withdrawal with members; energy within its maximum). |
| `quests_completed` | the same | a disagreement: see section 5. |
| `custody` | `MCCustody` | `AllCustodians`: all three implement `Custody`. `OnlyWinnersPay`: an account has what it started with, less its standing and winning bids, plus the bids that won its auctions. `AllBooks`: a campaign pays milestones or refunds, never both, and its totals are those of its backers and milestones (`CampaignBooks`); totals, counts and leaderboards of tips are those of the tips given, within limits and cooldown, demand and quality of a hint are those of its sales and ratings, and each price kept of it is that of a sale, one kept for every sale up to the limit (`TradesBooked`). `ClaimsPaidOnce`: a claim goes from Submitted to Approved or Rejected and from Approved to Paid, and the pool gives up its payout in that last step only. |
| `auction_dutch` | the same | a disagreement: see section 5. |
| `contracts` | `MCContracts` | `HoldingsBacked`, one part for each of eleven contracts: what the contract holds covers what it owes. For rentals it holds token by token, but for what extensions paid in another token, which takes a late `initialize`; for staking it includes that no time is rewarded twice (what was paid and is due to a staker is within the best rate for its stake over time); for vesting that a revocation leaves what was vested by then. `DecidedOnce`: the four contracts implement `Decisions`. |

Every property has a mutant: a changed form of one operation (named next to the operation
in the module, with a comment "Mutated form") under which TLC finds the property violated.

### Bounds, and why they are enough

* `escrow`: two escrows over one token, so that one escrow's deposit could be paid to another's
  party; a depositor, a beneficiary and three signers, one of whom is the arbitrator of the other two's escrow;
  offers with an even split of votes (1 of 2) and with a majority (2 of 3), odd and even amounts (rounding of a split), the contract itself as beneficiary,
  and offers that are refused; time runs past the expiries. A third escrow adds no interaction: the contract touches one at a time. The theorems hold for any number.
* `treasury`: three accounts, two of them interchangeable, one stored transaction at a time (`MaxTx = 1`), thresholds 1 and
  2, time for one cooldown. Three accounts are the fewest with which an owner can be removed by one and replaced by another. `CONSTRAINT Bounded` does not follow a recovery once the transaction is
  finished. Transactions touch each other only through the pending list; the theorems (`SlotsAgree`, `AgreementSpends`, `DecisionsLast`, `QuorumRemains`) hold for any number of them.
* `governance`: two holders, a spender, supply up to 2 (`MaxSupply`), five ledgers (`MaxLedger`), one proposal (`MaxProposals`) and three checkpoint
  records in all (`MaxCheckpoints`): long enough for two checkpoints of one holder around a snapshot and for a whole
  proposal with vote, queue, timelock and grace period. `CONSTRAINT Bounded` and `LastApproval` leave allowances to the first two ledgers and
  ask for the proposal within three.

* `revenue`: each behaviour is of one of the three contracts, chosen in the initial state (`contract`); they share no state and calling them alternately shows nothing new.
  Two agreements of one token, so that one could be settled with the other's revenue; shares in quarters and deposits of 3, so that every share is rounded; a
  split that grows, shrinks and keeps its length; periods 0 and 1; time to 2, with deposits up to time 1 (`LastDeposit`), so that every deposit can come due.
  Royalties: three recipients, so that the removal of the first shifts two; a payment of 3 and a timelock of 1. Subscription: two players who hand
  governance tokens to each other, three periods.

* `quests`: two interchangeable players (symmetry), one chain out of three blueprints: three quests with a checkpoint, an expiry and a branch that passes over a prerequisite; a chain of two rewards for
  one player at a time within a time window; one that is refused. Two chain ids, so that pools of two chains share one balance, two tokens of gold and one item, a leaderboard of two and two completions, time to 1. `CONSTRAINT Bounded`: the owner
  is done with roles, configuration and the chain before the first player starts (funding goes on, with only one kind of reward for the chain that does not exist yet), behaviours are not followed beyond a rating, and between a fall back to the checkpoint and the next claim no time passes and nothing is due to the other player. The pause: two accounts,
  timelocks 0 (refused), 1 and 2 (beyond 64 bits at time 1), a history of five events (`MaxEvents`), which holds two pauses. Time to 1 suffices for both: durations 0 and 1 can be ranked, and a timelock of 1 can be early or over.

* `custody`: two interchangeable bidders, backers or payers. Auctions: two of one item and one token, of the three kinds in any combination, bids 1 to 3, time to 2, an extension of 1: enough for overlapping
  bids and a late extension. Campaigns: two, with a goal of 2 and two milestones, with a stretch goal, or refused; contributions of 1 and 2. Insurance: one contract, two tokens per account, basis points counted in quarters, a
  claim limit of 1 within one unit of time, so that a second claim is possible after it; `CONSTRAINT Bounded` follows one change of the configuration, or a second claim, two risk levels, up to two tokens in the pool and a reserve of 0 to 2. The pool has bounds of its own (`PoolBalance`, `PoolMaxTime`).
  The limits are scaled down as literals of the code; the comparisons with them are kept.

* The twenty contracts that are followed one at a time, in `contracts`, `quests` and `custody`: two or three users, of whom two are interchangeable (symmetry: `eve` and `dan` in `contracts`, `ann` and `bob` in the other two) where the contract treats users alike, and named ones where it does not; one to three records of each kind, amounts of 1 to 4, time to 2 or 3. `CONSTRAINT Bounded` has a conjunct for each contract (`…Small`), which keeps what happens
  before the interesting part to one order: the configuration is changed first, say, or sets are defined before they are claimed, or the number of records in all is limited. Each was set so that every action of its contract still fires (TLC's coverage was read
  for each) and the case the property is about happens: two deposits of one sender, a second claim in the same window, an epoch with a late solve, a vote after power has moved, a schedule whose events run over into the keys of the next (`SPAN` is 2). The four mutants of these properties listed in `PROJECT.json` are of four contracts;
  every other module has a mutated form next to the operation it changes, and TLC finds the part of that contract violated under it as well.

`CHECK_DEADLOCK FALSE` is set because clocks and ids are bounded: at the bounds, when everything is closed, the model stops, as the
program would if nobody called it again.

### Fairness

Only `ActiveEnds` and `SettledInTime` need any. `FairSpec` of `MultisigEscrow` adds weak fairness of the ledger clock, which the network advances whatever
the contract does, and of `ExpireEscrow` for each escrow, because `expire_escrow` asks for no authorisation: anybody, the depositor first, can
call it and it stays enabled until somebody does or another step closes the escrow. No fairness of a signer's vote or of an arbitrator is
assumed. Hence nothing is claimed for a Disputed escrow: only its arbitrator can end it, and it does not expire.

`FairSpec` of `RevenueShare` adds weak fairness of the ledger clock and of `SettleDistribution` for each agreement, which asks for no authorisation
either: the beneficiaries have every reason to call it. Nothing is assumed of the owner, who may modify the agreement again and again; a
modification settles what waits, which is why `SettledInTime` holds all the same. While the agreement is disputed or paused nothing is claimed.

## 4. What is proved

All constants are arbitrary within the named assumptions (`AddrAssumption`, `BoundAssumption`, … in `MultisigEscrow`:
the accounts are a finite set without the contract itself, the offers are made from the constants; `TreasuryAssumption`; `GovernanceAssumption`; the same names in `RevenueShare`;
`DivisionAssumption` in `MCRevenue`: denominators are not 0 and opening balances are natural numbers; `AccountsAssumption`, `LotsAssumption`, `PlansAssumption` and
`InsuranceAssumption` in `MCCustody`: `i128` and `u64` arguments, ratios within the basis points, one payment token each for the campaigns and the pool, of any lots, plans and limits;
`GuardiansAssumption` and `QuestsAssumption` in `MCQuests`: finitely many players and token ids, accounts apart from the contract, timelocks, configurations, blueprints and fundings of their types, in which amounts may be negative;
one assumption for each of the twenty contracts that run alone, `BridgeAssumption` to `VestingScheduleAssumption` in `MCContracts`, `AntiBotAssumption` to `EnergyAssumption` in `MCQuests`, `SocialTippingAssumption` and `HintMarketplaceAssumption` in `MCCustody`: finitely many users, the contract's account apart from theirs, settings and arguments of the types that the code declares, denominators above 0, and `None` different from what is stored;
`StakingAssumption` also has that one of the yearly rates that can be set is the highest, whichever tier it is of: the bound in `StakesAndRewards` is made with it). TLC evaluates them in each run.

| Theorem | Says | Rests on |
|---|---|---|
| `MultisigEscrowProofs!CustodianSolvent` | a contract that behaves as `Custody` can pay what it owes | sums over finite sets (`StillCovers` of `TokenUnitsProofs`) |
| `MultisigEscrowProofs!TypeCorrect`, `ImplementsCustody`, `EscrowSolvent` | types; refinement of `Custody`; `Solvent` | `IInv`: types, ids allocated in order, and a balance that covers what is owed. One lemma `…Moves` per entry point says that it replaces one record and moves the balance by that record's amount (`Moves`); one lemma turns a move into a deposit or a discharge of `Custody` |
| `…!CountsAreVotes`, `QuorumsExclude` | the stored counts are numbers of distinct signers; no two quorums | `VInv`: counts equal the sizes of the sets of voters; two majorities of one set intersect |
| `…!ClosedStays`, `AgreementNeeded` | the two action properties | the case distinction by action |
| `…!ClosedPaysInFull` | `PaidInFull` | `HeldFunded`: a held escrow is marked funded, which `cancel_escrow` and `expire_escrow` look at before they refund, and a split's two payments of one token to two parties that may be the same account |
| `MultisigTreasuryProofs!OwnerRemains`, `ListAgrees` | an owner remains; the list and the records agree | `Governed`: the contract counts owners through the list, so the owner count means something only because list and records agree |
| `…!TypeCorrect`, `SlotsAgree` | types; pending list and history | `Booked`: stored counts of signatures are sizes of sets, ids beyond the counter are free |
| `…!AgreementSpends`, `DecisionsLast` | the two action properties | `IInv` and, for each operation on a transaction, what it does to one record (`TxStep`) |
| `…!QuorumRemains` | `QuorumReachable` | `Counted`: the members counted in `total_signers` are listed ones (not the other way round: a recovery lists an owner it does not count), and but for a treasury of one the threshold does not exceed that count |
| `GovernanceTokenProofs!PowerConserved` | powers are sums of delegated balances, for any holders and amounts | `Conserved`: powers as sums over the holders who delegate, and the supply as the sum of all balances; sums over a changed balance or a changed set of delegators |
| `…!OutcomesSettle` | `OutcomeSettled` | `Timed`: a proposal starts before it ends, and the eta of a queued one lies beyond its end by the timelock delay. The weights of the votes do not matter, so the search over checkpoints is left unopened |
| `…!PastVotesFound` | the binary search of `get_past_votes` is right on every ordered list of checkpoints | `MiddleRange` (the middle taken by the code is above the lower end, so the range shrinks) and induction on the length of the range, see below |
| `…!PastVotesAreTrue` | `PastVotesTrue` | the checkpoints of an account are ordered and end with its present power, and the model's record of the power at the close of a ledger is the last checkpoint up to it; a second change in one ledger overwrites a checkpoint instead of adding one |
| `…!TypeCorrect`, `MajorityQueues`, `SnapshotsHonoured` | `TypeOK`, `QueuedByMajority`, `SnapshotHonoured` | types; the tallies of a proposal are the sums of the receipts that name it and a receipt is never changed; `PastVotesFound` for the weight of a vote, which lies within the ledgers that are closed |
| `TokenUnitsProofs!FloorSharesFit` | shares rounded down never exceed the amount | if `f[a] * D <= w[a] * u` for every `a`, then so for the sums (`TotalScales`): the pairs of a unit of `f` and a number up to `D` map one to one, by division with remainder, into the pairs of a unit of `w` and a number up to `u`. No induction over the list is needed |
| `RevenueShareProofs!TypeCorrect`, `BooksInOrder`, `ImplementsCustody`, `RevenueSolvent` | types (no balance below 0), `Books`, refinement of `Custody`, `Solvent` | `IInv`: types, every stored agreement is `Sound` (valid split, totals balance, nothing unsettled with period 0 or when cancelled), ids in order. "Nothing unsettled with period 0" is what makes the immediate mode safe, which pays `unsettled` without storing that it did. Each entry point replaces one agreement and gives up no more than it discharges (`Replaces`) |
| `…!DisputesFreeze` | `FrozenUntilResolved` | the case distinction by action |
| `…!PastPartiesPaid` | `PastRevenueToPastParties` | the payments of a settlement, grouped by account: beneficiaries may repeat and may be the owner, so what the parties gain is the shares summed over positions and then over accounts (`TotalRegroup`), the rest going to the owner |
| `…!IndexAgrees`, `RoyaltiesAccounted` | `RecipientsIndexed`, `RoyaltiesKept` | `RoyaltyInv`: types and the agreement of list and index. Removing the i-th recipient moves all later ones and their indices; a distribution raises pending balances by shares that add up to the payment, the rounding going to the last recipient |
| `…!SharesCovered` | `ClaimsCovered` | `DaoInv`: the list by whose length a period is divided is as long as the set of recorded participants, only they claim and only when the period is closed, after which revenue and list stay, so every claim returned the same share, and a share is rounded down |
| `MCCustody!WinnersOnlyPay` | `OnlyWinnersPay` | `AuctionInv`: types, and a Dutch auction with a buyer is settled; `Accounted`: the balance of an account as sums over all auctions of what it paid and what it earned. Every call replaces one auction, and balances follow it (`Booked`, one lemma per call). Without the first, a Dutch sale could be settled and its price be both held and paid out |
| `…!BooksOfCampaigns` | `AllBooks`, that is `CampaignBooks` and `TradesBooked` | `TradesAreBooked` and `FundInv`: every campaign is `Sound` at the present time. It adds to the books that something was claimed only if the goal was reached, and refunded only after the deadline of a failed campaign: the stored status is stale, so the books rest on totals and clock. Every call stores one sound campaign (`Settled`) |
| `…!TradesAreBooked` | `TradesBooked` | `TipInv`, `MarketInv`; see below |
| `…!OnePayoutPerClaim` | `ClaimsPaidOnce` | `PoolInv`: types (ratios within basis points, policies started by now) and the pool is the contract's whole balance. What is approved is within the claim because a part in basis points is (`PartWithin`) |
| `…!ThreeCustodians` | all three implement `Custody` | the three invariants: the obligation of an auction, of a campaign or of the pool moves with the balance, call by call (`AuctionCustodyStep`, `FundCustodyStep`, `PoolCustodyStep`), and a step of one contract leaves the others right (`CustodyStep`) |
| `MultisigTreasuryProofs!OutcomeStands` | in whatever implements `Decisions` no outcome is changed or taken back | the states of a case have their type, and waiting states are not outcomes (`Distinct`) |
| `MultisigTreasuryProofs!ProposalsDecidedOnce` | the governance contract implements `Decisions`, for any members, amounts, limits and times (`Parameters`) | `BallotInv`: types (`BallotsTyped`, what is stored of proposals, and times as numbers) and `VotesBeforeExecution`: every proposal starts before it ends, and an executed one has ended. `cancel` reads only the clock (before the start) and `vote` keeps the status or makes a proposal Active only within its times, so without the second an executed proposal could be canceled. One lemma says which one proposal a vote, an execution and a cancellation change (`BallotChanges`), one that all other operations leave the proposals alone (`OthersStep`) |
| `MCQuests!UnpausesWait` | `UnpauseWaits` | `PauseInv`: a pause that goes on is the last one of the history and only requests follow it, a running countdown was started by the last of them, and pauses and unpauses alternate. The countdown alone (`unpause_after`) would not do: it says when, not which request of which pause it came from |
| `…!BooksAgree` | `ChainBooks` | `BooksInv`: types; the progress of a player exists only in chains that were created (otherwise `create_chain` would reset the counter of a chain with players); completed quests are quests of the chain, and a checkpoint is among them; the leaderboard is ordered and as long as the completions, up to its limit. Inserting a record behind all that are at least as fast keeps it so, because in an ordered list those come first (`FasterFirst`) |
| `…!PendingIsEarned` | `PendingEarned` | `EarnedInv`: nothing is pending without progress, no more quests are settled than completed, and the pending rewards are those of the quests behind the settled ones, or of all after a fall back. The rewards gathered for a list of quests exist and are what the recursion says (`RewardsJoined`, by `Least`), and one more quest adds its own (`RewardsAdded`); that quests of a chain with players do not change comes from `BooksInv` |
| `…!PoolsAreBacked` | `PoolsBacked` | `FundsInv`: types and the property. A claim takes from the pools of one chain, type by type, what its rewards add up to token by token (`PoolsPaid`, by `TotalRegroup`), and of the token that counts ids as amounts each id leaves once (`HeldPaid`) |
| `…!RecordsAlwaysAgree` | `RecordsAgree` | `RecordsInv`: `BotInv`, `MetadataInv`, … according to `contract`; see below |
| `MCContracts!InvariantKept` | the inductive invariant of the contract that runs holds in every reachable state | `IInv`: `InsuranceInv`, `BridgeInv`, … according to `contract`; see below |
| `…!HoldingsAreBacked` | `HoldingsBacked`: what each of eleven contracts holds covers what it owes | `InvariantKept`; each of the eleven invariants implies its part (`…Says`) |
| `…!DecisionsAreFinal` | `DecidedOnce`: four contracts implement `Decisions` | `InvariantKept`; a step opens or decides at most one proposal (`Decides`), loan (`LoanDecides`) or message |

Each of the twenty contracts that run alone has a section in `MCContracts`, `MCQuests` or `MCCustody`: its assumption, its invariant, lemmas about its operations, and `…Init`, `…Step` and `…Says`, which the last section of the module puts together.
What the invariants say beyond the properties is where the work is:

* *insurance*: types, with settings that give natural premiums, so that the pool stays the balance; and recent claims of a user are among those kept (`ClaimKept`): what pruning drops is too old now and stays so.
* *bridge*: the balance is the sum of what all messages lock (`Locks`), and a message that locks something is Pending or Completed, so a cancellation finds what it refunds.
* *governance* and *puzzle_dao*: the balance is the sum of the deposits (the stakes) less what executed proposals paid (`Payments`). The power of an account in *governance* is the sum of the deposits of those who delegate to it (`EntrustedTo`). A proposal starts before it ends and
  an executed one has ended (`Timed`), without which one could be canceled after its execution.
* *puzzle_pool_staking*: the balance is the sum of the stakes. Every epoch up to the current one is stored, follows the one before without a gap, is closed if it is not the current one, and has as many solves as its players (`EpochInv`); later epochs have none, and rewards are claimed of closed epochs (`ClaimedInv`).
* *puzzle_rental*: a rental that runs is in the list of its renter and of a listing that was made, which is for the same token unless the numbering started again, and an ended one is archived (`RentalSays`), for any ids that are used again. New numbers are free until then.
* *staking*: what a staker was paid and has accumulated is within the best rate for its stake over the time up to the last settlement (`Settlement`); what accrued since is added, and rounding down keeps it over any number of settlements.
* *lending*: each offer and each loan keeps one asset (`Keeps`): the tokens of all of them add up to the balance, and an NFT is kept for one of them exactly if the contract owns it. Extensions asked for fit the terms (`ExtensionFits`), and each accepted offer has become one loan.
* *vesting* and *vesting_schedule*: what was released is within what is vested by the present terms (`ScheduleSays`, `LinearSays`); what is vested grows with time, and a change of the terms is checked against what was released. The balance covers the sum of what is not yet released, and in *vesting* also what was vested and not released of revoked schedules (`GivenOf`).
  In *vesting_schedule* every event has a key of its own although the keys of different schedules meet, so the sums of events by type account for the balance (`EventsBooked`).
* *flash_loan*: the balance covers positions and fees, also before there is a pool, and no loan is open between two calls.
* *anti_bot*: the counts are those of the profile that would be read, also of a player who has none stored (`Profiled`), and every appeal is of a penalty. Each call stores one copy at the end, and `Alike` says in what the copies agree.
* *dynamic_metadata*: a token, its last snapshot, its last event and its image agree one by one (`Agreed`), which any number of rules that fire in one call keep.
* *achievement_sets*: who is left out of the leaderboard is no better than those shown (`BestFirst`). Totals only grow and one at a time, so a cut list with one entry taken out and put in again (`Others`, `Inserted`) is still the best. The serial numbers of a set are `1` to the number claimed, and the token ids follow from the sum over all sets.
* *referral*: lists and counts are those of the referrers stored, and what users hold adds up to what was paid. A new referrer closes no cycle up to the smallest depth of a walk that can be configured (`Acyclic`): a path through the new edge is one that the walk would have met. Users who referred someone have a code already (`CodesGenerated`), so nothing is
  reset by generating one.
* *cross_contract*: the queue holds the messages from `head` on, each in its slot (`InQueue`), and exactly those before are Delivered, with times in order.
* *guild*: members are the users with a role, each once (`Enlisted`), votes are counted once for each who voted, and each of them is a member still (`Counted`), so a majority of the list is one of members.
* *energy*: a record is within its own maximum and was updated by now (`Sound`); nobody has one before `initialize`, and the number of players is that of the records.
* *social_tipping*: the tips sent by a user are those in the histories of all recipients (`Sent`), their sums by day and in all are the totals (`BookedFor`); a leaderboard shows the totals, ordered and each user once (`Shows`), through the moves of one entry that grew.
* *hint_marketplace*: the listings sold of a hint are its purchases (`SoldOf`), and the prices kept are among theirs (`Demanded`); everybody rates a hint once, so sum and count of the ratings are those over a set of raters, and the quality is their average (`Rated`). Fees, royalties and the seller's part add up to the price, so nothing stays with the contract.

`RevenueShareProofs`, `MCCustody`, `MCQuests` and `MCContracts` prove their theorems of the composed specification `MCSpec`, in which each behaviour runs one of the contracts: the invariants of
the others must survive the steps of the one that runs, which they do because storage is apart and the clock they share never goes back (`Clock`) or stays a number.

Some of these proofs need induction, over the range of a search, over a list of quests or over a finite set of accounts. The induction theorems of the library take a predicate as a parameter
and cannot be instantiated; `Least` (a nonempty set of natural numbers has a least element) and `SubsetInduction` (a collection of sets that has the empty set and
grows by every element has the whole set) of `TokenUnitsProofs` are about sets instead of predicates and serve as well. So `TotalAdd`, `TotalRegroup`, `PastVotesFound` and `RewardsAdded` are proved.

Every safety property of the passing runs is so a theorem. Model-checked only: `ActiveEnds` and `SettledInTime`, liveness under fairness, which are out of the prover's reach, and the five disagreements of section 5, which are counterexamples.

## 5. Where the code disagrees with its documentation

* **The threshold of a treasury can reach 0.** `execute_emergency_recovery` adds a member without counting it in `total_signers`
  (`lib.rs:628`); `remove_member` decrements `total_signers` for it all the same and cuts the threshold to
  it. With owners left and the threshold at 0, a transaction is executed without a signature, against "need at least 1 signature" (`lib.rs:47`).
  Run `treasury_unsigned`.
* **A vote can weigh more than at the snapshot.** An account whose power at the snapshot was 0 votes with its current power (`governance_token/src/lib.rs:319-327`),
  against "Voting weight is read from the snapshot taken at proposal creation" (`:300`). Run `governance_snapshot`.
* **An agreement that pays at once keeps no totals.** `deposit_revenue` with period 0 settles a copy of the agreement and does not store it
  (`revenue_share/src/lib.rs:496-503`), against "tracks per-agreement running totals (received, settled, clawed-back)" (`:25-26`) and the test at `:1559-1562`.
  Run `revenue_totals`.
* **A chain that is not completed has a completion time.** `reset_to_checkpoint` of `quest_chain` takes completed quests away and keeps `completion_time`
  (`lib.rs:527-550`), against "None if not completed" (`:75`). Run `quests_completed`.
* **A Dutch sale is never completed.** `buy_dutch` takes the price and sets `settled` (`auction/src/lib.rs:352-365`); `settle_auction`, the only place that pays the seller and
  hands the item over, refuses a settled auction (`:578`), against "Finalize the auction (Send money to seller, NFT to winner)" (`:570`). Run `auction_dutch`.

Observed while modelling and not listed as findings:

* `execute_emergency_recovery` is documented as requiring two thirds of the owners (`lib.rs:588`); the code takes one owner other than the
  activator, and an inline comment says so.
* The diagram of `multisig_escrow` has `Expired --> (auto) Refunded`; the code pays back and stores `Expired`.
* A Disputed escrow never expires: with an absent arbitrator its deposit stays.
* A proposal of the treasury that expired keeps its pending slot until its proposer rejects it; an approved one never expires.
* An agreement of `revenue_share` can be disputed once in its life: the record of a resolved dispute refuses another.
* `update_recipient_share` of `royalty_distribution` checks everything and changes nothing.
* The emergency withdrawal of `royalty_distribution` takes pending royalties and leaves the claims on them.
* In `quest_chain` `reset_to_checkpoint` makes the rewards of all the quests it keeps pending (`lib.rs:531-543`), those that were claimed included, so claiming, falling back and claiming again pays one completion twice, and again with every further fall back. After `reset_chain` a player can complete the chain once more and is paid for that. A quest that became current through a
  branch is open although prerequisites are missing. `fund_reward_pool` accepts ids of chains that do not exist. `get_pending_rewards` reads the list of rewards as a number.
* With all guardians removed nobody can end a pause of `emergency_pause` until the admin adds one.
* In `auction` an item that its seller has given away blocks the settlement, and the winning bid stays in the contract. A Dutch auction without a buyer can be settled by anybody at any time.
* In `insurance_pool` a policy whose time is over stays Active and must be renewed or cancelled before another is bought; claims never raise the risk to Critical, because the branch for three claims comes before the one for five; a payout
  does not reduce the reserve, and withdrawals take it down by rounding, below 0 in the end.
* In `puzzle_crowdfund` what a successful campaign raised beyond its milestones stays in the contract.
* `subscription_dao` asks for governance tokens when a share is claimed, not when the period was closed ("at snapshot", comment at `lib.rs:233`), so one token that is handed around serves every participant in turn.
* A holder's cancelled governance proposal still collects votes, without effect.

The same, of the contracts of the run `contracts`; each line can be read off the module's operations, and most of the comments of the source that they contradict are named:

* `anti_bot`: `record_activity` stores a copy of the profile that it read before `record_suspicious_activity` stored its own, so a flag set in between is lost (`lib.rs:631`, `:707`, `:912`). Granting an appeal makes a player Verified although other penalties are active (comment at `:1319`).
  Anybody may appeal anybody's penalty. The lists that `add_verifier` and `remove_verifier` keep are never read. Removing a player from the blacklist leaves the permanent penalty.
* `dynamic_metadata`: lowering and raising a metric inflates the score (comment at `:813`); a burned token can be transferred, which takes the burn back; `migrate` ignores freezing; cached images keep an old base URI.
* `insurance`: Expired is never stored, and a policy whose time is over blocks a new one. Claims do not use up coverage, and a policy with a paid claim is refunded when cancelled.
* `bridge`: the id of a message does not depend on the sender. Confirmations are counted without looking at signatures, and the same validator counts twice. A completed message keeps its assets locked for ever. The fee is computed and not collected.
* `puzzle_dao`: joining and upgrading overwrite or double delegated power (`lib.rs:102`, `:141`), leaving drops what others delegated. An action that needs one signature stays Pending. `governance`: votes can be cast again with power moved to another account; administrative actions are open to every account. In both a passed
  proposal can spend the stakes, and canceled proposals collect votes.
* `achievement_sets`: one achievement handed around lets several players claim. A set that lists a puzzle twice can never be completed.
* `referral`: codes can be made before `initialize`, which sets their counter back, so codes collide (comment at `:175`). Cycles longer than the chain depth are not noticed.
* `cross_contract`: a message that fails without being atomic is stored as Failed and taken from the queue, and then the call returns an error, which undoes that: it blocks the queue until its target answers (`lib.rs:396-413`, `:441-459`).
* `puzzle_pool_staking`: claims use the stake of today against the total of the closed epoch (`lib.rs:639-643`), changed shares apply to closed epochs, budgets need not be funded.
* `puzzle_rental`: a second start of the numbering, by a late `initialize`, overwrites listings and rentals: an overwritten rental is lost, its payment stays in the contract, and `has_access`, which follows the renter's list of ids and never compares the stored rental's renter, may find somebody else's rental under an old id. When the new listing is for another token, an extension of an old rental is paid in that token and paid out in the first one (`lib.rs:426`, `:494`), out of what other renters paid. One puzzle can be rented to many at once.
* `staking`: changed rates apply to time already past, and nothing keeps a higher tier from having a lower bonus (`lib.rs:141-160`); penalties stay in the contract; an emergency withdrawal forfeits rewards.
* `lending`: more time can be agreed after the due date. A lent NFT stays with the borrower when the collateral is taken. Interest lost to rounding at one accrual is not made up at the next.
* `hint_marketplace`: hints made before `initialize` are overwritten. Fee and royalty above 100% together make a listing unbuyable. Views are never counted, and ratings need no purchase.
* `social_tipping`: `batch_tip` checks the limits after counting, so it needs a cooldown of 0 and cannot reach the daily limit.
* `vesting`: a new schedule replaces the beneficiary's old one and strands its tokens. Both vesting contracts strand what is vested and not released at a revocation. `vesting_schedule`: a schedule with more than 1000 events writes on among the keys of the next one, whose history then shows them (`lib.rs:509`, `:578`).
* `flash_loan`: a second deposit replaces the position (`lib.rs:163-170`). Fees are counted twice in what is available, and withdrawals are not taken off it.
* `guild`: a member can vote again in a general vote. Officers can take a large sum in parts below the threshold. A leader can demote everybody.
* `energy`: `gifted_today` is never set back (comments at `:137`, `:545`), so the daily limit is one for life. Applying a boost discards energy that has accrued.

## 6. Not modelled

Events, string fields, getters and time-to-live of storage entries (the host can restore an archived entry) are left out everywhere.
Deposits into the treasury, which anybody can make through the token, are left out: they only enable more transfers. `PROJECT.json` has a reason for each crate with status `not_modelled`:

* ten crates (`clawback_reward`, `decentralized_identity`, `liquidity_pool`, `marketplace`, `mentorship`, `multiplayer_match`, `nft-leasing`, `puzzle_factory`, `skill_badge`, `staking_rewards`) are not members of the workspace, so they are not part of what is built;
  `escrow` is not one either and does not compile;
* `zk_proof` is cryptographic verification without a state machine of its own;
* counters, scores and profiles of one player, and ownership records and listings of single items: each call checks and updates one record, and no two actors meet;
* the others (deposits paid out by phase, shares of revenue, roles, progress of one player, oracles) could be modelled; each has its pattern in a modelled contract with more actors or more ways of ending a case, and those were taken first.

## 7. Plan

1. `prediction_market` and `social_wager`: after a cash-out the pools and the total of a market are adjusted apart, and disputes come after claims; both would implement `Decisions` and `Custody`. Then `bounty`, `prize_pool`, `tournament_prize_pool`, `timelock_vault`.
2. `payment_splitter` and `royalty_splitter` next to `RevenueShare`, with `FloorSharesFit` for their shares.
3. `oracle` and `oracle_price_feed` (a price from a quorum of fresh reports), `rbac`, `proxy`, `puzzle_voting` with the staking contract it asks.
