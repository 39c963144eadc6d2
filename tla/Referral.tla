------------------------------ MODULE Referral ------------------------------
(***************************************************************************)
(* Referrals (contracts/referral): users publish codes, others register    *)
(* with them, and both are rewarded while the contract has tokens.         *)
(*                                                                         *)
(* A call is one action and its error paths are its guards.  The guard     *)
(* against reentrancy is left out: the host refuses it.  A code is the     *)
(* pair of numbers its letters are made of.                                *)
(***************************************************************************)
EXTENDS Integers, FiniteSets, TokenUnits

CONSTANTS
  Users, Self, None,
  Rewards,              \* what referrers and referees are rewarded with
  Limits,               \* max_referrals_per_user
  Depths,               \* max_chain_depth, from 1 to MAX_CHAIN_DEPTH
  MAX_CHAIN_DEPTH,
  LETTERS,              \* letters of codes
  Funds,                \* what the administrator deposits
  MaxTime               \* bound

VARIABLES
  now,        \* ledger timestamp
  bal,        \* balances of the reward token
  config,     \* DataKey::Config
  counter,    \* DataKey::CodeCounter
  code,       \* DataKey::ReferralCode(user)
  owner,      \* DataKey::CodeOwner(code)
  referrer,   \* DataKey::Referral(referee)
  count,      \* DataKey::ReferralCount(user)
  referees,   \* DataKey::ReferralsList(user)
  stats       \* DataKey::ReferralStats

vars == <<now, bal, config, counter, code, owner, referrer, count, referees, stats>>
codes == <<counter, code, owner>>
referrals == <<referrer, count, referees, stats>>

Codes == (0 .. LETTERS - 1) \X (0 .. LETTERS - 1)

Init ==
  /\ now = 0
  /\ bal = [a \in Users \cup {Self} |-> 0]
  /\ config = None
  /\ counter = 0
  /\ code = [u \in Users |-> None]
  /\ owner = [c \in Codes |-> None]
  /\ referrer = [u \in Users |-> None]
  /\ count = [u \in Users |-> 0]
  /\ referees = [u \in Users |-> {}]
  /\ stats = [total_referrals |-> 0, rewarded |-> 0, referrer_rewards |-> 0, referee_rewards |-> 0]

-----------------------------------------------------------------------------
(***************************************************************************)
(* Administration.                                                         *)
(***************************************************************************)
Depth(d) == IF d = 0 \/ d > MAX_CHAIN_DEPTH THEN MAX_CHAIN_DEPTH ELSE d

Config(referrer_reward, referee_reward, limit, depth) ==
  [referrer_reward |-> referrer_reward, referee_reward |-> referee_reward,
   max_referrals |-> limit, max_chain_depth |-> Depth(depth)]

\* initialize: the counter of codes starts again
Initialize(c) ==
  /\ config = None
  /\ config' = c
  /\ counter' = 0
  /\ UNCHANGED <<now, bal, code, owner, referrals>>

UpdateConfig(c) ==
  /\ config # None
  /\ config' = c
  /\ UNCHANGED <<now, bal, codes, referrals>>

DepositRewardTokens(n) ==
  /\ config # None
  /\ bal' = [bal EXCEPT ![Self] = @ + n]
  /\ UNCHANGED <<now, config, codes, referrals>>

-----------------------------------------------------------------------------
(***************************************************************************)
(* Codes and registrations.                                                *)
(***************************************************************************)
\* bytes_to_code: every byte of the counter and of the time picks a letter
BytesToCode(n, time) == <<n % LETTERS, time % LETTERS>>

\* What generate_referral_code stores, before or after the initialization.
Generated(u) ==
  LET c == BytesToCode(counter, now)
  IN /\ counter' = counter + 1
     /\ code' = [code EXCEPT ![u] = c]
     /\ owner' = [owner EXCEPT ![c] = u]
     /\ count' = [count EXCEPT ![u] = 0]
     /\ referees' = [referees EXCEPT ![u] = {}]
     /\ UNCHANGED <<now, bal, config, referrer, stats>>

\* Mutated form: a user may generate another code.
GenerateAgain(u) == counter < Cardinality(Users) /\ Generated(u)

GenerateReferralCode(u) == code[u] = None /\ Generated(u)

\* The user n referrals above u, None beyond the first of the chain.
Ancestor(u, n) ==
  LET up[k \in 0 .. n] == IF k = 0 THEN u
                          ELSE IF up[k - 1] = None THEN None ELSE referrer[up[k - 1]]
  IN up[n]

\* Whether the walk along the ancestors of u, of at most n hops, meets target.
Meets(u, target, n) == \E k \in 1 .. n : Ancestor(u, k) = target

\* distribute_rewards, which does nothing when the balance is too low
Rewarded == bal[Self] >= config.referrer_reward + config.referee_reward

DistributeRewards(r, u) ==
  LET owed == config.referrer_reward + config.referee_reward
  IN IF Rewarded
       THEN /\ bal' = [bal EXCEPT ![Self] = @ - owed, ![r] = @ + config.referrer_reward,
                                  ![u] = @ + config.referee_reward]
            /\ stats' = [total_referrals |-> stats.total_referrals + 1,
                         rewarded |-> stats.rewarded + 1,
                         referrer_rewards |-> stats.referrer_rewards + config.referrer_reward,
                         referee_rewards |-> stats.referee_rewards + config.referee_reward]
       ELSE stats' = [stats EXCEPT !.total_referrals = @ + 1] /\ UNCHANGED bal

RegisterWithReferralCode(u, c) ==
  LET r == owner[c]
  IN /\ config # None
     /\ referrer[u] = None
     /\ r # None /\ r # u
     /\ ~Meets(r, u, config.max_chain_depth)
     /\ count[r] < config.max_referrals
     /\ referrer' = [referrer EXCEPT ![u] = r]
     /\ count' = [count EXCEPT ![r] = @ + 1]
     /\ referees' = [referees EXCEPT ![r] = @ \cup {u}]
     /\ DistributeRewards(r, u)
     /\ UNCHANGED <<now, config, codes>>

Tick ==
  /\ now < MaxTime
  /\ now' = now + 1
  /\ UNCHANGED <<bal, config, codes, referrals>>

Next ==
  \/ \E a, b \in Rewards, l \in Limits, d \in Depths :
       Initialize(Config(a, b, l, d)) \/ UpdateConfig(Config(a, b, l, d))
  \/ \E n \in Funds : DepositRewardTokens(n)
  \/ \E u \in Users : GenerateReferralCode(u)
  \/ \E u \in Users, c \in Codes : RegisterWithReferralCode(u, c)
  \/ Tick

Spec == Init /\ [][Next]_vars

-----------------------------------------------------------------------------
\* Every referral is counted and listed for its referrer, although generating
\* a code resets both, what was paid is in the statistics, and referrals make
\* no cycle that a walk of the smallest depth would meet, while codes collide,
\* limits change and users register in any order.
ReferralBooks ==
  LET least == CHOOSE d \in {Depth(x) : x \in Depths} : \A x \in Depths : d <= Depth(x)
  IN /\ \A u \in Users : /\ referees[u] = {v \in Users : referrer[v] = u}
                         /\ count[u] = Cardinality(referees[u])
     /\ stats.total_referrals = Cardinality({u \in Users : referrer[u] # None})
     /\ Total([u \in Users |-> bal[u]]) = stats.referrer_rewards + stats.referee_rewards
     /\ \A u \in Users, n \in 1 .. least + 1 : Ancestor(u, n) # u

=============================================================================
