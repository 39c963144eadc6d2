----------------------------- MODULE MCCustody -----------------------------
(***************************************************************************)
(* Instance for TLC of the contracts that hold what their users pay in     *)
(* until it is decided whose it is, and of those by which they pay one     *)
(* another.  Each behaviour runs one of them, chosen in the initial state: *)
(* the auctions, the crowdfunding or the insurance pool, by the same       *)
(* clock, or the tips or the hints.                                        *)
(*                                                                         *)
(* The second part of the module proves, for any accounts, lots, plans and *)
(* configurations, what the run checks of the three; see Custody for what  *)
(* a custodian promises and TokenUnitsProofs for the sums.  The third part *)
(* proves what it checks of the tips and the hints, whose constants are    *)
(* parameters: records of the values, by their names there.                *)
(***************************************************************************)
EXTENDS Auction, TokenUnitsProofs, TLC

CONSTANTS
  ann, bob, boss, vault, gold, sword,
  Plans, Amounts, MaxCampaigns,
  Covered, DEFAULT_CONFIG, Rates, Ratios, Limits, Coverages, Periods, SECONDS_PER_DAY,
  BASIS_POINTS, YEAR, LOOKBACK, MIN_RESERVE, CLAIM_LIMIT, POOL_LIMIT, HIGH_RISK, MaxClaims,
  PoolBalance, PoolMaxTime,            \* InitBalance and MaxTime of the insurance pool
  cat, dan, eve, OfSocialTipping, OfHintMarketplace

VARIABLES
  contract,                            \* which one runs
  fundBal, initialized, nextId, campaign,
  poolBal, config, policy, claim, pool, reserve, risk,
  \* the tips and the hints, 0 where it is not of the contract that runs: by
  \* other names the ledger timestamp, the balances, the Config and TipHistory
  clock, tokens, settings, tipper, recipient, log, daily, top_tippers, top_recipients, hint,
  metrics, price_history, rating, listing, active_listings, pack

Crowdfund == INSTANCE PuzzleCrowdfund WITH bal <- fundBal, Backers <- Bidders
Insurance == INSTANCE InsurancePool WITH bal <- poolBal, InitBalance <- PoolBalance,
               MaxTime <- PoolMaxTime,
               Payers <- Bidders, Admin <- boss

SocialTipping == INSTANCE SocialTipping WITH
  now <- clock, bal <- tokens, config <- settings, history <- log,
  Users <- OfSocialTipping.Users, Configs <- OfSocialTipping.Configs,
  Amounts <- OfSocialTipping.Amounts, DAY <- OfSocialTipping.DAY,
  InitBalance <- OfSocialTipping.InitBalance, Start <- OfSocialTipping.Start,
  MaxTips <- OfSocialTipping.MaxTips, MaxTime <- OfSocialTipping.MaxTime

HintMarketplace == INSTANCE HintMarketplace WITH
  now <- clock, bal <- tokens, config <- settings, Users <- OfHintMarketplace.Users,
  Configs <- OfHintMarketplace.Configs, Qualities <- OfHintMarketplace.Qualities,
  BasePrices <- OfHintMarketplace.BasePrices, Durations <- OfHintMarketplace.Durations,
  Royalties <- OfHintMarketplace.Royalties, PackPrices <- OfHintMarketplace.PackPrices,
  Expirations <- OfHintMarketplace.Expirations, Ratings <- OfHintMarketplace.Ratings,
  HISTORY <- OfHintMarketplace.HISTORY, MaxPackHints <- OfHintMarketplace.MaxPackHints,
  InitBalance <- OfHintMarketplace.InitBalance, MaxHints <- OfHintMarketplace.MaxHints,
  MaxListings <- OfHintMarketplace.MaxListings, MaxPacks <- OfHintMarketplace.MaxPacks,
  MaxSales <- OfHintMarketplace.MaxSales, MaxTime <- OfHintMarketplace.MaxTime

auctionVars == <<bal, holder, count, auction, sealed>>
fundVars == <<fundBal, initialized, nextId, campaign>>
poolVars == <<poolBal, config, policy, claim, pool, reserve, risk>>
tradeVars == <<clock, tokens, settings, tipper, recipient, log, daily, top_tippers,
               top_recipients, hint, metrics, price_history, rating, listing, active_listings,
               pack>>

\* The tips and the hints share no storage: what is not of the one that runs.
OthersAbsent ==
  /\ contract # "social_tipping" => tipper = 0 /\ recipient = 0 /\ log = 0 /\ daily = 0
         /\ top_tippers = 0 /\ top_recipients = 0
  /\ contract # "hint_marketplace" => hint = 0 /\ metrics = 0 /\ price_history = 0 /\ rating = 0
         /\ listing = 0 /\ active_listings = 0 /\ pack = 0
  /\ contract \notin {"social_tipping", "hint_marketplace"} => clock = 0 /\ tokens = 0
         /\ settings = 0

OthersStay ==
  /\ contract # "social_tipping" => UNCHANGED <<tipper, recipient, log, daily, top_tippers,
         top_recipients>>
  /\ contract # "hint_marketplace" => UNCHANGED <<hint, metrics, price_history, rating,
         listing, active_listings, pack>>
  /\ contract \notin {"social_tipping", "hint_marketplace"} => UNCHANGED clock

MCInit ==
  /\ Init /\ Crowdfund!Init /\ Insurance!Init
  /\ \/ contract \in {"auction", "puzzle_crowdfund", "insurance_pool"}
     \/ contract = "social_tipping" /\ SocialTipping!Init
     \/ contract = "hint_marketplace" /\ HintMarketplace!Init
  /\ OthersAbsent

TradesNext ==
  \/ contract = "social_tipping" /\ SocialTipping!Next
  \/ contract = "hint_marketplace" /\ HintMarketplace!Next

MCNext ==
  \/ contract = "auction" /\ Next /\ UNCHANGED <<contract, fundVars, poolVars, tradeVars>>
  \/ contract = "puzzle_crowdfund" /\ Crowdfund!Next
     /\ UNCHANGED <<contract, auctionVars, poolVars, tradeVars>>
  \/ contract = "insurance_pool" /\ Insurance!Next
     /\ UNCHANGED <<contract, auctionVars, fundVars, tradeVars>>
  \/ TradesNext /\ OthersStay /\ UNCHANGED <<contract, now, auctionVars, fundVars, poolVars>>

MCSpec == MCInit /\ [][MCNext]_<<contract, now, auctionVars, fundVars, poolVars, tradeVars>>

-----------------------------------------------------------------------------
MCLot(type, start, end) ==
  [seller |-> boss, item |-> sword, token |-> gold, auction_type |-> type,
   settings |-> [starting_price |-> IF type = "Dutch" THEN 3 ELSE 1, reserve_price |-> 1,
                 start_time |-> start, end_time |-> end, min_bid_increment |-> 1,
                 reveal_end_time |-> end + 1]]

MCLots == {MCLot("English", 0, 1), MCLot("Dutch", 0, 2), MCLot("SealedBid", 0, 1)}

\* A campaign of two milestones and one with a stretch goal, and one that is
\* refused: it promises more than its last target.
MCPlan(goal, stretch, payouts) ==
  [creator |-> boss, goal_amount |-> goal, deadline |-> 1, stretch_goals |-> stretch,
   payouts |-> payouts]

MCPlans == {MCPlan(2, <<>>, <<1, 1>>), MCPlan(1, <<3>>, <<3>>), MCPlan(1, <<>>, <<2>>)}

MCDefaultConfig ==
  [base_premium_rate |-> 2, min_coverage_period |-> 1, max_coverage_period |-> 2,
   max_coverage_amount |-> 2, reserve_ratio |-> 2, max_payout_ratio |-> 2, paused |-> FALSE]
MCLimits == {[min_period |-> 2, max_period |-> 2, max_amount |-> 1]}

\* social_tipping
TipConfig(cooldown) ==
  [max_tip_per_transaction |-> 2, max_tips_per_day |-> 2, cooldown_seconds |-> cooldown,
   max_batch_size |-> 2]

MCSocialTipping ==
  [Users |-> {eve, dan, cat}, Configs |-> {TipConfig(0), TipConfig(2)}, Amounts |-> {1, 2}, DAY |-> 3,
   InitBalance |-> 2, Start |-> 1, MaxTips |-> 3, MaxTime |-> 3]

SocialTippingSmall ==
  /\ clock > 1 => settings # None /\ tipper[eve].tip_count > 0
  /\ tipper[cat].tip_count = 0 /\ tipper[dan].tip_count <= 1
  /\ tipper[dan].tip_count = 1 => clock <= 2

\* hint_marketplace: the hints are eve's
MarketConfig(fee, quality) ==
  [fee_recipient |-> cat, fee_bps |-> fee, min_listing_duration |-> 1, max_listing_duration |-> 1,
   price_adjustment_factor |-> 5000, min_quality_for_listing |-> quality]

MCHintMarketplace ==
  [Users |-> {eve, dan, cat}, Configs |-> {MarketConfig(1000, 2), MarketConfig(6000, 4)},
   Qualities |-> {4}, BasePrices |-> {10}, Durations |-> {1}, Royalties |-> {1000}, PackPrices |-> {7},
   Expirations |-> {1}, Ratings |-> {2, 5}, HISTORY |-> 1, MaxPackHints |-> 2, InitBalance |-> 30,
   MaxHints |-> 1, MaxListings |-> 2, MaxPacks |-> 1, MaxSales |-> 3, MaxTime |-> 2]

HintMarketplaceSmall ==
  /\ \A h \in DOMAIN hint :
       /\ hint[h].creator = eve /\ hint[h].rating_count <= 2
       /\ hint[h].rating_count > 0 => Len(pack) = 0 /\ rating[1][cat] = None
  /\ \A h \in DOMAIN listing : listing[h].seller = eve
  /\ settings.fee_bps = 6000 => Len(listing) = 1
  /\ clock > 0 => Len(listing) + Len(pack) > 0
  /\ Len(listing) + Len(pack) <= 2

\* The insurance pool is followed with one change of its configuration at most
\* and with a second claim only under the first one, with two risk levels, with
\* up to two tokens in the pool, and with a reserve that the rounding of
\* withdrawals has not taken below zero.
Changes == {f \in DOMAIN MCDefaultConfig : config[f] # MCDefaultConfig[f]}

Bounded ==
  /\ config # None => Cardinality(Changes) + Len(claim) <= 2
  /\ reserve \in 0 .. 2 /\ pool <= 2
  /\ \A c \in Covered : risk[c] # None => risk[c].level \in {"Medium", "High"}
  /\ contract = "social_tipping" => SocialTippingSmall
  /\ contract = "hint_marketplace" => HintMarketplaceSmall

BidderSymmetry == Permutations(Bidders)

-----------------------------------------------------------------------------
\* The three keep custody of what is paid in: every step of each is a deposit
\* or a discharge of Custody, or a stutter.
AllCustodians == Custodian /\ Crowdfund!Custodian /\ Insurance!Custodian

\* puzzle_crowdfund: a campaign pays its milestones or refunds its backers,
\* never both, and its totals are those of its backers and milestones.
CampaignBooks == Crowdfund!CampaignBooks

\* The tips and the hints: what the contract shows of its users agrees with
\* what was paid.  Totals, counts and leaderboards are those of the tips given,
\* within the limits; demand and quality of a hint are those of its sales and
\* ratings, and the prices kept of it are prices of its sales.
TradesBooked ==
  /\ contract = "social_tipping" => SocialTipping!TipsBooked
  /\ contract = "hint_marketplace" => HintMarketplace!SalesAndRatings

\* What is kept of campaigns, tips and sales adds up.
AllBooks == CampaignBooks /\ TradesBooked

\* insurance_pool: a claim is decided once and paid once.
ClaimsPaidOnce == Insurance!ClaimsPaidOnce

-----------------------------------------------------------------------------
(***************************************************************************)
(* Proofs.  The assumptions are what the code takes for granted: i128 and  *)
(* u64 arguments, no account that is the contract itself, one payment      *)
(* token for the crowdfunding and for the pool.                            *)
(***************************************************************************)
Balances == [Token -> [Account -> Nat]]

\* The contract is none of the accounts that call it.
ASSUME AccountsAssumption ==
  /\ Bidders \subseteq Addr /\ Self \notin Addr /\ None \notin Addr
  /\ InitBalance \in Nat /\ PoolBalance \in Nat
  /\ Amounts \subseteq Int /\ Bids \subseteq Int

\* Auctions: what create_auction is called with.
Lot == [seller : Addr, item : Item, token : Token, auction_type : AuctionType,
        settings : [starting_price : Int, reserve_price : Int, start_time : Nat, end_time : Nat,
                    min_bid_increment : Int, reveal_end_time : Nat]]

\* Lots and bounds of the auctions.
ASSUME LotsAssumption ==
  /\ Lots \subseteq Lot /\ Extension \in Nat /\ MaxAuctions \in Nat

\* Campaigns: what create_campaign is called with.
Plan == [creator : Addr, goal_amount : Int, deadline : Nat, stretch_goals : Seq(Int),
         payouts : Seq(Int)]

\* Plans, backers and the one token of the crowdfunding.
ASSUME PlansAssumption ==
  /\ Plans \subseteq Plan /\ MaxCampaigns \in Nat
  /\ IsFiniteSet(Bidders)
  /\ \E coin \in Token : Token = {coin}

\* The insurance pool: its configuration and what its functions are called with.
Config ==
  [base_premium_rate : Int, min_coverage_period : Nat, max_coverage_period : Nat,
   max_coverage_amount : Int, reserve_ratio : 0 .. BASIS_POINTS,
   max_payout_ratio : 0 .. BASIS_POINTS, paused : BOOLEAN]

\* What initialize stores and what the functions of the pool are called with.
ASSUME InsuranceAssumption ==
  /\ boss \in Addr
  /\ SECONDS_PER_DAY \in Nat \ {0} /\ BASIS_POINTS \in Nat \ {0} /\ YEAR \in Nat \ {0}
  /\ DEFAULT_CONFIG \in Config /\ None \notin Config
  /\ Rates \subseteq Int /\ Ratios \subseteq Nat
  /\ Limits \subseteq [min_period : Nat, max_period : Nat, max_amount : Int]
  /\ Coverages \subseteq Int /\ Periods \subseteq Nat

-----------------------------------------------------------------------------
(***************************************************************************)
(* Auctions.                                                               *)
(***************************************************************************)
Contest ==
  [exists : {TRUE}, seller : Addr, item : Item, token : Token, auction_type : AuctionType,
   settings : [starting_price : Int, reserve_price : Int, start_time : Nat, end_time : Nat,
               min_bid_increment : Int, reveal_end_time : Nat],
   highest_bidder : Bidders \cup {None}, current_bid : Nat, settled : BOOLEAN]

\* The types of the auctions; those that were not created are empty.
AuctionTypes ==
  /\ now \in Nat /\ bal \in Balances /\ count \in 0 .. MaxAuctions
  /\ auction \in [Ids -> Contest \cup {NoAuction}]
  /\ \A id \in Ids : id > count => auction[id] = NoAuction

\* A Dutch auction that has a buyer is settled.
Sold(x) == x.exists /\ x.auction_type = "Dutch" /\ x.highest_bidder # None => x.settled

\* What the contract holds of token t for an auction, what account a has paid
\* for it, and what a was paid for it as its seller.
HeldFor(x, t) ==
  IF /\ x.exists /\ x.token = t /\ x.highest_bidder # None
     /\ ~x.settled \/ x.auction_type = "Dutch"
    THEN x.current_bid ELSE 0
PaidFor(x, t, a) ==
  IF x.exists /\ x.token = t /\ x.highest_bidder = a THEN x.current_bid ELSE 0
EarnedBy(x, t, a) ==
  IF x.exists /\ x.token = t /\ x.highest_bidder # None /\ x.seller = a
    THEN x.current_bid - HeldFor(x, t) ELSE 0

\* The auction id becomes x, and the balances follow.
Booked(id, x) ==
  /\ x \in Contest /\ Sold(x)
  /\ auction[id].exists => auction[id].token = x.token
  /\ auction' = [auction EXCEPT ![id] = x]
  /\ bal' \in Balances
  /\ \A t \in Token :
       /\ bal'[t][Self] - bal[t][Self] = HeldFor(x, t) - HeldFor(auction[id], t)
       /\ \A a \in Addr :
            bal'[t][a] - bal[t][a] =
              (PaidFor(auction[id], t, a) - PaidFor(x, t, a))
              + (EarnedBy(x, t, a) - EarnedBy(auction[id], t, a))

\* The auctions between calls.
AuctionInv == AuctionTypes /\ \A id \in Ids : Sold(auction[id])

\* A transfer takes an amount from one account to another.
LEMMA MoveFacts ==
  ASSUME NEW b \in [Account -> Nat], NEW from \in Account, NEW to \in Account, from # to,
         NEW m \in Nat, b[from] >= m
  PROVE  /\ Move(b, from, to, m) \in [Account -> Nat]
         /\ \A a \in Account :
              Move(b, from, to, m)[a] =
                IF a = from THEN b[a] - m ELSE IF a = to THEN b[a] + m ELSE b[a]
BY DEF Move

\* A bid that takes over a standing one.
LEMMA TakeOverFacts ==
  ASSUME AuctionInv, NEW id \in Ids, auction[id] \in Contest, NEW b \in Bidders, NEW n \in Int,
         TakeOver(id, b, n)
  PROVE  LET x == auction[id]
         IN /\ n \in Nat
            /\ bal' \in Balances
            /\ \A t \in Token \ {x.token} : bal'[t] = bal[t]
            /\ bal'[x.token][Self] =
                 (IF x.highest_bidder = None THEN bal[x.token][Self]
                  ELSE bal[x.token][Self] - x.current_bid) + n
            /\ \A a \in Addr :
                 bal'[x.token][a] =
                   (IF a = x.highest_bidder THEN bal[x.token][a] + x.current_bid
                    ELSE bal[x.token][a]) - (IF a = b THEN n ELSE 0)
<1> DEFINE x == auction[id]
           t == x.token
           old == bal[t]
           back == IF x.highest_bidder = None THEN old
                   ELSE Move(old, Self, x.highest_bidder, x.current_bid)
<1>1. /\ t \in Token /\ x.highest_bidder \in Bidders \cup {None} /\ x.current_bid \in Nat
      /\ old \in [Account -> Nat] /\ bal \in Balances
  BY DEF AuctionInv, AuctionTypes, Contest, Balances
<1>2. /\ x.highest_bidder # None => old[Self] >= x.current_bid
      /\ n \in Nat /\ back[b] >= n
      /\ bal' = [bal EXCEPT ![t] = Move(back, b, Self, n)]
  BY DEF TakeOver
<1>3. Self \in Account /\ b \in Account /\ b # Self /\ Addr \subseteq Account /\ Self \notin Addr
        /\ Bidders \subseteq Addr /\ None \notin Addr
  BY AccountsAssumption DEF Account
<1> HIDE DEF x
<1>4. /\ back \in [Account -> Nat]
      /\ \A a \in Account :
           back[a] = IF x.highest_bidder = None THEN old[a]
                     ELSE IF a = Self THEN old[a] - x.current_bid
                     ELSE IF a = x.highest_bidder THEN old[a] + x.current_bid ELSE old[a]
  <2>1. CASE x.highest_bidder = None
    BY <2>1, <1>1
  <2>2. CASE x.highest_bidder # None
    <3> DEFINE h == x.highest_bidder
               m == x.current_bid
    <3>1. h \in Account /\ h # Self /\ m \in Nat /\ old[Self] >= m
      BY <2>2, <1>1, <1>2, <1>3
    <3> HIDE DEF old, h, m
    <3>2. /\ Move(old, Self, h, m) \in [Account -> Nat]
          /\ \A a \in Account : Move(old, Self, h, m)[a] =
                IF a = Self THEN old[a] - m ELSE IF a = h THEN old[a] + m ELSE old[a]
      BY <3>1, <1>1, <1>3, MoveFacts
    <3> QED BY <2>2, <3>2 DEF h, m
  <2> QED BY <2>1, <2>2
<1> HIDE DEF back, old
<1>5. /\ Move(back, b, Self, n) \in [Account -> Nat]
      /\ \A a \in Account : Move(back, b, Self, n)[a] =
            IF a = b THEN back[a] - n ELSE IF a = Self THEN back[a] + n ELSE back[a]
  BY <1>2, <1>3, <1>4, MoveFacts
<1>6. PICK new \in [Account -> Nat] : new = Move(back, b, Self, n)
  BY <1>5
<1>7. bal' = [bal EXCEPT ![t] = new]
  BY <1>2, <1>6
<1>8. bal' \in Balances /\ bal'[t] = new /\ \A u \in Token \ {t} : bal'[u] = bal[u]
  BY <1>1, <1>7 DEF Balances
<1>9. \A a \in Account : new[a] = IF a = b THEN back[a] - n
                                  ELSE IF a = Self THEN back[a] + n ELSE back[a]
  BY <1>5, <1>6
<1>10. new[Self] = (IF x.highest_bidder = None THEN old[Self] ELSE old[Self] - x.current_bid) + n
  BY <1>3, <1>4, <1>9
<1>11. \A a \in Addr : new[a] = (IF a = x.highest_bidder THEN old[a] + x.current_bid ELSE old[a])
                                 - (IF a = b THEN n ELSE 0)
  <2> TAKE a \in Addr
  <2>1. a \in Account /\ a # Self /\ a # None
    BY <1>3
  <2>2. old[a] \in Nat /\ back[a] \in Nat
    BY <1>1, <1>4, <2>1
  <2>3. back[a] = IF a = x.highest_bidder THEN old[a] + x.current_bid ELSE old[a]
    BY <1>4, <2>1
  <2>4. new[a] = IF a = b THEN back[a] - n ELSE back[a]
    BY <1>9, <2>1
  <2> QED BY <2>2, <2>3, <2>4
<1> QED BY <1>2, <1>8, <1>10, <1>11 DEF x, old

\* A bid books what it takes over.
LEMMA TakeOverBooked ==
  ASSUME AuctionInv, NEW id \in Ids, auction[id] \in Contest,
         ~auction[id].settled, auction[id].auction_type # "Dutch",
         NEW b \in Bidders, NEW n \in Int, TakeOver(id, b, n),
         NEW x \in Contest, x.token = auction[id].token, x.seller = auction[id].seller,
         x.auction_type = auction[id].auction_type, x.settled = auction[id].settled,
         x.highest_bidder = b, x.current_bid = n, auction' = [auction EXCEPT ![id] = x]
  PROVE  Booked(id, x)
<1> DEFINE o == auction[id]
           t == o.token
<1>1. /\ n \in Nat /\ bal' \in Balances
      /\ \A u \in Token \ {t} : bal'[u] = bal[u]
      /\ bal'[t][Self] = (IF o.highest_bidder = None THEN bal[t][Self]
                          ELSE bal[t][Self] - o.current_bid) + n
      /\ \A a \in Addr : bal'[t][a] =
           (IF a = o.highest_bidder THEN bal[t][a] + o.current_bid ELSE bal[t][a])
             - (IF a = b THEN n ELSE 0)
  BY TakeOverFacts
<1>2. /\ o.exists /\ x.exists /\ o.current_bid \in Nat /\ t \in Token
      /\ o.highest_bidder \in Bidders \cup {None}
  BY DEF Contest
<1>3. b # None /\ Bidders \subseteq Addr /\ None \notin Addr /\ Self \in Account /\ Addr \subseteq Account
  BY AccountsAssumption DEF Account
<1>4. \A u \in Token, a \in Account : bal[u][a] \in Nat /\ bal'[u][a] \in Nat
  BY <1>1 DEF AuctionInv, AuctionTypes, Balances
<1> HIDE DEF o
<1>5. ASSUME NEW u \in Token, u # t
      PROVE  /\ HeldFor(x, u) = 0 /\ HeldFor(o, u) = 0
             /\ \A a \in Addr : /\ PaidFor(x, u, a) = 0 /\ PaidFor(o, u, a) = 0
                                /\ EarnedBy(x, u, a) = 0 /\ EarnedBy(o, u, a) = 0
  BY <1>5 DEF HeldFor, PaidFor, EarnedBy, o
<1>6. /\ HeldFor(x, t) = n
      /\ HeldFor(o, t) = IF o.highest_bidder = None THEN 0 ELSE o.current_bid
  BY <1>2, <1>3 DEF HeldFor, o
<1>7. \A a \in Addr : /\ PaidFor(x, t, a) = IF a = b THEN n ELSE 0
                      /\ PaidFor(o, t, a) = IF a = o.highest_bidder THEN o.current_bid ELSE 0
                      /\ EarnedBy(x, t, a) = 0 /\ EarnedBy(o, t, a) = 0
  BY <1>1, <1>2, <1>3, <1>6 DEF PaidFor, EarnedBy, o
<1>8. ASSUME NEW u \in Token
      PROVE  /\ bal'[u][Self] - bal[u][Self] = HeldFor(x, u) - HeldFor(o, u)
             /\ \A a \in Addr :
                  bal'[u][a] - bal[u][a] = (PaidFor(o, u, a) - PaidFor(x, u, a))
                                            + (EarnedBy(x, u, a) - EarnedBy(o, u, a))
  <2>1. CASE u # t
    <3>1. bal'[u] = bal[u]
      BY <1>1, <2>1
    <3>2. ASSUME NEW a \in Account PROVE bal'[u][a] - bal[u][a] = 0
      BY <1>4, <3>1, <3>2
    <3> QED BY <1>3, <1>5, <2>1, <3>2
  <2>2. CASE u = t
    <3>1. bal[t][Self] \in Nat
      BY <1>2, <1>3, <1>4
    <3>2. bal'[t][Self] - bal[t][Self] = HeldFor(x, t) - HeldFor(o, t)
      BY <1>1, <1>2, <1>6, <3>1
    <3>3. ASSUME NEW a \in Addr
          PROVE  bal'[t][a] - bal[t][a] = (PaidFor(o, t, a) - PaidFor(x, t, a))
                                            + (EarnedBy(x, t, a) - EarnedBy(o, t, a))
      <4>1. bal[t][a] \in Nat
        BY <1>2, <1>3, <1>4
      <4>2. bal'[t][a] = (IF a = o.highest_bidder THEN bal[t][a] + o.current_bid ELSE bal[t][a])
                           - (IF a = b THEN n ELSE 0)
        BY <1>1
      <4> QED BY <1>1, <1>2, <1>7, <4>1, <4>2
    <3> QED BY <2>2, <3>2, <3>3
  <2> QED BY <2>1, <2>2
<1>9. Sold(x)
  BY DEF Sold
<1> QED BY <1>1, <1>8, <1>9 DEF Booked, o

\* place_bid
LEMMA PlaceBidBooked ==
  ASSUME AuctionInv, NEW id \in Ids, NEW b \in Bidders, NEW n \in Bids, PlaceBid(id, b, n)
  PROVE  \E x \in Contest : Booked(id, x)
<1> DEFINE o == auction[id]
           s == o.settings
           late == [s EXCEPT !.end_time = IF s.end_time - now < Extension THEN now + Extension
                                          ELSE s.end_time]
           x == [o EXCEPT !.settings = late, !.highest_bidder = b, !.current_bid = n]
<1>1. n \in Int /\ Extension \in Nat /\ now \in Nat
  BY AccountsAssumption, LotsAssumption DEF AuctionInv, AuctionTypes
<1>2. /\ o.exists /\ o.auction_type = "English" /\ ~o.settled /\ TakeOver(id, b, n)
      /\ auction' = [auction EXCEPT
          ![id].settings.end_time = IF @ - now < Extension THEN now + Extension ELSE @,
          ![id].highest_bidder = b,
          ![id].current_bid = n]
  BY DEF PlaceBid
<1>3. o \in Contest
  BY <1>2 DEF AuctionInv, AuctionTypes, NoAuction
<1>4. n \in Nat
  BY <1>1, <1>2 DEF TakeOver
<1>5. late \in [starting_price : Int, reserve_price : Int, start_time : Nat, end_time : Nat,
                min_bid_increment : Int, reveal_end_time : Nat]
  <2>1. s \in [starting_price : Int, reserve_price : Int, start_time : Nat, end_time : Nat,
               min_bid_increment : Int, reveal_end_time : Nat]
    BY <1>3 DEF Contest
  <2> DEFINE end == IF s.end_time - now < Extension THEN now + Extension ELSE s.end_time
  <2>2. end \in Nat
    BY <1>1, <2>1
  <2> HIDE DEF s, end
  <2>3. late = [s EXCEPT !.end_time = end]
    BY DEF end
  <2> HIDE DEF late
  <2> QED BY <2>1, <2>2, <2>3
<1>6. /\ x \in Contest /\ x.token = o.token /\ x.seller = o.seller
      /\ x.auction_type = o.auction_type /\ x.settled = o.settled
      /\ x.highest_bidder = b /\ x.current_bid = n
  <2> HIDE DEF late
  <2> QED BY <1>3, <1>4, <1>5 DEF Contest
<1>7. auction' = [auction EXCEPT ![id] = x]
  BY <1>2, <1>3 DEF Contest, AuctionInv, AuctionTypes
<1> QED
  <2> HIDE DEF x
  <2>1. Booked(id, x)
    BY <1>1, <1>2, <1>3, <1>6, <1>7, TakeOverBooked
  <2> QED BY <1>6, <2>1

\* reveal_sealed_bid, when the bid wins
LEMMA RevealBooked ==
  ASSUME AuctionInv, NEW id \in Ids, NEW b \in Bidders, NEW n \in Bids,
         RevealSealedBid(id, b, n)
  PROVE  \/ UNCHANGED <<bal, auction>>
         \/ \E x \in Contest : Booked(id, x)
<1> DEFINE o == auction[id]
           x == [o EXCEPT !.highest_bidder = b, !.current_bid = n]
<1>1. n \in Int
  BY AccountsAssumption
<1>2. /\ o.exists /\ o.auction_type = "SealedBid" /\ ~o.settled
      /\ \/ UNCHANGED <<bal, auction>>
         \/ /\ TakeOver(id, b, n)
            /\ auction' = [auction EXCEPT ![id].highest_bidder = b, ![id].current_bid = n]
  BY DEF RevealSealedBid
<1>3. o \in Contest
  BY <1>2 DEF AuctionInv, AuctionTypes, NoAuction
<1>4. ASSUME TakeOver(id, b, n),
             auction' = [auction EXCEPT ![id].highest_bidder = b, ![id].current_bid = n]
      PROVE  \E y \in Contest : Booked(id, y)
  <2>1. n \in Nat
    BY <1>1, <1>4 DEF TakeOver
  <2>2. /\ x \in Contest /\ x.token = o.token /\ x.seller = o.seller
        /\ x.auction_type = o.auction_type /\ x.settled = o.settled
        /\ x.highest_bidder = b /\ x.current_bid = n
    BY <1>3, <2>1 DEF Contest
  <2>3. auction' = [auction EXCEPT ![id] = x]
    BY <1>3, <1>4 DEF Contest, AuctionInv, AuctionTypes
  <2> HIDE DEF x
  <2>4. Booked(id, x)
    BY <1>1, <1>2, <1>3, <1>4, <2>2, <2>3, TakeOverBooked
  <2> QED BY <2>2, <2>4
<1> QED BY <1>2, <1>4

\* One transfer of m between the contract and an account, for an auction that
\* becomes x.
LEMMA BuyDutchBooked ==
  ASSUME AuctionInv, NEW id \in Ids, NEW b \in Bidders, NEW n \in Bids, BuyDutch(id, b, n)
  PROVE  \E x \in Contest : Booked(id, x)
<1> DEFINE o == auction[id]
           t == o.token
           price == DutchPrice(o.settings)
           x == [o EXCEPT !.highest_bidder = b, !.current_bid = price, !.settled = TRUE]
           old == bal[t]
<1>1. /\ o.exists /\ o.auction_type = "Dutch" /\ ~o.settled
      /\ price \in 0 .. n /\ old[b] >= price
      /\ bal' = [bal EXCEPT ![t] = Move(old, b, Self, price)]
      /\ auction' = [auction EXCEPT ![id].highest_bidder = b, ![id].current_bid = price,
                                    ![id].settled = TRUE]
  BY DEF BuyDutch
<1>2. o \in Contest /\ o.highest_bidder = None
  <2>1. o \in Contest
    BY <1>1 DEF AuctionInv, AuctionTypes, NoAuction
  <2> QED BY <1>1, <2>1 DEF AuctionInv, Sold
<1>3. price \in Nat
  BY <1>1
<1> HIDE DEF price
<1>4. /\ b # Self /\ b # None /\ Self \notin Addr /\ None \notin Addr /\ b \in Account
      /\ Self \in Account /\ Addr \subseteq Account
  BY AccountsAssumption DEF Account
<1>5. t \in Token /\ old \in [Account -> Nat] /\ bal \in Balances
  BY <1>2 DEF AuctionInv, AuctionTypes, Contest, Balances
<1>6. /\ x \in Contest /\ x.token = t /\ x.seller = o.seller /\ x.exists
      /\ x.auction_type = "Dutch" /\ x.settled
      /\ x.highest_bidder = b /\ x.current_bid = price
  BY <1>1, <1>2, <1>3 DEF Contest
<1>7. auction' = [auction EXCEPT ![id] = x]
  BY <1>1, <1>2 DEF Contest, AuctionInv, AuctionTypes
<1> HIDE DEF x, o, old
<1>8. PICK new \in [Account -> Nat] : new = Move(old, b, Self, price)
  BY <1>1, <1>3, <1>4, <1>5, MoveFacts
<1>9. \A a \in Account : new[a] = IF a = b THEN old[a] - price
                                  ELSE IF a = Self THEN old[a] + price ELSE old[a]
  BY <1>1, <1>3, <1>4, <1>5, <1>8, MoveFacts
<1>10. bal' \in Balances /\ bal'[t] = new /\ \A u \in Token \ {t} : bal'[u] = bal[u]
  BY <1>1, <1>5, <1>8 DEF Balances
<1>11. ASSUME NEW u \in Token, u # t
       PROVE  /\ HeldFor(x, u) = 0 /\ HeldFor(o, u) = 0
              /\ \A a \in Addr : /\ PaidFor(x, u, a) = 0 /\ PaidFor(o, u, a) = 0
                                 /\ EarnedBy(x, u, a) = 0 /\ EarnedBy(o, u, a) = 0
  BY <1>6, <1>11 DEF HeldFor, PaidFor, EarnedBy
<1>12. HeldFor(x, t) = price /\ HeldFor(o, t) = 0
  BY <1>2, <1>4, <1>6 DEF HeldFor
<1>13. \A a \in Addr : /\ PaidFor(x, t, a) = IF a = b THEN price ELSE 0
                       /\ PaidFor(o, t, a) = 0
                       /\ EarnedBy(x, t, a) = 0 /\ EarnedBy(o, t, a) = 0
  BY <1>2, <1>3, <1>4, <1>6, <1>12 DEF PaidFor, EarnedBy
<1>14. ASSUME NEW u \in Token
       PROVE  /\ bal'[u][Self] - bal[u][Self] = HeldFor(x, u) - HeldFor(o, u)
              /\ \A a \in Addr :
                   bal'[u][a] - bal[u][a] = (PaidFor(o, u, a) - PaidFor(x, u, a))
                                             + (EarnedBy(x, u, a) - EarnedBy(o, u, a))
  <2>1. CASE u # t
    <3>1. bal'[u] = bal[u] /\ bal[u] \in [Account -> Nat]
      BY <1>5, <1>10, <2>1 DEF Balances
    <3>2. ASSUME NEW a \in Account PROVE bal'[u][a] - bal[u][a] = 0
      BY <3>1, <3>2
    <3> QED BY <1>4, <1>11, <2>1, <3>2
  <2>2. CASE u = t
    <3>1. ASSUME NEW a \in Addr
          PROVE  bal'[t][a] - bal[t][a] = 0 - (IF a = b THEN price ELSE 0)
      <4>1. old[a] \in Nat /\ a # Self /\ a \in Account
        BY <1>4, <1>5
      <4> QED BY <1>3, <1>9, <1>10, <4>1 DEF old
    <3>2. bal'[t][Self] - bal[t][Self] = price
      <4>1. old[Self] \in Nat
        BY <1>4, <1>5
      <4> QED BY <1>3, <1>4, <1>9, <1>10, <4>1 DEF old
    <3>3. ASSUME NEW a \in Addr
          PROVE  bal'[t][a] - bal[t][a] = (PaidFor(o, t, a) - PaidFor(x, t, a))
                                            + (EarnedBy(x, t, a) - EarnedBy(o, t, a))
      BY <1>3, <1>13, <3>1
    <3> QED BY <1>3, <1>12, <2>2, <3>2, <3>3
  <2> QED BY <2>1, <2>2
<1>15. Sold(x)
  BY <1>6 DEF Sold
<1>16. Booked(id, x)
  BY <1>6, <1>7, <1>10, <1>14, <1>15 DEF Booked, o
<1> QED BY <1>6, <1>16

\* settle_auction: the seller is paid what the contract held.
LEMMA SettleBooked ==
  ASSUME AuctionInv, NEW id \in Ids, SettleAuction(id)
  PROVE  \E x \in Contest : Booked(id, x)
<1> DEFINE o == auction[id]
           t == o.token
           m == o.current_bid
           x == [o EXCEPT !.settled = TRUE]
           old == bal[t]
           won == o.highest_bidder # None
<1>1. /\ o.exists /\ ~o.settled
      /\ won => old[Self] >= m
      /\ bal' = IF won THEN [bal EXCEPT ![t] = Move(old, Self, o.seller, m)] ELSE bal
      /\ auction' = [auction EXCEPT ![id].settled = TRUE]
  BY DEF SettleAuction
<1>2. o \in Contest /\ (won => o.auction_type # "Dutch")
  <2>1. o \in Contest
    BY <1>1 DEF AuctionInv, AuctionTypes, NoAuction
  <2> QED BY <1>1, <2>1 DEF AuctionInv, Sold
<1>3. m \in Nat /\ o.seller \in Addr /\ o.highest_bidder \in Bidders \cup {None}
  BY <1>2 DEF Contest
<1>4. /\ Self \notin Addr /\ None \notin Addr /\ Bidders \subseteq Addr
      /\ Self \in Account /\ Addr \subseteq Account
  BY AccountsAssumption DEF Account
<1>5. t \in Token /\ old \in [Account -> Nat] /\ bal \in Balances
  BY <1>2 DEF AuctionInv, AuctionTypes, Contest, Balances
<1>6. /\ x \in Contest /\ x.token = t /\ x.seller = o.seller /\ x.exists
      /\ x.auction_type = o.auction_type /\ x.settled
      /\ x.highest_bidder = o.highest_bidder /\ x.current_bid = m
  BY <1>1, <1>2 DEF Contest
<1>7. auction' = [auction EXCEPT ![id] = x]
  BY <1>1, <1>2 DEF Contest, AuctionInv, AuctionTypes
<1> HIDE DEF x, o, old, m
<1>8. /\ bal' \in Balances /\ \A u \in Token \ {t} : bal'[u] = bal[u]
      /\ bal'[t][Self] = IF won THEN old[Self] - m ELSE old[Self]
      /\ \A a \in Addr : bal'[t][a] = IF won /\ a = o.seller THEN old[a] + m ELSE old[a]
  <2>1. CASE ~won
    BY <1>1, <1>5, <2>1 DEF old
  <2>2. CASE won
    <3> DEFINE to == o.seller
    <3>1. to \in Account /\ to # Self /\ old[Self] >= m
      BY <1>1, <1>3, <1>4, <2>2
    <3> HIDE DEF to
    <3>2. PICK new \in [Account -> Nat] : new = Move(old, Self, to, m)
      BY <1>3, <1>4, <1>5, <3>1, MoveFacts
    <3>3. \A a \in Account : new[a] = IF a = Self THEN old[a] - m
                                      ELSE IF a = to THEN old[a] + m ELSE old[a]
      BY <1>3, <1>4, <1>5, <3>1, <3>2, MoveFacts
    <3>4. bal' = [bal EXCEPT ![t] = new]
      BY <1>1, <2>2, <3>2 DEF to
    <3>5. bal' \in Balances /\ bal'[t] = new /\ \A u \in Token \ {t} : bal'[u] = bal[u]
      BY <1>5, <3>4 DEF Balances
    <3>6. \A a \in Addr : a # Self
      BY <1>4
    <3> QED BY <1>4, <2>2, <3>3, <3>5, <3>6 DEF to
  <2> QED BY <2>1, <2>2
<1>9. ASSUME NEW u \in Token, u # t
      PROVE  /\ HeldFor(x, u) = 0 /\ HeldFor(o, u) = 0
             /\ \A a \in Addr : /\ PaidFor(x, u, a) = 0 /\ PaidFor(o, u, a) = 0
                                /\ EarnedBy(x, u, a) = 0 /\ EarnedBy(o, u, a) = 0
  BY <1>6, <1>9 DEF HeldFor, PaidFor, EarnedBy
<1>10. HeldFor(x, t) = 0 /\ HeldFor(o, t) = IF won THEN m ELSE 0
  BY <1>1, <1>2, <1>6 DEF HeldFor, o, m
<1>11. \A a \in Addr :
         /\ PaidFor(x, t, a) = PaidFor(o, t, a) /\ PaidFor(x, t, a) \in Nat
         /\ EarnedBy(x, t, a) = IF won /\ a = o.seller THEN m ELSE 0
         /\ EarnedBy(o, t, a) = 0
  BY <1>1, <1>3, <1>6, <1>10 DEF PaidFor, EarnedBy, m
<1>12. ASSUME NEW u \in Token
       PROVE  /\ bal'[u][Self] - bal[u][Self] = HeldFor(x, u) - HeldFor(o, u)
              /\ \A a \in Addr :
                   bal'[u][a] - bal[u][a] = (PaidFor(o, u, a) - PaidFor(x, u, a))
                                             + (EarnedBy(x, u, a) - EarnedBy(o, u, a))
  <2>1. CASE u # t
    <3>1. bal'[u] = bal[u] /\ bal[u] \in [Account -> Nat]
      BY <1>5, <1>8, <2>1 DEF Balances
    <3>2. ASSUME NEW a \in Account PROVE bal'[u][a] - bal[u][a] = 0
      BY <3>1, <3>2
    <3> QED BY <1>4, <1>9, <2>1, <3>2
  <2>2. CASE u = t
    <3>1. ASSUME NEW a \in Addr
          PROVE  bal'[t][a] - bal[t][a] = IF won /\ a = o.seller THEN m ELSE 0
      <4>1. old[a] \in Nat /\ a \in Account
        BY <1>4, <1>5
      <4> QED BY <1>3, <1>8, <4>1 DEF old
    <3>2. bal'[t][Self] - bal[t][Self] = 0 - IF won THEN m ELSE 0
      <4>1. old[Self] \in Nat
        BY <1>4, <1>5
      <4> QED BY <1>3, <1>8, <4>1 DEF old
    <3>3. ASSUME NEW a \in Addr
          PROVE  bal'[t][a] - bal[t][a] = (PaidFor(o, t, a) - PaidFor(x, t, a))
                                            + (EarnedBy(x, t, a) - EarnedBy(o, t, a))
      BY <1>3, <1>11, <3>1
    <3> QED BY <1>3, <1>10, <2>2, <3>2, <3>3
  <2> QED BY <2>1, <2>2
<1>13. Sold(x)
  BY <1>6 DEF Sold
<1>14. Booked(id, x)
  BY <1>6, <1>7, <1>8, <1>12, <1>13 DEF Booked, o
<1> QED BY <1>6, <1>14

\* create_auction: nothing is held yet.
LEMMA CreateBooked ==
  ASSUME AuctionInv, NEW lot \in Lots, CreateAuction(lot)
  PROVE  \E x \in Contest : count + 1 \in Ids /\ Booked(count + 1, x)
<1> DEFINE id == count + 1
           x == [exists |-> TRUE, seller |-> lot.seller, item |-> lot.item, token |-> lot.token,
                 auction_type |-> lot.auction_type, settings |-> lot.settings,
                 highest_bidder |-> None, current_bid |-> 0, settled |-> FALSE]
<1>1. id \in Ids /\ auction' = [auction EXCEPT ![id] = x] /\ bal' = bal
  BY LotsAssumption DEF CreateAuction, AuctionInv, AuctionTypes, Ids
<1>2. auction[id] = NoAuction
  BY <1>1, LotsAssumption DEF AuctionInv, AuctionTypes
<1>3. x \in Contest
  <2>1. lot \in Lot
    BY LotsAssumption
  <2> QED BY <2>1 DEF Lot, Contest
<1>4. x.highest_bidder = None /\ Sold(x)
  BY DEF Sold
<1>5. ~auction[id].exists /\ auction[id].highest_bidder = None
  BY <1>2 DEF NoAuction
<1> HIDE DEF x, id
<1>6. ASSUME NEW u \in Token
      PROVE  /\ HeldFor(x, u) = 0 /\ HeldFor(auction[id], u) = 0
             /\ \A a \in Addr : /\ PaidFor(x, u, a) = 0 /\ PaidFor(auction[id], u, a) = 0
                                /\ EarnedBy(x, u, a) = 0 /\ EarnedBy(auction[id], u, a) = 0
  <2>1. \A a \in Addr : a # None
    BY AccountsAssumption
  <2> QED BY <1>4, <1>5, <2>1 DEF HeldFor, PaidFor, EarnedBy
<1>7. /\ bal' \in Balances
      /\ \A u \in Token, a \in Account : bal'[u][a] - bal[u][a] = 0
  BY <1>1 DEF AuctionInv, AuctionTypes, Balances
<1>8. Booked(id, x)
  <2>1. Self \in Account /\ Addr \subseteq Account
    BY DEF Account
  <2>2. ASSUME NEW u \in Token
        PROVE  /\ bal'[u][Self] - bal[u][Self] = HeldFor(x, u) - HeldFor(auction[id], u)
               /\ \A a \in Addr :
                    bal'[u][a] - bal[u][a] =
                      (PaidFor(auction[id], u, a) - PaidFor(x, u, a))
                      + (EarnedBy(x, u, a) - EarnedBy(auction[id], u, a))
    BY <1>6, <1>7, <2>1
  <2> QED BY <1>1, <1>3, <1>4, <1>5, <1>7, <2>2 DEF Booked
<1> QED BY <1>1, <1>3, <1>8 DEF id

\* Every step books one auction, or leaves balances and auctions alone.
LEMMA AuctionStep ==
  ASSUME AuctionInv, Next
  PROVE  /\ AuctionInv'
         /\ \/ UNCHANGED <<bal, auction>>
            \/ \E id \in Ids, x \in Contest : Booked(id, x)
<1> DEFINE Ended == \/ UNCHANGED <<bal, auction>>
                    \/ \E id \in Ids, x \in Contest :
                         Booked(id, x) /\ (auction[id].exists \/ id = count')
<1>1. ASSUME NEW lot \in Lots, CreateAuction(lot)
      PROVE  Ended /\ now' = now /\ count' = count + 1 /\ count' <= MaxAuctions
  <2>1. count' = count + 1 /\ now' = now /\ count < MaxAuctions
    BY <1>1 DEF CreateAuction
  <2>2. PICK x \in Contest : count + 1 \in Ids /\ Booked(count + 1, x)
    BY <1>1, CreateBooked
  <2>3. count \in Nat /\ MaxAuctions \in Nat
    BY LotsAssumption DEF AuctionInv, AuctionTypes
  <2>4. count + 1 \in Ids /\ Booked(count + 1, x) /\ (auction[count + 1].exists \/ count + 1 = count')
    BY <2>1, <2>2
  <2>5. \E id \in Ids, y \in Contest : Booked(id, y) /\ (auction[id].exists \/ id = count')
    BY <2>4
  <2> QED BY <2>1, <2>3, <2>5
<1>2. ASSUME NEW id \in Ids, NEW b \in Bidders, NEW n \in Bids,
             PlaceBid(id, b, n) \/ BuyDutch(id, b, n) \/ RevealSealedBid(id, b, n)
      PROVE  Ended /\ now' = now /\ count' = count
  <2>1. CASE PlaceBid(id, b, n)
    BY <2>1, PlaceBidBooked DEF PlaceBid
  <2>2. CASE BuyDutch(id, b, n)
    BY <2>2, BuyDutchBooked DEF BuyDutch
  <2>3. CASE RevealSealedBid(id, b, n)
    BY <2>3, RevealBooked DEF RevealSealedBid
  <2> QED BY <1>2, <2>1, <2>2, <2>3
<1>3. ASSUME NEW id \in Ids, SettleAuction(id)
      PROVE  Ended /\ now' = now /\ count' = count
  BY <1>3, SettleBooked DEF SettleAuction
<1>4. ASSUME \/ \E id \in Ids, b \in Bidders : SubmitSealedBid(id, b)
             \/ \E i \in Item, a \in Addr : GiveItem(i, a)
             \/ Tick
      PROVE  Ended /\ now' \in Nat /\ count' = count
  BY <1>4 DEF SubmitSealedBid, GiveItem, Tick, AuctionInv, AuctionTypes
<1>5. /\ Ended /\ now' \in Nat
      /\ count' \in {count, count + 1} /\ count' \in 0 .. MaxAuctions
  <2>1. now \in Nat /\ count \in 0 .. MaxAuctions /\ MaxAuctions \in Nat
    BY LotsAssumption DEF AuctionInv, AuctionTypes
  <2> HIDE DEF Ended
  <2> QED BY <1>1, <1>2, <1>3, <1>4, <2>1 DEF Next
<1>6. CASE UNCHANGED <<bal, auction>>
  <2>1. AuctionTypes'
    BY <1>5, <1>6, LotsAssumption DEF AuctionInv, AuctionTypes, Ids
  <2> QED BY <1>6, <2>1 DEF AuctionInv, Sold
<1>7. ASSUME NEW id \in Ids, NEW x \in Contest, Booked(id, x), auction[id].exists \/ id = count'
      PROVE  AuctionInv'
  <2>1. /\ auction' = [auction EXCEPT ![id] = x] /\ bal' \in Balances /\ Sold(x)
    BY <1>7 DEF Booked
  <2>2. auction \in [Ids -> Contest \cup {NoAuction}] /\ count \in 0 .. MaxAuctions
          /\ MaxAuctions \in Nat
    BY LotsAssumption DEF AuctionInv, AuctionTypes
  <2>3. id <= count'
    BY <1>5, <1>7, <2>2 DEF AuctionInv, AuctionTypes, NoAuction, Ids
  <2>4. \A i \in Ids : i > count' => auction'[i] = NoAuction
    BY <1>5, <2>1, <2>2, <2>3 DEF AuctionInv, AuctionTypes, Ids
  <2>5. auction' \in [Ids -> Contest \cup {NoAuction}]
    BY <2>1, <2>2
  <2>6. \A i \in Ids : Sold(auction'[i])
    BY <2>1, <2>2 DEF AuctionInv
  <2> QED BY <1>5, <2>1, <2>4, <2>5, <2>6 DEF AuctionInv, AuctionTypes, Sold
<1> QED BY <1>5, <1>6, <1>7

-----------------------------------------------------------------------------
\* What the accounts paid and earned, added up over all auctions.
Paid(t, a) == [id \in Ids |-> PaidFor(auction[id], t, a)]
Earned(t, a) == [id \in Ids |-> EarnedBy(auction[id], t, a)]

\* An account has what it started with, less what it paid, plus what it earned.
Accounted ==
  \A t \in Token, a \in Addr : bal[t][a] = FirstBalance(a) - Total(Paid(t, a)) + Total(Earned(t, a))

\* The sums are of natural numbers.
LEMMA SumTypes ==
  ASSUME AuctionInv, NEW t \in Token, NEW a \in Addr
  PROVE  /\ Paid(t, a) \in [Ids -> Nat] /\ Earned(t, a) \in [Ids -> Nat] /\ IsFiniteSet(Ids)
         /\ Total(Paid(t, a)) \in Nat /\ Total(Earned(t, a)) \in Nat
<1>1. ASSUME NEW id \in Ids
      PROVE  /\ PaidFor(auction[id], t, a) \in Nat
             /\ EarnedBy(auction[id], t, a) \in Nat
  <2> DEFINE x == auction[id]
  <2>1. CASE x \in Contest
    <3>1. x.current_bid \in Nat
      BY <2>1 DEF Contest
    <3> QED BY <3>1 DEF PaidFor, EarnedBy, HeldFor
  <2>2. CASE x = NoAuction
    BY <2>2 DEF PaidFor, EarnedBy, NoAuction
  <2> QED BY <2>1, <2>2 DEF AuctionInv, AuctionTypes
<1>2. Paid(t, a) \in [Ids -> Nat] /\ Earned(t, a) \in [Ids -> Nat]
  BY <1>1 DEF Paid, Earned
<1>3. IsFiniteSet(Ids)
  <2>1. 1 \in Int /\ MaxAuctions \in Int
    BY LotsAssumption
  <2> QED BY <2>1, FS_Interval DEF Ids
<1> QED BY <1>2, <1>3, UnitsFinite

\* The sums account for the balances at the start.
LEMMA AccountedAtFirst == Init => AuctionInv /\ Accounted
<1> SUFFICES ASSUME Init PROVE AuctionInv /\ Accounted
  OBVIOUS
<1>1. AuctionInv
  <2>1. bal \in Balances
    BY AccountsAssumption DEF Init, Balances, FirstBalance
  <2>2. \A id \in Ids : Sold(auction[id])
    BY DEF Init, NoAuction, Sold
  <2> QED BY <2>1, <2>2, LotsAssumption DEF Init, AuctionInv, AuctionTypes
<1>2. ASSUME NEW t \in Token, NEW a \in Addr
      PROVE  bal[t][a] = FirstBalance(a) - Total(Paid(t, a)) + Total(Earned(t, a))
  <2>1. \A id \in Ids : Paid(t, a)[id] = 0 /\ Earned(t, a)[id] = 0
    BY DEF Init, NoAuction, Paid, Earned, PaidFor, EarnedBy
  <2>2. Paid(t, a) \in [Ids -> Nat] /\ Earned(t, a) \in [Ids -> Nat]
    BY <1>1, SumTypes
  <2>3. Total(Paid(t, a)) = 0 /\ Total(Earned(t, a)) = 0
    BY <2>1, <2>2, TotalZero
  <2>4. bal[t][a] = FirstBalance(a) /\ FirstBalance(a) \in Nat
    BY AccountsAssumption DEF Init, Account, FirstBalance
  <2> QED BY <2>3, <2>4
<1> QED BY <1>1, <1>2 DEF Accounted

\* And after every step.
LEMMA AccountedStep ==
  ASSUME AuctionInv, Accounted, Next
  PROVE  Accounted'
<1>1. CASE UNCHANGED <<bal, auction>>
  BY <1>1 DEF Accounted, Paid, Earned
<1>2. ASSUME NEW id \in Ids, NEW x \in Contest, Booked(id, x)
      PROVE  Accounted'
  <2> SUFFICES ASSUME NEW t \in Token, NEW a \in Addr
               PROVE  bal'[t][a] = FirstBalance(a) - Total(Paid(t, a)') + Total(Earned(t, a)')
    BY DEF Accounted
  <2>1. AuctionInv'
    BY AuctionStep
  <2>2. /\ Paid(t, a) \in [Ids -> Nat] /\ Earned(t, a) \in [Ids -> Nat] /\ IsFiniteSet(Ids)
        /\ Total(Paid(t, a)) \in Nat /\ Total(Earned(t, a)) \in Nat
    BY SumTypes
  <2>3. Paid(t, a)' \in [Ids -> Nat] /\ Earned(t, a)' \in [Ids -> Nat]
    <3>1. \A i \in Ids : PaidFor(auction'[i], t, a) \in Nat /\ EarnedBy(auction'[i], t, a) \in Nat
      <4> SUFFICES ASSUME NEW i \in Ids
                   PROVE  PaidFor(auction'[i], t, a) \in Nat /\ EarnedBy(auction'[i], t, a) \in Nat
        OBVIOUS
      <4> DEFINE y == auction'[i]
      <4>1. CASE y \in Contest
        <5>1. y.current_bid \in Nat
          BY <4>1 DEF Contest
        <5> QED BY <5>1 DEF PaidFor, EarnedBy, HeldFor
      <4>2. CASE y = NoAuction
        BY <4>2 DEF PaidFor, EarnedBy, NoAuction
      <4> QED BY <2>1, <4>1, <4>2 DEF AuctionInv, AuctionTypes
    <3> QED BY <3>1 DEF Paid, Earned
  <2>4. auction' = [auction EXCEPT ![id] = x] /\ auction \in [Ids -> Contest \cup {NoAuction}]
    BY <1>2 DEF Booked, AuctionInv, AuctionTypes
  <2>5. PICK p \in [Ids -> Nat] : p = Paid(t, a)'
    BY <2>3
  <2>6. PICK e \in [Ids -> Nat] : e = Earned(t, a)'
    BY <2>3
  <2>7. /\ p[id] = PaidFor(x, t, a) /\ \A i \in Ids \ {id} : p[i] = Paid(t, a)[i]
        /\ Paid(t, a)[id] = PaidFor(auction[id], t, a)
    BY <2>4, <2>5 DEF Paid
  <2>8. /\ e[id] = EarnedBy(x, t, a) /\ \A i \in Ids \ {id} : e[i] = Earned(t, a)[i]
        /\ Earned(t, a)[id] = EarnedBy(auction[id], t, a)
    BY <2>4, <2>6 DEF Earned
  <2>9. /\ Total(p) = Total(Paid(t, a)) + (p[id] - Paid(t, a)[id])
        /\ Total(p) \in Nat
    <3> DEFINE f == Paid(t, a)
    <3>1. f \in [Ids -> Nat] /\ \A i \in Ids \ {id} : p[i] = f[i]
      BY <2>2, <2>7
    <3> HIDE DEF f
    <3>2. Total(p) = Total(f) + (p[id] - f[id]) /\ Total(p) \in Nat
      BY <2>2, <3>1, TotalChange
    <3> QED BY <3>2 DEF f
  <2>10. /\ Total(e) = Total(Earned(t, a)) + (e[id] - Earned(t, a)[id])
         /\ Total(e) \in Nat
    <3> DEFINE f == Earned(t, a)
    <3>1. f \in [Ids -> Nat] /\ \A i \in Ids \ {id} : e[i] = f[i]
      BY <2>2, <2>8
    <3> HIDE DEF f
    <3>2. Total(e) = Total(f) + (e[id] - f[id]) /\ Total(e) \in Nat
      BY <2>2, <3>1, TotalChange
    <3> QED BY <3>2 DEF f
  <2>11. bal'[t][a] - bal[t][a] = (PaidFor(auction[id], t, a) - PaidFor(x, t, a))
                                    + (EarnedBy(x, t, a) - EarnedBy(auction[id], t, a))
    BY <1>2 DEF Booked
  <2>12. /\ bal[t][a] = FirstBalance(a) - Total(Paid(t, a)) + Total(Earned(t, a))
         /\ FirstBalance(a) \in Int /\ bal[t][a] \in Int /\ bal'[t][a] \in Int
    <3>1. a \in Account
      BY DEF Account
    <3> QED BY <1>2, <3>1, AccountsAssumption
        DEF Accounted, FirstBalance, Booked, AuctionInv, AuctionTypes, Balances
  <2>13. /\ p[id] \in Nat /\ e[id] \in Nat
         /\ Paid(t, a)[id] \in Nat /\ Earned(t, a)[id] \in Nat
    BY <2>2
  <2>14. bal'[t][a] - bal[t][a] = (Paid(t, a)[id] - p[id]) + (e[id] - Earned(t, a)[id])
    BY <2>7, <2>8, <2>11
  <2>15. bal'[t][a] = FirstBalance(a) - Total(p) + Total(e)
    BY <2>2, <2>9, <2>10, <2>12, <2>13, <2>14
  <2> QED BY <2>5, <2>6, <2>15
<1> QED BY <1>1, <1>2, AuctionStep

\* The sums over all auctions are those of OnlyWinnersPay.
LEMMA WinnersPay == AuctionInv /\ Accounted => OnlyWinnersPay
<1> SUFFICES ASSUME AuctionInv, Accounted, NEW t \in Token, NEW a \in Addr
             PROVE  LET of == {id \in Ids : auction[id].exists /\ auction[id].token = t
                                              /\ auction[id].highest_bidder # None}
                        bids(S) == Total([id \in S |-> auction[id].current_bid])
                    IN bal[t][a] = FirstBalance(a) - bids({id \in of : auction[id].highest_bidder = a})
                                   + bids({id \in of : auction[id].seller = a /\ Held(id) = 0})
  BY DEF OnlyWinnersPay
<1> DEFINE of == {id \in Ids : auction[id].exists /\ auction[id].token = t
                                 /\ auction[id].highest_bidder # None}
           k == [id \in Ids |-> auction[id].current_bid]
           bids(S) == Total([id \in S |-> auction[id].current_bid])
           W == {id \in of : auction[id].highest_bidder = a}
           E == {id \in of : auction[id].seller = a /\ Held(id) = 0}
<1>1. \A id \in Ids : k[id] \in Nat
  <2> SUFFICES ASSUME NEW id \in Ids PROVE auction[id].current_bid \in Nat
    OBVIOUS
  <2>1. CASE auction[id] \in Contest
    BY <2>1 DEF Contest
  <2>2. CASE auction[id] = NoAuction
    BY <2>2 DEF NoAuction
  <2> QED BY <2>1, <2>2 DEF AuctionInv, AuctionTypes
<1>2. ASSUME NEW S \in SUBSET Ids
      PROVE  bids(S) = Total([id \in Ids |-> IF id \in S THEN k[id] ELSE 0])
  <2>1. [id \in S |-> auction[id].current_bid] = [id \in S |-> k[id]]
    OBVIOUS
  <2>2. Total([id \in S |-> k[id]]) = Total([id \in Ids |-> IF id \in S THEN k[id] ELSE 0])
    <3> HIDE DEF k
    <3>1. \A id \in S : k[id] \in Nat
      BY <1>1
    <3> QED BY <3>1, TotalWithin
  <2> QED BY <2>1, <2>2
<1>3. [id \in Ids |-> IF id \in W THEN k[id] ELSE 0] = Paid(t, a)
  <2>1. a # None
    BY AccountsAssumption
  <2>2. ASSUME NEW id \in Ids
        PROVE  (IF id \in W THEN k[id] ELSE 0) = PaidFor(auction[id], t, a)
    BY <2>1 DEF PaidFor
  <2> HIDE DEF W, k
  <2> QED BY <2>2 DEF Paid
<1>4. [id \in Ids |-> IF id \in E THEN k[id] ELSE 0] = Earned(t, a)
  <2>1. ASSUME NEW id \in Ids
        PROVE  (IF id \in E THEN k[id] ELSE 0) = EarnedBy(auction[id], t, a)
    <3>1. k[id] \in Nat
      BY <1>1
    <3>2. id \in of => Held(id) = HeldFor(auction[id], t)
      BY DEF Held, HeldFor
    <3>3. HeldFor(auction[id], t) \in {0, k[id]}
      BY DEF HeldFor
    <3>4. CASE id \in of /\ auction[id].seller = a
      <4>1. EarnedBy(auction[id], t, a) = k[id] - HeldFor(auction[id], t)
        BY <3>4 DEF EarnedBy
      <4>2. id \in E <=> HeldFor(auction[id], t) = 0
        BY <3>2, <3>4
      <4> HIDE DEF E, k
      <4> QED BY <3>1, <3>3, <4>1, <4>2
    <3>5. CASE ~(id \in of /\ auction[id].seller = a)
      BY <3>5 DEF EarnedBy
    <3> QED BY <3>4, <3>5
  <2> HIDE DEF E, k
  <2> QED BY <2>1 DEF Earned
<1>5. W \in SUBSET Ids /\ E \in SUBSET Ids
  OBVIOUS
<1>6. bids(W) = Total(Paid(t, a)) /\ bids(E) = Total(Earned(t, a))
  <2> HIDE DEF W, E, k, bids
  <2> QED BY <1>2, <1>3, <1>4, <1>5
<1>7. bal[t][a] = FirstBalance(a) - bids(W) + bids(E)
  <2> HIDE DEF W, E, bids
  <2> QED BY <1>6 DEF Accounted
<1> QED BY <1>7

-----------------------------------------------------------------------------
(* The auctions as custodians. *)
AuctionPool == [t \in Token |-> bal[t][Self]]
AuctionOwed ==
  [t \in Token |-> [id \in Ids |->
     IF auction[id].exists /\ auction[id].token = t THEN Held(id) ELSE 0]]

\* What is owed for an auction is what is held for it.
LEMMA OwedIsHeld ==
  /\ AuctionOwed = [t \in Token |-> [id \in Ids |-> HeldFor(auction[id], t)]]
  /\ AuctionOwed' = [t \in Token |-> [id \in Ids |-> HeldFor(auction'[id], t)]]
<1>1. \A t, id : (IF auction[id].exists /\ auction[id].token = t THEN Held(id) ELSE 0)
                   = HeldFor(auction[id], t)
  BY DEF Held, HeldFor
<1>2. \A t, id : (IF auction[id].exists /\ auction[id].token = t THEN Held(id) ELSE 0)'
                   = HeldFor(auction'[id], t)
  BY DEF Held, HeldFor
<1> QED BY <1>1, <1>2 DEF AuctionOwed

\* The auctions owe nothing at first.
LEMMA AuctionCustodyInit == AuctionInv /\ Init => C!Init
<1> SUFFICES ASSUME AuctionInv, Init PROVE C!Init
  OBVIOUS
<1>1. AuctionPool \in [Token -> Nat]
  BY DEF AuctionPool, AuctionInv, AuctionTypes, Balances, Account
<1>2. \A t \in Token, id \in Ids : HeldFor(auction[id], t) = 0
  BY DEF Init, NoAuction, HeldFor
<1>3. AuctionOwed = [t \in Token |-> [id \in Ids |-> 0]]
  BY <1>2, OwedIsHeld
<1> QED BY <1>1, <1>3 DEF C!Init, AuctionPool, AuctionOwed

\* A step that books an auction changes pool and obligation by the same amount.
LEMMA AuctionCustodyStep ==
  AuctionInv /\ Next => C!Next \/ UNCHANGED <<AuctionPool, AuctionOwed>>
<1> SUFFICES ASSUME AuctionInv, Next PROVE C!Next \/ UNCHANGED <<AuctionPool, AuctionOwed>>
  OBVIOUS
<1>1. CASE UNCHANGED <<bal, auction>>
  BY <1>1 DEF AuctionPool, AuctionOwed, Held
<1>2. ASSUME NEW id \in Ids, NEW x \in Contest, Booked(id, x)
      PROVE  C!Next
  <2> DEFINE t == x.token
             o == AuctionOwed'[t][id]
             p == AuctionPool'[t]
  <2>1. t \in Token /\ x.current_bid \in Nat
    BY DEF Contest
  <2>2. /\ auction' = [auction EXCEPT ![id] = x] /\ bal' \in Balances
        /\ auction[id].exists => auction[id].token = t
        /\ \A u \in Token : bal'[u][Self] - bal[u][Self] = HeldFor(x, u) - HeldFor(auction[id], u)
    BY <1>2 DEF Booked
  <2>3. auction \in [Ids -> Contest \cup {NoAuction}] /\ bal \in Balances /\ Self \in Account
    BY DEF AuctionInv, AuctionTypes, Account
  <2>4. /\ AuctionPool \in [Token -> Nat] /\ AuctionPool' \in [Token -> Nat]
        /\ \A u \in Token : AuctionPool[u] = bal[u][Self] /\ AuctionPool'[u] = bal'[u][Self]
    BY <2>2, <2>3 DEF AuctionPool, Balances
  <2>5. HeldFor(x, t) \in Nat /\ HeldFor(auction[id], t) \in Nat
    <3>1. CASE auction[id] \in Contest
      BY <2>1, <3>1 DEF HeldFor, Contest
    <3>2. CASE auction[id] = NoAuction
      BY <2>1, <3>2 DEF HeldFor, NoAuction
    <3> QED BY <2>3, <3>1, <3>2
  <2>6. \A u \in Token \ {t} : HeldFor(x, u) = 0 /\ HeldFor(auction[id], u) = 0
    BY <2>2 DEF HeldFor
  <2>7. \A u \in Token \ {t} : AuctionPool'[u] = AuctionPool[u]
    <3> TAKE u \in Token \ {t}
    <3>1. HeldFor(x, u) = 0 /\ HeldFor(auction[id], u) = 0
      BY <2>6
    <3>2. bal'[u][Self] - bal[u][Self] = 0
      BY <2>2, <3>1
    <3>3. bal'[u][Self] \in Nat /\ bal[u][Self] \in Nat
      BY <2>2, <2>3 DEF Balances
    <3>4. bal'[u][Self] = bal[u][Self]
      BY <3>2, <3>3
    <3> QED BY <2>4, <3>4
  <2>8. AuctionPool' = [AuctionPool EXCEPT ![t] = p] /\ p \in Nat
    BY <2>1, <2>4, <2>7
  <2>9. \A u \in Token, i \in Ids :
          HeldFor(auction'[i], u) = IF i = id THEN HeldFor(x, u) ELSE HeldFor(auction[i], u)
    BY <2>2, <2>3
  <2>10. o = HeldFor(x, t) /\ AuctionOwed[t][id] = HeldFor(auction[id], t)
    BY <2>1, <2>9, OwedIsHeld
  <2>11. AuctionOwed' = [AuctionOwed EXCEPT ![t][id] = o]
    <3> HIDE DEF o
    <3>1. \A u \in Token, i \in Ids :
            HeldFor(auction'[i], u) = IF u = t /\ i = id THEN o ELSE HeldFor(auction[i], u)
      BY <2>6, <2>9, <2>10
    <3> QED BY <2>1, <3>1, OwedIsHeld
  <2>12. p = AuctionPool[t] + (o - AuctionOwed[t][id]) /\ o \in Nat /\ AuctionOwed[t][id] \in Nat
           /\ AuctionPool[t] \in Nat
    BY <2>1, <2>2, <2>4, <2>5, <2>10
  <2>13. \/ o >= AuctionOwed[t][id] /\ p >= AuctionPool[t] + (o - AuctionOwed[t][id])
         \/ o <= AuctionOwed[t][id] /\ AuctionPool[t] <= p + (AuctionOwed[t][id] - o)
    <3> HIDE DEF o, p
    <3> QED BY <2>8, <2>12
  <2>14. C!Only(t, id)
    BY <2>8, <2>11, <2>12 DEF C!Only, AuctionPool, AuctionOwed
  <2>15. C!Deposit(t, id) \/ C!Discharge(t, id)
    BY <2>13, <2>14 DEF C!Deposit, C!Discharge, AuctionPool, AuctionOwed
  <2> QED BY <2>1, <2>15 DEF C!Next
<1> QED BY <1>1, <1>2, AuctionStep

-----------------------------------------------------------------------------
(***************************************************************************)
(* Crowdfunding.                                                           *)
(***************************************************************************)
Milestone == [payout_amount : Nat, approved : BOOLEAN, claimed : BOOLEAN]

Campaign ==
  [exists : {TRUE}, creator : Addr, goal_amount : Int, deadline : Nat, amount_raised : Nat,
   amount_claimed : Nat, refunded_amount : Nat, status : Crowdfund!CampaignStatus,
   contributions : [Bidders -> Nat], refunded_backers : SUBSET Bidders,
   milestones : Seq(Milestone)]

\* The milestones that were paid, what they come to, and what the backers who
\* have been refunded had contributed.
Claimed(c) == {i \in 1 .. Len(c.milestones) : c.milestones[i].claimed}
PaidOut(c) == Total([i \in Claimed(c) |-> c.milestones[i].payout_amount])
Refunds(c) == Total([b \in c.refunded_backers |-> c.contributions[b]])

\* A campaign whose books are in order at time n: it has paid out only because
\* it reached its goal, and has refunded only because it had missed it for good.
Sound(c, n) ==
  /\ c \in Campaign
  /\ c.amount_raised = Total(c.contributions)
  /\ c.refunded_amount = Refunds(c)
  /\ c.amount_claimed = PaidOut(c)
  /\ c.amount_claimed <= c.amount_raised
  /\ c.amount_claimed > 0 => c.amount_raised >= c.goal_amount
  /\ c.refunded_backers # {} =>
       c.status = "Failed" /\ c.amount_raised < c.goal_amount /\ n > c.deadline
  /\ \A i \in Claimed(c) : c.milestones[i].approved

\* The campaigns between calls: every one that exists is sound.
FundInv ==
  /\ now \in Nat /\ fundBal \in Balances /\ nextId \in Nat \ {0}
  /\ campaign \in [Crowdfund!Ids -> Campaign \cup {Crowdfund!NoCampaign}]
  /\ \A id \in Crowdfund!Ids : campaign[id].exists => Sound(campaign[id], now)

\* The sums of the module are those of TokenUnits.
LEMMA FundTotal == ASSUME NEW f PROVE Crowdfund!Total(f) = Total(f)
BY Zenon DEF Crowdfund!Total, Total, Crowdfund!Units, Units, Crowdfund!Cardinality, Cardinality

\* The sums of a campaign are natural numbers; what is refunded was raised.
LEMMA SoundSums ==
  ASSUME NEW c \in Campaign, IsFiniteSet(Bidders)
  PROVE  /\ Total(c.contributions) \in Nat
         /\ Refunds(c) \in Nat /\ Refunds(c) <= Total(c.contributions)
         /\ IsFiniteSet(Claimed(c)) /\ Claimed(c) \subseteq 1 .. Len(c.milestones)
         /\ \A i \in 1 .. Len(c.milestones) : c.milestones[i] \in Milestone
         /\ IsFiniteSet(c.refunded_backers)
         /\ c.contributions \in [Bidders -> Nat] /\ c.refunded_backers \subseteq Bidders
<1>1. c.contributions \in [Bidders -> Nat] /\ c.refunded_backers \in SUBSET Bidders
        /\ c.milestones \in Seq(Milestone)
  BY DEF Campaign
<1>2. Refunds(c) \in Nat /\ Refunds(c) <= Total(c.contributions)
  BY <1>1, TotalPart DEF Refunds
<1>3. Total(c.contributions) \in Nat
  BY <1>1, UnitsFinite
<1>4. IsFiniteSet(1 .. Len(c.milestones))
  <2>1. 1 \in Int /\ Len(c.milestones) \in Int
    BY <1>1
  <2> QED BY <2>1, FS_Interval
<1>5. IsFiniteSet(Claimed(c)) /\ IsFiniteSet(c.refunded_backers)
  BY <1>1, <1>4, FS_Subset DEF Claimed
<1>6. \A i \in 1 .. Len(c.milestones) : c.milestones[i] \in Milestone
  BY <1>1
<1> QED BY <1>1, <1>2, <1>3, <1>5, <1>6 DEF Claimed

\* refresh_campaign leaves the books in order.
LEMMA RefreshedSound ==
  ASSUME NEW c, Sound(c, now), now \in Nat
  PROVE  /\ Sound(Crowdfund!Refreshed(c), now)
         /\ LET d == Crowdfund!Refreshed(c)
            IN /\ d.amount_raised = c.amount_raised /\ d.amount_claimed = c.amount_claimed
               /\ d.refunded_amount = c.refunded_amount /\ d.milestones = c.milestones
               /\ d.contributions = c.contributions /\ d.creator = c.creator
               /\ d.refunded_backers = c.refunded_backers
               /\ d.goal_amount = c.goal_amount /\ d.deadline = c.deadline
               /\ d.status = "Failed" => d.amount_raised < d.goal_amount /\ now > d.deadline
               /\ d.status = "Successful" => d.amount_raised >= d.goal_amount
<1> DEFINE d == Crowdfund!Refreshed(c)
           over == now > c.deadline
           all == over /\ c.amount_claimed = c.amount_raised
                    /\ \A i \in 1 .. Len(c.milestones) : c.milestones[i].claimed
           st == IF c.amount_raised >= c.goal_amount
                   THEN IF all THEN "Completed" ELSE "Successful"
                   ELSE IF over THEN "Failed" ELSE "Active"
<1>0. d = [c EXCEPT !.status = st]
  BY DEF Crowdfund!Refreshed
<1>1. PICK s \in Crowdfund!CampaignStatus :
        /\ d = [c EXCEPT !.status = s]
        /\ s = "Failed" <=> (c.amount_raised < c.goal_amount /\ now > c.deadline)
        /\ s = "Successful" => c.amount_raised >= c.goal_amount
  <2>1. c.amount_raised \in Int /\ c.goal_amount \in Int /\ c.deadline \in Int
    BY DEF Sound, Campaign
  <2>2. st \in Crowdfund!CampaignStatus
    <3> HIDE DEF all, over
    <3> QED BY DEF Crowdfund!CampaignStatus
  <2>3. /\ st = "Failed" <=> (c.amount_raised < c.goal_amount /\ over)
        /\ st = "Successful" => c.amount_raised >= c.goal_amount
    <3> HIDE DEF all, over
    <3> QED BY <2>1
  <2> HIDE DEF st, d
  <2> QED BY <1>0, <2>2, <2>3
<1>2. c \in Campaign
  BY DEF Sound
<1> HIDE DEF d
<1>3. /\ d \in Campaign /\ d.status = s
      /\ d.amount_raised = c.amount_raised /\ d.amount_claimed = c.amount_claimed
      /\ d.refunded_amount = c.refunded_amount /\ d.milestones = c.milestones
      /\ d.contributions = c.contributions /\ d.creator = c.creator
      /\ d.refunded_backers = c.refunded_backers
      /\ d.goal_amount = c.goal_amount /\ d.deadline = c.deadline
  BY <1>1, <1>2 DEF Campaign
<1>4. Claimed(d) = Claimed(c) /\ PaidOut(d) = PaidOut(c) /\ Refunds(d) = Refunds(c)
  BY <1>3 DEF Claimed, PaidOut, Refunds
<1>5. Sound(d, now)
  BY <1>1, <1>3, <1>4 DEF Sound
<1> QED BY <1>1, <1>3, <1>5 DEF d

\* What a campaign still has.
Left(c) == c.amount_raised - c.amount_claimed - c.refunded_amount

\* The campaign id becomes c, and the balance of the contract follows.
Settled(id, c) ==
  /\ Sound(c, now) /\ now' = now /\ nextId' = nextId
  /\ campaign' = [campaign EXCEPT ![id] = c]
  /\ fundBal' \in Balances
  /\ \A t \in Token : fundBal'[t][Self] - fundBal[t][Self] = Left(c) - Left(campaign[id])

\* A transfer of the token to or from the contract.
LEMMA FundTransfer ==
  ASSUME FundInv, NEW from \in Account, NEW to \in Account, from # to, NEW m \in Nat,
         Crowdfund!Transfer(from, to, m)
  PROVE  /\ fundBal' \in Balances
         /\ \A t \in Token, a \in Account :
              fundBal'[t][a] = IF a = from THEN fundBal[t][a] - m
                               ELSE IF a = to THEN fundBal[t][a] + m ELSE fundBal[t][a]
<1>1. /\ \A t \in Token : fundBal[t][from] >= m
      /\ fundBal' = [t \in Token |->
                       [fundBal[t] EXCEPT ![from] = @ - m, ![to] = @ + m]]
  BY DEF Crowdfund!Transfer
<1>2. ASSUME NEW t \in Token
      PROVE  /\ fundBal'[t] \in [Account -> Nat]
             /\ \A a \in Account :
                  fundBal'[t][a] = IF a = from THEN fundBal[t][a] - m
                                   ELSE IF a = to THEN fundBal[t][a] + m ELSE fundBal[t][a]
  <2> DEFINE b == fundBal[t]
  <2>1. b \in [Account -> Nat] /\ b[from] >= m
    BY <1>1 DEF FundInv, Balances
  <2>2. fundBal'[t] = [b EXCEPT ![from] = @ - m, ![to] = @ + m]
    BY <1>1
  <2> HIDE DEF b
  <2>3. /\ fundBal'[t] \in [Account -> Nat]
        /\ \A a \in Account : fundBal'[t][a] = IF a = from THEN b[a] - m
                                               ELSE IF a = to THEN b[a] + m ELSE b[a]
    BY <2>1, <2>2
  <2> QED BY <2>3 DEF b
<1>3. fundBal' = [t \in Token |-> fundBal'[t]]
  BY <1>1
<1> QED BY <1>2, <1>3 DEF Balances

\* contribute
LEMMA ContributeSettled ==
  ASSUME FundInv, NEW id \in Crowdfund!Ids, NEW b \in Bidders, NEW n \in Amounts,
         Crowdfund!Contribute(id, b, n)
  PROVE  \E c : Settled(id, c)
<1> DEFINE o == campaign[id]
           c == Crowdfund!Refreshed(o)
           e == [c EXCEPT !.contributions[b] = @ + n, !.amount_raised = @ + n]
           d == Crowdfund!Refreshed(e)
<1>1. /\ o.exists /\ n > 0 /\ n \in Int /\ now <= c.deadline
      /\ Crowdfund!Transfer(b, Self, n)
      /\ campaign' = [campaign EXCEPT ![id] = d]
      /\ now' = now /\ nextId' = nextId
  BY AccountsAssumption DEF Crowdfund!Contribute, Crowdfund!Save
<1>2. Sound(o, now) /\ now \in Nat
  BY <1>1 DEF FundInv
<1>3. /\ Sound(c, now) /\ c.amount_raised = o.amount_raised
      /\ c.amount_claimed = o.amount_claimed /\ c.refunded_amount = o.refunded_amount
  BY <1>2, RefreshedSound
<1> HIDE DEF c, o
<1>4. /\ c \in Campaign /\ c.deadline \in Nat /\ c.refunded_backers = {}
      /\ c.contributions \in [Bidders -> Nat] /\ c.amount_raised \in Nat
      /\ c.amount_claimed \in Nat /\ c.goal_amount \in Int /\ c.refunded_amount \in Nat
  <2>1. c \in Campaign
    BY <1>3 DEF Sound
  <2>2. c.deadline \in Nat /\ now \in Nat
    BY <1>2, <2>1 DEF Campaign
  <2>3. c.refunded_backers = {}
    BY <1>1, <1>3, <2>2 DEF Sound
  <2> QED BY <2>1, <2>2, <2>3 DEF Campaign
<1> DEFINE f == c.contributions
           g == [f EXCEPT ![b] = f[b] + n]
<1>5. g \in [Bidders -> Nat] /\ g[b] = f[b] + n /\ \A a \in Bidders \ {b} : g[a] = f[a]
  BY <1>1, <1>4
<1>6. n \in Nat
  BY <1>1
<1>7. Total(g) = Total(f) + n
  <2> HIDE DEF f, g
  <2>1. f \in [Bidders -> Nat]
    BY <1>4 DEF f
  <2> QED BY <1>5, <1>6, <2>1, TotalRaise, PlansAssumption
<1>8. /\ e \in Campaign /\ e.contributions = g /\ e.amount_raised = c.amount_raised + n
      /\ e.amount_claimed = c.amount_claimed /\ e.refunded_amount = c.refunded_amount
      /\ e.refunded_backers = c.refunded_backers /\ e.milestones = c.milestones
      /\ e.goal_amount = c.goal_amount /\ e.status = c.status /\ e.deadline = c.deadline
  <2>1. e = [c EXCEPT !.contributions = g, !.amount_raised = c.amount_raised + n]
    BY <1>4 DEF Campaign
  <2>2. c.amount_raised + n \in Nat
    BY <1>4, <1>6
  <2> HIDE DEF e, g
  <2> QED BY <1>4, <1>5, <2>1, <2>2 DEF Campaign
<1> HIDE DEF e
<1>9. Sound(e, now)
  <2>1. Refunds(e) = Refunds(c)
    <3>1. [x \in e.refunded_backers |-> e.contributions[x]]
            = [x \in c.refunded_backers |-> c.contributions[x]]
      BY <1>4, <1>8
    <3> QED BY <3>1 DEF Refunds
  <2>2. PaidOut(e) = PaidOut(c) /\ Claimed(e) = Claimed(c)
    BY <1>8 DEF PaidOut, Claimed
  <2>3. e.amount_raised = Total(e.contributions)
    BY <1>3, <1>7, <1>8 DEF Sound
  <2>4. /\ e.amount_claimed <= e.amount_raised
        /\ e.amount_claimed > 0 => e.amount_raised >= e.goal_amount
    BY <1>3, <1>4, <1>6, <1>8 DEF Sound
  <2> QED BY <1>3, <1>4, <1>8, <2>1, <2>2, <2>3, <2>4 DEF Sound
<1>10. /\ Sound(d, now) /\ d.amount_raised = e.amount_raised
       /\ d.amount_claimed = e.amount_claimed /\ d.refunded_amount = e.refunded_amount
  BY <1>2, <1>9, RefreshedSound
<1> HIDE DEF d
<1>11. Left(d) - Left(o) = n
  BY <1>3, <1>4, <1>6, <1>8, <1>10 DEF Left
<1>12. b \in Account /\ Self \in Account /\ b # Self
  BY AccountsAssumption DEF Account
<1>13. /\ fundBal' \in Balances
       /\ \A t \in Token : fundBal'[t][Self] = fundBal[t][Self] + n
  BY <1>1, <1>6, <1>12, FundTransfer
<1>14. \A t \in Token : fundBal'[t][Self] - fundBal[t][Self] = Left(d) - Left(o)
  <2> TAKE t \in Token
  <2>1. fundBal[t][Self] \in Nat
    BY <1>12 DEF FundInv, Balances
  <2> QED BY <1>6, <1>11, <1>13, <2>1
<1>15. Settled(id, d)
  BY <1>1, <1>10, <1>13, <1>14 DEF Settled, o
<1> QED BY <1>15

\* approve_milestone
LEMMA ApproveSettled ==
  ASSUME FundInv, NEW id \in Crowdfund!Ids, NEW i, Crowdfund!ApproveMilestone(id, i)
  PROVE  \E c : Settled(id, c)
<1> DEFINE o == campaign[id]
           c == Crowdfund!Refreshed(o)
           e == [c EXCEPT !.milestones[i].approved = TRUE]
<1>1. /\ o.exists /\ i \in 1 .. Len(c.milestones)
      /\ campaign' = [campaign EXCEPT ![id] = e] /\ fundBal' = fundBal
      /\ now' = now /\ nextId' = nextId
  BY DEF Crowdfund!ApproveMilestone, Crowdfund!Save
<1>2. Sound(o, now) /\ now \in Nat
  BY <1>1 DEF FundInv
<1>3. /\ Sound(c, now) /\ c.amount_raised = o.amount_raised
      /\ c.amount_claimed = o.amount_claimed /\ c.refunded_amount = o.refunded_amount
  BY <1>2, RefreshedSound
<1> HIDE DEF c, o
<1>4. c \in Campaign /\ c.milestones \in Seq(Milestone)
  BY <1>3 DEF Sound, Campaign
<1> DEFINE m == c.milestones
           mi == m[i]
           ri == [mi EXCEPT !.approved = TRUE]
           r == [m EXCEPT ![i] = ri]
<1>5. ri \in Milestone /\ ri.payout_amount = mi.payout_amount /\ ri.claimed = mi.claimed /\ ri.approved
  <2>1. mi \in Milestone
    BY <1>1, <1>4
  <2> HIDE DEF mi
  <2> QED BY <2>1 DEF Milestone
<1> HIDE DEF ri
<1>6. /\ r \in Seq(Milestone) /\ Len(r) = Len(m) /\ r[i] = ri
      /\ \A j \in 1 .. Len(m) : j # i => r[j] = m[j]
  BY <1>1, <1>4, <1>5
<1>7. /\ e \in Campaign /\ e.milestones = r
      /\ e.contributions = c.contributions /\ e.amount_raised = c.amount_raised
      /\ e.amount_claimed = c.amount_claimed /\ e.refunded_amount = c.refunded_amount
      /\ e.refunded_backers = c.refunded_backers
      /\ e.goal_amount = c.goal_amount /\ e.status = c.status /\ e.deadline = c.deadline
  <2>1. e = [c EXCEPT !.milestones = r]
    BY <1>1, <1>4 DEF ri, Campaign
  <2> HIDE DEF e, r
  <2> QED BY <1>4, <1>6, <2>1 DEF Campaign
<1> HIDE DEF e, r
<1>8. Claimed(e) = Claimed(c)
  BY <1>5, <1>6, <1>7 DEF Claimed
<1>9. PaidOut(e) = PaidOut(c)
  <2>1. [j \in Claimed(e) |-> e.milestones[j].payout_amount]
          = [j \in Claimed(c) |-> c.milestones[j].payout_amount]
    <3>1. \A j \in Claimed(c) : r[j].payout_amount = m[j].payout_amount
      BY <1>5, <1>6 DEF Claimed
    <3> QED BY <1>7, <1>8, <3>1
  <2> QED BY <2>1 DEF PaidOut
<1>10. \A j \in Claimed(e) : e.milestones[j].approved
  <2>1. \A j \in Claimed(c) : m[j].approved /\ j \in 1 .. Len(m)
    BY <1>3 DEF Sound, Claimed
  <2> QED BY <1>5, <1>6, <1>7, <1>8, <2>1
<1>11. Refunds(e) = Refunds(c)
  BY <1>7 DEF Refunds
<1>12. Sound(e, now)
  BY <1>3, <1>7, <1>9, <1>10, <1>11 DEF Sound
<1>13. Left(e) = Left(o)
  BY <1>3, <1>7 DEF Left
<1>14. fundBal' \in Balances /\ \A t \in Token : fundBal'[t][Self] - fundBal[t][Self] = 0
  <2>1. fundBal \in Balances /\ Self \in Account
    BY DEF FundInv, Account
  <2>2. \A t \in Token : fundBal[t][Self] \in Nat
    BY <2>1 DEF Balances
  <2> QED BY <1>1, <2>1, <2>2
<1>15. Left(o) \in Int
  BY <1>2 DEF Left, Sound, Campaign
<1>16. Left(e) - Left(o) = 0
  BY <1>13, <1>15
<1>17. Settled(id, e)
  BY <1>1, <1>12, <1>14, <1>16 DEF Settled, o
<1> QED BY <1>17

\* claim_milestone
LEMMA ClaimSettled ==
  ASSUME FundInv, NEW id \in Crowdfund!Ids, NEW i, Crowdfund!ClaimMilestone(id, i)
  PROVE  \E c : Settled(id, c)
<1> DEFINE o == campaign[id]
           c == Crowdfund!Refreshed(o)
           pay == c.milestones[i].payout_amount
           e == [c EXCEPT !.milestones[i].claimed = TRUE, !.amount_claimed = @ + pay]
           d == Crowdfund!Refreshed(e)
<1>1. /\ o.exists /\ i \in 1 .. Len(c.milestones) /\ c.status = "Successful"
      /\ c.milestones[i].approved /\ ~c.milestones[i].claimed
      /\ c.amount_claimed + pay <= c.amount_raised
      /\ Crowdfund!Transfer(Self, c.creator, pay)
      /\ campaign' = [campaign EXCEPT ![id] = d]
      /\ now' = now /\ nextId' = nextId
  BY DEF Crowdfund!ClaimMilestone, Crowdfund!Save
<1>2. Sound(o, now) /\ now \in Nat
  BY <1>1 DEF FundInv
<1>3. /\ Sound(c, now) /\ c.amount_raised = o.amount_raised
      /\ c.amount_claimed = o.amount_claimed /\ c.refunded_amount = o.refunded_amount
      /\ c.amount_raised >= c.goal_amount
  BY <1>1, <1>2, RefreshedSound
<1> HIDE DEF c, o
<1>4. /\ c \in Campaign /\ c.milestones \in Seq(Milestone) /\ c.creator \in Addr
      /\ c.amount_raised \in Nat /\ c.amount_claimed \in Nat /\ c.refunded_amount \in Nat
      /\ c.goal_amount \in Int
  BY <1>3 DEF Sound, Campaign
<1> DEFINE m == c.milestones
           mi == m[i]
           ri == [mi EXCEPT !.claimed = TRUE]
           r == [m EXCEPT ![i] = ri]
<1>5. /\ ri \in Milestone /\ ri.payout_amount = pay /\ ri.approved = mi.approved /\ ri.claimed
      /\ pay \in Nat
  <2>1. mi \in Milestone
    BY <1>1, <1>4
  <2>2. pay = mi.payout_amount
    OBVIOUS
  <2> HIDE DEF mi, pay
  <2> QED BY <2>1, <2>2 DEF Milestone
<1>6. /\ r \in Seq(Milestone) /\ Len(r) = Len(m) /\ r[i] = ri
      /\ \A j \in 1 .. Len(m) : j # i => r[j] = m[j]
  <2> HIDE DEF ri
  <2> QED BY <1>1, <1>4, <1>5
<1>7. /\ e \in Campaign /\ e.milestones = r
      /\ e.contributions = c.contributions /\ e.amount_raised = c.amount_raised
      /\ e.amount_claimed = c.amount_claimed + pay /\ e.refunded_amount = c.refunded_amount
      /\ e.refunded_backers = c.refunded_backers
      /\ e.goal_amount = c.goal_amount /\ e.status = c.status /\ e.deadline = c.deadline
  <2>1. e = [c EXCEPT !.milestones = r, !.amount_claimed = c.amount_claimed + pay]
    BY <1>1, <1>4 DEF ri, Campaign
  <2>2. c.amount_claimed + pay \in Nat
    BY <1>4, <1>5
  <2> HIDE DEF e, r, pay
  <2> QED BY <1>4, <1>6, <2>1, <2>2 DEF Campaign
<1> HIDE DEF e, r, ri, pay
<1>8. Claimed(e) = Claimed(c) \cup {i} /\ i \notin Claimed(c)
  BY <1>1, <1>5, <1>6, <1>7 DEF Claimed
<1>9. PaidOut(e) = PaidOut(c) + pay
  <2> DEFINE k == [j \in 1 .. Len(m) |-> r[j].payout_amount]
             T == Claimed(c)
  <2>1. /\ \A j \in 1 .. Len(m) : r[j].payout_amount \in Nat
        /\ T \subseteq 1 .. Len(m) /\ IsFiniteSet(T)
    <3>1. \A j \in 1 .. Len(m) : r[j] \in Milestone
      BY <1>6
    <3>2. IsFiniteSet(T)
      BY <1>4, SoundSums, PlansAssumption
    <3> QED BY <3>1, <3>2 DEF Milestone, Claimed
  <2>2. \A j \in T \cup {i} : k[j] \in Nat
    BY <1>1, <2>1
  <2>3. [j \in T |-> k[j]] = [j \in Claimed(c) |-> c.milestones[j].payout_amount]
    BY <1>6, <1>8, <2>1
  <2>4. [j \in T \cup {i} |-> k[j]] = [j \in Claimed(e) |-> e.milestones[j].payout_amount]
    BY <1>1, <1>7, <1>8, <2>1
  <2>5. k[i] = pay
    BY <1>1, <1>5, <1>6
  <2>6. i \notin T
    BY <1>8
  <2>7. Total([j \in T \cup {i} |-> k[j]]) = Total([j \in T |-> k[j]]) + k[i]
    <3> HIDE DEF k, T
    <3> QED BY <2>1, <2>2, <2>6, TotalOneMore
  <2> QED BY <2>3, <2>4, <2>5, <2>7 DEF PaidOut
<1>10. \A j \in Claimed(e) : e.milestones[j].approved
  <2>1. \A j \in Claimed(c) : m[j].approved /\ j \in 1 .. Len(m)
    BY <1>3 DEF Sound, Claimed
  <2> QED BY <1>1, <1>5, <1>6, <1>7, <1>8, <2>1
<1>11. Refunds(e) = Refunds(c)
  BY <1>7 DEF Refunds
<1>12. Sound(e, now)
  BY <1>1, <1>3, <1>7, <1>9, <1>10, <1>11 DEF Sound
<1>13. /\ Sound(d, now) /\ d.amount_raised = e.amount_raised
       /\ d.amount_claimed = e.amount_claimed /\ d.refunded_amount = e.refunded_amount
  BY <1>2, <1>12, RefreshedSound
<1> HIDE DEF d
<1>14. Left(d) - Left(o) = 0 - pay
  BY <1>3, <1>4, <1>5, <1>7, <1>13 DEF Left
<1>15. c.creator \in Account /\ Self \in Account /\ c.creator # Self
  BY <1>4, AccountsAssumption DEF Account
<1>16. /\ fundBal' \in Balances
       /\ \A t \in Token : fundBal'[t][Self] = fundBal[t][Self] - pay
  <2>1. PICK to \in Account : to = c.creator
    BY <1>15
  <2>2. Crowdfund!Transfer(Self, to, pay) /\ to # Self
    BY <1>1, <1>15, <2>1
  <2>3. /\ fundBal' \in Balances
        /\ \A t \in Token, a \in Account :
             fundBal'[t][a] = IF a = Self THEN fundBal[t][a] - pay
                              ELSE IF a = to THEN fundBal[t][a] + pay ELSE fundBal[t][a]
    BY <1>5, <1>15, <2>2, FundTransfer
  <2> QED BY <1>15, <2>3
<1>17. \A t \in Token : fundBal'[t][Self] - fundBal[t][Self] = Left(d) - Left(o)
  <2> TAKE t \in Token
  <2>1. fundBal[t][Self] \in Nat
    BY <1>15 DEF FundInv, Balances
  <2> QED BY <1>5, <1>14, <1>16, <2>1
<1>18. Settled(id, d)
  BY <1>1, <1>13, <1>16, <1>17 DEF Settled, o
<1> QED BY <1>18

\* refund
LEMMA RefundSettled ==
  ASSUME FundInv, NEW id \in Crowdfund!Ids, NEW b \in Bidders, Crowdfund!Refund(id, b)
  PROVE  \E c : Settled(id, c)
<1> DEFINE o == campaign[id]
           c == Crowdfund!Refreshed(o)
           n == c.contributions[b]
           e == [c EXCEPT !.refunded_backers = @ \cup {b}, !.refunded_amount = @ + n]
<1>1. /\ o.exists /\ c.status = "Failed" /\ n > 0 /\ b \notin c.refunded_backers
      /\ Crowdfund!Transfer(Self, b, n)
      /\ campaign' = [campaign EXCEPT ![id] = e]
      /\ now' = now /\ nextId' = nextId
  BY DEF Crowdfund!Refund, Crowdfund!Save
<1>2. Sound(o, now) /\ now \in Nat
  BY <1>1 DEF FundInv
<1>3. /\ Sound(c, now) /\ c.amount_raised = o.amount_raised
      /\ c.amount_claimed = o.amount_claimed /\ c.refunded_amount = o.refunded_amount
      /\ c.amount_raised < c.goal_amount /\ now > c.deadline
  BY <1>1, <1>2, RefreshedSound
<1> HIDE DEF c, o
<1>4. /\ c \in Campaign /\ c.amount_raised \in Nat /\ c.amount_claimed \in Nat
      /\ c.refunded_amount \in Nat /\ c.goal_amount \in Int /\ n \in Nat
      /\ c.contributions \in [Bidders -> Nat] /\ c.refunded_backers \subseteq Bidders
  BY <1>3 DEF Sound, Campaign
<1> HIDE DEF n
<1>5. /\ e \in Campaign /\ e.milestones = c.milestones
      /\ e.contributions = c.contributions /\ e.amount_raised = c.amount_raised
      /\ e.amount_claimed = c.amount_claimed /\ e.refunded_amount = c.refunded_amount + n
      /\ e.refunded_backers = c.refunded_backers \cup {b}
      /\ e.goal_amount = c.goal_amount /\ e.status = c.status /\ e.deadline = c.deadline
  <2> DEFINE B == c.refunded_backers \cup {b}
             x == c.refunded_amount + n
  <2>1. e = [c EXCEPT !.refunded_backers = B, !.refunded_amount = x]
    BY <1>4 DEF Campaign
  <2>2. B \in SUBSET Bidders /\ x \in Nat
    BY <1>4
  <2> HIDE DEF e, B, x
  <2>3. /\ e \in Campaign /\ e.milestones = c.milestones
        /\ e.contributions = c.contributions /\ e.amount_raised = c.amount_raised
        /\ e.amount_claimed = c.amount_claimed /\ e.refunded_amount = x
        /\ e.refunded_backers = B
        /\ e.goal_amount = c.goal_amount /\ e.status = c.status /\ e.deadline = c.deadline
    BY <1>4, <2>1, <2>2 DEF Campaign
  <2> QED BY <2>3 DEF B, x
<1> HIDE DEF e
<1>6. Refunds(e) = Refunds(c) + n
  <2> DEFINE k == c.contributions
             T == c.refunded_backers
  <2>1. IsFiniteSet(T) /\ b \notin T /\ \A a \in T \cup {b} : k[a] \in Nat
    BY <1>1, <1>4, PlansAssumption, FS_Subset
  <2>2. Total([a \in T \cup {b} |-> k[a]]) = Total([a \in T |-> k[a]]) + k[b]
    <3> HIDE DEF k, T
    <3> QED BY <2>1, TotalOneMore
  <2> QED BY <1>5, <2>2 DEF Refunds, n
<1>7. Claimed(e) = Claimed(c) /\ PaidOut(e) = PaidOut(c)
  BY <1>5 DEF Claimed, PaidOut
<1>8. Sound(e, now)
  BY <1>1, <1>3, <1>5, <1>6, <1>7 DEF Sound
<1>9. Left(e) - Left(o) = 0 - n
  BY <1>3, <1>4, <1>5 DEF Left
<1>10. b \in Account /\ Self \in Account /\ b # Self
  BY AccountsAssumption DEF Account
<1>11. /\ fundBal' \in Balances
       /\ \A t \in Token : fundBal'[t][Self] = fundBal[t][Self] - n
  BY <1>1, <1>4, <1>10, FundTransfer
<1>12. \A t \in Token : fundBal'[t][Self] - fundBal[t][Self] = Left(e) - Left(o)
  <2> TAKE t \in Token
  <2>1. fundBal[t][Self] \in Nat
    BY <1>10 DEF FundInv, Balances
  <2> QED BY <1>4, <1>9, <1>11, <2>1
<1>13. Settled(id, e)
  BY <1>1, <1>8, <1>11, <1>12 DEF Settled, o
<1> QED BY <1>13

\* get_campaign
LEMMA GetSettled ==
  ASSUME FundInv, NEW id \in Crowdfund!Ids, Crowdfund!GetCampaign(id)
  PROVE  \E c : Settled(id, c)
<1> DEFINE o == campaign[id]
           c == Crowdfund!Refreshed(o)
<1>1. /\ o.exists /\ campaign' = [campaign EXCEPT ![id] = c] /\ fundBal' = fundBal
      /\ now' = now /\ nextId' = nextId
  BY DEF Crowdfund!GetCampaign, Crowdfund!Save
<1>2. Sound(o, now) /\ now \in Nat
  BY <1>1 DEF FundInv
<1>3. /\ Sound(c, now) /\ c.amount_raised = o.amount_raised
      /\ c.amount_claimed = o.amount_claimed /\ c.refunded_amount = o.refunded_amount
  BY <1>2, RefreshedSound
<1> HIDE DEF c, o
<1>4. Left(c) - Left(o) = 0
  <2>1. c.amount_raised \in Int /\ c.amount_claimed \in Int /\ c.refunded_amount \in Int
    BY <1>3 DEF Sound, Campaign
  <2> QED BY <1>3, <2>1 DEF Left
<1>5. fundBal' \in Balances /\ \A t \in Token : fundBal'[t][Self] - fundBal[t][Self] = 0
  <2>1. fundBal \in Balances /\ Self \in Account
    BY DEF FundInv, Account
  <2>2. \A t \in Token : fundBal[t][Self] \in Nat
    BY <2>1 DEF Balances
  <2> QED BY <1>1, <2>1, <2>2
<1>6. Settled(id, c)
  BY <1>1, <1>3, <1>4, <1>5 DEF Settled, o
<1> QED BY <1>6

\* What a campaign still has is a natural number.
LEMMA LeftNat ==
  ASSUME NEW c, NEW n, Sound(c, n)
  PROVE  Left(c) \in Nat /\ (c.amount_claimed = 0 \/ c.refunded_amount = 0)
           /\ (c.refunded_amount > 0 => c.refunded_backers # {})
<1>1. /\ c \in Campaign /\ c.amount_raised \in Nat /\ c.amount_claimed \in Nat
      /\ c.refunded_amount \in Nat /\ c.goal_amount \in Int
  BY DEF Sound, Campaign
<1>2. c.refunded_amount <= c.amount_raised
  BY <1>1, SoundSums, PlansAssumption DEF Sound
<1>3. CASE c.refunded_backers = {}
  <2>1. [b \in c.refunded_backers |-> c.contributions[b]] \in [{} -> Nat]
    BY <1>3
  <2>2. Refunds(c) = 0
    BY <2>1, TotalZero DEF Refunds
  <2>3. c.refunded_amount = 0 /\ c.amount_claimed <= c.amount_raised
    BY <2>2 DEF Sound
  <2> QED BY <1>1, <2>3 DEF Left
<1>4. CASE c.refunded_backers # {}
  <2>1. c.amount_claimed = 0
    BY <1>1, <1>4 DEF Sound
  <2> QED BY <1>1, <1>2, <1>4, <2>1 DEF Left
<1> QED BY <1>3, <1>4

\* create_campaign: the new campaign has nothing yet.
LEMMA CreateSound ==
  ASSUME FundInv, NEW p \in Plans, Crowdfund!CreateCampaign(p)
  PROVE  \E c : /\ nextId \in Crowdfund!Ids /\ Sound(c, now) /\ Left(c) = 0
                /\ campaign' = [campaign EXCEPT ![nextId] = c]
                /\ now' = now /\ nextId' = nextId + 1 /\ fundBal' = fundBal
<1> DEFINE zero == [b \in Bidders |-> 0]
           ms == [i \in 1 .. Len(p.payouts) |->
                    [payout_amount |-> p.payouts[i], approved |-> FALSE, claimed |-> FALSE]]
           c == [exists |-> TRUE, creator |-> p.creator, goal_amount |-> p.goal_amount,
                 deadline |-> p.deadline, amount_raised |-> 0, amount_claimed |-> 0,
                 refunded_amount |-> 0, status |-> "Active",
                 contributions |-> zero, refunded_backers |-> {}, milestones |-> ms]
<1>1. /\ nextId <= MaxCampaigns /\ \A i \in 1 .. Len(p.payouts) : p.payouts[i] > 0
      /\ p.deadline > now
      /\ campaign' = [campaign EXCEPT ![nextId] = c]
      /\ now' = now /\ nextId' = nextId + 1 /\ fundBal' = fundBal
  BY DEF Crowdfund!CreateCampaign
<1>2. nextId \in Crowdfund!Ids
  BY <1>1, PlansAssumption DEF FundInv, Crowdfund!Ids
<1>3. p \in Plan
  BY PlansAssumption
<1>4. p.payouts \in Seq(Int) /\ p.creator \in Addr /\ p.goal_amount \in Int /\ p.deadline \in Nat
  BY <1>3 DEF Plan
<1>5. ms \in Seq(Milestone) /\ Len(ms) = Len(p.payouts)
        /\ \A i \in 1 .. Len(ms) : ~ms[i].claimed
  <2>1. Len(p.payouts) \in Nat /\ \A i \in 1 .. Len(p.payouts) : p.payouts[i] \in Nat
    BY <1>1, <1>4
  <2>2. \A i \in 1 .. Len(p.payouts) :
          [payout_amount |-> p.payouts[i], approved |-> FALSE, claimed |-> FALSE] \in Milestone
    BY <2>1 DEF Milestone
  <2>3. ms \in [1 .. Len(p.payouts) -> Milestone]
    BY <2>2
  <2>4. \A i \in 1 .. Len(p.payouts) : ~ms[i].claimed
    OBVIOUS
  <2> HIDE DEF ms
  <2> QED BY <2>1, <2>3, <2>4
<1>6. zero \in [Bidders -> Nat] /\ Total(zero) = 0
  <2>1. zero \in [Bidders -> Nat] /\ \A b \in Bidders : zero[b] = 0
    OBVIOUS
  <2> HIDE DEF zero
  <2> QED BY <2>1, TotalZero
<1> HIDE DEF zero, ms
<1>7. c \in Campaign
  BY <1>4, <1>5, <1>6 DEF Campaign, Crowdfund!CampaignStatus
<1>8. /\ c.milestones = ms /\ c.contributions = zero /\ c.refunded_backers = {}
      /\ c.amount_raised = 0 /\ c.amount_claimed = 0 /\ c.refunded_amount = 0
  OBVIOUS
<1> HIDE DEF c
<1>9. Claimed(c) = {}
  BY <1>5, <1>8 DEF Claimed
<1>10. PaidOut(c) = 0 /\ Refunds(c) = 0
  <2>1. [i \in Claimed(c) |-> c.milestones[i].payout_amount] \in [{} -> Nat]
    BY <1>9
  <2>2. [b \in c.refunded_backers |-> c.contributions[b]] \in [{} -> Nat]
    BY <1>8
  <2> QED BY <2>1, <2>2, TotalZero DEF PaidOut, Refunds
<1>11. Sound(c, now) /\ Left(c) = 0
  BY <1>6, <1>7, <1>8, <1>9, <1>10 DEF Sound, Left
<1> QED BY <1>1, <1>2, <1>11

\* Every step settles a campaign, creates one or leaves all alone.
LEMMA FundStep ==
  ASSUME FundInv, Crowdfund!Next
  PROVE  /\ FundInv'
         /\ \/ UNCHANGED <<fundBal, campaign>>
            \/ \E id \in Crowdfund!Ids : \E c : Settled(id, c)
            \/ \E id \in Crowdfund!Ids : \E c :
                 /\ Sound(c, now) /\ Left(c) = 0 /\ fundBal' = fundBal
                 /\ campaign' = [campaign EXCEPT ![id] = c]
<1> DEFINE Stays == /\ UNCHANGED <<fundBal, campaign>> /\ now' \in Nat /\ now' >= now
                   /\ nextId' \in Nat \ {0}
           Moves(id) == \E c : Settled(id, c)
           Starts(id) == \E c : /\ Sound(c, now) /\ Left(c) = 0 /\ fundBal' = fundBal
                             /\ now' = now /\ nextId' = nextId + 1
                             /\ campaign' = [campaign EXCEPT ![id] = c]
<1>1. Stays \/ (\E id \in Crowdfund!Ids : Moves(id)) \/ (\E id \in Crowdfund!Ids : Starts(id))
  <2>1. ASSUME Crowdfund!Initialize \/ Crowdfund!Tick PROVE Stays
    BY <2>1 DEF Crowdfund!Initialize, Crowdfund!Tick, FundInv
  <2>2. ASSUME NEW p \in Plans, Crowdfund!CreateCampaign(p) PROVE \E id \in Crowdfund!Ids : Starts(id)
    BY <2>2, CreateSound
  <2>3. ASSUME NEW id \in Crowdfund!Ids, NEW b \in Bidders,
               Crowdfund!Refund(id, b) \/ \E n \in Amounts : Crowdfund!Contribute(id, b, n)
        PROVE  Moves(id)
    BY <2>3, RefundSettled, ContributeSettled
  <2>4. ASSUME NEW id \in Crowdfund!Ids,
               \/ \E i \in Crowdfund!Positions :
                    Crowdfund!ApproveMilestone(id, i) \/ Crowdfund!ClaimMilestone(id, i)
               \/ Crowdfund!GetCampaign(id)
        PROVE  Moves(id)
    BY <2>4, ApproveSettled, ClaimSettled, GetSettled
  <2> HIDE DEF Stays, Moves, Starts
  <2> QED BY <2>1, <2>2, <2>3, <2>4 DEF Crowdfund!Next
<1>2. CASE Stays
  <2>1. ASSUME NEW id \in Crowdfund!Ids, campaign[id].exists PROVE Sound(campaign[id], now')
    <3>1. Sound(campaign[id], now) /\ campaign[id].deadline \in Nat /\ now \in Nat
      BY <2>1 DEF FundInv, Sound, Campaign
    <3> QED BY <1>2, <3>1 DEF Sound
  <2> QED BY <1>2, <2>1 DEF FundInv
<1>3. ASSUME NEW id \in Crowdfund!Ids, NEW c, Sound(c, now), now' = now, fundBal' \in Balances,
             campaign' = [campaign EXCEPT ![id] = c], nextId' \in Nat \ {0}
      PROVE  FundInv'
  <2>1. c \in Campaign
    BY <1>3 DEF Sound
  <2>2. campaign' \in [Crowdfund!Ids -> Campaign \cup {Crowdfund!NoCampaign}]
    BY <1>3, <2>1 DEF FundInv
  <2>3. ASSUME NEW j \in Crowdfund!Ids, campaign'[j].exists PROVE Sound(campaign'[j], now')
    BY <1>3, <2>3 DEF FundInv
  <2> QED BY <1>3, <2>2, <2>3 DEF FundInv
<1>4. CASE \E id \in Crowdfund!Ids : Moves(id)
  BY <1>3, <1>4 DEF Settled, FundInv
<1>5. CASE \E id \in Crowdfund!Ids : Starts(id)
  <2>1. nextId + 1 \in Nat \ {0} /\ fundBal \in Balances
    BY DEF FundInv
  <2> QED BY <1>3, <1>5, <2>1
<1> QED BY <1>1, <1>2, <1>4, <1>5

\* Initially there are no campaigns.
LEMMA FundAtFirst == Crowdfund!Init => FundInv
<1> SUFFICES ASSUME Crowdfund!Init PROVE FundInv
  OBVIOUS
<1>1. fundBal \in Balances
  BY AccountsAssumption DEF Crowdfund!Init, Balances, Account, Crowdfund!Account
<1>2. \A id \in Crowdfund!Ids : ~campaign[id].exists
  BY DEF Crowdfund!Init, Crowdfund!NoCampaign
<1> QED BY <1>1, <1>2 DEF Crowdfund!Init, FundInv

\* The books of sound campaigns are those of CampaignBooks, and a campaign that
\* does not exist has empty books.
LEMMA BooksInOrder == FundInv => CampaignBooks
<1> SUFFICES ASSUME FundInv, NEW id \in Crowdfund!Ids
             PROVE  LET c == campaign[id]
                        claimed == {i \in 1 .. Len(c.milestones) : c.milestones[i].claimed}
                    IN /\ c.amount_claimed = 0 \/ c.refunded_amount = 0
                       /\ c.refunded_amount > 0 => c.status = "Failed" /\ c.amount_raised < c.goal_amount
                       /\ c.amount_raised = Crowdfund!Total(c.contributions)
                       /\ c.refunded_amount = Crowdfund!Total([b \in c.refunded_backers |-> c.contributions[b]])
                       /\ c.amount_claimed = Crowdfund!Payouts(c.milestones, claimed)
                       /\ c.amount_claimed + c.refunded_amount <= c.amount_raised
                       /\ \A i \in claimed : c.milestones[i].approved
  BY DEF CampaignBooks, Crowdfund!CampaignBooks
<1> DEFINE c == campaign[id]
<1>1. Claimed(c) = {i \in 1 .. Len(c.milestones) : c.milestones[i].claimed}
  BY DEF Claimed
<1>2. /\ Crowdfund!Total(c.contributions) = Total(c.contributions)
      /\ Crowdfund!Total([b \in c.refunded_backers |-> c.contributions[b]]) = Refunds(c)
      /\ Crowdfund!Payouts(c.milestones, Claimed(c)) = PaidOut(c)
  BY FundTotal DEF Refunds, PaidOut, Crowdfund!Payouts
<1>3. CASE c.exists
  <2> HIDE DEF c
  <2>1. Sound(c, now)
    BY <1>3 DEF FundInv, c
  <2>2. Left(c) \in Nat /\ (c.amount_claimed = 0 \/ c.refunded_amount = 0)
           /\ (c.refunded_amount > 0 => c.refunded_backers # {})
    BY <2>1, LeftNat
  <2>3. c.amount_raised \in Nat /\ c.amount_claimed \in Nat /\ c.refunded_amount \in Nat
    BY <2>1 DEF Sound, Campaign
  <2>4. c.amount_claimed + c.refunded_amount <= c.amount_raised
    BY <2>2, <2>3 DEF Left
  <2>5. /\ c.refunded_amount > 0 => c.status = "Failed" /\ c.amount_raised < c.goal_amount
        /\ c.amount_raised = Total(c.contributions)
        /\ c.refunded_amount = Refunds(c) /\ c.amount_claimed = PaidOut(c)
        /\ \A i \in Claimed(c) : c.milestones[i].approved
    BY <2>1, <2>2 DEF Sound
  <2> QED BY <1>1, <1>2, <2>2, <2>4, <2>5 DEF c
<1>4. CASE ~c.exists
  <2>1. c = Crowdfund!NoCampaign
    BY <1>4 DEF FundInv, Campaign
  <2>2. /\ c.amount_raised = 0 /\ c.amount_claimed = 0 /\ c.refunded_amount = 0
        /\ c.contributions = [b \in Bidders |-> 0] /\ c.refunded_backers = {}
        /\ c.milestones = <<>>
    BY <2>1 DEF Crowdfund!NoCampaign
  <2> HIDE DEF c
  <2>3. Claimed(c) = {}
    BY <2>2 DEF Claimed
  <2>4. Total(c.contributions) = 0
    <3>1. c.contributions \in [Bidders -> Nat] /\ \A b \in Bidders : c.contributions[b] = 0
      BY <2>2
    <3> QED BY <3>1, TotalZero
  <2>5. Refunds(c) = 0 /\ PaidOut(c) = 0
    <3>1. [i \in Claimed(c) |-> c.milestones[i].payout_amount] \in [{} -> Nat]
      BY <2>3
    <3>2. [b \in c.refunded_backers |-> c.contributions[b]] \in [{} -> Nat]
      BY <2>2
    <3> QED BY <3>1, <3>2, TotalZero DEF PaidOut, Refunds
  <2> QED BY <1>1, <1>2, <2>2, <2>3, <2>4, <2>5 DEF c
<1> QED BY <1>3, <1>4

(* The crowdfunding as a custodian. *)
FundPool == [t \in Token |-> fundBal[t][Self]]
FundOwed ==
  [t \in Token |-> [id \in Crowdfund!Ids |-> Crowdfund!Available(campaign[id])]]

\* The campaigns owe nothing at first.
LEMMA FundCustodyInit == Crowdfund!Init => Crowdfund!C!Init
<1> SUFFICES ASSUME Crowdfund!Init PROVE Crowdfund!C!Init
  OBVIOUS
<1>1. FundPool \in [Token -> Nat]
  BY FundAtFirst DEF FundPool, FundInv, Balances, Account
<1>2. \A id \in Crowdfund!Ids : Crowdfund!Available(campaign[id]) = 0
  BY DEF Crowdfund!Init, Crowdfund!NoCampaign, Crowdfund!Available
<1>3. FundOwed = [t \in Token |-> [id \in Crowdfund!Ids |-> 0]]
  BY <1>2 DEF FundOwed
<1> QED BY <1>1, <1>3 DEF Crowdfund!C!Init, FundPool, FundOwed

\* What is left of a campaign changes with the balance of the contract.
LEMMA FundCustodyStep ==
  FundInv /\ Crowdfund!Next => Crowdfund!C!Next \/ UNCHANGED <<FundPool, FundOwed>>
<1> SUFFICES ASSUME FundInv, Crowdfund!Next
             PROVE  Crowdfund!C!Next \/ UNCHANGED <<FundPool, FundOwed>>
  OBVIOUS
<1>1. CASE UNCHANGED <<fundBal, campaign>>
  BY <1>1 DEF FundPool, FundOwed, Crowdfund!Available
<1>2. ASSUME NEW id \in Crowdfund!Ids, NEW c, Left(c) \in Nat, fundBal' \in Balances,
             campaign' = [campaign EXCEPT ![id] = c],
             \/ \A t \in Token : fundBal'[t][Self] - fundBal[t][Self] = Left(c) - Left(campaign[id])
             \/ Left(c) = 0 /\ fundBal' = fundBal
      PROVE  Crowdfund!C!Next
  <2>1. PICK t \in Token : Token = {t}
    BY PlansAssumption
  <2> DEFINE o == Left(c)
             old == Left(campaign[id])
             p == fundBal'[t][Self]
  <2>2. fundBal \in Balances /\ Self \in Account
          /\ campaign \in [Crowdfund!Ids -> Campaign \cup {Crowdfund!NoCampaign}]
    BY DEF FundInv, Account
  <2>3. old \in Nat
    <3>1. CASE campaign[id].exists
      BY <3>1, LeftNat DEF FundInv
    <3>2. CASE campaign[id] = Crowdfund!NoCampaign
      BY <3>2 DEF Crowdfund!NoCampaign, Left
    <3> QED BY <2>2, <3>1, <3>2 DEF Campaign
  <2>4. p \in Nat /\ fundBal[t][Self] \in Nat
    BY <1>2, <2>2 DEF Balances
  <2>5. \/ o >= old /\ p >= fundBal[t][Self] + (o - old)
        \/ o <= old /\ fundBal[t][Self] <= p + (old - o)
    <3>1. CASE p - fundBal[t][Self] = o - old
      <4> HIDE DEF o, old, p
      <4> QED BY <1>2, <2>3, <2>4, <3>1 DEF o
    <3>2. CASE o = 0 /\ fundBal' = fundBal
      BY <2>3, <2>4, <3>2
    <3> QED BY <1>2, <3>1, <3>2
  <2>6. FundPool[t] = fundBal[t][Self] /\ FundPool'[t] = p
    BY DEF FundPool
  <2>7. FundPool' = [FundPool EXCEPT ![t] = p]
    <3>1. FundPool' = [x \in {t} |-> fundBal'[x][Self]] /\ FundPool = [x \in {t} |-> fundBal[x][Self]]
      BY <2>1 DEF FundPool
    <3> QED BY <3>1
  <2>8. \A i \in Crowdfund!Ids : Left(campaign'[i]) = IF i = id THEN o ELSE Left(campaign[i])
    BY <1>2, <2>2
  <2>9. /\ FundOwed = [u \in {t} |-> [i \in Crowdfund!Ids |-> Left(campaign[i])]]
        /\ FundOwed' = [u \in {t} |-> [i \in Crowdfund!Ids |-> Left(campaign'[i])]]
    BY <2>1 DEF FundOwed, Crowdfund!Available, Left
  <2>10. FundOwed[t][id] = old /\ FundOwed'[t][id] = o
           /\ FundOwed' = [FundOwed EXCEPT ![t][id] = o]
    <3> HIDE DEF o
    <3> QED BY <2>8, <2>9
  <2>11. Crowdfund!C!Only(t, id)
    <3>1. FundPool'[t] \in Nat /\ FundOwed'[t][id] \in Nat
      BY <1>2, <2>4, <2>6, <2>10
    <3> QED BY <2>6, <2>7, <2>10, <3>1 DEF Crowdfund!C!Only, FundPool, FundOwed
  <2>12. Crowdfund!C!Deposit(t, id) \/ Crowdfund!C!Discharge(t, id)
    <3> HIDE DEF o, old, p
    <3> QED BY <2>5, <2>6, <2>10, <2>11
        DEF Crowdfund!C!Deposit, Crowdfund!C!Discharge, FundPool, FundOwed
  <2> QED BY <2>12 DEF Crowdfund!C!Next
<1>3. CASE \E id \in Crowdfund!Ids : \E c : Settled(id, c)
  <2>1. PICK id \in Crowdfund!Ids : \E c : Settled(id, c)
    BY <1>3
  <2>2. PICK c : Settled(id, c)
    BY <2>1
  <2>3. Left(c) \in Nat
    BY <2>2, LeftNat DEF Settled
  <2> QED BY <1>2, <2>2, <2>3 DEF Settled
<1>4. CASE \E id \in Crowdfund!Ids : \E c :
             /\ Sound(c, now) /\ Left(c) = 0 /\ fundBal' = fundBal
             /\ campaign' = [campaign EXCEPT ![id] = c]
  <2>1. PICK id \in Crowdfund!Ids : \E c :
             /\ Sound(c, now) /\ Left(c) = 0 /\ fundBal' = fundBal
             /\ campaign' = [campaign EXCEPT ![id] = c]
    BY <1>4
  <2>2. PICK c :
             /\ Sound(c, now) /\ Left(c) = 0 /\ fundBal' = fundBal
             /\ campaign' = [campaign EXCEPT ![id] = c]
    BY <2>1
  <2>3. Left(c) \in Nat /\ fundBal' \in Balances
    BY <2>2 DEF FundInv
  <2> QED BY <1>2, <2>2, <2>3
<1> QED BY <1>1, <1>3, <1>4, FundStep

-----------------------------------------------------------------------------
(***************************************************************************)
(* The insurance pool.                                                     *)
(***************************************************************************)
Policy ==
  [coverage_amount : Int, premium_paid : Nat, premium_rate : Int, start_time : Nat,
   end_time : Nat, status : {"Active", "Cancelled"}]

\* A claim as the pool records it.
Claim ==
  [contract : Covered, claim_amount : Nat, submission_time : Nat,
   status : {"Submitted", "Approved", "Rejected", "Paid"}, payout_amount : Nat]

\* The types of the pool.
PoolTypes ==
  /\ poolBal \in Balances /\ pool \in Nat /\ reserve \in Int
  /\ policy \in [Covered -> Policy \cup {None}]
  /\ claim \in Seq(Claim)
  /\ risk \in [Covered -> [level : Insurance!RiskLevel, total_claims : Nat] \cup {None}]
  /\ config \in Config \cup {None}

\* The pool is the contract's whole balance, and neither policies nor claims
\* come before the configuration.
PoolInv ==
  /\ now \in Nat
  /\ PoolTypes
  /\ \A t \in Token : poolBal[t][Self] = pool
  /\ \A c \in Covered : policy[c] # None => policy[c].start_time <= now
  /\ config = None => pool = 0 /\ claim = <<>> /\ \A c \in Covered : policy[c] = None

\* A part of an amount in basis points is at most the amount.
LEMMA PartWithin ==
  ASSUME NEW a \in Nat, NEW r \in 0 .. BASIS_POINTS
  PROVE  Insurance!Part(a, r) \in Nat /\ Insurance!Part(a, r) <= a
<1> DEFINE x == a * r
           q == x \div BASIS_POINTS
<1>1. BASIS_POINTS \in Nat \ {0} /\ r \in Nat /\ r <= BASIS_POINTS
  BY InsuranceAssumption
<1>2. a * r <= a * BASIS_POINTS /\ x \in Nat
  <2>1. r * a <= BASIS_POINTS * a /\ r * a \in Nat
    BY <1>1, ProductGrows
  <2>2. r * a = a * r /\ BASIS_POINTS * a = a * BASIS_POINTS
    BY <1>1
  <2> QED BY <2>1, <2>2
<1>3. q \in Nat /\ q * BASIS_POINTS <= x
  <2> HIDE DEF x
  <2> QED BY <1>1, <1>2
<1>4. q <= a
  <2> SUFFICES ASSUME a + 1 <= q PROVE FALSE
    BY <1>3
  <2>1. (a + 1) * BASIS_POINTS <= q * BASIS_POINTS
    BY <1>1, <1>3, ProductGrows
  <2>2. (a + 1) * BASIS_POINTS = a * BASIS_POINTS + BASIS_POINTS /\ a * BASIS_POINTS \in Nat
    BY <1>1
  <2>3. PICK p \in Nat, y \in Nat : p = a * BASIS_POINTS /\ y = q * BASIS_POINTS
    BY <1>1, <1>3
  <2>4. p + BASIS_POINTS <= y /\ y <= x /\ x <= p
    BY <1>2, <1>3, <2>1, <2>2, <2>3
  <2> HIDE DEF x
  <2> QED BY <1>1, <1>2, <2>3, <2>4
<1> QED BY <1>3, <1>4 DEF Insurance!Part

\* A part of any whole number is a whole number.
LEMMA PartType ==
  ASSUME NEW a \in Int, NEW r \in Int
  PROVE  Insurance!Part(a, r) \in Int
<1>1. a * r \in Int /\ BASIS_POINTS \in Nat \ {0}
  BY InsuranceAssumption
<1> DEFINE x == a * r
<1> HIDE DEF x
<1>2. x \div BASIS_POINTS \in Int
  BY <1>1 DEF x
<1> QED BY <1>2 DEF Insurance!Part, x

\* Premiums and premium rates are whole numbers, a premium at least 1.
LEMMA PremiumType ==
  ASSUME NEW rate \in Int, NEW coverage \in Int, NEW period \in Nat
  PROVE  Insurance!Premium(rate, coverage, period) \in Nat
<1>1. SECONDS_PER_DAY \in Nat \ {0} /\ BASIS_POINTS \in Nat \ {0} /\ YEAR \in Nat \ {0}
  BY InsuranceAssumption
<1>2. PICK days \in Int : days = period \div SECONDS_PER_DAY
  BY <1>1
<1>3. PICK x \in Int : x = coverage * rate * days
  OBVIOUS
<1>4. PICK y \in Nat \ {0} : y = YEAR * BASIS_POINTS
  <2>1. YEAR * BASIS_POINTS \in Nat
    BY <1>1
  <2>2. 1 * BASIS_POINTS <= YEAR * BASIS_POINTS
    BY <1>1, ProductGrows
  <2>3. YEAR * BASIS_POINTS # 0
    BY <1>1, <2>1, <2>2
  <2> QED BY <2>1, <2>3
<1>5. PICK p \in Int : p = x \div y
  BY <1>4
<1>6. Insurance!Premium(rate, coverage, period) = IF p < 1 THEN 1 ELSE p
  BY <1>2, <1>3, <1>4, <1>5 DEF Insurance!Premium
<1> QED BY <1>6

\* A transfer of the token.
LEMMA PoolTransfer ==
  ASSUME poolBal \in Balances, NEW from \in Account, NEW to \in Account, from # to, NEW m \in Int,
         Insurance!Transfer(from, to, m)
  PROVE  /\ m \in Nat /\ poolBal' \in Balances
         /\ \A t \in Token : poolBal[t][from] >= m
         /\ \A t \in Token, a \in Account :
              poolBal'[t][a] = IF a = from THEN poolBal[t][a] - m
                               ELSE IF a = to THEN poolBal[t][a] + m ELSE poolBal[t][a]
<1>1. /\ m >= 0 /\ \A t \in Token : poolBal[t][from] >= m
      /\ poolBal' = [t \in Token |->
                       LET less == [poolBal[t] EXCEPT ![from] = @ - m]
                       IN [less EXCEPT ![to] = @ + m]]
  BY DEF Insurance!Transfer
<1>2. ASSUME NEW t \in Token
      PROVE  /\ poolBal'[t] \in [Account -> Nat]
             /\ \A a \in Account :
                  poolBal'[t][a] = IF a = from THEN poolBal[t][a] - m
                                   ELSE IF a = to THEN poolBal[t][a] + m ELSE poolBal[t][a]
  <2> DEFINE b == poolBal[t]
             less == [b EXCEPT ![from] = b[from] - m]
  <2>1. b \in [Account -> Nat] /\ b[from] >= m
    BY <1>1 DEF Balances
  <2>2. poolBal'[t] = [less EXCEPT ![to] = less[to] + m]
    BY <1>1
  <2> HIDE DEF b
  <2>3. /\ less \in [Account -> Nat]
        /\ \A a \in Account : less[a] = IF a = from THEN b[a] - m ELSE b[a]
    BY <1>1, <2>1
  <2> HIDE DEF less
  <2>4. /\ poolBal'[t] \in [Account -> Nat]
        /\ \A a \in Account : poolBal'[t][a] = IF a = to THEN less[a] + m ELSE less[a]
    BY <1>1, <2>2, <2>3
  <2>5. \A a \in Account : poolBal'[t][a] = IF a = from THEN b[a] - m
                                            ELSE IF a = to THEN b[a] + m ELSE b[a]
    BY <2>3, <2>4
  <2> QED BY <2>4, <2>5 DEF b
<1>3. poolBal' = [t \in Token |-> poolBal'[t]]
  BY <1>1
<1> QED BY <1>1, <1>2, <1>3 DEF Balances

\* What ClaimsPaidOnce asks of a step.
ClaimStep ==
  /\ Len(claim') >= Len(claim)
  /\ \A i \in Insurance!ClaimIds :
       \/ claim'[i] = claim[i]
       \/ /\ claim[i].status = "Submitted"
          /\ claim'[i].status \in {"Approved", "Rejected"}
          /\ claim'[i].payout_amount <= claim[i].claim_amount
          /\ pool' = pool
       \/ /\ claim[i].status = "Approved"
          /\ claim'[i] = [claim[i] EXCEPT !.status = "Paid"]
          /\ pool' = pool - claim[i].payout_amount
  /\ pool' < pool /\ claim' = claim =>
       (\E c \in Covered : policy'[c] # policy[c]) \/ (\E t \in Token : poolBal'[t][boss] > poolBal[t][boss])

\* What is collected is in the pool.
LEMMA PoolCollects ==
  ASSUME PoolInv, config \in Config, NEW from \in Addr, NEW m \in Int, Insurance!Collect(from, m)
  PROVE  /\ m \in Nat /\ poolBal' \in Balances /\ pool' = pool + m /\ pool' \in Nat
         /\ reserve' \in Int /\ \A t \in Token : poolBal'[t][Self] = pool'
<1>1. /\ Insurance!Transfer(from, Self, m) /\ pool' = pool + m
      /\ reserve' = reserve + Insurance!Part(m, config.reserve_ratio)
  BY DEF Insurance!Collect
<1>2. from \in Account /\ Self \in Account /\ from # Self
  BY AccountsAssumption DEF Account
<1>3. m \in Nat /\ poolBal' \in Balances /\ \A t \in Token : poolBal'[t][Self] = poolBal[t][Self] + m
  BY <1>1, <1>2, PoolTransfer DEF PoolInv, PoolTypes
<1>4. Insurance!Part(m, config.reserve_ratio) \in Int
  <2>1. config.reserve_ratio \in Int
    BY InsuranceAssumption DEF Config
  <2> QED BY <2>1, PartType
<1>5. PICK k \in Int : k = Insurance!Part(m, config.reserve_ratio)
  BY <1>4
<1>6. pool \in Nat /\ reserve \in Int /\ \A t \in Token : poolBal[t][Self] = pool
  BY DEF PoolInv, PoolTypes
<1>7. reserve' \in Int
  BY <1>1, <1>5, <1>6
<1> QED BY <1>1, <1>3, <1>6, <1>7

\* What is paid out was in the pool.
LEMMA PoolPays ==
  ASSUME PoolInv, NEW to \in Addr, NEW m \in Int, Insurance!Transfer(Self, to, m)
  PROVE  /\ m \in Nat /\ m <= pool /\ poolBal' \in Balances /\ pool - m \in Nat
         /\ \A t \in Token : poolBal'[t][Self] = pool - m
         /\ \A t \in Token : poolBal'[t][to] = poolBal[t][to] + m /\ poolBal[t][to] \in Nat
<1>1. to \in Account /\ Self \in Account /\ to # Self
  BY AccountsAssumption DEF Account
<1>2. /\ m \in Nat /\ poolBal' \in Balances
      /\ \A t \in Token : poolBal[t][Self] >= m /\ poolBal'[t][Self] = poolBal[t][Self] - m
      /\ \A t \in Token : poolBal'[t][to] = poolBal[t][to] + m
  BY <1>1, PoolTransfer DEF PoolInv, PoolTypes
<1>3. PICK t \in Token : Token = {t}
  BY PlansAssumption
<1>4. pool \in Nat /\ poolBal \in Balances /\ poolBal[t][Self] = pool
  BY DEF PoolInv, PoolTypes
<1> QED BY <1>1, <1>2, <1>3, <1>4 DEF Balances

\* Premium rates are whole numbers.
LEMMA RateType ==
  ASSUME config \in Config, NEW level \in Insurance!RiskLevel
  PROVE  Insurance!PremiumRate(level) \in Int
<1>1. PICK k \in Nat : k = CASE level = "Low" -> 80 [] level = "Medium" -> 100
                             [] level = "High" -> 150 [] level = "Critical" -> 200
  BY DEF Insurance!RiskLevel
<1>2. config.base_premium_rate \in Int
  BY DEF Config
<1>3. PICK x \in Int : x = config.base_premium_rate * k
  BY <1>2
<1>4. Insurance!PremiumRate(level) = x \div 100
  BY <1>1, <1>3 DEF Insurance!PremiumRate
<1> QED BY <1>4

\* A risk score.
Score == [level : Insurance!RiskLevel, total_claims : Nat]

\* A contract without a risk score counts as a medium risk.
LEMMA ScoreType ==
  ASSUME PoolInv, NEW c \in Covered
  PROVE  Insurance!Scored(c) \in Score
<1>1. risk[c] \in Score \cup {None}
  BY DEF PoolInv, PoolTypes, Score
<1>2. [level |-> "Medium", total_claims |-> 0] \in Score
  BY DEF Score, Insurance!RiskLevel
<1> QED BY <1>1, <1>2 DEF Insurance!Scored

\* initialize
LEMMA InitializePool ==
  ASSUME PoolInv, Insurance!Initialize
  PROVE  PoolInv' /\ ClaimStep
<1>1. /\ config = None /\ config' = DEFAULT_CONFIG /\ pool' = 0 /\ reserve' = 0
      /\ UNCHANGED <<now, poolBal, policy, claim, risk>>
  BY DEF Insurance!Initialize
<1>2. PoolTypes'
  BY <1>1, InsuranceAssumption DEF PoolInv, PoolTypes
<1>3. \A t \in Token : poolBal'[t][Self] = pool'
  BY <1>1 DEF PoolInv
<1>4. PoolInv'
  BY <1>1, <1>2, <1>3, InsuranceAssumption DEF PoolInv
<1>5. ClaimStep
  BY <1>1 DEF PoolInv, PoolTypes, ClaimStep
<1> QED BY <1>4, <1>5

\* purchase_coverage
LEMMA PurchasePool ==
  ASSUME PoolInv, NEW c \in Covered, NEW n \in Coverages, NEW d \in Periods, NEW p \in Bidders,
         Insurance!PurchaseCoverage(c, n, d, p)
  PROVE  PoolInv' /\ ClaimStep
<1> DEFINE rate == Insurance!PremiumRate(Insurance!Scored(c).level)
           premium == Insurance!Premium(rate, n, d)
           q == [coverage_amount |-> n, premium_paid |-> premium, premium_rate |-> rate,
                 start_time |-> now, end_time |-> now + d, status |-> "Active"]
<1>1. /\ config # None
      /\ Insurance!Collect(p, premium)
      /\ policy' = [policy EXCEPT ![c] = q]
      /\ risk' = [risk EXCEPT ![c] = Insurance!Scored(c)]
      /\ UNCHANGED <<now, config, claim>>
  BY DEF Insurance!PurchaseCoverage, Insurance!Open, Insurance!Initialized
<1>2. config \in Config /\ PoolTypes /\ now \in Nat
  BY <1>1 DEF PoolInv, PoolTypes
<1>3. rate \in Int /\ n \in Int /\ d \in Nat
  <2>1. Insurance!Scored(c).level \in Insurance!RiskLevel
    BY ScoreType DEF Score
  <2> QED BY <1>2, <2>1, RateType, InsuranceAssumption
<1>4. premium \in Nat
  BY <1>3, PremiumType
<1>5. q \in Policy
  BY <1>2, <1>3, <1>4 DEF Policy
<1>6. q.start_time = now
  OBVIOUS
<1> HIDE DEF premium, q, rate
<1>7. /\ poolBal' \in Balances /\ pool' = pool + premium /\ pool' \in Nat
      /\ reserve' \in Int /\ \A t \in Token : poolBal'[t][Self] = pool'
  BY <1>1, <1>2, <1>4, PoolCollects, AccountsAssumption
<1>8. policy' \in [Covered -> Policy \cup {None}]
  BY <1>1, <1>2, <1>5 DEF PoolTypes
<1>9. risk' \in [Covered -> Score \cup {None}]
  BY <1>1, <1>2, ScoreType DEF PoolTypes, Score
<1>10. PoolTypes'
  BY <1>1, <1>2, <1>7, <1>8, <1>9 DEF PoolTypes, Score
<1>11. \A e \in Covered : policy'[e] # None => policy'[e].start_time <= now'
  BY <1>1, <1>2, <1>6 DEF PoolInv, PoolTypes
<1>12. PoolInv'
  BY <1>1, <1>2, <1>7, <1>10, <1>11, InsuranceAssumption DEF PoolInv
<1>13. ~(pool' < pool)
  BY <1>2, <1>4, <1>7 DEF PoolTypes
<1>14. Len(claim') >= Len(claim)
  BY <1>1, <1>2 DEF PoolTypes
<1> QED BY <1>1, <1>12, <1>13, <1>14 DEF ClaimStep
\* renew_coverage
LEMMA RenewPool ==
  ASSUME PoolInv, NEW c \in Covered, NEW d \in Periods, NEW p \in Bidders,
         Insurance!RenewCoverage(c, d, p)
  PROVE  PoolInv' /\ ClaimStep
<1>1. PICK q : q = policy[c]
  OBVIOUS
<1>2. PICK end : end = d + IF q.end_time > now THEN q.end_time ELSE now
  OBVIOUS
<1>3. PICK premium : premium = Insurance!Premium(q.premium_rate, q.coverage_amount, d)
  OBVIOUS
<1>4. /\ config # None /\ q # None
      /\ Insurance!Collect(p, premium)
      /\ policy' = [policy EXCEPT ![c].end_time = end, ![c].premium_paid = @ + premium]
      /\ UNCHANGED <<now, config, claim, risk>>
  BY <1>1, <1>2, <1>3 DEF Insurance!RenewCoverage, Insurance!Open, Insurance!Initialized
<1>5. config \in Config /\ PoolTypes /\ now \in Nat /\ q \in Policy /\ q.start_time <= now
  BY <1>1, <1>4 DEF PoolInv, PoolTypes
<1>6. d \in Nat /\ end \in Nat /\ premium \in Nat
  <2>1. d \in Nat /\ q.end_time \in Nat /\ q.premium_rate \in Int /\ q.coverage_amount \in Int
    BY <1>5, InsuranceAssumption DEF Policy
  <2>2. premium \in Nat
    BY <1>3, <2>1, PremiumType
  <2> QED BY <1>2, <1>5, <2>1, <2>2
<1> DEFINE r == [q EXCEPT !.end_time = end, !.premium_paid = q.premium_paid + premium]
<1>7. policy' = [policy EXCEPT ![c] = r]
  <2>1. policy \in [Covered -> Policy \cup {None}]
    BY <1>5 DEF PoolTypes
  <2> QED BY <1>1, <1>4, <2>1
<1>8. r \in Policy /\ r.start_time = q.start_time
  <2>1. PICK x \in Nat : x = q.premium_paid + premium
    BY <1>5, <1>6 DEF Policy
  <2>2. r = [q EXCEPT !.end_time = end, !.premium_paid = x]
    BY <2>1
  <2> HIDE DEF r
  <2> QED BY <1>5, <1>6, <2>2 DEF Policy
<1> HIDE DEF r
<1>9. /\ poolBal' \in Balances /\ pool' = pool + premium /\ pool' \in Nat
      /\ reserve' \in Int /\ \A t \in Token : poolBal'[t][Self] = pool'
  BY <1>4, <1>5, <1>6, PoolCollects, AccountsAssumption
<1>10. policy' \in [Covered -> Policy \cup {None}]
  BY <1>5, <1>7, <1>8 DEF PoolTypes
<1>11. PoolTypes'
  BY <1>4, <1>5, <1>9, <1>10 DEF PoolTypes
<1>12. \A e \in Covered : policy'[e] # None => policy'[e].start_time <= now'
  BY <1>4, <1>5, <1>7, <1>8 DEF PoolInv, PoolTypes
<1>13. PoolInv'
  BY <1>4, <1>5, <1>9, <1>11, <1>12, InsuranceAssumption DEF PoolInv
<1>14. ~(pool' < pool)
  BY <1>5, <1>6, <1>9 DEF PoolTypes
<1>15. Len(claim') >= Len(claim)
  BY <1>4, <1>5 DEF PoolTypes
<1> QED BY <1>4, <1>13, <1>14, <1>15 DEF ClaimStep

\* What is refunded of a policy is a whole number.
LEMMA UnusedType ==
  ASSUME PoolInv, NEW q \in Policy, q.start_time <= now
  PROVE  Insurance!Unused(q) \in Int
<1>1. now \in Nat /\ q.end_time \in Nat /\ q.start_time \in Nat /\ q.premium_paid \in Nat
  BY DEF PoolInv, Policy
<1>2. CASE q.end_time > now
  <2>1. PICK k \in Nat \ {0} : k = q.end_time - q.start_time
    BY <1>1, <1>2
  <2>2. PICK x \in Int : x = q.premium_paid * (q.end_time - now)
    BY <1>1
  <2>3. Insurance!Unused(q) = x \div k
    BY <1>2, <2>1, <2>2 DEF Insurance!Unused
  <2> QED BY <2>3
<1> QED BY <1>2 DEF Insurance!Unused

\* cancel_coverage
LEMMA CancelPool ==
  ASSUME PoolInv, NEW c \in Covered, NEW p \in Bidders, Insurance!CancelCoverage(c, p)
  PROVE  PoolInv' /\ ClaimStep
<1>1. PICK refund : refund = Insurance!Unused(policy[c])
  OBVIOUS
<1>2. /\ policy[c] # None /\ policy[c].status = "Active"
      /\ policy' = [policy EXCEPT ![c].status = "Cancelled"]
      /\ Insurance!Transfer(Self, p, refund)
      /\ pool' = pool - refund
      /\ reserve' = reserve - Insurance!Part(refund, config.reserve_ratio)
      /\ UNCHANGED <<now, config, claim, risk>>
  BY <1>1 DEF Insurance!CancelCoverage
<1>3. PoolTypes /\ config \in Config /\ now \in Nat /\ policy[c] \in Policy /\ policy[c].start_time <= now
  BY <1>2 DEF PoolInv, PoolTypes
<1>4. refund \in Int
  BY <1>1, <1>3, UnusedType
<1>5. /\ poolBal' \in Balances /\ pool' \in Nat /\ \A t \in Token : poolBal'[t][Self] = pool'
  BY <1>2, <1>4, PoolPays, AccountsAssumption
<1>6. PICK k \in Int : k = Insurance!Part(refund, config.reserve_ratio)
  <2>1. config.reserve_ratio \in Int
    BY <1>3, InsuranceAssumption DEF Config
  <2> QED BY <1>4, <2>1, PartType
<1>7. reserve' \in Int
  BY <1>2, <1>3, <1>6 DEF PoolTypes
<1> DEFINE q == [policy[c] EXCEPT !.status = "Cancelled"]
<1>8. policy' = [policy EXCEPT ![c] = q]
  BY <1>2
<1>9. q \in Policy /\ q.start_time = policy[c].start_time /\ q.status = "Cancelled"
  BY <1>3 DEF Policy
<1> HIDE DEF q
<1>10. policy \in [Covered -> Policy \cup {None}] /\ policy' \in [Covered -> Policy \cup {None}]
  BY <1>3, <1>8, <1>9 DEF PoolTypes
<1>11. PoolTypes'
  BY <1>2, <1>3, <1>5, <1>7, <1>10 DEF PoolTypes
<1>12. \A e \in Covered : policy'[e] # None => policy'[e].start_time <= now'
  BY <1>2, <1>3, <1>8, <1>9, <1>10 DEF PoolInv
<1>13. PoolInv'
  BY <1>2, <1>3, <1>5, <1>11, <1>12, InsuranceAssumption DEF PoolInv
<1>14. policy'[c] # policy[c]
  <2>1. policy'[c].status = "Cancelled"
    BY <1>8, <1>9, <1>10
  <2> QED BY <1>2, <2>1
<1>15. Len(claim') >= Len(claim)
  BY <1>2, <1>3 DEF PoolTypes
<1> QED BY <1>2, <1>13, <1>14, <1>15 DEF ClaimStep
\* submit_claim
LEMMA SubmitPool ==
  ASSUME PoolInv, NEW c \in Covered, NEW n \in Amounts, Insurance!SubmitClaim(c, n)
  PROVE  PoolInv' /\ ClaimStep
<1> DEFINE new == [contract |-> c, claim_amount |-> n, submission_time |-> now,
                   status |-> "Submitted", payout_amount |-> 0]
           total == Insurance!Scored(c).total_claims + 1
           score == [level |-> IF total >= HIGH_RISK THEN "High" ELSE Insurance!Scored(c).level,
                     total_claims |-> total]
<1>1. /\ config # None /\ policy[c] # None /\ n \in 1 .. policy[c].coverage_amount
      /\ claim' = Append(claim, new)
      /\ risk' = [risk EXCEPT ![c] = score]
      /\ UNCHANGED <<now, poolBal, config, policy, pool, reserve>>
  BY DEF Insurance!SubmitClaim, Insurance!Open, Insurance!Initialized
<1>2. PoolTypes /\ now \in Nat /\ config \in Config /\ policy[c] \in Policy
  BY <1>1 DEF PoolInv, PoolTypes
<1>3. new \in Claim
  <2>1. n \in Nat
    BY <1>1, <1>2 DEF Policy
  <2> QED BY <1>2, <2>1 DEF Claim
<1>4. score \in Score
  BY ScoreType DEF Score, Insurance!RiskLevel
<1> HIDE DEF new, score
<1>5. claim \in Seq(Claim) /\ claim' \in Seq(Claim) /\ Len(claim') = Len(claim) + 1
        /\ \A i \in 1 .. Len(claim) : claim'[i] = claim[i]
  BY <1>1, <1>2, <1>3 DEF PoolTypes
<1>6. risk' \in [Covered -> Score \cup {None}]
  BY <1>1, <1>2, <1>4 DEF PoolTypes, Score
<1>7. PoolTypes'
  BY <1>1, <1>2, <1>5, <1>6 DEF PoolTypes, Score
<1>8. PoolInv'
  BY <1>1, <1>2, <1>7, InsuranceAssumption DEF PoolInv
<1>9. ~(pool' < pool)
  BY <1>1, <1>2 DEF PoolTypes
<1> QED BY <1>5, <1>8, <1>9 DEF ClaimStep, Insurance!ClaimIds

\* review_claim: what is approved is within the claim.
LEMMA ReviewPool ==
  ASSUME PoolInv, NEW i \in 1 .. MaxClaims, NEW on \in BOOLEAN, NEW n \in Amounts,
         Insurance!ReviewClaim(i, on, n)
  PROVE  PoolInv' /\ ClaimStep
<1> DEFINE s == IF on THEN "Approved" ELSE "Rejected"
           m == IF on THEN n ELSE 0
           new == [claim[i] EXCEPT !.status = s, !.payout_amount = m]
<1>1. /\ i \in 1 .. Len(claim) /\ claim[i].status = "Submitted"
      /\ on => n \in 1 .. Insurance!Part(claim[i].claim_amount, config.max_payout_ratio)
      /\ claim' = [claim EXCEPT ![i] = new]
      /\ UNCHANGED <<now, poolBal, config, policy, pool, reserve, risk>>
  BY DEF Insurance!ReviewClaim, Insurance!ClaimIds
<1>2. claim \in Seq(Claim) /\ claim # <<>>
  BY <1>1 DEF PoolInv, PoolTypes
<1>3. PoolTypes /\ now \in Nat /\ config \in Config /\ claim[i] \in Claim
  BY <1>1, <1>2 DEF PoolInv, PoolTypes
<1>4. m \in Nat /\ m <= claim[i].claim_amount
  <2>1. claim[i].claim_amount \in Nat /\ config.max_payout_ratio \in 0 .. BASIS_POINTS
    BY <1>3 DEF Claim, Config
  <2>2. PICK k \in Nat : k = Insurance!Part(claim[i].claim_amount, config.max_payout_ratio)
                            /\ k <= claim[i].claim_amount
    BY <2>1, PartWithin
  <2> QED BY <1>1, <2>1, <2>2
<1>5. new \in Claim /\ new.status \in {"Approved", "Rejected"} /\ new.payout_amount = m
        /\ new.claim_amount = claim[i].claim_amount
  <2>1. s \in {"Approved", "Rejected"}
    OBVIOUS
  <2> HIDE DEF s, m
  <2> QED BY <1>3, <1>4, <2>1 DEF Claim
<1> HIDE DEF new, m
<1>6. /\ claim' \in Seq(Claim) /\ Len(claim') = Len(claim) /\ claim'[i] = new
      /\ \A j \in 1 .. Len(claim) : j # i => claim'[j] = claim[j]
  BY <1>1, <1>2, <1>5
<1>7. PoolTypes'
  BY <1>1, <1>3, <1>6 DEF PoolTypes
<1>8. PoolInv'
  BY <1>1, <1>3, <1>7, InsuranceAssumption DEF PoolInv
<1>9. ~(pool' < pool) /\ Len(claim') >= Len(claim)
  BY <1>1, <1>2, <1>3, <1>6 DEF PoolTypes
<1>10. \A j \in 1 .. Len(claim) :
         \/ claim'[j] = claim[j]
         \/ /\ claim[j].status = "Submitted" /\ claim'[j].status \in {"Approved", "Rejected"}
            /\ claim'[j].payout_amount <= claim[j].claim_amount /\ pool' = pool
  BY <1>1, <1>4, <1>5, <1>6
<1> QED BY <1>8, <1>9, <1>10 DEF ClaimStep, Insurance!ClaimIds

\* process_payout: the claim is paid out of the pool.
LEMMA PayoutPool ==
  ASSUME PoolInv, NEW i \in 1 .. MaxClaims, NEW p \in Bidders, Insurance!ProcessPayout(i, p)
  PROVE  PoolInv' /\ ClaimStep
<1> DEFINE new == [claim[i] EXCEPT !.status = "Paid"]
<1>1. PICK m : m = claim[i].payout_amount
  OBVIOUS
<1>2. /\ i \in 1 .. Len(claim) /\ claim[i].status = "Approved"
      /\ Insurance!Transfer(Self, p, m)
      /\ claim' = [claim EXCEPT ![i] = new]
      /\ pool' = pool - m
      /\ UNCHANGED <<now, config, policy, reserve, risk>>
  BY <1>1 DEF Insurance!ProcessPayout, Insurance!ClaimIds
<1>3. claim \in Seq(Claim) /\ claim # <<>>
  BY <1>2 DEF PoolInv, PoolTypes
<1>4. PoolTypes /\ now \in Nat /\ config \in Config /\ claim[i] \in Claim
  BY <1>2, <1>3 DEF PoolInv, PoolTypes
<1>5. m \in Nat /\ new \in Claim /\ new # claim[i]
  <2>1. new.status = "Paid"
    BY <1>4 DEF Claim
  <2> QED BY <1>1, <1>2, <1>4, <2>1 DEF Claim
<1>6. /\ poolBal' \in Balances /\ pool' \in Nat /\ \A t \in Token : poolBal'[t][Self] = pool'
  BY <1>2, <1>5, PoolPays, AccountsAssumption
<1>7. /\ claim' \in Seq(Claim) /\ Len(claim') = Len(claim) /\ claim'[i] = new
      /\ \A j \in 1 .. Len(claim) : j # i => claim'[j] = claim[j]
  <2> HIDE DEF new
  <2> QED BY <1>2, <1>3, <1>5
<1>8. PoolTypes'
  BY <1>2, <1>4, <1>6, <1>7 DEF PoolTypes
<1>9. PoolInv'
  BY <1>2, <1>4, <1>6, <1>8, InsuranceAssumption DEF PoolInv
<1>10. claim' # claim /\ Len(claim') >= Len(claim)
  BY <1>3, <1>5, <1>7
<1>11. \A j \in 1 .. Len(claim) :
         \/ claim'[j] = claim[j]
         \/ /\ claim[j].status = "Approved" /\ claim'[j] = [claim[j] EXCEPT !.status = "Paid"]
            /\ pool' = pool - claim[j].payout_amount
  BY <1>1, <1>2, <1>7
<1> QED BY <1>9, <1>10, <1>11 DEF ClaimStep, Insurance!ClaimIds

\* The administrator puts tokens in.
LEMMA AddPool ==
  ASSUME PoolInv, NEW n \in Amounts, Insurance!AddToPool(n)
  PROVE  PoolInv' /\ ClaimStep
<1>1. /\ config # None /\ Insurance!Collect(boss, n)
      /\ UNCHANGED <<now, config, policy, claim, risk>>
  BY DEF Insurance!AddToPool, Insurance!Initialized
<1>2. PoolTypes /\ config \in Config /\ now \in Nat /\ n \in Int
  BY <1>1, AccountsAssumption DEF PoolInv, PoolTypes
<1>3. /\ n \in Nat /\ poolBal' \in Balances /\ pool' = pool + n /\ pool' \in Nat
      /\ reserve' \in Int /\ \A t \in Token : poolBal'[t][Self] = pool'
  BY <1>1, <1>2, PoolCollects, InsuranceAssumption
<1>4. PoolTypes'
  BY <1>1, <1>2, <1>3 DEF PoolTypes
<1>5. PoolInv'
  BY <1>1, <1>2, <1>3, <1>4, InsuranceAssumption DEF PoolInv
<1>6. ~(pool' < pool) /\ Len(claim') >= Len(claim)
  BY <1>1, <1>2, <1>3 DEF PoolTypes
<1> QED BY <1>1, <1>5, <1>6 DEF ClaimStep

\* What the administrator takes out, the administrator has.
LEMMA TakenOut ==
  ASSUME PoolInv, config # None, NEW m \in Int, m > 0, Insurance!Transfer(Self, boss, m),
         pool' = pool - m, reserve' \in Int, UNCHANGED <<now, config, policy, claim, risk>>
  PROVE  PoolInv' /\ ClaimStep
<1>1. PoolTypes /\ now \in Nat
  BY DEF PoolInv
<1>2. /\ poolBal' \in Balances /\ pool' \in Nat /\ \A t \in Token : poolBal'[t][Self] = pool'
      /\ \A t \in Token : poolBal'[t][boss] = poolBal[t][boss] + m /\ poolBal[t][boss] \in Nat
  BY PoolPays, InsuranceAssumption
<1>3. PoolTypes'
  BY <1>1, <1>2 DEF PoolTypes
<1>4. PoolInv'
  BY <1>1, <1>2, <1>3 DEF PoolInv
<1>5. \E t \in Token : poolBal'[t][boss] > poolBal[t][boss]
  <2>1. PICK t \in Token : TRUE
    BY PlansAssumption
  <2> QED BY <1>2, <2>1
<1>6. Len(claim') >= Len(claim)
  BY <1>1 DEF PoolTypes
<1> QED BY <1>4, <1>5, <1>6 DEF ClaimStep

\* withdraw_from_pool
LEMMA WithdrawPool ==
  ASSUME PoolInv, NEW n \in Amounts, Insurance!WithdrawFromPool(n)
  PROVE  PoolInv' /\ ClaimStep
<1>1. /\ config # None /\ n > 0 /\ Insurance!Transfer(Self, boss, n) /\ pool' = pool - n
      /\ reserve' = reserve - Insurance!Part(n, config.reserve_ratio)
      /\ UNCHANGED <<now, config, policy, claim, risk>>
  BY DEF Insurance!WithdrawFromPool, Insurance!Initialized
<1>2. n \in Int /\ reserve \in Int /\ config \in Config
  BY <1>1, AccountsAssumption DEF PoolInv, PoolTypes
<1>3. PICK k \in Int : k = Insurance!Part(n, config.reserve_ratio)
  <2>1. config.reserve_ratio \in Int
    BY <1>2, InsuranceAssumption DEF Config
  <2> QED BY <1>2, <2>1, PartType
<1>4. reserve' \in Int
  BY <1>1, <1>2, <1>3
<1> QED BY <1>1, <1>2, <1>4, TakenOut

\* emergency_withdraw
LEMMA EmergencyPool ==
  ASSUME PoolInv, Insurance!EmergencyWithdraw
  PROVE  PoolInv' /\ ClaimStep
<1>1. /\ config # None /\ pool > 0 /\ Insurance!Transfer(Self, boss, pool)
      /\ pool' = 0 /\ reserve' = 0 /\ UNCHANGED <<now, config, policy, claim, risk>>
  BY DEF Insurance!EmergencyWithdraw, Insurance!Initialized
<1>2. pool \in Int
  BY DEF PoolInv, PoolTypes
<1>3. pool' = pool - pool /\ reserve' \in Int
  BY <1>1, <1>2
<1> QED BY <1>1, <1>2, <1>3, TakenOut
\* The calls that leave balances, claims and policies alone.
LEMMA SettingsPool ==
  ASSUME PoolInv,
         \/ Insurance!UpdateReserves \/ Insurance!UpdateConfig \/ Insurance!Tick
         \/ \E c \in Covered, level \in Insurance!RiskLevel : Insurance!SetRiskLevel(c, level)
  PROVE  PoolInv' /\ ClaimStep
<1>1. PoolTypes /\ now \in Nat
  BY DEF PoolInv
<1>2. /\ UNCHANGED <<poolBal, policy, claim, pool>>
      /\ now' \in Nat /\ now' >= now
      /\ UNCHANGED config \/ (config # None /\ config' \in Config)
      /\ reserve' \in Int /\ risk' \in [Covered -> Score \cup {None}]
  <2>1. CASE Insurance!UpdateReserves
    <3>1. /\ config # None /\ UNCHANGED <<now, poolBal, config, policy, claim, pool, risk>>
          /\ reserve' \in {reserve, Insurance!Part(pool, config.reserve_ratio)}
      BY <2>1 DEF Insurance!UpdateReserves, Insurance!Initialized
    <3>2. config \in Config /\ config.reserve_ratio \in Int /\ pool \in Int
      BY <1>1, <3>1, InsuranceAssumption DEF PoolTypes, Config
    <3>3. Insurance!Part(pool, config.reserve_ratio) \in Int
      BY <3>2, PartType
    <3>4. reserve' \in Int
      BY <1>1, <3>1, <3>3 DEF PoolTypes
    <3> QED BY <1>1, <3>1, <3>4 DEF PoolTypes, Score
  <2>2. CASE Insurance!UpdateConfig
    <3>1. config # None /\ config \in Config
            /\ UNCHANGED <<now, poolBal, policy, claim, pool, reserve, risk>>
      BY <1>1, <2>2 DEF Insurance!UpdateConfig, Insurance!Initialized, PoolTypes
    <3>2. ASSUME NEW rate \in Rates, config' = [config EXCEPT !.base_premium_rate = rate]
          PROVE  config' \in Config
      <4>1. rate \in Int
        BY InsuranceAssumption
      <4> QED BY <3>1, <3>2, <4>1 DEF Config
    <3>3. ASSUME NEW l \in Limits,
                 config' = [config EXCEPT !.min_coverage_period = l.min_period,
                                          !.max_coverage_period = l.max_period,
                                          !.max_coverage_amount = l.max_amount]
          PROVE  config' \in Config
      <4>1. l.min_period \in Nat /\ l.max_period \in Nat /\ l.max_amount \in Int
        BY InsuranceAssumption
      <4> QED BY <3>1, <3>3, <4>1 DEF Config
    <3>4. ASSUME NEW ratio \in Ratios, ratio <= BASIS_POINTS,
                 \/ config' = [config EXCEPT !.reserve_ratio = ratio]
                 \/ config' = [config EXCEPT !.max_payout_ratio = ratio]
          PROVE  config' \in Config
      <4>1. ratio \in 0 .. BASIS_POINTS
        BY <3>4, InsuranceAssumption
      <4> QED BY <3>1, <3>4, <4>1 DEF Config
    <3>5. ASSUME NEW b \in BOOLEAN, config' = [config EXCEPT !.paused = b]
          PROVE  config' \in Config
      BY <3>1, <3>5 DEF Config
    <3>6. config' \in Config
      BY <2>2, <3>2, <3>3, <3>4, <3>5 DEF Insurance!UpdateConfig
    <3> QED BY <1>1, <3>1, <3>6 DEF PoolTypes, Score
  <2>3. CASE Insurance!Tick
    BY <1>1, <2>3 DEF Insurance!Tick, PoolTypes, Score
  <2>4. ASSUME NEW c \in Covered, NEW level \in Insurance!RiskLevel, Insurance!SetRiskLevel(c, level)
        PROVE  /\ UNCHANGED <<now, poolBal, config, policy, claim, pool, reserve>>
               /\ risk' \in [Covered -> Score \cup {None}]
    <3> DEFINE score == [Insurance!Scored(c) EXCEPT !.level = level]
    <3>1. score \in Score
      BY ScoreType DEF Score
    <3> HIDE DEF score
    <3>2. risk' = [risk EXCEPT ![c] = score]
            /\ UNCHANGED <<now, poolBal, config, policy, claim, pool, reserve>>
      BY <2>4 DEF Insurance!SetRiskLevel, score
    <3> QED BY <1>1, <3>1, <3>2 DEF PoolTypes, Score
  <2> QED BY <1>1, <2>1, <2>2, <2>3, <2>4 DEF PoolTypes
<1>3. PoolTypes'
  BY <1>1, <1>2 DEF PoolTypes, Score
<1>4. \A e \in Covered : policy'[e] # None => policy'[e].start_time <= now'
  <2> TAKE e \in Covered
  <2>1. policy[e] # None => policy[e].start_time <= now /\ policy[e] \in Policy
    BY <1>1 DEF PoolInv, PoolTypes
  <2> QED BY <1>1, <1>2, <2>1 DEF Policy
<1>5. PoolInv'
  BY <1>2, <1>3, <1>4, InsuranceAssumption DEF PoolInv
<1>6. ~(pool' < pool) /\ Len(claim') >= Len(claim)
  BY <1>1, <1>2 DEF PoolTypes
<1> QED BY <1>2, <1>5, <1>6 DEF ClaimStep

\* Every step of the insurance pool.
LEMMA PoolStep == PoolInv /\ Insurance!Next => PoolInv' /\ ClaimStep
<1> SUFFICES ASSUME PoolInv, Insurance!Next PROVE PoolInv' /\ ClaimStep
  OBVIOUS
<1>1. CASE Insurance!Initialize
  BY <1>1, InitializePool
<1>2. CASE \E c \in Covered, p \in Bidders :
             \/ \E n \in Coverages, d \in Periods : Insurance!PurchaseCoverage(c, n, d, p)
             \/ \E d \in Periods : Insurance!RenewCoverage(c, d, p)
             \/ Insurance!CancelCoverage(c, p)
  BY <1>2, PurchasePool, RenewPool, CancelPool
<1>3. CASE \E c \in Covered, n \in Amounts : Insurance!SubmitClaim(c, n)
  BY <1>3, SubmitPool
<1>4. CASE \E i \in 1 .. MaxClaims :
             \/ \E on \in BOOLEAN, n \in Amounts : Insurance!ReviewClaim(i, on, n)
             \/ \E p \in Bidders : Insurance!ProcessPayout(i, p)
  BY <1>4, ReviewPool, PayoutPool
<1>5. CASE \E n \in Amounts : Insurance!AddToPool(n) \/ Insurance!WithdrawFromPool(n)
  BY <1>5, AddPool, WithdrawPool
<1>6. CASE Insurance!EmergencyWithdraw
  BY <1>6, EmergencyPool
<1>7. CASE \/ Insurance!UpdateReserves \/ Insurance!UpdateConfig \/ Insurance!Tick
           \/ \E c \in Covered, level \in Insurance!RiskLevel : Insurance!SetRiskLevel(c, level)
  BY <1>7, SettingsPool
<1> QED BY <1>1, <1>2, <1>3, <1>4, <1>5, <1>6, <1>7 DEF Insurance!Next

\* The pool is empty at first.
LEMMA PoolAtFirst == Insurance!Init => PoolInv
<1> SUFFICES ASSUME Insurance!Init PROVE PoolInv
  OBVIOUS
<1>1. /\ now = 0 /\ config = None /\ policy = [c \in Covered |-> None] /\ claim = <<>>
      /\ pool = 0 /\ reserve = 0 /\ risk = [c \in Covered |-> None]
      /\ poolBal = [t \in Token |->
           [a \in Account |-> IF a \in Bidders \cup {boss} THEN PoolBalance ELSE 0]]
  BY DEF Insurance!Init, Insurance!Account, Account
<1>2. poolBal \in Balances
  BY <1>1, AccountsAssumption DEF Balances
<1>3. \A t \in Token : poolBal[t][Self] = pool
  BY <1>1, AccountsAssumption, InsuranceAssumption DEF Account
<1>4. PoolTypes
  BY <1>1, <1>2 DEF PoolTypes
<1> QED BY <1>1, <1>3, <1>4 DEF PoolInv

-----------------------------------------------------------------------------
(* The insurance pool as a custodian. *)
PoolPool == [t \in Token |-> poolBal[t][Self]]
PoolOwed == [t \in Token |-> [s \in {"premiums"} |-> pool]]

\* The pool is empty at first, and so is what it owes.
LEMMA PoolCustodyInit == Insurance!Init => Insurance!C!Init
<1> SUFFICES ASSUME Insurance!Init PROVE Insurance!C!Init
  OBVIOUS
<1>1. PoolPool \in [Token -> Nat]
  BY PoolAtFirst DEF PoolPool, PoolInv, PoolTypes
<1>2. PoolOwed = [t \in Token |-> [s \in {"premiums"} |-> 0]]
  BY DEF Insurance!Init, PoolOwed
<1> QED BY <1>1, <1>2 DEF Insurance!C!Init, PoolPool, PoolOwed

\* What the pool owes is its balance, before and after every step.
LEMMA PoolCustodyStep ==
  ASSUME PoolInv, PoolInv'
  PROVE  Insurance!C!Next
<1>1. PICK t \in Token : Token = {t}
  BY PlansAssumption
<1>2. pool \in Nat /\ pool' \in Nat /\ poolBal[t][Self] = pool /\ poolBal'[t][Self] = pool'
  BY DEF PoolInv, PoolTypes
<1>3. PICK p \in Nat, q \in Nat : p = pool /\ q = pool'
  BY <1>2
<1>4. /\ PoolPool = [u \in {t} |-> p] /\ PoolPool' = [u \in {t} |-> q]
      /\ PoolOwed = [u \in {t} |-> [s \in {"premiums"} |-> p]]
      /\ PoolOwed' = [u \in {t} |-> [s \in {"premiums"} |-> q]]
  BY <1>1, <1>2, <1>3 DEF PoolPool, PoolOwed
<1>5. /\ PoolPool[t] = p /\ PoolPool'[t] = q /\ PoolPool' = [PoolPool EXCEPT ![t] = q]
      /\ PoolOwed[t]["premiums"] = p /\ PoolOwed'[t]["premiums"] = q
      /\ PoolOwed' = [PoolOwed EXCEPT ![t]["premiums"] = q]
  BY <1>4
<1>6. Insurance!C!Only(t, "premiums")
  BY <1>3, <1>5 DEF Insurance!C!Only, PoolPool, PoolOwed
<1>7. Insurance!C!Deposit(t, "premiums") \/ Insurance!C!Discharge(t, "premiums")
  BY <1>3, <1>5, <1>6 DEF Insurance!C!Deposit, Insurance!C!Discharge, PoolPool, PoolOwed
<1> QED BY <1>1, <1>7 DEF Insurance!C!Next

-----------------------------------------------------------------------------
(***************************************************************************)
(* Proofs: tips are booked for those who gave and those who got them.      *)
(***************************************************************************)
Tipping == [from : OfSocialTipping.Users, amount : Nat, timestamp : Nat]
TipperStats == [total_tipped : Nat, tip_count : Nat, last_tip_time : Nat]
RecipientStats == [total_received : Nat, tip_count : Nat]
ShownTotal == [player : OfSocialTipping.Users, amount : Nat]
TipHistories == [OfSocialTipping.Users -> Seq(Tipping)]
TipDays == 0 .. (OfSocialTipping.MaxTime \div OfSocialTipping.DAY)

\* Limits, amounts and times are numbers, and the time of a ledger is never 0.
ASSUME SocialTippingAssumption ==
  /\ IsFiniteSet(OfSocialTipping.Users) /\ None \notin OfSocialTipping.Configs
  /\ \A c \in OfSocialTipping.Configs : c.max_tips_per_day \in Nat /\ c.cooldown_seconds \in Nat
  /\ OfSocialTipping.Amounts \subseteq Nat /\ OfSocialTipping.InitBalance \in Int
  /\ OfSocialTipping.Start \in Nat \ {0} /\ OfSocialTipping.DAY \in Nat \ {0}
  /\ OfSocialTipping.MaxTips \in Nat /\ OfSocialTipping.MaxTime \in Nat
  /\ OfSocialTipping.Start <= OfSocialTipping.MaxTime

\* What is in the histories h: their tips from u, those of a day, what they
\* come to, and what the tips of the history s come to.
TipAt(h, t) == h[t[1]][t[2]]
Sent(h, u) ==
  {t \in OfSocialTipping.Users \X (1 .. OfSocialTipping.MaxTips) :
     t[2] \in 1 .. Len(h[t[1]]) /\ TipAt(h, t).from = u}
OnDay(h, u, d) == {t \in Sent(h, u) : TipAt(h, t).timestamp \div OfSocialTipping.DAY = d}
Spent(h, u) == Total([t \in Sent(h, u) |-> TipAt(h, t).amount])
Got(s) == Total([i \in 1 .. Len(s) |-> s[i].amount])
TipsIn(h) == Total([u \in OfSocialTipping.Users |-> Len(h[u])])

\* A leaderboard of the totals, best first, with everybody who has one.
Shows(l, total) ==
  /\ \A u \in OfSocialTipping.Users : total[u] > 0 => \E i \in 1 .. Len(l) : l[i].player = u
  /\ \A i \in 1 .. Len(l) : l[i].amount = total[l[i].player]
  /\ \A i, j \in 1 .. Len(l) : i < j => l[i].player # l[j].player /\ l[i].amount >= l[j].amount

TipTypes ==
  /\ clock \in OfSocialTipping.Start .. OfSocialTipping.MaxTime
  /\ settings \in OfSocialTipping.Configs \cup {None}
  /\ tokens \in [OfSocialTipping.Users -> Int]
  /\ tipper \in [OfSocialTipping.Users -> TipperStats]
  /\ recipient \in [OfSocialTipping.Users -> RecipientStats]
  /\ log \in TipHistories /\ TipsIn(log) <= OfSocialTipping.MaxTips
  /\ daily \in [OfSocialTipping.Users -> [TipDays -> Nat]]
  /\ top_tippers \in Seq(ShownTotal) /\ top_recipients \in Seq(ShownTotal)

\* What is stored of the tips that u gave.
BookedFor(u) ==
  /\ tipper[u].total_tipped = Spent(log, u) /\ tipper[u].tip_count = Cardinality(Sent(log, u))
  /\ tokens[u] = OfSocialTipping.InitBalance + recipient[u].total_received - tipper[u].total_tipped
  /\ tipper[u].last_tip_time <= clock
  /\ \A d \in TipDays : /\ daily[u][d] = Cardinality(OnDay(log, u, d))
                        /\ daily[u][d] > 0 => /\ settings # None
                                              /\ daily[u][d] <= settings.max_tips_per_day
  /\ \A t \in Sent(log, u) : /\ TipAt(log, t).timestamp \in 1 .. tipper[u].last_tip_time
                             /\ settings # None

\* No two tips of u were closer than the cooldown, but for those at one time.
Cooled(u) ==
  \A s, t \in Sent(log, u) :
     TipAt(log, s).timestamp < TipAt(log, t).timestamp
       => TipAt(log, t).timestamp - TipAt(log, s).timestamp >= settings.cooldown_seconds

TipInv ==
  /\ TipTypes
  /\ \A u \in OfSocialTipping.Users :
        BookedFor(u) /\ Cooled(u) /\ recipient[u].total_received = Got(log[u])
  /\ Shows(top_tippers, [u \in OfSocialTipping.Users |-> tipper[u].total_tipped])
  /\ Shows(top_recipients, [u \in OfSocialTipping.Users |-> recipient[u].total_received])

-----------------------------------------------------------------------------
\* The totals of at least n come first in an ordered list.
LEMMA AtLeastFirst ==
  ASSUME NEW m \in Nat, NEW a \in [1 .. m -> Int], NEW n \in Int,
         \A i, j \in 1 .. m : i < j => a[i] >= a[j]
  PROVE  LET k == Cardinality({i \in 1 .. m : a[i] >= n}) + 1 IN
         /\ k \in 1 .. m + 1
         /\ \A i \in 1 .. m : a[i] >= n <=> i < k
<1> DEFINE F == {i \in 1 .. m : a[i] >= n}
           T == {i \in 1 .. m + 1 : i \notin F}
<1>1. T \in SUBSET Nat /\ m + 1 \in T
  OBVIOUS
<1>2. PICK x \in T : \A y \in T : x <= y
  <2> HIDE DEF T
  <2> QED BY <1>1, Least
<1>3. x \in 1 .. m + 1 /\ x \notin F
  OBVIOUS
<1>4. \A i \in 1 .. m : i < x => i \in F
  <2> TAKE i \in 1 .. m
  <2> HAVE i < x
  <2>1. i \notin F => i \in T
    OBVIOUS
  <2> QED BY <1>2, <1>3, <2>1
<1>5. \A i \in 1 .. m : i \in F => i < x
  <2> TAKE i \in 1 .. m
  <2> HAVE i \in F
  <2>1. SUFFICES ASSUME x <= i PROVE FALSE
    BY <1>3
  <2>2. x # i /\ x \in 1 .. m
    BY <1>3, <2>1
  <2>3. a[x] >= a[i] /\ a[i] >= n /\ a[x] \in Int /\ a[i] \in Int
    BY <1>3, <2>1, <2>2
  <2> QED BY <1>3, <2>2, <2>3
<1>6. F = 1 .. x - 1
  BY <1>3, <1>4, <1>5
<1>7. Cardinality(F) = x - 1
  <2>1. 1 \in Int /\ x - 1 \in Int /\ Cardinality(1 .. x - 1) = (IF 1 > x - 1 THEN 0 ELSE (x - 1) - 1 + 1)
    BY <1>3, FS_Interval
  <2>2. x \in Nat /\ x >= 1
    BY <1>3
  <2>3. (IF 1 > x - 1 THEN 0 ELSE (x - 1) - 1 + 1) = x - 1
    BY <2>2
  <2> QED BY <1>6, <2>1, <2>3
<1>8. /\ Cardinality(F) + 1 \in 1 .. m + 1
      /\ \A i \in 1 .. m : a[i] >= n <=> i < Cardinality(F) + 1
  <2>1. Cardinality(F) + 1 = x
    BY <1>3, <1>7
  <2> QED BY <1>3, <1>4, <1>5, <2>1
<1> QED BY <1>8

\* In g the entry of u, with the total n, has moved to k, from i or as the last
\* one of the board l of m entries.
Climbs(g, l, m, i, k, size, u, n) ==
  /\ m \in Nat /\ m = Len(l) /\ i \in 1 .. m + 1 /\ size \in Nat
  /\ \/ i = m + 1 /\ size = m + 1 /\ \A j \in 1 .. m : l[j].player # u
     \/ i \in 1 .. m /\ size = m /\ l[i].player = u
  /\ k \in 1 .. i /\ \A j \in 1 .. i - 1 : l[j].amount >= n <=> j < k
  /\ g = [j \in 1 .. size |-> CASE j < k \/ j > i -> l[j]
                               [] j = k -> [player |-> u, amount |-> n]
                               [] j > k /\ j <= i -> l[j - 1]]

LEMMA EntryMoved ==
  ASSUME NEW l \in Seq(ShownTotal), NEW total \in [OfSocialTipping.Users -> Nat], Shows(l, total),
         NEW u \in OfSocialTipping.Users, NEW n \in Nat, total[u] <= n,
         NEW after, after = [total EXCEPT ![u] = n],
         NEW g, NEW m, NEW i, NEW k, NEW size, Climbs(g, l, m, i, k, size, u, n)
  PROVE  g \in Seq(ShownTotal) /\ Shows(g, after)
<1> DEFINE e == [player |-> u, amount |-> n]
<1>0. /\ m \in Nat /\ m = Len(l) /\ i \in 1 .. m + 1 /\ size \in Nat
      /\ \/ i = m + 1 /\ size = m + 1 /\ \A j \in 1 .. m : l[j].player # u
         \/ i \in 1 .. m /\ size = m /\ l[i].player = u
      /\ k \in 1 .. i /\ \A j \in 1 .. i - 1 : l[j].amount >= n <=> j < k
  BY DEF Climbs
<1>15. g = [j \in 1 .. size |-> CASE j < k \/ j > i -> l[j]
                                [] j = k -> e
                                [] j > k /\ j <= i -> l[j - 1]]
  BY DEF Climbs
<1>1. \A j \in 1 .. m : l[j] \in ShownTotal
  BY <1>0
<1>2. \A j \in 1 .. m : l[j].player \in OfSocialTipping.Users /\ l[j].amount \in Nat
  BY <1>1 DEF ShownTotal
<1>3. /\ \A v \in OfSocialTipping.Users : total[v] > 0 => \E j \in 1 .. m : l[j].player = v
      /\ \A j \in 1 .. m : l[j].amount = total[l[j].player]
      /\ \A a, b \in 1 .. m : a < b => l[a].player # l[b].player /\ l[a].amount >= l[b].amount
  BY <1>0 DEF Shows
<1>4. \A j \in 1 .. m : j # i => l[j].player # u /\ l[j].amount = after[l[j].player]
  <2> SUFFICES ASSUME NEW j \in 1 .. m, j # i PROVE l[j].player # u
    BY <1>2, <1>3
  <2>1. CASE i = m + 1
    BY <1>0, <2>1
  <2>2. CASE i # m + 1
    <3>1. i \in 1 .. m /\ l[i].player = u /\ (i < j \/ j < i)
      BY <1>0, <2>2
    <3> QED BY <1>3, <3>1
  <2> QED BY <2>1, <2>2
<1>5. \A j \in 1 .. m : i < j => l[j].amount <= n
  <2> SUFFICES ASSUME NEW j \in 1 .. m, i < j PROVE l[j].amount <= n
    OBVIOUS
  <2>1. i \in 1 .. m /\ l[i].player = u
    BY <1>0
  <2>2. l[i].amount >= l[j].amount /\ l[i].amount = total[u]
    BY <1>3, <2>1
  <2> QED BY <1>2, <2>1, <2>2
<1>6. i \in Nat /\ k \in Nat /\ k <= i /\ k \in 1 .. size
      /\ ((i = m + 1 /\ size = m + 1) \/ (i <= m /\ size = m))
  BY <1>0
<1> DEFINE s(j) == IF j < k \/ j > i THEN j ELSE j - 1
<1>7. ASSUME NEW j \in 1 .. size
      PROVE  \/ j = k /\ g[j] = e
             \/ /\ j # k /\ s(j) \in 1 .. m /\ s(j) # i /\ g[j] = l[s(j)]
                /\ j < k => s(j) < k
                /\ j > k => s(j) >= k
  <2>1. CASE j = k
    BY <1>6, <1>15, <2>1
  <2>2. CASE j < k
    BY <1>0, <1>6, <1>15, <2>2
  <2>3. CASE j > i
    BY <1>0, <1>6, <1>15, <2>3
  <2>4. CASE j > k /\ j <= i
    BY <1>0, <1>6, <1>15, <2>4
  <2> QED BY <1>6, <2>1, <2>2, <2>3, <2>4
<1>8. e \in ShownTotal /\ e.player = u /\ e.amount = n
  BY DEF ShownTotal
<1>9. g[k] = e
  BY <1>6, <1>7
<1> HIDE DEF e
<1>10. ASSUME NEW j \in 1 .. m, j # i
       PROVE  \E b \in 1 .. size : g[b] = l[j]
  <2>1. CASE j < k
    <3>1. j \in 1 .. size /\ j # k /\ s(j) = j
      BY <1>0, <1>6, <2>1
    <3> HIDE DEF s
    <3>2. g[j] = l[j]
      BY <1>7, <3>1
    <3> QED BY <3>1, <3>2
  <2>2. CASE j > i
    <3>1. j \in 1 .. size /\ j # k /\ s(j) = j
      BY <1>0, <1>6, <2>2
    <3> HIDE DEF s
    <3>2. g[j] = l[j]
      BY <1>7, <3>1
    <3> QED BY <3>1, <3>2
  <2>3. CASE j >= k /\ j < i
    <3>1. j + 1 \in 1 .. size /\ j + 1 # k /\ s(j + 1) = j
      BY <1>0, <1>6, <2>3
    <3> HIDE DEF s
    <3>2. g[j + 1] = l[j]
      BY <1>7, <3>1
    <3> QED BY <3>1, <3>2
  <2> QED BY <1>6, <1>10, <2>1, <2>2, <2>3
<1>11. g \in Seq(ShownTotal) /\ Len(g) = size
  <2>1. \A j \in 1 .. size : g[j] \in ShownTotal
    <3> HIDE DEF s
    <3> QED BY <1>1, <1>7, <1>8
  <2>2. g \in [1 .. size -> ShownTotal]
    BY <1>15, <2>1
  <2> QED BY <1>0, <2>2, AsSequence
<1>12. ASSUME NEW v \in OfSocialTipping.Users, after[v] > 0
       PROVE  \E b \in 1 .. size : g[b].player = v
  <2>1. CASE v = u
    BY <1>6, <1>8, <1>9, <2>1
  <2>2. CASE v # u
    <3>1. total[v] > 0
      BY <1>12, <2>2
    <3>2. PICK j \in 1 .. m : l[j].player = v
      BY <1>3, <3>1
    <3>3. j # i
      BY <1>0, <2>2, <3>2
    <3>4. PICK b \in 1 .. size : g[b] = l[j]
      BY <1>10, <3>3
    <3> QED BY <3>2, <3>4
  <2> QED BY <2>1, <2>2
<1>13. ASSUME NEW j \in 1 .. size PROVE g[j].amount = after[g[j].player]
  <2>1. CASE g[j] = e
    BY <1>8, <2>1
  <2>2. CASE g[j] # e
    <3> HIDE DEF s
    <3> QED BY <1>4, <1>7, <2>2
  <2> QED BY <2>1, <2>2
<1>14. ASSUME NEW a \in 1 .. size, NEW b \in 1 .. size, a < b
       PROVE  g[a].player # g[b].player /\ g[a].amount >= g[b].amount
  <2>1. CASE a = k
    <3>1. b # k /\ s(b) \in 1 .. m /\ s(b) # i /\ g[b] = l[s(b)] /\ s(b) >= k /\ g[a] = e
      BY <1>6, <1>7, <1>9, <1>14, <2>1
    <3> HIDE DEF s
    <3>2. g[b].player # u
      BY <1>4, <3>1
    <3>3. l[s(b)].amount <= n
      <4>1. CASE s(b) < i
        <5>1. s(b) \in 1 .. i - 1 /\ ~(s(b) < k)
          BY <1>6, <3>1, <4>1
        <5>2. l[s(b)].amount \in Nat /\ ~(l[s(b)].amount >= n)
          BY <1>0, <1>2, <3>1, <5>1
        <5> QED BY <5>2
      <4>2. CASE s(b) > i
        BY <1>5, <3>1, <4>2
      <4> QED BY <1>6, <3>1, <4>1, <4>2
    <3> QED BY <1>2, <1>8, <3>1, <3>2, <3>3
  <2>2. CASE b = k
    <3>1. a # k /\ s(a) \in 1 .. m /\ s(a) # i /\ g[a] = l[s(a)] /\ s(a) < k /\ g[b] = e
      BY <1>6, <1>7, <1>9, <1>14, <2>2
    <3> HIDE DEF s
    <3>2. g[a].player # u
      BY <1>4, <3>1
    <3>3. s(a) \in 1 .. i - 1
      BY <1>6, <3>1
    <3>4. l[s(a)].amount >= n
      BY <1>0, <3>1, <3>3
    <3> QED BY <1>2, <1>8, <3>1, <3>2, <3>4
  <2>3. CASE a # k /\ b # k
    <3>1. /\ s(a) \in 1 .. m /\ g[a] = l[s(a)] /\ s(b) \in 1 .. m /\ g[b] = l[s(b)]
      <4> HIDE DEF s
      <4> QED BY <1>7, <2>3
    <3>2. s(a) < s(b)
      BY <1>6, <1>14, <2>3
    <3> HIDE DEF s
    <3> QED BY ONLY <1>3, <3>1, <3>2
  <2> QED BY <2>1, <2>2, <2>3
<1>16. /\ \A v \in OfSocialTipping.Users : after[v] > 0 => \E b \in 1 .. Len(g) : g[b].player = v
       /\ \A j \in 1 .. Len(g) : g[j].amount = after[g[j].player]
  BY <1>11, <1>12, <1>13
<1>17. \A a, b \in 1 .. Len(g) : a < b => g[a].player # g[b].player /\ g[a].amount >= g[b].amount
  BY <1>11, <1>14
<1> QED BY ONLY <1>11, <1>16, <1>17 DEF Shows

\* update_top_tippers and update_top_recipients keep the leaderboards.
LEMMA TopUpdated ==
  ASSUME NEW l \in Seq(ShownTotal), NEW total \in [OfSocialTipping.Users -> Nat], Shows(l, total),
         NEW u \in OfSocialTipping.Users, NEW n \in Nat, total[u] <= n,
         NEW after, after = [total EXCEPT ![u] = n]
  PROVE  /\ SocialTipping!UpdateTop(l, u, n) \in Seq(ShownTotal)
         /\ Shows(SocialTipping!UpdateTop(l, u, n), after)
<1> DEFINE m == Len(l)
           old == {j \in DOMAIN l : l[j].player = u}
           i == IF old = {} THEN m + 1 ELSE CHOOSE j \in old : TRUE
           k == Cardinality({j \in 1 .. i - 1 : l[j].amount >= n}) + 1
           e == [player |-> u, amount |-> n]
           size == IF old = {} THEN m + 1 ELSE m
           g == [j \in 1 .. size |-> CASE j < k \/ j > i -> l[j]
                                       [] j = k -> e
                                       [] j > k /\ j <= i -> l[j - 1]]
<1>1. SocialTipping!UpdateTop(l, u, n) =
        [j \in (DOMAIN l) \cup {i} |-> CASE j < k \/ j > i -> l[j]
                                          [] j = k -> e
                                          [] j > k /\ j <= i -> l[j - 1]]
  <2> DEFINE c == SocialTipping!Cardinality({j \in 1 .. i - 1 : l[j].amount >= n}) + 1
  <2>1. SocialTipping!UpdateTop(l, u, n) =
          [j \in (DOMAIN l) \cup {i} |-> CASE j < c \/ j > i -> l[j]
                                            [] j = c -> e
                                            [] j > c /\ j <= i -> l[j - 1]]
    BY Zenon DEF SocialTipping!UpdateTop
  <2>2. c = k
    BY DEF SocialTipping!Cardinality, Cardinality
  <2> HIDE DEF c, k, i, e
  <2> QED BY <2>1, <2>2
<1>2. m \in Nat /\ DOMAIN l = 1 .. m
  OBVIOUS
<1>3. \/ i = m + 1 /\ size = m + 1 /\ \A j \in 1 .. m : l[j].player # u
      \/ i \in 1 .. m /\ size = m /\ l[i].player = u
  <2>1. CASE old = {}
    <3>1. i = m + 1 /\ size = m + 1
      BY <2>1
    <3>2. \A j \in 1 .. m : l[j].player # u
      BY <1>2, <2>1
    <3> QED BY <3>1, <3>2
  <2>2. CASE old # {}
    <3>1. i = CHOOSE j \in old : TRUE
      BY <2>2
    <3>2. i \in old
      BY <2>2, <3>1
    <3>3. i \in 1 .. m /\ l[i].player = u
      BY <1>2, <3>2
    <3>4. size = m
      BY <2>2
    <3> QED BY <3>3, <3>4
  <2> QED BY <2>1, <2>2
<1> HIDE DEF i, size, old
<1>4. i \in 1 .. m + 1 /\ size \in Nat /\ (DOMAIN l) \cup {i} = 1 .. size
  <2> HIDE DEF m
  <2>1. CASE i = m + 1 /\ size = m + 1
    BY <1>2, <2>1
  <2>2. CASE i \in 1 .. m /\ size = m
    BY <1>2, <2>2
  <2> QED BY <1>3, <2>1, <2>2
<1>5. SocialTipping!UpdateTop(l, u, n) = g
  BY <1>1, <1>4
<1>6. /\ k \in 1 .. i
      /\ \A j \in 1 .. i - 1 : l[j].amount >= n <=> j < k
  <2> DEFINE q == i - 1
             a == [j \in 1 .. q |-> l[j].amount]
  <2>1. q \in Nat /\ q <= m /\ q + 1 = i
    <3> HIDE DEF m
    <3> QED BY <1>2, <1>4
  <2>2. k = Cardinality({j \in 1 .. q : a[j] >= n}) + 1
    <3>1. {j \in 1 .. i - 1 : l[j].amount >= n} = {j \in 1 .. q : a[j] >= n}
      OBVIOUS
    <3> QED BY <3>1
  <2> HIDE DEF k, q
  <2>3. \A j \in 1 .. q : l[j] \in ShownTotal /\ j \in 1 .. m
    <3> HIDE DEF m
    <3>1. \A j \in 1 .. q : j \in 1 .. m
      BY <1>2, <2>1
    <3> QED BY <1>2, <3>1 DEF m
  <2>4. a \in [1 .. q -> Int]
    BY <2>3 DEF ShownTotal
  <2>5. \A b, c \in 1 .. q : b < c => a[b] >= a[c]
    BY <2>3 DEF Shows
  <2>6. \A j \in 1 .. q : a[j] = l[j].amount
    OBVIOUS
  <2> HIDE DEF a
  <2>9. n \in Int
    OBVIOUS
  <2>7. LET x == Cardinality({j \in 1 .. q : a[j] >= n}) + 1
        IN x \in 1 .. q + 1 /\ \A j \in 1 .. q : a[j] >= n <=> j < x
    BY <2>1, <2>4, <2>5, <2>9, AtLeastFirst
  <2>8. k \in 1 .. q + 1 /\ \A j \in 1 .. q : a[j] >= n <=> j < k
    BY <2>2, <2>7
  <2> QED BY <2>1, <2>6, <2>8 DEF q
<1> HIDE DEF k
<1>7. Climbs(g, l, m, i, k, size, u, n)
  BY <1>2, <1>3, <1>4, <1>6 DEF Climbs
<1> HIDE DEF g, m, e
<1>8. g \in Seq(ShownTotal) /\ Shows(g, after)
  BY <1>7, EntryMoved
<1> QED BY <1>5, <1>8

-----------------------------------------------------------------------------
\* The histories with one tip more.
LEMMA SentFinite ==
  ASSUME NEW h, NEW u
  PROVE  IsFiniteSet(Sent(h, u)) /\ Cardinality(Sent(h, u)) \in Nat
<1>1. IsFiniteSet(OfSocialTipping.Users) /\ OfSocialTipping.MaxTips \in Nat
  BY SocialTippingAssumption
<1>2. IsFiniteSet(1 .. OfSocialTipping.MaxTips)
  BY <1>1, FS_Interval
<1>3. IsFiniteSet(OfSocialTipping.Users \X (1 .. OfSocialTipping.MaxTips))
  BY <1>1, <1>2, FS_Product
<1>4. Sent(h, u) \subseteq OfSocialTipping.Users \X (1 .. OfSocialTipping.MaxTips)
  BY DEF Sent
<1> QED BY <1>3, <1>4, FS_Subset, FS_CardinalityType

LEMMA GotMore ==
  ASSUME NEW s \in Seq(Tipping), NEW x \in Tipping
  PROVE  Got(Append(s, x)) = Got(s) + x.amount /\ Got(s) \in Nat
<1> DEFINE n == Len(s)
           l == Append(s, x)
           k == [i \in 1 .. n + 1 |-> l[i].amount]
<1>1. /\ l \in Seq(Tipping) /\ Len(l) = n + 1 /\ n \in Nat /\ l[n + 1] = x
      /\ \A i \in 1 .. n : l[i] = s[i]
  BY Appended
<1> HIDE DEF l, n
<1>2. \A i \in 1 .. n + 1 : k[i] \in Nat
  <2>1. \A i \in 1 .. n + 1 : l[i] \in Tipping
    BY <1>1
  <2> QED BY <2>1 DEF Tipping
<1>3. k[n + 1] = x.amount /\ (\A i \in 1 .. n : k[i] = s[i].amount)
  BY <1>1
<1>4. (1 .. n) \cup {n + 1} = 1 .. n + 1 /\ n + 1 \notin 1 .. n
  BY <1>1
<1>5. IsFiniteSet(1 .. n)
  BY <1>1, FS_Interval
<1> HIDE DEF k
<1>6. /\ Total([i \in 1 .. n + 1 |-> k[i]]) = Total([i \in 1 .. n |-> k[i]]) + k[n + 1]
      /\ Total([i \in 1 .. n |-> k[i]]) \in Nat
  <2>1. \A i \in (1 .. n) \cup {n + 1} : k[i] \in Nat
    BY <1>2, <1>4
  <2>2. /\ Total([i \in (1 .. n) \cup {n + 1} |-> k[i]]) = Total([i \in 1 .. n |-> k[i]]) + k[n + 1]
        /\ Total([i \in 1 .. n |-> k[i]]) \in Nat
    <3> DEFINE T == 1 .. n
               y == n + 1
    <3>1. IsFiniteSet(T) /\ y \notin T /\ \A i \in T \cup {y} : k[i] \in Nat
      BY <1>4, <1>5, <2>1
    <3> HIDE DEF T, y
    <3>2. /\ Total([i \in T \cup {y} |-> k[i]]) = Total([i \in T |-> k[i]]) + k[y]
          /\ Total([i \in T |-> k[i]]) \in Nat
      BY <3>1, TotalOneMore
    <3> QED BY <3>2 DEF T, y
  <2> QED BY <1>4, <2>2
<1>7. Got(s) = Total([i \in 1 .. n |-> k[i]])
  <2>1. [i \in 1 .. n |-> k[i]] = [i \in 1 .. n |-> s[i].amount]
    BY <1>3
  <2> QED BY <2>1 DEF Got, n
<1>8. Got(l) = Total([i \in 1 .. n + 1 |-> k[i]])
  <2>1. [i \in 1 .. n + 1 |-> k[i]] = [i \in 1 .. Len(l) |-> l[i].amount]
    BY <1>1 DEF k
  <2> QED BY <2>1 DEF Got
<1> QED BY <1>3, <1>6, <1>7, <1>8 DEF l

\* The histories h with the tip x to r.
Longer(h, r, x) == [h EXCEPT ![r] = Append(h[r], x)]

LEMMA HistoryMore ==
  ASSUME NEW h \in TipHistories, NEW r \in OfSocialTipping.Users, NEW x \in Tipping
  PROVE  LET g == Longer(h, r, x) IN
         /\ g \in TipHistories /\ TipsIn(g) = TipsIn(h) + 1 /\ TipsIn(h) \in Nat
         /\ Len(g[r]) = Len(h[r]) + 1 /\ g[r][Len(h[r]) + 1] = x
         /\ \A i \in 1 .. Len(h[r]) : g[r][i] = h[r][i]
         /\ \A v \in OfSocialTipping.Users : v # r => g[v] = h[v]
         /\ \A v \in OfSocialTipping.Users : Len(h[v]) \in Nat /\ Len(g[v]) <= TipsIn(g)
<1> DEFINE g == Longer(h, r, x)
<1>1. /\ h[r] \in Seq(Tipping) /\ g[r] = Append(h[r], x)
      /\ DOMAIN g = OfSocialTipping.Users /\ g = [v \in OfSocialTipping.Users |-> g[v]]
      /\ \A v \in OfSocialTipping.Users : v # r => g[v] = h[v]
  BY DEF TipHistories, Longer
<1> HIDE DEF g
<1>2. /\ g[r] \in Seq(Tipping) /\ Len(g[r]) = Len(h[r]) + 1 /\ g[r][Len(h[r]) + 1] = x
      /\ \A i \in 1 .. Len(h[r]) : g[r][i] = h[r][i]
  BY <1>1, Appended
<1>3. g \in TipHistories
  BY <1>1, <1>2 DEF TipHistories
<1> DEFINE a == [v \in OfSocialTipping.Users |-> Len(h[v])]
           b == [v \in OfSocialTipping.Users |-> Len(g[v])]
<1>4. /\ a \in [OfSocialTipping.Users -> Nat] /\ b \in [OfSocialTipping.Users -> Nat]
      /\ b[r] = a[r] + 1 /\ \A v \in OfSocialTipping.Users \ {r} : b[v] = a[v]
      /\ \A v \in OfSocialTipping.Users : a[v] = Len(h[v]) /\ b[v] = Len(g[v])
  <2>1. \A v \in OfSocialTipping.Users : Len(h[v]) \in Nat /\ Len(g[v]) \in Nat
    <3> SUFFICES ASSUME NEW v \in OfSocialTipping.Users PROVE Len(h[v]) \in Nat /\ Len(g[v]) \in Nat
      OBVIOUS
    <3>1. h[v] \in Seq(Tipping) /\ g[v] \in Seq(Tipping)
      BY <1>3 DEF TipHistories
    <3> QED BY <3>1
  <2> QED BY <1>1, <1>2, <2>1
<1> HIDE DEF a, b
<1>5. IsFiniteSet(OfSocialTipping.Users) /\ 1 \in Nat
  BY SocialTippingAssumption
<1>6. Total(b) = Total(a) + 1 /\ Total(a) \in Nat
  <2>1. Total(b) = Total(a) + (b[r] - a[r]) /\ Total(a) \in Nat
    <3> DEFINE U == OfSocialTipping.Users
    <3>1. /\ IsFiniteSet(U) /\ a \in [U -> Nat] /\ b \in [U -> Nat] /\ r \in U
          /\ \A v \in U \ {r} : b[v] = a[v]
      BY <1>4, <1>5
    <3> HIDE DEF U
    <3> QED BY ONLY <3>1, TotalChange
  <2>2. a[r] \in Nat /\ b[r] = a[r] + 1
    BY <1>4
  <2> QED BY <2>1, <2>2
<1>7. \A v \in OfSocialTipping.Users : b[v] <= Total(b)
  BY <1>4, <1>5, TotalCovers
<1> QED BY <1>1, <1>2, <1>3, <1>4, <1>6, <1>7 DEF TipsIn, a, b, g

LEMMA SentMore ==
  ASSUME NEW h \in TipHistories, NEW r \in OfSocialTipping.Users, NEW x \in Tipping,
         TipsIn(Longer(h, r, x)) <= OfSocialTipping.MaxTips
  PROVE  LET g == Longer(h, r, x) IN
         /\ \A v : \A t \in Sent(h, v) : TipAt(g, t) = TipAt(h, t)
         /\ Sent(g, x.from) = Sent(h, x.from) \cup {<<r, Len(h[r]) + 1>>}
         /\ <<r, Len(h[r]) + 1>> \notin Sent(h, x.from)
         /\ TipAt(g, <<r, Len(h[r]) + 1>>) = x
<1> DEFINE new == <<r, Len(h[r]) + 1>>
           g == Longer(h, r, x)
<1>1. /\ g \in TipHistories /\ TipsIn(g) \in Nat /\ Len(g[r]) = Len(h[r]) + 1
      /\ g[r][Len(h[r]) + 1] = x
      /\ \A i \in 1 .. Len(h[r]) : g[r][i] = h[r][i]
      /\ \A v \in OfSocialTipping.Users : v # r => g[v] = h[v]
      /\ \A v \in OfSocialTipping.Users : Len(h[v]) \in Nat /\ Len(g[v]) <= TipsIn(g)
  <2>1. TipsIn(g) = TipsIn(h) + 1 /\ TipsIn(h) \in Nat
    BY HistoryMore
  <2>2. TipsIn(g) \in Nat
    BY <2>1
  <2> QED BY <2>2, HistoryMore
<1>0. TipsIn(g) <= OfSocialTipping.MaxTips
  OBVIOUS
<1> HIDE DEF g
<1>2. new[1] = r /\ new[2] = Len(h[r]) + 1
  OBVIOUS
<1>3. new \in OfSocialTipping.Users \X (1 .. OfSocialTipping.MaxTips)
  <2>1. Len(h[r]) + 1 \in 1 .. OfSocialTipping.MaxTips
    <3> DEFINE a == Len(h[r])
               b == TipsIn(g)
    <3>1. a \in Nat /\ a + 1 <= b /\ b \in Nat /\ b <= OfSocialTipping.MaxTips
      BY <1>0, <1>1
    <3>2. OfSocialTipping.MaxTips \in Nat
      BY SocialTippingAssumption
    <3> HIDE DEF a, b
    <3>3. a + 1 \in 1 .. OfSocialTipping.MaxTips
      BY <3>1, <3>2
    <3> QED BY <3>3 DEF a
  <2> QED BY <2>1
<1>4. new[2] \in 1 .. Len(g[new[1]]) /\ TipAt(g, new) = x
  BY <1>1, <1>2 DEF TipAt
<1>5. \A t \in OfSocialTipping.Users \X (1 .. OfSocialTipping.MaxTips) :
         t[1] \in OfSocialTipping.Users /\ t[2] \in Nat /\ t = <<t[1], t[2]>>
  OBVIOUS
<1>6. ASSUME NEW t \in OfSocialTipping.Users \X (1 .. OfSocialTipping.MaxTips), t # new
      PROVE  /\ t[2] \in 1 .. Len(g[t[1]]) <=> t[2] \in 1 .. Len(h[t[1]])
             /\ t[2] \in 1 .. Len(h[t[1]]) => TipAt(g, t) = TipAt(h, t)
  <2>1. t[1] \in OfSocialTipping.Users /\ t[2] \in Nat /\ t = <<t[1], t[2]>>
    BY <1>5
  <2>2. CASE t[1] = r
    <3>1. t[2] # Len(h[r]) + 1
      BY <1>6, <2>1, <2>2
    <3> HIDE DEF new
    <3> QED BY <1>1, <2>1, <2>2, <3>1 DEF TipAt
  <2>3. CASE t[1] # r
    BY <1>1, <2>1, <2>3 DEF TipAt
  <2> QED BY <2>2, <2>3
<1>7. new[2] \notin 1 .. Len(h[new[1]])
  BY <1>1, <1>2
<1> HIDE DEF new
<1>8. ASSUME NEW v, NEW t \in Sent(h, v) PROVE TipAt(g, t) = TipAt(h, t)
  BY <1>6, <1>7 DEF Sent
<1>9. new \notin Sent(h, x.from)
  BY <1>7 DEF Sent
<1>10. ASSUME NEW t PROVE t \in Sent(g, x.from) <=> t \in Sent(h, x.from) \cup {new}
  <2>1. CASE t = new
    BY <1>3, <1>4, <2>1 DEF Sent
  <2>2. CASE t # new
    BY <1>6, <2>2 DEF Sent
  <2> QED BY <2>1, <2>2
<1>11. Sent(g, x.from) = Sent(h, x.from) \cup {new}
  BY <1>10
<1> QED BY <1>4, <1>8, <1>9, <1>11 DEF new, g

LEMMA SentTyped ==
  ASSUME NEW h \in TipHistories, NEW u, NEW t \in Sent(h, u)
  PROVE  TipAt(h, t) \in Tipping /\ t[1] \in OfSocialTipping.Users /\ t[2] \in 1 .. Len(h[t[1]])
<1>1. t[1] \in OfSocialTipping.Users /\ t[2] \in 1 .. Len(h[t[1]])
  BY DEF Sent
<1>2. h[t[1]] \in Seq(Tipping)
  BY <1>1 DEF TipHistories
<1> QED BY <1>1, <1>2 DEF TipAt

LEMMA SpentMore ==
  ASSUME NEW h \in TipHistories, NEW r \in OfSocialTipping.Users, NEW x \in Tipping,
         TipsIn(Longer(h, r, x)) <= OfSocialTipping.MaxTips
  PROVE  LET g == Longer(h, r, x)
             u == x.from IN
         /\ Spent(g, u) = Spent(h, u) + x.amount /\ Spent(h, u) \in Nat
         /\ Cardinality(Sent(g, u)) = Cardinality(Sent(h, u)) + 1
         /\ \A d : Cardinality(OnDay(g, u, d))
                     = Cardinality(OnDay(h, u, d))
                         + IF x.timestamp \div OfSocialTipping.DAY = d THEN 1 ELSE 0
<1> DEFINE g == Longer(h, r, x)
           u == x.from
           S == Sent(h, u)
           new == <<r, Len(h[r]) + 1>>
           k == [t \in S \cup {new} |-> TipAt(g, t).amount]
<1>1. /\ \A t \in S : TipAt(g, t) = TipAt(h, t)
      /\ Sent(g, u) = S \cup {new} /\ new \notin S /\ TipAt(g, new) = x
  BY SentMore
<1>2. IsFiniteSet(S) /\ Cardinality(S) \in Nat
  BY SentFinite
<1>3. \A t \in S : TipAt(h, t).amount \in Nat
  BY SentTyped DEF Tipping
<1>4. x.amount \in Nat
  BY DEF Tipping
<1>5. Spent(h, u) = Total([t \in S |-> TipAt(h, t).amount])
  BY DEF Spent
<1>6. Spent(g, u) = Total([t \in S \cup {new} |-> TipAt(g, t).amount])
  BY <1>1 DEF Spent
<1>7. \A d : OnDay(h, u, d) = {t \in S : TipAt(h, t).timestamp \div OfSocialTipping.DAY = d}
  BY DEF OnDay
<1>8. \A d : OnDay(g, u, d)
               = {t \in S \cup {new} : TipAt(g, t).timestamp \div OfSocialTipping.DAY = d}
  BY <1>1 DEF OnDay
<1> HIDE DEF g, u, S, new
<1>9. Cardinality(Sent(g, u)) = Cardinality(S) + 1
  BY <1>1, <1>2, FS_AddElement
<1>10. /\ \A t \in S \cup {new} : k[t] \in Nat
       /\ k[new] = x.amount
       /\ \A t \in S : k[t] = TipAt(h, t).amount
  BY <1>1, <1>3, <1>4
<1>11. [t \in S \cup {new} |-> TipAt(g, t).amount] = [t \in S \cup {new} |-> k[t]]
  OBVIOUS
<1> HIDE DEF k
<1>12. /\ Total([t \in S \cup {new} |-> k[t]]) = Total([t \in S |-> k[t]]) + k[new]
       /\ Total([t \in S |-> k[t]]) \in Nat
  BY <1>1, <1>2, <1>10, TotalOneMore
<1>13. [t \in S |-> k[t]] = [t \in S |-> TipAt(h, t).amount]
  BY <1>10
<1>14. Spent(g, u) = Spent(h, u) + x.amount /\ Spent(h, u) \in Nat
  BY <1>5, <1>6, <1>10, <1>11, <1>12, <1>13
<1>15. ASSUME NEW d
       PROVE  Cardinality(OnDay(g, u, d))
                = Cardinality(OnDay(h, u, d)) + IF x.timestamp \div OfSocialTipping.DAY = d THEN 1 ELSE 0
  <2>1. IsFiniteSet(OnDay(h, u, d)) /\ Cardinality(OnDay(h, u, d)) \in Nat
    <3>1. OnDay(h, u, d) \subseteq S
      BY <1>7
    <3> QED BY <1>2, <3>1, FS_Subset, FS_CardinalityType
  <2>2. CASE x.timestamp \div OfSocialTipping.DAY = d
    <3>1. OnDay(g, u, d) = OnDay(h, u, d) \cup {new} /\ new \notin OnDay(h, u, d)
      BY <1>1, <1>7, <1>8, <2>2
    <3> QED BY <2>1, <2>2, <3>1, FS_AddElement
  <2>3. CASE x.timestamp \div OfSocialTipping.DAY # d
    <3>1. OnDay(g, u, d) = OnDay(h, u, d)
      BY <1>1, <1>7, <1>8, <2>3
    <3> QED BY <2>1, <2>3, <3>1
  <2> QED BY <2>2, <2>3
<1> QED BY <1>9, <1>14, <1>15 DEF g, u, S

-----------------------------------------------------------------------------
\* After k tips of u at this time, which come to sum: the histories h, the
\* statistics rec and the leaderboard l, where share is what each recipient got.
Tipped(h, rec, l, u, k, share, sum) ==
  /\ h \in TipHistories /\ rec \in [OfSocialTipping.Users -> RecipientStats] /\ l \in Seq(ShownTotal)
  /\ k \in Nat /\ share \in [OfSocialTipping.Users -> Nat] /\ sum \in Nat
  /\ TipsIn(h) = TipsIn(log) + k
  /\ Shows(l, [v \in OfSocialTipping.Users |-> rec[v].total_received])
  /\ \A v \in OfSocialTipping.Users :
       /\ rec[v].total_received = Got(h[v])
       /\ rec[v].total_received = recipient[v].total_received + share[v]
       /\ Len(log[v]) <= Len(h[v])
       /\ \A i \in 1 .. Len(log[v]) : h[v][i] = log[v][i]
       /\ \A i \in 1 .. Len(h[v]) : \/ i \in 1 .. Len(log[v])
                                    \/ h[v][i].from = u /\ h[v][i].timestamp = clock
  /\ Spent(h, u) = Spent(log, u) + sum /\ Spent(log, u) \in Nat
  /\ Cardinality(Sent(h, u)) = Cardinality(Sent(log, u)) + k
  /\ \A d \in TipDays : Cardinality(OnDay(h, u, d))
                          = Cardinality(OnDay(log, u, d))
                              + IF clock \div OfSocialTipping.DAY = d THEN k ELSE 0

ReceivedMore(rec, r, n) ==
  [rec EXCEPT ![r] = [total_received |-> rec[r].total_received + n,
                      tip_count |-> rec[r].tip_count + 1]]

LEMMA RecipientMore ==
  ASSUME NEW rec \in [OfSocialTipping.Users -> RecipientStats], NEW r \in OfSocialTipping.Users,
         NEW n \in Nat
  PROVE  LET new == ReceivedMore(rec, r, n) IN
         /\ new \in [OfSocialTipping.Users -> RecipientStats]
         /\ new[r].total_received = rec[r].total_received + n
         /\ \A v \in OfSocialTipping.Users : v # r => new[v] = rec[v]
<1> DEFINE x == [total_received |-> rec[r].total_received + n, tip_count |-> rec[r].tip_count + 1]
<1>1. x \in RecipientStats /\ x.total_received = rec[r].total_received + n
  <2>1. rec[r] \in RecipientStats
    OBVIOUS
  <2> QED BY <2>1 DEF RecipientStats
<1>2. ReceivedMore(rec, r, n) = [rec EXCEPT ![r] = x]
  BY DEF ReceivedMore
<1> HIDE DEF x
<1> QED BY <1>1, <1>2

LEMMA TippedMore ==
  ASSUME TipTypes, NEW u \in OfSocialTipping.Users, NEW h, NEW rec, NEW l, NEW k, NEW share, NEW sum,
         Tipped(h, rec, l, u, k, share, sum), TipsIn(log) + k < OfSocialTipping.MaxTips,
         NEW r \in OfSocialTipping.Users, NEW n \in Nat
  PROVE  Tipped(Longer(h, r, [from |-> u, amount |-> n, timestamp |-> clock]),
                ReceivedMore(rec, r, n),
                SocialTipping!UpdateTop(l, r, rec[r].total_received + n),
                u, k + 1, [share EXCEPT ![r] = share[r] + n], sum + n)
<1> DEFINE x == [from |-> u, amount |-> n, timestamp |-> clock]
           g == Longer(h, r, x)
           q == rec[r].total_received + n
           new == ReceivedMore(rec, r, n)
           board == SocialTipping!UpdateTop(l, r, q)
           after == [share EXCEPT ![r] = share[r] + n]
           was == [v \in OfSocialTipping.Users |-> rec[v].total_received]
           is == [v \in OfSocialTipping.Users |-> new[v].total_received]
<1>1. /\ h \in TipHistories /\ rec \in [OfSocialTipping.Users -> RecipientStats]
      /\ l \in Seq(ShownTotal) /\ k \in Nat /\ share \in [OfSocialTipping.Users -> Nat]
      /\ sum \in Nat /\ TipsIn(h) = TipsIn(log) + k /\ Shows(l, was)
      /\ \A v \in OfSocialTipping.Users :
            /\ rec[v].total_received = Got(h[v])
            /\ rec[v].total_received = recipient[v].total_received + share[v]
            /\ Len(log[v]) <= Len(h[v])
            /\ \A i \in 1 .. Len(log[v]) : h[v][i] = log[v][i]
            /\ \A i \in 1 .. Len(h[v]) : \/ i \in 1 .. Len(log[v])
                                         \/ h[v][i].from = u /\ h[v][i].timestamp = clock
      /\ Spent(h, u) = Spent(log, u) + sum /\ Spent(log, u) \in Nat
      /\ Cardinality(Sent(h, u)) = Cardinality(Sent(log, u)) + k
      /\ \A d \in TipDays : Cardinality(OnDay(h, u, d))
                              = Cardinality(OnDay(log, u, d))
                                  + IF clock \div OfSocialTipping.DAY = d THEN k ELSE 0
  BY DEF Tipped
<1>2. x \in Tipping /\ x.from = u /\ x.amount = n /\ x.timestamp = clock
  <2>1. clock \in Nat
    BY SocialTippingAssumption DEF TipTypes
  <2> QED BY <2>1 DEF Tipping
<1> HIDE DEF x
<1>3. /\ g \in TipHistories /\ TipsIn(g) = TipsIn(h) + 1 /\ TipsIn(h) \in Nat
      /\ Len(g[r]) = Len(h[r]) + 1 /\ g[r][Len(h[r]) + 1] = x
      /\ \A i \in 1 .. Len(h[r]) : g[r][i] = h[r][i]
      /\ \A v \in OfSocialTipping.Users : v # r => g[v] = h[v]
      /\ \A v \in OfSocialTipping.Users : Len(h[v]) \in Nat
  <2>1. h \in TipHistories /\ x \in Tipping
    BY <1>1, <1>2
  <2> QED BY <2>1, HistoryMore
<1>4. g[r] = Append(h[r], x) /\ h[r] \in Seq(Tipping) /\ log \in TipHistories
  BY <1>1 DEF TipHistories, Longer, TipTypes
<1>5. TipsIn(g) <= OfSocialTipping.MaxTips /\ TipsIn(g) = TipsIn(log) + (k + 1)
  <2>1. TipsIn(log) \in Nat
    BY <1>2, <1>4, HistoryMore
  <2>2. OfSocialTipping.MaxTips \in Nat
    BY SocialTippingAssumption
  <2> HIDE DEF g
  <2> QED BY <1>1, <1>3, <2>1, <2>2
<1>6. /\ Spent(g, u) = Spent(h, u) + n /\ Spent(h, u) \in Nat
      /\ Cardinality(Sent(g, u)) = Cardinality(Sent(h, u)) + 1
      /\ \A d : Cardinality(OnDay(g, u, d))
                  = Cardinality(OnDay(h, u, d))
                      + IF clock \div OfSocialTipping.DAY = d THEN 1 ELSE 0
  <2>1. /\ Spent(g, x.from) = Spent(h, x.from) + x.amount /\ Spent(h, x.from) \in Nat
        /\ Cardinality(Sent(g, x.from)) = Cardinality(Sent(h, x.from)) + 1
        /\ \A d : Cardinality(OnDay(g, x.from, d))
                    = Cardinality(OnDay(h, x.from, d))
                        + IF x.timestamp \div OfSocialTipping.DAY = d THEN 1 ELSE 0
    BY <1>1, <1>2, <1>5, SpentMore
  <2> HIDE DEF g
  <2> QED BY <1>2, <2>1
<1>7. Got(g[r]) = Got(h[r]) + n /\ Got(h[r]) \in Nat
  BY <1>2, <1>4, GotMore
<1> HIDE DEF g
<1>8. /\ new \in [OfSocialTipping.Users -> RecipientStats]
      /\ new[r].total_received = rec[r].total_received + n
      /\ \A v \in OfSocialTipping.Users : v # r => new[v] = rec[v]
  <2>1. rec \in [OfSocialTipping.Users -> RecipientStats]
    BY <1>1
  <2> QED BY <2>1, RecipientMore
<1> HIDE DEF new
<1>9. /\ \A v \in OfSocialTipping.Users : rec[v].total_received \in Nat /\ recipient[v].total_received \in Nat
  BY <1>1 DEF RecipientStats, TipTypes
<1>10. board \in Seq(ShownTotal) /\ Shows(board, is)
  <2>1. was \in [OfSocialTipping.Users -> Nat] /\ was[r] <= q /\ q \in Nat
    BY <1>9
  <2>2. is = [was EXCEPT ![r] = q]
    BY <1>8
  <2> HIDE DEF was, is, q
  <2> QED BY <1>1, <2>1, <2>2, TopUpdated
<1>11. after \in [OfSocialTipping.Users -> Nat] /\ after[r] = share[r] + n
       /\ \A v \in OfSocialTipping.Users : v # r => after[v] = share[v]
  BY <1>1
<1> HIDE DEF after, board, is, was
<1>17. \A v \in OfSocialTipping.Users :
          /\ rec[v].total_received = Got(h[v])
          /\ rec[v].total_received = recipient[v].total_received + share[v]
          /\ Len(log[v]) <= Len(h[v])
          /\ \A i \in 1 .. Len(log[v]) : h[v][i] = log[v][i]
          /\ \A i \in 1 .. Len(h[v]) : \/ i \in 1 .. Len(log[v])
                                       \/ h[v][i].from = u /\ h[v][i].timestamp = clock
  BY <1>1
<1>12. ASSUME NEW v \in OfSocialTipping.Users
       PROVE  /\ new[v].total_received = Got(g[v])
              /\ new[v].total_received = recipient[v].total_received + after[v]
              /\ Len(log[v]) <= Len(g[v])
              /\ \A i \in 1 .. Len(log[v]) : g[v][i] = log[v][i]
              /\ \A i \in 1 .. Len(g[v]) : \/ i \in 1 .. Len(log[v])
                                           \/ g[v][i].from = u /\ g[v][i].timestamp = clock
  <2>1. CASE v = r
    <3>1. new[v].total_received = Got(g[v])
      BY <1>1, <1>7, <1>8, <2>1
    <3>2. new[v].total_received = recipient[v].total_received + after[v]
      <4>1. /\ rec[r].total_received = recipient[r].total_received + share[r] /\ share[r] \in Nat
            /\ recipient[r].total_received \in Nat
        BY <1>1, <1>9
      <4> QED BY <1>8, <1>11, <2>1, <4>1
    <3>3. Len(log[r]) \in Nat /\ Len(h[r]) \in Nat /\ Len(log[r]) <= Len(h[r])
      <4>1. log[r] \in Seq(Tipping)
        BY <1>4 DEF TipHistories
      <4> QED BY <1>1, <1>3, <4>1
    <3>4. Len(log[v]) <= Len(g[v])
      BY <1>3, <2>1, <3>3
    <3>5. \A i \in 1 .. Len(log[v]) : g[v][i] = log[v][i]
      <4>1. \A i \in 1 .. Len(log[r]) : i \in 1 .. Len(h[r])
        BY <3>3
      <4> QED BY <1>3, <1>17, <2>1, <4>1
    <3>6. ASSUME NEW i \in 1 .. Len(g[v])
          PROVE  \/ i \in 1 .. Len(log[v])
                 \/ g[v][i].from = u /\ g[v][i].timestamp = clock
      <4>1. CASE i = Len(h[r]) + 1
        BY <1>2, <1>3, <2>1, <4>1
      <4>2. CASE i # Len(h[r]) + 1
        <5>1. i \in 1 .. Len(h[r])
          BY <1>3, <2>1, <3>3, <4>2
        <5>2. g[v][i] = h[r][i]
          BY <1>3, <2>1, <5>1
        <5> QED BY <1>17, <2>1, <5>1, <5>2
      <4> QED BY <4>1, <4>2
    <3> QED BY <3>1, <3>2, <3>4, <3>5, <3>6
  <2>2. CASE v # r
    <3>1. g[v] = h[v] /\ new[v] = rec[v] /\ after[v] = share[v]
      BY <1>3, <1>8, <1>11, <2>2
    <3> QED BY <1>17, <3>1
  <2> QED BY <2>1, <2>2
<1>13. /\ Spent(g, u) = Spent(log, u) + (sum + n)
       /\ Cardinality(Sent(g, u)) = Cardinality(Sent(log, u)) + (k + 1)
  <2>1. Cardinality(Sent(log, u)) \in Nat
    BY SentFinite
  <2> QED BY <1>1, <1>6, <2>1
<1>14. ASSUME NEW d \in TipDays
       PROVE  Cardinality(OnDay(g, u, d))
                = Cardinality(OnDay(log, u, d))
                    + IF clock \div OfSocialTipping.DAY = d THEN k + 1 ELSE 0
  <2>1. Cardinality(OnDay(log, u, d)) \in Nat
    <3>1. OnDay(log, u, d) \subseteq Sent(log, u)
      BY DEF OnDay
    <3> QED BY <3>1, SentFinite, FS_Subset, FS_CardinalityType
  <2>2. CASE clock \div OfSocialTipping.DAY = d
    BY <1>1, <1>6, <2>1, <2>2
  <2>3. CASE clock \div OfSocialTipping.DAY # d
    BY <1>1, <1>6, <2>1, <2>3
  <2> QED BY <2>2, <2>3
<1>15. sum + n \in Nat /\ k + 1 \in Nat
  BY <1>1
<1>16. Tipped(g, new, board, u, k + 1, after, sum + n)
  BY <1>1, <1>3, <1>5, <1>8, <1>10, <1>11, <1>12, <1>13, <1>14, <1>15 DEF Tipped, is
<1> QED BY <1>16 DEF g, new, board, after, x, q

\* What was sent before is still there, and what is new is u's at this time.
LEMMA SentBefore ==
  ASSUME TipTypes, NEW u, NEW h, NEW rec, NEW l, NEW k, NEW share, NEW sum,
         Tipped(h, rec, l, u, k, share, sum), NEW w
  PROVE  /\ Sent(log, w) \subseteq Sent(h, w)
         /\ \A t \in Sent(log, w) : TipAt(h, t) = TipAt(log, t)
         /\ \A t \in Sent(h, w) : t \notin Sent(log, w) => w = u /\ TipAt(h, t).timestamp = clock
<1>1. \A v \in OfSocialTipping.Users :
         /\ Len(log[v]) <= Len(h[v])
         /\ \A i \in 1 .. Len(log[v]) : h[v][i] = log[v][i]
         /\ \A i \in 1 .. Len(h[v]) : \/ i \in 1 .. Len(log[v])
                                      \/ h[v][i].from = u /\ h[v][i].timestamp = clock
  BY DEF Tipped
<1>2. \A v \in OfSocialTipping.Users : Len(log[v]) \in Nat /\ Len(h[v]) \in Nat
  <2>1. h \in TipHistories /\ log \in TipHistories
    BY DEF Tipped, TipTypes
  <2>2. SUFFICES ASSUME NEW v \in OfSocialTipping.Users PROVE Len(log[v]) \in Nat /\ Len(h[v]) \in Nat
    OBVIOUS
  <2>3. h[v] \in Seq(Tipping) /\ log[v] \in Seq(Tipping)
    BY <2>1 DEF TipHistories
  <2> QED BY <2>3
<1>3. ASSUME NEW t \in Sent(log, w) PROVE t \in Sent(h, w) /\ TipAt(h, t) = TipAt(log, t)
  <2>1. /\ t \in OfSocialTipping.Users \X (1 .. OfSocialTipping.MaxTips)
        /\ t[2] \in 1 .. Len(log[t[1]]) /\ TipAt(log, t).from = w
    BY DEF Sent
  <2>2. t[1] \in OfSocialTipping.Users
    BY <2>1
  <2>3. t[2] \in 1 .. Len(h[t[1]]) /\ TipAt(h, t) = TipAt(log, t)
    <3> DEFINE v == t[1]
               i == t[2]
    <3>1. v \in OfSocialTipping.Users /\ i \in 1 .. Len(log[v])
      BY <2>1, <2>2
    <3> HIDE DEF v, i
    <3>2. i \in 1 .. Len(h[v]) /\ h[v][i] = log[v][i]
      BY <1>1, <1>2, <3>1
    <3> QED BY <3>2 DEF v, i, TipAt
  <2> QED BY <2>1, <2>3 DEF Sent
<1>4. ASSUME NEW t \in Sent(h, w), t \notin Sent(log, w)
      PROVE  w = u /\ TipAt(h, t).timestamp = clock
  <2>1. /\ t \in OfSocialTipping.Users \X (1 .. OfSocialTipping.MaxTips)
        /\ t[2] \in 1 .. Len(h[t[1]]) /\ TipAt(h, t).from = w
    BY DEF Sent
  <2>2. t[1] \in OfSocialTipping.Users
    BY <2>1
  <2>3. ~ (t[2] \in 1 .. Len(log[t[1]]) /\ TipAt(log, t).from = w)
    BY <1>4, <2>1 DEF Sent
  <2> QED BY <1>1, <2>1, <2>2, <2>3 DEF TipAt
<1> QED BY <1>3, <1>4

LEMMA SentOfOthers ==
  ASSUME TipTypes, NEW u, NEW h, NEW rec, NEW l, NEW k, NEW share, NEW sum,
         Tipped(h, rec, l, u, k, share, sum), NEW w, w # u
  PROVE  /\ Sent(h, w) = Sent(log, w) /\ Spent(h, w) = Spent(log, w)
         /\ \A d : OnDay(h, w, d) = OnDay(log, w, d)
<1>1. Sent(h, w) = Sent(log, w) /\ \A t \in Sent(log, w) : TipAt(h, t) = TipAt(log, t)
  BY SentBefore
<1>2. [t \in Sent(h, w) |-> TipAt(h, t).amount] = [t \in Sent(log, w) |-> TipAt(log, t).amount]
  BY <1>1
<1>3. Spent(h, w) = Spent(log, w)
  BY <1>2 DEF Spent
<1>4. ASSUME NEW d PROVE OnDay(h, w, d) = OnDay(log, w, d)
  BY <1>1 DEF OnDay
<1> QED BY <1>1, <1>3, <1>4

\* The statistics of u with k tips more, which come to sum.
LEMMA StatsUpdated ==
  ASSUME TipTypes, NEW u \in OfSocialTipping.Users, NEW k \in Nat, NEW sum \in Nat,
         SocialTipping!UpdateTipperStats(u, sum, k)
  PROVE  LET today == clock \div OfSocialTipping.DAY
             more == tipper[u].total_tipped + sum IN
         /\ today \in TipDays /\ more \in Nat
         /\ tipper' \in [OfSocialTipping.Users -> TipperStats]
         /\ tipper'[u].total_tipped = more
         /\ tipper'[u].tip_count = tipper[u].tip_count + k /\ tipper'[u].last_tip_time = clock
         /\ \A v \in OfSocialTipping.Users : v # u => tipper'[v] = tipper[v] /\ daily'[v] = daily[v]
         /\ daily' \in [OfSocialTipping.Users -> [TipDays -> Nat]]
         /\ daily'[u][today] = daily[u][today] + k
         /\ \A d \in TipDays : d # today => daily'[u][d] = daily[u][d]
         /\ top_tippers' = SocialTipping!UpdateTop(top_tippers, u, more)
<1> DEFINE today == clock \div OfSocialTipping.DAY
           more == tipper[u].total_tipped + sum
           x == [total_tipped |-> more, tip_count |-> tipper[u].tip_count + k, last_tip_time |-> clock]
           f == daily[u]
           g == [f EXCEPT ![today] = f[today] + k]
<1>1. /\ tipper' = [tipper EXCEPT ![u] = x]
      /\ daily' = [daily EXCEPT ![u] = g]
      /\ top_tippers' = SocialTipping!UpdateTop(top_tippers, u, more)
  BY DEF SocialTipping!UpdateTipperStats
<1>2. tipper[u] \in TipperStats /\ f \in [TipDays -> Nat] /\ clock \in Nat
  BY SocialTippingAssumption DEF TipTypes
<1>3. today \in TipDays
  <2>1. OfSocialTipping.DAY \in Nat \ {0} /\ OfSocialTipping.MaxTime \in Nat /\ clock <= OfSocialTipping.MaxTime
    BY SocialTippingAssumption DEF TipTypes
  <2>2. today \in Nat /\ OfSocialTipping.MaxTime \div OfSocialTipping.DAY \in Nat
    BY <1>2, <2>1, Quotient
  <2>3. today <= OfSocialTipping.MaxTime \div OfSocialTipping.DAY
    BY <1>2, <2>1
  <2> QED BY <2>2, <2>3 DEF TipDays
<1>4. more \in Nat /\ x \in TipperStats
  BY <1>2 DEF TipperStats
<1>5. x.total_tipped = more /\ x.tip_count = tipper[u].tip_count + k /\ x.last_tip_time = clock
  OBVIOUS
<1> HIDE DEF more, today
<1>6. g \in [TipDays -> Nat] /\ g[today] = f[today] + k /\ \A d \in TipDays : d # today => g[d] = f[d]
  BY <1>2, <1>3
<1> HIDE DEF x, g
<1>7. tipper' \in [OfSocialTipping.Users -> TipperStats] /\ tipper'[u] = x
      /\ \A v \in OfSocialTipping.Users : v # u => tipper'[v] = tipper[v]
  BY <1>1, <1>4 DEF TipTypes
<1>8. daily' \in [OfSocialTipping.Users -> [TipDays -> Nat]] /\ daily'[u] = g
      /\ \A v \in OfSocialTipping.Users : v # u => daily'[v] = daily[v]
  BY <1>1, <1>6 DEF TipTypes
<1> QED BY <1>1, <1>3, <1>4, <1>5, <1>6, <1>7, <1>8 DEF more, today

\* k tips of u at this time, which come to sum, one after the other.
TipsMade(h, rec, l, u, k, share, sum) ==
  /\ Tipped(h, rec, l, u, k, share, sum)
  /\ log' = h /\ recipient' = rec /\ top_recipients' = l
  /\ tokens' = [v \in OfSocialTipping.Users |-> tokens[v] + share[v] - (IF v = u THEN sum ELSE 0)]
  /\ SocialTipping!UpdateTipperStats(u, sum, k)
  /\ settings # None
  /\ daily[u][clock \div OfSocialTipping.DAY] + k <= settings.max_tips_per_day
  /\ \/ settings.cooldown_seconds = 0
     \/ tipper[u].last_tip_time > 0 => clock - tipper[u].last_tip_time >= settings.cooldown_seconds
  /\ TipsIn(h) <= OfSocialTipping.MaxTips
  /\ UNCHANGED <<clock, settings>>

LEMMA TipsKeep ==
  ASSUME TipInv, NEW u \in OfSocialTipping.Users, NEW h, NEW rec, NEW l, NEW k, NEW share, NEW sum,
         TipsMade(h, rec, l, u, k, share, sum)
  PROVE  TipInv'
<1> DEFINE today == clock \div OfSocialTipping.DAY
           more == tipper[u].total_tipped + sum
<1>1. /\ Tipped(h, rec, l, u, k, share, sum)
      /\ log' = h /\ recipient' = rec /\ top_recipients' = l
      /\ tokens' = [v \in OfSocialTipping.Users |-> tokens[v] + share[v] - (IF v = u THEN sum ELSE 0)]
      /\ SocialTipping!UpdateTipperStats(u, sum, k)
      /\ settings # None /\ daily[u][today] + k <= settings.max_tips_per_day
      /\ \/ settings.cooldown_seconds = 0
         \/ tipper[u].last_tip_time > 0 => clock - tipper[u].last_tip_time >= settings.cooldown_seconds
      /\ TipsIn(h) <= OfSocialTipping.MaxTips /\ clock' = clock /\ settings' = settings
  BY DEF TipsMade
<1>2. TipTypes
  BY DEF TipInv
<1>3. /\ h \in TipHistories /\ rec \in [OfSocialTipping.Users -> RecipientStats] /\ l \in Seq(ShownTotal)
      /\ k \in Nat /\ share \in [OfSocialTipping.Users -> Nat] /\ sum \in Nat
      /\ Shows(l, [v \in OfSocialTipping.Users |-> rec[v].total_received])
      /\ \A v \in OfSocialTipping.Users : /\ rec[v].total_received = Got(h[v])
                                          /\ rec[v].total_received = recipient[v].total_received + share[v]
      /\ Spent(h, u) = Spent(log, u) + sum /\ Spent(log, u) \in Nat
      /\ Cardinality(Sent(h, u)) = Cardinality(Sent(log, u)) + k
      /\ \A d \in TipDays : Cardinality(OnDay(h, u, d))
                              = Cardinality(OnDay(log, u, d)) + IF today = d THEN k ELSE 0
  BY <1>1 DEF Tipped
<1>4. /\ today \in TipDays /\ more \in Nat
      /\ tipper' \in [OfSocialTipping.Users -> TipperStats]
      /\ tipper'[u].total_tipped = more
      /\ tipper'[u].tip_count = tipper[u].tip_count + k /\ tipper'[u].last_tip_time = clock
      /\ \A v \in OfSocialTipping.Users : v # u => tipper'[v] = tipper[v] /\ daily'[v] = daily[v]
      /\ daily' \in [OfSocialTipping.Users -> [TipDays -> Nat]]
      /\ daily'[u][today] = daily[u][today] + k
      /\ \A d \in TipDays : d # today => daily'[u][d] = daily[u][d]
      /\ top_tippers' = SocialTipping!UpdateTop(top_tippers, u, more)
  BY <1>1, <1>2, <1>3, StatsUpdated
<1>5. \A w : /\ Sent(log, w) \subseteq Sent(h, w)
             /\ \A t \in Sent(log, w) : TipAt(h, t) = TipAt(log, t)
             /\ \A t \in Sent(h, w) : t \notin Sent(log, w) => w = u /\ TipAt(h, t).timestamp = clock
  BY <1>1, <1>2, SentBefore
<1>6. \A w : w # u => /\ Sent(h, w) = Sent(log, w) /\ Spent(h, w) = Spent(log, w)
                      /\ \A d : OnDay(h, w, d) = OnDay(log, w, d)
  BY <1>1, <1>2, SentOfOthers
<1> HIDE DEF today, more
<1>7. /\ settings.max_tips_per_day \in Nat /\ settings.cooldown_seconds \in Nat /\ clock \in Nat \ {0}
      /\ settings \in OfSocialTipping.Configs
  BY <1>1, <1>2, SocialTippingAssumption DEF TipTypes
<1>8. \A v \in OfSocialTipping.Users :
         /\ tipper[v].total_tipped \in Nat /\ tipper[v].tip_count \in Nat /\ tipper[v].last_tip_time \in Nat
         /\ recipient[v].total_received \in Nat /\ tokens[v] \in Int
         /\ \A d \in TipDays : daily[v][d] \in Nat
  BY <1>2 DEF TipTypes, TipperStats, RecipientStats
<1>18. /\ top_tippers' \in Seq(ShownTotal)
       /\ Shows(top_tippers', [v \in OfSocialTipping.Users |-> tipper'[v].total_tipped])
  <2> DEFINE was == [v \in OfSocialTipping.Users |-> tipper[v].total_tipped]
             is == [v \in OfSocialTipping.Users |-> tipper'[v].total_tipped]
  <2>1. was \in [OfSocialTipping.Users -> Nat] /\ was[u] <= more /\ more \in Nat
    BY <1>3, <1>4, <1>8 DEF more
  <2>2. is = [was EXCEPT ![u] = more]
    BY <1>4
  <2>3. Shows(top_tippers, was) /\ top_tippers \in Seq(ShownTotal)
    BY <1>2 DEF TipInv, TipTypes
  <2> HIDE DEF was
  <2>4. /\ SocialTipping!UpdateTop(top_tippers, u, more) \in Seq(ShownTotal)
        /\ Shows(SocialTipping!UpdateTop(top_tippers, u, more), is)
    <3> HIDE DEF is
    <3> QED BY <2>1, <2>2, <2>3, TopUpdated
  <2> QED BY <1>4, <2>4
<1>9. TipTypes'
  <2>1. tokens' \in [OfSocialTipping.Users -> Int]
    <3>1. \A v \in OfSocialTipping.Users : tokens[v] + share[v] - (IF v = u THEN sum ELSE 0) \in Int
      BY <1>3, <1>8
    <3> QED BY <1>1, <3>1
  <2>2. clock' \in OfSocialTipping.Start .. OfSocialTipping.MaxTime
        /\ settings' \in OfSocialTipping.Configs \cup {None}
    BY <1>1, <1>2 DEF TipTypes
  <2>3. /\ recipient' \in [OfSocialTipping.Users -> RecipientStats]
        /\ log' \in TipHistories /\ TipsIn(log') <= OfSocialTipping.MaxTips
        /\ top_recipients' \in Seq(ShownTotal)
    BY <1>1, <1>3
  <2> QED BY <1>4, <1>18, <2>1, <2>2, <2>3 DEF TipTypes
<1>10. \A w \in OfSocialTipping.Users : BookedFor(w) /\ Cooled(w) /\ recipient[w].total_received = Got(log[w])
  BY DEF TipInv
<1>11. ASSUME NEW w \in OfSocialTipping.Users
       PROVE  /\ tipper'[w].total_tipped = Spent(h, w) /\ tipper'[w].tip_count = Cardinality(Sent(h, w))
              /\ tokens'[w] = OfSocialTipping.InitBalance + rec[w].total_received - tipper'[w].total_tipped
              /\ tipper'[w].last_tip_time <= clock
  <2>1. /\ tipper[w].total_tipped = Spent(log, w) /\ tipper[w].tip_count = Cardinality(Sent(log, w))
        /\ tokens[w] = OfSocialTipping.InitBalance + recipient[w].total_received - tipper[w].total_tipped
        /\ tipper[w].last_tip_time <= clock
    BY <1>10 DEF BookedFor
  <2>2. tokens'[w] = tokens[w] + share[w] - (IF w = u THEN sum ELSE 0) /\ share[w] \in Nat
        /\ rec[w].total_received = recipient[w].total_received + share[w]
        /\ OfSocialTipping.InitBalance \in Int
    BY <1>1, <1>3, SocialTippingAssumption
  <2>3. CASE w = u
    <3>1. tipper'[w].total_tipped = tipper[w].total_tipped + sum
      BY <1>4, <2>3 DEF more
    <3>2. tipper'[w].total_tipped = Spent(h, w) /\ tipper'[w].tip_count = Cardinality(Sent(h, w))
      BY <1>3, <1>4, <2>1, <2>3, <3>1
    <3>3. tokens'[w] = OfSocialTipping.InitBalance + rec[w].total_received - tipper'[w].total_tipped
      <4>1. /\ tokens'[w] = tokens[w] + share[w] - sum
            /\ tokens[w] = OfSocialTipping.InitBalance + recipient[w].total_received - tipper[w].total_tipped
            /\ rec[w].total_received = recipient[w].total_received + share[w]
            /\ tipper'[w].total_tipped = tipper[w].total_tipped + sum
        BY <2>1, <2>2, <2>3, <3>1
      <4>2. /\ share[w] \in Nat /\ sum \in Nat /\ tipper[w].total_tipped \in Nat
            /\ recipient[w].total_received \in Nat /\ OfSocialTipping.InitBalance \in Int
        BY <1>3, <1>8, <2>2
      <4> QED BY ONLY <4>1, <4>2
    <3>4. tipper'[w].last_tip_time <= clock
      BY <1>4, <1>7, <2>3
    <3> QED BY <3>2, <3>3, <3>4
  <2>4. CASE w # u
    <3>1. tipper'[w] = tipper[w] /\ Spent(h, w) = Spent(log, w) /\ Sent(h, w) = Sent(log, w)
      BY <1>4, <1>6, <2>4
    <3> QED BY <1>8, <2>1, <2>2, <2>4, <3>1
  <2> QED BY <2>3, <2>4
<1>12. ASSUME NEW w \in OfSocialTipping.Users, NEW d \in TipDays
       PROVE  /\ daily'[w][d] = Cardinality(OnDay(h, w, d))
              /\ daily'[w][d] > 0 => daily'[w][d] <= settings.max_tips_per_day
  <2>1. /\ daily[w][d] = Cardinality(OnDay(log, w, d))
        /\ daily[w][d] > 0 => daily[w][d] <= settings.max_tips_per_day
    BY <1>10 DEF BookedFor
  <2>2. CASE w = u /\ d = today
    BY <1>1, <1>3, <1>4, <2>1, <2>2
  <2>3. CASE w = u /\ d # today
    BY <1>3, <1>4, <1>8, <2>1, <2>3
  <2>4. CASE w # u
    BY <1>4, <1>6, <2>1, <2>4
  <2> QED BY <2>2, <2>3, <2>4
<1>13. \A w \in OfSocialTipping.Users : \A t \in Sent(log, w) :
          TipAt(log, t).timestamp \in 1 .. tipper[w].last_tip_time
  BY <1>10 DEF BookedFor
<1>14. ASSUME NEW w \in OfSocialTipping.Users, NEW t \in Sent(h, w)
       PROVE  TipAt(h, t).timestamp \in 1 .. tipper'[w].last_tip_time
  <2>1. CASE t \in Sent(log, w)
    <3>1. TipAt(h, t).timestamp \in 1 .. tipper[w].last_tip_time
      BY <1>5, <1>13, <2>1
    <3>2. tipper[w].last_tip_time <= tipper'[w].last_tip_time /\ tipper'[w].last_tip_time \in Nat
      BY <1>4, <1>7, <1>8, <1>10 DEF BookedFor
    <3> QED BY <1>8, <3>1, <3>2
  <2>2. CASE t \notin Sent(log, w)
    BY <1>4, <1>5, <1>7, <2>2
  <2> QED BY <2>1, <2>2
<1>15. \A w \in OfSocialTipping.Users : \A s, t \in Sent(log, w) :
          TipAt(log, s).timestamp < TipAt(log, t).timestamp
            => TipAt(log, t).timestamp - TipAt(log, s).timestamp >= settings.cooldown_seconds
  BY <1>10 DEF Cooled
<1>16. ASSUME NEW w \in OfSocialTipping.Users, NEW s \in Sent(h, w), NEW t \in Sent(h, w),
              TipAt(h, s).timestamp < TipAt(h, t).timestamp
       PROVE  TipAt(h, t).timestamp - TipAt(h, s).timestamp >= settings.cooldown_seconds
  <2>1. CASE s \in Sent(log, w) /\ t \in Sent(log, w)
    BY <1>5, <1>15, <1>16, <2>1
  <2>2. CASE s \in Sent(log, w) /\ t \notin Sent(log, w)
    <3>1. w = u /\ TipAt(h, t).timestamp = clock /\ TipAt(h, s) = TipAt(log, s)
      BY <1>5, <2>2
    <3>2. TipAt(log, s).timestamp \in 1 .. tipper[u].last_tip_time
      BY <1>13, <2>2, <3>1
    <3>3. TipAt(h, s).timestamp \in Nat /\ TipAt(h, s).timestamp <= tipper[u].last_tip_time
          /\ tipper[u].last_tip_time > 0
      BY <1>8, <3>1, <3>2
    <3> QED BY <1>1, <1>7, <1>8, <1>16, <3>1, <3>3
  <2>3. CASE s \notin Sent(log, w)
    <3>1. w = u /\ TipAt(h, s).timestamp = clock
      BY <1>5, <2>3
    <3>2. TipAt(h, t).timestamp \in 1 .. clock
      BY <1>4, <1>14, <3>1
    <3> QED BY <1>7, <1>16, <3>1, <3>2
  <2> QED BY <2>1, <2>2, <2>3
<1>17. ASSUME NEW w \in OfSocialTipping.Users
       PROVE  (BookedFor(w) /\ Cooled(w) /\ recipient[w].total_received = Got(log[w]))'
  <2>1. BookedFor(w)'
    BY <1>1, <1>11, <1>12, <1>14 DEF BookedFor
  <2>2. Cooled(w)'
    BY <1>1, <1>16 DEF Cooled
  <2>3. (recipient[w].total_received = Got(log[w]))'
    BY <1>1, <1>3
  <2> QED BY <2>1, <2>2, <2>3
<1>19. Shows(top_recipients, [v \in OfSocialTipping.Users |-> recipient[v].total_received])'
  BY <1>1, <1>3
<1> QED BY <1>9, <1>17, <1>18, <1>19 DEF TipInv

-----------------------------------------------------------------------------
\* A tip, and tips in a batch.
LEMMA TippedNone ==
  ASSUME TipInv, NEW u \in OfSocialTipping.Users,
         NEW share \in [OfSocialTipping.Users -> Nat], \A v \in OfSocialTipping.Users : share[v] = 0
  PROVE  Tipped(log, recipient, top_recipients, u, 0, share, 0)
<1>1. TipTypes
  BY DEF TipInv
<1>2. /\ log \in TipHistories /\ recipient \in [OfSocialTipping.Users -> RecipientStats]
      /\ top_recipients \in Seq(ShownTotal)
  BY <1>1 DEF TipTypes
<1>3. Shows(top_recipients, [v \in OfSocialTipping.Users |-> recipient[v].total_received])
  BY DEF TipInv
<1>4. ASSUME NEW v \in OfSocialTipping.Users
      PROVE  /\ recipient[v].total_received = Got(log[v])
             /\ recipient[v].total_received = recipient[v].total_received + share[v]
             /\ Len(log[v]) <= Len(log[v])
  <2>1. recipient[v].total_received = Got(log[v]) /\ share[v] = 0
    BY DEF TipInv
  <2>2. recipient[v].total_received \in Nat
    BY <1>2 DEF RecipientStats
  <2>3. log[v] \in Seq(Tipping)
    BY <1>2 DEF TipHistories
  <2>4. Len(log[v]) \in Nat
    BY <2>3
  <2> QED BY <2>1, <2>2, <2>4
<1>5. Spent(log, u) \in Nat
  <2>1. tipper[u].total_tipped = Spent(log, u)
    BY DEF TipInv, BookedFor
  <2>2. tipper[u] \in TipperStats
    BY <1>1 DEF TipTypes
  <2> QED BY <2>1, <2>2 DEF TipperStats
<1>6. Cardinality(Sent(log, u)) \in Nat
  BY SentFinite
<1>7. \A d : Cardinality(OnDay(log, u, d)) \in Nat
  <2>1. \A d : OnDay(log, u, d) \subseteq Sent(log, u)
    BY DEF OnDay
  <2> QED BY <2>1, SentFinite, FS_Subset, FS_CardinalityType
<1>8. TipsIn(log) \in Nat
  <2> DEFINE f == [v \in OfSocialTipping.Users |-> Len(log[v])]
  <2>1. \A v \in OfSocialTipping.Users : Len(log[v]) \in Nat
    <3> SUFFICES ASSUME NEW v \in OfSocialTipping.Users PROVE Len(log[v]) \in Nat
      OBVIOUS
    <3>1. log[v] \in Seq(Tipping)
      BY <1>2 DEF TipHistories
    <3> QED BY <3>1
  <2>2. f \in [OfSocialTipping.Users -> Nat]
    BY <2>1
  <2> HIDE DEF f
  <2>3. Total(f) \in Nat
    BY <2>2, UnitsFinite, SocialTippingAssumption
  <2> QED BY <2>3 DEF TipsIn, f
<1>9. /\ TipsIn(log) = TipsIn(log) + 0 /\ Spent(log, u) = Spent(log, u) + 0
      /\ Cardinality(Sent(log, u)) = Cardinality(Sent(log, u)) + 0
      /\ \A d \in TipDays : Cardinality(OnDay(log, u, d))
                              = Cardinality(OnDay(log, u, d))
                                  + IF clock \div OfSocialTipping.DAY = d THEN 0 ELSE 0
  BY <1>5, <1>6, <1>7, <1>8
<1> QED BY <1>2, <1>3, <1>4, <1>5, <1>9 DEF Tipped

\* What stays of TipInv while the storage that it is about stays.
LEMMA TipQuiet ==
  ASSUME TipInv,
         UNCHANGED <<tokens, settings, tipper, recipient, log, daily, top_tippers, top_recipients>>,
         clock' \in OfSocialTipping.Start .. OfSocialTipping.MaxTime, clock <= clock'
  PROVE  TipInv'
<1>1. TipTypes /\ TipTypes'
  BY DEF TipInv, TipTypes
<1>2. ASSUME NEW u \in OfSocialTipping.Users
      PROVE  (BookedFor(u) /\ Cooled(u) /\ recipient[u].total_received = Got(log[u]))'
  <2>1. BookedFor(u) /\ Cooled(u) /\ recipient[u].total_received = Got(log[u])
    BY DEF TipInv
  <2>2. tipper[u].last_tip_time \in Nat /\ clock \in Nat /\ clock' \in Nat
    BY <1>1, SocialTippingAssumption DEF TipTypes, TipperStats
  <2>3. tipper[u].last_tip_time <= clock'
    BY <2>1, <2>2 DEF BookedFor
  <2> QED BY <2>1, <2>3 DEF BookedFor, Cooled
<1> QED BY <1>1, <1>2 DEF TipInv

LEMMA InitializeTipsKeeps ==
  ASSUME TipInv, NEW c \in OfSocialTipping.Configs, SocialTipping!Initialize(c)
  PROVE  TipInv'
<1>1. /\ settings = None /\ settings' = c
      /\ UNCHANGED <<clock, tokens, tipper, recipient, log, daily, top_tippers, top_recipients>>
  BY DEF SocialTipping!Initialize
<1>2. TipTypes /\ TipTypes'
  BY <1>1 DEF TipInv, TipTypes
<1>3. ASSUME NEW u \in OfSocialTipping.Users
      PROVE  (BookedFor(u) /\ Cooled(u) /\ recipient[u].total_received = Got(log[u]))'
  <2>1. BookedFor(u) /\ recipient[u].total_received = Got(log[u])
    BY DEF TipInv
  <2>2. Sent(log, u) = {}
    BY <1>1, <2>1 DEF BookedFor
  <2>3. \A d \in TipDays : ~ (daily[u][d] > 0)
    BY <1>1, <2>1 DEF BookedFor
  <2> QED BY <1>1, <2>1, <2>2, <2>3 DEF BookedFor, Cooled
<1> QED BY <1>1, <1>2, <1>3 DEF TipInv

\* The module's counts and sums are those of the proofs.
LEMMA TipSums ==
  /\ SocialTipping!Given = TipsIn(log)
  /\ \A f : SocialTipping!Total(f) = Total(f)
  /\ \A S : SocialTipping!Cardinality(S) = Cardinality(S)
<1>1. \A f : SocialTipping!Total(f) = Total(f)
  BY DEF SocialTipping!Total, SocialTipping!Units, SocialTipping!Cardinality, Total, Units, Cardinality
<1>2. SocialTipping!Given = Total([u \in OfSocialTipping.Users |-> Len(log[u])])
  BY <1>1 DEF SocialTipping!Given
<1> QED BY <1>1, <1>2 DEF TipsIn, SocialTipping!Cardinality, Cardinality

LEMMA TipKeeps ==
  ASSUME TipInv, NEW u \in OfSocialTipping.Users, NEW to \in OfSocialTipping.Users,
         NEW n \in OfSocialTipping.Amounts, SocialTipping!Tip(u, to, n)
  PROVE  TipInv'
<1> DEFINE x == [from |-> u, amount |-> n, timestamp |-> clock]
           more == recipient[to].total_received + n
           none == [v \in OfSocialTipping.Users |-> 0]
           share == [none EXCEPT ![to] = none[to] + n]
           today == clock \div OfSocialTipping.DAY
<1>1. /\ SocialTipping!Given < OfSocialTipping.MaxTips /\ settings # None /\ u # to
      /\ SocialTipping!CheckTipLimits(tipper[u], daily[u][today])
      /\ tokens' = [tokens EXCEPT ![u] = @ - n, ![to] = @ + n]
      /\ SocialTipping!UpdateTipperStats(u, n, 1)
      /\ recipient' = [recipient EXCEPT ![to] = SocialTipping!Received(to, n)]
      /\ top_recipients' = SocialTipping!UpdateTop(top_recipients, to, more)
      /\ log' = [log EXCEPT ![to] = SocialTipping!RecordTip(@, u, n)]
      /\ clock' = clock /\ settings' = settings
  BY DEF SocialTipping!Tip
<1>2. TipTypes /\ n \in Nat
  BY SocialTippingAssumption DEF TipInv
<1>3. log' = Longer(log, to, x)
  BY <1>1 DEF SocialTipping!RecordTip, Longer
<1>4. recipient' = ReceivedMore(recipient, to, n)
  BY <1>1 DEF SocialTipping!Received, ReceivedMore
<1>5. TipsIn(log) < OfSocialTipping.MaxTips
  BY <1>1, TipSums
<1>6. Tipped(log, recipient, top_recipients, u, 0, none, 0)
  <2>1. none \in [OfSocialTipping.Users -> Nat] /\ \A v \in OfSocialTipping.Users : none[v] = 0
    OBVIOUS
  <2> HIDE DEF none
  <2> QED BY <2>1, TippedNone
<1>7. TipsIn(log) \in Nat /\ OfSocialTipping.MaxTips \in Nat
  <2>1. log \in TipHistories /\ x \in Tipping
    BY <1>2, SocialTippingAssumption DEF TipTypes, Tipping
  <2> HIDE DEF x
  <2> QED BY <2>1, HistoryMore, SocialTippingAssumption
<1>8. Tipped(log', recipient', top_recipients', u, 1, share, n)
  <2>1. TipsIn(log) + 0 < OfSocialTipping.MaxTips
    BY <1>5, <1>7
  <2>2. Tipped(Longer(log, to, x), ReceivedMore(recipient, to, n),
               SocialTipping!UpdateTop(top_recipients, to, more), u, 0 + 1, share, 0 + n)
    <3> HIDE DEF none
    <3> QED BY <1>2, <1>6, <2>1, TippedMore
  <2>3. 0 + n = n /\ 0 + 1 = 1
    BY <1>2
  <2> HIDE DEF x, more, share
  <2> QED BY <1>1, <1>3, <1>4, <2>2, <2>3
<1>9. TipsIn(log') <= OfSocialTipping.MaxTips
  <2>1. TipsIn(log') = TipsIn(log) + 1
    BY <1>8 DEF Tipped
  <2> QED BY <1>5, <1>7, <2>1
<1>10. tokens' = [v \in OfSocialTipping.Users |-> tokens[v] + share[v] - (IF v = u THEN n ELSE 0)]
  <2>1. \A v \in OfSocialTipping.Users : share[v] = IF v = to THEN n ELSE 0
    BY <1>2
  <2>2. tokens \in [OfSocialTipping.Users -> Int]
    BY <1>2 DEF TipTypes
  <2>3. tokens' = [v \in OfSocialTipping.Users |-> tokens'[v]]
    BY <1>1, <2>2
  <2>4. ASSUME NEW v \in OfSocialTipping.Users
        PROVE  tokens'[v] = tokens[v] + share[v] - (IF v = u THEN n ELSE 0)
    <3>1. tokens[v] \in Int
      BY <2>2
    <3> HIDE DEF share
    <3>2. CASE v = u
      BY <1>1, <1>2, <2>1, <2>2, <3>1, <3>2
    <3>3. CASE v = to
      BY <1>1, <1>2, <2>1, <2>2, <3>1, <3>3
    <3>4. CASE v # u /\ v # to
      BY <1>1, <1>2, <2>1, <2>2, <3>1, <3>4
    <3> QED BY <3>2, <3>3, <3>4
  <2> HIDE DEF share
  <2> QED BY <2>3, <2>4
<1>11. /\ daily[u][today] < settings.max_tips_per_day
       /\ tipper[u].last_tip_time > 0 => clock - tipper[u].last_tip_time >= settings.cooldown_seconds
  BY <1>1 DEF SocialTipping!CheckTipLimits
<1>12. daily[u][today] + 1 <= settings.max_tips_per_day
  <2>1. today \in TipDays
    BY <1>1, <1>2, StatsUpdated
  <2>2. daily[u][today] \in Nat
    BY <1>2, <2>1 DEF TipTypes
  <2>3. settings.max_tips_per_day \in Nat
    BY <1>1, <1>2, SocialTippingAssumption DEF TipTypes
  <2> QED BY <1>11, <2>2, <2>3
<1> HIDE DEF share
<1>13. TipsMade(log', recipient', top_recipients', u, 1, share, n)
  BY <1>1, <1>8, <1>9, <1>10, <1>11, <1>12 DEF TipsMade
<1> QED BY <1>13, TipsKeep

\* What a batch of tips of u goes through: statistics, histories and leaderboard.
BatchBooks ==
  {b \in [recipient : [OfSocialTipping.Users -> RecipientStats], history : TipHistories,
          top : Seq(ShownTotal)] :
     Shows(b.top, [v \in OfSocialTipping.Users |-> b.recipient[v].total_received])}

OneTip(u, r, n, b) ==
  [recipient |-> ReceivedMore(b.recipient, r, n),
   history |-> Longer(b.history, r, [from |-> u, amount |-> n, timestamp |-> clock]),
   top |-> SocialTipping!UpdateTop(b.top, r, b.recipient[r].total_received + n)]

LEMMA OneTipBooks ==
  ASSUME TipTypes, NEW u \in OfSocialTipping.Users, NEW r \in OfSocialTipping.Users, NEW n \in Nat,
         NEW b \in BatchBooks
  PROVE  OneTip(u, r, n, b) \in BatchBooks
<1> DEFINE x == [from |-> u, amount |-> n, timestamp |-> clock]
           rec == b.recipient
           q == rec[r].total_received + n
           new == ReceivedMore(rec, r, n)
           h == Longer(b.history, r, x)
           l == SocialTipping!UpdateTop(b.top, r, q)
           was == [v \in OfSocialTipping.Users |-> rec[v].total_received]
           is == [v \in OfSocialTipping.Users |-> new[v].total_received]
<1>1. /\ rec \in [OfSocialTipping.Users -> RecipientStats] /\ b.history \in TipHistories
      /\ b.top \in Seq(ShownTotal) /\ Shows(b.top, was)
  BY DEF BatchBooks
<1>2. x \in Tipping
  BY SocialTippingAssumption DEF TipTypes, Tipping
<1>3. h \in TipHistories
  <2> HIDE DEF x
  <2> QED BY <1>1, <1>2, HistoryMore
<1>4. /\ new \in [OfSocialTipping.Users -> RecipientStats]
      /\ new[r].total_received = rec[r].total_received + n
      /\ \A v \in OfSocialTipping.Users : v # r => new[v] = rec[v]
  <2> HIDE DEF rec
  <2> QED BY <1>1, RecipientMore
<1>5. \A v \in OfSocialTipping.Users : rec[v].total_received \in Nat
  BY <1>1 DEF RecipientStats
<1> HIDE DEF new, rec, h, x
<1>6. l \in Seq(ShownTotal) /\ Shows(l, is)
  <2>1. was \in [OfSocialTipping.Users -> Nat] /\ was[r] <= q /\ q \in Nat
    BY <1>5
  <2>2. is = [was EXCEPT ![r] = q]
    BY <1>4
  <2> HIDE DEF was, is, q
  <2> QED BY <1>1, <2>1, <2>2, TopUpdated
<1> HIDE DEF l
<1>7. [recipient |-> new, history |-> h, top |-> l] \in BatchBooks
  BY <1>3, <1>4, <1>6 DEF BatchBooks
<1> QED BY <1>7 DEF OneTip, new, h, l, x, rec, q

\* Batched, tip by tip.
Batches(u, to, amounts, n) ==
  {f \in [0 .. n -> BatchBooks] :
     /\ f[0] = [recipient |-> recipient, history |-> log, top |-> top_recipients]
     /\ \A k \in 1 .. n : f[k] = OneTip(u, to[k], amounts[k], f[k - 1])}

LEMMA BatchedIs ==
  ASSUME TipInv, NEW u \in OfSocialTipping.Users, NEW n \in Nat,
         NEW to \in [1 .. n -> OfSocialTipping.Users], NEW amounts \in [1 .. n -> Nat]
  PROVE  \E f \in Batches(u, to, amounts, n) : f[n] = SocialTipping!Batched(u, to, amounts)
<1> DEFINE S == BatchBooks
           a == [recipient |-> recipient, history |-> log, top |-> top_recipients]
           step == [k \in 1 .. n |-> [b \in S |-> OneTip(u, to[k], amounts[k], b)]]
           Next1(b, k) ==
             [recipient |-> [b.recipient EXCEPT ![to[k]] =
                               [total_received |-> b.recipient[to[k]].total_received + amounts[k],
                                tip_count |-> @.tip_count + 1]],
              history |-> [b.history EXCEPT ![to[k]] = SocialTipping!RecordTip(@, u, amounts[k])],
              top |-> SocialTipping!UpdateTop(b.top, to[k], b.recipient[to[k]].total_received + amounts[k])]
           after[k \in 0 .. n] == IF k = 0 THEN a ELSE Next1(after[k - 1], k)
<1>1. TipTypes /\ a \in S
  BY DEF TipInv, TipTypes, BatchBooks
<1>2. \A k, b : Next1(b, k) = OneTip(u, to[k], amounts[k], b)
  BY DEF OneTip, ReceivedMore, Longer, SocialTipping!RecordTip
<1>3. step \in [1 .. n -> [S -> S]]
  <2>1. \A k \in 1 .. n : \A b \in S : OneTip(u, to[k], amounts[k], b) \in S
    BY <1>1, OneTipBooks
  <2> HIDE DEF S
  <2> QED BY <2>1
<1>4. \A k \in 1 .. n : \A x \in S : step[k][x] = OneTip(u, to[k], amounts[k], x)
  OBVIOUS
<1> HIDE DEF step, S, a
<1>5. Stepping(n, S, a, step) # {}
  BY <1>1, <1>3, CountingFunction
<1>6. PICK f \in [0 .. n -> S] : f[0] = a /\ \A k \in 1 .. n : f[k] = step[k][f[k - 1]]
  BY <1>5 DEF Stepping
<1>7. \A k \in 1 .. n : f[k] = OneTip(u, to[k], amounts[k], f[k - 1])
  BY <1>4, <1>6
<1>8. f = [k \in 0 .. n |-> IF k = 0 THEN a ELSE Next1(f[k - 1], k)]
  <2> HIDE DEF Next1
  <2>1. \A k \in 0 .. n : f[k] = IF k = 0 THEN a ELSE Next1(f[k - 1], k)
    BY <1>2, <1>6, <1>7
  <2> QED BY <2>1
<1>9. after = [k \in 0 .. n |-> IF k = 0 THEN a ELSE Next1(after[k - 1], k)]
  <2> HIDE DEF Next1
  <2> QED BY <1>8, Zenon
<1>10. SocialTipping!Batched(u, to, amounts) = after[n]
  <2>1. Len(to) = n
    BY AsSequence
  <2> QED BY <2>1, Zenon DEF SocialTipping!Batched, a
<1> HIDE DEF after, Next1
<1>11. \A k \in 0 .. n : after[k] = f[k]
  <2> DEFINE T == {k \in 0 .. n : after[k] = f[k]}
  <2>1. 0 \in T
    BY <1>6, <1>9
  <2>2. \A k \in 0 .. n - 1 : k \in T => k + 1 \in T
    <3> SUFFICES ASSUME NEW k \in 0 .. n - 1, k \in T PROVE k + 1 \in T
      OBVIOUS
    <3>1. k + 1 \in 1 .. n /\ k + 1 - 1 = k
      OBVIOUS
    <3>2. after[k + 1] = Next1(after[k], k + 1)
      BY <1>9, <3>1
    <3>3. f[k + 1] = Next1(f[k], k + 1)
      <4>1. f[k + 1] = OneTip(u, to[k + 1], amounts[k + 1], f[k])
        BY <1>7, <3>1
      <4> QED BY <1>2, <4>1
    <3> QED BY <3>1, <3>2, <3>3
  <2> HIDE DEF T
  <2>3. \A k \in 0 .. n : k \in T
    BY <2>1, <2>2, CountingUp
  <2> QED BY <2>3 DEF T
<1>12. f \in Batches(u, to, amounts, n)
  BY <1>6, <1>7 DEF Batches, S, a
<1> QED BY <1>10, <1>11, <1>12

\* What the first k tips of a batch come to, and what v gets of them.
BatchSum(amounts, k) == Total([j \in 1 .. k |-> amounts[j]])
ToEach(to, amounts, k, v) == Total([j \in {i \in 1 .. k : to[i] = v} |-> amounts[j]])

LEMMA BatchSums ==
  ASSUME NEW n \in Nat, NEW to \in [1 .. n -> OfSocialTipping.Users], NEW amounts \in [1 .. n -> Nat]
  PROVE  /\ BatchSum(amounts, 0) = 0 /\ \A v : ToEach(to, amounts, 0, v) = 0
         /\ \A k \in 0 .. n - 1 :
              /\ BatchSum(amounts, k + 1) = BatchSum(amounts, k) + amounts[k + 1]
              /\ \A v : ToEach(to, amounts, k + 1, v)
                          = ToEach(to, amounts, k, v) + IF v = to[k + 1] THEN amounts[k + 1] ELSE 0
         /\ \A k \in 0 .. n : BatchSum(amounts, k) \in Nat
                              /\ \A v : ToEach(to, amounts, k, v) \in Nat
<1>1. BatchSum(amounts, 0) = 0 /\ \A v : ToEach(to, amounts, 0, v) = 0
  <2>1. ASSUME NEW S, S = {} PROVE Total([j \in S |-> amounts[j]]) = 0
    <3> DEFINE f == [j \in S |-> amounts[j]]
    <3>1. f \in [S -> Nat] /\ \A j \in S : f[j] = 0
      BY <2>1
    <3> HIDE DEF f
    <3>2. Total(f) = 0
      BY <3>1, TotalZero
    <3> QED BY <3>2 DEF f
  <2>2. 1 .. 0 = {} /\ \A v : {i \in 1 .. 0 : to[i] = v} = {}
    OBVIOUS
  <2> QED BY <2>1, <2>2 DEF BatchSum, ToEach
<1>2. ASSUME NEW k \in 0 .. n
      PROVE  /\ IsFiniteSet(1 .. k) /\ \A j \in 1 .. k : amounts[j] \in Nat
             /\ \A v : IsFiniteSet({i \in 1 .. k : to[i] = v})
  <2>1. IsFiniteSet(1 .. k)
    <3>1. 1 \in Int /\ k \in Int
      OBVIOUS
    <3> QED BY <3>1, FS_Interval
  <2>2. \A v : {i \in 1 .. k : to[i] = v} \subseteq 1 .. k
    OBVIOUS
  <2> QED BY <2>1, <2>2, FS_Subset
<1>3. ASSUME NEW k \in 0 .. n, NEW S \in SUBSET (1 .. k), IsFiniteSet(S)
      PROVE  Total([j \in S |-> amounts[j]]) \in Nat
  <2> DEFINE f == [j \in S |-> amounts[j]]
  <2>1. f \in [S -> Nat]
    OBVIOUS
  <2> HIDE DEF f
  <2>2. Total(f) \in Nat
    BY <1>3, <2>1, UnitsFinite
  <2> QED BY <2>2 DEF f
<1>4. ASSUME NEW k \in 0 .. n
      PROVE  BatchSum(amounts, k) \in Nat /\ \A v : ToEach(to, amounts, k, v) \in Nat
  <2>1. \A v : {i \in 1 .. k : to[i] = v} \in SUBSET (1 .. k)
    OBVIOUS
  <2>2. BatchSum(amounts, k) \in Nat
    BY <1>2, <1>3 DEF BatchSum
  <2>3. \A v : ToEach(to, amounts, k, v) \in Nat
    BY <1>2, <1>3, <2>1 DEF ToEach
  <2> QED BY <2>2, <2>3
<1>5. ASSUME NEW k \in 0 .. n - 1, NEW S \in SUBSET (1 .. k), IsFiniteSet(S)
      PROVE  Total([j \in S \cup {k + 1} |-> amounts[j]]) = Total([j \in S |-> amounts[j]]) + amounts[k + 1]
  <2> DEFINE x == k + 1
  <2>1. x \notin S /\ \A j \in S \cup {x} : amounts[j] \in Nat
    OBVIOUS
  <2> HIDE DEF x
  <2>2. Total([j \in S \cup {x} |-> amounts[j]]) = Total([j \in S |-> amounts[j]]) + amounts[x]
    BY <1>5, <2>1, TotalOneMore
  <2> QED BY <2>2 DEF x
<1>6. ASSUME NEW k \in 0 .. n - 1
      PROVE  /\ BatchSum(amounts, k + 1) = BatchSum(amounts, k) + amounts[k + 1]
             /\ \A v : ToEach(to, amounts, k + 1, v)
                         = ToEach(to, amounts, k, v) + IF v = to[k + 1] THEN amounts[k + 1] ELSE 0
  <2>1. k \in 0 .. n /\ 1 .. k + 1 = (1 .. k) \cup {k + 1} /\ 1 .. k \in SUBSET (1 .. k)
    OBVIOUS
  <2>2. BatchSum(amounts, k + 1) = BatchSum(amounts, k) + amounts[k + 1]
    BY <1>2, <1>5, <2>1 DEF BatchSum
  <2>3. ASSUME NEW v
        PROVE  ToEach(to, amounts, k + 1, v)
                 = ToEach(to, amounts, k, v) + IF v = to[k + 1] THEN amounts[k + 1] ELSE 0
    <3> DEFINE S == {i \in 1 .. k : to[i] = v}
    <3>1. S \in SUBSET (1 .. k) /\ IsFiniteSet(S)
      BY <1>2, <2>1
    <3>2. CASE v = to[k + 1]
      <4>1. {i \in 1 .. k + 1 : to[i] = v} = S \cup {k + 1}
        BY <2>1, <3>2
      <4> HIDE DEF S
      <4>2. Total([j \in S \cup {k + 1} |-> amounts[j]]) = Total([j \in S |-> amounts[j]]) + amounts[k + 1]
        BY <1>5, <3>1
      <4> QED BY <3>2, <4>1, <4>2 DEF ToEach, S
    <3>3. CASE v # to[k + 1]
      <4>1. {i \in 1 .. k + 1 : to[i] = v} = S
        BY <2>1, <3>3
      <4>2. ToEach(to, amounts, k, v) \in Nat
        BY <1>4, <2>1
      <4>3. ToEach(to, amounts, k + 1, v) = ToEach(to, amounts, k, v)
        BY <4>1 DEF ToEach
      <4> QED BY <3>3, <4>2, <4>3
    <3> QED BY <3>2, <3>3
  <2> QED BY <2>2, <2>3
<1> QED BY <1>1, <1>4, <1>6

LEMMA BatchKeeps ==
  ASSUME TipInv, NEW u \in OfSocialTipping.Users, NEW n \in Nat,
         NEW to \in [1 .. n -> OfSocialTipping.Users], NEW amounts \in [1 .. n -> OfSocialTipping.Amounts],
         SocialTipping!BatchTip(u, to, amounts)
  PROVE  TipInv'
<1> DEFINE b == SocialTipping!Batched(u, to, amounts)
           share(k) == [v \in OfSocialTipping.Users |-> ToEach(to, amounts, k, v)]
           today == clock \div OfSocialTipping.DAY
<1>1. TipTypes /\ amounts \in [1 .. n -> Nat] /\ Len(to) = n /\ DOMAIN to = 1 .. n
      /\ DOMAIN amounts = 1 .. n
  BY AsSequence, SocialTippingAssumption DEF TipInv
<1>2. /\ SocialTipping!Given + n <= OfSocialTipping.MaxTips /\ settings # None
      /\ recipient' = b.recipient /\ log' = b.history /\ top_recipients' = b.top
      /\ clock' = clock /\ settings' = settings
  BY <1>1 DEF SocialTipping!BatchTip
<1>3. SocialTipping!UpdateTipperStats(u, BatchSum(amounts, n), n)
  BY <1>1, TipSums DEF SocialTipping!BatchTip, BatchSum
<1>4. tokens' = [v \in OfSocialTipping.Users |->
                   tokens[v] + share(n)[v] - (IF v = u THEN BatchSum(amounts, n) ELSE 0)]
  <2>1. tokens' = [v \in OfSocialTipping.Users |->
                     tokens[v] + ToEach(to, amounts, n, v) - (IF v = u THEN BatchSum(amounts, n) ELSE 0)]
    BY <1>1, TipSums DEF SocialTipping!BatchTip, BatchSum, ToEach
  <2> QED BY <2>1
<1>5. SocialTipping!CheckTipLimits(tipper'[u], daily'[u][today])
  BY DEF SocialTipping!BatchTip
<1>6. PICK f \in Batches(u, to, amounts, n) : f[n] = b
  BY <1>1, BatchedIs
<1> HIDE DEF b
<1>7. /\ f[0] = [recipient |-> recipient, history |-> log, top |-> top_recipients]
      /\ \A k \in 1 .. n : f[k] = OneTip(u, to[k], amounts[k], f[k - 1])
  BY <1>6 DEF Batches
<1>8. /\ BatchSum(amounts, 0) = 0 /\ \A v : ToEach(to, amounts, 0, v) = 0
      /\ \A k \in 0 .. n - 1 :
           /\ BatchSum(amounts, k + 1) = BatchSum(amounts, k) + amounts[k + 1]
           /\ \A v : ToEach(to, amounts, k + 1, v)
                       = ToEach(to, amounts, k, v) + IF v = to[k + 1] THEN amounts[k + 1] ELSE 0
      /\ \A k \in 0 .. n : BatchSum(amounts, k) \in Nat /\ \A v : ToEach(to, amounts, k, v) \in Nat
  BY <1>1, BatchSums
<1>9. /\ TipsIn(log) + n <= OfSocialTipping.MaxTips /\ TipsIn(log) \in Nat
      /\ OfSocialTipping.MaxTips \in Nat
  <2>1. log \in TipHistories
    BY <1>1 DEF TipTypes
  <2>2. [from |-> u, amount |-> 0, timestamp |-> clock] \in Tipping
    BY <1>1, SocialTippingAssumption DEF TipTypes, Tipping
  <2>3. TipsIn(log) \in Nat
    BY <2>1, <2>2, HistoryMore
  <2> QED BY <1>2, <2>3, TipSums, SocialTippingAssumption
<1> DEFINE Done(k) == Tipped(f[k].history, f[k].recipient, f[k].top, u, k, share(k), BatchSum(amounts, k))
           T == {k \in 0 .. n : Done(k)}
<1>10. 0 \in T
  <2>1. share(0) \in [OfSocialTipping.Users -> Nat] /\ \A v \in OfSocialTipping.Users : share(0)[v] = 0
    BY <1>8
  <2>2. Tipped(log, recipient, top_recipients, u, 0, share(0), 0)
    <3> HIDE DEF share
    <3> QED BY <2>1, TippedNone
  <2> QED BY <1>7, <1>8, <2>2
<1>11. \A k \in 0 .. n - 1 : k \in T => k + 1 \in T
  <2> SUFFICES ASSUME NEW k \in 0 .. n - 1, k \in T PROVE k + 1 \in T
    OBVIOUS
  <2> DEFINE r == to[k + 1]
             a == amounts[k + 1]
  <2>1. r \in OfSocialTipping.Users /\ a \in Nat /\ k + 1 \in 1 .. n /\ k + 1 - 1 = k
    BY <1>1
  <2>2. Done(k) /\ k \in Nat /\ TipsIn(log) + k < OfSocialTipping.MaxTips
    BY <1>9
  <2>3. f[k + 1] = OneTip(u, r, a, f[k])
    BY <1>7, <2>1
  <2>4. share(k + 1) = [share(k) EXCEPT ![r] = share(k)[r] + a]
    <3>1. \A v \in OfSocialTipping.Users :
             ToEach(to, amounts, k + 1, v) = IF v = r THEN ToEach(to, amounts, k, v) + a
                                             ELSE ToEach(to, amounts, k, v)
      BY <1>8
    <3> QED BY <2>1, <3>1
  <2>5. BatchSum(amounts, k + 1) = BatchSum(amounts, k) + a
    BY <1>8
  <2> HIDE DEF r, a, share
  <2>6. Tipped(Longer(f[k].history, r, [from |-> u, amount |-> a, timestamp |-> clock]),
               ReceivedMore(f[k].recipient, r, a),
               SocialTipping!UpdateTop(f[k].top, r, f[k].recipient[r].total_received + a),
               u, k + 1, [share(k) EXCEPT ![r] = share(k)[r] + a], BatchSum(amounts, k) + a)
    BY <1>1, <2>1, <2>2, TippedMore
  <2>7. /\ f[k + 1].history = Longer(f[k].history, r, [from |-> u, amount |-> a, timestamp |-> clock])
        /\ f[k + 1].recipient = ReceivedMore(f[k].recipient, r, a)
        /\ f[k + 1].top = SocialTipping!UpdateTop(f[k].top, r, f[k].recipient[r].total_received + a)
    BY <2>3 DEF OneTip
  <2>8. Done(k + 1)
    BY <2>4, <2>5, <2>6, <2>7
  <2> QED BY <2>1, <2>8
<1>12. Done(n)
  <2>1. n \in 0 .. n
    OBVIOUS
  <2> HIDE DEF T
  <2>2. \A k \in 0 .. n : k \in T
    BY <1>10, <1>11, CountingUp
  <2> QED BY <2>1, <2>2 DEF T
<1>13. Tipped(log', recipient', top_recipients', u, n, share(n), BatchSum(amounts, n))
  BY <1>2, <1>6, <1>12
<1>14. TipsIn(log') <= OfSocialTipping.MaxTips
  <2>1. TipsIn(log') = TipsIn(log) + n
    BY <1>13 DEF Tipped
  <2> QED BY <1>9, <2>1
<1>15. /\ tipper'[u].last_tip_time = clock /\ daily'[u][today] = daily[u][today] + n
       /\ today \in TipDays
  BY <1>1, <1>3, <1>8, StatsUpdated
<1>16. /\ daily'[u][today] < settings.max_tips_per_day
       /\ clock > 0 => clock - clock >= settings.cooldown_seconds
  BY <1>5, <1>15 DEF SocialTipping!CheckTipLimits
<1>17. /\ clock \in Nat \ {0} /\ settings.max_tips_per_day \in Nat /\ settings.cooldown_seconds \in Nat
       /\ daily[u][today] \in Nat
  BY <1>1, <1>2, <1>15, SocialTippingAssumption DEF TipTypes
<1>18. daily[u][today] + n <= settings.max_tips_per_day /\ settings.cooldown_seconds = 0
  BY <1>15, <1>16, <1>17
<1> HIDE DEF share, today
<1>19. TipsMade(log', recipient', top_recipients', u, n, share(n), BatchSum(amounts, n))
  BY <1>2, <1>3, <1>4, <1>13, <1>14, <1>18 DEF TipsMade, today
<1> QED BY <1>19, TipsKeep

LEMMA SocialTippingStep ==
  ASSUME TipInv, SocialTipping!Next PROVE TipInv'
<1>1. ASSUME NEW u \in OfSocialTipping.Users, NEW k \in 0 .. 2, NEW to \in [1 .. k -> OfSocialTipping.Users],
             NEW n \in [1 .. k -> OfSocialTipping.Amounts], SocialTipping!BatchTip(u, to, n)
      PROVE  TipInv'
  BY <1>1, BatchKeeps
<1>2. CASE SocialTipping!Tick
  <2>1. /\ clock < OfSocialTipping.MaxTime /\ clock' = clock + 1
        /\ UNCHANGED <<tokens, settings, tipper, recipient, log, daily, top_tippers, top_recipients>>
    BY <1>2 DEF SocialTipping!Tick
  <2>2. clock \in OfSocialTipping.Start .. OfSocialTipping.MaxTime
    BY DEF TipInv, TipTypes
  <2>3. clock' \in OfSocialTipping.Start .. OfSocialTipping.MaxTime /\ clock <= clock'
    BY <2>1, <2>2, SocialTippingAssumption
  <2> QED BY <2>1, <2>3, TipQuiet
<1> QED BY <1>1, <1>2, InitializeTipsKeeps, TipKeeps DEF SocialTipping!Next

LEMMA SocialTippingStays ==
  ASSUME TipInv, UNCHANGED SocialTipping!vars PROVE TipInv'
<1>1. UNCHANGED <<clock, tokens, settings, tipper, recipient, log, daily, top_tippers, top_recipients>>
  BY DEF SocialTipping!vars
<1>2. clock' \in OfSocialTipping.Start .. OfSocialTipping.MaxTime /\ clock <= clock'
  BY <1>1, SocialTippingAssumption DEF TipInv, TipTypes
<1> QED BY <1>1, <1>2, TipQuiet

LEMMA SocialTippingInit ==
  ASSUME SocialTipping!Init PROVE TipInv
<1>1. /\ clock = OfSocialTipping.Start /\ settings = None
      /\ tokens = [u \in OfSocialTipping.Users |-> OfSocialTipping.InitBalance]
      /\ tipper = [u \in OfSocialTipping.Users |->
                     [total_tipped |-> 0, tip_count |-> 0, last_tip_time |-> 0]]
      /\ recipient = [u \in OfSocialTipping.Users |-> [total_received |-> 0, tip_count |-> 0]]
      /\ log = [u \in OfSocialTipping.Users |-> <<>>]
      /\ daily = [u \in OfSocialTipping.Users |-> [d \in TipDays |-> 0]]
      /\ top_tippers = <<>> /\ top_recipients = <<>>
  BY DEF SocialTipping!Init, SocialTipping!Days, TipDays
<1>2. \A u \in OfSocialTipping.Users : Len(log[u]) = 0 /\ log[u] = <<>>
  BY <1>1
<1>3. ASSUME NEW S, S = {}, NEW k PROVE Total([x \in S |-> k[x]]) = 0
  <2> DEFINE f == [x \in S |-> k[x]]
  <2>1. f \in [S -> Nat] /\ \A x \in S : f[x] = 0
    BY <1>3
  <2> HIDE DEF f
  <2>2. Total(f) = 0
    BY <2>1, TotalZero
  <2> QED BY <2>2 DEF f
<1>4. TipTypes
  <2>1. tipper \in [OfSocialTipping.Users -> TipperStats]
        /\ recipient \in [OfSocialTipping.Users -> RecipientStats]
    BY <1>1 DEF TipperStats, RecipientStats
  <2>2. log \in TipHistories
    BY <1>1 DEF TipHistories
  <2>3. TipsIn(log) = 0
    <3> DEFINE f == [u \in OfSocialTipping.Users |-> Len(log[u])]
    <3>1. f \in [OfSocialTipping.Users -> Nat] /\ \A u \in OfSocialTipping.Users : f[u] = 0
      BY <1>2
    <3> HIDE DEF f
    <3>2. Total(f) = 0
      BY <3>1, TotalZero
    <3> QED BY <3>2 DEF f, TipsIn
  <2>4. top_tippers \in Seq(ShownTotal) /\ top_recipients \in Seq(ShownTotal)
    BY <1>1
  <2>5. tokens \in [OfSocialTipping.Users -> Int] /\ daily \in [OfSocialTipping.Users -> [TipDays -> Nat]]
    BY <1>1, SocialTippingAssumption
  <2>6. clock \in OfSocialTipping.Start .. OfSocialTipping.MaxTime /\ 0 <= OfSocialTipping.MaxTips
    BY <1>1, SocialTippingAssumption
  <2> QED BY <1>1, <2>1, <2>2, <2>3, <2>4, <2>5, <2>6 DEF TipTypes
<1>5. ASSUME NEW u \in OfSocialTipping.Users
      PROVE  BookedFor(u) /\ Cooled(u) /\ recipient[u].total_received = Got(log[u])
  <2>1. Sent(log, u) = {}
    <3>1. ASSUME NEW t \in Sent(log, u) PROVE FALSE
      <4>1. t[1] \in OfSocialTipping.Users /\ t[2] \in 1 .. Len(log[t[1]])
        BY DEF Sent
      <4> QED BY <1>2, <4>1
    <3> QED BY <3>1
  <2>2. Cardinality({}) = 0
    BY FS_EmptySet
  <2>3. \A d : OnDay(log, u, d) = {}
    BY <2>1 DEF OnDay
  <2>4. Spent(log, u) = 0
    <3> DEFINE S == Sent(log, u)
               k == [t \in S |-> TipAt(log, t).amount]
    <3>1. Total([t \in S |-> k[t]]) = 0
      <4> HIDE DEF k, S
      <4>1. S = {}
        BY <2>1 DEF S
      <4> QED BY <1>3, <4>1
    <3>2. [t \in S |-> k[t]] = [t \in Sent(log, u) |-> TipAt(log, t).amount]
      OBVIOUS
    <3> QED BY <3>1, <3>2 DEF Spent
  <2>5. Got(log[u]) = 0
    <3> DEFINE S == 1 .. Len(log[u])
               k == [i \in S |-> log[u][i].amount]
    <3>1. S = {}
      BY <1>2
    <3>2. Total([i \in S |-> k[i]]) = 0
      <4> HIDE DEF k, S
      <4> QED BY <1>3, <3>1
    <3>3. [i \in S |-> k[i]] = [i \in 1 .. Len(log[u]) |-> log[u][i].amount]
      OBVIOUS
    <3> QED BY <3>2, <3>3 DEF Got
  <2>6. /\ tipper[u].total_tipped = 0 /\ tipper[u].tip_count = 0 /\ tipper[u].last_tip_time = 0
        /\ recipient[u].total_received = 0 /\ tokens[u] = OfSocialTipping.InitBalance
        /\ \A d \in TipDays : daily[u][d] = 0
    BY <1>1
  <2>7. OfSocialTipping.InitBalance = OfSocialTipping.InitBalance + 0 - 0 /\ 0 <= clock
    BY <1>1, SocialTippingAssumption
  <2>8. BookedFor(u)
    BY <2>1, <2>2, <2>3, <2>4, <2>6, <2>7 DEF BookedFor
  <2>9. Cooled(u)
    BY <2>1 DEF Cooled
  <2> QED BY <2>5, <2>6, <2>8, <2>9
<1>6. ASSUME NEW total, \A u \in OfSocialTipping.Users : total[u] = 0
      PROVE  Shows(<<>>, total)
  <2>1. Len(<<>>) = 0 /\ 1 .. 0 = {}
    OBVIOUS
  <2>2. \A u \in OfSocialTipping.Users : ~ (total[u] > 0)
    BY <1>6
  <2> QED BY <2>1, <2>2 DEF Shows
<1>7. /\ Shows(top_tippers, [u \in OfSocialTipping.Users |-> tipper[u].total_tipped])
      /\ Shows(top_recipients, [u \in OfSocialTipping.Users |-> recipient[u].total_received])
  <2> DEFINE p == [u \in OfSocialTipping.Users |-> tipper[u].total_tipped]
             q == [u \in OfSocialTipping.Users |-> recipient[u].total_received]
  <2>1. \A u \in OfSocialTipping.Users : p[u] = 0 /\ q[u] = 0
    BY <1>1
  <2> HIDE DEF p, q
  <2>2. Shows(<<>>, p) /\ Shows(<<>>, q)
    BY <1>6, <2>1
  <2> QED BY <1>1, <2>2 DEF p, q
<1> QED BY <1>4, <1>5, <1>7 DEF TipInv

\* A leaderboard shows what the module says it does.
LEMMA ShowsOrdered ==
  ASSUME NEW l \in Seq(ShownTotal), NEW total, Shows(l, total)
  PROVE  SocialTipping!Ordered(l, total)
<1>1. DOMAIN l = 1 .. Len(l)
  OBVIOUS
<1>2. {u \in OfSocialTipping.Users : total[u] > 0} \subseteq {l[i].player : i \in DOMAIN l}
  <2> SUFFICES ASSUME NEW u \in OfSocialTipping.Users, total[u] > 0
               PROVE  \E i \in DOMAIN l : l[i].player = u
    OBVIOUS
  <2> QED BY <1>1 DEF Shows
<1> QED BY <1>1, <1>2 DEF Shows, SocialTipping!Ordered

LEMMA SocialTippingSays ==
  ASSUME TipInv PROVE SocialTipping!TipsBooked
<1>1. TipTypes
  BY DEF TipInv
<1>2. \A v \in OfSocialTipping.Users : DOMAIN log[v] = 1 .. Len(log[v])
  <2> SUFFICES ASSUME NEW v \in OfSocialTipping.Users PROVE DOMAIN log[v] = 1 .. Len(log[v])
    OBVIOUS
  <2>1. log[v] \in Seq(Tipping)
    BY <1>1 DEF TipTypes, TipHistories
  <2> QED BY <2>1
<1>3. \A u : SocialTipping!TipsOf(u) = Sent(log, u)
  <2> SUFFICES ASSUME NEW u PROVE SocialTipping!TipsOf(u) = Sent(log, u)
    OBVIOUS
  <2>1. ASSUME NEW t \in OfSocialTipping.Users \X (1 .. OfSocialTipping.MaxTips)
        PROVE  t[2] \in DOMAIN log[t[1]] <=> t[2] \in 1 .. Len(log[t[1]])
    <3>1. t[1] \in OfSocialTipping.Users
      OBVIOUS
    <3> QED BY <1>2, <3>1
  <2> QED BY <2>1 DEF SocialTipping!TipsOf, Sent, TipAt
<1>4. ASSUME NEW u \in OfSocialTipping.Users
      PROVE  /\ tipper[u].total_tipped
                  = SocialTipping!Total([t \in SocialTipping!TipsOf(u) |-> log[t[1]][t[2]].amount])
             /\ tipper[u].tip_count = SocialTipping!Cardinality(SocialTipping!TipsOf(u))
             /\ recipient[u].total_received
                  = SocialTipping!Total([i \in DOMAIN log[u] |-> log[u][i].amount])
             /\ tokens[u] = OfSocialTipping.InitBalance + recipient[u].total_received
                              - tipper[u].total_tipped
             /\ \A d \in SocialTipping!Days :
                  LET today == {t \in SocialTipping!TipsOf(u) :
                                  log[t[1]][t[2]].timestamp \div OfSocialTipping.DAY = d}
                  IN today # {} => SocialTipping!Cardinality(today) <= settings.max_tips_per_day
             /\ \A s, t \in SocialTipping!TipsOf(u) :
                  log[s[1]][s[2]].timestamp < log[t[1]][t[2]].timestamp
                    => log[t[1]][t[2]].timestamp - log[s[1]][s[2]].timestamp
                         >= settings.cooldown_seconds
  <2>1. BookedFor(u) /\ Cooled(u) /\ recipient[u].total_received = Got(log[u])
    BY DEF TipInv
  <2>2. tipper[u].total_tipped
          = SocialTipping!Total([t \in SocialTipping!TipsOf(u) |-> log[t[1]][t[2]].amount])
    BY <1>3, <2>1, TipSums DEF BookedFor, Spent, TipAt
  <2>3. /\ tipper[u].tip_count = SocialTipping!Cardinality(SocialTipping!TipsOf(u))
        /\ tokens[u] = OfSocialTipping.InitBalance + recipient[u].total_received
                         - tipper[u].total_tipped
    BY <1>3, <2>1, TipSums DEF BookedFor
  <2>4. recipient[u].total_received = SocialTipping!Total([i \in DOMAIN log[u] |-> log[u][i].amount])
    BY <1>2, <2>1, TipSums DEF Got
  <2>5. ASSUME NEW d \in SocialTipping!Days,
               {t \in SocialTipping!TipsOf(u) :
                  log[t[1]][t[2]].timestamp \div OfSocialTipping.DAY = d} # {}
        PROVE  SocialTipping!Cardinality({t \in SocialTipping!TipsOf(u) :
                  log[t[1]][t[2]].timestamp \div OfSocialTipping.DAY = d}) <= settings.max_tips_per_day
    <3>1. d \in TipDays
      BY DEF SocialTipping!Days, TipDays
    <3>2. {t \in SocialTipping!TipsOf(u) :
             log[t[1]][t[2]].timestamp \div OfSocialTipping.DAY = d} = OnDay(log, u, d)
      BY <1>3 DEF OnDay, TipAt
    <3>3. OnDay(log, u, d) # {} /\ daily[u][d] = Cardinality(OnDay(log, u, d))
          /\ (daily[u][d] > 0 => daily[u][d] <= settings.max_tips_per_day)
      BY <2>1, <2>5, <3>1, <3>2 DEF BookedFor
    <3>4. Cardinality(OnDay(log, u, d)) \in Nat /\ Cardinality(OnDay(log, u, d)) # 0
      <4>1. OnDay(log, u, d) \subseteq Sent(log, u)
        BY DEF OnDay
      <4>2. IsFiniteSet(OnDay(log, u, d))
        BY <4>1, SentFinite, FS_Subset
      <4> QED BY <3>3, <4>2, FS_CardinalityType, FS_EmptySet
    <3>5. daily[u][d] <= settings.max_tips_per_day
      BY <3>3, <3>4
    <3>6. SocialTipping!Cardinality(OnDay(log, u, d)) <= settings.max_tips_per_day
      BY <3>3, <3>5, TipSums
    <3> QED BY <3>2, <3>6
  <2>6. \A s, t \in SocialTipping!TipsOf(u) :
           log[s[1]][s[2]].timestamp < log[t[1]][t[2]].timestamp
             => log[t[1]][t[2]].timestamp - log[s[1]][s[2]].timestamp >= settings.cooldown_seconds
    BY <1>3, <2>1 DEF Cooled, TipAt
  <2> QED BY <2>2, <2>3, <2>4, <2>5, <2>6
<1>5. /\ SocialTipping!Ordered(top_tippers, [u \in OfSocialTipping.Users |-> tipper[u].total_tipped])
      /\ SocialTipping!Ordered(top_recipients,
                               [u \in OfSocialTipping.Users |-> recipient[u].total_received])
  <2>1. top_tippers \in Seq(ShownTotal) /\ top_recipients \in Seq(ShownTotal)
    BY <1>1 DEF TipTypes
  <2> QED BY <2>1, ShowsOrdered DEF TipInv
<1> QED BY <1>4, <1>5 DEF SocialTipping!TipsBooked

-----------------------------------------------------------------------------
(***************************************************************************)
(* Proofs: the sales and the ratings of hints.                             *)
(***************************************************************************)
HintStatuses == {"Active", "Sold", "Cancelled", "Expired"}

HintRecord ==
  [creator : OfHintMarketplace.Users, quality : 1 .. 5, total_sales : Nat, total_rating : Nat,
   rating_count : Nat]

Demand == [purchases : Nat, last_purchase_time : Nat, average_time_to_sale : Nat]

Listing ==
  [hint_id : Nat, seller : OfHintMarketplace.Users, current_price : Int, status : HintStatuses,
   created_time : Nat, expiration_time : Int, creator : OfHintMarketplace.Users,
   royalty_bps : OfHintMarketplace.Royalties]

HintPack ==
  [hint_ids : UNION {[1 .. n -> Nat] : n \in Nat}, pack_price : OfHintMarketplace.PackPrices,
   creator : OfHintMarketplace.Users, expiration_time : OfHintMarketplace.Expirations]

RatingTable == [OfHintMarketplace.Users -> OfHintMarketplace.Ratings \cup {None}]

\* The contract is not among the users and is not paid the fees; qualities and
\* ratings are stars, prices and times are numbers.
ASSUME HintMarketplaceAssumption ==
  /\ IsFiniteSet(OfHintMarketplace.Users) /\ Self \notin OfHintMarketplace.Users
  /\ \A c \in OfHintMarketplace.Configs :
       /\ c.fee_recipient # Self /\ c.price_adjustment_factor \in Int
       /\ c.min_listing_duration \in Int /\ c.max_listing_duration \in Int
  /\ OfHintMarketplace.Qualities \subseteq 1 .. 5 /\ OfHintMarketplace.Ratings \subseteq 1 .. 5
  /\ None \notin OfHintMarketplace.Ratings
  /\ OfHintMarketplace.BasePrices \subseteq Nat
  /\ OfHintMarketplace.HISTORY \in Nat /\ OfHintMarketplace.MaxPackHints \in Nat

SoldOf(l, h) == {i \in 1 .. Len(l) : l[i].hint_id = h /\ l[i].status = "Sold"}
RatersOf(r) == {u \in OfHintMarketplace.Users : r[u] # None}

\* What is kept of the sales of a hint agrees with its sold listings.
Demanded(k, prices, sold, l, t) ==
  /\ k.purchases = Cardinality(sold)
  /\ Len(prices) = IF Cardinality(sold) < OfHintMarketplace.HISTORY THEN Cardinality(sold)
                                                                    ELSE OfHintMarketplace.HISTORY
  /\ \A j \in 1 .. Len(prices) : \E i \in sold : l[i].current_price = prices[j]
  /\ k.average_time_to_sale <= k.last_purchase_time /\ k.last_purchase_time <= t

\* The quality of a hint is the average of what its raters said.
Rated(x, r) ==
  /\ x.rating_count = Cardinality(RatersOf(r))
  /\ x.total_rating = Total([u \in RatersOf(r) |-> r[u]])
  /\ x.rating_count <= x.total_rating /\ x.total_rating <= 5 * x.rating_count
  /\ x.rating_count > 0 => x.quality = x.total_rating \div x.rating_count

MarketTypes ==
  /\ clock \in Nat /\ settings \in OfHintMarketplace.Configs
  /\ Self \in DOMAIN tokens /\ tokens[Self] = 0
  /\ hint \in Seq(HintRecord) /\ metrics \in Seq(Demand)
  /\ price_history \in Seq(Seq(Int)) /\ rating \in Seq(RatingTable)
  /\ Len(metrics) = Len(hint) /\ Len(price_history) = Len(hint) /\ Len(rating) = Len(hint)
  /\ listing \in Seq(Listing)
  /\ \A i \in 1 .. Len(listing) :
       listing[i].hint_id \in 1 .. Len(hint) /\ listing[i].created_time <= clock
  /\ active_listings = {i \in 1 .. Len(listing) : listing[i].status = "Active"}
  /\ pack \in Seq(HintPack)

MarketInv ==
  /\ MarketTypes
  /\ \A h \in 1 .. Len(hint) :
       /\ Demanded(metrics[h], price_history[h], SoldOf(listing, h), listing, clock)
       /\ hint[h].total_sales >= Cardinality(SoldOf(listing, h))
       /\ Rated(hint[h], rating[h])

LEMMA SoldFinite ==
  ASSUME NEW l \in Seq(Listing), NEW h
  PROVE  IsFiniteSet(SoldOf(l, h)) /\ Cardinality(SoldOf(l, h)) \in Nat
<1>1. Len(l) \in Nat
  OBVIOUS
<1>2. SoldOf(l, h) \subseteq 1 .. Len(l) /\ IsFiniteSet(1 .. Len(l))
  BY <1>1, FS_Interval DEF SoldOf
<1> QED BY <1>2, FS_Subset, FS_CardinalityType

\* The listings of l that are sold are those of the contract.
KeepsSold(l) ==
  \A h \in 1 .. Len(hint) :
    /\ SoldOf(l, h) = SoldOf(listing, h)
    /\ \A i \in SoldOf(listing, h) : l[i].current_price = listing[i].current_price

\* The records of the hints stay as they are, and so does what is sold.
LEMMA MarketSame ==
  ASSUME MarketInv, MarketTypes', UNCHANGED <<hint, metrics, price_history, rating>>,
         clock <= clock', KeepsSold(listing')
  PROVE  MarketInv'
<1>1. ASSUME NEW h \in 1 .. Len(hint)
      PROVE  Demanded(metrics[h], price_history[h], SoldOf(listing', h), listing', clock')
  <2>1. Demanded(metrics[h], price_history[h], SoldOf(listing, h), listing, clock)
    BY DEF MarketInv
  <2>2. metrics[h] \in Demand /\ clock \in Nat /\ clock' \in Nat
    BY DEF MarketInv, MarketTypes
  <2>3. metrics[h].last_purchase_time \in Nat
    BY <2>2 DEF Demand
  <2> QED BY <2>1, <2>2, <2>3 DEF Demanded, KeepsSold
<1>2. ASSUME NEW h \in 1 .. Len(hint)
      PROVE  /\ hint[h].total_sales >= Cardinality(SoldOf(listing', h))
             /\ Rated(hint[h], rating[h])
  BY DEF MarketInv, KeepsSold
<1> QED BY <1>1, <1>2 DEF MarketInv

\* A payment leaves nothing with the contract.
LEMMA PayoutsPass ==
  ASSUME MarketTypes, NEW u \in OfHintMarketplace.Users, NEW p, NEW r,
         NEW s \in OfHintMarketplace.Users, NEW c \in OfHintMarketplace.Users,
         HintMarketplace!Payouts(u, p, r, s, c)
  PROVE  Self \in DOMAIN tokens' /\ tokens'[Self] = 0
<1>1. settings.fee_recipient # Self /\ u # Self /\ s # Self /\ c # Self
  BY HintMarketplaceAssumption DEF MarketTypes
<1>2. Self \in DOMAIN tokens' /\ tokens'[Self] = tokens[Self] - 0 + (0 + 0 + 0)
  BY <1>1 DEF HintMarketplace!Payouts, MarketTypes
<1> QED BY <1>2 DEF MarketTypes

\* The prices are integers.
LEMMA PriceIsInt ==
  ASSUME MarketInv, NEW h \in 1 .. Len(hint), NEW b \in OfHintMarketplace.BasePrices
  PROVE  HintMarketplace!CalculateDynamicPrice(h, b) \in Int
<1> DEFINE m == <<5000, 7500, 10000, 12500, 15000>>[hint[h].quality]
           f == IF metrics[h].purchases > 0 THEN 10000 + settings.price_adjustment_factor ELSE 10000
           adjusted == (b * m) \div 10000
           price == (adjusted * f) \div 10000
           lo == b \div 2
           hi == b * 3
           Fits(p) == /\ p >= lo /\ p <= hi
                      /\ price \in lo .. hi => p = price
                      /\ price > hi => p = hi
                      /\ price < lo => p = lo
           S == {price, lo, hi}
<1>1. b \in Nat /\ settings \in OfHintMarketplace.Configs /\ hint[h].quality \in 1 .. 5
  <2>1. hint[h] \in HintRecord
    BY DEF MarketInv, MarketTypes
  <2>2. hint[h].quality \in 1 .. 5
    BY <2>1 DEF HintRecord
  <2> QED BY <2>2, HintMarketplaceAssumption DEF MarketInv, MarketTypes
<1>2. m \in Int /\ f \in Int
  <2>1. f \in Int
    BY <1>1, HintMarketplaceAssumption
  <2> DEFINE q == hint[h].quality
  <2>2. q \in 1 .. 5 /\ m = <<5000, 7500, 10000, 12500, 15000>>[q]
    BY <1>1
  <2> HIDE DEF q, m
  <2>3. m \in Int
    BY <2>2
  <2> QED BY <2>1, <2>3
<1>3. lo \in Int /\ hi \in Int /\ lo <= hi
  BY <1>1
<1> HIDE DEF m, f
<1>4. adjusted \in Int
  <2>1. b * m \in Int
    BY <1>1, <1>2
  <2> QED BY <2>1
<1> HIDE DEF adjusted
<1>5. price \in Int
  <2>1. adjusted * f \in Int
    BY <1>2, <1>4
  <2> QED BY <2>1
<1>6. HintMarketplace!CalculateDynamicPrice(h, b) = CHOOSE p \in S : Fits(p)
  BY DEF HintMarketplace!CalculateDynamicPrice, m, f, adjusted
<1> HIDE DEF price, lo, hi
<1>7. \E p \in S : Fits(p)
  <2>1. CASE price \in lo .. hi
    BY <1>3, <1>5, <2>1
  <2>2. CASE price > hi
    BY <1>3, <1>5, <2>2
  <2>3. CASE price < lo
    BY <1>3, <1>5, <2>3
  <2> QED BY <1>3, <1>5, <2>1, <2>2, <2>3
<1>8. S \subseteq Int
  BY <1>3, <1>5
<1> HIDE DEF S, Fits
<1> QED BY <1>6, <1>7, <1>8

\* What the types of the storage say of a hint and of a listing.
LEMMA HintStored ==
  ASSUME MarketInv, NEW h \in 1 .. Len(hint)
  PROVE  /\ hint[h] \in HintRecord /\ metrics[h] \in Demand /\ price_history[h] \in Seq(Int)
         /\ rating[h] \in RatingTable /\ DOMAIN hint = 1 .. Len(hint)
         /\ IsFiniteSet(SoldOf(listing, h)) /\ Cardinality(SoldOf(listing, h)) \in Nat
<1>1. listing \in Seq(Listing)
  BY DEF MarketInv, MarketTypes
<1>2. /\ hint[h] \in HintRecord /\ metrics[h] \in Demand /\ DOMAIN hint = 1 .. Len(hint)
  BY DEF MarketInv, MarketTypes
<1>3. rating[h] \in RatingTable
  BY DEF MarketInv, MarketTypes
<1>4. price_history[h] \in Seq(Int)
  BY DEF MarketInv, MarketTypes
<1> QED BY <1>1, <1>2, <1>3, <1>4, SoldFinite

LEMMA ListingStored ==
  ASSUME MarketTypes, NEW i \in 1 .. Len(listing)
  PROVE  /\ listing[i] \in Listing /\ DOMAIN listing = 1 .. Len(listing)
         /\ listing[i].hint_id \in 1 .. Len(hint) /\ listing[i].created_time \in 0 .. clock
         /\ listing[i].current_price \in Int
         /\ listing[i].seller \in OfHintMarketplace.Users
         /\ listing[i].creator \in OfHintMarketplace.Users
<1>1. listing[i] \in Listing
  BY DEF MarketTypes
<1>2. listing[i].created_time \in Nat
  BY <1>1 DEF Listing
<1>3. /\ listing[i].hint_id \in 1 .. Len(hint) /\ listing[i].created_time <= clock
      /\ clock \in Nat /\ DOMAIN listing = 1 .. Len(listing)
  BY DEF MarketTypes
<1>4. /\ listing[i].current_price \in Int /\ listing[i].seller \in OfHintMarketplace.Users
      /\ listing[i].creator \in OfHintMarketplace.Users
  BY <1>1 DEF Listing
<1> QED BY <1>1, <1>2, <1>3, <1>4

LEMMA HintMarketplaceStays == ASSUME MarketInv, UNCHANGED HintMarketplace!vars PROVE MarketInv'
BY DEF HintMarketplace!vars, MarketInv, MarketTypes, Demanded, Rated

LEMMA CreateHintKeeps ==
  ASSUME MarketInv, NEW u \in OfHintMarketplace.Users, NEW q \in OfHintMarketplace.Qualities,
         HintMarketplace!CreateHint(u, q)
  PROVE  MarketInv'
<1> DEFINE n == Len(hint)
           x == [creator |-> u, quality |-> q, total_sales |-> 0, total_rating |-> 0,
                 rating_count |-> 0]
           r == [v \in OfHintMarketplace.Users |-> None]
           k == HintMarketplace!NoMetrics
<1>1. /\ hint' = Append(hint, x) /\ metrics' = Append(metrics, k)
      /\ price_history' = Append(price_history, <<>>) /\ rating' = Append(rating, r)
      /\ UNCHANGED <<clock, tokens, settings, listing, active_listings, pack>>
  BY DEF HintMarketplace!CreateHint, HintMarketplace!listings
<1>2. /\ x \in HintRecord /\ k \in Demand /\ r \in RatingTable /\ <<>> \in Seq(Int)
      /\ k.purchases = 0 /\ k.last_purchase_time = 0 /\ k.average_time_to_sale = 0
      /\ x.total_sales = 0 /\ x.rating_count = 0 /\ x.total_rating = 0
      /\ \A v \in OfHintMarketplace.Users : r[v] = None
  BY HintMarketplaceAssumption DEF HintRecord, Demand, RatingTable, HintMarketplace!NoMetrics
<1> HIDE DEF x, r, k
<1>3. MarketTypes
  BY DEF MarketInv
<1>4. /\ hint' \in Seq(HintRecord) /\ n \in Nat /\ Len(hint') = n + 1 /\ hint'[n + 1] = x
      /\ \A h \in 1 .. n : hint'[h] = hint[h]
  BY <1>1, <1>2, <1>3, Appended DEF MarketTypes
<1>5. /\ metrics' \in Seq(Demand) /\ Len(metrics') = n + 1 /\ metrics'[n + 1] = k
      /\ \A h \in 1 .. n : metrics'[h] = metrics[h]
  BY <1>1, <1>2, <1>3, Appended DEF MarketTypes
<1>6. /\ price_history' \in Seq(Seq(Int)) /\ Len(price_history') = n + 1
      /\ price_history'[n + 1] = <<>> /\ \A h \in 1 .. n : price_history'[h] = price_history[h]
  BY <1>1, <1>2, <1>3, Appended DEF MarketTypes
<1>7. /\ rating' \in Seq(RatingTable) /\ Len(rating') = n + 1 /\ rating'[n + 1] = r
      /\ \A h \in 1 .. n : rating'[h] = rating[h]
  BY <1>1, <1>2, <1>3, Appended DEF MarketTypes
<1>8. MarketTypes'
  <2>1. \A i \in 1 .. Len(listing) : listing[i].hint_id \in 1 .. n + 1
    BY <1>3, <1>4 DEF MarketTypes
  <2> QED BY <1>1, <1>3, <1>4, <1>5, <1>6, <1>7, <2>1 DEF MarketTypes
<1>9. SoldOf(listing, n + 1) = {} /\ Cardinality({}) = 0
  <2>1. \A i \in 1 .. Len(listing) : listing[i].hint_id # n + 1
    BY <1>3, <1>4 DEF MarketTypes
  <2> QED BY <2>1, FS_EmptySet DEF SoldOf
<1>10. Demanded(k, <<>>, SoldOf(listing, n + 1), listing, clock)
  <2>1. clock \in Nat /\ Len(<<>>) = 0
    BY <1>3 DEF MarketTypes
  <2> DEFINE c == Cardinality({})
  <2>2. c = 0 /\ (IF c < OfHintMarketplace.HISTORY THEN c ELSE OfHintMarketplace.HISTORY) = 0
    BY <1>9, HintMarketplaceAssumption
  <2>3. \A j \in 1 .. Len(<<>>) : FALSE
    BY <2>1
  <2> HIDE DEF c
  <2>4. Demanded(k, <<>>, {}, listing, clock)
    BY <1>2, <2>1, <2>2, <2>3 DEF Demanded, c
  <2> QED BY <1>9, <2>4
<1>11. Rated(x, r)
  <2>1. RatersOf(r) = {}
    BY <1>2 DEF RatersOf
  <2>2. Total([v \in {} |-> r[v]]) = 0
    <3> DEFINE f == [v \in {} |-> r[v]]
    <3>1. f \in [{} -> Nat] /\ \A v \in {} : f[v] = 0
      OBVIOUS
    <3> HIDE DEF f
    <3>2. Total(f) = 0
      BY <3>1, TotalZero
    <3> QED BY <3>2 DEF f
  <2> QED BY <1>2, <1>9, <2>1, <2>2 DEF Rated
<1>12. ASSUME NEW h \in 1 .. n + 1
       PROVE  /\ Demanded(metrics'[h], price_history'[h], SoldOf(listing, h), listing, clock)
              /\ hint'[h].total_sales >= Cardinality(SoldOf(listing, h))
              /\ Rated(hint'[h], rating'[h])
  <2>1. CASE h = n + 1
    <3>1. metrics'[h] = k /\ price_history'[h] = <<>> /\ hint'[h] = x /\ rating'[h] = r
      BY <1>4, <1>5, <1>6, <1>7, <2>1
    <3>2. Demanded(metrics'[h], price_history'[h], SoldOf(listing, h), listing, clock)
      BY <1>10, <2>1, <3>1
    <3>3. hint'[h].total_sales >= Cardinality(SoldOf(listing, h))
      <4>1. hint'[h].total_sales = 0 /\ SoldOf(listing, h) = {}
        BY <1>2, <1>9, <2>1, <3>1
      <4> QED BY <1>9, <4>1
    <3> QED BY <1>11, <3>1, <3>2, <3>3
  <2>2. CASE h # n + 1
    <3>1. h \in 1 .. n
      BY <1>4, <2>2
    <3>2. /\ metrics'[h] = metrics[h] /\ price_history'[h] = price_history[h]
          /\ hint'[h] = hint[h] /\ rating'[h] = rating[h]
      BY <1>4, <1>5, <1>6, <1>7, <3>1
    <3> QED BY <3>1, <3>2 DEF MarketInv
  <2> QED BY <2>1, <2>2
<1> QED BY <1>1, <1>4, <1>8, <1>12 DEF MarketInv

LEMMA CreateListingKeeps ==
  ASSUME MarketInv, NEW u \in OfHintMarketplace.Users, NEW h \in DOMAIN hint,
         NEW b \in OfHintMarketplace.BasePrices, NEW d \in OfHintMarketplace.Durations,
         NEW r \in OfHintMarketplace.Royalties,
         HintMarketplace!CreateListing(u, h, b, d, r)
  PROVE  MarketInv'
<1> DEFINE n == Len(listing)
           p == HintMarketplace!CalculateDynamicPrice(h, b)
           l == [hint_id |-> h, seller |-> u, current_price |-> p, status |-> "Active",
                 created_time |-> clock, expiration_time |-> clock + d,
                 creator |-> hint[h].creator, royalty_bps |-> r]
<1>1. MarketTypes /\ h \in 1 .. Len(hint) /\ clock \in Nat
  BY DEF MarketInv, MarketTypes
<1>2. /\ listing' = Append(listing, l) /\ active_listings' = active_listings \cup {n + 1}
      /\ UNCHANGED <<clock, tokens, settings, hint, metrics, price_history, rating, pack>>
  BY DEF HintMarketplace!CreateListing
<1>3. l \in Listing /\ l.hint_id = h /\ l.status = "Active" /\ l.created_time = clock
  <2>1. p \in Int
    BY <1>1, PriceIsInt
  <2>2. d \in Int
    BY <1>1, HintMarketplaceAssumption DEF HintMarketplace!CreateListing, MarketTypes
  <2>3. hint[h].creator \in OfHintMarketplace.Users
    BY <1>1, HintStored DEF HintRecord
  <2> HIDE DEF p
  <2> QED BY <1>1, <2>1, <2>2, <2>3 DEF Listing, HintStatuses
<1> HIDE DEF l
<1>4. /\ listing' \in Seq(Listing) /\ n \in Nat /\ Len(listing') = n + 1 /\ listing'[n + 1] = l
      /\ \A i \in 1 .. n : listing'[i] = listing[i]
  BY <1>1, <1>2, <1>3, Appended DEF MarketTypes
<1>5. active_listings' = {i \in 1 .. n + 1 : listing'[i].status = "Active"}
  <2>1. active_listings = {i \in 1 .. n : listing[i].status = "Active"}
    BY <1>1 DEF MarketTypes
  <2> HIDE DEF n
  <2> QED BY <1>2, <1>3, <1>4, <2>1
<1>6. ASSUME NEW i \in 1 .. n + 1
      PROVE  listing'[i].hint_id \in 1 .. Len(hint) /\ listing'[i].created_time <= clock
  <2>1. CASE i = n + 1
    BY <1>1, <1>3, <1>4, <2>1
  <2>2. CASE i # n + 1
    <3>1. i \in 1 .. n /\ listing'[i] = listing[i]
      BY <1>4, <2>2
    <3> QED BY <1>1, <3>1 DEF MarketTypes
  <2> QED BY <2>1, <2>2
<1>7. MarketTypes'
  BY <1>1, <1>2, <1>4, <1>5, <1>6 DEF MarketTypes
<1>8. \A k \in 1 .. Len(hint) : SoldOf(listing', k) = SoldOf(listing, k)
  <2>1. listing'[n + 1].status # "Sold"
    BY <1>3, <1>4
  <2> QED BY <1>4, <2>1 DEF SoldOf
<1>9. \A k \in 1 .. Len(hint) : \A i \in SoldOf(listing, k) :
        listing'[i].current_price = listing[i].current_price
  BY <1>4 DEF SoldOf
<1>10. KeepsSold(listing')
  BY <1>8, <1>9 DEF KeepsSold
<1>11. clock <= clock'
  BY <1>1, <1>2
<1> QED BY <1>2, <1>7, <1>10, <1>11, MarketSame

LEMMA CancelListingKeeps ==
  ASSUME MarketInv, NEW i \in DOMAIN listing, HintMarketplace!CancelListing(i)
  PROVE  MarketInv'
<1> DEFINE n == Len(listing)
           l == [listing[i] EXCEPT !.status = "Cancelled"]
<1>1. MarketTypes /\ i \in 1 .. n /\ clock \in Nat
  <2>1. MarketTypes
    BY DEF MarketInv
  <2>2. listing \in Seq(Listing) /\ clock \in Nat
    BY <2>1 DEF MarketTypes
  <2> QED BY <2>1, <2>2
<1>2. /\ listing' = [listing EXCEPT ![i] = l] /\ active_listings' = active_listings \ {i}
      /\ listing[i].status = "Active"
      /\ UNCHANGED <<clock, tokens, settings, hint, metrics, price_history, rating, pack>>
  BY DEF HintMarketplace!CancelListing, HintMarketplace!Close
<1>3. /\ l \in Listing /\ l.hint_id = listing[i].hint_id /\ l.status = "Cancelled"
      /\ l.created_time = listing[i].created_time
  BY <1>1, ListingStored DEF Listing, HintStatuses
<1> HIDE DEF l
<1>4. /\ listing' \in Seq(Listing) /\ Len(listing') = n /\ listing'[i] = l
      /\ \A j \in 1 .. n : j # i => listing'[j] = listing[j]
  BY <1>1, <1>2, <1>3, Replaced DEF MarketTypes
<1>5. active_listings' = {j \in 1 .. n : listing'[j].status = "Active"}
  BY <1>1, <1>2, <1>3, <1>4 DEF MarketTypes
<1>6. ASSUME NEW j \in 1 .. n
      PROVE  listing'[j].hint_id \in 1 .. Len(hint) /\ listing'[j].created_time <= clock
  BY <1>1, <1>3, <1>4 DEF MarketTypes
<1>7. MarketTypes'
  BY <1>1, <1>2, <1>4, <1>5, <1>6 DEF MarketTypes
<1>8. \A k \in 1 .. Len(hint) : SoldOf(listing', k) = SoldOf(listing, k)
  BY <1>2, <1>3, <1>4 DEF SoldOf
<1>9. \A k \in 1 .. Len(hint) : \A j \in SoldOf(listing, k) :
        listing'[j].current_price = listing[j].current_price
  BY <1>2, <1>4 DEF SoldOf
<1>10. KeepsSold(listing')
  BY <1>8, <1>9 DEF KeepsSold
<1>11. clock <= clock'
  BY <1>1, <1>2
<1> QED BY <1>2, <1>7, <1>10, <1>11, MarketSame

LEMMA ExpireListingsKeeps ==
  ASSUME MarketInv, NEW ids, HintMarketplace!ExpireListings(ids)
  PROVE  MarketInv'
<1> DEFINE n == Len(listing)
           over == {i \in ids \cap DOMAIN listing :
                      listing[i].status = "Active" /\ clock > listing[i].expiration_time}
           l(i) == [listing[i] EXCEPT !.status = "Expired"]
<1>1. MarketTypes /\ DOMAIN listing = 1 .. n /\ n \in Nat /\ clock \in Nat
  BY DEF MarketInv, MarketTypes
<1>2. /\ listing' = [i \in 1 .. n |-> IF i \in over THEN l(i) ELSE listing[i]]
      /\ active_listings' = active_listings \ over
      /\ UNCHANGED <<clock, tokens, settings, hint, metrics, price_history, rating, pack>>
  BY <1>1 DEF HintMarketplace!ExpireListings
<1>3. over \subseteq 1 .. n /\ \A i \in over : listing[i].status = "Active"
  BY <1>1
<1>4. ASSUME NEW i \in 1 .. n
      PROVE  /\ l(i) \in Listing /\ l(i).hint_id = listing[i].hint_id /\ l(i).status = "Expired"
             /\ l(i).created_time = listing[i].created_time
             /\ l(i).current_price = listing[i].current_price
             /\ listing[i] \in Listing
  BY <1>1, ListingStored DEF Listing, HintStatuses
<1> HIDE DEF l, over
<1>5. /\ listing' \in Seq(Listing) /\ Len(listing') = n
      /\ \A i \in 1 .. n : listing'[i] = IF i \in over THEN l(i) ELSE listing[i]
  BY <1>1, <1>2, <1>4
<1>6. active_listings' = {j \in 1 .. n : listing'[j].status = "Active"}
  BY <1>1, <1>2, <1>3, <1>4, <1>5 DEF MarketTypes
<1>7. ASSUME NEW j \in 1 .. n
      PROVE  listing'[j].hint_id \in 1 .. Len(hint) /\ listing'[j].created_time <= clock
  BY <1>1, <1>4, <1>5 DEF MarketTypes
<1>8. MarketTypes'
  BY <1>1, <1>2, <1>5, <1>6, <1>7 DEF MarketTypes
<1>9. \A k \in 1 .. Len(hint) : SoldOf(listing', k) = SoldOf(listing, k)
  BY <1>3, <1>4, <1>5 DEF SoldOf
<1>10. \A k \in 1 .. Len(hint) : \A j \in SoldOf(listing, k) :
        listing'[j].current_price = listing[j].current_price
  BY <1>4, <1>5 DEF SoldOf
<1>11. clock <= clock' /\ KeepsSold(listing')
  BY <1>1, <1>2, <1>9, <1>10 DEF KeepsSold
<1> QED BY <1>2, <1>8, <1>11, MarketSame

\* The average of the times to a sale is never later than the last sale.
LEMMA AverageWithin ==
  ASSUME NEW n \in Nat, NEW a \in Nat, NEW d \in Nat, NEW t \in Nat, a <= t, d <= t
  PROVE  (a * n + d) \div (n + 1) \in Nat /\ (a * n + d) \div (n + 1) <= t
<1> DEFINE m == n + 1
           s == a * n + d
           q == s \div m
<1>1. a * n \in Nat /\ (t - a) * n \in Nat /\ t * n = a * n + (t - a) * n /\ t * n \in Nat
  <2>1. t - a \in Nat /\ a * n \in Nat /\ (t - a) * n \in Nat
    BY ProductGrows
  <2>2. t * n = a * n + (t - a) * n
    OBVIOUS
  <2> QED BY <2>1, <2>2
<1>2. s \in Nat /\ m \in Nat \ {0} /\ t * m = t * n + t
  BY <1>1
<1>3. s <= t * m
  BY <1>1, <1>2
<1> HIDE DEF s, m
<1>4. q \in Nat /\ q * m <= s
  BY <1>2, Quotient
<1> HIDE DEF q
<1>5. CASE q > t
  <2> DEFINE e == q - t - 1
  <2>1. e \in Nat /\ q = t + 1 + e
    BY <1>4, <1>5
  <2>2. e * m \in Nat /\ t * m \in Nat /\ q * m = t * m + m + e * m
    <3> HIDE DEF e
    <3>1. e * m \in Nat /\ t * m \in Nat
      BY <1>2, <2>1, ProductGrows
    <3>2. q * m = t * m + m + e * m
      BY <1>2, <2>1
    <3> QED BY <3>1, <3>2
  <2> HIDE DEF e
  <2>3. q * m \in Nat /\ q * m > t * m
    BY <1>2, <2>2
  <2> QED BY <1>2, <1>3, <1>4, <2>2, <2>3
<1> QED BY <1>4, <1>5 DEF q, s, m

\* The history of prices keeps the last ones.
LEMMA RecordedPrices ==
  ASSUME NEW s \in Seq(Int), NEW p \in Int, Len(s) <= OfHintMarketplace.HISTORY
  PROVE  LET r == HintMarketplace!Recorded(s, p)
         IN /\ r \in Seq(Int)
            /\ Len(r) = IF Len(s) < OfHintMarketplace.HISTORY THEN Len(s) + 1
                                                              ELSE OfHintMarketplace.HISTORY
            /\ \A j \in 1 .. Len(r) : r[j] = p \/ \E k \in 1 .. Len(s) : r[j] = s[k]
<1> DEFINE H == OfHintMarketplace.HISTORY
           all == Append(s, p)
           r == HintMarketplace!Recorded(s, p)
           n == Len(s)
<1>1. H \in Nat /\ n \in Nat
  BY HintMarketplaceAssumption
<1>2. /\ all \in Seq(Int) /\ Len(all) = n + 1
      /\ \A j \in 1 .. n + 1 : all[j] = p \/ \E k \in 1 .. n : all[j] = s[k]
  OBVIOUS
<1>3. r = IF Len(all) > H THEN SubSeq(all, Len(all) - H + 1, Len(all)) ELSE all
  BY DEF HintMarketplace!Recorded
<1> HIDE DEF H, all, r, n
<1>4. CASE n < H
  <2>1. r = all
    BY <1>1, <1>2, <1>3, <1>4
  <2> QED BY <1>2, <1>4, <2>1 DEF r, H, n
<1>5. CASE ~(n < H)
  <2>1. n = H
    BY <1>1, <1>5 DEF n, H
  <2> DEFINE a == n + 1 - H + 1
             z == n + 1
  <2>2. a \in 1 .. z + 1 /\ z \in Nat /\ z - a + 1 = H /\ a = 2
    BY <1>1, <2>1
  <2>3. r = SubSeq(all, a, z)
    BY <1>1, <1>2, <1>3, <2>1
  <2> HIDE DEF a, z
  <2>4. \A j \in a .. z : all[j] \in Int
    BY <1>2, <2>2 DEF z
  <2>5. r \in Seq(Int) /\ Len(r) = H /\ \A j \in 1 .. H : r[j] = all[j + 1]
    BY <1>1, <1>2, <2>2, <2>3 DEF z
  <2>6. \A j \in 1 .. H : j + 1 \in 1 .. n + 1
    BY <1>1, <2>1
  <2> QED BY <1>2, <1>5, <2>5, <2>6 DEF r, H, n
<1> QED BY <1>4, <1>5

\* Only the sales of a hint change.
LEMMA SalesChange ==
  ASSUME NEW y \in HintRecord, NEW m \in Nat
  PROVE  /\ [y EXCEPT !.total_sales = m] \in HintRecord
         /\ [y EXCEPT !.total_sales = m].total_sales = m
         /\ [y EXCEPT !.total_sales = m].quality = y.quality
         /\ [y EXCEPT !.total_sales = m].total_rating = y.total_rating
         /\ [y EXCEPT !.total_sales = m].rating_count = y.rating_count
BY DEF HintRecord

LEMMA BuyKeeps ==
  ASSUME MarketInv, NEW u \in OfHintMarketplace.Users, NEW i \in DOMAIN listing,
         HintMarketplace!Buy(u, i)
  PROVE  MarketInv'
<1> DEFINE n == Len(listing)
           l == listing[i]
           h == l.hint_id
           x == [hint[h] EXCEPT !.total_sales = hint[h].total_sales + 1]
           k == HintMarketplace!Sold(metrics[h], l.created_time)
           ps == HintMarketplace!Recorded(price_history[h], l.current_price)
           sold == [l EXCEPT !.status = "Sold"]
           S == SoldOf(listing, h)
           c == Cardinality(S)
<1>1. MarketTypes /\ i \in 1 .. n /\ clock \in Nat
  <2>1. MarketTypes /\ i \in DOMAIN listing
    BY DEF MarketInv, HintMarketplace!Buy
  <2> QED BY <2>1 DEF MarketTypes
<1>2. /\ hint' = [hint EXCEPT ![h] = x] /\ metrics' = [metrics EXCEPT ![h] = k]
      /\ price_history' = [price_history EXCEPT ![h] = ps]
      /\ listing' = [listing EXCEPT ![i] = sold] /\ active_listings' = active_listings \ {i}
      /\ l.status = "Active"
      /\ HintMarketplace!Payouts(u, l.current_price, l.royalty_bps, l.seller, l.creator)
      /\ UNCHANGED <<clock, settings, rating, pack>>
  BY DEF HintMarketplace!Buy, HintMarketplace!Close
<1>3. /\ l \in Listing /\ h \in 1 .. Len(hint) /\ l.created_time \in 0 .. clock
      /\ l.current_price \in Int
      /\ l.seller \in OfHintMarketplace.Users /\ l.creator \in OfHintMarketplace.Users
  BY <1>1, ListingStored
<1>4. /\ sold \in Listing /\ sold.hint_id = h /\ sold.status = "Sold"
      /\ sold.created_time = l.created_time /\ sold.current_price = l.current_price
  BY <1>3 DEF Listing, HintStatuses
<1>5. /\ hint[h] \in HintRecord /\ metrics[h] \in Demand /\ price_history[h] \in Seq(Int)
      /\ rating[h] \in RatingTable /\ IsFiniteSet(S) /\ c \in Nat
  BY <1>3, HintStored
<1>6. /\ Demanded(metrics[h], price_history[h], S, listing, clock)
      /\ hint[h].total_sales >= c /\ Rated(hint[h], rating[h])
  BY <1>3 DEF MarketInv
<1>7. Self \in DOMAIN tokens' /\ tokens'[Self] = 0
  BY <1>1, <1>2, <1>3, PayoutsPass
<1>8. /\ x \in HintRecord /\ x.total_sales = hint[h].total_sales + 1
      /\ Rated(x, rating[h])
  <2>1. /\ x \in HintRecord /\ x.total_sales = hint[h].total_sales + 1
        /\ x.quality = hint[h].quality /\ x.total_rating = hint[h].total_rating
        /\ x.rating_count = hint[h].rating_count
    <3>1. hint[h].total_sales + 1 \in Nat
      BY <1>5 DEF HintRecord
    <3> HIDE DEF h
    <3> QED BY <1>5, <3>1, SalesChange
  <2> HIDE DEF x
  <2> QED BY <1>6, <2>1 DEF Rated
<1> HIDE DEF x
<1>9. k \in Demand /\ k.purchases = c + 1 /\ k.last_purchase_time = clock
      /\ k.average_time_to_sale <= clock
  <2> DEFINE o == metrics[h]
             m == o.purchases + 1
             a == (o.average_time_to_sale * (m - 1) + (clock - l.created_time)) \div m
  <2>1. /\ o.purchases \in Nat /\ o.average_time_to_sale \in Nat /\ o.last_purchase_time \in Nat
        /\ o.purchases = c /\ o.average_time_to_sale <= clock
    BY <1>1, <1>5, <1>6 DEF Demand, Demanded
  <2>2. k = [purchases |-> m, last_purchase_time |-> clock, average_time_to_sale |-> a]
    BY DEF HintMarketplace!Sold
  <2>3. clock - l.created_time \in Nat /\ clock - l.created_time <= clock
    BY <1>1, <1>3
  <2>4. m - 1 = o.purchases /\ m \in Nat /\ m = c + 1
    BY <2>1
  <2> HIDE DEF o
  <2>5. a \in Nat /\ a <= clock
    BY <1>1, <2>1, <2>3, <2>4, AverageWithin
  <2> HIDE DEF m, a, k
  <2> QED BY <1>1, <2>2, <2>4, <2>5 DEF Demand
<1> HIDE DEF k
<1>10. /\ ps \in Seq(Int)
       /\ Len(ps) = IF c + 1 < OfHintMarketplace.HISTORY THEN c + 1 ELSE OfHintMarketplace.HISTORY
       /\ \A j \in 1 .. Len(ps) : \/ ps[j] = l.current_price
                                  \/ \E e \in 1 .. Len(price_history[h]) : ps[j] = price_history[h][e]
  <2> DEFINE s == price_history[h]
             p == l.current_price
  <2>1. s \in Seq(Int) /\ p \in Int
    BY <1>3, <1>5
  <2>2. Len(s) = IF c < OfHintMarketplace.HISTORY THEN c ELSE OfHintMarketplace.HISTORY
    BY <1>6 DEF Demanded
  <2> HIDE DEF s, p, c
  <2>3. Len(s) <= OfHintMarketplace.HISTORY /\ OfHintMarketplace.HISTORY \in Nat
    BY <1>5, <2>2, HintMarketplaceAssumption
  <2>4. /\ ps \in Seq(Int)
        /\ Len(ps) = IF Len(s) < OfHintMarketplace.HISTORY THEN Len(s) + 1
                                                           ELSE OfHintMarketplace.HISTORY
        /\ \A j \in 1 .. Len(ps) : ps[j] = p \/ \E e \in 1 .. Len(s) : ps[j] = s[e]
    BY <2>1, <2>3, RecordedPrices DEF s, p
  <2>5. Len(ps) = IF c + 1 < OfHintMarketplace.HISTORY THEN c + 1 ELSE OfHintMarketplace.HISTORY
    BY <1>5, <2>2, <2>3, <2>4
  <2> QED BY <2>4, <2>5 DEF s, p
<1> HIDE DEF ps
<1>11. /\ listing' \in Seq(Listing) /\ Len(listing') = n /\ listing'[i] = sold
       /\ \A j \in 1 .. n : j # i => listing'[j] = listing[j]
  <2> HIDE DEF sold
  <2> QED BY <1>1, <1>2, <1>4, Replaced DEF MarketTypes
<1>12. SoldOf(listing', h) = S \cup {i} /\ i \notin S
  <2>1. listing'[i].hint_id = h /\ listing'[i].status = "Sold"
    BY <1>4, <1>11
  <2>2. i \notin S
    BY <1>2 DEF SoldOf
  <2>3. ASSUME NEW j \in 1 .. n, j # i
        PROVE  j \in SoldOf(listing', h) <=> j \in S
    BY <1>11, <2>3 DEF SoldOf
  <2>4. i \in SoldOf(listing', h)
    BY <1>1, <1>11, <2>1 DEF SoldOf
  <2>5. SoldOf(listing', h) \subseteq 1 .. n /\ S \subseteq 1 .. n
    BY <1>11 DEF SoldOf
  <2> HIDE DEF S, h
  <2> QED BY <2>2, <2>3, <2>4, <2>5
<1>13. ASSUME NEW g \in 1 .. Len(hint), g # h PROVE SoldOf(listing', g) = SoldOf(listing, g)
  <2>1. listing'[i].hint_id # g /\ listing[i].hint_id # g
    BY <1>4, <1>11, <1>13
  <2> QED BY <1>11, <2>1 DEF SoldOf
<1>14. Cardinality(S \cup {i}) = c + 1
  BY <1>5, <1>12, FS_AddElement
<1>15. \A j \in 1 .. n : listing'[j].current_price = listing[j].current_price
  BY <1>4, <1>11
<1>16. MarketTypes'
  <2>1. hint' \in Seq(HintRecord) /\ Len(hint') = Len(hint)
    BY <1>1, <1>2, <1>3, <1>8, Replaced DEF MarketTypes
  <2>2. metrics' \in Seq(Demand) /\ Len(metrics') = Len(metrics)
    BY <1>1, <1>2, <1>3, <1>9, Replaced DEF MarketTypes
  <2>3. price_history' \in Seq(Seq(Int)) /\ Len(price_history') = Len(price_history)
    BY <1>1, <1>2, <1>3, <1>10, Replaced DEF MarketTypes
  <2>4. active_listings' = {j \in 1 .. n : listing'[j].status = "Active"}
    <3>1. active_listings = {j \in 1 .. n : listing[j].status = "Active"}
      BY <1>1 DEF MarketTypes
    <3>2. listing'[i].status # "Active"
      BY <1>4, <1>11
    <3> QED BY <1>2, <1>11, <3>1, <3>2
  <2>5. \A j \in 1 .. n : listing'[j].hint_id \in 1 .. Len(hint) /\ listing'[j].created_time <= clock
    <3>1. listing'[i].hint_id \in 1 .. Len(hint) /\ listing'[i].created_time <= clock
      BY <1>1, <1>3, <1>4, <1>11
    <3>2. \A j \in 1 .. n : listing[j].hint_id \in 1 .. Len(hint) /\ listing[j].created_time <= clock
      BY <1>1 DEF MarketTypes
    <3> QED BY <1>11, <3>1, <3>2
  <2> QED BY <1>1, <1>2, <1>7, <1>11, <2>1, <2>2, <2>3, <2>4, <2>5 DEF MarketTypes
<1>17. ASSUME NEW g \in 1 .. Len(hint)
       PROVE  /\ Demanded(metrics'[g], price_history'[g], SoldOf(listing', g), listing', clock)
              /\ hint'[g].total_sales >= Cardinality(SoldOf(listing', g))
              /\ Rated(hint'[g], rating[g])
  <2>1. CASE g = h
    <3>1. metrics'[h] = k /\ price_history'[h] = ps /\ hint'[h] = x
      BY <1>1, <1>2, <1>3 DEF MarketTypes
    <3>2. Demanded(k, ps, S \cup {i}, listing', clock)
      <4>1. \A j \in 1 .. Len(ps) : \E e \in S \cup {i} : listing'[e].current_price = ps[j]
        <5> SUFFICES ASSUME NEW j \in 1 .. Len(ps)
                     PROVE  \E e \in S \cup {i} : listing'[e].current_price = ps[j]
          OBVIOUS
        <5>1. CASE ps[j] = l.current_price
          BY <1>1, <1>15, <5>1
        <5>2. CASE \E e \in 1 .. Len(price_history[h]) : ps[j] = price_history[h][e]
          <6>1. \E e \in S : listing[e].current_price = ps[j]
            BY <1>6, <5>2 DEF Demanded
          <6>2. S \subseteq 1 .. n
            BY DEF SoldOf
          <6> QED BY <1>15, <6>1, <6>2
        <5> QED BY <1>10, <5>1, <5>2
      <4> HIDE DEF S
      <4> QED BY <1>1, <1>9, <1>10, <1>14, <4>1 DEF Demanded
    <3>3. x.total_sales >= Cardinality(S \cup {i})
      <4>1. hint[h].total_sales \in Nat
        BY <1>5 DEF HintRecord
      <4> QED BY <1>5, <1>6, <1>8, <1>14, <4>1
    <3> HIDE DEF S, h
    <3> QED BY <1>8, <1>12, <2>1, <3>1, <3>2, <3>3
  <2>2. CASE g # h
    <3>1. metrics'[g] = metrics[g] /\ price_history'[g] = price_history[g] /\ hint'[g] = hint[g]
      BY <1>1, <1>2, <2>2 DEF MarketTypes
    <3>2. SoldOf(listing', g) = SoldOf(listing, g)
      BY <1>13, <2>2
    <3>3. Demanded(metrics[g], price_history[g], SoldOf(listing, g), listing', clock)
      <4>1. Demanded(metrics[g], price_history[g], SoldOf(listing, g), listing, clock)
        BY DEF MarketInv
      <4>2. SoldOf(listing, g) \subseteq 1 .. n
        BY DEF SoldOf
      <4> QED BY <1>15, <4>1, <4>2 DEF Demanded
    <3>4. hint[g].total_sales >= Cardinality(SoldOf(listing, g)) /\ Rated(hint[g], rating[g])
      BY DEF MarketInv
    <3> QED BY <3>1, <3>2, <3>3, <3>4
  <2> QED BY <2>1, <2>2
<1>18. Len(hint') = Len(hint)
  BY <1>2
<1> QED BY <1>2, <1>16, <1>17, <1>18 DEF MarketInv

LEMMA RateHintKeeps ==
  ASSUME MarketInv, NEW u \in OfHintMarketplace.Users, NEW h \in DOMAIN hint,
         NEW e \in OfHintMarketplace.Ratings, HintMarketplace!RateHint(u, h, e)
  PROVE  MarketInv'
<1> DEFINE y == hint[h]
           total == y.total_rating + e
           votes == y.rating_count + 1
           x == [y EXCEPT !.total_rating = total, !.rating_count = votes,
                          !.quality = total \div votes]
           r == [rating[h] EXCEPT ![u] = e]
           R == RatersOf(rating[h])
<1>1. MarketTypes /\ h \in 1 .. Len(hint) /\ clock \in Nat
  <2>1. MarketTypes
    BY DEF MarketInv
  <2> QED BY <2>1 DEF MarketTypes
<1>2. /\ hint' = [hint EXCEPT ![h] = x] /\ rating' = [rating EXCEPT ![h] = r]
      /\ rating[h][u] = None
      /\ UNCHANGED <<clock, tokens, settings, metrics, price_history, listing, active_listings,
                     pack>>
  BY DEF HintMarketplace!RateHint, HintMarketplace!listings
<1>3. y \in HintRecord /\ rating[h] \in RatingTable
  BY <1>1, HintStored
<1>4. Rated(y, rating[h])
  BY <1>1 DEF MarketInv
<1>5. /\ y.total_rating \in Nat /\ y.rating_count \in Nat
      /\ e \in 1 .. 5 /\ e # None
  BY <1>3, HintMarketplaceAssumption DEF HintRecord
<1>6. y.rating_count <= y.total_rating /\ y.total_rating <= 5 * y.rating_count
  BY <1>4 DEF Rated
<1> HIDE DEF y
<1>7. total \in Nat /\ votes \in Nat \ {0} /\ votes <= total /\ total <= 5 * votes
  BY <1>5, <1>6
<1> HIDE DEF total, votes
<1>8. total \div votes \in 1 .. 5
  BY <1>7
<1>9. /\ x \in HintRecord /\ x.total_sales = y.total_sales /\ x.total_rating = total
      /\ x.rating_count = votes /\ x.quality = total \div votes
  <2> DEFINE q == total \div votes
  <2>1. q \in 1 .. 5
    BY <1>8
  <2> HIDE DEF q
  <2>2. x = [y EXCEPT !.total_rating = total, !.rating_count = votes, !.quality = q]
    BY DEF q
  <2>3. /\ x \in HintRecord /\ x.total_sales = y.total_sales /\ x.total_rating = total
        /\ x.rating_count = votes /\ x.quality = q
    BY <1>3, <1>7, <2>1, <2>2 DEF HintRecord
  <2> QED BY <2>3 DEF q
<1>10. /\ r \in RatingTable /\ r[u] = e
       /\ \A v \in OfHintMarketplace.Users : v # u => r[v] = rating[h][v]
  BY <1>3 DEF RatingTable
<1> HIDE DEF x, r
<1>11. RatersOf(r) = R \cup {u} /\ u \notin R
  BY <1>2, <1>5, <1>10 DEF RatersOf
<1>12. IsFiniteSet(R) /\ Cardinality(R) \in Nat
  <2>1. R \subseteq OfHintMarketplace.Users
    BY DEF RatersOf
  <2> QED BY <2>1, FS_Subset, FS_CardinalityType, HintMarketplaceAssumption
<1>13. Cardinality(R \cup {u}) = Cardinality(R) + 1
  BY <1>11, <1>12, FS_AddElement
<1>14. Total([v \in R \cup {u} |-> r[v]]) = y.total_rating + e
  <2>1. \A v \in R \cup {u} : r[v] \in Nat
    <3>1. \A v \in R \cup {u} : v \in OfHintMarketplace.Users /\ r[v] # None
      BY <1>11 DEF RatersOf
    <3>2. \A v \in R \cup {u} : r[v] \in OfHintMarketplace.Ratings
      BY <1>10, <3>1 DEF RatingTable
    <3> QED BY <3>2, HintMarketplaceAssumption
  <2>2. Total([v \in R \cup {u} |-> r[v]]) = Total([v \in R |-> r[v]]) + r[u]
    <3> HIDE DEF R
    <3> QED BY <1>11, <1>12, <2>1, TotalOneMore
  <2>3. [v \in R |-> r[v]] = [v \in R |-> rating[h][v]]
    <3>1. \A v \in R : r[v] = rating[h][v]
      BY <1>10, <1>11 DEF RatersOf
    <3> HIDE DEF R
    <3> QED BY <3>1
  <2>4. Total([v \in R |-> rating[h][v]]) = y.total_rating
    BY <1>4 DEF Rated
  <2> QED BY <1>10, <2>2, <2>3, <2>4
<1>15. Rated(x, r)
  <2>1. x.rating_count = Cardinality(R \cup {u})
    <3>1. Cardinality(R) = y.rating_count
      BY <1>4 DEF Rated
    <3> QED BY <1>9, <1>13, <3>1 DEF votes
  <2>2. x.total_rating = Total([v \in R \cup {u} |-> r[v]])
    BY <1>9, <1>14 DEF total
  <2> HIDE DEF R
  <2> QED BY <1>7, <1>9, <1>11, <2>1, <2>2 DEF Rated
<1>16. /\ hint' \in Seq(HintRecord) /\ Len(hint') = Len(hint) /\ hint'[h] = x
       /\ \A g \in 1 .. Len(hint) : g # h => hint'[g] = hint[g]
  BY <1>1, <1>2, <1>9, Replaced DEF MarketTypes
<1>17. /\ rating' \in Seq(RatingTable) /\ Len(rating') = Len(rating) /\ rating'[h] = r
       /\ \A g \in 1 .. Len(hint) : g # h => rating'[g] = rating[g]
  BY <1>1, <1>2, <1>10, Replaced DEF MarketTypes
<1>18. MarketTypes'
  BY <1>1, <1>2, <1>16, <1>17 DEF MarketTypes
<1>19. ASSUME NEW g \in 1 .. Len(hint)
       PROVE  /\ hint'[g].total_sales >= Cardinality(SoldOf(listing, g))
              /\ Rated(hint'[g], rating'[g])
  <2>1. hint[g].total_sales >= Cardinality(SoldOf(listing, g)) /\ Rated(hint[g], rating[g])
    BY DEF MarketInv
  <2>2. CASE g = h
    BY <1>9, <1>15, <1>16, <1>17, <2>1, <2>2 DEF y
  <2>3. CASE g # h
    BY <1>16, <1>17, <2>1, <2>3
  <2> QED BY <2>2, <2>3
<1>20. ASSUME NEW g \in 1 .. Len(hint)
       PROVE  Demanded(metrics[g], price_history[g], SoldOf(listing, g), listing, clock)
  BY DEF MarketInv
<1> QED BY <1>2, <1>16, <1>18, <1>19, <1>20 DEF MarketInv

LEMMA CreatePackKeeps ==
  ASSUME MarketInv, NEW u \in OfHintMarketplace.Users, NEW ids \in HintMarketplace!PackIds,
         NEW b \in OfHintMarketplace.PackPrices, NEW e \in OfHintMarketplace.Expirations,
         HintMarketplace!CreatePack(u, ids, b, e)
  PROVE  MarketInv'
<1> DEFINE p == [hint_ids |-> ids, pack_price |-> b, creator |-> u, expiration_time |-> e]
<1>1. MarketTypes /\ DOMAIN hint = 1 .. Len(hint) /\ clock \in Nat
  <2>1. MarketTypes
    BY DEF MarketInv
  <2> QED BY <2>1 DEF MarketTypes
<1>2. /\ pack' = Append(pack, p)
      /\ UNCHANGED <<clock, tokens, settings, hint, metrics, price_history, rating, listing,
                     active_listings>>
  BY DEF HintMarketplace!CreatePack, HintMarketplace!listings
<1>3. ids \in UNION {[1 .. n -> Nat] : n \in Nat}
  <2>1. PICK n \in 1 .. OfHintMarketplace.MaxPackHints : ids \in [1 .. n -> DOMAIN hint]
    BY DEF HintMarketplace!PackIds
  <2>2. ids \in [1 .. n -> Nat] /\ n \in Nat
    BY <1>1, <2>1, HintMarketplaceAssumption
  <2> QED BY <2>2
<1>4. p \in HintPack
  BY <1>3 DEF HintPack
<1> HIDE DEF p
<1>5. pack' \in Seq(HintPack)
  BY <1>1, <1>2, <1>4, Appended DEF MarketTypes
<1>6. MarketTypes'
  BY <1>1, <1>2, <1>5 DEF MarketTypes
<1> QED BY <1>2, <1>6 DEF MarketInv, Demanded, Rated

LEMMA BuyPackKeeps ==
  ASSUME MarketInv, NEW u \in OfHintMarketplace.Users, NEW i \in DOMAIN pack,
         HintMarketplace!BuyPack(u, i)
  PROVE  MarketInv'
<1> DEFINE n == Len(hint)
           p == pack[i]
           ids == p.hint_ids
           times(h) == HintMarketplace!Cardinality({k \in DOMAIN ids : ids[k] = h})
           x(h) == [hint[h] EXCEPT !.total_sales = hint[h].total_sales + times(h)]
<1>1. MarketTypes /\ DOMAIN hint = 1 .. n /\ n \in Nat /\ clock \in Nat /\ p \in HintPack
  <2>1. MarketTypes
    BY DEF MarketInv
  <2> QED BY <2>1 DEF MarketTypes
<1>2. /\ hint' = [h \in 1 .. n |-> x(h)]
      /\ HintMarketplace!Payouts(u, p.pack_price, 0, p.creator, p.creator)
      /\ UNCHANGED <<clock, settings, metrics, price_history, rating, listing, active_listings,
                     pack>>
  BY <1>1 DEF HintMarketplace!BuyPack, HintMarketplace!listings
<1>3. p.creator \in OfHintMarketplace.Users /\ ids \in UNION {[1 .. m -> Nat] : m \in Nat}
  BY <1>1 DEF HintPack
<1>4. Self \in DOMAIN tokens' /\ tokens'[Self] = 0
  BY <1>1, <1>2, <1>3, PayoutsPass
<1>5. ASSUME NEW h PROVE times(h) \in Nat
  <2>1. PICK m \in Nat : ids \in [1 .. m -> Nat]
    BY <1>3
  <2> DEFINE K == {k \in DOMAIN ids : ids[k] = h}
  <2>2. K \subseteq 1 .. m /\ IsFiniteSet(1 .. m)
    <3>1. IsFiniteSet(1 .. m)
      BY FS_Interval
    <3> HIDE DEF ids
    <3>2. DOMAIN ids = 1 .. m
      BY <2>1
    <3> QED BY <3>1, <3>2
  <2>3. Cardinality(K) \in Nat
    BY <2>2, FS_Subset, FS_CardinalityType
  <2> QED BY <2>3 DEF HintMarketplace!Cardinality, Cardinality
<1> HIDE DEF times, p
<1>6. ASSUME NEW h \in 1 .. n
      PROVE  /\ x(h) \in HintRecord /\ x(h).total_sales = hint[h].total_sales + times(h)
             /\ x(h).quality = hint[h].quality /\ x(h).total_rating = hint[h].total_rating
             /\ x(h).rating_count = hint[h].rating_count /\ hint[h].total_sales \in Nat
  <2>1. hint[h] \in HintRecord
    BY HintStored
  <2>2. hint[h].total_sales \in Nat
    BY <2>1 DEF HintRecord
  <2>3. hint[h].total_sales + times(h) \in Nat
    BY <1>5, <2>2
  <2> QED BY <2>1, <2>2, <2>3, SalesChange
<1> HIDE DEF x
<1>7. hint' \in Seq(HintRecord) /\ Len(hint') = n /\ \A h \in 1 .. n : hint'[h] = x(h)
  BY <1>1, <1>2, <1>6
<1>8. MarketTypes'
  BY <1>1, <1>2, <1>4, <1>7 DEF MarketTypes
<1>9. ASSUME NEW h \in 1 .. n
      PROVE  /\ hint'[h].total_sales >= Cardinality(SoldOf(listing, h))
             /\ Rated(hint'[h], rating[h])
  <2>1. hint[h].total_sales >= Cardinality(SoldOf(listing, h)) /\ Rated(hint[h], rating[h])
    BY DEF MarketInv
  <2>2. Cardinality(SoldOf(listing, h)) \in Nat
    BY HintStored
  <2>3. hint'[h].total_sales >= Cardinality(SoldOf(listing, h))
    BY <1>5, <1>6, <1>7, <2>1, <2>2
  <2>4. Rated(hint'[h], rating[h])
    BY <1>6, <1>7, <2>1 DEF Rated
  <2> QED BY <2>3, <2>4
<1>10. ASSUME NEW g \in 1 .. n
       PROVE  Demanded(metrics[g], price_history[g], SoldOf(listing, g), listing, clock)
  BY DEF MarketInv
<1> QED BY <1>2, <1>7, <1>8, <1>9, <1>10 DEF MarketInv

LEMMA HintMarketplaceStep ==
  ASSUME MarketInv, HintMarketplace!Next PROVE MarketInv'
<1>1. MarketTypes /\ clock \in Nat
  BY DEF MarketInv, MarketTypes
<1>2. ASSUME NEW c \in OfHintMarketplace.Configs, HintMarketplace!UpdateConfig(c)
      PROVE  MarketInv'
  BY <1>2 DEF HintMarketplace!UpdateConfig, HintMarketplace!listings, MarketInv, MarketTypes,
              Demanded, Rated
<1>3. CASE HintMarketplace!Tick
  <2>1. /\ clock' = clock + 1
        /\ UNCHANGED <<tokens, settings, hint, metrics, price_history, rating, listing,
                       active_listings, pack>>
    BY <1>3 DEF HintMarketplace!Tick, HintMarketplace!listings
  <2>2. ASSUME NEW j \in 1 .. Len(listing) PROVE listing[j].created_time <= clock + 1
    <3>1. listing[j].created_time \in 0 .. clock
      BY <1>1, ListingStored
    <3> QED BY <1>1, <3>1
  <2>3. MarketTypes'
    BY <1>1, <2>1, <2>2 DEF MarketTypes
  <2>4. KeepsSold(listing') /\ clock <= clock'
    BY <1>1, <2>1 DEF KeepsSold
  <2> QED BY <2>1, <2>3, <2>4, MarketSame
<1>4. ASSUME NEW i \in DOMAIN listing, HintMarketplace!CancelListing(i) PROVE MarketInv'
  BY <1>4, CancelListingKeeps
<1>5. ASSUME NEW ids, HintMarketplace!ExpireListings(ids) PROVE MarketInv'
  BY <1>5, ExpireListingsKeeps
<1> QED BY <1>2, <1>3, <1>4, <1>5, CreateHintKeeps, CreateListingKeeps, RateHintKeeps, BuyKeeps,
           CreatePackKeeps, BuyPackKeeps
        DEF HintMarketplace!Next

LEMMA HintMarketplaceInit == ASSUME HintMarketplace!Init PROVE MarketInv
<1>1. /\ clock = 0 /\ settings \in OfHintMarketplace.Configs
      /\ hint = <<>> /\ metrics = <<>> /\ price_history = <<>> /\ rating = <<>>
      /\ listing = <<>> /\ active_listings = {} /\ pack = <<>>
      /\ Self \in DOMAIN tokens /\ tokens[Self] = 0
  BY DEF HintMarketplace!Init
<1>2. MarketTypes
  BY <1>1 DEF MarketTypes
<1>3. Len(hint) = 0
  BY <1>1
<1> QED BY <1>2, <1>3 DEF MarketInv

LEMMA HintMarketplaceSays == ASSUME MarketInv PROVE HintMarketplace!SalesAndRatings
<1>1. MarketTypes /\ DOMAIN hint = 1 .. Len(hint) /\ DOMAIN listing = 1 .. Len(listing)
  <2>1. MarketTypes
    BY DEF MarketInv
  <2> QED BY <2>1 DEF MarketTypes
<1>2. \A S : HintMarketplace!Cardinality(S) = Cardinality(S)
  BY DEF HintMarketplace!Cardinality, Cardinality
<1>3. \A f : HintMarketplace!Total(f) = Total(f)
  BY <1>2 DEF HintMarketplace!Total, Total, HintMarketplace!Units, Units
<1>4. ASSUME NEW h \in 1 .. Len(hint)
      PROVE  LET sold == {i \in DOMAIN listing : listing[i].hint_id = h /\ listing[i].status = "Sold"}
                 raters == {u \in OfHintMarketplace.Users : rating[h][u] # None}
                 prices == price_history[h]
             IN /\ metrics[h].purchases = HintMarketplace!Cardinality(sold)
                /\ hint[h].total_sales >= HintMarketplace!Cardinality(sold)
                /\ Len(prices) = (IF HintMarketplace!Cardinality(sold) < OfHintMarketplace.HISTORY
                                  THEN HintMarketplace!Cardinality(sold) ELSE OfHintMarketplace.HISTORY)
                /\ \A k \in DOMAIN prices : \E i \in sold : listing[i].current_price = prices[k]
                /\ hint[h].rating_count = HintMarketplace!Cardinality(raters)
                /\ raters # {} =>
                     hint[h].quality = HintMarketplace!Total([u \in raters |-> rating[h][u]])
                                         \div HintMarketplace!Cardinality(raters)
                /\ metrics[h].average_time_to_sale <= metrics[h].last_purchase_time
  <2> DEFINE sold == {i \in DOMAIN listing : listing[i].hint_id = h /\ listing[i].status = "Sold"}
             raters == {u \in OfHintMarketplace.Users : rating[h][u] # None}
             prices == price_history[h]
  <2>1. sold = SoldOf(listing, h) /\ raters = RatersOf(rating[h])
    BY <1>1 DEF SoldOf, RatersOf
  <2>2. /\ Demanded(metrics[h], prices, sold, listing, clock)
        /\ hint[h].total_sales >= Cardinality(sold) /\ Rated(hint[h], rating[h])
    BY <2>1 DEF MarketInv
  <2>3. DOMAIN prices = 1 .. Len(prices)
    <3>1. prices \in Seq(Int)
      BY HintStored
    <3> HIDE DEF prices
    <3> QED BY <3>1
  <2>4. raters # {} => Cardinality(raters) > 0
    <3>1. IsFiniteSet(raters)
      BY HintMarketplaceAssumption, FS_Subset
    <3> QED BY <3>1, FS_EmptySet, FS_CardinalityType
  <2> HIDE DEF sold, raters, prices
  <2>5. /\ metrics[h].purchases = Cardinality(sold)
        /\ Len(prices) = (IF Cardinality(sold) < OfHintMarketplace.HISTORY
                          THEN Cardinality(sold) ELSE OfHintMarketplace.HISTORY)
        /\ \A k \in DOMAIN prices : \E i \in sold : listing[i].current_price = prices[k]
        /\ metrics[h].average_time_to_sale <= metrics[h].last_purchase_time
    BY <2>2, <2>3 DEF Demanded
  <2>6. /\ hint[h].rating_count = Cardinality(raters)
        /\ raters # {} =>
             hint[h].quality = Total([u \in raters |-> rating[h][u]]) \div Cardinality(raters)
    BY <2>1, <2>2, <2>4 DEF Rated
  <2> QED BY <1>2, <1>3, <2>2, <2>5, <2>6 DEF sold, raters, prices
<1> QED BY <1>1, <1>4 DEF HintMarketplace!SalesAndRatings, MarketTypes

-----------------------------------------------------------------------------
(***************************************************************************)
(* The contracts side by side.                                             *)
(***************************************************************************)
Everything == <<contract, now, auctionVars, fundVars, poolVars, tradeVars>>

\* The clock never goes back, whichever contract runs.
LEMMA Clock ==
  ASSUME now \in Nat, [MCNext]_Everything
  PROVE  now' \in Nat /\ now' >= now
<1>1. CASE Next
  <2>1. ASSUME NEW lot \in Lots, CreateAuction(lot) PROVE now' = now
    BY <2>1 DEF CreateAuction
  <2>2. ASSUME NEW id \in Ids, NEW b \in Bidders, NEW n \in Bids,
               PlaceBid(id, b, n) \/ BuyDutch(id, b, n) \/ RevealSealedBid(id, b, n)
        PROVE  now' = now
    <3>1. CASE PlaceBid(id, b, n)
      BY <3>1 DEF PlaceBid
    <3>2. CASE BuyDutch(id, b, n)
      BY <3>2 DEF BuyDutch
    <3>3. CASE RevealSealedBid(id, b, n)
      BY <3>3 DEF RevealSealedBid
    <3> QED BY <2>2, <3>1, <3>2, <3>3
  <2>3. ASSUME NEW id \in Ids, NEW b \in Bidders, SubmitSealedBid(id, b) PROVE now' = now
    BY <2>3 DEF SubmitSealedBid
  <2>4. ASSUME NEW id \in Ids, SettleAuction(id) PROVE now' = now
    BY <2>4 DEF SettleAuction
  <2>5. ASSUME NEW i \in Item, NEW a \in Addr, GiveItem(i, a) PROVE now' = now
    BY <2>5 DEF GiveItem
  <2>6. CASE Tick
    BY <2>6 DEF Tick
  <2> QED BY <1>1, <2>1, <2>2, <2>3, <2>4, <2>5, <2>6 DEF Next
<1>2. CASE Crowdfund!Next
  <2>1. now' = now \/ Crowdfund!Tick
    BY <1>2 DEF Crowdfund!Next, Crowdfund!Initialize, Crowdfund!CreateCampaign, Crowdfund!Refund,
       Crowdfund!Contribute, Crowdfund!ApproveMilestone, Crowdfund!ClaimMilestone,
       Crowdfund!GetCampaign
  <2> QED BY <2>1 DEF Crowdfund!Tick
<1>3. CASE Insurance!Next
  <2>1. now' = now \/ Insurance!Tick
    BY <1>3 DEF Insurance!Next, Insurance!Initialize, Insurance!PurchaseCoverage,
       Insurance!RenewCoverage, Insurance!CancelCoverage, Insurance!SubmitClaim,
       Insurance!ReviewClaim, Insurance!ProcessPayout, Insurance!AddToPool,
       Insurance!WithdrawFromPool, Insurance!UpdateReserves, Insurance!EmergencyWithdraw,
       Insurance!SetRiskLevel, Insurance!UpdateConfig
  <2> QED BY <2>1 DEF Insurance!Tick
<1> QED BY <1>1, <1>2, <1>3 DEF MCNext, Everything

\* Each contract's state is right whichever of them runs.
CustodyInv == AuctionInv /\ Accounted /\ FundInv /\ PoolInv

\* At first, when nothing is owed.
LEMMA CustodyAtFirst ==
  MCInit => CustodyInv /\ C!Init /\ Crowdfund!C!Init /\ Insurance!C!Init
<1> SUFFICES ASSUME MCInit
             PROVE  CustodyInv /\ C!Init /\ Crowdfund!C!Init /\ Insurance!C!Init
  OBVIOUS
<1>1. Init /\ Crowdfund!Init /\ Insurance!Init
  BY DEF MCInit
<1> QED BY <1>1, AccountedAtFirst, AuctionCustodyInit, FundAtFirst, FundCustodyInit, PoolAtFirst,
           PoolCustodyInit DEF CustodyInv

\* A step of one contract leaves the other two right.
LEMMA CustodyStep ==
  ASSUME CustodyInv, [MCNext]_Everything
  PROVE  CustodyInv'
<1>1. AuctionInv /\ Accounted /\ FundInv /\ PoolInv
  BY DEF CustodyInv
<1>2. now \in Nat /\ now' \in Nat /\ now' >= now
  BY <1>1, Clock DEF PoolInv
<1>3. AuctionInv' /\ Accounted'
  <2>1. CASE Next
    BY <1>1, <2>1, AuctionStep, AccountedStep
  <2>2. CASE UNCHANGED auctionVars
    BY <1>1, <1>2, <2>2 DEF auctionVars, AuctionInv, AuctionTypes, Accounted, Paid, Earned
  <2> QED BY <2>1, <2>2 DEF MCNext, Everything
<1>4. FundInv'
  <2>1. CASE Crowdfund!Next
    BY <1>1, <2>1, FundStep
  <2>2. CASE UNCHANGED fundVars
    <3>1. ASSUME NEW id \in Crowdfund!Ids, campaign[id].exists
          PROVE  Sound(campaign[id], now')
      <4>1. Sound(campaign[id], now)
        BY <1>1, <3>1 DEF FundInv
      <4>2. campaign[id].deadline \in Nat
        BY <4>1 DEF Sound, Campaign
      <4> QED BY <1>2, <4>1, <4>2 DEF Sound
    <3> QED BY <1>1, <1>2, <2>2, <3>1 DEF fundVars, FundInv
  <2> QED BY <2>1, <2>2 DEF MCNext, Everything
<1>5. PoolInv'
  <2>1. CASE Insurance!Next
    BY <1>1, <2>1, PoolStep
  <2>2. CASE UNCHANGED poolVars
    <3>1. PoolTypes'
      BY <1>1, <2>2 DEF poolVars, PoolInv, PoolTypes
    <3>2. ASSUME NEW e \in Covered, policy[e] # None PROVE policy[e].start_time <= now'
      <4>1. policy[e].start_time <= now /\ policy[e] \in Policy
        BY <1>1, <3>2 DEF PoolInv, PoolTypes
      <4> QED BY <1>2, <4>1 DEF Policy
    <3> QED BY <1>1, <1>2, <2>2, <3>1, <3>2 DEF poolVars, PoolInv
  <2> QED BY <2>1, <2>2 DEF MCNext, Everything
<1> QED BY <1>3, <1>4, <1>5 DEF CustodyInv

\* Each step of each contract is a step of its custodian.
LEMMA CustodySteps ==
  ASSUME CustodyInv, [MCNext]_Everything
  PROVE  /\ C!Next \/ UNCHANGED <<AuctionPool, AuctionOwed>>
         /\ Crowdfund!C!Next \/ UNCHANGED <<FundPool, FundOwed>>
         /\ Insurance!C!Next
<1>1. AuctionInv /\ FundInv /\ PoolInv /\ PoolInv'
  BY CustodyStep DEF CustodyInv
<1>2. C!Next \/ UNCHANGED <<AuctionPool, AuctionOwed>>
  <2>1. CASE Next
    BY <1>1, <2>1, AuctionCustodyStep
  <2>2. CASE UNCHANGED auctionVars
    BY <2>2 DEF auctionVars, AuctionPool, AuctionOwed, Held
  <2> QED BY <2>1, <2>2 DEF MCNext, Everything
<1>3. Crowdfund!C!Next \/ UNCHANGED <<FundPool, FundOwed>>
  <2>1. CASE Crowdfund!Next
    BY <1>1, <2>1, FundCustodyStep
  <2>2. CASE UNCHANGED fundVars
    BY <2>2 DEF fundVars, FundPool, FundOwed, Crowdfund!Available
  <2> QED BY <2>1, <2>2 DEF MCNext, Everything
<1> QED BY <1>1, <1>2, <1>3, PoolCustodyStep

\* The invariant of all three holds throughout.
LEMMA CustodyHolds == MCSpec => []CustodyInv
<1>1. MCInit => CustodyInv
  BY CustodyAtFirst
<1>2. CustodyInv /\ [MCNext]_Everything => CustodyInv'
  BY CustodyStep
<1> QED BY <1>1, <1>2, PTL DEF MCSpec, Everything

\* auction: whatever is bid, outbid, revealed and settled over any auctions,
\* every account has what it started with, less the bids with which it leads
\* or won, plus the winning bids of what it sold.
THEOREM WinnersOnlyPay == MCSpec => []OnlyWinnersPay
<1>1. CustodyInv => OnlyWinnersPay
  BY WinnersPay DEF CustodyInv
<1> QED BY <1>1, CustodyHolds, PTL

\* The invariant of the tips or the hints, whichever runs, holds throughout.
TradeInv ==
  /\ contract = "social_tipping" => TipInv
  /\ contract = "hint_marketplace" => MarketInv

LEMMA TradesHold == MCSpec => []TradeInv
<1>1. MCInit => TradeInv
  BY SocialTippingInit, HintMarketplaceInit DEF MCInit, TradeInv
<1>2. TradeInv /\ [MCNext]_Everything => TradeInv'
  <2> SUFFICES ASSUME TradeInv, [MCNext]_Everything PROVE TradeInv'
    OBVIOUS
  <2>1. contract' = contract
    BY DEF MCNext, Everything
  <2>2. \/ contract = "social_tipping" /\ SocialTipping!Next
        \/ contract = "hint_marketplace" /\ HintMarketplace!Next
        \/ UNCHANGED tradeVars
    BY DEF MCNext, TradesNext, Everything
  <2>3. UNCHANGED tradeVars => UNCHANGED SocialTipping!vars /\ UNCHANGED HintMarketplace!vars
    BY DEF tradeVars, SocialTipping!vars, HintMarketplace!vars
  <2>4. CASE contract = "social_tipping"
    BY <2>1, <2>2, <2>3, <2>4, SocialTippingStep, SocialTippingStays DEF TradeInv
  <2>5. CASE contract = "hint_marketplace"
    BY <2>1, <2>2, <2>3, <2>5, HintMarketplaceStep, HintMarketplaceStays DEF TradeInv
  <2> QED BY <2>1, <2>4, <2>5 DEF TradeInv
<1> QED BY <1>1, <1>2, PTL DEF MCSpec, Everything

\* social_tipping, hint_marketplace: totals, counts and leaderboards are those
\* of the tips given, within the limits; demand and quality of a hint are those
\* of its sales and ratings, and the prices kept of it are prices of its sales,
\* for any users, amounts and configurations.
THEOREM TradesAreBooked == MCSpec => []TradesBooked
<1>1. TradeInv => TradesBooked
  BY SocialTippingSays, HintMarketplaceSays DEF TradeInv, TradesBooked
<1> QED BY <1>1, TradesHold, PTL

\* puzzle_crowdfund: a campaign never both pays milestones and refunds, and its
\* totals are the sums over its backers and milestones, for any plans; with it,
\* what is kept of the tips and of the sales adds up.
THEOREM BooksOfCampaigns == MCSpec => []AllBooks
<1>1. CustodyInv => CampaignBooks
  BY BooksInOrder DEF CustodyInv
<1>2. CampaignBooks /\ TradesBooked => AllBooks
  BY DEF AllBooks
<1> QED BY <1>1, <1>2, CustodyHolds, TradesAreBooked, PTL

\* insurance_pool: a claim is decided once and paid once, within the claim and
\* with what was approved, and the pool shrinks only for a claim, for the
\* cancellation of a policy or for the administrator.
THEOREM OnePayoutPerClaim == MCSpec => ClaimsPaidOnce
<1>1. CustodyInv /\ [MCNext]_Everything => ClaimStep
  <2> SUFFICES ASSUME CustodyInv, [MCNext]_Everything PROVE ClaimStep
    OBVIOUS
  <2>1. CASE Insurance!Next
    BY <2>1, PoolStep DEF CustodyInv
  <2>2. CASE UNCHANGED poolVars
    <3>1. pool \in Nat /\ claim \in Seq(Claim)
      BY DEF CustodyInv, PoolInv, PoolTypes
    <3> QED BY <2>2, <3>1 DEF poolVars, ClaimStep
  <2> QED BY <2>1, <2>2 DEF MCNext, Everything
<1>2. CustodyInv /\ [MCNext]_Everything => [ClaimStep]_(Insurance!vars)
  BY <1>1
<1> QED BY <1>2, CustodyHolds, PTL
    DEF MCSpec, Everything, ClaimsPaidOnce, Insurance!ClaimsPaidOnce, ClaimStep, Insurance!vars

\* The auctions, the campaigns and the insurance pool are custodians: each
\* takes on what it owes only with the tokens for it, and pays out no more
\* than what it no longer owes.
THEOREM ThreeCustodians == MCSpec => AllCustodians
<1>1. MCInit => C!Init /\ Crowdfund!C!Init /\ Insurance!C!Init
  BY CustodyAtFirst
<1>2. CustodyInv /\ [MCNext]_Everything => [C!Next]_<<AuctionPool, AuctionOwed>>
  BY CustodySteps
<1>3. CustodyInv /\ [MCNext]_Everything => [Crowdfund!C!Next]_<<FundPool, FundOwed>>
  BY CustodySteps
<1>4. CustodyInv /\ [MCNext]_Everything => [Insurance!C!Next]_<<PoolPool, PoolOwed>>
  BY CustodySteps
<1>5. MCSpec => Custodian
  BY <1>1, <1>2, CustodyHolds, PTL
  DEF MCSpec, Everything, Custodian, C!Spec, C!vars, AuctionPool, AuctionOwed
<1>6. MCSpec => Crowdfund!Custodian
  BY <1>1, <1>3, CustodyHolds, PTL
  DEF MCSpec, Everything, Crowdfund!Custodian, Crowdfund!C!Spec, Crowdfund!C!vars, FundPool, FundOwed
<1>7. MCSpec => Insurance!Custodian
  BY <1>1, <1>4, CustodyHolds, PTL
  DEF MCSpec, Everything, Insurance!Custodian, Insurance!C!Spec, Insurance!C!vars, PoolPool, PoolOwed
<1> QED BY <1>5, <1>6, <1>7 DEF AllCustodians
=============================================================================
