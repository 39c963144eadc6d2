--------------------------- MODULE HintMarketplace ---------------------------
(***************************************************************************)
(* The market of puzzle hints (contracts/hint_marketplace): creators write *)
(* hints, owners list them for a time at a price that depends on quality   *)
(* and demand, players buy them alone or in packs and rate them.           *)
(*                                                                         *)
(* A call is one action and its error paths are its guards: buying an      *)
(* overdue listing stores Expired and panics, which undoes it.  Init is    *)
(* the state initialize leaves: hints written before it would be           *)
(* overwritten, because it sets the counters.  There is one payment token, *)
(* views are never counted by the code and so stay 0, and the lists of     *)
(* listings by hint, seller and puzzle only repeat the listings.           *)
(***************************************************************************)
EXTENDS Integers, Sequences, FiniteSets, TokenUnits

CONSTANTS
  Users, Self, None,
  Configs,                     \* what initialize and update_config store
  Qualities,                   \* the quality a hint is created with, of 1 .. 5
  BasePrices, Durations, Royalties,   \* of listings
  PackPrices, Expirations,     \* of packs; an expiration can be None
  Ratings,                     \* the ratings given, of 1 .. 5
  HISTORY,                     \* how many prices are kept
  MaxPackHints,                \* bound of the hints of a pack
  InitBalance,                 \* what each user has of the token
  MaxHints, MaxListings, MaxPacks, MaxSales, MaxTime   \* bounds

VARIABLES
  now,               \* ledger timestamp
  bal,               \* balances of the payment token
  config,            \* DataKey::Config
  hint,              \* DataKey::Hint(id), ids from 1 on
  metrics,           \* DataKey::DemandMetrics(id)
  price_history,     \* DataKey::PriceHistory(id)
  rating,            \* DataKey::Rating(id, rater) with RatingsByHint
  listing,           \* DataKey::Listing(id), ids from 1 on
  active_listings,   \* DataKey::ActiveListings
  pack               \* DataKey::Pack(id), ids from 1 on

vars == <<now, bal, config, hint, metrics, price_history, rating, listing, active_listings, pack>>
listings == <<listing, active_listings>>

NoMetrics == [purchases |-> 0, last_purchase_time |-> 0, average_time_to_sale |-> 0]

Init ==
  /\ now = 0
  /\ bal = [a \in Users \cup {Self} |-> IF a = Self THEN 0 ELSE InitBalance]
  /\ config \in Configs
  /\ hint = <<>> /\ metrics = <<>> /\ price_history = <<>> /\ rating = <<>>
  /\ listing = <<>> /\ active_listings = {}
  /\ pack = <<>>

UpdateConfig(c) ==
  /\ config' = c
  /\ UNCHANGED <<now, bal, hint, metrics, price_history, rating, listings, pack>>

CreateHint(u, quality) ==
  /\ Len(hint) < MaxHints
  /\ hint' = Append(hint, [creator |-> u, quality |-> quality, total_sales |-> 0,
                           total_rating |-> 0, rating_count |-> 0])
  /\ metrics' = Append(metrics, NoMetrics)
  /\ price_history' = Append(price_history, <<>>)
  /\ rating' = Append(rating, [v \in Users |-> None])
  /\ UNCHANGED <<now, bal, config, listings, pack>>

-----------------------------------------------------------------------------
(***************************************************************************)
(* Prices.                                                                 *)
(***************************************************************************)
\* The price of the hint h: its quality, what is sold of it, and the limits
\* of half and three times the base price
CalculateDynamicPrice(h, base_price) ==
  LET multiplier == <<5000, 7500, 10000, 12500, 15000>>[hint[h].quality]
      adjusted == (base_price * multiplier) \div 10000
      factor == IF metrics[h].purchases > 0 THEN 10000 + config.price_adjustment_factor ELSE 10000
      price == (adjusted * factor) \div 10000
  IN CHOOSE p \in {price, base_price \div 2, base_price * 3} :
       /\ p >= base_price \div 2 /\ p <= base_price * 3
       /\ price \in (base_price \div 2) .. (base_price * 3) => p = price
       /\ price > base_price * 3 => p = base_price * 3
       /\ price < base_price \div 2 => p = base_price \div 2

FeeOf(price) == (price * config.fee_bps) \div 10000
RoyaltyOf(price, royalty_bps) == (price * royalty_bps) \div 10000

\* calculate_payouts and the transfers: the payment of u goes on to the
\* seller, the fee recipient and the creator.  A seller's part below zero is
\* refused by the token.
Payouts(u, price, royalty_bps, seller, creator) ==
  LET fee == FeeOf(price)
      royalty == RoyaltyOf(price, royalty_bps)
      part(a) == (IF a = seller THEN price - fee - royalty ELSE 0)
               + (IF a = config.fee_recipient THEN fee ELSE 0)
               + (IF a = creator THEN royalty ELSE 0)
  IN /\ bal[u] >= price
     /\ price >= fee + royalty
     /\ bal' = [a \in DOMAIN bal |-> bal[a] - (IF a = u THEN price ELSE 0) + part(a)]

-----------------------------------------------------------------------------
(***************************************************************************)
(* Listings.                                                               *)
(***************************************************************************)
\* create_listing, by anybody, for a hint of anybody
CreateListing(u, h, base_price, duration, royalty_bps) ==
  /\ Len(listing) < MaxListings
  /\ h \in DOMAIN hint
  /\ hint[h].quality >= config.min_quality_for_listing
  /\ duration \in config.min_listing_duration .. config.max_listing_duration
  /\ listing' = Append(listing,
       [hint_id |-> h, seller |-> u, current_price |-> CalculateDynamicPrice(h, base_price),
        status |-> "Active", created_time |-> now, expiration_time |-> now + duration,
        creator |-> hint[h].creator, royalty_bps |-> royalty_bps])
  /\ active_listings' = active_listings \cup {Len(listing) + 1}
  /\ UNCHANGED <<now, bal, config, hint, metrics, price_history, rating, pack>>

\* update_demand_metrics
Sold(k, created) ==
  LET n == k.purchases + 1
  IN [purchases |-> n, last_purchase_time |-> now,
      average_time_to_sale |-> (k.average_time_to_sale * (n - 1) + (now - created)) \div n]

\* record_price_history
Recorded(prices, price) ==
  LET all == Append(prices, price)
  IN IF Len(all) > HISTORY THEN SubSeq(all, Len(all) - HISTORY + 1, Len(all)) ELSE all

Close(i, status) ==
  /\ listing' = [listing EXCEPT ![i].status = status]
  /\ active_listings' = active_listings \ {i}

\* Mutated form: a listing that was sold can be bought again.
BuyAgain(u, i) ==
  LET l == listing[i]
      h == l.hint_id
  IN /\ i \in DOMAIN listing
     /\ l.status \in {"Active", "Sold"} /\ now <= l.expiration_time
     /\ l.seller # u
     /\ hint[h].total_sales < MaxSales
     /\ Payouts(u, l.current_price, l.royalty_bps, l.seller, l.creator)
     /\ hint' = [hint EXCEPT ![h].total_sales = @ + 1]
     /\ metrics' = [metrics EXCEPT ![h] = Sold(@, l.created_time)]
     /\ Close(i, "Sold")
     /\ price_history' = [price_history EXCEPT ![h] = Recorded(@, l.current_price)]
     /\ UNCHANGED <<now, config, rating, pack>>

Buy(u, i) ==
  LET l == listing[i]
      h == l.hint_id
  IN /\ i \in DOMAIN listing
     /\ l.status = "Active" /\ now <= l.expiration_time
     /\ l.seller # u
     /\ hint[h].total_sales < MaxSales
     /\ Payouts(u, l.current_price, l.royalty_bps, l.seller, l.creator)
     /\ hint' = [hint EXCEPT ![h].total_sales = @ + 1]
     /\ metrics' = [metrics EXCEPT ![h] = Sold(@, l.created_time)]
     /\ Close(i, "Sold")
     /\ price_history' = [price_history EXCEPT ![h] = Recorded(@, l.current_price)]
     /\ UNCHANGED <<now, config, rating, pack>>

CancelListing(i) ==
  /\ i \in DOMAIN listing
  /\ listing[i].status = "Active"
  /\ Close(i, "Cancelled")
  /\ UNCHANGED <<now, bal, config, hint, metrics, price_history, rating, pack>>

\* expire_listings, which skips what it cannot expire
ExpireListings(ids) ==
  LET over == {i \in ids \cap DOMAIN listing :
                 listing[i].status = "Active" /\ now > listing[i].expiration_time}
  IN /\ listing' = [i \in DOMAIN listing |->
                      IF i \in over THEN [listing[i] EXCEPT !.status = "Expired"] ELSE listing[i]]
     /\ active_listings' = active_listings \ over
     /\ UNCHANGED <<now, bal, config, hint, metrics, price_history, rating, pack>>

-----------------------------------------------------------------------------
(***************************************************************************)
(* Ratings and packs.                                                      *)
(***************************************************************************)
\* rate_hint, by anybody, who need not have bought the hint
RateHint(u, h, n) ==
  LET total == hint[h].total_rating + n
      count == hint[h].rating_count + 1
  IN /\ h \in DOMAIN hint
     /\ rating[h][u] = None
     /\ rating' = [rating EXCEPT ![h][u] = n]
     /\ hint' = [hint EXCEPT ![h] = [@ EXCEPT !.total_rating = total, !.rating_count = count,
                                              !.quality = total \div count]]
     /\ UNCHANGED <<now, bal, config, metrics, price_history, listings, pack>>

PackIds == UNION {[1 .. n -> DOMAIN hint] : n \in 1 .. MaxPackHints}

\* create_pack: a hint can be in a pack more than once
CreatePack(u, ids, price, expiration) ==
  /\ Len(pack) < MaxPacks
  /\ \A k \in DOMAIN ids : hint[ids[k]].creator = u
  /\ pack' = Append(pack, [hint_ids |-> ids, pack_price |-> price, creator |-> u,
                           expiration_time |-> expiration])
  /\ UNCHANGED <<now, bal, config, hint, metrics, price_history, rating, listings>>

\* buy_pack, which has no part in the demand metrics
BuyPack(u, i) ==
  LET p == pack[i]
      times(h) == Cardinality({k \in DOMAIN p.hint_ids : p.hint_ids[k] = h})
  IN /\ i \in DOMAIN pack
     /\ p.expiration_time # None => now <= p.expiration_time
     /\ \A h \in DOMAIN hint : hint[h].total_sales + times(h) <= MaxSales
     /\ Payouts(u, p.pack_price, 0, p.creator, p.creator)
     /\ hint' = [h \in DOMAIN hint |-> [hint[h] EXCEPT !.total_sales = @ + times(h)]]
     /\ UNCHANGED <<now, config, metrics, price_history, rating, listings, pack>>

Tick ==
  /\ now < MaxTime
  /\ now' = now + 1
  /\ UNCHANGED <<bal, config, hint, metrics, price_history, rating, listings, pack>>

Next ==
  \/ \E c \in Configs : UpdateConfig(c)
  \/ \E u \in Users, q \in Qualities : CreateHint(u, q)
  \/ \E u \in Users, h \in DOMAIN hint :
       \/ \E b \in BasePrices, d \in Durations, r \in Royalties : CreateListing(u, h, b, d, r)
       \/ \E n \in Ratings : RateHint(u, h, n)
  \/ \E u \in Users :
       \/ \E i \in DOMAIN listing : Buy(u, i)
       \/ \E ids \in PackIds, b \in PackPrices, e \in Expirations : CreatePack(u, ids, b, e)
       \/ \E i \in DOMAIN pack : BuyPack(u, i)
  \/ \E i \in DOMAIN listing : CancelListing(i)
  \/ \E ids \in SUBSET DOMAIN listing \ {{}} : ExpireListings(ids)
  \/ Tick

Spec == Init /\ [][Next]_vars

-----------------------------------------------------------------------------
\* Every payment is passed on whole.  The demand for a hint counts its sold
\* listings; its history has an entry for each of them up to HISTORY, and every
\* entry is the price of one of them, though which ones and in what order is not
\* said.  Its quality is the average of what each rater said of it once, and the
\* active listings are those that can still be bought, cancelled or expired.
SalesAndRatings ==
  /\ bal[Self] = 0
  /\ active_listings = {i \in DOMAIN listing : listing[i].status = "Active"}
  /\ \A h \in DOMAIN hint :
       LET sold == {i \in DOMAIN listing : listing[i].hint_id = h /\ listing[i].status = "Sold"}
           raters == {u \in Users : rating[h][u] # None}
           prices == price_history[h]
       IN /\ metrics[h].purchases = Cardinality(sold)
          /\ hint[h].total_sales >= Cardinality(sold)
          /\ Len(prices) = (IF Cardinality(sold) < HISTORY THEN Cardinality(sold) ELSE HISTORY)
          /\ \A k \in DOMAIN prices : \E i \in sold : listing[i].current_price = prices[k]
          /\ hint[h].rating_count = Cardinality(raters)
          /\ raters # {} =>
               hint[h].quality = Total([u \in raters |-> rating[h][u]]) \div Cardinality(raters)
          /\ metrics[h].average_time_to_sale <= metrics[h].last_purchase_time

=============================================================================
