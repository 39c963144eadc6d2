------------------------------ MODULE Auction ------------------------------
(***************************************************************************)
(* The auctions (contracts/auction): English auctions, whose bids are held *)
(* by the contract and given back when they are outbid; Dutch auctions,    *)
(* whose price falls until somebody buys; sealed-bid auctions, in which a  *)
(* bid is paid when it is revealed.                                        *)
(*                                                                         *)
(* As in MultisigEscrow a call is one action and its error paths are its   *)
(* guards.  The lists of bids and the analytics are written and never      *)
(* read, and left out; so are the hashes of sealed bids, which the         *)
(* contract stores and does not compare.                                   *)
(***************************************************************************)
EXTENDS Integers, Sequences, FiniteSets, TokenUnits

CONSTANTS
  Addr,          \* accounts
  Self,          \* the address of the contract
  None,          \* no bidder
  Token,         \* token contracts
  Item,          \* NFTs
  Bidders,       \* the accounts that bid
  Lots,          \* the arguments that create_auction is called with
  Bids,          \* the amounts that are bid
  InitBalance,   \* what every bidder has of every token at the start
  Extension,     \* the five minutes by which a late bid extends an auction
  MaxAuctions,   \* bound on the number of auctions
  MaxTime        \* bound on the ledger timestamp

Account == Addr \cup {Self}
Ids == 1 .. MaxAuctions
AuctionType == {"English", "Dutch", "SealedBid"}

VARIABLES
  now,       \* ledger timestamp
  bal,       \* token balances, kept by the token contracts
  holder,    \* the holders of the NFTs, kept by the NFT contracts
  count,     \* DataKey::AuctionCount
  auction,   \* DataKey::Auction(id)
  sealed     \* DataKey::SealedBids(id): bidder -> "no", "sealed" or "revealed"

vars == <<now, bal, holder, count, auction, sealed>>

NoAuction == [exists |-> FALSE, settled |-> TRUE, highest_bidder |-> None, current_bid |-> 0]

FirstBalance(a) == IF a \in Bidders THEN InitBalance ELSE 0

Init ==
  /\ now = 0
  /\ bal = [t \in Token |-> [a \in Account |-> FirstBalance(a)]]
  /\ holder \in [Item -> Addr \ Bidders]
  /\ count = 0
  /\ auction = [id \in Ids |-> NoAuction]
  /\ sealed = [id \in Ids |-> [b \in Bidders |-> "no"]]

\* token::Client::transfer, on the balances b of one token
Move(b, from, to, amount) ==
  LET less == [b EXCEPT ![from] = @ - amount] IN [less EXCEPT ![to] = @ + amount]

\* create_auction, called by the seller
CreateAuction(lot) ==
  /\ count < MaxAuctions
  /\ lot.settings.end_time > lot.settings.start_time
  /\ count' = count + 1
  /\ auction' = [auction EXCEPT ![count + 1] =
       [exists |-> TRUE, seller |-> lot.seller, item |-> lot.item, token |-> lot.token,
        auction_type |-> lot.auction_type, settings |-> lot.settings,
        highest_bidder |-> None, current_bid |-> 0, settled |-> FALSE]]
  /\ UNCHANGED <<now, bal, holder, sealed>>

\* Mutated form: the previous bid stays with the contract.
TakeOverOnly(id, bidder, amount) ==
  LET a == auction[id]
  IN /\ amount >= 0 /\ bal[a.token][bidder] >= amount
     /\ bal' = [bal EXCEPT ![a.token] = Move(@, bidder, Self, amount)]

\* A bid takes the place of the highest one: the previous bidder is paid back
\* before the new one pays.
TakeOver(id, bidder, amount) ==
  LET a == auction[id]
      refunded == IF a.highest_bidder = None THEN bal[a.token]
                  ELSE Move(bal[a.token], Self, a.highest_bidder, a.current_bid)
  IN /\ a.highest_bidder # None => bal[a.token][Self] >= a.current_bid
     /\ amount >= 0 /\ refunded[bidder] >= amount
     /\ bal' = [bal EXCEPT ![a.token] = Move(refunded, bidder, Self, amount)]

\* place_bid, called by the bidder
PlaceBid(id, bidder, amount) ==
  LET a == auction[id]
      s == a.settings
  IN /\ a.exists /\ a.auction_type = "English" /\ ~a.settled
     /\ now \in s.start_time .. s.end_time
     /\ amount >= IF a.highest_bidder = None THEN s.starting_price
                  ELSE a.current_bid + s.min_bid_increment
     /\ TakeOver(id, bidder, amount)
     /\ auction' = [auction EXCEPT
          ![id].settings.end_time = IF @ - now < Extension THEN now + Extension ELSE @,
          ![id].highest_bidder = bidder,
          ![id].current_bid = amount]
     /\ UNCHANGED <<now, holder, count, sealed>>

\* calculate_dutch_price, for a reserve price below the starting price
DutchPrice(s) ==
  IF now <= s.start_time THEN s.starting_price
  ELSE IF now >= s.end_time THEN s.reserve_price
  ELSE s.starting_price - ((s.starting_price - s.reserve_price) * (now - s.start_time))
                            \div (s.end_time - s.start_time)

\* buy_dutch, called by the buyer, at any time; the payment stays with the contract
BuyDutch(id, buyer, max_amount) ==
  LET a == auction[id]
      price == DutchPrice(a.settings)
  IN /\ a.exists /\ a.auction_type = "Dutch" /\ ~a.settled
     /\ price \in 0 .. max_amount
     /\ bal[a.token][buyer] >= price
     /\ bal' = [bal EXCEPT ![a.token] = Move(@, buyer, Self, price)]
     /\ auction' = [auction EXCEPT ![id].highest_bidder = buyer, ![id].current_bid = price,
                                   ![id].settled = TRUE]
     /\ UNCHANGED <<now, holder, count, sealed>>

\* submit_sealed_bid, called by the bidder, once
SubmitSealedBid(id, bidder) ==
  LET a == auction[id]
  IN /\ a.exists /\ a.auction_type = "SealedBid" /\ ~a.settled
     /\ now \in a.settings.start_time .. a.settings.end_time
     /\ sealed[id][bidder] = "no"
     /\ sealed' = [sealed EXCEPT ![id][bidder] = "sealed"]
     /\ UNCHANGED <<now, bal, holder, count, auction>>

\* reveal_sealed_bid, called by the bidder
RevealSealedBid(id, bidder, amount) ==
  LET a == auction[id]
      wins == amount > a.current_bid /\ amount >= a.settings.reserve_price
  IN /\ a.exists /\ a.auction_type = "SealedBid" /\ ~a.settled
     /\ now \in a.settings.end_time .. a.settings.reveal_end_time
     /\ sealed[id][bidder] = "sealed"
     /\ sealed' = [sealed EXCEPT ![id][bidder] = "revealed"]
     /\ \/ /\ wins
           /\ TakeOver(id, bidder, amount)
           /\ auction' = [auction EXCEPT ![id].highest_bidder = bidder,
                                         ![id].current_bid = amount]
        \/ /\ ~wins
           /\ UNCHANGED <<bal, auction>>
     /\ UNCHANGED <<now, holder, count>>

\* settle_auction, called by anybody; a Dutch auction without a buyer at any
\* time.  The NFT contract lets the item go only if the seller still holds it.
\* Bids that were not revealed have no amount to give back.
SettleAuction(id) ==
  LET a == auction[id]
      won == a.highest_bidder # None
  IN /\ a.exists /\ ~a.settled
     /\ a.auction_type = "English" => now >= a.settings.end_time
     /\ a.auction_type = "SealedBid" => now >= a.settings.reveal_end_time
     /\ won => bal[a.token][Self] >= a.current_bid /\ holder[a.item] = a.seller
     /\ bal' = IF won THEN [bal EXCEPT ![a.token] = Move(@, Self, a.seller, a.current_bid)]
               ELSE bal
     /\ holder' = IF won THEN [holder EXCEPT ![a.item] = a.highest_bidder] ELSE holder
     /\ auction' = [auction EXCEPT ![id].settled = TRUE]
     /\ UNCHANGED <<now, count, sealed>>

\* An item changes hands outside of the auctions.
GiveItem(i, a) ==
  /\ holder' = [holder EXCEPT ![i] = a]
  /\ UNCHANGED <<now, bal, count, auction, sealed>>

Tick ==
  /\ now < MaxTime
  /\ now' = now + 1
  /\ UNCHANGED <<bal, holder, count, auction, sealed>>

Next ==
  \/ \E lot \in Lots : CreateAuction(lot)
  \/ \E id \in Ids, b \in Bidders :
       \/ \E n \in Bids : PlaceBid(id, b, n) \/ BuyDutch(id, b, n) \/ RevealSealedBid(id, b, n)
       \/ SubmitSealedBid(id, b)
  \/ \E id \in Ids : SettleAuction(id)
  \/ \E i \in Item, a \in Addr : GiveItem(i, a)
  \/ Tick

Spec == Init /\ [][Next]_vars

-----------------------------------------------------------------------------
\* What the contract holds for an auction: the highest bid until it is paid
\* to the seller; the price of a Dutch sale for good.
Held(id) ==
  LET a == auction[id]
  IN IF a.highest_bidder # None /\ (~a.settled \/ a.auction_type = "Dutch")
       THEN a.current_bid ELSE 0

C == INSTANCE Custody WITH
       Slot <- Ids,
       pool <- [t \in Token |-> bal[t][Self]],
       owed <- [t \in Token |-> [id \in Ids |->
                  IF auction[id].exists /\ auction[id].token = t THEN Held(id) ELSE 0]]

\* The auctions keep custody of the bids: every step of the contract is a
\* deposit or a discharge of Custody, or a stutter.
Custodian == C!Spec

\* Nobody pays but the highest bidders, each once and exactly its bid: after
\* any sequence of bids over several auctions an account has what it started
\* with, less its standing and winning bids, plus the winning bids of the
\* auctions it sold.  Everybody who was outbid has been paid back.
OnlyWinnersPay ==
  \A t \in Token, a \in Addr :
    LET of == {id \in Ids : auction[id].exists /\ auction[id].token = t
                              /\ auction[id].highest_bidder # None}
        bids(S) == Total([id \in S |-> auction[id].current_bid])
    IN bal[t][a] = FirstBalance(a) - bids({id \in of : auction[id].highest_bidder = a})
                   + bids({id \in of : auction[id].seller = a /\ Held(id) = 0})

\* What the doc of settle_auction says of an auction that ends with a winner:
\* the money goes to the seller, the item to the winner.
SaleCompleted ==
  [][\A id \in Ids :
       auction[id].exists /\ ~auction[id].settled /\ auction'[id].settled
         /\ auction'[id].highest_bidder # None
       => /\ bal'[auction[id].token][auction[id].seller] =
               bal[auction[id].token][auction[id].seller] + auction'[id].current_bid
          /\ holder'[auction[id].item] = auction'[id].highest_bidder]_vars

=============================================================================
