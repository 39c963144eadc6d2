---------------------------- MODULE PuzzleRental ----------------------------
(***************************************************************************)
(* Rentals of puzzles (contracts/puzzle_rental): owners list NFTs, renters *)
(* pay for periods in advance, and the contract keeps the payment until    *)
(* the rental expires or is terminated.                                    *)
(*                                                                         *)
(* A call is one action and its error paths are its guards: that a rental  *)
(* is found to be over when it is extended or terminated is undone by the  *)
(* panic that follows.  The NFTs themselves are not moved, one can be      *)
(* rented to many.  Nothing waits for the initialization, which starts the *)
(* numbering again when it comes late: new listings and rentals then take  *)
(* the place of old ones, and an extension is paid in the token of the     *)
(* listing that is there now, a payout in the token of the rental.         *)
(*                                                                         *)
(* Two variables are there for the properties alone: whether the numbering *)
(* started again, and what extensions paid in another token than the one   *)
(* their rental pays out.                                                  *)
(***************************************************************************)
EXTENDS Integers, Sequences, FiniteSets, TokenUnits

CONSTANTS
  Users, Self, None,
  Listings,                  \* what create_listing is called with
  Coins,                     \* the payment tokens
  InitBalance,               \* what each user has of each token
  MaxListings, MaxRentals, MaxTime   \* bounds

VARIABLES
  now,               \* ledger timestamp
  bal,               \* balances of each token
  initialized,       \* whether DataKey::Admin is there
  listing,           \* DataKey::Listing(id)
  next_listing,      \* DataKey::NextListingId
  active_listings,   \* DataKey::ActiveListings
  owner_listings,    \* DataKey::OwnerListings(owner)
  rental,            \* DataKey::Rental(id)
  next_rental,       \* DataKey::NextRentalId
  renter_rentals,    \* DataKey::RenterRentals(renter)
  history,           \* DataKey::RentalHistory(id)
  late,              \* whether initialize came after a listing
  strayed            \* what rentals of a token count that was paid in another one

vars == <<now, bal, initialized, listing, next_listing, active_listings, owner_listings, rental,
          next_rental, renter_rentals, history, late, strayed>>
market == <<listing, next_listing, active_listings, owner_listings>>
rentals == <<rental, next_rental, renter_rentals, history>>

Init ==
  /\ now = 0
  /\ bal = [t \in Coins |-> [a \in Users \cup {Self} |-> IF a = Self THEN 0 ELSE InitBalance]]
  /\ initialized = FALSE
  /\ late = FALSE /\ strayed = [t \in Coins |-> 0]
  /\ listing = [i \in 1 .. MaxListings |-> None] /\ next_listing = 1
  /\ active_listings = {}
  /\ owner_listings = [u \in Users |-> {}]
  /\ rental = [i \in 1 .. MaxRentals |-> None] /\ next_rental = 1
  /\ renter_rentals = [u \in Users |-> {}]
  /\ history = [i \in 1 .. MaxRentals |-> None]

Initialize ==
  /\ ~initialized
  /\ initialized' = TRUE
  /\ next_listing' = 1 /\ next_rental' = 1
  /\ active_listings' = {}
  /\ late' = (next_listing > 1)
  /\ UNCHANGED <<now, bal, listing, owner_listings, rental, renter_rentals, history, strayed>>

-----------------------------------------------------------------------------
(***************************************************************************)
(* Listings.                                                               *)
(***************************************************************************)
CreateListing(u, l) ==
  /\ next_listing <= MaxListings
  /\ listing' = [listing EXCEPT ![next_listing] =
       [owner |-> u, nft |-> l.nft, token |-> l.token, price_per_period |-> l.price,
        period_duration |-> l.period, max_periods |-> l.max_periods,
        allow_extensions |-> l.extensions, refund_pct |-> l.refund_pct, status |-> "Active"]]
  /\ owner_listings' = [owner_listings EXCEPT ![u] = @ \cup {next_listing}]
  /\ active_listings' = active_listings \cup {next_listing}
  /\ next_listing' = next_listing + 1
  /\ UNCHANGED <<now, bal, initialized, rentals, late, strayed>>

CancelListing(i) ==
  /\ listing[i] # None
  /\ listing' = [listing EXCEPT ![i].status = "Cancelled"]
  /\ active_listings' = active_listings \ {i}
  /\ UNCHANGED <<now, bal, initialized, next_listing, owner_listings, rentals, late, strayed>>

-----------------------------------------------------------------------------
(***************************************************************************)
(* Rentals.                                                                *)
(***************************************************************************)
\* Of token t, from a renter to the contract, and back to an owner and a renter.
Pay(t, renter, n) ==
  /\ bal[t][renter] >= n
  /\ bal' = [bal EXCEPT ![t][renter] = @ - n, ![t][Self] = @ + n]

Disburse(t, owner, n, renter, m) ==
  /\ bal[t][Self] >= n + m
  /\ bal' = [bal EXCEPT ![t] =
       [bal[t] EXCEPT ![Self] = @ - n - m, ![owner] = @ + n, ![renter] = @ + m]]

Rent(u, i, periods) ==
  LET l == listing[i]
      cost == l.price_per_period * periods
  IN /\ next_rental <= MaxRentals
     /\ l # None
     /\ l.status = "Active"
     /\ periods <= l.max_periods
     /\ l.owner # u
     /\ Pay(l.token, u, cost)
     /\ rental' = [rental EXCEPT ![next_rental] =
          [listing |-> i, nft |-> l.nft, owner |-> l.owner, renter |-> u, token |-> l.token,
           total_paid |-> cost, periods |-> periods, start_time |-> now, end_time |-> now + l.period_duration * periods,
           refund_pct |-> l.refund_pct, status |-> "Active"]]
     /\ renter_rentals' = [renter_rentals EXCEPT ![u] = @ \cup {next_rental}]
     /\ next_rental' = next_rental + 1
     /\ UNCHANGED <<now, initialized, market, history, late, strayed>>

\* A rental that is not over: auto_expire_if_needed finds it active.
Running(i) == rental[i].status = "Active" /\ now < rental[i].end_time

ExtendRental(i, periods) ==
  LET r == rental[i]
      l == listing[r.listing]
      cost == l.price_per_period * periods
  IN /\ r # None
     /\ Running(i)
     /\ l.allow_extensions
     /\ r.periods + periods <= l.max_periods
     /\ Pay(l.token, r.renter, cost)
     /\ strayed' = IF l.token = r.token THEN strayed
                   ELSE [strayed EXCEPT ![r.token] = @ + cost]
     /\ rental' = [rental EXCEPT ![i] =
          [r EXCEPT !.end_time = @ + l.period_duration * periods,
                    !.total_paid = @ + cost, !.periods = @ + periods]]
     /\ UNCHANGED <<now, initialized, market, next_rental, renter_rentals, history, late>>

\* archive_rental
Archive(i, status) ==
  history' = [history EXCEPT ![i] = [total_paid |-> rental[i].total_paid, final_status |-> status]]

\* The refund for the time left of a running rental.
Refund(r) ==
  LET raw == (r.total_paid * (r.end_time - now)) \div (r.end_time - r.start_time)
  IN (raw * r.refund_pct) \div 100

\* Mutated form: the refund is not taken from the owner's share.
OwnerShareWhole(r) == r.total_paid

OwnerShare(r) == r.total_paid - Refund(r)

TerminateRental(i) ==
  LET r == rental[i]
  IN /\ r # None
     /\ Running(i)
     /\ Disburse(r.token, r.owner, OwnerShare(r), r.renter, Refund(r))
     /\ rental' = [rental EXCEPT ![i].status = "Terminated"]
     /\ Archive(i, "Terminated")
     /\ UNCHANGED <<now, initialized, market, next_rental, renter_rentals, late, strayed>>

\* expire_rental, by anybody
ExpireRental(i) ==
  LET r == rental[i]
  IN /\ r # None
     /\ r.status = "Active" /\ now >= r.end_time
     /\ Disburse(r.token, r.owner, r.total_paid, r.renter, 0)
     /\ rental' = [rental EXCEPT ![i].status = "Expired"]
     /\ Archive(i, "Expired")
     /\ UNCHANGED <<now, initialized, market, next_rental, renter_rentals, late, strayed>>

\* has_access, which looks at the rentals listed for u
HasAccess(u, nft) ==
  \E i \in renter_rentals[u] : Running(i) /\ rental[i].nft = nft

Tick ==
  /\ now < MaxTime
  /\ now' = now + 1
  /\ UNCHANGED <<bal, initialized, market, rentals, late, strayed>>

Next ==
  \/ Initialize
  \/ \E u \in Users, l \in Listings : CreateListing(u, l)
  \/ \E i \in DOMAIN listing : CancelListing(i)
  \/ \E u \in Users, i \in DOMAIN listing, n \in 1 .. 2 : Rent(u, i, n)
  \/ \E i \in DOMAIN rental : ExtendRental(i, 1) \/ TerminateRental(i) \/ ExpireRental(i)
  \/ Tick

Spec == Init /\ [][Next]_vars

-----------------------------------------------------------------------------
\* What the running rentals of a token count as paid is there in that token,
\* but for what an extension paid in another one, after the listing was
\* replaced: that is taken from what others paid, and it takes a late
\* initialize.  Of the rentals that are stored (a late initialize has new ones
\* written over them), one that ended is archived as it ended, and the renter
\* of one that runs has access until its end, whatever happens to the listing.
RentalsBacked ==
  LET there == {i \in DOMAIN rental : rental[i] # None}
      open == {i \in there : rental[i].status = "Active"}
      of(t) == {i \in open : rental[i].token = t}
  IN /\ \A t \in Coins :
          /\ bal[t][Self] + strayed[t] >= Total([i \in of(t) |-> rental[i].total_paid])
          /\ ~late => strayed[t] = 0
     /\ \A i \in there \ open :
          history[i] = [total_paid |-> rental[i].total_paid, final_status |-> rental[i].status]
     /\ \A i \in open : Running(i) => HasAccess(rental[i].renter, rental[i].nft)
     /\ \A i \in active_listings : listing[i].status = "Active"

=============================================================================
