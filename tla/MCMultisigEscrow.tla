-------------------------- MODULE MCMultisigEscrow --------------------------
(***************************************************************************)
(* Instance of MultisigEscrow for TLC: a buyer, a seller, three signers    *)
(* and one token; the first escrow offers an even split of votes, the      *)
(* second one needs a majority.  The other offers are refused.             *)
(***************************************************************************)
EXTENDS MultisigEscrow

CONSTANTS buyer, seller, s1, s2, s3, gold

MCOffer(ben, amount, signers, threshold, arb, expires) ==
  [depositor |-> buyer, beneficiary |-> ben, token |-> gold, amount |-> amount,
   signers |-> signers, threshold |-> threshold, arbitrator |-> arb,
   expires_at |-> expires]

MCOffers ==
  { MCOffer(seller, 3, <<s1, s2>>, 1, s3, 1),
    MCOffer(seller, 2, <<s1, s2, s3>>, 2, None, 2),
    MCOffer(Self, 2, <<s1>>, 1, s2, 1),
    MCOffer(seller, 0, <<s1>>, 1, None, 1),
    MCOffer(seller, -1, <<s1>>, 1, None, 1),
    MCOffer(seller, 2, <<>>, 0, None, 1),
    MCOffer(seller, 2, <<s1, s2>>, 0, None, 1),
    MCOffer(seller, 2, <<s1, s1>>, 2, None, 1),
    MCOffer(seller, 2, <<s1, buyer>>, 1, None, 1) }
=============================================================================
