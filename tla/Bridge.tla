------------------------------- MODULE Bridge -------------------------------
(***************************************************************************)
(* The bridge to other chains (contracts/bridge): assets are locked by     *)
(* their owners under the id of a message, refunded when the message is    *)
(* cancelled, and messages of other chains are completed by validators.    *)
(*                                                                         *)
(* A call is one action and its error paths are its guards.  Hashes are    *)
(* the tuples they are made of, which need not name the sender or the NFT  *)
(* contract.  Signatures are not verified by the code: a signature is the  *)
(* name of its validator.  Recipients, the message itself and the fee,     *)
(* which is computed and not collected, are left out.                      *)
(***************************************************************************)
EXTENDS Integers, Sequences, FiniteSets, TokenUnits

CONSTANTS
  Users, Validators, Self, None,
  AssetIds,          \* ids of NFTs
  NftContracts,
  Amounts, Chains,
  MAX_VALIDATORS, MAX_CHAIN_ID, BASIS_POINTS,
  FeeRules,          \* the fees after initialize and what update_fees is called with
  InitBalance,       \* what each user has of the token
  MaxNonce, MaxTime  \* bounds

\* What is bridged: an amount of the token, or an NFT.
Assets == ({"Token"} \X Amounts) \cup ({"NFT"} \X AssetIds)

VARIABLES
  now,         \* ledger timestamp
  bal,         \* balances of the token
  config,      \* DataKey::Config
  validators,  \* DataKey::Validators
  locked,      \* DataKey::LockedAssets(message id): the owner; the asset is in the id
  status,      \* DataKey::ProcessedMessages
  nonce,       \* DataKey::UserNonces(user)
  wrapped      \* DataKey::WrappedNFTs(wrapped id)

vars == <<now, bal, config, validators, locked, status, nonce, wrapped>>

\* generate_message_id
MessageIds == (0 .. MaxTime) \X Assets \X Chains \X (1 .. MaxNonce)
MessageId(u, asset, chain) == <<now, asset, chain, nonce[u] + 1>>

\* generate_wrapped_token_id
WrappedId(token_id, chain) == <<token_id, chain, now>>

Init ==
  /\ now = 0
  /\ bal = [a \in Users \cup {Self} |-> IF a = Self THEN 0 ELSE InitBalance]
  /\ config = None
  /\ validators = {}
  /\ locked = [i \in MessageIds |-> None]
  /\ status = [i \in MessageIds |-> "none"]
  /\ nonce = [u \in Users |-> 0]
  /\ wrapped = [w \in AssetIds \X Chains \X (0 .. MaxTime) |-> None]

Transfer(from, to, n) ==
  /\ bal[from] >= n
  /\ bal' = [bal EXCEPT ![from] = @ - n, ![to] = @ + n]

-----------------------------------------------------------------------------
(***************************************************************************)
(* Administration.                                                         *)
(***************************************************************************)
Initialize(required, fees) ==
  /\ config = None
  /\ required \in 1 .. MAX_VALIDATORS
  /\ config' = [required_signatures |-> required, fees |-> fees, paused |-> FALSE]
  /\ UNCHANGED <<now, bal, validators, locked, status, nonce, wrapped>>

Initialized == config # None
Open == Initialized /\ ~config.paused

AddValidator(v) ==
  /\ Open
  /\ v \notin validators /\ Cardinality(validators) < MAX_VALIDATORS
  /\ validators' = validators \cup {v}
  /\ UNCHANGED <<now, bal, config, locked, status, nonce, wrapped>>

\* remove_validator: there may be fewer than the required signatures
RemoveValidator(v) ==
  /\ Open
  /\ v \in validators
  /\ validators' = validators \ {v}
  /\ UNCHANGED <<now, bal, config, locked, status, nonce, wrapped>>

UpdateFees(fees) ==
  /\ Initialized
  /\ config' = [config EXCEPT !.fees = fees]
  /\ UNCHANGED <<now, bal, validators, locked, status, nonce, wrapped>>

SetPaused(p) ==
  /\ Initialized
  /\ config' = [config EXCEPT !.paused = p]
  /\ UNCHANGED <<now, bal, validators, locked, status, nonce, wrapped>>

-----------------------------------------------------------------------------
(***************************************************************************)
(* Locking, completion and cancellation.                                   *)
(***************************************************************************)
Larger(a, b) == IF a > b THEN a ELSE b
Smaller(a, b) == IF a < b THEN a ELSE b

\* calculate_fee, which refuses when it cannot be at least min_fee
FeeAgreed(amount) ==
  LET f == config.fees
      fee == (amount * f.base_fee_bps) \div BASIS_POINTS
  IN Smaller(Larger(fee, f.min_fee), f.max_fee) >= f.min_fee

\* The NFT itself is not moved.
Lock(u, asset) ==
  IF asset[1] = "Token" THEN Transfer(u, Self, asset[2]) ELSE UNCHANGED bal

BridgeAssets(u, asset, chain) ==
  LET id == MessageId(u, asset, chain)
  IN /\ Open
     /\ asset[2] > 0
     /\ chain \in 1 .. MAX_CHAIN_ID
     /\ FeeAgreed(asset[2])
     /\ nonce[u] < MaxNonce
     /\ status[id] = "none"
     /\ Lock(u, asset)
     /\ locked' = [locked EXCEPT ![id] = u]
     /\ status' = [status EXCEPT ![id] = "Pending"]
     /\ nonce' = [nonce EXCEPT ![u] = @ + 1]
     /\ UNCHANGED <<now, config, validators, wrapped>>

Undecided(id) == status[id] \in {"none", "Pending"}

\* verify_signatures: as many as are required, of validators
Verified(signatures) ==
  /\ Len(signatures) >= config.required_signatures
  /\ Cardinality({i \in DOMAIN signatures : signatures[i] \in validators})
       >= config.required_signatures

\* complete_bridge, called by validator v with an Unlock message for an NFT,
\* which nothing is done about; the unlocking of tokens always fails, as the
\* recipient's address cannot be converted.
CompleteBridge(v, id, signatures) ==
  /\ Open
  /\ v \in validators
  /\ Undecided(id)
  /\ Verified(signatures)
  /\ status' = [status EXCEPT ![id] = "Completed"]
  /\ UNCHANGED <<now, bal, config, validators, locked, nonce, wrapped>>

Refund(id) ==
  IF id[2][1] = "Token" THEN Transfer(Self, locked[id], id[2][2]) ELSE UNCHANGED bal

\* Mutated form: the lock record decides whether there is something to refund.
CancelBridgeLocked(id) ==
  /\ Initialized
  /\ locked[id] # None
  /\ Refund(id)
  /\ status' = [status EXCEPT ![id] = "Cancelled"]
  /\ locked' = [locked EXCEPT ![id] = None]
  /\ UNCHANGED <<now, config, validators, nonce, wrapped>>

\* cancel_bridge, called by the owner or the administrator, also when paused
CancelBridge(id) ==
  /\ Initialized
  /\ locked[id] # None
  /\ Undecided(id)
  /\ Refund(id)
  /\ status' = [status EXCEPT ![id] = "Cancelled"]
  /\ locked' = [locked EXCEPT ![id] = None]
  /\ UNCHANGED <<now, config, validators, nonce, wrapped>>

-----------------------------------------------------------------------------
(***************************************************************************)
(* Wrapping: only a record.  Tokens of the same id of two contracts that   *)
(* are wrapped at the same time share one.                                 *)
(***************************************************************************)
WrapNft(u, c, token_id, chain) ==
  /\ Open
  /\ wrapped' = [wrapped EXCEPT ![WrappedId(token_id, chain)] = [owner |-> u, contract |-> c]]
  /\ UNCHANGED <<now, bal, config, validators, locked, status, nonce>>

UnwrapNft(u, w) ==
  /\ Open
  /\ wrapped[w] # None
  /\ wrapped[w].owner = u
  /\ wrapped' = [wrapped EXCEPT ![w] = None]
  /\ UNCHANGED <<now, bal, config, validators, locked, status, nonce>>

Tick ==
  /\ now < MaxTime
  /\ now' = now + 1
  /\ UNCHANGED <<bal, config, validators, locked, status, nonce, wrapped>>

Next ==
  \/ \E required \in 1 .. MAX_VALIDATORS, fees \in FeeRules : Initialize(required, fees)
  \/ \E v \in Validators : AddValidator(v) \/ RemoveValidator(v)
  \/ \E fees \in FeeRules : UpdateFees(fees)
  \/ \E p \in BOOLEAN : SetPaused(p)
  \/ \E u \in Users, chain \in Chains :
       \/ \E asset \in Assets : BridgeAssets(u, asset, chain)
       \/ \E i \in AssetIds, c \in NftContracts : WrapNft(u, c, i, chain)
  \/ \E u \in Users, w \in DOMAIN wrapped : UnwrapNft(u, w)
  \/ \E id \in MessageIds :
       \/ CancelBridge(id)
       \/ \E v, w \in Validators : CompleteBridge(v, id, <<v, w>>)
  \/ Tick

Spec == Init /\ [][Next]_vars

-----------------------------------------------------------------------------
\* What is locked under messages that are not cancelled is there to be
\* refunded: each message is refunded once, and a message that was completed
\* keeps its assets locked.
LocksBacked ==
  LET tokens == {i \in MessageIds : i[2][1] = "Token" /\ locked[i] # None}
  IN /\ bal[Self] = Total([i \in tokens |-> i[2][2]])
     /\ \A i \in MessageIds : locked[i] # None => status[i] \in {"Pending", "Completed"}

D == INSTANCE Decisions WITH
       Case <- MessageIds, Open <- {"Pending"}, Outcome <- {"Completed", "Cancelled"},
       state <- status

\* A message is decided once: completed by validators or cancelled, whatever
\* the owner, the administrator and the validators do at the same time.
DecidedOnce == D!Spec

=============================================================================
