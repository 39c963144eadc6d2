--------------------------- MODULE CrossContract ---------------------------
(***************************************************************************)
(* Messages between contracts (contracts/cross_contract): senders queue    *)
(* messages for routes, within a rate, and anybody has the first one       *)
(* delivered to the target of its route and answered to its callback.      *)
(*                                                                         *)
(* A call is one action and its error paths are its guards: an error that  *)
(* a call returns undoes everything it stored.  So a message whose target  *)
(* or callback fails stays where it is, the Failed and CallbackFailed that *)
(* the delivery of a message that is not atomic stores included, and those *)
(* behind it wait.  Payloads and responses are left out.                   *)
(***************************************************************************)
EXTENDS Integers, Sequences, FiniteSets

CONSTANTS
  Senders, Routes, Targets, None,
  Callbacks,               \* contracts that are called back
  RateLimits,              \* [window_secs, max_messages]
  MaxMessages, MaxTime     \* bounds

VARIABLES
  now,              \* ledger timestamp
  rate_limit,       \* DataKey::RateLimit
  route,            \* DataKey::Route(key)
  message,          \* DataKey::Message(id), ids from 1 on
  slot,             \* DataKey::QueueSlot, numbered from 0 on
  head, tail,       \* DataKey::QueueHead and DataKey::QueueTail
  sender_window,    \* DataKey::SenderWindow(sender)
  audit             \* DataKey::Audit(message id): the actions and statuses

vars == <<now, rate_limit, route, message, slot, head, tail, sender_window, audit>>
queue == <<slot, head, tail>>

Init ==
  /\ now = 0
  /\ rate_limit = None
  /\ route = [k \in Routes |-> None]
  /\ message = <<>>
  /\ slot = [n \in 0 .. MaxMessages - 1 |-> None]
  /\ head = 0 /\ tail = 0
  /\ sender_window = [s \in Senders |-> None]
  /\ audit = <<>>

Initialize(limit) ==
  /\ rate_limit = None
  /\ rate_limit' = limit
  /\ UNCHANGED <<now, route, message, queue, sender_window, audit>>

Initialized == rate_limit # None

SetRateLimit(limit) ==
  /\ Initialized
  /\ rate_limit' = limit
  /\ UNCHANGED <<now, route, message, queue, sender_window, audit>>

\* register_route, which replaces the route; messages in the queue keep theirs
RegisterRoute(k, target, callback) ==
  /\ Initialized
  /\ route' = [route EXCEPT ![k] = [target |-> target, callback |-> callback, enabled |-> TRUE]]
  /\ UNCHANGED <<now, rate_limit, message, queue, sender_window, audit>>

SetRouteEnabled(k, enabled) ==
  /\ route[k] # None
  /\ route' = [route EXCEPT ![k].enabled = enabled]
  /\ UNCHANGED <<now, rate_limit, message, queue, sender_window, audit>>

-----------------------------------------------------------------------------
(***************************************************************************)
(* Queueing.                                                               *)
(***************************************************************************)
ResolveCallback(k, callback) == IF callback # None THEN callback ELSE route[k].callback

\* enforce_rate_limit: at most max_messages in a window of window_secs
Usage(s) ==
  LET w == now \div rate_limit.window_secs
      old == sender_window[s]
      fresh == old = None \/ (old # None => old.window # w)
  IN IF fresh THEN [window |-> w, count |-> 0] ELSE old

EnforceRateLimit(s) ==
  /\ Usage(s).count = 0 \/ Usage(s).count < rate_limit.max_messages
  /\ sender_window' = [sender_window EXCEPT ![s] = [Usage(s) EXCEPT !.count = @ + 1]]

AppendAudit(id, entries) == audit' = [audit EXCEPT ![id] = @ \o entries]

QueueMessage(s, k, atomic, callback) ==
  LET id == Len(message) + 1
  IN /\ id <= MaxMessages
     /\ Initialized /\ route[k] # None
     /\ route[k].enabled
     /\ EnforceRateLimit(s)
     /\ message' = Append(message,
          [route |-> k, sender |-> s, atomic |-> atomic, target |-> route[k].target,
           callback |-> ResolveCallback(k, callback), status |-> "Queued",
           queued_at |-> now, processed_at |-> None])
     /\ slot' = [slot EXCEPT ![tail] = id]
     /\ tail' = tail + 1
     /\ audit' = Append(audit, <<"Enqueued">>)
     /\ UNCHANGED <<now, rate_limit, route, head>>

-----------------------------------------------------------------------------
(***************************************************************************)
(* Delivery.                                                               *)
(***************************************************************************)
\* The message to be delivered, the first of the queue.
PeekQueue == slot[head]

PopQueue(id) ==
  /\ slot[head] = id
  /\ slot' = [slot EXCEPT ![head] = None]
  /\ head' = head + 1
  /\ UNCHANGED tail

\* The target, and the callback if there is one, were called and agreed.
Delivered(id) ==
  /\ message' = [message EXCEPT ![id].status = "Delivered", ![id].processed_at = now]
  /\ PopQueue(id)
  /\ AppendAudit(id, IF message[id].callback # None
                       THEN <<"Routed", "CallbackSucceeded", "Delivered">>
                       ELSE <<"Routed", "Delivered">>)
  /\ UNCHANGED <<now, rate_limit, route, sender_window>>

\* process_atomic: the errors of target and callback are returned
ProcessAtomic(id) == message[id].atomic /\ Delivered(id)

\* Mutated form: the failure of the target is stored, and the queue not popped.
ProcessFailed(id) ==
  /\ ~message[id].atomic
  /\ message' = [message EXCEPT ![id].status = "Failed", ![id].processed_at = now]
  /\ AppendAudit(id, <<"Failed">>)
  /\ UNCHANGED <<now, rate_limit, route, queue, sender_window>>

\* process_non_atomic: the failures are stored and popped before an error is
\* returned that undoes this
ProcessNonAtomic(id) == ~message[id].atomic /\ Delivered(id)

ProcessNext ==
  /\ Initialized
  /\ head < tail
  /\ message[PeekQueue].status = "Queued"
  /\ ProcessAtomic(PeekQueue) \/ ProcessNonAtomic(PeekQueue)

Tick ==
  /\ now < MaxTime
  /\ now' = now + 1
  /\ UNCHANGED <<rate_limit, route, message, queue, sender_window, audit>>

Next ==
  \/ \E limit \in RateLimits : Initialize(limit) \/ SetRateLimit(limit)
  \/ \E k \in Routes, c \in Callbacks \cup {None} :
       \/ \E t \in Targets : RegisterRoute(k, t, c)
       \/ \E s \in Senders, atomic \in BOOLEAN : QueueMessage(s, k, atomic, c)
  \/ \E k \in Routes, enabled \in BOOLEAN : SetRouteEnabled(k, enabled)
  \/ ProcessNext
  \/ Tick

Spec == Init /\ [][Next]_vars

-----------------------------------------------------------------------------
\* Messages leave the queue in the order in which they came, each when it is
\* delivered and with a trail that says so, whatever fails on the way and
\* whatever happens to the routes, and those that wait are in the queue.
DeliveredInOrder ==
  LET ids == DOMAIN message
  IN /\ head <= tail /\ tail = Len(message)
     /\ \A n \in DOMAIN slot : slot[n] = IF n \in head .. tail - 1 THEN n + 1 ELSE None
     /\ \A id \in ids : message[id].status = IF id <= head THEN "Delivered" ELSE "Queued"
     /\ \A id \in ids : (message[id].status = "Delivered") = (audit[id][Len(audit[id])] = "Delivered")
     /\ \A i, j \in 1 .. head : i < j => message[i].processed_at <= message[j].processed_at

=============================================================================
