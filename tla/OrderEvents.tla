----------------------------- MODULE OrderEvents -----------------------------
(***************************************************************************)
(* What happens to an order after its checkout is completed: the bounded   *)
(* tokio channel behind EventSender (src/events.rs), the one worker task   *)
(* that main spawns to empty it (src/main.rs), the OrderStore it fills     *)
(* (src/order_api.rs) and the webhook delivery it waits for                *)
(* (src/webhook.rs).  The worker handles one event at a time; while it     *)
(* retries a delivery, every later event waits in the channel.             *)
(***************************************************************************)
EXTENDS Identifiers, Naturals, Sequences

CONSTANTS
    QueueCap,      \* the capacity of the channel, 128 in main
    MaxAttempts    \* max_retries + 1

ASSUME QueueAssumption == QueueCap \in Nat \ {0}
ASSUME AttemptsAssumption == MaxAttempts \in Nat \ {0}

VARIABLES
    queue,     \* OrderCreated events the worker has not received
    worker,    \* the worker task: its phase, its event, the delivery attempt
    orders,    \* orders[o]: the checkout of the stored order o, or NoCheckout
    received   \* the orders the platform has got at least one webhook for

eventVars == <<queue, worker, orders, received>>

Event == [order : Orders, checkout : Checkouts]
NoEvent == [order |-> NoOrder, checkout |-> NoCheckout]

WorkerIdle == [phase |-> "idle", event |-> NoEvent, attempt |-> 0]

EventsTypeOK ==
    /\ queue \in Seq(Event) /\ Len(queue) <= QueueCap
    /\ worker \in [phase : {"idle", "storing", "posting"}, event : Event \cup {NoEvent},
                   attempt : 0..MaxAttempts]
    /\ worker.phase # "idle" => worker.event \in Event
    /\ orders \in [Orders -> Checkouts \cup {NoCheckout}]
    /\ received \subseteq Orders

EventsInit == /\ queue = <<>>
              /\ worker = WorkerIdle
              /\ orders = [o \in Orders |-> NoCheckout]
              /\ received = {}

Stored(o) == orders[o] # NoCheckout

-----------------------------------------------------------------------------

(* Bugs to detect: an unbounded channel, and a send that does not wait. *)
SendUnbounded(event) == /\ queue' = Append(queue, event)
                        /\ UNCHANGED <<worker, orders, received>>
TrySend(event) == /\ queue' = IF Len(queue) < QueueCap THEN Append(queue, event) ELSE queue
                  /\ UNCHANGED <<worker, orders, received>>

(* EventSender::send waits while the channel is full. *)
Send(event) == /\ Len(queue) < QueueCap
               /\ queue' = Append(queue, event)
               /\ UNCHANGED <<worker, orders, received>>

(* A bug to detect: the event is posted before its order is stored. *)
ReceiveAndPost == /\ worker.phase = "idle" /\ queue # <<>>
                  /\ worker' = [phase |-> "posting", event |-> Head(queue), attempt |-> 1]
                  /\ queue' = Tail(queue)
                  /\ UNCHANGED <<orders, received>>

(* A bug to detect: an event stays in the channel while it is handled. *)
PeekAtEvent == /\ worker.phase = "idle" /\ queue # <<>>
               /\ worker' = [phase |-> "storing", event |-> Head(queue), attempt |-> 0]
               /\ UNCHANGED <<queue, orders, received>>

(* event_rx.recv() *)
ReceiveEvent == /\ worker.phase = "idle" /\ queue # <<>>
                /\ worker' = [phase |-> "storing", event |-> Head(queue), attempt |-> 0]
                /\ queue' = Tail(queue)
                /\ UNCHANGED <<orders, received>>

(* A bug to detect: nobody waits for the insert. *)
StoreOrderUnawaited ==
    /\ worker.phase = "storing"
    /\ worker' = [worker EXCEPT !.phase = "posting", !.attempt = 1]
    /\ UNCHANGED <<queue, orders, received>>

(* order_store.insert(order) *)
StoreOrder ==
    /\ worker.phase = "storing"
    /\ orders' = [orders EXCEPT ![worker.event.order] = worker.event.checkout]
    /\ worker' = [worker EXCEPT !.phase = "posting", !.attempt = 1]
    /\ UNCHANGED <<queue, received>>

(* send_order_event ends: no URL is configured, the platform accepted the  *)
(* event, or it is given up (a status that is not retried, or the last     *)
(* attempt).  The platform may have got the event in every case but the    *)
(* first, and the sender cannot tell.                                      *)
EndDelivery == /\ worker.phase = "posting"
               /\ worker' = WorkerIdle
               /\ received' \in {received, received \cup {worker.event.order}}
               /\ UNCHANGED <<queue, orders>>

(* A transport error or a 408, 429 or 5xx answer before the last attempt. *)
RetryDelivery == /\ worker.phase = "posting" /\ worker.attempt < MaxAttempts
                 /\ worker' = [worker EXCEPT !.attempt = @ + 1]
                 /\ received' \in {received, received \cup {worker.event.order}}
                 /\ UNCHANGED <<queue, orders>>

WorkerNext == ReceiveEvent \/ StoreOrder \/ EndDelivery \/ RetryDelivery

-----------------------------------------------------------------------------

(* The orders whose event has been sent, wherever they are by now. *)
SentEvents == {queue[i] : i \in DOMAIN queue}
              \cup (IF worker.phase = "idle" THEN {} ELSE {worker.event})
              \cup {[order |-> o, checkout |-> orders[o]] : o \in {p \in Orders : Stored(p)}}

(* A platform that is told of an order by webhook can already fetch it: the *)
(* worker stores an order before it posts the event (main.rs, the event     *)
(* loop), so no platform has received an order the store does not hold.     *)
NotifiedOrderIsStored == \A o \in received : Stored(o)

(* The strengthening that makes it inductive: while an event is posted, its *)
(* order is in the store, under its session.                               *)
PostedIsStored == worker.phase = "posting"
                      => orders[worker.event.order] = worker.event.checkout

=============================================================================
