------------------------------ MODULE OrderApi ------------------------------
(***************************************************************************)
(* The order API after checkout (src/order_api.rs): fulfillment events and *)
(* adjustments are added to an order by handlers that read it, change      *)
(* their copy and write the copy back, with the store's lock held for the  *)
(* read and for the write and not in between.                              *)
(*                                                                         *)
(* Changes[r] are the orders that the client behind slot r changes.  Line  *)
(* items are those of the order, with the quantity that was bought; their  *)
(* ids may come from the platform, and several may have the same one.  The *)
(* rest of an event or an adjustment is its identity.  Quantities are i32  *)
(* and wrap around, as the release build has them: MaxInt is the largest.  *)
(***************************************************************************)
EXTENDS Sums, FiniteSets, SequencesExt

CONSTANTS
    Orders, Items,
    Bought,         \* Bought[i]: the quantity of item i on an order
    Shadowed,       \* the items with the id of one further up
    Requests,       \* slots for requests in progress: a bound of the model
    Changes,        \* the orders a slot's client changes
    Entries,        \* identifiers of events and adjustments: a bound of the model
    Quantities,     \* the quantities that requests name
    MaxInt,         \* i32::MAX
    NoOrder

(* An order as the handlers know it. *)
Event == [id : Entries, kind : {"moved", "other"}, quantities : [Items -> Quantities \cup {0}]]
Order == [events : Seq(Event), adjustments : Seq(Entries),
          fulfilled : [Items -> (-MaxInt - 1)..MaxInt],
          status : [Items -> {"processing", "partial", "fulfilled"}]]

ASSUME OrderApiAssumption ==
    /\ MaxInt \in Nat
    /\ Bought \in [Items -> 1..MaxInt]
    /\ Shadowed \subseteq Items
    /\ Quantities \subseteq 1..MaxInt
    /\ Changes \in [Requests -> SUBSET Orders]
    /\ NoOrder \notin Order

VARIABLES
    orders,  \* the order store
    slot     \* the request each slot is at, with its copy of the order

vars == <<orders, slot>>

IdleSlot == [pc |-> "idle"]
Slot == [pc : {"idle"}] \cup [pc : {"lookup"}, order : Orders]
        \cup [pc : {"writing"}, order : Orders, copy : Order]

TypeOK == /\ orders \in [Orders -> Order \cup {NoOrder}]
          /\ slot \in [Requests -> Slot]

Init == /\ orders = [o \in Orders |-> NoOrder]
        /\ slot = [r \in Requests |-> IdleSlot]

-----------------------------------------------------------------------------

At(r, pc) == slot[r].pc = pc
Known(o) == orders[o] # NoOrder

(* build_order: nothing of a new order is fulfilled.  The "processing"     *)
(* events it may start with are left out.                                  *)
NewOrder == [events |-> <<>>, adjustments |-> <<>>, fulfilled |-> [i \in Items |-> 0],
             status |-> [i \in Items |-> "processing"]]

(* The worker stores the order of a completed session. *)
InsertOrder(o) == /\ ~Known(o)
                  /\ orders' = [orders EXCEPT ![o] = NewOrder]
                  /\ UNCHANGED slot

(* A client sends an event or an adjustment. *)
Begin(r) == /\ At(r, "idle")
            /\ \E o \in Changes[r] : slot' = [slot EXCEPT ![r] = [pc |-> "lookup", order |-> o]]
            /\ UNCHANGED orders

(* There is no such order, or the request is refused: an empty type, line  *)
(* items that are missing, repeated, unknown or without a quantity, an     *)
(* adjustment of nothing or of a negative amount.                          *)
Refuse(r) == /\ At(r, "lookup")
             /\ slot' = [slot EXCEPT ![r] = IdleSlot]
             /\ UNCHANGED orders

-----------------------------------------------------------------------------
(* Adding a fulfillment event. *)

(* The sum of two quantities, in 32 bits. *)
Wrapped(n) == IF n > MaxInt THEN n - 2 * (MaxInt + 1) ELSE n

AtMost(n, limit) == IF n < limit THEN n ELSE limit

(* A bug to detect: the quantity is not limited to what was bought. *)
FulfilledUnlimited(order, i, n) == Wrapped(order.fulfilled[i] + n)

(* A bug to detect: the quantity replaces what was fulfilled before. *)
FulfilledReplaced(order, i, n) == AtMost(n, Bought[i])

Fulfilled(order, i, n) == AtMost(Wrapped(order.fulfilled[i] + n), Bought[i])

(* Bugs to detect: the status is named after the event; an item is         *)
(* fulfilled only when more than what was bought is.                       *)
StatusOfEvent(order, i, n) == IF n >= Bought[i] THEN "delivered" ELSE "shipped"
StatusOneShort(order, i, n) == IF n > Bought[i] THEN "fulfilled" ELSE "partial"

(* Item i's status once its fulfilled quantity is n; it stays what it was  *)
(* when n is not positive.                                                 *)
Status(order, i, n) == IF n >= Bought[i] THEN "fulfilled"
                       ELSE IF n > 0 THEN "partial" ELSE order.status[i]

(* update_line_item_quantities, for the items that the event names. *)
Moved(order, quantities) ==
    LET fulfilled == [i \in Items |-> IF quantities[i] = 0 THEN order.fulfilled[i]
                                      ELSE Fulfilled(order, i, quantities[i])]
    IN  [order EXCEPT
            !.fulfilled = fulfilled,
            !.status = [i \in Items |-> IF quantities[i] = 0 THEN @[i]
                                        ELSE Status(order, i, fulfilled[i])]]

(* The order with an event: shipped and delivered count as fulfillment. *)
WithEvent(order, event) ==
    LET longer == [order EXCEPT !.events = Append(@, event)]
    IN  IF event.kind = "moved" THEN Moved(longer, event.quantities) ELSE longer

(* A bug to detect: adjustments are listed with the latest first. *)
WithAdjustmentFirst(order, id) == [order EXCEPT !.adjustments = <<id>> \o @]

WithAdjustment(order, id) == [order EXCEPT !.adjustments = Append(@, id)]

EntriesOf(order) == {order.events[n].id : n \in DOMAIN order.events} \cup ToSet(order.adjustments)

(* Uuid::new_v4 *)
FreshEntries ==
    Entries \ (UNION {EntriesOf(orders[o]) : o \in {p \in Orders : Known(p)}}
               \cup UNION {EntriesOf(slot[r].copy) : r \in {q \in Requests : At(q, "writing")}})

(* The read and the change of the copy, up to the write lock.  An event    *)
(* names items by their ids, and an id is that of the first item with it.  *)
AddFulfillmentEvent(r) ==
    /\ At(r, "lookup") /\ Known(slot[r].order)
    /\ \E id \in FreshEntries, kind \in {"moved", "other"},
          quantities \in [Items -> Quantities \cup {0}] :
           /\ \E i \in Items : quantities[i] > 0
           /\ \A i \in Shadowed : quantities[i] = 0
           /\ slot' = [slot EXCEPT ![r] =
                  [pc |-> "writing", order |-> @.order,
                   copy |-> WithEvent(orders[@.order], [id |-> id, kind |-> kind,
                                                        quantities |-> quantities])]]
    /\ UNCHANGED orders

AddAdjustment(r) ==
    /\ At(r, "lookup") /\ Known(slot[r].order)
    /\ \E id \in FreshEntries :
           slot' = [slot EXCEPT ![r] =
               [pc |-> "writing", order |-> @.order,
                copy |-> WithAdjustment(orders[@.order], id)]]
    /\ UNCHANGED orders

(* store.update: the copy replaces the order. *)
UpdateOrder(r) == /\ At(r, "writing")
                  /\ orders' = [orders EXCEPT ![slot[r].order] = slot[r].copy]
                  /\ slot' = [slot EXCEPT ![r] = IdleSlot]

(* The client's connection closes while the request waits for a lock. *)
Disconnect(r) == /\ At(r, "writing")
                 /\ slot' = [slot EXCEPT ![r] = IdleSlot]
                 /\ UNCHANGED orders

Next == \/ \E o \in Orders : InsertOrder(o)
        \/ \E r \in Requests : \/ Begin(r) \/ Refuse(r)
                               \/ AddFulfillmentEvent(r) \/ AddAdjustment(r)
                               \/ UpdateOrder(r) \/ Disconnect(r)

Spec == Init /\ [][Next]_vars

-----------------------------------------------------------------------------

(* What the events of an order say of an item: how much of it was shipped  *)
(* or delivered, as the quantities add up.                                 *)
MovedBy(event, i) == IF event.kind = "moved" THEN event.quantities[i] ELSE 0
MovedIn(order, i) == Total([n \in DOMAIN order.events |-> MovedBy(order.events[n], i)])

(* The fulfilled quantities of an order agree with its events, however     *)
(* handlers overwrite each other: an event and its quantities are written  *)
(* together (add_fulfillment_event changes one copy and writes it once).   *)
FulfilledAgreesWithEvents ==
    \A o \in Orders : Known(o) =>
        \A i \in Items : orders[o].fulfilled[i] = AtMost(MovedIn(orders[o], i), Bought[i])

(* An item is fulfilled when all of it is, partial when some of it is, and *)
(* never more than was bought (update_line_item_quantities).               *)
StatusFollowsQuantities ==
    \A o \in Orders, i \in Items : Known(o) =>
        LET n == orders[o].fulfilled[i]
        IN  /\ n \in 0..Bought[i]
            /\ orders[o].status[i] = IF n = 0 THEN "processing"
                                     ELSE IF n < Bought[i] THEN "partial" ELSE "fulfilled"

(* The orders that only one client changes, one request after the other. *)
HasOneClient(o) == \A q, r \in Requests : o \in Changes[q] \cap Changes[r] => q = r

OnlyAppended(o) == /\ IsPrefix(orders[o].events, orders'[o].events)
                   /\ IsPrefix(orders[o].adjustments, orders'[o].adjustments)

(* Events and adjustments are only ever added: what an order showed once   *)
(* it shows from then on (the comments of both handlers).                  *)
NoEntryIsLost == [][\A o \in Orders : Known(o) => OnlyAppended(o)]_vars

(* That much is true of the orders of one client: add_fulfillment_event    *)
(* and add_adjustment write back what they read with one entry more, even  *)
(* if the client goes away in between.                                     *)
EntriesAreAppendOnly ==
    [][\A o \in Orders : Known(o) /\ HasOneClient(o) => OnlyAppended(o)]_vars

(* Nothing that was fulfilled of such an order is taken back: quantities   *)
(* add up, and are limited to what was bought (update_line_item_quantities).*)
FulfillmentOnlyGrows ==
    [][\A o \in Orders, i \in Items :
           Known(o) /\ HasOneClient(o) => orders'[o].fulfilled[i] >= orders[o].fulfilled[i]]_vars

=============================================================================
