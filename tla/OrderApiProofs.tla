--------------------------- MODULE OrderApiProofs ---------------------------
(***************************************************************************)
(* Theorems about the order API: for any clients, quantities that stay     *)
(* clear of the 32-bit limit keep every item's status true to its          *)
(* quantities; for clients that each change orders of their own, events    *)
(* and adjustments are append-only and fulfillment only grows.             *)
(***************************************************************************)
EXTENDS OrderApi, InductionProofs

-----------------------------------------------------------------------------
(* The operators on an order. *)

LEMMA WrappedType ==
    ASSUME NEW m \in (-MaxInt - 1)..MaxInt, NEW n \in 1..MaxInt
    PROVE  Wrapped(m + n) \in (-MaxInt - 1)..MaxInt
BY OrderApiAssumption DEF Wrapped

LEMMA FulfilledType ==
    ASSUME NEW order \in Order, NEW i \in Items, NEW n \in Quantities
    PROVE  Fulfilled(order, i, n) \in (-MaxInt - 1)..MaxInt
<1>1. order.fulfilled[i] \in (-MaxInt - 1)..MaxInt /\ n \in 1..MaxInt
  BY OrderApiAssumption DEF Order
<1>2. Wrapped(order.fulfilled[i] + n) \in (-MaxInt - 1)..MaxInt
  BY <1>1, WrappedType
<1>3. Bought[i] \in 1..MaxInt
  BY OrderApiAssumption
<1> QED
  BY <1>2, <1>3, OrderApiAssumption DEF Fulfilled, AtMost

(* What Moved does to one item; the rest of the order stays. *)
LEMMA MovedFields ==
    ASSUME NEW order \in Order, NEW quantities \in [Items -> Quantities \cup {0}]
    PROVE  /\ Moved(order, quantities) \in Order
           /\ Moved(order, quantities).events = order.events
           /\ Moved(order, quantities).adjustments = order.adjustments
           /\ \A i \in Items :
                  IF quantities[i] = 0
                  THEN /\ Moved(order, quantities).fulfilled[i] = order.fulfilled[i]
                       /\ Moved(order, quantities).status[i] = order.status[i]
                  ELSE /\ quantities[i] \in Quantities
                       /\ Moved(order, quantities).fulfilled[i]
                              = Fulfilled(order, i, quantities[i])
                       /\ Moved(order, quantities).status[i]
                              = Status(order, i, Fulfilled(order, i, quantities[i]))
<1> DEFINE fulfilled == [i \in Items |-> IF quantities[i] = 0 THEN order.fulfilled[i]
                                         ELSE Fulfilled(order, i, quantities[i])]
           status == [i \in Items |-> IF quantities[i] = 0 THEN order.status[i]
                                      ELSE Status(order, i, fulfilled[i])]
<1>1. Moved(order, quantities)
          = [order EXCEPT !.fulfilled = fulfilled, !.status = status]
  BY DEF Moved, Order
<1>2. fulfilled \in [Items -> (-MaxInt - 1)..MaxInt]
  BY FulfilledType DEF Order
<1>3. status \in [Items -> {"processing", "partial", "fulfilled"}]
  BY DEF Order, Status
<1>4. Moved(order, quantities) =
          [events |-> order.events, adjustments |-> order.adjustments,
           fulfilled |-> fulfilled, status |-> status]
  BY <1>1 DEF Order
<1>5. Moved(order, quantities) \in Order
  BY <1>2, <1>3, <1>4 DEF Order
<1>6. \A i \in Items : quantities[i] # 0 => quantities[i] \in Quantities
  OBVIOUS
<1> QED
  BY <1>4, <1>5, <1>6

(* An order with one field replaced, field by field. *)
LEMMA Replaced ==
    ASSUME NEW order \in Order, NEW x
    PROVE  /\ [order EXCEPT !.events = x] =
                  [events |-> x, adjustments |-> order.adjustments,
                   fulfilled |-> order.fulfilled, status |-> order.status]
           /\ [order EXCEPT !.adjustments = x] =
                  [events |-> order.events, adjustments |-> x,
                   fulfilled |-> order.fulfilled, status |-> order.status]
<1> DEFINE E == Seq(Event)
           A == Seq(Entries)
           F == [Items -> (-MaxInt - 1)..MaxInt]
           S == [Items -> {"processing", "partial", "fulfilled"}]
<1>1. order \in [events : E, adjustments : A, fulfilled : F, status : S]
  BY DEF Order
<1> HIDE DEF E, A, F, S
<1> QED
  BY <1>1

LEMMA LongerType ==
    ASSUME NEW order \in Order, NEW x \in Seq(Event)
    PROVE  /\ [order EXCEPT !.events = x] \in Order
           /\ [order EXCEPT !.events = x].events = x
           /\ [order EXCEPT !.events = x].adjustments = order.adjustments
           /\ [order EXCEPT !.events = x].fulfilled = order.fulfilled
           /\ [order EXCEPT !.events = x].status = order.status
<1>1. [order EXCEPT !.events = x] =
          [events |-> x, adjustments |-> order.adjustments,
           fulfilled |-> order.fulfilled, status |-> order.status]
  BY Replaced
<1>2. [events |-> x, adjustments |-> order.adjustments,
       fulfilled |-> order.fulfilled, status |-> order.status] \in Order
  BY DEF Order
<1> QED
  BY <1>1, <1>2

LEMMA WithEventFields ==
    ASSUME NEW order \in Order, NEW event \in Event
    PROVE  /\ WithEvent(order, event) \in Order
           /\ WithEvent(order, event).events = Append(order.events, event)
           /\ WithEvent(order, event).adjustments = order.adjustments
           /\ \A i \in Items :
                  \/ /\ MovedBy(event, i) = 0
                     /\ WithEvent(order, event).fulfilled[i] = order.fulfilled[i]
                     /\ WithEvent(order, event).status[i] = order.status[i]
                  \/ \E n \in Quantities :
                         /\ MovedBy(event, i) = n
                         /\ WithEvent(order, event).fulfilled[i] = Fulfilled(order, i, n)
                         /\ WithEvent(order, event).status[i]
                                = Status(order, i, Fulfilled(order, i, n))
<1> DEFINE longer == [order EXCEPT !.events = Append(@, event)]
<1>0. Append(order.events, event) \in Seq(Event)
  BY DEF Order
<1>1. /\ longer \in Order
      /\ longer.events = Append(order.events, event)
      /\ longer.adjustments = order.adjustments
      /\ longer.fulfilled = order.fulfilled
      /\ longer.status = order.status
  BY <1>0, LongerType
<1>2. WithEvent(order, event) = IF event.kind = "moved" THEN Moved(longer, event.quantities)
                                ELSE longer
  BY DEF WithEvent
<1>3. event.quantities \in [Items -> Quantities \cup {0}]
  BY DEF Event
<1>4. \A i \in Items, n \in Quantities :
          /\ Fulfilled(longer, i, n) = Fulfilled(order, i, n)
          /\ Status(longer, i, Fulfilled(longer, i, n)) = Status(order, i, Fulfilled(order, i, n))
  BY <1>1 DEF Fulfilled, Status
<1> HIDE DEF longer
<1>5. CASE event.kind = "moved"
  <2> DEFINE moved == Moved(longer, event.quantities)
  <2>1. WithEvent(order, event) = moved
    BY <1>2, <1>5
  <2>2. /\ moved \in Order
        /\ moved.events = longer.events
        /\ moved.adjustments = longer.adjustments
    BY <1>1, <1>3, MovedFields
  <2>3. ASSUME NEW i \in Items
        PROVE  \/ /\ MovedBy(event, i) = 0
                  /\ moved.fulfilled[i] = order.fulfilled[i] /\ moved.status[i] = order.status[i]
               \/ \E n \in Quantities :
                      /\ MovedBy(event, i) = n
                      /\ moved.fulfilled[i] = Fulfilled(order, i, n)
                      /\ moved.status[i] = Status(order, i, Fulfilled(order, i, n))
    <3> DEFINE n == event.quantities[i]
    <3>0. MovedBy(event, i) = n
      BY <1>5 DEF MovedBy
    <3>1. CASE n = 0
      BY <1>1, <1>3, <3>0, <3>1, MovedFields
    <3>2. CASE n # 0
      <4>1. /\ n \in Quantities
            /\ moved.fulfilled[i] = Fulfilled(longer, i, n)
            /\ moved.status[i] = Status(longer, i, Fulfilled(longer, i, n))
        BY <1>1, <1>3, <3>2, MovedFields
      <4> HIDE DEF n, moved
      <4> QED
        BY <1>4, <3>0, <4>1
    <3> QED
      BY <3>1, <3>2
  <2> HIDE DEF moved
  <2> QED
    BY <1>1, <2>1, <2>2, <2>3
<1>6. CASE event.kind # "moved"
  BY <1>1, <1>2, <1>6 DEF MovedBy
<1> QED
  BY <1>5, <1>6

LEMMA WithAdjustmentFields ==
    ASSUME NEW order \in Order, NEW id \in Entries
    PROVE  /\ WithAdjustment(order, id) \in Order
           /\ WithAdjustment(order, id).adjustments = Append(order.adjustments, id)
           /\ WithAdjustment(order, id).events = order.events
           /\ WithAdjustment(order, id).fulfilled = order.fulfilled
           /\ WithAdjustment(order, id).status = order.status
<1>1. Append(order.adjustments, id) \in Seq(Entries)
  BY DEF Order
<1>2. WithAdjustment(order, id) =
          [events |-> order.events, adjustments |-> Append(order.adjustments, id),
           fulfilled |-> order.fulfilled, status |-> order.status]
  BY Replaced DEF WithAdjustment
<1>3. ASSUME NEW x \in Seq(Entries)
      PROVE  [events |-> order.events, adjustments |-> x,
              fulfilled |-> order.fulfilled, status |-> order.status] \in Order
  BY DEF Order
<1>4. WithAdjustment(order, id) \in Order
  BY <1>1, <1>2, <1>3
<1> QED
  BY <1>2, <1>4

LEMMA NewOrderType == NewOrder \in Order
BY OrderApiAssumption DEF NewOrder, Order

-----------------------------------------------------------------------------
(* Type correctness. *)

LEMMA SlotFields ==
    ASSUME TypeOK, NEW r \in Requests
    PROVE  /\ slot[r].pc \in {"lookup", "writing"} => slot[r].order \in Orders
           /\ slot[r].pc = "writing" => slot[r].copy \in Order
BY DEF TypeOK, Slot

(* A handler's copy is its order with one event or one adjustment more. *)
LEMMA CopyMade ==
    ASSUME TypeOK, NEW r \in Requests, AddFulfillmentEvent(r) \/ AddAdjustment(r)
    PROVE  /\ slot[r].pc = "lookup"
           /\ slot[r].order \in Orders
           /\ orders[slot[r].order] \in Order
           /\ orders' = orders
           /\ \E copy \in Order :
                  /\ slot' = [slot EXCEPT ![r] = [pc |-> "writing", order |-> slot[r].order,
                                                  copy |-> copy]]
                  /\ \/ \E event \in Event : copy = WithEvent(orders[slot[r].order], event)
                     \/ \E id \in Entries : copy = WithAdjustment(orders[slot[r].order], id)
<1>1. slot[r].pc = "lookup" /\ orders' = orders /\ Known(slot[r].order)
  BY DEF AddFulfillmentEvent, AddAdjustment, At
<1>2. slot[r].order \in Orders /\ orders[slot[r].order] \in Order
  BY <1>1, SlotFields DEF TypeOK, Known
<1>3. CASE AddFulfillmentEvent(r)
  <2>1. PICK id \in FreshEntries, kind \in {"moved", "other"},
             quantities \in [Items -> Quantities \cup {0}] :
          slot' = [slot EXCEPT ![r] =
                     [pc |-> "writing", order |-> @.order,
                      copy |-> WithEvent(orders[@.order], [id |-> id, kind |-> kind,
                                                           quantities |-> quantities])]]
    BY <1>3 DEF AddFulfillmentEvent
  <2> DEFINE event == [id |-> id, kind |-> kind, quantities |-> quantities]
             copy == WithEvent(orders[slot[r].order], event)
  <2>2. event \in Event
    BY DEF Event, FreshEntries
  <2>3. copy \in Order
    BY <1>2, <2>2, WithEventFields
  <2>4. slot' = [slot EXCEPT ![r] = [pc |-> "writing", order |-> slot[r].order, copy |-> copy]]
    BY <2>1
  <2> QED
    BY <1>1, <1>2, <2>2, <2>3, <2>4
<1>4. CASE AddAdjustment(r)
  <2>1. PICK id \in FreshEntries :
          slot' = [slot EXCEPT ![r] =
                     [pc |-> "writing", order |-> @.order,
                      copy |-> WithAdjustment(orders[@.order], id)]]
    BY <1>4 DEF AddAdjustment
  <2> DEFINE copy == WithAdjustment(orders[slot[r].order], id)
  <2>2. id \in Entries
    BY DEF FreshEntries
  <2>3. copy \in Order
    BY <1>2, <2>2, WithAdjustmentFields
  <2>4. slot' = [slot EXCEPT ![r] = [pc |-> "writing", order |-> slot[r].order, copy |-> copy]]
    BY <2>1
  <2> QED
    BY <1>1, <1>2, <2>2, <2>3, <2>4
<1> QED
  BY <1>3, <1>4

LEMMA InitTypeOK == Init => TypeOK
BY DEF Init, TypeOK, IdleSlot, Slot

LEMMA TypeStep == TypeOK /\ [Next]_vars => TypeOK'
<1> SUFFICES ASSUME TypeOK, [Next]_vars PROVE TypeOK'
  OBVIOUS
<1>1. CASE UNCHANGED vars
  BY <1>1 DEF vars, TypeOK
<1>2. ASSUME NEW o \in Orders, InsertOrder(o) PROVE TypeOK'
  BY <1>2, NewOrderType DEF TypeOK, InsertOrder
<1>3. ASSUME NEW r \in Requests, Begin(r) PROVE TypeOK'
  <2>1. PICK o \in Changes[r] :
            slot' = [slot EXCEPT ![r] = [pc |-> "lookup", order |-> o]]
    BY <1>3 DEF Begin
  <2>2. o \in Orders
    BY OrderApiAssumption
  <2>3. [pc |-> "lookup", order |-> o] \in Slot
    BY <2>2 DEF Slot
  <2> QED
    BY <1>3, <2>1, <2>3 DEF TypeOK, Begin
<1>4. ASSUME NEW r \in Requests, Refuse(r) \/ Disconnect(r) PROVE TypeOK'
  BY <1>4 DEF TypeOK, Refuse, Disconnect, IdleSlot, Slot
<1>5. ASSUME NEW r \in Requests, AddFulfillmentEvent(r) \/ AddAdjustment(r) PROVE TypeOK'
  <2>1. PICK copy \in Order :
            slot' = [slot EXCEPT ![r] = [pc |-> "writing", order |-> slot[r].order,
                                         copy |-> copy]]
    BY <1>5, CopyMade
  <2>2. [pc |-> "writing", order |-> slot[r].order, copy |-> copy] \in Slot
    BY <1>5, CopyMade DEF Slot
  <2>3. orders' = orders
    BY <1>5, CopyMade
  <2> QED
    BY <2>1, <2>2, <2>3 DEF TypeOK
<1>6. ASSUME NEW r \in Requests, UpdateOrder(r) PROVE TypeOK'
  BY <1>6, SlotFields DEF TypeOK, UpdateOrder, At, IdleSlot, Slot
<1> QED
  BY <1>1, <1>2, <1>3, <1>4, <1>5, <1>6 DEF Next

(* Orders and the handlers' copies keep their types: quantities stay       *)
(* within 32 bits.                                                         *)
THEOREM OrderTypes == Spec => []TypeOK
BY InitTypeOK, TypeStep, PTL DEF Spec

-----------------------------------------------------------------------------
(* Quantities and statuses. *)

(* No sum of a fulfilled quantity and one a request names exceeds 32 bits. *)
NoOverflow == \A i \in Items, n \in Quantities : Bought[i] + n <= MaxInt

(* An order whose quantities agree with its events, and whose statuses     *)
(* follow its quantities.                                                  *)
Agrees(order) == \A i \in Items : order.fulfilled[i] = AtMost(MovedIn(order, i), Bought[i])

Sound(order) ==
    /\ Agrees(order)
    /\ \A i \in Items :
        /\ order.fulfilled[i] \in 0..Bought[i]
        /\ order.status[i] = IF order.fulfilled[i] = 0 THEN "processing"
                             ELSE IF order.fulfilled[i] < Bought[i] THEN "partial"
                             ELSE "fulfilled"

LEMMA FulfilledSound ==
    ASSUME NoOverflow, NEW order, NEW i \in Items, NEW n \in Quantities,
           order.fulfilled[i] \in 0..Bought[i]
    PROVE  /\ Fulfilled(order, i, n) \in 1..Bought[i]
           /\ Fulfilled(order, i, n) >= order.fulfilled[i]
           /\ Fulfilled(order, i, n) = AtMost(order.fulfilled[i] + n, Bought[i])
<1>1. Bought[i] \in 1..MaxInt /\ n \in 1..MaxInt /\ Bought[i] + n <= MaxInt /\ MaxInt \in Nat
  BY OrderApiAssumption DEF NoOverflow
<1>2. Wrapped(order.fulfilled[i] + n) = order.fulfilled[i] + n
  BY <1>1 DEF Wrapped
<1> QED
  BY <1>1, <1>2 DEF Fulfilled, AtMost

LEMMA MovedByType ==
    ASSUME NEW event \in Event, NEW i \in Items
    PROVE  MovedBy(event, i) \in Nat
<1>1. event.quantities \in [Items -> Quantities \cup {0}]
  BY DEF Event
<1>2. event.quantities[i] \in Nat
  <2>1. event.quantities[i] \in Quantities \/ event.quantities[i] = 0
    BY <1>1
  <2>2. \A n \in Quantities : n \in Nat
    BY OrderApiAssumption
  <2> QED
    BY <2>1, <2>2
<1> QED
  BY <1>2 DEF MovedBy

(* The quantities that the events of an order name for an item. *)
LEMMA MovedInType ==
    ASSUME NEW events \in Seq(Event), NEW i \in Items
    PROVE  LET amounts == [n \in DOMAIN events |-> MovedBy(events[n], i)]
           IN  /\ amounts \in Seq(Nat) /\ Len(amounts) = Len(events)
               /\ Total(amounts) \in Nat
<1> DEFINE amounts == [n \in DOMAIN events |-> MovedBy(events[n], i)]
<1>1. Len(events) \in Nat /\ DOMAIN events = 1..Len(events)
      /\ \A n \in 1..Len(events) : events[n] \in Event
  OBVIOUS
<1>2. amounts \in [1..Len(events) -> Nat]
  BY <1>1, MovedByType
<1> HIDE DEF amounts
<1>3. amounts \in Seq(Nat) /\ Len(amounts) = Len(events)
  BY <1>1, <1>2, ListedByIndex, Zenon
<1>4. Total(amounts) \in Nat
  BY <1>3, SumsNat
<1> QED
  BY <1>3, <1>4 DEF amounts

(* An event adds its own quantities. *)
LEMMA MovedInGrows ==
    ASSUME NEW order \in Order, NEW event \in Event, NEW i \in Items
    PROVE  /\ MovedIn(order, i) \in Nat /\ MovedBy(event, i) \in Nat
           /\ MovedIn(WithEvent(order, event), i) = MovedIn(order, i) + MovedBy(event, i)
<1> DEFINE events == order.events
           longer == WithEvent(order, event).events
           amounts == [n \in DOMAIN events |-> MovedBy(events[n], i)]
           more == [n \in DOMAIN longer |-> MovedBy(longer[n], i)]
<1>1. /\ longer = Append(events, event) /\ events \in Seq(Event) /\ longer \in Seq(Event)
  BY WithEventFields DEF Order
<1>2. MovedBy(event, i) \in Nat
  BY MovedByType
<1>3. MovedIn(order, i) = Total(amounts) /\ MovedIn(WithEvent(order, event), i) = Total(more)
  BY DEF MovedIn
<1> HIDE DEF longer, events
<1>4. /\ Len(events) \in Nat /\ DOMAIN events = 1..Len(events) /\ Len(longer) = Len(events) + 1
      /\ DOMAIN longer = 1..(Len(events) + 1) /\ longer[Len(events) + 1] = event
      /\ \A n \in 1..Len(events) : longer[n] = events[n]
  BY <1>1
<1>5. /\ amounts \in Seq(Nat) /\ Len(amounts) = Len(events) /\ Total(amounts) \in Nat
      /\ more \in Seq(Nat) /\ Len(more) = Len(longer)
  BY <1>1, MovedInType
<1>6. /\ \A n \in 1..Len(events) : more[n] = amounts[n]
      /\ more[Len(events) + 1] = MovedBy(event, i)
  BY <1>4
<1> HIDE DEF more, amounts
<1>7. amounts \in Seq(Int) /\ more \in Seq(Int)
  BY <1>5
<1>8. Total(more) = Total(amounts) + MovedBy(event, i)
  BY <1>4, <1>5, <1>6, <1>7, TotalLonger
<1> QED
  BY <1>2, <1>3, <1>5, <1>8

LEMMA WithEventSound ==
    ASSUME NoOverflow, NEW order \in Order, Sound(order), NEW event \in Event
    PROVE  /\ Sound(WithEvent(order, event))
           /\ \A i \in Items : WithEvent(order, event).fulfilled[i] >= order.fulfilled[i]
<1> DEFINE new == WithEvent(order, event)
<1> SUFFICES ASSUME NEW i \in Items
             PROVE  /\ new.fulfilled[i] = AtMost(MovedIn(new, i), Bought[i])
                    /\ new.fulfilled[i] \in 0..Bought[i]
                    /\ new.status[i] = IF new.fulfilled[i] = 0 THEN "processing"
                                       ELSE IF new.fulfilled[i] < Bought[i] THEN "partial"
                                       ELSE "fulfilled"
                    /\ new.fulfilled[i] >= order.fulfilled[i]
  BY DEF Sound, Agrees
<1>1. Bought[i] \in 1..MaxInt /\ MaxInt \in Nat
  BY OrderApiAssumption
<1>2. /\ order.fulfilled[i] \in 0..Bought[i]
      /\ order.fulfilled[i] = AtMost(MovedIn(order, i), Bought[i])
  BY DEF Sound, Agrees
<1>3. /\ MovedIn(order, i) \in Nat /\ MovedBy(event, i) \in Nat
      /\ MovedIn(new, i) = MovedIn(order, i) + MovedBy(event, i)
  BY MovedInGrows
<1>4. CASE /\ MovedBy(event, i) = 0
           /\ new.fulfilled[i] = order.fulfilled[i] /\ new.status[i] = order.status[i]
  <2>1. MovedIn(new, i) = MovedIn(order, i)
    BY <1>3, <1>4
  <2> QED
    BY <1>1, <1>2, <1>4, <2>1 DEF Sound
<1>5. CASE \E n \in Quantities : /\ MovedBy(event, i) = n
                                 /\ new.fulfilled[i] = Fulfilled(order, i, n)
                                 /\ new.status[i] = Status(order, i, Fulfilled(order, i, n))
  <2>1. PICK n \in Quantities : /\ MovedBy(event, i) = n
                                /\ new.fulfilled[i] = Fulfilled(order, i, n)
                                /\ new.status[i] = Status(order, i, Fulfilled(order, i, n))
    BY <1>5
  <2>2. /\ Fulfilled(order, i, n) \in 1..Bought[i]
        /\ Fulfilled(order, i, n) >= order.fulfilled[i]
        /\ Fulfilled(order, i, n) = AtMost(order.fulfilled[i] + n, Bought[i])
    BY <1>2, FulfilledSound
  <2>3. n \in Nat
    BY <1>3, <2>1
  <2> HIDE DEF new
  <2>4. new.fulfilled[i] = AtMost(MovedIn(new, i), Bought[i])
    BY <1>1, <1>2, <1>3, <2>1, <2>2, <2>3 DEF AtMost
  <2> QED
    BY <1>1, <2>1, <2>2, <2>4 DEF Status
<1>6. \/ /\ MovedBy(event, i) = 0
         /\ new.fulfilled[i] = order.fulfilled[i] /\ new.status[i] = order.status[i]
      \/ \E n \in Quantities : /\ MovedBy(event, i) = n
                               /\ new.fulfilled[i] = Fulfilled(order, i, n)
                               /\ new.status[i] = Status(order, i, Fulfilled(order, i, n))
  BY WithEventFields
<1> QED
  BY <1>4, <1>5, <1>6

LEMMA WithAdjustmentSound ==
    ASSUME NEW order \in Order, Sound(order), NEW id \in Entries
    PROVE  Sound(WithAdjustment(order, id))
BY WithAdjustmentFields DEF Sound, Agrees, MovedIn

LEMMA NewOrderSound == Sound(NewOrder)
<1>1. \A i \in Items : MovedIn(NewOrder, i) = 0
  <2> TAKE i \in Items
  <2>1. [n \in DOMAIN NewOrder.events |-> MovedBy(NewOrder.events[n], i)] = <<>>
    BY DEF NewOrder
  <2> QED
    BY <2>1, TotalOfNone DEF MovedIn
<1>2. Agrees(NewOrder)
  BY <1>1, OrderApiAssumption DEF Agrees, AtMost, NewOrder
<1> QED
  BY <1>2, OrderApiAssumption DEF NewOrder, Sound

SoundInv == /\ TypeOK
            /\ \A o \in Orders : Known(o) => Sound(orders[o])
            /\ \A r \in Requests : At(r, "writing") => Sound(slot[r].copy)

LEMMA SoundStep ==
    ASSUME NoOverflow
    PROVE  SoundInv /\ [Next]_vars => SoundInv'
<1> SUFFICES ASSUME SoundInv, [Next]_vars PROVE SoundInv'
  OBVIOUS
<1>0. TypeOK /\ TypeOK'
  BY TypeStep DEF SoundInv
<1>1. CASE UNCHANGED vars
  BY <1>0, <1>1 DEF vars, SoundInv, Known, At, Sound
<1>2. ASSUME NEW o \in Orders, InsertOrder(o) PROVE SoundInv'
  <2>1. \A p \in Orders : Known(p)' => Sound(orders'[p])
    BY <1>0, <1>2, NewOrderSound DEF InsertOrder, TypeOK, SoundInv, Known
  <2> QED
    BY <1>0, <1>2, <2>1 DEF InsertOrder, SoundInv, At, Sound
<1>3. ASSUME NEW r \in Requests, Begin(r) \/ Refuse(r) \/ Disconnect(r) PROVE SoundInv'
  <2>1. orders' = orders
    BY <1>3 DEF Begin, Refuse, Disconnect
  <2>2. slot'[r].pc # "writing" /\ \A q \in Requests : q # r => slot'[q] = slot[q]
    BY <1>0, <1>3 DEF TypeOK, Begin, Refuse, Disconnect, IdleSlot
  <2> QED
    BY <1>0, <2>1, <2>2 DEF SoundInv, Known, At, Sound
<1>4. ASSUME NEW r \in Requests, AddFulfillmentEvent(r) \/ AddAdjustment(r) PROVE SoundInv'
  <2> DEFINE o == slot[r].order
  <2>1. /\ o \in Orders /\ orders[o] \in Order /\ orders' = orders
    BY <1>0, <1>4, CopyMade
  <2>2. PICK copy \in Order :
            /\ slot' = [slot EXCEPT ![r] = [pc |-> "writing", order |-> o, copy |-> copy]]
            /\ \/ \E event \in Event : copy = WithEvent(orders[o], event)
               \/ \E id \in Entries : copy = WithAdjustment(orders[o], id)
    BY <1>0, <1>4, CopyMade
  <2>3. Sound(orders[o])
    BY <2>1, OrderApiAssumption DEF SoundInv, Known
  <2>4. Sound(copy)
    BY <2>1, <2>2, <2>3, WithEventSound, WithAdjustmentSound
  <2>5. slot'[r].copy = copy /\ \A q \in Requests : q # r => slot'[q] = slot[q]
    BY <1>0, <2>2 DEF TypeOK
  <2>6. \A q \in Requests : At(q, "writing")' => Sound(slot'[q].copy)
    BY <2>4, <2>5 DEF SoundInv, At
  <2> QED
    BY <1>0, <2>1, <2>6 DEF SoundInv, Known, Sound
<1>5. ASSUME NEW r \in Requests, UpdateOrder(r) PROVE SoundInv'
  <2>1. slot[r].order \in Orders /\ slot[r].copy \in Order /\ Sound(slot[r].copy)
    BY <1>0, <1>5, SlotFields DEF UpdateOrder, At, SoundInv
  <2>2. \A p \in Orders : orders'[p] \in {orders[p], slot[r].copy}
    BY <1>0, <1>5, <2>1 DEF UpdateOrder, TypeOK
  <2>3. slot'[r].pc # "writing" /\ \A q \in Requests : q # r => slot'[q] = slot[q]
    BY <1>0, <1>5 DEF TypeOK, UpdateOrder, IdleSlot
  <2>4. \A p \in Orders : Known(p)' => Sound(orders'[p])
    BY <2>1, <2>2 DEF SoundInv, Known
  <2>5. \A q \in Requests : At(q, "writing")' => Sound(slot'[q].copy)
    BY <2>3 DEF SoundInv, At
  <2> QED
    BY <1>0, <2>4, <2>5 DEF SoundInv, Sound
<1> QED
  BY <1>1, <1>2, <1>3, <1>4, <1>5 DEF Next

LEMMA InitSoundInv == Init => SoundInv
BY InitTypeOK DEF Init, SoundInv, Known, At, IdleSlot

LEMMA SoundInvariance ==
    ASSUME NoOverflow
    PROVE  Spec => []SoundInv
<1>1. SoundInv /\ [Next]_vars => SoundInv'
  BY SoundStep
<1> QED
  BY <1>1, InitSoundInv, PTL DEF Spec

(* Short of the 32-bit limit, the fulfilled quantities of every order are  *)
(* what its events add up to, limited to what was bought, however many     *)
(* events it has and however handlers overwrite each other                 *)
(* (update_line_item_quantities, add_fulfillment_event).                   *)
THEOREM FulfilledAgrees ==
    ASSUME NoOverflow
    PROVE  Spec => []FulfilledAgreesWithEvents
<1>1. SoundInv => FulfilledAgreesWithEvents
  BY DEF SoundInv, Sound, Agrees, FulfilledAgreesWithEvents
<1> QED
  BY <1>1, SoundInvariance, PTL

(* Short of the 32-bit limit, every item's status follows its quantities   *)
(* and nothing is fulfilled more than it was bought, whoever changes the   *)
(* order.                                                                  *)
THEOREM StatusIsTrue ==
    ASSUME NoOverflow
    PROVE  Spec => []StatusFollowsQuantities
<1>1. SoundInv => StatusFollowsQuantities
  BY DEF SoundInv, Sound, StatusFollowsQuantities
<1> QED
  BY <1>1, SoundInvariance, PTL

-----------------------------------------------------------------------------
(* Entries are append-only when the order has one client. *)

LongerThan(new, old) == /\ IsPrefix(old.events, new.events)
                        /\ IsPrefix(old.adjustments, new.adjustments)

LEMMA PrefixOfItself ==
    ASSUME NEW S, NEW s \in Seq(S)
    PROVE  IsPrefix(s, s)
BY DEF IsPrefix

LEMMA PrefixOfAppend ==
    ASSUME NEW S, NEW s \in Seq(S), NEW e \in S
    PROVE  IsPrefix(s, Append(s, e))
BY DEF IsPrefix

LEMMA LongerThanItself ==
    ASSUME NEW order \in Order
    PROVE  LongerThan(order, order)
BY PrefixOfItself DEF LongerThan, Order

LEMMA WithEventLonger ==
    ASSUME NEW order \in Order, NEW event \in Event
    PROVE  LongerThan(WithEvent(order, event), order)
<1>1. order.events \in Seq(Event) /\ order.adjustments \in Seq(Entries)
  BY DEF Order
<1>2. IsPrefix(order.events, Append(order.events, event))
  BY <1>1, PrefixOfAppend
<1>3. IsPrefix(order.adjustments, order.adjustments)
  BY <1>1, PrefixOfItself
<1>4. /\ WithEvent(order, event).events = Append(order.events, event)
      /\ WithEvent(order, event).adjustments = order.adjustments
  BY WithEventFields
<1> QED
  BY <1>2, <1>3, <1>4, Zenon DEF LongerThan

LEMMA WithAdjustmentLonger ==
    ASSUME NEW order \in Order, NEW id \in Entries
    PROVE  LongerThan(WithAdjustment(order, id), order)
<1>1. order.events \in Seq(Event) /\ order.adjustments \in Seq(Entries)
  BY DEF Order
<1>2. IsPrefix(order.adjustments, Append(order.adjustments, id))
  BY <1>1, PrefixOfAppend
<1>3. IsPrefix(order.events, order.events)
  BY <1>1, PrefixOfItself
<1>4. /\ WithAdjustment(order, id).adjustments = Append(order.adjustments, id)
      /\ WithAdjustment(order, id).events = order.events
  BY WithAdjustmentFields
<1> QED
  BY <1>2, <1>3, <1>4, Zenon DEF LongerThan

(* What a handler is about to write to an order of one client adds to what *)
(* the store holds: nobody changes the order between its read and write.   *)
CopiesAddTo ==
    \A r \in Requests :
        /\ slot[r].pc # "idle" => slot[r].order \in Changes[r]
        /\ At(r, "writing") => Known(slot[r].order)
        /\ At(r, "writing") /\ HasOneClient(slot[r].order)
               => LongerThan(slot[r].copy, orders[slot[r].order])

AppendInv == TypeOK /\ CopiesAddTo

LEMMA AppendStep == AppendInv /\ [Next]_vars => AppendInv'
<1> SUFFICES ASSUME AppendInv, [Next]_vars PROVE CopiesAddTo'
  BY TypeStep DEF AppendInv
<1>0. TypeOK
  BY DEF AppendInv
<1>1. CASE UNCHANGED vars
  BY <1>1 DEF vars, AppendInv, CopiesAddTo, Known, At, LongerThan
<1>2. ASSUME NEW o \in Orders, InsertOrder(o) PROVE CopiesAddTo'
  <2>1. \A p \in Orders : Known(p) => orders'[p] = orders[p]
    BY <1>0, <1>2 DEF InsertOrder, TypeOK
  <2>2. \A r \in Requests : At(r, "writing") => slot[r].order \in Orders
    BY <1>0, SlotFields DEF At
  <2> QED
    BY <1>2, <2>1, <2>2 DEF InsertOrder, AppendInv, CopiesAddTo, Known, At, LongerThan
<1>3. ASSUME NEW r \in Requests, Begin(r) \/ Refuse(r) \/ Disconnect(r) PROVE CopiesAddTo'
  <2>1. orders' = orders
    BY <1>3 DEF Begin, Refuse, Disconnect
  <2>2. /\ slot'[r].pc # "writing"
        /\ slot'[r].pc # "idle" => slot'[r].order \in Changes[r]
        /\ \A q \in Requests : q # r => slot'[q] = slot[q]
    BY <1>0, <1>3 DEF TypeOK, Begin, Refuse, Disconnect, IdleSlot
  <2> QED
    BY <2>1, <2>2 DEF AppendInv, CopiesAddTo, Known, At, LongerThan
<1>4. ASSUME NEW r \in Requests, AddFulfillmentEvent(r) \/ AddAdjustment(r) PROVE CopiesAddTo'
  <2> DEFINE o == slot[r].order
  <2>1. /\ o \in Orders /\ orders[o] \in Order /\ orders' = orders /\ slot[r].pc = "lookup"
    BY <1>0, <1>4, CopyMade
  <2>2. PICK copy \in Order :
            /\ slot' = [slot EXCEPT ![r] = [pc |-> "writing", order |-> o, copy |-> copy]]
            /\ \/ \E event \in Event : copy = WithEvent(orders[o], event)
               \/ \E id \in Entries : copy = WithAdjustment(orders[o], id)
    BY <1>0, <1>4, CopyMade
  <2>3. LongerThan(copy, orders[o])
    BY <2>1, <2>2, WithEventLonger, WithAdjustmentLonger
  <2>4. Known(o) /\ o \in Changes[r]
    BY <2>1, OrderApiAssumption DEF Known, AppendInv, CopiesAddTo
  <2>5. /\ slot'[r] = [pc |-> "writing", order |-> o, copy |-> copy]
        /\ \A q \in Requests : q # r => slot'[q] = slot[q]
    BY <1>0, <2>2 DEF TypeOK
  <2> HIDE DEF o
  <2> QED
    BY <2>1, <2>3, <2>4, <2>5 DEF AppendInv, CopiesAddTo, Known, At, LongerThan
<1>5. ASSUME NEW r \in Requests, UpdateOrder(r) PROVE CopiesAddTo'
  <2>1. slot'[r].pc = "idle" /\ \A q \in Requests : q # r => slot'[q] = slot[q]
    BY <1>0, <1>5 DEF TypeOK, UpdateOrder, IdleSlot
  <2>2. \A p \in Orders : p # slot[r].order => orders'[p] = orders[p]
    BY <1>0, <1>5 DEF UpdateOrder, TypeOK
  <2>3. \A q \in Requests : q # r /\ At(q, "writing")
                            => /\ slot[q].order \in Orders
                               /\ HasOneClient(slot[q].order) => slot[q].order # slot[r].order
    BY <1>0, <1>5, SlotFields DEF UpdateOrder, At, AppendInv, CopiesAddTo, HasOneClient
  <2>4. orders'[slot[r].order] # NoOrder
    BY <1>0, <1>5, SlotFields, OrderApiAssumption DEF UpdateOrder, TypeOK, At
  <2>5. \A q \in Requests : At(q, "writing") => orders'[slot[q].order] # NoOrder
    BY <1>0, <2>2, <2>4, SlotFields DEF AppendInv, CopiesAddTo, Known, At
  <2> QED
    BY <2>1, <2>2, <2>3, <2>5 DEF AppendInv, CopiesAddTo, Known, At, LongerThan
<1> QED
  BY <1>1, <1>2, <1>3, <1>4, <1>5 DEF Next

LEMMA InitAppendInv == Init => AppendInv
BY InitTypeOK DEF Init, AppendInv, CopiesAddTo, At, IdleSlot

(* What a step does to the orders the store knows. *)
LEMMA OrdersStep ==
    ASSUME TypeOK, [Next]_vars, NEW o \in Orders, Known(o)
    PROVE  \/ orders'[o] = orders[o]
           \/ \E r \in Requests : /\ UpdateOrder(r) /\ slot[r].order = o
                                  /\ orders'[o] = slot[r].copy
<1>1. CASE UNCHANGED vars
  BY <1>1 DEF vars
<1>2. ASSUME NEW p \in Orders, InsertOrder(p) PROVE orders'[o] = orders[o]
  BY <1>2 DEF InsertOrder, TypeOK
<1>3. ASSUME NEW r \in Requests,
             Begin(r) \/ Refuse(r) \/ Disconnect(r) \/ AddFulfillmentEvent(r) \/ AddAdjustment(r)
      PROVE  orders'[o] = orders[o]
  BY <1>3 DEF Begin, Refuse, Disconnect, AddFulfillmentEvent, AddAdjustment
<1>4. ASSUME NEW r \in Requests, UpdateOrder(r)
      PROVE  \/ orders'[o] = orders[o]
             \/ UpdateOrder(r) /\ slot[r].order = o /\ orders'[o] = slot[r].copy
  BY <1>4 DEF UpdateOrder, TypeOK
<1> QED
  BY <1>1, <1>2, <1>3, <1>4 DEF Next

(* A client with an order of its own never loses an event or an            *)
(* adjustment, nor sees two of them change places.                         *)
THEOREM EntriesAreKept == Spec => EntriesAreAppendOnly
<1>1. ASSUME AppendInv, [Next]_vars, NEW o \in Orders, Known(o), HasOneClient(o)
      PROVE  OnlyAppended(o)
  <2>1. TypeOK /\ orders[o] \in Order
    BY <1>1 DEF AppendInv, TypeOK, Known
  <2>2. CASE orders'[o] = orders[o]
    BY <2>1, <2>2, LongerThanItself DEF LongerThan, OnlyAppended
  <2>3. CASE \E r \in Requests : /\ UpdateOrder(r) /\ slot[r].order = o
                                 /\ orders'[o] = slot[r].copy
    BY <1>1, <2>3 DEF AppendInv, CopiesAddTo, UpdateOrder, LongerThan, OnlyAppended
  <2> QED
    BY <1>1, <2>1, <2>2, <2>3, OrdersStep
<1>2. AppendInv /\ [Next]_vars
          => [\A o \in Orders : Known(o) /\ HasOneClient(o) => OnlyAppended(o)]_vars
  BY <1>1
<1>3. AppendInv /\ [Next]_vars => AppendInv'
  BY AppendStep
<1> QED
  BY <1>2, <1>3, InitAppendInv, PTL DEF Spec, EntriesAreAppendOnly

-----------------------------------------------------------------------------
(* Fulfillment only grows. *)

FulfilledMore(new, old) == \A i \in Items : new.fulfilled[i] >= old.fulfilled[i]

CopiesFulfillMore ==
    \A r \in Requests : At(r, "writing") /\ HasOneClient(slot[r].order)
                            => FulfilledMore(slot[r].copy, orders[slot[r].order])

GrowInv == SoundInv /\ AppendInv /\ CopiesFulfillMore

LEMMA FulfilledMoreThanItself ==
    ASSUME NEW order \in Order
    PROVE  FulfilledMore(order, order)
<1>1. \A i \in Items : order.fulfilled[i] \in (-MaxInt - 1)..MaxInt
  BY DEF Order
<1> QED
  BY <1>1, OrderApiAssumption DEF FulfilledMore

LEMMA GrowStep ==
    ASSUME NoOverflow
    PROVE  GrowInv /\ [Next]_vars => GrowInv'
<1> SUFFICES ASSUME GrowInv, [Next]_vars PROVE CopiesFulfillMore'
  BY SoundStep, AppendStep DEF GrowInv
<1>0. TypeOK
  BY DEF GrowInv, SoundInv
<1>1. CASE UNCHANGED vars
  BY <1>1 DEF vars, GrowInv, CopiesFulfillMore, At, FulfilledMore
<1>2. ASSUME NEW o \in Orders, InsertOrder(o) PROVE CopiesFulfillMore'
  <2>1. \A p \in Orders : Known(p) => orders'[p] = orders[p]
    BY <1>0, <1>2 DEF InsertOrder, TypeOK
  <2>2. \A r \in Requests : At(r, "writing") => slot[r].order \in Orders /\ Known(slot[r].order)
    BY <1>0, SlotFields DEF At, GrowInv, AppendInv, CopiesAddTo
  <2> QED
    BY <1>2, <2>1, <2>2 DEF InsertOrder, GrowInv, CopiesFulfillMore, At, FulfilledMore
<1>3. ASSUME NEW r \in Requests, Begin(r) \/ Refuse(r) \/ Disconnect(r)
      PROVE  CopiesFulfillMore'
  <2>1. orders' = orders
    BY <1>3 DEF Begin, Refuse, Disconnect
  <2>2. slot'[r].pc # "writing" /\ \A q \in Requests : q # r => slot'[q] = slot[q]
    BY <1>0, <1>3 DEF TypeOK, Begin, Refuse, Disconnect, IdleSlot
  <2> QED
    BY <2>1, <2>2 DEF GrowInv, CopiesFulfillMore, At, FulfilledMore
<1>4. ASSUME NEW r \in Requests, AddFulfillmentEvent(r) \/ AddAdjustment(r)
      PROVE  CopiesFulfillMore'
  <2> DEFINE o == slot[r].order
  <2>1. /\ o \in Orders /\ orders[o] \in Order /\ orders' = orders
    BY <1>0, <1>4, CopyMade
  <2>2. PICK copy \in Order :
            /\ slot' = [slot EXCEPT ![r] = [pc |-> "writing", order |-> o, copy |-> copy]]
            /\ \/ \E event \in Event : copy = WithEvent(orders[o], event)
               \/ \E id \in Entries : copy = WithAdjustment(orders[o], id)
    BY <1>0, <1>4, CopyMade
  <2>3. Sound(orders[o])
    BY <2>1, OrderApiAssumption DEF GrowInv, SoundInv, Known
  <2>4. FulfilledMore(copy, orders[o])
    <3>1. CASE \E event \in Event : copy = WithEvent(orders[o], event)
      BY <2>1, <2>3, <3>1, WithEventSound DEF FulfilledMore
    <3>2. CASE \E id \in Entries : copy = WithAdjustment(orders[o], id)
      <4>1. copy.fulfilled = orders[o].fulfilled
        BY <2>1, <3>2, WithAdjustmentFields
      <4> QED
        BY <2>1, <4>1, FulfilledMoreThanItself DEF FulfilledMore
    <3> QED
      BY <2>2, <3>1, <3>2
  <2>5. /\ slot'[r].order = o /\ slot'[r].copy = copy
        /\ \A q \in Requests : q # r => slot'[q] = slot[q]
    BY <1>0, <2>2 DEF TypeOK
  <2> HIDE DEF o
  <2> QED
    BY <2>1, <2>4, <2>5 DEF GrowInv, CopiesFulfillMore, At, FulfilledMore
<1>5. ASSUME NEW r \in Requests, UpdateOrder(r) PROVE CopiesFulfillMore'
  <2>1. slot'[r].pc = "idle" /\ \A q \in Requests : q # r => slot'[q] = slot[q]
    BY <1>0, <1>5 DEF TypeOK, UpdateOrder, IdleSlot
  <2>2. \A p \in Orders : p # slot[r].order => orders'[p] = orders[p]
    BY <1>0, <1>5 DEF UpdateOrder, TypeOK
  <2>3. \A q \in Requests : q # r /\ At(q, "writing") /\ HasOneClient(slot[q].order)
                            => slot[q].order \in Orders /\ slot[q].order # slot[r].order
    BY <1>0, <1>5, SlotFields
       DEF UpdateOrder, At, GrowInv, AppendInv, CopiesAddTo, HasOneClient
  <2> QED
    BY <2>1, <2>2, <2>3 DEF GrowInv, CopiesFulfillMore, At, FulfilledMore
<1> QED
  BY <1>1, <1>2, <1>3, <1>4, <1>5 DEF Next

(* Short of the 32-bit limit, nothing that was fulfilled of an order of    *)
(* one client is taken back.                                               *)
THEOREM FulfillmentIsKept ==
    ASSUME NoOverflow
    PROVE  Spec => FulfillmentOnlyGrows
<1>1. ASSUME GrowInv, [Next]_vars, NEW o \in Orders, NEW i \in Items, Known(o), HasOneClient(o)
      PROVE  orders'[o].fulfilled[i] >= orders[o].fulfilled[i]
  <2>1. TypeOK /\ orders[o] \in Order
    BY <1>1 DEF GrowInv, AppendInv, TypeOK, Known
  <2>2. CASE orders'[o] = orders[o]
    BY <2>1, <2>2, FulfilledMoreThanItself DEF FulfilledMore
  <2>3. CASE \E r \in Requests : /\ UpdateOrder(r) /\ slot[r].order = o
                                 /\ orders'[o] = slot[r].copy
    BY <1>1, <2>3 DEF GrowInv, CopiesFulfillMore, UpdateOrder, FulfilledMore
  <2> QED
    BY <1>1, <2>1, <2>2, <2>3, OrdersStep
<1>2. GrowInv /\ [Next]_vars
          => [\A o \in Orders, i \in Items : Known(o) /\ HasOneClient(o)
                  => orders'[o].fulfilled[i] >= orders[o].fulfilled[i]]_vars
  BY <1>1
<1>3. GrowInv /\ [Next]_vars => GrowInv'
  BY GrowStep
<1>4. Init => GrowInv
  BY InitSoundInv, InitAppendInv DEF Init, GrowInv, CopiesFulfillMore, At, IdleSlot
<1> QED
  BY <1>2, <1>3, <1>4, PTL DEF Spec, FulfillmentOnlyGrows

=============================================================================
