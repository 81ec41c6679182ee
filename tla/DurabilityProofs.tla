--------------------------- MODULE DurabilityProofs ---------------------------
(***************************************************************************)
(* Proofs about Durability for any sessions, carts, orders and deadlines.  *)
(***************************************************************************)
EXTENDS Durability, TLAPS

-----------------------------------------------------------------------------
(* The values the operations compute. *)

LEMMA CreatedIsOpen ==
  ASSUME NEW input \in InputSpace
  PROVE  Created(input) \in LiveSession /\ ~Terminal(Created(input))
  BY DEF Created, NoSession, Updated, ApplyStatus, StatusOf, Given, LiveSession, InputSpace,
         Buyers, Payments, Fulfillments, Statuses, OpenStatuses, Terminal, TerminalStatuses

LEMMA UpdatedIsOpen ==
  ASSUME NEW s \in LiveSession, NEW input \in InputSpace
  PROVE  Updated(s, input) \in LiveSession /\ ~Terminal(Updated(s, input))
  BY DEF Updated, ApplyStatus, StatusOf, Given, LiveSession, InputSpace,
         Buyers, Payments, Fulfillments, Statuses, OpenStatuses, Terminal, TerminalStatuses

LEMMA EndedIsTerminal ==
  ASSUME NEW s \in LiveSession
  PROVE  /\ Canceled(s) \in LiveSession /\ Terminal(Canceled(s))
         /\ \A instrument \in {"usable", "card_incomplete"}, o \in Orders :
               LET done == Completed(Attached(s, instrument), o)
               IN  done \in LiveSession /\ Terminal(done)
  <1>1. Canceled(s) \in LiveSession /\ Terminal(Canceled(s))
    BY DEF Canceled, LiveSession, Statuses, Terminal, TerminalStatuses
  <1>2. ASSUME NEW instrument \in {"usable", "card_incomplete"}, NEW o \in Orders
        PROVE  LET done == Completed(Attached(s, instrument), o)
               IN  done \in LiveSession /\ Terminal(done)
    <2> DEFINE a == Attached(s, instrument)
    <2>1. a \in LiveSession
      BY DEF Attached, ApplyStatus, StatusOf, LiveSession, Payments, Statuses, OpenStatuses
    <2>2. Completed(a, o) \in LiveSession /\ Terminal(Completed(a, o))
      <3> HIDE DEF a
      <3>1. QED
        BY <2>1 DEF Completed, LiveSession, Statuses, Terminal, TerminalStatuses
    <2>3. QED
      BY <2>2
  <1>3. QED
    BY <1>1, <1>2

(* What a cart gives back is a session, with or without an overlay. *)
LEMMA SessionOfCartType ==
  ASSUME TypeOK, NEW c \in Checkouts, carts[c] # NoCart
  PROVE  SessionOfCart(c) \in LiveSession
  <1>1. carts[c] \in Cart /\ overlays[c] \in Overlay \cup {NoOverlay}
    BY DEF TypeOK
  <1>2. StatusOfCart(carts[c].status) \in Statuses
    BY <1>1 DEF StatusOfCart, Statuses, OpenStatuses, TerminalStatuses, Cart, CartStatuses
  <1>3. QED
    BY <1>1, <1>2 DEF SessionOfCart, LiveSession, Cart, Overlay, Payments, Fulfillments

-----------------------------------------------------------------------------
(* The type invariant. *)

LEMMA InsertType ==
  ASSUME TypeOK, NEW c \in Checkouts, NEW s \in LiveSession, Insert(c, s)
  PROVE  /\ cache' \in [Checkouts -> Entry \cup {NoEntry}]
         /\ cache' = [cache EXCEPT ![c] = [session |-> s, until |-> clock + Ttl]]
         /\ overlays' \in [Checkouts -> Overlay \cup {NoOverlay}]
         /\ carts' \in [Checkouts -> Cart \cup {NoCart}]
         /\ copies' \in [Checkouts -> 0..MaxCopies]
  <1>1. [session |-> s, until |-> clock + Ttl] \in Entry
    BY DurabilityAssumption DEF TypeOK, Entry
  <1>2. [payment |-> s.payment, fulfillment |-> s.fulfillment] \in Overlay
    BY DEF Overlay, LiveSession
  <1>3. /\ carts' \in [Checkouts -> Cart \cup {NoCart}]
        /\ copies' \in [Checkouts -> 0..MaxCopies]
    <2>1. CASE carts[c] = NoCart /\ CreateCart(c, s)
      BY <2>1, DurabilityAssumption DEF CreateCart, TypeOK
    <2>2. CASE carts[c] # NoCart /\ UpdateCart(c, s)
      <3>1. carts[c] \in Cart
        BY <2>2 DEF TypeOK
      <3>2. [carts[c] EXCEPT !.buyer = IF s.buyer = "with_email" THEN s.buyer ELSE @] \in Cart
        BY <3>1 DEF Cart, LiveSession
      <3>3. QED
        BY <2>2, <3>2 DEF UpdateCart, TypeOK
    <2>3. CASE UNCHANGED engineVars
      BY <2>3 DEF engineVars, TypeOK
    <2>4. QED
      BY <2>1, <2>2, <2>3 DEF Insert, SyncToEngine
  <1>4. QED
    BY <1>1, <1>2, <1>3 DEF Insert, TypeOK

LEMMA TypeStep ==
  ASSUME TypeOK, [Next]_vars
  PROVE  TypeOK'
  <1> USE DEF TypeOK
  <1>1. CASE Tick
    BY <1>1, DurabilityAssumption DEF Tick, volatile, engineVars, history
  <1>2. CASE Restart
    BY <1>2 DEF Restart, engineVars, history
  <1>3. CASE StoreOrder
    BY <1>3 DEF StoreOrder, engineVars, history
  <1>4. ASSUME NEW c \in Checkouts, Create(c)
        PROVE  TypeOK'
    <2>1. PICK input \in InputSpace : Insert(c, Created(input))
      BY <1>4, DurabilityAssumption DEF Create
    <2>2. Created(input) \in LiveSession
      BY CreatedIsOpen
    <2>3. 1 \in 0..MaxAdoptions
      BY DurabilityAssumption
    <2>4. QED
      BY <1>4, <2>1, <2>2, <2>3, InsertType DEF Create
  <1>5. ASSUME NEW c \in Checkouts, Evict(c)
        PROVE  TypeOK'
    BY <1>5 DEF Evict, engineVars, history
  <1>6. ASSUME NEW c \in Checkouts, Load(c)
        PROVE  TypeOK'
    <2>1. SessionOfCart(c) \in LiveSession
      BY <1>6, SessionOfCartType DEF Load, CartAlive
    <2>2. AdoptedDeadline(c) \in Nat
      BY <1>6, DurabilityAssumption DEF Load, CartAlive, AdoptedDeadline, Cart, Deadline
    <2>3. [session |-> SessionOfCart(c), until |-> AdoptedDeadline(c)] \in Entry
      BY <2>1, <2>2 DEF Entry
    <2>4. QED
      BY <1>6, <2>3, DurabilityAssumption DEF Load, engineVars
  <1>7. ASSUME NEW c \in Checkouts, Update(c)
        PROVE  TypeOK'
    <2>1. cache[c].session \in LiveSession
      BY <1>7 DEF Update, Hit, Cached, Entry
    <2>2. PICK input \in InputSpace : Insert(c, Updated(cache[c].session, input))
      BY <1>7, DurabilityAssumption DEF Update
    <2>3. Updated(cache[c].session, input) \in LiveSession
      BY <2>1, UpdatedIsOpen
    <2>4. QED
      BY <1>7, <2>2, <2>3, InsertType DEF Update, history
  <1>8. ASSUME NEW c \in Checkouts, Cancel(c)
        PROVE  TypeOK'
    <2>1. cache[c].session \in LiveSession
      BY <1>8 DEF Cancel, Hit, Cached, Entry
    <2>2. Canceled(cache[c].session) \in LiveSession
      BY <2>1, EndedIsTerminal
    <2>3. QED
      BY <1>8, <2>2, InsertType DEF Cancel, history
  <1>9. ASSUME NEW c \in Checkouts, Complete(c)
        PROVE  TypeOK'
    <2>1. cache[c].session \in LiveSession
      BY <1>9 DEF Complete, Hit, Cached, Entry
    <2>2. PICK instrument \in {"usable", "card_incomplete"}, o \in Orders :
             /\ Insert(c, Completed(Attached(cache[c].session, instrument), o))
             /\ queue' = Append(queue, o)
             /\ confirmed' = confirmed \cup {o}
      BY <1>9 DEF Complete
    <2>3. Completed(Attached(cache[c].session, instrument), o) \in LiveSession
      BY <2>1, EndedIsTerminal
    <2>4. queue' \in Seq(Orders) /\ confirmed' \subseteq Orders
      BY <2>2
    <2>5. QED
      BY <1>9, <2>2, <2>3, <2>4, InsertType DEF Complete
  <1>10. ASSUME NEW c \in Checkouts, CartWork(c)
         PROVE  TypeOK'
    <2>1. carts' \in [Checkouts -> Cart \cup {NoCart}]
      <3>1. ASSUME NEW buyer \in Buyers, NEW deadline \in CartDeadlines,
                   carts' = [carts EXCEPT ![c] = [status |-> "Active", buyer |-> buyer,
                                                  deadline |-> deadline]]
            PROVE  carts' \in [Checkouts -> Cart \cup {NoCart}]
        <4>1. [status |-> "Active", buyer |-> buyer, deadline |-> deadline] \in Cart
          BY DurabilityAssumption DEF Cart, CartStatuses, Deadline
        <4>2. QED
          BY <3>1, <4>1
      <3>2. ASSUME NEW status \in CartStatuses, carts[c] # NoCart,
                   carts' = [carts EXCEPT ![c].status = status]
            PROVE  carts' \in [Checkouts -> Cart \cup {NoCart}]
        <4>1. [carts[c] EXCEPT !.status = status] \in Cart
          BY <3>2 DEF Cart
        <4>2. QED
          BY <3>2, <4>1
      <3>3. QED
        BY <1>10, <3>1, <3>2 DEF CartWork
    <2>2. QED
      BY <1>10, <2>1 DEF CartWork, volatile, history
  <1>11. CASE UNCHANGED vars
    BY <1>11 DEF vars, volatile, engineVars, history
  <1>12. QED
    BY <1>1, <1>2, <1>3, <1>4, <1>5, <1>6, <1>7, <1>8, <1>9, <1>10, <1>11 DEF Next

(* Sessions, carts, orders and deadlines keep their types, whatever ends,  *)
(* restarts and other applications do (CheckoutStore, store.rs).           *)
THEOREM DurabilityTypes == Spec => []TypeOK
  <1>1. Init => TypeOK
    BY DurabilityAssumption DEF Init, TypeOK
  <1>2. TypeOK /\ [Next]_vars => TypeOK'
    BY TypeStep
  <1>3. QED
    BY <1>1, <1>2, PTL DEF Spec

-----------------------------------------------------------------------------
(* Why a session is completed once: while it is open it has been completed *)
(* less often than it was adopted, and a session made here is adopted only *)
(* when it is made, because the engine has no cart under its identifier.   *)

OpenIsUnspent ==
    \A c \in Checkouts :
        /\ completions[c] <= adoptions[c]
        /\ Cached(c) /\ ~Terminal(cache[c].session) => completions[c] < adoptions[c]

OwnHasNoCart == \A c \in Own : carts[c] = NoCart /\ adoptions[c] <= 1

DurableInv == TypeOK /\ OpenIsUnspent /\ OwnHasNoCart

(* What insert leaves alone. *)
LEMMA InsertFrame ==
  ASSUME DurableInv, NEW c \in Checkouts, NEW s \in LiveSession, Insert(c, s)
  PROVE  /\ \A d \in Checkouts \ {c} : cache'[d] = cache[d]
         /\ cache'[c].session = s
         /\ \A d \in Own : carts'[d] = NoCart
  <1>1. \A d \in Own : carts'[d] = NoCart
    <2>1. CASE carts[c] = NoCart /\ CreateCart(c, s)
      BY <2>1 DEF CreateCart, DurableInv, OwnHasNoCart
    <2>2. CASE carts[c] # NoCart /\ UpdateCart(c, s)
      BY <2>2, DurabilityAssumption DEF UpdateCart, DurableInv, OwnHasNoCart, TypeOK
    <2>3. CASE UNCHANGED engineVars
      BY <2>3 DEF engineVars, DurableInv, OwnHasNoCart
    <2>4. QED
      BY <2>1, <2>2, <2>3 DEF Insert, SyncToEngine
  <1>2. QED
    BY <1>1, InsertType DEF DurableInv, TypeOK

LEMMA DurableStep ==
  ASSUME DurableInv, [Next]_vars
  PROVE  DurableInv'
  <1> USE DEF DurableInv
  <1>0. TypeOK'
    BY TypeStep
  <1>1. \A d \in Checkouts : adoptions[d] \in Nat /\ completions[d] \in Nat
    BY DEF TypeOK
  <1>2. CASE Tick \/ StoreOrder \/ UNCHANGED vars
    BY <1>0, <1>2 DEF Tick, StoreOrder, vars, volatile, engineVars, history,
       OpenIsUnspent, OwnHasNoCart, Cached
  <1>3. CASE Restart
    BY <1>0, <1>3 DEF Restart, engineVars, history, OpenIsUnspent, OwnHasNoCart, Cached
  <1>4. ASSUME NEW c \in Checkouts, Create(c)
        PROVE  DurableInv'
    <2>1. PICK input \in InputSpace : Insert(c, Created(input))
      BY <1>4, DurabilityAssumption DEF Create
    <2>2. Created(input) \in LiveSession
      BY CreatedIsOpen
    <2>3. OpenIsUnspent'
      BY <1>1, <1>4, <2>1, <2>2, InsertFrame DEF Create, OpenIsUnspent, Cached, TypeOK
    <2>4. OwnHasNoCart'
      BY <1>4, <2>1, <2>2, InsertFrame DEF Create, OwnHasNoCart, TypeOK
    <2>5. QED
      BY <1>0, <2>3, <2>4
  <1>5. ASSUME NEW c \in Checkouts, Evict(c)
        PROVE  DurableInv'
    BY <1>0, <1>5 DEF Evict, engineVars, history, OpenIsUnspent, OwnHasNoCart, Cached, TypeOK
  <1>6. ASSUME NEW c \in Checkouts, Load(c)
        PROVE  DurableInv'
    <2>1. c \notin Own
      BY <1>6 DEF Load, CartAlive, OwnHasNoCart
    <2>2. OpenIsUnspent'
      BY <1>1, <1>6 DEF Load, engineVars, OpenIsUnspent, Cached, TypeOK
    <2>3. OwnHasNoCart'
      BY <1>6, <2>1, DurabilityAssumption DEF Load, engineVars, OwnHasNoCart, TypeOK
    <2>4. QED
      BY <1>0, <2>2, <2>3
  <1>7. ASSUME NEW c \in Checkouts, Update(c)
        PROVE  DurableInv'
    <2>1. cache[c].session \in LiveSession
      BY <1>7 DEF Update, Hit, Cached, Entry, TypeOK
    <2>2. PICK input \in InputSpace : Insert(c, Updated(cache[c].session, input))
      BY <1>7, DurabilityAssumption DEF Update
    <2>3. Updated(cache[c].session, input) \in LiveSession
      BY <2>1, UpdatedIsOpen
    <2>4. OpenIsUnspent'
      BY <1>7, <2>2, <2>3, InsertFrame DEF Update, history, Hit, OpenIsUnspent, Cached
    <2>5. OwnHasNoCart'
      BY <1>7, <2>2, <2>3, InsertFrame DEF Update, history, OwnHasNoCart
    <2>6. QED
      BY <1>0, <2>4, <2>5
  <1>8. ASSUME NEW c \in Checkouts, Cancel(c)
        PROVE  DurableInv'
    <2>1. cache[c].session \in LiveSession
      BY <1>8 DEF Cancel, Hit, Cached, Entry, TypeOK
    <2>2. Canceled(cache[c].session) \in LiveSession
      BY <2>1, EndedIsTerminal
    <2>3. OpenIsUnspent'
      BY <1>8, <2>2, InsertFrame DEF Cancel, history, Hit, OpenIsUnspent, Cached
    <2>4. OwnHasNoCart'
      BY <1>8, <2>2, InsertFrame DEF Cancel, history, OwnHasNoCart
    <2>5. QED
      BY <1>0, <2>3, <2>4
  <1>9. ASSUME NEW c \in Checkouts, Complete(c)
        PROVE  DurableInv'
    <2>1. cache[c].session \in LiveSession /\ ~Terminal(cache[c].session)
      BY <1>9 DEF Complete, Completable, Terminal, TerminalStatuses, Hit, Cached, Entry, TypeOK
    <2>2. PICK instrument \in {"usable", "card_incomplete"}, o \in Orders :
             Insert(c, Completed(Attached(cache[c].session, instrument), o))
      BY <1>9 DEF Complete
    <2>3. LET done == Completed(Attached(cache[c].session, instrument), o)
          IN  done \in LiveSession /\ Terminal(done)
      BY <2>1, EndedIsTerminal
    <2>4. completions[c] < adoptions[c]
      BY <1>9, <2>1 DEF Complete, Hit, OpenIsUnspent
    <2>5. /\ adoptions' = adoptions
          /\ completions'[c] = completions[c] + 1
          /\ \A d \in Checkouts \ {c} : completions'[d] = completions[d]
      BY <1>9 DEF Complete, TypeOK
    <2>6. OpenIsUnspent'
      BY <1>1, <2>2, <2>3, <2>4, <2>5, InsertFrame DEF OpenIsUnspent, Cached
    <2>7. OwnHasNoCart'
      BY <2>2, <2>3, <2>5, InsertFrame DEF OwnHasNoCart
    <2>8. QED
      BY <1>0, <2>6, <2>7
  <1>10. ASSUME NEW c \in Checkouts, CartWork(c)
         PROVE  DurableInv'
    <2>1. \A d \in Own : carts'[d] = carts[d]
      BY <1>10, DurabilityAssumption DEF CartWork, TypeOK
    <2>2. QED
      BY <1>0, <1>10, <2>1 DEF CartWork, volatile, history, OpenIsUnspent, OwnHasNoCart, Cached
  <1>11. QED
    BY <1>2, <1>3, <1>4, <1>5, <1>6, <1>7, <1>8, <1>9, <1>10 DEF Next

LEMMA DurableInvariance == Spec => []DurableInv
  <1>1. Init => DurableInv
    BY DurabilityAssumption
    DEF Init, DurableInv, TypeOK, OpenIsUnspent, OwnHasNoCart, Cached
  <1>2. DurableInv /\ [Next]_vars => DurableInv'
    BY DurableStep
  <1>3. QED
    BY <1>1, <1>2, PTL DEF Spec

(* No restart, deadline or detour through the engine completes a session   *)
(* made here twice, or an adopted cart more often than it was adopted      *)
(* (get, complete_checkout).                                               *)
THEOREM OrdersFollowAdoptions == Spec => []OneOrderPerAdoption
  <1>1. DurableInv => OneOrderPerAdoption
    BY DurabilityAssumption
    DEF DurableInv, TypeOK, OpenIsUnspent, OwnHasNoCart, OneOrderPerAdoption
  <1>2. QED
    BY <1>1, DurableInvariance, PTL

-----------------------------------------------------------------------------
(* Why a completed session lacks nothing and has its order: the status     *)
(* that lets it be completed is computed once the payment is attached,     *)
(* and what loses the order loses the session.                             *)

(* What completing stores, whatever the session's status was before. *)
LEMMA CompletedIsSettled ==
  ASSUME NEW s \in LiveSession, NEW instrument \in Payments, NEW o \in Orders,
         Attached(s, instrument).status = "ready_for_complete"
  PROVE  LET done == Completed(Attached(s, instrument), o)
         IN  done.order = o /\ done.status = "completed" /\ Settled(done)
  <1> DEFINE a == Attached(s, instrument)
  <1>1. /\ a \in LiveSession
        /\ Settled(a)
    BY DEF Attached, ApplyStatus, StatusOf, Settled, LiveSession, Payments, Statuses,
       OpenStatuses
  <1>2. LET done == Completed(a, o)
        IN  done.order = o /\ done.status = "completed" /\ Settled(done)
    <2> HIDE DEF a
    <2>1. QED
      BY <1>1 DEF Completed, Settled, LiveSession
  <1>3. QED
    BY <1>2

(* An order that waits goes on waiting until it is stored, and then is. *)
LEMMA WaitingLasts ==
  ASSUME TypeOK, StoreOrder, NEW o, Waiting(o)
  PROVE  Waiting(o)'
  <1>1. CASE o \in orders
    BY <1>1 DEF StoreOrder, Waiting
  <1>2. ASSUME NEW i \in DOMAIN queue, queue[i] = o
        PROVE  Waiting(o)'
    <2>1. i \in 1..Len(queue) /\ queue \in Seq(Orders) /\ queue # <<>>
      BY <1>2 DEF TypeOK, StoreOrder
    <2>2. CASE i = 1
      BY <1>2, <2>1, <2>2 DEF StoreOrder, Waiting
    <2>3. CASE i # 1
      <3>1. i - 1 \in 1..Len(Tail(queue)) /\ Tail(queue)[i - 1] = o
        BY <1>2, <2>1, <2>3
      <3>2. i - 1 \in DOMAIN Tail(queue)
        BY <2>1, <3>1
      <3>3. QED
        BY <3>1, <3>2 DEF StoreOrder, Waiting
    <2>4. QED
      BY <2>2, <2>3
  <1>3. QED
    BY <1>1, <1>2 DEF Waiting

(* A session that is stored is whole if what is stored is, and no order is *)
(* lost meanwhile.                                                         *)
LEMMA InsertWhole ==
  ASSUME TypeOK, CompletedIsWhole, NEW c \in Checkouts, NEW s \in LiveSession, Insert(c, s),
         \A o : Waiting(o) => Waiting(o)',
         s.order # NoOrder => s.status = "completed" /\ Settled(s) /\ Waiting(s.order)'
  PROVE  CompletedIsWhole'
  <1>1. cache' = [cache EXCEPT ![c] = [session |-> s, until |-> clock + Ttl]]
    BY InsertType
  <1>2. cache'[c].session = s /\ \A d \in Checkouts \ {c} : cache'[d] = cache[d]
    BY <1>1 DEF TypeOK
  <1>3. QED
    BY <1>2 DEF CompletedIsWhole, Cached

LEMMA WholeStep ==
  ASSUME TypeOK, CompletedIsWhole, [Next]_vars
  PROVE  CompletedIsWhole'
  <1> USE DEF TypeOK
  <1>1. CASE Tick \/ UNCHANGED vars
    BY <1>1 DEF Tick, vars, volatile, CompletedIsWhole, Cached, Waiting
  <1>2. CASE Restart
    BY <1>2 DEF Restart, CompletedIsWhole, Cached
  <1>3. CASE StoreOrder
    <2>1. cache' = cache
      BY <1>3 DEF StoreOrder
    <2>2. QED
      BY <1>3, <2>1, WaitingLasts DEF CompletedIsWhole, Cached
  <1>4. ASSUME NEW c \in Checkouts, Create(c)
        PROVE  CompletedIsWhole'
    <2>1. PICK input \in InputSpace : Insert(c, Created(input))
      BY <1>4, DurabilityAssumption DEF Create
    <2>2. Created(input) \in LiveSession /\ Created(input).order = NoOrder
      BY CreatedIsOpen DEF Created, Updated, ApplyStatus
    <2>3. \A o : Waiting(o) => Waiting(o)'
      BY <1>4 DEF Create, Waiting
    <2>4. QED
      BY <2>1, <2>2, <2>3, InsertWhole
  <1>5. ASSUME NEW c \in Checkouts, Evict(c) \/ Load(c)
        PROVE  CompletedIsWhole'
    <2>1. /\ \A d \in Checkouts \ {c} : cache'[d] = cache[d]
          /\ cache'[c] = NoEntry \/ cache'[c].session.order = NoOrder
          /\ queue' = queue /\ orders' = orders
      BY <1>5 DEF Evict, Load, SessionOfCart
    <2>2. QED
      BY <2>1 DEF CompletedIsWhole, Cached, Waiting
  <1>6. ASSUME NEW c \in Checkouts, Update(c)
        PROVE  CompletedIsWhole'
    <2>1. cache[c].session \in LiveSession
      BY <1>6 DEF Update, Hit, Cached, Entry
    <2>2. PICK input \in InputSpace : Insert(c, Updated(cache[c].session, input))
      BY <1>6, DurabilityAssumption DEF Update
    <2>3. /\ Updated(cache[c].session, input) \in LiveSession
          /\ Updated(cache[c].session, input).order = NoOrder
      BY <2>1, UpdatedIsOpen DEF Updated, ApplyStatus
    <2>4. \A o : Waiting(o) => Waiting(o)'
      BY <1>6 DEF Update, Waiting
    <2>5. QED
      BY <2>2, <2>3, <2>4, InsertWhole
  <1>7. ASSUME NEW c \in Checkouts, Cancel(c)
        PROVE  CompletedIsWhole'
    <2>1. cache[c].session \in LiveSession /\ cache[c].session.status # "completed"
      BY <1>7 DEF Cancel, Hit, Cached, Entry, Terminal, TerminalStatuses
    <2>2. cache[c].session.order = NoOrder
      BY <1>7, <2>1 DEF Cancel, Hit, CompletedIsWhole
    <2>3. /\ Canceled(cache[c].session) \in LiveSession
          /\ Canceled(cache[c].session).order = NoOrder
      BY <2>1, <2>2, EndedIsTerminal DEF Canceled, LiveSession
    <2>4. \A o : Waiting(o) => Waiting(o)'
      BY <1>7 DEF Cancel, Waiting
    <2>5. QED
      BY <1>7, <2>3, <2>4, InsertWhole DEF Cancel
  <1>8. ASSUME NEW c \in Checkouts, Complete(c)
        PROVE  CompletedIsWhole'
    <2>1. cache[c].session \in LiveSession
      BY <1>8 DEF Complete, Hit, Cached, Entry
    <2>2. PICK instrument \in {"usable", "card_incomplete"}, o \in Orders :
             /\ Attached(cache[c].session, instrument).status = "ready_for_complete"
             /\ Insert(c, Completed(Attached(cache[c].session, instrument), o))
             /\ queue' = Append(queue, o)
      BY <1>8 DEF Complete
    <2>3. LET done == Completed(Attached(cache[c].session, instrument), o)
          IN  /\ done \in LiveSession /\ done.order = o
              /\ done.status = "completed" /\ Settled(done)
      BY <2>1, <2>2, EndedIsTerminal, CompletedIsSettled DEF Payments
    <2>4. orders' = orders /\ queue \in Seq(Orders)
      BY <1>8 DEF Complete
    <2>5. \A i \in DOMAIN queue : i \in DOMAIN queue' /\ queue'[i] = queue[i]
      BY <2>2, <2>4
    <2>6. Len(queue) + 1 \in DOMAIN queue' /\ queue'[Len(queue) + 1] = o
      BY <2>2, <2>4
    <2>7. (\A p : Waiting(p) => Waiting(p)') /\ Waiting(o)'
      BY <2>4, <2>5, <2>6 DEF Waiting
    <2>8. PICK s \in LiveSession :
             /\ s = Completed(Attached(cache[c].session, instrument), o)
             /\ Insert(c, s)
             /\ s.order = o /\ s.status = "completed" /\ Settled(s)
      BY <2>2, <2>3
    <2>9. QED
      BY <2>7, <2>8, InsertWhole
  <1>9. ASSUME NEW c \in Checkouts, CartWork(c)
        PROVE  CompletedIsWhole'
    BY <1>9 DEF CartWork, volatile, CompletedIsWhole, Cached, Waiting
  <1>10. QED
    BY <1>1, <1>2, <1>3, <1>4, <1>5, <1>6, <1>7, <1>8, <1>9 DEF Next

(* A session in memory that names an order is completed and lacks nothing, *)
(* whatever status the engine gave it, and its order waits or is stored,   *)
(* whatever restarts came between (complete_checkout, get, main).          *)
THEOREM CompletedSessionsAreWhole == Spec => []CompletedIsWhole
  <1>1. Init => CompletedIsWhole
    BY DEF Init, CompletedIsWhole, Cached
  <1>2. TypeOK /\ CompletedIsWhole /\ [Next]_vars => CompletedIsWhole'
    BY WholeStep
  <1>3. QED
    BY <1>1, <1>2, DurabilityTypes, PTL DEF Spec

=============================================================================
