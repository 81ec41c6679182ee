------------------------ MODULE CheckoutServiceProofs ------------------------
(***************************************************************************)
(* Proofs about CheckoutService for any number of sessions, orders and     *)
(* requests, any channel capacity and any number of delivery attempts,     *)
(* with sessions that expire and clients that disconnect at any moment.    *)
(*   1. What holds however clients behave: the types, the shape of a       *)
(*      completed session, the order of storing and posting.               *)
(*   2. Terminal states are final for clients that serialize their         *)
(*      operations on a session.                                           *)
(*   3. Such clients get one order per session.                            *)
(*   4. A negotiation is not lost while one client is at the session.      *)
(*   5. For such clients that stay connected, every step of the service is *)
(*      a step of SessionLifecycle or none.                                *)
(***************************************************************************)
EXTENDS CheckoutService, TLAPS

-----------------------------------------------------------------------------
(* The values the operations compute. *)

LEMMA NoSessionType == NoSession \in Session /\ WellFormed(NoSession)
  BY DEF NoSession, Session, Buyers, Payments, Fulfillments, WellFormed

(* What create and update store is an open session without an order. *)
LEMMA UpdatedType ==
  ASSUME NEW s \in Session, NEW input \in InputSpace
  PROVE  /\ Updated(s, input) \in Session
         /\ Updated(s, input).status \in OpenStatuses
         /\ Updated(s, input).order = NoOrder
  BY DEF Updated, ApplyStatus, StatusOf, Given, Session, InputSpace,
         Buyers, Payments, Fulfillments, OpenStatuses

LEMMA CanceledType ==
  ASSUME NEW s \in Session
  PROVE  /\ Canceled(s) \in Session
         /\ Canceled(s).status = "canceled"
         /\ Canceled(s).order = s.order
  BY DEF Canceled, Session, TerminalStatuses

(* A session that is ready once the instrument is attached lacks nothing.  *)
LEMMA CompletedType ==
  ASSUME NEW s \in Session, NEW o \in Orders,
         NEW instrument \in {"card_incomplete", "usable"},
         Attached(s, instrument).status = "ready_for_complete"
  PROVE  LET done == Completed(Attached(s, instrument), o)
         IN  /\ done \in Session
             /\ done.status = "completed"
             /\ done.order = o
             /\ Settled(done)
  <1> DEFINE a == [s EXCEPT !.payment = instrument]
             b == Attached(s, instrument)
  <1>1. /\ a \in Session
        /\ b = [a EXCEPT !.status = StatusOf(a)]
    BY DEF Session, Payments, Attached, ApplyStatus
  <1>2. StatusOf(a) = "ready_for_complete"
    BY <1>1 DEF Session
  <1>3. Settled(a)
    BY <1>2 DEF StatusOf
  <1>4. QED
    BY <1>1, <1>3 DEF Completed, Settled, Session, TerminalStatuses

-----------------------------------------------------------------------------
(* The components' own actions keep the components' types. *)

LEMMA StoreStepType ==
  ASSUME StoreTypeOK, NEW c \in Checkouts
  PROVE  /\ \A s \in Session : InsertCached(c, s) => StoreTypeOK'
         /\ \A n \in Platforms \cup {"none"} : InsertOverlay(c, n) => StoreTypeOK'
         /\ \A n \in Platforms : SetNegotiated(c, n) => StoreTypeOK'
         /\ EvictCached(c) => StoreTypeOK'
         /\ RemoveOverlay(c) => StoreTypeOK'
         /\ Expire(c) => StoreTypeOK'
         /\ NegotiatedIn(c) \in Platforms \cup {"none"}
  BY NoSessionType DEF StoreTypeOK, InsertCached, InsertOverlay, SetNegotiated,
     EvictCached, RemoveOverlay, Expire, NegotiatedIn, Overlays

LEMMA SendType ==
  ASSUME EventsTypeOK, NEW e \in Event, Send(e)
  PROVE  EventsTypeOK'
  BY QueueAssumption DEF EventsTypeOK, Send

LEMMA WorkerStepType ==
  ASSUME EventsTypeOK, WorkerNext
  PROVE  EventsTypeOK'
  <1>1. CASE ReceiveEvent
    <2>1. Head(queue) \in Event /\ Tail(queue) \in Seq(Event) /\ Len(Tail(queue)) <= QueueCap
      BY <1>1, QueueAssumption DEF ReceiveEvent, EventsTypeOK
    <2>2. QED
      BY <1>1, <2>1, AttemptsAssumption DEF ReceiveEvent, EventsTypeOK
  <1>2. CASE StoreOrder
    <2>1. worker.event.order \in Orders /\ worker.event.checkout \in Checkouts
      BY <1>2 DEF StoreOrder, EventsTypeOK, Event
    <2>2. orders' \in [Orders -> Checkouts \cup {NoCheckout}]
      BY <1>2, <2>1 DEF StoreOrder, EventsTypeOK
    <2>3. worker' \in [phase : {"idle", "storing", "posting"},
                       event : Event \cup {NoEvent}, attempt : 0..MaxAttempts]
          /\ worker'.event \in Event
      <3>1. 1 \in 0..MaxAttempts
        BY AttemptsAssumption
      <3>2. QED
        BY <1>2, <3>1 DEF StoreOrder, EventsTypeOK
    <2>4. QED
      BY <1>2, <2>2, <2>3 DEF StoreOrder, EventsTypeOK
  <1>3. CASE EndDelivery
    <2>1. worker.event.order \in Orders
      BY <1>3 DEF EndDelivery, EventsTypeOK, Event
    <2>2. QED
      BY <1>3, <2>1, AttemptsAssumption DEF EndDelivery, EventsTypeOK, WorkerIdle
  <1>4. CASE RetryDelivery
    <2>1. worker.event.order \in Orders
      BY <1>4 DEF RetryDelivery, EventsTypeOK, Event
    <2>2. QED
      BY <1>4, <2>1, AttemptsAssumption DEF RetryDelivery, EventsTypeOK
  <1>5. QED
    BY <1>1, <1>2, <1>3, <1>4 DEF WorkerNext

-----------------------------------------------------------------------------
(* The inductive invariant, one step per action. *)

LEMMA SessionInvInit == Init => SessionInv
  BY NoSessionType, QueueAssumption, AttemptsAssumption
  DEF Init, StoreInit, EventsInit, SessionInv, TypeOK, StoreTypeOK, EventsTypeOK,
      CompletedIsWellFormed, CopiesAreWellFormed, Request, Idle, Overlays, WorkerIdle,
      Operations

(* Answering a request, whatever it was. *)
LEMMA RespondKeeps ==
  ASSUME SessionInv, NEW r \in Requests, Respond(r)
  PROVE  /\ req' \in [Requests -> Request]
         /\ \A q \in Requests : req'[q].pc # "idle" => req'[q].id \in Checkouts
         /\ CopiesAreWellFormed'
  BY NoSessionType DEF SessionInv, TypeOK, Respond, Idle, Request, CopiesAreWellFormed,
     Operations

(* Moving on without a new copy. *)
LEMMA GotoKeeps ==
  ASSUME SessionInv, NEW r \in Requests, req[r].pc # "idle",
         NEW pc \in {"evicting", "overlay_read", "overlay_write", "sending", "recording"},
         Goto(r, pc),
         req[r].op = "complete" /\ pc \in Writing => req[r].copy.status = "completed",
         pc = "sending" => req[r].op = "complete"
  PROVE  /\ req' \in [Requests -> Request]
         /\ \A q \in Requests : req'[q].pc # "idle" => req'[q].id \in Checkouts
         /\ CopiesAreWellFormed'
  BY DEF SessionInv, TypeOK, Goto, Request, CopiesAreWellFormed

(* Taking the session to write. *)
LEMMA StoreNextKeeps ==
  ASSUME SessionInv, NEW r \in Requests, req[r].pc # "idle",
         NEW s \in Session, WellFormed(s), StoreNext(r, s),
         req[r].op = "complete" => s.status = "completed"
  PROVE  /\ req' \in [Requests -> Request]
         /\ \A q \in Requests : req'[q].pc # "idle" => req'[q].id \in Checkouts
         /\ CopiesAreWellFormed'
  <1> DEFINE new == [req[r] EXCEPT !.pc = "caching", !.copy = s]
  <1>1. new \in Request /\ new.id = req[r].id /\ new.op = req[r].op
        /\ new.pc = "caching" /\ new.copy = s
    BY DEF SessionInv, TypeOK, Request
  <1>2. req' = [req EXCEPT ![r] = new]
    BY DEF StoreNext
  <1> HIDE DEF new
  <1>3. QED
    BY <1>1, <1>2 DEF SessionInv, TypeOK, CopiesAreWellFormed, Writing

LEMMA SessionInvStep == SessionInv /\ [Next]_vars => SessionInv'
  <1> SUFFICES ASSUME SessionInv, [Next]_vars PROVE SessionInv'
    OBVIOUS
  <1> USE DEF SessionInv
  <1>t. TypeOK /\ StoreTypeOK /\ EventsTypeOK /\ known \subseteq Checkouts
    BY DEF TypeOK
  <1>f. ASSUME UNCHANGED <<storeVars, eventVars>>
        PROVE  StoreTypeOK' /\ EventsTypeOK' /\ CompletedIsWellFormed'
    BY <1>f, <1>t DEF storeVars, eventVars, StoreTypeOK, EventsTypeOK, CompletedIsWellFormed
  <1>e. ASSUME UNCHANGED eventVars PROVE EventsTypeOK'
    BY <1>e, <1>t DEF eventVars, EventsTypeOK
  <1>s. ASSUME UNCHANGED storeVars PROVE StoreTypeOK' /\ CompletedIsWellFormed'
    BY <1>s, <1>t DEF storeVars, StoreTypeOK, CompletedIsWellFormed
  <1>c. ASSUME UNCHANGED cache PROVE CompletedIsWellFormed'
    BY <1>c DEF CompletedIsWellFormed
  <1>i. \A r \in Requests : req[r].pc # "idle" => req[r].id \in Checkouts
    BY <1>t DEF TypeOK
  <1>1. ASSUME NEW r \in Requests, NEW platform \in Platforms \cup {"none"},
               CreateCheckout(r, platform)
        PROVE  SessionInv'
    <2>1. PICK c \in FreshCheckouts, input \in Inputs :
             req' = [req EXCEPT ![r] = [pc |-> "caching", op |-> "create", id |-> c,
                                        platform |-> platform, copy |-> Created(input),
                                        kept |-> "none"]]
      BY <1>1 DEF CreateCheckout
    <2>2. c \in Checkouts /\ input \in InputSpace
      BY ServiceAssumption DEF FreshCheckouts
    <2>3. Created(input) \in Session /\ WellFormed(Created(input))
      BY <2>2, NoSessionType, UpdatedType DEF Created, WellFormed, OpenStatuses
    <2>4. req' \in [Requests -> Request] /\ CopiesAreWellFormed'
      BY <2>1, <2>2, <2>3, <1>t DEF TypeOK, Request, CopiesAreWellFormed, Operations, Writing
    <2>5. \A q \in Requests : req'[q].pc # "idle" => req'[q].id \in Checkouts
      BY <2>1, <2>2, <1>t DEF TypeOK
    <2>6. QED
      BY <1>1, <1>t, <1>f, <2>4, <2>5 DEF CreateCheckout, TypeOK
  <1>2. ASSUME NEW r \in Requests, NEW platform \in Platforms \cup {"none"},
               NEW op \in Operations \ {"create"}, NEW c \in Checkouts,
               Begin(r, op, c, platform)
        PROVE  SessionInv'
    <2>1. req' \in [Requests -> Request] /\ CopiesAreWellFormed'
      BY <1>2, <1>t, NoSessionType
      DEF Begin, TypeOK, Request, CopiesAreWellFormed, Operations, Writing
    <2>2. \A q \in Requests : req'[q].pc # "idle" => req'[q].id \in Checkouts
      BY <1>2, <1>t DEF Begin, TypeOK
    <2>3. QED
      BY <1>2, <1>t, <1>f, <2>1, <2>2 DEF Begin, TypeOK
  <1>3. ASSUME NEW r \in Requests, Refuse(r) \/ Disconnect(r) PROVE SessionInv'
    BY <1>3, <1>t, <1>f, RespondKeeps DEF Refuse, Disconnect, TypeOK
  <1>4. ASSUME NEW r \in Requests, GetCheckout(r) PROVE SessionInv'
    BY <1>4, <1>t, <1>f, GotoKeeps DEF GetCheckout, Running, At, Writing, TypeOK
  <1>5. ASSUME NEW r \in Requests, UpdateCheckout(r) PROVE SessionInv'
    <2>1. PICK input \in Inputs : StoreNext(r, Updated(cache[req[r].id], input))
      BY <1>5 DEF UpdateCheckout
    <2>2. cache[req[r].id] \in Session /\ input \in InputSpace
      BY <1>5, <1>t, <1>i, ServiceAssumption DEF UpdateCheckout, Running, At, StoreTypeOK
    <2> DEFINE s == Updated(cache[req[r].id], input)
    <2>3. s \in Session /\ WellFormed(s)
      BY <2>2, UpdatedType DEF WellFormed, OpenStatuses
    <2> HIDE DEF s
    <2>4. StoreNext(r, s)
      BY <2>1 DEF s
    <2>5. req[r].pc # "idle" /\ req[r].op # "complete"
      BY <1>5 DEF UpdateCheckout, Running, At
    <2>6. QED
      BY <1>5, <2>3, <2>4, <2>5, <1>t, <1>f, StoreNextKeeps DEF UpdateCheckout, TypeOK
  <1>6. ASSUME NEW r \in Requests, CompleteCheckout(r) PROVE SessionInv'
    <2>1. PICK instrument \in {"card_incomplete", "usable"}, o \in FreshOrders :
             /\ Attached(cache[req[r].id], instrument).status = "ready_for_complete"
             /\ StoreNext(r, Completed(Attached(cache[req[r].id], instrument), o))
      BY <1>6 DEF CompleteCheckout
    <2>2. cache[req[r].id] \in Session /\ o \in Orders
      BY <1>6, <1>t, <1>i DEF CompleteCheckout, Running, At, StoreTypeOK, FreshOrders
    <2> DEFINE s == Completed(Attached(cache[req[r].id], instrument), o)
    <2>3. s \in Session /\ s.status = "completed" /\ WellFormed(s)
      BY <2>1, <2>2, CompletedType DEF WellFormed
    <2> HIDE DEF s
    <2>4. StoreNext(r, s)
      BY <2>1 DEF s
    <2>5. req[r].pc # "idle"
      BY <1>6 DEF CompleteCheckout, Running, At
    <2>6. QED
      BY <1>6, <2>3, <2>4, <2>5, <1>t, <1>f, StoreNextKeeps DEF CompleteCheckout, TypeOK
  <1>7. ASSUME NEW r \in Requests, CancelCheckout(r) PROVE SessionInv'
    <2>1. cache[req[r].id] \in Session /\ WellFormed(cache[req[r].id])
      BY <1>7, <1>t, <1>i DEF CancelCheckout, Running, At, StoreTypeOK, CompletedIsWellFormed
    <2> DEFINE s == Canceled(cache[req[r].id])
    <2>2. s \in Session /\ WellFormed(s)
      BY <1>7, <2>1, CanceledType DEF WellFormed, CancelCheckout, Terminal, TerminalStatuses
    <2> HIDE DEF s
    <2>3. StoreNext(r, s)
      BY <1>7 DEF s, CancelCheckout
    <2>4. req[r].pc # "idle" /\ req[r].op # "complete"
      BY <1>7 DEF CancelCheckout, Running, At
    <2>5. QED
      BY <1>7, <2>2, <2>3, <2>4, <1>t, <1>f, StoreNextKeeps DEF CancelCheckout, TypeOK
  <1>8. ASSUME NEW r \in Requests, EvictExpired(r) PROVE SessionInv'
    <2>1. req[r].pc # "idle" /\ req[r].id \in Checkouts
      BY <1>8, <1>i DEF EvictExpired, At
    <2>2. CompletedIsWellFormed'
      BY <1>8, <1>t, <2>1, NoSessionType
      DEF EvictExpired, EvictCached, CompletedIsWellFormed, StoreTypeOK
    <2>3. QED
      BY <1>8, <1>t, <1>e, <2>1, <2>2, StoreStepType, GotoKeeps
      DEF EvictExpired, Writing, TypeOK
  <1>9. ASSUME NEW r \in Requests, DropOverlay(r) PROVE SessionInv'
    BY <1>9, <1>t, <1>e, <1>c, <1>i, StoreStepType, RespondKeeps
    DEF DropOverlay, At, RemoveOverlay, TypeOK
  <1>10. ASSUME NEW r \in Requests, StoreSession(r) PROVE SessionInv'
    <2>1. req[r].pc = "caching" /\ req[r].id \in Checkouts
          /\ req[r].copy \in Session /\ WellFormed(req[r].copy)
          /\ (req[r].op = "complete" => req[r].copy.status = "completed")
      BY <1>10, <1>t, <1>i DEF StoreSession, At, TypeOK, Request, CopiesAreWellFormed, Writing
    <2>2. CompletedIsWellFormed'
      BY <1>10, <1>t, <2>1
      DEF StoreSession, InsertCached, CompletedIsWellFormed, StoreTypeOK
    <2>3. QED
      BY <1>10, <1>t, <1>e, <2>1, <2>2, StoreStepType, GotoKeeps DEF StoreSession, TypeOK
  <1>11. ASSUME NEW r \in Requests, ReadOverlay(r) PROVE SessionInv'
    <2>1. NegotiatedIn(req[r].id) \in Platforms \cup {"none"} /\ req[r].pc = "overlay_read"
      BY <1>11, <1>t, <1>i, StoreStepType DEF ReadOverlay, At
    <2>2. /\ req' \in [Requests -> Request] /\ CopiesAreWellFormed'
          /\ \A q \in Requests : req'[q].pc # "idle" => req'[q].id \in Checkouts
      <3> DEFINE new == [req[r] EXCEPT !.pc = "overlay_write", !.kept = NegotiatedIn(req[r].id)]
      <3>1. /\ new \in Request /\ new.id = req[r].id /\ new.op = req[r].op
            /\ new.pc = "overlay_write" /\ new.copy = req[r].copy
        BY <1>t, <2>1 DEF TypeOK, Request
      <3>2. req' = [req EXCEPT ![r] = new]
        BY <1>11 DEF ReadOverlay
      <3> HIDE DEF new
      <3>3. QED
        BY <1>t, <1>i, <2>1, <3>1, <3>2 DEF TypeOK, CopiesAreWellFormed, Writing
    <2>3. QED
      BY <1>11, <1>t, <1>f, <2>2 DEF ReadOverlay, TypeOK
  <1>12. ASSUME NEW r \in Requests, WriteOverlay(r) PROVE SessionInv'
    <2>1. /\ req[r].pc = "overlay_write" /\ req[r].id \in Checkouts
          /\ req[r].kept \in Platforms \cup {"none"}
          /\ (req[r].op = "complete" => req[r].copy.status = "completed")
      BY <1>12, <1>t, <1>i DEF WriteOverlay, At, TypeOK, Request, CopiesAreWellFormed, Writing
    <2>2. StoreTypeOK' /\ UNCHANGED cache
      BY <1>12, <1>t, <2>1, StoreStepType DEF WriteOverlay, InsertOverlay
    <2>3. /\ req' \in [Requests -> Request] /\ CopiesAreWellFormed'
          /\ \A q \in Requests : req'[q].pc # "idle" => req'[q].id \in Checkouts
      BY <1>12, <2>1, GotoKeeps DEF WriteOverlay
    <2>4. QED
      BY <1>12, <1>t, <1>e, <1>c, <2>2, <2>3 DEF WriteOverlay, TypeOK
  <1>13. ASSUME NEW r \in Requests, AnnounceOrder(r) PROVE SessionInv'
    <2>1. req[r].pc = "sending" /\ req[r].id \in Checkouts /\ req[r].copy.order \in Orders
      BY <1>13, <1>t, <1>i DEF AnnounceOrder, At, TypeOK, Request, CopiesAreWellFormed,
         Writing, WellFormed
    <2>2. EventsTypeOK'
      BY <1>13, <1>t, <2>1, SendType DEF AnnounceOrder, Event
    <2>3. QED
      BY <1>13, <1>t, <1>s, <2>1, <2>2, GotoKeeps DEF AnnounceOrder, Writing, TypeOK
  <1>14. ASSUME NEW r \in Requests, RecordNegotiated(r) PROVE SessionInv'
    <2>1. /\ req[r].pc = "recording" /\ req[r].id \in Checkouts
          /\ req[r].platform \in Platforms \cup {"none"}
      BY <1>14, <1>t, <1>i DEF RecordNegotiated, At, TypeOK, Request
    <2>2. StoreTypeOK' /\ UNCHANGED cache
      BY <1>14, <1>t, <1>s, <2>1, StoreStepType DEF RecordNegotiated, SetNegotiated, storeVars
    <2>3. QED
      BY <1>14, <1>t, <1>e, <1>c, <2>1, <2>2, RespondKeeps DEF RecordNegotiated, TypeOK
  <1>15. ASSUME WorkerNext, UNCHANGED <<storeVars, req, known>> PROVE SessionInv'
    BY <1>15, <1>t, <1>s, <1>i, WorkerStepType DEF TypeOK, CopiesAreWellFormed
  <1>16. ASSUME NEW c \in Checkouts, Expire(c), UNCHANGED <<eventVars, req, known>>
         PROVE  SessionInv'
    BY <1>16, <1>t, <1>e, <1>c, <1>i, StoreStepType DEF Expire, TypeOK, CopiesAreWellFormed
  <1>17. CASE UNCHANGED vars
    BY <1>17, <1>t, <1>f, <1>i DEF vars, TypeOK, CopiesAreWellFormed
  <1>18. QED
    BY <1>1, <1>2, <1>3, <1>4, <1>5, <1>6, <1>7, <1>8, <1>9, <1>10, <1>11, <1>12, <1>13,
       <1>14, <1>15, <1>16, <1>17 DEF Next, Arrive, Proceed

LEMMA SessionInvariant == Spec => []SessionInv
  BY SessionInvInit, SessionInvStep, PTL DEF Spec

(* Every variable keeps its type, and the channel never holds more events  *)
(* than its capacity, for any number of requests in progress.              *)
THEOREM TypeCorrectness == Spec => []TypeOK
  BY SessionInvariant, PTL DEF SessionInv

(* However clients interleave their requests, a session in the store is    *)
(* completed exactly when it has an order, and then lacks nothing that     *)
(* complete_checkout requires.                                             *)
THEOREM CompletedSessionsAreWellFormed == Spec => []CompletedIsWellFormed
  BY SessionInvariant, PTL DEF SessionInv

-----------------------------------------------------------------------------
(* Events are posted after their order is stored.                           *)

NotifiedInv == EventsTypeOK /\ PostedIsStored /\ NotifiedOrderIsStored

LEMMA NotifiedInvInit == Init => NotifiedInv
  BY SessionInvInit DEF SessionInv, TypeOK, NotifiedInv, Init, EventsInit, WorkerIdle,
     PostedIsStored, NotifiedOrderIsStored

(* Only the worker stores orders, and it takes none out.                   *)
LEMMA StoreOrderStores ==
  ASSUME EventsTypeOK, StoreOrder
  PROVE  /\ \A o \in Orders : Stored(o) => Stored(o)'
         /\ orders'[worker.event.order] = worker.event.checkout
         /\ worker'.event = worker.event
  <1>1. worker.event.order \in Orders /\ worker.event.checkout \in Checkouts
    BY DEF StoreOrder, EventsTypeOK, Event
  <1>2. orders' = [orders EXCEPT ![worker.event.order] = worker.event.checkout]
        /\ worker'.event = worker.event
    BY DEF StoreOrder, EventsTypeOK
  <1>3. QED
    BY <1>1, <1>2, IdentifierAssumption DEF EventsTypeOK, Stored

LEMMA WorkerKeepsNotified ==
  ASSUME NotifiedInv, WorkerNext
  PROVE  (PostedIsStored /\ NotifiedOrderIsStored)'
  <1>1. CASE ReceiveEvent
    BY <1>1 DEF ReceiveEvent, NotifiedInv, PostedIsStored, NotifiedOrderIsStored, Stored
  <1>2. CASE StoreOrder
    <2>1. /\ \A o \in Orders : Stored(o) => Stored(o)'
          /\ orders'[worker.event.order] = worker.event.checkout
          /\ worker'.event = worker.event
      BY <1>2, StoreOrderStores DEF NotifiedInv
    <2>2. received' = received /\ received \subseteq Orders
      BY <1>2 DEF StoreOrder, NotifiedInv, EventsTypeOK
    <2>3. QED
      BY <2>1, <2>2 DEF NotifiedInv, PostedIsStored, NotifiedOrderIsStored, Stored
  <1>p. worker.phase = "posting" => Stored(worker.event.order)
    BY IdentifierAssumption DEF NotifiedInv, PostedIsStored, EventsTypeOK, Event, Stored
  <1>3. CASE EndDelivery
    BY <1>3, <1>p DEF EndDelivery, WorkerIdle, NotifiedInv, PostedIsStored, NotifiedOrderIsStored,
       Stored
  <1>4. CASE RetryDelivery
    <2>1. worker'.event = worker.event
      BY <1>4 DEF RetryDelivery, NotifiedInv, EventsTypeOK
    <2>2. QED
      BY <1>4, <1>p, <2>1 DEF RetryDelivery, NotifiedInv, PostedIsStored, NotifiedOrderIsStored, Stored
  <1>5. QED
    BY <1>1, <1>2, <1>3, <1>4 DEF WorkerNext

(* What requests do to the events at most: send one.                       *)
LEMMA RequestsOnlySend ==
  ASSUME NEW r \in Requests, Arrive(r) \/ Proceed(r) \/ Disconnect(r)
  PROVE  UNCHANGED <<worker, orders, received>>
  BY DEF Arrive, Proceed, Disconnect, CreateCheckout, Begin, Refuse, GetCheckout, UpdateCheckout,
     CompleteCheckout, CancelCheckout, EvictExpired, DropOverlay, StoreSession, ReadOverlay,
     WriteOverlay, AnnounceOrder, RecordNegotiated, Send, eventVars

LEMMA NotifiedInvStep == SessionInv /\ SessionInv' /\ NotifiedInv /\ [Next]_vars => NotifiedInv'
  <1> SUFFICES ASSUME SessionInv, SessionInv', NotifiedInv, [Next]_vars PROVE NotifiedInv'
    OBVIOUS
  <1>t. EventsTypeOK'
    BY DEF SessionInv, TypeOK
  <1>u. ASSUME UNCHANGED <<worker, orders, received>>
        PROVE  (PostedIsStored /\ NotifiedOrderIsStored)'
    BY <1>u DEF NotifiedInv, PostedIsStored, NotifiedOrderIsStored, Stored
  <1>1. ASSUME NEW r \in Requests, Arrive(r) \/ Proceed(r) \/ Disconnect(r)
        PROVE  (PostedIsStored /\ NotifiedOrderIsStored)'
    BY <1>1, <1>u, RequestsOnlySend
  <1>2. WorkerNext => (PostedIsStored /\ NotifiedOrderIsStored)'
    BY WorkerKeepsNotified
  <1>3. UNCHANGED eventVars => (PostedIsStored /\ NotifiedOrderIsStored)'
    BY <1>u DEF eventVars
  <1>4. QED
    BY <1>t, <1>1, <1>2, <1>3 DEF Next, vars, NotifiedInv

(* A platform that was told of an order can fetch it, however many         *)
(* completions and deliveries are under way.                               *)
THEOREM NotifiedOrdersAreStored == Spec => []NotifiedOrderIsStored
  BY SessionInvariant, NotifiedInvInit, NotifiedInvStep, PTL DEF Spec, NotifiedInv

-----------------------------------------------------------------------------
(* Terminal states are final: who addresses which session, and that only  *)
(* open sessions are written over.                                         *)

(* What every step does to a request, seen from the other requests. *)
LEMMA OthersUnchanged ==
  ASSUME TypeOK, NEW r \in Requests, NEW n,
         req' = [req EXCEPT ![r] = n]
  PROVE  req'[r] = n /\ \A q \in Requests : q # r => req'[q] = req[q]
  BY DEF TypeOK

(* A request that moves on within its operation keeps what it addresses. *)
LEMMA MovingKeepsAddresses ==
  ASSUME TypeOK, RequestsAddressTheirSessions, UNCHANGED known,
         NEW r \in Requests, ~At(r, "idle"), NEW n \in Request,
         req' = [req EXCEPT ![r] = n],
         n.id = req[r].id, n.op = req[r].op, n.pc # "idle",
         n.pc \in Writing => n.op \in {"create", "update", "complete", "cancel"}
  PROVE  RequestsAddressTheirSessions'
  <1>1. req'[r] = n /\ \A q \in Requests : q # r => req'[q] = req[q]
    BY OthersUnchanged
  <1>2. \A q \in Requests : req'[q].id = req[q].id
    BY <1>1
  <1>3. AddressesItsSession(r)'
    BY <1>1, <1>2 DEF RequestsAddressTheirSessions, AddressesItsSession, At
  <1>4. ASSUME NEW q \in Requests, q # r
        PROVE  IF At(q, "idle")' THEN req'[q] = Idle ELSE AddressesItsSession(q)'
    BY <1>1, <1>2, <1>4 DEF RequestsAddressTheirSessions, AddressesItsSession, At
  <1>5. QED
    BY <1>1, <1>3, <1>4 DEF RequestsAddressTheirSessions, At

(* A request that ends may make its session known, if it was its own. *)
LEMMA EndingKeepsAddresses ==
  ASSUME TypeOK, RequestsAddressTheirSessions,
         NEW r \in Requests, ~At(r, "idle"), Respond(r),
         known' \in {known, known \cup {req[r].id}}
  PROVE  RequestsAddressTheirSessions'
  <1>1. req'[r] = Idle /\ \A q \in Requests : q # r => req'[q] = req[q]
    BY OthersUnchanged DEF Respond
  <1>2. ASSUME NEW q \in Requests, q # r, ~At(q, "idle")
        PROVE  AddressesItsSession(q)'
    <2>1. AddressesItsSession(q) /\ AddressesItsSession(r)
      BY <1>2 DEF RequestsAddressTheirSessions
    <2>2. req[q].op = "create" => req[q].id \notin known'
      BY <2>1, <1>2 DEF AddressesItsSession
    <2>3. req[q].op = "create" => \A p \in Requests : p # q => req'[p].id # req[q].id
      <3>1. req[q].id # NoCheckout
        BY <1>2, IdentifierAssumption DEF TypeOK, At
      <3>2. QED
        BY <1>1, <2>1, <3>1 DEF AddressesItsSession, Idle
    <2>4. QED
      BY <1>1, <1>2, <2>1, <2>2, <2>3 DEF AddressesItsSession
  <1>3. QED
    BY <1>1, <1>2 DEF RequestsAddressTheirSessions, At, Idle

(* Two writers never have the same session. *)
LEMMA WritersAreApart ==
  ASSUME Serialized, RequestsAddressTheirSessions, NEW q \in Requests, NEW r \in Requests,
         q # r, req[q].pc \in Writing, req[r].pc \in Writing
  PROVE  req[q].id # req[r].id
  <1>1. AddressesItsSession(q) /\ AddressesItsSession(r)
    BY DEF RequestsAddressTheirSessions, At, Writing
  <1>2. CASE req[q].op = "create" \/ req[r].op = "create"
    BY <1>1, <1>2 DEF AddressesItsSession
  <1>3. CASE req[q].op # "create" /\ req[r].op # "create"
    <2>1. req[q].id \in Mutates[q] /\ req[r].id \in Mutates[r]
      BY <1>1, <1>3 DEF AddressesItsSession
    <2>2. QED
      BY <2>1 DEF Serialized
  <1>4. QED
    BY <1>2, <1>3

-----------------------------------------------------------------------------

LEMMA FinalityInit == Init => FinalityInv
  BY SessionInvInit DEF Init, FinalityInv, RequestsAddressTheirSessions,
     OverwritesOpenSessions, At, Idle

(* The addresses, one step per action. *)
LEMMA AddressStep ==
  ASSUME SessionInv, RequestsAddressTheirSessions, [Next]_vars
  PROVE  RequestsAddressTheirSessions'
  <1>t. TypeOK /\ SessionInv'
    BY SessionInvStep DEF SessionInv
  <1>n. \A r \in Requests : req[r] \in Request /\ req'[r] \in Request
    BY <1>t DEF SessionInv, TypeOK
  <1>1. ASSUME NEW r \in Requests, NEW platform \in Platforms \cup {"none"},
               CreateCheckout(r, platform)
        PROVE  RequestsAddressTheirSessions'
    <2>1. PICK c \in FreshCheckouts, input \in Inputs :
             req' = [req EXCEPT ![r] = [pc |-> "caching", op |-> "create", id |-> c,
                                        platform |-> platform, copy |-> Created(input),
                                        kept |-> "none"]]
      BY <1>1 DEF CreateCheckout
    <2>2. /\ req'[r].id = c /\ req'[r].op = "create" /\ req'[r].pc = "caching"
          /\ \A q \in Requests : q # r => req'[q] = req[q]
      BY <2>1, <1>t DEF TypeOK
    <2>3. c \notin known' /\ \A q \in Requests : req[q].id # c
      BY <1>1 DEF CreateCheckout, FreshCheckouts
    <2>4. AddressesItsSession(r)'
      BY <2>2, <2>3 DEF AddressesItsSession, Operations
    <2>5. ASSUME NEW q \in Requests, q # r, ~At(q, "idle")
          PROVE  AddressesItsSession(q)'
      BY <1>1, <2>2, <2>3, <2>5
      DEF AddressesItsSession, RequestsAddressTheirSessions, CreateCheckout
    <2>6. QED
      BY <2>2, <2>4, <2>5 DEF RequestsAddressTheirSessions, At
  <1>2. ASSUME NEW r \in Requests, NEW platform \in Platforms \cup {"none"},
               NEW op \in Operations \ {"create"}, NEW c \in Checkouts,
               Begin(r, op, c, platform)
        PROVE  RequestsAddressTheirSessions'
    <2>1. /\ req'[r].id = c /\ req'[r].op = op /\ req'[r].pc = "lookup"
          /\ \A q \in Requests : q # r => req'[q] = req[q]
          /\ c \in known /\ known' = known
          /\ IF op = "get" THEN c \in Reads[r] ELSE c \in Mutates[r]
      BY <1>2, <1>t DEF Begin, TypeOK
    <2>2. AddressesItsSession(r)'
      BY <2>1 DEF AddressesItsSession, Writing, Operations
    <2>3. ASSUME NEW q \in Requests, q # r, ~At(q, "idle")
          PROVE  AddressesItsSession(q)'
      BY <2>1, <2>3 DEF AddressesItsSession, RequestsAddressTheirSessions
    <2>4. QED
      BY <2>1, <2>2, <2>3 DEF RequestsAddressTheirSessions, At
  <1>3. ASSUME NEW r \in Requests, Refuse(r) \/ Disconnect(r) \/ DropOverlay(r)
        PROVE  RequestsAddressTheirSessions'
    BY <1>3, <1>t, EndingKeepsAddresses DEF Refuse, Disconnect, DropOverlay, At
  <1>4. ASSUME NEW r \in Requests, RecordNegotiated(r)
        PROVE  RequestsAddressTheirSessions'
    BY <1>4, <1>t, EndingKeepsAddresses DEF RecordNegotiated, At
  <1>5. ASSUME NEW r \in Requests,
               \/ UpdateCheckout(r) \/ CompleteCheckout(r) \/ CancelCheckout(r)
        PROVE  RequestsAddressTheirSessions'
    <2>1. PICK s : StoreNext(r, s)
      BY <1>5 DEF UpdateCheckout, CompleteCheckout, CancelCheckout
    <2>2. req' = [req EXCEPT ![r] = [req[r] EXCEPT !.pc = "caching", !.copy = s]]
      BY <2>1 DEF StoreNext
    <2> DEFINE n == [req[r] EXCEPT !.pc = "caching", !.copy = s]
    <2>3. n.id = req[r].id /\ n.op = req[r].op /\ n.pc = "caching"
      BY <1>n DEF Request
    <2>4. req' = [req EXCEPT ![r] = n] /\ n \in Request
      BY <2>2, <1>n, <1>t DEF TypeOK
    <2> HIDE DEF n
    <2>5. /\ ~At(r, "idle") /\ known' = known
          /\ req[r].op \in {"create", "update", "complete", "cancel"}
      BY <1>5 DEF UpdateCheckout, CompleteCheckout, CancelCheckout, Running, At
    <2>6. QED
      BY <2>3, <2>4, <2>5, <1>t, MovingKeepsAddresses
  <1>6. ASSUME NEW r \in Requests,
               \/ GetCheckout(r) \/ EvictExpired(r) \/ StoreSession(r) \/ WriteOverlay(r)
               \/ AnnounceOrder(r) \/ ReadOverlay(r)
        PROVE  RequestsAddressTheirSessions'
    <2>1. PICK pc \in {"recording", "evicting", "overlay_read", "sending", "overlay_write"},
               kept \in Platforms \cup {"none"} :
             /\ req' = [req EXCEPT ![r] = [req[r] EXCEPT !.pc = pc, !.kept = kept]]
             /\ pc \in Writing => req[r].pc \in Writing
      <3>1. CASE ReadOverlay(r)
        <4>1. req' = [req EXCEPT ![r] = [req[r] EXCEPT !.pc = "overlay_write",
                                                      !.kept = NegotiatedIn(req[r].id)]]
              /\ req[r].pc \in Writing
          BY <3>1 DEF ReadOverlay, Writing, At
        <4>2. NegotiatedIn(req[r].id) \in Platforms \cup {"none"}
          BY <3>1, <1>t, StoreStepType DEF ReadOverlay, At, TypeOK
        <4>3. QED
          BY <4>1, <4>2
      <3>2. CASE ~ReadOverlay(r)
        <4>1. PICK pc \in {"recording", "evicting", "overlay_read", "sending"} :
                 Goto(r, pc) /\ (pc \in Writing => req[r].pc \in Writing)
          BY <1>6, <3>2 DEF GetCheckout, EvictExpired, StoreSession, WriteOverlay,
             AnnounceOrder, Writing, At
        <4>2. [req[r] EXCEPT !.pc = pc] = [req[r] EXCEPT !.pc = pc, !.kept = req[r].kept]
          BY <1>n DEF Request
        <4>3. req' = [req EXCEPT ![r] = [req[r] EXCEPT !.pc = pc, !.kept = req[r].kept]]
          BY <4>1, <4>2 DEF Goto
        <4>4. req[r].kept \in Platforms \cup {"none"}
          BY <1>n DEF Request
        <4>5. QED
          BY <4>1, <4>3, <4>4
      <3>3. QED
        BY <3>1, <3>2
    <2> DEFINE n == [req[r] EXCEPT !.pc = pc, !.kept = kept]
    <2>2. n.id = req[r].id /\ n.op = req[r].op /\ n.pc = pc
      BY <1>n DEF Request
    <2>3. req' = [req EXCEPT ![r] = n] /\ n \in Request
      BY <2>1, <1>n, <1>t DEF TypeOK
    <2> HIDE DEF n
    <2>4. ~At(r, "idle") /\ known' = known
      BY <1>6 DEF GetCheckout, EvictExpired, StoreSession, WriteOverlay, AnnounceOrder,
         ReadOverlay, Running, At
    <2>5. n.pc \in Writing => n.op \in {"create", "update", "complete", "cancel"}
      BY <2>1, <2>2, <2>4 DEF RequestsAddressTheirSessions, AddressesItsSession
    <2>6. QED
      BY <2>2, <2>3, <2>4, <2>5, <1>t, MovingKeepsAddresses
  <1>7. ASSUME UNCHANGED <<req, known>> PROVE RequestsAddressTheirSessions'
    BY <1>7 DEF RequestsAddressTheirSessions, AddressesItsSession, At
  <1>8. QED
    BY <1>1, <1>2, <1>3, <1>4, <1>5, <1>6, <1>7 DEF Next, Arrive, Proceed, vars

-----------------------------------------------------------------------------
(* Only StoreSession writes a session, and it writes over an open one. *)

(* Every other action leaves each session in the cache or evicts it.  *)
LEMMA CacheStep ==
  ASSUME TypeOK, [Next]_vars, NEW c \in Checkouts,
         \A r \in Requests : StoreSession(r) => req[r].id # c
  PROVE  cache'[c] \in {cache[c], NoSession}
  <1>1. ASSUME NEW r \in Requests, StoreSession(r) PROVE cache'[c] = cache[c]
    BY <1>1 DEF StoreSession, InsertCached, TypeOK, StoreTypeOK
  <1>2. ASSUME NEW r \in Requests, EvictExpired(r) PROVE cache'[c] \in {cache[c], NoSession}
    BY <1>2 DEF EvictExpired, EvictCached, TypeOK, StoreTypeOK
  <1>3. ASSUME NEW r \in Requests,
               \/ Arrive(r) \/ Disconnect(r) \/ Refuse(r) \/ GetCheckout(r)
               \/ UpdateCheckout(r) \/ CompleteCheckout(r) \/ CancelCheckout(r)
               \/ DropOverlay(r) \/ ReadOverlay(r) \/ WriteOverlay(r)
               \/ AnnounceOrder(r) \/ RecordNegotiated(r)
        PROVE  cache' = cache
    BY <1>3 DEF Arrive, CreateCheckout, Begin, Disconnect, Refuse, GetCheckout,
       UpdateCheckout, CompleteCheckout, CancelCheckout, DropOverlay, RemoveOverlay,
       ReadOverlay, WriteOverlay, InsertOverlay, AnnounceOrder, RecordNegotiated,
       SetNegotiated, storeVars
  <1>4. ASSUME \/ WorkerNext /\ UNCHANGED <<storeVars, req, known>>
               \/ (\E d \in Checkouts : Expire(d)) /\ UNCHANGED <<eventVars, req, known>>
               \/ UNCHANGED vars
        PROVE  cache' = cache
    BY <1>4 DEF Expire, storeVars, vars
  <1>5. QED
    BY <1>1, <1>2, <1>3, <1>4 DEF Next, Proceed

(* A request reaches "caching" from an open session, a copy of which it    *)
(* has just taken, or from a fresh identifier.                             *)
LEMMA EnterCaching ==
  ASSUME SessionInv, [Next]_vars, NEW r \in Requests,
         At(r, "caching")', ~At(r, "caching")
  PROVE  /\ cache' = cache
         /\ ~Terminal(cache[req'[r].id])
         /\ req'[r].op = "create" => req'[r].id \in FreshCheckouts
         /\ req'[r].op # "create" => req'[r].id = req[r].id /\ Present(req[r].id)
  <1>t. TypeOK
    BY DEF SessionInv
  <1>1. ASSUME NEW q \in Requests, NEW platform \in Platforms \cup {"none"},
               CreateCheckout(q, platform)
        PROVE  /\ cache' = cache
               /\ req'[r].op = "create"
               /\ req'[r].id \in FreshCheckouts
               /\ ~Terminal(cache[req'[r].id])
    <2>1. PICK c \in FreshCheckouts, input \in Inputs :
             req' = [req EXCEPT ![q] = [pc |-> "caching", op |-> "create", id |-> c,
                                        platform |-> platform, copy |-> Created(input),
                                        kept |-> "none"]]
      BY <1>1 DEF CreateCheckout
    <2>2. r = q /\ req'[r].op = "create" /\ req'[r].id = c
      BY <2>1, <1>t DEF TypeOK, At
    <2>3. cache' = cache
      BY <1>1 DEF CreateCheckout, storeVars
    <2>4. QED
      BY <2>2, <2>3 DEF FreshCheckouts, Present, Terminal, TerminalStatuses
  <1>2. ASSUME NEW q \in Requests,
               UpdateCheckout(q) \/ CompleteCheckout(q) \/ CancelCheckout(q)
        PROVE  /\ cache' = cache
               /\ req'[r].op # "create" /\ req'[r].id = req[r].id /\ Present(req[r].id)
               /\ ~Terminal(cache[req'[r].id])
    <2>1. PICK s : StoreNext(q, s)
      BY <1>2 DEF UpdateCheckout, CompleteCheckout, CancelCheckout
    <2>2. r = q
      BY <2>1, <1>t DEF StoreNext, TypeOK, At
    <2>3. req'[r].op = req[r].op /\ req'[r].id = req[r].id
      BY <2>1, <2>2, <1>t DEF StoreNext, TypeOK, Request
    <2>4. req[r].op # "create" /\ Present(req[r].id) /\ ~Terminal(cache[req[r].id])
      BY <1>2, <2>2 DEF UpdateCheckout, CompleteCheckout, CancelCheckout, Running, Hit,
         Terminal, TerminalStatuses
    <2>5. cache' = cache
      BY <1>2 DEF UpdateCheckout, CompleteCheckout, CancelCheckout, storeVars
    <2>6. QED
      BY <2>3, <2>4, <2>5
  <1>3. ASSUME NEW q \in Requests,
               \/ \E platform \in Platforms \cup {"none"}, op \in Operations \ {"create"},
                     c \in Checkouts : Begin(q, op, c, platform)
               \/ Refuse(q) \/ Disconnect(q) \/ GetCheckout(q) \/ EvictExpired(q)
               \/ DropOverlay(q) \/ StoreSession(q) \/ ReadOverlay(q) \/ WriteOverlay(q)
               \/ AnnounceOrder(q) \/ RecordNegotiated(q)
        PROVE  FALSE
    <2>1. CASE r # q
      BY <1>3, <2>1, <1>t DEF Begin, Refuse, Disconnect, Respond, GetCheckout, EvictExpired,
         DropOverlay, StoreSession, ReadOverlay, WriteOverlay, AnnounceOrder,
         RecordNegotiated, Goto, At, TypeOK
    <2>2. CASE r = q
      <3>1. CASE \E platform \in Platforms \cup {"none"}, op \in Operations \ {"create"},
                    c \in Checkouts : Begin(q, op, c, platform)
        BY <2>2, <3>1, <1>t DEF Begin, At, TypeOK
      <3>2. CASE Refuse(q) \/ Disconnect(q) \/ DropOverlay(q) \/ RecordNegotiated(q)
        BY <2>2, <3>2, <1>t DEF Refuse, Disconnect, DropOverlay, RecordNegotiated, Respond,
           At, TypeOK, Idle
      <3>3. CASE \E pc \in {"recording", "evicting", "overlay_read", "sending"} : Goto(q, pc)
        BY <2>2, <3>3, <1>t DEF Goto, At, TypeOK, Request
      <3>4. CASE ReadOverlay(q)
        BY <2>2, <3>4, <1>t DEF ReadOverlay, At, TypeOK, Request
      <3>5. GetCheckout(q) \/ EvictExpired(q) \/ StoreSession(q) \/ WriteOverlay(q)
              \/ AnnounceOrder(q)
            => \E pc \in {"recording", "evicting", "overlay_read", "sending"} : Goto(q, pc)
        BY DEF GetCheckout, EvictExpired, StoreSession, WriteOverlay, AnnounceOrder
      <3>6. QED
        BY <1>3, <3>1, <3>2, <3>3, <3>4, <3>5
    <2>3. QED
      BY <2>1, <2>2
  <1>4. ASSUME UNCHANGED req PROVE FALSE
    BY <1>4 DEF At
  <1>5. QED
    BY <1>1, <1>2, <1>3, <1>4 DEF Next, Arrive, Proceed, vars

LEMMA FinalityStep ==
  ASSUME Serialized
  PROVE  FinalityInv /\ [Next]_vars => FinalityInv'
  <1> SUFFICES ASSUME FinalityInv, [Next]_vars PROVE FinalityInv'
    OBVIOUS
  <1>1. SessionInv /\ RequestsAddressTheirSessions /\ TypeOK
    BY DEF FinalityInv, SessionInv
  <1>2. SessionInv' /\ RequestsAddressTheirSessions' /\ TypeOK'
    BY <1>1, SessionInvStep, AddressStep DEF SessionInv
  <1>3. ASSUME NEW r \in Requests, At(r, "caching")'
        PROVE  ~Terminal(cache'[req'[r].id])
    <2>1. CASE ~At(r, "caching")
      BY <2>1, <1>1, <1>3, EnterCaching
    <2>2. CASE At(r, "caching")
      <3>1. req'[r].id = req[r].id /\ req[r].id \in Checkouts
            /\ \A q \in Requests : StoreSession(q) => q # r
        <4>1. req[r].id \in Checkouts
          BY <1>1, <2>2 DEF TypeOK, At
        <4>2. ASSUME NEW q \in Requests,
                     \/ Arrive(q) \/ Refuse(q) \/ GetCheckout(q) \/ UpdateCheckout(q)
                     \/ CompleteCheckout(q) \/ CancelCheckout(q) \/ EvictExpired(q)
                     \/ DropOverlay(q) \/ StoreSession(q) \/ ReadOverlay(q)
                     \/ WriteOverlay(q) \/ AnnounceOrder(q) \/ RecordNegotiated(q)
                     \/ Disconnect(q)
              PROVE  q # r /\ req'[r] = req[r]
          <5>1. PICK n : req' = [req EXCEPT ![q] = n]
            BY <4>2 DEF Arrive, CreateCheckout, Begin, Refuse, Respond, GetCheckout,
               UpdateCheckout, CompleteCheckout, CancelCheckout, StoreNext, EvictExpired,
               DropOverlay, StoreSession, ReadOverlay, WriteOverlay, AnnounceOrder,
               RecordNegotiated, Disconnect, Goto
          <5>2. q # r
            <6>1. CASE Disconnect(q)
              BY <6>1, <1>1, <1>3, <2>2 DEF Disconnect, Respond, At, Idle, TypeOK
            <6>2. CASE StoreSession(q)
              BY <6>2, <1>1, <1>3, <2>2 DEF StoreSession, Goto, At, TypeOK, Request
            <6>3. CASE ~Disconnect(q) /\ ~StoreSession(q)
              BY <6>3, <4>2, <2>2 DEF Arrive, CreateCheckout, Begin, Refuse, GetCheckout,
                 UpdateCheckout, CompleteCheckout, CancelCheckout, Running, EvictExpired,
                 DropOverlay, ReadOverlay, WriteOverlay, AnnounceOrder, RecordNegotiated, At
            <6>4. QED
              BY <6>1, <6>2, <6>3
          <5>3. QED
            BY <5>1, <5>2, <1>1 DEF TypeOK
        <4>3. CASE \E q \in Requests : Arrive(q) \/ Proceed(q) \/ Disconnect(q)
          <5>1. PICK q \in Requests : Arrive(q) \/ Proceed(q) \/ Disconnect(q)
            BY <4>3
          <5>2. req'[r] = req[r]
            BY <5>1, <4>2 DEF Proceed
          <5>3. QED
            BY <5>2, <4>1, <4>2
        <4>4. CASE UNCHANGED req
          <5>1. ASSUME NEW q \in Requests, StoreSession(q) PROVE FALSE
            BY <4>4, <5>1, <1>1 DEF StoreSession, Goto, At, TypeOK, Request
          <5>2. QED
            BY <4>1, <4>4, <5>1
        <4>5. QED
          BY <4>3, <4>4 DEF Next, vars
      <3>2. \A q \in Requests : StoreSession(q) => req[q].id # req[r].id
        BY <1>1, <2>2, <3>1, WritersAreApart DEF StoreSession, At, Writing
      <3>3. cache'[req[r].id] \in {cache[req[r].id], NoSession}
        BY <1>1, <3>1, <3>2, CacheStep
      <3>4. ~Terminal(cache[req[r].id]) /\ ~Terminal(NoSession)
        BY <2>2 DEF FinalityInv, OverwritesOpenSessions, Terminal, TerminalStatuses, NoSession
      <3>5. QED
        BY <3>1, <3>3, <3>4
    <2>3. QED
      BY <2>1, <2>2
  <1>4. QED
    BY <1>2, <1>3 DEF FinalityInv, OverwritesOpenSessions

LEMMA FinalityInvariant ==
  ASSUME Serialized
  PROVE  Spec => []FinalityInv
  BY FinalityInit, FinalityStep, PTL DEF Spec

(* As long as clients serialize their operations on each session, a        *)
(* completed or canceled session never changes again: it stays or expires. *)
THEOREM TerminalStatesAreFinal ==
  ASSUME Serialized
  PROVE  Spec => TerminalIsFinal
  <1>1. FinalityInv /\ [Next]_vars
           => [\A c \in Checkouts : Terminal(cache[c])
                                       => cache'[c] \in {cache[c], NoSession}]_vars
    <2> SUFFICES ASSUME FinalityInv, [Next]_vars, NEW c \in Checkouts, Terminal(cache[c])
                 PROVE  cache'[c] \in {cache[c], NoSession}
      OBVIOUS
    <2>1. \A r \in Requests : StoreSession(r) => req[r].id # c
      BY DEF FinalityInv, OverwritesOpenSessions, StoreSession
    <2>2. QED
      BY <2>1, CacheStep DEF FinalityInv, SessionInv
  <1>2. QED
    BY <1>1, FinalityInvariant, PTL DEF Spec, TerminalIsFinal

-----------------------------------------------------------------------------
(* One order per session: the orders in the channel, with the worker and   *)
(* in the order store, related to the sessions in the cache and to the     *)
(* completions in progress.                                                *)

-----------------------------------------------------------------------------
(* The set of sent events. *)

LEMMA SentEventsType ==
  ASSUME EventsTypeOK
  PROVE  SentEvents \subseteq Event
  <1>1. {queue[i] : i \in DOMAIN queue} \subseteq Event
    <2>1. queue \in Seq(Event)
      BY DEF EventsTypeOK
    <2>2. QED
      BY <2>1
  <1>2. worker.phase # "idle" => worker.event \in Event
    BY DEF EventsTypeOK
  <1>3. ASSUME NEW o \in Orders, Stored(o)
        PROVE  [order |-> o, checkout |-> orders[o]] \in Event
    <2>1. orders[o] \in Checkouts
      BY <1>3 DEF EventsTypeOK, Stored
    <2>2. QED
      BY <2>1 DEF Event
  <1>4. QED
    BY <1>1, <1>2, <1>3 DEF SentEvents

LEMMA SentEventsSame ==
  ASSUME UNCHANGED eventVars
  PROVE  SentEvents' = SentEvents
  BY DEF eventVars, SentEvents, Stored

(* Sending adds the one event. *)
LEMMA SentEventsSend ==
  ASSUME EventsTypeOK, NEW e \in Event, Send(e)
  PROVE  SentEvents' = SentEvents \cup {e}
  <1>1. queue \in Seq(Event) /\ queue' = Append(queue, e)
    BY DEF Send, EventsTypeOK
  <1>2. {queue'[i] : i \in DOMAIN queue'} = {queue[i] : i \in DOMAIN queue} \cup {e}
    BY <1>1
  <1>3. UNCHANGED <<worker, orders>>
    BY DEF Send
  <1>4. QED
    BY <1>2, <1>3 DEF SentEvents, Stored

(* The worker moves events on and invents none. *)
LEMMA SentEventsWorker ==
  ASSUME EventsTypeOK, WorkerNext
  PROVE  SentEvents' \subseteq SentEvents
  <1>1. CASE ReceiveEvent
    <2>1. queue \in Seq(Event) /\ queue # <<>> /\ queue' = Tail(queue)
          /\ worker'.event = Head(queue) /\ orders' = orders
      BY <1>1 DEF ReceiveEvent, EventsTypeOK
    <2>2. {queue'[i] : i \in DOMAIN queue'} \subseteq {queue[i] : i \in DOMAIN queue}
          /\ Head(queue) \in {queue[i] : i \in DOMAIN queue}
      BY <2>1
    <2>3. QED
      BY <2>1, <2>2 DEF SentEvents, Stored
  <1>2. CASE StoreOrder
    <2>1. /\ worker.event \in Event /\ worker.phase # "idle"
          /\ orders' = [orders EXCEPT ![worker.event.order] = worker.event.checkout]
          /\ queue' = queue /\ worker'.event = worker.event
      BY <1>2 DEF StoreOrder, EventsTypeOK
    <2>2. ASSUME NEW o \in Orders, Stored(o)'
          PROVE  [order |-> o, checkout |-> orders'[o]] \in SentEvents
      <3>1. CASE o = worker.event.order
        <4>1. [order |-> o, checkout |-> orders'[o]] = worker.event
          BY <2>1, <3>1 DEF EventsTypeOK, Event
        <4>2. QED
          BY <2>1, <4>1 DEF SentEvents
      <3>2. CASE o # worker.event.order
        BY <2>1, <2>2, <3>2 DEF EventsTypeOK, SentEvents, Stored
      <3>3. QED
        BY <3>1, <3>2
    <2>3. QED
      BY <2>1, <2>2 DEF SentEvents
  <1>3. CASE EndDelivery
    BY <1>3 DEF EndDelivery, SentEvents, Stored, WorkerIdle
  <1>4. CASE RetryDelivery
    BY <1>4 DEF RetryDelivery, SentEvents, Stored, EventsTypeOK
  <1>5. QED
    BY <1>1, <1>2, <1>3, <1>4 DEF WorkerNext

-----------------------------------------------------------------------------

LEMMA OrdersInvInit == Init => OrdersInv
  <1> SUFFICES ASSUME Init PROVE OrdersInv
    OBVIOUS
  <1>1. SentEvents = {}
    BY DEF Init, EventsInit, SentEvents, Stored, WorkerIdle
  <1>2. \A r \in Requests : req[r] = Idle
    BY DEF Init
  <1>3. QED
    BY <1>1, <1>2, FinalityInit
    DEF OrdersInv, OneOrderPerSession, OrderHasItsSession, WritersHaveNoOrder,
        CopiesHaveDistinctOrders, UnannouncedIsStored, Unannounced, Idle, NoSession

(* A step that sends nothing, writes no session and takes no new copy.     *)
LEMMA QuietStep ==
  ASSUME OrdersInv, FinalityInv', SentEvents' \subseteq SentEvents, known \subseteq known',
         \A c \in Checkouts : cache'[c] \in {cache[c], NoSession},
         \A r \in Requests :
            \/ /\ req'[r].copy = req[r].copy /\ req'[r].id = req[r].id
               /\ req'[r].op = req[r].op
               /\ req'[r].pc \in Writing => req[r].pc \in Writing
               /\ r \in Unannounced' => r \in Unannounced
            \/ req'[r].copy = NoSession /\ req'[r].pc \notin Writing
  PROVE  OrdersInv'
  <1>1. SentEvents \subseteq Event /\ TypeOK
    BY SentEventsType DEF OrdersInv, FinalityInv, SessionInv, TypeOK
  <1>2. OneOrderPerSession' /\ (\A e \in SentEvents : e.checkout \in known)'
    BY DEF OrdersInv, OneOrderPerSession
  <1>3. OrderHasItsSession'
    BY <1>1 DEF OrdersInv, OrderHasItsSession, Present, Event, NoSession
  <1>4. WritersHaveNoOrder'
    BY DEF OrdersInv, WritersHaveNoOrder
  <1>5. CopiesHaveDistinctOrders'
    BY DEF OrdersInv, CopiesHaveDistinctOrders, NoSession
  <1>6. UnannouncedIsStored'
    <2> SUFFICES ASSUME NEW r \in Unannounced'
                 PROVE  cache'[req'[r].id] \in {req'[r].copy, NoSession}
      BY DEF UnannouncedIsStored
    <2>1. r \in Requests /\ req'[r].pc \in Writing
      BY DEF Unannounced, Writing
    <2>2. /\ req'[r].copy = req[r].copy /\ req'[r].id = req[r].id
          /\ r \in Unannounced
      BY <2>1
    <2>3. cache[req[r].id] \in {req[r].copy, NoSession} /\ req[r].id \in Checkouts
      BY <1>1, <2>2 DEF OrdersInv, UnannouncedIsStored, Unannounced, TypeOK
    <2>4. QED
      BY <2>2, <2>3
  <1>7. QED
    BY <1>2, <1>3, <1>4, <1>5, <1>6 DEF OrdersInv

(* A request takes a copy to write: its session has no order yet, and the  *)
(* order of a completion is a fresh one.                                   *)
LEMMA NewCopyStep ==
  ASSUME OrdersInv, FinalityInv', UNCHANGED <<cache, known>>, UNCHANGED eventVars,
         NEW r \in Requests, NEW n, req' = [req EXCEPT ![r] = n],
         n.pc = "caching",
         n.copy.order = NoOrder \/ n.copy.order \in FreshOrders,
         n.id \notin known \/ (Present(n.id) /\ ~Terminal(cache[n.id]))
  PROVE  OrdersInv'
  <1>1. /\ SentEvents' = SentEvents /\ SentEvents \subseteq Event
        /\ TypeOK
    BY SentEventsSame, SentEventsType DEF OrdersInv, FinalityInv, SessionInv, TypeOK
  <1>2. req'[r] = n /\ \A q \in Requests : q # r => req'[q] = req[q]
    BY <1>1, OthersUnchanged
  <1>3. \A e \in SentEvents : e.checkout # n.id /\ e.order # n.copy.order
    <2> SUFFICES ASSUME NEW e \in SentEvents
                 PROVE  e.checkout # n.id /\ e.order # n.copy.order
      OBVIOUS
    <2>1. e.checkout # n.id
      BY DEF OrdersInv, OrderHasItsSession, Terminal, TerminalStatuses
    <2>2. e.order \in Orders
      BY <1>1 DEF Event
    <2>3. e.order # n.copy.order
      BY <2>2, IdentifierAssumption DEF FreshOrders
    <2>4. QED
      BY <2>1, <2>3
  <1>4. WritersHaveNoOrder'
    BY <1>1, <1>2, <1>3 DEF OrdersInv, WritersHaveNoOrder
  <1>5. \A q \in Requests : req[q].copy.order = n.copy.order => n.copy.order = NoOrder
    BY DEF FreshOrders
  <1>6. CopiesHaveDistinctOrders'
    BY <1>2, <1>5 DEF OrdersInv, CopiesHaveDistinctOrders
  <1>7. UnannouncedIsStored'
    BY <1>2 DEF OrdersInv, UnannouncedIsStored, Unannounced
  <1>8. QED
    BY <1>1, <1>4, <1>6, <1>7
    DEF OrdersInv, OneOrderPerSession, OrderHasItsSession, Present

(* A session is written: no order was announced for it. *)
LEMMA WriteStep ==
  ASSUME Serialized, OrdersInv, FinalityInv', NEW r \in Requests, StoreSession(r)
  PROVE  OrdersInv'
  <1>1. /\ SentEvents' = SentEvents /\ SentEvents \subseteq Event /\ TypeOK
        /\ RequestsAddressTheirSessions
    BY SentEventsSame, SentEventsType
    DEF OrdersInv, FinalityInv, SessionInv, TypeOK, StoreSession
  <1>2. /\ req[r].pc = "caching" /\ req[r].id \in Checkouts
        /\ cache' = [cache EXCEPT ![req[r].id] = req[r].copy]
        /\ known' = known
    BY <1>1 DEF StoreSession, At, TypeOK, InsertCached
  <1>3. /\ req'[r].pc = "overlay_read" /\ req'[r].id = req[r].id
        /\ req'[r].copy = req[r].copy /\ req'[r].op = req[r].op
        /\ \A q \in Requests : q # r => req'[q] = req[q]
    BY <1>1 DEF StoreSession, Goto, TypeOK, Request
  <1>4. \A e \in SentEvents : e.checkout # req[r].id
    BY <1>2 DEF OrdersInv, WritersHaveNoOrder, Writing
  <1>5. OrderHasItsSession'
    BY <1>1, <1>2, <1>4 DEF OrdersInv, OrderHasItsSession, Present, Event, TypeOK, StoreTypeOK
  <1>6. WritersHaveNoOrder' /\ CopiesHaveDistinctOrders'
    BY <1>1, <1>2, <1>3
    DEF OrdersInv, WritersHaveNoOrder, CopiesHaveDistinctOrders, Writing
  <1>7. ASSUME NEW q \in Unannounced'
        PROVE  cache'[req'[q].id] \in {req'[q].copy, NoSession}
    <2>1. CASE q = r
      BY <1>1, <1>2, <1>3, <2>1 DEF TypeOK, StoreTypeOK
    <2>2. CASE q # r
      <3>1. q \in Requests /\ q \in Unannounced /\ req'[q] = req[q]
        BY <1>3, <1>7, <2>2 DEF Unannounced
      <3>2. req[q].id # req[r].id /\ req[q].id \in Checkouts
        BY <1>1, <1>2, <2>2, <3>1, WritersAreApart DEF Unannounced, Writing, TypeOK
      <3>3. QED
        BY <1>1, <1>2, <3>1, <3>2 DEF OrdersInv, UnannouncedIsStored, TypeOK, StoreTypeOK
    <2>3. QED
      BY <2>1, <2>2
  <1>8. QED
    BY <1>1, <1>2, <1>5, <1>6, <1>7
    DEF OrdersInv, OneOrderPerSession, UnannouncedIsStored

(* An order is announced: it is the first of its session, and no other     *)
(* request carries it or is about to write its session.                    *)
LEMMA AnnounceStep ==
  ASSUME Serialized, OrdersInv, FinalityInv', NEW r \in Requests, AnnounceOrder(r)
  PROVE  OrdersInv'
  <1> DEFINE e == [order |-> req[r].copy.order, checkout |-> req[r].id]
  <1>1. /\ TypeOK /\ EventsTypeOK /\ RequestsAddressTheirSessions
        /\ SentEvents \subseteq Event
    BY SentEventsType DEF OrdersInv, FinalityInv, SessionInv, TypeOK
  <1>2. /\ req[r].pc = "sending" /\ req[r].pc \in Writing /\ req[r].op = "complete"
        /\ req[r].id \in Checkouts
        /\ req[r].copy.status = "completed" /\ req[r].copy.order \in Orders
        /\ known' = known /\ cache' = cache
    BY <1>1 DEF AnnounceOrder, At, OrdersInv, FinalityInv, SessionInv, CopiesAreWellFormed,
       WellFormed, Writing, TypeOK, storeVars
  <1>3. SentEvents' = SentEvents \cup {e} /\ e \in Event
    BY <1>1, <1>2, SentEventsSend DEF AnnounceOrder, Event
  <1>4. /\ req'[r].pc = "recording" /\ req'[r].copy = req[r].copy
        /\ \A q \in Requests : q # r => req'[q] = req[q]
    BY <1>1 DEF AnnounceOrder, Goto, TypeOK, Request
  <1>5. \A d \in SentEvents : d.checkout # e.checkout /\ d.order # e.order
    BY <1>2 DEF OrdersInv, WritersHaveNoOrder
  <1>6. OneOrderPerSession'
    BY <1>3, <1>5 DEF OrdersInv, OneOrderPerSession
  <1>7. cache[req[r].id] \in {req[r].copy, NoSession}
    BY <1>2 DEF OrdersInv, UnannouncedIsStored, Unannounced
  <1>8. OrderHasItsSession'
    BY <1>2, <1>3, <1>7 DEF OrdersInv, OrderHasItsSession, Present, NoSession
  <1>9. (\A d \in SentEvents : d.checkout \in known)'
    <2>1. req[r].id \in known
      BY <1>1, <1>2 DEF RequestsAddressTheirSessions, AddressesItsSession, At
    <2>2. QED
      BY <1>2, <1>3, <2>1 DEF OrdersInv
  <1>10. WritersHaveNoOrder'
    <2> SUFFICES ASSUME NEW q \in Requests, NEW d \in SentEvents', req'[q].pc \in Writing
                 PROVE  d.checkout # req'[q].id /\ d.order # req'[q].copy.order
      BY DEF WritersHaveNoOrder
    <2>1. q # r /\ req'[q] = req[q]
      BY <1>4 DEF Writing
    <2>2. CASE d \in SentEvents
      BY <2>1, <2>2 DEF OrdersInv, WritersHaveNoOrder
    <2>3. CASE d = e
      <3>1. req[q].id # req[r].id
        BY <1>1, <1>2, <2>1, WritersAreApart
      <3>2. req[q].copy.order # req[r].copy.order
        BY <1>2, <2>1, IdentifierAssumption DEF OrdersInv, CopiesHaveDistinctOrders
      <3>3. QED
        BY <2>1, <2>3, <3>1, <3>2
    <2>4. QED
      BY <1>3, <2>2, <2>3
  <1>11. CopiesHaveDistinctOrders'
    BY <1>4 DEF OrdersInv, CopiesHaveDistinctOrders
  <1>12. UnannouncedIsStored'
    BY <1>2, <1>4 DEF OrdersInv, UnannouncedIsStored, Unannounced
  <1>13. QED
    BY <1>6, <1>8, <1>9, <1>10, <1>11, <1>12 DEF OrdersInv

-----------------------------------------------------------------------------
(* Every step keeps the invariant: the cases of QuietStep first, then the  *)
(* three in which a session or an order is at stake.                       *)

(* The steps of a request that write no session and send nothing. *)
LEMMA QuietRequestStep ==
  ASSUME Serialized, OrdersInv, [Next]_vars, NEW r \in Requests,
         \/ \E platform \in Platforms \cup {"none"}, op \in Operations \ {"create"},
               c \in Checkouts : Begin(r, op, c, platform)
         \/ Refuse(r) \/ GetCheckout(r) \/ EvictExpired(r) \/ DropOverlay(r)
         \/ ReadOverlay(r) \/ WriteOverlay(r) \/ RecordNegotiated(r) \/ Disconnect(r)
  PROVE  OrdersInv'
  <1>1. FinalityInv' /\ TypeOK
    BY FinalityStep DEF OrdersInv, FinalityInv, SessionInv
  <1>2. req[r] \in Request
    BY <1>1 DEF TypeOK
  <1>3. SentEvents' = SentEvents /\ known \subseteq known'
    <2>1. UNCHANGED eventVars /\ known \subseteq known'
      BY DEF Begin, Refuse, GetCheckout, EvictExpired, DropOverlay, ReadOverlay,
         WriteOverlay, RecordNegotiated, Disconnect
    <2>2. QED
      BY <2>1, SentEventsSame
  <1>4. /\ \A q \in Requests : q # r => req'[q] = req[q]
        /\ \/ req'[r].copy = NoSession /\ req'[r].pc \notin Writing
           \/ /\ req'[r].copy = req[r].copy /\ req'[r].id = req[r].id
              /\ req'[r].op = req[r].op
              /\ req'[r].pc \in Writing => req[r].pc \in Writing
              /\ r \in Unannounced' => r \in Unannounced
    <2>1. CASE \E platform \in Platforms \cup {"none"}, op \in Operations \ {"create"},
                  c \in Checkouts : Begin(r, op, c, platform)
      BY <2>1, <1>1 DEF Begin, TypeOK, Writing
    <2>2. CASE Refuse(r) \/ DropOverlay(r) \/ RecordNegotiated(r) \/ Disconnect(r)
      BY <2>2, <1>1 DEF Refuse, DropOverlay, RecordNegotiated, Disconnect, Respond,
         TypeOK, Idle, Writing
    <2>3. CASE GetCheckout(r) \/ EvictExpired(r)
      <3>1. PICK pc \in {"recording", "evicting"} : Goto(r, pc)
        BY <2>3 DEF GetCheckout, EvictExpired
      <3>2. req'[r].pc \in {"recording", "evicting"}
            /\ req'[r].copy = req[r].copy /\ req'[r].id = req[r].id
            /\ req'[r].op = req[r].op /\ \A q \in Requests : q # r => req'[q] = req[q]
        BY <3>1, <1>1, <1>2 DEF Goto, TypeOK, Request
      <3>3. QED
        BY <3>2 DEF Writing, Unannounced
    <2>4. CASE ReadOverlay(r)
      <3>1. req[r].pc = "overlay_read" /\ req'[r].pc = "overlay_write"
            /\ req'[r].copy = req[r].copy /\ req'[r].id = req[r].id
            /\ req'[r].op = req[r].op /\ \A q \in Requests : q # r => req'[q] = req[q]
        BY <2>4, <1>1, <1>2 DEF ReadOverlay, At, TypeOK, Request
      <3>2. QED
        BY <3>1 DEF Writing, Unannounced
    <2>5. CASE WriteOverlay(r)
      <3>1. PICK pc \in {"sending", "recording"} : Goto(r, pc)
        BY <2>5 DEF WriteOverlay
      <3>2. req[r].pc = "overlay_write" /\ req'[r].pc \in {"sending", "recording"}
            /\ req'[r].copy = req[r].copy /\ req'[r].id = req[r].id
            /\ req'[r].op = req[r].op /\ \A q \in Requests : q # r => req'[q] = req[q]
        BY <2>5, <3>1, <1>1, <1>2 DEF WriteOverlay, Goto, At, TypeOK, Request
      <3>3. QED
        BY <3>2 DEF Writing, Unannounced
    <2>6. QED
      BY <2>1, <2>2, <2>3, <2>4, <2>5
  <1>5. \A c \in Checkouts : cache'[c] \in {cache[c], NoSession}
    <2>1. \A q \in Requests : ~StoreSession(q)
      <3> SUFFICES ASSUME NEW q \in Requests, StoreSession(q) PROVE FALSE
        OBVIOUS
      <3>1. req[q] \in Request /\ req[q].pc = "caching" /\ req'[q].pc = "overlay_read"
            /\ \A p \in Requests : p # q => req'[p] = req[p]
        BY <1>1 DEF StoreSession, Goto, At, TypeOK, Request
      <3>2. q = r
        BY <1>4, <3>1
      <3>3. Disconnect(r)
        BY <3>1, <3>2 DEF Begin, Refuse, GetCheckout, EvictExpired, DropOverlay, ReadOverlay,
           WriteOverlay, RecordNegotiated, Running, At
      <3>4. QED
        BY <3>1, <3>2, <3>3, <1>1 DEF Disconnect, Respond, Idle, TypeOK
    <2>2. QED
      BY <2>1, <1>1, CacheStep
  <1>6. ASSUME NEW q \in Requests
        PROVE  \/ /\ req'[q].copy = req[q].copy /\ req'[q].id = req[q].id
                  /\ req'[q].op = req[q].op
                  /\ req'[q].pc \in Writing => req[q].pc \in Writing
                  /\ q \in Unannounced' => q \in Unannounced
               \/ req'[q].copy = NoSession /\ req'[q].pc \notin Writing
    <2>1. CASE q = r
      BY <1>4, <2>1
    <2>2. CASE q # r
      BY <1>4, <2>2 DEF Unannounced
    <2>3. QED
      BY <2>1, <2>2
  <1>7. SentEvents' \subseteq SentEvents
    BY <1>3
  <1>8. QED
    BY <1>1, <1>3, <1>5, <1>6, <1>7, QuietStep

(* A request copies a session it is going to write. *)
LEMMA CopyingStep ==
  ASSUME Serialized, OrdersInv, [Next]_vars, NEW r \in Requests,
         \/ \E platform \in Platforms \cup {"none"} : CreateCheckout(r, platform)
         \/ UpdateCheckout(r) \/ CompleteCheckout(r) \/ CancelCheckout(r)
  PROVE  OrdersInv'
  <1>1. FinalityInv' /\ TypeOK /\ CompletedIsWellFormed
    BY FinalityStep DEF OrdersInv, FinalityInv, SessionInv
  <1>2. UNCHANGED <<cache, known>> /\ UNCHANGED eventVars
    BY DEF CreateCheckout, UpdateCheckout, CompleteCheckout, CancelCheckout, storeVars
  <1>3. CASE \E platform \in Platforms \cup {"none"} : CreateCheckout(r, platform)
    <2>1. PICK platform \in Platforms \cup {"none"}, c \in FreshCheckouts, input \in Inputs :
             req' = [req EXCEPT ![r] = [pc |-> "caching", op |-> "create", id |-> c,
                                        platform |-> platform, copy |-> Created(input),
                                        kept |-> "none"]]
      BY <1>3 DEF CreateCheckout
    <2> DEFINE n == [pc |-> "caching", op |-> "create", id |-> c, platform |-> platform,
                     copy |-> Created(input), kept |-> "none"]
    <2>2. n.pc = "caching" /\ n.id \notin known /\ n.copy.order = NoOrder
      BY <2>1 DEF Created, Updated, ApplyStatus, FreshCheckouts
    <2>3. req' = [req EXCEPT ![r] = n]
      BY <2>1
    <2> HIDE DEF n
    <2>4. QED
      BY <2>2, <2>3, <1>1, <1>2, NewCopyStep
  <1>4. CASE UpdateCheckout(r) \/ CompleteCheckout(r) \/ CancelCheckout(r)
    <2>1. PICK s : /\ StoreNext(r, s)
                   /\ s.order = NoOrder \/ s.order \in FreshOrders
      <3>1. CASE UpdateCheckout(r)
        <4>1. PICK input \in Inputs : StoreNext(r, Updated(cache[req[r].id], input))
          BY <3>1 DEF UpdateCheckout
        <4>2. Updated(cache[req[r].id], input).order = NoOrder
          BY DEF Updated, ApplyStatus
        <4>3. QED
          BY <4>1, <4>2
      <3>2. CASE CompleteCheckout(r)
        <4>1. PICK instrument \in {"card_incomplete", "usable"}, o \in FreshOrders :
                 StoreNext(r, Completed(Attached(cache[req[r].id], instrument), o))
          BY <3>2 DEF CompleteCheckout
        <4>2. cache[req[r].id] \in Session
          BY <3>2, <1>1 DEF CompleteCheckout, Running, At, TypeOK, StoreTypeOK
        <4>3. Completed(Attached(cache[req[r].id], instrument), o).order = o
          BY <4>2 DEF Completed, Attached, ApplyStatus, Session
        <4>4. QED
          BY <4>1, <4>3
      <3>3. CASE CancelCheckout(r)
        <4>1. StoreNext(r, Canceled(cache[req[r].id])) /\ ~Terminal(cache[req[r].id])
              /\ req[r].id \in Checkouts
          BY <3>3, <1>1 DEF CancelCheckout, Running, At, TypeOK
        <4>2. cache[req[r].id].order = NoOrder /\ cache[req[r].id] \in Session
          BY <4>1, <1>1 DEF CompletedIsWellFormed, WellFormed, Terminal, TerminalStatuses,
             TypeOK, StoreTypeOK
        <4>3. Canceled(cache[req[r].id]).order = NoOrder
          BY <4>2 DEF Canceled, Session
        <4>4. QED
          BY <4>1, <4>3
      <3>4. QED
        BY <1>4, <3>1, <3>2, <3>3
    <2> DEFINE n == [req[r] EXCEPT !.pc = "caching", !.copy = s]
    <2>2. req[r] \in Request /\ req' = [req EXCEPT ![r] = n]
      BY <2>1, <1>1 DEF StoreNext, TypeOK
    <2>3. n.pc = "caching" /\ n.copy = s /\ n.id = req[r].id
      BY <2>2 DEF Request
    <2> HIDE DEF n
    <2>4. Present(req[r].id) /\ ~Terminal(cache[req[r].id])
      BY <1>4 DEF UpdateCheckout, CompleteCheckout, CancelCheckout, Hit, Terminal,
         TerminalStatuses
    <2>5. QED
      BY <2>1, <2>2, <2>3, <2>4, <1>1, <1>2, NewCopyStep
  <1>5. QED
    BY <1>3, <1>4

(* The worker moves an event on, a session passes its deadline, or nothing *)
(* happens.                                                                *)
LEMMA BackgroundStep ==
  ASSUME Serialized, OrdersInv, [Next]_vars,
         \/ WorkerNext /\ UNCHANGED <<storeVars, req, known>>
         \/ (\E c \in Checkouts : Expire(c)) /\ UNCHANGED <<eventVars, req, known>>
         \/ UNCHANGED vars
  PROVE  OrdersInv'
  <1>1. FinalityInv' /\ TypeOK /\ EventsTypeOK
    BY FinalityStep DEF OrdersInv, FinalityInv, SessionInv, TypeOK
  <1>2. SentEvents' \subseteq SentEvents
    BY <1>1, SentEventsWorker, SentEventsSame DEF vars
  <1>3. UNCHANGED <<cache, req, known>>
    BY DEF storeVars, vars, Expire
  <1>4. \A r \in Requests : r \in Unannounced' => r \in Unannounced
    BY <1>3 DEF Unannounced
  <1>5. QED
    BY <1>1, <1>2, <1>3, <1>4, QuietStep

LEMMA OrdersStep ==
  ASSUME Serialized
  PROVE  OrdersInv /\ [Next]_vars => OrdersInv'
  <1> SUFFICES ASSUME OrdersInv, [Next]_vars PROVE OrdersInv'
    OBVIOUS
  <1>1. FinalityInv'
    BY FinalityStep DEF OrdersInv
  <1>2. ASSUME NEW r \in Requests, StoreSession(r) PROVE OrdersInv'
    BY <1>1, <1>2, WriteStep
  <1>3. ASSUME NEW r \in Requests, AnnounceOrder(r) PROVE OrdersInv'
    BY <1>1, <1>3, AnnounceStep
  <1>4. ASSUME NEW r \in Requests, Arrive(r) PROVE OrdersInv'
    BY <1>4, CopyingStep, QuietRequestStep DEF Arrive
  <1>5. ASSUME NEW r \in Requests, Disconnect(r) PROVE OrdersInv'
    BY <1>5, QuietRequestStep
  <1>6. ASSUME NEW r \in Requests, Proceed(r) PROVE OrdersInv'
    BY <1>2, <1>3, <1>6, CopyingStep, QuietRequestStep DEF Proceed
  <1>7. QED
    BY <1>4, <1>5, <1>6, BackgroundStep DEF Next

LEMMA OrdersInvariant ==
  ASSUME Serialized
  PROVE  Spec => []OrdersInv
  BY OrdersInvInit, OrdersStep, PTL DEF Spec

(* As long as clients serialize their operations on each session, no       *)
(* session yields two orders and no order is announced for two sessions,   *)
(* however many sessions, requests and orders there are, and whichever of  *)
(* the requests are abandoned on the way.                                  *)
THEOREM OneOrderForASession ==
  ASSUME Serialized
  PROVE  Spec => []OneOrderPerSession
  <1>1. OrdersInv => OneOrderPerSession
    BY DEF OrdersInv
  <1>2. QED
    BY <1>1, OrdersInvariant, PTL

(* As long as clients serialize their operations on each session, the      *)
(* session of every announced order is completed and names that order, for *)
(* as long as the store holds it: no update or cancel comes in between.    *)
THEOREM AnnouncedOrderHasItsSession ==
  ASSUME Serialized
  PROVE  Spec => []OrderHasItsSession
  <1>1. OrdersInv => OrderHasItsSession
    BY DEF OrdersInv
  <1>2. QED
    BY <1>1, OrdersInvariant, PTL

-----------------------------------------------------------------------------
(* The negotiation of a session that only one client addresses.            *)

(* A step of a request leaves the other requests as they are. *)
LEMMA OnlyTheRequestMoves ==
  ASSUME TypeOK, NEW r \in Requests, Arrive(r) \/ Proceed(r) \/ Disconnect(r)
  PROVE  \A q \in Requests : q # r => req'[q] = req[q]
  <1>1. PICK n : req' = [req EXCEPT ![r] = n]
    BY DEF Arrive, Proceed, Disconnect, CreateCheckout, Begin, Refuse, Respond, GetCheckout,
       UpdateCheckout, CompleteCheckout, CancelCheckout, StoreNext, EvictExpired,
       DropOverlay, StoreSession, ReadOverlay, WriteOverlay, AnnounceOrder,
       RecordNegotiated, Goto
  <1>2. QED
    BY <1>1, OthersUnchanged

(* A request changes the store at its own session only. *)
LEMMA OnlyItsSessionChanges ==
  ASSUME TypeOK, NEW r \in Requests, Arrive(r) \/ Proceed(r) \/ Disconnect(r),
         NEW c \in Checkouts, At(r, "idle") \/ req[r].id # c
  PROVE  cache'[c] = cache[c] /\ overlays'[c] = overlays[c]
  <1>1. CASE \/ Arrive(r) \/ Disconnect(r) \/ Refuse(r) \/ GetCheckout(r)
             \/ UpdateCheckout(r) \/ CompleteCheckout(r) \/ CancelCheckout(r)
             \/ ReadOverlay(r) \/ AnnounceOrder(r)
    BY <1>1 DEF Arrive, CreateCheckout, Begin, Disconnect, Refuse, GetCheckout,
       UpdateCheckout, CompleteCheckout, CancelCheckout, ReadOverlay, AnnounceOrder, storeVars
  <1>2. CASE EvictExpired(r)
    BY <1>2 DEF EvictExpired, EvictCached, At, TypeOK, StoreTypeOK
  <1>3. CASE DropOverlay(r)
    BY <1>3 DEF DropOverlay, RemoveOverlay, At, TypeOK, StoreTypeOK
  <1>4. CASE StoreSession(r)
    BY <1>4 DEF StoreSession, InsertCached, At, TypeOK, StoreTypeOK
  <1>5. CASE WriteOverlay(r)
    BY <1>5 DEF WriteOverlay, InsertOverlay, At, TypeOK, StoreTypeOK
  <1>6. CASE RecordNegotiated(r)
    BY <1>6 DEF RecordNegotiated, SetNegotiated, storeVars, At, TypeOK, StoreTypeOK
  <1>7. QED
    BY <1>1, <1>2, <1>3, <1>4, <1>5, <1>6 DEF Proceed

(* One client has one request at a time, and a session that is being       *)
(* created is addressed by nobody else.                                    *)
LEMMA OneClientIsAlone ==
  ASSUME RequestsAddressTheirSessions, NEW q \in Requests, NEW r \in Requests, q # r,
         ~At(q, "idle"), ~At(r, "idle"), HasOneClient(req[r].id)
  PROVE  req[q].id # req[r].id
  <1>1. AddressesItsSession(q) /\ AddressesItsSession(r)
    BY DEF RequestsAddressTheirSessions
  <1>2. CASE req[q].op = "create" \/ req[r].op = "create"
    BY <1>1, <1>2 DEF AddressesItsSession
  <1>3. CASE req[q].op # "create" /\ req[r].op # "create"
    <2>1. req[q].id \in Mutates[q] \cup Reads[q] /\ req[r].id \in Mutates[r] \cup Reads[r]
      BY <1>1, <1>3 DEF AddressesItsSession, Operations
    <2>2. QED
      BY <2>1 DEF HasOneClient
  <1>4. QED
    BY <1>2, <1>3

(* What a request reads just before it writes the overlay, or finds when   *)
(* it evicts a session.                                                    *)
LEMMA EnterOverlay ==
  ASSUME TypeOK, NEW r \in Requests, Arrive(r) \/ Proceed(r) \/ Disconnect(r)
  PROVE  KeepsTheNegotiation(r)'
  <1>1. req[r] \in Request
    BY DEF TypeOK
  <1>2. CASE Arrive(r) \/ Disconnect(r) \/ Refuse(r) \/ DropOverlay(r) \/ RecordNegotiated(r)
    <2>1. req'[r].pc \in {"idle", "lookup", "caching"}
      BY <1>2 DEF Arrive, CreateCheckout, Begin, Disconnect, Refuse, DropOverlay,
         RecordNegotiated, Respond, Idle, TypeOK
    <2>2. QED
      BY <2>1 DEF KeepsTheNegotiation, At
  <1>3. CASE UpdateCheckout(r) \/ CompleteCheckout(r) \/ CancelCheckout(r)
    <2>1. PICK s : StoreNext(r, s)
      BY <1>3 DEF UpdateCheckout, CompleteCheckout, CancelCheckout
    <2>2. req'[r].pc = "caching"
      BY <1>1, <2>1 DEF StoreNext, Request, TypeOK
    <2>3. QED
      BY <2>2 DEF KeepsTheNegotiation, At
  <1>4. CASE GetCheckout(r) \/ StoreSession(r) \/ WriteOverlay(r) \/ AnnounceOrder(r)
    <2>1. PICK pc \in {"recording", "overlay_read", "sending"} : Goto(r, pc)
      BY <1>4 DEF GetCheckout, StoreSession, WriteOverlay, AnnounceOrder
    <2>2. req'[r].pc = pc
      BY <1>1, <2>1 DEF Goto, Request, TypeOK
    <2>3. QED
      BY <2>2 DEF KeepsTheNegotiation, At
  <1>5. CASE EvictExpired(r)
    <2>1. req'[r].pc = "evicting" /\ req'[r].id = req[r].id /\ req[r].id \in Checkouts
      BY <1>1, <1>5 DEF EvictExpired, Goto, At, Request, TypeOK
    <2>2. cache'[req[r].id] = NoSession
      BY <1>5, <2>1 DEF EvictExpired, EvictCached, TypeOK, StoreTypeOK
    <2>3. QED
      BY <2>1, <2>2 DEF KeepsTheNegotiation, At, Present, NoSession
  <1>6. CASE ReadOverlay(r)
    <2>1. /\ req'[r].pc = "overlay_write" /\ req'[r].id = req[r].id
          /\ req'[r].kept = NegotiatedIn(req[r].id) /\ overlays' = overlays
      BY <1>1, <1>6 DEF ReadOverlay, Request, TypeOK, storeVars
    <2>2. overlays[req[r].id] \in Platforms => req'[r].kept \in Platforms
      BY <2>1, StoreAssumption DEF NegotiatedIn
    <2>3. QED
      BY <2>1, <2>2 DEF KeepsTheNegotiation, At
  <1>7. QED
    BY <1>2, <1>3, <1>4, <1>5, <1>6 DEF Proceed

LEMMA NegotiationInit == Init => NegotiationInv
  BY FinalityInit DEF Init, NegotiationInv, FinalityInv, KeepsTheNegotiation, At, Idle

LEMMA NegotiationStep == NegotiationInv /\ [Next]_vars => NegotiationInv'
  <1> SUFFICES ASSUME NegotiationInv, [Next]_vars PROVE NegotiationInv'
    OBVIOUS
  <1>1. SessionInv /\ RequestsAddressTheirSessions /\ TypeOK
    BY DEF NegotiationInv, SessionInv
  <1>2. SessionInv' /\ RequestsAddressTheirSessions'
    BY <1>1, SessionInvStep, AddressStep
  <1>3. ASSUME NEW r \in Requests, HasOneClient(req'[r].id)
        PROVE  KeepsTheNegotiation(r)'
    <2>1. ASSUME req'[r] = req[r], req[r].id \in Checkouts,
                 cache'[req[r].id] = cache[req[r].id],
                 overlays'[req[r].id] = overlays[req[r].id]
          PROVE  KeepsTheNegotiation(r)'
      BY <1>3, <2>1 DEF NegotiationInv, KeepsTheNegotiation, At, Present
    <2>2. ASSUME At(r, "idle")' PROVE KeepsTheNegotiation(r)'
      BY <2>2 DEF KeepsTheNegotiation, At
    <2>3. ASSUME NEW q \in Requests, Arrive(q) \/ Proceed(q) \/ Disconnect(q), q # r,
                 ~At(r, "idle")'
          PROVE  KeepsTheNegotiation(r)'
      <3>1. req'[r] = req[r] /\ ~At(r, "idle") /\ req[r].id \in Checkouts
        BY <1>1, <2>3, OnlyTheRequestMoves DEF At, TypeOK
      <3>2. At(q, "idle") \/ req[q].id # req[r].id
        BY <1>1, <1>3, <2>3, <3>1, OneClientIsAlone
      <3>3. /\ cache'[req[r].id] = cache[req[r].id]
            /\ overlays'[req[r].id] = overlays[req[r].id]
        BY <1>1, <2>3, <3>1, <3>2, OnlyItsSessionChanges
      <3>4. QED
        BY <2>1, <3>1, <3>3
    <2>4. ASSUME NEW q \in Requests, Arrive(q) \/ Proceed(q) \/ Disconnect(q)
          PROVE  KeepsTheNegotiation(r)'
      BY <1>1, <2>2, <2>3, <2>4, EnterOverlay
    <2>5. ASSUME UNCHANGED <<cache, overlays, req>> PROVE KeepsTheNegotiation(r)'
      BY <1>3, <2>5 DEF NegotiationInv, KeepsTheNegotiation, At, Present
    <2>6. QED
      BY <2>4, <2>5 DEF Next, Expire, storeVars, vars
  <1>4. QED
    BY <1>2, <1>3 DEF NegotiationInv

LEMMA NegotiationInvariant == Spec => []NegotiationInv
  BY NegotiationInit, NegotiationStep, PTL DEF Spec

(* What a platform negotiated for a session that one client addresses is   *)
(* in the session's overlay for as long as the store has the session:      *)
(* insert's three critical sections and get's two lose nothing, however    *)
(* the other requests run and whichever are abandoned between them.        *)
THEOREM NegotiationsAreKept == Spec => NegotiationIsKept
  <1>1. NegotiationInv /\ [Next]_vars
           => [\A c \in Checkouts :
                  HasOneClient(c) /\ overlays[c] \in Platforms /\ Present(c)
                      => overlays'[c] \in Platforms]_vars
    <2> SUFFICES ASSUME NegotiationInv, [Next]_vars, NEW c \in Checkouts, HasOneClient(c),
                        overlays[c] \in Platforms, Present(c)
                 PROVE  overlays'[c] \in Platforms
      OBVIOUS
    <2>1. TypeOK
      BY DEF NegotiationInv, SessionInv
    <2>2. ASSUME NEW r \in Requests, Arrive(r) \/ Proceed(r) \/ Disconnect(r)
          PROVE  overlays'[c] \in Platforms
      <3>1. CASE At(r, "idle") \/ req[r].id # c
        BY <2>1, <2>2, <3>1, OnlyItsSessionChanges
      <3>2. CASE ~At(r, "idle") /\ req[r].id = c
        <4>1. KeepsTheNegotiation(r)
          BY <3>2 DEF NegotiationInv
        <4>2. CASE DropOverlay(r)
          BY <3>2, <4>1, <4>2 DEF DropOverlay, KeepsTheNegotiation
        <4>3. CASE WriteOverlay(r)
          BY <2>1, <3>2, <4>1, <4>3
          DEF WriteOverlay, InsertOverlay, KeepsTheNegotiation, TypeOK, StoreTypeOK
        <4>4. CASE RecordNegotiated(r)
          <5>1. req[r].platform \in Platforms \cup {"none"}
            BY <2>1 DEF TypeOK, Request
          <5>2. QED
            BY <2>1, <3>2, <4>4, <5>1
            DEF RecordNegotiated, SetNegotiated, TypeOK, StoreTypeOK, storeVars
        <4>5. CASE ~DropOverlay(r) /\ ~WriteOverlay(r) /\ ~RecordNegotiated(r)
          BY <2>2, <4>5
          DEF Arrive, CreateCheckout, Begin, Disconnect, Proceed, Refuse, GetCheckout,
              UpdateCheckout, CompleteCheckout, CancelCheckout, EvictExpired, EvictCached,
              StoreSession, InsertCached, ReadOverlay, AnnounceOrder, storeVars
        <4>6. QED
          BY <4>2, <4>3, <4>4, <4>5
      <3>3. QED
        BY <3>1, <3>2
    <2>3. ASSUME UNCHANGED overlays PROVE overlays'[c] \in Platforms
      BY <2>3
    <2>4. QED
      BY <2>2, <2>3 DEF Next, Expire, storeVars, vars
  <1>2. QED
    BY <1>1, NegotiationInvariant, PTL DEF Spec, NegotiationIsKept

-----------------------------------------------------------------------------
(* The refinement of SessionLifecycle: first what it takes beyond OrdersInv.*)

(* The copy a request is about to write. *)
LEMMA EnterWriting ==
  ASSUME SessionInv, NEW r \in Requests, Arrive(r) \/ Proceed(r) \/ Disconnect(r),
         At(r, "caching")'
  PROVE  /\ req'[r].copy.status # "absent"
         /\ req'[r].copy.status = "completed" => req'[r].op = "complete"
  <1>1. TypeOK /\ StoreTypeOK /\ req[r] \in Request
    BY DEF SessionInv, TypeOK
  <1>2. CASE \E platform \in Platforms \cup {"none"} : CreateCheckout(r, platform)
    <2>1. PICK input \in Inputs : req'[r].copy = Created(input)
      BY <1>1, <1>2 DEF CreateCheckout, TypeOK
    <2>2. Created(input).status \in OpenStatuses
      BY NoSessionType, ServiceAssumption, UpdatedType DEF Created
    <2>3. QED
      BY <2>1, <2>2 DEF OpenStatuses
  <1>3. CASE \/ \E platform \in Platforms \cup {"none"}, op \in Operations \ {"create"},
                   c \in Checkouts : Begin(r, op, c, platform)
             \/ Disconnect(r) \/ Refuse(r) \/ DropOverlay(r) \/ RecordNegotiated(r)
    BY <1>1, <1>3 DEF Begin, Disconnect, Refuse, DropOverlay, RecordNegotiated, Respond,
       Idle, TypeOK, At
  <1>4. CASE GetCheckout(r) \/ EvictExpired(r) \/ StoreSession(r) \/ WriteOverlay(r)
             \/ AnnounceOrder(r)
    <2>1. PICK pc \in {"recording", "evicting", "overlay_read", "sending"} : Goto(r, pc)
      BY <1>4 DEF GetCheckout, EvictExpired, StoreSession, WriteOverlay, AnnounceOrder
    <2>2. QED
      BY <1>1, <2>1 DEF Goto, Request, TypeOK, At
  <1>5. CASE ReadOverlay(r)
    BY <1>1, <1>5 DEF ReadOverlay, Request, TypeOK, At
  <1>6. CASE UpdateCheckout(r)
    <2>1. PICK input \in Inputs : req'[r].copy = Updated(cache[req[r].id], input)
      BY <1>1, <1>6 DEF UpdateCheckout, StoreNext, Request, TypeOK
    <2>2. cache[req[r].id] \in Session
      BY <1>1, <1>6 DEF UpdateCheckout, Running, At, TypeOK, StoreTypeOK
    <2>3. req'[r].copy.status \in OpenStatuses
      BY <2>1, <2>2, ServiceAssumption, UpdatedType
    <2>4. QED
      BY <2>3 DEF OpenStatuses
  <1>7. CASE CompleteCheckout(r)
    <2>1. PICK s : req' = [req EXCEPT ![r] = [req[r] EXCEPT !.pc = "caching", !.copy = s]]
      BY <1>7 DEF CompleteCheckout, StoreNext
    <2>2. req'[r].op = "complete" /\ req'[r].pc = "caching"
      BY <1>1, <1>7, <2>1 DEF CompleteCheckout, Running, Request, TypeOK
    <2>3. CopiesAreWellFormed'
      BY <1>7, SessionInvStep DEF SessionInv, Next, Proceed
    <2>4. req'[r].copy.status = "completed"
      BY <2>2, <2>3 DEF CopiesAreWellFormed, Writing
    <2>5. QED
      BY <2>2, <2>4
  <1>8. CASE CancelCheckout(r)
    <2>1. cache[req[r].id] \in Session /\ req'[r].copy = Canceled(cache[req[r].id])
      BY <1>1, <1>8 DEF CancelCheckout, StoreNext, Running, At, Request, TypeOK, StoreTypeOK
    <2>2. req'[r].copy.status = "canceled"
      BY <2>1, CanceledType
    <2>3. QED
      BY <2>2
  <1>9. QED
    BY <1>2, <1>3, <1>4, <1>5, <1>6, <1>7, <1>8 DEF Arrive, Proceed

LEMMA WritesStep ==
  SessionInv /\ WritesAreOfTheirOperation /\ [Next]_vars => WritesAreOfTheirOperation'
  <1> SUFFICES ASSUME SessionInv, WritesAreOfTheirOperation, [Next]_vars,
                      NEW r \in Requests, At(r, "caching")'
               PROVE  /\ req'[r].copy.status # "absent"
                      /\ req'[r].copy.status = "completed" => req'[r].op = "complete"
    BY DEF WritesAreOfTheirOperation
  <1>1. ASSUME NEW q \in Requests, Arrive(q) \/ Proceed(q) \/ Disconnect(q), q # r
        PROVE  req'[r] = req[r]
    BY <1>1, OnlyTheRequestMoves DEF SessionInv
  <1>2. CASE req'[r] = req[r]
    BY <1>2 DEF WritesAreOfTheirOperation, At
  <1>3. CASE Arrive(r) \/ Proceed(r) \/ Disconnect(r)
    BY <1>3, EnterWriting
  <1>4. CASE UNCHANGED req
    BY <1>2, <1>4
  <1>5. QED
    BY <1>1, <1>2, <1>3, <1>4 DEF Next, vars

LEMMA LifecycleInvariant ==
  ASSUME Serialized
  PROVE  Spec => []LifecycleInv
  <1>1. Init => WritesAreOfTheirOperation
    BY DEF Init, WritesAreOfTheirOperation, At, Idle
  <1>2. OrdersInv => SessionInv
    BY DEF OrdersInv, FinalityInv
  <1>3. NotifiedInv /\ OrdersInv /\ WritesAreOfTheirOperation => LifecycleInv
    BY DEF NotifiedInv, LifecycleInv
  <1>4. Spec => []WritesAreOfTheirOperation
    BY <1>1, WritesStep, SessionInvariant, PTL DEF Spec
  <1>5. Spec => []NotifiedInv
    BY SessionInvariant, NotifiedInvInit, NotifiedInvStep, PTL DEF Spec
  <1>6. QED
    BY <1>3, <1>4, <1>5, OrdersInvariant, PTL

-----------------------------------------------------------------------------
(* What the steps do to the orders placed. *)

(* No event is lost between the channel, the worker and the order store. *)
LEMMA WorkerLosesNothing ==
  ASSUME EventsTypeOK, OneOrderPerSession, PostedIsStored, WorkerNext
  PROVE  SentEvents' = SentEvents
  <1>1. CASE ReceiveEvent
    <2>1. /\ queue \in Seq(Event) /\ queue # <<>> /\ queue' = Tail(queue)
          /\ worker.phase = "idle" /\ worker'.phase = "storing"
          /\ worker'.event = Head(queue) /\ orders' = orders
      BY <1>1 DEF ReceiveEvent, EventsTypeOK
    <2>2. {queue[i] : i \in DOMAIN queue}
             = {queue'[i] : i \in DOMAIN queue'} \cup {worker'.event}
      <3>1. ASSUME NEW i \in DOMAIN queue
            PROVE  queue[i] \in {queue'[j] : j \in DOMAIN queue'} \cup {worker'.event}
        <4>1. i = 1 \/ (i - 1 \in DOMAIN queue' /\ queue'[i - 1] = queue[i])
          BY <2>1
        <4>2. QED
          BY <2>1, <4>1
      <3>2. ASSUME NEW j \in DOMAIN queue' PROVE queue'[j] \in {queue[i] : i \in DOMAIN queue}
        BY <2>1
      <3>3. worker'.event \in {queue[i] : i \in DOMAIN queue}
        BY <2>1
      <3>4. QED
        BY <3>1, <3>2, <3>3
    <2>3. QED
      BY <2>1, <2>2 DEF SentEvents, Stored
  <1>2. CASE StoreOrder
    <2>1. /\ worker.event \in Event /\ worker.phase = "storing"
          /\ orders' = [orders EXCEPT ![worker.event.order] = worker.event.checkout]
          /\ queue' = queue /\ worker'.event = worker.event /\ worker'.phase = "posting"
      BY <1>2 DEF StoreOrder, EventsTypeOK
    <2>2. worker.event \in SentEvents /\ worker.event \in SentEvents'
      BY <2>1 DEF SentEvents
    <2>3. ASSUME NEW o \in Orders, Stored(o)
          PROVE  [order |-> o, checkout |-> orders[o]] \in SentEvents'
      <3>1. CASE o = worker.event.order
        <4>1. [order |-> o, checkout |-> orders[o]] \in SentEvents
          BY <2>3 DEF SentEvents
        <4>2. orders[o] = worker.event.checkout
          BY <2>2, <3>1, <4>1 DEF OneOrderPerSession
        <4>3. [order |-> o, checkout |-> orders[o]] = worker.event
          BY <2>1, <3>1, <4>2 DEF Event
        <4>4. QED
          BY <2>2, <4>3
      <3>2. CASE o # worker.event.order
        BY <2>1, <2>3, <3>2 DEF EventsTypeOK, SentEvents, Stored
      <3>3. QED
        BY <3>1, <3>2
    <2>4. SentEvents \subseteq SentEvents'
      BY <2>1, <2>2, <2>3 DEF SentEvents
    <2>5. QED
      BY <2>4, SentEventsWorker
  <1>3. CASE EndDelivery
    <2>1. /\ worker.phase = "posting" /\ worker'.phase = "idle"
          /\ UNCHANGED <<queue, orders>> /\ worker.event \in Event
      BY <1>3 DEF EndDelivery, WorkerIdle, EventsTypeOK
    <2>2. worker.event.order \in Orders /\ Stored(worker.event.order)
          /\ worker.event = [order |-> worker.event.order,
                             checkout |-> orders[worker.event.order]]
      BY <2>1, IdentifierAssumption DEF PostedIsStored, Stored, Event
    <2>3. QED
      BY <2>1, <2>2 DEF SentEvents, Stored
  <1>4. CASE RetryDelivery
    BY <1>4 DEF RetryDelivery, SentEvents, Stored, EventsTypeOK
  <1>5. QED
    BY <1>1, <1>2, <1>3, <1>4 DEF WorkerNext

(* The orders placed stay the same when the same completions are           *)
(* unannounced.                                                            *)
LEMMA PlacedSame ==
  ASSUME SentEvents' = SentEvents, Unannounced' = Unannounced,
         \A r \in Unannounced :
            req'[r].copy.order = req[r].copy.order /\ req'[r].id = req[r].id
  PROVE  Placed' = Placed
  BY DEF Placed

(* A completion's order is placed when its session is written. *)
LEMMA PlacedByWrite ==
  ASSUME TypeOK, NEW r \in Requests, StoreSession(r)
  PROVE  Placed' = IF req[r].op = "complete"
                   THEN Placed \cup {[order |-> req[r].copy.order, checkout |-> req[r].id]}
                   ELSE Placed
  <1>1. SentEvents' = SentEvents /\ req[r] \in Request
    BY SentEventsSame DEF StoreSession, TypeOK
  <1>2. /\ req[r].pc = "caching" /\ req'[r].pc = "overlay_read" /\ req'[r].op = req[r].op
        /\ req'[r].copy = req[r].copy /\ req'[r].id = req[r].id
        /\ \A q \in Requests : q # r => req'[q] = req[q]
    BY <1>1 DEF StoreSession, Goto, At, Request, TypeOK
  <1>3. Unannounced' = IF req[r].op = "complete" THEN Unannounced \cup {r} ELSE Unannounced
    BY <1>2 DEF Unannounced
  <1>4. r \notin Unannounced
    BY <1>2 DEF Unannounced
  <1>5. \A q \in Unannounced : req'[q] = req[q]
    BY <1>2, <1>4 DEF Unannounced
  <1>6. QED
    BY <1>1, <1>2, <1>3, <1>5 DEF Placed

(* Announcing an order moves it from the completion to the channel. *)
LEMMA PlacedAnnounced ==
  ASSUME SessionInv, NEW r \in Requests, AnnounceOrder(r)
  PROVE  Placed' = Placed
  <1> DEFINE e == [order |-> req[r].copy.order, checkout |-> req[r].id]
  <1>1. TypeOK /\ EventsTypeOK /\ req[r] \in Request
    BY DEF SessionInv, TypeOK
  <1>2. /\ req[r].pc = "sending" /\ req[r].op = "complete" /\ r \in Unannounced
        /\ req[r].id \in Checkouts /\ req[r].copy.order \in Orders
    BY <1>1 DEF AnnounceOrder, At, SessionInv, CopiesAreWellFormed, WellFormed, Writing,
       TypeOK, Unannounced
  <1>3. SentEvents' = SentEvents \cup {e}
    BY <1>1, <1>2, SentEventsSend DEF AnnounceOrder, Event
  <1>4. /\ req'[r].pc = "recording"
        /\ \A q \in Requests : q # r => req'[q] = req[q]
    BY <1>1 DEF AnnounceOrder, Goto, Request, TypeOK
  <1>5. Unannounced' = Unannounced \ {r}
    BY <1>4 DEF Unannounced
  <1>6. \A q \in Unannounced' : req'[q] = req[q]
    BY <1>4, <1>5 DEF Unannounced
  <1> HIDE DEF e
  <1>7. {[order |-> req[q].copy.order, checkout |-> req[q].id] : q \in Unannounced}
           = {[order |-> req[q].copy.order, checkout |-> req[q].id] : q \in Unannounced'}
             \cup {e}
    BY <1>2, <1>5 DEF e
  <1>8. {[order |-> req'[q].copy.order, checkout |-> req'[q].id] : q \in Unannounced'}
           = {[order |-> req[q].copy.order, checkout |-> req[q].id] : q \in Unannounced'}
    BY <1>6
  <1>9. QED
    BY <1>3, <1>7, <1>8 DEF Placed

(* The other steps of a request that is not abandoned place nothing. *)
LEMMA PlacedOtherwise ==
  ASSUME TypeOK, NEW r \in Requests, Arrive(r) \/ Proceed(r),
         ~StoreSession(r), ~AnnounceOrder(r)
  PROVE  Placed' = Placed
  <1>1. req[r] \in Request /\ \A q \in Requests : q # r => req'[q] = req[q]
    BY OnlyTheRequestMoves DEF TypeOK
  <1>2. SentEvents' = SentEvents
    <2>1. UNCHANGED eventVars
      BY DEF Arrive, Proceed, CreateCheckout, Begin, Refuse, GetCheckout, UpdateCheckout,
         CompleteCheckout, CancelCheckout, EvictExpired, DropOverlay, ReadOverlay,
         WriteOverlay, RecordNegotiated
    <2>2. QED
      BY <2>1, SentEventsSame
  <1>3. CASE ReadOverlay(r)
    <2>1. /\ req[r].pc = "overlay_read" /\ req'[r].pc = "overlay_write"
          /\ req'[r].op = req[r].op /\ req'[r].copy = req[r].copy /\ req'[r].id = req[r].id
      BY <1>1, <1>3 DEF ReadOverlay, At, Request, TypeOK
    <2>2. Unannounced' = Unannounced
      BY <1>1, <2>1 DEF Unannounced
    <2>3. QED
      BY <1>1, <1>2, <2>1, <2>2, PlacedSame DEF Unannounced
  <1>4. CASE WriteOverlay(r)
    <2>1. /\ req[r].pc = "overlay_write"
          /\ req'[r].pc = IF req[r].op = "complete" THEN "sending" ELSE "recording"
          /\ req'[r].op = req[r].op /\ req'[r].copy = req[r].copy /\ req'[r].id = req[r].id
      BY <1>1, <1>4 DEF WriteOverlay, Goto, At, Request, TypeOK
    <2>2. Unannounced' = Unannounced
      BY <1>1, <2>1 DEF Unannounced
    <2>3. QED
      BY <1>1, <1>2, <2>1, <2>2, PlacedSame DEF Unannounced
  <1>5. CASE ~ReadOverlay(r) /\ ~WriteOverlay(r)
    <2>1. req[r].pc \in {"idle", "lookup", "evicting", "recording"}
      BY <1>5 DEF Arrive, Proceed, CreateCheckout, Begin, Refuse, GetCheckout, UpdateCheckout,
         CompleteCheckout, CancelCheckout, Running, EvictExpired, DropOverlay,
         RecordNegotiated, At
    <2>2. req'[r].pc \in {"idle", "lookup", "caching", "evicting", "recording"}
      <3>1. CASE UpdateCheckout(r) \/ CompleteCheckout(r) \/ CancelCheckout(r)
        <4>1. PICK s : StoreNext(r, s)
          BY <3>1 DEF UpdateCheckout, CompleteCheckout, CancelCheckout
        <4>2. QED
          BY <1>1, <4>1 DEF StoreNext, Request, TypeOK
      <3>2. CASE GetCheckout(r) \/ EvictExpired(r)
        BY <1>1, <3>2 DEF GetCheckout, EvictExpired, Goto, Request, TypeOK
      <3>3. CASE Arrive(r) \/ Refuse(r) \/ DropOverlay(r) \/ RecordNegotiated(r)
        BY <1>1, <3>3 DEF Arrive, CreateCheckout, Begin, Refuse, DropOverlay,
           RecordNegotiated, Respond, Idle, TypeOK
      <3>4. QED
        BY <1>5, <3>1, <3>2, <3>3 DEF Proceed
    <2>3. Unannounced' = Unannounced /\ r \notin Unannounced
      BY <1>1, <2>1, <2>2 DEF Unannounced
    <2>4. QED
      BY <1>1, <1>2, <2>3, PlacedSame DEF Unannounced
  <1>6. QED
    BY <1>3, <1>4, <1>5

-----------------------------------------------------------------------------
(* Each step as a step of SessionLifecycle. *)

LifecycleStep == [Lifecycle!LifecycleNext]_(Lifecycle!lifecycleVars)

LEMMA LifecycleStutter ==
  ASSUME cache' = cache, Placed' = Placed, orders' = orders
  PROVE  LifecycleStep
  BY DEF LifecycleStep, Lifecycle!lifecycleVars, SessionPhases, Retrievable, Stored

(* A session is written: it opens, is completed with an order of its own,  *)
(* is canceled, or stays open.                                             *)
LEMMA WriteIsLifecycleStep ==
  ASSUME Serialized, LifecycleInv, NEW r \in Requests, StoreSession(r)
  PROVE  LifecycleStep
  <1> DEFINE c == req[r].id
             s == req[r].copy
             e == [order |-> s.order, checkout |-> c]
  <1>1. /\ TypeOK /\ StoreTypeOK /\ RequestsAddressTheirSessions
        /\ CopiesAreWellFormed /\ WritersHaveNoOrder /\ CopiesHaveDistinctOrders
    BY DEF LifecycleInv, OrdersInv, FinalityInv, SessionInv, TypeOK
  <1>2. /\ req[r].pc = "caching" /\ req[r].pc \in Writing /\ r \notin Unannounced
        /\ c \in Checkouts /\ s \in Session /\ s.status # "absent"
        /\ s.status = "completed" <=> req[r].op = "complete"
        /\ WellFormed(s)
    BY <1>1 DEF StoreSession, At, Writing, TypeOK, Request, LifecycleInv,
       WritesAreOfTheirOperation, CopiesAreWellFormed, Unannounced
  <1>3. cache' = [cache EXCEPT ![c] = s] /\ Retrievable' = Retrievable
    BY DEF StoreSession, InsertCached, Retrievable, Stored, eventVars
  <1>4. ~Terminal(cache[c]) /\ cache[c] \in Session
    BY <1>1, <1>2 DEF LifecycleInv, OrdersInv, FinalityInv, OverwritesOpenSessions, At, StoreTypeOK
  <1>5. SessionPhases[c] \in {"absent", "open"}
    BY <1>2, <1>4 DEF SessionPhases, PhaseOf, Session, Terminal
  <1>6. SessionPhases' = [SessionPhases EXCEPT ![c] = PhaseOf(s)]
    BY <1>1, <1>2, <1>3 DEF SessionPhases, StoreTypeOK
  <1>7. \A p \in Placed : p.checkout # c
    <2>1. \A p \in SentEvents : p.checkout # c
      BY <1>1, <1>2 DEF WritersHaveNoOrder
    <2>2. \A q \in Unannounced : req[q].id # c
      BY <1>1, <1>2, WritersAreApart DEF Unannounced, Writing
    <2>3. QED
      BY <2>1, <2>2 DEF Placed
  <1>8. ~Lifecycle!HasOrder(c)
    BY <1>7 DEF Lifecycle!HasOrder
  <1>9. CASE req[r].op = "complete"
    <2>1. s.order \in Orders /\ PhaseOf(s) = "completed"
      BY <1>2, <1>9 DEF WellFormed, PhaseOf, OpenStatuses
    <2>2. \A p \in Placed : p.order # s.order
      <3>1. \A p \in SentEvents : p.order # s.order
        BY <1>1, <1>2 DEF WritersHaveNoOrder
      <3>2. \A q \in Unannounced : req[q].copy.order # s.order
        BY <1>1, <1>2, <2>1, IdentifierAssumption DEF CopiesHaveDistinctOrders, Unannounced
      <3>3. QED
        BY <3>1, <3>2 DEF Placed
    <2>3. Placed' = Placed \cup {e}
      BY <1>1, <1>9, PlacedByWrite
    <2>4. Lifecycle!Complete(c, s.order)
      BY <1>3, <1>5, <1>6, <1>8, <2>1, <2>2, <2>3 DEF Lifecycle!Complete
    <2>5. QED
      BY <1>2, <2>1, <2>4 DEF LifecycleStep, Lifecycle!LifecycleNext
  <1>10. CASE req[r].op # "complete"
    <2>1. Placed' = Placed
      BY <1>1, <1>10, PlacedByWrite
    <2>2. PhaseOf(s) \in {"open", "canceled"}
      BY <1>2, <1>10 DEF PhaseOf, Session, OpenStatuses, TerminalStatuses
    <2>3. CASE PhaseOf(s) = "canceled"
      <3>1. Lifecycle!Cancel(c)
        BY <1>3, <1>5, <1>6, <1>8, <2>1, <2>3 DEF Lifecycle!Cancel
      <3>2. QED
        BY <1>2, <3>1 DEF LifecycleStep, Lifecycle!LifecycleNext
    <2>4. CASE PhaseOf(s) = "open" /\ SessionPhases[c] = "absent"
      <3>1. Lifecycle!Open(c)
        BY <1>3, <1>6, <1>8, <2>1, <2>4 DEF Lifecycle!Open
      <3>2. QED
        BY <1>2, <3>1 DEF LifecycleStep, Lifecycle!LifecycleNext
    <2>5. CASE PhaseOf(s) = "open" /\ SessionPhases[c] = "open"
      <3>1. SessionPhases' = SessionPhases
        BY <1>2, <1>6, <2>5 DEF SessionPhases
      <3>2. QED
        BY <1>3, <2>1, <3>1 DEF LifecycleStep, Lifecycle!lifecycleVars
    <2>6. QED
      BY <1>5, <2>2, <2>3, <2>4, <2>5
  <1>11. QED
    BY <1>9, <1>10

(* An expired session is evicted: it is forgotten. *)
LEMMA EvictionIsLifecycleStep ==
  ASSUME LifecycleInv, NEW r \in Requests, EvictExpired(r)
  PROVE  LifecycleStep
  <1> DEFINE c == req[r].id
  <1>1. TypeOK /\ StoreTypeOK /\ c \in Checkouts
    BY DEF LifecycleInv, OrdersInv, FinalityInv, SessionInv, TypeOK, EvictExpired, At
  <1>2. Placed' = Placed
    <2>1. ~StoreSession(r) /\ ~AnnounceOrder(r)
      BY DEF EvictExpired, StoreSession, AnnounceOrder, At
    <2>2. QED
      BY <1>1, <2>1, PlacedOtherwise DEF Proceed
  <1>3. /\ cache' = [cache EXCEPT ![c] = NoSession] /\ Present(c)
        /\ Retrievable' = Retrievable
    BY DEF EvictExpired, EvictCached, Retrievable, Stored, eventVars
  <1>4. SessionPhases[c] # "absent" /\ PhaseOf(NoSession) = "absent"
    BY <1>1, <1>3 DEF SessionPhases, PhaseOf, Present, NoSession, OpenStatuses
  <1>5. SessionPhases' = [SessionPhases EXCEPT ![c] = "absent"]
    BY <1>1, <1>3, <1>4 DEF SessionPhases, StoreTypeOK
  <1>6. Lifecycle!Forget(c)
    BY <1>2, <1>3, <1>4, <1>5 DEF Lifecycle!Forget
  <1>7. QED
    BY <1>1, <1>6 DEF LifecycleStep, Lifecycle!LifecycleNext

(* The other steps of a request change neither sessions nor orders. *)
LEMMA RequestIsLifecycleStep ==
  ASSUME Serialized, LifecycleInv, NEW r \in Requests, Arrive(r) \/ Proceed(r)
  PROVE  LifecycleStep
  <1>1. TypeOK /\ SessionInv
    BY DEF LifecycleInv, OrdersInv, FinalityInv, SessionInv
  <1>2. CASE StoreSession(r)
    BY <1>2, WriteIsLifecycleStep
  <1>3. CASE EvictExpired(r)
    BY <1>3, EvictionIsLifecycleStep
  <1>4. CASE ~StoreSession(r) /\ ~EvictExpired(r)
    <2>1. Placed' = Placed
      BY <1>1, <1>4, PlacedAnnounced, PlacedOtherwise
    <2>2. orders' = orders
      BY RequestsOnlySend
    <2>3. cache' = cache
      BY <1>4 DEF Arrive, Proceed, CreateCheckout, Begin, Refuse, GetCheckout,
         UpdateCheckout, CompleteCheckout, CancelCheckout, DropOverlay, RemoveOverlay,
         ReadOverlay, WriteOverlay, InsertOverlay, AnnounceOrder, RecordNegotiated,
         SetNegotiated, storeVars
    <2>4. QED
      BY <2>1, <2>2, <2>3, LifecycleStutter
  <1>5. QED
    BY <1>2, <1>3, <1>4

(* The worker makes the order of its event retrievable, and nothing else. *)
LEMMA WorkerIsLifecycleStep ==
  ASSUME LifecycleInv, WorkerNext, UNCHANGED <<storeVars, req, known>>
  PROVE  LifecycleStep
  <1>1. EventsTypeOK /\ OneOrderPerSession /\ PostedIsStored
    BY DEF LifecycleInv, OrdersInv, FinalityInv, SessionInv, TypeOK
  <1>2. Placed' = Placed
    <2>1. SentEvents' = SentEvents
      BY <1>1, WorkerLosesNothing
    <2>2. Unannounced' = Unannounced
      BY DEF Unannounced
    <2>3. QED
      BY <2>1, <2>2, PlacedSame
  <1>3. CASE ~StoreOrder
    <2>1. orders' = orders /\ cache' = cache
      BY <1>3 DEF WorkerNext, ReceiveEvent, EndDelivery, RetryDelivery, storeVars
    <2>2. QED
      BY <1>2, <2>1, LifecycleStutter
  <1>4. CASE StoreOrder
    <2> DEFINE e == worker.event
    <2>1. /\ e \in Event /\ e \in Placed /\ cache' = cache
          /\ orders' = [orders EXCEPT ![e.order] = e.checkout]
      BY <1>1, <1>4 DEF StoreOrder, EventsTypeOK, Placed, SentEvents, storeVars
    <2>2. e.order \in Orders /\ e.checkout \in Checkouts
      BY <2>1 DEF Event
    <2>3. Retrievable' = Retrievable \cup {e.order}
      BY <1>1, <2>1, <2>2, IdentifierAssumption DEF Retrievable, Stored, EventsTypeOK
    <2>4. SessionPhases' = SessionPhases
      BY <2>1 DEF SessionPhases
    <2>5. CASE e.order \in Retrievable
      BY <1>2, <2>3, <2>4, <2>5 DEF LifecycleStep, Lifecycle!lifecycleVars
    <2>6. CASE e.order \notin Retrievable
      <3>1. Lifecycle!MakeRetrievable(e)
        BY <1>2, <2>1, <2>3, <2>4, <2>6 DEF Lifecycle!MakeRetrievable
      <3>2. QED
        BY <2>1, <3>1 DEF LifecycleStep, Lifecycle!LifecycleNext
    <2>7. QED
      BY <2>5, <2>6
  <1>5. QED
    BY <1>3, <1>4

LEMMA InitIsLifecycleInit == Init => Lifecycle!LifecycleInit
  <1> SUFFICES ASSUME Init PROVE Lifecycle!LifecycleInit
    OBVIOUS
  <1>1. SessionPhases = [c \in Checkouts |-> "absent"]
    BY DEF Init, StoreInit, SessionPhases, PhaseOf, NoSession, OpenStatuses
  <1>2. Placed = {}
    BY DEF Init, EventsInit, Placed, SentEvents, Stored, WorkerIdle, Unannounced, Idle
  <1>3. Retrievable = {}
    BY DEF Init, EventsInit, Retrievable, Stored
  <1>4. QED
    BY <1>1, <1>2, <1>3 DEF Lifecycle!LifecycleInit

(* Clients that serialize their operations on each session and stay        *)
(* connected see the lifecycle and nothing else: however many sessions     *)
(* they have under way, each opens, is completed or canceled at most once, *)
(* is placed with its one order in the step that completes it, and only    *)
(* orders that were placed become retrievable.                             *)
THEOREM ServiceImplementsLifecycle ==
  ASSUME Serialized, MayDisconnect = {}
  PROVE  Spec => Lifecycle!LifecycleSafety
  <1>1. LifecycleInv /\ [Next]_vars => LifecycleStep
    <2> SUFFICES ASSUME LifecycleInv, [Next]_vars PROVE LifecycleStep
      OBVIOUS
    <2>1. ASSUME NEW r \in Requests, Arrive(r) \/ Proceed(r) PROVE LifecycleStep
      BY <2>1, RequestIsLifecycleStep
    <2>2. ASSUME NEW r \in Requests PROVE ~Disconnect(r)
      BY DEF Disconnect
    <2>3. ASSUME WorkerNext, UNCHANGED <<storeVars, req, known>> PROVE LifecycleStep
      BY <2>3, WorkerIsLifecycleStep
    <2>4. ASSUME UNCHANGED <<cache, eventVars, req>> PROVE LifecycleStep
      <3>1. SentEvents' = SentEvents /\ Unannounced' = Unannounced
        BY <2>4, SentEventsSame DEF Unannounced
      <3>2. Placed' = Placed
        BY <2>4, <3>1, PlacedSame
      <3>3. QED
        BY <2>4, <3>2, LifecycleStutter DEF eventVars
    <2>5. QED
      BY <2>1, <2>2, <2>3, <2>4 DEF Next, Expire, storeVars, vars
  <1>2. QED
    BY <1>1, InitIsLifecycleInit, LifecycleInvariant, PTL
    DEF Spec, LifecycleStep, Lifecycle!LifecycleSafety

=============================================================================
