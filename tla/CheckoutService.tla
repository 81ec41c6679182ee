--------------------------- MODULE CheckoutService ---------------------------
(***************************************************************************)
(* The checkout service (src/service.rs) under concurrent requests.  Every *)
(* transport (REST in src/main.rs, MCP, A2A, gRPC) runs an operation as a  *)
(* future on the tokio runtime; nothing serializes two operations on one   *)
(* session, and an operation gives way at every lock and at a full         *)
(* channel.  A request is modelled by a slot, and the program counter of   *)
(* the slot names the next critical section of the operation.              *)
(*                                                                         *)
(* What a client may do is left to the constants: Mutates[r] is the set of *)
(* sessions the client behind slot r updates, completes or cancels, and    *)
(* Reads[r] those it fetches.  Disjoint sets are clients that serialize    *)
(* their requests to a session; equal sets are clients that do not.        *)
(***************************************************************************)
EXTENDS CheckoutStore, OrderEvents

CONSTANTS
    Requests,        \* slots for requests in progress: a bound of the model
    Mutates, Reads,  \* the sessions a slot's client addresses
    Inputs,          \* the request bodies: a bound of the model
    MayDisconnect    \* the slots whose client may go away

ASSUME ServiceAssumption ==
    /\ Mutates \in [Requests -> SUBSET Checkouts]
    /\ Reads \in [Requests -> SUBSET Checkouts]
    /\ Inputs \subseteq InputSpace
    /\ MayDisconnect \subseteq Requests

VARIABLES
    req,     \* req[r]: the operation slot r runs
    known    \* the session identifiers that clients have been told

vars == <<storeVars, eventVars, req, known>>

Operations == {"create", "get", "update", "complete", "cancel"}

(* A request in progress: its operation and session, the platform its       *)
(* negotiation yields ("none" for gRPC and the embedded page), the          *)
(* operation's own copy of the session, and the negotiation insert read.    *)
Request == [pc : {"idle", "lookup", "evicting", "caching", "overlay_read",
                  "overlay_write", "sending", "recording"},
            op : Operations \cup {"none"}, id : Checkouts \cup {NoCheckout},
            platform : Platforms \cup {"none"}, copy : Session,
            kept : Platforms \cup {"none"}]

Idle == [pc |-> "idle", op |-> "none", id |-> NoCheckout, platform |-> "none",
         copy |-> NoSession, kept |-> "none"]

TypeOK == /\ StoreTypeOK
          /\ EventsTypeOK
          /\ req \in [Requests -> Request]
          /\ \A r \in Requests : req[r].pc # "idle" => req[r].id \in Checkouts
          /\ known \subseteq Checkouts

Init == /\ StoreInit
        /\ EventsInit
        /\ req = [r \in Requests |-> Idle]
        /\ known = {}

-----------------------------------------------------------------------------

At(r, pc) == req[r].pc = pc
Running(r, op) == At(r, "lookup") /\ req[r].op = op

Goto(r, pc) == req' = [req EXCEPT ![r].pc = pc]
Respond(r) == req' = [req EXCEPT ![r] = Idle]
StoreNext(r, session) ==
    req' = [req EXCEPT ![r] = [@ EXCEPT !.pc = "caching", !.copy = session]]

(* Uuid::new_v4: identifiers that nothing holds yet. *)
FreshCheckouts == {c \in Checkouts : /\ c \notin known
                                     /\ ~Present(c)
                                     /\ \A r \in Requests : req[r].id # c}

FreshOrders == {o \in Orders : /\ o \notin {event.order : event \in SentEvents}
                               /\ \A c \in Checkouts : cache[c].order # o
                               /\ \A r \in Requests : req[r].copy.order # o}

-----------------------------------------------------------------------------
(* The operations, up to the first write or the answer.  A request is      *)
(* computed without giving way between the lookup and insert's first lock. *)

(* create_checkout; a body the service refuses leaves no trace. *)
CreateCheckout(r, platform) ==
    /\ At(r, "idle")
    /\ \E c \in FreshCheckouts, input \in Inputs :
           req' = [req EXCEPT ![r] = [pc |-> "caching", op |-> "create", id |-> c,
                                      platform |-> platform, copy |-> Created(input),
                                      kept |-> "none"]]
    /\ UNCHANGED <<storeVars, eventVars, known>>

(* A client sends a request for a session it has been told of. *)
Begin(r, op, c, platform) ==
    /\ At(r, "idle")
    /\ c \in known
    /\ c \in (IF op = "get" THEN Reads[r] ELSE Mutates[r])
    /\ req' = [req EXCEPT ![r] = [pc |-> "lookup", op |-> op, id |-> c,
                                  platform |-> platform, copy |-> NoSession,
                                  kept |-> "none"]]
    /\ UNCHANGED <<storeVars, eventVars, known>>

(* The request ends without effect: there is no such session, its state    *)
(* rules the operation out, or the body is refused (line items, currency,  *)
(* AP2 mandate, payment data).                                             *)
Refusable(r) == \/ ~Present(req[r].id)
                \/ Hit(req[r].id) /\ req[r].op # "get"
                       /\ (req[r].op = "cancel" => Terminal(cache[req[r].id]))

Refuse(r) == /\ At(r, "lookup") /\ Refusable(r)
             /\ Respond(r)
             /\ UNCHANGED <<storeVars, eventVars, known>>

(* get_checkout finds the session; what is left is the answer. *)
GetCheckout(r) == /\ Running(r, "get") /\ Hit(req[r].id)
                  /\ Goto(r, "recording")
                  /\ UNCHANGED <<storeVars, eventVars, known>>

(* A bug to detect: a completed or canceled session can be updated. *)
UpdateAnySession(r) ==
    /\ Running(r, "update") /\ Hit(req[r].id)
    /\ \E input \in Inputs : StoreNext(r, Updated(cache[req[r].id], input))
    /\ UNCHANGED <<storeVars, eventVars, known>>

UpdateCheckout(r) ==
    /\ Running(r, "update") /\ Hit(req[r].id)
    /\ ~Terminal(cache[req[r].id])
    /\ \E input \in Inputs : StoreNext(r, Updated(cache[req[r].id], input))
    /\ UNCHANGED <<storeVars, eventVars, known>>

(* A bug to detect: a completion that is repeated succeeds again. *)
CompleteAgain(r) ==
    /\ Running(r, "complete") /\ Hit(req[r].id)
    /\ cache[req[r].id].status \in {"ready_for_complete", "completed"}
    /\ \E o \in FreshOrders :
           StoreNext(r, Completed(Attached(cache[req[r].id], "usable"), o))
    /\ UNCHANGED <<storeVars, eventVars, known>>

(* A bug to detect: the status is not checked once more. *)
CompleteUnchecked(r) ==
    /\ Running(r, "complete") /\ Hit(req[r].id)
    /\ cache[req[r].id].status = "ready_for_complete"
    /\ \E instrument \in {"card_incomplete", "usable"}, o \in FreshOrders :
           StoreNext(r, Completed(Attached(cache[req[r].id], instrument), o))
    /\ UNCHANGED <<storeVars, eventVars, known>>

(* complete_checkout_with_requirements: the session must be ready, and be  *)
(* ready still once the payment data of the request is attached.           *)
CompleteCheckout(r) ==
    /\ Running(r, "complete") /\ Hit(req[r].id)
    /\ cache[req[r].id].status = "ready_for_complete"
    /\ \E instrument \in {"card_incomplete", "usable"}, o \in FreshOrders :
           LET session == Attached(cache[req[r].id], instrument) IN
               /\ session.status = "ready_for_complete"
               /\ StoreNext(r, Completed(session, o))
    /\ UNCHANGED <<storeVars, eventVars, known>>

(* A bug to detect: a completed session can be canceled. *)
CancelAnySession(r) ==
    /\ Running(r, "cancel") /\ Hit(req[r].id)
    /\ StoreNext(r, Canceled(cache[req[r].id]))
    /\ UNCHANGED <<storeVars, eventVars, known>>

CancelCheckout(r) ==
    /\ Running(r, "cancel") /\ Hit(req[r].id)
    /\ ~Terminal(cache[req[r].id])
    /\ StoreNext(r, Canceled(cache[req[r].id]))
    /\ UNCHANGED <<storeVars, eventVars, known>>

-----------------------------------------------------------------------------
(* The critical sections of CheckoutStore::get and insert.  A get that     *)
(* misses under the read lock looks again under the write lock; the second *)
(* look decides, so the first is not a step of its own.                    *)

EvictExpired(r) == /\ At(r, "lookup")
                   /\ EvictCached(req[r].id)
                   /\ Goto(r, "evicting")
                   /\ UNCHANGED <<eventVars, known>>

DropOverlay(r) == /\ At(r, "evicting")
                  /\ RemoveOverlay(req[r].id)
                  /\ Respond(r)
                  /\ UNCHANGED <<eventVars, known>>

StoreSession(r) == /\ At(r, "caching")
                   /\ InsertCached(req[r].id, req[r].copy)
                   /\ Goto(r, "overlay_read")
                   /\ UNCHANGED <<eventVars, known>>

ReadOverlay(r) ==
    /\ At(r, "overlay_read")
    /\ req' = [req EXCEPT ![r] = [@ EXCEPT !.pc = "overlay_write",
                                           !.kept = NegotiatedIn(req[r].id)]]
    /\ UNCHANGED <<storeVars, eventVars, known>>

WriteOverlay(r) ==
    /\ At(r, "overlay_write")
    /\ InsertOverlay(req[r].id, req[r].kept)
    /\ Goto(r, IF req[r].op = "complete" THEN "sending" ELSE "recording")
    /\ UNCHANGED <<eventVars, known>>

(* A completion announces its order only after insert has returned. *)
AnnounceOrder(r) == /\ At(r, "sending")
                    /\ Send([order |-> req[r].copy.order, checkout |-> req[r].id])
                    /\ Goto(r, "recording")
                    /\ UNCHANGED <<storeVars, known>>

(* record_negotiated_checkout, unless the transport does not negotiate,    *)
(* then the answer, which tells the client of the session.                 *)
RecordNegotiated(r) ==
    /\ At(r, "recording")
    /\ IF req[r].platform = "none" THEN UNCHANGED storeVars
       ELSE SetNegotiated(req[r].id, req[r].platform)
    /\ known' = known \cup {req[r].id}
    /\ Respond(r)
    /\ UNCHANGED eventVars

(* The client goes away: the server drops the future where it waits, and   *)
(* what the operation had still to do is not done.                         *)
Disconnect(r) == /\ r \in MayDisconnect /\ ~At(r, "idle")
                 /\ Respond(r)
                 /\ UNCHANGED <<storeVars, eventVars, known>>

-----------------------------------------------------------------------------

(* What an operation in progress does next, when nothing stops it. *)
Proceed(r) == \/ Refuse(r) \/ GetCheckout(r) \/ UpdateCheckout(r)
              \/ CompleteCheckout(r) \/ CancelCheckout(r)
              \/ EvictExpired(r) \/ DropOverlay(r) \/ StoreSession(r)
              \/ ReadOverlay(r) \/ WriteOverlay(r) \/ AnnounceOrder(r)
              \/ RecordNegotiated(r)

Arrive(r) == \E platform \in Platforms \cup {"none"} :
                 \/ CreateCheckout(r, platform)
                 \/ \E op \in Operations \ {"create"}, c \in Checkouts :
                        Begin(r, op, c, platform)

Next == \/ \E r \in Requests : Arrive(r) \/ Proceed(r) \/ Disconnect(r)
        \/ WorkerNext /\ UNCHANGED <<storeVars, req, known>>
        \/ (\E c \in Checkouts : Expire(c)) /\ UNCHANGED <<eventVars, req, known>>

Spec == Init /\ [][Next]_vars

(* The runtime polls every future that can run, tokio's locks and channel  *)
(* serve waiters in order, and a delivery attempt ends by its timeout.     *)
Fairness == /\ \A r \in Requests : WF_vars(Proceed(r))
            /\ WF_vars(WorkerNext /\ UNCHANGED <<storeVars, req, known>>)

FairSpec == Spec /\ Fairness

-----------------------------------------------------------------------------
(* Properties that hold however the clients behave. *)

WellFormed(s) == IF s.status = "completed" THEN Settled(s) /\ s.order \in Orders
                 ELSE s.order = NoOrder

(* A completed session has an order and lacks nothing a completion needs,   *)
(* and no other session has an order: complete checks the status again     *)
(* after attach_payment_data, and update and cancel never carry an order.  *)
CompletedIsWellFormed == \A c \in Checkouts : WellFormed(cache[c])

(* Every request is answered although completions wait for a full channel  *)
(* and the worker that empties it waits for the platform's webhook.        *)
RequestsAreAnswered == \A r \in Requests : ~At(r, "idle") ~> At(r, "idle")

(* The strengthening that makes it inductive: the copies that requests      *)
(* carry are well formed too, and a completion's copy is completed.        *)
Writing == {"caching", "overlay_read", "overlay_write", "sending"}

CopiesAreWellFormed ==
    \A r \in Requests :
        /\ WellFormed(req[r].copy)
        /\ req[r].op = "complete" /\ req[r].pc \in Writing
               => req[r].copy.status = "completed"
        /\ req[r].pc = "sending" => req[r].op = "complete"

SessionInv == TypeOK /\ CompletedIsWellFormed /\ CopiesAreWellFormed

-----------------------------------------------------------------------------
(* Properties of clients that serialize their operations on a session. *)

Serialized == \A q, r \in Requests : q # r => Mutates[q] \cap Mutates[r] = {}

(* A completed or canceled session stays as it is until it is evicted: the *)
(* checks "cannot be updated", "already completed" and "cannot be          *)
(* canceled" of service.rs, made long before the write they protect.       *)
TerminalIsFinal ==
    [][\A c \in Checkouts : Terminal(cache[c]) => cache'[c] \in {cache[c], NoSession}]_vars

(* A session yields at most one order, and an order belongs to one session,*)
(* wherever the order is: in the channel, with the worker, in the store.   *)
OneOrderPerSession ==
    \A d, e \in SentEvents : (d.checkout = e.checkout) <=> (d.order = e.order)

(* The session of an order that was announced says so: while the store     *)
(* still has it, it is completed and names that order.                     *)
OrderHasItsSession ==
    \A e \in SentEvents :
        Present(e.checkout) => /\ cache[e.checkout].status = "completed"
                               /\ cache[e.checkout].order = e.order

(* The order of a completed session reaches the order store, from which    *)
(* /api/orders serves it (README.md: "can be retrieved or updated via the  *)
(* /api/orders endpoints after checkout completion").                      *)
CompletedOrderIsStored ==
    \A c \in Checkouts, o \in Orders :
        (cache[c].status = "completed" /\ cache[c].order = o) ~> Stored(o)

(* The sessions that only one client addresses, be it to read them. *)
HasOneClient(c) == \A q, r \in Requests :
                       c \in (Mutates[q] \cup Reads[q]) \cap (Mutates[r] \cup Reads[r]) => q = r

(* What a platform negotiated for a session is not lost while the session  *)
(* lasts: insert reads it from the old overlay to put it in the new one.   *)
(* (A read by another client records its own negotiation, which an insert  *)
(* between its read and its write of the overlay overwrites.)              *)
NegotiationIsKept ==
    [][\A c \in Checkouts : HasOneClient(c) /\ overlays[c] \in Platforms /\ Present(c)
                                => overlays'[c] \in Platforms]_vars

-----------------------------------------------------------------------------
(* The strengthening behind TerminalIsFinal: who addresses which session,   *)
(* and that a session about to be overwritten is still open.               *)

AddressesItsSession(r) ==
    /\ req[r].op \in Operations
    /\ req[r].op = "create" => /\ req[r].id \notin known
                               /\ \A q \in Requests : q # r => req[q].id # req[r].id
    /\ req[r].op # "create" => req[r].id \in known
    /\ req[r].pc \in Writing => req[r].op \in {"create", "update", "complete", "cancel"}
    /\ req[r].op \in {"update", "complete", "cancel"} => req[r].id \in Mutates[r]
    /\ req[r].op = "get" => req[r].id \in Reads[r]

RequestsAddressTheirSessions ==
    \A r \in Requests : IF At(r, "idle") THEN req[r] = Idle ELSE AddressesItsSession(r)

OverwritesOpenSessions ==
    \A r \in Requests : At(r, "caching") => ~Terminal(cache[req[r].id])

FinalityInv == SessionInv /\ RequestsAddressTheirSessions /\ OverwritesOpenSessions

(* The strengthening behind NegotiationIsKept: what a request is about to   *)
(* do to the overlay loses nothing, if no other request is at the session. *)
KeepsTheNegotiation(r) ==
    /\ At(r, "overlay_write") /\ overlays[req[r].id] \in Platforms
           => req[r].kept \in Platforms
    /\ At(r, "evicting") => ~Present(req[r].id)

NegotiationInv ==
    /\ SessionInv
    /\ RequestsAddressTheirSessions
    /\ \A r \in Requests : HasOneClient(req[r].id) => KeepsTheNegotiation(r)

(* Completions whose session is written and whose event is still to send. *)
Unannounced == {r \in Requests : /\ req[r].op = "complete"
                                 /\ req[r].pc \in {"overlay_read", "overlay_write", "sending"}}

(* The strengthening behind OneOrderPerSession: no session about to be      *)
(* written has an order yet, and no two completions carry the same order.  *)

WritersHaveNoOrder ==
    \A r \in Requests, e \in SentEvents :
        /\ req[r].pc \in Writing => e.checkout # req[r].id
        /\ req[r].pc \in Writing => e.order # req[r].copy.order

CopiesHaveDistinctOrders ==
    \A q, r \in Requests :
        q # r /\ req[q].copy.order = req[r].copy.order => req[r].copy.order = NoOrder

UnannouncedIsStored ==
    \A r \in Unannounced :
        cache[req[r].id] \in {req[r].copy, NoSession}

OrdersInv == /\ FinalityInv
             /\ OneOrderPerSession
             /\ OrderHasItsSession
             /\ \A e \in SentEvents : e.checkout \in known
             /\ WritersHaveNoOrder
             /\ CopiesHaveDistinctOrders
             /\ UnannouncedIsStored

(* The strengthening behind ImplementsLifecycle: a request writes what its  *)
(* operation makes of a session.                                           *)
WritesAreOfTheirOperation ==
    \A r \in Requests :
        At(r, "caching") =>
            /\ req[r].copy.status # "absent"
            /\ req[r].copy.status = "completed" => req[r].op = "complete"

LifecycleInv == OrdersInv /\ WritesAreOfTheirOperation /\ PostedIsStored

-----------------------------------------------------------------------------
(* The service as its clients see it. *)

PhaseOf(s) == IF s.status \in OpenStatuses THEN "open" ELSE s.status

Placed == SentEvents
          \cup {[order |-> req[r].copy.order, checkout |-> req[r].id] : r \in Unannounced}

SessionPhases == [c \in Checkouts |-> PhaseOf(cache[c])]

Retrievable == {o \in Orders : Stored(o)}

Lifecycle == INSTANCE SessionLifecycle
                 WITH phase <- SessionPhases, placed <- Placed, retrievable <- Retrievable

(* Serialized clients that stay connected see exactly the lifecycle: a     *)
(* session opens, is completed or canceled once, and its order, placed     *)
(* with the completion, can eventually be retrieved.                       *)
ImplementsLifecycle == Lifecycle!LifecycleSpec

=============================================================================
