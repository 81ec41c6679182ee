----------------------------- MODULE Durability -----------------------------
(***************************************************************************)
(* CheckoutStore and OrderStore over an iCommerce engine (src/store.rs,    *)
(* src/order_api.rs, src/commerce_adapter.rs): sessions live in memory and *)
(* are copied to carts of the engine, and a session that is not in memory  *)
(* is looked up among the carts.  The engine survives a restart of the     *)
(* handler and is used by other applications, whose carts the handler      *)
(* adopts when a platform names one.  Requests follow one another here;    *)
(* how they interleave is in CheckoutService.                              *)
(***************************************************************************)
EXTENDS CheckoutSession, Naturals, Sequences, FiniteSets

CONSTANTS
    Own, Foreign,    \* the sessions created here, and those of other carts
    Inputs,          \* the request bodies: a bound of the model
    Ttl, Hour,       \* session_ttl_seconds, and an hour, in ticks of the clock
    CartDeadlines,   \* when a cart of another application may end
    NoDeadline, NoCart, NoEntry, NoOverlay,
    MaxClock, MaxAdoptions, MaxCopies  \* bounds of the model

ASSUME DurabilityAssumption ==
    /\ Own \cap Foreign = {} /\ Checkouts = Own \cup Foreign
    /\ Inputs \subseteq InputSpace
    /\ Ttl \in Nat /\ Hour \in Nat
    /\ NoDeadline \notin Nat /\ CartDeadlines \subseteq Nat \cup {NoDeadline}
    /\ MaxClock \in Nat /\ MaxAdoptions \in Nat \ {0} /\ MaxCopies \in Nat

VARIABLES
    clock,
    cache,      \* the session under each identifier, and until when
    overlays,   \* what a cart has no room for: payment and fulfillment
    queue,      \* the orders on their way to the worker
    orders,     \* the orders in memory
    carts,      \* the engine's cart under each identifier
    copies,     \* the carts of own sessions, under identifiers of the engine
    adoptions,  \* how often a session was created or loaded
    completions,  \* how often it was completed
    confirmed   \* the orders platforms were told of

volatile == <<cache, overlays, queue, orders>>
engineVars == <<carts, copies>>
history == <<adoptions, completions, confirmed>>
vars == <<clock, volatile, engineVars, history>>

CartStatuses == {"Active", "ReadyForPayment", "PaymentPending", "Completed",
                 "Abandoned", "Cancelled", "Expired"}

(* A bug to detect: the statuses of the engine are passed on. *)
StatusAsIs(status) == status

(* cart_status_to_checkout_status *)
StatusOfCart(status) ==
    CASE status = "Active"          -> "incomplete"
      [] status = "ReadyForPayment" -> "ready_for_complete"
      [] status = "PaymentPending"  -> "complete_in_progress"
      [] status = "Completed"       -> "completed"
      [] OTHER                      -> "canceled"

Statuses == OpenStatuses \cup TerminalStatuses \cup {"complete_in_progress"}
LiveSession == [status : Statuses, buyer : Buyers, payment : Payments,
                fulfillment : Fulfillments, order : Orders \cup {NoOrder}]
Deadline == Nat \cup {NoDeadline}

Entry == [session : LiveSession, until : Nat]
Overlay == [payment : Payments, fulfillment : Fulfillments]
Cart == [status : CartStatuses, buyer : Buyers, deadline : Deadline]

TypeOK == /\ clock \in 0..MaxClock
          /\ cache \in [Checkouts -> Entry \cup {NoEntry}]
          /\ overlays \in [Checkouts -> Overlay \cup {NoOverlay}]
          /\ queue \in Seq(Orders) /\ orders \subseteq Orders /\ confirmed \subseteq Orders
          /\ carts \in [Checkouts -> Cart \cup {NoCart}]
          /\ copies \in [Checkouts -> 0..MaxCopies]
          /\ adoptions \in [Checkouts -> 0..MaxAdoptions]
          /\ completions \in [Checkouts -> Nat]

Init == /\ clock = 0
        /\ cache = [c \in Checkouts |-> NoEntry]
        /\ overlays = [c \in Checkouts |-> NoOverlay]
        /\ queue = <<>> /\ orders = {}
        /\ carts = [c \in Checkouts |-> NoCart]
        /\ copies = [c \in Checkouts |-> 0]
        /\ adoptions = [c \in Checkouts |-> 0]
        /\ completions = [c \in Checkouts |-> 0]
        /\ confirmed = {}

Cached(c) == cache[c] # NoEntry
Outlived(c) == cache[c].until < clock
Hit(c) == Cached(c) /\ ~Outlived(c)

-----------------------------------------------------------------------------

(* carts().create: CreateCart holds no identifier, the engine draws one.   *)
CreateCart(c, s) ==
    /\ copies' = [copies EXCEPT ![c] = IF @ < MaxCopies THEN @ + 1 ELSE @]
    /\ UNCHANGED carts

(* carts().update: what it carries is the buyer, never the status. *)
UpdateCart(c, s) ==
    /\ carts' = [carts EXCEPT ![c].buyer = IF s.buyer = "with_email" THEN s.buyer ELSE @]
    /\ UNCHANGED copies

(* sync_to_icommerce looks under the session's own identifier.  A failure  *)
(* is logged, and the session stays in memory only.                        *)
SyncToEngine(c, s) == \/ carts[c] = NoCart /\ CreateCart(c, s)
                      \/ carts[c] # NoCart /\ UpdateCart(c, s)
                      \/ UNCHANGED engineVars

(* insert *)
Insert(c, s) ==
    /\ cache' = [cache EXCEPT ![c] = [session |-> s, until |-> clock + Ttl]]
    /\ overlays' = [overlays EXCEPT ![c] = [payment |-> s.payment, fulfillment |-> s.fulfillment]]
    /\ SyncToEngine(c, s)

Create(c) == /\ c \in Own /\ adoptions[c] = 0
             /\ \E input \in Inputs : Insert(c, Created(input))
             /\ adoptions' = [adoptions EXCEPT ![c] = 1]
             /\ UNCHANGED <<clock, queue, orders, completions, confirmed>>

(* get, of an entry past its deadline: it is gone, and the answer is that  *)
(* there is none, whatever the engine holds.                               *)
Evict(c) == /\ Cached(c) /\ Outlived(c)
            /\ cache' = [cache EXCEPT ![c] = NoEntry]
            /\ overlays' = [overlays EXCEPT ![c] = NoOverlay]
            /\ UNCHANGED <<clock, queue, orders, engineVars, history>>

(* cart_to_checkout_response, and the overlay if there is one. *)
SessionOfCart(c) ==
    [status |-> StatusOfCart(carts[c].status), buyer |-> carts[c].buyer,
     payment |-> IF overlays[c] = NoOverlay THEN "unselected" ELSE overlays[c].payment,
     fulfillment |-> IF overlays[c] = NoOverlay THEN "none" ELSE overlays[c].fulfillment,
     order |-> NoOrder]

CartAlive(c) == /\ carts[c] # NoCart
                /\ carts[c].deadline # NoDeadline => carts[c].deadline >= clock

AdoptedDeadline(c) == IF carts[c].deadline # NoDeadline THEN carts[c].deadline ELSE clock + Hour

(* get, of what is not in memory: a cart under the same identifier. *)
Load(c) == /\ ~Cached(c) /\ CartAlive(c)
           /\ adoptions[c] < MaxAdoptions
           /\ cache' = [cache EXCEPT ![c] =
                  [session |-> SessionOfCart(c), until |-> AdoptedDeadline(c)]]
           /\ adoptions' = [adoptions EXCEPT ![c] = @ + 1]
           /\ UNCHANGED <<clock, overlays, queue, orders, engineVars, completions, confirmed>>

(* update_checkout, after its get. *)
Update(c) == /\ Hit(c) /\ ~Terminal(cache[c].session)
             /\ \E input \in Inputs : Insert(c, Updated(cache[c].session, input))
             /\ UNCHANGED <<clock, queue, orders, history>>

Cancel(c) == /\ Hit(c) /\ ~Terminal(cache[c].session)
             /\ Insert(c, Canceled(cache[c].session))
             /\ UNCHANGED <<clock, queue, orders, history>>

(* A bug to detect: a session that is completed is not refused. *)
CompletableAgain(s) == s.status \in {"ready_for_complete", "completed"}

Completable(s) == s.status = "ready_for_complete"

(* A bug to detect: the session was ready, so only the payment that is     *)
(* attached is looked at.                                                  *)
CompleteAsLoaded(c) ==
    /\ Hit(c) /\ Completable(cache[c].session)
    /\ \E o \in Orders \ confirmed :
          /\ Insert(c, Completed([cache[c].session EXCEPT !.payment = "usable"], o))
          /\ queue' = Append(queue, o)
          /\ confirmed' = confirmed \cup {o}
    /\ completions' = [completions EXCEPT ![c] = @ + 1]
    /\ UNCHANGED <<clock, orders, adoptions>>

(* complete_checkout, after its get: the order is confirmed and queued.    *)
Complete(c) ==
    /\ Hit(c) /\ Completable(cache[c].session)
    /\ \E instrument \in {"usable", "card_incomplete"}, o \in Orders \ confirmed :
          LET s == Attached(cache[c].session, instrument)
          IN  /\ s.status = "ready_for_complete"
              /\ Insert(c, Completed(s, o))
              /\ queue' = Append(queue, o)
              /\ confirmed' = confirmed \cup {o}
    /\ completions' = [completions EXCEPT ![c] = @ + 1]
    /\ UNCHANGED <<clock, orders, adoptions>>

(* The worker: the order is kept in memory; the engine creates an order of *)
(* its own, under another identifier.                                      *)
StoreOrder == /\ queue # <<>>
              /\ orders' = orders \cup {Head(queue)}
              /\ queue' = Tail(queue)
              /\ UNCHANGED <<clock, cache, overlays, engineVars, history>>

(* main returns, or the process dies, and is started again: nothing waits  *)
(* for the queue, and only the engine has kept anything.                   *)
Restart == /\ cache' = [c \in Checkouts |-> NoEntry]
           /\ overlays' = [c \in Checkouts |-> NoOverlay]
           /\ queue' = <<>> /\ orders' = {}
           /\ UNCHANGED <<clock, engineVars, history>>

(* Another application makes a cart, or works on it. *)
CartWork(c) ==
    /\ c \in Foreign
    /\ \/ /\ carts[c] = NoCart
          /\ \E buyer \in Buyers, deadline \in CartDeadlines :
                carts' = [carts EXCEPT ![c] = [status |-> "Active", buyer |-> buyer,
                                               deadline |-> deadline]]
       \/ /\ carts[c] # NoCart
          /\ \E status \in CartStatuses \ {carts[c].status} :
                carts' = [carts EXCEPT ![c].status = status]
    /\ UNCHANGED <<clock, volatile, copies, history>>

Tick == /\ clock < MaxClock
        /\ clock' = clock + 1
        /\ UNCHANGED <<volatile, engineVars, history>>

Next == \/ Tick \/ Restart \/ StoreOrder
        \/ \E c \in Checkouts : \/ Create(c) \/ Evict(c) \/ Load(c) \/ Update(c)
                                \/ Cancel(c) \/ Complete(c) \/ CartWork(c)

Spec == Init /\ [][Next]_vars

-----------------------------------------------------------------------------

(* A session made here is completed at most once, by no way through the    *)
(* engine, a deadline or a restart a second time; a cart of another        *)
(* application at most as often as it was adopted.                         *)
OneOrderPerAdoption == /\ \A c \in Own : completions[c] <= 1
                       /\ \A c \in Foreign : completions[c] <= adoptions[c]

(* A session in memory that names an order lacks nothing, although an      *)
(* adopted one has its status from the engine and not from apply_status;   *)
(* and its order waits for the worker or is stored, since what ends the    *)
(* one ends the other (complete_checkout after get).                       *)
Waiting(o) == o \in orders \/ \E i \in DOMAIN queue : queue[i] = o
CompletedIsWhole ==
    \A c \in Checkouts : Cached(c) /\ cache[c].session.order # NoOrder =>
        LET s == cache[c].session
        IN  s.status = "completed" /\ Settled(s) /\ Waiting(s.order)

(* A session that the engine has taken a copy of is there, restarts or     *)
(* not, before any deadline it can have been given: in memory, or as a     *)
(* cart that get finds (the comment of get, and the README).               *)
CopiedSurvives ==
    \A c \in Own : copies[c] > 0 /\ clock <= Ttl => Cached(c) \/ CartAlive(c)

=============================================================================
