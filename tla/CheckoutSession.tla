--------------------------- MODULE CheckoutSession ---------------------------
(***************************************************************************)
(* The value a checkout session has in the store, and what the operations  *)
(* of CheckoutService (src/service.rs) compute from it.  A session is the  *)
(* part of CheckoutResponse that its status depends on:                    *)
(*   buyer        whether the buyer has an email address                   *)
(*   payment      what the selected payment instrument is worth            *)
(*   fulfillment  how far the fulfillment methods are settled              *)
(*   order        the order confirmation, once there is one                *)
(* Prices, links, messages and signatures are left out.                    *)
(***************************************************************************)

EXTENDS Identifiers

Buyers == {"without_email", "with_email"}

(* "unselected" covers no instrument, several instruments of which none is *)
(* selected, and a selected id that no instrument has.                     *)
Payments == {"unselected", "card_incomplete", "usable"}

(* "invalid" is an unknown method type or a pickup without a name,         *)
(* "undecided" a method whose destination is not selected.                 *)
Fulfillments == {"none", "invalid", "undecided", "settled"}

OpenStatuses == {"incomplete", "requires_escalation", "ready_for_complete"}
TerminalStatuses == {"completed", "canceled"}

(* A session, or the lack of one under an identifier. *)
Session == [status : OpenStatuses \cup TerminalStatuses \cup {"absent"},
            buyer : Buyers, payment : Payments, fulfillment : Fulfillments,
            order : Orders \cup {NoOrder}]

NoSession == [status |-> "absent", buyer |-> "without_email", payment |-> "unselected",
              fulfillment |-> "none", order |-> NoOrder]

(* The body of a create or update request: each part may be absent. *)
InputSpace == [buyer : Buyers \cup {"absent"}, payment : Payments \cup {"absent"},
               fulfillment : Fulfillments \cup {"absent"}]

-----------------------------------------------------------------------------

(* Nothing is missing: apply_status collects no message. *)
Settled(s) == /\ s.buyer = "with_email"
              /\ s.payment = "usable"
              /\ s.fulfillment \in {"none", "settled"}

(* apply_status: a missing destination needs the buyer and outranks what   *)
(* the platform can repair; without any message the session is ready.      *)
StatusOf(s) == IF s.fulfillment = "undecided" THEN "requires_escalation"
               ELSE IF Settled(s) THEN "ready_for_complete" ELSE "incomplete"

ApplyStatus(s) == [s EXCEPT !.status = StatusOf(s)]

(* request.or(existing) *)
Given(part, existing) == IF part = "absent" THEN existing ELSE part

(* update_checkout rebuilds the session from the request, taking from the  *)
(* existing session the parts the request leaves out; order is None.       *)
Updated(s, input) ==
    ApplyStatus([status |-> "incomplete",
                 buyer |-> Given(input.buyer, s.buyer),
                 payment |-> Given(input.payment, s.payment),
                 fulfillment |-> Given(input.fulfillment, s.fulfillment),
                 order |-> NoOrder])

(* create_checkout: there is no existing session to take anything from. *)
Created(input) == Updated(NoSession, input)

(* A bug to detect: the status is that of the instrument before. *)
AttachedWithStaleStatus(s, instrument) == [s EXCEPT !.payment = instrument]

(* attach_payment_data: the instrument sent with the completion is stored  *)
(* and selected, then the status is computed again.                        *)
Attached(s, instrument) == ApplyStatus([s EXCEPT !.payment = instrument])

Completed(s, o) == [s EXCEPT !.status = "completed", !.order = o]

(* cancel_checkout sets the status and computes nothing again. *)
Canceled(s) == [s EXCEPT !.status = "canceled"]

Terminal(s) == s.status \in TerminalStatuses

=============================================================================
