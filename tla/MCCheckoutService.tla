--------------------------- MODULE MCCheckoutService ---------------------------
(***************************************************************************)
(* CheckoutService on small instances.                                     *)
(***************************************************************************)
EXTENDS CheckoutService, TLC

CONSTANTS r1, r2, c1, c2, c3, p1, p2

(* Request bodies: one that leaves the session ready, and one that changes *)
(* nothing but that the buyer has to choose a destination.                 *)
ReadyInput == [buyer |-> "with_email", payment |-> "usable", fulfillment |-> "settled"]
UndecidedInput == [buyer |-> "absent", payment |-> "absent", fulfillment |-> "undecided"]

OneInput == {ReadyInput}
TwoInputs == {ReadyInput, UndecidedInput}

(* Each slot's client has the sessions it alone changes, and nobody else   *)
(* reads the first one's.                                                  *)
OwnSessions == r1 :> {c1} @@ r2 :> {c2}
FirstReadsAll == r1 :> Checkouts @@ r2 :> {c2}
NoSessions == [r \in Requests |-> {}]
EverySession == [r \in Requests |-> Checkouts]

(* The slots are interchangeable when both may do everything. *)
SlotSymmetry == Permutations(Requests)

=============================================================================
