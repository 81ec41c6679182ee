----------------------------- MODULE Identifiers -----------------------------
(***************************************************************************)
(* The identifiers the components share.  The code draws them with         *)
(* Uuid::new_v4 and prefixes them; that two draws never coincide is        *)
(* assumed by drawing them from a set without replacement.                 *)
(***************************************************************************)

CONSTANTS
    Checkouts, NoCheckout,   \* "chk_..." identifiers, and the lack of one
    Orders, NoOrder          \* "order_..." identifiers, and the lack of one

ASSUME IdentifierAssumption == NoCheckout \notin Checkouts /\ NoOrder \notin Orders

=============================================================================
