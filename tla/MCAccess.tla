------------------------------ MODULE MCAccess ------------------------------
(***************************************************************************)
(* Instances of Access for model checking.                                 *)
(***************************************************************************)
EXTENDS Access, TLC

CONSTANTS k1, k2, c1, a1, a2, q1, v1, web, app, none, chk, other, blank, pay, more

(* Slots are interchangeable. *)
ClientSymmetry == Permutations(Clients)

=============================================================================
