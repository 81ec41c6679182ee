---------------------------- MODULE MCDurability ----------------------------
(***************************************************************************)
(* Instances of Durability for model checking.                             *)
(***************************************************************************)
EXTENDS Durability, TLC

CONSTANTS mine, theirs, o1, o2, never

(* A body that names nobody, and one that settles everything. *)
MCInputs == {[buyer |-> "absent", payment |-> "absent", fulfillment |-> "absent"],
             [buyer |-> "with_email", payment |-> "usable", fulfillment |-> "absent"]}

OrderSymmetry == Permutations(Orders)

=============================================================================
