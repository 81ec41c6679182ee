----------------------------- MODULE MCOrderApi -----------------------------
(***************************************************************************)
(* OrderApi on small instances: orders of three items, one bought three    *)
(* times and two bought once, of which the last has the id of the second.  *)
(***************************************************************************)
EXTENDS OrderApi, TLC

CONSTANTS o1, o2, i1, i2, i3, r1, r2, e1, e2, e3

BoughtOfEach == [i \in Items |-> IF i = i1 THEN 3 ELSE 1]

(* Two clients of o1, one of which has the other orders to itself. *)
ChangesOfEach == r1 :> Orders @@ r2 :> {o1}

EntrySymmetry == Permutations(Entries)

=============================================================================
