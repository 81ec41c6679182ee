----------------------------- MODULE MCMandates -----------------------------
(***************************************************************************)
(* Instances of Mandates for model checking: one platform that replaces    *)
(* its profile, with another key and other capabilities.                   *)
(***************************************************************************)
EXTENDS Mandates, TLC

CONSTANTS r1, r2, p1, checkout, ap2, fulfillment, order, s1, other, plain, shipped

(* discovery_document: what has a parent extends checkout. *)
ParentOfEach == checkout :> NoParent @@ order :> NoParent
                @@ ap2 :> checkout @@ fulfillment :> checkout

UsesOfEach == plain :> {} @@ shipped :> {fulfillment}

(* The second profile has another key and a newer version; the third lacks *)
(* what its extension extends, and the fourth is too new. Key 3 does not   *)
(* load.                                                                   *)
FourProfiles ==
    p1 :> << [version |-> 1, capabilities |-> {checkout, ap2}, keys |-> {1, 3}],
             [version |-> 2, capabilities |-> {checkout, ap2, fulfillment}, keys |-> {2}],
             [version |-> 2, capabilities |-> {order, fulfillment}, keys |-> {}],
             [version |-> 3, capabilities |-> {checkout}, keys |-> {2}] >>

RequestSymmetry == Permutations(Requests)

=============================================================================
