----------------------------- MODULE MCIdempotency -----------------------------
(***************************************************************************)
(* Idempotency on small instances: two clients, keys of all three caches,  *)
(* and as many runs as it takes to repeat a request of each.               *)
(***************************************************************************)
EXTENDS Idempotency, TLC

CONSTANTS r1, r2, h1, h2, m1, m2, a1, n1, n2, n3, a, b, i, j

CacheOfEach == [k \in Keys |-> IF k \in {h1, h2} THEN "rest"
                               ELSE IF k \in {m1, m2} THEN "mcp" ELSE "a2a"]

(* Each client has keys of its own and shares h2 with the other; the       *)
(* clients of SharedKeys use every key at once.                            *)
OwnKeys == r1 :> {h1, h2, m1} @@ r2 :> {h2, m2, a1}
SharedKeys == [r \in Requests |-> Keys]

RunSymmetry == Permutations(Runs)

=============================================================================
