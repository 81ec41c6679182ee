-------------------------------- MODULE Sums --------------------------------
(***************************************************************************)
(* Sums of amounts listed in a sequence.                                   *)
(***************************************************************************)
EXTENDS Integers, Sequences

(* Sums(amounts)[n] is the sum of the first n amounts. *)
Sums(amounts) ==
    LET sum[n \in 0..Len(amounts)] == IF n = 0 THEN 0 ELSE sum[n - 1] + amounts[n]
    IN  sum

Total(amounts) == Sums(amounts)[Len(amounts)]

=============================================================================
