------------------------------ MODULE Discounts ------------------------------
(***************************************************************************)
(* The discount codes CheckoutService knows by itself                      *)
(* (apply_legacy_discounts, src/service.rs): SAVE10 takes a tenth of every *)
(* line, SAVE5 five dollars off what the codes before it left, in          *)
(* proportion to it, SHIPFREE the cost of fulfillment.  Amounts are cents, *)
(* and a code is named by its trimmed upper-case form.                     *)
(***************************************************************************)
EXTENDS Sums

FiveDollars == 500

AtLeastZero(n) == IF n > 0 THEN n ELSE 0
Lesser(a, b) == IF a < b THEN a ELSE b
Nothing(amounts) == [i \in DOMAIN amounts |-> 0]
Plus(a, b) == [i \in DOMAIN a |-> a[i] + b[i]]

(* seen_codes: a code counts where it is given first. *)
Repeated(codes, n) == \E m \in 1..(n - 1) : codes[m] = codes[n]

TenthOf(subtotals) == [i \in DOMAIN subtotals |-> AtLeastZero((subtotals[i] * 10) \div 100)]

(* A bug to detect: what other codes took is offered again. *)
AvailableBefore(subtotals, taken) == [i \in DOMAIN subtotals |-> AtLeastZero(subtotals[i])]

(* What is left of each line. *)
Available(subtotals, taken) ==
    [i \in DOMAIN subtotals |-> AtLeastZero(subtotals[i] - taken[i])]

(* Each line's share of an amount, rounded down. *)
Shares(amount, available) ==
    [i \in DOMAIN available |-> (amount * available[i]) \div Total(available)]

(* Shares, and what the rounding left over goes to the first lines that    *)
(* have room for it.                                                       *)
Spread(amount, available) ==
    LET share == Shares(amount, available)
        room == [i \in DOMAIN available |-> available[i] - share[i]]
        rest == amount - Total(share)
    IN  [i \in DOMAIN available |->
            share[i] + Lesser(room[i], AtLeastZero(rest - Sums(room)[i - 1]))]

FiveOff(subtotals, taken) ==
    LET available == Available(subtotals, taken)
    IN  IF Total(available) = 0 THEN Nothing(subtotals)
        ELSE Spread(Lesser(FiveDollars, Total(available)), available)

(* What a code takes from each line. *)
Allocations(code, subtotals, taken) ==
    CASE code = "SAVE10" -> TenthOf(subtotals)
      [] code = "SAVE5"  -> FiveOff(subtotals, taken)
      [] OTHER           -> Nothing(subtotals)

(* What a code takes from the order as a whole. *)
OffTheOrder(code, cost) == IF code = "SHIPFREE" THEN AtLeastZero(cost) ELSE 0

(* A bug to detect: a code replaces what others took from the lines. *)
TakenByLast(taken, allocations) == allocations

TakenTogether(taken, allocations) == Plus(taken, allocations)

(* One code of the loop: it is listed when it takes anything. *)
AfterCode(outcome, code, subtotals, cost) ==
    LET allocations == Allocations(code, subtotals, outcome.lines)
        order == OffTheOrder(code, cost)
        amount == Total(allocations) + order
    IN  IF amount = 0 THEN outcome
        ELSE [lines |-> TakenTogether(outcome.lines, allocations),
              order |-> outcome.order + order,
              applied |-> Append(outcome.applied, [code |-> code, amount |-> amount,
                                                   allocations |-> allocations])]

(* What the first n codes take: from each line, from the order, and each    *)
(* code's part of it.                                                      *)
Outcomes(codes, subtotals, cost) ==
    LET outcome[n \in 0..Len(codes)] ==
            IF n = 0 THEN [lines |-> Nothing(subtotals), order |-> 0, applied |-> <<>>]
            ELSE IF Repeated(codes, n) THEN outcome[n - 1]
            ELSE AfterCode(outcome[n - 1], codes[n], subtotals, cost)
    IN  outcome

LegacyDiscounts(codes, subtotals, cost) == Outcomes(codes, subtotals, cost)[Len(codes)]

=============================================================================
