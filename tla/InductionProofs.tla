---------------------------- MODULE InductionProofs ----------------------------
(***************************************************************************)
(* Induction without an operator as a parameter: over a set of numbers,    *)
(* from the library's theorem that < on Nat is well-founded.  Then what a  *)
(* function defined by recursion over the prefixes of a list is, and what  *)
(* Sums and Total are, for lists of any length.  The code's loops and      *)
(* iterator chains are such recursions in the models.                      *)
(***************************************************************************)
EXTENDS Sums, TLAPS, WellFoundedInduction

(* Every set of numbers that is not empty has a least one. *)
LEMMA LeastNat ==
  ASSUME NEW S \in SUBSET Nat, S # {}
  PROVE  \E n \in S : \A m \in S : n <= m
  <1> DEFINE R == {ss \in Nat \X Nat : ss[1] < ss[2]}
  <1>1. IsWellFoundedOn(R, Nat)
    <2>1. R = OpToRel(<, Nat)
      BY DEF OpToRel
    <2>2. QED
      BY <2>1, NatLessThanWellFounded
  <1>2. \A m, n \in Nat : m < n => <<m, n>> \in R
    OBVIOUS
  <1> HIDE DEF R
  <1>3. PICK n \in S : \A m \in S : ~(<<m, n>> \in R)
    BY <1>1, WFMin
  <1>4. ASSUME NEW m \in S
        PROVE  n <= m
    <2>1. m \in Nat /\ n \in Nat
      OBVIOUS
    <2>2. ~(m < n)
      BY <1>2, <1>3, <2>1, Zenon
    <2>3. QED
      BY <2>1, <2>2
  <1>5. QED
    BY <1>4

(* Induction over all numbers, and up to a bound. *)
LEMMA Induction ==
  ASSUME NEW T, 0 \in T, \A n \in Nat : n \in T => n + 1 \in T
  PROVE  Nat \subseteq T
  <1>1. SUFFICES ASSUME Nat \ T # {} PROVE FALSE
    OBVIOUS
  <1>2. PICK n \in Nat \ T : \A m \in Nat \ T : n <= m
    BY <1>1, LeastNat
  <1>3. n # 0 /\ n - 1 \in Nat /\ n - 1 \in T
    BY <1>2
  <1>4. (n - 1) + 1 \in T
    BY <1>3
  <1>5. QED
    BY <1>2, <1>4

LEMMA InductionTo ==
  ASSUME NEW k \in Nat, NEW T, 0 \in T, \A n \in 0..(k - 1) : n \in T => n + 1 \in T
  PROVE  0..k \subseteq T
  <1> DEFINE U == {n \in Nat : n <= k => n \in T}
  <1>1. 0 \in U /\ \A n \in Nat : n \in U => n + 1 \in U
    OBVIOUS
  <1>2. Nat \subseteq U
    <2> HIDE DEF U
    <2> QED BY <1>1, Induction
  <1>3. QED
    BY <1>2

(* f starts at base and takes the n-th step from its n-th value. *)
Iterates(f, base, step) == /\ f[0] = base
                           /\ \A n \in Nat : f[n + 1] = step[n][f[n]]

(* There is such a function: each of its prefixes exists, by induction, and *)
(* any two agree where both are defined.                                   *)
LEMMA RecursionExists ==
  ASSUME NEW S, NEW base \in S, NEW step \in [Nat -> [S -> S]]
  PROVE  \E f \in [Nat -> S] : Iterates(f, base, step)
  <1> DEFINE Follows(n, g) == /\ g \in [0..n -> S]
                              /\ g[0] = base
                              /\ \A m \in 0..(n - 1) : g[m + 1] = step[m][g[m]]
             T == {n \in Nat : \E g : Follows(n, g)}
  <1>1. 0 \in T
    <2>1. Follows(0, [m \in 0..0 |-> base])
      OBVIOUS
    <2>2. QED
      BY <2>1
  <1>2. ASSUME NEW n \in Nat, n \in T
        PROVE  n + 1 \in T
    <2>1. PICK g : Follows(n, g)
      BY <1>2
    <2> DEFINE h == [m \in 0..(n + 1) |-> IF m = n + 1 THEN step[n][g[n]] ELSE g[m]]
    <2>2. h \in [0..(n + 1) -> S]
      BY <2>1
    <2>3. ASSUME NEW m \in 0..((n + 1) - 1)
          PROVE  h[m + 1] = step[m][h[m]]
      BY <2>1
    <2>4. h[0] = base
      BY <2>1
    <2>5. Follows(n + 1, h)
      BY <2>2, <2>3, <2>4
    <2> HIDE DEF h
    <2> HIDE DEF h, Follows
    <2>6. QED
      BY <2>5
  <1>3. \A n \in Nat : \E g : Follows(n, g)
    <2> HIDE DEF Follows
    <2>1. Nat \subseteq T
      <3> HIDE DEF T
      <3> QED BY <1>1, <1>2, Induction
    <2> QED BY <2>1
  <1>4. ASSUME NEW n \in Nat, NEW g, Follows(n, g), NEW k \in Nat, NEW h, Follows(k, h), n <= k
        PROVE  g[n] = h[n]
    <2> DEFINE U == {m \in Nat : m <= n => g[m] = h[m]}
    <2>1. 0 \in U
      BY <1>4
    <2>2. \A m \in Nat : m \in U => m + 1 \in U
      BY <1>4
    <2>3. Nat \subseteq U
      <3> HIDE DEF U
      <3> QED BY <2>1, <2>2, Induction
    <2>4. QED
      BY <2>3
  <1> DEFINE G(n) == CHOOSE g : Follows(n, g)
             f == [n \in Nat |-> G(n)[n]]
  <1>5. \A n \in Nat : Follows(n, G(n))
    <2> HIDE DEF Follows
    <2> QED BY <1>3
  <1>6. f \in [Nat -> S] /\ f[0] = base
    <2> HIDE DEF G
    <2> QED BY <1>5
  <1>7. ASSUME NEW n \in Nat
        PROVE  f[n + 1] = step[n][f[n]]
    <2>1. Follows(n, G(n)) /\ Follows(n + 1, G(n + 1))
      <3> HIDE DEF G, Follows
      <3>1. n + 1 \in Nat
        OBVIOUS
      <3> QED BY <3>1, <1>5
    <2>2. G(n)[n] = G(n + 1)[n]
      <3> HIDE DEF G, Follows
      <3>1. n + 1 \in Nat /\ n <= n + 1
        OBVIOUS
      <3> QED BY <2>1, <3>1, <1>4
    <2> HIDE DEF G
    <2>3. G(n + 1)[n + 1] = step[n][G(n + 1)[n]]
      BY <2>1
    <2>4. QED
      BY <2>2, <2>3
  <1> HIDE DEF f
  <1>8. QED
    BY <1>6, <1>7 DEF Iterates

-----------------------------------------------------------------------------

(* A function on 0..len by recursion, in the form that LET gives it. *)
IsRecursion(h, len, base, step) ==
    h = [n \in 0..len |-> IF n = 0 THEN base ELSE step[n][h[n - 1]]]

LEMMA PrefixRecursion ==
  ASSUME NEW S, NEW base \in S, NEW len \in Nat, NEW step \in [Nat -> [S -> S]]
  PROVE  \E h \in [0..len -> S] : IsRecursion(h, len, base, step)
  <1> DEFINE next == [n \in Nat |-> step[n + 1]]
  <1>1. next \in [Nat -> [S -> S]] /\ \A n \in Nat : next[n] = step[n + 1]
    OBVIOUS
  <1> HIDE DEF next
  <1>2. PICK f \in [Nat -> S] : Iterates(f, base, next)
    BY <1>1, RecursionExists, Zenon
  <1>3. f[0] = base /\ \A n \in Nat : f[n + 1] = next[n][f[n]]
    BY <1>2 DEF Iterates
  <1> DEFINE h == [n \in 0..len |-> f[n]]
  <1>4. h \in [0..len -> S]
    OBVIOUS
  <1>5. ASSUME NEW n \in 0..len
        PROVE  h[n] = IF n = 0 THEN base ELSE step[n][h[n - 1]]
    <2>1. CASE n = 0
      BY <2>1, <1>3
    <2>2. CASE n # 0
      <3>1. n - 1 \in Nat /\ n - 1 \in 0..len /\ (n - 1) + 1 = n
        BY <2>2
      <3>2. f[n] = next[n - 1][f[n - 1]] /\ next[n - 1] = step[n]
        BY <3>1, <1>1, <1>3
      <3>3. QED
        BY <2>2, <3>1, <3>2
    <2>3. QED
      BY <2>1, <2>2
  <1>6. IsRecursion(h, len, base, step)
    BY <1>5 DEF IsRecursion
  <1> HIDE DEF h
  <1>7. QED
    BY <1>4, <1>6

(* A function on 1..n is a list of length n. *)
LEMMA ListedByIndex ==
  ASSUME NEW n \in Nat, NEW S, NEW f \in [1..n -> S]
  PROVE  f \in Seq(S) /\ Len(f) = n /\ DOMAIN f = 1..n
  OBVIOUS

(* The sums of the prefixes: of none, and of one amount more. *)
LEMMA SumsFacts ==
  ASSUME NEW amounts \in Seq(Int)
  PROVE  /\ Sums(amounts) \in [0..Len(amounts) -> Int]
         /\ Sums(amounts)[0] = 0
         /\ \A n \in 1..Len(amounts) : Sums(amounts)[n] = Sums(amounts)[n - 1] + amounts[n]
  <1> DEFINE step == [n \in Nat |-> [x \in Int |-> IF n + 1 \in DOMAIN amounts
                                                  THEN x + amounts[n + 1] ELSE x]]
             len == Len(amounts)
             Solves(g) == g = [n \in 0..len |-> IF n = 0 THEN 0 ELSE g[n - 1] + amounts[n]]
  <1>1. step \in [Nat -> [Int -> Int]]
    OBVIOUS
  <1>2. \A n \in Nat, x \in Int : n + 1 \in DOMAIN amounts => step[n][x] = x + amounts[n + 1]
    OBVIOUS
  <1>3. PICK f \in [Nat -> Int] : f[0] = 0 /\ \A n \in Nat : f[n + 1] = step[n][f[n]]
    <2> HIDE DEF step
    <2>0. 0 \in Int
      OBVIOUS
    <2>1. PICK f \in [Nat -> Int] : Iterates(f, 0, step)
      BY <1>1, <2>0, RecursionExists, Zenon
    <2> QED BY <2>1 DEF Iterates
  <1>4. len \in Nat /\ DOMAIN amounts = 1..len
    OBVIOUS
  <1> HIDE DEF step, len
  <1> DEFINE h == [n \in 0..len |-> f[n]]
  <1>5. ASSUME NEW n \in 0..len
        PROVE  h[n] = IF n = 0 THEN 0 ELSE h[n - 1] + amounts[n]
    <2>1. CASE n = 0
      BY <2>1, <1>3, <1>4
    <2>2. CASE n # 0
      <3>1. n - 1 \in Nat /\ n - 1 \in 0..len /\ (n - 1) + 1 = n /\ n \in 1..len
        BY <2>2, <1>4
      <3>2. f[n] = step[n - 1][f[n - 1]]
        BY <3>1, <1>3
      <3>3. QED
        BY <3>1, <3>2, <2>2, <1>2, <1>4
    <2>3. QED
      BY <2>1, <2>2
  <1>6. Solves(h)
    BY <1>5
  <1>7. Sums(amounts) = CHOOSE g : Solves(g)
    BY DEF Sums, len
  <1>8. Solves(Sums(amounts))
    <2> HIDE DEF Solves
    <2> QED BY <1>6, <1>7
  <1> DEFINE sums == Sums(amounts)
             T == {n \in Nat : n <= len => sums[n] \in Int}
  <1>9. \A n \in 0..len : sums[n] = IF n = 0 THEN 0 ELSE sums[n - 1] + amounts[n]
    <2> HIDE DEF sums
    <2> QED BY <1>8 DEF sums
  <1>10. DOMAIN sums = 0..len /\ sums = [n \in 0..len |-> sums[n]]
    <2> HIDE DEF sums
    <2> QED BY <1>8 DEF sums
  <1> HIDE DEF sums, Solves
  <1>11. 0 \in T
    BY <1>4, <1>9
  <1>12. ASSUME NEW n \in Nat, n \in T
         PROVE  n + 1 \in T
    <2>1. CASE n + 1 <= len
      <3>1. sums[n + 1] = sums[n] + amounts[n + 1] /\ amounts[n + 1] \in Int /\ sums[n] \in Int
        BY <1>4, <1>9, <1>12, <2>1
      <3> QED BY <3>1
    <2>2. CASE ~(n + 1 <= len)
      BY <2>2
    <2> QED BY <2>1, <2>2
  <1>13. Nat \subseteq T
    <2> HIDE DEF T
    <2> QED BY <1>11, <1>12, Induction
  <1>14. sums \in [0..len -> Int]
    BY <1>10, <1>13
  <1> QED
    BY <1>4, <1>9, <1>14 DEF sums, len

LEMMA SumsStep ==
  ASSUME NEW a \in Seq(Int), NEW n \in Nat, n < Len(a)
  PROVE  /\ Sums(a)[n + 1] = Sums(a)[n] + a[n + 1]
         /\ Sums(a)[n] \in Int /\ Sums(a)[n + 1] \in Int /\ a[n + 1] \in Int
  <1>1. Len(a) \in Nat /\ n \in 0..Len(a) /\ n + 1 \in 1..Len(a) /\ (n + 1) - 1 = n
    OBVIOUS
  <1>2. Sums(a)[n + 1] = Sums(a)[(n + 1) - 1] + a[n + 1]
    BY <1>1, SumsFacts
  <1>3. QED
    BY <1>1, <1>2, SumsFacts

(* They depend on the amounts they add up and on nothing else. *)
LEMMA SumsSame ==
  ASSUME NEW a \in Seq(Int), NEW b \in Seq(Int), NEW k \in 0..Len(a), k <= Len(b),
         \A i \in 1..k : a[i] = b[i]
  PROVE  Sums(a)[k] = Sums(b)[k]
  <1> DEFINE T == {n \in 0..k : Sums(a)[n] = Sums(b)[n]}
  <1>1. k \in Nat /\ Len(a) \in Nat /\ Len(b) \in Nat
    OBVIOUS
  <1>2. 0 \in T
    BY <1>1, SumsFacts
  <1>3. \A n \in 0..(k - 1) : n \in T => n + 1 \in T
    <2> SUFFICES ASSUME NEW n \in 0..(k - 1), Sums(a)[n] = Sums(b)[n]
                 PROVE  Sums(a)[n + 1] = Sums(b)[n + 1]
      BY <1>1
    <2>1. Sums(a)[n + 1] = Sums(a)[n] + a[n + 1] /\ Sums(b)[n + 1] = Sums(b)[n] + b[n + 1]
      BY <1>1, SumsStep
    <2>2. QED
      BY <2>1, <1>1
  <1>4. 0..k \subseteq T
    <2> HIDE DEF T
    <2> QED BY <1>1, <1>2, <1>3, InductionTo
  <1>5. QED
    BY <1>1, <1>4

LEMMA TotalType ==
  ASSUME NEW a \in Seq(Int)
  PROVE  Total(a) \in Int /\ Total(a) = Sums(a)[Len(a)]
  BY SumsFacts DEF Total

LEMMA TotalOfNone == Total(<<>>) = 0
  <1>1. <<>> \in Seq(Int) /\ Len(<<>>) = 0
    OBVIOUS
  <1> QED
    BY <1>1, SumsFacts DEF Total

(* The total of a list with one amount more. *)
LEMMA TotalLonger ==
  ASSUME NEW a \in Seq(Int), NEW b \in Seq(Int), Len(b) = Len(a) + 1,
         \A i \in 1..Len(a) : b[i] = a[i]
  PROVE  Total(b) = Total(a) + b[Len(b)]
  <1>1. Len(a) \in Nat /\ Len(a) \in 0..Len(b) /\ Len(a) <= Len(a) /\ Len(a) < Len(b)
    OBVIOUS
  <1>2. Sums(b)[Len(a)] = Sums(a)[Len(a)]
    BY <1>1, SumsSame
  <1>3. Sums(b)[Len(a) + 1] = Sums(b)[Len(a)] + b[Len(a) + 1]
    BY <1>1, SumsStep
  <1> QED
    BY <1>2, <1>3 DEF Total

(* Adding lists amount by amount adds their sums. *)
LEMMA SumsPlus ==
  ASSUME NEW a \in Seq(Int), NEW b \in Seq(Int), NEW c \in Seq(Int),
         Len(b) = Len(a), Len(c) = Len(a), \A i \in 1..Len(a) : c[i] = a[i] + b[i],
         NEW k \in 0..Len(a)
  PROVE  Sums(c)[k] = Sums(a)[k] + Sums(b)[k]
  <1> DEFINE T == {n \in 0..k : Sums(c)[n] = Sums(a)[n] + Sums(b)[n]}
  <1>1. k \in Nat /\ Len(a) \in Nat
    OBVIOUS
  <1>2. 0 \in T
    BY <1>1, SumsFacts
  <1>3. \A n \in 0..(k - 1) : n \in T => n + 1 \in T
    <2> SUFFICES ASSUME NEW n \in 0..(k - 1), Sums(c)[n] = Sums(a)[n] + Sums(b)[n]
                 PROVE  Sums(c)[n + 1] = Sums(a)[n + 1] + Sums(b)[n + 1]
      BY <1>1
    <2>1. /\ Sums(a)[n + 1] = Sums(a)[n] + a[n + 1] /\ Sums(b)[n + 1] = Sums(b)[n] + b[n + 1]
          /\ Sums(c)[n + 1] = Sums(c)[n] + c[n + 1]
          /\ Sums(a)[n] \in Int /\ Sums(b)[n] \in Int
      BY <1>1, SumsStep
    <2>2. a[n + 1] \in Int /\ b[n + 1] \in Int /\ c[n + 1] = a[n + 1] + b[n + 1]
      BY <1>1
    <2>3. \A p, q, r, s \in Int : (p + q) + (r + s) = (p + r) + (q + s)
      OBVIOUS
    <2> HIDE DEF T
    <2>4. Sums(c)[n + 1] = (Sums(a)[n] + Sums(b)[n]) + (a[n + 1] + b[n + 1])
      BY <2>1, <2>2, Zenon
    <2>5. (Sums(a)[n] + Sums(b)[n]) + (a[n + 1] + b[n + 1])
             = (Sums(a)[n] + a[n + 1]) + (Sums(b)[n] + b[n + 1])
      BY <2>1, <2>2, <2>3, Zenon
    <2>6. QED
      BY <2>1, <2>4, <2>5, Zenon
  <1>4. 0..k \subseteq T
    <2> HIDE DEF T
    <2> QED BY <1>1, <1>2, <1>3, InductionTo
  <1>5. QED
    BY <1>1, <1>4

(* Sums of amounts that are not negative only grow. *)
LEMMA SumsNat ==
  ASSUME NEW a \in Seq(Nat)
  PROVE  /\ Total(a) \in Nat
         /\ \A k \in 0..Len(a) : Sums(a)[k] \in 0..Total(a)
  <1>1. Len(a) \in Nat /\ a \in Seq(Int)
    OBVIOUS
  <1> DEFINE k == Len(a)
             T == {n \in 0..k : \A m \in 0..n : Sums(a)[m] \in 0..Sums(a)[n]}
  <1>2. 0 \in T
    BY <1>1, SumsFacts
  <1>3. \A n \in 0..(k - 1) : n \in T => n + 1 \in T
    <2> SUFFICES ASSUME NEW n \in 0..(k - 1), \A m \in 0..n : Sums(a)[m] \in 0..Sums(a)[n],
                        NEW m \in 0..(n + 1)
                 PROVE  Sums(a)[m] \in 0..Sums(a)[n + 1]
      BY <1>1
    <2>1. Sums(a)[n + 1] = Sums(a)[n] + a[n + 1] /\ a[n + 1] \in Nat /\ Sums(a)[n] \in 0..Sums(a)[n]
      BY <1>1, SumsStep
    <2>2. m \in 0..n \/ m = n + 1
      OBVIOUS
    <2>3. QED
      BY <2>1, <2>2, SumsFacts, <1>1
  <1>4. 0..k \subseteq T
    <2> HIDE DEF T
    <2> QED BY <1>1, <1>2, <1>3, InductionTo
  <1>5. QED
    BY <1>1, <1>4 DEF Total

(* Smaller amounts have smaller sums, and nothing adds up to nothing. *)
LEMMA SumsAtMost ==
  ASSUME NEW a \in Seq(Int), NEW b \in Seq(Int), Len(b) = Len(a),
         \A i \in 1..Len(a) : a[i] <= b[i], NEW k \in 0..Len(a)
  PROVE  Sums(a)[k] <= Sums(b)[k]
  <1> DEFINE T == {n \in 0..k : Sums(a)[n] <= Sums(b)[n]}
  <1>1. k \in Nat /\ Len(a) \in Nat
    OBVIOUS
  <1>2. 0 \in T
    BY <1>1, SumsFacts
  <1>3. \A n \in 0..(k - 1) : n \in T => n + 1 \in T
    <2> SUFFICES ASSUME NEW n \in 0..(k - 1), Sums(a)[n] <= Sums(b)[n]
                 PROVE  Sums(a)[n + 1] <= Sums(b)[n + 1]
      BY <1>1
    <2>1. /\ Sums(a)[n + 1] = Sums(a)[n] + a[n + 1] /\ Sums(b)[n + 1] = Sums(b)[n] + b[n + 1]
          /\ Sums(a)[n] \in Int /\ Sums(b)[n] \in Int
      BY <1>1, SumsStep
    <2>2. a[n + 1] \in Int /\ b[n + 1] \in Int /\ a[n + 1] <= b[n + 1]
      BY <1>1
    <2>3. QED
      BY <2>1, <2>2
  <1>4. 0..k \subseteq T
    <2> HIDE DEF T
    <2> QED BY <1>1, <1>2, <1>3, InductionTo
  <1>5. QED
    BY <1>1, <1>4

LEMMA SumsOfNothing ==
  ASSUME NEW a \in Seq(Int), \A i \in 1..Len(a) : a[i] = 0, NEW k \in 0..Len(a)
  PROVE  Sums(a)[k] = 0
  <1> DEFINE T == {n \in 0..k : Sums(a)[n] = 0}
  <1>1. k \in Nat /\ Len(a) \in Nat
    OBVIOUS
  <1>2. 0 \in T
    BY <1>1, SumsFacts
  <1>3. \A n \in 0..(k - 1) : n \in T => n + 1 \in T
    <2> SUFFICES ASSUME NEW n \in 0..(k - 1), Sums(a)[n] = 0
                 PROVE  Sums(a)[n + 1] = 0
      BY <1>1
    <2>1. n \in Nat /\ n < Len(a) /\ n + 1 \in 1..Len(a)
      BY <1>1
    <2>2. Sums(a)[n + 1] = Sums(a)[n] + a[n + 1] /\ a[n + 1] = 0
      BY <2>1, SumsStep
    <2>3. QED
      BY <2>2
  <1>4. 0..k \subseteq T
    <2> HIDE DEF T
    <2> QED BY <1>1, <1>2, <1>3, InductionTo
  <1>5. QED
    BY <1>1, <1>4

=============================================================================
