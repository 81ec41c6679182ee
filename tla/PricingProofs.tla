----------------------------- MODULE PricingProofs -----------------------------
(***************************************************************************)
(* Proofs about Pricing for any number of sessions, lines, codes and       *)
(* fulfillment groups, any prices and any answers of the engine.  A price  *)
(* is computed from lists in loops, so the proofs are by induction along   *)
(* the lists (InductionProofs):                                            *)
(*   1. the codes that are not blank;                                      *)
(*   2. SAVE5, its shares, and what the rounding leaves over;              *)
(*   3. the loop over the codes;                                           *)
(*   4. fulfillment and the priced session;                                *)
(*   5. the steps, which price a session or leave its price alone.         *)
(***************************************************************************)
EXTENDS Pricing, InductionProofs

-----------------------------------------------------------------------------
(* The codes that are not blank. *)

LEMMA WithoutBlanksFacts ==
  ASSUME NEW codes \in Seq(Codes)
  PROVE  /\ WithoutBlanks(codes) \in Seq(Codes \ {Blank})
         /\ codes \in Seq(Codes \ {Blank}) => WithoutBlanks(codes) = codes
  <1> DEFINE S == Seq(Codes \ {Blank})
             len == Len(codes)
             After(n, kept) == IF codes[n] = Blank THEN kept ELSE Append(kept, codes[n])
             step == [n \in Nat |-> [kept \in S |-> IF n \in 1..len THEN After(n, kept) ELSE kept]]
             Solves(g) == g = [n \in 0..len |-> IF n = 0 THEN <<>>
                                                ELSE IF codes[n] = Blank THEN g[n - 1]
                                                ELSE Append(g[n - 1], codes[n])]
             G == CHOOSE g : Solves(g)
  <1>1. len \in Nat /\ <<>> \in S /\ DOMAIN codes = 1..len
    OBVIOUS
  <1>2. ASSUME NEW n \in 1..len, NEW kept \in S PROVE After(n, kept) \in S
    BY <1>1
  <1>3. step \in [Nat -> [S -> S]]
    <2> HIDE DEF After, S
    <2> QED BY <1>2
  <1>4. ASSUME NEW n \in 1..len, NEW kept \in S PROVE step[n][kept] = After(n, kept)
    <2> HIDE DEF After, S
    <2> QED BY <1>1
  <1>5. PICK h \in [0..len -> S] :
           h = [n \in 0..len |-> IF n = 0 THEN <<>> ELSE step[n][h[n - 1]]]
    <2> HIDE DEF S, step, len
    <2>1. len \in Nat /\ <<>> \in S
      BY <1>1
    <2>2. PICK h \in [0..len -> S] : IsRecursion(h, len, <<>>, step)
      BY <1>3, <2>1, PrefixRecursion, Zenon
    <2> QED BY <2>2 DEF IsRecursion
  <1>6. Solves(h)
    <2>1. ASSUME NEW n \in 0..len, n # 0
          PROVE  step[n][h[n - 1]] = After(n, h[n - 1])
      <3>1. n \in 1..len /\ n - 1 \in 0..len
        BY <1>1, <2>1
      <3> HIDE DEF S, step, len, After
      <3> QED BY <3>1, <1>4, <1>5
    <2> HIDE DEF S, step, len
    <2> QED BY <1>5, <2>1
  <1>7. Solves(G)
    <2> HIDE DEF Solves
    <2> QED BY <1>6
  <1> HIDE DEF G
  <1>8. /\ G[0] = <<>>
        /\ \A n \in 1..len : G[n] = After(n, G[n - 1])
    <2>1. \A n \in 0..len : G[n] = IF n = 0 THEN <<>> ELSE After(n, G[n - 1])
      <3> HIDE DEF S, step, len
      <3> QED BY <1>7
    <2>2. 0 \in 0..len /\ \A n \in 1..len : n \in 0..len /\ n # 0
      BY <1>1
    <2> HIDE DEF S, step, len, After
    <2> QED BY <2>1, <2>2
  <1>9. WithoutBlanks(codes) = G[len]
    BY DEF WithoutBlanks, G
  <1> HIDE DEF Solves, step
  <1>10. G[len] \in S
    <2> DEFINE T == {n \in 0..len : G[n] \in S}
    <2>1. 0 \in T
      <3> HIDE DEF S, len, After
      <3> QED BY <1>1, <1>8
    <2>2. \A n \in 0..(len - 1) : n \in T => n + 1 \in T
      <3> SUFFICES ASSUME NEW n \in 0..(len - 1), G[n] \in S PROVE G[n + 1] \in S
        BY <1>1
      <3>1. n + 1 \in 1..len /\ (n + 1) - 1 = n
        BY <1>1
      <3> HIDE DEF S, After, len
      <3> QED BY <1>2, <1>8, <3>1
    <2>3. 0..len \subseteq T
      <3> HIDE DEF T, len, S
      <3> QED BY <1>1, <2>1, <2>2, InductionTo
    <2> QED BY <1>1, <2>3
  <1>11. ASSUME codes \in Seq(Codes \ {Blank})
         PROVE  G[len] = codes
    <2> DEFINE T == {n \in 0..len : G[n] = SubSeq(codes, 1, n)}
    <2>1. 0 \in T
      <3>1. SubSeq(codes, 1, 0) = <<>> /\ 0 \in 0..len
        BY <1>1
      <3> HIDE DEF S, len, After
      <3> QED BY <1>8, <3>1
    <2>2. \A n \in 0..(len - 1) : n \in T => n + 1 \in T
      <3> SUFFICES ASSUME NEW n \in 0..(len - 1), G[n] = SubSeq(codes, 1, n)
                   PROVE  G[n + 1] = SubSeq(codes, 1, n + 1)
        BY <1>1
      <3>1. n + 1 \in 1..len /\ (n + 1) - 1 = n /\ codes[n + 1] # Blank
        BY <1>1, <1>11
      <3>2. G[n + 1] = Append(G[n], codes[n + 1])
        <4> HIDE DEF S, len
        <4> QED BY <1>8, <3>1
      <3>3. SubSeq(codes, 1, n + 1) = Append(SubSeq(codes, 1, n), codes[n + 1])
        BY <3>1
      <3> QED BY <3>2, <3>3
    <2>3. 0..len \subseteq T
      <3> HIDE DEF T, len, S
      <3> QED BY <1>1, <2>1, <2>2, InductionTo
    <2>4. SubSeq(codes, 1, len) = codes
      OBVIOUS
    <2>5. len \in T
      <3> HIDE DEF T, S, len, After
      <3> QED BY <1>1, <2>3
    <2>6. G[len] = SubSeq(codes, 1, len)
      <3> HIDE DEF S, len, After
      <3> QED BY <2>5
    <2> HIDE DEF T, S, len, After
    <2> QED BY <2>4, <2>6
  <1> QED BY <1>9, <1>10, <1>11

-----------------------------------------------------------------------------
(* SAVE5: what it takes is spread over the lines, to the last cent.        *)

LEMMA ShareOf ==
  ASSUME NEW a \in Nat, NEW b \in Nat, NEW t \in Nat, t > 0, a <= t
  PROVE  /\ (a * b) \div t \in 0..b
         /\ t * ((a * b) \div t) <= a * b
  <1> DEFINE p == a * b
             q == p \div t
  <1>1. p \in Nat
    OBVIOUS
  <1>2. q \in Nat /\ t * q <= p
    <2> HIDE DEF p
    <2> QED BY <1>1
  <1>3. p <= t * b
    <2>1. (t - a) * b >= 0
      OBVIOUS
    <2>2. (t - a) * b = t * b - p
      OBVIOUS
    <2> QED BY <2>1, <2>2
  <1>4. q <= b
    <2> HIDE DEF q, p
    <2>1. SUFFICES ASSUME q > b PROVE FALSE
      BY <1>2
    <2>2. t * (q - b) > 0
      BY <1>2, <2>1
    <2>3. t * (q - b) = t * q - t * b
      BY <1>2
    <2> QED BY <1>1, <1>2, <1>3, <2>2, <2>3
  <1> QED BY <1>1, <1>2, <1>4

(* No line's share is more than the line has, and the shares are together  *)
(* no more than the amount.                                                *)
LEMMA SharesFacts ==
  ASSUME NEW available \in Seq(Nat), NEW amount \in 0..Total(available), Total(available) > 0
  PROVE  /\ Shares(amount, available) \in Seq(Nat)
         /\ Len(Shares(amount, available)) = Len(available)
         /\ \A i \in 1..Len(available) : Shares(amount, available)[i] \in 0..available[i]
         /\ Total(Shares(amount, available)) \in 0..amount
  <1> DEFINE t == Total(available)
             k == Len(available)
             share == Shares(amount, available)
  <1>1. /\ k \in Nat /\ DOMAIN available = 1..k /\ available \in Seq(Int)
        /\ \A i \in 1..k : available[i] \in Nat
    OBVIOUS
  <1>2. t \in Nat /\ amount \in Nat /\ amount <= t /\ t > 0
    BY SumsNat
  <1>3. share = [i \in 1..k |-> (amount * available[i]) \div t]
    BY <1>1 DEF Shares
  <1> HIDE DEF t, k, share
  <1>4. \A i \in 1..k : share[i] \in 0..available[i] /\ t * share[i] <= amount * available[i]
    <2> SUFFICES ASSUME NEW i \in 1..k
                 PROVE  share[i] \in 0..available[i] /\ t * share[i] <= amount * available[i]
      OBVIOUS
    <2>1. available[i] \in Nat /\ share[i] = (amount * available[i]) \div t
      BY <1>1, <1>3
    <2> QED BY <1>2, <2>1, ShareOf
  <1>5. share \in Seq(Nat) /\ Len(share) = k
    <2>1. \A i \in 1..k : share[i] \in Nat
      BY <1>1, <1>4
    <2>2. share \in [1..k -> Nat]
      BY <1>3, <2>1
    <2> QED BY <1>1, <2>2, ListedByIndex
  <1>6. share \in Seq(Int) /\ \A i \in 1..k : share[i] \in Nat
    BY <1>1, <1>5
  <1> DEFINE T == {n \in 0..k : t * Sums(share)[n] <= amount * Sums(available)[n]}
  <1>7. 0 \in T
    <2>1. Sums(share)[0] = 0 /\ Sums(available)[0] = 0 /\ 0 \in 0..k
      BY <1>1, <1>6, SumsFacts
    <2> QED BY <1>2, <2>1
  <1>8. \A n \in 0..(k - 1) : n \in T => n + 1 \in T
    <2> SUFFICES ASSUME NEW n \in 0..(k - 1), t * Sums(share)[n] <= amount * Sums(available)[n]
                 PROVE  t * Sums(share)[n + 1] <= amount * Sums(available)[n + 1]
      BY <1>1
    <2>1. n \in Nat /\ n < k /\ n + 1 \in 1..k
      BY <1>1
    <2>2. /\ Sums(share)[n + 1] = Sums(share)[n] + share[n + 1]
          /\ Sums(share)[n] \in Int /\ share[n + 1] \in Int
      BY <1>5, <1>6, <2>1, SumsStep
    <2>3. /\ Sums(available)[n + 1] = Sums(available)[n] + available[n + 1]
          /\ Sums(available)[n] \in Int /\ available[n + 1] \in Int
      BY <1>1, <2>1, SumsStep DEF k
    <2>4. t * share[n + 1] <= amount * available[n + 1]
      BY <1>4, <2>1
    <2>5. \A x, y, u, v \in Int : t * x <= amount * u /\ t * y <= amount * v
                                 => t * (x + y) <= amount * (u + v)
      <3> SUFFICES ASSUME NEW x \in Int, NEW y \in Int, NEW u \in Int, NEW v \in Int,
                          t * x <= amount * u, t * y <= amount * v
                   PROVE  t * (x + y) <= amount * (u + v)
        OBVIOUS
      <3>1. t * (x + y) = t * x + t * y /\ amount * (u + v) = amount * u + amount * v
        BY <1>2
      <3> QED BY <1>2, <3>1
    <2> HIDE DEF T
    <2>6. t * (Sums(share)[n] + share[n + 1]) <= amount * (Sums(available)[n] + available[n + 1])
      BY <2>2, <2>3, <2>4, <2>5
    <2> QED BY <2>2, <2>3, <2>6, Zenon
  <1>9. 0..k \subseteq T
    <2> HIDE DEF T
    <2> QED BY <1>1, <1>7, <1>8, InductionTo
  <1>10. t * Total(share) <= amount * t
    <2>1. k \in T
      BY <1>1, <1>9
    <2> QED BY <1>5, <2>1 DEF Total, t, k
  <1>11. Total(share) \in Nat
    BY <1>5, SumsNat
  <1>12. \A x \in Nat : t * x <= amount * t => x <= amount
    <2> SUFFICES ASSUME NEW x \in Nat, t * x <= amount * t, x > amount PROVE FALSE
      BY <1>2
    <2>1. t * (x - amount) > 0 /\ t * (x - amount) = t * x - amount * t
      BY <1>2
    <2> QED BY <1>2, <2>1
  <1>13. Total(share) \in 0..amount
    BY <1>2, <1>10, <1>11, <1>12
  <1> QED BY <1>4, <1>5, <1>13 DEF share, k

(* An amount poured into the lines, each as far as it has room, fills them *)
(* up from the first one.                                                  *)
LEMMA FillFacts ==
  ASSUME NEW room \in Seq(Nat), NEW rest \in Nat, NEW fill,
         fill = [i \in DOMAIN room |-> Lesser(room[i], AtLeastZero(rest - Sums(room)[i - 1]))]
  PROVE  /\ fill \in Seq(Nat) /\ Len(fill) = Len(room)
         /\ \A i \in 1..Len(room) : fill[i] \in 0..room[i]
         /\ Total(fill) = Lesser(rest, Total(room))
  <1> DEFINE k == Len(room)
  <1>1. /\ k \in Nat /\ DOMAIN room = 1..k /\ room \in Seq(Int)
        /\ \A i \in 1..k : room[i] \in Nat
    OBVIOUS
  <1>2. \A n \in 0..k : Sums(room)[n] \in Nat
    BY SumsNat
  <1> HIDE DEF k
  <1>3. \A i \in 1..k : /\ fill[i] = Lesser(room[i], AtLeastZero(rest - Sums(room)[i - 1]))
                        /\ fill[i] \in 0..room[i]
    <2> SUFFICES ASSUME NEW i \in 1..k
                 PROVE  /\ fill[i] = Lesser(room[i], AtLeastZero(rest - Sums(room)[i - 1]))
                        /\ fill[i] \in 0..room[i]
      OBVIOUS
    <2>1. i - 1 \in 0..k
      BY <1>1
    <2>2. Sums(room)[i - 1] \in Nat /\ room[i] \in Nat
      BY <1>1, <1>2, <2>1
    <2>3. fill[i] = Lesser(room[i], AtLeastZero(rest - Sums(room)[i - 1]))
      BY <1>1
    <2> QED BY <2>2, <2>3 DEF Lesser, AtLeastZero
  <1>4. fill \in Seq(Nat) /\ Len(fill) = k
    <2>1. \A i \in 1..k : fill[i] \in Nat
      BY <1>1, <1>3
    <2>2. fill \in [1..k -> Nat]
      BY <1>1, <2>1
    <2> QED BY <1>1, <2>2, ListedByIndex
  <1>5. fill \in Seq(Int)
    BY <1>4
  <1> DEFINE Filled(n) == Sums(fill)[n] = Lesser(rest, Sums(room)[n])
             T == {n \in 0..k : Filled(n)}
  <1>6. 0 \in T
    <2>1. Sums(fill)[0] = 0
      BY <1>5, SumsFacts
    <2>2. Sums(room)[0] = 0
      BY <1>1, SumsFacts
    <2>3. Filled(0)
      BY <2>1, <2>2 DEF Lesser
    <2> HIDE DEF Filled
    <2> QED BY <1>1, <2>3
  <1>7. \A n \in 0..(k - 1) : n \in T => n + 1 \in T
    <2> SUFFICES ASSUME NEW n \in 0..(k - 1), Filled(n) PROVE Filled(n + 1)
      <3> HIDE DEF Filled
      <3> QED BY <1>1
    <2>1. n \in Nat /\ n < k /\ n + 1 \in 1..k /\ (n + 1) - 1 = n /\ n \in 0..k
      BY <1>1
    <2>2. Sums(fill)[n + 1] = Sums(fill)[n] + fill[n + 1]
      BY <1>4, <1>5, <2>1, SumsStep
    <2>3. Sums(room)[n + 1] = Sums(room)[n] + room[n + 1]
      BY <1>1, <2>1, SumsStep DEF k
    <2>4. fill[n + 1] = Lesser(room[n + 1], AtLeastZero(rest - Sums(room)[n]))
      BY <1>3, <2>1
    <2>5. Sums(room)[n] \in Nat /\ room[n + 1] \in Nat
      BY <1>1, <1>2, <2>1
    <2>6. Sums(fill)[n] = Lesser(rest, Sums(room)[n])
      OBVIOUS
    <2>7. \A r, s \in Nat : Lesser(rest, s) + Lesser(r, AtLeastZero(rest - s)) = Lesser(rest, s + r)
      BY DEF Lesser, AtLeastZero
    <2>8. Sums(fill)[n + 1] = Lesser(rest, Sums(room)[n] + room[n + 1])
      <3> HIDE DEF T, Filled
      <3> QED BY <2>2, <2>4, <2>5, <2>6, <2>7, Zenon
    <2> QED BY <2>3, <2>8, Zenon
  <1>8. 0..k \subseteq T
    <2> HIDE DEF T
    <2> QED BY <1>1, <1>6, <1>7, InductionTo
  <1>9. Total(fill) = Lesser(rest, Total(room))
    <2>1. k \in T
      <3> HIDE DEF T
      <3> QED BY <1>1, <1>8
    <2>2. Sums(fill)[k] = Lesser(rest, Sums(room)[k])
      BY <2>1
    <2> QED BY <1>4, <2>2, Zenon DEF Total, k
  <1> QED BY <1>3, <1>4, <1>9 DEF k

(* An amount that the lines have is taken from them exactly: the shares    *)
(* and the rounding together are the amount.                               *)
LEMMA SpreadFacts ==
  ASSUME NEW available \in Seq(Nat), NEW amount \in 0..Total(available), Total(available) > 0
  PROVE  /\ Spread(amount, available) \in Seq(Nat)
         /\ Len(Spread(amount, available)) = Len(available)
         /\ \A i \in 1..Len(available) : Spread(amount, available)[i] \in 0..available[i]
         /\ Total(Spread(amount, available)) = amount
  <1> DEFINE k == Len(available)
             share == Shares(amount, available)
             room == [i \in DOMAIN available |-> available[i] - share[i]]
             rest == amount - Total(share)
             fill == [i \in DOMAIN room |->
                        Lesser(room[i], AtLeastZero(rest - Sums(room)[i - 1]))]
             spread == Spread(amount, available)
  <1>1. /\ k \in Nat /\ DOMAIN available = 1..k /\ available \in Seq(Int)
        /\ \A i \in 1..k : available[i] \in Nat
    OBVIOUS
  <1>2. /\ share \in Seq(Nat) /\ Len(share) = k /\ DOMAIN share = 1..k
        /\ \A i \in 1..k : share[i] \in 0..available[i]
        /\ Total(share) \in 0..amount
    <2> HIDE DEF share
    <2>1. /\ share \in Seq(Nat) /\ Len(share) = k
          /\ \A i \in 1..k : share[i] \in 0..available[i]
          /\ Total(share) \in 0..amount
      BY SharesFacts DEF share
    <2> QED BY <2>1
  <1>3. spread = [i \in 1..k |-> share[i] + Lesser(room[i], AtLeastZero(rest - Sums(room)[i - 1]))]
    BY <1>1 DEF Spread
  <1>4. room = [i \in 1..k |-> available[i] - share[i]]
    BY <1>1
  <1>5. Total(available) \in Nat /\ amount \in Nat /\ amount <= Total(available)
    BY SumsNat
  <1>6. rest \in Nat
    <2> HIDE DEF share
    <2> QED BY <1>2, <1>5
  <1>7. fill = [i \in DOMAIN room |-> Lesser(room[i], AtLeastZero(rest - Sums(room)[i - 1]))]
    OBVIOUS
  <1> HIDE DEF k, share, room
  <1>8. room \in Seq(Nat) /\ Len(room) = k /\ DOMAIN room = 1..k
    <2>1. \A i \in 1..k : room[i] \in Nat
      BY <1>1, <1>2, <1>4
    <2>2. room \in [1..k -> Nat]
      BY <1>4, <2>1
    <2> QED BY <1>1, <2>2, ListedByIndex
  <1> HIDE DEF rest, fill
  <1>9. /\ fill \in Seq(Nat) /\ Len(fill) = k
        /\ \A i \in 1..k : fill[i] \in 0..room[i]
        /\ Total(fill) = Lesser(rest, Total(room))
    <2>1. /\ fill \in Seq(Nat) /\ Len(fill) = Len(room)
          /\ \A i \in 1..Len(room) : fill[i] \in 0..room[i]
          /\ Total(fill) = Lesser(rest, Total(room))
      <3>1. room \in Seq(Nat)
        BY <1>8
      <3> QED BY <1>6, <1>7, <3>1, FillFacts, Zenon
    <2> QED BY <1>8, <2>1
  <1>10. \A i \in 1..k : spread[i] = share[i] + fill[i]
    BY <1>3, <1>7, <1>8
  <1>11. \A i \in 1..k : spread[i] \in 0..available[i]
    <2> SUFFICES ASSUME NEW i \in 1..k PROVE spread[i] \in 0..available[i]
      OBVIOUS
    <2>1. /\ available[i] \in Nat /\ share[i] \in 0..available[i]
          /\ room[i] = available[i] - share[i] /\ fill[i] \in 0..room[i]
          /\ spread[i] = share[i] + fill[i]
      BY <1>1, <1>2, <1>4, <1>9, <1>10
    <2> HIDE DEF spread
    <2> QED BY <2>1
  <1>12. spread \in Seq(Nat) /\ Len(spread) = k
    <2>1. \A i \in 1..k : spread[i] \in Nat
      <3> SUFFICES ASSUME NEW i \in 1..k PROVE spread[i] \in Nat
        OBVIOUS
      <3> HIDE DEF spread
      <3> QED BY <1>1, <1>11
    <2>2. spread \in [1..k -> Nat]
      BY <1>3, <2>1
    <2> HIDE DEF spread
    <2> QED BY <1>1, <2>2, ListedByIndex
  <1> HIDE DEF spread
  <1>13. Total(spread) = Total(share) + Total(fill)
    <2>1. share \in Seq(Int) /\ fill \in Seq(Int) /\ spread \in Seq(Int) /\ k \in 0..Len(share)
      BY <1>1, <1>2, <1>9, <1>12
    <2>2. Sums(spread)[k] = Sums(share)[k] + Sums(fill)[k]
      <3>1. Len(fill) = Len(share) /\ Len(spread) = Len(share)
        BY <1>2, <1>9, <1>12
      <3>2. \A i \in 1..Len(share) : spread[i] = share[i] + fill[i]
        BY <1>2, <1>10
      <3> QED BY <2>1, <3>1, <3>2, SumsPlus
    <2> QED BY <1>2, <1>9, <1>12, <2>2 DEF Total
  <1>14. Total(available) = Total(share) + Total(room)
    <2>1. share \in Seq(Int) /\ room \in Seq(Int) /\ k \in 0..Len(share) /\ Len(available) = k
      BY <1>1, <1>2, <1>8 DEF k
    <2>2. \A i \in 1..k : available[i] = share[i] + room[i]
      <3> SUFFICES ASSUME NEW i \in 1..k PROVE available[i] = share[i] + room[i]
        OBVIOUS
      <3>1. available[i] \in Nat /\ share[i] \in 0..available[i]
            /\ room[i] = available[i] - share[i]
        BY <1>1, <1>2, <1>4
      <3> QED BY <3>1
    <2>3. Sums(available)[k] = Sums(share)[k] + Sums(room)[k]
      <3>1. Len(room) = Len(share) /\ Len(available) = Len(share)
        BY <1>2, <1>8, <2>1
      <3>2. \A i \in 1..Len(share) : available[i] = share[i] + room[i]
        BY <1>2, <2>2
      <3> QED BY <1>1, <2>1, <3>1, <3>2, SumsPlus
    <2> QED BY <1>2, <1>8, <2>1, <2>3 DEF Total
  <1>15. Total(spread) = amount
    <2>1. Total(room) \in Nat
      BY <1>8, SumsNat
    <2> QED BY <1>2, <1>5, <1>6, <1>9, <1>13, <1>14, <2>1 DEF rest, Lesser
  <1> QED BY <1>11, <1>12, <1>15 DEF spread, k

LEMMA NothingFacts ==
  ASSUME NEW amounts \in Seq(Nat)
  PROVE  /\ Nothing(amounts) \in [1..Len(amounts) -> Nat]
         /\ \A i \in 1..Len(amounts) : Nothing(amounts)[i] = 0
         /\ Total(Nothing(amounts)) = 0
  <1> DEFINE k == Len(amounts)
             none == Nothing(amounts)
  <1>1. k \in Nat /\ none = [i \in 1..k |-> 0]
    BY DEF Nothing
  <1>2. none \in [1..k -> Nat] /\ \A i \in 1..k : none[i] = 0
    <2> HIDE DEF k, none
    <2> QED BY <1>1
  <1>3. none \in Seq(Int) /\ Len(none) = k
    <2> HIDE DEF none, k
    <2>1. none \in Seq(Nat) /\ Len(none) = k
      BY <1>1, <1>2, ListedByIndex
    <2> QED BY <2>1
  <1>4. Total(none) = 0
    <2> HIDE DEF none, k
    <2>1. Sums(none)[k] = 0
      BY <1>1, <1>2, <1>3, SumsOfNothing
    <2> QED BY <1>3, <2>1 DEF Total
  <1> QED BY <1>2, <1>4

(* What is left of the lines, when no more was taken than they are worth.  *)
LEMMA AvailableFacts ==
  ASSUME NEW subtotals \in Seq(Nat), NEW taken \in [1..Len(subtotals) -> Nat]
  PROVE  /\ Available(subtotals, taken) \in Seq(Nat)
         /\ Len(Available(subtotals, taken)) = Len(subtotals)
         /\ \A i \in 1..Len(subtotals) :
               Available(subtotals, taken)[i] = AtLeastZero(subtotals[i] - taken[i])
         /\ (\A i \in 1..Len(subtotals) : taken[i] <= subtotals[i])
               => Total(Available(subtotals, taken)) = Total(subtotals) - Total(taken)
  <1> DEFINE k == Len(subtotals)
             left == Available(subtotals, taken)
  <1>1. /\ k \in Nat /\ subtotals \in Seq(Int) /\ DOMAIN subtotals = 1..k
        /\ \A i \in 1..k : subtotals[i] \in Nat /\ taken[i] \in Nat
    OBVIOUS
  <1>2. left = [i \in 1..k |-> AtLeastZero(subtotals[i] - taken[i])]
    BY <1>1 DEF Available
  <1> HIDE DEF left
  <1>3. left \in Seq(Nat) /\ Len(left) = k
    <2> HIDE DEF k
    <2>1. \A i \in 1..k : left[i] \in Nat
      BY <1>1, <1>2 DEF AtLeastZero
    <2>2. left \in [1..k -> Nat]
      BY <1>2, <2>1
    <2> QED BY <1>1, <2>2, ListedByIndex
  <1>4. \A i \in 1..k : left[i] = AtLeastZero(subtotals[i] - taken[i])
    BY <1>2
  <1>5. ASSUME \A i \in 1..k : taken[i] <= subtotals[i]
        PROVE  Total(left) = Total(subtotals) - Total(taken)
    <2>1. taken \in Seq(Int) /\ Len(taken) = k /\ left \in Seq(Int)
      <3>1. taken \in Seq(Nat) /\ Len(taken) = k
        BY <1>1, ListedByIndex
      <3> QED BY <1>3, <3>1
    <2>2. \A i \in 1..k : subtotals[i] = taken[i] + left[i]
      BY <1>1, <1>4, <1>5 DEF AtLeastZero
    <2>3. Sums(subtotals)[k] = Sums(taken)[k] + Sums(left)[k]
      <3>1. Len(left) = Len(taken) /\ Len(subtotals) = Len(taken) /\ k \in 0..Len(taken)
        BY <1>1, <1>3, <2>1
      <3>2. \A i \in 1..Len(taken) : subtotals[i] = taken[i] + left[i]
        BY <2>1, <2>2
      <3> QED BY <1>1, <2>1, <3>1, <3>2, SumsPlus
    <2>4. Total(taken) \in Int /\ Total(left) \in Int
      BY <2>1, TotalType
    <2> QED BY <1>3, <2>1, <2>3, <2>4 DEF Total
  <1> QED BY <1>3, <1>4, <1>5 DEF left

(* SAVE5 takes five dollars, or all that is left, and from no line more    *)
(* than is left of it.                                                     *)
LEMMA FiveOffFacts ==
  ASSUME NEW subtotals \in Seq(Nat), NEW taken \in [1..Len(subtotals) -> Nat]
  PROVE  /\ FiveOff(subtotals, taken) \in [1..Len(subtotals) -> Nat]
         /\ \A i \in 1..Len(subtotals) :
               FiveOff(subtotals, taken)[i] \in 0..AtLeastZero(subtotals[i] - taken[i])
         /\ Total(FiveOff(subtotals, taken))
               = Lesser(FiveDollars, Total(Available(subtotals, taken)))
  <1> DEFINE k == Len(subtotals)
             left == Available(subtotals, taken)
             five == FiveOff(subtotals, taken)
             amount == Lesser(FiveDollars, Total(left))
  <1>1. /\ left \in Seq(Nat) /\ Len(left) = k
        /\ \A i \in 1..k : left[i] = AtLeastZero(subtotals[i] - taken[i])
    BY AvailableFacts
  <1>2. k \in Nat /\ \A i \in 1..k : left[i] \in Nat
    BY <1>1
  <1>3. five = IF Total(left) = 0 THEN Nothing(subtotals) ELSE Spread(amount, left)
    BY DEF FiveOff
  <1> HIDE DEF left, five
  <1>4. Total(left) \in Nat
    BY <1>1, SumsNat
  <1>5. CASE Total(left) = 0
    <2>1. five = Nothing(subtotals) /\ amount = 0
      BY <1>3, <1>5 DEF Lesser, FiveDollars
    <2>2. /\ Nothing(subtotals) \in [1..k -> Nat]
          /\ \A i \in 1..k : Nothing(subtotals)[i] = 0
          /\ Total(Nothing(subtotals)) = 0
      BY NothingFacts
    <2>3. \A i \in 1..k : five[i] \in 0..left[i]
      BY <1>2, <2>1, <2>2
    <2> QED BY <1>1, <2>1, <2>2, <2>3 DEF left, five
  <1>6. CASE Total(left) # 0
    <2>1. five = Spread(amount, left) /\ amount \in 0..Total(left) /\ Total(left) > 0
      BY <1>3, <1>4, <1>6 DEF Lesser, FiveDollars
    <2> HIDE DEF amount
    <2>2. /\ five \in Seq(Nat) /\ Len(five) = k
          /\ \A i \in 1..k : five[i] \in 0..left[i]
          /\ Total(five) = amount
      BY <1>1, <2>1, SpreadFacts
    <2>3. five \in [1..k -> Nat]
      BY <2>2
    <2> QED BY <1>1, <2>2, <2>3 DEF left, five, amount
  <1> QED BY <1>5, <1>6

(* SAVE10 takes a tenth of each line, rounded down.                        *)
LEMMA TenthFacts ==
  ASSUME NEW subtotals \in Seq(Nat)
  PROVE  /\ TenthOf(subtotals) \in [1..Len(subtotals) -> Nat]
         /\ \A i \in 1..Len(subtotals) : /\ TenthOf(subtotals)[i] = subtotals[i] \div 10
                                         /\ TenthOf(subtotals)[i] <= subtotals[i]
  <1> DEFINE k == Len(subtotals)
             tenth == TenthOf(subtotals)
  <1>1. k \in Nat /\ DOMAIN subtotals = 1..k /\ \A i \in 1..k : subtotals[i] \in Nat
    OBVIOUS
  <1>2. tenth = [i \in 1..k |-> AtLeastZero((subtotals[i] * 10) \div 100)]
    BY <1>1 DEF TenthOf
  <1>3. \A x \in Nat : /\ AtLeastZero((x * 10) \div 100) = x \div 10
                       /\ x \div 10 \in Nat /\ x \div 10 <= x
    BY DEF AtLeastZero
  <1> HIDE DEF tenth, k
  <1>4. \A i \in 1..k : tenth[i] = subtotals[i] \div 10 /\ tenth[i] \in Nat
                        /\ tenth[i] <= subtotals[i]
    <2> SUFFICES ASSUME NEW i \in 1..k
                 PROVE  /\ tenth[i] = subtotals[i] \div 10 /\ tenth[i] \in Nat
                        /\ tenth[i] <= subtotals[i]
      OBVIOUS
    <2>1. tenth[i] = AtLeastZero((subtotals[i] * 10) \div 100) /\ subtotals[i] \in Nat
      BY <1>1, <1>2
    <2> QED BY <1>3, <2>1
  <1> QED BY <1>2, <1>4 DEF tenth, k

-----------------------------------------------------------------------------
(* The loop over the codes. *)

(* What is known of the codes so far, for an order of k lines.             *)
OutcomesOf(k) ==
    [lines : [1..k -> Nat], order : Nat,
     applied : Seq([code : Codes, amount : Nat, allocations : [1..k -> Nat]])]

LEMMA AllocationsFacts ==
  ASSUME NEW subtotals \in Seq(Nat), NEW taken \in [1..Len(subtotals) -> Nat], NEW code
  PROVE  Allocations(code, subtotals, taken) \in [1..Len(subtotals) -> Nat]
  BY TenthFacts, FiveOffFacts, NothingFacts DEF Allocations

(* A part is at most the whole. *)
LEMMA PartOfTotal ==
  ASSUME NEW a \in Seq(Nat), NEW i \in 1..Len(a)
  PROVE  a[i] \in 0..Total(a)
  <1>1. /\ Len(a) \in Nat /\ a \in Seq(Int) /\ a[i] \in Nat
        /\ i - 1 \in 0..Len(a) /\ i \in 0..Len(a) /\ i - 1 \in Nat /\ i - 1 < Len(a)
        /\ (i - 1) + 1 = i
    OBVIOUS
  <1>2. Sums(a)[i] = Sums(a)[i - 1] + a[i]
    BY <1>1, SumsFacts
  <1>3. Sums(a)[i - 1] \in 0..Total(a) /\ Sums(a)[i] \in 0..Total(a) /\ Total(a) \in Nat
    BY <1>1, SumsNat
  <1> QED BY <1>1, <1>2, <1>3

(* One code: what it takes is added to what was taken, from each line and  *)
(* from the order, whether or not the code is listed.                      *)
LEMMA AfterCodeFacts ==
  ASSUME NEW subtotals \in Seq(Nat), NEW outcome \in OutcomesOf(Len(subtotals)),
         NEW code \in Codes, NEW cost \in Int
  PROVE  LET after == AfterCode(outcome, code, subtotals, cost)
         IN  /\ after \in OutcomesOf(Len(subtotals))
             /\ after.lines = Plus(outcome.lines, Allocations(code, subtotals, outcome.lines))
             /\ after.order = outcome.order + OffTheOrder(code, cost)
  <1> DEFINE k == Len(subtotals)
             allocations == Allocations(code, subtotals, outcome.lines)
             order == OffTheOrder(code, cost)
             amount == Total(allocations) + order
             after == AfterCode(outcome, code, subtotals, cost)
             plus == Plus(outcome.lines, allocations)
  <1>1. /\ k \in Nat /\ outcome.lines \in [1..k -> Nat] /\ outcome.order \in Nat
        /\ outcome.applied \in Seq([code : Codes, amount : Nat, allocations : [1..k -> Nat]])
        /\ outcome = [lines |-> outcome.lines, order |-> outcome.order,
                      applied |-> outcome.applied]
    BY DEF OutcomesOf
  <1>2. allocations \in [1..k -> Nat]
    BY <1>1, AllocationsFacts
  <1>3. order \in Nat
    BY DEF OffTheOrder, AtLeastZero
  <1>4. after = IF amount = 0 THEN outcome
                ELSE [lines |-> plus, order |-> outcome.order + order,
                      applied |-> Append(outcome.applied, [code |-> code, amount |-> amount,
                                                           allocations |-> allocations])]
    BY DEF AfterCode, TakenTogether
  <1>5. plus = [i \in 1..k |-> outcome.lines[i] + allocations[i]]
    <2> HIDE DEF allocations, k
    <2>1. DOMAIN outcome.lines = 1..k
      BY <1>1
    <2> QED BY <2>1 DEF Plus
  <1> HIDE DEF k, allocations, order, after, plus
  <1>6. allocations \in Seq(Nat) /\ Len(allocations) = k
    BY <1>1, <1>2, ListedByIndex
  <1>7. Total(allocations) \in Nat
    BY <1>6, SumsNat
  <1>8. CASE amount = 0
    <2>1. Total(allocations) = 0 /\ order = 0
      BY <1>3, <1>7, <1>8
    <2>2. \A i \in 1..k : allocations[i] = 0
      <3> SUFFICES ASSUME NEW i \in 1..k PROVE allocations[i] = 0
        OBVIOUS
      <3>1. allocations[i] \in 0..Total(allocations)
        BY <1>6, PartOfTotal
      <3> QED BY <2>1, <3>1
    <2>3. plus = outcome.lines
      <3>1. \A i \in 1..k : outcome.lines[i] + allocations[i] = outcome.lines[i]
        BY <1>1, <2>2
      <3>2. plus = [i \in 1..k |-> outcome.lines[i]]
        BY <1>5, <3>1
      <3> QED BY <1>1, <3>2
    <2>4. outcome.order + order = outcome.order /\ after = outcome
      BY <1>1, <1>4, <1>8, <2>1
    <2> QED BY <2>3, <2>4 DEF after, plus, order, allocations, k
  <1>9. CASE amount # 0
    <2>1. plus \in [1..k -> Nat]
      <3>1. \A i \in 1..k : outcome.lines[i] + allocations[i] \in Nat
        BY <1>1, <1>2
      <3> QED BY <1>5, <3>1
    <2>2. amount \in Nat /\ outcome.order + order \in Nat
      BY <1>1, <1>3, <1>7
    <2> DEFINE entry == [code |-> code, amount |-> amount, allocations |-> allocations]
    <2>3. entry \in [code : Codes, amount : Nat, allocations : [1..k -> Nat]]
      <3> HIDE DEF amount
      <3> QED BY <1>2, <2>2
    <2>4. after = [lines |-> plus, order |-> outcome.order + order,
                   applied |-> Append(outcome.applied, entry)]
      BY <1>4, <1>9
    <2> HIDE DEF entry
    <2>5. Append(outcome.applied, entry)
             \in Seq([code : Codes, amount : Nat, allocations : [1..k -> Nat]])
      BY <1>1, <2>3
    <2>6. after \in OutcomesOf(k)
      BY <2>1, <2>2, <2>4, <2>5 DEF OutcomesOf
    <2>7. after.lines = plus /\ after.order = outcome.order + order
      BY <2>4
    <2> QED BY <2>6, <2>7 DEF after, plus, order, allocations, k
  <1> QED BY <1>8, <1>9

(* The three accounts of what was taken: by line, by code, and the sum.    *)
Accounted(outcome, k) ==
    /\ \A i \in 1..k :
          outcome.lines[i]
             = Total([a \in DOMAIN outcome.applied |-> outcome.applied[a].allocations[i]])
    /\ Total(outcome.lines) + outcome.order
          = Total([a \in DOMAIN outcome.applied |-> outcome.applied[a].amount])

LEMMA AccountedAfterCode ==
  ASSUME NEW subtotals \in Seq(Nat), NEW outcome \in OutcomesOf(Len(subtotals)),
         NEW code \in Codes, NEW cost \in Int, Accounted(outcome, Len(subtotals))
  PROVE  Accounted(AfterCode(outcome, code, subtotals, cost), Len(subtotals))
  <1> DEFINE k == Len(subtotals)
             allocations == Allocations(code, subtotals, outcome.lines)
             order == OffTheOrder(code, cost)
             amount == Total(allocations) + order
             after == AfterCode(outcome, code, subtotals, cost)
             plus == Plus(outcome.lines, allocations)
             entry == [code |-> code, amount |-> amount, allocations |-> allocations]
             E == [code : Codes, amount : Nat, allocations : [1..k -> Nat]]
             old == outcome.applied
             new == Append(old, entry)
  <1>1. /\ k \in Nat /\ outcome.lines \in [1..k -> Nat] /\ outcome.order \in Nat
        /\ old \in Seq(E)
    BY DEF OutcomesOf
  <1>2. allocations \in [1..k -> Nat]
    BY <1>1, AllocationsFacts
  <1>3. order \in Nat
    BY DEF OffTheOrder, AtLeastZero
  <1>4. after = IF amount = 0 THEN outcome
                ELSE [lines |-> plus, order |-> outcome.order + order, applied |-> new]
    BY DEF AfterCode, TakenTogether
  <1>5. plus = [i \in 1..k |-> outcome.lines[i] + allocations[i]]
    <2> HIDE DEF allocations, k
    <2>1. DOMAIN outcome.lines = 1..k
      BY <1>1
    <2> QED BY <2>1 DEF Plus
  <1>6. CASE amount = 0
    <2> HIDE DEF after, amount
    <2> QED BY <1>4, <1>6 DEF after
  <1> HIDE DEF k, allocations, order, after, plus
  <1>7. CASE amount # 0
    <2> DEFINE n == Len(old)
    <2>1. n \in Nat /\ DOMAIN old = 1..n /\ \A a \in 1..n : old[a] \in E
      <3> HIDE DEF E, old
      <3> QED BY <1>1
    <2>2. Total(allocations) \in Nat
      <3>1. allocations \in Seq(Nat)
        BY <1>1, <1>2, ListedByIndex
      <3> QED BY <3>1, SumsNat
    <2>3. amount \in Nat
      BY <1>3, <2>2
    <2>4. entry \in E /\ entry.allocations = allocations /\ entry.amount = amount
      <3> HIDE DEF amount
      <3> QED BY <1>2, <2>3
    <2> HIDE DEF entry, n, amount
    <2>5. /\ new \in Seq(E) /\ Len(new) = n + 1 /\ DOMAIN new = 1..(n + 1)
          /\ new[n + 1] = entry
          /\ \A a \in 1..n : new[a] = old[a]
      <3> HIDE DEF E
      <3> QED BY <1>1, <2>1, <2>4 DEF n
    <2>6. after.lines = plus /\ after.order = outcome.order + order /\ after.applied = new
      BY <1>4, <1>7
    <2> HIDE DEF new, old
    <2>7. ASSUME NEW i \in 1..k
          PROVE  Total([a \in DOMAIN new |-> new[a].allocations[i]])
                    = Total([a \in DOMAIN old |-> old[a].allocations[i]]) + allocations[i]
      <3> DEFINE x == [a \in DOMAIN old |-> old[a].allocations[i]]
                 y == [a \in DOMAIN new |-> new[a].allocations[i]]
      <3>1. x \in Seq(Int) /\ Len(x) = n
        <4>1. \A a \in 1..n : old[a].allocations[i] \in Int
          BY <1>1, <2>1
        <4>2. x \in [1..n -> Int]
          BY <2>1, <4>1
        <4> HIDE DEF x
        <4> QED BY <2>1, <4>2, ListedByIndex
      <3>2. y \in Seq(Int) /\ Len(y) = n + 1
        <4>0. \A a \in 1..(n + 1) : new[a] \in E
          <5> HIDE DEF E
          <5> QED BY <2>5
        <4>1. \A a \in 1..(n + 1) : new[a].allocations[i] \in Int
          BY <1>1, <4>0
        <4>2. y \in [1..(n + 1) -> Int] /\ n + 1 \in Nat
          BY <2>1, <2>5, <4>1
        <4> HIDE DEF y
        <4> QED BY <4>2, ListedByIndex
      <3>3. \A a \in 1..n : y[a] = x[a]
        <4> SUFFICES ASSUME NEW a \in 1..n PROVE y[a] = x[a]
          OBVIOUS
        <4>1. a \in 1..(n + 1) /\ new[a] = old[a]
          BY <2>1, <2>5
        <4> QED BY <2>1, <2>5, <4>1
      <3>4. y[n + 1] = allocations[i]
        <4>1. n + 1 \in 1..(n + 1)
          BY <2>1
        <4> QED BY <2>4, <2>5, <4>1
      <3> HIDE DEF x, y
      <3>5. Len(y) = Len(x) + 1 /\ \A a \in 1..Len(x) : y[a] = x[a]
        BY <3>1, <3>2, <3>3
      <3>6. Total(y) = Total(x) + y[Len(y)]
        BY <3>1, <3>2, <3>5, TotalLonger
      <3> QED BY <3>2, <3>4, <3>6 DEF x, y
    <2>8. Total([a \in DOMAIN new |-> new[a].amount])
             = Total([a \in DOMAIN old |-> old[a].amount]) + amount
      <3> DEFINE x == [a \in DOMAIN old |-> old[a].amount]
                 y == [a \in DOMAIN new |-> new[a].amount]
      <3>1. x \in Seq(Int) /\ Len(x) = n
        <4>1. x \in [1..n -> Int]
          BY <2>1
        <4> HIDE DEF x
        <4> QED BY <2>1, <4>1, ListedByIndex
      <3>2. y \in Seq(Int) /\ Len(y) = n + 1
        <4>0. \A a \in 1..(n + 1) : new[a] \in E
          <5> HIDE DEF E
          <5> QED BY <2>5
        <4>1. y \in [1..(n + 1) -> Int] /\ n + 1 \in Nat
          BY <2>1, <2>5, <4>0
        <4> HIDE DEF y
        <4> QED BY <4>1, ListedByIndex
      <3>3. \A a \in 1..n : y[a] = x[a]
        <4> SUFFICES ASSUME NEW a \in 1..n PROVE y[a] = x[a]
          OBVIOUS
        <4>1. a \in 1..(n + 1) /\ new[a] = old[a]
          BY <2>1, <2>5
        <4> QED BY <2>1, <2>5, <4>1
      <3>4. y[n + 1] = amount
        <4>1. n + 1 \in 1..(n + 1)
          BY <2>1
        <4> QED BY <2>4, <2>5, <4>1
      <3> HIDE DEF x, y
      <3>5. Len(y) = Len(x) + 1 /\ \A a \in 1..Len(x) : y[a] = x[a]
        BY <3>1, <3>2, <3>3
      <3>6. Total(y) = Total(x) + y[Len(y)]
        BY <3>1, <3>2, <3>5, TotalLonger
      <3> QED BY <3>2, <3>4, <3>6 DEF x, y
    <2>9. Total(plus) = Total(outcome.lines) + Total(allocations)
      <3>1. /\ outcome.lines \in Seq(Int) /\ Len(outcome.lines) = k
            /\ allocations \in Seq(Int) /\ Len(allocations) = k
        BY <1>1, <1>2, ListedByIndex
      <3>2. plus \in Seq(Int) /\ Len(plus) = k /\ \A i \in 1..k : plus[i] = outcome.lines[i] + allocations[i]
        <4>1. plus \in [1..k -> Int]
          BY <1>1, <1>2, <1>5
        <4> QED BY <1>1, <1>5, <4>1, ListedByIndex
      <3>3. Sums(plus)[k] = Sums(outcome.lines)[k] + Sums(allocations)[k]
        <4>1. Len(allocations) = Len(outcome.lines) /\ Len(plus) = Len(outcome.lines)
              /\ k \in 0..Len(outcome.lines)
          BY <1>1, <3>1, <3>2
        <4>2. \A i \in 1..Len(outcome.lines) : plus[i] = outcome.lines[i] + allocations[i]
          BY <3>1, <3>2
        <4> QED BY <3>1, <3>2, <4>1, <4>2, SumsPlus
      <3> QED BY <3>1, <3>2, <3>3 DEF Total
    <2>10. \A i \in 1..k : outcome.lines[i] = Total([a \in DOMAIN old |-> old[a].allocations[i]])
      BY DEF Accounted, old, k
    <2>11. Total(outcome.lines) + outcome.order = Total([a \in DOMAIN old |-> old[a].amount])
      BY DEF Accounted, old
    <2>12. \A i \in 1..k : plus[i] = Total([a \in DOMAIN new |-> new[a].allocations[i]])
      <3> SUFFICES ASSUME NEW i \in 1..k
                   PROVE  plus[i] = Total([a \in DOMAIN new |-> new[a].allocations[i]])
        OBVIOUS
      <3>1. plus[i] = outcome.lines[i] + allocations[i]
        BY <1>5
      <3> QED BY <2>7, <2>10, <3>1, Zenon
    <2>13. Total(plus) + (outcome.order + order) = Total([a \in DOMAIN new |-> new[a].amount])
      <3>1. Total(outcome.lines) \in Nat
        <4>1. outcome.lines \in Seq(Nat)
          BY <1>1, ListedByIndex
        <4> QED BY <4>1, SumsNat
      <3>2. (Total(outcome.lines) + Total(allocations)) + (outcome.order + order)
               = (Total(outcome.lines) + outcome.order) + (Total(allocations) + order)
        BY <1>1, <1>3, <2>2, <3>1
      <3> QED BY <2>8, <2>9, <2>11, <3>2, Zenon DEF amount
    <2> QED BY <2>6, <2>12, <2>13, Zenon DEF Accounted, after, k
  <1> QED BY <1>6, <1>7

LEMMA OutcomesFacts ==
  ASSUME NEW codes \in Seq(Codes), NEW subtotals \in Seq(Nat), NEW cost \in Int
  PROVE  LET outcomes == Outcomes(codes, subtotals, cost)
         IN  /\ \A n \in 0..Len(codes) : outcomes[n] \in OutcomesOf(Len(subtotals))
             /\ outcomes[0] = [lines |-> Nothing(subtotals), order |-> 0, applied |-> <<>>]
             /\ \A n \in 1..Len(codes) :
                   outcomes[n] = IF Repeated(codes, n) THEN outcomes[n - 1]
                                 ELSE AfterCode(outcomes[n - 1], codes[n], subtotals, cost)
  <1> DEFINE S == OutcomesOf(Len(subtotals))
             len == Len(codes)
             base == [lines |-> Nothing(subtotals), order |-> 0, applied |-> <<>>]
             After(n, outcome) == IF Repeated(codes, n) THEN outcome
                                  ELSE AfterCode(outcome, codes[n], subtotals, cost)
             step == [n \in Nat |-> [outcome \in S |-> IF n \in 1..len THEN After(n, outcome)
                                                       ELSE outcome]]
             Solves(g) == g = [n \in 0..len |->
                                 IF n = 0
                                 THEN [lines |-> Nothing(subtotals), order |-> 0, applied |-> <<>>]
                                 ELSE IF Repeated(codes, n) THEN g[n - 1]
                                 ELSE AfterCode(g[n - 1], codes[n], subtotals, cost)]
             G == CHOOSE g : Solves(g)
  <1>1. len \in Nat /\ \A n \in 1..len : codes[n] \in Codes
    OBVIOUS
  <1>2. base \in S
    BY NothingFacts DEF OutcomesOf
  <1> HIDE DEF S, len, base
  <1>3. ASSUME NEW n \in 1..len, NEW outcome \in S PROVE After(n, outcome) \in S
    <2>1. AfterCode(outcome, codes[n], subtotals, cost) \in S
      <3>1. codes[n] \in Codes /\ outcome \in OutcomesOf(Len(subtotals))
        BY <1>1 DEF S
      <3> QED BY <3>1, AfterCodeFacts DEF S
    <2> QED BY <2>1
  <1>4. step \in [Nat -> [S -> S]]
    <2> HIDE DEF After
    <2> QED BY <1>3
  <1>5. ASSUME NEW n \in 1..len, NEW outcome \in S PROVE step[n][outcome] = After(n, outcome)
    <2> HIDE DEF After
    <2> QED BY <1>1
  <1>6. PICK h \in [0..len -> S] :
           h = [n \in 0..len |-> IF n = 0 THEN base ELSE step[n][h[n - 1]]]
    <2> HIDE DEF step
    <2>1. PICK h \in [0..len -> S] : IsRecursion(h, len, base, step)
      BY <1>1, <1>2, <1>4, PrefixRecursion, Zenon
    <2> QED BY <2>1 DEF IsRecursion
  <1>7. Solves(h)
    <2>1. ASSUME NEW n \in 0..len, n # 0
          PROVE  step[n][h[n - 1]] = After(n, h[n - 1])
      <3>1. n \in 1..len /\ n - 1 \in 0..len
        BY <1>1, <2>1
      <3> HIDE DEF step, After
      <3> QED BY <3>1, <1>5, <1>6
    <2> HIDE DEF step
    <2> QED BY <1>6, <2>1 DEF base
  <1>8. Solves(G)
    <2> HIDE DEF Solves
    <2> QED BY <1>7
  <1> HIDE DEF G
  <1>9. /\ G[0] = base
        /\ \A n \in 1..len : G[n] = After(n, G[n - 1])
    <2>1. \A n \in 0..len : G[n] = IF n = 0 THEN base ELSE After(n, G[n - 1])
      <3> HIDE DEF step
      <3> QED BY <1>8 DEF base
    <2>2. 0 \in 0..len /\ \A n \in 1..len : n \in 0..len /\ n # 0
      BY <1>1
    <2> HIDE DEF step, After
    <2> QED BY <2>1, <2>2
  <1>10. Outcomes(codes, subtotals, cost) = G
    BY DEF Outcomes, G, len
  <1> HIDE DEF Solves, step
  <1>11. \A n \in 0..len : G[n] \in S
    <2> DEFINE T == {n \in 0..len : G[n] \in S}
    <2>1. 0 \in T
      <3> HIDE DEF After
      <3> QED BY <1>1, <1>2, <1>9
    <2>2. \A n \in 0..(len - 1) : n \in T => n + 1 \in T
      <3> SUFFICES ASSUME NEW n \in 0..(len - 1), G[n] \in S PROVE G[n + 1] \in S
        BY <1>1
      <3>1. n + 1 \in 1..len /\ (n + 1) - 1 = n
        BY <1>1
      <3> HIDE DEF After
      <3> QED BY <1>3, <1>9, <3>1
    <2>3. 0..len \subseteq T
      <3> HIDE DEF T
      <3> QED BY <1>1, <2>1, <2>2, InductionTo
    <2> QED BY <2>3
  <1> QED BY <1>9, <1>10, <1>11 DEF S, len, base

(* The codes' discounts are accounted for, whatever the codes.             *)
LEMMA LegacyAccounted ==
  ASSUME NEW codes \in Seq(Codes), NEW subtotals \in Seq(Nat), NEW cost \in Int
  PROVE  /\ LegacyDiscounts(codes, subtotals, cost) \in OutcomesOf(Len(subtotals))
         /\ Accounted(LegacyDiscounts(codes, subtotals, cost), Len(subtotals))
  <1> DEFINE k == Len(subtotals)
             len == Len(codes)
             G == Outcomes(codes, subtotals, cost)
             T == {n \in 0..len : Accounted(G[n], k)}
  <1>1. len \in Nat /\ k \in Nat /\ \A n \in 1..len : codes[n] \in Codes
    OBVIOUS
  <1>2. /\ \A n \in 0..len : G[n] \in OutcomesOf(k)
        /\ G[0] = [lines |-> Nothing(subtotals), order |-> 0, applied |-> <<>>]
        /\ \A n \in 1..len :
              G[n] = IF Repeated(codes, n) THEN G[n - 1]
                     ELSE AfterCode(G[n - 1], codes[n], subtotals, cost)
    <2> HIDE DEF G, k, len
    <2> QED BY OutcomesFacts DEF G, k, len
  <1>3. Accounted(G[0], k)
    <2>1. /\ G[0].lines = Nothing(subtotals) /\ G[0].order = 0 /\ G[0].applied = <<>>
      <3> HIDE DEF G
      <3> QED BY <1>2
    <2>2. \A i \in 1..k : Nothing(subtotals)[i] = 0
      BY NothingFacts
    <2>3. Total(Nothing(subtotals)) = 0
      BY NothingFacts
    <2>4. \A i \in 1..k : [a \in DOMAIN G[0].applied |-> G[0].applied[a].allocations[i]] = <<>>
      <3> HIDE DEF G
      <3> QED BY <2>1
    <2>5. [a \in DOMAIN G[0].applied |-> G[0].applied[a].amount] = <<>>
      <3> HIDE DEF G
      <3> QED BY <2>1
    <2> HIDE DEF G, k
    <2>6. \A i \in 1..k : G[0].lines[i]
                            = Total([a \in DOMAIN G[0].applied |-> G[0].applied[a].allocations[i]])
      BY <2>1, <2>2, <2>4, TotalOfNone, Zenon
    <2>7. Total(G[0].lines) + G[0].order = 0
      BY <2>1, <2>3
    <2> QED BY <2>5, <2>6, <2>7, TotalOfNone, Zenon DEF Accounted
  <1> HIDE DEF G
  <1>4. 0 \in T
    <2> HIDE DEF k, len
    <2> QED BY <1>1, <1>3
  <1>5. \A n \in 0..(len - 1) : n \in T => n + 1 \in T
    <2> SUFFICES ASSUME NEW n \in 0..(len - 1), Accounted(G[n], k) PROVE Accounted(G[n + 1], k)
      BY <1>1
    <2>1. n + 1 \in 1..len /\ (n + 1) - 1 = n /\ n \in 0..len
      BY <1>1
    <2>2. G[n] \in OutcomesOf(k) /\ codes[n + 1] \in Codes
      BY <1>1, <1>2, <2>1
    <2>3. G[n + 1] = G[n] \/ G[n + 1] = AfterCode(G[n], codes[n + 1], subtotals, cost)
      <3> HIDE DEF len
      <3> QED BY <1>2, <2>1
    <2>4. Accounted(AfterCode(G[n], codes[n + 1], subtotals, cost), k)
      BY <2>2, AccountedAfterCode
    <2> QED BY <2>3, <2>4
  <1>6. 0..len \subseteq T
    <2> HIDE DEF T, len
    <2> QED BY <1>1, <1>4, <1>5, InductionTo
  <1>7. len \in T
    <2> HIDE DEF T, len
    <2> QED BY <1>1, <1>6
  <1> QED BY <1>2, <1>7 DEF LegacyDiscounts, G

-----------------------------------------------------------------------------
(* What the loop makes of the codes, without the loop.                     *)

Seen(codes, n, code) == \E m \in 1..n : codes[m] = code

(* SAVE5 came when SAVE10 had not. *)
FiveFirst(codes, n) == \E i \in 1..n : codes[i] = "SAVE5" /\ ~Seen(codes, i, "SAVE10")

LEMMA SeenFacts ==
  ASSUME NEW codes, NEW n \in Nat
  PROVE  /\ \A code : Seen(codes, n + 1, code) <=> Seen(codes, n, code) \/ codes[n + 1] = code
         /\ Repeated(codes, n + 1) <=> Seen(codes, n, codes[n + 1])
         /\ FiveFirst(codes, n + 1)
               <=> FiveFirst(codes, n) \/ (codes[n + 1] = "SAVE5" /\ ~Seen(codes, n, "SAVE10"))
         /\ FiveFirst(codes, n) => Seen(codes, n, "SAVE5")
         /\ Seen(codes, n, "SAVE5") /\ ~Seen(codes, n, "SAVE10") => FiveFirst(codes, n)
  <1>1. 1..(n + 1) = (1..n) \cup {n + 1} /\ (n + 1) - 1 = n
    OBVIOUS
  <1>2. \A code : Seen(codes, n + 1, code) <=> Seen(codes, n, code) \/ codes[n + 1] = code
    BY <1>1 DEF Seen
  <1>3. Repeated(codes, n + 1) <=> Seen(codes, n, codes[n + 1])
    BY <1>1 DEF Seen, Repeated
  <1>4. FiveFirst(codes, n + 1)
           <=> FiveFirst(codes, n) \/ (codes[n + 1] = "SAVE5" /\ ~Seen(codes, n, "SAVE10"))
    <2>1. FiveFirst(codes, n + 1)
             <=> FiveFirst(codes, n)
                 \/ (codes[n + 1] = "SAVE5" /\ ~Seen(codes, n + 1, "SAVE10"))
      BY <1>1 DEF FiveFirst
    <2>2. codes[n + 1] = "SAVE5"
             => (Seen(codes, n + 1, "SAVE10") <=> Seen(codes, n, "SAVE10"))
      BY <1>2
    <2> QED BY <2>1, <2>2
  <1>5. FiveFirst(codes, n) => Seen(codes, n, "SAVE5")
    BY DEF FiveFirst, Seen
  <1>6. Seen(codes, n, "SAVE5") /\ ~Seen(codes, n, "SAVE10") => FiveFirst(codes, n)
    BY DEF FiveFirst, Seen
  <1> QED BY <1>2, <1>3, <1>4, <1>5, <1>6

LEMMA PlusFacts ==
  ASSUME NEW k \in Nat, NEW a \in [1..k -> Nat], NEW b \in [1..k -> Nat]
  PROVE  /\ Plus(a, b) = [i \in 1..k |-> a[i] + b[i]]
         /\ Plus(a, b) \in [1..k -> Nat]
         /\ Plus(a, b) = Plus(b, a)
  <1> DEFINE c == Plus(a, b)
  <1>1. DOMAIN a = 1..k /\ DOMAIN b = 1..k
    OBVIOUS
  <1>2. c = [i \in 1..k |-> a[i] + b[i]]
    BY <1>1 DEF Plus
  <1>3. c \in [1..k -> Nat]
    BY <1>2
  <1>4. c = Plus(b, a)
    <2>1. Plus(b, a) = [i \in 1..k |-> b[i] + a[i]]
      BY <1>1 DEF Plus
    <2>2. \A i \in 1..k : a[i] + b[i] = b[i] + a[i]
      OBVIOUS
    <2> HIDE DEF c
    <2> QED BY <1>2, <2>1, <2>2
  <1> QED BY <1>2, <1>3, <1>4 DEF c

LEMMA PlusTotal ==
  ASSUME NEW k \in Nat, NEW a \in [1..k -> Nat], NEW b \in [1..k -> Nat]
  PROVE  Total(Plus(a, b)) = Total(a) + Total(b)
  <1> DEFINE c == Plus(a, b)
  <1>1. c = [i \in 1..k |-> a[i] + b[i]] /\ c \in [1..k -> Nat]
    BY PlusFacts
  <1> HIDE DEF c
  <1>2. Total(c) = Total(a) + Total(b)
    <2>1. /\ a \in Seq(Int) /\ b \in Seq(Int) /\ c \in Seq(Int)
          /\ Len(a) = k /\ Len(b) = k /\ Len(c) = k
      <3>1. a \in [1..k -> Int] /\ b \in [1..k -> Int] /\ c \in [1..k -> Int]
        BY <1>1
      <3> QED BY <3>1, ListedByIndex
    <2>2. Len(b) = Len(a) /\ Len(c) = Len(a) /\ k \in 0..Len(a)
          /\ \A i \in 1..Len(a) : c[i] = a[i] + b[i]
      BY <1>1, <2>1
    <2>3. Sums(c)[k] = Sums(a)[k] + Sums(b)[k]
      BY <2>1, <2>2, SumsPlus
    <2> QED BY <2>1, <2>3 DEF Total
  <1> QED BY <1>2 DEF c

LEMMA PlusNone ==
  ASSUME NEW k \in Nat, NEW a \in [1..k -> Nat], NEW b \in [1..k -> Nat],
         \A i \in 1..k : b[i] = 0
  PROVE  Plus(a, b) = a
  <1>1. Plus(a, b) = [i \in 1..k |-> a[i] + b[i]]
    BY PlusFacts
  <1>2. \A i \in 1..k : a[i] + b[i] = a[i]
    OBVIOUS
  <1> QED BY <1>1, <1>2

(* What SAVE10 and SAVE5 took: SAVE10 a tenth of the full price, SAVE5 its *)
(* amount off what SAVE10 left if it came before, off the full price else. *)
TenthTaken(codes, n, subtotals) ==
    IF Seen(codes, n, "SAVE10") THEN TenthOf(subtotals) ELSE Nothing(subtotals)

FiveTaken(codes, n, subtotals) ==
    IF ~Seen(codes, n, "SAVE5") THEN Nothing(subtotals)
    ELSE FiveOff(subtotals, IF FiveFirst(codes, n) THEN Nothing(subtotals) ELSE TenthOf(subtotals))

(* That is all that was taken, and SHIPFREE takes the cost of fulfillment. *)
IsTaken(outcome, codes, n, subtotals, cost) ==
    /\ outcome.lines = Plus(TenthTaken(codes, n, subtotals), FiveTaken(codes, n, subtotals))
    /\ outcome.order = IF Seen(codes, n, "SHIPFREE") THEN AtLeastZero(cost) ELSE 0

LEMMA TakenType ==
  ASSUME NEW codes, NEW n \in Nat, NEW subtotals \in Seq(Nat)
  PROVE  /\ TenthTaken(codes, n, subtotals) \in [1..Len(subtotals) -> Nat]
         /\ FiveTaken(codes, n, subtotals) \in [1..Len(subtotals) -> Nat]
  <1>1. /\ Nothing(subtotals) \in [1..Len(subtotals) -> Nat]
        /\ TenthOf(subtotals) \in [1..Len(subtotals) -> Nat]
    BY NothingFacts, TenthFacts
  <1>2. /\ FiveOff(subtotals, Nothing(subtotals)) \in [1..Len(subtotals) -> Nat]
        /\ FiveOff(subtotals, TenthOf(subtotals)) \in [1..Len(subtotals) -> Nat]
    BY <1>1, FiveOffFacts
  <1> QED BY <1>1, <1>2 DEF TenthTaken, FiveTaken

(* One more code, one case for what it is.                                 *)
LEMMA TakenAfterCode ==
  ASSUME NEW codes \in Seq(Codes), NEW n \in 0..(Len(codes) - 1), NEW subtotals \in Seq(Nat),
         NEW cost \in Int, NEW outcome \in OutcomesOf(Len(subtotals)),
         IsTaken(outcome, codes, n, subtotals, cost), NEW next,
         next = IF Repeated(codes, n + 1) THEN outcome
                ELSE AfterCode(outcome, codes[n + 1], subtotals, cost)
  PROVE  IsTaken(next, codes, n + 1, subtotals, cost)
  <1> DEFINE k == Len(subtotals)
             code == codes[n + 1]
             tenth == TenthTaken(codes, n, subtotals)
             five == FiveTaken(codes, n, subtotals)
  <1>1. n \in Nat /\ n + 1 \in Nat /\ k \in Nat /\ code \in Codes
    OBVIOUS
  <1>2. /\ \A c : Seen(codes, n + 1, c) <=> Seen(codes, n, c) \/ code = c
        /\ Repeated(codes, n + 1) <=> Seen(codes, n, code)
        /\ FiveFirst(codes, n + 1)
              <=> FiveFirst(codes, n) \/ (code = "SAVE5" /\ ~Seen(codes, n, "SAVE10"))
        /\ FiveFirst(codes, n) => Seen(codes, n, "SAVE5")
        /\ Seen(codes, n, "SAVE5") /\ ~Seen(codes, n, "SAVE10") => FiveFirst(codes, n)
    BY <1>1, SeenFacts
  <1>3. outcome.lines = Plus(tenth, five)
        /\ outcome.order = IF Seen(codes, n, "SHIPFREE") THEN AtLeastZero(cost) ELSE 0
    BY DEF IsTaken
  <1>4. tenth \in [1..k -> Nat] /\ five \in [1..k -> Nat]
    BY <1>1, TakenType
  <1>5. /\ Nothing(subtotals) \in [1..k -> Nat] /\ \A i \in 1..k : Nothing(subtotals)[i] = 0
        /\ TenthOf(subtotals) \in [1..k -> Nat]
    BY NothingFacts, TenthFacts
  <1>6. \A a \in [1..k -> Nat] : Plus(a, Nothing(subtotals)) = a /\ Plus(Nothing(subtotals), a) = a
    <2> SUFFICES ASSUME NEW a \in [1..k -> Nat]
                 PROVE  Plus(a, Nothing(subtotals)) = a /\ Plus(Nothing(subtotals), a) = a
      OBVIOUS
    <2> HIDE DEF k
    <2>1. Plus(a, Nothing(subtotals)) = Plus(Nothing(subtotals), a)
      BY <1>1, <1>5, PlusFacts
    <2>2. Plus(a, Nothing(subtotals)) = a
      BY <1>1, <1>5, PlusNone, Zenon
    <2> QED BY <2>1, <2>2
  <1>7. ~Repeated(codes, n + 1) =>
           /\ next.lines = Plus(outcome.lines, Allocations(code, subtotals, outcome.lines))
           /\ next.order = outcome.order + OffTheOrder(code, cost)
    BY <1>1, AfterCodeFacts
  <1>8. AtLeastZero(cost) \in Nat
    BY DEF AtLeastZero
  <1>9. code # "SAVE10" => TenthTaken(codes, n + 1, subtotals) = tenth
    BY <1>2 DEF TenthTaken
  <1>10. code # "SAVE5" => FiveTaken(codes, n + 1, subtotals) = five
    BY <1>2 DEF FiveTaken
  <1> HIDE DEF code, tenth, five, k
  <1>11. CASE Repeated(codes, n + 1)
    <2>1. next = outcome /\ Seen(codes, n, code)
      BY <1>2, <1>11
    <2>2. \A c : Seen(codes, n + 1, c) <=> Seen(codes, n, c)
      BY <1>2, <2>1
    <2>3. FiveFirst(codes, n + 1) <=> FiveFirst(codes, n)
      BY <1>2, <2>1
    <2>4. /\ TenthTaken(codes, n + 1, subtotals) = tenth
          /\ FiveTaken(codes, n + 1, subtotals) = five
      BY <2>2, <2>3 DEF TenthTaken, FiveTaken, tenth, five
    <2> QED BY <1>3, <2>1, <2>2, <2>4 DEF IsTaken
  <1>12. CASE ~Repeated(codes, n + 1) /\ code = "SAVE10"
    <2>1. ~Seen(codes, n, "SAVE10") /\ Seen(codes, n + 1, "SAVE10")
      BY <1>2, <1>12
    <2>2. tenth = Nothing(subtotals) /\ TenthTaken(codes, n + 1, subtotals) = TenthOf(subtotals)
      BY <2>1 DEF TenthTaken, tenth
    <2>3. FiveTaken(codes, n + 1, subtotals) = five
      BY <1>10, <1>12
    <2>4. outcome.lines = five
      BY <1>3, <1>4, <1>6, <2>2
    <2>5. next.lines = Plus(five, TenthOf(subtotals))
      BY <1>7, <1>12, <2>4 DEF Allocations
    <2>6. Plus(five, TenthOf(subtotals)) = Plus(TenthOf(subtotals), five)
      BY <1>1, <1>4, <1>5, PlusFacts
    <2>7. next.order = IF Seen(codes, n + 1, "SHIPFREE") THEN AtLeastZero(cost) ELSE 0
      BY <1>2, <1>3, <1>7, <1>8, <1>12 DEF OffTheOrder
    <2> QED BY <2>2, <2>3, <2>5, <2>6, <2>7 DEF IsTaken
  <1>13. CASE ~Repeated(codes, n + 1) /\ code = "SAVE5"
    <2>1. ~Seen(codes, n, "SAVE5") /\ Seen(codes, n + 1, "SAVE5")
      BY <1>2, <1>13
    <2>2. five = Nothing(subtotals)
      BY <2>1 DEF FiveTaken, five
    <2>3. TenthTaken(codes, n + 1, subtotals) = tenth
      BY <1>9, <1>13
    <2>4. outcome.lines = tenth
      BY <1>3, <1>4, <1>6, <2>2
    <2>5. next.lines = Plus(tenth, FiveOff(subtotals, tenth))
      BY <1>7, <1>13, <2>4 DEF Allocations
    <2>6. FiveFirst(codes, n + 1) <=> ~Seen(codes, n, "SAVE10")
      BY <1>2, <1>13, <2>1
    <2>7. FiveTaken(codes, n + 1, subtotals) = FiveOff(subtotals, tenth)
      BY <2>1, <2>6 DEF FiveTaken, TenthTaken, tenth
    <2>8. next.order = IF Seen(codes, n + 1, "SHIPFREE") THEN AtLeastZero(cost) ELSE 0
      BY <1>2, <1>3, <1>7, <1>8, <1>13 DEF OffTheOrder
    <2> QED BY <2>3, <2>5, <2>7, <2>8 DEF IsTaken
  <1>14. CASE ~Repeated(codes, n + 1) /\ code # "SAVE10" /\ code # "SAVE5"
    <2>1. Allocations(code, subtotals, outcome.lines) = Nothing(subtotals)
      BY <1>14 DEF Allocations
    <2>2. next.lines = outcome.lines
      <3>1. outcome.lines \in [1..k -> Nat]
        BY DEF OutcomesOf, k
      <3> QED BY <1>6, <1>7, <1>14, <2>1, <3>1
    <2>3. /\ TenthTaken(codes, n + 1, subtotals) = tenth
          /\ FiveTaken(codes, n + 1, subtotals) = five
      BY <1>9, <1>10, <1>14
    <2>4. next.order = IF Seen(codes, n + 1, "SHIPFREE") THEN AtLeastZero(cost) ELSE 0
      <3>1. CASE code = "SHIPFREE"
        <4>1. ~Seen(codes, n, "SHIPFREE") /\ Seen(codes, n + 1, "SHIPFREE")
          BY <1>2, <1>14, <3>1
        <4> QED BY <1>3, <1>7, <1>8, <1>14, <3>1, <4>1 DEF OffTheOrder
      <3>2. CASE code # "SHIPFREE"
        <4>1. Seen(codes, n + 1, "SHIPFREE") <=> Seen(codes, n, "SHIPFREE")
          BY <1>2, <3>2
        <4> QED BY <1>3, <1>7, <1>8, <1>14, <3>2, <4>1 DEF OffTheOrder
      <3> QED BY <3>1, <3>2
    <2> QED BY <1>3, <2>2, <2>3, <2>4 DEF IsTaken
  <1> QED BY <1>11, <1>12, <1>13, <1>14

LEMMA LegacyTaken ==
  ASSUME NEW codes \in Seq(Codes), NEW subtotals \in Seq(Nat), NEW cost \in Int
  PROVE  IsTaken(LegacyDiscounts(codes, subtotals, cost), codes, Len(codes), subtotals, cost)
  <1> DEFINE len == Len(codes)
             G == Outcomes(codes, subtotals, cost)
             Taken(n) == IsTaken(G[n], codes, n, subtotals, cost)
             T == {n \in 0..len : Taken(n)}
  <1>1. len \in Nat
    OBVIOUS
  <1>2. /\ \A n \in 0..len : G[n] \in OutcomesOf(Len(subtotals))
        /\ G[0] = [lines |-> Nothing(subtotals), order |-> 0, applied |-> <<>>]
        /\ \A n \in 1..len :
              G[n] = IF Repeated(codes, n) THEN G[n - 1]
                     ELSE AfterCode(G[n - 1], codes[n], subtotals, cost)
    <2> HIDE DEF G, len
    <2> QED BY OutcomesFacts DEF G, len
  <1>3. Taken(0)
    <2>1. \A code : ~Seen(codes, 0, code)
      BY DEF Seen
    <2>2. Plus(Nothing(subtotals), Nothing(subtotals)) = Nothing(subtotals)
      <3>1. /\ Nothing(subtotals) \in [1..Len(subtotals) -> Nat] /\ Len(subtotals) \in Nat
            /\ \A i \in 1..Len(subtotals) : Nothing(subtotals)[i] = 0
        BY NothingFacts
      <3> QED BY <3>1, PlusNone
    <2>3. G[0].lines = Nothing(subtotals) /\ G[0].order = 0
      <3> HIDE DEF G
      <3> QED BY <1>2
    <2> HIDE DEF G
    <2> QED BY <2>1, <2>2, <2>3 DEF IsTaken, TenthTaken, FiveTaken
  <1> HIDE DEF G
  <1>4. ASSUME NEW n \in 0..(len - 1), Taken(n)
        PROVE  Taken(n + 1)
    <2>1. n + 1 \in 1..len /\ (n + 1) - 1 = n /\ n \in 0..len
      BY <1>1
    <2>2. G[n + 1] = IF Repeated(codes, n + 1) THEN G[n]
                     ELSE AfterCode(G[n], codes[n + 1], subtotals, cost)
      <3> HIDE DEF len
      <3> QED BY <1>2, <2>1
    <2>3. G[n] \in OutcomesOf(Len(subtotals))
      BY <1>2, <2>1
    <2> QED BY <1>4, <2>2, <2>3, TakenAfterCode
  <1> HIDE DEF Taken
  <1>5. 0..len \subseteq T
    <2>1. 0 \in T
      BY <1>1, <1>3
    <2>2. \A n \in 0..(len - 1) : n \in T => n + 1 \in T
      BY <1>1, <1>4
    <2> HIDE DEF T, len
    <2> QED BY <1>1, <2>1, <2>2, InductionTo
  <1>6. Taken(len)
    BY <1>1, <1>5
  <1> QED BY <1>6 DEF Taken, LegacyDiscounts, G

(* The discounts by the description of the codes: what is taken off the    *)
(* lines, off the order, and that no line gives more than it costs.        *)
LEMMA LegacyPrice ==
  ASSUME NEW codes \in Seq(Codes), NEW subtotals \in Seq(Nat), NEW cost \in Int
  PROVE  LET taken == LegacyDiscounts(codes, subtotals, cost)
         IN  /\ Total(taken.lines)
                   = Total(TenthWorth(codes, subtotals)) + FiveWorth(codes, subtotals)
             /\ taken.order = IF Contains(codes, "SHIPFREE") THEN AtLeastZero(cost) ELSE 0
             /\ TenthComesLate(codes)
                   \/ \A i \in 1..Len(subtotals) : taken.lines[i] \in 0..subtotals[i]
  <1> DEFINE k == Len(subtotals)
             len == Len(codes)
             taken == LegacyDiscounts(codes, subtotals, cost)
             none == Nothing(subtotals)
             tenth == TenthOf(subtotals)
             tenthTaken == TenthTaken(codes, len, subtotals)
             fiveTaken == FiveTaken(codes, len, subtotals)
             before == IF TenthComesLate(codes) THEN none ELSE TenthWorth(codes, subtotals)
  <1>1. /\ k \in Nat /\ len \in Nat /\ DOMAIN codes = 1..len /\ DOMAIN subtotals = 1..k
        /\ \A i \in 1..k : subtotals[i] \in Nat
    OBVIOUS
  <1>2. /\ taken.lines = Plus(tenthTaken, fiveTaken)
        /\ taken.order = IF Seen(codes, len, "SHIPFREE") THEN AtLeastZero(cost) ELSE 0
    BY LegacyTaken DEF IsTaken
  <1>3. tenthTaken \in [1..k -> Nat] /\ fiveTaken \in [1..k -> Nat]
    BY <1>1, TakenType
  <1>4. /\ none \in [1..k -> Nat] /\ \A i \in 1..k : none[i] = 0
        /\ Total(none) = 0
    BY NothingFacts
  <1>5. /\ tenth \in [1..k -> Nat]
        /\ \A i \in 1..k : tenth[i] = subtotals[i] \div 10 /\ tenth[i] <= subtotals[i]
    BY TenthFacts
  <1>6. \A code : Contains(codes, code) <=> Seen(codes, len, code)
    BY DEF Contains, Seen
  <1>7. TenthComesLate(codes) <=> FiveFirst(codes, len) /\ Seen(codes, len, "SAVE10")
    <2> HIDE DEF len
    <2>1. TenthComesLate(codes) => FiveFirst(codes, len) /\ Seen(codes, len, "SAVE10")
      BY <1>1 DEF TenthComesLate, FiveFirst, Seen
    <2>2. ASSUME FiveFirst(codes, len), Seen(codes, len, "SAVE10")
          PROVE  TenthComesLate(codes)
      <3>1. PICK i \in 1..len : codes[i] = "SAVE5" /\ \A m \in 1..i : codes[m] # "SAVE10"
        BY <2>2 DEF FiveFirst, Seen
      <3>2. PICK j \in 1..len : codes[j] = "SAVE10"
        BY <2>2 DEF Seen
      <3>3. i < j
        BY <1>1, <3>1, <3>2
      <3> QED BY <1>1, <3>1, <3>2, <3>3 DEF TenthComesLate
    <2> QED BY <2>1, <2>2
  <1>8. Seen(codes, len, "SAVE5") /\ ~FiveFirst(codes, len) => Seen(codes, len, "SAVE10")
    BY <1>1, SeenFacts
  <1> HIDE DEF len, none, tenth
  <1>9. TenthWorth(codes, subtotals) = tenthTaken
    <2>1. tenth = [i \in 1..k |-> subtotals[i] \div 10]
      BY <1>5
    <2> QED BY <1>1, <1>6, <2>1 DEF TenthWorth, TenthTaken, none, tenth
  <1>10. Seen(codes, len, "SAVE5") =>
            before = IF FiveFirst(codes, len) THEN none ELSE tenth
    <2> SUFFICES ASSUME Seen(codes, len, "SAVE5")
                 PROVE  before = IF FiveFirst(codes, len) THEN none ELSE tenth
      OBVIOUS
    <2>1. CASE FiveFirst(codes, len)
      BY <1>7, <1>9, <2>1 DEF TenthTaken, none
    <2>2. CASE ~FiveFirst(codes, len)
      BY <1>7, <1>8, <1>9, <2>2 DEF TenthTaken, tenth
    <2> QED BY <2>1, <2>2
  <1>11. before \in [1..k -> Nat] /\ \A i \in 1..k : before[i] <= subtotals[i]
    <2>1. before \in {none, tenth}
      BY <1>9 DEF TenthTaken, none, tenth
    <2> HIDE DEF before
    <2>2. CASE before = none
      BY <1>1, <1>4, <2>2
    <2>3. CASE before = tenth
      BY <1>5, <2>3
    <2> QED BY <2>1, <2>2, <2>3
  <1>12. Seen(codes, len, "SAVE5") => fiveTaken = FiveOff(subtotals, before)
    BY <1>10 DEF FiveTaken, none, tenth
  <1>13. /\ \A i \in 1..k : FiveOff(subtotals, before)[i] \in 0..AtLeastZero(subtotals[i] - before[i])
         /\ Total(FiveOff(subtotals, before)) = Lesser(FiveDollars, Total(subtotals) - Total(before))
    <2> HIDE DEF before
    <2>1. Total(Available(subtotals, before)) = Total(subtotals) - Total(before)
      BY <1>11, AvailableFacts
    <2>2. /\ \A i \in 1..k :
                FiveOff(subtotals, before)[i] \in 0..AtLeastZero(subtotals[i] - before[i])
          /\ Total(FiveOff(subtotals, before))
                = Lesser(FiveDollars, Total(Available(subtotals, before)))
      BY <1>11, FiveOffFacts
    <2> QED BY <2>1, <2>2
  <1>14. FiveWorth(codes, subtotals)
            = IF Seen(codes, len, "SAVE5")
              THEN Lesser(FiveDollars, Total(subtotals) - Total(before)) ELSE 0
    BY <1>6 DEF FiveWorth, none
  <1> HIDE DEF before
  <1>15. Total(fiveTaken) = FiveWorth(codes, subtotals)
    <2>1. CASE Seen(codes, len, "SAVE5")
      BY <1>12, <1>13, <1>14, <2>1
    <2>2. CASE ~Seen(codes, len, "SAVE5")
      BY <1>4, <1>14, <2>2 DEF FiveTaken, none
    <2> QED BY <2>1, <2>2
  <1>16. Total(taken.lines) = Total(TenthWorth(codes, subtotals)) + FiveWorth(codes, subtotals)
    <2>1. Total(Plus(tenthTaken, fiveTaken)) = Total(tenthTaken) + Total(fiveTaken)
      <3>1. k \in Nat
        BY <1>1
      <3> HIDE DEF tenthTaken, fiveTaken, k
      <3> QED BY <1>3, <3>1, PlusTotal
    <2> QED BY <1>2, <1>9, <1>15, <2>1
  <1>17. ASSUME ~TenthComesLate(codes), NEW i \in 1..k
         PROVE  taken.lines[i] \in 0..subtotals[i]
    <2>1. taken.lines[i] = tenthTaken[i] + fiveTaken[i]
      <3>1. Plus(tenthTaken, fiveTaken) = [n \in 1..k |-> tenthTaken[n] + fiveTaken[n]]
        <4>1. \A a, b \in [1..k -> Nat] : Plus(a, b) = [n \in 1..k |-> a[n] + b[n]]
          BY <1>1 DEF Plus
        <4> HIDE DEF tenthTaken, fiveTaken, k
        <4> QED BY <1>3, <4>1, Zenon
      <3> HIDE DEF tenthTaken, fiveTaken, k, taken
      <3> QED BY <1>2, <3>1
    <2>2. CASE Seen(codes, len, "SAVE5")
      <3>1. fiveTaken[i] \in 0..AtLeastZero(subtotals[i] - before[i])
        BY <1>12, <1>13, <2>2
      <3>2. before = tenthTaken
        BY <1>9, <1>17 DEF before
      <3> HIDE DEF tenthTaken, fiveTaken, taken
      <3>3. before[i] \in Nat /\ before[i] <= subtotals[i] /\ subtotals[i] \in Nat
        BY <1>1, <1>11
      <3> QED BY <2>1, <3>1, <3>2, <3>3 DEF AtLeastZero
    <2>3. CASE ~Seen(codes, len, "SAVE5")
      <3>1. fiveTaken[i] = 0
        BY <1>4, <2>3 DEF FiveTaken, none
      <3>2. tenthTaken[i] \in 0..subtotals[i]
        <4>1. tenthTaken \in {none, tenth}
          BY DEF TenthTaken, none, tenth
        <4>2. none[i] \in 0..subtotals[i]
          BY <1>1, <1>4
        <4>3. tenth[i] \in 0..subtotals[i]
          <5>1. tenth[i] \in Nat /\ tenth[i] <= subtotals[i] /\ subtotals[i] \in Nat
            BY <1>1, <1>5
          <5> QED BY <5>1
        <4> HIDE DEF tenthTaken
        <4> QED BY <4>1, <4>2, <4>3
      <3> HIDE DEF tenthTaken, fiveTaken, taken
      <3> QED BY <1>1, <2>1, <3>1, <3>2
    <2> QED BY <2>2, <2>3
  <1> QED BY <1>2, <1>6, <1>16, <1>17

-----------------------------------------------------------------------------
(* Fulfillment. *)

Built == [options : Seq(Option), selected : Names \cup {Absent}]

LEMMA OptionsFacts ==
  ASSUME NEW options \in Seq(Option), options # <<>>
  PROVE  Len(options) \in Nat \ {0} /\ options[1] \in Option /\ options[1].id \in Names
  <1>1. Len(options) \in Nat \ {0} /\ 1 \in 1..Len(options)
    OBVIOUS
  <1>2. options[1] \in Option
    <2> HIDE DEF Option
    <2> QED BY <1>1
  <1> QED BY <1>1, <1>2 DEF Option

LEMMA OfferedFacts ==
  ASSUME NEW rates \in Seq(Option)
  PROVE  Offered(rates) \in Seq(Option) /\ Offered(rates) # <<>>
  <1> DEFINE standard == [id |-> "ship_standard", cost |-> 500]
             express == [id |-> "ship_express", cost |-> 1500]
  <1>1. standard \in Option /\ express \in Option
    BY InputAssumption DEF Option
  <1>2. DefaultOptions = <<standard, express>>
    BY DEF DefaultOptions
  <1> HIDE DEF standard, express
  <1>3. DefaultOptions \in Seq(Option) /\ DefaultOptions # <<>>
    BY <1>1, <1>2
  <1> QED BY <1>3 DEF Offered

(* A group that was settled is settled.                                    *)
LEMMA SettledFacts ==
  ASSUME NEW group \in Group, NEW rates \in Seq(Option), NEW more \in Seq(Option)
  PROVE  /\ Settled(group, rates) \in Built
         /\ Settled(Settled(group, rates), more) = Settled(group, rates)
         /\ group.selected \in {Absent, Settled(group, rates).selected}
  <1> DEFINE options == Given(group.options, Offered(rates))
             selected == IF group.selected # Absent \/ options = <<>> THEN group.selected
                         ELSE options[1].id
             settled == Settled(group, rates)
  <1>1. group.options \in Seq(Option) \cup {Absent} /\ group.selected \in Names \cup {Absent}
    BY DEF Group
  <1>2. options \in Seq(Option) /\ options # Absent
    <2>1. options \in Seq(Option)
      BY <1>1, OfferedFacts DEF Given
    <2> HIDE DEF options
    <2> QED BY <2>1, AbsenceAssumption
  <1>3. settled = [options |-> options, selected |-> selected]
    BY DEF Settled
  <1> HIDE DEF options, settled
  <1>4. options # <<>> => options[1].id \in Names /\ options[1].id # Absent
    BY <1>2, OptionsFacts, AbsenceAssumption
  <1>5. selected \in Names \cup {Absent} /\ (options # <<>> => selected # Absent)
    BY <1>1, <1>4
  <1> HIDE DEF selected
  <1>6. settled \in Built
    BY <1>2, <1>3, <1>5 DEF Built
  <1>7. Given(settled.options, Offered(more)) = options
    BY <1>2, <1>3 DEF Given
  <1>8. Settled(settled, more) = settled
    BY <1>3, <1>5, <1>7 DEF Settled
  <1>9. group.selected \in {Absent, settled.selected}
    BY <1>3 DEF selected
  <1> QED BY <1>6, <1>8, <1>9 DEF settled

LEMMA BuiltFacts ==
  ASSUME NEW groups \in Seq(Group) \cup {Absent}, NEW rates \in Seq(Option), NEW more \in Seq(Option)
  PROVE  /\ BuiltFulfillment(groups, rates) \in Seq(Built) \cup {Absent}
         /\ BuiltFulfillment(BuiltFulfillment(groups, rates), more) = BuiltFulfillment(groups, rates)
         /\ KeepsSelection(BuiltFulfillment(groups, rates), groups)
  <1> DEFINE built == BuiltFulfillment(groups, rates)
  <1>1. CASE groups = Absent
    BY <1>1 DEF BuiltFulfillment, KeepsSelection
  <1>2. CASE groups # Absent
    <2> DEFINE n == Len(groups)
    <2>1. n \in Nat /\ DOMAIN groups = 1..n /\ \A g \in 1..n : groups[g] \in Group
      <3> HIDE DEF Group
      <3> QED BY <1>2
    <2>2. built = [g \in 1..n |-> Settled(groups[g], rates)]
      BY <1>2, <2>1 DEF BuiltFulfillment
    <2> HIDE DEF built, n
    <2>3. \A g \in 1..n : /\ built[g] \in Built /\ Settled(built[g], more) = built[g]
                          /\ groups[g].selected \in {Absent, built[g].selected}
      <3> HIDE DEF Group, Built
      <3> SUFFICES ASSUME NEW g \in 1..n
                   PROVE  /\ built[g] \in Built /\ Settled(built[g], more) = built[g]
                          /\ groups[g].selected \in {Absent, built[g].selected}
        OBVIOUS
      <3>1. groups[g] \in Group /\ built[g] = Settled(groups[g], rates)
        BY <2>1, <2>2
      <3> QED BY <3>1, SettledFacts
    <2>4. built \in Seq(Built) /\ DOMAIN built = 1..n
      <3>1. built \in [1..n -> Built]
        <4> HIDE DEF Built
        <4> QED BY <2>2, <2>3
      <3> QED BY <2>1, <3>1, ListedByIndex
    <2>5. built # Absent
      <3>1. \A g \in 1..n : built[g] \in Group
        BY <2>3 DEF Built, Group
      <3>2. built \in [1..n -> Group]
        BY <2>2, <3>1
      <3>3. built \in Seq(Group)
        BY <2>1, <3>2, ListedByIndex
      <3> QED BY <3>3, AbsenceAssumption
    <2>6. BuiltFulfillment(built, more) = built
      <3>1. BuiltFulfillment(built, more) = [g \in 1..n |-> Settled(built[g], more)]
        BY <2>4, <2>5 DEF BuiltFulfillment
      <3> QED BY <2>2, <2>3, <3>1
    <2>7. KeepsSelection(built, groups)
      BY <1>2, <2>1, <2>3, <2>4 DEF KeepsSelection
    <2> QED BY <2>4, <2>6, <2>7 DEF built
  <1> QED BY <1>1, <1>2

LEMMA GroupCostType ==
  ASSUME NEW group \in Built
  PROVE  GroupCost(group) \in Int
  <1> DEFINE options == group.options
             len == Len(options)
             I == {n \in 1..len : options[n].id = group.selected}
             chosen == IF I # {} THEN Min(I) ELSE 0
  <1>1. options \in Seq(Option)
    BY DEF Built
  <1>2. len \in Nat /\ \A n \in 1..len : options[n] \in Option
    <2> HIDE DEF Option, options
    <2> QED BY <1>1
  <1>3. GroupCost(group) = IF options = <<>> THEN 0
                           ELSE options[IF chosen = 0 THEN 1 ELSE chosen].cost
    BY DEF GroupCost, SelectInSeq
  <1> HIDE DEF options, len
  <1>4. I # {} => Min(I) \in I
    <2> SUFFICES ASSUME I # {} PROVE Min(I) \in I
      OBVIOUS
    <2>1. I \in SUBSET Nat
      BY <1>2
    <2> HIDE DEF I
    <2>2. \E n \in I : \A m \in I : n <= m
      BY <2>1, LeastNat
    <2> QED BY <2>2 DEF Min
  <1>5. chosen = 0 \/ chosen \in 1..len
    BY <1>4
  <1> HIDE DEF chosen
  <1>6. CASE options = <<>>
    BY <1>3, <1>6
  <1>7. CASE options # <<>>
    <2>1. 1 \in 1..len
      <3> HIDE DEF Option
      <3> QED BY <1>1, <1>7 DEF len
    <2>2. (IF chosen = 0 THEN 1 ELSE chosen) \in 1..len
      BY <1>5, <2>1
    <2>3. \A n \in 1..len : options[n].cost \in Int
      BY <1>2 DEF Option
    <2> QED BY <1>3, <1>7, <2>2, <2>3
  <1> QED BY <1>6, <1>7

LEMMA CostType ==
  ASSUME NEW fulfillment \in Seq(Built) \cup {Absent}
  PROVE  FulfillmentCost(fulfillment) \in Int
  <1>1. CASE fulfillment = Absent
    BY <1>1 DEF FulfillmentCost
  <1>2. CASE fulfillment # Absent
    <2> DEFINE n == Len(fulfillment)
               costs == [g \in DOMAIN fulfillment |-> GroupCost(fulfillment[g])]
    <2>1. n \in Nat /\ DOMAIN fulfillment = 1..n /\ \A g \in 1..n : fulfillment[g] \in Built
      <3> HIDE DEF Built
      <3> QED BY <1>2
    <2> HIDE DEF n
    <2>2. \A g \in 1..n : GroupCost(fulfillment[g]) \in Int
      <3> HIDE DEF Built
      <3> QED BY <2>1, GroupCostType
    <2>3. costs \in [1..n -> Int]
      BY <2>1, <2>2
    <2>4. FulfillmentCost(fulfillment) = Total(costs)
      BY <1>2 DEF FulfillmentCost
    <2> HIDE DEF costs
    <2>5. costs \in Seq(Int)
      BY <2>1, <2>3, ListedByIndex
    <2> QED BY <2>4, <2>5, TotalType
  <1> QED BY <1>1, <1>2

-----------------------------------------------------------------------------
(* The priced session. *)

CodesGiven == Seq(Codes) \cup {NoCodes, Absent}

LEMMA SeqOfMore ==
  ASSUME NEW S, NEW T, S \subseteq T
  PROVE  Seq(S) \subseteq Seq(T)
  OBVIOUS

(* The codes of a session mean what the codes meant that it was priced by. *)
LEMMA NormalizedFacts ==
  ASSUME NEW codes \in CodesGiven, NEW applied
  PROVE  /\ Normalized(codes) \in Seq(Codes \ {Blank}) /\ Normalized(codes) \in Seq(Codes)
         /\ CodesKept(codes, applied) \in Seq(Codes \ {Blank}) \cup {Absent}
         /\ Normalized(CodesKept(codes, applied)) = Normalized(codes)
  <1>1. Seq(Codes \ {Blank}) \subseteq Seq(Codes)
    BY SeqOfMore
  <1>2. CASE codes \in {Absent, NoCodes}
    <2>1. Normalized(codes) = <<>> /\ CodesKept(codes, applied) = Absent
      BY <1>2 DEF Normalized, CodesKept
    <2>2. Normalized(Absent) = <<>>
      BY DEF Normalized
    <2>3. <<>> \in Seq(Codes \ {Blank})
      OBVIOUS
    <2> QED BY <1>1, <2>1, <2>2, <2>3
  <1>3. CASE codes \notin {Absent, NoCodes}
    <2>1. codes \in Seq(Codes)
      BY <1>3 DEF CodesGiven
    <2> DEFINE kept == WithoutBlanks(codes)
    <2>2. kept \in Seq(Codes \ {Blank})
      BY <2>1, WithoutBlanksFacts
    <2>3. Normalized(codes) = kept /\ CodesKept(codes, applied) = kept
      BY <1>3 DEF Normalized, CodesKept
    <2>4. kept \in Seq(Codes)
      BY <1>1, <2>2
    <2>5. kept \notin {Absent, NoCodes}
      <3> HIDE DEF kept
      <3> QED BY <2>4, AbsenceAssumption
    <2>6. WithoutBlanks(kept) = kept
      BY <2>2, <2>4, WithoutBlanksFacts
    <2>7. Normalized(kept) = kept
      BY <2>5, <2>6 DEF Normalized
    <2> QED BY <2>2, <2>3, <2>4, <2>7
  <1> QED BY <1>2, <1>3

LEMMA SubtotalsFacts ==
  ASSUME catalog \in Catalogs, NEW lines \in Seq(Line), NEW currency, Buildable(lines, currency)
  PROVE  /\ Subtotals(lines) \in Seq(Nat)
         /\ Len(Subtotals(lines)) = Len(lines)
  <1> DEFINE n == Len(lines)
             subtotals == Subtotals(lines)
  <1>1. n \in Nat /\ DOMAIN lines = 1..n /\ \A i \in 1..n : lines[i] \in Line
    <2> HIDE DEF Line
    <2> QED OBVIOUS
  <1>2. catalog.price \in [Items -> Nat]
    BY PricingAssumption
  <1> HIDE DEF n
  <1>3. \A i \in 1..n : lines[i].item \in Items /\ lines[i].quantity \in Nat
    BY <1>1 DEF Buildable, Line
  <1>4. \A x, y \in Nat : x * y \in Nat
    OBVIOUS
  <1>5. \A i \in 1..n : PriceOf(lines[i].item) * lines[i].quantity \in Nat
    <2>1. \A i \in 1..n : PriceOf(lines[i].item) \in Nat
      BY <1>2, <1>3 DEF PriceOf
    <2> QED BY <1>3, <1>4, <2>1, Zenon
  <1>6. subtotals \in [1..n -> Nat]
    <2>1. subtotals = [i \in 1..n |-> PriceOf(lines[i].item) * lines[i].quantity]
      BY <1>1 DEF Subtotals
    <2> QED BY <1>5, <2>1, Zenon
  <1> QED BY <1>1, <1>6, ListedByIndex DEF n

ByCodes(q) == \A i \in DOMAIN q.applied : q.applied[i].allocations # Absent

Entries == [code : Codes \cup {Absent}, amount : Nat, allocations : Seq(Nat) \cup {Absent}]

LEMMA DiscountedFacts ==
  ASSUME NEW codes \in CodesGiven, NEW subtotals \in Seq(Nat), NEW cost \in Int,
         NEW promotion \in [items : Nat, order : Nat] \cup {Absent}
  PROVE  LET discounts == Discounted(codes, subtotals, cost, promotion)
             legacy == LegacyDiscounts(Normalized(codes), subtotals, cost)
         IN  /\ discounts.lines \in Seq(Nat) /\ Len(discounts.lines) = Len(subtotals)
             /\ discounts.items \in Nat /\ discounts.order \in Nat
             /\ discounts.applied \in Seq(Entries)
             /\ ByCodes(discounts) =>
                   /\ discounts.lines = legacy.lines /\ discounts.items = Total(legacy.lines)
                   /\ discounts.order = legacy.order /\ discounts.applied = legacy.applied
  <1> DEFINE k == Len(subtotals)
             discounts == Discounted(codes, subtotals, cost, promotion)
             legacy == LegacyDiscounts(Normalized(codes), subtotals, cost)
  <1>1. k \in Nat /\ DOMAIN subtotals = 1..k
    OBVIOUS
  <1>2. legacy \in OutcomesOf(k)
    <2> HIDE DEF k
    <2>1. Normalized(codes) \in Seq(Codes)
      BY NormalizedFacts
    <2> QED BY <2>1, LegacyAccounted DEF k
  <1> HIDE DEF k, legacy
  <1>3. /\ legacy.lines \in Seq(Nat) /\ Len(legacy.lines) = k
        /\ legacy.order \in Nat /\ legacy.applied \in Seq(Entries)
    <2>1. /\ legacy.lines \in [1..k -> Nat] /\ legacy.order \in Nat
          /\ legacy.applied \in Seq([code : Codes, amount : Nat, allocations : [1..k -> Nat]])
      BY <1>2 DEF OutcomesOf
    <2>2. legacy.lines \in Seq(Nat) /\ Len(legacy.lines) = k
      BY <1>1, <2>1, ListedByIndex
    <2>3. [1..k -> Nat] \subseteq Seq(Nat)
      BY <1>1, ListedByIndex
    <2>4. [code : Codes, amount : Nat, allocations : [1..k -> Nat]] \subseteq Entries
      BY <2>3 DEF Entries
    <2>5. legacy.applied \in Seq(Entries)
      BY <2>1, <2>4, SeqOfMore
    <2> QED BY <2>1, <2>2, <2>5
  <1>4. Total(legacy.lines) \in Nat
    BY <1>3, SumsNat
  <1>5. CASE promotion # Absent /\ Normalized(codes) # <<>>
    <2>1. promotion.items \in Nat /\ promotion.order \in Nat
      BY <1>5
    <2>2. discounts = Promoted(promotion, subtotals)
      BY <1>5 DEF Discounted
    <2> DEFINE lines == [i \in DOMAIN subtotals |-> IF i = 1 THEN promotion.items ELSE 0]
               entry == [code |-> Absent, amount |-> promotion.items + promotion.order,
                         allocations |-> Absent]
    <2>3. /\ discounts.lines = lines /\ discounts.items = promotion.items
          /\ discounts.order = promotion.order /\ discounts.applied = <<entry>>
      BY <2>2 DEF Promoted
    <2>4. lines \in Seq(Nat) /\ Len(lines) = k
      <3>1. lines \in [1..k -> Nat]
        BY <1>1, <2>1
      <3> HIDE DEF lines
      <3> QED BY <1>1, <3>1, ListedByIndex
    <2>5. entry \in Entries /\ entry.allocations = Absent
      BY <2>1 DEF Entries
    <2> HIDE DEF lines, entry, discounts
    <2>6. <<entry>> \in Seq(Entries) /\ ~ByCodes(discounts)
      BY <2>3, <2>5 DEF ByCodes
    <2> QED BY <2>1, <2>3, <2>4, <2>6 DEF discounts, legacy, k
  <1>6. CASE ~(promotion # Absent /\ Normalized(codes) # <<>>)
    <2>1. discounts = [lines |-> legacy.lines, items |-> Total(legacy.lines),
                       order |-> legacy.order, applied |-> legacy.applied]
      BY <1>6 DEF Discounted, legacy
    <2> HIDE DEF discounts
    <2> QED BY <1>3, <1>4, <2>1 DEF discounts, legacy, k
  <1> QED BY <1>5, <1>6

Shaped(q) == /\ q \in Quoted
             /\ Len(q.subtotals) = Len(q.lines)
             /\ Len(q.off) = Len(q.lines)

(* What the checked properties say of one price: the last, of the codes    *)
(* and the fulfillment that are in the session itself.                     *)
Sound(q) == ByCodes(q) => /\ AllocatesItsDiscounts(q)
                          /\ AddsUp(q)
                          /\ EchoesToItself(q)
                          /\ IsPriceOf(q, q)

LEMMA TaxFacts ==
  ASSUME NEW taxable \in Nat, NEW tax \in Int
  PROVE  TaxOn(taxable, tax) \in Nat
  <1> DEFINE product == taxable * TaxBps
  <1>1. product \in Nat
    BY PricingAssumption
  <1> HIDE DEF product
  <1>2. product \div 10000 \in Nat
    BY <1>1
  <1> QED BY <1>2 DEF TaxOn, product

LEMMA KeepsFacts ==
  ASSUME NEW f \in Seq(Built) \cup {Absent}
  PROVE  KeepsSelection(f, f)
  BY DEF KeepsSelection

LEMMA QuoteFacts ==
  ASSUME catalog \in Catalogs, NEW lines \in LineLists, NEW currency \in Currencies,
         Buildable(lines, currency), NEW codes \in CodesGiven,
         NEW groups \in Seq(Group) \cup {Absent}, NEW answer \in Answer
  PROVE  LET q == Quote(lines, currency, codes, groups, answer)
         IN  /\ Shaped(q) /\ Sound(q)
             /\ Normalized(q.codes) = Normalized(codes)
             /\ KeepsSelection(q.fulfillment, groups)
  <1> DEFINE subtotals == Subtotals(lines)
             fulfillment == BuiltFulfillment(groups, answer.rates)
             cost == FulfillmentCost(fulfillment)
             discounts == Discounted(codes, subtotals, cost, answer.promotion)
             taxable == Taxable(Total(subtotals), discounts.items, cost, discounts.order)
             tax == TaxOn(taxable, answer.tax)
             kept == CodesKept(codes, discounts.applied)
             norm == Normalized(codes)
             legacy == LegacyDiscounts(norm, subtotals, cost)
             n == Len(lines)
             totals == [subtotal |-> Total(subtotals), items_discount |-> discounts.items,
                        fulfillment |-> AtLeastZero(cost), discount |-> discounts.order,
                        tax |-> tax, total |-> taxable + tax]
             q == Quote(lines, currency, codes, groups, answer)
  <1>1. q = [status |-> "open", currency |-> currency, lines |-> lines,
             subtotals |-> subtotals, off |-> discounts.lines,
             codes |-> kept, applied |-> discounts.applied,
             fulfillment |-> fulfillment, totals |-> totals]
    BY DEF Quote
  <1>2. lines \in Seq(Line) /\ n \in Nat /\ DOMAIN lines = 1..n
    <2>1. lines \in Seq(Line)
      BY InputAssumption
    <2> HIDE DEF Line
    <2> QED BY <2>1
  <1>3. subtotals \in Seq(Nat) /\ Len(subtotals) = n
    BY <1>2, SubtotalsFacts
  <1>4. /\ answer.rates \in Seq(Option) /\ answer.tax \in Int
        /\ answer.promotion \in [items : Nat, order : Nat] \cup {Absent}
    BY DEF Answer
  <1>5. /\ fulfillment \in Seq(Built) \cup {Absent}
        /\ BuiltFulfillment(fulfillment, <<>>) = fulfillment
        /\ KeepsSelection(fulfillment, groups)
    <2>1. <<>> \in Seq(Option)
      OBVIOUS
    <2> QED BY <1>4, <2>1, BuiltFacts
  <1> HIDE DEF n, subtotals, fulfillment
  <1>6. cost \in Int
    BY <1>5, CostType
  <1> HIDE DEF cost
  <1>7. /\ discounts.lines \in Seq(Nat) /\ Len(discounts.lines) = n
        /\ discounts.items \in Nat /\ discounts.order \in Nat
        /\ discounts.applied \in Seq(Entries)
        /\ ByCodes(discounts) =>
              /\ discounts.lines = legacy.lines /\ discounts.items = Total(legacy.lines)
              /\ discounts.order = legacy.order /\ discounts.applied = legacy.applied
    BY <1>3, <1>4, <1>6, DiscountedFacts
  <1> HIDE DEF discounts, legacy
  <1>8. /\ norm \in Seq(Codes) /\ kept \in Seq(Codes \ {Blank}) \cup {Absent}
        /\ Normalized(kept) = norm
    BY NormalizedFacts
  <1> HIDE DEF kept, norm
  <1>9. Total(subtotals) \in Nat
    BY <1>3, SumsNat
  <1>10. taxable \in Nat
    BY <1>6, <1>7, <1>9 DEF Taxable, AtLeastZero
  <1> HIDE DEF taxable
  <1>11. tax \in Nat
    BY <1>4, <1>10, TaxFacts
  <1> HIDE DEF tax
  <1>12. totals \in [subtotal : Nat, items_discount : Nat, fulfillment : Nat, discount : Nat,
                     tax : Nat, total : Nat]
    <2>1. AtLeastZero(cost) \in Nat /\ taxable + tax \in Nat
      BY <1>6, <1>10, <1>11 DEF AtLeastZero
    <2> QED BY <1>7, <1>9, <1>11, <2>1
  <1>13. /\ totals.subtotal = Total(subtotals) /\ totals.items_discount = discounts.items
         /\ totals.fulfillment = AtLeastZero(cost) /\ totals.discount = discounts.order
         /\ totals.tax = tax /\ totals.total = taxable + tax
    OBVIOUS
  <1> HIDE DEF totals, q
  <1>14. /\ q.lines = lines /\ q.subtotals = subtotals /\ q.off = discounts.lines
         /\ q.codes = kept /\ q.applied = discounts.applied
         /\ q.fulfillment = fulfillment /\ q.totals = totals
    BY <1>1
  <1>15. Shaped(q)
    <2> DEFINE T == [subtotal : Nat, items_discount : Nat, fulfillment : Nat, discount : Nat,
                     tax : Nat, total : Nat]
    <2>1. q \in [status : {"open", "completed", "canceled"}, currency : Currencies,
                 lines : LineLists, subtotals : Seq(Nat), off : Seq(Nat),
                 codes : Seq(Codes \ {Blank}) \cup {Absent},
                 applied : Seq(Entries),
                 fulfillment : Seq(Built) \cup {Absent}, totals : T]
      <3> HIDE DEF T
      <3>1. totals \in T
        BY <1>12 DEF T
      <3> QED BY <1>1, <1>3, <1>5, <1>7, <1>8, <3>1
    <2>2. q \in Quoted
      BY <2>1 DEF Quoted, Entries, Built
    <2> QED BY <1>3, <1>7, <1>14, <2>2 DEF Shaped, n
  <1>16. ASSUME ByCodes(q)
         PROVE  /\ AllocatesItsDiscounts(q) /\ AddsUp(q)
                /\ EchoesToItself(q) /\ IsPriceOf(q, q)
    <2>1. /\ discounts.lines = legacy.lines /\ discounts.items = Total(legacy.lines)
          /\ discounts.order = legacy.order /\ discounts.applied = legacy.applied
      <3>1. ByCodes(discounts)
        BY <1>14, <1>16 DEF ByCodes
      <3> QED BY <1>7, <3>1
    <2>2. Accounted(legacy, n)
      BY <1>3, <1>6, <1>8, LegacyAccounted DEF legacy
    <2>3. /\ Total(legacy.lines) = Total(TenthWorth(norm, subtotals)) + FiveWorth(norm, subtotals)
          /\ legacy.order = IF Contains(norm, "SHIPFREE") THEN AtLeastZero(cost) ELSE 0
          /\ TenthComesLate(norm) \/ \A i \in 1..n : legacy.lines[i] \in 0..subtotals[i]
      BY <1>3, <1>6, <1>8, LegacyPrice DEF legacy
    <2>4. AllocatesItsDiscounts(q)
      <3>1. \A i \in DOMAIN q.lines :
               q.off[i] = Total([a \in DOMAIN q.applied |-> q.applied[a].allocations[i]])
        BY <1>2, <1>14, <2>1, <2>2 DEF Accounted
      <3>2. q.totals.items_discount + q.totals.discount
               = Total([a \in DOMAIN q.applied |-> q.applied[a].amount])
        BY <1>13, <1>14, <2>1, <2>2 DEF Accounted
      <3> QED BY <3>1, <3>2 DEF AllocatesItsDiscounts
    <2>5. AddsUp(q)
      <3>1. CASE TenthComesLate(norm)
        BY <1>8, <1>14, <3>1 DEF AddsUp
      <3>2. CASE ~TenthComesLate(norm)
        <4>1. \A i \in 1..n : q.off[i] \in 0..q.subtotals[i]
          BY <1>14, <2>1, <2>3, <3>2
        <4>2. Total(discounts.lines) <= Total(subtotals)
          <5>1. /\ discounts.lines \in Seq(Int) /\ subtotals \in Seq(Int)
                /\ Len(subtotals) = Len(discounts.lines) /\ n \in 0..Len(discounts.lines)
            BY <1>2, <1>3, <1>7
          <5>2. \A i \in 1..n : discounts.lines[i] \in Nat /\ subtotals[i] \in Nat
            BY <1>3, <1>7
          <5>3. \A i \in 1..Len(discounts.lines) : discounts.lines[i] <= subtotals[i]
            BY <1>7, <1>14, <4>1, <5>2
          <5>4. Sums(discounts.lines)[n] <= Sums(subtotals)[n]
            BY <5>1, <5>3, SumsAtMost
          <5> QED BY <1>3, <1>7, <5>4 DEF Total
        <4>3. discounts.items = Total(discounts.lines)
          BY <2>1
        <4>4. cost < 0 \/ taxable = Total(subtotals) - discounts.items + AtLeastZero(cost)
                                      - discounts.order
          <5>1. discounts.order \in {0, AtLeastZero(cost)}
            BY <2>1, <2>3
          <5> QED BY <1>6, <1>7, <1>9, <4>2, <4>3, <5>1 DEF Taxable, AtLeastZero, taxable
        <4>5. cost < 0 \/ q.totals.total = q.totals.subtotal - q.totals.items_discount
                                             + q.totals.fulfillment - q.totals.discount
                                             + q.totals.tax
          BY <1>13, <1>14, <4>4
        <4>6. DOMAIN q.lines = 1..n /\ FulfillmentCost(q.fulfillment) = cost
          BY <1>2, <1>14 DEF cost
        <4> QED BY <4>1, <4>5, <4>6 DEF AddsUp
      <3> QED BY <3>1, <3>2
    <2>6. EchoesToItself(q)
      <3>1. FulfillmentCost(BuiltFulfillment(q.fulfillment, <<>>)) = cost
        BY <1>5, <1>14 DEF cost
      <3>2. LegacyDiscounts(Normalized(q.codes), q.subtotals, cost) = legacy
        BY <1>8, <1>14 DEF legacy
      <3> QED BY <1>13, <1>14, <2>1, <3>1, <3>2 DEF EchoesToItself
    <2>7. IsPriceOf(q, q)
      <3>1. KeepsSelection(q.fulfillment, q.fulfillment)
        BY <1>5, <1>14, KeepsFacts
      <3>2. Normalized(q.codes) = norm
        BY <1>8, <1>14
      <3> QED BY <1>13, <1>14, <2>1, <2>3, <3>1, <3>2 DEF IsPriceOf
    <2> QED BY <2>4, <2>5, <2>6, <2>7
  <1>17. Sound(q)
    BY <1>16 DEF Sound
  <1>18. Normalized(q.codes) = norm /\ KeepsSelection(q.fulfillment, groups)
    BY <1>5, <1>8, <1>14
  <1> QED BY <1>15, <1>17, <1>18 DEF q, norm

-----------------------------------------------------------------------------
(* The steps. *)

Inputs == [codes : CodeLists \cup {Absent}, fulfillment : FulfillmentInputs \cup {Absent}]

(* The codes and the selections of a session are those it was asked for.   *)
IsAsked(q, inputs) == /\ Normalized(q.codes) = Normalized(inputs.codes)
                      /\ KeepsSelection(q.fulfillment, inputs.fulfillment)

(* The inductive invariant: what is checked of a price says nothing of the *)
(* requests before it, and the next price is made of the codes and the     *)
(* fulfillment in the session, so these must still mean what was asked.    *)
PricesInv == /\ TypeOK
             /\ \A s \in Priced : Sound(quotes[s]) /\ IsAsked(quotes[s], asked[s])

LEMMA PricedIsOne ==
  ASSUME PricesInv, NEW s \in Sessions, NEW q, Shaped(q), Sound(q),
         NEW inputs \in Inputs, IsAsked(q, inputs),
         quotes' = [quotes EXCEPT ![s] = q], asked' = [asked EXCEPT ![s] = inputs],
         catalog' = catalog
  PROVE  PricesInv'
  <1>1. /\ catalog \in Catalogs /\ DOMAIN quotes = Sessions
        /\ asked \in [Sessions -> Inputs]
        /\ \A r \in Priced : Shaped(quotes[r])
    BY DEF PricesInv, TypeOK, Shaped, Inputs
  <1>2. \A r \in Sessions : /\ quotes'[r] = IF r = s THEN q ELSE quotes[r]
                            /\ asked'[r] = IF r = s THEN inputs ELSE asked[r]
    BY <1>1
  <1>3. catalog' \in Catalogs /\ DOMAIN quotes' = Sessions /\ asked' \in [Sessions -> Inputs]
    <2> HIDE DEF Inputs
    <2> QED BY <1>1
  <1>4. \A r \in Priced' : /\ Shaped(quotes'[r]) /\ Sound(quotes'[r])
                           /\ IsAsked(quotes'[r], asked'[r])
    <2> SUFFICES ASSUME NEW r \in Sessions, quotes'[r] # NoQuote
                 PROVE  /\ Shaped(quotes'[r]) /\ Sound(quotes'[r])
                        /\ IsAsked(quotes'[r], asked'[r])
      BY DEF Priced
    <2>1. CASE r = s
      BY <1>2, <2>1
    <2>2. CASE r # s
      <3>1. quotes'[r] = quotes[r] /\ asked'[r] = asked[r] /\ r \in Priced
        BY <1>2, <2>2 DEF Priced
      <3> QED BY <1>1, <3>1 DEF PricesInv
    <2> QED BY <2>1, <2>2
  <1> QED BY <1>3, <1>4 DEF PricesInv, TypeOK, Shaped, Inputs

LEMMA KeepsIsTransitive ==
  ASSUME NEW f, NEW g, NEW h, KeepsSelection(f, g), KeepsSelection(g, h),
         g # Absent <=> h # Absent
  PROVE  KeepsSelection(f, h)
  BY DEF KeepsSelection

(* What the inputs of a request and the parts of a session may be.         *)
LEMMA GivenTypes ==
  /\ CodeLists \cup {Absent} \subseteq CodesGiven
  /\ FulfillmentInputs \cup {Absent} \subseteq Seq(Group) \cup {Absent}
  /\ Seq(Codes \ {Blank}) \cup {Absent} \subseteq CodesGiven
  /\ Seq(Built) \cup {Absent} \subseteq Seq(Group) \cup {Absent}
  <1>1. Seq(Codes \ {Blank}) \subseteq Seq(Codes)
    BY SeqOfMore
  <1>2. Built \subseteq Group
    BY DEF Built, Group
  <1>3. Seq(Built) \subseteq Seq(Group)
    BY <1>2, SeqOfMore
  <1> QED BY <1>1, <1>3, InputAssumption DEF CodesGiven

LEMMA PricesCreate ==
  ASSUME PricesInv, NEW s \in Sessions, Create(s)
  PROVE  PricesInv'
  <1>1. PICK lines \in LineLists \ {<<>>}, currency \in Currencies :
           /\ Buildable(lines, currency)
           /\ \E answer \in EngineAnswers, codes \in CodeLists \cup {Absent},
                 groups \in FulfillmentInputs \cup {Absent} :
                 /\ quotes' = [quotes EXCEPT ![s] =
                        Quote(lines, currency, codes, groups, [answer EXCEPT !.rates = <<>>])]
                 /\ asked' = [asked EXCEPT ![s] = [codes |-> codes, fulfillment |-> groups]]
    BY DEF Create
  <1>2. PICK answer \in EngineAnswers, codes \in CodeLists \cup {Absent},
             groups \in FulfillmentInputs \cup {Absent} :
           /\ quotes' = [quotes EXCEPT ![s] =
                  Quote(lines, currency, codes, groups, [answer EXCEPT !.rates = <<>>])]
           /\ asked' = [asked EXCEPT ![s] = [codes |-> codes, fulfillment |-> groups]]
    BY <1>1
  <1> DEFINE reply == [answer EXCEPT !.rates = <<>>]
             q == Quote(lines, currency, codes, groups, reply)
             inputs == [codes |-> codes, fulfillment |-> groups]
  <1>3. reply \in Answer
    <2>1. answer \in Answer /\ <<>> \in Seq(Option)
      BY InputAssumption
    <2> QED BY <2>1 DEF Answer
  <1>4. catalog \in Catalogs /\ lines \in LineLists
    BY DEF PricesInv, TypeOK
  <1> HIDE DEF reply
  <1>5. /\ Shaped(q) /\ Sound(q) /\ Normalized(q.codes) = Normalized(codes)
        /\ KeepsSelection(q.fulfillment, groups)
    <2>1. codes \in CodesGiven /\ groups \in Seq(Group) \cup {Absent}
      BY GivenTypes
    <2> QED BY <1>1, <1>3, <1>4, <2>1, QuoteFacts
  <1>6. quotes' = [quotes EXCEPT ![s] = q] /\ asked' = [asked EXCEPT ![s] = inputs]
    BY <1>2 DEF reply
  <1>7. inputs \in Inputs /\ inputs.codes = codes /\ inputs.fulfillment = groups
    BY DEF Inputs
  <1>8. catalog' = catalog
    BY DEF Create
  <1> HIDE DEF q, inputs
  <1>9. IsAsked(q, inputs)
    BY <1>5, <1>7 DEF IsAsked
  <1> QED BY <1>5, <1>6, <1>7, <1>8, <1>9, PricedIsOne

LEMMA PricesUpdate ==
  ASSUME PricesInv, NEW s \in Sessions, Update(s)
  PROVE  PricesInv'
  <1> DEFINE old == quotes[s]
             were == asked[s]
  <1>1. PICK lines \in LineLists, currency \in Currencies :
           /\ Buildable(lines, currency)
           /\ \E answer \in EngineAnswers, codes \in CodeLists \cup {Absent},
                 groups \in FulfillmentInputs \cup {Absent} :
                 /\ quotes' = [quotes EXCEPT ![s] =
                        Quote(lines, currency, Given(codes, old.codes),
                              Given(groups, old.fulfillment), answer)]
                 /\ asked' = [asked EXCEPT ![s] =
                        [codes |-> Given(codes, were.codes),
                         fulfillment |-> Given(groups, were.fulfillment)]]
    BY DEF Update
  <1>2. PICK answer \in EngineAnswers, codes \in CodeLists \cup {Absent},
             groups \in FulfillmentInputs \cup {Absent} :
           /\ quotes' = [quotes EXCEPT ![s] =
                  Quote(lines, currency, Given(codes, old.codes),
                        Given(groups, old.fulfillment), answer)]
           /\ asked' = [asked EXCEPT ![s] = [codes |-> Given(codes, were.codes),
                                             fulfillment |-> Given(groups, were.fulfillment)]]
    BY <1>1
  <1>3. s \in Priced /\ catalog' = catalog /\ catalog \in Catalogs
    BY DEF Update, Open, Priced, PricesInv, TypeOK
  <1>4. /\ old.codes \in Seq(Codes \ {Blank}) \cup {Absent}
        /\ old.fulfillment \in Seq(Built) \cup {Absent}
        /\ were \in Inputs /\ IsAsked(old, were)
    <2>1. old \in Quoted /\ were \in Inputs /\ IsAsked(old, were)
      BY <1>3 DEF PricesInv, TypeOK, Inputs
    <2> QED BY <2>1 DEF Quoted, Built
  <1> HIDE DEF old, were
  <1> DEFINE codesNow == Given(codes, old.codes)
             groupsNow == Given(groups, old.fulfillment)
             q == Quote(lines, currency, codesNow, groupsNow, answer)
             inputs == [codes |-> Given(codes, were.codes),
                        fulfillment |-> Given(groups, were.fulfillment)]
  <1>5. answer \in Answer
    BY InputAssumption
  <1>6. codesNow \in CodesGiven /\ groupsNow \in Seq(Group) \cup {Absent}
    BY <1>4, GivenTypes DEF Given
  <1>7. /\ inputs \in Inputs /\ inputs.codes = Given(codes, were.codes)
        /\ inputs.fulfillment = Given(groups, were.fulfillment)
    BY <1>4 DEF Inputs, Given
  <1> HIDE DEF inputs
  <1>8. Normalized(codesNow) = Normalized(inputs.codes)
    BY <1>4, <1>7 DEF Given, IsAsked
  <1>9. KeepsSelection(old.fulfillment, were.fulfillment)
    BY <1>4 DEF IsAsked
  <1> HIDE DEF codesNow, groupsNow
  <1>10. /\ Shaped(q) /\ Sound(q) /\ Normalized(q.codes) = Normalized(codesNow)
         /\ KeepsSelection(q.fulfillment, groupsNow)
    <2>1. Buildable(lines, currency) /\ catalog \in Catalogs
      BY <1>1, <1>3
    <2> QED BY <1>5, <1>6, <2>1, QuoteFacts
  <1> HIDE DEF q
  <1>11. KeepsSelection(q.fulfillment, inputs.fulfillment)
    <2>1. CASE groups # Absent
      BY <1>7, <1>10, <2>1 DEF Given, groupsNow
    <2>2. CASE groups = Absent
      <3>1. groupsNow = old.fulfillment /\ inputs.fulfillment = were.fulfillment
        BY <1>7, <2>2 DEF Given, groupsNow
      <3>2. KeepsSelection(q.fulfillment, were.fulfillment)
        <4>1. CASE were.fulfillment = Absent
          <5>1. old.fulfillment = Absent
            BY <1>9, <4>1 DEF KeepsSelection
          <5> QED BY <1>10, <3>1, <4>1, <5>1
        <4>2. CASE were.fulfillment # Absent /\ old.fulfillment # Absent
          BY <1>9, <1>10, <3>1, <4>2, KeepsIsTransitive
        <4>3. CASE were.fulfillment # Absent /\ old.fulfillment = Absent
          BY <1>9, <1>10, <3>1, <4>3 DEF KeepsSelection
        <4> QED BY <4>1, <4>2, <4>3
      <3> QED BY <3>1, <3>2
    <2> QED BY <2>1, <2>2
  <1>12. IsAsked(q, inputs)
    BY <1>8, <1>10, <1>11 DEF IsAsked
  <1>13. quotes' = [quotes EXCEPT ![s] = q] /\ asked' = [asked EXCEPT ![s] = inputs]
    BY <1>2 DEF q, inputs, codesNow, groupsNow
  <1> QED BY <1>3, <1>7, <1>10, <1>12, <1>13, PricedIsOne

LEMMA PricesSettle ==
  ASSUME PricesInv, NEW s \in Sessions, Settle(s)
  PROVE  PricesInv'
  <1> DEFINE old == quotes[s]
  <1>1. PICK status \in {"completed", "canceled"} :
           quotes' = [quotes EXCEPT ![s] = [old EXCEPT !.status = status]]
    BY DEF Settle
  <1> DEFINE q == [old EXCEPT !.status = status]
  <1>2. s \in Priced /\ catalog' = catalog /\ asked' = asked
    BY DEF Settle, Open, Priced
  <1>3. /\ Shaped(old) /\ Sound(old) /\ IsAsked(old, asked[s])
        /\ asked \in [Sessions -> Inputs]
    BY <1>2 DEF PricesInv, TypeOK, Shaped, Inputs
  <1>4. asked[s] \in Inputs /\ asked' = [asked EXCEPT ![s] = asked[s]]
    <2> HIDE DEF Inputs
    <2> QED BY <1>2, <1>3
  <1> HIDE DEF old
  <1>5. /\ q \in Quoted /\ q.lines = old.lines /\ q.subtotals = old.subtotals /\ q.off = old.off
        /\ q.codes = old.codes /\ q.applied = old.applied
        /\ q.fulfillment = old.fulfillment /\ q.totals = old.totals
    <2>1. old \in Quoted
      BY <1>3 DEF Shaped
    <2> QED BY <2>1 DEF Quoted
  <1> HIDE DEF q
  <1>6. Shaped(q) /\ IsAsked(q, asked[s])
    BY <1>3, <1>5 DEF Shaped, IsAsked
  <1>7. Sound(q)
    <2>1. ASSUME ByCodes(q)
          PROVE  /\ AllocatesItsDiscounts(q) /\ AddsUp(q)
                 /\ EchoesToItself(q) /\ IsPriceOf(q, q)
      <3>1. ByCodes(old)
        BY <1>5, <2>1 DEF ByCodes
      <3>2. /\ AllocatesItsDiscounts(old) /\ AddsUp(old)
            /\ EchoesToItself(old) /\ IsPriceOf(old, old)
        BY <1>3, <3>1 DEF Sound
      <3>3. AllocatesItsDiscounts(q)
        BY <1>5, <3>2 DEF AllocatesItsDiscounts
      <3>4. AddsUp(q)
        BY <1>5, <3>2 DEF AddsUp
      <3>5. EchoesToItself(q)
        BY <1>5, <3>2 DEF EchoesToItself
      <3>6. IsPriceOf(q, q)
        BY <1>5, <3>2 DEF IsPriceOf
      <3> QED BY <3>3, <3>4, <3>5, <3>6
    <2> QED BY <2>1 DEF Sound
  <1>8. quotes' = [quotes EXCEPT ![s] = q]
    BY <1>1 DEF q
  <1> QED BY <1>2, <1>4, <1>6, <1>7, <1>8, PricedIsOne

LEMMA PricesInitially == Init => PricesInv
  <1> SUFFICES ASSUME Init PROVE PricesInv
    OBVIOUS
  <1>1. Priced = {} /\ DOMAIN quotes = Sessions /\ catalog \in Catalogs
    BY DEF Init, Priced
  <1>2. asked \in [Sessions -> Inputs]
    BY DEF Init, Inputs
  <1> QED BY <1>1, <1>2 DEF PricesInv, TypeOK, Inputs

LEMMA PricesNext == PricesInv /\ [Next]_vars => PricesInv'
  <1> SUFFICES ASSUME PricesInv, [Next]_vars PROVE PricesInv'
    OBVIOUS
  <1>1. ASSUME catalog' \in Catalogs, UNCHANGED <<quotes, asked>>
        PROVE  PricesInv'
    BY <1>1 DEF PricesInv, TypeOK, Priced
  <1>2. CASE Restock
    BY <1>1, <1>2 DEF Restock
  <1>3. CASE UNCHANGED vars
    BY <1>1, <1>3 DEF vars, PricesInv, TypeOK
  <1>4. ASSUME NEW s \in Sessions, Create(s) \/ Update(s) \/ Settle(s)
        PROVE  PricesInv'
    BY <1>4, PricesCreate, PricesUpdate, PricesSettle
  <1> QED BY <1>2, <1>3, <1>4 DEF Next

THEOREM PricesAlways == Spec => []PricesInv
  <1>1. QED
    BY PricesInitially, PricesNext, PTL DEF Spec

(* Every quote has its shape, with amounts that are not negative.          *)
THEOREM PricingTypes == Spec => []TypeOK
  <1>1. PricesInv => TypeOK
    BY DEF PricesInv
  <1> QED BY <1>1, PricesAlways, PTL

LEMMA SoundPrices ==
  ASSUME PricesInv, NEW s \in PricedByCodes
  PROVE  /\ AllocatesItsDiscounts(quotes[s]) /\ AddsUp(quotes[s])
         /\ EchoesToItself(quotes[s]) /\ IsPriceOf(quotes[s], quotes[s])
         /\ IsAsked(quotes[s], asked[s])
  BY DEF PricesInv, PricedByCodes, Sound, ByCodes

(* The three accounts of a discount, by line, by code and in the totals,   *)
(* agree, whatever the codes and however the rounding falls.               *)
THEOREM AccountsAgree == Spec => []DiscountsAreAllocated
  <1>1. PricesInv => DiscountsAreAllocated
    BY SoundPrices DEF DiscountsAreAllocated
  <1> QED BY <1>1, PricesAlways, PTL

(* The total is the sum of its entries, and no line gives more than it     *)
(* costs, with the exceptions that the property names.                     *)
THEOREM EntriesMakeTheTotal == Spec => []TotalsAddUp
  <1>1. PricesInv => TotalsAddUp
    BY SoundPrices DEF TotalsAddUp
  <1> QED BY <1>1, PricesAlways, PTL

(* A session that is sent back as it was answered is priced the same.      *)
THEOREM EchoesKeepTheirPrice == Spec => []EchoKeepsPrice
  <1>1. PricesInv => EchoKeepsPrice
    BY SoundPrices DEF EchoKeepsPrice
  <1> QED BY <1>1, PricesAlways, PTL

(* After any number of updates the price is what the codes and the         *)
(* fulfillment last asked for are worth by their description.              *)
THEOREM PricesAreOfTheInputs == Spec => []PriceIsOfInputs
  <1>1. ASSUME PricesInv, NEW s \in PricedByCodes
        PROVE  IsPriceOf(quotes[s], asked[s])
    <2>1. IsPriceOf(quotes[s], quotes[s]) /\ IsAsked(quotes[s], asked[s])
      BY <1>1, SoundPrices
    <2> QED BY <2>1 DEF IsPriceOf, IsAsked
  <1>2. PricesInv => PriceIsOfInputs
    BY <1>1 DEF PriceIsOfInputs
  <1> QED BY <1>2, PricesAlways, PTL

=============================================================================
