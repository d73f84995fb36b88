----------------------------- MODULE JoinProofs -----------------------------
(***************************************************************************)
(* What is proved of Join, for any worlds, windows and floors: whatever    *)
(* lands between the reads of a pass, every row it appends has evidence,   *)
(* the shares of an outcome add up, and silence is only a success when     *)
(* heartbeats prove it; a reward join shows what the table says; and a     *)
(* learned curve is the isotonic regression of its labels.                 *)
(***************************************************************************)
EXTENDS Join, ListsProofs

LEMMA GreatestIs ==
  ASSUME NEW S, IsFiniteSet(S), S \subseteq Int, S # {}
  PROVE  Greatest(S) \in S /\ \A y \in S : Greatest(S) >= y
BY BoundsOf DEF Greatest

LEMMA LeastIs ==
  ASSUME NEW S, IsFiniteSet(S), S \subseteq Int, S # {}
  PROVE  Least(S) \in S /\ \A y \in S : Least(S) <= y
BY BoundsOf DEF Least

(***************************************************************************)
(* Sums and shares.                                                        *)
(***************************************************************************)

Sums(f, s, n) == f = [k \in 0..n |-> IF k = 0 THEN 0 ELSE f[k - 1] + s[k]]

LEMMA SumsExist ==
  ASSUME NEW s, NEW n \in Nat
  PROVE  \E f : Sums(f, s, n)
<1>1. PICK S : S = {k \in 0..n : \E f : Sums(f, s, k)}
  OBVIOUS
<1>2. 0 \in S
  <2>1. PICK f : f = [k \in 0..0 |-> 0]
    OBVIOUS
  <2>2. Sums(f, s, 0)
    BY <2>1 DEF Sums
  <2> QED
    BY <1>1, <2>2
<1>3. ASSUME NEW k \in 0..n, k < n, k \in S
      PROVE  k + 1 \in S
  <2>1. PICK f : Sums(f, s, k)
    BY <1>1, <1>3
  <2>2. PICK g : g = [l \in 0..k + 1 |-> IF l = k + 1 THEN f[k] + s[k + 1] ELSE f[l]]
    OBVIOUS
  <2>3. \A l \in 0..k : l \in 0..k + 1 /\ l # k + 1 /\ g[l] = f[l]
    BY <2>2
  <2>4. ASSUME NEW l \in 0..k + 1
        PROVE  g[l] = IF l = 0 THEN 0 ELSE g[l - 1] + s[l]
    <3>1. CASE l = k + 1
      <4>1. k \in 0..k /\ l # 0 /\ l - 1 = k
        BY <3>1
      <4> QED
        BY <2>2, <2>3, <3>1, <4>1
    <3>2. CASE l = 0
      <4>1. 0 \in 0..k
        OBVIOUS
      <4>2. f[0] = 0
        BY <2>1, <4>1 DEF Sums
      <4> QED
        BY <2>3, <3>2, <4>1, <4>2
    <3>3. CASE l # k + 1 /\ l # 0
      <4>1. l \in 0..k /\ l - 1 \in 0..k
        BY <3>3
      <4>2. f[l] = f[l - 1] + s[l]
        BY <2>1, <3>3, <4>1 DEF Sums
      <4> QED
        BY <2>3, <3>3, <4>1, <4>2
    <3> QED
      BY <3>1, <3>2, <3>3
  <2>5. Sums(g, s, k + 1)
    BY <2>2, <2>4 DEF Sums
  <2> QED
    BY <1>1, <2>5, <1>3
<1>4. \A k \in 0..n : k \in S
  BY <1>2, <1>3, UpTo
<1> QED
  BY <1>1, <1>4

\* s holds n numbers.
Numbers(s, n) == n \in Nat /\ Len(s) = n /\ \A i \in 1..n : s[i] \in Int

LEMMA TotalsAre ==
  ASSUME NEW s, NEW n, Numbers(s, n)
  PROVE  /\ Totals(s)[0] = 0 /\ SumSeq(s) = Totals(s)[n]
         /\ \A k \in 1..n : Totals(s)[k] = Totals(s)[k - 1] + s[k]
         /\ \A k \in 0..n : Totals(s)[k] \in Int
<1>1. PICK f : f = Totals(s)
  OBVIOUS
<1>2. n \in Nat /\ Len(s) = n
  BY DEF Numbers
<1>3. Sums(f, s, n)
  <2>1. f = CHOOSE g : Sums(g, s, n)
    BY <1>1, <1>2 DEF Totals, Sums
  <2> QED
    BY <1>2, <2>1, SumsExist
<1>4. \A k \in 0..n : f[k] = IF k = 0 THEN 0 ELSE f[k - 1] + s[k]
  BY <1>3 DEF Sums
<1>5. f[0] = 0
  BY <1>2, <1>4
<1>6. \A k \in 1..n : f[k] = f[k - 1] + s[k]
  BY <1>2, <1>4
<1>7. \A k \in 0..n : f[k] \in Int
  <2>1. PICK S : S = {k \in 0..n : f[k] \in Int}
    OBVIOUS
  <2>2. 0 \in S
    BY <1>2, <1>5, <2>1
  <2>3. ASSUME NEW k \in 0..n, k < n, k \in S
        PROVE  k + 1 \in S
    <3>1. k + 1 \in 1..n /\ (k + 1) - 1 = k
      BY <1>2, <2>3
    <3>2. f[k + 1] = f[k] + s[k + 1]
      BY <1>6, <3>1
    <3>3. s[k + 1] \in Int /\ f[k] \in Int
      BY <2>1, <2>3, <3>1 DEF Numbers
    <3> QED
      BY <1>2, <2>1, <3>1, <3>2, <3>3
  <2>4. \A k \in 0..n : k \in S
    BY <1>2, <2>2, <2>3, UpTo
  <2> QED
    BY <2>1, <2>4
<1> QED
  BY <1>1, <1>2, <1>5, <1>6, <1>7 DEF SumSeq

\* The totals of numbers that are not negative grow.
LEMMA TotalsGrow ==
  ASSUME NEW s, NEW n, Numbers(s, n), \A i \in 1..n : s[i] >= 0
  PROVE  /\ \A k \in 0..n : Totals(s)[k] >= 0 /\ Totals(s)[k] <= Totals(s)[n]
         /\ \A k \in 1..n : s[k] <= Totals(s)[k]
<1>1. PICK f : f = Totals(s)
  OBVIOUS
<1>2. /\ n \in Nat /\ f[0] = 0 /\ \A k \in 1..n : f[k] = f[k - 1] + s[k]
      /\ \A k \in 0..n : f[k] \in Int
  BY <1>1, TotalsAre DEF Numbers
<1>3. PICK S : S = {k \in 0..n : \A l \in 0..k : f[l] <= f[k]}
  OBVIOUS
<1>4. 0 \in S
  BY <1>2, <1>3
<1>5. ASSUME NEW k \in 0..n, k < n, k \in S
      PROVE  k + 1 \in S
  <2>1. k + 1 \in 1..n /\ (k + 1) - 1 = k /\ k + 1 \in 0..n
    BY <1>2, <1>5
  <2>2. f[k + 1] = f[k] + s[k + 1] /\ s[k + 1] >= 0 /\ s[k + 1] \in Int /\ f[k] \in Int
    BY <1>2, <2>1 DEF Numbers
  <2>3. \A l \in 0..k + 1 : f[l] <= f[k + 1]
    <3> TAKE l \in 0..k + 1
    <3>1. CASE l = k + 1
      BY <3>1, <2>2
    <3>2. CASE l # k + 1
      <4>1. l \in 0..k /\ l \in 0..n
        BY <1>2, <2>1, <3>2
      <4>2. f[l] <= f[k] /\ f[l] \in Int
        BY <1>2, <1>3, <1>5, <4>1
      <4>3. f[k] <= f[k + 1] /\ f[k + 1] \in Int
        BY <2>2
      <4> QED
        BY <2>2, <4>2, <4>3
    <3> QED
      BY <3>1, <3>2
  <2> QED
    BY <1>3, <2>1, <2>3
<1>6. \A k \in 0..n : k \in S
  BY <1>2, <1>4, <1>5, UpTo
<1>7. \A k \in 0..n : f[k] >= 0 /\ f[k] <= f[n]
  <2> TAKE k \in 0..n
  <2>1. 0 \in 0..k /\ k \in 0..n /\ n \in 0..n
    BY <1>2
  <2>2. f[0] <= f[k] /\ f[k] <= f[n] /\ f[k] \in Int
    BY <1>2, <1>3, <1>6, <2>1
  <2> QED
    BY <1>2, <2>2
<1>8. \A k \in 1..n : s[k] <= f[k]
  <2> TAKE k \in 1..n
  <2>1. k - 1 \in 0..n
    BY <1>2
  <2>2. f[k] = f[k - 1] + s[k] /\ f[k - 1] >= 0 /\ f[k - 1] \in Int /\ s[k] \in Int
    BY <1>2, <1>7, <2>1 DEF Numbers
  <2> QED
    BY <2>2
<1> QED
  BY <1>1, <1>7, <1>8

LEMMA Division ==
  ASSUME NEW a \in Nat, NEW w \in Nat, w > 0
  PROVE  /\ a \div w \in Nat /\ w * (a \div w) <= a /\ a < w * (a \div w) + w
OBVIOUS

LEMMA Cancelled ==
  ASSUME NEW a \in Int, NEW b \in Int, NEW w \in Nat, w > 0, w * a <= w * b
  PROVE  a <= b
<1>1. CASE a > b
  <2>1. a >= b + 1
    BY <1>1
  <2>2. w * a >= w * (b + 1)
    BY <2>1
  <2>3. w * (b + 1) = w * b + w
    OBVIOUS
  <2>4. w * a \in Int /\ w * b \in Int
    OBVIOUS
  <2> QED
    BY <2>2, <2>3, <2>4
<1> QED
  BY <1>1

\* Numbers that are scaled down to one thousand, each of them rounded down.
Scaled(s, share, n, w) ==
    /\ Numbers(s, n) /\ Numbers(share, n) /\ w \in Nat /\ w > 0
    /\ \A i \in 1..n : s[i] >= 0 /\ share[i] = (s[i] * One) \div w
    /\ Totals(s)[n] = w

LEMMA ScaledTotals ==
  ASSUME NEW s, NEW share, NEW n, NEW w, Scaled(s, share, n, w)
  PROVE  /\ \A i \in 1..n : share[i] >= 0 /\ share[i] \in Int
         /\ \A k \in 0..n : 0 <= Totals(share)[k] /\ Totals(share)[k] <= One
         /\ \A k \in 1..n : share[k] <= One
         /\ One <= Totals(share)[n] + n
<1>1. PICK e, q : e = Totals(s) /\ q = Totals(share)
  OBVIOUS
<1>2. n \in Nat /\ w \in Nat /\ w > 0 /\ One \in Nat
  BY DEF Scaled, Numbers, One
<1>3. \A i \in 1..n : s[i] \in Nat
  BY DEF Scaled, Numbers
<1> HIDE DEF One
<1>4. ASSUME NEW i \in 1..n
      PROVE  /\ share[i] \in Nat
             /\ w * share[i] <= One * s[i] /\ One * s[i] < w * share[i] + w
  <2>1. PICK a : a = s[i] * One
    OBVIOUS
  <2>2. a \in Nat /\ a = One * s[i] /\ share[i] = a \div w
    BY <1>2, <1>3, <2>1 DEF Scaled
  <2> QED
    BY <1>2, <2>2, Division
<1>5. /\ e[0] = 0 /\ \A k \in 1..n : e[k] = e[k - 1] + s[k]
      /\ \A k \in 0..n : e[k] \in Int
  BY <1>1, TotalsAre DEF Scaled
<1>6. /\ q[0] = 0 /\ \A k \in 1..n : q[k] = q[k - 1] + share[k]
      /\ \A k \in 0..n : q[k] \in Int
  BY <1>1, TotalsAre DEF Scaled
<1>7. PICK S : S = {k \in 0..n : w * q[k] <= One * e[k] /\ One * e[k] <= w * (q[k] + k)}
  OBVIOUS
<1>8. 0 \in S
  BY <1>2, <1>5, <1>6, <1>7
<1>9. ASSUME NEW k \in 0..n, k < n, k \in S
      PROVE  k + 1 \in S
  <2>1. k + 1 \in 1..n /\ (k + 1) - 1 = k /\ k + 1 \in 0..n
    BY <1>2, <1>9
  <2>2. PICK a, b, c, d : a = q[k] /\ b = share[k + 1] /\ c = e[k] /\ d = s[k + 1]
    OBVIOUS
  <2>3. /\ a \in Int /\ b \in Nat /\ c \in Int /\ d \in Nat /\ k \in Int
        /\ q[k + 1] = a + b /\ e[k + 1] = c + d
    BY <1>2, <1>3, <1>4, <1>5, <1>6, <2>1, <2>2
  <2>4. /\ w * b <= One * d /\ One * d < w * b + w
        /\ w * a <= One * c /\ One * c <= w * (a + k)
    BY <1>4, <1>7, <1>9, <2>1, <2>2
  <2>5. /\ w * (a + b) = w * a + w * b
        /\ One * (c + d) = One * c + One * d
        /\ w * ((a + b) + (k + 1)) = w * (a + k) + w * b + w
    BY ONLY <1>2, <2>3
  <2>6. w * a \in Int /\ w * b \in Int /\ One * c \in Int /\ One * d \in Int /\ w * (a + k) \in Int
    BY ONLY <1>2, <2>3
  <2>7. w * (a + b) <= One * (c + d) /\ One * (c + d) <= w * ((a + b) + (k + 1))
    BY ONLY <1>2, <2>4, <2>5, <2>6
  <2> QED
    BY <1>7, <2>1, <2>3, <2>7
<1>10. \A k \in 0..n : k \in S
  BY <1>2, <1>8, <1>9, UpTo
<1>11. e[n] = w /\ \A k \in 0..n : e[k] <= e[n]
  BY <1>1, TotalsGrow DEF Scaled
<1>12. \A k \in 0..n : 0 <= q[k] /\ q[k] <= q[n]
  BY <1>1, <1>4, TotalsGrow DEF Scaled
<1>13. n \in 0..n /\ q[n] \in Int /\ e[n] \in Int
  BY <1>2, <1>5, <1>6
<1>14. w * q[n] <= One * w /\ One * w <= w * (q[n] + n)
  BY <1>7, <1>10, <1>11, <1>13
<1>15. w * q[n] <= w * One /\ w * One <= w * (q[n] + n)
  BY <1>2, <1>14
<1>16. q[n] <= One /\ One <= q[n] + n
  BY <1>2, <1>13, <1>15, Cancelled
<1>17. \A k \in 0..n : 0 <= q[k] /\ q[k] <= One
  BY <1>2, <1>6, <1>12, <1>13, <1>16
<1>18. \A k \in 1..n : share[k] <= One
  <2> TAKE k \in 1..n
  <2>1. k - 1 \in 0..n /\ k \in 0..n
    BY <1>2
  <2>2. q[k] = q[k - 1] + share[k] /\ 0 <= q[k - 1] /\ q[k] <= One
    BY <1>6, <1>17, <2>1
  <2> QED
    BY <1>2, <1>4, <1>6, <2>1, <2>2
<1>19. \A i \in 1..n : share[i] >= 0 /\ share[i] \in Int
  BY <1>4
<1> QED
  BY <1>1, <1>16, <1>17, <1>18, <1>19

\* Larger numbers have larger shares.
LEMMA SharesOrdered ==
  ASSUME NEW a \in Nat, NEW b \in Nat, NEW w \in Nat, w > 0, a <= b
  PROVE  (a * One) \div w <= (b * One) \div w
<1>1. PICK c, d : c = a * One /\ d = b * One
  OBVIOUS
<1>2. c \in Nat /\ d \in Nat /\ c <= d
  BY <1>1 DEF One
<1>3. PICK p, q : p = c \div w /\ q = d \div w
  OBVIOUS
<1>4. p \in Nat /\ q \in Nat /\ w * p <= c /\ d < w * q + w
  BY <1>2, <1>3, Division
<1>5. w * p \in Int /\ w * q \in Int /\ w * (q + 1) = w * q + w
  BY <1>4
<1>6. w * p < w * (q + 1)
  BY ONLY <1>2, <1>4, <1>5, w \in Nat
<1>7. CASE q < p
  <2>1. w * (q + 1) <= w * p
    BY <1>4, <1>7
  <2> QED
    BY <1>4, <1>5, <1>6, <2>1
<1> QED
  BY <1>1, <1>3, <1>4, <1>7

\* The numbers that are scaled: as they are, or all alike when there is nothing
\* to tell them apart.
Effective(raws, n) == [i \in 1..n |-> IF SumSeq(raws) > 0 THEN raws[i] ELSE 1]

LEMMA EffectiveNumbers ==
  ASSUME NEW raws, NEW n, n \in Nat, n > 0, IsList(raws), Len(raws) = n, \A i \in 1..n : raws[i] \in Nat
  PROVE  \E w : /\ w = IF SumSeq(raws) > 0 THEN SumSeq(raws) ELSE n
                /\ w \in Nat /\ w > 0 /\ Numbers(Effective(raws, n), n)
                /\ \A i \in 1..n : Effective(raws, n)[i] \in Nat
                /\ Totals(Effective(raws, n))[n] = w
<1>1. PICK e : e = Effective(raws, n)
  OBVIOUS
<1>2. e \in [1..n -> Nat] /\ Numbers(e, n)
  <2>1. e \in [1..n -> Nat]
    BY <1>1 DEF Effective
  <2> QED
    BY <2>1, ListOf DEF Numbers
<1>3. Numbers(raws, n)
  BY DEF Numbers
<1>4. SumSeq(raws) = Totals(raws)[n] /\ SumSeq(raws) \in Int
  <2>1. SumSeq(raws) = Totals(raws)[n] /\ \A k \in 0..n : Totals(raws)[k] \in Int
    BY <1>3, TotalsAre
  <2>2. n \in 0..n
    OBVIOUS
  <2> QED
    BY <2>1, <2>2
<1>5. CASE SumSeq(raws) > 0
  <2>1. DOMAIN raws = 1..n
    BY ListDomain
  <2>2. e = raws
    <3>1. \A i \in 1..n : e[i] = raws[i]
      BY <1>1, <1>5 DEF Effective
    <3>2. raws = [i \in 1..n |-> raws[i]]
      BY <2>1 DEF IsList
    <3>3. e = [i \in 1..n |-> e[i]]
      BY <1>2
    <3> QED
      BY <3>1, <3>2, <3>3
  <2> QED
    BY <1>1, <1>2, <1>4, <1>5, <2>2
<1>6. CASE ~(SumSeq(raws) > 0)
  <2>1. \A i \in 1..n : e[i] = 1
    BY <1>1, <1>6 DEF Effective
  <2>2. PICK t : t = Totals(e)
    OBVIOUS
  <2>3. t[0] = 0 /\ \A k \in 1..n : t[k] = t[k - 1] + e[k]
    BY <1>2, <2>2, TotalsAre
  <2>4. PICK S : S = {k \in 0..n : t[k] = k}
    OBVIOUS
  <2>5. 0 \in S
    BY <2>3, <2>4
  <2>6. ASSUME NEW k \in 0..n, k < n, k \in S
        PROVE  k + 1 \in S
    <3>1. k + 1 \in 1..n /\ (k + 1) - 1 = k
      BY <2>6
    <3> QED
      BY <2>1, <2>3, <2>4, <2>6, <3>1
  <2>7. \A k \in 0..n : k \in S
    BY <2>5, <2>6, UpTo
  <2>8. t[n] = n
    BY <2>4, <2>7
  <2> QED
    BY <1>1, <1>2, <1>6, <2>2, <2>8
<1> QED
  BY <1>5, <1>6

\* What conserved_credit_weights gives: shares of a whole, in the order of the
\* numbers they were made of, up to one unit for each of them.
LEMMA SharesConserved ==
  ASSUME NEW raws, NEW n, n \in Nat, n > 0, IsList(raws), Len(raws) = n, \A i \in 1..n : raws[i] \in Nat,
         NEW weights, weights = ConservedCreditWeights(raws)
  PROVE  /\ IsList(weights) /\ Len(weights) = n /\ SumSeq(weights) = One
         /\ \A i \in 1..n : weights[i] \in 0..One
         /\ \A i, j \in 1..n : raws[i] >= raws[j] => weights[i] + n >= weights[j]
<1>1. PICK e : e = Effective(raws, n)
  OBVIOUS
<1>2. PICK w : /\ w = IF SumSeq(raws) > 0 THEN SumSeq(raws) ELSE n
               /\ w \in Nat /\ w > 0 /\ Numbers(e, n)
               /\ \A i \in 1..n : e[i] \in Nat
               /\ Totals(e)[n] = w
  BY <1>1, EffectiveNumbers
<1>3. PICK share : share = [i \in 1..n |-> IF SumSeq(raws) > 0 THEN (raws[i] * One) \div SumSeq(raws) ELSE One \div n]
  OBVIOUS
<1>4. \A i \in 1..n : share[i] = (e[i] * One) \div w
  <2> TAKE i \in 1..n
  <2>1. CASE SumSeq(raws) > 0
    BY <1>1, <1>2, <1>3, <2>1 DEF Effective
  <2>2. CASE ~(SumSeq(raws) > 0)
    <3>1. e[i] = 1 /\ w = n /\ share[i] = One \div n
      BY <1>1, <1>2, <1>3, <2>2 DEF Effective
    <3> QED
      BY <3>1 DEF One
  <2> QED
    BY <2>1, <2>2
<1>5. Scaled(e, share, n, w)
  <2>1. One \in Nat
    BY DEF One
  <2>2. \A i \in 1..n : share[i] \in Nat
    <3> TAKE i \in 1..n
    <3>1. e[i] * One \in Nat
      BY <1>2, <2>1
    <3> QED
      BY <1>2, <1>4, <3>1, Division
  <2>3. share \in [1..n -> Nat]
    BY <1>3, <2>2
  <2>4. Numbers(share, n)
    BY <2>2, <2>3, ListOf DEF Numbers
  <2> QED
    BY <1>2, <1>4, <2>4 DEF Scaled
<1>6. PICK q : q = Totals(share)
  OBVIOUS
<1>7. /\ \A i \in 1..n : share[i] \in 0..One
      /\ \A k \in 0..n : q[k] \in 0..One
      /\ One <= q[n] + n
  <2>1. /\ \A i \in 1..n : share[i] >= 0 /\ share[i] \in Int /\ share[i] <= One
        /\ \A k \in 0..n : 0 <= q[k] /\ q[k] <= One
        /\ One <= q[n] + n
    BY <1>5, <1>6, ScaledTotals
  <2>2. \A k \in 0..n : q[k] \in Int
    BY <1>5, <1>6, TotalsAre DEF Scaled
  <2>3. One \in Int
    BY DEF One
  <2> HIDE DEF One
  <2>4. \A i \in 1..n : share[i] \in 0..One
    BY <2>1, <2>3
  <2>5. \A k \in 0..n : q[k] \in 0..One
    BY <2>1, <2>2, <2>3
  <2> QED
    BY <2>1, <2>4, <2>5
<1>8. q[0] = 0 /\ \A k \in 1..n : q[k] = q[k - 1] + share[k]
  BY <1>5, <1>6, TotalsAre DEF Scaled
<1>9. weights = [i \in 1..n |-> IF i < n THEN share[i] ELSE One - q[n - 1]]
  BY <1>3, <1>6 DEF ConservedCreditWeights
<1>10. One \in Nat
  BY DEF One
<1> HIDE DEF One
<1>11. \A i \in 1..n : weights[i] \in 0..One
  <2> TAKE i \in 1..n
  <2>1. n - 1 \in 0..n
    OBVIOUS
  <2>2. q[n - 1] \in 0..One
    BY <1>7, <2>1
  <2> QED
    BY <1>7, <1>9, <1>10, <2>2
<1>12. IsList(weights) /\ Len(weights) = n
  <2>1. weights \in [1..n -> 0..One]
    BY <1>9, <1>11
  <2> QED
    BY <2>1, ListOf, ListIn
<1>13. SumSeq(weights) = One
  <2>1. Numbers(weights, n)
    BY <1>11, <1>12 DEF Numbers
  <2>2. PICK t : t = Totals(weights)
    OBVIOUS
  <2>3. SumSeq(weights) = t[n] /\ t[0] = 0 /\ \A k \in 1..n : t[k] = t[k - 1] + weights[k]
    BY <2>1, <2>2, TotalsAre
  <2>4. PICK S : S = {k \in 0..n : k < n => t[k] = q[k]}
    OBVIOUS
  <2>5. 0 \in S
    BY <1>8, <2>3, <2>4
  <2>6. ASSUME NEW k \in 0..n, k < n, k \in S
        PROVE  k + 1 \in S
    <3>1. k + 1 \in 1..n /\ (k + 1) - 1 = k /\ k + 1 \in 0..n /\ t[k] = q[k]
      BY <2>4, <2>6
    <3>2. CASE k + 1 < n
      <4>1. weights[k + 1] = share[k + 1]
        BY <1>9, <3>1, <3>2
      <4>2. t[k + 1] = t[k] + weights[k + 1] /\ q[k + 1] = q[k] + share[k + 1]
        BY <1>8, <2>3, <3>1
      <4> QED
        BY <2>4, <3>1, <4>1, <4>2
    <3> QED
      BY <2>4, <3>1, <3>2
  <2>7. \A k \in 0..n : k \in S
    BY <2>5, <2>6, UpTo
  <2>8. n \in 1..n /\ n - 1 \in 0..n /\ n - 1 < n
    OBVIOUS
  <2>9. t[n - 1] = q[n - 1] /\ q[n - 1] \in Int
    BY <1>7, <1>10, <2>4, <2>7, <2>8
  <2>10. weights[n] = One - q[n - 1]
    BY <1>9, <2>8
  <2>11. t[n] = t[n - 1] + weights[n]
    BY <2>3, <2>8
  <2> QED
    BY <1>10, <2>3, <2>9, <2>10, <2>11
<1>14. \A i \in 1..n : share[i] <= weights[i] /\ weights[i] <= share[i] + n
  <2> TAKE i \in 1..n
  <2>1. share[i] \in Int /\ share[i] >= 0
    BY <1>7, <1>10
  <2>2. CASE i < n
    BY <1>9, <2>1, <2>2
  <2>3. CASE i = n
    <3>1. weights[n] = One - q[n - 1] /\ q[n] = q[n - 1] + share[n]
      BY <1>8, <1>9
    <3>2. n - 1 \in 0..n /\ n \in 0..n
      OBVIOUS
    <3>3. q[n - 1] \in Int /\ q[n] \in Int /\ q[n] <= One
      BY <1>7, <1>10, <3>2
    <3> QED
      BY SMTT(30), <1>7, <1>10, <2>1, <2>3, <3>1, <3>3
  <2> QED
    BY <2>2, <2>3
<1>15. ASSUME NEW i \in 1..n, NEW j \in 1..n, raws[i] >= raws[j]
       PROVE  weights[i] + n >= weights[j]
  <2>1. e[j] <= e[i] /\ e[i] \in Nat /\ e[j] \in Nat
    BY <1>1, <1>2, <1>15 DEF Effective
  <2>2. share[j] <= share[i]
    BY <1>2, <1>4, <2>1, SharesOrdered
  <2>3. share[i] \in Int /\ share[j] \in Int /\ weights[i] \in Int /\ weights[j] \in Int
    BY <1>7, <1>10, <1>11
  <2>4. share[i] <= weights[i] /\ weights[j] <= share[j] + n
    BY <1>14
  <2> QED
    BY ONLY n \in Nat, <2>2, <2>3, <2>4
<1> QED
  BY <1>11, <1>12, <1>13, <1>15

(***************************************************************************)
(* Curves: whatever the labels are, a calibrated score is a score.         *)
(***************************************************************************)

IsCurve(curve) == IsList(curve) /\ \A i \in DOMAIN curve : curve[i].mean \in Int
IsCurves(curves) == \A b \in DOMAIN curves : IsCurve(curves[b])

Blocks(bs) == IsList(bs) /\ \A i \in DOMAIN bs : bs[i].sum \in Nat /\ bs[i].count \in Nat /\ bs[i].count > 0
Pooling(state) ==
    /\ state = [blocks |-> state.blocks, taken |-> state.taken]
    /\ state.taken \in Nat /\ Blocks(state.blocks)
Points(ps) == IsList(ps) /\ \A i \in DOMAIN ps : ps[i].x \in Int /\ ps[i].y \in 0..1

LEMMA AppendedBlock ==
  ASSUME NEW bs, Blocks(bs), NEW b, b.sum \in Nat, b.count \in Nat, b.count > 0
  PROVE  Blocks(Append(bs, b))
<1>1. PICK t : t = Append(bs, b)
  OBVIOUS
<1>2. /\ IsList(t) /\ Len(t) = Len(bs) + 1
      /\ \A i \in 1..Len(bs) : t[i] = bs[i]
      /\ t[Len(bs) + 1] = b
  BY <1>1, ListAppend DEF Blocks
<1>3. DOMAIN bs = 1..Len(bs) /\ Len(bs) \in Nat /\ DOMAIN t = 1..Len(t)
  BY <1>2, ListDomain DEF Blocks
<1>4. ASSUME NEW i \in DOMAIN t
      PROVE  t[i].sum \in Nat /\ t[i].count \in Nat /\ t[i].count > 0
  <2>1. i \in 1..Len(bs) \/ i = Len(bs) + 1
    BY <1>2, <1>3
  <2> QED
    BY <1>2, <1>3, <2>1 DEF Blocks
<1> QED
  BY <1>1, <1>2, <1>4 DEF Blocks

LEMMA MergedBlocks ==
  ASSUME NEW bs, Blocks(bs), Violates(bs)
  PROVE  Blocks(Merged(bs))
<1>1. PICK n : n = Len(bs)
  OBVIOUS
<1>2. n \in Nat /\ n >= 2 /\ DOMAIN bs = 1..n
  BY <1>1, ListDomain DEF Blocks, Violates
<1>3. PICK s : s = SubSeq(bs, 1, n - 2)
  OBVIOUS
<1>4. IsList(s) /\ Len(s) = n - 2 /\ \A i \in 1..n - 2 : s[i] = bs[i]
  <2>1. n - 2 \in Nat /\ n - 2 <= Len(bs)
    BY <1>1, <1>2
  <2> QED
    BY <1>3, <2>1, ListPrefix DEF Blocks
<1>5. Blocks(s)
  <2>1. DOMAIN s = 1..n - 2
    BY <1>4, ListDomain
  <2>2. \A i \in 1..n - 2 : i \in DOMAIN bs
    BY <1>2
  <2> QED
    BY <1>4, <2>1, <2>2 DEF Blocks
<1>6. PICK b : b = [sum |-> bs[n-1].sum + bs[n].sum, count |-> bs[n-1].count + bs[n].count, left |-> bs[n-1].left]
  OBVIOUS
<1>7. b.sum \in Nat /\ b.count \in Nat /\ b.count > 0
  <2>1. n - 1 \in DOMAIN bs /\ n \in DOMAIN bs
    BY <1>2
  <2> QED
    BY <1>6, <2>1 DEF Blocks
<1>8. Merged(bs) = Append(s, b)
  BY <1>1, <1>3, <1>6 DEF Merged
<1> QED
  BY <1>5, <1>7, <1>8, AppendedBlock

LEMMA TurnPools ==
  ASSUME NEW state, Pooling(state), NEW ps, Points(ps)
  PROVE  Pooling(Turn(state, ps))
<1>1. PICK bs, taken : bs = state.blocks /\ taken = state.taken
  OBVIOUS
<1>2. taken \in Nat /\ Blocks(bs) /\ state = [blocks |-> bs, taken |-> taken]
  BY <1>1 DEF Pooling
<1>3. CASE Violates(bs)
  <2>1. Turn(state, ps) = [blocks |-> Merged(bs), taken |-> taken]
    BY <1>1, <1>2, <1>3 DEF Turn
  <2> QED
    BY <1>2, <1>3, <2>1, MergedBlocks DEF Pooling
<1>4. CASE ~Violates(bs) /\ taken < Len(ps)
  <2>1. PICK p : p = ps[taken + 1]
    OBVIOUS
  <2>2. taken + 1 \in DOMAIN ps
    BY <1>2, <1>4, ListDomain DEF Points
  <2>3. p.y \in Nat
    BY <2>1, <2>2 DEF Points
  <2>4. PICK b : b = [sum |-> p.y, count |-> 1, left |-> p.x]
    OBVIOUS
  <2>5. Blocks(Append(bs, b))
    BY <1>2, <2>3, <2>4, AppendedBlock
  <2>6. Turn(state, ps) = [blocks |-> Append(bs, b), taken |-> taken + 1]
    BY <1>1, <1>4, <2>1, <2>4 DEF Turn
  <2>7. taken + 1 \in Nat
    BY <1>2
  <2>8. PICK bs2, t2 : bs2 = Append(bs, b) /\ t2 = taken + 1
    OBVIOUS
  <2>9. Turn(state, ps) = [blocks |-> bs2, taken |-> t2] /\ Blocks(bs2) /\ t2 \in Nat
    BY <2>5, <2>6, <2>7, <2>8
  <2> QED
    BY <2>9 DEF Pooling
<1>5. CASE ~Violates(bs) /\ ~(taken < Len(ps))
  <2>1. Turn(state, ps) = state
    BY <1>1, <1>5 DEF Turn
  <2> QED
    BY <2>1
<1> QED
  BY <1>3, <1>4, <1>5

NoBlocks == [blocks |-> <<>>, taken |-> 0]
Pools(f, ps, n) == f = [k \in 0..n |-> IF k = 0 THEN NoBlocks ELSE Turn(f[k - 1], ps)]

LEMMA PoolsExist ==
  ASSUME NEW ps, NEW n \in Nat
  PROVE  \E f : Pools(f, ps, n)
<1>1. PICK S : S = {k \in 0..n : \E f : Pools(f, ps, k)}
  OBVIOUS
<1>2. 0 \in S
  <2>1. PICK f : f = [k \in 0..0 |-> NoBlocks]
    OBVIOUS
  <2>2. Pools(f, ps, 0)
    BY <2>1 DEF Pools
  <2> QED
    BY <1>1, <2>2
<1>3. ASSUME NEW k \in 0..n, k < n, k \in S
      PROVE  k + 1 \in S
  <2>1. PICK f : Pools(f, ps, k)
    BY <1>1, <1>3
  <2>2. PICK g : g = [l \in 0..k + 1 |-> IF l = k + 1 THEN Turn(f[k], ps) ELSE f[l]]
    OBVIOUS
  <2>3. \A l \in 0..k : l \in 0..k + 1 /\ l # k + 1 /\ g[l] = f[l]
    BY <2>2
  <2>4. ASSUME NEW l \in 0..k + 1
        PROVE  g[l] = IF l = 0 THEN NoBlocks ELSE Turn(g[l - 1], ps)
    <3>1. CASE l = k + 1
      <4>1. k \in 0..k /\ l # 0 /\ l - 1 = k
        BY <3>1
      <4>2. g[k] = f[k]
        BY <2>3, <4>1
      <4> QED
        BY <2>2, <3>1, <4>1, <4>2
    <3>2. CASE l = 0
      <4>1. 0 \in 0..k
        OBVIOUS
      <4>2. f[0] = NoBlocks
        BY <2>1, <4>1 DEF Pools
      <4> QED
        BY <2>3, <3>2, <4>1, <4>2
    <3>3. CASE l # k + 1 /\ l # 0
      <4>1. l \in 0..k /\ l - 1 \in 0..k
        BY <3>3
      <4>2. f[l] = Turn(f[l - 1], ps)
        BY <2>1, <3>3, <4>1 DEF Pools
      <4>3. g[l] = f[l] /\ g[l - 1] = f[l - 1]
        BY <2>3, <4>1
      <4> QED
        BY <3>3, <4>2, <4>3
    <3> QED
      BY <3>1, <3>2, <3>3
  <2>5. Pools(g, ps, k + 1)
    BY <2>2, <2>4 DEF Pools
  <2> QED
    BY <1>1, <2>5, <1>3
<1>4. \A k \in 0..n : k \in S
  BY <1>2, <1>3, UpTo
<1> QED
  BY <1>1, <1>4

LEMMA SortedPoints ==
  ASSUME NEW ps, Points(ps)
  PROVE  Points(Sorted(ps, DOMAIN ps, ByScore))
<1>1. PICK D, less : D = DOMAIN ps /\ less = Less(ps, D, ByScore)
  OBVIOUS
<1>2. IsFiniteSet(D) /\ D \subseteq Int
  BY <1>1, ListDomain DEF Points
<1>3. \A i, j \in D : <<i, j>> \in less <=> ps[i].x < ps[j].x
  <2> TAKE i \in D, j \in D
  <2>1. PICK p : p = <<i, j>>
    OBVIOUS
  <2>2. p[1] = i /\ p[2] = j /\ p \in D \X D
    BY <2>1
  <2> QED
    BY <1>1, <2>1, <2>2 DEF Less, ByScore
<1>4. WeakOrder(D, less)
  <2>1. \A i \in D : ps[i].x \in Int
    BY <1>1 DEF Points
  <2> QED
    BY <1>3, <2>1 DEF WeakOrder
<1>5. PICK t : t = Arranged(ps, D, Stable(D, less))
  OBVIOUS
<1>6. PICK at : Lists(t, ps, D, at)
  BY <1>2, <1>4, <1>5, SortedLists
<1>7. IsList(t)
  BY <1>6, ListIn DEF Lists
<1>8. \A k \in DOMAIN t : t[k].x \in Int /\ t[k].y \in 0..1
  <2> TAKE k \in DOMAIN t
  <2>1. at[k] \in D /\ t[k] = ps[at[k]]
    BY <1>6 DEF Lists
  <2> QED
    BY <1>1, <2>1 DEF Points
<1>9. Sorted(ps, DOMAIN ps, ByScore) = t
  BY <1>1, <1>5 DEF Sorted
<1> QED
  BY <1>7, <1>8, <1>9 DEF Points

LEMMA IsotonicCurve ==
  ASSUME NEW ps, Points(ps)
  PROVE  IsCurve(Isotonic(ps))
<1>1. PICK sorted, n : sorted = Sorted(ps, DOMAIN ps, ByScore) /\ n = 2 * Len(ps)
  OBVIOUS
<1>2. Points(sorted) /\ n \in Nat
  BY <1>1, SortedPoints, ListDomain DEF Points
<1>3. PICK f : f = CHOOSE g : Pools(g, sorted, n)
  OBVIOUS
<1>4. Pools(f, sorted, n)
  BY <1>2, <1>3, PoolsExist
<1>5. PICK bs : bs = f[n].blocks
  OBVIOUS
<1>6. Isotonic(ps) = [i \in DOMAIN bs |-> [left |-> bs[i].left, mean |-> (bs[i].sum * One) \div bs[i].count]]
  BY <1>1, <1>3, <1>5 DEF Isotonic, Pools, NoBlocks
<1>7. PICK S : S = {k \in 0..n : Pooling(f[k])}
  OBVIOUS
<1>8. 0 \in S
  <2>1. f[0] = NoBlocks
    BY <1>2, <1>4 DEF Pools
  <2>2. Blocks(<<>>)
    BY EmptyList DEF Blocks
  <2> QED
    BY <1>2, <1>7, <2>1, <2>2 DEF Pooling, NoBlocks
<1>9. ASSUME NEW k \in 0..n, k < n, k \in S
      PROVE  k + 1 \in S
  <2>1. k + 1 \in 0..n /\ k + 1 # 0 /\ (k + 1) - 1 = k
    BY <1>2, <1>9
  <2>2. f[k + 1] = Turn(f[k], sorted)
    BY <1>4, <2>1 DEF Pools
  <2> QED
    BY <1>2, <1>7, <1>9, <2>1, <2>2, TurnPools
<1>10. \A k \in 0..n : k \in S
  BY <1>2, <1>8, <1>9, UpTo
<1>11. Blocks(bs)
  <2>1. n \in 0..n
    BY <1>2
  <2>2. Pooling(f[n])
    BY <1>7, <1>10, <2>1
  <2> QED
    BY <1>5, <2>2 DEF Pooling
<1>12. PICK curve : curve = [i \in DOMAIN bs |-> [left |-> bs[i].left, mean |-> (bs[i].sum * One) \div bs[i].count]]
  OBVIOUS
<1>13. \A i \in DOMAIN bs : curve[i].mean \in Int
  <2> TAKE i \in DOMAIN bs
  <2>1. PICK a, b : a = bs[i].sum * One /\ b = bs[i].count
    OBVIOUS
  <2>2. a \in Nat /\ b \in Nat /\ b > 0
    BY <1>11, <2>1 DEF Blocks, One
  <2>3. a \div b \in Int
    BY <2>2, Division
  <2> QED
    BY <1>12, <2>1, <2>3
<1>14. IsList(curve)
  <2>1. DOMAIN bs = 1..Len(bs) /\ Len(bs) \in Nat
    BY <1>11, ListDomain DEF Blocks
  <2>2. curve \in [1..Len(bs) -> Range(curve)]
    BY <1>12, <2>1 DEF Range
  <2> QED
    BY <2>1, <2>2, ListOf, ListIn
<1> QED
  BY <1>6, <1>12, <1>13, <1>14 DEF IsCurve

\* A function on the domain of a list is a list.
LEMMA ListLike ==
  ASSUME NEW s, IsList(s), NEW e, e = [k \in DOMAIN s |-> e[k]]
  PROVE  /\ IsList(e) /\ Len(e) = Len(s) /\ DOMAIN e = DOMAIN s
         /\ \A x : x \in Range(e) <=> \E k \in DOMAIN s : e[k] = x
<1>1. DOMAIN s = 1..Len(s) /\ Len(s) \in Nat
  BY ListDomain
<1>2. DOMAIN e = DOMAIN s
  OBVIOUS
<1>3. e \in [1..Len(s) -> Range(e)]
  BY <1>1, <1>2 DEF Range
<1>4. IsList(e) /\ Len(e) = Len(s)
  BY <1>1, <1>3, ListOf, ListIn
<1> QED
  BY <1>2, <1>4 DEF Range

Labelled(known) == IsList(known) /\ \A k \in DOMAIN known : known[k].confidence \in Int

LEMMA SamplesArePoints ==
  ASSUME NEW known, Labelled(known), NEW rs, NEW method, NEW embodiment
  PROVE  Points(SamplesOf(known, rs, method, embodiment))
<1>1. PICK S : /\ S \subseteq DOMAIN known
               /\ SamplesOf(known, rs, method, embodiment)
                    = [i \in DOMAIN Picked(known, S) |-> SampleOf(known, Picked(known, S)[i])]
  BY DEF SamplesOf
<1>2. S \subseteq DOMAIN known /\ IsFiniteSet(S) /\ S \subseteq Int
  BY <1>1, ListDomain, FS_Subset DEF Labelled
<1>3. PICK rows : rows = Picked(known, S)
  OBVIOUS
<1>4. PICK at : Lists(rows, known, S, at)
  BY <1>2, <1>3, PickedLists
<1>5. IsList(rows)
  BY <1>4, ListIn DEF Lists
<1>6. \A i \in DOMAIN rows : rows[i].confidence \in Int
  <2> TAKE i \in DOMAIN rows
  <2>1. at[i] \in S /\ rows[i] = known[at[i]]
    BY <1>4 DEF Lists
  <2> QED
    BY <1>2, <2>1 DEF Labelled
<1>7. PICK t : t = [i \in DOMAIN rows |-> SampleOf(known, rows[i])]
  OBVIOUS
<1>8. \A i \in DOMAIN rows : t[i].x \in Int /\ t[i].y \in 0..1
  BY <1>6, <1>7 DEF SampleOf
<1>9. IsList(t) /\ DOMAIN t = DOMAIN rows
  <2>1. t = [k \in DOMAIN rows |-> t[k]]
    BY <1>7
  <2> QED
    BY <1>5, <2>1, ListLike
<1>10. SamplesOf(known, rs, method, embodiment) = t
  BY <1>1, <1>3, <1>7 DEF SamplesOf
<1> QED
  BY <1>8, <1>9, <1>10 DEF Points

LEMMA FitCurves ==
  ASSUME NEW known, Labelled(known), NEW rs, NEW least
  PROVE  IsCurves(Fit(known, rs, least))
<1>1. PICK curves : curves = Fit(known, rs, least)
  OBVIOUS
<1>2. ASSUME NEW b \in DOMAIN curves
      PROVE  IsCurve(curves[b])
  <2>1. PICK samples : samples = SamplesOf(known, rs, b[1], b[2])
    OBVIOUS
  <2>2. curves[b] = Isotonic(samples)
    BY <1>1, <2>1 DEF Fit
  <2>3. Points(samples)
    BY <2>1, SamplesArePoints
  <2> QED
    BY <2>2, <2>3, IsotonicCurve
<1> QED
  BY <1>1, <1>2 DEF IsCurves

LEMMA CurveValue ==
  ASSUME NEW curve, IsCurve(curve), NEW x \in Int
  PROVE  EvalIsotonic(curve, x) \in Int
<1>1. CASE curve = <<>>
  BY <1>1 DEF EvalIsotonic
<1>2. CASE curve # <<>>
  <2>1. PICK below : below = {i \in DOMAIN curve : \A j \in 1..i : curve[j].left <= x}
    OBVIOUS
  <2>2. DOMAIN curve = 1..Len(curve) /\ Len(curve) \in Nat /\ IsFiniteSet(DOMAIN curve) /\ curve \in Seq(Range(curve))
    BY ListDomain DEF IsCurve, IsList
  <2>3. 1 \in DOMAIN curve
    <3>1. Len(curve) # 0
      BY <1>2, <2>2, EmptySeq
    <3> QED
      BY <2>2, <3>1
  <2>4. below \subseteq Int /\ IsFiniteSet(below)
    BY <2>1, <2>2, FS_Subset
  <2>5. below # {} => Greatest(below) \in DOMAIN curve
    BY <2>1, <2>4, GreatestIs
  <2>6. PICK i : i = IF below = {} THEN 1 ELSE Greatest(below)
    OBVIOUS
  <2>7. i \in DOMAIN curve
    BY <2>3, <2>5, <2>6
  <2>8. EvalIsotonic(curve, x) = curve[i].mean
    BY <1>2, <2>1, <2>6 DEF EvalIsotonic
  <2> QED
    BY <2>7, <2>8 DEF IsCurve
<1> QED
  BY <1>1, <1>2

LEMMA Clamped ==
  ASSUME NEW x \in Int, NEW lo \in Int, NEW hi \in Int, lo <= hi
  PROVE  Clamp(x, lo, hi) \in lo..hi
BY DEF Clamp

LEMMA CalibratedScore ==
  ASSUME NEW curves, IsCurves(curves), NEW method, NEW embodiment, NEW raw \in Int
  PROVE  /\ Calibrate(curves, method, embodiment, raw) \in 0..One
         /\ method \in Known => Calibrate(curves, method, embodiment, raw) = One
<1>1. One \in Nat
  BY DEF One
<1>2. PICK score : score = Clamp(raw, 0, One)
  OBVIOUS
<1>3. score \in Int
  BY <1>1, <1>2, Clamped
<1>4. PICK b : b = <<method, embodiment>>
  OBVIOUS
<1>5. PICK calibrated : calibrated = CASE method \in Known -> One
                        [] method \notin Known /\ b \in DOMAIN curves -> EvalIsotonic(curves[b], score)
                        [] OTHER -> score
  OBVIOUS
<1>6. calibrated \in Int /\ (method \in Known => calibrated = One)
  <2>1. CASE method \in Known
    BY <1>1, <1>5, <2>1
  <2>2. CASE method \notin Known /\ b \in DOMAIN curves
    <3>1. EvalIsotonic(curves[b], score) \in Int
      BY <1>3, <2>2, CurveValue DEF IsCurves
    <3> QED
      BY <1>5, <2>2, <3>1
  <2>3. CASE method \notin Known /\ b \notin DOMAIN curves
    BY <1>3, <1>5, <2>3
  <2> QED
    BY <2>1, <2>2, <2>3
<1>7. Calibrate(curves, method, embodiment, raw) = Clamp(calibrated, 0, One)
  BY <1>2, <1>4, <1>5 DEF Calibrate
<1>8. Clamp(One, 0, One) = One
  BY DEF Clamp, One
<1> QED
  BY <1>1, <1>6, <1>7, <1>8, Clamped

(***************************************************************************)
(* The recency kernel.                                                     *)
(***************************************************************************)

LEMMA DivisionGrows ==
  ASSUME NEW a \in Nat, NEW b \in Nat, NEW w \in Nat, w > 0, a <= b
  PROVE  a \div w <= b \div w
<1>1. PICK p, q : p = a \div w /\ q = b \div w
  OBVIOUS
<1>2. p \in Nat /\ q \in Nat /\ w * p <= a /\ b < w * q + w
  BY <1>1, Division
<1>3. w * p \in Int /\ w * q \in Int /\ w * (q + 1) = w * q + w
  BY <1>2
<1>4. w * p <= w * (q + 1)
  BY ONLY <1>2, <1>3, a \in Nat, b \in Nat, a <= b, w \in Nat
<1>5. CASE q + 1 <= p
  <2>1. w * (q + 1) <= w * p
    BY <1>2, <1>5
  <2>2. w * p < w * q + w
    BY ONLY <1>2, <1>3, a \in Nat, b \in Nat, a <= b, w \in Nat
  <2> QED
    BY ONLY <2>1, <2>2, <1>3, w \in Nat
<1>6. CASE ~(q + 1 <= p)
  BY <1>1, <1>2, <1>6
<1> QED
  BY <1>5, <1>6

LEMMA KernelFalls ==
  /\ \A i \in 1..13 : Kernel[i] \in Nat
  /\ \A i, j \in 1..13 : i <= j => Kernel[i] >= Kernel[j]
<1>1. /\ Kernel[1] = 1000 /\ Kernel[2] = 779 /\ Kernel[3] = 607 /\ Kernel[4] = 472 /\ Kernel[5] = 368
      /\ Kernel[6] = 287 /\ Kernel[7] = 223 /\ Kernel[8] = 174 /\ Kernel[9] = 135 /\ Kernel[10] = 105
      /\ Kernel[11] = 82 /\ Kernel[12] = 64 /\ Kernel[13] = 50
  BY DEF Kernel
<1>2. \A i \in 1..13 : i = 1 \/ i = 2 \/ i = 3 \/ i = 4 \/ i = 5 \/ i = 6 \/ i = 7 \/ i = 8 \/ i = 9 \/ i = 10
                        \/ i = 11 \/ i = 12 \/ i = 13
  OBVIOUS
<1> QED
  BY ONLY <1>1, <1>2

\* Nearer counts for more.
LEMMA RecencyFalls ==
  ASSUME NEW d \in Nat, NEW e \in Nat, NEW w \in Nat, d <= e, e <= w
  PROVE  Recency(d, w) \in Nat /\ Recency(e, w) \in Nat /\ Recency(d, w) >= Recency(e, w)
<1>1. CASE w <= 0
  BY <1>1 DEF Recency, One
<1>2. CASE ~(w <= 0)
  <2>1. PICK a, b, c : a = 12 * d /\ b = 12 * e /\ c = 12 * w
    OBVIOUS
  <2>2. a \in Nat /\ b \in Nat /\ c \in Nat /\ a <= b /\ b <= c /\ w > 0
    BY <1>2, <2>1
  <2>3. PICK p, q, x : p = a \div w /\ q = b \div w /\ x = c \div w
    OBVIOUS
  <2>4. p \in Nat /\ q \in Nat /\ x \in Nat /\ w * x <= c
    BY <2>2, <2>3, Division
  <2>5. p <= q /\ q <= x
    BY <2>2, <2>3, DivisionGrows
  <2>6. x <= 12
    <3>1. w * x <= w * 12
      BY <2>1, <2>4
    <3> QED
      BY <2>2, <2>4, <3>1, Cancelled
  <2>7. p + 1 \in 1..13 /\ q + 1 \in 1..13 /\ p + 1 <= q + 1
    BY <2>4, <2>5, <2>6
  <2>8. Recency(d, w) = Kernel[p + 1] /\ Recency(e, w) = Kernel[q + 1]
    BY <1>2, <2>1, <2>3 DEF Recency
  <2> QED
    BY <2>7, <2>8, KernelFalls
<1> QED
  BY <1>1, <1>2

LEMMA TemporalScore ==
  ASSUME NEW delay \in Nat, NEW window \in Nat
  PROVE  TemporalRawScore(delay, window) \in Int
<1>1. CASE window > 0
  <2>1. PICK a : a = One * delay
    OBVIOUS
  <2>2. a \in Nat
    BY <2>1 DEF One
  <2>3. PICK x : x = a \div window
    OBVIOUS
  <2>4. x \in Int
    BY <1>1, <2>2, <2>3, Division
  <2>5. One - x \in Int
    BY <2>4 DEF One
  <2> QED
    BY <1>1, <2>1, <2>3, <2>5 DEF TemporalRawScore
<1>2. CASE ~(window > 0)
  BY <1>2 DEF TemporalRawScore, One
<1> QED
  BY <1>1, <1>2

(***************************************************************************)
(* Credit that is distributed.                                             *)
(***************************************************************************)

IsShares(weights, n) ==
    IsList(weights) /\ Len(weights) = n /\ SumSeq(weights) = One /\ \A i \in 1..n : weights[i] \in 0..One

LEMMA WholeShare == IsShares(<<One>>, 1)
<1>1. PICK w : w = [i \in 1..1 |-> One]
  OBVIOUS
<1>2. w = <<One>>
  BY <1>1
<1>3. w \in [1..1 -> Int] /\ \A i \in 1..1 : w[i] = One
  BY <1>1 DEF One
<1>4. IsList(w) /\ Len(w) = 1
  BY <1>3, ListOf, ListIn
<1>5. Numbers(w, 1)
  BY <1>3, <1>4 DEF Numbers
<1>6. SumSeq(w) = Totals(w)[1] /\ Totals(w)[0] = 0 /\ \A k \in 1..1 : Totals(w)[k] = Totals(w)[k - 1] + w[k]
  BY <1>5, TotalsAre
<1>7. Totals(w)[1] = Totals(w)[0] + w[1]
  <2>1. 1 \in 1..1 /\ 1 - 1 = 0
    OBVIOUS
  <2> QED
    BY <1>6, <2>1
<1>8. SumSeq(w) = One
  BY <1>3, <1>6, <1>7 DEF One
<1>9. One \in 0..One
  BY DEF One
<1> QED
  BY <1>2, <1>3, <1>4, <1>8, <1>9 DEF IsShares

IsCandidates(cands) ==
    /\ IsList(cands) /\ Len(cands) > 0
    /\ \A k \in DOMAIN cands : /\ cands[k].delta \in Nat /\ cands[k].window \in Nat
                               /\ cands[k].delta <= cands[k].window /\ cands[k].raw \in Int

SplitAs(rows, cands, o, method, confidence, weights, n) ==
    rows = [i \in DOMAIN cands |-> BuildFeedback(o, cands[i].r, method, confidence, weights[i],
                                                IF n > 1 THEN o.id ELSE None)]

\* One confidence for all, shares of the whole, the nearer the larger.
LEMMA Distributed ==
  ASSUME NEW curves, IsCurves(curves), NEW o, NEW cands, IsCandidates(cands), NEW method,
         NEW ceiling \in 0..One, NEW n, n = Len(cands)
  PROVE  \E confidence, weights :
            /\ confidence \in 0..One /\ IsShares(weights, n)
            /\ \A i, j \in 1..n : cands[i].window = cands[j].window /\ cands[i].delta <= cands[j].delta
                                    => weights[i] + n >= weights[j]
            /\ SplitAs(Distribute(curves, o, cands, method, ceiling), cands, o, method, confidence, weights, n)
<1>1. /\ n \in Nat /\ n > 0 /\ DOMAIN cands = 1..n
      /\ \A k \in 1..n : /\ cands[k].delta \in Nat /\ cands[k].window \in Nat
                         /\ cands[k].delta <= cands[k].window /\ cands[k].raw \in Int
  BY ListDomain DEF IsCandidates
<1>2. PICK near : near = {i \in DOMAIN cands : \A j \in DOMAIN cands : cands[i].delta <= cands[j].delta}
  OBVIOUS
<1>3. near # {} /\ near \subseteq Nat
  <2>1. PICK T : T = {cands[i].delta : i \in DOMAIN cands}
    OBVIOUS
  <2>2. 1 \in DOMAIN cands
    BY <1>1
  <2>3. T \subseteq Nat /\ T # {}
    BY <1>1, <2>1, <2>2
  <2>4. PICK x \in T : \A y \in T : x <= y
    BY <2>3, LeastOf
  <2>5. PICK i \in DOMAIN cands : cands[i].delta = x
    BY <2>1
  <2>6. i \in near
    BY <1>2, <2>1, <2>4, <2>5
  <2>7. near \subseteq 1..n
    BY <1>1, <1>2
  <2>8. 1..n \subseteq Nat
    OBVIOUS
  <2> QED
    BY <2>6, <2>7, <2>8
<1>4. PICK nearest : nearest = Least(near)
  OBVIOUS
<1>5. nearest \in 1..n
  BY <1>1, <1>2, <1>3, <1>4, LeastOf DEF Least
<1>6. PICK confidence : confidence = Clamp(Calibrate(curves, method, cands[nearest].r.embodiment, cands[nearest].raw), 0, ceiling)
  OBVIOUS
<1>7. confidence \in 0..One
  <2>1. PICK score : score = Calibrate(curves, method, cands[nearest].r.embodiment, cands[nearest].raw)
    OBVIOUS
  <2>2. score \in 0..One
    BY <1>1, <1>5, <2>1, CalibratedScore
  <2>3. One \in Nat
    BY DEF One
  <2>4. score \in Int /\ ceiling \in Int /\ 0 <= ceiling /\ ceiling <= One
    BY <2>2, <2>3
  <2>5. confidence \in 0..ceiling
    BY <1>6, <2>1, <2>4, Clamped
  <2> QED
    BY <2>3, <2>4, <2>5
<1>8. PICK raws : raws = [i \in DOMAIN cands |-> Recency(cands[i].delta, cands[i].window)]
  OBVIOUS
<1>9. IsList(raws) /\ Len(raws) = n /\ \A i \in 1..n : raws[i] \in Nat
  <2>1. raws = [i \in DOMAIN cands |-> raws[i]]
    BY <1>8
  <2>2. \A i \in 1..n : raws[i] \in Nat
    <3> TAKE i \in 1..n
    <3>1. PICK d, w : d = cands[i].delta /\ w = cands[i].window
      OBVIOUS
    <3>2. d \in Nat /\ w \in Nat /\ d <= w /\ raws[i] = Recency(d, w)
      BY <1>1, <1>8, <3>1
    <3>3. d <= d
      BY <3>2
    <3>4. Recency(d, w) \in Nat
      BY ONLY <3>2, <3>3, RecencyFalls
    <3> QED
      BY ONLY <3>2, <3>4
  <2> QED
    BY <2>1, <2>2, ListLike DEF IsCandidates
<1>10. PICK weights : weights = ConservedCreditWeights(raws)
  OBVIOUS
<1>11. /\ IsShares(weights, n)
       /\ \A i, j \in 1..n : raws[i] >= raws[j] => weights[i] + n >= weights[j]
  BY <1>1, <1>9, <1>10, SharesConserved DEF IsShares
<1>12. ASSUME NEW i \in 1..n, NEW j \in 1..n, cands[i].window = cands[j].window, cands[i].delta <= cands[j].delta
       PROVE  weights[i] + n >= weights[j]
  <2>1. raws[i] >= raws[j]
    BY <1>1, <1>8, <1>12, RecencyFalls
  <2> QED
    BY <1>11, <2>1
<1>13. SplitAs(Distribute(curves, o, cands, method, ceiling), cands, o, method, confidence, weights, n)
  BY <1>2, <1>4, <1>6, <1>8, <1>10 DEF Distribute, SplitAs
<1> QED
  BY <1>7, <1>11, <1>12, <1>13

(***************************************************************************)
(* The tiers.  What each of them credits, it credits on evidence.          *)
(***************************************************************************)

\* What a batch is: rollouts and outcomes, a record that comes twice unchanged.
IsBatch(rs, os) ==
    /\ IsList(rs) /\ Unchanging(rs) /\ \A i \in DOMAIN rs : IsRollout(rs[i])
    /\ IsList(os) /\ Unchanging(os) /\ \A k \in DOMAIN os : IsOutcome(os[k])

Younger(r, s) == r.boot = s.boot /\ r.anchor = s.anchor /\ r.embodiment = s.embodiment /\ r.mono > s.mono

\* n rows of one outcome, with one confidence and shares of the whole.
CreditAs(a, rs, o, method, confidence, weights, n) ==
    /\ confidence \in 0..One /\ IsShares(weights, n)
    /\ method = "explicit" => confidence = One
    /\ \A k \in 1..n :
          /\ a.at[k] \in DOMAIN rs /\ Evidence(rs[a.at[k]], o, method)
          /\ a.rows[k] = BuildFeedback(o, rs[a.at[k]], method, confidence, weights[k], IF n > 1 THEN o.id ELSE None)
    /\ \A j, k \in 1..n : Younger(rs[a.at[j]], rs[a.at[k]]) => weights[j] + n >= weights[k]

\* The rows of a binding: to the rollouts at the places that it names.
Credits(a, rs, o, method) ==
    /\ a.skip = None /\ IsList(a.rows) /\ IsList(a.at) /\ Len(a.rows) = Len(a.at) /\ Len(a.at) > 0
    /\ \E confidence, weights : CreditAs(a, rs, o, method, confidence, weights, Len(a.at))

Nothing(a) == a.rows = <<>> /\ a.at = <<>>

LEMMA OneCredit ==
  ASSUME NEW rs, NEW o, NEW method, NEW i \in DOMAIN rs, Evidence(rs[i], o, method), \A k \in DOMAIN rs : rs[k].mono \in Int,
         NEW confidence \in 0..One, method = "explicit" => confidence = One
  PROVE  Credits(Bound(<<BuildFeedback(o, rs[i], method, confidence, One, None)>>, <<i>>), rs, o, method)
<1>1. PICK f : f = BuildFeedback(o, rs[i], method, confidence, One, None)
  OBVIOUS
<1>2. PICK rows, at, weights : rows = <<f>> /\ at = <<i>> /\ weights = <<One>>
  OBVIOUS
<1>3. rows[1] = f /\ at[1] = i /\ weights[1] = One
  BY <1>2
<1>4. \A x : IsList(<<x>>) /\ Len(<<x>>) = 1
  <2> TAKE x
  <2>1. Append(<<>>, x) = <<x>>
    OBVIOUS
  <2>2. IsList(Append(<<>>, x)) /\ Len(Append(<<>>, x)) = Len(<<>>) + 1
    BY EmptyList, ListAppend
  <2> QED
    BY <2>1, <2>2, EmptyList
<1>5. IsList(rows) /\ IsList(at) /\ Len(rows) = 1 /\ Len(at) = 1
  BY <1>2, <1>4
<1>6. PICK a : a = Bound(rows, at)
  OBVIOUS
<1>7. a.rows = rows /\ a.at = at /\ a.skip = None
  BY <1>6 DEF Bound
<1>8. IsShares(weights, 1)
  BY <1>2, WholeShare
<1>9. \A k \in 1..1 : /\ at[k] \in DOMAIN rs /\ Evidence(rs[at[k]], o, method)
                      /\ rows[k] = BuildFeedback(o, rs[at[k]], method, confidence, weights[k], None)
  <2> TAKE k \in 1..1
  <2>1. k = 1
    OBVIOUS
  <2> QED
    BY <1>1, <1>3, <2>1
<1>10. \A j, k \in 1..1 : ~Younger(rs[at[j]], rs[at[k]])
  <2> TAKE j, k \in 1..1
  <2>1. j = 1 /\ k = 1 /\ rs[i].mono \in Int
    OBVIOUS
  <2> QED
    BY <1>3, <2>1 DEF Younger
<1>11. Credits(a, rs, o, method)
  <2>1. /\ a.skip = None /\ IsList(a.rows) /\ IsList(a.at) /\ Len(a.at) = 1 /\ Len(a.rows) = 1
        /\ \A k \in 1..1 : a.at[k] = at[k] /\ a.rows[k] = rows[k]
    BY ONLY <1>5, <1>7
  <2>2. PICK n : n = Len(a.at)
    OBVIOUS
  <2>3. n = 1 /\ Len(a.rows) = n /\ n > 0 /\ ~(n > 1)
    BY <2>1, <2>2
  <2>4. \A k \in 1..n : /\ a.at[k] \in DOMAIN rs /\ Evidence(rs[a.at[k]], o, method)
                        /\ a.rows[k] = BuildFeedback(o, rs[a.at[k]], method, confidence, weights[k],
                                                     IF n > 1 THEN o.id ELSE None)
    <3> TAKE k \in 1..n
    <3>1. k \in 1..1
      BY <2>3
    <3>2. a.at[k] = at[k] /\ a.rows[k] = rows[k]
      BY <2>1, <3>1
    <3>3. /\ at[k] \in DOMAIN rs /\ Evidence(rs[at[k]], o, method)
          /\ rows[k] = BuildFeedback(o, rs[at[k]], method, confidence, weights[k], None)
      BY <1>9, <3>1
    <3> QED
      BY <2>3, <3>2, <3>3
  <2>5. \A j, k \in 1..n : ~Younger(rs[a.at[j]], rs[a.at[k]])
    BY <1>10, <2>1, <2>3
  <2>6. IsShares(weights, n)
    BY <1>8, <2>3
  <2>7. CreditAs(a, rs, o, method, confidence, weights, n)
    BY <2>4, <2>5, <2>6 DEF CreditAs
  <2> QED
    BY <2>1, <2>2, <2>3, <2>7 DEF Credits
<1> QED
  BY <1>1, <1>2, <1>6, <1>11

LEMMA ExplicitCredits ==
  ASSUME NEW rs, IsList(rs), \A i \in DOMAIN rs : IsRollout(rs[i]), NEW o, NEW curves, IsCurves(curves),
         ExplicitTargets(rs, o) # {}
  PROVE  \/ Nothing(ExplicitAttribute(curves, rs, o)) /\ ExplicitAttribute(curves, rs, o).skip = "CrossTenant"
            /\ \E i \in DOMAIN rs : rs[i].tenant # o.tenant
         \/ Credits(ExplicitAttribute(curves, rs, o), rs, o, "explicit")
<1>1. PICK i : i = Least(ExplicitTargets(rs, o))
  OBVIOUS
<1>2. i \in DOMAIN rs /\ rs[i].id = o.explicit
  <2>1. IsFiniteSet(ExplicitTargets(rs, o)) /\ ExplicitTargets(rs, o) \subseteq Int
    BY ListDomain, FS_Subset DEF ExplicitTargets
  <2>2. i \in ExplicitTargets(rs, o)
    BY <1>1, <2>1, LeastIs
  <2> QED
    BY <2>2 DEF ExplicitTargets
<1>3. CASE rs[i].tenant # o.tenant
  <2>1. ExplicitAttribute(curves, rs, o) = Skip("CrossTenant")
    BY <1>1, <1>3 DEF ExplicitAttribute
  <2> QED
    BY <1>2, <1>3, <2>1 DEF Nothing, Skip
<1>4. CASE rs[i].tenant = o.tenant
  <2>1. PICK confidence : confidence = Calibrate(curves, "explicit", rs[i].embodiment, One)
    OBVIOUS
  <2>2. ExplicitAttribute(curves, rs, o) = Bound(<<BuildFeedback(o, rs[i], "explicit", confidence, One, None)>>, <<i>>)
    BY <1>1, <1>4, <2>1 DEF ExplicitAttribute
  <2>3. confidence \in 0..One /\ confidence = One
    <3>1. One \in Int /\ "explicit" \in Known
      BY DEF One, Known
    <3> QED
      BY <2>1, <3>1, CalibratedScore
  <2>4. Evidence(rs[i], o, "explicit")
    BY <1>2, <1>4 DEF Evidence
  <2>5. \A k \in DOMAIN rs : rs[k].mono \in Int
    BY DEF IsRollout
  <2> QED
    BY <1>2, <2>2, <2>3, <2>4, <2>5, OneCredit
<1> QED
  BY <1>3, <1>4

\* The indices of a set of numbers, in order.
LEMMA IndicesAre ==
  ASSUME NEW S, IsFiniteSet(S), S \subseteq Int
  PROVE  IsList(Indices(S)) /\ Range(Indices(S)) = S /\ (Indices(S) = <<>> <=> S = {})
<1>1. PICK same, near : same = [i \in S |-> i] /\ near = Indices(S)
  OBVIOUS
<1>2. PICK at : Lists(near, same, S, at)
  <2>1. near = Picked(same, S)
    BY <1>1 DEF Indices
  <2>2. PICK at : Lists(Picked(same, S), same, S, at)
    BY PickedLists
  <2> QED
    BY <2>1, <2>2
<1>3. IsList(near)
  BY <1>2, ListIn DEF Lists
<1>4. Range(near) = S
  BY ZenonT(30), <1>1, <1>2 DEF Lists
<1>5. near = <<>> <=> S = {}
  BY <1>3, <1>4, EmptyList, ListDomain, EmptySeq DEF IsList
<1> QED
  BY <1>1, <1>3, <1>4, <1>5

\* Candidates for a split: rollouts at places of the batch, with evidence, and
\* the younger is the nearer.
IsSplit(cands, near, rs, o, method) ==
    /\ IsList(near) /\ Len(near) > 0 /\ IsCandidates(cands) /\ Len(cands) = Len(near)
    /\ \A k \in 1..Len(near) : near[k] \in DOMAIN rs /\ Evidence(rs[near[k]], o, method) /\ cands[k].r = rs[near[k]]
    /\ \A j, k \in 1..Len(near) : Younger(rs[near[j]], rs[near[k]]) =>
          cands[j].window = cands[k].window /\ cands[j].delta <= cands[k].delta

LEMMA SplitCredits ==
  ASSUME NEW curves, IsCurves(curves), NEW rs, NEW o, NEW method, method # "explicit", NEW near, NEW cands,
         IsSplit(cands, near, rs, o, method), NEW ceiling \in 0..One
  PROVE  Credits(Bound(Distribute(curves, o, cands, method, ceiling), near), rs, o, method)
<1>1. PICK n : n = Len(near)
  OBVIOUS
<1>2. n \in Nat /\ n > 0 /\ Len(cands) = n /\ DOMAIN cands = 1..n /\ IsCandidates(cands) /\ IsList(near) /\ IsList(cands)
  BY <1>1, ListDomain DEF IsSplit, IsCandidates
<1>3. PICK confidence, weights :
            /\ confidence \in 0..One /\ IsShares(weights, n)
            /\ \A i, j \in 1..n : cands[i].window = cands[j].window /\ cands[i].delta <= cands[j].delta
                                    => weights[i] + n >= weights[j]
            /\ SplitAs(Distribute(curves, o, cands, method, ceiling), cands, o, method, confidence, weights, n)
  BY <1>2, Distributed
<1>4. PICK rows : rows = Distribute(curves, o, cands, method, ceiling)
  OBVIOUS
<1>5. /\ IsList(rows) /\ Len(rows) = n
      /\ \A k \in 1..n : rows[k] = BuildFeedback(o, rs[near[k]], method, confidence, weights[k],
                                                 IF n > 1 THEN o.id ELSE None)
  <2>1. rows = [i \in DOMAIN cands |-> BuildFeedback(o, cands[i].r, method, confidence, weights[i],
                                                     IF n > 1 THEN o.id ELSE None)]
    BY <1>3, <1>4 DEF SplitAs
  <2>2. rows = [k \in DOMAIN cands |-> rows[k]]
    BY <2>1
  <2>3. IsList(rows) /\ Len(rows) = n
    BY <1>2, <2>2, ListLike
  <2>4. \A k \in 1..n : cands[k].r = rs[near[k]]
    BY <1>1 DEF IsSplit
  <2> QED
    BY <1>2, <2>1, <2>3, <2>4
<1>6. PICK a : a = Bound(rows, near)
  OBVIOUS
<1>7. a.rows = rows /\ a.at = near /\ a.skip = None
  BY <1>6 DEF Bound
<1>8. Len(a.at) = n /\ Len(a.rows) = n /\ IsList(a.rows) /\ IsList(a.at)
  BY <1>1, <1>2, <1>5, <1>7
<1>9. \A k \in 1..n : /\ a.at[k] \in DOMAIN rs /\ Evidence(rs[a.at[k]], o, method)
                      /\ a.rows[k] = BuildFeedback(o, rs[a.at[k]], method, confidence, weights[k],
                                                   IF n > 1 THEN o.id ELSE None)
  <2>1. \A k \in 1..n : near[k] \in DOMAIN rs /\ Evidence(rs[near[k]], o, method)
    BY <1>1 DEF IsSplit
  <2> QED
    BY <1>5, <1>7, <2>1
<1>10. \A j, k \in 1..n : Younger(rs[a.at[j]], rs[a.at[k]]) => weights[j] + n >= weights[k]
  <2>1. \A j, k \in 1..n : Younger(rs[near[j]], rs[near[k]]) =>
            cands[j].window = cands[k].window /\ cands[j].delta <= cands[k].delta
    BY <1>1 DEF IsSplit
  <2> QED
    BY <1>3, <1>7, <2>1
<1>11. Credits(a, rs, o, method)
  <2>1. CreditAs(a, rs, o, method, confidence, weights, n)
    BY <1>3, <1>9, <1>10 DEF CreditAs
  <2>2. Len(a.rows) = Len(a.at) /\ Len(a.at) > 0
    BY <1>2, <1>8
  <2> QED
    BY <1>7, <1>8, <2>1, <2>2 DEF Credits
<1> QED
  BY <1>4, <1>6, <1>11

LEMMA WindowWidth ==
  ASSUME NEW embodiment, NEW kind, ResolveWindow(embodiment, kind) # None
  PROVE  ResolveWindow(embodiment, kind).width \in Nat
BY WindowAssumption DEF ResolveWindow

LEMMA TemporalCredits ==
  ASSUME NEW rs, IsList(rs), \A i \in DOMAIN rs : IsRollout(rs[i]), NEW o, IsOutcome(o), NEW curves, IsCurves(curves),
         NEW a, a = TemporalAttribute(curves, rs, o)
  PROVE  \/ /\ Nothing(a) /\ a.skip \in {"CrossTenant", "AmbiguousMonotonicColocation", "NoCandidateInWindow"}
            /\ \A i \in DOMAIN rs : ~InTemporalWindow(rs[i], o)
            /\ a.skip = "CrossTenant" => \E i \in DOMAIN rs : rs[i].tenant # o.tenant
         \/ /\ Credits(a, rs, o, "temporal")
            /\ \A i \in DOMAIN rs : InTemporalWindow(rs[i], o) <=> i \in Range(a.at)
<1>1. PICK S : S = {i \in DOMAIN rs : InTemporalWindow(rs[i], o)}
  OBVIOUS
<1>2. IsFiniteSet(S) /\ S \subseteq Int /\ S \subseteq DOMAIN rs
  BY <1>1, ListDomain, FS_Subset
<1>3. PICK near : near = Indices(S)
  OBVIOUS
<1>4. IsList(near) /\ Range(near) = S /\ (near = <<>> <=> S = {})
  BY <1>2, <1>3, IndicesAre
<1>5. CASE S = {}
  <2>1. a = Skip(TemporalSkip(rs, o))
    BY <1>1, <1>3, <1>4, <1>5 DEF TemporalAttribute
  <2>2. /\ TemporalSkip(rs, o) \in {"CrossTenant", "AmbiguousMonotonicColocation", "NoCandidateInWindow"}
        /\ TemporalSkip(rs, o) = "CrossTenant" => \E i \in DOMAIN rs : rs[i].tenant # o.tenant
    BY DEF TemporalSkip
  <2>3. Nothing(a) /\ a.skip = TemporalSkip(rs, o)
    BY <2>1 DEF Nothing, Skip
  <2>4. \A i \in DOMAIN rs : ~InTemporalWindow(rs[i], o)
    BY <1>1, <1>5
  <2> QED
    BY <2>2, <2>3, <2>4
<1>6. CASE S # {}
  <2>1. PICK cands : cands = [k \in DOMAIN near |->
            [r |-> rs[near[k]], delta |-> MonoDelta(rs[near[k]], o), window |-> ResolveWindow(rs[near[k]].embodiment, o.kind).width,
             raw |-> TemporalRawScore(MonoDelta(rs[near[k]], o), ResolveWindow(rs[near[k]].embodiment, o.kind).width)]]
    OBVIOUS
  <2>2. a = Bound(Distribute(curves, o, cands, "temporal", One), near)
    BY <1>1, <1>3, <1>4, <1>6, <2>1 DEF TemporalAttribute
  <2>3. \A k \in DOMAIN near : near[k] \in DOMAIN rs /\ InTemporalWindow(rs[near[k]], o)
    BY <1>1, <1>4, ListDomain
  <2>4. ASSUME NEW k \in DOMAIN near
        PROVE  /\ cands[k].r = rs[near[k]] /\ cands[k].raw \in Int
               /\ cands[k].window = ResolveWindow(rs[near[k]].embodiment, o.kind).width
               /\ cands[k].window \in Nat /\ cands[k].delta \in Nat /\ cands[k].delta <= cands[k].window
               /\ cands[k].delta = o.mono - rs[near[k]].mono
               /\ Evidence(rs[near[k]], o, "temporal")
    <3>1. PICK r, w, d : r = rs[near[k]] /\ w = ResolveWindow(r.embodiment, o.kind) /\ d = MonoDelta(r, o)
      OBVIOUS
    <3>2. IsRollout(r) /\ SameRobot(r, o) /\ w # None /\ d # None /\ d \in 0..(w.width - 1)
      BY <2>3, <3>1 DEF InTemporalWindow
    <3>3. w.width \in Nat
      BY <3>1, <3>2, WindowWidth
    <3>4. r.boot = o.boot /\ d = o.mono - r.mono /\ d \in Nat /\ d <= w.width
      <4>1. r.boot = o.boot /\ d = o.mono - r.mono
        BY <3>1, <3>2 DEF MonoDelta
      <4> QED
        BY <3>2, <3>3, <4>1
    <3>5. r.mono \in Nat /\ o.mono \in Nat /\ r.mono <= o.mono
      <4>1. r.mono \in Nat /\ o.mono \in Nat
        BY <3>2 DEF IsRollout, IsOutcome
      <4> QED
        BY <3>4, <4>1
    <3>6. TemporalRawScore(d, w.width) \in Int
      BY <3>3, <3>4, TemporalScore
    <3>7. Evidence(r, o, "temporal")
      BY <3>2, <3>4, <3>5 DEF Evidence, SameRobot
    <3>8. cands[k] = [r |-> r, delta |-> d, window |-> w.width, raw |-> TemporalRawScore(d, w.width)]
      BY <2>1, <3>1
    <3> QED
      BY <3>1, <3>3, <3>4, <3>6, <3>7, <3>8
  <2>5. DOMAIN near = 1..Len(near) /\ Len(near) \in Nat /\ Len(near) > 0
    <3>1. Len(near) # 0
      BY <1>4, <1>6, EmptySeq DEF IsList
    <3> QED
      BY <1>4, <3>1, ListDomain
  <2>6. IsCandidates(cands) /\ Len(cands) = Len(near)
    <3>1. cands = [k \in DOMAIN near |-> cands[k]]
      BY <2>1
    <3>2. IsList(cands) /\ Len(cands) = Len(near) /\ DOMAIN cands = DOMAIN near
      BY <1>4, <3>1, ListLike
    <3> QED
      BY <2>4, <2>5, <3>2 DEF IsCandidates
  <2>7. ASSUME NEW j \in 1..Len(near), NEW k \in 1..Len(near), Younger(rs[near[j]], rs[near[k]])
        PROVE  cands[j].window = cands[k].window /\ cands[j].delta <= cands[k].delta
    <3>1. IsRollout(rs[near[j]]) /\ IsRollout(rs[near[k]])
      BY <2>3, <2>5
    <3>2. rs[near[j]].mono \in Nat /\ rs[near[k]].mono \in Nat /\ o.mono \in Nat
      BY <3>1 DEF IsRollout, IsOutcome
    <3>3. rs[near[j]].mono > rs[near[k]].mono /\ rs[near[j]].embodiment = rs[near[k]].embodiment
      BY <2>7 DEF Younger
    <3>4. /\ cands[j].window = ResolveWindow(rs[near[j]].embodiment, o.kind).width /\ cands[j].delta = o.mono - rs[near[j]].mono
          /\ cands[k].window = ResolveWindow(rs[near[k]].embodiment, o.kind).width /\ cands[k].delta = o.mono - rs[near[k]].mono
      BY <2>4, <2>5
    <3>5. cands[j].window = cands[k].window
      BY <3>3, <3>4
    <3>6. cands[j].delta <= cands[k].delta
      BY <3>2, <3>3, <3>4
    <3> QED
      BY <3>5, <3>6
  <2>8. IsSplit(cands, near, rs, o, "temporal")
    BY <1>4, <2>3, <2>4, <2>5, <2>6, <2>7 DEF IsSplit
  <2>9. Credits(a, rs, o, "temporal")
    <3>1. One \in 0..One
      BY DEF One
    <3> QED
      BY <2>2, <2>8, <3>1, SplitCredits
  <2>10. a.at = near
    BY <2>2 DEF Bound
  <2> QED
    BY <1>1, <1>4, <2>9, <2>10
<1> QED
  BY <1>5, <1>6

LEMMA RangeFinite ==
  ASSUME NEW s, IsList(s)
  PROVE  IsFiniteSet(Range(s))
<1>1. IsFiniteSet(DOMAIN s)
  BY ListDomain
<1>2. s \in [DOMAIN s -> Range(s)] /\ \A x \in Range(s) : \E k \in DOMAIN s : s[k] = x
  BY DEF Range, IsList
<1>3. s \in Surjection(DOMAIN s, Range(s))
  BY <1>2, Fun_IsSurj
<1> QED
  BY <1>1, <1>3, FS_Surjection

Distance(r, o) == Abs(r.pose - o.pose)
Closer(r, s, o) == \/ Distance(r, o) < Distance(s, o)
                   \/ Distance(r, o) = Distance(s, o) /\ r.id <= s.id

\* Of some rollouts one is the nearest, and of those the one with the first id.
LEMMA OneIsClosest ==
  ASSUME NEW near, near \subseteq Nat, near # {}, NEW rs, NEW o,
         \A i \in near : rs[i].id \in Nat /\ Distance(rs[i], o) \in Nat
  PROVE  Least({i \in near : \A j \in near : Closer(rs[i], rs[j], o)}) \in near
<1>1. PICK T : T = {Distance(rs[i], o) : i \in near}
  OBVIOUS
<1>2. PICK x \in T : \A y \in T : x <= y
  <2>1. T \subseteq Nat /\ T # {}
    BY <1>1
  <2> QED
    BY <2>1, LeastOf
<1>3. PICK I : I = {rs[i].id : i \in {j \in near : Distance(rs[j], o) = x}}
  OBVIOUS
<1>4. PICK m \in I : \A y \in I : m <= y
  <2>1. I \subseteq Nat /\ I # {}
    BY <1>1, <1>2, <1>3
  <2> QED
    BY <2>1, LeastOf
<1>5. PICK i \in near : Distance(rs[i], o) = x /\ rs[i].id = m
  BY <1>3, <1>4
<1>6. PICK S : S = {k \in near : \A j \in near : Closer(rs[k], rs[j], o)}
  OBVIOUS
<1>7. i \in S
  <2>1. ASSUME NEW j \in near
        PROVE  Closer(rs[i], rs[j], o)
    <3>1. PICK d, e : d = Distance(rs[i], o) /\ e = Distance(rs[j], o)
      OBVIOUS
    <3>2. d \in Nat /\ e \in Nat /\ d <= e
      BY <1>1, <1>2, <1>5, <3>1
    <3>3. d = e => rs[i].id <= rs[j].id
      BY <1>3, <1>4, <1>5, <3>1
    <3> QED
      BY <3>1, <3>2, <3>3 DEF Closer
  <2> QED
    BY <1>6, <2>1
<1>8. PICK z \in S : \A y \in S : z <= y
  <2>1. S \subseteq Nat /\ S # {}
    BY <1>6, <1>7
  <2> QED
    BY <2>1, LeastOf
<1>9. Least(S) \in S
  BY <1>8 DEF Least
<1> QED
  BY <1>6, <1>9

LEMMA SpatialCredits ==
  ASSUME NEW rs, IsList(rs), \A i \in DOMAIN rs : IsRollout(rs[i]), NEW o, IsOutcome(o), NEW curves, IsCurves(curves),
         NEW a, a = SpatialAttribute(curves, rs, o)
  PROVE  /\ Nothing(a) \/ Credits(a, rs, o, "spatial")
         /\ o.anchor = None => Nothing(a)
<1>1. CASE None \in {o.pose, o.frame, o.anchor}
  <2>1. a = Bound(<<>>, <<>>)
    BY <1>1 DEF SpatialAttribute
  <2> QED
    BY <2>1 DEF Nothing, Bound
<1>2. CASE None \notin {o.pose, o.frame, o.anchor}
  <2>1. PICK near : near = {i \in DOMAIN rs : Colocated(rs[i], o)}
    OBVIOUS
  <2>2. o.pose \in Int /\ o.anchor # None
    BY <1>2 DEF IsOutcome, May
  <2>3. CASE near = {}
    <3>1. a = Bound(<<>>, <<>>)
      BY <1>2, <2>1, <2>3 DEF SpatialAttribute
    <3> QED
      BY <2>2, <3>1 DEF Nothing, Bound
  <2>4. CASE near # {}
    <3>1. PICK i : i = Least({k \in near : \A j \in near : Closer(rs[k], rs[j], o)})
      OBVIOUS
    <3>2. PICK r, raw, confidence :
             /\ r = rs[i] /\ raw = ((SpatialEpsilon - Distance(r, o)) * SpatialCeiling) \div SpatialEpsilon
             /\ confidence = Clamp(Calibrate(curves, "spatial", r.embodiment, raw), 0, SpatialCeiling)
      OBVIOUS
    <3>3. a = Bound(<<BuildFeedback(o, rs[i], "spatial", confidence, One, None)>>, <<i>>)
      BY <1>2, <2>1, <2>4, <3>1, <3>2 DEF SpatialAttribute, Closer, Distance
    <3>4. \A k \in near : /\ k \in DOMAIN rs /\ rs[k].id \in Nat /\ rs[k].pose \in Int
                          /\ Distance(rs[k], o) \in Nat /\ Distance(rs[k], o) <= SpatialEpsilon
      <4> TAKE k \in near
      <4>1. k \in DOMAIN rs /\ IsRollout(rs[k]) /\ Colocated(rs[k], o)
        BY <2>1
      <4>2. rs[k].id \in Nat /\ rs[k].pose \in Int /\ Distance(rs[k], o) <= SpatialEpsilon
        BY <4>1 DEF IsRollout, May, Colocated, Distance
      <4>3. Distance(rs[k], o) \in Nat
        BY <2>2, <4>2 DEF Distance, Abs
      <4> QED
        BY <4>1, <4>2, <4>3
    <3>5. near \subseteq Nat
      BY <2>1, ListDomain
    <3>6. i \in near
      BY <2>4, <3>1, <3>4, <3>5, OneIsClosest
    <3>7. raw \in Int
      <4>1. PICK d : d = Distance(r, o)
        OBVIOUS
      <4>2. d \in Nat /\ d <= 2
        BY <3>2, <3>4, <3>6, <4>1 DEF SpatialEpsilon
      <4>3. PICK b : b = (2 - d) * 600
        OBVIOUS
      <4>4. b \in Nat
        BY <4>2, <4>3
      <4>5. b \div 2 \in Int
        BY <4>4, Division
      <4> QED
        BY <3>2, <4>1, <4>3, <4>5 DEF SpatialEpsilon, SpatialCeiling
    <3>8. confidence \in 0..One
      <4>1. PICK score : score = Calibrate(curves, "spatial", r.embodiment, raw)
        OBVIOUS
      <4>2. score \in 0..One
        BY <3>7, <4>1, CalibratedScore
      <4>3. score \in Int
        BY <4>2 DEF One
      <4>4. Clamp(score, 0, 600) \in 0..600
        BY <4>3 DEF Clamp
      <4>5. confidence \in 0..600
        BY <3>2, <4>1, <4>4 DEF SpatialCeiling
      <4> QED
        BY <4>5 DEF One
    <3>9. Evidence(rs[i], o, "spatial")
      <4>1. Colocated(rs[i], o) /\ rs[i].pose \in Int
        BY <2>1, <3>4, <3>6
      <4> QED
        BY <1>2, <4>1 DEF Colocated, SameRobot, Evidence
    <3>10. \A k \in DOMAIN rs : rs[k].mono \in Int
      BY DEF IsRollout
    <3>11. i \in DOMAIN rs
      BY <3>4, <3>6
    <3>12. Credits(a, rs, o, "spatial")
      BY <3>3, <3>8, <3>9, <3>10, <3>11, OneCredit
    <3> QED
      BY <2>2, <3>12
  <2> QED
    BY <2>3, <2>4
<1> QED
  BY <1>1, <1>2

LEMMA CausalCredits ==
  ASSUME NEW rs, IsList(rs), \A i \in DOMAIN rs : IsRollout(rs[i]), NEW o, IsOutcome(o), NEW curves, IsCurves(curves),
         NEW a, a = CausalAttribute(curves, rs, o)
  PROVE  /\ Nothing(a) \/ Credits(a, rs, o, "causal")
         /\ o.anchor = None => Nothing(a)
<1>1. CASE o.parents = <<>> \/ o.anchor = None
  <2>1. a = Bound(<<>>, <<>>)
    BY <1>1 DEF CausalAttribute
  <2> QED
    BY <2>1 DEF Nothing, Bound
<1>2. CASE ~(o.parents = <<>> \/ o.anchor = None)
  <2>1. PICK edges : edges = [i \in DOMAIN rs |-> {e \in DOMAIN o.parents : Upstream(rs[i], o, o.parents[e])}]
    OBVIOUS
  <2>2. PICK reached : reached = {i \in DOMAIN rs : edges[i] # {}}
    OBVIOUS
  <2>3. PICK less : less = {p \in reached \X reached : Least(edges[p[1]]) < Least(edges[p[2]])}
    OBVIOUS
  <2>4. PICK near, maxLag : /\ near = Arranged([i \in reached |-> i], reached, Stable(reached, less))
                            /\ maxLag = Greatest({LagOf(o.parents[e]) : e \in DOMAIN o.parents})
    OBVIOUS
  <2>5. PICK cands : cands = [k \in DOMAIN near |->
            [r |-> rs[near[k]], delta |-> Anchored(o) - Anchored(rs[near[k]]), window |-> maxLag,
             raw |-> IF maxLag > 0 THEN ((maxLag - (Anchored(o) - Anchored(rs[near[k]]))) * CausalCeiling) \div maxLag
                     ELSE CausalCeiling]]
    OBVIOUS
  <2>6. a = IF near = <<>> THEN Bound(<<>>, <<>>)
            ELSE Bound(Distribute(curves, o, cands, "causal", CausalCeiling), near)
    <3>1. \A i \in DOMAIN rs : edges[i] = {e \in DOMAIN o.parents : Upstream(rs[i], o, o.parents[e])}
      BY <2>1
    <3>2. reached = {i \in DOMAIN rs : {e \in DOMAIN o.parents : Upstream(rs[i], o, o.parents[e])} # {}}
      BY <2>2, <3>1
    <3>3. less = {p \in reached \X reached :
                    Least({e \in DOMAIN o.parents : Upstream(rs[p[1]], o, o.parents[e])})
                      < Least({e \in DOMAIN o.parents : Upstream(rs[p[2]], o, o.parents[e])})}
      BY <2>2, <2>3, <3>1
    <3> QED
      BY <1>2, <2>4, <2>5, <3>2, <3>3 DEF CausalAttribute
  <2>7. CASE near = <<>>
    BY <1>2, <2>6, <2>7 DEF Nothing, Bound
  <2>8. CASE near # <<>>
    <3>1. IsList(o.parents) /\ DOMAIN o.parents \subseteq Int /\ IsFiniteSet(DOMAIN o.parents)
          /\ \A e \in DOMAIN o.parents : LagOf(o.parents[e]) \in Nat /\ o.parents[e] \in Range(o.parents)
      <4>1. IsList(o.parents)
        BY DEF IsOutcome
      <4>2. \A e \in DOMAIN o.parents : o.parents[e] \in Range(o.parents)
        BY <4>1, ListDomain
      <4>3. \A e \in DOMAIN o.parents : May(o.parents[e].lag, Nat)
        BY <4>2 DEF IsOutcome
      <4>4. \A e \in DOMAIN o.parents : LagOf(o.parents[e]) \in Nat
        BY <4>3 DEF May, LagOf, CausalDefaultLag
      <4> QED
        BY <4>1, <4>2, <4>4, ListDomain
    <3>2. \A i \in reached : /\ i \in DOMAIN rs /\ edges[i] # {} /\ Least(edges[i]) \in Int
                             /\ \A e \in edges[i] : e \in DOMAIN o.parents /\ Upstream(rs[i], o, o.parents[e])
      <4> TAKE i \in reached
      <4>1. i \in DOMAIN rs /\ edges[i] # {}
        BY <2>2
      <4>2. /\ edges[i] \subseteq DOMAIN o.parents
            /\ \A e \in edges[i] : Upstream(rs[i], o, o.parents[e])
        BY <2>1, <4>1
      <4>3. edges[i] \subseteq Int /\ IsFiniteSet(edges[i])
        BY <3>1, <4>2, FS_Subset
      <4>4. Least(edges[i]) \in edges[i]
        BY <4>1, <4>3, LeastIs
      <4> QED
        BY <4>1, <4>2, <4>3, <4>4
    <3>3. WeakOrder(reached, less)
      <4>1. \A i, j \in reached : <<i, j>> \in less <=> Least(edges[i]) < Least(edges[j])
        <5> TAKE i \in reached, j \in reached
        <5>1. PICK p : p = <<i, j>>
          OBVIOUS
        <5>2. p[1] = i /\ p[2] = j /\ p \in reached \X reached
          BY <5>1
        <5> QED
          BY <2>3, <5>1, <5>2
      <4>2. \A i \in reached : Least(edges[i]) \in Int
        BY <3>2
      <4> QED
        BY <4>1, <4>2 DEF WeakOrder
    <3>4. IsFiniteSet(reached) /\ reached \subseteq Int
      BY <2>2, ListDomain, FS_Subset
    <3>5. PICK same, at : same = [i \in reached |-> i] /\ Lists(near, same, reached, at)
      BY <2>4, <3>3, <3>4, SortedLists
    <3>6. IsList(near) /\ \A k \in DOMAIN near : near[k] \in reached
      <4>1. IsList(near)
        BY <3>5, ListIn DEF Lists
      <4>2. \A k \in DOMAIN near : near[k] \in reached
        BY <3>5 DEF Lists
      <4> QED
        BY <4>1, <4>2
    <3>7. Len(near) \in Nat /\ Len(near) > 0 /\ DOMAIN near = 1..Len(near)
      <4>1. Len(near) # 0
        BY <2>8, <3>6, EmptySeq DEF IsList
      <4> QED
        BY <3>6, <4>1, ListDomain
    <3>8. maxLag \in Nat /\ \A e \in DOMAIN o.parents : LagOf(o.parents[e]) <= maxLag
      <4>1. PICK lag, L : lag = [e \in DOMAIN o.parents |-> LagOf(o.parents[e])]
                          /\ L = {LagOf(o.parents[e]) : e \in DOMAIN o.parents}
        OBVIOUS
      <4>2. L = Range(lag)
        BY <4>1 DEF Range
      <4>3. IsList(lag)
        <5>1. lag = [e \in DOMAIN o.parents |-> lag[e]]
          BY <4>1
        <5> QED
          BY <3>1, <5>1, ListLike
      <4>4. IsFiniteSet(L) /\ L \subseteq Nat /\ L \subseteq Int
        BY <3>1, <4>1, <4>2, <4>3, RangeFinite
      <4>5. L # {}
        <5>1. 1 \in DOMAIN near
          BY <3>7
        <5>2. edges[near[1]] # {} /\ near[1] \in reached
          BY <3>2, <3>6, <5>1
        <5> QED
          BY <3>2, <4>1, <5>2
      <4>6. maxLag \in L /\ \A y \in L : maxLag >= y
        BY <2>4, <4>1, <4>4, <4>5, GreatestIs
      <4>7. \A e \in DOMAIN o.parents : LagOf(o.parents[e]) \in L
        BY <4>1
      <4> QED
        BY <4>4, <4>6, <4>7
    <3>9. ASSUME NEW k \in DOMAIN near
          PROVE  /\ near[k] \in DOMAIN rs /\ cands[k].r = rs[near[k]] /\ cands[k].raw \in Int
                 /\ cands[k].window = maxLag
                 /\ cands[k].delta \in Nat /\ cands[k].delta <= maxLag
                 /\ cands[k].delta = Anchored(o) - Anchored(rs[near[k]])
                 /\ rs[near[k]].anchor \in Nat /\ rs[near[k]].mono \in Nat /\ Anchored(o) \in Int
                 /\ Evidence(rs[near[k]], o, "causal")
      <4>1. PICK r, d, e : r = rs[near[k]] /\ d = Anchored(o) - Anchored(r) /\ e \in edges[near[k]]
        BY <3>2, <3>6
      <4>2. PICK edge : edge = o.parents[e]
        OBVIOUS
      <4>3. IsRollout(r) /\ near[k] \in DOMAIN rs /\ e \in DOMAIN o.parents /\ Upstream(r, o, edge)
        BY <3>2, <3>6, <4>1, <4>2
      <4>4. r.anchor \in Nat /\ r.mono \in Nat /\ o.anchor \in Nat /\ o.mono \in Nat
        BY <1>2, <4>3 DEF IsRollout, IsOutcome, May, Upstream
      <4>5. Anchored(o) \in Int /\ Anchored(r) \in Int
        BY <4>4 DEF Anchored
      <4>6. LagOf(edge) \in Nat /\ LagOf(edge) <= maxLag /\ edge \in Range(o.parents)
        BY <3>1, <3>8, <4>2, <4>3
      <4>7. d \in 0..LagOf(edge)
        BY <4>1, <4>3 DEF Upstream
      <4>8. d \in Nat /\ d <= maxLag /\ Anchored(r) <= Anchored(o)
        BY <3>8, <4>1, <4>5, <4>6, <4>7
      <4>9. Evidence(r, o, "causal")
        <5>1. r.tenant = o.tenant /\ r.robot = o.robot /\ r.station = edge.station
          BY <4>3 DEF Upstream, SameRobot
        <5>2. None \notin {r.anchor, o.anchor}
          BY <1>2, <4>3 DEF Upstream
        <5> QED
          BY <4>6, <4>8, <5>1, <5>2 DEF Evidence
      <4>10. PICK raw : raw = IF maxLag > 0 THEN ((maxLag - d) * CausalCeiling) \div maxLag ELSE CausalCeiling
        OBVIOUS
      <4>11. raw \in Int
        <5>1. PICK b : b = (maxLag - d) * CausalCeiling
          OBVIOUS
        <5>2. b \in Nat
          BY <3>8, <4>8, <5>1 DEF CausalCeiling
        <5>3. maxLag > 0 => b \div maxLag \in Int
          BY <3>8, <5>2, Division
        <5> QED
          BY <4>10, <5>1, <5>3 DEF CausalCeiling
      <4>12. cands[k] = [r |-> r, delta |-> d, window |-> maxLag, raw |-> raw]
        BY <2>5, <4>1, <4>10
      <4> QED
        BY <4>1, <4>3, <4>4, <4>5, <4>8, <4>9, <4>11, <4>12
    <3>10. IsCandidates(cands) /\ Len(cands) = Len(near)
      <4>1. cands = [k \in DOMAIN near |-> cands[k]]
        BY <2>5
      <4>2. IsList(cands) /\ Len(cands) = Len(near) /\ DOMAIN cands = DOMAIN near
        BY <3>6, <4>1, ListLike
      <4> QED
        BY <3>7, <3>8, <3>9, <4>2 DEF IsCandidates
    <3>11. ASSUME NEW j \in 1..Len(near), NEW k \in 1..Len(near), Younger(rs[near[j]], rs[near[k]])
           PROVE  cands[j].window = cands[k].window /\ cands[j].delta <= cands[k].delta
      <4>1. PICK r, s : r = rs[near[j]] /\ s = rs[near[k]]
        OBVIOUS
      <4>2. r.anchor = s.anchor /\ r.mono > s.mono
        BY <3>11, <4>1 DEF Younger
      <4>3. r.anchor \in Nat /\ r.mono \in Nat /\ s.mono \in Nat /\ Anchored(o) \in Int
        BY <3>7, <3>9, <4>1
      <4>4. Anchored(r) >= Anchored(s) /\ Anchored(r) \in Int /\ Anchored(s) \in Int
        BY <4>2, <4>3 DEF Anchored
      <4>5. /\ cands[j].delta = Anchored(o) - Anchored(r) /\ cands[k].delta = Anchored(o) - Anchored(s)
            /\ cands[j].window = maxLag /\ cands[k].window = maxLag
        BY <3>7, <3>9, <4>1
      <4> QED
        BY <4>3, <4>4, <4>5
    <3>12. IsSplit(cands, near, rs, o, "causal")
      BY <3>6, <3>7, <3>9, <3>10, <3>11 DEF IsSplit
    <3>13. CausalCeiling \in 0..One
      BY DEF CausalCeiling, One
    <3>14. Credits(a, rs, o, "causal")
      BY <2>6, <2>8, <3>12, <3>13, SplitCredits
    <3> QED
      BY <1>2, <3>14
  <2> QED
    BY <2>7, <2>8
<1> QED
  BY <1>1, <1>2

\* The tiers in their order: a weaker one credits only what the stronger ones
\* left, and what is left without a row has a reason.
OneIs(a, rs, o) ==
    \/ /\ Nothing(a) /\ a.skip \in SkipReasons
       /\ \/ o.kind = "heartbeat"
          \/ \E i \in DOMAIN rs : rs[i].tenant # o.tenant
          \/ ExplicitTargets(rs, o) = {} /\ \A i \in DOMAIN rs : ~InTemporalWindow(rs[i], o)
    \/ o.kind # "heartbeat" /\ ExplicitTargets(rs, o) # {} /\ Credits(a, rs, o, "explicit")
    \/ /\ o.kind # "heartbeat" /\ ExplicitTargets(rs, o) = {} /\ Credits(a, rs, o, "temporal")
       /\ \A i \in DOMAIN rs : InTemporalWindow(rs[i], o) <=> i \in Range(a.at)
    \/ /\ o.kind # "heartbeat" /\ ExplicitTargets(rs, o) = {} /\ o.anchor # None
       /\ Credits(a, rs, o, "spatial") \/ Credits(a, rs, o, "causal")
       /\ \A i \in DOMAIN rs : ~InTemporalWindow(rs[i], o)

LEMMA CreditsSome ==
  ASSUME NEW a, NEW rs, NEW o, NEW method, Credits(a, rs, o, method)
  PROVE  a.rows # <<>> /\ a.skip = None
<1>1. Len(a.rows) > 0 /\ a.skip = None
  BY DEF Credits
<1>2. CASE a.rows = <<>>
  BY <1>1, <1>2, EmptyList
<1> QED
  BY <1>1, <1>2

LEMMA OneAttributed ==
  ASSUME NEW rs, IsList(rs), \A i \in DOMAIN rs : IsRollout(rs[i]), NEW o, IsOutcome(o), NEW curves, IsCurves(curves)
  PROVE  OneIs(AttributeOne(curves, rs, o), rs, o)
<1>1. PICK a : a = AttributeOne(curves, rs, o)
  OBVIOUS
<1>2. CASE o.kind = "heartbeat"
  <2>1. a = Skip("HeartbeatSample")
    BY <1>1, <1>2 DEF AttributeOne
  <2>2. Nothing(a) /\ a.skip \in SkipReasons
    BY <2>1 DEF Skip, Nothing, SkipReasons
  <2> QED
    BY <1>1, <1>2, <2>2 DEF OneIs
<1>3. CASE o.kind # "heartbeat" /\ ExplicitTargets(rs, o) # {}
  <2>1. a = ExplicitAttribute(curves, rs, o)
    BY <1>1, <1>3 DEF AttributeOne
  <2>2. \/ Nothing(a) /\ a.skip = "CrossTenant" /\ \E i \in DOMAIN rs : rs[i].tenant # o.tenant
        \/ Credits(a, rs, o, "explicit")
    BY <1>3, <2>1, ExplicitCredits
  <2>3. "CrossTenant" \in SkipReasons
    BY DEF SkipReasons
  <2> QED
    BY <1>1, <1>3, <2>2, <2>3 DEF OneIs
<1>4. CASE o.kind # "heartbeat" /\ ExplicitTargets(rs, o) = {}
  <2>1. PICK t, s, c : /\ t = TemporalAttribute(curves, rs, o) /\ s = SpatialAttribute(curves, rs, o)
                       /\ c = CausalAttribute(curves, rs, o)
    OBVIOUS
  <2>2. a = Cascade(o, t, s, c)
    BY <1>1, <1>4, <2>1 DEF AttributeOne
  <2>3. \/ /\ Nothing(t) /\ t.skip \in {"CrossTenant", "AmbiguousMonotonicColocation", "NoCandidateInWindow"}
           /\ \A i \in DOMAIN rs : ~InTemporalWindow(rs[i], o)
           /\ t.skip = "CrossTenant" => \E i \in DOMAIN rs : rs[i].tenant # o.tenant
        \/ /\ Credits(t, rs, o, "temporal")
           /\ \A i \in DOMAIN rs : InTemporalWindow(rs[i], o) <=> i \in Range(t.at)
    BY <2>1, TemporalCredits
  <2>4. /\ Nothing(s) \/ Credits(s, rs, o, "spatial")
        /\ Nothing(c) \/ Credits(c, rs, o, "causal")
        /\ o.anchor = None => Nothing(s) /\ Nothing(c)
    BY <2>1, SpatialCredits, CausalCredits
  <2>5. CASE Credits(t, rs, o, "temporal")
    <3>1. t.skip = None
      BY <2>5, CreditsSome
    <3>2. a = t
      BY <2>2, <3>1 DEF Cascade
    <3>3. ~Nothing(t)
      BY <2>5, CreditsSome DEF Nothing
    <3>4. \A i \in DOMAIN rs : InTemporalWindow(rs[i], o) <=> i \in Range(t.at)
      BY <2>3, <3>3
    <3> QED
      BY <1>1, <1>4, <2>5, <3>2, <3>4 DEF OneIs
  <2>6. CASE ~Credits(t, rs, o, "temporal")
    <3>1. /\ Nothing(t) /\ t.skip \in SkipReasons
          /\ \A i \in DOMAIN rs : ~InTemporalWindow(rs[i], o)
      BY <2>3, <2>6 DEF SkipReasons
    <3>2. CASE t.skip \in {None, "CrossTenant"}
      <4>1. a = t
        BY <2>2, <3>2 DEF Cascade
      <4> QED
        BY <1>1, <1>4, <3>1, <4>1 DEF OneIs
    <3>3. CASE t.skip \notin {None, "CrossTenant"}
      <4>1. a = IF s.rows # <<>> THEN s
                ELSE IF c.rows # <<>> THEN c
                ELSE IF o.pose # None \/ o.parents # <<>> THEN Skip("NoSpatialOrCausalCandidate")
                ELSE t
        BY <2>2, <3>3 DEF Cascade
      <4>2. CASE s.rows # <<>>
        <5>1. Credits(s, rs, o, "spatial") /\ o.anchor # None
          BY <2>4, <4>2 DEF Nothing
        <5> QED
          BY <1>1, <1>4, <3>1, <4>1, <4>2, <5>1 DEF OneIs
      <4>3. CASE s.rows = <<>> /\ c.rows # <<>>
        <5>1. Credits(c, rs, o, "causal") /\ o.anchor # None
          BY <2>4, <4>3 DEF Nothing
        <5> QED
          BY <1>1, <1>4, <3>1, <4>1, <4>3, <5>1 DEF OneIs
      <4>4. CASE s.rows = <<>> /\ c.rows = <<>>
        <5>1. Nothing(Skip("NoSpatialOrCausalCandidate")) /\ Skip("NoSpatialOrCausalCandidate").skip \in SkipReasons
          BY DEF Nothing, Skip, SkipReasons
        <5>2. Nothing(a) /\ a.skip \in SkipReasons
          BY <3>1, <4>1, <4>4, <5>1
        <5> QED
          BY <1>1, <1>4, <3>1, <5>2 DEF OneIs
      <4> QED
        BY <4>2, <4>3, <4>4
    <3> QED
      BY <3>2, <3>3
  <2> QED
    BY <2>5, <2>6
<1> QED
  BY <1>2, <1>3, <1>4

\* What can be said of every row of an outcome.
RowFrom(f, rs, o, i, method) ==
    /\ i \in DOMAIN rs /\ Evidence(rs[i], o, method)
    /\ f.outcome = o.id /\ f.rollout = rs[i].id /\ f.tenant = o.tenant /\ f.method = method
    /\ f.slot = LabelKindOf(o.kind) /\ f.failure = (o.kind \in Failures) /\ f.retracted = FALSE
    /\ f.confidence \in 0..One /\ f.weight \in 0..One
    /\ method = "explicit" => f.confidence = One
    /\ DOMAIN f = {"tenant", "rollout", "slot", "failure", "metric", "method", "confidence", "weight", "set",
                   "outcome", "retracted", "key"}

LEMMA RowsOfCredit ==
  ASSUME NEW a, NEW rs, NEW o, NEW method, Credits(a, rs, o, method)
  PROVE  /\ DOMAIN a.rows = 1..Len(a.at) /\ DOMAIN a.at = 1..Len(a.at) /\ Len(a.at) \in Nat
         /\ \A k \in DOMAIN a.rows : RowFrom(a.rows[k], rs, o, a.at[k], method)
<1>1. DOMAIN a.rows = 1..Len(a.at) /\ DOMAIN a.at = 1..Len(a.at) /\ Len(a.at) \in Nat
  BY ListDomain DEF Credits
<1>2. PICK confidence, weights : CreditAs(a, rs, o, method, confidence, weights, Len(a.at))
  BY DEF Credits
<1>3. ASSUME NEW k \in DOMAIN a.rows
      PROVE  RowFrom(a.rows[k], rs, o, a.at[k], method)
  <2>1. PICK i, w, set : i = a.at[k] /\ w = weights[k] /\ set = IF Len(a.at) > 1 THEN o.id ELSE None
    OBVIOUS
  <2>2. PICK f : f = BuildFeedback(o, rs[i], method, confidence, w, set)
    OBVIOUS
  <2>3. /\ a.rows[k] = f /\ i \in DOMAIN rs /\ Evidence(rs[i], o, method)
        /\ confidence \in 0..One /\ w \in 0..One /\ (method = "explicit" => confidence = One)
    BY <1>1, <1>2, <1>3, <2>1, <2>2 DEF CreditAs, IsShares
  <2>4. /\ f.outcome = o.id /\ f.rollout = rs[i].id /\ f.tenant = o.tenant /\ f.method = method
        /\ f.slot = LabelKindOf(o.kind) /\ f.failure = (o.kind \in Failures) /\ f.retracted = FALSE
        /\ f.confidence = confidence /\ f.weight = w
        /\ DOMAIN f = {"tenant", "rollout", "slot", "failure", "metric", "method", "confidence", "weight", "set",
                       "outcome", "retracted", "key"}
    BY <2>2 DEF BuildFeedback
  <2>5. RowFrom(f, rs, o, i, method)
    BY <2>3, <2>4 DEF RowFrom
  <2> QED
    BY <2>1, <2>3, <2>5
<1> QED
  BY <1>1, <1>3

(***************************************************************************)
(* The rows of a whole attribution.                                        *)
(***************************************************************************)

LEMMA FlattenedElements ==
  ASSUME NEW ss, IsFiniteSet(DOMAIN ss), DOMAIN ss \subseteq Int, \A k \in DOMAIN ss : IsList(ss[k])
  PROVE  /\ IsList(Flattened(ss))
         /\ \A f : f \in Range(Flattened(ss)) <=> \E k \in DOMAIN ss : \E x \in DOMAIN ss[k] : f = ss[k][x]
<1>1. ListOfLists(ss)
  BY ListDomain DEF ListOfLists
<1>2. PICK at, s : /\ s = [p \in Places(ss) |-> ss[p[1]][p[2]]]
                   /\ Lists(Flattened(ss), s, Places(ss), at)
  BY <1>1, FlattenedLists
<1>3. IsList(Flattened(ss))
  BY <1>2, ListIn DEF Lists
<1>4. Range(Flattened(ss)) = {s[p] : p \in Places(ss)}
  BY <1>2 DEF Lists
<1>5. ASSUME NEW f
      PROVE  f \in Range(Flattened(ss)) <=> \E k \in DOMAIN ss : \E x \in DOMAIN ss[k] : f = ss[k][x]
  <2>1. ASSUME NEW p \in Places(ss), f = s[p]
        PROVE  \E k \in DOMAIN ss : \E x \in DOMAIN ss[k] : f = ss[k][x]
    <3>1. p[1] \in DOMAIN ss /\ p[2] \in DOMAIN ss[p[1]]
      BY PlacesAre
    <3>2. f = ss[p[1]][p[2]]
      BY <1>2, <2>1
    <3> QED
      BY <3>1, <3>2
  <2>2. ASSUME NEW k \in DOMAIN ss, NEW x \in DOMAIN ss[k], f = ss[k][x]
        PROVE  \E p \in Places(ss) : f = s[p]
    <3>1. PICK p : p = <<k, x>>
      OBVIOUS
    <3>2. p \in Places(ss) /\ p[1] = k /\ p[2] = x
      BY <3>1, PlacesAre
    <3> QED
      BY <1>2, <2>2, <3>2
  <2> QED
    BY <1>4, <2>1, <2>2
<1> QED
  BY <1>3, <1>5

RowFields == {"tenant", "rollout", "slot", "failure", "metric", "method", "confidence", "weight", "set",
              "outcome", "retracted", "key"}

\* A rollout whose window its own heartbeats cover.
Covered(hs, r) ==
    /\ DefaultWindow > 0 /\ StampsFor(hs, r) # {} /\ MaxGap > 0
    /\ ~(CoveredFraction(r.mono, r.mono + DefaultWindow, StampsFor(hs, r), MaxGap) < One)

SilentRow(f, r) ==
    /\ f.rollout = r.id /\ f.tenant = r.tenant /\ f.slot = "terminal_outcome" /\ f.failure = FALSE
    /\ f.method = "synthetic_absence" /\ f.confidence \in 0..One /\ f.weight \in 0..One
    /\ f.set = None /\ f.outcome = None /\ f.retracted = FALSE /\ DOMAIN f = RowFields

LEMMA FractionIsInt ==
  ASSUME NEW start \in Int, NEW end \in Int, NEW stamps, NEW gap
  PROVE  CoveredFraction(start, end, stamps, gap) \in Int
<1>1. CASE end <= start
  BY <1>1 DEF CoveredFraction
<1>2. CASE ~(end <= start)
  <2>1. PICK S, n : /\ S \subseteq start..(end - 1) /\ n = Cardinality(S)
                    /\ CoveredFraction(start, end, stamps, gap) = (n * One) \div (end - start)
    BY <1>2 DEF CoveredFraction
  <2>2. n \in Nat
    <3>1. PICK b : b = end - 1
      OBVIOUS
    <3>2. b \in Int /\ IsFiniteSet(start..b)
      BY <3>1, FS_Interval
    <3>3. IsFiniteSet(S)
      BY <2>1, <3>1, <3>2, FS_Subset
    <3> QED
      BY <2>1, <3>3, FS_CardinalityType
  <2>3. PICK a, w : a = n * One /\ w = end - start
    OBVIOUS
  <2>4. a \in Nat /\ w \in Nat /\ w > 0
    BY <1>2, <2>2, <2>3 DEF One
  <2>5. a \div w \in Int
    BY <2>4, Division
  <2> QED
    BY <2>1, <2>3, <2>5
<1> QED
  BY <1>1, <1>2

LEMMA MaxGapIsNat == MaxGap \in Nat /\ DefaultWindow \in Nat
BY WindowAssumption DEF MaxGap

LEMMA SilenceRows ==
  ASSUME NEW curves, IsCurves(curves), NEW hs, NEW r, IsRollout(r)
  PROVE  \/ ~Covered(hs, r) /\ Synthesize(curves, hs, r) = <<>>
         \/ Covered(hs, r) /\ \E f : SilentRow(f, r) /\ Synthesize(curves, hs, r) = <<f>>
<1>1. PICK covered : covered = CoveredFraction(r.mono, r.mono + DefaultWindow, StampsFor(hs, r), MaxGap)
  OBVIOUS
<1>2. covered \in Int
  <2>1. r.mono \in Int /\ r.mono + DefaultWindow \in Int
    BY WindowAssumption DEF IsRollout
  <2> QED
    BY <1>1, <2>1, FractionIsInt
<1>3. PICK confidence : confidence = Calibrate(curves, "synthetic_absence", r.embodiment, covered)
  OBVIOUS
<1>4. confidence \in 0..One /\ One \in 0..One
  BY <1>2, <1>3, CalibratedScore DEF One
<1>5. PICK f : f = [tenant |-> r.tenant, rollout |-> r.id, slot |-> "terminal_outcome", failure |-> FALSE,
                metric |-> "task_success", method |-> "synthetic_absence",
                confidence |-> confidence,
                weight |-> One, set |-> None, outcome |-> None, retracted |-> FALSE,
                key |-> AbsenceDedupKey(r, MaxGap)]
  OBVIOUS
<1>6. SilentRow(f, r)
  <2>1. /\ f.rollout = r.id /\ f.tenant = r.tenant /\ f.slot = "terminal_outcome" /\ f.failure = FALSE
        /\ f.method = "synthetic_absence" /\ f.confidence = confidence /\ f.weight = One
        /\ f.set = None /\ f.outcome = None /\ f.retracted = FALSE
    BY <1>5
  <2>2. DOMAIN f = RowFields
    BY <1>5 DEF RowFields
  <2> QED
    BY <1>4, <2>1, <2>2 DEF SilentRow
<1>7. CASE Covered(hs, r)
  <2>1. ~(DefaultWindow <= 0 \/ StampsFor(hs, r) = {} \/ MaxGap <= 0 \/ covered < One)
    BY <1>1, <1>7, MaxGapIsNat DEF Covered
  <2>2. Synthesize(curves, hs, r) = <<f>>
    BY <1>1, <1>3, <1>5, <2>1 DEF Synthesize
  <2> QED
    BY <1>6, <1>7, <2>2
<1>8. CASE ~Covered(hs, r)
  <2>1. DefaultWindow <= 0 \/ StampsFor(hs, r) = {} \/ MaxGap <= 0 \/ covered < One
    BY <1>1, <1>8, MaxGapIsNat DEF Covered
  <2>2. Synthesize(curves, hs, r) = <<>>
    BY <1>1, <2>1 DEF Synthesize
  <2> QED
    BY <1>8, <2>2
<1> QED
  BY <1>7, <1>8

\* What an attribution made of its batch.
IsMade(m) ==
    /\ IsBatch(m.rs, m.os) /\ IsCurves(m.curves) /\ \A h \in m.hs : h.mono \in Nat
    /\ m.rows = AttributeWith(m.curves, m.rs, m.os, m.hs).feedbacks
    /\ m.skipped = AttributeWith(m.curves, m.rs, m.os, m.hs).skipped

Ones(m) == [k \in DOMAIN m.os |-> AttributeOne(m.curves, m.rs, m.os[k])]
Failed(m) == UNION {Range(Ones(m)[k].at) : k \in {j \in DOMAIN m.os : m.os[j].kind \in Failures}}
Silent(m, i) == HeartbeatPeriod > 0 /\ i \notin Failed(m) /\ Covered(m.hs, m.rs[i])

LEMMA OnesAre ==
  ASSUME NEW m, IsMade(m), NEW one, one = Ones(m)
  PROVE  /\ \A k \in DOMAIN m.os : OneIs(one[k], m.rs, m.os[k]) /\ IsList(one[k].rows) /\ m.skipped[k] = one[k].skip
         /\ IsFiniteSet(DOMAIN m.os) /\ DOMAIN m.os \subseteq Int /\ IsFiniteSet(DOMAIN m.rs) /\ DOMAIN m.rs \subseteq Int
<1>1. /\ IsFiniteSet(DOMAIN m.os) /\ DOMAIN m.os \subseteq Int /\ IsFiniteSet(DOMAIN m.rs) /\ DOMAIN m.rs \subseteq Int
      /\ IsList(m.rs) /\ \A i \in DOMAIN m.rs : IsRollout(m.rs[i])
      /\ \A k \in DOMAIN m.os : IsOutcome(m.os[k])
  BY ListDomain DEF IsMade, IsBatch
<1>2. ASSUME NEW k \in DOMAIN m.os
      PROVE  OneIs(one[k], m.rs, m.os[k]) /\ IsList(one[k].rows)
  <2>1. one[k] = AttributeOne(m.curves, m.rs, m.os[k])
    BY DEF Ones
  <2>2. OneIs(one[k], m.rs, m.os[k])
    BY <1>1, <2>1, OneAttributed DEF IsMade
  <2>3. Nothing(one[k]) \/ \E method : Credits(one[k], m.rs, m.os[k], method)
    BY <2>2 DEF OneIs
  <2>4. IsList(one[k].rows)
    BY <2>3, EmptyList DEF Nothing, Credits
  <2> QED
    BY <2>2, <2>4
<1>3. m.skipped = [k \in DOMAIN m.os |-> one[k].skip]
  <2>1. m.skipped = Assembled(m.curves, m.rs, m.os, m.hs, one).skipped
    BY DEF IsMade, AttributeWith, Ones
  <2> QED
    BY <2>1 DEF Assembled
<1> QED
  BY <1>1, <1>2, <1>3

\* The two parts that the rows of an attribution are made of.
AreParts(m, one, credit, silence, a, b) ==
    /\ credit = [k \in DOMAIN m.os |-> one[k].rows]
    /\ silence = [i \in DOMAIN m.rs |-> IF HeartbeatPeriod > 0 /\ i \notin Failed(m)
                                        THEN Synthesize(m.curves, m.hs, m.rs[i]) ELSE <<>>]
    /\ a = Flattened(credit) /\ b = Flattened(silence)
    /\ m.rows = a \o b /\ IsList(a) /\ IsList(b)
    /\ \A f : f \in Range(a) <=> \E k \in DOMAIN m.os : \E x \in DOMAIN one[k].rows : f = one[k].rows[x]
    /\ \A f : f \in Range(b) => \E i \in DOMAIN m.rs : Silent(m, i) /\ SilentRow(f, m.rs[i])
    /\ \A i \in DOMAIN m.rs : Silent(m, i) => \E f \in Range(b) : SilentRow(f, m.rs[i])

LEMMA MadeParts ==
  ASSUME NEW m, IsMade(m), NEW one, one = Ones(m)
  PROVE  \E credit, silence, a, b : AreParts(m, one, credit, silence, a, b)
<1>1. /\ \A k \in DOMAIN m.os : IsList(one[k].rows)
      /\ IsFiniteSet(DOMAIN m.os) /\ DOMAIN m.os \subseteq Int /\ IsFiniteSet(DOMAIN m.rs) /\ DOMAIN m.rs \subseteq Int
  BY OnesAre
<1>2. PICK credit, silence :
            /\ credit = [k \in DOMAIN m.os |-> one[k].rows]
            /\ silence = [i \in DOMAIN m.rs |-> IF HeartbeatPeriod > 0 /\ i \notin Failed(m)
                                                THEN Synthesize(m.curves, m.hs, m.rs[i]) ELSE <<>>]
  OBVIOUS
<1>3. m.rows = Flattened(credit) \o Flattened(silence)
  <2>1. m.rows = Assembled(m.curves, m.rs, m.os, m.hs, one).feedbacks
    BY DEF IsMade, AttributeWith, Ones
  <2>2. Failed(m) = UNION {Range(one[k].at) : k \in {j \in DOMAIN m.os : m.os[j].kind \in Failures}}
    BY DEF Failed
  <2> QED
    BY <1>2, <2>1, <2>2 DEF Assembled
<1>4. \A i \in DOMAIN m.rs : IF Silent(m, i) THEN \E f : SilentRow(f, m.rs[i]) /\ silence[i] = <<f>> ELSE silence[i] = <<>>
  <2> TAKE i \in DOMAIN m.rs
  <2>1. IsRollout(m.rs[i]) /\ IsCurves(m.curves)
    BY DEF IsMade, IsBatch
  <2>2. \/ ~Covered(m.hs, m.rs[i]) /\ Synthesize(m.curves, m.hs, m.rs[i]) = <<>>
        \/ Covered(m.hs, m.rs[i]) /\ \E f : SilentRow(f, m.rs[i]) /\ Synthesize(m.curves, m.hs, m.rs[i]) = <<f>>
    BY <2>1, SilenceRows
  <2> QED
    BY <1>2, <2>2 DEF Silent
<1>5. \A x : IsList(<<x>>) /\ DOMAIN <<x>> = 1..1 /\ <<x>>[1] = x
  <2> TAKE x
  <2>1. PICK t : t = [k \in 1..1 |-> x]
    OBVIOUS
  <2>2. t = <<x>> /\ t \in [1..1 -> {x}]
    BY <2>1
  <2> QED
    BY <2>1, <2>2, ListOf, ListIn
<1>6. \A i \in DOMAIN m.rs : IsList(silence[i])
  BY <1>4, <1>5, EmptyList
<1>7. DOMAIN credit = DOMAIN m.os /\ DOMAIN silence = DOMAIN m.rs /\ \A k \in DOMAIN m.os : credit[k] = one[k].rows
  BY <1>2
<1>8. /\ IsList(Flattened(credit))
      /\ \A f : f \in Range(Flattened(credit)) <=> \E k \in DOMAIN credit : \E x \in DOMAIN credit[k] : f = credit[k][x]
  BY <1>1, <1>7, FlattenedElements
<1>9. /\ IsList(Flattened(silence))
      /\ \A f : f \in Range(Flattened(silence)) <=> \E i \in DOMAIN silence : \E x \in DOMAIN silence[i] : f = silence[i][x]
  BY <1>1, <1>6, <1>7, FlattenedElements
<1>10. ASSUME NEW f, f \in Range(Flattened(silence))
       PROVE  \E i \in DOMAIN m.rs : Silent(m, i) /\ SilentRow(f, m.rs[i])
  <2>1. PICK i \in DOMAIN m.rs : \E x \in DOMAIN silence[i] : f = silence[i][x]
    BY <1>7, <1>9, <1>10
  <2>2. silence[i] # <<>>
    BY <2>1, EmptyList
  <2>3. PICK g : SilentRow(g, m.rs[i]) /\ silence[i] = <<g>> /\ Silent(m, i)
    BY <1>4, <2>2
  <2>4. f = g
    BY <1>5, <2>1, <2>3
  <2> QED
    BY <2>3, <2>4
<1>11. ASSUME NEW i \in DOMAIN m.rs, Silent(m, i)
       PROVE  \E f \in Range(Flattened(silence)) : SilentRow(f, m.rs[i])
  <2>1. PICK f : SilentRow(f, m.rs[i]) /\ silence[i] = <<f>>
    BY <1>4, <1>11
  <2>2. 1 \in DOMAIN silence[i] /\ silence[i][1] = f
    BY <1>5, <2>1
  <2>3. f \in Range(Flattened(silence))
    BY <1>7, <1>9, <2>2
  <2> QED
    BY <2>1, <2>3
<1>12. \A f : f \in Range(Flattened(credit)) <=> \E k \in DOMAIN m.os : \E x \in DOMAIN one[k].rows : f = one[k].rows[x]
  BY <1>7, <1>8
<1>13. PICK a, b : a = Flattened(credit) /\ b = Flattened(silence)
  OBVIOUS
<1>14. AreParts(m, one, credit, silence, a, b)
  <2>1. m.rows = a \o b /\ IsList(a) /\ IsList(b)
    BY <1>3, <1>8, <1>9, <1>13
  <2>2. \A f : f \in Range(a) <=> \E k \in DOMAIN m.os : \E x \in DOMAIN one[k].rows : f = one[k].rows[x]
    BY <1>12, <1>13
  <2>3. \A f : f \in Range(b) => \E i \in DOMAIN m.rs : Silent(m, i) /\ SilentRow(f, m.rs[i])
    BY <1>10, <1>13
  <2>4. \A i \in DOMAIN m.rs : Silent(m, i) => \E f \in Range(b) : SilentRow(f, m.rs[i])
    BY <1>11, <1>13
  <2> QED
    BY ONLY <1>2, <1>13, <2>1, <2>2, <2>3, <2>4 DEF AreParts
<1> QED
  BY <1>14

\* A row of an attribution is one that an outcome credited, or one made of
\* silence; and every one of them is there.
LEMMA MadeRows ==
  ASSUME NEW m, IsMade(m), NEW one, one = Ones(m)
  PROVE  /\ IsList(m.rows)
         /\ \A f \in Range(m.rows) :
               \/ \E k \in DOMAIN m.os : \E x \in DOMAIN one[k].rows : f = one[k].rows[x]
               \/ \E i \in DOMAIN m.rs : Silent(m, i) /\ SilentRow(f, m.rs[i])
         /\ \A k \in DOMAIN m.os : \A x \in DOMAIN one[k].rows : one[k].rows[x] \in Range(m.rows)
         /\ \A i \in DOMAIN m.rs : Silent(m, i) => \E f \in Range(m.rows) : SilentRow(f, m.rs[i])
<1>1. PICK credit, silence, a, b : AreParts(m, one, credit, silence, a, b)
  BY MadeParts
<1>2. IsList(m.rows) /\ \A f : f \in Range(m.rows) <=> f \in Range(a) \/ f \in Range(b)
  BY <1>1, ListConcat DEF AreParts
<1>3. \A k \in DOMAIN m.os : \A x \in DOMAIN one[k].rows : one[k].rows[x] \in Range(m.rows)
  BY <1>1, <1>2 DEF AreParts
<1>4. \A i \in DOMAIN m.rs : Silent(m, i) => \E f \in Range(m.rows) : SilentRow(f, m.rs[i])
  BY <1>1, <1>2 DEF AreParts
<1>5. ASSUME NEW f \in Range(m.rows)
      PROVE  \/ \E k \in DOMAIN m.os : \E x \in DOMAIN one[k].rows : f = one[k].rows[x]
             \/ \E i \in DOMAIN m.rs : Silent(m, i) /\ SilentRow(f, m.rs[i])
  <2>1. CASE f \in Range(a)
    BY <1>1, <2>1 DEF AreParts
  <2>2. CASE f \in Range(b)
    BY <1>1, <2>2 DEF AreParts
  <2> QED
    BY <1>2, <2>1, <2>2
<1> QED
  BY <1>2, <1>3, <1>4, <1>5

(***************************************************************************)
(* What a report says, of any batch.                                       *)
(***************************************************************************)

CreditTiers == {"explicit", "temporal", "spatial", "causal"}

\* An attributed outcome has rows of one tier, or none.
LEMMA TierOf ==
  ASSUME NEW a, NEW rs, NEW o, OneIs(a, rs, o), a.rows # <<>>
  PROVE  /\ o.kind # "heartbeat" /\ a.skip = None
         /\ \E method \in CreditTiers :
               /\ Credits(a, rs, o, method)
               /\ method = "explicit" <=> ExplicitTargets(rs, o) # {}
               /\ method \notin {"explicit", "temporal"} => o.anchor # None /\ \A i \in DOMAIN rs : ~InTemporalWindow(rs[i], o)
               /\ method = "temporal" => \A i \in DOMAIN rs : InTemporalWindow(rs[i], o) <=> i \in Range(a.at)
<1>1. ~Nothing(a)
  BY DEF Nothing
<1>2. CASE ExplicitTargets(rs, o) # {} /\ Credits(a, rs, o, "explicit") /\ o.kind # "heartbeat"
  BY <1>2, CreditsSome DEF CreditTiers
<1>3. CASE /\ ExplicitTargets(rs, o) = {} /\ Credits(a, rs, o, "temporal") /\ o.kind # "heartbeat"
           /\ \A i \in DOMAIN rs : InTemporalWindow(rs[i], o) <=> i \in Range(a.at)
  BY <1>3, CreditsSome DEF CreditTiers
<1>4. CASE /\ ExplicitTargets(rs, o) = {} /\ o.kind # "heartbeat" /\ o.anchor # None
           /\ Credits(a, rs, o, "spatial") \/ Credits(a, rs, o, "causal")
           /\ \A i \in DOMAIN rs : ~InTemporalWindow(rs[i], o)
  BY <1>4, CreditsSome DEF CreditTiers
<1> QED
  BY <1>1, <1>2, <1>3, <1>4 DEF OneIs

LEMMA RolloutFound ==
  ASSUME IsList(report.rs), Unchanging(report.rs), NEW f, NEW i \in DOMAIN report.rs, report.rs[i].id = f.rollout
  PROVE  RolloutOf(f) = report.rs[i]
<1>1. PICK S : S = {k \in DOMAIN report.rs : report.rs[k].id = f.rollout}
  OBVIOUS
<1>2. i \in S /\ S \subseteq Int /\ IsFiniteSet(S)
  BY <1>1, ListDomain, FS_Subset
<1>3. Least(S) \in S
  BY <1>2, LeastIs
<1>4. report.rs[Least(S)] = report.rs[i]
  BY <1>1, <1>3 DEF Unchanging
<1> QED
  BY <1>1, <1>4 DEF RolloutOf

\* The rows of an outcome that was read are the ones it credited.
LEMMA RowsOfOutcome ==
  ASSUME IsMade(report), NEW one, one = Ones(report), NEW k \in DOMAIN report.os
  PROVE  /\ IsList(RowsOf(report.os[k]))
         /\ \A f : f \in Range(RowsOf(report.os[k])) <=> \E x \in DOMAIN one[k].rows : f = one[k].rows[x]
<1>1. PICK o : o = report.os[k]
  OBVIOUS
<1>2. PICK S : S = {n \in DOMAIN report.rows : report.rows[n].outcome = o.id}
  OBVIOUS
<1>3. /\ IsList(report.rows)
      /\ \A f \in Range(report.rows) :
            \/ \E j \in DOMAIN report.os : \E x \in DOMAIN one[j].rows : f = one[j].rows[x]
            \/ \E i \in DOMAIN report.rs : Silent(report, i) /\ SilentRow(f, report.rs[i])
      /\ \A j \in DOMAIN report.os : \A x \in DOMAIN one[j].rows : one[j].rows[x] \in Range(report.rows)
  BY MadeRows
<1>4. IsFiniteSet(S) /\ S \subseteq Int /\ S \subseteq DOMAIN report.rows
  BY <1>2, <1>3, ListDomain, FS_Subset
<1>5. PICK at : Lists(RowsOf(o), report.rows, S, at)
  BY <1>2, <1>4, PickedLists DEF RowsOf
<1>6. IsList(RowsOf(o)) /\ Range(RowsOf(o)) = {report.rows[n] : n \in S}
  BY <1>5, ListIn DEF Lists
<1>7. \A f : f \in Range(RowsOf(o)) <=> f \in Range(report.rows) /\ f.outcome = o.id
  <2>1. \A f : f \in Range(report.rows) <=> \E n \in DOMAIN report.rows : report.rows[n] = f
    BY DEF Range
  <2> QED
    BY <1>2, <1>6, <2>1
<1>8. o.id # None /\ Unchanging(report.os)
  BY <1>1 DEF IsMade, IsBatch, IsOutcome
<1>9. ASSUME NEW j \in DOMAIN report.os, NEW x \in DOMAIN one[j].rows
      PROVE  one[j].rows[x].outcome = report.os[j].id
  <2>1. OneIs(one[j], report.rs, report.os[j])
    BY OnesAre
  <2>2. one[j].rows # <<>>
    BY EmptyList
  <2>3. PICK method \in CreditTiers : Credits(one[j], report.rs, report.os[j], method)
    BY <2>1, <2>2, TierOf
  <2>4. RowFrom(one[j].rows[x], report.rs, report.os[j], one[j].at[x], method)
    BY <2>3, RowsOfCredit
  <2> QED
    BY <2>4 DEF RowFrom
<1>10. ASSUME NEW f, f \in Range(RowsOf(o))
       PROVE  \E x \in DOMAIN one[k].rows : f = one[k].rows[x]
  <2>1. f \in Range(report.rows) /\ f.outcome = o.id
    BY <1>7, <1>10
  <2>2. ~ \E i \in DOMAIN report.rs : Silent(report, i) /\ SilentRow(f, report.rs[i])
    BY <1>8, <2>1 DEF SilentRow
  <2>3. PICK j \in DOMAIN report.os : \E x \in DOMAIN one[j].rows : f = one[j].rows[x]
    BY <1>3, <2>1, <2>2
  <2>4. report.os[j].id = o.id
    BY <1>9, <2>1, <2>3
  <2>5. report.os[j] = o
    BY <1>1, <1>8, <2>4 DEF Unchanging
  <2>6. one[j] = one[k]
    BY <1>1, <2>5 DEF Ones
  <2> QED
    BY <2>3, <2>6
<1>11. ASSUME NEW x \in DOMAIN one[k].rows
       PROVE  one[k].rows[x] \in Range(RowsOf(o))
  BY <1>1, <1>3, <1>7, <1>9
<1> QED
  BY <1>1, <1>6, <1>10, <1>11

LEMMA MadeSupported ==
  ASSUME IsMade(report)
  PROVE  EvidenceSupportsBinding
<1>1. PICK one : one = Ones(report)
  OBVIOUS
<1>2. ASSUME NEW k \in DOMAIN report.os, NEW o, o = report.os[k], NEW methods, methods = {f.method : f \in Range(RowsOf(o))}
      PROVE  /\ \A f \in Range(RowsOf(o)) :
                  /\ Evidence(RolloutOf(f), o, f.method)
                  /\ f.method \in Known <=> (\E r \in Range(report.rs) : r.id = o.explicit)
                  /\ (\E r \in Range(report.rs) : InTemporalWindow(r, o)) /\ ~(\E r \in Range(report.rs) : r.id = o.explicit)
                        => f.method = "temporal"
                  /\ SafetyEligible(f) <=> o.explicit = f.rollout
             /\ Cardinality(methods) <= 1
             /\ IF RowsOf(o) = <<>> THEN report.skipped[k] \in SkipReasons ELSE report.skipped[k] = None
  <2>1. /\ OneIs(one[k], report.rs, o) /\ IsList(one[k].rows) /\ report.skipped[k] = one[k].skip
    BY <1>1, <1>2, OnesAre
  <2>2. /\ IsList(RowsOf(o))
        /\ \A f : f \in Range(RowsOf(o)) <=> \E x \in DOMAIN one[k].rows : f = one[k].rows[x]
    BY <1>1, <1>2, RowsOfOutcome
  <2>3. CASE one[k].rows = <<>>
    <3>1. Range(RowsOf(o)) = {}
      BY <2>2, <2>3, EmptyList
    <3>2. RowsOf(o) = <<>>
      <4>1. DOMAIN RowsOf(o) = {}
        BY <2>2, <3>1, ListDomain
      <4>2. Len(RowsOf(o)) = 0
        BY <2>2, <4>1, ListDomain
      <4> QED
        BY <2>2, <4>2, EmptySeq DEF IsList
    <3>3. one[k].skip \in SkipReasons
      BY <2>1, <2>3, CreditsSome DEF OneIs
    <3>4. methods = {} /\ Cardinality(methods) = 0
      BY <1>2, <3>1, FS_EmptySet
    <3> QED
      BY <2>1, <3>1, <3>2, <3>3, <3>4
  <2>4. CASE one[k].rows # <<>>
    <3>1. one[k].skip = None
      BY <2>1, <2>4, TierOf
    <3>2. PICK method \in CreditTiers :
               /\ Credits(one[k], report.rs, o, method)
               /\ method = "explicit" <=> ExplicitTargets(report.rs, o) # {}
               /\ method \notin {"explicit", "temporal"} => \A i \in DOMAIN report.rs : ~InTemporalWindow(report.rs[i], o)
      BY <2>1, <2>4, TierOf
    <3>3. /\ IsList(report.rs) /\ Unchanging(report.rs) /\ \A i \in DOMAIN report.rs : IsRollout(report.rs[i])
      BY DEF IsMade, IsBatch
    <3>4. ExplicitTargets(report.rs, o) # {} <=> \E r \in Range(report.rs) : r.id = o.explicit
      <4>1. \A i \in DOMAIN report.rs : report.rs[i].id # None
        BY <3>3, NoneAssumption DEF IsRollout
      <4>2. ExplicitTargets(report.rs, o) # {} <=> \E i \in DOMAIN report.rs : report.rs[i].id = o.explicit
        BY <4>1 DEF ExplicitTargets
      <4> QED
        BY <4>2 DEF Range
    <3>5. (\E r \in Range(report.rs) : InTemporalWindow(r, o)) <=> \E i \in DOMAIN report.rs : InTemporalWindow(report.rs[i], o)
      BY DEF Range
    <3>6. ASSUME NEW f \in Range(RowsOf(o))
          PROVE  /\ f.method = method /\ Evidence(RolloutOf(f), o, f.method)
                 /\ SafetyEligible(f) <=> o.explicit = f.rollout
      <4>1. PICK x \in DOMAIN one[k].rows : f = one[k].rows[x]
        BY <2>2
      <4>2. PICK i : RowFrom(f, report.rs, o, i, method)
        BY <3>2, <4>1, RowsOfCredit
      <4>3. i \in DOMAIN report.rs /\ f.rollout = report.rs[i].id /\ f.method = method /\ Evidence(report.rs[i], o, method)
            /\ f.retracted = FALSE /\ (method = "explicit" => f.confidence = One)
        BY <4>2 DEF RowFrom
      <4>4. RolloutOf(f) = report.rs[i]
        BY <3>3, <4>3, RolloutFound
      <4>5. CASE method = "explicit"
        <5>1. o.explicit = f.rollout
          BY <4>3, <4>5 DEF Evidence
        <5>2. SafetyEligible(f)
          BY <4>3, <4>5 DEF SafetyEligible, Known
        <5> QED
          BY <4>3, <4>4, <5>1, <5>2
      <4>6. CASE method # "explicit"
        <5>1. ~SafetyEligible(f)
          BY <4>3, <4>6 DEF SafetyEligible, Known, CreditTiers
        <5>2. o.explicit # f.rollout
          BY <3>2, <3>4, <4>3, <4>6 DEF Range
        <5> QED
          BY <4>3, <4>4, <5>1, <5>2
      <4> QED
        BY <4>5, <4>6
    <3>7. method \in Known <=> method = "explicit"
      BY DEF Known, CreditTiers
    <3>8. \A f \in Range(RowsOf(o)) :
                  /\ f.method \in Known <=> (\E r \in Range(report.rs) : r.id = o.explicit)
                  /\ (\E r \in Range(report.rs) : InTemporalWindow(r, o)) /\ ~(\E r \in Range(report.rs) : r.id = o.explicit)
                        => f.method = "temporal"
      BY <3>2, <3>4, <3>5, <3>6, <3>7
    <3>9. RowsOf(o) # <<>>
      <4>1. DOMAIN one[k].rows # {}
        <5>1. Len(one[k].rows) # 0
          BY <2>1, <2>4, EmptySeq DEF IsList
        <5>2. DOMAIN one[k].rows = 1..Len(one[k].rows) /\ Len(one[k].rows) \in Nat
          BY <2>1, ListDomain
        <5>3. 1 \in DOMAIN one[k].rows
          BY <5>1, <5>2
        <5> QED
          BY <5>3
      <4>2. Range(RowsOf(o)) # {}
        BY <2>2, <4>1
      <4> QED
        BY <4>2, EmptyList
    <3>10. Cardinality(methods) <= 1
      <4>1. \A m \in methods : m = method
        BY <1>2, <3>6
      <4>2. methods = {} \/ methods = {method}
        BY <4>1
      <4>3. Cardinality({method}) = 1 /\ Cardinality({}) = 0
        BY FS_Singleton, FS_EmptySet
      <4> QED
        BY <4>2, <4>3
    <3> QED
      BY <2>1, <3>1, <3>6, <3>8, <3>9, <3>10
  <2> QED
    BY <2>3, <2>4
<1> QED
  BY <1>2 DEF EvidenceSupportsBinding

(***************************************************************************)
(* Silence that is proven.                                                 *)
(***************************************************************************)

\* No stretch longer than the gap is without a stamp.
Spaced(start, end, stamps, gap) ==
    \A a, b \in start..end : b - a > gap => \E t \in stamps : a < t /\ t < b

StampPoints(start, end, stamps) == {start, end} \cup {Clamp(s, start, end) : s \in stamps}
After(points, t) == Least({q \in points : q > t})
Before(points, t) == Greatest({p \in points : p <= t})

\* The points around a unit of time are its neighbours.
LEMMA Neighbours ==
  ASSUME NEW start \in Nat, NEW end \in Nat, start < end, NEW stamps, stamps \subseteq Nat,
         NEW points, points = StampPoints(start, end, stamps), NEW t \in start..(end - 1)
  PROVE  /\ After(points, t) \in points /\ After(points, t) > t /\ \A q \in points : q > t => After(points, t) <= q
         /\ Before(points, t) \in points /\ Before(points, t) <= t /\ \A p \in points : p <= t => p <= Before(points, t)
         /\ points \subseteq start..end
<1>1. points \subseteq start..end /\ start \in points /\ end \in points
  <2>1. \A s \in stamps : Clamp(s, start, end) \in start..end
    BY DEF Clamp
  <2> QED
    BY <2>1 DEF StampPoints
<1>2. PICK A, B : A = {q \in points : q > t} /\ B = {p \in points : p <= t}
  OBVIOUS
<1>3. After(points, t) \in A /\ \A q \in A : After(points, t) <= q
  <2>1. A \subseteq Nat /\ end \in A
    BY <1>1, <1>2
  <2>2. \E x \in A : \A y \in A : x <= y
    BY <2>1, LeastOf
  <2> QED
    BY <1>2, <2>2 DEF After, Least
<1>4. Before(points, t) \in B /\ \A p \in B : Before(points, t) >= p
  <2>1. B \subseteq Nat /\ start \in B /\ t \in Nat /\ \A y \in B : y <= t
    BY <1>1, <1>2
  <2>2. \E x \in B : \A y \in B : y <= x
    BY <2>1, GreatestOf
  <2>3. \E x \in B : \A y \in B : x >= y
    BY <2>1, <2>2
  <2> QED
    BY <1>2, <2>3 DEF Before, Greatest
<1>5. \A p \in points : p \in Int
  BY <1>1
<1> QED
  BY <1>1, <1>2, <1>3, <1>4, <1>5

\* The covered part is the whole exactly when no stretch is too long.
LEMMA CoverageIs ==
  ASSUME NEW start \in Nat, NEW end \in Nat, start < end, NEW stamps, stamps \subseteq Nat, NEW gap \in Nat
  PROVE  ~(CoveredFraction(start, end, stamps, gap) < One) <=> Spaced(start, end, stamps, gap)
<1>1. PICK points, units, w : points = StampPoints(start, end, stamps) /\ units = start..(end - 1) /\ w = end - start
  OBVIOUS
<1>2. PICK S : S = {t \in units : After(points, t) - Before(points, t) <= gap}
  OBVIOUS
<1>3. PICK n : n = Cardinality(S)
  OBVIOUS
<1>4. w \in Nat /\ w > 0
  BY <1>1
<1>5. IsFiniteSet(units) /\ Cardinality(units) = w
  <2>1. PICK b : b = end - 1
    OBVIOUS
  <2>2. b \in Int /\ start \in Int /\ start <= b
    BY <2>1
  <2>3. IsFiniteSet(start..b) /\ Cardinality(start..b) = b - start + 1
    BY <2>2, FS_Interval
  <2> QED
    BY <1>1, <2>1, <2>3
<1>6. S \subseteq units /\ IsFiniteSet(S) /\ n \in Nat /\ n <= w /\ (n = w => S = units)
  <2>1. S \subseteq units
    BY <1>2
  <2> QED
    BY <1>3, <1>5, <2>1, FS_Subset, FS_CardinalityType
<1>7. CoveredFraction(start, end, stamps, gap) = (n * One) \div w
  BY <1>1, <1>2, <1>3 DEF CoveredFraction, StampPoints, After, Before
<1>8. ~((n * One) \div w < One) <=> S = units
  <2>1. PICK a, x : a = n * One /\ x = a \div w
    OBVIOUS
  <2>2. a \in Nat /\ One \in Nat /\ One > 0
    BY <1>6, <2>1 DEF One
  <2>3. x \in Nat /\ w * x <= a /\ a < w * x + w
    BY <1>4, <2>1, <2>2, Division
  <2> HIDE DEF One
  <2>4. ASSUME ~(x < One) PROVE S = units
    <3>1. w * One <= w * x
      BY <1>4, <2>2, <2>3, <2>4
    <3>2. One * w <= One * n
      BY <1>4, <1>6, <2>1, <2>2, <2>3, <3>1
    <3>3. w <= n
      BY <1>4, <1>6, <2>2, <3>2, Cancelled
    <3> QED
      BY <1>4, <1>6, <3>3
  <2>5. ASSUME S = units PROVE ~(x < One)
    <3>1. a = w * One
      BY <1>3, <1>5, <2>1, <2>5
    <3>2. CASE x < One
      <4>1. x + 1 <= One
        BY <2>2, <2>3, <3>2
      <4>2. w * (x + 1) <= w * One /\ w * (x + 1) = w * x + w
        BY <1>4, <2>2, <2>3, <4>1
      <4> QED
        BY <1>4, <2>2, <2>3, <3>1, <4>2
    <3> QED
      BY <3>2
  <2> QED
    BY <2>1, <2>4, <2>5
<1>9. ASSUME S = units PROVE Spaced(start, end, stamps, gap)
  <2>1. SUFFICES ASSUME NEW a \in start..end, NEW b \in start..end, b - a > gap
                 PROVE  \E t \in stamps : a < t /\ t < b
    BY DEF Spaced
  <2>2. a \in units
    BY <1>1, <2>1
  <2>3. PICK q, p : q = After(points, a) /\ p = Before(points, a)
    OBVIOUS
  <2>4. q \in points /\ q > a /\ p <= a /\ p \in points /\ points \subseteq start..end
    BY <1>1, <2>2, <2>3, Neighbours
  <2>5. q - p <= gap
    BY <1>2, <1>9, <2>2, <2>3
  <2>6. q \in Int /\ p \in Int /\ q < b /\ q > start /\ q < end
    BY <2>4, <2>5, <2>1
  <2>7. PICK s \in stamps : q = Clamp(s, start, end)
    BY <1>1, <2>4, <2>6 DEF StampPoints
  <2>8. q = s
    <3>1. s \in Int
      OBVIOUS
    <3> QED
      BY <2>6, <2>7, <3>1 DEF Clamp
  <2> QED
    BY <2>4, <2>6, <2>8
<1>10. ASSUME Spaced(start, end, stamps, gap) PROVE S = units
  <2>1. ASSUME NEW t \in units PROVE After(points, t) - Before(points, t) <= gap
    <3>1. PICK q, p : q = After(points, t) /\ p = Before(points, t)
      OBVIOUS
    <3>2. /\ q \in points /\ q > t /\ \A y \in points : y > t => q <= y
          /\ p \in points /\ p <= t /\ \A y \in points : y <= t => y <= p
          /\ points \subseteq start..end
      BY <1>1, <3>1, Neighbours
    <3>3. q \in start..end /\ p \in start..end /\ t \in Int
      BY <1>1, <3>2
    <3>4. CASE q - p > gap
      <4>1. PICK s \in stamps : p < s /\ s < q
        BY <1>10, <3>3, <3>4 DEF Spaced
      <4>2. s \in Int /\ Clamp(s, start, end) = s
        BY <3>3, <4>1 DEF Clamp
      <4>3. s \in points
        BY <1>1, <4>2 DEF StampPoints
      <4> QED
        BY <3>2, <3>3, <4>1, <4>2, <4>3
    <3> QED
      BY <3>1, <3>3, <3>4
  <2> QED
    BY <1>2, <2>1
<1> QED
  BY <1>7, <1>8, <1>9, <1>10

LEMMA CoveredIs ==
  ASSUME NEW hs, \A h \in hs : h.mono \in Nat, NEW r, IsRollout(r)
  PROVE  /\ StampsFor(hs, r) \subseteq Nat
         /\ Covered(hs, r) <=> /\ DefaultWindow > 0 /\ StampsFor(hs, r) # {} /\ MaxGap > 0
                               /\ Spaced(r.mono, r.mono + DefaultWindow, StampsFor(hs, r), MaxGap)
<1>1. PICK stamps : stamps = StampsFor(hs, r)
  OBVIOUS
<1>2. stamps \subseteq Nat
  BY <1>1 DEF StampsFor
<1>3. PICK start, end : start = r.mono /\ end = start + DefaultWindow
  OBVIOUS
<1>4. start \in Nat /\ end \in Nat /\ (DefaultWindow > 0 => start < end)
  BY <1>3, MaxGapIsNat DEF IsRollout
<1>5. DefaultWindow > 0 => (~(CoveredFraction(start, end, stamps, MaxGap) < One) <=> Spaced(start, end, stamps, MaxGap))
  BY <1>2, <1>4, MaxGapIsNat, CoverageIs
<1> QED
  BY <1>1, <1>2, <1>3, <1>5 DEF Covered

LEMMA MadeProven ==
  ASSUME IsMade(report)
  PROVE  AbsenceIsProven
<1>1. PICK one : one = Ones(report)
  OBVIOUS
<1>2. /\ IsList(report.rs) /\ Unchanging(report.rs) /\ \A i \in DOMAIN report.rs : IsRollout(report.rs[i])
      /\ \A h \in report.hs : h.mono \in Nat
  BY DEF IsMade, IsBatch
<1>3. ASSUME NEW f \in Range(report.rows)
      PROVE  \/ \E k \in DOMAIN report.os : \E x \in DOMAIN one[k].rows : \E method \in CreditTiers :
                   RowFrom(f, report.rs, report.os[k], one[k].at[x], method) /\ one[k].at[x] \in Range(one[k].at)
             \/ \E i \in DOMAIN report.rs : Silent(report, i) /\ SilentRow(f, report.rs[i])
  <2>1. CASE \E i \in DOMAIN report.rs : Silent(report, i) /\ SilentRow(f, report.rs[i])
    BY <2>1
  <2>2. CASE \E k \in DOMAIN report.os : \E x \in DOMAIN one[k].rows : f = one[k].rows[x]
    <3>1. PICK k \in DOMAIN report.os : \E x \in DOMAIN one[k].rows : f = one[k].rows[x]
      BY <2>2
    <3>2. PICK x \in DOMAIN one[k].rows : f = one[k].rows[x]
      BY <3>1
    <3>3. OneIs(one[k], report.rs, report.os[k]) /\ one[k].rows # <<>>
      BY <1>1, OnesAre, EmptyList
    <3>4. PICK method \in CreditTiers : Credits(one[k], report.rs, report.os[k], method)
      BY <3>3, TierOf
    <3>5. RowFrom(f, report.rs, report.os[k], one[k].at[x], method) /\ x \in DOMAIN one[k].at
      BY <3>2, <3>4, RowsOfCredit
    <3> QED
      BY <3>5 DEF Range
  <2> QED
    BY <1>1, <2>1, <2>2, MadeRows
<1>4. SUFFICES ASSUME NEW f \in Range(report.rows), f.method = "synthetic_absence", NEW r, r = RolloutOf(f),
                      NEW beats, beats = StampsFor(report.hs, r),
                      NEW twice, twice = \E i, j \in DOMAIN report.rs : i # j /\ report.rs[i].id = f.rollout /\ report.rs[j].id = f.rollout
               PROVE  /\ \/ twice
                         \/ ~ \E g \in Range(report.rows) : g.rollout = f.rollout /\ g.failure
                      /\ beats # {}
                      /\ \A a, b \in r.mono..(r.mono + DefaultWindow) :
                            b - a > MaxGap => \E t \in beats : a < t /\ t < b
  BY DEF AbsenceIsProven, StampsFor
<1>5. PICK i \in DOMAIN report.rs : Silent(report, i) /\ SilentRow(f, report.rs[i])
  BY <1>3, <1>4 DEF RowFrom, CreditTiers
<1>6. r = report.rs[i]
  BY <1>2, <1>4, <1>5, RolloutFound DEF SilentRow
<1>7. /\ DefaultWindow > 0 /\ beats # {} /\ MaxGap > 0
      /\ Spaced(r.mono, r.mono + DefaultWindow, beats, MaxGap)
  BY <1>2, <1>4, <1>5, <1>6, CoveredIs DEF Silent
<1>8. ASSUME ~twice, NEW g \in Range(report.rows), g.rollout = f.rollout, g.failure
      PROVE  FALSE
  <2>1. ~ \E j \in DOMAIN report.rs : Silent(report, j) /\ SilentRow(g, report.rs[j])
    BY <1>8 DEF SilentRow
  <2>2. PICK k \in DOMAIN report.os : \E x \in DOMAIN one[k].rows : \E method \in CreditTiers :
                   RowFrom(g, report.rs, report.os[k], one[k].at[x], method) /\ one[k].at[x] \in Range(one[k].at)
    BY <1>3, <1>8, <2>1
  <2>3. PICK j, method : RowFrom(g, report.rs, report.os[k], j, method) /\ j \in Range(one[k].at)
    BY <2>2
  <2>4. j \in DOMAIN report.rs /\ report.rs[j].id = g.rollout /\ report.os[k].kind \in Failures
    BY <1>8, <2>3 DEF RowFrom
  <2>5. report.rs[i].id = f.rollout
    BY <1>5 DEF SilentRow
  <2>6. j = i
    BY <1>4, <1>8, <2>4, <2>5
  <2>7. i \in Failed(report)
    BY <1>1, <2>3, <2>4, <2>6 DEF Failed
  <2> QED
    BY <1>5, <2>7 DEF Silent
<1> QED
  BY <1>7, <1>8 DEF Spaced

(***************************************************************************)
(* Credit that is conserved.                                               *)
(***************************************************************************)

LEMMA ConcatAt ==
  ASSUME NEW s, IsList(s), NEW t, IsList(t)
  PROVE  /\ \A n \in 1..Len(s) : n \in DOMAIN (s \o t) /\ (s \o t)[n] = s[n]
         /\ \A n \in DOMAIN (s \o t) : n \in 1..Len(s) \/ (s \o t)[n] \in Range(t)
<1>1. PICK S : S = Range(s) \cup Range(t)
  OBVIOUS
<1>2. s \in Seq(S) /\ t \in Seq(S)
  BY <1>1, SeqMonotonic DEF IsList
<1>3. PICK u : u = s \o t
  OBVIOUS
<1>4. PICK m, n : m = Len(s) /\ n = Len(t)
  OBVIOUS
<1>5. /\ m \in Nat /\ n \in Nat
      /\ u \in Seq(S) /\ Len(u) = m + n
      /\ \A i \in 1..m + n : u[i] = IF i <= m THEN s[i] ELSE t[i - m]
  BY <1>2, <1>3, <1>4, LenProperties, ConcatProperties
<1>6. DOMAIN t = 1..n /\ DOMAIN u = 1..m + n
  BY <1>2, <1>4, <1>5, LenProperties
<1>7. ASSUME NEW i \in DOMAIN u PROVE i \in 1..m \/ u[i] \in Range(t)
  <2>1. CASE i <= m
    BY <1>5, <1>6, <2>1
  <2>2. CASE ~(i <= m)
    <3>1. i - m \in DOMAIN t /\ u[i] = t[i - m]
      BY <1>5, <1>6, <2>2
    <3> QED
      BY <3>1 DEF Range
  <2> QED
    BY <2>1, <2>2
<1>8. \A i \in 1..m : i \in DOMAIN u /\ u[i] = s[i]
  BY <1>5, <1>6
<1> QED
  BY <1>3, <1>4, <1>7, <1>8

LEMMA SameLists ==
  ASSUME NEW s, IsList(s), NEW t, IsList(t), Len(s) = Len(t), \A i \in 1..Len(s) : s[i] = t[i]
  PROVE  s = t
<1>1. PICK n : n = Len(s) /\ n = Len(t)
  OBVIOUS
<1>2. s = [i \in 1..n |-> s[i]] /\ t = [i \in 1..n |-> t[i]]
  BY <1>1, ListDomain DEF IsList
<1> QED
  BY <1>1, <1>2

\* Whoever knows the enumeration knows the filtered list.
InOrder(e, keep) == IsFiniteSet(keep) /\ keep \subseteq Int /\ Enumerates(e, keep, Earlier(keep))
PickedAs(x, s, keep, e, n) == IsList(x) /\ Len(x) = n /\ \A i \in 1..n : x[i] = s[e[i]]

LEMMA PickedIs ==
  ASSUME NEW s, NEW keep, NEW e, InOrder(e, keep)
  PROVE  PickedAs(Picked(s, keep), s, keep, e, Cardinality(keep))
<1>a. PICK x, n : x = Picked(s, keep) /\ n = Cardinality(keep)
  OBVIOUS
<1>0. IsFiniteSet(keep) /\ keep \subseteq Int /\ Enumerates(e, keep, Earlier(keep))
  BY DEF InOrder
<1>1. PICK ahead : ahead = Earlier(keep)
  OBVIOUS
<1>2. TotalOrder(keep, ahead) /\ Enumerates(e, keep, ahead)
  BY <1>0, <1>1, EarlierIsTotal
<1>3. PICK at : /\ Enumerates(at, keep, ahead)
                /\ Arranged(s, keep, ahead) = [k \in 1..Cardinality(keep) |-> s[at[k]]]
  BY <1>0, <1>2, Arrangement
<1>4. e = at
  BY <1>0, <1>2, <1>3, OneEnumeration
<1>5. x = [k \in 1..n |-> s[at[k]]]
  BY <1>a, <1>1, <1>3 DEF Picked
<1>6. PICK b : Lists(x, s, keep, b)
  BY <1>a, <1>0, PickedLists
<1>7. IsList(x) /\ Len(x) = n
  BY <1>a, <1>6, ListIn DEF Lists
<1> QED
  BY <1>a, <1>4, <1>5, <1>7 DEF PickedAs

\* What is picked from a flattened list is one of its parts, when the choice
\* falls on that part only.
FallsOn(ss, b, t, k, C, keep) ==
    /\ IsFiniteSet(DOMAIN ss) /\ DOMAIN ss \subseteq Int /\ \A j \in DOMAIN ss : IsList(ss[j])
    /\ IsList(b) /\ t = Flattened(ss) \o b /\ k \in DOMAIN ss
    /\ \A x \in DOMAIN ss[k] : ss[k][x] \in C
    /\ \A j \in DOMAIN ss : j # k => \A x \in DOMAIN ss[j] : ss[j][x] \notin C
    /\ \A f \in Range(b) : f \notin C
    /\ keep = {n \in DOMAIN t : t[n] \in C}

LEMMA PickedPart ==
  ASSUME NEW ss, NEW b, NEW t, NEW k, NEW C, NEW keep, FallsOn(ss, b, t, k, C, keep)
  PROVE  Picked(t, keep) = ss[k]
<1>a. /\ IsFiniteSet(DOMAIN ss) /\ DOMAIN ss \subseteq Int /\ \A j \in DOMAIN ss : IsList(ss[j])
      /\ IsList(b) /\ t = Flattened(ss) \o b /\ k \in DOMAIN ss
      /\ \A x \in DOMAIN ss[k] : ss[k][x] \in C
      /\ \A j \in DOMAIN ss : j # k => \A x \in DOMAIN ss[j] : ss[j][x] \notin C
      /\ \A f \in Range(b) : f \notin C
      /\ keep = {n \in DOMAIN t : t[n] \in C}
  BY DEF FallsOn
<1> USE <1>a
<1>1. PICK P, order, s : P = Places(ss) /\ order = PlaceOrder(ss) /\ s = [p \in P |-> ss[p[1]][p[2]]]
  OBVIOUS
<1>2. ListOfLists(ss)
  BY ListDomain DEF ListOfLists
<1>3. PICK at : Enumerates(at, P, order) /\ Lists(Flattened(ss), s, P, at)
  BY <1>1, <1>2, FlattenedLists
<1>4. PICK a, m, L : a = Flattened(ss) /\ m = Cardinality(P) /\ L = Len(ss[k])
  OBVIOUS
<1>5. /\ m \in Nat /\ IsList(a) /\ Len(a) = m /\ \A n \in 1..m : at[n] \in P /\ a[n] = s[at[n]]
      /\ \A p \in P : \E n \in 1..m : at[n] = p
      /\ \A n, l \in 1..m : at[n] = at[l] => n = l
  BY <1>3, <1>4, ListIn DEF Lists
<1>6. \A n, l \in 1..m : n < l <=> <<at[n], at[l]>> \in order
  BY <1>3, <1>4 DEF Enumerates
<1>7. L \in Nat /\ DOMAIN ss[k] = 1..L /\ IsList(ss[k])
  BY <1>4, ListDomain
<1>8. /\ \A p \in P : p[1] \in DOMAIN ss /\ p[2] \in DOMAIN ss[p[1]] /\ p = <<p[1], p[2]>>
      /\ \A i \in 1..L : <<k, i>> \in P
  BY <1>1, <1>7, PlacesAre
<1>9. /\ \A n \in 1..m : n \in DOMAIN t /\ t[n] = a[n]
      /\ \A n \in DOMAIN t : n \in 1..m \/ t[n] \in Range(b)
  BY <1>4, <1>5, ConcatAt
<1>10. PICK e : e = [i \in 1..L |-> CHOOSE n \in 1..m : at[n] = <<k, i>>]
  OBVIOUS
<1>11. \A i \in 1..L : e[i] \in 1..m /\ at[e[i]] = <<k, i>>
  <2> TAKE i \in 1..L
  <2>1. \E n \in 1..m : at[n] = <<k, i>>
    BY <1>5, <1>8
  <2> QED
    BY <1>10, <2>1
<1>12. \A i \in 1..L : t[e[i]] = ss[k][i]
  <2> TAKE i \in 1..L
  <2>1. PICK p : p = <<k, i>>
    OBVIOUS
  <2>2. p \in P /\ p[1] = k /\ p[2] = i
    BY <1>8, <2>1
  <2>3. PICK l : l = e[i]
    OBVIOUS
  <2>4. l \in 1..m /\ at[l] = p
    BY <1>11, <2>1, <2>3
  <2>5. t[l] = s[p]
    BY <1>5, <1>9, <2>4
  <2> QED
    BY <1>1, <2>2, <2>3, <2>5
<1>13. \A i \in 1..L : e[i] \in keep
  BY <1>7, <1>9, <1>11, <1>12
<1>14. ASSUME NEW n \in keep PROVE \E i \in 1..L : e[i] = n
  <2>1. n \in 1..m /\ t[n] \in C
    BY <1>9
  <2>2. PICK p : p = at[n]
    OBVIOUS
  <2>3. p \in P /\ p[1] \in DOMAIN ss /\ p[2] \in DOMAIN ss[p[1]] /\ p = <<p[1], p[2]>>
    BY <1>5, <1>8, <2>1, <2>2
  <2>4. t[n] = ss[p[1]][p[2]]
    BY <1>1, <1>5, <1>9, <2>1, <2>2, <2>3
  <2>5. p[1] = k
    BY <2>1, <2>3, <2>4
  <2>6. p[2] \in 1..L /\ at[n] = <<k, p[2]>>
    BY <1>7, <2>2, <2>3, <2>5
  <2>7. PICK i, l : i = p[2] /\ l = e[i]
    OBVIOUS
  <2>8. i \in 1..L /\ l \in 1..m /\ at[l] = at[n]
    BY <1>11, <2>6, <2>7
  <2>9. l = n
    BY <1>5, <2>1, <2>8
  <2> QED
    BY <2>7, <2>8, <2>9
<1>15. ASSUME NEW i \in 1..L, NEW j \in 1..L
       PROVE  e[i] < e[j] <=> i < j
  <2>1. PICK p, q, pair : p = <<k, i>> /\ q = <<k, j>> /\ pair = <<p, q>>
    OBVIOUS
  <2>2. p \in P /\ q \in P /\ p[1] = k /\ p[2] = i /\ q[1] = k /\ q[2] = j /\ pair[1] = p /\ pair[2] = q
    BY <1>8, <2>1
  <2>3. k \in Int
    OBVIOUS
  <2>4. pair \in order <=> pair \in P \X P /\ (p[1] < q[1] \/ (p[1] = q[1] /\ p[2] < q[2]))
    BY <1>1, <2>2 DEF PlaceOrder
  <2>5. pair \in P \X P
    BY <2>1, <2>2
  <2>6. pair \in order <=> i < j
    BY <2>2, <2>3, <2>4, <2>5
  <2>7. e[i] < e[j] <=> pair \in order
    <3>1. PICK x, y : x = e[i] /\ y = e[j]
      OBVIOUS
    <3>2. x \in 1..m /\ y \in 1..m /\ at[x] = p /\ at[y] = q
      BY <1>11, <2>1, <3>1
    <3>3. x < y <=> <<at[x], at[y]>> \in order
      BY <1>6, <3>2
    <3> QED
      BY <2>1, <3>1, <3>2, <3>3
  <2> QED
    BY <2>6, <2>7
<1>16. ASSUME NEW i \in 1..L, NEW j \in 1..L, e[i] = e[j]
       PROVE  i = j
  <2>1. e[i] \in Int /\ ~(i < j) /\ ~(j < i)
    BY <1>11, <1>15, <1>16
  <2> QED
    BY <1>7, <2>1
<1>17. Cardinality(keep) = L /\ IsFiniteSet(keep)
  <2>1. e \in [1..L -> keep] /\ \A n \in keep : \E i \in 1..L : e[i] = n
    BY <1>10, <1>13, <1>14
  <2>2. e \in Surjection(1..L, keep)
    BY <2>1, Fun_IsSurj
  <2>3. e \in Injection(1..L, keep)
    BY <1>16, <2>1 DEF Injection, IsInjective
  <2>4. IsFiniteSet(1..L) /\ Cardinality(1..L) = L
    BY <1>7, FS_Interval
  <2> QED
    BY <2>2, <2>3, <2>4, FS_Surjection
<1>18. keep \subseteq Int
  BY <1>11, <1>14
<1>19. Enumerates(e, keep, Earlier(keep))
  <2>1. e \in [1..L -> keep]
    BY <1>10, <1>13
  <2>2. \A i, j \in 1..L : i < j <=> <<e[i], e[j]>> \in Earlier(keep)
    <3> TAKE i \in 1..L, j \in 1..L
    <3>1. PICK p : p = <<e[i], e[j]>>
      OBVIOUS
    <3>2. p[1] = e[i] /\ p[2] = e[j] /\ p \in keep \X keep
      BY <1>13, <3>1
    <3>3. p \in Earlier(keep) <=> e[i] < e[j]
      BY <3>2 DEF Earlier
    <3> QED
      BY <1>15, <3>1, <3>3
  <2> QED
    BY <1>14, <1>16, <1>17, <2>1, <2>2 DEF Enumerates
<1>20. PICK x : x = Picked(t, keep)
  OBVIOUS
<1>21. IsList(x) /\ Len(x) = L /\ \A i \in 1..L : x[i] = t[e[i]]
  <2>1. InOrder(e, keep)
    BY <1>17, <1>18, <1>19 DEF InOrder
  <2>2. PickedAs(x, t, keep, e, L)
    BY <1>17, <1>20, <2>1, PickedIs
  <2> QED
    BY <2>2 DEF PickedAs
<1>22. PICK u : u = ss[k]
  OBVIOUS
<1>23. IsList(u) /\ Len(u) = L
  BY <1>4, <1>7, <1>22
<1>24. \A i \in 1..L : x[i] = u[i]
  BY <1>12, <1>21, <1>22
<1>25. x = u
  BY <1>21, <1>23, <1>24, SameLists
<1> QED
  BY <1>20, <1>22, <1>25

\* The rows of an outcome that was read once are those that it was credited
\* with, in their order.
LEMMA RowsAre ==
  ASSUME IsMade(report), NEW one, one = Ones(report), NEW k \in DOMAIN report.os, NEW o, o = report.os[k],
         \A j \in DOMAIN report.os : report.os[j].id = o.id => j = k
  PROVE  RowsOf(o) = one[k].rows
<1>1. PICK credit, silence, a, b : AreParts(report, one, credit, silence, a, b)
  BY MadeParts
<1>2. /\ DOMAIN credit = DOMAIN report.os /\ \A j \in DOMAIN report.os : credit[j] = one[j].rows
      /\ a = Flattened(credit) /\ report.rows = a \o b /\ IsList(b)
      /\ \A f : f \in Range(b) => \E i \in DOMAIN report.rs : Silent(report, i) /\ SilentRow(f, report.rs[i])
  BY <1>1 DEF AreParts
<1>3. \A j \in DOMAIN report.os : \A x \in DOMAIN one[j].rows : one[j].rows[x].outcome = report.os[j].id
  <2> TAKE j \in DOMAIN report.os
  <2> TAKE x \in DOMAIN one[j].rows
  <2>1. OneIs(one[j], report.rs, report.os[j])
    BY OnesAre
  <2>2. one[j].rows # <<>>
    BY EmptyList
  <2>3. PICK method \in CreditTiers : Credits(one[j], report.rs, report.os[j], method)
    BY <2>1, <2>2, TierOf
  <2>4. RowFrom(one[j].rows[x], report.rs, report.os[j], one[j].at[x], method)
    BY <2>3, RowsOfCredit
  <2> QED
    BY <2>4 DEF RowFrom
<1>4. PICK C : C = {f \in Range(report.rows) : f.outcome = o.id}
  OBVIOUS
<1>5. PICK t, keep : t = report.rows /\ keep = {n \in DOMAIN t : t[n] \in C}
  OBVIOUS
<1>6. RowsOf(o) = Picked(t, keep)
  <2>1. \A n \in DOMAIN t : t[n] \in Range(report.rows)
    BY <1>5 DEF Range
  <2>2. keep = {n \in DOMAIN report.rows : report.rows[n].outcome = o.id}
    BY <1>4, <1>5, <2>1
  <2> QED
    BY <1>5, <2>2 DEF RowsOf
<1>7. \A x \in DOMAIN credit[k] : credit[k][x] \in C
  <2> TAKE x \in DOMAIN credit[k]
  <2>1. x \in DOMAIN one[k].rows /\ credit[k][x] = one[k].rows[x]
    BY <1>2
  <2>2. one[k].rows[x] \in Range(report.rows)
    BY <2>1, MadeRows
  <2> QED
    BY <1>3, <1>4, <2>1, <2>2
<1>8. \A j \in DOMAIN credit : j # k => \A x \in DOMAIN credit[j] : credit[j][x] \notin C
  <2> TAKE j \in DOMAIN credit
  <2> HAVE j # k
  <2> TAKE x \in DOMAIN credit[j]
  <2>1. x \in DOMAIN one[j].rows /\ credit[j][x] = one[j].rows[x] /\ j \in DOMAIN report.os
    BY <1>2
  <2>2. credit[j][x].outcome = report.os[j].id /\ report.os[j].id # o.id
    BY <1>3, <2>1
  <2> QED
    BY <1>4, <2>2
<1>9. \A f \in Range(b) : f \notin C
  <2> TAKE f \in Range(b)
  <2>1. f.outcome = None
    BY <1>2 DEF SilentRow
  <2>2. o.id # None
    BY DEF IsMade, IsBatch, IsOutcome
  <2> QED
    BY <1>4, <2>1, <2>2
<1>10. /\ IsFiniteSet(DOMAIN credit) /\ DOMAIN credit \subseteq Int /\ k \in DOMAIN credit
       /\ \A j \in DOMAIN credit : IsList(credit[j])
  BY <1>2, OnesAre
<1>11. t = Flattened(credit) \o b
  BY <1>2, <1>5
<1>12. Picked(t, keep) = credit[k]
  <2>1. FallsOn(credit, b, t, k, C, keep)
    BY ONLY <1>2, <1>5, <1>7, <1>8, <1>9, <1>10, <1>11 DEF FallsOn
  <2> QED
    BY <2>1, PickedPart
<1> QED
  BY <1>2, <1>6, <1>12

Conserved(rows, o) ==
    /\ SumSeq([i \in DOMAIN rows |-> rows[i].weight]) = One
    /\ \A i, j \in DOMAIN rows :
          Younger(RolloutOf(rows[i]), RolloutOf(rows[j])) => rows[i].weight + Len(rows) >= rows[j].weight
    /\ \A i \in DOMAIN rows : rows[i].confidence = rows[1].confidence
                              /\ rows[i].set = IF Len(rows) > 1 THEN o.id ELSE None

LEMMA MadeConserved ==
  ASSUME IsMade(report)
  PROVE  CreditConserved
<1>0. SUFFICES ASSUME NEW k \in DOMAIN report.os, RowsOf(report.os[k]) # <<>>,
                      \A j \in DOMAIN report.os : report.os[j].id = report.os[k].id => j = k
               PROVE  Conserved(RowsOf(report.os[k]), report.os[k])
  BY DEF CreditConserved, Conserved, Younger
<1>1. PICK o, rows : o = report.os[k] /\ rows = RowsOf(o)
  OBVIOUS
<1>2. PICK one : one = Ones(report)
  OBVIOUS
<1>3. rows = one[k].rows /\ rows # <<>>
  BY <1>0, <1>1, <1>2, RowsAre
<1>4. OneIs(one[k], report.rs, o) /\ one[k].rows # <<>>
  BY <1>1, <1>2, <1>3, OnesAre
<1>5. PICK method \in CreditTiers : Credits(one[k], report.rs, o, method)
  BY <1>4, TierOf
<1>6. PICK at, n : at = one[k].at /\ n = Len(at)
  OBVIOUS
<1>7. n \in Nat /\ n > 0 /\ DOMAIN rows = 1..n /\ Len(rows) = n /\ DOMAIN at = 1..n
  BY <1>3, <1>5, <1>6, ListDomain DEF Credits
<1>8. PICK confidence, weights : CreditAs(one[k], report.rs, o, method, confidence, weights, n)
  BY <1>5, <1>6 DEF Credits
<1>9. /\ IsShares(weights, n)
      /\ \A i \in 1..n : /\ at[i] \in DOMAIN report.rs
                         /\ rows[i] = BuildFeedback(o, report.rs[at[i]], method, confidence, weights[i], IF n > 1 THEN o.id ELSE None)
      /\ \A i, j \in 1..n : Younger(report.rs[at[i]], report.rs[at[j]]) => weights[i] + n >= weights[j]
  BY <1>3, <1>6, <1>8 DEF CreditAs
<1>10. \A i \in 1..n : /\ rows[i].weight = weights[i] /\ rows[i].confidence = confidence
                       /\ rows[i].set = (IF n > 1 THEN o.id ELSE None)
                       /\ rows[i].rollout = report.rs[at[i]].id
  <2> TAKE i \in 1..n
  <2>1. PICK f, r, w, s : /\ f = rows[i] /\ r = report.rs[at[i]] /\ w = weights[i] /\ s = IF n > 1 THEN o.id ELSE None
    OBVIOUS
  <2>2. f = BuildFeedback(o, r, method, confidence, w, s)
    BY <1>9, <2>1
  <2>3. f.weight = w /\ f.confidence = confidence /\ f.set = s /\ f.rollout = r.id
    BY <2>2 DEF BuildFeedback
  <2> QED
    BY <2>1, <2>3
<1>11. \A i \in 1..n : RolloutOf(rows[i]) = report.rs[at[i]]
  <2> TAKE i \in 1..n
  <2>1. IsList(report.rs) /\ Unchanging(report.rs) /\ at[i] \in DOMAIN report.rs /\ report.rs[at[i]].id = rows[i].rollout
    BY <1>9, <1>10 DEF IsMade, IsBatch
  <2> QED
    BY <2>1, RolloutFound
<1>12. SumSeq([i \in DOMAIN rows |-> rows[i].weight]) = One
  <2>1. PICK s : s = [i \in DOMAIN rows |-> rows[i].weight]
    OBVIOUS
  <2>2. IsList(weights) /\ Len(weights) = n /\ SumSeq(weights) = One
    BY <1>9 DEF IsShares
  <2>3. DOMAIN weights = 1..n /\ \A i \in 1..n : weights[i] \in Range(weights)
    BY <2>2, ListDomain
  <2>4. s \in [1..n -> Range(weights)] /\ \A i \in 1..n : s[i] = weights[i]
    BY <1>7, <1>10, <2>1, <2>3
  <2>5. IsList(s) /\ Len(s) = n
    BY <1>7, <2>4, ListOf, ListIn
  <2>6. s = weights
    BY <2>2, <2>4, <2>5, SameLists
  <2> QED
    BY <2>1, <2>2, <2>6
<1>13. \A i, j \in 1..n : Younger(RolloutOf(rows[i]), RolloutOf(rows[j])) => rows[i].weight + n >= rows[j].weight
  BY <1>9, <1>10, <1>11
<1>14. \A i \in 1..n : rows[i].confidence = rows[1].confidence /\ rows[i].set = IF n > 1 THEN o.id ELSE None
  BY <1>7, <1>10
<1> QED
  BY <1>1, <1>7, <1>12, <1>13, <1>14 DEF Conserved

(***************************************************************************)
(* Rows.                                                                   *)
(***************************************************************************)

RolloutFields == {"id", "robot", "tenant", "boot", "mono", "wall", "embodiment", "pose", "frame", "station", "anchor"}
OutcomeFields == {"id", "robot", "tenant", "boot", "mono", "wall", "kind", "explicit", "pose", "frame", "anchor", "parents"}

LEMMA RolloutDomain ==
  ASSUME NEW r
  PROVE  IsRollout(r) <=> /\ DOMAIN r = RolloutFields
                          /\ r.id \in Nat /\ r.mono \in Nat /\ r.wall \in Nat
                          /\ May(r.anchor, Nat) /\ May(r.pose, Int)
<1>1. PICK a, b, c : a = r.id /\ b = r.boot /\ c = r.mono
  OBVIOUS
<1>2. DOMAIN Rollout(a, b, c) = RolloutFields
  BY DEF Rollout, RolloutFields
<1> QED
  BY <1>1, <1>2 DEF IsRollout

LEMMA OutcomeDomain ==
  ASSUME NEW o
  PROVE  IsOutcome(o) <=> /\ DOMAIN o = OutcomeFields
                          /\ o.id # None /\ o.mono \in Nat /\ o.wall \in Nat
                          /\ May(o.anchor, Nat) /\ May(o.pose, Int)
                          /\ IsList(o.parents) /\ \A e \in Range(o.parents) : May(e.lag, Nat)
<1>1. PICK a, b, c, d : a = o.id /\ b = o.kind /\ c = o.boot /\ d = o.mono
  OBVIOUS
<1>2. DOMAIN OutcomeEvent(a, b, c, d) = OutcomeFields
  BY DEF OutcomeEvent, OutcomeFields
<1> QED
  BY <1>1, <1>2 DEF IsOutcome

\* x is the record that is read back of y.
RolloutOfRow(x, y) ==
    /\ x = ParseRollout(RolloutRow(y))
    /\ IsRollout(x) /\ x.id = y.id /\ x.tenant = y.tenant /\ x.robot = y.robot /\ x.boot = y.boot
    /\ x.mono = y.mono /\ x.wall = y.wall /\ x.embodiment = y.embodiment
OutcomeOfRow(x, y) ==
    /\ x = ParseOutcome(OutcomeRow(y))
    /\ IsOutcome(x) /\ x.id = y.id /\ x.tenant = y.tenant /\ x.robot = y.robot /\ x.boot = y.boot
    /\ x.mono = y.mono /\ x.wall = y.wall /\ x.kind = y.kind /\ x.explicit = y.explicit /\ x.anchor = None

LEMMA RolloutRead ==
  ASSUME NEW r, IsRollout(r)
  PROVE  RolloutOfRow(ParseRollout(RolloutRow(r)), r)
<1>1. /\ DOMAIN r = RolloutFields /\ r.id \in Nat /\ r.mono \in Nat /\ r.wall \in Nat
      /\ May(r.anchor, Nat) /\ May(r.pose, Int)
  BY RolloutDomain
<1>2. RolloutFields = Tables.Rollout
  BY DEF RolloutFields, Tables, M0001Rollout, M0007RolloutClock, M0008RolloutServerAnchor, M0011RolloutSpatialCausal
<1>3. PICK y : y = [r EXCEPT !.anchor = IF r.anchor = None THEN 0 ELSE r.anchor]
  OBVIOUS
<1>4. DOMAIN y = RolloutFields /\ (\A c \in RolloutFields : c # "anchor" => y[c] = r[c]) /\ May(y.anchor, Nat)
  BY <1>1, <1>3 DEF RolloutFields, May
<1>5. PICK row : row = RolloutRow(r)
  OBVIOUS
<1>6. DOMAIN row = RolloutFields /\ \A c \in RolloutFields : row[c] = y[c]
  BY <1>2, <1>3, <1>4, <1>5 DEF RolloutRow, Stored
<1>7. PICK z : z = [row EXCEPT !.anchor = IF row.anchor = 0 THEN None ELSE NumberOnly(row.anchor)]
  OBVIOUS
<1>8. DOMAIN z = RolloutFields /\ (\A c \in RolloutFields : c # "anchor" => z[c] = r[c]) /\ May(z.anchor, Nat)
  <2>1. "anchor" \in RolloutFields
    BY DEF RolloutFields
  <2>2. May(row.anchor, Nat)
    BY <1>4, <1>6, <2>1
  <2>3. May(NumberOnly(row.anchor), Nat)
    BY <2>2 DEF NumberOnly, May
  <2> QED
    BY <1>4, <1>6, <1>7, <2>1, <2>3 DEF May
<1>9. PICK x : x = [z EXCEPT !.frame = IF z.pose = None THEN None ELSE z.frame]
  OBVIOUS
<1>10. x = ParseRollout(row)
  BY <1>7, <1>9 DEF ParseRollout, Framed
<1>11. DOMAIN x = RolloutFields /\ \A c \in RolloutFields : c # "frame" => x[c] = z[c]
  BY <1>8, <1>9 DEF RolloutFields
<1>12. /\ x.id = r.id /\ x.tenant = r.tenant /\ x.robot = r.robot /\ x.boot = r.boot
       /\ x.mono = r.mono /\ x.wall = r.wall /\ x.embodiment = r.embodiment /\ x.pose = r.pose /\ x.anchor = z.anchor
  BY <1>8, <1>11 DEF RolloutFields
<1>13. IsRollout(x)
  BY <1>1, <1>8, <1>11, <1>12, RolloutDomain
<1> QED
  BY <1>5, <1>10, <1>12, <1>13 DEF RolloutOfRow

LEMMA OutcomeRead ==
  ASSUME NEW o, IsOutcome(o)
  PROVE  OutcomeOfRow(ParseOutcome(OutcomeRow(o)), o)
<1>1. /\ DOMAIN o = OutcomeFields /\ o.id # None /\ o.mono \in Nat /\ o.wall \in Nat
      /\ May(o.anchor, Nat) /\ May(o.pose, Int)
      /\ IsList(o.parents) /\ \A e \in Range(o.parents) : May(e.lag, Nat)
  BY OutcomeDomain
<1>2. OutcomeFields \ {"anchor"} = Tables.OutcomeEvent
  BY DEF OutcomeFields, Tables, M0002OutcomeEvent, M0010OutcomeSpatialCausal
<1>3. PICK row : row = OutcomeRow(o)
  OBVIOUS
<1>4. DOMAIN row = OutcomeFields /\ (\A c \in OutcomeFields : c # "anchor" => row[c] = o[c]) /\ row["anchor"] = None
  <2>1. row = [c \in OutcomeFields |-> IF c \in OutcomeFields \ {"anchor"} THEN o[c] ELSE None]
    BY <1>1, <1>2, <1>3 DEF OutcomeRow, Stored
  <2> QED
    BY <2>1 DEF OutcomeFields
<1>5. PICK x : x = [row EXCEPT !.frame = IF row.pose = None THEN None ELSE row.frame]
  OBVIOUS
<1>6. x = ParseOutcome(row)
  BY <1>5 DEF ParseOutcome, Framed
<1>7. DOMAIN x = OutcomeFields /\ \A c \in OutcomeFields : c # "frame" => x[c] = row[c]
  BY <1>4, <1>5 DEF OutcomeFields
<1>8. /\ x.id = o.id /\ x.tenant = o.tenant /\ x.robot = o.robot /\ x.boot = o.boot /\ x.mono = o.mono
      /\ x.wall = o.wall /\ x.kind = o.kind /\ x.explicit = o.explicit /\ x.pose = o.pose
      /\ x.parents = o.parents /\ x.anchor = None
  BY <1>4, <1>7 DEF OutcomeFields
<1>9. IsOutcome(x)
  BY <1>1, <1>7, <1>8, OutcomeDomain DEF May
<1> QED
  BY <1>3, <1>6, <1>8, <1>9 DEF OutcomeOfRow

\* A feedback row keeps everything but the mark of a missing group.
SameRow(x, f) ==
    /\ DOMAIN x = RowFields
    /\ x.tenant = f.tenant /\ x.rollout = f.rollout /\ x.slot = f.slot /\ x.failure = f.failure /\ x.metric = f.metric
    /\ x.method = f.method /\ x.confidence = f.confidence /\ x.weight = f.weight /\ x.outcome = f.outcome
    /\ x.retracted = f.retracted /\ x.key = f.key

LEMMA FeedbackWritten ==
  ASSUME NEW f, DOMAIN f = RowFields
  PROVE  SameRow(FeedbackRow(f), f) /\ FeedbackRow(f).set # None
<1>1. RowFields = Tables.Feedback
  BY DEF RowFields, Tables, M0003Feedback, M0009FeedbackDistributedCredit
<1>2. PICK y : y = [f EXCEPT !.set = IF f.set = None THEN Nil ELSE f.set]
  OBVIOUS
<1>3. DOMAIN y = RowFields /\ (\A c \in RowFields : c # "set" => y[c] = f[c]) /\ y["set"] # None
  BY <1>2, NilAssumption DEF RowFields
<1>4. PICK x : x = FeedbackRow(f)
  OBVIOUS
<1>5. DOMAIN x = RowFields /\ \A c \in RowFields : x[c] = y[c]
  BY <1>1, <1>2, <1>3, <1>4 DEF FeedbackRow, Stored
<1>6. SameRow(x, f) /\ x["set"] # None
  BY <1>3, <1>5 DEF SameRow, RowFields
<1> QED
  BY <1>4, <1>6

LEMMA FeedbackParsed ==
  ASSUME NEW f, DOMAIN f = RowFields
  PROVE  SameRow(ParseFeedback(f), f)
<1>1. PICK x : x = [f EXCEPT !.set = IF f.set = Nil THEN None ELSE f.set]
  OBVIOUS
<1>2. DOMAIN x = RowFields /\ \A c \in RowFields : c # "set" => x[c] = f[c]
  BY <1>1
<1>3. SameRow(x, f)
  BY <1>2 DEF SameRow, RowFields
<1> QED
  BY <1>1, <1>3 DEF ParseFeedback

(***************************************************************************)
(* Reads.                                                                  *)
(***************************************************************************)

LEMMA PickedElements ==
  ASSUME NEW s, IsList(s), NEW keep, keep \subseteq DOMAIN s
  PROVE  /\ IsList(Picked(s, keep)) /\ Len(Picked(s, keep)) = Cardinality(keep)
         /\ \A x : x \in Range(Picked(s, keep)) <=> \E i \in keep : x = s[i]
<1>1. IsFiniteSet(keep) /\ keep \subseteq Int
  BY ListDomain, FS_Subset
<1>2. PICK at : Lists(Picked(s, keep), s, keep, at)
  BY <1>1, PickedLists
<1> QED
  BY <1>2, ListIn DEF Lists

LEMMA BackwardsElements ==
  ASSUME NEW s, IsList(s)
  PROVE  /\ IsList(Backwards(s)) /\ DOMAIN Backwards(s) = DOMAIN s
         /\ \A i \in DOMAIN s : \E j \in DOMAIN s : Backwards(s)[i] = s[j]
<1>1. PICK n, e : n = Len(s) /\ e = [k \in DOMAIN s |-> s[n + 1 - k]]
  OBVIOUS
<1>2. n \in Nat /\ DOMAIN s = 1..n /\ e = Backwards(s)
  BY <1>1, ListDomain DEF Backwards
<1>3. e = [k \in DOMAIN s |-> e[k]]
  BY <1>1
<1>4. IsList(e) /\ DOMAIN e = DOMAIN s
  BY <1>3, ListLike
<1>5. \A i \in DOMAIN s : n + 1 - i \in DOMAIN s /\ e[i] = s[n + 1 - i]
  BY <1>1, <1>2
<1> QED
  BY <1>2, <1>4, <1>5

\* The records of a tenant that have landed, read back.
LandedRollout(r, w, landed, tenant) ==
    \E i \in landed : w.rollouts[i].tenant = tenant /\ RolloutOfRow(r, w.rollouts[i])
LandedOutcome(o, w, landed, tenant) ==
    \E i \in landed : w.outcomes[i].tenant = tenant /\ OutcomeOfRow(o, w.outcomes[i])

RolloutsRead(rs, w, landed, tenant) == IsList(rs) /\ \A k \in DOMAIN rs : LandedRollout(rs[k], w, landed, tenant)
OutcomesRead(os, w, landed, tenant) == IsList(os) /\ \A k \in DOMAIN os : LandedOutcome(os[k], w, landed, tenant)

IsWorld(w) ==
    /\ IsList(w.rollouts) /\ Unchanging(w.rollouts) /\ \A i \in DOMAIN w.rollouts : IsRollout(w.rollouts[i])
    /\ IsList(w.outcomes) /\ Unchanging(w.outcomes) /\ \A i \in DOMAIN w.outcomes : IsOutcome(w.outcomes[i])
    /\ Labelled(w.prior)

LEMMA ConfidenceIsInt ==
  ASSUME NEW f, IsFeedback(f)
  PROVE  f.confidence \in Int
<1>1. PICK x : x = f.confidence
  OBVIOUS
<1>2. x \in 0..One
  BY <1>1 DEF IsFeedback
<1> QED
  BY <1>1, <1>2 DEF One

LEMMA WorldsAre == \A w \in Worlds : IsWorld(w)
<1> TAKE w \in Worlds
<1>1. /\ IsList(w.rollouts) /\ Unchanging(w.rollouts) /\ \A r \in Range(w.rollouts) : IsRollout(r)
      /\ IsList(w.outcomes) /\ Unchanging(w.outcomes) /\ \A o \in Range(w.outcomes) : IsOutcome(o)
      /\ IsList(w.prior) /\ \A f \in Range(w.prior) : IsFeedback(f)
  BY WorldsAssumption
<1>2. \A k \in DOMAIN w.prior : w.prior[k].confidence \in Int
  <2> TAKE k \in DOMAIN w.prior
  <2>1. IsFeedback(w.prior[k])
    BY <1>1, ListDomain
  <2> QED
    BY <2>1, ConfidenceIsInt
<1> QED
  BY <1>1, <1>2, ListDomain DEF IsWorld, Labelled

\* What was read stays read while more lands.
LEMMA ReadsGrow ==
  ASSUME NEW w, NEW landed, NEW more, landed \subseteq more, NEW tenant
  PROVE  /\ \A rs : RolloutsRead(rs, w, landed, tenant) => RolloutsRead(rs, w, more, tenant)
         /\ \A os : OutcomesRead(os, w, landed, tenant) => OutcomesRead(os, w, more, tenant)
BY DEF RolloutsRead, OutcomesRead, LandedRollout, LandedOutcome

\* Whatever a pass has read, it is a batch.
LEMMA BatchRead ==
  ASSUME NEW w, IsWorld(w), NEW landed, landed \subseteq DOMAIN w.rollouts, NEW seen, seen \subseteq DOMAIN w.outcomes,
         NEW tenant, NEW rs, RolloutsRead(rs, w, landed, tenant), NEW os, OutcomesRead(os, w, seen, tenant)
  PROVE  IsBatch(rs, os)
<1>1. \A k \in DOMAIN rs : \E i \in DOMAIN w.rollouts : RolloutOfRow(rs[k], w.rollouts[i])
  BY DEF RolloutsRead, LandedRollout
<1>2. \A k \in DOMAIN os : \E i \in DOMAIN w.outcomes : OutcomeOfRow(os[k], w.outcomes[i])
  BY DEF OutcomesRead, LandedOutcome
<1>3. Unchanging(rs)
  <2> SUFFICES ASSUME NEW j \in DOMAIN rs, NEW k \in DOMAIN rs, rs[j].id = rs[k].id PROVE rs[j] = rs[k]
    BY DEF Unchanging
  <2>1. PICK a \in DOMAIN w.rollouts : RolloutOfRow(rs[j], w.rollouts[a])
    BY <1>1
  <2>2. PICK b \in DOMAIN w.rollouts : RolloutOfRow(rs[k], w.rollouts[b])
    BY <1>1
  <2>3. w.rollouts[a] = w.rollouts[b]
    BY <2>1, <2>2 DEF RolloutOfRow, IsWorld, Unchanging
  <2> QED
    BY <2>1, <2>2, <2>3 DEF RolloutOfRow
<1>4. Unchanging(os)
  <2> SUFFICES ASSUME NEW j \in DOMAIN os, NEW k \in DOMAIN os, os[j].id = os[k].id PROVE os[j] = os[k]
    BY DEF Unchanging
  <2>1. PICK a \in DOMAIN w.outcomes : OutcomeOfRow(os[j], w.outcomes[a])
    BY <1>2
  <2>2. PICK b \in DOMAIN w.outcomes : OutcomeOfRow(os[k], w.outcomes[b])
    BY <1>2
  <2>3. w.outcomes[a] = w.outcomes[b]
    BY <2>1, <2>2 DEF OutcomeOfRow, IsWorld, Unchanging
  <2> QED
    BY <2>1, <2>2, <2>3 DEF OutcomeOfRow
<1>5. IsList(rs) /\ IsList(os)
  BY DEF RolloutsRead, OutcomesRead
<1>6. (\A k \in DOMAIN rs : IsRollout(rs[k])) /\ (\A k \in DOMAIN os : IsOutcome(os[k]))
  BY <1>1, <1>2 DEF RolloutOfRow, OutcomeOfRow
<1> QED
  BY <1>3, <1>4, <1>5, <1>6 DEF IsBatch

\* A read returns every record of the tenant that has landed, and no other.
LEMMA RolloutsAreRead ==
  ASSUME IsWorld(world), table.rollouts \subseteq DOMAIN world.rollouts, NEW tenant, NEW from,
         NEW rs, rs = RecentRollouts(tenant, from)
  PROVE  /\ RolloutsRead(rs, world, table.rollouts, tenant)
         /\ from = 0 => \A i \in table.rollouts : world.rollouts[i].tenant = tenant =>
                           \E k \in DOMAIN rs : RolloutOfRow(rs[k], world.rollouts[i])
<1>1. PICK keep : keep = {i \in table.rollouts : world.rollouts[i].tenant = tenant /\ world.rollouts[i].wall >= from}
  OBVIOUS
<1>2. PICK rows : rows = Picked(world.rollouts, keep)
  OBVIOUS
<1>3. rs = [k \in DOMAIN rows |-> ParseRollout(RolloutRow(rows[k]))]
  BY <1>1, <1>2 DEF RecentRollouts, InWindow
<1>4. keep \subseteq DOMAIN world.rollouts /\ IsList(world.rollouts)
  BY <1>1 DEF IsWorld
<1>5. IsList(rows) /\ \A x : x \in Range(rows) <=> \E i \in keep : x = world.rollouts[i]
  BY <1>2, <1>4, PickedElements
<1>6. IsList(rs) /\ DOMAIN rs = DOMAIN rows /\ \A k \in DOMAIN rows : rs[k] = ParseRollout(RolloutRow(rows[k]))
  <2>1. rs = [k \in DOMAIN rows |-> rs[k]]
    BY <1>3
  <2> QED
    BY <1>3, <1>5, <2>1, ListLike
<1>7. \A i \in keep : RolloutOfRow(ParseRollout(RolloutRow(world.rollouts[i])), world.rollouts[i])
  BY <1>4, RolloutRead DEF IsWorld
<1>8. \A k \in DOMAIN rs : LandedRollout(rs[k], world, table.rollouts, tenant)
  <2> TAKE k \in DOMAIN rs
  <2>1. rows[k] \in Range(rows)
    BY <1>5, <1>6, ListDomain
  <2>2. PICK i \in keep : rows[k] = world.rollouts[i]
    BY <1>5, <2>1
  <2>3. RolloutOfRow(rs[k], world.rollouts[i])
    BY <1>6, <1>7, <2>2
  <2> QED
    BY <1>1, <2>3 DEF LandedRollout
<1>9. ASSUME from = 0, NEW i \in table.rollouts, world.rollouts[i].tenant = tenant
      PROVE  \E k \in DOMAIN rs : RolloutOfRow(rs[k], world.rollouts[i])
  <2>1. world.rollouts[i].wall >= from
    BY <1>9 DEF IsWorld, IsRollout
  <2>2. i \in keep
    BY <1>1, <1>9, <2>1
  <2>3. world.rollouts[i] \in Range(rows)
    BY <1>5, <2>2
  <2>4. PICK k \in DOMAIN rows : rows[k] = world.rollouts[i]
    BY <2>3 DEF Range
  <2>5. RolloutOfRow(rs[k], world.rollouts[i])
    BY <1>6, <1>7, <2>2, <2>4
  <2> QED
    BY <1>6, <2>5
<1> QED
  BY <1>6, <1>8, <1>9 DEF RolloutsRead

LEMMA OutcomesAreRead ==
  ASSUME IsWorld(world), table.outcomes \subseteq DOMAIN world.outcomes, NEW tenant, NEW from,
         NEW os, os = [k \in DOMAIN RecentOutcomes(tenant, from) |-> ParseOutcome(RecentOutcomes(tenant, from)[k])]
  PROVE  /\ OutcomesRead(os, world, table.outcomes, tenant)
         /\ from = 0 => \A i \in table.outcomes : world.outcomes[i].tenant = tenant =>
                           \E k \in DOMAIN os : OutcomeOfRow(os[k], world.outcomes[i])
<1>1. PICK keep : keep = {i \in table.outcomes : world.outcomes[i].tenant = tenant /\ world.outcomes[i].wall >= from}
  OBVIOUS
<1>2. PICK rows, recent : rows = Picked(world.outcomes, keep) /\ recent = RecentOutcomes(tenant, from)
  OBVIOUS
<1>3. recent = [k \in DOMAIN rows |-> OutcomeRow(rows[k])]
  BY <1>1, <1>2 DEF RecentOutcomes, InWindow
<1>4. keep \subseteq DOMAIN world.outcomes /\ IsList(world.outcomes)
  BY <1>1 DEF IsWorld
<1>5. IsList(rows) /\ \A x : x \in Range(rows) <=> \E i \in keep : x = world.outcomes[i]
  BY <1>2, <1>4, PickedElements
<1>6. IsList(os) /\ DOMAIN os = DOMAIN rows /\ \A k \in DOMAIN rows : os[k] = ParseOutcome(OutcomeRow(rows[k]))
  <2>1. DOMAIN recent = DOMAIN rows /\ \A k \in DOMAIN rows : recent[k] = OutcomeRow(rows[k])
    BY <1>3
  <2>2. os = [k \in DOMAIN rows |-> ParseOutcome(recent[k])]
    BY <1>2, <2>1
  <2>3. os = [k \in DOMAIN rows |-> os[k]]
    BY <2>2
  <2> QED
    BY <1>5, <2>1, <2>2, <2>3, ListLike
<1>7. \A i \in keep : OutcomeOfRow(ParseOutcome(OutcomeRow(world.outcomes[i])), world.outcomes[i])
  BY <1>4, OutcomeRead DEF IsWorld
<1>8. \A k \in DOMAIN os : LandedOutcome(os[k], world, table.outcomes, tenant)
  <2> TAKE k \in DOMAIN os
  <2>1. rows[k] \in Range(rows)
    BY <1>5, <1>6, ListDomain
  <2>2. PICK i \in keep : rows[k] = world.outcomes[i]
    BY <1>5, <2>1
  <2>3. OutcomeOfRow(os[k], world.outcomes[i])
    BY <1>6, <1>7, <2>2
  <2> QED
    BY <1>1, <2>3 DEF LandedOutcome
<1>9. ASSUME from = 0, NEW i \in table.outcomes, world.outcomes[i].tenant = tenant
      PROVE  \E k \in DOMAIN os : OutcomeOfRow(os[k], world.outcomes[i])
  <2>1. world.outcomes[i].wall >= from
    BY <1>9 DEF IsWorld, IsOutcome
  <2>2. i \in keep
    BY <1>1, <1>9, <2>1
  <2>3. world.outcomes[i] \in Range(rows)
    BY <1>5, <2>2
  <2>4. PICK k \in DOMAIN rows : rows[k] = world.outcomes[i]
    BY <2>3 DEF Range
  <2>5. OutcomeOfRow(os[k], world.outcomes[i])
    BY <1>6, <1>7, <2>2, <2>4
  <2> QED
    BY <1>6, <2>5
<1> QED
  BY <1>6, <1>8, <1>9 DEF OutcomesRead

LEMMA FeedbackIsRead ==
  ASSUME IsList(feedback), \A k \in DOMAIN feedback : IsFeedback(feedback[k]) /\ DOMAIN feedback[k] = RowFields,
         NEW tenant, NEW newestFirst \in BOOLEAN
  PROVE  Labelled(RecentFeedback(tenant, newestFirst))
<1>1. PICK keep : keep = {k \in DOMAIN feedback : feedback[k].tenant = tenant}
  OBVIOUS
<1>2. PICK rows, ordered : rows = Picked(feedback, keep) /\ ordered = IF newestFirst THEN Backwards(rows) ELSE rows
  OBVIOUS
<1>3. IsList(rows) /\ \A x : x \in Range(rows) => \E i \in keep : x = feedback[i]
  BY <1>1, <1>2, PickedElements
<1>4. \A k \in DOMAIN rows : rows[k].confidence \in Int /\ DOMAIN rows[k] = RowFields
  <2> TAKE k \in DOMAIN rows
  <2>1. PICK i \in keep : rows[k] = feedback[i]
    BY <1>3, ListDomain
  <2>2. IsFeedback(feedback[i]) /\ DOMAIN feedback[i] = RowFields
    BY <1>1
  <2> QED
    BY <2>1, <2>2, ConfidenceIsInt
<1>5. IsList(ordered) /\ \A k \in DOMAIN ordered : ordered[k].confidence \in Int /\ DOMAIN ordered[k] = RowFields
  BY <1>2, <1>3, <1>4, BackwardsElements
<1>6. PICK known : known = [k \in DOMAIN ordered |-> ParseFeedback(ordered[k])]
  OBVIOUS
<1>7. known = RecentFeedback(tenant, newestFirst)
  BY <1>1, <1>2, <1>6 DEF RecentFeedback
<1>8. IsList(known) /\ DOMAIN known = DOMAIN ordered
  <2>1. known = [k \in DOMAIN ordered |-> known[k]]
    BY <1>6
  <2> QED
    BY <1>5, <2>1, ListLike
<1>9. \A k \in DOMAIN known : known[k].confidence \in Int
  <2> TAKE k \in DOMAIN known
  <2>1. SameRow(ParseFeedback(ordered[k]), ordered[k])
    BY <1>5, <1>8, FeedbackParsed
  <2> QED
    BY <1>5, <1>6, <1>8, <2>1 DEF SameRow
<1> QED
  BY <1>7, <1>8, <1>9 DEF Labelled

(***************************************************************************)
(* Where a row comes from.                                                 *)
(***************************************************************************)

Beat(o) == [robot |-> o.robot, tenant |-> o.tenant, boot |-> o.boot, mono |-> o.mono]
BeatsRead(hs, w, seen, tenant) ==
    \A h \in hs : h.mono \in Nat /\ \E o : LandedOutcome(o, w, seen, tenant) /\ o.kind = "heartbeat" /\ h = Beat(o)

\* f joins a rollout and an outcome of its tenant that have landed.
Linked(f, r, o, w, landed, seen) ==
    /\ LandedRollout(r, w, landed, f.tenant) /\ LandedOutcome(o, w, seen, f.tenant)
    /\ o.kind # "heartbeat" /\ f.rollout = r.id /\ f.slot = LabelKindOf(o.kind)

\* f is about a rollout of its tenant whose window is covered by what has landed.
Quiet(f, r, hs, w, landed, seen) ==
    /\ HeartbeatPeriod > 0 /\ f.slot = "terminal_outcome" /\ f.rollout = r.id
    /\ LandedRollout(r, w, landed, f.tenant) /\ BeatsRead(hs, w, seen, f.tenant) /\ Covered(hs, r)

\* What the pass that made f had read: no row is credited by place or by cause,
\* as no outcome that is read back is anchored.
Derived(f, w, landed, seen) ==
    \/ f.method = "explicit" /\ \E r, o : Linked(f, r, o, w, landed, seen) /\ o.explicit = r.id
    \/ f.method = "temporal" /\ \E r, o : Linked(f, r, o, w, landed, seen) /\ InTemporalWindow(r, o) /\ f.outcome = o.id
    \/ f.method = "synthetic_absence" /\ \E r, hs : Quiet(f, r, hs, w, landed, seen)

LEMMA DerivedGrows ==
  ASSUME NEW f, NEW w, NEW landed, NEW more, landed \subseteq more, NEW seen, NEW later, seen \subseteq later,
         Derived(f, w, landed, seen)
  PROVE  Derived(f, w, more, later)
<1>1. /\ \A r : LandedRollout(r, w, landed, f.tenant) => LandedRollout(r, w, more, f.tenant)
      /\ \A o : LandedOutcome(o, w, seen, f.tenant) => LandedOutcome(o, w, later, f.tenant)
  BY DEF LandedRollout, LandedOutcome
<1>2. \A r, o : Linked(f, r, o, w, landed, seen) => Linked(f, r, o, w, more, later)
  BY <1>1 DEF Linked
<1>3. \A hs : BeatsRead(hs, w, seen, f.tenant) => BeatsRead(hs, w, later, f.tenant)
  BY <1>1 DEF BeatsRead
<1> QED
  BY <1>1, <1>2, <1>3 DEF Derived, Quiet

LEMMA FeedbackOf ==
  ASSUME NEW m, IsMade(m), NEW f \in Range(m.rows)
  PROVE  IsFeedback(f) /\ DOMAIN f = RowFields /\ f.retracted = FALSE /\ f.method # "manual"
<1>1. PICK one : one = Ones(m)
  OBVIOUS
<1>2. CASE \E k \in DOMAIN m.os : \E x \in DOMAIN one[k].rows : f = one[k].rows[x]
  <2>1. PICK k \in DOMAIN m.os : \E x \in DOMAIN one[k].rows : f = one[k].rows[x]
    BY <1>2
  <2>2. PICK x \in DOMAIN one[k].rows : f = one[k].rows[x]
    BY <2>1
  <2>3. OneIs(one[k], m.rs, m.os[k]) /\ one[k].rows # <<>>
    BY <1>1, OnesAre, EmptyList
  <2>4. PICK method \in CreditTiers : Credits(one[k], m.rs, m.os[k], method)
    BY <2>3, TierOf
  <2>5. RowFrom(f, m.rs, m.os[k], one[k].at[x], method)
    BY <2>2, <2>4, RowsOfCredit
  <2>6. /\ f.method = method /\ f.failure \in BOOLEAN /\ f.retracted = FALSE /\ f.confidence \in 0..One /\ f.weight \in 0..One
        /\ DOMAIN f = RowFields /\ f.slot = LabelKindOf(m.os[k].kind)
    BY <2>5 DEF RowFrom, RowFields
  <2>7. f.slot \in LabelKinds
    BY <2>6 DEF LabelKindOf, LabelKinds
  <2>8. method \in Methods /\ method \notin {"synthetic_absence", "manual"}
    BY DEF CreditTiers, Methods, Known
  <2> QED
    BY <2>6, <2>7, <2>8 DEF IsFeedback
<1>3. CASE \E i \in DOMAIN m.rs : Silent(m, i) /\ SilentRow(f, m.rs[i])
  <2>1. PICK i \in DOMAIN m.rs : SilentRow(f, m.rs[i])
    BY <1>3
  <2>2. /\ f.slot = "terminal_outcome" /\ f.failure = FALSE /\ f.method = "synthetic_absence" /\ f.confidence \in 0..One
        /\ f.weight \in 0..One /\ f.outcome = None /\ f.retracted = FALSE /\ DOMAIN f = RowFields
    BY <2>1 DEF SilentRow
  <2> QED
    BY <2>2 DEF IsFeedback, LabelKinds, Methods
<1> QED
  BY <1>1, <1>2, <1>3, MadeRows

\* What a pass made of its reads.
MadeOf(m, w, landed, seen, tenant) ==
    /\ IsMade(m) /\ m.hs = Heartbeats(m.os)
    /\ RolloutsRead(m.rs, w, landed, tenant) /\ OutcomesRead(m.os, w, seen, tenant)

LEMMA BeatsAreRead ==
  ASSUME NEW m, NEW w, NEW landed, NEW seen, NEW tenant, MadeOf(m, w, landed, seen, tenant)
  PROVE  BeatsRead(m.hs, w, seen, tenant)
<1>1. SUFFICES ASSUME NEW h \in m.hs
               PROVE  h.mono \in Nat /\ \E o : LandedOutcome(o, w, seen, tenant) /\ o.kind = "heartbeat" /\ h = Beat(o)
  BY DEF BeatsRead
<1>2. PICK o \in Range(m.os) : o.kind = "heartbeat" /\ h = Beat(o)
  BY DEF MadeOf, Heartbeats, Beat
<1>3. PICK k \in DOMAIN m.os : m.os[k] = o
  BY DEF Range
<1>4. LandedOutcome(o, w, seen, tenant)
  BY <1>3 DEF MadeOf, OutcomesRead
<1>5. h.mono \in Nat
  BY DEF MadeOf, IsMade
<1> QED
  BY <1>2, <1>4, <1>5

LEMMA MadeDerived ==
  ASSUME NEW m, NEW w, NEW landed, NEW seen, NEW tenant, MadeOf(m, w, landed, seen, tenant), NEW f \in Range(m.rows)
  PROVE  Derived(f, w, landed, seen) /\ f.tenant = tenant
<1>1. PICK one : one = Ones(m)
  OBVIOUS
<1>2. IsMade(m)
  BY DEF MadeOf
<1>3. /\ \A i \in DOMAIN m.rs : LandedRollout(m.rs[i], w, landed, tenant) /\ m.rs[i].tenant = tenant
      /\ \A k \in DOMAIN m.os : LandedOutcome(m.os[k], w, seen, tenant) /\ m.os[k].tenant = tenant /\ m.os[k].anchor = None
  BY DEF MadeOf, RolloutsRead, OutcomesRead, LandedRollout, LandedOutcome, RolloutOfRow, OutcomeOfRow
<1>4. CASE \E k \in DOMAIN m.os : \E x \in DOMAIN one[k].rows : f = one[k].rows[x]
  <2>1. PICK k \in DOMAIN m.os : \E x \in DOMAIN one[k].rows : f = one[k].rows[x]
    BY <1>4
  <2>2. PICK x \in DOMAIN one[k].rows : f = one[k].rows[x]
    BY <2>1
  <2>3. OneIs(one[k], m.rs, m.os[k]) /\ one[k].rows # <<>>
    BY <1>1, <1>2, OnesAre, EmptyList
  <2>4. PICK o : o = m.os[k]
    OBVIOUS
  <2>5. /\ o.kind # "heartbeat"
        /\ \E method \in CreditTiers :
              /\ Credits(one[k], m.rs, o, method)
              /\ method \notin {"explicit", "temporal"} => o.anchor # None
              /\ method = "temporal" => \A i \in DOMAIN m.rs : InTemporalWindow(m.rs[i], o) <=> i \in Range(one[k].at)
    BY <2>3, <2>4, TierOf
  <2>6. PICK method \in CreditTiers :
              /\ Credits(one[k], m.rs, o, method)
              /\ method \notin {"explicit", "temporal"} => o.anchor # None
              /\ method = "temporal" => \A i \in DOMAIN m.rs : InTemporalWindow(m.rs[i], o) <=> i \in Range(one[k].at)
    BY <2>5
  <2>7. PICK i : i = one[k].at[x]
    OBVIOUS
  <2>8. RowFrom(f, m.rs, o, i, method) /\ i \in Range(one[k].at)
    BY <2>2, <2>6, <2>7, RowsOfCredit DEF Range
  <2>9. PICK r : r = m.rs[i]
    OBVIOUS
  <2>10. /\ i \in DOMAIN m.rs /\ Evidence(r, o, method) /\ f.outcome = o.id /\ f.rollout = r.id /\ f.tenant = o.tenant
         /\ f.method = method /\ f.slot = LabelKindOf(o.kind)
    BY <2>8, <2>9 DEF RowFrom
  <2>11. Linked(f, r, o, w, landed, seen) /\ f.tenant = tenant
    BY <1>3, <2>4, <2>5, <2>9, <2>10 DEF Linked
  <2>12. method \in {"explicit", "temporal"}
    BY <1>3, <2>4, <2>6
  <2>13. CASE method = "explicit"
    <3>1. o.explicit = r.id
      BY <2>10, <2>13 DEF Evidence
    <3> QED
      BY <2>10, <2>11, <2>13, <3>1 DEF Derived
  <2>14. CASE method = "temporal"
    <3>1. InTemporalWindow(r, o)
      BY <2>6, <2>8, <2>9, <2>10, <2>14
    <3> QED
      BY <2>10, <2>11, <2>14, <3>1 DEF Derived
  <2> QED
    BY <2>12, <2>13, <2>14
<1>5. CASE \E i \in DOMAIN m.rs : Silent(m, i) /\ SilentRow(f, m.rs[i])
  <2>1. PICK i \in DOMAIN m.rs : Silent(m, i) /\ SilentRow(f, m.rs[i])
    BY <1>5
  <2>2. PICK r : r = m.rs[i]
    OBVIOUS
  <2>3. /\ f.rollout = r.id /\ f.tenant = tenant /\ f.slot = "terminal_outcome" /\ f.method = "synthetic_absence"
        /\ LandedRollout(r, w, landed, tenant)
    BY <1>3, <2>1, <2>2 DEF SilentRow
  <2>4. HeartbeatPeriod > 0 /\ Covered(m.hs, r)
    BY <2>1, <2>2 DEF Silent
  <2>5. BeatsRead(m.hs, w, seen, tenant)
    BY BeatsAreRead
  <2>6. Quiet(f, r, m.hs, w, landed, seen)
    BY <2>3, <2>4, <2>5 DEF Quiet
  <2> QED
    BY <2>3, <2>6 DEF Derived
<1> QED
  BY <1>1, <1>2, <1>4, <1>5, MadeRows

\* A pass that read everything of its tenant.
FullOf(m, w, landed, seen, tenant) ==
    /\ MadeOf(m, w, landed, seen, tenant)
    /\ \A i \in landed : w.rollouts[i].tenant = tenant => \E k \in DOMAIN m.rs : RolloutOfRow(m.rs[k], w.rollouts[i])
    /\ \A i \in seen : w.outcomes[i].tenant = tenant => \E k \in DOMAIN m.os : OutcomeOfRow(m.os[k], w.outcomes[i])

LEMMA AllFound ==
  ASSUME NEW m, NEW w, NEW landed, NEW seen, NEW tenant, FullOf(m, w, landed, seen, tenant)
  PROVE  /\ \A r : LandedRollout(r, w, landed, tenant) => \E i \in DOMAIN m.rs : m.rs[i] = r
         /\ \A o : LandedOutcome(o, w, seen, tenant) => \E k \in DOMAIN m.os : m.os[k] = o
         /\ \A i \in DOMAIN m.rs : m.rs[i].tenant = tenant
         /\ \A k \in DOMAIN m.os : m.os[k].tenant = tenant
<1>1. ASSUME NEW r, LandedRollout(r, w, landed, tenant) PROVE \E i \in DOMAIN m.rs : m.rs[i] = r
  <2>1. PICK i \in landed : w.rollouts[i].tenant = tenant /\ RolloutOfRow(r, w.rollouts[i])
    BY <1>1 DEF LandedRollout
  <2>2. PICK k \in DOMAIN m.rs : RolloutOfRow(m.rs[k], w.rollouts[i])
    BY <2>1 DEF FullOf
  <2> QED
    BY <2>1, <2>2 DEF RolloutOfRow
<1>2. ASSUME NEW o, LandedOutcome(o, w, seen, tenant) PROVE \E k \in DOMAIN m.os : m.os[k] = o
  <2>1. PICK i \in seen : w.outcomes[i].tenant = tenant /\ OutcomeOfRow(o, w.outcomes[i])
    BY <1>2 DEF LandedOutcome
  <2>2. PICK k \in DOMAIN m.os : OutcomeOfRow(m.os[k], w.outcomes[i])
    BY <2>1 DEF FullOf
  <2> QED
    BY <2>1, <2>2 DEF OutcomeOfRow
<1>3. /\ \A i \in DOMAIN m.rs : m.rs[i].tenant = tenant
      /\ \A k \in DOMAIN m.os : m.os[k].tenant = tenant
  BY DEF FullOf, MadeOf, RolloutsRead, OutcomesRead, LandedRollout, LandedOutcome, RolloutOfRow, OutcomeOfRow
<1> QED
  BY <1>1, <1>2, <1>3

\* g is a new word on what f is about.
SameSlot(g, f) == g.tenant = f.tenant /\ g.rollout = f.rollout /\ g.slot = f.slot /\ g.retracted = FALSE

\* An outcome that names a rollout of the tenant is credited to it, again.
LEMMA NamedAgain ==
  ASSUME NEW m, NEW w, NEW landed, NEW seen, NEW f, FullOf(m, w, landed, seen, f.tenant),
         NEW r, NEW o, Linked(f, r, o, w, landed, seen), o.explicit = r.id
  PROVE  \E g \in Range(m.rows) : SameSlot(g, f)
<1>1. PICK one : one = Ones(m)
  OBVIOUS
<1>2. IsMade(m)
  BY DEF FullOf, MadeOf
<1>3. PICK i \in DOMAIN m.rs : m.rs[i] = r
  BY AllFound DEF Linked
<1>4. PICK k \in DOMAIN m.os : m.os[k] = o
  BY AllFound DEF Linked
<1>5. OneIs(one[k], m.rs, o)
  BY <1>1, <1>2, <1>4, OnesAre
<1>6. r.id \in Nat
  <2>1. IsRollout(r)
    BY DEF Linked, LandedRollout, RolloutOfRow
  <2> QED
    BY <2>1 DEF IsRollout
<1>7. ExplicitTargets(m.rs, o) # {}
  BY <1>3, <1>6, NoneAssumption DEF ExplicitTargets
<1>8. Credits(one[k], m.rs, o, "explicit")
  <2>1. o.kind # "heartbeat" /\ \A j \in DOMAIN m.rs : m.rs[j].tenant = o.tenant
    BY <1>4, AllFound DEF Linked
  <2> QED
    BY <1>5, <1>7, <2>1 DEF OneIs
<1>9. 1 \in DOMAIN one[k].rows
  <2>1. IsList(one[k].rows) /\ Len(one[k].rows) = Len(one[k].at) /\ Len(one[k].at) > 0
    BY <1>8 DEF Credits
  <2>2. PICK n : n = Len(one[k].rows)
    OBVIOUS
  <2>3. n \in Nat /\ n > 0 /\ DOMAIN one[k].rows = 1..n
    BY <2>1, <2>2, ListDomain
  <2> QED
    BY <2>3
<1>10. PICK g, j : g = one[k].rows[1] /\ j = one[k].at[1]
  OBVIOUS
<1>11. RowFrom(g, m.rs, o, j, "explicit")
  BY <1>8, <1>9, <1>10, RowsOfCredit
<1>12. /\ g.rollout = m.rs[j].id /\ Evidence(m.rs[j], o, "explicit") /\ g.tenant = o.tenant
       /\ g.slot = LabelKindOf(o.kind) /\ g.retracted = FALSE
  BY <1>11 DEF RowFrom
<1>13. g.rollout = r.id
  BY <1>12 DEF Evidence
<1>14. g \in Range(m.rows)
  BY <1>1, <1>2, <1>9, <1>10, MadeRows
<1>15. o.tenant = f.tenant
  BY <1>4, AllFound
<1> QED
  BY <1>12, <1>13, <1>14, <1>15 DEF SameSlot, Linked

\* One in whose window a rollout of the tenant is, too, unless it names another.
LEMMA TimedAgain ==
  ASSUME NEW m, NEW w, NEW landed, NEW seen, NEW f, FullOf(m, w, landed, seen, f.tenant),
         NEW r, NEW o, Linked(f, r, o, w, landed, seen), InTemporalWindow(r, o), f.outcome = o.id
  PROVE  \/ \E g \in Range(m.rows) : SameSlot(g, f)
         \/ \E x \in Range(m.os) : x.id = f.outcome /\ x.explicit # None
<1>1. PICK one : one = Ones(m)
  OBVIOUS
<1>2. IsMade(m)
  BY DEF FullOf, MadeOf
<1>3. PICK i \in DOMAIN m.rs : m.rs[i] = r
  BY AllFound DEF Linked
<1>4. PICK k \in DOMAIN m.os : m.os[k] = o
  BY AllFound DEF Linked
<1>5. OneIs(one[k], m.rs, o)
  BY <1>1, <1>2, <1>4, OnesAre
<1>6. CASE ExplicitTargets(m.rs, o) # {}
  <2>1. o.explicit # None
    BY <1>6 DEF ExplicitTargets
  <2>2. o \in Range(m.os)
    BY <1>4 DEF Range
  <2> QED
    BY <2>1, <2>2
<1>7. CASE ExplicitTargets(m.rs, o) = {}
  <2>1. o.kind # "heartbeat" /\ \A j \in DOMAIN m.rs : m.rs[j].tenant = o.tenant
    BY <1>4, AllFound DEF Linked
  <2>2. Credits(one[k], m.rs, o, "temporal") /\ i \in Range(one[k].at)
    BY <1>3, <1>5, <1>7, <2>1 DEF OneIs
  <2>3. PICK x \in DOMAIN one[k].at : one[k].at[x] = i
    BY <2>2 DEF Range
  <2>4. PICK g : g = one[k].rows[x]
    OBVIOUS
  <2>5. RowFrom(g, m.rs, o, i, "temporal") /\ x \in DOMAIN one[k].rows
    BY <2>2, <2>3, <2>4, RowsOfCredit
  <2>6. g.rollout = r.id /\ g.tenant = o.tenant /\ g.slot = LabelKindOf(o.kind) /\ g.retracted = FALSE
    BY <1>3, <2>5 DEF RowFrom
  <2>7. g \in Range(m.rows)
    BY <1>1, <1>2, <2>4, <2>5, MadeRows
  <2>8. o.tenant = f.tenant
    BY <1>4, AllFound
  <2> QED
    BY <2>6, <2>7, <2>8 DEF SameSlot, Linked
<1> QED
  BY <1>6, <1>7

\* More heartbeats cover no less.
LEMMA CoveredStays ==
  ASSUME NEW hs, NEW more, hs \subseteq more, \A h \in more : h.mono \in Nat, NEW r, IsRollout(r), Covered(hs, r)
  PROVE  Covered(more, r)
<1>1. StampsFor(hs, r) \subseteq StampsFor(more, r)
  BY DEF StampsFor
<1>2. /\ DefaultWindow > 0 /\ StampsFor(hs, r) # {} /\ MaxGap > 0
      /\ Spaced(r.mono, r.mono + DefaultWindow, StampsFor(hs, r), MaxGap)
  BY CoveredIs
<1>3. Spaced(r.mono, r.mono + DefaultWindow, StampsFor(more, r), MaxGap)
  BY <1>1, <1>2 DEF Spaced
<1> QED
  BY <1>1, <1>2, <1>3, CoveredIs

\* And silence is a success again, unless a failure is credited by now.
LEMMA SilentAgain ==
  ASSUME NEW m, NEW w, NEW landed, NEW seen, NEW f, FullOf(m, w, landed, seen, f.tenant),
         NEW r, NEW hs, Quiet(f, r, hs, w, landed, seen)
  PROVE  \/ \E g \in Range(m.rows) : SameSlot(g, f)
         \/ \E g \in Range(m.rows) : g.rollout = f.rollout /\ g.slot = "intervention"
<1>1. PICK one : one = Ones(m)
  OBVIOUS
<1>0. /\ HeartbeatPeriod > 0 /\ f.slot = "terminal_outcome" /\ f.rollout = r.id
      /\ LandedRollout(r, w, landed, f.tenant) /\ BeatsRead(hs, w, seen, f.tenant) /\ Covered(hs, r)
  BY DEF Quiet
<1> USE <1>0
<1>2. IsMade(m) /\ m.hs = Heartbeats(m.os) /\ \A h \in m.hs : h.mono \in Nat
  BY DEF FullOf, MadeOf, IsMade
<1>3. PICK i \in DOMAIN m.rs : m.rs[i] = r
  BY AllFound
<1>4. hs \subseteq m.hs
  <2> SUFFICES ASSUME NEW h \in hs PROVE h \in m.hs
    OBVIOUS
  <2>1. PICK o : LandedOutcome(o, w, seen, f.tenant) /\ o.kind = "heartbeat" /\ h = Beat(o)
    BY DEF BeatsRead
  <2>2. PICK k \in DOMAIN m.os : m.os[k] = o
    BY <2>1, AllFound
  <2>3. o \in Range(m.os)
    BY <2>2 DEF Range
  <2> QED
    BY <1>2, <2>1, <2>3 DEF Heartbeats, Beat
<1>5. Covered(m.hs, r)
  <2>1. IsRollout(r)
    BY DEF LandedRollout, RolloutOfRow
  <2> QED
    BY <1>2, <1>4, <2>1, CoveredStays
<1>6. r.tenant = f.tenant
  BY <1>3, AllFound
<1>7. CASE i \notin Failed(m)
  <2>1. Silent(m, i)
    BY <1>3, <1>5, <1>7 DEF Silent
  <2>2. PICK g \in Range(m.rows) : SilentRow(g, r)
    BY <1>1, <1>2, <1>3, <2>1, MadeRows
  <2> QED
    BY <1>6, <2>2 DEF SameSlot, SilentRow
<1>8. CASE i \in Failed(m)
  <2>1. PICK k \in DOMAIN m.os : m.os[k].kind \in Failures /\ i \in Range(one[k].at)
    BY <1>1, <1>8 DEF Failed
  <2>2. PICK x \in DOMAIN one[k].at : one[k].at[x] = i
    BY <2>1 DEF Range
  <2>3. OneIs(one[k], m.rs, m.os[k])
    BY <1>1, <1>2, OnesAre
  <2>4. one[k].at # <<>>
    BY <2>2, EmptyList
  <2>5. \E method : Credits(one[k], m.rs, m.os[k], method)
    BY <2>3, <2>4 DEF OneIs, Nothing
  <2>6. PICK method : Credits(one[k], m.rs, m.os[k], method)
    BY <2>5
  <2>7. PICK g : g = one[k].rows[x]
    OBVIOUS
  <2>8. RowFrom(g, m.rs, m.os[k], i, method) /\ x \in DOMAIN one[k].rows
    BY <2>2, <2>6, <2>7, RowsOfCredit
  <2>9. g.rollout = r.id /\ g.tenant = m.os[k].tenant /\ g.slot = LabelKindOf(m.os[k].kind) /\ g.retracted = FALSE
    BY <1>3, <2>8 DEF RowFrom
  <2>10. g \in Range(m.rows)
    BY <1>1, <1>2, <2>7, <2>8, MadeRows
  <2>11. m.os[k].tenant = f.tenant
    BY AllFound
  <2>12. g.slot \in {"intervention", "terminal_outcome"}
    BY <2>9 DEF LabelKindOf
  <2> QED
    BY <2>9, <2>10, <2>11, <2>12 DEF SameSlot
<1> QED
  BY <1>7, <1>8

\* So a full pass has a new word on everything an earlier one said, but for
\* the two that it knows better.
LEMMA Superseded ==
  ASSUME NEW m, NEW w, NEW landed, NEW seen, NEW f, FullOf(m, w, landed, seen, f.tenant), Derived(f, w, landed, seen)
  PROVE  \/ \E g \in Range(m.rows) : SameSlot(g, f)
         \/ f.method = "temporal" /\ \E x \in Range(m.os) : x.id = f.outcome /\ x.explicit # None
         \/ f.method = "synthetic_absence" /\ \E g \in Range(m.rows) : g.rollout = f.rollout /\ g.slot = "intervention"
<1>1. CASE f.method = "explicit" /\ \E r, o : Linked(f, r, o, w, landed, seen) /\ o.explicit = r.id
  BY <1>1, NamedAgain
<1>2. CASE f.method = "temporal" /\ \E r, o : Linked(f, r, o, w, landed, seen) /\ InTemporalWindow(r, o) /\ f.outcome = o.id
  BY <1>2, TimedAgain
<1>3. CASE f.method = "synthetic_absence" /\ \E r, hs : Quiet(f, r, hs, w, landed, seen)
  BY <1>3, SilentAgain
<1> QED
  BY <1>1, <1>2, <1>3 DEF Derived

(***************************************************************************)
(* The invariant.                                                          *)
(***************************************************************************)

TableInv ==
    /\ world \in Worlds
    /\ table \in [rollouts : SUBSET DOMAIN world.rollouts, outcomes : SUBSET DOMAIN world.outcomes]
    /\ IsList(subject) /\ Len(subject) <= MaxEvents
    /\ used \in [passes : 0..MaxPasses, curations : 0..MaxCurations]

\* Every row is a curator's, withdrawn, or derived from what has landed.
IsRow(f, w, landed, seen) ==
    /\ IsFeedback(f) /\ DOMAIN f = RowFields /\ f.set # None
    /\ f.retracted \/ f.method = "manual" \/ Derived(f, w, landed, seen)
FeedbackInv == IsList(feedback) /\ \A k \in DOMAIN feedback : IsRow(feedback[k], world, table.rollouts, table.outcomes)

\* What a pass holds between its steps it has read, or made of what it read.
IsPass(p, w, landed, seen) ==
    \/ p = Idle
    \/ p.step = "outcomes" /\ RolloutsRead(p.rs, w, landed, p.tenant)
    \/ p.step = "feedback" /\ RolloutsRead(p.rs, w, landed, p.tenant) /\ OutcomesRead(p.os, w, seen, p.tenant)
    \/ /\ p.step = "insert" /\ MadeOf(p.made, w, landed, seen, p.tenant) /\ p.made.full = FALSE
       /\ DOMAIN p.made = DOMAIN NoReport
PassInv == IsPass(pass, world, table.rollouts, table.outcomes) /\ (pass = Idle \/ world.live)

\* The rows of a full pass are in the table, behind everything it had read.
IsFull(m, w, landed, seen, rows) ==
    /\ \E tenant : FullOf(m, w, landed, seen, tenant)
    /\ m.base \in Nat /\ m.base + Len(m.rows) <= Len(rows)
    /\ \A i \in 1..Len(m.rows) : rows[m.base + i] = FeedbackRow(m.rows[i])
ReportInv ==
    /\ report = NoReport \/ IsMade(report)
    /\ report = NoReport \/ pass = Idle
    /\ report.full => IsFull(report, world, table.rollouts, table.outcomes, feedback)

JoinInv == TableInv /\ FeedbackInv /\ PassInv /\ ReportInv

LEMMA TablesAre ==
  ASSUME TableInv
  PROVE  /\ IsWorld(world) /\ table.rollouts \subseteq DOMAIN world.rollouts /\ table.outcomes \subseteq DOMAIN world.outcomes
         /\ used.passes <= MaxPasses /\ used.curations <= MaxCurations
<1>1. IsWorld(world)
  BY WorldsAre DEF TableInv
<1>2. table.rollouts \subseteq DOMAIN world.rollouts /\ table.outcomes \subseteq DOMAIN world.outcomes
  BY DEF TableInv
<1>3. MaxPasses \in Nat /\ MaxCurations \in Nat
  BY WorldsAssumption
<1>4. used.passes \in 0..MaxPasses /\ used.curations \in 0..MaxCurations
  BY DEF TableInv
<1> QED
  BY <1>1, <1>2, <1>3, <1>4

LEMMA RowsStay ==
  ASSUME FeedbackInv, NEW more, table.rollouts \subseteq more, NEW later, table.outcomes \subseteq later,
         NEW k \in DOMAIN feedback
  PROVE  IsRow(feedback[k], world, more, later)
BY DerivedGrows DEF FeedbackInv, IsRow

LEMMA PassStays ==
  ASSUME PassInv, NEW more, table.rollouts \subseteq more, NEW later, table.outcomes \subseteq later
  PROVE  IsPass(pass, world, more, later)
<1>1. /\ \A rs, tenant : RolloutsRead(rs, world, table.rollouts, tenant) => RolloutsRead(rs, world, more, tenant)
      /\ \A os, tenant : OutcomesRead(os, world, table.outcomes, tenant) => OutcomesRead(os, world, later, tenant)
  BY ReadsGrow
<1>2. \A m, tenant : MadeOf(m, world, table.rollouts, table.outcomes, tenant) => MadeOf(m, world, more, later, tenant)
  BY <1>1 DEF MadeOf
<1> QED
  BY <1>1, <1>2 DEF PassInv, IsPass

LEMMA InitInv == Init => JoinInv
<1> SUFFICES ASSUME Init PROVE JoinInv
  OBVIOUS
<1>1. TableInv
  <2>1. MaxPasses \in Nat /\ MaxEvents \in Nat /\ MaxCurations \in Nat
    BY WorldsAssumption
  <2>2. IsList(<<>>) /\ Len(<<>>) = 0
    BY EmptyList
  <2> QED
    BY <2>1, <2>2 DEF Init, TableInv
<1>2. FeedbackInv
  BY EmptyList DEF Init, FeedbackInv
<1>3. PassInv
  BY DEF Init, PassInv, IsPass
<1>4. ReportInv
  BY DEF Init, ReportInv, NoReport
<1> QED
  BY <1>1, <1>2, <1>3, <1>4 DEF JoinInv

(***************************************************************************)
(* The environment and the subscribe loop.                                 *)
(***************************************************************************)

LEMMA QueueStep ==
  ASSUME TableInv, NEW event, Publish(event)
  PROVE  IsList(subject') /\ Len(subject') <= MaxEvents
<1>1. CASE subject' = subject
  BY <1>1 DEF TableInv
<1>2. CASE Len(subject) < MaxEvents /\ subject' = Append(subject, event)
  <2>1. IsList(subject') /\ Len(subject') = Len(subject) + 1
    BY <1>2, ListAppend DEF TableInv
  <2>2. Len(subject) \in Nat /\ MaxEvents \in Nat
    BY ListDomain, WorldsAssumption DEF TableInv
  <2> QED
    BY <1>2, <2>1, <2>2
<1> QED
  BY <1>1, <1>2 DEF Publish

LEMMA LandedStep ==
  ASSUME JoinInv, LandRollout \/ LandOutcome
  PROVE  JoinInv'
<1>1. /\ world' = world /\ feedback' = feedback /\ pass' = pass /\ used' = used /\ report' = NoReport
      /\ table.rollouts \subseteq table'.rollouts /\ table.outcomes \subseteq table'.outcomes
      /\ table' \in [rollouts : SUBSET DOMAIN world.rollouts, outcomes : SUBSET DOMAIN world.outcomes]
      /\ IsList(subject') /\ Len(subject') <= MaxEvents
  <2>1. CASE LandRollout
    <3>1. PICK i \in DOMAIN world.rollouts : /\ table' = [table EXCEPT !.rollouts = @ \cup {i}]
                                              /\ Publish(world.rollouts[i].tenant)
      BY <2>1 DEF LandRollout
    <3>2. IsList(subject') /\ Len(subject') <= MaxEvents
      BY <3>1, QueueStep DEF JoinInv
    <3> QED
      BY <2>1, <3>1, <3>2 DEF LandRollout, JoinInv, TableInv
  <2>2. CASE LandOutcome
    <3>1. PICK i \in DOMAIN world.outcomes : table' = [table EXCEPT !.outcomes = @ \cup {i}]
      BY <2>2 DEF LandOutcome
    <3> QED
      BY <2>2, <3>1 DEF LandOutcome, JoinInv, TableInv
  <2> QED
    BY <2>1, <2>2
<1>2. TableInv'
  BY <1>1 DEF JoinInv, TableInv
<1>3. FeedbackInv'
  <2>1. \A k \in DOMAIN feedback : IsRow(feedback[k], world, table'.rollouts, table'.outcomes)
    BY <1>1, RowsStay DEF JoinInv
  <2> QED
    BY <1>1, <2>1 DEF JoinInv, FeedbackInv
<1>4. PassInv'
  <2>1. IsPass(pass, world, table'.rollouts, table'.outcomes)
    BY <1>1, PassStays DEF JoinInv
  <2> QED
    BY <1>1, <2>1 DEF JoinInv, PassInv
<1>5. ReportInv'
  BY <1>1 DEF ReportInv, NoReport
<1> QED
  BY <1>2, <1>3, <1>4, <1>5 DEF JoinInv

\* A full pass stays the last word on what it was about while rows are added.
LEMMA FullStays ==
  ASSUME NEW m, NEW w, NEW landed, NEW seen, NEW rows, IsList(rows), NEW f, IsFull(m, w, landed, seen, rows), IsList(m.rows)
  PROVE  IsFull(m, w, landed, seen, Append(rows, f))
<1>1. PICK n, l : n = Len(rows) /\ l = Len(m.rows)
  OBVIOUS
<1>2. n \in Nat /\ l \in Nat /\ m.base \in Nat /\ m.base + l <= n
  BY <1>1, ListDomain DEF IsFull
<1>3. PICK more : more = Append(rows, f)
  OBVIOUS
<1>4. Len(more) = n + 1 /\ \A k \in 1..n : more[k] = rows[k]
  BY <1>1, <1>3, ListAppend
<1>5. \A i \in 1..l : more[m.base + i] = FeedbackRow(m.rows[i])
  <2> TAKE i \in 1..l
  <2>1. m.base + i \in 1..n
    BY <1>2
  <2> QED
    BY <1>1, <1>4, <2>1 DEF IsFull
<1>6. \E tenant : FullOf(m, w, landed, seen, tenant)
  BY DEF IsFull
<1>7. m.base + l <= Len(more)
  BY <1>2, <1>4
<1> QED
  BY ONLY <1>1, <1>2, <1>3, <1>5, <1>6, <1>7 DEF IsFull

LEMMA CuratorRowsAre ==
  ASSUME JoinInv, NEW f \in CuratorRows
  PROVE  IsRow(FeedbackRow(ParseFeedback(f)), world, table.rollouts, table.outcomes)
<1>1. /\ DOMAIN f = RowFields /\ IsFeedback(f) /\ (f.retracted \/ f.method = "manual")
  <2>1. CASE \E i \in table.rollouts, failure \in BOOLEAN : f = Label(world.rollouts[i], "terminal_outcome", failure)
    <3>1. PICK i, failure : failure \in BOOLEAN /\ f = Label(world.rollouts[i], "terminal_outcome", failure)
      BY <2>1
    <3>2. PICK r : r = world.rollouts[i]
      OBVIOUS
    <3>3. f = Label(r, "terminal_outcome", failure)
      BY <3>1, <3>2
    <3>4. /\ f.slot = "terminal_outcome" /\ f.failure = failure /\ f.method = "manual" /\ f.confidence = One
          /\ f.weight = One /\ f.retracted = FALSE /\ DOMAIN f = RowFields
      BY <3>3 DEF Label, RowFields
    <3>5. One \in 0..One
      BY DEF One
    <3> QED
      BY <3>1, <3>4, <3>5 DEF IsFeedback, LabelKinds, Methods, Known
  <2>2. CASE \E k \in DOMAIN feedback : f = [feedback[k] EXCEPT !.retracted = TRUE]
    <3>1. PICK k \in DOMAIN feedback : f = [feedback[k] EXCEPT !.retracted = TRUE]
      BY <2>2
    <3>2. PICK g : g = feedback[k]
      OBVIOUS
    <3>3. IsFeedback(g) /\ DOMAIN g = RowFields
      BY <3>2 DEF JoinInv, FeedbackInv, IsRow
    <3>4. DOMAIN f = RowFields /\ f.retracted = TRUE /\ \A c \in RowFields : c # "retracted" => f[c] = g[c]
      BY <3>1, <3>2, <3>3 DEF RowFields
    <3>5. /\ f.slot = g.slot /\ f.method = g.method /\ f.failure = g.failure /\ f.confidence = g.confidence
          /\ f.weight = g.weight /\ f.outcome = g.outcome
      BY <3>4 DEF RowFields
    <3> QED
      BY <3>3, <3>4, <3>5 DEF IsFeedback
  <2> QED
    BY <2>1, <2>2 DEF CuratorRows
<1>2. PICK g : g = ParseFeedback(f)
  OBVIOUS
<1>3. SameRow(g, f)
  BY <1>1, <1>2, FeedbackParsed
<1>4. PICK x : x = FeedbackRow(g)
  OBVIOUS
<1>5. SameRow(x, g) /\ x.set # None
  BY <1>3, <1>4, FeedbackWritten DEF SameRow
<1>6. /\ x.slot = f.slot /\ x.method = f.method /\ x.failure = f.failure /\ x.confidence = f.confidence
      /\ x.weight = f.weight /\ x.outcome = f.outcome /\ x.retracted = f.retracted /\ DOMAIN x = RowFields
  BY <1>3, <1>5 DEF SameRow
<1>7. IsFeedback(x)
  BY <1>1, <1>6 DEF IsFeedback
<1> QED
  BY <1>1, <1>2, <1>4, <1>5, <1>6, <1>7 DEF IsRow

LEMMA MadeList ==
  ASSUME NEW m, IsMade(m)
  PROVE  IsList(m.rows)
<1>1. PICK one : one = Ones(m)
  OBVIOUS
<1> QED
  BY <1>1, MadeRows

LEMMA CurateStep ==
  ASSUME JoinInv, Curate
  PROVE  JoinInv'
<1>1. PICK row \in CuratorRows : feedback' = Append(feedback, FeedbackRow(ParseFeedback(row)))
  BY DEF Curate
<1>2. /\ world' = world /\ table' = table /\ subject' = subject /\ pass' = pass /\ report' = report
      /\ used.curations < MaxCurations /\ used' = [used EXCEPT !.curations = @ + 1]
  BY DEF Curate
<1>3. TableInv'
  <2>1. MaxCurations \in Nat
    BY WorldsAssumption
  <2>2. used' \in [passes : 0..MaxPasses, curations : 0..MaxCurations]
    BY <1>2, <2>1 DEF JoinInv, TableInv
  <2> QED
    BY <1>2, <2>2 DEF JoinInv, TableInv
<1>4. PICK x : x = FeedbackRow(ParseFeedback(row))
  OBVIOUS
<1>5. IsRow(x, world, table.rollouts, table.outcomes)
  BY <1>1, <1>4, CuratorRowsAre
<1>6. PICK n : n = Len(feedback)
  OBVIOUS
<1>7. n \in Nat /\ DOMAIN feedback = 1..n /\ IsList(feedback)
  BY <1>6, ListDomain DEF JoinInv, FeedbackInv
<1>8. IsList(feedback') /\ Len(feedback') = n + 1 /\ feedback'[n + 1] = x /\ \A k \in 1..n : feedback'[k] = feedback[k]
  BY <1>1, <1>4, <1>6, <1>7, ListAppend
<1>9. FeedbackInv'
  <2>1. DOMAIN feedback' = 1..n + 1
    BY <1>8, ListDomain
  <2>2. \A k \in 1..n + 1 : IsRow(feedback'[k], world, table.rollouts, table.outcomes)
    BY <1>5, <1>7, <1>8 DEF JoinInv, FeedbackInv
  <2> QED
    BY <1>2, <1>8, <2>1, <2>2 DEF FeedbackInv
<1>10. PassInv'
  BY <1>2 DEF JoinInv, PassInv
<1>11. ReportInv'
  <2>1. CASE report.full
    <3>1. report # NoReport
      BY <2>1 DEF NoReport
    <3>2. IsFull(report, world, table.rollouts, table.outcomes, feedback) /\ IsList(report.rows)
      BY <2>1, <3>1, MadeList DEF JoinInv, ReportInv
    <3>3. IsFull(report, world, table.rollouts, table.outcomes, feedback')
      BY <1>1, <1>7, <3>2, FullStays
    <3> QED
      BY <1>2, <3>3 DEF JoinInv, ReportInv
  <2>2. CASE ~report.full
    BY <1>2, <2>2 DEF JoinInv, ReportInv
  <2> QED
    BY <2>1, <2>2
<1> QED
  BY <1>3, <1>9, <1>10, <1>11 DEF JoinInv

LEMMA ReaderStep ==
  ASSUME JoinInv, ProcessOneEvent \/ Dashboard
  PROVE  JoinInv'
<1>1. /\ world' = world /\ table' = table /\ feedback' = feedback /\ pass' = pass /\ report' = report /\ used' = used
  BY DEF ProcessOneEvent, Dashboard
<1>2. IsList(subject') /\ Len(subject') <= MaxEvents
  <2>1. CASE subject' = subject
    BY <2>1 DEF JoinInv, TableInv
  <2>2. CASE subject # <<>> /\ subject' = Tail(subject)
    <3>1. subject \in Seq(Range(subject)) /\ subject # <<>> /\ Len(subject) <= MaxEvents
      BY <2>2 DEF JoinInv, TableInv, IsList
    <3>2. Tail(subject) \in Seq(Range(subject)) /\ Len(Tail(subject)) = Len(subject) - 1
      BY <3>1, HeadTailProperties
    <3>3. IsList(subject')
      BY <2>2, <3>2, ListIn
    <3>4. Len(subject) \in Nat /\ MaxEvents \in Nat
      BY <3>1, ListDomain, WorldsAssumption DEF IsList
    <3> QED
      BY <2>2, <3>1, <3>2, <3>3, <3>4
  <2> QED
    BY <2>1, <2>2 DEF ProcessOneEvent, Dashboard
<1> QED
  BY <1>1, <1>2 DEF JoinInv, TableInv, FeedbackInv, PassInv, ReportInv

(***************************************************************************)
(* The pass and the library.                                               *)
(***************************************************************************)

LEMMA BeatsOf ==
  ASSUME NEW os, \A k \in DOMAIN os : IsOutcome(os[k])
  PROVE  \A h \in Heartbeats(os) : h.mono \in Nat
<1> SUFFICES ASSUME NEW h \in Heartbeats(os) PROVE h.mono \in Nat
  OBVIOUS
<1>1. PICK o \in Range(os) : h = Beat(o)
  BY DEF Heartbeats, Beat
<1>2. IsOutcome(o)
  BY DEF Range
<1> QED
  BY <1>1, <1>2 DEF IsOutcome, Beat

\* A report of a batch, and what a pass relies on in it.
Reports(m, curves, known, rs, os, hs) ==
    /\ IsBatch(rs, os) /\ IsCurves(curves) /\ \A h \in hs : h.mono \in Nat
    /\ m = Report(curves, known, rs, os, hs, AttributeWith(curves, rs, os, hs))
Reported(m, rs, os, hs) ==
    IsMade(m) /\ m.rs = rs /\ m.os = os /\ m.hs = hs /\ m.full = FALSE /\ DOMAIN m = DOMAIN NoReport

LEMMA ReportIsMade ==
  ASSUME NEW m, NEW curves, NEW known, NEW rs, NEW os, NEW hs, Reports(m, curves, known, rs, os, hs)
  PROVE  Reported(m, rs, os, hs)
<1>1. PICK made, active : made = AttributeWith(curves, rs, os, hs) /\ active = FittedCurveIsActive(curves, known, rs)
  OBVIOUS
<1>2. m = [rs |-> rs, os |-> os, hs |-> hs, known |-> known, curves |-> curves, active |-> active,
           rows |-> made.feedbacks, skipped |-> made.skipped, full |-> FALSE, base |-> 0]
  BY <1>1 DEF Reports, Report
<1>3. /\ m.rs = rs /\ m.os = os /\ m.hs = hs /\ m.curves = curves /\ m.rows = made.feedbacks /\ m.skipped = made.skipped
      /\ m.full = FALSE /\ DOMAIN m = {"rs", "os", "hs", "known", "curves", "active", "rows", "skipped", "full", "base"}
  BY <1>2
<1>4. DOMAIN NoReport = {"rs", "os", "hs", "known", "curves", "active", "rows", "skipped", "full", "base"}
  BY DEF NoReport
<1>5. IsMade(m)
  BY <1>1, <1>3 DEF IsMade, Reports
<1> QED
  BY <1>3, <1>4, <1>5 DEF Reported

LEMMA PassFieldsStay ==
  ASSUME JoinInv, world' = world, table' = table, feedback' = feedback, subject' = subject, used' = used
  PROVE  TableInv' /\ FeedbackInv'
BY DEF JoinInv, TableInv, FeedbackInv

LEMMA PassStarts ==
  ASSUME JoinInv, ReadRollouts
  PROVE  JoinInv'
<1>1. /\ world' = world /\ table' = table /\ feedback' = feedback /\ subject' = subject /\ report' = NoReport
      /\ used.passes < MaxPasses /\ used' = [used EXCEPT !.passes = @ + 1] /\ world.live
  BY DEF ReadRollouts
<1>2. PICK tenant, from, rs : /\ rs = RecentRollouts(tenant, from)
                              /\ pass' = [step |-> "outcomes", tenant |-> tenant, from |-> from, rs |-> rs]
  BY DEF ReadRollouts
<1>3. TableInv'
  <2>1. MaxPasses \in Nat
    BY WorldsAssumption
  <2>2. used' \in [passes : 0..MaxPasses, curations : 0..MaxCurations]
    BY <1>1, <2>1 DEF JoinInv, TableInv
  <2> QED
    BY <1>1, <2>2 DEF JoinInv, TableInv
<1>4. FeedbackInv'
  BY <1>1 DEF JoinInv, FeedbackInv
<1>5. PassInv'
  <2>1. RolloutsRead(rs, world, table.rollouts, tenant)
    BY <1>2, TablesAre, RolloutsAreRead DEF JoinInv
  <2>2. pass'.step = "outcomes" /\ pass'.rs = rs /\ pass'.tenant = tenant
    BY <1>2
  <2> QED
    BY <1>1, <2>1, <2>2 DEF PassInv, IsPass
<1>6. ReportInv'
  BY <1>1 DEF ReportInv, NoReport
<1> QED
  BY <1>3, <1>4, <1>5, <1>6 DEF JoinInv

LEMMA PassReads ==
  ASSUME JoinInv, ReadOutcomes
  PROVE  JoinInv'
<1>1. /\ world' = world /\ table' = table /\ feedback' = feedback /\ subject' = subject /\ report' = report /\ used' = used
      /\ pass.step = "outcomes"
  BY DEF ReadOutcomes
<1>2. pass # Idle /\ world.live /\ report = NoReport /\ RolloutsRead(pass.rs, world, table.rollouts, pass.tenant)
  BY <1>1 DEF JoinInv, PassInv, IsPass, ReportInv, Idle
<1>3. PassInv'
  <2>1. CASE pass' = Idle
    BY <2>1 DEF PassInv, IsPass
  <2>2. CASE pass' # Idle
    <3>1. PICK os : os = [k \in DOMAIN RecentOutcomes(pass.tenant, pass.from) |-> ParseOutcome(RecentOutcomes(pass.tenant, pass.from)[k])]
      OBVIOUS
    <3>2. pass' = [step |-> "feedback", tenant |-> pass.tenant, from |-> pass.from, rs |-> pass.rs, os |-> os]
      BY <2>2, <3>1 DEF ReadOutcomes
    <3>3. pass'.step = "feedback" /\ pass'.tenant = pass.tenant /\ pass'.rs = pass.rs /\ pass'.os = os
      BY <3>2
    <3>4. OutcomesRead(os, world, table.outcomes, pass.tenant)
      BY <3>1, TablesAre, OutcomesAreRead DEF JoinInv
    <3> QED
      BY <1>1, <1>2, <3>3, <3>4 DEF PassInv, IsPass
  <2> QED
    BY <2>1, <2>2
<1>4. ReportInv'
  BY <1>1, <1>2 DEF ReportInv, NoReport
<1> QED
  BY <1>1, <1>3, <1>4, PassFieldsStay DEF JoinInv

LEMMA PassMakes ==
  ASSUME JoinInv, ReadFeedback
  PROVE  JoinInv'
<1>1. /\ world' = world /\ table' = table /\ feedback' = feedback /\ subject' = subject /\ report' = report /\ used' = used
      /\ pass.step = "feedback"
  BY DEF ReadFeedback
<1>2. /\ pass # Idle /\ world.live /\ report = NoReport
      /\ RolloutsRead(pass.rs, world, table.rollouts, pass.tenant) /\ OutcomesRead(pass.os, world, table.outcomes, pass.tenant)
  BY <1>1 DEF JoinInv, PassInv, IsPass, ReportInv, Idle
<1>3. PassInv'
  <2>1. CASE pass' = Idle
    BY <2>1 DEF PassInv, IsPass
  <2>2. CASE pass' # Idle
    <3>1. PICK newestFirst \in BOOLEAN : pass' = [step |-> "insert", tenant |-> pass.tenant, rs |-> pass.rs, from |-> pass.from,
                         made |-> AttributeBatch(RecentFeedback(pass.tenant, newestFirst), pass.rs, pass.os)]
      BY <2>2 DEF ReadFeedback
    <3>2. PICK known, m : known = RecentFeedback(pass.tenant, newestFirst) /\ m = AttributeBatch(known, pass.rs, pass.os)
      OBVIOUS
    <3>3. pass'.step = "insert" /\ pass'.tenant = pass.tenant /\ pass'.made = m
      BY <3>1, <3>2
    <3>4. PICK curves, hs : curves = Fit(known, pass.rs, MinLabels) /\ hs = Heartbeats(pass.os)
      OBVIOUS
    <3>5. m = Report(curves, known, pass.rs, pass.os, hs, AttributeWith(curves, pass.rs, pass.os, hs))
      BY <3>2, <3>4 DEF AttributeBatch
    <3>6. Labelled(known)
      <4>1. IsList(feedback) /\ \A k \in DOMAIN feedback : IsFeedback(feedback[k]) /\ DOMAIN feedback[k] = RowFields
        BY DEF JoinInv, FeedbackInv, IsRow
      <4> QED
        BY <3>2, <4>1, FeedbackIsRead
    <3>7. IsCurves(curves)
      BY <3>4, <3>6, FitCurves
    <3>8. IsBatch(pass.rs, pass.os)
      BY <1>2, TablesAre, BatchRead DEF JoinInv
    <3>9. \A h \in hs : h.mono \in Nat
      <4>1. \A k \in DOMAIN pass.os : IsOutcome(pass.os[k])
        BY <3>8 DEF IsBatch
      <4> QED
        BY <3>4, <4>1, BeatsOf
    <3>10. Reported(m, pass.rs, pass.os, hs)
      BY <3>5, <3>7, <3>8, <3>9, ReportIsMade DEF Reports
    <3>11. MadeOf(m, world, table.rollouts, table.outcomes, pass.tenant)
      BY <1>2, <3>4, <3>10 DEF MadeOf, Reported
    <3> QED
      BY <1>1, <1>2, <3>3, <3>10, <3>11 DEF PassInv, IsPass, Reported
  <2> QED
    BY <2>1, <2>2
<1>4. ReportInv'
  BY <1>1, <1>2 DEF ReportInv, NoReport
<1> QED
  BY <1>1, <1>3, <1>4, PassFieldsStay DEF JoinInv

LEMMA PassEnds ==
  ASSUME JoinInv, PassFails
  PROVE  JoinInv'
<1>1. /\ world' = world /\ table' = table /\ feedback' = feedback /\ subject' = subject /\ report' = report /\ used' = used
      /\ pass' = Idle /\ pass # Idle
  BY DEF PassFails
<1>2. PassInv'
  BY <1>1 DEF PassInv, IsPass
<1>3. ReportInv'
  BY <1>1 DEF JoinInv, ReportInv, NoReport
<1> QED
  BY <1>1, <1>2, <1>3, PassFieldsStay DEF JoinInv

LEMMA SameDerived ==
  ASSUME NEW f, NEW x, SameRow(x, f), NEW w, NEW landed, NEW seen, Derived(f, w, landed, seen)
  PROVE  Derived(x, w, landed, seen)
<1>1. x.tenant = f.tenant /\ x.rollout = f.rollout /\ x.slot = f.slot /\ x.method = f.method /\ x.outcome = f.outcome
  BY DEF SameRow
<1>2. \A r, o : Linked(f, r, o, w, landed, seen) => Linked(x, r, o, w, landed, seen)
  BY <1>1 DEF Linked
<1>3. \A r, hs : Quiet(f, r, hs, w, landed, seen) => Quiet(x, r, hs, w, landed, seen)
  BY <1>1 DEF Quiet
<1> QED
  BY <1>1, <1>2, <1>3 DEF Derived

\* What a pass appends.
LEMMA Appended ==
  ASSUME NEW m, NEW w, NEW landed, NEW seen, NEW tenant, MadeOf(m, w, landed, seen, tenant),
         NEW rows, rows = [k \in DOMAIN m.rows |-> FeedbackRow(m.rows[k])]
  PROVE  /\ IsList(rows) /\ Len(rows) = Len(m.rows) /\ DOMAIN rows = 1..Len(m.rows)
         /\ \A k \in DOMAIN rows : IsRow(rows[k], w, landed, seen) /\ SameRow(rows[k], m.rows[k])
<1>1. IsMade(m) /\ IsList(m.rows)
  BY MadeList DEF MadeOf
<1>2. IsList(rows) /\ Len(rows) = Len(m.rows) /\ DOMAIN rows = DOMAIN m.rows
  <2>1. rows = [k \in DOMAIN m.rows |-> rows[k]]
    OBVIOUS
  <2> QED
    BY <1>1, <2>1, ListLike
<1>3. DOMAIN m.rows = 1..Len(m.rows)
  BY <1>1, ListDomain
<1>4. ASSUME NEW k \in DOMAIN rows
      PROVE  IsRow(rows[k], w, landed, seen) /\ SameRow(rows[k], m.rows[k])
  <2>1. PICK f, x : f = m.rows[k] /\ x = rows[k]
    OBVIOUS
  <2>2. f \in Range(m.rows) /\ x = FeedbackRow(f)
    BY <1>2, <2>1 DEF Range
  <2>3. IsFeedback(f) /\ DOMAIN f = RowFields
    BY <1>1, <2>2, FeedbackOf
  <2>4. SameRow(x, f) /\ x.set # None
    BY <2>2, <2>3, FeedbackWritten
  <2>5. Derived(f, w, landed, seen)
    BY <2>2, MadeDerived
  <2>6. Derived(x, w, landed, seen)
    BY <2>4, <2>5, SameDerived
  <2>7. /\ x.slot = f.slot /\ x.method = f.method /\ x.failure = f.failure /\ x.confidence = f.confidence
        /\ x.weight = f.weight /\ x.outcome = f.outcome /\ x.retracted = f.retracted /\ DOMAIN x = RowFields
    BY <2>4 DEF SameRow
  <2>8. IsFeedback(x)
    BY <2>3, <2>7 DEF IsFeedback
  <2>9. IsRow(x, w, landed, seen)
    BY <2>4, <2>6, <2>7, <2>8 DEF IsRow
  <2> QED
    BY <2>1, <2>4, <2>9
<1> QED
  BY <1>2, <1>3, <1>4

\* A pass that read all that is there now was full.
LEMMA AllWasRead ==
  ASSUME TableInv, NEW m, NEW tenant, MadeOf(m, world, table.rollouts, table.outcomes, tenant), ReadAll(tenant, m.rs, m.os)
  PROVE  FullOf(m, world, table.rollouts, table.outcomes, tenant)
<1>1. PICK rs, os : /\ rs = RecentRollouts(tenant, 0)
                    /\ os = [k \in DOMAIN RecentOutcomes(tenant, 0) |-> ParseOutcome(RecentOutcomes(tenant, 0)[k])]
  OBVIOUS
<1>2. m.rs = rs /\ m.os = os
  BY <1>1 DEF ReadAll
<1>3. \A i \in table.rollouts : world.rollouts[i].tenant = tenant => \E k \in DOMAIN rs : RolloutOfRow(rs[k], world.rollouts[i])
  BY <1>1, TablesAre, RolloutsAreRead
<1>4. \A i \in table.outcomes : world.outcomes[i].tenant = tenant => \E k \in DOMAIN os : OutcomeOfRow(os[k], world.outcomes[i])
  BY <1>1, TablesAre, OutcomesAreRead
<1> QED
  BY <1>2, <1>3, <1>4 DEF FullOf

LEMMA PassAppends ==
  ASSUME JoinInv, Insert
  PROVE  JoinInv'
<1>1. PICK m, tenant, rows : m = pass.made /\ tenant = pass.tenant /\ rows = [k \in DOMAIN m.rows |-> FeedbackRow(m.rows[k])]
  OBVIOUS
<1>2. PICK all : all = ReadAll(tenant, m.rs, m.os)
  OBVIOUS
<1>3. /\ world' = world /\ table' = table /\ subject' = subject /\ used' = used /\ pass' = Idle
      /\ pass.step = "insert" /\ feedback' = feedback \o rows
      /\ report' = [m EXCEPT !.full = all, !.base = Len(feedback)]
  BY <1>1, <1>2 DEF Insert
<1>4. /\ MadeOf(m, world, table.rollouts, table.outcomes, tenant) /\ DOMAIN m = DOMAIN NoReport /\ IsMade(m)
  BY <1>1, <1>3 DEF JoinInv, PassInv, IsPass, Idle, MadeOf
<1>5. TableInv'
  BY <1>3 DEF JoinInv, TableInv
<1>6. /\ IsList(rows) /\ Len(rows) = Len(m.rows) /\ DOMAIN rows = 1..Len(m.rows)
      /\ \A k \in DOMAIN rows : IsRow(rows[k], world, table.rollouts, table.outcomes)
  BY <1>1, <1>4, Appended
<1>7. PICK n, l : n = Len(feedback) /\ l = Len(m.rows)
  OBVIOUS
<1>8. IsList(feedback) /\ n \in Nat /\ l \in Nat /\ DOMAIN feedback = 1..n
  BY <1>6, <1>7, ListDomain DEF JoinInv, FeedbackInv
<1>9. /\ IsList(feedback') /\ Len(feedback') = n + l /\ DOMAIN feedback' = 1..(n + l)
      /\ \A k \in 1..(n + l) : feedback'[k] = IF k <= n THEN feedback[k] ELSE rows[k - n]
  <2>1. IsList(feedback') /\ Len(feedback') = n + l
    BY <1>3, <1>6, <1>7, <1>8, ListConcat
  <2>2. PICK S : S = Range(feedback) \cup Range(rows)
    OBVIOUS
  <2>3. feedback \in Seq(S) /\ rows \in Seq(S)
    BY <1>6, <1>8, <2>2, SeqMonotonic DEF IsList
  <2>4. \A k \in 1..(n + l) : (feedback \o rows)[k] = IF k <= n THEN feedback[k] ELSE rows[k - n]
    BY <1>6, <1>7, <2>3, ConcatProperties
  <2> QED
    BY <1>3, <2>1, <2>4, ListDomain
<1>10. FeedbackInv'
  <2>1. ASSUME NEW k \in 1..(n + l) PROVE IsRow(feedback'[k], world, table.rollouts, table.outcomes)
    <3>1. CASE k <= n
      BY <1>8, <1>9, <3>1 DEF JoinInv, FeedbackInv
    <3>2. CASE ~(k <= n)
      <4>1. k - n \in 1..l
        BY <1>8, <3>2
      <4> QED
        BY <1>6, <1>7, <1>9, <3>2, <4>1
    <3> QED
      BY <3>1, <3>2
  <2> QED
    BY <1>3, <1>9, <2>1 DEF FeedbackInv
<1>11. PassInv'
  BY <1>3 DEF PassInv, IsPass
<1>12. PICK r : r = report'
  OBVIOUS
<1>13. /\ r.rs = m.rs /\ r.os = m.os /\ r.hs = m.hs /\ r.curves = m.curves /\ r.rows = m.rows /\ r.skipped = m.skipped
       /\ r.full = all /\ r.base = n
  <2>1. DOMAIN m = {"rs", "os", "hs", "known", "curves", "active", "rows", "skipped", "full", "base"}
    BY <1>4 DEF NoReport
  <2> QED
    BY <1>3, <1>7, <1>12, <2>1
<1>14. IsMade(r) /\ MadeOf(r, world, table.rollouts, table.outcomes, tenant)
  BY <1>4, <1>13 DEF IsMade, MadeOf
<1>15. ASSUME r.full PROVE IsFull(r, world, table.rollouts, table.outcomes, feedback')
  <2>1. ReadAll(tenant, m.rs, m.os)
    BY <1>2, <1>13, <1>15
  <2>2. FullOf(r, world, table.rollouts, table.outcomes, tenant)
    BY <1>13, <1>14, <2>1, AllWasRead DEF JoinInv
  <2>3. \A i \in 1..l : feedback'[n + i] = FeedbackRow(r.rows[i])
    <3> TAKE i \in 1..l
    <3>1. n + i \in 1..(n + l) /\ ~(n + i <= n) /\ (n + i) - n = i /\ i \in DOMAIN rows
      BY <1>6, <1>7, <1>8
    <3>2. rows[i] = FeedbackRow(m.rows[i])
      BY <1>1, <3>1
    <3> QED
      BY <1>9, <1>13, <3>1, <3>2
  <2>4. r.base \in Nat /\ r.base + Len(r.rows) <= Len(feedback')
    BY <1>7, <1>8, <1>9, <1>13
  <2> QED
    BY <1>7, <1>13, <2>2, <2>3, <2>4 DEF IsFull
<1>16. ReportInv'
  BY <1>3, <1>12, <1>14, <1>15 DEF ReportInv
<1> QED
  BY <1>5, <1>10, <1>11, <1>16 DEF JoinInv

\* The records a caller of the library has.
Rollouts(rs) == IsList(rs) /\ Unchanging(rs) /\ \A k \in DOMAIN rs : IsRollout(rs[k])
Outcomes(os) == IsList(os) /\ Unchanging(os) /\ \A k \in DOMAIN os : IsOutcome(os[k])
Drawn(t, s) == IsList(t) /\ \A k \in DOMAIN t : \E i \in DOMAIN s : t[k] = s[i]

LEMMA DrawnStays ==
  ASSUME NEW s, NEW t, Drawn(t, s)
  PROVE  (Rollouts(s) => Rollouts(t)) /\ (Outcomes(s) => Outcomes(t))
<1>1. IsList(t) /\ \A k \in DOMAIN t : \E i \in DOMAIN s : t[k] = s[i]
  BY DEF Drawn
<1>2. ASSUME Unchanging(s) PROVE Unchanging(t)
  <2> SUFFICES ASSUME NEW j \in DOMAIN t, NEW k \in DOMAIN t, t[j].id = t[k].id PROVE t[j] = t[k]
    BY DEF Unchanging
  <2>1. PICK a \in DOMAIN s : t[j] = s[a]
    BY <1>1
  <2>2. PICK b \in DOMAIN s : t[k] = s[b]
    BY <1>1
  <2> QED
    BY <1>2, <2>1, <2>2 DEF Unchanging
<1> QED
  BY <1>1, <1>2 DEF Rollouts, Outcomes

LEMMA WorldDrawn ==
  ASSUME NEW s, IsList(s), NEW t \in {s, Backwards(s)}
  PROVE  Drawn(t, s)
<1>1. CASE t = s
  BY <1>1 DEF Drawn
<1>2. CASE t = Backwards(s)
  BY <1>2, BackwardsElements DEF Drawn
<1> QED
  BY <1>1, <1>2

LEMMA PickedDrawn ==
  ASSUME NEW s, IsList(s), NEW keep, keep \subseteq DOMAIN s
  PROVE  Drawn(Picked(s, keep), s)
<1>1. PICK t : t = Picked(s, keep)
  OBVIOUS
<1>2. IsList(t) /\ \A x : x \in Range(t) <=> \E i \in keep : x = s[i]
  BY <1>1, PickedElements
<1>3. \A k \in DOMAIN t : t[k] \in Range(t)
  BY DEF Range
<1> QED
  BY <1>1, <1>2, <1>3 DEF Drawn

LEMMA DictsAre ==
  /\ \A r : IsRollout(r) => IsRollout(DictToRollout(r)) /\ DictToRollout(r).id = r.id
  /\ \A o : IsOutcome(o) => IsOutcome(DictToOutcome(o)) /\ DictToOutcome(o).id = o.id
<1>1. ASSUME NEW r, IsRollout(r)
      PROVE  IsRollout(DictToRollout(r)) /\ DictToRollout(r).id = r.id
  <2>1. DOMAIN r = RolloutFields /\ r.id \in Nat /\ r.mono \in Nat /\ r.wall \in Nat
    BY <1>1, RolloutDomain
  <2>2. PICK x : x = DictToRollout(r)
    OBVIOUS
  <2>3. /\ DOMAIN x = RolloutFields /\ x.id = r.id /\ x.mono = r.mono /\ x.wall = r.wall
        /\ x.anchor = None /\ x.pose = None
    BY <2>1, <2>2 DEF DictToRollout, RolloutFields
  <2>4. IsRollout(x)
    BY <2>1, <2>3, RolloutDomain DEF May
  <2> QED
    BY <2>2, <2>3, <2>4
<1>2. ASSUME NEW o, IsOutcome(o)
      PROVE  IsOutcome(DictToOutcome(o)) /\ DictToOutcome(o).id = o.id
  <2>1. DOMAIN o = OutcomeFields /\ o.id # None /\ o.mono \in Nat /\ o.wall \in Nat
    BY <1>2, OutcomeDomain
  <2>2. PICK x : x = DictToOutcome(o)
    OBVIOUS
  <2>3. /\ DOMAIN x = OutcomeFields /\ x.id = o.id /\ x.mono = o.mono /\ x.wall = o.wall
        /\ x.anchor = None /\ x.pose = None /\ x.parents = <<>>
    BY <2>1, <2>2 DEF DictToOutcome, OutcomeFields
  <2>4. IsList(x.parents) /\ \A e \in Range(x.parents) : May(e.lag, Nat)
    BY <2>3, EmptyList
  <2>5. IsOutcome(x)
    BY <2>1, <2>3, <2>4, OutcomeDomain DEF May
  <2> QED
    BY <2>2, <2>3, <2>5
<1> QED
  BY <1>1, <1>2

LEMMA DictsOf ==
  ASSUME NEW rs, Rollouts(rs), NEW os, Outcomes(os)
  PROVE  IsBatch([i \in DOMAIN rs |-> DictToRollout(rs[i])], [i \in DOMAIN os |-> DictToOutcome(os[i])])
<1>1. PICK x, y : x = [i \in DOMAIN rs |-> DictToRollout(rs[i])] /\ y = [i \in DOMAIN os |-> DictToOutcome(os[i])]
  OBVIOUS
<1>2. /\ DOMAIN x = DOMAIN rs /\ \A i \in DOMAIN rs : x[i] = DictToRollout(rs[i])
      /\ DOMAIN y = DOMAIN os /\ \A i \in DOMAIN os : y[i] = DictToOutcome(os[i])
  BY <1>1
<1>3. IsList(x) /\ IsList(y)
  <2>1. x = [i \in DOMAIN rs |-> x[i]] /\ y = [i \in DOMAIN os |-> y[i]]
    BY <1>1
  <2>2. IsList(x)
    BY <2>1, ListLike DEF Rollouts
  <2>3. IsList(y)
    BY <2>1, ListLike DEF Outcomes
  <2> QED
    BY <2>2, <2>3
<1>4. /\ \A i \in DOMAIN rs : IsRollout(x[i]) /\ x[i].id = rs[i].id
      /\ \A i \in DOMAIN os : IsOutcome(y[i]) /\ y[i].id = os[i].id
  BY <1>2, DictsAre DEF Rollouts, Outcomes
<1>5. Unchanging(x)
  <2> SUFFICES ASSUME NEW j \in DOMAIN rs, NEW k \in DOMAIN rs, x[j].id = x[k].id PROVE x[j] = x[k]
    BY <1>2 DEF Unchanging
  <2>1. rs[j] = rs[k]
    BY <1>4 DEF Rollouts, Unchanging
  <2> QED
    BY <1>2, <2>1
<1>6. Unchanging(y)
  <2> SUFFICES ASSUME NEW j \in DOMAIN os, NEW k \in DOMAIN os, y[j].id = y[k].id PROVE y[j] = y[k]
    BY <1>2 DEF Unchanging
  <2>1. os[j] = os[k]
    BY <1>4 DEF Outcomes, Unchanging
  <2> QED
    BY <1>2, <2>1
<1>7. IsBatch(x, y)
  BY <1>2, <1>3, <1>4, <1>5, <1>6 DEF IsBatch
<1> QED
  BY <1>1, <1>7

Runs(m, known, rs, os, hs) ==
    /\ Labelled(known) /\ IsBatch(rs, os) /\ \A h \in hs : h.mono \in Nat
    /\ m = RunEngine(known, rs, os, hs)

LEMMA EngineRuns ==
  ASSUME NEW m, NEW known, NEW rs, NEW os, NEW hs, Runs(m, known, rs, os, hs)
  PROVE  Reported(m, rs, os, hs)
<1>1. m = RunEngine(known, rs, os, hs) /\ Labelled(known)
  BY DEF Runs
<1>2. CASE known = <<>>
  <2>1. IsCurves(IdentityCurves)
    BY DEF IsCurves, IdentityCurves
  <2>2. m = Report(IdentityCurves, known, rs, os, hs, AttributeWith(IdentityCurves, rs, os, hs))
    BY <1>1, <1>2 DEF RunEngine, AttributeReport
  <2>3. Reports(m, IdentityCurves, known, rs, os, hs)
    BY <2>1, <2>2 DEF Reports, Runs
  <2> QED
    BY <2>3, ReportIsMade
<1>3. CASE known # <<>>
  <2>1. PICK curves : curves = Fit(known, rs, MinLabels)
    OBVIOUS
  <2>2. IsCurves(curves)
    BY <1>1, <2>1, FitCurves DEF Runs
  <2>3. m = Report(curves, known, rs, os, hs, AttributeWith(curves, rs, os, hs))
    BY <1>1, <1>3, <2>1 DEF RunEngine
  <2>4. Reports(m, curves, known, rs, os, hs)
    BY <2>2, <2>3 DEF Reports, Runs
  <2> QED
    BY <2>4, ReportIsMade
<1> QED
  BY <1>2, <1>3

LEMMA AttributeStep ==
  ASSUME JoinInv, Attribute
  PROVE  JoinInv'
<1>1. /\ world' = world /\ table' = table /\ feedback' = feedback /\ subject' = subject /\ pass' = pass
      /\ used.passes < MaxPasses /\ used' = [used EXCEPT !.passes = @ + 1] /\ ~world.live
  BY DEF Attribute
<1>2. PICK rs \in {world.rollouts, Backwards(world.rollouts)}, os \in {world.outcomes, Backwards(world.outcomes)},
           dicts \in BOOLEAN :
        \E keep \in SUBSET DOMAIN os :
            report' = IF dicts
                      THEN RunEngine(world.prior, [i \in DOMAIN rs |-> DictToRollout(rs[i])],
                                     [i \in DOMAIN Picked(os, keep) |-> DictToOutcome(Picked(os, keep)[i])], Heartbeats(os))
                      ELSE RunEngine(world.prior, rs, Picked(os, keep), Heartbeats(os))
  BY DEF Attribute
<1>3. PICK keep, events, hs :
        /\ keep \in SUBSET DOMAIN os
        /\ events = Picked(os, keep) /\ hs = Heartbeats(os)
        /\ report' = IF dicts
                     THEN RunEngine(world.prior, [i \in DOMAIN rs |-> DictToRollout(rs[i])],
                                    [i \in DOMAIN events |-> DictToOutcome(events[i])], hs)
                     ELSE RunEngine(world.prior, rs, events, hs)
  BY <1>2
<1>4. IsWorld(world)
  BY TablesAre DEF JoinInv
<1>5. Rollouts(rs) /\ Outcomes(os)
  <2>1. Rollouts(world.rollouts) /\ Outcomes(world.outcomes)
    BY <1>4 DEF IsWorld, Rollouts, Outcomes
  <2>2. Drawn(rs, world.rollouts)
    BY <2>1, WorldDrawn DEF Rollouts
  <2>3. Drawn(os, world.outcomes)
    BY <2>1, WorldDrawn DEF Outcomes
  <2> QED
    BY <2>1, <2>2, <2>3, DrawnStays
<1>6. Outcomes(events)
  <2>1. Drawn(events, os)
    BY <1>2, <1>3, <1>5, PickedDrawn DEF Outcomes
  <2> QED
    BY <1>5, <2>1, DrawnStays
<1>7. \A h \in hs : h.mono \in Nat
  BY <1>3, <1>5, BeatsOf DEF Outcomes
<1>8. Labelled(world.prior)
  BY <1>4 DEF IsWorld
<1>9. IsMade(report') /\ report'.full = FALSE
  <2>1. CASE dicts
    <3>1. PICK x, y : x = [i \in DOMAIN rs |-> DictToRollout(rs[i])] /\ y = [i \in DOMAIN events |-> DictToOutcome(events[i])]
      OBVIOUS
    <3>2. IsBatch(x, y)
      BY <1>5, <1>6, <3>1, DictsOf
    <3>3. report' = RunEngine(world.prior, x, y, hs)
      BY <1>2, <1>3, <2>1, <3>1
    <3>4. PICK m : m = report'
      OBVIOUS
    <3>5. Runs(m, world.prior, x, y, hs)
      BY <1>7, <1>8, <3>2, <3>3, <3>4 DEF Runs
    <3>6. Reported(m, x, y, hs)
      BY <3>5, EngineRuns
    <3> QED
      BY <3>4, <3>6 DEF Reported
  <2>2. CASE ~dicts
    <3>1. IsBatch(rs, events)
      BY <1>5, <1>6 DEF IsBatch, Rollouts, Outcomes
    <3>2. report' = RunEngine(world.prior, rs, events, hs)
      BY <1>2, <1>3, <2>2
    <3>3. PICK m : m = report'
      OBVIOUS
    <3>4. Runs(m, world.prior, rs, events, hs)
      BY <1>7, <1>8, <3>1, <3>2, <3>3 DEF Runs
    <3>5. Reported(m, rs, events, hs)
      BY <3>4, EngineRuns
    <3> QED
      BY <3>3, <3>5 DEF Reported
  <2> QED
    BY <2>1, <2>2
<1>10. pass = Idle
  BY <1>1 DEF JoinInv, PassInv
<1>11. TableInv'
  <2>1. MaxPasses \in Nat
    BY WorldsAssumption
  <2>2. used' \in [passes : 0..MaxPasses, curations : 0..MaxCurations]
    BY <1>1, <2>1 DEF JoinInv, TableInv
  <2> QED
    BY <1>1, <2>2 DEF JoinInv, TableInv
<1>12. FeedbackInv' /\ PassInv'
  BY <1>1 DEF JoinInv, FeedbackInv, PassInv
<1>13. ReportInv'
  BY <1>1, <1>9, <1>10 DEF ReportInv
<1> QED
  BY <1>11, <1>12, <1>13 DEF JoinInv

(***************************************************************************)
(* Every step keeps the invariant.                                         *)
(***************************************************************************)

LEMMA StepInv == JoinInv /\ [Next]_vars => JoinInv'
<1> SUFFICES ASSUME JoinInv, [Next]_vars PROVE JoinInv'
  OBVIOUS
<1>1. CASE LandRollout
  BY <1>1, LandedStep
<1>2. CASE LandOutcome
  BY <1>2, LandedStep
<1>3. CASE Curate
  BY <1>3, CurateStep
<1>4. CASE ProcessOneEvent
  BY <1>4, ReaderStep
<1>5. CASE Dashboard
  BY <1>5, ReaderStep
<1>6. CASE ReadRollouts
  BY <1>6, PassStarts
<1>7. CASE ReadOutcomes
  BY <1>7, PassReads
<1>8. CASE ReadFeedback
  BY <1>8, PassMakes
<1>9. CASE Insert
  BY <1>9, PassAppends
<1>10. CASE PassFails
  BY <1>10, PassEnds
<1>11. CASE Attribute
  BY <1>11, AttributeStep
<1>12. CASE UNCHANGED vars
  BY <1>12 DEF vars, JoinInv, TableInv, FeedbackInv, PassInv, ReportInv
<1> QED
  BY <1>1, <1>2, <1>3, <1>4, <1>5, <1>6, <1>7, <1>8, <1>9, <1>10, <1>11, <1>12 DEF Next

THEOREM Invariance == Spec => []JoinInv
<1> QED
  BY InitInv, StepInv, PTL DEF Spec

(***************************************************************************)
(* The theorems.                                                           *)
(***************************************************************************)

LEMMA ShapesAre == JoinInv => TypeOK
<1> SUFFICES ASSUME JoinInv PROVE TypeOK
  OBVIOUS
<1>1. \A f \in Range(feedback) : IsFeedback(f) /\ f.set # None
  BY DEF JoinInv, FeedbackInv, IsRow, Range
<1>2. Len(subject) <= MaxEvents
  BY DEF JoinInv, TableInv
<1>3. pass.step \in {"idle", "outcomes", "feedback", "insert"}
  BY DEF JoinInv, PassInv, IsPass, Idle
<1>4. /\ table.rollouts \subseteq DOMAIN world.rollouts /\ table.outcomes \subseteq DOMAIN world.outcomes
      /\ used.passes <= MaxPasses /\ used.curations <= MaxCurations
  BY TablesAre DEF JoinInv
<1> QED
  BY <1>1, <1>2, <1>3, <1>4 DEF TypeOK

\* Tables, queue and pass have their shapes, whatever there is to land.
THEOREM TypeCorrect == Spec => []TypeOK
<1> QED
  BY Invariance, ShapesAre, PTL

LEMMA NothingMade ==
  ASSUME report = NoReport
  PROVE  EvidenceSupportsBinding /\ CreditConserved /\ AbsenceIsProven
<1>1. DOMAIN report.os = {} /\ Range(report.rows) = {}
  BY EmptyList DEF NoReport
<1> QED
  BY <1>1 DEF EvidenceSupportsBinding, CreditConserved, AbsenceIsProven

LEMMA SupportIs == JoinInv => EvidenceSupportsBinding
BY NothingMade, MadeSupported DEF JoinInv, ReportInv

LEMMA SharesAre == JoinInv => CreditConserved
BY NothingMade, MadeConserved DEF JoinInv, ReportInv

LEMMA SilenceIs == JoinInv => AbsenceIsProven
BY NothingMade, MadeProven DEF JoinInv, ReportInv

\* Whatever was read, in whatever order, by the pass or by a caller of the
\* library, every row has the evidence its tier asks for, an outcome that names
\* its rollout is never guessed, one outcome has one tier, and one without a row
\* has a reason.
THEOREM BindingSafe == Spec => []EvidenceSupportsBinding
<1> QED
  BY Invariance, SupportIs, PTL

\* However many rollouts share an outcome, their shares are the whole, to the
\* last thousandth, and fall with age.
THEOREM CreditSafe == Spec => []CreditConserved
<1> QED
  BY Invariance, SharesAre, PTL

\* A success is made of silence only where the heartbeats leave no gap and no
\* failure was credited.
THEOREM AbsenceSafe == Spec => []AbsenceIsProven
<1> QED
  BY Invariance, SilenceIs, PTL

(***************************************************************************)
(* What counts after a pass.                                               *)
(***************************************************************************)

\* Row j counts more than row k.
Overrules(fs, j, k) ==
    \/ fs[j].method = "manual" /\ fs[k].method # "manual"
    \/ (fs[j].method = "manual" <=> fs[k].method = "manual") /\ j >= k

\* There is always exactly one row that counts, unless all are retracted.
LEMMA WinnerOverrules ==
  ASSUME NEW fs, NEW n \in Nat, NEW rows, rows \subseteq 1..n, NEW w, w = WinningBinding(fs, rows)
  PROVE  IF \A k \in rows : fs[k].retracted THEN w = None
         ELSE /\ w # None /\ w \in rows /\ ~fs[w].retracted
              /\ \A k \in rows : ~fs[k].retracted => Overrules(fs, w, k)
<1>1. PICK live : live = {k \in rows : ~fs[k].retracted}
  OBVIOUS
<1>2. live \subseteq Nat /\ \A k \in live : k <= n
  <2>1. \A k \in 1..n : k \in Nat /\ k <= n
    OBVIOUS
  <2>2. live \subseteq 1..n
    BY <1>1
  <2> QED
    BY <2>1, <2>2
<1>3. CASE live = {}
  <2>1. w = None
    BY <1>1, <1>3 DEF WinningBinding
  <2> QED
    BY <1>1, <1>3, <2>1
<1>4. CASE live # {}
  <2>1. PICK manual : manual = {k \in live : fs[k].method = "manual"}
    OBVIOUS
  <2>2. \E j \in live : \A k \in live : Overrules(fs, j, k)
    <3>1. CASE manual = {}
      <4>1. PICK j \in live : \A k \in live : k <= j
        BY <1>2, <1>4, GreatestOf
      <4>2. \A k \in live : Overrules(fs, j, k)
        BY <1>2, <2>1, <3>1, <4>1 DEF Overrules
      <4> QED
        BY <4>2
    <3>2. CASE manual # {}
      <4>1. manual \subseteq Nat /\ \A k \in manual : k <= n
        BY <1>2, <2>1
      <4>2. PICK j \in manual : \A k \in manual : k <= j
        BY <3>2, <4>1, GreatestOf
      <4>3. \A k \in live : Overrules(fs, j, k)
        BY <2>1, <4>1, <4>2 DEF Overrules
      <4> QED
        BY <2>1, <4>3
    <3> QED
      BY <3>1, <3>2
  <2>3. w = CHOOSE j \in live : \A k \in live : Overrules(fs, j, k)
    BY <1>1, <1>4 DEF WinningBinding, Overrules
  <2>4. w \in live /\ \A k \in live : Overrules(fs, w, k)
    BY <2>2, <2>3
  <2>5. w # None
    BY <1>2, <2>4, NoneAssumption
  <2> QED
    BY <1>1, <2>4, <2>5
<1> QED
  BY <1>3, <1>4

\* The slot's row that counts is a curator's, or the full pass's own, or one
\* of the two that it knows better.
Settled(k, f, m) ==
    \/ k = None
    \/ f.method = "manual" \/ k > m.base
    \/ f.method = "temporal" /\ \E o \in Range(m.os) : o.id = f.outcome /\ o.explicit # None
    \/ f.method = "synthetic_absence" /\ \E g \in Range(m.rows) : g.rollout = f.rollout /\ g.slot = "intervention"

LEMMA FullSettles ==
  ASSUME FeedbackInv, NEW m, IsFull(m, world, table.rollouts, table.outcomes, feedback), m.rs # <<>>, NEW rollout, NEW slot,
         NEW k, k = WinningBinding(feedback, {x \in DOMAIN feedback :
                       feedback[x].rollout = rollout /\ feedback[x].slot = slot /\ feedback[x].tenant = m.rs[1].tenant})
  PROVE  Settled(k, feedback[k], m)
<1>1. PICK tenant : FullOf(m, world, table.rollouts, table.outcomes, tenant)
  BY DEF IsFull
<1>2. m.rs[1].tenant = tenant
  <2>1. IsList(m.rs)
    BY <1>1 DEF FullOf, MadeOf, RolloutsRead
  <2>2. 1 \in DOMAIN m.rs
    <3>1. Len(m.rs) \in Nat /\ DOMAIN m.rs = 1..Len(m.rs) /\ (Len(m.rs) = 0 => m.rs = <<>>)
      BY <2>1, ListDomain, EmptySeq DEF IsList
    <3> QED
      BY <3>1
  <2> QED
    BY <1>1, <2>2, AllFound
<1>3. PICK n, rows : /\ n = Len(feedback)
                     /\ rows = {x \in DOMAIN feedback :
                           feedback[x].rollout = rollout /\ feedback[x].slot = slot /\ feedback[x].tenant = tenant}
  OBVIOUS
<1>4. n \in Nat /\ DOMAIN feedback = 1..n
  BY <1>3, ListDomain DEF FeedbackInv
<1>5. rows \subseteq 1..n /\ k = WinningBinding(feedback, rows)
  BY <1>2, <1>3, <1>4
<1>6. CASE k = None
  BY <1>6 DEF Settled
<1>7. CASE k # None /\ feedback[k].method # "manual" /\ ~(k > m.base)
  <2>1. PICK f : f = feedback[k]
    OBVIOUS
  <2>2. k \in rows /\ ~f.retracted /\ \A j \in rows : ~feedback[j].retracted => Overrules(feedback, k, j)
    BY <1>4, <1>5, <1>7, <2>1, WinnerOverrules
  <2>3. k \in 1..n /\ f.rollout = rollout /\ f.slot = slot /\ f.tenant = tenant
    BY <1>3, <1>5, <2>1, <2>2
  <2>4. Derived(f, world, table.rollouts, table.outcomes)
    BY <1>4, <1>7, <2>1, <2>2, <2>3 DEF FeedbackInv, IsRow
  <2>5. ~ \E g \in Range(m.rows) : SameSlot(g, f)
    <3> SUFFICES ASSUME NEW g \in Range(m.rows), SameSlot(g, f) PROVE FALSE
      OBVIOUS
    <3>1. IsMade(m) /\ IsList(m.rows)
      BY <1>1, MadeList DEF FullOf, MadeOf
    <3>2. DOMAIN g = RowFields
      BY <3>1, FeedbackOf
    <3>3. PICK l, i : l = Len(m.rows) /\ i \in 1..l /\ g = m.rows[i]
      BY <3>1, ListDomain DEF Range
    <3>4. PICK j, x : j = m.base + i /\ x = feedback[j]
      OBVIOUS
    <3>5. x = FeedbackRow(g)
      BY <3>3, <3>4 DEF IsFull
    <3>6. SameRow(x, g)
      BY <3>2, <3>5, FeedbackWritten
    <3>7. x.rollout = rollout /\ x.slot = slot /\ x.tenant = tenant /\ x.retracted = FALSE
      BY <2>3, <3>6 DEF SameRow, SameSlot
    <3>8. l \in Nat /\ m.base \in Nat /\ m.base + l <= n
      BY <1>3, <3>1, <3>3, ListDomain DEF IsFull
    <3>9. j \in 1..n /\ j > m.base
      BY <1>4, <3>3, <3>4, <3>8
    <3>10. j \in rows /\ ~feedback[j].retracted
      BY <1>3, <1>4, <3>4, <3>7, <3>9
    <3>11. k >= j
      BY <1>7, <2>2, <3>10 DEF Overrules
    <3> QED
      BY <1>4, <1>7, <2>3, <3>8, <3>9, <3>11
  <2>6. FullOf(m, world, table.rollouts, table.outcomes, f.tenant)
    BY <1>1, <2>3
  <2>7. \/ f.method = "temporal" /\ \E x \in Range(m.os) : x.id = f.outcome /\ x.explicit # None
        \/ f.method = "synthetic_absence" /\ \E g \in Range(m.rows) : g.rollout = f.rollout /\ g.slot = "intervention"
    <3>1. PICK w, landed, seen : w = world /\ landed = table.rollouts /\ seen = table.outcomes
      OBVIOUS
    <3>2. FullOf(m, w, landed, seen, f.tenant) /\ Derived(f, w, landed, seen)
      BY <2>4, <2>6, <3>1
    <3> HIDE DEF Derived, FullOf, SameSlot
    <3> QED
      BY ONLY <2>5, <3>2, Superseded
  <2> QED
    BY <2>1, <2>7 DEF Settled
<1>8. CASE feedback[k].method = "manual" \/ k > m.base
  BY <1>8 DEF Settled
<1> QED
  BY <1>6, <1>7, <1>8

LEMMA SettlesAre == JoinInv => PassSettles
<1> SUFFICES ASSUME JoinInv, report.full, report.rs # <<>>, NEW slot \in Slots
             PROVE  Settled(Winner(slot), feedback[Winner(slot)], report)
  BY DEF PassSettles, Settled
<1>1. IsFull(report, world, table.rollouts, table.outcomes, feedback)
  BY DEF JoinInv, ReportInv
<1>2. PICK k : k = Winner(slot)
  OBVIOUS
<1>3. k = WinningBinding(feedback, {x \in DOMAIN feedback :
             feedback[x].rollout = slot[1] /\ feedback[x].slot = slot[2] /\ feedback[x].tenant = report.rs[1].tenant})
  BY <1>2 DEF Winner
<1>4. Settled(k, feedback[k], report)
  BY <1>1, <1>3, FullSettles DEF JoinInv
<1> QED
  BY <1>2, <1>4

\* A pass that read everything leaves no row of an earlier one to count, but
\* for the two exceptions, whatever landed, was attributed or was curated
\* between its reads and after it.
THEOREM SettledSafe == Spec => []PassSettles
<1> QED
  BY Invariance, SettlesAre, PTL

(***************************************************************************)
(* The reward join.                                                        *)
(***************************************************************************)

About(rows, rollout, tenant, metric, slot) ==
    {k \in DOMAIN rows : /\ rows[k].rollout = rollout /\ rows[k].metric = metric
                         /\ rows[k].slot = slot /\ rows[k].tenant = tenant}
LiveOf(rows, S) == {k \in S : ~rows[k].retracted}
Matched(rows, S, floor) == {k \in LiveOf(rows, S) : k = Greatest(LiveOf(rows, S)) /\ rows[k].confidence >= floor}

\* What is attached to a rollout, by a join with this floor.
Attaches(match, rows, S, floor) ==
    \/ \E k \in S : /\ match = {k} /\ rows[k].confidence >= floor
                    /\ \A j \in S : j > k => rows[j].retracted
    \/ /\ match = {}
       /\ \/ \A k \in S : rows[k].retracted
          \/ \E k \in S : ~rows[k].retracted /\ rows[k].confidence < floor

LEMMA NewestAttached ==
  ASSUME NEW rows, NEW n \in Nat, NEW S, S \subseteq 1..n, NEW floor \in Int, \A k \in S : rows[k].confidence \in Int
  PROVE  Attaches(Matched(rows, S, floor), rows, S, floor)
<1>1. PICK live, match : live = LiveOf(rows, S) /\ match = Matched(rows, S, floor)
  OBVIOUS
<1>2. /\ \A k : k \in live <=> k \in S /\ ~rows[k].retracted
      /\ \A k : k \in match <=> k \in live /\ k = Greatest(live) /\ rows[k].confidence >= floor
  BY <1>1 DEF LiveOf, Matched
<1>3. CASE live = {}
  <2>1. match = {} /\ \A k \in S : rows[k].retracted
    BY <1>2, <1>3
  <2> QED
    BY <1>1, <2>1 DEF Attaches
<1>4. CASE live # {}
  <2>1. live \subseteq 1..n
    BY <1>2
  <2>2. IsFiniteSet(live) /\ live \subseteq Int
    <3>1. 1 \in Int /\ n \in Int /\ 1..n \subseteq Int
      OBVIOUS
    <3>2. IsFiniteSet(1..n)
      BY <3>1, FS_Interval
    <3> QED
      BY <2>1, <3>1, <3>2, FS_Subset
  <2>3. PICK g : g = Greatest(live)
    OBVIOUS
  <2>4. g \in live /\ \A y \in live : g >= y
    BY <1>4, <2>2, <2>3, GreatestIs
  <2>5. g \in S /\ ~rows[g].retracted /\ rows[g].confidence \in Int
    BY <1>2, <2>4
  <2>6. \A j \in S : j > g => rows[j].retracted
    BY <1>2, <2>1, <2>4
  <2>7. CASE rows[g].confidence >= floor
    <3>1. match = {g}
      BY <1>2, <2>3, <2>4, <2>7
    <3> QED
      BY <1>1, <2>5, <2>6, <2>7, <3>1 DEF Attaches
  <2>8. CASE ~(rows[g].confidence >= floor)
    <3>1. match = {}
      BY <1>2, <2>3, <2>8
    <3>2. rows[g].confidence < floor
      BY <2>5, <2>8
    <3> QED
      BY <1>1, <2>5, <3>1, <3>2 DEF Attaches
  <2> QED
    BY <2>7, <2>8
<1> QED
  BY <1>3, <1>4

\* A join over these tables shows this.
Joined(rows, rollouts, tenant, metric, slot, floor) ==
    /\ DOMAIN rows = DOMAIN rollouts
    /\ \A i \in DOMAIN rollouts :
          /\ rows[i].rollout = rollouts[i].id
          /\ rows[i].match = Matched(feedback, About(feedback, rollouts[i].id, tenant, metric, slot), floor)

LEMMA JoinedRows ==
  ASSUME NEW tenant, NEW metric, NEW slot, NEW floor,
         NEW rows, rows = RewardJoin(tenant, metric, slot, floor),
         NEW rollouts, rollouts = InWindow(world.rollouts, table.rollouts, tenant, 0)
  PROVE  /\ rows = [i \in DOMAIN rollouts |-> rows[i]]
         /\ Joined(rows, rollouts, tenant, metric, slot, floor)
<1> DEFINE SlotRows(r) == {k \in DOMAIN feedback : /\ feedback[k].tenant = tenant /\ feedback[k].rollout = r.id
                                                   /\ feedback[k].metric = metric /\ feedback[k].slot = slot
                                                   /\ ~feedback[k].retracted}
           Match(r) == {k \in SlotRows(r) : k = Greatest(SlotRows(r)) /\ feedback[k].confidence >= floor}
<1>1. rows = [i \in DOMAIN rollouts |-> [rollout |-> rollouts[i].id, match |-> Match(rollouts[i])]]
  BY DEF RewardJoin
<1>2. ASSUME NEW r PROVE Match(r) = Matched(feedback, About(feedback, r.id, tenant, metric, slot), floor)
  <2>1. PICK S : S = About(feedback, r.id, tenant, metric, slot)
    OBVIOUS
  <2>2. PICK live : live = LiveOf(feedback, S)
    OBVIOUS
  <2>3. SlotRows(r) = live
    BY <2>1, <2>2 DEF LiveOf, About
  <2>4. Match(r) = {k \in live : k = Greatest(live) /\ feedback[k].confidence >= floor}
    BY <2>3
  <2> HIDE DEF Match, SlotRows
  <2> QED
    BY <2>1, <2>2, <2>4 DEF Matched
<1> HIDE DEF Match, SlotRows
<1>3. DOMAIN rows = DOMAIN rollouts /\ \A i \in DOMAIN rollouts : rows[i] = [rollout |-> rollouts[i].id, match |-> Match(rollouts[i])]
  BY <1>1
<1>4. rows = [i \in DOMAIN rollouts |-> rows[i]]
  BY <1>1
<1>5. ASSUME NEW i \in DOMAIN rollouts
      PROVE  /\ rows[i].rollout = rollouts[i].id
             /\ rows[i].match = Matched(feedback, About(feedback, rollouts[i].id, tenant, metric, slot), floor)
  <2>1. PICK r : r = rollouts[i]
    OBVIOUS
  <2>2. rows[i] = [rollout |-> r.id, match |-> Match(r)]
    BY <1>3, <2>1
  <2> QED
    BY <1>2, <2>1, <2>2
<1> QED
  BY <1>3, <1>4, <1>5 DEF Joined

\* What is shown is what a join over these tables shows.
ShownBy(s, tenant, metric, slot, floor) ==
    /\ s.tenant = tenant /\ s.metric = metric /\ s.slot = slot /\ s.floor = floor
    /\ s.landed = table.rollouts /\ s.length = Len(feedback) /\ s.rows = RewardJoin(tenant, metric, slot, floor)

Mine(s) == {i \in s.landed : world.rollouts[i].tenant = s.tenant}
Kept(s) ==
    /\ Len(s.rows) = Cardinality(Mine(s))
    /\ {x.rollout : x \in Range(s.rows)} = {world.rollouts[i].id : i \in Mine(s)}
    /\ \A x \in Range(s.rows) : LET before == SubSeq(feedback, 1, s.length)
                                IN  Attaches(x.match, before, About(before, x.rollout, s.tenant, s.metric, s.slot), s.floor)

LEMMA JoinKeeps ==
  ASSUME JoinInv, NEW tenant, NEW metric, NEW slot, NEW floor \in Nat, NEW s, ShownBy(s, tenant, metric, slot, floor)
  PROVE  Kept(s)
<1>1. PICK rollouts, mine : /\ rollouts = InWindow(world.rollouts, table.rollouts, tenant, 0)
                            /\ mine = {i \in table.rollouts : world.rollouts[i].tenant = tenant}
  OBVIOUS
<1>2. IsWorld(world) /\ table.rollouts \subseteq DOMAIN world.rollouts
  BY TablesAre DEF JoinInv
<1>3. mine = Mine(s)
  BY <1>1 DEF ShownBy, Mine
<1>4. rollouts = Picked(world.rollouts, mine)
  <2>1. PICK keep : /\ keep = {i \in table.rollouts : world.rollouts[i].tenant = tenant /\ world.rollouts[i].wall >= 0}
                    /\ rollouts = Picked(world.rollouts, keep)
    BY <1>1 DEF InWindow
  <2>2. \A i \in table.rollouts : world.rollouts[i].wall >= 0
    <3> TAKE i \in table.rollouts
    <3>1. IsRollout(world.rollouts[i])
      BY <1>2 DEF IsWorld
    <3>2. world.rollouts[i].wall \in Nat
      BY <3>1 DEF IsRollout
    <3> QED
      BY <3>2
  <2>3. keep = mine
    BY <1>1, <2>1, <2>2
  <2> QED
    BY <2>1, <2>3
<1>5. /\ IsList(rollouts) /\ Len(rollouts) = Cardinality(mine)
      /\ \A x : x \in Range(rollouts) <=> \E i \in mine : x = world.rollouts[i]
  <2>1. IsList(world.rollouts) /\ mine \subseteq DOMAIN world.rollouts
    BY <1>1, <1>2 DEF IsWorld
  <2> QED
    BY <1>4, <2>1, PickedElements
<1>6. s.rows = [i \in DOMAIN rollouts |-> s.rows[i]] /\ Joined(s.rows, rollouts, tenant, metric, slot, floor)
  BY <1>1, JoinedRows DEF ShownBy
<1>7. PICK rows : rows = s.rows
  OBVIOUS
<1>8. /\ IsList(rows) /\ Len(rows) = Len(rollouts) /\ DOMAIN rows = DOMAIN rollouts
      /\ \A x : x \in Range(rows) <=> \E k \in DOMAIN rollouts : rows[k] = x
  <2>1. rows = [i \in DOMAIN rollouts |-> rows[i]] /\ IsList(rollouts)
    BY ONLY <1>5, <1>6, <1>7
  <2> QED
    BY <2>1, ListLike
<1>9. \A i \in DOMAIN rollouts :
          /\ rows[i].rollout = rollouts[i].id
          /\ rows[i].match = Matched(feedback, About(feedback, rollouts[i].id, tenant, metric, slot), floor)
  BY <1>6, <1>7 DEF Joined
<1>10. {x.rollout : x \in Range(rows)} = {world.rollouts[i].id : i \in mine}
  <2>1. ASSUME NEW x \in Range(rows) PROVE \E i \in mine : x.rollout = world.rollouts[i].id
    <3>1. PICK k \in DOMAIN rollouts : rows[k] = x
      BY <1>8
    <3>2. rollouts[k] \in Range(rollouts)
      BY DEF Range
    <3> QED
      BY <1>5, <1>9, <3>1, <3>2
  <2>2. ASSUME NEW i \in mine PROVE \E x \in Range(rows) : x.rollout = world.rollouts[i].id
    <3>1. world.rollouts[i] \in Range(rollouts)
      BY <1>5
    <3>2. PICK k \in DOMAIN rollouts : rollouts[k] = world.rollouts[i]
      BY <3>1 DEF Range
    <3>3. rows[k] \in Range(rows)
      BY <1>8
    <3> QED
      BY <1>9, <3>2, <3>3
  <2> QED
    BY <2>1, <2>2
<1>11. PICK n, before : n = Len(feedback) /\ before = SubSeq(feedback, 1, n)
  OBVIOUS
<1>12. n \in Nat /\ IsList(feedback) /\ DOMAIN feedback = 1..n
  BY <1>11, ListDomain DEF JoinInv, FeedbackInv
<1>13. DOMAIN before = DOMAIN feedback /\ \A k \in DOMAIN feedback : before[k] = feedback[k]
  <2>1. IsList(before) /\ Len(before) = n /\ \A i \in 1..n : before[i] = feedback[i]
    BY <1>11, <1>12, ListPrefix
  <2> QED
    BY <1>12, <2>1, ListDomain
<1>14. ASSUME NEW x \in Range(rows)
       PROVE  Attaches(x.match, before, About(before, x.rollout, tenant, metric, slot), floor)
  <2>1. PICK k \in DOMAIN rollouts : rows[k] = x
    BY <1>8
  <2>2. PICK S : S = About(feedback, x.rollout, tenant, metric, slot)
    OBVIOUS
  <2>3. S \subseteq 1..n /\ About(before, x.rollout, tenant, metric, slot) = S
    BY <1>12, <1>13, <2>2 DEF About
  <2>4. x.match = Matched(feedback, S, floor)
    BY <1>9, <2>1, <2>2
  <2>5. \A j \in S : feedback[j].confidence \in Int
    <3> TAKE j \in S
    <3>1. IsFeedback(feedback[j])
      BY <1>12, <2>3 DEF JoinInv, FeedbackInv, IsRow
    <3> QED
      BY <3>1, ConfidenceIsInt
  <2>6. Attaches(x.match, feedback, S, floor)
    <3>1. floor \in Int
      OBVIOUS
    <3> QED
      BY <1>12, <2>3, <2>4, <2>5, <3>1, NewestAttached
  <2>7. \A j \in S : before[j] = feedback[j]
    BY <1>12, <1>13, <2>3
  <2>8. Attaches(x.match, before, S, floor)
    BY ONLY <2>6, <2>7 DEF Attaches
  <2> QED
    BY <2>3, <2>8
<1>15. /\ s.rows = rows /\ SubSeq(feedback, 1, s.length) = before
       /\ s.tenant = tenant /\ s.metric = metric /\ s.slot = slot /\ s.floor = floor
  BY <1>7, <1>11 DEF ShownBy
<1>16. \A x \in Range(s.rows) : Attaches(x.match, SubSeq(feedback, 1, s.length),
           About(SubSeq(feedback, 1, s.length), x.rollout, s.tenant, s.metric, s.slot), s.floor)
  BY <1>14, <1>15
<1>17. /\ Len(s.rows) = Cardinality(Mine(s))
       /\ {x.rollout : x \in Range(s.rows)} = {world.rollouts[i].id : i \in Mine(s)}
  BY <1>3, <1>5, <1>8, <1>10, <1>15
<1> QED
  BY <1>16, <1>17 DEF Kept

\* The property, of what is shown.
LEMMA KeptIs ==
  ASSUME shown # NotShown => Kept(shown)
  PROVE  JoinKeepsEveryRollout
<1> SUFFICES ASSUME shown # NotShown PROVE JoinKeepsEveryRollout
  BY DEF JoinKeepsEveryRollout
<1>1. Kept(shown)
  OBVIOUS
<1>2. \A x \in Range(shown.rows) : Attaches(x.match, SubSeq(feedback, 1, shown.length),
           About(SubSeq(feedback, 1, shown.length), x.rollout, shown.tenant, shown.metric, shown.slot), shown.floor)
  BY <1>1 DEF Kept
<1>3. /\ Len(shown.rows) = Cardinality(Mine(shown))
      /\ {x.rollout : x \in Range(shown.rows)} = {world.rollouts[i].id : i \in Mine(shown)}
  BY <1>1 DEF Kept
<1> QED
  BY <1>2, <1>3 DEF JoinKeepsEveryRollout, Attaches, About, Mine

ShownInv == shown # NotShown => Kept(shown)

LEMMA ShownStep ==
  ASSUME JoinInv, ShownInv, [Next]_vars
  PROVE  ShownInv'
<1>1. CASE \E tenant, metric, slot, floor : floor \in Nat /\ Shows(tenant, metric, slot, floor)
           /\ world' = world /\ feedback' = feedback
  <2>1. PICK tenant, metric, slot, floor : floor \in Nat /\ Shows(tenant, metric, slot, floor)
    BY <1>1
  <2>2. PICK s : s = shown'
    OBVIOUS
  <2>3. ShownBy(s, tenant, metric, slot, floor)
    BY <2>1, <2>2 DEF Shows, ShownBy
  <2>4. Kept(s)
    BY <2>1, <2>3, JoinKeeps
  <2>5. Kept(shown)'
    BY <1>1, <2>2, <2>4 DEF Kept, Mine
  <2> QED
    BY <2>5 DEF ShownInv
<1>2. CASE shown' = NotShown
  BY <1>2 DEF ShownInv, NotShown
<1>3. CASE UNCHANGED vars
  BY <1>3 DEF vars, ShownInv, Kept, Mine, NotShown
<1>4. CASE ProcessOneEvent
  <2>1. 0 \in Nat
    OBVIOUS
  <2> QED
    BY <1>1, <1>2, <1>4, <2>1 DEF ProcessOneEvent
<1>5. CASE Dashboard
  <2>1. Floors \subseteq Nat
    BY WorldsAssumption
  <2> QED
    BY <1>1, <1>5, <2>1 DEF Dashboard
<1>6. CASE LandRollout \/ LandOutcome \/ Curate \/ ReadRollouts \/ ReadOutcomes \/ ReadFeedback \/ Insert
           \/ PassFails \/ Attribute
  <2>1. shown' = NotShown
    BY <1>6 DEF LandRollout, LandOutcome, Curate, ReadRollouts, ReadOutcomes, ReadFeedback, Insert, PassFails, Attribute
  <2> QED
    BY <1>2, <2>1
<1> QED
  BY <1>3, <1>4, <1>5, <1>6 DEF Next

LEMMA ShownStart == Init => ShownInv
BY DEF Init, ShownInv

LEMMA ShownKept == ShownInv => JoinKeepsEveryRollout
BY KeptIs DEF ShownInv

\* Every reward join that is ever shown, for any tenant, metric, slot and floor,
\* has every landed rollout once with the newest word on it.
THEOREM JoinSafe == Spec => []JoinKeepsEveryRollout
<1>1. JoinInv /\ ShownInv /\ [Next]_vars => ShownInv'
  BY ShownStep
<1> QED
  BY <1>1, InitInv, StepInv, ShownStart, ShownKept, PTL DEF Spec

(***************************************************************************)
(* The calibration is isotonic regression.  Products first.                *)
(***************************************************************************)

LEMMA Multiplied ==
  ASSUME NEW a \in Int, NEW b \in Int, NEW w \in Int, w >= 0, a <= b
  PROVE  w * a <= w * b
<1>1. w * a \in Int /\ w * b \in Int /\ w * b - w * a = w * (b - a)
  OBVIOUS
<1>2. w * (b - a) >= 0
  <2>1. PICK d : d = b - a
    OBVIOUS
  <2>2. d \in Nat /\ w \in Nat
    BY <2>1
  <2>3. w * d \in Nat
    BY ONLY <2>2
  <2> QED
    BY <2>1, <2>3
<1> QED
  BY <1>1, <1>2

\* Two groups are merged: the first has the sum sa of ca numbers and the second
\* the sum sb of cb numbers, and the first has the greater mean.  A beginning of
\* the second group has the sum p of u numbers.
LEMMA MergedTail ==
  ASSUME NEW sa \in Int, NEW sb \in Int, NEW ca \in Nat, NEW cb \in Nat, NEW p \in Int, NEW u \in Int,
         cb > 0, u <= cb, sb * u <= p * cb, sb * ca <= sa * cb
  PROVE  (sa + sb) * (ca + u) <= (sa + p) * (ca + cb)
<1>1. PICK x, y : x = sa * cb - sb * ca /\ y = p * cb - sb * u
  OBVIOUS
<1>2. x \in Int /\ y \in Int /\ x >= 0 /\ y >= 0 /\ cb - u \in Int /\ cb - u >= 0 /\ ca + cb \in Int /\ ca + cb >= 0
  BY <1>1
<1>3. 0 <= (cb - u) * x /\ 0 <= (ca + cb) * y
  <2>1. (cb - u) * 0 <= (cb - u) * x /\ (ca + cb) * 0 <= (ca + cb) * y
    BY <1>2, Multiplied
  <2>2. (cb - u) * 0 = 0 /\ (ca + cb) * 0 = 0
    BY <1>2
  <2> QED
    BY <2>1, <2>2
<1>4. cb * ((sa + p) * (ca + cb)) - cb * ((sa + sb) * (ca + u)) = (cb - u) * x + (ca + cb) * y
  BY <1>1
<1>5. PICK l, r : l = (sa + sb) * (ca + u) /\ r = (sa + p) * (ca + cb)
  OBVIOUS
<1>6. l \in Int /\ r \in Int
  BY <1>5
<1>7. cb * l <= cb * r
  <2>1. cb * l \in Int /\ cb * r \in Int /\ (cb - u) * x \in Int /\ (ca + cb) * y \in Int
    BY <1>2, <1>6
  <2> QED
    BY <1>3, <1>4, <1>5, <2>1
<1> QED
  BY <1>5, <1>6, <1>7, Cancelled

\* A beginning of the first group has the sum p of u numbers.
LEMMA MergedHead ==
  ASSUME NEW sa \in Int, NEW sb \in Int, NEW ca \in Nat, NEW cb \in Nat, NEW p \in Int, NEW u \in Nat,
         ca > 0, sa * u <= p * ca, sb * ca <= sa * cb
  PROVE  (sa + sb) * u <= p * (ca + cb)
<1>1. PICK x, y : x = sa * cb - sb * ca /\ y = p * ca - sa * u
  OBVIOUS
<1>2. x \in Int /\ y \in Int /\ x >= 0 /\ y >= 0 /\ ca + cb \in Int /\ ca + cb >= 0
  BY <1>1
<1>3. 0 <= u * x /\ 0 <= (ca + cb) * y
  <2>1. u * 0 <= u * x /\ (ca + cb) * 0 <= (ca + cb) * y
    BY <1>2, Multiplied
  <2>2. u * 0 = 0 /\ (ca + cb) * 0 = 0
    BY <1>2
  <2> QED
    BY <2>1, <2>2
<1>4. ca * (p * (ca + cb)) - ca * ((sa + sb) * u) = u * x + (ca + cb) * y
  BY <1>1
<1>5. PICK l, r : l = (sa + sb) * u /\ r = p * (ca + cb)
  OBVIOUS
<1>6. l \in Int /\ r \in Int
  BY <1>5
<1>7. ca * l <= ca * r
  <2>1. ca * l \in Int /\ ca * r \in Int /\ u * x \in Int /\ (ca + cb) * y \in Int
    BY <1>2, <1>6
  <2> QED
    BY <1>3, <1>4, <1>5, <2>1
<1> QED
  BY <1>5, <1>6, <1>7, Cancelled

\* Means are compared transitively.
LEMMA MeansRise ==
  ASSUME NEW sa \in Int, NEW sb \in Int, NEW sc \in Int, NEW ca \in Nat, NEW cb \in Nat, NEW cc \in Nat,
         cb > 0, sa * cb <= sb * ca, sb * cc <= sc * cb
  PROVE  sa * cc <= sc * ca
<1>1. PICK p, q, r, s : p = sa * cb /\ q = sb * ca /\ r = sb * cc /\ s = sc * cb
  OBVIOUS
<1>2. p \in Int /\ q \in Int /\ r \in Int /\ s \in Int /\ p <= q /\ r <= s
  BY <1>1
<1>3. cc * p <= cc * q /\ ca * r <= ca * s
  BY <1>2, Multiplied
<1>4. cc * q = ca * r /\ cc * p = cb * (sa * cc) /\ ca * s = cb * (sc * ca)
  BY <1>1
<1>5. PICK x, y : x = sa * cc /\ y = sc * ca
  OBVIOUS
<1>6. x \in Int /\ y \in Int
  BY <1>5
<1>7. cb * x <= cb * y
  <2>1. cc * p \in Int /\ cc * q \in Int /\ ca * r \in Int /\ ca * s \in Int
    BY <1>2
  <2> QED
    BY <1>3, <1>4, <1>5, <2>1
<1> QED
  BY <1>5, <1>6, <1>7, Cancelled

\* So are their quotients, rounded down.
LEMMA QuotientsRise ==
  ASSUME NEW x \in Nat, NEW w \in Nat, NEW s \in Nat, NEW c \in Nat, w > 0, c > 0, x * c <= s * w
  PROVE  (x * One) \div w <= (s * One) \div c
<1>1. One \in Nat /\ x * One \in Nat /\ s * One \in Nat
  BY DEF One
<1>2. PICK y, t, q, r : y = x * One /\ t = s * One /\ q = y \div w /\ r = t \div c
  OBVIOUS
<1>3. y \in Nat /\ t \in Nat
  BY <1>1, <1>2
<1>4. q \in Nat /\ w * q <= y /\ r \in Nat /\ t < c * r + c
  BY <1>2, <1>3, Division
<1>5. y * c <= t * w
  <2>1. PICK a, b : a = x * c /\ b = s * w
    OBVIOUS
  <2>2. a \in Int /\ b \in Int /\ a <= b
    BY <2>1
  <2>3. One * a <= One * b
    BY <1>1, <2>2, Multiplied
  <2>4. One * a = y * c /\ One * b = t * w
    BY <1>1, <1>2, <2>1
  <2> QED
    BY <2>3, <2>4
<1>6. c * (w * q) <= c * y
  <2>1. PICK a : a = w * q
    OBVIOUS
  <2>2. a \in Int /\ a <= y
    BY <1>4, <2>1
  <2> QED
    BY <1>3, <2>1, <2>2, Multiplied
<1>7. w * (c * q) <= w * t
  <2>1. w * (c * q) = c * (w * q) /\ w * t = t * w /\ c * y = y * c
    BY <1>3, <1>4
  <2>2. w * (c * q) \in Int /\ w * t \in Int /\ c * y \in Int
    BY <1>3, <1>4
  <2> QED
    BY <1>5, <1>6, <2>1, <2>2
<1>8. c * q <= t
  <2>1. c * q \in Int
    BY <1>4
  <2> QED
    BY <1>3, <1>7, <2>1, Cancelled
<1>9. q <= r
  <2>1. SUFFICES ASSUME r + 1 <= q PROVE FALSE
    BY <1>4
  <2>2. c * (r + 1) <= c * q
    BY <1>4, <2>1, Multiplied
  <2>3. c * (r + 1) = c * r + c /\ c * r \in Int /\ c * q \in Int
    BY <1>4
  <2> QED
    BY <1>3, <1>4, <1>8, <2>2, <2>3
<1> QED
  BY <1>2, <1>9

(***************************************************************************)
(* Totals and the groups of neighbours they are cut into.  A group is      *)
(* tight when none of its beginnings has a smaller mean.                   *)
(***************************************************************************)

Running(P, n) == n \in Nat /\ \A j \in 0..n : P[j] \in Int
Tight(P, s, t) == \A j \in s..t : (P[t] - P[s]) * (j - s) <= (P[j] - P[s]) * (t - s)
Rises(P, s, t, u) == (P[t] - P[s]) * (u - t) <= (P[u] - P[t]) * (t - s)

LEMMA MergedTight ==
  ASSUME NEW P, NEW n, Running(P, n), NEW s \in 0..n, NEW t \in 0..n, NEW u \in 0..n, s < t, t < u,
         Tight(P, s, t), Tight(P, t, u), (P[u] - P[t]) * (t - s) <= (P[t] - P[s]) * (u - t)
  PROVE  Tight(P, s, u)
<1>1. n \in Nat /\ P[s] \in Int /\ P[t] \in Int /\ P[u] \in Int
  BY DEF Running
<1>2. PICK sa, sb, ca, cb : sa = P[t] - P[s] /\ sb = P[u] - P[t] /\ ca = t - s /\ cb = u - t
  OBVIOUS
<1>3. sa \in Int /\ sb \in Int /\ ca \in Nat /\ cb \in Nat /\ ca > 0 /\ cb > 0 /\ sb * ca <= sa * cb
  BY <1>1, <1>2
<1>4. sa + sb = P[u] - P[s] /\ ca + cb = u - s
  BY <1>1, <1>2
<1>5. SUFFICES ASSUME NEW j \in s..u
               PROVE  (P[u] - P[s]) * (j - s) <= (P[j] - P[s]) * (u - s)
  BY DEF Tight
<1>6. j \in 0..n /\ P[j] \in Int
  BY <1>1 DEF Running
<1>7. CASE j <= t
  <2>1. PICK p, d : p = P[j] - P[s] /\ d = j - s
    OBVIOUS
  <2>2. p \in Int /\ d \in Nat
    BY <1>1, <1>6, <2>1
  <2>3. j \in s..t
    BY <1>7
  <2>4. sa * d <= p * ca
    BY <1>2, <2>1, <2>3 DEF Tight
  <2>5. (sa + sb) * d <= p * (ca + cb)
    BY <1>3, <2>2, <2>4, MergedHead
  <2> QED
    BY <1>4, <2>1, <2>5
<1>8. CASE j > t
  <2>1. PICK p, d : p = P[j] - P[t] /\ d = j - t
    OBVIOUS
  <2>2. p \in Int /\ d \in Int /\ d <= cb
    BY <1>1, <1>2, <1>6, <2>1
  <2>3. j \in t..u
    BY <1>6, <1>8
  <2>4. sb * d <= p * cb
    BY <1>2, <2>1, <2>3 DEF Tight
  <2>5. (sa + sb) * (ca + d) <= (sa + p) * (ca + cb)
    BY <1>3, <2>2, <2>4, MergedTail
  <2>6. ca + d = j - s /\ sa + p = P[j] - P[s]
    BY <1>1, <1>2, <1>6, <2>1
  <2> QED
    BY <1>4, <2>5, <2>6
<1> QED
  BY <1>6, <1>7, <1>8

\* e cuts 1..t into m groups; the k-th one is e[k-1]+1..e[k].
Cuts(e, m, t, n) ==
    /\ m \in Nat /\ n \in Nat /\ \A k \in 0..m : e[k] \in 0..n
    /\ e[0] = 0 /\ e[m] = t
    /\ \A k \in 1..m : e[k - 1] < e[k]

LEMMA CutsRise ==
  ASSUME NEW e, NEW m, NEW t, NEW n, Cuts(e, m, t, n), NEW k \in 0..m, NEW l \in 0..m, k < l
  PROVE  e[k] < e[l]
<1>1. m \in Nat /\ \A i \in 0..m : e[i] \in Int
  BY DEF Cuts
<1>2. PICK S : S = {i \in 0..m : \A h \in 0..m : h < i => e[h] < e[i]}
  OBVIOUS
<1>3. 0 \in S
  BY <1>1, <1>2
<1>4. ASSUME NEW i \in 0..m, i < m, i \in S
      PROVE  i + 1 \in S
  <2>1. i + 1 \in 1..m /\ i + 1 \in 0..m /\ (i + 1) - 1 = i
    BY <1>1, <1>4
  <2>2. e[i] < e[i + 1]
    BY <2>1 DEF Cuts
  <2>3. ASSUME NEW h \in 0..m, h < i + 1
        PROVE  e[h] < e[i + 1]
    <3>1. h = i \/ h < i
      BY <2>3
    <3>2. h < i => e[h] < e[i]
      BY <1>2, <1>4
    <3> QED
      BY <1>1, <2>1, <2>2, <3>1, <3>2
  <2> QED
    BY <1>2, <2>1, <2>3
<1>5. \A i \in 0..m : i \in S
  BY <1>1, <1>3, <1>4, UpTo
<1> QED
  BY <1>2, <1>5

LEMMA CutsCover ==
  ASSUME NEW e, NEW m, NEW t, NEW n, Cuts(e, m, t, n), NEW i \in 1..t
  PROVE  \E k \in 1..m : e[k - 1] < i /\ i <= e[k]
<1>1. m \in Nat /\ t \in Int /\ e[0] = 0 /\ e[m] = t /\ \A k \in 0..m : e[k] \in Int
  BY DEF Cuts
<1>2. PICK T : T = {k \in 0..m : i <= e[k]}
  OBVIOUS
<1>3. T \subseteq Nat /\ m \in T
  BY <1>1, <1>2
<1>4. PICK k \in T : \A l \in T : k <= l
  BY <1>3, LeastOf
<1>5. k \in 0..m /\ i <= e[k]
  BY <1>2, <1>4
<1>6. k # 0
  BY <1>1, <1>5
<1>7. k \in 1..m /\ k - 1 \in 0..m
  BY <1>1, <1>5, <1>6
<1>8. e[k - 1] < i
  <2>1. k - 1 \notin T
    BY <1>4, <1>7
  <2> QED
    BY <1>1, <1>2, <1>7, <2>1
<1> QED
  BY <1>5, <1>7, <1>8

\* The groups are tight and their means rise.
Pooled(P, e, m, n) ==
    /\ Running(P, n) /\ Cuts(e, m, n, n)
    /\ \A k \in 1..m : Tight(P, e[k - 1], e[k])
    /\ \A k \in 1..m - 1 : Rises(P, e[k - 1], e[k], e[k + 1])

Sum(P, e, k) == P[e[k]] - P[e[k - 1]]
Size(e, k) == e[k] - e[k - 1]

LEMMA GroupsAre ==
  ASSUME NEW P, NEW e, NEW m, NEW n, Pooled(P, e, m, n), NEW k \in 1..m
  PROVE  /\ m \in Nat /\ n \in Nat /\ k - 1 \in 0..m /\ k \in 0..m
         /\ e[k - 1] \in 0..n /\ e[k] \in 0..n /\ e[k - 1] < e[k]
         /\ P[e[k - 1]] \in Int /\ P[e[k]] \in Int
         /\ Sum(P, e, k) \in Int /\ Size(e, k) \in Nat /\ Size(e, k) > 0
<1>1. m \in Nat /\ n \in Nat
  BY DEF Pooled, Cuts
<1>2. k - 1 \in 0..m /\ k \in 0..m
  BY <1>1
<1>3. e[k - 1] \in 0..n /\ e[k] \in 0..n /\ e[k - 1] < e[k]
  BY <1>2 DEF Pooled, Cuts
<1>4. P[e[k - 1]] \in Int /\ P[e[k]] \in Int
  BY <1>3 DEF Pooled, Running
<1> QED
  BY <1>1, <1>2, <1>3, <1>4 DEF Sum, Size

LEMMA MeansOrdered ==
  ASSUME NEW P, NEW e, NEW m, NEW n, Pooled(P, e, m, n), NEW k \in 1..m, NEW l \in 1..m, k <= l
  PROVE  Sum(P, e, k) * Size(e, l) <= Sum(P, e, l) * Size(e, k)
<1>1. m \in Nat
  BY GroupsAre
<1>2. PICK S : S = {i \in 0..m : k <= i => Sum(P, e, k) * Size(e, i) <= Sum(P, e, i) * Size(e, k)}
  OBVIOUS
<1>3. 0 \in S
  BY <1>1, <1>2
<1>4. ASSUME NEW i \in 0..m, i < m, i \in S
      PROVE  i + 1 \in S
  <2>1. i + 1 \in 1..m /\ i + 1 \in 0..m
    BY <1>1, <1>4
  <2>2. CASE i + 1 < k
    BY <1>2, <2>1, <2>2
  <2>3. CASE i + 1 = k
    <3>1. Sum(P, e, k) * Size(e, k) \in Int
      BY GroupsAre
    <3> QED
      BY <1>2, <2>1, <2>3, <3>1
  <2>4. CASE k <= i
    <3>1. i \in 1..m /\ i \in 1..m - 1 /\ (i + 1) - 1 = i
      BY <1>1, <1>4, <2>4
    <3>2. PICK sa, sb, sc, ca, cb, cc : /\ sa = Sum(P, e, k) /\ sb = Sum(P, e, i) /\ sc = Sum(P, e, i + 1)
                                       /\ ca = Size(e, k) /\ cb = Size(e, i) /\ cc = Size(e, i + 1)
      OBVIOUS
    <3>3. /\ sa \in Int /\ sb \in Int /\ sc \in Int
          /\ ca \in Nat /\ cb \in Nat /\ cc \in Nat /\ cb > 0
      BY <2>1, <3>1, <3>2, GroupsAre
    <3>4. sa * cb <= sb * ca
      BY <1>2, <1>4, <2>4, <3>2
    <3>5. sb * cc <= sc * cb
      <4>1. Rises(P, e[i - 1], e[i], e[i + 1])
        BY <3>1 DEF Pooled
      <4> QED
        BY <3>1, <3>2, <4>1 DEF Rises, Sum, Size
    <3>6. sa * cc <= sc * ca
      BY <3>3, <3>4, <3>5, MeansRise
    <3> QED
      BY <1>2, <2>1, <3>2, <3>6
  <2> QED
    BY <1>1, <1>4, <2>2, <2>3, <2>4
<1>5. \A i \in 0..m : i \in S
  BY <1>1, <1>3, <1>4, UpTo
<1>6. l \in 0..m
  BY <1>1
<1> QED
  BY <1>2, <1>5, <1>6

\* How far the totals are from the line whose slope is the mean of a group.
Off(P, e, k, j) == Size(e, k) * P[j] - Sum(P, e, k) * j

LEMMA OffGrows ==
  ASSUME NEW s \in Int, NEW c \in Int, NEW p \in Int, NEW q \in Int, NEW a \in Int, NEW b \in Int
  PROVE  /\ s * (b - a) <= (q - p) * c <=> c * p - s * a <= c * q - s * b
         /\ (q - p) * c <= s * (b - a) <=> c * q - s * b <= c * p - s * a
<1>1. (q - p) * c - s * (b - a) = (c * q - s * b) - (c * p - s * a)
  OBVIOUS
<1>2. /\ s * (b - a) \in Int /\ (q - p) * c \in Int /\ c * p - s * a \in Int /\ c * q - s * b \in Int
  OBVIOUS
<1> QED
  BY <1>1, <1>2

\* To the right of a group the totals stay above the line through its end.
LEMMA AboveRight ==
  ASSUME NEW P, NEW e, NEW m, NEW n, Pooled(P, e, m, n), NEW k \in 1..m, NEW j \in 0..n, e[k] <= j
  PROVE  Off(P, e, k, e[k]) <= Off(P, e, k, j)
<1>1. /\ m \in Nat /\ n \in Nat /\ Running(P, n) /\ Cuts(e, m, n, n) /\ \A i \in 0..m : e[i] \in 0..n
      /\ Sum(P, e, k) \in Int /\ Size(e, k) \in Nat /\ k \in 0..m
  BY GroupsAre DEF Pooled, Cuts
<1>2. \A i \in 0..n : Off(P, e, k, i) \in Int
  BY <1>1 DEF Off, Running
<1>3. PICK S : S = {i \in 0..m : k <= i => \A h \in e[k]..e[i] : Off(P, e, k, e[k]) <= Off(P, e, k, h)}
  OBVIOUS
<1>4. 0 \in S
  BY <1>1, <1>3
<1>5. ASSUME NEW i \in 0..m, i < m, i \in S
      PROVE  i + 1 \in S
  <2>1. i + 1 \in 1..m /\ i + 1 \in 0..m /\ (i + 1) - 1 = i
    BY <1>1, <1>5
  <2>2. CASE i + 1 < k
    BY <1>3, <2>1, <2>2
  <2>3. CASE i + 1 = k
    <3>1. \A h \in e[k]..e[k] : h = e[k]
      BY <1>1
    <3>2. Off(P, e, k, e[k]) <= Off(P, e, k, e[k])
      BY <1>1, <1>2
    <3> QED
      BY <1>3, <2>1, <2>3, <3>1, <3>2
  <2>4. CASE k <= i
    <3>1. e[k] <= e[i] /\ e[i] < e[i + 1] /\ e[i] \in 0..n /\ e[i + 1] \in 0..n /\ e[k] \in 0..n
      <4>1. k = i \/ k < i
        BY <2>4
      <4>2. e[i] < e[i + 1]
        BY <1>1, <2>1 DEF Cuts
      <4>3. k < i => e[k] < e[i]
        BY <1>1, CutsRise
      <4>4. e[k] \in 0..n /\ e[i] \in 0..n /\ e[i + 1] \in 0..n
        BY <1>1, <2>1
      <4> QED
        BY <4>1, <4>2, <4>3, <4>4
    <3>2. Off(P, e, k, e[k]) <= Off(P, e, k, e[i])
      <4>1. e[i] \in e[k]..e[i]
        BY <3>1
      <4> QED
        BY <1>3, <1>5, <2>4, <4>1
    <3>3. ASSUME NEW h \in e[i]..e[i + 1]
          PROVE  Off(P, e, k, e[i]) <= Off(P, e, k, h)
      <4>1. h \in 0..n /\ P[h] \in Int /\ P[e[i]] \in Int
        <5>1. h \in 0..n
          BY <1>1, <3>1
        <5> QED
          BY <1>1, <3>1, <5>1 DEF Running
      <4>2. PICK sa, sb, ca, cb, p, u : /\ sa = Sum(P, e, k) /\ sb = Sum(P, e, i + 1) /\ p = P[h] - P[e[i]]
                                       /\ ca = Size(e, k) /\ cb = Size(e, i + 1) /\ u = h - e[i]
        OBVIOUS
      <4>3. sa \in Int /\ sb \in Int /\ p \in Int /\ ca \in Nat /\ cb \in Nat /\ cb > 0 /\ u \in Nat
        BY <2>1, <3>1, <4>1, <4>2, GroupsAre
      <4>4. sa * cb <= sb * ca
        BY <2>1, <2>4, <4>2, MeansOrdered
      <4>5. sb * u <= p * cb
        <5>1. Tight(P, e[i], e[i + 1])
          BY <2>1 DEF Pooled
        <5> QED
          BY <2>1, <4>2, <5>1 DEF Tight, Sum, Size
      <4>6. sa * u <= p * ca
        BY <4>3, <4>4, <4>5, MeansRise
      <4>7. e[i] \in Int /\ h \in Int /\ ca \in Int
        BY <3>1, <4>1, <4>3
      <4>8. ca * P[e[i]] - sa * e[i] <= ca * P[h] - sa * h
        BY <4>1, <4>2, <4>3, <4>6, <4>7, OffGrows
      <4> QED
        BY <4>2, <4>8 DEF Off
    <3>4. ASSUME NEW h \in e[k]..e[i + 1]
          PROVE  Off(P, e, k, e[k]) <= Off(P, e, k, h)
      <4>1. h \in e[k]..e[i] \/ h \in e[i]..e[i + 1]
        BY <3>1
      <4>2. h \in 0..n
        BY <1>1, <3>1
      <4>3. CASE h \in e[k]..e[i]
        BY <1>3, <1>5, <2>4, <4>3
      <4>4. CASE h \in e[i]..e[i + 1]
        BY <1>2, <3>1, <3>2, <3>3, <4>2, <4>4
      <4> QED
        BY <4>1, <4>3, <4>4
    <3> QED
      BY <1>3, <2>1, <3>4
  <2> QED
    BY <1>1, <1>5, <2>2, <2>3, <2>4
<1>6. \A i \in 0..m : i \in S
  BY <1>1, <1>4, <1>5, UpTo
<1>7. m \in S /\ k <= m /\ e[m] = n
  BY <1>1, <1>6 DEF Cuts
<1>8. j \in e[k]..e[m]
  BY <1>1, <1>7
<1> QED
  BY <1>3, <1>7, <1>8

\* To the left of it too.
LEMMA AboveLeft ==
  ASSUME NEW P, NEW e, NEW m, NEW n, Pooled(P, e, m, n), NEW k \in 1..m, NEW j \in 0..n, j <= e[k]
  PROVE  Off(P, e, k, e[k]) <= Off(P, e, k, j)
<1>1. /\ m \in Nat /\ n \in Nat /\ Running(P, n) /\ Cuts(e, m, n, n) /\ \A i \in 0..m : e[i] \in 0..n
      /\ Sum(P, e, k) \in Int /\ Size(e, k) \in Nat /\ k \in 0..m
  BY GroupsAre DEF Pooled, Cuts
<1>2. \A i \in 0..n : Off(P, e, k, i) \in Int
  BY <1>1 DEF Off, Running
<1>3. PICK S : S = {d \in 0..k : \A h \in e[k - d]..e[k] : Off(P, e, k, e[k]) <= Off(P, e, k, h)}
  OBVIOUS
<1>4. 0 \in S
  <2>1. k - 0 = k
    BY <1>1
  <2>2. \A h \in e[k]..e[k] : h = e[k]
    BY <1>1
  <2>3. Off(P, e, k, e[k]) <= Off(P, e, k, e[k])
    BY <1>1, <1>2
  <2> QED
    BY <1>1, <1>3, <2>1, <2>2, <2>3
<1>5. ASSUME NEW d \in 0..k, d < k, d \in S
      PROVE  d + 1 \in S
  <2>1. PICK i : i = k - d
    OBVIOUS
  <2>2. i \in 1..m /\ i <= k /\ i - 1 \in 0..m /\ i \in 0..m /\ k - (d + 1) = i - 1 /\ d + 1 \in 0..k
    BY <1>1, <1>5, <2>1
  <2>3. e[i] <= e[k] /\ e[i - 1] < e[i] /\ e[i - 1] \in 0..n /\ e[i] \in 0..n /\ e[k] \in 0..n
    <3>1. k = i \/ i < k
      BY <1>1, <2>2
    <3>2. e[i - 1] < e[i]
      BY <1>1, <2>2 DEF Cuts
    <3>3. i < k => e[i] < e[k]
      BY <1>1, <2>2, CutsRise
    <3>4. e[i - 1] \in 0..n /\ e[i] \in 0..n /\ e[k] \in 0..n
      BY <1>1, <2>2
    <3> QED
      BY <3>1, <3>2, <3>3, <3>4
  <2>4. Off(P, e, k, e[k]) <= Off(P, e, k, e[i])
    <3>1. e[i] \in e[i]..e[k]
      BY <2>3
    <3> QED
      BY <1>3, <1>5, <2>1, <3>1
  <2>5. ASSUME NEW h \in e[i - 1]..e[i]
        PROVE  Off(P, e, k, e[i]) <= Off(P, e, k, h)
    <3>1. h \in 0..n /\ P[h] \in Int /\ P[e[i]] \in Int /\ P[e[i - 1]] \in Int
      <4>1. h \in 0..n
        BY <1>1, <2>3
      <4> QED
        BY <1>1, <2>3, <4>1 DEF Running
    <3>2. PICK sb, sc, cb, cc, p, u, q, v : /\ sb = Sum(P, e, i) /\ sc = Sum(P, e, k) /\ cb = Size(e, i) /\ cc = Size(e, k)
                                            /\ p = P[e[i]] - P[h] /\ u = e[i] - h
                                            /\ q = P[h] - P[e[i - 1]] /\ v = h - e[i - 1]
      OBVIOUS
    <3>3. /\ sb \in Int /\ sc \in Int /\ p \in Int /\ cb \in Nat /\ cb > 0 /\ cc \in Nat /\ u \in Nat
          /\ q \in Int /\ v \in Int /\ sb = p + q /\ cb = u + v
      <4>1. sb \in Int /\ sc \in Int /\ cb \in Nat /\ cb > 0 /\ cc \in Nat
        BY <2>2, <3>2, GroupsAre
      <4>2. sb = P[e[i]] - P[e[i - 1]] /\ cb = e[i] - e[i - 1]
        BY <3>2 DEF Sum, Size
      <4> QED
        BY <2>3, <3>1, <3>2, <4>1, <4>2
    <3>4. sb * cc <= sc * cb
      BY <2>2, <3>2, MeansOrdered
    <3>5. sb * v <= q * cb
      <4>1. Tight(P, e[i - 1], e[i])
        BY <2>2 DEF Pooled
      <4> QED
        BY <3>2, <4>1 DEF Tight, Sum, Size
    <3>6. p * cb <= sb * u
      <4>1. (p + q) * (u + v) = p * (u + v) + q * (u + v) /\ (p + q) * (u + v) = (p + q) * u + (p + q) * v
        BY <3>3
      <4>2. p * cb + q * cb = sb * u + sb * v
        BY <3>3, <4>1
      <4>3. p * cb \in Int /\ q * cb \in Int /\ sb * u \in Int /\ sb * v \in Int
        BY <3>3
      <4> QED
        BY <3>5, <4>2, <4>3
    <3>7. p * cc <= sc * u
      BY <3>3, <3>4, <3>6, MeansRise
    <3>8. e[i] \in Int /\ h \in Int /\ cc \in Int
      BY <2>3, <3>1, <3>3
    <3>9. cc * P[e[i]] - sc * e[i] <= cc * P[h] - sc * h
      BY <3>1, <3>2, <3>3, <3>7, <3>8, OffGrows
    <3> QED
      BY <3>2, <3>9 DEF Off
  <2>6. ASSUME NEW h \in e[i - 1]..e[k]
        PROVE  Off(P, e, k, e[k]) <= Off(P, e, k, h)
    <3>1. h \in e[i]..e[k] \/ h \in e[i - 1]..e[i]
      BY <2>3
    <3>2. h \in 0..n
      BY <1>1, <2>3
    <3>3. CASE h \in e[i]..e[k]
      BY <1>3, <1>5, <2>1, <3>3
    <3>4. CASE h \in e[i - 1]..e[i]
      BY <1>2, <2>3, <2>4, <2>5, <3>2, <3>4
    <3> QED
      BY <3>1, <3>3, <3>4
  <2> QED
    BY <1>3, <2>2, <2>6
<1>6. \A d \in 0..k : d \in S
  BY <1>1, <1>4, <1>5, UpTo
<1>7. k \in S /\ k - k = 0 /\ e[0] = 0
  BY <1>1, <1>6 DEF Cuts
<1>8. j \in e[k - k]..e[k]
  BY <1>1, <1>7
<1> QED
  BY <1>3, <1>7, <1>8

\* A group's line supports the totals: they touch it at both of its ends, and
\* are nowhere below.
LEMMA Supports ==
  ASSUME NEW P, NEW e, NEW m, NEW n, Pooled(P, e, m, n), NEW k \in 1..m
  PROVE  \A j \in 0..n : Off(P, e, k, e[k]) <= Off(P, e, k, j) /\ Off(P, e, k, e[k - 1]) <= Off(P, e, k, j)
<1>1. /\ e[k - 1] \in 0..n /\ e[k] \in 0..n /\ P[e[k - 1]] \in Int /\ P[e[k]] \in Int /\ n \in Nat
  BY GroupsAre
<1>2. Off(P, e, k, e[k - 1]) = Off(P, e, k, e[k])
  <2>1. PICK p, q, a, b : p = P[e[k - 1]] /\ q = P[e[k]] /\ a = e[k - 1] /\ b = e[k]
    OBVIOUS
  <2>2. (b - a) * p - (q - p) * a = (b - a) * q - (q - p) * b
    BY <1>1, <2>1
  <2> QED
    BY <2>1, <2>2 DEF Off, Sum, Size
<1>3. \A j \in 0..n : Off(P, e, k, e[k]) <= Off(P, e, k, j)
  <2> TAKE j \in 0..n
  <2>1. j <= e[k] \/ e[k] <= j
    BY <1>1
  <2> QED
    BY <2>1, AboveLeft, AboveRight
<1> QED
  BY <1>2, <1>3

Mean(P, a, c) == ((P[c] - P[a - 1]) * One) \div (c - a + 1)
Growing(P, n) == \A a, c \in 0..n : a <= c => P[a] <= P[c]

LEMMA MeanBounds ==
  ASSUME NEW P, NEW e, NEW m, NEW n, Pooled(P, e, m, n), Growing(P, n), NEW k \in 1..m,
         NEW a \in 1..n, NEW c \in 1..n, a <= c,
         NEW v, v = (Sum(P, e, k) * One) \div Size(e, k)
  PROVE  /\ Mean(P, a, c) \in Nat /\ v \in Nat
         /\ c = e[k] => Mean(P, a, c) <= v
         /\ a - 1 = e[k - 1] => v <= Mean(P, a, c)
<1>1. /\ n \in Nat /\ e[k - 1] \in 0..n /\ e[k] \in 0..n /\ e[k - 1] < e[k]
      /\ Sum(P, e, k) \in Int /\ Size(e, k) \in Nat /\ Size(e, k) > 0
  BY GroupsAre
<1>2. a - 1 \in 0..n /\ c \in 0..n /\ a - 1 < c
  BY <1>1
<1>3. P[a - 1] \in Int /\ P[c] \in Int /\ P[a - 1] <= P[c] /\ P[e[k - 1]] <= P[e[k]] /\ P[e[k - 1]] \in Int /\ P[e[k]] \in Int
  BY <1>1, <1>2 DEF Pooled, Running, Growing
<1>4. PICK x, w, s, l : x = P[c] - P[a - 1] /\ w = c - a + 1 /\ s = Sum(P, e, k) /\ l = Size(e, k)
  OBVIOUS
<1>5. x \in Nat /\ w \in Nat /\ w > 0 /\ s \in Nat /\ l \in Nat /\ l > 0
  <2>1. s \in Nat
    BY <1>3, <1>4 DEF Sum
  <2> QED
    BY <1>1, <1>2, <1>3, <1>4, <2>1
<1>6. Mean(P, a, c) = (x * One) \div w /\ v = (s * One) \div l
  BY <1>4 DEF Mean
<1>7. Mean(P, a, c) \in Nat /\ v \in Nat
  <2>1. PICK y, z : y = x * One /\ z = s * One
    OBVIOUS
  <2>2. y \in Nat /\ z \in Nat
    BY <1>5, <2>1 DEF One
  <2>3. y \div w \in Nat /\ z \div l \in Nat
    BY <1>5, <2>2, Division
  <2> QED
    BY <1>6, <2>1, <2>3
<1>8. \A j \in 0..n : Off(P, e, k, e[k]) <= Off(P, e, k, j) /\ Off(P, e, k, e[k - 1]) <= Off(P, e, k, j)
  BY Supports
<1>9. PICK p, q, d : p = P[a - 1] /\ q = P[c] /\ d = a - 1
  OBVIOUS
<1>10. p \in Int /\ q \in Int /\ d \in Int /\ c \in Int /\ w = c - d /\ x = q - p /\ s \in Int /\ l \in Int
  BY <1>2, <1>3, <1>4, <1>5, <1>9
<1>11. /\ s * w <= x * l <=> l * p - s * d <= l * q - s * c
       /\ x * l <= s * w <=> l * q - s * c <= l * p - s * d
  BY <1>10, OffGrows
<1>12. Off(P, e, k, a - 1) = l * p - s * d /\ Off(P, e, k, c) = l * q - s * c
  BY <1>4, <1>9 DEF Off
<1>13. ASSUME c = e[k] PROVE Mean(P, a, c) <= v
  <2>1. x * l <= s * w
    BY <1>2, <1>8, <1>11, <1>12, <1>13
  <2> QED
    BY <1>5, <1>6, <2>1, QuotientsRise
<1>14. ASSUME a - 1 = e[k - 1] PROVE v <= Mean(P, a, c)
  <2>1. s * w <= x * l
    BY <1>2, <1>8, <1>11, <1>12, <1>14
  <2> QED
    BY <1>5, <1>6, <2>1, QuotientsRise
<1> QED
  BY <1>7, <1>13, <1>14

\* The quotient of a group is the greatest, over what begins at one of its
\* members or before, of the least over what ends there or later.
MinMax(P, n, i) == Greatest({Least({Mean(P, a, c) : c \in i..n}) : a \in 1..i})

LEMMA GroupFits ==
  ASSUME NEW P, NEW e, NEW m, NEW n, Pooled(P, e, m, n), Growing(P, n), NEW i \in 1..n, NEW k \in 1..m,
         e[k - 1] < i, i <= e[k]
  PROVE  MinMax(P, n, i) = (Sum(P, e, k) * One) \div Size(e, k)
<1>1. PICK v : v = (Sum(P, e, k) * One) \div Size(e, k)
  OBVIOUS
<1>2. n \in Nat /\ e[k - 1] \in 0..n /\ e[k] \in 0..n
  BY GroupsAre
<1>3. \A a \in 1..i : \A c \in i..n : Mean(P, a, c) \in Nat
  <2> TAKE a \in 1..i
  <2> TAKE c \in i..n
  <2>1. a \in 1..n /\ c \in 1..n /\ a <= c
    BY <1>2
  <2> QED
    BY <1>1, <2>1, MeanBounds
<1>4. PICK least : least = [a \in 1..i |-> Least({Mean(P, a, c) : c \in i..n})]
  OBVIOUS
<1>5. ASSUME NEW a \in 1..i
      PROVE  /\ least[a] \in {Mean(P, a, c) : c \in i..n}
             /\ \A c \in i..n : least[a] <= Mean(P, a, c)
  <2>1. PICK T : T = {Mean(P, a, c) : c \in i..n}
    OBVIOUS
  <2>2. T \subseteq Nat
    BY <1>3, <2>1
  <2>3. T # {}
    <3>1. i \in i..n
      BY <1>2
    <3> QED
      BY <2>1, <3>1
  <2>4. \E x \in T : \A y \in T : x <= y
    BY <2>2, <2>3, LeastOf
  <2>5. least[a] \in T /\ \A y \in T : least[a] <= y
    BY <1>4, <2>1, <2>4 DEF Least
  <2> QED
    BY <2>1, <2>5
<1>6. ASSUME NEW a \in 1..i
      PROVE  least[a] \in Nat /\ least[a] <= v
  <2>1. e[k] \in i..n /\ a \in 1..n /\ e[k] \in 1..n /\ a <= e[k]
    BY <1>2
  <2>2. Mean(P, a, e[k]) <= v /\ v \in Nat /\ Mean(P, a, e[k]) \in Nat
    BY <1>1, <2>1, MeanBounds
  <2>3. least[a] <= Mean(P, a, e[k])
    BY <1>5, <2>1
  <2>4. least[a] \in Nat
    BY <1>3, <1>5
  <2> QED
    BY <2>2, <2>3, <2>4
<1>7. PICK b : b = e[k - 1] + 1
  OBVIOUS
<1>8. b \in 1..i /\ b - 1 = e[k - 1]
  BY <1>2, <1>7
<1>9. least[b] = v
  <2>1. PICK c \in i..n : least[b] = Mean(P, b, c)
    BY <1>5, <1>8
  <2>2. b \in 1..n /\ c \in 1..n /\ b <= c
    BY <1>2, <1>8
  <2>3. v <= Mean(P, b, c) /\ v \in Nat
    BY <1>1, <1>8, <2>2, MeanBounds
  <2> QED
    BY <1>6, <1>8, <2>1, <2>3
<1>10. PICK T : T = {least[a] : a \in 1..i}
  OBVIOUS
<1>11. v \in T /\ (\A y \in T : y \in Nat /\ v >= y)
  <2>1. v \in T
    BY <1>8, <1>9, <1>10
  <2>2. \A y \in T : y \in Nat /\ y <= v
    BY <1>6, <1>10
  <2> QED
    BY <2>1, <2>2
<1>12. Greatest(T) = v
  <2>1. \E x \in T : \A y \in T : x >= y
    BY <1>11
  <2>2. Greatest(T) \in T /\ \A y \in T : Greatest(T) >= y
    BY <2>1 DEF Greatest
  <2> QED
    BY <1>11, <2>2
<1>13. T = {Least({Mean(P, a, c) : c \in i..n}) : a \in 1..i}
  <2>1. \A a \in 1..i : least[a] = Least({Mean(P, a, c) : c \in i..n})
    BY <1>4
  <2> QED
    BY <1>10, <2>1
<1> QED
  BY <1>1, <1>12, <1>13 DEF MinMax

(***************************************************************************)
(* What the turns of the pooling keep: the blocks are tight groups of what *)
(* was taken, and only the last two can be out of order.                   *)
(***************************************************************************)

Shape(e, m, t, P, n) ==
    /\ Running(P, n) /\ Cuts(e, m, t, n)
    /\ \A k \in 1..m : Tight(P, e[k - 1], e[k])
    /\ \A k \in 1..m - 2 : Rises(P, e[k - 1], e[k], e[k + 1])

LastTwoRise(P, e, m) == m >= 2 => Rises(P, e[m - 2], e[m - 1], e[m])

LEMMA MergedShape ==
  ASSUME NEW P, NEW e, NEW m, NEW t, NEW n, Shape(e, m, t, P, n), ~LastTwoRise(P, e, m),
         NEW f, f = [k \in 0..m - 1 |-> IF k = m - 1 THEN e[m] ELSE e[k]]
  PROVE  Shape(f, m - 1, t, P, n) /\ m - 1 \in 1..m
<1>1. m \in Nat /\ n \in Nat /\ \A k \in 0..m : e[k] \in 0..n
  BY DEF Shape, Cuts
<1>2. m >= 2
  BY DEF LastTwoRise
<1>3. PICK l : l = m - 1
  OBVIOUS
<1>4. l \in Nat /\ l >= 1 /\ l - 1 \in 0..m /\ l \in 0..m /\ m \in 0..m /\ m - 2 = l - 1 /\ l \in 1..m /\ m \in 1..m /\ m = l + 1
  BY <1>1, <1>2, <1>3
<1>5. f[l] = e[m] /\ \A k \in 0..l - 1 : f[k] = e[k]
  <2>1. l \in 0..l /\ \A k \in 0..l - 1 : k \in 0..l /\ k # l
    BY <1>4
  <2> QED
    BY <1>3, <2>1
<1>6. Tight(P, f[l - 1], f[l])
  <2>1. l - 1 \in 0..l - 1
    BY <1>4
  <2>2. f[l - 1] = e[l - 1] /\ f[l] = e[m]
    BY <1>5, <2>1
  <2>3. Tight(P, e[l - 1], e[l]) /\ Tight(P, e[l], e[m])
    <3>1. m - 1 = l
      BY <1>3
    <3> QED
      BY <1>4, <3>1 DEF Shape
  <2>4. e[l - 1] < e[l] /\ e[l] < e[m]
    <3>1. m - 1 = l
      BY <1>3
    <3> QED
      BY <1>4, <3>1 DEF Shape, Cuts
  <2>5. PICK a, b, c : a = e[l - 1] /\ b = e[l] /\ c = e[m]
    OBVIOUS
  <2>6. /\ a \in 0..n /\ b \in 0..n /\ c \in 0..n /\ a < b /\ b < c /\ Tight(P, a, b) /\ Tight(P, b, c)
        /\ Running(P, n)
    BY <1>1, <1>4, <2>3, <2>4, <2>5 DEF Shape
  <2>7. (P[c] - P[b]) * (b - a) <= (P[b] - P[a]) * (c - b)
    <3>1. ~Rises(P, a, b, c)
      BY <1>2, <1>3, <1>4, <2>5 DEF LastTwoRise
    <3>2. P[a] \in Int /\ P[b] \in Int /\ P[c] \in Int
      BY <2>6 DEF Running
    <3>3. (P[b] - P[a]) * (c - b) \in Int /\ (P[c] - P[b]) * (b - a) \in Int
      BY <1>1, <2>6, <3>2
    <3> QED
      BY <3>1, <3>3 DEF Rises
  <2>8. Tight(P, a, c)
    BY <2>6, <2>7, MergedTight
  <2> QED
    BY <2>2, <2>5, <2>8
<1>7. \A k \in 1..l : Tight(P, f[k - 1], f[k])
  <2> TAKE k \in 1..l
  <2>1. CASE k = l
    BY <1>6, <2>1
  <2>2. CASE k # l
    <3>1. k - 1 \in 0..l - 1 /\ k \in 0..l - 1 /\ k \in 1..m
      BY <1>4, <2>2
    <3> QED
      BY <1>5, <3>1 DEF Shape
  <2> QED
    BY <2>1, <2>2
<1>8. \A k \in 1..l - 2 : Rises(P, f[k - 1], f[k], f[k + 1])
  <2> TAKE k \in 1..l - 2
  <2>1. k - 1 \in 0..l - 1 /\ k \in 0..l - 1 /\ k + 1 \in 0..l - 1 /\ k \in 1..m - 2
    BY <1>4
  <2> QED
    BY <1>5, <2>1 DEF Shape
<1>9. Cuts(f, l, t, n)
  <2>1. \A k \in 0..l : f[k] \in 0..n
    <3> TAKE k \in 0..l
    <3>1. k = l \/ k \in 0..l - 1
      BY <1>4
    <3> QED
      BY <1>1, <1>4, <1>5, <3>1
  <2>2. f[0] = 0 /\ f[l] = t
    <3>1. 0 \in 0..l - 1
      BY <1>4
    <3> QED
      BY <1>5, <3>1 DEF Shape, Cuts
  <2>3. \A k \in 1..l : f[k - 1] < f[k]
    <3> TAKE k \in 1..l
    <3>1. k - 1 \in 0..l - 1 /\ k \in 1..m
      BY <1>4
    <3>2. e[k - 1] < e[k]
      BY <3>1 DEF Shape, Cuts
    <3>3. CASE k # l
      <4>1. k \in 0..l - 1
        BY <1>4, <3>3
      <4> QED
        BY <1>5, <3>1, <3>2, <4>1
    <3>4. CASE k = l
      <4>1. m - 1 = l
        BY <1>3
      <4>2. e[l] < e[m]
        BY <1>4, <4>1 DEF Shape, Cuts
      <4>3. e[l - 1] \in Int /\ e[l] \in Int /\ e[m] \in Int
        BY <1>1, <1>4
      <4> QED
        BY <1>5, <3>1, <3>2, <3>4, <4>2, <4>3
    <3> QED
      BY <3>3, <3>4
  <2> QED
    BY <1>1, <1>4, <2>1, <2>2, <2>3 DEF Cuts
<1>10. Running(P, n)
  BY DEF Shape
<1> QED
  BY <1>3, <1>4, <1>7, <1>8, <1>9, <1>10 DEF Shape

LEMMA TakenShape ==
  ASSUME NEW P, NEW e, NEW m, NEW t, NEW n, Shape(e, m, t, P, n), LastTwoRise(P, e, m), t < n,
         NEW f, f = [k \in 0..m + 1 |-> IF k = m + 1 THEN t + 1 ELSE e[k]]
  PROVE  Shape(f, m + 1, t + 1, P, n)
<1>1. m \in Nat /\ n \in Nat /\ t \in 0..n /\ e[m] = t /\ \A k \in 0..m : e[k] \in 0..n
  BY DEF Shape, Cuts
<1>2. PICK l : l = m + 1
  OBVIOUS
<1>3. f[l] = t + 1 /\ \A k \in 0..m : f[k] = e[k]
  <2>1. l \in 0..l /\ \A k \in 0..m : k \in 0..l /\ k # l
    BY <1>1, <1>2
  <2> QED
    BY <1>2, <2>1
<1>4. Tight(P, t, t + 1)
  <2>1. P[t] \in Int /\ P[t + 1] \in Int
    <3>1. t \in 0..n /\ t + 1 \in 0..n
      BY <1>1
    <3> QED
      BY <3>1 DEF Shape, Running
  <2>2. SUFFICES ASSUME NEW j \in t..t + 1
                 PROVE  (P[t + 1] - P[t]) * (j - t) <= (P[j] - P[t]) * ((t + 1) - t)
    BY DEF Tight
  <2>3. CASE j = t
    <3>1. j - t = 0 /\ (P[t + 1] - P[t]) * 0 = 0 /\ P[j] - P[t] = 0 /\ (t + 1) - t = 1
      BY <1>1, <2>1, <2>3
    <3> QED
      BY <3>1
  <2>4. CASE j = t + 1
    <3>1. j - t = 1 /\ (P[t + 1] - P[t]) * 1 \in Int /\ (t + 1) - t = 1
      BY <1>1, <2>1, <2>4
    <3> QED
      BY <2>4, <3>1
  <2> QED
    BY <1>1, <2>3, <2>4
<1>5. \A k \in 1..l : Tight(P, f[k - 1], f[k])
  <2> TAKE k \in 1..l
  <2>1. CASE k = l
    <3>1. k - 1 \in 0..m /\ k - 1 = m
      BY <1>1, <1>2, <2>1
    <3> QED
      BY <1>1, <1>3, <1>4, <2>1, <3>1
  <2>2. CASE k # l
    <3>1. k - 1 \in 0..m /\ k \in 0..m /\ k \in 1..m
      BY <1>1, <1>2, <2>2
    <3> QED
      BY <1>3, <3>1 DEF Shape
  <2> QED
    BY <2>1, <2>2
<1>6. \A k \in 1..l - 2 : Rises(P, f[k - 1], f[k], f[k + 1])
  <2> TAKE k \in 1..l - 2
  <2>1. k - 1 \in 0..m /\ k \in 0..m /\ k + 1 \in 0..m
    BY <1>1, <1>2
  <2>2. f[k - 1] = e[k - 1] /\ f[k] = e[k] /\ f[k + 1] = e[k + 1]
    BY <1>3, <2>1
  <2>3. CASE k \in 1..m - 2
    BY <2>2, <2>3 DEF Shape
  <2>4. CASE k \notin 1..m - 2
    <3>1. m >= 2 /\ k - 1 = m - 2 /\ k = m - 1 /\ k + 1 = m
      BY <1>1, <1>2, <2>4
    <3> QED
      BY <2>2, <3>1 DEF LastTwoRise
  <2> QED
    BY <2>3, <2>4
<1>7. Cuts(f, l, t + 1, n)
  <2>1. \A k \in 0..l : f[k] \in 0..n
    <3> TAKE k \in 0..l
    <3>1. k = l \/ k \in 0..m
      BY <1>1, <1>2
    <3>2. t + 1 \in 0..n
      BY <1>1
    <3> QED
      BY <1>1, <1>3, <3>1, <3>2
  <2>2. f[0] = 0 /\ f[l] = t + 1
    <3>1. 0 \in 0..m
      BY <1>1
    <3> QED
      BY <1>3, <3>1 DEF Shape, Cuts
  <2>3. \A k \in 1..l : f[k - 1] < f[k]
    <3> TAKE k \in 1..l
    <3>1. CASE k # l
      <4>1. k - 1 \in 0..m /\ k \in 0..m /\ k \in 1..m
        BY <1>1, <1>2, <3>1
      <4> QED
        BY <1>3, <4>1 DEF Shape, Cuts
    <3>2. CASE k = l
      <4>1. k - 1 = m /\ m \in 0..m
        BY <1>1, <1>2, <3>2
      <4> QED
        BY <1>1, <1>3, <3>2, <4>1
    <3> QED
      BY <3>1, <3>2
  <2>4. l \in Nat
    BY <1>1, <1>2
  <2> QED
    BY <1>1, <2>1, <2>2, <2>3, <2>4 DEF Cuts
<1>8. Running(P, n)
  BY DEF Shape
<1> QED
  BY <1>2, <1>5, <1>6, <1>7, <1>8 DEF Shape

AreBlocks(bs, e, m, P, ps) ==
    /\ IsList(bs) /\ Len(bs) = m
    /\ \A k \in 1..m : bs[k].sum = Sum(P, e, k) /\ bs[k].count = Size(e, k) /\ bs[k].left = ps[e[k - 1] + 1].x

Summed(P, ps, n) ==
    /\ Running(P, n) /\ Len(ps) = n /\ P[0] = 0
    /\ \A k \in 1..n : ps[k].y \in Int /\ P[k] = P[k - 1] + ps[k].y

LEMMA ViolatesIs ==
  ASSUME NEW P, NEW e, NEW m, NEW t, NEW n, Shape(e, m, t, P, n), NEW bs, NEW ps, AreBlocks(bs, e, m, P, ps)
  PROVE  Violates(bs) <=> ~LastTwoRise(P, e, m)
<1>1. m \in Nat /\ Len(bs) = m
  BY DEF Shape, Cuts, AreBlocks
<1>2. CASE m >= 2
  <2>1. m - 1 \in 1..m /\ m \in 1..m /\ (m - 1) - 1 = m - 2 /\ m - 2 \in 0..m /\ m - 1 \in 0..m /\ m \in 0..m
    BY <1>1, <1>2
  <2>2. PICK sa, ca, sb, cb : /\ sa = P[e[m - 1]] - P[e[m - 2]] /\ ca = e[m - 1] - e[m - 2]
                              /\ sb = P[e[m]] - P[e[m - 1]] /\ cb = e[m] - e[m - 1]
    OBVIOUS
  <2>3. bs[m - 1].sum = sa /\ bs[m - 1].count = ca /\ bs[m].sum = sb /\ bs[m].count = cb
    BY <2>1, <2>2 DEF AreBlocks, Sum, Size
  <2>4. sa \in Int /\ sb \in Int /\ ca \in Int /\ cb \in Int
    <3>1. e[m - 2] \in 0..n /\ e[m - 1] \in 0..n /\ e[m] \in 0..n /\ n \in Nat
      BY <2>1 DEF Shape, Cuts
    <3>2. P[e[m - 2]] \in Int /\ P[e[m - 1]] \in Int /\ P[e[m]] \in Int
      BY <3>1 DEF Shape, Running
    <3> QED
      BY <2>2, <3>1, <3>2
  <2>5. sa * cb \in Int /\ sb * ca \in Int
    BY <2>4
  <2>6. LastTwoRise(P, e, m) <=> sa * cb <= sb * ca
    BY <1>2, <2>2 DEF LastTwoRise, Rises
  <2>7. Violates(bs) <=> sa * cb > sb * ca
    BY <1>1, <1>2, <2>3 DEF Violates
  <2> QED
    BY <2>5, <2>6, <2>7
<1>3. CASE ~(m >= 2)
  BY <1>1, <1>3 DEF Violates, LastTwoRise
<1> QED
  BY <1>2, <1>3

LEMMA MergedAre ==
  ASSUME NEW P, NEW e, NEW m, NEW t, NEW n, Shape(e, m, t, P, n), NEW bs, NEW ps, AreBlocks(bs, e, m, P, ps),
         ~LastTwoRise(P, e, m),
         NEW f, f = [k \in 0..m - 1 |-> IF k = m - 1 THEN e[m] ELSE e[k]]
  PROVE  AreBlocks(Merged(bs), f, m - 1, P, ps)
<1>1. m \in Nat /\ m >= 2 /\ Len(bs) = m /\ IsList(bs)
  BY DEF Shape, Cuts, AreBlocks, LastTwoRise
<1>2. PICK l : l = m - 1
  OBVIOUS
<1>3. l \in Nat /\ l >= 1 /\ l - 1 \in Nat /\ l - 1 = m - 2 /\ l \in 1..m /\ m \in 1..m /\ l - 1 \in 0..m
  BY <1>1, <1>2
<1>4. f[l] = e[m] /\ \A k \in 0..l - 1 : f[k] = e[k]
  <2>1. l \in 0..l /\ \A k \in 0..l - 1 : k \in 0..l /\ k # l
    BY <1>3
  <2> QED
    BY <1>2, <2>1
<1>5. PICK s, b : s = SubSeq(bs, 1, m - 2) /\ b = [sum   |-> bs[m - 1].sum + bs[m].sum,
                                                   count |-> bs[m - 1].count + bs[m].count,
                                                   left  |-> bs[m - 1].left]
  OBVIOUS
<1>6. IsList(s) /\ Len(s) = l - 1 /\ \A k \in 1..l - 1 : s[k] = bs[k]
  BY <1>1, <1>3, <1>5, ListPrefix
<1>7. PICK u : u = Append(s, b)
  OBVIOUS
<1>8. IsList(u) /\ Len(u) = l /\ u[l] = b /\ \A k \in 1..l - 1 : u[k] = bs[k]
  <2>1. (l - 1) + 1 = l
    BY <1>3
  <2> QED
    BY <1>6, <1>7, <2>1, ListAppend
<1>9. Merged(bs) = u
  BY <1>1, <1>5, <1>7 DEF Merged
<1>10. ASSUME NEW k \in 1..l
       PROVE  u[k].sum = Sum(P, f, k) /\ u[k].count = Size(f, k) /\ u[k].left = ps[f[k - 1] + 1].x
  <2>1. CASE k # l
    <3>1. k \in 1..l - 1 /\ k \in 0..l - 1 /\ k - 1 \in 0..l - 1 /\ k \in 1..m
      BY <1>3, <2>1
    <3>2. f[k] = e[k] /\ f[k - 1] = e[k - 1] /\ u[k] = bs[k]
      BY <1>4, <1>8, <3>1
    <3> QED
      BY <3>1, <3>2 DEF AreBlocks, Sum, Size
  <2>2. CASE k = l
    <3>1. l - 1 \in 0..l - 1 /\ m - 1 = l
      BY <1>2, <1>3
    <3>2. f[l - 1] = e[l - 1] /\ f[l] = e[m] /\ u[l] = b
      BY <1>4, <1>8, <3>1
    <3>3. /\ bs[l].sum = P[e[l]] - P[e[l - 1]] /\ bs[l].count = e[l] - e[l - 1] /\ bs[l].left = ps[e[l - 1] + 1].x
          /\ bs[m].sum = P[e[m]] - P[e[l]] /\ bs[m].count = e[m] - e[l]
      BY <1>3, <3>1 DEF AreBlocks, Sum, Size
    <3>4. /\ P[e[l]] \in Int /\ P[e[l - 1]] \in Int /\ P[e[m]] \in Int
          /\ e[l] \in Int /\ e[l - 1] \in Int /\ e[m] \in Int
      <4>1. l \in 0..m /\ m \in 0..m
        BY <1>3
      <4>2. e[l] \in 0..n /\ e[l - 1] \in 0..n /\ e[m] \in 0..n /\ n \in Nat
        BY <1>3, <4>1 DEF Shape, Cuts
      <4> QED
        BY <4>2 DEF Shape, Running
    <3>5. b.sum = P[e[m]] - P[e[l - 1]] /\ b.count = e[m] - e[l - 1] /\ b.left = ps[e[l - 1] + 1].x
      <4>1. b.sum = bs[l].sum + bs[m].sum /\ b.count = bs[l].count + bs[m].count /\ b.left = bs[l].left
        BY <1>5, <3>1
      <4>2. PICK p, q, r, x, y, z : /\ p = P[e[l - 1]] /\ q = P[e[l]] /\ r = P[e[m]]
                                    /\ x = e[l - 1] /\ y = e[l] /\ z = e[m]
        OBVIOUS
      <4>3. (q - p) + (r - q) = r - p /\ (y - x) + (z - y) = z - x
        BY <3>4, <4>2
      <4> QED
        BY <3>3, <4>1, <4>2, <4>3
    <3> QED
      BY <2>2, <3>2, <3>5 DEF Sum, Size
  <2> QED
    BY <2>1, <2>2
<1> QED
  BY <1>2, <1>8, <1>9, <1>10 DEF AreBlocks

LEMMA TakenAre ==
  ASSUME NEW P, NEW e, NEW m, NEW t, NEW n, Shape(e, m, t, P, n), NEW bs, NEW ps, AreBlocks(bs, e, m, P, ps),
         Summed(P, ps, n), t < n,
         NEW f, f = [k \in 0..m + 1 |-> IF k = m + 1 THEN t + 1 ELSE e[k]]
  PROVE  AreBlocks(Append(bs, [sum |-> ps[t + 1].y, count |-> 1, left |-> ps[t + 1].x]), f, m + 1, P, ps)
<1>1. m \in Nat /\ t \in 0..n /\ n \in Nat /\ e[m] = t /\ Len(bs) = m /\ IsList(bs)
  BY DEF Shape, Cuts, AreBlocks
<1>2. PICK l : l = m + 1
  OBVIOUS
<1>3. f[l] = t + 1 /\ \A k \in 0..m : f[k] = e[k]
  <2>1. l \in 0..l /\ \A k \in 0..m : k \in 0..l /\ k # l
    BY <1>1, <1>2
  <2> QED
    BY <1>2, <2>1
<1>4. PICK b, u : b = [sum |-> ps[t + 1].y, count |-> 1, left |-> ps[t + 1].x] /\ u = Append(bs, b)
  OBVIOUS
<1>5. IsList(u) /\ Len(u) = l /\ u[l] = b /\ \A k \in 1..m : u[k] = bs[k]
  BY <1>1, <1>2, <1>4, ListAppend
<1>6. ASSUME NEW k \in 1..l
      PROVE  u[k].sum = Sum(P, f, k) /\ u[k].count = Size(f, k) /\ u[k].left = ps[f[k - 1] + 1].x
  <2>1. CASE k # l
    <3>1. k \in 1..m /\ k \in 0..m /\ k - 1 \in 0..m
      BY <1>1, <1>2, <2>1
    <3>2. f[k] = e[k] /\ f[k - 1] = e[k - 1] /\ u[k] = bs[k]
      BY <1>3, <1>5, <3>1
    <3> QED
      BY <3>1, <3>2 DEF AreBlocks, Sum, Size
  <2>2. CASE k = l
    <3>1. k - 1 = m /\ m \in 0..m
      BY <1>1, <1>2, <2>2
    <3>2. f[k - 1] = t /\ f[k] = t + 1 /\ u[k] = b
      BY <1>1, <1>3, <1>5, <2>2, <3>1
    <3>3. t + 1 \in 1..n /\ (t + 1) - 1 = t /\ t + 1 \in 0..n
      BY <1>1
    <3>4. P[t + 1] = P[t] + ps[t + 1].y /\ P[t] \in Int /\ P[t + 1] \in Int
      BY <1>1, <3>3 DEF Summed, Running
    <3>5. ps[t + 1].y = P[t + 1] - P[t]
      <4>1. ps[t + 1].y \in Int
        BY <3>3 DEF Summed
      <4> QED
        BY <3>4, <4>1
    <3>6. (t + 1) - t = 1
      BY <1>1
    <3>7. b.sum = P[t + 1] - P[t] /\ b.count = (t + 1) - t /\ b.left = ps[t + 1].x
      BY <1>4, <3>5, <3>6
    <3> QED
      BY <3>2, <3>7 DEF Sum, Size
  <2> QED
    BY <2>1, <2>2
<1> QED
  BY <1>2, <1>4, <1>5, <1>6 DEF AreBlocks

PoolAt(state, e, m, P, ps, n) ==
    /\ state = [blocks |-> state.blocks, taken |-> state.taken]
    /\ Shape(e, m, state.taken, P, n) /\ AreBlocks(state.blocks, e, m, P, ps)

\* Every turn takes or merges, until all is taken and nothing is out of order.
Finished(state, n) == state.taken = n /\ ~Violates(state.blocks)
AtTurn(state, k, P, ps, n) ==
    \E e, m : PoolAt(state, e, m, P, ps, n) /\ (2 * state.taken - m >= k \/ Finished(state, n))

LEMMA FirstTurn ==
  ASSUME NEW P, NEW ps, NEW n, Summed(P, ps, n)
  PROVE  AtTurn(NoBlocks, 0, P, ps, n)
<1>1. n \in Nat /\ Running(P, n)
  BY DEF Summed, Running
<1>2. PICK e, z : e = [k \in 0..0 |-> 0] /\ z = 0
  OBVIOUS
<1>3. e[0] = 0
  BY <1>2
<1>4. Cuts(e, 0, 0, n)
  <2>1. \A k \in 0..0 : e[k] \in 0..n
    BY <1>1, <1>3
  <2>2. \A k \in 1..0 : e[k - 1] < e[k]
    OBVIOUS
  <2>3. 0 \in Nat
    OBVIOUS
  <2> QED
    BY <1>1, <1>3, <2>1, <2>2, <2>3 DEF Cuts
<1>5. Shape(e, 0, 0, P, n)
  <2>1. (\A k \in 1..0 : Tight(P, e[k - 1], e[k])) /\ \A k \in 1..0 - 2 : Rises(P, e[k - 1], e[k], e[k + 1])
    OBVIOUS
  <2> QED
    BY <1>1, <1>4, <2>1 DEF Shape
<1>6. AreBlocks(<<>>, e, 0, P, ps)
  <2>1. \A k \in 1..0 : /\ <<>>[k].sum = Sum(P, e, k) /\ <<>>[k].count = Size(e, k)
                        /\ <<>>[k].left = ps[e[k - 1] + 1].x
    OBVIOUS
  <2> QED
    BY <2>1, EmptyList DEF AreBlocks
<1>7. NoBlocks.blocks = <<>> /\ NoBlocks.taken = 0 /\ NoBlocks = [blocks |-> NoBlocks.blocks, taken |-> NoBlocks.taken]
  BY DEF NoBlocks
<1>8. PoolAt(NoBlocks, e, 0, P, ps, n)
  BY <1>5, <1>6, <1>7 DEF PoolAt
<1>9. 2 * NoBlocks.taken - 0 >= 0
  BY <1>7
<1> QED
  BY <1>8, <1>9 DEF AtTurn

LEMMA NextTurn ==
  ASSUME NEW P, NEW ps, NEW n, Summed(P, ps, n), NEW state, NEW k \in Nat, AtTurn(state, k, P, ps, n)
  PROVE  AtTurn(Turn(state, ps), k + 1, P, ps, n)
<1>1. PICK e, m : PoolAt(state, e, m, P, ps, n) /\ (2 * state.taken - m >= k \/ Finished(state, n))
  BY DEF AtTurn
<1>2. PICK bs, t : bs = state.blocks /\ t = state.taken
  OBVIOUS
<1>3. state = [blocks |-> bs, taken |-> t] /\ Shape(e, m, t, P, n) /\ AreBlocks(bs, e, m, P, ps)
  BY <1>1, <1>2 DEF PoolAt
<1>4. m \in Nat /\ t \in 0..n /\ n \in Nat /\ Len(ps) = n
  BY <1>3 DEF Shape, Cuts, Summed
<1>5. Violates(bs) <=> ~LastTwoRise(P, e, m)
  BY <1>3, ViolatesIs
<1>6. CASE Violates(bs)
  <2>1. PICK f, u : f = [i \in 0..m - 1 |-> IF i = m - 1 THEN e[m] ELSE e[i]] /\ u = Merged(bs)
    OBVIOUS
  <2>2. Shape(f, m - 1, t, P, n)
    BY <1>3, <1>5, <1>6, <2>1, MergedShape
  <2>3. AreBlocks(u, f, m - 1, P, ps)
    BY <1>3, <1>5, <1>6, <2>1, MergedAre
  <2>4. PICK s : s = Turn(state, ps)
    OBVIOUS
  <2>5. s = [blocks |-> u, taken |-> t]
    BY <1>2, <1>3, <1>6, <2>1, <2>4 DEF Turn
  <2>6. s.blocks = u /\ s.taken = t
    BY <2>5
  <2>7. PoolAt(s, f, m - 1, P, ps, n)
    BY <2>2, <2>3, <2>5, <2>6 DEF PoolAt
  <2>8. 2 * t - m >= k
    BY <1>1, <1>2, <1>6 DEF Finished
  <2>9. 2 * s.taken - (m - 1) >= k + 1
    BY <1>4, <2>6, <2>8
  <2> QED
    BY <2>4, <2>7, <2>9 DEF AtTurn
<1>7. CASE ~Violates(bs) /\ t < Len(ps)
  <2>1. PICK f, b, u : /\ f = [i \in 0..m + 1 |-> IF i = m + 1 THEN t + 1 ELSE e[i]]
                       /\ b = [sum |-> ps[t + 1].y, count |-> 1, left |-> ps[t + 1].x] /\ u = Append(bs, b)
    OBVIOUS
  <2>2. Shape(f, m + 1, t + 1, P, n)
    BY <1>3, <1>4, <1>5, <1>7, <2>1, TakenShape
  <2>3. AreBlocks(u, f, m + 1, P, ps)
    BY <1>3, <1>4, <1>7, <2>1, TakenAre
  <2>4. PICK s : s = Turn(state, ps)
    OBVIOUS
  <2>5. s = [blocks |-> u, taken |-> t + 1]
    BY <1>2, <1>7, <2>1, <2>4 DEF Turn
  <2>6. s.blocks = u /\ s.taken = t + 1
    BY <2>5
  <2>7. PoolAt(s, f, m + 1, P, ps, n)
    BY <2>2, <2>3, <2>5, <2>6 DEF PoolAt
  <2>8. 2 * t - m >= k
    BY <1>1, <1>2, <1>4, <1>7 DEF Finished
  <2>9. 2 * s.taken - (m + 1) >= k + 1
    BY <1>4, <2>6, <2>8
  <2> QED
    BY <2>4, <2>7, <2>9 DEF AtTurn
<1>8. CASE ~Violates(bs) /\ ~(t < Len(ps))
  <2>1. Turn(state, ps) = state
    BY <1>2, <1>8 DEF Turn
  <2>2. Finished(state, n)
    BY <1>2, <1>4, <1>8 DEF Finished
  <2> QED
    BY <1>1, <2>1, <2>2 DEF AtTurn
<1> QED
  BY <1>6, <1>7, <1>8

\* Twice as many turns as there are points are enough.
LEMMA LastTurn ==
  ASSUME NEW P, NEW ps, NEW n, Summed(P, ps, n), NEW state, AtTurn(state, 2 * n, P, ps, n)
  PROVE  \E e, m : Pooled(P, e, m, n) /\ AreBlocks(state.blocks, e, m, P, ps)
<1>1. PICK e, m : PoolAt(state, e, m, P, ps, n) /\ (2 * state.taken - m >= 2 * n \/ Finished(state, n))
  BY DEF AtTurn
<1>2. PICK bs, t : bs = state.blocks /\ t = state.taken
  OBVIOUS
<1>3. Shape(e, m, t, P, n) /\ AreBlocks(bs, e, m, P, ps)
  BY <1>1, <1>2 DEF PoolAt
<1>4. m \in Nat /\ t \in 0..n /\ n \in Nat /\ e[0] = 0 /\ e[m] = t
  BY <1>3 DEF Shape, Cuts
<1>5. t = n /\ LastTwoRise(P, e, m)
  <2>1. CASE 2 * t - m >= 2 * n
    <3>1. m = 0 /\ t = n
      BY <1>4, <2>1
    <3> QED
      BY <3>1 DEF LastTwoRise
  <2>2. CASE Finished(state, n)
    BY <1>2, <1>3, <2>2, ViolatesIs DEF Finished
  <2> QED
    BY <1>1, <1>2, <2>1, <2>2
<1>6. \A k \in 1..m - 1 : Rises(P, e[k - 1], e[k], e[k + 1])
  <2> TAKE k \in 1..m - 1
  <2>1. CASE k \in 1..m - 2
    BY <1>3, <2>1 DEF Shape
  <2>2. CASE k \notin 1..m - 2
    <3>1. m >= 2 /\ k - 1 = m - 2 /\ k = m - 1 /\ k + 1 = m
      BY <1>4, <2>2
    <3> QED
      BY <1>5, <3>1 DEF LastTwoRise
  <2> QED
    BY <2>1, <2>2
<1>7. Pooled(P, e, m, n)
  BY <1>3, <1>5, <1>6 DEF Shape, Pooled
<1> QED
  BY <1>2, <1>3, <1>7

(***************************************************************************)
(* The curve of a list of points.                                          *)
(***************************************************************************)

\* The last point of its score.
LastOfScore(ps, n, i) == i = n \/ ps[i].x # ps[i + 1].x
RisingScores(ps, n) ==
    /\ \A a \in 1..n : ps[a].x \in Int
    /\ \A a, c \in 1..n : a <= c => ps[a].x <= ps[c].x

CurveOf(bs) == [i \in DOMAIN bs |-> [left |-> bs[i].left, mean |-> (bs[i].sum * One) \div bs[i].count]]

LEMMA CurveAt ==
  ASSUME NEW P, NEW e, NEW m, NEW n, Pooled(P, e, m, n), NEW bs, NEW ps, AreBlocks(bs, e, m, P, ps),
         RisingScores(ps, n), NEW i \in 1..n, LastOfScore(ps, n, i), NEW k \in 1..m, e[k - 1] < i, i <= e[k]
  PROVE  EvalIsotonic(CurveOf(bs), ps[i].x) = (Sum(P, e, k) * One) \div Size(e, k)
<1>1. m \in Nat /\ n \in Nat /\ Cuts(e, m, n, n) /\ \A l \in 0..m : e[l] \in 0..n
  BY GroupsAre DEF Pooled, Cuts
<1>2. DOMAIN bs = 1..m /\ Len(bs) = m
  BY ListDomain DEF AreBlocks
<1>3. PICK curve, x : curve = CurveOf(bs) /\ x = ps[i].x
  OBVIOUS
<1>4. /\ DOMAIN curve = 1..m
      /\ \A l \in 1..m : curve[l].left = ps[e[l - 1] + 1].x
      /\ \A l \in 1..m : curve[l].mean = (Sum(P, e, l) * One) \div Size(e, l)
  <2>1. DOMAIN curve = 1..m /\ \A l \in 1..m : curve[l] = [left |-> bs[l].left, mean |-> (bs[l].sum * One) \div bs[l].count]
    BY <1>2, <1>3 DEF CurveOf
  <2>2. \A l \in 1..m : curve[l].left = bs[l].left /\ curve[l].mean = (bs[l].sum * One) \div bs[l].count
    BY <2>1
  <2> QED
    BY <2>1, <2>2 DEF AreBlocks
<1>5. ASSUME NEW l \in 1..m
      PROVE  curve[l].left <= x <=> l <= k
  <2>1. l - 1 \in 0..m /\ l \in 0..m /\ k - 1 \in 0..m /\ k \in 0..m
    BY <1>1
  <2>2. e[l - 1] < e[l] /\ e[l - 1] \in 0..n /\ e[l] \in 0..n
    BY <1>1, <2>1 DEF Cuts
  <2>3. e[l - 1] + 1 \in 1..n
    BY <1>1, <2>2
  <2>4. PICK a : a = e[l - 1] + 1
    OBVIOUS
  <2>5. a \in 1..n /\ curve[l].left = ps[a].x
    BY <1>4, <2>3, <2>4
  <2>6. CASE l <= k
    <3>1. e[l - 1] <= e[k - 1]
      <4>1. l = k \/ l - 1 < k - 1
        BY <2>6
      <4>2. l - 1 < k - 1 => e[l - 1] < e[k - 1]
        BY <1>1, <2>1, CutsRise
      <4>3. e[l - 1] \in Int /\ e[k - 1] \in Int
        BY <1>1, <2>1
      <4> QED
        BY <4>1, <4>2, <4>3
    <3>2. a <= i
      <4>1. e[l - 1] \in Int /\ e[k - 1] \in Int
        BY <1>1, <2>1
      <4> QED
        BY <2>4, <3>1, <4>1
    <3>3. ps[a].x <= ps[i].x
      BY <2>5, <3>2 DEF RisingScores
    <3> QED
      BY <1>3, <2>5, <2>6, <3>3
  <2>7. CASE ~(l <= k)
    <3>1. e[k] <= e[l - 1]
      <4>1. k = l - 1 \/ k < l - 1
        BY <1>1, <2>7
      <4>2. k < l - 1 => e[k] < e[l - 1]
        BY <1>1, <2>1, CutsRise
      <4>3. e[l - 1] \in Int /\ e[k] \in Int
        BY <1>1, <2>1
      <4> QED
        BY <4>1, <4>2, <4>3
    <3>2. i + 1 <= a /\ i + 1 \in 1..n
      <4>1. e[l - 1] \in Int /\ e[k] \in Int
        BY <1>1, <2>1
      <4> QED
        BY <1>1, <2>4, <2>5, <3>1, <4>1
    <3>3. ps[i].x # ps[i + 1].x
      BY <1>1, <3>2 DEF LastOfScore
    <3>4. ps[i].x <= ps[i + 1].x /\ ps[i + 1].x <= ps[a].x
      BY <2>5, <3>2 DEF RisingScores
    <3>5. ps[i].x \in Int /\ ps[i + 1].x \in Int /\ ps[a].x \in Int
      BY <2>5, <3>2 DEF RisingScores
    <3> QED
      BY <1>3, <2>5, <2>7, <3>3, <3>4, <3>5
  <2> QED
    BY <2>6, <2>7
<1>6. PICK below : below = {l \in DOMAIN curve : \A j \in 1..l : curve[j].left <= x}
  OBVIOUS
<1>7. below = 1..k
  <2>1. ASSUME NEW l \in 1..m
        PROVE  (\A j \in 1..l : curve[j].left <= x) <=> l <= k
    <3>1. \A j \in 1..l : j \in 1..m
      BY <1>1
    <3>2. CASE l <= k
      BY <1>5, <3>1, <3>2
    <3>3. CASE ~(l <= k)
      <4>1. l \in 1..l
        OBVIOUS
      <4> QED
        BY <1>5, <3>3, <4>1
    <3> QED
      BY <3>2, <3>3
  <2>2. \A l : l \in below <=> l \in 1..m /\ l <= k
    BY <1>4, <1>6, <2>1
  <2>3. \A l : l \in 1..k <=> l \in 1..m /\ l <= k
    BY <1>1
  <2> QED
    BY <2>2, <2>3
<1>8. Greatest(below) = k
  <2>1. k \in below /\ \A l \in below : k >= l
    BY <1>7
  <2>2. Greatest(below) \in below /\ \A l \in below : Greatest(below) >= l
    BY <2>1 DEF Greatest
  <2> QED
    BY <1>7, <2>1, <2>2
<1>9. curve # <<>>
  <2>1. k \in DOMAIN curve
    BY <1>4
  <2>2. DOMAIN <<>> = {}
    BY EmptyList
  <2>3. DOMAIN curve # {}
    BY <2>1
  <2> QED
    BY <2>2, <2>3
<1>10. below # {}
  <2>1. k \in 1..k
    BY <1>1
  <2> QED
    BY <1>7, <2>1
<1>11. EvalIsotonic(curve, x) = curve[k].mean
  BY <1>6, <1>8, <1>9, <1>10 DEF EvalIsotonic
<1> QED
  BY <1>3, <1>4, <1>11

\* The sum of neighbours is a difference of totals.
Window(ps, a, c) == [k \in 1..(c - a + 1) |-> ps[a + k - 1].y]

LEMMA WindowSum ==
  ASSUME NEW P, NEW ps, NEW n, Summed(P, ps, n), NEW a \in 1..n, NEW c \in 1..n, a <= c
  PROVE  SumSeq(Window(ps, a, c)) = P[c] - P[a - 1]
<1>1. n \in Nat /\ Running(P, n)
  BY DEF Summed, Running
<1>2. PICK l, w : l = c - a + 1 /\ w = [k \in 1..l |-> ps[a + k - 1].y]
  OBVIOUS
<1>3. l \in Nat /\ l > 0
  BY <1>2
<1>4. \A k \in 1..l : a + k - 1 \in 1..n /\ w[k] = ps[a + k - 1].y /\ w[k] \in Int
  <2> TAKE k \in 1..l
  <2>1. a + k - 1 \in 1..n
    BY <1>1, <1>2, <1>3
  <2>2. w[k] = ps[a + k - 1].y
    BY <1>2
  <2> QED
    BY <2>1, <2>2 DEF Summed
<1>5. Numbers(w, l)
  <2>1. w \in [1..l -> Int]
    BY <1>2, <1>4
  <2>2. Len(w) = l
    BY <1>3, <2>1, ListOf
  <2> QED
    BY <1>3, <1>4, <2>2 DEF Numbers
<1>6. PICK f : f = Totals(w)
  OBVIOUS
<1>7. f[0] = 0 /\ SumSeq(w) = f[l] /\ (\A k \in 1..l : f[k] = f[k - 1] + w[k]) /\ \A k \in 0..l : f[k] \in Int
  BY <1>5, <1>6, TotalsAre
<1>8. PICK S : S = {k \in 0..l : f[k] = P[a + k - 1] - P[a - 1]}
  OBVIOUS
<1>9. 0 \in S
  <2>1. a + 0 - 1 = a - 1 /\ a - 1 \in 0..n
    BY <1>1
  <2>2. P[a - 1] \in Int
    BY <1>1, <2>1 DEF Running
  <2>3. f[0] = P[a - 1] - P[a - 1]
    BY <1>7, <2>2
  <2> QED
    BY <1>3, <1>8, <2>1, <2>3
<1>10. ASSUME NEW k \in 0..l, k < l, k \in S
       PROVE  k + 1 \in S
  <2>1. k + 1 \in 1..l /\ k + 1 \in 0..l /\ (k + 1) - 1 = k
    BY <1>3, <1>10
  <2>2. PICK j : j = a + k
    OBVIOUS
  <2>3. j \in 1..n /\ j = a + (k + 1) - 1 /\ a + k - 1 = j - 1 /\ j - 1 \in 0..n /\ a - 1 \in 0..n /\ j \in 0..n
    BY <1>1, <1>2, <1>10, <2>2
  <2>4. f[k + 1] = f[k] + ps[j].y
    BY <1>4, <1>7, <2>1, <2>3
  <2>5. P[j] = P[j - 1] + ps[j].y /\ ps[j].y \in Int
    BY <2>3 DEF Summed
  <2>6. f[k] = P[j - 1] - P[a - 1]
    BY <1>8, <1>10, <2>3
  <2>7. P[j - 1] \in Int /\ P[a - 1] \in Int
    BY <1>1, <2>3 DEF Running
  <2>8. f[k + 1] = P[j] - P[a - 1]
    BY <2>4, <2>5, <2>6, <2>7
  <2> QED
    BY <1>8, <2>1, <2>3, <2>8
<1>11. \A k \in 0..l : k \in S
  BY <1>3, <1>9, <1>10, UpTo
<1>12. l \in S /\ a + l - 1 = c
  BY <1>2, <1>3, <1>11
<1> QED
  BY <1>2, <1>7, <1>8, <1>12 DEF Window

\* The sort of the points is by score.
LEMMA SortedRises ==
  ASSUME NEW ps, Points(ps), NEW sorted, sorted = Sorted(ps, DOMAIN ps, ByScore)
  PROVE  Points(sorted) /\ Len(sorted) = Len(ps) /\ RisingScores(sorted, Len(ps))
<1>1. PICK D, n, less : D = DOMAIN ps /\ n = Len(ps) /\ less = Less(ps, D, ByScore)
  OBVIOUS
<1>2. IsFiniteSet(D) /\ D \subseteq Int /\ Cardinality(D) = n /\ n \in Nat
  BY <1>1, ListDomain DEF Points
<1>3. \A i, j \in D : <<i, j>> \in less <=> ps[i].x < ps[j].x
  <2> TAKE i \in D, j \in D
  <2>1. PICK p : p = <<i, j>>
    OBVIOUS
  <2>2. p[1] = i /\ p[2] = j /\ p \in D \X D
    BY <2>1
  <2> QED
    BY <1>1, <2>1, <2>2 DEF Less, ByScore
<1>4. \A i \in D : ps[i].x \in Int
  BY <1>1 DEF Points
<1>5. WeakOrder(D, less)
  BY <1>3, <1>4 DEF WeakOrder
<1>6. PICK t : t = Arranged(ps, D, Stable(D, less))
  OBVIOUS
<1>7. PICK at : Lists(t, ps, D, at) /\ \A k, l \in 1..n : k < l => <<at[l], at[k]>> \notin less
  BY <1>2, <1>5, <1>6, SortedLists
<1>8. t = sorted
  BY <1>1, <1>6 DEF Sorted
<1>9. Points(sorted)
  BY SortedPoints
<1>10. Len(t) = n /\ at \in [1..n -> D] /\ \A k \in 1..n : t[k] = ps[at[k]]
  BY <1>2, <1>7 DEF Lists
<1>11. RisingScores(t, n)
  <2>1. \A a \in 1..n : at[a] \in D /\ t[a].x = ps[at[a]].x /\ t[a].x \in Int
    BY <1>4, <1>10
  <2>2. ASSUME NEW a \in 1..n, NEW c \in 1..n, a <= c
        PROVE  t[a].x <= t[c].x
    <3>1. CASE a = c
      <4>1. t[a].x \in Int
        BY <2>1
      <4> QED
        BY <3>1, <4>1
    <3>2. CASE a < c
      <4>1. <<at[c], at[a]>> \notin less
        BY <1>7, <3>2
      <4>2. ~(ps[at[c]].x < ps[at[a]].x)
        BY <1>3, <2>1, <4>1
      <4>3. t[a].x \in Int /\ t[c].x \in Int /\ ~(t[c].x < t[a].x)
        BY <2>1, <4>2
      <4> QED
        BY <4>3
    <3> QED
      BY <1>2, <2>2, <3>1, <3>2
  <2> QED
    BY <2>1, <2>2 DEF RisingScores
<1> QED
  BY <1>1, <1>8, <1>9, <1>10, <1>11

\* The totals of the truths.
LEMMA TruthTotals ==
  ASSUME NEW ps, Points(ps), NEW n, n = Len(ps)
  PROVE  \E P : Summed(P, ps, n) /\ Growing(P, n)
<1>1. n \in Nat /\ DOMAIN ps = 1..n
  BY ListDomain DEF Points
<1>2. PICK y, P : y = [k \in 1..n |-> ps[k].y] /\ P = Totals(y)
  OBVIOUS
<1>3. \A k \in 1..n : y[k] = ps[k].y /\ y[k] \in Nat
  BY <1>1, <1>2 DEF Points
<1>4. Numbers(y, n)
  <2>1. y \in [1..n -> Nat]
    BY <1>2, <1>3
  <2>2. Len(y) = n
    BY <1>1, <2>1, ListOf
  <2> QED
    BY <1>1, <1>3, <2>2 DEF Numbers
<1>5. P[0] = 0 /\ (\A k \in 1..n : P[k] = P[k - 1] + y[k]) /\ \A k \in 0..n : P[k] \in Int
  BY <1>2, <1>4, TotalsAre
<1>6. Summed(P, ps, n)
  BY <1>1, <1>3, <1>5 DEF Summed, Running
<1>7. PICK S : S = {k \in 0..n : \A l \in 0..k : P[l] <= P[k]}
  OBVIOUS
<1>8. 0 \in S
  BY <1>1, <1>5, <1>7
<1>9. ASSUME NEW k \in 0..n, k < n, k \in S
      PROVE  k + 1 \in S
  <2>1. k + 1 \in 1..n /\ k + 1 \in 0..n /\ (k + 1) - 1 = k
    BY <1>1, <1>9
  <2>2. P[k + 1] = P[k] + y[k + 1] /\ y[k + 1] \in Nat /\ P[k] \in Int /\ P[k + 1] \in Int
    BY <1>3, <1>5, <2>1
  <2>3. ASSUME NEW l \in 0..k + 1
        PROVE  P[l] <= P[k + 1]
    <3>1. l \in 0..n /\ P[l] \in Int
      BY <1>1, <1>5, <2>1
    <3>2. CASE l = k + 1
      BY <2>2, <3>2
    <3>3. CASE l # k + 1
      <4>1. l \in 0..k
        BY <1>1, <3>3
      <4>2. P[l] <= P[k]
        BY <1>7, <1>9, <4>1
      <4> QED
        BY <2>2, <3>1, <4>2
    <3> QED
      BY <3>2, <3>3
  <2> QED
    BY <1>7, <2>1, <2>3
<1>10. \A k \in 0..n : k \in S
  BY <1>1, <1>8, <1>9, UpTo
<1>11. Growing(P, n)
  <2> SUFFICES ASSUME NEW a \in 0..n, NEW c \in 0..n, a <= c PROVE P[a] <= P[c]
    BY DEF Growing
  <2>1. a \in 0..c
    OBVIOUS
  <2> QED
    BY <1>7, <1>10, <2>1
<1> QED
  BY <1>6, <1>11

\* The fitted value, by its definition.
MeanOf(ps, a, c) == (SumSeq(Window(ps, a, c)) * One) \div (c - a + 1)
Fitted(ps, n, i) == Greatest({Least({MeanOf(ps, a, c) : c \in i..n}) : a \in 1..i})

LEMMA IsotonicFits ==
  ASSUME NEW ps, Points(ps), NEW sorted, sorted = Sorted(ps, DOMAIN ps, ByScore), NEW n, n = Len(sorted),
         NEW i \in 1..n, LastOfScore(sorted, n, i)
  PROVE  EvalIsotonic(Isotonic(ps), sorted[i].x) = Fitted(sorted, n, i)
<1>1. Points(sorted) /\ n = Len(ps) /\ RisingScores(sorted, n)
  BY SortedRises
<1>2. n \in Nat
  BY <1>1, ListDomain DEF Points
<1>3. PICK P : Summed(P, sorted, n) /\ Growing(P, n)
  BY <1>1, TruthTotals
<1>4. PICK u : u = 2 * n
  OBVIOUS
<1>5. u \in Nat
  BY <1>2, <1>4
<1>6. PICK f : f = CHOOSE g : Pools(g, sorted, u)
  OBVIOUS
<1>7. Pools(f, sorted, u)
  BY <1>5, <1>6, PoolsExist
<1>8. PICK bs : bs = f[u].blocks
  OBVIOUS
<1>9. Isotonic(ps) = CurveOf(bs)
  BY <1>1, <1>4, <1>6, <1>8 DEF Isotonic, Pools, NoBlocks, CurveOf
<1>10. AtTurn(f[u], u, P, sorted, n)
  <2>1. PICK S : S = {k \in 0..u : AtTurn(f[k], k, P, sorted, n)}
    OBVIOUS
  <2>2. 0 \in S
    <3>1. f[0] = NoBlocks /\ 0 \in 0..u
      BY <1>5, <1>7 DEF Pools
    <3> QED
      BY <1>3, <2>1, <3>1, FirstTurn
  <2>3. ASSUME NEW k \in 0..u, k < u, k \in S
        PROVE  k + 1 \in S
    <3>1. k + 1 \in 0..u /\ k + 1 # 0 /\ (k + 1) - 1 = k /\ k \in Nat
      BY <1>5, <2>3
    <3>2. f[k + 1] = Turn(f[k], sorted)
      BY <1>7, <3>1 DEF Pools
    <3>3. AtTurn(f[k], k, P, sorted, n)
      BY <2>1, <2>3
    <3>4. AtTurn(Turn(f[k], sorted), k + 1, P, sorted, n)
      BY <1>3, <3>1, <3>3, NextTurn
    <3> QED
      BY <2>1, <3>1, <3>2, <3>4
  <2>4. \A k \in 0..u : k \in S
    BY <1>5, <2>2, <2>3, UpTo
  <2>5. u \in 0..u
    BY <1>5
  <2> QED
    BY <2>1, <2>4, <2>5
<1>11. PICK e, m : Pooled(P, e, m, n) /\ AreBlocks(bs, e, m, P, sorted)
  BY <1>3, <1>4, <1>8, <1>10, LastTurn
<1>12. PICK k \in 1..m : e[k - 1] < i /\ i <= e[k]
  BY <1>11, CutsCover DEF Pooled
<1>13. EvalIsotonic(Isotonic(ps), sorted[i].x) = (Sum(P, e, k) * One) \div Size(e, k)
  BY <1>1, <1>9, <1>11, <1>12, CurveAt
<1>14. MinMax(P, n, i) = (Sum(P, e, k) * One) \div Size(e, k)
  BY <1>3, <1>11, <1>12, GroupFits
<1>15. ASSUME NEW a \in 1..i, NEW c \in i..n
       PROVE  Mean(P, a, c) = MeanOf(sorted, a, c)
  <2>1. a \in 1..n /\ c \in 1..n /\ a <= c
    BY <1>2
  <2>2. SumSeq(Window(sorted, a, c)) = P[c] - P[a - 1]
    BY <1>3, <2>1, WindowSum
  <2> QED
    BY <2>2 DEF Mean, MeanOf
<1>16. \A a \in 1..i : {Mean(P, a, c) : c \in i..n} = {MeanOf(sorted, a, c) : c \in i..n}
  BY <1>15
<1>17. \A a \in 1..i : Least({Mean(P, a, c) : c \in i..n}) = Least({MeanOf(sorted, a, c) : c \in i..n})
  BY <1>16
<1>18. {Least({Mean(P, a, c) : c \in i..n}) : a \in 1..i} = {Least({MeanOf(sorted, a, c) : c \in i..n}) : a \in 1..i}
  <2>1. PICK p, q : /\ p = [a \in 1..i |-> Least({Mean(P, a, c) : c \in i..n})]
                    /\ q = [a \in 1..i |-> Least({MeanOf(sorted, a, c) : c \in i..n})]
    OBVIOUS
  <2>2. p = q
    BY <1>17, <2>1
  <2>3. {p[a] : a \in 1..i} = {Least({Mean(P, a, c) : c \in i..n}) : a \in 1..i}
    BY <2>1
  <2>4. {q[a] : a \in 1..i} = {Least({MeanOf(sorted, a, c) : c \in i..n}) : a \in 1..i}
    BY <2>1
  <2> QED
    BY <2>2, <2>3, <2>4
<1>19. MinMax(P, n, i) = Fitted(sorted, n, i)
  BY <1>18 DEF MinMax, Fitted
<1> QED
  BY <1>13, <1>14, <1>19

(***************************************************************************)
(* Samples that share a score.  Where none of them has a wrong guess       *)
(* before a right one, runs that begin and end with whole scores are       *)
(* enough.                                                                 *)
(***************************************************************************)

FirstOf(ps, n) == {i \in 1..n : \A k \in 1..n : k < i => ps[k].x # ps[i].x}
LastOf(ps, n) == {i \in 1..n : \A k \in 1..n : k > i => ps[k].x # ps[i].x}
WrongFirst(ps, n) == \E k, l \in 1..n : k < l /\ ps[k].x = ps[l].x /\ ps[k].y < ps[l].y
FittedOver(ps, i, begins, ends) ==
    Greatest({Least({MeanOf(ps, a, c) : c \in {k \in ends : k >= i}}) : a \in {k \in begins : k <= i}})

\* The least of numbers some of which are below all others, and the greatest of
\* such.
LEMMA LeastWithin ==
  ASSUME NEW S, S \subseteq Nat, NEW T, T \subseteq S, T # {}, \A x \in S : \E y \in T : y <= x
  PROVE  Least(T) = Least(S) /\ Least(T) \in T /\ \A x \in S : Least(T) <= x
<1>1. PICK v \in T : \A y \in T : v <= y
  BY LeastOf
<1>2. Least(T) \in T /\ \A y \in T : Least(T) <= y
  BY <1>1 DEF Least
<1>3. ASSUME NEW x \in S PROVE Least(T) <= x
  <2>1. PICK y \in T : y <= x
    OBVIOUS
  <2>2. Least(T) \in Nat /\ y \in Nat /\ x \in Nat /\ Least(T) <= y
    BY <1>2
  <2> QED
    BY <2>1, <2>2
<1>4. Least(S) \in S /\ \A y \in S : Least(S) <= y
  <2>1. \E x \in S : \A y \in S : x <= y
    BY <1>2, <1>3
  <2> QED
    BY <2>1 DEF Least
<1>5. Least(T) = Least(S)
  <2>1. Least(T) \in Nat /\ Least(S) \in Nat /\ Least(T) <= Least(S) /\ Least(S) <= Least(T)
    BY <1>2, <1>3, <1>4
  <2> QED
    BY <2>1
<1> QED
  BY <1>2, <1>3, <1>5

LEMMA GreatestWithin ==
  ASSUME NEW S, S \subseteq Nat, IsFiniteSet(S), NEW T, T \subseteq S, T # {}, \A x \in S : \E y \in T : x <= y
  PROVE  Greatest(T) = Greatest(S)
<1>1. IsFiniteSet(T) /\ T \subseteq Int
  <2>1. IsFiniteSet(T)
    BY FS_Subset
  <2> QED
    BY <2>1
<1>2. PICK v \in T : \A y \in T : v >= y
  BY <1>1, BoundsOf
<1>3. Greatest(T) \in T /\ \A y \in T : Greatest(T) >= y
  BY <1>2 DEF Greatest
<1>4. ASSUME NEW x \in S PROVE Greatest(T) >= x
  <2>1. PICK y \in T : x <= y
    OBVIOUS
  <2>2. Greatest(T) \in Nat /\ y \in Nat /\ x \in Nat /\ Greatest(T) >= y
    BY <1>3
  <2> QED
    BY <2>1, <2>2
<1>5. Greatest(S) \in S /\ \A y \in S : Greatest(S) >= y
  <2>1. \E x \in S : \A y \in S : x >= y
    BY <1>3, <1>4
  <2> QED
    BY <2>1 DEF Greatest
<1>6. Greatest(T) \in Nat /\ Greatest(S) \in Nat /\ Greatest(T) >= Greatest(S) /\ Greatest(S) >= Greatest(T)
  BY <1>3, <1>4, <1>5
<1> QED
  BY <1>6

\* Every number of a row has one of C0 below it, and the least of every row is
\* below that of a row of A0.
Suffice(A0, C0, A, C, M) ==
    /\ IsFiniteSet(A) /\ A0 \subseteq A /\ A0 # {} /\ C0 \subseteq C /\ C0 # {}
    /\ \A a \in A : \A c \in C : M[a][c] \in Nat
    /\ \A a \in A : \A c \in C : \E d \in C0 : M[a][d] <= M[a][c]
    /\ \A a \in A : \E b \in A0 : \A c \in C0 : \E d \in C0 : M[a][d] <= M[b][c]

GreatestLeast(A, C, M) == Greatest({Least({M[a][c] : c \in C}) : a \in A})

LEMMA SameMinMax ==
  ASSUME NEW A0, NEW C0, NEW A, NEW C, NEW M, Suffice(A0, C0, A, C, M)
  PROVE  GreatestLeast(A0, C0, M) = GreatestLeast(A, C, M)
<1>1. PICK least : least = [a \in A |-> Least({M[a][c] : c \in C0})]
  OBVIOUS
<1>2. ASSUME NEW a \in A
      PROVE  /\ least[a] = Least({M[a][c] : c \in C}) /\ least[a] \in {M[a][c] : c \in C0}
             /\ \A c \in C : least[a] <= M[a][c]
  <2>1. PICK S, T : S = {M[a][c] : c \in C} /\ T = {M[a][c] : c \in C0}
    OBVIOUS
  <2>2. S \subseteq Nat /\ T \subseteq S /\ T # {} /\ \A x \in S : \E y \in T : y <= x
    BY <2>1 DEF Suffice
  <2>3. Least(T) = Least(S) /\ Least(T) \in T /\ \A x \in S : Least(T) <= x
    BY <2>2, LeastWithin
  <2> QED
    BY <1>1, <2>1, <2>3
<1>3. PICK S, T : S = {least[a] : a \in A} /\ T = {least[a] : a \in A0}
  OBVIOUS
<1>4. \A a \in A : least[a] \in Nat
  <2>1. \A a \in A : \A c \in C0 : M[a][c] \in Nat
    BY DEF Suffice
  <2> QED
    BY <1>2, <2>1
<1>5. ASSUME NEW a \in A
      PROVE  \E b \in A0 : least[a] <= least[b]
  <2>1. PICK b \in A0 : \A c \in C0 : \E d \in C0 : M[a][d] <= M[b][c]
    BY DEF Suffice
  <2>2. PICK c \in C0 : least[b] = M[b][c]
    BY <1>2 DEF Suffice
  <2>3. PICK d \in C0 : M[a][d] <= M[b][c]
    BY <2>1
  <2>4. least[a] <= M[a][d] /\ least[a] \in Nat /\ M[a][d] \in Nat /\ M[b][c] \in Nat
    BY <1>2, <1>4 DEF Suffice
  <2>5. least[a] <= least[b]
    BY ONLY <2>2, <2>3, <2>4
  <2> QED
    BY <2>5
<1>6. S \subseteq Nat /\ T \subseteq S /\ T # {} /\ \A x \in S : \E y \in T : x <= y
  BY <1>3, <1>4, <1>5 DEF Suffice
<1>7. IsFiniteSet(S)
  <2>1. least \in [A -> S] /\ \A z \in S : \E a \in A : least[a] = z
    BY <1>1, <1>3
  <2>2. least \in Surjection(A, S)
    BY <2>1, Fun_IsSurj
  <2> QED
    BY <2>2, FS_Surjection DEF Suffice
<1>8. Greatest(T) = Greatest(S)
  BY <1>6, <1>7, GreatestWithin
<1>9. S = {Least({M[a][c] : c \in C}) : a \in A}
  <2>1. \A a \in A : least[a] = Least({M[a][c] : c \in C})
    BY <1>2
  <2> QED
    BY <1>3, <2>1
<1>10. T = {Least({M[a][c] : c \in C0}) : a \in A0}
  BY <1>1, <1>3 DEF Suffice
<1> QED
  BY <1>8, <1>9, <1>10 DEF GreatestLeast

\* A run of wrong guesses more lowers the mean, a run of right ones raises it.
LEMMA WrongLowers ==
  ASSUME NEW x \in Nat, NEW w \in Nat, w > 0, NEW d \in Nat
  PROVE  (x * One) \div (w + d) <= (x * One) \div w
<1>1. x * w <= x * (w + d)
  BY Multiplied
<1> QED
  BY <1>1, QuotientsRise

LEMMA RightRaises ==
  ASSUME NEW x \in Nat, NEW w \in Nat, w > 0, x <= w, NEW d \in Nat
  PROVE  (x * One) \div w <= ((x + d) * One) \div (w + d)
<1>1. d * x <= d * w
  BY Multiplied
<1>2. x * (w + d) = x * w + d * x /\ (x + d) * w = x * w + d * w /\ x * w \in Int /\ d * x \in Int /\ d * w \in Int
  OBVIOUS
<1>3. x * (w + d) <= (x + d) * w
  BY <1>1, <1>2
<1>4. x + d \in Nat /\ w + d \in Nat /\ w + d > 0
  OBVIOUS
<1> QED
  BY <1>3, <1>4, QuotientsRise

\* The total of a run of one truth.
RunOf(v, ps, n, a, c) ==
    a \in 0..n /\ c \in 0..n /\ a <= c /\ \A k \in 1..n : a < k /\ k <= c => ps[k].y = v

LEMMA RunTotal ==
  ASSUME NEW P, NEW ps, NEW n, Summed(P, ps, n), NEW v \in 0..1, NEW a, NEW c, RunOf(v, ps, n, a, c)
  PROVE  P[c] - P[a] = v * (c - a)
<1>1. n \in Nat /\ (\A k \in 0..n : P[k] \in Int) /\ a \in 0..n /\ c \in 0..n /\ a <= c
  BY DEF Summed, Running, RunOf
<1>2. PICK S, m : m = c - a /\ S = {d \in 0..m : P[a + d] - P[a] = v * d}
  OBVIOUS
<1>3. m \in Nat /\ 0 \in S
  BY <1>1, <1>2
<1>4. ASSUME NEW d \in 0..m, d < m, d \in S
      PROVE  d + 1 \in S
  <2>1. a + d + 1 \in 1..n /\ a < a + d + 1 /\ a + d + 1 <= c /\ (a + d + 1) - 1 = a + d /\ a + d \in 0..n
    BY <1>1, <1>2, <1>4
  <2>2. P[a + d + 1] = P[a + d] + v
    BY <2>1 DEF Summed, RunOf
  <2>3. v * (d + 1) = v * d + v /\ v * d \in Int
    BY <1>3
  <2>4. P[a + d] \in Int /\ P[a] \in Int /\ P[a + d] - P[a] = v * d
    BY <1>1, <1>2, <1>4, <2>1
  <2>5. a + (d + 1) = a + d + 1 /\ d + 1 \in 0..m
    BY <1>1, <1>3, <1>4
  <2> QED
    BY <1>2, <2>2, <2>3, <2>4, <2>5
<1>5. \A d \in 0..m : d \in S
  BY <1>3, <1>4, UpTo
<1>6. m \in S /\ a + m = c
  BY <1>1, <1>2, <1>3, <1>5
<1> QED
  BY <1>2, <1>6

\* Right and wrong samples, with their totals.
Judged(P, ps, n) ==
    /\ Summed(P, ps, n) /\ Growing(P, n) /\ n \in Nat
    /\ \A k \in 1..n : ps[k].x \in Int /\ ps[k].y \in 0..1

\* A run of w samples has x right ones.
LEMMA RunMean ==
  ASSUME NEW P, NEW ps, NEW n, Judged(P, ps, n), NEW a \in 1..n, NEW c \in 1..n, a <= c,
         NEW x, x = P[c] - P[a - 1], NEW w, w = c - a + 1
  PROVE  /\ MeanOf(ps, a, c) = (x * One) \div w /\ MeanOf(ps, a, c) \in Nat
         /\ x \in Nat /\ w \in Nat /\ w > 0 /\ x <= w
<1>1. n \in Nat /\ (\A k \in 0..n : P[k] \in Int) /\ a - 1 \in 0..n /\ c \in 0..n /\ w \in Nat /\ w > 0
  BY DEF Judged, Summed, Running
<1>2. SumSeq(Window(ps, a, c)) = x
  BY WindowSum DEF Judged
<1>3. x \in Nat
  <2>1. P[a - 1] <= P[c] /\ P[a - 1] \in Int /\ P[c] \in Int
    BY <1>1 DEF Judged, Growing
  <2> QED
    BY <2>1
<1>4. PICK S : S = {d \in 0..w : P[a - 1 + d] - P[a - 1] <= d}
  OBVIOUS
<1>5. 0 \in S
  BY <1>1, <1>4
<1>6. ASSUME NEW d \in 0..w, d < w, d \in S
      PROVE  d + 1 \in S
  <2>1. a + d \in 1..n /\ (a + d) - 1 = a - 1 + d /\ a - 1 + (d + 1) = a + d /\ a - 1 + d \in 0..n /\ a + d \in 0..n
    BY <1>1, <1>6
  <2>2. P[a + d] = P[(a + d) - 1] + ps[a + d].y /\ ps[a + d].y \in 0..1
    BY <2>1 DEF Judged, Summed
  <2>3. P[a - 1 + d] - P[a - 1] <= d /\ P[a - 1 + d] \in Int /\ P[a - 1] \in Int
    BY <1>1, <1>4, <1>6, <2>1
  <2>4. P[a - 1 + (d + 1)] - P[a - 1] <= d + 1 /\ d + 1 \in 0..w
    BY <1>1, <1>6, <2>1, <2>2, <2>3
  <2> QED
    BY <1>4, <2>4
<1>7. \A d \in 0..w : d \in S
  BY <1>1, <1>5, <1>6, UpTo
<1>8. x <= w
  <2>1. w \in S /\ a - 1 + w = c
    BY <1>1, <1>7
  <2> QED
    BY <1>4, <2>1
<1>9. MeanOf(ps, a, c) = (x * One) \div w
  BY <1>2 DEF MeanOf
<1>10. (x * One) \div w \in Nat
  <2>1. PICK y : y = x * One
    OBVIOUS
  <2>2. y \in Nat
    BY <1>3, <2>1 DEF One
  <2> QED
    BY <1>1, <2>1, <2>2, Division
<1> QED
  BY <1>1, <1>3, <1>8, <1>9, <1>10

\* What a run has to end with, and to begin with, to gain by ending later or
\* beginning earlier.
LEMMA EndMoves ==
  ASSUME NEW P, NEW ps, NEW n, Judged(P, ps, n), NEW a \in 1..n, NEW c \in 1..n, NEW d \in 1..n, a <= c, c <= d
  PROVE  /\ (\A k \in 1..n : c < k /\ k <= d => ps[k].y = 0) => MeanOf(ps, a, d) <= MeanOf(ps, a, c)
         /\ (\A k \in 1..n : c < k /\ k <= d => ps[k].y = 1) => MeanOf(ps, a, c) <= MeanOf(ps, a, d)
<1>1. PICK x, w, z : x = P[c] - P[a - 1] /\ w = c - a + 1 /\ z = d - c
  OBVIOUS
<1>2. MeanOf(ps, a, c) = (x * One) \div w /\ x \in Nat /\ w \in Nat /\ w > 0 /\ x <= w
  BY <1>1, RunMean
<1>3. n \in Nat /\ z \in Nat /\ w + z = d - a + 1 /\ a <= d
  BY <1>1 DEF Judged
<1>4. MeanOf(ps, a, d) = ((P[d] - P[a - 1]) * One) \div (w + z)
  BY <1>3, RunMean
<1>5. c \in 0..n /\ d \in 0..n /\ P[c] \in Int /\ P[d] \in Int /\ P[a - 1] \in Int
  BY <1>3 DEF Judged, Summed, Running
<1>6. ASSUME NEW v \in 0..1, \A k \in 1..n : c < k /\ k <= d => ps[k].y = v
      PROVE  P[d] - P[a - 1] = x + v * z
  <2>1. P[d] - P[c] = v * z
    <3>1. RunOf(v, ps, n, c, d) /\ Summed(P, ps, n)
      BY <1>5, <1>6 DEF RunOf, Judged
    <3> QED
      BY <1>1, <3>1, RunTotal
  <2>2. v * z \in Int
    BY <1>3
  <2> QED
    BY <1>1, <1>5, <2>1, <2>2
<1>7. ASSUME \A k \in 1..n : c < k /\ k <= d => ps[k].y = 0
      PROVE  MeanOf(ps, a, d) <= MeanOf(ps, a, c)
  <2>1. P[d] - P[a - 1] = x
    BY <1>2, <1>3, <1>6, <1>7
  <2> QED
    BY <1>2, <1>3, <1>4, <2>1, WrongLowers
<1>8. ASSUME \A k \in 1..n : c < k /\ k <= d => ps[k].y = 1
      PROVE  MeanOf(ps, a, c) <= MeanOf(ps, a, d)
  <2>1. P[d] - P[a - 1] = x + z
    BY <1>2, <1>3, <1>6, <1>8
  <2> QED
    BY <1>2, <1>3, <1>4, <2>1, RightRaises
<1> QED
  BY <1>7, <1>8

LEMMA BeginMoves ==
  ASSUME NEW P, NEW ps, NEW n, Judged(P, ps, n), NEW a \in 1..n, NEW b \in 1..n, NEW c \in 1..n, a <= b, b <= c
  PROVE  /\ (\A k \in 1..n : a <= k /\ k < b => ps[k].y = 0) => MeanOf(ps, a, c) <= MeanOf(ps, b, c)
         /\ (\A k \in 1..n : a <= k /\ k < b => ps[k].y = 1) => MeanOf(ps, b, c) <= MeanOf(ps, a, c)
<1>1. PICK x, w, z : x = P[c] - P[b - 1] /\ w = c - b + 1 /\ z = b - a
  OBVIOUS
<1>2. MeanOf(ps, b, c) = (x * One) \div w /\ x \in Nat /\ w \in Nat /\ w > 0 /\ x <= w
  BY <1>1, RunMean
<1>3. n \in Nat /\ z \in Nat /\ w + z = c - a + 1 /\ a <= c
  BY <1>1 DEF Judged
<1>4. MeanOf(ps, a, c) = ((P[c] - P[a - 1]) * One) \div (w + z)
  BY <1>3, RunMean
<1>5. /\ a - 1 \in 0..n /\ b - 1 \in 0..n /\ P[c] \in Int /\ P[a - 1] \in Int /\ P[b - 1] \in Int
      /\ a - 1 <= b - 1 /\ (b - 1) - (a - 1) = z
  BY <1>1, <1>3 DEF Judged, Summed, Running
<1>6. ASSUME NEW v \in 0..1, \A k \in 1..n : a <= k /\ k < b => ps[k].y = v
      PROVE  P[c] - P[a - 1] = x + v * z
  <2>1. \A k \in 1..n : a - 1 < k /\ k <= b - 1 => ps[k].y = v
    BY <1>6
  <2>2. P[b - 1] - P[a - 1] = v * z
    <3>1. PICK l, r : l = a - 1 /\ r = b - 1
      OBVIOUS
    <3>2. RunOf(v, ps, n, l, r) /\ Summed(P, ps, n) /\ r - l = z
      BY <1>5, <2>1, <3>1 DEF RunOf, Judged
    <3>3. P[r] - P[l] = v * (r - l)
      BY <3>2, RunTotal
    <3> QED
      BY <3>1, <3>2, <3>3
  <2>3. v * z \in Int
    BY <1>3
  <2> QED
    BY <1>1, <1>5, <2>2, <2>3
<1>7. ASSUME \A k \in 1..n : a <= k /\ k < b => ps[k].y = 0
      PROVE  MeanOf(ps, a, c) <= MeanOf(ps, b, c)
  <2>1. P[c] - P[a - 1] = x
    BY <1>2, <1>3, <1>6, <1>7
  <2> QED
    BY <1>2, <1>3, <1>4, <2>1, WrongLowers
<1>8. ASSUME \A k \in 1..n : a <= k /\ k < b => ps[k].y = 1
      PROVE  MeanOf(ps, b, c) <= MeanOf(ps, a, c)
  <2>1. P[c] - P[a - 1] = x + z
    BY <1>2, <1>3, <1>6, <1>8
  <2> QED
    BY <1>2, <1>3, <1>4, <2>1, RightRaises
<1> QED
  BY <1>7, <1>8

\* A run of wrong guesses is below any other.
LEMMA NoneRight ==
  ASSUME NEW P, NEW ps, NEW n, Judged(P, ps, n), NEW a \in 1..n, NEW c \in 1..n, a <= c,
         \A k \in 1..n : a <= k /\ k <= c => ps[k].y = 0,
         NEW b \in 1..n, NEW d \in 1..n, b <= d
  PROVE  MeanOf(ps, a, c) <= MeanOf(ps, b, d)
<1>1. PICK w, x, z : w = c - a + 1 /\ x = P[d] - P[b - 1] /\ z = d - b + 1
  OBVIOUS
<1>2. P[c] - P[a - 1] = 0
  <2>1. n \in Nat /\ a - 1 \in 0..n /\ c \in 0..n /\ a - 1 <= c
    BY DEF Judged
  <2>2. \A k \in 1..n : a - 1 < k /\ k <= c => ps[k].y = 0
    OBVIOUS
  <2>3. P[c] - P[a - 1] = 0 * (c - (a - 1))
    <3>1. RunOf(0, ps, n, a - 1, c) /\ Summed(P, ps, n)
      BY <2>1, <2>2 DEF RunOf, Judged
    <3> QED
      BY <3>1, RunTotal
  <2> QED
    BY <2>1, <2>3
<1>3. MeanOf(ps, a, c) = (0 * One) \div w /\ w \in Nat /\ w > 0
  BY <1>1, <1>2, RunMean
<1>4. MeanOf(ps, b, d) = (x * One) \div z /\ x \in Nat /\ z \in Nat /\ z > 0
  BY <1>1, RunMean
<1>5. 0 * z <= x * w
  <2>1. w * 0 <= w * x
    BY <1>3, <1>4, Multiplied
  <2> QED
    BY <1>3, <1>4, <2>1
<1> QED
  BY <1>3, <1>4, <1>5, QuotientsRise

\* The samples of one score lie together.
LEMMA TieOf ==
  ASSUME NEW ps, NEW n \in Nat, RisingScores(ps, n), NEW c \in 1..n
  PROVE  \E s \in FirstOf(ps, n), t \in LastOf(ps, n) : s <= c /\ c <= t /\ \A k \in s..t : ps[k].x = ps[c].x
<1>1. PICK S : S = {k \in 1..n : ps[k].x = ps[c].x}
  OBVIOUS
<1>2. IsFiniteSet(S) /\ S \subseteq Int /\ S # {}
  <2>1. S \subseteq 1..n /\ c \in S
    BY <1>1
  <2>2. IsFiniteSet(1..n)
    BY FS_Interval
  <2>3. IsFiniteSet(S)
    BY <2>1, <2>2, FS_Subset
  <2> QED
    BY <2>1, <2>3
<1>3. PICK s \in S, t \in S : \A k \in S : s <= k /\ k <= t
  <2>1. (\E s \in S : \A k \in S : s <= k) /\ \E t \in S : \A k \in S : t >= k
    BY <1>2, BoundsOf
  <2>2. \A t, k \in S : t >= k => k <= t
    BY <1>2
  <2> QED
    BY <2>1, <2>2
<1>4. s \in 1..n /\ t \in 1..n /\ ps[s].x = ps[c].x /\ ps[t].x = ps[c].x /\ s <= c /\ c <= t
  BY <1>1, <1>3
<1>5. s \in FirstOf(ps, n)
  BY <1>1, <1>3, <1>4 DEF FirstOf
<1>6. t \in LastOf(ps, n)
  BY <1>1, <1>3, <1>4 DEF LastOf
<1>7. \A k \in s..t : ps[k].x = ps[c].x
  <2> TAKE k \in s..t
  <2>1. k \in 1..n /\ s <= k /\ k <= t
    BY <1>4
  <2>2. ps[s].x <= ps[k].x /\ ps[k].x <= ps[t].x /\ ps[k].x \in Int /\ ps[c].x \in Int
    BY <1>4, <2>1 DEF RisingScores
  <2> QED
    BY <1>4, <2>2
<1> QED
  BY <1>4, <1>5, <1>6, <1>7

\* What follows the last sample of a score is the first of one, and the other
\* way round.
LEMMA TiesMeet ==
  ASSUME NEW ps, NEW n \in Nat, RisingScores(ps, n), NEW k \in 1..n, k + 1 \in 1..n, ps[k].x # ps[k + 1].x
  PROVE  k \in LastOf(ps, n) /\ k + 1 \in FirstOf(ps, n)
<1>1. ps[k].x \in Int /\ ps[k + 1].x \in Int /\ ps[k].x < ps[k + 1].x
  BY DEF RisingScores
<1>2. \A j \in 1..n : j > k => ps[j].x # ps[k].x
  <2> SUFFICES ASSUME NEW j \in 1..n, j > k PROVE ps[j].x # ps[k].x
    OBVIOUS
  <2>1. ps[k + 1].x <= ps[j].x /\ ps[j].x \in Int
    BY DEF RisingScores
  <2> QED
    BY <1>1, <2>1
<1>3. \A j \in 1..n : j < k + 1 => ps[j].x # ps[k + 1].x
  <2> SUFFICES ASSUME NEW j \in 1..n, j < k + 1 PROVE ps[j].x # ps[k + 1].x
    OBVIOUS
  <2>1. ps[j].x <= ps[k].x /\ ps[j].x \in Int
    BY DEF RisingScores
  <2> QED
    BY <1>1, <2>1
<1> QED
  BY <1>2, <1>3 DEF LastOf, FirstOf

\* A run may end with a whole score for less, and begin with one for more.
LEMMA EndWhole ==
  ASSUME NEW P, NEW ps, NEW n, Judged(P, ps, n), RisingScores(ps, n), ~WrongFirst(ps, n), NEW i \in LastOf(ps, n),
         NEW a \in 1..i, NEW c \in i..n
  PROVE  \E d \in LastOf(ps, n) : d >= i /\ MeanOf(ps, a, d) <= MeanOf(ps, a, c)
<1>1. n \in Nat /\ i \in 1..n /\ a \in 1..n /\ c \in 1..n /\ a <= c
  BY DEF Judged, LastOf
<1>2. PICK s \in FirstOf(ps, n), t \in LastOf(ps, n) : s <= c /\ c <= t /\ \A k \in s..t : ps[k].x = ps[c].x
  BY <1>1, TieOf
<1>3. s \in 1..n /\ t \in 1..n
  BY <1>2 DEF FirstOf, LastOf
<1>4. CASE c = i
  <2>1. MeanOf(ps, a, c) \in Nat
    BY <1>1, RunMean
  <2> QED
    BY <1>1, <1>4, <2>1
<1>5. CASE \A k \in 1..n : c < k /\ k <= t => ps[k].y = 0
  <2>1. MeanOf(ps, a, t) <= MeanOf(ps, a, c)
    BY <1>1, <1>2, <1>3, <1>5, EndMoves
  <2> QED
    BY <1>1, <1>2, <1>3, <2>1
<1>6. CASE c # i /\ \E k \in 1..n : c < k /\ k <= t /\ ps[k].y # 0
  <2>1. PICK k \in 1..n : c < k /\ k <= t /\ ps[k].y = 1
    BY <1>6 DEF Judged
  <2>2. s > i
    <3>1. SUFFICES ASSUME s <= i PROVE FALSE
      BY <1>1, <1>3
    <3>2. i \in s..t /\ c > i
      BY <1>1, <1>2, <1>3, <1>6, <3>1
    <3>3. ps[c].x # ps[i].x
      BY <1>1, <3>2 DEF LastOf
    <3> QED
      BY <1>2, <3>2, <3>3
  <2>3. PICK d : d = s - 1
    OBVIOUS
  <2>4. d \in 1..n /\ d >= i /\ a <= d /\ d <= c /\ d + 1 = s
    BY <1>1, <1>2, <1>3, <2>2, <2>3
  <2>5. \A j \in 1..n : d < j /\ j <= c => ps[j].y = 1
    <3> SUFFICES ASSUME NEW j \in 1..n, d < j, j <= c PROVE ps[j].y = 1
      OBVIOUS
    <3>1. j \in s..t /\ k \in s..t /\ j < k
      BY <1>1, <1>2, <1>3, <2>1, <2>4
    <3>2. ps[j].x = ps[k].x
      BY <1>2, <3>1
    <3>3. ~(ps[j].y < ps[k].y)
      BY <3>1, <3>2 DEF WrongFirst
    <3> QED
      BY <2>1, <3>3 DEF Judged
  <2>6. MeanOf(ps, a, d) <= MeanOf(ps, a, c)
    BY <1>1, <2>4, <2>5, EndMoves
  <2>7. d \in LastOf(ps, n)
    <3>1. ps[d].x # ps[d + 1].x
      BY <1>2, <1>3, <2>4 DEF FirstOf
    <3> QED
      BY <1>1, <1>3, <2>4, <3>1, TiesMeet
  <2> QED
    BY <2>4, <2>6, <2>7
<1> QED
  BY <1>4, <1>5, <1>6

LEMMA BeginWhole ==
  ASSUME NEW P, NEW ps, NEW n, Judged(P, ps, n), RisingScores(ps, n), ~WrongFirst(ps, n), NEW i \in LastOf(ps, n),
         NEW a \in 1..i
  PROVE  \E b \in FirstOf(ps, n) : b <= i /\ \A c \in i..n : \E d \in {i, c} : MeanOf(ps, a, d) <= MeanOf(ps, b, c)
<1>1. n \in Nat /\ i \in 1..n /\ a \in 1..n /\ a <= i
  BY DEF Judged, LastOf
<1>2. PICK s \in FirstOf(ps, n), t \in LastOf(ps, n) : s <= a /\ a <= t /\ \A k \in s..t : ps[k].x = ps[a].x
  BY <1>1, TieOf
<1>3. s \in 1..n /\ t \in 1..n /\ s <= i
  BY <1>1, <1>2 DEF FirstOf, LastOf
<1>4. t <= i
  <2>1. SUFFICES ASSUME t > i PROVE FALSE
    BY <1>1, <1>3
  <2>2. i \in s..t /\ t \in s..t
    BY <1>1, <1>2, <1>3, <2>1
  <2>3. ps[t].x # ps[i].x
    BY <1>1, <1>3, <2>1 DEF LastOf
  <2> QED
    BY <1>2, <2>2, <2>3
<1>5. CASE \A k \in 1..n : s <= k /\ k < a => ps[k].y = 1
  <2>1. ASSUME NEW c \in i..n
        PROVE  MeanOf(ps, a, c) <= MeanOf(ps, s, c)
    <3>1. c \in 1..n /\ a <= c
      BY <1>1
    <3> QED
      BY <1>1, <1>2, <1>3, <1>5, <3>1, BeginMoves
  <2> QED
    BY <1>3, <2>1
<1>6. CASE \E k \in 1..n : s <= k /\ k < a /\ ps[k].y # 1
  <2>1. PICK k \in 1..n : s <= k /\ k < a /\ ps[k].y = 0
    BY <1>6 DEF Judged
  <2>2. \A j \in 1..n : a <= j /\ j <= t => ps[j].y = 0
    <3> SUFFICES ASSUME NEW j \in 1..n, a <= j, j <= t PROVE ps[j].y = 0
      OBVIOUS
    <3>1. j \in s..t /\ k \in s..t /\ k < j
      BY <1>1, <1>2, <1>3, <2>1
    <3>2. ps[k].x = ps[j].x
      BY <1>2, <3>1
    <3>3. ~(ps[k].y < ps[j].y)
      BY <3>1, <3>2 DEF WrongFirst
    <3> QED
      BY <2>1, <3>3 DEF Judged
  <2>3. CASE t = i
    <3>1. ASSUME NEW c \in i..n
          PROVE  MeanOf(ps, a, i) <= MeanOf(ps, s, c)
      <4>1. c \in 1..n /\ s <= c
        BY <1>1, <1>3
      <4> QED
        BY <1>1, <1>3, <2>2, <2>3, <4>1, NoneRight
    <3> QED
      BY <1>3, <3>1
  <2>4. CASE t < i
    <3>1. t + 1 \in 1..n /\ t + 1 <= i /\ a <= t + 1
      BY <1>1, <1>2, <1>3, <2>4
    <3>2. t + 1 \in FirstOf(ps, n)
      <4>1. ps[t].x # ps[t + 1].x
        BY <1>2, <1>3, <3>1 DEF LastOf
      <4> QED
        BY <1>1, <1>3, <3>1, <4>1, TiesMeet
    <3>3. ASSUME NEW c \in i..n
          PROVE  MeanOf(ps, a, c) <= MeanOf(ps, t + 1, c)
      <4>1. c \in 1..n /\ t + 1 <= c
        BY <1>1, <1>3, <3>1
      <4>2. \A j \in 1..n : a <= j /\ j < t + 1 => ps[j].y = 0
        BY <1>3, <2>2
      <4> QED
        BY <1>1, <3>1, <4>1, <4>2, BeginMoves
    <3> QED
      BY <3>1, <3>2, <3>3
  <2> QED
    BY <1>1, <1>3, <1>4, <2>3, <2>4
<1> QED
  BY <1>5, <1>6

LEMMA WholeScoresFit ==
  ASSUME NEW ps, Points(ps), NEW n, n = Len(ps), RisingScores(ps, n), ~WrongFirst(ps, n), NEW i \in LastOf(ps, n)
  PROVE  FittedOver(ps, i, FirstOf(ps, n), LastOf(ps, n)) = FittedOver(ps, i, 1..n, 1..n)
<1>1. n \in Nat /\ DOMAIN ps = 1..n
  BY ListDomain DEF Points
<1>2. PICK P : Judged(P, ps, n)
  <2>1. PICK P : Summed(P, ps, n) /\ Growing(P, n)
    BY TruthTotals
  <2> QED
    BY <1>1, <2>1 DEF Judged, Points
<1>3. i \in 1..n
  BY DEF LastOf
<1>4. PICK A, A0, C, C0 : /\ A = {k \in 1..n : k <= i} /\ A0 = {k \in FirstOf(ps, n) : k <= i}
                          /\ C = {k \in 1..n : k >= i} /\ C0 = {k \in LastOf(ps, n) : k >= i}
  OBVIOUS
<1>5. A = 1..i /\ C = i..n /\ A0 \subseteq A /\ C0 \subseteq C /\ i \in C0 /\ IsFiniteSet(A)
  <2>1. A = 1..i /\ C = i..n
    BY <1>1, <1>3, <1>4
  <2>2. A0 \subseteq A /\ C0 \subseteq C /\ i \in C0
    BY <1>1, <1>3, <1>4 DEF FirstOf, LastOf
  <2>3. IsFiniteSet(1..i)
    BY <1>1, <1>3, FS_Interval
  <2> QED
    BY <2>1, <2>2, <2>3
<1>6. PICK M : M = [a \in A |-> [c \in C |-> MeanOf(ps, a, c)]]
  OBVIOUS
<1>7. \A a \in A : \A c \in C : M[a][c] = MeanOf(ps, a, c) /\ M[a][c] \in Nat
  <2> TAKE a \in A
  <2> TAKE c \in C
  <2>1. a \in 1..n /\ c \in 1..n /\ a <= c
    BY <1>1, <1>3, <1>5
  <2>2. MeanOf(ps, a, c) \in Nat
    BY <1>2, <2>1, RunMean
  <2> QED
    BY <1>6, <2>2
<1>8. ASSUME NEW a \in A, NEW c \in C
      PROVE  \E d \in C0 : M[a][d] <= M[a][c]
  <2>1. PICK d \in LastOf(ps, n) : d >= i /\ MeanOf(ps, a, d) <= MeanOf(ps, a, c)
    BY <1>2, <1>5, EndWhole
  <2>2. d \in C0
    BY <1>4, <2>1
  <2> QED
    BY <1>5, <1>7, <2>1, <2>2
<1>9. ASSUME NEW a \in A
      PROVE  \E b \in A0 : \A c \in C0 : \E d \in C0 : M[a][d] <= M[b][c]
  <2>1. PICK b \in FirstOf(ps, n) :
           b <= i /\ \A c \in i..n : \E d \in {i, c} : MeanOf(ps, a, d) <= MeanOf(ps, b, c)
    BY <1>2, <1>5, BeginWhole
  <2>2. b \in A0
    BY <1>4, <2>1
  <2>3. ASSUME NEW c \in C0
        PROVE  \E d \in C0 : M[a][d] <= M[b][c]
    <3>1. PICK d \in {i, c} : MeanOf(ps, a, d) <= MeanOf(ps, b, c)
      BY <1>5, <2>1
    <3>2. d \in C0
      BY <1>5, <3>1
    <3> QED
      BY <1>5, <1>7, <2>2, <3>1, <3>2
  <2> QED
    BY <2>2, <2>3
<1>10. A0 # {} /\ C0 # {}
  <2>1. i \in A
    BY <1>1, <1>3, <1>5
  <2> QED
    BY <1>5, <1>9, <2>1
<1>11. \A a \in A : \A c \in C : M[a][c] \in Nat
  BY <1>7
<1>12. Greatest({Least({M[a][c] : c \in C0}) : a \in A0}) = Greatest({Least({M[a][c] : c \in C}) : a \in A})
  <2>1. Suffice(A0, C0, A, C, M)
    BY <1>5, <1>8, <1>9, <1>10, <1>11 DEF Suffice
  <2>2. GreatestLeast(A0, C0, M) = GreatestLeast(A, C, M)
    BY <2>1, SameMinMax
  <2> QED
    BY <2>2 DEF GreatestLeast
<1>13. \A a \in A : {M[a][c] : c \in C0} = {MeanOf(ps, a, c) : c \in C0} /\ {M[a][c] : c \in C} = {MeanOf(ps, a, c) : c \in C}
  BY <1>5, <1>7
<1>14. Greatest({Least({MeanOf(ps, a, c) : c \in C0}) : a \in A0}) = Greatest({Least({MeanOf(ps, a, c) : c \in C}) : a \in A})
  <2>1. PICK f, g : f = [a \in A |-> Least({M[a][c] : c \in C0})] /\ g = [a \in A |-> Least({M[a][c] : c \in C})]
    OBVIOUS
  <2>2. \A a \in A : f[a] = Least({MeanOf(ps, a, c) : c \in C0}) /\ g[a] = Least({MeanOf(ps, a, c) : c \in C})
    BY <1>13, <2>1
  <2>3. {Least({M[a][c] : c \in C0}) : a \in A0} = {f[a] : a \in A0}
    BY <1>5, <2>1
  <2>4. {Least({MeanOf(ps, a, c) : c \in C0}) : a \in A0} = {f[a] : a \in A0}
    <3>1. \A a \in A0 : f[a] = Least({MeanOf(ps, a, c) : c \in C0})
      BY <1>5, <2>2
    <3> QED
      BY <3>1
  <2>5. {Least({M[a][c] : c \in C}) : a \in A} = {g[a] : a \in A}
    BY <2>1
  <2>6. {Least({MeanOf(ps, a, c) : c \in C}) : a \in A} = {g[a] : a \in A}
    <3>1. \A a \in A : g[a] = Least({MeanOf(ps, a, c) : c \in C})
      BY <2>2
    <3> QED
      BY <3>1
  <2> QED
    BY <1>12, <2>3, <2>4, <2>5, <2>6
<1> QED
  BY <1>4, <1>14 DEF FittedOver

(***************************************************************************)
(* The curves of a report.                                                 *)
(***************************************************************************)

\* A report has the curves that were learned from what it knew, and says so.
FitsIts(m) ==
    /\ Labelled(m.known) /\ m.active = FittedCurveIsActive(m.curves, m.known, m.rs)
    /\ m.curves = IdentityCurves \/ m.curves = Fit(m.known, m.rs, MinLabels)
FitInv ==
    /\ report # NoReport => FitsIts(report)
    /\ pass.step = "insert" => FitsIts(pass.made)

\* Without a curve no score is moved.
LEMMA NoCurveActive ==
  ASSUME NEW curves, DOMAIN curves = {}, NEW known, NEW rs
  PROVE  FittedCurveIsActive(curves, known, rs) = FALSE
<1>1. ASSUME NEW method, method \notin Known, NEW embodiment
      PROVE  Calibrate(curves, method, embodiment, One \div 2) = One \div 2
  <2>1. Clamp(One \div 2, 0, One) = One \div 2
    BY DEF Clamp, One
  <2>2. <<method, embodiment>> \notin DOMAIN curves
    OBVIOUS
  <2> QED
    BY <1>1, <2>1, <2>2 DEF Calibrate
<1> QED
  BY <1>1 DEF FittedCurveIsActive

\* A curve at the last sample of a score.
FitsAt(curve, ps, n, i) ==
    /\ EvalIsotonic(curve, ps[i].x) = FittedOver(ps, i, 1..n, 1..n)
    /\ ~WrongFirst(ps, n) => EvalIsotonic(curve, ps[i].x) = FittedOver(ps, i, FirstOf(ps, n), LastOf(ps, n))

LEMMA CurvesFit ==
  ASSUME NEW m, FitsIts(m), NEW b \in DOMAIN m.curves,
         NEW samples, samples = SamplesOf(m.known, m.rs, b[1], b[2]),
         NEW points, points = Sorted(samples, DOMAIN samples, ByScore), NEW n, n = Len(points),
         NEW i \in LastOf(points, n)
  PROVE  FitsAt(m.curves[b], points, n, i)
<1>1. m.curves # IdentityCurves
  BY DEF IdentityCurves
<1>2. PICK curves : curves = Fit(m.known, m.rs, MinLabels)
  OBVIOUS
<1>3. m.curves = curves /\ Labelled(m.known)
  BY <1>1, <1>2 DEF FitsIts
<1>4. curves[b] = Isotonic(samples)
  BY <1>2, <1>3 DEF Fit
<1>5. Points(samples)
  BY <1>3, SamplesArePoints
<1>6. Points(points) /\ n \in Nat /\ RisingScores(points, n)
  BY <1>5, SortedRises, ListDomain DEF Points
<1>7. i \in 1..n /\ LastOfScore(points, n, i)
  <2>1. i \in 1..n /\ \A k \in 1..n : k > i => points[k].x # points[i].x
    BY DEF LastOf
  <2>2. i # n => i + 1 \in 1..n /\ i + 1 > i
    BY <1>6, <2>1
  <2> QED
    BY <2>1, <2>2 DEF LastOfScore
<1>8. EvalIsotonic(m.curves[b], points[i].x) = Fitted(points, n, i)
  BY <1>3, <1>4, <1>5, <1>7, IsotonicFits
<1>9. Fitted(points, n, i) = FittedOver(points, i, 1..n, 1..n)
  <2>1. PICK A, C : A = {k \in 1..n : k <= i} /\ C = {k \in 1..n : k >= i}
    OBVIOUS
  <2>2. A = 1..i /\ C = i..n
    BY <1>6, <1>7, <2>1
  <2>3. FittedOver(points, i, 1..n, 1..n) = Greatest({Least({MeanOf(points, a, c) : c \in C}) : a \in A})
    BY <2>1 DEF FittedOver
  <2>4. Fitted(points, n, i) = Greatest({Least({MeanOf(points, a, c) : c \in C}) : a \in A})
    BY <2>2 DEF Fitted
  <2> QED
    BY <2>3, <2>4
<1>10. ~WrongFirst(points, n) =>
         FittedOver(points, i, FirstOf(points, n), LastOf(points, n)) = FittedOver(points, i, 1..n, 1..n)
  BY <1>6, WholeScoresFit
<1> QED
  BY <1>8, <1>9, <1>10 DEF FitsAt

FitOf(m, b) ==
    LET samples == SamplesOf(m.known, m.rs, b[1], b[2])
        points == Sorted(samples, DOMAIN samples, ByScore)
        n == Len(points)
    IN  \A i \in LastOf(points, n) : FitsAt(m.curves[b], points, n, i)

LEMMA FitIs == FitInv => FitIsIsotonic
<1> SUFFICES ASSUME FitInv PROVE FitIsIsotonic
  OBVIOUS
<1>1. CASE report = NoReport
  <2>1. report.active = FALSE /\ DOMAIN report.curves = {}
    BY <1>1 DEF NoReport, IdentityCurves
  <2> QED
    BY <2>1 DEF FitIsIsotonic
<1>2. CASE report # NoReport
  <2>1. FitsIts(report)
    BY <1>2 DEF FitInv
  <2>2. report.active => DOMAIN report.curves # {}
    <3>1. SUFFICES ASSUME DOMAIN report.curves = {} PROVE report.active = FALSE
      OBVIOUS
    <3>2. FittedCurveIsActive(report.curves, report.known, report.rs) = FALSE
      BY <3>1, NoCurveActive
    <3> QED
      BY <2>1, <3>2 DEF FitsIts
  <2>3. ASSUME NEW b \in DOMAIN report.curves
        PROVE  FitOf(report, b)
    <3>1. PICK samples, points, n : /\ samples = SamplesOf(report.known, report.rs, b[1], b[2])
                                    /\ points = Sorted(samples, DOMAIN samples, ByScore) /\ n = Len(points)
      OBVIOUS
    <3>2. ASSUME NEW i \in LastOf(points, n)
          PROVE  FitsAt(report.curves[b], points, n, i)
      BY <2>1, <3>1, CurvesFit
    <3> QED
      BY <3>1, <3>2 DEF FitOf
  <2> QED
    BY <2>2, <2>3 DEF FitIsIsotonic, FitOf, FitsAt, FirstOf, LastOf, WrongFirst, FittedOver, MeanOf, Window
<1> QED
  BY <1>1, <1>2

LEMMA ReportFits ==
  ASSUME NEW m, NEW curves, NEW known, NEW rs, NEW os, NEW hs, NEW made, Labelled(known),
         curves = IdentityCurves \/ curves = Fit(known, rs, MinLabels),
         m = Report(curves, known, rs, os, hs, made)
  PROVE  FitsIts(m)
<1>1. m.known = known /\ m.curves = curves /\ m.rs = rs /\ m.active = FittedCurveIsActive(curves, known, rs)
  BY DEF Report
<1> QED
  BY <1>1 DEF FitsIts

LEMMA EngineFits ==
  ASSUME NEW m, NEW known, NEW rs, NEW os, NEW hs, Labelled(known), m = RunEngine(known, rs, os, hs)
  PROVE  FitsIts(m)
<1>1. PICK made : made = AttributeReport(rs, os, hs)
  OBVIOUS
<1>2. CASE known = <<>>
  <2>1. m = Report(IdentityCurves, known, rs, os, hs, made)
    BY <1>1, <1>2 DEF RunEngine
  <2> QED
    BY <2>1, ReportFits
<1>3. CASE known # <<>>
  <2>1. PICK curves : curves = Fit(known, rs, MinLabels)
    OBVIOUS
  <2>2. PICK with : with = AttributeWith(curves, rs, os, hs)
    OBVIOUS
  <2>3. m = Report(curves, known, rs, os, hs, with)
    BY <1>3, <2>1, <2>2 DEF RunEngine
  <2> QED
    BY <2>1, <2>3, ReportFits
<1> QED
  BY <1>2, <1>3

LEMMA FitStart == Init => FitInv
BY DEF Init, FitInv, Idle

LEMMA FitStep ==
  ASSUME JoinInv, FitInv, [Next]_vars
  PROVE  FitInv'
<1>1. CASE report' = report /\ pass' = pass
  BY <1>1 DEF FitInv, FitsIts, NoReport
<1>2. CASE LandRollout \/ LandOutcome
  BY <1>2 DEF LandRollout, LandOutcome, FitInv, FitsIts, NoReport
<1>3. CASE ReadRollouts
  BY <1>3 DEF ReadRollouts, FitInv, NoReport
<1>4. CASE ReadOutcomes
  BY <1>4 DEF ReadOutcomes, FitInv, FitsIts, NoReport, Idle
<1>5. CASE PassFails
  BY <1>5 DEF PassFails, FitInv, FitsIts, NoReport, Idle
<1>6. CASE ReadFeedback
  <2>1. report' = report
    BY <1>6 DEF ReadFeedback
  <2>2. CASE pass' = Idle
    BY <2>1, <2>2 DEF FitInv, FitsIts, NoReport, Idle
  <2>3. CASE pass' # Idle
    <3>1. PICK newestFirst \in BOOLEAN : pass' = [step |-> "insert", tenant |-> pass.tenant, rs |-> pass.rs, from |-> pass.from,
                         made |-> AttributeBatch(RecentFeedback(pass.tenant, newestFirst), pass.rs, pass.os)]
      BY <1>6, <2>3 DEF ReadFeedback
    <3>2. PICK known, m : known = RecentFeedback(pass.tenant, newestFirst) /\ m = AttributeBatch(known, pass.rs, pass.os)
      OBVIOUS
    <3>3. pass'.made = m
      BY <3>1, <3>2
    <3>4. PICK curves, hs : curves = Fit(known, pass.rs, MinLabels) /\ hs = Heartbeats(pass.os)
      OBVIOUS
    <3>5. PICK made : made = AttributeWith(curves, pass.rs, pass.os, hs)
      OBVIOUS
    <3>6. m = Report(curves, known, pass.rs, pass.os, hs, made)
      BY <3>2, <3>4, <3>5 DEF AttributeBatch
    <3>7. Labelled(known)
      <4>1. IsList(feedback) /\ \A k \in DOMAIN feedback : IsFeedback(feedback[k]) /\ DOMAIN feedback[k] = RowFields
        BY DEF JoinInv, FeedbackInv, IsRow
      <4> QED
        BY <3>2, <4>1, FeedbackIsRead
    <3>8. FitsIts(m)
      BY <3>4, <3>6, <3>7, ReportFits
    <3>9. FitsIts(pass.made)'
      BY <3>3, <3>8 DEF FitsIts
    <3> QED
      BY <2>1, <3>9 DEF FitInv, FitsIts, NoReport
  <2> QED
    BY <2>2, <2>3
<1>7. CASE Insert
  <2>1. pass.step = "insert" /\ pass' = Idle
    BY <1>7 DEF Insert
  <2>2. PICK m, r : m = pass.made /\ r = report'
    OBVIOUS
  <2>3. FitsIts(m) /\ DOMAIN m = DOMAIN NoReport
    BY <2>1, <2>2 DEF FitInv, JoinInv, PassInv, IsPass, Idle
  <2>4. \E all, base : r = [m EXCEPT !.full = all, !.base = base]
    BY <1>7, <2>2 DEF Insert
  <2>5. r.known = m.known /\ r.curves = m.curves /\ r.rs = m.rs /\ r.active = m.active
    <3>1. DOMAIN m = {"rs", "os", "hs", "known", "curves", "active", "rows", "skipped", "full", "base"}
      BY <2>3 DEF NoReport
    <3> QED
      BY <2>4, <3>1
  <2>6. FitsIts(r)
    BY <2>3, <2>5 DEF FitsIts
  <2>7. FitsIts(report)'
    BY <2>2, <2>6 DEF FitsIts
  <2> QED
    BY <2>1, <2>7 DEF FitInv, Idle
<1>8. CASE Attribute
  <2>1. pass' = pass /\ world' = world
    BY <1>8 DEF Attribute
  <2>2. Labelled(world.prior)
    BY TablesAre DEF JoinInv, IsWorld
  <2>3. \E rs, os, hs : report' = RunEngine(world.prior, rs, os, hs)
    BY <1>8 DEF Attribute
  <2>4. PICK rs, os, hs : report' = RunEngine(world.prior, rs, os, hs)
    BY <2>3
  <2>5. PICK r : r = report'
    OBVIOUS
  <2>6. FitsIts(r)
    BY <2>2, <2>4, <2>5, EngineFits
  <2>7. FitsIts(report)'
    BY <2>5, <2>6 DEF FitsIts
  <2> QED
    BY <2>1, <2>7 DEF FitInv, FitsIts
<1>9. CASE Curate \/ ProcessOneEvent \/ Dashboard \/ UNCHANGED vars
  <2>1. report' = report /\ pass' = pass
    BY <1>9 DEF Curate, ProcessOneEvent, Dashboard, vars
  <2> QED
    BY <1>1, <2>1
<1> QED
  BY <1>2, <1>3, <1>4, <1>5, <1>6, <1>7, <1>8, <1>9 DEF Next

\* Every curve a pass or a caller ever gets is the isotonic regression of the
\* list of labelled scores it was learned from, for any labels in any order:
\* pooling neighbours ends within two turns a point, at the min-max of the
\* means. It is that of the fractions of each score where no tie has a wrong
\* guess before a right one.
THEOREM FitSafe == Spec => []FitIsIsotonic
<1>1. JoinInv /\ FitInv /\ [Next]_vars => FitInv'
  BY FitStep
<1> QED
  BY <1>1, InitInv, StepInv, FitStart, FitIs, PTL DEF Spec
=============================================================================
