----------------------------- MODULE ListsProofs -----------------------------
(***************************************************************************)
(* What the operators of Lists return: a rearrangement of the chosen       *)
(* indices in the order that was asked for.                                *)
(***************************************************************************)
EXTENDS Lists, FiniteSetTheorems, SequenceTheorems,
        FunctionTheorems, WellFoundedInduction, TLAPS

\* A strict total order on the indices in keep.
TotalOrder(keep, ahead) ==
    /\ \A i \in keep : <<i, i>> \notin ahead
    /\ \A i, j \in keep : i # j => <<i, j>> \in ahead \/ <<j, i>> \in ahead
    /\ \A i, j, k \in keep : <<i, j>> \in ahead /\ <<j, k>> \in ahead => <<i, k>> \in ahead

\* A strict order in which what is not apart is alike.
WeakOrder(keep, less) ==
    /\ \A i, j \in keep : <<i, j>> \in less => <<j, i>> \notin less
    /\ \A i, j, k \in keep : <<i, j>> \in less => <<i, k>> \in less \/ <<k, j>> \in less

\* at enumerates keep in the order of ahead.
Enumerates(at, keep, ahead) ==
    /\ at \in [1..Cardinality(keep) -> keep]
    /\ \A i \in keep : \E k \in 1..Cardinality(keep) : at[k] = i
    /\ \A k, l \in 1..Cardinality(keep) : at[k] = at[l] => k = l
    /\ \A k, l \in 1..Cardinality(keep) : k < l <=> <<at[k], at[l]>> \in ahead

LEMMA PlaceRises ==
  ASSUME NEW keep, IsFiniteSet(keep), NEW ahead, TotalOrder(keep, ahead),
         NEW i \in keep, NEW j \in keep, <<i, j>> \in ahead
  PROVE  Place(keep, ahead, i) < Place(keep, ahead, j)
<1>1. PICK A, B : A = {k \in keep : <<k, i>> \in ahead} /\ B = {k \in keep : <<k, j>> \in ahead}
  OBVIOUS
<1>2. A \subseteq B /\ i \in B /\ i \notin A /\ B \subseteq keep
  BY <1>1 DEF TotalOrder
<1>3. IsFiniteSet(B)
  BY <1>2, FS_Subset
<1>4. IsFiniteSet(A) /\ Cardinality(A) <= Cardinality(B) /\ Cardinality(A) # Cardinality(B)
  BY <1>2, <1>3, FS_Subset
<1>5. Cardinality(A) \in Nat /\ Cardinality(B) \in Nat
  BY <1>3, <1>4, FS_CardinalityType
<1>6. Cardinality(A) < Cardinality(B)
  BY <1>4, <1>5
<1> QED
  BY <1>1, <1>5, <1>6 DEF Place

LEMMA PlaceInRange ==
  ASSUME NEW keep, IsFiniteSet(keep), NEW ahead, TotalOrder(keep, ahead), NEW i \in keep
  PROVE  Place(keep, ahead, i) \in 1..Cardinality(keep)
<1>1. PICK A : A = {k \in keep : <<k, i>> \in ahead}
  OBVIOUS
<1>2. A \subseteq keep \ {i}
  BY <1>1 DEF TotalOrder
<1>3. IsFiniteSet(keep \ {i}) /\ Cardinality(keep \ {i}) = Cardinality(keep) - 1
  BY FS_RemoveElement
<1>4. IsFiniteSet(A) /\ Cardinality(A) <= Cardinality(keep) - 1
  BY <1>2, <1>3, FS_Subset
<1>5. Cardinality(A) \in Nat /\ Cardinality(keep) \in Nat
  BY <1>4, FS_CardinalityType
<1> QED
  BY <1>1, <1>4, <1>5 DEF Place

\* Each place from 1 to the number of indices is taken by exactly one of them.
LEMMA Arrangement ==
  ASSUME NEW s, NEW keep, IsFiniteSet(keep), NEW ahead, TotalOrder(keep, ahead)
  PROVE  \E at : /\ Enumerates(at, keep, ahead)
                 /\ Arranged(s, keep, ahead) = [k \in 1..Cardinality(keep) |-> s[at[k]]]
<1>1. PICK n : n = Cardinality(keep)
  OBVIOUS
<1>2. n \in Nat /\ IsFiniteSet(1..n) /\ Cardinality(1..n) = n
  <2>1. n \in Nat
    BY <1>1, FS_CardinalityType
  <2> QED
    BY <2>1, FS_Interval
<1>3. PICK place : place = [i \in keep |-> Place(keep, ahead, i)]
  OBVIOUS
<1>4. place \in [keep -> 1..n]
  BY <1>1, <1>3, PlaceInRange
<1>5. \A i, j \in keep : <<i, j>> \in ahead => place[i] < place[j]
  BY <1>3, PlaceRises
<1>6. \A i, j \in keep : place[i] = place[j] => i = j
  <2> SUFFICES ASSUME NEW i \in keep, NEW j \in keep, place[i] = place[j], i # j
               PROVE  FALSE
    OBVIOUS
  <2>1. place[i] \in Nat /\ place[j] \in Nat
    BY <1>2, <1>4
  <2>2. <<i, j>> \in ahead \/ <<j, i>> \in ahead
    BY DEF TotalOrder
  <2>3. place[i] < place[j] \/ place[j] < place[i]
    BY <1>5, <2>2
  <2> QED
    BY <2>1, <2>3
<1>7. place \in Injection(keep, 1..n)
  BY <1>4, <1>6 DEF Injection, IsInjective
<1>8. place \in Surjection(keep, 1..n)
  BY <1>1, <1>2, <1>7, FS_Injection
<1>9. \A k \in 1..n : \E i \in keep : place[i] = k
  BY <1>8 DEF Surjection
<1>10. PICK at : at = [k \in 1..n |-> CHOOSE i \in keep : Place(keep, ahead, i) = k]
  OBVIOUS
<1>11. \A k \in 1..n : at[k] \in keep /\ place[at[k]] = k
  BY <1>3, <1>9, <1>10
<1>12. at \in [1..n -> keep]
  BY <1>10, <1>11
<1>13. \A i \in keep : \E k \in 1..n : at[k] = i
  BY <1>4, <1>6, <1>11
<1>14. \A k, l \in 1..n : at[k] = at[l] => k = l
  BY <1>11
<1>15. ASSUME NEW k \in 1..n, NEW l \in 1..n PROVE k < l <=> <<at[k], at[l]>> \in ahead
  <2>1. CASE <<at[k], at[l]>> \in ahead
    BY <1>5, <1>11, <2>1
  <2>2. CASE <<at[k], at[l]>> \notin ahead
    <3>1. at[k] = at[l] \/ <<at[l], at[k]>> \in ahead
      BY <1>11, <2>2 DEF TotalOrder
    <3>2. k = l \/ l < k
      BY <1>5, <1>11, <3>1
    <3> QED
      BY <1>2, <2>2, <3>2
  <2> QED
    BY <2>1, <2>2
<1>16. \A k, l \in 1..n : k < l <=> <<at[k], at[l]>> \in ahead
  BY <1>15
<1>17. Arranged(s, keep, ahead) = [k \in 1..n |-> s[at[k]]]
  BY <1>1, <1>10 DEF Arranged
<1>18. Enumerates(at, keep, ahead)
  BY <1>1, <1>12, <1>13, <1>14, <1>16 DEF Enumerates
<1> QED
  BY <1>1, <1>17, <1>18

LEMMA EarlierIsTotal ==
  ASSUME NEW keep, keep \subseteq Int
  PROVE  TotalOrder(keep, Earlier(keep))
BY DEF TotalOrder, Earlier

LEMMA StableIsTotal ==
  ASSUME NEW keep, keep \subseteq Int, NEW less, WeakOrder(keep, less)
  PROVE  TotalOrder(keep, Stable(keep, less))
<1>1. ASSUME NEW i \in keep, NEW j \in keep
      PROVE  <<i, j>> \in Stable(keep, less) <=> <<i, j>> \in less \/ (<<j, i>> \notin less /\ i < j)
  <2>1. PICK p : p = <<i, j>>
    OBVIOUS
  <2>2. p \in keep \X keep /\ p[1] = i /\ p[2] = j
    BY <2>1
  <2>3. p \in Stable(keep, less) <=> p \in less \/ (<<j, i>> \notin less /\ i < j)
    BY <2>2 DEF Stable
  <2> QED
    BY <2>1, <2>3
<1>2. \A i, j, k \in keep : <<i, j>> \in Stable(keep, less) /\ <<j, k>> \in Stable(keep, less)
                              => <<i, k>> \in Stable(keep, less)
  <2> SUFFICES ASSUME NEW i \in keep, NEW j \in keep, NEW k \in keep,
                      <<i, j>> \in Stable(keep, less), <<j, k>> \in Stable(keep, less)
               PROVE  <<i, k>> \in Stable(keep, less)
    OBVIOUS
  <2>1. <<i, j>> \in less \/ (<<j, i>> \notin less /\ i < j)
    BY <1>1
  <2>2. <<j, k>> \in less \/ (<<k, j>> \notin less /\ j < k)
    BY <1>1
  <2>3. <<i, k>> \in less \/ (<<k, i>> \notin less /\ i < k)
    <3>1. CASE <<i, j>> \in less
      BY <2>2, <3>1 DEF WeakOrder
    <3>2. CASE <<j, k>> \in less
      BY <2>1, <3>2 DEF WeakOrder
    <3>3. CASE <<j, i>> \notin less /\ i < j /\ <<k, j>> \notin less /\ j < k
      <4>1. i < k
        BY <3>3
      <4>2. <<k, i>> \notin less
        BY <3>3 DEF WeakOrder
      <4> QED
        BY <4>1, <4>2
    <3> QED
      BY <2>1, <2>2, <3>1, <3>2, <3>3
  <2> QED
    BY <1>1, <2>3
<1>3. \A i \in keep : <<i, i>> \notin Stable(keep, less)
  BY <1>1 DEF WeakOrder
<1>4. \A i, j \in keep : i # j => <<i, j>> \in Stable(keep, less) \/ <<j, i>> \in Stable(keep, less)
  BY <1>1
<1> QED
  BY <1>2, <1>3, <1>4 DEF TotalOrder

\* t holds what s has at the indices in keep, at[k] in place k.
Lists(t, s, keep, at) ==
    /\ IsFiniteSet(keep) /\ Cardinality(keep) \in Nat
    /\ t \in Seq({s[i] : i \in keep}) /\ Len(t) = Cardinality(keep) /\ DOMAIN t = 1..Cardinality(keep)
    /\ Range(t) = {s[i] : i \in keep}
    /\ at \in [1..Cardinality(keep) -> keep]
    /\ \A i \in keep : \E k \in 1..Cardinality(keep) : at[k] = i
    /\ \A k, l \in 1..Cardinality(keep) : at[k] = at[l] => k = l
    /\ \A k \in 1..Cardinality(keep) : t[k] = s[at[k]]

\* Any function on the numbers from 1 to n is a list of length n.
LEMMA ListOf ==
  ASSUME NEW n \in Nat, NEW S, NEW t \in [1..n -> S]
  PROVE  t \in Seq(S) /\ Len(t) = n
<1>1. t \in Seq(S)
  BY SeqDef
<1>2. PICK m : m = Len(t)
  OBVIOUS
<1>3. m \in Nat /\ DOMAIN t = 1..m
  BY <1>1, <1>2, LenProperties
<1>4. 1..m = 1..n
  BY <1>3
<1>5. m < n => n \in 1..n /\ n \notin 1..m
  BY <1>3
<1>6. n < m => m \in 1..m /\ m \notin 1..n
  BY <1>3
<1>7. m = n
  BY <1>3, <1>4, <1>5, <1>6
<1> QED
  BY <1>1, <1>2, <1>7

\* A sequence of anything is a list of what it holds.
LEMMA ListIn ==
  ASSUME NEW S, NEW s \in Seq(S)
  PROVE  IsList(s) /\ Range(s) \subseteq S
<1>1. PICK n : n = Len(s)
  OBVIOUS
<1>2. n \in Nat /\ s \in [1..n -> S]
  BY <1>1, LenProperties
<1>3. \A x : x \in Range(s) <=> \E k \in 1..n : s[k] = x
  BY <1>2 DEF Range
<1>4. s \in [1..n -> Range(s)]
  BY <1>2, <1>3
<1>5. s \in Seq(Range(s))
  BY <1>2, <1>4, ListOf
<1> QED
  BY <1>2, <1>3, <1>5 DEF IsList

LEMMA EnumeratedLists ==
  ASSUME NEW s, NEW keep, IsFiniteSet(keep), NEW ahead, NEW at, Enumerates(at, keep, ahead),
         NEW t, t = [k \in 1..Cardinality(keep) |-> s[at[k]]]
  PROVE  Lists(t, s, keep, at)
<1>1. PICK n, S : n = Cardinality(keep) /\ S = {s[i] : i \in keep}
  OBVIOUS
<1>2. n \in Nat
  BY <1>1, FS_CardinalityType
<1>3. /\ at \in [1..n -> keep]
      /\ \A i \in keep : \E k \in 1..n : at[k] = i
      /\ \A k, l \in 1..n : at[k] = at[l] => k = l
  BY <1>1 DEF Enumerates
<1>4. \A k \in 1..n : t[k] = s[at[k]] /\ t[k] \in S
  BY <1>1, <1>3
<1>5. t \in [1..n -> S]
  BY <1>1, <1>4
<1>6. t \in Seq(S) /\ Len(t) = n
  BY <1>2, <1>5, ListOf
<1>7. \A x \in S : \E k \in 1..n : t[k] = x
  BY <1>1, <1>3, <1>4
<1>8. DOMAIN t = 1..n
  BY <1>5
<1>9. Range(t) = S
  <2>1. \A x : x \in Range(t) <=> \E k \in 1..n : t[k] = x
    BY <1>8 DEF Range
  <2>2. Range(t) \subseteq S
    BY <1>4, <2>1
  <2>3. S \subseteq Range(t)
    BY <1>7, <2>1
  <2> QED
    BY <2>2, <2>3
<1> QED
  BY <1>1, <1>2, <1>3, <1>4, <1>6, <1>8, <1>9 DEF Lists

\* A filter keeps what was asked for, in the order it had.
LEMMA PickedLists ==
  ASSUME NEW s, NEW keep, IsFiniteSet(keep), keep \subseteq Int
  PROVE  \E at : /\ Lists(Picked(s, keep), s, keep, at)
                 /\ \A k, l \in 1..Cardinality(keep) : k < l <=> at[k] < at[l]
<1>1. PICK ahead : ahead = Earlier(keep)
  OBVIOUS
<1>2. TotalOrder(keep, ahead)
  BY <1>1, EarlierIsTotal
<1>3. PICK at : /\ Enumerates(at, keep, ahead)
                /\ Arranged(s, keep, ahead) = [k \in 1..Cardinality(keep) |-> s[at[k]]]
  BY <1>2, Arrangement
<1>4. Lists(Picked(s, keep), s, keep, at)
  BY <1>1, <1>3, EnumeratedLists DEF Picked
<1>5. \A k, l \in 1..Cardinality(keep) : at[k] \in keep /\ at[l] \in keep /\ (k < l <=> <<at[k], at[l]>> \in ahead)
  BY <1>3 DEF Enumerates
<1>6. \A i, j \in keep : <<i, j>> \in ahead <=> i < j
  BY <1>1 DEF Earlier
<1> QED
  BY <1>4, <1>5, <1>6

\* A sort keeps everything, and nothing stands in front of what is less.
LEMMA SortedLists ==
  ASSUME NEW s, NEW keep, IsFiniteSet(keep), keep \subseteq Int, NEW less, WeakOrder(keep, less)
  PROVE  \E at : /\ Lists(Arranged(s, keep, Stable(keep, less)), s, keep, at)
                 /\ \A k, l \in 1..Cardinality(keep) : k < l => <<at[l], at[k]>> \notin less
<1>1. PICK ahead : ahead = Stable(keep, less)
  OBVIOUS
<1>2. TotalOrder(keep, ahead)
  BY <1>1, StableIsTotal
<1>3. PICK at : /\ Enumerates(at, keep, ahead)
                /\ Arranged(s, keep, ahead) = [k \in 1..Cardinality(keep) |-> s[at[k]]]
  BY <1>2, Arrangement
<1>4. Lists(Arranged(s, keep, ahead), s, keep, at)
  BY <1>3, EnumeratedLists
<1>5. \A k, l \in 1..Cardinality(keep) : at[k] \in keep /\ at[l] \in keep /\ (k < l <=> <<at[k], at[l]>> \in ahead)
  BY <1>3 DEF Enumerates
<1>6. \A i, j \in keep : <<i, j>> \in ahead => <<j, i>> \notin less
  <2> SUFFICES ASSUME NEW i \in keep, NEW j \in keep, <<i, j>> \in ahead PROVE <<j, i>> \notin less
    OBVIOUS
  <2>1. <<i, j>> \in less \/ <<j, i>> \notin less
    BY <1>1 DEF Stable
  <2> QED
    BY <2>1 DEF WeakOrder
<1> QED
  BY <1>1, <1>4, <1>5, <1>6

\* A list has the indices from 1 to its length.
LEMMA ListDomain ==
  ASSUME NEW s, IsList(s)
  PROVE  /\ Len(s) \in Nat /\ DOMAIN s = 1..Len(s) /\ IsFiniteSet(DOMAIN s)
         /\ DOMAIN s \subseteq Int /\ Cardinality(DOMAIN s) = Len(s)
         /\ \A i \in DOMAIN s : s[i] \in Range(s)
<1>1. Len(s) \in Nat /\ DOMAIN s = 1..Len(s)
  BY DEF IsList
<1>2. IsFiniteSet(1..Len(s)) /\ Cardinality(1..Len(s)) = Len(s) /\ 1..Len(s) \subseteq Int
  <2>1. PICK n : n = Len(s)
    OBVIOUS
  <2>2. n \in Int /\ 1 \in Int
    BY <1>1, <2>1
  <2>3. IsFiniteSet(1..n) /\ Cardinality(1..n) = IF 1 > n THEN 0 ELSE n - 1 + 1
    BY <2>2, FS_Interval
  <2> QED
    BY <1>1, <2>1, <2>3
<1>3. \A i \in DOMAIN s : s[i] \in Range(s)
  BY DEF Range
<1> QED
  BY <1>1, <1>2, <1>3

LEMMA EmptyList == IsList(<<>>) /\ Len(<<>>) = 0 /\ DOMAIN <<>> = {} /\ Range(<<>>) = {}
<1>1. <<>> \in Seq({}) /\ Len(<<>>) = 0
  BY EmptySeq
<1>2. DOMAIN <<>> = {}
  OBVIOUS
<1>3. Range(<<>>) = {}
  BY <1>2 DEF Range
<1> QED
  BY <1>1, <1>2, <1>3 DEF IsList

LEMMA ListConcat ==
  ASSUME NEW s, IsList(s), NEW t, IsList(t)
  PROVE  /\ IsList(s \o t) /\ Len(s \o t) = Len(s) + Len(t)
         /\ \A x : x \in Range(s \o t) <=> x \in Range(s) \/ x \in Range(t)
<1>1. PICK S : S = Range(s) \cup Range(t)
  OBVIOUS
<1>2. s \in Seq(S) /\ t \in Seq(S)
  BY <1>1, SeqMonotonic DEF IsList
<1>3. PICK u : u = s \o t
  OBVIOUS
<1>4. PICK m, n : m = Len(s) /\ n = Len(t)
  OBVIOUS
<1>5. /\ m \in Nat /\ n \in Nat
      /\ u \in Seq(S) /\ Len(u) = m + n
      /\ \A i \in 1..m + n : u[i] = IF i <= m THEN s[i] ELSE t[i - m]
  BY <1>2, <1>3, <1>4, LenProperties, ConcatProperties
<1>6. DOMAIN s = 1..m /\ DOMAIN t = 1..n /\ DOMAIN u = 1..m + n
  BY <1>2, <1>4, <1>5, LenProperties
<1>7. IsList(u) /\ Range(u) \subseteq S
  BY <1>5, ListIn
<1>8. ASSUME NEW x \in Range(s) PROVE x \in Range(u)
  <2>1. PICK i \in 1..m : s[i] = x
    BY <1>6, <1>8 DEF Range
  <2>2. i \in 1..m + n /\ u[i] = x
    BY <1>5, <2>1
  <2> QED
    BY <1>6, <2>2 DEF Range
<1>9. ASSUME NEW x \in Range(t) PROVE x \in Range(u)
  <2>1. PICK i \in 1..n : t[i] = x
    BY <1>6, <1>9 DEF Range
  <2>2. i + m \in 1..m + n /\ ~(i + m <= m) /\ i + m - m = i
    BY <1>5, <2>1
  <2>3. u[i + m] = x
    BY <1>5, <2>1, <2>2
  <2> QED
    BY <1>6, <2>2, <2>3 DEF Range
<1> QED
  BY <1>1, <1>3, <1>4, <1>5, <1>7, <1>8, <1>9

LEMMA ListAppend ==
  ASSUME NEW s, IsList(s), NEW e
  PROVE  /\ IsList(Append(s, e)) /\ Len(Append(s, e)) = Len(s) + 1
         /\ \A i \in 1..Len(s) : Append(s, e)[i] = s[i]
         /\ Append(s, e)[Len(s) + 1] = e
         /\ \A x : x \in Range(Append(s, e)) <=> x \in Range(s) \/ x = e
<1>1. PICK S : S = Range(s) \cup {e}
  OBVIOUS
<1>2. s \in Seq(S) /\ e \in S
  BY <1>1, SeqMonotonic DEF IsList
<1>3. PICK u, n : u = Append(s, e) /\ n = Len(s)
  OBVIOUS
<1>4. /\ n \in Nat /\ DOMAIN s = 1..n
      /\ u \in Seq(S) /\ Len(u) = n + 1 /\ DOMAIN u = 1..n + 1
      /\ \A i \in 1..n : u[i] = s[i]
      /\ u[n + 1] = e
  BY <1>2, <1>3, LenProperties, AppendProperties
<1>5. IsList(u) /\ Range(u) \subseteq S
  BY <1>4, ListIn
<1>6. ASSUME NEW x \in Range(s) PROVE x \in Range(u)
  <2>1. PICK i \in 1..n : s[i] = x
    BY <1>4, <1>6 DEF Range
  <2>2. i \in 1..n + 1
    BY <1>4, <2>1
  <2> QED
    BY <1>4, <2>1, <2>2 DEF Range
<1>7. e \in Range(u)
  <2>1. n + 1 \in 1..n + 1
    BY <1>4
  <2> QED
    BY <1>4, <2>1 DEF Range
<1> QED
  BY <1>1, <1>3, <1>4, <1>5, <1>6, <1>7

\* The first elements of a list.
LEMMA ListPrefix ==
  ASSUME NEW s, IsList(s), NEW n \in Nat, n <= Len(s)
  PROVE  /\ IsList(SubSeq(s, 1, n)) /\ Len(SubSeq(s, 1, n)) = n
         /\ \A i \in 1..n : SubSeq(s, 1, n)[i] = s[i]
<1>1. PICK S : S = Range(s)
  OBVIOUS
<1>2. s \in Seq(S)
  BY <1>1 DEF IsList
<1>3. SubSeq(s, 1, n) \in Seq(S) /\ Len(SubSeq(s, 1, n)) = n /\ \A i \in 1..n : SubSeq(s, 1, n)[i] = s[i]
  <2>1. Len(s) \in Nat
    BY <1>2, LenProperties
  <2>2. \A i \in 1..n : s[i] \in S
    BY <1>2, <2>1, LenProperties
  <2>3. PICK u : u = SubSeq(s, 1, n)
    OBVIOUS
  <2>4. 1 \in Int /\ n \in Int /\ n + 1 >= 1 /\ \A i \in 1..n : s[i] \in S
    BY <2>2
  <2>5. /\ u \in Seq(S)
        /\ Len(u) = IF 1 <= n THEN n - 1 + 1 ELSE 0
        /\ \A i \in 1..n - 1 + 1 : u[i] = s[1 + i - 1]
    BY <2>3, <2>4, SubSeqProperties
  <2>6. Len(u) = n
    BY <2>5
  <2>7. \A i \in 1..n : i \in 1..n - 1 + 1 /\ 1 + i - 1 = i
    OBVIOUS
  <2> QED
    BY <2>3, <2>5, <2>6, <2>7
<1> QED
  BY <1>3, ListIn

\* A list without duplicates is as long as its range is large.
LEMMA DistinctList ==
  ASSUME NEW s, IsList(s), \A i, j \in 1..Len(s) : s[i] = s[j] => i = j
  PROVE  IsFiniteSet(Range(s)) /\ Cardinality(Range(s)) = Len(s)
<1>1. PICK n, S : n = Len(s) /\ S = Range(s)
  OBVIOUS
<1>2. n \in Nat /\ s \in [1..n -> S] /\ IsFiniteSet(1..n) /\ Cardinality(1..n) = n
  BY <1>1, ListDomain, LenProperties DEF IsList
<1>3. s \in Surjection(1..n, S)
  BY <1>1, <1>2 DEF Surjection, Range
<1>4. s \in Injection(1..n, S)
  BY <1>1, <1>2 DEF Injection, IsInjective
<1> QED
  BY <1>1, <1>2, <1>3, <1>4, FS_Surjection

LEMMA LeastOf ==
  ASSUME NEW T, T \subseteq Nat, T # {}
  PROVE  \E x \in T : \A y \in T : x <= y
<1>1. PICK x \in T : \A y \in T : ~ (<<y, x>> \in OpToRel(<, Nat))
  BY NatLessThanWellFounded, WFMin
<1>2. \A y \in T : ~(y < x)
  BY <1>1 DEF OpToRel
<1> QED
  BY <1>2

LEMMA GreatestOf ==
  ASSUME NEW T, T \subseteq Nat, T # {}, NEW n \in Nat, \A y \in T : y <= n
  PROVE  \E x \in T : \A y \in T : y <= x
<1>1. PICK below : below = {n - y : y \in T}
  OBVIOUS
<1>2. below \subseteq Nat /\ below # {}
  <2>1. \A y \in T : n - y \in Nat
    OBVIOUS
  <2>2. PICK y \in T : TRUE
    OBVIOUS
  <2>3. n - y \in below
    BY <1>1
  <2> QED
    BY <1>1, <2>1, <2>3
<1>3. PICK d \in below : \A y \in below : d <= y
  BY <1>2, LeastOf
<1>4. PICK x \in T : d = n - x
  BY <1>1
<1>5. ASSUME NEW y \in T PROVE y <= x
  <2>1. n - y \in below
    BY <1>1
  <2> QED
    BY <1>3, <1>4, <2>1
<1> QED
  BY <1>5

LEMMA BijectionParts ==
  ASSUME NEW S, NEW T, NEW b, b \in Bijection(S, T)
  PROVE  /\ \A x \in S : b[x] \in T
         /\ \A x, y \in S : b[x] = b[y] => x = y
         /\ \A z \in T : \E x \in S : b[x] = z
BY DEF Bijection, Injection, IsInjective, Surjection

\* The numbers from 1 to m, each in one of the groups of E.
Grouped(m, E, group, size) ==
    /\ \A e \in E : group[e] \subseteq 1..m /\ size[e] = Cardinality(group[e])
    /\ \A k \in 1..m : \E e \in E : k \in group[e]
    /\ \A e, f \in E : \A k \in 1..m : k \in group[e] /\ k \in group[f] => e = f

\* They may be counted group by group.
LEMMA GroupedCount ==
  ASSUME NEW m \in Nat, NEW E, NEW group, NEW size, Grouped(m, E, group, size)
  PROVE  Cardinality(UNION {{e} \X (1..size[e]) : e \in E}) = m
<1>1. PICK pairs : pairs = UNION {{e} \X (1..size[e]) : e \in E}
  OBVIOUS
<1>2. \A e \in E : \A k \in 1..size[e] : <<e, k>> \in pairs
  BY <1>1
<1>3. \A p \in pairs : \E e \in E : \E k \in 1..size[e] : p = <<e, k>>
  BY <1>1
<1>4. PICK at : at = [e \in E |-> CHOOSE b : b \in Bijection(1..Cardinality(group[e]), group[e])]
  OBVIOUS
<1>5. ASSUME NEW e \in E PROVE at[e] \in Bijection(1..size[e], group[e])
  <2>1. PICK G : G = group[e]
    OBVIOUS
  <2>2. IsFiniteSet(1..m)
    <3>1. 1 \in Int /\ m \in Int
      OBVIOUS
    <3> QED
      BY <3>1, FS_Interval
  <2>3. IsFiniteSet(G)
    BY <2>1, <2>2, FS_Subset DEF Grouped
  <2>4. ExistsBijection(1..Cardinality(G), G)
    BY <2>3, FS_NatBijection, FS_CountingElements
  <2>5. \E b : b \in Bijection(1..Cardinality(G), G)
    BY <2>4 DEF ExistsBijection
  <2>6. at[e] = CHOOSE b : b \in Bijection(1..Cardinality(G), G)
    BY <1>4, <2>1
  <2>7. at[e] \in Bijection(1..Cardinality(G), G)
    BY <2>5, <2>6
  <2> QED
    BY <2>1, <2>7 DEF Grouped
<1>6. \A e \in E :
         /\ \A k \in 1..size[e] : at[e][k] \in group[e]
         /\ \A k, l \in 1..size[e] : at[e][k] = at[e][l] => k = l
         /\ \A i \in group[e] : \E k \in 1..size[e] : at[e][k] = i
  <2> TAKE e \in E
  <2>1. PICK S, T, b : S = 1..size[e] /\ T = group[e] /\ b = at[e]
    OBVIOUS
  <2>2. b \in Bijection(S, T)
    BY <1>5, <2>1
  <2>3. /\ \A x \in S : b[x] \in T
        /\ \A x, y \in S : b[x] = b[y] => x = y
        /\ \A z \in T : \E x \in S : b[x] = z
    BY <2>2, BijectionParts
  <2> QED
    BY <2>1, <2>3
<1>7. PICK to : to = [p \in pairs |-> at[p[1]][p[2]]]
  OBVIOUS
<1>8. \A e \in E : \A k \in 1..size[e] : to[<<e, k>>] = at[e][k]
  BY <1>2, <1>7
<1>9. to \in [pairs -> 1..m]
  <2>1. \A p \in pairs : to[p] \in 1..m
    BY <1>3, <1>6, <1>8 DEF Grouped
  <2> QED
    BY <1>7, <2>1
<1>10. ASSUME NEW p \in pairs, NEW q \in pairs, to[p] = to[q] PROVE p = q
  <2>1. PICK e \in E : \E k \in 1..size[e] : p = <<e, k>>
    BY <1>3
  <2>2. PICK k \in 1..size[e] : p = <<e, k>>
    BY <2>1
  <2>3. PICK f \in E : \E l \in 1..size[f] : q = <<f, l>>
    BY <1>3
  <2>4. PICK l \in 1..size[f] : q = <<f, l>>
    BY <2>3
  <2>5. at[e][k] = at[f][l] /\ at[e][k] \in group[e] /\ at[f][l] \in group[f]
    BY <1>6, <1>8, <1>10, <2>2, <2>4
  <2>6. e = f
    BY <2>5 DEF Grouped
  <2>7. k = l
    BY <1>6, <2>5, <2>6
  <2> QED
    BY <2>2, <2>4, <2>6, <2>7
<1>11. ASSUME NEW i \in 1..m PROVE \E p \in pairs : to[p] = i
  <2>1. PICK e \in E : i \in group[e]
    BY DEF Grouped
  <2>2. PICK k \in 1..size[e] : at[e][k] = i
    BY <1>6, <2>1
  <2>3. <<e, k>> \in pairs
    BY <1>2
  <2>4. to[<<e, k>>] = i
    BY <1>8, <2>2
  <2> QED
    BY <2>3, <2>4
<1>12. to \in Bijection(pairs, 1..m)
  <2>1. to \in Injection(pairs, 1..m)
    BY <1>9, <1>10 DEF Injection, IsInjective
  <2>2. to \in Surjection(pairs, 1..m)
    BY <1>9, <1>11 DEF Surjection
  <2> QED
    BY <2>1, <2>2 DEF Bijection
<1>13. ExistsBijection(1..m, pairs)
  <2>1. ExistsBijection(pairs, 1..m)
    BY <1>12 DEF ExistsBijection
  <2> QED
    BY <2>1, Fun_ExistsBijSymmetric
<1>14. Cardinality(pairs) = m
  BY <1>13, FS_CountingElements
<1> QED
  BY <1>1, <1>14

\* A finite set of integers has a least and a greatest element.
LEMMA BoundsOf ==
  ASSUME NEW S, IsFiniteSet(S), S \subseteq Int, S # {}
  PROVE  /\ \E x \in S : \A y \in S : x <= y
         /\ \E x \in S : \A y \in S : x >= y
<1> DEFINE n == Cardinality(S)
<1>1. PICK at : Enumerates(at, S, Earlier(S))
  BY EarlierIsTotal, Arrangement
<1>2. n \in Nat /\ n # 0
  BY FS_CardinalityType, FS_EmptySet
<1>3. at[n] \in S /\ at[1] \in S
  BY <1>1, <1>2 DEF Enumerates
<1>4. \A k, l \in 1..n : k < l => at[k] < at[l]
  BY <1>1 DEF Enumerates, Earlier
<1>5. \A y \in S : \E k \in 1..n : at[k] = y
  BY <1>1 DEF Enumerates
<1> HIDE DEF n
<1>6. ASSUME NEW y \in S
      PROVE  at[n] >= y /\ at[1] <= y
  <2>1. PICK k \in 1..n : at[k] = y
    BY <1>5
  <2>2. (k = n \/ at[k] < at[n]) /\ (k = 1 \/ at[1] < at[k])
    BY <1>2, <1>4
  <2>3. y \in Int /\ at[n] \in Int /\ at[1] \in Int
    BY <1>3
  <2> QED
    BY <2>1, <2>2, <2>3
<1> QED
  BY <1>3, <1>6

\* There is one enumeration in an order.
LEMMA OneEnumeration ==
  ASSUME NEW keep, IsFiniteSet(keep), NEW ahead, TotalOrder(keep, ahead),
         NEW a, Enumerates(a, keep, ahead), NEW b, Enumerates(b, keep, ahead)
  PROVE  a = b
<1>1. PICK n : n = Cardinality(keep) /\ n \in Nat
  BY FS_CardinalityType
<1>2. /\ a \in [1..n -> keep] /\ b \in [1..n -> keep]
      /\ \A i \in keep : \E k \in 1..n : a[k] = i
      /\ \A i \in keep : \E k \in 1..n : b[k] = i
      /\ \A k, l \in 1..n : a[k] = a[l] => k = l
      /\ \A k, l \in 1..n : b[k] = b[l] => k = l
      /\ \A k, l \in 1..n : k < l <=> <<a[k], a[l]>> \in ahead
      /\ \A k, l \in 1..n : k < l <=> <<b[k], b[l]>> \in ahead
  BY <1>1 DEF Enumerates
<1>3. PICK T : T = {k \in 1..n : a[k] # b[k]}
  OBVIOUS
<1>4. CASE T # {}
  <2>1. PICK k \in T : \A l \in T : k <= l
    BY <1>3, <1>4, LeastOf
  <2>2. k \in 1..n /\ \A l \in 1..n : l < k => a[l] = b[l]
    BY <1>1, <1>3, <2>1
  <2>3. PICK l \in 1..n : b[l] = a[k]
    BY <1>2, <2>2
  <2>4. PICK m \in 1..n : a[m] = b[k]
    BY <1>2, <2>2
  <2>5. a[k] # b[k]
    BY <1>3
  <2>6. ~(l < k) /\ l # k
    BY <1>2, <2>2, <2>3, <2>5
  <2>7. ~(m < k) /\ m # k
    BY <1>2, <2>2, <2>4, <2>5
  <2>8. k < l /\ k < m
    BY <1>1, <2>2, <2>6, <2>7
  <2>9. <<b[k], b[l]>> \in ahead /\ <<a[k], a[m]>> \in ahead
    BY <1>2, <2>2, <2>8
  <2>10. <<b[l], b[k]>> \in ahead
    BY <2>3, <2>4, <2>9
  <2>11. l < k
    BY <1>2, <2>2, <2>10
  <2> QED
    BY <1>1, <2>2, <2>8, <2>11
<1>5. CASE T = {}
  <2>1. \A k \in 1..n : a[k] = b[k]
    BY <1>3, <1>5
  <2>2. DOMAIN a = 1..n /\ DOMAIN b = 1..n /\ a = [k \in 1..n |-> a[k]] /\ b = [k \in 1..n |-> b[k]]
    BY <1>2
  <2> QED
    BY <2>1, <2>2
<1> QED
  BY <1>4, <1>5

\* So that whoever knows the enumeration knows the arrangement.
LEMMA ArrangedIs ==
  ASSUME NEW s, NEW keep, IsFiniteSet(keep), NEW ahead, TotalOrder(keep, ahead),
         NEW at, Enumerates(at, keep, ahead)
  PROVE  Arranged(s, keep, ahead) = [k \in 1..Cardinality(keep) |-> s[at[k]]]
<1>1. PICK b : /\ Enumerates(b, keep, ahead)
               /\ Arranged(s, keep, ahead) = [k \in 1..Cardinality(keep) |-> s[b[k]]]
  BY Arrangement
<1>2. at = b
  BY <1>1, OneEnumeration
<1> QED
  BY <1>1, <1>2

\* A sequence of sequences that is flattened keeps every element at a place of
\* its own, in the order of the places.
Places(ss) == UNION {{k} \X DOMAIN ss[k] : k \in DOMAIN ss}
PlaceOrder(ss) == {p \in Places(ss) \X Places(ss) :
                     p[1][1] < p[2][1] \/ (p[1][1] = p[2][1] /\ p[1][2] < p[2][2])}
ListOfLists(ss) ==
    /\ IsFiniteSet(DOMAIN ss) /\ DOMAIN ss \subseteq Int
    /\ \A k \in DOMAIN ss : IsFiniteSet(DOMAIN ss[k]) /\ DOMAIN ss[k] \subseteq Int

LEMMA PlacesAre ==
  ASSUME NEW ss
  PROVE  /\ \A p \in Places(ss) : p[1] \in DOMAIN ss /\ p[2] \in DOMAIN ss[p[1]] /\ p = <<p[1], p[2]>>
         /\ \A k \in DOMAIN ss : \A i \in DOMAIN ss[k] : <<k, i>> \in Places(ss)
BY DEF Places

LEMMA PlacesTotal ==
  ASSUME NEW ss, ListOfLists(ss)
  PROVE  TotalOrder(Places(ss), PlaceOrder(ss)) /\ IsFiniteSet(Places(ss))
<1>1. ASSUME NEW p \in Places(ss), NEW q \in Places(ss)
      PROVE  <<p, q>> \in PlaceOrder(ss) <=> p[1] < q[1] \/ (p[1] = q[1] /\ p[2] < q[2])
  <2>1. PICK x : x = <<p, q>>
    OBVIOUS
  <2>2. x \in Places(ss) \X Places(ss) /\ x[1] = p /\ x[2] = q
    BY <2>1
  <2> QED
    BY <2>1, <2>2 DEF PlaceOrder
<1>2. \A p \in Places(ss) : p[1] \in Int /\ p[2] \in Int /\ p = <<p[1], p[2]>>
  BY PlacesAre DEF ListOfLists
<1>3. TotalOrder(Places(ss), PlaceOrder(ss))
  <2>1. \A p \in Places(ss) : <<p, p>> \notin PlaceOrder(ss)
    BY <1>1, <1>2
  <2>2. ASSUME NEW p \in Places(ss), NEW q \in Places(ss), p # q
        PROVE  <<p, q>> \in PlaceOrder(ss) \/ <<q, p>> \in PlaceOrder(ss)
    <3>1. p[1] # q[1] \/ p[2] # q[2]
      BY <1>2, <2>2
    <3> QED
      BY <1>1, <1>2, <3>1
  <2>3. ASSUME NEW p \in Places(ss), NEW q \in Places(ss), NEW r \in Places(ss),
               <<p, q>> \in PlaceOrder(ss), <<q, r>> \in PlaceOrder(ss)
        PROVE  <<p, r>> \in PlaceOrder(ss)
    <3>1. p[1] < q[1] \/ (p[1] = q[1] /\ p[2] < q[2])
      BY <1>1, <2>3
    <3>2. q[1] < r[1] \/ (q[1] = r[1] /\ q[2] < r[2])
      BY <1>1, <2>3
    <3>3. p[1] < r[1] \/ (p[1] = r[1] /\ p[2] < r[2])
      BY <1>2, <3>1, <3>2
    <3> QED
      BY <1>1, <3>3
  <2> QED
    BY <2>1, <2>2, <2>3 DEF TotalOrder
<1>4. IsFiniteSet(Places(ss))
  <2>1. PICK SS : SS = {{k} \X DOMAIN ss[k] : k \in DOMAIN ss}
    OBVIOUS
  <2>2. \A T \in SS : IsFiniteSet(T)
    <3>1. ASSUME NEW k \in DOMAIN ss PROVE IsFiniteSet({k} \X DOMAIN ss[k])
      <4>1. IsFiniteSet({k}) /\ IsFiniteSet(DOMAIN ss[k])
        BY FS_Singleton DEF ListOfLists
      <4> QED
        BY <4>1, FS_Product
    <3> QED
      BY <2>1, <3>1
  <2>3. IsFiniteSet(SS)
    <3>1. PICK f : f = [k \in DOMAIN ss |-> {k} \X DOMAIN ss[k]]
      OBVIOUS
    <3>2. f \in [DOMAIN ss -> SS] /\ \A T \in SS : \E k \in DOMAIN ss : f[k] = T
      BY <2>1, <3>1
    <3>3. f \in Surjection(DOMAIN ss, SS)
      BY <3>2, Fun_IsSurj
    <3> QED
      BY <3>3, FS_Surjection DEF ListOfLists
  <2>4. IsFiniteSet(UNION SS)
    BY <2>2, <2>3, FS_UNION
  <2> QED
    BY <2>1, <2>4 DEF Places
<1> QED
  BY <1>3, <1>4

LEMMA FlattenedLists ==
  ASSUME NEW ss, ListOfLists(ss)
  PROVE  \E at : /\ Enumerates(at, Places(ss), PlaceOrder(ss))
                 /\ Lists(Flattened(ss), [p \in Places(ss) |-> ss[p[1]][p[2]]], Places(ss), at)
<1>1. PICK s : s = [p \in Places(ss) |-> ss[p[1]][p[2]]]
  OBVIOUS
<1>2. Flattened(ss) = Arranged(s, Places(ss), PlaceOrder(ss))
  BY <1>1 DEF Flattened, Places, PlaceOrder
<1>3. TotalOrder(Places(ss), PlaceOrder(ss)) /\ IsFiniteSet(Places(ss))
  BY PlacesTotal
<1>4. PICK at : /\ Enumerates(at, Places(ss), PlaceOrder(ss))
                /\ Arranged(s, Places(ss), PlaceOrder(ss)) = [k \in 1..Cardinality(Places(ss)) |-> s[at[k]]]
  <2>1. PICK keep, ahead : keep = Places(ss) /\ ahead = PlaceOrder(ss)
    OBVIOUS
  <2>2. IsFiniteSet(keep) /\ TotalOrder(keep, ahead)
    BY <1>3, <2>1
  <2>3. \E at : /\ Enumerates(at, keep, ahead)
                /\ Arranged(s, keep, ahead) = [k \in 1..Cardinality(keep) |-> s[at[k]]]
    BY <2>2, Arrangement
  <2> QED
    BY <2>1, <2>3
<1>5. Lists(Flattened(ss), s, Places(ss), at)
  BY <1>2, <1>3, <1>4, EnumeratedLists
<1> QED
  BY <1>1, <1>4, <1>5

\* Induction from 0 to n, over a set.
LEMMA UpTo ==
  ASSUME NEW n \in Nat, NEW S, 0 \in S, \A k \in 0..n : k < n /\ k \in S => k + 1 \in S
  PROVE  \A k \in 0..n : k \in S
<1>1. PICK T : T = {k \in 0..n : k \notin S}
  OBVIOUS
<1>2. CASE T # {}
  <2>1. PICK k \in T : \A l \in T : k <= l
    BY <1>1, <1>2, LeastOf
  <2>2. k \in 0..n /\ k \notin S /\ k # 0
    BY <1>1
  <2>3. k - 1 \in 0..n /\ k - 1 < n /\ k - 1 \notin T
    BY <2>1, <2>2
  <2>4. k - 1 \in S /\ (k - 1) + 1 = k
    BY <1>1, <2>2, <2>3
  <2> QED
    BY <2>2, <2>3, <2>4
<1> QED
  BY <1>1, <1>2
=============================================================================
