----------------------------- MODULE QueueProofs -----------------------------
(***************************************************************************)
(* What the operations of the event queue do to its contents: the types of *)
(* its fields, how many ready events a channel has, which events are where *)
(* and which are gone.  Modules ContentProofs and PlaceProofs combine      *)
(* these facts with the main loop.                                         *)
(***************************************************************************)
EXTENDS Harness, SequenceTheorems, FiniteSetTheorems, TLAPS

-----------------------------------------------------------------------------
(* Ranks *)

\* In a finite set under a strict total order R, for every k there is an element
\* with k - 1 elements before it, and only one.
LEMMA RankExists ==
  ASSUME NEW D, IsFiniteSet(D), NEW R,
         \A i \in D : <<i, i>> \notin R,
         \A i, j, m \in D : <<i, j>> \in R /\ <<j, m>> \in R => <<i, m>> \in R,
         \A i, j \in D : i # j => <<i, j>> \in R \/ <<j, i>> \in R
  PROVE  /\ \A k \in 1 .. Cardinality(D) :
              \E i \in D : Cardinality({j \in D : <<j, i>> \in R}) = k - 1
         /\ \A i, m \in D : Cardinality({j \in D : <<j, i>> \in R})
                              = Cardinality({j \in D : <<j, m>> \in R}) => i = m
<1> DEFINE below(i) == {j \in D : <<j, i>> \in R}
           n == Cardinality(D)
           rank == [i \in D |-> Cardinality(below(i))]
<1>1. n \in Nat
  BY FS_CardinalityType
<1>a. \A i \in D : below(i) \in SUBSET (D \ {i})
  OBVIOUS
<1>b. \A i, m \in D : <<i, m>> \in R => below(i) \in SUBSET (below(m) \ {i}) /\ i \in below(m)
  OBVIOUS
<1> HIDE DEF below
<1>2. ASSUME NEW i \in D
      PROVE  IsFiniteSet(below(i)) /\ Cardinality(below(i)) \in 0 .. n - 1
  <2>2. IsFiniteSet(D \ {i}) /\ Cardinality(D \ {i}) = n - 1
    BY FS_RemoveElement
  <2>3. IsFiniteSet(below(i)) /\ Cardinality(below(i)) <= n - 1
    BY <1>a, <2>2, FS_Subset
  <2>4. Cardinality(below(i)) \in Nat
    BY <2>3, FS_CardinalityType
  <2> QED
    BY <1>1, <2>3, <2>4
<1> HIDE DEF n
<1>c. \A i \in D : Cardinality(below(i)) \in Nat
  BY <1>1, <1>2
<1>3. ASSUME NEW i \in D, NEW m \in D, <<i, m>> \in R
      PROVE  Cardinality(below(i)) < Cardinality(below(m))
  <2>1. below(i) \in SUBSET (below(m) \ {i}) /\ i \in below(m)
    BY <1>3, <1>b
  <2>2. IsFiniteSet(below(m) \ {i}) /\ Cardinality(below(m) \ {i}) = Cardinality(below(m)) - 1
    BY <1>2, <2>1, FS_RemoveElement
  <2>3. Cardinality(below(i)) <= Cardinality(below(m)) - 1
    BY <2>1, <2>2, FS_Subset
  <2> QED
    BY <1>c, <2>3
<1>4. \A i, m \in D : Cardinality(below(i)) = Cardinality(below(m)) => i = m
  <2> SUFFICES ASSUME NEW i \in D, NEW m \in D, i # m
               PROVE  Cardinality(below(i)) # Cardinality(below(m))
    OBVIOUS
  <2>2. Cardinality(below(i)) < Cardinality(below(m)) \/ Cardinality(below(m)) < Cardinality(below(i))
    BY <1>3
  <2> QED
    BY <1>c, <2>2
<1>5. rank \in Injection(D, 0 .. n - 1)
  BY <1>2, <1>4 DEF Injection, IsInjective
<1>6. IsFiniteSet(0 .. n - 1) /\ Cardinality(0 .. n - 1) = n
  <2>1. 0 \in Int /\ n - 1 \in Int /\ (0 > n - 1 => n = 0) /\ (n - 1) - 0 + 1 = n
    BY <1>1
  <2> QED
    BY <2>1, FS_Interval
<1> HIDE DEF rank
<1>7. rank \in Surjection(D, 0 .. n - 1)
  BY <1>5, <1>6, FS_Injection DEF n
<1>8. ASSUME NEW k \in 1 .. n PROVE \E i \in D : Cardinality(below(i)) = k - 1
  <2>1. k - 1 \in 0 .. n - 1
    BY <1>1
  <2>2. \E i \in D : rank[i] = k - 1
    BY <1>7, <2>1 DEF Surjection
  <2> QED
    BY <2>2 DEF rank
<1> QED
  BY <1>4, <1>8 DEF below, n

-----------------------------------------------------------------------------
(* Sequences of entries *)

\* The entries of r are entries of s, no two of r the same one of s; how they are
\* ordered, exempted and edited does not matter.
Drawn(r, s) ==
  \E f \in [1 .. Len(r) -> 1 .. Len(s)] :
    /\ \A i, j \in 1 .. Len(r) : f[i] = f[j] => i = j
    /\ \A i \in 1 .. Len(r) : r[i].id = s[f[i]].id /\ r[i].received_at = s[f[i]].received_at

\* No event occurs twice in s.
NoDup(s) == \A i, j \in 1 .. Len(s) : s[i].id = s[j].id => i = j

\* No event of s was received after stamp n.
Stamped(s, n) == \A i \in 1 .. Len(s) : s[i].received_at <= n

\* 1 .. n has n elements.
LEMMA IntervalCard ==
  ASSUME NEW n \in Nat
  PROVE  IsFiniteSet(1 .. n) /\ Cardinality(1 .. n) = n
<1>1. 1 \in Int /\ n \in Int /\ (1 > n => n = 0) /\ n - 1 + 1 = n
  OBVIOUS
<1> QED
  BY <1>1, FS_Interval

\* What is drawn from s has no event s does not have, none twice, and is not longer.
LEMMA DrawnProperties ==
  ASSUME NEW S, NEW r \in Seq(S), NEW s \in Seq(S), Drawn(r, s)
  PROVE  /\ Ids(r) \subseteq Ids(s)
         /\ NoDup(s) => NoDup(r)
         /\ \A n : Stamped(s, n) => Stamped(r, n)
         /\ Len(r) <= Len(s)
<1>1. PICK f \in [1 .. Len(r) -> 1 .. Len(s)] :
        /\ \A i, j \in 1 .. Len(r) : f[i] = f[j] => i = j
        /\ \A i \in 1 .. Len(r) : r[i].id = s[f[i]].id /\ r[i].received_at = s[f[i]].received_at
  BY DEF Drawn
<1>2. DOMAIN r = 1 .. Len(r) /\ DOMAIN s = 1 .. Len(s) /\ Len(r) \in Nat /\ Len(s) \in Nat
  BY LenProperties
<1>3. Ids(r) \subseteq Ids(s)
  BY <1>1, <1>2 DEF Ids
<1>4. ASSUME NoDup(s) PROVE NoDup(r)
  <2> SUFFICES ASSUME NEW i \in 1 .. Len(r), NEW j \in 1 .. Len(r), r[i].id = r[j].id
               PROVE  i = j
    BY DEF NoDup
  <2>1. f[i] \in 1 .. Len(s) /\ f[j] \in 1 .. Len(s) /\ s[f[i]].id = s[f[j]].id
    BY <1>1
  <2>2. f[i] = f[j]
    BY <1>4, <2>1 DEF NoDup
  <2> QED
    BY <1>1, <2>2
<1>8. \A n : Stamped(s, n) => Stamped(r, n)
  BY <1>1 DEF Stamped
<1>5. f \in Injection(1 .. Len(r), 1 .. Len(s))
  BY <1>1 DEF Injection, IsInjective
<1>6. /\ IsFiniteSet(1 .. Len(s)) /\ Cardinality(1 .. Len(s)) = Len(s)
      /\ Cardinality(1 .. Len(r)) = Len(r)
  BY <1>2, IntervalCard
<1>7. Len(r) <= Len(s)
  BY <1>5, <1>6, FS_Injection
<1> QED
  BY <1>3, <1>4, <1>7, <1>8

\* Everything is drawn from itself.
LEMMA DrawnSelf ==
  ASSUME NEW s
  PROVE  Drawn(s, s)
<1> DEFINE f == [i \in 1 .. Len(s) |-> i]
<1>1. /\ f \in [1 .. Len(s) -> 1 .. Len(s)]
      /\ \A i, j \in 1 .. Len(s) : f[i] = f[j] => i = j
      /\ \A i \in 1 .. Len(s) : s[i].id = s[f[i]].id /\ s[i].received_at = s[f[i]].received_at
  OBVIOUS
<1> HIDE DEF f
<1> QED
  BY <1>1 DEF Drawn

\* What is drawn from something drawn from t is drawn from t.
LEMMA DrawnTrans ==
  ASSUME NEW r, NEW s, NEW t, Drawn(r, s), Drawn(s, t)
  PROVE  Drawn(r, t)
<1>1. PICK f \in [1 .. Len(r) -> 1 .. Len(s)] :
        /\ \A i, j \in 1 .. Len(r) : f[i] = f[j] => i = j
        /\ \A i \in 1 .. Len(r) : r[i].id = s[f[i]].id /\ r[i].received_at = s[f[i]].received_at
  BY DEF Drawn
<1>2. PICK g \in [1 .. Len(s) -> 1 .. Len(t)] :
        /\ \A i, j \in 1 .. Len(s) : g[i] = g[j] => i = j
        /\ \A i \in 1 .. Len(s) : s[i].id = t[g[i]].id /\ s[i].received_at = t[g[i]].received_at
  BY DEF Drawn
<1> DEFINE h == [i \in 1 .. Len(r) |-> g[f[i]]]
<1>3. /\ h \in [1 .. Len(r) -> 1 .. Len(t)]
      /\ \A i, j \in 1 .. Len(r) : h[i] = h[j] => i = j
      /\ \A i \in 1 .. Len(r) : r[i].id = t[h[i]].id /\ r[i].received_at = t[h[i]].received_at
  BY <1>1, <1>2
<1> HIDE DEF h
<1> QED
  BY <1>3 DEF Drawn

\* An entry is added to both.
LEMMA DrawnAppend ==
  ASSUME NEW S, NEW r \in Seq(S), NEW s \in Seq(S), NEW x \in S, Drawn(r, s)
  PROVE  Drawn(Append(r, x), Append(s, x))
<1>1. PICK f \in [1 .. Len(r) -> 1 .. Len(s)] :
        /\ \A i, j \in 1 .. Len(r) : f[i] = f[j] => i = j
        /\ \A i \in 1 .. Len(r) : r[i].id = s[f[i]].id /\ r[i].received_at = s[f[i]].received_at
  BY DEF Drawn
<1> DEFINE m == Len(r)
           n == Len(s)
           rx == Append(r, x)
           sx == Append(s, x)
           h == [i \in 1 .. m + 1 |-> IF i = m + 1 THEN n + 1 ELSE f[i]]
<1>2. m \in Nat /\ n \in Nat
  BY LenProperties
<1>3. /\ Len(rx) = m + 1 /\ Len(sx) = n + 1 /\ rx[m + 1] = x /\ sx[n + 1] = x
      /\ \A i \in 1 .. m : rx[i] = r[i]
      /\ \A i \in 1 .. n : sx[i] = s[i]
  BY AppendProperties
<1>a. \A i \in 1 .. m : f[i] \in 1 .. n
  BY <1>1
<1>b. \A i, j \in 1 .. m : f[i] = f[j] => i = j
  BY <1>1
<1>c. \A i \in 1 .. m : r[i].id = s[f[i]].id /\ r[i].received_at = s[f[i]].received_at
  BY <1>1
<1> HIDE DEF m, n, rx, sx
<1>4. \A i \in 1 .. m + 1 : i = m + 1 \/ i \in 1 .. m
  BY <1>2
<1>5. h \in [1 .. m + 1 -> 1 .. n + 1]
  BY <1>2, <1>4, <1>a
<1>6. \A i \in 1 .. m : h[i] = f[i] /\ h[i] \in 1 .. n /\ h[i] # n + 1
  BY <1>2, <1>a
<1>7. h[m + 1] = n + 1
  BY <1>2
<1> HIDE DEF h
<1>8. \A i, j \in 1 .. m + 1 : h[i] = h[j] => i = j
  BY <1>4, <1>6, <1>7, <1>b
<1>9. \A i \in 1 .. m + 1 : rx[i].id = sx[h[i]].id /\ rx[i].received_at = sx[h[i]].received_at
  BY <1>3, <1>4, <1>6, <1>7, <1>c
<1>10. Drawn(rx, sx)
  <2>1. /\ h \in [1 .. Len(rx) -> 1 .. Len(sx)]
        /\ \A i, j \in 1 .. Len(rx) : h[i] = h[j] => i = j
        /\ \A i \in 1 .. Len(rx) : rx[i].id = sx[h[i]].id /\ rx[i].received_at = sx[h[i]].received_at
    BY <1>3, <1>5, <1>8, <1>9
  <2> QED
    BY <2>1 DEF Drawn
<1> QED
  BY <1>10 DEF rx, sx

\* retain drops the event and keeps the rest.
LEMMA WithoutProperties ==
  ASSUME NEW S, NEW s \in Seq(S), NEW e
  PROVE  /\ Without(s, e) \in Seq(S)
         /\ Ids(Without(s, e)) = Ids(s) \ {e}
         /\ Drawn(Without(s, e), s)
<1> DEFINE kept == {i \in DOMAIN s : s[i].id # e}
           n == Cardinality(kept)
           R == {p \in kept \X kept : p[1] < p[2]}
           at == [k \in 1 .. n |-> CHOOSE i \in kept : Cardinality({j \in kept : j < i}) = k - 1]
           w == Without(s, e)
<1>1. DOMAIN s = 1 .. Len(s) /\ Len(s) \in Nat
  BY LenProperties
<1>2. kept \subseteq 1 .. Len(s)
  BY <1>1
<1>3. IsFiniteSet(kept) /\ n \in Nat
  BY <1>1, <1>2, IntervalCard, FS_Subset, FS_CardinalityType
<1>4. w = [k \in 1 .. n |-> s[at[k]]]
  BY DEF Without
<1>kept. \A i \in 1 .. Len(s) : i \in kept <=> s[i].id # e
  BY <1>1
<1> HIDE DEF kept, n, w
<1>5. \A i \in kept : {j \in kept : j < i} = {j \in kept : <<j, i>> \in R}
  OBVIOUS
<1>6. /\ \A i \in kept : <<i, i>> \notin R
      /\ \A i, j, m \in kept : <<i, j>> \in R /\ <<j, m>> \in R => <<i, m>> \in R
      /\ \A i, j \in kept : i # j => <<i, j>> \in R \/ <<j, i>> \in R
  BY <1>1, <1>2
<1> HIDE DEF R
<1>7. /\ \A k \in 1 .. n : \E i \in kept : Cardinality({j \in kept : <<j, i>> \in R}) = k - 1
      /\ \A i, m \in kept : Cardinality({j \in kept : <<j, i>> \in R})
                              = Cardinality({j \in kept : <<j, m>> \in R}) => i = m
  BY <1>3, <1>6, RankExists DEF n
<1>8. /\ \A k \in 1 .. n : \E i \in kept : Cardinality({j \in kept : j < i}) = k - 1
      /\ \A i, m \in kept : Cardinality({j \in kept : j < i})
                              = Cardinality({j \in kept : j < m}) => i = m
  BY <1>5, <1>7
<1>9. /\ at \in [1 .. n -> kept]
      /\ \A k \in 1 .. n : Cardinality({j \in kept : j < at[k]}) = k - 1
  BY <1>8
<1> HIDE DEF at
<1>10. \A k, m \in 1 .. n : at[k] = at[m] => k = m
  <2> SUFFICES ASSUME NEW k \in 1 .. n, NEW m \in 1 .. n, at[k] = at[m] PROVE k = m
    OBVIOUS
  <2>1. k - 1 = m - 1
    BY <1>9, Zenon
  <2> QED
    BY <1>3, <2>1
<1>11. at \in Injection(1 .. n, kept)
  BY <1>9, <1>10 DEF Injection, IsInjective
<1>12. at \in Surjection(1 .. n, kept)
  BY <1>3, <1>11, IntervalCard, FS_Injection DEF n
<1>13. \A k \in 1 .. n : at[k] \in 1 .. Len(s) /\ s[at[k]].id # e /\ s[at[k]] \in S
  BY <1>2, <1>9, <1>kept, ElementOfSeq
<1>14. w \in Seq(S) /\ Len(w) = n
  BY <1>3, <1>4, <1>13
<1>15. \A k \in 1 .. n : w[k] = s[at[k]]
  BY <1>4
<1>16. DOMAIN w = 1 .. n
  BY <1>4
<1>17. Ids(w) = Ids(s) \ {e}
  <2>1. ASSUME NEW x \in Ids(w) PROVE x \in Ids(s) \ {e}
    BY <1>1, <1>13, <1>15, <1>16 DEF Ids
  <2>2. ASSUME NEW x \in Ids(s), x # e PROVE x \in Ids(w)
    <3>1. PICK i \in 1 .. Len(s) : s[i].id = x
      BY <1>1 DEF Ids
    <3>2. i \in kept
      BY <2>2, <3>1, <1>kept
    <3>3. PICK k \in 1 .. n : at[k] = i
      BY <1>12, <3>2 DEF Surjection
    <3> QED
      BY <1>15, <1>16, <3>1, <3>3 DEF Ids
  <2> QED
    BY <2>1, <2>2
<1>18. Drawn(w, s)
  <2>1. at \in [1 .. Len(w) -> 1 .. Len(s)]
    BY <1>2, <1>9, <1>14
  <2> QED
    BY <1>10, <1>14, <1>15, <2>1 DEF Drawn
<1> QED
  BY <1>14, <1>17, <1>18 DEF w

\* The sort loses and doubles nothing.
LEMMA SortProperties ==
  ASSUME NEW s \in Seq(Entry)
  PROVE  /\ SortByCreatedAt(s) \in Seq(Entry)
         /\ Len(SortByCreatedAt(s)) = Len(s)
         /\ Ids(SortByCreatedAt(s)) = Ids(s)
         /\ Drawn(SortByCreatedAt(s), s)
<1> DEFINE n == Len(s)
           Before(i, j) == \/ CreatedAt[s[i].id] < CreatedAt[s[j].id]
                           \/ CreatedAt[s[i].id] = CreatedAt[s[j].id] /\ i < j
           R == {p \in (1 .. n) \X (1 .. n) : Before(p[1], p[2])}
           at == [k \in 1 .. n |-> CHOOSE i \in 1 .. n : Cardinality({j \in 1 .. n : Before(j, i)}) = k - 1]
           w == SortByCreatedAt(s)
<1>1. DOMAIN s = 1 .. n /\ n \in Nat
  BY LenProperties
<1>2. \A i \in 1 .. n : CreatedAt[s[i].id] \in Nat
  <2>1. \A i \in 1 .. n : s[i] \in Entry
    BY ElementOfSeq
  <2> QED
    BY <2>1, QueueAssumption DEF Entry
<1>3. IsFiniteSet(1 .. n) /\ Cardinality(1 .. n) = n
  BY <1>1, IntervalCard
<1>4. w = [k \in 1 .. n |-> s[at[k]]]
  BY <1>1 DEF SortByCreatedAt
<1>5. \A i \in 1 .. n : {j \in 1 .. n : Before(j, i)} = {j \in 1 .. n : <<j, i>> \in R}
  OBVIOUS
<1>6. /\ \A i \in 1 .. n : <<i, i>> \notin R
      /\ \A i, j, m \in 1 .. n : <<i, j>> \in R /\ <<j, m>> \in R => <<i, m>> \in R
      /\ \A i, j \in 1 .. n : i # j => <<i, j>> \in R \/ <<j, i>> \in R
  <2> DEFINE t == [i \in 1 .. n |-> CreatedAt[s[i].id]]
  <2>1. \A i, j \in 1 .. n : <<i, j>> \in R <=> t[i] < t[j] \/ (t[i] = t[j] /\ i < j)
    OBVIOUS
  <2>2. t \in [1 .. n -> Nat]
    BY <1>2
  <2> HIDE DEF R, n, t
  <2>3. \A i \in 1 .. n : <<i, i>> \notin R
    BY <1>1, <2>1, <2>2
  <2>4. \A i, j \in 1 .. n : i # j => <<i, j>> \in R \/ <<j, i>> \in R
    BY <1>1, <2>1, <2>2
  <2>5. ASSUME NEW i \in 1 .. n, NEW j \in 1 .. n, NEW m \in 1 .. n, <<i, j>> \in R, <<j, m>> \in R
        PROVE  <<i, m>> \in R
    <3>1. i \in Nat /\ j \in Nat /\ m \in Nat /\ t[i] \in Nat /\ t[j] \in Nat /\ t[m] \in Nat
      BY <1>1, <2>2
    <3>2. /\ t[i] < t[j] \/ (t[i] = t[j] /\ i < j)
          /\ t[j] < t[m] \/ (t[j] = t[m] /\ j < m)
      BY <2>1, <2>5
    <3>3. t[i] < t[m] \/ (t[i] = t[m] /\ i < m)
      BY <3>1, <3>2
    <3> QED
      BY <2>1, <3>3
  <2> QED
    BY <2>3, <2>4, <2>5
<1> HIDE DEF R, w, n
<1>7. /\ \A k \in 1 .. n : \E i \in 1 .. n : Cardinality({j \in 1 .. n : <<j, i>> \in R}) = k - 1
      /\ \A i, m \in 1 .. n : Cardinality({j \in 1 .. n : <<j, i>> \in R})
                              = Cardinality({j \in 1 .. n : <<j, m>> \in R}) => i = m
  <2>1. Cardinality(1 .. n) = n
    BY <1>3
  <2>2. /\ \A k \in 1 .. Cardinality(1 .. n) :
             \E i \in 1 .. n : Cardinality({j \in 1 .. n : <<j, i>> \in R}) = k - 1
        /\ \A i, m \in 1 .. n : Cardinality({j \in 1 .. n : <<j, i>> \in R})
                              = Cardinality({j \in 1 .. n : <<j, m>> \in R}) => i = m
    BY <1>3, <1>6, RankExists
  <2> QED
    BY <2>1, <2>2
<1>8. \A k \in 1 .. n : \E i \in 1 .. n : Cardinality({j \in 1 .. n : Before(j, i)}) = k - 1
  BY <1>5, <1>7
<1> HIDE DEF Before
<1>9. /\ at \in [1 .. n -> 1 .. n]
      /\ \A k \in 1 .. n : Cardinality({j \in 1 .. n : Before(j, at[k])}) = k - 1
  BY <1>8
<1> HIDE DEF at
<1>10. \A k, m \in 1 .. n : at[k] = at[m] => k = m
  <2> SUFFICES ASSUME NEW k \in 1 .. n, NEW m \in 1 .. n, at[k] = at[m] PROVE k = m
    OBVIOUS
  <2>1. k - 1 = m - 1
    BY <1>9, Zenon
  <2> QED
    BY <1>1, <2>1
<1>11. at \in Injection(1 .. n, 1 .. n)
  BY <1>9, <1>10 DEF Injection, IsInjective
<1>12. at \in Surjection(1 .. n, 1 .. n)
  BY <1>3, <1>11, FS_Injection
<1>13. \A k \in 1 .. n : s[at[k]] \in Entry
  BY <1>9, ElementOfSeq DEF n
<1>14. w \in Seq(Entry) /\ Len(w) = n
  BY <1>1, <1>4, <1>13
<1>15. DOMAIN w = 1 .. n /\ \A k \in 1 .. n : w[k] = s[at[k]]
  BY <1>4
<1>16. Ids(w) = Ids(s)
  <2>1. ASSUME NEW x \in Ids(w) PROVE x \in Ids(s)
    BY <1>1, <1>9, <1>15 DEF Ids
  <2>2. ASSUME NEW x \in Ids(s) PROVE x \in Ids(w)
    <3>1. PICK i \in 1 .. n : s[i].id = x
      BY <1>1 DEF Ids
    <3>2. PICK k \in 1 .. n : at[k] = i
      BY <1>12 DEF Surjection
    <3> QED
      BY <1>15, <3>1, <3>2 DEF Ids
  <2> QED
    BY <2>1, <2>2
<1>17. Drawn(w, s)
  <2>1. at \in [1 .. Len(w) -> 1 .. Len(s)]
    BY <1>9, <1>14 DEF n
  <2> QED
    BY <1>10, <1>14, <1>15, <2>1 DEF Drawn
<1> QED
  BY <1>14, <1>16, <1>17 DEF w, n

\* A stretch of s is drawn from s.
LEMMA SubSeqDrawn ==
  ASSUME NEW S, NEW s \in Seq(S), NEW m \in Nat \ {0}, NEW n \in 0 .. Len(s)
  PROVE  /\ SubSeq(s, m, n) \in Seq(S)
         /\ Len(SubSeq(s, m, n)) = IF m <= n THEN n - m + 1 ELSE 0
         /\ \A i \in 1 .. n - m + 1 : SubSeq(s, m, n)[i] = s[m + i - 1]
         /\ Drawn(SubSeq(s, m, n), s)
<1>1. Len(s) \in Nat /\ \A i \in 1 .. Len(s) : s[i] \in S
  BY LenProperties, ElementOfSeq
<1>2. \A i \in m .. n : s[i] \in S
  BY <1>1
<1>3. /\ SubSeq(s, m, n) \in Seq(S)
      /\ Len(SubSeq(s, m, n)) = IF m <= n THEN n - m + 1 ELSE 0
      /\ \A i \in 1 .. n - m + 1 : SubSeq(s, m, n)[i] = s[m + i - 1]
  <2>1. m \in Int /\ n \in Int
    BY <1>1
  <2> QED
    BY <1>2, <2>1, SubSeqProperties
<1> DEFINE r == SubSeq(s, m, n)
           f == [i \in 1 .. Len(r) |-> m + i - 1]
<1>4. Len(r) \in Nat /\ Len(r) = IF m <= n THEN n - m + 1 ELSE 0
  BY <1>1, <1>3
<1>5. \A i \in 1 .. Len(r) : i \in 1 .. n - m + 1 /\ m + i - 1 \in 1 .. Len(s)
  <2> HIDE DEF r
  <2> QED
    BY <1>1, <1>4
<1> HIDE DEF r
<1>6. f \in [1 .. Len(r) -> 1 .. Len(s)] /\ \A i, j \in 1 .. Len(r) : f[i] = f[j] => i = j
  BY <1>4, <1>5
<1>7. \A i \in 1 .. Len(r) : r[i].id = s[f[i]].id /\ r[i].received_at = s[f[i]].received_at
  BY <1>3, <1>5 DEF r
<1>8. Drawn(r, s)
  BY <1>6, <1>7 DEF Drawn
<1> QED
  BY <1>3, <1>8 DEF r

\* truncate and the pops to a cap.
LEMMA KeepProperties ==
  ASSUME NEW S, NEW s \in Seq(S), NEW n \in Nat
  PROVE  /\ KeepFirst(s, n) \in Seq(S) /\ Drawn(KeepFirst(s, n), s) /\ Len(KeepFirst(s, n)) <= n
         /\ KeepLast(s, n) \in Seq(S) /\ Drawn(KeepLast(s, n), s) /\ Len(KeepLast(s, n)) <= n
         /\ Len(KeepFirst(s, n)) = 0 => s = <<>> \/ n = 0
         /\ Len(KeepFirst(s, n)) <= Len(s)
<1>1. Len(s) \in Nat
  BY LenProperties
<1>2. PICK k : k = IF Len(s) < n THEN Len(s) ELSE n
  OBVIOUS
<1>3. k \in 0 .. Len(s) /\ k <= n /\ 1 \in Nat \ {0}
  BY <1>1, <1>2
<1>4. KeepFirst(s, n) = SubSeq(s, 1, k)
  BY <1>2 DEF KeepFirst
<1>5. /\ SubSeq(s, 1, k) \in Seq(S) /\ Drawn(SubSeq(s, 1, k), s)
      /\ Len(SubSeq(s, 1, k)) = IF 1 <= k THEN k - 1 + 1 ELSE 0
  BY <1>3, SubSeqDrawn
<1>6. Len(SubSeq(s, 1, k)) = k
  BY <1>3, <1>5
<1>7. PICK m : m = IF Len(s) < n THEN 1 ELSE Len(s) - n + 1
  OBVIOUS
<1>8. m \in Nat \ {0} /\ Len(s) \in 0 .. Len(s)
  BY <1>1, <1>7
<1>9. KeepLast(s, n) = SubSeq(s, m, Len(s))
  BY <1>7 DEF KeepLast
<1>10. /\ SubSeq(s, m, Len(s)) \in Seq(S) /\ Drawn(SubSeq(s, m, Len(s)), s)
       /\ Len(SubSeq(s, m, Len(s))) = IF m <= Len(s) THEN Len(s) - m + 1 ELSE 0
  BY <1>8, SubSeqDrawn
<1>11. Len(SubSeq(s, m, Len(s))) <= n
  BY <1>1, <1>7, <1>10
<1>12. k = 0 => s = <<>> \/ n = 0
  BY <1>1, <1>2, EmptySeq
<1> QED
  BY <1>3, <1>4, <1>5, <1>6, <1>9, <1>10, <1>11, <1>12

\* The place of an event that is there.
LEMMA PositionProperties ==
  ASSUME NEW S, NEW s \in Seq(S), NEW e \in Ids(s)
  PROVE  Position(s, e) \in 1 .. Len(s) /\ s[Position(s, e)].id = e
<1>1. DOMAIN s = 1 .. Len(s)
  BY LenProperties
<1>2. \E i \in DOMAIN s : s[i].id = e
  BY DEF Ids
<1> QED
  BY <1>1, <1>2 DEF Position

\* One entry is taken out.
LEMMA RemoveAtProperties ==
  ASSUME NEW S, NEW s \in Seq(S), NEW i \in 1 .. Len(s)
  PROVE  /\ RemoveAt(s, i) \in Seq(S)
         /\ Len(RemoveAt(s, i)) = Len(s) - 1
         /\ \A j \in 1 .. Len(s) - 1 : RemoveAt(s, i)[j] = IF j < i THEN s[j] ELSE s[j + 1]
         /\ Drawn(RemoveAt(s, i), s)
         /\ Ids(s) \subseteq Ids(RemoveAt(s, i)) \cup {s[i].id}
         /\ NoDup(s) => s[i].id \notin Ids(RemoveAt(s, i))
<1>1. Len(s) \in Nat /\ DOMAIN s = 1 .. Len(s)
  BY LenProperties
<1> DEFINE n == Len(s)
           l == SubSeq(s, 1, i - 1)
           r == SubSeq(s, i + 1, n)
           w == l \o r
           f == [j \in 1 .. n - 1 |-> IF j < i THEN j ELSE j + 1]
<1>2. n \in Nat /\ i \in Nat \ {0} /\ i - 1 \in 0 .. n /\ i + 1 \in Nat \ {0} /\ n \in 0 .. n /\ i <= n
  BY <1>1
<1>3. /\ l \in Seq(S) /\ Len(l) = IF 1 <= i - 1 THEN i - 1 - 1 + 1 ELSE 0
      /\ \A j \in 1 .. i - 1 - 1 + 1 : l[j] = s[1 + j - 1]
  BY <1>2, SubSeqDrawn
<1>4. /\ r \in Seq(S) /\ Len(r) = IF i + 1 <= n THEN n - (i + 1) + 1 ELSE 0
      /\ \A j \in 1 .. n - (i + 1) + 1 : r[j] = s[(i + 1) + j - 1]
  BY <1>2, SubSeqDrawn
<1> HIDE DEF n, l, r
<1>5. Len(l) = i - 1 /\ \A j \in 1 .. i - 1 : l[j] = s[j]
  BY <1>2, <1>3
<1>6. Len(r) = n - i /\ \A j \in 1 .. n - i : r[j] = s[j + i]
  BY <1>2, <1>4
<1>7. /\ w \in Seq(S) /\ Len(w) = Len(l) + Len(r)
      /\ \A j \in 1 .. Len(l) + Len(r) : w[j] = IF j <= Len(l) THEN l[j] ELSE r[j - Len(l)]
  BY <1>3, <1>4, ConcatProperties
<1>8. Len(w) = n - 1
  BY <1>2, <1>5, <1>6, <1>7
<1>9. ASSUME NEW j \in 1 .. n - 1 PROVE w[j] = IF j < i THEN s[j] ELSE s[j + 1]
  <2>1. j \in 1 .. Len(l) + Len(r)
    BY <1>2, <1>5, <1>6
  <2>2. w[j] = IF j <= i - 1 THEN l[j] ELSE r[j - (i - 1)]
    BY <1>5, <1>7, <2>1
  <2>3. CASE j < i
    BY <1>2, <1>5, <2>2, <2>3
  <2>4. CASE ~(j < i)
    <3>1. j - (i - 1) \in 1 .. n - i /\ (j - (i - 1)) + i = j + 1 /\ ~(j <= i - 1)
      BY <1>2, <2>4
    <3> QED
      BY <1>6, <2>2, <2>4, <3>1
  <2> QED
    BY <2>3, <2>4
<1>10. RemoveAt(s, i) = w
  BY DEF RemoveAt, n, l, r
<1> HIDE DEF w
<1>11. DOMAIN w = 1 .. n - 1
  BY <1>7, <1>8, LenProperties
<1>12. f \in [1 .. n - 1 -> 1 .. n] /\ \A j, k \in 1 .. n - 1 : f[j] = f[k] => j = k
  BY <1>2
<1>13. \A j \in 1 .. n - 1 : w[j] = s[f[j]] /\ f[j] # i
  BY <1>2, <1>9
<1>14. Drawn(w, s)
  <2> HIDE DEF f
  <2>1. /\ f \in [1 .. Len(w) -> 1 .. Len(s)]
        /\ \A j, k \in 1 .. Len(w) : f[j] = f[k] => j = k
        /\ \A j \in 1 .. Len(w) : w[j].id = s[f[j]].id /\ w[j].received_at = s[f[j]].received_at
    BY <1>8, <1>12, <1>13 DEF n
  <2> QED
    BY <2>1 DEF Drawn
<1>15. Ids(s) \subseteq Ids(w) \cup {s[i].id}
  <2> SUFFICES ASSUME NEW k \in 1 .. n, k # i PROVE s[k].id \in Ids(w)
    BY <1>1 DEF Ids, n
  <2>1. CASE k < i
    <3>1. k \in 1 .. n - 1
      BY <1>2, <2>1
    <3> QED
      BY <1>9, <1>11, <2>1, <3>1 DEF Ids
  <2>2. CASE i < k
    <3>1. k - 1 \in 1 .. n - 1 /\ ~(k - 1 < i) /\ (k - 1) + 1 = k
      BY <1>2, <2>2
    <3> QED
      BY <1>9, <1>11, <3>1 DEF Ids
  <2> QED
    BY <1>2, <2>1, <2>2
<1>16. NoDup(s) => s[i].id \notin Ids(w)
  <2> SUFFICES ASSUME NoDup(s), NEW j \in 1 .. n - 1, s[i].id = w[j].id PROVE FALSE
    BY <1>11 DEF Ids
  <2>1. PICK m : m = f[j]
    OBVIOUS
  <2>2. m \in 1 .. n /\ m # i /\ w[j] = s[m]
    BY <1>12, <1>13, <2>1
  <2>3. \A a, b \in 1 .. n : s[a].id = s[b].id => a = b
    BY DEF NoDup, n
  <2>4. i \in 1 .. n
    BY DEF n
  <2> HIDE DEF f
  <2> QED
    BY <2>2, <2>3, <2>4
<1> QED
  BY <1>7, <1>8, <1>9, <1>10, <1>14, <1>15, <1>16 DEF n

-----------------------------------------------------------------------------
(* The eviction at the routing cap *)

\* A set of naturals that is not empty has a least element.
LEMMA LeastNat ==
  ASSUME NEW P \in SUBSET Nat, P # {}
  PROVE  \E i \in P : \A j \in P : i <= j
<1>1. \E i \in P : \A j \in P : ~ (<<j, i>> \in OpToRel(<, Nat))
  BY WFMin, NatLessThanWellFounded
<1>2. \A i, j \in Nat : j < i => <<j, i>> \in OpToRel(<, Nat)
  BY Zenon DEF OpToRel
<1>3. \E i \in P : \A j \in P : ~ (j < i)
  BY <1>1, <1>2, Zenon
<1> QED
  BY <1>3, SMT

\* Among the first entries of a queue there is a youngest one.
LEMMA YoungestProperties ==
  ASSUME NEW s \in Seq(Entry), NEW i \in 1 .. Len(s)
  PROVE  /\ YoungestUpTo(s, i) \in Nat
         /\ \A j \in 1 .. i : s[j].received_at <= YoungestUpTo(s, i)
         /\ \E j \in 1 .. i : YoungestUpTo(s, i) = s[j].received_at
<1> DEFINE n == Len(s)
           t(j) == s[j].received_at
           Lacks == {k \in 1 .. n : ~ \E m \in 1 .. k : \A j \in 1 .. k : t(j) <= t(m)}
<1>1. n \in Nat
  BY LenProperties
<1>2. \A j \in 1 .. n : t(j) \in Nat
  <2>1. \A j \in 1 .. n : s[j] \in Entry
    BY ElementOfSeq
  <2> QED
    BY <2>1 DEF Entry
<1> HIDE DEF n, t
<1>3. Lacks = {}
  <2> SUFFICES ASSUME Lacks # {} PROVE FALSE
    OBVIOUS
  <2>1. Lacks \in SUBSET Nat
    BY <1>1
  <2>2. PICK k \in Lacks : \A j \in Lacks : k <= j
    BY <2>1, LeastNat
  <2>3. k \in 1 .. n /\ ~ \E m \in 1 .. k : \A j \in 1 .. k : t(j) <= t(m)
    BY <2>2
  <2>4. k # 1
    <3> SUFFICES ASSUME k = 1 PROVE FALSE
      OBVIOUS
    <3>1. 1 \in 1 .. k /\ \A j \in 1 .. k : j = 1
      BY <1>1
    <3>2. t(1) <= t(1)
      BY <1>1, <1>2, <2>3
    <3> QED
      BY <2>3, <3>1, <3>2
  <2>5. k - 1 \in 1 .. n /\ ~(k <= k - 1)
    BY <1>1, <2>3, <2>4
  <2>6. k - 1 \notin Lacks
    BY <2>2, <2>5
  <2>7. PICK m \in 1 .. k - 1 : \A j \in 1 .. k - 1 : t(j) <= t(m)
    BY <2>5, <2>6
  <2>8. \A j \in 1 .. k : j \in 1 .. k - 1 \/ j = k
    BY <1>1, <2>3
  <2>9. t(m) \in Nat /\ t(k) \in Nat /\ m \in 1 .. k /\ k \in 1 .. k /\ \A j \in 1 .. k : t(j) \in Nat
    <3>1. m \in 1 .. k /\ k \in 1 .. k /\ \A j \in 1 .. k : j \in 1 .. n
      BY <1>1, <2>3
    <3> QED
      BY <1>2, <3>1
  <2>10. CASE t(k) <= t(m)
    BY <2>3, <2>7, <2>8, <2>9, <2>10
  <2>11. CASE t(m) <= t(k)
    <3>1. \A j \in 1 .. k : t(j) <= t(k)
      <4> SUFFICES ASSUME NEW j \in 1 .. k PROVE t(j) <= t(k)
        OBVIOUS
      <4>1. t(j) \in Nat /\ (j = k \/ t(j) <= t(m))
        BY <2>7, <2>8, <2>9
      <4>2. CASE j = k
        <5>1. t(k) <= t(k)
          BY <2>9
        <5> QED
          BY <4>2, <5>1
      <4>3. CASE t(j) <= t(m)
        <5>1. \A x, y, z \in Nat : x <= y /\ y <= z => x <= z
          OBVIOUS
        <5> QED
          BY <2>9, <2>11, <4>1, <4>3, <5>1
      <4> QED
        BY <4>1, <4>2, <4>3
    <3> QED
      BY <2>3, <2>9, <3>1
  <2> QED
    BY <2>9, <2>10, <2>11
<1>4. PICK m \in 1 .. i : \A j \in 1 .. i : t(j) <= t(m)
  BY <1>3 DEF n
<1>5. i \in 1 .. n
  BY DEF n
<1>6. \E x \in {s[j].received_at : j \in 1 .. i} : \A j \in 1 .. i : s[j].received_at <= x
  BY <1>4 DEF t
<1>7. PICK y : y = YoungestUpTo(s, i)
  OBVIOUS
<1>8. y \in {s[j].received_at : j \in 1 .. i} /\ \A j \in 1 .. i : s[j].received_at <= y
  BY <1>6, <1>7 DEF YoungestUpTo
<1>9. y \in Nat
  <2>1. PICK j \in 1 .. i : y = t(j)
    BY <1>8 DEF t
  <2> QED
    BY <1>1, <1>2, <1>5, <2>1
<1> QED
  BY <1>7, <1>8, <1>9

\* The positions of a channel, as pairs of a conversation and an index.
LEMMA PositionsMembers ==
  ASSUME NEW qs \in [Conversations -> Seq(Entry)], NEW ch
  PROVE  \A p : p \in Positions(qs, ch) <=>
           \E d \in Conversations : \E i \in 1 .. Len(qs[d]) : Routing[d] = ch /\ p = <<d, i>>
<1>1. \A d \in Conversations : DOMAIN qs[d] = 1 .. Len(qs[d])
  BY LenProperties
<1> QED
  BY <1>1 DEF Positions

\* The order of eviction is a strict order.
LEMMA EvictionOrder ==
  ASSUME NEW qs \in [Conversations -> Seq(Entry)], NEW ch,
         NEW p \in Positions(qs, ch), NEW r \in Positions(qs, ch), NEW o \in Positions(qs, ch)
  PROVE  /\ ~EvictedBefore(qs, p, p)
         /\ EvictedBefore(qs, p, r) /\ EvictedBefore(qs, r, o) => EvictedBefore(qs, p, o)
<1> DEFINE Y(u) == YoungestUpTo(qs[u[1]], u[2])
<1>1. ASSUME NEW u \in Positions(qs, ch) PROVE Y(u) \in Nat /\ u[2] \in Nat
  <2>1. PICK d \in Conversations : \E i \in 1 .. Len(qs[d]) : u = <<d, i>>
    BY PositionsMembers
  <2>i. PICK i \in 1 .. Len(qs[d]) : u = <<d, i>>
    BY <2>1
  <2>2. qs[d] \in Seq(Entry) /\ Len(qs[d]) \in Nat
    BY LenProperties
  <2>3. YoungestUpTo(qs[d], i) \in Nat
    BY <2>2, YoungestProperties
  <2> QED
    BY <2>i, <2>2, <2>3
<1>2. \A u, v : EvictedBefore(qs, u, v) <=> Y(u) < Y(v) \/ (Y(u) = Y(v) /\ u[1] = v[1] /\ u[2] < v[2])
  BY DEF EvictedBefore
<1> HIDE DEF Y
<1>3. Y(p) \in Nat /\ Y(r) \in Nat /\ Y(o) \in Nat /\ p[2] \in Nat /\ r[2] \in Nat /\ o[2] \in Nat
  BY <1>1
<1> QED
  BY <1>2, <1>3

\* The number of ready events a channel has beyond its cap.
Excess(qs, ch) ==
  IF Cardinality(Positions(qs, ch)) > MaxPending
  THEN Cardinality(Positions(qs, ch)) - MaxPending ELSE 0

\* Enough positions are evicted: were there fewer than the excess, the first of the
\* others in the order of eviction would have too few before it to stay.
LEMMA VictimsEnough ==
  ASSUME NEW qs \in [Conversations -> Seq(Entry)], NEW ch, IsFiniteSet(Positions(qs, ch))
  PROVE  /\ Victims(qs, ch) \in SUBSET Positions(qs, ch)
         /\ IsFiniteSet(Victims(qs, ch))
         /\ Cardinality(Positions(qs, ch)) - Cardinality(Victims(qs, ch)) <= MaxPending
<1> DEFINE all == Positions(qs, ch)
           V == Victims(qs, ch)
           n == Cardinality(all)
           x == Excess(qs, ch)
           before == [p \in all |-> {r \in all : EvictedBefore(qs, r, p)}]
<1>1. V = {p \in all : Cardinality(before[p]) < x}
  BY DEF Victims, Excess
<1>2. /\ \A p \in all : p \notin before[p]
      /\ \A p, r \in all : r \in before[p] => before[r] \subseteq before[p]
  BY EvictionOrder
<1>3. \A p \in all : before[p] \in SUBSET all
  OBVIOUS
<1> HIDE DEF before
<1>4. V \in SUBSET all
  BY <1>1
<1>5. IsFiniteSet(V) /\ Cardinality(V) \in Nat /\ n \in Nat /\ Cardinality(V) <= n
  BY <1>4, FS_Subset, FS_CardinalityType
<1>6. x \in Nat /\ x <= n /\ n - x <= MaxPending
  BY <1>5, QueueAssumption DEF Excess
<1>7. ASSUME NEW p \in all PROVE IsFiniteSet(before[p]) /\ Cardinality(before[p]) \in Nat
  BY <1>3, FS_Subset, FS_CardinalityType
<1> HIDE DEF all, V, n, x
<1>8. x <= Cardinality(V)
  <2> SUFFICES ASSUME Cardinality(V) < x PROVE FALSE
    BY <1>5, <1>6
  <2> DEFINE rest == all \ V
             ranks == {Cardinality(before[p]) : p \in rest}
  <2>1. rest # {}
    <3> SUFFICES ASSUME rest = {} PROVE FALSE
      OBVIOUS
    <3>1. V = all
      BY <1>4
    <3> QED
      BY <1>5, <1>6, <3>1 DEF n
  <2>2. ranks \in SUBSET Nat /\ ranks # {}
    BY <1>7, <2>1
  <2>3. PICK k \in ranks : \A j \in ranks : k <= j
    BY <2>2, LeastNat
  <2>4. PICK p \in rest : Cardinality(before[p]) = k
    BY <2>3
  <2>5. p \in all /\ p \notin V
    BY <2>4
  <2>6. ASSUME NEW r \in before[p] PROVE r \in V
    <3>1. r \in all
      BY <1>3, <2>5
    <3>2. before[r] \in SUBSET (before[p] \ {r})
      BY <1>2, <2>5, <3>1
    <3>3. /\ IsFiniteSet(before[p] \ {r})
          /\ Cardinality(before[p] \ {r}) = Cardinality(before[p]) - 1
      BY <1>7, <2>5, FS_RemoveElement
    <3>4. Cardinality(before[r]) <= Cardinality(before[p]) - 1
      BY <3>2, <3>3, FS_Subset
    <3>5. Cardinality(before[r]) \in Nat /\ Cardinality(before[p]) \in Nat
      BY <1>7, <2>5, <3>1
    <3>6. ~(k <= Cardinality(before[r]))
      BY <2>4, <3>4, <3>5
    <3>7. Cardinality(before[r]) \notin ranks
      BY <2>3, <3>6
    <3> QED
      BY <3>1, <3>7
  <2>7. before[p] \in SUBSET V
    BY <2>6
  <2>8. Cardinality(before[p]) <= Cardinality(V)
    BY <1>5, <2>7, FS_Subset
  <2>9. Cardinality(before[p]) \in Nat
    BY <1>7, <2>5
  <2>10. Cardinality(before[p]) < x
    BY <1>5, <1>6, <2>8, <2>9
  <2> QED
    BY <1>1, <2>5, <2>10
<1>9. n - Cardinality(V) <= MaxPending
  BY <1>5, <1>6, <1>8, QueueAssumption
<1> QED
  BY <1>4, <1>5, <1>9 DEF all, V, n

\* The positions of one queue of length n.
LEMMA ColumnCard ==
  ASSUME NEW d, NEW n \in Nat
  PROVE  IsFiniteSet({d} \X (1 .. n)) /\ Cardinality({d} \X (1 .. n)) = n
<1> DEFINE one == {d}
           run == 1 .. n
<1>1. IsFiniteSet(one) /\ Cardinality(one) = 1 /\ IsFiniteSet(run) /\ Cardinality(run) = n
  BY IntervalCard, FS_Singleton
<1> HIDE DEF one, run
<1>2. IsFiniteSet(one \X run) /\ Cardinality(one \X run) = Cardinality(one) * Cardinality(run)
  BY <1>1, FS_Product
<1>3. Cardinality(one \X run) = n
  BY <1>1, <1>2
<1> QED
  BY <1>2, <1>3 DEF one, run

\* Taking the victims off the queue fronts leaves at most MAX_PENDING_PER_CHANNEL
\* ready events in the channel and touches no other channel.
LEMMA PopVictimsProperties ==
  ASSUME NEW qs \in [Conversations -> Seq(Entry)], NEW ch, IsFiniteSet(Positions(qs, ch))
  PROVE  LET ps == PopVictims(qs, Victims(qs, ch))
         IN /\ ps \in [Conversations -> Seq(Entry)]
            /\ \A d \in Conversations : Drawn(ps[d], qs[d])
            /\ IsFiniteSet(Positions(ps, ch))
            /\ Cardinality(Positions(ps, ch)) <= MaxPending
            /\ \A d \in Conversations : Routing[d] # ch => ps[d] = qs[d]
<1> DEFINE all == Positions(qs, ch)
           V == Victims(qs, ch)
           ps == PopVictims(qs, V)
           of(d) == {p \in V : p[1] = d}
           column(d) == {d} \X (1 .. Len(qs[d]))
           left(d) == {d} \X (1 .. Len(ps[d]))
<1>1. V \in SUBSET all /\ IsFiniteSet(V) /\ Cardinality(all) - Cardinality(V) <= MaxPending
  BY VictimsEnough
<1>2. \A d \in Conversations : qs[d] \in Seq(Entry) /\ Len(qs[d]) \in Nat
  BY LenProperties
<1>3. ASSUME NEW d \in Conversations
      PROVE  /\ of(d) \in SUBSET column(d)
             /\ IsFiniteSet(column(d)) /\ Cardinality(column(d)) = Len(qs[d])
             /\ IsFiniteSet(of(d)) /\ Cardinality(of(d)) \in 0 .. Len(qs[d])
             /\ Routing[d] = ch => column(d) \in SUBSET all
             /\ Routing[d] # ch => of(d) = {}
  <2>1. \A p \in V : \E c \in Conversations : \E i \in 1 .. Len(qs[c]) : Routing[c] = ch /\ p = <<c, i>>
    BY <1>1, PositionsMembers
  <2>2. of(d) \in SUBSET column(d) /\ (Routing[d] # ch => of(d) = {})
    BY <2>1
  <2>3. Routing[d] = ch => column(d) \in SUBSET all
    BY PositionsMembers
  <2>4. IsFiniteSet(column(d)) /\ Cardinality(column(d)) = Len(qs[d])
    BY <1>2, ColumnCard
  <2> HIDE DEF of, column
  <2>6. IsFiniteSet(of(d)) /\ Cardinality(of(d)) <= Len(qs[d]) /\ Cardinality(of(d)) \in Nat
    BY <2>2, <2>4, FS_Subset, FS_CardinalityType
  <2> QED
    BY <1>2, <2>2, <2>3, <2>4, <2>6
<1>4. \A d \in Conversations : ps[d] = SubSeq(qs[d], Cardinality(of(d)) + 1, Len(qs[d]))
  BY DEF PopVictims
<1>5. DOMAIN ps = Conversations /\ ps = [d \in Conversations |-> ps[d]]
  BY DEF PopVictims
<1> HIDE DEF ps
<1>6. ASSUME NEW d \in Conversations
      PROVE  /\ ps[d] \in Seq(Entry) /\ Drawn(ps[d], qs[d])
             /\ Len(ps[d]) = Len(qs[d]) - Cardinality(of(d))
             /\ Cardinality(of(d)) = 0 => ps[d] = qs[d]
  <2> HIDE DEF of
  <2>1. PICK v : v = Cardinality(of(d))
    OBVIOUS
  <2>a. v \in 0 .. Len(qs[d])
    BY <1>3, <2>1
  <2>2. v \in Nat /\ v <= Len(qs[d]) /\ v + 1 \in Nat \ {0} /\ Len(qs[d]) \in 0 .. Len(qs[d])
    BY <1>2, <2>a
  <2>3. ps[d] = SubSeq(qs[d], v + 1, Len(qs[d]))
    BY <1>4, <2>1
  <2>4. /\ ps[d] \in Seq(Entry) /\ Drawn(ps[d], qs[d])
        /\ Len(ps[d]) = IF v + 1 <= Len(qs[d]) THEN Len(qs[d]) - (v + 1) + 1 ELSE 0
    BY <1>2, <2>2, <2>3, SubSeqDrawn
  <2>5. Len(ps[d]) = Len(qs[d]) - v
    BY <1>2, <2>2, <2>4
  <2>6. v = 0 => ps[d] = qs[d]
    BY <1>2, <2>3, SubSeqFull
  <2> QED
    BY <2>1, <2>4, <2>5, <2>6
<1>7. ps \in [Conversations -> Seq(Entry)]
  BY <1>5, <1>6
<1>8. \A d \in Conversations : Routing[d] # ch => ps[d] = qs[d]
  BY <1>3, <1>6, FS_EmptySet
<1>9. ASSUME NEW d \in Conversations, Routing[d] = ch
      PROVE  ExistsBijection(left(d), column(d) \ of(d))
  <2> HIDE DEF of
  <2>1. Len(ps[d]) \in Nat
    BY <1>6, LenProperties
  <2>2. IsFiniteSet(left(d)) /\ Cardinality(left(d)) = Len(ps[d])
    BY <2>1, ColumnCard
  <2> HIDE DEF left, column
  <2>4. column(d) \cap of(d) = of(d)
    BY <1>3
  <2>5. /\ IsFiniteSet(column(d) \ of(d))
        /\ Cardinality(column(d) \ of(d)) = Cardinality(column(d)) - Cardinality(of(d))
    <3>1. PICK A : A = column(d)
      OBVIOUS
    <3>2. PICK Z : Z = of(d)
      OBVIOUS
    <3>3. IsFiniteSet(A) /\ A \cap Z = Z
      BY <1>3, <2>4, <3>1, <3>2
    <3>4. IsFiniteSet(A \ Z) /\ Cardinality(A \ Z) = Cardinality(A) - Cardinality(A \cap Z)
      BY <3>3, FS_Difference
    <3> QED
      BY <3>1, <3>2, <3>3, <3>4
  <2>6. Cardinality(column(d) \ of(d)) = Cardinality(left(d))
    BY <1>3, <1>6, <2>2, <2>5
  <2> QED
    BY <2>2, <2>5, <2>6, FS_SameCardinalityBij
<1> DEFINE part == Positions(ps, ch)
           B == [d \in Conversations |-> CHOOSE f : f \in Bijection(left(d), column(d) \ of(d))]
           g == [p \in part |-> B[p[1]][p]]
<1>10. \A d \in Conversations : Routing[d] = ch => B[d] \in Bijection(left(d), column(d) \ of(d))
  <2> HIDE DEF left, column, of
  <2> QED
    BY <1>9 DEF ExistsBijection
<1> HIDE DEF B
<1>11. ASSUME NEW p \in part
       PROVE  p[1] \in Conversations /\ Routing[p[1]] = ch /\ p \in left(p[1])
  <2>1. PICK d \in Conversations : \E i \in 1 .. Len(ps[d]) : Routing[d] = ch /\ p = <<d, i>>
    BY <1>7, PositionsMembers
  <2> QED
    BY <2>1
<1>12. ASSUME NEW p \in part
       PROVE  g[p] \in all \ V /\ g[p][1] = p[1]
  <2>1. p[1] \in Conversations /\ Routing[p[1]] = ch /\ p \in left(p[1])
    BY <1>11
  <2>2. g[p] = B[p[1]][p]
    OBVIOUS
  <2>3. g[p] \in column(p[1]) \ of(p[1])
    <3> HIDE DEF left, column, of
    <3>1. B[p[1]] \in [left(p[1]) -> column(p[1]) \ of(p[1])]
      BY <1>10, <2>1 DEF Bijection, Injection
    <3> QED
      BY <2>1, <2>2, <3>1
  <2>4. g[p][1] = p[1]
    BY <2>3
  <2>5. g[p] \in all
    BY <1>3, <2>1, <2>3
  <2>6. g[p] \notin V
    BY <2>3, <2>4
  <2> QED
    BY <2>4, <2>5, <2>6
<1>13. ASSUME NEW p \in part, NEW r \in part, g[p] = g[r] PROVE p = r
  <2>1. p[1] = r[1]
    BY <1>12, <1>13
  <2>2. p[1] \in Conversations /\ Routing[p[1]] = ch /\ p \in left(p[1]) /\ r \in left(p[1])
    BY <1>11, <2>1
  <2>3. B[p[1]][p] = B[p[1]][r]
    BY <1>13, <2>1
  <2> HIDE DEF left, column, of
  <2>4. /\ B[p[1]] \in [left(p[1]) -> column(p[1]) \ of(p[1])]
        /\ \A a, b \in DOMAIN B[p[1]] : B[p[1]][a] = B[p[1]][b] => a = b
    BY <1>10, <2>2 DEF Bijection, Injection, IsInjective
  <2>5. DOMAIN B[p[1]] = left(p[1])
    BY <2>4
  <2> QED
    BY <2>2, <2>3, <2>4, <2>5
<1>14. g \in Injection(part, all \ V)
  <2>1. g \in [part -> all \ V]
    BY <1>12
  <2> QED
    BY <1>13, <2>1 DEF Injection, IsInjective
<1> HIDE DEF g, part
<1>15. all \cap V = V /\ IsFiniteSet(all)
  BY <1>1
<1>16. IsFiniteSet(all \ V) /\ Cardinality(all \ V) <= MaxPending
  <2> HIDE DEF all, V
  <2>1. IsFiniteSet(all \ V) /\ Cardinality(all \ V) = Cardinality(all) - Cardinality(all \cap V)
    BY <1>15, FS_Difference
  <2> QED
    BY <1>1, <1>15, <2>1
<1>17. IsFiniteSet(part) /\ Cardinality(part) <= Cardinality(all \ V)
  BY <1>14, <1>16, FS_Injection
<1>18. Cardinality(part) \in Nat /\ Cardinality(all \ V) \in Nat
  BY <1>16, <1>17, FS_CardinalityType
<1>19. Cardinality(part) <= MaxPending
  BY <1>16, <1>17, <1>18, QueueAssumption
<1> QED
  BY <1>6, <1>7, <1>8, <1>17, <1>19 DEF ps, part

-----------------------------------------------------------------------------
(* Operations on the ready queues *)

\* Every channel keeps its cap.
CapOK(k) ==
  \A ch \in Channels : /\ IsFiniteSet(Positions(k.queues, ch))
                       /\ Cardinality(Positions(k.queues, ch)) <= MaxPending

\* Queue r differs from queue k in the ready events and what was evicted of them only.
OnlyReady(k, r) ==
  /\ DOMAIN r = QueueFields
  /\ r.in_flight_channels = k.in_flight_channels
  /\ r.in_flight_deadlines = k.in_flight_deadlines
  /\ r.in_flight_event_ids = k.in_flight_event_ids
  /\ r.retry_after = k.retry_after
  /\ r.retry_counts = k.retry_counts
  /\ r.busy_notice_sent = k.busy_notice_sent
  /\ r.cancelled_batches = k.cancelled_batches
  /\ r.cancel_reasons = k.cancel_reasons
  /\ r.withheld_native_steer = k.withheld_native_steer

\* Then only those need their types.
LEMMA OnlyReadyType ==
  ASSUME NEW k, QueueType(k), NEW r, OnlyReady(k, r),
         r.queues \in [Conversations -> Seq(Entry)], r.evicted \subseteq Events
  PROVE  QueueType(r)
  BY DEF QueueType, OnlyReady

\* Queues that are no longer than before are within the caps they were within.
LEMMA CapShrinks ==
  ASSUME NEW qs \in [Conversations -> Seq(Entry)], NEW ps \in [Conversations -> Seq(Entry)], NEW ch,
         \A d \in Conversations : Routing[d] = ch => Len(ps[d]) <= Len(qs[d]),
         IsFiniteSet(Positions(qs, ch))
  PROVE  /\ IsFiniteSet(Positions(ps, ch))
         /\ Cardinality(Positions(ps, ch)) <= Cardinality(Positions(qs, ch))
<1>1. \A d \in Conversations : Len(ps[d]) \in Nat /\ Len(qs[d]) \in Nat
  BY LenProperties
<1>2. ASSUME NEW p \in Positions(ps, ch) PROVE p \in Positions(qs, ch)
  <2>1. PICK d \in Conversations : \E i \in 1 .. Len(ps[d]) : Routing[d] = ch /\ p = <<d, i>>
    BY PositionsMembers
  <2>2. PICK i \in 1 .. Len(ps[d]) : Routing[d] = ch /\ p = <<d, i>>
    BY <2>1
  <2>3. i \in 1 .. Len(qs[d])
    BY <1>1, <2>2
  <2> QED
    BY <2>2, <2>3, PositionsMembers
<1>3. Positions(ps, ch) \in SUBSET Positions(qs, ch)
  BY <1>2
<1> QED
  BY <1>3, FS_Subset

\* The same for the caps of all channels.
LEMMA CapKept ==
  ASSUME NEW k, QueueType(k), CapOK(k), NEW r, r.queues \in [Conversations -> Seq(Entry)],
         \A d \in Conversations : Len(r.queues[d]) <= Len(k.queues[d])
  PROVE  CapOK(r)
<1> SUFFICES ASSUME NEW ch \in Channels
             PROVE  /\ IsFiniteSet(Positions(r.queues, ch))
                    /\ Cardinality(Positions(r.queues, ch)) <= MaxPending
  BY DEF CapOK
<1>1. IsFiniteSet(Positions(k.queues, ch)) /\ Cardinality(Positions(k.queues, ch)) <= MaxPending
  BY DEF CapOK
<1>2. /\ IsFiniteSet(Positions(r.queues, ch))
      /\ Cardinality(Positions(r.queues, ch)) <= Cardinality(Positions(k.queues, ch))
  BY <1>1, CapShrinks DEF QueueType
<1>3. Cardinality(Positions(r.queues, ch)) \in Nat /\ Cardinality(Positions(k.queues, ch)) \in Nat
  BY <1>1, <1>2, FS_CardinalityType
<1> QED
  BY <1>1, <1>2, <1>3, QueueAssumption

\* The ids of entries are events.
LEMMA IdsOfEntries ==
  ASSUME NEW s \in Seq(Entry)
  PROVE  Ids(s) \subseteq Events
<1>1. DOMAIN s = 1 .. Len(s) /\ \A i \in 1 .. Len(s) : s[i] \in Entry
  BY LenProperties, ElementOfSeq
<1> QED
  BY <1>1 DEF Ids, Entry

\* enforce_routing_channel_cap, when only the channel of c may be over its cap.
LEMMA EnforceRoutingCapProperties ==
  ASSUME NEW k, QueueType(k), NEW c \in Conversations,
         \A ch \in Channels : IsFiniteSet(Positions(k.queues, ch)),
         \A ch \in Channels \ {Routing[c]} : Cardinality(Positions(k.queues, ch)) <= MaxPending,
         k.queues[c] = <<>> => CapOK(k)
  PROVE  LET r == EnforceRoutingCap(k, c)
         IN /\ QueueType(r) /\ CapOK(r) /\ OnlyReady(k, r)
            /\ \A d \in Conversations : Drawn(r.queues[d], k.queues[d])
<1>1. k.queues \in [Conversations -> Seq(Entry)] /\ DOMAIN k = QueueFields /\ k.evicted \subseteq Events
  BY DEF QueueType
<1>2. CASE k.queues[c] = <<>>
  <2>1. EnforceRoutingCap(k, c) = k
    BY <1>2 DEF EnforceRoutingCap
  <2> QED
    BY <1>1, <1>2, <2>1, DrawnSelf DEF OnlyReady
<1>3. CASE k.queues[c] # <<>>
  <2> DEFINE ch == Routing[c]
             V == Victims(k.queues, ch)
             ps == PopVictims(k.queues, V)
             gone == VictimIds(k.queues, V)
             r == EnforceRoutingCap(k, c)
  <2>1. ch \in Channels /\ IsFiniteSet(Positions(k.queues, ch))
    BY QueueAssumption
  <2>2. /\ ps \in [Conversations -> Seq(Entry)]
        /\ \A d \in Conversations : Drawn(ps[d], k.queues[d])
        /\ IsFiniteSet(Positions(ps, ch))
        /\ Cardinality(Positions(ps, ch)) <= MaxPending
        /\ \A d \in Conversations : Routing[d] # ch => ps[d] = k.queues[d]
    BY <1>1, <2>1, PopVictimsProperties
  <2>3. gone \subseteq Events
    <3>1. V \in SUBSET Positions(k.queues, ch)
      BY <1>1, <2>1, VictimsEnough
    <3>2. ASSUME NEW p \in V PROVE k.queues[p[1]][p[2]].id \in Events
      <4>1. PICK d \in Conversations : \E i \in 1 .. Len(k.queues[d]) : Routing[d] = ch /\ p = <<d, i>>
        BY <1>1, <3>1, PositionsMembers
      <4>2. PICK i \in 1 .. Len(k.queues[d]) : p = <<d, i>>
        BY <4>1
      <4>3. k.queues[d][i] \in Entry
        BY <1>1, ElementOfSeq
      <4> QED
        BY <4>2, <4>3 DEF Entry
    <3> QED
      BY <3>2 DEF VictimIds
  <2>4. r = [k EXCEPT !.queues = ps, !.evicted = k.evicted \cup gone]
    BY <1>3 DEF EnforceRoutingCap
  <2> HIDE DEF ps, gone, V, r, ch
  <2>5. r.queues = ps /\ r.evicted = k.evicted \cup gone /\ OnlyReady(k, r)
    BY <1>1, <2>4 DEF OnlyReady, QueueFields
  <2>6. QueueType(r)
    BY <1>1, <2>2, <2>3, <2>5, OnlyReadyType
  <2>7. CapOK(r)
    <3> SUFFICES ASSUME NEW o \in Channels
                 PROVE  /\ IsFiniteSet(Positions(ps, o))
                        /\ Cardinality(Positions(ps, o)) <= MaxPending
      BY <2>5 DEF CapOK
    <3>1. CASE o = ch
      BY <2>2, <3>1
    <3>2. CASE o # ch
      <4>1. Positions(ps, o) = Positions(k.queues, o)
        BY <2>2, <3>2 DEF Positions
      <4> QED
        BY <3>2, <4>1 DEF ch
    <3> QED
      BY <3>1, <3>2
  <2> QED
    BY <2>2, <2>5, <2>6, <2>7 DEF r
<1> QED
  BY <1>2, <1>3

\* One queue is replaced: the positions of a channel stay finitely many, and those of
\* the other channels stay what they were.
LEMMA OneQueueReplaced ==
  ASSUME NEW k, QueueType(k), CapOK(k), NEW c \in Conversations,
         NEW r, r.queues \in [Conversations -> Seq(Entry)],
         \A d \in Conversations \ {c} : r.queues[d] = k.queues[d]
  PROVE  /\ \A ch \in Channels : IsFiniteSet(Positions(r.queues, ch))
         /\ \A ch \in Channels \ {Routing[c]} : Cardinality(Positions(r.queues, ch)) <= MaxPending
         /\ r.queues[c] = k.queues[c] => CapOK(r)
<1> DEFINE qs == k.queues
           ps == r.queues
           w == ps[c]
<1>1. qs \in [Conversations -> Seq(Entry)]
  BY DEF QueueType
<1>2. ps \in [Conversations -> Seq(Entry)] /\ ps[c] = w /\ \A d \in Conversations \ {c} : ps[d] = qs[d]
  OBVIOUS
<1>3. \A ch \in Channels : IsFiniteSet(Positions(qs, ch)) /\ Cardinality(Positions(qs, ch)) <= MaxPending
  BY DEF CapOK
<1>4. ASSUME w = qs[c] PROVE ps = qs
  <2>1. \A d \in Conversations : ps[d] = qs[d]
    BY <1>2, <1>4
  <2> HIDE DEF qs, ps
  <2> QED
    BY <1>1, <1>2, <2>1
<1>w. w \in Seq(Entry)
  OBVIOUS
<1> HIDE DEF qs, ps, w
<1>5. ASSUME NEW ch \in Channels PROVE IsFiniteSet(Positions(ps, ch))
  <2> DEFINE col == {c} \X (1 .. Len(w))
             old == Positions(qs, ch)
  <2>1. IsFiniteSet(col) /\ IsFiniteSet(old)
    BY <1>3, <1>w, ColumnCard, LenProperties
  <2>2. ASSUME NEW p \in Positions(ps, ch) PROVE p \in old \cup col
    <3>1. PICK d \in Conversations : \E i \in 1 .. Len(ps[d]) : Routing[d] = ch /\ p = <<d, i>>
      BY <1>2, PositionsMembers
    <3>2. CASE d = c
      BY <1>2, <3>1, <3>2
    <3>3. CASE d # c
      BY <1>1, <1>2, <3>1, <3>3, PositionsMembers
    <3> QED
      BY <3>2, <3>3
  <2> HIDE DEF col, old
  <2>3. IsFiniteSet(old \cup col)
    BY <2>1, FS_Union
  <2>4. Positions(ps, ch) \in SUBSET (old \cup col)
    BY <2>2
  <2> QED
    BY <2>3, <2>4, FS_Subset
<1>6. ASSUME NEW ch \in Channels \ {Routing[c]} PROVE Positions(ps, ch) = Positions(qs, ch)
  BY <1>2 DEF Positions
<1> QED
  BY <1>2, <1>3, <1>4, <1>5, <1>6 DEF CapOK, qs, ps, w

\* A restore to a queue front: what is ready afterwards was ready or restored.
LEMMA RestoreFrontProperties ==
  ASSUME NEW k, QueueType(k), CapOK(k), NEW c \in Conversations, NEW s \in Seq(Entry)
  PROVE  LET r == RestoreFront(k, c, s)
         IN /\ QueueType(r) /\ CapOK(r) /\ OnlyReady(k, r)
            /\ \A d \in Conversations \ {c} : Drawn(r.queues[d], k.queues[d])
            /\ Drawn(r.queues[c], s \o k.queues[c])
<1> DEFINE whole == s \o k.queues[c]
           kept  == KeepFirst(whole, MaxPending)
           lost  == Ids(whole) \ Ids(kept)
           mid   == [k EXCEPT !.queues[c] = kept, !.evicted = k.evicted \cup lost]
           r     == EnforceRoutingCap(mid, c)
<1>1. /\ k.queues \in [Conversations -> Seq(Entry)] /\ DOMAIN k = QueueFields
      /\ k.evicted \subseteq Events /\ k.queues[c] \in Seq(Entry)
  BY DEF QueueType
<1>2. whole \in Seq(Entry)
  BY <1>1, ConcatProperties
<1>3. /\ kept \in Seq(Entry) /\ Drawn(kept, whole) /\ MaxPending \in Nat \ {0}
      /\ Len(kept) = 0 => whole = <<>>
  BY <1>2, KeepProperties, QueueAssumption
<1>4. kept = <<>> => kept = k.queues[c]
  <2> SUFFICES ASSUME kept = <<>> PROVE kept = k.queues[c]
    OBVIOUS
  <2>1. whole = <<>>
    BY <1>3, EmptySeq
  <2>2. k.queues[c] = <<>>
    BY <1>1, <2>1, ConcatEqualIffEmpty
  <2> QED
    BY <2>2
<1>5. lost \subseteq Events
  BY <1>2, IdsOfEntries
<1> HIDE DEF whole, kept, lost
<1>6. mid.queues = [k.queues EXCEPT ![c] = kept] /\ mid.evicted = k.evicted \cup lost /\ OnlyReady(k, mid)
  BY <1>1 DEF OnlyReady, QueueFields
<1>7. RestoreFront(k, c, s) = r
  BY DEF RestoreFront, whole, kept, lost
<1> HIDE DEF mid
<1>8. /\ mid.queues \in [Conversations -> Seq(Entry)]
      /\ mid.queues[c] = kept /\ \A d \in Conversations \ {c} : mid.queues[d] = k.queues[d]
      /\ \A ch \in Channels : IsFiniteSet(Positions(mid.queues, ch))
      /\ \A ch \in Channels \ {Routing[c]} : Cardinality(Positions(mid.queues, ch)) <= MaxPending
      /\ kept = k.queues[c] => CapOK(mid)
  <2>1. /\ mid.queues \in [Conversations -> Seq(Entry)]
        /\ mid.queues[c] = kept /\ \A d \in Conversations \ {c} : mid.queues[d] = k.queues[d]
    BY <1>1, <1>3, <1>6
  <2> QED
    BY <2>1, OneQueueReplaced
<1>9. QueueType(mid)
  BY <1>1, <1>5, <1>6, <1>8, OnlyReadyType
<1>10. /\ QueueType(r) /\ CapOK(r) /\ OnlyReady(mid, r)
       /\ \A d \in Conversations : Drawn(r.queues[d], mid.queues[d])
  BY <1>4, <1>8, <1>9, EnforceRoutingCapProperties
<1>11. OnlyReady(k, r)
  BY <1>6, <1>10 DEF OnlyReady
<1>12. Drawn(r.queues[c], whole)
  BY <1>3, <1>8, <1>10, DrawnTrans
<1>13. \A d \in Conversations \ {c} : Drawn(r.queues[d], k.queues[d])
  BY <1>8, <1>10
<1> QED
  BY <1>7, <1>10, <1>11, <1>12, <1>13 DEF whole

\* push: what is ready afterwards was ready or is the new event.
LEMMA PushProperties ==
  ASSUME NEW k, QueueType(k), CapOK(k), NEW e \in Events, NEW t \in Nat,
         NEW x \in BOOLEAN, NEW ed \in BOOLEAN
  PROVE  LET r == Push(k, e, t, x, ed)
             c == ConvOf[e]
         IN /\ QueueType(r) /\ CapOK(r) /\ OnlyReady(k, r)
            /\ \A d \in Conversations \ {c} : Drawn(r.queues[d], k.queues[d])
            /\ Drawn(r.queues[c], Append(k.queues[c],
                 [id |-> e, received_at |-> t, hold_exempt |-> x, edited |-> ed]))
<1> DEFINE c     == ConvOf[e]
           entry == [id |-> e, received_at |-> t, hold_exempt |-> x, edited |-> ed]
           kept  == KeepLast(k.queues[c], MaxPending - 1)
           w     == Append(kept, entry)
           gone  == (k.evicted \cup (Ids(k.queues[c]) \ Ids(kept))) \ {e}
           mid   == [k EXCEPT !.queues[c] = w, !.evicted = gone]
           r     == EnforceRoutingCap(mid, c)
<1>0. c \in Conversations /\ entry \in Entry /\ MaxPending - 1 \in Nat
  BY QueueAssumption DEF Entry
<1>1. /\ k.queues \in [Conversations -> Seq(Entry)] /\ DOMAIN k = QueueFields
      /\ k.evicted \subseteq Events /\ k.queues[c] \in Seq(Entry)
  BY <1>0 DEF QueueType
<1>2. Push(k, e, t, x, ed) = r
  BY DEF Push
<1>a. gone \subseteq Events
  BY <1>1, IdsOfEntries
<1> HIDE DEF c, entry, gone
<1>3. kept \in Seq(Entry) /\ Drawn(kept, k.queues[c])
  BY <1>0, <1>1, KeepProperties
<1> HIDE DEF kept
<1>4. w \in Seq(Entry) /\ w # <<>> /\ Drawn(w, Append(k.queues[c], entry))
  BY <1>0, <1>1, <1>3, AppendProperties, DrawnAppend
<1> HIDE DEF w
<1>6. mid.queues = [k.queues EXCEPT ![c] = w] /\ mid.evicted = gone /\ OnlyReady(k, mid)
  BY <1>1 DEF OnlyReady, QueueFields
<1> HIDE DEF mid
<1>8. /\ mid.queues \in [Conversations -> Seq(Entry)]
      /\ mid.queues[c] = w /\ \A d \in Conversations \ {c} : mid.queues[d] = k.queues[d]
      /\ \A ch \in Channels : IsFiniteSet(Positions(mid.queues, ch))
      /\ \A ch \in Channels \ {Routing[c]} : Cardinality(Positions(mid.queues, ch)) <= MaxPending
  <2>1. /\ mid.queues \in [Conversations -> Seq(Entry)]
        /\ mid.queues[c] = w /\ \A d \in Conversations \ {c} : mid.queues[d] = k.queues[d]
    BY <1>0, <1>1, <1>4, <1>6
  <2> QED
    BY <1>0, <2>1, OneQueueReplaced
<1>9. QueueType(mid)
  BY <1>a, <1>6, <1>8, OnlyReadyType
<1>10. /\ QueueType(r) /\ CapOK(r) /\ OnlyReady(mid, r)
       /\ \A d \in Conversations : Drawn(r.queues[d], mid.queues[d])
  BY <1>0, <1>4, <1>8, <1>9, EnforceRoutingCapProperties
<1>11. OnlyReady(k, r)
  BY <1>6, <1>10 DEF OnlyReady
<1>12. Drawn(r.queues[c], Append(k.queues[c], entry))
  BY <1>0, <1>4, <1>8, <1>10, DrawnTrans
<1>13. \A d \in Conversations \ {c} : Drawn(r.queues[d], k.queues[d])
  BY <1>8, <1>10
<1> QED
  BY <1>2, <1>10, <1>11, <1>12, <1>13 DEF c, entry

-----------------------------------------------------------------------------
(* Operations that leave the ready events alone, or remove some *)

\* Queue r has the ready, cancelled, withheld and evicted events of queue k.
SameEvents(k, r) ==
  /\ r.queues = k.queues
  /\ r.cancelled_batches = k.cancelled_batches
  /\ r.withheld_native_steer = k.withheld_native_steer
  /\ r.evicted = k.evicted

\* Caps are about the ready events.
LEMMA SameEventsCap ==
  ASSUME NEW k, CapOK(k), NEW r, SameEvents(k, r)
  PROVE  CapOK(r)
  BY DEF CapOK, SameEvents

\* mark_complete unlocks and settles the counters.
LEMMA MarkCompleteProperties ==
  ASSUME NEW k, QueueType(k), NEW c \in Conversations
  PROVE  LET r == MarkComplete(k, c)
         IN /\ QueueType(r) /\ SameEvents(k, r) /\ r.cancel_reasons = k.cancel_reasons
            /\ r.in_flight_channels = k.in_flight_channels \ {c}
            /\ r.in_flight_event_ids[c] = {}
            /\ \A d \in Conversations \ {c} : r.in_flight_event_ids[d] = k.in_flight_event_ids[d]
<1> DEFINE r == MarkComplete(k, c)
           chs == k.in_flight_channels \ {c}
           dls == [k.in_flight_deadlines EXCEPT ![c] = "none"]
           ids == [k.in_flight_event_ids EXCEPT ![c] = {}]
           ras == IF k.retry_after[c] = "pending" THEN k.retry_after ELSE [k.retry_after EXCEPT ![c] = "none"]
           rcs == IF k.retry_after[c] = "pending" THEN k.retry_counts ELSE [k.retry_counts EXCEPT ![c] = 0]
           bns == IF k.retry_after[c] = "pending" THEN k.busy_notice_sent ELSE k.busy_notice_sent \ {c}
<1>1. /\ DOMAIN r = QueueFields /\ SameEvents(k, r) /\ r.cancel_reasons = k.cancel_reasons
      /\ r.in_flight_channels = chs /\ r.in_flight_deadlines = dls /\ r.in_flight_event_ids = ids
      /\ r.retry_after = ras /\ r.retry_counts = rcs /\ r.busy_notice_sent = bns
  BY DEF MarkComplete, QueueType, QueueFields, SameEvents
<1>2. /\ chs \subseteq Conversations /\ dls \in [Conversations -> Deadlines]
      /\ ids \in [Conversations -> SUBSET Events] /\ ras \in [Conversations -> Throttles]
      /\ rcs \in [Conversations -> 0 .. MaxRetries] /\ bns \subseteq Conversations
      /\ ids[c] = {} /\ \A d \in Conversations \ {c} : ids[d] = k.in_flight_event_ids[d]
  BY QueueAssumption DEF QueueType, Deadlines, Throttles
<1> HIDE DEF r, dls, ids, ras, rcs, bns
<1>3. QueueType(r)
  BY <1>1, <1>2 DEF QueueType, SameEvents
<1> QED
  BY <1>1, <1>2, <1>3 DEF r

\* A successful steer moves a deadline.
LEMMA ExtendProperties ==
  ASSUME NEW k, QueueType(k), NEW c \in Conversations
  PROVE  LET r == ExtendInFlightDeadline(k, c)
         IN /\ QueueType(r) /\ SameEvents(k, r)
            /\ r.in_flight_channels = k.in_flight_channels
            /\ r.in_flight_event_ids = k.in_flight_event_ids
<1> DEFINE r == [k EXCEPT !.in_flight_deadlines[c] = "running"]
           dls == [k.in_flight_deadlines EXCEPT ![c] = "running"]
<1>1. /\ DOMAIN r = QueueFields /\ SameEvents(k, r) /\ r.cancel_reasons = k.cancel_reasons
      /\ r.in_flight_channels = k.in_flight_channels /\ r.in_flight_deadlines = dls
      /\ r.in_flight_event_ids = k.in_flight_event_ids /\ r.retry_after = k.retry_after
      /\ r.retry_counts = k.retry_counts /\ r.busy_notice_sent = k.busy_notice_sent
  BY DEF QueueType, QueueFields, SameEvents
<1>2. dls \in [Conversations -> Deadlines]
  BY DEF QueueType, Deadlines
<1> HIDE DEF r, dls
<1>3. QueueType(r)
  BY <1>1, <1>2 DEF QueueType, SameEvents
<1>4. ExtendInFlightDeadline(k, c) = k \/ ExtendInFlightDeadline(k, c) = r
  BY DEF ExtendInFlightDeadline, r
<1> QED
  BY <1>1, <1>3, <1>4 DEF SameEvents

\* The throttles, the counters and the notice flag: no event moves.
LEMMA ThrottleProperties ==
  ASSUME NEW k, QueueType(k), NEW r, DOMAIN r = QueueFields, SameEvents(k, r),
         r.in_flight_channels = k.in_flight_channels,
         r.in_flight_deadlines = k.in_flight_deadlines,
         r.in_flight_event_ids = k.in_flight_event_ids,
         r.cancel_reasons = k.cancel_reasons,
         r.retry_after \in [Conversations -> Throttles],
         r.retry_counts \in [Conversations -> 0 .. MaxRetries],
         r.busy_notice_sent \subseteq Conversations
  PROVE  QueueType(r)
  BY DEF QueueType, SameEvents

\* Queue r differs from queue k in throttles, counters and notices only.
OnlyThrottles(k, r) ==
  /\ SameEvents(k, r)
  /\ r.in_flight_channels = k.in_flight_channels
  /\ r.in_flight_event_ids = k.in_flight_event_ids

\* take_busy_notice_pending, clear_retry_after, compact_expired_state and the
\* passage of a throttle.
LEMMA ThrottleOps ==
  ASSUME NEW k, QueueType(k), NEW c \in Conversations
  PROVE  /\ QueueType(TakeBusyNotice(k, c)) /\ OnlyThrottles(k, TakeBusyNotice(k, c))
         /\ QueueType(ClearRetryAfter(k, c)) /\ OnlyThrottles(k, ClearRetryAfter(k, c))
         /\ QueueType([k EXCEPT !.retry_after[c] = "elapsed"])
         /\ OnlyThrottles(k, [k EXCEPT !.retry_after[c] = "elapsed"])
<1>1. /\ DOMAIN k = QueueFields /\ k.retry_after \in [Conversations -> Throttles]
      /\ k.retry_counts \in [Conversations -> 0 .. MaxRetries] /\ k.busy_notice_sent \subseteq Conversations
  BY DEF QueueType
<1>2. QueueType(TakeBusyNotice(k, c)) /\ OnlyThrottles(k, TakeBusyNotice(k, c))
  <2> DEFINE r == TakeBusyNotice(k, c)
  <2>1. /\ DOMAIN r = QueueFields /\ SameEvents(k, r) /\ r.cancel_reasons = k.cancel_reasons
        /\ r.in_flight_channels = k.in_flight_channels /\ r.in_flight_deadlines = k.in_flight_deadlines
        /\ r.in_flight_event_ids = k.in_flight_event_ids /\ r.retry_after = k.retry_after
        /\ r.retry_counts = k.retry_counts /\ r.busy_notice_sent = k.busy_notice_sent \cup {c}
    BY <1>1 DEF TakeBusyNotice, QueueFields, SameEvents
  <2> HIDE DEF r
  <2>2. QueueType(r)
    BY <1>1, <2>1, ThrottleProperties
  <2> QED
    BY <2>1, <2>2 DEF r, OnlyThrottles
<1>3. ASSUME NEW t \in Throttles
      PROVE  /\ QueueType([k EXCEPT !.retry_after[c] = t])
             /\ OnlyThrottles(k, [k EXCEPT !.retry_after[c] = t])
  <2> DEFINE r == [k EXCEPT !.retry_after[c] = t]
             ras == [k.retry_after EXCEPT ![c] = t]
  <2>1. /\ DOMAIN r = QueueFields /\ SameEvents(k, r) /\ r.cancel_reasons = k.cancel_reasons
        /\ r.in_flight_channels = k.in_flight_channels /\ r.in_flight_deadlines = k.in_flight_deadlines
        /\ r.in_flight_event_ids = k.in_flight_event_ids /\ r.retry_after = ras
        /\ r.retry_counts = k.retry_counts /\ r.busy_notice_sent = k.busy_notice_sent
    BY <1>1 DEF QueueFields, SameEvents
  <2>2. ras \in [Conversations -> Throttles]
    BY <1>1
  <2> HIDE DEF r, ras
  <2>3. QueueType(r)
    BY <1>1, <2>1, <2>2, ThrottleProperties
  <2> QED
    BY <2>1, <2>3 DEF r, OnlyThrottles
<1>4. "none" \in Throttles /\ "elapsed" \in Throttles
  BY DEF Throttles
<1> QED
  BY <1>2, <1>3, <1>4 DEF ClearRetryAfter

\* compact_expired_state
LEMMA CompactProperties ==
  ASSUME NEW k, QueueType(k)
  PROVE  QueueType(CompactExpiredState(k)) /\ OnlyThrottles(k, CompactExpiredState(k))
<1> DEFINE r == CompactExpiredState(k)
           ras == [c \in Conversations |-> IF k.retry_after[c] = "elapsed" THEN "none" ELSE k.retry_after[c]]
           counted(c) == ras[c] # "none" \/ k.queues[c] # <<>> \/ c \in k.in_flight_channels
           rcs == [c \in Conversations |-> IF counted(c) THEN k.retry_counts[c] ELSE 0]
<1>1. /\ DOMAIN k = QueueFields /\ k.retry_after \in [Conversations -> Throttles]
      /\ k.retry_counts \in [Conversations -> 0 .. MaxRetries] /\ k.busy_notice_sent \subseteq Conversations
  BY DEF QueueType
<1>2. r = [k EXCEPT !.retry_after = ras, !.retry_counts = rcs]
  BY DEF CompactExpiredState
<1>3. ras \in [Conversations -> Throttles] /\ rcs \in [Conversations -> 0 .. MaxRetries]
  BY <1>1, QueueAssumption DEF Throttles
<1> HIDE DEF r, ras, rcs
<1>4. /\ DOMAIN r = QueueFields /\ SameEvents(k, r) /\ r.cancel_reasons = k.cancel_reasons
      /\ r.in_flight_channels = k.in_flight_channels /\ r.in_flight_deadlines = k.in_flight_deadlines
      /\ r.in_flight_event_ids = k.in_flight_event_ids /\ r.retry_after = ras
      /\ r.retry_counts = rcs /\ r.busy_notice_sent = k.busy_notice_sent
  BY <1>1, <1>2 DEF QueueFields, SameEvents
<1>5. QueueType(r)
  BY <1>1, <1>3, <1>4, ThrottleProperties
<1> QED
  BY <1>4, <1>5 DEF r, OnlyThrottles

-----------------------------------------------------------------------------
(* Operations that move, remove or rewrite events *)

\* Queue r differs from queue k in the events it holds only.
OnlyEvents(k, r) ==
  /\ DOMAIN r = QueueFields
  /\ r.in_flight_channels = k.in_flight_channels
  /\ r.in_flight_deadlines = k.in_flight_deadlines
  /\ r.in_flight_event_ids = k.in_flight_event_ids
  /\ r.retry_after = k.retry_after
  /\ r.retry_counts = k.retry_counts
  /\ r.busy_notice_sent = k.busy_notice_sent

\* Then only those need their types.
LEMMA OnlyEventsType ==
  ASSUME NEW k, QueueType(k), NEW r, OnlyEvents(k, r),
         r.queues \in [Conversations -> Seq(Entry)],
         r.cancelled_batches \in [Conversations -> Seq(Entry)],
         r.cancel_reasons \in [Conversations -> CancelReasons \cup {"none"}],
         r.withheld_native_steer \in [Conversations -> Seq(Entry)],
         r.evicted \subseteq Events
  PROVE  QueueType(r)
  BY DEF QueueType, OnlyEvents

\* A restored sequence in front of a queue holds nothing else.
LEMMA ConcatIds ==
  ASSUME NEW s \in Seq(Entry), NEW t \in Seq(Entry)
  PROVE  /\ s \o t \in Seq(Entry)
         /\ Ids(s \o t) = Ids(s) \cup Ids(t)
         /\ NoDup(s) /\ NoDup(t) /\ Ids(s) \cap Ids(t) = {} => NoDup(s \o t)
         /\ \A z : Stamped(s, z) /\ Stamped(t, z) => Stamped(s \o t, z)
         /\ Drawn(t, s \o t)
<1> DEFINE m == Len(s)
           n == Len(t)
           w == s \o t
<1>1. /\ m \in Nat /\ n \in Nat /\ DOMAIN s = 1 .. m /\ DOMAIN t = 1 .. n
  BY LenProperties
<1>2. /\ w \in Seq(Entry) /\ Len(w) = m + n
      /\ \A i \in 1 .. m + n : w[i] = IF i <= m THEN s[i] ELSE t[i - m]
  BY ConcatProperties
<1>3. DOMAIN w = 1 .. m + n
  BY <1>2, LenProperties
<1> HIDE DEF m, n, w
<1>4. \A i \in 1 .. m : i \in 1 .. m + n /\ w[i] = s[i]
  BY <1>1, <1>2
<1>5. \A i \in 1 .. n : i + m \in 1 .. m + n /\ w[i + m] = t[i]
  <2> SUFFICES ASSUME NEW i \in 1 .. n PROVE i + m \in 1 .. m + n /\ w[i + m] = t[i]
    OBVIOUS
  <2>1. i + m \in 1 .. m + n /\ ~(i + m <= m) /\ (i + m) - m = i
    BY <1>1
  <2>2. w[i + m] = t[(i + m) - m]
    BY <1>2, <2>1
  <2> QED
    BY <2>1, <2>2
<1>6. \A i \in 1 .. m + n : (i \in 1 .. m /\ w[i] = s[i]) \/ (i - m \in 1 .. n /\ w[i] = t[i - m])
  BY <1>1, <1>2
<1>7. Ids(w) = Ids(s) \cup Ids(t)
  <2>1. Ids(w) \subseteq Ids(s) \cup Ids(t)
    BY <1>1, <1>3, <1>6 DEF Ids
  <2>2. Ids(s) \subseteq Ids(w)
    BY <1>1, <1>3, <1>4 DEF Ids
  <2>3. Ids(t) \subseteq Ids(w)
    BY <1>1, <1>3, <1>5 DEF Ids
  <2> QED
    BY <2>1, <2>2, <2>3
<1>8. ASSUME NoDup(s), NoDup(t), Ids(s) \cap Ids(t) = {}
      PROVE  NoDup(w)
  <2> SUFFICES ASSUME NEW i \in 1 .. m + n, NEW j \in 1 .. m + n, w[i].id = w[j].id
               PROVE  i = j
    BY <1>2 DEF NoDup
  <2>1. CASE i \in 1 .. m /\ w[i] = s[i] /\ j \in 1 .. m /\ w[j] = s[j]
    BY <1>8, <2>1 DEF NoDup, m
  <2>2. CASE i - m \in 1 .. n /\ w[i] = t[i - m] /\ j - m \in 1 .. n /\ w[j] = t[j - m]
    <3>1. i - m = j - m
      BY <1>8, <2>2 DEF NoDup, n
    <3> QED
      BY <1>1, <3>1
  <2>3. \A x \in 1 .. m, y \in 1 .. n : s[x].id # t[y].id
    <3> SUFFICES ASSUME NEW x \in 1 .. m, NEW y \in 1 .. n PROVE s[x].id # t[y].id
      OBVIOUS
    <3>1. s[x].id \in Ids(s) /\ t[y].id \in Ids(t)
      BY <1>1 DEF Ids
    <3> QED
      BY <1>8, <3>1
  <2> QED
    BY <1>6, <2>1, <2>2, <2>3
<1>9. Drawn(t, w)
  <2> DEFINE f == [i \in 1 .. n |-> i + m]
  <2>1. /\ f \in [1 .. n -> 1 .. m + n]
        /\ \A i, j \in 1 .. n : f[i] = f[j] => i = j
        /\ \A i \in 1 .. n : t[i].id = w[f[i]].id /\ t[i].received_at = w[f[i]].received_at
    BY <1>1, <1>5
  <2> HIDE DEF f
  <2> QED
    BY <1>2, <2>1 DEF Drawn, n
<1>10. \A z : Stamped(s, z) /\ Stamped(t, z) => Stamped(w, z)
  BY <1>2, <1>6 DEF Stamped, m, n
<1> QED
  BY <1>2, <1>7, <1>8, <1>9, <1>10 DEF w

\* Appending one event.
LEMMA AppendIds ==
  ASSUME NEW s \in Seq(Entry), NEW x \in Entry
  PROVE  /\ Append(s, x) \in Seq(Entry)
         /\ Ids(Append(s, x)) = Ids(s) \cup {x.id}
         /\ NoDup(s) /\ x.id \notin Ids(s) => NoDup(Append(s, x))
         /\ \A z \in Nat : Stamped(s, z) /\ x.received_at <= z => Stamped(Append(s, x), z)
<1> DEFINE m == Len(s)
           w == Append(s, x)
<1>1. m \in Nat /\ DOMAIN s = 1 .. m
  BY LenProperties
<1>2. /\ w \in Seq(Entry) /\ Len(w) = m + 1 /\ DOMAIN w = 1 .. m + 1
      /\ \A i \in 1 .. m : w[i] = s[i]
      /\ w[m + 1] = x
  BY AppendProperties, LenProperties
<1> HIDE DEF m, w
<1>3. \A i \in 1 .. m + 1 : i \in 1 .. m \/ i = m + 1
  BY <1>1
<1>4. \A i \in 1 .. m : i \in 1 .. m + 1 /\ i # m + 1
  BY <1>1
<1>5. m + 1 \in 1 .. m + 1
  BY <1>1
<1>6. Ids(w) = Ids(s) \cup {x.id}
  <2>1. Ids(w) \subseteq Ids(s) \cup {x.id}
    BY <1>1, <1>2, <1>3 DEF Ids
  <2>2. Ids(s) \subseteq Ids(w)
    BY <1>1, <1>2, <1>4 DEF Ids
  <2>3. x.id \in Ids(w)
    BY <1>2, <1>5 DEF Ids
  <2> QED
    BY <2>1, <2>2, <2>3
<1>7. ASSUME NoDup(s), x.id \notin Ids(s)
      PROVE  NoDup(w)
  <2>1. \A i \in 1 .. m : s[i].id # x.id
    BY <1>1, <1>7 DEF Ids
  <2> QED
    BY <1>2, <1>3, <1>7, <2>1 DEF NoDup, m
<1>8. \A z \in Nat : Stamped(s, z) /\ x.received_at <= z => Stamped(w, z)
  BY <1>2, <1>3 DEF Stamped, m
<1> QED
  BY <1>2, <1>6, <1>7, <1>8 DEF w

\* The batch flush_next returns: the oldest ready events of the conversation with the
\* cancelled ones, or the cancelled ones on their own.
LEMMA BatchProperties ==
  ASSUME NEW k, QueueType(k), NEW m, NEW c \in Conversations
  PROVE  LET b == BatchFor(k, m, c)
         IN /\ b \in FlushBatch /\ b.channel_id = c
            /\ c \in Candidates(k, m) =>
                 /\ Drawn(b.events, KeepFirst(k.queues[c], MaxBatch))
                 /\ b.cancelled_events = k.cancelled_batches[c]
            /\ c \notin Candidates(k, m) =>
                 /\ b.events = k.cancelled_batches[c]
                 /\ b.cancelled_events = <<>>
<1> DEFINE b == BatchFor(k, m, c)
           merge   == c \in Candidates(k, m)
           drained == KeepFirst(k.queues[c], MaxBatch)
           ready   == [i \in DOMAIN drained |-> [drained[i] EXCEPT !.hold_exempt = TRUE]]
           reason  == IF k.cancelled_batches[c] = <<>> THEN "none" ELSE k.cancel_reasons[c]
<1>1. /\ k.queues[c] \in Seq(Entry) /\ k.cancelled_batches[c] \in Seq(Entry)
      /\ k.cancel_reasons[c] \in CancelReasons \cup {"none"}
  BY DEF QueueType
<1>2. drained \in Seq(Entry)
  BY <1>1, KeepProperties, QueueAssumption
<1> HIDE DEF drained
<1>3. Len(drained) \in Nat /\ DOMAIN drained = 1 .. Len(drained)
  BY <1>2, LenProperties
<1>4. \A i \in 1 .. Len(drained) : drained[i] \in Entry
  BY <1>2, ElementOfSeq
<1>5. \A i \in 1 .. Len(drained) : ready[i] \in Entry /\ ready[i].id = drained[i].id /\ ready[i].received_at = drained[i].received_at
  <2> SUFFICES ASSUME NEW i \in 1 .. Len(drained)
               PROVE  ready[i] \in Entry /\ ready[i].id = drained[i].id /\ ready[i].received_at = drained[i].received_at
    OBVIOUS
  <2>1. drained[i] \in [id : Events, received_at : Nat, hold_exempt : BOOLEAN, edited : BOOLEAN]
    BY <1>4 DEF Entry
  <2>2. ready[i] = [drained[i] EXCEPT !.hold_exempt = TRUE]
    BY <1>3
  <2> QED
    BY <2>1, <2>2 DEF Entry
<1>6. /\ ready \in Seq(Entry) /\ Len(ready) = Len(drained)
  <2>1. ready \in [1 .. Len(drained) -> Entry]
    <3>1. ready = [i \in 1 .. Len(drained) |-> [drained[i] EXCEPT !.hold_exempt = TRUE]]
      BY <1>3
    <3>2. DOMAIN ready = 1 .. Len(drained)
      BY <3>1
    <3> HIDE DEF ready
    <3> QED
      BY <1>5, <3>1, <3>2
  <2> HIDE DEF ready
  <2> QED
    BY <1>3, <2>1, SeqDef, LenProperties
<1> HIDE DEF ready
<1>7. Drawn(ready, drained)
  <2> DEFINE f == [i \in 1 .. Len(drained) |-> i]
  <2>1. /\ f \in [1 .. Len(drained) -> 1 .. Len(drained)]
        /\ \A i, j \in 1 .. Len(drained) : f[i] = f[j] => i = j
        /\ \A i \in 1 .. Len(drained) : ready[i].id = drained[f[i]].id /\ ready[i].received_at = drained[f[i]].received_at
    BY <1>5
  <2> HIDE DEF f
  <2> QED
    BY <1>6, <2>1 DEF Drawn
<1>8. SortByCreatedAt(ready) \in Seq(Entry) /\ Drawn(SortByCreatedAt(ready), drained)
  BY <1>6, <1>7, SortProperties, DrawnTrans
<1>9. b = [channel_id |-> c,
           events |-> IF merge THEN SortByCreatedAt(ready) ELSE k.cancelled_batches[c],
           cancelled_events |-> IF merge THEN k.cancelled_batches[c] ELSE <<>>,
           cancel_reason |-> reason]
  BY DEF BatchFor, ready, drained
<1>10. <<>> \in Seq(Entry) /\ reason \in CancelReasons \cup {"none"}
  BY <1>1, EmptySeq
<1> HIDE DEF merge, b, reason
<1>11. /\ b.channel_id = c
       /\ b.events = IF merge THEN SortByCreatedAt(ready) ELSE k.cancelled_batches[c]
       /\ b.cancelled_events = IF merge THEN k.cancelled_batches[c] ELSE <<>>
  BY <1>9
<1>12. b \in FlushBatch
  BY <1>1, <1>8, <1>9, <1>10 DEF FlushBatch
<1> QED
  BY <1>8, <1>11, <1>12 DEF b, merge, drained

\* What is drained and what stays of a queue.
LEMMA SplitProperties ==
  ASSUME NEW s \in Seq(Entry), NEW n \in Nat
  PROVE  LET rest == SubSeq(s, Len(KeepFirst(s, n)) + 1, Len(s))
         IN /\ rest \in Seq(Entry) /\ Drawn(rest, s) /\ Len(rest) <= Len(s)
            /\ NoDup(s) => Ids(rest) \cap Ids(KeepFirst(s, n)) = {}
<1> DEFINE kept == KeepFirst(s, n)
           l    == Len(kept)
           z    == Len(s)
           rest == SubSeq(s, l + 1, z)
<1>1. z \in Nat /\ DOMAIN s = 1 .. z
  BY LenProperties
<1>2. kept \in Seq(Entry) /\ l \in Nat /\ l <= z /\ DOMAIN kept = 1 .. l
  BY KeepProperties, LenProperties
<1>3. kept = SubSeq(s, 1, l)
  BY <1>1, <1>2 DEF KeepFirst
<1> HIDE DEF kept, l, z
<1>4. /\ rest \in Seq(Entry) /\ Drawn(rest, s)
      /\ Len(rest) = IF l + 1 <= z THEN z - (l + 1) + 1 ELSE 0
      /\ \A i \in 1 .. z - (l + 1) + 1 : rest[i] = s[(l + 1) + i - 1]
  BY <1>1, <1>2, SubSeqDrawn DEF z
<1>5. \A i \in 1 .. l - 1 + 1 : kept[i] = s[1 + i - 1]
  BY <1>1, <1>2, <1>3, SubSeqDrawn DEF z
<1> HIDE DEF rest
<1>6. Len(rest) = z - l /\ DOMAIN rest = 1 .. z - l
  BY <1>1, <1>2, <1>4, LenProperties
<1>7. ASSUME NoDup(s) PROVE Ids(rest) \cap Ids(kept) = {}
  <2> SUFFICES ASSUME NEW i \in 1 .. z - l, NEW j \in 1 .. l, rest[i].id = kept[j].id
               PROVE  FALSE
    BY <1>2, <1>6 DEF Ids
  <2>1. /\ (l + 1) + i - 1 \in 1 .. z /\ 1 + j - 1 \in 1 .. z
        /\ (l + 1) + i - 1 # 1 + j - 1
        /\ i \in 1 .. z - (l + 1) + 1 /\ j \in 1 .. l - 1 + 1
    BY <1>1, <1>2
  <2>2. s[(l + 1) + i - 1].id = s[1 + j - 1].id
    BY <1>4, <1>5, <2>1
  <2> QED
    BY <1>7, <2>1, <2>2 DEF NoDup, z
<1>8. Len(rest) <= z
  BY <1>1, <1>2, <1>6
<1> QED
  BY <1>4, <1>7, <1>8 DEF rest, kept, l, z

\* flush_next takes the batch out of the queue and marks its events in flight.
LEMMA FlushedProperties ==
  ASSUME NEW k, QueueType(k), CapOK(k), NEW m, NEW c \in Conversations
  PROVE  LET r == Flushed(k, m, c)
         IN /\ QueueType(r) /\ CapOK(r)
            /\ r.in_flight_channels = k.in_flight_channels \cup {c}
            /\ r.in_flight_event_ids[c] = BatchIds(BatchFor(k, m, c))
            /\ r.cancelled_batches[c] = <<>>
            /\ r.withheld_native_steer = k.withheld_native_steer
            /\ \A d \in Conversations \ {c} : /\ r.queues[d] = k.queues[d]
                                              /\ r.cancelled_batches[d] = k.cancelled_batches[d]
                                              /\ r.in_flight_event_ids[d] = k.in_flight_event_ids[d]
            /\ Drawn(r.queues[c], k.queues[c])
            /\ NoDup(k.queues[c]) /\ c \in Candidates(k, m) =>
                 Ids(r.queues[c]) \cap Ids(BatchFor(k, m, c).events) = {}
<1> DEFINE r == Flushed(k, m, c)
           b == BatchFor(k, m, c)
           s == k.queues[c]
           kept == KeepFirst(s, MaxBatch)
           rest == SubSeq(s, Len(KeepFirst(s, MaxBatch)) + 1, Len(s))
           left == IF c \in Candidates(k, m) THEN rest ELSE s
<1>1. /\ k.queues \in [Conversations -> Seq(Entry)] /\ s \in Seq(Entry) /\ MaxBatch \in Nat
      /\ DOMAIN k = QueueFields
  BY QueueAssumption DEF QueueType
<1>2. /\ rest \in Seq(Entry) /\ Drawn(rest, s) /\ Len(rest) <= Len(s)
      /\ NoDup(s) => Ids(rest) \cap Ids(kept) = {}
  BY <1>1, SplitProperties
<1>3. left \in Seq(Entry) /\ Drawn(left, s) /\ Len(left) <= Len(s)
  <2>1. Drawn(s, s) /\ Len(s) \in Nat
    BY <1>1, DrawnSelf, LenProperties
  <2> HIDE DEF rest, s
  <2> QED
    BY <1>1, <1>2, <2>1
<1>4. /\ b \in FlushBatch
      /\ c \in Candidates(k, m) => Drawn(b.events, kept)
  BY BatchProperties
<1>5. BatchIds(b) \subseteq Events
  <2>1. b.events \in Seq(Entry) /\ b.cancelled_events \in Seq(Entry)
    BY <1>4 DEF FlushBatch
  <2> HIDE DEF b
  <2> QED
    BY <2>1, IdsOfEntries DEF BatchIds
<1>6. r = [k EXCEPT !.queues[c] = left,
                    !.in_flight_channels = k.in_flight_channels \cup {c},
                    !.in_flight_deadlines[c] = "running",
                    !.in_flight_event_ids[c] = BatchIds(b),
                    !.cancelled_batches[c] = <<>>,
                    !.cancel_reasons[c] = "none"]
  BY DEF Flushed
<1> HIDE DEF b, left, r
<1>7. /\ DOMAIN r = QueueFields
      /\ r.queues = [k.queues EXCEPT ![c] = left]
      /\ r.in_flight_channels = k.in_flight_channels \cup {c}
      /\ r.in_flight_deadlines = [k.in_flight_deadlines EXCEPT ![c] = "running"]
      /\ r.in_flight_event_ids = [k.in_flight_event_ids EXCEPT ![c] = BatchIds(b)]
      /\ r.cancelled_batches = [k.cancelled_batches EXCEPT ![c] = <<>>]
      /\ r.cancel_reasons = [k.cancel_reasons EXCEPT ![c] = "none"]
      /\ r.withheld_native_steer = k.withheld_native_steer
      /\ r.retry_after = k.retry_after /\ r.retry_counts = k.retry_counts
      /\ r.busy_notice_sent = k.busy_notice_sent /\ r.evicted = k.evicted
  BY <1>1, <1>6 DEF QueueFields
<1>8. <<>> \in Seq(Entry)
  BY EmptySeq
<1>9. /\ r.queues \in [Conversations -> Seq(Entry)]
      /\ r.in_flight_deadlines \in [Conversations -> Deadlines]
      /\ r.in_flight_event_ids \in [Conversations -> SUBSET Events]
      /\ r.cancelled_batches \in [Conversations -> Seq(Entry)]
      /\ r.cancel_reasons \in [Conversations -> CancelReasons \cup {"none"}]
  BY <1>3, <1>5, <1>7, <1>8 DEF QueueType, Deadlines
<1>10. QueueType(r)
  BY <1>7, <1>9 DEF QueueType
<1>11. /\ r.queues[c] = left /\ r.cancelled_batches[c] = <<>>
       /\ r.in_flight_event_ids[c] = BatchIds(b)
       /\ \A d \in Conversations \ {c} : /\ r.queues[d] = k.queues[d]
                                         /\ r.cancelled_batches[d] = k.cancelled_batches[d]
                                         /\ r.in_flight_event_ids[d] = k.in_flight_event_ids[d]
  BY <1>7 DEF QueueType
<1>12. CapOK(r)
  <2>1. \A d \in Conversations : Len(r.queues[d]) <= Len(k.queues[d])
    <3> SUFFICES ASSUME NEW d \in Conversations PROVE Len(r.queues[d]) <= Len(k.queues[d])
      OBVIOUS
    <3>1. k.queues[d] \in Seq(Entry)
      BY <1>1
    <3>2. Len(k.queues[d]) \in Nat
      BY <3>1, LenProperties
    <3> QED
      BY <1>3, <1>11, <3>2
  <2> QED
    BY <1>9, <2>1, CapKept
<1>13. ASSUME NoDup(s), c \in Candidates(k, m)
       PROVE  Ids(r.queues[c]) \cap Ids(b.events) = {}
  <2>1. r.queues[c] = rest /\ Ids(rest) \cap Ids(kept) = {}
    BY <1>2, <1>11, <1>13 DEF left
  <2>2. b.events \in Seq(Entry) /\ kept \in Seq(Entry) /\ Drawn(b.events, kept)
    BY <1>1, <1>4, <1>13, KeepProperties DEF FlushBatch
  <2> HIDE DEF kept, rest
  <2>3. Ids(b.events) \subseteq Ids(kept)
    BY <2>2, DrawnProperties
  <2> QED
    BY <2>1, <2>3
<1> QED
  BY <1>3, <1>7, <1>10, <1>11, <1>12, <1>13 DEF b, r

\* The expiry sweep puts the withheld events of the conversation back in front.
LEMMA ExpireProperties ==
  ASSUME NEW k, QueueType(k), CapOK(k), NEW c \in Conversations
  PROVE  LET r == ExpireInFlight(k, c)
         IN /\ QueueType(r) /\ CapOK(r)
            /\ r.in_flight_channels = k.in_flight_channels \ {c}
            /\ r.in_flight_event_ids[c] = {}
            /\ r.cancelled_batches = k.cancelled_batches
            /\ r.withheld_native_steer[c] = <<>>
            /\ \A d \in Conversations \ {c} :
                 /\ Drawn(r.queues[d], k.queues[d])
                 /\ r.withheld_native_steer[d] = k.withheld_native_steer[d]
                 /\ r.in_flight_event_ids[d] = k.in_flight_event_ids[d]
            /\ Drawn(r.queues[c], k.withheld_native_steer[c] \o k.queues[c])
<1> DEFINE w   == k.withheld_native_steer[c]
           chs == k.in_flight_channels \ {c}
           dls == [k.in_flight_deadlines EXCEPT ![c] = "none"]
           ids == [k.in_flight_event_ids EXCEPT ![c] = {}]
           whs == [k.withheld_native_steer EXCEPT ![c] = <<>>]
           mid == [k EXCEPT !.in_flight_channels       = @ \ {c},
                            !.in_flight_event_ids[c]   = {},
                            !.in_flight_deadlines[c]   = "none",
                            !.withheld_native_steer[c] = <<>>]
<1>1. /\ DOMAIN k = QueueFields /\ w \in Seq(Entry) /\ k.queues \in [Conversations -> Seq(Entry)]
      /\ k.queues[c] \in Seq(Entry)
  BY DEF QueueType
<1>2. /\ DOMAIN mid = QueueFields
      /\ mid.in_flight_channels = chs /\ mid.in_flight_deadlines = dls /\ mid.in_flight_event_ids = ids
      /\ mid.withheld_native_steer = whs /\ mid.queues = k.queues
      /\ mid.cancelled_batches = k.cancelled_batches /\ mid.cancel_reasons = k.cancel_reasons
      /\ mid.retry_after = k.retry_after /\ mid.retry_counts = k.retry_counts
      /\ mid.busy_notice_sent = k.busy_notice_sent /\ mid.evicted = k.evicted
  BY <1>1 DEF QueueFields
<1>3. <<>> \in Seq(Entry)
  BY EmptySeq
<1>4. /\ chs \subseteq Conversations /\ dls \in [Conversations -> Deadlines]
      /\ ids \in [Conversations -> SUBSET Events] /\ whs \in [Conversations -> Seq(Entry)]
      /\ ids[c] = {} /\ whs[c] = <<>>
      /\ \A d \in Conversations \ {c} : /\ whs[d] = k.withheld_native_steer[d]
                                        /\ ids[d] = k.in_flight_event_ids[d]
  BY <1>3 DEF QueueType, Deadlines
<1>5. ExpireInFlight(k, c) = IF w = <<>> THEN mid ELSE RestoreFront(mid, c, w)
  BY DEF ExpireInFlight
<1> HIDE DEF mid, dls, ids, whs
<1>6. QueueType(mid)
  BY <1>2, <1>4 DEF QueueType
<1>7. CapOK(mid)
  BY <1>2 DEF CapOK
<1>8. CASE w = <<>>
  <2>1. \A d \in Conversations : Drawn(mid.queues[d], k.queues[d])
    BY <1>2, DrawnSelf
  <2>2. Drawn(mid.queues[c], w \o k.queues[c])
    BY <1>1, <1>2, ConcatIds
  <2> QED
    BY <1>2, <1>4, <1>5, <1>6, <1>7, <1>8, <2>1, <2>2
<1>9. CASE w # <<>>
  <2> DEFINE r == RestoreFront(mid, c, w)
  <2>1. /\ QueueType(r) /\ CapOK(r) /\ OnlyReady(mid, r)
        /\ \A d \in Conversations \ {c} : Drawn(r.queues[d], mid.queues[d])
        /\ Drawn(r.queues[c], w \o mid.queues[c])
    BY <1>1, <1>6, <1>7, RestoreFrontProperties
  <2> HIDE DEF r, w
  <2>2. ExpireInFlight(k, c) = r
    BY <1>5, <1>9 DEF r
  <2> QED
    BY <1>2, <1>4, <2>1, <2>2 DEF OnlyReady, w
<1> QED
  BY <1>8, <1>9

\* Both requeues put the events of the batch back in front, or none of them.
LEMMA RequeueProperties ==
  ASSUME NEW k, QueueType(k), CapOK(k), NEW b \in FlushBatch,
         NEW r \in {Requeue(k, b), RequeuePreserveTimestamps(k, b)}
  PROVE  /\ QueueType(r) /\ CapOK(r)
         /\ r.in_flight_channels = k.in_flight_channels
         /\ r.in_flight_event_ids = k.in_flight_event_ids
         /\ r.cancelled_batches = k.cancelled_batches
         /\ r.withheld_native_steer = k.withheld_native_steer
         /\ \A d \in Conversations \ {b.channel_id} : Drawn(r.queues[d], k.queues[d])
         /\ Drawn(r.queues[b.channel_id], b.events \o k.queues[b.channel_id])
<1> DEFINE c == b.channel_id
           s == b.events
<1>1. /\ c \in Conversations /\ s \in Seq(Entry) /\ DOMAIN k = QueueFields
      /\ k.queues \in [Conversations -> Seq(Entry)] /\ k.queues[c] \in Seq(Entry)
      /\ k.retry_counts \in [Conversations -> 0 .. MaxRetries]
      /\ k.retry_after \in [Conversations -> Throttles]
      /\ k.busy_notice_sent \subseteq Conversations
  BY DEF QueueType, FlushBatch
<1> HIDE DEF c, s
<1>2. CASE r = RequeuePreserveTimestamps(k, b)
  <2>1. r = RestoreFront(k, c, s)
    BY <1>2 DEF RequeuePreserveTimestamps, c, s
  <2>2. /\ QueueType(r) /\ CapOK(r) /\ OnlyReady(k, r)
        /\ \A d \in Conversations \ {c} : Drawn(r.queues[d], k.queues[d])
        /\ Drawn(r.queues[c], s \o k.queues[c])
    BY <1>1, <2>1, RestoreFrontProperties
  <2> QED
    BY <2>2 DEF OnlyReady, c, s
<1>3. CASE r = Requeue(k, b) /\ RetryExhausted(k, c)
  <2> DEFINE ras == [k.retry_after EXCEPT ![c] = "none"]
             rcs == [k.retry_counts EXCEPT ![c] = 0]
             bns == k.busy_notice_sent \ {c}
  <2>1. r = [k EXCEPT !.retry_counts[c] = 0, !.retry_after[c] = "none", !.busy_notice_sent = @ \ {c}]
    BY <1>3 DEF Requeue, c
  <2>2. /\ DOMAIN r = QueueFields /\ SameEvents(k, r) /\ r.cancel_reasons = k.cancel_reasons
        /\ r.in_flight_channels = k.in_flight_channels /\ r.in_flight_deadlines = k.in_flight_deadlines
        /\ r.in_flight_event_ids = k.in_flight_event_ids /\ r.retry_after = ras
        /\ r.retry_counts = rcs /\ r.busy_notice_sent = bns
    BY <1>1, <2>1 DEF QueueFields, SameEvents
  <2>3. /\ ras \in [Conversations -> Throttles] /\ rcs \in [Conversations -> 0 .. MaxRetries]
        /\ bns \subseteq Conversations
    BY <1>1, QueueAssumption DEF Throttles
  <2> HIDE DEF ras, rcs, bns
  <2>4. QueueType(r)
    BY <2>2, <2>3, ThrottleProperties
  <2>5. CapOK(r)
    BY <2>2, SameEventsCap
  <2>6. \A d \in Conversations : Drawn(r.queues[d], k.queues[d])
    BY <2>2, DrawnSelf DEF SameEvents
  <2>7. Drawn(r.queues[c], s \o k.queues[c])
    BY <1>1, <2>2, ConcatIds DEF SameEvents
  <2> QED
    BY <2>2, <2>4, <2>5, <2>6, <2>7 DEF SameEvents, c, s
<1>4. CASE r = Requeue(k, b) /\ ~RetryExhausted(k, c)
  <2> DEFINE rcs == [k.retry_counts EXCEPT ![c] = @ + 1]
             mid == [k EXCEPT !.retry_counts[c] = @ + 1]
             put == RestoreFront(mid, c, s)
             ras == [put.retry_after EXCEPT ![c] = "pending"]
  <2>1. r = [put EXCEPT !.retry_after[c] = "pending"]
    BY <1>4 DEF Requeue, c, s
  <2>2. k.retry_counts[c] + 1 \in 0 .. MaxRetries
    <3>1. k.retry_counts[c] \in 0 .. MaxRetries /\ ~(k.retry_counts[c] + 1 > MaxRetries)
      BY <1>1, <1>4 DEF RetryExhausted
    <3> QED
      BY <3>1, QueueAssumption
  <2>3. rcs \in [Conversations -> 0 .. MaxRetries]
    BY <1>1, <2>2
  <2>4. /\ DOMAIN mid = QueueFields /\ SameEvents(k, mid) /\ mid.cancel_reasons = k.cancel_reasons
        /\ mid.in_flight_channels = k.in_flight_channels /\ mid.in_flight_deadlines = k.in_flight_deadlines
        /\ mid.in_flight_event_ids = k.in_flight_event_ids /\ mid.retry_after = k.retry_after
        /\ mid.retry_counts = rcs /\ mid.busy_notice_sent = k.busy_notice_sent
    BY <1>1 DEF QueueFields, SameEvents
  <2> HIDE DEF mid, rcs, put
  <2>5. QueueType(mid)
    BY <1>1, <2>3, <2>4, ThrottleProperties
  <2>6. CapOK(mid)
    BY <2>4, SameEventsCap
  <2>7. /\ QueueType(put) /\ CapOK(put) /\ OnlyReady(mid, put)
        /\ \A d \in Conversations \ {c} : Drawn(put.queues[d], mid.queues[d])
        /\ Drawn(put.queues[c], s \o mid.queues[c])
    BY <1>1, <2>5, <2>6, RestoreFrontProperties DEF put
  <2>8. /\ DOMAIN put = QueueFields /\ put.retry_after \in [Conversations -> Throttles]
        /\ put.retry_counts \in [Conversations -> 0 .. MaxRetries]
        /\ put.busy_notice_sent \subseteq Conversations
    BY <2>7 DEF QueueType
  <2>9. /\ DOMAIN r = QueueFields /\ SameEvents(put, r) /\ r.cancel_reasons = put.cancel_reasons
        /\ r.in_flight_channels = put.in_flight_channels /\ r.in_flight_deadlines = put.in_flight_deadlines
        /\ r.in_flight_event_ids = put.in_flight_event_ids /\ r.retry_after = ras
        /\ r.retry_counts = put.retry_counts /\ r.busy_notice_sent = put.busy_notice_sent
    BY <2>1, <2>8 DEF QueueFields, SameEvents
  <2>10. ras \in [Conversations -> Throttles]
    BY <1>1, <2>8 DEF Throttles
  <2> HIDE DEF ras
  <2>11. QueueType(r)
    BY <2>7, <2>8, <2>9, <2>10, ThrottleProperties
  <2>12. CapOK(r)
    BY <2>7, <2>9, SameEventsCap
  <2> QED
    BY <2>4, <2>7, <2>9, <2>11, <2>12 DEF SameEvents, OnlyReady, c, s
<1> QED
  BY <1>2, <1>3, <1>4

\* A cancelled batch is appended to what was cancelled before, oldest dropped.
LEMMA CancelProperties ==
  ASSUME NEW k, QueueType(k), CapOK(k), NEW b \in FlushBatch, NEW reason \in CancelReasons
  PROVE  LET r == RequeueAsCancelled(k, b, reason)
             c == b.channel_id
         IN /\ QueueType(r) /\ CapOK(r)
            /\ r.in_flight_channels = k.in_flight_channels
            /\ r.in_flight_event_ids = k.in_flight_event_ids
            /\ r.queues = k.queues
            /\ r.withheld_native_steer = k.withheld_native_steer
            /\ \A d \in Conversations \ {c} : r.cancelled_batches[d] = k.cancelled_batches[d]
            /\ Drawn(r.cancelled_batches[c], k.cancelled_batches[c] \o b.cancelled_events \o b.events)
<1> DEFINE c     == b.channel_id
           r     == RequeueAsCancelled(k, b, reason)
           whole == k.cancelled_batches[c] \o b.cancelled_events \o b.events
           kept  == KeepLast(whole, MaxPending)
           lost  == Ids(whole) \ Ids(kept)
<1>1. /\ c \in Conversations /\ b.events \in Seq(Entry) /\ b.cancelled_events \in Seq(Entry)
      /\ k.cancelled_batches[c] \in Seq(Entry) /\ DOMAIN k = QueueFields
      /\ k.evicted \subseteq Events
  BY DEF QueueType, FlushBatch
<1>2. whole \in Seq(Entry)
  BY <1>1, ConcatProperties
<1>3. kept \in Seq(Entry) /\ Drawn(kept, whole)
  BY <1>2, KeepProperties, QueueAssumption
<1>4. lost \subseteq Events
  BY <1>2, IdsOfEntries
<1>5. r = [k EXCEPT !.cancelled_batches[c] = kept, !.cancel_reasons[c] = reason,
                    !.evicted = @ \cup lost]
  BY DEF RequeueAsCancelled
<1> HIDE DEF c, whole, kept, lost, r
<1>6. /\ OnlyEvents(k, r) /\ r.queues = k.queues
      /\ r.cancelled_batches = [k.cancelled_batches EXCEPT ![c] = kept]
      /\ r.cancel_reasons = [k.cancel_reasons EXCEPT ![c] = reason]
      /\ r.withheld_native_steer = k.withheld_native_steer
      /\ r.evicted = k.evicted \cup lost
  BY <1>1, <1>5 DEF QueueFields, OnlyEvents
<1>7. /\ r.queues \in [Conversations -> Seq(Entry)]
      /\ r.cancelled_batches \in [Conversations -> Seq(Entry)]
      /\ r.cancel_reasons \in [Conversations -> CancelReasons \cup {"none"}]
      /\ r.withheld_native_steer \in [Conversations -> Seq(Entry)]
      /\ r.evicted \subseteq Events
  BY <1>1, <1>3, <1>4, <1>6 DEF QueueType
<1>8. QueueType(r)
  BY <1>6, <1>7, OnlyEventsType
<1>9. CapOK(r)
  BY <1>6 DEF CapOK
<1>10. /\ r.cancelled_batches[c] = kept
       /\ \A d \in Conversations \ {c} : r.cancelled_batches[d] = k.cancelled_batches[d]
  BY <1>1, <1>6 DEF QueueType
<1> QED
  BY <1>3, <1>6, <1>8, <1>9, <1>10 DEF OnlyEvents, c, whole, r

\* A step that only removes or moves events out of the ready queues keeps type and caps.
LEMMA ShrinkProperties ==
  ASSUME NEW k, QueueType(k), CapOK(k), NEW r, OnlyEvents(k, r),
         r.queues \in [Conversations -> Seq(Entry)],
         r.cancelled_batches \in [Conversations -> Seq(Entry)],
         r.cancel_reasons \in [Conversations -> CancelReasons \cup {"none"}],
         r.withheld_native_steer \in [Conversations -> Seq(Entry)],
         r.evicted = k.evicted,
         \A d \in Conversations : Drawn(r.queues[d], k.queues[d])
  PROVE  QueueType(r) /\ CapOK(r)
<1>1. QueueType(r)
  BY OnlyEventsType DEF QueueType
<1>2. \A d \in Conversations : Len(r.queues[d]) <= Len(k.queues[d])
  <2> SUFFICES ASSUME NEW d \in Conversations PROVE Len(r.queues[d]) <= Len(k.queues[d])
    OBVIOUS
  <2>1. r.queues[d] \in Seq(Entry) /\ k.queues[d] \in Seq(Entry) /\ Drawn(r.queues[d], k.queues[d])
    BY DEF QueueType
  <2> QED
    BY <2>1, DrawnProperties
<1> QED
  BY <1>1, <1>2, CapKept

\* Nothing is drawn from anything.
LEMMA DrawnEmpty ==
  ASSUME NEW s \in Seq(Entry)
  PROVE  Drawn(<<>>, s)
<1> DEFINE e == SubSeq(s, 1, 0)
<1>1. Len(s) \in Nat
  BY LenProperties
<1>2. e \in Seq(Entry) /\ Len(e) = 0 /\ Drawn(e, s)
  BY <1>1, SubSeqDrawn
<1>3. e = <<>>
  BY <1>2, EmptySeq
<1> QED
  BY <1>2, <1>3

\* drain_channel on a set of conversations.
LEMMA DrainProperties ==
  ASSUME NEW k, QueueType(k), CapOK(k), NEW cs
  PROVE  LET r == DrainChannels(k, cs)
         IN /\ QueueType(r) /\ CapOK(r)
            /\ r.in_flight_channels = k.in_flight_channels
            /\ r.in_flight_event_ids = k.in_flight_event_ids
            /\ \A d \in Conversations :
                 /\ r.queues[d] = IF d \in cs THEN <<>> ELSE k.queues[d]
                 /\ r.cancelled_batches[d] = IF d \in cs THEN <<>> ELSE k.cancelled_batches[d]
                 /\ r.withheld_native_steer[d] = IF d \in cs THEN <<>> ELSE k.withheld_native_steer[d]
<1> DEFINE r == DrainChannels(k, cs)
           qs == [c \in Conversations |-> IF c \in cs THEN <<>> ELSE k.queues[c]]
           bs == [c \in Conversations |-> IF c \in cs THEN <<>> ELSE k.cancelled_batches[c]]
           ws == [c \in Conversations |-> IF c \in cs THEN <<>> ELSE k.withheld_native_steer[c]]
           rs == [c \in Conversations |-> IF c \in cs THEN "none" ELSE k.cancel_reasons[c]]
           ras == [c \in Conversations |-> IF c \in cs THEN "none" ELSE k.retry_after[c]]
           rcs == [c \in Conversations |-> IF c \in cs THEN 0 ELSE k.retry_counts[c]]
           bns == k.busy_notice_sent \ cs
<1>1. r = [k EXCEPT !.queues = qs, !.retry_after = ras, !.retry_counts = rcs,
                    !.busy_notice_sent = bns, !.cancelled_batches = bs, !.cancel_reasons = rs,
                    !.withheld_native_steer = ws]
  BY DEF DrainChannels
<1>2. DOMAIN k = QueueFields /\ <<>> \in Seq(Entry)
  BY EmptySeq DEF QueueType
<1>3. /\ qs \in [Conversations -> Seq(Entry)] /\ bs \in [Conversations -> Seq(Entry)]
      /\ ws \in [Conversations -> Seq(Entry)]
      /\ rs \in [Conversations -> CancelReasons \cup {"none"}]
      /\ ras \in [Conversations -> Throttles] /\ rcs \in [Conversations -> 0 .. MaxRetries]
      /\ bns \subseteq Conversations
  BY <1>2, QueueAssumption DEF QueueType, Throttles
<1>4. \A d \in Conversations :
        /\ qs[d] = IF d \in cs THEN <<>> ELSE k.queues[d]
        /\ bs[d] = IF d \in cs THEN <<>> ELSE k.cancelled_batches[d]
        /\ ws[d] = IF d \in cs THEN <<>> ELSE k.withheld_native_steer[d]
  OBVIOUS
<1> HIDE DEF r, qs, bs, ws, rs, ras, rcs, bns
<1>5. /\ DOMAIN r = QueueFields /\ r.queues = qs /\ r.cancelled_batches = bs
      /\ r.withheld_native_steer = ws /\ r.cancel_reasons = rs /\ r.retry_after = ras
      /\ r.retry_counts = rcs /\ r.busy_notice_sent = bns /\ r.evicted = k.evicted
      /\ r.in_flight_channels = k.in_flight_channels /\ r.in_flight_deadlines = k.in_flight_deadlines
      /\ r.in_flight_event_ids = k.in_flight_event_ids
  BY <1>1, <1>2 DEF QueueFields
<1>6. QueueType(r)
  BY <1>3, <1>5 DEF QueueType
<1>7. \A d \in Conversations : Len(r.queues[d]) <= Len(k.queues[d])
  <2> SUFFICES ASSUME NEW d \in Conversations PROVE Len(r.queues[d]) <= Len(k.queues[d])
    OBVIOUS
  <2>1. k.queues[d] \in Seq(Entry)
    BY DEF QueueType
  <2>2. Len(k.queues[d]) \in Nat /\ Len(<<>>) = 0
    BY <2>1, LenProperties
  <2>3. r.queues[d] = <<>> \/ r.queues[d] = k.queues[d]
    BY <1>4, <1>5
  <2> QED
    BY <2>2, <2>3
<1>8. CapOK(r)
  BY <1>3, <1>5, <1>7, CapKept
<1> QED
  BY <1>4, <1>5, <1>6, <1>8 DEF r

\* A steered event moves from the ready queue to the withheld list.
LEMMA WithholdProperties ==
  ASSUME NEW k, QueueType(k), CapOK(k), NEW c \in Conversations, NEW e
  PROVE  LET r == MarkNativeSteerPending(k, c, e)
         IN /\ QueueType(r) /\ CapOK(r) /\ OnlyEvents(k, r)
            /\ r.cancelled_batches = k.cancelled_batches
            /\ \A d \in Conversations : Drawn(r.queues[d], k.queues[d])
            /\ \A d \in Conversations \ {c} : r.withheld_native_steer[d] = k.withheld_native_steer[d]
            /\ \/ r = k /\ e \notin Ids(k.queues[c])
               \/ /\ \E x \in Entry : /\ x.id = e
                                      /\ \E i \in 1 .. Len(k.queues[c]) : x = k.queues[c][i]
                                      /\ r.withheld_native_steer[c] = Append(k.withheld_native_steer[c], x)
                  /\ NoDup(k.queues[c]) => e \notin Ids(r.queues[c])
<1> DEFINE r == MarkNativeSteerPending(k, c, e)
           s == k.queues[c]
           i == Position(s, e)
           x == s[i]
           cut == RemoveAt(s, i)
           w == Append(k.withheld_native_steer[c], x)
<1>1. /\ DOMAIN k = QueueFields /\ s \in Seq(Entry) /\ k.queues \in [Conversations -> Seq(Entry)]
      /\ k.withheld_native_steer \in [Conversations -> Seq(Entry)]
      /\ k.withheld_native_steer[c] \in Seq(Entry)
  BY DEF QueueType
<1>2. CASE e \notin Ids(s)
  <2>1. r = k
    BY <1>2 DEF MarkNativeSteerPending
  <2>2. OnlyEvents(k, k)
    BY <1>1 DEF OnlyEvents
  <2> HIDE DEF r
  <2>3. \A d \in Conversations : Drawn(r.queues[d], k.queues[d])
    BY <2>1, DrawnSelf
  <2> QED
    BY <1>2, <2>1, <2>2, <2>3 DEF r
<1>3. CASE e \in Ids(s)
  <2>1. i \in 1 .. Len(s) /\ x.id = e
    BY <1>1, <1>3, PositionProperties
  <2>2. x \in Entry
    BY <1>1, <2>1, ElementOfSeq
  <2>3. /\ cut \in Seq(Entry) /\ Drawn(cut, s)
        /\ NoDup(s) => e \notin Ids(cut)
    <3>1. i \in 1 .. Len(s) => /\ cut \in Seq(Entry) /\ Drawn(cut, s)
                               /\ NoDup(s) => s[i].id \notin Ids(cut)
      BY <1>1, RemoveAtProperties
    <3> HIDE DEF cut, i
    <3> QED
      BY <2>1, <3>1
  <2>4. r = [k EXCEPT !.queues[c] = cut, !.withheld_native_steer[c] = w]
    BY <1>3 DEF MarkNativeSteerPending
  <2> HIDE DEF cut, x, i
  <2>5. w \in Seq(Entry)
    BY <1>1, <2>2, AppendProperties
  <2> HIDE DEF r, w
  <2>6. /\ OnlyEvents(k, r) /\ r.queues = [k.queues EXCEPT ![c] = cut]
        /\ r.withheld_native_steer = [k.withheld_native_steer EXCEPT ![c] = w]
        /\ r.cancelled_batches = k.cancelled_batches /\ r.cancel_reasons = k.cancel_reasons
        /\ r.evicted = k.evicted
    BY <1>1, <2>4 DEF OnlyEvents, QueueFields
  <2>7. /\ r.queues \in [Conversations -> Seq(Entry)]
        /\ r.withheld_native_steer \in [Conversations -> Seq(Entry)]
        /\ r.cancelled_batches \in [Conversations -> Seq(Entry)]
        /\ r.cancel_reasons \in [Conversations -> CancelReasons \cup {"none"}]
    BY <1>1, <2>3, <2>5, <2>6 DEF QueueType
  <2>8. /\ r.queues[c] = cut /\ \A d \in Conversations \ {c} : r.queues[d] = k.queues[d]
        /\ r.withheld_native_steer[c] = w
        /\ \A d \in Conversations \ {c} : r.withheld_native_steer[d] = k.withheld_native_steer[d]
    BY <1>1, <2>6
  <2>9. \A d \in Conversations : Drawn(r.queues[d], k.queues[d])
    BY <2>3, <2>8, DrawnSelf
  <2>10. QueueType(r) /\ CapOK(r)
    BY <2>6, <2>7, <2>9, ShrinkProperties
  <2>11. \E y \in Entry : /\ y.id = e
                          /\ \E j \in 1 .. Len(s) : y = s[j]
                          /\ r.withheld_native_steer[c] = Append(k.withheld_native_steer[c], y)
    BY <2>1, <2>2, <2>8 DEF w, x
  <2>12. NoDup(s) => e \notin Ids(r.queues[c])
    BY <2>3, <2>8
  <2> QED
    BY <2>6, <2>8, <2>9, <2>10, <2>11, <2>12 DEF r
<1> QED
  BY <1>2, <1>3

\* A released event moves from the withheld list to the front of the ready queue.
LEMMA ReleaseProperties ==
  ASSUME NEW k, QueueType(k), CapOK(k), NEW c \in Conversations, NEW e
  PROVE  LET r == ReleaseNativeSteer(k, c, e)
         IN /\ QueueType(r) /\ CapOK(r)
            /\ r.in_flight_channels = k.in_flight_channels
            /\ r.in_flight_event_ids = k.in_flight_event_ids
            /\ r.cancelled_batches = k.cancelled_batches
            /\ \A d \in Conversations \ {c} : /\ Drawn(r.queues[d], k.queues[d])
                                              /\ r.withheld_native_steer[d] = k.withheld_native_steer[d]
            /\ \/ r = k /\ e \notin Ids(k.withheld_native_steer[c])
               \/ /\ Drawn(r.withheld_native_steer[c], k.withheld_native_steer[c])
                  /\ Ids(k.withheld_native_steer[c]) \subseteq Ids(r.withheld_native_steer[c]) \cup {e}
                  /\ NoDup(k.withheld_native_steer[c]) => e \notin Ids(r.withheld_native_steer[c])
                  /\ e \in Ids(k.withheld_native_steer[c])
                  /\ \E x \in Entry : /\ x.id = e
                                      /\ \E i \in 1 .. Len(k.withheld_native_steer[c]) :
                                           x = k.withheld_native_steer[c][i]
                                      /\ Drawn(r.queues[c], <<x>> \o k.queues[c])
<1> DEFINE r == ReleaseNativeSteer(k, c, e)
           w == k.withheld_native_steer[c]
           i == Position(w, e)
           x == w[i]
           cut == RemoveAt(w, i)
           mid == [k EXCEPT !.withheld_native_steer[c] = cut]
<1>1. /\ DOMAIN k = QueueFields /\ w \in Seq(Entry) /\ k.queues \in [Conversations -> Seq(Entry)]
      /\ k.withheld_native_steer \in [Conversations -> Seq(Entry)]
      /\ k.queues[c] \in Seq(Entry)
  BY DEF QueueType
<1>2. CASE e \notin Ids(w)
  <2>1. r = k
    BY <1>2 DEF ReleaseNativeSteer
  <2> HIDE DEF r
  <2>2. \A d \in Conversations : Drawn(r.queues[d], k.queues[d])
    BY <2>1, DrawnSelf
  <2> QED
    BY <1>2, <2>1, <2>2 DEF r
<1>3. CASE e \in Ids(w)
  <2>1. i \in 1 .. Len(w) /\ x.id = e
    BY <1>1, <1>3, PositionProperties
  <2>2. x \in Entry
    BY <1>1, <2>1, ElementOfSeq
  <2>3. /\ cut \in Seq(Entry) /\ Drawn(cut, w)
        /\ Ids(w) \subseteq Ids(cut) \cup {e}
        /\ NoDup(w) => e \notin Ids(cut)
    <3>1. i \in 1 .. Len(w) => /\ cut \in Seq(Entry) /\ Drawn(cut, w)
                               /\ Ids(w) \subseteq Ids(cut) \cup {w[i].id}
                               /\ NoDup(w) => w[i].id \notin Ids(cut)
      BY <1>1, RemoveAtProperties
    <3> HIDE DEF cut, i
    <3> QED
      BY <2>1, <3>1
  <2>4. r = RestoreFront(mid, c, <<x>>)
    BY <1>3 DEF ReleaseNativeSteer
  <2> HIDE DEF cut, x, i
  <2>5. <<x>> \in Seq(Entry)
    BY <2>2
  <2>6. /\ OnlyEvents(k, mid) /\ mid.queues = k.queues
        /\ mid.withheld_native_steer = [k.withheld_native_steer EXCEPT ![c] = cut]
        /\ mid.cancelled_batches = k.cancelled_batches /\ mid.cancel_reasons = k.cancel_reasons
        /\ mid.evicted = k.evicted
    BY <1>1 DEF OnlyEvents, QueueFields
  <2> HIDE DEF r, mid
  <2>7. /\ mid.withheld_native_steer \in [Conversations -> Seq(Entry)]
        /\ mid.withheld_native_steer[c] = cut
        /\ \A d \in Conversations \ {c} : mid.withheld_native_steer[d] = k.withheld_native_steer[d]
    BY <1>1, <2>3, <2>6
  <2>8. \A d \in Conversations : Drawn(mid.queues[d], k.queues[d])
    BY <2>6, DrawnSelf
  <2>9. QueueType(mid) /\ CapOK(mid)
    BY <1>1, <2>6, <2>7, <2>8, ShrinkProperties DEF QueueType
  <2>10. /\ QueueType(r) /\ CapOK(r) /\ OnlyReady(mid, r)
         /\ \A d \in Conversations \ {c} : Drawn(r.queues[d], mid.queues[d])
         /\ Drawn(r.queues[c], <<x>> \o mid.queues[c])
    BY <2>4, <2>5, <2>9, RestoreFrontProperties
  <2>11. \E y \in Entry : /\ y.id = e
                          /\ \E j \in 1 .. Len(w) : y = w[j]
                          /\ Drawn(r.queues[c], <<y>> \o k.queues[c])
    <3>1. \E j \in 1 .. Len(w) : x = w[j]
      BY <2>1 DEF x
    <3> QED
      BY <2>1, <2>2, <2>6, <2>10, <3>1
  <2>12. /\ r.in_flight_channels = k.in_flight_channels
         /\ r.in_flight_event_ids = k.in_flight_event_ids
         /\ r.cancelled_batches = k.cancelled_batches
         /\ r.withheld_native_steer = mid.withheld_native_steer
    BY <2>6, <2>10 DEF OnlyReady, OnlyEvents
  <2> QED
    BY <1>3, <2>3, <2>6, <2>7, <2>10, <2>11, <2>12 DEF r
<1> QED
  BY <1>2, <1>3

\* remove_event takes the event off the ready queue and the withheld list.
LEMMA RemoveProperties ==
  ASSUME NEW k, QueueType(k), CapOK(k), NEW c \in Conversations, NEW e
  PROVE  LET r == RemoveEvent(k, c, e)
         IN /\ QueueType(r) /\ CapOK(r) /\ OnlyEvents(k, r)
            /\ r.cancelled_batches = k.cancelled_batches
            /\ \A d \in Conversations : /\ Drawn(r.queues[d], k.queues[d])
                                        /\ Drawn(r.withheld_native_steer[d], k.withheld_native_steer[d])
            /\ \A d \in Conversations \ {c} : /\ r.queues[d] = k.queues[d]
                                              /\ r.withheld_native_steer[d] = k.withheld_native_steer[d]
            /\ Ids(r.queues[c]) = Ids(k.queues[c]) \ {e}
            /\ Ids(r.withheld_native_steer[c]) = Ids(k.withheld_native_steer[c]) \ {e}
<1> DEFINE r == RemoveEvent(k, c, e)
           s == k.queues[c]
           w == k.withheld_native_steer[c]
           sx == Without(s, e)
           wx == Without(w, e)
<1>1. /\ DOMAIN k = QueueFields /\ s \in Seq(Entry) /\ w \in Seq(Entry)
      /\ k.queues \in [Conversations -> Seq(Entry)]
      /\ k.withheld_native_steer \in [Conversations -> Seq(Entry)]
      /\ k.cancelled_batches \in [Conversations -> Seq(Entry)]
      /\ k.cancel_reasons \in [Conversations -> CancelReasons \cup {"none"}]
  BY DEF QueueType
<1>2. /\ sx \in Seq(Entry) /\ Ids(sx) = Ids(s) \ {e} /\ Drawn(sx, s)
      /\ wx \in Seq(Entry) /\ Ids(wx) = Ids(w) \ {e} /\ Drawn(wx, w)
  BY <1>1, WithoutProperties
<1>3. r = [k EXCEPT !.queues[c] = sx, !.withheld_native_steer[c] = wx]
  BY DEF RemoveEvent
<1> HIDE DEF r, sx, wx
<1>4. /\ OnlyEvents(k, r) /\ r.queues = [k.queues EXCEPT ![c] = sx]
      /\ r.withheld_native_steer = [k.withheld_native_steer EXCEPT ![c] = wx]
      /\ r.cancelled_batches = k.cancelled_batches /\ r.cancel_reasons = k.cancel_reasons
      /\ r.evicted = k.evicted
  BY <1>1, <1>3 DEF OnlyEvents, QueueFields
<1>5. /\ r.queues \in [Conversations -> Seq(Entry)]
      /\ r.withheld_native_steer \in [Conversations -> Seq(Entry)]
      /\ r.queues[c] = sx /\ r.withheld_native_steer[c] = wx
      /\ \A d \in Conversations \ {c} : /\ r.queues[d] = k.queues[d]
                                        /\ r.withheld_native_steer[d] = k.withheld_native_steer[d]
  BY <1>1, <1>2, <1>4
<1>6. \A d \in Conversations : /\ Drawn(r.queues[d], k.queues[d])
                               /\ Drawn(r.withheld_native_steer[d], k.withheld_native_steer[d])
  BY <1>2, <1>5, DrawnSelf
<1>7. QueueType(r) /\ CapOK(r)
  BY <1>1, <1>4, <1>5, <1>6, ShrinkProperties
<1> QED
  BY <1>2, <1>4, <1>5, <1>6, <1>7 DEF r

\* An edit rewrites an event where it is.
LEMMA PatchProperties ==
  ASSUME NEW k, QueueType(k), CapOK(k), NEW e \in Events
  PROVE  LET r == PatchEvent(k, e)
         IN /\ QueueType(r) /\ CapOK(r) /\ OnlyEvents(k, r)
            /\ r.cancelled_batches = k.cancelled_batches
            /\ \A d \in Conversations : /\ Drawn(r.queues[d], k.queues[d])
                                        /\ Drawn(r.withheld_native_steer[d], k.withheld_native_steer[d])
                                        /\ Ids(r.queues[d]) = Ids(k.queues[d])
                                        /\ Ids(r.withheld_native_steer[d]) = Ids(k.withheld_native_steer[d])
<1> DEFINE c == ConvOf[e]
           r == PatchEvent(k, e)
           patch(s) == [i \in DOMAIN s |-> IF i = Position(s, e) THEN [s[i] EXCEPT !.edited = TRUE]
                                            ELSE s[i]]
           Same(x) == /\ \A d \in Conversations :
                            /\ Drawn(x.queues[d], k.queues[d])
                            /\ Drawn(x.withheld_native_steer[d], k.withheld_native_steer[d])
                            /\ Ids(x.queues[d]) = Ids(k.queues[d])
                            /\ Ids(x.withheld_native_steer[d]) = Ids(k.withheld_native_steer[d])
                      /\ x.cancelled_batches = k.cancelled_batches
                      /\ QueueType(x) /\ CapOK(x) /\ OnlyEvents(k, x)
<1>1. /\ DOMAIN k = QueueFields /\ c \in Conversations
      /\ k.queues \in [Conversations -> Seq(Entry)]
      /\ k.withheld_native_steer \in [Conversations -> Seq(Entry)]
      /\ k.cancelled_batches \in [Conversations -> Seq(Entry)]
      /\ k.cancel_reasons \in [Conversations -> CancelReasons \cup {"none"}]
  BY QueueAssumption DEF QueueType
<1>2. k.queues[c] \in Seq(Entry) /\ k.withheld_native_steer[c] \in Seq(Entry)
  BY <1>1
<1>3. ASSUME NEW s \in Seq(Entry)
      PROVE  patch(s) \in Seq(Entry) /\ Drawn(patch(s), s) /\ Ids(patch(s)) = Ids(s)
  <2> DEFINE n == Len(s)
             p == patch(s)
             at == Position(s, e)
             f == [i \in 1 .. n |-> i]
  <2>1. n \in Nat /\ DOMAIN s = 1 .. n /\ \A i \in 1 .. n : s[i] \in Entry
    BY LenProperties, ElementOfSeq
  <2> HIDE DEF at, n
  <2>2. p = [i \in 1 .. n |-> IF i = at THEN [s[i] EXCEPT !.edited = TRUE] ELSE s[i]]
    BY <2>1 DEF at
  <2>3. \A i \in 1 .. n : p[i] \in Entry /\ p[i].id = s[i].id /\ p[i].received_at = s[i].received_at
    <3> SUFFICES ASSUME NEW i \in 1 .. n PROVE p[i] \in Entry /\ p[i].id = s[i].id /\ p[i].received_at = s[i].received_at
      OBVIOUS
    <3>1. s[i] \in [id : Events, received_at : Nat, hold_exempt : BOOLEAN, edited : BOOLEAN]
      BY <2>1 DEF Entry
    <3>2. p[i] = IF i = at THEN [s[i] EXCEPT !.edited = TRUE] ELSE s[i]
      BY <2>2
    <3> HIDE DEF p
    <3>3. CASE i = at
      BY <3>1, <3>2, <3>3 DEF Entry
    <3>4. CASE i # at
      BY <3>1, <3>2, <3>4 DEF Entry
    <3> QED
      BY <3>3, <3>4
  <2>4. p \in [1 .. n -> Entry]
    <3>1. DOMAIN p = 1 .. n
      BY <2>2
    <3> HIDE DEF p
    <3> QED
      BY <2>2, <2>3, <3>1
  <2> HIDE DEF p
  <2>5. p \in Seq(Entry) /\ Len(p) = n /\ DOMAIN p = 1 .. n
    BY <2>1, <2>4, SeqDef, LenProperties
  <2>6. Drawn(p, s)
    <3>1. /\ f \in [1 .. n -> 1 .. n]
          /\ \A i, j \in 1 .. n : f[i] = f[j] => i = j
          /\ \A i \in 1 .. n : p[i].id = s[f[i]].id /\ p[i].received_at = s[f[i]].received_at
      BY <2>3
    <3> HIDE DEF f
    <3> QED
      BY <2>5, <3>1 DEF Drawn, n
  <2>7. Ids(p) = Ids(s)
    BY <2>1, <2>3, <2>5 DEF Ids
  <2> QED
    BY <2>5, <2>6, <2>7 DEF p
<1>4. r = IF e \in Ids(k.withheld_native_steer[c])
          THEN [k EXCEPT !.withheld_native_steer[c] = patch(k.withheld_native_steer[c])]
          ELSE IF e \in Ids(k.queues[c]) THEN [k EXCEPT !.queues[c] = patch(k.queues[c])] ELSE k
  BY DEF PatchEvent
<1>5. Same(k)
  BY <1>1, DrawnSelf DEF OnlyEvents
<1> HIDE DEF patch, c
<1>6. ASSUME NEW p \in Seq(Entry), Drawn(p, k.withheld_native_steer[c]),
             Ids(p) = Ids(k.withheld_native_steer[c])
      PROVE  Same([k EXCEPT !.withheld_native_steer[c] = p])
  <2> DEFINE x == [k EXCEPT !.withheld_native_steer[c] = p]
  <2>1. /\ OnlyEvents(k, x) /\ x.queues = k.queues
        /\ x.withheld_native_steer = [k.withheld_native_steer EXCEPT ![c] = p]
        /\ x.cancelled_batches = k.cancelled_batches /\ x.cancel_reasons = k.cancel_reasons
        /\ x.evicted = k.evicted
    BY <1>1 DEF OnlyEvents, QueueFields
  <2> HIDE DEF x
  <2>2. /\ x.withheld_native_steer \in [Conversations -> Seq(Entry)]
        /\ x.withheld_native_steer[c] = p
        /\ \A d \in Conversations \ {c} : x.withheld_native_steer[d] = k.withheld_native_steer[d]
    BY <1>1, <2>1
  <2>3. \A d \in Conversations :
          /\ Drawn(x.queues[d], k.queues[d])
          /\ Drawn(x.withheld_native_steer[d], k.withheld_native_steer[d])
          /\ Ids(x.queues[d]) = Ids(k.queues[d])
          /\ Ids(x.withheld_native_steer[d]) = Ids(k.withheld_native_steer[d])
    BY <1>6, <2>1, <2>2, DrawnSelf
  <2>4. QueueType(x) /\ CapOK(x)
    BY <1>1, <2>1, <2>2, <2>3, ShrinkProperties
  <2> QED
    BY <2>1, <2>3, <2>4 DEF x
<1>7. ASSUME NEW p \in Seq(Entry), Drawn(p, k.queues[c]), Ids(p) = Ids(k.queues[c])
      PROVE  Same([k EXCEPT !.queues[c] = p])
  <2> DEFINE x == [k EXCEPT !.queues[c] = p]
  <2>1. /\ OnlyEvents(k, x) /\ x.queues = [k.queues EXCEPT ![c] = p]
        /\ x.withheld_native_steer = k.withheld_native_steer
        /\ x.cancelled_batches = k.cancelled_batches /\ x.cancel_reasons = k.cancel_reasons
        /\ x.evicted = k.evicted
    BY <1>1 DEF OnlyEvents, QueueFields
  <2> HIDE DEF x
  <2>2. /\ x.queues \in [Conversations -> Seq(Entry)]
        /\ x.queues[c] = p
        /\ \A d \in Conversations \ {c} : x.queues[d] = k.queues[d]
    BY <1>1, <2>1
  <2>3. \A d \in Conversations :
          /\ Drawn(x.queues[d], k.queues[d])
          /\ Drawn(x.withheld_native_steer[d], k.withheld_native_steer[d])
          /\ Ids(x.queues[d]) = Ids(k.queues[d])
          /\ Ids(x.withheld_native_steer[d]) = Ids(k.withheld_native_steer[d])
    BY <1>7, <2>1, <2>2, DrawnSelf
  <2>4. QueueType(x) /\ CapOK(x)
    BY <1>1, <2>1, <2>2, <2>3, ShrinkProperties
  <2> QED
    BY <2>1, <2>3, <2>4 DEF x
<1>8. Same(r)
  <2>1. /\ Same([k EXCEPT !.withheld_native_steer[c] = patch(k.withheld_native_steer[c])])
        /\ Same([k EXCEPT !.queues[c] = patch(k.queues[c])])
    BY <1>2, <1>3, <1>6, <1>7
  <2> HIDE DEF Same, r
  <2> QED
    BY <1>4, <1>5, <2>1
<1> QED
  BY <1>8

\* The passing of a deadline moves no event.
LEMMA DeadlineProperties ==
  ASSUME NEW k, QueueType(k), NEW c \in Conversations
  PROVE  LET r == [k EXCEPT !.in_flight_deadlines[c] = "passed"]
         IN /\ QueueType(r) /\ SameEvents(k, r)
            /\ r.in_flight_channels = k.in_flight_channels
            /\ r.in_flight_event_ids = k.in_flight_event_ids
<1> DEFINE r == [k EXCEPT !.in_flight_deadlines[c] = "passed"]
           dls == [k.in_flight_deadlines EXCEPT ![c] = "passed"]
<1>1. /\ DOMAIN r = QueueFields /\ SameEvents(k, r) /\ r.cancel_reasons = k.cancel_reasons
      /\ r.in_flight_channels = k.in_flight_channels /\ r.in_flight_deadlines = dls
      /\ r.in_flight_event_ids = k.in_flight_event_ids /\ r.retry_after = k.retry_after
      /\ r.retry_counts = k.retry_counts /\ r.busy_notice_sent = k.busy_notice_sent
  BY DEF QueueType, QueueFields, SameEvents
<1>2. dls \in [Conversations -> Deadlines]
  BY DEF QueueType, Deadlines
<1> HIDE DEF r, dls
<1>3. QueueType(r)
  BY <1>1, <1>2 DEF QueueType, SameEvents
<1> QED
  BY <1>1, <1>3 DEF r

\* A queue that has just been created.
LEMMA NewQueueProperties == QueueType(NewQueue) /\ CapOK(NewQueue)
<1>1. <<>> \in Seq(Entry) /\ Len(<<>>) = 0
  BY EmptySeq, LenProperties
<1>2. QueueType(NewQueue)
  BY <1>1, QueueAssumption DEF QueueType, NewQueue, QueueFields, Deadlines, Throttles
<1>3. \A ch \in Channels : Positions(NewQueue.queues, ch) = {}
  BY DEF Positions, NewQueue
<1>4. IsFiniteSet({}) /\ Cardinality({}) = 0 /\ 0 <= MaxPending
  BY FS_EmptySet, QueueAssumption
<1> QED
  BY <1>2, <1>3, <1>4 DEF CapOK

-----------------------------------------------------------------------------
(* What a queue operation takes off a ready queue is logged as evicted *)

\* An entry in front of a victim is a victim: it is evicted before it.
LEMMA VictimsDown ==
  ASSUME NEW qs \in [Conversations -> Seq(Entry)], NEW ch, IsFiniteSet(Positions(qs, ch)),
         NEW d \in Conversations, Routing[d] = ch, NEW i \in 1 .. Len(qs[d]), NEW j \in 1 .. i,
         <<d, i>> \in Victims(qs, ch)
  PROVE  <<d, j>> \in Victims(qs, ch)
<1>1. PICK all, V, p, r : /\ all = Positions(qs, ch) /\ V = Victims(qs, ch)
                          /\ p = <<d, i>> /\ r = <<d, j>>
  OBVIOUS
<1>2. qs[d] \in Seq(Entry) /\ Len(qs[d]) \in Nat /\ j \in 1 .. Len(qs[d])
  BY LenProperties
<1>3. p \in all /\ r \in all
  BY <1>1, <1>2, PositionsMembers
<1>4. CASE i = j
  BY <1>4
<1>5. CASE i # j
  <2>1. PICK yi, yj : yi = YoungestUpTo(qs[d], i) /\ yj = YoungestUpTo(qs[d], j)
    OBVIOUS
  <2>2. /\ yi \in Nat /\ yj \in Nat
        /\ \A m \in 1 .. i : qs[d][m].received_at <= yi
        /\ \E m \in 1 .. j : yj = qs[d][m].received_at
    BY <1>2, <2>1, YoungestProperties
  <2>3. yj <= yi
    <3>1. PICK m \in 1 .. j : yj = qs[d][m].received_at
      BY <2>2
    <3>2. m \in 1 .. i
      BY <1>2
    <3> QED
      BY <2>2, <3>1, <3>2
  <2>4. EvictedBefore(qs, r, p)
    <3>1. p[1] = d /\ p[2] = i /\ r[1] = d /\ r[2] = j /\ j < i
      BY <1>1, <1>2, <1>5
    <3>2. EvictedBefore(qs, r, p) <=> yj < yi \/ (yj = yi /\ r[1] = p[1] /\ r[2] < p[2])
      BY <2>1, <3>1 DEF EvictedBefore
    <3> QED
      BY <2>2, <2>3, <3>1, <3>2
  <2>5. PICK P, R, excess : /\ P = {o \in all : EvictedBefore(qs, o, p)}
                            /\ R = {o \in all : EvictedBefore(qs, o, r)}
                            /\ excess = Excess(qs, ch)
    OBVIOUS
  <2>6. V = {u \in all : Cardinality({o \in all : EvictedBefore(qs, o, u)}) < excess}
    BY <1>1, <2>5 DEF Victims, Excess
  <2>7. R \in SUBSET P
    BY <1>1, <1>3, <2>4, <2>5, EvictionOrder
  <2>8. IsFiniteSet(P) /\ P \in SUBSET all
    BY <1>1, <2>5, FS_Subset
  <2>9. IsFiniteSet(R) /\ Cardinality(R) <= Cardinality(P)
    BY <2>7, <2>8, FS_Subset
  <2>10. Cardinality(P) < excess
    BY <1>1, <2>5, <2>6
  <2>11. excess \in Nat /\ Cardinality(R) \in Nat /\ Cardinality(P) \in Nat
    BY <1>1, <2>5, <2>8, <2>9, FS_CardinalityType, QueueAssumption DEF Excess
  <2>12. Cardinality(R) < excess
    BY <2>9, <2>10, <2>11
  <2> QED
    BY <1>1, <1>3, <2>5, <2>6, <2>12
<1> QED
  BY <1>4, <1>5

\* The prefix a queue loses to the routing cap consists of victims, so the log has all of it.
LEMMA PoppedLogged ==
  ASSUME NEW qs \in [Conversations -> Seq(Entry)], NEW ch, IsFiniteSet(Positions(qs, ch)),
         NEW d \in Conversations
  PROVE  Ids(qs[d]) \subseteq Ids(PopVictims(qs, Victims(qs, ch))[d])
                                \cup VictimIds(qs, Victims(qs, ch))
<1>1. PICK V, n, O, v, m, s : /\ V = Victims(qs, ch) /\ n = Len(qs[d])
                              /\ O = {p \in V : p[1] = d} /\ v = Cardinality(O) /\ m = v + 1
                              /\ s = SubSeq(qs[d], m, n)
  OBVIOUS
<1>2. qs[d] \in Seq(Entry) /\ n \in Nat /\ DOMAIN qs[d] = 1 .. n
  BY <1>1, LenProperties
<1>3. V \in SUBSET Positions(qs, ch) /\ IsFiniteSet(V) /\ O \in SUBSET V
  BY <1>1, VictimsEnough
<1>4. IsFiniteSet(O) /\ v \in Nat
  BY <1>1, <1>3, FS_Subset, FS_CardinalityType
<1>5. ASSUME NEW o \in O PROVE \E i \in 1 .. n : Routing[d] = ch /\ o = <<d, i>>
  <2>1. PICK f \in Conversations : \E i \in 1 .. Len(qs[f]) : Routing[f] = ch /\ o = <<f, i>>
    BY <1>3, <1>5, PositionsMembers
  <2> QED
    BY <1>1, <1>5, <2>1
<1>6. ASSUME NEW i \in 1 .. n, i <= v PROVE <<d, i>> \in V
  <2> SUFFICES ASSUME <<d, i>> \notin V PROVE FALSE
    OBVIOUS
  <2>1. ASSUME NEW o \in O PROVE o \in {d} \X (1 .. i - 1)
    <3>1. PICK j \in 1 .. n : Routing[d] = ch /\ o = <<d, j>>
      BY <1>5
    <3>2. <<d, j>> \in V
      BY <1>3, <2>1, <3>1
    <3>3. ~(i <= j)
      <4> SUFFICES ASSUME i <= j PROVE FALSE
        OBVIOUS
      <4>1. i \in 1 .. j
        BY <1>2
      <4> QED
        BY <1>1, <3>1, <3>2, <4>1, VictimsDown
    <3>4. j \in 1 .. i - 1
      BY <1>2, <3>3
    <3> QED
      BY <3>1, <3>4
  <2>2. i - 1 \in Nat
    BY <1>2
  <2>3. PICK Z : Z = {d} \X (1 .. i - 1)
    OBVIOUS
  <2>4. IsFiniteSet(Z) /\ Cardinality(Z) = i - 1 /\ O \in SUBSET Z
    BY <2>1, <2>2, <2>3, ColumnCard
  <2>5. Cardinality(O) <= i - 1
    BY <2>4, FS_Subset
  <2> QED
    BY <1>1, <1>2, <1>4, <1>6, <2>5
<1>7. v <= n
  <2>1. PICK Z : Z = {d} \X (1 .. n)
    OBVIOUS
  <2>2. O \in SUBSET Z
    BY <1>5, <2>1
  <2>3. IsFiniteSet(Z) /\ Cardinality(Z) = n
    BY <1>2, <2>1, ColumnCard
  <2> QED
    BY <1>1, <2>2, <2>3, FS_Subset
<1>8. PopVictims(qs, V)[d] = s
  BY <1>1 DEF PopVictims
<1>9. m \in Nat \ {0} /\ n \in 0 .. Len(qs[d])
  BY <1>1, <1>2, <1>4
<1>10. /\ s \in Seq(Entry) /\ Len(s) = IF m <= n THEN n - m + 1 ELSE 0
       /\ \A i \in 1 .. n - m + 1 : s[i] = qs[d][m + i - 1]
  <2>1. PICK w : w = qs[d]
    OBVIOUS
  <2>2. w \in Seq(Entry) /\ n \in 0 .. Len(w)
    BY <1>2, <1>9, <2>1
  <2>3. /\ SubSeq(w, m, n) \in Seq(Entry)
        /\ Len(SubSeq(w, m, n)) = IF m <= n THEN n - m + 1 ELSE 0
        /\ \A i \in 1 .. n - m + 1 : SubSeq(w, m, n)[i] = w[m + i - 1]
    BY <1>9, <2>2, SubSeqDrawn
  <2> QED
    BY <1>1, <2>1, <2>3
<1>11. ASSUME NEW i \in 1 .. n PROVE qs[d][i].id \in Ids(s) \cup VictimIds(qs, V)
  <2>1. CASE i <= v
    <3>1. <<d, i>> \in V
      BY <1>6, <2>1
    <3>2. <<d, i>>[1] = d /\ <<d, i>>[2] = i
      OBVIOUS
    <3> QED
      BY <3>1, <3>2 DEF VictimIds
  <2>2. CASE ~(i <= v)
    <3>1. i - v \in 1 .. n - m + 1 /\ m + (i - v) - 1 = i /\ m <= n
      BY <1>1, <1>2, <1>4, <2>2
    <3>2. s[i - v] = qs[d][i] /\ i - v \in 1 .. Len(s)
      BY <1>10, <3>1
    <3>3. DOMAIN s = 1 .. Len(s)
      BY <1>10, LenProperties
    <3> QED
      BY <3>2, <3>3 DEF Ids
  <2> QED
    BY <2>1, <2>2
<1> QED
  BY <1>1, <1>2, <1>8, <1>11 DEF Ids

\* enforce_routing_channel_cap logs what it takes: an id that was ready is ready or evicted.
LEMMA CapLogs ==
  ASSUME NEW k, QueueType(k), NEW c \in Conversations,
         \A ch \in Channels : IsFiniteSet(Positions(k.queues, ch))
  PROVE  LET r == EnforceRoutingCap(k, c)
         IN /\ k.evicted \subseteq r.evicted
            /\ \A d \in Conversations : Ids(k.queues[d]) \subseteq Ids(r.queues[d]) \cup r.evicted
<1>1. k.queues \in [Conversations -> Seq(Entry)] /\ DOMAIN k = QueueFields
  BY DEF QueueType
<1>2. CASE k.queues[c] = <<>>
  <2>1. EnforceRoutingCap(k, c) = k
    BY <1>2 DEF EnforceRoutingCap
  <2> QED
    BY <2>1
<1>3. CASE k.queues[c] # <<>>
  <2>1. PICK ch, V, ps, gone, r : /\ ch = Routing[c] /\ V = Victims(k.queues, ch)
                                  /\ ps = PopVictims(k.queues, V)
                                  /\ gone = VictimIds(k.queues, V)
                                  /\ r = EnforceRoutingCap(k, c)
    OBVIOUS
  <2>2. ch \in Channels
    BY <2>1, QueueAssumption
  <2>3. \A d \in Conversations : Ids(k.queues[d]) \subseteq Ids(ps[d]) \cup gone
    BY <1>1, <2>1, <2>2, PoppedLogged
  <2>4. r = [k EXCEPT !.queues = ps, !.evicted = k.evicted \cup gone]
    BY <1>3, <2>1 DEF EnforceRoutingCap
  <2>5. r.queues = ps /\ r.evicted = k.evicted \cup gone
    BY <1>1, <2>4 DEF QueueFields
  <2> QED
    BY <2>1, <2>3, <2>5
<1> QED
  BY <1>2, <1>3

\* A restore to a queue front logs what it takes: an id that was ready or is restored is
\* ready or evicted afterwards.
LEMMA RestoreLogs ==
  ASSUME NEW k, QueueType(k), CapOK(k), NEW c \in Conversations, NEW s \in Seq(Entry)
  PROVE  LET r == RestoreFront(k, c, s)
         IN /\ k.evicted \subseteq r.evicted
            /\ \A d \in Conversations : Ids(k.queues[d]) \subseteq Ids(r.queues[d]) \cup r.evicted
            /\ Ids(s) \subseteq Ids(r.queues[c]) \cup r.evicted
<1>1. /\ k.queues \in [Conversations -> Seq(Entry)] /\ DOMAIN k = QueueFields
      /\ k.evicted \subseteq Events /\ k.queues[c] \in Seq(Entry)
  BY DEF QueueType
<1>2. PICK whole, kept, lost, mid, r :
         /\ whole = s \o k.queues[c] /\ kept = KeepFirst(whole, MaxPending)
         /\ lost = Ids(whole) \ Ids(kept)
         /\ mid = [k EXCEPT !.queues[c] = kept, !.evicted = k.evicted \cup lost]
         /\ r = EnforceRoutingCap(mid, c)
  OBVIOUS
<1>3. RestoreFront(k, c, s) = r
  BY <1>2 DEF RestoreFront
<1>4. whole \in Seq(Entry) /\ Ids(whole) = Ids(s) \cup Ids(k.queues[c])
  BY <1>1, <1>2, ConcatProperties, ConcatIds
<1>5. kept \in Seq(Entry) /\ lost \subseteq Events
  BY <1>2, <1>4, KeepProperties, QueueAssumption, IdsOfEntries
<1>6. mid.queues = [k.queues EXCEPT ![c] = kept] /\ mid.evicted = k.evicted \cup lost /\ OnlyReady(k, mid)
  BY <1>1, <1>2 DEF OnlyReady, QueueFields
<1>7. /\ mid.queues \in [Conversations -> Seq(Entry)]
      /\ mid.queues[c] = kept /\ \A d \in Conversations \ {c} : mid.queues[d] = k.queues[d]
  BY <1>1, <1>5, <1>6
<1>8. \A ch \in Channels : IsFiniteSet(Positions(mid.queues, ch))
  BY <1>7, OneQueueReplaced
<1>9. QueueType(mid)
  BY <1>1, <1>5, <1>6, <1>7, OnlyReadyType
<1>10. /\ mid.evicted \subseteq r.evicted
       /\ \A d \in Conversations : Ids(mid.queues[d]) \subseteq Ids(r.queues[d]) \cup r.evicted
  BY <1>2, <1>8, <1>9, CapLogs
<1>11. Ids(whole) \subseteq Ids(r.queues[c]) \cup r.evicted
  BY <1>2, <1>6, <1>7, <1>10
<1>12. ASSUME NEW d \in Conversations PROVE Ids(k.queues[d]) \subseteq Ids(r.queues[d]) \cup r.evicted
  BY <1>4, <1>7, <1>10, <1>11
<1> QED
  BY <1>3, <1>4, <1>6, <1>10, <1>11, <1>12

\* push logs what it takes: an id that was ready, and the new one, is ready or evicted.
LEMMA PushLogs ==
  ASSUME NEW k, QueueType(k), CapOK(k), NEW e \in Events, NEW t \in Nat,
         NEW x \in BOOLEAN, NEW ed \in BOOLEAN
  PROVE  LET r == Push(k, e, t, x, ed)
         IN /\ \A d \in Conversations : Ids(k.queues[d]) \subseteq Ids(r.queues[d]) \cup r.evicted
            /\ e \in Ids(r.queues[ConvOf[e]]) \cup r.evicted
<1>1. PICK c, entry, kept, w, gone, mid, r :
         /\ c = ConvOf[e]
         /\ entry = [id |-> e, received_at |-> t, hold_exempt |-> x, edited |-> ed]
         /\ kept = KeepLast(k.queues[c], MaxPending - 1) /\ w = Append(kept, entry)
         /\ gone = (k.evicted \cup (Ids(k.queues[c]) \ Ids(kept))) \ {e}
         /\ mid = [k EXCEPT !.queues[c] = w, !.evicted = gone]
         /\ r = EnforceRoutingCap(mid, c)
  OBVIOUS
<1>2. Push(k, e, t, x, ed) = r
  BY <1>1 DEF Push
<1>3. c \in Conversations /\ entry \in Entry /\ entry.id = e /\ MaxPending - 1 \in Nat
  BY <1>1, QueueAssumption DEF Entry
<1>4. /\ k.queues \in [Conversations -> Seq(Entry)] /\ DOMAIN k = QueueFields
      /\ k.evicted \subseteq Events /\ k.queues[c] \in Seq(Entry)
  BY <1>3 DEF QueueType
<1>5. kept \in Seq(Entry) /\ gone \subseteq Events
  BY <1>1, <1>3, <1>4, KeepProperties, IdsOfEntries
<1>6. w \in Seq(Entry) /\ Ids(w) = Ids(kept) \cup {e}
  BY <1>1, <1>3, <1>5, AppendProperties, AppendIds
<1>7. mid.queues = [k.queues EXCEPT ![c] = w] /\ mid.evicted = gone /\ OnlyReady(k, mid)
  BY <1>1, <1>4 DEF OnlyReady, QueueFields
<1>8. /\ mid.queues \in [Conversations -> Seq(Entry)]
      /\ mid.queues[c] = w /\ \A d \in Conversations \ {c} : mid.queues[d] = k.queues[d]
  BY <1>3, <1>4, <1>6, <1>7
<1>9. \A ch \in Channels : IsFiniteSet(Positions(mid.queues, ch))
  BY <1>3, <1>8, OneQueueReplaced
<1>10. QueueType(mid)
  BY <1>4, <1>5, <1>7, <1>8, OnlyReadyType
<1>11. /\ mid.evicted \subseteq r.evicted
       /\ \A d \in Conversations : Ids(mid.queues[d]) \subseteq Ids(r.queues[d]) \cup r.evicted
  BY <1>1, <1>3, <1>9, <1>10, CapLogs
<1>12. Ids(k.queues[c]) \cup {e} \subseteq Ids(r.queues[c]) \cup r.evicted
  <2>1. Ids(w) \subseteq Ids(r.queues[c]) \cup r.evicted /\ gone \subseteq r.evicted
    BY <1>3, <1>7, <1>8, <1>11
  <2>2. Ids(k.queues[c]) \subseteq gone \cup Ids(kept) \cup {e}
    BY <1>1
  <2> QED
    BY <1>6, <2>1, <2>2
<1>13. ASSUME NEW d \in Conversations PROVE Ids(k.queues[d]) \subseteq Ids(r.queues[d]) \cup r.evicted
  BY <1>3, <1>8, <1>11, <1>12
<1> QED
  BY <1>1, <1>2, <1>12, <1>13

-----------------------------------------------------------------------------
(* No queue operation drops an event in silence *)

\* What queue k holds is held in queue r, logged as evicted there, or one of gone.
NoneLost(k, r, gone) ==
  \A d \in Conversations : HeldIds(k, d) \subseteq HeldIds(r, d) \cup r.evicted \cup gone

\* Operations that leave the events alone lose none.
LEMMA SameLosesNone ==
  ASSUME NEW k, NEW r, SameEvents(k, r)
  PROVE  NoneLost(k, r, {})
  BY DEF NoneLost, HeldIds, SameEvents

\* Nor does one operation after another.
LEMMA LossesAddUp ==
  ASSUME NEW k, NEW m, NEW r, NoneLost(k, m, {}), NoneLost(m, r, {}), m.evicted \subseteq r.evicted
  PROVE  NoneLost(k, r, {})
  BY DEF NoneLost

\* An accepted push.
LEMMA PushLosesNone ==
  ASSUME NEW k, QueueType(k), CapOK(k), NEW e \in Events, NEW t \in Nat,
         NEW x \in BOOLEAN, NEW ed \in BOOLEAN
  PROVE  LET r == Push(k, e, t, x, ed)
         IN NoneLost(k, r, {}) /\ e \in HeldIds(r, ConvOf[e]) \cup r.evicted
<1>1. PICK r : r = Push(k, e, t, x, ed)
  OBVIOUS
<1>2. /\ \A d \in Conversations : Ids(k.queues[d]) \subseteq Ids(r.queues[d]) \cup r.evicted
      /\ e \in Ids(r.queues[ConvOf[e]]) \cup r.evicted
  BY <1>1, PushLogs
<1>3. OnlyReady(k, r)
  BY <1>1, PushProperties
<1> QED
  BY <1>1, <1>2, <1>3 DEF NoneLost, HeldIds, OnlyReady

\* A restore to a queue front, of events that were not in the queue.
LEMMA RestoreLosesNone ==
  ASSUME NEW k, QueueType(k), CapOK(k), NEW c \in Conversations, NEW s \in Seq(Entry)
  PROVE  LET r == RestoreFront(k, c, s)
         IN /\ NoneLost(k, r, {}) /\ k.evicted \subseteq r.evicted
            /\ Ids(s) \subseteq HeldIds(r, c) \cup r.evicted
<1>1. PICK r : r = RestoreFront(k, c, s)
  OBVIOUS
<1>2. /\ k.evicted \subseteq r.evicted
      /\ \A d \in Conversations : Ids(k.queues[d]) \subseteq Ids(r.queues[d]) \cup r.evicted
      /\ Ids(s) \subseteq Ids(r.queues[c]) \cup r.evicted
  BY <1>1, RestoreLogs
<1>3. OnlyReady(k, r)
  BY <1>1, RestoreFrontProperties
<1> QED
  BY <1>1, <1>2, <1>3 DEF NoneLost, HeldIds, OnlyReady

\* A steered event moves to the withheld list.
LEMMA WithholdLosesNone ==
  ASSUME NEW k, QueueType(k), NEW c \in Conversations, NEW e
  PROVE  LET r == MarkNativeSteerPending(k, c, e)
         IN NoneLost(k, r, {}) /\ r.evicted = k.evicted
<1>1. PICK s, w : s = k.queues[c] /\ w = k.withheld_native_steer[c]
  OBVIOUS
<1>2. /\ DOMAIN k = QueueFields /\ s \in Seq(Entry) /\ w \in Seq(Entry)
      /\ k.queues \in [Conversations -> Seq(Entry)]
      /\ k.withheld_native_steer \in [Conversations -> Seq(Entry)]
  BY <1>1 DEF QueueType
<1>3. CASE e \notin Ids(s)
  <2>1. MarkNativeSteerPending(k, c, e) = k
    BY <1>1, <1>3 DEF MarkNativeSteerPending
  <2> QED
    BY <2>1 DEF NoneLost
<1>4. CASE e \in Ids(s)
  <2>1. PICK i : i = Position(s, e)
    OBVIOUS
  <2>2. i \in 1 .. Len(s) /\ s[i].id = e
    BY <1>2, <1>4, <2>1, PositionProperties
  <2>3. PICK x, cut, more, r : /\ x = s[i] /\ cut = RemoveAt(s, i) /\ more = Append(w, x)
                               /\ r = MarkNativeSteerPending(k, c, e)
    OBVIOUS
  <2>4. x \in Entry
    BY <1>2, <2>2, <2>3, ElementOfSeq
  <2>5. cut \in Seq(Entry) /\ Ids(s) \subseteq Ids(cut) \cup {e}
    BY <1>2, <2>2, <2>3, RemoveAtProperties
  <2>6. more \in Seq(Entry) /\ Ids(more) = Ids(w) \cup {e}
    BY <1>2, <2>2, <2>3, <2>4, AppendIds
  <2>7. r = [k EXCEPT !.queues[c] = cut, !.withheld_native_steer[c] = more]
    BY <1>1, <1>4, <2>1, <2>3 DEF MarkNativeSteerPending
  <2>8. /\ r.queues = [k.queues EXCEPT ![c] = cut]
        /\ r.withheld_native_steer = [k.withheld_native_steer EXCEPT ![c] = more]
        /\ r.cancelled_batches = k.cancelled_batches /\ r.evicted = k.evicted
    BY <1>2, <2>7 DEF QueueFields
  <2>9. ASSUME NEW d \in Conversations PROVE HeldIds(k, d) \subseteq HeldIds(r, d)
    <3>1. CASE d = c
      <4>1. r.queues[c] = cut /\ r.withheld_native_steer[c] = more
        BY <1>2, <2>8
      <4> QED
        BY <1>1, <2>5, <2>6, <2>8, <3>1, <4>1 DEF HeldIds
    <3>2. CASE d # c
      <4>1. r.queues[d] = k.queues[d] /\ r.withheld_native_steer[d] = k.withheld_native_steer[d]
        BY <1>2, <2>8, <3>2
      <4> QED
        BY <2>8, <4>1 DEF HeldIds
    <3> QED
      BY <3>1, <3>2
  <2> QED
    BY <2>3, <2>8, <2>9 DEF NoneLost
<1> QED
  BY <1>3, <1>4

\* A released event moves from the withheld list to the front of the ready queue.
LEMMA ReleaseLosesNone ==
  ASSUME NEW k, QueueType(k), CapOK(k), NEW c \in Conversations, NEW e
  PROVE  NoneLost(k, ReleaseNativeSteer(k, c, e), {})
<1>1. PICK w : w = k.withheld_native_steer[c]
  OBVIOUS
<1>2. /\ DOMAIN k = QueueFields /\ w \in Seq(Entry)
      /\ k.withheld_native_steer \in [Conversations -> Seq(Entry)]
  BY <1>1 DEF QueueType
<1>3. CASE e \notin Ids(w)
  <2>1. ReleaseNativeSteer(k, c, e) = k
    BY <1>1, <1>3 DEF ReleaseNativeSteer
  <2> QED
    BY <2>1 DEF NoneLost
<1>4. CASE e \in Ids(w)
  <2>1. PICK i : i = Position(w, e)
    OBVIOUS
  <2>2. i \in 1 .. Len(w) /\ w[i].id = e
    BY <1>2, <1>4, <2>1, PositionProperties
  <2>3. PICK x, cut, mid, one, r : /\ x = w[i] /\ cut = RemoveAt(w, i) /\ one = <<x>>
                                   /\ mid = [k EXCEPT !.withheld_native_steer[c] = cut]
                                   /\ r = RestoreFront(mid, c, one)
    OBVIOUS
  <2>4. ReleaseNativeSteer(k, c, e) = r
    BY <1>1, <1>4, <2>1, <2>3 DEF ReleaseNativeSteer
  <2>5. x \in Entry /\ one \in Seq(Entry) /\ e \in Ids(one)
    <3>1. x \in Entry
      BY <1>2, <2>2, <2>3, ElementOfSeq
    <3> QED
      BY <2>2, <2>3, <3>1 DEF Ids
  <2>6. cut \in Seq(Entry) /\ Ids(w) \subseteq Ids(cut) \cup {e}
    BY <1>2, <2>2, <2>3, RemoveAtProperties
  <2>7. /\ OnlyEvents(k, mid) /\ mid.queues = k.queues
        /\ mid.withheld_native_steer = [k.withheld_native_steer EXCEPT ![c] = cut]
        /\ mid.cancelled_batches = k.cancelled_batches /\ mid.cancel_reasons = k.cancel_reasons
        /\ mid.evicted = k.evicted
    BY <1>2, <2>3 DEF OnlyEvents, QueueFields
  <2>8. /\ mid.withheld_native_steer \in [Conversations -> Seq(Entry)]
        /\ mid.withheld_native_steer[c] = cut
        /\ \A d \in Conversations \ {c} : mid.withheld_native_steer[d] = k.withheld_native_steer[d]
    BY <1>2, <2>6, <2>7
  <2>9. \A d \in Conversations : Drawn(mid.queues[d], k.queues[d])
    BY <2>7, DrawnSelf DEF QueueType
  <2>10. QueueType(mid) /\ CapOK(mid)
    BY <1>2, <2>7, <2>8, <2>9, ShrinkProperties DEF QueueType
  <2>11. NoneLost(mid, r, {}) /\ Ids(one) \subseteq HeldIds(r, c) \cup r.evicted
    BY <2>3, <2>5, <2>10, RestoreLosesNone
  <2>12. ASSUME NEW d \in Conversations
         PROVE  HeldIds(k, d) \subseteq HeldIds(mid, d) \cup (IF d = c THEN {e} ELSE {})
    BY <1>1, <2>6, <2>7, <2>8 DEF HeldIds
  <2> QED
    BY <2>4, <2>5, <2>11, <2>12 DEF NoneLost
<1> QED
  BY <1>3, <1>4

\* remove_event takes the one event.
LEMMA RemoveLosesOne ==
  ASSUME NEW k, QueueType(k), CapOK(k), NEW c \in Conversations, NEW e
  PROVE  NoneLost(k, RemoveEvent(k, c, e), {e})
<1> DEFINE r == RemoveEvent(k, c, e)
<1>1. /\ r.cancelled_batches = k.cancelled_batches
      /\ \A d \in Conversations \ {c} : /\ r.queues[d] = k.queues[d]
                                        /\ r.withheld_native_steer[d] = k.withheld_native_steer[d]
      /\ Ids(r.queues[c]) = Ids(k.queues[c]) \ {e}
      /\ Ids(r.withheld_native_steer[c]) = Ids(k.withheld_native_steer[c]) \ {e}
  BY RemoveProperties
<1> HIDE DEF r
<1>2. NoneLost(k, r, {e})
  BY <1>1 DEF NoneLost, HeldIds
<1> QED
  BY <1>2 DEF r

\* patch_event changes an event where it is.
LEMMA PatchLosesNone ==
  ASSUME NEW k, QueueType(k), CapOK(k), NEW e \in Events
  PROVE  NoneLost(k, PatchEvent(k, e), {})
<1>1. PICK r : r = PatchEvent(k, e)
  OBVIOUS
<1>2. /\ r.cancelled_batches = k.cancelled_batches
      /\ \A d \in Conversations : /\ Ids(r.queues[d]) = Ids(k.queues[d])
                                  /\ Ids(r.withheld_native_steer[d]) = Ids(k.withheld_native_steer[d])
  BY <1>1, PatchProperties
<1> QED
  BY <1>1, <1>2 DEF NoneLost, HeldIds

\* drain_channel takes what the conversations hold.
LEMMA DrainLoses ==
  ASSUME NEW k, QueueType(k), CapOK(k), NEW cs
  PROVE  NoneLost(k, DrainChannels(k, cs), UNION {HeldIds(k, c) : c \in cs})
<1>1. PICK r : r = DrainChannels(k, cs)
  OBVIOUS
<1>2. \A d \in Conversations :
        /\ r.queues[d] = IF d \in cs THEN <<>> ELSE k.queues[d]
        /\ r.cancelled_batches[d] = IF d \in cs THEN <<>> ELSE k.cancelled_batches[d]
        /\ r.withheld_native_steer[d] = IF d \in cs THEN <<>> ELSE k.withheld_native_steer[d]
  BY <1>1, DrainProperties
<1>3. ASSUME NEW d \in Conversations, NEW e \in HeldIds(k, d)
      PROVE  e \in HeldIds(r, d) \cup r.evicted \cup UNION {HeldIds(k, c) : c \in cs}
  <2>1. CASE d \in cs
    BY <2>1
  <2>2. CASE d \notin cs
    BY <1>2, <2>2 DEF HeldIds
  <2> QED
    BY <2>1, <2>2
<1> QED
  BY <1>1, <1>3 DEF NoneLost

\* The expiry sweep moves the withheld events of the conversation to its ready queue.
LEMMA ExpireLosesNone ==
  ASSUME NEW k, QueueType(k), CapOK(k), NEW c \in Conversations
  PROVE  NoneLost(k, ExpireInFlight(k, c), {})
<1>1. PICK w, mid, r : /\ w = k.withheld_native_steer[c]
                       /\ mid = [k EXCEPT !.in_flight_channels       = @ \ {c},
                                          !.in_flight_event_ids[c]   = {},
                                          !.in_flight_deadlines[c]   = "none",
                                          !.withheld_native_steer[c] = <<>>]
                       /\ r = ExpireInFlight(k, c)
  OBVIOUS
<1>2. /\ DOMAIN k = QueueFields /\ w \in Seq(Entry)
      /\ k.in_flight_event_ids \in [Conversations -> SUBSET Events]
      /\ k.in_flight_deadlines \in [Conversations -> Deadlines]
      /\ k.withheld_native_steer \in [Conversations -> Seq(Entry)] /\ <<>> \in Seq(Entry)
  BY <1>1, EmptySeq DEF QueueType
<1>3. PICK chs, dls, ids, whs : /\ chs = k.in_flight_channels \ {c}
                                /\ dls = [k.in_flight_deadlines EXCEPT ![c] = "none"]
                                /\ ids = [k.in_flight_event_ids EXCEPT ![c] = {}]
                                /\ whs = [k.withheld_native_steer EXCEPT ![c] = <<>>]
  OBVIOUS
<1>4. /\ DOMAIN mid = QueueFields
      /\ mid.in_flight_channels = chs /\ mid.in_flight_deadlines = dls /\ mid.in_flight_event_ids = ids
      /\ mid.withheld_native_steer = whs /\ mid.queues = k.queues
      /\ mid.cancelled_batches = k.cancelled_batches /\ mid.cancel_reasons = k.cancel_reasons
      /\ mid.retry_after = k.retry_after /\ mid.retry_counts = k.retry_counts
      /\ mid.busy_notice_sent = k.busy_notice_sent /\ mid.evicted = k.evicted
  BY <1>1, <1>2, <1>3 DEF QueueFields
<1>5. /\ chs \subseteq Conversations /\ dls \in [Conversations -> Deadlines]
      /\ ids \in [Conversations -> SUBSET Events] /\ whs \in [Conversations -> Seq(Entry)]
      /\ \A d \in Conversations \ {c} : whs[d] = k.withheld_native_steer[d]
  BY <1>2, <1>3 DEF QueueType, Deadlines
<1>6. QueueType(mid) /\ CapOK(mid)
  BY <1>4, <1>5 DEF QueueType, CapOK
<1>7. ExpireInFlight(k, c) = IF w = <<>> THEN mid ELSE RestoreFront(mid, c, w)
  BY <1>1 DEF ExpireInFlight
<1>8. ASSUME NEW d \in Conversations
      PROVE  HeldIds(k, d) \subseteq HeldIds(mid, d) \cup (IF d = c THEN Ids(w) ELSE {})
  BY <1>1, <1>4, <1>5 DEF HeldIds
<1>9. CASE w = <<>>
  <2>1. Ids(w) = {}
    BY <1>9 DEF Ids
  <2> QED
    BY <1>7, <1>8, <1>9, <2>1 DEF NoneLost
<1>10. CASE w # <<>>
  <2>1. r = RestoreFront(mid, c, w)
    BY <1>1, <1>7, <1>10
  <2>2. NoneLost(mid, r, {}) /\ Ids(w) \subseteq HeldIds(r, c) \cup r.evicted
    BY <1>2, <1>6, <2>1, RestoreLosesNone
  <2> QED
    BY <1>1, <1>8, <2>2 DEF NoneLost
<1> QED
  BY <1>9, <1>10

\* A requeue keeps what the queue has, and restores the batch unless its budget is spent.
LEMMA RequeueLosesNone ==
  ASSUME NEW k, QueueType(k), CapOK(k), NEW b \in FlushBatch
  PROVE  LET r == Requeue(k, b)
         IN /\ NoneLost(k, r, {})
            /\ ~RetryExhausted(k, b.channel_id) =>
                 Ids(b.events) \subseteq HeldIds(r, b.channel_id) \cup r.evicted
<1>1. PICK c, s, r : c = b.channel_id /\ s = b.events /\ r = Requeue(k, b)
  OBVIOUS
<1>2. /\ c \in Conversations /\ s \in Seq(Entry) /\ DOMAIN k = QueueFields
      /\ k.retry_counts \in [Conversations -> 0 .. MaxRetries]
  BY <1>1 DEF QueueType, FlushBatch
<1>3. CASE RetryExhausted(k, c)
  <2>1. r = [k EXCEPT !.retry_counts[c] = 0, !.retry_after[c] = "none", !.busy_notice_sent = @ \ {c}]
    BY <1>1, <1>3 DEF Requeue
  <2>2. SameEvents(k, r)
    BY <1>2, <2>1 DEF QueueFields, SameEvents
  <2> QED
    BY <1>1, <1>3, <2>2, SameLosesNone
<1>4. CASE ~RetryExhausted(k, c)
  <2>1. PICK rcs, mid, put : /\ rcs = [k.retry_counts EXCEPT ![c] = @ + 1]
                             /\ mid = [k EXCEPT !.retry_counts[c] = @ + 1]
                             /\ put = RestoreFront(mid, c, s)
    OBVIOUS
  <2>2. r = [put EXCEPT !.retry_after[c] = "pending"]
    BY <1>1, <1>4, <2>1 DEF Requeue
  <2>3. k.retry_counts[c] + 1 \in 0 .. MaxRetries
    <3>1. k.retry_counts[c] \in 0 .. MaxRetries /\ ~(k.retry_counts[c] + 1 > MaxRetries)
      BY <1>2, <1>4 DEF RetryExhausted
    <3> QED
      BY <3>1, QueueAssumption
  <2>4. rcs \in [Conversations -> 0 .. MaxRetries]
    BY <1>2, <2>1, <2>3
  <2>5. /\ DOMAIN mid = QueueFields /\ SameEvents(k, mid) /\ mid.cancel_reasons = k.cancel_reasons
        /\ mid.in_flight_channels = k.in_flight_channels /\ mid.in_flight_deadlines = k.in_flight_deadlines
        /\ mid.in_flight_event_ids = k.in_flight_event_ids /\ mid.retry_after = k.retry_after
        /\ mid.retry_counts = rcs /\ mid.busy_notice_sent = k.busy_notice_sent
    BY <1>2, <2>1 DEF QueueFields, SameEvents
  <2>6. QueueType(mid) /\ CapOK(mid)
    BY <2>4, <2>5, SameEventsCap DEF QueueType, SameEvents
  <2>7. /\ NoneLost(mid, put, {}) /\ Ids(s) \subseteq HeldIds(put, c) \cup put.evicted
        /\ QueueType(put)
    BY <1>2, <2>1, <2>6, RestoreLosesNone, RestoreFrontProperties
  <2>8. SameEvents(put, r)
    BY <2>2, <2>7 DEF SameEvents, QueueType, QueueFields
  <2>9. NoneLost(k, r, {}) /\ Ids(s) \subseteq HeldIds(r, c) \cup r.evicted
    BY <2>5, <2>7, <2>8 DEF NoneLost, SameEvents, HeldIds
  <2> QED
    BY <1>1, <2>9
<1> QED
  BY <1>3, <1>4

\* requeue_preserve_timestamps restores the batch.
LEMMA PreserveLosesNone ==
  ASSUME NEW k, QueueType(k), CapOK(k), NEW b \in FlushBatch
  PROVE  LET r == RequeuePreserveTimestamps(k, b)
         IN /\ NoneLost(k, r, {}) /\ k.evicted \subseteq r.evicted
            /\ Ids(b.events) \subseteq HeldIds(r, b.channel_id) \cup r.evicted
<1>1. b.channel_id \in Conversations /\ b.events \in Seq(Entry)
  BY DEF FlushBatch
<1> QED
  BY <1>1, RestoreLosesNone DEF RequeuePreserveTimestamps

\* requeue_as_cancelled sets the whole batch aside.
LEMMA CancelLosesNone ==
  ASSUME NEW k, QueueType(k), CapOK(k), NEW b \in FlushBatch, NEW reason \in CancelReasons
  PROVE  LET r == RequeueAsCancelled(k, b, reason)
         IN /\ NoneLost(k, r, {})
            /\ BatchIds(b) \subseteq HeldIds(r, b.channel_id) \cup r.evicted
<1>1. PICK c, r, old, ce, es, part, whole, kept, lost :
         /\ c = b.channel_id /\ r = RequeueAsCancelled(k, b, reason)
         /\ old = k.cancelled_batches[c] /\ ce = b.cancelled_events /\ es = b.events
         /\ part = old \o ce /\ whole = part \o es
         /\ kept = KeepLast(whole, MaxPending) /\ lost = Ids(whole) \ Ids(kept)
  OBVIOUS
<1>2. /\ c \in Conversations /\ es \in Seq(Entry) /\ ce \in Seq(Entry) /\ old \in Seq(Entry)
      /\ DOMAIN k = QueueFields /\ k.cancelled_batches \in [Conversations -> Seq(Entry)]
  BY <1>1 DEF QueueType, FlushBatch
<1>3. part \in Seq(Entry) /\ Ids(part) = Ids(old) \cup Ids(ce)
  BY <1>1, <1>2, ConcatIds
<1>4. Ids(whole) = Ids(part) \cup Ids(es)
  BY <1>1, <1>2, <1>3, ConcatIds
<1>5. r = [k EXCEPT !.cancelled_batches[c] = kept, !.cancel_reasons[c] = reason,
                    !.evicted = @ \cup lost]
  BY <1>1 DEF RequeueAsCancelled
<1>6. /\ r.queues = k.queues
      /\ r.cancelled_batches = [k.cancelled_batches EXCEPT ![c] = kept]
      /\ r.withheld_native_steer = k.withheld_native_steer
      /\ r.evicted = k.evicted \cup lost
  BY <1>2, <1>5 DEF QueueFields
<1>7. /\ r.cancelled_batches[c] = kept
      /\ \A d \in Conversations \ {c} : r.cancelled_batches[d] = k.cancelled_batches[d]
  BY <1>2, <1>6
<1>8. Ids(whole) \subseteq Ids(kept) \cup r.evicted
  BY <1>1, <1>6
<1>9. ASSUME NEW d \in Conversations PROVE HeldIds(k, d) \subseteq HeldIds(r, d) \cup r.evicted
  <2>1. CASE d = c
    BY <1>1, <1>3, <1>4, <1>6, <1>7, <1>8, <2>1 DEF HeldIds
  <2>2. CASE d # c
    BY <1>6, <1>7, <2>2 DEF HeldIds
  <2> QED
    BY <2>1, <2>2
<1>10. BatchIds(b) \subseteq HeldIds(r, c) \cup r.evicted
  BY <1>1, <1>3, <1>4, <1>7, <1>8 DEF HeldIds, BatchIds
<1> QED
  BY <1>1, <1>9, <1>10 DEF NoneLost

\* A split loses nothing: what is not in the first n entries is in the rest.
LEMMA SplitKeeps ==
  ASSUME NEW s \in Seq(Entry), NEW n \in Nat
  PROVE  Ids(s) \subseteq Ids(KeepFirst(s, n)) \cup Ids(SubSeq(s, Len(KeepFirst(s, n)) + 1, Len(s)))
<1>1. PICK kept, l, z, m, rest : /\ kept = KeepFirst(s, n) /\ l = Len(kept) /\ z = Len(s) /\ m = l + 1
                                 /\ rest = SubSeq(s, m, z)
  OBVIOUS
<1>2. z \in Nat /\ DOMAIN s = 1 .. z
  BY <1>1, LenProperties
<1>3. kept \in Seq(Entry) /\ l \in Nat /\ l <= z /\ DOMAIN kept = 1 .. l
  BY <1>1, KeepProperties, LenProperties
<1>4. kept = SubSeq(s, 1, l)
  <2>1. PICK y : y = IF z < n THEN z ELSE n
    OBVIOUS
  <2>2. kept = SubSeq(s, 1, y) /\ y \in 0 .. z /\ y - 1 + 1 = y /\ 1 \in Nat \ {0}
    BY <1>1, <1>2, <2>1 DEF KeepFirst
  <2>3. Len(SubSeq(s, 1, y)) = IF 1 <= y THEN y - 1 + 1 ELSE 0
    BY <1>1, <2>2, SubSeqDrawn
  <2> QED
    BY <1>1, <1>2, <2>2, <2>3
<1>5. m \in Nat \ {0} /\ l \in 0 .. z /\ z \in 0 .. z /\ 1 \in Nat \ {0}
  BY <1>1, <1>2, <1>3
<1>6. /\ rest \in Seq(Entry) /\ Len(rest) = IF m <= z THEN z - m + 1 ELSE 0
      /\ \A i \in 1 .. z - m + 1 : rest[i] = s[m + i - 1]
  BY <1>1, <1>5, SubSeqDrawn
<1>7. \A i \in 1 .. l - 1 + 1 : kept[i] = s[1 + i - 1]
  BY <1>1, <1>4, <1>5, SubSeqDrawn
<1>8. DOMAIN rest = 1 .. Len(rest)
  BY <1>6, LenProperties
<1>9. ASSUME NEW i \in 1 .. z PROVE s[i].id \in Ids(kept) \cup Ids(rest)
  <2>1. CASE i <= l
    <3>1. i \in 1 .. l - 1 + 1 /\ 1 + i - 1 = i /\ i \in 1 .. l
      BY <1>2, <1>3, <2>1
    <3> QED
      BY <1>3, <1>7, <3>1 DEF Ids
  <2>2. CASE ~(i <= l)
    <3>1. i - l \in 1 .. z - m + 1 /\ m + (i - l) - 1 = i /\ m <= z
      BY <1>1, <1>2, <1>3, <2>2
    <3>2. i - l \in 1 .. Len(rest) /\ rest[i - l] = s[i]
      BY <1>6, <3>1
    <3> QED
      BY <1>8, <3>2 DEF Ids
  <2> QED
    BY <2>1, <2>2
<1>10. Ids(s) \subseteq Ids(kept) \cup Ids(rest)
  BY <1>2, <1>9 DEF Ids
<1>11. rest = SubSeq(s, Len(KeepFirst(s, n)) + 1, Len(s))
  BY <1>1
<1> QED
  BY <1>1, <1>10, <1>11, Zenon

\* The events of a batch that flush_next drains are the ones it takes off the queue.
LEMMA BatchTakes ==
  ASSUME NEW k, QueueType(k), NEW m, NEW c \in Conversations, c \in Candidates(k, m)
  PROVE  Ids(BatchFor(k, m, c).events) = Ids(KeepFirst(k.queues[c], MaxBatch))
<1>1. PICK drained : drained = KeepFirst(k.queues[c], MaxBatch)
  OBVIOUS
<1>2. drained \in Seq(Entry)
  BY <1>1, KeepProperties, QueueAssumption DEF QueueType
<1>3. Len(drained) \in Nat /\ DOMAIN drained = 1 .. Len(drained)
  BY <1>2, LenProperties
<1>4. PICK ready : ready = [i \in DOMAIN drained |-> [drained[i] EXCEPT !.hold_exempt = TRUE]]
  OBVIOUS
<1>5. ASSUME NEW i \in 1 .. Len(drained)
      PROVE  ready[i] \in Entry /\ ready[i].id = drained[i].id
  <2>1. drained[i] \in [id : Events, received_at : Nat, hold_exempt : BOOLEAN, edited : BOOLEAN]
    BY <1>2, ElementOfSeq DEF Entry
  <2>2. ready[i] = [drained[i] EXCEPT !.hold_exempt = TRUE]
    BY <1>3, <1>4
  <2> QED
    BY <2>1, <2>2 DEF Entry
<1>6. DOMAIN ready = 1 .. Len(drained)
  BY <1>3, <1>4
<1>7. ready \in [1 .. Len(drained) -> Entry]
  BY <1>4, <1>5, <1>6
<1>8. ready \in Seq(Entry)
  BY <1>3, <1>7, SeqDef
<1>9. Ids(ready) = Ids(drained)
  BY <1>3, <1>5, <1>6 DEF Ids
<1>10. Ids(SortByCreatedAt(ready)) = Ids(ready)
  BY <1>8, SortProperties
<1>11. BatchFor(k, m, c).events = SortByCreatedAt(ready)
  BY <1>1, <1>4 DEF BatchFor
<1> QED
  BY <1>1, <1>9, <1>10, <1>11

\* flush_next takes the events of the batch it returns, and no other.
LEMMA FlushLosesBatch ==
  ASSUME NEW k, QueueType(k), CapOK(k), NEW m, NEW c \in Conversations
  PROVE  NoneLost(k, Flushed(k, m, c), BatchIds(BatchFor(k, m, c)))
<1>1. PICK r, b, s, rest : /\ r = Flushed(k, m, c) /\ b = BatchFor(k, m, c) /\ s = k.queues[c]
                           /\ rest = SubSeq(s, Len(KeepFirst(s, MaxBatch)) + 1, Len(s))
  OBVIOUS
<1>2. /\ s \in Seq(Entry) /\ MaxBatch \in Nat /\ DOMAIN k = QueueFields
      /\ k.queues \in [Conversations -> Seq(Entry)]
  BY <1>1, QueueAssumption DEF QueueType
<1>3. /\ r.withheld_native_steer = k.withheld_native_steer
      /\ \A d \in Conversations \ {c} : /\ r.queues[d] = k.queues[d]
                                        /\ r.cancelled_batches[d] = k.cancelled_batches[d]
  BY <1>1, FlushedProperties
<1>4. r.queues = [k.queues EXCEPT ![c] = IF c \in Candidates(k, m) THEN rest ELSE s]
  BY <1>1, <1>2 DEF Flushed, QueueFields
<1>5. CASE c \in Candidates(k, m)
  <2>1. r.queues[c] = rest
    BY <1>2, <1>4, <1>5
  <2>2. Ids(s) \subseteq Ids(KeepFirst(s, MaxBatch)) \cup Ids(rest)
    BY <1>1, <1>2, SplitKeeps
  <2>3. Ids(b.events) = Ids(KeepFirst(s, MaxBatch))
    BY <1>1, <1>5, BatchTakes
  <2>4. b.cancelled_events = k.cancelled_batches[c]
    BY <1>1, <1>5, BatchProperties
  <2>5. HeldIds(k, c) \subseteq HeldIds(r, c) \cup BatchIds(b)
    BY <1>1, <1>3, <2>1, <2>2, <2>3, <2>4 DEF HeldIds, BatchIds
  <2>6. ASSUME NEW d \in Conversations PROVE HeldIds(k, d) \subseteq HeldIds(r, d) \cup BatchIds(b)
    BY <1>3, <2>5 DEF HeldIds
  <2> QED
    BY <1>1, <2>6 DEF NoneLost
<1>6. CASE c \notin Candidates(k, m)
  <2>1. r.queues[c] = s
    BY <1>2, <1>4, <1>6
  <2>2. b.events = k.cancelled_batches[c]
    BY <1>1, <1>6, BatchProperties
  <2>3. HeldIds(k, c) \subseteq HeldIds(r, c) \cup BatchIds(b)
    BY <1>1, <1>3, <2>1, <2>2 DEF HeldIds, BatchIds
  <2>4. ASSUME NEW d \in Conversations PROVE HeldIds(k, d) \subseteq HeldIds(r, d) \cup BatchIds(b)
    BY <1>3, <2>3 DEF HeldIds
  <2> QED
    BY <1>1, <2>4 DEF NoneLost
<1> QED
  BY <1>5, <1>6
=============================================================================
