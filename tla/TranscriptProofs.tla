-------------------------- MODULE TranscriptProofs --------------------------
(***************************************************************************)
(* What loading and saving make of a transcript, for every alphabet of     *)
(* messages and every limit: every saved result stands behind its call,    *)
(* saving again changes nothing, and nothing said is lost.                 *)
(***************************************************************************)
EXTENDS SessionTranscript, FiniteSetTheorems, TLAPS

-----------------------------------------------------------------------------
(* Sequences.                                                              *)

LEMMA SameSequence ==
  ASSUME NEW S, NEW s \in Seq(S), NEW t \in Seq(S), Len(s) = Len(t), \A i \in 1 .. Len(s) : s[i] = t[i]
  PROVE  s = t
  OBVIOUS

LEMMA Lengths ==
  ASSUME NEW S, NEW s \in Seq(S)
  PROVE  Len(s) \in Nat /\ DOMAIN s = 1 .. Len(s) /\ s \in [1 .. Len(s) -> S]
  OBVIOUS

LEMMA NoLength ==
  ASSUME NEW S
  PROVE  <<>> \in Seq(S) /\ Len(<<>>) = 0 /\ \A s \in Seq(S) : s # <<>> => Len(s) \in Nat \ {0}
  OBVIOUS

LEMMA Concatenation ==
  ASSUME NEW S, NEW s \in Seq(S), NEW t \in Seq(S)
  PROVE  /\ s \o t \in Seq(S) /\ Len(s \o t) = Len(s) + Len(t)
         /\ \A i \in 1 .. Len(s) + Len(t) : (s \o t)[i] = IF i <= Len(s) THEN s[i] ELSE t[i - Len(s)]
  OBVIOUS

LEMMA JoinsNothing == ASSUME NEW S, NEW s \in Seq(S) PROVE s \o <<>> = s /\ <<>> \o s = s
  OBVIOUS

LEMMA AppendJoins == ASSUME NEW S, NEW s \in Seq(S), NEW e \in S PROVE Append(s, e) = s \o <<e>>
  OBVIOUS

LEMMA LessRel == ASSUME NEW x \in Nat, NEW y \in Nat PROVE <<x, y>> \in OpToRel(<, Nat) <=> x < y
  BY DEF OpToRel

\* The least member of a set of numbers: what an induction needs of them.
LEMMA LeastNat ==
  ASSUME NEW T \in SUBSET Nat, T # {} PROVE \E x \in T : \A y \in T : x <= y
  <1>1. PICK x \in T : \A y \in T : ~ (<<y, x>> \in OpToRel(<, Nat))
    BY NatLessThanWellFounded, WFMin, Zenon
  <1>2. \A y \in T : ~ (y < x)
    BY <1>1, LessRel, Zenon
  <1> QED BY <1>2

\* g lists the n members of kept in their order.
Lists(g, kept, n) ==
  /\ g \in [1 .. n -> kept]
  /\ \A i, j \in 1 .. n : i < j => g[i] < g[j]
  /\ \A k \in kept : \E i \in 1 .. n : g[i] = k

\* There is one way to list a set of positions in order.
LEMMA OneList ==
  ASSUME NEW kept \in SUBSET Int, NEW n \in Nat, NEW m \in Nat, NEW g, NEW h,
         Lists(g, kept, n), Lists(h, kept, m), n <= m
  PROVE  n = m /\ g = h
  <1>1. /\ \A i \in 1 .. n : g[i] \in kept
        /\ \A i \in 1 .. m : h[i] \in kept
        /\ \A i, j \in 1 .. n : i < j => g[i] < g[j]
        /\ \A i, j \in 1 .. m : i < j => h[i] < h[j]
        /\ \A k \in kept : \E i \in 1 .. n : g[i] = k
        /\ \A k \in kept : \E i \in 1 .. m : h[i] = k
    BY Zenon DEF Lists
  <1>2. \A i \in 1 .. n : g[i] = h[i]
    <2> DEFINE T == {i \in 1 .. n : g[i] # h[i]}
    <2> SUFFICES ASSUME T # {} PROVE FALSE
      BY Zenon
    <2>1. T \in SUBSET Nat
      OBVIOUS
    <2>2. PICK i \in T : \A j \in T : i <= j
      BY <2>1, LeastNat, Zenon
    <2> HIDE DEF T
    <2>3. i \in 1 .. n /\ i \in 1 .. m /\ g[i] # h[i]
      BY DEF T
    <2>4. \A j \in 1 .. n : j < i => g[j] = h[j]
      BY <2>2, <2>3 DEF T
    <2>5. g[i] \in Int /\ h[i] \in Int
      BY <1>1, <2>3, Zenon
    <2>6. ASSUME g[i] < h[i] PROVE FALSE
      <3>1. PICK k \in 1 .. m : h[k] = g[i]
        BY <1>1, <2>3, Zenon
      <3>2. k < i
        BY <1>1, <2>3, <2>5, <2>6, <3>1
      <3>3. g[k] < g[i] /\ g[k] = g[i]
        BY <1>1, <2>3, <2>4, <3>1, <3>2
      <3> QED BY <2>5, <3>3
    <2>7. ASSUME h[i] < g[i] PROVE FALSE
      <3>1. PICK k \in 1 .. n : g[k] = h[i]
        BY <1>1, <2>3, Zenon
      <3>2. k < i
        BY <1>1, <2>3, <2>5, <2>7, <3>1
      <3>3. h[k] < h[i] /\ h[k] = h[i]
        BY <1>1, <2>3, <2>4, <3>1, <3>2
      <3> QED BY <2>5, <3>3
    <2> QED BY <2>3, <2>5, <2>6, <2>7
  <1>3. n = m
    <2> SUFFICES ASSUME n < m PROVE FALSE
      OBVIOUS
    <2>1. m \in 1 .. m
      OBVIOUS
    <2>2. PICK i \in 1 .. n : g[i] = h[m]
      BY <1>1, <2>1, Zenon
    <2>5. h[i] = h[m] /\ h[m] \in Int
      BY <1>1, <1>2, <2>1, <2>2, Zenon
    <2>3. i \in 1 .. m /\ i < m /\ h[i] = h[m] /\ h[m] \in Int
      BY <2>5
    <2>4. h[i] < h[m]
      BY <1>1, <2>1, <2>3
    <2> QED BY <2>3, <2>4
  <1>4. g \in [1 .. n -> kept] /\ h \in [1 .. n -> kept]
    BY <1>3, Zenon DEF Lists
  <1> QED BY <1>2, <1>3, <1>4

\* What a filter keeps: the elements at the positions kept, in their order.
LEMMA Filtered ==
  ASSUME NEW S, NEW l \in Seq(S), NEW kept \in SUBSET (1 .. Len(l))
  PROVE  /\ InOrder(l, kept) \in Seq(S)
         /\ Len(InOrder(l, kept)) = Cardinality(kept) /\ Cardinality(kept) \in Nat
         /\ \E g : /\ Lists(g, kept, Cardinality(kept))
                   /\ \A i \in 1 .. Cardinality(kept) : InOrder(l, kept)[i] = l[g[i]]
  <1> DEFINE n == Cardinality(kept)
             upto(k) == {j \in kept : j < k}
             rank == [k \in kept |-> Cardinality(upto(k))]
             f == [i \in 1 .. n |-> CHOOSE k \in kept : Cardinality(upto(k)) = i - 1]
             o == InOrder(l, kept)
  <1> HIDE DEF n, upto, rank, f, o
  <1>1. IsFiniteSet(kept) /\ n \in Nat
    <2>1. IsFiniteSet(1 .. Len(l))
      BY FS_Interval
    <2>2. IsFiniteSet(kept)
      BY <2>1, FS_Subset, Zenon
    <2> QED BY <2>2, FS_CardinalityType, Zenon DEF n
  <1>2. kept \subseteq Int
    OBVIOUS
  <1>3. \A k \in kept : IsFiniteSet(upto(k)) /\ Cardinality(upto(k)) \in Nat /\ Cardinality(upto(k)) <= n
    <2>1. \A k \in kept : upto(k) \in SUBSET kept
      BY Zenon DEF upto
    <2>2. \A k \in kept : IsFiniteSet(upto(k)) /\ Cardinality(upto(k)) <= n
      BY <1>1, <2>1, FS_Subset, Zenon DEF n
    <2> QED BY <2>2, FS_CardinalityType, Zenon
  <1>4. ASSUME NEW j \in kept, NEW k \in kept, j < k PROVE Cardinality(upto(j)) < Cardinality(upto(k))
    <2>1. upto(j) \subseteq upto(k) /\ j \in upto(k) /\ j \notin upto(j)
      <3>1. \A i \in kept : i < j => i < k
        BY <1>2, <1>4
      <3>2. ~ (j < j)
        BY <1>2
      <3> QED BY <1>4, <3>1, <3>2, Zenon DEF upto
    <2>2. Cardinality(upto(j)) <= Cardinality(upto(k)) /\ Cardinality(upto(j)) # Cardinality(upto(k))
      BY <1>3, <2>1, FS_Subset, Zenon
    <2> QED BY <1>3, <2>2
  <1>5. \A k \in kept : Cardinality(upto(k)) \in 0 .. n - 1
    <2>1. \A k \in kept : ~ (k < k)
      BY <1>2
    <2>2. \A k \in kept : k \notin upto(k) /\ upto(k) \in SUBSET kept
      BY <2>1, Zenon DEF upto
    <2>3. \A k \in kept : Cardinality(upto(k)) # n
      BY <1>1, <2>2, FS_Subset, Zenon DEF n
    <2> QED BY <1>1, <1>3, <2>3
  <1>6. rank \in Injection(kept, 0 .. n - 1)
    <2>1. rank \in [kept -> 0 .. n - 1]
      BY <1>5, Zenon DEF rank
    <2>2. \A j, k \in kept : rank[j] = rank[k] => j = k
      <3> SUFFICES ASSUME NEW j \in kept, NEW k \in kept, j # k PROVE rank[j] # rank[k]
        BY Zenon
      <3>1. j < k \/ k < j
        BY <1>2
      <3>2. Cardinality(upto(j)) # Cardinality(upto(k))
        BY <1>3, <1>4, <3>1
      <3> QED BY <3>2, Zenon DEF rank
    <2> QED BY <2>1, <2>2, Zenon DEF Injection, IsInjective
  <1>7. rank \in Surjection(kept, 0 .. n - 1)
    <2>1. IsFiniteSet(0 .. n - 1) /\ Cardinality(0 .. n - 1) = n
      BY <1>1, FS_Interval
    <2> QED BY <1>6, <2>1, FS_Injection, Zenon DEF n
  <1>8. \A i \in 1 .. n : \E k \in kept : Cardinality(upto(k)) = i - 1
    <2>1. \A i \in 1 .. n : i - 1 \in 0 .. n - 1
      BY <1>1
    <2>2. \A i \in 0 .. n - 1 : \E k \in kept : rank[k] = i
      BY <1>7, Zenon DEF Surjection
    <2> QED BY <2>1, <2>2, Zenon DEF rank
  <1>9. \A i \in 1 .. n : f[i] \in kept /\ Cardinality(upto(f[i])) = i - 1
    BY <1>8, Zenon DEF f
  <1>10. o = [i \in 1 .. n |-> o[i]] /\ \A i \in 1 .. n : o[i] = l[f[i]]
    <2> DEFINE g(i) == CHOOSE k \in kept : Cardinality(upto(k)) = i - 1
    <2>1. o = [i \in 1 .. n |-> l[g(i)]]
      BY Zenon DEF o, InOrder, n, upto
    <2>2. \A i \in 1 .. n : f[i] = g(i)
      BY Zenon DEF f
    <2> HIDE DEF g
    <2> QED BY <2>1, <2>2
  <1>11. \A i \in 1 .. n : l[f[i]] \in S
    <2>1. \A k \in 1 .. Len(l) : l[k] \in S
      OBVIOUS
    <2> QED BY <1>9, <2>1, Zenon
  <1>12. o \in Seq(S) /\ Len(o) = n
    BY <1>1, <1>10, <1>11
  <1>14. \A k \in kept : \E i \in 1 .. n : f[i] = k
    <2> SUFFICES ASSUME NEW k \in kept PROVE \E i \in 1 .. n : f[i] = k
      BY Zenon
    <2> DEFINE i == Cardinality(upto(k)) + 1
    <2>1. i \in 1 .. n /\ i - 1 = Cardinality(upto(k))
      BY <1>1, <1>5
    <2>2. rank[f[i]] = rank[k] /\ f[i] \in kept
      BY <1>9, <2>1, Zenon DEF rank
    <2>3. f[i] = k
      <3>1. DOMAIN rank = kept
        BY Zenon DEF rank
      <3> QED BY <1>6, <2>2, <3>1, Zenon DEF Injection, IsInjective
    <2> QED BY <2>1, <2>3, Zenon
  <1>15. \A i, j \in 1 .. n : i < j => f[i] < f[j]
    <2> SUFFICES ASSUME NEW i \in 1 .. n, NEW j \in 1 .. n, i < j, ~ (f[i] < f[j]) PROVE FALSE
      BY Zenon
    <2>1. f[i] \in kept /\ f[j] \in kept /\ Cardinality(upto(f[i])) = i - 1 /\ Cardinality(upto(f[j])) = j - 1
      BY <1>9, Zenon
    <2>5. f[i] \in Int /\ f[j] \in Int
      BY <1>2, <2>1, Zenon
    <2>2. f[j] < f[i] \/ f[j] = f[i]
      BY <2>5
    <2>3. i - 1 < j - 1 /\ i - 1 \in Int /\ j - 1 \in Int
      OBVIOUS
    <2>4. Cardinality(upto(f[j])) < Cardinality(upto(f[i])) \/ Cardinality(upto(f[j])) = Cardinality(upto(f[i]))
      BY <1>4, <2>1, <2>2, Zenon
    <2> QED BY <2>1, <2>3, <2>4
  <1>16. f \in [1 .. n -> kept]
    BY <1>9, Zenon DEF f
  <1>17. Lists(f, kept, n)
    BY <1>14, <1>15, <1>16, Zenon DEF Lists
  <1> QED BY <1>1, <1>10, <1>12, <1>17, Zenon DEF o, n

\* A list of the positions gives what the filter keeps.
LEMMA FilteredBy ==
  ASSUME NEW S, NEW l \in Seq(S), NEW kept \in SUBSET (1 .. Len(l)), NEW n \in Nat, NEW g, Lists(g, kept, n)
  PROVE  /\ InOrder(l, kept) \in Seq(S) /\ Len(InOrder(l, kept)) = n
         /\ \A i \in 1 .. n : InOrder(l, kept)[i] = l[g[i]]
  <1> DEFINE o == InOrder(l, kept)
             m == Cardinality(kept)
  <1> HIDE DEF o, m
  <1>1. o \in Seq(S) /\ Len(o) = m /\ m \in Nat
    BY Filtered, Zenon DEF o, m
  <1>2. PICK h : Lists(h, kept, m) /\ \A i \in 1 .. m : o[i] = l[h[i]]
    BY Filtered, Zenon DEF o, m
  <1>3. kept \in SUBSET Int
    OBVIOUS
  <1>4. n <= m \/ m <= n
    BY <1>1
  <1>5. n = m /\ g = h
    BY <1>1, <1>2, <1>3, <1>4, OneList, Zenon
  <1> QED BY <1>1, <1>2, <1>5, Zenon DEF o

\* The parts of a concatenation.
LEMMA Joined ==
  ASSUME NEW S, NEW a \in Seq(S), NEW b \in Seq(S)
  PROVE  /\ a \o b \in Seq(S) /\ Len(a \o b) = Len(a) + Len(b)
         /\ \A i \in 1 .. Len(a) : (a \o b)[i] = a[i]
         /\ \A i \in 1 .. Len(b) : (a \o b)[Len(a) + i] = b[i]
  <1>1. /\ a \o b \in Seq(S) /\ Len(a \o b) = Len(a) + Len(b)
        /\ \A i \in 1 .. Len(a) + Len(b) : (a \o b)[i] = IF i <= Len(a) THEN a[i] ELSE b[i - Len(a)]
    BY Concatenation, Zenon
  <1>2. Len(a) \in Nat /\ Len(b) \in Nat
    OBVIOUS
  <1> QED BY <1>1, <1>2

LEMMA FilterAll ==
  ASSUME NEW S, NEW l \in Seq(S)
  PROVE  InOrder(l, 1 .. Len(l)) = l
  <1> DEFINE g == [i \in 1 .. Len(l) |-> i]
             kept == 1 .. Len(l)
  <1>1. Len(l) \in Nat /\ kept \in SUBSET (1 .. Len(l))
    OBVIOUS
  <1>2. Lists(g, kept, Len(l))
    BY <1>1 DEF Lists
  <1>3. \A i \in 1 .. Len(l) : g[i] = i
    OBVIOUS
  <1> HIDE DEF kept, g
  <1>4. /\ InOrder(l, kept) \in Seq(S) /\ Len(InOrder(l, kept)) = Len(l)
        /\ \A i \in 1 .. Len(l) : InOrder(l, kept)[i] = l[g[i]]
    BY <1>1, <1>2, FilteredBy
  <1>5. \A i \in 1 .. Len(l) : InOrder(l, kept)[i] = l[i]
    BY <1>3, <1>4, Zenon
  <1> QED BY <1>4, <1>5, SameSequence, Zenon DEF kept

LEMMA FilterNone ==
  ASSUME NEW S, NEW l \in Seq(S)
  PROVE  InOrder(l, {}) = <<>>
  <1>1. {} \in SUBSET (1 .. Len(l)) /\ Cardinality({}) = 0
    BY FS_EmptySet
  <1>2. InOrder(l, {}) \in Seq(S) /\ Len(InOrder(l, {})) = 0
    BY <1>1, Filtered, Zenon
  <1> QED BY <1>2, NoLength, Zenon

Stops == {"stop", "error", "aborted"}
Results == {ToolResult(id) : id \in Ids}
Assistants ==
  {Assistant(stop, text, calls) : stop \in Stops, text \in BOOLEAN, calls \in Seq(Ids \cup {Bad})}
Msgs == {User} \cup Results \cup Assistants

\* Filtering a part of a sequence that is found, moved by d, in another.
LEMMA FilterMoved ==
  ASSUME NEW l \in Seq(Msgs), NEW t \in Seq(Msgs), NEW K \in SUBSET (1 .. Len(l)),
         NEW L \in SUBSET (1 .. Len(t)), NEW d \in Int,
         \A k \in K : k + d \in L /\ t[k + d] = l[k], \A k \in L : k - d \in K
  PROVE  InOrder(t, L) = InOrder(l, K)
  <1> DEFINE n == Cardinality(K)
  <1> HIDE DEF n
  <1>1. /\ n \in Nat /\ InOrder(l, K) \in Seq(Msgs) /\ Len(InOrder(l, K)) = n
        /\ \E g : Lists(g, K, n) /\ \A i \in 1 .. n : InOrder(l, K)[i] = l[g[i]]
    BY Filtered, Zenon DEF n
  <1>2. PICK g : Lists(g, K, n) /\ \A i \in 1 .. n : InOrder(l, K)[i] = l[g[i]]
    BY <1>1, Zenon
  <1>3. /\ g \in [1 .. n -> K]
        /\ \A i, j \in 1 .. n : i < j => g[i] < g[j]
        /\ \A k \in K : \E i \in 1 .. n : g[i] = k
    BY <1>2, Zenon DEF Lists
  <1>4. \A i \in 1 .. n : g[i] \in K /\ g[i] \in Int
    <2>1. K \subseteq Int
      OBVIOUS
    <2> QED BY <1>3, <2>1, Zenon
  <1> DEFINE h == [i \in 1 .. n |-> g[i] + d]
  <1>5. \A i \in 1 .. n : h[i] = g[i] + d /\ h[i] \in L /\ t[h[i]] = l[g[i]]
    BY <1>4, Zenon
  <1>6. h \in [1 .. n -> L]
    BY <1>5
  <1>7. \A i, j \in 1 .. n : i < j => h[i] < h[j]
    BY <1>3, <1>4, <1>5
  <1>8. \A k \in L : \E i \in 1 .. n : h[i] = k
    <2> SUFFICES ASSUME NEW k \in L PROVE \E i \in 1 .. n : h[i] = k
      BY Zenon
    <2>1. PICK i \in 1 .. n : g[i] = k - d
      BY <1>3, Zenon
    <2>2. h[i] = k
      BY <1>5, <2>1
    <2> QED BY <2>2
  <1> HIDE DEF h
  <1>9. Lists(h, L, n)
    BY <1>6, <1>7, <1>8, Zenon DEF Lists
  <1>10. /\ InOrder(t, L) \in Seq(Msgs) /\ Len(InOrder(t, L)) = n
         /\ \A i \in 1 .. n : InOrder(t, L)[i] = t[h[i]]
    BY <1>1, <1>9, FilteredBy
  <1>11. \A i \in 1 .. n : InOrder(t, L)[i] = InOrder(l, K)[i]
    BY <1>2, <1>5, <1>10, Zenon
  <1> QED BY <1>1, <1>10, <1>11, SameSequence, Zenon

\* Filtering by positions that come before others, and by those.
LEMMA FilterJoin ==
  ASSUME NEW l \in Seq(Msgs), NEW K \in SUBSET (1 .. Len(l)), NEW L \in SUBSET (1 .. Len(l)),
         \A k \in K, j \in L : k < j
  PROVE  InOrder(l, K \cup L) = InOrder(l, K) \o InOrder(l, L)
  <1> DEFINE n == Cardinality(K)
             m == Cardinality(L)
             a == InOrder(l, K)
             b == InOrder(l, L)
             M == K \cup L
  <1> HIDE DEF n, m, a, b, M
  <1>1. /\ n \in Nat /\ a \in Seq(Msgs) /\ Len(a) = n
        /\ \E g : Lists(g, K, n) /\ \A i \in 1 .. n : a[i] = l[g[i]]
    BY Filtered, Zenon DEF n, a
  <1>2. /\ m \in Nat /\ b \in Seq(Msgs) /\ Len(b) = m
        /\ \E g : Lists(g, L, m) /\ \A i \in 1 .. m : b[i] = l[g[i]]
    BY Filtered, Zenon DEF m, b
  <1>3. PICK g : Lists(g, K, n) /\ \A i \in 1 .. n : a[i] = l[g[i]]
    BY <1>1, Zenon
  <1>4. PICK h : Lists(h, L, m) /\ \A i \in 1 .. m : b[i] = l[h[i]]
    BY <1>2, Zenon
  <1>5. /\ \A i \in 1 .. n : g[i] \in K
        /\ \A i, j \in 1 .. n : i < j => g[i] < g[j]
        /\ \A k \in K : \E i \in 1 .. n : g[i] = k
    BY <1>3, Zenon DEF Lists
  <1>6. /\ \A i \in 1 .. m : h[i] \in L
        /\ \A i, j \in 1 .. m : i < j => h[i] < h[j]
        /\ \A k \in L : \E i \in 1 .. m : h[i] = k
    BY <1>4, Zenon DEF Lists
  <1> DEFINE f == [i \in 1 .. n + m |-> IF i <= n THEN g[i] ELSE h[i - n]]
  <1>7. \A i \in 1 .. n : i \in 1 .. n + m /\ f[i] = g[i]
    BY <1>1, <1>2
  <1>8. \A i \in 1 .. m : n + i \in 1 .. n + m /\ f[n + i] = h[i]
    BY <1>1, <1>2
  <1>9. \A i \in 1 .. n + m : i \in 1 .. n \/ \E j \in 1 .. m : i = n + j
    <2> SUFFICES ASSUME NEW i \in 1 .. n + m, i \notin 1 .. n PROVE \E j \in 1 .. m : i = n + j
      BY Zenon
    <2>1. i - n \in 1 .. m /\ i = n + (i - n)
      BY <1>1, <1>2
    <2> QED BY <2>1, Zenon
  <1>10. f = [i \in 1 .. n + m |-> f[i]]
    OBVIOUS
  <1> HIDE DEF f
  <1>11. \A i \in 1 .. n + m : f[i] \in M
    <2>1. \A i \in 1 .. n : f[i] \in M
      BY <1>5, <1>7, Zenon DEF M
    <2>2. \A i \in 1 .. m : f[n + i] \in M
      BY <1>6, <1>8, Zenon DEF M
    <2> QED BY <1>9, <2>1, <2>2, Zenon
  <1>12. \A i, j \in 1 .. n + m : i < j => f[i] < f[j]
    <2> SUFFICES ASSUME NEW i \in 1 .. n + m, NEW j \in 1 .. n + m, i < j PROVE f[i] < f[j]
      BY Zenon
    <2>1. CASE i \in 1 .. n /\ j \in 1 .. n
      BY <1>5, <1>7, <2>1, Zenon
    <2>2. CASE i \in 1 .. n /\ \E k \in 1 .. m : j = n + k
      <3>1. PICK k \in 1 .. m : j = n + k
        BY <2>2, Zenon
      <3>2. f[i] = g[i] /\ g[i] \in K /\ f[j] = h[k] /\ h[k] \in L
        BY <1>5, <1>6, <1>7, <1>8, <2>2, <3>1, Zenon
      <3> QED BY <3>2, Zenon
    <2>3. CASE (\E k \in 1 .. m : i = n + k) /\ j \in 1 .. n
      BY <1>1, <1>2, <2>3
    <2>4. CASE (\E k \in 1 .. m : i = n + k) /\ (\E k \in 1 .. m : j = n + k)
      <3>1. PICK c \in 1 .. m : i = n + c
        BY <2>4, Zenon
      <3>2. PICK k \in 1 .. m : j = n + k
        BY <2>4, Zenon
      <3>3. c < k
        BY <1>1, <1>2, <3>1, <3>2
      <3> QED BY <1>6, <1>8, <3>1, <3>2, <3>3, Zenon
    <2> QED BY <1>9, <2>1, <2>2, <2>3, <2>4, Zenon
  <1>13. \A k \in M : \E i \in 1 .. n + m : f[i] = k
    BY <1>5, <1>6, <1>7, <1>8, ZenonT(60) DEF M
  <1>14. f \in [1 .. n + m -> M]
    BY <1>10, <1>11
  <1>15. Lists(f, M, n + m)
    BY <1>12, <1>13, <1>14, Zenon DEF Lists
  <1>16. M \in SUBSET (1 .. Len(l))
    BY Zenon DEF M
  <1>17. n + m \in Nat
    BY <1>1, <1>2
  <1>18. /\ InOrder(l, M) \in Seq(Msgs) /\ Len(InOrder(l, M)) = n + m
         /\ \A i \in 1 .. n + m : InOrder(l, M)[i] = l[f[i]]
    BY <1>15, <1>16, <1>17, FilteredBy
  <1>19. /\ a \o b \in Seq(Msgs) /\ Len(a \o b) = n + m
         /\ \A i \in 1 .. n : (a \o b)[i] = a[i]
         /\ \A i \in 1 .. m : (a \o b)[n + i] = b[i]
    <2>1. /\ a \o b \in Seq(Msgs) /\ Len(a \o b) = Len(a) + Len(b)
          /\ \A i \in 1 .. Len(a) : (a \o b)[i] = a[i]
          /\ \A i \in 1 .. Len(b) : (a \o b)[Len(a) + i] = b[i]
      <3>1. a \in Seq(Msgs) /\ b \in Seq(Msgs)
        BY <1>1, <1>2, Zenon
      <3> QED BY ONLY <3>1, Joined
    <2> QED BY <1>1, <1>2, <2>1, Zenon
  <1>20. \A i \in 1 .. n : InOrder(l, M)[i] = (a \o b)[i]
    <2> SUFFICES ASSUME NEW i \in 1 .. n PROVE InOrder(l, M)[i] = (a \o b)[i]
      BY Zenon
    <2>1. i \in 1 .. n + m /\ f[i] = g[i]
      BY <1>7, Zenon
    <2>2. InOrder(l, M)[i] = l[g[i]]
      BY <1>18, <2>1, Zenon
    <2> QED BY <1>3, <1>19, <2>2, Zenon
  <1>21. \A i \in 1 .. m : InOrder(l, M)[n + i] = (a \o b)[n + i]
    <2> SUFFICES ASSUME NEW i \in 1 .. m PROVE InOrder(l, M)[n + i] = (a \o b)[n + i]
      BY Zenon
    <2>1. n + i \in 1 .. n + m /\ f[n + i] = h[i]
      BY <1>8, Zenon
    <2>2. InOrder(l, M)[n + i] = l[h[i]]
      BY <1>18, <2>1, Zenon
    <2> QED BY <1>4, <1>19, <2>2, Zenon
  <1>22. \A i \in 1 .. n + m : InOrder(l, M)[i] = (a \o b)[i]
    BY <1>9, <1>20, <1>21, Zenon
  <1> QED BY <1>18, <1>19, <1>22, SameSequence, Zenon DEF a, b, M
-----------------------------------------------------------------------------
(* Transcripts.                                                            *)

LEMMA Kinds ==
  ASSUME NEW m \in Msgs
  PROVE  /\ IsResult(m) => m.id \in Ids /\ m = ToolResult(m.id) /\ ~ IsAssistant(m)
         /\ IsAssistant(m) => /\ m.stop \in Stops /\ m.text \in BOOLEAN
                              /\ m.calls \in Seq(Ids \cup {Bad})
                              /\ m = Assistant(m.stop, m.text, m.calls)
                              /\ ~ IsResult(m)
  <1>1. CASE m = User
    BY <1>1 DEF User, IsResult, IsAssistant
  <1>2. CASE m \in Results
    BY <1>2 DEF Results, ToolResult, IsResult, IsAssistant
  <1>3. ASSUME NEW stop \in Stops, NEW text \in BOOLEAN, NEW calls \in Seq(Ids \cup {Bad}),
               m = Assistant(stop, text, calls)
        PROVE  /\ m.stop \in Stops /\ m.text \in BOOLEAN /\ m.calls \in Seq(Ids \cup {Bad})
               /\ m = Assistant(m.stop, m.text, m.calls) /\ ~ IsResult(m)
    <2>1. m.stop = stop /\ m.text = text /\ m.calls = calls /\ m.role = "assistant"
      BY <1>3, Zenon DEF Assistant
    <2> QED BY <1>3, <2>1 DEF IsResult
  <1>4. CASE m \in Assistants
    <2>1. PICK stop \in Stops, text \in BOOLEAN, calls \in Seq(Ids \cup {Bad}) : m = Assistant(stop, text, calls)
      BY <1>4 DEF Assistants
    <2>2. ~ IsResult(m) /\ m.stop \in Stops /\ m.text \in BOOLEAN /\ m.calls \in Seq(Ids \cup {Bad})
          /\ m = Assistant(m.stop, m.text, m.calls)
      BY <1>3, <2>1, Zenon
    <2> QED BY <2>2, Zenon
  <1> QED BY <1>1, <1>2, <1>4, Zenon DEF Msgs

LEMMA ResultKind ==
  ASSUME NEW id PROVE IsResult(ToolResult(id)) /\ ToolResult(id).id = id /\ (id \in Ids => ToolResult(id) \in Msgs)
  <1>1. IsResult(ToolResult(id)) /\ ToolResult(id).id = id
    BY Zenon DEF IsResult, ToolResult
  <1>2. id \in Ids => ToolResult(id) \in Msgs
    BY Zenon DEF Msgs, Results
  <1> QED BY <1>1, <1>2, Zenon

Start == [out |-> <<>>, seen |-> {}, changed |-> FALSE]

\* The rounds are one after the other.
LEMMA RoundsRun ==
  ASSUME NEW ms, Len(ms) \in Nat
  PROVE  /\ Rounds(ms)[0] = Start
         /\ \A i \in 1 .. Len(ms) : Rounds(ms)[i] = RepairMessage(Rounds(ms)[i - 1], ms, i)
  <1> DEFINE Run(g, n) == g = [i \in 0 .. n |-> IF i = 0 THEN Start ELSE RepairMessage(g[i - 1], ms, i)]
             T == {n \in Nat : ~ \E g : Run(g, n)}
  <1>1. T = {}
    <2> SUFFICES ASSUME T # {} PROVE FALSE
      BY Zenon
    <2>1. PICK n \in T : \A k \in T : n <= k
      BY LeastNat, Zenon
    <2>2. n \in Nat /\ \A g : ~ Run(g, n)
      BY Zenon
    <2>3. n # 0
      <3> SUFFICES ASSUME n = 0 PROVE FALSE
        BY Zenon
      <3> DEFINE g == [i \in 0 .. 0 |-> Start]
      <3>1. Run(g, 0)
        OBVIOUS
      <3> QED BY <2>2, <3>1, Zenon
    <2>4. PICK h : Run(h, n - 1)
      <3>1. n - 1 \in Nat /\ ~ (n <= n - 1)
        BY <2>2, <2>3
      <3> QED BY <2>1, <3>1, Zenon
    <2> DEFINE g == [i \in 0 .. n |-> IF i = n THEN RepairMessage(h[n - 1], ms, n) ELSE h[i]]
    <2>5. Run(g, n)
      <3>1. \A i \in 0 .. n - 1 : g[i] = h[i] /\ i # n /\ h[i] = IF i = 0 THEN Start ELSE RepairMessage(h[i - 1], ms, i)
        BY <2>2, <2>3, <2>4
      <3>2. g[n] = RepairMessage(g[n - 1], ms, n)
        BY <2>2, <2>3, <3>1
      <3>3. \A i \in 0 .. n : g[i] = IF i = 0 THEN Start ELSE RepairMessage(g[i - 1], ms, i)
        <4> SUFFICES ASSUME NEW i \in 0 .. n PROVE g[i] = IF i = 0 THEN Start ELSE RepairMessage(g[i - 1], ms, i)
          BY Zenon
        <4> HIDE DEF g
        <4>1. CASE i = n
          BY <2>3, <3>2, <4>1, Zenon
        <4>2. CASE i = 0
          <5>1. i \in 0 .. n - 1
            BY <2>2, <2>3, <4>2
          <5> QED BY <3>1, <4>2, <5>1, Zenon
        <4>3. CASE i # n /\ i # 0
          <5>1. i \in 0 .. n - 1 /\ i - 1 \in 0 .. n - 1
            BY <2>2, <2>3, <4>3
          <5> QED BY <3>1, <4>3, <5>1, Zenon
        <4> QED BY <4>1, <4>2, <4>3, Zenon
      <3>4. g = [i \in 0 .. n |-> g[i]]
        OBVIOUS
      <3> HIDE DEF g
      <3> QED BY <3>3, <3>4, Zenon
    <2> QED BY <2>2, <2>5, Zenon
  <1>2. PICK g : Run(g, Len(ms))
    BY <1>1, Zenon
  <1>3. Run(Rounds(ms), Len(ms))
    BY <1>2, Zenon DEF Rounds, Start
  <1> DEFINE r == Rounds(ms)
  <1> HIDE DEF r
  <1>4. r = [i \in 0 .. Len(ms) |-> IF i = 0 THEN Start ELSE RepairMessage(r[i - 1], ms, i)]
    BY <1>3, Zenon DEF r
  <1>5. r[0] = Start /\ \A i \in 1 .. Len(ms) : r[i] = RepairMessage(r[i - 1], ms, i)
    BY <1>4
  <1> QED BY <1>5, Zenon DEF r

\* A span is what comes between its assistant message and the next.
LEMMA SpanEnds ==
  ASSUME NEW ms, Len(ms) \in Nat, NEW i \in 0 .. Len(ms)
  PROVE  \E e \in i .. Len(ms) : /\ Span(ms, i) = i + 1 .. e
                                 /\ \A k \in i + 1 .. e : ~ IsAssistant(ms[k])
                                 /\ e = Len(ms) \/ IsAssistant(ms[e + 1])
  <1> DEFINE T == {k \in Nat : k \in i + 1 .. Len(ms) /\ IsAssistant(ms[k])}
  <1>1. CASE T = {}
    <2>1. \A k \in i + 1 .. Len(ms) : ~ IsAssistant(ms[k])
      BY <1>1
    <2>2. \A j \in i + 1 .. Len(ms) : \A k \in i + 1 .. j : k \in i + 1 .. Len(ms)
      OBVIOUS
    <2>3. Span(ms, i) = i + 1 .. Len(ms)
      BY <2>1, <2>2, Zenon DEF Span
    <2>4. Len(ms) \in i .. Len(ms)
      OBVIOUS
    <2> QED BY <2>1, <2>3, <2>4, Zenon
  <1>2. CASE T # {}
    <2>1. PICK n \in T : \A k \in T : n <= k
      BY <1>2, LeastNat, Zenon
    <2>2. n \in i + 1 .. Len(ms) /\ IsAssistant(ms[n]) /\ n - 1 \in i .. Len(ms) /\ n - 1 + 1 = n
      OBVIOUS
    <2>3. \A k \in i + 1 .. n - 1 : ~ IsAssistant(ms[k])
      BY <2>1, <2>2
    <2>4. \A j \in i + 1 .. n - 1 : j \in i + 1 .. Len(ms) /\ \A k \in i + 1 .. j : k \in i + 1 .. n - 1
      BY <2>2
    <2>5. \A j \in i + 1 .. Len(ms) : j \in i + 1 .. n - 1 \/ n \in i + 1 .. j
      BY <2>2
    <2>6. \A j \in i + 1 .. n - 1 : j \in Span(ms, i)
      BY <2>3, <2>4, Zenon DEF Span
    <2>7. \A j \in Span(ms, i) : j \in i + 1 .. n - 1
      BY <2>2, <2>5, Zenon DEF Span
    <2>8. Span(ms, i) = i + 1 .. n - 1
      BY <2>6, <2>7, Zenon
    <2> QED BY <2>2, <2>3, <2>8, Zenon
  <1> QED BY <1>1, <1>2, Zenon

NoHeads(ms, i) == \A h \in 1 .. i : ~ IsAssistant(ms[h])

\* What holds of the rounds done and the messages they stand for: G has the
\* pairs of the two.
LEMMA RoundsReach ==
  ASSUME NEW ms, Len(ms) \in Nat, NEW G,
         <<Start, 0>> \in G,
         \A acc : \A i \in 1 .. Len(ms) : \A e \in i .. Len(ms) :
            <<acc, i - 1>> \in G /\ IsAssistant(ms[i]) /\ Span(ms, i) = i + 1 .. e
            => <<RepairSpan(acc, ms, i), e>> \in G,
         \A acc : \A i \in 1 .. Len(ms) :
            <<acc, i - 1>> \in G /\ NoHeads(ms, i) => <<RepairMessage(acc, ms, i), i>> \in G
  PROVE  <<Rounds(ms)[Len(ms)], Len(ms)>> \in G
  <1> DEFINE N == Len(ms)
             r == Rounds(ms)
             \* e is where the span the i-th message is in ends
             At(i, e) == /\ e \in i .. N
                         /\ \A k \in i + 1 .. e : ~ IsAssistant(ms[k])
                         /\ IF NoHeads(ms, i) THEN e = i ELSE e = N \/ IsAssistant(ms[e + 1])
             Good(i) == \E e \in i .. N : At(i, e) /\ <<r[i], e>> \in G
             T == {i \in Nat : i <= N /\ ~ Good(i)}
  <1>0. r[0] = Start /\ \A i \in 1 .. N : r[i] = RepairMessage(r[i - 1], ms, i)
    BY RoundsRun, Zenon
  <1> HIDE DEF r
  <1>1. Good(0)
    <2>1. 0 \in 0 .. N /\ NoHeads(ms, 0) /\ \A k \in 0 + 1 .. 0 : ~ IsAssistant(ms[k])
      BY DEF NoHeads
    <2> QED BY <1>0, <2>1, Zenon
  <1>2. ASSUME NEW i \in 1 .. N, Good(i - 1) PROVE Good(i)
    <2>1. PICK e \in i - 1 .. N : At(i - 1, e) /\ <<r[i - 1], e>> \in G
      BY <1>2, Zenon
    <2>2. i - 1 + 1 = i /\ i \in 0 .. N
      OBVIOUS
    <2>3. /\ \A k \in i .. e : ~ IsAssistant(ms[k])
          /\ IF NoHeads(ms, i - 1) THEN e = i - 1 ELSE e = N \/ IsAssistant(ms[e + 1])
      BY <2>1, <2>2, Zenon
    <2>4. CASE IsAssistant(ms[i])
      <3>1. e = i - 1
        BY <2>3, <2>4
      <3>2. PICK f \in i .. N : /\ Span(ms, i) = i + 1 .. f
                                /\ \A k \in i + 1 .. f : ~ IsAssistant(ms[k])
                                /\ f = N \/ IsAssistant(ms[f + 1])
        BY <2>2, SpanEnds, Zenon
      <3>3. r[i] = RepairSpan(r[i - 1], ms, i)
        BY <1>0, <2>4, Zenon DEF RepairMessage
      <3>4. <<r[i], f>> \in G
        BY <2>1, <2>4, <3>1, <3>2, <3>3, Zenon
      <3>5. ~ NoHeads(ms, i)
        <4>1. i \in 1 .. i
          OBVIOUS
        <4> QED BY <2>4, <4>1, Zenon DEF NoHeads
      <3> QED BY <3>2, <3>4, <3>5, Zenon
    <2>5. CASE ~ IsAssistant(ms[i]) /\ NoHeads(ms, i - 1)
      <3>1. NoHeads(ms, i)
        <4>1. \A h \in 1 .. i : h = i \/ h \in 1 .. i - 1
          OBVIOUS
        <4> QED BY <2>5, <4>1, Zenon DEF NoHeads
      <3>2. e = i - 1 /\ <<r[i], i>> \in G
        BY <1>0, <2>1, <2>3, <2>5, <3>1, Zenon
      <3>3. i \in i .. N /\ i + 1 .. i = {}
        OBVIOUS
      <3> QED BY <3>1, <3>2, <3>3, Zenon
    <2>6. CASE ~ IsAssistant(ms[i]) /\ ~ NoHeads(ms, i - 1)
      <3>1. e \in i .. N /\ \A k \in i + 1 .. e : k \in i .. e
        BY <2>2, <2>3, <2>6
      <3>2. r[i] = r[i - 1]
        BY <1>0, <2>6, Zenon DEF RepairMessage, NoHeads
      <3>3. ~ NoHeads(ms, i)
        <4>1. \A h \in 1 .. i - 1 : h \in 1 .. i
          OBVIOUS
        <4> QED BY <2>6, <4>1, Zenon DEF NoHeads
      <3>4. \A k \in i + 1 .. e : ~ IsAssistant(ms[k])
        BY <2>3, <3>1, Zenon
      <3>5. e = N \/ IsAssistant(ms[e + 1])
        BY <2>3, <2>6, Zenon
      <3> QED BY <2>1, <3>1, <3>2, <3>3, <3>4, <3>5, Zenon
    <2> QED BY <2>4, <2>5, <2>6, Zenon
  <1> HIDE DEF Good
  <1>3. T = {}
    <2> SUFFICES ASSUME T # {} PROVE FALSE
      BY Zenon
    <2>1. PICK i \in T : \A k \in T : i <= k
      BY LeastNat, Zenon
    <2>2. i \in Nat /\ i <= N /\ ~ Good(i)
      BY Zenon
    <2>3. i # 0
      BY <1>1, <2>2, Zenon
    <2>4. i \in 1 .. N /\ i - 1 \in Nat /\ i - 1 <= N /\ ~ (i <= i - 1)
      BY <2>2, <2>3
    <2>5. Good(i - 1)
      BY <2>1, <2>4, Zenon
    <2> QED BY <1>2, <2>2, <2>4, <2>5, Zenon
  <1>4. N \in Nat /\ N <= N
    OBVIOUS
  <1>5. Good(N)
    BY <1>3, <1>4, Zenon
  <1>6. PICK e \in N .. N : <<r[N], e>> \in G
    BY <1>5, Zenon DEF Good
  <1>7. e = N
    OBVIOUS
  <1> QED BY <1>6, <1>7, Zenon DEF r

\* R has one result for each id found.
Answered(R, found) ==
  /\ IsFiniteSet(found) /\ Cardinality(found) \in Nat
  /\ Len(R) = Cardinality(found) /\ DOMAIN R = 1 .. Len(R) /\ R = [k \in 1 .. Len(R) |-> R[k]]
  /\ \A k \in 1 .. Len(R) : R[k].id \in found /\ R[k] = ToolResult(R[k].id)
  /\ \A id \in found : \E k \in 1 .. Len(R) : R[k].id = id
  /\ \A j, k \in 1 .. Len(R) : R[j].id = R[k].id => j = k

LEMMA Answers ==
  ASSUME NEW C, NEW calls \in Seq(C), NEW found \in SUBSET Range(calls)
  PROVE  Answered(ResultsFor(calls, found), found)
  <1> DEFINE firsts == {i \in DOMAIN calls : calls[i] \in found /\ \A j \in 1..i - 1 : calls[j] # calls[i]}
             a == InOrder(calls, firsts)
             R == ResultsFor(calls, found)
             n == Cardinality(firsts)
  <1>1. R = [k \in 1..Len(a) |-> ToolResult(a[k])]
    BY Zenon DEF ResultsFor
  <1>2. firsts \in SUBSET (1 .. Len(calls)) /\ DOMAIN calls = 1 .. Len(calls) /\ Len(calls) \in Nat
    OBVIOUS
  <1> HIDE DEF firsts, a, R, n
  <1>3. /\ a \in Seq(C) /\ Len(a) = n /\ n \in Nat
        /\ \E g : Lists(g, firsts, n) /\ \A i \in 1 .. n : a[i] = calls[g[i]]
    BY <1>2, Filtered, Zenon DEF a, n
  <1>4. PICK g : Lists(g, firsts, n) /\ \A i \in 1 .. n : a[i] = calls[g[i]]
    BY <1>3, Zenon
  <1>5. /\ \A i \in 1 .. n : g[i] \in firsts
        /\ \A i, j \in 1 .. n : i < j => g[i] < g[j]
        /\ \A k \in firsts : \E i \in 1 .. n : g[i] = k
    BY <1>4, Zenon DEF Lists
  <1>6. \A i \in 1 .. n : a[i] \in found
    BY <1>4, <1>5, Zenon DEF firsts
  <1>7. \A i, j \in 1 .. n : i < j => a[i] # a[j]
    <2> SUFFICES ASSUME NEW i \in 1 .. n, NEW j \in 1 .. n, i < j PROVE a[i] # a[j]
      BY Zenon
    <2>1. g[i] < g[j] /\ g[i] \in firsts /\ g[j] \in firsts
      BY <1>5, Zenon
    <2>4. g[i] \in 1 .. Len(calls) /\ g[j] \in 1 .. Len(calls) /\ Len(calls) \in Nat /\ g[i] < g[j]
      BY <1>2, <2>1, Zenon
    <2>2. g[i] \in 1 .. g[j] - 1
      BY <2>4
    <2>3. calls[g[i]] # calls[g[j]]
      BY <2>1, <2>2, Zenon DEF firsts
    <2> QED BY <1>4, <2>3, Zenon
  <1>8. \A id \in found : \E i \in 1 .. n : a[i] = id
    <2> SUFFICES ASSUME NEW id \in found PROVE \E i \in 1 .. n : a[i] = id
      BY Zenon
    <2> DEFINE T == {k \in Nat : k \in DOMAIN calls /\ calls[k] = id}
    <2>1. T # {}
      <3>1. PICK k \in DOMAIN calls : calls[k] = id
        BY Zenon DEF Range
      <3>2. k \in Nat
        BY <1>2
      <3> QED BY <3>1, <3>2, Zenon
    <2>2. PICK k \in T : \A j \in T : k <= j
      BY <2>1, LeastNat, Zenon
    <2>3. k \in DOMAIN calls /\ k \in Nat /\ calls[k] = id
      BY Zenon
    <2>4. \A j \in 1 .. k - 1 : j \in DOMAIN calls /\ j \in Nat /\ ~ (k <= j)
      BY <1>2, <2>3
    <2>5. \A j \in 1 .. k - 1 : calls[j] # calls[k]
      BY <2>2, <2>3, <2>4, Zenon
    <2>6. k \in firsts
      BY <2>3, <2>5, Zenon DEF firsts
    <2> QED BY <1>4, <1>5, <2>3, <2>6, ZenonT(60)
  <1>9. IsFiniteSet(found) /\ Cardinality(found) = n
    <2> DEFINE f == [i \in 1 .. n |-> a[i]]
    <2>1. f \in [1 .. n -> found] /\ \A i \in 1 .. n : f[i] = a[i]
      BY <1>6
    <2>2. \A i, j \in 1 .. n : i # j => i < j \/ j < i
      OBVIOUS
    <2>3. \A i, j \in 1 .. n : i # j => f[i] # f[j]
      BY <1>7, <2>1, <2>2, Zenon
    <2>4. \A id \in found : \E i \in 1 .. n : f[i] = id
      BY <1>8, <2>1, Zenon
    <2> HIDE DEF f
    <2>5. f \in Injection(1 .. n, found)
      <3>1. DOMAIN f = 1 .. n
        BY <2>1, Zenon
      <3> QED BY <2>1, <2>3, <3>1, Zenon DEF Injection, IsInjective
    <2>6. f \in Surjection(1 .. n, found)
      BY <2>1, <2>4, Zenon DEF Surjection
    <2>7. ExistsBijection(1 .. n, found)
      BY <2>5, <2>6, Zenon DEF Bijection, ExistsBijection
    <2>8. Cardinality(found) = n
      BY <1>3, <2>7, FS_CountingElements, Zenon
    <2>9. IsFiniteSet(1 .. n)
      BY <1>3, FS_Interval
    <2> QED BY <2>7, <2>8, <2>9, FS_Bijection, Zenon
  <1>10. DOMAIN R = 1 .. n /\ Len(R) = n /\ \A k \in 1 .. n : R[k] = ToolResult(a[k])
    <2>1. R = [k \in 1 .. n |-> ToolResult(a[k])]
      BY <1>1, <1>3, Zenon
    <2> HIDE DEF R
    <2>2. DOMAIN R = 1 .. n /\ \A k \in 1 .. n : R[k] = ToolResult(a[k])
      BY <2>1, Zenon
    <2>3. Len([k \in 1 .. n |-> ToolResult(a[k])]) = n
      BY <1>3
    <2> QED BY <2>1, <2>2, <2>3, Zenon
  <1>11. \A k \in 1 .. n : R[k].id = a[k]
    BY <1>10, ResultKind, Zenon
  <1>12. \A k \in 1 .. n : R[k].id \in found /\ R[k] = ToolResult(R[k].id)
    BY <1>6, <1>10, <1>11, Zenon
  <1>13. \A id \in found : \E k \in 1 .. n : R[k].id = id
    BY <1>8, <1>11, Zenon
  <1>14. \A j, k \in 1 .. n : R[j].id = R[k].id => j = k
    <2>1. \A i, j \in 1 .. n : i # j => i < j \/ j < i
      OBVIOUS
    <2> QED BY <1>7, <1>11, <2>1, Zenon
  <1>15. R = [k \in 1 .. n |-> R[k]]
    BY <1>1, <1>3
  <1>16. R = [k \in 1 .. Len(R) |-> R[k]]
    BY <1>10, <1>15, Zenon
  <1>17. Answered(R, found)
    BY <1>3, <1>9, <1>10, <1>12, <1>13, <1>14, <1>16, Zenon DEF Answered
  <1> QED BY <1>17, Zenon DEF R

Glue(o, m, P, T) == o \o <<m>> \o P \o T

\* z is o, the message m, P and T, one after the other.
Parts(z, o, m, P, T) ==
  /\ Len(z) = Len(o) + 1 + Len(P) + Len(T)
  /\ \A k \in 1 .. Len(o) : z[k] = o[k]
  /\ z[Len(o) + 1] = m
  /\ \A k \in 1 .. Len(P) : z[Len(o) + 1 + k] = P[k]
  /\ \A k \in 1 .. Len(T) : z[Len(o) + 1 + Len(P) + k] = T[k]

LEMMA Glued ==
  ASSUME NEW o \in Seq(Msgs), NEW m \in Msgs, NEW P \in Seq(Msgs), NEW T \in Seq(Msgs)
  PROVE  Glue(o, m, P, T) \in Seq(Msgs) /\ Parts(Glue(o, m, P, T), o, m, P, T)
  <1> DEFINE a == o \o <<m>>
             b == a \o P
             c == b \o T
  <1>1. <<m>> \in Seq(Msgs) /\ Len(<<m>>) = 1 /\ <<m>>[1] = m
    OBVIOUS
  <1>0. Len(o) \in Nat /\ Len(P) \in Nat /\ Len(T) \in Nat
    OBVIOUS
  <1>2. /\ a \in Seq(Msgs) /\ Len(a) = Len(o) + Len(<<m>>)
        /\ \A i \in 1 .. Len(o) : a[i] = o[i]
        /\ \A i \in 1 .. Len(<<m>>) : a[Len(o) + i] = <<m>>[i]
    BY <1>1, Joined
  <1>3. Len(a) = Len(o) + 1 /\ a[Len(o) + 1] = m
    BY <1>0, <1>1, <1>2
  <1> HIDE DEF a
  <1>4. /\ b \in Seq(Msgs) /\ Len(b) = Len(a) + Len(P)
        /\ \A i \in 1 .. Len(a) : b[i] = a[i]
        /\ \A i \in 1 .. Len(P) : b[Len(a) + i] = P[i]
    <2>1. a \in Seq(Msgs) /\ P \in Seq(Msgs)
      BY <1>2, Zenon
    <2> QED BY ONLY <2>1, Joined
  <1> HIDE DEF b
  <1>5. /\ c \in Seq(Msgs) /\ Len(c) = Len(b) + Len(T)
        /\ \A i \in 1 .. Len(b) : c[i] = b[i]
        /\ \A i \in 1 .. Len(T) : c[Len(b) + i] = T[i]
    <2>1. b \in Seq(Msgs) /\ T \in Seq(Msgs)
      BY <1>4, Zenon
    <2> QED BY ONLY <2>1, Joined
  <1> HIDE DEF c
  <1>6. /\ \A k \in 1 .. Len(o) : k \in 1 .. Len(a) /\ k \in 1 .. Len(b)
        /\ Len(o) + 1 \in 1 .. Len(a) /\ Len(o) + 1 \in 1 .. Len(b)
        /\ \A k \in 1 .. Len(P) : Len(a) + k \in 1 .. Len(b)
        /\ Len(b) = Len(o) + 1 + Len(P) /\ Len(c) = Len(o) + 1 + Len(P) + Len(T)
    BY <1>0, <1>3, <1>4, <1>5
  <1>7. \A k \in 1 .. Len(o) : c[k] = o[k]
    BY <1>2, <1>4, <1>5, <1>6, Zenon
  <1>8. c[Len(o) + 1] = m
    BY <1>3, <1>4, <1>5, <1>6, Zenon
  <1>9. \A k \in 1 .. Len(P) : c[Len(o) + 1 + k] = P[k]
    <2>1. \A k \in 1 .. Len(P) : c[Len(a) + k] = P[k]
      BY <1>4, <1>5, <1>6, Zenon
    <2> QED BY <1>3, <2>1, Zenon
  <1>10. \A k \in 1 .. Len(T) : c[Len(o) + 1 + Len(P) + k] = T[k]
    BY <1>5, <1>6, Zenon
  <1>11. c = Glue(o, m, P, T)
    BY Zenon DEF Glue, a, b, c
  <1>12. Parts(c, o, m, P, T)
    BY <1>6, <1>7, <1>8, <1>9, <1>10, Zenon DEF Parts
  <1> QED BY <1>5, <1>11, <1>12, Zenon

Accs == [out : Seq(Msgs), seen : SUBSET Ids, changed : BOOLEAN]
Found(acc, ms, i) == (ResultIds(ms, i) \cap Range(CallsOf(ms[i]))) \ acc.seen
Pushed(acc, ms, i) == ResultsFor(CallsOf(ms[i]), Found(acc, ms, i))

LEMMA CallsTyped ==
  ASSUME NEW m \in Msgs, IsAssistant(m)
  PROVE  /\ CallsOf(m) \in Seq(Ids \cup {Bad})
         /\ \A id \in Range(CallsOf(m)) : m.stop = "stop" /\ id \in Range(m.calls)
  <1>1. m.stop \in Stops /\ m.calls \in Seq(Ids \cup {Bad})
    BY Kinds, Zenon
  <1>2. CASE m.stop \in {"error", "aborted"}
    <2>1. CallsOf(m) = <<>>
      BY <1>2, Zenon DEF CallsOf
    <2>2. <<>> \in Seq(Ids \cup {Bad}) /\ DOMAIN <<>> = {}
      OBVIOUS
    <2> QED BY <2>1, <2>2, Zenon DEF Range
  <1>3. CASE m.stop \notin {"error", "aborted"}
    <2>1. CallsOf(m) = m.calls
      BY <1>3, Zenon DEF CallsOf
    <2>2. m.stop = "stop"
      BY <1>1, <1>3, Zenon DEF Stops
    <2> QED BY <1>1, <2>1, <2>2, Zenon
  <1> QED BY <1>2, <1>3, Zenon

\* The ids a span has results for, and what a round pushes of them.
LEMMA FoundTyped ==
  ASSUME NEW ms \in Seq(Msgs), NEW i \in 1 .. Len(ms), IsAssistant(ms[i]), NEW acc \in Accs
  PROVE  /\ ResultIds(ms, i) \subseteq Ids
         /\ Found(acc, ms, i) \subseteq Ids /\ Found(acc, ms, i) \subseteq Range(CallsOf(ms[i]))
         /\ Found(acc, ms, i) \subseteq ResultIds(ms, i) /\ Found(acc, ms, i) \cap acc.seen = {}
         /\ Pushed(acc, ms, i) \in Seq(Msgs) /\ Answered(Pushed(acc, ms, i), Found(acc, ms, i))
         /\ Len(Pushed(acc, ms, i)) = Cardinality(Found(acc, ms, i))
         /\ \A k \in 1 .. Len(Pushed(acc, ms, i)) :
               /\ IsResult(Pushed(acc, ms, i)[k]) /\ Pushed(acc, ms, i)[k].id \in Found(acc, ms, i)
         /\ \A id \in Found(acc, ms, i) : \E k \in 1 .. Len(Pushed(acc, ms, i)) : Pushed(acc, ms, i)[k].id = id
  <1> DEFINE F == Found(acc, ms, i)
             P == Pushed(acc, ms, i)
             C == CallsOf(ms[i])
  <1>0. ms[i] \in Msgs
    OBVIOUS
  <1>1. C \in Seq(Ids \cup {Bad})
    BY <1>0, CallsTyped, Zenon
  <1>2. ResultIds(ms, i) \subseteq Ids
    <2>1. \A j \in Span(ms, i) : ms[j] \in Msgs
      BY DEF Span
    <2>2. \A j \in Span(ms, i) : IsResult(ms[j]) => ms[j].id \in Ids
      BY <2>1, Kinds, Zenon
    <2> QED BY <2>2, Zenon DEF ResultIds
  <1>3. F \subseteq Ids /\ F \subseteq Range(C) /\ F \subseteq ResultIds(ms, i) /\ F \cap acc.seen = {}
    BY <1>2, Zenon DEF Found
  <1> HIDE DEF F, P, C
  <1>4. P = ResultsFor(C, F)
    BY Zenon DEF P, C, F, Pushed
  <1>5. F \in SUBSET Range(C)
    BY <1>3, Zenon
  <1>6. Answered(P, F)
    BY <1>1, <1>4, <1>5, Answers, Zenon
  <1>7. /\ Len(P) = Cardinality(F) /\ Len(P) \in Nat /\ P = [k \in 1 .. Len(P) |-> P[k]]
        /\ \A k \in 1 .. Len(P) : P[k].id \in F /\ P[k] = ToolResult(P[k].id)
        /\ \A id \in F : \E k \in 1 .. Len(P) : P[k].id = id
    BY <1>6, Zenon DEF Answered
  <1>8. \A k \in 1 .. Len(P) : P[k] \in Msgs /\ IsResult(P[k])
    BY <1>3, <1>7, ResultKind, Zenon
  <1>9. P \in Seq(Msgs)
    BY <1>7, <1>8
  <1> QED BY <1>2, <1>3, <1>6, <1>7, <1>8, <1>9, Zenon DEF F, P, C

\* T has what is no result of the messages after i, up to e, in order.
RestOf(T, ms, i, e) ==
  \E g : /\ Lists(g, {j \in i + 1 .. e : ~ IsResult(ms[j])}, Len(T))
         /\ \A k \in 1 .. Len(T) : T[k] = ms[g[k]]

\* What a span holds: its results and the remainder.
LEMMA SpanHolds ==
  ASSUME NEW ms \in Seq(Msgs), NEW i \in 1 .. Len(ms), IsAssistant(ms[i]),
         NEW e \in i .. Len(ms), Span(ms, i) = i + 1 .. e
  PROVE  /\ Remainder(ms, i) \in Seq(Msgs)
         /\ \A k \in 1 .. Len(Remainder(ms, i)) :
               ~ IsAssistant(Remainder(ms, i)[k]) /\ ~ IsResult(Remainder(ms, i)[k])
         /\ Remainder(ms, i) = <<>> => \A j \in i + 1 .. e : IsResult(ms[j])
         /\ IsFiniteSet(ResultIds(ms, i)) /\ Cardinality(ResultIds(ms, i)) \in Nat
         /\ Cardinality(ResultIds(ms, i)) + Len(Remainder(ms, i)) <= e - i
         /\ (\A j, k \in i + 1 .. e : IsResult(ms[j]) /\ IsResult(ms[k]) /\ ms[j].id = ms[k].id => j = k)
            => Cardinality(ResultIds(ms, i)) + Len(Remainder(ms, i)) = e - i
         /\ RestOf(Remainder(ms, i), ms, i, e)
  <1> DEFINE A == {j \in i + 1 .. e : IsResult(ms[j])}
             B == {j \in i + 1 .. e : ~ IsResult(ms[j])}
             T == Remainder(ms, i)
             R == ResultIds(ms, i)
             f == [j \in A |-> ms[j].id]
  <1>1. T = InOrder(ms, B) /\ R = {ms[j].id : j \in A}
    BY Zenon DEF Remainder, ResultIds
  <1>2. B \in SUBSET (1 .. Len(ms))
    OBVIOUS
  <1>3. IsFiniteSet(i + 1 .. e) /\ Cardinality(i + 1 .. e) = e - i
    BY FS_Interval
  <1>4. A \in SUBSET (i + 1 .. e) /\ B \in SUBSET (i + 1 .. e) /\ A \cup B = i + 1 .. e /\ A \cap B = {}
    OBVIOUS
  <1>5. \A j \in i + 1 .. e : ~ IsAssistant(ms[j])
    <2>1. \A j \in i + 1 .. e : j \in i + 1 .. j
      OBVIOUS
    <2> QED BY <2>1, Zenon DEF Span
  <1>6. R = {f[j] : j \in A}
    BY <1>1, Zenon
  <1>15. DOMAIN f = A /\ \A j \in A : f[j] = ms[j].id /\ j \in i + 1 .. e /\ IsResult(ms[j])
    BY Zenon
  <1>16. f = [j \in A |-> f[j]]
    OBVIOUS
  <1>17. \A j \in B : j \in i + 1 .. e /\ ~ IsResult(ms[j])
    BY Zenon
  <1>18. B = {} => \A j \in i + 1 .. e : IsResult(ms[j])
    BY Zenon
  <1> HIDE DEF A, B, T, R, f
  <1>7. IsFiniteSet(A) /\ IsFiniteSet(B) /\ Cardinality(A) \in Nat /\ Cardinality(B) \in Nat
    BY <1>3, <1>4, FS_Subset, FS_CardinalityType, Zenon
  <1>8. Cardinality(A) + Cardinality(B) = e - i
    <2>1. Cardinality(A \cup B) = Cardinality(A) + Cardinality(B) - Cardinality(A \cap B)
      BY <1>7, FS_Union, Zenon
    <2>2. Cardinality(A \cap B) = 0
      BY <1>4, FS_EmptySet, Zenon
    <2>3. Cardinality(A \cup B) = e - i
      BY <1>3, <1>4, Zenon
    <2> QED BY <1>7, <2>1, <2>2, <2>3
  <1>9. /\ T \in Seq(Msgs) /\ Len(T) = Cardinality(B)
        /\ \E g : Lists(g, B, Cardinality(B)) /\ \A k \in 1 .. Cardinality(B) : T[k] = ms[g[k]]
    <2>1. /\ InOrder(ms, B) \in Seq(Msgs)
          /\ Len(InOrder(ms, B)) = Cardinality(B) /\ Cardinality(B) \in Nat
          /\ \E g : /\ Lists(g, B, Cardinality(B))
                    /\ \A k \in 1 .. Cardinality(B) : InOrder(ms, B)[k] = ms[g[k]]
      BY <1>2, Filtered, Zenon
    <2> QED BY <1>1, <2>1, Zenon
  <1>10. PICK g : Lists(g, B, Len(T)) /\ \A k \in 1 .. Len(T) : T[k] = ms[g[k]]
    BY <1>9, Zenon
  <1>11. \A k \in 1 .. Len(T) : ~ IsAssistant(T[k]) /\ ~ IsResult(T[k])
    <2>1. \A k \in 1 .. Len(T) : g[k] \in B
      BY <1>10, Zenon DEF Lists
    <2> QED BY <1>5, <1>10, <1>17, <2>1, Zenon
  <1>12. f \in Surjection(A, R)
    <2>1. f \in [A -> R]
      BY <1>6, <1>16, Zenon
    <2> QED BY <1>6, <2>1, Zenon DEF Surjection
  <1>13. /\ IsFiniteSet(R) /\ Cardinality(R) <= Cardinality(A) /\ Cardinality(R) \in Nat
         /\ Cardinality(R) = Cardinality(A) <=> f \in Injection(A, R)
    BY <1>7, <1>12, FS_Surjection, FS_CardinalityType, Zenon
  <1>14. T = <<>> => B = {}
    <2>1. T = <<>> => Len(T) = 0
      OBVIOUS
    <2> QED BY <1>7, <1>9, <2>1, FS_EmptySet, Zenon
  <1>19. Cardinality(R) + Len(T) <= e - i
    BY <1>7, <1>8, <1>9, <1>13
  <1>20. ASSUME \A j, k \in i + 1 .. e : IsResult(ms[j]) /\ IsResult(ms[k]) /\ ms[j].id = ms[k].id => j = k
         PROVE  Cardinality(R) + Len(T) = e - i
    <2>1. f \in Injection(A, R)
      <3>1. f \in [A -> R]
        BY <1>12, Zenon DEF Surjection
      <3>2. \A j, k \in A : f[j] = f[k] => j = k
        BY <1>15, <1>20, Zenon
      <3> QED BY <1>15, <3>1, <3>2, Zenon DEF Injection, IsInjective
    <2> QED BY <1>7, <1>8, <1>9, <1>13, <2>1
  <1>21. \E h : Lists(h, B, Len(T)) /\ \A k \in 1 .. Len(T) : T[k] = ms[h[k]]
    BY <1>10, Zenon
  <1>22. T = <<>> => \A j \in i + 1 .. e : IsResult(ms[j])
    BY <1>14, <1>18, Zenon
  <1>23. RestOf(T, ms, i, e)
    BY <1>21, Zenon DEF RestOf, B
  <1> QED BY <1>9, <1>11, <1>13, <1>19, <1>20, <1>22, <1>23, Zenon DEF T, R

\* A round for an assistant message.
LEMMA SpanRound ==
  ASSUME NEW ms \in Seq(Msgs), NEW i \in 1 .. Len(ms), IsAssistant(ms[i]),
         NEW e \in i .. Len(ms), Span(ms, i) = i + 1 .. e, NEW acc \in Accs
  PROVE  /\ RepairSpan(acc, ms, i) \in Accs
         /\ RepairSpan(acc, ms, i).out = Glue(acc.out, ms[i], Pushed(acc, ms, i), Remainder(ms, i))
         /\ RepairSpan(acc, ms, i).seen = acc.seen \cup Found(acc, ms, i)
         /\ ~ RepairSpan(acc, ms, i).changed =>
               /\ ~ acc.changed /\ ResultIds(ms, i) = Found(acc, ms, i)
               /\ Found(acc, ms, i) = {} \/ Remainder(ms, i) = <<>>
         /\ Len(RepairSpan(acc, ms, i).out) =
               Len(acc.out) + 1 + Cardinality(Found(acc, ms, i)) + Len(Remainder(ms, i))
         /\ Len(acc.out) \in Nat
         /\ Len(RepairSpan(acc, ms, i).out) <= Len(acc.out) + 1 + (e - i)
  <1> DEFINE F == Found(acc, ms, i)
             P == Pushed(acc, ms, i)
             T == Remainder(ms, i)
             R == ResultIds(ms, i)
             C == CallsOf(ms[i])
             r == RepairSpan(acc, ms, i)
             o == Glue(acc.out, ms[i], P, T)
             twice == \E c, d \in DOMAIN C : c # d /\ C[c] = C[d] /\ C[c] \in F
             ch == acc.changed \/ R # F \/ (F # {} /\ T # <<>>) \/ twice
  <1>1. r = [out |-> o, seen |-> acc.seen \cup F, changed |-> ch]
    BY Zenon DEF RepairSpan, Glue, Pushed, Found
  <1>2. acc.out \in Seq(Msgs) /\ acc.seen \in SUBSET Ids /\ acc.changed \in BOOLEAN
    BY Zenon DEF Accs
  <1>3. ms[i] \in Msgs
    OBVIOUS
  <1> HIDE DEF F, P, T, R, C, r, o, twice
  <1>4. F \subseteq Ids /\ F \subseteq R /\ P \in Seq(Msgs) /\ Len(P) = Cardinality(F)
    BY FoundTyped, Zenon DEF F, P, R
  <1>5. /\ T \in Seq(Msgs) /\ IsFiniteSet(R) /\ Cardinality(R) \in Nat
        /\ Cardinality(R) + Len(T) <= e - i
    BY SpanHolds, Zenon DEF T, R
  <1>6. o \in Seq(Msgs) /\ Len(o) = Len(acc.out) + 1 + Len(P) + Len(T)
    <2>1. acc.out \in Seq(Msgs) /\ ms[i] \in Msgs /\ P \in Seq(Msgs) /\ T \in Seq(Msgs)
      BY <1>2, <1>3, <1>4, <1>5, Zenon
    <2>2. /\ Glue(acc.out, ms[i], P, T) \in Seq(Msgs)
          /\ Parts(Glue(acc.out, ms[i], P, T), acc.out, ms[i], P, T)
      BY ONLY <2>1, Glued, Zenon
    <2> QED BY <2>2, Zenon DEF o, Parts
  <1>7. Cardinality(F) <= Cardinality(R)
    BY <1>4, <1>5, FS_Subset, Zenon
  <1>8. Len(acc.out) \in Nat /\ Len(P) \in Nat /\ Len(T) \in Nat
    BY <1>2, <1>4, <1>5, Lengths, Zenon
  <1>9. Len(o) <= Len(acc.out) + 1 + (e - i)
    <2>1. /\ Len(P) <= Cardinality(R) /\ Cardinality(R) + Len(T) <= e - i /\ Cardinality(R) \in Nat
          /\ Len(o) = Len(acc.out) + 1 + Len(P) + Len(T)
      BY <1>4, <1>5, <1>6, <1>7, Zenon
    <2>2. e \in Int /\ i \in Int
      OBVIOUS
    <2> QED BY ONLY <1>8, <2>1, <2>2
  <1>10. ch \in BOOLEAN /\ (~ ch => ~ acc.changed /\ R = F /\ (F = {} \/ T = <<>>))
    BY Zenon
  <1> HIDE DEF ch
  <1>11. r.out = o /\ r.seen = acc.seen \cup F /\ r.changed = ch
    BY <1>1, Zenon
  <1>12. r \in Accs
    <2>1. acc.seen \cup F \in SUBSET Ids
      BY <1>2, <1>4, Zenon
    <2> QED BY <1>1, <1>6, <1>10, <2>1 DEF Accs
  <1>13. ~ r.changed => ~ acc.changed /\ R = F /\ (F = {} \/ T = <<>>)
    BY <1>10, <1>11, Zenon
  <1>14. Len(r.out) = Len(acc.out) + 1 + Cardinality(F) + Len(T) /\ Len(r.out) <= Len(acc.out) + 1 + (e - i)
    BY <1>4, <1>6, <1>9, <1>11, Zenon
  <1>15. r.out = Glue(acc.out, ms[i], P, T)
    BY <1>11, Zenon DEF o
  <1> QED BY <1>8, <1>11, <1>12, <1>13, <1>14, <1>15, Zenon DEF r, F, P, T, R

\* The results behind the assistant message at q are those of its calls, in
\* their order, and nothing comes between.
Ordered(z, q) ==
  LET pushed == ResultsFor(CallsOf(z[q]), ResultIds(z, q))
  IN  /\ ResultIds(z, q) \subseteq Range(CallsOf(z[q]))
      /\ q + Len(pushed) <= Len(z)
      /\ \A k \in 1 .. Len(pushed) : z[q + k] = pushed[k]
      /\ \A j \in Span(z, q) : IsResult(z[j]) => j <= q + Len(pushed)

\* What the repair leaves as it is, apart from what it counts as a change.
Settled(z) ==
  /\ \A k \in 1 .. Len(z) : IsResult(z[k]) => \E h \in 1 .. k : IsAssistant(z[h])
  /\ \A q \in 1 .. Len(z) : IsAssistant(z[q]) => Ordered(z, q)
  /\ \A p, q \in 1 .. Len(z) : IsAssistant(z[p]) /\ IsAssistant(z[q]) /\ p # q
        => ResultIds(z, p) \cap ResultIds(z, q) = {}

IdsOf(z) == {z[k].id : k \in {k \in 1 .. Len(z) : IsResult(z[k])}}

\* An assistant message ends the spans before it.
LEMMA SpanStays ==
  ASSUME NEW o \in Seq(Msgs), NEW z \in Seq(Msgs), Len(o) < Len(z), IsAssistant(z[Len(o) + 1]),
         \A k \in 1 .. Len(o) : z[k] = o[k], NEW q \in 1 .. Len(o)
  PROVE  Span(z, q) = Span(o, q) /\ ResultIds(z, q) = ResultIds(o, q)
  <1>1. Len(o) \in Nat /\ Len(z) \in Nat
    OBVIOUS
  <1>2. \A j \in q + 1 .. Len(z) : j \in q + 1 .. Len(o) \/ Len(o) + 1 \in q + 1 .. j
    BY <1>1
  <1>3. \A j \in q + 1 .. Len(o) : j \in 1 .. Len(o) /\ j \in q + 1 .. Len(z) /\ \A k \in q + 1 .. j : k \in 1 .. Len(o)
    BY <1>1
  <1>4. \A j : j \in Span(z, q) <=> j \in Span(o, q)
    <2>1. ASSUME NEW j \in Span(z, q) PROVE j \in Span(o, q)
      <3>1. j \in q + 1 .. Len(z) /\ \A k \in q + 1 .. j : ~ IsAssistant(z[k])
        BY <2>1, Zenon DEF Span
      <3>2. j \in q + 1 .. Len(o)
        BY <1>2, <3>1, Zenon
      <3>3. \A k \in q + 1 .. j : ~ IsAssistant(o[k])
        BY <1>3, <3>1, <3>2, Zenon
      <3> QED BY <3>2, <3>3, Zenon DEF Span
    <2>2. ASSUME NEW j \in Span(o, q) PROVE j \in Span(z, q)
      <3>1. j \in q + 1 .. Len(o) /\ \A k \in q + 1 .. j : ~ IsAssistant(o[k])
        BY <2>2, Zenon DEF Span
      <3>2. j \in q + 1 .. Len(z) /\ \A k \in q + 1 .. j : ~ IsAssistant(z[k])
        BY <1>3, <3>1, Zenon
      <3> QED BY <3>2, Zenon DEF Span
    <2> QED BY <2>1, <2>2, Zenon
  <1>5. Span(z, q) = Span(o, q)
    BY <1>4, Zenon
  <1>6. \A j \in Span(o, q) : z[j] = o[j]
    BY <1>3, Zenon DEF Span
  <1> QED BY <1>5, <1>6, Zenon DEF ResultIds

\* z ends with an assistant message after o, its results P for the ids F, and
\* messages of other kinds.
EndsWith(z, o, P, F) ==
  /\ Len(o) + 1 \in 1 .. Len(z) /\ Len(o) < Len(z) /\ IsAssistant(z[Len(o) + 1])
  /\ Span(z, Len(o) + 1) = Len(o) + 2 .. Len(z)
  /\ ResultIds(z, Len(o) + 1) = F
  /\ \A j \in Len(o) + 2 .. Len(z) : IsResult(z[j]) <=> j <= Len(o) + 1 + Len(P)
  /\ \A q \in 1 .. Len(z) : q \in 1 .. Len(o) \/ q = Len(o) + 1 \/ q \in Len(o) + 2 .. Len(z)
  /\ \A q \in Len(o) + 2 .. Len(z) : ~ IsAssistant(z[q])

\* A position behind two parts, counted from where they end.
LEMMA BehindBoth ==
  ASSUME NEW n \in Nat, NEW p \in Nat, NEW t \in Nat, NEW j \in n + 2 .. n + 1 + p + t,
         ~ (j <= n + 1 + p)
  PROVE  j - n - 1 - p \in 1 .. t /\ n + 1 + p + (j - n - 1 - p) = j
  OBVIOUS

\* The last part of what a round makes: the assistant message, its results and
\* the remainder.
LEMMA LastSpan ==
  ASSUME NEW o \in Seq(Msgs), NEW m \in Msgs, IsAssistant(m), NEW P \in Seq(Msgs), NEW T \in Seq(Msgs),
         NEW z \in Seq(Msgs), Parts(z, o, m, P, T), NEW F, Answered(P, F),
         \A k \in 1 .. Len(T) : ~ IsAssistant(T[k]) /\ ~ IsResult(T[k])
  PROVE  EndsWith(z, o, P, F)
  <1> DEFINE n == Len(o)
             p == Len(P)
  <1>1. n \in Nat /\ p \in Nat /\ Len(T) \in Nat /\ Len(z) \in Nat
    OBVIOUS
  <1>2. /\ Len(z) = n + 1 + p + Len(T)
        /\ z[n + 1] = m
        /\ \A k \in 1 .. p : z[n + 1 + k] = P[k]
        /\ \A k \in 1 .. Len(T) : z[n + 1 + p + k] = T[k]
    BY Zenon DEF Parts
  <1>3. /\ \A k \in 1 .. p : P[k].id \in F /\ P[k] = ToolResult(P[k].id)
        /\ \A id \in F : \E k \in 1 .. p : P[k].id = id
    BY Zenon DEF Answered
  <1>4. \A k \in 1 .. p : IsResult(P[k]) /\ ~ IsAssistant(P[k])
    <2>1. \A k \in 1 .. p : P[k] \in Msgs
      OBVIOUS
    <2>2. ASSUME NEW k \in 1 .. p PROVE IsResult(P[k])
      <3>1. P[k] = ToolResult(P[k].id)
        BY <1>3, Zenon
      <3>2. IsResult(ToolResult(P[k].id))
        BY ResultKind, Zenon
      <3> QED BY ONLY <3>1, <3>2, Zenon
    <2> QED BY <2>1, <2>2, Kinds, Zenon
  <1> HIDE DEF n, p
  <1>5. ASSUME NEW j \in n + 2 .. Len(z)
        PROVE  \/ j <= n + 1 + p /\ \E k \in 1 .. p : j = n + 1 + k /\ z[j] = P[k]
               \/ ~ (j <= n + 1 + p) /\ \E k \in 1 .. Len(T) : z[j] = T[k]
    <2>1. CASE j <= n + 1 + p
      <3>1. j - n - 1 \in 1 .. p /\ n + 1 + (j - n - 1) = j
        BY <1>1, <2>1
      <3> QED BY <1>2, <2>1, <3>1, Zenon
    <2>2. CASE ~ (j <= n + 1 + p)
      <3>1. j \in n + 2 .. n + 1 + p + Len(T)
        BY <1>2, Zenon
      <3>2. j - n - 1 - p \in 1 .. Len(T) /\ n + 1 + p + (j - n - 1 - p) = j
        BY ONLY <1>1, <2>2, <3>1, BehindBoth, Zenon
      <3> QED BY <1>2, <2>2, <3>2, Zenon
    <2> QED BY <2>1, <2>2, Zenon
  <1>6. \A j \in n + 2 .. Len(z) : (IsResult(z[j]) <=> j <= n + 1 + p) /\ ~ IsAssistant(z[j])
    BY <1>4, <1>5, Zenon
  <1>7. n + 1 \in 1 .. Len(z) /\ n < Len(z) /\ n + 1 + 1 = n + 2
    BY <1>1, <1>2
  <1>8. \A q \in 1 .. Len(z) : q \in 1 .. n \/ q = n + 1 \/ q \in n + 2 .. Len(z)
    BY <1>1
  <1>9. Span(z, n + 1) = n + 2 .. Len(z)
    <2>1. \A j \in n + 2 .. Len(z) : \A k \in n + 2 .. j : k \in n + 2 .. Len(z)
      BY <1>1
    <2> QED BY <1>6, <1>7, <2>1, Zenon DEF Span
  <1>10. ResultIds(z, n + 1) = F
    <2>1. \A id \in ResultIds(z, n + 1) : id \in F
      <3> SUFFICES ASSUME NEW j \in n + 2 .. Len(z), IsResult(z[j]) PROVE z[j].id \in F
        BY <1>9, Zenon DEF ResultIds
      <3> QED BY <1>3, <1>5, <1>6, Zenon
    <2>2. \A id \in F : id \in ResultIds(z, n + 1)
      <3> SUFFICES ASSUME NEW id \in F PROVE id \in ResultIds(z, n + 1)
        BY Zenon
      <3>1. PICK k \in 1 .. p : P[k].id = id
        BY <1>3, Zenon
      <3>2. n + 1 + k \in n + 2 .. Len(z)
        BY <1>1, <1>2
      <3>3. z[n + 1 + k].id = id /\ IsResult(z[n + 1 + k])
        BY <1>2, <1>4, <3>1, Zenon
      <3> QED BY <1>9, <3>2, <3>3, Zenon DEF ResultIds
    <2> QED BY <2>1, <2>2, Zenon
  <1>11. IsAssistant(z[n + 1])
    BY <1>2, Zenon
  <1> QED BY <1>6, <1>7, <1>8, <1>9, <1>10, <1>11, Zenon DEF EndsWith, n, p

\* A round for m, which finds F, makes z of o.
Extends(z, o, m, F, P, T) ==
  /\ o \in Seq(Msgs) /\ Settled(o) /\ m \in Msgs /\ IsAssistant(m)
  /\ F \subseteq Range(CallsOf(m)) /\ F \cap IdsOf(o) = {}
  /\ P \in Seq(Msgs) /\ P = ResultsFor(CallsOf(m), F) /\ Answered(P, F)
  /\ T \in Seq(Msgs) /\ \A k \in 1 .. Len(T) : ~ IsAssistant(T[k]) /\ ~ IsResult(T[k])
  /\ z \in Seq(Msgs) /\ Parts(z, o, m, P, T)

\* A round keeps what is out in order, and adds the ids it pushed.
LEMMA SettledGrows ==
  ASSUME NEW z, NEW o, NEW m, NEW F, NEW P, NEW T, Extends(z, o, m, F, P, T)
  PROVE  Settled(z) /\ IdsOf(z) = IdsOf(o) \cup F
  <1> SUFFICES ASSUME o \in Seq(Msgs), Settled(o), m \in Msgs, IsAssistant(m),
                  F \subseteq Range(CallsOf(m)), F \cap IdsOf(o) = {},
                  P \in Seq(Msgs), P = ResultsFor(CallsOf(m), F), Answered(P, F),
                  T \in Seq(Msgs), \A k \in 1 .. Len(T) : ~ IsAssistant(T[k]) /\ ~ IsResult(T[k]),
                  z \in Seq(Msgs), Parts(z, o, m, P, T)
               PROVE  Settled(z) /\ IdsOf(z) = IdsOf(o) \cup F
    BY Zenon DEF Extends
  <1> DEFINE n == Len(o)
             q == n + 1
             p == Len(P)
  <1>1. n \in Nat /\ p \in Nat /\ Len(T) \in Nat /\ Len(z) \in Nat
    OBVIOUS
  <1>2. /\ q \in 1 .. Len(z) /\ n < Len(z) /\ IsAssistant(z[q])
        /\ Span(z, q) = n + 2 .. Len(z)
        /\ ResultIds(z, q) = F
        /\ \A j \in n + 2 .. Len(z) : IsResult(z[j]) <=> j <= q + p
        /\ \A k \in 1 .. Len(z) : k \in 1 .. n \/ k = q \/ k \in n + 2 .. Len(z)
        /\ \A k \in n + 2 .. Len(z) : ~ IsAssistant(z[k])
    <2>1. EndsWith(z, o, P, F)
      BY LastSpan, Zenon
    <2> QED BY <2>1, Zenon DEF EndsWith
  <1>3. /\ Len(z) = q + p + Len(T) /\ \A k \in 1 .. n : z[k] = o[k]
        /\ z[q] = m /\ \A k \in 1 .. p : z[q + k] = P[k]
    BY Zenon DEF Parts
  <1>4. \A k \in 1 .. n : Span(z, k) = Span(o, k) /\ ResultIds(z, k) = ResultIds(o, k)
    BY <1>2, <1>3, SpanStays, Zenon
  <1> HIDE DEF n, q, p
  <1>5. \A k \in 1 .. n : k \in 1 .. Len(z)
    BY <1>1, <1>2
  <1>6. ~ IsResult(z[q])
    <2>1. z[q] \in Msgs
      BY <1>2
    <2> QED BY <1>2, <2>1, Kinds, Zenon
  <1>7. \A k \in 1 .. Len(z) : IsResult(z[k]) => \E h \in 1 .. k : IsAssistant(z[h])
    <2> SUFFICES ASSUME NEW k \in 1 .. Len(z), IsResult(z[k]) PROVE \E h \in 1 .. k : IsAssistant(z[h])
      BY Zenon
    <2>1. CASE k \in 1 .. n
      <3>1. PICK h \in 1 .. k : IsAssistant(o[h])
        BY <1>3, <2>1, Zenon DEF Settled, n
      <3>2. h \in 1 .. n
        BY <1>1, <2>1
      <3> QED BY <1>3, <3>1, <3>2, Zenon
    <2>2. CASE k \in n + 2 .. Len(z)
      <3>1. q \in 1 .. k
        BY <1>1, <2>2 DEF q
      <3> QED BY <1>2, <3>1, Zenon
    <2> QED BY <1>2, <1>6, <2>1, <2>2, Zenon
  <1>8. \A k \in 1 .. n : IsAssistant(z[k]) => Ordered(z, k)
    <2> SUFFICES ASSUME NEW k \in 1 .. n, IsAssistant(z[k]) PROVE Ordered(z, k)
      BY Zenon
    <2> DEFINE R == ResultsFor(CallsOf(o[k]), ResultIds(o, k))
    <2>1. Ordered(o, k)
      BY <1>3, Zenon DEF Settled, n
    <2>2. /\ ResultIds(o, k) \subseteq Range(CallsOf(o[k]))
          /\ k + Len(R) <= n
          /\ \A c \in 1 .. Len(R) : o[k + c] = R[c]
          /\ \A j \in Span(o, k) : IsResult(o[j]) => j <= k + Len(R)
      BY <2>1, Zenon DEF Ordered, n
    <2>3. ResultsFor(CallsOf(z[k]), ResultIds(z, k)) = R /\ z[k] = o[k]
      BY <1>3, <1>4, Zenon
    <2> DEFINE C == CallsOf(o[k])
               I == ResultIds(o, k)
    <2>4. o[k] \in Msgs /\ IsAssistant(o[k])
      <3>1. o[k] \in Msgs
        BY DEF n
      <3> QED BY <1>3, <3>1, Zenon
    <2>5. Len(R) \in Nat
      <3>1. C \in Seq(Ids \cup {Bad})
        BY <2>4, CallsTyped, Zenon
      <3>2. I \in SUBSET Range(C)
        BY <2>2, Zenon
      <3> HIDE DEF C, I
      <3>3. Answered(ResultsFor(C, I), I)
        BY <3>1, <3>2, Answers, Zenon
      <3>4. Len(ResultsFor(C, I)) \in Nat
        BY <3>3, Zenon DEF Answered
      <3> QED BY <3>4, Zenon DEF C, I
    <2> HIDE DEF R
    <2>6. k + Len(R) <= Len(z) /\ \A c \in 1 .. Len(R) : k + c \in 1 .. n
      BY <1>1, <1>2, <2>2, <2>5
    <2>7. \A c \in 1 .. Len(R) : z[k + c] = R[c]
      BY <1>3, <2>2, <2>6, Zenon
    <2>8. \A j \in Span(o, k) : j \in 1 .. n
      BY <1>1 DEF Span, n
    <2>9. \A j \in Span(z, k) : IsResult(z[j]) => j <= k + Len(R)
      BY <1>3, <1>4, <2>2, <2>8, Zenon
    <2>10. ResultIds(z, k) \subseteq Range(CallsOf(z[k]))
      BY <1>4, <2>2, <2>3, Zenon
    <2> QED BY <2>3, <2>6, <2>7, <2>9, <2>10, Zenon DEF Ordered
  <1>9. Ordered(z, q)
    <2>1. ResultsFor(CallsOf(z[q]), ResultIds(z, q)) = P
      BY <1>2, <1>3, Zenon
    <2>2. q + Len(P) <= Len(z)
      BY <1>1, <1>3 DEF p, q
    <2>3. \A j \in Span(z, q) : IsResult(z[j]) => j <= q + Len(P)
      BY <1>2, Zenon DEF p
    <2>4. \A k \in 1 .. Len(P) : z[q + k] = P[k]
      BY <1>3, Zenon DEF p
    <2>5. ResultIds(z, q) \subseteq Range(CallsOf(z[q]))
      BY <1>2, <1>3, Zenon
    <2> QED BY <2>1, <2>2, <2>3, <2>4, <2>5, Zenon DEF Ordered
  <1>10. \A k \in 1 .. Len(z) : IsAssistant(z[k]) => k \in 1 .. n \/ k = q
    BY <1>2, Zenon
  <1>11. \A k \in 1 .. n : ResultIds(o, k) \subseteq IdsOf(o)
    <2>1. \A k \in 1 .. n : \A j \in Span(o, k) : j \in 1 .. Len(o)
      BY <1>1 DEF Span, n
    <2> QED BY <2>1, Zenon DEF ResultIds, IdsOf
  <1>12. ASSUME NEW a \in 1 .. Len(z), NEW b \in 1 .. Len(z), IsAssistant(z[a]), IsAssistant(z[b]), a # b
         PROVE  ResultIds(z, a) \cap ResultIds(z, b) = {}
    <2>1. CASE a \in 1 .. n /\ b \in 1 .. n
      BY <1>3, <1>4, <1>12, <2>1, Zenon DEF Settled, n
    <2>2. CASE a \in 1 .. n /\ b = q
      BY <1>2, <1>4, <1>11, <2>2, Zenon
    <2>3. CASE a = q /\ b \in 1 .. n
      BY <1>2, <1>4, <1>11, <2>3, Zenon
    <2> QED BY <1>10, <1>12, <2>1, <2>2, <2>3, Zenon
  <1>13. Settled(z)
    <2>1. \A k \in 1 .. Len(z) : IsAssistant(z[k]) => Ordered(z, k)
      BY <1>8, <1>9, <1>10, Zenon
    <2>2. \A a, b \in 1 .. Len(z) : IsAssistant(z[a]) /\ IsAssistant(z[b]) /\ a # b
             => ResultIds(z, a) \cap ResultIds(z, b) = {}
      BY <1>12, Zenon
    <2> QED BY <1>7, <2>1, <2>2, Zenon DEF Settled
  <1>14. \A id \in IdsOf(z) : id \in IdsOf(o) \cup F
    <2> SUFFICES ASSUME NEW k \in 1 .. Len(z), IsResult(z[k]) PROVE z[k].id \in IdsOf(o) \cup F
      BY Zenon DEF IdsOf
    <2>1. CASE k \in 1 .. n
      BY <1>3, <2>1, Zenon DEF IdsOf, n
    <2>2. CASE k \in n + 2 .. Len(z)
      BY <1>2, <2>2, Zenon DEF ResultIds
    <2> QED BY <1>2, <1>6, <2>1, <2>2, Zenon
  <1>15. \A id \in IdsOf(o) : id \in IdsOf(z)
    BY <1>3, <1>5, Zenon DEF IdsOf, n
  <1>16. \A id \in F : id \in IdsOf(z)
    <2>1. \A j \in n + 2 .. Len(z) : j \in 1 .. Len(z)
      BY <1>1
    <2> QED BY <1>2, <2>1, Zenon DEF IdsOf, ResultIds
  <1>17. IdsOf(z) = IdsOf(o) \cup F
    BY <1>14, <1>15, <1>16, Zenon
  <1> QED BY <1>13, <1>17, Zenon

\* Neither calls nor results.
Plain(z) == \A k \in 1 .. Len(z) : ~ IsAssistant(z[k]) /\ ~ IsResult(z[k])

LEMMA PlainSettled ==
  ASSUME NEW z, Plain(z) PROVE Settled(z) /\ IdsOf(z) = {}
  BY Zenon DEF Plain, Settled, IdsOf

\* What the rounds find no fault with, up to e.
Clean(ms, e) ==
  /\ \A k \in 1 .. e : IsResult(ms[k]) => \E h \in 1 .. k : IsAssistant(ms[h])
  /\ \A i \in 1 .. e : IsAssistant(ms[i]) =>
        /\ ResultIds(ms, i) \subseteq Range(CallsOf(ms[i]))
        /\ ResultIds(ms, i) = {} \/ Remainder(ms, i) = <<>>

\* What the rounds have made of the messages up to e.
Repaired(ms, acc, e) ==
  /\ acc \in Accs /\ Settled(acc.out) /\ acc.seen = IdsOf(acc.out)
  /\ NoHeads(ms, e) => Plain(acc.out)
  /\ Len(acc.out) <= e
  /\ ~ acc.changed => Clean(ms, e)
  /\ \A k \in 1 .. Len(acc.out) : IsAssistant(acc.out[k]) => \E j \in 1 .. e : acc.out[k] = ms[j]

\* What a round does for the message m before the first assistant.
EarlyStep(a, acc, m) ==
  /\ IsResult(m) => a = [acc EXCEPT !.changed = TRUE]
  /\ ~ IsResult(m) => a = [acc EXCEPT !.out = Append(acc.out, m)]

LEMMA EarlyRound ==
  ASSUME NEW ms \in Seq(Msgs), NEW i \in 1 .. Len(ms), NoHeads(ms, i), NEW acc
  PROVE  /\ NoHeads(ms, i - 1)
         /\ ms[i] \in Msgs /\ ~ IsAssistant(ms[i])
         /\ EarlyStep(RepairMessage(acc, ms, i), acc, ms[i])
  <1>1. Len(ms) \in Nat /\ ms[i] \in Msgs
    OBVIOUS
  <1>2. i \in 1 .. i /\ \A h \in 1 .. i - 1 : h \in 1 .. i
    BY <1>1
  <1>3. ~ IsAssistant(ms[i]) /\ \A h \in 1 .. i - 1 : ~ IsAssistant(ms[h])
    BY <1>2, Zenon DEF NoHeads
  <1> QED BY <1>1, <1>3, Zenon DEF NoHeads, EarlyStep, RepairMessage

LEMMA EarlyKeeps ==
  ASSUME NEW ms \in Seq(Msgs), NEW i \in 1 .. Len(ms), NoHeads(ms, i), NEW acc, Repaired(ms, acc, i - 1)
  PROVE  Repaired(ms, RepairMessage(acc, ms, i), i)
  <1> DEFINE a == RepairMessage(acc, ms, i)
  <1>1. NoHeads(ms, i - 1) /\ ms[i] \in Msgs /\ ~ IsAssistant(ms[i])
    BY EarlyRound, Zenon
  <1>2. /\ acc \in Accs /\ Settled(acc.out) /\ acc.seen = IdsOf(acc.out)
        /\ Plain(acc.out) /\ Len(acc.out) <= i - 1
        /\ ~ acc.changed => Clean(ms, i - 1)
    BY <1>1, Zenon DEF Repaired
  <1>3. acc.out \in Seq(Msgs) /\ acc.seen \in SUBSET Ids /\ acc.changed \in BOOLEAN
    BY <1>2, Zenon DEF Accs
  <1>4. i \in Nat /\ Len(acc.out) \in Nat
    BY <1>3
  <1>5. CASE IsResult(ms[i])
    <2>1. a = [acc EXCEPT !.changed = TRUE]
      <3>1. EarlyStep(a, acc, ms[i])
        BY EarlyRound, Zenon
      <3> QED BY ONLY <1>5, <3>1, SMT DEF EarlyStep
    <2>2. a \in Accs /\ a.out = acc.out /\ a.seen = acc.seen /\ a.changed
      BY ONLY <1>2, <1>3, <2>1, Zenon DEF Accs
    <2>3. Len(acc.out) <= i
      BY <1>2, <1>4
    <2>4. \A k \in 1 .. Len(acc.out) : ~ IsAssistant(acc.out[k])
      BY <1>2, Zenon DEF Plain
    <2> QED BY <1>2, <2>2, <2>3, <2>4, Zenon DEF Repaired
  <1>6. CASE ~ IsResult(ms[i])
    <2> DEFINE z == Append(acc.out, ms[i])
    <2>1. a = [acc EXCEPT !.out = z]
      BY <1>6, EarlyRound, Zenon DEF EarlyStep
    <2>2. z \in Seq(Msgs) /\ Len(z) = Len(acc.out) + 1 /\ z[Len(acc.out) + 1] = ms[i]
          /\ \A k \in 1 .. Len(acc.out) : z[k] = acc.out[k]
      BY ONLY <1>1, <1>3
    <2> HIDE DEF z
    <2>3. a \in Accs /\ a.out = z /\ a.seen = acc.seen /\ a.changed = acc.changed
      BY ONLY <1>2, <1>3, <2>1, <2>2, Zenon DEF Accs
    <2>4. \A k \in 1 .. Len(z) : k \in 1 .. Len(acc.out) \/ k = Len(acc.out) + 1
      BY <1>4, <2>2
    <2>5. Plain(z)
      BY <1>1, <1>2, <1>6, <2>2, <2>4, Zenon DEF Plain
    <2>6. Settled(z) /\ IdsOf(z) = {} /\ IdsOf(acc.out) = {}
      BY <1>2, <2>5, PlainSettled, Zenon
    <2>7. Len(z) <= i
      BY <1>2, <1>4, <2>2
    <2>8. \A k \in 1 .. i : k \in 1 .. i - 1 \/ k = i
      BY <1>4
    <2>9. Clean(ms, i - 1) => Clean(ms, i)
      BY <1>1, <1>6, <2>8, Zenon DEF Clean
    <2>10. \A k \in 1 .. Len(z) : ~ IsAssistant(z[k])
      BY <2>5, Zenon DEF Plain
    <2> QED BY <1>2, <2>3, <2>5, <2>6, <2>7, <2>9, <2>10, Zenon DEF Repaired
  <1> QED BY <1>5, <1>6, Zenon

LEMMA SpanKeeps ==
  ASSUME NEW ms \in Seq(Msgs), NEW i \in 1 .. Len(ms), NEW e \in i .. Len(ms), NEW acc,
         Repaired(ms, acc, i - 1), IsAssistant(ms[i]), Span(ms, i) = i + 1 .. e
  PROVE  Repaired(ms, RepairSpan(acc, ms, i), e)
  <1> DEFINE a == RepairSpan(acc, ms, i)
             o == acc.out
             P == Pushed(acc, ms, i)
             T == Remainder(ms, i)
             F == Found(acc, ms, i)
             z == a.out
  <1>1. /\ acc \in Accs /\ Settled(o) /\ acc.seen = IdsOf(o) /\ Len(o) <= i - 1
        /\ ~ acc.changed => Clean(ms, i - 1)
        /\ \A k \in 1 .. Len(o) : IsAssistant(o[k]) => \E j \in 1 .. i - 1 : o[k] = ms[j]
    BY Zenon DEF Repaired
  <1>2. o \in Seq(Msgs) /\ acc.seen \in SUBSET Ids
    BY <1>1, Zenon DEF Accs
  <1>3. ms[i] \in Msgs
    OBVIOUS
  <1>4. /\ a \in Accs /\ z = Glue(o, ms[i], P, T) /\ a.seen = acc.seen \cup F
        /\ ~ a.changed => ~ acc.changed /\ ResultIds(ms, i) = F /\ (F = {} \/ T = <<>>)
        /\ Len(o) \in Nat /\ Len(z) <= Len(o) + 1 + (e - i)
    BY <1>1, SpanRound, Zenon
  <1>5. T \in Seq(Msgs) /\ \A k \in 1 .. Len(T) : ~ IsAssistant(T[k]) /\ ~ IsResult(T[k])
    BY SpanHolds, Zenon
  <1>6. P \in Seq(Msgs) /\ Answered(P, F) /\ F \subseteq Range(CallsOf(ms[i])) /\ F \cap acc.seen = {}
    BY <1>1, FoundTyped, Zenon
  <1>7. P = ResultsFor(CallsOf(ms[i]), F)
    BY Zenon DEF Pushed
  <1>8. z \in Seq(Msgs) /\ Parts(z, o, ms[i], P, T)
    <2> HIDE DEF a, o, P, T, F, z
    <2>1. Glue(o, ms[i], P, T) \in Seq(Msgs) /\ Parts(Glue(o, ms[i], P, T), o, ms[i], P, T)
      BY ONLY <1>2, <1>3, <1>5, <1>6, Glued
    <2> QED BY <1>4, <2>1, Zenon
  <1> HIDE DEF a, o, P, T, F, z
  <1>9. F \cap IdsOf(o) = {}
    BY <1>1, <1>6, Zenon
  <1>10. Settled(z) /\ IdsOf(z) = IdsOf(o) \cup F
    <2>1. IsAssistant(ms[i])
      OBVIOUS
    <2>2. Extends(z, o, ms[i], F, P, T)
      BY <1>1, <1>2, <1>3, <1>5, <1>6, <1>7, <1>8, <1>9, <2>1, Zenon DEF Extends
    <2> QED BY ONLY <2>2, SettledGrows
  <1>11. i \in Nat /\ e \in Nat /\ i <= e
    OBVIOUS
  <1>12. Len(z) \in Nat /\ Len(z) <= e
    BY <1>1, <1>4, <1>8, <1>11
  <1>13. ~ NoHeads(ms, e)
    <2>1. i \in 1 .. e
      BY <1>11
    <2> QED BY <2>1, Zenon DEF NoHeads
  <1>14. ~ a.changed => Clean(ms, e)
    <2> SUFFICES ASSUME ~ a.changed PROVE Clean(ms, e)
      BY Zenon
    <2>1. Clean(ms, i - 1) /\ ResultIds(ms, i) = F /\ (F = {} \/ T = <<>>)
      BY <1>1, <1>4, Zenon
    <2>2. \A k \in 1 .. e : k \in 1 .. i - 1 \/ k = i \/ k \in i + 1 .. e
      BY <1>11
    <2>3. \A k \in i + 1 .. e : ~ IsAssistant(ms[k]) /\ i \in 1 .. k
      <3>1. \A k \in i + 1 .. e : k \in i + 1 .. k /\ i \in 1 .. k
        BY <1>11
      <3> QED BY <3>1, Zenon DEF Span
    <2>4. ~ IsResult(ms[i])
      BY <1>3, Kinds, Zenon
    <2>5. \A k \in 1 .. e : IsResult(ms[k]) => \E h \in 1 .. k : IsAssistant(ms[h])
      BY <2>1, <2>2, <2>3, <2>4, Zenon DEF Clean
    <2>6. \A k \in 1 .. e : IsAssistant(ms[k]) =>
             /\ ResultIds(ms, k) \subseteq Range(CallsOf(ms[k]))
             /\ ResultIds(ms, k) = {} \/ Remainder(ms, k) = <<>>
      BY <1>6, <2>1, <2>2, <2>3, Zenon DEF Clean, T
    <2> QED BY <2>5, <2>6, Zenon DEF Clean
  <1>15. a.seen = IdsOf(z)
    BY <1>1, <1>4, <1>10, Zenon
  <1>16. \A k \in 1 .. Len(z) : IsAssistant(z[k]) => \E j \in 1 .. e : z[k] = ms[j]
    <2>1. EndsWith(z, o, P, F)
      BY ONLY <1>2, <1>3, <1>5, <1>6, <1>8, IsAssistant(ms[i]), LastSpan
    <2>2. \A k \in 1 .. Len(z) : IsAssistant(z[k]) => k \in 1 .. Len(o) \/ k = Len(o) + 1
      BY <2>1, Zenon DEF EndsWith
    <2>3. z[Len(o) + 1] = ms[i] /\ \A k \in 1 .. Len(o) : z[k] = o[k]
      BY <1>8, Zenon DEF Parts
    <2>4. i \in 1 .. e /\ \A j \in 1 .. i - 1 : j \in 1 .. e
      BY <1>11
    <2> QED BY <1>1, <2>2, <2>3, <2>4, Zenon
  <1> QED BY <1>4, <1>10, <1>12, <1>13, <1>14, <1>15, <1>16, Zenon DEF Repaired, a, z

\* What comes of all the rounds.
LEMMA RoundsRepair ==
  ASSUME NEW ms \in Seq(Msgs) PROVE Repaired(ms, Rounds(ms)[Len(ms)], Len(ms))
  <1> DEFINE G == {g \in Accs \X (0 .. Len(ms)) : Repaired(ms, g[1], g[2])}
  <1>1. Len(ms) \in Nat
    OBVIOUS
  <1>2. \A acc, e : <<acc, e>> \in G <=> e \in 0 .. Len(ms) /\ Repaired(ms, acc, e)
    <2>1. \A acc, e : Repaired(ms, acc, e) => acc \in Accs
      BY Zenon DEF Repaired
    <2> HIDE DEF Accs
    <2> QED BY <2>1
  <1>3. Repaired(ms, Start, 0)
    <2>1. Start \in Accs /\ Start.out = <<>> /\ Start.seen = {}
      BY DEF Start, Accs
    <2>2. Len(<<>>) = 0 /\ Plain(<<>>)
      BY DEF Plain
    <2>3. \A k \in 1 .. 0 : FALSE
      OBVIOUS
    <2>4. Clean(ms, 0)
      BY <2>3, Zenon DEF Clean
    <2>5. Settled(<<>>) /\ IdsOf(<<>>) = {}
      BY <2>2, PlainSettled, Zenon
    <2>6. 0 <= 0
      OBVIOUS
    <2>7. \A k \in 1 .. Len(<<>>) : ~ IsAssistant(<<>>[k])
      BY <2>2, Zenon DEF Plain
    <2> QED BY <2>1, <2>2, <2>4, <2>5, <2>6, <2>7, Zenon DEF Repaired
  <1>4. 0 \in 0 .. Len(ms) /\ \A i \in 1 .. Len(ms) : i \in 0 .. Len(ms) /\ \A e \in i .. Len(ms) : e \in 0 .. Len(ms)
    BY <1>1
  <1>5. \A acc : \A i \in 1 .. Len(ms) : \A e \in i .. Len(ms) :
            <<acc, i - 1>> \in G /\ IsAssistant(ms[i]) /\ Span(ms, i) = i + 1 .. e
            => <<RepairSpan(acc, ms, i), e>> \in G
    <2> HIDE DEF G
    <2> QED BY <1>2, <1>4, SpanKeeps, Zenon
  <1>6. \A acc : \A i \in 1 .. Len(ms) :
            <<acc, i - 1>> \in G /\ NoHeads(ms, i) => <<RepairMessage(acc, ms, i), i>> \in G
    <2> HIDE DEF G
    <2> QED BY <1>2, <1>4, EarlyKeeps, Zenon
  <1>7. <<Start, 0>> \in G
    <2> HIDE DEF G
    <2> QED BY <1>2, <1>3, <1>4, Zenon
  <1> HIDE DEF G
  <1>8. <<Rounds(ms)[Len(ms)], Len(ms)>> \in G
    BY <1>1, <1>5, <1>6, <1>7, RoundsReach, Zenon
  <1> QED BY <1>2, <1>8, Zenon

\* The last assistant message up to k.
LEMMA LastHead ==
  ASSUME NEW ms, NEW k \in Nat, \E h \in 1 .. k : IsAssistant(ms[h])
  PROVE  \E j \in 1 .. k : IsAssistant(ms[j]) /\ \A i \in j + 1 .. k : ~ IsAssistant(ms[i])
  <1> DEFINE D == {d \in Nat : d < k /\ IsAssistant(ms[k - d])}
  <1>1. PICK h \in 1 .. k : IsAssistant(ms[h])
    OBVIOUS
  <1>2. k - h \in Nat /\ k - h < k /\ k - (k - h) = h
    BY <1>1
  <1>3. k - h \in D
    BY <1>1, <1>2, Zenon
  <1>4. PICK d \in D : \A c \in D : d <= c
    BY <1>3, LeastNat, Zenon
  <1>5. d \in Nat /\ d < k /\ IsAssistant(ms[k - d])
    BY <1>4, Zenon
  <1>6. k - d \in 1 .. k
    BY <1>5
  <1>7. \A i \in k - d + 1 .. k : ~ IsAssistant(ms[i])
    <2> SUFFICES ASSUME NEW i \in k - d + 1 .. k, IsAssistant(ms[i]) PROVE FALSE
      BY Zenon
    <2>1. k - i \in Nat /\ k - i < k /\ k - (k - i) = i /\ ~ (d <= k - i)
      BY <1>5
    <2>2. k - i \in D
      BY <2>1, Zenon
    <2> QED BY <1>4, <2>1, <2>2, Zenon
  <1> QED BY <1>5, <1>6, <1>7, Zenon

\* The results of each span come first in it and answer its calls.
Tidy(z) ==
  /\ \A k \in 1 .. Len(z) : IsResult(z[k]) => \E h \in 1 .. k : IsAssistant(z[h])
  /\ \A j \in 1 .. Len(z) : IsAssistant(z[j]) =>
        \A k \in Span(z, j) : IsResult(z[k]) =>
           z[k].id \in Range(CallsOf(z[j])) /\ \A i \in j + 1 .. k : IsResult(z[i])

\* A result is in the span of the last assistant message before it.
LEMMA InSpan ==
  ASSUME NEW z \in Seq(Msgs), NEW k \in 1 .. Len(z), IsResult(z[k]), \E h \in 1 .. k : IsAssistant(z[h])
  PROVE  \E j \in 1 .. k - 1 : j \in 1 .. Len(z) /\ IsAssistant(z[j]) /\ k \in Span(z, j)
  <1>1. Len(z) \in Nat /\ k \in Nat /\ z[k] \in Msgs
    OBVIOUS
  <1>2. PICK j \in 1 .. k : IsAssistant(z[j]) /\ \A i \in j + 1 .. k : ~ IsAssistant(z[i])
    BY <1>1, LastHead, Zenon
  <1>3. ~ IsAssistant(z[k])
    BY <1>1, Kinds, Zenon
  <1>4. j # k
    BY <1>2, <1>3, Zenon
  <1>5. j \in 1 .. k - 1 /\ j \in 1 .. Len(z) /\ k \in j + 1 .. Len(z)
    BY <1>1, <1>4
  <1>6. k \in Span(z, j)
    BY <1>2, <1>5, Zenon DEF Span
  <1> QED BY <1>2, <1>5, <1>6, Zenon

LEMMA TidyPaired ==
  ASSUME NEW z \in Seq(Msgs), Tidy(z) PROVE Paired(z)
  <1> SUFFICES ASSUME NEW k \in 1 .. Len(z), IsResult(z[k])
               PROVE  \E j \in 1 .. k - 1 : /\ IsAssistant(z[j]) /\ z[j].stop = "stop"
                                            /\ z[k].id \in Range(z[j].calls)
                                            /\ \A i \in j + 1 .. k : IsResult(z[i])
    BY Zenon DEF Paired
  <1>1. PICK j \in 1 .. k - 1 : j \in 1 .. Len(z) /\ IsAssistant(z[j]) /\ k \in Span(z, j)
    BY InSpan, Zenon DEF Tidy
  <1>2. z[k].id \in Range(CallsOf(z[j])) /\ \A i \in j + 1 .. k : IsResult(z[i])
    BY <1>1, Zenon DEF Tidy
  <1>3. z[j] \in Msgs
    BY <1>1
  <1>4. z[j].stop = "stop" /\ z[k].id \in Range(z[j].calls)
    BY <1>1, <1>2, <1>3, CallsTyped, Zenon
  <1> QED BY <1>1, <1>2, <1>4, Zenon

LEMMA SettledTidy ==
  ASSUME NEW z \in Seq(Msgs), Settled(z) PROVE Tidy(z)
  <1>1. \A k \in 1 .. Len(z) : IsResult(z[k]) => \E h \in 1 .. k : IsAssistant(z[h])
    BY Zenon DEF Settled
  <1>2. ASSUME NEW j \in 1 .. Len(z), IsAssistant(z[j]), NEW k \in Span(z, j), IsResult(z[k])
        PROVE  z[k].id \in Range(CallsOf(z[j])) /\ \A i \in j + 1 .. k : IsResult(z[i])
    <2> DEFINE C == CallsOf(z[j])
               F == ResultIds(z, j)
               P == ResultsFor(C, F)
    <2>1. Ordered(z, j)
      BY <1>2, Zenon DEF Settled
    <2>2. F \subseteq Range(C) /\ (\A c \in 1 .. Len(P) : z[j + c] = P[c]) /\ k <= j + Len(P)
      BY <1>2, <2>1, Zenon DEF Ordered
    <2>3. z[k].id \in F
      BY <1>2, Zenon DEF ResultIds
    <2>4. z[j] \in Msgs
      OBVIOUS
    <2>5. C \in Seq(Ids \cup {Bad}) /\ F \in SUBSET Range(C)
      BY <1>2, <2>2, <2>4, CallsTyped, Zenon
    <2>6. Answered(P, F)
      <3> HIDE DEF C, F
      <3> QED BY <2>5, Answers, Zenon
    <2> HIDE DEF C, F, P
    <2>7. Len(P) \in Nat /\ \A c \in 1 .. Len(P) : P[c] = ToolResult(P[c].id)
      BY <2>6, Zenon DEF Answered
    <2>8. j \in Nat /\ k \in Int
      BY DEF Span
    <2>9. ASSUME NEW i \in j + 1 .. k PROVE IsResult(z[i])
      <3>1. i - j \in 1 .. Len(P) /\ j + (i - j) = i
        BY <2>2, <2>7, <2>8
      <3>2. z[i] = ToolResult(P[i - j].id)
        BY <2>2, <2>7, <3>1, Zenon
      <3>3. IsResult(ToolResult(P[i - j].id))
        BY ResultKind, Zenon
      <3> QED BY ONLY <3>2, <3>3, Zenon
    <2>10. z[k].id \in Range(C)
      BY <2>2, <2>3, Zenon
    <2> QED BY <2>9, <2>10, Zenon DEF C
  <1> QED BY <1>1, <1>2, Zenon DEF Tidy

LEMMA CleanTidy ==
  ASSUME NEW z \in Seq(Msgs), Clean(z, Len(z)) PROVE Tidy(z)
  <1>0. Len(z) \in Nat
    OBVIOUS
  <1>1. \A k \in 1 .. Len(z) : IsResult(z[k]) => \E h \in 1 .. k : IsAssistant(z[h])
    BY Zenon DEF Clean
  <1>2. ASSUME NEW j \in 1 .. Len(z), IsAssistant(z[j]), NEW k \in Span(z, j), IsResult(z[k])
        PROVE  z[k].id \in Range(CallsOf(z[j])) /\ \A i \in j + 1 .. k : IsResult(z[i])
    <2>1. z[k].id \in ResultIds(z, j)
      BY <1>2, Zenon DEF ResultIds
    <2>2. z[k].id \in Range(CallsOf(z[j])) /\ Remainder(z, j) = <<>>
      BY <1>2, <2>1, Zenon DEF Clean
    <2>3. j \in 0 .. Len(z)
      BY <1>0
    <2>4. PICK e \in j .. Len(z) : Span(z, j) = j + 1 .. e
      BY <1>0, <2>3, SpanEnds, Zenon
    <2>5. \A i \in j + 1 .. e : IsResult(z[i])
      BY <1>2, <2>2, <2>4, SpanHolds, Zenon
    <2>6. \A i \in j + 1 .. k : i \in j + 1 .. e
      BY <1>0, <2>4
    <2> QED BY <2>2, <2>5, <2>6, Zenon
  <1> QED BY <1>1, <1>2, Zenon DEF Tidy

\* What the pairing leaves: paired, no longer than before, and its assistant
\* messages are those of before.
LEMMA PairingPairs ==
  ASSUME NEW ms \in Seq(Msgs)
  PROVE  /\ RepairPairing(ms) \in Seq(Msgs) /\ Paired(RepairPairing(ms))
         /\ Len(RepairPairing(ms)) <= Len(ms)
         /\ \A k \in 1 .. Len(RepairPairing(ms)) : IsAssistant(RepairPairing(ms)[k])
               => \E j \in 1 .. Len(ms) : RepairPairing(ms)[k] = ms[j]
         /\ RepairPairing(ms) = ms \/ Settled(RepairPairing(ms))
  <1> DEFINE r == Rounds(ms)[Len(ms)]
  <1>1. Repaired(ms, r, Len(ms))
    BY RoundsRepair, Zenon
  <1>2. RepairPairing(ms) = IF r.changed THEN r.out ELSE ms
    BY Zenon DEF RepairPairing
  <1> HIDE DEF r
  <1>3. /\ r.out \in Seq(Msgs) /\ Settled(r.out) /\ Len(r.out) <= Len(ms)
        /\ ~ r.changed => Clean(ms, Len(ms))
        /\ \A k \in 1 .. Len(r.out) : IsAssistant(r.out[k]) => \E j \in 1 .. Len(ms) : r.out[k] = ms[j]
    BY <1>1, Zenon DEF Repaired, Accs
  <1>4. Paired(r.out) /\ (~ r.changed => Paired(ms))
    BY <1>3, SettledTidy, CleanTidy, TidyPaired, Zenon
  <1>5. Len(ms) <= Len(ms)
    OBVIOUS
  <1>6. CASE r.changed
    <2>1. RepairPairing(ms) = r.out
      BY <1>2, <1>6, Zenon
    <2> QED BY <1>3, <1>4, <2>1, Zenon
  <1>7. CASE ~ r.changed
    <2>1. RepairPairing(ms) = ms
      BY <1>2, <1>7, Zenon
    <2> QED BY <1>4, <1>5, <1>7, <2>1, Zenon
  <1> QED BY <1>6, <1>7, Zenon

\* A paired transcript does not start with a result.
LEMMA NothingLeads ==
  ASSUME NEW z \in Seq(Msgs), Paired(z) PROVE DropLeadingResults(z) = z
  <1> DEFINE talk == {i \in 1 .. Len(z) : ~ IsResult(z[i])}
  <1>1. Len(z) \in Nat
    OBVIOUS
  <1>2. CASE z = <<>>
    <2>1. \A i \in 1 .. Len(z) : FALSE
      BY <1>2
    <2>2. talk = {}
      BY <2>1, Zenon
    <2> QED BY <1>2, <2>2, Zenon DEF DropLeadingResults
  <1>3. CASE z # <<>>
    <2>1. Len(z) # 0
      BY <1>3
    <2>2. 1 \in 1 .. Len(z) /\ \A j \in 1 .. 1 - 1 : FALSE
      BY <1>1, <2>1
    <2>3. 1 \in talk
      BY <2>2, Zenon DEF Paired
    <2>4. \A j \in talk : 1 <= j /\ (j <= 1 => j = 1)
      OBVIOUS
    <2> DEFINE first == CHOOSE i \in talk : \A j \in talk : i <= j
    <2>5. first \in talk /\ \A j \in talk : first <= j
      BY <2>3, <2>4, Zenon
    <2>6. first = 1
      BY <2>3, <2>4, <2>5, Zenon
    <2>7. talk # {}
      BY <2>3, Zenon
    <2>8. DropLeadingResults(z) = SubSeq(z, 1, Len(z))
      BY <2>6, <2>7, Zenon DEF DropLeadingResults
    <2>9. SubSeq(z, 1, Len(z)) = z
      OBVIOUS
    <2> QED BY <2>8, <2>9, Zenon
  <1> QED BY <1>2, <1>3, Zenon

\* The parts of RepairInputs, by name.
WellFormed(m) == InOrder(m.calls, {c \in DOMAIN m.calls : m.calls[c] # Bad})
Broken(m) == IsAssistant(m) /\ Bad \in Range(m.calls)
Fixed(m) == IF Broken(m) THEN [m EXCEPT !.calls = WellFormed(m)] ELSE m
Worth(ms) == {i \in DOMAIN ms : Broken(ms[i]) => (ms[i].text \/ WellFormed(ms[i]) # <<>>)}

\* Neither stubs nor malformed calls.
SoundMessage(m) == IsAssistant(m) => Bad \notin Range(m.calls) /\ ~ IsProviderErrorStub(m)
Sound(z) == \A k \in 1 .. Len(z) : SoundMessage(z[k])

\* A filter is no longer than the array, and has elements of it.
LEMMA Shorter ==
  ASSUME NEW l \in Seq(Msgs), NEW kept \in SUBSET (1 .. Len(l))
  PROVE  /\ InOrder(l, kept) \in Seq(Msgs) /\ Len(InOrder(l, kept)) <= Len(l)
         /\ \A i \in 1 .. Len(InOrder(l, kept)) : \E k \in kept : InOrder(l, kept)[i] = l[k]
  <1> DEFINE n == Cardinality(kept)
             f == InOrder(l, kept)
  <1>1. f \in Seq(Msgs) /\ Len(f) = n /\ n \in Nat
        /\ \E g : Lists(g, kept, n) /\ \A i \in 1 .. n : f[i] = l[g[i]]
    BY Filtered
  <1>2. Len(l) \in Nat
    OBVIOUS
  <1>3. IsFiniteSet(1 .. Len(l)) /\ Cardinality(1 .. Len(l)) = Len(l)
    <2>1. 1 \in Int /\ Len(l) \in Int
      BY <1>2
    <2>2. IsFiniteSet(1 .. Len(l)) /\ Cardinality(1 .. Len(l)) = IF 1 > Len(l) THEN 0 ELSE Len(l) - 1 + 1
      BY <2>1, FS_Interval, Zenon
    <2> QED BY <1>2, <2>2
  <1>4. n <= Len(l)
    <2>1. n <= Cardinality(1 .. Len(l))
      BY <1>3, FS_Subset, Zenon
    <2> QED BY <1>3, <2>1, Zenon
  <1> HIDE DEF n, f
  <1>5. \A i \in 1 .. n : \E k \in kept : f[i] = l[k]
    BY <1>1, Zenon DEF Lists
  <1>6. Len(f) <= Len(l)
    BY <1>1, <1>4, Zenon
  <1> QED BY <1>1, <1>5, <1>6, Zenon DEF f

LEMMA StubsGo ==
  ASSUME NEW ms \in Seq(Msgs)
  PROVE  /\ WithoutStubs(ms) \in Seq(Msgs) /\ Len(WithoutStubs(ms)) <= Len(ms)
         /\ \A k \in 1 .. Len(WithoutStubs(ms)) : ~ IsProviderErrorStub(WithoutStubs(ms)[k])
  <1> DEFINE kept == {i \in DOMAIN ms : ~ IsProviderErrorStub(ms[i])}
  <1>1. DOMAIN ms = 1 .. Len(ms)
    OBVIOUS
  <1>2. kept \in SUBSET (1 .. Len(ms))
    BY <1>1, Zenon
  <1>3. WithoutStubs(ms) = InOrder(ms, kept)
    BY Zenon DEF WithoutStubs
  <1>4. \A k \in kept : ~ IsProviderErrorStub(ms[k])
    BY Zenon
  <1> HIDE DEF kept
  <1>5. /\ InOrder(ms, kept) \in Seq(Msgs) /\ Len(InOrder(ms, kept)) <= Len(ms)
        /\ \A i \in 1 .. Len(InOrder(ms, kept)) : \E k \in kept : InOrder(ms, kept)[i] = ms[k]
    BY <1>2, Shorter, Zenon
  <1>6. \A i \in 1 .. Len(InOrder(ms, kept)) : ~ IsProviderErrorStub(InOrder(ms, kept)[i])
    BY <1>4, <1>5, Zenon
  <1> QED BY <1>3, <1>5, <1>6, Zenon

\* A message mended is a message, without malformed calls.
LEMMA Mended ==
  ASSUME NEW m \in Msgs, ~ IsProviderErrorStub(m),
         Broken(m) => (m.text \/ WellFormed(m) # <<>>)
  PROVE  Fixed(m) \in Msgs /\ SoundMessage(Fixed(m)) /\ (IsResult(Fixed(m)) <=> IsResult(m))
  <1>1. CASE ~ Broken(m)
    BY <1>1, Zenon DEF Broken, Fixed, SoundMessage
  <1>2. CASE Broken(m)
    <2> DEFINE C == m.calls
               kept == {c \in DOMAIN C : C[c] # Bad}
               w == InOrder(C, kept)
               f == Assistant(m.stop, m.text, w)
    <2>1. IsAssistant(m) /\ ~ IsResult(m)
      BY <1>2, Kinds, Zenon DEF Broken
    <2>2. m.stop \in Stops /\ m.text \in BOOLEAN /\ C \in Seq(Ids \cup {Bad}) /\ m = Assistant(m.stop, m.text, C)
      BY <2>1, Kinds, Zenon
    <2>3. WellFormed(m) = w
      BY Zenon DEF WellFormed
    <2>4. DOMAIN C = 1 .. Len(C)
      BY <2>2
    <2>5. kept \in SUBSET (1 .. Len(C)) /\ \A c \in kept : C[c] # Bad
      BY <2>4, Zenon
    <2>6. Fixed(m) = [m EXCEPT !.calls = w]
      BY <1>2, <2>3, Zenon DEF Fixed
    <2> HIDE DEF C, kept, w
    <2>7. w \in Seq(Ids \cup {Bad}) /\ Len(w) = Cardinality(kept)
          /\ \E g : Lists(g, kept, Cardinality(kept)) /\ \A i \in 1 .. Cardinality(kept) : w[i] = C[g[i]]
      BY <2>2, <2>5, Filtered, SMT DEF w
    <2>8. \A i \in 1 .. Len(w) : w[i] # Bad
      BY <2>5, <2>7, Zenon DEF Lists
    <2>9. DOMAIN w = 1 .. Len(w)
      BY <2>7
    <2>10. Bad \notin Range(w)
      BY <2>8, <2>9, Zenon DEF Range
    <2>11. Fixed(m) = f
      BY ONLY <2>2, <2>6, f = Assistant(m.stop, m.text, w) DEF Assistant
    <2>12. f \in Msgs
      <3>1. f \in Assistants
        BY ONLY <2>2, <2>7, f = Assistant(m.stop, m.text, w) DEF Assistants
      <3> QED BY <3>1, Zenon DEF Msgs
    <2>13. f.calls = w /\ f.text = m.text /\ IsAssistant(f) /\ ~ IsResult(f)
      BY ONLY f = Assistant(m.stop, m.text, w) DEF Assistant, IsAssistant, IsResult
    <2>14. m.text \/ w # <<>>
      BY <1>2, <2>3, Zenon
    <2>15. ~ IsProviderErrorStub(f)
      BY <2>13, <2>14, Zenon DEF IsProviderErrorStub
    <2> HIDE DEF f
    <2> QED BY <2>1, <2>10, <2>11, <2>12, <2>13, <2>15, Zenon DEF SoundMessage
  <1> QED BY <1>1, <1>2, Zenon

LEMMA InputsParts ==
  ASSUME NEW ms
  PROVE  RepairInputs(ms) = [i \in 1 .. Len(InOrder(ms, Worth(ms))) |-> Fixed(InOrder(ms, Worth(ms))[i])]
  BY Zenon DEF RepairInputs, Worth, Fixed, Broken, WellFormed

LEMMA InputsMended ==
  ASSUME NEW ms \in Seq(Msgs), \A k \in 1 .. Len(ms) : ~ IsProviderErrorStub(ms[k])
  PROVE  /\ RepairInputs(ms) \in Seq(Msgs) /\ Len(RepairInputs(ms)) <= Len(ms)
         /\ Sound(RepairInputs(ms))
  <1> DEFINE K == Worth(ms)
             rest == InOrder(ms, K)
             z == [i \in 1 .. Len(rest) |-> Fixed(rest[i])]
  <1>1. DOMAIN ms = 1 .. Len(ms) /\ Len(ms) \in Nat
    OBVIOUS
  <1>2. K \in SUBSET (1 .. Len(ms))
    BY <1>1, Zenon DEF Worth
  <1>3. RepairInputs(ms) = z
    BY InputsParts, Zenon
  <1>4. /\ rest \in Seq(Msgs) /\ Len(rest) <= Len(ms)
        /\ \A i \in 1 .. Len(rest) : \E k \in K : rest[i] = ms[k]
    BY <1>2, Shorter, Zenon
  <1>5. ASSUME NEW k \in K PROVE Fixed(ms[k]) \in Msgs /\ SoundMessage(Fixed(ms[k]))
    <2>1. k \in 1 .. Len(ms) /\ (Broken(ms[k]) => (ms[k].text \/ WellFormed(ms[k]) # <<>>))
      BY <1>2, Zenon DEF Worth
    <2>2. ms[k] \in Msgs /\ ~ IsProviderErrorStub(ms[k])
      BY <2>1
    <2> QED BY <2>1, <2>2, Mended, Zenon
  <1> HIDE DEF K, rest
  <1>6. \A i \in 1 .. Len(rest) : Fixed(rest[i]) \in Msgs /\ SoundMessage(Fixed(rest[i]))
    BY <1>4, <1>5, Zenon
  <1>7. Len(rest) \in Nat
    BY <1>4
  <1>8. z \in Seq(Msgs) /\ Len(z) = Len(rest) /\ \A i \in 1 .. Len(rest) : z[i] = Fixed(rest[i])
    <2> DEFINE F(i) == Fixed(rest[i])
    <2>1. \A i \in 1 .. Len(rest) : F(i) \in Msgs
      BY <1>6, Zenon
    <2> HIDE DEF F
    <2>2. LET y == [i \in 1 .. Len(rest) |-> F(i)]
          IN  y \in Seq(Msgs) /\ Len(y) = Len(rest) /\ \A i \in 1 .. Len(rest) : y[i] = F(i)
      BY ONLY <1>7, <2>1
    <2> QED BY ONLY <2>2, Zenon DEF F
  <1> HIDE DEF z
  <1>9. Sound(z)
    BY <1>6, <1>8, Zenon DEF Sound
  <1>10. Len(z) <= Len(ms)
    BY <1>4, <1>8, Zenon
  <1> QED BY <1>3, <1>8, <1>9, <1>10, Zenon

LEMMA SoundStays ==
  ASSUME NEW z \in Seq(Msgs), Sound(z) PROVE WithoutStubs(z) = z /\ RepairInputs(z) = z
  <1>1. DOMAIN z = 1 .. Len(z) /\ Len(z) \in Nat /\ z = [i \in 1 .. Len(z) |-> z[i]]
    OBVIOUS
  <1>2. InOrder(z, 1 .. Len(z)) = z
    BY FilterAll
  <1>3. \A k \in 1 .. Len(z) : ~ IsProviderErrorStub(z[k]) /\ ~ Broken(z[k])
    BY Zenon DEF Sound, SoundMessage, IsProviderErrorStub, Broken
  <1>4. WithoutStubs(z) = z
    <2>1. {i \in DOMAIN z : ~ IsProviderErrorStub(z[i])} = 1 .. Len(z)
      BY <1>1, <1>3, Zenon
    <2> QED BY <1>2, <2>1, Zenon DEF WithoutStubs
  <1>5. Worth(z) = 1 .. Len(z)
    BY <1>1, <1>3, Zenon DEF Worth
  <1>6. RepairInputs(z) = [i \in 1 .. Len(z) |-> Fixed(z[i])]
    BY <1>2, <1>5, InputsParts, Zenon
  <1>7. \A i \in 1 .. Len(z) : Fixed(z[i]) = z[i]
    BY <1>3, Zenon DEF Fixed
  <1>8. [i \in 1 .. Len(z) |-> Fixed(z[i])] = [i \in 1 .. Len(z) |-> z[i]]
    BY <1>7, Zenon
  <1>9. RepairInputs(z) = z
    BY ONLY <1>1, <1>6, <1>8, Zenon
  <1> QED BY <1>4, <1>9, Zenon

\* What sanitizing gives.
Sanitary(y) == y \in Seq(Msgs) /\ Paired(y) /\ Sound(y)

LEMMA Sanitized ==
  ASSUME NEW ms \in Seq(Msgs)
  PROVE  /\ Sanitary(Sanitize(ms)) /\ Len(Sanitize(ms)) <= Len(ms)
         /\ RepairInputs(WithoutStubs(ms)) \in Seq(Msgs) /\ Sound(RepairInputs(WithoutStubs(ms)))
         /\ Sanitize(ms) = RepairPairing(RepairInputs(WithoutStubs(ms)))
         /\ Sound(ms) => Sanitize(ms) = RepairPairing(ms)
  <1> DEFINE s == WithoutStubs(ms)
             t == RepairInputs(s)
             y == RepairPairing(t)
  <1>1. s \in Seq(Msgs) /\ Len(s) <= Len(ms) /\ \A k \in 1 .. Len(s) : ~ IsProviderErrorStub(s[k])
    BY StubsGo, Zenon
  <1>2. Sanitize(ms) = DropLeadingResults(y)
    BY Zenon DEF Sanitize
  <1> HIDE DEF s
  <1>3. t \in Seq(Msgs) /\ Len(t) <= Len(s) /\ Sound(t)
    BY <1>1, InputsMended, Zenon
  <1> HIDE DEF t
  <1>4. /\ y \in Seq(Msgs) /\ Paired(y) /\ Len(y) <= Len(t)
        /\ \A k \in 1 .. Len(y) : IsAssistant(y[k]) => \E j \in 1 .. Len(t) : y[k] = t[j]
    BY <1>3, PairingPairs, Zenon
  <1> HIDE DEF y
  <1>5. Sound(y)
    BY <1>3, <1>4, Zenon DEF Sound, SoundMessage
  <1>6. Sanitize(ms) = y
    BY <1>2, <1>4, NothingLeads, Zenon
  <1>7. Len(y) <= Len(ms)
    <2>1. Len(y) \in Nat /\ Len(t) \in Nat /\ Len(s) \in Nat /\ Len(ms) \in Nat
      BY <1>1, <1>3, <1>4
    <2> QED BY <1>1, <1>3, <1>4, <2>1
  <1>8. Sound(ms) => t = ms
    BY SoundStays, Zenon DEF s, t
  <1> QED BY <1>3, <1>4, <1>5, <1>6, <1>7, <1>8, ZenonT(60) DEF Sanitary, y, t, s

\* The latest part of a transcript.
LEMMA LatestPart ==
  ASSUME NEW y \in Seq(Msgs)
  PROVE  /\ Latest(y) \in Seq(Msgs) /\ Len(Latest(y)) <= MaxSession /\ Len(Latest(y)) <= Len(y)
         /\ \A k \in 1 .. Len(Latest(y)) : /\ k + (Len(y) - Len(Latest(y))) \in 1 .. Len(y)
                                           /\ Latest(y)[k] = y[k + (Len(y) - Len(Latest(y)))]
         /\ Len(y) <= MaxSession => Latest(y) = y
  <1>1. Len(y) \in Nat /\ MaxSession \in Nat
    BY TranscriptAssumption
  <1>2. CASE Len(y) > MaxSession
    <2> DEFINE v == SubSeq(y, Len(y) - MaxSession + 1, Len(y))
    <2>1. Latest(y) = v
      BY <1>2, Zenon DEF Latest
    <2>2. Len(y) - MaxSession + 1 \in 1 .. Len(y) + 1 /\ Len(y) \in Len(y) - MaxSession .. Len(y)
      BY <1>1, <1>2
    <2>3. v \in Seq(Msgs) /\ Len(v) = MaxSession /\ \A k \in 1 .. MaxSession : v[k] = y[k + (Len(y) - MaxSession)]
      BY <1>1, <1>2
    <2> HIDE DEF v
    <2>4. \A k \in 1 .. MaxSession : k + (Len(y) - MaxSession) \in 1 .. Len(y)
      BY <1>1, <1>2
    <2>5. MaxSession <= MaxSession /\ MaxSession <= Len(y) /\ ~ (Len(y) <= MaxSession)
      BY <1>1, <1>2
    <2> QED BY <2>1, <2>3, <2>4, <2>5, Zenon
  <1>3. CASE ~ (Len(y) > MaxSession)
    <2>1. Latest(y) = y
      BY <1>3, Zenon DEF Latest
    <2>2. Len(y) <= MaxSession /\ Len(y) <= Len(y)
      BY <1>1, <1>3
    <2>3. \A k \in 1 .. Len(y) : k + (Len(y) - Len(y)) = k
      BY <1>1
    <2> QED BY <2>1, <2>2, <2>3, Zenon
  <1> QED BY <1>2, <1>3, Zenon

\* What saving gives: the pairing of the latest part, which is sound.
LEMMA SavedParts ==
  ASSUME NEW ms \in Seq(Msgs)
  PROVE  /\ Sanitary(Saved(ms)) /\ Len(Saved(ms)) <= MaxSession
         /\ Latest(Sanitize(ms)) \in Seq(Msgs) /\ Sound(Latest(Sanitize(ms)))
         /\ Saved(ms) = RepairPairing(Latest(Sanitize(ms)))
  <1> DEFINE y == Sanitize(ms)
             v == Latest(y)
  <1>1. y \in Seq(Msgs) /\ Sound(y)
    BY Sanitized, Zenon DEF Sanitary
  <1> HIDE DEF y
  <1>2. /\ v \in Seq(Msgs) /\ Len(v) <= MaxSession
        /\ \A k \in 1 .. Len(v) : k + (Len(y) - Len(v)) \in 1 .. Len(y) /\ v[k] = y[k + (Len(y) - Len(v))]
    BY <1>1, LatestPart, Zenon
  <1> HIDE DEF v
  <1>3. Sound(v)
    BY <1>1, <1>2, Zenon DEF Sound
  <1>4. Sanitary(Sanitize(v)) /\ Len(Sanitize(v)) <= Len(v) /\ Sanitize(v) = RepairPairing(v)
    BY <1>2, <1>3, Sanitized, Zenon
  <1>5. Len(Sanitize(v)) \in Nat /\ Len(v) \in Nat /\ MaxSession \in Nat
    <2>1. Sanitize(v) \in Seq(Msgs)
      BY <1>4, Zenon DEF Sanitary
    <2> QED BY <1>2, <2>1, TranscriptAssumption
  <1>6. Len(Sanitize(v)) <= MaxSession
    BY <1>2, <1>4, <1>5
  <1>7. Saved(ms) = Sanitize(v)
    BY Zenon DEF Saved, v, y
  <1> QED BY <1>2, <1>3, <1>4, <1>6, <1>7, Zenon DEF v, y

LEMMA IsKind ==
  ASSUME NEW m, IsMessage(m) PROVE m \in Msgs
  <1>1. CASE m = User \/ \E id \in Ids : m = ToolResult(id)
    BY <1>1, Zenon DEF Msgs, Results
  <1>2. CASE /\ m.stop \in Stops /\ m.text \in BOOLEAN /\ m.calls \in Seq(Ids \cup {Bad})
             /\ m = Assistant(m.stop, m.text, m.calls)
    <2>1. m \in Assistants
      BY <1>2, SMT DEF Assistants
    <2> QED BY <2>1, Zenon DEF Msgs
  <1> QED BY <1>1, <1>2, Zenon DEF IsMessage, Stops

TranscriptInv == messages \in Seq(Msgs)

LEMMA RunsMessages == TranscriptSpec => []TranscriptInv
  <1>1. TranscriptInit => TranscriptInv
    BY DEF TranscriptInit, TranscriptInv
  <1>2. TranscriptInv /\ [TranscriptNext]_messages => TranscriptInv'
    <2> SUFFICES ASSUME TranscriptInv, [TranscriptNext]_messages PROVE TranscriptInv'
      OBVIOUS
    <2>1. CASE UNCHANGED messages
      BY <2>1, Zenon DEF TranscriptInv
    <2>2. ASSUME NEW m \in Alphabet, Push(m) PROVE TranscriptInv'
      <3>1. IsMessage(m)
        BY TranscriptAssumption, Zenon
      <3>4. m \in Msgs
        BY <3>1, IsKind, Zenon
      <3>5. messages' = Append(messages, m)
        BY <2>2, Zenon DEF Push
      <3> QED BY <3>4, <3>5 DEF TranscriptInv
    <2> QED BY <2>1, <2>2, Zenon DEF TranscriptNext
  <1> QED BY <1>1, <1>2, PTL DEF TranscriptSpec

\* What a session keeps of any messages has each tool result behind its call,
\* the cut at the limit included (saveSessionMessages).
THEOREM SavedPairs == TranscriptSpec => []SavedIsPaired
  <1>1. TranscriptInv => SavedIsPaired
    BY SavedParts, Zenon DEF TranscriptInv, SavedIsPaired, Sanitary
  <1> QED BY <1>1, RunsMessages, PTL

\* Two sequences with the same elements.
LEMMA SameSeq ==
  ASSUME NEW a \in Seq(Msgs), NEW b \in Seq(Msgs), Len(a) = Len(b), \A k \in 1 .. Len(a) : a[k] = b[k]
  PROVE  a = b
  BY SameSequence

\* The filter of an interval.
LEMMA FilterTail ==
  ASSUME NEW z \in Seq(Msgs), NEW b \in Nat, NEW e \in Nat, b <= e, e <= Len(z)
  PROVE  /\ Len(InOrder(z, b + 1 .. e)) = e - b
         /\ \A k \in 1 .. e - b : InOrder(z, b + 1 .. e)[k] = z[b + k]
  <1> DEFINE n == e - b
             g == [k \in 1 .. n |-> b + k]
             K == b + 1 .. e
  <1>1. n \in Nat /\ K \in SUBSET (1 .. Len(z))
    OBVIOUS
  <1>2. \A k \in 1 .. n : g[k] = b + k
    OBVIOUS
  <1>3. Lists(g, K, n)
    <2>1. g \in [1 .. n -> K]
      BY <1>1
    <2>2. \A i, j \in 1 .. n : i < j => g[i] < g[j]
      BY <1>2
    <2>3. \A k \in K : \E i \in 1 .. n : g[i] = k
      <3> SUFFICES ASSUME NEW k \in K PROVE \E i \in 1 .. n : g[i] = k
        BY Zenon
      <3>1. k - b \in 1 .. n /\ b + (k - b) = k
        OBVIOUS
      <3> QED BY <1>2, <3>1, Zenon
    <2> QED BY <2>1, <2>2, <2>3, Zenon DEF Lists
  <1> HIDE DEF n, g, K
  <1>4. Len(InOrder(z, K)) = n /\ \A k \in 1 .. n : InOrder(z, K)[k] = z[g[k]]
    BY <1>1, <1>3, FilteredBy
  <1>5. \A k \in 1 .. n : InOrder(z, K)[k] = z[b + k]
    BY <1>2, <1>4, Zenon
  <1> QED BY <1>4, <1>5, Zenon DEF n, K

IdsUpTo(z, e) == {z[k].id : k \in {k \in 1 .. e : IsResult(z[k])}}

\* The rounds have copied z up to e.
Same(z, acc, e) ==
  /\ acc \in Accs /\ Len(acc.out) = e /\ acc.seen = IdsUpTo(z, e)
  /\ \A k \in 1 .. e : acc.out[k] = z[k]

LEMMA EarlySame ==
  ASSUME NEW z \in Seq(Msgs), Settled(z), NEW i \in 1 .. Len(z), NoHeads(z, i), NEW acc, Same(z, acc, i - 1)
  PROVE  Same(z, RepairMessage(acc, z, i), i)
  <1> DEFINE a == RepairMessage(acc, z, i)
             w == Append(acc.out, z[i])
  <1>1. ~ IsResult(z[i])
    BY Zenon DEF Settled, NoHeads
  <1>2. z[i] \in Msgs /\ a = [acc EXCEPT !.out = w]
    BY <1>1, EarlyRound, Zenon DEF EarlyStep
  <1>3. /\ acc \in Accs /\ Len(acc.out) = i - 1 /\ acc.seen = IdsUpTo(z, i - 1)
        /\ \A k \in 1 .. i - 1 : acc.out[k] = z[k]
    BY Zenon DEF Same
  <1>4. acc.out \in Seq(Msgs) /\ acc.seen \in SUBSET Ids /\ acc.changed \in BOOLEAN
    BY <1>3, Zenon DEF Accs
  <1>5. /\ w \in Seq(Msgs) /\ Len(w) = Len(acc.out) + 1 /\ w[Len(acc.out) + 1] = z[i]
        /\ \A k \in 1 .. Len(acc.out) : w[k] = acc.out[k]
    BY ONLY <1>2, <1>4
  <1> HIDE DEF w
  <1>6. a \in Accs /\ a.out = w /\ a.seen = acc.seen
    BY ONLY <1>2, <1>3, <1>4, <1>5, Zenon DEF Accs
  <1>7. i - 1 + 1 = i /\ \A k \in 1 .. i : k \in 1 .. i - 1 \/ k = i
    OBVIOUS
  <1>8. \A k \in 1 .. i - 1 : k \in 1 .. i
    OBVIOUS
  <1>9. Len(w) = i /\ \A k \in 1 .. i : w[k] = z[k]
    BY <1>3, <1>5, <1>7, Zenon
  <1>10. IdsUpTo(z, i) = IdsUpTo(z, i - 1)
    BY <1>1, <1>7, <1>8, Zenon DEF IdsUpTo
  <1> QED BY <1>3, <1>6, <1>9, <1>10, Zenon DEF Same, a

\* A round finds again what a settled transcript has.
LEMMA FindsAgain ==
  ASSUME NEW z \in Seq(Msgs), Settled(z), NEW i \in 1 .. Len(z), IsAssistant(z[i]), NEW acc, Same(z, acc, i - 1)
  PROVE  Found(acc, z, i) = ResultIds(z, i)
  <1>1. ResultIds(z, i) \subseteq Range(CallsOf(z[i]))
    BY Zenon DEF Settled, Ordered
  <1>2. ASSUME NEW id \in ResultIds(z, i), id \in acc.seen PROVE FALSE
    <2>1. PICK k \in 1 .. i - 1 : IsResult(z[k]) /\ z[k].id = id
      <3>1. id \in IdsUpTo(z, i - 1)
        BY <1>2, Zenon DEF Same
      <3> QED BY ONLY <3>1, Zenon DEF IdsUpTo
    <2>2. k \in 1 .. Len(z) /\ \A j \in 1 .. k - 1 : j # i
      OBVIOUS
    <2>3. \E h \in 1 .. k : IsAssistant(z[h])
      BY <2>1, <2>2, Zenon DEF Settled
    <2>4. PICK j \in 1 .. k - 1 : j \in 1 .. Len(z) /\ IsAssistant(z[j]) /\ k \in Span(z, j)
      BY <2>1, <2>2, <2>3, InSpan, Zenon
    <2>5. id \in ResultIds(z, j)
      BY <2>1, <2>4, Zenon DEF ResultIds
    <2>6. ResultIds(z, j) \cap ResultIds(z, i) = {}
      BY <2>2, <2>4, Zenon DEF Settled
    <2> QED BY <1>2, <2>5, <2>6, Zenon
  <1> QED BY <1>1, <1>2, Zenon DEF Found

LEMMA SpanSame ==
  ASSUME NEW z \in Seq(Msgs), Settled(z), NEW i \in 1 .. Len(z), NEW e \in i .. Len(z), NEW acc,
         Same(z, acc, i - 1), IsAssistant(z[i]), Span(z, i) = i + 1 .. e
  PROVE  Same(z, RepairSpan(acc, z, i), e)
  <1> DEFINE a == RepairSpan(acc, z, i)
             o == acc.out
             F == ResultIds(z, i)
             P == Pushed(acc, z, i)
             T == Remainder(z, i)
             w == a.out
  <1>1. acc \in Accs /\ Len(o) = i - 1 /\ acc.seen = IdsUpTo(z, i - 1) /\ \A k \in 1 .. i - 1 : o[k] = z[k]
    BY Zenon DEF Same
  <1>2. o \in Seq(Msgs)
    BY <1>1, Zenon DEF Accs
  <1>3. z[i] \in Msgs
    OBVIOUS
  <1>4. Found(acc, z, i) = F
    BY FindsAgain, Zenon
  <1>5. a \in Accs /\ w = Glue(o, z[i], P, T) /\ a.seen = acc.seen \cup F
    <2>1. a \in Accs /\ w = Glue(o, z[i], P, T) /\ a.seen = acc.seen \cup Found(acc, z, i)
      BY <1>1, SpanRound, Zenon
    <2> HIDE DEF a, o, F, P, T, w
    <2> QED BY <1>4, <2>1, Zenon
  <1>6. T \in Seq(Msgs)
    BY SpanHolds, Zenon
  <1>7. P \in Seq(Msgs) /\ Answered(P, F) /\ \A k \in 1 .. Len(P) : IsResult(P[k])
    <2>1. P \in Seq(Msgs) /\ Answered(P, Found(acc, z, i)) /\ \A k \in 1 .. Len(P) : IsResult(P[k])
      BY <1>1, FoundTyped, Zenon
    <2> HIDE DEF a, o, F, P, T, w
    <2> QED BY <1>4, <2>1, Zenon
  <1>8. P = ResultsFor(CallsOf(z[i]), F)
    BY <1>4, Zenon DEF Pushed
  <1>9. T = InOrder(z, {j \in i + 1 .. e : ~ IsResult(z[j])})
    BY Zenon DEF Remainder
  <1>10. ~ IsResult(z[i])
    BY <1>3, Kinds, Zenon
  <1>11. /\ i + Len(P) <= Len(z)
         /\ \A k \in 1 .. Len(P) : z[i + k] = P[k]
         /\ \A j \in i + 1 .. e : IsResult(z[j]) => j <= i + Len(P)
    BY <1>8, Zenon DEF Settled, Ordered
  <1> HIDE DEF a, o, F, P, T, w
  <1>12. Parts(w, o, z[i], P, T) /\ w \in Seq(Msgs)
    <2>1. Glue(o, z[i], P, T) \in Seq(Msgs) /\ Parts(Glue(o, z[i], P, T), o, z[i], P, T)
      BY ONLY <1>2, <1>3, <1>6, <1>7, Glued
    <2> QED BY <1>5, <2>1, Zenon
  <1>13. i \in Nat /\ e \in Nat /\ i <= e /\ Len(z) \in Nat /\ Len(P) \in Nat /\ e <= Len(z)
    BY <1>7
  <1>14. \A j \in i + 1 .. i + Len(P) : IsResult(z[j])
    <2> SUFFICES ASSUME NEW j \in i + 1 .. i + Len(P) PROVE IsResult(z[j])
      BY Zenon
    <2>1. j - i \in 1 .. Len(P) /\ i + (j - i) = j
      BY <1>13
    <2>2. IsResult(P[j - i]) /\ z[j] = P[j - i]
      BY <1>7, <1>11, <2>1, Zenon
    <2> QED BY ONLY <2>2, Zenon
  <1>15. i + Len(P) <= e
    <2>1. CASE Len(P) = 0
      BY <1>13, <2>1
    <2>2. CASE Len(P) # 0
      <3>1. i + Len(P) \in i + 1 .. Len(z) /\ \A k \in i + 1 .. i + Len(P) : k \in 1 .. Len(z)
        BY <1>11, <1>13, <2>2
      <3>2. \A k \in i + 1 .. i + Len(P) : ~ IsAssistant(z[k])
        <4>1. \A k \in i + 1 .. i + Len(P) : z[k] \in Msgs
          BY <3>1
        <4> QED BY <1>14, <4>1, Kinds, Zenon
      <3>3. i + Len(P) \in i + 1 .. e
        BY <3>1, <3>2, Zenon DEF Span
      <3> QED BY <1>13, <3>3
    <2> QED BY <2>1, <2>2, Zenon
  <1> DEFINE b == i + Len(P)
  <1>16. {j \in i + 1 .. e : ~ IsResult(z[j])} = b + 1 .. e
    <2>1. \A j \in b + 1 .. e : j \in i + 1 .. e /\ ~ (j <= b)
      BY <1>13
    <2>2. \A j \in i + 1 .. e : j \in i + 1 .. b \/ j \in b + 1 .. e
      BY <1>13
    <2>3. \A j \in i + 1 .. e : IsResult(z[j]) => j <= b
      BY <1>11, Zenon
    <2>4. \A j \in i + 1 .. b : IsResult(z[j])
      BY <1>14, Zenon
    <2> HIDE DEF b
    <2>5. \A j \in b + 1 .. e : j \in i + 1 .. e /\ ~ IsResult(z[j])
      BY <2>1, <2>3, Zenon
    <2>6. \A j \in i + 1 .. e : ~ IsResult(z[j]) => j \in b + 1 .. e
      BY <2>2, <2>4, Zenon
    <2> QED BY <2>5, <2>6, Zenon
  <1>17. b \in Nat /\ b <= e
    BY <1>13, <1>15
  <1>18. Len(T) = e - b /\ \A k \in 1 .. e - b : T[k] = z[b + k]
    <2> HIDE DEF b
    <2>1. T = InOrder(z, b + 1 .. e)
      BY ONLY <1>9, <1>16, Zenon
    <2>2. z \in Seq(Msgs)
      OBVIOUS
    <2>3. Len(InOrder(z, b + 1 .. e)) = e - b /\ \A k \in 1 .. e - b : InOrder(z, b + 1 .. e)[k] = z[b + k]
      BY ONLY <1>13, <1>17, <2>2, FilterTail
    <2> QED BY ONLY <2>1, <2>3, Zenon
  <1>19. /\ Len(w) = Len(o) + 1 + Len(P) + Len(T) /\ (\A k \in 1 .. Len(o) : w[k] = o[k])
         /\ w[Len(o) + 1] = z[i] /\ (\A k \in 1 .. Len(P) : w[Len(o) + 1 + k] = P[k])
         /\ \A k \in 1 .. Len(T) : w[Len(o) + 1 + Len(P) + k] = T[k]
    BY <1>12, Zenon DEF Parts
  <1>20. Len(o) + 1 = i
    BY <1>1, <1>13
  <1>21. Len(w) = e
    <2>1. Len(w) = i + Len(P) + (e - b)
      BY ONLY <1>18, <1>19, <1>20, Zenon
    <2>2. b = i + Len(P)
      OBVIOUS
    <2> HIDE DEF b
    <2> QED BY ONLY <1>13, <1>17, <2>1, <2>2
  <1>22. ASSUME NEW k \in 1 .. e PROVE w[k] = z[k]
    <2>1. CASE k \in 1 .. i - 1
      BY <1>1, <1>19, <2>1, Zenon
    <2>2. CASE k = i
      BY <1>19, <1>20, <2>2, Zenon
    <2>3. CASE k \in i + 1 .. b
      <3>1. k - i \in 1 .. Len(P) /\ i + (k - i) = k
        BY <1>13, <2>3
      <3>2. w[i + (k - i)] = P[k - i] /\ z[i + (k - i)] = P[k - i]
        BY ONLY <1>11, <1>19, <1>20, <3>1, Zenon
      <3> QED BY ONLY <3>1, <3>2, Zenon
    <2>4. CASE k \in b + 1 .. e
      <3>1. k - b \in 1 .. e - b /\ b + (k - b) = k
        BY <1>13, <1>17, <2>4
      <3>2. w[b + (k - b)] = T[k - b]
        <4>1. k - b \in 1 .. Len(T)
          BY ONLY <1>18, <3>1, Zenon
        <4>2. w[Len(o) + 1 + Len(P) + (k - b)] = T[k - b]
          BY ONLY <1>19, <4>1, Zenon
        <4> QED BY ONLY <1>20, <4>2, Zenon DEF b
      <3>3. z[b + (k - b)] = T[k - b]
        BY ONLY <1>18, <3>1, Zenon
      <3> QED BY ONLY <3>1, <3>2, <3>3, Zenon
    <2> QED BY <1>13, <1>17, <2>1, <2>2, <2>3, <2>4
  <1>23. IdsUpTo(z, e) = IdsUpTo(z, i - 1) \cup F
    <2>1. \A k \in 1 .. e : k \in 1 .. i - 1 \/ k = i \/ k \in i + 1 .. e
      BY <1>13
    <2>2. (\A k \in 1 .. i - 1 : k \in 1 .. e) /\ \A k \in i + 1 .. e : k \in 1 .. e
      BY <1>13
    <2>3. \A id \in IdsUpTo(z, e) : id \in IdsUpTo(z, i - 1) \/ id \in F
      BY <1>10, <2>1, Zenon DEF IdsUpTo, ResultIds, F
    <2>4. \A id \in IdsUpTo(z, i - 1) : id \in IdsUpTo(z, e)
      BY <2>2, Zenon DEF IdsUpTo
    <2>5. \A id \in F : id \in IdsUpTo(z, e)
      BY <2>2, Zenon DEF IdsUpTo, ResultIds, F
    <2> QED BY <2>3, <2>4, <2>5, Zenon
  <1>24. a.seen = IdsUpTo(z, e)
    BY <1>1, <1>5, <1>23, Zenon
  <1>25. \A k \in 1 .. e : w[k] = z[k]
    BY <1>22, Zenon
  <1> QED BY <1>5, <1>21, <1>24, <1>25, Zenon DEF Same, a, w

\* The rounds copy a settled transcript.
LEMMA SettledStays ==
  ASSUME NEW z \in Seq(Msgs), Settled(z) PROVE RepairPairing(z) = z
  <1> DEFINE G == {g \in Accs \X (0 .. Len(z)) : Same(z, g[1], g[2])}
             r == Rounds(z)[Len(z)]
  <1>1. Len(z) \in Nat
    OBVIOUS
  <1>2. \A acc, e : <<acc, e>> \in G <=> e \in 0 .. Len(z) /\ Same(z, acc, e)
    <2>1. \A acc, e : Same(z, acc, e) => acc \in Accs
      BY Zenon DEF Same
    <2> HIDE DEF Accs
    <2> QED BY <2>1
  <1>3. Same(z, Start, 0)
    <2>1. Start \in Accs /\ Start.out = <<>> /\ Start.seen = {} /\ Len(<<>>) = 0
      BY DEF Start, Accs
    <2>2. \A k \in 1 .. 0 : FALSE
      OBVIOUS
    <2>3. IdsUpTo(z, 0) = {}
      BY <2>2, Zenon DEF IdsUpTo
    <2> QED BY <2>1, <2>2, <2>3, Zenon DEF Same
  <1>4. 0 \in 0 .. Len(z) /\ \A i \in 1 .. Len(z) : i \in 0 .. Len(z) /\ \A e \in i .. Len(z) : e \in 0 .. Len(z)
    BY <1>1
  <1> HIDE DEF G, r
  <1>5. \A acc : \A i \in 1 .. Len(z) : \A e \in i .. Len(z) :
            <<acc, i - 1>> \in G /\ IsAssistant(z[i]) /\ Span(z, i) = i + 1 .. e
            => <<RepairSpan(acc, z, i), e>> \in G
    BY <1>2, <1>4, SpanSame, Zenon
  <1>6. \A acc : \A i \in 1 .. Len(z) :
            <<acc, i - 1>> \in G /\ NoHeads(z, i) => <<RepairMessage(acc, z, i), i>> \in G
    BY <1>2, <1>4, EarlySame, Zenon
  <1>7. <<Start, 0>> \in G
    BY <1>2, <1>3, <1>4, Zenon
  <1>8. <<r, Len(z)>> \in G
    BY <1>1, <1>5, <1>6, <1>7, RoundsReach, Zenon DEF r
  <1>9. r \in Accs /\ Len(r.out) = Len(z) /\ \A k \in 1 .. Len(z) : r.out[k] = z[k]
    BY <1>2, <1>8, Zenon DEF Same
  <1>10. r.out = z
    <2>1. r.out \in Seq(Msgs)
      BY <1>9, Zenon DEF Accs
    <2> QED BY <1>9, <2>1, SameSeq, Zenon
  <1> QED BY <1>10, Zenon DEF RepairPairing, r

LEMMA PairingStable ==
  ASSUME NEW ms \in Seq(Msgs) PROVE RepairPairing(RepairPairing(ms)) = RepairPairing(ms)
  <1> DEFINE w == RepairPairing(ms)
  <1>1. w \in Seq(Msgs) /\ (w = ms \/ Settled(w))
    BY PairingPairs, Zenon
  <1>2. CASE w = ms
    BY <1>2, Zenon
  <1>3. CASE Settled(w)
    <2> HIDE DEF w
    <2>1. RepairPairing(w) = w
      BY <1>1, <1>3, SettledStays, Zenon
    <2> QED BY <2>1, Zenon DEF w
  <1> QED BY <1>1, <1>2, <1>3, Zenon

\* Sanitizing what was saved changes nothing.
LEMMA SavedAgain ==
  ASSUME NEW ms \in Seq(Msgs)
  PROVE  Sanitize(Saved(ms)) = Saved(ms) /\ Saved(Saved(ms)) = Saved(ms)
  <1> DEFINE v == Latest(Sanitize(ms))
             w == Saved(ms)
  <1>1. w \in Seq(Msgs) /\ Sound(w) /\ Len(w) <= MaxSession /\ v \in Seq(Msgs) /\ w = RepairPairing(v)
    BY SavedParts, Zenon DEF Sanitary
  <1> HIDE DEF v, w
  <1>2. RepairPairing(w) = w
    BY <1>1, PairingStable, Zenon
  <1>3. Sanitize(w) = w
    BY <1>1, <1>2, Sanitized, Zenon
  <1>4. Latest(w) = w
    BY <1>1, LatestPart, Zenon
  <1>5. Saved(w) = w
    BY <1>3, <1>4, Zenon DEF Saved
  <1> QED BY <1>3, <1>5, Zenon DEF w

\* Loading a session and saving it again, however often, changes nothing.
THEOREM SavedStands == TranscriptSpec => []SavedIsStable
  <1>1. TranscriptInv => SavedIsStable
    BY SavedAgain, Zenon DEF TranscriptInv, SavedIsStable, Reloaded
  <1> QED BY <1>1, RunsMessages, PTL

\* The positions, up to e, of what is no result.
TalkUpTo(ms, e) == {k \in 1 .. e : ~ IsResult(ms[k])}

LEMMA TalkIs ==
  ASSUME NEW z \in Seq(Msgs)
  PROVE  /\ Talk(z) = InOrder(z, TalkUpTo(z, Len(z))) /\ TalkUpTo(z, Len(z)) \in SUBSET (1 .. Len(z))
         /\ Talk(z) \in Seq(Msgs)
  <1>1. DOMAIN z = 1 .. Len(z)
    OBVIOUS
  <1>2. TalkUpTo(z, Len(z)) \in SUBSET (1 .. Len(z))
    BY Zenon DEF TalkUpTo
  <1>3. Talk(z) = InOrder(z, TalkUpTo(z, Len(z)))
    BY <1>1, Zenon DEF Talk, TalkUpTo
  <1> QED BY <1>2, <1>3, Shorter, Zenon

\* The filter of the later part of a transcript, which is found in it moved by d.
LEMMA TalkOfPart ==
  ASSUME NEW y \in Seq(Msgs), NEW v \in Seq(Msgs), NEW d \in Nat, Len(y) = d + Len(v),
         \A k \in 1 .. Len(v) : v[k] = y[k + d]
  PROVE  Talk(y) = InOrder(y, TalkUpTo(y, d)) \o Talk(v)
  <1> DEFINE K == TalkUpTo(v, Len(v))
             A == TalkUpTo(y, d)
             L == {k \in d + 1 .. Len(y) : ~ IsResult(y[k])}
  <1>1. Len(v) \in Nat /\ Len(y) \in Nat
    OBVIOUS
  <1>2. Talk(v) = InOrder(v, K) /\ K \in SUBSET (1 .. Len(v)) /\ Talk(y) = InOrder(y, TalkUpTo(y, Len(y)))
    BY TalkIs, Zenon
  <1>3. /\ \A k \in 1 .. Len(v) : k + d \in d + 1 .. Len(y)
        /\ \A k \in d + 1 .. Len(y) : k - d \in 1 .. Len(v) /\ (k - d) + d = k /\ k \in 1 .. Len(y)
        /\ \A k \in 1 .. d : k \in 1 .. Len(y) /\ \A j \in d + 1 .. Len(y) : k < j
        /\ \A k \in 1 .. Len(y) : k \in 1 .. d \/ k \in d + 1 .. Len(y)
    BY <1>1
  <1>4. \A k \in K : k + d \in L /\ y[k + d] = v[k]
    BY <1>3, Zenon DEF TalkUpTo
  <1>5. \A k \in L : k - d \in K
    BY <1>3, Zenon DEF TalkUpTo
  <1>6. L \in SUBSET (1 .. Len(y)) /\ A \in SUBSET (1 .. Len(y)) /\ \A k \in A, j \in L : k < j
    BY <1>3, Zenon DEF TalkUpTo
  <1>7. TalkUpTo(y, Len(y)) = A \cup L
    BY <1>3, Zenon DEF TalkUpTo
  <1>8. d \in Int
    OBVIOUS
  <1> HIDE DEF K, L, A
  <1>9. InOrder(y, L) = InOrder(v, K)
    BY ONLY <1>2, <1>4, <1>5, <1>6, <1>8, FilterMoved, v \in Seq(Msgs), y \in Seq(Msgs), ZenonT(60)
  <1>10. InOrder(y, A \cup L) = InOrder(y, A) \o InOrder(y, L)
    BY ONLY <1>6, FilterJoin, y \in Seq(Msgs), Zenon
  <1> QED BY ONLY <1>2, <1>7, <1>9, <1>10, Zenon DEF A

\* The talk of two transcripts one after the other.
LEMMA TalkJoin ==
  ASSUME NEW a \in Seq(Msgs), NEW b \in Seq(Msgs)
  PROVE  a \o b \in Seq(Msgs) /\ Talk(a \o b) = Talk(a) \o Talk(b)
  <1> DEFINE y == a \o b
             d == Len(a)
  <1>1. /\ y \in Seq(Msgs) /\ Len(y) = d + Len(b) /\ (\A i \in 1 .. d : y[i] = a[i])
        /\ \A i \in 1 .. Len(b) : y[d + i] = b[i]
    BY Joined
  <1>2. d \in Nat /\ Len(b) \in Nat /\ Len(y) \in Nat
    BY <1>1
  <1> HIDE DEF y
  <1>3. \A i \in 1 .. Len(b) : b[i] = y[i + d]
    <2>1. \A i \in 1 .. Len(b) : i + d = d + i
      BY <1>2
    <2> QED BY <1>1, <2>1, Zenon
  <1>4. Talk(y) = InOrder(y, TalkUpTo(y, d)) \o Talk(b)
    BY <1>1, <1>2, <1>3, TalkOfPart, Zenon
  <1>5. InOrder(y, TalkUpTo(y, d)) = Talk(a)
    <2> DEFINE K == TalkUpTo(a, d)
    <2>1. TalkUpTo(y, d) = K
      BY <1>1, Zenon DEF TalkUpTo
    <2>2. Talk(a) = InOrder(a, K) /\ K \in SUBSET (1 .. Len(a))
      BY TalkIs, Zenon
    <2>3. \A k \in 1 .. d : k + 0 = k /\ k - 0 = k /\ k \in 1 .. Len(y)
      BY <1>1, <1>2
    <2>4. \A k \in K : k + 0 \in K /\ y[k + 0] = a[k] /\ k - 0 \in K /\ k \in 1 .. Len(y)
      BY <1>1, <2>3, Zenon DEF TalkUpTo
    <2>5. K \in SUBSET (1 .. Len(y)) /\ 0 \in Int
      BY <2>4
    <2> HIDE DEF K, d
    <2>6. InOrder(y, K) = InOrder(a, K)
      BY ONLY <1>1, <2>2, <2>4, <2>5, FilterMoved, a \in Seq(Msgs), ZenonT(60)
    <2> QED BY ONLY <2>1, <2>2, <2>6, Zenon
  <1> QED BY <1>1, <1>4, <1>5, Zenon DEF y

LEMMA TalkNone ==
  ASSUME NEW P \in Seq(Msgs), \A k \in 1 .. Len(P) : IsResult(P[k]) PROVE Talk(P) = <<>>
  <1>1. Talk(P) = InOrder(P, TalkUpTo(P, Len(P)))
    BY TalkIs, Zenon
  <1>2. TalkUpTo(P, Len(P)) = {}
    BY Zenon DEF TalkUpTo
  <1>3. InOrder(P, {}) = <<>>
    BY FilterNone
  <1> QED BY <1>1, <1>2, <1>3, Zenon

LEMMA TalkAll ==
  ASSUME NEW T \in Seq(Msgs), \A k \in 1 .. Len(T) : ~ IsResult(T[k]) PROVE Talk(T) = T
  <1>1. Talk(T) = InOrder(T, TalkUpTo(T, Len(T)))
    BY TalkIs, Zenon
  <1>2. TalkUpTo(T, Len(T)) = 1 .. Len(T)
    BY Zenon DEF TalkUpTo
  <1>3. InOrder(T, 1 .. Len(T)) = T
    BY FilterAll
  <1> QED BY <1>1, <1>2, <1>3, Zenon

\* One more message that is no result.
LEMMA TalkGrows ==
  ASSUME NEW ms \in Seq(Msgs), NEW i \in 1 .. Len(ms), ~ IsResult(ms[i])
  PROVE  /\ InOrder(ms, TalkUpTo(ms, i)) = InOrder(ms, TalkUpTo(ms, i - 1)) \o <<ms[i]>>
         /\ TalkUpTo(ms, i) \in SUBSET (1 .. Len(ms)) /\ InOrder(ms, TalkUpTo(ms, i)) \in Seq(Msgs)
  <1> DEFINE A == TalkUpTo(ms, i - 1)
             L == i - 1 + 1 .. i
  <1>1. Len(ms) \in Nat /\ i \in Nat /\ i - 1 \in Nat /\ i - 1 <= i /\ i <= Len(ms) /\ L = {i} /\ i - (i - 1) = 1 /\ (i - 1) + 1 = i
    OBVIOUS
  <1>2. (\A k \in 1 .. i - 1 : k \in 1 .. Len(ms) /\ k < i) /\ (\A k \in 1 .. i : k \in 1 .. i - 1 \/ k = i)
        /\ (\A k \in 1 .. i - 1 : k \in 1 .. i) /\ i \in 1 .. i /\ \A k \in 1 .. i : k \in 1 .. Len(ms)
    BY <1>1
  <1>3. TalkUpTo(ms, i) = A \cup {i} /\ A \in SUBSET (1 .. Len(ms)) /\ {i} \in SUBSET (1 .. Len(ms)) /\ \A k \in A, j \in {i} : k < j
    BY <1>2, Zenon DEF TalkUpTo
  <1>4. Len(InOrder(ms, L)) = i - (i - 1) /\ \A k \in 1 .. i - (i - 1) : InOrder(ms, L)[k] = ms[i - 1 + k]
    BY ONLY <1>1, FilterTail, ms \in Seq(Msgs), Zenon
  <1>5. InOrder(ms, {i}) \in Seq(Msgs)
    BY <1>3, Shorter, Zenon
  <1>6. Len(InOrder(ms, {i})) = 1 /\ InOrder(ms, {i})[1] = ms[i]
    <2>1. 1 \in 1 .. 1
      OBVIOUS
    <2> QED BY <1>1, <1>4, <2>1, Zenon
  <1>7. InOrder(ms, {i}) = <<ms[i]>>
    BY ONLY <1>5, <1>6
  <1> HIDE DEF A
  <1>8. InOrder(ms, A \cup {i}) = InOrder(ms, A) \o InOrder(ms, {i})
    BY ONLY <1>3, FilterJoin, ms \in Seq(Msgs), Zenon
  <1>9. TalkUpTo(ms, i) \in SUBSET (1 .. Len(ms))
    BY <1>3, Zenon
  <1>10. InOrder(ms, TalkUpTo(ms, i)) \in Seq(Msgs)
    BY <1>9, Shorter, Zenon
  <1> QED BY ONLY <1>3, <1>7, <1>8, <1>9, <1>10, Zenon DEF A

\* What the rounds have let out, apart from results, is what they were given.
Says(ms, acc, e) == acc \in Accs /\ Talk(acc.out) = InOrder(ms, TalkUpTo(ms, e))

LEMMA EarlySays ==
  ASSUME NEW ms \in Seq(Msgs), NEW i \in 1 .. Len(ms), NoHeads(ms, i), NEW acc, Says(ms, acc, i - 1)
  PROVE  Says(ms, RepairMessage(acc, ms, i), i)
  <1> DEFINE a == RepairMessage(acc, ms, i)
  <1>1. acc \in Accs /\ Talk(acc.out) = InOrder(ms, TalkUpTo(ms, i - 1))
    BY Zenon DEF Says
  <1>2. acc.out \in Seq(Msgs) /\ acc.seen \in SUBSET Ids /\ acc.changed \in BOOLEAN
    BY <1>1, Zenon DEF Accs
  <1>3. ms[i] \in Msgs
    OBVIOUS
  <1>4. CASE IsResult(ms[i])
    <2>1. a = [acc EXCEPT !.changed = TRUE]
      <3>1. EarlyStep(a, acc, ms[i])
        BY EarlyRound, Zenon
      <3> QED BY ONLY <1>4, <3>1, SMT DEF EarlyStep
    <2>2. a \in Accs /\ a.out = acc.out
      BY ONLY <1>1, <1>2, <2>1, Zenon DEF Accs
    <2>3. (\A k \in 1 .. i : k \in 1 .. i - 1 \/ k = i) /\ \A k \in 1 .. i - 1 : k \in 1 .. i
      OBVIOUS
    <2>4. TalkUpTo(ms, i) = TalkUpTo(ms, i - 1)
      BY <1>4, <2>3, Zenon DEF TalkUpTo
    <2> QED BY <1>1, <2>2, <2>4, Zenon DEF Says
  <1>5. CASE ~ IsResult(ms[i])
    <2> DEFINE z == Append(acc.out, ms[i])
               one == <<ms[i]>>
    <2>1. a = [acc EXCEPT !.out = z]
      BY <1>5, EarlyRound, Zenon DEF EarlyStep
    <2>2. z = acc.out \o one /\ z \in Seq(Msgs) /\ one \in Seq(Msgs) /\ Len(one) = 1 /\ one[1] = ms[i]
      <3>1. z = acc.out \o one
        BY ONLY <1>2, <1>3, AppendJoins, Zenon
      <3>2. z \in Seq(Msgs) /\ one \in Seq(Msgs) /\ Len(one) = 1 /\ one[1] = ms[i]
        BY ONLY <1>2, <1>3
      <3> QED BY ONLY <3>1, <3>2, Zenon
    <2> HIDE DEF z, one
    <2>3. a \in Accs /\ a.out = z
      BY ONLY <1>1, <1>2, <2>1, <2>2, Zenon DEF Accs
    <2>4. \A k \in 1 .. Len(one) : k = 1
      BY <2>2
    <2>5. \A k \in 1 .. Len(one) : ~ IsResult(one[k])
      BY ONLY <1>5, <2>2, <2>4, Zenon
    <2>6. Talk(one) = one
      BY <2>2, <2>5, TalkAll, Zenon
    <2>7. Talk(z) = Talk(acc.out) \o one
      BY ONLY <1>2, <2>2, <2>6, TalkJoin, Zenon
    <2>8. InOrder(ms, TalkUpTo(ms, i)) = InOrder(ms, TalkUpTo(ms, i - 1)) \o one
      BY <1>5, TalkGrows, Zenon DEF one
    <2>9. Talk(z) = InOrder(ms, TalkUpTo(ms, i))
      BY ONLY <1>1, <2>7, <2>8, Zenon
    <2> QED BY <2>3, <2>9, Zenon DEF Says
  <1> QED BY <1>4, <1>5, Zenon

LEMMA SpanSays ==
  ASSUME NEW ms \in Seq(Msgs), NEW i \in 1 .. Len(ms), NEW e \in i .. Len(ms), NEW acc,
         Says(ms, acc, i - 1), IsAssistant(ms[i]), Span(ms, i) = i + 1 .. e
  PROVE  Says(ms, RepairSpan(acc, ms, i), e)
  <1> DEFINE a == RepairSpan(acc, ms, i)
             o == acc.out
             P == Pushed(acc, ms, i)
             T == Remainder(ms, i)
             B == {j \in i + 1 .. e : ~ IsResult(ms[j])}
             one == <<ms[i]>>
  <1>1. acc \in Accs /\ Talk(o) = InOrder(ms, TalkUpTo(ms, i - 1))
    BY Zenon DEF Says
  <1>2. o \in Seq(Msgs)
    BY <1>1, Zenon DEF Accs
  <1>3. ms[i] \in Msgs
    OBVIOUS
  <1>4. ~ IsResult(ms[i])
    BY <1>3, Kinds, Zenon
  <1>5. a \in Accs /\ a.out = Glue(o, ms[i], P, T)
    BY <1>1, SpanRound, Zenon
  <1>6. T \in Seq(Msgs) /\ \A k \in 1 .. Len(T) : ~ IsAssistant(T[k]) /\ ~ IsResult(T[k])
    BY SpanHolds, Zenon
  <1>7. P \in Seq(Msgs) /\ \A k \in 1 .. Len(P) : IsResult(P[k])
    BY <1>1, FoundTyped, Zenon
  <1>8. T = InOrder(ms, B)
    BY Zenon DEF Remainder
  <1>9. a.out = o \o one \o P \o T
    BY <1>5, Zenon DEF Glue
  <1>10. one \in Seq(Msgs) /\ Len(one) = 1 /\ one[1] = ms[i]
    BY ONLY <1>3
  <1> HIDE DEF a, o, P, T, one
  <1>11. Talk(one) = one
    <2>1. \A k \in 1 .. Len(one) : k = 1
      BY <1>10
    <2>2. \A k \in 1 .. Len(one) : ~ IsResult(one[k])
      BY ONLY <1>4, <1>10, <2>1, Zenon
    <2> QED BY <1>10, <2>2, TalkAll, Zenon
  <1>12. Talk(P) = <<>> /\ Talk(T) = T
    <2>1. Talk(P) = <<>>
      BY ONLY <1>7, TalkNone, Zenon
    <2>2. Talk(T) = T
      BY ONLY <1>6, TalkAll, Zenon
    <2> QED BY <2>1, <2>2, Zenon
  <1>13. o \o one \in Seq(Msgs) /\ Talk(o \o one) = Talk(o) \o one
    <2>1. o \o one \in Seq(Msgs) /\ Talk(o \o one) = Talk(o) \o Talk(one)
      BY ONLY <1>2, <1>10, TalkJoin, Zenon
    <2> QED BY ONLY <1>11, <2>1, Zenon
  <1>14. o \o one \o P \in Seq(Msgs) /\ Talk(o \o one \o P) = Talk(o \o one) \o <<>>
    BY ONLY <1>7, <1>12, <1>13, TalkJoin, Zenon
  <1>15. Talk(o \o one \o P \o T) = Talk(o \o one \o P) \o T
    BY ONLY <1>6, <1>12, <1>14, TalkJoin, Zenon
  <1>16. Talk(o \o one) \o <<>> = Talk(o \o one)
    <2>1. Talk(o \o one) \in Seq(Msgs)
      BY <1>13, TalkIs, Zenon
    <2> QED BY ONLY <2>1, JoinsNothing, Zenon
  <1>17. Talk(a.out) = (InOrder(ms, TalkUpTo(ms, i - 1)) \o one) \o T
    BY ONLY <1>1, <1>9, <1>13, <1>14, <1>15, <1>16, Zenon
  <1>18. /\ InOrder(ms, TalkUpTo(ms, i)) = InOrder(ms, TalkUpTo(ms, i - 1)) \o one
         /\ TalkUpTo(ms, i) \in SUBSET (1 .. Len(ms))
    BY <1>4, TalkGrows, Zenon DEF one
  <1>19. /\ \A k \in 1 .. e : k \in 1 .. i \/ k \in i + 1 .. e
         /\ \A k \in 1 .. i : k \in 1 .. e /\ \A j \in i + 1 .. e : k < j
         /\ \A k \in i + 1 .. e : k \in 1 .. e /\ k \in 1 .. Len(ms)
    OBVIOUS
  <1>20. TalkUpTo(ms, e) = TalkUpTo(ms, i) \cup B /\ B \in SUBSET (1 .. Len(ms)) /\ \A k \in TalkUpTo(ms, i), j \in B : k < j
    BY <1>19, Zenon DEF TalkUpTo
  <1> HIDE DEF B
  <1>21. InOrder(ms, TalkUpTo(ms, i) \cup B) = InOrder(ms, TalkUpTo(ms, i)) \o InOrder(ms, B)
    BY ONLY <1>18, <1>20, FilterJoin, ms \in Seq(Msgs), Zenon
  <1>22. Talk(a.out) = InOrder(ms, TalkUpTo(ms, e))
    BY ONLY <1>8, <1>17, <1>18, <1>20, <1>21, Zenon
  <1> QED BY <1>5, <1>22, Zenon DEF Says, a

\* The pairing changes nothing but the results.
LEMMA PairingTalks ==
  ASSUME NEW ms \in Seq(Msgs) PROVE Talk(RepairPairing(ms)) = Talk(ms)
  <1> DEFINE G == {g \in Accs \X (0 .. Len(ms)) : Says(ms, g[1], g[2])}
             r == Rounds(ms)[Len(ms)]
  <1>1. Len(ms) \in Nat
    OBVIOUS
  <1>2. \A acc, e : <<acc, e>> \in G <=> e \in 0 .. Len(ms) /\ Says(ms, acc, e)
    <2>1. \A acc, e : Says(ms, acc, e) => acc \in Accs
      BY Zenon DEF Says
    <2> HIDE DEF Accs
    <2> QED BY <2>1
  <1>3. Says(ms, Start, 0)
    <2>1. Start \in Accs /\ Start.out = <<>> /\ <<>> \in Seq(Msgs) /\ \A k \in 1 .. Len(<<>>) : IsResult(<<>>[k])
      BY DEF Start, Accs
    <2>2. Talk(<<>>) = <<>>
      BY <2>1, TalkNone, Zenon
    <2>3. TalkUpTo(ms, 0) = {}
      BY DEF TalkUpTo
    <2>4. InOrder(ms, {}) = <<>>
      BY FilterNone
    <2> QED BY <2>1, <2>2, <2>3, <2>4, Zenon DEF Says
  <1>4. 0 \in 0 .. Len(ms) /\ \A i \in 1 .. Len(ms) : i \in 0 .. Len(ms) /\ \A e \in i .. Len(ms) : e \in 0 .. Len(ms)
    BY <1>1
  <1> HIDE DEF G, r
  <1>5. \A acc : \A i \in 1 .. Len(ms) : \A e \in i .. Len(ms) :
            <<acc, i - 1>> \in G /\ IsAssistant(ms[i]) /\ Span(ms, i) = i + 1 .. e
            => <<RepairSpan(acc, ms, i), e>> \in G
    BY <1>2, <1>4, SpanSays, Zenon
  <1>6. \A acc : \A i \in 1 .. Len(ms) :
            <<acc, i - 1>> \in G /\ NoHeads(ms, i) => <<RepairMessage(acc, ms, i), i>> \in G
    BY <1>2, <1>4, EarlySays, Zenon
  <1>7. <<Start, 0>> \in G
    BY <1>2, <1>3, <1>4, Zenon
  <1>8. <<r, Len(ms)>> \in G
    BY <1>1, <1>5, <1>6, <1>7, RoundsReach, Zenon DEF r
  <1>9. Talk(r.out) = Talk(ms)
    BY <1>2, <1>8, TalkIs, Zenon DEF Says
  <1> QED BY <1>9, Zenon DEF RepairPairing, r

\* No two results have an id in common.
Distinct(ms) ==
  \A j, k \in 1 .. Len(ms) : IsResult(ms[j]) /\ IsResult(ms[k]) /\ j # k => ms[j].id # ms[k].id

\* The rounds have let out as many messages as they were given, and the same.
Carries(ms, acc, e) ==
  /\ acc \in Accs /\ Len(acc.out) = e /\ acc.seen = IdsUpTo(ms, e)
  /\ \A k \in 1 .. e : \E j \in 1 .. e : acc.out[j] = ms[k]
  /\ \A j \in 1 .. e : \E k \in 1 .. e : acc.out[j] = ms[k]

LEMMA EarlyCarries ==
  ASSUME NEW ms \in Seq(Msgs), Paired(ms), NEW i \in 1 .. Len(ms), NoHeads(ms, i), NEW acc, Carries(ms, acc, i - 1)
  PROVE  Carries(ms, RepairMessage(acc, ms, i), i)
  <1> DEFINE a == RepairMessage(acc, ms, i)
             w == Append(acc.out, ms[i])
  <1>0. /\ \A k \in 1 .. i : k \in 1 .. i - 1 \/ k = i
        /\ \A k \in 1 .. i - 1 : k \in 1 .. i
        /\ i - 1 + 1 = i /\ i \in 1 .. i
    OBVIOUS
  <1>1. ~ IsResult(ms[i])
    BY <1>0, Zenon DEF Paired, NoHeads
  <1>2. ms[i] \in Msgs /\ a = [acc EXCEPT !.out = w]
    BY <1>1, EarlyRound, Zenon DEF EarlyStep
  <1>3. /\ acc \in Accs /\ Len(acc.out) = i - 1 /\ acc.seen = IdsUpTo(ms, i - 1)
        /\ \A k \in 1 .. i - 1 : \E j \in 1 .. i - 1 : acc.out[j] = ms[k]
        /\ \A j \in 1 .. i - 1 : \E k \in 1 .. i - 1 : acc.out[j] = ms[k]
    BY Zenon DEF Carries
  <1>4. acc.out \in Seq(Msgs) /\ acc.seen \in SUBSET Ids /\ acc.changed \in BOOLEAN
    BY <1>3, Zenon DEF Accs
  <1>5. /\ w \in Seq(Msgs) /\ Len(w) = Len(acc.out) + 1 /\ w[Len(acc.out) + 1] = ms[i]
        /\ \A k \in 1 .. Len(acc.out) : w[k] = acc.out[k]
    BY ONLY <1>2, <1>4
  <1> HIDE DEF w
  <1>6. a \in Accs /\ a.out = w /\ a.seen = acc.seen
    BY ONLY <1>2, <1>3, <1>4, <1>5, ZenonT(60) DEF Accs
  <1>7. Len(w) = i /\ w[i] = ms[i] /\ \A k \in 1 .. i - 1 : w[k] = acc.out[k]
    BY ONLY <1>0, <1>3, <1>5, Zenon
  <1>8. IdsUpTo(ms, i) = IdsUpTo(ms, i - 1)
    BY <1>0, <1>1, Zenon DEF IdsUpTo
  <1>9. ASSUME NEW k \in 1 .. i PROVE \E j \in 1 .. i : w[j] = ms[k]
    <2>1. CASE k = i
      BY ONLY <1>0, <1>7, <2>1, Zenon
    <2>2. CASE k \in 1 .. i - 1
      <3>1. PICK j \in 1 .. i - 1 : acc.out[j] = ms[k]
        BY ONLY <1>3, <2>2, Zenon
      <3>2. j \in 1 .. i /\ w[j] = ms[k]
        BY ONLY <1>0, <1>7, <3>1, Zenon
      <3> QED BY <3>2, Zenon
    <2> QED BY <1>0, <2>1, <2>2, ZenonT(60)
  <1>10. ASSUME NEW j \in 1 .. i PROVE \E k \in 1 .. i : w[j] = ms[k]
    <2>1. CASE j = i
      BY ONLY <1>0, <1>7, <2>1, Zenon
    <2>2. CASE j \in 1 .. i - 1
      <3>1. PICK k \in 1 .. i - 1 : acc.out[j] = ms[k]
        BY ONLY <1>3, <2>2, Zenon
      <3>2. k \in 1 .. i /\ w[j] = ms[k]
        BY ONLY <1>0, <1>7, <2>2, <3>1, Zenon
      <3> QED BY <3>2, Zenon
    <2> QED BY <1>0, <2>1, <2>2, Zenon
  <1> QED BY ONLY <1>3, <1>6, <1>7, <1>8, <1>9, <1>10, ZenonT(60) DEF Carries, a

\* A round finds all the results of a span of a paired transcript.
LEMMA FindsAll ==
  ASSUME NEW ms \in Seq(Msgs), Paired(ms), Distinct(ms), NEW i \in 1 .. Len(ms), NEW e \in i .. Len(ms),
         NEW acc, Carries(ms, acc, i - 1), IsAssistant(ms[i]), Span(ms, i) = i + 1 .. e
  PROVE  Found(acc, ms, i) = ResultIds(ms, i)
  <1>0. ms[i] \in Msgs
    OBVIOUS
  <1>1. ~ IsResult(ms[i])
    BY <1>0, Kinds, Zenon
  <1>2. ASSUME NEW k \in i + 1 .. e, IsResult(ms[k])
        PROVE  ms[k].id \in Range(CallsOf(ms[i])) /\ ms[k].id \notin acc.seen
    <2>1. k \in 1 .. Len(ms)
      OBVIOUS
    <2>2. PICK j \in 1 .. k - 1 : /\ IsAssistant(ms[j]) /\ ms[j].stop = "stop"
                                  /\ ms[k].id \in Range(ms[j].calls)
                                  /\ \A h \in j + 1 .. k : IsResult(ms[h])
      BY <1>2, <2>1, Zenon DEF Paired
    <2>3. ~ (j < i)
      <3>1. j < i => i \in j + 1 .. k
        BY <2>2
      <3> QED BY <1>1, <2>2, <3>1, Zenon
    <2>4. ~ (j > i)
      <3>1. j > i => j \in i + 1 .. k /\ k \in Span(ms, i)
        BY <2>2
      <3> QED BY <2>2, <3>1, Zenon DEF Span
    <2>5. j = i
      BY <2>2, <2>3, <2>4
    <2>6. CallsOf(ms[i]) = ms[i].calls
      <3>1. "stop" \notin {"error", "aborted"}
        OBVIOUS
      <3> QED BY <2>2, <2>5, <3>1, Zenon DEF CallsOf
    <2>7. ms[k].id \in Range(CallsOf(ms[i]))
      BY ONLY <2>2, <2>5, <2>6, Zenon
    <2>8. ms[k].id \notin acc.seen
      <3> SUFFICES ASSUME ms[k].id \in acc.seen PROVE FALSE
        BY Zenon
      <3>1. ms[k].id \in IdsUpTo(ms, i - 1)
        BY Zenon DEF Carries
      <3>2. PICK h \in 1 .. i - 1 : IsResult(ms[h]) /\ ms[h].id = ms[k].id
        BY ONLY <3>1, Zenon DEF IdsUpTo
      <3>3. h # k /\ h \in 1 .. Len(ms)
        BY <3>2
      <3> QED BY <1>2, <2>1, <3>2, <3>3, Zenon DEF Distinct
    <2> QED BY <2>7, <2>8, Zenon
  <1> QED BY <1>2, Zenon DEF Found, ResultIds

LEMMA SpanCarries ==
  ASSUME NEW ms \in Seq(Msgs), Paired(ms), Distinct(ms), NEW i \in 1 .. Len(ms), NEW e \in i .. Len(ms),
         NEW acc, Carries(ms, acc, i - 1), IsAssistant(ms[i]), Span(ms, i) = i + 1 .. e
  PROVE  Carries(ms, RepairSpan(acc, ms, i), e)
  <1> DEFINE a == RepairSpan(acc, ms, i)
             o == acc.out
             F == ResultIds(ms, i)
             P == Pushed(acc, ms, i)
             T == Remainder(ms, i)
             B == {j \in i + 1 .. e : ~ IsResult(ms[j])}
             w == a.out
  <1>1. /\ acc \in Accs /\ Len(o) = i - 1 /\ acc.seen = IdsUpTo(ms, i - 1)
        /\ \A k \in 1 .. i - 1 : \E j \in 1 .. i - 1 : o[j] = ms[k]
        /\ \A j \in 1 .. i - 1 : \E k \in 1 .. i - 1 : o[j] = ms[k]
    BY Zenon DEF Carries
  <1>2. o \in Seq(Msgs)
    BY <1>1, Zenon DEF Accs
  <1>3. ms[i] \in Msgs /\ \A k \in i + 1 .. e : ms[k] \in Msgs
    OBVIOUS
  <1>4. Found(acc, ms, i) = F
    BY FindsAll, Zenon
  <1>5. a \in Accs /\ w = Glue(o, ms[i], P, T) /\ a.seen = acc.seen \cup F
    <2>1. a \in Accs /\ w = Glue(o, ms[i], P, T) /\ a.seen = acc.seen \cup Found(acc, ms, i)
      BY <1>1, SpanRound, Zenon
    <2> HIDE DEF a, o, F, P, T, w
    <2> QED BY <1>4, <2>1, Zenon
  <1>6. /\ T \in Seq(Msgs)
        /\ \E g : Lists(g, B, Len(T)) /\ \A k \in 1 .. Len(T) : T[k] = ms[g[k]]
    <2>1. T \in Seq(Msgs) /\ RestOf(T, ms, i, e)
      BY SpanHolds, Zenon
    <2> QED BY <2>1, Zenon DEF RestOf
  <1>7. P \in Seq(Msgs) /\ Answered(P, F)
    <2>1. P \in Seq(Msgs) /\ Answered(P, Found(acc, ms, i))
      BY <1>1, FoundTyped, Zenon
    <2> HIDE DEF a, o, F, P, T, w
    <2> QED BY <1>4, <2>1, Zenon
  <1>8. ~ IsResult(ms[i])
    BY <1>3, Kinds, Zenon
  <1>9. Cardinality(F) + Len(T) = e - i
    <2>1. \A j \in i + 1 .. e : j \in 1 .. Len(ms)
      OBVIOUS
    <2>2. \A j, k \in i + 1 .. e : IsResult(ms[j]) /\ IsResult(ms[k]) /\ ms[j].id = ms[k].id => j = k
      BY <2>1, Zenon DEF Distinct
    <2> QED BY <2>2, SpanHolds, Zenon
  <1>10. F = {ms[j].id : j \in {j \in i + 1 .. e : IsResult(ms[j])}}
    BY Zenon DEF ResultIds
  <1> HIDE DEF a, o, F, P, T, w
  <1>11. Parts(w, o, ms[i], P, T)
    <2>1. Glue(o, ms[i], P, T) \in Seq(Msgs) /\ Parts(Glue(o, ms[i], P, T), o, ms[i], P, T)
      BY ONLY <1>2, <1>3, <1>6, <1>7, Glued
    <2> QED BY <1>5, <2>1, Zenon
  <1>12. /\ Len(w) = Len(o) + 1 + Len(P) + Len(T) /\ (\A k \in 1 .. Len(o) : w[k] = o[k])
         /\ w[Len(o) + 1] = ms[i] /\ (\A k \in 1 .. Len(P) : w[Len(o) + 1 + k] = P[k])
         /\ \A k \in 1 .. Len(T) : w[Len(o) + 1 + Len(P) + k] = T[k]
    BY <1>11, Zenon DEF Parts
  <1>13. i \in Nat /\ e \in Nat /\ i <= e /\ Len(P) \in Nat /\ Len(T) \in Nat /\ Len(o) + 1 = i
    BY <1>1, <1>6, <1>7
  <1>14. /\ Len(P) = Cardinality(F)
         /\ \A k \in 1 .. Len(P) : P[k].id \in F /\ P[k] = ToolResult(P[k].id)
         /\ \A id \in F : \E k \in 1 .. Len(P) : P[k].id = id
    BY <1>7, Zenon DEF Answered
  <1>15. Len(P) + Len(T) = e - i
    BY ONLY <1>9, <1>14, Zenon
  <1>16. Len(w) = e
    <2>1. Len(w) = i + Len(P) + Len(T)
      BY ONLY <1>12, <1>13, Zenon
    <2> QED BY ONLY <1>13, <1>15, <2>1
  <1>17. ASSUME NEW k \in 1 .. Len(P), NEW j \in i + 1 .. e, IsResult(ms[j]), ms[j].id = P[k].id PROVE P[k] = ms[j]
    <2>1. ms[j] = ToolResult(ms[j].id)
      BY <1>3, <1>17, Kinds, Zenon
    <2> QED BY <1>14, <1>17, <2>1, Zenon
  <1>18. \A k \in 1 .. Len(P) : \E j \in i + 1 .. e : P[k] = ms[j]
    BY <1>10, <1>14, <1>17, Zenon
  <1>19. \A k \in 1 .. Len(T) : \E j \in i + 1 .. e : T[k] = ms[j]
    BY <1>6, Zenon DEF Lists
  <1>20. \A j \in i + 1 .. e : IsResult(ms[j]) => \E k \in 1 .. Len(P) : P[k] = ms[j]
    BY <1>10, <1>14, <1>17, Zenon
  <1>21. \A j \in i + 1 .. e : ~ IsResult(ms[j]) => \E k \in 1 .. Len(T) : T[k] = ms[j]
    BY <1>6, ZenonT(60) DEF Lists
  <1> HIDE DEF B
  <1>22. /\ \A k \in 1 .. i - 1 : k \in 1 .. e /\ k \in 1 .. Len(o)
         /\ \A k \in i + 1 .. e : k \in 1 .. e
         /\ \A k \in 1 .. Len(P) : i + k \in 1 .. e
         /\ \A k \in 1 .. Len(T) : i + Len(P) + k \in 1 .. e
         /\ i \in 1 .. e
         /\ \A k \in 1 .. e : k \in 1 .. i - 1 \/ k = i \/ k \in i + 1 .. e
    BY <1>1, <1>13, <1>15
  <1>23. /\ \A k \in 1 .. i - 1 : w[k] = o[k]
         /\ w[i] = ms[i] /\ (\A k \in 1 .. Len(P) : w[i + k] = P[k])
         /\ \A k \in 1 .. Len(T) : w[i + Len(P) + k] = T[k]
    BY ONLY <1>12, <1>13, <1>22, Zenon
  <1>24. ASSUME NEW k \in 1 .. e PROVE \E j \in 1 .. e : w[j] = ms[k]
    <2>1. CASE k \in 1 .. i - 1
      <3>1. PICK j \in 1 .. i - 1 : o[j] = ms[k]
        BY ONLY <1>1, <2>1, Zenon
      <3>2. j \in 1 .. e /\ w[j] = ms[k]
        BY ONLY <1>22, <1>23, <3>1, Zenon
      <3> QED BY <3>2, Zenon
    <2>2. CASE k = i
      BY ONLY <1>22, <1>23, <2>2, Zenon
    <2>3. CASE k \in i + 1 .. e
      <3>1. CASE IsResult(ms[k])
        <4>1. PICK c \in 1 .. Len(P) : P[c] = ms[k]
          BY ONLY <1>20, <2>3, <3>1, Zenon
        <4>2. i + c \in 1 .. e /\ w[i + c] = P[c]
          BY ONLY <1>22, <1>23, <4>1, Zenon
        <4> QED BY ONLY <4>1, <4>2, Zenon
      <3>2. CASE ~ IsResult(ms[k])
        <4>1. PICK c \in 1 .. Len(T) : T[c] = ms[k]
          BY ONLY <1>21, <2>3, <3>2, Zenon
        <4>2. i + Len(P) + c \in 1 .. e /\ w[i + Len(P) + c] = T[c]
          BY ONLY <1>22, <1>23, <4>1, Zenon
        <4> QED BY ONLY <4>1, <4>2, Zenon
      <3> QED BY <3>1, <3>2, Zenon
    <2> QED BY <1>22, <2>1, <2>2, <2>3, Zenon
  <1>25. ASSUME NEW j \in 1 .. e PROVE \E k \in 1 .. e : w[j] = ms[k]
    <2>1. CASE j \in 1 .. i - 1
      <3>1. PICK k \in 1 .. i - 1 : o[j] = ms[k]
        BY ONLY <1>1, <2>1, Zenon
      <3>2. k \in 1 .. e /\ w[j] = ms[k]
        BY ONLY <1>22, <1>23, <2>1, <3>1, Zenon
      <3> QED BY <3>2, Zenon
    <2>2. CASE j = i
      BY ONLY <1>22, <1>23, <2>2, Zenon
    <2>3. CASE j \in i + 1 .. i + Len(P)
      <3>1. j - i \in 1 .. Len(P) /\ i + (j - i) = j
        BY <1>13, <2>3
      <3>2. w[i + (j - i)] = P[j - i]
        BY ONLY <1>23, <3>1, Zenon
      <3> QED BY ONLY <1>18, <1>22, <3>1, <3>2, ZenonT(60)
    <2>4. CASE j \in i + Len(P) + 1 .. e
      <3>1. j - i - Len(P) \in 1 .. Len(T) /\ i + Len(P) + (j - i - Len(P)) = j
        BY <1>13, <1>15, <2>4
      <3>2. w[i + Len(P) + (j - i - Len(P))] = T[j - i - Len(P)]
        BY ONLY <1>23, <3>1, Zenon
      <3> QED BY ONLY <1>19, <1>22, <3>1, <3>2, ZenonT(60)
    <2>5. j \in 1 .. i - 1 \/ j = i \/ j \in i + 1 .. i + Len(P) \/ j \in i + Len(P) + 1 .. e
      BY ONLY <1>13, j \in 1 .. e
    <2> QED BY <2>1, <2>2, <2>3, <2>4, <2>5, ZenonT(60)
  <1>26. IdsUpTo(ms, e) = IdsUpTo(ms, i - 1) \cup F
    <2>1. \A id \in IdsUpTo(ms, e) : id \in IdsUpTo(ms, i - 1) \/ id \in F
      BY <1>8, <1>10, <1>22, Zenon DEF IdsUpTo
    <2>2. \A id \in IdsUpTo(ms, i - 1) : id \in IdsUpTo(ms, e)
      BY <1>22, Zenon DEF IdsUpTo
    <2>3. \A id \in F : id \in IdsUpTo(ms, e)
      BY <1>10, <1>22, Zenon DEF IdsUpTo
    <2> QED BY <2>1, <2>2, <2>3, ZenonT(60)
  <1>27. a.seen = IdsUpTo(ms, e)
    BY <1>1, <1>5, <1>26, Zenon
  <1> QED BY <1>5, <1>16, <1>24, <1>25, <1>27, ZenonT(60) DEF Carries, a, w

\* The pairing loses nothing of a transcript that needs none.
LEMMA PairingCarries ==
  ASSUME NEW ms \in Seq(Msgs), Paired(ms), Distinct(ms)
  PROVE  Len(RepairPairing(ms)) = Len(ms) /\ Range(RepairPairing(ms)) = Range(ms)
  <1> DEFINE G == {g \in Accs \X (0 .. Len(ms)) : Carries(ms, g[1], g[2])}
             r == Rounds(ms)[Len(ms)]
  <1>1. Len(ms) \in Nat
    OBVIOUS
  <1>2. \A acc, e : <<acc, e>> \in G <=> e \in 0 .. Len(ms) /\ Carries(ms, acc, e)
    <2>1. \A acc, e : Carries(ms, acc, e) => acc \in Accs
      BY Zenon DEF Carries
    <2> HIDE DEF Accs
    <2> QED BY <2>1
  <1>3. Carries(ms, Start, 0)
    <2>1. Start \in Accs /\ Start.out = <<>> /\ Start.seen = {} /\ Len(<<>>) = 0
      BY DEF Start, Accs
    <2>2. \A k \in 1 .. 0 : FALSE
      OBVIOUS
    <2>3. IdsUpTo(ms, 0) = {}
      BY <2>2, Zenon DEF IdsUpTo
    <2> QED BY <2>1, <2>2, <2>3, Zenon DEF Carries
  <1>4. 0 \in 0 .. Len(ms) /\ \A i \in 1 .. Len(ms) : i \in 0 .. Len(ms) /\ \A e \in i .. Len(ms) : e \in 0 .. Len(ms)
    BY <1>1
  <1> HIDE DEF G, r
  <1>5. \A acc : \A i \in 1 .. Len(ms) : \A e \in i .. Len(ms) :
            <<acc, i - 1>> \in G /\ IsAssistant(ms[i]) /\ Span(ms, i) = i + 1 .. e
            => <<RepairSpan(acc, ms, i), e>> \in G
    BY <1>2, <1>4, SpanCarries, Zenon
  <1>6. \A acc : \A i \in 1 .. Len(ms) :
            <<acc, i - 1>> \in G /\ NoHeads(ms, i) => <<RepairMessage(acc, ms, i), i>> \in G
    BY <1>2, <1>4, EarlyCarries, Zenon
  <1>7. <<Start, 0>> \in G
    BY <1>2, <1>3, <1>4, Zenon
  <1>8. <<r, Len(ms)>> \in G
    BY <1>1, <1>5, <1>6, <1>7, RoundsReach, Zenon DEF r
  <1>9. /\ r \in Accs /\ Len(r.out) = Len(ms)
        /\ \A k \in 1 .. Len(ms) : \E j \in 1 .. Len(ms) : r.out[j] = ms[k]
        /\ \A j \in 1 .. Len(ms) : \E k \in 1 .. Len(ms) : r.out[j] = ms[k]
    <2>1. Carries(ms, r, Len(ms))
      BY ONLY <1>2, <1>8, Zenon
    <2> QED BY ONLY <2>1, Zenon DEF Carries
  <1>10. r.out \in Seq(Msgs)
    BY <1>9, Zenon DEF Accs
  <1>11. DOMAIN ms = 1 .. Len(ms) /\ DOMAIN r.out = 1 .. Len(r.out)
    BY <1>10
  <1>12. Range(r.out) = Range(ms)
    <2>1. \A m \in Range(r.out) : m \in Range(ms)
      <3> SUFFICES ASSUME NEW j \in 1 .. Len(ms) PROVE r.out[j] \in Range(ms)
        BY <1>9, <1>11, Zenon DEF Range
      <3>1. PICK k \in 1 .. Len(ms) : r.out[j] = ms[k]
        BY ONLY <1>9, Zenon
      <3> QED BY ONLY <1>11, <3>1, Zenon DEF Range
    <2>2. \A m \in Range(ms) : m \in Range(r.out)
      <3> SUFFICES ASSUME NEW k \in 1 .. Len(ms) PROVE ms[k] \in Range(r.out)
        BY <1>11, Zenon DEF Range
      <3>1. PICK j \in 1 .. Len(ms) : r.out[j] = ms[k]
        BY ONLY <1>9, Zenon
      <3>2. j \in DOMAIN r.out
        BY ONLY <1>9, <1>11, <3>1, Zenon
      <3> QED BY ONLY <3>1, <3>2, Zenon DEF Range
    <2> QED BY <2>1, <2>2, Zenon
  <1> QED BY <1>9, <1>12, Zenon DEF RepairPairing, r

\* The latest part of the talk.
Ending(t, s) == Len(t) <= Len(s) /\ t = SubSeq(s, Len(s) - Len(t) + 1, Len(s))

LEMMA EndingOf ==
  ASSUME NEW a \in Seq(Msgs), NEW t \in Seq(Msgs), NEW s \in Seq(Msgs), s = a \o t PROVE Ending(t, s)
  <1>1. /\ Len(s) = Len(a) + Len(t) /\ \A i \in 1 .. Len(t) : s[Len(a) + i] = t[i]
    BY Joined
  <1>2. Len(a) \in Nat /\ Len(t) \in Nat /\ Len(s) \in Nat
    OBVIOUS
  <1> DEFINE u == SubSeq(s, Len(s) - Len(t) + 1, Len(s))
  <1>3. Len(s) - Len(t) + 1 = Len(a) + 1
    BY <1>1, <1>2
  <1>4. u \in Seq(Msgs) /\ Len(u) = Len(t) /\ \A i \in 1 .. Len(t) : u[i] = s[Len(a) + i]
    <2>1. Len(a) + 1 \in Nat \ {0} /\ Len(a) + 1 <= Len(s) + 1
      BY <1>1, <1>2
    <2>2. SubSeq(s, Len(a) + 1, Len(s)) \in Seq(Msgs)
      BY ONLY <1>2, <2>1, s \in Seq(Msgs)
    <2>3. Len(SubSeq(s, Len(a) + 1, Len(s))) = Len(t)
      BY ONLY <1>1, <1>2, <2>1, s \in Seq(Msgs)
    <2>4. \A i \in 1 .. Len(t) : SubSeq(s, Len(a) + 1, Len(s))[i] = s[Len(a) + i]
      BY ONLY <1>1, <1>2, <2>1, s \in Seq(Msgs)
    <2> QED BY ONLY <1>3, <2>2, <2>3, <2>4, Zenon
  <1> HIDE DEF u
  <1>5. u = t
    <2>1. \A i \in 1 .. Len(u) : u[i] = t[i]
      BY ONLY <1>1, <1>4, Zenon
    <2> QED BY <1>4, <2>1, SameSeq, Zenon
  <1>6. Len(t) <= Len(s)
    BY <1>1, <1>2
  <1> QED BY <1>5, <1>6, Zenon DEF Ending, u

\* What is saved says the latest of what was said.
LEMMA SavedTalks ==
  ASSUME NEW ms \in Seq(Msgs)
  PROVE  Ending(Talk(Saved(ms)), Talk(RepairInputs(WithoutStubs(ms))))
  <1> DEFINE t == RepairInputs(WithoutStubs(ms))
             y == Sanitize(ms)
             v == Latest(y)
             d == Len(y) - Len(v)
  <1>1. t \in Seq(Msgs) /\ y = RepairPairing(t) /\ y \in Seq(Msgs)
    BY Sanitized, Zenon DEF Sanitary
  <1>2. v \in Seq(Msgs) /\ Saved(ms) = RepairPairing(v)
    BY SavedParts, Zenon
  <1> HIDE DEF t, y
  <1>3. Len(v) <= Len(y) /\ \A k \in 1 .. Len(v) : v[k] = y[k + d]
    BY <1>1, LatestPart, Zenon
  <1> HIDE DEF v
  <1>4. Talk(y) = Talk(t) /\ Talk(Saved(ms)) = Talk(v)
    <2>1. Talk(y) = Talk(t)
      BY ONLY <1>1, PairingTalks, Zenon
    <2>2. Talk(Saved(ms)) = Talk(v)
      BY ONLY <1>2, PairingTalks, Zenon
    <2> QED BY <2>1, <2>2, Zenon
  <1>5. d \in Nat /\ Len(y) = d + Len(v)
    BY <1>1, <1>2, <1>3
  <1> HIDE DEF d
  <1> DEFINE a == InOrder(y, TalkUpTo(y, d))
  <1>6. Talk(y) = a \o Talk(v)
    BY <1>1, <1>2, <1>3, <1>5, TalkOfPart, Zenon
  <1>7. a \in Seq(Msgs)
    <2>1. \A k \in 1 .. d : k \in 1 .. Len(y)
      BY <1>2, <1>5
    <2>2. TalkUpTo(y, d) \in SUBSET (1 .. Len(y))
      BY <2>1, Zenon DEF TalkUpTo
    <2> QED BY <1>1, <2>2, Shorter, Zenon
  <1>8. Talk(v) \in Seq(Msgs) /\ Talk(y) \in Seq(Msgs)
    BY <1>1, <1>2, TalkIs, Zenon
  <1> HIDE DEF a
  <1>9. Ending(Talk(v), Talk(y))
    BY ONLY <1>6, <1>7, <1>8, EndingOf, Zenon
  <1> QED BY ONLY <1>4, <1>9, Zenon DEF t

\* What needs no repair and fits is saved whole.
LEMMA SavedWhole ==
  ASSUME NEW ms \in Seq(Msgs), Paired(ms), Distinct(ms), Sound(ms), Len(ms) <= MaxSession
  PROVE  Len(Saved(ms)) = Len(ms) /\ Range(Saved(ms)) = Range(ms)
  <1> DEFINE y == Sanitize(ms)
  <1>1. y = RepairPairing(ms) /\ y \in Seq(Msgs) /\ Sound(y)
    BY Sanitized, Zenon DEF Sanitary
  <1>2. Len(y) = Len(ms) /\ Range(y) = Range(ms)
    BY <1>1, PairingCarries, Zenon
  <1>3. Saved(ms) = Sanitize(Latest(y))
    BY Zenon DEF Saved
  <1> HIDE DEF y
  <1>4. Latest(y) = y
    BY <1>1, <1>2, LatestPart, Zenon
  <1>5. RepairPairing(y) = y
    BY <1>1, PairingStable, Zenon
  <1>6. Sanitize(y) = RepairPairing(y)
    BY <1>1, Sanitized, Zenon
  <1> QED BY ONLY <1>2, <1>3, <1>4, <1>5, <1>6, Zenon

\* Saving keeps the conversation, and keeps whole what needs no repair and fits.
THEOREM TalkStays == TranscriptSpec => []TalkIsKept
  <1>1. TranscriptInv => TalkIsKept
    <2> SUFFICES ASSUME messages \in Seq(Msgs) PROVE TalkIsKept
      BY Zenon DEF TranscriptInv
    <2>1. Ending(Talk(Saved(messages)), Talk(RepairInputs(WithoutStubs(messages))))
      BY SavedTalks, Zenon
    <2>2. ASSUME Paired(messages),
                 \A j, k \in 1 .. Len(messages) :
                    /\ IsResult(messages[j]) /\ IsResult(messages[k]) /\ j # k
                    => messages[j].id # messages[k].id,
                 \A k \in 1 .. Len(messages) :
                    IsAssistant(messages[k]) => /\ Bad \notin Range(messages[k].calls)
                                                /\ ~ IsProviderErrorStub(messages[k]),
                 Len(messages) <= MaxSession
          PROVE  Len(Saved(messages)) = Len(messages) /\ Range(Saved(messages)) = Range(messages)
      <3>1. Distinct(messages) /\ Sound(messages)
        BY <2>2, Zenon DEF Distinct, Sound, SoundMessage
      <3> QED BY <2>2, <3>1, SavedWhole, ZenonT(60)
    <2> QED BY <2>1, <2>2, Zenon DEF TalkIsKept, Ending
  <1> QED BY <1>1, RunsMessages, PTL
=============================================================================
