---------------------------- MODULE MemoryProofs ----------------------------
(***************************************************************************)
(* Proofs about the durable memory: the entries that the store has follow  *)
(* the calls that returned, and a namespace is within its quota once the   *)
(* calls that wrote to it are over.                                        *)
(***************************************************************************)
EXTENDS MemoryStore, FiniteSetTheorems, TLAPS

LEMMA SameSequence ==
  ASSUME NEW S, NEW s \in Seq(S), NEW t \in Seq(S), Len(s) = Len(t), \A i \in 1 .. Len(s) : s[i] = t[i]
  PROVE  s = t
  OBVIOUS

LEMMA NoLength ==
  ASSUME NEW S
  PROVE  <<>> \in Seq(S) /\ Len(<<>>) = 0 /\ \A s \in Seq(S) : s # <<>> => Len(s) \in Nat \ {0}
  OBVIOUS

LEMMA HeadAndTail ==
  ASSUME NEW S, NEW s \in Seq(S), s # <<>>
  PROVE  /\ Head(s) \in S /\ Tail(s) \in Seq(S) /\ Len(Tail(s)) = Len(s) - 1
         /\ \A i \in 1 .. Len(Tail(s)) : Tail(s)[i] = s[i + 1]
  OBVIOUS

Entries == [kind : {"entry"}, ids : {{i} : i \in Nat}, ns : Namespaces, at : Nat, content : SUBSET Nat]
Deletions == [kind : {"delete"}, ids : SUBSET Nat]
Lines == Entries \cup Deletions

\* The ids that lines of a file speak of.
IdsIn(lines) == UNION {lines[k].ids : k \in DOMAIN lines}

\* The line x, if it is an entry, says all that the entries base said.
Rewrites(base, x) == \A e \in base : e \in Entries /\ e.ids = x.ids /\ e.content \subseteq x.content /\ e.ns = x.ns

\* A save still has lines to append, the last of them its entry.
Pending(r) ==
  LET n == Len(r.todo) IN
  /\ n \in {1, 2}
  /\ n = 2 => r.todo[1] \in Deletions /\ r.base = {}
  /\ r.todo[n] \in Entries
  /\ r.base = {} \/ \E e : r.base = {e}
  /\ Rewrites(r.base, r.todo[n])
  /\ \A ns \in r.ns : r.todo[n].ns = ns
  /\ \A s \in r.save : r.todo[n].ids = {s.id} /\ s.text \in r.todo[n].content

\* What a call of each kind has in hand.
CallOK(r) ==
  /\ DOMAIN r = {"op", "todo", "base", "ns", "save"}
  /\ r.todo \in Seq(Lines)
  /\ \/ r = Idle
     \/ /\ r.op \in {"save", "evict"}
        /\ \E ns \in Namespaces : r.ns = {ns}
        /\ \E s : r.save = {s}
        /\ \/ r.op = "save" /\ (r.todo = <<>> \/ Pending(r))
           \/ r.op = "evict" /\ Len(r.todo) = 1 /\ r.todo[1] \in Deletions
     \/ /\ r.op \in {"touch", "delete", "prune", "compact"}
        /\ r.ns = {} /\ r.save = {}
        /\ \/ /\ r.op = "touch"
              /\ Len(r.todo) = 1 /\ r.todo[1] \in Entries
              /\ \E e : r.base = {e}
              /\ Rewrites(r.base, r.todo[1])
           \/ r.op \in {"delete", "prune"} /\ Len(r.todo) = 1 /\ r.todo[1] \in Deletions
           \/ r.op = "compact" /\ r.base = Loaded(r.todo)

MemoryTypes ==
  /\ started \in Nat
  /\ log \in Seq(Lines) /\ IdsIn(log) \subseteq 1 .. started
  /\ removed \subseteq 1 .. started
  /\ stale \in BOOLEAN
  /\ DOMAIN call = Calls
  /\ \A c \in Calls : CallOK(call[c]) /\ IdsIn(call[c].todo) \subseteq 1 .. started

\* What a save wrote is there, or was removed.
Found(s) == s.id \in removed \/ \E e \in Loaded(log) : s.id \in e.ids /\ s.text \in e.content

Written(r) == r.op = "evict" \/ (r.op = "save" /\ r.todo = <<>>)

\* The id of a new entry that call c still has to append is known to no one else.
Fresh(n, c) ==
  /\ n \notin removed /\ n \notin IdsIn(log)
  /\ \A d \in Calls \ {c} : n \notin IdsIn(call[d].todo)
  /\ Len(call[c].todo) = 2 => n \notin call[c].todo[1].ids

StoreOK ==
  ~ stale =>
    /\ removed \cap LoadedIds(log) = {}
    /\ \A s \in saved : Found(s)
    /\ \A c \in Calls : Written(call[c]) => \A s \in call[c].save : Found(s)
    /\ \A c \in Calls : call[c].op = "save" /\ call[c].todo # <<>> /\ call[c].base = {}
                        => \A s \in call[c].save : Fresh(s.id, c)

StoreInv == MemoryTypes /\ StoreOK

\* What the evictions decided for a namespace are about to remove.
Evicted(ns) == UNION {IdsIn(call[c].todo) : c \in {d \in Calls : call[d].op = "evict" /\ ns \in call[d].ns}}

Fits(entries) == IsFiniteSet(entries) /\ (~ Over(entries) \/ Cardinality(entries) <= 1)

\* In a namespace no save is in progress but for its eviction.
Settling(ns) == \A c \in Calls : ns \in call[c].ns => call[c].op = "evict"

\* What will be left of a namespace.
Left(ns) == {e \in InNamespace(ns) : e.ids \cap Evicted(ns) = {}}

\* QuotaHolds is not inductive: between the reading of enforceNamespaceQuota and
\* its markers, other calls go on.
QuotaOK == \A ns \in Namespaces \ loose : Settling(ns) => Fits(Left(ns))

LEMMA LineFields ==
  /\ \A x \in Lines : x.kind \in {"entry", "delete"} /\ (x.kind = "entry" <=> x \in Entries)
                      /\ (x.kind = "delete" <=> x \in Deletions) /\ x.ids \in SUBSET Nat
  /\ \A x \in Entries : x.ids # {}
BY DEF Lines, Entries, Deletions

LEMMA LiveAt ==
  ASSUME NEW l \in Seq(Lines)
  PROVE  /\ Live(l) \subseteq 1 .. Len(l)
         /\ \A k \in Live(l) : l[k] \in Entries
         /\ Loaded(l) \subseteq Entries
         /\ \A e \in Loaded(l) : e.ids \subseteq IdsIn(l)
         /\ LoadedIds(l) \subseteq IdsIn(l)
  <1>1. DOMAIN l = 1 .. Len(l) /\ \A k \in DOMAIN l : l[k] \in Lines
    OBVIOUS
  <1>2. Live(l) \subseteq 1 .. Len(l) /\ \A k \in Live(l) : k \in DOMAIN l /\ l[k].kind = "entry"
    BY <1>1, Zenon DEF Live
  <1>3. \A k \in Live(l) : l[k] \in Entries
    BY <1>1, <1>2, LineFields, Zenon
  <1>4. \A e \in Loaded(l) : e.ids \subseteq IdsIn(l)
    BY <1>2, Zenon DEF Loaded, IdsIn
  <1> QED BY <1>2, <1>3, <1>4, Zenon DEF Loaded, LoadedIds

\* Two entries that are loaded have no id in common.
LEMMA LoadedApart ==
  ASSUME NEW l \in Seq(Lines), NEW e \in Loaded(l), NEW f \in Loaded(l), e.ids \cap f.ids # {}
  PROVE  e = f
  <1>1. PICK k \in Live(l) : e = l[k]
    BY Zenon DEF Loaded
  <1>2. PICK j \in Live(l) : f = l[j]
    BY Zenon DEF Loaded
  <1>3. k \in 1 .. Len(l) /\ j \in 1 .. Len(l) /\ Len(l) \in Nat
    BY LiveAt
  <1>4. ~ (j \in k + 1 .. Len(l)) /\ ~ (k \in j + 1 .. Len(l))
    BY <1>1, <1>2, Zenon DEF Live
  <1>5. k = j
    BY <1>3, <1>4
  <1> QED BY <1>1, <1>2, <1>5, Zenon

\* A line appended hides the entries it shares an id with.
LEMMA LoadedAppend ==
  ASSUME NEW l \in Seq(Lines), NEW x \in Lines
  PROVE  \A e : e \in Loaded(Append(l, x))
                <=> (e \in Loaded(l) /\ e.ids \cap x.ids = {}) \/ (e = x /\ x.kind = "entry")
  <1> DEFINE m == Append(l, x)
             n == Len(l) + 1
  <1>1. /\ Len(l) \in Nat /\ Len(m) = n /\ DOMAIN m = 1 .. n /\ DOMAIN l = 1 .. Len(l)
        /\ m[n] = x /\ \A k \in 1 .. Len(l) : m[k] = l[k]
    OBVIOUS
  <1> HIDE DEF m
  <1>2. ASSUME NEW k \in 1 .. Len(l) PROVE k \in Live(m) <=> k \in Live(l) /\ l[k].ids \cap x.ids = {}
    <2>1. m[k] = l[k] /\ k \in DOMAIN m /\ k \in DOMAIN l
      BY <1>1
    <2>2. \A j \in k + 1 .. Len(l) : m[j] = l[j] /\ j \in k + 1 .. n
      BY <1>1
    <2>3. n \in k + 1 .. n /\ \A j \in k + 1 .. n : j = n \/ j \in k + 1 .. Len(l)
      BY <1>1
    <2>4. x.ids \cap l[k].ids = {} <=> l[k].ids \cap x.ids = {}
      BY Zenon
    <2> QED BY <1>1, <2>1, <2>2, <2>3, <2>4, Zenon DEF Live
  <1>3. n \in Live(m) <=> x.kind = "entry"
    <2>1. n \in DOMAIN m /\ n + 1 .. Len(m) = {}
      BY <1>1
    <2> QED BY <1>1, <2>1, Zenon DEF Live
  <1>4. \A k \in Live(m) : k \in 1 .. Len(l) \/ k = n
    <2>1. \A k \in Live(m) : k \in 1 .. n
      BY <1>1, Zenon DEF Live
    <2> QED BY <1>1, <2>1
  <1>5. \A k \in Live(l) : k \in 1 .. Len(l)
    BY LiveAt, Zenon
  <1>6. \A e : e \in Loaded(m) <=> \/ e \in Loaded(l) /\ e.ids \cap x.ids = {}
                                   \/ e = x /\ x.kind = "entry"
    <2>1. ASSUME NEW e \in Loaded(m) PROVE (e \in Loaded(l) /\ e.ids \cap x.ids = {}) \/ (e = x /\ x.kind = "entry")
      <3>1. PICK k \in Live(m) : e = m[k]
        BY <2>1, Zenon DEF Loaded
      <3> QED BY <1>1, <1>2, <1>3, <1>4, <3>1, Zenon DEF Loaded
    <2>2. ASSUME NEW e \in Loaded(l), e.ids \cap x.ids = {} PROVE e \in Loaded(m)
      <3>1. PICK k \in Live(l) : e = l[k]
        BY <2>2, Zenon DEF Loaded
      <3> QED BY <1>1, <1>2, <1>5, <2>2, <3>1, Zenon DEF Loaded
    <2>3. x.kind = "entry" => x \in Loaded(m)
      BY <1>1, <1>3, Zenon DEF Loaded
    <2> QED BY <2>1, <2>2, <2>3, Zenon
  <1> QED BY <1>6, Zenon DEF m

\* What is written in the order of the file: every line numbered kept, once.
LEMMA OrderedLines ==
  ASSUME NEW l \in Seq(Lines), NEW kept \in SUBSET (1 .. Len(l))
  PROVE  /\ InOrder(l, kept) \in Seq(Lines)
         /\ \E f : /\ f \in [1 .. Len(InOrder(l, kept)) -> kept]
                   /\ \A i \in 1 .. Len(InOrder(l, kept)) : InOrder(l, kept)[i] = l[f[i]]
                   /\ \A k \in kept : \E i \in 1 .. Len(InOrder(l, kept)) : f[i] = k
                   /\ \A i, j \in 1 .. Len(InOrder(l, kept)) : i # j => f[i] # f[j]
  <1> DEFINE n == Cardinality(kept)
             upto(k) == {j \in kept : j < k}
             rank == [k \in kept |-> Cardinality(upto(k))]
             f == [i \in 1 .. n |-> CHOOSE k \in kept : Cardinality(upto(k)) = i - 1]
             o == InOrder(l, kept)
  <1> HIDE DEF n, upto, rank, f, o
  <1>1. IsFiniteSet(kept) /\ n \in Nat
    <2>1. IsFiniteSet(1 .. Len(l))
      BY FS_Interval
    <2>2. IsFiniteSet(kept)
      BY <2>1, FS_Subset, Zenon
    <2> QED BY <2>2, FS_CardinalityType, Zenon DEF n
  <1>2. kept \subseteq Int
    OBVIOUS
  <1>3. \A k \in kept : IsFiniteSet(upto(k)) /\ Cardinality(upto(k)) \in Nat /\ Cardinality(upto(k)) <= n
    <2>1. \A k \in kept : upto(k) \in SUBSET kept
      BY Zenon DEF upto
    <2>2. \A k \in kept : IsFiniteSet(upto(k)) /\ Cardinality(upto(k)) <= n
      BY <1>1, <2>1, FS_Subset, Zenon DEF n
    <2> QED BY <2>2, FS_CardinalityType, Zenon
  <1>4. ASSUME NEW j \in kept, NEW k \in kept, j < k PROVE Cardinality(upto(j)) < Cardinality(upto(k))
    <2>1. upto(j) \subseteq upto(k) /\ j \in upto(k) /\ j \notin upto(j)
      <3>1. \A i \in kept : i < j => i < k
        BY <1>2, <1>4
      <3>2. ~ (j < j)
        BY <1>2
      <3> QED BY <1>4, <3>1, <3>2, Zenon DEF upto
    <2>2. Cardinality(upto(j)) <= Cardinality(upto(k)) /\ Cardinality(upto(j)) # Cardinality(upto(k))
      BY <1>3, <2>1, FS_Subset, Zenon
    <2> QED BY <1>3, <2>2
  <1>5. \A k \in kept : Cardinality(upto(k)) \in 0 .. n - 1
    <2>1. \A k \in kept : ~ (k < k)
      BY <1>2
    <2>2. \A k \in kept : k \notin upto(k) /\ upto(k) \in SUBSET kept
      BY <2>1, Zenon DEF upto
    <2>3. \A k \in kept : Cardinality(upto(k)) # n
      BY <1>1, <2>2, FS_Subset, Zenon DEF n
    <2> QED BY <1>1, <1>3, <2>3
  <1>6. rank \in Injection(kept, 0 .. n - 1)
    <2>1. rank \in [kept -> 0 .. n - 1]
      BY <1>5, Zenon DEF rank
    <2>2. \A j, k \in kept : rank[j] = rank[k] => j = k
      <3> SUFFICES ASSUME NEW j \in kept, NEW k \in kept, j # k PROVE rank[j] # rank[k]
        BY Zenon
      <3>1. j < k \/ k < j
        BY <1>2
      <3>2. Cardinality(upto(j)) # Cardinality(upto(k))
        BY <1>3, <1>4, <3>1
      <3> QED BY <3>2, Zenon DEF rank
    <2> QED BY <2>1, <2>2, Zenon DEF Injection, IsInjective
  <1>7. rank \in Surjection(kept, 0 .. n - 1)
    <2>1. IsFiniteSet(0 .. n - 1) /\ Cardinality(0 .. n - 1) = n
      BY <1>1, FS_Interval
    <2> QED BY <1>6, <2>1, FS_Injection, Zenon DEF n
  <1>8. \A i \in 1 .. n : \E k \in kept : Cardinality(upto(k)) = i - 1
    <2>1. \A i \in 1 .. n : i - 1 \in 0 .. n - 1
      BY <1>1
    <2>2. \A i \in 0 .. n - 1 : \E k \in kept : rank[k] = i
      BY <1>7, Zenon DEF Surjection
    <2> QED BY <2>1, <2>2, Zenon DEF rank
  <1>9. \A i \in 1 .. n : f[i] \in kept /\ Cardinality(upto(f[i])) = i - 1
    BY <1>8, Zenon DEF f
  <1>10. o = [i \in 1 .. n |-> o[i]] /\ \A i \in 1 .. n : o[i] = l[f[i]]
    <2> DEFINE g(i) == CHOOSE k \in kept : Cardinality(upto(k)) = i - 1
    <2>1. o = [i \in 1 .. n |-> l[g(i)]]
      BY Zenon DEF o, InOrder, n, upto
    <2>2. \A i \in 1 .. n : f[i] = g(i)
      BY Zenon DEF f
    <2> HIDE DEF g
    <2> QED BY <2>1, <2>2
  <1>11. \A i \in 1 .. n : l[f[i]] \in Lines
    <2>1. \A k \in 1 .. Len(l) : l[k] \in Lines
      OBVIOUS
    <2> QED BY <1>9, <2>1, Zenon
  <1>12. o \in Seq(Lines) /\ Len(o) = n
    BY <1>1, <1>10, <1>11
  <1>13. f \in [1 .. n -> kept] /\ \A i \in 1 .. n : o[i] = l[f[i]]
    BY <1>9, <1>10, Zenon DEF f
  <1>14. \A k \in kept : \E i \in 1 .. n : f[i] = k
    <2> SUFFICES ASSUME NEW k \in kept PROVE \E i \in 1 .. n : f[i] = k
      BY Zenon
    <2> DEFINE i == Cardinality(upto(k)) + 1
    <2>1. i \in 1 .. n /\ i - 1 = Cardinality(upto(k))
      BY <1>1, <1>5
    <2>2. rank[f[i]] = rank[k] /\ f[i] \in kept
      BY <1>9, <2>1, Zenon DEF rank
    <2>3. f[i] = k
      <3>1. DOMAIN rank = kept
        BY Zenon DEF rank
      <3> QED BY <1>6, <2>2, <3>1, Zenon DEF Injection, IsInjective
    <2> QED BY <2>1, <2>3, Zenon
  <1>15. \A i, j \in 1 .. n : i # j => f[i] # f[j]
    <2>1. \A i, j \in 1 .. n : i # j => i - 1 # j - 1
      BY <1>1
    <2> QED BY <1>9, <2>1, Zenon
  <1> QED BY <1>12, <1>13, <1>14, <1>15, ZenonT(60) DEF o

\* A compaction keeps what is loaded.
LEMMA CompactedLoads ==
  ASSUME NEW l \in Seq(Lines)
  PROVE  /\ Compacted(l) \in Seq(Lines)
         /\ Loaded(Compacted(l)) = Loaded(l)
         /\ IdsIn(Compacted(l)) \subseteq IdsIn(l)
  <1> DEFINE kept == Live(l)
             o == InOrder(l, kept)
  <1>1. kept \in SUBSET (1 .. Len(l)) /\ \A k \in kept : l[k] \in Entries
    BY LiveAt, Zenon
  <1> HIDE DEF kept, o
  <1>2. /\ o \in Seq(Lines)
        /\ \E f : /\ f \in [1 .. Len(o) -> kept]
                  /\ \A i \in 1 .. Len(o) : o[i] = l[f[i]]
                  /\ \A k \in kept : \E i \in 1 .. Len(o) : f[i] = k
                  /\ \A i, j \in 1 .. Len(o) : i # j => f[i] # f[j]
    BY <1>1, OrderedLines, ZenonT(60) DEF o
  <1>3. PICK f : /\ f \in [1 .. Len(o) -> kept]
                 /\ \A i \in 1 .. Len(o) : o[i] = l[f[i]]
                 /\ \A k \in kept : \E i \in 1 .. Len(o) : f[i] = k
                 /\ \A i, j \in 1 .. Len(o) : i # j => f[i] # f[j]
    BY <1>2, Zenon
  <1>4. DOMAIN o = 1 .. Len(o) /\ Len(o) \in Nat
    BY <1>2
  <1>5. \A i \in 1 .. Len(o) : f[i] \in kept /\ o[i] \in Entries
    BY <1>1, <1>3, Zenon
  <1>6. \A k, j \in kept : k # j => l[j].ids \cap l[k].ids = {}
    <2> SUFFICES ASSUME NEW k \in kept, NEW j \in kept, k # j PROVE l[j].ids \cap l[k].ids = {}
      BY Zenon
    <2>1. j \in k + 1 .. Len(l) \/ k \in j + 1 .. Len(l)
      BY <1>1
    <2>2. l[j].ids \cap l[k].ids = {} \/ l[k].ids \cap l[j].ids = {}
      BY <2>1, Zenon DEF kept, Live
    <2> QED BY <2>2, Zenon
  <1>7. \A i \in 1 .. Len(o) : i \in Live(o)
    <2> SUFFICES ASSUME NEW i \in 1 .. Len(o) PROVE i \in Live(o)
      BY Zenon
    <2>1. \A j \in i + 1 .. Len(o) : j \in 1 .. Len(o) /\ j # i
      BY <1>4
    <2>2. ASSUME NEW j \in i + 1 .. Len(o) PROVE o[j].ids \cap o[i].ids = {}
      <3>1. f[i] # f[j] /\ f[i] \in kept /\ f[j] \in kept
        BY <1>3, <1>5, <2>1, Zenon
      <3>2. o[i] = l[f[i]] /\ o[j] = l[f[j]]
        BY <1>3, <2>1, Zenon
      <3> QED BY <1>6, <3>1, <3>2, Zenon
    <2>3. o[i].kind = "entry"
      BY <1>5, LineFields, Zenon DEF Lines
    <2> QED BY <1>4, <2>2, <2>3, Zenon DEF Live
  <1>8. \A i \in Live(o) : i \in 1 .. Len(o)
    BY <1>2, LiveAt, Zenon
  <1>9. \A e : e \in Loaded(o) <=> e \in Loaded(l)
    <2>1. ASSUME NEW e \in Loaded(o) PROVE e \in Loaded(l)
      <3>1. PICK i \in Live(o) : e = o[i]
        BY <2>1, Zenon DEF Loaded
      <3>2. f[i] \in kept /\ e = l[f[i]]
        BY <1>3, <1>5, <1>8, <3>1, Zenon
      <3>3. f[i] \in Live(l)
        BY <3>2, Zenon DEF kept
      <3> QED BY <3>2, <3>3, Zenon DEF Loaded
    <2>2. ASSUME NEW e \in Loaded(l) PROVE e \in Loaded(o)
      <3>1. PICK k \in kept : e = l[k]
        BY <2>2, Zenon DEF Loaded, kept
      <3>2. PICK i \in 1 .. Len(o) : f[i] = k
        BY <1>3, <3>1, Zenon
      <3> QED BY <1>3, <1>7, <3>1, <3>2, ZenonT(60) DEF Loaded
    <2> QED BY <2>1, <2>2, Zenon
  <1>10. IdsIn(o) \subseteq IdsIn(l)
    <2>1. \A k \in kept : k \in DOMAIN l
      BY <1>1
    <2>2. \A i \in DOMAIN o : f[i] \in DOMAIN l /\ o[i] = l[f[i]]
      BY <1>3, <1>4, <1>5, <2>1, Zenon
    <2>3. \A i \in DOMAIN o : \E k \in DOMAIN l : o[i] = l[k]
      BY <2>2, Zenon
    <2> QED BY <2>3, Zenon DEF IdsIn
  <1>11. Loaded(o) = Loaded(l)
    BY <1>9, Zenon
  <1> QED BY <1>2, <1>10, <1>11, Zenon DEF Compacted, o, kept

LEMMA IdsAppend ==
  ASSUME NEW l \in Seq(Lines), NEW x \in Lines PROVE IdsIn(Append(l, x)) = IdsIn(l) \cup x.ids
  <1> DEFINE m == Append(l, x)
             n == Len(l) + 1
  <1>1. /\ Len(l) \in Nat /\ DOMAIN m = 1 .. n /\ DOMAIN l = 1 .. Len(l)
        /\ m[n] = x /\ \A k \in 1 .. Len(l) : m[k] = l[k]
    OBVIOUS
  <1>2. n \in 1 .. n /\ \A k \in 1 .. n : k = n \/ k \in 1 .. Len(l)
    BY <1>1
  <1>3. \A k \in 1 .. Len(l) : k \in 1 .. n
    BY <1>1
  <1> HIDE DEF m, n
  <1>4. \A i : i \in IdsIn(m) <=> i \in IdsIn(l) \/ i \in x.ids
    BY <1>1, <1>2, <1>3, Zenon DEF IdsIn
  <1> QED BY <1>4, Zenon DEF m

LEMMA IdsOne == ASSUME NEW x PROVE IdsIn(<<x>>) = x.ids
  <1>1. DOMAIN <<x>> = {1} /\ <<x>>[1] = x
    OBVIOUS
  <1> QED BY <1>1, Zenon DEF IdsIn

-----------------------------------------------------------------------------
(* The store and its calls.                                                *)

\* The entry of a save, once all its lines are appended.
LEMMA PendingId ==
  ASSUME NEW r, CallOK(r), r.op = "save", r.todo # <<>>, NEW s \in r.save
  PROVE  Pending(r) /\ s.id \in IdsIn(r.todo)
  <1>1. r # Idle
    BY DEF Idle
  <1>2. Pending(r)
    BY <1>1 DEF CallOK
  <1>3. Len(r.todo) \in DOMAIN r.todo
    BY <1>2 DEF Pending, CallOK
  <1>4. r.todo[Len(r.todo)].ids = {s.id}
    BY <1>2, Zenon DEF Pending
  <1> QED BY <1>2, <1>3, <1>4, Zenon DEF IdsIn

\* A new entry that is still to be appended.
New(r) == r.op = "save" /\ r.todo # <<>> /\ r.base = {}

\* A step of call c.
LEMMA StepKeeps ==
  ASSUME StoreInv, ~ stale, NEW c, DOMAIN call' = Calls,
         \A d \in Calls \ {c} : call'[d] = call[d],
         \A n \in 1 .. started :
            /\ n \notin IdsIn(log) /\ n \notin removed /\ (c \in Calls => n \notin IdsIn(call[c].todo))
            => /\ n \notin IdsIn(log') /\ n \notin removed'
               /\ c \in Calls => n \notin IdsIn(call'[c].todo),
         removed' \cap LoadedIds(log') = {},
         \A s : Found(s) => Found(s)',
         \A s \in saved' : s \in saved \/ Found(s)',
         c \in Calls /\ Written(call'[c]) => \A s \in call'[c].save : Found(s)',
         c \in Calls /\ New(call'[c]) => \A s \in call'[c].save : Fresh(s.id, c)'
  PROVE  StoreOK'
  <1>1. \A s \in saved' : Found(s)'
    BY Zenon DEF StoreInv, StoreOK
  <1>2. \A d \in Calls : Written(call'[d]) => \A s \in call'[d].save : Found(s)'
    BY Zenon DEF StoreInv, StoreOK
  <1>3. ASSUME NEW d \in Calls, New(call'[d]), NEW s \in call'[d].save PROVE Fresh(s.id, d)'
    <2>1. CASE d = c
      BY <1>3, <2>1, Zenon
    <2>2. CASE d # c
      <3>1. call'[d] = call[d]
        BY <2>2, Zenon
      <3>2. Fresh(s.id, d)
        BY <1>3, <3>1, Zenon DEF StoreInv, StoreOK, New
      <3>3. CallOK(call[d]) /\ IdsIn(call[d].todo) \subseteq 1 .. started
        BY Zenon DEF StoreInv, MemoryTypes
      <3>4. s.id \in 1 .. started
        BY <1>3, <3>1, <3>3, PendingId, Zenon DEF New
      <3>5. /\ s.id \notin IdsIn(log') /\ s.id \notin removed'
            /\ c \in Calls => s.id \notin IdsIn(call'[c].todo)
        BY <2>2, <3>2, <3>4, Zenon DEF Fresh
      <3>6. ASSUME NEW e \in Calls \ {d} PROVE s.id \notin IdsIn(call'[e].todo)
        BY <3>2, <3>5, <3>6, Zenon DEF Fresh
      <3> QED BY <3>1, <3>2, <3>5, <3>6, Zenon DEF Fresh
    <2> QED BY <2>1, <2>2, Zenon
  <1> QED BY <1>1, <1>2, <1>3, Zenon DEF StoreOK, New

\* Once a rewrite was overtaken nothing is claimed any more.
LEMMA StaleKeeps == stale' => StoreOK'
  BY Zenon DEF StoreOK

\* A line is appended whose entry, if any, says what the entries it hides said,
\* and whose markers are counted.
LEMMA FoundAppend ==
  ASSUME log \in Seq(Lines), NEW x \in Lines, log' = Append(log, x), removed \subseteq removed',
         \/ x \in Deletions /\ x.ids \subseteq removed'
         \/ x \in Entries /\ \A e \in Loaded(log) : e.ids \cap x.ids # {} => e.ids = x.ids /\ e.content \subseteq x.content
  PROVE  \A s : Found(s) => Found(s)'
  <1> SUFFICES ASSUME NEW s, Found(s), s.id \notin removed' PROVE \E e \in Loaded(log') : s.id \in e.ids /\ s.text \in e.content
    BY Zenon DEF Found
  <1>1. PICK e \in Loaded(log) : s.id \in e.ids /\ s.text \in e.content
    BY Zenon DEF Found
  <1>2. \A f : f \in Loaded(log') <=> \/ f \in Loaded(log) /\ f.ids \cap x.ids = {}
                                      \/ f = x /\ x.kind = "entry"
    BY LoadedAppend, Zenon
  <1>3. CASE e.ids \cap x.ids = {}
    <2>1. e \in Loaded(log')
      BY <1>2, <1>3, Zenon
    <2> QED BY <1>1, <2>1, Zenon
  <1>4. CASE e.ids \cap x.ids # {}
    <2>1. CASE x \in Entries
      <3>1. x \in Loaded(log')
        BY <1>2, <2>1, LineFields, Zenon
      <3>2. (x.kind = "entry") /\ x \notin Deletions
        BY <2>1, LineFields, Zenon
      <3> QED BY <1>1, <1>4, <3>1, <3>2, Zenon
    <2>2. CASE x \notin Entries
      <3>1. x.ids \subseteq removed'
        BY <2>2, Zenon
      <3>2. e \in Entries
        BY LiveAt, Zenon
      <3>3. \E i : e.ids = {i}
        BY <3>2, Zenon DEF Entries
      <3>4. s.id \in x.ids
        BY <1>1, <1>4, <3>3, Zenon
      <3> QED BY <3>1, <3>4, Zenon
    <2> QED BY <2>1, <2>2, Zenon
  <1> QED BY <1>3, <1>4, Zenon

\* A call has read the file.
LEMMA ReadKeeps ==
  ASSUME StoreInv, NEW c \in Calls, NEW op, NEW todo, NEW base, NEW ns, NEW save,
         Read(c, op, todo, base, ns, save),
         CallOK([op |-> op, todo |-> todo, base |-> base, ns |-> ns, save |-> save]),
         ~ Written([op |-> op, todo |-> todo, base |-> base, ns |-> ns, save |-> save]),
         IdsIn(todo) \subseteq IdsIn(log) \cup {started + 1},
         op = "save" /\ base = {} =>
            \A s \in save : s.id = started + 1 /\ (Len(todo) = 2 => todo[1].ids \subseteq IdsIn(log))
  PROVE  StoreInv'
  <1> DEFINE r == [op |-> op, todo |-> todo, base |-> base, ns |-> ns, save |-> save]
  <1>1. /\ r.op = op /\ r.todo = todo /\ r.base = base /\ r.ns = ns /\ r.save = save
        /\ DOMAIN call = Calls /\ started \in Nat /\ started' = started + 1
    BY Zenon DEF Read, StoreInv, MemoryTypes
  <1>2. call'[c] = r /\ DOMAIN call' = Calls /\ \A d \in Calls \ {c} : call'[d] = call[d]
    BY <1>1, Zenon DEF Read
  <1>3. UNCHANGED <<log, saved, removed, stale>>
    BY Zenon DEF Read
  <1>4. call[c] = Idle /\ CallOK(r) /\ ~ Written(r)
    BY Zenon DEF Read
  <1> HIDE DEF r
  <1>5. 1 .. started \subseteq 1 .. started' /\ started' \in 1 .. started' /\ started' \in Nat
    BY <1>1
  <1>6. started + 1 \notin 1 .. started
    BY <1>1
  <1>7. /\ removed \subseteq 1 .. started /\ IdsIn(log) \subseteq 1 .. started /\ log \in Seq(Lines) /\ stale \in BOOLEAN
        /\ \A d \in Calls : CallOK(call[d]) /\ IdsIn(call[d].todo) \subseteq 1 .. started
    BY Zenon DEF StoreInv, MemoryTypes
  <1>8. MemoryTypes'
    <2>1. IdsIn(todo) \subseteq 1 .. started'
      BY <1>1, <1>5, <1>7, Zenon
    <2>2. ASSUME NEW d \in Calls PROVE CallOK(call'[d]) /\ IdsIn(call'[d].todo) \subseteq 1 .. started'
      BY <1>1, <1>2, <1>4, <1>5, <1>7, <2>1, Zenon
    <2>3. log' \in Seq(Lines) /\ IdsIn(log') \subseteq 1 .. started' /\ removed' \subseteq 1 .. started'
      BY <1>3, <1>5, <1>7, Zenon DEF IdsIn
    <2> QED BY <1>2, <1>3, <1>5, <1>7, <2>2, <2>3, Zenon DEF MemoryTypes
  <1>9. StoreOK'
    <2>1. CASE stale
      BY <1>3, <2>1, StaleKeeps, Zenon
    <2>2. CASE ~ stale
      <3>1. \A s : Found(s) => Found(s)'
        BY <1>3, Zenon DEF Found
      <3>2. removed' \cap LoadedIds(log') = {} /\ IdsIn(log') = IdsIn(log)
        BY <1>3, <2>2, Zenon DEF StoreInv, StoreOK
      <3>3. ASSUME New(r), NEW s \in r.save PROVE Fresh(s.id, c)'
        <4>1. s.id = started + 1 /\ (Len(todo) = 2 => todo[1].ids \subseteq IdsIn(log))
          BY <1>1, <3>3, Zenon DEF New
        <4>2. s.id \notin removed' /\ s.id \notin IdsIn(log')
          BY <1>3, <1>6, <1>7, <3>2, <4>1, Zenon
        <4>3. \A d \in Calls \ {c} : s.id \notin IdsIn(call'[d].todo)
          BY <1>2, <1>6, <1>7, <4>1, Zenon
        <4>4. Len(call'[c].todo) = 2 => s.id \notin call'[c].todo[1].ids
          BY <1>1, <1>2, <3>2, <4>1, <4>2, Zenon
        <4> QED BY <4>2, <4>3, <4>4, Zenon DEF Fresh
      <3>4. \A n \in 1 .. started : n \notin IdsIn(log) => n \notin IdsIn(call'[c].todo)
        BY <1>1, <1>2, <1>6, Zenon
      <3> QED BY <1>2, <1>3, <1>4, <2>2, <3>1, <3>2, <3>3, <3>4, StepKeeps, Zenon
    <2> QED BY <2>1, <2>2, Zenon
  <1> QED BY <1>8, <1>9, Zenon DEF StoreInv

LEMMA OneLine == ASSUME NEW x \in Lines PROVE <<x>> \in Seq(Lines) /\ Len(<<x>>) = 1 /\ <<x>>[1] = x /\ <<x>> # <<>>
  OBVIOUS

LEMMA MarkersOK == ASSUME NEW ids \in SUBSET Nat PROVE Markers(ids) \in Deletions /\ Markers(ids).ids = ids
  BY DEF Markers, Deletions

\* What is loaded has ids of the file.
LEMMA LoadedFields ==
  ASSUME log \in Seq(Lines), NEW e \in Loaded(log)
  PROVE  /\ e \in Entries /\ e.ids \subseteq IdsIn(log) /\ e.ids \in SUBSET Nat /\ \E i : e.ids = {i}
         /\ e.ns \in Namespaces
  <1>1. e \in Entries /\ e.ids \subseteq IdsIn(log)
    BY LiveAt, Zenon
  <1> QED BY <1>1, Zenon DEF Entries

\* A save that has read the file.
LEMMA SaveReads ==
  ASSUME StoreInv, NEW c \in Calls, NEW ns \in Namespaces, NEW x \in Entries, NEW s, NEW base, NEW todo,
         Read(c, "save", todo, base, {ns}, {s}),
         x.ids = {s.id}, s.text \in x.content, x.ns = ns,
         (base = {} /\ s.id = started + 1) \/ \E e \in Loaded(log) : base = {e},
         Rewrites(base, x),
         \/ todo = <<x>>
         \/ base = {} /\ \E ids \in SUBSET IdsIn(log) : todo = <<Markers(ids), x>>
  PROVE  StoreInv'
  <1> DEFINE r == [op |-> "save", todo |-> todo, base |-> base, ns |-> {ns}, save |-> {s}]
             n == Len(todo)
  <1>1. /\ r.op = "save" /\ r.todo = todo /\ r.base = base /\ r.ns = {ns} /\ r.save = {s}
        /\ DOMAIN r = {"op", "todo", "base", "ns", "save"}
    OBVIOUS
  <1>2. log \in Seq(Lines) /\ IdsIn(log) \subseteq 1 .. started /\ x \in Lines
    BY Zenon DEF StoreInv, MemoryTypes, Lines
  <1>3. /\ todo \in Seq(Lines) /\ n \in {1, 2} /\ todo[n] = x /\ todo # <<>>
        /\ n = 2 => todo[1] \in Deletions /\ base = {} /\ todo[1].ids \subseteq IdsIn(log)
        /\ IdsIn(todo) \subseteq IdsIn(log) \cup x.ids
    <2>1. CASE todo = <<x>>
      <3>1. todo \in Seq(Lines) /\ n = 1 /\ todo[1] = x /\ todo # <<>>
        BY <1>2, <2>1, OneLine, Zenon
      <3>2. IdsIn(todo) = x.ids
        BY <2>1, IdsOne, Zenon
      <3> QED BY <3>1, <3>2
    <2>2. CASE base = {} /\ \E ids \in SUBSET IdsIn(log) : todo = <<Markers(ids), x>>
      <3>1. PICK ids \in SUBSET IdsIn(log) : todo = <<Markers(ids), x>>
        BY <2>2, Zenon
      <3>2. PICK m : m = Markers(ids)
        OBVIOUS
      <3>3. ids \in SUBSET Nat
        BY <1>2
      <3>4. m \in Deletions /\ m.ids \subseteq IdsIn(log) /\ m \in Lines /\ todo = <<m, x>>
        BY <3>1, <3>2, <3>3, MarkersOK, Zenon DEF Lines
      <3>5. /\ <<m, x>> \in Seq(Lines) /\ Len(<<m, x>>) = 2 /\ <<m, x>>[1] = m /\ <<m, x>>[2] = x
            /\ DOMAIN <<m, x>> = {1, 2} /\ <<m, x>> # <<>>
        BY <1>2, <3>4
      <3>6. IdsIn(<<m, x>>) \subseteq m.ids \cup x.ids
        BY <3>5, Zenon DEF IdsIn
      <3>7. n = 2 /\ n \in {1, 2}
        BY <3>4, <3>5
      <3> QED BY <2>2, <3>4, <3>5, <3>6, <3>7, Zenon
    <2> QED BY <2>1, <2>2, Zenon
  <1> HIDE DEF r
  <1>4. base = {} \/ \E e : base = {e}
    BY Zenon
  <1>5. Pending(r)
    BY <1>1, <1>3, <1>4, Zenon DEF Pending
  <1>6. CallOK(r) /\ ~ Written(r)
    <2>1. r.op \in {"save", "evict"} /\ r.op # "evict"
      BY <1>1
    <2> QED BY <1>1, <1>3, <1>5, <2>1, Zenon DEF CallOK, Written
  <1>7. x.ids \subseteq IdsIn(log) \cup {started + 1}
    <2>1. CASE base = {} /\ s.id = started + 1
      BY <2>1, Zenon
    <2>2. CASE \E e \in Loaded(log) : base = {e}
      BY <1>2, <2>2, LoadedFields, Zenon DEF Rewrites
    <2> QED BY <2>1, <2>2, Zenon
  <1>8. IdsIn(todo) \subseteq IdsIn(log) \cup {started + 1}
    BY <1>3, <1>7, Zenon
  <1>9. base = {} => s.id = started + 1
    BY Zenon
  <1> QED BY <1>3, <1>6, <1>8, <1>9, ReadKeeps, Zenon DEF r

\* A call that appends one line and returns.
LEMMA OneReads ==
  ASSUME StoreInv, NEW c \in Calls, NEW op \in {"touch", "delete", "prune"}, NEW x, NEW base,
         Read(c, op, <<x>>, base, {}, {}), x.ids \subseteq IdsIn(log),
         \/ op = "touch" /\ x \in Entries /\ (\E e : base = {e}) /\ Rewrites(base, x)
         \/ op # "touch" /\ x \in Deletions
  PROVE  StoreInv'
  <1> DEFINE r == [op |-> op, todo |-> <<x>>, base |-> base, ns |-> {}, save |-> {}]
  <1>1. /\ r.op = op /\ r.todo = <<x>> /\ r.base = base /\ r.ns = {} /\ r.save = {}
        /\ DOMAIN r = {"op", "todo", "base", "ns", "save"}
    OBVIOUS
  <1>2. x \in Lines
    BY Zenon DEF Lines
  <1>3. <<x>> \in Seq(Lines) /\ Len(<<x>>) = 1 /\ <<x>>[1] = x
    BY <1>2, OneLine, Zenon
  <1>4. op \notin {"save", "evict"} /\ op \in {"touch", "delete", "prune", "compact"}
    OBVIOUS
  <1>5. op # "touch" => op \in {"delete", "prune"}
    OBVIOUS
  <1> HIDE DEF r
  <1>6. CallOK(r) /\ ~ Written(r)
    BY <1>1, <1>3, <1>4, <1>5, Zenon DEF CallOK, Written
  <1>7. IdsIn(<<x>>) \subseteq IdsIn(log) \cup {started + 1}
    BY IdsOne, Zenon
  <1>8. op # "save"
    OBVIOUS
  <1> QED BY <1>6, <1>7, <1>8, ReadKeeps, Zenon DEF r

LEMMA EntryOK ==
  ASSUME NEW n \in Nat, NEW ns \in Namespaces
  PROVE  LET x == Entry(n, ns, n, {n}) IN x \in Entries /\ x.ids = {n} /\ n \in x.content /\ x.ns = ns
  BY DEF Entry, Entries

LEMMA UpdateOK ==
  ASSUME NEW e \in Entries, NEW n \in Nat
  PROVE  /\ LET x == [e EXCEPT !.at = n, !.content = Merge(e, n)] IN
            x \in Entries /\ x.ids = e.ids /\ n \in x.content /\ e.content \subseteq x.content /\ x.ns = e.ns
         /\ LET x == [e EXCEPT !.at = n] IN x \in Entries /\ x.ids = e.ids /\ x.content = e.content /\ x.ns = e.ns
  BY Zenon DEF Entries, Merge

LEMMA UpsertKeeps == ASSUME StoreInv, NEW c \in Calls, NEW ns \in Namespaces, Upsert(c, ns) PROVE StoreInv'
  <1> DEFINE fresh == started + 1
  <1>1. fresh \in Nat /\ log \in Seq(Lines)
    BY DEF StoreInv, MemoryTypes
  <1>2. PICK s : s = [id |-> fresh, text |-> fresh]
    BY Zenon
  <1>3. s.id = fresh /\ s.text = fresh
    BY <1>2
  <1>4. CASE Read(c, "save", <<Entry(fresh, ns, fresh, {fresh})>>, {}, {ns}, {s})
    <2>1. PICK x : x = Entry(fresh, ns, fresh, {fresh})
      OBVIOUS
    <2>2. x \in Entries /\ x.ids = {fresh} /\ fresh \in x.content /\ x.ns = ns
      BY <1>1, <2>1, EntryOK, Zenon
    <2>3. Rewrites({}, x)
      BY Zenon DEF Rewrites
    <2>4. Read(c, "save", <<x>>, {}, {ns}, {s})
      BY <1>4, <2>1, Zenon
    <2>5. x.ids = {s.id} /\ s.text \in x.content /\ s.id = started + 1
      BY <1>3, <2>2, Zenon
    <2>6. ({} = {} /\ s.id = started + 1) \/ \E e \in Loaded(log) : {} = {e}
      BY <2>5, Zenon
    <2>7. <<x>> = <<x>> \/ ({} = {} /\ \E ids \in SUBSET IdsIn(log) : <<x>> = <<Markers(ids), x>>)
      BY Zenon
    <2> QED BY <2>2, <2>3, <2>4, <2>5, <2>6, <2>7, SaveReads, Zenon
  <1>5. ASSUME NEW e \in InNamespace(ns),
               Read(c, "save", <<[e EXCEPT !.at = fresh, !.content = Merge(e, fresh)]>>,
                    {e}, {ns}, {[id |-> i, text |-> fresh] : i \in e.ids})
        PROVE  StoreInv'
    <2>1. e \in Loaded(log) /\ e.ns = ns
      BY Zenon DEF InNamespace
    <2>2. e \in Entries /\ \E i : e.ids = {i}
      BY <1>1, <2>1, LoadedFields, Zenon
    <2>3. PICK x : x = [e EXCEPT !.at = fresh, !.content = Merge(e, fresh)]
      OBVIOUS
    <2>4. x \in Entries /\ x.ids = e.ids /\ fresh \in x.content /\ e.content \subseteq x.content /\ x.ns = e.ns
      BY <1>1, <2>2, <2>3, UpdateOK, Zenon
    <2>5. PICK i : e.ids = {i}
      BY <2>2, Zenon
    <2>6. PICK t : t = [id |-> i, text |-> fresh]
      BY Zenon
    <2>7. t.id = i /\ t.text = fresh
      BY <2>6
    <2>8. {[id |-> j, text |-> fresh] : j \in e.ids} = {t}
      BY <2>5, <2>6, Zenon
    <2>9. Read(c, "save", <<x>>, {e}, {ns}, {t})
      BY <1>5, <2>3, <2>8, Zenon
    <2>10. Rewrites({e}, x)
      BY <2>2, <2>4, Zenon DEF Rewrites
    <2>11. x.ids = {t.id} /\ t.text \in x.content /\ x.ns = ns
      BY <2>1, <2>4, <2>5, <2>7, Zenon
    <2>12. ({e} = {} /\ t.id = started + 1) \/ \E f \in Loaded(log) : {e} = {f}
      BY <2>1, Zenon
    <2>13. <<x>> = <<x>> \/ ({e} = {} /\ \E ids \in SUBSET IdsIn(log) : <<x>> = <<Markers(ids), x>>)
      BY Zenon
    <2> QED BY <2>4, <2>9, <2>10, <2>11, <2>12, <2>13, SaveReads, Zenon
  <1>6. \/ Read(c, "save", <<Entry(fresh, ns, fresh, {fresh})>>, {}, {ns}, {s})
        \/ \E e \in InNamespace(ns) :
              Read(c, "save", <<[e EXCEPT !.at = fresh, !.content = Merge(e, fresh)]>>,
                   {e}, {ns}, {[id |-> i, text |-> fresh] : i \in e.ids})
    <2>1. PICK pick \in PickForUpsert(InNamespace(ns)) :
             \/ Read(c, "save", <<Entry(fresh, ns, fresh, {fresh})>>, {}, {ns}, {[id |-> fresh, text |-> fresh]})
             \/ \E e \in pick :
                  Read(c, "save", <<[e EXCEPT !.at = fresh, !.content = Merge(e, fresh)]>>,
                       {e}, {ns}, {[id |-> i, text |-> fresh] : i \in e.ids})
      BY Zenon DEF Upsert
    <2>2. pick \subseteq InNamespace(ns)
      BY Zenon DEF PickForUpsert
    <2> QED BY <1>2, <2>1, <2>2, Zenon
  <1> QED BY <1>4, <1>5, <1>6, Zenon

LEMMA IdsOfLoaded ==
  ASSUME log \in Seq(Lines), NEW E \in SUBSET Loaded(log)
  PROVE  IdsOf(E) \in SUBSET IdsIn(log) /\ IdsOf(E) \in SUBSET Nat
  <1>1. \A e \in E : e.ids \subseteq IdsIn(log) /\ e.ids \subseteq Nat
    BY LoadedFields, Zenon
  <1> QED BY <1>1, Zenon DEF IdsOf

LEMMA ReplaceKeeps == ASSUME StoreInv, NEW c \in Calls, NEW ns \in Namespaces, Replace(c, ns) PROVE StoreInv'
  <1> DEFINE fresh == started + 1
  <1>1. fresh \in Nat /\ log \in Seq(Lines)
    BY DEF StoreInv, MemoryTypes
  <1>2. PICK s : s = [id |-> fresh, text |-> fresh]
    BY Zenon
  <1>3. s.id = fresh /\ s.text = fresh
    BY <1>2
  <1>4. PICK x : x = Entry(fresh, ns, fresh, {fresh})
    OBVIOUS
  <1>5. x \in Entries /\ x.ids = {fresh} /\ fresh \in x.content /\ x.ns = ns
    BY <1>1, <1>4, EntryOK, Zenon
  <1>6. PICK E \in Conflicts(InNamespace(ns)) : Read(c, "save", <<Markers(IdsOf(E)), x>>, {}, {ns}, {s})
    BY <1>2, <1>4, Zenon DEF Replace
  <1>7. E \in SUBSET Loaded(log)
    BY Zenon DEF Conflicts, InNamespace
  <1>8. IdsOf(E) \in SUBSET IdsIn(log)
    BY <1>1, <1>7, IdsOfLoaded, Zenon
  <1>9. Rewrites({}, x)
    BY Zenon DEF Rewrites
  <1>10. x.ids = {s.id} /\ s.text \in x.content /\ s.id = started + 1
    BY <1>3, <1>5, Zenon
  <1>11. ({} = {} /\ s.id = started + 1) \/ \E e \in Loaded(log) : {} = {e}
    BY <1>10, Zenon
  <1>12. \/ <<Markers(IdsOf(E)), x>> = <<x>>
         \/ {} = {} /\ \E ids \in SUBSET IdsIn(log) : <<Markers(IdsOf(E)), x>> = <<Markers(ids), x>>
    BY <1>8, Zenon
  <1> QED BY <1>5, <1>6, <1>9, <1>10, <1>11, <1>12, SaveReads, Zenon

LEMMA MarksKeep ==
  ASSUME StoreInv, NEW c \in Calls, NEW op \in {"delete", "prune"}, NEW ids, ids \subseteq IdsIn(log),
         Read(c, op, <<Markers(ids)>>, {}, {}, {})
  PROVE  StoreInv'
  <1>1. IdsIn(log) \subseteq 1 .. started
    BY Zenon DEF StoreInv, MemoryTypes
  <1>2. ids \in SUBSET Nat
    BY <1>1
  <1>3. Markers(ids) \in Deletions /\ Markers(ids).ids \subseteq IdsIn(log)
    BY <1>2, MarkersOK, Zenon
  <1>4. op # "touch" /\ op \in {"touch", "delete", "prune"}
    OBVIOUS
  <1> QED BY <1>3, <1>4, OneReads, Zenon

LEMMA DeleteKeeps == ASSUME StoreInv, NEW c \in Calls, Delete(c) PROVE StoreInv'
  <1>1. log \in Seq(Lines)
    BY Zenon DEF StoreInv, MemoryTypes
  <1> QED BY <1>1, LoadedFields, MarksKeep, Zenon DEF Delete

LEMMA PruneKeeps == ASSUME StoreInv, NEW c \in Calls, NEW ns, Prune(c, ns) PROVE StoreInv'
  <1>1. log \in Seq(Lines)
    BY Zenon DEF StoreInv, MemoryTypes
  <1>2. PICK visible \in SUBSET InNamespace(ns) : \E keep, threshold :
           Read(c, "prune", <<Markers(IdsOf(Pruned(visible, keep, threshold)))>>, {}, {}, {})
    BY Zenon DEF Prune
  <1>3. \A keep, threshold : Pruned(visible, keep, threshold) \in SUBSET Loaded(log)
    BY Zenon DEF Pruned, InNamespace
  <1> QED BY <1>1, <1>2, <1>3, IdsOfLoaded, MarksKeep, Zenon

LEMMA TouchKeeps == ASSUME StoreInv, NEW c \in Calls, Touch(c) PROVE StoreInv'
  <1>1. log \in Seq(Lines) /\ started + 1 \in Nat
    BY DEF StoreInv, MemoryTypes
  <1>2. PICK e \in Loaded(log) : Read(c, "touch", <<[e EXCEPT !.at = started + 1]>>, {e}, {}, {})
    BY Zenon DEF Touch
  <1>3. e \in Entries /\ e.ids \subseteq IdsIn(log)
    BY <1>1, LoadedFields, Zenon
  <1>4. PICK x : x = [e EXCEPT !.at = started + 1]
    BY Zenon
  <1>5. x \in Entries /\ x.ids = e.ids /\ x.content = e.content /\ x.ns = e.ns
    BY <1>1, <1>3, <1>4, UpdateOK, Zenon
  <1>6. Rewrites({e}, x)
    BY <1>3, <1>5, Zenon DEF Rewrites
  <1>7. Read(c, "touch", <<x>>, {e}, {}, {}) /\ x.ids \subseteq IdsIn(log)
    BY <1>2, <1>3, <1>4, <1>5, Zenon
  <1> QED BY <1>5, <1>6, <1>7, OneReads, Zenon

LEMMA CompactKeeps == ASSUME StoreInv, NEW c \in Calls, Compact(c) PROVE StoreInv'
  <1> DEFINE todo == Compacted(log)
             r == [op |-> "compact", todo |-> todo, base |-> Loaded(log), ns |-> {}, save |-> {}]
  <1>1. log \in Seq(Lines)
    BY Zenon DEF StoreInv, MemoryTypes
  <1>2. todo \in Seq(Lines) /\ Loaded(log) = Loaded(todo) /\ IdsIn(todo) \subseteq IdsIn(log)
    BY <1>1, CompactedLoads, Zenon
  <1> HIDE DEF todo
  <1>3. /\ r.op = "compact" /\ r.todo = todo /\ r.base = Loaded(log) /\ r.ns = {} /\ r.save = {}
        /\ DOMAIN r = {"op", "todo", "base", "ns", "save"}
    OBVIOUS
  <1>4. "compact" \notin {"save", "evict"} /\ "compact" \in {"touch", "delete", "prune", "compact"}
    OBVIOUS
  <1> HIDE DEF r
  <1>5. CallOK(r) /\ ~ Written(r)
    BY <1>2, <1>3, <1>4, Zenon DEF CallOK, Written
  <1>6. Read(c, "compact", todo, Loaded(log), {}, {})
    BY Zenon DEF Compact, todo
  <1>7. "compact" # "save" /\ IdsIn(todo) \subseteq IdsIn(log) \cup {started + 1}
    BY <1>2
  <1> QED BY <1>5, <1>6, <1>7, ReadKeeps, Zenon DEF r

\* The calls while no process dies: all but c stay as they are.
LEMMA OneCallTypes ==
  ASSUME MemoryTypes, NEW c \in Calls, NEW r, call' = [call EXCEPT ![c] = r], UNCHANGED started,
         CallOK(r), IdsIn(r.todo) \subseteq 1 .. started,
         log' \in Seq(Lines), IdsIn(log') \subseteq 1 .. started, removed' \subseteq 1 .. started, stale' \in BOOLEAN
  PROVE  /\ MemoryTypes' /\ DOMAIN call' = Calls /\ call'[c] = r
         /\ \A d \in Calls \ {c} : call'[d] = call[d]
  <1>1. DOMAIN call' = Calls /\ call'[c] = r /\ \A d \in Calls \ {c} : call'[d] = call[d]
    BY Zenon DEF MemoryTypes
  <1>2. \A d \in Calls : CallOK(call'[d]) /\ IdsIn(call'[d].todo) \subseteq 1 .. started'
    BY <1>1, Zenon DEF MemoryTypes
  <1> QED BY <1>1, <1>2, Zenon DEF MemoryTypes

LEMMA IdleOK == CallOK(Idle) /\ IdsIn(Idle.todo) = {} /\ Idle.op = "idle" /\ Idle.save = {} /\ Idle.ns = {} /\ Idle.todo = <<>>
  <1>1. /\ Idle.op = "idle" /\ Idle.save = {} /\ Idle.ns = {} /\ Idle.todo = <<>>
        /\ DOMAIN Idle = {"op", "todo", "base", "ns", "save"} /\ <<>> \in Seq(Lines) /\ DOMAIN <<>> = {}
    BY DEF Idle
  <1>2. CallOK(Idle)
    BY <1>1, Zenon DEF CallOK
  <1>3. IdsIn(Idle.todo) = {}
    BY <1>1, Zenon DEF IdsIn
  <1> QED BY <1>1, <1>2, <1>3, Zenon

LEMMA Tail1 == ASSUME NEW S, NEW s \in Seq(S), Len(s) = 1 PROVE Tail(s) = <<>>
  <1>1. Tail(s) \in Seq(S) /\ Len(Tail(s)) = 0
    OBVIOUS
  <1> QED BY <1>1, NoLength, Zenon

LEMMA Tail2 == ASSUME NEW S, NEW s \in Seq(S), Len(s) = 2 PROVE Tail(s) = <<s[2]>>
  <1>0. s # <<>>
    OBVIOUS
  <1>1. Tail(s) \in Seq(S) /\ Len(Tail(s)) = Len(s) - 1 /\ \A i \in 1..Len(s)-1 : Tail(s)[i] = s[i+1]
    BY <1>0, HeadAndTail
  <1>2. Len(Tail(s)) = 1 /\ Tail(s)[1] = s[2]
    BY <1>1
  <1>3. PICK x : x = s[2]
    OBVIOUS
  <1>4. PICK t : t = Tail(s)
    BY Zenon
  <1>5. x \in S
    BY <1>3
  <1>6. <<x>> \in Seq(S) /\ Len(<<x>>) = 1 /\ <<x>>[1] = x
    BY <1>5
  <1>7. t \in Seq(S) /\ Len(t) = 1 /\ t[1] = x
    BY <1>1, <1>2, <1>3, <1>4, Zenon
  <1>8. \A i \in 1..Len(t) : t[i] = <<x>>[i]
    BY <1>6, <1>7
  <1> QED BY <1>3, <1>4, <1>6, <1>7, <1>8, SameSequence, Zenon

\* What AppendLine appends, and what is left of the call.
LEMMA AppendCases ==
  ASSUME MemoryTypes, NEW c \in Calls, AppendLine(c)
  PROVE  LET r == call[c]  x == r.todo[1] IN
         /\ x \in Lines /\ x.ids \subseteq IdsIn(r.todo) /\ x = Head(r.todo)
         /\ \/ x \in Deletions /\ r.op \in {"delete", "prune", "evict"} /\ Done(c)
            \/ /\ x \in Deletions /\ r.op = "save" /\ Pending(r) /\ Len(r.todo) = 2
               /\ call' = [call EXCEPT ![c].todo = <<r.todo[2]>>] /\ UNCHANGED saved
            \/ /\ x \in Entries /\ r.op = "touch" /\ Done(c)
               /\ (\E e : r.base = {e}) /\ Rewrites(r.base, x)
            \/ /\ x \in Entries /\ r.op = "save" /\ Pending(r) /\ Len(r.todo) = 1
               /\ call' = [call EXCEPT ![c].todo = <<>>] /\ UNCHANGED saved
  <1> DEFINE r == call[c]
             x == r.todo[1]
  <1>1. CallOK(r) /\ r.todo # <<>> /\ r.op # "compact"
    BY Zenon DEF MemoryTypes, AppendLine
  <1>2. r # Idle
    BY <1>1, IdleOK, Zenon
  <1>3. \/ r.op # "save" /\ Done(c)
        \/ r.op = "save" /\ call' = [call EXCEPT ![c].todo = Tail(r.todo)] /\ UNCHANGED saved
    <2>1. call' = [call EXCEPT ![c].todo = Tail(@)] => call' = [call EXCEPT ![c].todo = Tail(r.todo)]
      BY Zenon DEF MemoryTypes
    <2> QED BY <2>1, Zenon DEF AppendLine
  <1> HIDE DEF r
  <1>4. r.todo \in Seq(Lines)
    BY <1>1, Zenon DEF CallOK
  <1>5. 1 \in DOMAIN r.todo /\ x \in Lines /\ x = Head(r.todo)
    BY <1>1, <1>4
  <1>6. x.ids \subseteq IdsIn(r.todo)
    BY <1>5, Zenon DEF IdsIn
  <1>7. CASE r.op = "save"
    <2>1. Pending(r)
      BY <1>1, <1>2, <1>7 DEF CallOK
    <2>2. CASE Len(r.todo) = 2
      <3>1. Tail(r.todo) = <<r.todo[2]>>
        BY <1>4, <2>2, Tail2, Zenon
      <3>2. x \in Deletions
        BY <2>1, <2>2, Zenon DEF Pending
      <3> QED BY <1>3, <1>5, <1>6, <1>7, <2>1, <2>2, <3>1, <3>2, Zenon DEF r
    <2>3. CASE Len(r.todo) = 1
      <3>1. Tail(r.todo) = <<>>
        BY <1>4, <2>3, Tail1, Zenon
      <3>2. x \in Entries
        BY <2>1, <2>3, Zenon DEF Pending
      <3> QED BY <1>3, <1>5, <1>6, <1>7, <2>1, <2>3, <3>1, <3>2, Zenon DEF r
    <2> QED BY <2>1, <2>2, <2>3, Zenon DEF Pending
  <1>8. CASE r.op # "save"
    <2>1. Done(c)
      BY <1>3, <1>8, Zenon
    <2>2. \/ r.op = "evict" /\ x \in Deletions
          \/ r.op = "touch" /\ x \in Entries /\ (\E e : r.base = {e}) /\ Rewrites(r.base, x)
          \/ r.op \in {"delete", "prune"} /\ x \in Deletions
      BY <1>1, <1>2, <1>8, Zenon DEF CallOK
    <2>3. "evict" \in {"delete", "prune", "evict"} /\ (r.op \in {"delete", "prune"} => r.op \in {"delete", "prune", "evict"})
      OBVIOUS
    <2> QED BY <1>5, <1>6, <2>1, <2>2, <2>3, Zenon DEF r
  <1> QED BY <1>7, <1>8, Zenon

\* What a save has left once its markers, or its entry, are appended.
LEMMA TodoOK ==
  ASSUME NEW r, CallOK(r), r.op = "save", Pending(r),
         NEW t, \/ Len(r.todo) = 2 /\ t = <<r.todo[2]>>
                \/ Len(r.todo) = 1 /\ t = <<>>
  PROVE  LET q == [r EXCEPT !.todo = t] IN
         /\ CallOK(q) /\ IdsIn(q.todo) \subseteq IdsIn(r.todo)
         /\ q.op = "save" /\ q.save = r.save /\ q.ns = r.ns /\ q.base = r.base /\ q.todo = t
  <1> DEFINE q == [r EXCEPT !.todo = t]
  <1>1. DOMAIN r = {"op", "todo", "base", "ns", "save"} /\ r.todo \in Seq(Lines)
    BY Zenon DEF CallOK
  <1>2. /\ q.op = "save" /\ q.save = r.save /\ q.ns = r.ns /\ q.base = r.base /\ q.todo = t
        /\ DOMAIN q = {"op", "todo", "base", "ns", "save"}
    BY <1>1
  <1>3. (\E ns \in Namespaces : r.ns = {ns}) /\ \E s : r.save = {s}
    <2>1. r # Idle /\ r.op \notin {"touch", "delete", "prune", "compact"}
      BY DEF Idle
    <2> QED BY <2>1, Zenon DEF CallOK
  <1> HIDE DEF q
  <1>4. CASE Len(r.todo) = 2 /\ t = <<r.todo[2]>>
    <2>1. 2 \in DOMAIN r.todo
      BY <1>1, <1>4
    <2>2. r.todo[2] \in Entries /\ r.todo[2] \in Lines
      BY <1>4, Zenon DEF Pending, Lines
    <2>3. t \in Seq(Lines) /\ Len(t) = 1 /\ t[1] = r.todo[2] /\ t # <<>>
      BY <1>4, <2>2, OneLine, Zenon
    <2>4. 1 \in {1, 2} /\ 1 # 2 /\ "save" \in {"save", "evict"}
      OBVIOUS
    <2>5. Pending(q)
      <3>1. q.todo[Len(q.todo)] = r.todo[2] /\ Len(q.todo) \in {1, 2} /\ Len(q.todo) # 2
        BY <1>2, <2>3, <2>4, Zenon
      <3>2. r.todo[Len(r.todo)] = r.todo[2] /\ r.base = {} /\ q.base = {} /\ Rewrites({}, r.todo[2])
        BY <1>2, <1>4, Zenon DEF Pending, Rewrites
      <3>3. \A ns \in r.ns : r.todo[2].ns = ns
        BY <3>2, Zenon DEF Pending
      <3>4. \A s \in r.save : r.todo[2].ids = {s.id} /\ s.text \in r.todo[2].content
        BY <3>2, Zenon DEF Pending
      <3>5. PICK m : m = Len(q.todo)
        BY Zenon
      <3>6. /\ m \in {1, 2} /\ m # 2 /\ q.todo[m] \in Entries /\ Rewrites(q.base, q.todo[m])
            /\ \A ns \in q.ns : q.todo[m].ns = ns
            /\ \A s \in q.save : q.todo[m].ids = {s.id} /\ s.text \in q.todo[m].content
        BY <1>2, <2>2, <3>1, <3>2, <3>3, <3>4, <3>5, Zenon
      <3> QED BY <3>2, <3>5, <3>6, Zenon DEF Pending
    <2>6. IdsIn(t) \subseteq IdsIn(r.todo)
      <3>1. IdsIn(t) = r.todo[2].ids
        BY <1>4, IdsOne, Zenon
      <3>2. r.todo[2].ids \subseteq IdsIn(r.todo)
        BY <2>1, Zenon DEF IdsIn
      <3> QED BY <3>1, <3>2, Zenon
    <2> QED BY <1>2, <1>3, <2>3, <2>4, <2>5, <2>6, Zenon DEF CallOK, q
  <1>5. CASE Len(r.todo) = 1 /\ t = <<>>
    <2>1. "save" \in {"save", "evict"} /\ <<>> \in Seq(Lines)
      OBVIOUS
    <2>2. IdsIn(t) = {}
      BY <1>5, IdleOK, Zenon
    <2> QED BY <1>2, <1>3, <1>5, <2>1, <2>2, Zenon DEF CallOK, q
  <1> QED BY <1>4, <1>5, Zenon

\* Call c, which was r, has appended the line x.
Appended(c, r, x) ==
         /\ x \in Lines /\ x.ids \subseteq IdsIn(r.todo)
         /\ log' = Append(log, x) /\ log \in Seq(Lines)
         /\ x \in Deletions => removed' = removed \cup x.ids /\ loose' = loose /\ stale' = stale
         /\ x \in Entries => /\ removed' = removed
                             /\ stale' = (stale \/ ~ (r.base \subseteq Loaded(log)))
                             /\ loose' = IF ~ (r.base \subseteq Loaded(log)) \/ r.op = "touch" THEN loose \cup {x.ns} ELSE loose
         /\ MemoryTypes' /\ DOMAIN call' = Calls /\ \A d \in Calls \ {c} : call'[d] = call[d]
         /\ IdsIn(call'[c].todo) \subseteq IdsIn(r.todo)
         /\ \/ x \in Deletions /\ r.op \in {"delete", "prune", "evict"} /\ call'[c] = Idle /\ saved' = saved \cup r.save
            \/ x \in Deletions /\ r.op = "save" /\ Pending(r) /\ Len(r.todo) = 2
               /\ call'[c] = [r EXCEPT !.todo = <<r.todo[2]>>] /\ UNCHANGED saved
            \/ x \in Entries /\ r.op = "touch" /\ call'[c] = Idle /\ saved' = saved \cup r.save
               /\ (\E e : r.base = {e}) /\ Rewrites(r.base, x)
            \/ x \in Entries /\ r.op = "save" /\ Pending(r) /\ Len(r.todo) = 1
               /\ call'[c] = [r EXCEPT !.todo = <<>>] /\ UNCHANGED saved

LEMMA AppendEffect == ASSUME MemoryTypes, NEW c \in Calls, AppendLine(c) PROVE Appended(c, call[c], call[c].todo[1])
  <1>a. PICK r : r = call[c]
    OBVIOUS
  <1>b. PICK x : x = r.todo[1]
    OBVIOUS
  <1> USE <1>a, <1>b
  <1> SUFFICES Appended(c, r, x)
    BY Zenon
  <1>1. /\ x \in Lines /\ x.ids \subseteq IdsIn(r.todo) /\ x = Head(r.todo)
        /\ \/ x \in Deletions /\ r.op \in {"delete", "prune", "evict"} /\ Done(c)
           \/ /\ x \in Deletions /\ r.op = "save" /\ Pending(r) /\ Len(r.todo) = 2
              /\ call' = [call EXCEPT ![c].todo = <<r.todo[2]>>] /\ UNCHANGED saved
           \/ /\ x \in Entries /\ r.op = "touch" /\ Done(c)
              /\ (\E e : r.base = {e}) /\ Rewrites(r.base, x)
           \/ /\ x \in Entries /\ r.op = "save" /\ Pending(r) /\ Len(r.todo) = 1
              /\ call' = [call EXCEPT ![c].todo = <<>>] /\ UNCHANGED saved
    BY AppendCases, Zenon
  <1>2. /\ DOMAIN call = Calls /\ log \in Seq(Lines) /\ IdsIn(log) \subseteq 1 .. started /\ removed \subseteq 1 .. started
        /\ CallOK(r) /\ IdsIn(r.todo) \subseteq 1 .. started /\ stale \in BOOLEAN
    BY Zenon DEF MemoryTypes
  <1>3. /\ log' = Append(log, x) /\ UNCHANGED started
        /\ removed' = IF x.kind = "delete" THEN removed \cup x.ids ELSE removed
        /\ stale' = (stale \/ (x.kind = "entry" /\ ~ (r.base \subseteq Loaded(log))))
        /\ loose' = IF (x.kind = "entry" /\ ~ (r.base \subseteq Loaded(log))) \/ r.op = "touch" THEN loose \cup {x.ns} ELSE loose
    BY <1>1, Zenon DEF AppendLine
  <1>4. x.kind = "delete" <=> x \in Deletions
    BY <1>1, LineFields, Zenon
  <1>5. x.kind = "entry" <=> x \in Entries
    BY <1>1, LineFields, Zenon
  <1>6. ~ (x \in Deletions /\ x \in Entries)
    <2>1. "delete" # "entry"
      OBVIOUS
    <2> QED BY <1>4, <1>5, <2>1, Zenon
  <1>7. x \in Deletions => r.op # "touch"
    <2>1. "touch" \notin {"delete", "prune", "evict"} /\ "touch" # "save"
      OBVIOUS
    <2> QED BY <1>1, <1>6, <2>1, Zenon
  <1>8. x \in Deletions => removed' = removed \cup x.ids /\ loose' = loose /\ stale' = stale
    <2>1. x \in Deletions => removed' = removed \cup x.ids /\ loose' = loose
      BY <1>3, <1>4, <1>5, <1>6, <1>7, Zenon
    <2>2. x \in Deletions => stale' = stale
      BY <1>2, <1>3, <1>5, <1>6
    <2> QED BY <2>1, <2>2, Zenon
  <1>9. x \in Entries => /\ removed' = removed
                         /\ stale' = (stale \/ ~ (r.base \subseteq Loaded(log)))
                         /\ loose' = IF ~ (r.base \subseteq Loaded(log)) \/ r.op = "touch" THEN loose \cup {x.ns} ELSE loose
    <2>1. x \in Entries => x.kind = "entry" /\ x.kind # "delete"
      BY <1>4, <1>5, <1>6, Zenon
    <2>2. x.kind = "entry" => stale' = (stale \/ ~ (r.base \subseteq Loaded(log)))
      BY <1>3
    <2> QED BY <1>3, <2>1, <2>2, Zenon
  <1>10. log' \in Seq(Lines) /\ IdsIn(log') \subseteq 1 .. started /\ removed' \subseteq 1 .. started /\ stale' \in BOOLEAN
    <2>1. log' \in Seq(Lines)
      BY <1>1, <1>2, <1>3
    <2>2. IdsIn(log') = IdsIn(log) \cup x.ids
      BY <1>1, <1>2, <1>3, IdsAppend, Zenon
    <2>3. removed' \subseteq removed \cup x.ids
      BY <1>3, Zenon
    <2>4. stale' \in BOOLEAN
      BY <1>3
    <2> QED BY <1>1, <1>2, <2>1, <2>2, <2>3, <2>4, Zenon
  <1>11. CASE Done(c)
    <2>1. call' = [call EXCEPT ![c] = Idle] /\ saved' = saved \cup r.save
      BY <1>11, Zenon DEF Done
    <2>2. CallOK(Idle) /\ IdsIn(Idle.todo) \subseteq 1 .. started
      BY IdleOK, Zenon
    <2>3. MemoryTypes' /\ DOMAIN call' = Calls /\ call'[c] = Idle /\ \A d \in Calls \ {c} : call'[d] = call[d]
      BY <1>3, <1>10, <2>1, <2>2, OneCallTypes, Zenon
    <2>4. IdsIn(call'[c].todo) \subseteq IdsIn(r.todo)
      BY <2>3, IdleOK, Zenon
    <2>5. (x \in Deletions /\ r.op \in {"delete", "prune", "evict"})
          \/ (x \in Entries /\ r.op = "touch" /\ (\E e : r.base = {e}) /\ Rewrites(r.base, x))
      <3>1. call'[c] = Idle
        BY <2>3
      <3>2. ASSUME r.op = "save", NEW t, call' = [call EXCEPT ![c].todo = t] PROVE FALSE
        <4>1. call'[c] = [r EXCEPT !.todo = t]
          BY <1>2, <3>2, Zenon
        <4>2. call'[c].op = r.op
          BY <1>2, <4>1 DEF CallOK
        <4> QED BY <3>1, <3>2, <4>2, IdleOK
      <3> QED BY <1>1, <3>2, Zenon
    <2> QED BY <1>1, <1>2, <1>3, <1>8, <1>9, <2>1, <2>3, <2>4, <2>5, Zenon DEF Appended
  <1>12. ASSUME r.op = "save", Pending(r), UNCHANGED saved, NEW t, call' = [call EXCEPT ![c].todo = t],
                \/ x \in Deletions /\ Len(r.todo) = 2 /\ t = <<r.todo[2]>>
                \/ x \in Entries /\ Len(r.todo) = 1 /\ t = <<>>
         PROVE  /\ MemoryTypes' /\ DOMAIN call' = Calls /\ call'[c] = [r EXCEPT !.todo = t]
                /\ \A d \in Calls \ {c} : call'[d] = call[d]
                /\ IdsIn(call'[c].todo) \subseteq IdsIn(r.todo)
    <2>1. PICK q : q = [r EXCEPT !.todo = t]
      BY Zenon
    <2>2. call' = [call EXCEPT ![c] = q]
      BY <1>2, <1>12, <2>1, Zenon
    <2>3. CallOK(q) /\ IdsIn(q.todo) \subseteq IdsIn(r.todo)
      <3>1. (Len(r.todo) = 2 /\ t = <<r.todo[2]>>) \/ (Len(r.todo) = 1 /\ t = <<>>)
        BY <1>12, Zenon
      <3> QED BY <1>2, <1>12, <2>1, <3>1, TodoOK, Zenon
    <2>4. IdsIn(q.todo) \subseteq 1 .. started
      BY <1>2, <2>3, Zenon
    <2>5. MemoryTypes' /\ DOMAIN call' = Calls /\ call'[c] = q /\ \A d \in Calls \ {c} : call'[d] = call[d]
      BY <1>3, <1>10, <2>2, <2>3, <2>4, OneCallTypes, Zenon
    <2> QED BY <2>1, <2>3, <2>5, Zenon
  <1>13. CASE x \in Deletions /\ r.op = "save" /\ Pending(r) /\ Len(r.todo) = 2
              /\ call' = [call EXCEPT ![c].todo = <<r.todo[2]>>] /\ UNCHANGED saved
    BY <1>1, <1>2, <1>3, <1>8, <1>9, <1>12, <1>13, Zenon DEF Appended
  <1>14. CASE x \in Entries /\ r.op = "save" /\ Pending(r) /\ Len(r.todo) = 1
              /\ call' = [call EXCEPT ![c].todo = <<>>] /\ UNCHANGED saved
    BY <1>1, <1>2, <1>3, <1>8, <1>9, <1>12, <1>14, Zenon DEF Appended
  <1> QED BY <1>1, <1>11, <1>13, <1>14, Zenon

\* The entry that is appended by a call whose reading still holds.
LEMMA AppendedEntry ==
  ASSUME StoreInv, ~ stale, NEW c, NEW r, CallOK(r), NEW x \in Entries,
         New(r) => \A s \in r.save : Fresh(s.id, c),
         r.base \subseteq Loaded(log),
         \/ r.op = "touch" /\ (\E e : r.base = {e}) /\ Rewrites(r.base, x)
         \/ r.op = "save" /\ Pending(r) /\ Len(r.todo) = 1 /\ x = r.todo[1]
  PROVE  /\ x.ids \cap removed = {}
         /\ \A e \in Loaded(log) : e.ids \cap x.ids # {} => e.ids = x.ids /\ e.content \subseteq x.content /\ r.base = {e}
         /\ r.base = {} \/ \E e \in Loaded(log) : r.base = {e} /\ e.ids = x.ids /\ e.ns = x.ns
         /\ r.base = {} => r.op = "save"
  <1>1. log \in Seq(Lines) /\ removed \cap LoadedIds(log) = {}
    BY Zenon DEF StoreInv, StoreOK, MemoryTypes
  <1>2. Rewrites(r.base, x) /\ (r.base = {} \/ \E e : r.base = {e})
    BY Zenon DEF Pending
  <1>3. CASE r.base # {}
    <2>1. PICK e : r.base = {e}
      BY <1>2, <1>3, Zenon
    <2>2. e \in Loaded(log) /\ e.ids = x.ids /\ e.content \subseteq x.content /\ e.ns = x.ns
      BY <1>2, <2>1, Zenon DEF Rewrites
    <2>3. x.ids \cap removed = {}
      BY <1>1, <2>2, Zenon DEF LoadedIds
    <2>4. \A f \in Loaded(log) : f.ids \cap x.ids # {} => f = e
      BY <1>1, <2>2, LoadedApart, Zenon
    <2> QED BY <1>3, <2>1, <2>2, <2>3, <2>4, Zenon
  <1>4. CASE r.base = {}
    <2>1. r.op = "save" /\ Pending(r) /\ Len(r.todo) = 1 /\ x = r.todo[1]
      BY <1>4, Zenon
    <2>2. r.todo # <<>>
      BY <2>1
    <2>3. PICK s : s \in r.save
      <3>1. r # Idle /\ r.op \notin {"touch", "delete", "prune", "compact"}
        BY <2>1 DEF Idle
      <3> QED BY <3>1, Zenon DEF CallOK
    <2>4. x.ids = {s.id}
      BY <2>1, <2>3, Zenon DEF Pending
    <2>5. Fresh(s.id, c)
      BY <1>4, <2>1, <2>2, <2>3, Zenon DEF New
    <2>6. s.id \notin removed /\ s.id \notin IdsIn(log)
      BY <2>5, Zenon DEF Fresh
    <2>7. \A e \in Loaded(log) : e.ids \subseteq IdsIn(log)
      BY <1>1, LoadedFields, Zenon
    <2> QED BY <1>4, <2>1, <2>4, <2>6, <2>7, Zenon
  <1> QED BY <1>3, <1>4, Zenon

LEMMA AppendKeeps == ASSUME StoreInv, NEW c \in Calls, AppendLine(c) PROVE StoreInv'
  <1>1. PICK r : r = call[c]
    OBVIOUS
  <1>2. PICK x : x = r.todo[1]
    OBVIOUS
  <1>3. MemoryTypes
    BY Zenon DEF StoreInv
  <1>a. Appended(c, r, x)
    BY <1>1, <1>2, <1>3, AppendEffect, Zenon
  <1>4. /\ x \in Lines /\ x.ids \subseteq IdsIn(r.todo)
        /\ log' = Append(log, x) /\ log \in Seq(Lines)
        /\ x \in Deletions => removed' = removed \cup x.ids /\ loose' = loose /\ stale' = stale
        /\ x \in Entries => /\ removed' = removed
                            /\ stale' = (stale \/ ~ (r.base \subseteq Loaded(log)))
        /\ MemoryTypes' /\ DOMAIN call' = Calls /\ \A d \in Calls \ {c} : call'[d] = call[d]
        /\ IdsIn(call'[c].todo) \subseteq IdsIn(r.todo)
    BY <1>a, Zenon DEF Appended
  <1>5. \/ x \in Deletions /\ r.op \in {"delete", "prune", "evict"} /\ call'[c] = Idle /\ saved' = saved \cup r.save
        \/ x \in Deletions /\ r.op = "save" /\ Pending(r) /\ Len(r.todo) = 2
           /\ call'[c] = [r EXCEPT !.todo = <<r.todo[2]>>] /\ UNCHANGED saved
        \/ x \in Entries /\ r.op = "touch" /\ call'[c] = Idle /\ saved' = saved \cup r.save
           /\ (\E e : r.base = {e}) /\ Rewrites(r.base, x)
        \/ x \in Entries /\ r.op = "save" /\ Pending(r) /\ Len(r.todo) = 1
           /\ call'[c] = [r EXCEPT !.todo = <<>>] /\ UNCHANGED saved
    BY <1>a, Zenon DEF Appended
  <1> SUFFICES ASSUME ~ stale' PROVE StoreOK'
    BY <1>4, StaleKeeps, Zenon DEF StoreInv
  <1>6. stale \in BOOLEAN /\ CallOK(r) /\ r = call[c]
    BY <1>1, <1>3, Zenon DEF MemoryTypes
  <1>7. ~ stale /\ (x \in Entries => r.base \subseteq Loaded(log))
    BY <1>4, <1>6, Zenon DEF Lines
  <1>8. IdsIn(log') = IdsIn(log) \cup x.ids /\ removed \subseteq removed' /\ removed' \subseteq removed \cup x.ids
    BY <1>4, IdsAppend, Zenon DEF Lines
  <1>9. ASSUME NEW n \in 1 .. started, n \notin IdsIn(log), n \notin removed, n \notin IdsIn(r.todo)
        PROVE  n \notin IdsIn(log') /\ n \notin removed' /\ n \notin IdsIn(call'[c].todo)
    BY <1>4, <1>8, <1>9, Zenon
  <1>10. x \in Entries =>
            /\ x.ids \cap removed = {}
            /\ \A e \in Loaded(log) : e.ids \cap x.ids # {} => e.ids = x.ids /\ e.content \subseteq x.content
    <2> SUFFICES ASSUME x \in Entries
                 PROVE  /\ x.ids \cap removed = {}
                        /\ \A e \in Loaded(log) : e.ids \cap x.ids # {} => e.ids = x.ids /\ e.content \subseteq x.content
      BY Zenon
    <2>1. x \notin Deletions
      BY DEF Entries, Deletions
    <2>2. (r.op = "touch" /\ (\E e : r.base = {e}) /\ Rewrites(r.base, x))
          \/ (r.op = "save" /\ Pending(r) /\ Len(r.todo) = 1 /\ x = r.todo[1])
      BY <1>2, <1>5, <2>1, Zenon
    <2>3. r.base \subseteq Loaded(log)
      BY <1>7, Zenon
    <2>4. CallOK(r) /\ (New(r) => \A s \in r.save : Fresh(s.id, c))
      BY <1>6, <1>7, Zenon DEF StoreInv, StoreOK, New
    <2>5. /\ x.ids \cap removed = {}
          /\ \A e \in Loaded(log) : e.ids \cap x.ids # {} => e.ids = x.ids /\ e.content \subseteq x.content /\ r.base = {e}
      BY <1>7, <2>2, <2>3, <2>4, AppendedEntry, ZenonT(60)
    <2> QED BY <2>5, Zenon
  <1>11. \A s : Found(s) => Found(s)'
    <2>1. (x \in Deletions /\ x.ids \subseteq removed')
          \/ (x \in Entries /\ \A e \in Loaded(log) : e.ids \cap x.ids # {} => e.ids = x.ids /\ e.content \subseteq x.content)
      BY <1>4, <1>10, Zenon DEF Lines
    <2> QED BY <1>4, <1>8, <2>1, FoundAppend, Zenon
  <1>12. \A e : e \in Loaded(log') <=> (e \in Loaded(log) /\ e.ids \cap x.ids = {}) \/ (e = x /\ x.kind = "entry")
    BY <1>4, LoadedAppend, Zenon
  <1>13. removed' \cap LoadedIds(log') = {}
    <2>1. removed \cap LoadedIds(log) = {}
      BY <1>7, Zenon DEF StoreInv, StoreOK
    <2>2. \A e \in Loaded(log) : e.ids \cap removed = {}
      BY <2>1, Zenon DEF LoadedIds
    <2>3. CASE x \in Deletions
      <3>1. x.kind # "entry" /\ removed' = removed \cup x.ids
        BY <1>4, <2>3 DEF Deletions
      <3>2. \A e \in Loaded(log') : e.ids \cap removed' = {}
        BY <1>12, <2>2, <3>1, Zenon
      <3> QED BY <3>2, Zenon DEF LoadedIds
    <2>4. CASE x \in Entries
      <3>1. \A e \in Loaded(log') : e.ids \cap removed' = {}
        BY <1>4, <1>10, <1>12, <2>2, <2>4, ZenonT(60)
      <3> QED BY <3>1, Zenon DEF LoadedIds
    <2> QED BY <1>4, <2>3, <2>4, Zenon DEF Lines
  <1>14. call'[c] = Idle => ~ Written(call'[c]) /\ ~ New(call'[c])
    BY IdleOK DEF Written, New
  <1>15. CASE call'[c] = Idle /\ saved' = saved \cup r.save /\ r.op \in {"delete", "prune", "evict", "touch"}
    <2>1. \A s \in r.save : Found(s)
      <3>1. r.op = "evict" \/ r.save = {}
        <4>1. r # Idle /\ r.op # "save"
          BY <1>15 DEF Idle
        <4>2. r.op \in {"save", "evict"} => r.op = "evict"
          BY <4>1
        <4> QED BY <1>6, <4>1, <4>2, Zenon DEF CallOK
      <3> QED BY <1>6, <1>7, <3>1, Zenon DEF StoreInv, StoreOK, Written
    <2>2. \A s \in saved' : s \in saved \/ Found(s)'
      BY <1>11, <1>15, <2>1, Zenon
    <2> QED BY <1>4, <1>6, <1>7, <1>9, <1>11, <1>13, <1>14, <1>15, <2>2, StepKeeps, ZenonT(60)
  <1>16. CASE x \in Deletions /\ r.op = "save" /\ Pending(r) /\ Len(r.todo) = 2
              /\ call'[c] = [r EXCEPT !.todo = <<r.todo[2]>>] /\ UNCHANGED saved
    <2>1. PICK t : t = <<r.todo[2]>>
      BY Zenon
    <2>2. PICK q : q = call'[c]
      OBVIOUS
    <2>3. q.op = "save" /\ q.save = r.save /\ q.base = r.base /\ q.todo = t
      <3>1. DOMAIN r = {"op", "todo", "base", "ns", "save"} /\ q = [r EXCEPT !.todo = t] /\ r.op = "save"
        BY <1>6, <1>16, <2>1, <2>2, Zenon DEF CallOK
      <3> QED BY <3>1
    <2>4. t # <<>> /\ Len(t) = 1 /\ r.todo # <<>> /\ Len(t) # 2
      BY <1>16, <2>1
    <2>5. ~ Written(q)
      BY <2>3, <2>4 DEF Written
    <2>6. r.base = {}
      BY <1>16, Zenon DEF Pending
    <2>7. ASSUME NEW s \in q.save PROVE Fresh(s.id, c)'
      <3>1. Fresh(s.id, c)
        BY <1>6, <1>7, <1>16, <2>3, <2>4, <2>6, Zenon DEF StoreInv, StoreOK
      <3>2. s.id \notin x.ids
        BY <1>6, <1>16, <1>2, <3>1, Zenon DEF Fresh
      <3>3. s.id \notin removed' /\ s.id \notin IdsIn(log')
        BY <1>8, <3>1, <3>2, Zenon DEF Fresh
      <3>4. \A d \in Calls \ {c} : s.id \notin IdsIn(call'[d].todo)
        BY <1>4, <3>1, Zenon DEF Fresh
      <3> QED BY <2>2, <2>3, <2>4, <3>3, <3>4, Zenon DEF Fresh
    <2> QED BY <1>4, <1>6, <1>7, <1>9, <1>11, <1>13, <1>16, <2>2, <2>5, <2>7, StepKeeps, ZenonT(60)
  <1>17. CASE x \in Entries /\ r.op = "save" /\ Pending(r) /\ Len(r.todo) = 1
              /\ call'[c] = [r EXCEPT !.todo = <<>>] /\ UNCHANGED saved
    <2>1. PICK t : t = <<>>
      OBVIOUS
    <2>2. PICK q : q = call'[c]
      OBVIOUS
    <2>3. q.op = "save" /\ q.save = r.save /\ q.base = r.base /\ q.todo = t
      <3>1. DOMAIN r = {"op", "todo", "base", "ns", "save"} /\ q = [r EXCEPT !.todo = t] /\ r.op = "save"
        BY <1>6, <1>17, <2>1, <2>2, Zenon DEF CallOK
      <3> QED BY <3>1
    <2>4. ~ New(q)
      BY <2>1, <2>3, Zenon DEF New
    <2>5. \A s \in q.save : Found(s)'
      <3>1. \A s \in r.save : x.ids = {s.id} /\ s.text \in x.content
        BY <1>2, <1>17, Zenon DEF Pending
      <3>2. x \in Loaded(log')
        BY <1>4, <1>12, <1>17, LineFields, Zenon
      <3>3. \A s \in r.save : s.id \in x.ids
        BY <3>1, Zenon
      <3> QED BY <2>3, <3>1, <3>2, <3>3, Zenon DEF Found
    <2> QED BY <1>4, <1>6, <1>7, <1>9, <1>11, <1>13, <1>17, <2>2, <2>4, <2>5, StepKeeps, ZenonT(60)
  <1>18. r.op \in {"delete", "prune", "evict"} \/ r.op = "touch" => r.op \in {"delete", "prune", "evict", "touch"}
    OBVIOUS
  <1> QED BY <1>5, <1>15, <1>16, <1>17, <1>18, Zenon

\* A call whose entry is in the file goes on to an eviction, or returns.
LEMMA QuietKeeps ==
  ASSUME StoreInv, NEW c \in Calls, NEW q, call' = [call EXCEPT ![c] = q], UNCHANGED <<log, removed, stale, started>>,
         CallOK(q), IdsIn(q.todo) \subseteq IdsIn(log), ~ New(q), saved' \subseteq saved \cup call[c].save,
         Written(call[c]), q.save \subseteq call[c].save
  PROVE  StoreInv'
  <1>1. MemoryTypes /\ stale \in BOOLEAN
    BY Zenon DEF StoreInv, MemoryTypes
  <1>2. /\ log' \in Seq(Lines) /\ IdsIn(log') \subseteq 1 .. started /\ removed' \subseteq 1 .. started /\ stale' \in BOOLEAN
        /\ IdsIn(q.todo) \subseteq 1 .. started /\ UNCHANGED started
    BY Zenon DEF StoreInv, MemoryTypes, IdsIn
  <1>3. MemoryTypes' /\ DOMAIN call' = Calls /\ call'[c] = q /\ \A d \in Calls \ {c} : call'[d] = call[d]
    BY <1>1, <1>2, OneCallTypes, Zenon
  <1> SUFFICES ASSUME ~ stale' PROVE StoreOK'
    BY <1>3, StaleKeeps, Zenon DEF StoreInv
  <1>4. ~ stale
    BY Zenon
  <1>5. \A s : Found(s) => Found(s)'
    BY Zenon DEF Found
  <1>6. \A s \in call[c].save : Found(s)'
    BY <1>4, <1>5, Zenon DEF StoreInv, StoreOK
  <1>7. removed' \cap LoadedIds(log') = {} /\ IdsIn(log') = IdsIn(log)
    BY <1>4, Zenon DEF StoreInv, StoreOK
  <1>8. \A s \in saved' : s \in saved \/ Found(s)'
    BY <1>6, Zenon
  <1>9. \A n \in 1 .. started : n \notin IdsIn(log) => n \notin IdsIn(call'[c].todo)
    BY <1>3, Zenon
  <1>10. \A s \in call'[c].save : Found(s)'
    BY <1>3, <1>6, Zenon
  <1> QED BY <1>3, <1>4, <1>5, <1>7, <1>8, <1>9, <1>10, StepKeeps, Zenon

LEMMA ReturnKeeps ==
  ASSUME StoreInv, NEW c \in Calls, Done(c), UNCHANGED <<log, removed, stale, started>>, Written(call[c])
  PROVE  StoreInv'
  <1>1. call' = [call EXCEPT ![c] = Idle] /\ saved' \subseteq saved \cup call[c].save
    BY Zenon DEF Done
  <1>2. CallOK(Idle) /\ IdsIn(Idle.todo) \subseteq IdsIn(log) /\ Idle.save \subseteq call[c].save
    BY IdleOK, Zenon
  <1>3. ~ New(Idle)
    BY IdleOK DEF New
  <1> QED BY <1>1, <1>2, <1>3, QuietKeeps, Zenon

\* The record of a save that turns to its eviction.
LEMMA EvictOK ==
  ASSUME NEW r, CallOK(r), r.op = "save", NEW m \in Deletions
  PROVE  LET q == [r EXCEPT !.op = "evict", !.todo = <<m>>] IN
         CallOK(q) /\ q.op = "evict" /\ q.save = r.save /\ q.ns = r.ns /\ q.todo = <<m>> /\ IdsIn(q.todo) = m.ids
  <1> DEFINE q == [r EXCEPT !.op = "evict", !.todo = <<m>>]
  <1>1. DOMAIN r = {"op", "todo", "base", "ns", "save"}
    BY Zenon DEF CallOK
  <1>2. q.op = "evict" /\ q.save = r.save /\ q.ns = r.ns /\ q.todo = <<m>> /\ DOMAIN q = {"op", "todo", "base", "ns", "save"}
    BY <1>1
  <1>3. (\E ns \in Namespaces : r.ns = {ns}) /\ \E s : r.save = {s}
    <2>1. r # Idle /\ r.op \notin {"touch", "delete", "prune", "compact"}
      BY DEF Idle
    <2> QED BY <2>1, Zenon DEF CallOK
  <1>4. <<m>> \in Seq(Lines) /\ Len(<<m>>) = 1 /\ <<m>>[1] = m
    BY OneLine, Zenon DEF Lines
  <1>5. IdsIn(<<m>>) = m.ids
    BY IdsOne, Zenon
  <1>6. "evict" \in {"save", "evict"}
    OBVIOUS
  <1> HIDE DEF q
  <1>7. CallOK(q)
    BY <1>2, <1>3, <1>4, <1>6, Zenon DEF CallOK
  <1> QED BY <1>2, <1>5, <1>7, Zenon DEF q

\* What the quota decides.
LEMMA QuotaCases ==
  ASSUME MemoryTypes, NEW c \in Calls, QuotaReads(c)
  PROVE  /\ call[c].op = "save" /\ call[c].todo = <<>>
         /\ UNCHANGED <<log, removed, stale, started>> /\ loose' = loose \ call[c].ns
         /\ \E ns \in call[c].ns, s \in call[c].save : \E V :
              /\ V \in Victims(InNamespace(ns), s.id) /\ V \subseteq InNamespace(ns)
              /\ \/ V = {} /\ Done(c)
                 \/ /\ call' = [call EXCEPT ![c] = [call[c] EXCEPT !.op = "evict", !.todo = <<Markers(IdsOf(V))>>]]
                    /\ UNCHANGED saved
  <1>1. DOMAIN call = Calls /\ DOMAIN call[c] = {"op", "todo", "base", "ns", "save"}
    BY Zenon DEF MemoryTypes, CallOK
  <1>2. ASSUME NEW t, call' = [call EXCEPT ![c].op = "evict", ![c].todo = t]
        PROVE  call' = [call EXCEPT ![c] = [call[c] EXCEPT !.op = "evict", !.todo = t]]
    BY <1>1, <1>2, Zenon
  <1>3. \A E, i : \A V \in Victims(E, i) : V \subseteq E
    BY Zenon DEF Victims
  <1>4. PICK ns \in call[c].ns, s \in call[c].save : \E V \in Victims(InNamespace(ns), s.id) :
           \/ V = {} /\ Done(c)
           \/ /\ call' = [call EXCEPT ![c].op = "evict", ![c].todo = <<Markers(IdsOf(V))>>]
              /\ UNCHANGED saved
    BY Zenon DEF QuotaReads
  <1>5. PICK V \in Victims(InNamespace(ns), s.id) :
           \/ V = {} /\ Done(c)
           \/ /\ call' = [call EXCEPT ![c].op = "evict", ![c].todo = <<Markers(IdsOf(V))>>]
              /\ UNCHANGED saved
    BY <1>4, Zenon
  <1>6. V \subseteq InNamespace(ns)
    BY <1>3, Zenon
  <1>7. \/ V = {} /\ Done(c)
        \/ /\ call' = [call EXCEPT ![c] = [call[c] EXCEPT !.op = "evict", !.todo = <<Markers(IdsOf(V))>>]]
           /\ UNCHANGED saved
    BY <1>2, <1>5, Zenon
  <1>8. /\ call[c].op = "save" /\ call[c].todo = <<>>
        /\ UNCHANGED <<log, removed, stale, started>> /\ loose' = loose \ call[c].ns
    BY Zenon DEF QuotaReads
  <1> QED BY <1>6, <1>7, <1>8, Zenon

LEMMA QuotaKeeps == ASSUME StoreInv, NEW c \in Calls, QuotaReads(c) PROVE StoreInv'
  <1>1. MemoryTypes /\ CallOK(call[c]) /\ log \in Seq(Lines)
    BY Zenon DEF StoreInv, MemoryTypes
  <1>2. /\ call[c].op = "save" /\ call[c].todo = <<>>
        /\ UNCHANGED <<log, removed, stale, started>>
        /\ \E ns \in call[c].ns, s \in call[c].save : \E V :
              /\ V \in Victims(InNamespace(ns), s.id) /\ V \subseteq InNamespace(ns)
              /\ \/ V = {} /\ Done(c)
                 \/ /\ call' = [call EXCEPT ![c] = [call[c] EXCEPT !.op = "evict", !.todo = <<Markers(IdsOf(V))>>]]
                    /\ UNCHANGED saved
    BY <1>1, QuotaCases, Zenon
  <1>3. Written(call[c])
    BY <1>2, Zenon DEF Written
  <1>4. CASE Done(c)
    BY <1>2, <1>3, <1>4, ReturnKeeps, Zenon
  <1>5. ASSUME NEW ns, NEW V, V \subseteq InNamespace(ns),
               call' = [call EXCEPT ![c] = [call[c] EXCEPT !.op = "evict", !.todo = <<Markers(IdsOf(V))>>]],
               UNCHANGED saved
        PROVE  StoreInv'
    <2>1. V \in SUBSET Loaded(log)
      BY <1>5, Zenon DEF InNamespace
    <2>2. IdsOf(V) \in SUBSET IdsIn(log) /\ IdsOf(V) \in SUBSET Nat
      BY <1>1, <2>1, IdsOfLoaded, Zenon
    <2>3. PICK m : m = Markers(IdsOf(V))
      OBVIOUS
    <2>4. m \in Deletions /\ m.ids \subseteq IdsIn(log)
      BY <2>2, <2>3, MarkersOK, Zenon
    <2>5. PICK q : q = [call[c] EXCEPT !.op = "evict", !.todo = <<m>>]
      OBVIOUS
    <2>6. CallOK(q) /\ q.op = "evict" /\ q.save = call[c].save /\ IdsIn(q.todo) = m.ids
      BY <1>1, <1>2, <2>4, <2>5, EvictOK, ZenonT(60)
    <2>7. call' = [call EXCEPT ![c] = q] /\ saved' \subseteq saved \cup call[c].save
      BY <1>5, <2>3, <2>5, Zenon
    <2>8. ~ New(q)
      BY <2>6 DEF New
    <2>9. IdsIn(q.todo) \subseteq IdsIn(log) /\ q.save \subseteq call[c].save
      BY <2>4, <2>6, Zenon
    <2> QED BY <1>2, <1>3, <2>6, <2>7, <2>8, <2>9, QuietKeeps, Zenon
  <1> QED BY <1>2, <1>4, <1>5, Zenon

LEMMA RenameKeeps == ASSUME StoreInv, NEW c \in Calls, Rename(c) PROVE StoreInv'
  <1>1. /\ MemoryTypes /\ CallOK(call[c]) /\ log \in Seq(Lines) /\ IdsIn(call[c].todo) \subseteq 1 .. started
        /\ removed \subseteq 1 .. started /\ stale \in BOOLEAN
    BY Zenon DEF StoreInv, MemoryTypes
  <1>2. /\ call[c].op = "compact" /\ log' = call[c].todo /\ UNCHANGED <<started, removed>>
        /\ stale' = (stale \/ call[c].base # Loaded(log))
        /\ call' = [call EXCEPT ![c] = Idle] /\ saved' = saved \cup call[c].save
    BY Zenon DEF Rename, Done
  <1>3. call[c].base = Loaded(call[c].todo) /\ call[c].save = {} /\ call[c].todo \in Seq(Lines)
    <2>1. "compact" \notin {"save", "evict"} /\ "compact" # "touch" /\ "compact" \notin {"delete", "prune"} /\ call[c] # Idle
      BY <1>2 DEF Idle
    <2> QED BY <1>1, <1>2, <2>1, Zenon DEF CallOK
  <1>4. stale' \in BOOLEAN /\ (~ stale' => ~ stale /\ call[c].base = Loaded(log))
    BY <1>1, <1>2, Zenon
  <1>5. /\ log' \in Seq(Lines) /\ IdsIn(log') \subseteq 1 .. started /\ removed' \subseteq 1 .. started /\ UNCHANGED started
        /\ CallOK(Idle) /\ IdsIn(Idle.todo) \subseteq 1 .. started
    BY <1>1, <1>2, <1>3, IdleOK, Zenon
  <1>6. MemoryTypes' /\ DOMAIN call' = Calls /\ call'[c] = Idle /\ \A d \in Calls \ {c} : call'[d] = call[d]
    BY <1>1, <1>2, <1>4, <1>5, OneCallTypes, Zenon
  <1> SUFFICES ASSUME ~ stale' PROVE StoreOK'
    BY <1>6, StaleKeeps, Zenon DEF StoreInv
  <1>7. Loaded(log') = Loaded(log) /\ ~ stale /\ UNCHANGED removed
    BY <1>2, <1>3, <1>4, Zenon
  <1>8. \A s : Found(s) => Found(s)'
    BY <1>7, Zenon DEF Found
  <1>9. removed' \cap LoadedIds(log') = {}
    BY <1>7, Zenon DEF StoreInv, StoreOK, LoadedIds
  <1>10. IdsIn(log') = IdsIn(call[c].todo) /\ IdsIn(call'[c].todo) = {}
    BY <1>2, <1>6, IdleOK, Zenon
  <1>11. ~ Written(call'[c]) /\ ~ New(call'[c])
    BY <1>6, IdleOK DEF Written, New
  <1>12. \A s \in saved' : s \in saved \/ Found(s)'
    BY <1>2, <1>3, Zenon
  <1>13. \A n \in 1 .. started :
            n \notin IdsIn(log) /\ n \notin removed /\ (c \in Calls => n \notin IdsIn(call[c].todo))
            => n \notin IdsIn(log') /\ n \notin removed' /\ (c \in Calls => n \notin IdsIn(call'[c].todo))
    BY <1>7, <1>10, Zenon
  <1> QED BY <1>6, <1>7, <1>8, <1>9, <1>11, <1>12, <1>13, StepKeeps, Zenon

LEMMA EraseKeeps == ASSUME StoreInv, Erase PROVE StoreInv'
  <1>1. /\ log' = <<>> /\ removed' = removed \cup LoadedIds(log) /\ UNCHANGED <<call, started, saved, stale>>
        /\ log \in Seq(Lines) /\ MemoryTypes
    BY Zenon DEF StoreInv, MemoryTypes, Erase
  <1>2. log' \in Seq(Lines) /\ DOMAIN log' = {}
    BY <1>1
  <1>3. IdsIn(log') = {} /\ Live(log') = {}
    BY <1>2, Zenon DEF IdsIn, Live
  <1>4. Loaded(log') = {} /\ LoadedIds(log') = {}
    BY <1>3, Zenon DEF Loaded, LoadedIds
  <1>5. LoadedIds(log) \subseteq IdsIn(log)
    BY <1>1, LiveAt, Zenon
  <1>6. MemoryTypes'
    BY <1>1, <1>2, <1>3, <1>5, Zenon DEF MemoryTypes
  <1>7. \A s : Found(s) => Found(s)'
    BY <1>1, Zenon DEF Found, LoadedIds
  <1>8. \A n, c : Fresh(n, c) => Fresh(n, c)'
    BY <1>1, <1>3, <1>5, Zenon DEF Fresh
  <1>9. StoreOK'
    BY <1>1, <1>4, <1>7, <1>8, Zenon DEF StoreInv, StoreOK
  <1> QED BY <1>6, <1>9, Zenon DEF StoreInv

LEMMA CrashKeeps == ASSUME StoreInv, Crash PROVE StoreInv'
  <1>1. call' = [c \in Calls |-> Idle] /\ UNCHANGED <<log, started, saved, removed, stale>>
    BY Zenon DEF Crash
  <1>2. DOMAIN call' = Calls /\ \A c \in Calls : call'[c] = Idle
    BY <1>1, Zenon
  <1>3. \A c \in Calls : CallOK(call'[c]) /\ IdsIn(call'[c].todo) \subseteq 1 .. started'
    BY <1>2, IdleOK, Zenon
  <1>4. MemoryTypes'
    <2>1. /\ started' \in Nat /\ log' \in Seq(Lines) /\ removed' \subseteq 1 .. started' /\ stale' \in BOOLEAN
          /\ IdsIn(log') = IdsIn(log) /\ IdsIn(log) \subseteq 1 .. started'
      BY <1>1, Zenon DEF StoreInv, MemoryTypes
    <2> QED BY <1>2, <1>3, <2>1, Zenon DEF MemoryTypes
  <1>5. \A s : Found(s) => Found(s)'
    BY <1>1, Zenon DEF Found
  <1>6. \A c \in Calls : ~ Written(call'[c]) /\ call'[c].op # "save"
    BY <1>2, IdleOK DEF Written
  <1>7. StoreOK'
    BY <1>1, <1>5, <1>6, Zenon DEF StoreInv, StoreOK
  <1> QED BY <1>4, <1>7, Zenon DEF StoreInv

LEMMA StoreStarts == MemoryInit => StoreInv
  <1> SUFFICES ASSUME MemoryInit PROVE StoreInv
    OBVIOUS
  <1>1. log = <<>> /\ call = [c \in Calls |-> Idle] /\ started = 0 /\ saved = {} /\ removed = {} /\ stale = FALSE
    BY Zenon DEF MemoryInit
  <1>2. log \in Seq(Lines) /\ DOMAIN log = {} /\ started \in Nat
    BY <1>1
  <1>3. IdsIn(log) = {} /\ Live(log) = {}
    BY <1>2, Zenon DEF IdsIn, Live
  <1>4. Loaded(log) = {} /\ LoadedIds(log) = {}
    BY <1>3, Zenon DEF Loaded, LoadedIds
  <1>5. DOMAIN call = Calls /\ \A c \in Calls : call[c] = Idle
    BY <1>1, Zenon
  <1>6. \A c \in Calls : CallOK(call[c]) /\ IdsIn(call[c].todo) \subseteq 1 .. started
    BY <1>5, IdleOK, Zenon
  <1>7. \A c \in Calls : ~ Written(call[c]) /\ call[c].op # "save"
    BY <1>5, IdleOK DEF Written
  <1>8. MemoryTypes
    BY <1>1, <1>2, <1>3, <1>5, <1>6, Zenon DEF MemoryTypes
  <1>9. StoreOK
    BY <1>1, <1>4, <1>7, Zenon DEF StoreOK
  <1> QED BY <1>8, <1>9, Zenon DEF StoreInv

LEMMA StoreNext == ASSUME StoreInv, [MemoryNext]_memoryVars PROVE StoreInv'
  <1>1. CASE UNCHANGED memoryVars
    <2>1. UNCHANGED <<log, call, started, saved, removed, stale>>
      BY <1>1, Zenon DEF memoryVars
    <2>2. IdsIn(log') = IdsIn(log) /\ LoadedIds(log') = LoadedIds(log)
      BY <2>1, Zenon
    <2>3. MemoryTypes'
      BY <2>1, <2>2, Zenon DEF StoreInv, MemoryTypes
    <2>4. (\A s : Found(s) => Found(s)') /\ \A n, c : Fresh(n, c) => Fresh(n, c)'
      BY <2>1, Zenon DEF Found, Fresh
    <2>5. StoreOK'
      BY <2>1, <2>2, <2>4, Zenon DEF StoreInv, StoreOK
    <2> QED BY <2>3, <2>5, Zenon DEF StoreInv
  <1>2. CASE MemoryNext
    BY <1>2, UpsertKeeps, ReplaceKeeps, PruneKeeps, DeleteKeeps, TouchKeeps, CompactKeeps, AppendKeeps, QuotaKeeps,
       RenameKeeps, EraseKeeps, CrashKeeps, ZenonT(60) DEF MemoryNext, AutoSave, Feedback, Get
  <1> QED BY <1>1, <1>2, Zenon

\* As long as no rewrite of an entry was overtaken by another call, what every
\* memory_save wrote is found in its entry or was removed after it, and nothing
\* that was removed comes back, for any number of concurrent calls and restarts.
THEOREM StoreFollows == MemorySpec => []StoreFollowsCalls
  <1>1. StoreInv => StoreFollowsCalls
    BY Zenon DEF StoreInv, StoreOK, Found, StoreFollowsCalls
  <1> QED BY <1>1, StoreStarts, StoreNext, PTL DEF MemorySpec

LEMMA LoadedFinite == ASSUME NEW l \in Seq(Lines) PROVE IsFiniteSet(Loaded(l))
  <1> DEFINE f == [k \in Live(l) |-> l[k]]
  <1>1. IsFiniteSet(1 .. Len(l))
    BY FS_Interval
  <1>2. IsFiniteSet(Live(l))
    <2>1. Live(l) \in SUBSET (1 .. Len(l))
      BY LiveAt, Zenon
    <2> QED BY <1>1, <2>1, FS_Subset, Zenon
  <1>3. f \in Surjection(Live(l), Loaded(l))
    BY Zenon DEF Loaded, Surjection
  <1> QED BY <1>2, <1>3, FS_Surjection, Zenon

\* What a quota allows does not become too much by becoming less.
LEMMA BytesSubset ==
  ASSUME NEW E, IsFiniteSet(E), NEW F \in SUBSET E
  PROVE  Bytes(F) <= Bytes(E) /\ Bytes(E) \in Nat /\ Bytes(F) \in Nat
  <1> DEFINE B(S) == {p \in S \X (1 .. MaxStarted) : p[2] \in p[1].content}
  <1>1. MaxStarted \in Nat
    BY MemoryAssumption
  <1>2. IsFiniteSet(1 .. MaxStarted)
    BY <1>1, FS_Interval
  <1>3. IsFiniteSet(E \X (1 .. MaxStarted))
    BY <1>2, FS_Product, Zenon
  <1>4. B(E) \in SUBSET (E \X (1 .. MaxStarted))
    BY Zenon
  <1>5. B(F) \in SUBSET B(E)
    <2>1. F \X (1 .. MaxStarted) \subseteq E \X (1 .. MaxStarted)
      OBVIOUS
    <2> QED BY <2>1, Zenon
  <1>6. /\ Bytes(E) = Cardinality(B(E)) /\ Bytes(F) = Cardinality(B(F))
    BY Zenon DEF Bytes
  <1> HIDE DEF B
  <1>7. IsFiniteSet(B(E))
    BY <1>3, <1>4, FS_Subset, Zenon
  <1>8. IsFiniteSet(B(F)) /\ Cardinality(B(F)) <= Cardinality(B(E))
    BY <1>5, <1>7, FS_Subset, Zenon
  <1> QED BY <1>6, <1>7, <1>8, FS_CardinalityType, Zenon

LEMMA FitsSubset == ASSUME NEW E, Fits(E), NEW F \in SUBSET E PROVE Fits(F)
  <1>1. IsFiniteSet(E)
    BY Zenon DEF Fits
  <1>2. IsFiniteSet(F) /\ Cardinality(F) <= Cardinality(E)
    BY <1>1, FS_Subset, Zenon
  <1>3. Cardinality(E) \in Nat /\ Cardinality(F) \in Nat
    BY <1>1, <1>2, FS_CardinalityType, Zenon
  <1>4. Bytes(F) <= Bytes(E) /\ Bytes(E) \in Nat /\ Bytes(F) \in Nat
    BY <1>1, BytesSubset, Zenon
  <1>5. MaxEntries \in Nat /\ MaxBytes \in Nat
    BY MemoryAssumption
  <1>6. ~ Over(E) \/ Cardinality(E) <= 1
    BY Zenon DEF Fits
  <1>7. ~ Over(F) \/ Cardinality(F) <= 1
    BY <1>2, <1>3, <1>4, <1>5, <1>6 DEF Over
  <1> QED BY <1>2, <1>7, Zenon DEF Fits

LEMMA EvictedIs ==
  \A ns, i : i \in Evicted(ns) <=> \E c \in Calls : call[c].op = "evict" /\ ns \in call[c].ns /\ i \in IdsIn(call[c].todo)
  BY Zenon DEF Evicted

\* Steps after which less is left.
LEMMA QuotaFrame ==
  ASSUME QuotaOK, loose \subseteq loose',
         \A ns \in Namespaces \ loose' : Settling(ns)' => Settling(ns) /\ Left(ns)' \subseteq Left(ns)
  PROVE  QuotaOK'
  <1> SUFFICES ASSUME NEW ns \in Namespaces \ loose', Settling(ns)' PROVE Fits(Left(ns)')
    BY Zenon DEF QuotaOK, Fits, Over, Bytes
  <1>1. ns \in Namespaces \ loose /\ Settling(ns) /\ Left(ns)' \in SUBSET Left(ns)
    BY Zenon
  <1>2. Fits(Left(ns))
    BY <1>1, Zenon DEF QuotaOK
  <1> QED BY <1>1, <1>2, FitsSubset, Zenon

LEMMA EvictedSame ==
  ASSUME NEW c \in Calls, \A d \in Calls \ {c} : call'[d] = call[d], NEW ns,
         ~ (call[c].op = "evict" /\ ns \in call[c].ns), ~ (call'[c].op = "evict" /\ ns \in call'[c].ns)
  PROVE  Evicted(ns)' = Evicted(ns)
  <1>1. \A i : i \in Evicted(ns)' <=> \E d \in Calls : call'[d].op = "evict" /\ ns \in call'[d].ns /\ i \in IdsIn(call'[d].todo)
    BY Zenon DEF Evicted
  <1>2. \A i : i \in Evicted(ns)' <=> i \in Evicted(ns)
    BY <1>1, EvictedIs, ZenonT(60)
  <1> QED BY <1>2, Zenon

LEMMA ReadQuota ==
  ASSUME QuotaOK, MemoryTypes, NEW c \in Calls, NEW op, NEW todo, NEW base, NEW m, NEW save, op # "evict",
         Read(c, op, todo, base, m, save)
  PROVE  QuotaOK'
  <1> DEFINE r == [op |-> op, todo |-> todo, base |-> base, ns |-> m, save |-> save]
  <1>1. r.op = op /\ DOMAIN call = Calls /\ call[c] = Idle /\ UNCHANGED <<log, loose>>
    BY Zenon DEF Read, MemoryTypes
  <1>2. call'[c] = r /\ \A d \in Calls \ {c} : call'[d] = call[d]
    BY <1>1, Zenon DEF Read
  <1>3. Idle.op # "evict" /\ Idle.ns = {}
    BY IdleOK
  <1> HIDE DEF r
  <1>4. \A ns : Evicted(ns)' = Evicted(ns)
    BY <1>1, <1>2, <1>3, EvictedSame, Zenon
  <1>5. \A ns : InNamespace(ns)' = InNamespace(ns)
    BY <1>1, Zenon DEF InNamespace
  <1>6. \A ns : Left(ns)' = Left(ns)
    BY <1>4, <1>5, Zenon DEF Left
  <1>7. \A ns : Settling(ns)' => Settling(ns)
    BY <1>1, <1>2, <1>3, Zenon DEF Settling
  <1> QED BY <1>1, <1>6, <1>7, QuotaFrame, Zenon

\* Of what was appended nothing new is left, unless it is an entry of the namespace.
LEMMA LeftAppend ==
  ASSUME log \in Seq(Lines), NEW x \in Lines, log' = Append(log, x), NEW ns, x \in Entries => x.ns # ns,
         Evicted(ns) \subseteq Evicted(ns)' \cup x.ids
  PROVE  Left(ns)' \subseteq Left(ns)
  <1>1. \A e : e \in Loaded(log') <=> (e \in Loaded(log) /\ e.ids \cap x.ids = {}) \/ (e = x /\ x.kind = "entry")
    BY LoadedAppend, Zenon
  <1>2. x.kind = "entry" <=> x \in Entries
    BY LineFields, Zenon
  <1> SUFFICES ASSUME NEW e \in Left(ns)' PROVE e \in Left(ns)
    BY Zenon
  <1>3. e \in Loaded(log') /\ e.ns = ns /\ e.ids \cap Evicted(ns)' = {}
    BY Zenon DEF Left, InNamespace
  <1>4. e \in Loaded(log) /\ e.ids \cap x.ids = {}
    BY <1>1, <1>2, <1>3, Zenon
  <1>5. e.ids \cap Evicted(ns) = {}
    BY <1>3, <1>4, Zenon
  <1> QED BY <1>3, <1>4, <1>5, Zenon DEF Left, InNamespace

LEMMA AppendQuota == ASSUME QuotaOK, MemoryTypes, NEW c \in Calls, AppendLine(c) PROVE QuotaOK'
  <1>1. PICK r : r = call[c]
    OBVIOUS
  <1>2. PICK x : x = r.todo[1]
    OBVIOUS
  <1>3. Appended(c, r, x)
    BY <1>1, <1>2, AppendEffect, Zenon
  <1>4. /\ x \in Lines /\ log' = Append(log, x) /\ log \in Seq(Lines)
        /\ x \in Deletions => loose' = loose
        /\ x \in Entries => loose' = IF ~ (r.base \subseteq Loaded(log)) \/ r.op = "touch" THEN loose \cup {x.ns} ELSE loose
        /\ \A d \in Calls \ {c} : call'[d] = call[d]
    BY <1>3, Zenon DEF Appended
  <1>5. \/ x \in Deletions /\ r.op \in {"delete", "prune", "evict"} /\ call'[c] = Idle
        \/ x \in Deletions /\ r.op = "save" /\ call'[c] = [r EXCEPT !.todo = <<r.todo[2]>>]
        \/ x \in Entries /\ r.op = "touch" /\ call'[c] = Idle
        \/ x \in Entries /\ r.op = "save" /\ Pending(r) /\ Len(r.todo) = 1 /\ call'[c] = [r EXCEPT !.todo = <<>>]
    BY <1>3, Zenon DEF Appended
  <1>6. CallOK(r) /\ r = call[c]
    BY <1>1, Zenon DEF MemoryTypes
  <1>7. loose \subseteq loose'
    BY <1>4, Zenon DEF Lines
  <1>8. ~ (x \in Deletions /\ x \in Entries)
    BY DEF Deletions, Entries
  <1>9. r.op # "save" => call'[c].ns = {} /\ call'[c].op # "evict"
    BY <1>5, IdleOK, Zenon
  <1>10. r.op = "save" => call'[c].ns = r.ns /\ call'[c].op = "save"
    <2>1. r.op = "save" => \E t : call'[c] = [r EXCEPT !.todo = t]
      <3>1. "save" \notin {"delete", "prune", "evict"} /\ "save" # "touch"
        OBVIOUS
      <3> QED BY <1>5, <3>1, Zenon
    <2>2. DOMAIN r = {"op", "todo", "base", "ns", "save"}
      BY <1>6, Zenon DEF CallOK
    <2> QED BY <2>1, <2>2, Zenon
  <1>11. r.op = "evict" => x \in Deletions /\ IdsIn(r.todo) = x.ids
    <2> SUFFICES ASSUME r.op = "evict" PROVE x \in Deletions /\ IdsIn(r.todo) = x.ids
      BY Zenon
    <2>1. r # Idle /\ r.op # "save" /\ r.op \notin {"touch", "delete", "prune", "compact"}
      BY DEF Idle
    <2>2. Len(r.todo) = 1 /\ r.todo[1] \in Deletions /\ r.todo \in Seq(Lines)
      BY <1>6, <2>1, Zenon DEF CallOK
    <2>3. DOMAIN r.todo = {1}
      BY <2>2
    <2> QED BY <1>2, <2>2, <2>3, Zenon DEF IdsIn
  <1>12. r.op \notin {"save", "evict"} => r.ns = {}
    BY <1>6, IdleOK, Zenon DEF CallOK
  <1> SUFFICES ASSUME NEW ns \in Namespaces \ loose', Settling(ns)' PROVE Settling(ns) /\ Left(ns)' \subseteq Left(ns)
    BY <1>7, QuotaFrame, Zenon
  <1>13. r.op = "save" => ns \notin r.ns
    <2>1. "save" # "evict"
      OBVIOUS
    <2> QED BY <1>10, <2>1, Zenon DEF Settling
  <1>14. Settling(ns)
    <2>1. ns \in r.ns => r.op = "evict"
      <3>1. r.op # "save" /\ r.op # "evict" => r.op \notin {"save", "evict"}
        OBVIOUS
      <3> QED BY <1>12, <1>13, <3>1, Zenon
    <2> QED BY <1>4, <1>6, <2>1, Zenon DEF Settling
  <1>15. x \in Entries => x.ns # ns
    <2>1. CASE r.op = "touch"
      BY <1>4, <2>1, Zenon
    <2>2. CASE r.op = "save" /\ Pending(r) /\ Len(r.todo) = 1
      <3>1. \A m \in r.ns : x.ns = m
        BY <1>2, <2>2, Zenon DEF Pending
      <3>2. \E m : r.ns = {m}
        <4>1. r # Idle /\ r.op \notin {"touch", "delete", "prune", "compact"}
          BY <2>2 DEF Idle
        <4> QED BY <1>6, <4>1, Zenon DEF CallOK
      <3> QED BY <1>13, <2>2, <3>1, <3>2, Zenon
    <2> QED BY <1>5, <1>8, <2>1, <2>2, Zenon
  <1>16. Evicted(ns) \subseteq Evicted(ns)' \cup x.ids
    <2>1. \A i : i \in Evicted(ns)' <=> \E d \in Calls : call'[d].op = "evict" /\ ns \in call'[d].ns /\ i \in IdsIn(call'[d].todo)
      BY Zenon DEF Evicted
    <2>2. ASSUME NEW i \in Evicted(ns) PROVE i \in Evicted(ns)' \/ i \in x.ids
      <3>1. PICK d \in Calls : call[d].op = "evict" /\ ns \in call[d].ns /\ i \in IdsIn(call[d].todo)
        BY <2>2, EvictedIs, Zenon
      <3>2. CASE d = c
        BY <1>6, <1>11, <3>1, <3>2, Zenon
      <3>3. CASE d # c
        BY <1>4, <2>1, <3>1, <3>3, Zenon
      <3> QED BY <3>2, <3>3, Zenon
    <2> QED BY <2>2, Zenon
  <1> QED BY <1>4, <1>14, <1>15, <1>16, LeftAppend, Zenon

\* What enforceNamespaceQuota leaves fits.
LEMMA VictimsFit ==
  ASSUME log \in Seq(Lines), NEW ns, NEW i, NEW V \in Victims(InNamespace(ns), i)
  PROVE  Fits(InNamespace(ns) \ V)
  <1> DEFINE E == InNamespace(ns)
             R == E \ V
  <1>1. IsFiniteSet(Loaded(log)) /\ E \subseteq Loaded(log) /\ R \in SUBSET Loaded(log)
    BY LoadedFinite, Zenon DEF InNamespace
  <1>2. IsFiniteSet(R)
    BY <1>1, FS_Subset, Zenon
  <1>3. ~ Over(R) \/ V = {e \in E : e.ids # {i}}
    BY Zenon DEF Victims
  <1> HIDE DEF E
  <1>4. CASE V = {e \in E : e.ids # {i}}
    <2>1. \A e \in R : e \in Loaded(log) /\ e.ids = {i}
      BY <1>1, <1>4, Zenon
    <2>2. \A e, f \in R : e = f
      <3> SUFFICES ASSUME NEW e \in R, NEW f \in R PROVE e = f
        BY Zenon
      <3>1. e \in Loaded(log) /\ f \in Loaded(log) /\ e.ids \cap f.ids # {}
        BY <2>1, Zenon
      <3> QED BY <3>1, LoadedApart, Zenon
    <2>3. R = {} \/ \E e : R = {e}
      BY <2>2, Zenon
    <2>4. Cardinality(R) = 0 \/ Cardinality(R) = 1
      BY <2>3, FS_EmptySet, FS_Singleton, Zenon
    <2>5. Cardinality(R) <= 1
      BY <2>4
    <2> QED BY <1>2, <2>5, Zenon DEF Fits, E
  <1>5. CASE ~ Over(R)
    BY <1>2, <1>5, Zenon DEF Fits, E
  <1> QED BY <1>3, <1>4, <1>5, Zenon DEF E

LEMMA QuotaReadsQuota == ASSUME QuotaOK, MemoryTypes, NEW c \in Calls, QuotaReads(c) PROVE QuotaOK'
  <1>1. PICK r : r = call[c]
    OBVIOUS
  <1>2. DOMAIN call = Calls /\ CallOK(r) /\ log \in Seq(Lines)
    BY <1>1, Zenon DEF MemoryTypes
  <1>3. /\ r.op = "save" /\ UNCHANGED log /\ loose' = loose \ r.ns
        /\ \E ns \in r.ns, s \in r.save : \E V :
              /\ V \in Victims(InNamespace(ns), s.id) /\ V \subseteq InNamespace(ns)
              /\ \/ V = {} /\ Done(c)
                 \/ call' = [call EXCEPT ![c] = [r EXCEPT !.op = "evict", !.todo = <<Markers(IdsOf(V))>>]]
    <2>1. /\ call[c].op = "save" /\ UNCHANGED log /\ loose' = loose \ call[c].ns
          /\ \E ns \in call[c].ns, s \in call[c].save : \E V :
                /\ V \in Victims(InNamespace(ns), s.id) /\ V \subseteq InNamespace(ns)
                /\ \/ V = {} /\ Done(c)
                   \/ /\ call' = [call EXCEPT ![c] = [call[c] EXCEPT !.op = "evict", !.todo = <<Markers(IdsOf(V))>>]]
                      /\ UNCHANGED saved
      BY QuotaCases, Zenon
    <2> QED BY <1>1, <2>1, Zenon
  <1>a. PICK n \in r.ns, s \in r.save : \E V :
              /\ V \in Victims(InNamespace(n), s.id) /\ V \subseteq InNamespace(n)
              /\ \/ V = {} /\ Done(c)
                 \/ call' = [call EXCEPT ![c] = [r EXCEPT !.op = "evict", !.todo = <<Markers(IdsOf(V))>>]]
    BY <1>3, Zenon
  <1>4. PICK V :
              /\ V \in Victims(InNamespace(n), s.id) /\ V \subseteq InNamespace(n)
              /\ \/ V = {} /\ Done(c)
                 \/ call' = [call EXCEPT ![c] = [r EXCEPT !.op = "evict", !.todo = <<Markers(IdsOf(V))>>]]
    BY <1>a, Zenon
  <1>5. r.ns = {n}
    <2>1. r # Idle /\ r.op \notin {"touch", "delete", "prune", "compact"}
      BY <1>3 DEF Idle
    <2> QED BY <1>2, <1>4, <2>1, Zenon DEF CallOK
  <1>6. V \in SUBSET Loaded(log)
    BY <1>4, Zenon DEF InNamespace
  <1>7. IdsOf(V) \in SUBSET Nat
    BY <1>2, <1>6, IdsOfLoaded, Zenon
  <1>8. /\ \A d \in Calls \ {c} : call'[d] = call[d]
        /\ \/ call'[c] = Idle /\ V = {}
           \/ call'[c].op = "evict" /\ call'[c].ns = {n} /\ IdsIn(call'[c].todo) = IdsOf(V)
    <2>1. CASE V = {} /\ Done(c)
      BY <1>2, <2>1, Zenon DEF Done
    <2>2. CASE call' = [call EXCEPT ![c] = [r EXCEPT !.op = "evict", !.todo = <<Markers(IdsOf(V))>>]]
      <3>1. PICK m : m = Markers(IdsOf(V))
        OBVIOUS
      <3>2. m \in Deletions /\ m.ids = IdsOf(V)
        BY <1>7, <3>1, MarkersOK, Zenon
      <3>3. PICK q : q = [r EXCEPT !.op = "evict", !.todo = <<m>>]
        OBVIOUS
      <3>4. q.op = "evict" /\ q.ns = r.ns /\ IdsIn(q.todo) = m.ids
        BY <1>2, <1>3, <3>2, <3>3, EvictOK, Zenon
      <3>5. call'[c] = q /\ \A d \in Calls \ {c} : call'[d] = call[d]
        BY <1>2, <2>2, <3>1, <3>3, Zenon
      <3> QED BY <1>5, <3>2, <3>4, <3>5, Zenon
    <2> QED BY <1>4, <2>1, <2>2, Zenon
  <1>9. \A m : InNamespace(m)' = InNamespace(m)
    BY <1>3, Zenon DEF InNamespace
  <1> SUFFICES ASSUME NEW ns \in Namespaces \ loose', Settling(ns)' PROVE Fits(Left(ns)')
    BY Zenon DEF QuotaOK, Fits, Over, Bytes
  <1>10. CASE ns = n
    <2>1. Left(n)' \in SUBSET (InNamespace(n) \ V)
      <3> SUFFICES ASSUME NEW e \in Left(n)' PROVE e \in InNamespace(n) /\ e \notin V
        BY Zenon
      <3>1. e \in InNamespace(n) /\ e.ids \cap Evicted(n)' = {}
        BY <1>9, Zenon DEF Left
      <3>2. ASSUME e \in V PROVE FALSE
        <4>1. call'[c].op = "evict" /\ call'[c].ns = {n} /\ IdsIn(call'[c].todo) = IdsOf(V)
          BY <1>8, <3>2, Zenon
        <4>2. IdsOf(V) \subseteq Evicted(n)'
          <5>1. IdsIn(call'[c].todo) \subseteq Evicted(n)'
            BY <4>1, Zenon DEF Evicted
          <5> QED BY <4>1, <5>1, Zenon
        <4>3. e.ids \subseteq IdsOf(V) /\ e.ids # {}
          <5>1. e.ids # {}
            BY <1>2, <1>6, <3>2, LoadedFields, Zenon
          <5> QED BY <3>2, <5>1, Zenon DEF IdsOf
        <4> QED BY <3>1, <4>2, <4>3, Zenon
      <3> QED BY <3>1, <3>2, Zenon
    <2>2. Fits(InNamespace(n) \ V)
      BY <1>2, <1>4, VictimsFit, Zenon
    <2> QED BY <1>10, <2>1, <2>2, FitsSubset, Zenon
  <1>11. CASE ns # n
    <2>1. ns \notin r.ns /\ ns \in Namespaces \ loose
      BY <1>3, <1>5, <1>11, Zenon
    <2>2. ns \notin call'[c].ns
      BY <1>8, <1>11, IdleOK, Zenon
    <2>3. Evicted(ns)' = Evicted(ns)
      BY <1>1, <1>8, <2>1, <2>2, EvictedSame, ZenonT(60)
    <2>4. Left(ns)' = Left(ns)
      BY <1>9, <2>3, Zenon DEF Left
    <2>5. Settling(ns)
      BY <1>1, <1>8, <2>1, Zenon DEF Settling
    <2>6. Fits(Left(ns))
      BY <2>1, <2>5, Zenon DEF QuotaOK
    <2> QED BY <2>4, <2>6, Zenon
  <1> QED BY <1>10, <1>11, Zenon

LEMMA RenameQuota == ASSUME QuotaOK, MemoryTypes, NEW c \in Calls, Rename(c) PROVE QuotaOK'
  <1>1. PICK r : r = call[c]
    OBVIOUS
  <1>2. /\ r.op = "compact" /\ log' = r.todo /\ loose' = IF r.base # Loaded(log) THEN Namespaces ELSE loose
        /\ call' = [call EXCEPT ![c] = Idle] /\ DOMAIN call = Calls /\ CallOK(r)
    BY <1>1, Zenon DEF Rename, Done, MemoryTypes
  <1>3. r.base = Loaded(r.todo) /\ r.ns = {}
    <2>1. "compact" \notin {"save", "evict"} /\ "compact" # "touch" /\ "compact" \notin {"delete", "prune"} /\ r # Idle
      BY <1>2 DEF Idle
    <2> QED BY <1>2, <2>1, Zenon DEF CallOK
  <1>4. CASE r.base # Loaded(log)
    BY <1>2, <1>4, Zenon DEF QuotaOK
  <1>5. CASE r.base = Loaded(log)
    <2>1. Loaded(log') = Loaded(log) /\ loose' = loose
      BY <1>2, <1>3, <1>5, Zenon
    <2>2. call'[c] = Idle /\ \A d \in Calls \ {c} : call'[d] = call[d]
      BY <1>2, Zenon
    <2>3. Idle.op # "evict" /\ r.op # "evict" /\ r.ns = {}
      BY <1>2, <1>3, IdleOK
    <2>4. \A ns : Evicted(ns)' = Evicted(ns)
      BY <1>1, <2>2, <2>3, EvictedSame, Zenon
    <2>5. \A ns : Left(ns)' = Left(ns)
      BY <2>1, <2>4, Zenon DEF Left, InNamespace
    <2>6. \A ns : Settling(ns)' => Settling(ns)
      BY <1>1, <2>2, <2>3, Zenon DEF Settling
    <2> QED BY <2>1, <2>5, <2>6, QuotaFrame, Zenon
  <1> QED BY <1>4, <1>5, Zenon

LEMMA EraseQuota == ASSUME QuotaOK, Erase PROVE QuotaOK'
  <1>1. log' = <<>> /\ UNCHANGED <<call, loose>>
    BY Zenon DEF Erase
  <1>2. DOMAIN log' = {}
    BY <1>1
  <1>3. Loaded(log') = {}
    BY <1>2, Zenon DEF Loaded, Live
  <1>4. \A ns : Left(ns)' \subseteq Left(ns)
    BY <1>3, Zenon DEF Left, InNamespace
  <1>5. \A ns : Settling(ns)' => Settling(ns)
    BY <1>1, Zenon DEF Settling
  <1> QED BY <1>1, <1>4, <1>5, QuotaFrame, Zenon

LEMMA CrashQuota == ASSUME QuotaOK, Crash PROVE QuotaOK'
  <1>1. call' = [c \in Calls |-> Idle] /\ UNCHANGED log /\ loose' = loose \cup UNION {call[c].ns : c \in Calls}
    BY Zenon DEF Crash
  <1>2. ASSUME NEW ns \in Namespaces \ loose' PROVE Settling(ns) /\ Left(ns)' \subseteq Left(ns)
    <2>1. \A c \in Calls : ns \notin call[c].ns
      BY <1>1, Zenon
    <2>2. Evicted(ns) = {}
      BY <2>1, EvictedIs, Zenon
    <2> QED BY <1>1, <2>1, <2>2, Zenon DEF Left, InNamespace, Settling
  <1> QED BY <1>1, <1>2, QuotaFrame, Zenon

LEMMA QuotaStarts == MemoryInit => QuotaOK
  <1> SUFFICES ASSUME MemoryInit PROVE QuotaOK
    OBVIOUS
  <1>1. log = <<>>
    BY Zenon DEF MemoryInit
  <1>2. DOMAIN log = {}
    BY <1>1
  <1>3. \A ns : InNamespace(ns) = {}
    BY <1>2, Zenon DEF InNamespace, Loaded, Live
  <1>4. \A ns : Left(ns) = {}
    BY <1>3, Zenon DEF Left
  <1>5. Cardinality({}) <= 1 /\ IsFiniteSet({})
    BY FS_EmptySet
  <1>6. Fits({})
    BY <1>5, Zenon DEF Fits
  <1> QED BY <1>4, <1>6, Zenon DEF QuotaOK

\* A call starts by reading the file.
LEMMA ReadSteps ==
  ASSUME NEW c \in Calls, NEW ns,
         Upsert(c, ns) \/ Replace(c, ns) \/ Prune(c, ns) \/ Delete(c) \/ Touch(c) \/ Compact(c)
  PROVE  \E op, todo, base, m, save : op # "evict" /\ Read(c, op, todo, base, m, save)
  <1>1. "save" # "evict" /\ "prune" # "evict" /\ "delete" # "evict" /\ "touch" # "evict" /\ "compact" # "evict"
    OBVIOUS
  <1> QED BY <1>1, Zenon DEF Upsert, Replace, Prune, Delete, Touch, Compact

LEMMA QuotaNext == ASSUME QuotaOK, MemoryTypes, [MemoryNext]_memoryVars PROVE QuotaOK'
  <1>1. CASE UNCHANGED memoryVars
    <2>1. UNCHANGED <<log, call, loose>>
      BY <1>1, Zenon DEF memoryVars
    <2>2. \A ns : Left(ns)' \subseteq Left(ns)
      BY <2>1, ZenonT(60) DEF Left, InNamespace, Evicted
    <2>3. \A ns : Settling(ns)' => Settling(ns)
      BY <2>1, Zenon DEF Settling
    <2> QED BY <2>1, <2>2, <2>3, QuotaFrame, Zenon
  <1>2. ASSUME NEW c \in Calls, NEW ns,
               Upsert(c, ns) \/ Replace(c, ns) \/ Prune(c, ns) \/ Delete(c) \/ Touch(c) \/ Compact(c)
        PROVE  QuotaOK'
    <2>1. PICK op, todo, base, m, save : op # "evict" /\ Read(c, op, todo, base, m, save)
      BY <1>2, ReadSteps, Zenon
    <2> QED BY <2>1, ReadQuota, Zenon
  <1>3. CASE MemoryNext
    BY <1>2, <1>3, AppendQuota, QuotaReadsQuota, RenameQuota, EraseQuota, CrashQuota, Zenon
       DEF MemoryNext, AutoSave, Feedback, Get
  <1> QED BY <1>1, <1>3, Zenon

\* A namespace in which no save is in progress is within its quota, but for a
\* single entry that is larger than it, for any number of concurrent calls.
THEOREM QuotaIsKept == MemorySpec => []QuotaHolds
  <1>1. ASSUME QuotaOK PROVE QuotaHolds
    <2> SUFFICES ASSUME NEW ns \in Namespaces \ loose, \A c \in Calls : ns \notin call[c].ns
                 PROVE  ~ Over(InNamespace(ns)) \/ Cardinality(InNamespace(ns)) = 1
      BY Zenon DEF QuotaHolds
    <2> DEFINE E == InNamespace(ns)
    <2>1. Evicted(ns) = {}
      BY EvictedIs, Zenon
    <2>2. Settling(ns) /\ Left(ns) = E
      BY <2>1, Zenon DEF Left, Settling
    <2>3. Fits(E)
      BY <1>1, <2>2, Zenon DEF QuotaOK
    <2> HIDE DEF E
    <2>4. IsFiniteSet(E) /\ (~ Over(E) \/ Cardinality(E) <= 1)
      BY <2>3, Zenon DEF Fits
    <2>5. Cardinality(E) \in Nat /\ (Cardinality(E) = 0 => E = {})
      BY <2>4, FS_CardinalityType, FS_EmptySet, Zenon
    <2>6. ~ Over({})
      <3>1. {p \in {} \X (1 .. MaxStarted) : p[2] \in p[1].content} = {}
        OBVIOUS
      <3>2. Bytes({}) = 0 /\ Cardinality({}) = 0
        BY <3>1, FS_EmptySet, Zenon DEF Bytes
      <3> QED BY <3>2, MemoryAssumption DEF Over
    <2>7. Cardinality(E) <= 1 => Cardinality(E) = 0 \/ Cardinality(E) = 1
      BY <2>5
    <2> QED BY <2>4, <2>5, <2>6, <2>7, Zenon DEF E
  <1>2. StoreInv => MemoryTypes
    BY Zenon DEF StoreInv
  <1> QED BY <1>1, <1>2, StoreStarts, StoreNext, QuotaStarts, QuotaNext, PTL DEF MemorySpec
==============================================================================
