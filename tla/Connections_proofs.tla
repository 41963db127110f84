------------------------- MODULE Connections_proofs -------------------------
(***************************************************************************)
(* Proofs about Connections, for any pool of control blocks.  The list has *)
(* an order in which every connection is found once, whichever come, go    *)
(* and are moved to the front; a block in the pool leads to the list or to *)
(* one that was freed after it.  So the task that walks the list without a *)
(* lock comes to the end from wherever it is.                              *)
(***************************************************************************)
EXTENDS Connections, Integers, SequenceTheorems, FiniteSetTheorems, TLAPS

-----------------------------------------------------------------------------
(* Induction over numbers, and what folding over a sequence yields *)

LEMMA Greatest ==
  ASSUME NEW n \in Nat, NEW S \in SUBSET (0 .. n), S # {}
  PROVE  Max(S) \in S /\ \A y \in S : y <= Max(S)
<1> DEFINE Above(x) == {y \in S : x < y}
           T == {Above(x) : x \in S}
<1>1. IsFiniteSet(S)
  <2>1. IsFiniteSet(0 .. n)
    BY FS_Interval
  <2> QED
    BY <2>1, FS_Subset
<1>2. T \subseteq FiniteSubsetsOf(S) /\ T # {}
  <2>1. FiniteSubsetsOf(S) = SUBSET S
    BY <1>1, FS_FiniteSubsetsOfFinite
  <2>2. \A u \in T : u \in SUBSET S
    OBVIOUS
  <2>3. PICK x \in S : TRUE
    OBVIOUS
  <2>4. Above(x) \in T
    OBVIOUS
  <2> HIDE DEF T
  <2> QED
    BY <2>1, <2>2, <2>4
<1>3. PICK t \in T : \A u \in T : ~(<<u, t>> \in StrictSubsetOrdering(S))
  <2> HIDE DEF T
  <2> QED
    BY <1>1, <1>2, FS_StrictSubsetOrderingWellFounded, WFMin
<1>4. PICK x \in S : t = Above(x)
  OBVIOUS
<1>5. ASSUME NEW y \in S, ~(y <= x) PROVE FALSE
  <2>1. x < y /\ x \in Nat /\ y \in Nat
    BY <1>5
  <2>2. Above(y) \in T
    OBVIOUS
  <2>3. \A z \in S : z \in Nat
    OBVIOUS
  <2>4. \A z \in Above(y) : z \in S /\ x < z
    BY <2>1, <2>3
  <2>5. y \in Above(x) /\ y \notin Above(y)
    BY <2>1
  <2>6. <<Above(y), t>> \in StrictSubsetOrdering(S)
    BY <1>4, <2>4, <2>5 DEF StrictSubsetOrdering
  <2> QED
    BY <1>3, <2>2, <2>6
<1>6. x \in S /\ \A y \in S : x >= y
  BY <1>5
<1>7. Max(S) \in S /\ \A y \in S : Max(S) >= y
  BY <1>6, Zenon DEF Max
<1> QED
  BY <1>7

LEMMA Steps ==
  ASSUME NEW n \in Nat, NEW T \in SUBSET (0 .. n), 0 \in T,
         \A i \in T : i < n => i + 1 \in T
  PROVE  \A i \in 0 .. n : i \in T
<1> DEFINE S == {k \in 0 .. n : 0 .. k \subseteq T}
<1>1. S \in SUBSET (0 .. n) /\ 0 \in S
  OBVIOUS
<1>2. PICK m \in S : \A k \in S : k <= m
  <2> HIDE DEF S
  <2> QED
    BY <1>1, Greatest
<1>3. ASSUME m < n PROVE FALSE
  <2>1. m + 1 \in T /\ m + 1 \in 0 .. n
    BY <1>3
  <2>2. 0 .. m + 1 \subseteq T
    <3>1. ASSUME NEW k \in 0 .. m + 1 PROVE k \in T
      <4>1. k = m + 1 \/ k \in 0 .. m
        OBVIOUS
      <4> QED
        BY <2>1, <4>1
    <3> QED
      BY <3>1
  <2> QED
    BY <1>2, <2>1, <2>2
<1> QED
  BY <1>3

LEMMA TopOf ==
  ASSUME NEW m \in Nat, NEW s \in SUBSET (1 .. m + 1), m + 1 \in s
  PROVE  Max(s) = m + 1 /\ s \ {m + 1} \in SUBSET (1 .. m)
<1>1. m + 1 \in Nat /\ s \in SUBSET (0 .. m + 1) /\ s # {}
  OBVIOUS
<1>2. Max(s) \in s /\ \A y \in s : y <= Max(s)
  BY <1>1, Greatest, Zenon
<1>3. PICK x : x = Max(s)
  OBVIOUS
<1>4. x \in s /\ \A y \in s : y <= x
  BY <1>2, <1>3, Zenon
<1>5. x = m + 1 /\ s \ {m + 1} \in SUBSET (1 .. m)
  BY <1>4
<1> QED
  BY <1>3, <1>5, Zenon

\* The function that a fold from the left defines, over sets of places.
Folds(h, n, b, g) ==
  \A s \in SUBSET (1 .. n) :
    h[s] = IF s = {} THEN b ELSE g[<<h[s \ {Max(s)}], Max(s)>>]

LEMMA FoldExists ==
  ASSUME NEW n \in Nat, NEW V, NEW b \in V, NEW g \in [V \X (1 .. n) -> V]
  PROVE  \E h \in [SUBSET (1 .. n) -> V] : Folds(h, n, b, g)
<1> DEFINE T == {m \in 0 .. n : \E h \in [SUBSET (1 .. m) -> V] : Folds(h, m, b, g)}
<1>1. 0 \in T
  <2> DEFINE h == [s \in SUBSET (1 .. 0) |-> b]
  <2>1. \A s \in SUBSET (1 .. 0) : s = {}
    OBVIOUS
  <2>2. h \in [SUBSET (1 .. 0) -> V] /\ Folds(h, 0, b, g)
    BY <2>1, Zenon DEF Folds
  <2>3. \E f \in [SUBSET (1 .. 0) -> V] : Folds(f, 0, b, g)
    BY <2>2, Zenon
  <2>4. 0 \in 0 .. n
    OBVIOUS
  <2> QED
    BY <2>3, <2>4, Zenon
<1>2. ASSUME NEW m \in T, m < n PROVE m + 1 \in T
  <2>1. PICK h \in [SUBSET (1 .. m) -> V] : Folds(h, m, b, g)
    OBVIOUS
  <2> DEFINE k == m + 1
             f == [s \in SUBSET (1 .. k) |-> IF k \in s THEN g[<<h[s \ {k}], k>>] ELSE h[s]]
  <2>2. k \in 1 .. n /\ m \in Nat /\ k = m + 1
    BY <1>2
  <2>3. \A s \in SUBSET (1 .. k) : k \in s => Max(s) = k /\ s \ {k} \in SUBSET (1 .. m)
    BY <2>2, TopOf
  <2>4. \A s \in SUBSET (1 .. k) : k \notin s => s \in SUBSET (1 .. m)
    BY <2>2
  <2> HIDE DEF k
  <2>5. \A s \in SUBSET (1 .. k) : f[s] \in V
    BY <2>2, <2>3, <2>4
  <2>6. \A s \in SUBSET (1 .. m) : s \in SUBSET (1 .. k) /\ k \notin s /\ f[s] = h[s]
    BY <2>2
  <2>7. ASSUME NEW s \in SUBSET (1 .. k)
        PROVE  f[s] = IF s = {} THEN b ELSE g[<<f[s \ {Max(s)}], Max(s)>>]
    <3>1. CASE k \in s
      BY <2>3, <2>6, <3>1
    <3>2. CASE k \notin s
      <4>1. s \in SUBSET (1 .. m) /\ s \ {Max(s)} \in SUBSET (1 .. m)
        BY <2>4, <3>2
      <4>2. h[s] = IF s = {} THEN b ELSE g[<<h[s \ {Max(s)}], Max(s)>>]
        BY <2>1, <4>1, Zenon DEF Folds
      <4> QED
        BY <2>6, <4>1, <4>2
    <3> QED
      BY <3>1, <3>2
  <2>8. f \in [SUBSET (1 .. k) -> V] /\ Folds(f, k, b, g)
    <3> HIDE DEF f
    <3>1. f \in [SUBSET (1 .. k) -> V]
      BY <2>5, Zenon DEF f
    <3> QED
      BY <3>1, <2>7, Zenon DEF Folds
  <2> HIDE DEF f
  <2>9. k \in T
    BY <2>2, <2>8
  <2> QED
    BY <2>9 DEF k
<1>3. n \in T
  <2>1. T \in SUBSET (0 .. n)
    OBVIOUS
  <2> HIDE DEF T
  <2> QED
    BY <1>1, <1>2, <2>1, Steps
<1> QED
  BY <1>3

LEMMA TopPlace ==
  ASSUME NEW n \in Nat, NEW s \in SUBSET (1 .. n), s # {}
  PROVE  Max(s) \in 1 .. n
<1>1. s \in SUBSET (0 .. n)
  OBVIOUS
<1>2. Max(s) \in s
  BY <1>1, Greatest, Zenon
<1> QED
  BY <1>2

LEMMA FirstPlaces ==
  ASSUME NEW n \in Nat, NEW k \in 1 .. n
  PROVE  /\ 1 .. k \in SUBSET (1 .. n) /\ 1 .. k # {}
         /\ Max(1 .. k) = k /\ (1 .. k) \ {k} = 1 .. k - 1
<1>1. k - 1 \in Nat /\ (k - 1) + 1 = k
  OBVIOUS
<1>2. 1 .. k \in SUBSET (1 .. (k - 1) + 1) /\ (k - 1) + 1 \in 1 .. k
  BY <1>1
<1> HIDE DEF Max
<1>3. Max(1 .. k) = (k - 1) + 1
  BY <1>1, <1>2, TopOf, Zenon
<1> QED
  BY <1>1, <1>3
-----------------------------------------------------------------------------
\* The head of an injective sequence does not come again in its tail.
LEMMA TailForgetsHead ==
  ASSUME NEW S, NEW s \in Seq(S), s # <<>>,
         \A i, j \in 1 .. Len(s) : s[i] = s[j] => i = j
  PROVE  /\ Head(s) = s[1] /\ Head(s) \in S
         /\ Tail(s) \in Seq(S) /\ Len(Tail(s)) = Len(s) - 1
         /\ \A i \in 1 .. Len(Tail(s)) : Tail(s)[i] = s[i + 1] /\ Tail(s)[i] # Head(s)
         /\ \A i, j \in 1 .. Len(Tail(s)) : Tail(s)[i] = Tail(s)[j] => i = j
  <1>1. /\ Head(s) = s[1] /\ Head(s) \in S /\ Len(s) \in Nat /\ Len(s) > 0
        /\ Tail(s) \in Seq(S) /\ Len(Tail(s)) = Len(s) - 1
    OBVIOUS
  <1>2. \A i \in 1 .. Len(Tail(s)) : Tail(s)[i] = s[i + 1]
    OBVIOUS
  <1>3. \A i \in 1 .. Len(Tail(s)) : i + 1 \in 1 .. Len(s) /\ i + 1 # 1
    BY <1>1
  <1>4. \A i \in 1 .. Len(Tail(s)) : Tail(s)[i] # Head(s)
    BY <1>1, <1>2, <1>3
  <1>5. \A i, j \in 1 .. Len(Tail(s)) : Tail(s)[i] = Tail(s)[j] => i = j
    BY <1>1, <1>2, <1>3
  <1> QED BY <1>1, <1>2, <1>4, <1>5

\* An element put in front of a sequence.
LEMMA PushFront ==
  ASSUME NEW S, NEW s \in Seq(S), NEW e \in S
  PROVE  /\ <<e>> \o s \in Seq(S) /\ Len(<<e>> \o s) = Len(s) + 1
         /\ (<<e>> \o s)[1] = e
         /\ \A i \in 2 .. Len(s) + 1 : (<<e>> \o s)[i] = s[i - 1]
  OBVIOUS

-----------------------------------------------------------------------------
(* Sequences of blocks, and the links along them *)

LEMMA AtFacts ==
  ASSUME NEW s \in Seq(Pcbs), NEW i \in Nat
  PROVE  /\ Len(s) \in Nat
         /\ At(s, i) \in Pcbs \cup {Null}
         /\ i \in 1 .. Len(s) => At(s, i) = s[i] /\ s[i] \in Pcbs /\ s[i] # Null
         /\ i \notin 1 .. Len(s) => At(s, i) = Null
         /\ At(s, i) = Null <=> i \notin 1 .. Len(s)
<1>1. Len(s) \in Nat /\ \A j \in 1 .. Len(s) : s[j] \in Pcbs
  OBVIOUS
<1> QED
  BY <1>1, PoolAssumption DEF At

Once(s) == \A i, j \in 1 .. Len(s) : s[i] = s[j] => i = j

\* A sequence that holds each block once is no longer than the pool.
LEMMA OnceFits ==
  ASSUME NEW s \in Seq(Pcbs), Once(s)
  PROVE  Cardinality(Pcbs) \in Nat /\ Len(s) <= Cardinality(Pcbs)
<1> DEFINE n == Len(s)
<1>1. n \in Nat /\ s \in [1 .. n -> Pcbs]
  BY LenProperties
<1>2. \A i, j \in 1 .. n : s[i] = s[j] => i = j
  BY DEF Once
<1> HIDE DEF n
<1>3. s \in Injection(1 .. n, Pcbs)
  BY <1>1, <1>2 DEF Injection, IsInjective
<1>4. IsFiniteSet(Pcbs) /\ Cardinality(Pcbs) \in Nat
  BY PoolAssumption, FS_CardinalityType
<1>5. Cardinality(1 .. n) <= Cardinality(Pcbs)
  BY <1>3, <1>4, FS_Injection
<1>6. Cardinality(1 .. n) = n
  <2>1. 1 \in Int /\ n \in Int
    BY <1>1
  <2>2. Cardinality(1 .. n) = IF 1 > n THEN 0 ELSE n - 1 + 1
    BY <2>1, FS_Interval
  <2> QED
    BY <1>1, <2>2
<1> QED
  BY <1>4, <1>5, <1>6 DEF n

\* Following links that lead along w yields the blocks of w.
LEMMA FollowPath ==
  ASSUME NEW l \in Lists, NEW w \in Seq(Pcbs), NEW p, p = At(w, 1),
         \A i \in 1 .. Len(w) : l.next[w[i]] = At(w, i + 1)
  PROVE  \A n \in Nat : Follow(l, p)[n] = At(w, n + 1)
<1> DEFINE Rec(h) == h = [n \in Nat |-> IF n = 0 THEN p
                                        ELSE IF h[n - 1] = Null THEN Null
                                        ELSE l.next[h[n - 1]]]
           at == CHOOSE h : Rec(h)
           g == [n \in Nat |-> At(w, n + 1)]
<1>1. Follow(l, p) = at
  BY Zenon DEF Follow
<1>2. p = At(w, 1) /\ \A i \in 1 .. Len(w) : l.next[w[i]] = At(w, i + 1)
  OBVIOUS
<1>3. ASSUME NEW n \in Nat, n # 0
      PROVE  At(w, n + 1) = IF At(w, n) = Null THEN Null ELSE l.next[At(w, n)]
  <2>1. CASE n \in 1 .. Len(w)
    BY <1>2, <2>1, AtFacts
  <2>2. CASE n \notin 1 .. Len(w)
    <3>1. n + 1 \notin 1 .. Len(w) /\ n + 1 \in Nat
      BY <1>3, <2>2, AtFacts
    <3> QED
      BY <2>2, <3>1, AtFacts
  <2> QED
    BY <2>1, <2>2
<1>4. ASSUME NEW n \in Nat
      PROVE  g[n] = IF n = 0 THEN p
                    ELSE IF g[n - 1] = Null THEN Null ELSE l.next[g[n - 1]]
  <2>1. CASE n = 0
    BY <1>2, <2>1
  <2>2. CASE n # 0
    <3>1. n - 1 \in Nat /\ (n - 1) + 1 = n
      BY <2>2
    <3>2. g[n] = At(w, n + 1) /\ g[n - 1] = At(w, n)
      BY <3>1
    <3> HIDE DEF g
    <3> QED
      BY <1>3, <2>2, <3>2
  <2> QED
    BY <2>1, <2>2
<1>5. Rec(at)
  <2>1. Rec(g)
    <3> HIDE DEF g
    <3>1. g = [n \in Nat |-> g[n]]
      BY DEF g
    <3> QED
      BY <1>4, <3>1
  <2> HIDE DEF Rec, g
  <2> QED
    BY <2>1
<1> HIDE DEF at
<1> SUFFICES ASSUME NEW n \in Nat PROVE at[n] = At(w, n + 1)
  BY <1>1
<1> DEFINE T == {k \in 0 .. n : at[k] = At(w, k + 1)}
<1>6. T \in SUBSET (0 .. n) /\ 0 \in T
  <2>1. 0 \in Nat /\ at[0] = p
    BY <1>5
  <2> QED
    BY <1>2, <2>1
<1>7. ASSUME NEW k \in T, k < n PROVE k + 1 \in T
  <2>1. k + 1 \in Nat /\ k + 1 # 0 /\ (k + 1) - 1 = k /\ k + 1 \in 0 .. n
    BY <1>7
  <2>2. at[k + 1] = IF at[(k + 1) - 1] = Null THEN Null ELSE l.next[at[(k + 1) - 1]]
    BY <1>5, <2>1
  <2>3. at[k + 1] = At(w, (k + 1) + 1)
    BY <1>3, <2>1, <2>2
  <2> QED
    BY <2>1, <2>3
<1>8. n \in T
  <2> HIDE DEF T
  <2>1. \A k \in 0 .. n : k \in T
    BY <1>6, <1>7, Steps
  <2> QED
    BY <2>1
<1> QED
  BY <1>8
-----------------------------------------------------------------------------
(* The order of the list *)

\* The scan along a chain meets its blocks in their order, and ends.
LEMMA OrderOfChain ==
  ASSUME NEW l \in Lists, NEW s \in Seq(Pcbs), Chain(l, s)
  PROVE  InOrder(l) = s /\ Nth(l)[Cardinality(Pcbs)] = Null
<1> DEFINE N == Cardinality(Pcbs)
           places == {n \in 0 .. N - 1 : Nth(l)[n] # Null}
           m == Len(s)
<1>1. N \in Nat /\ m \in Nat /\ m <= N
  BY OnceFits, AtFacts DEF Chain, Once
<1>2. \A n \in Nat : Nth(l)[n] = At(s, n + 1)
  <2>1. l.head = At(s, 1) /\ \A i \in 1 .. Len(s) : l.next[s[i]] = At(s, i + 1)
    BY DEF Chain
  <2> QED
    BY <2>1, FollowPath DEF Nth
<1>3. ASSUME NEW n \in 0 .. N PROVE Nth(l)[n] # Null <=> n < m
  <2>1. n + 1 \in Nat /\ (n + 1 \in 1 .. m <=> n < m) /\ n \in Nat
    BY <1>1
  <2> QED
    BY <1>2, <2>1, AtFacts
<1> HIDE DEF m, N
<1>4. places = 0 .. m - 1
  BY <1>1, <1>3
<1>5. Cardinality(places) = m
  <2>1. 0 \in Int /\ m - 1 \in Int
    BY <1>1
  <2>2. Cardinality(0 .. m - 1) = IF 0 > m - 1 THEN 0 ELSE (m - 1) - 0 + 1
    BY <2>1, FS_Interval
  <2> HIDE DEF places
  <2> QED
    BY <1>1, <1>4, <2>2
<1>6. InOrder(l) = [n \in 1 .. m |-> Nth(l)[n - 1]]
  <2>1. InOrder(l) = [n \in 1 .. Cardinality(places) |-> Nth(l)[n - 1]]
    BY Zenon DEF InOrder, N
  <2> HIDE DEF places
  <2> QED
    BY <1>5, <2>1
<1>7. \A n \in 1 .. m : Nth(l)[n - 1] = s[n]
  <2>1. ASSUME NEW n \in 1 .. m PROVE Nth(l)[n - 1] = s[n]
    <3>1. n - 1 \in Nat /\ (n - 1) + 1 = n /\ n \in Nat
      BY <1>1
    <3>2. Nth(l)[n - 1] = At(s, n)
      BY <1>2, <3>1
    <3> QED
      BY <3>1, <3>2, AtFacts DEF m
  <2> QED
    BY <2>1
<1>8. s = [n \in 1 .. m |-> s[n]]
  BY DEF m
<1>9. Nth(l)[N] = Null
  BY <1>1, <1>3
<1> QED
  BY <1>6, <1>7, <1>8, <1>9 DEF N

\* TCP_REG puts the block in front.
LEMMA RegChain ==
  ASSUME NEW l \in Lists, NEW s \in Seq(Pcbs), Chain(l, s),
         NEW p \in Pcbs, \A i \in 1 .. Len(s) : s[i] # p
  PROVE  /\ Chain(Reg(l, p), <<p>> \o s)
         /\ \A q \in Pcbs \ {p} : Reg(l, p).next[q] = l.next[q]
<1> DEFINE m == Reg(l, p)
           t == <<p>> \o s
           n == Len(s)
<1>1. /\ n \in Nat /\ Len(t) = n + 1 /\ t[1] = p /\ t \in Seq(Pcbs)
      /\ \A i \in 2 .. n + 1 : t[i] = s[i - 1]
  BY PushFront
<1>2. m.head = p /\ m.next[p] = l.head /\ \A q \in Pcbs \ {p} : m.next[q] = l.next[q]
  BY DEF Reg, Lists
<1>3. /\ \A i, j \in 1 .. n : s[i] = s[j] => i = j
      /\ l.head = At(s, 1) /\ \A i \in 1 .. n : l.next[s[i]] = At(s, i + 1)
  BY DEF Chain
<1> HIDE DEF m, t, n
<1>4. ASSUME NEW i \in 1 .. n + 1
      PROVE  i = 1 \/ (i - 1 \in 1 .. n /\ i \in 2 .. n + 1 /\ t[i] = s[i - 1] /\ t[i] # p)
  BY <1>1 DEF n
<1>5. \A i, j \in 1 .. n + 1 : t[i] = t[j] => i = j
  <2>1. ASSUME NEW i \in 1 .. n + 1, NEW j \in 1 .. n + 1, t[i] = t[j] PROVE i = j
    <3>1. i = 1 <=> j = 1
      BY <1>1, <1>4, <2>1
    <3>2. i # 1 /\ j # 1 => i - 1 = j - 1
      BY <1>3, <1>4, <2>1
    <3> QED
      BY <1>1, <3>1, <3>2
  <2> QED
    BY <2>1
<1>6. \A i \in 1 .. n + 1 : At(t, i + 1) = At(s, i)
  <2>1. ASSUME NEW i \in 1 .. n + 1 PROVE At(t, i + 1) = At(s, i)
    <3>1. i + 1 \in 1 .. n + 1 <=> i \in 1 .. n
      BY <1>1
    <3>2. i \in 1 .. n => t[i + 1] = s[i]
      BY <1>1
    <3> QED
      BY <1>1, <3>1, <3>2 DEF At, n
  <2> QED
    BY <2>1
<1>7. m.head = At(t, 1)
  BY <1>1, <1>2 DEF At
<1>8. ASSUME NEW i \in 1 .. n + 1 PROVE m.next[t[i]] = At(t, i + 1)
  <2>1. CASE i = 1
    BY <1>1, <1>2, <1>3, <1>6, <2>1
  <2>2. CASE i # 1
    <3>1. /\ i - 1 \in 1 .. n /\ i \in 2 .. n + 1 /\ t[i] = s[i - 1] /\ t[i] # p
          /\ (i - 1) + 1 = i
      BY <1>4, <2>2
    <3>2. t[i] \in Pcbs
      BY <1>1
    <3>3. m.next[t[i]] = l.next[s[i - 1]]
      BY <1>2, <3>1, <3>2
    <3>4. l.next[s[i - 1]] = At(s, i)
      BY <1>3, <3>1
    <3> QED
      BY <1>6, <3>3, <3>4
  <2> QED
    BY <2>1, <2>2
<1>10. Chain(m, t)
  BY <1>1, <1>5, <1>7, <1>8 DEF Chain
<1> QED
  BY <1>2, <1>10 DEF m, t
\* A sequence without its k-th element.
Without(s, k) == [i \in 1 .. Len(s) - 1 |-> IF i < k THEN s[i] ELSE s[i + 1]]

Shortened(t, s, k) ==
  /\ t \in Seq(Pcbs) /\ Len(t) = Len(s) - 1 /\ Len(s) \in Nat /\ Len(s) > 0
  /\ \A i \in 1 .. Len(s) - 1 : t[i] = IF i < k THEN s[i] ELSE s[i + 1]

LEMMA WithoutFacts ==
  ASSUME NEW s \in Seq(Pcbs), NEW k \in 1 .. Len(s), NEW t, t = Without(s, k)
  PROVE  Shortened(t, s, k)
<1> DEFINE n == Len(s) - 1
<1>1. n \in Nat /\ Len(s) = n + 1 /\ \A i \in 1 .. n + 1 : s[i] \in Pcbs
  OBVIOUS
<1> HIDE DEF n
<1>2. t = [i \in 1 .. n |-> IF i < k THEN s[i] ELSE s[i + 1]]
  BY DEF Without, n
<1>3. t \in [1 .. n -> Pcbs]
  BY <1>1, <1>2
<1>4. t \in Seq(Pcbs) /\ Len(t) = n
  BY <1>1, <1>3
<1> QED
  BY <1>1, <1>2, <1>4 DEF n, Shortened

\* Taking out a block leaves the others in their order, and the block's own
\* link, like those of the blocks that are not on the list.
LEMMA UnlinkChain ==
  ASSUME NEW l \in Lists, NEW s \in Seq(Pcbs), Chain(l, s), NEW k \in 1 .. Len(s)
  PROVE  /\ Chain(Unlink(l, s[k]), Without(s, k))
         /\ Unlink(l, s[k]).next[s[k]] = At(s, k + 1)
         /\ \A q \in Pcbs : (\A i \in 1 .. Len(s) : s[i] # q)
                            => Unlink(l, s[k]).next[q] = l.next[q]
<1> DEFINE p == s[k]
           m == Unlink(l, p)
           t == Without(s, k)
           n == Len(s)
<1>1. /\ n \in Nat /\ n > 0 /\ Len(t) = n - 1 /\ t \in Seq(Pcbs)
      /\ \A i \in 1 .. n - 1 : t[i] = IF i < k THEN s[i] ELSE s[i + 1]
      /\ \A i \in 1 .. n : s[i] \in Pcbs /\ s[i] # Null
  <2>1. Shortened(t, s, k)
    BY WithoutFacts, Zenon
  <2> HIDE DEF t
  <2>2. \A i \in 1 .. n : s[i] \in Pcbs /\ s[i] # Null
    BY PoolAssumption
  <2> QED
    BY <2>1, <2>2 DEF Shortened
<1>2. /\ m.head = IF l.head = p THEN l.next[p] ELSE l.head
      /\ \A q \in Pcbs : m.next[q] = IF (\E i \in 1 .. n : s[i] = q) /\ l.next[q] = p
                                       THEN l.next[p] ELSE l.next[q]
  <2>1. InOrder(l) = s
    BY OrderOfChain
  <2>2. \A q : q \in ToSet(s) <=> \E i \in 1 .. n : s[i] = q
    BY DEF ToSet
  <2>3. /\ m.head = IF l.head = p THEN l.next[p] ELSE l.head
        /\ m.next = [q \in Pcbs |-> IF q \in ToSet(s) /\ l.next[q] = p THEN l.next[p]
                                                                      ELSE l.next[q]]
    BY <2>1 DEF Unlink
  <2> HIDE DEF m, p, n
  <2> QED
    BY <2>2, <2>3
<1>3. /\ \A i, j \in 1 .. n : s[i] = s[j] => i = j
      /\ l.head = At(s, 1) /\ \A i \in 1 .. n : l.next[s[i]] = At(s, i + 1)
  BY DEF Chain
<1>4. /\ \A i \in 1 .. n : At(s, i) = s[i]
      /\ \A i \in 1 .. n - 1 : At(t, i) = t[i]
      /\ At(s, n + 1) = Null /\ At(t, n) = Null
  BY <1>1 DEF At
<1>5. k \in 1 .. n /\ p \in Pcbs /\ p # Null /\ p = s[k]
  BY <1>1
<1> HIDE DEF p, m, t, n
<1>6. \A i \in 1 .. n : At(t, i) = IF i < k THEN s[i] ELSE At(s, i + 1)
  <2>1. ASSUME NEW i \in 1 .. n PROVE At(t, i) = IF i < k THEN s[i] ELSE At(s, i + 1)
    <3>1. CASE i = n
      <4>1. ~(i < k)
        BY <1>1, <1>5, <3>1
      <4> QED
        BY <1>4, <3>1, <4>1
    <3>2. CASE i # n
      <4>1. i \in 1 .. n - 1 /\ i + 1 \in 1 .. n
        BY <1>1, <3>2
      <4> QED
        BY <1>1, <1>4, <4>1
    <3> QED
      BY <3>1, <3>2
  <2> QED
    BY <2>1
<1>7. \A i \in 1 .. n : At(s, i + 1) = p <=> i + 1 = k
  <2>1. ASSUME NEW i \in 1 .. n PROVE At(s, i + 1) = p <=> i + 1 = k
    <3>1. CASE i = n
      BY <1>1, <1>4, <1>5, <3>1
    <3>2. CASE i # n
      <4>1. i + 1 \in 1 .. n
        BY <1>1, <3>2
      <4> QED
        BY <1>3, <1>4, <1>5, <4>1
    <3> QED
      BY <3>1, <3>2
  <2> QED
    BY <2>1
<1>8. l.head = s[1] /\ (l.head = p <=> k = 1) /\ 1 \in 1 .. n
  BY <1>1, <1>3, <1>4, <1>5
<1>9. m.head = At(t, 1)
  <2>1. CASE k = 1
    BY <1>2, <1>3, <1>5, <1>6, <1>8, <2>1
  <2>2. CASE k # 1
    <3>1. 1 < k
      BY <1>1, <1>5, <2>2
    <3> QED
      BY <1>2, <1>6, <1>8, <2>2, <3>1
  <2> QED
    BY <2>1, <2>2
<1>10. \A i, j \in 1 .. n - 1 : t[i] = t[j] => i = j
  <2>1. ASSUME NEW i \in 1 .. n - 1, NEW j \in 1 .. n - 1, t[i] = t[j] PROVE i = j
    <3> DEFINE a == IF i < k THEN i ELSE i + 1
               b == IF j < k THEN j ELSE j + 1
    <3>1. a \in 1 .. n /\ b \in 1 .. n /\ (a = b => i = j)
      BY <1>1, <1>5
    <3>2. t[i] = s[a] /\ t[j] = s[b]
      BY <1>1
    <3> HIDE DEF a, b
    <3>3. a = b
      BY <1>3, <2>1, <3>1, <3>2
    <3> QED
      BY <3>1, <3>3
  <2> QED
    BY <2>1
<1>11. ASSUME NEW i \in 1 .. n - 1 PROVE m.next[t[i]] = At(t, i + 1)
  <2>0. i + 1 \in 1 .. n /\ i \in 1 .. n /\ (i + 1) + 1 = i + 2
    BY <1>1
  <2>1. CASE i < k
    <3>1. t[i] = s[i] /\ s[i] \in Pcbs /\ l.next[s[i]] = At(s, i + 1) /\ s[i] # p
      BY <1>1, <1>3, <1>5, <2>0, <2>1
    <3>2. CASE i + 1 = k
      <4>1. l.next[s[i]] = p
        BY <1>1, <1>7, <1>8, <2>0, <3>1, <3>2
      <4>2. m.next[t[i]] = l.next[p]
        BY <1>2, <2>0, <3>1, <4>1
      <4>3. l.next[p] = At(s, k + 1)
        BY <1>3, <1>5
      <4>4. At(t, i + 1) = At(s, k + 1)
        BY <1>6, <2>0, <3>2
      <4> QED
        BY <4>2, <4>3, <4>4
    <3>3. CASE i + 1 # k
      <4>1. l.next[s[i]] # p /\ i + 1 < k
        BY <1>1, <1>5, <1>7, <2>0, <2>1, <3>1, <3>3
      <4>2. m.next[t[i]] = At(s, i + 1)
        BY <1>2, <3>1, <4>1
      <4> QED
        BY <1>4, <1>6, <2>0, <4>1, <4>2
    <3> QED
      BY <3>2, <3>3
  <2>2. CASE ~(i < k)
    <3>1. t[i] = s[i + 1] /\ s[i + 1] \in Pcbs /\ l.next[s[i + 1]] = At(s, (i + 1) + 1)
      BY <1>1, <1>3, <2>0, <2>2
    <3>2. s[i + 1] # p
      BY <1>3, <1>5, <2>0, <2>2
    <3>3. (i + 1) + 1 # k /\ ~(i + 1 < k)
      BY <1>1, <1>5, <2>2
    <3>4. At(s, (i + 1) + 1) # p
      BY <1>7, <2>0, <3>3
    <3>5. m.next[t[i]] = At(s, (i + 1) + 1)
      BY <1>2, <3>1, <3>2, <3>4
    <3> QED
      BY <1>6, <2>0, <3>3, <3>5
  <2> QED
    BY <2>1, <2>2
<1>12. m.next[p] = At(s, k + 1)
  <2>1. l.next[p] = At(s, k + 1) /\ l.next[p] # p
    BY <1>3, <1>5, <1>7
  <2> QED
    BY <1>2, <1>5, <2>1
<1>13. Chain(m, t)
  BY <1>1, <1>9, <1>10, <1>11 DEF Chain
<1> QED
  BY <1>2, <1>12, <1>13 DEF m, t, p, n

\* The links along a chain are all that makes it one.
LEMMA SameChain ==
  ASSUME NEW l, NEW m, NEW s \in Seq(Pcbs), Chain(l, s), m.head = l.head,
         \A i \in 1 .. Len(s) : m.next[s[i]] = l.next[s[i]]
  PROVE  Chain(m, s)
BY DEF Chain

LEMMA ListsKept ==
  ASSUME NEW l \in Lists, NEW p \in Pcbs
  PROVE  Reg(l, p) \in Lists /\ Unlink(l, p) \in Lists /\ Rmv(l, p) \in Lists
         /\ ToFront(l, p) \in Lists
<1>1. ASSUME NEW k \in Lists PROVE Reg(k, p) \in Lists
  BY DEF Reg, Lists
<1>2. Unlink(l, p) \in Lists
  <2> DEFINE A == ToSet(InOrder(l))
  <2>1. Unlink(l, p) = [ head |-> IF l.head = p THEN l.next[p] ELSE l.head,
                         next |-> [q \in Pcbs |-> IF q \in A /\ l.next[q] = p THEN l.next[p]
                                                                              ELSE l.next[q]] ]
    BY DEF Unlink
  <2> HIDE DEF A
  <2> QED
    BY <2>1 DEF Lists
<1>3. Rmv(l, p) \in Lists
  BY <1>2 DEF Rmv, Lists
<1> QED
  BY <1>1, <1>2, <1>3 DEF ToFront

\* TCP_RMV clears the block's link besides.
LEMMA RmvChain ==
  ASSUME NEW l \in Lists, NEW s \in Seq(Pcbs), Chain(l, s), NEW k \in 1 .. Len(s)
  PROVE  /\ Chain(Rmv(l, s[k]), Without(s, k))
         /\ Rmv(l, s[k]).next[s[k]] = Null
         /\ \A q \in Pcbs : (\A i \in 1 .. Len(s) : s[i] # q)
                            => Rmv(l, s[k]).next[q] = l.next[q]
<1> DEFINE u == Unlink(l, s[k])
           m == Rmv(l, s[k])
           t == Without(s, k)
<1>1. /\ Chain(u, t) /\ s[k] \in Pcbs /\ u \in Lists
      /\ \A q \in Pcbs : (\A i \in 1 .. Len(s) : s[i] # q) => u.next[q] = l.next[q]
  BY UnlinkChain, ListsKept
<1>2. m.head = u.head /\ m.next = [u.next EXCEPT ![s[k]] = Null]
  <2>1. m = [u EXCEPT !.next[s[k]] = Null]
    BY DEF Rmv
  <2> HIDE DEF u, m
  <2> QED
    BY <1>1, <2>1 DEF Lists
<1>3. Shortened(t, s, k) /\ Once(s)
  BY WithoutFacts DEF Chain, Once
<1> HIDE DEF u, m, t
<1>4. u.next \in [Pcbs -> Pcbs \cup {Null}]
  BY <1>1 DEF Lists
<1>5. \A i \in 1 .. Len(t) : t[i] \in Pcbs /\ t[i] # s[k]
  <2>1. ASSUME NEW i \in 1 .. Len(t) PROVE t[i] # s[k]
    <3> DEFINE j == IF i < k THEN i ELSE i + 1
    <3>1. j \in 1 .. Len(s) /\ j # k /\ t[i] = s[j]
      BY <1>3 DEF Shortened
    <3> HIDE DEF j
    <3> QED
      BY <1>3, <3>1 DEF Once
  <2> QED
    BY <1>3, <2>1 DEF Shortened
<1>6. Chain(m, t)
  <2>1. t \in Seq(Pcbs)
    BY <1>3 DEF Shortened
  <2>2. \A i \in 1 .. Len(t) : m.next[t[i]] = u.next[t[i]]
    BY <1>2, <1>4, <1>5
  <2> QED
    BY <1>1, <1>2, <2>1, <2>2, SameChain
<1>7. \A q \in Pcbs : (\A i \in 1 .. Len(s) : s[i] # q) => m.next[q] = l.next[q]
  BY <1>1, <1>2, <1>4
<1>8. m.next[s[k]] = Null
  BY <1>1, <1>2, <1>4
<1> QED
  BY <1>6, <1>7, <1>8 DEF m, t
-----------------------------------------------------------------------------
(* What the list holds, and what leads to it *)

\* The blocks of s are those of A.
Holds(s, A) == \A r : r \in A <=> \E i \in 1 .. Len(s) : s[i] = r

LEMMA HoldsPushed ==
  ASSUME NEW A, NEW p \in Pcbs, NEW s \in Seq(Pcbs), Holds(s, A), NEW t, t = <<p>> \o s
  PROVE  Holds(t, A \cup {p})
<1>1. /\ t \in Seq(Pcbs) /\ Len(s) \in Nat /\ Len(t) = Len(s) + 1 /\ t[1] = p
      /\ \A i \in 2 .. Len(s) + 1 : t[i] = s[i - 1]
  BY PushFront
<1>2. ASSUME NEW r PROVE r \in A \cup {p} <=> \E i \in 1 .. Len(t) : t[i] = r
  <2>1. ASSUME NEW i \in 1 .. Len(s), s[i] = r PROVE \E j \in 1 .. Len(t) : t[j] = r
    <3>1. i + 1 \in 2 .. Len(s) + 1 /\ i + 1 \in 1 .. Len(t) /\ (i + 1) - 1 = i
      BY <1>1
    <3> QED
      BY <1>1, <2>1, <3>1
  <2>2. ASSUME NEW i \in 1 .. Len(t), t[i] = r PROVE r = p \/ r \in A
    <3>1. i = 1 \/ (i \in 2 .. Len(s) + 1 /\ i - 1 \in 1 .. Len(s))
      BY <1>1
    <3> QED
      BY <1>1, <2>2, <3>1 DEF Holds
  <2>3. 1 \in 1 .. Len(t)
    BY <1>1
  <2> QED
    BY <1>1, <2>1, <2>2, <2>3 DEF Holds
<1> QED
  BY <1>2 DEF Holds

LEMMA HoldsWithout ==
  ASSUME NEW A, NEW s \in Seq(Pcbs), Once(s), Holds(s, A), NEW k \in 1 .. Len(s),
         NEW t, t = Without(s, k)
  PROVE  Holds(t, A \ {s[k]})
<1>1. /\ t \in Seq(Pcbs) /\ Len(t) = Len(s) - 1 /\ Len(s) \in Nat /\ Len(s) > 0
      /\ \A i \in 1 .. Len(s) - 1 : t[i] = IF i < k THEN s[i] ELSE s[i + 1]
  <2>1. Shortened(t, s, k)
    BY WithoutFacts
  <2> QED
    BY <2>1 DEF Shortened
<1>2. ASSUME NEW r PROVE r \in A \ {s[k]} <=> \E i \in 1 .. Len(t) : t[i] = r
  <2>1. ASSUME NEW i \in 1 .. Len(s), s[i] = r, r # s[k] PROVE \E j \in 1 .. Len(t) : t[j] = r
    <3>1. CASE i < k
      <4>1. i \in 1 .. Len(s) - 1
        BY <1>1, <3>1
      <4> QED
        BY <1>1, <2>1, <3>1, <4>1
    <3>2. CASE i > k
      <4>1. i - 1 \in 1 .. Len(s) - 1 /\ ~(i - 1 < k) /\ (i - 1) + 1 = i
        BY <1>1, <3>2
      <4> QED
        BY <1>1, <2>1, <4>1
    <3> QED
      BY <1>1, <2>1, <3>1, <3>2
  <2>2. ASSUME NEW i \in 1 .. Len(t), t[i] = r PROVE r \in A \ {s[k]}
    <3> DEFINE j == IF i < k THEN i ELSE i + 1
    <3>1. j \in 1 .. Len(s) /\ j # k /\ t[i] = s[j]
      BY <1>1
    <3> HIDE DEF j
    <3> QED
      BY <2>2, <3>1 DEF Holds, Once
  <2> QED
    BY <2>1, <2>2 DEF Holds
<1> QED
  BY <1>2 DEF Holds

\* The k-th block moved to the front.
Moved(s, k) == <<s[k]>> \o Without(s, k)

MovedTo(t, s, k) ==
  /\ t \in Seq(Pcbs) /\ Len(s) \in Nat /\ Len(t) = Len(s) /\ t[1] = s[k]
  /\ \A i \in 2 .. Len(s) : t[i] = IF i <= k THEN s[i - 1] ELSE s[i]

LEMMA MovedFacts ==
  ASSUME NEW s \in Seq(Pcbs), NEW k \in 1 .. Len(s), NEW t, t = Moved(s, k)
  PROVE  MovedTo(t, s, k)
<1> DEFINE w == Without(s, k)
<1>1. Shortened(w, s, k) /\ s[k] \in Pcbs
  BY WithoutFacts
<1>2. t = <<s[k]>> \o w
  BY DEF Moved
<1> HIDE DEF w
<1>3. /\ w \in Seq(Pcbs) /\ Len(w) = Len(s) - 1 /\ Len(s) \in Nat /\ Len(s) > 0
      /\ \A i \in 1 .. Len(s) - 1 : w[i] = IF i < k THEN s[i] ELSE s[i + 1]
  BY <1>1 DEF Shortened
<1>4. /\ t \in Seq(Pcbs) /\ Len(t) = Len(w) + 1 /\ t[1] = s[k]
      /\ \A i \in 2 .. Len(w) + 1 : t[i] = w[i - 1]
  BY <1>1, <1>2, <1>3, PushFront
<1>5. Len(w) + 1 = Len(s)
  BY <1>3
<1>6. ASSUME NEW i \in 2 .. Len(s) PROVE t[i] = IF i <= k THEN s[i - 1] ELSE s[i]
  <2>1. i - 1 \in 1 .. Len(s) - 1 /\ (i - 1) + 1 = i /\ (i - 1 < k <=> i <= k)
    BY <1>3
  <2>2. t[i] = w[i - 1]
    BY <1>4, <1>5
  <2> QED
    BY <1>3, <2>1, <2>2
<1> QED
  BY <1>3, <1>4, <1>5, <1>6 DEF MovedTo

LEMMA WithoutOnce ==
  ASSUME NEW s \in Seq(Pcbs), Once(s), NEW k \in 1 .. Len(s)
  PROVE  /\ Without(s, k) \in Seq(Pcbs)
         /\ \A i \in 1 .. Len(Without(s, k)) : Without(s, k)[i] # s[k]
<1> DEFINE t == Without(s, k)
<1>1. Shortened(t, s, k)
  BY WithoutFacts
<1> HIDE DEF t
<1>2. ASSUME NEW i \in 1 .. Len(t) PROVE t[i] # s[k]
  <2> DEFINE j == IF i < k THEN i ELSE i + 1
  <2>1. j \in 1 .. Len(s) /\ j # k /\ t[i] = s[j]
    BY <1>1 DEF Shortened
  <2> HIDE DEF j
  <2> QED
    BY <2>1 DEF Once
<1> QED
  BY <1>1, <1>2 DEF Shortened, t

\* Taken out by TCP_RMV and put back, or moved by tcp_input, a block is in front.
LEMMA MovedChain ==
  ASSUME NEW l \in Lists, NEW s \in Seq(Pcbs), Chain(l, s), NEW k \in 1 .. Len(s),
         NEW m \in {Rmv(l, s[k]), Unlink(l, s[k])}
  PROVE  /\ Chain(Reg(m, s[k]), Moved(s, k))
         /\ \A q \in Pcbs : (\A i \in 1 .. Len(s) : s[i] # q)
                            => Reg(m, s[k]).next[q] = l.next[q]
<1> DEFINE w == Without(s, k)
<1>1. /\ s[k] \in Pcbs /\ Once(s) /\ m \in Lists
      /\ w \in Seq(Pcbs) /\ \A i \in 1 .. Len(w) : w[i] # s[k]
  <2>1. s[k] \in Pcbs
    OBVIOUS
  <2>2. m \in Lists
    BY <2>1, ListsKept
  <2>3. Once(s)
    BY DEF Chain, Once
  <2> QED
    BY <2>1, <2>2, <2>3, WithoutOnce
<1>2. Chain(m, w) /\ \A q \in Pcbs : (\A i \in 1 .. Len(s) : s[i] # q) => m.next[q] = l.next[q]
  BY UnlinkChain, RmvChain
<1>3. Moved(s, k) = <<s[k]>> \o w
  BY DEF Moved
<1> HIDE DEF w
<1>4. /\ Chain(Reg(m, s[k]), <<s[k]>> \o w)
      /\ \A q \in Pcbs \ {s[k]} : Reg(m, s[k]).next[q] = m.next[q]
  BY <1>1, <1>2, RegChain
<1> QED
  BY <1>2, <1>3, <1>4
-----------------------------------------------------------------------------

\* From every block the links lead over blocks that are all different, to the end.
LeadsAlong(w, q) ==
  /\ w \in Seq(Pcbs) /\ w # <<>> /\ w[1] = q /\ Once(w)
  /\ \A i \in 1 .. Len(w) : active.next[w[i]] = At(w, i + 1)

LEMMA ListedLead ==
  ASSUME NEW s \in Seq(Pcbs), Chain(active, s), NEW k \in 1 .. Len(s)
  PROVE  \E w : /\ LeadsAlong(w, s[k])
                /\ \A i \in 1 .. Len(w) : \E j \in 1 .. Len(s) : w[i] = s[j]
<1> DEFINE n == Len(s)
<1>1. PICK w : w = [i \in 1 .. n - k + 1 |-> s[k - 1 + i]]
  OBVIOUS
<1>2. n \in Nat /\ k \in 1 .. n /\ n - k + 1 \in Nat /\ n - k + 1 > 0
  BY AtFacts
<1>3. \A i \in 1 .. n : s[i] \in Pcbs
  OBVIOUS
<1>4. /\ \A i, j \in 1 .. n : s[i] = s[j] => i = j
      /\ \A i \in 1 .. n : active.next[s[i]] = At(s, i + 1)
  BY DEF Chain
<1> HIDE DEF n
<1>5. \A i \in 1 .. n - k + 1 : k - 1 + i \in 1 .. n /\ w[i] = s[k - 1 + i]
  BY <1>1, <1>2
<1>6. w \in [1 .. n - k + 1 -> Pcbs]
  BY <1>1, <1>3, <1>5
<1>7. w \in Seq(Pcbs) /\ Len(w) = n - k + 1
  BY <1>2, <1>6
<1>8. \A i \in 1 .. Len(w) : \E j \in 1 .. n : w[i] = s[j]
  BY <1>5, <1>7
<1>9. Once(w)
  <2>1. ASSUME NEW i \in 1 .. n - k + 1, NEW j \in 1 .. n - k + 1, w[i] = w[j] PROVE i = j
    <3>1. k - 1 + i = k - 1 + j
      BY <1>4, <1>5, <2>1
    <3> QED
      BY <1>2, <3>1
  <2> QED
    BY <1>7, <2>1 DEF Once
<1>10. ASSUME NEW i \in 1 .. Len(w) PROVE active.next[w[i]] = At(w, i + 1)
  <2>1. PICK j : j = k - 1 + i
    OBVIOUS
  <2>2. j \in 1 .. n /\ w[i] = s[j] /\ active.next[w[i]] = At(s, j + 1)
    BY <1>4, <1>5, <1>7, <2>1
  <2>3. i + 1 \in 1 .. n - k + 1 <=> j + 1 \in 1 .. n
    BY <1>2, <1>7, <2>1
  <2>4. k - 1 + (i + 1) = j + 1
    BY <1>2, <1>7, <2>1
  <2>5. i + 1 \in 1 .. n - k + 1 => w[i + 1] = s[j + 1]
    BY <1>5, <2>4
  <2> QED
    BY <1>7, <2>2, <2>3, <2>5 DEF At, n
<1>11. w # <<>> /\ w[1] = s[k]
  <2>1. 1 \in 1 .. n - k + 1 /\ k - 1 + 1 = k
    BY <1>2
  <2> QED
    BY <1>2, <1>5, <1>7, <2>1
<1> QED
  BY <1>7, <1>8, <1>9, <1>10, <1>11 DEF LeadsAlong, n

LEMMA OneMoreLeads ==
  ASSUME NEW A, NEW q \in Pcbs \ A, active.next[q] \in A \cup {Null}, A \subseteq Pcbs,
         \A r \in A : \E w : LeadsAlong(w, r) /\ \A i \in 1 .. Len(w) : w[i] \in A
  PROVE  \E w : LeadsAlong(w, q) /\ \A i \in 1 .. Len(w) : w[i] \in A \cup {q}
<1>1. PICK u \in Seq(Pcbs) :
        /\ active.next[q] = At(u, 1) /\ Once(u)
        /\ \A i \in 1 .. Len(u) : u[i] \in A /\ active.next[u[i]] = At(u, i + 1)
  <2>1. CASE active.next[q] = Null
    <3>1. PICK e : e = <<>>
      OBVIOUS
    <3>2. e \in Seq(Pcbs) /\ 1 .. Len(e) = {}
      BY <3>1
    <3>3. At(e, 1) = Null /\ Once(e)
      BY <3>2 DEF At, Once
    <3> QED
      BY <2>1, <3>2, <3>3
  <2>2. CASE active.next[q] \in A
    <3>1. PICK w : LeadsAlong(w, active.next[q]) /\ \A i \in 1 .. Len(w) : w[i] \in A
      BY <2>2
    <3>2. w \in Seq(Pcbs) /\ w # <<>> /\ w[1] = active.next[q] /\ Once(w)
          /\ \A i \in 1 .. Len(w) : active.next[w[i]] = At(w, i + 1)
      BY <3>1 DEF LeadsAlong
    <3>3. 1 \in 1 .. Len(w)
      BY <3>2
    <3> QED
      BY <3>1, <3>2, <3>3 DEF At
  <2> QED
    BY <2>1, <2>2
<1>2. PICK w : w = <<q>> \o u
  OBVIOUS
<1>3. /\ w \in Seq(Pcbs) /\ Len(u) \in Nat /\ Len(w) = Len(u) + 1 /\ w[1] = q
      /\ \A i \in 2 .. Len(u) + 1 : w[i] = u[i - 1]
  BY <1>2, PushFront
<1>4. ASSUME NEW i \in 1 .. Len(w)
      PROVE  i = 1 \/ (i - 1 \in 1 .. Len(u) /\ w[i] = u[i - 1] /\ w[i] \in A /\ w[i] # q)
  BY <1>1, <1>3
<1>5. Once(w)
  <2>1. ASSUME NEW i \in 1 .. Len(w), NEW j \in 1 .. Len(w), w[i] = w[j] PROVE i = j
    <3>1. i = 1 <=> j = 1
      BY <1>3, <1>4, <2>1
    <3>2. i # 1 /\ j # 1 => i - 1 = j - 1
      BY <1>1, <1>4, <2>1 DEF Once
    <3> QED
      BY <1>3, <3>1, <3>2
  <2> QED
    BY <2>1 DEF Once
<1>6. ASSUME NEW i \in 1 .. Len(w) PROVE At(w, i + 1) = At(u, i)
  <2>1. i + 1 \in 1 .. Len(w) <=> i \in 1 .. Len(u)
    BY <1>3
  <2>2. i \in 1 .. Len(u) => w[i + 1] = u[i]
    BY <1>3
  <2> QED
    BY <2>1, <2>2 DEF At
<1>7. ASSUME NEW i \in 1 .. Len(w) PROVE active.next[w[i]] = At(w, i + 1)
  <2>1. CASE i = 1
    BY <1>1, <1>3, <1>6, <2>1
  <2>2. CASE i # 1
    <3>1. i - 1 \in 1 .. Len(u) /\ w[i] = u[i - 1] /\ (i - 1) + 1 = i
      BY <1>3, <1>4, <2>2
    <3>2. active.next[u[i - 1]] = At(u, (i - 1) + 1)
      BY <1>1, <3>1
    <3> QED
      BY <1>6, <3>1, <3>2
  <2> QED
    BY <2>1, <2>2
<1>8. w # <<>>
  BY <1>3
<1>9. LeadsAlong(w, q)
  BY <1>3, <1>5, <1>7, <1>8 DEF LeadsAlong
<1>10. \A i \in 1 .. Len(w) : w[i] \in A \cup {q}
  BY <1>3, <1>4
<1> QED
  BY <1>9, <1>10

\* The blocks in the pool lead on to one freed later or to the list, so that all
\* lead to the end: the pool is gone through from its first block.
LEMMA AllLead ==
  ASSUME FreeOnce, FreeLeadsOn, free \in Seq(Pcbs),
         NEW s \in Seq(Pcbs), Chain(active, s), Holds(s, Active)
  PROVE  \A q \in Pcbs : \E w : LeadsAlong(w, q)
<1> DEFINE n == Len(free)
           Upto(k) == Active \cup {free[j] : j \in 1 .. k}
           All(A) == \A q \in A : \E w : LeadsAlong(w, q) /\ \A i \in 1 .. Len(w) : w[i] \in A
           T == {k \in 0 .. n : All(Upto(k))}
<1>1. /\ n \in Nat /\ \A i \in 1 .. n : free[i] \in Pcbs /\ free[i] \notin Active
      /\ Active \subseteq Pcbs
  BY DEF Active, ToSet
<1>2. T \in SUBSET (0 .. n) /\ 0 \in T
  <2>1. ASSUME NEW q \in Active
        PROVE  \E w : LeadsAlong(w, q) /\ \A i \in 1 .. Len(w) : w[i] \in Active
    <3>1. PICK k \in 1 .. Len(s) : s[k] = q
      BY DEF Holds
    <3>2. PICK w : /\ LeadsAlong(w, q)
                   /\ \A i \in 1 .. Len(w) : \E j \in 1 .. Len(s) : w[i] = s[j]
      BY <3>1, ListedLead
    <3>3. \A i \in 1 .. Len(w) : w[i] \in Active
      BY <3>2 DEF Holds
    <3> QED
      BY <3>2, <3>3
  <2>2. Upto(0) = Active
    OBVIOUS
  <2> HIDE DEF Upto
  <2> QED
    BY <1>1, <2>1, <2>2
<1>3. ASSUME NEW k \in T, k < n PROVE k + 1 \in T
  <2> DEFINE q == free[k + 1]
             A == Upto(k)
  <2>1. k + 1 \in 1 .. n /\ k \in 0 .. n /\ All(A)
    BY <1>1, <1>3
  <2>2. \A j \in 1 .. k : j \in 1 .. n /\ free[j] # q
    BY <1>1, <2>1 DEF FreeOnce
  <2>3. q \in Pcbs \ A /\ A \subseteq Pcbs
    BY <1>1, <2>1, <2>2
  <2>4. active.next[q] \in A \cup {Null}
    <3>1. \/ active.next[q] \in Active \cup {Null}
          \/ \E j \in 1 .. (k + 1) - 1 : active.next[q] = free[j]
      BY <2>1 DEF FreeLeadsOn
    <3>2. (k + 1) - 1 = k
      BY <2>1
    <3> QED
      BY <3>1, <3>2
  <2>5. Upto(k + 1) = A \cup {q}
    <3>1. 1 .. k + 1 = (1 .. k) \cup {k + 1}
      BY <2>1
    <3> QED
      BY <3>1
  <2> HIDE DEF A, q, Upto
  <2>6. \E w : LeadsAlong(w, q) /\ \A i \in 1 .. Len(w) : w[i] \in A \cup {q}
    BY <2>1, <2>3, <2>4, OneMoreLeads
  <2>7. ASSUME NEW r \in A PROVE \E w : LeadsAlong(w, r) /\ \A i \in 1 .. Len(w) : w[i] \in A \cup {q}
    BY <2>1
  <2>8. All(A \cup {q})
    BY <2>6, <2>7
  <2> HIDE DEF All
  <2>9. All(Upto(k + 1))
    BY <2>5, <2>8, Zenon
  <2>10. k + 1 \in 0 .. n
    BY <1>1, <2>1
  <2> HIDE DEF n
  <2> QED
    BY <2>9, <2>10
<1>4. All(Upto(n))
  <2> HIDE DEF T, n
  <2>1. \A k \in 0 .. n : k \in T
    BY <1>1, <1>2, <1>3, Steps
  <2>2. n \in 0 .. n
    BY <1>1
  <2> QED
    BY <2>1, <2>2 DEF T
<1>5. Pcbs = Upto(n)
  BY <1>1 DEF Active, ToSet
<1> HIDE DEF Upto
<1> QED
  BY <1>4, <1>5

\* Wherever the cursor is, it finds the end of the list.
LEMMA CursorEnds ==
  ASSUME TypeOK, FreeOnce, FreeLeadsOn,
         NEW s \in Seq(Pcbs), Chain(active, s), Holds(s, Active)
  PROVE  CursorFindsTheEnd
<1>1. PICK w \in Seq(Pcbs) :
        /\ cpcb = At(w, 1) /\ Once(w)
        /\ \A i \in 1 .. Len(w) : active.next[w[i]] = At(w, i + 1)
  <2>1. CASE cpcb = Null
    <3>1. PICK e : e = <<>>
      OBVIOUS
    <3>2. e \in Seq(Pcbs) /\ 1 .. Len(e) = {}
      BY <3>1
    <3>3. At(e, 1) = Null /\ Once(e)
      BY <3>2 DEF At, Once
    <3> QED
      BY <2>1, <3>2, <3>3
  <2>2. CASE cpcb # Null
    <3>1. PICK w : LeadsAlong(w, cpcb)
      BY <2>2, AllLead DEF TypeOK
    <3>2. w \in Seq(Pcbs) /\ w # <<>> /\ w[1] = cpcb /\ Once(w)
          /\ \A i \in 1 .. Len(w) : active.next[w[i]] = At(w, i + 1)
      BY <3>1 DEF LeadsAlong
    <3>3. 1 \in 1 .. Len(w)
      BY <3>2
    <3> QED
      BY <3>2, <3>3 DEF At
  <2> QED
    BY <2>1, <2>2
<1> DEFINE N == Cardinality(Pcbs)
<1>2. N \in Nat /\ Len(w) \in Nat /\ Len(w) <= N
  BY <1>1, OnceFits, AtFacts
<1>3. Follow(active, cpcb)[N] = At(w, N + 1)
  <2>1. \A n \in Nat : Follow(active, cpcb)[n] = At(w, n + 1)
    <3>1. active \in Lists
      BY DEF TypeOK
    <3>2. PICK p : p = cpcb
      OBVIOUS
    <3> QED
      BY <1>1, <3>1, <3>2, FollowPath, Zenon
  <2> HIDE DEF N
  <2> QED
    BY <1>2, <2>1
<1>4. N + 1 \notin 1 .. Len(w)
  BY <1>2
<1> QED
  BY <1>3, <1>4 DEF CursorFindsTheEnd, At
-----------------------------------------------------------------------------
(* The pool *)

\* memp_init puts every block on the free list once.
LEMMA AllBlocksFree ==
  LET s == SetToSeq(Pcbs)
  IN  /\ s \in Seq(Pcbs) /\ \A i, j \in 1 .. Len(s) : s[i] = s[j] => i = j
      /\ \A p \in Pcbs : \E i \in 1 .. Len(s) : s[i] = p
  <1> DEFINE n == Cardinality(Pcbs)
             s == SetToSeq(Pcbs)
  <1>1. n \in Nat /\ ExistsBijection(1 .. n, Pcbs)
    BY PoolAssumption, FS_CardinalityType
  <1>2. \E f \in [1 .. n -> Pcbs] : IsInjective(f)
    BY <1>1 DEF ExistsBijection, Bijection, Injection, IsInjective
  <1>3. s \in [1 .. n -> Pcbs] /\ IsInjective(s)
    BY <1>2 DEF SetToSeq
  <1> HIDE DEF s
  <1>4. s \in Seq(Pcbs) /\ Len(s) = n
    BY <1>1, <1>3
  <1>5. \A i, j \in 1 .. Len(s) : s[i] = s[j] => i = j
    BY <1>3, <1>4 DEF IsInjective
  <1>6. s \in Surjection(1 .. n, Pcbs)
    <2>1. s \in Injection(1 .. n, Pcbs) /\ IsFiniteSet(Pcbs)
      BY <1>3, PoolAssumption DEF Injection
    <2>2. Cardinality(1 .. n) = Cardinality(Pcbs)
      <3>1. n \in Nat /\ n \in Int /\ 1 \in Int
        BY <1>1
      <3>2. Cardinality(1 .. n) = IF 1 > n THEN 0 ELSE n - 1 + 1
        BY <3>1, FS_Interval
      <3> HIDE DEF n
      <3>3. Cardinality(1 .. n) = n
        BY <3>1, <3>2
      <3> QED
        BY <3>3 DEF n
    <2> QED
      BY <2>1, <2>2, FS_Injection
  <1>7. \A p \in Pcbs : \E i \in 1 .. Len(s) : s[i] = p
    BY <1>4, <1>6 DEF Surjection
  <1> QED BY <1>4, <1>5, <1>7 DEF s

LEMMA InitPool == Init => PoolInv /\ Active = {}
<1> SUFFICES ASSUME Init PROVE PoolInv /\ Active = {}
  OBVIOUS
<1>1. /\ free \in Seq(Pcbs) /\ FreeOnce
      /\ \A p \in Pcbs : \E i \in 1 .. Len(free) : free[i] = p
  BY AllBlocksFree DEF Init, FreeOnce
<1>2. DOMAIN free = 1 .. Len(free)
  BY <1>1
<1>3. Active = {}
  BY <1>1, <1>2 DEF Active, ToSet
<1>4. prio \in [Active -> 1 .. 64]
  BY <1>3 DEF Init
<1>5. active \in Lists
  BY DEF Init, Lists
<1>6. state \in [Pcbs -> States] /\ offered \in [Pcbs -> 0 .. 2]
  BY DEF Init, States
<1>7. TypeOK
  BY <1>1, <1>3, <1>4, <1>5, <1>6 DEF Init, TypeOK
<1> QED
  BY <1>1, <1>3, <1>7 DEF PoolInv, NoneClosed

LEMMA MembersOf ==
  ASSUME NEW s \in Seq(Pcbs)
  PROVE  \A r : r \in ToSet(s) <=> \E i \in 1 .. Len(s) : s[i] = r
<1>1. DOMAIN s = 1 .. Len(s)
  OBVIOUS
<1> QED
  BY <1>1 DEF ToSet

\* memp_malloc takes the pool's first block.
LEMMA PoppedFree ==
  ASSUME free \in Seq(Pcbs), free # <<>>, FreeOnce, free' = Tail(free)
  PROVE  /\ Head(free) \in Pcbs \ Active /\ Active' = Active \cup {Head(free)}
         /\ free' \in Seq(Pcbs) /\ FreeOnce'
         /\ Len(free) \in Nat /\ Len(free') = Len(free) - 1 /\ Head(free) = free[1]
         /\ \A i \in 1 .. Len(free') : free'[i] = free[i + 1]
<1>1. PICK p : p = Head(free)
  OBVIOUS
<1>2. /\ p = free[1] /\ p \in Pcbs /\ Len(free) \in Nat \ {0}
      /\ free' \in Seq(Pcbs) /\ Len(free') = Len(free) - 1
      /\ \A i \in 1 .. Len(free') : free'[i] = free[i + 1] /\ free'[i] # p
      /\ \A i, j \in 1 .. Len(free') : free'[i] = free'[j] => i = j
  <2>1. Len(free) \in Nat \ {0}
    OBVIOUS
  <2> QED
    BY <1>1, <2>1, TailForgetsHead DEF FreeOnce
<1>3. DOMAIN free = 1 .. Len(free) /\ DOMAIN free' = 1 .. Len(free')
  BY <1>2
<1>4. ToSet(free') = ToSet(free) \ {p}
  <2>1. ASSUME NEW i \in 1 .. Len(free), free[i] # p PROVE \E j \in 1 .. Len(free') : free'[j] = free[i]
    <3>1. i - 1 \in 1 .. Len(free') /\ (i - 1) + 1 = i
      BY <1>2, <2>1
    <3> QED
      BY <1>2, <3>1
  <2>2. \A i \in 1 .. Len(free') : i + 1 \in 1 .. Len(free)
    BY <1>2
  <2>3. /\ \A r : r \in ToSet(free) <=> \E i \in 1 .. Len(free) : free[i] = r
        /\ \A r : r \in ToSet(free') <=> \E i \in 1 .. Len(free') : free'[i] = r
    BY <1>2, MembersOf
  <2>4. ASSUME NEW r PROVE r \in ToSet(free') <=> r \in ToSet(free) /\ r # p
    BY <1>2, <2>1, <2>2, <2>3
  <2> QED
    BY <2>4
<1>5. p \in ToSet(free)
  BY <1>2, <1>3 DEF ToSet
<1>6. p \notin Active /\ Active' = Active \cup {p}
  BY <1>2, <1>4, <1>5 DEF Active
<1> QED
  BY <1>1, <1>2, <1>6 DEF FreeOnce

\* memp_free makes a block the pool's first.
LEMMA PushedFree ==
  ASSUME free \in Seq(Pcbs), FreeOnce, NEW p \in Active, free' = <<p>> \o free
  PROVE  /\ p \in Pcbs /\ Active' = Active \ {p} /\ free' \in Seq(Pcbs) /\ FreeOnce'
         /\ Len(free) \in Nat /\ Len(free') = Len(free) + 1 /\ free'[1] = p
         /\ \A i \in 2 .. Len(free') : free'[i] = free[i - 1]
<1>1. p \in Pcbs
  BY DEF Active
<1>2. /\ free' \in Seq(Pcbs) /\ Len(free') = Len(free) + 1 /\ free'[1] = p
      /\ \A i \in 2 .. Len(free) + 1 : free'[i] = free[i - 1]
      /\ Len(free) \in Nat
  BY <1>1, PushFront
<1>3. DOMAIN free = 1 .. Len(free) /\ DOMAIN free' = 1 .. Len(free')
  BY <1>2
<1>4. \A i \in 1 .. Len(free) : free[i] # p
  BY <1>3 DEF Active, ToSet
<1>5. \A i \in 1 .. Len(free') :
        i = 1 \/ (i - 1 \in 1 .. Len(free) /\ free'[i] = free[i - 1] /\ free'[i] # p)
  BY <1>2, <1>4
<1>6. FreeOnce'
  <2>1. ASSUME NEW i \in 1 .. Len(free'), NEW j \in 1 .. Len(free'), free'[i] = free'[j]
        PROVE  i = j
    <3>1. i = 1 <=> j = 1
      BY <1>2, <1>5, <2>1
    <3>2. i # 1 /\ j # 1 => i - 1 = j - 1
      BY <1>5, <2>1 DEF FreeOnce
    <3> QED
      BY <1>2, <3>1, <3>2
  <2> QED
    BY <2>1 DEF FreeOnce
<1>7. ToSet(free') = ToSet(free) \cup {p}
  <2>1. ASSUME NEW i \in 1 .. Len(free) PROVE \E j \in 1 .. Len(free') : free'[j] = free[i]
    <3>1. i + 1 \in 2 .. Len(free) + 1 /\ i + 1 \in 1 .. Len(free') /\ (i + 1) - 1 = i
      BY <1>2
    <3> QED
      BY <1>2, <3>1
  <2>2. 1 \in 1 .. Len(free')
    BY <1>2
  <2>3. /\ \A r : r \in ToSet(free) <=> \E i \in 1 .. Len(free) : free[i] = r
        /\ \A r : r \in ToSet(free') <=> \E i \in 1 .. Len(free') : free'[i] = r
    BY <1>2, MembersOf
  <2>4. ASSUME NEW i \in 1 .. Len(free') PROVE free'[i] = p \/ free'[i] \in ToSet(free)
    BY <1>2, <1>5, <2>3
  <2>5. ASSUME NEW i \in 1 .. Len(free) PROVE free[i] \in ToSet(free')
    BY <2>1, <2>3
  <2>6. p \in ToSet(free')
    BY <1>2, <2>2, <2>3
  <2> QED
    BY <2>3, <2>4, <2>5, <2>6, Zenon
<1>8. Active' = Active \ {p}
  BY <1>7 DEF Active
<1> QED
  BY <1>1, <1>2, <1>6, <1>8

\* Setting up a block keeps the types of what it changes.
LEMMA SetUpTypes ==
  ASSUME TypeOK, NEW p \in Pcbs, SetUp(p), Active' = Active \cup {p}
  PROVE  /\ state' = [state EXCEPT ![p] = "SYN_RCVD"] /\ state' \in [Pcbs -> States]
         /\ prio' \in [Active' -> 1 .. 64] /\ rough' \in BOOLEAN
         /\ owed' \subseteq Active' /\ offered' \in [Pcbs -> 0 .. 2]
         /\ pc' = pc /\ cpcb' = cpcb /\ closing' = closing /\ refused' \subseteq Pcbs
<1>1. state' = [state EXCEPT ![p] = "SYN_RCVD"] /\ state' \in [Pcbs -> States]
  BY DEF TypeOK, SetUp, States
<1>2. prio' \in [Active' -> 1 .. 64]
  <2>1. prio' = [q \in Active' |-> IF q = p THEN 64 ELSE prio[q]] /\ 64 \in 1 .. 64
    BY DEF SetUp
  <2>2. \A q \in Active : prio[q] \in 1 .. 64
    BY DEF TypeOK
  <2> QED
    BY <2>1, <2>2
<1>3. owed' \subseteq Active' /\ offered' \in [Pcbs -> 0 .. 2] /\ rough' \in BOOLEAN
  BY DEF TypeOK, SetUp, Forget
<1> QED
  BY <1>1, <1>2, <1>3 DEF SetUp, walker, TypeOK

LEMMA SynPool ==
  ASSUME PoolInv, Syn
  PROVE  /\ PoolInv'
         /\ \E p \in Pcbs \ Active :
              p = free[1] /\ active' = Reg(active, p) /\ SetUp(p) /\ Active' = Active \cup {p}
<1>1. PICK p : p = Head(free)
  OBVIOUS
<1>2. SetUp(p) /\ active' = Reg(active, p) /\ free' = Tail(free) /\ free # <<>>
  BY <1>1 DEF Syn
<1>3. /\ p \in Pcbs \ Active /\ Active' = Active \cup {p} /\ p = free[1]
      /\ free' \in Seq(Pcbs) /\ FreeOnce'
  BY <1>1, <1>2, PoppedFree DEF PoolInv, TypeOK
<1>4. /\ state' = [state EXCEPT ![p] = "SYN_RCVD"] /\ state' \in [Pcbs -> States]
      /\ prio' \in [Active' -> 1 .. 64] /\ rough' \in BOOLEAN
      /\ owed' \subseteq Active' /\ offered' \in [Pcbs -> 0 .. 2]
      /\ pc' = pc /\ cpcb' = cpcb /\ closing' = closing /\ refused' \subseteq Pcbs
  BY <1>2, <1>3, SetUpTypes DEF PoolInv
<1>5. active' \in Lists
  BY <1>2, <1>3, ListsKept DEF PoolInv, TypeOK
<1>6. TypeOK'
  BY <1>3, <1>4, <1>5 DEF PoolInv, TypeOK
<1>7. NoneClosed'
  BY <1>3, <1>4 DEF PoolInv, TypeOK, NoneClosed
<1> QED
  BY <1>2, <1>3, <1>6, <1>7 DEF PoolInv

LEMMA SynKillsPool ==
  ASSUME PoolInv, SynKills
  PROVE  /\ PoolInv' /\ free = <<>> /\ free' = free /\ Active' = Active
         /\ \E p \in Active : active' = Reg(Rmv(active, p), p) /\ SetUp(p)
<1>1. PICK p \in Active : active' = Reg(Rmv(active, p), p) /\ SetUp(p)
  BY DEF SynKills
<1>2. free = <<>> /\ free' = free /\ Active' = Active
  BY DEF SynKills, Active
<1>3. p \in Pcbs /\ Active' = Active \cup {p}
  BY <1>2 DEF Active
<1>4. /\ state' = [state EXCEPT ![p] = "SYN_RCVD"] /\ state' \in [Pcbs -> States]
      /\ prio' \in [Active' -> 1 .. 64] /\ rough' \in BOOLEAN
      /\ owed' \subseteq Active' /\ offered' \in [Pcbs -> 0 .. 2]
      /\ pc' = pc /\ cpcb' = cpcb /\ closing' = closing /\ refused' \subseteq Pcbs
  BY <1>1, <1>3, SetUpTypes DEF PoolInv
<1>5. active' \in Lists
  BY <1>1, <1>3, ListsKept DEF PoolInv, TypeOK
<1>6. TypeOK'
  BY <1>2, <1>4, <1>5 DEF PoolInv, TypeOK
<1>7. NoneClosed' /\ FreeOnce'
  BY <1>2, <1>3, <1>4 DEF PoolInv, TypeOK, NoneClosed, FreeOnce
<1> QED
  BY <1>1, <1>2, <1>6, <1>7 DEF PoolInv

\* A connection ends: its block becomes the first free one.
LEMMA ReleasePool ==
  ASSUME PoolInv, NEW p \in Active, Release(p), active' \in Lists,
         state' = [state EXCEPT ![p] = "CLOSED"] \/ state' = state, rough' \in BOOLEAN
  PROVE  PoolInv'
<1>1. /\ p \in Pcbs /\ Active' = Active \ {p} /\ free' \in Seq(Pcbs) /\ FreeOnce'
  BY PushedFree DEF PoolInv, TypeOK, Release
<1>2. state' \in [Pcbs -> States]
  BY <1>1 DEF PoolInv, TypeOK, States
<1>3. prio' \in [Active' -> 1 .. 64]
  <2>1. prio' = [q \in Active' |-> prio[q]]
    BY DEF Release
  <2>2. \A q \in Active : prio[q] \in 1 .. 64
    BY DEF PoolInv, TypeOK
  <2> QED
    BY <1>1, <2>1, <2>2
<1>4. owed' \subseteq Active' /\ offered' \in [Pcbs -> 0 .. 2]
  BY <1>1 DEF PoolInv, TypeOK, Release, Forget
<1>5. /\ closing' \in Pcbs \cup {Null} /\ refused' \subseteq Pcbs
      /\ pc' \in {"pend", "test", "enqueue", "advance"} /\ cpcb' \in Pcbs \cup {Null}
      /\ pc' \in {"enqueue", "advance"} => cpcb' # Null
  BY DEF PoolInv, TypeOK, Release, walker
<1>6. TypeOK'
  BY <1>1, <1>2, <1>3, <1>4, <1>5 DEF TypeOK
<1>7. NoneClosed'
  <2>1. ASSUME NEW q \in Active' PROVE state'[q] = state[q] /\ q \in Active
    BY <1>1 DEF PoolInv, TypeOK, Active
  <2> QED
    BY <2>1 DEF PoolInv, NoneClosed
<1> QED
  BY <1>1, <1>6, <1>7 DEF PoolInv

LEMMA EndsPool ==
  ASSUME PoolInv, NEW p \in Active, RemovePcb(p) \/ TimedOut(p)
  PROVE  PoolInv' /\ Release(p)
<1>1. p \in Pcbs /\ active \in Lists /\ rough \in BOOLEAN
  BY DEF Active, PoolInv, TypeOK
<1>2. Release(p)
  BY DEF RemovePcb, TimedOut
<1>3. active' \in Lists
  BY <1>1, ListsKept DEF RemovePcb, TimedOut
<1>4. (state' = [state EXCEPT ![p] = "CLOSED"] \/ state' = state) /\ rough' \in BOOLEAN
  BY <1>1 DEF RemovePcb, TimedOut
<1> QED
  BY <1>2, <1>3, <1>4, ReleasePool

\* A connection changes its state and its place on the list.
LEMMA TouchPool ==
  ASSUME PoolInv, NEW p \in Pcbs, Touch(p), NEW s \in States \ {"CLOSED"},
         state' = [state EXCEPT ![p] = s] \/ state' = state,
         Accepted(p) \/ prio' = prio, owed' \subseteq owed, offered' \in [Pcbs -> 0 .. 2],
         closing' \in Pcbs \cup {Null}
  PROVE  PoolInv'
<1>1. p \in Active /\ active \in Lists /\ rough \in BOOLEAN /\ prio \in [Active -> 1 .. 64]
  BY DEF Touch, PoolInv, TypeOK
<1>2. free' = free /\ Active' = Active
  BY DEF Touch, Active
<1>3. active' \in Lists /\ rough' \in BOOLEAN
  BY <1>1, ListsKept DEF Touch
<1>4. prio' \in [Active' -> 1 .. 64]
  <2>1. CASE Accepted(p)
    <3>1. PICK q \in Prios : prio' = [prio EXCEPT ![p] = q]
      BY <2>1 DEF Accepted
    <3>2. q \in 1 .. 64
      BY PoolAssumption
    <3> QED
      BY <1>1, <1>2, <3>1, <3>2
  <2>2. CASE prio' = prio
    BY <1>1, <1>2, <2>2
  <2> QED
    BY <2>1, <2>2
<1>5. state' \in [Pcbs -> States] /\ NoneClosed'
  <2>1. state \in [Pcbs -> States] /\ \A q \in Active : state[q] # "CLOSED"
    BY DEF PoolInv, TypeOK, NoneClosed
  <2>2. state' \in [Pcbs -> States]
    BY <2>1
  <2>3. \A q \in Active : state'[q] # "CLOSED"
    BY <2>1 DEF Active
  <2> QED
    BY <1>2, <2>2, <2>3 DEF NoneClosed
<1>6. TypeOK'
  BY <1>2, <1>3, <1>4, <1>5 DEF PoolInv, TypeOK, Touch, walker
<1> QED
  BY <1>2, <1>5, <1>6 DEF PoolInv, FreeOnce

LEMMA SegmentPool ==
  ASSUME PoolInv, NEW p \in Pcbs, Segment(p) \/ Accept(p) \/ Fin(p)
  PROVE  PoolInv'
<1>1. ASSUME MissesIfMoved(p) PROVE owed' \subseteq owed /\ offered' \in [Pcbs -> 0 .. 2]
  BY <1>1 DEF MissesIfMoved, PoolInv, TypeOK
<1>2. /\ "ESTABLISHED" \in States \ {"CLOSED"} /\ "CLOSE_WAIT" \in States \ {"CLOSED"}
      /\ closing \in Pcbs \cup {Null}
  BY DEF States, PoolInv, TypeOK
<1>3. CASE Segment(p)
  BY <1>1, <1>2, <1>3, TouchPool DEF Segment
<1>4. CASE Accept(p)
  BY <1>1, <1>2, <1>4, TouchPool DEF Accept
<1>5. CASE Fin(p)
  <2>1. owed' \subseteq owed /\ offered' \in [Pcbs -> 0 .. 2]
    BY <1>5 DEF Fin, Forget, PoolInv, TypeOK
  <2> QED
    BY <1>2, <1>5, <2>1, TouchPool DEF Fin
<1> QED
  BY <1>3, <1>4, <1>5

LEMMA ClosePool == ASSUME PoolInv, Close PROVE PoolInv' /\ Active' = Active
<1>1. active' = active /\ free' = free /\ prio' = prio /\ Active' = Active
  BY DEF Close, Active
<1>2. closing \in Pcbs /\ closing' = Null
  BY DEF Close, PoolInv, TypeOK
<1>3. state' \in [Pcbs -> States] /\ NoneClosed' /\ refused' \subseteq Pcbs
  <2>1. /\ state \in [Pcbs -> States] /\ \A q \in Active : state[q] # "CLOSED"
        /\ refused \subseteq Pcbs
    BY DEF PoolInv, TypeOK, NoneClosed
  <2>2. "LAST_ACK" \in States \ {"CLOSED"}
    BY DEF States
  <2>3. /\ state' = [state EXCEPT ![closing] = "LAST_ACK"] \/ state' = state
        /\ refused' = refused \cup {closing} \/ refused' = refused
    BY DEF Close
  <2>4. state' \in [Pcbs -> States] /\ refused' \subseteq Pcbs
    BY <1>2, <2>1, <2>2, <2>3
  <2>5. \A q \in Active : state'[q] # "CLOSED"
    BY <2>1, <2>2, <2>3 DEF Active
  <2> QED
    BY <1>1, <2>4, <2>5 DEF NoneClosed
<1>4. TypeOK'
  BY <1>1, <1>2, <1>3 DEF Close, PoolInv, TypeOK, walker
<1> QED
  BY <1>1, <1>3, <1>4 DEF PoolInv, FreeOnce

\* The task reads the list and its cursor's block, and changes neither.
LEMMA TaskPool == ASSUME PoolInv, TaskStep PROVE PoolInv'
<1>1. /\ active' = active /\ free' = free /\ state' = state /\ prio' = prio
      /\ Active' = Active /\ closing' = closing /\ refused' = refused
  BY DEF TaskStep, StartWalk, EndWalk, Check, Enqueue, Advance, tcp, history, Active
<1>2. /\ pc' \in {"pend", "test", "enqueue", "advance"} /\ cpcb' \in Pcbs \cup {Null}
      /\ pc' \in {"enqueue", "advance"} => cpcb' # Null
      /\ owed' \subseteq Active' /\ offered' \in [Pcbs -> 0 .. 2] /\ rough' \in BOOLEAN
  <2>0. TypeOK
    BY DEF PoolInv
  <2>1. CASE StartWalk
    <3>1. /\ pc' = "test" /\ cpcb' = active.head /\ offered' = offered /\ rough' = rough
          /\ owed' = {p \in Active : state[p] = "ESTABLISHED"}
      BY <2>1 DEF StartWalk
    <3>2. active.head \in Pcbs \cup {Null}
      BY <2>0 DEF TypeOK, Lists
    <3>3. owed' \subseteq Active'
      BY <3>1, <1>1
    <3> QED
      BY <2>0, <3>1, <3>2, <3>3 DEF TypeOK
  <2>2. CASE EndWalk
    <3>1. /\ pc' = "pend" /\ cpcb' = cpcb /\ owed' = {} /\ rough' = FALSE
          /\ offered' = [p \in Pcbs |-> 0]
      BY <2>2 DEF EndWalk
    <3>2. offered' \in [Pcbs -> 0 .. 2]
      BY <3>1
    <3> QED
      BY <2>0, <3>1, <3>2 DEF TypeOK
  <2>3. CASE Check
    BY <2>0, <2>3, <1>1 DEF TypeOK, history, Check
  <2>4. CASE Enqueue
    BY <2>0, <2>4, <1>1 DEF TypeOK, Enqueue
  <2>5. CASE Advance
    BY <2>0, <2>5, <1>1 DEF TypeOK, Lists, history, Advance
  <2> QED
    BY <2>1, <2>2, <2>3, <2>4, <2>5 DEF TaskStep
<1>3. TypeOK'
  BY <1>1, <1>2 DEF PoolInv, TypeOK
<1> QED
  BY <1>1, <1>3 DEF PoolInv, FreeOnce, NoneClosed

LEMMA StepPool == IInv /\ [Next]_vars => PoolInv'
<1> SUFFICES ASSUME PoolInv, [Next]_vars PROVE PoolInv'
  BY DEF IInv
<1>1. ASSUME NEW p \in Pcbs, Abort(p) \/ LastAck(p) \/ TimedOut(p) PROVE PoolInv'
  <2>1. p \in Active /\ (RemovePcb(p) \/ TimedOut(p))
    BY <1>1 DEF Abort, LastAck, TimedOut
  <2> QED
    BY <2>1, EndsPool
<1>2. ASSUME NEW p \in Pcbs, Segment(p) \/ Accept(p) \/ Fin(p) PROVE PoolInv'
  BY <1>2, SegmentPool
<1>3. CASE Syn \/ SynKills \/ Close
  BY <1>3, SynPool, SynKillsPool, ClosePool
<1>4. CASE TaskStep
  BY <1>4, TaskPool
<1>5. CASE UNCHANGED vars
  <2>1. /\ UNCHANGED <<active, free, state, prio, closing, pc, cpcb, owed, offered, rough, refused>>
        /\ Active' = Active
    BY <1>5 DEF vars, tcp, walker, history, Active
  <2>2. TypeOK'
    BY <2>1 DEF PoolInv, TypeOK
  <2> QED
    BY <2>1, <2>2 DEF PoolInv, FreeOnce, NoneClosed
<1> QED
  BY <1>1, <1>2, <1>3, <1>4, <1>5 DEF Next, ThreadStep, Handled
-----------------------------------------------------------------------------
(* Half-open connections *)

\* A block that gets a new connection, or none, is no longer half open.
LEMMA StartsOverHalf ==
  ASSUME PoolInv, HalfInv, Waiting, NEW p \in Pcbs, NEW s \in {"SYN_RCVD", "CLOSED"},
         state' = [state EXCEPT ![p] = s] \/ (state' = state /\ p \notin Active'),
         Active' \subseteq Active \cup {p}, closing' = closing, refused' = refused \ {p}
  PROVE  HalfInv'
<1>1. closing' = Null /\ Null \notin Pcbs /\ refused \subseteq Pcbs /\ Active' \subseteq Pcbs
  BY PoolAssumption DEF Waiting, PoolInv, TypeOK, Active
<1>2. ASSUME NEW q \in Active' PROVE state'[q] = "CLOSE_WAIT" <=> q \in refused'
  BY <1>1 DEF PoolInv, TypeOK, HalfInv, HalfOpenOnlyIfRefused, Waiting
<1> QED
  BY <1>1, <1>2 DEF HalfInv, HalfOpenOnlyIfRefused, ClosedOnce

LEMMA StepHalf == IInv /\ [Next]_vars => HalfInv'
<1> SUFFICES ASSUME PoolInv, HalfInv, [Next]_vars PROVE HalfInv'
  BY DEF IInv
<1>0. /\ Null \notin Pcbs /\ refused \subseteq Pcbs /\ Active \subseteq Pcbs
      /\ closing \in Pcbs \cup {Null} /\ state \in [Pcbs -> States]
  BY PoolAssumption DEF PoolInv, TypeOK, Active
<1>1. CASE Syn
  <2>1. PICK p \in Pcbs \ Active : SetUp(p) /\ Active' = Active \cup {p}
    BY <1>1, SynPool
  <2>2. Waiting
    BY <1>1 DEF Syn
  <2> QED
    BY <2>1, <2>2, StartsOverHalf DEF SetUp
<1>2. CASE SynKills
  <2>1. PICK p \in Active : SetUp(p) /\ Active' = Active
    BY <1>2, SynKillsPool
  <2>2. Waiting
    BY <1>2 DEF SynKills
  <2> QED
    BY <1>0, <2>1, <2>2, StartsOverHalf DEF SetUp
<1>3. ASSUME NEW p \in Pcbs, Abort(p) \/ LastAck(p) \/ TimedOut(p) PROVE HalfInv'
  <2>1. Waiting /\ p \in Active /\ Release(p)
    BY <1>3 DEF Abort, LastAck, TimedOut, RemovePcb
  <2>2. Active' = Active \ {p}
    BY <2>1, PushedFree DEF PoolInv, TypeOK, Release
  <2>3. state' = [state EXCEPT ![p] = "CLOSED"] \/ state' = state
    BY <1>3 DEF Abort, LastAck, TimedOut, RemovePcb
  <2> QED
    BY <2>1, <2>2, <2>3, StartsOverHalf DEF Release
<1>4. ASSUME NEW p \in Pcbs, Segment(p) PROVE HalfInv'
  <2>1. UNCHANGED <<free, state, closing, refused>> /\ Active' = Active
    BY <1>4 DEF Segment, Touch, Active
  <2> QED
    BY <2>1 DEF HalfInv, HalfOpenOnlyIfRefused, ClosedOnce
<1>5. ASSUME NEW p \in Pcbs, Accept(p) PROVE HalfInv'
  <2>1. /\ UNCHANGED <<free, closing, refused>> /\ Active' = Active
        /\ p \in Active /\ state[p] = "SYN_RCVD" /\ state' = [state EXCEPT ![p] = "ESTABLISHED"]
    BY <1>5 DEF Accept, Touch, Active
  <2> QED
    BY <1>0, <2>1 DEF HalfInv, HalfOpenOnlyIfRefused, ClosedOnce
<1>6. ASSUME NEW p \in Pcbs, Fin(p) PROVE HalfInv'
  <2>1. /\ free' = free /\ refused' = refused /\ Active' = Active /\ closing = Null
        /\ p \in Active /\ state[p] \in {"SYN_RCVD", "ESTABLISHED"} /\ closing' = p
        /\ state' = [state EXCEPT ![p] = "CLOSE_WAIT"]
    BY <1>6 DEF Fin, Touch, Active, Waiting
  <2>2. p \notin refused
    BY <2>1 DEF HalfInv, HalfOpenOnlyIfRefused
  <2> QED
    BY <1>0, <2>1, <2>2 DEF HalfInv, HalfOpenOnlyIfRefused, ClosedOnce
<1>7. CASE Close
  <2>1. Active' = Active /\ closing \in Pcbs /\ closing' = Null
    BY <1>0, <1>7, ClosePool DEF Close
  <2> QED
    BY <1>0, <1>7, <2>1 DEF Close, HalfInv, HalfOpenOnlyIfRefused, ClosedOnce
<1>8. CASE TaskStep \/ UNCHANGED vars
  <2>1. state' = state /\ closing' = closing /\ refused' = refused /\ Active' = Active
    BY <1>8 DEF TaskStep, StartWalk, EndWalk, Check, Enqueue, Advance, tcp, history, vars, Active
  <2> QED
    BY <2>1 DEF HalfInv, HalfOpenOnlyIfRefused, ClosedOnce
<1> QED
  BY <1>1, <1>2, <1>3, <1>4, <1>5, <1>6, <1>7, <1>8 DEF Next, ThreadStep, Handled
-----------------------------------------------------------------------------
(* Where the blocks in the pool lead *)

LEMMA FreeFacts ==
  ASSUME free \in Seq(Pcbs)
  PROVE  Len(free) \in Nat /\ \A i \in 1 .. Len(free) : free[i] \in Pcbs \ Active
<1>1. \A r : r \in ToSet(free) <=> \E i \in 1 .. Len(free) : free[i] = r
  BY MembersOf
<1>2. Len(free) \in Nat /\ \A i \in 1 .. Len(free) : free[i] \in Pcbs
  OBVIOUS
<1> QED
  BY <1>1, <1>2 DEF Active

\* The pool is as it was, and so are the links from it.
LEMMA SameLeads ==
  ASSUME FreeLeadsOn, free \in Seq(Pcbs), free' = free, Active' = Active,
         \A q \in Pcbs \ Active : active'.next[q] = active.next[q]
  PROVE  FreeLeadsOn'
BY FreeFacts DEF FreeLeadsOn

\* A block leaves the pool for the list.
LEMMA SynLeads ==
  ASSUME PoolInv, FreeLeadsOn, Syn
  PROVE  FreeLeadsOn'
<1>1. PICK p \in Pcbs \ Active :
        p = free[1] /\ active' = Reg(active, p) /\ SetUp(p) /\ Active' = Active \cup {p}
  BY SynPool
<1>2. free \in Seq(Pcbs) /\ active \in Lists /\ FreeOnce
  BY DEF PoolInv, TypeOK
<1>3. /\ Len(free) \in Nat /\ Len(free') = Len(free) - 1
      /\ \A i \in 1 .. Len(free') : free'[i] = free[i + 1]
  BY <1>2, PoppedFree DEF Syn
<1>4. \A q \in Pcbs \ {p} : active'.next[q] = active.next[q]
  BY <1>1, <1>2 DEF Reg, Lists
<1>5. ASSUME NEW i \in 1 .. Len(free')
      PROVE  \/ active'.next[free'[i]] \in Active' \cup {Null}
             \/ \E j \in 1 .. i - 1 : active'.next[free'[i]] = free'[j]
  <2>1. i + 1 \in 1 .. Len(free) /\ 1 \in 1 .. Len(free) /\ (i + 1) - 1 = i /\ i + 1 # 1
    BY <1>3
  <2>2. free'[i] \in Pcbs \ {p}
    BY <1>1, <1>2, <1>3, <2>1, FreeFacts DEF FreeOnce
  <2>3. active'.next[free'[i]] = active.next[free[i + 1]]
    BY <1>3, <1>4, <2>2
  <2>4. \/ active.next[free[i + 1]] \in Active \cup {Null}
        \/ \E j \in 1 .. i : active.next[free[i + 1]] = free[j]
    BY <2>1 DEF FreeLeadsOn
  <2>5. ASSUME NEW j \in 1 .. i, active.next[free[i + 1]] = free[j], j # 1
        PROVE  \E h \in 1 .. i - 1 : active'.next[free'[i]] = free'[h]
    <3>1. j - 1 \in 1 .. i - 1 /\ j - 1 \in 1 .. Len(free') /\ (j - 1) + 1 = j
      BY <1>3, <2>5
    <3> QED
      BY <1>3, <2>3, <2>5, <3>1
  <2> QED
    BY <1>1, <2>3, <2>4, <2>5
<1> QED
  BY <1>5 DEF FreeLeadsOn

\* A block leaves the list for the pool.
LEMMA EndsLead ==
  ASSUME PoolInv, FreeLeadsOn, NEW p \in Active, free' = <<p>> \o free,
         active'.next[p] \in (Active \ {p}) \cup {Null},
         \A q \in Pcbs \ Active : active'.next[q] = active.next[q]
  PROVE  FreeLeadsOn'
<1>1. free \in Seq(Pcbs) /\ FreeOnce
  BY DEF PoolInv, TypeOK
<1>2. /\ Active' = Active \ {p} /\ Len(free) \in Nat /\ Len(free') = Len(free) + 1
      /\ free'[1] = p /\ \A i \in 2 .. Len(free') : free'[i] = free[i - 1]
  BY <1>1, PushedFree
<1>3. ASSUME NEW i \in 1 .. Len(free')
      PROVE  \/ active'.next[free'[i]] \in Active' \cup {Null}
             \/ \E j \in 1 .. i - 1 : active'.next[free'[i]] = free'[j]
  <2>1. CASE i = 1
    BY <1>2, <2>1
  <2>2. CASE i # 1
    <3>1. i \in 2 .. Len(free') /\ i - 1 \in 1 .. Len(free)
      BY <1>2, <2>2
    <3>2. active'.next[free'[i]] = active.next[free[i - 1]]
      BY <1>1, <1>2, <3>1, FreeFacts
    <3>3. \/ active.next[free[i - 1]] \in Active \cup {Null}
          \/ \E j \in 1 .. (i - 1) - 1 : active.next[free[i - 1]] = free[j]
      BY <3>1 DEF FreeLeadsOn
    <3>4. ASSUME active.next[free[i - 1]] = p
          PROVE  \E j \in 1 .. i - 1 : active'.next[free'[i]] = free'[j]
      <4>1. 1 \in 1 .. i - 1
        BY <1>2, <3>1
      <4> QED
        BY <1>2, <3>2, <3>4, <4>1
    <3>5. ASSUME NEW j \in 1 .. (i - 1) - 1, active.next[free[i - 1]] = free[j]
          PROVE  \E h \in 1 .. i - 1 : active'.next[free'[i]] = free'[h]
      <4>1. j + 1 \in 1 .. i - 1 /\ j + 1 \in 2 .. Len(free') /\ (j + 1) - 1 = j
        BY <1>2, <3>1
      <4> QED
        BY <1>2, <3>2, <3>5, <4>1
    <3> QED
      BY <1>2, <3>2, <3>3, <3>4, <3>5
  <2> QED
    BY <2>1, <2>2
<1> QED
  BY <1>3 DEF FreeLeadsOn

-----------------------------------------------------------------------------
(* What the invariant says of the list and of the walk *)

LEMMA OrderFacts ==
  ASSUME OrderInv
  PROVE  \E s \in Seq(Pcbs) :
           s = InOrder(active) /\ Chain(active, s) /\ WalkOf(s) /\ Holds(s, Active) /\ Once(s)
<1> DEFINE s == InOrder(active)
<1>1. s \in Seq(Pcbs) /\ Chain(active, s) /\ ToSet(s) = Active /\ WalkOf(s)
  BY DEF OrderInv
<1> HIDE DEF s
<1>2. Holds(s, Active)
  BY <1>1, MembersOf DEF Holds
<1>3. Once(s)
  BY <1>1 DEF Chain, Once
<1> QED
  BY <1>1, <1>2, <1>3 DEF s

LEMMA OrderNext ==
  ASSUME active' \in Lists, NEW t \in Seq(Pcbs), Chain(active', t), WalkOf(t)',
         Holds(t, Active')
  PROVE  OrderInv'
<1>1. InOrder(active') = t
  BY OrderOfChain
<1>2. ToSet(t) = Active'
  <2>1. \A r : r \in ToSet(t) <=> r \in Active'
    BY MembersOf DEF Holds
  <2> QED
    BY <2>1
<1> QED
  BY <1>1, <1>2 DEF OrderInv

\* Between two walks nothing is owed; a walk that is disturbed owes nothing;
\* any other is led on.
LEMMA WalkNext ==
  ASSUME NEW s \in Seq(Pcbs), WalkOf(s), NEW t \in Seq(Pcbs), NEW p \in Pcbs, pc' = pc,
         rough' = rough \/ rough' = (rough \/ Disturbs(p)), owed' \subseteq owed,
         offered' = offered \/ offered' = [offered EXCEPT ![p] = 0],
         \A u \in Seq(Pcbs), c \in 1 .. Len(s) + 1 :
           pc # "pend" /\ ~rough' /\ LeadsTo(u, s, c) /\ Offered(u, s, c)
             => \E v \in Seq(Pcbs), d \in 1 .. Len(t) + 1 : LeadsTo(v, t, d)' /\ Offered(v, t, d)'
  PROVE  WalkOf(t)'
<1>1. CASE pc = "pend"
  <2>1. ~rough /\ owed = {} /\ offered = [q \in Pcbs |-> 0] /\ ~Disturbs(p)
    BY <1>1 DEF WalkOf, Disturbs
  <2>2. offered' = [q \in Pcbs |-> 0]
    BY <2>1
  <2>3. ~rough'
    <3>1. CASE rough' = rough
      BY <2>1, <3>1, Zenon
    <3>2. CASE rough' = (rough \/ Disturbs(p))
      BY <2>1, <3>2, Zenon
    <3> QED
      BY <3>1, <3>2
  <2>4. owed' = {}
    <3>1. owed = {} /\ owed' \subseteq owed
      BY <2>1
    <3> QED
      BY ONLY <3>1
  <2> QED
    BY <1>1, <2>2, <2>3, <2>4 DEF WalkOf
<1>2. CASE pc # "pend"
  <2>1. ~rough' => ~rough
    OBVIOUS
  <2>2. ASSUME ~rough'
        PROVE  \E v \in Seq(Pcbs), d \in 1 .. Len(t) + 1 : LeadsTo(v, t, d)' /\ Offered(v, t, d)'
    <3>1. PICK u \in Seq(Pcbs), c \in 1 .. Len(s) + 1 : LeadsTo(u, s, c) /\ Offered(u, s, c)
      BY <1>2, <2>1, <2>2 DEF WalkOf
    <3> QED
      BY <1>2, <2>2, <3>1
  <2> QED
    BY <1>2, <2>2 DEF WalkOf
<1> QED
  BY <1>1, <1>2

\* The cursor's blocks are out of reach of the step, and come to the same block.
LEMMA LeadsNext ==
  ASSUME NEW s, NEW t, NEW c, NEW d, NEW u \in Seq(Pcbs), LeadsTo(u, s, c), cpcb' = cpcb,
         \A i \in 1 .. Len(u) : u[i] \notin Active' /\ active'.next[u[i]] = active.next[u[i]],
         At(t, d) = At(s, c)
  PROVE  LeadsTo(u, t, d)'
BY DEF LeadsTo

\* Each connection that is still owed the frame keeps its side of the cursor.
LEMMA OfferedNext ==
  ASSUME NEW s, NEW t, NEW c, NEW d, NEW u, NEW v, Offered(u, s, c), pc' = pc,
         owed' \subseteq owed,
         \A q \in owed' : offered'[q] = offered[q]
                          /\ (state[q] = "ESTABLISHED" => state'[q] = "ESTABLISHED"),
         \A j \in 1 .. Len(t) : t[j] \in owed' =>
           \E i \in 1 .. Len(s) : /\ s[i] = t[j] /\ (i < c <=> j < d)
                                  /\ (u = <<>> /\ i = c <=> v = <<>> /\ j = d)
  PROVE  Offered(v, t, d)'
<1>1. ASSUME NEW j \in 1 .. Len(t), t[j] \in owed'
      PROVE  /\ state'[t[j]] = "ESTABLISHED"
             /\ offered'[t[j]] = IF j < d \/ (v = <<>> /\ j = d /\ pc' = "advance") THEN 1 ELSE 0
  <2>1. PICK i \in 1 .. Len(s) : /\ s[i] = t[j] /\ (i < c <=> j < d)
                                 /\ (u = <<>> /\ i = c <=> v = <<>> /\ j = d)
    BY <1>1
  <2>2. /\ state[t[j]] = "ESTABLISHED"
        /\ offered[t[j]] = IF i < c \/ (u = <<>> /\ i = c /\ pc = "advance") THEN 1 ELSE 0
    BY <1>1, <2>1 DEF Offered
  <2>3. offered'[t[j]] = offered[t[j]] /\ state'[t[j]] = "ESTABLISHED"
    BY <1>1, <2>2
  <2> QED
    BY <2>1, <2>2, <2>3
<1> QED
  BY <1>1 DEF Offered

\* A cursor that is on the list, or at its end, is there directly.
LEMMA Settled ==
  ASSUME NEW s, NEW c, NEW u \in Seq(Pcbs), LeadsTo(u, s, c), cpcb \in Active \cup {Null}
  PROVE  u = <<>> /\ cpcb = At(s, c)
<1>1. ASSUME u # <<>> PROVE FALSE
  <2>1. 1 \in 1 .. Len(u) /\ u[1] \in Pcbs /\ u[1] # Null
    BY <1>1, PoolAssumption
  <2> QED
    BY <1>1, <2>1 DEF LeadsTo
<1> QED
  BY <1>1 DEF LeadsTo

\* A step that leaves the list alone.
LEMMA QuietWalk ==
  ASSUME NEW s \in Seq(Pcbs), WalkOf(s), NEW p \in Pcbs, UNCHANGED <<active, pc, cpcb, rough>>,
         Active' = Active, owed' \subseteq owed,
         \A q \in owed' : offered'[q] = offered[q]
                          /\ (state[q] = "ESTABLISHED" => state'[q] = "ESTABLISHED"),
         offered' = offered \/ offered' = [offered EXCEPT ![p] = 0]
  PROVE  WalkOf(s)'
<1>1. ASSUME NEW u \in Seq(Pcbs), NEW c \in 1 .. Len(s) + 1, LeadsTo(u, s, c), Offered(u, s, c)
      PROVE  LeadsTo(u, s, c)' /\ Offered(u, s, c)'
  <2>1. \A i \in 1 .. Len(u) : u[i] \notin Active'
    BY <1>1 DEF LeadsTo
  <2>2. LeadsTo(u, s, c)'
    BY <1>1, <2>1, LeadsNext
  <2>3. Offered(u, s, c)'
    BY <1>1, OfferedNext
  <2> QED
    BY <2>2, <2>3
<1> QED
  BY <1>1, WalkNext

\* A new block in front of the others.
LEMMA PushedWalk ==
  ASSUME NEW s \in Seq(Pcbs), WalkOf(s), NEW p \in Pcbs \ owed', NEW t, t = <<p>> \o s,
         pc' = pc, cpcb' = cpcb, rough' = (rough \/ Disturbs(p)), owed' \subseteq owed,
         \A q \in owed' : offered'[q] = offered[q]
                          /\ (state[q] = "ESTABLISHED" => state'[q] = "ESTABLISHED"),
         offered' = offered \/ offered' = [offered EXCEPT ![p] = 0]
  PROVE  WalkOf(t)'
<1>1. /\ t \in Seq(Pcbs) /\ Len(s) \in Nat /\ Len(t) = Len(s) + 1 /\ t[1] = p
      /\ \A i \in 2 .. Len(s) + 1 : t[i] = s[i - 1]
  BY PushFront
<1>2. ASSUME NEW u \in Seq(Pcbs), NEW c \in 1 .. Len(s) + 1,
             pc # "pend", ~rough', LeadsTo(u, s, c), Offered(u, s, c)
      PROVE  u = <<>> /\ LeadsTo(u, t, c + 1)' /\ Offered(u, t, c + 1)'
  <2>1. ~Disturbs(p)
    BY <1>2
  <2>2. u = <<>>
    BY <1>2, <2>1, Settled DEF Disturbs
  <2>3. At(t, c + 1) = At(s, c)
    <3>1. (c + 1 \in 1 .. Len(t) <=> c \in 1 .. Len(s)) /\ (c \in 1 .. Len(s) => t[c + 1] = s[c])
      BY <1>1
    <3> QED
      BY <3>1 DEF At
  <2>4. LeadsTo(u, t, c + 1)'
    <3>1. 1 .. Len(u) = {}
      BY <2>2
    <3> QED
      BY <1>2, <2>3, <3>1, LeadsNext
  <2>5. ASSUME NEW j \in 1 .. Len(t), t[j] \in owed'
        PROVE  \E i \in 1 .. Len(s) : /\ s[i] = t[j] /\ (i < c <=> j < c + 1)
                                      /\ (u = <<>> /\ i = c <=> u = <<>> /\ j = c + 1)
    <3>1. j # 1
      BY <1>1, <2>5
    <3>2. /\ j - 1 \in 1 .. Len(s) /\ s[j - 1] = t[j] /\ (j - 1 < c <=> j < c + 1)
          /\ (j - 1 = c <=> j = c + 1)
      BY <1>1, <3>1
    <3> QED
      BY <3>2
  <2>6. Offered(u, t, c + 1)'
    BY <1>2, <2>5, OfferedNext
  <2> QED
    BY <2>2, <2>4, <2>6
<1>3. \A c \in 1 .. Len(s) + 1 : c + 1 \in 1 .. Len(t) + 1
  BY <1>1
<1> QED
  BY <1>1, <1>2, <1>3, WalkNext

\* A block moved in front of the others: those before the cursor stay before
\* it, the cursor's own is not the one moved.
LEMMA MovedWalk ==
  ASSUME NEW s \in Seq(Pcbs), WalkOf(s), NEW k \in 1 .. Len(s), NEW t, t = Moved(s, k),
         pc' = pc, cpcb' = cpcb, rough' = (rough \/ Disturbs(s[k])), owed' \subseteq owed,
         \A q \in owed' : offered'[q] = offered[q]
                          /\ (state[q] = "ESTABLISHED" => state'[q] = "ESTABLISHED"),
         offered' = offered \/ offered' = [offered EXCEPT ![s[k]] = 0],
         s[k] \in owed' => offered[s[k]] # 0
  PROVE  WalkOf(t)'
<1>1. /\ t \in Seq(Pcbs) /\ Len(s) \in Nat /\ Len(t) = Len(s) /\ t[1] = s[k] /\ s[k] \in Pcbs
      /\ \A i \in 2 .. Len(s) : t[i] = IF i <= k THEN s[i - 1] ELSE s[i]
  BY MovedFacts DEF MovedTo
<1>2. ASSUME NEW u \in Seq(Pcbs), NEW c \in 1 .. Len(s) + 1,
             pc # "pend", ~rough', LeadsTo(u, s, c), Offered(u, s, c)
      PROVE  \E d \in 1 .. Len(t) + 1 : LeadsTo(u, t, d)' /\ Offered(u, t, d)'
  <2>1. ~Disturbs(s[k])
    BY <1>2
  <2>2. u = <<>> /\ cpcb = At(s, c) /\ cpcb # s[k]
    BY <1>2, <2>1, Settled DEF Disturbs
  <2>3. k # c
    BY <2>2 DEF At
  <2>4. PICK d : d = IF k < c THEN c ELSE c + 1
    OBVIOUS
  <2>5. d \in 1 .. Len(t) + 1 /\ d # 1 /\ c \in Nat /\ k \in Nat
    BY <1>1, <2>3, <2>4
  <2>6. At(t, d) = At(s, c)
    <3>1. d \in 1 .. Len(t) <=> c \in 1 .. Len(s)
      BY <1>1, <2>3, <2>4
    <3>2. c \in 1 .. Len(s) => t[d] = s[c]
      BY <1>1, <2>3, <2>4
    <3> QED
      BY <3>1, <3>2 DEF At
  <2>7. LeadsTo(u, t, d)'
    <3>1. 1 .. Len(u) = {}
      BY <2>2
    <3> QED
      BY <1>2, <2>6, <3>1, LeadsNext
  <2>8. ASSUME NEW j \in 1 .. Len(t), t[j] \in owed'
        PROVE  \E i \in 1 .. Len(s) : /\ s[i] = t[j] /\ (i < c <=> j < d)
                                      /\ (u = <<>> /\ i = c <=> u = <<>> /\ j = d)
    <3>1. CASE j = 1
      <4>1. s[k] \in owed /\ offered[s[k]] # 0
        BY <1>1, <2>8, <3>1
      <4>2. k < c
        BY <1>2, <2>3, <4>1 DEF Offered
      <4> QED
        BY <1>1, <2>3, <2>4, <2>5, <3>1, <4>2
    <3>2. CASE j # 1 /\ j <= k
      <4>1. /\ j - 1 \in 1 .. Len(s) /\ s[j - 1] = t[j] /\ (j - 1 < c <=> j < d)
            /\ (j - 1 = c <=> j = d)
        BY <1>1, <2>3, <2>4, <2>5, <3>2
      <4> QED
        BY <4>1
    <3>3. CASE j # 1 /\ ~(j <= k)
      <4>1. j \in 1 .. Len(s) /\ s[j] = t[j] /\ (j < c <=> j < d) /\ (j = c <=> j = d)
        BY <1>1, <2>3, <2>4, <2>5, <3>3
      <4> QED
        BY <4>1
    <3> QED
      BY <3>1, <3>2, <3>3
  <2>9. Offered(u, t, d)'
    BY <1>2, <2>8, OfferedNext
  <2> QED
    BY <2>5, <2>7, <2>9
<1> QED
  BY <1>1, <1>2, WalkNext

\* A block taken out that is not the one the cursor comes to next.
LEMMA OutWalk ==
  ASSUME NEW s \in Seq(Pcbs), NEW k \in 1 .. Len(s), NEW t, t = Without(s, k),
         NEW u \in Seq(Pcbs), NEW c \in 1 .. Len(s) + 1, LeadsTo(u, s, c), Offered(u, s, c),
         k # c, pc' = pc, cpcb' = cpcb, owed' \subseteq owed,
         \A i \in 1 .. Len(u) : u[i] \notin Active' /\ active'.next[u[i]] = active.next[u[i]],
         \A q \in owed' : offered'[q] = offered[q]
                          /\ (state[q] = "ESTABLISHED" => state'[q] = "ESTABLISHED")
  PROVE  \E d \in 1 .. Len(t) + 1 : LeadsTo(u, t, d)' /\ Offered(u, t, d)'
<1>1. /\ t \in Seq(Pcbs) /\ Len(t) = Len(s) - 1 /\ Len(s) \in Nat /\ Len(s) > 0
      /\ \A i \in 1 .. Len(s) - 1 : t[i] = IF i < k THEN s[i] ELSE s[i + 1]
  <2>1. Shortened(t, s, k)
    BY WithoutFacts
  <2> QED
    BY <2>1 DEF Shortened
<1>2. PICK d : d = IF k < c THEN c - 1 ELSE c
  OBVIOUS
<1>3. d \in 1 .. Len(t) + 1 /\ c \in Nat /\ k \in Nat
  BY <1>1, <1>2
<1>4. At(t, d) = At(s, c)
  <2>1. d \in 1 .. Len(t) <=> c \in 1 .. Len(s)
    BY <1>1, <1>2
  <2>2. c \in 1 .. Len(s) => t[d] = s[c]
    BY <1>1, <1>2
  <2> QED
    BY <2>1, <2>2 DEF At
<1>5. LeadsTo(u, t, d)'
  BY <1>4, LeadsNext
<1>6. ASSUME NEW j \in 1 .. Len(t), t[j] \in owed'
      PROVE  \E i \in 1 .. Len(s) : /\ s[i] = t[j] /\ (i < c <=> j < d)
                                    /\ (u = <<>> /\ i = c <=> u = <<>> /\ j = d)
  <2>1. CASE j < k
    <3>1. j \in 1 .. Len(s) /\ s[j] = t[j] /\ (j < c <=> j < d) /\ (j = c <=> j = d)
      BY <1>1, <1>2, <1>3, <2>1
    <3> QED
      BY <3>1
  <2>2. CASE ~(j < k)
    <3>1. j + 1 \in 1 .. Len(s) /\ s[j + 1] = t[j] /\ (j + 1 < c <=> j < d) /\ (j + 1 = c <=> j = d)
      BY <1>1, <1>2, <1>3, <2>2
    <3> QED
      BY <3>1
  <2> QED
    BY <2>1, <2>2
<1>7. Offered(u, t, d)'
  BY <1>6, OfferedNext
<1> QED
  BY <1>3, <1>5, <1>7

\* The block the cursor comes to next is taken out by hand: it leads on.
LEMMA LedOn ==
  ASSUME NEW s \in Seq(Pcbs), NEW k \in 1 .. Len(s), NEW t, t = Without(s, k),
         NEW u \in Seq(Pcbs), LeadsTo(u, s, k), Offered(u, s, k), Once(s),
         pc' = pc, cpcb' = cpcb, owed' \subseteq owed \ {s[k]},
         \A i \in 1 .. Len(u) : u[i] \notin Active' /\ active'.next[u[i]] = active.next[u[i]],
         s[k] \notin Active', active'.next[s[k]] = At(s, k + 1),
         \A q \in owed' : offered'[q] = offered[q]
                          /\ (state[q] = "ESTABLISHED" => state'[q] = "ESTABLISHED")
  PROVE  \E v \in Seq(Pcbs) : LeadsTo(v, t, k)' /\ Offered(v, t, k)'
<1>1. /\ t \in Seq(Pcbs) /\ Len(t) = Len(s) - 1 /\ Len(s) \in Nat /\ Len(s) > 0
      /\ \A i \in 1 .. Len(s) - 1 : t[i] = IF i < k THEN s[i] ELSE s[i + 1]
  <2>1. Shortened(t, s, k)
    BY WithoutFacts
  <2> QED
    BY <2>1 DEF Shortened
<1>2. PICK v : v = Append(u, s[k])
  OBVIOUS
<1>3. /\ v \in Seq(Pcbs) /\ Len(u) \in Nat /\ Len(v) = Len(u) + 1 /\ v # <<>>
      /\ v[Len(u) + 1] = s[k] /\ \A i \in 1 .. Len(u) : v[i] = u[i]
  <2>1. s[k] \in Pcbs
    OBVIOUS
  <2> QED
    BY <1>2, <2>1
<1>4. At(s, k) = s[k]
  BY DEF At
<1>5. At(t, k) = At(s, k + 1)
  <2>1. k \in 1 .. Len(t) <=> k + 1 \in 1 .. Len(s)
    BY <1>1
  <2>2. k \in 1 .. Len(t) => t[k] = s[k + 1]
    BY <1>1
  <2> QED
    BY <2>1, <2>2 DEF At
<1>6. LeadsTo(v, t, k)'
  <2>1. cpcb' = v[1]
    <3>1. CASE u = <<>>
      BY <1>3, <1>4, <3>1 DEF LeadsTo
    <3>2. CASE u # <<>>
      <4>1. 1 \in 1 .. Len(u)
        BY <3>2
      <4> QED
        BY <1>3, <3>2, <4>1 DEF LeadsTo
    <3> QED
      BY <3>1, <3>2
  <2>2. ASSUME NEW i \in 1 .. Len(v)
        PROVE  /\ v[i] \notin Active'
               /\ active'.next[v[i]] = IF i = Len(v) THEN At(t, k) ELSE v[i + 1]
    <3>1. CASE i = Len(v)
      BY <1>3, <1>5, <3>1
    <3>2. CASE i # Len(v)
      <4>1. i \in 1 .. Len(u) /\ v[i] = u[i] /\ i + 1 \in 1 .. Len(u) + 1
        BY <1>3, <3>2
      <4>2. active.next[u[i]] = IF i = Len(u) THEN s[k] ELSE u[i + 1]
        BY <1>4, <4>1 DEF LeadsTo
      <4>3. i # Len(u) => i + 1 \in 1 .. Len(u)
        BY <4>1
      <4>4. v[i + 1] = IF i = Len(u) THEN s[k] ELSE u[i + 1]
        BY <1>3, <4>1, <4>3
      <4> QED
        BY <3>2, <4>1, <4>2, <4>4
    <3> QED
      BY <3>1, <3>2
  <2> QED
    BY <1>3, <2>1, <2>2 DEF LeadsTo
<1>7. ASSUME NEW j \in 1 .. Len(t), t[j] \in owed'
      PROVE  \E i \in 1 .. Len(s) : /\ s[i] = t[j] /\ (i < k <=> j < k)
                                    /\ (u = <<>> /\ i = k <=> v = <<>> /\ j = k)
  <2>1. CASE j < k
    <3>1. j \in 1 .. Len(s) /\ s[j] = t[j] /\ j # k
      BY <1>1, <2>1
    <3> QED
      BY <1>3, <3>1
  <2>2. CASE ~(j < k)
    <3>1. j + 1 \in 1 .. Len(s) /\ s[j + 1] = t[j] /\ ~(j + 1 < k) /\ j + 1 # k
      BY <1>1, <2>2
    <3> QED
      BY <1>3, <2>2, <3>1
  <2> QED
    BY <2>1, <2>2
<1>8. Offered(v, t, k)'
  BY <1>7, OfferedNext
<1> QED
  BY <1>3, <1>6, <1>8
-----------------------------------------------------------------------------
(* The list, and the walk along it, through every step *)

LEMMA InitOrder == Init => OrderInv /\ FreeLeadsOn
<1> SUFFICES ASSUME Init PROVE OrderInv /\ FreeLeadsOn
  OBVIOUS
<1>1. PICK e : e = <<>>
  OBVIOUS
<1>2. e \in Seq(Pcbs) /\ Len(e) = 0 /\ 1 .. Len(e) = {}
  BY <1>1
<1>3. PoolInv /\ Active = {} /\ active \in Lists /\ free \in Seq(Pcbs)
  BY InitPool DEF PoolInv, TypeOK
<1>4. active.head = Null /\ \A p \in Pcbs : active.next[p] = Null
  BY DEF Init
<1>5. Chain(active, e)
  BY <1>2, <1>4 DEF Chain, At
<1>6. InOrder(active) = e
  BY <1>2, <1>3, <1>5, OrderOfChain
<1>7. WalkOf(e)
  BY DEF Init, WalkOf
<1>8. ToSet(e) = {}
  <2>1. \A r : r \notin ToSet(e)
    BY <1>2, MembersOf
  <2> QED
    BY <2>1
<1>9. FreeLeadsOn
  BY <1>3, <1>4 DEF FreeLeadsOn
<1> QED
  BY <1>2, <1>3, <1>5, <1>6, <1>7, <1>8, <1>9 DEF OrderInv

\* The connections that a step of the thread leaves owed are open as they were.
LEMMA OthersOpen ==
  ASSUME PoolInv, NEW p \in Pcbs, Forget(p), NEW x,
         state' = [state EXCEPT ![p] = x] \/ state' = state
  PROVE  /\ owed' = owed \ {p} /\ owed' \subseteq owed /\ p \notin owed'
         /\ offered' = [offered EXCEPT ![p] = 0]
         /\ \A q \in owed' : offered'[q] = offered[q]
                             /\ (state[q] = "ESTABLISHED" => state'[q] = "ESTABLISHED")
<1>1. owed' = owed \ {p} /\ offered' = [offered EXCEPT ![p] = 0]
  BY DEF Forget
<1>2. owed \subseteq Pcbs /\ offered \in [Pcbs -> 0 .. 2] /\ state \in [Pcbs -> States]
  BY DEF PoolInv, TypeOK, Active
<1>3. ASSUME NEW q \in owed'
      PROVE  offered'[q] = offered[q] /\ (state[q] = "ESTABLISHED" => state'[q] = "ESTABLISHED")
  <2>1. q \in Pcbs /\ q # p
    BY <1>1, <1>2
  <2>2. offered'[q] = offered[q]
    BY <1>1, <1>2, <2>1
  <2>3. state'[q] = state[q]
    BY <1>2, <2>1
  <2> QED
    BY <2>2, <2>3
<1> QED
  BY <1>1, <1>3

LEMMA HoldsMoved ==
  ASSUME NEW A, NEW s \in Seq(Pcbs), Once(s), Holds(s, A), NEW k \in 1 .. Len(s),
         NEW t, t = Moved(s, k)
  PROVE  Holds(t, A)
<1>1. PICK w : w = Without(s, k)
  OBVIOUS
<1>2. w \in Seq(Pcbs) /\ Holds(w, A \ {s[k]})
  BY <1>1, WithoutOnce, HoldsWithout
<1>3. s[k] \in A /\ s[k] \in Pcbs
  BY DEF Holds
<1>4. Holds(t, (A \ {s[k]}) \cup {s[k]})
  BY <1>1, <1>2, <1>3, HoldsPushed DEF Moved
<1>5. (A \ {s[k]}) \cup {s[k]} = A
  BY <1>3
<1> QED
  BY <1>4, <1>5

LEMMA SynOrder ==
  ASSUME IInv, PoolInv', Syn
  PROVE  FreeLeadsOn' /\ OrderInv'
<1>1. PoolInv /\ FreeLeadsOn /\ OrderInv /\ active \in Lists /\ active' \in Lists
  BY DEF IInv, PoolInv, TypeOK
<1>2. PICK s \in Seq(Pcbs) : Chain(active, s) /\ WalkOf(s) /\ Holds(s, Active) /\ Once(s)
  BY <1>1, OrderFacts
<1>3. PICK p \in Pcbs \ Active :
        active' = Reg(active, p) /\ SetUp(p) /\ Active' = Active \cup {p}
  BY <1>1, SynPool
<1>4. PICK t : t = <<p>> \o s
  OBVIOUS
<1>5. t \in Seq(Pcbs)
  BY <1>4, PushFront
<1>6. \A i \in 1 .. Len(s) : s[i] # p
  BY <1>2, <1>3 DEF Holds
<1>7. Chain(active', t)
  BY <1>1, <1>2, <1>3, <1>4, <1>6, RegChain
<1>8. Holds(t, Active')
  BY <1>2, <1>3, <1>4, HoldsPushed
<1>9. /\ owed' = owed \ {p} /\ owed' \subseteq owed /\ p \notin owed'
      /\ offered' = [offered EXCEPT ![p] = 0]
      /\ \A q \in owed' : offered'[q] = offered[q]
                          /\ (state[q] = "ESTABLISHED" => state'[q] = "ESTABLISHED")
  BY <1>1, <1>3, OthersOpen DEF SetUp
<1>10. WalkOf(t)'
  <2>1. pc' = pc /\ cpcb' = cpcb /\ rough' = (rough \/ Disturbs(p))
    BY <1>3 DEF SetUp, walker
  <2> QED
    BY <1>2, <1>3, <1>4, <1>9, <2>1, PushedWalk
<1>11. FreeLeadsOn'
  BY <1>1, SynLeads
<1> QED
  BY <1>1, <1>5, <1>7, <1>8, <1>10, <1>11, OrderNext

LEMMA SynKillsOrder ==
  ASSUME IInv, PoolInv', SynKills
  PROVE  FreeLeadsOn' /\ OrderInv'
<1>1. PoolInv /\ OrderInv /\ active \in Lists /\ active' \in Lists
  BY DEF IInv, PoolInv, TypeOK
<1>2. PICK s \in Seq(Pcbs) : Chain(active, s) /\ WalkOf(s) /\ Holds(s, Active) /\ Once(s)
  BY <1>1, OrderFacts
<1>3. free = <<>> /\ free' = free /\ Active' = Active
  BY <1>1, SynKillsPool
<1>4. PICK p \in Active : active' = Reg(Rmv(active, p), p) /\ SetUp(p)
  BY <1>1, SynKillsPool
<1>5. PICK k \in 1 .. Len(s) : s[k] = p
  BY <1>2, <1>4 DEF Holds
<1>6. PICK t : t = Moved(s, k)
  OBVIOUS
<1>7. Chain(active', t)
  BY <1>1, <1>2, <1>4, <1>5, <1>6, MovedChain
<1>8. t \in Seq(Pcbs) /\ p \in Pcbs
  BY <1>5, <1>6, MovedFacts DEF MovedTo
<1>9. Holds(t, Active')
  BY <1>2, <1>3, <1>5, <1>6, HoldsMoved
<1>10. /\ owed' = owed \ {p} /\ owed' \subseteq owed /\ p \notin owed'
       /\ offered' = [offered EXCEPT ![p] = 0]
       /\ \A q \in owed' : offered'[q] = offered[q]
                           /\ (state[q] = "ESTABLISHED" => state'[q] = "ESTABLISHED")
  BY <1>1, <1>4, <1>8, OthersOpen DEF SetUp
<1>11. WalkOf(t)'
  <2>1. pc' = pc /\ cpcb' = cpcb /\ rough' = (rough \/ Disturbs(s[k]))
    BY <1>4, <1>5 DEF SetUp, walker
  <2> QED
    BY <1>2, <1>5, <1>6, <1>10, <2>1, MovedWalk
<1>12. FreeLeadsOn'
  BY <1>3 DEF FreeLeadsOn
<1> QED
  BY <1>1, <1>7, <1>8, <1>9, <1>11, <1>12, OrderNext
-----------------------------------------------------------------------------
LEMMA RemoveOrder ==
  ASSUME IInv, PoolInv', NEW p \in Active, RemovePcb(p)
  PROVE  FreeLeadsOn' /\ OrderInv'
<1>1. PoolInv /\ FreeLeadsOn /\ OrderInv /\ active \in Lists /\ active' \in Lists /\ p \in Pcbs
  BY DEF IInv, PoolInv, TypeOK, Active
<1>2. PICK s \in Seq(Pcbs) : Chain(active, s) /\ WalkOf(s) /\ Holds(s, Active) /\ Once(s)
  BY <1>1, OrderFacts
<1>3. PICK k \in 1 .. Len(s) : s[k] = p
  BY <1>2 DEF Holds
<1>4. PICK t : t = Without(s, k)
  OBVIOUS
<1>5. /\ active' = Rmv(active, p) /\ free' = <<p>> \o free /\ Forget(p)
      /\ pc' = pc /\ cpcb' = cpcb /\ rough' = (rough \/ Disturbs(p))
      /\ state' = [state EXCEPT ![p] = "CLOSED"]
  BY DEF RemovePcb, Release, walker
<1>6. /\ Chain(active', t) /\ active'.next[p] = Null
      /\ \A q \in Pcbs : (\A i \in 1 .. Len(s) : s[i] # q) => active'.next[q] = active.next[q]
  BY <1>1, <1>2, <1>3, <1>4, <1>5, RmvChain
<1>7. \A q \in Pcbs \ Active : active'.next[q] = active.next[q]
  BY <1>2, <1>6 DEF Holds
<1>8. Active' = Active \ {p}
  BY <1>1, <1>5, PushedFree DEF PoolInv, TypeOK
<1>9. t \in Seq(Pcbs) /\ Holds(t, Active')
  BY <1>2, <1>3, <1>4, <1>8, HoldsWithout, WithoutOnce
<1>10. FreeLeadsOn'
  BY <1>1, <1>5, <1>6, <1>7, EndsLead
<1>11. /\ owed' = owed \ {p} /\ owed' \subseteq owed
       /\ offered' = [offered EXCEPT ![p] = 0]
       /\ \A q \in owed' : offered'[q] = offered[q]
                           /\ (state[q] = "ESTABLISHED" => state'[q] = "ESTABLISHED")
  BY <1>1, <1>5, OthersOpen
<1>12. ASSUME NEW u \in Seq(Pcbs), NEW c \in 1 .. Len(s) + 1,
              pc # "pend", ~rough', LeadsTo(u, s, c), Offered(u, s, c)
       PROVE  \E v \in Seq(Pcbs), d \in 1 .. Len(t) + 1 : LeadsTo(v, t, d)' /\ Offered(v, t, d)'
  <2>1. ~Disturbs(p)
    BY <1>5, <1>12
  <2>2. u = <<>> /\ cpcb = At(s, c) /\ cpcb # p
    BY <1>12, <2>1, Settled DEF Disturbs
  <2>3. k # c
    BY <1>3, <2>2 DEF At
  <2>4. \A i \in 1 .. Len(u) : u[i] \notin Active' /\ active'.next[u[i]] = active.next[u[i]]
    <3>1. 1 .. Len(u) = {}
      BY <2>2
    <3> QED
      BY <3>1
  <2>5. pc' = pc /\ cpcb' = cpcb
    BY <1>5
  <2> QED
    BY <1>4, <1>11, <1>12, <2>3, <2>4, <2>5, OutWalk
<1>13. WalkOf(t)'
  BY <1>1, <1>2, <1>5, <1>9, <1>11, <1>12, WalkNext
<1> QED
  BY <1>1, <1>6, <1>9, <1>10, <1>13, OrderNext

\* Its block keeps its next, and so leads on what was about to come to it.
LEMMA TimedOutOrder ==
  ASSUME IInv, PoolInv', NEW p \in Pcbs, TimedOut(p)
  PROVE  FreeLeadsOn' /\ OrderInv'
<1>1. PoolInv /\ FreeLeadsOn /\ OrderInv /\ active \in Lists /\ active' \in Lists /\ p \in Active
  BY DEF IInv, PoolInv, TypeOK, TimedOut
<1>2. PICK s \in Seq(Pcbs) : Chain(active, s) /\ WalkOf(s) /\ Holds(s, Active) /\ Once(s)
  BY <1>1, OrderFacts
<1>3. PICK k \in 1 .. Len(s) : s[k] = p
  BY <1>1, <1>2 DEF Holds
<1>4. PICK t : t = Without(s, k)
  OBVIOUS
<1>5. /\ active' = Unlink(active, p) /\ free' = <<p>> \o free /\ Forget(p)
      /\ pc' = pc /\ cpcb' = cpcb /\ rough' = rough /\ state' = state
  BY DEF TimedOut, Release, walker
<1>6. /\ Chain(active', t) /\ active'.next[p] = At(s, k + 1)
      /\ \A q \in Pcbs : (\A i \in 1 .. Len(s) : s[i] # q) => active'.next[q] = active.next[q]
  BY <1>1, <1>2, <1>3, <1>4, <1>5, UnlinkChain
<1>7. \A q \in Pcbs \ Active : active'.next[q] = active.next[q]
  BY <1>2, <1>6 DEF Holds
<1>8. Active' = Active \ {p}
  BY <1>1, <1>5, PushedFree DEF PoolInv, TypeOK
<1>9. t \in Seq(Pcbs) /\ Holds(t, Active')
  BY <1>2, <1>3, <1>4, <1>8, HoldsWithout, WithoutOnce
<1>10. FreeLeadsOn'
  <2>1. At(s, k + 1) \in (Active \ {p}) \cup {Null}
    <3>1. CASE k + 1 \in 1 .. Len(s)
      <4>1. At(s, k + 1) = s[k + 1] /\ k + 1 # k
        BY <3>1 DEF At
      <4>2. s[k + 1] # s[k]
        BY <1>2, <3>1, <4>1 DEF Once
      <4> QED
        BY <1>2, <1>3, <3>1, <4>1, <4>2 DEF Holds
    <3>2. CASE k + 1 \notin 1 .. Len(s)
      BY <3>2 DEF At
    <3> QED
      BY <3>1, <3>2
  <2> QED
    BY <1>1, <1>5, <1>6, <1>7, <2>1, EndsLead
<1>11. /\ owed' = owed \ {p} /\ owed' \subseteq owed
       /\ offered' = [offered EXCEPT ![p] = 0]
       /\ \A q \in owed' : offered'[q] = offered[q]
                           /\ (state[q] = "ESTABLISHED" => state'[q] = "ESTABLISHED")
  BY <1>1, <1>5, OthersOpen
<1>12. ASSUME NEW u \in Seq(Pcbs), NEW c \in 1 .. Len(s) + 1, LeadsTo(u, s, c), Offered(u, s, c)
       PROVE  \E v \in Seq(Pcbs), d \in 1 .. Len(t) + 1 : LeadsTo(v, t, d)' /\ Offered(v, t, d)'
  <2>1. \A i \in 1 .. Len(u) : u[i] \notin Active' /\ active'.next[u[i]] = active.next[u[i]]
    <3>1. \A i \in 1 .. Len(u) : u[i] \in Pcbs \ Active
      BY <1>12 DEF LeadsTo
    <3> QED
      BY <1>7, <1>8, <3>1
  <2>2. CASE k # c
    BY <1>4, <1>5, <1>11, <1>12, <2>1, <2>2, OutWalk
  <2>3. CASE k = c
    <3>1. LeadsTo(u, s, k) /\ Offered(u, s, k)
      BY <1>12, <2>3
    <3>2. s[k] \notin Active' /\ active'.next[s[k]] = At(s, k + 1) /\ owed' \subseteq owed \ {s[k]}
      BY <1>3, <1>6, <1>8, <1>11
    <3>3. k \in 1 .. Len(t) + 1
      <4>1. Shortened(t, s, k)
        BY <1>4, WithoutFacts
      <4> QED
        BY <4>1 DEF Shortened
    <3> QED
      BY <1>2, <1>4, <1>5, <1>11, <2>1, <3>1, <3>2, <3>3, LedOn
  <2> QED
    BY <2>2, <2>3
<1>13. WalkOf(t)'
  BY <1>1, <1>2, <1>5, <1>9, <1>11, <1>12, WalkNext
<1> QED
  BY <1>1, <1>6, <1>9, <1>10, <1>13, OrderNext

\* A segment moves its connection to the front, or finds it there.
LEMMA TouchOrder ==
  ASSUME IInv, PoolInv', NEW p \in Pcbs, Touch(p), owed' \subseteq owed,
         \A q \in owed' : offered'[q] = offered[q]
                          /\ (state[q] = "ESTABLISHED" => state'[q] = "ESTABLISHED"),
         offered' = offered \/ offered' = [offered EXCEPT ![p] = 0],
         active.head # p /\ p \in owed' => offered[p] # 0
  PROVE  FreeLeadsOn' /\ OrderInv'
<1>1. /\ PoolInv /\ FreeLeadsOn /\ OrderInv /\ active \in Lists /\ active' \in Lists
      /\ p \in Active /\ free \in Seq(Pcbs)
  BY DEF IInv, PoolInv, TypeOK, Touch
<1>2. PICK s \in Seq(Pcbs) : Chain(active, s) /\ WalkOf(s) /\ Holds(s, Active) /\ Once(s)
  BY <1>1, OrderFacts
<1>3. /\ active' = ToFront(active, p) /\ free' = free /\ pc' = pc /\ cpcb' = cpcb
      /\ rough' = (rough \/ (active.head # p /\ Disturbs(p)))
  BY DEF Touch, walker
<1>4. Active' = Active
  BY <1>3 DEF Active
<1>5. CASE active.head = p
  <2>1. active' = active
    BY <1>3, <1>5 DEF ToFront
  <2>2. rough' = rough
    <3>1. rough \in BOOLEAN
      BY <1>1 DEF PoolInv, TypeOK
    <3> QED
      BY <1>3, <1>5, <3>1, Zenon
  <2>3. WalkOf(s)'
    BY <1>2, <1>3, <1>4, <2>1, <2>2, QuietWalk
  <2>4. FreeLeadsOn'
    BY <1>1, <1>3, <1>4, <2>1, SameLeads
  <2> QED
    BY <1>1, <1>2, <1>4, <2>1, <2>3, <2>4, OrderNext
<1>6. CASE active.head # p
  <2>1. active' = Reg(Unlink(active, p), p)
    BY <1>3, <1>6 DEF ToFront
  <2>2. rough' = (rough \/ Disturbs(p))
    BY <1>3, <1>6, Zenon
  <2>3. PICK k \in 1 .. Len(s) : s[k] = p
    BY <1>1, <1>2 DEF Holds
  <2>4. PICK t : t = Moved(s, k)
    OBVIOUS
  <2>5. /\ Chain(active', t)
        /\ \A q \in Pcbs : (\A i \in 1 .. Len(s) : s[i] # q) => active'.next[q] = active.next[q]
    BY <1>1, <1>2, <2>1, <2>3, <2>4, MovedChain
  <2>6. t \in Seq(Pcbs) /\ Holds(t, Active')
    BY <1>2, <1>4, <2>4, MovedFacts, HoldsMoved DEF MovedTo
  <2>7. WalkOf(t)'
    BY <1>2, <1>3, <1>6, <2>2, <2>3, <2>4, MovedWalk
  <2>8. FreeLeadsOn'
    <3>1. \A q \in Pcbs \ Active : active'.next[q] = active.next[q]
      BY <1>2, <2>5 DEF Holds
    <3> QED
      BY <1>1, <1>3, <1>4, <3>1, SameLeads
  <2> QED
    BY <1>1, <2>5, <2>6, <2>7, <2>8, OrderNext
<1> QED
  BY <1>5, <1>6

LEMMA SegmentOrder ==
  ASSUME IInv, PoolInv', NEW p \in Pcbs, Segment(p) \/ Accept(p) \/ Fin(p)
  PROVE  FreeLeadsOn' /\ OrderInv'
<1>1. PoolInv /\ offered \in [Pcbs -> 0 .. 2] /\ state \in [Pcbs -> States] /\ owed \subseteq Pcbs
  BY DEF IInv, PoolInv, TypeOK, Active
<1>2. CASE Segment(p) \/ Accept(p)
  <2>1. /\ Touch(p) /\ owed' \subseteq owed /\ offered' = offered
        /\ owed' = IF active.head # p /\ offered[p] = 0 THEN owed \ {p} ELSE owed
        /\ state' = state \/ state' = [state EXCEPT ![p] = "ESTABLISHED"]
    BY <1>2 DEF Segment, Accept, MissesIfMoved
  <2>2. \A q \in owed' : offered'[q] = offered[q]
                         /\ (state[q] = "ESTABLISHED" => state'[q] = "ESTABLISHED")
    BY <1>1, <2>1
  <2>3. active.head # p /\ p \in owed' => offered[p] # 0
    BY <2>1
  <2> QED
    BY <2>1, <2>2, <2>3, TouchOrder
<1>3. CASE Fin(p)
  <2>1. Touch(p) /\ Forget(p) /\ state' = [state EXCEPT ![p] = "CLOSE_WAIT"]
    BY <1>3 DEF Fin
  <2>2. /\ owed' \subseteq owed /\ p \notin owed' /\ offered' = [offered EXCEPT ![p] = 0]
        /\ \A q \in owed' : offered'[q] = offered[q]
                            /\ (state[q] = "ESTABLISHED" => state'[q] = "ESTABLISHED")
    BY <1>1, <2>1, OthersOpen
  <2> QED
    BY <2>1, <2>2, TouchOrder
<1> QED
  BY <1>2, <1>3
-----------------------------------------------------------------------------
\* The walk owes nothing to the connection that is being closed.
LEMMA CloseOrder ==
  ASSUME IInv, PoolInv', Close
  PROVE  FreeLeadsOn' /\ OrderInv'
<1>1. /\ PoolInv /\ FreeLeadsOn /\ OrderInv /\ HalfOpenOnlyIfRefused
      /\ active \in Lists /\ free \in Seq(Pcbs) /\ state \in [Pcbs -> States]
      /\ owed \subseteq Active /\ closing \in Pcbs
  BY DEF IInv, HalfInv, PoolInv, TypeOK, Close
<1>2. PICK s \in Seq(Pcbs) : Chain(active, s) /\ WalkOf(s) /\ Holds(s, Active)
  BY <1>1, OrderFacts
<1>3. /\ active' = active /\ free' = free /\ UNCHANGED <<pc, cpcb, rough>> /\ owed' = owed
      /\ offered' = offered /\ (state' = [state EXCEPT ![closing] = "LAST_ACK"] \/ state' = state)
  BY DEF Close, walker
<1>4. Active' = Active
  BY <1>3 DEF Active
<1>5. ASSUME NEW q \in owed'
      PROVE  offered'[q] = offered[q] /\ (state[q] = "ESTABLISHED" => state'[q] = "ESTABLISHED")
  <2>1. q \in Active /\ q \in Pcbs
    BY <1>1, <1>3 DEF Active
  <2>2. CASE q = closing
    BY <1>1, <1>3, <2>1, <2>2 DEF HalfOpenOnlyIfRefused
  <2>3. CASE q # closing
    BY <1>1, <1>3, <2>1, <2>3
  <2> QED
    BY <2>2, <2>3
<1>6. WalkOf(s)'
  BY <1>1, <1>2, <1>3, <1>4, <1>5, QuietWalk
<1>7. FreeLeadsOn'
  BY <1>1, <1>3, <1>4, SameLeads
<1> QED
  BY <1>1, <1>2, <1>3, <1>4, <1>6, <1>7, OrderNext

\* The task's steps along the list, and along the blocks that lead to it.
LEMMA StartLeads ==
  ASSUME PoolInv, NEW s \in Seq(Pcbs), Chain(active, s), WalkOf(s), StartWalk
  PROVE  WalkOf(s)'
<1>1. /\ cpcb' = At(s, 1) /\ pc' = "test" /\ state' = state /\ Len(s) \in Nat
      /\ owed' = {p \in Active : state[p] = "ESTABLISHED"}
      /\ offered' = [p \in Pcbs |-> 0]
  BY DEF StartWalk, WalkOf, tcp, Chain
<1>2. PICK u : u = <<>>
  OBVIOUS
<1>3. u \in Seq(Pcbs) /\ 1 .. Len(u) = {} /\ 1 \in 1 .. Len(s) + 1
  BY <1>1, <1>2
<1>4. LeadsTo(u, s, 1)'
  BY <1>1, <1>2, <1>3 DEF LeadsTo
<1>5. ASSUME NEW i \in 1 .. Len(s), s[i] \in owed'
      PROVE  /\ state'[s[i]] = "ESTABLISHED"
             /\ offered'[s[i]] = IF i < 1 \/ (u = <<>> /\ i = 1 /\ pc' = "advance") THEN 1 ELSE 0
  BY <1>1, <1>5
<1>6. Offered(u, s, 1)'
  BY <1>5 DEF Offered
<1> QED
  BY <1>1, <1>3, <1>4, <1>6 DEF WalkOf

LEMMA CheckLeads ==
  ASSUME PoolInv, Check, NEW s \in Seq(Pcbs), NEW u \in Seq(Pcbs), NEW c \in 1 .. Len(s) + 1,
         LeadsTo(u, s, c), Offered(u, s, c)
  PROVE  LeadsTo(u, s, c)' /\ Offered(u, s, c)'
<1>1. /\ pc = "test" /\ cpcb # Null /\ cpcb' = cpcb /\ state' = state /\ active' = active
      /\ free' = free /\ owed' = owed /\ offered' = offered
      /\ pc' = IF state[cpcb] \in {"SYN_RCVD", "ESTABLISHED", "CLOSE_WAIT"}
                 THEN "enqueue" ELSE "advance"
  BY DEF Check, history, tcp
<1>2. LeadsTo(u, s, c)'
  BY <1>1 DEF LeadsTo, Active
<1>3. ASSUME NEW i \in 1 .. Len(s), s[i] \in owed
      PROVE  /\ state[s[i]] = "ESTABLISHED"
             /\ offered[s[i]] = IF i < c \/ (u = <<>> /\ i = c /\ pc' = "advance") THEN 1 ELSE 0
  <2>1. state[s[i]] = "ESTABLISHED" /\ offered[s[i]] = IF i < c THEN 1 ELSE 0
    BY <1>1, <1>3 DEF Offered
  <2>2. u = <<>> /\ i = c => pc' = "enqueue"
    BY <1>1, <2>1 DEF LeadsTo, At
  <2> QED
    BY <2>1, <2>2
<1> QED
  BY <1>1, <1>2, <1>3 DEF Offered

LEMMA EnqueueLeads ==
  ASSUME PoolInv, Enqueue, NEW s \in Seq(Pcbs), Once(s), NEW u \in Seq(Pcbs),
         NEW c \in 1 .. Len(s) + 1, LeadsTo(u, s, c), Offered(u, s, c)
  PROVE  LeadsTo(u, s, c)' /\ Offered(u, s, c)'
<1>1. /\ pc = "enqueue" /\ cpcb # Null /\ cpcb \in Pcbs /\ cpcb' = cpcb /\ state' = state
      /\ active' = active /\ free' = free /\ owed' = owed /\ pc' = "advance"
      /\ offered' = [offered EXCEPT ![cpcb] = IF cpcb \in owed /\ @ < 2 THEN @ + 1 ELSE @]
      /\ offered \in [Pcbs -> 0 .. 2] /\ owed \subseteq Active
  BY DEF PoolInv, TypeOK, Enqueue, tcp
<1>2. LeadsTo(u, s, c)'
  BY <1>1 DEF LeadsTo, Active
<1>3. ASSUME NEW i \in 1 .. Len(s), s[i] \in owed
      PROVE  /\ state[s[i]] = "ESTABLISHED"
             /\ offered'[s[i]] = IF i < c \/ (u = <<>> /\ i = c) THEN 1 ELSE 0
  <2>1. state[s[i]] = "ESTABLISHED" /\ offered[s[i]] = IF i < c THEN 1 ELSE 0
    BY <1>1, <1>3 DEF Offered
  <2>2. CASE u = <<>>
    <3>1. c \in 1 .. Len(s) /\ cpcb = s[c]
      BY <1>1, <2>2 DEF LeadsTo, At
    <3>2. CASE i = c
      <4>1. s[i] = cpcb /\ offered[cpcb] = 0 /\ cpcb \in owed
        BY <1>3, <2>1, <3>1, <3>2
      <4>2. offered'[cpcb] = 1
        BY <1>1, <4>1
      <4> QED
        BY <2>1, <2>2, <3>2, <4>1, <4>2
    <3>3. CASE i # c
      <4>1. s[i] # cpcb /\ s[i] \in Pcbs
        BY <3>1, <3>3 DEF Once
      <4>2. offered'[s[i]] = offered[s[i]]
        BY <1>1, <4>1
      <4> QED
        BY <2>1, <3>3, <4>2
    <3> QED
      BY <3>2, <3>3
  <2>3. CASE u # <<>>
    <3>1. 1 \in 1 .. Len(u)
      BY <2>3
    <3>2. cpcb \notin owed
      BY <1>1, <2>3, <3>1 DEF LeadsTo
    <3>3. offered'[s[i]] = offered[s[i]]
      BY <1>1, <3>2
    <3> QED
      BY <2>1, <2>3, <3>3
  <2> QED
    BY <2>2, <2>3
<1>4. Offered(u, s, c)'
  BY <1>1, <1>3 DEF Offered
<1> QED
  BY <1>2, <1>4

LEMMA AdvanceLeads ==
  ASSUME PoolInv, Advance, NEW s \in Seq(Pcbs), Chain(active, s), NEW u \in Seq(Pcbs),
         NEW c \in 1 .. Len(s) + 1, LeadsTo(u, s, c), Offered(u, s, c)
  PROVE  \E v \in Seq(Pcbs), d \in 1 .. Len(s) + 1 : LeadsTo(v, s, d)' /\ Offered(v, s, d)'
<1>1. /\ pc = "advance" /\ pc' = "test" /\ cpcb # Null /\ cpcb' = active.next[cpcb]
      /\ state' = state /\ active' = active /\ free' = free /\ owed' = owed
      /\ offered' = offered /\ Len(s) \in Nat /\ c \in Nat
  BY DEF PoolInv, TypeOK, Advance, history, tcp
<1>2. Active' = Active
  BY <1>1 DEF Active
<1>3. CASE u = <<>>
  <2>1. c \in 1 .. Len(s) /\ cpcb = s[c]
    BY <1>1, <1>3 DEF LeadsTo, At
  <2>2. cpcb' = At(s, c + 1) /\ c + 1 \in 1 .. Len(s) + 1 /\ 1 .. Len(u) = {}
    BY <1>1, <1>3, <2>1 DEF Chain
  <2>3. LeadsTo(u, s, c + 1)'
    BY <1>3, <2>2 DEF LeadsTo
  <2>4. ASSUME NEW i \in 1 .. Len(s), s[i] \in owed
        PROVE  state[s[i]] = "ESTABLISHED" /\ offered[s[i]] = IF i < c + 1 THEN 1 ELSE 0
    <3>1. /\ state[s[i]] = "ESTABLISHED"
          /\ offered[s[i]] = IF i < c \/ i = c THEN 1 ELSE 0
      BY <1>1, <1>3, <2>4 DEF Offered
    <3>2. i < c + 1 <=> i < c \/ i = c
      BY <1>1
    <3> QED
      BY <3>1, <3>2
  <2>5. Offered(u, s, c + 1)'
    BY <1>1, <2>4 DEF Offered
  <2> QED
    BY <2>2, <2>3, <2>5
<1>4. CASE u # <<>>
  <2>1. PICK v : v = Tail(u)
    OBVIOUS
  <2>2. /\ v \in Seq(Pcbs) /\ Len(u) \in Nat /\ Len(u) > 0 /\ Len(v) = Len(u) - 1
        /\ \A i \in 1 .. Len(v) : v[i] = u[i + 1]
    BY <1>4, <2>1
  <2>3. 1 \in 1 .. Len(u) /\ (v = <<>> <=> 1 = Len(u)) /\ (v # <<>> => 1 \in 1 .. Len(v))
    BY <2>2
  <2>4. cpcb' = IF v = <<>> THEN At(s, c) ELSE v[1]
    <3>1. cpcb' = IF 1 = Len(u) THEN At(s, c) ELSE u[2]
      <4>1. cpcb = u[1]
        BY <1>4 DEF LeadsTo
      <4>2. active.next[u[1]] = IF 1 = Len(u) THEN At(s, c) ELSE u[1 + 1]
        BY <2>3 DEF LeadsTo
      <4> QED
        BY <1>1, <4>1, <4>2
    <3>2. v # <<>> => v[1] = u[2]
      BY <2>2, <2>3
    <3> QED
      BY <2>3, <3>1, <3>2
  <2>5. ASSUME NEW i \in 1 .. Len(v)
        PROVE  /\ v[i] \notin Active
               /\ active.next[v[i]] = IF i = Len(v) THEN At(s, c) ELSE v[i + 1]
    <3>1. i + 1 \in 1 .. Len(u) /\ v[i] = u[i + 1] /\ (i + 1 = Len(u) <=> i = Len(v))
      BY <2>2
    <3>2. i # Len(v) => v[i + 1] = u[(i + 1) + 1]
      BY <2>2
    <3>3. /\ u[i + 1] \notin Active
          /\ active.next[u[i + 1]] = IF i + 1 = Len(u) THEN At(s, c) ELSE u[(i + 1) + 1]
      BY <3>1 DEF LeadsTo
    <3> QED
      BY <3>1, <3>2, <3>3
  <2>6. LeadsTo(v, s, c)'
    BY <1>1, <1>2, <2>4, <2>5 DEF LeadsTo
  <2>7. Offered(v, s, c)'
    BY <1>1, <1>4 DEF Offered
  <2> QED
    BY <2>2, <2>6, <2>7
<1> QED
  BY <1>3, <1>4

LEMMA TaskOrder ==
  ASSUME IInv, PoolInv', TaskStep
  PROVE  FreeLeadsOn' /\ OrderInv'
<1>1. PoolInv /\ FreeLeadsOn /\ OrderInv /\ active \in Lists /\ free \in Seq(Pcbs)
  BY DEF IInv, PoolInv, TypeOK
<1>2. PICK s \in Seq(Pcbs) : Chain(active, s) /\ WalkOf(s) /\ Holds(s, Active) /\ Once(s)
  BY <1>1, OrderFacts
<1>3. active' = active /\ free' = free
  BY DEF TaskStep, StartWalk, EndWalk, Check, Enqueue, Advance, tcp
<1>4. Active' = Active
  BY <1>3 DEF Active
<1>5. WalkOf(s)'
  <2>1. CASE StartWalk
    BY <1>1, <1>2, <2>1, StartLeads
  <2>2. CASE EndWalk
    BY <2>2 DEF EndWalk, WalkOf
  <2>3. CASE Check \/ Enqueue \/ Advance
    <3>1. pc # "pend" /\ pc' # "pend" /\ rough' = rough
      BY <2>3 DEF Check, Enqueue, Advance, history
    <3>2. ASSUME NEW u \in Seq(Pcbs), NEW c \in 1 .. Len(s) + 1, LeadsTo(u, s, c), Offered(u, s, c)
          PROVE  \E v \in Seq(Pcbs), d \in 1 .. Len(s) + 1 : LeadsTo(v, s, d)' /\ Offered(v, s, d)'
      <4>1. CASE Check
        BY <1>1, <3>2, <4>1, CheckLeads
      <4>2. CASE Enqueue
        BY <1>1, <1>2, <3>2, <4>2, EnqueueLeads
      <4>3. CASE Advance
        BY <1>1, <1>2, <3>2, <4>3, AdvanceLeads
      <4> QED
        BY <2>3, <4>1, <4>2, <4>3
    <3>3. ~rough' => \E v \in Seq(Pcbs), d \in 1 .. Len(s) + 1 :
                       LeadsTo(v, s, d)' /\ Offered(v, s, d)'
      <4>1. ~rough => \E u \in Seq(Pcbs), c \in 1 .. Len(s) + 1 :
                        LeadsTo(u, s, c) /\ Offered(u, s, c)
        BY <1>2, <3>1 DEF WalkOf
      <4> QED
        BY <3>1, <3>2, <4>1
    <3> QED
      BY <3>1, <3>3 DEF WalkOf
  <2> QED
    BY <2>1, <2>2, <2>3 DEF TaskStep
<1>6. FreeLeadsOn'
  BY <1>1, <1>3, <1>4, SameLeads
<1> QED
  BY <1>1, <1>2, <1>3, <1>4, <1>5, <1>6, OrderNext

LEMMA StepOrder == IInv /\ [Next]_vars => FreeLeadsOn' /\ OrderInv'
<1> SUFFICES ASSUME IInv, [Next]_vars PROVE FreeLeadsOn' /\ OrderInv'
  OBVIOUS
<1>1. PoolInv'
  BY StepPool
<1>2. CASE Syn \/ SynKills
  BY <1>1, <1>2, SynOrder, SynKillsOrder
<1>3. CASE Close
  BY <1>1, <1>3, CloseOrder
<1>4. ASSUME NEW p \in Pcbs, Handled(p) PROVE FreeLeadsOn' /\ OrderInv'
  <2>1. CASE Segment(p) \/ Accept(p) \/ Fin(p)
    BY <1>1, <2>1, SegmentOrder
  <2>2. CASE LastAck(p) \/ Abort(p)
    <3>1. p \in Active /\ RemovePcb(p)
      BY <2>2 DEF LastAck, Abort
    <3> QED
      BY <1>1, <3>1, RemoveOrder
  <2>3. CASE TimedOut(p)
    BY <1>1, <2>3, TimedOutOrder
  <2> QED
    BY <1>4, <2>1, <2>2, <2>3 DEF Handled
<1>5. CASE TaskStep
  BY <1>1, <1>5, TaskOrder
<1>6. CASE UNCHANGED vars
  <2>1. /\ UNCHANGED <<active, free, state, pc, cpcb, owed, offered, rough>>
        /\ FreeLeadsOn /\ OrderInv /\ PoolInv /\ active \in Lists /\ free \in Seq(Pcbs)
    BY <1>6 DEF vars, tcp, walker, history, IInv, PoolInv, TypeOK
  <2>2. Active' = Active
    BY <2>1 DEF Active
  <2>3. PICK s \in Seq(Pcbs) : Chain(active, s) /\ WalkOf(s) /\ Holds(s, Active)
    BY <2>1, OrderFacts
  <2>4. WalkOf(s)'
    BY <2>1, <2>2, <2>3 DEF WalkOf, LeadsTo, Offered
  <2>5. FreeLeadsOn'
    BY <2>1, <2>2, SameLeads
  <2> QED
    BY <2>1, <2>2, <2>3, <2>4, <2>5, OrderNext
<1> QED
  BY <1>2, <1>3, <1>4, <1>5, <1>6 DEF Next, ThreadStep

-----------------------------------------------------------------------------
(* Theorems of the specification *)

LEMMA Invariant == Spec => []IInv
<1>1. Init => IInv
  <2>1. Init => HalfInv
    <3>1. Init => Active = {} /\ closing = Null /\ refused = {}
      BY InitPool DEF Init
    <3> QED
      BY <3>1 DEF HalfInv, HalfOpenOnlyIfRefused, ClosedOnce
  <2> QED
    BY <2>1, InitPool, InitOrder DEF IInv
<1>2. IInv /\ [Next]_vars => IInv'
  BY StepPool, StepHalf, StepOrder DEF IInv
<1> QED
  BY <1>1, <1>2, PTL DEF Spec

\* Whatever the number of control blocks, every variable keeps its type; in
\* particular the task never uses a cursor that is NULL.
THEOREM TypeCorrect == Spec => []TypeOK
<1>1. IInv => TypeOK
  BY DEF IInv, PoolInv
<1> QED
  BY <1>1, Invariant, PTL

\* However connections come, go and are moved to the front under its cursor,
\* and whichever blocks are freed under it with their next kept (tcp_slowtmr)
\* or cleared (TCP_RMV), the links lead the walking task to the end of the list.
THEOREM CursorIsNeverCaught == Spec => []CursorFindsTheEnd
<1>1. IInv => CursorFindsTheEnd
  BY OrderFacts, CursorEnds DEF IInv, PoolInv
<1> QED
  BY <1>1, Invariant, PTL

\* A connection whose client has gone is half open only while its receive
\* callback runs or after tcp_close found no memory.
THEOREM HalfOpenOnlyByRefusal == Spec => []HalfOpenOnlyIfRefused
<1>1. IInv => HalfOpenOnlyIfRefused
  BY DEF IInv, HalfInv
<1> QED
  BY <1>1, Invariant, PTL

\* However connections come, go, are aborted and moved, every control block is
\* either on the list of open connections, once, or on the free list, once,
\* and the list ends (tcp_alloc, tcp_kill_prio, tcp_input, tcp_slowtmr,
\* TCP_REG, TCP_RMV, memp_malloc and memp_free).
THEOREM PoolPartitioned == Spec => []PoolIsPartitioned
<1>1. IInv => PoolIsPartitioned
  <2> SUFFICES ASSUME IInv PROVE PoolIsPartitioned
    OBVIOUS
  <2>1. FreeOnce /\ NoneClosed /\ OrderInv /\ active \in Lists /\ free \in Seq(Pcbs)
    BY DEF IInv, PoolInv, TypeOK
  <2>2. PICK s \in Seq(Pcbs) : s = InOrder(active) /\ Chain(active, s) /\ ToSet(s) = Active
    BY <2>1 DEF OrderInv
  <2>3. Nth(active)[Cardinality(Pcbs)] = Null
    BY <2>1, <2>2, OrderOfChain
  <2>4. IsInjective(s)
    <3>1. DOMAIN s = 1 .. Len(s)
      OBVIOUS
    <3> QED
      BY <2>2, <3>1 DEF Chain, IsInjective
  <2>5. IsInjective(free)
    <3>1. DOMAIN free = 1 .. Len(free)
      BY <2>1
    <3> QED
      BY <2>1, <3>1 DEF FreeOnce, IsInjective
  <2> QED
    BY <2>1, <2>2, <2>3, <2>4, <2>5 DEF PoolIsPartitioned, NoneClosed
<1> QED
  BY <1>1, Invariant, PTL

\* At the end of a walk every connection that was there throughout has been
\* offered the frame, once, unless tcp_input moved it to the front before its
\* turn, and provided the cursor's own block was not moved, removed by TCP_RMV
\* or given away, nor any while the cursor was on a block off the list; that
\* tcp_slowtmr takes blocks out, even the cursor's, and that others come, go
\* and move does no harm (the loops of RS232_to_TCP_task and RS485_to_TCP_task).
THEOREM SentOnce == Spec => SentToAllOnce
<1>1. ASSUME IInv, EndWalk, ~rough PROVE \A p \in owed : offered[p] = 1
  <2>1. PICK s \in Seq(Pcbs) : Chain(active, s) /\ WalkOf(s) /\ Holds(s, Active)
    BY <1>1, OrderFacts DEF IInv
  <2>2. pc = "test" /\ cpcb = Null /\ owed \subseteq Active
    BY <1>1 DEF EndWalk, IInv, PoolInv, TypeOK
  <2>3. PICK u \in Seq(Pcbs), c \in 1 .. Len(s) + 1 : LeadsTo(u, s, c) /\ Offered(u, s, c)
    BY <1>1, <2>1, <2>2 DEF WalkOf
  <2>4. Len(s) \in Nat /\ c \in Nat /\ cpcb = At(s, c)
    BY <2>2, <2>3, Settled
  <2>5. c \notin 1 .. Len(s)
    BY <2>2, <2>4, AtFacts
  <2> SUFFICES ASSUME NEW p \in owed PROVE offered[p] = 1
    OBVIOUS
  <2>6. PICK i \in 1 .. Len(s) : s[i] = p
    BY <2>1, <2>2 DEF Holds
  <2>7. i < c
    BY <2>4, <2>5
  <2> QED
    BY <2>3, <2>6, <2>7 DEF Offered
<1>2. IInv => [EndWalk /\ ~rough => \A p \in owed : offered[p] = 1]_vars
  BY <1>1
<1> QED
  BY <1>2, Invariant, PTL DEF SentToAllOnce
-----------------------------------------------------------------------------
(* The connection that tcp_kill_prio aborts *)

Best == [pcb : Pcbs \cup {Null}, mprio : Nat, idle : Nat]

NoneYet == [pcb |-> Null, mprio |-> 64, idle |-> 0]

LEMMA BetterFacts ==
  ASSUME prio \in [Active -> 1 .. 64], NEW idle \in [Pcbs -> Nat], NEW b \in Best,
         NEW p \in Active
  PROVE  /\ prio[p] \in 1 .. 64 /\ idle[p] \in Nat
         /\ b.mprio \in Nat /\ b.idle \in Nat /\ b.pcb \in Pcbs \cup {Null}
         /\ Better(idle, b, p) \in Best
         /\ prio[p] <= b.mprio /\ idle[p] >= b.idle
              => /\ Better(idle, b, p).pcb = p
                 /\ Better(idle, b, p).mprio = prio[p]
                 /\ Better(idle, b, p).idle = idle[p]
         /\ ~(prio[p] <= b.mprio /\ idle[p] >= b.idle) => Better(idle, b, p) = b
<1>1. prio[p] \in 1 .. 64 /\ p \in Pcbs
  BY DEF Active
<1>2. b.mprio \in Nat /\ b.idle \in Nat /\ b.pcb \in Pcbs \cup {Null} /\ idle[p] \in Nat
  BY <1>1 DEF Best
<1> DEFINE m == prio[p]
           c == [pcb |-> p, mprio |-> m, idle |-> idle[p]]
<1>3. c \in Best /\ c.pcb = p /\ c.mprio = m /\ c.idle = idle[p]
  <2>1. m \in Nat /\ p \in Pcbs
    BY <1>1
  <2> HIDE DEF m
  <2> QED
    BY <1>2, <2>1 DEF Best
<1>4. Better(idle, b, p) = IF prio[p] <= b.mprio /\ idle[p] >= b.idle THEN c ELSE b
  BY Zenon DEF Better
<1> HIDE DEF c, m
<1>5. CASE prio[p] <= b.mprio /\ idle[p] >= b.idle
  BY <1>1, <1>2, <1>3, <1>4, <1>5, Zenon DEF m
<1>6. CASE ~(prio[p] <= b.mprio /\ idle[p] >= b.idle)
  BY <1>1, <1>2, <1>4, <1>6, Zenon
<1> QED
  BY <1>5, <1>6, Zenon

\* The best connection after each of those of q.
Scan(f, idle, q) ==
  /\ f \in [0 .. Len(q) -> Best] /\ f[0] = NoneYet
  /\ \A k \in 1 .. Len(q) : f[k] = Better(idle, f[k - 1], q[k])

LEMMA VictimScans ==
  ASSUME prio \in [Active -> 1 .. 64], NEW idle \in [Pcbs -> Nat], NEW q \in Seq(Pcbs),
         q = InOrder(active), \A i \in 1 .. Len(q) : q[i] \in Active
  PROVE  \E f : Scan(f, idle, q) /\ Victim(idle) = f[Len(q)].pcb
<1> DEFINE n == Len(q)
           Iter(h) == h = [s \in SUBSET (1 .. n) |->
                             IF s = {} THEN NoneYet
                             ELSE Better(idle, h[s \ {Max(s)}], q[Max(s)])]
           iter == CHOOSE h : Iter(h)
<1>1. n \in Nat /\ DOMAIN q = 1 .. n /\ \A i \in 1 .. n : q[i] \in Active
  OBVIOUS
<1>2. Victim(idle) = iter[1 .. n].pcb
  BY <1>1, Zenon DEF Victim, FoldLeft, MapThenFoldSet, NoneYet
<1>3. \E h : Iter(h)
  <2> DEFINE g == [x \in Best \X (1 .. n) |-> Better(idle, x[1], q[x[2]])]
  <2>1. g \in [Best \X (1 .. n) -> Best]
    BY <1>1, BetterFacts
  <2>2. \A x \in Best, i \in 1 .. n : g[<<x, i>>] = Better(idle, x, q[i])
    OBVIOUS
  <2>3. NoneYet \in Best
    BY DEF NoneYet, Best
  <2> HIDE DEF g, n
  <2>4. PICK h \in [SUBSET (1 .. n) -> Best] : Folds(h, n, NoneYet, g)
    BY <1>1, <2>1, <2>3, FoldExists, Zenon
  <2>5. ASSUME NEW s \in SUBSET (1 .. n)
        PROVE  h[s] = IF s = {} THEN NoneYet ELSE Better(idle, h[s \ {Max(s)}], q[Max(s)])
    <3>1. h[s] = IF s = {} THEN NoneYet ELSE g[<<h[s \ {Max(s)}], Max(s)>>]
      BY <2>4, Zenon DEF Folds
    <3>2. CASE s = {}
      BY <3>1, <3>2
    <3>3. CASE s # {}
      <4>1. Max(s) \in 1 .. n /\ h[s \ {Max(s)}] \in Best
        BY <1>1, <3>3, TopPlace
      <4> QED
        BY <2>2, <3>1, <3>3, <4>1, Zenon
    <3> QED
      BY <3>2, <3>3
  <2>6. Iter(h)
    BY <2>5
  <2> HIDE DEF Iter
  <2> QED
    BY <2>6
<1> HIDE DEF n
<1>4. Iter(iter)
  <2> HIDE DEF Iter
  <2> QED
    BY <1>3
<1> HIDE DEF iter
<1> DEFINE f == [k \in 0 .. n |-> iter[1 .. k]]
<1>5. f[0] = NoneYet
  <2>1. 1 .. 0 = {} /\ 0 \in 0 .. n /\ {} \in SUBSET (1 .. n)
    BY <1>1
  <2> QED
    BY <1>4, <2>1
<1>6. ASSUME NEW k \in 1 .. n PROVE f[k] = Better(idle, f[k - 1], q[k])
  <2>1. k \in 0 .. n /\ k - 1 \in 0 .. n
    BY <1>1
  <2>2. iter[1 .. k] = Better(idle, iter[(1 .. k) \ {Max(1 .. k)}], q[Max(1 .. k)])
    BY <1>1, <1>4, FirstPlaces, Zenon
  <2>3. iter[1 .. k] = Better(idle, iter[1 .. k - 1], q[k])
    BY <1>1, <2>2, FirstPlaces, Zenon
  <2> QED
    BY <2>1, <2>3, Zenon
<1> HIDE DEF f
<1>7. f \in [0 .. n -> Best]
  <2> DEFINE T == {k \in 0 .. n : f[k] \in Best}
  <2>1. T \in SUBSET (0 .. n) /\ 0 \in T
    <3>1. NoneYet \in Best
      BY DEF NoneYet, Best
    <3> QED
      BY <1>1, <1>5, <3>1
  <2>2. ASSUME NEW k \in T, k < n PROVE k + 1 \in T
    <3>1. k + 1 \in 1 .. n /\ (k + 1) - 1 = k /\ k + 1 \in 0 .. n
      BY <1>1, <2>2
    <3>2. f[k + 1] = Better(idle, f[(k + 1) - 1], q[k + 1])
      BY <1>6, <3>1, Zenon
    <3>3. q[k + 1] \in Active /\ f[k] \in Best
      BY <1>1, <3>1
    <3>4. f[k + 1] = Better(idle, f[k], q[k + 1])
      BY <3>1, <3>2, Zenon
    <3>5. Better(idle, f[k], q[k + 1]) \in Best
      BY <3>3, BetterFacts
    <3> QED
      BY <3>1, <3>4, <3>5
  <2> HIDE DEF T
  <2>3. \A k \in 0 .. n : k \in T
    BY <1>1, <2>1, <2>2, Steps
  <2>4. \A k \in 0 .. n : f[k] \in Best
    BY <2>3 DEF T
  <2> QED
    BY <2>4 DEF f
<1>8. Victim(idle) = f[n].pcb
  BY <1>1, <1>2 DEF f
<1>9. Scan(f, idle, q)
  BY <1>5, <1>6, <1>7 DEF Scan, n
<1> QED
  BY <1>8, <1>9 DEF n

\* Of the first k connections of q none is a better choice than b.
Undominated(b, idle, q, k) ==
  /\ b.pcb = Null <=> k = 0
  /\ k = 0 => b.mprio = 64 /\ b.idle = 0
  /\ k # 0 => /\ b.mprio = prio[b.pcb] /\ b.idle = idle[b.pcb]
              /\ \E i \in 1 .. k : q[i] = b.pcb
  /\ \A i \in 1 .. k : /\ prio[q[i]] <= b.mprio => idle[q[i]] <= b.idle
                       /\ prio[q[i]] < b.mprio  => idle[q[i]] < b.idle

LEMMA ScanStep ==
  ASSUME prio \in [Active -> 1 .. 64], NEW idle \in [Pcbs -> Nat], NEW q \in Seq(Pcbs),
         \A i \in 1 .. Len(q) : q[i] \in Active, NEW k \in 0 .. Len(q) - 1,
         NEW b \in Best, Undominated(b, idle, q, k)
  PROVE  Undominated(Better(idle, b, q[k + 1]), idle, q, k + 1)
<1> DEFINE p == q[k + 1]
           c == Better(idle, b, p)
<1>1. /\ k \in Nat /\ Len(q) \in Nat /\ k + 1 \in 1 .. Len(q) /\ k + 1 # 0
      /\ \A i \in 1 .. k + 1 : q[i] \in Active /\ q[i] # Null /\ (i = k + 1 \/ i \in 1 .. k)
      /\ \A i \in 1 .. k : i \in 1 .. k + 1
      /\ k + 1 \in 1 .. k + 1
  <2>1. \A i \in 1 .. Len(q) : q[i] \in Active /\ q[i] \in Pcbs
    OBVIOUS
  <2>2. k + 1 <= Len(q)
    OBVIOUS
  <2> QED
    BY <2>1, <2>2, PoolAssumption
<1>2. p \in Active /\ p # Null
  BY <1>1
<1>3. /\ prio[p] \in 1 .. 64 /\ idle[p] \in Nat
      /\ b.mprio \in Nat /\ b.idle \in Nat /\ b.pcb \in Pcbs \cup {Null}
      /\ c \in Best
      /\ prio[p] <= b.mprio /\ idle[p] >= b.idle
           => c.pcb = p /\ c.mprio = prio[p] /\ c.idle = idle[p]
      /\ ~(prio[p] <= b.mprio /\ idle[p] >= b.idle) => c = b
  BY <1>2, BetterFacts
<1>4. \A i \in 1 .. k : prio[q[i]] \in 1 .. 64 /\ idle[q[i]] \in Nat
  <2>1. \A i \in 1 .. k : q[i] \in Active /\ q[i] \in Pcbs
    BY <1>1 DEF Active
  <2> QED
    BY <2>1
<1>5. \A i \in 1 .. k : /\ prio[q[i]] <= b.mprio => idle[q[i]] <= b.idle
                        /\ prio[q[i]] < b.mprio  => idle[q[i]] < b.idle
  BY DEF Undominated
<1>6. q[k + 1] = p
  OBVIOUS
<1> HIDE DEF c, p
<1>7. CASE prio[p] <= b.mprio /\ idle[p] >= b.idle
  <2>1. c.pcb = p /\ c.mprio = prio[p] /\ c.idle = idle[p]
    BY <1>3, <1>7
  <2>2. ASSUME NEW i \in 1 .. k + 1
        PROVE  /\ prio[q[i]] <= c.mprio => idle[q[i]] <= c.idle
               /\ prio[q[i]] < c.mprio  => idle[q[i]] < c.idle
    <3>1. CASE i = k + 1
      <4>1. prio[q[i]] = c.mprio /\ idle[q[i]] = c.idle
        BY <1>6, <2>1, <3>1
      <4>2. PICK x, y : x = c.mprio /\ y = c.idle
        OBVIOUS
      <4>3. x <= x /\ y <= y /\ ~(x < x)
        <5>1. x \in 1 .. 64 /\ y \in Nat
          BY <1>3, <2>1, <4>2, Zenon
        <5> QED
          BY ONLY <5>1
      <4> QED
        BY <4>1, <4>2, <4>3, Zenon
    <3>2. CASE i \in 1 .. k
      <4>1. PICK x, y : x = prio[q[i]] /\ y = idle[q[i]]
        OBVIOUS
      <4>2. PICK m, d : m = prio[p] /\ d = idle[p]
        OBVIOUS
      <4>3. PICK bm, bi : bm = b.mprio /\ bi = b.idle
        OBVIOUS
      <4>4. x \in Nat /\ y \in Nat /\ m \in Nat /\ d \in Nat /\ bm \in Nat /\ bi \in Nat
        <5>1. prio[q[i]] \in 1 .. 64 /\ idle[q[i]] \in Nat
          BY <1>4, <3>2, Zenon
        <5>2. x \in 1 .. 64 /\ m \in 1 .. 64
          BY <1>3, <4>1, <4>2, <5>1, Zenon
        <5>3. y \in Nat /\ d \in Nat /\ bm \in Nat /\ bi \in Nat
          BY <1>3, <4>1, <4>2, <4>3, <5>1, Zenon
        <5> QED
          BY <5>2, <5>3
      <4>5. m <= bm /\ d >= bi
        BY <1>7, <4>2, <4>3, Zenon
      <4>6. (x <= bm => y <= bi) /\ (x < bm => y < bi)
        BY <1>5, <3>2, <4>1, <4>3, Zenon
      <4>7. (x <= m => y <= d) /\ (x < m  => y < d)
        BY ONLY <4>4, <4>5, <4>6
      <4> QED
        BY <2>1, <4>1, <4>2, <4>7, Zenon
    <3> QED
      BY <1>1, <3>1, <3>2
  <2>3. \E i \in 1 .. k + 1 : q[i] = c.pcb
    BY <1>1, <1>6, <2>1, Zenon
  <2>4. c.pcb # Null /\ c.mprio = prio[c.pcb] /\ c.idle = idle[c.pcb]
    BY <1>2, <2>1, Zenon
  <2> QED
    BY <1>1, <2>2, <2>3, <2>4, Zenon DEF Undominated, c, p
<1>8. CASE ~(prio[p] <= b.mprio /\ idle[p] >= b.idle)
  <2>1. c = b
    BY <1>3, <1>8, Zenon
  <2>2. k # 0
    <3>1. PICK x, y : x = prio[p] /\ y = idle[p]
      OBVIOUS
    <3>2. x \in 1 .. 64 /\ y \in Nat /\ ~(x <= b.mprio /\ y >= b.idle)
      BY <1>3, <1>8, <3>1, Zenon
    <3>3. k = 0 => b.mprio = 64 /\ b.idle = 0
      BY Zenon DEF Undominated
    <3> QED
      BY ONLY <3>2, <3>3
  <2>3. ASSUME NEW i \in 1 .. k + 1
        PROVE  /\ prio[q[i]] <= b.mprio => idle[q[i]] <= b.idle
               /\ prio[q[i]] < b.mprio  => idle[q[i]] < b.idle
    <3>1. CASE i = k + 1
      <4>1. PICK x, y : x = prio[p] /\ y = idle[p]
        OBVIOUS
      <4>2. PICK bm, bi : bm = b.mprio /\ bi = b.idle
        OBVIOUS
      <4>3. x \in 1 .. 64 /\ y \in Nat /\ bm \in Nat /\ bi \in Nat
        BY <1>3, <4>1, <4>2, Zenon
      <4>4. ~(x <= bm /\ y >= bi)
        BY <1>8, <4>1, <4>2, Zenon
      <4>5. (x <= bm => y <= bi) /\ (x < bm => y < bi)
        BY ONLY <4>3, <4>4
      <4>6. q[i] = p
        BY <1>6, <3>1, Zenon
      <4> QED
        BY <4>1, <4>2, <4>5, <4>6, Zenon
    <3>2. CASE i \in 1 .. k
      BY <1>5, <3>2
    <3> QED
      BY <1>1, <3>1, <3>2, Zenon
  <2>4. b.mprio = prio[b.pcb] /\ b.idle = idle[b.pcb] /\ b.pcb # Null
    BY <2>2 DEF Undominated
  <2>5. PICK j \in 1 .. k : q[j] = b.pcb
    BY <2>2 DEF Undominated
  <2>6. \E i \in 1 .. k + 1 : q[i] = b.pcb
    BY <1>1, <2>5, Zenon
  <2>7. Undominated(b, idle, q, k + 1)
    BY <1>1, <2>3, <2>4, <2>6, Zenon DEF Undominated
  <2> QED
    BY <2>1, <2>7, Zenon DEF c, p
<1> QED
  BY <1>7, <1>8 DEF c, p

\* For any idle times, whatever the connections' priorities and their order on
\* the list, nobody is at most as important as the connection tcp_kill_prio
\* aborts and idle for longer, nor less important and idle for as long.
THEOREM VictimUndominated == Spec => []VictimIsUndominated
<1>1. IInv => VictimIsUndominated
  <2> SUFFICES ASSUME IInv, NEW idle \in [Pcbs -> 0 .. MaxIdle]
               PROVE  LET v == Victim(idle)
                      IN  /\ v = Null <=> Active = {}
                          /\ \A q \in Active :
                               /\ prio[q] <= prio[v] => idle[q] <= idle[v]
                               /\ prio[q] < prio[v]  => idle[q] < idle[v]
    BY DEF VictimIsUndominated
  <2>1. idle \in [Pcbs -> Nat] /\ prio \in [Active -> 1 .. 64]
    BY PoolAssumption DEF IInv, PoolInv, TypeOK
  <2>2. PICK q \in Seq(Pcbs) : /\ q = InOrder(active)
                               /\ \A r : r \in Active <=> \E i \in 1 .. Len(q) : q[i] = r
    BY OrderFacts DEF IInv, Holds
  <2>3. PICK f : Scan(f, idle, q) /\ Victim(idle) = f[Len(q)].pcb
    BY <2>1, <2>2, VictimScans
  <2> DEFINE n == Len(q)
             T == {k \in 0 .. n : Undominated(f[k], idle, q, k)}
  <2>4. /\ n \in Nat /\ f \in [0 .. n -> Best] /\ f[0] = NoneYet
        /\ \A k \in 1 .. n : f[k] = Better(idle, f[k - 1], q[k])
    BY <2>3 DEF Scan
  <2>5. T \in SUBSET (0 .. n) /\ 0 \in T
    <3>1. Undominated(NoneYet, idle, q, 0)
      BY DEF Undominated, NoneYet
    <3> QED
      BY <2>4, <3>1
  <2>6. ASSUME NEW k \in T, k < n PROVE k + 1 \in T
    <3>1. k \in 0 .. n - 1 /\ k + 1 \in 1 .. n /\ (k + 1) - 1 = k /\ f[k] \in Best
      BY <2>4, <2>6
    <3>2. Undominated(Better(idle, f[k], q[k + 1]), idle, q, k + 1)
      <4>1. \A i \in 1 .. Len(q) : q[i] \in Active
        BY <2>2
      <4>2. Undominated(f[k], idle, q, k)
        BY <2>6
      <4> HIDE DEF T
      <4> QED
        BY <2>1, <3>1, <4>1, <4>2, ScanStep
    <3>3. f[k + 1] = Better(idle, f[k], q[k + 1])
      BY <2>4, <3>1
    <3> QED
      BY <3>1, <3>2, <3>3
  <2>7. Undominated(f[n], idle, q, n)
    <3> HIDE DEF T, n
    <3>1. \A k \in 0 .. n : k \in T
      BY <2>4, <2>5, <2>6, Steps
    <3>2. n \in 0 .. n
      BY <2>4
    <3> QED
      BY <3>1, <3>2 DEF T
  <2> DEFINE v == Victim(idle)
             b == f[n]
  <2>8. v = b.pcb /\ (v = Null <=> n = 0)
    BY <2>3, <2>7 DEF Undominated
  <2>9. n = 0 <=> Active = {}
    <3>1. n # 0 => 1 \in 1 .. n
      BY <2>4
    <3>2. n = 0 => 1 .. n = {}
      OBVIOUS
    <3> QED
      BY <2>2, <3>1, <3>2
  <2>10. ASSUME NEW r \in Active
         PROVE  /\ prio[r] <= prio[v] => idle[r] <= idle[v]
                /\ prio[r] < prio[v]  => idle[r] < idle[v]
    <3>1. PICK i \in 1 .. n : q[i] = r
      BY <2>2
    <3>2. n # 0
      BY <2>9
    <3> HIDE DEF n, b
    <3>3. /\ b.mprio = prio[b.pcb] /\ b.idle = idle[b.pcb]
          /\ prio[q[i]] <= b.mprio => idle[q[i]] <= b.idle
          /\ prio[q[i]] < b.mprio  => idle[q[i]] < b.idle
      BY <2>7, <3>2, Zenon DEF Undominated, b
    <3> QED
      BY <2>8, <3>1, <3>3, Zenon
  <2> HIDE DEF v
  <2> QED
    BY <2>8, <2>9, <2>10 DEF v
<1> QED
  BY <1>1, Invariant, PTL
=============================================================================
