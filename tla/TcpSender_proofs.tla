-------------------------- MODULE TcpSender_proofs --------------------------
(***************************************************************************)
(* The send queues of a connection, for any lengths, windows and limits:   *)
(* IInv of TcpSender is inductive when nothing preempts tcp_write, and     *)
(* NetInv is in any case.                                                  *)
(***************************************************************************)
EXTENDS TcpSender, SequenceTheorems, FiniteSetTheorems, TLAPS

-----------------------------------------------------------------------------
(* Induction over numbers, and what folding over a sequence yields *)

LEMMA Greatest ==
  ASSUME NEW n \in Nat, NEW S \in SUBSET (0 .. n), S # {}
  PROVE  Max(S) \in S /\ \A y \in S : y <= Max(S)
<1> DEFINE Above(x) == {y \in S : x < y}
           T == {Above(x) : x \in S}
<1>1. IsFiniteSet(S)
  <2>1. IsFiniteSet(0 .. n)
    BY FS_Interval
  <2> QED
    BY <2>1, FS_Subset
<1>2. T \subseteq FiniteSubsetsOf(S) /\ T # {}
  <2>1. FiniteSubsetsOf(S) = SUBSET S
    BY <1>1, FS_FiniteSubsetsOfFinite
  <2>2. \A u \in T : u \in SUBSET S
    OBVIOUS
  <2>3. PICK x \in S : TRUE
    OBVIOUS
  <2>4. Above(x) \in T
    OBVIOUS
  <2> HIDE DEF T
  <2> QED
    BY <2>1, <2>2, <2>4
<1>3. PICK t \in T : \A u \in T : ~(<<u, t>> \in StrictSubsetOrdering(S))
  <2> HIDE DEF T
  <2> QED
    BY <1>1, <1>2, FS_StrictSubsetOrderingWellFounded, WFMin
<1>4. PICK x \in S : t = Above(x)
  OBVIOUS
<1>5. ASSUME NEW y \in S, ~(y <= x) PROVE FALSE
  <2>1. x < y /\ x \in Nat /\ y \in Nat
    BY <1>5
  <2>2. Above(y) \in T
    OBVIOUS
  <2>3. \A z \in S : z \in Nat
    OBVIOUS
  <2>4. \A z \in Above(y) : z \in S /\ x < z
    BY <2>1, <2>3
  <2>5. y \in Above(x) /\ y \notin Above(y)
    BY <2>1
  <2>6. <<Above(y), t>> \in StrictSubsetOrdering(S)
    BY <1>4, <2>4, <2>5 DEF StrictSubsetOrdering
  <2> QED
    BY <1>3, <2>2, <2>6
<1>6. x \in S /\ \A y \in S : x >= y
  BY <1>5
<1>7. Max(S) \in S /\ \A y \in S : Max(S) >= y
  BY <1>6, Zenon DEF Max
<1> QED
  BY <1>7

LEMMA Steps ==
  ASSUME NEW n \in Nat, NEW T \in SUBSET (0 .. n), 0 \in T,
         \A i \in T : i < n => i + 1 \in T
  PROVE  \A i \in 0 .. n : i \in T
<1> DEFINE S == {k \in 0 .. n : 0 .. k \subseteq T}
<1>1. S \in SUBSET (0 .. n) /\ 0 \in S
  OBVIOUS
<1>2. PICK m \in S : \A k \in S : k <= m
  <2> HIDE DEF S
  <2> QED
    BY <1>1, Greatest
<1>3. ASSUME m < n PROVE FALSE
  <2>1. m + 1 \in T /\ m + 1 \in 0 .. n
    BY <1>3
  <2>2. 0 .. m + 1 \subseteq T
    <3>1. ASSUME NEW k \in 0 .. m + 1 PROVE k \in T
      <4>1. k = m + 1 \/ k \in 0 .. m
        OBVIOUS
      <4> QED
        BY <2>1, <4>1
    <3> QED
      BY <3>1
  <2> QED
    BY <1>2, <2>1, <2>2
<1> QED
  BY <1>3

LEMMA TopOf ==
  ASSUME NEW m \in Nat, NEW s \in SUBSET (1 .. m + 1), m + 1 \in s
  PROVE  Max(s) = m + 1 /\ s \ {m + 1} \in SUBSET (1 .. m)
<1>1. m + 1 \in Nat /\ s \in SUBSET (0 .. m + 1) /\ s # {}
  OBVIOUS
<1>2. Max(s) \in s /\ \A y \in s : y <= Max(s)
  BY <1>1, Greatest, Zenon
<1>3. PICK x : x = Max(s)
  OBVIOUS
<1>4. x \in s /\ \A y \in s : y <= x
  BY <1>2, <1>3, Zenon
<1>5. x = m + 1 /\ s \ {m + 1} \in SUBSET (1 .. m)
  BY <1>4
<1> QED
  BY <1>3, <1>5, Zenon

\* The function that a fold from the left defines, over sets of places.
Folds(h, n, b, g) ==
  \A s \in SUBSET (1 .. n) :
    h[s] = IF s = {} THEN b ELSE g[<<h[s \ {Max(s)}], Max(s)>>]

LEMMA FoldExists ==
  ASSUME NEW n \in Nat, NEW V, NEW b \in V, NEW g \in [V \X (1 .. n) -> V]
  PROVE  \E h \in [SUBSET (1 .. n) -> V] : Folds(h, n, b, g)
<1> DEFINE T == {m \in 0 .. n : \E h \in [SUBSET (1 .. m) -> V] : Folds(h, m, b, g)}
<1>1. 0 \in T
  <2> DEFINE h == [s \in SUBSET (1 .. 0) |-> b]
  <2>1. \A s \in SUBSET (1 .. 0) : s = {}
    OBVIOUS
  <2>2. h \in [SUBSET (1 .. 0) -> V] /\ Folds(h, 0, b, g)
    BY <2>1, Zenon DEF Folds
  <2>3. \E f \in [SUBSET (1 .. 0) -> V] : Folds(f, 0, b, g)
    BY <2>2, Zenon
  <2>4. 0 \in 0 .. n
    OBVIOUS
  <2> QED
    BY <2>3, <2>4, Zenon
<1>2. ASSUME NEW m \in T, m < n PROVE m + 1 \in T
  <2>1. PICK h \in [SUBSET (1 .. m) -> V] : Folds(h, m, b, g)
    OBVIOUS
  <2> DEFINE k == m + 1
             f == [s \in SUBSET (1 .. k) |-> IF k \in s THEN g[<<h[s \ {k}], k>>] ELSE h[s]]
  <2>2. k \in 1 .. n /\ m \in Nat /\ k = m + 1
    BY <1>2
  <2>3. \A s \in SUBSET (1 .. k) : k \in s => Max(s) = k /\ s \ {k} \in SUBSET (1 .. m)
    BY <2>2, TopOf
  <2>4. \A s \in SUBSET (1 .. k) : k \notin s => s \in SUBSET (1 .. m)
    BY <2>2
  <2> HIDE DEF k
  <2>5. \A s \in SUBSET (1 .. k) : f[s] \in V
    BY <2>2, <2>3, <2>4
  <2>6. \A s \in SUBSET (1 .. m) : s \in SUBSET (1 .. k) /\ k \notin s /\ f[s] = h[s]
    BY <2>2
  <2>7. ASSUME NEW s \in SUBSET (1 .. k)
        PROVE  f[s] = IF s = {} THEN b ELSE g[<<f[s \ {Max(s)}], Max(s)>>]
    <3>1. CASE k \in s
      BY <2>3, <2>6, <3>1
    <3>2. CASE k \notin s
      <4>1. s \in SUBSET (1 .. m) /\ s \ {Max(s)} \in SUBSET (1 .. m)
        BY <2>4, <3>2
      <4>2. h[s] = IF s = {} THEN b ELSE g[<<h[s \ {Max(s)}], Max(s)>>]
        BY <2>1, <4>1, Zenon DEF Folds
      <4> QED
        BY <2>6, <4>1, <4>2
    <3> QED
      BY <3>1, <3>2
  <2>8. f \in [SUBSET (1 .. k) -> V] /\ Folds(f, k, b, g)
    <3> HIDE DEF f
    <3>1. f \in [SUBSET (1 .. k) -> V]
      BY <2>5, Zenon DEF f
    <3> QED
      BY <3>1, <2>7, Zenon DEF Folds
  <2> HIDE DEF f
  <2>9. k \in T
    BY <2>2, <2>8
  <2> QED
    BY <2>9 DEF k
<1>3. n \in T
  <2>1. T \in SUBSET (0 .. n)
    OBVIOUS
  <2> HIDE DEF T
  <2> QED
    BY <1>1, <1>2, <2>1, Steps
<1> QED
  BY <1>3

LEMMA TopPlace ==
  ASSUME NEW n \in Nat, NEW s \in SUBSET (1 .. n), s # {}
  PROVE  Max(s) \in 1 .. n
<1>1. s \in SUBSET (0 .. n)
  OBVIOUS
<1>2. Max(s) \in s
  BY <1>1, Greatest, Zenon
<1> QED
  BY <1>2

LEMMA FirstPlaces ==
  ASSUME NEW n \in Nat, NEW k \in 1 .. n
  PROVE  /\ 1 .. k \in SUBSET (1 .. n) /\ 1 .. k # {}
         /\ Max(1 .. k) = k /\ (1 .. k) \ {k} = 1 .. k - 1
<1>1. k - 1 \in Nat /\ (k - 1) + 1 = k
  OBVIOUS
<1>2. 1 .. k \in SUBSET (1 .. (k - 1) + 1) /\ (k - 1) + 1 \in 1 .. k
  BY <1>1
<1> HIDE DEF Max
<1>3. Max(1 .. k) = (k - 1) + 1
  BY <1>1, <1>2, TopOf, Zenon
<1> QED
  BY <1>1, <1>3

LEMMA SegmentsOf ==
  ASSUME NEW q \in Seq(Segments)
  PROVE  /\ Len(q) \in Nat /\ DOMAIN q = 1 .. Len(q)
         /\ \A i \in 1 .. Len(q) :
              /\ q[i] \in Segments
              /\ q[i].seq \in Nat /\ q[i].len \in Nat /\ q[i].len <= Mss
              /\ q[i].fin \in BOOLEAN /\ q[i].bufs \in Nat
              /\ End(q[i]) \in Nat /\ q[i].seq <= End(q[i])
<1>1. Len(q) \in Nat /\ DOMAIN q = 1 .. Len(q)
  BY LenProperties
<1>2. ASSUME NEW i \in 1 .. Len(q)
      PROVE  /\ q[i] \in Segments
             /\ q[i].seq \in Nat /\ q[i].len \in Nat /\ q[i].len <= Mss
             /\ q[i].fin \in BOOLEAN /\ q[i].bufs \in Nat
             /\ End(q[i]) \in Nat /\ q[i].seq <= End(q[i])
  <2>1. q[i] \in Segments
    BY ElementOfSeq
  <2>2. /\ q[i].seq \in Nat /\ q[i].len \in 0 .. Mss
        /\ q[i].fin \in BOOLEAN /\ q[i].bufs \in Nat
    BY <2>1 DEF Segments
  <2> QED
    BY <2>1, <2>2, SenderAssumption DEF End
<1> QED
  BY <1>1, <1>2

\* The pbufs of the first segments, one after the other.
Sums(f, q) ==
  /\ f \in [0 .. Len(q) -> Nat] /\ f[0] = 0
  /\ \A k \in 1 .. Len(q) : f[k] = f[k - 1] + q[k].bufs

LEMMA PbufsIsASum ==
  ASSUME NEW q \in Seq(Segments)
  PROVE  \E f : Sums(f, q) /\ Pbufs(q) = f[Len(q)]
<1> DEFINE n == Len(q)
           Iter(h) == h = [s \in SUBSET (1 .. n) |->
                             IF s = {} THEN 0 ELSE h[s \ {Max(s)}] + q[Max(s)].bufs]
           iter == CHOOSE h : Iter(h)
<1>1. n \in Nat /\ DOMAIN q = 1 .. n /\ \A i \in 1 .. n : q[i].bufs \in Nat
  BY SegmentsOf
<1>2. Pbufs(q) = iter[1 .. n]
  BY <1>1, Zenon DEF Pbufs, FoldLeft, MapThenFoldSet
<1>3. \E h : Iter(h)
  <2> DEFINE g == [x \in Nat \X (1 .. n) |-> x[1] + q[x[2]].bufs]
  <2>1. g \in [Nat \X (1 .. n) -> Nat]
    BY <1>1
  <2>2. \A x \in Nat, i \in 1 .. n : g[<<x, i>>] = x + q[i].bufs
    OBVIOUS
  <2> HIDE DEF g, n
  <2>3. PICK h \in [SUBSET (1 .. n) -> Nat] : Folds(h, n, 0, g)
    BY <1>1, <2>1, FoldExists, Zenon
  <2>4. ASSUME NEW s \in SUBSET (1 .. n)
        PROVE  h[s] = IF s = {} THEN 0 ELSE h[s \ {Max(s)}] + q[Max(s)].bufs
    <3>1. h[s] = IF s = {} THEN 0 ELSE g[<<h[s \ {Max(s)}], Max(s)>>]
      BY <2>3, Zenon DEF Folds
    <3>2. CASE s = {}
      BY <3>1, <3>2
    <3>3. CASE s # {}
      <4>1. Max(s) \in 1 .. n /\ h[s \ {Max(s)}] \in Nat
        BY <1>1, <3>3, TopPlace
      <4> QED
        BY <2>2, <3>1, <3>3, <4>1, Zenon
    <3> QED
      BY <3>2, <3>3
  <2>5. Iter(h)
    BY <2>4
  <2> HIDE DEF Iter
  <2> QED
    BY <2>5
<1> HIDE DEF n
<1>4. Iter(iter)
  <2> HIDE DEF Iter
  <2> QED
    BY <1>3
<1> HIDE DEF iter
<1> DEFINE f == [k \in 0 .. n |-> iter[1 .. k]]
<1>5. f[0] = 0
  <2>1. 1 .. 0 = {} /\ 0 \in 0 .. n /\ {} \in SUBSET (1 .. n)
    BY <1>1
  <2> QED
    BY <1>4, <2>1
<1>6. ASSUME NEW k \in 1 .. n PROVE f[k] = f[k - 1] + q[k].bufs
  <2>1. k \in 0 .. n /\ k - 1 \in 0 .. n
    BY <1>1
  <2>2. iter[1 .. k] = iter[(1 .. k) \ {Max(1 .. k)}] + q[Max(1 .. k)].bufs
    BY <1>1, <1>4, FirstPlaces, Zenon
  <2>3. iter[1 .. k] = iter[1 .. k - 1] + q[k].bufs
    BY <1>1, <2>2, FirstPlaces, Zenon
  <2> QED
    BY <2>1, <2>3, Zenon
<1> HIDE DEF f
<1>7. f \in [0 .. n -> Nat]
  <2> DEFINE T == {k \in 0 .. n : f[k] \in Nat}
  <2>1. T \in SUBSET (0 .. n) /\ 0 \in T
    BY <1>1, <1>5
  <2>2. ASSUME NEW k \in T, k < n PROVE k + 1 \in T
    <3>1. k + 1 \in 1 .. n /\ (k + 1) - 1 = k /\ k + 1 \in 0 .. n
      BY <1>1, <2>2
    <3>2. f[k + 1] = f[(k + 1) - 1] + q[k + 1].bufs
      BY <1>6, <3>1, Zenon
    <3>3. q[k + 1].bufs \in Nat /\ f[k] \in Nat
      BY <1>1, <3>1
    <3> QED
      BY <3>1, <3>2, <3>3
  <2> HIDE DEF T
  <2>3. \A k \in 0 .. n : k \in T
    BY <1>1, <2>1, <2>2, Steps
  <2>4. \A k \in 0 .. n : f[k] \in Nat
    BY <2>3 DEF T
  <2> QED
    BY <2>4 DEF f
<1>8. Pbufs(q) = f[n]
  BY <1>1, <1>2 DEF f
<1>9. Sums(f, q)
  BY <1>5, <1>6, <1>7 DEF Sums, n
<1> QED
  BY <1>8, <1>9 DEF n
LEMMA PbufsParts ==
  ASSUME NEW q \in Seq(Segments), NEW r \in Seq(Segments)
  PROVE  /\ Pbufs(q) \in Nat /\ Pbufs(r) \in Nat
         /\ Pbufs(q \o r) = Pbufs(q) + Pbufs(r)
<1> DEFINE m == Len(q)
           n == Len(r)
<1>1. PICK f : Sums(f, q) /\ Pbufs(q) = f[m]
  BY PbufsIsASum
<1>2. PICK g : Sums(g, r) /\ Pbufs(r) = g[n]
  BY PbufsIsASum
<1>3. q \o r \in Seq(Segments) /\ Len(q \o r) = m + n
  BY ConcatProperties
<1>4. PICK h : Sums(h, q \o r) /\ Pbufs(q \o r) = h[m + n]
  BY <1>3, PbufsIsASum
<1>5. m \in Nat /\ n \in Nat
  BY LenProperties
<1>6. \A i \in 1 .. m : (q \o r)[i] = q[i]
  BY <1>5, ConcatProperties
<1>7. \A i \in 1 .. n : (q \o r)[m + i] = r[i]
  BY <1>5, ConcatProperties
<1>8. /\ f \in [0 .. m -> Nat] /\ f[0] = 0
      /\ \A k \in 1 .. m : f[k] = f[k - 1] + q[k].bufs
  BY <1>1 DEF Sums
<1>9. /\ g \in [0 .. n -> Nat] /\ g[0] = 0
      /\ \A k \in 1 .. n : g[k] = g[k - 1] + r[k].bufs
  BY <1>2 DEF Sums
<1>10. /\ h \in [0 .. m + n -> Nat] /\ h[0] = 0
       /\ \A k \in 1 .. m + n : h[k] = h[k - 1] + (q \o r)[k].bufs
  BY <1>3, <1>4 DEF Sums
<1> HIDE DEF m, n
<1>11. \A k \in 0 .. m : h[k] = f[k]
  <2> DEFINE T == {k \in 0 .. m : h[k] = f[k]}
  <2>1. T \in SUBSET (0 .. m) /\ 0 \in T
    BY <1>5, <1>8, <1>10
  <2>2. ASSUME NEW k \in T, k < m PROVE k + 1 \in T
    <3>1. k + 1 \in 1 .. m /\ k + 1 \in 1 .. m + n /\ (k + 1) - 1 = k
      BY <1>5, <2>2
    <3>2. f[k + 1] = f[(k + 1) - 1] + q[k + 1].bufs
      BY <1>8, <3>1, Zenon
    <3>3. h[k + 1] = h[(k + 1) - 1] + (q \o r)[k + 1].bufs
      BY <1>10, <3>1, Zenon
    <3>4. (q \o r)[k + 1] = q[k + 1]
      BY <1>6, <3>1, Zenon
    <3>5. h[k + 1] = f[k + 1]
      BY <3>1, <3>2, <3>3, <3>4
    <3> QED
      BY <3>1, <3>5
  <2> HIDE DEF T
  <2>3. \A k \in 0 .. m : k \in T
    BY <1>5, <2>1, <2>2, Steps
  <2> QED
    BY <2>3 DEF T
<1>12. \A k \in 0 .. n : h[m + k] = f[m] + g[k]
  <2> DEFINE T == {k \in 0 .. n : h[m + k] = f[m] + g[k]}
  <2>1. T \in SUBSET (0 .. n) /\ 0 \in T
    <3>1. f[m] \in Nat /\ h[m] = f[m]
      BY <1>5, <1>8, <1>11
    <3>2. m + 0 = m
      BY <1>5
    <3> QED
      BY <1>5, <1>9, <3>1, <3>2
  <2>2. ASSUME NEW k \in T, k < n PROVE k + 1 \in T
    <3>1. /\ k + 1 \in 1 .. n /\ m + (k + 1) \in 1 .. m + n
          /\ (k + 1) - 1 = k /\ (m + (k + 1)) - 1 = m + k
      BY <1>5, <2>2
    <3>2. g[k + 1] = g[(k + 1) - 1] + r[k + 1].bufs
      BY <1>9, <3>1, Zenon
    <3>3. h[m + (k + 1)] = h[(m + (k + 1)) - 1] + (q \o r)[m + (k + 1)].bufs
      BY <1>10, <3>1, Zenon
    <3>4. (q \o r)[m + (k + 1)] = r[k + 1]
      BY <1>7, <3>1, Zenon
    <3>5. r[k + 1].bufs \in Nat
      BY <3>1, SegmentsOf DEF n
    <3>6. f[m] \in Nat /\ g[k] \in Nat
      BY <1>5, <1>8, <1>9
    <3>7. h[m + k] = f[m] + g[k]
      OBVIOUS
    <3>8. h[m + (k + 1)] = (f[m] + g[k]) + r[k + 1].bufs /\ g[k + 1] = g[k] + r[k + 1].bufs
      BY <3>1, <3>2, <3>3, <3>4, <3>7, Zenon
    <3> DEFINE a == f[m]
               b == g[k]
               c == r[k + 1].bufs
    <3>9. (a + b) + c = a + (b + c)
      <4> HIDE DEF a, b, c
      <4>1. a \in Nat /\ b \in Nat /\ c \in Nat
        BY <3>5, <3>6 DEF a, b, c
      <4> QED
        BY <4>1
    <3>10. h[m + (k + 1)] = f[m] + g[k + 1]
      BY <3>8, <3>9, Zenon
    <3> QED
      BY <3>1, <3>10
  <2> HIDE DEF T
  <2>3. \A k \in 0 .. n : k \in T
    BY <1>5, <2>1, <2>2, Steps
  <2> QED
    BY <2>3 DEF T
<1>13. f[m] \in Nat /\ g[n] \in Nat /\ n \in 0 .. n
  BY <1>5, <1>8, <1>9
<1>14. h[m + n] = f[m] + g[n]
  BY <1>12, <1>13, Zenon
<1> QED
  BY <1>1, <1>2, <1>4, <1>13, <1>14, Zenon

LEMMA PbufsFew ==
  /\ Pbufs(<<>>) = 0
  /\ \A s \in Segments : Pbufs(<<s>>) = s.bufs
<1>1. Pbufs(<<>>) = 0
  <2>1. <<>> \in Seq(Segments) /\ Len(<<>>) = 0
    OBVIOUS
  <2>2. PICK f : Sums(f, <<>>) /\ Pbufs(<<>>) = f[Len(<<>>)]
    BY <2>1, PbufsIsASum
  <2> QED
    BY <2>1, <2>2 DEF Sums
<1>2. ASSUME NEW s \in Segments PROVE Pbufs(<<s>>) = s.bufs
  <2>1. <<s>> \in Seq(Segments) /\ Len(<<s>>) = 1 /\ <<s>>[1] = s
    OBVIOUS
  <2>2. PICK f : Sums(f, <<s>>) /\ Pbufs(<<s>>) = f[Len(<<s>>)]
    BY <2>1, PbufsIsASum
  <2>3. f[0] = 0 /\ f[1] = f[1 - 1] + s.bufs
    BY <2>1, <2>2 DEF Sums
  <2>4. s.bufs \in Nat
    BY DEF Segments
  <2> QED
    BY <2>1, <2>2, <2>3, <2>4
<1> QED
  BY <1>1, <1>2

LEMMA LeadingRun ==
  ASSUME NEW n \in Nat, NEW S \in SUBSET (1 .. n)
  PROVE  /\ Leading(S) \in 0 .. n
         /\ \A i \in 1 .. Leading(S) : i \in S
         /\ Leading(S) + 1 \notin S
<1> DEFINE R == {i \in S : 1 .. i \subseteq S}
           k == Max({0} \cup R)
<1>1. PICK m \in {0} \cup R : \A i \in {0} \cup R : i <= m
  <2>1. R \in SUBSET (1 .. n)
    OBVIOUS
  <2> HIDE DEF R
  <2>2. {0} \cup R \in SUBSET (0 .. n) /\ {0} \cup R # {}
    BY <2>1
  <2> QED
    BY <2>2, Greatest, Zenon
<1>2. m \in 0 .. n /\ 1 .. m \subseteq S
  OBVIOUS
<1>3. R = 1 .. m
  <2>1. ASSUME NEW i \in R PROVE i \in 1 .. m
    BY <1>1
  <2>2. ASSUME NEW i \in 1 .. m PROVE i \in R
    BY <1>2
  <2> HIDE DEF R
  <2> QED
    BY <2>1, <2>2
<1>4. m + 1 \notin S
  <2>1. SUFFICES ASSUME m + 1 \in S PROVE FALSE
    OBVIOUS
  <2>2. ASSUME NEW i \in 1 .. m + 1 PROVE i \in S
    BY <1>2, <2>1
  <2>3. m + 1 \in R
    BY <2>1, <2>2
  <2> QED
    BY <1>1, <1>2, <2>3
<1>5. Leading(S) = m
  <2>1. Leading(S) = Cardinality(1 .. m)
    BY <1>3, Zenon DEF Leading
  <2>2. Cardinality(1 .. m) = m
    BY <1>2, FS_Interval
  <2> QED
    BY <2>1, <2>2
<1> QED
  BY <1>2, <1>4, <1>5
-----------------------------------------------------------------------------
(* Queues *)

LEMMA Parts ==
  ASSUME NEW q \in Seq(Segments), NEW n \in 0 .. Len(q)
  PROVE  /\ SubSeq(q, 1, n) \in Seq(Segments) /\ After(q, n) \in Seq(Segments)
         /\ Len(SubSeq(q, 1, n)) = n /\ Len(After(q, n)) = Len(q) - n
         /\ \A i \in 1 .. n : SubSeq(q, 1, n)[i] = q[i]
         /\ \A i \in 1 .. Len(q) - n : After(q, n)[i] = q[n + i]
         /\ SubSeq(q, 1, n) \o After(q, n) = q
<1>1. Len(q) \in Nat /\ \A i \in 1 .. Len(q) : q[i] \in Segments
  BY SegmentsOf
<1>2. /\ SubSeq(q, 1, n) \in Seq(Segments) /\ Len(SubSeq(q, 1, n)) = n
      /\ \A i \in 1 .. n : SubSeq(q, 1, n)[i] = q[i]
  <2>1. \A i \in 1 .. n : q[i] \in Segments
    BY <1>1
  <2> QED
    BY <1>1, <2>1, SubSeqProperties
<1>3. /\ After(q, n) \in Seq(Segments) /\ Len(After(q, n)) = Len(q) - n
      /\ \A i \in 1 .. Len(q) - n : After(q, n)[i] = q[n + i]
  <2>1. \A i \in n + 1 .. Len(q) : q[i] \in Segments
    BY <1>1
  <2> QED
    BY <1>1, <2>1, SubSeqProperties DEF After
<1>4. SubSeq(q, 1, n) \o SubSeq(q, n + 1, Len(q)) = SubSeq(q, 1, Len(q))
  <2>1. 1 \in 1 .. Len(q) + 1 /\ n \in 1 - 1 .. Len(q) /\ Len(q) \in n .. Len(q)
    BY <1>1
  <2> QED
    BY <2>1, ConcatAdjacentSubSeq
<1>5. SubSeq(q, 1, n) \o After(q, n) = q
  BY <1>4, SubSeqFull, Zenon DEF After
<1> QED
  BY <1>2, <1>3, <1>5

LEMMA Regroup ==
  ASSUME NEW q \in Seq(Segments), NEW r \in Seq(Segments), NEW u \in Seq(Segments)
  PROVE  (q \o r) \o u = q \o (r \o u)
BY ConcatAssociative

LEMMA InsertIsQueue ==
  ASSUME NEW q \in Seq(Segments), NEW s \in Segments
  PROVE  /\ Insert(q, s) \in Seq(Segments)
         /\ (\A i \in 1 .. Len(q) : q[i].seq < s.seq) => Insert(q, s) = q \o <<s>>
         /\ (\A i \in 1 .. Len(q) : s.seq < q[i].seq) => Insert(q, s) = <<s>> \o q
<1> DEFINE S == {i \in 1 .. Len(q) : q[i].seq < s.seq}
           n == Leading(S)
<1>1. Len(q) \in Nat /\ s.seq \in Nat /\ \A i \in 1 .. Len(q) : q[i].seq \in Nat
  BY SegmentsOf DEF Segments
<1>2. S \in SUBSET (1 .. Len(q))
  OBVIOUS
<1>3. n \in 0 .. Len(q) /\ (\A i \in 1 .. n : i \in S) /\ n + 1 \notin S
  <2> HIDE DEF S
  <2> QED
    BY <1>1, <1>2, LeadingRun
<1>4. Insert(q, s) = SubSeq(q, 1, n) \o <<s>> \o After(q, n)
  BY Zenon DEF Insert
<1>5. <<s>> \in Seq(Segments) /\ Len(<<s>>) = 1
  OBVIOUS
<1>6. Insert(q, s) \in Seq(Segments)
  <2> HIDE DEF n
  <2> QED
    BY <1>3, <1>4, <1>5, Parts, ConcatProperties
<1>7. ASSUME \A i \in 1 .. Len(q) : q[i].seq < s.seq
      PROVE  Insert(q, s) = q \o <<s>>
  <2>1. n = Len(q)
    <3>1. S = 1 .. Len(q)
      BY <1>7
    <3> HIDE DEF S
    <3> QED
      BY <1>1, <1>3, <3>1
  <2>2. SubSeq(q, 1, Len(q)) = q /\ After(q, Len(q)) = <<>>
    BY <1>1, SubSeqFull, SubSeqEmpty DEF After
  <2> HIDE DEF n
  <2>3. (q \o <<s>>) \o <<>> = q \o <<s>>
    BY <1>5, ConcatProperties, ConcatEmptySeq
  <2> QED
    BY <1>4, <2>1, <2>2, <2>3
<1>8. ASSUME \A i \in 1 .. Len(q) : s.seq < q[i].seq
      PROVE  Insert(q, s) = <<s>> \o q
  <2>1. n = 0
    <3>1. S = {}
      BY <1>1, <1>8
    <3> HIDE DEF S
    <3> QED
      BY <1>1, <1>3, <3>1
  <2>2. SubSeq(q, 1, 0) = <<>> /\ After(q, 0) = q
    BY <1>1, SubSeqFull, SubSeqEmpty DEF After
  <2> HIDE DEF n
  <2>3. <<>> \o <<s>> = <<s>>
    BY <1>5, ConcatEmptySeq
  <2> QED
    BY <1>4, <2>1, <2>2, <2>3
<1> QED
  BY <1>6, <1>7, <1>8

\* unacked as each segment of r is put into it in turn.
Insertions(f, q, r) ==
  /\ f \in [0 .. Len(r) -> Seq(Segments)] /\ f[0] = q
  /\ \A k \in 1 .. Len(r) : f[k] = Insert(f[k - 1], r[k])

LEMMA FoldInserts ==
  ASSUME NEW q \in Seq(Segments), NEW r \in Seq(Segments)
  PROVE  \E f : Insertions(f, q, r) /\ FoldLeft(Insert, q, r) = f[Len(r)]
<1> DEFINE n == Len(r)
           Iter(h) == h = [s \in SUBSET (1 .. n) |->
                             IF s = {} THEN q ELSE Insert(h[s \ {Max(s)}], r[Max(s)])]
           iter == CHOOSE h : Iter(h)
<1>1. n \in Nat /\ DOMAIN r = 1 .. n /\ \A i \in 1 .. n : r[i] \in Segments
  BY SegmentsOf
<1>2. FoldLeft(Insert, q, r) = iter[1 .. n]
  BY <1>1, Zenon DEF FoldLeft, MapThenFoldSet
<1>3. \E h : Iter(h)
  <2> DEFINE g == [x \in Seq(Segments) \X (1 .. n) |-> Insert(x[1], r[x[2]])]
  <2>1. g \in [Seq(Segments) \X (1 .. n) -> Seq(Segments)]
    BY <1>1, InsertIsQueue
  <2>2. \A x \in Seq(Segments), i \in 1 .. n : g[<<x, i>>] = Insert(x, r[i])
    OBVIOUS
  <2> HIDE DEF g, n
  <2>3. PICK h \in [SUBSET (1 .. n) -> Seq(Segments)] : Folds(h, n, q, g)
    BY <1>1, <2>1, FoldExists, Zenon
  <2>4. ASSUME NEW s \in SUBSET (1 .. n)
        PROVE  h[s] = IF s = {} THEN q ELSE Insert(h[s \ {Max(s)}], r[Max(s)])
    <3>1. h[s] = IF s = {} THEN q ELSE g[<<h[s \ {Max(s)}], Max(s)>>]
      BY <2>3, Zenon DEF Folds
    <3>2. CASE s = {}
      BY <3>1, <3>2
    <3>3. CASE s # {}
      <4>1. Max(s) \in 1 .. n /\ h[s \ {Max(s)}] \in Seq(Segments)
        BY <1>1, <3>3, TopPlace
      <4> QED
        BY <2>2, <3>1, <3>3, <4>1, Zenon
    <3> QED
      BY <3>2, <3>3
  <2>5. Iter(h)
    BY <2>4
  <2> HIDE DEF Iter
  <2> QED
    BY <2>5
<1> HIDE DEF n
<1>4. Iter(iter)
  <2> HIDE DEF Iter
  <2> QED
    BY <1>3
<1> HIDE DEF iter
<1> DEFINE f == [k \in 0 .. n |-> iter[1 .. k]]
<1>5. f[0] = q
  <2>1. 1 .. 0 = {} /\ 0 \in 0 .. n /\ {} \in SUBSET (1 .. n)
    BY <1>1
  <2> QED
    BY <1>4, <2>1
<1>6. ASSUME NEW k \in 1 .. n PROVE f[k] = Insert(f[k - 1], r[k])
  <2>1. k \in 0 .. n /\ k - 1 \in 0 .. n
    BY <1>1
  <2>2. iter[1 .. k] = Insert(iter[(1 .. k) \ {Max(1 .. k)}], r[Max(1 .. k)])
    BY <1>1, <1>4, FirstPlaces, Zenon
  <2>3. iter[1 .. k] = Insert(iter[1 .. k - 1], r[k])
    BY <1>1, <2>2, FirstPlaces, Zenon
  <2> QED
    BY <2>1, <2>3, Zenon
<1> HIDE DEF f
<1>7. f \in [0 .. n -> Seq(Segments)]
  <2> DEFINE T == {k \in 0 .. n : f[k] \in Seq(Segments)}
  <2>1. T \in SUBSET (0 .. n) /\ 0 \in T
    BY <1>1, <1>5
  <2>2. ASSUME NEW k \in T, k < n PROVE k + 1 \in T
    <3>1. k + 1 \in 1 .. n /\ (k + 1) - 1 = k /\ k + 1 \in 0 .. n
      BY <1>1, <2>2
    <3>2. f[k + 1] = Insert(f[(k + 1) - 1], r[k + 1])
      BY <1>6, <3>1, Zenon
    <3>3. r[k + 1] \in Segments /\ f[k] \in Seq(Segments)
      BY <1>1, <3>1
    <3>4. f[k + 1] \in Seq(Segments)
      BY <3>1, <3>2, <3>3, InsertIsQueue
    <3> QED
      BY <3>1, <3>4
  <2> HIDE DEF T
  <2>3. \A k \in 0 .. n : k \in T
    BY <1>1, <2>1, <2>2, Steps
  <2>4. \A k \in 0 .. n : f[k] \in Seq(Segments)
    BY <2>3 DEF T
  <2> QED
    BY <2>4 DEF f
<1>8. FoldLeft(Insert, q, r) = f[n]
  BY <1>1, <1>2 DEF f
<1>9. Insertions(f, q, r)
  BY <1>5, <1>6, <1>7 DEF Insertions, n
<1> QED
  BY <1>8, <1>9 DEF n
Rising(q) == \A i, j \in 1 .. Len(q) : i < j => q[i].seq < q[j].seq

\* In a chain a segment ends before every later one begins.
LEMMA ChainRises ==
  ASSUME NEW q \in Seq(Segments), Chained(q)
  PROVE  /\ \A i, j \in 1 .. Len(q) : i < j => End(q[i]) <= q[j].seq
         /\ Rising(q)
<1>1. /\ Len(q) \in Nat
      /\ \A i \in 1 .. Len(q) : q[i].seq \in Nat /\ End(q[i]) \in Nat
  BY SegmentsOf
<1>2. /\ \A i \in 1 .. Len(q) : q[i].seq < End(q[i])
      /\ \A i \in 1 .. Len(q) : i < Len(q) => q[i + 1].seq = End(q[i])
  BY Zenon DEF Chained
<1>3. ASSUME NEW i \in 1 .. Len(q), NEW j \in 1 .. Len(q), i < j
      PROVE  End(q[i]) <= q[j].seq
  <2> DEFINE n == Len(q) - i
             T == {k \in 0 .. n : k = 0 \/ End(q[i]) <= q[i + k].seq}
  <2>1. n \in Nat /\ T \in SUBSET (0 .. n) /\ 0 \in T
    BY <1>1
  <2>2. ASSUME NEW k \in T, k < n PROVE k + 1 \in T
    <3>1. i + k \in 1 .. Len(q) /\ i + k < Len(q) /\ (i + k) + 1 = i + (k + 1)
          /\ i + (k + 1) \in 1 .. Len(q) /\ k + 1 \in 0 .. n
      BY <1>1, <2>2
    <3>2. q[i + (k + 1)].seq = End(q[i + k]) /\ q[i + k].seq < End(q[i + k])
      BY <1>2, <3>1, Zenon
    <3>3. CASE k = 0
      <4>1. i + k = i
        BY <3>3
      <4> QED
        BY <1>1, <3>1, <3>2, <4>1
    <3>4. CASE k # 0
      <4>1. End(q[i]) <= q[i + k].seq
        BY <3>4
      <4> QED
        BY <1>1, <3>1, <3>2, <4>1
    <3> QED
      BY <3>3, <3>4
  <2> HIDE DEF T
  <2>3. \A k \in 0 .. n : k \in T
    BY <2>1, <2>2, Steps
  <2>4. j - i \in T /\ i + (j - i) = j
    BY <1>1, <1>3, <2>3
  <2> QED
    BY <1>1, <1>3, <2>4 DEF T
<1>4. ASSUME NEW i \in 1 .. Len(q), NEW j \in 1 .. Len(q), i < j
      PROVE  q[i].seq < q[j].seq
  BY <1>1, <1>2, <1>3, <1>4
<1> QED
  BY <1>3, <1>4 DEF Rising

\* From some place on, every segment goes to the end.
LEMMA InsertionsAppend ==
  ASSUME NEW q \in Seq(Segments), NEW r \in Seq(Segments), NEW f, Insertions(f, q, r),
         NEW j \in 0 .. Len(r), Rising(f[j] \o After(r, j))
  PROVE  f[Len(r)] = f[j] \o After(r, j)
<1> DEFINE v == f[j]
           w == After(r, j)
           n == Len(w)
           T == {k \in 0 .. n : f[j + k] = v \o SubSeq(w, 1, k)}
<1>1. /\ Len(r) \in Nat /\ v \in Seq(Segments) /\ Len(v) \in Nat
      /\ f \in [0 .. Len(r) -> Seq(Segments)]
      /\ \A k \in 1 .. Len(r) : f[k] = Insert(f[k - 1], r[k])
  BY LenProperties DEF Insertions
<1>2. /\ w \in Seq(Segments) /\ n = Len(r) - j /\ n \in Nat
      /\ \A i \in 1 .. n : w[i] = r[j + i]
  BY <1>1, Parts
<1> HIDE DEF w, v
<1>3. T \in SUBSET (0 .. n) /\ 0 \in T
  <2>1. SubSeq(w, 1, 0) = <<>> /\ v \o <<>> = v
    BY <1>1, SubSeqEmpty, ConcatEmptySeq
  <2>2. f[j + 0] = v /\ 0 \in 0 .. n
    BY <1>2 DEF v
  <2> QED
    BY <2>1, <2>2
<1>4. ASSUME NEW k \in T, k < n PROVE k + 1 \in T
  <2> DEFINE a == SubSeq(w, 1, k)
             b == v \o a
             m == k + 1
             s == w[m]
  <2>1. m \in 1 .. n /\ j + m \in 1 .. Len(r) /\ (j + m) - 1 = j + k /\ k \in 0 .. n
        /\ m \in 0 .. n /\ k \in Nat
    BY <1>1, <1>2, <1>4
  <2>2. f[j + m] = Insert(f[(j + m) - 1], r[j + m])
    BY <1>1, <2>1, Zenon
  <2>3. f[j + k] = b /\ r[j + m] = s
    BY <1>2, <2>1
  <2>4. f[j + m] = Insert(b, s)
    BY <2>1, <2>2, <2>3, Zenon
  <2>5. s \in Segments
    BY <1>2, <2>1, SegmentsOf
  <2>6. a \in Seq(Segments) /\ Len(a) = k /\ \A i \in 1 .. k : a[i] = w[i]
    BY <1>2, <2>1, Parts
  <2>7. b \in Seq(Segments) /\ Len(b) = Len(v) + k
        /\ \A i \in 1 .. Len(v) + k : b[i] = (v \o w)[i]
    <3>1. /\ b \in Seq(Segments) /\ Len(b) = Len(v) + Len(a)
          /\ \A i \in 1 .. Len(v) + Len(a) : b[i] = IF i <= Len(v) THEN v[i] ELSE a[i - Len(v)]
      BY <1>1, <2>6, ConcatProperties
    <3>2. \A i \in 1 .. Len(v) + Len(w) : (v \o w)[i] = IF i <= Len(v) THEN v[i] ELSE w[i - Len(v)]
      BY <1>1, <1>2, ConcatProperties
    <3>3. ASSUME NEW i \in 1 .. Len(v) + k PROVE b[i] = (v \o w)[i]
      <4>1. i \in 1 .. Len(v) + Len(w) /\ (~(i <= Len(v)) => i - Len(v) \in 1 .. k)
        BY <1>1, <2>1
      <4> QED
        BY <2>6, <3>1, <3>2, <4>1
    <3> QED
      BY <2>6, <3>1, <3>3
  <2>8. (v \o w)[Len(v) + m] = s /\ Len(v) + m \in 1 .. Len(v \o w)
        /\ 1 .. Len(v) + k \subseteq 1 .. Len(v \o w)
        /\ \A i \in 1 .. Len(v) + k : i < Len(v) + m
    BY <1>1, <1>2, <2>1, ConcatProperties
  <2>9. \A i \in 1 .. Len(b) : b[i].seq < s.seq
    <3>1. \A i, h \in 1 .. Len(v \o w) : i < h => (v \o w)[i].seq < (v \o w)[h].seq
      BY Zenon DEF Rising, v, w
    <3> HIDE DEF b, s, m
    <3> QED
      BY <2>7, <2>8, <3>1
  <2>10. f[j + m] = b \o <<s>>
    BY <2>4, <2>5, <2>7, <2>9, InsertIsQueue
  <2>11. SubSeq(w, 1, m) = a \o <<s>>
    <3>1. m \in 1 .. Len(w) /\ 1 \in 1 .. Len(w) /\ m - 1 = k
      BY <2>1
    <3>2. SubSeq(w, 1, m) = SubSeq(w, 1, m - 1) \o <<w[m]>>
      BY <1>2, <3>1, SubSeqRecursiveSecond
    <3> QED
      BY <3>1, <3>2
  <2>12. b \o <<s>> = v \o (a \o <<s>>)
    <3> DEFINE t == <<s>>
    <3>1. t \in Seq(Segments) /\ v \in Seq(Segments) /\ a \in Seq(Segments)
      BY <1>1, <2>5, <2>6
    <3> HIDE DEF a, s, t
    <3>2. (v \o a) \o t = v \o (a \o t)
      BY <3>1, Regroup, Zenon
    <3> QED
      BY <3>2, Zenon DEF t
  <2>13. f[j + m] = v \o SubSeq(w, 1, m)
    BY <2>10, <2>11, <2>12, Zenon
  <2> QED
    BY <2>1, <2>13
<1>5. n \in T
  <2> HIDE DEF T, n
  <2>1. \A k \in 0 .. n : k \in T
    BY <1>2, <1>3, <1>4, Steps
  <2> QED
    BY <1>2, <2>1
<1>6. f[j + n] = v \o SubSeq(w, 1, n) /\ j + n = Len(r)
  BY <1>1, <1>2, <1>5
<1>7. SubSeq(w, 1, n) = w
  BY <1>2, SubSeqFull
<1> QED
  BY <1>6, <1>7 DEF v, w

\* What follows unacked in the stream goes behind it.
LEMMA AppendsInOrder ==
  ASSUME NEW q \in Seq(Segments), NEW r \in Seq(Segments), Rising(q \o r)
  PROVE  FoldLeft(Insert, q, r) = q \o r
<1>1. PICK f : Insertions(f, q, r) /\ FoldLeft(Insert, q, r) = f[Len(r)]
  BY FoldInserts
<1>2. After(r, 0) = r /\ f[0] = q
  BY <1>1, SubSeqFull DEF After, Insertions
<1>3. PICK j \in 0 .. Len(r) : j = 0
  BY LenProperties
<1>4. Rising(f[j] \o After(r, j)) /\ Insertions(f, q, r)
  BY <1>1, <1>2, <1>3
<1>5. f[Len(r)] = f[j] \o After(r, j)
  BY <1>4, InsertionsAppend
<1> QED
  BY <1>1, <1>2, <1>3, <1>5

\* The segment that is sent again goes back to the head of unacked.
LEMMA ReturnsInOrder ==
  ASSUME NEW s \in Segments, NEW q \in Seq(Segments), NEW r \in Seq(Segments),
         Rising((<<s>> \o q) \o r)
  PROVE  FoldLeft(Insert, q, <<s>> \o r) = (<<s>> \o q) \o r
<1> DEFINE w == <<s>> \o r
           u == <<s>> \o q
<1>1. <<s>> \in Seq(Segments) /\ Len(<<s>>) = 1 /\ <<s>>[1] = s
  OBVIOUS
<1>2. /\ w \in Seq(Segments) /\ Len(w) = 1 + Len(r) /\ w[1] = s
      /\ \A i \in 1 .. Len(r) : w[1 + i] = r[i]
  BY <1>1, ConcatProperties, LenProperties
<1>3. /\ u \in Seq(Segments) /\ Len(u) = 1 + Len(q) /\ u[1] = s
      /\ \A i \in 1 .. Len(q) : u[1 + i] = q[i]
  BY <1>1, ConcatProperties, LenProperties
<1>4. Len(q) \in Nat /\ Len(r) \in Nat
  BY LenProperties
<1>5. After(w, 1) = r
  <2>1. /\ After(w, 1) \in Seq(Segments) /\ Len(After(w, 1)) = Len(w) - 1
        /\ \A i \in 1 .. Len(w) - 1 : After(w, 1)[i] = w[1 + i]
    <3>1. 1 \in 0 .. Len(w)
      BY <1>2, <1>4
    <3> HIDE DEF w
    <3> QED
      BY <1>2, <3>1, Parts
  <2>2. Len(After(w, 1)) = Len(r) /\ \A i \in 1 .. Len(r) : After(w, 1)[i] = r[i]
    BY <1>2, <1>4, <2>1
  <2> HIDE DEF w
  <2> QED
    BY <2>1, <2>2, SeqEqual
<1>6. \A i \in 1 .. Len(q) : s.seq < q[i].seq
  <2>1. /\ u \o r \in Seq(Segments) /\ Len(u \o r) = Len(u) + Len(r)
        /\ \A i \in 1 .. Len(u) : (u \o r)[i] = u[i]
    BY <1>3, <1>4, ConcatProperties
  <2>2. \A i, j \in 1 .. Len(u \o r) : i < j => (u \o r)[i].seq < (u \o r)[j].seq
    BY Zenon DEF Rising
  <2> HIDE DEF u
  <2>3. ASSUME NEW i \in 1 .. Len(q) PROVE s.seq < q[i].seq
    <3>1. 1 \in 1 .. Len(u) /\ 1 + i \in 1 .. Len(u) /\ 1 < 1 + i
          /\ 1 \in 1 .. Len(u \o r) /\ 1 + i \in 1 .. Len(u \o r)
      BY <1>3, <1>4, <2>1
    <3> QED
      BY <1>3, <2>1, <2>2, <3>1
  <2> QED
    BY <2>3
<1>7. PICK f : Insertions(f, q, w) /\ FoldLeft(Insert, q, w) = f[Len(w)]
  BY <1>2, FoldInserts
<1>8. f[1] = u
  <2>1. f[1] = Insert(f[1 - 1], w[1]) /\ f[0] = q
    BY <1>2, <1>4, <1>7 DEF Insertions
  <2>2. Insert(q, s) = u
    BY <1>6, InsertIsQueue
  <2> QED
    BY <1>2, <2>1, <2>2
<1>9. 1 \in 0 .. Len(w) /\ Rising(f[1] \o After(w, 1))
  <2>1. 1 \in 0 .. Len(w)
    BY <1>2, <1>4
  <2> QED
    BY <1>5, <1>8, <2>1, Zenon
<1> HIDE DEF u, w
<1>10. f[Len(w)] = f[1] \o After(w, 1)
  BY <1>2, <1>7, <1>9, InsertionsAppend
<1> QED
  BY <1>5, <1>7, <1>8, <1>10 DEF u, w
-----------------------------------------------------------------------------
(* tcp_output *)

LEMMA BlockFacts ==
  ASSUME NEW p \in Blocks
  PROVE  /\ p.unsent \in Seq(Segments) /\ p.unacked \in Seq(Segments)
         /\ Stream(p) \in Seq(Segments)
         /\ p.lbb \in Nat /\ p.nxt \in Nat /\ p.lastack \in Nat /\ p.queuelen \in Nat
         /\ p.cwnd \in Nat /\ p.wnd \in Nat /\ p.wl2 \in Nat /\ p.buf \in 0 .. U16Max
<1>1. /\ p.unsent \in Seq(Segments) /\ p.unacked \in Seq(Segments)
      /\ p.lbb \in Nat /\ p.nxt \in Nat /\ p.lastack \in Nat /\ p.queuelen \in Nat
      /\ p.cwnd \in Nat /\ p.wnd \in Nat /\ p.wl2 \in Nat /\ p.buf \in 0 .. U16Max
  BY DEF Blocks
<1> QED
  BY <1>1, ConcatProperties DEF Stream

LEMMA LeastOfTwo ==
  ASSUME NEW m \in Nat, NEW n \in Nat
  PROVE  Min({m, n}) = IF m <= n THEN m ELSE n
<1> DEFINE k == IF m <= n THEN m ELSE n
<1>1. k \in {m, n} /\ \A y \in {m, n} : k <= y
  OBVIOUS
<1>2. Min({m, n}) \in {m, n} /\ \A y \in {m, n} : Min({m, n}) <= y
  <2> HIDE DEF k
  <2> QED
    BY <1>1, Zenon DEF Min
<1>3. PICK x : x = Min({m, n})
  OBVIOUS
<1>4. x \in {m, n} /\ \A y \in {m, n} : x <= y
  BY <1>2, <1>3, Zenon
<1>5. x = k
  BY <1>4
<1> QED
  BY <1>3, <1>5, Zenon

\* What tcp_output leaves alone.
SameRest(o, p) ==
  /\ o.state = p.state /\ o.lbb = p.lbb /\ o.lastack = p.lastack /\ o.buf = p.buf
  /\ o.queuelen = p.queuelen /\ o.cwnd = p.cwnd /\ o.wnd = p.wnd /\ o.wl2 = p.wl2
  /\ o.infr = p.infr /\ o.nrtx = p.nrtx /\ o.input = p.input

\* tcp_output makes o of p, and the first n unsent segments are sent.
Sends(p, o, n) ==
  /\ o \in Blocks /\ n \in 0 .. Len(p.unsent) /\ SameRest(o, p)
  /\ o.unsent = After(p.unsent, n)
  /\ o.unacked = FoldLeft(Insert, p.unacked, SubSeq(p.unsent, 1, n))
  /\ o.timing = (p.timing \/ n # 0)
  /\ p.nxt <= o.nxt
  /\ \A i \in 1 .. n : End(p.unsent[i]) <= o.nxt /\ Fits(p, p.unsent[i], p.wnd)
  /\ o.nxt = p.nxt \/ \E i \in 1 .. n : o.nxt = End(p.unsent[i])
  /\ n < Len(p.unsent) => \/ ~Fits(p, p.unsent[n + 1], Min({p.wnd, p.cwnd}))
                          \/ ~NagleAllows(p, n + 1)

IsFurthest(x, m, q) ==
  /\ x \in Nat /\ m <= x
  /\ \A i \in 1 .. Len(q) : End(q[i]) <= x
  /\ x = m \/ \E i \in 1 .. Len(q) : x = End(q[i])

\* The furthest that has been sent, when all of it is below b.
LEMMA Furthest ==
  ASSUME NEW b \in Nat, NEW m \in 0 .. b, NEW q \in Seq(Segments),
         \A i \in 1 .. Len(q) : End(q[i]) <= b,
         NEW x, x = Max({m} \cup {End(q[i]) : i \in 1 .. Len(q)})
  PROVE  IsFurthest(x, m, q)
<1> DEFINE S == {m} \cup {End(q[i]) : i \in 1 .. Len(q)}
<1>1. Len(q) \in Nat /\ \A i \in 1 .. Len(q) : End(q[i]) \in Nat
  BY SegmentsOf
<1>2. /\ m \in S /\ \A i \in 1 .. Len(q) : End(q[i]) \in S
      /\ \A y \in S : y = m \/ \E i \in 1 .. Len(q) : y = End(q[i])
  OBVIOUS
<1> HIDE DEF S
<1>3. S \in SUBSET (0 .. b) /\ S # {}
  BY <1>1, <1>2
<1>4. Max(S) \in S /\ \A y \in S : y <= Max(S)
  BY <1>3, Greatest, Zenon
<1>5. x \in S /\ \A y \in S : y <= x
  BY <1>4, Zenon DEF S
<1>6. x \in Nat
  BY <1>3, <1>5
<1> QED
  BY <1>2, <1>5, <1>6, Zenon DEF IsFurthest

\* In a stream every segment ends behind what is acknowledged, and not behind
\* what has been written.
LEMMA StreamSpans ==
  ASSUME NEW p \in Blocks, Chained(Stream(p)), Spans(p)
  PROVE  /\ \A i \in 1 .. Len(Stream(p)) : /\ p.lastack < End(Stream(p)[i])
                                           /\ End(Stream(p)[i]) <= p.lbb
         /\ Rising(Stream(p))
<1> DEFINE q == Stream(p)
           n == Len(q)
<1>1. q \in Seq(Segments) /\ p.lastack \in Nat /\ p.lbb \in Nat /\ n \in Nat
  BY BlockFacts, LenProperties
<1>2. /\ \A i \in 1 .. n : q[i].seq \in Nat /\ End(q[i]) \in Nat /\ q[i].seq <= End(q[i])
      /\ \A i, j \in 1 .. n : i < j => End(q[i]) <= q[j].seq
      /\ Rising(q)
  BY <1>1, SegmentsOf, ChainRises
<1>3. ASSUME NEW i \in 1 .. n
      PROVE  p.lastack < End(q[i]) /\ End(q[i]) <= p.lbb
  <2>1. 1 \in 1 .. n /\ n \in 1 .. n /\ q # <<>>
    BY <1>1, <1>3
  <2>2. p.lastack < End(q[1]) /\ End(q[n]) = p.lbb
    BY <2>1, Zenon DEF Spans
  <2> HIDE DEF q, n
  <2>3. i = 1 \/ End(q[1]) <= q[i].seq
    BY <1>1, <1>2, <2>1
  <2>4. i = n \/ End(q[i]) <= q[n].seq
    BY <1>1, <1>2, <2>1
  <2>5. p.lastack < End(q[i])
    BY <1>1, <1>2, <2>1, <2>2, <2>3
  <2> QED
    BY <1>1, <1>2, <2>1, <2>2, <2>4, <2>5
<1> QED
  BY <1>2, <1>3

\* Where the segments of the stream are.
LEMMA StreamPlaces ==
  ASSUME NEW p \in Blocks
  PROVE  /\ Len(p.unacked) \in Nat /\ Len(p.unsent) \in Nat
         /\ Len(Stream(p)) = Len(p.unacked) + Len(p.unsent)
         /\ \A i \in 1 .. Len(p.unacked) : /\ i \in 1 .. Len(Stream(p))
                                           /\ Stream(p)[i] = p.unacked[i]
         /\ \A i \in 1 .. Len(p.unsent) : /\ Len(p.unacked) + i \in 1 .. Len(Stream(p))
                                          /\ Stream(p)[Len(p.unacked) + i] = p.unsent[i]
<1>1. p.unsent \in Seq(Segments) /\ p.unacked \in Seq(Segments)
  BY BlockFacts
<1> DEFINE q == p.unacked
           r == p.unsent
<1>2. /\ Len(q) \in Nat /\ Len(r) \in Nat /\ Len(q \o r) = Len(q) + Len(r)
      /\ \A i \in 1 .. Len(q) + Len(r) : (q \o r)[i] = IF i <= Len(q) THEN q[i] ELSE r[i - Len(q)]
  BY <1>1, LenProperties, ConcatProperties
<1> HIDE DEF q, r
<1>3. \A i \in 1 .. Len(q) : i \in 1 .. Len(q \o r) /\ (q \o r)[i] = q[i]
  BY <1>2
<1>4. \A i \in 1 .. Len(r) : /\ Len(q) + i \in 1 .. Len(q \o r)
                             /\ (q \o r)[Len(q) + i] = r[i]
  BY <1>2
<1> QED
  BY <1>2, <1>3, <1>4, Zenon DEF q, r, Stream

LEMMA FitsMore ==
  ASSUME NEW p \in Blocks, NEW s \in Segments, NEW m \in Nat, NEW n \in Nat, m <= n,
         Fits(p, s, m)
  PROVE  Fits(p, s, n)
<1> DEFINE e == s.seq + s.len
           l == p.lastack
<1>1. e \in Nat
  BY DEF Segments
<1>2. l \in Nat
  BY BlockFacts
<1>3. e <= l + m
  BY Zenon DEF Fits
<1> HIDE DEF e, l
<1>4. e <= l + n
  BY <1>1, <1>2, <1>3
<1> QED
  BY <1>4, Zenon DEF e, l, Fits

LEMMA OutputSends ==
  ASSUME NEW p \in Blocks, ~p.input, p.nxt <= p.lbb,
         \A i \in 1 .. Len(p.unsent) : End(p.unsent[i]) <= p.lbb
  PROVE  \E n : Emitted(p) = SubSeq(p.unsent, 1, n) /\ Sends(p, Output(p), n)
<1> DEFINE S == {i \in 1 .. Len(p.unsent) : /\ Fits(p, p.unsent[i], Min({p.wnd, p.cwnd}))
                                            /\ NagleAllows(p, i)}
           n == Leading(S)
           sent == SubSeq(p.unsent, 1, n)
           o == Output(p)
           x == Max({p.nxt} \cup {End(sent[i]) : i \in 1 .. Len(sent)})
           u == FoldLeft(Insert, p.unacked, sent)
           rest == After(p.unsent, n)
<1>1. /\ p.unsent \in Seq(Segments) /\ p.unacked \in Seq(Segments)
      /\ p.lbb \in Nat /\ p.nxt \in Nat /\ p.wnd \in Nat /\ p.cwnd \in Nat /\ p.lastack \in Nat
  BY BlockFacts
<1>2. /\ Len(p.unsent) \in Nat
      /\ \A i \in 1 .. Len(p.unsent) : /\ p.unsent[i].seq \in Nat /\ p.unsent[i].len \in Nat
                                       /\ End(p.unsent[i]) \in Nat
  BY <1>1, SegmentsOf
<1>3. n \in 0 .. Len(p.unsent) /\ (\A i \in 1 .. n : i \in S) /\ n + 1 \notin S
  <2>1. S \in SUBSET (1 .. Len(p.unsent))
    OBVIOUS
  <2> HIDE DEF S
  <2> QED
    BY <1>2, <2>1, LeadingRun
<1>4. Emitted(p) = sent
  BY Zenon DEF Emitted
<1>5. \A i \in 1 .. n : i \in 1 .. Len(p.unsent) /\ Fits(p, p.unsent[i], Min({p.wnd, p.cwnd}))
  BY <1>3
<1>6. n < Len(p.unsent) => \/ ~Fits(p, p.unsent[n + 1], Min({p.wnd, p.cwnd}))
                           \/ ~NagleAllows(p, n + 1)
  <2>1. n < Len(p.unsent) => n + 1 \in 1 .. Len(p.unsent)
    BY <1>2, <1>3
  <2> DEFINE m == n + 1
  <2>2. (n < Len(p.unsent) => m \in 1 .. Len(p.unsent)) /\ m \notin S
    BY <1>3, <2>1
  <2> HIDE DEF m, n
  <2>3. n < Len(p.unsent) => \/ ~Fits(p, p.unsent[m], Min({p.wnd, p.cwnd}))
                             \/ ~NagleAllows(p, m)
    BY <2>2, Zenon
  <2> QED
    BY <2>3, Zenon DEF m
<1> HIDE DEF S, n
<1>7. /\ sent \in Seq(Segments) /\ Len(sent) = n /\ rest \in Seq(Segments)
      /\ \A i \in 1 .. n : sent[i] = p.unsent[i]
  BY <1>1, <1>3, Parts
<1>8. \A i \in 1 .. n : Fits(p, p.unsent[i], p.wnd)
  <2>1. PICK m : m = Min({p.wnd, p.cwnd})
    OBVIOUS
  <2>2. m \in Nat /\ m <= p.wnd
    BY <1>1, <2>1, LeastOfTwo
  <2>3. \A i \in 1 .. n : i \in 1 .. Len(p.unsent) /\ Fits(p, p.unsent[i], m)
    BY <1>5, <2>1, Zenon
  <2> HIDE DEF o, x, u, rest, sent
  <2>4. ASSUME NEW i \in 1 .. n PROVE Fits(p, p.unsent[i], p.wnd)
    <3>1. p.unsent[i] \in Segments /\ Fits(p, p.unsent[i], m)
      BY <1>1, <2>3, SegmentsOf
    <3> QED
      BY <1>1, <2>2, <3>1, FitsMore, Zenon
  <2> QED
    BY <2>4
<1>9. /\ x \in Nat /\ p.nxt <= x
      /\ \A i \in 1 .. n : End(p.unsent[i]) <= x
      /\ x = p.nxt \/ \E i \in 1 .. n : x = End(p.unsent[i])
  <2>1. p.nxt \in 0 .. p.lbb /\ \A i \in 1 .. Len(sent) : End(sent[i]) <= p.lbb
    BY <1>1, <1>5, <1>7
  <2> HIDE DEF sent, x
  <2>2. IsFurthest(x, p.nxt, sent)
    BY <1>1, <1>7, <2>1, Furthest, Zenon DEF x
  <2> QED
    BY <1>7, <2>2 DEF IsFurthest
<1>10. u \in Seq(Segments)
  <2>1. PICK f : Insertions(f, p.unacked, sent) /\ u = f[Len(sent)]
    BY <1>1, <1>7, FoldInserts
  <2>2. Len(sent) \in 0 .. Len(sent) /\ f \in [0 .. Len(sent) -> Seq(Segments)]
    BY <1>7, <2>1, LenProperties DEF Insertions
  <2> QED
    BY <2>1, <2>2
<1>11. (sent # <<>>) = (n # 0)
  BY <1>3, <1>7
<1>12. After(p.unsent, Len(sent)) = rest
  BY <1>7
<1> HIDE DEF sent, x, u, rest
<1>13. \E b \in BOOLEAN :
         o = [p EXCEPT !.unsent = rest, !.unacked = u, !.nxt = x,
                       !.timing = @ \/ sent # <<>>, !.persist = @ \/ b, !.memerr = FALSE]
  <2> DEFINE b == rest # <<>> /\ ~Fits(p, rest[1], p.wnd)
  <2>1. b \in BOOLEAN
    OBVIOUS
  <2>2. o = [p EXCEPT !.unsent = rest, !.unacked = u, !.nxt = x,
                      !.timing = @ \/ sent # <<>>, !.persist = @ \/ b, !.memerr = FALSE]
    <3> DEFINE Out(s, r, v, y, c) ==
                 [p EXCEPT !.unsent = r, !.unacked = v, !.nxt = y,
                           !.timing = @ \/ s # <<>>, !.persist = @ \/ c, !.memerr = FALSE]
    <3>1. ~p.input => o = Out(Emitted(p), After(p.unsent, Len(Emitted(p))),
                              FoldLeft(Insert, p.unacked, Emitted(p)),
                              Max({p.nxt} \cup {End(Emitted(p)[i]) : i \in 1 .. Len(Emitted(p))}),
                              /\ After(p.unsent, Len(Emitted(p))) # <<>>
                              /\ ~Fits(p, After(p.unsent, Len(Emitted(p)))[1], p.wnd))
      BY Zenon DEF Output
    <3> HIDE DEF Out
    <3>2. ~p.input => o = Out(sent, After(p.unsent, Len(sent)), u, x,
                              /\ After(p.unsent, Len(sent)) # <<>>
                              /\ ~Fits(p, After(p.unsent, Len(sent))[1], p.wnd))
      BY <1>4, <3>1, Zenon DEF u, x
    <3>3. ~p.input => o = Out(sent, rest, u, x, b)
      BY <1>12, <3>2, Zenon
    <3> QED
      BY <3>3, Zenon DEF Out
  <2> HIDE DEF b, o
  <2> QED
    BY <2>1, <2>2
<1>14. PICK b \in BOOLEAN :
         o = [p EXCEPT !.unsent = rest, !.unacked = u, !.nxt = x,
                       !.timing = @ \/ sent # <<>>, !.persist = @ \/ b, !.memerr = FALSE]
  BY <1>13
<1> HIDE DEF o
<1>15. /\ o \in Blocks /\ SameRest(o, p) /\ o.unsent = rest /\ o.unacked = u /\ o.nxt = x
       /\ o.timing = (p.timing \/ sent # <<>>)
  BY <1>7, <1>9, <1>10, <1>14 DEF Blocks, SameRest
<1>16. Sends(p, o, n)
  BY <1>3, <1>5, <1>6, <1>8, <1>9, <1>11, <1>15 DEF Sends, rest, u, sent
<1> QED
  BY <1>4, <1>16 DEF o, sent
\* A sound block, and one that waits for nothing but the window or the client.
Ready(p) == p \in Blocks /\ Sound(p) /\ p.lastack <= p.nxt /\ p.nxt <= p.lbb

Due(p) == p.unsent # <<>> /\ p.unacked = <<>> => ~Fits(p, p.unsent[1], p.wnd)

LEMMA SameStream ==
  ASSUME NEW o \in Blocks, NEW q \in Blocks, Stream(o) = Stream(q),
         o.lastack = q.lastack, o.lbb = q.lbb, o.buf = q.buf, o.state = q.state,
         o.queuelen = q.queuelen, Chained(Stream(q)), Spans(q), Counted(q)
  PROVE  Chained(Stream(o)) /\ Spans(o) /\ Counted(o)
<1>1. Chained(Stream(o)) /\ Spans(o)
  BY Zenon DEF Spans
<1>2. Pbufs(o.unsent) + Pbufs(o.unacked) = Pbufs(q.unsent) + Pbufs(q.unacked)
  <2>1. /\ Pbufs(o.unacked) \in Nat /\ Pbufs(o.unsent) \in Nat
        /\ Pbufs(Stream(o)) = Pbufs(o.unacked) + Pbufs(o.unsent)
    BY BlockFacts, PbufsParts, Zenon DEF Stream
  <2>2. /\ Pbufs(q.unacked) \in Nat /\ Pbufs(q.unsent) \in Nat
        /\ Pbufs(Stream(q)) = Pbufs(q.unacked) + Pbufs(q.unsent)
    BY BlockFacts, PbufsParts, Zenon DEF Stream
  <2> QED
    BY <2>1, <2>2
<1>3. Counted(o)
  BY <1>2, Zenon DEF Counted
<1> QED
  BY <1>1, <1>3

\* What tcp_output makes of p, if that holds the stream of q.
LEMMA SendsSound ==
  ASSUME NEW q, Ready(q), NEW p \in Blocks, NEW o, NEW n, Sends(p, o, n),
         p.state = q.state, p.lbb = q.lbb, p.lastack = q.lastack, p.buf = q.buf,
         p.queuelen = q.queuelen, p.wnd = q.wnd, p.wl2 = q.wl2, p.nxt = q.nxt,
         p.timing = q.timing, Mss <= p.cwnd,
         \A i \in 1 .. Len(p.unsent) : End(p.unsent[i]) <= p.lbb,
         Stream(o) = Stream(q),
         \A i \in 1 .. Len(o.unacked) : \/ \E j \in 1 .. Len(q.unacked) : o.unacked[i] = q.unacked[j]
                                        \/ \E j \in 1 .. n : o.unacked[i] = p.unsent[j],
         o.unacked = <<>> => q.unacked = <<>> /\ p.unacked = <<>> /\ n = 0,
         o.unacked # <<>> => q.unacked # <<>> \/ n # 0
  PROVE  /\ Ready(o) /\ Due(o) /\ SameRest(o, p) /\ p.nxt <= o.nxt
         /\ \A i \in 1 .. n : End(p.unsent[i]) <= o.nxt
         /\ \A x \in Nat : MayHave(q, x) => MayHave(o, x)
<1>1. /\ o \in Blocks /\ n \in 0 .. Len(p.unsent) /\ SameRest(o, p)
      /\ o.unsent = After(p.unsent, n)
      /\ o.timing = (p.timing \/ n # 0)
      /\ p.nxt <= o.nxt
      /\ \A i \in 1 .. n : End(p.unsent[i]) <= o.nxt /\ Fits(p, p.unsent[i], p.wnd)
      /\ o.nxt = p.nxt \/ \E i \in 1 .. n : o.nxt = End(p.unsent[i])
      /\ n < Len(p.unsent) => \/ ~Fits(p, p.unsent[n + 1], Min({p.wnd, p.cwnd}))
                              \/ ~NagleAllows(p, n + 1)
  BY Zenon DEF Sends
<1>2. /\ o.state = p.state /\ o.lbb = p.lbb /\ o.lastack = p.lastack /\ o.buf = p.buf
      /\ o.queuelen = p.queuelen /\ o.cwnd = p.cwnd /\ o.wnd = p.wnd /\ o.wl2 = p.wl2
  BY <1>1, Zenon DEF SameRest
<1>3. /\ q \in Blocks /\ q.lastack <= q.nxt /\ q.nxt <= q.lbb
      /\ Chained(Stream(q)) /\ Spans(q) /\ Sent(q) /\ Counted(q)
      /\ (q.unacked # <<>> => q.timing) /\ q.lastack <= q.wl2
  BY Zenon DEF Ready, Sound
<1>4. Chained(Stream(o)) /\ Spans(o) /\ Counted(o)
  BY <1>1, <1>2, <1>3, SameStream, Zenon
<1>5. /\ q.lastack \in Nat /\ q.nxt \in Nat /\ q.lbb \in Nat
      /\ o.nxt \in Nat /\ o.wnd \in Nat /\ o.cwnd \in Nat
      /\ p.unsent \in Seq(Segments) /\ o.unacked \in Seq(Segments) /\ o.unsent \in Seq(Segments)
      /\ q.unacked \in Seq(Segments)
  BY <1>1, <1>3, BlockFacts
<1>6. Sent(o)
  <2>1. ASSUME NEW i \in 1 .. Len(o.unacked)
        PROVE  End(o.unacked[i]) <= o.nxt /\ Fits(o, o.unacked[i], o.wnd)
    <3>1. CASE \E j \in 1 .. Len(q.unacked) : o.unacked[i] = q.unacked[j]
      <4>1. PICK j \in 1 .. Len(q.unacked) : o.unacked[i] = q.unacked[j]
        BY <3>1
      <4>2. End(q.unacked[j]) <= q.nxt /\ Fits(q, q.unacked[j], q.wnd)
        BY <1>3, Zenon DEF Sent
      <4>3. End(q.unacked[j]) \in Nat
        BY <1>5, SegmentsOf
      <4>4. q.nxt <= o.nxt
        BY <1>1
      <4>5. End(o.unacked[i]) <= o.nxt
        BY <1>5, <4>1, <4>2, <4>3, <4>4
      <4>6. Fits(o, o.unacked[i], o.wnd)
        BY <1>2, <4>1, <4>2, Zenon DEF Fits
      <4> QED
        BY <4>5, <4>6
    <3>2. CASE \E j \in 1 .. n : o.unacked[i] = p.unsent[j]
      BY <1>1, <1>2, <3>2, Zenon DEF Fits
    <3> QED
      BY <3>1, <3>2
  <2> QED
    BY <2>1, Zenon DEF Sent
<1>7. o.unacked # <<>> => o.timing
  BY <1>1, <1>3
<1>8. Sound(o)
  BY <1>2, <1>3, <1>4, <1>6, <1>7 DEF Sound
<1>9. o.lastack <= o.nxt /\ o.nxt <= o.lbb
  <2>1. o.nxt <= o.lbb
    <3>1. CASE o.nxt = p.nxt
      BY <1>2, <1>3, <3>1
    <3>2. CASE \E i \in 1 .. n : o.nxt = End(p.unsent[i])
      <4>1. PICK i \in 1 .. n : o.nxt = End(p.unsent[i])
        BY <3>2
      <4>2. i \in 1 .. Len(p.unsent)
        BY <1>1, <1>5, LenProperties
      <4> QED
        BY <1>2, <4>1, <4>2
    <3> QED
      BY <1>1, <3>1, <3>2
  <2>2. o.lastack = q.lastack /\ q.nxt <= o.nxt
    BY <1>1, <1>2
  <2>3. o.lastack <= o.nxt
    BY <1>3, <1>5, <2>2
  <2> QED
    BY <2>1, <2>3
<1>10. Due(o)
  <2> SUFFICES ASSUME o.unsent # <<>>, o.unacked = <<>>, Fits(o, o.unsent[1], o.wnd)
               PROVE  FALSE
    BY Zenon DEF Due
  <2>1. n = 0 /\ p.unacked = <<>>
    OBVIOUS
  <2>2. o.unsent = p.unsent
    <3>1. After(p.unsent, 0) = p.unsent
      BY <1>5, SubSeqFull DEF After
    <3> QED
      BY <1>1, <2>1, <3>1
  <2>3. Len(p.unsent) \in Nat /\ 0 < Len(p.unsent) /\ 1 \in 1 .. Len(p.unsent)
    BY <1>5, <2>2, EmptySeq, LenProperties
  <2>4. NagleAllows(p, n + 1)
    BY <2>1 DEF NagleAllows
  <2> DEFINE s == o.unsent[1]
  <2>5. ~Fits(p, s, Min({p.wnd, p.cwnd}))
    <3>1. n + 1 = 1 /\ n < Len(p.unsent)
      BY <2>1, <2>3
    <3> QED
      BY <1>1, <2>2, <2>4, <3>1
  <2>6. /\ s \in Segments /\ s.seq \in Nat /\ s.len \in Nat /\ s.len <= Mss
    BY <1>5, <2>2, <2>3, SegmentsOf
  <2>7. s.seq <= o.lastack
    <3>1. Stream(o) = o.unsent
      BY <1>5, ConcatEmptySeq DEF Stream
    <3> QED
      BY <1>4, <3>1, Zenon DEF Spans
  <2>8. Fits(p, s, p.wnd)
    BY <1>2, Zenon DEF Fits
  <2>9. Fits(p, s, p.cwnd)
    <3>1. p.lastack \in Nat /\ p.cwnd \in Nat /\ s.seq <= p.lastack /\ s.len <= p.cwnd
      BY <1>2, <2>6, <2>7, BlockFacts, SenderAssumption
    <3> HIDE DEF s
    <3> QED
      BY <2>6, <3>1 DEF Fits
  <2>10. Min({p.wnd, p.cwnd}) = p.wnd \/ Min({p.wnd, p.cwnd}) = p.cwnd
    BY BlockFacts, LeastOfTwo
  <2> QED
    BY <2>5, <2>8, <2>9, <2>10, Zenon
<1>11. ASSUME NEW x \in Nat, MayHave(q, x) PROVE MayHave(o, x)
  <2>1. CASE x <= q.nxt
    <3>1. x <= o.nxt
      BY <1>1, <1>5, <2>1
    <3> QED
      BY <3>1 DEF MayHave
  <2>2. CASE q.unacked = <<>> /\ x <= q.lastack + 1
    <3>1. CASE o.unacked = <<>>
      BY <1>2, <2>2, <3>1, Zenon DEF MayHave
    <3>2. CASE o.unacked # <<>>
      <4>1. Len(o.unacked) \in Nat /\ 1 \in 1 .. Len(o.unacked)
        BY <1>5, <3>2, EmptySeq, LenProperties
      <4>2. Stream(o)[1] = o.unacked[1] /\ 1 \in 1 .. Len(Stream(o))
        BY <1>1, <4>1, StreamPlaces
      <4>3. o.lastack < End(Stream(o)[1])
        BY <1>1, <1>4, <4>2, StreamSpans
      <4>4. o.lastack < End(o.unacked[1])
        BY <4>2, <4>3
      <4>5. End(o.unacked[1]) <= o.nxt /\ End(o.unacked[1]) \in Nat
        BY <1>5, <1>6, <4>1, SegmentsOf DEF Sent
      <4>6. x <= o.nxt
        BY <1>2, <1>5, <2>2, <4>4, <4>5
      <4> QED
        BY <4>6 DEF MayHave
    <3> QED
      BY <3>1, <3>2
  <2> QED
    BY <1>11, <2>1, <2>2 DEF MayHave
<1> QED
  BY <1>1, <1>8, <1>9, <1>10, <1>11, Zenon DEF Ready
LEMMA RisingPart ==
  ASSUME NEW q \in Seq(Segments), NEW r \in Seq(Segments), Rising(q \o r)
  PROVE  /\ Rising(q)
         /\ \A i \in 1 .. Len(q), j \in 1 .. Len(r) : q[i].seq < r[j].seq
<1>1. /\ Len(q) \in Nat /\ Len(r) \in Nat /\ Len(q \o r) = Len(q) + Len(r)
      /\ \A i \in 1 .. Len(q) + Len(r) : (q \o r)[i] = IF i <= Len(q) THEN q[i] ELSE r[i - Len(q)]
  BY LenProperties, ConcatProperties
<1>2. \A i, j \in 1 .. Len(q \o r) : i < j => (q \o r)[i].seq < (q \o r)[j].seq
  BY Zenon DEF Rising
<1>3. ASSUME NEW i \in 1 .. Len(q), NEW j \in 1 .. Len(q), i < j PROVE q[i].seq < q[j].seq
  <2>1. /\ i \in 1 .. Len(q \o r) /\ (q \o r)[i] = q[i]
        /\ j \in 1 .. Len(q \o r) /\ (q \o r)[j] = q[j]
    BY <1>1
  <2> QED
    BY <1>2, <1>3, <2>1
<1>4. ASSUME NEW i \in 1 .. Len(q), NEW j \in 1 .. Len(r) PROVE q[i].seq < r[j].seq
  <2>1. /\ i \in 1 .. Len(q \o r) /\ (q \o r)[i] = q[i]
        /\ Len(q) + j \in 1 .. Len(q \o r) /\ (q \o r)[Len(q) + j] = r[j]
        /\ i < Len(q) + j
    BY <1>1
  <2> QED
    BY <1>2, <2>1
<1> QED
  BY <1>3, <1>4 DEF Rising

LEMMA BehindFirst ==
  ASSUME NEW s \in Segments, NEW q \in Seq(Segments), NEW n \in 1 .. Len(q) + 1
  PROVE  /\ SubSeq(<<s>> \o q, 1, n) = <<s>> \o SubSeq(q, 1, n - 1)
         /\ After(<<s>> \o q, n) = After(q, n - 1)
<1> DEFINE w == <<s>> \o q
           r == SubSeq(q, 1, n - 1)
           v == <<s>> \o r
<1>1. <<s>> \in Seq(Segments) /\ Len(<<s>>) = 1 /\ <<s>>[1] = s /\ Len(q) \in Nat
  BY LenProperties
<1>2. /\ w \in Seq(Segments) /\ Len(w) = 1 + Len(q)
      /\ \A i \in 1 .. 1 + Len(q) : w[i] = IF i <= 1 THEN <<s>>[i] ELSE q[i - 1]
  BY <1>1, ConcatProperties
<1>3. n - 1 \in 0 .. Len(q) /\ n \in 0 .. Len(w)
  BY <1>1, <1>2
<1>4. /\ r \in Seq(Segments) /\ Len(r) = n - 1 /\ \A i \in 1 .. n - 1 : r[i] = q[i]
      /\ After(q, n - 1) \in Seq(Segments) /\ Len(After(q, n - 1)) = Len(q) - (n - 1)
      /\ \A i \in 1 .. Len(q) - (n - 1) : After(q, n - 1)[i] = q[(n - 1) + i]
  BY <1>3, Parts
<1> HIDE DEF w, r
<1>5. /\ SubSeq(w, 1, n) \in Seq(Segments) /\ Len(SubSeq(w, 1, n)) = n
      /\ \A i \in 1 .. n : SubSeq(w, 1, n)[i] = w[i]
      /\ After(w, n) \in Seq(Segments) /\ Len(After(w, n)) = Len(w) - n
      /\ \A i \in 1 .. Len(w) - n : After(w, n)[i] = w[n + i]
  BY <1>2, <1>3, Parts
<1>6. /\ v \in Seq(Segments) /\ Len(v) = 1 + Len(r)
      /\ \A i \in 1 .. 1 + Len(r) : v[i] = IF i <= 1 THEN <<s>>[i] ELSE r[i - 1]
  BY <1>1, <1>4, ConcatProperties
<1>7. SubSeq(w, 1, n) = v
  <2>1. Len(v) = n
    BY <1>1, <1>3, <1>4, <1>6
  <2> DEFINE t == SubSeq(w, 1, n)
  <2> HIDE DEF v, t
  <2>2. ASSUME NEW i \in 1 .. n PROVE t[i] = v[i]
    <3>1. t[i] = w[i] /\ i \in 1 .. 1 + Len(q) /\ i \in 1 .. 1 + Len(r)
      BY <1>1, <1>2, <1>3, <1>4, <1>5 DEF t
    <3>2. CASE i = 1
      BY <1>2, <1>6, <3>1, <3>2
    <3>3. CASE i # 1
      <4>1. ~(i <= 1) /\ i - 1 \in 1 .. n - 1
        BY <1>1, <1>3, <3>3
      <4>2. w[i] = q[i - 1] /\ v[i] = r[i - 1]
        BY <1>2, <1>6, <3>1, <4>1
      <4> QED
        BY <1>4, <3>1, <4>1, <4>2
    <3> QED
      BY <3>2, <3>3
  <2>3. t \in Seq(Segments) /\ Len(t) = n
    BY <1>5 DEF t
  <2> QED
    BY <1>6, <2>1, <2>2, <2>3, SeqEqual DEF t
<1>8. After(w, n) = After(q, n - 1)
  <2>1. Len(After(w, n)) = Len(After(q, n - 1))
    BY <1>1, <1>2, <1>3, <1>4, <1>5
  <2> DEFINE t == After(w, n)
             u == After(q, n - 1)
  <2>2. ASSUME NEW i \in 1 .. Len(t) PROVE t[i] = u[i]
    <3>1. /\ i \in 1 .. Len(w) - n /\ i \in 1 .. Len(q) - (n - 1)
          /\ n + i \in 1 .. 1 + Len(q) /\ ~(n + i <= 1) /\ (n + i) - 1 = (n - 1) + i
      BY <1>1, <1>2, <1>3, <1>5
    <3>2. t[i] = w[n + i] /\ u[i] = q[(n - 1) + i]
      BY <1>4, <1>5, <3>1
    <3>3. w[n + i] = q[(n + i) - 1]
      BY <1>2, <3>1
    <3> QED
      BY <3>1, <3>2, <3>3
  <2> QED
    BY <1>4, <1>5, <2>1, <2>2, SeqEqual
<1> QED
  BY <1>7, <1>8 DEF w, r

\* tcp_output makes o of the stream of q, and sends these segments.
Settled(o, q, sent) ==
  /\ Ready(o) /\ (~o.input => Due(o))
  /\ o.state = q.state /\ o.lbb = q.lbb /\ o.lastack = q.lastack
  /\ o.wnd = q.wnd /\ o.wl2 = q.wl2 /\ q.nxt <= o.nxt
  /\ sent \in Seq(Segments) /\ \A i \in 1 .. Len(sent) : End(sent[i]) <= o.nxt
  /\ \A x \in Nat : MayHave(q, x) => MayHave(o, x)

\* The ends of the segments that may be sent.
LEMMA UnsentEnds ==
  ASSUME NEW p \in Blocks, Chained(Stream(p)), Spans(p)
  PROVE  /\ \A i \in 1 .. Len(p.unsent) : /\ p.lastack < End(p.unsent[i])
                                          /\ End(p.unsent[i]) <= p.lbb
         /\ \A i \in 1 .. Len(p.unacked) : /\ p.lastack < End(p.unacked[i])
                                           /\ End(p.unacked[i]) <= p.lbb
BY StreamSpans, StreamPlaces

LEMMA OutputReady ==
  ASSUME NEW p, Ready(p)
  PROVE  Settled(Output(p), p, Emitted(p))
<1> DEFINE o == Output(p)
<1>1. /\ p \in Blocks /\ Chained(Stream(p)) /\ Spans(p) /\ Mss <= p.cwnd
      /\ p.lastack <= p.nxt /\ p.nxt <= p.lbb
  BY Zenon DEF Ready, Sound
<1>2. CASE p.input
  <2>1. o = p /\ Emitted(p) = <<>>
    BY <1>2, Zenon DEF Output, Emitted
  <2>2. <<>> \in Seq(Segments) /\ Len(<<>>) = 0 /\ p.nxt <= p.nxt
    BY <1>1, BlockFacts
  <2>3. \A i \in 1 .. Len(<<>>) : End(<<>>[i]) <= p.nxt
    BY <2>2
  <2> QED
    BY <1>2, <2>1, <2>2, <2>3, Zenon DEF Settled
<1>3. CASE ~p.input
  <2>1. /\ p.unsent \in Seq(Segments) /\ p.unacked \in Seq(Segments)
        /\ \A i \in 1 .. Len(p.unsent) : End(p.unsent[i]) <= p.lbb
    BY <1>1, BlockFacts, UnsentEnds
  <2>2. PICK n : Emitted(p) = SubSeq(p.unsent, 1, n) /\ Sends(p, o, n)
    BY <1>1, <1>3, <2>1, OutputSends, Zenon
  <2> DEFINE sent == SubSeq(p.unsent, 1, n)
             rest == After(p.unsent, n)
  <2> HIDE DEF o
  <2>3. /\ o \in Blocks /\ n \in 0 .. Len(p.unsent) /\ SameRest(o, p) /\ o.unsent = rest
        /\ o.unacked = FoldLeft(Insert, p.unacked, sent)
    BY <2>2, Zenon DEF Sends
  <2>4. /\ sent \in Seq(Segments) /\ rest \in Seq(Segments) /\ Len(sent) = n
        /\ sent \o rest = p.unsent /\ \A i \in 1 .. n : sent[i] = p.unsent[i]
    BY <2>1, <2>3, Parts
  <2>5. p.unacked \o sent \in Seq(Segments)
    BY <2>1, <2>4, ConcatProperties
  <2> HIDE DEF sent, rest
  <2>6. (p.unacked \o sent) \o rest = Stream(p)
    <3> DEFINE q == p.unacked
    <3>1. q \in Seq(Segments)
      BY <2>1
    <3> HIDE DEF q
    <3>2. (q \o sent) \o rest = q \o (sent \o rest)
      BY <2>4, <3>1, Regroup
    <3> QED
      BY <2>4, <3>2, Zenon DEF q, Stream
  <2>7. Rising(p.unacked \o sent)
    <3>1. Rising(Stream(p))
      BY <1>1, StreamSpans
    <3>2. Rising((p.unacked \o sent) \o rest)
      BY <2>6, <3>1, Zenon
    <3> QED
      BY <2>4, <2>5, <3>2, RisingPart
  <2>8. o.unacked = p.unacked \o sent
    BY <2>1, <2>3, <2>4, <2>7, AppendsInOrder, Zenon
  <2>9. Stream(o) = Stream(p)
    BY <2>3, <2>6, <2>8, Zenon DEF Stream
  <2>10. /\ Len(p.unacked) \in Nat /\ n \in Nat /\ Len(o.unacked) = Len(p.unacked) + n
         /\ \A i \in 1 .. Len(p.unacked) + n :
              o.unacked[i] = IF i <= Len(p.unacked) THEN p.unacked[i] ELSE sent[i - Len(p.unacked)]
    <3> DEFINE q == p.unacked
    <3>1. q \in Seq(Segments) /\ Len(q) \in Nat /\ n \in Nat
      BY <2>1, <2>3, LenProperties
    <3> HIDE DEF q
    <3>2. /\ Len(q \o sent) = Len(q) + n
          /\ \A i \in 1 .. Len(q) + n : (q \o sent)[i] = IF i <= Len(q) THEN q[i] ELSE sent[i - Len(q)]
      BY <2>4, <3>1, ConcatProperties
    <3> QED
      BY <2>8, <3>1, <3>2, Zenon DEF q
  <2>11. ASSUME NEW i \in 1 .. Len(o.unacked)
         PROVE  \/ \E j \in 1 .. Len(p.unacked) : o.unacked[i] = p.unacked[j]
                \/ \E j \in 1 .. n : o.unacked[i] = p.unsent[j]
    <3>1. CASE i <= Len(p.unacked)
      BY <2>10, <3>1
    <3>2. CASE ~(i <= Len(p.unacked))
      <4>1. i - Len(p.unacked) \in 1 .. n
        BY <2>10, <3>2
      <4>2. o.unacked[i] = p.unsent[i - Len(p.unacked)]
        BY <2>4, <2>10, <3>2, <4>1
      <4> QED
        BY <4>1, <4>2
    <3> QED
      BY <3>1, <3>2
  <2>12. /\ o.unacked = <<>> => p.unacked = <<>> /\ n = 0
         /\ o.unacked # <<>> => p.unacked # <<>> \/ n # 0
    <3>1. o.unacked \in Seq(Segments)
      BY <2>3, BlockFacts
    <3>2. (o.unacked = <<>>) = (Len(o.unacked) = 0) /\ (p.unacked = <<>>) = (Len(p.unacked) = 0)
      BY <2>1, <3>1, EmptySeq
    <3> QED
      BY <2>10, <3>2
  <2>13. /\ Ready(o) /\ Due(o) /\ SameRest(o, p) /\ p.nxt <= o.nxt
         /\ \A i \in 1 .. n : End(p.unsent[i]) <= o.nxt
         /\ \A x \in Nat : MayHave(p, x) => MayHave(o, x)
    BY <1>1, <2>1, <2>2, <2>9, <2>11, <2>12, SendsSound
  <2>14. \A i \in 1 .. Len(sent) : End(sent[i]) <= o.nxt
    BY <2>4, <2>13
  <2> QED
    BY <2>2, <2>4, <2>13, <2>14, Zenon DEF Settled, SameRest, sent, o
<1> QED
  BY <1>2, <1>3
LEMMA FirstAndRest ==
  ASSUME NEW q \in Seq(Segments), q # <<>>
  PROVE  /\ q[1] \in Segments /\ Head(q) = q[1] /\ Tail(q) \in Seq(Segments)
         /\ q = <<q[1]>> \o Tail(q) /\ 1 \in 1 .. Len(q)
         /\ \A i \in 1 .. Len(Tail(q)) : i + 1 \in 1 .. Len(q) /\ Tail(q)[i] = q[i + 1]
<1>1. Len(q) \in Nat /\ Len(q) # 0 /\ 1 \in 1 .. Len(q) /\ Len(q) \in 1 .. Len(q)
  BY EmptySeq
<1>2. /\ q[1] \in Segments /\ Head(q) = q[1] /\ Tail(q) \in Seq(Segments)
      /\ Len(Tail(q)) = Len(q) - 1
      /\ \A i \in 1 .. Len(Tail(q)) : Tail(q)[i] = q[i + 1]
  BY <1>1, HeadTailProperties, SegmentsOf
<1>3. q = <<q[1]>> \o Tail(q)
  <2>1. SubSeq(q, 1, Len(q)) = <<q[1]>> \o SubSeq(q, 1 + 1, Len(q))
    BY <1>1, SubSeqRecursiveFirst
  <2>2. SubSeq(q, 1, Len(q)) = q /\ Tail(q) = SubSeq(q, 2, Len(q))
    BY SubSeqFull, TailIsSubSeq
  <2>3. 1 + 1 = 2
    OBVIOUS
  <2> QED
    BY <2>1, <2>2, <2>3
<1> QED
  BY <1>1, <1>2, <1>3

\* The first segment of unacked is back on unsent, and is sent again at once.
LEMMA RexmitReady ==
  ASSUME NEW q, Ready(q), q.unacked # <<>>, NEW p \in Blocks, ~p.input, p.infr,
         p.unacked = Tail(q.unacked), p.unsent = Insert(q.unsent, Head(q.unacked)),
         p.state = q.state, p.lbb = q.lbb, p.lastack = q.lastack, p.buf = q.buf,
         p.queuelen = q.queuelen, p.wnd = q.wnd, p.wl2 = q.wl2, p.nxt = q.nxt,
         p.timing = q.timing, Mss <= p.cwnd
  PROVE  Settled(Output(p), q, Emitted(p))
<1> DEFINE o == Output(p)
           a == q.unacked
           u == q.unsent
           h == a[1]
           r == Tail(a)
<1>1. /\ q \in Blocks /\ Chained(Stream(q)) /\ Spans(q) /\ Sent(q)
      /\ q.lastack <= q.nxt /\ q.nxt <= q.lbb
  BY Zenon DEF Ready, Sound
<1>2. a \in Seq(Segments) /\ u \in Seq(Segments) /\ a # <<>> /\ Stream(q) = a \o u
  BY <1>1, BlockFacts DEF Stream
<1>3. /\ \A i \in 1 .. Len(u) : End(u[i]) <= q.lbb
      /\ \A i \in 1 .. Len(a) : End(a[i]) <= q.lbb
      /\ Rising(a \o u)
  BY <1>1, <1>2, UnsentEnds, StreamSpans
<1>4. h.seq <= q.lastack /\ End(h) <= q.nxt /\ Fits(q, h, q.wnd)
  <2>1. 1 \in 1 .. Len(a) /\ Stream(q) # <<>> /\ Stream(q)[1] = h
    <3>1. 1 \in 1 .. Len(a)
      BY <1>2, FirstAndRest
    <3>2. Stream(q)[1] = h /\ 1 \in 1 .. Len(Stream(q)) /\ Stream(q) \in Seq(Segments)
      BY <1>1, <3>1, StreamPlaces, BlockFacts
    <3> QED
      BY <3>1, <3>2, EmptySeq
  <2> QED
    BY <1>1, <2>1 DEF Spans, Sent
<1>5. p.unacked = r /\ p.unsent = Insert(u, Head(a))
  OBVIOUS
<1> HIDE DEF a, u
<1>6. /\ h \in Segments /\ Head(a) = h /\ r \in Seq(Segments) /\ 1 \in 1 .. Len(a)
      /\ a = <<h>> \o r
  BY <1>2, FirstAndRest
<1> HIDE DEF h, r, o
<1>7. p.unsent = <<h>> \o u
  <2>1. \A i \in 1 .. Len(u) : a[1].seq < u[i].seq
    BY <1>2, <1>3, <1>6, RisingPart
  <2>2. Insert(u, h) = <<h>> \o u
    BY <1>2, <1>6, <2>1, InsertIsQueue DEF h
  <2> QED
    BY <1>5, <1>6, <2>2
<1>8. /\ <<h>> \in Seq(Segments) /\ Len(<<h>>) = 1 /\ <<h>>[1] = h
      /\ Len(u) \in Nat /\ p.unsent \in Seq(Segments) /\ Len(p.unsent) = 1 + Len(u)
      /\ \A i \in 1 .. 1 + Len(u) : p.unsent[i] = IF i <= 1 THEN <<h>>[i] ELSE u[i - 1]
  <2>1. <<h>> \in Seq(Segments) /\ Len(<<h>>) = 1 /\ <<h>>[1] = h /\ Len(u) \in Nat
    BY <1>2, <1>6, LenProperties
  <2>2. /\ <<h>> \o u \in Seq(Segments) /\ Len(<<h>> \o u) = 1 + Len(u)
        /\ \A i \in 1 .. 1 + Len(u) : (<<h>> \o u)[i] = IF i <= 1 THEN <<h>>[i] ELSE u[i - 1]
    BY <1>2, <2>1, ConcatProperties
  <2> QED
    BY <1>7, <2>1, <2>2
<1>9. /\ p.unsent[1] = h
      /\ \A i \in 1 .. Len(u) : i + 1 \in 1 .. Len(p.unsent) /\ p.unsent[i + 1] = u[i]
  BY <1>8
<1>10. \A i \in 1 .. Len(p.unsent) : End(p.unsent[i]) <= p.lbb
  <2>1. End(h) <= p.lbb
    BY <1>3, <1>6 DEF h
  <2>2. ASSUME NEW i \in 1 .. Len(p.unsent) PROVE End(p.unsent[i]) <= p.lbb
    <3>1. CASE i = 1
      BY <1>9, <2>1, <3>1
    <3>2. CASE i # 1
      <4>1. i - 1 \in 1 .. Len(u) /\ p.unsent[i] = u[i - 1]
        BY <1>8, <3>2
      <4> QED
        BY <1>3, <4>1
    <3> QED
      BY <3>1, <3>2
  <2> QED
    BY <2>2
<1>11. PICK n : Emitted(p) = SubSeq(p.unsent, 1, n) /\ Sends(p, o, n)
  <2>1. p.nxt <= p.lbb
    BY <1>1
  <2> QED
    BY <1>10, <2>1, OutputSends DEF o
<1>12. /\ o \in Blocks /\ n \in 0 .. Len(p.unsent) /\ SameRest(o, p)
       /\ o.unsent = After(p.unsent, n)
       /\ o.unacked = FoldLeft(Insert, p.unacked, SubSeq(p.unsent, 1, n))
       /\ n < Len(p.unsent) => \/ ~Fits(p, p.unsent[n + 1], Min({p.wnd, p.cwnd}))
                               \/ ~NagleAllows(p, n + 1)
  BY <1>11, Zenon DEF Sends
<1>13. n \in 1 .. Len(u) + 1
  <2> SUFFICES ASSUME n = 0 PROVE FALSE
    BY <1>8, <1>12
  <2>1. ~Fits(p, h, Min({p.wnd, p.cwnd})) \/ ~NagleAllows(p, 1)
    BY <1>8, <1>9, <1>12
  <2>2. NagleAllows(p, 1)
    BY Zenon DEF NagleAllows
  <2>3. Fits(p, h, p.wnd)
    BY <1>4, Zenon DEF Fits
  <2>4. Fits(p, h, p.cwnd)
    <3>1. /\ p.lastack \in Nat /\ p.cwnd \in Nat /\ h.seq <= p.lastack /\ h.len <= p.cwnd
          /\ h.seq \in Nat /\ h.len \in Nat
      BY <1>4, <1>6, BlockFacts, SenderAssumption DEF Segments
    <3> QED
      BY <3>1 DEF Fits
  <2>5. Min({p.wnd, p.cwnd}) = p.wnd \/ Min({p.wnd, p.cwnd}) = p.cwnd
    BY BlockFacts, LeastOfTwo
  <2> QED
    BY <2>1, <2>2, <2>3, <2>4, <2>5, Zenon
<1> DEFINE v == SubSeq(u, 1, n - 1)
           rest == After(u, n - 1)
<1>14. SubSeq(p.unsent, 1, n) = <<h>> \o v /\ o.unsent = rest
  <2>1. SubSeq(<<h>> \o u, 1, n) = <<h>> \o SubSeq(u, 1, n - 1)
    BY <1>2, <1>6, <1>13, BehindFirst
  <2>2. After(<<h>> \o u, n) = After(u, n - 1)
    BY <1>2, <1>6, <1>13, BehindFirst
  <2> QED
    BY <1>7, <1>12, <2>1, <2>2, Zenon
<1>15. /\ v \in Seq(Segments) /\ rest \in Seq(Segments) /\ v \o rest = u /\ Len(v) = n - 1
       /\ \A i \in 1 .. n - 1 : v[i] = u[i]
  <2>1. n - 1 \in 0 .. Len(u)
    BY <1>8, <1>13
  <2> QED
    BY <1>2, <2>1, Parts
<1> HIDE DEF v, rest
<1>16. (a \o v) \o rest = a \o u /\ a \o v \in Seq(Segments)
  BY <1>2, <1>15, Regroup, ConcatProperties
<1>17. o.unacked = a \o v
  <2>1. Rising(a \o v)
    BY <1>3, <1>15, <1>16, RisingPart
  <2>2. FoldLeft(Insert, r, <<h>> \o v) = (<<h>> \o r) \o v
    BY <1>6, <1>15, <2>1, ReturnsInOrder
  <2> QED
    BY <1>5, <1>6, <1>12, <1>14, <2>2, Zenon
<1>18. Stream(o) = Stream(q)
  BY <1>2, <1>14, <1>16, <1>17, Zenon DEF Stream
<1>19. /\ Len(a) \in Nat /\ Len(a \o v) = Len(a) + (n - 1)
       /\ \A i \in 1 .. Len(a) + (n - 1) : (a \o v)[i] = IF i <= Len(a) THEN a[i] ELSE v[i - Len(a)]
  <2>1. Len(a) \in Nat
    BY <1>2, LenProperties
  <2>2. /\ Len(a \o v) = Len(a) + Len(v)
        /\ \A i \in 1 .. Len(a) + Len(v) : (a \o v)[i] = IF i <= Len(a) THEN a[i] ELSE v[i - Len(a)]
    BY <1>2, <1>15, ConcatProperties
  <2> QED
    BY <1>15, <2>1, <2>2
<1>20. ASSUME NEW i \in 1 .. Len(o.unacked)
       PROVE  \/ \E j \in 1 .. Len(a) : o.unacked[i] = a[j]
              \/ \E j \in 1 .. n : o.unacked[i] = p.unsent[j]
  <2>1. i \in 1 .. Len(a) + (n - 1) /\ o.unacked[i] = (a \o v)[i]
    BY <1>17, <1>19
  <2>2. CASE i <= Len(a)
    BY <1>19, <2>1, <2>2
  <2>3. CASE ~(i <= Len(a))
    <3>1. PICK j : j = i - Len(a)
      OBVIOUS
    <3>2. j \in 1 .. n - 1 /\ j \in 1 .. Len(u) /\ j + 1 \in 1 .. n
      BY <1>8, <1>13, <1>19, <2>1, <2>3, <3>1
    <3>3. o.unacked[i] = v[j]
      BY <1>19, <2>1, <2>3, <3>1
    <3>4. v[j] = u[j] /\ u[j] = p.unsent[j + 1]
      BY <1>9, <1>15, <3>2
    <3> QED
      BY <3>2, <3>3, <3>4
  <2> QED
    BY <2>2, <2>3
<1>21. o.unacked # <<>>
  <2>1. Len(a) # 0 /\ Len(o.unacked) # 0
    BY <1>2, <1>13, <1>17, <1>19, EmptySeq
  <2> QED
    BY <2>1, EmptySeq
<1>22. a = q.unacked
  BY DEF a
<1>23. /\ Ready(o) /\ Due(o) /\ SameRest(o, p) /\ p.nxt <= o.nxt
       /\ \A i \in 1 .. n : End(p.unsent[i]) <= o.nxt
       /\ \A x \in Nat : MayHave(q, x) => MayHave(o, x)
  BY <1>10, <1>11, <1>18, <1>20, <1>21, <1>22, SendsSound
<1> DEFINE sent == SubSeq(p.unsent, 1, n)
<1>24. /\ sent \in Seq(Segments) /\ Len(sent) = n /\ \A i \in 1 .. n : sent[i] = p.unsent[i]
  BY <1>8, <1>12, Parts
<1>25. \A i \in 1 .. Len(sent) : End(sent[i]) <= o.nxt
  BY <1>23, <1>24
<1> QED
  BY <1>11, <1>23, <1>24, <1>25, Zenon DEF Settled, SameRest, o
-----------------------------------------------------------------------------
(* Acknowledgements *)

LEMMA U16Facts ==
  /\ \A n \in Nat : U16(n) \in 0 .. U16Max /\ (n <= U16Max => U16(n) = n)
  /\ \A m, n \in Nat : U16(U16(m) + n) = U16(m + n)
  /\ \A n \in Nat : U16(n + (U16Max + 1)) = U16(n)
  /\ U16Max \in Nat
<1>1. \A n \in Nat : U16(n) \in 0 .. U16Max
  <2>1. \A n \in Nat : U16(n) \in Nat /\ U16(n) <= U16Max
    BY DEF U16, U16Max
  <2> QED
    BY <2>1
<1>2. \A n \in Nat : n <= U16Max => U16(n) = n
  BY DEF U16, U16Max
<1>3. \A m, n \in Nat : U16(U16(m) + n) = U16(m + n)
  BY DEF U16, U16Max
<1>4. \A n \in Nat : U16(n + (U16Max + 1)) = U16(n)
  BY DEF U16, U16Max
<1>5. U16Max \in Nat
  BY DEF U16Max
<1> QED
  BY <1>1, <1>2, <1>3, <1>4, <1>5

LEMMA MostOfTwo ==
  ASSUME NEW m \in Nat, NEW n \in Nat
  PROVE  Max({m, n}) \in Nat /\ m <= Max({m, n}) /\ n <= Max({m, n})
<1> DEFINE S == {m, n}
<1>1. S \in SUBSET (0 .. m + n) /\ S # {} /\ m + n \in Nat /\ m \in S /\ n \in S
  OBVIOUS
<1> HIDE DEF S
<1>2. Max(S) \in S /\ \A y \in S : y <= Max(S)
  BY <1>1, Greatest, Zenon
<1>3. PICK x : x = Max(S)
  OBVIOUS
<1>4. x \in S /\ \A y \in S : y <= x
  BY <1>2, <1>3, Zenon
<1>5. x \in Nat /\ m <= x /\ n <= x
  BY <1>1, <1>4
<1> QED
  BY <1>3, <1>5, Zenon DEF S

LEMMA BehindPrefix ==
  ASSUME NEW u \in Seq(Segments), NEW v \in Seq(Segments)
  PROVE  After(u \o v, Len(u)) = v
<1> DEFINE w == u \o v
           n == Len(u)
           t == After(w, n)
<1>1. /\ w \in Seq(Segments) /\ Len(w) = n + Len(v) /\ n \in Nat /\ Len(v) \in Nat
      /\ \A i \in 1 .. n + Len(v) : w[i] = IF i <= n THEN u[i] ELSE v[i - n]
  BY ConcatProperties, LenProperties
<1> HIDE DEF w, n
<1>2. n \in 0 .. Len(w)
  BY <1>1
<1>3. t \in Seq(Segments) /\ Len(t) = Len(w) - n /\ \A i \in 1 .. Len(w) - n : t[i] = w[n + i]
  BY <1>1, <1>2, Parts
<1> HIDE DEF t
<1>4. Len(t) = Len(v)
  BY <1>1, <1>3
<1>5. ASSUME NEW i \in 1 .. Len(t) PROVE t[i] = v[i]
  <2>1. n + i \in 1 .. n + Len(v) /\ ~(n + i <= n) /\ (n + i) - n = i /\ i \in 1 .. Len(w) - n
    BY <1>1, <1>3
  <2>2. w[n + i] = v[(n + i) - n]
    BY <1>1, <2>1
  <2> QED
    BY <1>3, <2>1, <2>2
<1>6. t = v
  BY <1>3, <1>4, <1>5, SeqEqual
<1> QED
  BY <1>6 DEF t, w, n

\* What remains of two queues, of which the second loses nothing unless the
\* first is used up.
LEMMA BehindBoth ==
  ASSUME NEW u \in Seq(Segments), NEW v \in Seq(Segments), NEW m \in 0 .. Len(u),
         NEW n \in 0 .. Len(v), m = Len(u) \/ n = 0
  PROVE  /\ After(u, m) \o After(v, n) = After(u \o v, m + n)
         /\ m + n \in 0 .. Len(u \o v)
<1> DEFINE x == SubSeq(u, 1, m)
           y == After(u, m)
           z == SubSeq(v, 1, n)
           t == After(v, n)
<1>1. /\ x \in Seq(Segments) /\ y \in Seq(Segments) /\ Len(x) = m /\ x \o y = u
      /\ z \in Seq(Segments) /\ t \in Seq(Segments) /\ Len(z) = n /\ z \o t = v
      /\ Len(y) = Len(u) - m /\ Len(u) \in Nat /\ Len(v) \in Nat
  BY Parts, LenProperties
<1> HIDE DEF x, y, z, t
<1>2. m + n \in 0 .. Len(u \o v)
  <2>1. Len(u \o v) = Len(u) + Len(v)
    BY ConcatProperties
  <2> QED
    BY <1>1, <2>1
<1>3. CASE n = 0
  <2>1. z = <<>> /\ t = v
    <3>1. z = <<>>
      BY <1>1, <1>3, EmptySeq
    <3> QED
      BY <1>1, <3>1, ConcatEmptySeq
  <2>2. x \o (y \o t) = u \o v /\ y \o t \in Seq(Segments)
    <3>1. (x \o y) \o t = x \o (y \o t)
      <4>1. x \in Seq(Segments) /\ y \in Seq(Segments) /\ t \in Seq(Segments)
        BY <1>1
      <4> QED
        BY <4>1, Regroup, Zenon
    <3>2. y \o t \in Seq(Segments)
      BY <1>1, ConcatProperties
    <3>3. x \o y = u /\ t = v
      BY <1>1, <2>1
    <3>4. (x \o y) \o t = u \o v
      BY ONLY <3>3, Zenon
    <3>5. x \o (y \o t) = u \o v
      BY ONLY <3>1, <3>4, Zenon
    <3> QED
      BY <3>2, <3>5
  <2>3. After(x \o (y \o t), Len(x)) = y \o t
    BY <1>1, <2>2, BehindPrefix
  <2>4. m + n = m
    BY <1>3
  <2>5. After(u \o v, m + n) = y \o t
    BY <1>1, <2>2, <2>3, <2>4, Zenon
  <2> QED
    BY <1>2, <2>5 DEF y, t
<1>4. CASE m = Len(u)
  <2>1. y = <<>>
    BY <1>1, <1>4, EmptySeq
  <2>2. x = u
    BY <1>1, <2>1, ConcatEmptySeq
  <2>3. (u \o z) \o t = u \o v /\ u \o z \in Seq(Segments) /\ Len(u \o z) = Len(u) + Len(z)
    <3>1. (u \o z) \o t = u \o (z \o t)
      <4>1. u \in Seq(Segments) /\ z \in Seq(Segments) /\ t \in Seq(Segments)
        BY <1>1
      <4> QED
        BY <4>1, Regroup, Zenon
    <3>2. u \o z \in Seq(Segments) /\ Len(u \o z) = Len(u) + Len(z)
      BY <1>1, ConcatProperties
    <3>3. z \o t = v
      BY <1>1
    <3>4. (u \o z) \o t = u \o v
      BY ONLY <3>1, <3>3, Zenon
    <3> QED
      BY <3>2, <3>4
  <2>4. After((u \o z) \o t, Len(u \o z)) = t
    BY <1>1, <2>3, BehindPrefix
  <2>5. Len(u \o z) = m + n
    BY <1>1, <1>4, <2>3
  <2>6. After(u \o v, m + n) = t
    BY <2>3, <2>4, <2>5, Zenon
  <2>7. y \o t = t
    BY <1>1, <2>1, ConcatEmptySeq
  <2> QED
    BY <1>2, <2>6, <2>7 DEF y, t
<1> QED
  BY <1>3, <1>4

LEMMA ChainedAfter ==
  ASSUME NEW q \in Seq(Segments), Chained(q), NEW k \in 0 .. Len(q)
  PROVE  Chained(After(q, k))
<1> DEFINE t == After(q, k)
<1>1. /\ t \in Seq(Segments) /\ Len(t) = Len(q) - k /\ Len(q) \in Nat
      /\ \A i \in 1 .. Len(q) - k : t[i] = q[k + i]
  BY Parts, LenProperties
<1>2. \A i \in 1 .. Len(q) : q[i].seq < End(q[i]) /\ (i < Len(q) => q[i + 1].seq = End(q[i]))
  BY Zenon DEF Chained
<1> HIDE DEF t
<1>3. ASSUME NEW i \in 1 .. Len(t)
      PROVE  t[i].seq < End(t[i]) /\ (i < Len(t) => t[i + 1].seq = End(t[i]))
  <2>1. k + i \in 1 .. Len(q) /\ t[i] = q[k + i]
    BY <1>1
  <2>2. t[i].seq < End(t[i])
    BY <1>2, <2>1
  <2>3. ASSUME i < Len(t) PROVE t[i + 1].seq = End(t[i])
    <3>1. i + 1 \in 1 .. Len(q) - k /\ k + (i + 1) = (k + i) + 1 /\ k + i < Len(q)
      BY <1>1, <2>3
    <3>2. t[i + 1] = q[k + (i + 1)] /\ q[(k + i) + 1].seq = End(q[k + i])
      BY <1>1, <1>2, <2>1, <3>1
    <3> QED
      BY <2>1, <3>1, <3>2
  <2> QED
    BY <2>2, <2>3
<1> QED
  BY <1>3, Zenon DEF Chained, t

LEMMA PbufsAfter ==
  ASSUME NEW q \in Seq(Segments), NEW n \in 0 .. Len(q)
  PROVE  /\ Pbufs(SubSeq(q, 1, n)) \in Nat /\ Pbufs(After(q, n)) \in Nat
         /\ Pbufs(q) = Pbufs(SubSeq(q, 1, n)) + Pbufs(After(q, n))
BY Parts, PbufsParts

LEMMA ArrivedRun ==
  ASSUME NEW q \in Seq(Segments), NEW ack \in Nat
  PROVE  /\ Arrived(q, ack) \in 0 .. Len(q)
         /\ \A i \in 1 .. Arrived(q, ack) : i \in 1 .. Len(q) /\ End(q[i]) <= ack
         /\ Arrived(q, ack) < Len(q) => ack < End(q[Arrived(q, ack) + 1])
<1> DEFINE S == {i \in 1 .. Len(q) : End(q[i]) <= ack}
           n == Leading(S)
<1>1. Len(q) \in Nat /\ S \in SUBSET (1 .. Len(q)) /\ \A i \in 1 .. Len(q) : End(q[i]) \in Nat
  BY SegmentsOf
<1>2. /\ n \in 0 .. Len(q) /\ (\A i \in 1 .. n : i \in S) /\ n + 1 \notin S
  <2> HIDE DEF S
  <2> QED
    BY <1>1, LeadingRun
<1>3. \A i \in 1 .. n : i \in 1 .. Len(q) /\ End(q[i]) <= ack
  BY <1>2
<1> HIDE DEF n
<1>4. n < Len(q) => ack < End(q[n + 1])
  <2>1. n < Len(q) => n + 1 \in 1 .. Len(q)
    BY <1>1, <1>2
  <2> QED
    BY <1>1, <1>2, <2>1
<1>5. Arrived(q, ack) = n
  BY Zenon DEF Arrived, n
<1> QED
  BY <1>2, <1>3, <1>4, <1>5
\* What an acknowledgement covers is the first part of the stream, even when
\* it is spread over both queues.
Covers(a, u, s, ack, m, n) ==
  /\ m \in 0 .. Len(a) /\ n \in 0 .. Len(u) /\ m + n \in 0 .. Len(s)
  /\ After(a, m) \o After(u, n) = After(s, m + n)
  /\ m + n > 0 => End(s[m + n]) <= ack
  /\ m + n < Len(s) => ack < End(s[(m + n) + 1])

LEMMA ArrivedBoth ==
  ASSUME NEW a \in Seq(Segments), NEW u \in Seq(Segments), Chained(a \o u), NEW ack \in Nat,
         NEW m, m = Arrived(a, ack), NEW n, n = Arrived(u, ack)
  PROVE  Covers(a, u, a \o u, ack, m, n)
<1> DEFINE s == a \o u
<1>1. /\ m \in 0 .. Len(a) /\ (\A i \in 1 .. m : i \in 1 .. Len(a) /\ End(a[i]) <= ack)
      /\ m < Len(a) => ack < End(a[m + 1])
  BY ArrivedRun
<1>2. /\ n \in 0 .. Len(u) /\ (\A i \in 1 .. n : i \in 1 .. Len(u) /\ End(u[i]) <= ack)
      /\ n < Len(u) => ack < End(u[n + 1])
  BY ArrivedRun
<1>3. /\ s \in Seq(Segments) /\ Len(a) \in Nat /\ Len(u) \in Nat /\ Len(s) = Len(a) + Len(u)
      /\ \A i \in 1 .. Len(a) + Len(u) : s[i] = IF i <= Len(a) THEN a[i] ELSE u[i - Len(a)]
  BY ConcatProperties, LenProperties
<1>4. Chained(s)
  OBVIOUS
<1> HIDE DEF s
<1>5. /\ \A i \in 1 .. Len(a) : i \in 1 .. Len(s) /\ s[i] = a[i]
      /\ \A i \in 1 .. Len(u) : Len(a) + i \in 1 .. Len(s) /\ s[Len(a) + i] = u[i]
  <2>1. \A i \in 1 .. Len(a) : i \in 1 .. Len(s) /\ s[i] = a[i]
    BY <1>3
  <2>2. ASSUME NEW i \in 1 .. Len(u) PROVE Len(a) + i \in 1 .. Len(s) /\ s[Len(a) + i] = u[i]
    <3> DEFINE j == Len(a) + i
    <3>1. j \in 1 .. Len(s) /\ ~(j <= Len(a)) /\ j - Len(a) = i
      BY <1>3
    <3> HIDE DEF j
    <3>2. s[j] = u[j - Len(a)]
      BY <1>3, <3>1
    <3> QED
      BY <3>1, <3>2 DEF j
  <2> QED
    BY <2>1, <2>2
<1>6. /\ \A i, j \in 1 .. Len(s) : i < j => End(s[i]) <= s[j].seq
      /\ \A i \in 1 .. Len(s) : s[i].seq \in Nat /\ End(s[i]) \in Nat /\ s[i].seq <= End(s[i])
  BY <1>3, <1>4, ChainRises, SegmentsOf
<1>7. m = Len(a) \/ n = 0
  <2> SUFFICES ASSUME m # Len(a), n # 0 PROVE FALSE
    OBVIOUS
  <2>1. m + 1 \in 1 .. Len(a) /\ ack < End(a[m + 1])
    BY <1>1, <1>3
  <2>2. 1 \in 1 .. n /\ 1 \in 1 .. Len(u) /\ End(u[1]) <= ack
    BY <1>2
  <2> DEFINE i == m + 1
             j == Len(a) + 1
  <2>3. i \in 1 .. Len(s) /\ j \in 1 .. Len(s) /\ i < j /\ s[i] = a[m + 1] /\ s[j] = u[1]
    BY <1>3, <1>5, <2>1, <2>2
  <2> HIDE DEF i, j
  <2>4. /\ End(s[i]) <= s[j].seq /\ s[j].seq <= End(s[j])
        /\ End(s[i]) \in Nat /\ s[j].seq \in Nat /\ End(s[j]) \in Nat
    BY <1>6, <2>3
  <2>5. ack < End(s[i]) /\ End(s[j]) <= ack
    BY <2>1, <2>2, <2>3
  <2> QED
    BY <2>4, <2>5
<1>8. After(a, m) \o After(u, n) = After(s, m + n) /\ m + n \in 0 .. Len(s)
  BY <1>1, <1>2, <1>7, BehindBoth, Zenon DEF s
<1>9. m + n > 0 => End(s[m + n]) <= ack
  <2>1. CASE n = 0
    <3>1. m + n = m
      BY <1>1, <2>1
    <3>2. m > 0 => m \in 1 .. m /\ m \in 1 .. Len(a)
      BY <1>1
    <3> QED
      BY <1>1, <1>5, <3>1, <3>2
  <2>2. CASE n # 0
    <3>1. m + n = Len(a) + n /\ n \in 1 .. n /\ n \in 1 .. Len(u)
      BY <1>2, <1>7, <2>2
    <3> QED
      BY <1>2, <1>5, <3>1
  <2> QED
    BY <2>1, <2>2
<1>10. m + n < Len(s) => ack < End(s[(m + n) + 1])
  <2> SUFFICES ASSUME m + n < Len(s) PROVE ack < End(s[(m + n) + 1])
    OBVIOUS
  <2>1. CASE m < Len(a)
    <3> DEFINE i == m + 1
    <3>1. (m + n) + 1 = i /\ i \in 1 .. Len(a) /\ ack < End(a[i])
      BY <1>1, <1>3, <1>7, <2>1
    <3> HIDE DEF i
    <3> QED
      BY <1>5, <3>1
  <2>2. CASE m = Len(a)
    <3> DEFINE j == n + 1
    <3>1. (m + n) + 1 = Len(a) + j /\ j \in 1 .. Len(u) /\ n < Len(u)
      BY <1>2, <1>3, <2>2
    <3>2. ack < End(u[j])
      BY <1>2, <3>1
    <3> HIDE DEF j
    <3> QED
      BY <1>5, <3>1, <3>2
  <2> QED
    BY <1>1, <1>3, <2>1, <2>2
<1> QED
  BY <1>1, <1>2, <1>8, <1>9, <1>10, Zenon DEF s, Covers

Begins(t, ack, b) ==
  IF t = <<>> THEN ack = b
  ELSE t[1].seq <= ack /\ ack < End(t[1]) /\ End(t[Len(t)]) = b

\* The rest of a stream begins at the byte that is acknowledged now.
LEMMA SpanAfter ==
  ASSUME NEW s \in Seq(Segments), Chained(s), s # <<>>,
         NEW b \in Nat, NEW l \in Nat, NEW ack \in Nat, l < ack, ack <= b,
         s[1].seq <= l, End(s[Len(s)]) = b, NEW k \in 0 .. Len(s),
         k > 0 => End(s[k]) <= ack, k < Len(s) => ack < End(s[k + 1]),
         NEW t, t = After(s, k)
  PROVE  Begins(t, ack, b)
<1>1. /\ t \in Seq(Segments) /\ Len(t) = Len(s) - k /\ Len(s) \in Nat /\ Len(s) # 0
      /\ \A i \in 1 .. Len(s) - k : t[i] = s[k + i]
  BY Parts, LenProperties, EmptySeq
<1>2. \A i \in 1 .. Len(s) : i < Len(s) => s[i + 1].seq = End(s[i])
  BY Zenon DEF Chained
<1>3. \A i \in 1 .. Len(s) : End(s[i]) \in Nat /\ s[i].seq \in Nat
  BY SegmentsOf
<1>4. CASE t = <<>>
  <2>1. k = Len(s) /\ k > 0
    BY <1>1, <1>4, EmptySeq
  <2>2. b <= ack
    BY <2>1
  <2> QED
    BY <1>4, <2>2 DEF Begins
<1>5. CASE t # <<>>
  <2>1. k < Len(s) /\ Len(s) - k \in 1 .. Len(s) - k /\ 1 \in 1 .. Len(s) - k
    BY <1>1, <1>5, EmptySeq
  <2>2. t[1] = s[k + 1] /\ t[Len(t)] = s[Len(s)]
    <3>1. k + (Len(s) - k) = Len(s)
      BY <1>1
    <3> QED
      BY <1>1, <2>1, <3>1
  <2>3. s[k + 1].seq <= ack
    <3>1. CASE k = 0
      BY <1>1, <1>3, <2>1, <3>1
    <3>2. CASE k # 0
      <4>1. k \in 1 .. Len(s) /\ k > 0
        BY <3>2
      <4>2. s[k + 1].seq = End(s[k]) /\ End(s[k]) <= ack
        BY <1>2, <2>1, <4>1
      <4> QED
        BY <4>2
    <3> QED
      BY <3>1, <3>2
  <2> QED
    BY <1>5, <2>1, <2>2, <2>3 DEF Begins
<1> QED
  BY <1>4, <1>5
\* What becomes of q when ack acknowledges new data.
Renewed(q, ack, c, d) ==
  [AckedUnsent([Acked(q, ack) EXCEPT !.cwnd = c], ack) EXCEPT !.input = d]

\* The counter of free bytes, when ack is the first not acknowledged any more.
Freed(buf, l, ack) == U16(buf + ack - l)

LEMMA AckedFields ==
  ASSUME NEW p \in Blocks, NEW q \in Blocks, q.unsent = p.unsent, q.unacked = p.unacked,
         q.lbb = p.lbb, q.nxt = p.nxt, q.lastack = p.lastack, q.buf = p.buf,
         q.queuelen = p.queuelen, q.state = p.state,
         p.queuelen = Pbufs(p.unsent) + Pbufs(p.unacked),
         NEW ack \in Nat, p.lastack < ack, ack <= p.nxt, NEW c \in Nat, NEW d \in BOOLEAN,
         NEW r, r = Renewed(q, ack, c, d),
         NEW m, m = Arrived(p.unacked, ack), NEW n, n = Arrived(p.unsent, ack)
  PROVE  /\ r \in Blocks /\ r.state = p.state /\ r.lbb = p.lbb /\ r.nxt = p.nxt
         /\ r.wnd = q.wnd /\ r.wl2 = q.wl2 /\ r.lastack = ack /\ r.cwnd = c /\ r.input = d
         /\ r.unacked = After(p.unacked, m) /\ r.unsent = After(p.unsent, n)
         /\ r.buf = Freed(p.buf, p.lastack, ack)
         /\ r.timing = (After(p.unacked, m) # <<>>)
         /\ r.queuelen = Pbufs(r.unsent) + Pbufs(r.unacked) /\ r.queuelen <= p.queuelen
<1> DEFINE left == After(p.unacked, m)
           rest == After(p.unsent, n)
           ka == Pbufs(SubSeq(p.unacked, 1, m))
           ku == Pbufs(SubSeq(p.unsent, 1, n))
           z == p.buf + ack - p.lastack
           b == U16(z)
           x == [Acked(q, ack) EXCEPT !.cwnd = c]
           y == AckedUnsent(x, ack)
           l == p.queuelen
<1> HIDE DEF left, rest, ka, ku, z, b, x, y, l
<1>1. p.unsent \in Seq(Segments) /\ p.unacked \in Seq(Segments) /\ p.queuelen \in Nat
  BY BlockFacts
<1>2. m \in 0 .. Len(p.unacked) /\ n \in 0 .. Len(p.unsent)
  BY <1>1, ArrivedRun
<1>3. /\ left \in Seq(Segments) /\ rest \in Seq(Segments)
      /\ ka \in Nat /\ ku \in Nat /\ Pbufs(left) \in Nat /\ Pbufs(rest) \in Nat
      /\ Pbufs(p.unacked) = ka + Pbufs(left) /\ Pbufs(p.unsent) = ku + Pbufs(rest)
  BY <1>1, <1>2, Parts, PbufsAfter DEF left, rest, ka, ku
<1>4. b \in 0 .. U16Max
  <2>1. z \in Nat
    <3>1. p.buf \in Nat /\ p.lastack \in Nat
      <4>1. p.buf \in 0 .. U16Max /\ p.lastack \in Nat
        BY BlockFacts
      <4> QED
        BY <4>1
    <3> QED
      BY <3>1 DEF z
  <2>2. \A i \in Nat : U16(i) \in 0 .. U16Max
    BY U16Facts
  <2> QED
    BY <2>1, <2>2, Zenon DEF b
<1>5. x = [[q EXCEPT !.infr = FALSE, !.nrtx = 0, !.buf = b, !.lastack = ack,
                     !.unacked = left, !.timing = left # <<>>, !.queuelen = l - ka]
             EXCEPT !.cwnd = c]
  BY Zenon DEF Acked, left, ka, b, x, l, z
<1>6. l \in Nat /\ l = (ku + Pbufs(rest)) + (ka + Pbufs(left))
  BY <1>1, <1>3, Zenon DEF l
<1>10. /\ l - ka \in Nat /\ (l - ka) - ku \in Nat /\ (l - ka) - ku <= l
       /\ (l - ka) - ku = Pbufs(rest) + Pbufs(left)
  <2> DEFINE i == Pbufs(rest)
             j == Pbufs(left)
  <2>1. i \in Nat /\ j \in Nat /\ ka \in Nat /\ ku \in Nat /\ l = (ku + i) + (ka + j)
    BY <1>3, <1>6
  <2> HIDE DEF i, j
  <2> QED
    BY <2>1 DEF i, j
<1>7. /\ x.unsent = p.unsent /\ x.nxt = p.nxt /\ x.queuelen = l - ka
      /\ x.lbb = p.lbb /\ x.state = p.state /\ x.wnd = q.wnd /\ x.wl2 = q.wl2 /\ x.cwnd = c
      /\ x.lastack = ack /\ x.unacked = left /\ x.buf = b /\ x.timing = (left # <<>>)
      /\ x \in Blocks
  <2>1. 0 \in 0 .. MaxRtx + 1
    BY SenderAssumption
  <2> QED
    BY <1>3, <1>4, <1>5, <1>10, <2>1 DEF Blocks
<1>8. y = [x EXCEPT !.unsent = rest, !.queuelen = (l - ka) - ku]
  <2>1. ~(ack > x.nxt)
    BY <1>7, BlockFacts
  <2>2. y = [x EXCEPT !.unsent = After(x.unsent, Arrived(x.unsent, ack)),
                      !.queuelen = x.queuelen - Pbufs(SubSeq(x.unsent, 1, Arrived(x.unsent, ack)))]
    BY <2>1, Zenon DEF AckedUnsent, y
  <2> QED
    BY <1>7, <2>2, Zenon DEF rest, ku
<1>9. r = [y EXCEPT !.input = d]
  BY Zenon DEF y, x, Renewed
<1>11. /\ r \in Blocks /\ r.state = p.state /\ r.lbb = p.lbb /\ r.nxt = p.nxt
       /\ r.wnd = q.wnd /\ r.wl2 = q.wl2 /\ r.lastack = ack /\ r.cwnd = c /\ r.input = d
       /\ r.unacked = left /\ r.unsent = rest /\ r.buf = b /\ r.timing = (left # <<>>)
       /\ r.queuelen = (l - ka) - ku
  BY <1>3, <1>7, <1>8, <1>9, <1>10 DEF Blocks
<1> QED
  BY <1>10, <1>11, Zenon DEF left, rest, b, z, l, Freed
\* q is p but for what tcp_receive has learnt of the window.
SameButWindow(q, p) ==
  /\ q.unsent = p.unsent /\ q.unacked = p.unacked /\ q.state = p.state
  /\ q.lbb = p.lbb /\ q.nxt = p.nxt /\ q.lastack = p.lastack /\ q.buf = p.buf
  /\ q.queuelen = p.queuelen /\ q.cwnd = p.cwnd /\ q.timing = p.timing
  /\ q.input = p.input /\ q.infr = p.infr

\* The bytes that are free again.
LEMMA CountedAgain ==
  ASSUME NEW p \in Blocks, Counted(p), NEW r \in Blocks, r.state = p.state, r.lbb = p.lbb,
         NEW ack \in Nat, p.lastack < ack, ack <= p.lbb, r.lastack = ack,
         r.buf = Freed(p.buf, p.lastack, ack),
         r.queuelen = Pbufs(r.unsent) + Pbufs(r.unacked), r.queuelen <= p.queuelen
  PROVE  Counted(r)
<1> DEFINE w == p.lbb - p.lastack
           v == r.lbb - r.lastack
           b == p.lbb
           l == p.lastack
           e == p.buf
           f == r.buf
<1>1. b \in Nat /\ l \in Nat /\ e \in 0 .. U16Max /\ SndBuf \in 0 .. U16Max
  BY BlockFacts, SenderAssumption
<1>2. w = b - l /\ v = b - ack /\ l < ack /\ ack <= b /\ f = U16(e + (ack - l))
  <2>1. f = Freed(e, l, ack)
    BY Zenon
  <2>2. w = b - l /\ v = b - ack /\ l < ack /\ ack <= b
    OBVIOUS
  <2> HIDE DEF f, e, l
  <2>3. f = U16(e + (ack - l))
    BY <2>1 DEF Freed
  <2> QED
    BY <2>2, <2>3
<1>3. /\ p.queuelen <= SndQueueLen
      /\ IF p.state = "LAST_ACK"
           THEN w <= SndBuf + 1 /\ e = U16(SndBuf + U16Max + 1 - w) /\ p.lbb <= MaxBytes + 1
           ELSE w <= SndBuf /\ e = SndBuf - w /\ p.lbb <= MaxBytes
  BY Zenon DEF Counted
<1>4. r.queuelen <= SndQueueLen
  <2>1. r.queuelen \in Nat /\ p.queuelen \in Nat /\ SndQueueLen \in Nat
    BY BlockFacts, SenderAssumption
  <2> QED
    BY <1>3, <2>1
<1>5. U16Max \in Nat
  BY U16Facts
<1> HIDE DEF w, v, b, l, e, f
<1>6. ASSUME p.state = "LAST_ACK"
      PROVE  v <= SndBuf + 1 /\ f = U16(SndBuf + U16Max + 1 - v)
  <2>1. w <= SndBuf + 1 /\ e = U16(SndBuf + U16Max + 1 - w)
    BY <1>3, <1>6, Zenon
  <2> DEFINE x == SndBuf + U16Max + 1 - w
             d == ack - l
  <2>2. x \in Nat /\ d \in Nat /\ e + (ack - l) = e + d /\ x + d = SndBuf + U16Max + 1 - v
        /\ v <= SndBuf + 1
    BY <1>1, <1>2, <1>5, <2>1
  <2> HIDE DEF d
  <2>3. e = U16(x)
    BY <2>1, Zenon
  <2> HIDE DEF x
  <2>4. U16(U16(x) + d) = U16(x + d)
    BY <2>2, U16Facts, Zenon
  <2>5. f = U16(e + d)
    BY <1>2, <2>2, Zenon
  <2> QED
    BY <2>2, <2>3, <2>4, <2>5, Zenon
<1>7. ASSUME p.state # "LAST_ACK"
      PROVE  v <= SndBuf /\ f = SndBuf - v
  <2>1. w <= SndBuf /\ e = SndBuf - w
    BY <1>3, <1>7, Zenon
  <2>2. e + (ack - l) \in Nat /\ e + (ack - l) <= U16Max /\ e + (ack - l) = SndBuf - v
        /\ v <= SndBuf
    BY <1>1, <1>2, <1>5, <2>1
  <2> DEFINE z == e + (ack - l)
  <2>3. z \in Nat /\ z <= U16Max /\ f = U16(z)
    BY <1>2, <2>2
  <2> HIDE DEF z
  <2>4. f = z
    BY <2>3, U16Facts, Zenon
  <2> QED
    BY <2>2, <2>4 DEF z
<1> QED
  BY <1>3, <1>4, <1>6, <1>7, Zenon DEF Counted, v, f

LEMMA AckedReady ==
  ASSUME NEW p, Ready(p), NEW q \in Blocks, SameButWindow(q, p),
         NEW ack \in Nat, p.lastack < ack, ack <= p.nxt, ack <= q.wl2,
         p.lastack + p.wnd <= ack + q.wnd,
         NEW c \in Nat, Mss <= c, NEW d \in BOOLEAN,
         NEW r, r = Renewed(q, ack, c, d)
  PROVE  /\ Ready(r) /\ r.state = p.state /\ r.lbb = p.lbb /\ r.nxt = p.nxt
         /\ r.wnd = q.wnd /\ r.wl2 = q.wl2 /\ r.input = d
         /\ \A x \in Nat : MayHave(p, x) => MayHave(r, x)
<1> DEFINE a == p.unacked
           u == p.unsent
           m == Arrived(a, ack)
           n == Arrived(u, ack)
           s == Stream(p)
           t == Stream(r)
<1>1. /\ p \in Blocks /\ Chained(s) /\ Spans(p) /\ Sent(p) /\ Counted(p)
      /\ p.lastack <= p.nxt /\ p.nxt <= p.lbb
  BY Zenon DEF Ready, Sound
<1>2. /\ a \in Seq(Segments) /\ u \in Seq(Segments) /\ s = a \o u /\ s \in Seq(Segments)
      /\ p.lbb \in Nat /\ p.nxt \in Nat /\ p.lastack \in Nat /\ p.wnd \in Nat
      /\ p.queuelen = Pbufs(p.unsent) + Pbufs(p.unacked)
  BY <1>1, BlockFacts DEF Stream, Counted
<1>3. /\ r \in Blocks /\ r.state = p.state /\ r.lbb = p.lbb /\ r.nxt = p.nxt
      /\ r.wnd = q.wnd /\ r.wl2 = q.wl2 /\ r.lastack = ack /\ r.cwnd = c /\ r.input = d
      /\ r.unacked = After(a, m) /\ r.unsent = After(u, n)
      /\ r.buf = Freed(p.buf, p.lastack, ack)
      /\ r.timing = (After(a, m) # <<>>)
      /\ r.queuelen = Pbufs(r.unsent) + Pbufs(r.unacked) /\ r.queuelen <= p.queuelen
  <2>1. /\ q.unsent = p.unsent /\ q.unacked = p.unacked
        /\ q.lbb = p.lbb /\ q.nxt = p.nxt /\ q.lastack = p.lastack /\ q.buf = p.buf
        /\ q.queuelen = p.queuelen /\ q.state = p.state
    BY Zenon DEF SameButWindow
  <2> QED
    BY <1>1, <1>2, <2>1, AckedFields
<1> HIDE DEF a, u, m, n
<1>4. ack <= p.lbb
  BY <1>1, <1>2
<1>5. /\ m \in 0 .. Len(a) /\ n \in 0 .. Len(u) /\ m + n \in 0 .. Len(s)
      /\ After(a, m) \o After(u, n) = After(s, m + n)
      /\ m + n > 0 => End(s[m + n]) <= ack
      /\ m + n < Len(s) => ack < End(s[(m + n) + 1])
  <2>1. Chained(a \o u)
    BY <1>1, <1>2, Zenon
  <2>2. m = Arrived(a, ack) /\ n = Arrived(u, ack)
    BY DEF m, n
  <2> HIDE DEF s
  <2>3. Covers(a, u, a \o u, ack, m, n)
    BY <1>2, <2>1, <2>2, ArrivedBoth, Zenon
  <2> QED
    BY <1>2, <2>3, Zenon DEF Covers
<1> DEFINE k == m + n
<1>6. t = After(s, k)
  BY <1>3, <1>5, Zenon DEF Stream
<1>7. k \in 0 .. Len(s) /\ (k > 0 => End(s[k]) <= ack) /\ (k < Len(s) => ack < End(s[k + 1]))
  BY <1>5
<1>8. s # <<>> /\ s[1].seq <= p.lastack /\ End(s[Len(s)]) = p.lbb
  <2>1. s # <<>>
    BY <1>1, <1>2, <1>4 DEF Spans
  <2> QED
    BY <1>1, <2>1, Zenon DEF Spans
<1> HIDE DEF k, s, t
<1>9. Chained(t)
  BY <1>1, <1>2, <1>6, <1>7, ChainedAfter, Zenon
<1>10. Begins(t, ack, p.lbb)
  <2> DEFINE b == p.lbb
             l == p.lastack
  <2>1. /\ b \in Nat /\ l \in Nat /\ l < ack /\ ack <= b /\ Chained(s) /\ s \in Seq(Segments)
        /\ s[1].seq <= l /\ End(s[Len(s)]) = b
    BY <1>1, <1>2, <1>4, <1>8
  <2> HIDE DEF b, l
  <2>2. Begins(t, ack, b)
    BY <1>6, <1>7, <1>8, <2>1, SpanAfter
  <2> QED
    BY <2>2 DEF b
<1>11. Spans(r)
  BY <1>3, <1>10, Zenon DEF Spans, t, Begins
<1>12. Counted(r)
  BY <1>1, <1>3, <1>4, CountedAgain
<1>13. Sent(r)
  <2> DEFINE left == After(a, m)
  <2>1. /\ Len(left) = Len(a) - m /\ Len(a) \in Nat
        /\ \A i \in 1 .. Len(a) - m : left[i] = a[m + i]
    BY <1>2, <1>5, Parts, LenProperties
  <2> HIDE DEF left
  <2>2. ASSUME NEW i \in 1 .. Len(left)
        PROVE  End(left[i]) <= r.nxt /\ Fits(r, left[i], r.wnd)
    <3> DEFINE j == m + i
               g == a[j]
    <3>1. j \in 1 .. Len(a) /\ left[i] = g
      BY <1>5, <2>1
    <3> HIDE DEF j
    <3>2. End(g) <= p.nxt /\ Fits(p, g, p.wnd)
      BY <1>1, <3>1, Zenon DEF Sent, a
    <3>3. g.seq \in Nat /\ g.len \in Nat /\ q.wnd \in Nat
      BY <1>2, <3>1, SegmentsOf, BlockFacts
    <3> HIDE DEF g
    <3>4. g.seq + g.len <= ack + q.wnd
      <4>1. g.seq + g.len <= p.lastack + p.wnd
        BY <3>2, Zenon DEF Fits
      <4>2. p.lastack \in Nat /\ p.wnd \in Nat
        BY <1>2
      <4> QED
        BY <3>3, <4>1, <4>2
    <3> QED
      BY <1>3, <3>1, <3>2, <3>4, Zenon DEF Fits
  <2> QED
    BY <1>3, <2>2, Zenon DEF Sent, left
<1>14. Ready(r)
  <2>1. r.lastack <= r.nxt /\ r.nxt <= r.lbb /\ Mss <= r.cwnd /\ r.lastack <= r.wl2
        /\ (r.unacked # <<>> => r.timing)
    BY <1>1, <1>3
  <2> QED
    BY <1>3, <1>9, <1>11, <1>12, <1>13, <2>1, Zenon DEF Ready, Sound, t
<1>15. ASSUME NEW x \in Nat, MayHave(p, x) PROVE MayHave(r, x)
  <2>1. x <= p.nxt
    <3>1. x <= p.nxt \/ x <= p.lastack + 1
      BY <1>15 DEF MayHave
    <3> QED
      BY <1>2, <3>1
  <2> QED
    BY <1>3, <2>1 DEF MayHave
<1> QED
  BY <1>3, <1>14, <1>15
Took(o, p, a) == \/ o.wnd = p.wnd /\ o.wl2 = p.wl2
                 \/ o.wnd = a.wnd /\ o.wl2 = a.ack

LEMMA AnnouncedFields ==
  ASSUME NEW p \in Blocks, NEW a \in [ack : Nat, wnd : Nat], NEW q, q = Announced(p, a)
  PROVE  /\ q \in Blocks /\ SameButWindow(q, p) /\ Took(q, p, a) /\ a.ack <= q.wl2
         /\ \/ q.wnd = p.wnd /\ q.wl2 = p.wl2
            \/ q.wnd = a.wnd /\ q.wl2 = a.ack /\ p.wl2 < a.ack
            \/ q.wnd = a.wnd /\ q.wl2 = a.ack /\ p.wl2 = a.ack /\ p.wnd < a.wnd
<1> DEFINE c == p.wl2 < a.ack \/ (p.wl2 = a.ack /\ a.wnd > p.wnd)
<1>1. p.wl2 \in Nat /\ p.wnd \in Nat /\ a.ack \in Nat /\ a.wnd \in Nat
  BY BlockFacts
<1>2. CASE c
  <2>1. q = [p EXCEPT !.wnd = a.wnd, !.wl2 = a.ack, !.persist = @ /\ a.wnd = 0]
    BY <1>2, Zenon DEF Announced
  <2>2. /\ q \in Blocks /\ SameButWindow(q, p) /\ q.wnd = a.wnd /\ q.wl2 = a.ack
    BY <1>1, <2>1 DEF Blocks, SameButWindow
  <2> QED
    BY <1>1, <1>2, <2>2 DEF Took
<1>3. CASE ~c
  <2>1. q = p
    BY <1>3, Zenon DEF Announced
  <2>2. SameButWindow(q, p) /\ Took(q, p, a) /\ q.wnd = p.wnd /\ q.wl2 = p.wl2
    BY <2>1, Zenon DEF SameButWindow, Took
  <2> QED
    BY <1>1, <1>3, <2>1, <2>2
<1> QED
  BY <1>2, <1>3

\* An acknowledgement that covers none of unsent leaves it alone.
LEMMA NoneArrived ==
  ASSUME NEW x \in Blocks, NEW ack \in Nat,
         ack <= x.nxt => \A i \in 1 .. Len(x.unsent) : ack < End(x.unsent[i])
  PROVE  AckedUnsent(x, ack) = x
<1> DEFINE u == x.unsent
           n == Arrived(u, ack)
           l == x.queuelen
<1>1. u \in Seq(Segments) /\ l \in Nat /\ x.nxt \in Nat
  BY BlockFacts
<1>2. CASE ack > x.nxt
  BY <1>2, Zenon DEF AckedUnsent
<1>3. CASE ~(ack > x.nxt)
  <2>1. \A i \in 1 .. Len(u) : ack < End(u[i]) /\ End(u[i]) \in Nat
    BY <1>1, <1>3, SegmentsOf
  <2>2. n \in 0 .. Len(u) /\ \A i \in 1 .. n : i \in 1 .. Len(u) /\ End(u[i]) <= ack
    BY <1>1, ArrivedRun
  <2>3. AckedUnsent(x, ack) = [x EXCEPT !.unsent = After(u, n), !.queuelen = l - Pbufs(SubSeq(u, 1, n))]
    BY <1>3, Zenon DEF AckedUnsent
  <2>4. u = x.unsent /\ l = x.queuelen
    OBVIOUS
  <2> HIDE DEF n, u, l
  <2>5. n = 0
    <3> SUFFICES ASSUME n # 0 PROVE FALSE
      OBVIOUS
    <3>1. Len(u) \in Nat
      BY <1>1, LenProperties
    <3>2. 1 \in 1 .. n
      BY <2>2, <3>1
    <3> QED
      BY <2>1, <2>2, <3>2
  <2>6. After(u, n) = u /\ Pbufs(SubSeq(u, 1, n)) = 0
    <3>1. SubSeq(u, 1, 0) = <<>>
      BY SubSeqEmpty
    <3>2. After(u, 0) = u
      BY <1>1, SubSeqFull DEF After
    <3> QED
      BY <2>5, <3>1, <3>2, PbufsFew
  <2>7. l - Pbufs(SubSeq(u, 1, n)) = l
    BY <1>1, <2>6
  <2>8. AckedUnsent(x, ack) = [x EXCEPT !.unsent = u, !.queuelen = l]
    BY <2>3, <2>6, <2>7, Zenon
  <2>9. [x EXCEPT !.unsent = u, !.queuelen = l] = x
    BY <2>4 DEF Blocks
  <2> QED
    BY <2>8, <2>9, Zenon
<1> QED
  BY <1>2, <1>3
LEMMA OldReady ==
  ASSUME NEW p, Ready(p), NEW a \in [ack : Nat, wnd : Nat], MayHave(p, a.ack),
         ~(p.lastack < a.ack /\ a.ack <= p.nxt), NEW q, q = Announced(p, a)
  PROVE  Ready(q)
<1> DEFINE u == p.unacked
<1>1. /\ p \in Blocks /\ Chained(Stream(p)) /\ Spans(p) /\ Sent(p) /\ Counted(p)
      /\ Mss <= p.cwnd /\ (p.unacked # <<>> => p.timing) /\ p.lastack <= p.wl2
      /\ p.lastack <= p.nxt /\ p.nxt <= p.lbb
  BY Zenon DEF Ready, Sound
<1>2. /\ q \in Blocks /\ SameButWindow(q, p) /\ a.ack <= q.wl2
      /\ \/ q.wnd = p.wnd /\ q.wl2 = p.wl2
         \/ q.wnd = a.wnd /\ q.wl2 = a.ack /\ p.wl2 < a.ack
         \/ q.wnd = a.wnd /\ q.wl2 = a.ack /\ p.wl2 = a.ack /\ p.wnd < a.wnd
  BY <1>1, AnnouncedFields
<1>3. /\ q.unsent = p.unsent /\ q.unacked = p.unacked /\ q.state = p.state
      /\ q.lbb = p.lbb /\ q.nxt = p.nxt /\ q.lastack = p.lastack /\ q.buf = p.buf
      /\ q.queuelen = p.queuelen /\ q.cwnd = p.cwnd /\ q.timing = p.timing
  BY <1>2, Zenon DEF SameButWindow
<1>4. /\ p.wl2 \in Nat /\ p.lastack \in Nat /\ p.nxt \in Nat /\ p.wnd \in Nat /\ q.wnd \in Nat
      /\ a.ack \in Nat
  BY <1>1, <1>2, BlockFacts
<1>5. u # <<>> => p.wnd <= q.wnd
  <2> SUFFICES ASSUME u # <<>> PROVE p.wnd <= q.wnd
    OBVIOUS
  <2>1. a.ack <= p.nxt
    BY DEF MayHave
  <2>2. a.ack <= p.wl2
    BY <1>1, <1>4, <2>1
  <2> QED
    BY <1>2, <1>4, <2>2
<1>6. Stream(q) = Stream(p)
  BY <1>3, Zenon DEF Stream
<1>7. Chained(Stream(q)) /\ Spans(q) /\ Counted(q)
  BY <1>1, <1>2, <1>3, <1>6, SameStream
<1>8. Sent(q)
  <2>1. ASSUME NEW i \in 1 .. Len(u) PROVE End(u[i]) <= q.nxt /\ Fits(q, u[i], q.wnd)
    <3>1. u[i] \in Segments /\ u # <<>>
      <4>1. u \in Seq(Segments)
        BY <1>1, BlockFacts
      <4>2. u[i] \in Segments
        BY <4>1, SegmentsOf
      <4>3. u # <<>>
        BY <4>1, EmptySeq
      <4> QED
        BY <4>2, <4>3
    <3>2. End(u[i]) <= p.nxt /\ Fits(p, u[i], p.wnd)
      BY <1>1, Zenon DEF Sent
    <3>3. Fits(p, u[i], q.wnd)
      BY <1>1, <1>4, <1>5, <3>1, <3>2, FitsMore
    <3> QED
      BY <1>3, <3>2, <3>3, Zenon DEF Fits
  <2> QED
    BY <1>3, <2>1, Zenon DEF Sent
<1>9. q.lastack <= q.wl2
  <2>1. q.wl2 = p.wl2 \/ p.wl2 < q.wl2
    BY <1>2
  <2>2. q.wl2 \in Nat
    BY <1>2, BlockFacts
  <2> QED
    BY <1>1, <1>3, <1>4, <2>1, <2>2
<1> QED
  BY <1>1, <1>2, <1>3, <1>7, <1>8, <1>9, Zenon DEF Ready, Sound

\* What is left of a block before tcp_output, or when the connection is over.
Kept(r, p, a) ==
  /\ r \in Blocks /\ r.lastack <= r.nxt /\ r.nxt = p.nxt /\ r.lbb = p.lbb
  /\ r.state = p.state /\ r.queuelen <= SndQueueLen /\ Took(r, p, a)
  /\ \A x \in Nat : MayHave(p, x) => MayHave(r, x)

Handled(r, p, a) ==
  /\ Kept(r, p, a)
  /\ \E q : Settled(Output(r), q, Emitted(r)) /\ Kept(q, p, a)

LEMMA ReadyKept ==
  ASSUME NEW r, Ready(r), NEW p, r.nxt = p.nxt, r.lbb = p.lbb, r.state = p.state,
         NEW a, Took(r, p, a), \A x \in Nat : MayHave(p, x) => MayHave(r, x)
  PROVE  Handled(r, p, a) /\ Kept(r, p, a)
<1>1. Settled(Output(r), r, Emitted(r))
  BY OutputReady
<1>2. r \in Blocks /\ r.lastack <= r.nxt /\ r.queuelen <= SndQueueLen
  BY Zenon DEF Ready, Sound, Counted
<1>3. Kept(r, p, a)
  BY <1>2, Zenon DEF Kept
<1> QED
  BY <1>1, <1>3, Zenon DEF Handled
LEMMA RetriedBound ==
  ASSUME NEW n \in 0 .. MaxRtx + 1
  PROVE  Retried(n) \in 0 .. MaxRtx + 1
<1> DEFINE m == n + 1
           k == MaxRtx + 1
<1>1. m \in Nat /\ k \in Nat
  BY SenderAssumption
<1> HIDE DEF m, k
<1>2. Min({m, k}) = IF m <= k THEN m ELSE k
  BY <1>1, LeastOfTwo, Zenon
<1>3. PICK x : x = Min({m, k})
  OBVIOUS
<1>4. x \in 0 .. k
  BY <1>1, <1>2, <1>3
<1> QED
  BY <1>3, <1>4, Zenon DEF Retried, m, k

\* The segment that returns to unsent ends behind what is acknowledged too.
LEMMA ReturnedEnds ==
  ASSUME NEW q, Ready(q), q.unacked # <<>>, NEW u, u = Insert(q.unsent, Head(q.unacked))
  PROVE  u \in Seq(Segments) /\ \A i \in 1 .. Len(u) : q.lastack < End(u[i])
<1> DEFINE a == q.unacked
           v == q.unsent
           h == a[1]
           w == <<h>> \o v
<1>1. q \in Blocks /\ Chained(Stream(q)) /\ Spans(q)
  BY Zenon DEF Ready, Sound
<1>2. a \in Seq(Segments) /\ v \in Seq(Segments) /\ a # <<>> /\ Stream(q) = a \o v
  BY <1>1, BlockFacts DEF Stream
<1>3. /\ \A i \in 1 .. Len(v) : q.lastack < End(v[i])
      /\ \A i \in 1 .. Len(a) : q.lastack < End(a[i])
      /\ Rising(a \o v)
  BY <1>1, <1>2, UnsentEnds, StreamSpans
<1> HIDE DEF a, v
<1>4. h \in Segments /\ Head(a) = h /\ 1 \in 1 .. Len(a)
  BY <1>2, FirstAndRest
<1>5. \A i \in 1 .. Len(v) : h.seq < v[i].seq
  BY <1>2, <1>3, <1>4, RisingPart
<1>6. q.lastack < End(h)
  BY <1>3, <1>4
<1> HIDE DEF h
<1>7. u = w
  <2>1. Insert(v, h) = <<h>> \o v
    BY <1>2, <1>4, <1>5, InsertIsQueue
  <2>2. u = Insert(v, h)
    BY <1>4, Zenon DEF a, v
  <2> QED
    BY <2>1, <2>2
<1>8. <<h>> \in Seq(Segments) /\ Len(<<h>>) = 1 /\ <<h>>[1] = h /\ Len(v) \in Nat
  BY <1>2, <1>4, LenProperties
<1>9. /\ w \in Seq(Segments) /\ Len(w) = 1 + Len(v)
      /\ \A i \in 1 .. 1 + Len(v) : w[i] = IF i <= 1 THEN <<h>>[i] ELSE v[i - 1]
  BY <1>2, <1>8, ConcatProperties
<1> HIDE DEF w
<1>10. ASSUME NEW i \in 1 .. Len(w) PROVE q.lastack < End(w[i])
  <2>1. CASE i = 1
    <3>1. w[i] = h
      BY <1>8, <1>9, <2>1
    <3> QED
      BY <1>6, <3>1
  <2>2. CASE i # 1
    <3>1. i - 1 \in 1 .. Len(v) /\ w[i] = v[i - 1]
      BY <1>8, <1>9, <2>2
    <3> QED
      BY <1>3, <3>1
  <2> QED
    BY <2>1, <2>2
<1> QED
  BY <1>7, <1>9, <1>10

\* tcp_receive, and tcp_output after it.
LEMMA ReceivedReady ==
  ASSUME NEW p, Ready(p), ~p.input, NEW a \in [ack : Nat, wnd : Nat], MayHave(p, a.ack),
         p.wl2 < a.ack => p.wl2 + p.wnd <= a.ack + a.wnd,
         NEW d \in BOOLEAN, NEW r \in Received(p, a, d)
  PROVE  Handled(r, p, a)
<1> DEFINE q == Announced(p, a)
           isNew == p.lastack < a.ack /\ a.ack <= p.nxt
           isDup == /\ ~d /\ a.ack = p.lastack /\ p.timing
                    /\ q.wl2 + q.wnd = p.wl2 + p.wnd
           opens == (IF p.infr THEN Min({p.cwnd, 2 * Mss}) ELSE p.cwnd) .. Max({p.cwnd, SndBuf})
           x == [Rexmit(q) EXCEPT !.cwnd = Max({@, SndBuf})]
<1>1. /\ p \in Blocks /\ Mss <= p.cwnd /\ p.lastack <= p.wl2 /\ p.lastack <= p.nxt
      /\ Chained(Stream(p)) /\ Spans(p)
  BY Zenon DEF Ready, Sound
<1>2. /\ p.cwnd \in Nat /\ p.wnd \in Nat /\ p.lastack \in Nat /\ p.wl2 \in Nat /\ p.nxt \in Nat
      /\ a.ack \in Nat /\ a.wnd \in Nat
  BY <1>1, BlockFacts
<1>3. /\ q \in Blocks /\ SameButWindow(q, p) /\ Took(q, p, a) /\ a.ack <= q.wl2
      /\ \/ q.wnd = p.wnd /\ q.wl2 = p.wl2
         \/ q.wnd = a.wnd /\ q.wl2 = a.ack /\ p.wl2 < a.ack
         \/ q.wnd = a.wnd /\ q.wl2 = a.ack /\ p.wl2 = a.ack /\ p.wnd < a.wnd
  BY <1>1, AnnouncedFields
<1>4. \/ isNew /\ \E c \in opens : r = [AckedUnsent([Acked(q, a.ack) EXCEPT !.cwnd = c], a.ack)
                                          EXCEPT !.input = d]
      \/ ~isNew /\ r = [AckedUnsent(q, a.ack) EXCEPT !.input = d]
      \/ /\ ~isNew /\ isDup /\ p.unacked # <<>> /\ ~p.infr
         /\ r = [AckedUnsent(x, a.ack) EXCEPT !.input = d]
  BY Zenon DEF Received
<1> HIDE DEF q, x
<1>5. ASSUME isNew, NEW c \in opens, r = Renewed(q, a.ack, c, d)
      PROVE  Handled(r, p, a)
  <2>1. c \in Nat /\ Mss <= c
    <3>1. PICK lo, hi : /\ lo = IF p.infr THEN Min({p.cwnd, 2 * Mss}) ELSE p.cwnd
                        /\ hi = Max({p.cwnd, SndBuf})
      OBVIOUS
    <3>2. Mss \in Nat /\ 2 * Mss \in Nat /\ Mss <= 2 * Mss /\ SndBuf \in Nat
      BY SenderAssumption
    <3>3. lo \in Nat /\ Mss <= lo
      <4>1. CASE p.infr
        <5> DEFINE t == 2 * Mss
        <5>1. t \in Nat /\ Mss <= t
          BY <3>2
        <5>2. lo = Min({p.cwnd, t})
          BY <3>1, <4>1, Zenon
        <5> HIDE DEF t
        <5>3. lo = p.cwnd \/ lo = t
          BY <1>2, <5>1, <5>2, LeastOfTwo
        <5> QED
          BY <1>1, <1>2, <5>1, <5>3
      <4>2. CASE ~p.infr
        BY <1>1, <1>2, <3>1, <4>2, Zenon
      <4> QED
        BY <4>1, <4>2
    <3>4. hi \in Nat
      BY <1>2, <3>1, <3>2, MostOfTwo, Zenon
    <3>5. c \in lo .. hi
      BY <3>1, Zenon
    <3> QED
      BY <3>2, <3>3, <3>4, <3>5
  <2>2. p.lastack + p.wnd <= a.ack + q.wnd
    <3>1. q.wnd \in Nat
      BY <1>3, BlockFacts
    <3>2. \/ q.wnd = p.wnd
          \/ q.wnd = a.wnd /\ p.wl2 + p.wnd <= a.ack + a.wnd
          \/ q.wnd = a.wnd /\ p.wnd < a.wnd
      BY <1>3
    <3> QED
      BY <1>1, <1>2, <1>5, <3>1, <3>2
  <2>3. /\ Ready(r) /\ r.state = p.state /\ r.lbb = p.lbb /\ r.nxt = p.nxt
        /\ r.wnd = q.wnd /\ r.wl2 = q.wl2 /\ r.input = d
        /\ \A y \in Nat : MayHave(p, y) => MayHave(r, y)
    BY <1>2, <1>3, <1>5, <2>1, <2>2, AckedReady
  <2>4. Took(r, p, a)
    BY <1>3, <2>3, Zenon DEF Took
  <2> QED
    BY <2>3, <2>4, ReadyKept
<1>6. ASSUME ~isNew PROVE Ready(q)
  BY <1>6, OldReady DEF q
<1>7. /\ q.unsent = p.unsent /\ q.unacked = p.unacked /\ q.state = p.state
      /\ q.lbb = p.lbb /\ q.nxt = p.nxt /\ q.lastack = p.lastack /\ q.buf = p.buf
      /\ q.queuelen = p.queuelen /\ q.cwnd = p.cwnd /\ q.timing = p.timing
      /\ q.input = p.input /\ q.infr = p.infr
  BY <1>3, Zenon DEF SameButWindow
<1>8. ASSUME ~isNew, r = [AckedUnsent(q, a.ack) EXCEPT !.input = d]
      PROVE  Handled(r, p, a)
  <2>1. Ready(q)
    BY <1>6, <1>8
  <2>2. AckedUnsent(q, a.ack) = q
    <3>1. ASSUME a.ack <= q.nxt, NEW i \in 1 .. Len(q.unsent) PROVE a.ack < End(q.unsent[i])
      <4>1. p.lastack < End(p.unsent[i]) /\ p.unsent \in Seq(Segments)
        BY <1>1, <1>7, <3>1, UnsentEnds, BlockFacts
      <4>2. End(p.unsent[i]) \in Nat /\ a.ack <= p.lastack
        BY <1>2, <1>7, <1>8, <3>1, <4>1, SegmentsOf
      <4> QED
        BY <1>2, <1>7, <4>1, <4>2
    <3> QED
      BY <1>2, <1>3, <3>1, NoneArrived
  <2>3. r = [q EXCEPT !.input = d]
    BY <1>8, <2>2, Zenon
  <2>4. /\ r \in Blocks /\ r.unsent = q.unsent /\ r.unacked = q.unacked /\ r.state = q.state
        /\ r.lbb = q.lbb /\ r.nxt = q.nxt /\ r.lastack = q.lastack /\ r.buf = q.buf
        /\ r.queuelen = q.queuelen /\ r.cwnd = q.cwnd /\ r.timing = q.timing
        /\ r.wnd = q.wnd /\ r.wl2 = q.wl2
    BY <1>3, <2>3 DEF Blocks
  <2>5. Ready(r)
    <3>1. Stream(r) = Stream(q)
      BY <2>4, Zenon DEF Stream
    <3>2. Spans(r) /\ Sent(r) /\ Counted(r)
      BY <2>1, <2>4, <3>1, Zenon DEF Ready, Sound, Spans, Sent, Counted, Fits
    <3> QED
      BY <2>1, <2>4, <3>1, <3>2, Zenon DEF Ready, Sound
  <2>6. Took(r, p, a) /\ \A y \in Nat : MayHave(p, y) => MayHave(r, y)
    BY <1>3, <1>7, <2>4, Zenon DEF Took, MayHave
  <2> QED
    BY <1>7, <2>4, <2>5, <2>6, ReadyKept
<1>9. ASSUME ~isNew, isDup, p.unacked # <<>>, ~p.infr, r = [AckedUnsent(x, a.ack) EXCEPT !.input = d]
      PROVE  Handled(r, p, a)
  <2> DEFINE u == Insert(q.unsent, Head(q.unacked))
             v == Tail(q.unacked)
             c == Max({q.cwnd, SndBuf})
             k == Retried(q.nrtx)
  <2>1. Ready(q) /\ q.unacked # <<>>
    BY <1>6, <1>7, <1>9
  <2>2. x = [[q EXCEPT !.unacked = v, !.unsent = u, !.nrtx = k, !.infr = TRUE]
               EXCEPT !.cwnd = Max({@, SndBuf})]
    BY Zenon DEF x, Rexmit
  <2>3. u \in Seq(Segments) /\ \A i \in 1 .. Len(u) : q.lastack < End(u[i])
    BY <2>1, ReturnedEnds
  <2>4. v \in Seq(Segments)
    BY <1>3, <2>1, BlockFacts, FirstAndRest
  <2>5. k \in 0 .. MaxRtx + 1
    <3>1. q.nrtx \in 0 .. MaxRtx + 1
      BY <1>3 DEF Blocks
    <3> QED
      BY <3>1, RetriedBound
  <2>6. c \in Nat /\ q.cwnd <= c
    BY <1>2, <1>7, SenderAssumption, MostOfTwo
  <2> HIDE DEF u, v, k, c
  <2>7. x = [[q EXCEPT !.unacked = v, !.unsent = u, !.nrtx = k, !.infr = TRUE] EXCEPT !.cwnd = c]
    <3> DEFINE y == [q EXCEPT !.unacked = v, !.unsent = u, !.nrtx = k, !.infr = TRUE]
    <3>1. y.cwnd = q.cwnd
      BY <1>3 DEF Blocks
    <3>2. x = [y EXCEPT !.cwnd = Max({@, SndBuf})]
      BY <2>2
    <3> HIDE DEF y
    <3>3. x = [y EXCEPT !.cwnd = c]
      BY <3>1, <3>2, Zenon DEF c
    <3> QED
      BY <3>3 DEF y
  <2>8. /\ x \in Blocks /\ x.unsent = u /\ x.unacked = v /\ x.state = q.state
        /\ x.lbb = q.lbb /\ x.nxt = q.nxt /\ x.lastack = q.lastack /\ x.buf = q.buf
        /\ x.queuelen = q.queuelen /\ x.cwnd = c /\ x.timing = q.timing
        /\ x.wnd = q.wnd /\ x.wl2 = q.wl2 /\ x.infr
    BY <1>3, <2>3, <2>4, <2>5, <2>6, <2>7 DEF Blocks
  <2>9. AckedUnsent(x, a.ack) = x
    <3>1. \A i \in 1 .. Len(x.unsent) : a.ack < End(x.unsent[i])
      BY <1>7, <1>9, <2>3, <2>8
    <3> QED
      BY <1>2, <2>8, <3>1, NoneArrived
  <2>10. r = [x EXCEPT !.input = FALSE]
    BY <1>9, <2>9
  <2>11. /\ r \in Blocks /\ ~r.input /\ r.unsent = u /\ r.unacked = v /\ r.state = q.state
         /\ r.lbb = q.lbb /\ r.nxt = q.nxt /\ r.lastack = q.lastack /\ r.buf = q.buf
         /\ r.queuelen = q.queuelen /\ r.cwnd = c /\ r.timing = q.timing
         /\ r.wnd = q.wnd /\ r.wl2 = q.wl2 /\ r.infr
    BY <2>8, <2>10 DEF Blocks
  <2>12. Mss <= r.cwnd
    BY <1>1, <1>2, <1>7, <2>6, <2>11, SenderAssumption
  <2>13. Settled(Output(r), q, Emitted(r))
    BY <2>1, <2>11, <2>12, RexmitReady DEF u, v
  <2>14. Took(q, p, a) /\ Took(r, p, a)
    BY <1>3, <2>11, Zenon DEF Took
  <2>15. \A y \in Nat : MayHave(p, y) => MayHave(q, y) /\ MayHave(r, y)
    BY <1>7, <1>9, <2>11, Zenon DEF MayHave
  <2>16. q.queuelen <= SndQueueLen /\ q.lastack <= q.nxt
    BY <2>1, Zenon DEF Ready, Sound, Counted
  <2>17. Kept(q, p, a)
    BY <1>3, <1>7, <2>14, <2>15, <2>16, Zenon DEF Kept
  <2>18. Kept(r, p, a)
    BY <1>7, <2>11, <2>14, <2>15, <2>16, Zenon DEF Kept
  <2> QED
    BY <2>13, <2>17, <2>18, Zenon DEF Handled
<1> QED
  BY <1>4, <1>5, <1>8, <1>9, Zenon DEF Renewed
\* All that was sent is to be sent again.
LEMMA RtoReady ==
  ASSUME NEW p, Ready(p), NEW x, x = RexmitRto(p)
  PROVE  /\ Ready(x) /\ x.state = p.state /\ x.lbb = p.lbb /\ x.nxt = p.nxt
         /\ x.wnd = p.wnd /\ x.wl2 = p.wl2 /\ x.input = p.input
         /\ \A y \in Nat : MayHave(p, y) => MayHave(x, y)
<1> DEFINE k == Retried(p.nrtx)
           s == p.unacked \o p.unsent
<1>1. /\ p \in Blocks /\ Chained(Stream(p)) /\ Spans(p) /\ Counted(p) /\ p.lastack <= p.wl2
      /\ p.lastack <= p.nxt /\ p.nxt <= p.lbb
  BY Zenon DEF Ready, Sound
<1>2. s \in Seq(Segments) /\ s = Stream(p)
  BY <1>1, BlockFacts DEF Stream
<1>3. k \in 0 .. MaxRtx + 1
  <2>1. p.nrtx \in 0 .. MaxRtx + 1
    BY <1>1 DEF Blocks
  <2> QED
    BY <2>1, RetriedBound
<1>4. x = [p EXCEPT !.unsent = s, !.unacked = <<>>, !.cwnd = Mss, !.nrtx = k]
  BY Zenon DEF RexmitRto
<1> HIDE DEF s, k
<1>5. /\ x \in Blocks /\ x.unsent = s /\ x.unacked = <<>> /\ x.cwnd = Mss
      /\ x.state = p.state /\ x.lbb = p.lbb /\ x.nxt = p.nxt /\ x.lastack = p.lastack
      /\ x.buf = p.buf /\ x.queuelen = p.queuelen /\ x.wnd = p.wnd /\ x.wl2 = p.wl2
      /\ x.input = p.input
  <2> DEFINE z == <<>>
  <2>1. p \in Blocks /\ z \in Seq(Segments) /\ s \in Seq(Segments) /\ Mss \in Nat
    BY <1>1, <1>2, SenderAssumption
  <2>2. x = [p EXCEPT !.unsent = s, !.unacked = z, !.cwnd = Mss, !.nrtx = k]
    BY <1>4
  <2> HIDE DEF z
  <2> DEFINE y == [p EXCEPT !.unsent = s, !.unacked = z]
  <2>3. /\ y \in Blocks /\ y.unsent = s /\ y.unacked = z
        /\ y.state = p.state /\ y.lbb = p.lbb /\ y.nxt = p.nxt /\ y.lastack = p.lastack
        /\ y.buf = p.buf /\ y.queuelen = p.queuelen /\ y.wnd = p.wnd /\ y.wl2 = p.wl2
        /\ y.input = p.input
    BY <2>1 DEF Blocks
  <2>4. x = [y EXCEPT !.cwnd = Mss, !.nrtx = k]
    BY <2>2
  <2> HIDE DEF y
  <2>5. /\ x \in Blocks /\ x.cwnd = Mss /\ x.unsent = y.unsent /\ x.unacked = y.unacked
        /\ x.state = y.state /\ x.lbb = y.lbb /\ x.nxt = y.nxt /\ x.lastack = y.lastack
        /\ x.buf = y.buf /\ x.queuelen = y.queuelen /\ x.wnd = y.wnd /\ x.wl2 = y.wl2
        /\ x.input = y.input
    BY <1>3, <2>1, <2>3, <2>4 DEF Blocks
  <2> QED
    BY <2>3, <2>5 DEF z
<1>6. Stream(x) = Stream(p)
  <2>1. <<>> \o s = s
    BY <1>2, ConcatEmptySeq
  <2> QED
    BY <1>2, <1>5, <2>1, Zenon DEF Stream
<1>7. Chained(Stream(x)) /\ Spans(x) /\ Counted(x)
  BY <1>1, <1>5, <1>6, SameStream
<1>8. Sent(x)
  <2>1. Len(x.unacked) = 0
    BY <1>5, EmptySeq
  <2> QED
    BY <2>1 DEF Sent
<1>9. Mss <= x.cwnd
  BY <1>5, SenderAssumption
<1>10. Ready(x)
  BY <1>1, <1>5, <1>7, <1>8, <1>9, Zenon DEF Ready, Sound
<1>11. \A y \in Nat : MayHave(p, y) => MayHave(x, y)
  BY <1>5, Zenon DEF MayHave
<1> QED
  BY <1>5, <1>10, <1>11
-----------------------------------------------------------------------------
(* tcp_enqueue *)

LEMMA AllAndLast ==
  ASSUME NEW q \in Seq(Segments), q # <<>>
  PROVE  /\ Len(q) \in 1 .. Len(q) /\ Last(q) = q[Len(q)] /\ Last(q) \in Segments
         /\ Front(q) \in Seq(Segments) /\ q = Front(q) \o <<Last(q)>>
<1>1. Len(q) \in Nat /\ Len(q) # 0 /\ 1 \in 1 .. Len(q) /\ Len(q) \in 1 .. Len(q)
  BY EmptySeq
<1>2. Last(q) = q[Len(q)] /\ Front(q) = SubSeq(q, 1, Len(q) - 1)
  BY Zenon DEF Last, Front
<1>3. Last(q) \in Segments
  BY <1>1, <1>2, SegmentsOf
<1>4. Front(q) \in Seq(Segments)
  <2>1. Len(q) - 1 \in 0 .. Len(q)
    BY <1>1
  <2> QED
    BY <1>2, <2>1, Parts
<1>5. SubSeq(q, 1, Len(q)) = SubSeq(q, 1, Len(q) - 1) \o <<q[Len(q)]>>
  BY <1>1, SubSeqRecursiveSecond
<1>6. SubSeq(q, 1, Len(q)) = q
  BY SubSeqFull
<1> QED
  BY <1>1, <1>2, <1>3, <1>4, <1>5, <1>6, Zenon

LEMMA OneMore ==
  ASSUME NEW q \in Seq(Segments), NEW s \in Segments
  PROVE  /\ q \o <<s>> \in Seq(Segments) /\ Len(q) \in Nat /\ Len(q \o <<s>>) = Len(q) + 1
         /\ \A i \in 1 .. Len(q) : (q \o <<s>>)[i] = q[i]
         /\ (q \o <<s>>)[Len(q) + 1] = s
<1> DEFINE w == q \o <<s>>
           n == Len(q)
<1>1. <<s>> \in Seq(Segments) /\ Len(<<s>>) = 1 /\ <<s>>[1] = s /\ n \in Nat
  BY LenProperties
<1>2. w \in Seq(Segments)
  BY <1>1, ConcatProperties
<1>3. /\ Len(w) = n + 1
      /\ \A i \in 1 .. n + 1 : w[i] = IF i <= n THEN q[i] ELSE <<s>>[i - n]
  BY <1>1, ConcatProperties
<1> HIDE DEF w, n
<1>4. (n + 1) - n = 1 /\ n + 1 \in 1 .. n + 1 /\ ~(n + 1 <= n)
  BY <1>1
<1>5. w[n + 1] = <<s>>[(n + 1) - n]
  BY <1>3, <1>4
<1>6. \A i \in 1 .. n : w[i] = q[i]
  BY <1>1, <1>3
<1>7. w[n + 1] = s
  BY <1>1, <1>4, <1>5
<1> QED
  BY <1>1, <1>2, <1>3, <1>6, <1>7 DEF w, n

LEMMA ChainGrows ==
  ASSUME NEW q \in Seq(Segments), NEW s \in Segments, Chained(q), s.seq < End(s),
         q = <<>> \/ End(q[Len(q)]) = s.seq
  PROVE  Chained(q \o <<s>>)
<1> DEFINE w == q \o <<s>>
           n == Len(q)
<1>1. n \in Nat
  BY OneMore
<1>2. Len(w) = n + 1
  BY OneMore
<1>3. (\A i \in 1 .. n : w[i] = q[i]) /\ w[n + 1] = s
  BY OneMore
<1> HIDE DEF w, n
<1>4. \A i \in 1 .. n : q[i].seq < End(q[i]) /\ (i < n => q[i + 1].seq = End(q[i]))
  BY Zenon DEF Chained, n
<1>5. n # 0 => End(q[n]) = s.seq
  BY EmptySeq DEF n
<1>6. ASSUME NEW i \in 1 .. Len(w)
      PROVE  w[i].seq < End(w[i]) /\ (i < Len(w) => w[i + 1].seq = End(w[i]))
  <2>1. CASE i = n + 1
    BY <1>1, <1>2, <1>3, <2>1
  <2>2. CASE i # n + 1
    <3>1. i \in 1 .. n /\ n # 0
      BY <1>1, <1>2, <2>2
    <3>2. w[i] = q[i]
      BY <1>3, <3>1
    <3>3. CASE i = n
      BY <1>3, <1>4, <1>5, <3>1, <3>2, <3>3
    <3>4. CASE i # n
      <4>1. i < n /\ i + 1 \in 1 .. n
        BY <1>1, <3>1, <3>4
      <4> QED
        BY <1>3, <1>4, <3>1, <3>2, <4>1
    <3> QED
      BY <3>3, <3>4
  <2> QED
    BY <2>1, <2>2
<1> QED
  BY <1>6, Zenon DEF Chained, w

\* The last segment of a chain may grow.
LEMMA ChainExtends ==
  ASSUME NEW q \in Seq(Segments), NEW e \in Segments, NEW f \in Segments,
         Chained(q \o <<e>>), f.seq = e.seq, f.seq < End(f)
  PROVE  Chained(q \o <<f>>)
<1> DEFINE w == q \o <<e>>
           n == Len(q)
<1>1. n \in Nat
  BY OneMore
<1>2. Len(w) = n + 1
  BY OneMore
<1>3. (\A i \in 1 .. n : w[i] = q[i]) /\ w[n + 1] = e
  BY OneMore
<1> HIDE DEF w, n
<1>4. \A i \in 1 .. n + 1 : w[i].seq < End(w[i]) /\ (i < n + 1 => w[i + 1].seq = End(w[i]))
  BY <1>2, Zenon DEF Chained, w
<1>5. Chained(q)
  <2>1. ASSUME NEW i \in 1 .. n
        PROVE  q[i].seq < End(q[i]) /\ (i < n => q[i + 1].seq = End(q[i]))
    <3>1. i \in 1 .. n + 1 /\ i < n + 1 /\ w[i] = q[i]
      BY <1>1, <1>3
    <3>2. i < n => i + 1 \in 1 .. n
      BY <1>1
    <3>3. i < n => w[i + 1] = q[i + 1]
      BY <1>3, <3>2
    <3> QED
      BY <1>4, <3>1, <3>3
  <2> QED
    BY <2>1, Zenon DEF Chained, n
<1>6. q = <<>> \/ End(q[Len(q)]) = f.seq
  <2> SUFFICES ASSUME q # <<>> PROVE End(q[n]) = f.seq
    BY DEF n
  <2>1. n \in 1 .. n /\ n \in 1 .. n + 1 /\ n < n + 1
    BY <1>1, EmptySeq DEF n
  <2>2. w[n + 1].seq = End(w[n]) /\ w[n] = q[n]
    BY <1>3, <1>4, <2>1
  <2> QED
    BY <1>3, <2>2
<1> QED
  BY <1>5, <1>6, ChainGrows
LEMMA SegmentEnd ==
  ASSUME NEW s \in Segments
  PROVE  s.seq \in Nat /\ End(s) \in Nat
<1>1. s.seq \in Nat /\ s.len \in Nat
  BY SenderAssumption DEF Segments
<1> QED
  BY <1>1 DEF End

\* r is q with s at its end: linked behind the last segment, or put into it.
Lengthened(q, s, r) ==
  \/ r = q \o <<s>>
  \/ \E v \in Seq(Segments), e, f \in Segments :
       /\ q = v \o <<e>> /\ r = v \o <<f>>
       /\ f.seq = e.seq /\ f.seq < End(f) /\ End(f) = End(s) /\ End(e) <= End(f)
       /\ f.bufs = IF s.fin THEN e.bufs ELSE e.bufs + s.bufs

LEMMA Linked ==
  ASSUME NEW q \in Seq(Segments), NEW s \in Segments
  PROVE  Lengthened(q, s, Link(q, s))
<1> DEFINE e == Last(q)
           v == Front(q)
           f == [e EXCEPT !.len = @ + s.len, !.fin = s.fin, !.bufs = IF s.fin THEN @ ELSE @ + s.bufs]
           c == q # <<>> /\ Chains(e, s)
<1>1. CASE c
  <2>1. e \in Segments /\ v \in Seq(Segments) /\ q = v \o <<e>>
    BY <1>1, AllAndLast
  <2>2. Link(q, s) = v \o <<f>>
    BY <1>1, Zenon DEF Link
  <2>3. /\ ~e.fin /\ End(e) > e.seq /\ e.len + s.len <= Mss /\ End(e) = s.seq
    BY <1>1, Zenon DEF Chains
  <2> HIDE DEF e, v
  <2>4. /\ e.seq \in Nat /\ e.len \in Nat /\ e.bufs \in Nat
        /\ s.seq \in Nat /\ s.len \in Nat /\ s.bufs \in Nat /\ s.fin \in BOOLEAN
        /\ e.len + s.len \in 0 .. Mss
    BY <2>1, <2>3, SenderAssumption DEF Segments
  <2>5. /\ f \in Segments /\ f.seq = e.seq /\ f.len = e.len + s.len /\ f.fin = s.fin
        /\ f.bufs = IF s.fin THEN e.bufs ELSE e.bufs + s.bufs
    <3> DEFINE n == e.len + s.len
               b == IF s.fin THEN e.bufs ELSE e.bufs + s.bufs
    <3>1. e \in Segments
      BY <2>1
    <3>2. n \in 0 .. Mss /\ b \in Nat /\ s.fin \in BOOLEAN
      BY <2>4
    <3>3. f = [e EXCEPT !.len = n, !.fin = s.fin, !.bufs = b]
      OBVIOUS
    <3> HIDE DEF f, n, b
    <3>4. f \in Segments /\ f.seq = e.seq /\ f.len = n /\ f.fin = s.fin /\ f.bufs = b
      BY <3>1, <3>2, <3>3 DEF Segments
    <3> QED
      BY <3>4 DEF n, b
  <2> HIDE DEF f
  <2>6. End(e) = e.seq + e.len
    BY <2>3, <2>4 DEF End
  <2>7. End(f) = End(s) /\ End(e) <= End(f) /\ f.seq < End(f)
    <3>1. End(f) = f.seq + f.len + (IF f.fin THEN 1 ELSE 0)
      BY Zenon DEF End
    <3>2. End(f) = e.seq + (e.len + s.len) + (IF s.fin THEN 1 ELSE 0)
      BY <2>5, <3>1, Zenon
    <3>3. End(s) = s.seq + s.len + (IF s.fin THEN 1 ELSE 0)
      BY Zenon DEF End
    <3>4. s.seq = e.seq + e.len /\ e.len > 0
      BY <2>3, <2>4, <2>6
    <3> DEFINE d == IF s.fin THEN 1 ELSE 0
    <3>5. d \in Nat
      OBVIOUS
    <3>6. End(f) = e.seq + (e.len + s.len) + d /\ End(s) = e.seq + e.len + s.len + d
      BY ONLY <3>2, <3>3, <3>4
    <3> HIDE DEF d
    <3>7. End(f) = End(s) /\ e.seq + e.len <= End(f) /\ e.seq < End(f)
      <4>1. \A i, j, k, m \in Nat : j > 0 =>
              /\ i + (j + k) + m = i + j + k + m
              /\ i + j <= i + (j + k) + m /\ i < i + (j + k) + m
        BY ONLY TRUE
      <4>2. e.seq \in Nat /\ e.len \in Nat /\ s.len \in Nat
        BY ONLY <2>4
      <4>3. e.len > 0 =>
              /\ e.seq + (e.len + s.len) + d = e.seq + e.len + s.len + d
              /\ e.seq + e.len <= e.seq + (e.len + s.len) + d
              /\ e.seq < e.seq + (e.len + s.len) + d
        BY ONLY <3>5, <4>1, <4>2, Zenon
      <4> QED
        BY ONLY <3>4, <3>6, <4>3, Zenon
    <3> QED
      BY ONLY <2>5, <2>6, <3>7
  <2>8. \E vv \in Seq(Segments), ee, ff \in Segments :
          /\ q = vv \o <<ee>> /\ Link(q, s) = vv \o <<ff>>
          /\ ff.seq = ee.seq /\ ff.seq < End(ff) /\ End(ff) = End(s) /\ End(ee) <= End(ff)
          /\ ff.bufs = IF s.fin THEN ee.bufs ELSE ee.bufs + s.bufs
    <3>1. /\ q = v \o <<e>> /\ Link(q, s) = v \o <<f>>
          /\ f.seq = e.seq /\ f.seq < End(f) /\ End(f) = End(s) /\ End(e) <= End(f)
          /\ f.bufs = IF s.fin THEN e.bufs ELSE e.bufs + s.bufs
      BY <2>1, <2>2, <2>5, <2>7
    <3> QED
      BY <2>1, <2>5, <3>1, Zenon
  <2> QED
    BY <2>8, Zenon DEF Lengthened
<1>2. CASE ~c
  <2>1. Link(q, s) = Append(q, s)
    BY <1>2, Zenon DEF Link
  <2>2. Link(q, s) = q \o <<s>>
    BY <2>1, AppendIsConcat
  <2> QED
    BY <2>2, Zenon DEF Lengthened
<1> QED
  BY <1>1, <1>2

\* A stream that gets s at its end.
LEMMA StreamLengthened ==
  ASSUME NEW q \in Seq(Segments), NEW s \in Segments, NEW r, Lengthened(q, s, r),
         Chained(q), NEW l \in Nat, Begins(q, l, s.seq), s.seq < End(s)
  PROVE  r \in Seq(Segments) /\ Chained(r) /\ Begins(r, l, End(s))
<1>1. s.seq \in Nat /\ End(s) \in Nat
  BY DEF Segments, End
<1>2. CASE r = q \o <<s>>
  <2>1. /\ r \in Seq(Segments) /\ Len(q) \in Nat /\ Len(r) = Len(q) + 1
        /\ \A i \in 1 .. Len(q) : r[i] = q[i]
        /\ r[Len(q) + 1] = s
    BY <1>2, OneMore
  <2>2. q = <<>> \/ End(q[Len(q)]) = s.seq
    BY Zenon DEF Begins
  <2>3. Chained(r)
    BY <1>2, <2>2, ChainGrows
  <2>4. r # <<>> /\ End(r[Len(r)]) = End(s)
    BY <2>1, EmptySeq
  <2>5. r[1].seq <= l /\ l < End(r[1])
    <3>1. CASE q = <<>>
      <4>1. l = s.seq
        BY <3>1, Zenon DEF Begins
      <4>2. r[1] = s
        BY <2>1, <3>1, EmptySeq
      <4> QED
        BY <1>1, <4>1, <4>2
    <3>2. CASE q # <<>>
      <4>1. r[1] = q[1]
        BY <2>1, <3>2, EmptySeq
      <4> QED
        BY <3>2, <4>1 DEF Begins
    <3> QED
      BY <3>1, <3>2
  <2> QED
    BY <2>1, <2>3, <2>4, <2>5, Zenon DEF Begins
<1>3. ASSUME NEW v \in Seq(Segments), NEW e \in Segments, NEW f \in Segments,
             q = v \o <<e>>, r = v \o <<f>>,
             f.seq = e.seq, f.seq < End(f), End(f) = End(s), End(e) <= End(f)
      PROVE  r \in Seq(Segments) /\ Chained(r) /\ Begins(r, l, End(s))
  <2>1. /\ r \in Seq(Segments) /\ Len(v) \in Nat /\ Len(r) = Len(v) + 1
        /\ \A i \in 1 .. Len(v) : r[i] = v[i]
        /\ r[Len(v) + 1] = f
    BY <1>3, OneMore
  <2>2. /\ Len(q) = Len(v) + 1
        /\ \A i \in 1 .. Len(v) : q[i] = v[i]
        /\ q[Len(v) + 1] = e
    BY <1>3, OneMore
  <2>3. Chained(r)
    <3>1. Chained(v \o <<e>>)
      BY <1>3, Zenon
    <3> QED
      BY <1>3, <3>1, ChainExtends
  <2>4. r # <<>> /\ q # <<>> /\ End(r[Len(r)]) = End(s)
    BY <1>3, <2>1, <2>2, EmptySeq
  <2>5. q[1].seq <= l /\ l < End(q[1])
    BY <2>4, Zenon DEF Begins
  <2>6. r[1].seq <= l /\ l < End(r[1])
    <3>1. CASE Len(v) = 0
      <4>1. r[1] = f /\ q[1] = e
        BY <2>1, <2>2, <3>1
      <4>2. End(e) \in Nat /\ End(f) \in Nat
        BY SegmentEnd
      <4> QED
        BY <1>3, <2>5, <4>1, <4>2
    <3>2. CASE Len(v) # 0
      <4>1. 1 \in 1 .. Len(v)
        BY <2>1, <3>2
      <4>2. r[1] = q[1]
        BY <2>1, <2>2, <4>1
      <4> QED
        BY <2>5, <4>2
    <3> QED
      BY <3>1, <3>2
  <2> QED
    BY <2>1, <2>3, <2>4, <2>6, Zenon DEF Begins
<1> QED
  BY <1>2, <1>3, Zenon DEF Lengthened

\* What is linked to the second of two queues is linked to both together.
LEMMA LengthenedBoth ==
  ASSUME NEW a \in Seq(Segments), NEW q \in Seq(Segments), NEW s \in Segments, NEW r,
         Lengthened(q, s, r)
  PROVE  /\ r \in Seq(Segments) /\ Lengthened(a \o q, s, a \o r)
         /\ \/ Len(r) > Len(q) /\ Pbufs(r) = Pbufs(q) + s.bufs
            \/ /\ ~(Len(r) > Len(q))
               /\ Pbufs(r) = Pbufs(q) + (IF s.fin THEN 0 ELSE s.bufs)
<1>1. <<s>> \in Seq(Segments) /\ s.bufs \in Nat
  BY DEF Segments
<1>2. CASE r = q \o <<s>>
  <2>1. r \in Seq(Segments) /\ Len(q) \in Nat /\ Len(r) = Len(q) + 1
    BY <1>2, OneMore
  <2>2. (a \o q) \o <<s>> = a \o (q \o <<s>>)
    BY <1>1, Regroup
  <2>3. Pbufs(r) = Pbufs(q) + s.bufs
    BY <1>1, <1>2, PbufsParts, PbufsFew
  <2>4. Len(r) > Len(q)
    BY <2>1
  <2>5. Lengthened(a \o q, s, a \o r)
    BY <1>2, <2>2, Zenon DEF Lengthened
  <2> QED
    BY <2>1, <2>3, <2>4, <2>5
<1>3. ASSUME NEW v \in Seq(Segments), NEW e \in Segments, NEW f \in Segments,
             q = v \o <<e>>, r = v \o <<f>>,
             f.seq = e.seq, f.seq < End(f), End(f) = End(s), End(e) <= End(f),
             f.bufs = IF s.fin THEN e.bufs ELSE e.bufs + s.bufs
      PROVE  /\ r \in Seq(Segments) /\ Lengthened(a \o q, s, a \o r)
             /\ ~(Len(r) > Len(q)) /\ Pbufs(r) = Pbufs(q) + (IF s.fin THEN 0 ELSE s.bufs)
  <2>1. /\ r \in Seq(Segments) /\ Len(v) \in Nat /\ Len(r) = Len(v) + 1
        /\ Len(q) = Len(v) + 1
    BY <1>3, OneMore
  <2>2. <<e>> \in Seq(Segments) /\ <<f>> \in Seq(Segments)
    OBVIOUS
  <2>3. /\ (a \o v) \o <<e>> = a \o (v \o <<e>>) /\ (a \o v) \o <<f>> = a \o (v \o <<f>>)
    BY <2>2, Regroup
  <2>4. a \o v \in Seq(Segments)
    BY ConcatProperties
  <2>5. Lengthened(a \o q, s, a \o r)
    <3>1. a \o q = (a \o v) \o <<e>> /\ a \o r = (a \o v) \o <<f>>
      BY <1>3, <2>3, Zenon
    <3> QED
      BY <1>3, <2>4, <3>1, Zenon DEF Lengthened
  <2>6. Pbufs(r) = Pbufs(v) + f.bufs /\ Pbufs(q) = Pbufs(v) + e.bufs /\ Pbufs(v) \in Nat
    BY <1>3, <2>2, PbufsParts, PbufsFew
  <2>7. Pbufs(r) = Pbufs(q) + (IF s.fin THEN 0 ELSE s.bufs)
    <3>1. e.bufs \in Nat /\ s.bufs \in Nat /\ s.fin \in BOOLEAN
      BY DEF Segments
    <3> QED
      BY <1>3, <2>6, <3>1
  <2>8. ~(Len(r) > Len(q))
    BY <2>1
  <2> QED
    BY <2>1, <2>5, <2>7, <2>8
<1> QED
  BY <1>2, <1>3, Zenon DEF Lengthened
\* snd_buf is what the bytes that are not acknowledged leave of SndBuf.
Bytes(p) ==
  IF p.state = "LAST_ACK"
    THEN /\ p.lbb - p.lastack <= SndBuf + 1
         /\ p.buf = U16(SndBuf + U16Max + 1 - (p.lbb - p.lastack)) /\ p.lbb <= MaxBytes + 1
    ELSE /\ p.lbb - p.lastack <= SndBuf
         /\ p.buf = SndBuf - (p.lbb - p.lastack) /\ p.lbb <= MaxBytes

LEMMA CountedIsBytes ==
  ASSUME NEW p
  PROVE  Counted(p) <=> /\ p.queuelen = Pbufs(p.unsent) + Pbufs(p.unacked)
                        /\ p.queuelen <= SndQueueLen /\ Bytes(p)
BY Zenon DEF Counted, Bytes

\* tcp_enqueue links s to the stream and counts it.
LEMMA EnqueueReady ==
  ASSUME NEW p, Ready(p), NEW s \in Segments, s.seq = p.lbb, s.seq < End(s), s.bufs = 1,
         NEW x \in Blocks, x.unsent = Link(p.unsent, s), x.unacked = p.unacked,
         x.lbb = End(s), x.nxt = p.nxt, x.lastack = p.lastack, x.cwnd = p.cwnd,
         x.wnd = p.wnd, x.wl2 = p.wl2, x.timing = p.timing,
         x.queuelen = IF s.fin /\ ~(Len(x.unsent) > Len(p.unsent))
                        THEN p.queuelen ELSE p.queuelen + 1,
         x.queuelen <= SndQueueLen, Bytes(x)
  PROVE  Ready(x) /\ \A y \in Nat : MayHave(p, y) => MayHave(x, y)
<1> DEFINE a == p.unacked
           q == p.unsent
           r == Link(q, s)
<1>1. /\ p \in Blocks /\ Chained(Stream(p)) /\ Spans(p) /\ Sent(p) /\ Counted(p)
      /\ Mss <= p.cwnd /\ (p.unacked # <<>> => p.timing) /\ p.lastack <= p.wl2
      /\ p.lastack <= p.nxt /\ p.nxt <= p.lbb
  BY Zenon DEF Ready, Sound
<1>2. /\ a \in Seq(Segments) /\ q \in Seq(Segments) /\ Stream(p) \in Seq(Segments)
      /\ p.lastack \in Nat /\ p.nxt \in Nat /\ p.lbb \in Nat /\ p.queuelen \in Nat
  BY <1>1, BlockFacts
<1>3. Stream(p) = a \o q /\ Stream(x) = a \o r
  BY Zenon DEF Stream
<1> HIDE DEF a, q, r
<1>4. Lengthened(q, s, r)
  BY <1>2, Linked DEF r
<1>5. /\ Lengthened(a \o q, s, a \o r)
      /\ \/ Len(r) > Len(q) /\ Pbufs(r) = Pbufs(q) + s.bufs
         \/ /\ ~(Len(r) > Len(q))
            /\ Pbufs(r) = Pbufs(q) + (IF s.fin THEN 0 ELSE s.bufs)
  BY <1>2, <1>4, LengthenedBoth
<1>6. Begins(Stream(p), p.lastack, s.seq)
  BY <1>1, Zenon DEF Begins, Spans
<1>7. Chained(Stream(x)) /\ Begins(Stream(x), x.lastack, x.lbb)
  <2> DEFINE l == p.lastack
             w == Stream(p)
             v == Stream(x)
  <2>1. w \in Seq(Segments) /\ Lengthened(w, s, v) /\ Chained(w) /\ Begins(w, l, s.seq) /\ l \in Nat
    BY <1>1, <1>2, <1>3, <1>5, <1>6, Zenon
  <2> HIDE DEF l, w, v
  <2>2. Chained(v) /\ Begins(v, l, End(s))
    BY <2>1, StreamLengthened
  <2> QED
    BY <2>2, Zenon DEF v, l
<1>8. Spans(x)
  BY <1>7, Zenon DEF Begins, Spans
<1>9. Counted(x)
  <2>1. p.queuelen = Pbufs(q) + Pbufs(a)
    BY <1>1, Zenon DEF Counted, q, a
  <2>2. Pbufs(q) \in Nat /\ Pbufs(a) \in Nat
    BY <1>2, PbufsParts
  <2>3. x.unsent = r /\ x.unacked = a /\ p.unsent = q
    BY DEF r, a, q
  <2>4. x.queuelen = IF s.fin /\ ~(Len(r) > Len(q)) THEN p.queuelen ELSE p.queuelen + 1
    BY <2>3, Zenon
  <2> DEFINE m == Pbufs(q)
             n == Pbufs(a)
             k == Pbufs(r)
  <2>5. k = IF s.fin /\ ~(Len(r) > Len(q)) THEN m ELSE m + 1
    BY <1>5, <2>2
  <2> HIDE DEF m, n, k
  <2>6. x.queuelen = k + n
    BY <2>1, <2>2, <2>4, <2>5 DEF m, n
  <2>7. x.queuelen = Pbufs(x.unsent) + Pbufs(x.unacked)
    BY <2>3, <2>6 DEF k, n
  <2> QED
    BY <2>7, CountedIsBytes
<1>10. Sent(x)
  BY <1>1, Zenon DEF Sent, Fits
<1>11. x.nxt <= x.lbb
  BY <1>1, <1>2, SegmentEnd
<1>12. Ready(x)
  BY <1>1, <1>7, <1>8, <1>9, <1>10, <1>11, Zenon DEF Ready, Sound
<1>13. \A y \in Nat : MayHave(p, y) => MayHave(x, y)
  BY Zenon DEF MayHave
<1> QED
  BY <1>12, <1>13
(***************************************************************************)
(* tcp_write links its frame where it found the end of the queue.          *)
(***************************************************************************)

\* The last segment of unsent is found by its number,
LEMMA FoundLast ==
  ASSUME NEW q \in Seq(Segments), Rising(q), q # <<>>, NEW s
  PROVE  LinkBehind(q, Last(q).seq, s) = Link(q, s)
<1> DEFINE n == Len(q)
           found == {i \in 1 .. n : q[i].seq = Last(q).seq}
<1>1. n \in Nat /\ n \in 1 .. n /\ Last(q) = q[n]
  BY AllAndLast, LenProperties
<1>2. \A i \in 1 .. n : i < n => q[i].seq < q[n].seq
  BY <1>1, Zenon DEF Rising
<1>3. \A i \in 1 .. n : q[i].seq \in Nat
  BY SegmentsOf
<1>4. \A i \in 1 .. n : q[i].seq = q[n].seq => i = n
  BY <1>1, <1>2, <1>3
<1>5. found = {n}
  BY <1>1, <1>4
<1>6. Max(found) = n
  <2> DEFINE S == {n}
  <2>1. S \in SUBSET (0 .. n) /\ S # {}
    BY <1>1
  <2> HIDE DEF S
  <2>2. Max(S) \in S
    BY <1>1, <2>1, Greatest
  <2> QED
    BY <1>5, <2>2 DEF S
<1>7. SubSeq(q, 1, n) = q
  BY <1>1, SubSeqProperties
<1> QED
  BY <1>5, <1>6, <1>7, Zenon DEF LinkBehind

\* and none of unacked has it.
LEMMA NotFound ==
  ASSUME NEW a \in Seq(Segments), NEW q \in Seq(Segments), Rising(a \o q), q # <<>>, NEW s
  PROVE  LinkBehind(a, Last(q).seq, s) = a
<1> DEFINE n == Len(q)
           found == {i \in 1 .. Len(a) : a[i].seq = Last(q).seq}
<1>1. n \in 1 .. n /\ Last(q) = q[n]
  BY AllAndLast
<1>2. \A i \in 1 .. Len(a) : a[i].seq < q[n].seq
  BY <1>1, RisingPart, Zenon
<1>3. /\ \A i \in 1 .. Len(a) : a[i].seq \in Nat
      /\ q[n].seq \in Nat
  BY <1>1, SegmentsOf
<1>4. found = {}
  BY <1>1, <1>2, <1>3
<1> QED
  BY <1>4, Zenon DEF LinkBehind
LEMMA ConstantFacts ==
  /\ U16Max \in Nat /\ SndBuf \in Nat /\ SndBuf <= U16Max
  /\ SndQueueLen \in Nat /\ MaxBytes \in Nat /\ Mss \in Nat
  /\ Lengths \subseteq 1 .. Mss
<1>1. U16Max \in Nat
  BY DEF U16Max
<1> QED
  BY <1>1, SenderAssumption

\* What tcp_write links: x is p with s, and the counters it writes.
Written(x, p, s) ==
  /\ x \in Blocks /\ x.unsent = Link(p.unsent, s) /\ x.unacked = p.unacked
  /\ x.lbb = p.lbb + s.len /\ x.buf = U16(p.buf + U16Max + 1 - s.len)
  /\ x.queuelen = p.queuelen + 1
  /\ x.state = p.state /\ x.nxt = p.nxt /\ x.lastack = p.lastack /\ x.cwnd = p.cwnd
  /\ x.wnd = p.wnd /\ x.wl2 = p.wl2 /\ x.timing = p.timing /\ x.input = p.input

LEMMA WrittenReady ==
  ASSUME NEW p, Ready(p), p.state # "LAST_ACK",
         NEW s \in Segments, s.seq = p.lbb, s.len \in Lengths, ~s.fin, s.bufs = 1,
         Accepts(p, s.len), p.lbb + s.len <= MaxBytes, NEW x, Written(x, p, s)
  PROVE  Ready(x) /\ \A y \in Nat : MayHave(p, y) => MayHave(x, y)
<1>1. /\ p \in Blocks /\ Counted(p) /\ p.lastack <= p.nxt /\ p.nxt <= p.lbb
  BY Zenon DEF Ready, Sound
<1>2. /\ p.lbb \in Nat /\ p.queuelen \in Nat /\ p.lastack \in Nat /\ p.nxt \in Nat
      /\ p.buf \in Nat /\ p.buf <= U16Max /\ SndBuf \in Nat /\ SndBuf <= U16Max
      /\ SndQueueLen \in Nat /\ MaxBytes \in Nat /\ Mss \in Nat /\ U16Max \in Nat
  <2>1. p.buf \in 0 .. U16Max
    BY <1>1, BlockFacts
  <2> QED
    BY <1>1, <2>1, BlockFacts, ConstantFacts
<1>3. s.len \in Nat /\ 1 <= s.len
  <2>1. s.len \in 1 .. Mss
    BY ConstantFacts, Zenon
  <2> QED
    BY <1>2, <2>1
<1>4. End(s) = p.lbb + s.len /\ s.seq < End(s)
  BY <1>2, <1>3 DEF End
<1>5. s.len <= p.buf /\ p.queuelen < SndQueueLen
  BY Zenon DEF Accepts
<1>6. /\ p.lbb - p.lastack <= SndBuf /\ p.buf = SndBuf - (p.lbb - p.lastack)
  BY <1>1, Zenon DEF Counted
<1>7. /\ x \in Blocks /\ x.unsent = Link(p.unsent, s) /\ x.unacked = p.unacked
      /\ x.lbb = p.lbb + s.len /\ x.buf = U16(p.buf + U16Max + 1 - s.len)
      /\ x.queuelen = p.queuelen + 1
      /\ x.state = p.state /\ x.nxt = p.nxt /\ x.lastack = p.lastack /\ x.cwnd = p.cwnd
      /\ x.wnd = p.wnd /\ x.wl2 = p.wl2 /\ x.timing = p.timing
  BY Zenon DEF Written
<1>8. x.buf = p.buf - s.len
  <2> DEFINE n == p.buf - s.len
  <2>1. n \in Nat /\ n <= U16Max /\ p.buf + U16Max + 1 - s.len = n + (U16Max + 1)
    BY <1>2, <1>3, <1>5
  <2> HIDE DEF n
  <2>2. U16(n + (U16Max + 1)) = n
    BY <2>1, U16Facts
  <2> QED
    BY <1>7, <2>1, <2>2 DEF n
<1>9. Bytes(x)
  <2>1. x.lbb - x.lastack <= SndBuf /\ x.buf = SndBuf - (x.lbb - x.lastack) /\ x.lbb <= MaxBytes
    BY <1>2, <1>3, <1>5, <1>6, <1>7, <1>8
  <2> QED
    BY <1>7, <2>1, Zenon DEF Bytes
<1>10. x.queuelen <= SndQueueLen
  BY <1>2, <1>5, <1>7
<1>11. x.lbb = End(s)
  BY <1>4, <1>7
<1>12. x.queuelen = IF s.fin /\ ~(Len(x.unsent) > Len(p.unsent)) THEN p.queuelen
                                                             ELSE p.queuelen + 1
  BY <1>3, <1>7, Zenon
<1> QED
  BY <1>3, <1>4, <1>7, <1>9, <1>10, <1>11, <1>12, EnqueueReady

\* What tcp_close puts on the queue: a FIN, which takes a number and no room.
Closing(x, p, s) ==
  /\ x \in Blocks /\ x.unsent = Link(p.unsent, s) /\ x.unacked = p.unacked
  /\ x.state = "LAST_ACK" /\ x.lbb = p.lbb + 1 /\ x.buf = U16(p.buf + U16Max)
  /\ x.queuelen = IF Len(Link(p.unsent, s)) > Len(p.unsent)
                    THEN p.queuelen + 1 ELSE p.queuelen
  /\ x.nxt = p.nxt /\ x.lastack = p.lastack /\ x.cwnd = p.cwnd
  /\ x.wnd = p.wnd /\ x.wl2 = p.wl2 /\ x.timing = p.timing /\ x.input = p.input

LEMMA ClosingReady ==
  ASSUME NEW p, Ready(p), p.state # "LAST_ACK", Accepts(p, 0),
         NEW s \in Segments, s.seq = p.lbb, s.len = 0, s.fin, s.bufs = 1,
         NEW x, Closing(x, p, s)
  PROVE  Ready(x) /\ \A y \in Nat : MayHave(p, y) => MayHave(x, y)
<1>1. /\ p \in Blocks /\ Counted(p) /\ p.lastack <= p.nxt /\ p.nxt <= p.lbb
  BY Zenon DEF Ready, Sound
<1>2. /\ p.lbb \in Nat /\ p.queuelen \in Nat /\ p.lastack \in Nat /\ p.nxt \in Nat
      /\ p.buf \in Nat /\ p.buf <= U16Max /\ SndBuf \in Nat /\ SndBuf <= U16Max
      /\ SndQueueLen \in Nat /\ MaxBytes \in Nat /\ Mss \in Nat /\ U16Max \in Nat
      /\ p.unsent \in Seq(Segments)
  <2>1. p.buf \in 0 .. U16Max
    BY <1>1, BlockFacts
  <2> QED
    BY <1>1, <2>1, BlockFacts, ConstantFacts
<1>3. End(s) = p.lbb + 1 /\ s.seq < End(s)
  BY <1>2 DEF End
<1>4. p.queuelen < SndQueueLen
  BY Zenon DEF Accepts
<1>5. /\ p.lbb - p.lastack <= SndBuf /\ p.buf = SndBuf - (p.lbb - p.lastack) /\ p.lbb <= MaxBytes
  BY <1>1, Zenon DEF Counted
<1>6. /\ x \in Blocks /\ x.unsent = Link(p.unsent, s) /\ x.unacked = p.unacked
      /\ x.state = "LAST_ACK" /\ x.lbb = p.lbb + 1 /\ x.buf = U16(p.buf + U16Max)
      /\ x.queuelen = IF Len(x.unsent) > Len(p.unsent) THEN p.queuelen + 1 ELSE p.queuelen
      /\ x.nxt = p.nxt /\ x.lastack = p.lastack /\ x.cwnd = p.cwnd
      /\ x.wnd = p.wnd /\ x.wl2 = p.wl2 /\ x.timing = p.timing
  BY Zenon DEF Closing
<1>7. Bytes(x)
  <2> DEFINE b == p.buf
             m == p.lbb
             l == p.lastack
  <2>1. /\ b \in Nat /\ m \in Nat /\ l \in Nat /\ l <= m /\ m - l <= SndBuf
        /\ b = SndBuf - (m - l) /\ m <= MaxBytes
    BY <1>1, <1>2, <1>5
  <2>2. x.lbb = m + 1 /\ x.lastack = l /\ x.buf = U16(b + U16Max)
    BY <1>6
  <2> HIDE DEF b, m, l
  <2>3. /\ b + U16Max = SndBuf + U16Max + 1 - ((m + 1) - l)
        /\ (m + 1) - l <= SndBuf + 1 /\ m + 1 <= MaxBytes + 1
    BY <1>2, <2>1
  <2>4. /\ x.lbb - x.lastack <= SndBuf + 1 /\ x.lbb <= MaxBytes + 1
        /\ x.buf = U16(SndBuf + U16Max + 1 - (x.lbb - x.lastack))
    BY ONLY <2>2, <2>3, Zenon
  <2> QED
    BY <1>6, <2>4, Zenon DEF Bytes
<1>8. x.queuelen <= SndQueueLen
  BY <1>2, <1>4, <1>6
<1>9. x.lbb = End(s)
  BY <1>3, <1>6
<1>10. x.queuelen = IF s.fin /\ ~(Len(x.unsent) > Len(p.unsent)) THEN p.queuelen
                                                             ELSE p.queuelen + 1
  BY <1>6, Zenon
<1> QED
  BY <1>3, <1>6, <1>7, <1>8, <1>9, <1>10, EnqueueReady
(***************************************************************************)
(* tcp_output after the receive callback.                                  *)
(***************************************************************************)

\* The congestion window has room for a segment at any time: a first segment
\* with nothing ahead of it waits for the client's window only.
LEMMA FirstWaits ==
  ASSUME NEW p \in Blocks, Spans(p), Mss <= p.cwnd, p.unacked = <<>>, p.unsent # <<>>,
         ~Fits(p, p.unsent[1], Min({p.wnd, p.cwnd}))
  PROVE  ~Fits(p, p.unsent[1], p.wnd)
<1> DEFINE s == p.unsent[1]
<1>1. /\ p.unsent \in Seq(Segments) /\ p.lastack \in Nat /\ p.cwnd \in Nat /\ p.wnd \in Nat
  BY BlockFacts
<1>2. 1 \in 1 .. Len(p.unsent)
  BY <1>1, EmptySeq, LenProperties
<1>3. s \in Segments /\ s.seq \in Nat /\ s.len \in Nat /\ s.len <= Mss
  BY <1>1, <1>2, SegmentsOf
<1>4. s.seq <= p.lastack
  <2>1. Stream(p) = p.unsent
    BY <1>1, ConcatEmptySeq DEF Stream
  <2> QED
    BY <2>1, Zenon DEF Spans
<1>5. Fits(p, s, p.cwnd)
  <2>1. s.len <= p.cwnd
    BY <1>1, <1>3, SenderAssumption
  <2> HIDE DEF s
  <2> QED
    BY <1>1, <1>3, <1>4, <2>1 DEF Fits
<1>6. Min({p.wnd, p.cwnd}) = p.wnd \/ Min({p.wnd, p.cwnd}) = p.cwnd
  BY <1>1, LeastOfTwo
<1> QED
  BY <1>5, <1>6, Zenon

LEMMA NoneLeads ==
  ASSUME NEW S \in SUBSET (Nat \ {0}), 1 \notin S
  PROVE  Leading(S) = 0
<1>1. {i \in S : 1 .. i \subseteq S} = {}
  <2>1. ASSUME NEW i \in S, 1 .. i \subseteq S PROVE FALSE
    <3>1. 1 \in 1 .. i
      OBVIOUS
    <3> QED
      BY <2>1, <3>1
  <2> QED
    BY <2>1
<1> QED
  BY <1>1, FS_EmptySet, Zenon DEF Leading

LEMMA AckReady ==
  ASSUME NEW p, Ready(p), ~p.input, NEW o \in OutputOrAck(p)
  PROVE  Settled(o, p, Emitted(p))
<1>1. /\ p \in Blocks /\ Spans(p) /\ Mss <= p.cwnd
  BY Zenon DEF Ready, Sound
<1>2. CASE o = Output(p)
  BY <1>2, OutputReady
<1>3. CASE /\ o = p
           /\ ~(p.unsent # <<>> /\ Fits(p, p.unsent[1], Min({p.wnd, p.cwnd})))
  <2>1. p.unsent \in Seq(Segments) /\ p.nxt \in Nat
    BY <1>1, BlockFacts
  <2>2. Emitted(p) = <<>>
    <3> DEFINE sends == {i \in 1 .. Len(p.unsent) : /\ Fits(p, p.unsent[i], Min({p.wnd, p.cwnd}))
                                                    /\ NagleAllows(p, i)}
    <3>1. Len(p.unsent) \in Nat /\ (p.unsent = <<>> <=> Len(p.unsent) = 0)
      BY <2>1, EmptySeq, LenProperties
    <3>2. 1 \in 1 .. Len(p.unsent) => p.unsent # <<>>
      BY <3>1
    <3>3. 1 \notin sends
      BY <1>3, <3>2, Zenon
    <3>4. sends \in SUBSET (Nat \ {0})
      BY <3>1
    <3>5. Emitted(p) = SubSeq(p.unsent, 1, Leading(sends))
      BY Zenon DEF Emitted
    <3> HIDE DEF sends
    <3>6. Leading(sends) = 0
      BY <3>3, <3>4, NoneLeads
    <3>7. SubSeq(p.unsent, 1, 0) = <<>>
      BY <2>1
    <3> QED
      BY <3>5, <3>6, <3>7, Zenon
  <2>3. Due(p)
    BY <1>1, <1>3, FirstWaits, Zenon DEF Due
  <2>4. /\ <<>> \in Seq(Segments) /\ p.nxt <= p.nxt
        /\ \A i \in 1 .. Len(<<>>) : End(<<>>[i]) <= p.nxt
    BY <2>1
  <2> QED
    BY <1>3, <2>2, <2>3, <2>4, Zenon DEF Settled
<1> QED
  BY <1>2, <1>3, Zenon DEF OutputOrAck

\* The flags, and which state it is before LAST_ACK, are no matter of the queues.
LEMMA FlagsReady ==
  ASSUME NEW p, Ready(p), NEW x \in Blocks,
         x.state = "LAST_ACK" <=> p.state = "LAST_ACK",
         x.unsent = p.unsent, x.unacked = p.unacked, x.lbb = p.lbb, x.nxt = p.nxt,
         x.lastack = p.lastack, x.buf = p.buf, x.queuelen = p.queuelen, x.cwnd = p.cwnd,
         x.wnd = p.wnd, x.wl2 = p.wl2, x.timing = p.timing
  PROVE  Ready(x) /\ \A y \in Nat : MayHave(p, y) => MayHave(x, y)
<1>1. /\ p \in Blocks /\ Chained(Stream(p)) /\ Spans(p) /\ Sent(p) /\ Counted(p)
      /\ Mss <= p.cwnd /\ (p.unacked # <<>> => p.timing) /\ p.lastack <= p.wl2
      /\ p.lastack <= p.nxt /\ p.nxt <= p.lbb
  BY Zenon DEF Ready, Sound
<1>2. Stream(x) = Stream(p)
  BY Zenon DEF Stream
<1>3. Chained(Stream(x)) /\ Spans(x)
  BY <1>1, <1>2, Zenon DEF Spans
<1>4. Counted(x)
  BY <1>1, Zenon DEF Counted
<1>5. Sent(x)
  BY <1>1, Zenon DEF Sent, Fits
<1>6. Ready(x)
  BY <1>1, <1>3, <1>4, <1>5, Zenon DEF Ready, Sound
<1> QED
  BY <1>6, Zenon DEF MayHave
(***************************************************************************)
(* The invariant is inductive: the client.                                 *)
(***************************************************************************)

LEMMA EdgeFacts ==
  ASSUME Typed, EdgesAdvance
  PROVE  /\ client.nxt \in Nat /\ client.edge \in Nat /\ client.nxt <= client.edge
         /\ pcb.wl2 \in Nat /\ pcb.wnd \in Nat /\ pcb.wl2 <= client.nxt
         /\ pcb.wl2 + pcb.wnd <= client.edge
         /\ \A a \in acks :
              /\ a \in [ack : Nat, wnd : Nat] /\ a.ack \in Nat /\ a.wnd \in Nat
              /\ a.ack <= client.nxt /\ a.ack + a.wnd <= client.edge
              /\ pcb.wl2 < a.ack => pcb.wl2 + pcb.wnd <= a.ack + a.wnd
              /\ \A b \in acks : a.ack < b.ack => a.ack + a.wnd <= b.ack + b.wnd
<1>1. pcb \in Blocks /\ client \in [nxt : Nat, edge : Nat] /\ acks \subseteq [ack : Nat, wnd : Nat]
  BY Zenon DEF Typed
<1>2. \A a \in acks : a \in [ack : Nat, wnd : Nat] /\ a.ack \in Nat /\ a.wnd \in Nat
  BY <1>1
<1>3. client.nxt \in Nat /\ client.edge \in Nat /\ pcb.wl2 \in Nat /\ pcb.wnd \in Nat
  BY <1>1, BlockFacts
<1> QED
  BY <1>2, <1>3, Zenon DEF EdgesAdvance

\* A step before and after which the thread has not run inside tcp_write.
Unraced == ~raced /\ ~raced'

\* In such a step the thread finds the task outside.
LEMMA Outside ==
  ASSUME IInv, Unraced, ThreadRuns
  PROVE  Alive /\ call.at \in {"idle", "output"}
<1>1. call.at \in {"idle", "counted", "found", "output"}
  BY Zenon DEF IInv, Typed
<1>2. Alive /\ call.at \notin {"counted", "found"}
  BY Zenon DEF Unraced, ThreadRuns, InWrite
<1> QED
  BY <1>1, <1>2

LEMMA ClientStep ==
  ASSUME IInv, Unraced, NEW c \in [nxt : Nat, edge : Nat], NEW keep \in BOOLEAN,
         client.nxt <= c.nxt, client.edge <= c.edge, c.nxt <= c.edge,
         c.nxt <= pcb.lbb, MayHave(pcb, c.nxt), Answers(c, keep),
         wire' \subseteq wire, UNCHANGED <<pcb, call>>
  PROVE  IInv'
<1>1. /\ Typed /\ OnlySent /\ EdgesAdvance /\ (Alive => Sound(pcb) /\ CallCurrent)
      /\ SomethingIsDue /\ ClosedWhenSentArrived
  BY Zenon DEF IInv
<1>2. /\ client.nxt \in Nat /\ client.edge \in Nat
      /\ pcb.wl2 \in Nat /\ pcb.wnd \in Nat /\ pcb.wl2 <= client.nxt
      /\ pcb.wl2 + pcb.wnd <= client.edge
      /\ \A a \in acks :
           /\ a \in [ack : Nat, wnd : Nat] /\ a.ack \in Nat /\ a.wnd \in Nat
           /\ a.ack <= client.nxt /\ a.ack + a.wnd <= client.edge
           /\ pcb.wl2 < a.ack => pcb.wl2 + pcb.wnd <= a.ack + a.wnd
           /\ \A b \in acks : a.ack < b.ack => a.ack + a.wnd <= b.ack + b.wnd
  BY <1>1, EdgeFacts
<1>3. client' = c /\ pcb' = pcb /\ call' = call /\ acks' \subseteq acks \cup {Answer(c)}
  BY Zenon DEF Answers
<1> DEFINE e == Answer(c)
<1>4. /\ e \in [ack : Nat, wnd : Nat] /\ e.ack = c.nxt /\ e.ack + e.wnd = c.edge
      /\ c.nxt \in Nat /\ c.edge \in Nat /\ e.wnd \in Nat
  BY DEF Answer
<1>5. Typed'
  <2>1. /\ pcb \in Blocks /\ pcb.lastack <= pcb.nxt /\ pcb.nxt <= pcb.lbb
        /\ pcb.lbb <= MaxBytes + 1 /\ pcb.queuelen <= SndQueueLen
        /\ call.at \in {"idle", "counted", "found", "output"}
        /\ wire \subseteq [seq : Nat, len : 0 .. Mss, fin : BOOLEAN]
        /\ acks \subseteq [ack : Nat, wnd : Nat]
    BY <1>1, Zenon DEF Typed
  <2>2. acks' \subseteq [ack : Nat, wnd : Nat]
    BY <1>3, <1>4, <2>1, Zenon
  <2> QED
    BY <1>3, <2>1, <2>2, Zenon DEF Typed
<1>6. OnlySent'
  <2>1. \A m \in wire' : End(m) <= pcb.lbb /\ MayHave(pcb, End(m))
    BY <1>1, Zenon DEF OnlySent
  <2> QED
    BY <1>3, <2>1, Zenon DEF OnlySent
<1>7. EdgesAdvance'
  <2> HIDE DEF e
  <2>1. \A a \in acks' : a \in acks \/ a = e
    BY <1>3 DEF e
  <2>2. /\ c.nxt <= c.edge /\ pcb.wl2 <= c.nxt /\ pcb.wl2 + pcb.wnd <= c.edge
    BY <1>2, <1>4
  <2>3. ASSUME NEW a \in acks'
        PROVE  /\ a.ack <= c.nxt /\ a.ack + a.wnd <= c.edge
               /\ pcb.wl2 < a.ack => pcb.wl2 + pcb.wnd <= a.ack + a.wnd
               /\ \A b \in acks' : a.ack < b.ack => a.ack + a.wnd <= b.ack + b.wnd
    <3>1. CASE a \in acks
      <4>1. a.ack <= c.nxt /\ a.ack + a.wnd <= c.edge
        BY <1>2, <1>4, <3>1
      <4>2. ASSUME NEW b \in acks', a.ack < b.ack PROVE a.ack + a.wnd <= b.ack + b.wnd
        <5>1. CASE b \in acks
          BY <1>2, <3>1, <4>2, <5>1, Zenon
        <5>2. CASE b = e
          <6>1. b.ack + b.wnd = c.edge
            BY <1>4, <5>2
          <6> QED
            BY <4>1, <6>1
        <5> QED
          BY <2>1, <5>1, <5>2
      <4> QED
        BY <1>2, <3>1, <4>1, <4>2
    <3>2. CASE a = e
      <4>1. a.ack = c.nxt /\ a.ack + a.wnd = c.edge
        BY <1>4, <3>2
      <4>2. ASSUME NEW b \in acks', a.ack < b.ack PROVE a.ack + a.wnd <= b.ack + b.wnd
        <5>1. CASE b \in acks
          <6>1. b.ack \in Nat /\ b.ack <= c.nxt
            BY <1>2, <1>4, <5>1
          <6> QED
            BY <1>4, <4>1, <4>2, <6>1
        <5>2. CASE b = e
          BY <1>4, <3>2, <4>2, <5>2
        <5> QED
          BY <2>1, <5>1, <5>2
      <4> QED
        BY <1>4, <2>2, <4>1, <4>2
    <3> QED
      BY <2>1, <3>1, <3>2
  <2> QED
    BY <1>3, <2>2, <2>3, Zenon DEF EdgesAdvance
<1>8. (Alive => Sound(pcb) /\ CallCurrent)'
  BY <1>1, <1>3, Zenon DEF Alive, CallCurrent, Open
<1>9. SomethingIsDue'
  BY <1>1, <1>3, Zenon DEF SomethingIsDue, Alive, Idle, Unraced
<1>10. ClosedWhenSentArrived'
  <2>1. ASSUME pcb.state = "CLOSED" PROVE pcb.nxt <= c.nxt
    <3>1. client.nxt >= pcb.nxt
      BY <1>1, <2>1, Zenon DEF ClosedWhenSentArrived
    <3>2. pcb \in Blocks
      BY <1>1, Zenon DEF Typed
    <3>3. pcb.nxt \in Nat
      BY <3>2, BlockFacts
    <3> QED
      BY <1>2, <1>4, <3>1, <3>3
  <2> QED
    BY <1>3, <2>1 DEF ClosedWhenSentArrived
<1> QED
  BY <1>5, <1>6, <1>7, <1>8, <1>9, <1>10, Zenon DEF IInv
\* A segment arrives: the client goes on at most to its end, or to its own edge.
LEMMA ArriveStep ==
  ASSUME IInv, Unraced, NEW m \in wire, NEW keep \in BOOLEAN, Arrive(m, keep)
  PROVE  IInv'
<1> DEFINE nxt == IF ~InOrder(m) THEN client.nxt
                  ELSE IF m.seq + m.len <= client.edge THEN End(m) ELSE client.edge
           edge == Max({client.edge, nxt})
           c == [nxt |-> nxt, edge |-> edge]
<1>1. Typed /\ OnlySent /\ EdgesAdvance
  BY Zenon DEF IInv
<1>2. /\ pcb \in Blocks /\ pcb.lastack <= pcb.nxt /\ pcb.nxt <= pcb.lbb
      /\ m \in [seq : Nat, len : 0 .. Mss, fin : BOOLEAN]
  BY <1>1, Zenon DEF Typed
<1>3. /\ client.nxt \in Nat /\ client.edge \in Nat /\ client.nxt <= client.edge
  BY <1>1, EdgeFacts
<1>4. /\ pcb.lbb \in Nat /\ pcb.nxt \in Nat /\ pcb.lastack \in Nat
  BY <1>2, BlockFacts
<1>5. m.seq + m.len \in Nat /\ End(m) \in Nat /\ m.seq + m.len <= End(m)
  <2>1. m.seq \in Nat /\ m.len \in Nat
    BY <1>2, ConstantFacts
  <2> QED
    BY <2>1 DEF End
<1>6. /\ End(m) <= pcb.lbb /\ MayHave(pcb, End(m))
      /\ client.nxt <= pcb.lbb /\ MayHave(pcb, client.nxt)
  BY <1>1, Zenon DEF OnlySent
<1>7. /\ nxt \in Nat /\ client.nxt <= nxt
      /\ nxt = client.nxt \/ nxt <= End(m)
  BY <1>3, <1>5 DEF InOrder
<1>8. nxt <= pcb.lbb /\ MayHave(pcb, nxt)
  <2> HIDE DEF nxt
  <2>1. CASE nxt = client.nxt
    BY <1>6, <2>1
  <2>2. CASE nxt <= End(m)
    <3>1. nxt <= pcb.lbb
      BY <1>4, <1>5, <1>6, <1>7, <2>2
    <3>2. End(m) <= pcb.nxt \/ (pcb.unacked = <<>> /\ End(m) <= pcb.lastack + 1)
      BY <1>6, Zenon DEF MayHave
    <3>3. nxt <= pcb.nxt \/ (pcb.unacked = <<>> /\ nxt <= pcb.lastack + 1)
      BY <1>4, <1>5, <1>7, <2>2, <3>2
    <3> QED
      BY <3>1, <3>3, Zenon DEF MayHave
  <2> QED
    BY <1>7, <2>1, <2>2
<1>9. Answers(c, keep) /\ wire' \subseteq wire /\ UNCHANGED <<pcb, call>>
  BY DEF Arrive
<1> HIDE DEF nxt
<1>10. edge \in Nat /\ client.edge <= edge /\ nxt <= edge
  BY <1>3, <1>7, MostOfTwo
<1> HIDE DEF edge
<1>11. c \in [nxt : Nat, edge : Nat] /\ c.nxt = nxt /\ c.edge = edge
  BY <1>7, <1>10
<1> HIDE DEF c
<1> QED
  BY <1>7, <1>8, <1>9, <1>10, <1>11, ClientStep

\* The client has room again.
LEMMA OpensStep ==
  ASSUME IInv, Unraced, NEW keep \in BOOLEAN, Opens(keep)
  PROVE  IInv'
<1> DEFINE edge == client.nxt + Window
           c == [client EXCEPT !.edge = edge]
<1>1. Typed /\ OnlySent /\ EdgesAdvance
  BY Zenon DEF IInv
<1>2. client \in [nxt : Nat, edge : Nat]
  BY <1>1, Zenon DEF Typed
<1>3. client.nxt \in Nat /\ client.edge \in Nat /\ Window \in Nat
  BY <1>1, EdgeFacts, SenderAssumption
<1>4. client.nxt <= pcb.lbb /\ MayHave(pcb, client.nxt)
  BY <1>1, Zenon DEF OnlySent
<1>5. /\ client.edge < edge /\ Answers(c, keep) /\ UNCHANGED <<pcb, call, wire>>
  BY Zenon DEF Opens
<1>6. edge \in Nat /\ client.edge <= edge /\ client.nxt <= edge
  BY <1>3, <1>5
<1> HIDE DEF edge
<1>7. c \in [nxt : Nat, edge : Nat] /\ c.nxt = client.nxt /\ c.edge = edge
  BY <1>2, <1>6
<1>8. client.nxt <= c.nxt /\ client.edge <= c.edge /\ c.nxt <= c.edge /\ wire' \subseteq wire
  BY <1>3, <1>5, <1>6, <1>7
<1> HIDE DEF c
<1> QED
  BY <1>4, <1>5, <1>7, <1>8, ClientStep
(***************************************************************************)
(* The invariant is inductive: the task and the thread.                    *)
(***************************************************************************)

\* What leaves has been counted as sent.
LEMMA NetworkStep ==
  ASSUME Typed, OnlySent, NEW sent \in Seq(Segments), NEW keep \in BOOLEAN, Carries(sent, keep),
         pcb' \in Blocks, \A i \in 1 .. Len(sent) : End(sent[i]) <= pcb'.nxt,
         pcb'.nxt <= pcb'.lbb, pcb.lbb <= pcb'.lbb,
         \A x \in Nat : MayHave(pcb, x) => MayHave(pcb', x), client' = client
  PROVE  OnlySent' /\ wire' \subseteq [seq : Nat, len : 0 .. Mss, fin : BOOLEAN]
<1> DEFINE packet(s) == [seq |-> s.seq, len |-> s.len, fin |-> s.fin]
           Msgs == [seq : Nat, len : 0 .. Mss, fin : BOOLEAN]
<1>1. /\ pcb \in Blocks /\ wire \subseteq Msgs /\ client \in [nxt : Nat, edge : Nat]
  BY Zenon DEF Typed
<1>2. /\ pcb.lbb \in Nat /\ pcb'.lbb \in Nat /\ pcb'.nxt \in Nat /\ client.nxt \in Nat
  BY <1>1, BlockFacts
<1>3. /\ client.nxt <= pcb.lbb /\ MayHave(pcb, client.nxt)
      /\ \A m \in wire : End(m) <= pcb.lbb /\ MayHave(pcb, End(m))
  BY Zenon DEF OnlySent
<1>4. client.nxt <= pcb'.lbb /\ MayHave(pcb', client.nxt)
  BY <1>2, <1>3
<1>5. \A m \in wire : End(m) <= pcb'.lbb /\ MayHave(pcb', End(m))
  <2>1. ASSUME NEW m \in wire PROVE End(m) \in Nat
    <3>1. m \in Msgs
      BY <1>1
    <3>2. m.seq \in Nat /\ m.len \in Nat
      BY <3>1, ConstantFacts
    <3> QED
      BY <3>2 DEF End
  <2> QED
    BY <1>2, <1>3, <2>1
<1>6. ASSUME NEW s \in ToSet(sent)
      PROVE  packet(s) \in Msgs /\ End(packet(s)) <= pcb'.lbb /\ MayHave(pcb', End(packet(s)))
  <2>1. PICK i \in 1 .. Len(sent) : s = sent[i]
    BY LenProperties DEF ToSet
  <2>2. s \in Segments /\ End(s) \in Nat /\ End(s) <= pcb'.nxt
    BY <2>1, SegmentsOf
  <2>3. packet(s) \in Msgs /\ End(packet(s)) = End(s)
    BY <2>2 DEF Segments, End
  <2>4. End(s) <= pcb'.lbb /\ MayHave(pcb', End(s))
    BY <1>2, <2>2 DEF MayHave
  <2> QED
    BY <2>3, <2>4, Zenon
<1>7. wire' \subseteq wire \cup {packet(s) : s \in ToSet(sent)}
  BY Zenon DEF Carries
<1> HIDE DEF packet, Msgs
<1>8. \A m \in wire' : m \in Msgs /\ End(m) <= pcb'.lbb /\ MayHave(pcb', End(m))
  BY <1>1, <1>5, <1>6, <1>7, Zenon
<1>9. OnlySent'
  BY <1>4, <1>8, Zenon DEF OnlySent
<1> QED
  BY <1>8, <1>9, Zenon DEF Msgs

\* The window is the one that was known, or that of an acknowledgement.
LEMMA WindowStep ==
  ASSUME Typed, EdgesAdvance, acks' \subseteq acks, client' = client,
         \/ pcb'.wnd = pcb.wnd /\ pcb'.wl2 = pcb.wl2
         \/ \E a \in acks : pcb'.wnd = a.wnd /\ pcb'.wl2 = a.ack
  PROVE  EdgesAdvance'
<1>1. /\ client.nxt <= client.edge
      /\ pcb.wl2 <= client.nxt /\ pcb.wl2 + pcb.wnd <= client.edge
      /\ \A a \in acks :
           /\ a.ack <= client.nxt /\ a.ack + a.wnd <= client.edge
           /\ pcb.wl2 < a.ack => pcb.wl2 + pcb.wnd <= a.ack + a.wnd
           /\ \A b \in acks : a.ack < b.ack => a.ack + a.wnd <= b.ack + b.wnd
  BY EdgeFacts
<1>2. /\ pcb'.wl2 <= client.nxt /\ pcb'.wl2 + pcb'.wnd <= client.edge
      /\ \A b \in acks : pcb'.wl2 < b.ack => pcb'.wl2 + pcb'.wnd <= b.ack + b.wnd
  <2>1. CASE pcb'.wnd = pcb.wnd /\ pcb'.wl2 = pcb.wl2
    BY <1>1, <2>1
  <2>2. CASE \E a \in acks : pcb'.wnd = a.wnd /\ pcb'.wl2 = a.ack
    BY <1>1, <2>2
  <2> QED
    BY <2>1, <2>2
<1> QED
  BY <1>1, <1>2, Zenon DEF EdgesAdvance

\* tcp_output ends a step: what leaves, leaves in good order, and the task is
\* outside tcp_write.
LEMMA SentStep ==
  ASSUME Typed, OnlySent, EdgesAdvance, NEW q, NEW sent, NEW keep \in BOOLEAN,
         Settled(pcb', q, sent), Carries(sent, keep), call'.at \in {"idle", "output"}, client' = client, acks' \subseteq acks, pcb.lbb <= q.lbb, q.state # "CLOSED",
         \A x \in Nat : MayHave(pcb, x) => MayHave(q, x),
         \/ q.wnd = pcb.wnd /\ q.wl2 = pcb.wl2
         \/ \E a \in acks : q.wnd = a.wnd /\ q.wl2 = a.ack
  PROVE  IInv'
<1> DEFINE p == pcb'
<1>1. /\ Ready(p) /\ (~p.input => Due(p))
      /\ p.state = q.state /\ p.lbb = q.lbb /\ p.wnd = q.wnd /\ p.wl2 = q.wl2
      /\ sent \in Seq(Segments) /\ \A i \in 1 .. Len(sent) : End(sent[i]) <= p.nxt
      /\ \A x \in Nat : MayHave(q, x) => MayHave(p, x)
  BY Zenon DEF Settled
<1>2. /\ p \in Blocks /\ Sound(p) /\ p.lastack <= p.nxt /\ p.nxt <= p.lbb
      /\ Counted(p) /\ (p.unacked # <<>> => p.timing)
  BY <1>1, Zenon DEF Ready, Sound
<1>3. OnlySent' /\ wire' \subseteq [seq : Nat, len : 0 .. Mss, fin : BOOLEAN]
  BY <1>1, <1>2, NetworkStep
<1>4. EdgesAdvance'
  BY <1>1, WindowStep
<1>5. p.lbb <= MaxBytes + 1 /\ p.queuelen <= SndQueueLen
  <2>1. p.lbb <= MaxBytes \/ p.lbb <= MaxBytes + 1
    BY <1>2, Zenon DEF Counted
  <2>2. p.queuelen <= SndQueueLen
    BY <1>2, Zenon DEF Counted
  <2>3. p.lbb \in Nat /\ MaxBytes \in Nat
    BY <1>2, BlockFacts, ConstantFacts
  <2> QED
    BY <2>1, <2>2, <2>3
<1>6. Typed'
  <2>1. acks' \subseteq [ack : Nat, wnd : Nat] /\ client' \in [nxt : Nat, edge : Nat]
    BY Zenon DEF Typed
  <2> QED
    BY <1>2, <1>3, <1>5, <2>1, Zenon DEF Typed
<1>7. (Alive => Sound(pcb) /\ CallCurrent)'
  <2>1. call'.at \notin {"counted", "found"}
    OBVIOUS
  <2> QED
    BY <1>2, <2>1, Zenon DEF CallCurrent
<1>8. SomethingIsDue'
  BY <1>1, <1>2, Zenon DEF SomethingIsDue, Due
<1>9. ClosedWhenSentArrived'
  BY <1>1, Zenon DEF ClosedWhenSentArrived
<1> QED
  BY <1>3, <1>4, <1>6, <1>7, <1>8, <1>9, Zenon DEF IInv
\* The connection has ended: nothing of it is left but its numbers.
LEMMA EndedStep ==
  ASSUME IInv, NEW p \in Blocks, p.lastack <= p.nxt, p.nxt = pcb.nxt, p.lbb = pcb.lbb,
         \A x \in Nat : MayHave(pcb, x) => MayHave(p, x),
         NEW state \in {"CLOSED", "ABORTED"}, pcb' = Free(p, state),
         state = "CLOSED" => client.nxt >= pcb.nxt,
         wire' = wire, call' = call, client' = client, acks' \subseteq acks,
         \/ p.wnd = pcb.wnd /\ p.wl2 = pcb.wl2
         \/ \E a \in acks : p.wnd = a.wnd /\ p.wl2 = a.ack
  PROVE  IInv'
<1> DEFINE x == pcb'
<1>1. Typed /\ OnlySent /\ EdgesAdvance
  BY Zenon DEF IInv
<1>2. /\ pcb.nxt <= pcb.lbb /\ pcb.lbb <= MaxBytes + 1
      /\ call.at \in {"idle", "counted", "found", "output"}
      /\ wire \subseteq [seq : Nat, len : 0 .. Mss, fin : BOOLEAN]
      /\ acks \subseteq [ack : Nat, wnd : Nat]
      /\ client \in [nxt : Nat, edge : Nat]
  BY <1>1, Zenon DEF Typed
<1>3. /\ x \in Blocks /\ x.state = state /\ x.unsent = <<>> /\ x.unacked = <<>>
      /\ x.queuelen = 0 /\ x.nxt = p.nxt /\ x.lbb = p.lbb /\ x.lastack = p.lastack
      /\ x.wnd = p.wnd /\ x.wl2 = p.wl2
  <2> DEFINE z == <<>>
  <2>1. z \in Seq(Segments)
    OBVIOUS
  <2>2. x = [p EXCEPT !.state = state, !.unsent = z, !.unacked = z, !.queuelen = 0]
    BY Zenon DEF Free
  <2>3. state \in {"ESTABLISHED", "CLOSE_WAIT", "LAST_ACK", "CLOSED", "ABORTED"}
    OBVIOUS
  <2> HIDE DEF z
  <2>4. /\ x \in Blocks /\ x.state = state /\ x.unsent = z /\ x.unacked = z
        /\ x.queuelen = 0 /\ x.nxt = p.nxt /\ x.lbb = p.lbb /\ x.lastack = p.lastack
        /\ x.wnd = p.wnd /\ x.wl2 = p.wl2
    BY ONLY p \in Blocks, <2>1, <2>2, <2>3 DEF Blocks
  <2> QED
    BY <2>4 DEF z
<1>4. \A y \in Nat : MayHave(pcb, y) => MayHave(x, y)
  BY <1>3, Zenon DEF MayHave
<1>5. Typed'
  <2>1. x.lastack <= x.nxt /\ x.nxt <= x.lbb /\ x.lbb <= MaxBytes + 1 /\ x.queuelen <= SndQueueLen
    BY <1>2, <1>3, ConstantFacts
  <2>2. acks' \subseteq [ack : Nat, wnd : Nat]
    BY <1>2, Zenon
  <2> QED
    BY <1>2, <1>3, <2>1, <2>2, Zenon DEF Typed
<1>6. OnlySent'
  <2>1. client.nxt \in Nat /\ \A m \in wire : End(m) \in Nat
    <3>1. \A m \in wire : m.seq \in Nat /\ m.len \in Nat
      <4>1. \A m \in wire : m \in [seq : Nat, len : 0 .. Mss, fin : BOOLEAN]
        BY <1>2
      <4> QED
        BY <4>1, ConstantFacts
    <3> QED
      BY <1>2, <3>1 DEF End
  <2>2. /\ client.nxt <= x.lbb /\ MayHave(pcb, client.nxt)
        /\ \A m \in wire : End(m) <= x.lbb /\ MayHave(pcb, End(m))
    BY <1>1, <1>3, Zenon DEF OnlySent
  <2>3. /\ client.nxt <= x.lbb /\ MayHave(x, client.nxt)
        /\ \A m \in wire : End(m) <= x.lbb /\ MayHave(x, End(m))
    BY <1>4, <2>1, <2>2, Zenon
  <2> QED
    BY <2>3, Zenon DEF OnlySent
<1>7. EdgesAdvance'
  BY <1>1, <1>3, WindowStep
<1>8. ~Alive'
  BY <1>3 DEF Alive
<1>9. ClosedWhenSentArrived'
  <2>1. ASSUME state = "CLOSED" PROVE client'.nxt >= x.nxt
    BY <1>3, <2>1
  <2> QED
    BY <1>3, <2>1, Zenon DEF ClosedWhenSentArrived
<1> QED
  BY <1>5, <1>6, <1>7, <1>8, <1>9, Zenon DEF IInv, SomethingIsDue

LEMMA AliveReady ==
  ASSUME IInv, Alive
  PROVE  /\ Ready(pcb) /\ Typed /\ OnlySent /\ EdgesAdvance /\ CallCurrent
         /\ pcb.state \in {"ESTABLISHED", "CLOSE_WAIT", "LAST_ACK"}
<1>1. Typed /\ OnlySent /\ EdgesAdvance /\ Sound(pcb) /\ CallCurrent
  BY Zenon DEF IInv
<1>2. pcb \in Blocks /\ pcb.lastack <= pcb.nxt /\ pcb.nxt <= pcb.lbb
  BY <1>1, Zenon DEF Typed
<1>3. pcb.state \in {"ESTABLISHED", "CLOSE_WAIT", "LAST_ACK", "CLOSED", "ABORTED"}
  BY <1>2 DEF Blocks
<1> QED
  BY <1>1, <1>2, <1>3 DEF Ready, Alive

LEMMA PollStep ==
  ASSUME IInv, Alive, NEW keep \in BOOLEAN, pcb' = Output(pcb), Carries(Emitted(pcb), keep),
         call'.at \in {"idle", "output"}, UNCHANGED <<acks, client>>
  PROVE  IInv'
<1>1. /\ Ready(pcb) /\ Typed /\ OnlySent /\ EdgesAdvance
      /\ pcb.state \in {"ESTABLISHED", "CLOSE_WAIT", "LAST_ACK"}
  BY AliveReady
<1>2. Settled(pcb', pcb, Emitted(pcb))
  BY <1>1, OutputReady
<1>3. pcb.lbb <= pcb.lbb
  BY <1>1, BlockFacts DEF Ready
<1>4. pcb.state # "CLOSED" /\ acks' \subseteq acks /\ client' = client
  BY <1>1
<1> QED
  BY <1>1, <1>2, <1>3, <1>4, SentStep

LEMMA CallbackStep ==
  ASSUME IInv, Unraced, NEW keep \in BOOLEAN, CallbackEnds(keep)
  PROVE  IInv'
<1> DEFINE p == [pcb EXCEPT !.input = FALSE]
<1>1. /\ Alive /\ call.at \in {"idle", "output"} /\ call' = call /\ client' = client /\ acks' = acks
      /\ pcb' \in OutputOrAck(p) /\ Carries(Emitted(p), keep)
  BY Outside, Zenon DEF CallbackEnds
<1>2. /\ Ready(pcb) /\ Typed /\ OnlySent /\ EdgesAdvance
      /\ pcb.state \in {"ESTABLISHED", "CLOSE_WAIT", "LAST_ACK"}
  BY <1>1, AliveReady
<1>3. pcb \in Blocks
  BY <1>2, Zenon DEF Ready
<1>4. /\ p \in Blocks /\ p.state = pcb.state /\ p.unsent = pcb.unsent
      /\ p.unacked = pcb.unacked /\ p.lbb = pcb.lbb /\ p.nxt = pcb.nxt
      /\ p.lastack = pcb.lastack /\ p.buf = pcb.buf /\ p.queuelen = pcb.queuelen
      /\ p.cwnd = pcb.cwnd /\ p.wnd = pcb.wnd /\ p.wl2 = pcb.wl2
      /\ p.timing = pcb.timing /\ ~p.input
  BY ONLY <1>3 DEF Blocks
<1> HIDE DEF p
<1>5. Ready(p) /\ \A y \in Nat : MayHave(pcb, y) => MayHave(p, y)
  BY <1>2, <1>4, FlagsReady
<1>6. Settled(pcb', p, Emitted(p))
  BY <1>1, <1>4, <1>5, AckReady
<1>7. pcb.lbb <= p.lbb
  BY <1>3, <1>4, BlockFacts
<1>8. p.state # "CLOSED" /\ acks' \subseteq acks
  BY <1>1, <1>2, <1>4
<1> QED
  BY <1>1, <1>2, <1>4, <1>5, <1>6, <1>7, <1>8, SentStep

LEMMA RtoStep ==
  ASSUME IInv, Unraced, NEW keep \in BOOLEAN, Rto(keep)
  PROVE  IInv'
<1> DEFINE p == RexmitRto(pcb)
<1>1. /\ Alive /\ call.at \in {"idle", "output"} /\ call' = call /\ client' = client /\ acks' = acks
      /\ pcb' = Output(p) /\ Carries(Emitted(p), keep)
  BY Outside, Zenon DEF Rto, SlowTimer
<1>2. /\ Ready(pcb) /\ Typed /\ OnlySent /\ EdgesAdvance
      /\ pcb.state \in {"ESTABLISHED", "CLOSE_WAIT", "LAST_ACK"}
  BY <1>1, AliveReady
<1> HIDE DEF p
<1>3. /\ Ready(p) /\ p.state = pcb.state /\ p.lbb = pcb.lbb /\ p.wnd = pcb.wnd /\ p.wl2 = pcb.wl2
      /\ \A y \in Nat : MayHave(pcb, y) => MayHave(p, y)
  BY <1>2, RtoReady DEF p
<1>4. Settled(pcb', p, Emitted(p))
  BY <1>1, <1>3, OutputReady
<1>5. pcb.lbb <= p.lbb
  BY <1>2, <1>3, BlockFacts DEF Ready
<1>6. p.state # "CLOSED" /\ acks' \subseteq acks
  BY <1>1, <1>2, <1>3
<1> QED
  BY <1>1, <1>2, <1>3, <1>4, <1>5, <1>6, SentStep

LEMMA GiveUpStep ==
  ASSUME IInv, GiveUp
  PROVE  IInv'
<1>1. Alive /\ pcb' = Free(pcb, "ABORTED") /\ UNCHANGED <<call, wire, acks, client>>
  BY Zenon DEF GiveUp, SlowTimer, ThreadRuns
<1>2. Ready(pcb)
  BY <1>1, AliveReady
<1>3. pcb \in Blocks /\ pcb.lastack <= pcb.nxt
  BY <1>2, Zenon DEF Ready
<1> QED
  BY <1>1, <1>3, EndedStep
LEMMA ReceiveStep ==
  ASSUME IInv, Unraced, NEW a \in acks, NEW withData \in BOOLEAN, NEW keep \in BOOLEAN,
         Receive(a, withData, keep)
  PROVE  IInv'
<1>1. /\ Alive /\ call.at \in {"idle", "output"} /\ call' = call /\ client' = client /\ acks' \subseteq acks
      /\ ~pcb.input
  BY Outside, Zenon DEF Receive
<1>2. PICK r \in Received(pcb, a, withData) :
        IF Over(r, a) THEN pcb' = Free(r, "CLOSED") /\ UNCHANGED wire
        ELSE pcb' = Output(r) /\ Carries(Emitted(r), keep)
  BY Zenon DEF Receive
<1>3. /\ Ready(pcb) /\ Typed /\ OnlySent /\ EdgesAdvance
      /\ pcb.state \in {"ESTABLISHED", "CLOSE_WAIT", "LAST_ACK"}
  BY <1>1, AliveReady
<1>4. /\ client.nxt \in Nat
      /\ a \in [ack : Nat, wnd : Nat] /\ a.ack \in Nat /\ a.ack <= client.nxt
      /\ pcb.wl2 < a.ack => pcb.wl2 + pcb.wnd <= a.ack + a.wnd
  BY <1>3, EdgeFacts
<1>5. pcb \in Blocks /\ pcb.nxt \in Nat /\ pcb.lastack \in Nat /\ pcb.lbb \in Nat
  BY <1>3, BlockFacts DEF Ready
<1>6. MayHave(pcb, a.ack)
  <2>1. client.nxt <= pcb.nxt \/ (pcb.unacked = <<>> /\ client.nxt <= pcb.lastack + 1)
    BY <1>3, Zenon DEF OnlySent, MayHave
  <2>2. a.ack <= pcb.nxt \/ (pcb.unacked = <<>> /\ a.ack <= pcb.lastack + 1)
    BY <1>4, <1>5, <2>1
  <2> QED
    BY <2>2, Zenon DEF MayHave
<1>7. Handled(r, pcb, a)
  BY <1>1, <1>2, <1>3, <1>4, <1>6, ReceivedReady
<1>8. CASE Over(r, a)
  <2>1. Kept(r, pcb, a) /\ pcb' = Free(r, "CLOSED") /\ wire' = wire
    BY <1>2, <1>7, <1>8, Zenon DEF Handled
  <2>2. /\ r \in Blocks /\ r.lastack <= r.nxt /\ r.nxt = pcb.nxt /\ r.lbb = pcb.lbb
        /\ \A x \in Nat : MayHave(pcb, x) => MayHave(r, x)
        /\ \/ r.wnd = pcb.wnd /\ r.wl2 = pcb.wl2
           \/ r.wnd = a.wnd /\ r.wl2 = a.ack
    BY <2>1, Zenon DEF Kept, Took
  <2>3. a.ack = r.nxt
    BY <1>8, Zenon DEF Over
  <2>4. client.nxt >= pcb.nxt
    BY <1>4, <1>5, <2>2, <2>3
  <2> QED
    BY <1>1, <2>1, <2>2, <2>4, EndedStep
<1>9. CASE ~Over(r, a)
  <2>1. pcb' = Output(r) /\ Carries(Emitted(r), keep)
    BY <1>2, <1>9, Zenon
  <2>2. PICK q : Settled(pcb', q, Emitted(r)) /\ Kept(q, pcb, a)
    BY <1>7, <2>1, Zenon DEF Handled
  <2>3. /\ q.lbb = pcb.lbb /\ q.state = pcb.state
        /\ \A x \in Nat : MayHave(pcb, x) => MayHave(q, x)
        /\ \/ q.wnd = pcb.wnd /\ q.wl2 = pcb.wl2
           \/ q.wnd = a.wnd /\ q.wl2 = a.ack
    BY <2>2, Zenon DEF Kept, Took
  <2>4. pcb.lbb <= q.lbb /\ q.state # "CLOSED"
    BY <1>3, <1>5, <2>3
  <2>5. call'.at \in {"idle", "output"}
    BY <1>1
  <2> QED
    BY <1>1, <1>3, <2>1, <2>2, <2>3, <2>4, <2>5, SentStep
<1> QED
  BY <1>8, <1>9

LEMMA DisconnectStep ==
  ASSUME IInv, Unraced, NEW keep \in BOOLEAN, Disconnect(keep)
  PROVE  IInv'
<1> DEFINE s == [seq |-> pcb.lbb, len |-> 0, fin |-> TRUE, bufs |-> 1]
           closed == [pcb EXCEPT !.state = "LAST_ACK", !.unsent = Link(@, s),
                        !.lbb = @ + 1, !.buf = U16(@ + U16Max),
                        !.queuelen = IF Len(Link(pcb.unsent, s)) > Len(pcb.unsent)
                                       THEN @ + 1 ELSE @]
           waits == [pcb EXCEPT !.state = "CLOSE_WAIT", !.memerr = TRUE]
<1>1. /\ Alive /\ call.at \in {"idle", "output"} /\ call' = call /\ client' = client /\ acks' = acks
      /\ pcb.state = "ESTABLISHED"
  BY Outside, Zenon DEF Disconnect
<1>2. PICK p : /\ p = waits \/ (Accepts(pcb, 0) /\ p = closed)
               /\ pcb' = Output(p) /\ Carries(Emitted(p), keep)
  <2>1. \E p \in {waits} \cup (IF Accepts(pcb, 0) THEN {closed} ELSE {}) :
           pcb' = Output(p) /\ Carries(Emitted(p), keep)
    BY Zenon DEF Disconnect
  <2> HIDE DEF waits, closed
  <2> QED
    BY <2>1
<1>3. /\ Ready(pcb) /\ Typed /\ OnlySent /\ EdgesAdvance
  BY <1>1, AliveReady
<1>4. pcb \in Blocks
  BY <1>3, Zenon DEF Ready
<1>5. pcb.lbb \in Nat /\ pcb.unsent \in Seq(Segments) /\ pcb.buf \in Nat /\ pcb.queuelen \in Nat
  BY <1>4, BlockFacts
<1>6. /\ Ready(p) /\ pcb.lbb <= p.lbb /\ p.state # "CLOSED"
      /\ p.wnd = pcb.wnd /\ p.wl2 = pcb.wl2
      /\ \A y \in Nat : MayHave(pcb, y) => MayHave(p, y)
  <2>1. CASE p = waits
    <3>1. /\ p \in Blocks /\ p.state = "CLOSE_WAIT" /\ p.unsent = pcb.unsent
          /\ p.unacked = pcb.unacked /\ p.lbb = pcb.lbb /\ p.nxt = pcb.nxt
          /\ p.lastack = pcb.lastack /\ p.buf = pcb.buf /\ p.queuelen = pcb.queuelen
          /\ p.cwnd = pcb.cwnd /\ p.wnd = pcb.wnd /\ p.wl2 = pcb.wl2
          /\ p.timing = pcb.timing
      BY ONLY <1>4, <2>1 DEF Blocks
    <3>2. /\ p.state = "LAST_ACK" <=> pcb.state = "LAST_ACK"
          /\ pcb.lbb <= p.lbb /\ p.state # "CLOSED"
      BY <1>1, <1>5, <3>1
    <3> QED
      BY <1>3, <3>1, <3>2, FlagsReady
  <2>2. CASE Accepts(pcb, 0) /\ p = closed
    <3> DEFINE q == Link(pcb.unsent, s)
               k == IF Len(q) > Len(pcb.unsent) THEN pcb.queuelen + 1 ELSE pcb.queuelen
               b == U16(pcb.buf + U16Max)
               l == pcb.lbb + 1
    <3>1. s \in Segments /\ s.seq = pcb.lbb /\ s.len = 0 /\ s.fin /\ s.bufs = 1
      BY <1>5, ConstantFacts DEF Segments
    <3>2. p = [pcb EXCEPT !.state = "LAST_ACK", !.unsent = q, !.lbb = l, !.buf = b, !.queuelen = k]
      BY <2>2, Zenon
    <3> HIDE DEF s
    <3>3. q \in Seq(Segments)
      <4> HIDE DEF q
      <4>1. Lengthened(pcb.unsent, s, q)
        BY <1>5, <3>1, Linked DEF q
      <4>2. \A v \in Seq(Segments), f \in Segments : v \o <<f>> \in Seq(Segments)
        BY OneMore
      <4> QED
        BY <1>5, <3>1, <4>1, <4>2, Zenon DEF Lengthened
    <3>4. b \in 0 .. U16Max
      <4>1. pcb.buf + U16Max \in Nat
        BY <1>5, ConstantFacts
      <4> QED
        BY <4>1, U16Facts
    <3>5. k \in Nat /\ l \in Nat
      BY <1>5
    <3> HIDE DEF q, k, b, l
    <3>6. /\ p \in Blocks /\ p.unsent = q /\ p.unacked = pcb.unacked
          /\ p.state = "LAST_ACK" /\ p.lbb = l /\ p.buf = b /\ p.queuelen = k
          /\ p.nxt = pcb.nxt /\ p.lastack = pcb.lastack /\ p.cwnd = pcb.cwnd
          /\ p.wnd = pcb.wnd /\ p.wl2 = pcb.wl2 /\ p.timing = pcb.timing
          /\ p.input = pcb.input
      BY ONLY <1>4, <3>2, <3>3, <3>4, <3>5 DEF Blocks
    <3>7. Closing(p, pcb, s)
      BY <3>6, Zenon DEF Closing, q, k, b, l
    <3>8. Ready(p) /\ \A y \in Nat : MayHave(pcb, y) => MayHave(p, y)
      BY <1>1, <1>3, <2>2, <3>1, <3>7, ClosingReady
    <3>9. pcb.lbb <= p.lbb /\ p.state # "CLOSED"
      BY <1>5, <3>6 DEF l
    <3> QED
      BY <3>6, <3>8, <3>9
  <2> QED
    BY <1>2, <2>1, <2>2, Zenon
<1>7. Settled(pcb', p, Emitted(p))
  BY <1>2, <1>6, OutputReady
<1>8. call'.at \in {"idle", "output"} /\ acks' \subseteq acks
  BY <1>1
<1> QED
  BY <1>1, <1>2, <1>3, <1>6, <1>7, <1>8, SentStep
\* A probe sends no more than the byte behind all that is acknowledged.
LEMMA ProbeStep ==
  ASSUME IInv, Unraced, NEW keep \in BOOLEAN, Probe(keep)
  PROVE  IInv'
<1> DEFINE first == Stream(pcb)[1]
           n == Min({first.len, 1})
           m == [seq |-> first.seq, len |-> n, fin |-> first.fin /\ first.len = 0]
           Msgs == [seq : Nat, len : 0 .. Mss, fin : BOOLEAN]
<1>1. /\ Alive /\ Stream(pcb) # <<>> /\ Carries(<<m>>, keep)
      /\ UNCHANGED <<pcb, call, acks, client>>
  BY Outside, Zenon DEF Probe, SlowTimer, Stream
<1>2. /\ Ready(pcb) /\ Typed /\ OnlySent /\ EdgesAdvance
  BY <1>1, AliveReady
<1>3. /\ pcb \in Blocks /\ Chained(Stream(pcb)) /\ Spans(pcb) /\ Sent(pcb)
  BY <1>2, Zenon DEF Ready, Sound
<1>4. /\ Stream(pcb) \in Seq(Segments) /\ pcb.unacked \in Seq(Segments)
      /\ pcb.lastack \in Nat /\ pcb.lbb \in Nat /\ pcb.nxt \in Nat
  BY <1>3, BlockFacts
<1>5. 1 \in 1 .. Len(Stream(pcb))
  BY <1>1, <1>4, EmptySeq, LenProperties
<1>6. /\ first \in Segments /\ first.seq \in Nat /\ first.len \in Nat /\ End(first) \in Nat
      /\ first.len \in 0 .. Mss /\ first.fin \in BOOLEAN
  BY <1>4, <1>5, SegmentsOf, ConstantFacts DEF Segments
<1>7. End(first) <= pcb.lbb
  BY <1>3, <1>5, StreamSpans
<1>8. first.seq <= pcb.lastack
  BY <1>1, <1>3, Zenon DEF Spans
<1>9. pcb.unacked # <<>> => End(first) <= pcb.nxt
  <2> SUFFICES ASSUME pcb.unacked # <<>> PROVE End(first) <= pcb.nxt
    OBVIOUS
  <2>1. 1 \in 1 .. Len(pcb.unacked)
    BY <1>4, EmptySeq, LenProperties
  <2>2. first = pcb.unacked[1]
    BY <1>3, <2>1, StreamPlaces
  <2>3. End(pcb.unacked[1]) <= pcb.nxt
    BY <1>3, <2>1, Zenon DEF Sent
  <2> QED
    BY <2>2, <2>3
<1> HIDE DEF first
<1>10. n = IF first.len <= 1 THEN first.len ELSE 1
  BY <1>6, LeastOfTwo
<1> HIDE DEF n
<1>11. /\ m \in Msgs /\ End(m) \in Nat
       /\ End(m) <= End(first) /\ End(m) <= first.seq + 1
  <2>1. n \in 0 .. Mss /\ n \in Nat /\ n <= 1 /\ n <= first.len /\ (first.len = 0 <=> n = 0)
    BY <1>6, <1>10, ConstantFacts
  <2>2. m \in Msgs
    BY <1>6, <2>1
  <2>3. End(m) = first.seq + n + (IF first.fin /\ first.len = 0 THEN 1 ELSE 0)
    BY DEF End
  <2>4. End(first) = first.seq + first.len + (IF first.fin THEN 1 ELSE 0)
    BY Zenon DEF End
  <2> HIDE DEF m
  <2> QED
    BY <1>6, <2>1, <2>2, <2>3, <2>4
<1>12. End(m) <= pcb.lbb /\ MayHave(pcb, End(m))
  <2> DEFINE e == End(m)
  <2>1. /\ e \in Nat /\ e <= End(first) /\ e <= first.seq + 1
    BY <1>11
  <2> HIDE DEF e
  <2>2. e <= pcb.lbb /\ (e <= pcb.nxt \/ (pcb.unacked = <<>> /\ e <= pcb.lastack + 1))
    BY <1>4, <1>6, <1>7, <1>8, <1>9, <2>1
  <2> QED
    BY <2>2 DEF e, MayHave
<1>13. wire' \subseteq wire \cup {m}
  <2> DEFINE packet(s) == [seq |-> s.seq, len |-> s.len, fin |-> s.fin]
  <2>1. <<m>> # <<>> /\ ToSet(<<m>>) = {m} /\ packet(m) = m
    BY DEF ToSet
  <2>2. wire' \subseteq wire \cup {packet(s) : s \in ToSet(<<m>>)}
    BY <1>1, <2>1, Zenon DEF Carries
  <2> HIDE DEF packet, m
  <2> QED
    BY <2>1, <2>2
<1> HIDE DEF m
<1>14. OnlySent'
  <2>1. /\ client.nxt <= pcb.lbb /\ MayHave(pcb, client.nxt)
        /\ \A x \in wire : End(x) <= pcb.lbb /\ MayHave(pcb, End(x))
    BY <1>2, Zenon DEF OnlySent
  <2>2. \A x \in wire' : End(x) <= pcb.lbb /\ MayHave(pcb, End(x))
    BY <1>12, <1>13, <2>1, Zenon
  <2> QED
    BY <1>1, <2>1, <2>2, Zenon DEF OnlySent
<1>15. Typed'
  <2>1. wire' \subseteq Msgs
    BY <1>2, <1>11, <1>13, Zenon DEF Typed
  <2> QED
    BY <1>1, <1>2, <2>1, Zenon DEF Typed
<1>16. EdgesAdvance'
  BY <1>1, <1>2, Zenon DEF EdgesAdvance
<1>17. (Alive => Sound(pcb) /\ CallCurrent)' /\ SomethingIsDue' /\ ClosedWhenSentArrived'
  <2>1. Sound(pcb) /\ CallCurrent /\ SomethingIsDue /\ ClosedWhenSentArrived
    BY <1>1, Zenon DEF IInv
  <2> QED
    BY <1>1, <2>1, Zenon DEF CallCurrent, Open, SomethingIsDue, Alive, Idle, Unraced, ClosedWhenSentArrived
<1> QED
  BY <1>14, <1>15, <1>16, <1>17, Zenon DEF IInv

\* Outside the thread's steps the network and the client are as they were.
LEMMA TaskStepKeeps ==
  ASSUME Typed, OnlySent, EdgesAdvance, ClosedWhenSentArrived, Ready(pcb'),
         pcb'.nxt = pcb.nxt, pcb.lbb <= pcb'.lbb, pcb'.wnd = pcb.wnd, pcb'.wl2 = pcb.wl2,
         pcb'.state # "CLOSED",
         \A x \in Nat : MayHave(pcb, x) => MayHave(pcb', x),
         UNCHANGED <<wire, acks, client>>, call'.at \in {"counted", "found", "output"},
         CallCurrent'
  PROVE  IInv'
<1> DEFINE p == pcb'
<1>1. /\ p \in Blocks /\ Sound(p) /\ p.lastack <= p.nxt /\ p.nxt <= p.lbb /\ Counted(p)
  BY Zenon DEF Ready, Sound
<1>2. <<>> \in Seq(Segments) /\ (\A i \in 1 .. Len(<<>>) : End(<<>>[i]) <= p.nxt)
  OBVIOUS
<1>3. Carries(<<>>, FALSE)
  BY Zenon DEF Carries
<1>4. OnlySent' /\ wire' \subseteq [seq : Nat, len : 0 .. Mss, fin : BOOLEAN]
  BY <1>1, <1>2, <1>3, NetworkStep
<1>5. EdgesAdvance'
  BY WindowStep
<1>6. p.lbb <= MaxBytes + 1 /\ p.queuelen <= SndQueueLen
  <2>1. p.lbb <= MaxBytes \/ p.lbb <= MaxBytes + 1
    BY <1>1, Zenon DEF Counted
  <2>2. p.queuelen <= SndQueueLen
    BY <1>1, Zenon DEF Counted
  <2>3. p.lbb \in Nat /\ MaxBytes \in Nat
    BY <1>1, BlockFacts, ConstantFacts
  <2> QED
    BY <2>1, <2>2, <2>3
<1>7. Typed'
  <2>1. /\ acks' \subseteq [ack : Nat, wnd : Nat] /\ client' \in [nxt : Nat, edge : Nat]
        /\ call'.at \in {"idle", "counted", "found", "output"}
    BY DEF Typed
  <2> QED
    BY <1>1, <1>4, <1>6, <2>1, Zenon DEF Typed
<1>8. SomethingIsDue' /\ ClosedWhenSentArrived'
  <2>1. ~Idle'
    BY DEF Idle
  <2> QED
    BY <2>1, Zenon DEF SomethingIsDue, ClosedWhenSentArrived
<1> QED
  BY <1>1, <1>4, <1>5, <1>7, <1>8, Zenon DEF IInv
LEMMA RefusedStep ==
  ASSUME IInv, WriteRefused
  PROVE  IInv'
<1>1. /\ pcb.state \in {"ESTABLISHED", "CLOSE_WAIT"} /\ pcb' = [pcb EXCEPT !.memerr = TRUE]
      /\ call' = [at |-> "output"] /\ UNCHANGED <<wire, acks, client>>
  BY Zenon DEF WriteRefused, Open
<1>2. Alive
  BY <1>1 DEF Alive
<1>3. Ready(pcb) /\ Typed /\ OnlySent /\ EdgesAdvance /\ ClosedWhenSentArrived
  BY <1>2, AliveReady, Zenon DEF IInv
<1>4. pcb \in Blocks /\ pcb.lbb \in Nat
  BY <1>3, BlockFacts DEF Ready
<1> DEFINE p == pcb'
<1>5. /\ p \in Blocks /\ p.state = pcb.state /\ p.unsent = pcb.unsent
      /\ p.unacked = pcb.unacked /\ p.lbb = pcb.lbb /\ p.nxt = pcb.nxt
      /\ p.lastack = pcb.lastack /\ p.buf = pcb.buf /\ p.queuelen = pcb.queuelen
      /\ p.cwnd = pcb.cwnd /\ p.wnd = pcb.wnd /\ p.wl2 = pcb.wl2
      /\ p.timing = pcb.timing
  BY <1>1, <1>4 DEF Blocks
<1>6. Ready(p) /\ \A y \in Nat : MayHave(pcb, y) => MayHave(p, y)
  BY <1>3, <1>5, FlagsReady
<1>7. pcb.lbb <= p.lbb /\ p.state # "CLOSED" /\ call'.at = "output"
  BY <1>1, <1>4, <1>5
<1>8. CallCurrent'
  BY <1>7 DEF CallCurrent
<1> QED
  BY <1>1, <1>3, <1>5, <1>6, <1>7, <1>8, TaskStepKeeps

\* What the task reads is so, and stays so while it is not preempted.
LEMMA BeginStep ==
  ASSUME IInv, NEW n \in Lengths, WriteBegin(n)
  PROVE  IInv'
<1>1. /\ pcb.state \in {"ESTABLISHED", "CLOSE_WAIT"} /\ Accepts(pcb, n)
      /\ pcb.lbb + n <= MaxBytes
      /\ call' = [at |-> "counted", queuelen |-> pcb.queuelen,
                  seg |-> [seq |-> pcb.lbb, len |-> n, fin |-> FALSE, bufs |-> 1]]
      /\ UNCHANGED <<pcb, wire, acks, client>>
  BY Zenon DEF WriteBegin, Open
<1>2. Alive
  BY <1>1 DEF Alive
<1>3. Ready(pcb) /\ Typed /\ OnlySent /\ EdgesAdvance /\ ClosedWhenSentArrived
  BY <1>2, AliveReady, Zenon DEF IInv
<1>4. pcb \in Blocks /\ pcb.lbb \in Nat
  BY <1>3, BlockFacts DEF Ready
<1>5. pcb' = pcb /\ pcb.lbb <= pcb.lbb /\ pcb.state # "CLOSED" /\ call'.at = "counted"
  BY <1>1, <1>4
<1>6. CallCurrent'
  <2>1. /\ call'.queuelen = pcb.queuelen /\ call'.seg.len = n
        /\ call'.seg \in [seq : {pcb.lbb}, len : Lengths, fin : {FALSE}, bufs : {1}]
        /\ call'.at # "found"
    BY <1>1
  <2>2. /\ Accepts(pcb, call'.seg.len) /\ pcb.lbb + call'.seg.len <= MaxBytes
    BY <1>1, <2>1, Zenon
  <2> QED
    BY <1>1, <1>5, <2>1, <2>2, Zenon DEF CallCurrent, Open
<1> QED
  BY <1>1, <1>3, <1>5, <1>6, TaskStepKeeps

LEMMA FindStep ==
  ASSUME IInv, WriteFind
  PROVE  IInv'
<1>1. /\ Alive /\ call.at = "counted"
      /\ call' = [at |-> "found", queuelen |-> call.queuelen, seg |-> call.seg,
                  last |-> IF pcb.unsent = <<>> THEN {} ELSE {Last(pcb.unsent).seq}]
      /\ UNCHANGED <<pcb, wire, acks, client>>
  BY Zenon DEF WriteFind
<1>2. /\ Ready(pcb) /\ Typed /\ OnlySent /\ EdgesAdvance /\ CallCurrent
      /\ ClosedWhenSentArrived /\ pcb.state \in {"ESTABLISHED", "CLOSE_WAIT", "LAST_ACK"}
  BY <1>1, AliveReady, Zenon DEF IInv
<1>3. pcb \in Blocks /\ pcb.lbb \in Nat
  BY <1>2, BlockFacts DEF Ready
<1>4. pcb' = pcb /\ pcb.lbb <= pcb.lbb /\ pcb.state # "CLOSED" /\ call'.at = "found"
  BY <1>1, <1>2, <1>3
<1>5. CallCurrent'
  <2>1. /\ call.queuelen = pcb.queuelen /\ Open /\ Accepts(pcb, call.seg.len)
        /\ call.seg \in [seq : {pcb.lbb}, len : Lengths, fin : {FALSE}, bufs : {1}]
        /\ pcb.lbb + call.seg.len <= MaxBytes
    BY <1>1, <1>2, Zenon DEF CallCurrent
  <2>2. /\ call'.queuelen = call.queuelen /\ call'.seg = call.seg
        /\ call'.last = IF pcb.unsent = <<>> THEN {} ELSE {Last(pcb.unsent).seq}
    BY <1>1
  <2> QED
    BY <1>4, <2>1, <2>2, Zenon DEF CallCurrent, Open
<1> QED
  BY <1>1, <1>2, <1>4, <1>5, TaskStepKeeps

LEMMA FrameIsSegment ==
  ASSUME NEW n \in Nat, NEW s \in [seq : {n}, len : Lengths, fin : {FALSE}, bufs : {1}]
  PROVE  s \in Segments
<1>1. Lengths \subseteq 0 .. Mss
  BY ConstantFacts
<1>2. {n} \subseteq Nat /\ {FALSE} \subseteq BOOLEAN /\ {1} \subseteq Nat
  OBVIOUS
<1>3. s \in [seq : Nat, len : 0 .. Mss, fin : BOOLEAN, bufs : Nat]
  <2> DEFINE M == 0 .. Mss
  <2>1. Lengths \subseteq M
    BY <1>1
  <2> HIDE DEF M
  <2>2. s \in [seq : Nat, len : M, fin : BOOLEAN, bufs : Nat]
    BY <1>2, <2>1
  <2> QED
    BY <2>2 DEF M
<1> QED
  BY <1>3 DEF Segments

LEMMA LinkStep ==
  ASSUME IInv, WriteLink
  PROVE  IInv'
<1> DEFINE s == call.seg
           q(queue) == UNION {{LinkBehind(queue, seq, s)} : seq \in call.last}
           p == pcb'
<1>1. /\ Alive /\ call.at = "found" /\ call' = [at |-> "output"]
      /\ UNCHANGED <<wire, acks, client>>
  BY Zenon DEF WriteLink
<1>2. PICK unsent \in IF call.last = {} THEN {<<s>>} ELSE q(pcb.unsent),
           unacked \in IF call.last = {} THEN {pcb.unacked} ELSE q(pcb.unacked) :
        p = [pcb EXCEPT !.unsent = unsent, !.unacked = unacked,
                        !.lbb = @ + s.len, !.buf = U16(@ + U16Max + 1 - s.len),
                        !.queuelen = call.queuelen + 1]
  BY Zenon DEF WriteLink
<1>3. /\ Ready(pcb) /\ Typed /\ OnlySent /\ EdgesAdvance /\ CallCurrent
      /\ ClosedWhenSentArrived
  BY <1>1, AliveReady, Zenon DEF IInv
<1>4. /\ pcb \in Blocks /\ Chained(Stream(pcb))
  BY <1>3, Zenon DEF Ready, Sound
<1>5. /\ call.queuelen = pcb.queuelen /\ Open /\ Accepts(pcb, s.len)
      /\ s \in [seq : {pcb.lbb}, len : Lengths, fin : {FALSE}, bufs : {1}]
      /\ pcb.lbb + s.len <= MaxBytes
      /\ call.last = IF pcb.unsent = <<>> THEN {} ELSE {Last(pcb.unsent).seq}
  BY <1>1, <1>3, Zenon DEF CallCurrent
<1>6. /\ pcb.unsent \in Seq(Segments) /\ pcb.unacked \in Seq(Segments)
      /\ pcb.lbb \in Nat /\ pcb.queuelen \in Nat /\ pcb.buf \in 0 .. U16Max
      /\ Stream(pcb) \in Seq(Segments)
  BY <1>4, BlockFacts
<1>7. /\ s \in Segments /\ s.seq = pcb.lbb /\ s.len \in Lengths /\ ~s.fin /\ s.bufs = 1
      /\ s.len \in Nat
  <2>1. s.seq = pcb.lbb /\ s.len \in Lengths /\ s.fin = FALSE /\ s.bufs = 1
    BY <1>5
  <2>2. s.len \in 1 .. Mss
    BY <2>1, ConstantFacts, Zenon
  <2>3. s.len \in 0 .. Mss /\ s.len \in Nat
    BY <2>2, ConstantFacts
  <2>4. s \in Segments
    <3>1. s \in [seq : {pcb.lbb}, len : Lengths, fin : {FALSE}, bufs : {1}] /\ pcb.lbb \in Nat
      BY <1>5, <1>6
    <3> QED
      BY <3>1, FrameIsSegment
  <2> QED
    BY <2>1, <2>3, <2>4
<1> HIDE DEF s
<1>8. unsent = Link(pcb.unsent, s) /\ unacked = pcb.unacked
  <2>1. CASE pcb.unsent = <<>>
    <3>1. call.last = {}
      BY <1>5, <2>1
    <3>2. unsent = <<s>> /\ unacked = pcb.unacked
      BY <1>2, <3>1
    <3>3. Link(<<>>, s) = <<s>>
      <4>1. Link(<<>>, s) = Append(<<>>, s)
        BY Zenon DEF Link
      <4> QED
        BY <4>1
    <3> QED
      BY <2>1, <3>2, <3>3
  <2>2. CASE pcb.unsent # <<>>
    <3> DEFINE l == Last(pcb.unsent).seq
    <3>1. call.last = {l}
      BY <1>5, <2>2
    <3>2. Rising(Stream(pcb))
      BY <1>4, <1>6, ChainRises
    <3>3. Rising(pcb.unacked \o pcb.unsent)
      BY <3>2, Zenon DEF Stream
    <3>4. LinkBehind(pcb.unacked, l, s) = pcb.unacked
      BY <1>6, <2>2, <3>3, NotFound
    <3>5. Rising(pcb.unsent)
      <4>1. Stream(pcb) = pcb.unacked \o pcb.unsent
        BY Zenon DEF Stream
      <4>2. \A i, j \in 1 .. Len(pcb.unsent) : i < j => pcb.unsent[i].seq < pcb.unsent[j].seq
        <5>1. Len(pcb.unacked) \in Nat /\ Len(pcb.unsent) \in Nat
          BY <1>6, LenProperties
        <5>2. ASSUME NEW i \in 1 .. Len(pcb.unsent), NEW j \in 1 .. Len(pcb.unsent), i < j
              PROVE  pcb.unsent[i].seq < pcb.unsent[j].seq
          <6> DEFINE k == Len(pcb.unacked)
          <6>1. /\ k + i \in 1 .. Len(Stream(pcb)) /\ Stream(pcb)[k + i] = pcb.unsent[i]
                /\ k + j \in 1 .. Len(Stream(pcb)) /\ Stream(pcb)[k + j] = pcb.unsent[j]
            BY <1>4, StreamPlaces
          <6>2. k + i < k + j
            BY <5>1, <5>2
          <6>3. Stream(pcb)[k + i].seq < Stream(pcb)[k + j].seq
            BY <3>2, <6>1, <6>2, Zenon DEF Rising
          <6> QED
            BY <6>1, <6>3
        <5> QED
          BY <5>2
      <4> QED
        BY <4>2, Zenon DEF Rising
    <3>6. LinkBehind(pcb.unsent, l, s) = Link(pcb.unsent, s)
      BY <1>6, <2>2, <3>5, FoundLast
    <3> HIDE DEF l
    <3>7. \A queue : q(queue) = {LinkBehind(queue, l, s)}
      BY <3>1
    <3>8. call.last # {}
      BY <3>1
    <3> QED
      BY <1>2, <3>4, <3>6, <3>7, <3>8
  <2> QED
    BY <2>1, <2>2
<1> HIDE DEF q
<1>9. Written(p, pcb, s)
  <2> DEFINE b == U16(pcb.buf + U16Max + 1 - s.len)
             k == pcb.queuelen + 1
             n == pcb.lbb + s.len
             r == Link(pcb.unsent, s)
  <2>1. p = [pcb EXCEPT !.unsent = r, !.unacked = pcb.unacked, !.lbb = n, !.buf = b, !.queuelen = k]
    BY <1>2, <1>5, <1>8, Zenon
  <2>2. b \in 0 .. U16Max
    <3>1. s.len <= pcb.buf /\ pcb.buf \in Nat /\ U16Max \in Nat
      BY <1>5, <1>6, ConstantFacts DEF Accepts
    <3>2. pcb.buf + U16Max + 1 - s.len \in Nat
      BY <1>7, <3>1
    <3> QED
      BY <3>2, U16Facts
  <2>3. k \in Nat /\ n \in Nat
    BY <1>6, <1>7
  <2>4. r \in Seq(Segments)
    <3> HIDE DEF r
    <3>1. Lengthened(pcb.unsent, s, r)
      BY <1>6, <1>7, Linked DEF r
    <3>2. \A v \in Seq(Segments), f \in Segments : v \o <<f>> \in Seq(Segments)
      BY OneMore
    <3> QED
      BY <1>6, <1>7, <3>1, <3>2, Zenon DEF Lengthened
  <2> HIDE DEF b, k, n, r
  <2>5. /\ p \in Blocks /\ p.unsent = r /\ p.unacked = pcb.unacked
        /\ p.lbb = n /\ p.buf = b /\ p.queuelen = k
        /\ p.state = pcb.state /\ p.nxt = pcb.nxt /\ p.lastack = pcb.lastack
        /\ p.cwnd = pcb.cwnd /\ p.wnd = pcb.wnd /\ p.wl2 = pcb.wl2
        /\ p.timing = pcb.timing /\ p.input = pcb.input
    BY ONLY <1>4, <1>6, <2>1, <2>2, <2>3, <2>4 DEF Blocks
  <2> QED
    BY <2>5, Zenon DEF Written, r, n, b, k
<1>10. pcb.state # "LAST_ACK" /\ pcb.state # "CLOSED"
  BY <1>5 DEF Open
<1>11. Ready(p) /\ \A y \in Nat : MayHave(pcb, y) => MayHave(p, y)
  BY <1>3, <1>5, <1>7, <1>9, <1>10, WrittenReady
<1>12. /\ p.nxt = pcb.nxt /\ p.wnd = pcb.wnd /\ p.wl2 = pcb.wl2 /\ p.state = pcb.state
       /\ p.lbb = pcb.lbb + s.len
  BY <1>9, Zenon DEF Written
<1>13. pcb.lbb <= p.lbb
  BY <1>6, <1>7, <1>12
<1>14. call'.at = "output" /\ CallCurrent'
  BY <1>1 DEF CallCurrent
<1> QED
  BY <1>1, <1>3, <1>10, <1>11, <1>12, <1>13, <1>14, TaskStepKeeps
(***************************************************************************)
(* What holds of the connection while nothing preempts tcp_write.          *)
(***************************************************************************)

LEMMA Initially ==
  ASSUME Init
  PROVE  IInv
<1>1. /\ pcb = [ state |-> "ESTABLISHED", unsent |-> <<>>, unacked |-> <<>>,
                 lbb |-> 0, nxt |-> 0, lastack |-> 0, buf |-> SndBuf, queuelen |-> 0,
                 cwnd |-> 2 * Mss, wnd |-> Window, wl2 |-> 0,
                 memerr |-> FALSE, infr |-> FALSE, persist |-> FALSE,
                 timing |-> FALSE, nrtx |-> 0, input |-> FALSE ]
      /\ call = [at |-> "idle"] /\ wire = {} /\ acks = {}
      /\ client = [nxt |-> 0, edge |-> Window]
  BY Zenon DEF Init
<1>2. /\ SndBuf \in 0 .. U16Max /\ 2 * Mss \in Nat /\ Window \in Nat /\ Mss <= 2 * Mss
      /\ 0 \in 0 .. MaxRtx + 1 /\ MaxBytes \in Nat /\ SndQueueLen \in Nat
  <2>1. SndBuf \in Nat /\ SndBuf <= U16Max /\ U16Max \in Nat /\ MaxRtx \in Nat
    BY ConstantFacts, SenderAssumption
  <2> QED
    BY <2>1, ConstantFacts, SenderAssumption
<1> DEFINE c == 2 * Mss
           z == <<>>
<1>3. z \in Seq(Segments) /\ Len(z) = 0 /\ z \o z = z /\ c \in Nat /\ Mss <= c
  BY <1>2
<1>4. /\ pcb = [ state |-> "ESTABLISHED", unsent |-> z, unacked |-> z,
                 lbb |-> 0, nxt |-> 0, lastack |-> 0, buf |-> SndBuf, queuelen |-> 0,
                 cwnd |-> c, wnd |-> Window, wl2 |-> 0,
                 memerr |-> FALSE, infr |-> FALSE, persist |-> FALSE,
                 timing |-> FALSE, nrtx |-> 0, input |-> FALSE ]
  BY <1>1
<1> HIDE DEF z, c
<1>5. pcb \in Blocks
  BY ONLY <1>2, <1>3, <1>4 DEF Blocks
<1>6. /\ pcb.state = "ESTABLISHED" /\ pcb.unsent = z /\ pcb.unacked = z /\ pcb.lbb = 0
      /\ pcb.nxt = 0 /\ pcb.lastack = 0 /\ pcb.buf = SndBuf /\ pcb.queuelen = 0
      /\ pcb.cwnd = c /\ pcb.wnd = Window /\ pcb.wl2 = 0
  BY ONLY <1>4
<1>7. call.at = "idle" /\ client \in [nxt : Nat, edge : Nat] /\ client.nxt = 0 /\ client.edge = Window
  BY <1>1, <1>2
<1>8. Typed
  BY <1>1, <1>2, <1>5, <1>6, <1>7 DEF Typed
<1>9. OnlySent
  <2>1. client.nxt <= pcb.lbb /\ client.nxt <= pcb.nxt
    BY <1>6, <1>7
  <2> QED
    BY <1>1, <2>1 DEF OnlySent, MayHave
<1>10. EdgesAdvance
  BY <1>1, <1>2, <1>6, <1>7 DEF EdgesAdvance
<1>11. Sound(pcb)
  <2>1. Stream(pcb) = z
    BY <1>3, <1>6 DEF Stream
  <2>2. Chained(Stream(pcb))
    BY <1>3, <2>1 DEF Chained
  <2>3. Spans(pcb)
    BY <1>6, <2>1 DEF Spans, z
  <2>4. Sent(pcb)
    BY <1>3, <1>6 DEF Sent
  <2>5. Pbufs(pcb.unsent) = 0 /\ Pbufs(pcb.unacked) = 0
    BY <1>6, PbufsFew DEF z
  <2>6. Counted(pcb)
    <3>1. pcb.queuelen = Pbufs(pcb.unsent) + Pbufs(pcb.unacked) /\ pcb.queuelen <= SndQueueLen
      BY <1>2, <1>6, <2>5
    <3>2. /\ pcb.lbb - pcb.lastack <= SndBuf /\ pcb.buf = SndBuf - (pcb.lbb - pcb.lastack)
          /\ pcb.lbb <= MaxBytes /\ pcb.state # "LAST_ACK"
      BY <1>6, ConstantFacts
    <3> QED
      BY <3>1, <3>2, Zenon DEF Counted
  <2>7. Mss <= pcb.cwnd /\ pcb.unacked = <<>> /\ pcb.lastack <= pcb.wl2
    BY <1>3, <1>6 DEF z
  <2> QED
    BY <2>2, <2>3, <2>4, <2>6, <2>7, Zenon DEF Sound
<1>12. CallCurrent /\ ClosedWhenSentArrived
  BY <1>6, <1>7 DEF CallCurrent, ClosedWhenSentArrived
<1>13. SomethingIsDue
  BY <1>6 DEF SomethingIsDue, z
<1> QED
  BY <1>8, <1>9, <1>10, <1>11, <1>12, <1>13, Zenon DEF IInv

LEMMA Inductive ==
  ASSUME Unraced, IInv, [Next]_vars
  PROVE  IInv'
<1>1. CASE UNCHANGED vars
  <2>1. pcb' = pcb /\ call' = call /\ wire' = wire /\ acks' = acks /\ client' = client
    BY <1>1 DEF vars
  <2>2. /\ Typed /\ OnlySent /\ EdgesAdvance /\ (Alive => Sound(pcb) /\ CallCurrent)
        /\ SomethingIsDue /\ ClosedWhenSentArrived
    BY Zenon DEF IInv
  <2>3. Typed' /\ OnlySent' /\ EdgesAdvance'
    BY <2>1, <2>2, Zenon DEF Typed, OnlySent, EdgesAdvance
  <2>4. (Alive => Sound(pcb) /\ CallCurrent)'
    BY <2>1, <2>2, Zenon DEF Alive, CallCurrent, Open
  <2>5. SomethingIsDue' /\ ClosedWhenSentArrived'
    BY <2>1, <2>2, Zenon DEF SomethingIsDue, ClosedWhenSentArrived, Alive, Idle, Unraced
  <2> QED
    BY <2>3, <2>4, <2>5, Zenon DEF IInv
<1>2. CASE WriteRefused
  BY <1>2, RefusedStep
<1>3. ASSUME NEW n \in Lengths, WriteBegin(n) PROVE IInv'
  BY <1>3, BeginStep
<1>4. CASE WriteFind
  BY <1>4, FindStep
<1>5. CASE WriteLink
  BY <1>5, LinkStep
<1>6. CASE GiveUp
  BY <1>6, GiveUpStep
<1>7. CASE WriteOutput(FALSE)
  <2>1. /\ Alive /\ pcb' = Output(pcb) /\ Carries(Emitted(pcb), FALSE)
        /\ call' = [at |-> "idle"] /\ UNCHANGED <<acks, client>>
    BY <1>7, Zenon DEF WriteOutput
  <2>2. call'.at \in {"idle", "output"}
    BY <2>1
  <2> QED
    BY <2>1, <2>2, PollStep
<1>8. CASE Poll(FALSE)
  <2>1. /\ Alive /\ pcb' = Output(pcb) /\ Carries(Emitted(pcb), FALSE)
        /\ call.at \in {"idle", "output"} /\ UNCHANGED <<call, acks, client>>
    BY <1>8, Outside, Zenon DEF Poll, SlowTimer
  <2>2. call'.at \in {"idle", "output"}
    BY <2>1
  <2> QED
    BY <2>1, <2>2, PollStep
<1>9. CASE CallbackEnds(FALSE)
  BY <1>9, CallbackStep
<1>10. CASE Disconnect(FALSE)
  BY <1>10, DisconnectStep
<1>11. CASE Rto(FALSE)
  BY <1>11, RtoStep
<1>12. CASE Probe(FALSE)
  BY <1>12, ProbeStep
<1>13. CASE Opens(FALSE)
  BY <1>13, OpensStep
<1>14. ASSUME NEW a \in acks, NEW withData \in BOOLEAN, Receive(a, withData, FALSE) PROVE IInv'
  BY <1>14, ReceiveStep
<1>15. ASSUME NEW m \in wire, Arrive(m, FALSE) PROVE IInv'
  BY <1>15, ArriveStep
<1> QED
  BY <1>1, <1>2, <1>3, <1>4, <1>5, <1>6, <1>7, <1>8, <1>9, <1>10, <1>11, <1>12, <1>13, <1>14,
     <1>15, Zenon DEF Next, TaskStep, Losable

\* That the thread has run inside a tcp_write is never forgotten.
LEMMA RacedStays ==
  ASSUME raced, [Next]_vars
  PROVE  raced'
<1>1. CASE UNCHANGED vars
  BY <1>1 DEF vars
<1>2. CASE TaskStep
  BY <1>2, Zenon DEF TaskStep, WriteRefused, WriteBegin, WriteFind, WriteLink
<1>3. CASE GiveUp
  BY <1>3, Zenon DEF GiveUp, SlowTimer, ThreadRuns
<1>4. CASE Losable(FALSE)
  BY <1>4, Zenon DEF Losable, WriteOutput, CallbackEnds, Disconnect, Rto, Probe, Poll, Opens,
     Receive, Arrive, SlowTimer, ThreadRuns
<1> QED
  BY <1>1, <1>2, <1>3, <1>4, Zenon DEF Next

\* The strengthening that the theorems rest on: IInv holds for as long as the
\* thread has not run inside tcp_write.
LEMMA Invariant == Spec => [](~raced => IInv)
<1>1. Init => IInv
  BY Initially
<1>2. ASSUME ~raced => IInv, [Next]_vars PROVE (~raced => IInv)'
  <2> SUFFICES ASSUME ~raced' PROVE IInv'
    OBVIOUS
  <2>1. ~raced
    BY <1>2, RacedStays
  <2> QED
    BY <1>2, <2>1, Inductive DEF Unraced
<1> QED
  BY <1>1, <1>2, PTL DEF Spec

\* As long as the thread has not run inside tcp_write, what the control block
\* holds has its type: the counters (snd_queuelen, snd_buf) stay in their range,
\* and the client gets only what was written.
THEOREM TypeCorrect == Spec => []TypeOK
<1>1. (~raced => IInv) => TypeOK
  <2> SUFFICES ASSUME ~raced, IInv PROVE TypeOK
    BY Zenon DEF TypeOK
  <2>1. Typed /\ OnlySent /\ EdgesAdvance
    BY Zenon DEF IInv
  <2>2. /\ pcb \in Blocks /\ pcb.lastack <= pcb.nxt /\ pcb.nxt <= pcb.lbb
        /\ pcb.lbb <= MaxBytes + 1 /\ pcb.queuelen <= SndQueueLen
        /\ client.nxt <= pcb.lbb
    BY <2>1, Zenon DEF Typed, OnlySent
  <2>3. /\ client.nxt \in Nat /\ client.edge \in Nat /\ client.nxt <= client.edge
    BY <2>1, EdgeFacts
  <2>4. /\ pcb.unsent \in Seq(Segments) /\ pcb.unacked \in Seq(Segments)
        /\ pcb.lbb \in Nat /\ pcb.nxt \in Nat /\ pcb.lastack \in Nat /\ pcb.queuelen \in Nat
        /\ pcb.buf \in 0 .. U16Max
    BY <2>2, BlockFacts
  <2>5. /\ pcb.state \in {"ESTABLISHED", "CLOSE_WAIT", "LAST_ACK", "CLOSED", "ABORTED"}
        /\ pcb.nrtx \in 0 .. MaxRtx + 1
    BY <2>2 DEF Blocks
  <2>6. /\ pcb.lbb \in 0 .. MaxBytes + 1 /\ pcb.nxt \in 0 .. pcb.lbb
        /\ pcb.lastack \in 0 .. pcb.nxt /\ pcb.queuelen \in 0 .. SndQueueLen
        /\ client.nxt \in 0 .. pcb.lbb /\ client.edge >= client.nxt
    BY <2>2, <2>3, <2>4, ConstantFacts
  <2> QED
    BY <2>4, <2>5, <2>6, Zenon DEF TypeOK
<1> QED
  BY <1>1, Invariant, PTL

\* As long as the thread has not run inside tcp_write, and between two calls of
\* tcp_write, tcp_output and tcp_input: what waits for an acknowledgement is timed,
\* and what waits with nothing on its way waits for the client's window, for any
\* sizes of the buffers, segments and windows.
THEOREM NothingForgotten == Spec => []SomethingIsDue
<1>1. (~raced => IInv) => SomethingIsDue
  BY Zenon DEF IInv, SomethingIsDue
<1> QED
  BY <1>1, Invariant, PTL

\* As long as the thread has not run inside tcp_write, snd_queuelen is the number
\* of pbufs on the queues, and snd_buf what the bytes on them leave of
\* TCP_SND_BUF, also where a FIN wraps it around.  write_race shows it wrong after.
THEOREM CountersExact == Spec => []CountersAreExact
<1>1. (~raced => IInv) => CountersAreExact
  <2> SUFFICES ASSUME IInv, Alive
               PROVE  /\ pcb.queuelen = Pbufs(Queued)
                      /\ U16(pcb.buf + pcb.lbb - pcb.lastack) = SndBuf
    BY Zenon DEF CountersAreExact
  <2>1. Ready(pcb)
    BY AliveReady
  <2>2. pcb \in Blocks /\ Counted(pcb) /\ pcb.lastack <= pcb.nxt /\ pcb.nxt <= pcb.lbb
    BY <2>1, Zenon DEF Ready, Sound
  <2>3. /\ pcb.unsent \in Seq(Segments) /\ pcb.unacked \in Seq(Segments)
        /\ pcb.lbb \in Nat /\ pcb.nxt \in Nat /\ pcb.lastack \in Nat
    BY <2>2, BlockFacts
  <2>4. pcb.queuelen = Pbufs(pcb.unsent) + Pbufs(pcb.unacked)
    BY <2>2, Zenon DEF Counted
  <2>5. pcb.queuelen = Pbufs(Queued)
    BY <2>3, <2>4, PbufsParts DEF Queued
  <2> DEFINE waits == pcb.lbb - pcb.lastack
  <2>6. waits \in Nat /\ pcb.buf + pcb.lbb - pcb.lastack = pcb.buf + waits
    BY <2>2, <2>3
  <2>7. U16(SndBuf) = SndBuf
    BY ConstantFacts, U16Facts
  <2>8. CASE pcb.state = "LAST_ACK"
    <3> DEFINE n == SndBuf + U16Max + 1 - waits
    <3>1. waits <= SndBuf + 1 /\ pcb.buf = U16(n)
      BY <2>2, <2>8, Zenon DEF Counted
    <3>2. n \in Nat /\ n + waits = SndBuf + (U16Max + 1)
      BY <2>6, <3>1, ConstantFacts
    <3> HIDE DEF n, waits
    <3>3. U16(U16(n) + waits) = U16(n + waits)
      BY <2>6, <3>2, U16Facts
    <3>4. U16(SndBuf + (U16Max + 1)) = U16(SndBuf)
      BY ConstantFacts, U16Facts
    <3> QED
      BY ONLY <2>5, <2>6, <2>7, <3>1, <3>2, <3>3, <3>4
  <2>9. CASE pcb.state # "LAST_ACK"
    <3>1. waits <= SndBuf /\ pcb.buf = SndBuf - waits
      BY <2>2, <2>9, Zenon DEF Counted
    <3>2. pcb.buf + waits = SndBuf
      BY <2>6, <3>1, ConstantFacts
    <3> QED
      BY <2>5, <2>6, <2>7, <3>2
  <2> QED
    BY <2>8, <2>9
<1> QED
  BY <1>1, Invariant, PTL

HasByte(s, b) == s.seq <= b /\ b < End(s)

\* A byte of the stream is in one segment of it, and one that has not been
\* written in none.
LEMMA OneCovers ==
  ASSUME NEW p \in Blocks, Chained(Stream(p)), Spans(p), NEW b \in Nat, p.lastack <= b
  PROVE  /\ b < p.lbb => \E k \in 1 .. Len(Stream(p)) : HasByte(Stream(p)[k], b)
         /\ ~(b < p.lbb) => \A k \in 1 .. Len(Stream(p)) : ~HasByte(Stream(p)[k], b)
         /\ \A j, k \in 1 .. Len(Stream(p)) :
              HasByte(Stream(p)[j], b) /\ HasByte(Stream(p)[k], b) => j = k
<1> DEFINE q == Stream(p)
           n == Len(q)
           S == {k \in 1 .. n : q[k].seq <= b}
<1>1. q \in Seq(Segments) /\ p.lastack \in Nat /\ p.lbb \in Nat /\ n \in Nat
  BY BlockFacts, LenProperties
<1>2. \A k \in 1 .. n : q[k].seq \in Nat /\ End(q[k]) \in Nat
  BY <1>1, SegmentsOf
<1>3. \A i, j \in 1 .. n : i < j => End(q[i]) <= q[j].seq
  BY <1>1, ChainRises
<1>4. \A k \in 1 .. n : k < n => q[k + 1].seq = End(q[k])
  BY Zenon DEF Chained
<1>5. \A k \in 1 .. n : End(q[k]) <= p.lbb
  BY StreamSpans
<1>6. IF q = <<>> THEN p.lastack = p.lbb
      ELSE q[1].seq <= p.lastack /\ End(q[n]) = p.lbb
  BY Zenon DEF Spans
<1>7. q # <<>> => 1 \in 1 .. n
  BY <1>1, EmptySeq
<1> HIDE DEF q, n
<1>8. ASSUME b < p.lbb PROVE \E k \in 1 .. n : q[k].seq <= b /\ b < End(q[k])
  <2>1. q # <<>>
    BY <1>1, <1>6, <1>8
  <2>2. 1 \in S
    BY <1>1, <1>2, <1>6, <1>7, <2>1
  <2>3. S \in SUBSET (0 .. n) /\ S # {}
    BY <1>1, <2>2
  <2> HIDE DEF S
  <2>4. Max(S) \in S /\ \A y \in S : y <= Max(S)
    BY <1>1, <2>3, Greatest
  <2>5. PICK k : k = Max(S)
    OBVIOUS
  <2>6. k \in S /\ \A y \in S : y <= k
    BY <2>4, <2>5, Zenon
  <2>7. k \in 1 .. n /\ q[k].seq <= b
    BY <2>6 DEF S
  <2>8. CASE k = n
    <3>1. End(q[k]) = p.lbb
      BY <1>6, <2>1, <2>8
    <3> QED
      BY <1>8, <2>7, <3>1
  <2>9. CASE k # n
    <3>1. k < n /\ k + 1 \in 1 .. n
      BY <1>1, <2>7, <2>9
    <3>2. ~(q[k + 1].seq <= b)
      <4>1. k + 1 \notin S
        BY <1>1, <2>6, <2>7
      <4> QED
        BY <3>1, <4>1 DEF S
    <3>3. q[k + 1].seq = End(q[k]) /\ End(q[k]) \in Nat
      BY <1>2, <1>4, <2>7, <3>1
    <3> QED
      BY <2>7, <3>2, <3>3
  <2> QED
    BY <2>8, <2>9
<1>9. ASSUME ~(b < p.lbb) PROVE \A k \in 1 .. n : ~(b < End(q[k]))
  BY <1>1, <1>2, <1>5, <1>9
<1>10. ASSUME NEW j \in 1 .. n, NEW k \in 1 .. n,
              q[j].seq <= b, b < End(q[j]), q[k].seq <= b, b < End(q[k])
       PROVE  j = k
  <2>1. ~(j < k)
    BY <1>2, <1>3, <1>10
  <2>2. ~(k < j)
    BY <1>2, <1>3, <1>10
  <2> QED
    BY <1>1, <2>1, <2>2
<1> QED
  BY <1>8, <1>9, <1>10, Zenon DEF q, n, HasByte

Having(q, b) == {i \in 1 .. Len(q) : HasByte(q[i], b)}

LEMMA NoneHas ==
  ASSUME NEW q, NEW b, \A i \in 1 .. Len(q) : ~HasByte(q[i], b)
  PROVE  Cardinality(Having(q, b)) = 0
<1>1. Having(q, b) = {}
  BY DEF Having
<1> QED
  BY <1>1, FS_EmptySet

LEMMA OneHas ==
  ASSUME NEW q, NEW b, NEW k \in 1 .. Len(q), HasByte(q[k], b),
         \A i \in 1 .. Len(q) : HasByte(q[i], b) => i = k
  PROVE  Cardinality(Having(q, b)) = 1
<1>1. Having(q, b) = {k}
  BY DEF Having
<1> QED
  BY <1>1, FS_Singleton

\* As long as the thread has not run inside tcp_write, and however often segments
\* went back to unsent to be sent again, the two queues of the control block together hold each byte that tcp_write has taken and
\* the client has not acknowledged in exactly one segment.
THEOREM StreamCovered == Spec => []QueuesCoverTheStream
<1>1. (~raced => IInv) => QueuesCoverTheStream
  <2> SUFFICES ASSUME IInv, Alive, NEW b \in pcb.lastack .. MaxBytes
               PROVE  Cardinality({i \in 1 .. Len(Queued) :
                                     Queued[i].seq <= b /\ b < End(Queued[i])})
                        = IF b < pcb.lbb THEN 1 ELSE 0
    BY Zenon DEF QueuesCoverTheStream
  <2>1. Ready(pcb)
    BY AliveReady
  <2>2. pcb \in Blocks /\ Chained(Stream(pcb)) /\ Spans(pcb)
    BY <2>1, Zenon DEF Ready, Sound
  <2> DEFINE a == pcb.unacked
             u == pcb.unsent
             q == Queued
             s == Stream(pcb)
             m == Len(a)
             n == Len(u)
  <2>3. a \in Seq(Segments) /\ u \in Seq(Segments) /\ pcb.lastack \in Nat
    BY <2>2, BlockFacts
  <2>4. b \in Nat /\ pcb.lastack <= b
    BY <2>3, ConstantFacts
  <2>5. /\ m \in Nat /\ n \in Nat /\ Len(q) = n + m
        /\ \A i \in 1 .. n + m : q[i] = IF i <= n THEN u[i] ELSE a[i - n]
    BY <2>3, LenProperties, ConcatProperties DEF Queued
  <2>6. /\ Len(s) = m + n
        /\ \A i \in 1 .. m : s[i] = a[i]
        /\ \A i \in 1 .. n : s[m + i] = u[i]
    BY <2>2, StreamPlaces
  <2>7. /\ b < pcb.lbb => \E k \in 1 .. Len(s) : HasByte(s[k], b)
        /\ ~(b < pcb.lbb) => \A k \in 1 .. Len(s) : ~HasByte(s[k], b)
        /\ \A j, k \in 1 .. Len(s) : HasByte(s[j], b) /\ HasByte(s[k], b) => j = k
    BY <2>2, <2>4, OneCovers
  <2> DEFINE There(i) == IF i <= n THEN m + i ELSE i - n
             Back(k) == IF k <= m THEN n + k ELSE k - m
  <2> HIDE DEF a, u, q, s, m, n
  <2>8. \A i \in 1 .. n + m : There(i) \in 1 .. m + n /\ q[i] = s[There(i)]
    <3> SUFFICES ASSUME NEW i \in 1 .. n + m
                 PROVE  There(i) \in 1 .. m + n /\ q[i] = s[There(i)]
      OBVIOUS
    <3>1. CASE i <= n
      <4>1. i \in 1 .. n /\ There(i) = m + i /\ m + i \in 1 .. m + n
        BY <2>5, <3>1
      <4> QED
        BY <2>5, <2>6, <3>1, <4>1
    <3>2. CASE ~(i <= n)
      <4>1. i - n \in 1 .. m /\ There(i) = i - n /\ i - n \in 1 .. m + n
        BY <2>5, <3>2
      <4> QED
        BY <2>5, <2>6, <3>2, <4>1
    <3> QED
      BY <3>1, <3>2
  <2>9. \A k \in 1 .. m + n : Back(k) \in 1 .. n + m /\ q[Back(k)] = s[k]
    <3> SUFFICES ASSUME NEW k \in 1 .. m + n
                 PROVE  Back(k) \in 1 .. n + m /\ q[Back(k)] = s[k]
      OBVIOUS
    <3>1. Back(k) \in 1 .. n + m /\ There(Back(k)) = k
      BY <2>5
    <3> QED
      BY <2>8, <3>1
  <2>10. \A i, j \in 1 .. n + m : There(i) = There(j) => i = j
    BY <2>5
  <2> HIDE DEF There, Back
  <2>11. ASSUME NEW i \in 1 .. n + m, NEW j \in 1 .. n + m, HasByte(q[i], b), HasByte(q[j], b)
         PROVE  i = j
    <3>1. There(i) \in 1 .. Len(s) /\ There(j) \in 1 .. Len(s)
      BY <2>6, <2>8
    <3>2. HasByte(s[There(i)], b) /\ HasByte(s[There(j)], b)
      BY <2>8, <2>11, Zenon
    <3>3. There(i) = There(j)
      BY <2>7, <3>1, <3>2, Zenon
    <3> QED
      BY <2>10, <3>3, Zenon
  <2>12. Cardinality(Having(q, b)) = IF b < pcb.lbb THEN 1 ELSE 0
    <3>1. CASE b < pcb.lbb
      <4>1. PICK k \in 1 .. m + n : HasByte(s[k], b)
        BY <2>6, <2>7, <3>1, Zenon
      <4>2. PICK i \in 1 .. Len(q) : HasByte(q[i], b)
        BY <2>5, <2>9, <4>1, Zenon
      <4>3. Cardinality(Having(q, b)) = 1
        BY <2>5, <2>11, <4>2, OneHas, Zenon
      <4> QED
        BY <3>1, <4>3
    <3>2. CASE ~(b < pcb.lbb)
      <4>1. \A k \in 1 .. m + n : ~HasByte(s[k], b)
        BY <2>6, <2>7, <3>2, Zenon
      <4>2. \A i \in 1 .. Len(q) : ~HasByte(q[i], b)
        BY <2>5, <2>8, <4>1, Zenon
      <4> QED
        BY <3>2, <4>2, NoneHas
    <3> QED
      BY <3>1, <3>2
  <2>13. Having(q, b) = {i \in 1 .. Len(Queued) : Queued[i].seq <= b /\ b < End(Queued[i])}
    BY Zenon DEF Having, HasByte, q
  <2> QED
    BY <2>12, <2>13
<1> QED
  BY <1>1, Invariant, PTL

-----------------------------------------------------------------------------
(* Whether or not the thread preempts tcp_write.                           *)

\* A block that has queues is all that the lemmas from here on ask of a block:
\* what is sent and what is not are queues again.
LEMMA EmittedIsQueue ==
  ASSUME NEW p, HasQueues(p)
  PROVE  Emitted(p) \in Seq(Segments) /\ After(p.unsent, Len(Emitted(p))) \in Seq(Segments)
<1> DEFINE S == {i \in 1 .. Len(p.unsent) : /\ Fits(p, p.unsent[i], Min({p.wnd, p.cwnd}))
                                            /\ NagleAllows(p, i)}
           n == Leading(S)
<1>1. p.unsent \in Seq(Segments) /\ Len(p.unsent) \in Nat
  BY SegmentsOf, Zenon DEF HasQueues
<1>2. n \in 0 .. Len(p.unsent)
  <2>1. S \in SUBSET (1 .. Len(p.unsent))
    OBVIOUS
  <2> HIDE DEF S
  <2> QED
    BY <1>1, <2>1, LeadingRun
<1>3. Emitted(p) = IF p.input THEN <<>> ELSE SubSeq(p.unsent, 1, n)
  BY Zenon DEF Emitted
<1> HIDE DEF n
<1>4. CASE p.input
  <2>1. Emitted(p) = <<>> /\ Len(Emitted(p)) = 0 /\ Emitted(p) \in Seq(Segments)
    BY <1>3, <1>4
  <2>2. 0 \in 0 .. Len(p.unsent)
    BY <1>1
  <2> QED
    BY <1>1, <2>1, <2>2, Parts
<1>5. CASE ~p.input
  <2>1. Emitted(p) = SubSeq(p.unsent, 1, n)
    BY <1>3, <1>5
  <2> QED
    BY <1>1, <1>2, <2>1, Parts
<1> QED
  BY <1>4, <1>5

LEMMA InsertsAreQueue ==
  ASSUME NEW q \in Seq(Segments), NEW r \in Seq(Segments)
  PROVE  FoldLeft(Insert, q, r) \in Seq(Segments)
<1>1. PICK f : Insertions(f, q, r) /\ FoldLeft(Insert, q, r) = f[Len(r)]
  BY FoldInserts
<1>2. Len(r) \in 0 .. Len(r)
  BY LenProperties
<1> QED
  BY <1>1, <1>2 DEF Insertions

\* tcp_output leaves a block with queues, of the same connection.
LEMMA OutputKeeps ==
  ASSUME NEW p, HasQueues(p)
  PROVE  HasQueues(Output(p)) /\ Output(p).state = p.state
<1>1. PICK sent : sent = Emitted(p)
  OBVIOUS
<1>2. PICK rest : rest = After(p.unsent, Len(sent))
  OBVIOUS
<1>3. PICK u : u = FoldLeft(Insert, p.unacked, sent)
  OBVIOUS
<1>4. p.unacked \in Seq(Segments)
  BY Zenon DEF HasQueues
<1>5. rest \in Seq(Segments) /\ u \in Seq(Segments)
  BY <1>1, <1>2, <1>3, <1>4, EmittedIsQueue, InsertsAreQueue
<1>6. PICK x, t, z : Output(p) = IF p.input THEN p ELSE
        [p EXCEPT !.unsent = rest, !.unacked = u, !.nxt = x, !.timing = t, !.persist = z,
                  !.memerr = FALSE]
  BY <1>1, <1>2, <1>3 DEF Output
<1>7. CASE p.input
  BY <1>6, <1>7
<1>8. CASE ~p.input
  <2>1. Output(p) = [p EXCEPT !.unsent = rest, !.unacked = u, !.nxt = x, !.timing = t,
                              !.persist = z, !.memerr = FALSE]
    BY <1>6, <1>8
  <2> QED
    BY ONLY <1>5, <2>1, HasQueues(p) DEF HasQueues
<1> QED
  BY <1>7, <1>8

\* What is on its way is what was, or one of the segments that were sent.
LEMMA CarriesSegments ==
  ASSUME NEW sent \in Seq(Segments), NEW keep \in BOOLEAN, Carries(sent, keep),
         wire \subseteq [seq : Nat, len : 0 .. Mss, fin : BOOLEAN]
  PROVE  wire' \subseteq [seq : Nat, len : 0 .. Mss, fin : BOOLEAN]
<1> DEFINE packet(s) == [seq |-> s.seq, len |-> s.len, fin |-> s.fin]
           Msgs == [seq : Nat, len : 0 .. Mss, fin : BOOLEAN]
<1>1. ASSUME NEW s \in ToSet(sent) PROVE packet(s) \in Msgs
  <2>1. PICK i \in 1 .. Len(sent) : s = sent[i]
    BY LenProperties DEF ToSet
  <2>2. s \in Segments
    BY <2>1, SegmentsOf
  <2> QED
    BY <2>2 DEF Segments
<1>2. wire' \subseteq wire \cup {packet(s) : s \in ToSet(sent)}
  BY Zenon DEF Carries
<1> HIDE DEF packet, Msgs
<1>3. wire \subseteq Msgs
  BY DEF Msgs
<1>4. \A m \in wire' : m \in Msgs
  BY <1>1, <1>2, <1>3, Zenon
<1> QED
  BY <1>4, Zenon DEF Msgs

\* A segment is linked to a queue, wherever its end was taken to be.
LEMMA LinkKeeps ==
  ASSUME NEW q \in Seq(Segments), NEW s \in Segments
  PROVE  Link(q, s) \in Seq(Segments)
<1> DEFINE r == Link(q, s)
<1>1. Lengthened(q, s, r)
  BY Linked
<1> HIDE DEF r
<1>2. q \o <<s>> \in Seq(Segments)
  <2>1. <<s>> \in Seq(Segments)
    OBVIOUS
  <2> QED
    BY <2>1, ConcatProperties
<1>3. ASSUME NEW v \in Seq(Segments), NEW f \in Segments, r = v \o <<f>>
      PROVE  r \in Seq(Segments)
  <2>1. <<f>> \in Seq(Segments)
    OBVIOUS
  <2> QED
    BY <1>3, <2>1, ConcatProperties
<1>4. r \in Seq(Segments)
  BY <1>1, <1>2, <1>3, Zenon DEF Lengthened
<1> QED
  BY <1>4 DEF r

LEMMA LinkBehindKeeps ==
  ASSUME NEW q \in Seq(Segments), NEW s \in Segments, NEW seq
  PROVE  LinkBehind(q, seq, s) \in Seq(Segments)
<1> DEFINE found == {i \in 1 .. Len(q) : q[i].seq = seq}
<1>1. CASE found = {}
  BY <1>1 DEF LinkBehind
<1>2. CASE found # {}
  <2>1. Len(q) \in Nat /\ found \in SUBSET (0 .. Len(q))
    BY SegmentsOf
  <2>2. Max(found) \in found
    <3> HIDE DEF found
    <3> QED
      BY <1>2, <2>1, Greatest
  <2>3. Max(found) \in 0 .. Len(q)
    BY <2>1, <2>2
  <2>4. LinkBehind(q, seq, s) = Link(SubSeq(q, 1, Max(found)), s)
    BY <1>2 DEF LinkBehind
  <2> HIDE DEF found
  <2> QED
    BY <2>3, <2>4, Parts, LinkKeeps
<1> QED
  BY <1>1, <1>2

\* What tcp_receive makes of a block is a block of the same connection.
Same(r, p) == HasQueues(r) /\ r.state = p.state /\ r.nxt = p.nxt

LEMMA AnnouncedSame ==
  ASSUME NEW p, NEW a, HasQueues(p)
  PROVE  Same(Announced(p, a), p)
<1>1. PICK x, y, z : Announced(p, a) = p \/ Announced(p, a) = [p EXCEPT !.wnd = x, !.wl2 = y, !.persist = z]
  BY DEF Announced
<1> QED
  BY <1>1 DEF Same, HasQueues

LEMMA AckedSame ==
  ASSUME NEW p, NEW q, NEW ack \in Nat, Same(q, p), NEW c
  PROVE  Same([Acked(q, ack) EXCEPT !.cwnd = c], p)
<1>1. PICK left : left = After(q.unacked, Arrived(q.unacked, ack))
  OBVIOUS
<1>2. left \in Seq(Segments)
  <2>1. q.unacked \in Seq(Segments)
    BY Zenon DEF Same, HasQueues
  <2> QED
    BY <1>1, <2>1, ArrivedRun, Parts
<1>3. PICK b, t, n : Acked(q, ack) = [q EXCEPT !.infr = FALSE, !.nrtx = 0, !.buf = b, !.lastack = ack,
                                      !.unacked = left, !.timing = t, !.queuelen = n]
  BY <1>1 DEF Acked
<1> QED
  BY ONLY <1>2, <1>3, Same(q, p) DEF Same, HasQueues

LEMMA RexmitSame ==
  ASSUME NEW p, NEW q, Same(q, p), q.unacked # <<>>, NEW c
  PROVE  Same([Rexmit(q) EXCEPT !.cwnd = c], p)
<1>1. q.unacked \in Seq(Segments) /\ q.unsent \in Seq(Segments)
  BY Zenon DEF Same, HasQueues
<1>2. Head(q.unacked) \in Segments /\ Tail(q.unacked) \in Seq(Segments)
  BY <1>1, HeadTailProperties
<1>3. PICK u, t : u = Insert(q.unsent, Head(q.unacked)) /\ t = Tail(q.unacked)
  OBVIOUS
<1>4. u \in Seq(Segments) /\ t \in Seq(Segments)
  BY <1>1, <1>2, <1>3, InsertIsQueue
<1>5. PICK n : Rexmit(q) = [q EXCEPT !.unacked = t, !.unsent = u, !.nrtx = n, !.infr = TRUE]
  BY <1>3 DEF Rexmit
<1> QED
  BY ONLY <1>4, <1>5, Same(q, p) DEF Same, HasQueues

LEMMA AckedUnsentSame ==
  ASSUME NEW p, NEW q, NEW ack \in Nat, Same(q, p), NEW w
  PROVE  Same([AckedUnsent(q, ack) EXCEPT !.input = w], p)
<1>1. PICK left : left = After(q.unsent, Arrived(q.unsent, ack))
  OBVIOUS
<1>2. left \in Seq(Segments)
  <2>1. q.unsent \in Seq(Segments)
    BY Zenon DEF Same, HasQueues
  <2> QED
    BY <1>1, <2>1, ArrivedRun, Parts
<1>3. PICK n : \/ AckedUnsent(q, ack) = q
               \/ AckedUnsent(q, ack) = [q EXCEPT !.unsent = left, !.queuelen = n]
  BY <1>1 DEF AckedUnsent
<1> QED
  BY ONLY <1>2, <1>3, Same(q, p) DEF Same, HasQueues

LEMMA ReceivedSame ==
  ASSUME NEW p, HasQueues(p), NEW a, a.ack \in Nat, NEW withData, NEW r \in Received(p, a, withData)
  PROVE  Same(r, p)
<1> DEFINE q == Announced(p, a)
<1>1. Same(q, p)
  BY AnnouncedSame
<1>2. PICK d : /\ r = [AckedUnsent(d, a.ack) EXCEPT !.input = withData]
               /\ \/ d = q
                  \/ \E c : d = [Acked(q, a.ack) EXCEPT !.cwnd = c]
                  \/ p.unacked # <<>> /\ \E c : d = [Rexmit(q) EXCEPT !.cwnd = c]
  BY DEF Received
<1>3. q.unacked = p.unacked
  BY DEF Announced, HasQueues
<1> HIDE DEF q
<1>4. ASSUME NEW c, d = [Acked(q, a.ack) EXCEPT !.cwnd = c] PROVE Same(d, p)
  <2>1. Same([Acked(q, a.ack) EXCEPT !.cwnd = c], p)
    BY <1>1, AckedSame
  <2> QED
    BY ONLY <1>4, <2>1
<1>5. ASSUME NEW c, p.unacked # <<>>, d = [Rexmit(q) EXCEPT !.cwnd = c] PROVE Same(d, p)
  <2>1. q.unacked # <<>>
    BY ONLY <1>3, <1>5
  <2>2. Same([Rexmit(q) EXCEPT !.cwnd = c], p)
    BY <1>1, <2>1, RexmitSame
  <2> QED
    BY ONLY <1>5, <2>2
<1>6. Same(d, p)
  <2>1. CASE d = q
    BY <1>1, <2>1
  <2> QED
    BY <1>2, <1>4, <1>5, <2>1, Zenon
<1> QED
  BY <1>2, <1>6, AckedUnsentSame

\* A step of the gateway leaves NetInv true if it leaves a block with queues
\* and the network typed.
Steady ==
  /\ call'.at \in {"idle", "counted", "found", "output"}
  /\ call'.at \in {"counted", "found"} => call'.seg \in Segments
  /\ acks' \subseteq acks /\ client' = client

LEMMA GatewayKeeps ==
  ASSUME NetInv, Steady, HasQueues(pcb'),
         pcb'.state = "CLOSED" => pcb'.nxt \in Nat /\ pcb'.nxt <= client.nxt,
         wire' \subseteq [seq : Nat, len : 0 .. Mss, fin : BOOLEAN]
  PROVE  NetInv'
BY Zenon DEF NetInv, Steady, HasQueues

LEMMA SendingKeeps ==
  ASSUME NetInv, Steady, NEW p, HasQueues(p), p.state # "CLOSED",
         pcb' = Output(p), NEW keep \in BOOLEAN, Carries(Emitted(p), keep)
  PROVE  NetInv'
<1>1. HasQueues(pcb') /\ pcb'.state # "CLOSED"
  BY OutputKeeps
<1>2. wire' \subseteq [seq : Nat, len : 0 .. Mss, fin : BOOLEAN]
  <2>1. wire \subseteq [seq : Nat, len : 0 .. Mss, fin : BOOLEAN]
    BY Zenon DEF NetInv
  <2> QED
    BY <2>1, EmittedIsQueue, CarriesSegments
<1> QED
  BY <1>1, <1>2, GatewayKeeps

LEMMA QuietKeeps ==
  ASSUME NetInv, Steady, HasQueues(pcb'), wire' = wire, pcb'.state # "CLOSED"
  PROVE  NetInv'
<1>1. wire' \subseteq [seq : Nat, len : 0 .. Mss, fin : BOOLEAN]
  BY Zenon DEF NetInv
<1> QED
  BY <1>1, GatewayKeeps

LEMMA SameCall ==
  ASSUME NetInv, UNCHANGED <<call, client>>, acks' \subseteq acks
  PROVE  Steady
BY DEF NetInv, Steady

\* The task.
LEMMA TaskNet ==
  ASSUME NetInv, TaskStep
  PROVE  NetInv'
<1>1. call.at \in {"counted", "found"} => call.seg \in Segments
  BY Zenon DEF NetInv
<1>0. HasQueues(pcb)
  BY Zenon DEF NetInv
<1>2. CASE WriteRefused
  <2>1. /\ pcb' = [pcb EXCEPT !.memerr = TRUE] /\ call' = [at |-> "output"]
        /\ UNCHANGED <<wire, acks, client>> /\ pcb.state # "CLOSED"
    BY <1>2 DEF WriteRefused, Open
  <2>2. Steady
    BY <2>1 DEF Steady
  <2>3. HasQueues(pcb') /\ pcb'.state # "CLOSED"
    BY ONLY <1>0, <2>1 DEF HasQueues
  <2> QED
    BY <2>1, <2>2, <2>3, QuietKeeps
<1>3. ASSUME NEW n \in Lengths, WriteBegin(n) PROVE NetInv'
  <2>1. /\ call' = [at |-> "counted", queuelen |-> pcb.queuelen,
                    seg |-> [seq |-> pcb.lbb, len |-> n, fin |-> FALSE, bufs |-> 1]]
        /\ UNCHANGED <<pcb, wire, acks, client>> /\ pcb.state # "CLOSED"
    BY <1>3 DEF WriteBegin, Open
  <2>2. [seq |-> pcb.lbb, len |-> n, fin |-> FALSE, bufs |-> 1] \in Segments
    <3>1. n \in 0 .. Mss /\ pcb.lbb \in Nat
      BY <1>0, ConstantFacts DEF HasQueues
    <3> QED
      BY <3>1 DEF Segments
  <2>3. Steady
    BY <2>1, <2>2 DEF Steady
  <2> QED
    BY <1>0, <2>1, <2>3, QuietKeeps
<1>4. CASE WriteFind
  <2>1. /\ call'.at = "found" /\ call'.seg = call.seg /\ call.at = "counted"
        /\ UNCHANGED <<pcb, wire, acks, client>> /\ pcb.state # "CLOSED"
    BY <1>4 DEF WriteFind, Alive
  <2>2. Steady
    BY <1>1, <2>1 DEF Steady
  <2> QED
    BY <1>0, <2>1, <2>2, QuietKeeps
<1>5. CASE WriteLink
  <2>1. /\ call.at = "found" /\ pcb.state # "CLOSED" /\ call' = [at |-> "output"]
        /\ UNCHANGED <<wire, acks, client>>
    BY <1>5 DEF WriteLink, Alive
  <2>2. PICK s : s = call.seg
    OBVIOUS
  <2>3. s \in Segments /\ s.len \in Nat
    <3>1. s \in Segments
      BY <1>1, <2>1, <2>2
    <3> QED
      BY <3>1, ConstantFacts DEF Segments
  <2>8. PICK b, n : b = U16(pcb.buf + U16Max + 1 - s.len) /\ n = call.queuelen + 1
    OBVIOUS
  <2>4. PICK unsent, unacked :
          /\ pcb' = [pcb EXCEPT !.unsent = unsent, !.unacked = unacked,
                                !.lbb = @ + s.len, !.buf = b, !.queuelen = n]
          /\ unsent \in IF call.last = {} THEN {<<s>>}
                         ELSE UNION {{LinkBehind(pcb.unsent, seq, s)} : seq \in call.last}
          /\ unacked \in IF call.last = {} THEN {pcb.unacked}
                          ELSE UNION {{LinkBehind(pcb.unacked, seq, s)} : seq \in call.last}
    BY ONLY <1>5, <2>2, <2>8 DEF WriteLink
  <2>5. unsent \in Seq(Segments) /\ unacked \in Seq(Segments)
    <3>1. pcb.unsent \in Seq(Segments) /\ pcb.unacked \in Seq(Segments) /\ <<s>> \in Seq(Segments)
      BY <1>0, <2>3 DEF HasQueues
    <3>2. \A seq : /\ LinkBehind(pcb.unsent, seq, s) \in Seq(Segments)
                   /\ LinkBehind(pcb.unacked, seq, s) \in Seq(Segments)
      BY <2>3, <3>1, LinkBehindKeeps
    <3>3. CASE call.last = {}
      BY <2>4, <3>1, <3>3
    <3>4. CASE call.last # {}
      BY <2>4, <3>2, <3>4, Zenon
    <3> QED
      BY <3>3, <3>4
  <2>6. HasQueues(pcb') /\ pcb'.state # "CLOSED"
    <3>1. pcb' = [pcb EXCEPT !.unsent = unsent, !.unacked = unacked,
                             !.lbb = @ + s.len, !.buf = b, !.queuelen = n]
      BY <2>4
    <3> QED
      BY ONLY <1>0, <2>1, <2>3, <2>5, <3>1 DEF HasQueues
  <2>7. Steady
    BY <2>1 DEF Steady
  <2> QED
    BY <2>1, <2>6, <2>7, QuietKeeps
<1> QED
  BY <1>2, <1>3, <1>4, <1>5 DEF TaskStep

\* The TCP/IP thread.
LEMMA ReceiveNet ==
  ASSUME NetInv, NEW a \in acks, NEW withData \in BOOLEAN, NEW keep \in BOOLEAN,
         Receive(a, withData, keep)
  PROVE  NetInv'
<1>1. /\ pcb.state # "CLOSED" /\ UNCHANGED <<call, client>> /\ acks' \subseteq acks
  BY DEF Receive, ThreadRuns, Alive
<1>2. PICK r \in Received(pcb, a, withData) :
        IF Over(r, a) THEN pcb' = Free(r, "CLOSED") /\ UNCHANGED wire
        ELSE pcb' = Output(r) /\ Carries(Emitted(r), keep)
  BY Zenon DEF Receive
<1>3. /\ HasQueues(pcb) /\ a.ack \in Nat /\ a.ack <= client.nxt
      /\ wire \subseteq [seq : Nat, len : 0 .. Mss, fin : BOOLEAN]
  BY Zenon DEF NetInv
<1>4. Same(r, pcb)
  BY <1>2, <1>3, ReceivedSame
<1>5. HasQueues(r) /\ r.state # "CLOSED"
  BY <1>1, <1>4, Zenon DEF Same
<1>6. Steady
  BY <1>1, SameCall
<1>7. CASE Over(r, a)
  <2>1. pcb' = Free(r, "CLOSED") /\ wire' = wire
    BY <1>2, <1>7
  <2>2. HasQueues(pcb') /\ pcb'.nxt = r.nxt
    BY ONLY <1>5, <2>1 DEF Free, HasQueues
  <2>3. a.ack = r.nxt
    BY <1>7 DEF Over
  <2>4. pcb'.nxt \in Nat /\ pcb'.nxt <= client.nxt
    BY <1>3, <2>2, <2>3
  <2> QED
    BY <1>3, <1>6, <2>1, <2>2, <2>4, GatewayKeeps
<1>8. CASE ~Over(r, a)
  BY <1>2, <1>5, <1>6, <1>8, SendingKeeps
<1> QED
  BY <1>7, <1>8

LEMMA CallbackNet ==
  ASSUME NetInv, NEW keep \in BOOLEAN, CallbackEnds(keep)
  PROVE  NetInv'
<1> DEFINE p == [pcb EXCEPT !.input = FALSE]
<1>1. /\ pcb.state # "CLOSED" /\ UNCHANGED <<call, acks, client>>
      /\ pcb' \in OutputOrAck(p) /\ Carries(Emitted(p), keep)
  BY DEF CallbackEnds, ThreadRuns, Alive
<1>2. HasQueues(pcb)
  BY Zenon DEF NetInv
<1>3. HasQueues(p) /\ p.state # "CLOSED"
  BY ONLY <1>1, <1>2 DEF HasQueues
<1> HIDE DEF p
<1>4. Steady
  BY <1>1, SameCall
<1>5. pcb' = Output(p) \/ pcb' = p
  BY <1>1 DEF OutputOrAck
<1>6. CASE pcb' = Output(p)
  BY <1>1, <1>3, <1>4, <1>6, SendingKeeps
<1>7. CASE pcb' = p
  <2>1. wire' \subseteq [seq : Nat, len : 0 .. Mss, fin : BOOLEAN]
    <3>1. wire \subseteq [seq : Nat, len : 0 .. Mss, fin : BOOLEAN]
      BY Zenon DEF NetInv
    <3> QED
      BY <1>1, <1>3, <3>1, EmittedIsQueue, CarriesSegments
  <2> QED
    BY <1>3, <1>4, <1>7, <2>1, GatewayKeeps
<1> QED
  BY <1>5, <1>6, <1>7

LEMMA DisconnectNet ==
  ASSUME NetInv, NEW keep \in BOOLEAN, Disconnect(keep)
  PROVE  NetInv'
<1>1. PICK fin : fin = [seq |-> pcb.lbb, len |-> 0, fin |-> TRUE, bufs |-> 1]
  OBVIOUS
<1>2. PICK u : u = Link(pcb.unsent, fin)
  OBVIOUS
<1>3. HasQueues(pcb)
  BY Zenon DEF NetInv
<1>4. u \in Seq(Segments)
  <2>1. pcb.lbb \in Nat /\ pcb.unsent \in Seq(Segments) /\ 0 \in 0 .. Mss
    BY <1>3, ConstantFacts DEF HasQueues
  <2>2. fin \in Segments
    BY <1>1, <2>1 DEF Segments
  <2> QED
    BY <1>2, <2>1, <2>2, LinkKeeps
<1>5. PICK p, b, n :
        /\ \/ p = [pcb EXCEPT !.state = "CLOSE_WAIT", !.memerr = TRUE]
           \/ p = [pcb EXCEPT !.state = "LAST_ACK", !.unsent = u, !.lbb = @ + 1, !.buf = b,
                              !.queuelen = n]
        /\ pcb' = Output(p) /\ Carries(Emitted(p), keep)
  BY <1>1, <1>2 DEF Disconnect
<1>6. HasQueues(p) /\ p.state # "CLOSED"
  <2>1. CASE p = [pcb EXCEPT !.state = "CLOSE_WAIT", !.memerr = TRUE]
    BY ONLY <1>3, <2>1 DEF HasQueues
  <2>2. CASE p = [pcb EXCEPT !.state = "LAST_ACK", !.unsent = u, !.lbb = @ + 1, !.buf = b,
                             !.queuelen = n]
    BY ONLY <1>3, <1>4, <2>2 DEF HasQueues
  <2> QED
    BY <1>5, <2>1, <2>2
<1>7. Steady
  BY SameCall DEF Disconnect
<1> QED
  BY <1>5, <1>6, <1>7, SendingKeeps

\* tcp_output for a connection that is in use.
LEMMA PollNet ==
  ASSUME NetInv, Steady, Alive, NEW keep \in BOOLEAN, pcb' = Output(pcb), Carries(Emitted(pcb), keep)
  PROVE  NetInv'
<1>1. HasQueues(pcb)
  BY Zenon DEF NetInv
<1>2. pcb.state # "CLOSED"
  BY DEF Alive
<1> QED
  BY <1>1, <1>2, SendingKeeps

LEMMA GiveUpNet ==
  ASSUME NetInv, GiveUp
  PROVE  NetInv'
<1>1. pcb' = Free(pcb, "ABORTED") /\ UNCHANGED <<call, wire, acks, client>>
  BY Zenon DEF GiveUp
<1>2. HasQueues(pcb)
  BY Zenon DEF NetInv
<1>3. HasQueues(pcb') /\ pcb'.state # "CLOSED"
  BY ONLY <1>1, <1>2 DEF Free, HasQueues
<1>4. Steady
  BY <1>1, SameCall
<1> QED
  BY <1>1, <1>3, <1>4, QuietKeeps

LEMMA RtoNet ==
  ASSUME NetInv, NEW keep \in BOOLEAN, Rto(keep)
  PROVE  NetInv'
<1> DEFINE p == RexmitRto(pcb)
<1>1. /\ pcb.state # "CLOSED" /\ UNCHANGED <<call, acks, client>>
      /\ pcb' = Output(p) /\ Carries(Emitted(p), keep)
  BY DEF Rto, SlowTimer, ThreadRuns, Alive
<1>2. HasQueues(pcb)
  BY Zenon DEF NetInv
<1>3. PICK u : u = pcb.unacked \o pcb.unsent
  OBVIOUS
<1>4. u \in Seq(Segments)
  <2>1. pcb.unacked \in Seq(Segments) /\ pcb.unsent \in Seq(Segments)
    BY <1>2, Zenon DEF HasQueues
  <2> QED
    BY <1>3, <2>1, ConcatProperties
<1>5. PICK n : p = [pcb EXCEPT !.unsent = u, !.unacked = <<>>, !.cwnd = Mss, !.nrtx = n]
  BY <1>2, <1>3 DEF RexmitRto, HasQueues
<1> HIDE DEF p
<1>6. HasQueues(p) /\ p.state # "CLOSED"
  <2>1. <<>> \in Seq(Segments)
    OBVIOUS
  <2> QED
    BY ONLY <1>1, <1>2, <1>4, <1>5, <2>1 DEF HasQueues
<1>7. Steady
  BY <1>1, SameCall
<1> QED
  BY <1>1, <1>6, <1>7, SendingKeeps

\* A probe is a segment of its own, of a byte at most.
LEMMA ProbeNet ==
  ASSUME NetInv, NEW keep \in BOOLEAN, Probe(keep)
  PROVE  NetInv'
<1> DEFINE q == pcb.unacked \o pcb.unsent
           first == q[1]
           n == Min({first.len, 1})
           m == [seq |-> first.seq, len |-> n, fin |-> first.fin /\ first.len = 0]
           Msgs == [seq : Nat, len : 0 .. Mss, fin : BOOLEAN]
<1>1. /\ pcb.state # "CLOSED" /\ q # <<>> /\ Carries(<<m>>, keep)
      /\ UNCHANGED <<pcb, call, acks, client>>
  BY DEF Probe, SlowTimer, ThreadRuns, Alive
<1>2. HasQueues(pcb) /\ wire \subseteq Msgs
  BY Zenon DEF NetInv
<1>3. q \in Seq(Segments)
  <2>1. pcb.unacked \in Seq(Segments) /\ pcb.unsent \in Seq(Segments)
    BY <1>2, Zenon DEF HasQueues
  <2> QED
    BY <2>1, ConcatProperties
<1> HIDE DEF q
<1>4. 1 \in 1 .. Len(q)
  BY <1>1, <1>3, EmptySeq, LenProperties
<1>5. first \in Segments /\ first.seq \in Nat /\ first.len \in 0 .. Mss /\ first.len \in Nat
      /\ first.fin \in BOOLEAN
  BY <1>3, <1>4, SegmentsOf, ConstantFacts DEF Segments
<1> HIDE DEF first
<1>6. n = IF first.len <= 1 THEN first.len ELSE 1
  BY <1>5, LeastOfTwo
<1> HIDE DEF n
<1>7. m \in Msgs
  <2>1. n \in 0 .. Mss
    BY <1>5, <1>6, ConstantFacts
  <2> QED
    BY <1>5, <2>1
<1>8. wire' \subseteq wire \cup {m}
  <2> DEFINE packet(s) == [seq |-> s.seq, len |-> s.len, fin |-> s.fin]
  <2>1. <<m>> # <<>> /\ ToSet(<<m>>) = {m} /\ packet(m) = m
    BY DEF ToSet
  <2>2. wire' \subseteq wire \cup {packet(s) : s \in ToSet(<<m>>)}
    BY <1>1, <2>1, Zenon DEF Carries
  <2> HIDE DEF packet, m
  <2> QED
    BY <2>1, <2>2
<1> HIDE DEF m
<1>9. wire' \subseteq Msgs
  BY <1>2, <1>7, <1>8, Zenon
<1>10. Steady
  BY <1>1, SameCall
<1>11. HasQueues(pcb') /\ pcb'.state # "CLOSED"
  BY <1>1, <1>2, Zenon
<1> HIDE DEF Msgs
<1> QED
  BY <1>9, <1>10, <1>11, GatewayKeeps DEF Msgs

\* The client only goes on, and acknowledges what it has.
LEMMA ClientNet ==
  ASSUME NetInv, NEW c \in [nxt : Nat, edge : Nat], NEW keep \in BOOLEAN,
         client.nxt <= c.nxt, c.nxt <= c.edge, Answers(c, keep),
         wire' \subseteq wire, UNCHANGED <<pcb, call>>
  PROVE  NetInv'
<1>1. /\ HasQueues(pcb) /\ client \in [nxt : Nat, edge : Nat]
      /\ call.at \in {"idle", "counted", "found", "output"}
      /\ call.at \in {"counted", "found"} => call.seg \in Segments
      /\ wire \subseteq [seq : Nat, len : 0 .. Mss, fin : BOOLEAN]
      /\ \A a \in acks : a.ack \in Nat /\ a.ack <= client.nxt
      /\ pcb.state = "CLOSED" => pcb.nxt \in Nat /\ pcb.nxt <= client.nxt
  BY Zenon DEF NetInv
<1>2. client' = c /\ acks' \subseteq acks \cup {Answer(c)}
  BY Zenon DEF Answers
<1>3. client.nxt \in Nat /\ c.nxt \in Nat
  BY <1>1
<1>4. Answer(c).ack = c.nxt
  BY DEF Answer
<1>5. \A a \in acks' : a.ack \in Nat /\ a.ack <= c.nxt
  <2> TAKE a \in acks'
  <2>1. CASE a \in acks
    BY <1>1, <1>3, <2>1
  <2>2. CASE a = Answer(c)
    BY <1>3, <1>4, <2>2
  <2> QED
    BY <1>2, <2>1, <2>2
<1>6. pcb.state = "CLOSED" => pcb.nxt \in Nat /\ pcb.nxt <= c.nxt
  BY <1>1, <1>3
<1>7. wire' \subseteq [seq : Nat, len : 0 .. Mss, fin : BOOLEAN]
  BY <1>1, Zenon
<1>8. pcb' = pcb /\ call' = call
  OBVIOUS
<1> QED
  BY <1>1, <1>2, <1>5, <1>6, <1>7, <1>8, Zenon DEF NetInv, HasQueues

LEMMA ArriveNet ==
  ASSUME NetInv, NEW m \in wire, NEW keep \in BOOLEAN, Arrive(m, keep)
  PROVE  NetInv'
<1> DEFINE nxt == IF ~InOrder(m) THEN client.nxt
                  ELSE IF m.seq + m.len <= client.edge THEN End(m) ELSE client.edge
           edge == Max({client.edge, nxt})
           c == [nxt |-> nxt, edge |-> edge]
<1>1. /\ client \in [nxt : Nat, edge : Nat] /\ client.nxt <= client.edge
      /\ wire \subseteq [seq : Nat, len : 0 .. Mss, fin : BOOLEAN]
  BY Zenon DEF NetInv
<1>2. client.nxt \in Nat /\ client.edge \in Nat
  BY <1>1
<1>3. End(m) \in Nat
  <2>1. m \in [seq : Nat, len : 0 .. Mss, fin : BOOLEAN]
    BY <1>1, Zenon
  <2>2. m.seq \in Nat /\ m.len \in Nat
    BY <2>1, ConstantFacts
  <2> QED
    BY <2>2 DEF End
<1>4. nxt \in Nat /\ client.nxt <= nxt
  BY <1>1, <1>2, <1>3 DEF InOrder
<1>5. Answers(c, keep) /\ wire' \subseteq wire /\ UNCHANGED <<pcb, call>>
  BY DEF Arrive
<1> HIDE DEF nxt
<1>6. edge \in Nat /\ nxt <= edge
  BY <1>2, <1>4, MostOfTwo
<1> HIDE DEF edge
<1>7. c \in [nxt : Nat, edge : Nat] /\ c.nxt = nxt /\ c.edge = edge
  BY <1>4, <1>6
<1> HIDE DEF c
<1> QED
  BY <1>4, <1>5, <1>6, <1>7, ClientNet

LEMMA OpensNet ==
  ASSUME NetInv, NEW keep \in BOOLEAN, Opens(keep)
  PROVE  NetInv'
<1> DEFINE edge == client.nxt + Window
           c == [client EXCEPT !.edge = edge]
<1>1. client \in [nxt : Nat, edge : Nat]
  BY Zenon DEF NetInv
<1>2. client.nxt \in Nat /\ Window \in Nat
  BY <1>1, SenderAssumption
<1>3. Answers(c, keep) /\ UNCHANGED <<pcb, call, wire>>
  BY Zenon DEF Opens
<1>4. edge \in Nat /\ client.nxt <= edge
  BY <1>2
<1> HIDE DEF edge
<1>5. c \in [nxt : Nat, edge : Nat] /\ c.nxt = client.nxt /\ c.edge = edge
  BY <1>1, <1>4
<1>6. client.nxt <= c.nxt /\ c.nxt <= c.edge /\ wire' \subseteq wire
  BY <1>2, <1>3, <1>4, <1>5
<1> HIDE DEF c
<1> QED
  BY <1>3, <1>5, <1>6, ClientNet

LEMMA NetInitially ==
  ASSUME Init
  PROVE  NetInv
<1>1. pcb = [ state |-> "ESTABLISHED", unsent |-> <<>>, unacked |-> <<>>,
              lbb |-> 0, nxt |-> 0, lastack |-> 0, buf |-> SndBuf, queuelen |-> 0,
              cwnd |-> 2 * Mss, wnd |-> Window, wl2 |-> 0,
              memerr |-> FALSE, infr |-> FALSE, persist |-> FALSE,
              timing |-> FALSE, nrtx |-> 0, input |-> FALSE ]
  BY Zenon DEF Init
<1>2. /\ call = [at |-> "idle"] /\ wire = {} /\ acks = {}
      /\ client = [nxt |-> 0, edge |-> Window] /\ Window \in Nat
  BY SenderAssumption, Zenon DEF Init
<1>3. <<>> \in Seq(Segments)
  OBVIOUS
<1>4. HasQueues(pcb) /\ pcb.state # "CLOSED"
  BY ONLY <1>1, <1>3 DEF HasQueues
<1>5. call.at = "idle" /\ client \in [nxt : Nat, edge : Nat] /\ client.nxt <= client.edge
  BY <1>2
<1> QED
  BY <1>2, <1>4, <1>5 DEF NetInv

LEMMA NetInductive ==
  ASSUME NetInv, [Next]_vars
  PROVE  NetInv'
<1>1. CASE UNCHANGED vars
  BY <1>1, Zenon DEF vars, NetInv, HasQueues
<1>2. CASE TaskStep
  BY <1>2, TaskNet
<1>3. CASE GiveUp
  BY <1>3, GiveUpNet
<1>4. CASE WriteOutput(FALSE)
  <2>1. /\ Alive /\ pcb' = Output(pcb) /\ Carries(Emitted(pcb), FALSE)
        /\ call' = [at |-> "idle"] /\ UNCHANGED <<acks, client>>
    BY <1>4, Zenon DEF WriteOutput
  <2>2. Steady
    BY <2>1 DEF Steady
  <2> QED
    BY <2>1, <2>2, PollNet
<1>5. CASE Poll(FALSE)
  <2>1. /\ Alive /\ pcb' = Output(pcb) /\ Carries(Emitted(pcb), FALSE)
        /\ UNCHANGED <<call, acks, client>>
    BY <1>5, Zenon DEF Poll, SlowTimer, ThreadRuns
  <2>2. Steady
    BY <2>1, SameCall
  <2> QED
    BY <2>1, <2>2, PollNet
<1>6. CASE CallbackEnds(FALSE)
  BY <1>6, CallbackNet
<1>7. CASE Disconnect(FALSE)
  BY <1>7, DisconnectNet
<1>8. CASE Rto(FALSE)
  BY <1>8, RtoNet
<1>9. CASE Probe(FALSE)
  BY <1>9, ProbeNet
<1>10. CASE Opens(FALSE)
  BY <1>10, OpensNet
<1>11. ASSUME NEW a \in acks, NEW withData \in BOOLEAN, Receive(a, withData, FALSE) PROVE NetInv'
  BY <1>11, ReceiveNet
<1>12. ASSUME NEW m \in wire, Arrive(m, FALSE) PROVE NetInv'
  BY <1>12, ArriveNet
<1> QED
  BY <1>1, <1>2, <1>3, <1>4, <1>5, <1>6, <1>7, <1>8, <1>9, <1>10, <1>11, <1>12, Zenon
     DEF Next, Losable

\* tcp_process takes no older acknowledgement for that of the FIN: a connection
\* that is closed has had all that was sent arrive, also when the thread
\* preempts tcp_write.
THEOREM ClosedComplete == Spec => []ClosedWhenSentArrived
<1>1. Init => NetInv
  BY NetInitially
<1>2. NetInv /\ [Next]_vars => NetInv'
  BY NetInductive
<1>3. NetInv => ClosedWhenSentArrived
  <2> SUFFICES ASSUME NetInv PROVE ClosedWhenSentArrived
    OBVIOUS
  <2>1. /\ client \in [nxt : Nat, edge : Nat]
        /\ pcb.state = "CLOSED" => pcb.nxt \in Nat /\ pcb.nxt <= client.nxt
    BY Zenon DEF NetInv
  <2>2. client.nxt \in Nat
    BY <2>1
  <2> QED
    BY <2>1, <2>2 DEF ClosedWhenSentArrived
<1> QED
  BY <1>1, <1>2, <1>3, PTL DEF Spec
=============================================================================
