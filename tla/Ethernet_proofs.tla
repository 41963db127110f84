--------------------------- MODULE Ethernet_proofs ---------------------------
(***************************************************************************)
(* Both rings of Ethernet stay in order, for rings of any length, no pbuf  *)
(* and no message is lost, and with one sender at a time frames are sent   *)
(* as given.                                                               *)
(***************************************************************************)
EXTENDS Ethernet, SequenceTheorems, FiniteSetTheorems, FunctionTheorems, TLAPS

-----------------------------------------------------------------------------
(* Induction over numbers, and the sum over a sequence *)

LEMMA Greatest ==
  ASSUME NEW n \in Nat, NEW S \in SUBSET (0 .. n), S # {}
  PROVE  Max(S) \in S /\ \A y \in S : y <= Max(S)
<1> DEFINE Above(x) == {y \in S : x < y}
           T == {Above(x) : x \in S}
<1>1. IsFiniteSet(S)
  <2>1. IsFiniteSet(0 .. n)
    BY FS_Interval
  <2> QED
    BY <2>1, FS_Subset
<1>2. T \subseteq FiniteSubsetsOf(S) /\ T # {}
  <2>1. FiniteSubsetsOf(S) = SUBSET S
    BY <1>1, FS_FiniteSubsetsOfFinite
  <2>2. \A u \in T : u \in SUBSET S
    OBVIOUS
  <2>3. PICK x \in S : TRUE
    OBVIOUS
  <2>4. Above(x) \in T
    OBVIOUS
  <2> HIDE DEF T
  <2> QED
    BY <2>1, <2>2, <2>4
<1>3. PICK t \in T : \A u \in T : ~(<<u, t>> \in StrictSubsetOrdering(S))
  <2> HIDE DEF T
  <2> QED
    BY <1>1, <1>2, FS_StrictSubsetOrderingWellFounded, WFMin
<1>4. PICK x \in S : t = Above(x)
  OBVIOUS
<1>5. ASSUME NEW y \in S, ~(y <= x) PROVE FALSE
  <2>1. x < y /\ x \in Nat /\ y \in Nat
    BY <1>5
  <2>2. Above(y) \in T
    OBVIOUS
  <2>3. \A z \in S : z \in Nat
    OBVIOUS
  <2>4. \A z \in Above(y) : z \in S /\ x < z
    BY <2>1, <2>3
  <2>5. y \in Above(x) /\ y \notin Above(y)
    BY <2>1
  <2>6. <<Above(y), t>> \in StrictSubsetOrdering(S)
    BY <1>4, <2>4, <2>5 DEF StrictSubsetOrdering
  <2> QED
    BY <1>3, <2>2, <2>6
<1>6. x \in S /\ \A y \in S : x >= y
  BY <1>5
<1>7. Max(S) \in S /\ \A y \in S : Max(S) >= y
  BY <1>6, Zenon DEF Max
<1> QED
  BY <1>7

LEMMA Steps ==
  ASSUME NEW n \in Nat, NEW T \in SUBSET (0 .. n), 0 \in T,
         \A i \in T : i < n => i + 1 \in T
  PROVE  \A i \in 0 .. n : i \in T
<1> DEFINE S == {k \in 0 .. n : 0 .. k \subseteq T}
<1>1. S \in SUBSET (0 .. n) /\ 0 \in S
  OBVIOUS
<1>2. PICK m \in S : \A k \in S : k <= m
  <2> HIDE DEF S
  <2> QED
    BY <1>1, Greatest
<1>3. ASSUME m < n PROVE FALSE
  <2>1. m + 1 \in T /\ m + 1 \in 0 .. n
    BY <1>3
  <2>2. 0 .. m + 1 \subseteq T
    <3>1. ASSUME NEW k \in 0 .. m + 1 PROVE k \in T
      <4>1. k = m + 1 \/ k \in 0 .. m
        OBVIOUS
      <4> QED
        BY <2>1, <4>1
    <3> QED
      BY <3>1
  <2> QED
    BY <1>2, <2>1, <2>2
<1> QED
  BY <1>3

LEMMA TopOf ==
  ASSUME NEW m \in Nat, NEW s \in SUBSET (1 .. m + 1), m + 1 \in s
  PROVE  Max(s) = m + 1 /\ s \ {m + 1} \in SUBSET (1 .. m)
<1>1. m + 1 \in Nat /\ s \in SUBSET (0 .. m + 1) /\ s # {}
  OBVIOUS
<1>2. Max(s) \in s /\ \A y \in s : y <= Max(s)
  BY <1>1, Greatest, Zenon
<1>3. PICK x : x = Max(s)
  OBVIOUS
<1>4. x \in s /\ \A y \in s : y <= x
  BY <1>2, <1>3, Zenon
<1>5. x = m + 1 /\ s \ {m + 1} \in SUBSET (1 .. m)
  BY <1>4
<1> QED
  BY <1>3, <1>5, Zenon

\* The function that a fold from the left defines, over sets of places.
Folds(h, n, b, g) ==
  \A s \in SUBSET (1 .. n) :
    h[s] = IF s = {} THEN b ELSE g[<<h[s \ {Max(s)}], Max(s)>>]

LEMMA FoldExists ==
  ASSUME NEW n \in Nat, NEW V, NEW b \in V, NEW g \in [V \X (1 .. n) -> V]
  PROVE  \E h \in [SUBSET (1 .. n) -> V] : Folds(h, n, b, g)
<1> DEFINE T == {m \in 0 .. n : \E h \in [SUBSET (1 .. m) -> V] : Folds(h, m, b, g)}
<1>1. 0 \in T
  <2> DEFINE h == [s \in SUBSET (1 .. 0) |-> b]
  <2>1. \A s \in SUBSET (1 .. 0) : s = {}
    OBVIOUS
  <2>2. h \in [SUBSET (1 .. 0) -> V] /\ Folds(h, 0, b, g)
    BY <2>1, Zenon DEF Folds
  <2>3. \E f \in [SUBSET (1 .. 0) -> V] : Folds(f, 0, b, g)
    BY <2>2, Zenon
  <2>4. 0 \in 0 .. n
    OBVIOUS
  <2> QED
    BY <2>3, <2>4, Zenon
<1>2. ASSUME NEW m \in T, m < n PROVE m + 1 \in T
  <2>1. PICK h \in [SUBSET (1 .. m) -> V] : Folds(h, m, b, g)
    OBVIOUS
  <2> DEFINE k == m + 1
             f == [s \in SUBSET (1 .. k) |-> IF k \in s THEN g[<<h[s \ {k}], k>>] ELSE h[s]]
  <2>2. k \in 1 .. n /\ m \in Nat /\ k = m + 1
    BY <1>2
  <2>3. \A s \in SUBSET (1 .. k) : k \in s => Max(s) = k /\ s \ {k} \in SUBSET (1 .. m)
    BY <2>2, TopOf
  <2>4. \A s \in SUBSET (1 .. k) : k \notin s => s \in SUBSET (1 .. m)
    BY <2>2
  <2> HIDE DEF k
  <2>5. \A s \in SUBSET (1 .. k) : f[s] \in V
    BY <2>2, <2>3, <2>4
  <2>6. \A s \in SUBSET (1 .. m) : s \in SUBSET (1 .. k) /\ k \notin s /\ f[s] = h[s]
    BY <2>2
  <2>7. ASSUME NEW s \in SUBSET (1 .. k)
        PROVE  f[s] = IF s = {} THEN b ELSE g[<<f[s \ {Max(s)}], Max(s)>>]
    <3>1. CASE k \in s
      BY <2>3, <2>6, <3>1
    <3>2. CASE k \notin s
      <4>1. s \in SUBSET (1 .. m) /\ s \ {Max(s)} \in SUBSET (1 .. m)
        BY <2>4, <3>2
      <4>2. h[s] = IF s = {} THEN b ELSE g[<<h[s \ {Max(s)}], Max(s)>>]
        BY <2>1, <4>1, Zenon DEF Folds
      <4> QED
        BY <2>6, <4>1, <4>2
    <3> QED
      BY <3>1, <3>2
  <2>8. f \in [SUBSET (1 .. k) -> V] /\ Folds(f, k, b, g)
    <3> HIDE DEF f
    <3>1. f \in [SUBSET (1 .. k) -> V]
      BY <2>5, Zenon DEF f
    <3> QED
      BY <3>1, <2>7, Zenon DEF Folds
  <2> HIDE DEF f
  <2>9. k \in T
    BY <2>2, <2>8
  <2> QED
    BY <2>9 DEF k
<1>3. n \in T
  <2>1. T \in SUBSET (0 .. n)
    OBVIOUS
  <2> HIDE DEF T
  <2> QED
    BY <1>1, <1>2, <2>1, Steps
<1> QED
  BY <1>3

LEMMA TopPlace ==
  ASSUME NEW n \in Nat, NEW s \in SUBSET (1 .. n), s # {}
  PROVE  Max(s) \in 1 .. n
<1>1. s \in SUBSET (0 .. n)
  OBVIOUS
<1>2. Max(s) \in s
  BY <1>1, Greatest, Zenon
<1> QED
  BY <1>2

LEMMA FirstPlaces ==
  ASSUME NEW n \in Nat, NEW k \in 1 .. n
  PROVE  /\ 1 .. k \in SUBSET (1 .. n) /\ 1 .. k # {}
         /\ Max(1 .. k) = k /\ (1 .. k) \ {k} = 1 .. k - 1
<1>1. k - 1 \in Nat /\ (k - 1) + 1 = k
  OBVIOUS
<1>2. 1 .. k \in SUBSET (1 .. (k - 1) + 1) /\ (k - 1) + 1 \in 1 .. k
  BY <1>1
<1> HIDE DEF Max
<1>3. Max(1 .. k) = (k - 1) + 1
  BY <1>1, <1>2, TopOf, Zenon
<1> QED
  BY <1>1, <1>3

\* The sums of the first elements, one after the other.
Sums(f, q) ==
  /\ f \in [0 .. Len(q) -> Nat] /\ f[0] = 0
  /\ \A k \in 1 .. Len(q) : f[k] = f[k - 1] + q[k]

LEMMA TotalIsASum ==
  ASSUME NEW q \in Seq(Nat)
  PROVE  \E f : Sums(f, q) /\ Total(q) = f[Len(q)]
<1> DEFINE n == Len(q)
           Iter(h) == h = [s \in SUBSET (1 .. n) |->
                             IF s = {} THEN 0 ELSE h[s \ {Max(s)}] + q[Max(s)]]
           iter == CHOOSE h : Iter(h)
<1>1. n \in Nat /\ DOMAIN q = 1 .. n /\ \A i \in 1 .. n : q[i] \in Nat
  OBVIOUS
<1>2. Total(q) = iter[1 .. n]
  BY <1>1, Zenon DEF Total, FoldLeft, MapThenFoldSet
<1>3. \E h : Iter(h)
  <2> DEFINE g == [x \in Nat \X (1 .. n) |-> x[1] + q[x[2]]]
  <2>1. g \in [Nat \X (1 .. n) -> Nat]
    BY <1>1
  <2>2. \A x \in Nat, i \in 1 .. n : g[<<x, i>>] = x + q[i]
    OBVIOUS
  <2> HIDE DEF g, n
  <2>3. PICK h \in [SUBSET (1 .. n) -> Nat] : Folds(h, n, 0, g)
    BY <1>1, <2>1, FoldExists, Zenon
  <2>4. ASSUME NEW s \in SUBSET (1 .. n)
        PROVE  h[s] = IF s = {} THEN 0 ELSE h[s \ {Max(s)}] + q[Max(s)]
    <3>1. h[s] = IF s = {} THEN 0 ELSE g[<<h[s \ {Max(s)}], Max(s)>>]
      BY <2>3, Zenon DEF Folds
    <3>2. CASE s = {}
      BY <3>1, <3>2
    <3>3. CASE s # {}
      <4>1. Max(s) \in 1 .. n /\ h[s \ {Max(s)}] \in Nat
        BY <1>1, <3>3, TopPlace
      <4> QED
        BY <2>2, <3>1, <3>3, <4>1, Zenon
    <3> QED
      BY <3>2, <3>3
  <2>5. Iter(h)
    BY <2>4
  <2> HIDE DEF Iter
  <2> QED
    BY <2>5
<1> HIDE DEF n
<1>4. Iter(iter)
  <2> HIDE DEF Iter
  <2> QED
    BY <1>3
<1> HIDE DEF iter
<1> DEFINE f == [k \in 0 .. n |-> iter[1 .. k]]
<1>5. f[0] = 0
  <2>1. 1 .. 0 = {} /\ 0 \in 0 .. n /\ {} \in SUBSET (1 .. n)
    BY <1>1
  <2> QED
    BY <1>4, <2>1
<1>6. ASSUME NEW k \in 1 .. n PROVE f[k] = f[k - 1] + q[k]
  <2>1. k \in 0 .. n /\ k - 1 \in 0 .. n
    BY <1>1
  <2>2. iter[1 .. k] = iter[(1 .. k) \ {Max(1 .. k)}] + q[Max(1 .. k)]
    BY <1>1, <1>4, FirstPlaces, Zenon
  <2>3. iter[1 .. k] = iter[1 .. k - 1] + q[k]
    BY <1>1, <2>2, FirstPlaces, Zenon
  <2> QED
    BY <2>1, <2>3, Zenon
<1> HIDE DEF f
<1>7. f \in [0 .. n -> Nat]
  <2> DEFINE T == {k \in 0 .. n : f[k] \in Nat}
  <2>1. T \in SUBSET (0 .. n) /\ 0 \in T
    BY <1>1, <1>5
  <2>2. ASSUME NEW k \in T, k < n PROVE k + 1 \in T
    <3>1. k + 1 \in 1 .. n /\ (k + 1) - 1 = k /\ k + 1 \in 0 .. n
      BY <1>1, <2>2
    <3>2. f[k + 1] = f[(k + 1) - 1] + q[k + 1]
      BY <1>6, <3>1, Zenon
    <3>3. q[k + 1] \in Nat /\ f[k] \in Nat
      BY <1>1, <3>1
    <3> QED
      BY <3>1, <3>2, <3>3
  <2> HIDE DEF T
  <2>3. \A k \in 0 .. n : k \in T
    BY <1>1, <2>1, <2>2, Steps
  <2>4. \A k \in 0 .. n : f[k] \in Nat
    BY <2>3 DEF T
  <2> QED
    BY <2>4 DEF f
<1>8. Total(q) = f[n]
  BY <1>1, <1>2 DEF f
<1>9. Sums(f, q)
  BY <1>5, <1>6, <1>7 DEF Sums, n
<1> QED
  BY <1>8, <1>9 DEF n

LEMMA TotalOfNone == Total(<<>>) = 0
<1>1. <<>> \in Seq(Nat) /\ Len(<<>>) = 0
  OBVIOUS
<1>2. PICK f : Sums(f, <<>>) /\ Total(<<>>) = f[Len(<<>>)]
  BY <1>1, TotalIsASum
<1> QED
  BY <1>1, <1>2 DEF Sums

LEMMA TotalOfMore ==
  ASSUME NEW q \in Seq(Nat), NEW x \in Nat
  PROVE  Total(q) \in Nat /\ Total(Append(q, x)) = Total(q) + x
<1> DEFINE n == Len(q)
           r == Append(q, x)
<1>1. /\ n \in Nat /\ r \in Seq(Nat) /\ Len(r) = n + 1
      /\ \A i \in 1 .. n : r[i] = q[i]
      /\ r[n + 1] = x
  OBVIOUS
<1> HIDE DEF r
<1>2. PICK f : Sums(f, q) /\ Total(q) = f[n]
  BY TotalIsASum
<1>3. PICK g : Sums(g, r) /\ Total(r) = g[n + 1]
  BY <1>1, TotalIsASum
<1>4. /\ f \in [0 .. n -> Nat] /\ f[0] = 0
      /\ \A k \in 1 .. n : f[k] = f[k - 1] + q[k]
  BY <1>2 DEF Sums
<1>5. /\ g \in [0 .. n + 1 -> Nat] /\ g[0] = 0
      /\ \A k \in 1 .. n + 1 : g[k] = g[k - 1] + r[k]
  BY <1>1, <1>3 DEF Sums
<1> HIDE DEF n
<1> DEFINE T == {k \in 0 .. n : g[k] = f[k]}
<1>6. T \in SUBSET (0 .. n) /\ 0 \in T
  BY <1>1, <1>4, <1>5
<1>7. ASSUME NEW k \in T, k < n PROVE k + 1 \in T
  <2>1. k + 1 \in 1 .. n /\ k + 1 \in 1 .. n + 1 /\ (k + 1) - 1 = k
    BY <1>1, <1>7
  <2>2. f[k + 1] = f[(k + 1) - 1] + q[k + 1] /\ g[k + 1] = g[(k + 1) - 1] + r[k + 1]
    BY <1>4, <1>5, <2>1, Zenon
  <2> QED
    BY <1>1, <2>1, <2>2
<1>8. n \in T
  <2> HIDE DEF T
  <2>1. \A k \in 0 .. n : k \in T
    BY <1>1, <1>6, <1>7, Steps
  <2> QED
    BY <1>1, <2>1
<1>9. n + 1 \in 1 .. n + 1 /\ (n + 1) - 1 = n
  BY <1>1
<1>10. g[n + 1] = g[(n + 1) - 1] + r[n + 1]
  BY <1>5, <1>9, Zenon
<1>11. g[n + 1] = f[n] + x /\ f[n] \in Nat
  BY <1>1, <1>4, <1>8, <1>9, <1>10
<1> QED
  BY <1>2, <1>3, <1>11 DEF r

LEMMA TotalOfRest ==
  ASSUME NEW q \in Seq(Nat), q # <<>>
  PROVE  Total(Tail(q)) \in Nat /\ Total(q) = Head(q) + Total(Tail(q))
<1> DEFINE n == Len(q) - 1
           r == Tail(q)
<1>1. /\ n \in Nat /\ Len(q) = n + 1 /\ r \in Seq(Nat) /\ Len(r) = n
      /\ \A i \in 1 .. n : r[i] = q[i + 1] /\ r[i] \in Nat
      /\ Head(q) = q[1] /\ q[1] \in Nat
  OBVIOUS
<1> HIDE DEF r, n
<1>2. PICK f : Sums(f, q) /\ Total(q) = f[n + 1]
  BY <1>1, TotalIsASum
<1>3. PICK g : Sums(g, r) /\ Total(r) = g[n]
  BY <1>1, TotalIsASum
<1>4. /\ f \in [0 .. n + 1 -> Nat] /\ f[0] = 0
      /\ \A k \in 1 .. n + 1 : f[k] = f[k - 1] + q[k]
  BY <1>1, <1>2 DEF Sums
<1>5. /\ g \in [0 .. n -> Nat] /\ g[0] = 0
      /\ \A k \in 1 .. n : g[k] = g[k - 1] + r[k]
  BY <1>1, <1>3 DEF Sums
<1> DEFINE T == {k \in 0 .. n : f[k + 1] = q[1] + g[k]}
<1>6. T \in SUBSET (0 .. n) /\ 0 \in T
  <2>1. 1 \in 1 .. n + 1 /\ 1 - 1 = 0 /\ 0 + 1 = 1 /\ 0 \in 0 .. n
    BY <1>1
  <2>2. f[1] = f[1 - 1] + q[1]
    BY <1>4, <2>1, Zenon
  <2>3. f[0 + 1] = q[1] + g[0]
    BY <1>1, <1>4, <1>5, <2>1, <2>2
  <2> QED
    BY <2>1, <2>3
<1>7. ASSUME NEW k \in T, k < n PROVE k + 1 \in T
  <2>1. /\ k + 1 \in 1 .. n /\ k \in 0 .. n /\ (k + 1) + 1 \in 1 .. n + 1
        /\ (k + 1) - 1 = k /\ ((k + 1) + 1) - 1 = k + 1
    BY <1>1, <1>7
  <2>2. /\ g[k + 1] = g[(k + 1) - 1] + r[k + 1]
        /\ f[(k + 1) + 1] = f[((k + 1) + 1) - 1] + q[(k + 1) + 1]
    BY <1>4, <1>5, <2>1, Zenon
  <2>3. r[k + 1] = q[(k + 1) + 1] /\ r[k + 1] \in Nat /\ g[k] \in Nat
    BY <1>1, <1>5, <2>1
  <2>4. f[(k + 1) + 1] = q[1] + g[k + 1]
    BY <1>1, <2>1, <2>2, <2>3
  <2> QED
    BY <2>1, <2>4
<1>8. n \in T
  <2> HIDE DEF T
  <2>1. \A k \in 0 .. n : k \in T
    BY <1>1, <1>6, <1>7, Steps
  <2> QED
    BY <1>1, <2>1
<1>9. f[n + 1] = q[1] + g[n] /\ g[n] \in Nat
  BY <1>1, <1>5, <1>8
<1> QED
  BY <1>1, <1>2, <1>3, <1>9 DEF r
-----------------------------------------------------------------------------
(* Rings *)

\* The remainder of a number below twice the divisor.
LEMMA Wrap ==
  ASSUME NEW n \in Nat \ {0}, NEW x \in 0 .. 2 * n - 1
  PROVE  x % n = IF x < n THEN x ELSE x - n
<1>1. CASE x < n
  BY <1>1, SMT
<1>2. CASE ~(x < n)
  <2> DEFINE q == x \div n
             r == x % n
  <2>1. x = n * q + r /\ q \in Nat /\ r \in Nat /\ r < n
    BY SMT
  <2>2. q # 0
    BY <1>2, <2>1, SMT
  <2>3. ~(q >= 2)
    <3>1. q >= 2 => n * q >= n * 2
      BY <2>1, SMT
    <3> QED
      BY <2>1, <3>1, SMT
  <2>4. q = 1
    BY <2>1, <2>2, <2>3, SMT
  <2> QED
    BY <1>2, <2>1, <2>4, SMT
<1> QED
  BY <1>1, <1>2

LEMMA WrapSum ==
  ASSUME NEW n \in Nat \ {0}, NEW a \in 0 .. n - 1, NEW b \in 0 .. n
  PROVE  (a + b) % n = IF a + b < n THEN a + b ELSE a + b - n
<1> DEFINE x == a + b
<1>1. x \in 0 .. 2 * n - 1
  OBVIOUS
<1> HIDE DEF x
<1>2. x % n = IF x < n THEN x ELSE x - n
  BY <1>1, Wrap
<1> QED
  BY <1>2 DEF x

LEMMA AheadType ==
  ASSUME NEW n \in Nat \ {0}, NEW g \in 0 .. n - 1, NEW i \in 0 .. n - 1
  PROVE  Ahead(n, g, i) \in Nat
BY DEF Ahead

\* The others are one nearer to the next place.
LEMMA AheadOfNext ==
  ASSUME NEW n \in Nat \ {0}, NEW g \in 0 .. n - 1, NEW i \in 0 .. n - 1, i # g,
         NEW h, h = (g + 1) % n
  PROVE  Ahead(n, h, i) = Ahead(n, g, i) - 1
<1>1. 1 \in 0 .. n
  OBVIOUS
<1>2. (g + 1) % n = IF g + 1 < n THEN g + 1 ELSE g + 1 - n
  BY <1>1, WrapSum
<1>3. h = IF g + 1 < n THEN g + 1 ELSE g + 1 - n
  BY <1>2
<1> QED
  BY <1>3 DEF Ahead

\* A frame is put behind the others.
LEMMA Put ==
  ASSUME NEW n \in Nat \ {0}, NEW S, NEW g, NEW p, NEW c,
         Queues(n, S, g, p, c), p \notin S
  PROVE  c < n /\ Queues(n, S \cup {p}, g, (p + 1) % n, c + 1)
<1>1. c < n
  BY DEF Queues, Ahead
<1>2. Ahead(n, g, p) = c
  BY <1>1 DEF Queues, Ahead
<1>3. ASSUME NEW i \in 0 .. n - 1
      PROVE  Ahead(n, g, i) < c + 1 <=> Ahead(n, g, i) < c \/ i = p
  BY <1>1, <1>2 DEF Queues, Ahead
<1>4. S \cup {p} = {i \in 0 .. n - 1 : Ahead(n, g, i) < c + 1}
  BY <1>3 DEF Queues
<1>5. (p + 1) % n = IF p + 1 < n THEN p + 1 ELSE p + 1 - n
  <2>1. p \in 0 .. n - 1 /\ 1 \in 0 .. n
    BY DEF Queues
  <2> QED
    BY <2>1, WrapSum
<1> QED
  BY <1>1, <1>4, <1>5 DEF Queues

\* The first frame is taken.
LEMMA TakeOut ==
  ASSUME NEW n \in Nat \ {0}, NEW S, NEW g, NEW p, NEW c,
         Queues(n, S, g, p, c), g \in S
  PROVE  c > 0 /\ Queues(n, S \ {g}, (g + 1) % n, p, c - 1)
<1>1. c > 0
  BY DEF Queues, Ahead
<1> DEFINE h == IF g + 1 < n THEN g + 1 ELSE g + 1 - n
<1>2. (g + 1) % n = h
  BY WrapSum DEF Queues
<1>3. ASSUME NEW i \in 0 .. n - 1
      PROVE  /\ i # g => Ahead(n, h, i) = Ahead(n, g, i) - 1
             /\ i = g => Ahead(n, h, i) = n - 1
  BY DEF Queues, Ahead
<1>4. S \ {g} = {i \in 0 .. n - 1 : Ahead(n, h, i) < c - 1}
  <2>1. ASSUME NEW i \in 0 .. n - 1
        PROVE  Ahead(n, h, i) < c - 1 <=> Ahead(n, g, i) < c /\ i # g
    BY <1>1, <1>3 DEF Queues, Ahead
  <2> QED
    BY <2>1 DEF Queues
<1>5. h \in 0 .. n - 1 /\ p = IF h + (c - 1) < n THEN h + (c - 1) ELSE h + (c - 1) - n
  BY <1>1 DEF Queues
<1> QED
  BY <1>1, <1>2, <1>3, <1>4, <1>5 DEF Queues

\* Which places are taken.
LEMMA Ends ==
  ASSUME NEW n \in Nat \ {0}, NEW S, NEW g, NEW p, NEW c, Queues(n, S, g, p, c)
  PROVE  /\ c > 0 <=> g \in S
         /\ c < n <=> p \notin S
BY DEF Queues, Ahead

\* The places in terms of the remainder, and how many there are.
LEMMA Count ==
  ASSUME NEW n \in Nat \ {0}, NEW S, NEW g, NEW p, NEW c, Queues(n, S, g, p, c)
  PROVE  /\ S = {(g + k) % n : k \in 0 .. c - 1}
         /\ p = (g + c) % n
         /\ IsFiniteSet(S) /\ Cardinality(S) = c
<1> DEFINE F == [k \in 0 .. c - 1 |-> IF g + k < n THEN g + k ELSE g + k - n]
<1>1. \A k \in 0 .. c : (g + k) % n = IF g + k < n THEN g + k ELSE g + k - n
  <2>1. g \in 0 .. n - 1 /\ \A k \in 0 .. c : k \in 0 .. n
    BY DEF Queues
  <2> QED
    BY <2>1, WrapSum
<1>2. \A k \in 0 .. c - 1 : F[k] = (g + k) % n /\ F[k] \in S /\ Ahead(n, g, F[k]) = k
  BY <1>1 DEF Queues, Ahead
<1>3. \A i \in S : Ahead(n, g, i) \in 0 .. c - 1 /\ F[Ahead(n, g, i)] = i
  BY DEF Queues, Ahead
<1>4. F \in Bijection(0 .. c - 1, S)
  <2> HIDE DEF F
  <2>1. F \in [0 .. c - 1 -> S]
    BY <1>2 DEF F
  <2>2. \A a, b \in 0 .. c - 1 : F[a] = F[b] => a = b
    BY <1>2
  <2>3. \A i \in S : \E k \in 0 .. c - 1 : F[k] = i
    BY <1>3
  <2> QED
    BY <2>1, <2>2, <2>3, Fun_IsBij
<1>5. S = {(g + k) % n : k \in 0 .. c - 1}
  <2> HIDE DEF F
  <2> QED
    BY <1>2, <1>3
<1>6. IsFiniteSet(0 .. c - 1) /\ Cardinality(0 .. c - 1) = c
  BY FS_Interval DEF Queues
<1>7. IsFiniteSet(S) /\ Cardinality(S) = c
  <2> HIDE DEF F
  <2>1. ExistsBijection(0 .. c - 1, S)
    BY <1>4 DEF ExistsBijection
  <2> QED
    BY <1>6, <2>1, FS_Bijection
<1> QED
  BY <1>1, <1>5, <1>7 DEF Queues
-----------------------------------------------------------------------------
(* Receiving *)

LEMMA RxInit == Init => RxInv
<1> SUFFICES ASSUME Init PROVE RxInv
  OBVIOUS
<1>1. Full = {} /\ Cardinality(Full) = 0
  BY FS_EmptySet DEF Init, Full
<1>2. Queues(RxDescs, {}, 0, 0, 0)
  BY RingAssumption DEF Queues, Ahead
<1>3. Queues(RxDescs, Full, rxGet, rxPos, Cardinality(Full))
  BY <1>1, <1>2 DEF Init
<1>4. rxOwn \in [Rx -> {"dma", "cpu"}] /\ isr = "out" /\ rxFlag = FALSE /\ late = FALSE
  BY DEF Init
<1>5. isr = "clear" => Cardinality(Full) <= IF late THEN 1 ELSE 0
  BY <1>4
<1>6. isr = "out" /\ ~rxFlag => Cardinality(Full) <= 1
  BY <1>1
<1>7. /\ rxFlag \in BOOLEAN /\ late \in BOOLEAN
      /\ isr \in {"out", "test", "take", "input", "clear"}
      /\ isr = "take" => rxGet \in Full
  BY <1>4
<1> QED
  BY <1>3, <1>4, <1>5, <1>6, <1>7, Zenon DEF RxInv

\* A step that leaves the ring alone leaves it in order.
LEMMA RxRingKept ==
  ASSUME RxInv, UNCHANGED <<rxOwn, rxPos, rxGet>>
  PROVE  /\ Full' = Full /\ Cardinality(Full)' = Cardinality(Full)
         /\ (rxOwn \in [Rx -> {"dma", "cpu"}])'
         /\ Queues(RxDescs, Full, rxGet, rxPos, Cardinality(Full))'
BY DEF RxInv, Full, Rx, Queues, Ahead

\* The number of frames that wait is a number, and tells where there is one.
LEMMA RxFacts ==
  ASSUME RxInv
  PROVE  /\ Cardinality(Full) \in Nat
         /\ rxGet \in Rx /\ rxPos \in Rx
         /\ Cardinality(Full) > 0 <=> rxGet \in Full
         /\ Cardinality(Full) < RxDescs <=> rxPos \notin Full
<1>1. Queues(RxDescs, Full, rxGet, rxPos, Cardinality(Full))
  BY DEF RxInv
<1>2. /\ Cardinality(Full) > 0 <=> rxGet \in Full
      /\ Cardinality(Full) < RxDescs <=> rxPos \notin Full
  BY <1>1, Ends, RingAssumption
<1>3. Cardinality(Full) \in Nat /\ rxGet \in Rx /\ rxPos \in Rx
  BY <1>1 DEF Queues, Rx
<1> QED
  BY <1>2, <1>3

LEMMA ArriveRx ==
  ASSUME RxInv, Arrive
  PROVE  RxInv'
<1>1. CASE rxOwn[rxPos] = "dma"
  <2>1. rxPos \in Rx /\ rxPos \notin Full
    BY <1>1, RxFacts DEF Full
  <2>2. rxOwn' = [rxOwn EXCEPT ![rxPos] = "cpu"] /\ rxPos' = (rxPos + 1) % RxDescs
        /\ rxFlag' = TRUE /\ late' = (isr = "clear") /\ (isr = "clear" => ~late)
        /\ isr' = isr /\ rxGet' = rxGet
    BY <1>1 DEF Arrive, RxNext
  <2>3. Full' = Full \cup {rxPos}
    BY <2>1, <2>2 DEF Full, RxInv, Rx
  <2>4. Queues(RxDescs, Full', rxGet', rxPos', Cardinality(Full) + 1)
    BY <2>1, <2>2, <2>3, Put, RingAssumption DEF RxInv
  <2>5. Cardinality(Full)' = Cardinality(Full) + 1
    BY <2>4, Count, RingAssumption
  <2>6. (rxOwn \in [Rx -> {"dma", "cpu"}])'
    BY <2>1, <2>2 DEF RxInv, Rx
  <2>7. isr = "clear" => Cardinality(Full) = 0
    BY <2>2, RxFacts DEF RxInv
  <2>8. Queues(RxDescs, Full, rxGet, rxPos, Cardinality(Full))'
    BY <2>4, <2>5
  <2>9. /\ isr' \in {"out", "test", "take", "input", "clear"}
        /\ rxFlag' = TRUE /\ late' \in BOOLEAN
    BY <2>2 DEF RxInv
  <2>10. isr' = "take" => rxGet' \in Full'
    BY <2>2, <2>3 DEF RxInv
  <2>11. isr' = "clear" => Cardinality(Full)' <= IF late' THEN 1 ELSE 0
    <3>1. isr' = "clear" => late'
      BY <2>2, Zenon
    <3>2. isr' = "clear" => Cardinality(Full)' = 1
      BY <2>2, <2>5, <2>7
    <3> QED
      BY <3>1, <3>2
  <2>12. rxFlag' \in BOOLEAN /\ (isr' = "out" /\ ~rxFlag' => Cardinality(Full)' <= 1)
    BY <2>9
  <2>13. isr' \in {"out", "test", "take", "input", "clear"} /\ late' \in BOOLEAN
    BY <2>9
  <2> QED
    BY <2>6, <2>8, <2>10, <2>11, <2>12, <2>13 DEF RxInv
<1>2. CASE rxOwn[rxPos] # "dma"
  <2>1. UNCHANGED <<rxOwn, rxPos, rxFlag, rxGet, isr>> /\ late' = (isr = "clear")
        /\ (isr = "clear" => ~late)
    BY <1>2 DEF Arrive
  <2>2. /\ Full' = Full /\ Cardinality(Full)' = Cardinality(Full)
        /\ (rxOwn \in [Rx -> {"dma", "cpu"}])'
        /\ Queues(RxDescs, Full, rxGet, rxPos, Cardinality(Full))'
    BY <2>1, RxRingKept
  <2> QED
    BY <2>1, <2>2, RxFacts DEF RxInv
<1> QED
  BY <1>1, <1>2

LEMMA IsrTakeRx ==
  ASSUME RxInv, IsrTake
  PROVE  RxInv'
<1>1. rxGet \in Full /\ rxGet \in Rx
  BY RxFacts DEF IsrTake, RxInv
<1>2. rxOwn' = [rxOwn EXCEPT ![rxGet] = "dma"] /\ rxGet' = (rxGet + 1) % RxDescs
      /\ isr' \in {"input", "test"} /\ UNCHANGED <<rxPos, rxFlag, late>>
  BY DEF IsrTake, RxNext
<1>3. Full' = Full \ {rxGet}
  BY <1>1, <1>2 DEF Full, RxInv, Rx
<1>4. Queues(RxDescs, Full', rxGet', rxPos', Cardinality(Full) - 1)
  BY <1>1, <1>2, <1>3, TakeOut, RingAssumption DEF RxInv
<1>5. Cardinality(Full)' = Cardinality(Full) - 1
  BY <1>4, Count, RingAssumption
<1>6. (rxOwn \in [Rx -> {"dma", "cpu"}])'
  BY <1>1, <1>2 DEF RxInv, Rx
<1> QED
  BY <1>2, <1>4, <1>5, <1>6 DEF RxInv

LEMMA RxStep ==
  ASSUME RxInv, [Next]_vars
  PROVE  RxInv'
<1> DEFINE Kept == /\ Full' = Full /\ Cardinality(Full)' = Cardinality(Full)
                   /\ (rxOwn \in [Rx -> {"dma", "cpu"}])'
                   /\ Queues(RxDescs, Full, rxGet, rxPos, Cardinality(Full))'
<1>1. CASE Arrive
  BY <1>1, ArriveRx
<1>2. CASE IsrTake
  BY <1>2, IsrTakeRx
<1>3. CASE IsrEnter
  <2>1. Kept
    BY <1>3, RxRingKept DEF IsrEnter, rxRing
  <2> QED
    BY <1>3, <2>1 DEF IsrEnter, RxInv
<1>4. CASE IsrTest
  <2>1. Kept
    BY <1>4, RxRingKept DEF IsrTest, rxRing
  <2>2. isr' = "take" => rxGet' \in Full'
    BY <1>4, <2>1, RxFacts DEF IsrTest, Full, rxRing
  <2>3. isr' = "clear" => Cardinality(Full)' = 0
    BY <1>4, <2>1, RxFacts DEF IsrTest, Full, rxRing
  <2>4. isr' \in {"take", "clear"} /\ late' = FALSE /\ rxFlag' = rxFlag
    BY <1>4 DEF IsrTest
  <2>5. rxFlag \in BOOLEAN
    BY DEF RxInv
  <2>6. isr' = "clear" => Cardinality(Full)' <= IF late' THEN 1 ELSE 0
    BY <2>3, <2>4
  <2> HIDE DEF Kept
  <2>7. /\ (rxOwn \in [Rx -> {"dma", "cpu"}])'
        /\ Queues(RxDescs, Full, rxGet, rxPos, Cardinality(Full))'
    BY <2>1 DEF Kept
  <2> QED
    BY <2>2, <2>4, <2>5, <2>6, <2>7 DEF RxInv
<1>5. CASE IsrInput
  <2>1. Kept
    BY <1>5, RxRingKept DEF IsrInput, rxRing
  <2> QED
    BY <1>5, <2>1 DEF IsrInput, RxInv
<1>6. CASE IsrClear
  <2>1. Kept
    BY <1>6, RxRingKept DEF IsrClear, rxRing
  <2>2. Cardinality(Full) <= 1
    BY <1>6, RxFacts DEF IsrClear, RxInv
  <2> QED
    BY <1>6, <2>1, <2>2 DEF IsrClear, RxInv
<1>7. CASE UNCHANGED <<rxRing, handler>>
  <2>1. Kept
    BY <1>7, RxRingKept DEF rxRing
  <2> QED
    BY <1>7, <2>1 DEF RxInv, rxRing, handler
<1>8. CASE Fetch \/ Processed \/ Sends \/ TxFetch \/ UNCHANGED vars
  <2>1. UNCHANGED <<rxRing, handler>>
    BY <1>8 DEF Fetch, Processed, Sends, SendStart, SendCopy, SendSubmit, TxFetch, vars
  <2> QED
    BY <1>7, <2>1
<1> QED
  BY <1>1, <1>2, <1>3, <1>4, <1>5, <1>6, <1>8 DEF Next, Receives

LEMMA RxAlways == Spec => []RxInv
<1>1. RxInv /\ [Next]_vars => RxInv'
  BY RxStep
<1> QED
  BY RxInit, <1>1, PTL DEF Spec

\* Sending alone is a way of sending.
LEMMA AloneIsNext ==
  ASSUME [AloneNext]_vars
  PROVE  [Next]_vars
BY DEF AloneNext, Next, Sends

LEMMA RxAlwaysAlone == AloneSpec => []RxInv
<1>1. RxInv /\ [AloneNext]_vars => RxInv'
  BY RxStep, AloneIsNext
<1> QED
  BY RxInit, <1>1, PTL DEF AloneSpec

LEMMA RxInvMeans == RxInv => RingInOrder /\ AtMostOneUnnoticed
<1> SUFFICES ASSUME RxInv PROVE RingInOrder /\ AtMostOneUnnoticed
  OBVIOUS
<1>1. /\ Full = {(rxGet + k) % RxDescs : k \in 0 .. Cardinality(Full) - 1}
      /\ rxPos = (rxGet + Cardinality(Full)) % RxDescs
  BY Count, RingAssumption DEF RxInv
<1>2. RingInOrder
  BY <1>1 DEF RingInOrder, Full
<1>3. AtMostOneUnnoticed
  BY DEF RxInv, AtMostOneUnnoticed, Full
<1> QED
  BY <1>2, <1>3

\* The handler takes frames in the order of their arrival and skips none,
\* whatever the DMA controller does between two of its steps and however many
\* descriptors, pbufs and messages there are (ETH_IRQHandler, low_level_input).
THEOREM ReceivedInOrder == AloneSpec => []RingInOrder
BY RxAlwaysAlone, RxInvMeans, PTL

\* The pending bit is cleared behind the last look at the ring, but at most
\* one frame can wait because of it.
THEOREM OneUnnoticedAtMost == AloneSpec => []AtMostOneUnnoticed
BY RxAlwaysAlone, RxInvMeans, PTL

\* Neither depends on who sends: they hold for racing senders too.
THEOREM ReceptionIgnoresSenders == Spec => [](RingInOrder /\ AtMostOneUnnoticed)
BY RxAlways, RxInvMeans, PTL
-----------------------------------------------------------------------------
(* Pools *)

LEMMA SizesAreCounts ==
  /\ Sizes \subseteq Nat \ {0} /\ Sizes \cup {0} \subseteq Nat
  /\ \A q \in Seq(Sizes) : q \in Seq(Nat)
<1>1. Sizes \subseteq Nat \ {0} /\ Sizes \cup {0} \subseteq Nat
  BY PoolAssumption
<1>2. ASSUME NEW q \in Seq(Sizes) PROVE q \in Seq(Nat)
  <2>1. Len(q) \in Nat /\ q \in [1 .. Len(q) -> Sizes]
    BY LenProperties
  <2>2. q \in [1 .. Len(q) -> Nat]
    BY <1>1, <2>1
  <2> QED
    BY <2>1, <2>2, SeqDef
<1> QED
  BY <1>1, <1>2

LEMMA PoolInit == Init => PoolInv
<1> SUFFICES ASSUME Init PROVE PoolInv
  OBVIOUS
<1>1. PoolTypes
  BY PoolAssumption DEF Init, PoolTypes
<1>2. NoLeak
  BY TotalOfNone, PoolAssumption DEF Init, NoLeak
<1>3. (\A i \in Full : rxSize[i] # 0) /\ (isr = "input" <=> held # 0)
  BY DEF Init, Full
<1> QED
  BY <1>1, <1>2, <1>3 DEF PoolInv

\* A step that leaves the pools, the mailbox and both packets alone.
LEMMA PoolsKept ==
  ASSUME PoolInv, UNCHANGED <<rxSize, held, stack>>,
         Full' \subseteq Full, isr' = "input" <=> isr = "input"
  PROVE  PoolInv'
<1>1. UNCHANGED <<rxSize, held, mbox, msg, pbufs, inpkts>>
  BY DEF stack
<1>2. PoolTypes' /\ NoLeak'
  BY <1>1 DEF PoolInv, PoolTypes, NoLeak
<1>3. (\A i \in Full : rxSize[i] # 0)' /\ (isr = "input" <=> held # 0)'
  BY <1>1 DEF PoolInv
<1> QED
  BY <1>2, <1>3 DEF PoolInv

LEMMA ArrivePools ==
  ASSUME RxInv, PoolInv, Arrive
  PROVE  PoolInv'
<1>1. CASE rxOwn[rxPos] = "dma"
  <2>1. PICK n \in Sizes : rxSize' = [rxSize EXCEPT ![rxPos] = n]
    BY <1>1 DEF Arrive
  <2>2. /\ rxOwn' = [rxOwn EXCEPT ![rxPos] = "cpu"]
        /\ UNCHANGED <<isr, held, mbox, msg, pbufs, inpkts>>
    BY <1>1 DEF Arrive, stack
  <2>3. n # 0 /\ rxPos \in Rx
    BY SizesAreCounts, RxFacts
  <2>4. PoolTypes' /\ NoLeak'
    BY <2>1, <2>2, <2>3 DEF PoolInv, PoolTypes, NoLeak
  <2>5. ASSUME NEW i \in Full' PROVE rxSize'[i] # 0
    <3>1. i \in Rx /\ (i = rxPos \/ i \in Full)
      BY <2>2 DEF Full, RxInv, Rx
    <3> QED
      BY <2>1, <2>3, <3>1 DEF PoolInv, PoolTypes
  <2> QED
    BY <2>2, <2>4, <2>5 DEF PoolInv
<1>2. CASE rxOwn[rxPos] # "dma"
  <2>1. UNCHANGED <<rxOwn, rxSize, isr, held, stack>>
    BY <1>2 DEF Arrive
  <2>2. Full' = Full
    BY <2>1 DEF Full
  <2> QED
    BY <2>1, <2>2, PoolsKept
<1> QED
  BY <1>1, <1>2

\* The packet moves from the descriptor into pbufs, or is dropped.
LEMMA IsrTakePools ==
  ASSUME RxInv, PoolInv, IsrTake
  PROVE  PoolInv'
<1> DEFINE n == rxSize[rxGet]
<1>1. rxGet \in Full /\ rxGet \in Rx /\ isr = "take"
  BY RxFacts DEF IsrTake, RxInv
<1>2. n \in Sizes /\ n # 0 /\ n \in Nat
  BY <1>1, SizesAreCounts DEF PoolInv, PoolTypes
<1>3. held = 0 /\ isr # "input"
  BY <1>1 DEF PoolInv
<1>4. /\ rxOwn' = [rxOwn EXCEPT ![rxGet] = "dma"]
      /\ UNCHANGED <<rxSize, mbox, msg, inpkts>>
  BY DEF IsrTake
<1>5. Full' \subseteq Full
  BY <1>1, <1>4 DEF Full, RxInv, Rx
<1>6. CASE n <= pbufs
  <2>1. pbufs' = pbufs - n /\ held' = n /\ isr' = "input"
    BY <1>6 DEF IsrTake
  <2> HIDE DEF n
  <2>2. pbufs \in Nat /\ msg \in Nat /\ Total(mbox) \in Nat /\ mbox \in Seq(Sizes)
    BY SizesAreCounts, TotalOfMore DEF PoolInv, PoolTypes
  <2>3. PoolTypes'
    BY <1>2, <1>4, <1>6, <2>1, <2>2 DEF PoolInv, PoolTypes
  <2>4. NoLeak'
    BY <1>2, <1>3, <1>4, <1>6, <2>1, <2>2 DEF PoolInv, NoLeak
  <2> QED
    BY <1>2, <1>4, <1>5, <2>1, <2>3, <2>4 DEF PoolInv
<1>7. CASE ~(n <= pbufs)
  <2>1. isr' = "test" /\ UNCHANGED <<pbufs, held>>
    BY <1>7 DEF IsrTake
  <2> QED
    BY <1>3, <1>4, <1>5, <2>1, PoolsKept DEF stack
<1> QED
  BY <1>6, <1>7

\* The packet moves into the mailbox, or back into the pool.
LEMMA IsrInputPools ==
  ASSUME PoolInv, IsrInput
  PROVE  PoolInv'
<1>1. isr = "input" /\ held \in Sizes /\ held \in Nat
  BY SizesAreCounts DEF IsrInput, PoolInv, PoolTypes
<1>2. /\ pbufs \in Nat /\ msg \in Nat /\ inpkts \in Nat /\ mbox \in Seq(Sizes)
      /\ Len(mbox) \in Nat /\ Len(mbox) <= MboxSize /\ MboxSize \in Nat
  BY SizesAreCounts, PoolAssumption DEF PoolInv, PoolTypes
<1>3. /\ held' = 0 /\ isr' = "test" /\ UNCHANGED <<rxOwn, rxSize, msg>>
  BY DEF IsrInput, rxRing
<1>4. Full' = Full
  BY <1>3 DEF Full
<1>5. Total(mbox) \in Nat /\ Total(Append(mbox, held)) = Total(mbox) + held
  BY <1>1, <1>2, SizesAreCounts, TotalOfMore
<1>6. CASE inpkts > 0 /\ Len(mbox) < MboxSize
  <2>1. mbox' = Append(mbox, held) /\ inpkts' = inpkts - 1 /\ pbufs' = pbufs
    BY <1>6 DEF IsrInput
  <2>2. mbox' \in Seq(Sizes) /\ Len(mbox') = Len(mbox) + 1
    BY <1>1, <1>2, <2>1
  <2>3. PoolTypes'
    BY <1>2, <1>3, <1>6, <2>1, <2>2 DEF PoolInv, PoolTypes
  <2>4. Total(mbox)' = Total(mbox) + held
    BY <1>5, <2>1
  <2>5. NoLeak'
    BY <1>1, <1>2, <1>3, <1>5, <1>6, <2>1, <2>2, <2>4 DEF PoolInv, NoLeak
  <2> QED
    BY <1>3, <1>4, <2>3, <2>5 DEF PoolInv
<1>7. CASE ~(inpkts > 0 /\ Len(mbox) < MboxSize)
  <2>1. pbufs' = pbufs + held /\ UNCHANGED <<mbox, inpkts>>
    BY <1>7 DEF IsrInput
  <2>2. PoolTypes'
    BY <1>1, <1>2, <1>3, <2>1 DEF PoolInv, PoolTypes
  <2>3. NoLeak'
    BY <1>1, <1>2, <1>3, <1>5, <2>1 DEF PoolInv, NoLeak
  <2> QED
    BY <1>3, <1>4, <2>2, <2>3 DEF PoolInv
<1> QED
  BY <1>6, <1>7

LEMMA FetchPools ==
  ASSUME PoolInv, Fetch
  PROVE  PoolInv'
<1>1. /\ msg = 0 /\ mbox # <<>> /\ msg' = Head(mbox) /\ mbox' = Tail(mbox)
      /\ UNCHANGED <<rxOwn, rxSize, isr, held, pbufs, inpkts>>
  BY DEF Fetch, rxRing, handler
<1>2. /\ pbufs \in Nat /\ held \in Nat /\ inpkts \in Nat /\ mbox \in Seq(Sizes)
      /\ Len(mbox) \in Nat /\ Len(mbox) <= MboxSize /\ MboxSize \in Nat
  BY SizesAreCounts, PoolAssumption DEF PoolInv, PoolTypes
<1>3. /\ Head(mbox) \in Sizes /\ Tail(mbox) \in Seq(Sizes)
      /\ Len(Tail(mbox)) = Len(mbox) - 1 /\ Len(mbox) > 0
  BY <1>1, <1>2
<1>4. Total(Tail(mbox)) \in Nat /\ Total(mbox) = Head(mbox) + Total(Tail(mbox))
  BY <1>1, <1>2, SizesAreCounts, TotalOfRest
<1>5. msg' \in Nat /\ msg' # 0
  BY <1>1, <1>3, SizesAreCounts
<1>6. PoolTypes'
  BY <1>1, <1>2, <1>3 DEF PoolInv, PoolTypes
<1>7. NoLeak'
  <2>1. Total(mbox)' = Total(Tail(mbox)) /\ Len(mbox)' = Len(mbox) - 1
    BY <1>1, <1>3
  <2>2. /\ pbufs' = pbufs /\ held' = held /\ inpkts' = inpkts
        /\ msg' = Head(mbox)
    BY <1>1
  <2>3. /\ pbufs + held + 0 + Total(mbox) = PbufPool
        /\ inpkts + Len(mbox) + 0 = InpktPool
    BY <1>1, <1>2 DEF PoolInv, NoLeak
  <2> QED
    BY <1>2, <1>3, <1>4, <1>5, <2>1, <2>2, <2>3 DEF NoLeak
<1>8. Full' = Full
  BY <1>1 DEF Full
<1> QED
  BY <1>1, <1>6, <1>7, <1>8 DEF PoolInv

LEMMA ProcessedPools ==
  ASSUME PoolInv, Processed
  PROVE  PoolInv'
<1>1. /\ msg # 0 /\ pbufs' = pbufs + msg /\ inpkts' = inpkts + 1 /\ msg' = 0
      /\ UNCHANGED <<rxOwn, rxSize, isr, held, mbox>>
  BY DEF Processed, rxRing, handler
<1>2. /\ pbufs \in Nat /\ held \in Nat /\ inpkts \in Nat /\ msg \in Nat /\ mbox \in Seq(Sizes)
      /\ Len(mbox) \in Nat /\ Total(mbox) \in Nat
  BY SizesAreCounts, TotalOfMore DEF PoolInv, PoolTypes
<1>3. PoolTypes'
  BY <1>1, <1>2 DEF PoolInv, PoolTypes
<1>4. NoLeak'
  BY <1>1, <1>2 DEF PoolInv, NoLeak
<1>5. Full' = Full
  BY <1>1 DEF Full
<1> QED
  BY <1>1, <1>3, <1>4, <1>5 DEF PoolInv

LEMMA PoolStep ==
  ASSUME RxInv, PoolInv, [Next]_vars
  PROVE  PoolInv'
<1>1. CASE IsrEnter \/ IsrTest \/ IsrClear
  <2>1. UNCHANGED <<rxOwn, rxSize, held, stack>> /\ isr # "input" /\ isr' # "input"
    BY <1>1 DEF IsrEnter, IsrTest, IsrClear, rxRing
  <2>2. Full' = Full
    BY <2>1 DEF Full
  <2> QED
    BY <2>1, <2>2, PoolsKept
<1>2. CASE Sends \/ TxFetch \/ UNCHANGED vars
  <2>1. UNCHANGED <<rxRing, handler, stack>>
    BY <1>2 DEF Sends, SendStart, SendCopy, SendSubmit, TxFetch, vars
  <2>2. UNCHANGED <<rxOwn, rxSize, held, isr, stack>>
    BY <2>1 DEF rxRing, handler
  <2>3. Full' = Full
    BY <2>2 DEF Full
  <2> QED
    BY <2>2, <2>3, PoolsKept
<1>3. CASE Receives
  BY <1>1, <1>3, ArrivePools, IsrTakePools, IsrInputPools, FetchPools, ProcessedPools DEF Receives
<1> QED
  BY <1>2, <1>3 DEF Next

\* Every pbuf and every message is in its pool, with the handler, in the
\* mailbox or with the TCP/IP thread, whichever of the two pools or the mailbox
\* runs out and whoever sends (low_level_input, tcpip_input, tcpip_thread).
THEOREM NothingLost == AloneSpec => []NoLeak
<1>1. RxInv /\ PoolInv /\ [AloneNext]_vars => PoolInv'
  BY PoolStep, AloneIsNext
<1>2. PoolInv => NoLeak
  BY DEF PoolInv
<1> QED
  BY RxAlwaysAlone, PoolInit, <1>1, <1>2, PTL DEF AloneSpec

\* The sender's variables, racing or not.
SenderTypes ==
  /\ txOwn \in [Tx -> {"dma", "cpu"}] /\ txBuf \in [Tx -> Frames]
  /\ txPos \in Tx /\ txSet \in Tx
  /\ snd \in [Threads -> {"no", "copy", "submit"}] /\ target \in [Threads -> Tx]
  /\ frame \in [Threads -> Frames] /\ given \in Seq(Frames)

LEMMA SenderTypesInit == Init => SenderTypes
<1>1. 0 \in Tx /\ 1 \in Threads
  BY RingAssumption, ThreadAssumption DEF Tx, Threads
<1>2. <<1, 1>> \in Frames /\ \A t \in Threads : <<t, 0>> \in Frames
  BY <1>1 DEF Frames
<1>3. <<>> \in Seq(Frames)
  OBVIOUS
<1> QED
  BY <1>1, <1>2, <1>3 DEF Init, SenderTypes

LEMMA SenderTypesStep ==
  ASSUME SenderTypes, [Next]_vars
  PROVE  SenderTypes'
<1>1. \A i \in Tx : TxNext(i) \in Tx
  <2>1. ASSUME NEW i \in 0 .. TxDescs - 1 PROVE (i + 1) % TxDescs \in 0 .. TxDescs - 1
    <3>1. TxDescs \in Nat \ {0} /\ 1 \in 0 .. TxDescs
      BY RingAssumption
    <3>2. (i + 1) % TxDescs = IF i + 1 < TxDescs THEN i + 1 ELSE i + 1 - TxDescs
      BY <3>1, WrapSum
    <3> QED
      BY <3>1, <3>2
  <2> QED
    BY <2>1 DEF Tx, TxNext
<1>2. CASE Receives \/ UNCHANGED vars
  <2>1. UNCHANGED tx
    BY <1>2 DEF Receives, Arrive, IsrEnter, IsrTest, IsrTake, IsrInput, IsrClear,
                Fetch, Processed, vars
  <2> QED
    BY <2>1 DEF tx, SenderTypes
<1>3. CASE TxFetch
  <2>1. given' \in Seq(Frames)
    BY <1>3 DEF TxFetch, SenderTypes
  <2> QED
    BY <1>1, <1>3, <2>1 DEF TxFetch, SenderTypes
<1>4. ASSUME NEW t \in Threads, SendStart(t) PROVE SenderTypes'
  BY <1>4 DEF SendStart, SenderTypes
<1>5. ASSUME NEW t \in Threads, SendCopy(t) PROVE SenderTypes'
  BY <1>5 DEF SendCopy, SenderTypes
<1>6. ASSUME NEW t \in Threads, SendSubmit(t) PROVE SenderTypes'
  <2>1. PICK a \in Threads, b \in {0, 1} : frame[t] = <<a, b>>
    <3>1. frame[t] \in Frames
      BY DEF SenderTypes
    <3> QED
      BY <3>1 DEF Frames
  <2>2. [frame[t] EXCEPT ![2] = 1 - @] = <<a, 1 - b>>
    BY <2>1
  <2>3. frame' \in [Threads -> Frames]
    <3>1. <<a, 1 - b>> \in Frames
      BY <2>1 DEF Frames
    <3> QED
      BY <1>6, <2>2, <3>1 DEF SendSubmit, SenderTypes
  <2>4. given' \in Seq(Frames)
    BY <1>6 DEF SendSubmit, SenderTypes
  <2>5. txSet' \in Tx /\ txOwn' \in [Tx -> {"dma", "cpu"}]
    BY <1>1, <1>6 DEF SendSubmit, SenderTypes
  <2>6. /\ snd' = [snd EXCEPT ![t] = "no"]
        /\ UNCHANGED <<txBuf, txPos, target>>
    BY <1>6 DEF SendSubmit
  <2> QED
    BY <2>3, <2>4, <2>5, <2>6 DEF SenderTypes
<1> QED
  BY <1>2, <1>3, <1>4, <1>5, <1>6 DEF Next, Sends

\* Every variable of the driver keeps its type, and the pools and the mailbox
\* their bounds, for rings and pools of any size and for racing senders too.
THEOREM TypeCorrect == Spec => []TypeOK
<1>1. RxInv /\ PoolInv /\ SenderTypes /\ [Next]_vars => PoolInv' /\ SenderTypes'
  BY PoolStep, SenderTypesStep
<1>2. RxInv /\ PoolInv /\ SenderTypes => TypeOK
  <2> SUFFICES ASSUME RxInv, PoolInv, SenderTypes PROVE TypeOK
    OBVIOUS
  <2>1. pbufs \in 0 .. PbufPool /\ inpkts \in 0 .. InpktPool
    <3>1. /\ pbufs \in Nat /\ held \in Nat /\ inpkts \in Nat /\ msg \in Nat
          /\ Len(mbox) \in Nat /\ Total(mbox) \in Nat
      BY SizesAreCounts, TotalOfMore DEF PoolInv, PoolTypes
    <3>2. /\ pbufs + held + msg + Total(mbox) = PbufPool
          /\ \E k \in {0, 1} : inpkts + Len(mbox) + k = InpktPool
      BY DEF PoolInv, NoLeak
    <3> DEFINE total == Total(mbox)
               length == Len(mbox)
    <3> HIDE DEF total, length
    <3>3. /\ pbufs + held + msg + total = PbufPool /\ total \in Nat /\ length \in Nat
          /\ \E k \in {0, 1} : inpkts + length + k = InpktPool
      BY <3>1, <3>2 DEF total, length
    <3> QED
      BY <3>1, <3>3, PoolAssumption
  <2>2. rxPos \in Rx /\ rxGet \in Rx
    BY RxFacts
  <2> QED
    BY <2>1, <2>2 DEF TypeOK, RxInv, PoolInv, PoolTypes, SenderTypes
<1> QED
  BY RxAlways, PoolInit, SenderTypesInit, <1>1, <1>2, PTL DEF Spec
-----------------------------------------------------------------------------
(* Sending, one at a time *)

TxTypes ==
  /\ txOwn \in [Tx -> {"dma", "cpu"}] /\ txBuf \in [Tx -> Frames]
  /\ snd \in [Threads -> {"no", "copy", "submit"}] /\ target \in [Threads -> Tx]
  /\ frame \in [Threads -> Frames] /\ given \in Seq(Frames)

TxRing == Queues(TxDescs, Outgoing, txPos, txSet, Len(given))

BuffersHold == \A i \in Outgoing : txBuf[i] = given[Ahead(TxDescs, txPos, i) + 1]

OneSender == \A t, u \in Threads : snd[t] # "no" /\ snd[u] # "no" => t = u

NextIsFree == \A t \in Threads : snd[t] # "no" => target[t] = txSet /\ Len(given) < TxDescs

CopiedIsKept == \A t \in Threads : snd[t] = "submit" => txBuf[txSet] = frame[t]

LEMMA TxParts ==
  TxInv <=> /\ TxTypes /\ TxRing /\ BuffersHold /\ OneSender /\ NextIsFree /\ CopiedIsKept
BY DEF TxInv, TxTypes, TxRing, BuffersHold, OneSender, NextIsFree, CopiedIsKept

LEMMA TxPartsNext ==
  TxInv' <=> /\ TxTypes' /\ TxRing' /\ BuffersHold'
             /\ OneSender' /\ NextIsFree' /\ CopiedIsKept'
BY DEF TxInv, TxTypes, TxRing, BuffersHold, OneSender, NextIsFree, CopiedIsKept

LEMMA TxFacts ==
  ASSUME TxTypes, TxRing
  PROVE  /\ Len(given) \in Nat /\ Len(given) <= TxDescs
         /\ txPos \in Tx /\ txSet \in Tx
         /\ Len(given) > 0 <=> txPos \in Outgoing
         /\ Len(given) < TxDescs <=> txSet \notin Outgoing
         /\ Cardinality(Outgoing) = Len(given)
         /\ \A i \in Outgoing : /\ i \in Tx
                                /\ Ahead(TxDescs, txPos, i) \in 0 .. Len(given) - 1
<1>1. /\ Len(given) > 0 <=> txPos \in Outgoing
      /\ Len(given) < TxDescs <=> txSet \notin Outgoing
      /\ Cardinality(Outgoing) = Len(given)
  BY Ends, Count, RingAssumption DEF TxRing
<1>2. Len(given) \in Nat /\ Len(given) <= TxDescs /\ txPos \in Tx /\ txSet \in Tx
  BY DEF TxRing, Queues, Tx
<1>3. \A i \in Outgoing : i \in Tx /\ Ahead(TxDescs, txPos, i) \in 0 .. Len(given) - 1
  BY RingAssumption DEF TxRing, Queues, Tx, Ahead
<1> QED
  BY <1>1, <1>2, <1>3

LEMMA TxInit == Init => TxInv
<1> SUFFICES ASSUME Init PROVE TxInv
  OBVIOUS
<1>1. Outgoing = {} /\ Len(given) = 0 /\ given \in Seq(Frames)
  BY DEF Init, Outgoing
<1>2. Queues(TxDescs, {}, 0, 0, 0)
  BY RingAssumption DEF Queues, Ahead
<1>3. TxRing
  BY <1>1, <1>2 DEF Init, TxRing
<1>4. 1 \in Threads /\ <<1, 1>> \in Frames
  BY ThreadAssumption DEF Threads, Frames
<1>5. 0 \in Tx
  BY RingAssumption DEF Tx
<1>6. \A t \in Threads : <<t, 0>> \in Frames
  BY DEF Frames
<1>7. TxTypes
  BY <1>1, <1>4, <1>5, <1>6 DEF Init, TxTypes
<1>8. BuffersHold /\ OneSender /\ NextIsFree /\ CopiedIsKept
  BY <1>1 DEF Init, BuffersHold, OneSender, NextIsFree, CopiedIsKept
<1> QED
  BY <1>3, <1>7, <1>8, TxParts

LEMMA SendStartTx ==
  ASSUME TxTypes, TxRing, BuffersHold, OneSender, NextIsFree, CopiedIsKept,
         NEW t \in Threads, Room, SendStart(t), \A u \in Threads : snd[u] = "no"
  PROVE  TxInv'
<1>1. /\ target' = [target EXCEPT ![t] = txSet] /\ snd' = [snd EXCEPT ![t] = "copy"]
      /\ UNCHANGED <<txOwn, txBuf, txPos, txSet, frame, given>>
  BY DEF SendStart
<1>2. {u \in Threads : snd[u] # "no"} = {}
  OBVIOUS
<1>3. Len(given) < TxDescs
  <2>1. Cardinality({i \in Tx : txOwn[i] = "dma"}) = Len(given)
    BY TxFacts DEF Outgoing
  <2>2. Cardinality({u \in Threads : snd[u] # "no"}) = 0
    BY <1>2, FS_EmptySet
  <2> QED
    BY <2>1, <2>2, TxFacts DEF Room
<1>4. Outgoing' = Outgoing
  BY <1>1 DEF Outgoing
<1>5. TxTypes'
  BY <1>1, TxFacts DEF TxTypes
<1>6. TxRing' /\ BuffersHold'
  BY <1>1, <1>4 DEF TxRing, BuffersHold
<1>7. \A u \in Threads : snd'[u] # "no" => u = t
  BY <1>1 DEF TxTypes
<1>8. OneSender' /\ NextIsFree' /\ CopiedIsKept'
  BY <1>1, <1>3, <1>7 DEF OneSender, NextIsFree, CopiedIsKept, TxTypes
<1> QED
  BY <1>5, <1>6, <1>8, TxPartsNext

\* Only t may be sending.
LEMMA OthersDoNotSend ==
  ASSUME OneSender, NEW t \in Threads, snd[t] # "no"
  PROVE  \A u \in Threads \ {t} : snd[u] = "no"
BY DEF OneSender

LEMMA SendCopyTx ==
  ASSUME TxTypes, TxRing, BuffersHold, OneSender, NextIsFree, CopiedIsKept,
         NEW t \in Threads, SendCopy(t)
  PROVE  TxInv'
<1>1. /\ txBuf' = [txBuf EXCEPT ![target[t]] = frame[t]]
      /\ snd' = [snd EXCEPT ![t] = "submit"] /\ snd[t] = "copy"
      /\ UNCHANGED <<txOwn, txPos, txSet, target, frame, given>>
  BY DEF SendCopy
<1>2. target[t] = txSet /\ Len(given) < TxDescs
  BY <1>1 DEF NextIsFree
<1>3. txSet \notin Outgoing /\ txSet \in Tx
  BY <1>2, TxFacts
<1>4. Outgoing' = Outgoing
  BY <1>1 DEF Outgoing
<1>5. TxTypes'
  BY <1>1 DEF TxTypes
<1>6. TxRing'
  BY <1>1, <1>4 DEF TxRing
<1>7. BuffersHold'
  BY <1>1, <1>2, <1>3, <1>4, TxFacts DEF BuffersHold, TxTypes
<1>8. \A u \in Threads : snd'[u] # "no" => u = t
  BY <1>1, OthersDoNotSend DEF TxTypes
<1>9. txBuf'[txSet] = frame[t]
  BY <1>1, <1>2, <1>3 DEF TxTypes
<1>10. OneSender' /\ NextIsFree' /\ CopiedIsKept'
  BY <1>1, <1>2, <1>8, <1>9 DEF OneSender, NextIsFree, CopiedIsKept
<1> QED
  BY <1>5, <1>6, <1>7, <1>10, TxPartsNext

\* The descriptor is free and its buffer holds the frame.
LEMMA SendSubmitTx ==
  ASSUME TxTypes, TxRing, BuffersHold, OneSender, NextIsFree, CopiedIsKept,
         NEW t \in Threads, SendSubmit(t)
  PROVE  TxInv'
<1>1. snd[t] = "submit" /\ txBuf[txSet] = frame[t] /\ Len(given) < TxDescs
  BY DEF SendSubmit, CopiedIsKept, NextIsFree
<1>2. txSet \notin Outgoing /\ txSet \in Tx
  BY <1>1, TxFacts
<1>3. txOwn[txSet] = "cpu"
  BY <1>2 DEF Outgoing, TxTypes
<1>4. /\ txOwn' = [txOwn EXCEPT ![txSet] = "dma"] /\ txSet' = (txSet + 1) % TxDescs
      /\ given' = Append(given, frame[t]) /\ frame' = [frame EXCEPT ![t][2] = 1 - @]
      /\ snd' = [snd EXCEPT ![t] = "no"] /\ UNCHANGED <<txBuf, txPos, target>>
  BY <1>3 DEF SendSubmit, TxNext
<1>5. Outgoing' = Outgoing \cup {txSet}
  BY <1>2, <1>4 DEF Outgoing, TxTypes
<1>6. Len(given') = Len(given) + 1 /\ given' \in Seq(Frames)
  BY <1>4 DEF TxTypes
<1>7. TxRing'
  <2>1. Queues(TxDescs, Outgoing \cup {txSet}, txPos, (txSet + 1) % TxDescs, Len(given) + 1)
    BY <1>2, Put, RingAssumption DEF TxRing
  <2> QED
    BY <1>4, <1>5, <1>6, <2>1 DEF TxRing
<1>8. TxTypes'
  <2>1. [frame[t] EXCEPT ![2] = 1 - @] \in Frames
    <3>1. PICK a \in Threads, b \in {0, 1} : frame[t] = <<a, b>>
      <4>1. frame[t] \in Frames
        BY DEF TxTypes
      <4> QED
        BY <4>1 DEF Frames
    <3>2. [frame[t] EXCEPT ![2] = 1 - @] = <<a, 1 - b>>
      BY <3>1
    <3> QED
      BY <3>2 DEF Frames
  <2>2. frame' \in [Threads -> Frames]
    BY <1>4, <2>1 DEF TxTypes
  <2> QED
    BY <1>2, <1>4, <1>6, <2>2 DEF TxTypes
<1>9. Ahead(TxDescs, txPos, txSet) = Len(given)
  <2>1. /\ Len(given) \in 0 .. TxDescs /\ txPos \in 0 .. TxDescs - 1
        /\ txSet = IF txPos + Len(given) < TxDescs
                     THEN txPos + Len(given) ELSE txPos + Len(given) - TxDescs
    BY DEF TxRing, Queues
  <2> QED
    BY <1>1, <2>1, RingAssumption DEF Ahead
<1>10. BuffersHold'
  <2> SUFFICES ASSUME NEW i \in Outgoing'
               PROVE  txBuf'[i] = given'[Ahead(TxDescs, txPos', i) + 1]
    BY DEF BuffersHold
  <2>1. CASE i = txSet
    BY <1>1, <1>4, <1>9, <2>1, TxFacts DEF TxTypes
  <2>2. CASE i \in Outgoing
    <3>1. Ahead(TxDescs, txPos, i) \in 0 .. Len(given) - 1
      BY <2>2, TxFacts
    <3>2. txBuf[i] = given[Ahead(TxDescs, txPos, i) + 1]
      BY <2>2 DEF BuffersHold
    <3>3. Ahead(TxDescs, txPos, i) + 1 \in 1 .. Len(given)
      BY <3>1, TxFacts
    <3> QED
      BY <1>4, <3>2, <3>3 DEF TxTypes
  <2> QED
    BY <1>5, <2>1, <2>2
<1>11. \A u \in Threads : snd'[u] = "no"
  BY <1>1, <1>4, OthersDoNotSend DEF TxTypes
<1>12. OneSender' /\ NextIsFree' /\ CopiedIsKept'
  BY <1>11 DEF OneSender, NextIsFree, CopiedIsKept
<1> QED
  BY <1>7, <1>8, <1>10, <1>12, TxPartsNext

LEMMA TxFetchTx ==
  ASSUME TxTypes, TxRing, BuffersHold, OneSender, NextIsFree, CopiedIsKept, TxFetch
  PROVE  TxInv' /\ given # <<>> /\ txBuf[txPos] = Head(given)
<1>1. txPos \in Outgoing /\ txPos \in Tx
  BY TxFacts DEF TxFetch, Outgoing
<1>2. Len(given) > 0 /\ given # <<>>
  BY <1>1, TxFacts DEF TxTypes
<1>3. /\ txOwn' = [txOwn EXCEPT ![txPos] = "cpu"] /\ txPos' = (txPos + 1) % TxDescs
      /\ given' = Tail(given)
      /\ UNCHANGED <<txBuf, txSet, snd, target, frame>>
  BY <1>2 DEF TxFetch, TxNext
<1>4. txBuf[txPos] = Head(given)
  <2>1. Ahead(TxDescs, txPos, txPos) = 0
    BY <1>1 DEF Ahead, Tx
  <2>2. txBuf[txPos] = given[1]
    BY <1>1, <2>1 DEF BuffersHold
  <2> QED
    BY <1>2, <2>2 DEF TxTypes
<1>5. /\ Len(given') = Len(given) - 1 /\ given' \in Seq(Frames)
      /\ \A j \in 1 .. Len(given) - 1 : given'[j] = given[j + 1]
  BY <1>2, <1>3 DEF TxTypes
<1>6. Outgoing' = Outgoing \ {txPos}
  BY <1>1, <1>3 DEF Outgoing, TxTypes
<1>7. TxRing' /\ \A i \in Outgoing' : Ahead(TxDescs, txPos', i) = Ahead(TxDescs, txPos, i) - 1
  <2>1. /\ Queues(TxDescs, Outgoing \ {txPos}, (txPos + 1) % TxDescs, txSet, Len(given) - 1)
        /\ \A i \in Outgoing \ {txPos} :
             Ahead(TxDescs, txPos', i) = Ahead(TxDescs, txPos, i) - 1
    <3>1. Queues(TxDescs, Outgoing, txPos, txSet, Len(given)) /\ TxDescs \in Nat \ {0}
      BY RingAssumption DEF TxRing
    <3>2. Queues(TxDescs, Outgoing \ {txPos}, (txPos + 1) % TxDescs, txSet, Len(given) - 1)
      BY <1>1, <3>1, TakeOut
    <3>3. ASSUME NEW i \in Outgoing \ {txPos}
          PROVE  Ahead(TxDescs, txPos', i) = Ahead(TxDescs, txPos, i) - 1
      <4>1. i \in 0 .. TxDescs - 1 /\ txPos \in 0 .. TxDescs - 1 /\ i # txPos
        BY <1>1 DEF Outgoing, Tx
      <4> QED
        BY <1>3, <3>1, <4>1, AheadOfNext
    <3> QED
      BY <3>2, <3>3
  <2> QED
    BY <1>3, <1>5, <1>6, <2>1 DEF TxRing
<1>8. TxTypes'
  BY <1>1, <1>3, <1>5 DEF TxTypes
<1>9. BuffersHold'
  <2> SUFFICES ASSUME NEW i \in Outgoing'
               PROVE  txBuf'[i] = given'[Ahead(TxDescs, txPos', i) + 1]
    BY DEF BuffersHold
  <2>1. i \in Outgoing /\ txBuf[i] = given[Ahead(TxDescs, txPos, i) + 1]
    BY <1>6 DEF BuffersHold
  <2>2. Ahead(TxDescs, txPos', i) = Ahead(TxDescs, txPos, i) - 1
    BY <1>7
  <2>3. Ahead(TxDescs, txPos', i) \in 0 .. Len(given) - 2
    <3>1. Queues(TxDescs, Outgoing', txPos', txSet', Len(given'))
      BY <1>7 DEF TxRing
    <3>2. Ahead(TxDescs, txPos', i) < Len(given') /\ i \in 0 .. TxDescs - 1
      BY <3>1 DEF Queues
    <3>3. txPos' \in 0 .. TxDescs - 1
      BY <3>1 DEF Queues
    <3>4. Ahead(TxDescs, txPos', i) \in Nat
      BY <3>2, <3>3, AheadType, RingAssumption
    <3> QED
      BY <1>5, <3>2, <3>4, TxFacts
  <2>4. Ahead(TxDescs, txPos, i) \in 0 .. Len(given) - 1
    BY <2>1, TxFacts
  <2>5. Ahead(TxDescs, txPos, i) \in 1 .. Len(given) - 1
    BY <2>2, <2>3, <2>4, TxFacts
  <2>6. given'[Ahead(TxDescs, txPos, i)] = given[Ahead(TxDescs, txPos, i) + 1]
    BY <1>5, <2>5
  <2>7. Ahead(TxDescs, txPos', i) + 1 = Ahead(TxDescs, txPos, i)
    BY <2>2, <2>5, TxFacts
  <2> QED
    BY <1>3, <2>1, <2>6, <2>7
<1>10. OneSender' /\ NextIsFree' /\ CopiedIsKept'
  <2>1. Len(given) < TxDescs => Len(given') < TxDescs
    BY <1>5, TxFacts, RingAssumption
  <2> QED
    BY <1>3, <2>1 DEF OneSender, NextIsFree, CopiedIsKept
<1> QED
  BY <1>2, <1>4, <1>7, <1>8, <1>9, <1>10, TxPartsNext

LEMMA TxStep ==
  ASSUME TxInv, [AloneNext]_vars
  PROVE  TxInv' /\ (TxFetch => given # <<>> /\ txBuf[txPos] = Head(given))
<1> USE TxParts
<1>1. CASE TxFetch
  BY <1>1, TxFetchTx
<1>2. ASSUME NEW t \in Threads, Room, SendStart(t), \A u \in Threads : snd[u] = "no"
      PROVE  TxInv'
  BY <1>2, SendStartTx
<1>3. ASSUME NEW t \in Threads, SendCopy(t)
      PROVE  TxInv'
  BY <1>3, SendCopyTx
<1>4. ASSUME NEW t \in Threads, SendSubmit(t)
      PROVE  TxInv'
  BY <1>4, SendSubmitTx
<1>5. CASE Receives \/ UNCHANGED vars
  <2>1. UNCHANGED tx
    BY <1>5 DEF Receives, Arrive, IsrEnter, IsrTest, IsrTake, IsrInput, IsrClear,
                Fetch, Processed, vars
  <2> QED
    <3>1. /\ Outgoing' = Outgoing
          /\ UNCHANGED <<txOwn, txBuf, txPos, txSet, snd, target, frame, given>>
      BY <2>1 DEF tx, Outgoing
    <3>2. TxTypes' /\ TxRing' /\ BuffersHold'
      BY <3>1 DEF TxTypes, TxRing, BuffersHold
    <3>3. OneSender' /\ NextIsFree' /\ CopiedIsKept'
      BY <3>1 DEF OneSender, NextIsFree, CopiedIsKept
    <3>4. ~TxFetch \/ (given # <<>> /\ txBuf[txPos] = Head(given))
      BY TxFetchTx
    <3> QED
      BY <3>2, <3>3, <3>4, TxPartsNext
<1> QED
  BY <1>1, <1>2, <1>3, <1>4, <1>5 DEF AloneNext

\* With one sender at a time and room in the ring every frame reaches the wire
\* as it was given to low_level_output, in that order, once, however many
\* descriptors the ring has.
THEOREM SentInOrder == AloneSpec => SentAsGiven
<1>1. TxInv /\ [AloneNext]_vars => TxInv'
  BY TxStep
<1>2. AloneSpec => []TxInv
  BY TxInit, <1>1, PTL DEF AloneSpec
<1>3. TxInv /\ [AloneNext]_vars => [TxFetch => given # <<>> /\ txBuf[txPos] = Head(given)]_vars
  BY TxStep
<1> QED
  BY <1>2, <1>3, PTL DEF AloneSpec, SentAsGiven
=============================================================================
