----------------------------- MODULE Heap_proofs -----------------------------
(***************************************************************************)
(* IInv of Heap is inductive, and Heap implements Allocator, for a heap of *)
(* any length.                                                             *)
(***************************************************************************)
EXTENDS Heap, FiniteSetTheorems, TLAPS

\* A set of numbers that is bounded and not empty has a greatest one.
LEMMA Greatest ==
    ASSUME NEW M \in Nat, NEW S \in SUBSET (0..M), S # {}
    PROVE  \E x \in S : \A y \in S : y <= x
<1> DEFINE Above(x) == {y \in S : x < y}
           T == {Above(x) : x \in S}
<1>1. IsFiniteSet(S)
  <2>1. IsFiniteSet(0..M)
    BY FS_Interval
  <2> QED
    BY <2>1, FS_Subset
<1>2. T \subseteq FiniteSubsetsOf(S) /\ T # {}
  <2>2. FiniteSubsetsOf(S) = SUBSET S
    BY <1>1, FS_FiniteSubsetsOfFinite
  <2>3. \A u \in T : u \in SUBSET S
    OBVIOUS
  <2>4. PICK x \in S : TRUE
    OBVIOUS
  <2>5. Above(x) \in T
    OBVIOUS
  <2> HIDE DEF T
  <2> QED
    BY <2>2, <2>3, <2>5
<1>3. PICK t \in T : \A u \in T : ~(<<u, t>> \in StrictSubsetOrdering(S))
  <2> HIDE DEF T
  <2> QED
    BY <1>1, <1>2, FS_StrictSubsetOrderingWellFounded, WFMin
<1>4. PICK x \in S : t = Above(x)
  OBVIOUS
<1>5. ASSUME NEW y \in S, ~(y <= x) PROVE FALSE
  <2>1. x < y /\ x \in Nat /\ y \in Nat
    BY <1>5
  <2>2. Above(y) \in T
    OBVIOUS
  <2>3. Above(y) \subseteq Above(x) /\ y \in Above(x) /\ y \notin Above(y)
    <3>1. \A z \in S : z \in Nat
      OBVIOUS
    <3>2. \A z \in Above(y) : z \in S /\ x < z
      BY <2>1, <3>1
    <3>3. Above(y) \subseteq Above(x)
      BY <3>2
    <3>4. ~(y < y)
      BY <2>1
    <3> QED
      BY <2>1, <3>3, <3>4
  <2>4. <<Above(y), t>> \in StrictSubsetOrdering(S)
    BY <1>4, <2>3 DEF StrictSubsetOrdering
  <2> QED
    BY <1>3, <2>2, <2>4
<1> QED
  BY <1>5

LEMMA AlignedUp ==
    ASSUME NEW s \in Nat
    PROVE  Aligned(s) \in Nat /\ s <= Aligned(s)
<1> DEFINE q == (s + MEM_ALIGNMENT - 1) \div MEM_ALIGNMENT
           r == (s + MEM_ALIGNMENT - 1) % MEM_ALIGNMENT
<1>1. q \in Nat /\ r \in Nat /\ r < MEM_ALIGNMENT
  BY HeapAssumption, SMT
<1>2. s + MEM_ALIGNMENT - 1 = MEM_ALIGNMENT * q + r
  BY HeapAssumption, SMT
<1>3. Aligned(s) = q * MEM_ALIGNMENT
  BY DEF Aligned
<1>4. q * MEM_ALIGNMENT = MEM_ALIGNMENT * q /\ q * MEM_ALIGNMENT \in Nat
  BY <1>1, HeapAssumption, SMT
<1> QED
  BY <1>1, <1>2, <1>3, <1>4, HeapAssumption, SMT
-----------------------------------------------------------------------------
(* Editing the list.  Sane: the heap is typed and linked.                  *)

Sane(m) == /\ DOMAIN m \subseteq 0..MEM_SIZE
           /\ m \in [DOMAIN m -> Header]
           /\ Linked(m)

\* The blocks in use other than ram_end, and where they end, are the same.
SameInUse(m, n) ==
    /\ {c \in DOMAIN n \ {ram_end} : n[c].used} = {c \in DOMAIN m \ {ram_end} : m[c].used}
    /\ \A c \in DOMAIN m \ {ram_end} : m[c].used => n[c].next = m[c].next

\* Links lead forward, and a block's predecessor is the one prev names.
LEMMA SaneFacts ==
    ASSUME NEW m, Sane(m), NEW b \in DOMAIN m
    PROVE  /\ b \in 0..MEM_SIZE
           /\ m[b].next \in 0..MEM_SIZE /\ m[b].prev \in 0..MEM_SIZE /\ m[b].used \in BOOLEAN
           /\ b # ram_end => /\ m[b].next \in DOMAIN m
                             /\ b + SIZEOF_STRUCT_MEM + MIN_SIZE <= m[b].next
                             /\ \A c \in DOMAIN m : c <= b \/ m[b].next <= c
<1>1. m[b] \in Header
  BY DEF Sane
<1>2. b \in 0..MEM_SIZE
  BY DEF Sane
<1>3. ASSUME b # ram_end
      PROVE  /\ m[b].next \in DOMAIN m /\ Room(m, b) >= MIN_SIZE
             /\ \A c \in DOMAIN m : c <= b \/ m[b].next <= c
  BY <1>3 DEF Sane, Linked
<1> QED
  BY <1>1, <1>2, <1>3, HeapAssumption DEF Header, Room, ram_end

\* Marking a block leaves the links alone.
LEMMA RelabelSane ==
    ASSUME NEW m, Sane(m), NEW n, n \in [DOMAIN n -> Header], DOMAIN n = DOMAIN m,
           \A c \in DOMAIN m : n[c].next = m[c].next /\ n[c].prev = m[c].prev,
           n[ram_end].used
    PROVE  Sane(n)
BY DEF Linked, Sane, Room

LEMMA UseSane ==
    ASSUME NEW m, Sane(m), NEW b \in DOMAIN m \ {ram_end}, NEW n, n = Use(m, b)
    PROVE  /\ Sane(n)
           /\ DOMAIN n = DOMAIN m
           /\ n[b].used
           /\ \A c \in DOMAIN m : n[c].next = m[c].next /\ (c # b => n[c].used = m[c].used)
<1>1. DOMAIN n = DOMAIN m
  BY DEF Use
<1>2. \A c \in DOMAIN m : m[c] \in Header
  BY DEF Sane
<1>3. \A c \in DOMAIN m : n[c] = IF c = b THEN [m[b] EXCEPT !.used = TRUE] ELSE m[c]
  BY DEF Use
<1>4. \A c \in DOMAIN m : /\ n[c].next = m[c].next /\ n[c].prev = m[c].prev
                          /\ c # b => n[c].used = m[c].used
                          /\ n[c] \in Header
  BY <1>2, <1>3 DEF Header
<1>5. n[b].used
  BY <1>2, <1>3 DEF Header
<1>6. n \in [DOMAIN n -> Header]
  BY <1>1, <1>4 DEF Use
<1>7. Sane(n)
  <2>1. ram_end \in DOMAIN m /\ m[ram_end].used
    BY DEF Sane, Linked
  <2> QED
    BY <1>1, <1>4, <1>6, <2>1, RelabelSane
<1> QED
  BY <1>1, <1>4, <1>5, <1>7

LEMMA ReleaseSane ==
    ASSUME NEW m, Sane(m), NEW b \in DOMAIN m \ {ram_end}, NEW n, n = Release(m, b)
    PROVE  /\ Sane(n)
           /\ DOMAIN n = DOMAIN m
           /\ ~n[b].used
           /\ \A c \in DOMAIN m : n[c].next = m[c].next /\ (c # b => n[c].used = m[c].used)
<1>1. DOMAIN n = DOMAIN m
  BY DEF Release
<1>2. \A c \in DOMAIN m : m[c] \in Header
  BY DEF Sane
<1>3. \A c \in DOMAIN m : n[c] = IF c = b THEN [m[b] EXCEPT !.used = FALSE] ELSE m[c]
  BY DEF Release
<1>4. \A c \in DOMAIN m : /\ n[c].next = m[c].next /\ n[c].prev = m[c].prev
                          /\ c # b => n[c].used = m[c].used
                          /\ n[c] \in Header
  BY <1>2, <1>3 DEF Header
<1>5. ~n[b].used
  BY <1>2, <1>3 DEF Header
<1>6. n \in [DOMAIN n -> Header]
  BY <1>1, <1>4 DEF Release
<1>7. Sane(n)
  <2>1. ram_end \in DOMAIN m /\ m[ram_end].used
    BY DEF Sane, Linked
  <2> QED
    BY <1>1, <1>4, <1>6, <2>1, RelabelSane
<1> QED
  BY <1>1, <1>4, <1>5, <1>7

\* A block swallows its successor: the rest is as it was.
LEMMA AbsorbSane ==
    ASSUME NEW m, Sane(m), NEW a \in DOMAIN m \ {ram_end},
           NEW b, m[a].next = b, b # ram_end,
           NEW n, n = Absorb(m, a, b)
    PROVE  /\ Sane(n)
           /\ DOMAIN n = DOMAIN m \ {b}
           /\ n[a].next = m[b].next
           /\ n[a].prev = m[a].prev
           /\ \A c \in DOMAIN n : /\ n[c].used = m[c].used
                                  /\ c # a => n[c].next = m[c].next
<1> DEFINE e == m[b].next
<1>1. \A c \in DOMAIN m : m[c] \in Header
  BY DEF Sane
<1>2. b \in DOMAIN m /\ a < b /\ e \in DOMAIN m /\ b < e
  BY SaneFacts, HeapAssumption
<1>3. DOMAIN n = DOMAIN m \ {b}
  BY DEF Absorb
<1>4. \A c \in DOMAIN n : n[c] = [next |-> IF c = a THEN e ELSE m[c].next,
                                  prev |-> IF c = e THEN a ELSE m[c].prev,
                                  used |-> m[c].used]
  BY DEF Absorb
<1>5. \A c \in DOMAIN n : /\ n[c].used = m[c].used
                          /\ n[c].next = IF c = a THEN e ELSE m[c].next
                          /\ n[c].prev = IF c = e THEN a ELSE m[c].prev
                          /\ n[c] \in Header
  <2> TAKE c \in DOMAIN n
  <2>1. c \in DOMAIN m /\ m[c] \in Header
    BY <1>1, <1>3
  <2>2. e \in 0..MEM_SIZE /\ a \in 0..MEM_SIZE /\ a # e
    BY <1>2, SaneFacts, HeapAssumption
  <2> HIDE DEF e
  <2> QED
    BY <1>4, <2>1, <2>2 DEF Header
<1>6. n \in [DOMAIN n -> Header]
  <2>1. n = [c \in DOMAIN n |-> n[c]]
    BY DEF Absorb
  <2> QED
    BY <2>1, <1>5
<1>7. Linked(n)
  <2>1. \A c \in DOMAIN m : m[c].next = b => c = a \/ c = ram_end
    <3> SUFFICES ASSUME NEW c \in DOMAIN m, m[c].next = b, c # a, c # ram_end PROVE FALSE
      OBVIOUS
    <3>1. c < b /\ a \in Nat /\ b \in Nat /\ c \in Nat
      BY <1>2, SaneFacts, HeapAssumption
    <3>2. (c <= a \/ b <= c) /\ (a <= c \/ b <= a)
      BY SaneFacts
    <3> QED
      BY <1>2, <3>1, <3>2
  <2>2. {0, ram_end} \subseteq DOMAIN n /\ n[0].prev = 0 /\ n[ram_end].next = ram_end /\ n[ram_end].used
    <3>1. a \in 0..MEM_SIZE /\ b # 0 /\ e # 0
      BY <1>2, SaneFacts, HeapAssumption
    <3>2. {0, ram_end} \subseteq DOMAIN m /\ m[0].prev = 0 /\ m[ram_end].next = ram_end /\ m[ram_end].used
      BY DEF Sane, Linked
    <3> HIDE DEF e
    <3> QED
      BY <1>3, <1>5, <3>1, <3>2
  <2>3. ASSUME NEW c \in DOMAIN n \ {ram_end}
        PROVE  /\ n[c].next \in DOMAIN n
               /\ Room(n, c) >= MIN_SIZE
               /\ n[c].next # ram_end => n[n[c].next].prev = c
               /\ \A d \in DOMAIN n : d <= c \/ n[c].next <= d
    <3>1. c \in DOMAIN m /\ c # b
      BY <1>3
    <3>2. CASE c = a
      <4>1. e \in DOMAIN n /\ n[c].next = e
        <5>1. b \in Nat
          BY <1>2, SaneFacts
        <5> HIDE DEF e
        <5> QED
          BY <1>2, <1>3, <1>5, <3>2, <5>1
      <4>2. \A d \in DOMAIN n : d <= c \/ e <= d
        <5> TAKE d \in DOMAIN n
        <5>1. d \in DOMAIN m /\ d # b
          BY <1>3
        <5>2. (d <= a \/ b <= d) /\ (d <= b \/ e <= d)
          BY <1>2, <5>1, SaneFacts
        <5>3. d \in Nat /\ b \in Nat
          BY <1>2, <5>1, SaneFacts
        <5> QED
          BY <3>2, <5>1, <5>2, <5>3
      <4>3. Room(n, c) >= MIN_SIZE
        <5>1. a + SIZEOF_STRUCT_MEM + MIN_SIZE <= b /\ b \in Nat /\ e \in Nat /\ a \in Nat
          BY <1>2, SaneFacts
        <5> HIDE DEF e
        <5> QED
          BY <1>2, <3>2, <4>1, <5>1, HeapAssumption DEF Room
      <4>4. n[e].prev = a
        BY <1>5, <4>1
      <4> QED
        BY <3>2, <4>1, <4>2, <4>3, <4>4
    <3>3. CASE c # a
      <4>1. n[c].next = m[c].next /\ m[c].next # b
        BY <1>5, <2>1, <3>1, <3>3
      <4>2. m[c].next \in DOMAIN n /\ Room(n, c) >= MIN_SIZE
        BY <1>3, <3>1, <4>1 DEF Sane, Linked, Room
      <4>3. m[c].next # e
        <5> SUFFICES ASSUME m[c].next = e PROVE FALSE
          OBVIOUS
        <5>1. c < e /\ c \in Nat /\ b \in Nat /\ e \in Nat /\ c # b
          BY <1>2, <1>3, <3>1, SaneFacts, HeapAssumption
        <5>2. (c <= b \/ e <= c) /\ (b <= c \/ e <= b)
          BY <1>2, <3>1, SaneFacts
        <5> QED
          BY <1>2, <3>1, <5>1, <5>2
      <4>4. m[c].next # ram_end => n[m[c].next].prev = c
        <5>1. m[c].next # ram_end => m[m[c].next].prev = c
          BY <3>1 DEF Sane, Linked
        <5> HIDE DEF e
        <5> QED
          BY <1>5, <4>2, <4>3, <5>1
      <4>5. \A d \in DOMAIN n : d <= c \/ m[c].next <= d
        BY <1>3, <3>1 DEF Sane, Linked
      <4> QED
        BY <4>1, <4>2, <4>4, <4>5
    <3> QED
      BY <3>2, <3>3
  <2>4. ASSUME NEW c \in DOMAIN n \ {0, ram_end}
        PROVE  n[c].prev \in DOMAIN n \ {ram_end} /\ n[n[c].prev].next = c
    <3>1. c \in DOMAIN m /\ c # b
      BY <1>3
    <3>2. m[c].prev \in DOMAIN m \ {ram_end} /\ m[m[c].prev].next = c
      BY <3>1 DEF Sane, Linked
    <3>3. a \in DOMAIN n /\ a # ram_end /\ n[a].next = e
      BY <1>2, <1>3, <1>5, SaneFacts, HeapAssumption
    <3>4. CASE c = e
      <4> HIDE DEF e
      <4> QED
        BY <1>5, <3>3, <3>4
    <3>5. CASE c # e
      <4>1. m[c].prev # a /\ m[c].prev # b
        BY <3>1, <3>2, <3>5
      <4> HIDE DEF e
      <4> QED
        BY <1>3, <1>5, <3>2, <3>5, <4>1
    <3> QED
      BY <3>4, <3>5
  <2> QED
    BY <2>2, <2>3, <2>4 DEF Linked
<1>8. Sane(n)
  <2> QED
    BY <1>3, <1>6, <1>7 DEF Sane
<1>9. a \in DOMAIN n /\ a # e
  BY <1>2, <1>3, SaneFacts, HeapAssumption
<1> HIDE DEF e
<1> QED
  BY <1>3, <1>5, <1>8, <1>9 DEF e

\* A free block takes the place of what was between a and q.
LEMMA InsertSane ==
    ASSUME NEW m, Sane(m), NEW a \in DOMAIN m \ {ram_end}, NEW q \in DOMAIN m, NEW p \in Nat,
           a + SIZEOF_STRUCT_MEM + MIN_SIZE <= p, p + SIZEOF_STRUCT_MEM + MIN_SIZE <= q,
           NEW n, n = Insert(m, a, p, q)
    PROVE  /\ Sane(n)
           /\ DOMAIN n = {d \in DOMAIN m : d <= a \/ q <= d} \cup {p}
           /\ p \in DOMAIN n /\ a \in DOMAIN n /\ q \in DOMAIN n
           /\ a < p /\ p < q /\ p # ram_end
           /\ n[p].next = q /\ ~n[p].used /\ n[a].next = p
           /\ \A c \in DOMAIN n \ {p} : /\ c \in DOMAIN m
                                        /\ n[c].used = m[c].used
                                        /\ c # a => n[c].next = m[c].next
<1>1. \A c \in DOMAIN m : m[c] \in Header /\ c \in Nat
  BY DEF Sane
<1>2. a < p /\ p < q /\ a \in Nat /\ q \in Nat /\ q <= MEM_SIZE /\ p \in 0..MEM_SIZE /\ p # ram_end
  BY SaneFacts, HeapAssumption DEF ram_end
<1>3. DOMAIN n = {d \in DOMAIN m : d <= a \/ q <= d} \cup {p}
  BY DEF Insert
<1>4. \A c \in DOMAIN n : n[c] = IF c = p THEN [next |-> q, prev |-> a, used |-> FALSE]
                                 ELSE [next |-> IF c = a THEN p ELSE m[c].next,
                                       prev |-> IF c = q /\ q # MEM_SIZE THEN p ELSE m[c].prev,
                                       used |-> m[c].used]
  BY DEF Insert
<1>5. \A c \in DOMAIN n \ {p} : c \in DOMAIN m /\ (c <= a \/ q <= c)
  <2> QED
    BY <1>3
<1>6. \A c \in DOMAIN n \ {p} : /\ n[c].used = m[c].used
                                /\ n[c].next = IF c = a THEN p ELSE m[c].next
                                /\ n[c].prev = IF c = q /\ q # MEM_SIZE THEN p ELSE m[c].prev
                                /\ n[c] \in Header
  <2> TAKE c \in DOMAIN n \ {p}
  <2>1. c \in DOMAIN m /\ m[c] \in Header
    BY <1>1, <1>5
  <2> QED
    BY <1>2, <1>4, <2>1 DEF Header
<1>7. p \in DOMAIN n /\ n[p].next = q /\ n[p].prev = a /\ n[p].used = FALSE /\ n[p] \in Header
  <2>1. p \in DOMAIN n
    BY <1>3
  <2>2. n[p] = [next |-> q, prev |-> a, used |-> FALSE]
    <3> QED
      BY <1>4, <2>1
  <2> QED
    BY <1>2, <2>1, <2>2, HeapAssumption DEF Header
<1>8. a \in DOMAIN n /\ q \in DOMAIN n /\ 0 \in DOMAIN n /\ ram_end \in DOMAIN n
  <2>1. 0 \in DOMAIN m /\ ram_end \in DOMAIN m
    BY DEF Sane, Linked
  <2> QED
    BY <1>2, <1>3, <2>1 DEF ram_end
<1>9. n \in [DOMAIN n -> Header]
  <2>1. n = [c \in DOMAIN n |-> n[c]]
    BY DEF Insert
  <2> QED
    BY <1>6, <1>7, <2>1
<1>10. DOMAIN n \subseteq 0..MEM_SIZE
  <2> QED
    BY <1>2, <1>5 DEF Sane
<1>11. ASSUME NEW c \in DOMAIN n \ {ram_end}
       PROVE  /\ n[c].next \in DOMAIN n
              /\ Room(n, c) >= MIN_SIZE
              /\ n[c].next # ram_end => n[n[c].next].prev = c
              /\ \A d \in DOMAIN n : d <= c \/ n[c].next <= d
  <2>1. CASE c = p
    <3>1. Room(n, c) >= MIN_SIZE
      <4> QED
        BY <1>2, <1>7, <2>1, HeapAssumption DEF Room
    <3>2. q # ram_end => n[q].prev = p
      <4> QED
        BY <1>2, <1>6, <1>8 DEF ram_end
    <3>3. \A d \in DOMAIN n : d <= p \/ q <= d
      <4> QED
        BY <1>1, <1>2, <1>5
    <3> QED
      BY <1>7, <1>8, <2>1, <3>1, <3>2, <3>3
  <2>2. CASE c = a
    <3>0. a # p
      BY <1>2
    <3>1. n[c].next = p
      <4> QED
        BY <1>6, <2>2, <3>0
    <3>2. Room(n, c) >= MIN_SIZE
      <4> QED
        BY <1>2, <2>2, <3>1, HeapAssumption DEF Room
    <3>3. \A d \in DOMAIN n : d <= a \/ p <= d
      <4> QED
        BY <1>1, <1>2, <1>5
    <3> QED
      BY <1>7, <2>2, <3>1, <3>2, <3>3
  <2>3. CASE c # p /\ c # a
    <3>1. c \in DOMAIN m /\ (c <= a \/ q <= c) /\ n[c].next = m[c].next
      BY <1>5, <1>6, <2>3
    <3>2. /\ m[c].next \in DOMAIN m /\ Room(m, c) >= MIN_SIZE
          /\ m[c].next # ram_end => m[m[c].next].prev = c
          /\ \A d \in DOMAIN m : d <= c \/ m[c].next <= d
      BY <3>1 DEF Sane, Linked
    <3>3. c \in Nat /\ m[c].next \in Nat /\ c < m[c].next
      BY <3>1, SaneFacts, HeapAssumption
    <3>4. (c < a /\ m[c].next <= a) \/ (q <= c /\ q < m[c].next)
      BY <1>2, <2>3, <3>1, <3>2, <3>3
    <3>5. m[c].next \in DOMAIN n /\ m[c].next # p /\ m[c].next # q
      <4> QED
        BY <1>2, <1>3, <3>2, <3>3, <3>4
    <3>6. n[m[c].next].prev = m[m[c].next].prev
      BY <1>6, <3>5
    <3>7. \A d \in DOMAIN n : d <= c \/ m[c].next <= d
      <4> QED
        BY <1>1, <1>2, <1>5, <3>2, <3>3, <3>4
    <3> QED
      BY <3>1, <3>2, <3>5, <3>6, <3>7 DEF Room
  <2> QED
    BY <2>1, <2>2, <2>3
<1>12. ASSUME NEW c \in DOMAIN n \ {0, ram_end}
       PROVE  n[c].prev \in DOMAIN n \ {ram_end} /\ n[n[c].prev].next = c
  <2>1. CASE c = p
    BY <1>2, <1>6, <1>7, <1>8, <2>1
  <2>2. CASE c = q
    <3>1. n[q].prev = p /\ q # p
      BY <1>2, <1>6, <1>8, <2>2 DEF ram_end
    <3> QED
      BY <1>2, <1>7, <2>2, <3>1
  <2>3. CASE c # p /\ c # q
    <3>1. c \in DOMAIN m /\ (c <= a \/ q <= c) /\ n[c].prev = m[c].prev
      BY <1>5, <1>6, <2>3
    <3>2. m[c].prev \in DOMAIN m \ {ram_end} /\ m[m[c].prev].next = c
      BY <3>1 DEF Sane, Linked
    <3> DEFINE e == m[c].prev
    <3>3. e \in Nat /\ e < c /\ c \in Nat
      BY <3>1, <3>2, SaneFacts, HeapAssumption
    <3>4. /\ a <= e \/ c <= a
          /\ q <= e \/ c <= q
      BY <1>1, <1>2, <3>1, <3>2, SaneFacts
    <3>5. e # a /\ e # p /\ (e <= a \/ q <= e)
      <4>1. a < m[a].next /\ (q <= a \/ m[a].next <= q) /\ m[a].next \in Nat
        BY <1>2, SaneFacts, HeapAssumption
      <4>2. e = a => c = m[a].next
        BY <3>2
      <4> HIDE DEF e
      <4> QED
        BY <1>2, <2>3, <3>1, <3>3, <3>4, <4>1, <4>2
    <3>6. e \in DOMAIN n
      <4> QED
        BY <1>3, <3>2, <3>5
    <3> QED
      BY <1>6, <3>1, <3>2, <3>5, <3>6
  <2> QED
    BY <2>1, <2>2, <2>3
<1>13. n[0].prev = 0 /\ n[ram_end].next = ram_end /\ n[ram_end].used
  <2>1. m[0].prev = 0 /\ m[ram_end].next = ram_end /\ m[ram_end].used
    BY DEF Sane, Linked
  <2>2. 0 # p /\ 0 # q /\ ram_end # a
    BY <1>2
  <2> QED
    BY <1>2, <1>6, <1>8, <2>1, <2>2
<1>14. Linked(n)
  <2> QED
    BY <1>8, <1>11, <1>12, <1>13 DEF Linked
<1>15. Sane(n)
  <2> QED
    BY <1>9, <1>10, <1>14 DEF Sane
<1>16. n[a].next = p
  BY <1>2, <1>6, <1>8
<1> QED
  BY <1>2, <1>3, <1>5, <1>6, <1>7, <1>8, <1>15, <1>16

-----------------------------------------------------------------------------
(* plug_holes.  Only pairs of neighbours that include b may both be free.  *)

HolesOnlyAt(m, b) ==
    \A c \in DOMAIN m \ {ram_end} : c # b /\ m[c].next # b => m[c].used \/ m[m[c].next].used

HolesOnlyBefore(m, b) ==
    \A c \in DOMAIN m \ {ram_end} : m[c].next # b => m[c].used \/ m[m[c].next].used

LEMMA PlugForwardSane ==
    ASSUME NEW m, Sane(m), NEW b \in DOMAIN m \ {ram_end}, ~m[b].used, HolesOnlyAt(m, b),
           NEW low, Lowest(m, low), low <= b,
           NEW r, r = PlugForward(m, low, b)
    PROVE  /\ Sane(r.mem) /\ b \in DOMAIN r.mem /\ ~r.mem[b].used
               /\ HolesOnlyBefore(r.mem, b)
               /\ Lowest(r.mem, r.lfree) /\ r.lfree <= b
               /\ SameInUse(m, r.mem)
<1> DEFINE a == m[b].next
<1>1. a \in DOMAIN m /\ b < a /\ b \in Nat /\ a \in Nat
  BY SaneFacts, HeapAssumption
<1>2. CASE HoleAhead(m, b)
  <2> DEFINE n == Absorb(m, b, a)
  <2>1. a # ram_end /\ ~m[a].used
    BY <1>2 DEF HoleAhead
  <2>2. /\ Sane(n) /\ DOMAIN n = DOMAIN m \ {a}
        /\ n[b].next = m[a].next
        /\ \A c \in DOMAIN n : n[c].used = m[c].used /\ (c # b => n[c].next = m[c].next)
    <3> HIDE DEF n, a
    <3> QED
      BY <1>1, <2>1, AbsorbSane DEF n, a
  <2>3. low # a
    BY <1>1
  <2>4. r = [mem |-> n, lfree |-> low]
    BY <1>2, <2>3 DEF PlugForward
  <2>5. b \in DOMAIN n /\ ~n[b].used
    BY <1>1, <2>2
  <2>6. ASSUME NEW c \in DOMAIN n \ {ram_end}, n[c].next # b
        PROVE  n[c].used \/ n[n[c].next].used
    <3>1. n[c].next \in DOMAIN n
      BY <2>2, SaneFacts
    <3>2. CASE c = b
      <4>1. m[a].next # b /\ a # b
        BY <1>1, <2>1, SaneFacts, HeapAssumption
      <4>2. m[m[a].next].used
        BY <1>1, <2>1, <4>1 DEF HolesOnlyAt
      <4> QED
        BY <2>2, <3>1, <3>2, <4>2
    <3>3. CASE c # b
      <4>1. c \in DOMAIN m /\ m[c].next # b /\ n[c].next = m[c].next
        BY <2>2, <2>6, <3>3
      <4>2. m[c].used \/ m[m[c].next].used
        BY <3>3, <4>1 DEF HolesOnlyAt
      <4> QED
        BY <2>2, <3>1, <4>1, <4>2
    <3> QED
      BY <3>2, <3>3
  <2>7. Lowest(n, low)
    BY <2>2, <2>3 DEF Lowest
  <2>8. SameInUse(m, n)
    BY <2>1, <2>2 DEF SameInUse
  <2> HIDE DEF n
  <2> QED
    BY <2>2, <2>4, <2>5, <2>6, <2>7, <2>8 DEF HolesOnlyBefore
<1>3. CASE ~HoleAhead(m, b)
  <2>1. r = [mem |-> m, lfree |-> low]
    BY <1>3 DEF PlugForward
  <2>2. m[a].used
    <3>1. a # b
      BY <1>1
    <3>2. m[ram_end].used
      BY DEF Sane, Linked
    <3> QED
      BY <1>3, <3>1, <3>2 DEF HoleAhead
  <2>3. ASSUME NEW c \in DOMAIN m \ {ram_end}, m[c].next # b
        PROVE  m[c].used \/ m[m[c].next].used
    BY <2>2, <2>3 DEF HolesOnlyAt
  <2>4. SameInUse(m, m)
    BY DEF SameInUse
  <2> QED
    BY <2>1, <2>3, <2>4 DEF HolesOnlyBefore
<1> QED
  BY <1>2, <1>3

LEMMA PlugBackwardSane ==
    ASSUME NEW m, Sane(m), NEW b \in DOMAIN m \ {ram_end}, ~m[b].used,
           HolesOnlyBefore(m, b),
           NEW low, Lowest(m, low), low <= b,
           NEW r, r = PlugBackward(m, low, b)
    PROVE  Sane(r.mem) /\ NoHolesInARow(r.mem) /\ Lowest(r.mem, r.lfree) /\ SameInUse(m, r.mem)
<1> DEFINE p == m[b].prev
<1>1. ASSUME NEW c \in DOMAIN m \ {ram_end}, m[c].next = b
      PROVE  c = p /\ c # b
  <2>1. c = p
    BY <1>1 DEF Sane, Linked
  <2>2. c # b
    BY <1>1, SaneFacts, HeapAssumption
  <2> QED
    BY <2>1, <2>2
<1>2. b # 0 => p \in DOMAIN m \ {ram_end} /\ m[p].next = b
  BY DEF Sane, Linked
<1>3. b = 0 => p = b
  BY DEF Sane, Linked
<1>4. CASE HoleBehind(m, b)
  <2> DEFINE n == Absorb(m, p, b)
  <2>1. p # b /\ ~m[p].used /\ p \in DOMAIN m \ {ram_end} /\ m[p].next = b
    BY <1>2, <1>3, <1>4 DEF HoleBehind
  <2>2. p < b /\ p \in Nat /\ b \in Nat
    BY <2>1, SaneFacts, HeapAssumption
  <2>3. low <= p /\ low # b
    BY <2>1, <2>2, SaneFacts DEF Lowest
  <2>4. /\ Sane(n) /\ DOMAIN n = DOMAIN m \ {b}
        /\ n[p].next = m[b].next
        /\ \A c \in DOMAIN n : n[c].used = m[c].used /\ (c # p => n[c].next = m[c].next)
    <3> HIDE DEF n, p
    <3> QED
      BY <2>1, AbsorbSane DEF n
  <2>5. r = [mem |-> n, lfree |-> low]
    BY <1>4, <2>3 DEF PlugBackward
  <2>6. ASSUME NEW c \in DOMAIN n \ {ram_end}
        PROVE  n[c].used \/ n[n[c].next].used
    <3>1. n[c].next \in DOMAIN n /\ c \in DOMAIN m
      BY <2>4, SaneFacts
    <3>2. CASE c = p
      <4>1. m[b].next # b
        BY SaneFacts, HeapAssumption
      <4>2. m[m[b].next].used
        BY <4>1 DEF HolesOnlyBefore
      <4> QED
        BY <2>4, <3>1, <3>2, <4>2
    <3>3. CASE c # p
      <4>1. m[c].next # b
        BY <1>1, <3>1, <3>3
      <4>2. m[c].used \/ m[m[c].next].used
        BY <3>1, <4>1 DEF HolesOnlyBefore
      <4> QED
        BY <2>4, <3>1, <3>3, <4>2
    <3> QED
      BY <3>2, <3>3
  <2>7. Lowest(n, low)
    BY <2>3, <2>4 DEF Lowest
  <2>8. SameInUse(m, n)
    BY <2>1, <2>4 DEF SameInUse
  <2>9. NoHolesInARow(n)
    <3> HIDE DEF n
    <3> QED
      BY <2>6 DEF NoHolesInARow
  <2> HIDE DEF n
  <2> QED
    BY <2>4, <2>5, <2>7, <2>8, <2>9
<1>5. CASE ~HoleBehind(m, b)
  <2>1. r = [mem |-> m, lfree |-> low]
    BY <1>5 DEF PlugBackward
  <2>2. NoHolesInARow(m)
    BY <1>1, <1>5 DEF NoHolesInARow, HoleBehind, HolesOnlyBefore
  <2>3. SameInUse(m, m)
    BY DEF SameInUse
  <2> QED
    BY <2>1, <2>2, <2>3
<1> QED
  BY <1>4, <1>5

LEMMA PlugHolesSane ==
    ASSUME NEW m, Sane(m), NEW b \in DOMAIN m \ {ram_end}, ~m[b].used, HolesOnlyAt(m, b),
           NEW low, Lowest(m, low), low <= b,
           NEW r, r = plug_holes(m, low, b)
    PROVE  Sane(r.mem) /\ NoHolesInARow(r.mem) /\ Lowest(r.mem, r.lfree) /\ SameInUse(m, r.mem)
<1> DEFINE f == PlugForward(m, low, b)
<1>1. /\ Sane(f.mem) /\ b \in DOMAIN f.mem \ {ram_end} /\ ~f.mem[b].used
      /\ HolesOnlyBefore(f.mem, b)
      /\ Lowest(f.mem, f.lfree) /\ f.lfree <= b
      /\ SameInUse(m, f.mem)
  <2>1. f = PlugForward(m, low, b)
    OBVIOUS
  <2> HIDE DEF f
  <2> QED
    BY <2>1, PlugForwardSane
<1>2. r = PlugBackward(f.mem, f.lfree, b)
  BY DEF plug_holes
<1>3. Sane(r.mem) /\ NoHolesInARow(r.mem) /\ Lowest(r.mem, r.lfree) /\ SameInUse(f.mem, r.mem)
  <2> HIDE DEF f
  <2> QED
    BY <1>1, <1>2, PlugBackwardSane
<1>4. SameInUse(m, r.mem)
  <2> HIDE DEF f
  <2> QED
    BY <1>1, <1>3 DEF SameInUse
<1> QED
  BY <1>3, <1>4

-----------------------------------------------------------------------------
(* The operations                                                          *)

LEMMA BlockSizeFacts ==
    ASSUME NEW s \in Sizes
    PROVE  BlockSize(s) \in Nat /\ s \in Nat /\ s <= BlockSize(s) /\ MIN_SIZE <= BlockSize(s)
<1>1. s \in Nat /\ Aligned(s) \in Nat /\ s <= Aligned(s)
  BY AlignedUp, HeapAssumption
<1> QED
  BY <1>1, HeapAssumption DEF BlockSize

LEMMA InvParts ==
    ASSUME IInv
    PROVE  /\ Sane(mem) /\ NoHolesInARow(mem) /\ Lowest(mem, lfree)
           /\ DOMAIN owed = {b \in Blocks \ {ram_end} : mem[b].used}
           /\ owed \in [DOMAIN owed -> Sizes]
           /\ \A b \in DOMAIN owed : owed[b] <= Room(mem, b)
BY DEF IInv, TypeOK, HeapIsLinked, NoTwoHoles, LowestFree, LentBlocksAreKept, Sane, Blocks

LEMMA InvFromParts ==
    ASSUME Sane(mem'), NoHolesInARow(mem'), Lowest(mem', lfree'),
           DOMAIN owed' = {b \in DOMAIN mem' \ {ram_end} : mem'[b].used},
           owed' \in [DOMAIN owed' -> Sizes],
           \A b \in DOMAIN owed' : owed'[b] <= Room(mem', b)
    PROVE  IInv'
<1>1. lfree' \in DOMAIN mem'
  BY DEF Lowest
<1>2. TypeOK'
  BY <1>1 DEF TypeOK, Blocks, Sane
<1>3. HeapIsLinked' /\ NoTwoHoles' /\ LowestFree' /\ LentBlocksAreKept'
  BY DEF HeapIsLinked, NoTwoHoles, LowestFree, LentBlocksAreKept, Sane, Blocks
<1> QED
  BY <1>2, <1>3 DEF IInv

LEMMA InitInv == Init => IInv
<1> SUFFICES ASSUME Init PROVE IInv
  OBVIOUS
<1>1. DOMAIN mem = {0, ram_end} /\ ram_end \in Nat /\ ram_end # 0 /\ lfree = 0 /\ DOMAIN owed = {}
  BY HeapAssumption DEF Init, mem_init, ram_end
<1>2. /\ mem[0] = [next |-> MEM_SIZE, prev |-> 0, used |-> FALSE]
      /\ mem[ram_end] = [next |-> MEM_SIZE, prev |-> MEM_SIZE, used |-> TRUE]
  BY <1>1 DEF Init, mem_init
<1>3. mem \in [Blocks -> Header] /\ Blocks \subseteq 0..MEM_SIZE
  <2>1. mem[0] \in Header /\ mem[ram_end] \in Header
    BY <1>2, HeapAssumption DEF Header
  <2>2. mem = [b \in DOMAIN mem |-> mem[b]]
    BY DEF Init, mem_init
  <2> QED
    BY <1>1, <2>1, <2>2, HeapAssumption DEF Blocks, ram_end
<1>4. TypeOK
  BY <1>1, <1>3 DEF TypeOK, Blocks, Init, mem_init
<1>5. HeapIsLinked
  BY <1>1, <1>2, HeapAssumption DEF HeapIsLinked, Linked, Room, ram_end
<1>6. NoTwoHoles /\ LowestFree
  BY <1>1, <1>2, HeapAssumption DEF NoTwoHoles, NoHolesInARow, LowestFree, Lowest, Blocks, ram_end
<1>7. LentBlocksAreKept
  BY <1>1, <1>2 DEF LentBlocksAreKept, Blocks
<1> QED
  BY <1>4, <1>5, <1>6, <1>7 DEF IInv

\* The block taken is in use and holds what was asked; the rest, if there is
\* one, is a free block behind it.
LEMMA TakenSane ==
    ASSUME IInv, NEW size \in Nat, MIN_SIZE <= size, NEW b \in Candidates(size),
           NEW n, n = Taken(b, size)
    PROVE  /\ Sane(n) /\ NoHolesInARow(n)
           /\ b \in DOMAIN n \ {ram_end} /\ n[b].used /\ size <= Room(n, b)
           /\ {c \in DOMAIN n \ {ram_end} : n[c].used}
                 = {c \in Blocks \ {ram_end} : mem[c].used} \cup {b}
           /\ \A c \in DOMAIN n \cap Blocks :
                 c # b => n[c].used = mem[c].used /\ n[c].next = mem[c].next
           /\ \A c \in Blocks : c <= b => c \in DOMAIN n
           /\ \A c \in DOMAIN n \ Blocks : b < c
<1> DEFINE q == mem[b].next
           p == b + SIZEOF_STRUCT_MEM + size
           i == Insert(mem, b, p, q)
<1>1. Sane(mem) /\ NoHolesInARow(mem) /\ b \in DOMAIN mem \ {ram_end} /\ ~mem[b].used /\ size <= Room(mem, b)
  <2>1. mem[ram_end].used
    BY InvParts DEF Sane, Linked
  <2> QED
    BY <2>1, InvParts DEF Candidates, Blocks
<1>2. /\ b \in Nat /\ q \in DOMAIN mem /\ q \in Nat /\ b < q
      /\ \A c \in DOMAIN mem : c \in Nat /\ (c <= b \/ q <= c)
  BY <1>1, SaneFacts, HeapAssumption
<1>3. mem[q].used
  BY <1>1 DEF NoHolesInARow
<1>4. CASE size + SIZEOF_STRUCT_MEM + MIN_SIZE <= Room(mem, b)
  <2>1. p \in Nat /\ b + SIZEOF_STRUCT_MEM + MIN_SIZE <= p /\ p + SIZEOF_STRUCT_MEM + MIN_SIZE <= q
    <3> HIDE DEF q
    <3> QED
      BY <1>2, <1>4, HeapAssumption DEF Room, q
  <2>2. /\ Sane(i) /\ DOMAIN i = DOMAIN mem \cup {p}
        /\ b < p /\ p < q /\ p # ram_end /\ b \in DOMAIN i
        /\ i[p].next = q /\ ~i[p].used /\ i[b].next = p
        /\ \A c \in DOMAIN i \ {p} : c \in DOMAIN mem /\ i[c].used = mem[c].used /\ (c # b => i[c].next = mem[c].next)
    <3>1. {d \in DOMAIN mem : d <= b \/ q <= d} = DOMAIN mem
      BY <1>2
    <3> HIDE DEF p, q, i
    <3> QED
      BY <1>1, <1>2, <2>1, <3>1, InsertSane DEF i
  <2>3. n = Use(i, b)
    BY <1>4, <1>1, <1>2, HeapAssumption DEF Taken, Room
  <2>4. /\ Sane(n) /\ DOMAIN n = DOMAIN i /\ n[b].used
        /\ \A c \in DOMAIN i : n[c].next = i[c].next /\ (c # b => n[c].used = i[c].used)
    <3> HIDE DEF i
    <3> QED
      BY <1>1, <2>2, <2>3, UseSane
  <2>5. n[b].next = p /\ n[b].used /\ n[p].next = q /\ ~n[p].used /\ p \notin DOMAIN mem
    <3> HIDE DEF i, p, q
    <3> QED
      BY <1>2, <2>2, <2>4
  <2>6. \A c \in DOMAIN n \ {p, b} : c \in DOMAIN mem /\ n[c].used = mem[c].used /\ n[c].next = mem[c].next
    <3> HIDE DEF i, p, q
    <3> QED
      BY <2>2, <2>4
  <2>7. n[q].used
    <3>1. q # p /\ q # b /\ q \in DOMAIN n
      BY <1>2, <2>2, <2>4
    <3> HIDE DEF i, p, q
    <3> QED
      BY <1>3, <2>6, <3>1
  <2>8. ASSUME NEW c \in DOMAIN n \ {ram_end} PROVE n[c].used \/ n[n[c].next].used
    <3>1. CASE c = p \/ c = b
      BY <2>5, <2>7, <3>1
    <3>2. CASE c # p /\ c # b
      <4>1. c \in DOMAIN mem /\ n[c].used = mem[c].used /\ n[c].next = mem[c].next /\ mem[c].next \in DOMAIN mem
        BY <1>1, <2>6, <3>2, SaneFacts
      <4>2. mem[c].used \/ mem[mem[c].next].used
        BY <1>1, <4>1 DEF NoHolesInARow
      <4>3. mem[c].next # p /\ mem[c].next \in DOMAIN n
        BY <2>2, <2>4, <2>5, <4>1
      <4> HIDE DEF i, p, q
      <4> QED
        BY <2>5, <2>6, <4>1, <4>2, <4>3
    <3> QED
      BY <3>1, <3>2
  <2>9. size <= Room(n, b)
    BY <1>2, <2>5, HeapAssumption DEF Room
  <2>10. NoHolesInARow(n)
    <3> QED
      BY <2>8 DEF NoHolesInARow
  <2>11. {c \in DOMAIN n \ {ram_end} : n[c].used} = {c \in Blocks \ {ram_end} : mem[c].used} \cup {b}
    <3> HIDE DEF i, p, q
    <3> QED
      BY <1>1, <2>2, <2>4, <2>5, <2>6 DEF Blocks
  <2> HIDE DEF i, p, q
  <2> QED
    BY <1>1, <1>2, <2>2, <2>4, <2>5, <2>6, <2>9, <2>10, <2>11 DEF Blocks
<1>5. CASE ~(size + SIZEOF_STRUCT_MEM + MIN_SIZE <= Room(mem, b))
  <2>1. n = Use(mem, b)
    <3>1. Room(mem, b) \in Int
      BY <1>2, HeapAssumption DEF Room
    <3> QED
      BY <1>5, <3>1, HeapAssumption DEF Taken
  <2>2. /\ Sane(n) /\ DOMAIN n = DOMAIN mem /\ n[b].used
        /\ \A c \in DOMAIN mem : n[c].next = mem[c].next /\ (c # b => n[c].used = mem[c].used)
    <3> QED
      BY <1>1, <2>1, UseSane
  <2>3. NoHolesInARow(n)
    <3>1. \A c \in DOMAIN mem \ {ram_end} : mem[c].next \in DOMAIN mem
      BY <1>1, SaneFacts
    <3> QED
      BY <1>1, <2>2, <3>1 DEF NoHolesInARow
  <2> QED
    BY <1>1, <2>2, <2>3 DEF Blocks, Room
<1> QED
  BY <1>4, <1>5

LEMMA MallocInv ==
    ASSUME IInv, NEW asked \in Sizes, mem_malloc(asked)
    PROVE  IInv' /\ \A c \in DOMAIN owed : mem'[c].next = mem[c].next
<1> DEFINE size == BlockSize(asked)
<1>1. size \in Nat /\ asked <= size /\ MIN_SIZE <= size /\ asked \in Nat
  BY BlockSizeFacts
<1>2. PICK b \in Candidates(size) :
        /\ mem' = Taken(b, size)
        /\ owed' = [c \in DOMAIN owed \cup {b} |-> IF c = b THEN asked ELSE owed[c]]
        /\ IF b = lfree THEN \E low \in Blocks' : IsLowestFree(mem', low, lfree) /\ lfree' = low
                        ELSE lfree' = lfree
  BY DEF mem_malloc
<1> HIDE DEF size
<1>3. /\ Sane(mem') /\ NoHolesInARow(mem')
      /\ b \in DOMAIN mem' \ {ram_end} /\ mem'[b].used /\ size <= Room(mem', b)
      /\ {c \in DOMAIN mem' \ {ram_end} : mem'[c].used}
            = {c \in Blocks \ {ram_end} : mem[c].used} \cup {b}
      /\ \A c \in DOMAIN mem' \cap Blocks :
            c # b => mem'[c].used = mem[c].used /\ mem'[c].next = mem[c].next
      /\ \A c \in Blocks : c <= b => c \in DOMAIN mem'
      /\ \A c \in DOMAIN mem' \ Blocks : b < c
  BY <1>1, <1>2, TakenSane
<1>4. lfree \in Nat /\ b \in Nat /\ lfree <= b /\ b \in Blocks /\ lfree \in Blocks /\ ~mem[b].used
  <2>1. b \in Blocks /\ lfree <= b /\ ~mem[b].used
    BY <1>2 DEF Candidates
  <2>2. lfree \in Blocks
    BY InvParts DEF Lowest, Blocks
  <2> QED
    BY <2>1, <2>2, InvParts, SaneFacts DEF Blocks
<1>5. \A c \in DOMAIN mem' : c < lfree => mem'[c].used
  <2> SUFFICES ASSUME NEW c \in DOMAIN mem', c < lfree PROVE mem'[c].used
    OBVIOUS
  <2>1. c \in Nat
    BY <1>3, SaneFacts
  <2>2. c \in Blocks /\ c # b
    BY <1>3, <1>4, <2>1
  <2>3. mem[c].used
    BY <2>2, InvParts DEF Lowest, Blocks
  <2> QED
    BY <1>3, <2>2, <2>3
<1>6. Lowest(mem', lfree')
  <2>1. CASE b = lfree
    <3>1. PICK low \in Blocks' : IsLowestFree(mem', low, lfree) /\ lfree' = low
      BY <1>2, <2>1
    <3>2. \A c \in DOMAIN mem' : c < low => mem'[c].used
      <4> SUFFICES ASSUME NEW c \in DOMAIN mem', c < low PROVE mem'[c].used
        OBVIOUS
      <4>1. c \in Nat
        BY <1>3, SaneFacts
      <4>2. c < lfree \/ lfree <= c
        BY <1>4, <4>1
      <4> QED
        BY <1>5, <3>1, <4>2 DEF IsLowestFree
    <3> QED
      BY <3>1, <3>2 DEF IsLowestFree, Lowest
  <2>2. CASE b # lfree
    <3>1. lfree' = lfree /\ lfree \in DOMAIN mem' \cap Blocks
      BY <1>2, <1>3, <1>4, <2>2
    <3>2. lfree # ram_end /\ ~mem[lfree].used
      <4>1. b # ram_end /\ b \in 0..MEM_SIZE
        BY <1>3, <1>4, InvParts, SaneFacts DEF Blocks
      <4>2. lfree # ram_end
        BY <1>4, <2>2, <4>1, HeapAssumption DEF ram_end
      <4> QED
        BY <4>2, InvParts DEF Lowest
    <3> QED
      BY <1>3, <1>5, <2>2, <3>1, <3>2 DEF Lowest
  <2> QED
    BY <2>1, <2>2
<1>7. DOMAIN owed' = DOMAIN owed \cup {b} /\ b \notin DOMAIN owed
  BY <1>2, <1>4, InvParts
<1>8. DOMAIN owed' = {c \in DOMAIN mem' \ {ram_end} : mem'[c].used}
  BY <1>3, <1>7, InvParts
<1>9. \A c \in DOMAIN owed' : owed'[c] = IF c = b THEN asked ELSE owed[c]
  BY <1>2, <1>7
<1>10. owed' \in [DOMAIN owed' -> Sizes]
  <2>1. owed' = [c \in DOMAIN owed' |-> owed'[c]]
    BY <1>2, <1>7
  <2>2. \A c \in DOMAIN owed' : owed'[c] \in Sizes
    BY <1>7, <1>9, InvParts
  <2> QED
    BY <2>1, <2>2
<1>11. ASSUME NEW c \in DOMAIN owed' PROVE owed'[c] <= Room(mem', c)
  <2>1. CASE c = b
    <3>1. Room(mem', b) \in Int
      BY <1>3, <1>4, SaneFacts, HeapAssumption DEF Room
    <3> QED
      BY <1>1, <1>3, <1>9, <2>1, <3>1
  <2>2. CASE c # b
    <3>1. c \in DOMAIN owed /\ c \in Blocks /\ c \in DOMAIN mem'
      BY <1>7, <1>8, <2>2, InvParts
    <3>2. mem'[c].next = mem[c].next /\ owed[c] <= Room(mem, c)
      BY <1>3, <2>2, <3>1, InvParts
    <3> QED
      BY <1>9, <2>2, <3>2 DEF Room
  <2> QED
    BY <2>1, <2>2
<1> QED
  <2>1. \A c \in DOMAIN owed : c \in DOMAIN mem' \cap Blocks /\ c # b
    BY <1>7, <1>8, InvParts
  <2> QED
    BY <1>3, <1>6, <1>8, <1>10, <1>11, <2>1, InvFromParts

LEMMA FreeInv ==
    ASSUME IInv, NEW b \in Blocks, mem_free(b)
    PROVE  IInv' /\ \A c \in DOMAIN owed' : mem'[c].next = mem[c].next
<1> DEFINE m == Release(mem, b)
           low == IF b < lfree THEN b ELSE lfree
           r == plug_holes(m, low, b)
<1>1. b \in DOMAIN owed /\ b \in DOMAIN mem \ {ram_end} /\ mem[b].used
  <2>1. b \in DOMAIN owed
    BY DEF mem_free
  <2>2. b \in Blocks \ {ram_end} /\ mem[b].used
    BY <2>1, InvParts
  <2> QED
    BY <2>1, <2>2 DEF Blocks
<1>2. /\ Sane(m) /\ DOMAIN m = DOMAIN mem /\ ~m[b].used
      /\ \A c \in DOMAIN mem : m[c].next = mem[c].next /\ (c # b => m[c].used = mem[c].used)
  <2>1. m = Release(mem, b)
    OBVIOUS
  <2> HIDE DEF m
  <2> QED
    BY <1>1, <2>1, InvParts, ReleaseSane
<1>3. HolesOnlyAt(m, b)
  <2> HIDE DEF m
  <2>1. \A c \in DOMAIN mem \ {ram_end} : mem[c].next \in DOMAIN mem
    BY InvParts, SaneFacts
  <2> QED
    BY <1>2, <2>1, InvParts DEF NoHolesInARow, HolesOnlyAt
<1>4. b \in Nat /\ lfree \in Nat /\ lfree \in DOMAIN mem /\ (lfree = ram_end \/ ~mem[lfree].used)
  BY <1>1, InvParts, SaneFacts DEF Lowest
<1>5. Lowest(m, low) /\ low <= b
  <2> HIDE DEF m
  <2>1. low \in DOMAIN m /\ low <= b /\ low \in Nat
    BY <1>1, <1>2, <1>4
  <2>2. low = ram_end \/ ~m[low].used
    BY <1>1, <1>2, <1>4
  <2>3. \A c \in DOMAIN m : c < low => m[c].used
    <3> SUFFICES ASSUME NEW c \in DOMAIN m, c < low PROVE m[c].used
      OBVIOUS
    <3>1. c \in Nat /\ c < lfree /\ c # b
      BY <1>2, <1>4, SaneFacts
    <3>2. mem[c].used
      BY <1>2, <3>1, InvParts DEF Lowest
    <3> QED
      BY <1>2, <3>1, <3>2
  <2> QED
    BY <2>1, <2>2, <2>3 DEF Lowest
<1>6. /\ Sane(r.mem) /\ NoHolesInARow(r.mem) /\ Lowest(r.mem, r.lfree) /\ SameInUse(m, r.mem)
  <2>1. r = plug_holes(m, low, b) /\ b \in DOMAIN m \ {ram_end}
    BY <1>1, <1>2
  <2> HIDE DEF m, low, r
  <2> QED
    BY <1>2, <1>3, <1>5, <2>1, PlugHolesSane
<1>7. mem' = r.mem /\ lfree' = r.lfree /\ owed' = [c \in DOMAIN owed \ {b} |-> owed[c]]
  BY DEF mem_free
<1> HIDE DEF r, low
<1>8. DOMAIN owed' = DOMAIN owed \ {b}
  BY <1>7
<1>9. DOMAIN owed' = {c \in DOMAIN mem' \ {ram_end} : mem'[c].used}
  <2> HIDE DEF m
  <2> QED
    BY <1>2, <1>6, <1>7, <1>8, InvParts DEF SameInUse, Blocks
<1>10. owed' \in [DOMAIN owed' -> Sizes]
  BY <1>7, InvParts
<1>11. ASSUME NEW c \in DOMAIN owed' PROVE owed'[c] <= Room(mem', c) /\ mem'[c].next = mem[c].next
  <2>1. c \in DOMAIN owed /\ c # b /\ owed'[c] = owed[c]
    BY <1>7, <1>8
  <2>2. c \in DOMAIN mem \ {ram_end} /\ mem[c].used /\ owed[c] <= Room(mem, c)
    BY <2>1, InvParts DEF Blocks
  <2>3. m[c].used /\ c \in DOMAIN m \ {ram_end}
    BY <1>2, <2>1, <2>2
  <2>4. mem'[c].next = mem[c].next
    BY <1>2, <1>6, <1>7, <2>2, <2>3 DEF SameInUse
  <2> QED
    BY <2>1, <2>2, <2>4 DEF Room
<1> QED
  <2>1. Sane(mem') /\ NoHolesInARow(mem') /\ Lowest(mem', lfree')
    BY <1>6, <1>7
  <2> QED
    BY <2>1, <1>9, <1>10, <1>11, InvFromParts

LEMMA ShrinkIntoHoleInv ==
    ASSUME IInv, NEW b \in DOMAIN owed, NEW size \in Nat, MIN_SIZE <= size, size < Room(mem, b),
           ShrinkIntoHole(b, size)
    PROVE  /\ Sane(mem') /\ NoHolesInARow(mem') /\ Lowest(mem', lfree')
           /\ {c \in DOMAIN mem' \ {ram_end} : mem'[c].used} = {c \in Blocks \ {ram_end} : mem[c].used}
           /\ \A c \in DOMAIN owed : c # b => mem'[c].next = mem[c].next
           /\ Room(mem', b) = size
<1> DEFINE h == mem[b].next
           q == mem[h].next
           p == b + SIZEOF_STRUCT_MEM + size
<1>1. b \in DOMAIN mem \ {ram_end} /\ mem[b].used /\ Sane(mem) /\ NoHolesInARow(mem)
  <2>1. b \in Blocks \ {ram_end} /\ mem[b].used
    BY InvParts
  <2> QED
    BY <2>1, InvParts DEF Blocks
<1>2. h \in DOMAIN mem \ {ram_end} /\ ~mem[h].used /\ mem' = Insert(mem, b, p, q)
      /\ lfree' = IF lfree = h THEN p ELSE lfree
  <2>1. ~mem[h].used /\ mem[ram_end].used /\ h \in DOMAIN mem
    BY <1>1, SaneFacts DEF ShrinkIntoHole, Sane, Linked
  <2> QED
    BY <2>1 DEF ShrinkIntoHole
<1>3. /\ b \in Nat /\ h \in Nat /\ q \in DOMAIN mem /\ q \in Nat /\ b < h
      /\ h + SIZEOF_STRUCT_MEM + MIN_SIZE <= q
      /\ \A c \in DOMAIN mem : c \in Nat /\ (c <= b \/ h <= c) /\ (c <= h \/ q <= c)
  BY <1>1, <1>2, SaneFacts, HeapAssumption
<1>4. p \in Nat /\ p < h /\ b + SIZEOF_STRUCT_MEM + MIN_SIZE <= p /\ p + SIZEOF_STRUCT_MEM + MIN_SIZE <= q
  <2>1. Room(mem, b) = h - (b + SIZEOF_STRUCT_MEM)
    BY DEF Room
  <2> HIDE DEF q, h
  <2> QED
    BY <1>3, <2>1, HeapAssumption
<1>5. mem[q].used
  BY <1>1, <1>2 DEF NoHolesInARow
<1>6. \A c \in DOMAIN mem : c <= b \/ c = h \/ q <= c
  <2> HIDE DEF h, q
  <2> QED
    BY <1>3
<1>7. /\ Sane(mem')
      /\ DOMAIN mem' = {d \in DOMAIN mem : d <= b \/ q <= d} \cup {p}
      /\ p \in DOMAIN mem' /\ b \in DOMAIN mem' /\ q \in DOMAIN mem'
      /\ b < p /\ p < q /\ p # ram_end
      /\ mem'[p].next = q /\ ~mem'[p].used /\ mem'[b].next = p
      /\ \A c \in DOMAIN mem' \ {p} : /\ c \in DOMAIN mem
                                      /\ mem'[c].used = mem[c].used
                                      /\ c # b => mem'[c].next = mem[c].next
  <2> HIDE DEF p, q, h
  <2> QED
    BY <1>1, <1>2, <1>3, <1>4, InsertSane
<1> HIDE DEF p, q
<1>8. p \notin DOMAIN mem /\ h \notin DOMAIN mem'
  <2> HIDE DEF h
  <2>1. p \notin DOMAIN mem
    BY <1>3, <1>4, <1>7
  <2>2. ~(h <= b) /\ ~(q <= h) /\ h # p
    BY <1>3, <1>4, HeapAssumption
  <2> QED
    BY <1>7, <2>1, <2>2
<1>9. DOMAIN mem' = (DOMAIN mem \ {h}) \cup {p}
  <2> HIDE DEF h
  <2> QED
    BY <1>6, <1>7, <1>8
<1>10. NoHolesInARow(mem')
  <2> SUFFICES ASSUME NEW c \in DOMAIN mem' \ {ram_end} PROVE mem'[c].used \/ mem'[mem'[c].next].used
    BY DEF NoHolesInARow
  <2>1. CASE c = p
    <3>1. q # p
      BY <1>3, <1>4, <1>7
    <3> QED
      BY <1>5, <1>7, <2>1, <3>1
  <2>2. CASE c = b
    <3>1. b # p
      BY <1>8, <1>1
    <3> QED
      BY <1>1, <1>7, <2>2, <3>1
  <2>3. CASE c # p /\ c # b
    <3>1. c \in DOMAIN mem /\ mem'[c].next = mem[c].next /\ mem'[c].used = mem[c].used
      BY <1>7, <2>3
    <3>2. mem[c].used \/ mem[mem[c].next].used
      BY <1>1, <3>1 DEF NoHolesInARow
    <3>3. mem[c].next \in DOMAIN mem' /\ mem[c].next \in DOMAIN mem
      BY <1>1, <1>7, <3>1, SaneFacts
    <3> QED
      BY <1>7, <1>8, <3>1, <3>2, <3>3
  <2> QED
    BY <2>1, <2>2, <2>3
<1>11. Lowest(mem', lfree')
  <2>1. lfree \in DOMAIN mem /\ (lfree = ram_end \/ ~mem[lfree].used)
        /\ \A c \in DOMAIN mem : c < lfree => mem[c].used
    BY InvParts DEF Lowest
  <2> HIDE DEF h
  <2>2. \A c \in DOMAIN mem' : c < lfree' => mem'[c].used
    <3> SUFFICES ASSUME NEW c \in DOMAIN mem', c < lfree' PROVE mem'[c].used
      OBVIOUS
    <3>1. lfree \in Nat /\ lfree <= h
      BY <1>2, <1>3, <2>1
    <3>2. c # p
      <4>1. lfree # h => lfree < h
        BY <1>3, <3>1
      <4>2. lfree # h => lfree <= b
        BY <1>3, <2>1, <3>1, <4>1
      <4>3. ~(p < lfree')
        BY <1>2, <1>3, <1>4, <1>7, <3>1, <4>2
      <4> QED
        BY <4>3
    <3>3. c \in DOMAIN mem /\ c \in Nat /\ c < lfree
      <4>1. c \in DOMAIN mem /\ c \in Nat
        BY <1>3, <1>7, <3>2
      <4> QED
        BY <1>2, <1>3, <1>4, <3>1, <4>1
    <3> QED
      BY <1>7, <2>1, <3>2, <3>3
  <2>3. lfree' \in DOMAIN mem' /\ (lfree' = ram_end \/ ~mem'[lfree'].used)
    BY <1>2, <1>7, <1>8, <1>9, <2>1
  <2> QED
    BY <2>2, <2>3 DEF Lowest
<1>12. {c \in DOMAIN mem' \ {ram_end} : mem'[c].used} = {c \in Blocks \ {ram_end} : mem[c].used}
  <2> HIDE DEF h
  <2> QED
    BY <1>2, <1>7, <1>8, <1>9 DEF Blocks
<1>13. \A c \in DOMAIN owed : c # b => mem'[c].next = mem[c].next
  <2> SUFFICES ASSUME NEW c \in DOMAIN owed, c # b PROVE mem'[c].next = mem[c].next
    OBVIOUS
  <2>1. c \in DOMAIN mem' \ {p}
    <3>1. c \in Blocks \ {ram_end} /\ mem[c].used
      BY InvParts
    <3> HIDE DEF h
    <3> QED
      BY <1>2, <1>8, <1>9, <3>1 DEF Blocks
  <2> QED
    BY <1>7, <2>1
<1>14. Room(mem', b) = size
  <2> HIDE DEF h
  <2> QED
    BY <1>3, <1>4, <1>7, HeapAssumption DEF Room, p
<1> QED
  BY <1>7, <1>10, <1>11, <1>12, <1>13, <1>14

LEMMA ShrinkAndSplitInv ==
    ASSUME IInv, NEW b \in DOMAIN owed, NEW size \in Nat, MIN_SIZE <= size, size < Room(mem, b),
           ShrinkAndSplit(b, size)
    PROVE  /\ Sane(mem') /\ NoHolesInARow(mem') /\ Lowest(mem', lfree')
           /\ {c \in DOMAIN mem' \ {ram_end} : mem'[c].used} = {c \in Blocks \ {ram_end} : mem[c].used}
           /\ \A c \in DOMAIN owed : c # b => mem'[c].next = mem[c].next
           /\ size <= Room(mem', b) /\ Room(mem', b) <= Room(mem, b)
<1> DEFINE q == mem[b].next
           p == b + SIZEOF_STRUCT_MEM + size
<1>1. b \in DOMAIN mem \ {ram_end} /\ mem[b].used /\ Sane(mem) /\ NoHolesInARow(mem) /\ Lowest(mem, lfree)
  <2>1. b \in Blocks \ {ram_end} /\ mem[b].used
    BY InvParts
  <2> QED
    BY <2>1, InvParts DEF Blocks
<1>2. /\ b \in Nat /\ q \in DOMAIN mem /\ q \in Nat /\ b < q
      /\ \A c \in DOMAIN mem : c \in Nat /\ (c <= b \/ q <= c)
  BY <1>1, SaneFacts, HeapAssumption
<1>3. mem[q].used
  BY DEF ShrinkAndSplit
<1>4. CASE size + SIZEOF_STRUCT_MEM + MIN_SIZE <= Room(mem, b)
  <2>1. mem' = Insert(mem, b, p, q) /\ lfree' = IF p < lfree THEN p ELSE lfree
    BY <1>4 DEF ShrinkAndSplit
  <2>2. p \in Nat /\ b + SIZEOF_STRUCT_MEM + MIN_SIZE <= p /\ p + SIZEOF_STRUCT_MEM + MIN_SIZE <= q
    <3> HIDE DEF q
    <3> QED
      BY <1>2, <1>4, HeapAssumption DEF Room, q
  <2>3. /\ Sane(mem') /\ DOMAIN mem' = DOMAIN mem \cup {p}
        /\ p \in DOMAIN mem' /\ b \in DOMAIN mem'
        /\ b < p /\ p < q /\ p # ram_end
        /\ mem'[p].next = q /\ ~mem'[p].used /\ mem'[b].next = p
        /\ \A c \in DOMAIN mem' \ {p} : /\ c \in DOMAIN mem
                                        /\ mem'[c].used = mem[c].used
                                        /\ c # b => mem'[c].next = mem[c].next
    <3>1. {d \in DOMAIN mem : d <= b \/ q <= d} = DOMAIN mem
      BY <1>2
    <3> HIDE DEF p, q
    <3> QED
      BY <1>1, <1>2, <2>1, <2>2, <3>1, InsertSane
  <2> HIDE DEF p, q
  <2>4. p \notin DOMAIN mem
    BY <1>2, <2>2, <2>3
  <2>5. NoHolesInARow(mem')
    <3> SUFFICES ASSUME NEW c \in DOMAIN mem' \ {ram_end} PROVE mem'[c].used \/ mem'[mem'[c].next].used
      BY DEF NoHolesInARow
    <3>1. CASE c = p
      <4>1. q # p
        BY <1>2, <2>4
      <4> QED
        BY <1>2, <1>3, <2>3, <3>1, <4>1
    <3>2. CASE c = b
      BY <1>1, <2>3, <2>4, <3>2
    <3>3. CASE c # p /\ c # b
      <4>1. c \in DOMAIN mem /\ mem'[c].next = mem[c].next /\ mem'[c].used = mem[c].used
        BY <2>3, <3>3
      <4>2. mem[c].used \/ mem[mem[c].next].used
        BY <1>1, <4>1 DEF NoHolesInARow
      <4>3. mem[c].next \in DOMAIN mem' \ {p}
        BY <1>1, <2>3, <2>4, <4>1, SaneFacts
      <4> QED
        BY <2>3, <4>1, <4>2, <4>3
    <3> QED
      BY <3>1, <3>2, <3>3
  <2>6. lfree \in DOMAIN mem /\ lfree \in Nat /\ (lfree = ram_end \/ ~mem[lfree].used)
        /\ \A c \in DOMAIN mem : c < lfree => mem[c].used
    BY <1>1, <1>2 DEF Lowest
  <2>7. \A c \in DOMAIN mem' : c < lfree' => mem'[c].used
    <3> SUFFICES ASSUME NEW c \in DOMAIN mem', c < lfree' PROVE mem'[c].used
      OBVIOUS
    <3>1. c # p
      BY <2>1, <2>2, <2>6
    <3>2. c \in DOMAIN mem /\ c \in Nat /\ c < lfree
      <4>1. c \in DOMAIN mem /\ c \in Nat
        BY <1>2, <2>3, <3>1
      <4> QED
        BY <2>1, <2>2, <2>6, <4>1
    <3> QED
      BY <2>3, <2>6, <3>1, <3>2
  <2>8. Lowest(mem', lfree')
    BY <2>1, <2>3, <2>4, <2>6, <2>7 DEF Lowest
  <2>9. {c \in DOMAIN mem' \ {ram_end} : mem'[c].used} = {c \in Blocks \ {ram_end} : mem[c].used}
    BY <2>3, <2>4 DEF Blocks
  <2>10. \A c \in DOMAIN owed : c # b => mem'[c].next = mem[c].next
    <3>1. \A c \in DOMAIN owed : c \in DOMAIN mem
      BY InvParts DEF Blocks
    <3> QED
      BY <2>3, <2>4, <3>1
  <2>11. size <= Room(mem', b) /\ Room(mem', b) <= Room(mem, b)
    BY <1>2, <2>2, <2>3, HeapAssumption DEF Room, p, q
  <2> QED
    BY <2>3, <2>5, <2>8, <2>9, <2>10, <2>11
<1>5. CASE ~(size + SIZEOF_STRUCT_MEM + MIN_SIZE <= Room(mem, b))
  <2>1. mem' = mem /\ lfree' = lfree
    BY <1>5 DEF ShrinkAndSplit
  <2>2. Room(mem, b) \in Int
    BY <1>2, HeapAssumption DEF Room
  <2> QED
    BY <1>1, <2>1, <2>2 DEF Blocks, Room
<1> QED
  BY <1>4, <1>5

LEMMA ReallocInv ==
    ASSUME IInv, NEW b \in Blocks, NEW asked \in Sizes, mem_realloc(b, asked)
    PROVE  /\ IInv' /\ \A c \in DOMAIN owed : c # b => mem'[c].next = mem[c].next
           /\ Room(mem', b) <= Room(mem, b)
<1> DEFINE size == BlockSize(asked)
<1>1. size \in Nat /\ asked <= size /\ MIN_SIZE <= size /\ asked \in Nat
  BY BlockSizeFacts
<1>2. /\ b \in DOMAIN owed /\ size <= Room(mem, b)
      /\ owed' = [owed EXCEPT ![b] = asked]
      /\ IF size = Room(mem, b) THEN UNCHANGED <<mem, lfree>>
                                ELSE ShrinkIntoHole(b, size) \/ ShrinkAndSplit(b, size)
  BY DEF mem_realloc
<1> HIDE DEF size
<1>3. Room(mem, b) \in Int
  <2>1. b \in DOMAIN mem \ {ram_end}
    BY <1>2, InvParts DEF Blocks
  <2> QED
    BY <2>1, InvParts, SaneFacts, HeapAssumption DEF Room
<1>4. /\ Sane(mem') /\ NoHolesInARow(mem') /\ Lowest(mem', lfree')
      /\ {c \in DOMAIN mem' \ {ram_end} : mem'[c].used} = {c \in Blocks \ {ram_end} : mem[c].used}
      /\ \A c \in DOMAIN owed : c # b => mem'[c].next = mem[c].next
      /\ size <= Room(mem', b) /\ Room(mem', b) <= Room(mem, b)
      /\ Room(mem', b) \in Int
  <2>1. CASE size = Room(mem, b)
    <3>1. mem' = mem /\ lfree' = lfree
      BY <1>2, <2>1
    <3> QED
      BY <1>1, <1>3, <2>1, <3>1, InvParts DEF Blocks, Room
  <2>2. CASE size # Room(mem, b)
    <3>1. size < Room(mem, b)
      BY <1>1, <1>2, <1>3, <2>2
    <3>2. CASE ShrinkIntoHole(b, size)
      BY <1>1, <1>2, <3>1, <3>2, ShrinkIntoHoleInv
    <3>3. CASE ShrinkAndSplit(b, size)
      <4>1. b \in DOMAIN mem' \ {ram_end} /\ Sane(mem')
        <5>1. b \in {c \in Blocks \ {ram_end} : mem[c].used}
          BY <1>2, InvParts
        <5> QED
          BY <1>1, <1>2, <3>1, <3>3, <5>1, ShrinkAndSplitInv
      <4>2. Room(mem', b) \in Int
        BY <4>1, SaneFacts, HeapAssumption DEF Room
      <4> QED
        BY <1>1, <1>2, <3>1, <3>3, <4>2, ShrinkAndSplitInv
    <3> QED
      BY <1>2, <2>2, <3>2, <3>3
  <2> QED
    BY <2>1, <2>2
<1>5. DOMAIN owed' = DOMAIN owed /\ owed'[b] = asked /\ \A c \in DOMAIN owed : c # b => owed'[c] = owed[c]
  BY <1>2
<1>6. owed' \in [DOMAIN owed' -> Sizes]
  <2>1. \A c \in DOMAIN owed' : owed'[c] \in Sizes
    BY <1>5, InvParts
  <2>2. owed' = [c \in DOMAIN owed' |-> owed'[c]]
    BY <1>2
  <2> QED
    BY <2>1, <2>2
<1>7. DOMAIN owed' = {c \in DOMAIN mem' \ {ram_end} : mem'[c].used}
  BY <1>4, <1>5, InvParts
<1>8. \A c \in DOMAIN owed' : owed'[c] <= Room(mem', c)
  <2>1. owed'[b] <= Room(mem', b)
    BY <1>1, <1>4, <1>5
  <2>2. \A c \in DOMAIN owed : c # b => owed[c] <= Room(mem', c)
    BY <1>4, InvParts DEF Room
  <2> QED
    BY <1>5, <2>1, <2>2
<1> QED
  BY <1>4, <1>6, <1>7, <1>8, InvFromParts

LEMMA StepInv == IInv /\ [Next]_vars => IInv'
<1> SUFFICES ASSUME IInv, [Next]_vars PROVE IInv'
  OBVIOUS
<1>1. CASE Malloc
  BY <1>1, MallocInv DEF Malloc
<1>2. CASE Free
  BY <1>2, FreeInv DEF Free
<1>3. CASE Realloc
  BY <1>3, ReallocInv DEF Realloc
<1>4. CASE UNCHANGED vars
  <2>1. mem' = mem /\ lfree' = lfree /\ owed' = owed
    BY <1>4 DEF vars
  <2> QED
    BY <2>1, InvParts, InvFromParts DEF Blocks, Room
<1> QED
  BY <1>1, <1>2, <1>3, <1>4 DEF Next

LEMMA HeapInv == Spec => []IInv
BY InitInv, StepInv, PTL DEF Spec

\* Every address below ram_end lies in a block.
LEMMA BlockAround ==
    ASSUME IInv, NEW a \in 0..MEM_SIZE, a < MEM_SIZE
    PROVE  \E c \in Blocks \ {ram_end} : c <= a /\ a < mem[c].next
<1> DEFINE S == {c \in Blocks : c <= a}
<1>1. Sane(mem)
  BY InvParts
<1>2. \A c \in Blocks : c \in Nat
  BY <1>1, SaneFacts DEF Blocks
<1>3. S \in SUBSET (0..MEM_SIZE) /\ 0 \in S
  BY <1>1 DEF Sane, Linked, Blocks
<1>4. PICK c \in S : \A d \in S : d <= c
  <2> HIDE DEF S
  <2> QED
    BY <1>3, Greatest, HeapAssumption
<1>5. c \in Blocks \ {ram_end} /\ c <= a
  BY <1>2, HeapAssumption DEF ram_end
<1>6. mem[c].next \in Blocks /\ c < mem[c].next /\ mem[c].next \in Nat
  BY <1>1, <1>5, SaneFacts, HeapAssumption DEF Blocks
<1>7. a < mem[c].next
  BY <1>2, <1>4, <1>5, <1>6
<1> QED
  BY <1>5, <1>7

LEMMA Refusals == IInv => RefusedOnlyWhenNothingFits
<1> SUFFICES ASSUME IInv,
                    NEW asked \in Sizes \ {0}, BlockSize(asked) <= MEM_SIZE,
                    Candidates(BlockSize(asked)) = {},
                    NEW a \in 0..MEM_SIZE, NEW b \in 0..MEM_SIZE,
                    b - a >= SIZEOF_STRUCT_MEM + BlockSize(asked),
                    \A c \in DOMAIN owed : ~(a < mem[c].next /\ c < b)
             PROVE  FALSE
  BY DEF RefusedOnlyWhenNothingFits
<1> DEFINE size == BlockSize(asked)
<1>1. size \in Nat /\ MIN_SIZE <= size
  BY BlockSizeFacts
<1> HIDE DEF size
<1>2. a < b /\ a < MEM_SIZE /\ a \in Nat /\ b \in Nat
  BY <1>1, HeapAssumption DEF size
<1>3. PICK c \in Blocks \ {ram_end} : c <= a /\ a < mem[c].next
  BY <1>2, BlockAround
<1> DEFINE d == mem[c].next
<1>4. c \in Nat /\ d \in Nat /\ d \in Blocks /\ d <= MEM_SIZE
  BY <1>3, InvParts, SaneFacts DEF Blocks
<1>5. ~mem[c].used
  <2>1. c < b
    BY <1>2, <1>3, <1>4
  <2>2. c \notin DOMAIN owed
    BY <1>3, <2>1
  <2> QED
    BY <1>3, <2>2, InvParts
<1>6. mem[d].used
  BY <1>3, <1>5, InvParts DEF NoHolesInARow, Blocks
<1>7. b <= d
  <2>1. CASE d = ram_end
    BY <1>2, <2>1 DEF ram_end
  <2>2. CASE d # ram_end
    <3>1. d \in DOMAIN owed
      BY <1>4, <1>6, <2>2, InvParts
    <3>2. d < mem[d].next /\ mem[d].next \in Nat
      BY <1>4, <2>2, InvParts, SaneFacts, HeapAssumption DEF Blocks
    <3>3. a < mem[d].next
      BY <1>2, <1>3, <1>4, <3>2
    <3>4. ~(d < b)
      BY <3>1, <3>3
    <3> QED
      BY <1>2, <1>4, <3>4
  <2> QED
    BY <2>1, <2>2
<1>8. size <= Room(mem, c) /\ c + size < MEM_SIZE
  <2> HIDE DEF d
  <2>1. b - a >= SIZEOF_STRUCT_MEM + size
    BY DEF size
  <2>2. Room(mem, c) = d - (c + SIZEOF_STRUCT_MEM)
    BY DEF Room, d
  <2> QED
    BY <1>1, <1>2, <1>3, <1>4, <1>7, <2>1, <2>2, HeapAssumption
<1>9. lfree <= c
  <2>1. lfree \in Nat /\ ~(c < lfree)
    BY <1>3, <1>5, InvParts, SaneFacts DEF Lowest, Blocks
  <2> QED
    BY <1>4, <2>1
<1>10. c < MEM_SIZE - size
  BY <1>1, <1>4, <1>8, HeapAssumption
<1>11. c \in Candidates(size)
  BY <1>3, <1>5, <1>8, <1>9, <1>10 DEF Candidates
<1> QED
  BY <1>11 DEF size

-----------------------------------------------------------------------------

\* mem, lfree and owed keep their types; lfree and every block held are blocks.
THEOREM TypeCorrect == Spec => []TypeOK
BY HeapInv, PTL DEF IInv

\* mem_malloc, mem_free, mem_realloc and plug_holes keep the blocks linked in
\* both directions, one behind the other, without gap or overlap.
THEOREM StaysLinked == Spec => []HeapIsLinked
BY HeapInv, PTL DEF IInv

\* What mem_realloc and mem_malloc rely on when they join nothing: no two free
\* blocks are neighbours, and the search begins at the lowest.
THEOREM HolesAreJoined == Spec => [](NoTwoHoles /\ LowestFree)
BY HeapInv, PTL DEF IInv

\* Nothing leaks, and a block held is in use and as long as was asked for.
THEOREM HeldIsKept == Spec => []LentBlocksAreKept
BY HeapInv, PTL DEF IInv

\* mem_malloc returns NULL only when no stretch between the blocks in use
\* could hold the block.
THEOREM NoNeedlessRefusal == Spec => []RefusedOnlyWhenNothingFits
BY HeapInv, Refusals, PTL

-----------------------------------------------------------------------------
(* The heap implements Allocator.                                          *)

held == [b \in DOMAIN owed |-> mem[b].next]

LEMMA InitAbstract == Init => Abstract!Init
<1> SUFFICES ASSUME Init PROVE Abstract!Init
  OBVIOUS
<1>1. DOMAIN owed = {}
  BY DEF Init, mem_init
<1> QED
  BY <1>1 DEF Abstract!Init

\* The piece that becomes held lies in the heap, and in nobody else's.
LEMMA MallocAbstract ==
    ASSUME IInv, NEW asked \in Sizes, mem_malloc(asked)
    PROVE  Abstract!Allocate
<1>1. IInv' /\ \A c \in DOMAIN owed : mem'[c].next = mem[c].next
  BY MallocInv
<1>2. PICK b \in Blocks :
        /\ ~mem[b].used
        /\ owed' = [c \in DOMAIN owed \cup {b} |-> IF c = b THEN asked ELSE owed[c]]
  BY DEF mem_malloc, Candidates
<1> DEFINE e == mem'[b].next
<1>3. DOMAIN owed' = DOMAIN owed \cup {b} /\ b \notin DOMAIN owed /\ owed'[b] = asked /\ b \in DOMAIN owed'
  BY <1>2, InvParts
<1>4. /\ Sane(mem') /\ DOMAIN owed' = {c \in DOMAIN mem' \ {ram_end} : mem'[c].used}
      /\ \A c \in DOMAIN owed' : owed'[c] <= Room(mem', c)
  BY <1>1 DEF IInv, TypeOK, HeapIsLinked, LentBlocksAreKept, Sane, Blocks
<1>5. /\ b \in 0..MEM_SIZE /\ e \in 0..MEM_SIZE /\ b < e
      /\ \A c \in DOMAIN mem' : c <= b \/ e <= c
  BY <1>3, <1>4, SaneFacts, HeapAssumption
<1>6. asked <= e - (b + SIZEOF_STRUCT_MEM) /\ asked \in Nat
  BY <1>3, <1>4, HeapAssumption DEF Room
<1>7. e \in (b + SIZEOF_STRUCT_MEM) .. MEM_SIZE /\ e - b >= SIZEOF_STRUCT_MEM + asked
  <2> HIDE DEF e
  <2> QED
    BY <1>5, <1>6, HeapAssumption
<1>8. \A s \in DOMAIN owed : e <= s \/ mem[s].next <= b
  <2> SUFFICES ASSUME NEW s \in DOMAIN owed PROVE e <= s \/ mem[s].next <= b
    OBVIOUS
  <2>1. s \in DOMAIN mem' \ {ram_end} /\ s # b /\ mem[s].next = mem'[s].next
    BY <1>1, <1>3, <1>4
  <2>2. (s <= b \/ e <= s) /\ (b <= s \/ mem'[s].next <= b)
    BY <1>3, <1>4, <1>5, <2>1, SaneFacts
  <2>3. s \in Nat /\ b \in Nat
    BY <1>4, <1>5, <2>1, SaneFacts
  <2> QED
    BY <2>1, <2>2, <2>3
<1>9. held' = [s \in DOMAIN held \cup {b} |-> IF s = b THEN e ELSE held[s]]
  BY <1>1, <1>3 DEF held
<1>10. Abstract!Unheld(b, e)
  <2>1. DOMAIN held = DOMAIN owed /\ \A s \in DOMAIN owed : held[s] = mem[s].next
    BY DEF held
  <2> QED
    BY <1>8, <2>1 DEF Abstract!Unheld, held
<1> HIDE DEF e
<1> QED
  BY <1>5, <1>7, <1>9, <1>10 DEF Abstract!Allocate, held

LEMMA FreeAbstract ==
    ASSUME IInv, NEW b \in Blocks, mem_free(b)
    PROVE  Abstract!Return
<1>1. \A c \in DOMAIN owed' : mem'[c].next = mem[c].next
  BY FreeInv
<1>2. b \in DOMAIN owed /\ DOMAIN owed' = DOMAIN owed \ {b}
  BY DEF mem_free
<1>3. held' = [s \in DOMAIN held \ {b} |-> held[s]] /\ b \in DOMAIN held
  BY <1>1, <1>2 DEF held
<1> QED
  BY <1>3 DEF Abstract!Return, held

LEMMA ReallocAbstract ==
    ASSUME IInv, NEW b \in Blocks, NEW asked \in Sizes, mem_realloc(b, asked)
    PROVE  Abstract!Shrink
<1>1. /\ IInv' /\ \A c \in DOMAIN owed : c # b => mem'[c].next = mem[c].next
      /\ Room(mem', b) <= Room(mem, b)
  BY ReallocInv
<1>2. b \in DOMAIN owed /\ DOMAIN owed' = DOMAIN owed
  BY DEF mem_realloc
<1>3. /\ Sane(mem') /\ b \in DOMAIN mem' \ {ram_end}
  BY <1>1, <1>2 DEF IInv, TypeOK, HeapIsLinked, LentBlocksAreKept, Sane, Blocks
<1>4. b \in DOMAIN mem \ {ram_end}
  BY <1>2, InvParts DEF Blocks
<1> DEFINE e == mem'[b].next
<1>5. b \in Nat /\ e \in Nat /\ mem[b].next \in Nat /\ b + SIZEOF_STRUCT_MEM <= e
  BY <1>3, <1>4, InvParts, SaneFacts, HeapAssumption
<1>6. e \in (b + SIZEOF_STRUCT_MEM) .. mem[b].next
  BY <1>1, <1>5, HeapAssumption DEF Room
<1>7. held' = [held EXCEPT ![b] = e] /\ held[b] = mem[b].next /\ b \in DOMAIN held
  BY <1>1, <1>2 DEF held
<1> HIDE DEF e
<1> QED
  BY <1>6, <1>7 DEF Abstract!Shrink, held

\* The heap implements Allocator: callers never see more than pieces of
\* memory that do not overlap, taken, returned and shortened.
THEOREM ImplementsAllocator == Spec => Allocates
<1>1. Init => Abstract!Init
  BY InitAbstract
<1>2. IInv /\ [Next]_vars => [Abstract!Next]_held
  <2> SUFFICES ASSUME IInv, [Next]_vars PROVE [Abstract!Next]_held
    OBVIOUS
  <2>1. CASE Malloc
    BY <2>1, MallocAbstract DEF Malloc, Abstract!Next
  <2>2. CASE Free
    BY <2>2, FreeAbstract DEF Free, Abstract!Next
  <2>3. CASE Realloc
    BY <2>3, ReallocAbstract DEF Realloc, Abstract!Next
  <2>4. CASE UNCHANGED vars
    BY <2>4 DEF vars, held
  <2> QED
    BY <2>1, <2>2, <2>3, <2>4 DEF Next
<1>3. Spec => []IInv
  BY HeapInv
<1> QED
  BY <1>1, <1>2, <1>3, PTL DEF Spec, Allocates, Abstract!Spec, held

=============================================================================
