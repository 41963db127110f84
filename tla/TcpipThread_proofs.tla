------------------------- MODULE TcpipThread_proofs -------------------------
(***************************************************************************)
(* No timer of the TCP/IP thread is lost, set twice or late by more than   *)
(* ticks, whatever the intervals, the clock and the messages, and the list *)
(* of differences implements Countdown.                                    *)
(***************************************************************************)
EXTENDS TcpipThread, SequenceTheorems, FiniteSetTheorems, FunctionTheorems, TLAPS

-----------------------------------------------------------------------------
(* Lists of timeouts *)

\* The timers of a list.
Hs(l) == {l[i].h : i \in 1 .. Len(l)}

SameTimers(r, l) == Len(r) = Len(l) /\ \A i \in 1 .. Len(l) : r[i].h = l[i].h

LEMMA FunctionIsList ==
  ASSUME NEW n \in Nat, NEW S, NEW r \in [1 .. n -> S]
  PROVE  r \in Seq(S) /\ Len(r) = n
OBVIOUS

LEMMA IsList ==
  ASSUME NEW S, NEW l \in Seq(S),
         \A i \in 1 .. Len(l) : /\ l[i] = [h |-> l[i].h, time |-> l[i].time]
                                /\ l[i].h \in Timers,
         \A i, j \in 1 .. Len(l) : l[i].h = l[j].h => i = j
  PROVE  ListOfTimeouts(l)
<1> DEFINE T == {l[i] : i \in 1 .. Len(l)}
<1>1. Len(l) \in Nat /\ l = [i \in 1 .. Len(l) |-> l[i]]
  BY LenProperties
<1>2. \A i \in 1 .. Len(l) : l[i] \in T
  OBVIOUS
<1>3. l \in Seq(T)
  <2> HIDE DEF T
  <2> QED
    BY <1>1, <1>2
<1> QED
  BY <1>3 DEF ListOfTimeouts

\* r is l with e put in behind the first k.
IsPutIn(r, l, k, e) ==
  /\ Len(r) = Len(l) + 1
  /\ \A i \in 1 .. Len(l) + 1 :
       r[i] = IF i <= k THEN l[i] ELSE IF i = k + 1 THEN e ELSE l[i - 1]

\* What is in a list with an element put in behind the first k.
LEMMA PutIn ==
  ASSUME NEW S, NEW l \in Seq(S), NEW k \in 0 .. Len(l), NEW e \in S
  PROVE  InsertAt(l, k + 1, e) \in Seq(S) /\ IsPutIn(InsertAt(l, k + 1, e), l, k, e)
<1> DEFINE a == SubSeq(l, 1, k)
           b == <<e>>
           c == SubSeq(l, k + 1, Len(l))
<1>1. Len(l) \in Nat /\ \A i \in 1 .. Len(l) : l[i] \in S
  BY ElementOfSeq, LenProperties
<1>2. a \in Seq(S) /\ Len(a) = k /\ \A i \in 1 .. k : a[i] = l[i]
  <2>1. \A i \in 1 .. k : l[i] \in S
    BY <1>1
  <2> QED
    BY <1>1, <2>1, SubSeqProperties
<1>3. c \in Seq(S) /\ Len(c) = Len(l) - k /\ \A i \in 1 .. Len(l) - k : c[i] = l[k + i]
  <2>1. \A i \in k + 1 .. Len(l) : l[i] \in S
    BY <1>1
  <2> QED
    BY <1>1, <2>1, SubSeqProperties
<1>4. b \in Seq(S) /\ Len(b) = 1 /\ b[1] = e
  OBVIOUS
<1>5. InsertAt(l, k + 1, e) = (a \o b) \o c
  <2>1. (k + 1) - 1 = k
    BY <1>1
  <2> QED
    BY <2>1, Zenon DEF InsertAt
<1> HIDE DEF a, b, c
<1> DEFINE d == a \o b
           r == d \o c
<1>6. /\ d \in Seq(S) /\ Len(d) = Len(a) + Len(b)
      /\ \A i \in 1 .. Len(a) + Len(b) : d[i] = IF i <= Len(a) THEN a[i] ELSE b[i - Len(a)]
  BY <1>2, <1>4, ConcatProperties, Zenon
<1> HIDE DEF d
<1>7. /\ r \in Seq(S) /\ Len(r) = Len(d) + Len(c)
      /\ \A i \in 1 .. Len(d) + Len(c) : r[i] = IF i <= Len(d) THEN d[i] ELSE c[i - Len(d)]
  <2>1. d \in Seq(S) /\ c \in Seq(S)
    BY <1>3, <1>6
  <2> HIDE DEF c
  <2> QED
    BY <2>1, ConcatProperties, Zenon
<1> HIDE DEF r
<1>8. Len(d) = k + 1 /\ Len(r) = Len(l) + 1
  BY <1>1, <1>2, <1>3, <1>4, <1>6, <1>7
<1>9. ASSUME NEW i \in 1 .. Len(l) + 1
      PROVE  r[i] = IF i <= k THEN l[i] ELSE IF i = k + 1 THEN e ELSE l[i - 1]
  <2>1. CASE i <= k
    BY <1>1, <1>2, <1>4, <1>6, <1>7, <1>8, <2>1
  <2>2. CASE i = k + 1
    <3>1. r[i] = d[i] /\ d[i] = b[1]
      BY <1>1, <1>2, <1>4, <1>6, <1>7, <1>8, <2>2
    <3> QED
      BY <1>1, <1>4, <2>2, <3>1
  <2>3. CASE i > k + 1
    <3> DEFINE m == i - (k + 1)
    <3>1. m \in 1 .. Len(l) - k /\ k + m = i - 1
      BY <1>1, <2>3
    <3>2. i \in 1 .. Len(d) + Len(c) /\ ~(i <= Len(d)) /\ i - Len(d) = m
      BY <1>1, <1>3, <1>8, <2>3
    <3> HIDE DEF m
    <3>3. r[i] = c[m]
      BY <1>7, <3>2, Zenon
    <3>4. c[m] = l[k + m]
      BY <1>3, <3>1, Zenon
    <3> QED
      BY <1>1, <2>3, <3>1, <3>3, <3>4
  <2> QED
    BY <1>1, <2>1, <2>2, <2>3
<1> QED
  <2> HIDE DEF d
  <2>1. IsPutIn(r, l, k, e)
    BY <1>8, <1>9, Zenon DEF IsPutIn
  <2> QED
    BY <1>5, <1>7, <2>1, Zenon DEF r, d

\* Another time for one timeout leaves the timers as they are.
LEMMA Retime ==
  ASSUME NEW l, ListOfTimeouts(l), NEW j \in 1 .. Len(l), NEW t,
         NEW r, r = [l EXCEPT ![j].time = t]
  PROVE  ListOfTimeouts(r) /\ SameTimers(r, l)
<1>1. PICK n \in Nat : n = Len(l) /\ l = [i \in 1 .. n |-> l[i]]
  BY LenProperties DEF ListOfTimeouts
<1>2. PICK x, y : l[j] = [h |-> x, time |-> y] /\ x = l[j].h
  BY Zenon DEF ListOfTimeouts
<1> DEFINE f == [h |-> x, time |-> t]
           S == {l[i] : i \in 1 .. Len(l)} \cup {f}
<1>3. [l[j] EXCEPT !.time = t] = f
  BY <1>2
<1>4. r = [i \in 1 .. n |-> IF i = j THEN [l[j] EXCEPT !.time = t] ELSE l[i]]
  BY <1>1
<1>5. f.h = x /\ f = [h |-> f.h, time |-> f.time]
  OBVIOUS
<1>6. f \in S /\ \A i \in 1 .. Len(l) : l[i] \in S
  OBVIOUS
<1> HIDE DEF f, S
<1>7. r = [i \in 1 .. n |-> IF i = j THEN f ELSE l[i]]
  BY <1>3, <1>4
<1>8. \A i \in 1 .. Len(l) : r[i] = IF i = j THEN f ELSE l[i]
  BY <1>1, <1>7
<1>9. Len(r) = Len(l) /\ r \in Seq(S)
  <2>1. r \in [1 .. n -> S]
    BY <1>1, <1>6, <1>7
  <2>2. n \in Nat /\ n = Len(l)
    BY <1>1
  <2>3. r \in Seq(S) /\ Len(r) = n
    BY <2>1, FunctionIsList
  <2> QED
    BY <2>2, <2>3
<1>10. \A i \in 1 .. Len(l) : r[i] = [h |-> r[i].h, time |-> r[i].time] /\ r[i].h = l[i].h
  <2> TAKE i \in 1 .. Len(l)
  <2>1. CASE i = j
    BY <1>2, <1>5, <1>8, <2>1
  <2>2. CASE i # j
    BY <1>8, <2>2, Zenon DEF ListOfTimeouts
  <2> QED
    BY <2>1, <2>2
<1>11. \A i \in 1 .. Len(r) : r[i] = [h |-> r[i].h, time |-> r[i].time] /\ r[i].h \in Timers
  BY <1>9, <1>10, Zenon DEF ListOfTimeouts
<1>12. \A i, k \in 1 .. Len(r) : r[i].h = r[k].h => i = k
  BY <1>9, <1>10, Zenon DEF ListOfTimeouts
<1> QED
  <2>1. SameTimers(r, l)
    BY <1>9, <1>10, Zenon DEF SameTimers
  <2>2. ListOfTimeouts(r)
    BY <1>9, <1>11, <1>12, IsList
  <2> QED
    BY <2>1, <2>2

LEMMA Places ==
  ASSUME NEW n \in Nat
  PROVE  IsFiniteSet(1 .. n) /\ Cardinality(1 .. n) = n
<1>1. 1 \in Int /\ n \in Int /\ (IF 1 > n THEN 0 ELSE n - 1 + 1) = n
  OBVIOUS
<1>2. IsFiniteSet(1 .. n) /\ Cardinality(1 .. n) = IF 1 > n THEN 0 ELSE n - 1 + 1
  BY <1>1, FS_Interval, Zenon
<1> QED
  BY <1>1, <1>2

LEMMA Rank ==
  ASSUME NEW n \in Nat, NEW K \in SUBSET (1 .. n)
  PROVE  Cardinality(K) \in 0 .. n
<1>1. IsFiniteSet(1 .. n) /\ Cardinality(1 .. n) = n
  BY Places
<1>2. IsFiniteSet(K) /\ Cardinality(K) <= n
  BY <1>1, FS_Subset
<1> QED
  BY <1>2, FS_CardinalityType

\* sys_timeout's search adds the timer and keeps the others.
LEMMA InsertList ==
  ASSUME NEW l, ListOfTimeouts(l), NEW h \in Timers, h \notin Hs(l), NEW ms
  PROVE  ListOfTimeouts(Insert(l, h, ms)) /\ Hs(Insert(l, h, ms)) = Hs(l) \cup {h}
<1> DEFINE K == {i \in 1 .. Len(l) : Due(l, i) <= ms}
           k == Cardinality(K)
           time == ms - Due(l, k)
           rest == IF k = Len(l) THEN l ELSE [l EXCEPT ![k + 1].time = @ - time]
           e == [h |-> h, time |-> time]
           S == {rest[i] : i \in 1 .. Len(rest)} \cup {e}
           r == InsertAt(rest, k + 1, e)
<1>1. Len(l) \in Nat
  BY LenProperties DEF ListOfTimeouts
<1>2. k \in 0 .. Len(l)
  <2>1. K \in SUBSET (1 .. Len(l))
    OBVIOUS
  <2> HIDE DEF K
  <2> QED
    BY <1>1, <2>1, Rank
<1>3. Insert(l, h, ms) = r
  BY Zenon DEF Insert
<1> HIDE DEF K, k, time
<1>4. ListOfTimeouts(rest) /\ SameTimers(rest, l)
  <2>1. CASE k = Len(l)
    <3>1. rest = l
      BY <2>1
    <3> QED
      BY <3>1, Zenon DEF SameTimers
  <2>2. CASE k # Len(l)
    <3>1. k + 1 \in 1 .. Len(l)
      BY <1>1, <1>2, <2>2
    <3>2. rest = [l EXCEPT ![k + 1].time = l[k + 1].time - time]
      BY <2>2, Zenon
    <3> HIDE DEF rest
    <3> QED
      BY <3>1, <3>2, Retime
  <2> QED
    BY <2>1, <2>2
<1>5. /\ Len(rest) = Len(l)
      /\ \A i \in 1 .. Len(l) : /\ rest[i] = [h |-> rest[i].h, time |-> rest[i].time]
                                /\ rest[i].h \in Timers /\ rest[i].h = l[i].h
  <2> HIDE DEF rest
  <2> QED
    BY <1>4, Zenon DEF SameTimers, ListOfTimeouts
<1>6. rest \in Seq(S)
  <2> HIDE DEF rest, e
  <2>1. rest \in Seq({rest[i] : i \in 1 .. Len(rest)})
    BY <1>4 DEF ListOfTimeouts
  <2>2. {rest[i] : i \in 1 .. Len(rest)} \subseteq S
    OBVIOUS
  <2> HIDE DEF S
  <2> QED
    BY <2>1, <2>2
<1>7. e \in S /\ e.h = h /\ e = [h |-> e.h, time |-> e.time]
  OBVIOUS
<1> HIDE DEF rest, S, e
<1>8. /\ r \in Seq(S) /\ Len(r) = Len(l) + 1
      /\ \A i \in 1 .. Len(l) + 1 :
           r[i] = IF i <= k THEN rest[i] ELSE IF i = k + 1 THEN e ELSE rest[i - 1]
  <2>1. k \in 0 .. Len(rest)
    BY <1>2, <1>5
  <2>2. r \in Seq(S) /\ IsPutIn(r, rest, k, e)
    <3>1. e \in S
      BY <1>7
    <3> QED
      BY <1>6, <2>1, <3>1, PutIn, Zenon
  <2> QED
    BY <1>5, <2>2, Zenon DEF IsPutIn
<1> HIDE DEF r
<1>9. \A i \in 1 .. Len(l) + 1 :
        r[i].h = IF i <= k THEN l[i].h ELSE IF i = k + 1 THEN h ELSE l[i - 1].h
  <2> TAKE i \in 1 .. Len(l) + 1
  <2>1. CASE i <= k
    <3>1. i \in 1 .. Len(l) /\ r[i] = rest[i]
      BY <1>1, <1>2, <1>8, <2>1
    <3> QED
      BY <1>5, <2>1, <3>1
  <2>2. CASE i = k + 1
    <3>1. r[i] = e /\ ~(i <= k)
      BY <1>1, <1>2, <1>8, <2>2
    <3> QED
      BY <1>7, <2>2, <3>1
  <2>3. CASE ~(i <= k) /\ i # k + 1
    <3>1. i - 1 \in 1 .. Len(l) /\ r[i] = rest[i - 1]
      BY <1>1, <1>2, <1>8, <2>3
    <3> QED
      BY <1>5, <2>3, <3>1
  <2> QED
    BY <2>1, <2>2, <2>3
<1>10. \A i \in 1 .. Len(r) : r[i] = [h |-> r[i].h, time |-> r[i].time] /\ r[i].h \in Timers
  <2> TAKE i \in 1 .. Len(r)
  <2>1. CASE i <= k
    <3>1. i \in 1 .. Len(l) /\ r[i] = rest[i]
      BY <1>1, <1>2, <1>8, <2>1
    <3> QED
      BY <1>5, <3>1, Zenon
  <2>2. CASE i = k + 1
    BY <1>1, <1>2, <1>7, <1>8, <2>2
  <2>3. CASE ~(i <= k) /\ i # k + 1
    <3>1. i - 1 \in 1 .. Len(l) /\ r[i] = rest[i - 1]
      BY <1>1, <1>2, <1>8, <2>3
    <3> QED
      BY <1>5, <3>1, Zenon
  <2> QED
    BY <2>1, <2>2, <2>3
<1>11. \A i, j \in 1 .. Len(r) : r[i].h = r[j].h => i = j
  <2>1. \A i, j \in 1 .. Len(l) : l[i].h = l[j].h => i = j
    BY DEF ListOfTimeouts
  <2>2. \A i \in 1 .. Len(l) : l[i].h # h
    BY DEF Hs
  <2> SUFFICES ASSUME NEW i \in 1 .. Len(r), NEW j \in 1 .. Len(r), i # j, r[i].h = r[j].h
               PROVE  FALSE
    BY Zenon
  <2> DEFINE At(x) == IF x <= k THEN x ELSE x - 1
  <2>3. ASSUME NEW x \in 1 .. Len(r)
        PROVE  \/ x = k + 1 /\ r[x].h = h
               \/ x # k + 1 /\ At(x) \in 1 .. Len(l) /\ r[x].h = l[At(x)].h
    <3>1. x \in 1 .. Len(l) + 1 /\ (x # k + 1 => At(x) \in 1 .. Len(l))
      BY <1>1, <1>2, <1>8
    <3>2. r[x].h = IF x <= k THEN l[x].h ELSE IF x = k + 1 THEN h ELSE l[x - 1].h
      BY <1>9, <3>1
    <3>3. CASE x <= k
      BY <1>1, <1>2, <3>1, <3>2, <3>3
    <3>4. CASE x = k + 1
      <4>1. ~(x <= k)
        BY <1>1, <1>2, <3>4
      <4> QED
        <5>1. r[x].h = h
          BY <3>2, <3>4, <4>1
        <5> QED
          BY <3>4, <5>1, Zenon
    <3>5. CASE ~(x <= k) /\ x # k + 1
      BY <3>1, <3>2, <3>5
    <3> QED
      BY <3>3, <3>4, <3>5
  <2>4. i # k + 1 /\ j # k + 1 => At(i) # At(j)
    BY <1>1, <1>2, <1>8
  <2> HIDE DEF At
  <2>5. CASE i = k + 1 \/ j = k + 1
    BY <2>2, <2>3, <2>5
  <2>6. CASE i # k + 1 /\ j # k + 1
    <3>1. /\ At(i) \in 1 .. Len(l) /\ r[i].h = l[At(i)].h
          /\ At(j) \in 1 .. Len(l) /\ r[j].h = l[At(j)].h
      BY <2>3, <2>6
    <3> QED
      BY <2>1, <2>4, <2>6, <3>1, Zenon
  <2> QED
    BY <2>5, <2>6
<1>12. Hs(r) = Hs(l) \cup {h}
  <2>1. Hs(r) \subseteq Hs(l) \cup {h}
    <3> SUFFICES ASSUME NEW i \in 1 .. Len(r)
                 PROVE  r[i].h \in Hs(l) \cup {h}
      BY DEF Hs
    <3>1. CASE i <= k
      <4>1. i \in 1 .. Len(l) /\ r[i].h = l[i].h
        BY <1>1, <1>2, <1>8, <1>9, <3>1
      <4> QED
        BY <4>1 DEF Hs
    <3>2. CASE i = k + 1
      BY <1>1, <1>2, <1>8, <1>9, <3>2
    <3>3. CASE ~(i <= k) /\ i # k + 1
      <4>1. i - 1 \in 1 .. Len(l) /\ r[i].h = l[i - 1].h
        BY <1>1, <1>2, <1>8, <1>9, <3>3
      <4> QED
        BY <4>1 DEF Hs
    <3> QED
      BY <3>1, <3>2, <3>3
  <2>2. h \in Hs(r)
    <3>1. k + 1 \in 1 .. Len(r) /\ r[k + 1].h = h
      BY <1>1, <1>2, <1>8, <1>9
    <3> QED
      BY <3>1 DEF Hs
  <2>3. Hs(l) \subseteq Hs(r)
    <3> SUFFICES ASSUME NEW i \in 1 .. Len(l)
                 PROVE  l[i].h \in Hs(r)
      BY DEF Hs
    <3>1. CASE i <= k
      <4>1. i \in 1 .. Len(r) /\ r[i].h = l[i].h
        BY <1>1, <1>8, <1>9, <3>1
      <4> QED
        BY <4>1 DEF Hs
    <3>2. CASE ~(i <= k)
      <4>1. PICK m \in 1 .. Len(r) : m = i + 1
        BY <1>1, <1>8
      <4>2. m \in 1 .. Len(l) + 1 /\ ~(m <= k) /\ m # k + 1 /\ m - 1 = i
        BY <1>1, <1>2, <1>8, <3>2, <4>1
      <4>3. r[m].h = l[m - 1].h
        BY <1>9, <4>2, Zenon
      <4> QED
        BY <4>2, <4>3 DEF Hs
    <3> QED
      BY <3>1, <3>2
  <2> QED
    BY <2>1, <2>2, <2>3
<1>13. ListOfTimeouts(r)
  <2>1. r \in Seq(S)
    BY <1>8
  <2> QED
    BY <1>10, <1>11, <2>1, IsList
<1> QED
  BY <1>3, <1>12, <1>13

\* A list is as long as the set of its timers.
LEMMA LenIsCard ==
  ASSUME NEW l, ListOfTimeouts(l)
  PROVE  Len(l) \in Nat /\ IsFiniteSet(Hs(l)) /\ Cardinality(Hs(l)) = Len(l)
<1> DEFINE F == [i \in 1 .. Len(l) |-> l[i].h]
<1>1. Len(l) \in Nat
  BY LenProperties DEF ListOfTimeouts
<1>2. F \in [1 .. Len(l) -> Hs(l)]
  BY DEF Hs
<1>3. \A i, j \in 1 .. Len(l) : F[i] = F[j] => i = j
  BY DEF ListOfTimeouts
<1>4. \A t \in Hs(l) : \E i \in 1 .. Len(l) : F[i] = t
  BY DEF Hs
<1> HIDE DEF F
<1>5. F \in Bijection(1 .. Len(l), Hs(l))
  BY <1>2, <1>3, <1>4, Fun_IsBij
<1>6. IsFiniteSet(1 .. Len(l)) /\ Cardinality(1 .. Len(l)) = Len(l)
  BY <1>1, Places, Zenon
<1>7. ExistsBijection(1 .. Len(l), Hs(l))
  BY <1>5 DEF ExistsBijection
<1> QED
  BY <1>1, <1>6, <1>7, FS_Bijection

\* There is an element for a timer that is not in the list.
LEMMA RoomForTimers ==
  ASSUME NEW l, ListOfTimeouts(l), NEW h \in Timers, h \notin Hs(l)
  PROVE  Timeout(l, h) = Insert(l, h, Interval[h])
<1>1. IsFiniteSet(Timers) /\ Cardinality(Timers) = 3
  <2>1. /\ IsFiniteSet({TcpTimer}) /\ Cardinality({TcpTimer}) = 1
    BY FS_Singleton
  <2>2. /\ IsFiniteSet({TcpTimer} \cup {IpTimer}) /\ Cardinality({TcpTimer} \cup {IpTimer}) = 2
    BY <2>1, FS_AddElement, TimerAssumption
  <2>3. /\ IsFiniteSet({TcpTimer} \cup {IpTimer} \cup {ArpTimer})
        /\ Cardinality({TcpTimer} \cup {IpTimer} \cup {ArpTimer}) = 3
    BY <2>2, FS_AddElement, TimerAssumption
  <2>4. Timers = {TcpTimer} \cup {IpTimer} \cup {ArpTimer}
    BY DEF Timers
  <2> QED
    BY <2>3, <2>4
<1>2. Hs(l) \subseteq Timers
  BY DEF Hs, ListOfTimeouts
<1>3. Cardinality(Hs(l)) < 3
  BY <1>1, <1>2, LenIsCard, FS_Subset
<1>4. Len(l) < TimeoutPool
  BY <1>3, LenIsCard, TimerAssumption
<1> QED
  BY <1>4 DEF Timeout

LEMMA TimeoutList ==
  ASSUME NEW l, ListOfTimeouts(l), NEW h \in Timers, h \notin Hs(l)
  PROVE  ListOfTimeouts(Timeout(l, h)) /\ Hs(Timeout(l, h)) = Hs(l) \cup {h}
BY RoomForTimers, InsertList

\* The first timeout is removed.
LEMMA TailList ==
  ASSUME NEW l, ListOfTimeouts(l), l # <<>>
  PROVE  /\ ListOfTimeouts(Tail(l)) /\ Hs(Tail(l)) = Hs(l) \ {Head(l).h}
         /\ Head(l).h \in Hs(l)
<1> DEFINE S == {l[i] : i \in 1 .. Len(l)}
           r == Tail(l)
<1>1. l \in Seq(S)
  BY DEF ListOfTimeouts
<1>2. r \in Seq(S) /\ Len(r) = Len(l) - 1 /\ \A i \in 1 .. Len(r) : r[i] = l[i + 1]
  BY <1>1, HeadTailProperties
<1>3. Len(l) \in Nat /\ Len(l) >= 1 /\ Head(l) = l[1]
  <2> HIDE DEF S
  <2> QED
    BY <1>1
<1> HIDE DEF r, S
<1>4. \A i \in 1 .. Len(r) : i + 1 \in 1 .. Len(l)
  BY <1>2, <1>3
<1>5. ListOfTimeouts(r)
  <2>1. \A i \in 1 .. Len(r) : r[i] = [h |-> r[i].h, time |-> r[i].time] /\ r[i].h \in Timers
    <3> TAKE i \in 1 .. Len(r)
    <3>1. PICK m \in 1 .. Len(l) : r[i] = l[m]
      BY <1>2, <1>4
    <3> QED
      BY <3>1, Zenon DEF ListOfTimeouts
  <2>2. \A i, j \in 1 .. Len(r) : r[i].h = r[j].h => i = j
    <3> TAKE i, j \in 1 .. Len(r)
    <3>1. PICK m \in 1 .. Len(l) : m = i + 1 /\ r[i] = l[m]
      BY <1>2, <1>4
    <3>2. PICK n \in 1 .. Len(l) : n = j + 1 /\ r[j] = l[n]
      BY <1>2, <1>4
    <3>3. r[i].h = r[j].h => m = n
      BY <3>1, <3>2, Zenon DEF ListOfTimeouts
    <3> QED
      BY <1>2, <1>3, <3>1, <3>2, <3>3
  <2> QED
    BY <1>2, <2>1, <2>2, IsList
<1>6. Hs(r) = Hs(l) \ {l[1].h}
  <2>1. ASSUME NEW i \in 1 .. Len(r)
        PROVE  r[i].h \in Hs(l) /\ r[i].h # l[1].h
    <3>1. i + 1 \in 1 .. Len(l) /\ r[i] = l[i + 1] /\ i + 1 # 1 /\ 1 \in 1 .. Len(l)
      BY <1>2, <1>3, <1>4
    <3> QED
      BY <3>1, Zenon DEF Hs, ListOfTimeouts
  <2>2. ASSUME NEW i \in 1 .. Len(l), l[i].h # l[1].h
        PROVE  l[i].h \in Hs(r)
    <3>1. i - 1 \in 1 .. Len(r) /\ r[i - 1] = l[i]
      BY <1>2, <1>3, <2>2
    <3> QED
      BY <3>1 DEF Hs
  <2> QED
    BY <2>1, <2>2 DEF Hs
<1>7. l[1].h \in Hs(l)
  BY <1>3 DEF Hs
<1> QED
  BY <1>3, <1>5, <1>6, <1>7 DEF r

\* Charging the first timeout with a wait changes its time only.
LEMMA ChargedList ==
  ASSUME ListOfTimeouts(list), list # <<>>
  PROVE  ListOfTimeouts(Charged) /\ Hs(Charged) = Hs(list)
<1> DEFINE t == IF Elapsed(spent) < list[1].time THEN list[1].time - Elapsed(spent) ELSE 0
<1>1. Len(list) \in Nat /\ Len(list) >= 1
  <2> DEFINE S == {list[i] : i \in 1 .. Len(list)}
  <2>1. list \in Seq(S)
    BY DEF ListOfTimeouts
  <2> HIDE DEF S
  <2> QED
    BY <2>1
<1>2. Charged = [list EXCEPT ![1].time = t]
  BY Zenon DEF Charged
<1> HIDE DEF t
<1>3. 1 \in 1 .. Len(list)
  BY <1>1
<1>4. ListOfTimeouts(Charged) /\ SameTimers(Charged, list)
  BY <1>2, <1>3, Retime
<1> QED
  BY <1>4, Zenon DEF Hs, SameTimers

-----------------------------------------------------------------------------
(* The invariant *)

LEMMA ListFacts ==
  ASSUME ArmedInv
  PROVE  /\ ListOfTimeouts(list) /\ list # <<>> /\ InList = Hs(list)
         /\ TcpTimer \in Timers /\ Head(list).h \in Hs(list)
<1>1. ListOfTimeouts(list) /\ InList = Hs(list)
  BY DEF ArmedInv, InList, Hs
<1>2. list # <<>>
  BY DEF ArmedInv, InList
<1> QED
  BY <1>1, <1>2, TailList DEF Timers

LEMMA InitArmed == Init => ArmedInv
<1> SUFFICES ASSUME Init PROVE ArmedInv
  OBVIOUS
<1>1. ListOfTimeouts(<<>>) /\ Hs(<<>>) = {}
  BY DEF ListOfTimeouts, Hs
<1>2. IpTimer \in Timers /\ ArpTimer \in Timers
  BY DEF Timers
<1> DEFINE l == Timeout(<<>>, IpTimer)
<1>3. ListOfTimeouts(l) /\ Hs(l) = {IpTimer}
  BY <1>1, <1>2, TimeoutList
<1>4. ListOfTimeouts(Timeout(l, ArpTimer)) /\ Hs(Timeout(l, ArpTimer)) = {IpTimer, ArpTimer}
  <2> HIDE DEF l
  <2> QED
    BY <1>2, <1>3, TimeoutList, TimerAssumption
<1>5. ListOfTimeouts(list) /\ Hs(list) = {IpTimer, ArpTimer}
  BY <1>4 DEF Init
<1>6. InList = {IpTimer, ArpTimer}
  BY <1>5 DEF InList, Hs
<1> QED
  BY <1>5, <1>6, TimerAssumption DEF Init, ArmedInv

\* Going off: the timers of IP and ARP are set again, that of TCP or its flag
\* follows the connections.
LEMMA FireArmed ==
  ASSUME ArmedInv, Fire
  PROVE  ArmedInv'
<1> DEFINE h == Head(list).h
           rest == Tail(list)
<1>1. ListOfTimeouts(rest) /\ Hs(rest) = Hs(list) \ {h} /\ h \in Hs(list) /\ h \in Timers
  <2>1. ListOfTimeouts(list) /\ list # <<>>
    BY ListFacts
  <2>2. Hs(list) \subseteq Timers
    BY <2>1 DEF Hs, ListOfTimeouts
  <2> QED
    BY <2>1, <2>2, TailList
<1>2. ListOfTimeouts(Timeout(rest, h)) /\ Hs(Timeout(rest, h)) = Hs(list)
  <2> HIDE DEF h, rest
  <2>1. h \notin Hs(rest)
    BY <1>1
  <2> QED
    BY <1>1, <2>1, TimeoutList
<1>3. InList = Hs(list) /\ InList' = Hs(list')
  BY DEF InList, Hs
<1>4. CASE h # TcpTimer
  <2>1. list' = Timeout(rest, h) /\ pcbs' = pcbs /\ timerOn' = timerOn
    BY <1>4 DEF Fire
  <2>2. ListOfTimeouts(list') /\ InList' = InList
    BY <1>2, <1>3, <2>1
  <2> QED
    BY <2>1, <2>2 DEF ArmedInv
<1>5. CASE h = TcpTimer
  <2>1. /\ pcbs' \in {pcbs, FALSE} /\ timerOn' = pcbs'
        /\ list' = IF pcbs' THEN Timeout(rest, h) ELSE rest
    BY <1>5 DEF Fire
  <2>2. pcbs' \in BOOLEAN
    BY <2>1 DEF ArmedInv
  <2>3. CASE pcbs'
    <3>1. ListOfTimeouts(list') /\ InList' = InList /\ TcpTimer \in InList
      BY <1>1, <1>2, <1>3, <1>5, <2>1, <2>3
    <3> QED
      BY <2>1, <2>2, <2>3, <3>1 DEF ArmedInv
  <2>4. CASE ~pcbs'
    <3>1. ListOfTimeouts(list') /\ InList' = InList \ {TcpTimer}
      BY <1>1, <1>3, <1>5, <2>1, <2>4
    <3> QED
      BY <2>1, <2>2, <2>4, <3>1, TimerAssumption DEF ArmedInv
  <2> QED
    BY <2>3, <2>4
<1> QED
  BY <1>4, <1>5

LEMMA NextArmed ==
  ASSUME ArmedInv, [Next]_vars
  PROVE  ArmedInv'
<1>1. CASE FireDue
  BY <1>1, FireArmed DEF FireDue
<1>2. CASE Expire
  BY <1>2, FireArmed DEF Expire
<1>3. CASE Pend \/ Tick \/ UNCHANGED vars
  <2>1. list' = list /\ pcbs' = pcbs /\ timerOn' = timerOn
    BY <1>3 DEF Pend, Tick, vars
  <2>2. InList' = InList
    BY <2>1 DEF InList
  <2> QED
    BY <2>1, <2>2 DEF ArmedInv
<1>4. CASE Opens
  <2>1. InList = Hs(list) /\ InList' = Hs(list') /\ TcpTimer \in Timers
    BY ListFacts DEF InList, Hs
  <2>2. ListOfTimeouts(Charged) /\ Hs(Charged) = InList
    BY <2>1, ListFacts, ChargedList
  <2>3. pcbs' = TRUE /\ timerOn' = TRUE
    BY <1>4, Zenon DEF Opens
  <2>4. ListOfTimeouts(list') /\ InList' = InList \cup {TcpTimer}
    <3>1. CASE timerOn
      <4>1. list' = Charged
        BY <1>4, <3>1 DEF Opens
      <4>2. TcpTimer \in InList
        BY <3>1 DEF ArmedInv
      <4> QED
        BY <2>1, <2>2, <4>1, <4>2
    <3>2. CASE ~timerOn
      <4>1. list' = Timeout(Charged, TcpTimer)
        BY <1>4, <3>2 DEF Opens
      <4>2. TcpTimer \notin InList
        BY <3>2 DEF ArmedInv
      <4>3. /\ ListOfTimeouts(Timeout(Charged, TcpTimer))
            /\ Hs(Timeout(Charged, TcpTimer)) = InList \cup {TcpTimer}
        BY <2>1, <2>2, <4>2, TimeoutList
      <4> QED
        BY <2>1, <4>1, <4>3
    <3> QED
      BY <3>1, <3>2
  <2> QED
    BY <2>3, <2>4 DEF ArmedInv
<1>5. CASE Serves
  <2>1. ListOfTimeouts(Charged) /\ Hs(Charged) = Hs(list) /\ InList = Hs(list) /\ InList' = Hs(list')
    BY ListFacts, ChargedList DEF InList, Hs
  <2>2. list' = Charged /\ timerOn' = timerOn /\ pcbs' \in {pcbs, FALSE}
    BY <1>5 DEF Serves
  <2>3. ListOfTimeouts(list') /\ InList' = InList
    BY <2>1, <2>2
  <2> QED
    <3>1. pcbs' \in BOOLEAN /\ timerOn' \in BOOLEAN
      BY <2>2 DEF ArmedInv
    <3>2. timerOn' <=> TcpTimer \in InList'
      BY <2>2, <2>3, Zenon DEF ArmedInv
    <3>3. pcbs' => timerOn'
      <4>1. CASE pcbs' = pcbs
        BY <2>2, <4>1, Zenon DEF ArmedInv
      <4>2. CASE pcbs' = FALSE
        BY <4>2, Zenon
      <4> QED
        BY <2>2, <4>1, <4>2, Zenon
    <3>4. ListOfTimeouts(list') /\ {IpTimer, ArpTimer} \subseteq InList'
      BY <2>3, Zenon DEF ArmedInv
    <3> QED
      BY <3>1, <3>2, <3>3, <3>4, Zenon DEF ArmedInv
<1> QED
  BY <1>1, <1>2, <1>3, <1>4, <1>5 DEF Next

\* Every timer is in the list once: those of IP and ARP always, that of TCP
\* whenever there is a connection, and its flag tells whether it is
\* (sys_timeout, tcp_timer_needed and tcpip_tcp_timer agree).
THEOREM TimersStayArmed == Spec => []TimersArmed
<1>1. ArmedInv => TimersArmed
  <2> SUFFICES ASSUME ArmedInv PROVE TimersArmed
    OBVIOUS
  <2>1. Len(list) = Cardinality(InList)
    BY ListFacts, LenIsCard
  <2> QED
    BY <2>1 DEF ArmedInv, TimersArmed
<1> QED
  BY <1>1, InitArmed, NextArmed, PTL DEF Spec
-----------------------------------------------------------------------------
(* Induction over numbers *)

LEMMA Greatest ==
  ASSUME NEW n \in Nat, NEW S \in SUBSET (0 .. n), S # {}
  PROVE  Max(S) \in S /\ \A y \in S : y <= Max(S)
<1> DEFINE Above(x) == {y \in S : x < y}
           T == {Above(x) : x \in S}
<1>1. IsFiniteSet(S)
  <2>1. IsFiniteSet(0 .. n)
    BY FS_Interval
  <2> QED
    BY <2>1, FS_Subset
<1>2. T \subseteq FiniteSubsetsOf(S) /\ T # {}
  <2>1. FiniteSubsetsOf(S) = SUBSET S
    BY <1>1, FS_FiniteSubsetsOfFinite
  <2>2. \A u \in T : u \in SUBSET S
    OBVIOUS
  <2>3. PICK x \in S : TRUE
    OBVIOUS
  <2>4. Above(x) \in T
    OBVIOUS
  <2> HIDE DEF T
  <2> QED
    BY <2>1, <2>2, <2>4
<1>3. PICK t \in T : \A u \in T : ~(<<u, t>> \in StrictSubsetOrdering(S))
  <2> HIDE DEF T
  <2> QED
    BY <1>1, <1>2, FS_StrictSubsetOrderingWellFounded, WFMin
<1>4. PICK x \in S : t = Above(x)
  OBVIOUS
<1>5. ASSUME NEW y \in S, ~(y <= x) PROVE FALSE
  <2>1. x < y /\ x \in Nat /\ y \in Nat
    BY <1>5
  <2>2. Above(y) \in T
    OBVIOUS
  <2>3. \A z \in S : z \in Nat
    OBVIOUS
  <2>4. \A z \in Above(y) : z \in S /\ x < z
    BY <2>1, <2>3
  <2>5. y \in Above(x) /\ y \notin Above(y)
    BY <2>1
  <2>6. <<Above(y), t>> \in StrictSubsetOrdering(S)
    BY <1>4, <2>4, <2>5 DEF StrictSubsetOrdering
  <2> QED
    BY <1>3, <2>2, <2>6
<1>6. x \in S /\ \A y \in S : x >= y
  BY <1>5
<1>7. Max(S) \in S /\ \A y \in S : Max(S) >= y
  BY <1>6, Zenon DEF Max
<1> QED
  BY <1>7

LEMMA Steps ==
  ASSUME NEW n \in Nat, NEW T \in SUBSET (0 .. n), 0 \in T,
         \A i \in T : i < n => i + 1 \in T
  PROVE  \A i \in 0 .. n : i \in T
<1> DEFINE S == {k \in 0 .. n : 0 .. k \subseteq T}
<1>1. S \in SUBSET (0 .. n) /\ 0 \in S
  OBVIOUS
<1>2. PICK m \in S : \A k \in S : k <= m
  <2> HIDE DEF S
  <2> QED
    BY <1>1, Greatest
<1>3. ASSUME m < n PROVE FALSE
  <2>1. m + 1 \in T /\ m + 1 \in 0 .. n
    BY <1>3
  <2>2. 0 .. m + 1 \subseteq T
    <3>1. ASSUME NEW k \in 0 .. m + 1 PROVE k \in T
      <4>1. k = m + 1 \/ k \in 0 .. m
        OBVIOUS
      <4> QED
        BY <2>1, <4>1
    <3> QED
      BY <3>1
  <2> QED
    BY <1>2, <2>1, <2>2
<1> QED
  BY <1>3

LEMMA TopOf ==
  ASSUME NEW m \in Nat, NEW s \in SUBSET (1 .. m + 1), m + 1 \in s
  PROVE  Max(s) = m + 1 /\ s \ {m + 1} \in SUBSET (1 .. m)
<1>1. m + 1 \in Nat /\ s \in SUBSET (0 .. m + 1) /\ s # {}
  OBVIOUS
<1>2. Max(s) \in s /\ \A y \in s : y <= Max(s)
  BY <1>1, Greatest, Zenon
<1>3. PICK x : x = Max(s)
  OBVIOUS
<1>4. x \in s /\ \A y \in s : y <= x
  BY <1>2, <1>3, Zenon
<1>5. x = m + 1 /\ s \ {m + 1} \in SUBSET (1 .. m)
  BY <1>4
<1> QED
  BY <1>3, <1>5, Zenon

\* The function that a fold from the left defines, over sets of places.
Folds(h, n, b, g) ==
  \A s \in SUBSET (1 .. n) :
    h[s] = IF s = {} THEN b ELSE g[<<h[s \ {Max(s)}], Max(s)>>]

LEMMA FoldExists ==
  ASSUME NEW n \in Nat, NEW V, NEW b \in V, NEW g \in [V \X (1 .. n) -> V]
  PROVE  \E h \in [SUBSET (1 .. n) -> V] : Folds(h, n, b, g)
<1> DEFINE T == {m \in 0 .. n : \E h \in [SUBSET (1 .. m) -> V] : Folds(h, m, b, g)}
<1>1. 0 \in T
  <2> DEFINE h == [s \in SUBSET (1 .. 0) |-> b]
  <2>1. \A s \in SUBSET (1 .. 0) : s = {}
    OBVIOUS
  <2>2. h \in [SUBSET (1 .. 0) -> V] /\ Folds(h, 0, b, g)
    BY <2>1, Zenon DEF Folds
  <2>3. \E f \in [SUBSET (1 .. 0) -> V] : Folds(f, 0, b, g)
    BY <2>2, Zenon
  <2>4. 0 \in 0 .. n
    OBVIOUS
  <2> QED
    BY <2>3, <2>4, Zenon
<1>2. ASSUME NEW m \in T, m < n PROVE m + 1 \in T
  <2>1. PICK h \in [SUBSET (1 .. m) -> V] : Folds(h, m, b, g)
    OBVIOUS
  <2> DEFINE k == m + 1
             f == [s \in SUBSET (1 .. k) |-> IF k \in s THEN g[<<h[s \ {k}], k>>] ELSE h[s]]
  <2>2. k \in 1 .. n /\ m \in Nat /\ k = m + 1
    BY <1>2
  <2>3. \A s \in SUBSET (1 .. k) : k \in s => Max(s) = k /\ s \ {k} \in SUBSET (1 .. m)
    BY <2>2, TopOf
  <2>4. \A s \in SUBSET (1 .. k) : k \notin s => s \in SUBSET (1 .. m)
    BY <2>2
  <2> HIDE DEF k
  <2>5. \A s \in SUBSET (1 .. k) : f[s] \in V
    BY <2>2, <2>3, <2>4
  <2>6. \A s \in SUBSET (1 .. m) : s \in SUBSET (1 .. k) /\ k \notin s /\ f[s] = h[s]
    BY <2>2
  <2>7. ASSUME NEW s \in SUBSET (1 .. k)
        PROVE  f[s] = IF s = {} THEN b ELSE g[<<f[s \ {Max(s)}], Max(s)>>]
    <3>1. CASE k \in s
      BY <2>3, <2>6, <3>1
    <3>2. CASE k \notin s
      <4>1. s \in SUBSET (1 .. m) /\ s \ {Max(s)} \in SUBSET (1 .. m)
        BY <2>4, <3>2
      <4>2. h[s] = IF s = {} THEN b ELSE g[<<h[s \ {Max(s)}], Max(s)>>]
        BY <2>1, <4>1, Zenon DEF Folds
      <4> QED
        BY <2>6, <4>1, <4>2
    <3> QED
      BY <3>1, <3>2
  <2>8. f \in [SUBSET (1 .. k) -> V] /\ Folds(f, k, b, g)
    <3> HIDE DEF f
    <3>1. f \in [SUBSET (1 .. k) -> V]
      BY <2>5, Zenon DEF f
    <3> QED
      BY <3>1, <2>7, Zenon DEF Folds
  <2> HIDE DEF f
  <2>9. k \in T
    BY <2>2, <2>8
  <2> QED
    BY <2>9 DEF k
<1>3. n \in T
  <2>1. T \in SUBSET (0 .. n)
    OBVIOUS
  <2> HIDE DEF T
  <2> QED
    BY <1>1, <1>2, <2>1, Steps
<1> QED
  BY <1>3

LEMMA TopPlace ==
  ASSUME NEW n \in Nat, NEW s \in SUBSET (1 .. n), s # {}
  PROVE  Max(s) \in 1 .. n
<1>1. s \in SUBSET (0 .. n)
  OBVIOUS
<1>2. Max(s) \in s
  BY <1>1, Greatest, Zenon
<1> QED
  BY <1>2

LEMMA FirstPlaces ==
  ASSUME NEW n \in Nat, NEW k \in 1 .. n
  PROVE  /\ 1 .. k \in SUBSET (1 .. n) /\ 1 .. k # {}
         /\ Max(1 .. k) = k /\ (1 .. k) \ {k} = 1 .. k - 1
<1>1. k - 1 \in Nat /\ (k - 1) + 1 = k
  OBVIOUS
<1>2. 1 .. k \in SUBSET (1 .. (k - 1) + 1) /\ (k - 1) + 1 \in 1 .. k
  BY <1>1
<1> HIDE DEF Max
<1>3. Max(1 .. k) = (k - 1) + 1
  BY <1>1, <1>2, TopOf, Zenon
<1> QED
  BY <1>1, <1>3

-----------------------------------------------------------------------------
(* When the timeouts of a list are due *)

Timeouts == [h : Timers, time : Nat]

\* The times of a list, one after the other.
Adds(f, l) ==
  /\ f \in [0 .. Len(l) -> Nat] /\ f[0] = 0
  /\ \A k \in 1 .. Len(l) : f[k] = f[k - 1] + l[k].time

Sum(l) == FoldLeft(LAMBDA sum, t : sum + t.time, 0, l)

LEMMA OfTimeouts ==
  ASSUME NEW l \in Seq(Timeouts)
  PROVE  /\ Len(l) \in Nat /\ DOMAIN l = 1 .. Len(l)
         /\ \A i \in 1 .. Len(l) : /\ l[i] \in Timeouts /\ l[i].time \in Nat /\ l[i].h \in Timers
                                   /\ l[i] = [h |-> l[i].h, time |-> l[i].time]
<1>1. Len(l) \in Nat /\ DOMAIN l = 1 .. Len(l) /\ \A i \in 1 .. Len(l) : l[i] \in Timeouts
  <2> HIDE DEF Timeouts
  <2> QED
    OBVIOUS
<1> QED
  BY <1>1 DEF Timeouts

LEMMA SumAdds ==
  ASSUME NEW l \in Seq(Timeouts)
  PROVE  \E f : Adds(f, l) /\ Sum(l) = f[Len(l)]
<1> DEFINE n == Len(l)
           Iter(h) == h = [s \in SUBSET (1 .. n) |->
                             IF s = {} THEN 0 ELSE h[s \ {Max(s)}] + l[Max(s)].time]
           iter == CHOOSE h : Iter(h)
           q == [i \in 1 .. n |-> l[i].time]
<1>1. n \in Nat /\ DOMAIN l = 1 .. n /\ \A i \in 1 .. n : q[i] \in Nat /\ q[i] = l[i].time
  BY OfTimeouts
<1>2. Sum(l) = iter[1 .. n]
  BY <1>1, Zenon DEF Sum, FoldLeft, MapThenFoldSet
<1> HIDE DEF q
<1>3. \E h : Iter(h)
  <2> DEFINE g == [x \in Nat \X (1 .. n) |-> x[1] + q[x[2]]]
  <2>1. g \in [Nat \X (1 .. n) -> Nat]
    BY <1>1
  <2>2. \A x \in Nat, i \in 1 .. n : g[<<x, i>>] = x + q[i]
    OBVIOUS
  <2> HIDE DEF g, n
  <2>3. PICK h \in [SUBSET (1 .. n) -> Nat] : Folds(h, n, 0, g)
    BY <1>1, <2>1, FoldExists, Zenon
  <2>4. ASSUME NEW s \in SUBSET (1 .. n)
        PROVE  h[s] = IF s = {} THEN 0 ELSE h[s \ {Max(s)}] + l[Max(s)].time
    <3>1. h[s] = IF s = {} THEN 0 ELSE g[<<h[s \ {Max(s)}], Max(s)>>]
      BY <2>3, Zenon DEF Folds
    <3>2. CASE s = {}
      BY <3>1, <3>2
    <3>3. CASE s # {}
      <4>1. Max(s) \in 1 .. n /\ h[s \ {Max(s)}] \in Nat
        BY <1>1, <3>3, TopPlace
      <4>2. h[s] = h[s \ {Max(s)}] + q[Max(s)]
        BY <2>2, <3>1, <3>3, <4>1, Zenon
      <4> QED
        BY <1>1, <3>3, <4>1, <4>2, Zenon
    <3> QED
      BY <3>2, <3>3
  <2>5. Iter(h)
    BY <2>4
  <2> HIDE DEF Iter
  <2> QED
    BY <2>5
<1> HIDE DEF n
<1>4. Iter(iter)
  <2> HIDE DEF Iter
  <2> QED
    BY <1>3
<1> HIDE DEF iter
<1> DEFINE f == [k \in 0 .. n |-> iter[1 .. k]]
<1>5. f[0] = 0
  <2>1. 1 .. 0 = {} /\ 0 \in 0 .. n /\ {} \in SUBSET (1 .. n)
    BY <1>1
  <2> QED
    BY <1>4, <2>1
<1>6. ASSUME NEW k \in 1 .. n PROVE f[k] = f[k - 1] + l[k].time
  <2>1. k \in 0 .. n /\ k - 1 \in 0 .. n
    BY <1>1
  <2>2. iter[1 .. k] = iter[(1 .. k) \ {Max(1 .. k)}] + l[Max(1 .. k)].time
    BY <1>1, <1>4, FirstPlaces, Zenon
  <2>3. iter[1 .. k] = iter[1 .. k - 1] + l[k].time
    BY <1>1, <2>2, FirstPlaces, Zenon
  <2> QED
    BY <2>1, <2>3, Zenon
<1> HIDE DEF f
<1>7. f \in [0 .. n -> Nat]
  <2> DEFINE T == {k \in 0 .. n : f[k] \in Nat}
  <2>1. T \in SUBSET (0 .. n) /\ 0 \in T
    BY <1>1, <1>5
  <2>2. ASSUME NEW k \in T, k < n PROVE k + 1 \in T
    <3>1. k + 1 \in 1 .. n /\ (k + 1) - 1 = k /\ k + 1 \in 0 .. n
      BY <1>1, <2>2
    <3>2. f[k + 1] = f[(k + 1) - 1] + l[k + 1].time
      BY <1>6, <3>1, Zenon
    <3>3. PICK t \in Nat : t = l[k + 1].time
      BY <1>1, <3>1
    <3>4. f[k + 1] = f[k] + t /\ f[k] \in Nat
      BY <3>1, <3>2, <3>3
    <3> QED
      BY <3>1, <3>4
  <2> HIDE DEF T
  <2>3. \A k \in 0 .. n : k \in T
    BY <1>1, <2>1, <2>2, Steps
  <2>4. \A k \in 0 .. n : f[k] \in Nat
    BY <2>3 DEF T
  <2> QED
    BY <2>4 DEF f
<1>8. Sum(l) = f[n]
  BY <1>1, <1>2 DEF f
<1>9. Adds(f, l)
  BY <1>5, <1>6, <1>7 DEF Adds, n
<1> QED
  BY <1>8, <1>9 DEF n

\* Sums of lists that begin alike are alike.
LEMMA AddsAgree ==
  ASSUME NEW l, NEW r, NEW f, NEW g, Adds(f, l), Adds(g, r),
         NEW n \in Nat, n <= Len(l), n <= Len(r), Len(l) \in Nat, Len(r) \in Nat,
         \A i \in 1 .. n : l[i].time = r[i].time
  PROVE  \A k \in 0 .. n : f[k] = g[k]
<1> DEFINE T == {k \in 0 .. n : f[k] = g[k]}
<1>1. T \in SUBSET (0 .. n) /\ 0 \in T
  BY DEF Adds
<1>2. ASSUME NEW k \in T, k < n PROVE k + 1 \in T
  <2>1. k + 1 \in 1 .. n /\ k + 1 \in 1 .. Len(l) /\ k + 1 \in 1 .. Len(r) /\ (k + 1) - 1 = k
    BY <1>2
  <2>2. f[k + 1] = f[(k + 1) - 1] + l[k + 1].time /\ g[k + 1] = g[(k + 1) - 1] + r[k + 1].time
    BY <2>1, Zenon DEF Adds
  <2>3. l[k + 1].time = r[k + 1].time /\ f[k] = g[k]
    BY <1>2, <2>1
  <2>4. f[k + 1] = g[k + 1]
    BY <2>1, <2>2, <2>3
  <2> QED
    BY <2>1, <2>4
<1> HIDE DEF T
<1>3. \A k \in 0 .. n : k \in T
  BY <1>1, <1>2, Steps
<1> QED
  BY <1>3 DEF T

\* Due is these sums.
LEMMA DueAdds ==
  ASSUME NEW l \in Seq(Timeouts)
  PROVE  Adds([k \in 0 .. Len(l) |-> Due(l, k)], l)
<1> DEFINE n == Len(l)
           D == [k \in 0 .. n |-> Due(l, k)]
<1>1. n \in Nat
  BY OfTimeouts
<1>2. PICK f : Adds(f, l)
  BY SumAdds
<1>3. ASSUME NEW k \in 0 .. n PROVE Due(l, k) = f[k]
  <2> DEFINE q == SubSeq(l, 1, k)
  <2>1. q \in Seq(Timeouts) /\ Len(q) = k /\ \A i \in 1 .. k : q[i] = l[i]
    <3>1. \A i \in 1 .. k : l[i] \in Timeouts
      BY <1>1, OfTimeouts
    <3> HIDE DEF Timeouts
    <3> QED
      BY <1>1, <3>1, SubSeqProperties
  <2>2. Due(l, k) = Sum(q)
    BY DEF Due, Sum
  <2> HIDE DEF q
  <2>3. PICK g : Adds(g, q) /\ Sum(q) = g[Len(q)]
    BY <2>1, SumAdds
  <2>4. \A i \in 0 .. k : g[i] = f[i]
    <3>1. k \in Nat /\ k <= Len(l) /\ k <= Len(q) /\ Len(l) \in Nat /\ Len(q) \in Nat
      BY <1>1, <2>1
    <3>2. \A i \in 1 .. k : q[i].time = l[i].time
      BY <2>1
    <3> QED
      BY <1>2, <2>3, <3>1, <3>2, AddsAgree
  <2> QED
    BY <1>1, <2>1, <2>2, <2>3, <2>4
<1>4. f \in [0 .. n -> Nat]
  BY <1>2 DEF Adds
<1>5. D = f
  BY <1>3, <1>4
<1> QED
  BY <1>2, <1>5

LEMMA DueFacts ==
  ASSUME NEW l \in Seq(Timeouts)
  PROVE  /\ Due(l, 0) = 0
         /\ \A k \in 0 .. Len(l) : Due(l, k) \in Nat
         /\ \A k \in 1 .. Len(l) : Due(l, k) = Due(l, k - 1) + l[k].time
<1> DEFINE D == [k \in 0 .. Len(l) |-> Due(l, k)]
<1>1. Len(l) \in Nat
  BY OfTimeouts
<1>2. D \in [0 .. Len(l) -> Nat] /\ D[0] = 0 /\ \A k \in 1 .. Len(l) : D[k] = D[k - 1] + l[k].time
  BY DueAdds DEF Adds
<1>3. \A k \in 0 .. Len(l) : D[k] = Due(l, k)
  OBVIOUS
<1> HIDE DEF D
<1>4. \A k \in 1 .. Len(l) : k \in 0 .. Len(l) /\ k - 1 \in 0 .. Len(l)
  BY <1>1
<1>5. 0 \in 0 .. Len(l)
  BY <1>1
<1> QED
  BY <1>2, <1>3, <1>4, <1>5, Zenon

\* Whatever adds up like the times of a list is when they are due.
LEMMA DueUnique ==
  ASSUME NEW l \in Seq(Timeouts), NEW f, Adds(f, l)
  PROVE  \A k \in 0 .. Len(l) : Due(l, k) = f[k]
<1>1. Len(l) \in Nat /\ Len(l) <= Len(l)
  BY OfTimeouts
<1> DEFINE D == [k \in 0 .. Len(l) |-> Due(l, k)]
<1>2. Adds(D, l)
  BY DueAdds
<1>3. \A k \in 0 .. Len(l) : D[k] = Due(l, k)
  OBVIOUS
<1> HIDE DEF D
<1>4. \A k \in 0 .. Len(l) : D[k] = f[k]
  BY <1>1, <1>2, AddsAgree
<1> QED
  BY <1>3, <1>4

LEMMA DueGrows ==
  ASSUME NEW l \in Seq(Timeouts), NEW i \in 0 .. Len(l), NEW j \in 0 .. Len(l), i <= j
  PROVE  Due(l, i) <= Due(l, j)
<1>1. Len(l) \in Nat
  BY OfTimeouts
<1> DEFINE T == {k \in 0 .. j : i <= k => Due(l, i) <= Due(l, k)}
<1>2. \A k \in 0 .. Len(l) : Due(l, k) \in Nat
  BY DueFacts
<1>3. T \in SUBSET (0 .. j) /\ 0 \in T
  <2>1. i <= 0 => i = 0
    BY <1>1
  <2>2. 0 \in 0 .. j
    BY <1>1
  <2> QED
    BY <1>1, <1>2, <2>1, <2>2
<1>4. ASSUME NEW k \in T, k < j PROVE k + 1 \in T
  <2>1. k + 1 \in 1 .. Len(l) /\ (k + 1) - 1 = k /\ k \in 0 .. Len(l) /\ k + 1 \in 0 .. j /\ k + 1 \in 0 .. Len(l)
    BY <1>1, <1>4
  <2>2. Due(l, k + 1) = Due(l, (k + 1) - 1) + l[k + 1].time
    BY <2>1, DueFacts, Zenon
  <2>3. PICK t \in Nat : t = l[k + 1].time
    BY <2>1, OfTimeouts
  <2>4. Due(l, k + 1) = Due(l, k) + t
    BY <2>1, <2>2, <2>3
  <2>5. i <= k + 1 => i = k + 1 \/ i <= k
    BY <1>1, <2>1
  <2>6. i <= k + 1 => Due(l, i) <= Due(l, k + 1)
    BY <1>2, <1>4, <2>1, <2>4, <2>5
  <2> QED
    BY <2>1, <2>6
<1> HIDE DEF T
<1>5. j \in Nat /\ j \in 0 .. j
  BY <1>1
<1>6. \A k \in 0 .. j : k \in T
  BY <1>3, <1>4, <1>5, Steps
<1> QED
  BY <1>5, <1>6 DEF T
-----------------------------------------------------------------------------
(* Ticks and milliseconds *)

LEMMA Division ==
  ASSUME NEW a \in Nat, NEW b \in Nat \ {0}, NEW q, q = a \div b, NEW r, r = a % b
  PROVE  /\ q \in Nat /\ r \in Nat /\ r < b /\ r <= a
         /\ a = b * q + r /\ b * q \in Nat /\ b * q <= a
<1>1. q \in Nat /\ r \in Nat /\ r < b
  OBVIOUS
<1>2. a = b * q + r
  BY <1>1
<1>3. b * q \in Nat
  BY <1>1
<1> QED
  BY ONLY <1>1, <1>2, <1>3, a \in Nat

LEMMA Products ==
  ASSUME NEW a \in Nat, NEW b \in Nat, NEW c \in Nat, a <= b
  PROVE  a * c \in Nat /\ b * c \in Nat /\ a * c <= b * c
<1>1. PICK d \in Nat : b = a + d
  <2>1. b - a \in Nat /\ b = a + (b - a)
    OBVIOUS
  <2> QED
    BY <2>1
<1>2. b * c = a * c + d * c /\ d * c \in Nat /\ a * c \in Nat
  BY <1>1
<1> QED
  BY <1>2

LEMMA Cancels ==
  ASSUME NEW a \in Nat, NEW b \in Nat, NEW c \in Nat \ {0}, a * c <= b * c
  PROVE  a <= b
<1> SUFFICES ASSUME b + 1 <= a PROVE FALSE
  OBVIOUS
<1>1. (b + 1) * c <= a * c /\ (b + 1) * c \in Nat /\ a * c \in Nat /\ b * c \in Nat
  BY Products
<1>2. (b + 1) * c = b * c + c
  OBVIOUS
<1> QED
  BY <1>1, <1>2

LEMMA TickFacts ==
  /\ TickMs \in Nat \ {0} /\ TicksPerSec \in Nat \ {0} /\ MsPerSec \in Nat \ {0}
  /\ WordMod \in Nat \ {0} /\ MaxTicks \in Nat \ {0}
  /\ MsPerSec = TickMs * TicksPerSec
<1>1. /\ TicksPerSec \in Nat \ {0} /\ MsPerSec \in Nat /\ MsPerSec % TicksPerSec = 0
      /\ MsPerSec >= TicksPerSec /\ WordMod \in Nat \ {0} /\ MaxTicks \in Nat \ {0}
  BY ClockAssumption
<1>2. PICK t, r : t = MsPerSec \div TicksPerSec /\ r = MsPerSec % TicksPerSec
  OBVIOUS
<1>3. t \in Nat /\ MsPerSec = TicksPerSec * t + 0
  <2>1. t \in Nat /\ r \in Nat /\ MsPerSec = TicksPerSec * t + r
    BY <1>1, <1>2, Division
  <2> QED
    BY <1>1, <1>2, <2>1
<1>4. MsPerSec = t * TicksPerSec /\ t # 0
  BY <1>1, <1>3
<1> QED
  BY <1>1, <1>2, <1>3, <1>4 DEF TickMs

\* A wait of s ticks that did not time out yet is no longer than asked for.
LEMMA PendTime ==
  ASSUME NEW ms \in Nat \ {0}, NEW p, p = PendTicks(ms)
  PROVE  /\ p \in 1 .. MaxTicks /\ p * TickMs <= ms + (TickMs - 1)
         /\ \A s \in 1 .. p - 1 : s * TickMs <= ms /\ s * MsPerSec < WordMod
<1> DEFINE w == (ms * TicksPerSec) % WordMod
           n == w \div MsPerSec
<1>1. PICK T \in Nat \ {0} : T = TickMs
  BY TickFacts
<1>2. w \in Nat /\ w < WordMod /\ w <= ms * TicksPerSec
  <2>1. PICK a \in Nat : a = ms * TicksPerSec
    BY TickFacts
  <2>2. PICK q, r : q = a \div WordMod /\ r = a % WordMod
    OBVIOUS
  <2>3. r \in Nat /\ r < WordMod /\ r <= a
    BY <2>1, <2>2, TickFacts, Division
  <2>4. w = r
    BY <2>1, <2>2
  <2> QED
    BY <2>1, <2>3, <2>4
<1> HIDE DEF w
<1>3. n \in Nat /\ MsPerSec * n <= w
  <2>1. PICK q, r : q = w \div MsPerSec /\ r = w % MsPerSec
    OBVIOUS
  <2>2. q \in Nat /\ MsPerSec * q <= w
    BY <1>2, <2>1, TickFacts, Division
  <2> QED
    BY <2>1, <2>2
<1>4. p = IF n < 1 THEN 1 ELSE IF n > MaxTicks THEN MaxTicks ELSE n
  BY DEF PendTicks, w
<1> HIDE DEF n
<1>5. n * T <= ms
  <2>1. (n * T) * TicksPerSec <= ms * TicksPerSec
    <3>1. MsPerSec = T * TicksPerSec
      BY <1>1, TickFacts
    <3>2. (n * T) * TicksPerSec = MsPerSec * n
      BY <1>1, <1>3, <3>1, TickFacts
    <3>3. MsPerSec * n \in Nat /\ ms * TicksPerSec \in Nat
      BY <1>3, TickFacts
    <3> QED
      BY <1>2, <1>3, <3>2, <3>3
  <2>2. n * T \in Nat
    BY <1>1, <1>3
  <2> HIDE DEF n
  <2> QED
    BY <2>1, <2>2, TickFacts, Cancels
<1>6. p \in 1 .. MaxTicks /\ (n < 1 => p = 1) /\ (~(n < 1) => p <= n)
  BY <1>3, <1>4, TickFacts
<1>7. p * T <= ms + (T - 1)
  <2>1. CASE n < 1
    BY <1>1, <1>6, <2>1
  <2>2. CASE ~(n < 1)
    <3>1. p \in Nat /\ p <= n
      BY <1>6, <2>2, TickFacts
    <3>2. p * T <= n * T /\ p * T \in Nat /\ n * T \in Nat
      BY <1>1, <1>3, <3>1, Products
    <3> QED
      BY <1>1, <1>5, <3>2
  <2> QED
    BY <2>1, <2>2
<1>8. ASSUME NEW s \in 1 .. p - 1
      PROVE  s * T <= ms /\ s * MsPerSec < WordMod
  <2>1. s \in Nat /\ s <= n
    BY <1>3, <1>6, TickFacts
  <2>2. s * T <= n * T /\ s * T \in Nat /\ n * T \in Nat
    BY <1>1, <1>3, <2>1, Products
  <2>3. s * MsPerSec <= n * MsPerSec /\ s * MsPerSec \in Nat /\ n * MsPerSec \in Nat
    BY <1>3, <2>1, TickFacts, Products
  <2>4. n * MsPerSec = MsPerSec * n
    BY <1>3, TickFacts
  <2> QED
    BY <1>2, <1>3, <1>5, <2>2, <2>3, <2>4, TickFacts
<1> QED
  BY <1>1, <1>6, <1>7, <1>8

\* The time charged for s ticks is no less than they took.
LEMMA ElapsedTime ==
  ASSUME NEW ms \in Nat \ {0}, NEW s \in Nat, s < PendTicks(ms)
  PROVE  /\ Elapsed(s) \in Nat /\ s * TickMs \in Nat
         /\ s * TickMs <= Elapsed(s) /\ s * TickMs <= ms
<1>1. PICK T \in Nat \ {0} : T = TickMs
  BY TickFacts
<1>2. PICK p : p = PendTicks(ms)
  OBVIOUS
<1>3. p \in Nat /\ \A i \in 1 .. p - 1 : i * TickMs <= ms /\ i * MsPerSec < WordMod
  BY <1>2, PendTime, TickFacts
<1> DEFINE diff == IF s > 0 THEN s ELSE WordMod - 1
           w == (diff * MsPerSec) % WordMod
<1>4. diff \in Nat /\ diff * MsPerSec \in Nat
  BY TickFacts
<1> HIDE DEF diff
<1>5. w \in Nat /\ w \div TicksPerSec \in Nat
  <2>1. PICK x \in Nat : x = diff * MsPerSec
    BY <1>4
  <2>2. x % WordMod \in Nat
    BY TickFacts
  <2>3. PICK y \in Nat : y = w
    BY <2>1, <2>2
  <2>4. y \div TicksPerSec \in Nat
    BY TickFacts
  <2> QED
    BY <2>3, <2>4
<1>6. Elapsed(s) = w \div TicksPerSec + 1
  BY DEF Elapsed, diff
<1>7. CASE s = 0
  <2>1. s * TickMs = 0
    BY <1>1, <1>7
  <2> HIDE DEF w
  <2> QED
    BY <1>5, <1>6, <2>1
<1>8. CASE s # 0
  <2>1. s \in 1 .. p - 1 /\ diff = s
    BY <1>2, <1>3, <1>8 DEF diff
  <2>2. s * TickMs <= ms /\ s * MsPerSec < WordMod /\ s * MsPerSec \in Nat
    BY <1>3, <2>1, TickFacts
  <2>3. w = s * MsPerSec
    BY <2>1, <2>2, TickFacts
  <2> HIDE DEF w
  <2>4. s * T \in Nat /\ s * MsPerSec = (s * T) * TicksPerSec
    BY <1>1, TickFacts
  <2>5. PICK a \in Nat : a = w \div TicksPerSec
    BY <1>5
  <2>6. PICK r \in Nat : r < TicksPerSec /\ w = TicksPerSec * a + r
    <3>1. PICK y \in Nat : y = w
      BY <1>5
    <3>2. PICK r : r = y % TicksPerSec
      OBVIOUS
    <3>3. a = y \div TicksPerSec /\ TicksPerSec \in Nat \ {0}
      BY <2>5, <3>1, TickFacts
    <3>4. r \in Nat /\ r < TicksPerSec /\ y = TicksPerSec * a + r
      <4>1. PICK b \in Nat \ {0} : b = TicksPerSec
        BY <3>3
      <4>2. a = y \div b /\ r = y % b
        BY <3>2, <3>3, <4>1, Zenon
      <4>3. r \in Nat /\ r < b /\ y = b * a + r
        BY ONLY <4>2, y \in Nat, b \in Nat \ {0}, Division
      <4> QED
        BY <4>1, <4>3
    <3> QED
      BY <3>1, <3>4
  <2>7. PICK b \in Nat : b = s * T
    BY <2>4
  <2>8. b * TicksPerSec < (a + 1) * TicksPerSec
    <3>1. (a + 1) * TicksPerSec = TicksPerSec * a + TicksPerSec /\ TicksPerSec * a \in Nat
      BY TickFacts
    <3> QED
      BY <2>3, <2>4, <2>6, <2>7, <3>1, TickFacts
  <2>9. b <= a + 1
    <3>1. a + 1 \in Nat /\ b * TicksPerSec \in Nat /\ (a + 1) * TicksPerSec \in Nat
      BY TickFacts
    <3>2. b * TicksPerSec <= (a + 1) * TicksPerSec
      BY <2>8, <3>1
    <3> QED
      BY <3>1, <3>2, Cancels, TickFacts
  <2> QED
    BY <1>1, <1>6, <2>2, <2>5, <2>7, <2>9
<1> QED
  BY <1>7, <1>8
-----------------------------------------------------------------------------
(* What inserting, removing and charging do to the time the timers have left *)

Timed(l) == ListOfTimeouts(l) /\ l \in Seq(Timeouts)

\* The time a timer of a list has left.
Wait(l, x) == Due(l, CHOOSE i \in 1 .. Len(l) : l[i].h = x)

LEMMA WaitAt ==
  ASSUME NEW l, Timed(l), NEW i \in 1 .. Len(l)
  PROVE  Wait(l, l[i].h) = Due(l, i)
<1>1. \A j \in 1 .. Len(l) : l[j].h = l[i].h => j = i
  BY Zenon DEF Timed, ListOfTimeouts
<1>2. (CHOOSE j \in 1 .. Len(l) : l[j].h = l[i].h) = i
  BY <1>1, Zenon
<1> QED
  BY <1>2, Zenon DEF Wait

LEMMA WaitIs ==
  ASSUME NEW l, Timed(l), NEW x \in Hs(l)
  PROVE  \E i \in 1 .. Len(l) : l[i].h = x /\ Wait(l, x) = Due(l, i) /\ Due(l, i) \in Nat
<1>1. PICK i \in 1 .. Len(l) : l[i].h = x
  BY DEF Hs
<1>2. Wait(l, x) = Due(l, i)
  BY <1>1, WaitAt
<1>3. l \in Seq(Timeouts) /\ Len(l) \in Nat
  BY OfTimeouts DEF Timed
<1>4. i \in 0 .. Len(l)
  BY <1>3
<1>5. Due(l, i) \in Nat
  BY <1>3, <1>4, DueFacts
<1> QED
  BY <1>1, <1>2, <1>5

\* r is l with the time of the j-th timeout set to t.
IsRetimed(r, l, j, t) ==
  /\ r \in Seq(Timeouts) /\ Len(r) = Len(l)
  /\ \A i \in 1 .. Len(l) : /\ r[i].h = l[i].h
                            /\ r[i].time = IF i = j THEN t ELSE l[i].time

LEMMA RetimeTimed ==
  ASSUME NEW l, Timed(l), NEW j \in 1 .. Len(l), NEW t \in Nat,
         NEW r, r = [l EXCEPT ![j].time = t]
  PROVE  Timed(r) /\ IsRetimed(r, l, j, t)
<1>1. ListOfTimeouts(r) /\ SameTimers(r, l)
  BY Retime DEF Timed
<1>2. PICK n \in Nat : n = Len(l) /\ l = [i \in 1 .. n |-> l[i]] /\ \A i \in 1 .. n : l[i] \in Timeouts
  <2>1. l \in Seq(Timeouts)
    BY DEF Timed
  <2>2. Len(l) \in Nat /\ \A i \in 1 .. Len(l) : l[i] \in Timeouts
    BY <2>1, OfTimeouts
  <2> HIDE DEF Timeouts
  <2>3. l = [i \in 1 .. Len(l) |-> l[i]]
    BY <2>1
  <2> QED
    BY <2>2, <2>3
<1>3. PICK f : f = [l[j] EXCEPT !.time = t]
  OBVIOUS
<1>4. f \in Timeouts /\ f.time = t
  BY <1>2, <1>3 DEF Timeouts
<1>5. r = [i \in 1 .. n |-> IF i = j THEN f ELSE l[i]]
  BY <1>2, <1>3
<1>6. \A i \in 1 .. n : r[i] = IF i = j THEN f ELSE l[i]
  BY <1>5
<1>7. r \in Seq(Timeouts) /\ Len(r) = n
  <2>1. r \in [1 .. n -> Timeouts]
    <3> HIDE DEF Timeouts
    <3> QED
      BY <1>2, <1>4, <1>5
  <2> QED
    BY <2>1, FunctionIsList
<1>8. \A i \in 1 .. Len(l) : r[i].h = l[i].h
  BY <1>1, Zenon DEF SameTimers
<1>9. \A i \in 1 .. n : r[i].time = IF i = j THEN t ELSE l[i].time
  BY <1>4, <1>6
<1> QED
  BY <1>1, <1>2, <1>7, <1>8, <1>9, Zenon DEF Timed, IsRetimed

\* What a charge leaves: every timer has d less left.
IsCharged(r, l, d) == Timed(r) /\ Hs(r) = Hs(l) /\ \A x \in Hs(l) : Wait(r, x) = Wait(l, x) - d

LEMMA ChargeWait ==
  ASSUME NEW l, Timed(l), l # <<>>, NEW d \in Nat, d <= l[1].time,
         NEW r, r = [l EXCEPT ![1].time = l[1].time - d]
  PROVE  IsCharged(r, l, d)
<1>1. /\ l \in Seq(Timeouts) /\ Len(l) \in Nat /\ Len(l) > 0 /\ 1 \in 1 .. Len(l)
      /\ \A i \in 1 .. Len(l) : l[i].time \in Nat
  <2>1. l \in Seq(Timeouts)
    BY DEF Timed
  <2>2. Len(l) \in Nat /\ \A i \in 1 .. Len(l) : l[i].time \in Nat
    BY <2>1, OfTimeouts
  <2>3. Len(l) # 0
    <3> HIDE DEF Timeouts
    <3> QED
      BY <2>1
  <2> QED
    BY <2>1, <2>2, <2>3
<1>2. PICK a, t : a = l[1].time /\ t = a - d
  OBVIOUS
<1>3. a \in Nat /\ t \in Nat /\ d <= a /\ t = a - d
  <2>1. a \in Nat
    BY <1>1, <1>2, Zenon
  <2>2. d <= a
    BY <1>2, Zenon
  <2> QED
    BY <1>2, <2>1, <2>2
<1>4. Timed(r) /\ IsRetimed(r, l, 1, t)
  <2>1. r = [l EXCEPT ![1].time = t]
    BY <1>2
  <2>2. 1 \in 1 .. Len(l) /\ t \in Nat
    BY <1>1, <1>3, Zenon
  <2> QED
    BY <2>1, <2>2, RetimeTimed
<1>5. PICK n \in Nat : n = Len(l)
  BY <1>1
<1>6. /\ r \in Seq(Timeouts) /\ Len(r) = n
      /\ \A i \in 1 .. n : /\ r[i].h = l[i].h
                           /\ r[i].time = IF i = 1 THEN t ELSE l[i].time
  BY <1>4, <1>5 DEF IsRetimed
<1>7. /\ Due(l, 0) = 0 /\ \A k \in 0 .. n : Due(l, k) \in Nat
      /\ \A k \in 1 .. n : Due(l, k) = Due(l, k - 1) + l[k].time
  BY <1>1, <1>5, DueFacts
<1>8. Due(l, 1) = a
  <2>1. 1 \in 1 .. n /\ 1 - 1 = 0
    BY <1>1, <1>5
  <2>2. Due(l, 1) = Due(l, 1 - 1) + l[1].time
    BY <1>7, <2>1, Zenon
  <2> QED
    BY <1>2, <1>3, <1>7, <2>1, <2>2
<1>9. \A k \in 1 .. n : d <= Due(l, k)
  <2> TAKE k \in 1 .. n
  <2>1. 1 \in 0 .. Len(l) /\ k \in 0 .. Len(l) /\ 1 <= k
    BY <1>1, <1>5
  <2>2. Due(l, 1) <= Due(l, k) /\ Due(l, k) \in Nat
    BY <1>1, <1>5, <1>7, <2>1, DueGrows
  <2> QED
    BY <1>3, <1>8, <2>2
<1> DEFINE g == [k \in 0 .. n |-> IF k = 0 THEN 0 ELSE Due(l, k) - d]
<1>10. g \in [0 .. n -> Nat] /\ g[0] = 0
  BY <1>7, <1>9
<1>11. \A k \in 1 .. n : g[k] = Due(l, k) - d
  OBVIOUS
<1> HIDE DEF g
<1>12. \A k \in 1 .. n : g[k] = g[k - 1] + r[k].time
  <2> TAKE k \in 1 .. n
  <2>1. CASE k = 1
    <3>1. g[k - 1] = 0 /\ r[k].time = t /\ g[k] = a - d
      BY <1>6, <1>8, <1>10, <1>11, <2>1
    <3> QED
      BY <1>3, <3>1
  <2>2. CASE k # 1
    <3>1. k - 1 \in 1 .. n
      BY <2>2
    <3>2. g[k] = Due(l, k) - d /\ g[k - 1] = Due(l, k - 1) - d /\ r[k].time = l[k].time
      BY <1>6, <1>11, <2>2, <3>1
    <3>3. PICK u \in Nat : u = l[k].time
      BY <1>1, <1>5
    <3>4. Due(l, k) = Due(l, k - 1) + u /\ Due(l, k - 1) \in Nat
      BY <1>7, <3>1, <3>3
    <3> QED
      BY <3>2, <3>3, <3>4
  <2> QED
    BY <2>1, <2>2
<1>13. Adds(g, r)
  BY <1>6, <1>10, <1>12 DEF Adds
<1>14. \A k \in 0 .. n : Due(r, k) = g[k]
  <2>1. r \in Seq(Timeouts) /\ Len(r) = n
    BY <1>6, Zenon
  <2> QED
    BY <1>13, <2>1, DueUnique
<1>15. Hs(r) = Hs(l)
  <2>1. Len(r) = n /\ \A i \in 1 .. n : r[i].h = l[i].h
    BY <1>6, Zenon
  <2> QED
    BY <1>5, <2>1 DEF Hs
<1>16. ASSUME NEW x \in Hs(l) PROVE Wait(r, x) = Wait(l, x) - d
  <2>1. PICK i \in 1 .. n : l[i].h = x
    BY <1>5 DEF Hs
  <2>2. Wait(l, x) = Due(l, i)
    BY <1>5, <2>1, WaitAt
  <2>3. r[i].h = x /\ i \in 1 .. Len(r)
    BY <1>6, <2>1
  <2>4. Wait(r, x) = Due(r, i)
    BY <1>4, <2>3, WaitAt
  <2>5. i \in 0 .. n
    OBVIOUS
  <2> QED
    BY <1>11, <1>14, <2>2, <2>4, <2>5
<1> QED
  BY <1>4, <1>15, <1>16 DEF IsCharged

\* What is left when the first timeout is gone.
IsTailOf(r, l) ==
  /\ Timed(r) /\ Hs(r) = Hs(l) \ {l[1].h} /\ l[1].h \in Hs(l)
  /\ l[1].time \in Nat /\ Wait(l, l[1].h) = l[1].time
  /\ \A x \in Hs(r) : Wait(r, x) = Wait(l, x) - l[1].time
  /\ \A x \in Hs(l) : Wait(l, x) \in Nat /\ l[1].time <= Wait(l, x)

LEMMA TailWait ==
  ASSUME NEW l, Timed(l), l # <<>>, NEW r, r = Tail(l)
  PROVE  IsTailOf(r, l)
<1>1. /\ l \in Seq(Timeouts) /\ Len(l) \in Nat /\ Len(l) > 0 /\ 1 \in 1 .. Len(l)
      /\ \A i \in 1 .. Len(l) : l[i].time \in Nat
  <2>1. l \in Seq(Timeouts)
    BY DEF Timed
  <2>2. Len(l) \in Nat /\ \A i \in 1 .. Len(l) : l[i].time \in Nat
    BY <2>1, OfTimeouts
  <2>3. Len(l) # 0
    <3> HIDE DEF Timeouts
    <3> QED
      BY <2>1
  <2> QED
    BY <2>1, <2>2, <2>3
<1>2. PICK n \in Nat : n + 1 = Len(l)
  <2>1. Len(l) - 1 \in Nat /\ (Len(l) - 1) + 1 = Len(l)
    BY <1>1
  <2> QED
    BY <2>1
<1>3. r \in Seq(Timeouts) /\ Len(r) = n /\ (\A i \in 1 .. n : r[i] = l[i + 1]) /\ Head(l) = l[1]
  <2> HIDE DEF Timeouts
  <2>1. r \in Seq(Timeouts) /\ Len(r) = Len(l) - 1 /\ \A i \in 1 .. Len(r) : r[i] = l[i + 1]
    BY <1>1, HeadTailProperties
  <2>2. Len(r) = n
    BY <1>1, <1>2, <2>1
  <2>3. Head(l) = l[1]
    BY <1>1
  <2> QED
    BY <2>1, <2>2, <2>3
<1>4. Timed(r) /\ Hs(r) = Hs(l) \ {l[1].h} /\ l[1].h \in Hs(l)
  <2>1. ListOfTimeouts(l)
    BY DEF Timed
  <2>2. ListOfTimeouts(Tail(l)) /\ Hs(Tail(l)) = Hs(l) \ {Head(l).h} /\ Head(l).h \in Hs(l)
    BY <2>1, TailList
  <2> QED
    BY <1>3, <2>2 DEF Timed
<1>5. PICK a \in Nat : a = l[1].time
  BY <1>1
<1>6. /\ Due(l, 0) = 0 /\ \A k \in 0 .. n + 1 : Due(l, k) \in Nat
      /\ \A k \in 1 .. n + 1 : Due(l, k) = Due(l, k - 1) + l[k].time
  BY <1>1, <1>2, DueFacts
<1>7. Due(l, 1) = a
  <2>1. 1 \in 1 .. n + 1 /\ 1 - 1 = 0
    OBVIOUS
  <2>2. Due(l, 1) = Due(l, 1 - 1) + l[1].time
    BY <1>6, <2>1, Zenon
  <2> QED
    BY <1>5, <1>6, <2>1, <2>2
<1>8. \A k \in 1 .. n + 1 : a <= Due(l, k)
  <2> TAKE k \in 1 .. n + 1
  <2>1. 1 \in 0 .. Len(l) /\ k \in 0 .. Len(l) /\ 1 <= k
    BY <1>1, <1>2
  <2>2. Due(l, 1) <= Due(l, k)
    BY <1>1, <2>1, DueGrows
  <2> QED
    BY <1>7, <2>2
<1> DEFINE g == [k \in 0 .. n |-> Due(l, k + 1) - a]
<1>9. g \in [0 .. n -> Nat] /\ g[0] = 0
  <2>1. \A k \in 0 .. n : k + 1 \in 1 .. n + 1 /\ k + 1 \in 0 .. n + 1
    OBVIOUS
  <2>2. \A k \in 0 .. n : Due(l, k + 1) \in Nat /\ a <= Due(l, k + 1)
    BY <1>6, <1>8, <2>1
  <2>3. 0 + 1 = 1 /\ 0 \in 0 .. n
    OBVIOUS
  <2> QED
    BY <1>7, <2>2, <2>3
<1>10. \A k \in 0 .. n : g[k] = Due(l, k + 1) - a
  OBVIOUS
<1> HIDE DEF g
<1>11. \A k \in 1 .. n : g[k] = g[k - 1] + r[k].time
  <2> TAKE k \in 1 .. n
  <2>1. k \in 0 .. n /\ k - 1 \in 0 .. n /\ (k - 1) + 1 = k /\ k \in 0 .. n + 1
        /\ k + 1 \in 1 .. n + 1 /\ (k + 1) - 1 = k
    OBVIOUS
  <2>2. g[k] = Due(l, k + 1) - a /\ g[k - 1] = Due(l, k) - a
    <3>1. g[k - 1] = Due(l, (k - 1) + 1) - a
      BY <1>10, <2>1, Zenon
    <3> QED
      BY <1>10, <2>1, <3>1
  <2>3. PICK u \in Nat : u = l[k + 1].time
    BY <1>1, <1>2, <2>1
  <2>4. Due(l, k + 1) = Due(l, k) + u
    <3>1. Due(l, k + 1) = Due(l, (k + 1) - 1) + l[k + 1].time
      BY <1>6, <2>1, Zenon
    <3> QED
      BY <2>1, <2>3, <3>1
  <2>5. r[k].time = u
    BY <1>3, <2>3
  <2>6. PICK v \in Nat : v = Due(l, k)
    BY <1>6, <2>1
  <2>7. g[k] = (v + u) - a /\ g[k - 1] = v - a
    BY <2>2, <2>4, <2>6
  <2>8. (v + u) - a = (v - a) + u
    OBVIOUS
  <2> QED
    BY <2>5, <2>7, <2>8, Zenon
<1>12. Adds(g, r)
  BY <1>3, <1>9, <1>11 DEF Adds
<1>13. \A k \in 0 .. n : Due(r, k) = g[k]
  <2>1. r \in Seq(Timeouts) /\ Len(r) = n
    BY <1>3, Zenon
  <2> QED
    BY <1>12, <2>1, DueUnique
<1>14. ASSUME NEW x \in Hs(r) PROVE Wait(r, x) = Wait(l, x) - a
  <2>1. PICK i \in 1 .. n : r[i].h = x
    BY <1>3 DEF Hs
  <2>2. Wait(r, x) = Due(r, i)
    BY <1>3, <1>4, <2>1, WaitAt
  <2>3. i + 1 \in 1 .. Len(l) /\ l[i + 1].h = x
    BY <1>2, <1>3, <2>1
  <2>4. Wait(l, x) = Due(l, i + 1)
    BY <2>3, WaitAt
  <2>5. i \in 0 .. n
    OBVIOUS
  <2> QED
    BY <1>10, <1>13, <2>2, <2>4, <2>5
<1>15. ASSUME NEW x \in Hs(l) PROVE Wait(l, x) \in Nat /\ a <= Wait(l, x)
  <2>1. PICK i \in 1 .. Len(l) : l[i].h = x /\ Wait(l, x) = Due(l, i) /\ Due(l, i) \in Nat
    BY WaitIs
  <2> QED
    BY <1>2, <1>8, <2>1
<1>16. Wait(l, l[1].h) = a
  BY <1>1, <1>7, WaitAt
<1> QED
  BY <1>4, <1>5, <1>14, <1>15, <1>16, Zenon DEF IsTailOf

\* What setting a timer leaves: its interval is what it has left, and the others
\* keep what they have.
IsSet(r, l, h, ms) ==
  /\ Timed(r) /\ Hs(r) = Hs(l) \cup {h} /\ Wait(r, h) = ms
  /\ \A x \in Hs(l) : Wait(r, x) = Wait(l, x)

\* Those due no later than ms are the first ones of the list.
LEMMA Behind ==
  ASSUME NEW l \in Seq(Timeouts), NEW ms \in Nat, NEW k,
         k = Cardinality({i \in 1 .. Len(l) : Due(l, i) <= ms})
  PROVE  k \in 0 .. Len(l) /\ Due(l, k) <= ms /\ (k < Len(l) => ms < Due(l, k + 1))
<1> DEFINE K == {i \in 1 .. Len(l) : Due(l, i) <= ms}
           S == {i \in 0 .. Len(l) : Due(l, i) <= ms}
<1>1. Len(l) \in Nat
  BY OfTimeouts
<1>2. Due(l, 0) = 0 /\ \A i \in 0 .. Len(l) : Due(l, i) \in Nat
  BY DueFacts
<1>3. S \in SUBSET (0 .. Len(l)) /\ 0 \in S
  BY <1>1, <1>2
<1>4. PICK m : m = Max(S)
  OBVIOUS
<1>5. m \in S /\ \A i \in S : i <= m
  <2> HIDE DEF S
  <2>1. S # {}
    BY <1>3
  <2>2. Max(S) \in S /\ \A y \in S : y <= Max(S)
    BY <1>1, <1>3, <2>1, Greatest, Zenon
  <2> QED
    BY <1>4, <2>2, Zenon
<1>6. m \in 0 .. Len(l) /\ Due(l, m) <= ms
  BY <1>5
<1>7. K = 1 .. m
  <2>1. ASSUME NEW i \in K PROVE i \in 1 .. m
    <3>1. i \in S /\ i \in 1 .. Len(l)
      BY <1>1
    <3>2. i <= m
      BY <1>5, <3>1
    <3> QED
      BY <1>6, <3>1, <3>2
  <2>2. ASSUME NEW i \in 1 .. m PROVE i \in K
    <3>1. i \in 1 .. Len(l) /\ i \in 0 .. Len(l) /\ i <= m
      BY <1>1, <1>6
    <3>2. Due(l, i) <= Due(l, m)
      BY <1>6, <3>1, DueGrows
    <3>3. Due(l, i) \in Nat /\ Due(l, m) \in Nat
      BY <1>2, <1>6, <3>1
    <3>4. Due(l, i) <= ms
      BY <1>6, <3>2, <3>3
    <3> QED
      BY <3>1, <3>4
  <2> QED
    BY <2>1, <2>2
<1>8. k = m
  <2>1. m \in Nat
    BY <1>1, <1>6
  <2>2. Cardinality(1 .. m) = m
    BY <2>1, Places
  <2> HIDE DEF K
  <2>3. k = Cardinality(K)
    BY DEF K
  <2> QED
    BY <1>7, <2>2, <2>3
<1>9. m < Len(l) => ms < Due(l, m + 1)
  <2> SUFFICES ASSUME m < Len(l), ~(ms < Due(l, m + 1)) PROVE FALSE
    OBVIOUS
  <2>1. m + 1 \in 0 .. Len(l)
    BY <1>1, <1>6
  <2>2. Due(l, m + 1) <= ms
    BY <1>2, <2>1
  <2>3. m + 1 \in S
    BY <2>1, <2>2
  <2> HIDE DEF S
  <2>4. m + 1 <= m
    BY <1>5, <2>3
  <2> QED
    BY <1>1, <1>6, <2>4
<1> QED
  BY <1>6, <1>8, <1>9

LEMMA InsertWait ==
  ASSUME NEW l, Timed(l), NEW h \in Timers, h \notin Hs(l), NEW ms \in Nat,
         NEW r, r = Insert(l, h, ms)
  PROVE  IsSet(r, l, h, ms)
<1>1. PICK k : k = Cardinality({i \in 1 .. Len(l) : Due(l, i) <= ms})
  OBVIOUS
<1>2. PICK time : time = ms - Due(l, k)
  OBVIOUS
<1>3. PICK rest : rest = IF k = Len(l) THEN l ELSE [l EXCEPT ![k + 1].time = l[k + 1].time - time]
  OBVIOUS
<1>4. PICK e : e = [h |-> h, time |-> time]
  OBVIOUS
<1>5. r = InsertAt(rest, k + 1, e)
  BY <1>1, <1>2, <1>3, <1>4 DEF Insert
<1>6. l \in Seq(Timeouts) /\ ListOfTimeouts(l)
  BY DEF Timed
<1>7. PICK n \in Nat : n = Len(l)
  BY <1>6, OfTimeouts
<1>8. k \in 0 .. n /\ Due(l, k) <= ms /\ (k < n => ms < Due(l, k + 1))
  BY <1>1, <1>6, <1>7, Behind
<1>9. /\ Due(l, 0) = 0 /\ \A i \in 0 .. n : Due(l, i) \in Nat
      /\ \A i \in 1 .. n : Due(l, i) = Due(l, i - 1) + l[i].time
  BY <1>6, <1>7, DueFacts
<1>10. PICK d \in Nat : d = Due(l, k)
  BY <1>8, <1>9
<1>11. time \in Nat /\ ms = d + time
  BY <1>2, <1>8, <1>10
<1>12. e \in Timeouts /\ e.time = time /\ e.h = h
  BY <1>4, <1>11 DEF Timeouts
<1>13. \A i \in 1 .. n : l[i].time \in Nat
  BY <1>6, <1>7, OfTimeouts
<1>14. /\ Timed(rest) /\ Len(rest) = n
       /\ \A i \in 1 .. n : rest[i].h = l[i].h /\ (i # k + 1 => rest[i].time = l[i].time)
       /\ k # n => rest[k + 1].time = l[k + 1].time - time
  <2>1. CASE k = n
    <3>1. rest = l
      BY <1>3, <1>7, <2>1
    <3> QED
      BY <1>7, <2>1, <3>1
  <2>2. CASE k # n
    <3>1. k + 1 \in 1 .. n /\ k < n
      BY <1>8, <2>2
    <3>2. PICK u \in Nat : u = l[k + 1].time
      BY <1>13, <3>1
    <3>3. Due(l, k + 1) = d + u
      <4>1. (k + 1) - 1 = k
        BY <1>8
      <4>2. Due(l, k + 1) = Due(l, (k + 1) - 1) + l[k + 1].time
        BY <1>9, <3>1, Zenon
      <4> QED
        BY <1>10, <3>2, <4>1, <4>2
    <3>4. u - time \in Nat
      BY <1>8, <1>11, <3>1, <3>3
    <3>5. PICK t \in Nat : t = u - time
      BY <3>4
    <3>6. rest = [l EXCEPT ![k + 1].time = t]
      BY <1>3, <1>7, <2>2, <3>2, <3>5
    <3>7. k + 1 \in 1 .. Len(l)
      BY <1>7, <3>1
    <3>8. Timed(rest) /\ IsRetimed(rest, l, k + 1, t)
      BY <3>6, <3>7, RetimeTimed
    <3>9. /\ Len(rest) = n
          /\ \A i \in 1 .. n : /\ rest[i].h = l[i].h
                               /\ rest[i].time = IF i = k + 1 THEN t ELSE l[i].time
      BY <1>7, <3>8 DEF IsRetimed
    <3> QED
      BY <3>1, <3>2, <3>5, <3>8, <3>9
  <2> QED
    BY <2>1, <2>2
<1>15. r \in Seq(Timeouts) /\ IsPutIn(r, rest, k, e)
  <2>1. rest \in Seq(Timeouts) /\ k \in 0 .. Len(rest) /\ e \in Timeouts
    BY <1>8, <1>12, <1>14 DEF Timed
  <2> HIDE DEF Timeouts
  <2> QED
    BY <1>5, <2>1, PutIn, Zenon
<1>16. /\ Len(r) = n + 1
       /\ \A i \in 1 .. n + 1 :
            r[i] = IF i <= k THEN rest[i] ELSE IF i = k + 1 THEN e ELSE rest[i - 1]
  BY <1>14, <1>15 DEF IsPutIn
<1>17. Timed(r) /\ Hs(r) = Hs(l) \cup {h}
  <2>1. ListOfTimeouts(r) /\ Hs(r) = Hs(l) \cup {h}
    BY <1>6, InsertList
  <2> QED
    BY <1>15, <2>1 DEF Timed
<1> DEFINE g == [i \in 0 .. n + 1 |-> IF i <= k THEN Due(l, i)
                                      ELSE IF i = k + 1 THEN ms ELSE Due(l, i - 1)]
<1>18. g \in [0 .. n + 1 -> Nat] /\ g[0] = 0
  <2>1. ASSUME NEW i \in 0 .. n + 1 PROVE g[i] \in Nat
    <3>1. CASE i <= k
      BY <1>8, <1>9, <3>1
    <3>2. CASE i = k + 1
      BY <1>8, <3>2
    <3>3. CASE ~(i <= k) /\ i # k + 1
      <4>1. i - 1 \in 0 .. n
        BY <1>8, <3>3
      <4> QED
        BY <1>9, <3>3, <4>1
    <3> QED
      BY <3>1, <3>2, <3>3
  <2>2. 0 \in 0 .. n + 1 /\ 0 <= k
    BY <1>8
  <2> QED
    BY <1>9, <2>1, <2>2
<1>19. \A i \in 0 .. n + 1 : g[i] = IF i <= k THEN Due(l, i)
                                    ELSE IF i = k + 1 THEN ms ELSE Due(l, i - 1)
  OBVIOUS
<1> HIDE DEF g
<1>20. ASSUME NEW i \in 1 .. n + 1
       PROVE  g[i] = g[i - 1] + r[i].time
  <2>1. CASE i <= k
    <3>1. i \in 1 .. n /\ i \in 0 .. n + 1 /\ i - 1 \in 0 .. n + 1 /\ i - 1 <= k /\ i # k + 1
      BY <1>8, <2>1
    <3>2. g[i] = Due(l, i) /\ g[i - 1] = Due(l, i - 1)
      BY <1>19, <2>1, <3>1
    <3>3. r[i].time = l[i].time
      BY <1>14, <1>16, <2>1, <3>1
    <3> QED
      BY <1>9, <3>1, <3>2, <3>3
  <2>2. CASE i = k + 1
    <3>1. i \in 0 .. n + 1 /\ i - 1 \in 0 .. n + 1 /\ i - 1 = k /\ ~(i <= k)
      BY <1>8, <2>2
    <3>2. g[i] = ms /\ g[i - 1] = d
      BY <1>10, <1>19, <2>2, <3>1
    <3>3. r[i].time = time
      BY <1>12, <1>16, <2>2, <3>1
    <3> QED
      BY <1>11, <3>2, <3>3
  <2>3. CASE ~(i <= k) /\ i # k + 1
    <3>1. /\ i \in 0 .. n + 1 /\ i - 1 \in 0 .. n + 1 /\ ~(i - 1 <= k) /\ i - 1 \in 1 .. n
          /\ (i - 1 = k + 1 <=> i = k + 2)
      BY <1>8, <2>3
    <3>2. g[i] = Due(l, i - 1) /\ r[i] = rest[i - 1]
      BY <1>16, <1>19, <2>3, <3>1
    <3>3. PICK j \in 1 .. n : j = i - 1
      BY <3>1
    <3>4. PICK u \in Nat : u = l[j].time
      BY <1>13
    <3>5. PICK c \in Nat : c = Due(l, j - 1)
      <4>1. j - 1 \in 0 .. n
        OBVIOUS
      <4> QED
        BY <1>9, <4>1
    <3>6. g[i] = c + u
      BY <1>9, <3>2, <3>3, <3>4, <3>5
    <3>7. CASE i = k + 2
      <4>1. j = k + 1 /\ j - 1 = k /\ k # n
        BY <1>8, <3>3, <3>7
      <4>2. g[j] = ms
        BY <1>19, <3>1, <3>3, <4>1
      <4>3. r[i].time = u - time
        BY <1>14, <3>2, <3>3, <3>4, <4>1
      <4>4. c = d
        BY <1>10, <3>5, <4>1
      <4>5. c + u = ms + (u - time)
        BY <1>11, <4>4
      <4> QED
        BY <3>3, <3>6, <4>2, <4>3, <4>5
    <3>8. CASE i # k + 2
      <4>1. j # k + 1
        BY <1>8, <3>3, <3>8
      <4>2. g[j] = c
        BY <1>19, <3>1, <3>3, <3>5, <4>1
      <4>3. r[i].time = u
        BY <1>14, <3>2, <3>3, <3>4, <4>1
      <4> QED
        BY <3>3, <3>6, <4>2, <4>3
    <3> QED
      BY <3>7, <3>8
  <2> QED
    BY <2>1, <2>2, <2>3
<1>21. Adds(g, r)
  BY <1>16, <1>18, <1>20 DEF Adds
<1>22. \A i \in 0 .. n + 1 : Due(r, i) = g[i]
  BY <1>15, <1>16, <1>21, DueUnique
<1>23. Wait(r, h) = ms
  <2>1. k + 1 \in 1 .. n + 1 /\ k + 1 \in 0 .. n + 1 /\ ~(k + 1 <= k)
    BY <1>8
  <2>2. r[k + 1].h = h
    BY <1>12, <1>16, <2>1
  <2>3. g[k + 1] = ms
    BY <1>19, <2>1
  <2>4. k + 1 \in 1 .. Len(r)
    BY <1>16, <2>1
  <2>5. Wait(r, r[k + 1].h) = Due(r, k + 1)
    BY <1>17, <2>4, WaitAt, Zenon
  <2> QED
    BY <1>22, <2>1, <2>2, <2>3, <2>5
<1>24. ASSUME NEW x \in Hs(l) PROVE Wait(r, x) = Wait(l, x)
  <2>1. PICK i \in 1 .. n : l[i].h = x
    BY <1>7 DEF Hs
  <2>2. Wait(l, x) = Due(l, i)
    BY <1>7, <2>1, WaitAt
  <2>3. CASE i <= k
    <3>1. i \in 1 .. n + 1 /\ i \in 0 .. n + 1
      OBVIOUS
    <3>2. r[i].h = x
      BY <1>14, <1>16, <2>1, <2>3, <3>1
    <3>3. g[i] = Due(l, i)
      BY <1>19, <2>3, <3>1
    <3>4. i \in 1 .. Len(r)
      BY <1>16, <3>1
    <3>5. Wait(r, x) = Due(r, i)
      BY <1>17, <3>2, <3>4, WaitAt
    <3> QED
      BY <1>22, <2>2, <3>1, <3>3, <3>5
  <2>4. CASE ~(i <= k)
    <3>1. PICK m : m = i + 1
      OBVIOUS
    <3>2. m \in 1 .. n + 1 /\ m \in 0 .. n + 1 /\ ~(m <= k) /\ m # k + 1 /\ m - 1 = i
      BY <1>8, <2>4, <3>1
    <3>3. r[m].h = x
      BY <1>14, <1>16, <2>1, <3>2
    <3>4. g[m] = Due(l, i)
      BY <1>19, <3>2
    <3>5. m \in 1 .. Len(r)
      BY <1>16, <3>2
    <3>6. Wait(r, x) = Due(r, m)
      BY <1>17, <3>3, <3>5, WaitAt
    <3> QED
      BY <1>22, <2>2, <3>2, <3>4, <3>6
  <2> QED
    BY <2>3, <2>4
<1> QED
  BY <1>17, <1>23, <1>24 DEF IsSet

LEMMA TimeoutWait ==
  ASSUME NEW l, Timed(l), NEW h \in Timers, h \notin Hs(l)
  PROVE  IsSet(Timeout(l, h), l, h, Interval[h])
<1>1. Timeout(l, h) = Insert(l, h, Interval[h])
  BY RoomForTimers DEF Timed
<1>2. Interval[h] \in Nat
  BY IntervalAssumption
<1> QED
  BY <1>1, <1>2, InsertWait

-----------------------------------------------------------------------------
(* No timeout is later than the ticks make it *)

LEMMA Waits ==
  /\ Left = [x \in Hs(list) |-> Wait(list, x)]
  /\ Left' = [x \in Hs(list') |-> Wait(list', x)]
  /\ InList = Hs(list) /\ InList' = Hs(list')
BY DEF Left, Wait, Place, InList, Hs

\* A timer that has waited w ticks and has b ms left is on time, s ticks into a
\* wait, when f timeouts went off since it was set.
OnTime(w, b, i, f, s) == w * TickMs + b <= i + f * (TickMs - 1) + s * TickMs

AllOnTime(l, w, f, s) ==
  \A x \in Hs(l) : OnTime(w[x], Wait(l, x), Interval[x], f[x], s)

LEMMA OnTimeSet ==
  ASSUME NEW i \in Nat
  PROVE  OnTime(0, i, i, 0, 0)
<1>1. PICK T \in Nat \ {0} : T = TickMs
  BY TickFacts
<1>2. 0 * T = 0 /\ 0 * (T - 1) = 0
  OBVIOUS
<1> QED
  BY <1>1, <1>2 DEF OnTime

LEMMA OnTimeFired ==
  ASSUME NEW w \in Nat, NEW b \in Nat, NEW i \in Nat, NEW f \in Nat, NEW s \in Nat,
         NEW a \in Nat, a <= b, s * TickMs <= a + (TickMs - 1), OnTime(w, b, i, f, s)
  PROVE  OnTime(w, b - a, i, f + 1, 0)
<1>1. PICK T \in Nat \ {0} : T = TickMs
  BY TickFacts
<1>2. PICK u \in Nat : u = T - 1
  BY <1>1
<1>3. PICK x, y, z \in Nat : x = w * T /\ y = f * u /\ z = s * T
  <2>1. w * T \in Nat /\ f * u \in Nat /\ s * T \in Nat
    OBVIOUS
  <2> QED
    BY <2>1
<1>4. x + b <= i + y + z
  BY <1>1, <1>2, <1>3 DEF OnTime
<1>5. z <= a + u
  BY <1>1, <1>2, <1>3
<1>6. (f + 1) * u = y + u /\ 0 * T = 0
  BY <1>3
<1>7. x + (b - a) <= i + (y + u) + 0
  BY <1>4, <1>5
<1>8. w * T + (b - a) <= i + (f + 1) * u + 0 * T
  BY <1>3, <1>6, <1>7
<1> QED
  BY <1>1, <1>2, <1>8 DEF OnTime

LEMMA OnTimeTicked ==
  ASSUME NEW w \in Nat, NEW b \in Nat, NEW i \in Nat, NEW f \in Nat, NEW s \in Nat,
         OnTime(w, b, i, f, s)
  PROVE  OnTime(w + 1, b, i, f, s + 1)
<1>1. PICK T \in Nat \ {0} : T = TickMs
  BY TickFacts
<1>2. PICK x, y, z \in Nat : x = w * T /\ y = f * (T - 1) /\ z = s * T
  <2>1. w * T \in Nat /\ T - 1 \in Nat /\ s * T \in Nat
    OBVIOUS
  <2>2. f * (T - 1) \in Nat
    BY <2>1
  <2> QED
    BY <2>1, <2>2
<1>3. x + b <= i + y + z
  BY <1>1, <1>2 DEF OnTime
<1>4. (w + 1) * T = x + T /\ (s + 1) * T = z + T
  BY <1>2
<1>5. (w + 1) * T + b <= i + f * (T - 1) + (s + 1) * T
  BY <1>2, <1>3, <1>4
<1> QED
  BY <1>1, <1>5 DEF OnTime

LEMMA OnTimeCharged ==
  ASSUME NEW w \in Nat, NEW b \in Nat, NEW i \in Nat, NEW f \in Nat, NEW s \in Nat,
         NEW d \in Nat, d <= b, s * TickMs <= d, OnTime(w, b, i, f, s)
  PROVE  OnTime(w, b - d, i, f, 0)
<1>1. PICK T \in Nat \ {0} : T = TickMs
  BY TickFacts
<1>2. PICK x, y, z \in Nat : x = w * T /\ y = f * (T - 1) /\ z = s * T
  <2>1. w * T \in Nat /\ T - 1 \in Nat /\ s * T \in Nat
    OBVIOUS
  <2>2. f * (T - 1) \in Nat
    BY <2>1
  <2> QED
    BY <2>1, <2>2
<1>3. x + b <= i + y + z /\ z <= d
  BY <1>1, <1>2 DEF OnTime
<1>4. 0 * T = 0
  OBVIOUS
<1>5. x + (b - d) <= i + y + 0
  BY <1>3
<1>6. w * T + (b - d) <= i + f * (T - 1) + 0 * T
  BY <1>2, <1>4, <1>5
<1> QED
  BY <1>1, <1>6 DEF OnTime

\* What the invariant says, in these terms.
LEMMA TimeFacts ==
  ASSUME TimeInv
  PROVE  /\ ArmedInv /\ Timed(list) /\ list # <<>> /\ Head(list) = list[1] /\ list[1].h \in Hs(list)
         /\ list[1].time \in Nat /\ Hs(list) \subseteq Timers
         /\ AllOnTime(list, waited, fires, spent)
         /\ waited \in [Timers -> Nat] /\ fires \in [Timers -> Nat] /\ spent \in Nat
         /\ \A x \in Hs(list) : Wait(list, x) \in Nat /\ list[1].time <= Wait(list, x)
<1>1. ArmedInv /\ TypeOK /\ LateInv
  BY DEF TimeInv
<1>2. Timed(list) /\ list # <<>>
  BY <1>1, ListFacts DEF TypeOK, Timed, Timeouts
<1>3. IsTailOf(Tail(list), list)
  BY <1>2, TailWait
<1>4. Head(list) = list[1]
  <2> HIDE DEF Timeouts
  <2> QED
    BY <1>2 DEF Timed
<1>5. Hs(list) \subseteq Timers
  BY <1>2 DEF Timed, ListOfTimeouts, Hs
<1>6. AllOnTime(list, waited, fires, spent)
  <2> SUFFICES ASSUME NEW x \in Hs(list)
               PROVE  OnTime(waited[x], Wait(list, x), Interval[x], fires[x], spent)
    BY DEF AllOnTime
  <2>1. x \in InList /\ Left[x] = Wait(list, x)
    BY Waits
  <2>2. waited[x] * TickMs + Left[x] <= Interval[x] + fires[x] * (TickMs - 1) + spent * TickMs
    BY <1>1, <2>1, Zenon DEF LateInv
  <2> QED
    BY <2>1, <2>2, Zenon DEF OnTime
<1> QED
  BY <1>1, <1>2, <1>3, <1>4, <1>5, <1>6 DEF TypeOK, IsTailOf

\* The other way round.
LEMMA TimeFrom ==
  ASSUME TypeOK', AllOnTime(list', waited', fires', spent'),
         pc' = "again" => spent' = 0,
         pc' = "pend" => list'[1].time > 0 /\ spent' + ticks' = PendTicks(list'[1].time)
  PROVE  TypeOK' /\ LateInv'
<1> SUFFICES ASSUME NEW x \in InList'
             PROVE  waited'[x] * TickMs + Left'[x]
                      <= Interval[x] + fires'[x] * (TickMs - 1) + spent' * TickMs
  BY DEF LateInv, TickMs, PendTicks
<1>1. x \in Hs(list') /\ Left'[x] = Wait(list', x)
  BY Waits
<1>2. OnTime(waited'[x], Wait(list', x), Interval[x], fires'[x], spent')
  BY <1>1, Zenon DEF AllOnTime
<1> QED
  BY <1>1, <1>2, Zenon DEF OnTime

\* Timer h went off: it has its interval left again or is not set any more, and
\* for the others the time it had left has passed.
IsFired(r, l, h) ==
  /\ Timed(r)
  /\ \/ Hs(r) = Hs(l) /\ Wait(r, h) = Interval[h]
     \/ Hs(r) = Hs(l) \ {h}
  /\ \A x \in Hs(l) \ {h} : Wait(r, x) = Wait(l, x) - l[1].time

LEMMA FireWait ==
  ASSUME TimeInv, Fire
  PROVE  /\ IsFired(list', list, list[1].h)
         /\ waited' = Reset(waited, list[1].h) /\ fires' = Reset(More(fires), list[1].h)
         /\ pc' = "again" /\ ticks' = 0 /\ spent' = 0
         /\ pcbs' \in BOOLEAN /\ timerOn' \in BOOLEAN
<1>1. PICK h : h = list[1].h
  OBVIOUS
<1>2. PICK rest : rest = Tail(list)
  OBVIOUS
<1>3. h = Head(list).h /\ Timed(list) /\ list # <<>> /\ h \in Timers
  BY <1>1, TimeFacts
<1>4. IsTailOf(rest, list)
  BY <1>2, <1>3, TailWait
<1>5. /\ Timed(rest) /\ Hs(rest) = Hs(list) \ {h} /\ h \in Hs(list)
      /\ \A x \in Hs(list) \ {h} : Wait(rest, x) = Wait(list, x) - list[1].time
  BY <1>1, <1>4 DEF IsTailOf
<1>6. IsFired(rest, list, h)
  BY <1>5 DEF IsFired
<1>7. IsFired(Timeout(rest, h), list, h)
  <2>1. h \notin Hs(rest)
    BY <1>5
  <2>2. IsSet(Timeout(rest, h), rest, h, Interval[h])
    BY <1>3, <1>5, <2>1, TimeoutWait
  <2>3. PICK r : r = Timeout(rest, h)
    OBVIOUS
  <2>4. Timed(r) /\ Hs(r) = Hs(list) /\ Wait(r, h) = Interval[h]
    BY <1>5, <2>2, <2>3 DEF IsSet
  <2>5. \A x \in Hs(list) \ {h} : Wait(r, x) = Wait(list, x) - list[1].time
    BY <1>5, <2>2, <2>3 DEF IsSet
  <2> QED
    BY <2>3, <2>4, <2>5, Zenon DEF IsFired
<1>8. \/ h # TcpTimer /\ list' = Timeout(rest, h) /\ UNCHANGED <<pcbs, timerOn>>
      \/ h = TcpTimer /\ pcbs' \in {pcbs, FALSE} /\ timerOn' = pcbs'
         /\ list' = IF pcbs' THEN Timeout(rest, h) ELSE rest
  BY <1>2, <1>3, Zenon DEF Fire
<1>9. IsFired(list', list, h)
  <2>1. list' = Timeout(rest, h) \/ list' = rest
    BY <1>8, Zenon
  <2> QED
    BY <1>6, <1>7, <2>1
<1>10. waited' = Reset(waited, h) /\ fires' = Reset(More(fires), h)
       /\ pc' = "again" /\ ticks' = 0 /\ spent' = 0
  BY <1>3, Zenon DEF Fire
<1>11. pcbs \in BOOLEAN /\ timerOn \in BOOLEAN
  BY DEF TimeInv, TypeOK
<1>12. pcbs' \in BOOLEAN /\ timerOn' \in BOOLEAN
  BY <1>8, <1>11
<1> QED
  BY <1>1, <1>9, <1>10, <1>12

LEMMA MoreFacts ==
  ASSUME NEW f \in [Timers -> Nat]
  PROVE  /\ More(f) \in [Timers -> Nat] /\ \A x \in Hs(list) \cap Timers : More(f)[x] = f[x] + 1
         /\ \A h \in Timers : /\ Reset(f, h) \in [Timers -> Nat] /\ Reset(f, h)[h] = 0
                              /\ \A x \in Timers \ {h} : Reset(f, h)[x] = f[x]
BY Waits DEF More, Reset

LEMMA FireTime ==
  ASSUME TimeInv, Fire, spent * TickMs <= list[1].time + (TickMs - 1)
  PROVE  TypeOK' /\ LateInv'
<1>1. PICK h : h = list[1].h
  OBVIOUS
<1>2. PICK a \in Nat : a = list[1].time
  BY TimeFacts
<1>3. /\ IsFired(list', list, h) /\ waited' = Reset(waited, h) /\ fires' = Reset(More(fires), h)
      /\ pc' = "again" /\ ticks' = 0 /\ spent' = 0
      /\ pcbs' \in BOOLEAN /\ timerOn' \in BOOLEAN
  BY <1>1, FireWait
<1>4. /\ Hs(list) \subseteq Timers /\ h \in Timers /\ h \in Hs(list)
      /\ waited \in [Timers -> Nat] /\ fires \in [Timers -> Nat] /\ spent \in Nat
      /\ AllOnTime(list, waited, fires, spent)
      /\ \A x \in Hs(list) : Wait(list, x) \in Nat /\ a <= Wait(list, x)
  BY <1>1, <1>2, TimeFacts
<1>5. waited' \in [Timers -> Nat] /\ fires' \in [Timers -> Nat]
  BY <1>3, <1>4, MoreFacts
<1>6. TypeOK'
  <2>1. list' \in Seq([h : Timers, time : Nat])
    BY <1>3 DEF IsFired, Timed, Timeouts
  <2>2. ticks' \in 0 .. MaxTicks /\ spent' \in Nat
    BY <1>3, TickFacts
  <2> QED
    BY <1>3, <1>5, <2>1, <2>2 DEF TypeOK
<1>7. ASSUME NEW x \in Hs(list')
      PROVE  OnTime(waited'[x], Wait(list', x), Interval[x], fires'[x], spent')
  <2>1. x \in Hs(list) /\ x \in Timers
    BY <1>3, <1>4 DEF IsFired
  <2>2. Interval[x] \in Nat
    BY <2>1, IntervalAssumption
  <2>3. CASE x = h
    <3>1. Wait(list', x) = Interval[x]
      BY <1>3, <1>7, <2>3 DEF IsFired
    <3>2. waited'[x] = 0 /\ fires'[x] = 0
      BY <1>3, <1>4, <2>3, MoreFacts
    <3> QED
      BY <1>3, <2>2, <3>1, <3>2, OnTimeSet
  <2>4. CASE x # h
    <3>1. PICK w, b, f, i : w = waited[x] /\ b = Wait(list, x) /\ f = fires[x] /\ i = Interval[x]
      OBVIOUS
    <3>2. w \in Nat /\ b \in Nat /\ f \in Nat /\ i \in Nat /\ a <= b
      BY <1>4, <2>1, <2>2, <3>1
    <3>3. OnTime(w, b, i, f, spent)
      BY <1>4, <2>1, <3>1, Zenon DEF AllOnTime
    <3>4. OnTime(w, b - a, i, f + 1, 0)
      BY <1>2, <1>4, <3>2, <3>3, OnTimeFired
    <3>5. Wait(list', x) = b - a
      BY <1>2, <1>3, <1>1, <2>1, <2>4, <3>1 DEF IsFired
    <3>6. waited'[x] = w /\ fires'[x] = f + 1
      <4>1. waited'[x] = waited[x]
        <5>1. Reset(waited, h)[x] = waited[x]
          BY <1>4, <2>1, <2>4, MoreFacts
        <5> QED
          BY <1>3, <5>1
      <4>2. More(fires) \in [Timers -> Nat] /\ More(fires)[x] = fires[x] + 1
        BY <1>4, <2>1, MoreFacts
      <4>3. fires'[x] = More(fires)[x]
        <5>1. Reset(More(fires), h)[x] = More(fires)[x]
          BY <1>4, <2>1, <2>4, <4>2, MoreFacts
        <5> QED
          BY <1>3, <5>1
      <4> QED
        BY <3>1, <4>1, <4>2, <4>3
    <3> QED
      BY <1>3, <3>1, <3>4, <3>5, <3>6
  <2> QED
    BY <2>3, <2>4
<1>8. AllOnTime(list', waited', fires', spent')
  BY <1>7, Zenon DEF AllOnTime
<1>9. (pc' = "again" => spent' = 0) /\ pc' # "pend"
  BY <1>3
<1> QED
  BY <1>6, <1>8, <1>9, TimeFrom

\* A message takes from every timer what was charged, and that is no less than
\* the ticks that have passed.
LEMMA ChargedWait ==
  ASSUME TimeInv, pc = "pend", ticks > 0
  PROVE  \E d \in Nat : /\ IsCharged(Charged, list, d) /\ d <= list[1].time
                        /\ spent * TickMs <= d
<1>1. PICK a \in Nat : a = list[1].time
  BY TimeFacts
<1>2. /\ a > 0 /\ spent + ticks = PendTicks(a) /\ ticks \in Nat /\ spent \in Nat
  BY <1>1, TickFacts DEF TimeInv, LateInv, TypeOK
<1>3. PICK p : p = PendTicks(a)
  OBVIOUS
<1>4. spent < p
  BY <1>2, <1>3
<1>5. PICK m : m = Elapsed(spent)
  OBVIOUS
<1>6. PICK z : z = spent * TickMs
  OBVIOUS
<1>7. m \in Nat /\ z \in Nat /\ z <= m /\ z <= a
  BY <1>2, <1>3, <1>4, <1>5, <1>6, ElapsedTime
<1> DEFINE d == IF m < a THEN m ELSE a
<1>8. d \in Nat /\ d <= a /\ z <= d /\ (IF m < a THEN a - m ELSE 0) = a - d
  BY <1>1, <1>7
<1>9. Charged = [list EXCEPT ![1].time = a - d]
  <2>1. Charged = [list EXCEPT ![1].time = IF m < list[1].time THEN list[1].time - m ELSE 0]
    BY <1>5 DEF Charged
  <2> QED
    BY <1>1, <1>8, <2>1
<1> HIDE DEF d
<1>10. Timed(list) /\ list # <<>>
  BY TimeFacts
<1>11. IsCharged(Charged, list, d)
  BY <1>1, <1>8, <1>9, <1>10, ChargeWait
<1> QED
  BY <1>1, <1>6, <1>8, <1>11

LEMMA InitWaits ==
  ASSUME Init
  PROVE  /\ Timed(list) /\ Hs(list) = {IpTimer, ArpTimer}
         /\ \A x \in Hs(list) : Wait(list, x) = Interval[x]
<1>1. Timed(<<>>) /\ Hs(<<>>) = {}
  <2>1. <<>> \in Seq(Timeouts)
    <3> HIDE DEF Timeouts
    <3> QED
      OBVIOUS
  <2> QED
    BY <2>1 DEF Timed, ListOfTimeouts, Hs
<1>2. IpTimer \in Timers /\ ArpTimer \in Timers
  BY DEF Timers
<1>3. PICK l : l = Timeout(<<>>, IpTimer)
  OBVIOUS
<1>4. IsSet(l, <<>>, IpTimer, Interval[IpTimer])
  BY <1>1, <1>2, <1>3, TimeoutWait
<1>5. Timed(l) /\ Hs(l) = {IpTimer} /\ Wait(l, IpTimer) = Interval[IpTimer]
  BY <1>1, <1>4 DEF IsSet
<1>6. list = Timeout(l, ArpTimer)
  BY <1>3 DEF Init
<1>7. IsSet(list, l, ArpTimer, Interval[ArpTimer])
  <2>1. ArpTimer \notin Hs(l)
    BY <1>5, TimerAssumption
  <2> QED
    BY <1>2, <1>5, <1>6, <2>1, TimeoutWait
<1> QED
  BY <1>5, <1>7 DEF IsSet

LEMMA InitTime == Init => TimeInv
<1> SUFFICES ASSUME Init PROVE TimeInv
  OBVIOUS
<1>1. /\ Timed(list) /\ Hs(list) \subseteq Timers
      /\ \A x \in Hs(list) : Wait(list, x) = Interval[x]
  BY InitWaits DEF Timers
<1>2. TypeOK
  <2>1. list \in Seq([h : Timers, time : Nat])
    BY <1>1 DEF Timed, Timeouts
  <2>2. ticks \in 0 .. MaxTicks
    BY TickFacts DEF Init
  <2> QED
    BY <2>1, <2>2 DEF Init, TypeOK
<1>3. LateInv
  <2>1. pc = "again" /\ spent = 0
    BY DEF Init
  <2>2. ASSUME NEW x \in InList
        PROVE  waited[x] * TickMs + Left[x]
                 <= Interval[x] + fires[x] * (TickMs - 1) + spent * TickMs
    <3>1. x \in Hs(list) /\ x \in Timers /\ Left[x] = Interval[x]
      BY <1>1, Waits
    <3>2. waited[x] = 0 /\ fires[x] = 0 /\ spent = 0
      BY <3>1 DEF Init
    <3>3. OnTime(0, Interval[x], Interval[x], 0, 0)
      BY <3>1, IntervalAssumption, OnTimeSet
    <3> QED
      BY <3>1, <3>2, <3>3, Zenon DEF OnTime
  <2> QED
    BY <2>1, <2>2 DEF LateInv
<1> QED
  BY <1>2, <1>3, InitArmed DEF TimeInv

LEMMA TickTime ==
  ASSUME TimeInv, Tick
  PROVE  TypeOK' /\ LateInv'
<1>1. /\ Hs(list) \subseteq Timers
      /\ waited \in [Timers -> Nat] /\ fires \in [Timers -> Nat] /\ spent \in Nat
      /\ AllOnTime(list, waited, fires, spent)
      /\ \A x \in Hs(list) : Wait(list, x) \in Nat
  BY TimeFacts
<1>2. /\ pc = "pend" /\ ticks > 0 /\ ticks' = ticks - 1 /\ spent' = spent + 1
      /\ waited' = More(waited) /\ list' = list /\ fires' = fires /\ pc' = pc
      /\ pcbs' = pcbs /\ timerOn' = timerOn
  BY DEF Tick
<1>3. TypeOK /\ LateInv
  BY DEF TimeInv
<1>4. waited' \in [Timers -> Nat] /\ \A x \in Hs(list) : waited'[x] = waited[x] + 1
  <2>1. More(waited) \in [Timers -> Nat] /\ \A x \in Hs(list) \cap Timers : More(waited)[x] = waited[x] + 1
    BY <1>1, MoreFacts
  <2> QED
    BY <1>1, <1>2, <2>1
<1>5. TypeOK'
  <2>1. ticks' \in 0 .. MaxTicks /\ spent' \in Nat
    BY <1>1, <1>2, <1>3, TickFacts DEF TypeOK
  <2> QED
    BY <1>2, <1>3, <1>4, <2>1 DEF TypeOK
<1>6. ASSUME NEW x \in Hs(list')
      PROVE  OnTime(waited'[x], Wait(list', x), Interval[x], fires'[x], spent')
  <2>1. x \in Hs(list) /\ x \in Timers
    BY <1>1, <1>2
  <2>2. PICK w, b, f, i : w = waited[x] /\ b = Wait(list, x) /\ f = fires[x] /\ i = Interval[x]
    OBVIOUS
  <2>3. w \in Nat /\ b \in Nat /\ f \in Nat /\ i \in Nat
    BY <1>1, <2>1, <2>2, IntervalAssumption
  <2>4. OnTime(w, b, i, f, spent)
    BY <1>1, <2>1, <2>2, Zenon DEF AllOnTime
  <2>5. OnTime(w + 1, b, i, f, spent + 1)
    BY <1>1, <2>3, <2>4, OnTimeTicked
  <2>6. waited'[x] = w + 1
    BY <1>4, <2>1, <2>2
  <2> QED
    BY <1>2, <2>2, <2>5, <2>6
<1>7. AllOnTime(list', waited', fires', spent')
  BY <1>6, Zenon DEF AllOnTime
<1>8. /\ pc' = "again" => spent' = 0
      /\ pc' = "pend" => list'[1].time > 0 /\ spent' + ticks' = PendTicks(list'[1].time)
  <2>1. pc' # "again"
    BY <1>2
  <2>2. list[1].time > 0 /\ spent + ticks = PendTicks(list[1].time)
    BY <1>2, <1>3 DEF LateInv
  <2>3. spent' + ticks' = spent + ticks
    <3>1. spent \in Nat /\ ticks \in Nat
      BY <1>3, TickFacts DEF TypeOK
    <3> QED
      BY <1>2, <3>1
  <2> QED
    BY <1>2, <2>1, <2>2, <2>3
<1> QED
  BY <1>5, <1>7, <1>8, TimeFrom

LEMMA PendStepTime ==
  ASSUME TimeInv, Pend
  PROVE  TypeOK' /\ LateInv'
<1>1. /\ pc = "again" /\ Head(list).time > 0 /\ pc' = "pend" /\ ticks' = PendTicks(Head(list).time)
      /\ spent' = 0 /\ list' = list /\ waited' = waited /\ fires' = fires
      /\ pcbs' = pcbs /\ timerOn' = timerOn
  BY DEF Pend
<1>2. TypeOK /\ LateInv
  BY DEF TimeInv
<1>3. PICK a : a = list[1].time
  OBVIOUS
<1>4. /\ a \in Nat /\ Head(list).time = a /\ AllOnTime(list, waited, fires, spent)
  BY <1>3, TimeFacts
<1>5. spent = 0
  BY <1>1, <1>2 DEF LateInv
<1>6. a \in Nat \ {0} /\ ticks' = PendTicks(a)
  BY <1>1, <1>4
<1>7. ticks' \in 1 .. MaxTicks
  BY <1>6, PendTime
<1>8. TypeOK'
  <2>1. ticks' \in 0 .. MaxTicks
    BY <1>7, TickFacts
  <2> QED
    BY <1>1, <1>2, <2>1 DEF TypeOK
<1>9. AllOnTime(list', waited', fires', spent')
  BY <1>1, <1>4, <1>5
<1>10. /\ pc' = "again" => spent' = 0
       /\ pc' = "pend" => list'[1].time > 0 /\ spent' + ticks' = PendTicks(list'[1].time)
  <2>1. list'[1].time = a
    BY <1>1, <1>3
  <2>2. spent' + ticks' = PendTicks(a)
    BY <1>1, <1>6, <1>7, TickFacts
  <2> QED
    BY <1>1, <1>6, <2>1, <2>2
<1> QED
  BY <1>8, <1>9, <1>10, TimeFrom

\* What is on time with d less left when the wait is over.
LEMMA AllCharged ==
  ASSUME TimeInv, NEW d \in Nat, d <= list[1].time, spent * TickMs <= d,
         NEW r, IsCharged(r, list, d)
  PROVE  AllOnTime(r, waited, fires, 0)
<1> SUFFICES ASSUME NEW x \in Hs(r)
             PROVE  OnTime(waited[x], Wait(r, x), Interval[x], fires[x], 0)
  BY Zenon DEF AllOnTime
<1>1. x \in Hs(list) /\ Wait(r, x) = Wait(list, x) - d
  BY DEF IsCharged
<1>2. x \in Timers
  BY <1>1, TimeFacts
<1>3. PICK w, b, f, i : w = waited[x] /\ b = Wait(list, x) /\ f = fires[x] /\ i = Interval[x]
  OBVIOUS
<1>4. w \in Nat /\ f \in Nat /\ i \in Nat /\ spent \in Nat
  BY <1>2, <1>3, TimeFacts, IntervalAssumption
<1>5. b \in Nat /\ d <= b
  <2>1. PICK a \in Nat : a = list[1].time
    BY TimeFacts
  <2>2. b \in Nat /\ a <= b
    BY <1>1, <1>3, <2>1, TimeFacts
  <2> QED
    BY <2>1, <2>2
<1>6. OnTime(w, b, i, f, spent)
  <2>1. AllOnTime(list, waited, fires, spent)
    BY TimeFacts
  <2> QED
    BY <1>1, <1>3, <2>1, Zenon DEF AllOnTime
<1>7. OnTime(w, b - d, i, f, 0)
  BY <1>4, <1>5, <1>6, OnTimeCharged
<1> QED
  BY <1>1, <1>3, <1>7

LEMMA OpensTime ==
  ASSUME TimeInv, Opens
  PROVE  TypeOK' /\ LateInv'
<1>1. /\ pc = "pend" /\ ticks > 0 /\ pc' = "again" /\ ticks' = 0 /\ spent' = 0
      /\ pcbs' = TRUE /\ timerOn' = TRUE
  BY DEF Opens, Received
<1>2. PICK d \in Nat : /\ IsCharged(Charged, list, d) /\ d <= list[1].time
                       /\ spent * TickMs <= d
  BY <1>1, ChargedWait
<1>3. PICK c : c = Charged
  OBVIOUS
<1>4. AllOnTime(c, waited, fires, 0) /\ Timed(c) /\ Hs(c) = Hs(list)
  BY <1>2, <1>3, AllCharged DEF IsCharged
<1>5. /\ waited \in [Timers -> Nat] /\ fires \in [Timers -> Nat] /\ Hs(list) \subseteq Timers
      /\ TcpTimer \in Timers
  BY TimeFacts DEF Timers
<1>6. /\ Timed(list') /\ AllOnTime(list', waited', fires', 0)
      /\ waited' \in [Timers -> Nat] /\ fires' \in [Timers -> Nat]
  <2>1. CASE timerOn
    <3>1. list' = c /\ waited' = waited /\ fires' = fires
      BY <1>3, <2>1 DEF Opens
    <3> QED
      BY <1>4, <1>5, <3>1
  <2>2. CASE ~timerOn
    <3>1. /\ list' = Timeout(c, TcpTimer)
          /\ waited' = Reset(waited, TcpTimer) /\ fires' = Reset(fires, TcpTimer)
      BY <1>3, <2>2 DEF Opens
    <3>2. TcpTimer \notin Hs(c)
      BY <1>4, <2>2, TimeFacts, Waits DEF ArmedInv
    <3>3. IsSet(list', c, TcpTimer, Interval[TcpTimer])
      BY <1>4, <1>5, <3>1, <3>2, TimeoutWait
    <3>4. /\ waited' \in [Timers -> Nat] /\ fires' \in [Timers -> Nat]
          /\ waited'[TcpTimer] = 0 /\ fires'[TcpTimer] = 0
          /\ \A x \in Timers \ {TcpTimer} : waited'[x] = waited[x] /\ fires'[x] = fires[x]
      BY <1>5, <3>1, MoreFacts
    <3>5. ASSUME NEW x \in Hs(list')
          PROVE  OnTime(waited'[x], Wait(list', x), Interval[x], fires'[x], 0)
      <4>1. CASE x = TcpTimer
        <5>1. Wait(list', x) = Interval[x]
          BY <3>3, <4>1 DEF IsSet
        <5>2. OnTime(0, Interval[x], Interval[x], 0, 0)
          BY <1>5, <4>1, IntervalAssumption, OnTimeSet
        <5> QED
          BY <3>4, <4>1, <5>1, <5>2
      <4>2. CASE x # TcpTimer
        <5>1. x \in Hs(c) /\ Wait(list', x) = Wait(c, x)
          BY <3>3, <4>2 DEF IsSet
        <5>2. OnTime(waited[x], Wait(c, x), Interval[x], fires[x], 0)
          BY <1>4, <5>1, Zenon DEF AllOnTime
        <5>3. x \in Timers \ {TcpTimer}
          BY <1>4, <1>5, <4>2, <5>1
        <5> QED
          BY <3>4, <5>1, <5>2, <5>3
      <4> QED
        BY <4>1, <4>2
    <3>6. AllOnTime(list', waited', fires', 0)
      BY <3>5, Zenon DEF AllOnTime
    <3> QED
      BY <3>3, <3>4, <3>6 DEF IsSet
  <2> QED
    BY <2>1, <2>2
<1>7. TypeOK'
  <2>1. list' \in Seq([h : Timers, time : Nat])
    BY <1>6 DEF Timed, Timeouts
  <2>2. ticks' \in 0 .. MaxTicks
    BY <1>1, TickFacts
  <2> QED
    BY <1>1, <1>6, <2>1, <2>2 DEF TypeOK
<1>8. (pc' = "again" => spent' = 0) /\ pc' # "pend"
  BY <1>1
<1>9. AllOnTime(list', waited', fires', spent')
  BY <1>1, <1>6
<1> QED
  BY <1>7, <1>8, <1>9, TimeFrom

LEMMA ServesTime ==
  ASSUME TimeInv, Serves
  PROVE  TypeOK' /\ LateInv'
<1>1. /\ pc = "pend" /\ ticks > 0 /\ pc' = "again" /\ ticks' = 0 /\ spent' = 0
      /\ pcbs' \in {pcbs, FALSE} /\ timerOn' = timerOn /\ waited' = waited /\ fires' = fires
      /\ list' = Charged
  BY DEF Serves, Received
<1>2. PICK d \in Nat : /\ IsCharged(Charged, list, d) /\ d <= list[1].time
                       /\ spent * TickMs <= d
  BY <1>1, ChargedWait
<1>3. AllOnTime(list', waited', fires', spent') /\ Timed(list')
  <2>1. IsCharged(list', list, d)
    BY <1>1, <1>2
  <2>2. AllOnTime(list', waited, fires, 0)
    BY <1>2, <2>1, AllCharged
  <2> QED
    BY <1>1, <2>1, <2>2 DEF IsCharged
<1>4. TypeOK'
  <2>1. list' \in Seq([h : Timers, time : Nat])
    BY <1>3 DEF Timed, Timeouts
  <2>2. ticks' \in 0 .. MaxTicks /\ spent' \in Nat
    BY <1>1, TickFacts
  <2>3. TypeOK
    BY DEF TimeInv
  <2> QED
    BY <1>1, <2>1, <2>2, <2>3 DEF TypeOK
<1>5. (pc' = "again" => spent' = 0) /\ pc' # "pend"
  BY <1>1
<1> QED
  BY <1>3, <1>4, <1>5, TimeFrom

LEMMA NextTime ==
  ASSUME TimeInv, [Next]_vars
  PROVE  TimeInv'
<1>1. TypeOK /\ LateInv /\ ArmedInv /\ list[1].time \in Nat /\ Head(list) = list[1]
  BY TimeFacts DEF TimeInv
<1>2. TypeOK' /\ LateInv'
  <2>1. CASE FireDue
    <3>1. Fire /\ spent = 0 /\ list[1].time = 0
      BY <1>1, <2>1 DEF FireDue, LateInv
    <3>2. spent * TickMs <= list[1].time + (TickMs - 1)
      <4>1. PICK T \in Nat \ {0} : T = TickMs
        BY TickFacts
      <4>2. 0 * T = 0
        OBVIOUS
      <4> QED
        BY <3>1, <4>1, <4>2
    <3> QED
      BY <3>1, <3>2, FireTime
  <2>2. CASE Pend
    BY <2>2, PendStepTime
  <2>3. CASE Tick
    BY <2>3, TickTime
  <2>4. CASE Expire
    <3>1. /\ Fire /\ pc = "pend" /\ ticks = 0
      BY <2>4 DEF Expire
    <3>2. PICK a \in Nat : a = list[1].time
      BY <1>1
    <3>3. a \in Nat \ {0} /\ spent = PendTicks(a)
      <4>1. list[1].time > 0 /\ spent + ticks = PendTicks(list[1].time) /\ spent \in Nat
        BY <1>1, <3>1 DEF LateInv, TypeOK
      <4> QED
        BY <3>1, <3>2, <4>1
    <3>4. spent * TickMs <= a + (TickMs - 1)
      BY <3>3, PendTime
    <3> QED
      BY <3>1, <3>2, <3>4, FireTime
  <2>5. CASE Opens
    BY <2>5, OpensTime
  <2>6. CASE Serves
    BY <2>6, ServesTime
  <2>7. CASE UNCHANGED vars
    <3>1. AllOnTime(list, waited, fires, spent)
      BY TimeFacts
    <3>2. /\ list' = list /\ waited' = waited /\ fires' = fires /\ spent' = spent /\ pc' = pc
          /\ ticks' = ticks /\ pcbs' = pcbs /\ timerOn' = timerOn
      BY <2>7 DEF vars
    <3>3. TypeOK'
      BY <1>1, <3>2 DEF TypeOK
    <3>4. /\ pc = "again" => spent = 0
          /\ pc = "pend" => list[1].time > 0 /\ spent + ticks = PendTicks(list[1].time)
      BY <1>1 DEF LateInv
    <3>5. AllOnTime(list', waited', fires', spent')
      BY <3>1, <3>2
    <3>6. /\ pc' = "again" => spent' = 0
          /\ pc' = "pend" => list'[1].time > 0 /\ spent' + ticks' = PendTicks(list'[1].time)
      BY <3>2, <3>4
    <3> QED
      BY <3>3, <3>5, <3>6, TimeFrom
  <2> QED
    BY <2>1, <2>2, <2>3, <2>4, <2>5, <2>6, <2>7 DEF Next
<1>3. ArmedInv'
  BY <1>1, NextArmed
<1> QED
  BY <1>2, <1>3 DEF TimeInv

LEMMA TimeInvariant == Spec => []TimeInv
<1> QED
  BY InitTime, NextTime, PTL DEF Spec

\* The list of the thread is one of timeouts with times that did not wrap below
\* zero, and what OSQPend is given fits its 16 bits.
THEOREM TypeCorrect == Spec => []TypeOK
<1>1. TimeInv => TypeOK
  BY DEF TimeInv
<1> QED
  BY <1>1, TimeInvariant, PTL

\* However timeouts and messages follow each other in sys_mbox_fetch, and
\* whatever the intervals and the clock, a timeout is late by less than a tick
\* for itself and for every other one that went off since it was set.
THEOREM NeverLate == Spec => []LateByTicksOnly
<1>1. ASSUME TimeInv PROVE LateByTicksOnly
  <2> SUFFICES ASSUME NEW x \in InList
               PROVE  waited[x] * TickMs <= Interval[x] + (fires[x] + 1) * (TickMs - 1)
    BY DEF LateByTicksOnly
  <2>1. x \in Hs(list) /\ x \in Timers
    BY Waits, TimeFacts, <1>1
  <2>2. PICK a \in Nat : a = list[1].time
    BY <1>1, TimeFacts
  <2>3. PICK w, b, f, i : w = waited[x] /\ b = Wait(list, x) /\ f = fires[x] /\ i = Interval[x]
    OBVIOUS
  <2>4. /\ w \in Nat /\ b \in Nat /\ f \in Nat /\ i \in Nat /\ spent \in Nat /\ a <= b
    BY <1>1, <2>1, <2>2, <2>3, TimeFacts, IntervalAssumption
  <2>5. OnTime(w, b, i, f, spent)
    <3>1. AllOnTime(list, waited, fires, spent)
      BY <1>1, TimeFacts
    <3> QED
      BY <2>1, <2>3, <3>1, Zenon DEF AllOnTime
  <2>6. PICK T \in Nat \ {0} : T = TickMs
    BY TickFacts
  <2>7. spent * T <= a + (T - 1)
    <3>1. TypeOK /\ LateInv
      BY <1>1 DEF TimeInv
    <3>2. CASE pc = "again"
      <4>1. spent = 0
        BY <3>1, <3>2 DEF LateInv
      <4>2. 0 * T = 0
        OBVIOUS
      <4> QED
        BY <4>1, <4>2
    <3>3. CASE pc = "pend"
      <4>1. a > 0 /\ spent + ticks = PendTicks(a) /\ ticks \in Nat
        BY <2>2, <3>1, <3>3, TickFacts DEF LateInv, TypeOK
      <4>2. PICK p : p = PendTicks(a)
        OBVIOUS
      <4>3. p \in Nat /\ p * T <= a + (T - 1)
        <5>1. a \in Nat \ {0}
          BY <4>1
        <5>2. p \in 1 .. MaxTicks /\ p * TickMs <= a + (TickMs - 1)
          BY <4>2, <5>1, PendTime
        <5> QED
          BY <2>6, <5>2, TickFacts
      <4>4. spent <= p
        BY <2>4, <4>1, <4>2, <4>3
      <4>5. spent * T <= p * T /\ spent * T \in Nat /\ p * T \in Nat
        BY <2>4, <4>3, <4>4, Products
      <4> QED
        BY <4>3, <4>5
    <3> QED
      BY <3>1, <3>2, <3>3 DEF TypeOK
  <2>8. OnTime(w, b - a, i, f + 1, 0)
    BY <2>2, <2>4, <2>5, <2>6, <2>7, OnTimeFired
  <2>9. w * T <= i + (f + 1) * (T - 1)
    <3>1. PICK y, z \in Nat : y = w * T /\ z = (f + 1) * (T - 1)
      <4>1. w * T \in Nat /\ f + 1 \in Nat /\ T - 1 \in Nat
        BY <2>4
      <4>2. (f + 1) * (T - 1) \in Nat
        BY <4>1
      <4> QED
        BY <4>1, <4>2
    <3>2. 0 * T = 0
      OBVIOUS
    <3>3. y + (b - a) <= i + z + 0
      BY <2>6, <2>8, <3>1, <3>2 DEF OnTime
    <3>4. y <= i + z
      BY <2>4, <3>3
    <3> QED
      BY <3>1, <3>4
  <2> QED
    BY <2>3, <2>6, <2>9
<1> QED
  BY <1>1, TimeInvariant, PTL

-----------------------------------------------------------------------------
(* The list of differences implements timers that count down together *)

LEMMA LeftDomain ==
  /\ DOMAIN Left = Hs(list) /\ DOMAIN Left' = Hs(list')
  /\ \A x \in Hs(list) : Left[x] = Wait(list, x)
  /\ \A x \in Hs(list') : Left'[x] = Wait(list', x)
BY Waits

\* Two records of what timers have left are the same.
LEMMA SameLeft ==
  ASSUME NEW S, NEW f, f = [x \in S |-> f[x]], Hs(list') = S,
         \A x \in S : Wait(list', x) = f[x]
  PROVE  Left' = f
<1>1. Left' = [x \in S |-> Wait(list', x)]
  BY Waits
<1> QED
  BY <1>1

\* The first timer of the list is the one that goes off next.
LEMMA FirstIsNext ==
  ASSUME TimeInv
  PROVE  Abstract!IsNext(list[1].h) /\ Left[list[1].h] = list[1].time
<1>1. PICK h : h = list[1].h
  OBVIOUS
<1>2. PICK a : a = list[1].time
  OBVIOUS
<1>3. Timed(list) /\ list # <<>> /\ h \in Hs(list) /\ \A x \in Hs(list) : a <= Wait(list, x)
  BY <1>1, <1>2, TimeFacts
<1>4. Wait(list, h) = a
  BY <1>1, <1>2, <1>3, TailWait DEF IsTailOf
<1>5. Left[h] = a /\ h \in DOMAIN Left /\ \A g \in DOMAIN Left : Left[h] <= Left[g]
  BY <1>3, <1>4, LeftDomain
<1> QED
  BY <1>1, <1>2, <1>5 DEF Abstract!IsNext

LEMMA FireCounts ==
  ASSUME TimeInv, Fire
  PROVE  Abstract!GoesOff
<1>1. PICK h : h = list[1].h
  OBVIOUS
<1>2. PICK a : a = list[1].time
  OBVIOUS
<1>3. Abstract!IsNext(h) /\ Left[h] = a /\ h \in Hs(list)
  BY <1>1, <1>2, FirstIsNext, TimeFacts
<1>4. IsFired(list', list, h)
  BY <1>1, FireWait
<1>5. PICK rest : rest = [x \in Hs(list) \ {h} |-> Left[x] - a]
  OBVIOUS
<1>6. Abstract!Passed(Abstract!Without(Left, h), Left[h]) = rest
  BY <1>3, <1>5, LeftDomain DEF Abstract!Passed, Abstract!Without
<1>7. \A x \in Hs(list) \ {h} : Wait(list', x) = rest[x]
  BY <1>2, <1>4, <1>5, LeftDomain DEF IsFired
<1>8. \/ Left' = rest
      \/ Left' = Abstract!With(rest, h)
  <2>1. CASE Hs(list') = Hs(list) /\ Wait(list', h) = Interval[h]
    <3>1. PICK f : f = [x \in Hs(list) |-> IF x = h THEN Interval[h] ELSE rest[x]]
      OBVIOUS
    <3>2. Abstract!With(rest, h) = f
      <4>1. DOMAIN rest \cup {h} = Hs(list)
        BY <1>3, <1>5
      <4> QED
        BY <3>1, <4>1 DEF Abstract!With
    <3>3. \A x \in Hs(list) : Wait(list', x) = f[x]
      BY <1>7, <2>1, <3>1
    <3>4. f = [x \in Hs(list) |-> f[x]]
      BY <3>1
    <3>5. Left' = f
      BY <2>1, <3>3, <3>4, SameLeft
    <3> QED
      BY <3>2, <3>5
  <2>2. CASE Hs(list') = Hs(list) \ {h}
    <3>1. rest = [x \in Hs(list) \ {h} |-> rest[x]]
      BY <1>5
    <3>2. Left' = rest
      BY <1>7, <2>2, <3>1, SameLeft
    <3> QED
      BY <3>2
  <2> QED
    BY <1>4, <2>1, <2>2 DEF IsFired
<1>9. h \in DOMAIN Left
  BY <1>3, LeftDomain
<1> QED
  BY <1>3, <1>6, <1>8, <1>9, Zenon DEF Abstract!GoesOff

LEMMA ChargeCounts ==
  ASSUME TimeInv, NEW d \in Nat, d <= list[1].time,
         NEW r, IsCharged(r, list, d),
         \/ list' = r
         \/ \E g \in Timers \ Hs(list) : IsSet(list', r, g, Interval[g])
  PROVE  Abstract!Elapse
<1>1. PICK h : h = list[1].h
  OBVIOUS
<1>2. Abstract!IsNext(h) /\ h \in DOMAIN Left /\ d \in 0 .. Left[h]
  <2>1. PICK a \in Nat : a = list[1].time
    BY TimeFacts
  <2>2. Abstract!IsNext(h) /\ Left[h] = a /\ h \in Hs(list)
    BY <1>1, <2>1, FirstIsNext, TimeFacts
  <2> QED
    BY <2>1, <2>2, LeftDomain
<1>3. PICK p : p = [x \in Hs(list) |-> Left[x] - d]
  OBVIOUS
<1>4. Abstract!Passed(Left, d) = p
  BY <1>3, LeftDomain DEF Abstract!Passed
<1>5. Hs(r) = Hs(list) /\ \A x \in Hs(list) : Wait(r, x) = p[x]
  BY <1>3, LeftDomain DEF IsCharged
<1>6. p = [x \in Hs(list) |-> p[x]] /\ DOMAIN p = Hs(list)
  BY <1>3
<1>7. CASE list' = r
  <2>1. Left' = p
    BY <1>5, <1>6, <1>7, SameLeft
  <2> QED
    BY <1>2, <1>4, <2>1, Zenon DEF Abstract!Elapse
<1>8. CASE \E g \in Timers \ Hs(list) : IsSet(list', r, g, Interval[g])
  <2>1. PICK g \in Timers \ Hs(list) : IsSet(list', r, g, Interval[g])
    BY <1>8
  <2>2. PICK f : f = [x \in Hs(list) \cup {g} |-> IF x = g THEN Interval[g] ELSE p[x]]
    OBVIOUS
  <2>3. Abstract!With(p, g) = f
    BY <1>6, <2>2 DEF Abstract!With
  <2>4. Hs(list') = Hs(list) \cup {g}
    BY <1>5, <2>1 DEF IsSet
  <2>5. \A x \in Hs(list) \cup {g} : Wait(list', x) = f[x]
    BY <1>5, <2>1, <2>2 DEF IsSet
  <2>6. f = [x \in Hs(list) \cup {g} |-> f[x]]
    BY <2>2
  <2>7. Left' = f
    BY <2>4, <2>5, <2>6, SameLeft
  <2>8. g \in Timers \ DOMAIN Left
    BY LeftDomain
  <2> QED
    BY <1>2, <1>4, <2>3, <2>7, <2>8, Zenon DEF Abstract!Elapse
<1> QED
  BY <1>7, <1>8

LEMMA StepCounts ==
  ASSUME TimeInv, [Next]_vars
  PROVE  [Abstract!Next]_Left
<1>1. CASE FireDue \/ Expire
  BY <1>1, FireCounts DEF FireDue, Expire, Abstract!Next
<1>2. CASE Pend \/ Tick \/ UNCHANGED vars
  <2>1. list' = list
    BY <1>2 DEF Pend, Tick, vars
  <2>2. Left' = Left
    BY <2>1, Waits
  <2> QED
    BY <2>2
<1>3. CASE Opens \/ Serves
  <2>1. pc = "pend" /\ ticks > 0
    BY <1>3 DEF Opens, Serves, Received
  <2>2. PICK d \in Nat : IsCharged(Charged, list, d) /\ d <= list[1].time
    BY <2>1, ChargedWait
  <2>3. PICK c : c = Charged
    OBVIOUS
  <2>4. CASE list' = c
    BY <2>2, <2>3, <2>4, ChargeCounts DEF Abstract!Next
  <2>5. CASE Opens /\ ~timerOn
    <3>1. list' = Timeout(c, TcpTimer)
      BY <2>3, <2>5 DEF Opens
    <3>2. TcpTimer \in Timers \ Hs(list)
      BY <2>5, TimeFacts, Waits DEF ArmedInv, Timers
    <3>3. Timed(c) /\ Hs(c) = Hs(list)
      BY <2>2, <2>3 DEF IsCharged
    <3>4. IsSet(list', c, TcpTimer, Interval[TcpTimer])
      BY <3>1, <3>2, <3>3, TimeoutWait
    <3> QED
      BY <2>2, <2>3, <3>2, <3>4, ChargeCounts DEF Abstract!Next
  <2>6. list' = c \/ (Opens /\ ~timerOn)
    BY <1>3, <2>3 DEF Opens, Serves
  <2> QED
    BY <2>4, <2>5, <2>6
<1> QED
  BY <1>1, <1>2, <1>3 DEF Next

LEMMA InitCounts == Init => Abstract!Init
<1> SUFFICES ASSUME Init PROVE Abstract!Init
  OBVIOUS
<1>1. Left = [x \in {IpTimer, ArpTimer} |-> Interval[x]]
  BY InitWaits, Waits
<1>2. {IpTimer, ArpTimer} \in SUBSET Timers
  BY DEF Timers
<1> QED
  BY <1>1, <1>2, Zenon DEF Abstract!Init

\* The list of differences that sys_timeout, sys_mbox_fetch and the handlers keep
\* implements timers that all count down at the same pace and go off one after
\* the other, the one with the least time left first.
THEOREM ImplementsCountdown == Spec => CountsDown
  BY InitCounts, StepCounts, TimeInvariant, PTL DEF Spec, CountsDown, Abstract!Spec
=============================================================================
