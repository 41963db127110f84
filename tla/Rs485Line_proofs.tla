-------------------------- MODULE Rs485Line_proofs --------------------------
(***************************************************************************)
(* Proofs about FrameTimer for any ports, byte times and reload value, and *)
(* about Rs485Line for any ports, line speeds, tick and segment lengths    *)
(* that meet DelayAssumption and PrioAssumption.                           *)
(***************************************************************************)
EXTENDS Rs485Line, Integers, TLAPS

-----------------------------------------------------------------------------
(* The frame timer on its own *)

\* TIM2 counts up to a natural number.
LEMMA ReloadNat == Reload \in Nat
  BY TimerAssumption DEF Reload

\* One more count of silence, up to the bound.
LEMMA PassStep ==
  ASSUME NEW p \in Ports, TypeOK, Pass
  PROVE  /\ silent' \in [Ports -> 0 .. SilenceCap]
         /\ silent'[p] <= silent[p] + 1
  <1>1. \A q \in Ports : (IF silent[q] < SilenceCap THEN silent[q] + 1 ELSE SilenceCap)
                           \in 0 .. SilenceCap
    BY TimerAssumption DEF TypeOK
  <1>2. silent' \in [Ports -> 0 .. SilenceCap]
    BY <1>1 DEF Pass
  <1>3. silent'[p] = IF silent[p] < SilenceCap THEN silent[p] + 1 ELSE SilenceCap
    BY DEF Pass
  <1>4. silent'[p] <= silent[p] + 1
    BY <1>3, TimerAssumption DEF TypeOK
  <1> QED BY <1>2, <1>4

\* Room for another byte's time.
LEMMA OneMoreByte ==
  ASSUME NEW n \in Nat, NEW b \in Nat, n > 0
  PROVE  n * b = (n - 1) * b + b
  OBVIOUS

\* Fewer bytes take less time.
LEMMA FewerTimes == ASSUME NEW n \in Nat, NEW m \in Nat, NEW b \in Nat, n <= m
                    PROVE  n * b <= m * b /\ n * b \in Int /\ m * b \in Int
  OBVIOUS

\* Nothing waits untimed: what TimedSinceWrap says of one port.
Timed(p) ==
  /\ startTime[p] => silent[p] <= cnt
  /\ p \in created /\ sem[p] = 0 /\ length[p] > 0 =>
       startTime[p] /\ (length[p] - 1) * ByteTime[p] + silent[p] <= cnt

LEMMA InitIInv == Init => IInv
  <1> SUFFICES ASSUME Init PROVE IInv
    OBVIOUS
  <1>1. TypeOK
    BY ReloadNat, TimerAssumption DEF Init, TypeOK
  <1>2. ASSUME NEW p \in Ports PROVE ~startTime[p] /\ ~(length[p] > 0)
    BY DEF Init
  <1>3. TimedSinceWrap
    BY <1>2 DEF TimedSinceWrap
  <1> QED BY <1>1, <1>3 DEF IInv

\* A new semaphore has a count of one: whatever waits is posted.
LEMMA CreateIInv == ASSUME IInv, NEW p \in Ports, Create(p) PROVE IInv'
  <1> USE DEF IInv
  <1>1. TypeOK'
    BY DEF TypeOK, Create
  <1>2. ASSUME NEW q \in Ports PROVE Timed(q)'
    <2>1. /\ startTime'[q] = startTime[q] /\ silent'[q] = silent[q]
          /\ length'[q] = length[q] /\ cnt' = cnt
      BY DEF Create
    <2>2. q # p => (q \in created' <=> q \in created) /\ sem'[q] = sem[q]
      BY DEF Create, TypeOK
    <2>3. q = p => sem'[q] = 1
      BY DEF Create, TypeOK
    <2> QED BY <2>1, <2>2, <2>3 DEF TimedSinceWrap, Timed
  <1>3. TimedSinceWrap'
    BY <1>2 DEF TimedSinceWrap, Timed
  <1> QED BY <1>1, <1>3

\* A byte keeps the invariant: it came a byte's time after the one before.
LEMMA ByteIInv == ASSUME IInv, NEW p \in Ports, Byte(p) PROVE IInv'
  <1> USE DEF IInv
  <1>1. TypeOK'
    BY TimerAssumption DEF TypeOK, Byte, OneMoreByteOf
  <1>2. ASSUME NEW q \in Ports PROVE Timed(q)'
    <2>1. CASE q # p
      <3>1. /\ startTime'[q] = startTime[q] /\ silent'[q] = silent[q]
            /\ length'[q] = length[q] /\ cnt' = cnt /\ created' = created /\ sem' = sem
        BY <2>1 DEF Byte, OneMoreByteOf, TypeOK
      <3> QED BY <3>1 DEF TimedSinceWrap, Timed
    <2>2. CASE q = p
      <3>1. /\ startTime'[q] = TRUE /\ silent'[q] = 0
            /\ cnt' = cnt /\ created' = created /\ sem' = sem
        BY <2>2 DEF Byte, OneMoreByteOf, TypeOK
      <3>2. cnt \in Nat /\ length[q] \in Nat /\ ByteTime[q] \in Nat /\ silent[q] \in Nat
        BY ReloadNat, TimerAssumption DEF TypeOK
      <3>3. silent[q] >= ByteTime[q]
        BY <2>2 DEF Byte, OneMoreByteOf
      <3>4. SUFFICES ASSUME q \in created, sem[q] = 0, length'[q] > 0
                     PROVE  (length'[q] - 1) * ByteTime[q] <= cnt
        BY <3>1, <3>2, TypeOK' DEF Timed, TypeOK
      <3>5. length[q] * ByteTime[q] <= cnt
        <4>1. CASE length[q] = 0
          BY <4>1, <3>2
        <4>2. CASE length[q] > 0
          <5>1. (length[q] - 1) * ByteTime[q] + silent[q] <= cnt
            BY <4>2, <3>4 DEF TimedSinceWrap
          <5>2. length[q] * ByteTime[q] = (length[q] - 1) * ByteTime[q] + ByteTime[q]
            BY <4>2, <3>2, OneMoreByte
          <5>3. (length[q] - 1) * ByteTime[q] \in Int
            BY <3>2
          <5> HIDE DEF IInv
          <5> QED BY <5>1, <5>2, <5>3, <3>2, <3>3
        <4> QED BY <4>1, <4>2, <3>2
      <3>6. length'[q] - 1 \in Nat /\ length'[q] - 1 <= length[q]
        BY <2>2, <3>2, <3>4, TimerAssumption DEF Byte, OneMoreByteOf, TypeOK
      <3>7. /\ (length'[q] - 1) * ByteTime[q] <= length[q] * ByteTime[q]
            /\ (length'[q] - 1) * ByteTime[q] \in Int /\ length[q] * ByteTime[q] \in Int
        BY <3>2, <3>6, FewerTimes
      <3> HIDE DEF IInv
      <3> QED BY <3>2, <3>5, <3>7
    <2> QED BY <2>1, <2>2
  <1>3. TimedSinceWrap'
    BY <1>2 DEF TimedSinceWrap, Timed
  <1> QED BY <1>1, <1>3

\* Collecting keeps the invariant: nothing is left.
LEMMA CollectIInv == ASSUME IInv, NEW p \in Ports, Collect(p) PROVE IInv'
  <1> USE DEF IInv
  <1>1. TypeOK'
    <2>1. sem[p] - 1 \in Nat
      BY DEF TypeOK, Collect
    <2> QED BY <2>1 DEF TypeOK, Collect
  <1>2. ASSUME NEW q \in Ports PROVE Timed(q)'
    <2>1. /\ startTime'[q] = startTime[q] /\ silent'[q] = silent[q]
          /\ cnt' = cnt /\ created' = created
      BY DEF Collect
    <2>2. q # p => length'[q] = length[q] /\ sem'[q] = sem[q]
      BY DEF Collect, TypeOK
    <2>3. q = p => length'[q] = 0
      BY DEF Collect, TypeOK
    <2> QED BY <2>1, <2>2, <2>3 DEF TimedSinceWrap, Timed
  <1>3. TimedSinceWrap'
    BY <1>2 DEF TimedSinceWrap, Timed
  <1> QED BY <1>1, <1>3

\* A count keeps the invariant: silence grows no faster than the counter.
LEMMA CountIInv == ASSUME IInv, Count PROVE IInv'
  <1> USE DEF IInv
  <1>1. TypeOK'
    <2>1. cnt' \in 0 .. Reload
      BY ReloadNat DEF TypeOK, Count
    <2>2. silent' \in [Ports -> 0 .. SilenceCap]
      BY TimerAssumption DEF TypeOK, Count, Pass
    <2> QED BY <2>1, <2>2 DEF TypeOK, Count
  <1>2. ASSUME NEW q \in Ports PROVE Timed(q)'
    <2>1. silent'[q] <= silent[q] + 1 /\ silent'[q] \in Nat
      BY PassStep, TimerAssumption DEF Count
    <2>2. /\ startTime'[q] = startTime[q] /\ length'[q] = length[q] /\ cnt' = cnt + 1
          /\ created' = created /\ sem'[q] = sem[q]
      BY DEF Count
    <2>3. cnt \in Nat /\ length[q] \in Nat /\ silent[q] \in Nat /\ ByteTime[q] \in Nat
      BY ReloadNat, TimerAssumption DEF TypeOK
    <2>4. (length[q] - 1) * ByteTime[q] \in Int
      BY <2>3
    <2>5. Timed(q)
      BY DEF TimedSinceWrap, Timed
    <2> HIDE DEF IInv
    <2> QED BY <2>1, <2>2, <2>3, <2>4, <2>5 DEF Timed
  <1>3. TimedSinceWrap'
    BY <1>2 DEF TimedSinceWrap, Timed
  <1> QED BY <1>1, <1>3

\* An interrupt stops every timing there is, and posts for it; it never takes a
\* post away.
LEMMA UpdatePosts ==
  ASSUME IInv, Update, NEW q \in Ports
  PROVE  /\ ~startTime'[q]
         /\ sem'[q] \in Nat /\ sem'[q] >= sem[q]
         /\ q \in created /\ startTime[q] => sem'[q] > 0
  <1>0. timeCounter' \in [Ports -> Nat]
    BY DEF IInv, TypeOK, Update
  <1>1. startTime'[q] = (startTime[q] /\ ~(timeCounter'[q] >= 1))
    BY DEF Update
  <1>2. startTime[q] => timeCounter'[q] >= 1
    BY DEF IInv, TypeOK, Update
  <1>3. ~startTime'[q]
    BY <1>1, <1>2
  <1>4. sem'[q] = IF startTime[q] /\ ~startTime'[q] THEN Posted(q) ELSE sem[q]
    BY DEF Update
  <1>5. sem[q] \in Nat
    BY DEF IInv, TypeOK
  <1> QED BY <1>3, <1>4, <1>5, TimerAssumption DEF Posted

\* An interrupt keeps the invariant: it posts for every port that is timed.
LEMMA UpdateIInv == ASSUME IInv, Update PROVE IInv'
  <1> USE DEF IInv
  <1>1. timeCounter' \in [Ports -> Nat]
    BY DEF TypeOK, Update
  <1>2. silent' \in [Ports -> 0 .. SilenceCap]
    BY TimerAssumption DEF TypeOK, Update, Pass
  <1>3. TypeOK'
    <2>1. startTime' \in [Ports -> BOOLEAN]
      BY DEF Update
    <2>2. sem' \in [Ports -> Nat]
      <3>1. \A q \in Ports : sem'[q] \in Nat
        BY UpdatePosts
      <3> QED BY <3>1 DEF Update
    <2>3. cnt' \in 0 .. Reload
      BY ReloadNat DEF Update
    <2> QED BY <1>1, <1>2, <2>1, <2>2, <2>3 DEF TypeOK, Update
  <1>4. ASSUME NEW q \in Ports PROVE Timed(q)'
    <2>1. length'[q] = length[q] /\ created' = created
      BY DEF Update
    <2>2. sem[q] \in Nat
      BY DEF TypeOK
    <2>3. Timed(q)
      BY DEF TimedSinceWrap, Timed
    <2>4. ~startTime'[q] /\ (sem'[q] = 0 => sem[q] = 0 /\ ~(q \in created /\ startTime[q]))
      BY <2>2, UpdatePosts
    <2> HIDE DEF IInv
    <2> QED BY <2>1, <2>3, <2>4 DEF Timed
  <1>5. TimedSinceWrap'
    BY <1>4 DEF TimedSinceWrap, Timed
  <1> QED BY <1>3, <1>5

LEMMA StepIInv == IInv /\ [Next]_vars => IInv'
  <1> SUFFICES ASSUME IInv, [Next]_vars PROVE IInv'
    OBVIOUS
  <1>1. ASSUME NEW p \in Ports, Create(p) \/ Byte(p) \/ Collect(p) PROVE IInv'
    BY <1>1, CreateIInv, ByteIInv, CollectIInv
  <1>2. CASE Count
    BY <1>2, CountIInv
  <1>3. CASE Update
    BY <1>3, UpdateIInv
  <1>4. CASE UNCHANGED vars
    BY <1>4 DEF IInv, TypeOK, TimedSinceWrap, vars
  <1> QED BY <1>1, <1>2, <1>3, <1>4 DEF Next

LEMMA Invariant == Spec => []IInv
  BY InitIInv, StepIInv, PTL DEF Spec

\* Whatever the ports and their speeds, TIM2 finds the end of a frame at the
\* latest one period after its last byte, and no byte waits neither timed nor
\* posted.
THEOREM FramesClosedPromptly == Spec => []ClosedPromptly
  <1>1. IInv => ClosedPromptly
    <2> SUFFICES ASSUME IInv, NEW p \in Ports
                 PROVE  /\ startTime[p] => silent[p] <= Reload
                        /\ p \in created /\ length[p] > 0 => startTime[p] \/ sem[p] > 0
      BY DEF ClosedPromptly
    <2>1. cnt \in Nat /\ cnt <= Reload /\ silent[p] \in Nat /\ sem[p] \in Nat
      BY ReloadNat, TimerAssumption DEF IInv, TypeOK
    <2>2. Timed(p)
      BY DEF IInv, TimedSinceWrap, Timed
    <2> QED BY <2>1, <2>2, ReloadNat DEF Timed
  <1> QED BY <1>1, Invariant, PTL

\* As many byte times as fit are at most the quotient.
LEMMA Quotient ==
  ASSUME NEW n \in Nat, NEW b \in Nat \ {0}, NEW r \in Nat, n * b <= r
  PROVE  n <= r \div b
  OBVIOUS

\* Whatever the period and the speed of the line, TIM2 posts in the middle of a
\* frame that is longer than its period: what comes in before the post is no
\* more than one period's bytes.
THEOREM LongFramesArePosted == Spec => []UnpostedFitOnePeriod
  <1>1. IInv => UnpostedFitOnePeriod
    <2> SUFFICES ASSUME IInv, NEW p \in created, ByteTime[p] > 0, sem[p] = 0
                 PROVE  length[p] <= (Reload + ByteTime[p]) \div ByteTime[p]
      BY DEF UnpostedFitOnePeriod
    <2>0. p \in Ports
      BY DEF IInv, TypeOK
    <2>1. /\ cnt \in Nat /\ cnt <= Reload /\ length[p] \in Nat
          /\ silent[p] \in Nat /\ ByteTime[p] \in Nat \ {0}
      BY <2>0, ReloadNat, TimerAssumption DEF IInv, TypeOK
    <2>2. length[p] * ByteTime[p] <= Reload + ByteTime[p]
      <3>1. CASE length[p] = 0
        BY <3>1, <2>1, ReloadNat
      <3>2. CASE length[p] > 0
        <4>1. (length[p] - 1) * ByteTime[p] + silent[p] <= cnt
          BY <3>2, <2>0 DEF IInv, TimedSinceWrap
        <4>2. length[p] * ByteTime[p] = (length[p] - 1) * ByteTime[p] + ByteTime[p]
          BY <3>2, <2>1, OneMoreByte
        <4>3. (length[p] - 1) * ByteTime[p] \in Int
          BY <2>1
        <4> QED BY <4>1, <4>2, <4>3, <2>1, ReloadNat
      <3> QED BY <3>1, <3>2, <2>1
    <2>3. Reload + ByteTime[p] \in Nat
      BY <2>1, ReloadNat
    <2> QED BY <2>1, <2>2, <2>3, Quotient
  <1> QED BY <1>1, Invariant, PTL

-----------------------------------------------------------------------------
(* The line that is turned round *)

\* Both ticks are one: 10 ms is rounded to a tick.
LEMMA OneTick == Ticks(10) = 1
  BY DEF Ticks, OS_TICKS_PER_SEC

\* The bytes sent so far took a natural number of counts, each its own.
LEMMA Product == ASSUME NEW n \in Nat, NEW b \in Nat PROVE n * b \in Nat /\ (n + 1) * b = n * b + b
  OBVIOUS

\* Fewer bytes take less time.
LEMMA FewerBytes == ASSUME NEW n \in Nat, NEW m \in Nat, NEW b \in Nat, n <= m PROVE n * b <= m * b
  OBVIOUS

LEMMA LineInitInv == LineInit => LineInv
  <1> SUFFICES ASSUME LineInit PROVE LineInv
    OBVIOUS
  <1>1. IInv
    BY InitIInv DEF LineInit
  <1>2. LineTypeOK
    <2>1. tick \in Nat /\ tick < Tick
      BY LineAssumption DEF LineInit
    <2>2. /\ shift \in [Ports -> Nat] /\ held \in [Ports -> BOOLEAN]
          /\ TC \in [Ports -> BOOLEAN] /\ srRead \in [Ports -> BOOLEAN]
      BY DEF LineInit
    <2> QED BY <1>1, <2>1, <2>2, LineAssumption DEF LineInit, LineTypeOK, IInv
  <1>3. PinFollowsCall /\ WireIsTracked /\ LineIsQuiet /\ LastsATick
    BY LineAssumption, DelayAssumption, ReloadNat DEF LineInit, PinFollowsCall, WireIsTracked, LineIsQuiet, LastsATick
  <1>4. TimeIsSpent
    BY DEF LineInit, TimeIsSpent
  <1> QED BY <1>1, <1>2, <1>3, <1>4 DEF LineInv, IInv

\* A task's prologue: only the line's touches the pin, before any callback.
LEMMA StartTaskInv == ASSUME LineInv, NEW t \in Tasks, StartTask(t) PROVE LineInv'
  <1> USE DEF LineInv
  <1>1. dir' = dir
    <2>1. CASE t # "RS485_to_TCP_task"
      BY <2>1 DEF StartTask, Prologue, Tasks
    <2>2. CASE t = "RS485_to_TCP_task"
      BY <2>2 DEF StartTask, Prologue, PinFollowsCall, LineTypeOK
    <2> QED BY <2>1, <2>2
  <1>2. /\ UNCHANGED thread /\ UNCHANGED usart
        /\ UNCHANGED <<tick, busy, across>>
    BY DEF StartTask
  <1>3. /\ TypeOK' /\ TimedSinceWrap' /\ created \subseteq created'
        /\ UNCHANGED <<cnt, startTime>>
        /\ sem[Line] > 0 => sem'[Line] > 0
        /\ t = "RS485_to_TCP_task" => Line \in created'
    <2>1. CASE t = "RS232_to_TCP_task"
      <3>1. Create(Direct) /\ Direct \in Ports /\ Line \in Ports
        BY <2>1, LineAssumption DEF StartTask, Prologue
      <3>2. TypeOK' /\ TimedSinceWrap'
        BY <3>1, CreateIInv DEF IInv, LineTypeOK
      <3>3. UNCHANGED <<cnt, startTime>> /\ created \subseteq created'
        BY <3>1 DEF Create
      <3>4. sem[Line] > 0 => sem'[Line] > 0
        BY <3>1 DEF Create, LineTypeOK, TypeOK
      <3> QED BY <2>1, <3>2, <3>3, <3>4
    <2>2. CASE t = "RS485_to_TCP_task"
      <3>1. Create(Line) /\ Line \in Ports
        BY <2>2, LineAssumption DEF StartTask, Prologue
      <3>2. TypeOK' /\ TimedSinceWrap'
        BY <3>1, CreateIInv DEF IInv, LineTypeOK
      <3>3. UNCHANGED <<cnt, startTime>> /\ created' = created \cup {Line}
        BY <3>1 DEF Create
      <3>4. sem'[Line] = 1
        BY <3>1 DEF Create, LineTypeOK, TypeOK
      <3> QED BY <3>2, <3>3, <3>4
    <2>3. CASE t = "TCP_server_task"
      <3>1. UNCHANGED vars
        BY <2>3 DEF StartTask, Prologue
      <3> QED BY <2>3, <3>1 DEF LineTypeOK, TypeOK, TimedSinceWrap, vars
    <2> QED BY <2>1, <2>2, <2>3 DEF Tasks
  <1>4. LineTypeOK'
    BY <1>1, <1>2, <1>3 DEF LineTypeOK, thread, usart, StartTask
  <1>5. PinFollowsCall'
    <2>1. "TCP_server_task" \in started' => "RS485_to_TCP_task" \in started'
      <3>1. CASE t = "TCP_server_task"
        <4>1. ~(Prio["TCP_server_task"] <= Prio["RS485_to_TCP_task"])
          BY PrioAssumption, LineAssumption DEF Tasks
        <4>2. "RS485_to_TCP_task" \in started
          BY <3>1, <4>1 DEF StartTask, MayStart, Tasks
        <4> QED BY <4>2 DEF StartTask
      <3>2. CASE t # "TCP_server_task"
        BY <3>2 DEF StartTask, PinFollowsCall
      <3> QED BY <3>1, <3>2
    <2>2. "RS485_to_TCP_task" \in started' => Line \in created'
      BY <1>3 DEF StartTask, PinFollowsCall
    <2> QED BY <2>1, <2>2, <1>1, <1>2 DEF PinFollowsCall, thread, StartTask
  <1>6. WireIsTracked' /\ LineIsQuiet'
    BY <1>2 DEF WireIsTracked, LineIsQuiet, thread, usart
  <1>7. LastsATick' /\ TimeIsSpent'
    BY <1>1, <1>2, <1>3 DEF LastsATick, TimeIsSpent, OnTheWire, thread, usart
  <1> QED BY <1>3, <1>4, <1>5, <1>6, <1>7

\* The task of a port collects its bytes: for the line, nothing waits across a
\* transmission any more.
LEMMA TaskCollectsInv == ASSUME LineInv, NEW p \in Ports, TaskCollects(p) PROVE LineInv'
  <1> USE DEF LineInv
  <1>1. TypeOK' /\ TimedSinceWrap'
    BY CollectIInv DEF TaskCollects, IInv, LineTypeOK
  <1>2. /\ UNCHANGED <<started, dir, tick, busy, cnt, startTime, created>>
        /\ UNCHANGED thread /\ UNCHANGED usart
        /\ (across' <=> across /\ p # Line)
    BY DEF TaskCollects, Collect
  <1>3. p # Line => sem'[Line] = sem[Line]
    BY LineAssumption DEF TaskCollects, Collect, LineTypeOK, TypeOK
  <1>4. LineTypeOK'
    BY <1>1, <1>2 DEF LineTypeOK, thread, usart, TaskCollects
  <1>5. PinFollowsCall' /\ WireIsTracked' /\ LineIsQuiet'
    BY <1>2 DEF PinFollowsCall, WireIsTracked, LineIsQuiet, thread, usart
  <1>6. LastsATick' /\ TimeIsSpent'
    BY <1>2, <1>3 DEF LastsATick, TimeIsSpent, OnTheWire, thread, usart
  <1> QED BY <1>1, <1>4, <1>5, <1>6

\* A segment arrives: the callback starts, on a line at rest.
LEMMA ReceiveInv == ASSUME LineInv, NEW p \in Ports, Receive(p) PROVE LineInv'
  <1> USE DEF LineInv
  <1>1. /\ UNCHANGED vars /\ UNCHANGED usart
        /\ UNCHANGED <<started, tick, busy>>
    BY DEF Receive
  <1>2. size' \in Nat /\ size' > 0 /\ left' = size' /\ port' = p /\ call = "idle"
    BY LineAssumption DEF Receive
  <1>3. delay' = IF p = Line THEN 1 ELSE 0
    BY OneTick DEF Receive
  <1>4. LineTypeOK' /\ TimedSinceWrap'
    <2>1. TypeOK' /\ TimedSinceWrap'
      BY <1>1 DEF LineTypeOK, TypeOK, TimedSinceWrap, vars
    <2>2. across' \in BOOLEAN /\ dir' \in {"rx", "tx"}
      <3>1. across' \in BOOLEAN
        BY DEF LineTypeOK, Receive
      <3>2. dir' \in {"rx", "tx"}
        BY DEF LineTypeOK, Receive
      <3> QED BY <3>1, <3>2
    <2>3. delay' \in Nat
      BY <1>3
    <2>4. call' \in {"idle", "lead", "write", "poll", "trail"}
      BY DEF Receive
    <2> QED BY <1>1, <1>2, <2>1, <2>2, <2>3, <2>4 DEF LineTypeOK, usart
  <1>5. PinFollowsCall'
    BY <1>1, <1>2 DEF PinFollowsCall, Receive, LineTypeOK, vars
  <1>6. WireIsTracked'
    BY <1>1, <1>2 DEF WireIsTracked, usart, Receive
  <1>7. LineIsQuiet'
    BY <1>1, <1>2, <1>3 DEF LineIsQuiet, usart, Receive
  <1>8. LastsATick'
    <2>1. busy' = 0 /\ cnt' >= 0
      BY <1>1, <1>2, ReloadNat DEF TimeIsSpent, LineTypeOK, TypeOK, vars
    <2>2. across' => Line \in created
      BY DEF Receive, LastsATick, PinFollowsCall
    <2>3. ~across' \/ sem[Line] > 0 \/ (dir' = "tx" /\ startTime[Line])
      <3>1. CASE across
        BY <3>1, <1>2 DEF LastsATick, PinFollowsCall
      <3>2. CASE p = Line /\ length[Line] > 0
        <4>1. sem[Line] \in Nat
          BY LineAssumption DEF LineTypeOK, TypeOK
        <4>2. Line \in created /\ dir' = "tx"
          BY <3>2 DEF Receive, PinFollowsCall
        <4> QED BY <3>2, <4>1, <4>2, LineAssumption DEF TimedSinceWrap
      <3> QED BY <3>1, <3>2 DEF Receive
    <2> QED BY <1>1, <1>2, <1>3, <2>1, <2>2, <2>3 DEF LastsATick, Receive, vars
  <1>9. TimeIsSpent'
    <2>1. busy' = 0
      BY <1>1, <1>2 DEF TimeIsSpent
    <2>2. ~held[p] /\ shift[p] <= WireTime[p] /\ shift[p] \in Nat /\ WireTime[p] \in Nat
      BY <1>2, LineAssumption DEF WireIsTracked, LineTypeOK
    <2>3. CASE p = Line
      BY <1>2, <1>3, <2>1, <2>3, <1>1 DEF TimeIsSpent, Receive, LineTypeOK
    <2>4. CASE p # Line
      <3>1. OnTheWire(p)' <= WireTime[p]
        BY <1>1, <2>2 DEF OnTheWire, usart
      <3>2. (size' - left') * WireTime[p] = 0
        BY <1>2, <2>2
      <3>3. OnTheWire(p)' \in Nat
        BY <1>1, <2>2 DEF OnTheWire, usart
      <3>4. call' = "write" /\ port' = p
        BY <2>4 DEF Receive
      <3> QED BY <1>2, <2>1, <2>2, <2>4, <3>1, <3>2, <3>3, <3>4 DEF TimeIsSpent
    <2> QED BY <2>3, <2>4
  <1> QED BY <1>4, <1>5, <1>6, <1>7, <1>8, <1>9

\* The first delay is over.
LEMMA LeadOverInv == ASSUME LineInv, LeadOver PROVE LineInv'
  <1> USE DEF LineInv
  <1>1. /\ UNCHANGED vars /\ UNCHANGED usart
        /\ UNCHANGED <<started, dir, port, size, left, delay, tick, busy, across>>
    BY DEF LeadOver
  <1>2. call = "lead" /\ call' = "write" /\ port = Line /\ tick = 0 /\ delay = 0
    BY DEF LeadOver, LastsATick, LineIsQuiet
  <1>3. LineTypeOK' /\ TimedSinceWrap'
    BY <1>1, <1>2 DEF LineTypeOK, TypeOK, TimedSinceWrap, vars, usart
  <1>4. shift[Line] = 0 /\ ~held[Line]
    BY <1>2, LineAssumption DEF LineIsQuiet, WireIsTracked
  <1>5. PinFollowsCall' /\ WireIsTracked' /\ LineIsQuiet'
    BY <1>1, <1>2, <1>4 DEF PinFollowsCall, WireIsTracked, LineIsQuiet, usart, vars
  <1>6. LastsATick'
    BY <1>1, <1>2 DEF LastsATick, vars, LineTypeOK
  <1>7. TimeIsSpent'
    <2>1. left > 0 /\ left <= size
      BY <1>2 DEF TimeIsSpent
    <2>2. OnTheWire(port)' = 0
      BY <1>1, <1>2, <1>4 DEF OnTheWire, usart
    <2>3. size \in Nat /\ left \in Nat /\ WireTime[Line] \in Nat
      BY LineAssumption DEF LineTypeOK
    <2>4. (size - left) * WireTime[Line] \in Nat
      BY <2>1, <2>3, Product, size - left \in Nat
    <2>5. busy <= Tick
      BY <1>2 DEF TimeIsSpent
    <2> QED BY <1>1, <1>2, <2>1, <2>2, <2>4, <2>5, LineAssumption DEF TimeIsSpent, LineTypeOK
  <1> QED BY <1>3, <1>5, <1>6, <1>7

\* A byte is written: DR was free, and TC is cleared unless it is the first.
LEMMA WriteInv == ASSUME LineInv, Write PROVE LineInv'
  <1> USE DEF LineInv
  <1> PICK q \in Ports : q = port
    BY DEF LineTypeOK
  <1>1. /\ UNCHANGED vars
        /\ UNCHANGED <<started, dir, port, size, delay, tick, busy, across>>
        /\ call = "write" /\ call' = "poll"
    BY DEF Write
  <1>2. q = port /\ port' = q /\ WireTime[q] \in Nat /\ WireTime[q] > 0 /\ shift[q] \in Nat
    BY <1>1, LineAssumption DEF LineTypeOK
  <1>3. /\ left > 0 /\ left <= size /\ size \in Nat /\ left \in Nat
        /\ left' = left - 1 /\ left' \in Nat
    BY <1>1 DEF LineTypeOK, Write, TimeIsSpent
  <1>4. ~held[q] /\ shift[q] <= WireTime[q]
    BY <1>1, <1>2 DEF WireIsTracked
  <1>5. /\ shift'[q] = IF shift[q] = 0 THEN WireTime[q] ELSE shift[q]
        /\ shift[q] = 0 => ~held'[q]
        /\ shift[q] > 0 => held'[q]
        /\ TC'[q] => TC[q] /\ ~srRead[q]
        /\ srRead'[q]
    <2>1. shift'[q] = IF shift[q] = 0 THEN WireTime[q] ELSE shift[q]
      BY <1>2 DEF Write, LineTypeOK
    <2>2. (shift[q] = 0 => ~held'[q]) /\ (shift[q] > 0 => held'[q])
      <3>1. held' = [held EXCEPT ![port] = shift[port] > 0] /\ port \in DOMAIN held
        BY DEF Write, LineTypeOK
      <3>2. held'[port] = (shift[port] > 0)
        BY <3>1, Zenon
      <3>3. held'[q] <=> shift[q] > 0
        BY <3>2, <1>2, Zenon
      <3> QED BY <3>3, <1>2
    <2>3. TC'[q] => TC[q] /\ ~srRead[q]
      <3>1. TC' = [TC EXCEPT ![port] = TC[port] /\ ~srRead[port]]
        BY DEF Write
      <3>2. port \in DOMAIN TC
        BY DEF LineTypeOK
      <3>3. TC'[port] = (TC[port] /\ ~srRead[port])
        BY <3>1, <3>2, Zenon
      <3> QED BY <3>3, <1>2
    <2>4. srRead'[q]
      BY <1>2 DEF Write, LineTypeOK
    <2> QED BY <2>1, <2>2, <2>3, <2>4
  <1>6. ASSUME NEW p \in Ports, p # q
        PROVE  /\ shift'[p] = shift[p] /\ held'[p] = held[p]
               /\ TC'[p] = TC[p] /\ srRead'[p] = srRead[p]
    BY <1>6 DEF Write, LineTypeOK
  <1>7. LineTypeOK' /\ TimedSinceWrap'
    <2>1. TypeOK' /\ TimedSinceWrap'
      BY <1>1 DEF LineTypeOK, TypeOK, TimedSinceWrap, vars
    <2>2. /\ shift' \in [Ports -> Nat] /\ held' \in [Ports -> BOOLEAN]
          /\ TC' \in [Ports -> BOOLEAN] /\ srRead' \in [Ports -> BOOLEAN]
      BY <1>2 DEF LineTypeOK, Write
    <2> QED BY <1>1, <1>3, <2>1, <2>2 DEF LineTypeOK
  <1>8. PinFollowsCall'
    BY <1>1 DEF PinFollowsCall, vars
  <1>9. WireIsTracked'
    <2>1. ASSUME NEW p \in Ports
          PROVE  /\ shift'[p] <= WireTime[p]
                 /\ shift'[p] > 0 => srRead'[p]
                 /\ held'[p] => call' = "poll" /\ port' = p /\ ~TC'[p] /\ shift'[p] > 0
      <3>1. CASE p = q
        <4>1. shift[q] > 0 => srRead[q]
          BY <1>2 DEF WireIsTracked
        <4> QED BY <3>1, <4>1, <1>1, <1>2, <1>4, <1>5
      <3>2. CASE p # q
        BY <3>2, <1>1, <1>6 DEF WireIsTracked
      <3> QED BY <3>1, <3>2
    <2>2. shift'[port] > 0
      BY <1>2, <1>5
    <2> QED BY <2>1, <2>2, <1>1 DEF WireIsTracked
  <1>10. LineIsQuiet'
    <2>1. CASE q = Line
      <3>1. shift[Line] > 0 => srRead[Line]
        BY LineAssumption DEF WireIsTracked
      <3>2. TC'[Line] => shift'[Line] = WireTime[Line] /\ tick' = 0
        BY <2>1, <3>1, <1>1, <1>2, <1>5 DEF LineIsQuiet
      <3> QED BY <2>1, <3>2, <1>1 DEF LineIsQuiet
    <2>2. CASE q # Line
      BY <2>2, <1>1, <1>6, LineAssumption DEF LineIsQuiet
    <2> QED BY <2>1, <2>2
  <1>11. LastsATick'
    BY <1>1 DEF LastsATick, vars, LineTypeOK
  <1>12. TimeIsSpent'
    <2>1. OnTheWire(q)' = OnTheWire(q) + WireTime[q] /\ OnTheWire(q) \in Nat
      BY <1>2, <1>4, <1>5 DEF OnTheWire
    <2>2. (size' - left') * WireTime[q] = (size - left) * WireTime[q] + WireTime[q]
      <3>1. size - left \in Nat /\ size' - left' = (size - left) + 1
        BY <1>1, <1>3
      <3> QED BY <3>1, <1>2, Product
    <2>3. (size - left) * WireTime[q] \in Nat
      BY <1>2, <1>3, Product, size - left \in Nat
    <2>4. busy + OnTheWire(q) <= (size - left) * WireTime[q] + IF q = Line THEN Tick ELSE WireTime[q]
      BY <1>1, <1>2 DEF TimeIsSpent
    <2>5. busy \in Nat /\ Tick \in Nat
      BY LineAssumption DEF LineTypeOK
    <2>6. busy' + OnTheWire(port)' <= (size' - left') * WireTime[port'] + IF port' = Line THEN Tick ELSE WireTime[port']
      <3>1. OnTheWire(port)' = OnTheWire(q)'
        BY <1>1 DEF OnTheWire
      <3> HIDE DEF LineInv
      <3>2. CASE q = Line
        BY <3>1, <3>2, <2>1, <2>2, <2>3, <2>4, <2>5, <1>1, <1>2
      <3>3. CASE q # Line
        BY <3>1, <3>3, <2>1, <2>2, <2>3, <2>4, <2>5, <1>1, <1>2
      <3> QED BY <3>2, <3>3
    <2> QED BY <2>6, <1>1, <1>3 DEF TimeIsSpent
  <1> QED BY <1>7, <1>8, <1>9, <1>10, <1>11, <1>12

\* The wait is over: another byte, or the end of the loop.
LEMMA PollInv == ASSUME LineInv, Poll PROVE LineInv'
  <1> USE DEF LineInv
  <1>1. /\ UNCHANGED vars /\ UNCHANGED usart
        /\ UNCHANGED <<started, dir, port, size, left, tick, across>>
        /\ call = "poll" /\ TC[port]
    BY DEF Poll, Sent
  <1>2. port \in Ports /\ ~held[port] /\ shift[port] \in Nat /\ delay = 0
    BY <1>1 DEF LineTypeOK, WireIsTracked, LastsATick
  <1>3. LineTypeOK' /\ TimedSinceWrap'
    <2>1. TypeOK' /\ TimedSinceWrap'
      BY <1>1 DEF LineTypeOK, TypeOK, TimedSinceWrap, vars
    <2>2. /\ call' \in {"idle", "lead", "write", "poll", "trail"}
          /\ delay' \in Nat /\ busy' \in Nat
      BY OneTick DEF LineTypeOK, Poll, AfterLast
    <2> QED BY <1>1, <2>1, <2>2 DEF LineTypeOK, usart
  <1>4. CASE left > 0
    <2>1. call' = "write" /\ delay' = delay /\ busy' = busy
      BY <1>4 DEF Poll
    <2>2. PinFollowsCall' /\ WireIsTracked'
      BY <1>1, <1>2, <2>1 DEF PinFollowsCall, WireIsTracked, usart, vars
    <2>3. LineIsQuiet'
      <3>1. srRead[port]
        BY <1>1 DEF WireIsTracked
      <3> QED BY <1>1, <1>2, <2>1, <3>1, LineAssumption DEF LineIsQuiet, usart, LineTypeOK
    <2>4. LastsATick'
      BY <1>1, <2>1 DEF LastsATick, vars
    <2>5. TimeIsSpent'
      BY <1>1, <2>1, <1>4 DEF TimeIsSpent, OnTheWire, usart
    <2> QED BY <1>3, <2>2, <2>3, <2>4, <2>5
  <1>5. CASE ~(left > 0) /\ port = Line
    <2>1. call' = "trail" /\ delay' = 1 /\ busy' = busy
      BY <1>5, OneTick DEF Poll, AfterLast
    <2>2. PinFollowsCall' /\ WireIsTracked'
      BY <1>1, <1>2, <2>1 DEF PinFollowsCall, WireIsTracked, usart, vars
    <2>3. LineIsQuiet'
      BY <1>1, <1>2, <1>5, <2>1, LineAssumption DEF LineIsQuiet, usart, WireIsTracked
    <2>4. LastsATick'
      BY <1>1, <1>5, <2>1 DEF LastsATick, vars
    <2>5. TimeIsSpent'
      <3>1. left = 0 /\ left \in Nat /\ size \in Nat /\ tick \in Nat /\ busy \in Nat
        BY <1>5 DEF LineTypeOK
      <3>2. busy + OnTheWire(port) <= size * WireTime[Line] + Tick
        BY <1>1, <1>5, <3>1 DEF TimeIsSpent
      <3>3. OnTheWire(port) \in Nat
        BY <1>2 DEF OnTheWire
      <3>4. size * WireTime[Line] \in Nat /\ Tick \in Nat
        BY <3>1, LineAssumption, Product
      <3>5. busy <= size * WireTime[Line] + Tick + tick
        BY <3>1, <3>2, <3>3, <3>4
      <3> QED BY <1>1, <2>1, <3>1, <3>5 DEF TimeIsSpent
    <2> QED BY <1>3, <2>2, <2>3, <2>4, <2>5
  <1>6. CASE ~(left > 0) /\ port # Line
    <2>1. call' = "idle" /\ delay' = 0 /\ busy' = 0
      BY <1>6, OneTick DEF Poll, AfterLast
    <2>2. PinFollowsCall' /\ WireIsTracked'
      BY <1>1, <1>2, <1>6, <2>1 DEF PinFollowsCall, WireIsTracked, usart, vars
    <2>3. LineIsQuiet'
      BY <1>1, <1>6, <2>1 DEF LineIsQuiet, usart
    <2>4. LastsATick'
      BY <1>1, <1>6, <2>1 DEF LastsATick, vars, PinFollowsCall
    <2>5. TimeIsSpent'
      BY <1>1, <2>1 DEF TimeIsSpent
    <2> QED BY <1>3, <2>2, <2>3, <2>4, <2>5
  <1> QED BY <1>4, <1>5, <1>6

\* The line is given back.
LEMMA TurnBackInv == ASSUME LineInv, TurnBack PROVE LineInv'
  <1> USE DEF LineInv
  <1>1. /\ UNCHANGED vars /\ UNCHANGED usart
        /\ UNCHANGED <<started, port, size, left, delay, tick, across>>
        /\ call = "trail" /\ delay = 0 /\ port = Line
        /\ call' = "idle" /\ dir' = "rx" /\ busy' = 0
    BY DEF TurnBack, LastsATick
  <1>2. shift[Line] = 0 /\ ~held[Line]
    BY <1>1, LineAssumption DEF LineIsQuiet, WireIsTracked, LineTypeOK
  <1>3. LineTypeOK' /\ TimedSinceWrap'
    BY <1>1 DEF LineTypeOK, TypeOK, TimedSinceWrap, vars, usart
  <1>4. PinFollowsCall' /\ WireIsTracked'
    BY <1>1, <1>2 DEF PinFollowsCall, WireIsTracked, usart, vars
  <1>5. LineIsQuiet'
    BY <1>1, <1>2 DEF LineIsQuiet, usart
  <1>6. across => Line \in created /\ sem[Line] > 0
    <2>1. busy >= Tick /\ busy \in Nat
      BY <1>1 DEF LastsATick, LineTypeOK
    <2>2. cnt \in Nat /\ cnt <= Reload
      BY ReloadNat DEF LineTypeOK, TypeOK
    <2> QED BY <2>1, <2>2, ReloadNat, LineAssumption, DelayAssumption DEF LastsATick
  <1>7. LastsATick' /\ TimeIsSpent'
    BY <1>1, <1>6 DEF LastsATick, TimeIsSpent, vars
  <1> QED BY <1>3, <1>4, <1>5, <1>7

\* A device's byte: the frame timer's own step, and no other.
LEMMA HearInv == ASSUME LineInv, NEW p \in Ports, Hear(p) PROVE LineInv'
  <1> USE DEF LineInv
  <1>1. TypeOK' /\ TimedSinceWrap'
    BY ByteIInv DEF Hear, IInv, LineTypeOK
  <1>2. /\ UNCHANGED <<started, dir, tick, busy, across, shift, held, TC>>
        /\ UNCHANGED thread /\ UNCHANGED <<cnt, created, sem>>
    BY DEF Hear, Byte, OneMoreByteOf
  <1>3. srRead' \in [Ports -> BOOLEAN] /\ \A q \in Ports : srRead[q] => srRead'[q]
    BY DEF Hear, LineTypeOK
  <1>4. LineTypeOK'
    BY <1>1, <1>2, <1>3 DEF LineTypeOK, thread
  <1>5. PinFollowsCall' /\ WireIsTracked'
    BY <1>2, <1>3 DEF PinFollowsCall, WireIsTracked, thread, LineTypeOK
  <1>6. LineIsQuiet'
    BY <1>2, <1>3, LineAssumption DEF LineIsQuiet, thread
  <1>7. startTime[Line] => startTime'[Line]
    BY LineAssumption DEF Hear, Byte, LineTypeOK, TypeOK
  <1>8. LastsATick' /\ TimeIsSpent'
    BY <1>2, <1>7 DEF LastsATick, TimeIsSpent, OnTheWire, thread
  <1> QED BY <1>1, <1>4, <1>5, <1>6, <1>8

\* The tick's own counter wraps.
LEMMA TickWraps ==
  ASSUME NEW t \in Nat, t < Tick
  PROVE  (t + 1) % Tick = IF t + 1 = Tick THEN 0 ELSE t + 1
  <1>1. Tick \in Nat /\ Tick > 0
    BY LineAssumption
  <1>2. CASE t + 1 = Tick
    BY <1>1, <1>2
  <1>3. CASE t + 1 < Tick
    BY <1>1, <1>3
  <1> QED BY <1>1, <1>2, <1>3

\* What one count does to the wire of a port.
LEMMA WireStepOf ==
  ASSUME LineTypeOK, WireIsTracked, WireStep, NEW p \in Ports
  PROVE  /\ shift' \in [Ports -> Nat] /\ held' \in [Ports -> BOOLEAN]
         /\ TC' \in [Ports -> BOOLEAN] /\ srRead' = srRead
         /\ shift[p] > 1 => shift'[p] = shift[p] - 1 /\ (held'[p] <=> held[p]) /\ (TC'[p] <=> TC[p])
         /\ shift[p] <= 1 /\ held[p] => shift'[p] = WireTime[p] /\ ~held'[p] /\ (TC'[p] <=> TC[p])
         /\ shift[p] <= 1 /\ ~held[p] => shift'[p] = 0 /\ ~held'[p] /\ (TC'[p] <=> TC[p] \/ shift[p] = 1)
  <1>1. /\ shift[p] \in Nat /\ WireTime \in [Ports -> Nat]
        /\ srRead' = srRead
    BY LineAssumption DEF LineTypeOK, WireStep
  <1>2. shift' \in [Ports -> Nat]
    BY <1>1, LineAssumption DEF WireStep, LineTypeOK
  <1>3. held' \in [Ports -> BOOLEAN] /\ TC' \in [Ports -> BOOLEAN]
    BY DEF WireStep
  <1>4. shift'[p] = IF shift[p] > 1 THEN shift[p] - 1 ELSE IF held[p] THEN WireTime[p] ELSE 0
    BY DEF WireStep
  <1>5. held'[p] <=> held[p] /\ shift[p] > 1
    BY DEF WireStep
  <1>6. TC'[p] <=> TC[p] \/ (shift[p] = 1 /\ ~held[p])
    BY DEF WireStep
  <1> QED BY <1>1, <1>2, <1>3, <1>4, <1>5, <1>6

\* A count passes: the frame timer counts, the wire and the tick advance.
LEMMA ElapseInv == ASSUME LineInv, Elapse PROVE LineInv'
  <1> USE DEF LineInv
  <1>1. TypeOK' /\ TimedSinceWrap'
    BY CountIInv, UpdateIInv DEF Elapse, IInv, LineTypeOK
  <1>2. /\ UNCHANGED <<started, dir, call, port, size, left>> /\ WireStep
        /\ busy' = (IF call = "idle" THEN 0 ELSE busy + 1)
        /\ across' = across /\ created' = created
    BY DEF Elapse, Count, Update
  <1>3. tick \in Nat /\ tick < Tick /\ Tick \in Nat /\ busy \in Nat /\ delay \in Nat /\ delay <= 1
    BY LineAssumption DEF LineTypeOK, LastsATick
  <1>4. tick' = IF tick + 1 = Tick THEN 0 ELSE tick + 1
    BY <1>3, TickWraps DEF Elapse, TickStep
  <1>5. delay' = IF tick + 1 = Tick THEN 0 ELSE delay
    BY <1>3, <1>4 DEF Elapse, TickStep
  <1>6. /\ call \in {"lead", "trail"} => delay = 1 /\ port = Line
        /\ call \notin {"lead", "trail"} => delay = 0
        /\ call # "write"
        /\ call = "poll" => ~TC[port] /\ shift[port] > 0
    BY <1>3 DEF Elapse, Ready, Sent, LastsATick, WireIsTracked
  <1>7. \A p \in Ports : shift[p] \in Nat /\ WireTime[p] \in Nat /\ WireTime[p] > 0
    BY LineAssumption DEF LineTypeOK
  <1>8. LineTypeOK'
    <2>1. tick' \in Nat /\ tick' < Tick /\ delay' \in Nat /\ busy' \in Nat
      BY <1>2, <1>3, <1>4, <1>5
    <2>2. across' \in BOOLEAN
      BY <1>2 DEF LineTypeOK
    <2> QED BY <1>1, <1>2, <2>1, <2>2, WireStepOf, LineAssumption DEF LineTypeOK
  <1>9. PinFollowsCall'
    BY <1>2 DEF PinFollowsCall
  <1>10. WireIsTracked'
    <2>1. ASSUME NEW p \in Ports
          PROVE  /\ shift'[p] <= WireTime[p]
                 /\ shift'[p] > 0 => srRead'[p]
                 /\ held'[p] => call' = "poll" /\ port' = p /\ ~TC'[p] /\ shift'[p] > 0
      <3>1. shift[p] <= WireTime[p] /\ (shift[p] > 0 => srRead[p])
        BY DEF WireIsTracked
      <3>2. held[p] => call = "poll" /\ port = p /\ ~TC[p] /\ shift[p] > 0
        BY DEF WireIsTracked
      <3>3. CASE shift[p] > 1
        BY <3>1, <3>2, <3>3, <1>2, <1>7, WireStepOf
      <3>4. CASE shift[p] <= 1 /\ held[p]
        BY <3>1, <3>2, <3>4, <1>2, <1>7, WireStepOf
      <3>5. CASE shift[p] <= 1 /\ ~held[p]
        BY <3>5, <1>2, <1>7, WireStepOf
      <3> QED BY <3>3, <3>4, <3>5, <1>7
    <2>2. call = "poll" => srRead'[port] /\ (TC'[port] \/ shift'[port] > 0)
      <3>1. port \in Ports /\ (call = "poll" => srRead[port])
        BY DEF LineTypeOK, WireIsTracked
      <3>2. CASE shift[port] > 1
        BY <3>1, <3>2, <1>2, <1>7, WireStepOf
      <3>3. CASE shift[port] <= 1 /\ held[port]
        BY <3>1, <3>3, <1>2, <1>7, WireStepOf
      <3>4. CASE shift[port] <= 1 /\ ~held[port]
        BY <3>1, <3>4, <1>2, <1>6, <1>7, WireStepOf
      <3> QED BY <3>1, <3>2, <3>3, <3>4, <1>7
    <2> QED BY <2>1, <2>2, <1>2 DEF WireIsTracked
  <1>11. LineIsQuiet'
    <2>1. Line \in Ports /\ shift[Line] \in Nat /\ WireTime[Line] \in Nat /\ Tick >= WireTime[Line]
      BY <1>7, LineAssumption, DelayAssumption
    <2>2. held[Line] => call = "poll" /\ port = Line
      BY <2>1 DEF WireIsTracked
    <2>3. ~(call \in {"write", "poll", "trail"} /\ port = Line) => shift'[Line] = 0
      BY <2>1, <2>2, <1>2, WireStepOf DEF LineIsQuiet
    <2>4. call = "lead" /\ delay' = 0 => tick' = 0
      BY <1>3, <1>4, <1>5, <1>6
    <2>5. call = "poll" /\ port = Line => ~(TC'[Line] /\ shift'[Line] > 0)
      <3>1. CASE shift[Line] > 1
        BY <3>1, <2>1, <1>2, <1>6, WireStepOf
      <3>2. CASE shift[Line] <= 1 /\ held[Line]
        BY <3>2, <2>1, <1>2, <1>6, WireStepOf
      <3>3. CASE shift[Line] <= 1 /\ ~held[Line]
        BY <3>3, <2>1, <1>2, <1>6, WireStepOf
      <3> QED BY <3>1, <3>2, <3>3, <2>1
    <2>6. call = "trail" /\ shift'[Line] > 0 => delay' > 0 /\ shift'[Line] + tick' <= WireTime[Line]
      <3> SUFFICES ASSUME call = "trail", shift'[Line] > 0
                   PROVE  delay' > 0 /\ shift'[Line] + tick' <= WireTime[Line]
        OBVIOUS
      <3>1. ~held[Line]
        BY <2>2
      <3>2. shift[Line] > 1 /\ shift'[Line] = shift[Line] - 1
        BY <3>1, <2>1, <1>2, WireStepOf
      <3>3. shift[Line] + tick <= WireTime[Line]
        BY <3>2, <2>1 DEF LineIsQuiet
      <3> QED BY <3>2, <3>3, <2>1, <1>3, <1>4, <1>5, <1>6
    <2> QED BY <2>3, <2>4, <2>5, <2>6, <1>2, <1>6 DEF LineIsQuiet
  <1>12. LastsATick'
    <2>1. across => Line \in created
      BY DEF LastsATick
    <2>2. ASSUME across, ~(sem'[Line] > 0)
          PROVE  dir' = "tx" /\ startTime'[Line] /\ busy' <= cnt'
      <3>0. sem[Line] \in Nat /\ Line \in Ports
        BY LineAssumption DEF LineTypeOK, TypeOK
      <3>1. CASE Count
        <4>1. cnt \in Nat /\ cnt' = cnt + 1 /\ sem' = sem /\ startTime' = startTime
          BY <3>1, ReloadNat DEF Count, LineTypeOK, TypeOK
        <4>2. dir = "tx" /\ startTime[Line] /\ busy <= cnt
          BY <2>2, <4>1 DEF LastsATick
        <4>3. busy' = busy + 1 /\ dir' = dir
          BY <4>2, <1>2 DEF PinFollowsCall
        <4> QED BY <4>1, <4>2, <4>3, <1>3
      <3>2. CASE Update
        <4>1. sem'[Line] \in Nat /\ sem'[Line] >= sem[Line]
              /\ (Line \in created /\ startTime[Line] => sem'[Line] > 0)
          BY <3>0, <3>2, UpdatePosts DEF IInv, LineTypeOK
        <4> QED BY <2>1, <2>2, <3>0, <4>1 DEF LastsATick
      <3> QED BY <3>1, <3>2 DEF Elapse
    <2> QED BY <2>1, <2>2, <1>2, <1>3, <1>4, <1>5, <1>6 DEF LastsATick
  <1>13. TimeIsSpent'
    <2>1. CASE call = "idle"
      BY <2>1, <1>2 DEF TimeIsSpent
    <2>2. CASE call = "lead"
      BY <2>2, <1>2, <1>3, <1>4, <1>5, <1>6 DEF TimeIsSpent
    <2>3. CASE call = "poll"
      <3>1. port \in Ports /\ port' = port
        BY <1>2 DEF LineTypeOK
      <3>2. OnTheWire(port)' + 1 = OnTheWire(port) /\ OnTheWire(port)' \in Nat
        <4>1. shift[port] > 0 /\ shift[port] \in Nat /\ WireTime[port] \in Nat
          BY <2>3, <3>1, <1>6, <1>7
        <4>2. CASE shift[port] > 1
          BY <4>1, <4>2, <3>1, <1>2, WireStepOf DEF OnTheWire
        <4>3. CASE shift[port] <= 1 /\ held[port]
          BY <4>1, <4>3, <3>1, <1>2, WireStepOf DEF OnTheWire
        <4>4. CASE shift[port] <= 1 /\ ~held[port]
          BY <4>1, <4>4, <3>1, <1>2, WireStepOf DEF OnTheWire
        <4> QED BY <4>1, <4>2, <4>3, <4>4
      <3>3. PICK n \in Nat : n = (size - left) * WireTime[port]
        <4>1. size - left \in Nat
          BY DEF LineTypeOK, TimeIsSpent
        <4> QED BY <4>1, <3>1, <1>7, Product
      <3>4. busy' = busy + 1
        BY <2>3, <1>2
      <3>5. PICK b \in Nat : b = IF port = Line THEN Tick ELSE WireTime[port]
        BY <3>1, <1>3, <1>7
      <3>6. busy + OnTheWire(port) <= n + b
        BY <2>3, <3>3, <3>5 DEF TimeIsSpent
      <3>7. busy' + OnTheWire(port)' <= n + b
        BY <3>2, <3>4, <3>6, <1>3
      <3>8. n = (size' - left') * WireTime[port'] /\ b = IF port' = Line THEN Tick ELSE WireTime[port']
        BY <3>1, <3>3, <3>5, <1>2
      <3> QED BY <2>3, <3>7, <3>8, <1>2 DEF TimeIsSpent
    <2>4. CASE call = "trail"
      <3>1. size * WireTime[Line] \in Nat
        BY <1>7, LineAssumption, Product DEF LineTypeOK
      <3> QED BY <2>4, <3>1, <1>2, <1>3, <1>4, <1>5, <1>6 DEF TimeIsSpent
    <2> QED BY <2>1, <2>2, <2>3, <2>4, <1>6 DEF LineTypeOK
  <1> QED BY <1>1, <1>8, <1>9, <1>10, <1>11, <1>12, <1>13

LEMMA LineStepInv == LineInv /\ [LineNext]_allVars => LineInv'
  <1> SUFFICES ASSUME LineInv, [LineNext]_allVars PROVE LineInv'
    OBVIOUS
  <1>1. ASSUME NEW t \in Tasks, StartTask(t) PROVE LineInv'
    BY <1>1, StartTaskInv
  <1>2. ASSUME NEW p \in Ports, Receive(p) PROVE LineInv'
    BY <1>2, ReceiveInv
  <1>3. ASSUME NEW p \in Ports, Hear(p) \/ TaskCollects(p) PROVE LineInv'
    BY <1>3, HearInv, TaskCollectsInv
  <1>4. CASE Thread
    BY <1>4, LeadOverInv, WriteInv, PollInv, TurnBackInv DEF Thread
  <1>5. CASE Elapse
    BY <1>5, ElapseInv
  <1>6. CASE UNCHANGED allVars
    <2>1. LineTypeOK' /\ TimedSinceWrap'
      BY <1>6 DEF LineInv, LineTypeOK, TypeOK, TimedSinceWrap, allVars, vars, lineVars, thread, usart
    <2>2. PinFollowsCall' /\ WireIsTracked' /\ LineIsQuiet'
      BY <1>6 DEF LineInv, PinFollowsCall, WireIsTracked, LineIsQuiet, allVars, vars, lineVars, thread, usart
    <2>3. LastsATick' /\ TimeIsSpent'
      BY <1>6 DEF LineInv, LastsATick, TimeIsSpent, OnTheWire, allVars, vars, lineVars, thread, usart
    <2> QED BY <2>1, <2>2, <2>3 DEF LineInv
  <1> QED BY <1>1, <1>2, <1>3, <1>4, <1>5, <1>6 DEF LineNext

LEMMA LineInvariant == LineSpec => []LineInv
  BY LineInitInv, LineStepInv, PTL DEF LineSpec

\* The types hold for any line.
THEOREM LineTypeCorrect == LineSpec => []LineTypeOK
  <1>1. LineInv => LineTypeOK
    BY DEF LineInv
  <1> QED BY <1>1, LineInvariant, PTL

\* Whatever the speed of the line and the length of the segments, the
\* transceiver is never turned round under a byte of the gateway's own.
THEOREM NoByteIsCut == LineSpec => []NoByteCut
  <1>1. LineInv => NoByteCut
    <2> SUFFICES ASSUME LineInv, dir = "rx" PROVE shift[Line] = 0 /\ ~held[Line]
      BY DEF NoByteCut
    <2>1. ~(call # "idle" /\ port = Line)
      BY DEF LineInv, PinFollowsCall
    <2> QED BY <2>1, LineAssumption DEF LineInv, LineIsQuiet, WireIsTracked
  <1> QED BY <1>1, LineInvariant, PTL

\* No byte of a segment is overwritten before it is on the wire.
THEOREM NoByteIsOverwritten == LineSpec => []NothingOverwritten
  <1>1. LineInv => NothingOverwritten
    BY DEF LineInv, LineTypeOK, WireIsTracked, NothingOverwritten
  <1> QED BY <1>1, LineInvariant, PTL

\* A frame that a transmission interrupts has been collected or posted before
\* the gateway listens again, as long as a tick is longer than a period of TIM2.
THEOREM FrameIsPostedInTime == LineSpec => []InterruptedFramePosted
  <1>1. LineInv => InterruptedFramePosted
    BY DEF LineInv, LastsATick, InterruptedFramePosted
  <1> QED BY <1>1, LineInvariant, PTL

\* The TCP/IP thread is never away from its mailbox for longer than the
\* segment's bytes and two ticks take.
THEOREM ThreadIsBackByDeadline == LineSpec => []BackByDeadline
  <1>1. LineInv => BackByDeadline
    <2> SUFFICES ASSUME LineInv PROVE BackByDeadline
      OBVIOUS
    <2>1. /\ busy \in Nat /\ tick \in Nat /\ tick < Tick /\ Tick \in Nat /\ port \in Ports
          /\ size \in Nat /\ left \in Nat /\ left <= size /\ WireTime[port] \in Nat
          /\ shift[port] \in Nat
      BY LineAssumption DEF LineInv, LineTypeOK, TimeIsSpent
    <2>2. /\ size * WireTime[port] \in Nat
          /\ (size - left) * WireTime[port] \in Nat
          /\ (size - left) * WireTime[port] <= size * WireTime[port]
      BY <2>1, Product, FewerBytes, size - left \in Nat, size - left <= size
    <2>3. CASE call \in {"idle", "lead", "trail"}
      BY <2>1, <2>2, <2>3 DEF LineInv, TimeIsSpent, LastsATick, BackByDeadline
    <2>4. CASE call \in {"write", "poll"}
      <3>1. OnTheWire(port) \in Nat
        BY <2>1 DEF OnTheWire
      <3>2. busy + OnTheWire(port) <= (size - left) * WireTime[port]
                                      + IF port = Line THEN Tick ELSE WireTime[port]
        BY <2>4 DEF LineInv, TimeIsSpent
      <3> QED BY <2>1, <2>2, <3>1, <3>2 DEF BackByDeadline
    <2> QED BY <2>3, <2>4 DEF LineInv, LineTypeOK
  <1> QED BY <1>1, LineInvariant, PTL

\* What FrameTimer promises survives the transceiver: every step of the line
\* is one of the frame timer's or leaves it alone.
LEMMA LineImplementsTimer == LineSpec => Spec
  <1>1. LineInit => Init
    BY DEF LineInit
  <1>2. [LineNext]_allVars => [Next]_vars
    <2> SUFFICES ASSUME [LineNext]_allVars PROVE [Next]_vars
      OBVIOUS
    <2>1. ASSUME NEW t \in Tasks, StartTask(t) PROVE [Next]_vars
      BY <2>1, LineAssumption DEF StartTask, Prologue, Tasks, Next
    <2>2. ASSUME NEW p \in Ports, Receive(p) \/ Hear(p) \/ TaskCollects(p) PROVE [Next]_vars
      BY <2>2 DEF Receive, Hear, TaskCollects, Next
    <2>3. CASE Thread
      BY <2>3 DEF Thread, LeadOver, Write, Poll, TurnBack
    <2>4. CASE Elapse
      BY <2>4 DEF Elapse, Next
    <2>5. CASE UNCHANGED allVars
      BY <2>5 DEF allVars
    <2> QED BY <2>1, <2>2, <2>3, <2>4, <2>5 DEF LineNext
  <1> QED BY <1>1, <1>2, PTL DEF LineSpec, Spec

\* The end of a frame is found at the latest one period of TIM2 after its last
\* byte, also on a line that is turned round in the middle of it.
THEOREM LineClosesPromptly == LineSpec => []ClosedPromptly
  BY LineImplementsTimer, FramesClosedPromptly, PTL

\* On the line too TIM2 posts in the middle of a frame longer than its period.
THEOREM LinePostsLongFrames == LineSpec => []UnpostedFitOnePeriod
  BY LineImplementsTimer, LongFramesArePosted, PTL
=============================================================================
