-------------------------- MODULE SerialPort_proofs --------------------------
(***************************************************************************)
(* SerialPort keeps its types, strands no byte and hands on no stale one,  *)
(* for every buffer size, counter width, number of connections and device, *)
(* and whichever interrupt outranks the other.  For a device that paces    *)
(* itself, and where the USART outranks TIM2, it implements FrameRelay.    *)
(***************************************************************************)
EXTENDS SerialPort, TLAPS

\* The 8-bit increment of the receive counter: the successor, or zero.
LEMMA CounterStep ==
  ASSUME NEW n \in 0 .. CounterMod - 1
  PROVE  \/ (n + 1) % CounterMod = n + 1 /\ n + 1 < CounterMod
         \/ (n + 1) % CounterMod = 0
  BY BufferAssumption, Z3

-----------------------------------------------------------------------------
LEMMA TypeInit == Init => TypeOK
  <1> SUFFICES ASSUME Init PROVE TypeOK
    OBVIOUS
  <1>1. sent \in [Clients -> Seq(Seq(Nat))] /\ chunk \in Seq(Nat)
    BY DEF Init, Clients
  <1>2. buf \in [0 .. BufSize - 1 -> Nat]
    BY BufferAssumption DEF Init
  <1>3. recCounter \in 0 .. CounterMod - 1 /\ sendCounter \in 0 .. CounterMod - 1
    BY BufferAssumption DEF Init
  <1>4. cpcb \in 1 .. NumClients + 1
    BY ClientAssumption DEF Init
  <1> QED
    BY <1>1, <1>2, <1>3, <1>4
    DEF Init, TypeOK, UsartLocations, TimLocations, TaskLocations

\* Every step keeps the types: the counter stays within its width.
LEMMA TypeStep == TypeOK /\ [Next]_vars => TypeOK'
  <1> SUFFICES ASSUME TypeOK, [Next]_vars PROVE TypeOK'
    OBVIOUS
  <1>1. CASE \E n \in FrameLengths : StartFrame(n)
    BY <1>1, LineAssumption DEF StartFrame, line, rx, task, TypeOK, UsartLocations, TimLocations, TaskLocations, Clients
  <1>2. CASE UsartEnter
    BY <1>2 DEF UsartEnter, line, rx, task, TypeOK, UsartLocations, TimLocations, TaskLocations, Clients
  <1>3. CASE UsartStore
    BY <1>3 DEF UsartStore, line, rx, task, TypeOK, UsartLocations, TimLocations, TaskLocations, Clients
  <1>4. CASE UsartCount
    BY <1>4, CounterStep, BufferAssumption DEF UsartCount, line, rx, task, TypeOK, UsartLocations, TimLocations, TaskLocations, Clients
  <1>5. CASE UsartStart
    BY <1>5 DEF UsartStart, line, rx, task, TypeOK, UsartLocations, TimLocations, TaskLocations, Clients
  <1>6. CASE UsartRestart
    BY <1>6 DEF UsartRestart, line, rx, task, TypeOK, UsartLocations, TimLocations, TaskLocations, Clients
  <1>7. CASE UsartCheck
    BY <1>7, BufferAssumption DEF UsartCheck, line, rx, task, TypeOK, UsartLocations, TimLocations, TaskLocations, Clients
  <1>8. CASE TimEnter
    BY <1>8 DEF TimEnter, line, rx, task, TypeOK, UsartLocations, TimLocations, TaskLocations, Clients
  <1>9. CASE TimTest
    BY <1>9 DEF TimTest, line, rx, task, TypeOK, UsartLocations, TimLocations, TaskLocations, Clients
  <1>10. CASE TimTick
    BY <1>10 DEF TimTick, line, rx, task, TypeOK, UsartLocations, TimLocations, TaskLocations, Clients
  <1>11. CASE TimCompare
    BY <1>11 DEF TimCompare, line, rx, task, TypeOK, UsartLocations, TimLocations, TaskLocations, Clients
  <1>12. CASE TimStop
    BY <1>12 DEF TimStop, line, rx, task, TypeOK, UsartLocations, TimLocations, TaskLocations, Clients
  <1>13. CASE TimPost
    BY <1>13 DEF TimPost, line, rx, task, TypeOK, UsartLocations, TimLocations, TaskLocations, Clients
  <1>14. CASE TaskCreate
    BY <1>14 DEF TaskCreate, line, rx, task, TypeOK, UsartLocations, TimLocations, TaskLocations, Clients
  <1>15. CASE TaskPend
    BY <1>15 DEF TaskPend, line, rx, task, TypeOK, UsartLocations, TimLocations, TaskLocations, Clients
  <1>16. CASE TaskLength
    BY <1>16 DEF TaskLength, line, rx, task, TypeOK, UsartLocations, TimLocations, TaskLocations, Clients
  <1>17. CASE TaskClear
    BY <1>17, BufferAssumption, ClientAssumption DEF TaskClear, line, rx, task, TypeOK, UsartLocations, TimLocations, TaskLocations, Clients
  <1>18. CASE TaskNext
    BY <1>18, ClientAssumption DEF TaskNext, line, rx, task, TypeOK, UsartLocations, TimLocations, TaskLocations, Clients
  <1>19. CASE TaskCopy
    <2> DEFINE grown == Append(chunk, buf[Len(chunk)])
    <2>1. taskPc = "copy" /\ cpcb \in 1 .. NumClients + 1
      BY <1>19 DEF TaskCopy, TypeOK
    <2>2. grown \in Seq(Nat) /\ Len(grown) = Len(chunk) + 1
      BY <2>1, BufferAssumption DEF TypeOK
    <2>3. CASE Len(grown) < sendCounter
      BY <1>19, <2>1, <2>2, <2>3 DEF TaskCopy, line, rx, TypeOK, TaskLocations
    <2>4. CASE ~(Len(grown) < sendCounter)
      <3>1. sent' = [sent EXCEPT ![cpcb] = Append(@, grown)] /\ chunk' = <<>>
        BY <1>19, <2>4 DEF TaskCopy
      <3>2. sent' \in [Clients -> Seq(Seq(Nat))]
        <4>1. sent \in [Clients -> Seq(Seq(Nat))] /\ cpcb \in Clients
          BY <2>1 DEF TypeOK
        <4>2. sent[cpcb] \in Seq(Seq(Nat))
          BY <4>1
        <4>3. Append(sent[cpcb], grown) \in Seq(Seq(Nat))
          BY <4>2, <2>2
        <4> HIDE DEF grown
        <4> QED
          BY <3>1, <4>1, <4>3
      <3>3. cpcb' \in 1 .. NumClients + 1
        BY <1>19, <2>1, <2>4, ClientAssumption DEF TaskCopy, TypeOK, Clients
      <3>4. chunk' \in Seq(Nat) /\ taskPc' = "next"
        BY <1>19, <2>4, <3>1 DEF TaskCopy
      <3> QED
        BY <1>19, <3>2, <3>3, <3>4 DEF TaskCopy, line, rx, TypeOK, TaskLocations
    <2> QED
      BY <2>3, <2>4
  <1>20. CASE UNCHANGED vars
    BY <1>20 DEF vars, line, rx, task, TypeOK, UsartLocations, TimLocations, TaskLocations, Clients
  <1> QED
    BY <1>1, <1>2, <1>3, <1>4, <1>5, <1>6, <1>7, <1>8, <1>9, <1>10, <1>11, <1>12, <1>13, <1>14, <1>15, <1>16, <1>17, <1>18, <1>19, <1>20 DEF Next, UsartStep, TimStep, TaskStep

\* TypeOK is an invariant of the port.
THEOREM TypeCorrect == Spec => []TypeOK
  BY TypeInit, TypeStep, PTL DEF Spec

-----------------------------------------------------------------------------
\* Whoever disarms the frame timer or lowers the semaphore is bound to make
\* the task clear the counter: NoStrandedBytes is inductive given the types.
LEMMA StrandedStep ==
  TypeOK /\ TypeOK' /\ NoStrandedBytes /\ [Next]_vars => NoStrandedBytes'
  <1> SUFFICES ASSUME TypeOK, TypeOK', NoStrandedBytes, [Next]_vars
               PROVE  NoStrandedBytes'
    OBVIOUS
  <1>1. CASE \E n \in FrameLengths : StartFrame(n)
    BY <1>1 DEF StartFrame, line, rx, task, TypeOK, NoStrandedBytes
  <1>2. CASE UsartEnter
    BY <1>2 DEF UsartEnter, line, rx, task, TypeOK, NoStrandedBytes
  <1>3. CASE UsartStore
    BY <1>3 DEF UsartStore, line, rx, task, TypeOK, NoStrandedBytes
  <1>4. CASE UsartCount
    BY <1>4 DEF UsartCount, line, rx, task, TypeOK, NoStrandedBytes
  <1>5. CASE UsartStart
    BY <1>5 DEF UsartStart, line, rx, task, TypeOK, NoStrandedBytes
  <1>6. CASE UsartRestart
    BY <1>6 DEF UsartRestart, line, rx, task, TypeOK, NoStrandedBytes
  <1>7. CASE UsartCheck
    <2>1. ~(recCounter > BufSize)
      BY BufferAssumption DEF TypeOK
    <2> QED BY <1>7, <2>1 DEF UsartCheck, line, rx, task, TypeOK, NoStrandedBytes
  <1>8. CASE TimEnter
    BY <1>8 DEF TimEnter, line, rx, task, TypeOK, NoStrandedBytes
  <1>9. CASE TimTest
    BY <1>9 DEF TimTest, line, rx, task, TypeOK, NoStrandedBytes
  <1>10. CASE TimTick
    BY <1>10 DEF TimTick, line, rx, task, TypeOK, NoStrandedBytes
  <1>11. CASE TimCompare
    BY <1>11 DEF TimCompare, line, rx, task, TypeOK, NoStrandedBytes
  <1>12. CASE TimStop
    BY <1>12 DEF TimStop, line, rx, task, TypeOK, NoStrandedBytes
  <1>13. CASE TimPost
    BY <1>13 DEF TimPost, line, rx, task, TypeOK, NoStrandedBytes
  <1>14. CASE TaskCreate
    BY <1>14 DEF TaskCreate, line, rx, task, TypeOK, NoStrandedBytes
  <1>15. CASE TaskPend
    BY <1>15 DEF TaskPend, line, rx, task, TypeOK, NoStrandedBytes
  <1>16. CASE TaskLength
    BY <1>16 DEF TaskLength, line, rx, task, TypeOK, NoStrandedBytes
  <1>17. CASE TaskClear
    BY <1>17 DEF TaskClear, line, rx, task, TypeOK, NoStrandedBytes
  <1>18. CASE TaskNext
    BY <1>18 DEF TaskNext, line, rx, task, TypeOK, NoStrandedBytes
  <1>19. CASE TaskCopy
    BY <1>19 DEF TaskCopy, line, rx, task, TypeOK, NoStrandedBytes
  <1>20. CASE UNCHANGED vars
    BY <1>20 DEF vars, line, rx, task, TypeOK, NoStrandedBytes
  <1> QED
    BY <1>1, <1>2, <1>3, <1>4, <1>5, <1>6, <1>7, <1>8, <1>9, <1>10, <1>11, <1>12, <1>13, <1>14, <1>15, <1>16, <1>17, <1>18, <1>19, <1>20 DEF Next, UsartStep, TimStep, TaskStep

\* While a byte has come in since the counter was last cleared, somebody is bound
\* to make RS232_to_TCP_task or RS485_to_TCP_task clear it again, in whatever
\* order the byte interrupt, TIM2 and the task interleave.
THEOREM NothingStranded == Spec => []NoStrandedBytes
  <1>1. Init => NoStrandedBytes
    BY DEF Init, NoStrandedBytes
  <1> QED
    BY <1>1, TypeCorrect, StrandedStep, PTL DEF Spec

-----------------------------------------------------------------------------
\* The bytes the task is working on stay fresh: a store is always newer than
\* everything, and while a byte is between its store and its count the task,
\* which an interrupt suspends, cannot clear the counter.
LEMMA FreshStep ==
  TypeOK /\ TypeOK' /\ FreshBytes /\ NoStaleBytes /\ [Next]_vars
    => FreshBytes' /\ NoStaleBytes'
  <1> SUFFICES ASSUME TypeOK, TypeOK', FreshBytes, NoStaleBytes, [Next]_vars
               PROVE  FreshBytes' /\ NoStaleBytes'
    OBVIOUS
  <1>1. CASE \E n \in FrameLengths : StartFrame(n)
    BY <1>1 DEF StartFrame, line, rx, task, TypeOK, FreshBytes, NoStaleBytes, TaskMayRun
  <1>2. CASE UsartEnter
    BY <1>2 DEF UsartEnter, line, rx, task, TypeOK, FreshBytes, NoStaleBytes, TaskMayRun
  <1>3. CASE UsartStore
    <2>1. /\ arrived > taken /\ handLo <= taken
          /\ recCounter \in 0 .. BufSize - 1 /\ sendCounter \in 0 .. CounterMod - 1
      BY <1>3 DEF UsartStore, FreshBytes, TypeOK
    <2>2. \A i \in 0 .. BufSize - 1 : buf'[i] = IF i = recCounter THEN arrived ELSE buf[i]
      BY <1>3, <2>1 DEF UsartStore, TypeOK
    <2>3. UNCHANGED <<line, recCounter, taskPc, task>> /\ usartPc' = "count"
      BY <1>3 DEF UsartStore
    <2>c. \A i \in 0 .. recCounter - 1 : i \in 0 .. BufSize - 1 /\ i # recCounter
      BY <2>1, BufferAssumption
    <2>4. \A i \in 0 .. recCounter - 1 : buf'[i] > taken
      BY <2>2, <2>c DEF FreshBytes
    <2>5. buf'[recCounter] > taken
      BY <2>1, <2>2
    <2>a. \A i \in 0 .. sendCounter - 1 : i \in 0 .. BufSize - 1
      BY <2>1, BufferAssumption
    <2>b. arrived > handLo
      BY <2>1 DEF TypeOK
    <2>6. taskPc = "clear" => \A i \in 0 .. sendCounter - 1 : buf'[i] > taken
      BY <2>1, <2>2, <2>a DEF FreshBytes
    <2>7. taskPc \in {"next", "copy"} => \A i \in 0 .. sendCounter - 1 : buf'[i] > handLo
      BY <2>b, <2>2, <2>a DEF NoStaleBytes
    <2>8. FreshBytes'
      BY <2>1, <2>3, <2>4, <2>5, <2>6 DEF FreshBytes, line, task, TypeOK
    <2>9. NoStaleBytes'
      BY <2>3, <2>7 DEF NoStaleBytes, task
    <2> QED
      BY <2>8, <2>9
  <1>4. CASE UsartCount
    <2>1. UNCHANGED <<line, buf, taskPc, task>> /\ usartPc' = "start" /\ usartPc = "count"
      BY <1>4 DEF UsartCount
    <2>2. \/ recCounter' = recCounter + 1
          \/ recCounter' = 0
      BY <1>4, CounterStep DEF UsartCount, TypeOK
    <2>a. recCounter \in Nat /\ buf' = buf /\ taken' = taken
      BY <2>1 DEF TypeOK, task
    <2>b. \A i \in 0 .. recCounter' - 1 : i \in 0 .. recCounter - 1 \/ i = recCounter
      BY <2>2, <2>a
    <2>3. \A i \in 0 .. recCounter' - 1 : buf'[i] > taken'
      BY <2>1, <2>a, <2>b DEF FreshBytes
    <2>4. FreshBytes'
      BY <2>1, <2>3 DEF FreshBytes, line, task
    <2>5. NoStaleBytes'
      BY <2>1 DEF NoStaleBytes, task
    <2> QED
      BY <2>4, <2>5
  <1>5. CASE UsartStart
    BY <1>5 DEF UsartStart, line, rx, task, TypeOK, FreshBytes, NoStaleBytes, TaskMayRun
  <1>6. CASE UsartRestart
    BY <1>6 DEF UsartRestart, line, rx, task, TypeOK, FreshBytes, NoStaleBytes, TaskMayRun
  <1>7. CASE UsartCheck
    <2>1. UNCHANGED <<line, buf, taskPc, task>> /\ usartPc' = "idle"
      BY <1>7 DEF UsartCheck
    <2>2. recCounter' \in {0, recCounter}
      BY <1>7 DEF UsartCheck
    <2>a. \A i \in 0 .. recCounter' - 1 : i \in 0 .. recCounter - 1
      <3>1. CASE recCounter' = 0
        BY <3>1
      <3>2. CASE recCounter' = recCounter
        BY <3>2
      <3> QED
        BY <2>2, <3>1, <3>2
    <2>3. \A i \in 0 .. recCounter' - 1 : buf'[i] > taken'
      BY <2>1, <2>a DEF FreshBytes, task
    <2>4. FreshBytes'
      BY <2>1, <2>3 DEF FreshBytes, line, task
    <2>5. NoStaleBytes'
      BY <2>1 DEF NoStaleBytes, task
    <2> QED
      BY <2>4, <2>5
  <1>8. CASE TimEnter
    BY <1>8 DEF TimEnter, line, rx, task, TypeOK, FreshBytes, NoStaleBytes, TaskMayRun
  <1>9. CASE TimTest
    BY <1>9 DEF TimTest, line, rx, task, TypeOK, FreshBytes, NoStaleBytes, TaskMayRun
  <1>10. CASE TimTick
    BY <1>10 DEF TimTick, line, rx, task, TypeOK, FreshBytes, NoStaleBytes, TaskMayRun
  <1>11. CASE TimCompare
    BY <1>11 DEF TimCompare, line, rx, task, TypeOK, FreshBytes, NoStaleBytes, TaskMayRun
  <1>12. CASE TimStop
    BY <1>12 DEF TimStop, line, rx, task, TypeOK, FreshBytes, NoStaleBytes, TaskMayRun
  <1>13. CASE TimPost
    BY <1>13 DEF TimPost, line, rx, task, TypeOK, FreshBytes, NoStaleBytes, TaskMayRun
  <1>14. CASE TaskCreate
    BY <1>14 DEF TaskCreate, line, rx, task, TypeOK, FreshBytes, NoStaleBytes, TaskMayRun
  <1>15. CASE TaskPend
    BY <1>15 DEF TaskPend, line, rx, task, TypeOK, FreshBytes, NoStaleBytes, TaskMayRun
  <1>16. CASE TaskLength
    BY <1>16 DEF TaskLength, line, rx, task, TypeOK, FreshBytes, NoStaleBytes, TaskMayRun
  <1>17. CASE TaskClear
    BY <1>17 DEF TaskClear, line, rx, task, TypeOK, FreshBytes, NoStaleBytes, TaskMayRun
  <1>18. CASE TaskNext
    BY <1>18 DEF TaskNext, line, rx, task, TypeOK, FreshBytes, NoStaleBytes, TaskMayRun
  <1>19. CASE TaskCopy
    <2> DEFINE grown == Append(chunk, buf[Len(chunk)])
    <2>1. /\ UNCHANGED <<line, rx, usartPc, sendCounter, taken, handLo>>
          /\ taskPc = "copy" /\ Len(chunk) < sendCounter /\ chunk \in Seq(Nat)
          /\ taskPc' \in {"copy", "next"}
          /\ (chunk' = grown /\ taskPc' = taskPc) \/ chunk' = <<>>
      BY <1>19 DEF TaskCopy, TypeOK
    <2>a. Len(chunk) \in 0 .. sendCounter - 1
      <3>1. Len(chunk) \in Nat
        BY <2>1
      <3>2. sendCounter \in Nat
        BY DEF TypeOK
      <3> QED
        BY <2>1, <3>1, <3>2
    <2>2. buf[Len(chunk)] > handLo
      BY <2>1, <2>a DEF NoStaleBytes
    <2>3. \A i \in 1 .. Len(grown) : grown[i] > handLo
      BY <2>1, <2>2 DEF NoStaleBytes
    <2>4. \A i \in 1 .. Len(chunk') : chunk'[i] > handLo
      BY <2>1, <2>3
    <2>5. taskPc' # "copy" => chunk' = <<>>
      BY <2>1
    <2>6. FreshBytes'
      BY <2>1, <2>5 DEF FreshBytes, line, rx
    <2>7. NoStaleBytes'
      BY <2>1, <2>4 DEF NoStaleBytes, rx
    <2> QED
      BY <2>6, <2>7
  <1>20. CASE UNCHANGED vars
    BY <1>20 DEF vars, line, rx, task, TypeOK, FreshBytes, NoStaleBytes, TaskMayRun
  <1> QED
    BY <1>1, <1>2, <1>3, <1>4, <1>5, <1>6, <1>7, <1>8, <1>9, <1>10, <1>11, <1>12, <1>13, <1>14, <1>15, <1>16, <1>17, <1>18, <1>19, <1>20 DEF Next, UsartStep, TimStep, TaskStep

\* What the task hands to tcp_write arrived after the frame before was taken.
THEOREM NothingStale == Spec => []NoStaleBytes
  <1>1. Init => FreshBytes /\ NoStaleBytes
    BY DEF Init, FreshBytes, NoStaleBytes
  <1> QED
    BY <1>1, TypeCorrect, FreshStep, PTL DEF Spec
-----------------------------------------------------------------------------
(* The refinement of FrameRelay, for a device that paces itself and an      *)
(* USART that outranks TIM2.                                                *)

\* What a self-paced device does is among what any device does.
LEMMA PacedIsNext == [PacedNext]_vars => [Next]_vars
  BY DEF PacedNext, Next

\* The steps of a self-paced device, by name.
LEMMA PacedActions ==
  ASSUME [PacedNext]_vars
  PROVE  \/ \E n \in FrameLengths : Quiet /\ StartFrame(n)
         \/ UsartEnter \/ UsartStore \/ UsartCount \/ UsartStart
         \/ UsartRestart \/ UsartCheck
         \/ toGo = 0 /\ TimEnter
         \/ TimTest \/ TimTick \/ TimCompare \/ TimStop \/ TimPost
         \/ TaskCreate \/ TaskPend \/ TaskLength \/ TaskClear
         \/ TaskNext \/ TaskCopy
         \/ UNCHANGED vars
  BY DEF PacedNext, UsartStep, TimStep, TaskStep

\* The increment of a counter that is not full.
LEMMA NoWrap ==
  ASSUME NEW n \in 0 .. CounterMod - 1, n + 1 < CounterMod
  PROVE  (n + 1) % CounterMod = n + 1
  BY BufferAssumption, Z3

\* The counting: a frame that fits does not wrap the counter.
LEMMA PacedCountStep ==
  ASSUME UsartOutranks, FramesFit, TypeOK, NoStrandedBytes, PacedCount, PacedTurns, [PacedNext]_vars
  PROVE  PacedCount'

  <1>1. CASE \E n \in FrameLengths : Quiet /\ StartFrame(n)
    BY <1>1, LineAssumption, BufferAssumption DEF NoStrandedBytes, Quiet, StartFrame, FramesFit, line, rx, task, TypeOK, PacedCount, PacedTurns, TaskMayRun, UsartMayRun, TimMayRun
  <1>2. CASE UsartEnter
    BY <1>2 DEF UsartEnter, line, rx, task, TypeOK, PacedCount, PacedTurns, TaskMayRun, UsartMayRun, TimMayRun
  <1>3. CASE UsartStore
    BY <1>3 DEF UsartStore, line, rx, task, TypeOK, PacedCount, PacedTurns, TaskMayRun, UsartMayRun, TimMayRun
  <1>4. CASE UsartCount
    <2>1. recCounter + 1 < CounterMod /\ recCounter \in 0 .. CounterMod - 1
      BY <1>4, BufferAssumption DEF UsartCount, TypeOK, PacedCount
    <2>2. (recCounter + 1) % CounterMod = recCounter + 1
      BY <2>1, NoWrap
    <2>3. recCounter' = recCounter + 1
      BY <1>4, <2>2 DEF UsartCount
    <2>4. /\ usartPc = "count" /\ usartPc' = "start"
          /\ UNCHANGED <<line, buf, startTime, timeCounter, timPc, sem, taskPc, task>>
      BY <1>4 DEF UsartCount
    <2> QED
      BY <2>1, <2>3, <2>4, BufferAssumption DEF line, rx, task, TypeOK, PacedCount, PacedTurns, TaskMayRun, UsartMayRun, TimMayRun
  <1>5. CASE UsartStart
    BY <1>5 DEF UsartStart, line, rx, task, TypeOK, PacedCount, PacedTurns, TaskMayRun, UsartMayRun, TimMayRun
  <1>6. CASE UsartRestart
    BY <1>6 DEF UsartRestart, line, rx, task, TypeOK, PacedCount, PacedTurns, TaskMayRun, UsartMayRun, TimMayRun
  <1>7. CASE UsartCheck
    <2>1. ~(recCounter > BufSize)
      BY BufferAssumption DEF TypeOK
    <2>2. UNCHANGED <<recCounter, startTime>>
      BY <1>7, <2>1 DEF UsartCheck
    <2> QED
      BY <1>7, <2>2 DEF UsartCheck, line, rx, task, TypeOK, PacedCount, PacedTurns, TaskMayRun, UsartMayRun, TimMayRun
  <1>8. CASE toGo = 0 /\ TimEnter
    BY <1>8 DEF TimEnter, line, rx, task, TypeOK, PacedCount, PacedTurns, TaskMayRun, UsartMayRun, TimMayRun
  <1>9. CASE TimTest
    BY <1>9 DEF TimTest, line, rx, task, TypeOK, PacedCount, PacedTurns, TaskMayRun, UsartMayRun, TimMayRun
  <1>10. CASE TimTick
    BY <1>10 DEF TimTick, line, rx, task, TypeOK, PacedCount, PacedTurns, TaskMayRun, UsartMayRun, TimMayRun
  <1>11. CASE TimCompare
    BY <1>11 DEF TimCompare, line, rx, task, TypeOK, PacedCount, PacedTurns, TaskMayRun, UsartMayRun, TimMayRun
  <1>12. CASE TimStop
    BY <1>12 DEF TimStop, line, rx, task, TypeOK, PacedCount, PacedTurns, TaskMayRun, UsartMayRun, TimMayRun
  <1>13. CASE TimPost
    BY <1>13 DEF TimPost, line, rx, task, TypeOK, PacedCount, PacedTurns, TaskMayRun, UsartMayRun, TimMayRun
  <1>14. CASE TaskCreate
    BY <1>14 DEF TaskCreate, line, rx, task, TypeOK, PacedCount, PacedTurns, TaskMayRun, UsartMayRun, TimMayRun
  <1>15. CASE TaskPend
    BY <1>15 DEF TaskPend, line, rx, task, TypeOK, PacedCount, PacedTurns, TaskMayRun, UsartMayRun, TimMayRun
  <1>16. CASE TaskLength
    BY <1>16 DEF TaskLength, line, rx, task, TypeOK, PacedCount, PacedTurns, TaskMayRun, UsartMayRun, TimMayRun
  <1>17. CASE TaskClear
    BY <1>17, BufferAssumption DEF TaskClear, line, rx, task, TypeOK, PacedCount, PacedTurns, TaskMayRun, UsartMayRun, TimMayRun
  <1>18. CASE TaskNext
    BY <1>18 DEF TaskNext, line, rx, task, TypeOK, PacedCount, PacedTurns, TaskMayRun, UsartMayRun, TimMayRun
  <1>19. CASE TaskCopy
    BY <1>19 DEF TaskCopy, line, rx, task, TypeOK, PacedCount, PacedTurns, TaskMayRun, UsartMayRun, TimMayRun
  <1>20. CASE UNCHANGED vars
    BY <1>20 DEF vars, line, rx, task, TypeOK, PacedCount, PacedTurns, TaskMayRun, UsartMayRun, TimMayRun
  <1> QED
    BY PacedActions, <1>1, <1>2, <1>3, <1>4, <1>5, <1>6, <1>7, <1>8, <1>9, <1>10, <1>11, <1>12, <1>13, <1>14, <1>15, <1>16, <1>17, <1>18, <1>19, <1>20


\* The turns: the task, the USART and TIM2 follow one another.
LEMMA PacedTurnsStep ==
  ASSUME UsartOutranks, FramesFit, TypeOK, NoStrandedBytes, PacedCount, PacedTurns, [PacedNext]_vars
  PROVE  PacedTurns'

  <1>1. CASE \E n \in FrameLengths : Quiet /\ StartFrame(n)
    BY <1>1, LineAssumption, BufferAssumption DEF NoStrandedBytes, Quiet, StartFrame, FramesFit, line, rx, task, TypeOK, PacedCount, PacedTurns, TaskMayRun, UsartMayRun, TimMayRun
  <1>2. CASE UsartEnter
    BY <1>2 DEF UsartEnter, line, rx, task, TypeOK, PacedCount, PacedTurns, TaskMayRun, UsartMayRun, TimMayRun
  <1>3. CASE UsartStore
    BY <1>3 DEF UsartStore, line, rx, task, TypeOK, PacedCount, PacedTurns, TaskMayRun, UsartMayRun, TimMayRun
  <1>4. CASE UsartCount
    <2>1. recCounter + 1 < CounterMod /\ recCounter \in 0 .. CounterMod - 1
      BY <1>4, BufferAssumption DEF UsartCount, TypeOK, PacedCount
    <2>2. (recCounter + 1) % CounterMod = recCounter + 1
      BY <2>1, NoWrap
    <2>3. recCounter' = recCounter + 1
      BY <1>4, <2>2 DEF UsartCount
    <2>4. /\ usartPc = "count" /\ usartPc' = "start"
          /\ UNCHANGED <<line, buf, startTime, timeCounter, timPc, sem, taskPc, task>>
      BY <1>4 DEF UsartCount
    <2> QED
      BY <2>1, <2>3, <2>4, BufferAssumption DEF line, rx, task, TypeOK, PacedCount, PacedTurns, TaskMayRun, UsartMayRun, TimMayRun
  <1>5. CASE UsartStart
    BY <1>5 DEF UsartStart, line, rx, task, TypeOK, PacedCount, PacedTurns, TaskMayRun, UsartMayRun, TimMayRun
  <1>6. CASE UsartRestart
    BY <1>6 DEF UsartRestart, line, rx, task, TypeOK, PacedCount, PacedTurns, TaskMayRun, UsartMayRun, TimMayRun
  <1>7. CASE UsartCheck
    <2>1. ~(recCounter > BufSize)
      BY BufferAssumption DEF TypeOK
    <2>2. UNCHANGED <<recCounter, startTime>>
      BY <1>7, <2>1 DEF UsartCheck
    <2> QED
      BY <1>7, <2>2 DEF UsartCheck, line, rx, task, TypeOK, PacedCount, PacedTurns, TaskMayRun, UsartMayRun, TimMayRun
  <1>8. CASE toGo = 0 /\ TimEnter
    BY <1>8 DEF TimEnter, line, rx, task, TypeOK, PacedCount, PacedTurns, TaskMayRun, UsartMayRun, TimMayRun
  <1>9. CASE TimTest
    BY <1>9 DEF TimTest, line, rx, task, TypeOK, PacedCount, PacedTurns, TaskMayRun, UsartMayRun, TimMayRun
  <1>10. CASE TimTick
    BY <1>10 DEF TimTick, line, rx, task, TypeOK, PacedCount, PacedTurns, TaskMayRun, UsartMayRun, TimMayRun
  <1>11. CASE TimCompare
    BY <1>11 DEF TimCompare, line, rx, task, TypeOK, PacedCount, PacedTurns, TaskMayRun, UsartMayRun, TimMayRun
  <1>12. CASE TimStop
    BY <1>12 DEF TimStop, line, rx, task, TypeOK, PacedCount, PacedTurns, TaskMayRun, UsartMayRun, TimMayRun
  <1>13. CASE TimPost
    BY <1>13 DEF TimPost, line, rx, task, TypeOK, PacedCount, PacedTurns, TaskMayRun, UsartMayRun, TimMayRun
  <1>14. CASE TaskCreate
    BY <1>14 DEF TaskCreate, line, rx, task, TypeOK, PacedCount, PacedTurns, TaskMayRun, UsartMayRun, TimMayRun
  <1>15. CASE TaskPend
    BY <1>15 DEF TaskPend, line, rx, task, TypeOK, PacedCount, PacedTurns, TaskMayRun, UsartMayRun, TimMayRun
  <1>16. CASE TaskLength
    BY <1>16 DEF TaskLength, line, rx, task, TypeOK, PacedCount, PacedTurns, TaskMayRun, UsartMayRun, TimMayRun
  <1>17. CASE TaskClear
    BY <1>17, BufferAssumption DEF TaskClear, line, rx, task, TypeOK, PacedCount, PacedTurns, TaskMayRun, UsartMayRun, TimMayRun
  <1>18. CASE TaskNext
    BY <1>18 DEF TaskNext, line, rx, task, TypeOK, PacedCount, PacedTurns, TaskMayRun, UsartMayRun, TimMayRun
  <1>19. CASE TaskCopy
    BY <1>19 DEF TaskCopy, line, rx, task, TypeOK, PacedCount, PacedTurns, TaskMayRun, UsartMayRun, TimMayRun
  <1>20. CASE UNCHANGED vars
    BY <1>20 DEF vars, line, rx, task, TypeOK, PacedCount, PacedTurns, TaskMayRun, UsartMayRun, TimMayRun
  <1> QED
    BY PacedActions, <1>1, <1>2, <1>3, <1>4, <1>5, <1>6, <1>7, <1>8, <1>9, <1>10, <1>11, <1>12, <1>13, <1>14, <1>15, <1>16, <1>17, <1>18, <1>19, <1>20


\* The bytes: each is stored behind the one before.
LEMMA PacedBytesStep ==
  ASSUME UsartOutranks, FramesFit, TypeOK, NoStrandedBytes, PacedCount, PacedTurns, PacedBytes,
         PacedCount', PacedTurns', [PacedNext]_vars
  PROVE  PacedBytes'

  <1>1. CASE \E n \in FrameLengths : Quiet /\ StartFrame(n)
    BY <1>1 DEF StartFrame, rx, task, PacedBytes
  <1>2. CASE UsartEnter
    BY <1>2 DEF UsartEnter, line, rx, task, TypeOK, PacedCount, PacedTurns, PacedBytes, TaskMayRun, UsartMayRun, TimMayRun
  <1>3. CASE UsartStore
    BY <1>3, BufferAssumption DEF UsartStore, line, rx, task, TypeOK, PacedCount, PacedTurns, PacedBytes, TaskMayRun, UsartMayRun, TimMayRun
  <1>4. CASE UsartCount
    <2>1. recCounter + 1 < CounterMod /\ recCounter \in 0 .. CounterMod - 1
      BY <1>4, BufferAssumption DEF UsartCount, TypeOK, PacedCount
    <2>2. (recCounter + 1) % CounterMod = recCounter + 1
      BY <2>1, NoWrap
    <2>3. recCounter' = recCounter + 1
      BY <1>4, <2>2 DEF UsartCount
    <2>4. /\ usartPc = "count" /\ usartPc' = "start"
          /\ UNCHANGED <<line, buf, startTime, timeCounter, timPc, sem, taskPc, task>>
      BY <1>4 DEF UsartCount
    <2>5. \A i \in 0 .. recCounter' - 1 : i \in 0 .. recCounter - 1 \/ i = recCounter
      BY <2>1, <2>3
    <2>6. buf[recCounter] = taken + recCounter + 1
      BY <2>4 DEF PacedBytes, PacedCount, TypeOK
    <2>7. \A i \in 0 .. recCounter' - 1 : buf'[i] = taken' + i + 1
      BY <2>4, <2>5, <2>6 DEF PacedBytes, task, rx
    <2>8. UNCHANGED <<sendCounter, chunk, handLo>> /\ taskPc \notin {"next", "copy"}
      BY <2>4, <1>4 DEF PacedTurns, task, UsartCount
    <2> QED
      BY <2>4, <2>7, <2>8 DEF PacedBytes, rx, line, task
  <1>5. CASE UsartStart
    BY <1>5 DEF UsartStart, line, rx, task, TypeOK, PacedCount, PacedTurns, PacedBytes, TaskMayRun, UsartMayRun, TimMayRun
  <1>6. CASE UsartRestart
    BY <1>6 DEF UsartRestart, line, rx, task, TypeOK, PacedCount, PacedTurns, PacedBytes, TaskMayRun, UsartMayRun, TimMayRun
  <1>7. CASE UsartCheck
    <2>1. ~(recCounter > BufSize)
      BY BufferAssumption DEF TypeOK
    <2>2. UNCHANGED <<recCounter, startTime>>
      BY <1>7, <2>1 DEF UsartCheck
    <2> QED
      BY <1>7, <2>2 DEF UsartCheck, line, rx, task, TypeOK, PacedCount, PacedTurns, PacedBytes, TaskMayRun, UsartMayRun, TimMayRun
  <1>8. CASE toGo = 0 /\ TimEnter
    BY <1>8 DEF TimEnter, line, rx, task, TypeOK, PacedCount, PacedTurns, PacedBytes, TaskMayRun, UsartMayRun, TimMayRun
  <1>9. CASE TimTest
    BY <1>9 DEF TimTest, line, rx, task, TypeOK, PacedCount, PacedTurns, PacedBytes, TaskMayRun, UsartMayRun, TimMayRun
  <1>10. CASE TimTick
    BY <1>10 DEF TimTick, line, rx, task, TypeOK, PacedCount, PacedTurns, PacedBytes, TaskMayRun, UsartMayRun, TimMayRun
  <1>11. CASE TimCompare
    BY <1>11 DEF TimCompare, line, rx, task, TypeOK, PacedCount, PacedTurns, PacedBytes, TaskMayRun, UsartMayRun, TimMayRun
  <1>12. CASE TimStop
    BY <1>12 DEF TimStop, line, rx, task, TypeOK, PacedCount, PacedTurns, PacedBytes, TaskMayRun, UsartMayRun, TimMayRun
  <1>13. CASE TimPost
    BY <1>13 DEF TimPost, line, rx, task, TypeOK, PacedCount, PacedTurns, PacedBytes, TaskMayRun, UsartMayRun, TimMayRun
  <1>14. CASE TaskCreate
    BY <1>14 DEF TaskCreate, line, rx, task, TypeOK, PacedCount, PacedTurns, PacedBytes, TaskMayRun, UsartMayRun, TimMayRun
  <1>15. CASE TaskPend
    BY <1>15 DEF TaskPend, line, rx, task, TypeOK, PacedCount, PacedTurns, PacedBytes, TaskMayRun, UsartMayRun, TimMayRun
  <1>16. CASE TaskLength
    BY <1>16 DEF TaskLength, line, rx, task, TypeOK, PacedCount, PacedTurns, PacedBytes, TaskMayRun, UsartMayRun, TimMayRun
  <1>17. CASE TaskClear
    BY <1>17, BufferAssumption DEF TaskClear, line, rx, task, TypeOK, PacedCount, PacedTurns, PacedBytes, TaskMayRun, UsartMayRun, TimMayRun
  <1>18. CASE TaskNext
    BY <1>18 DEF TaskNext, line, rx, task, TypeOK, PacedCount, PacedTurns, PacedBytes, TaskMayRun, UsartMayRun, TimMayRun
  <1>19. CASE TaskCopy
    <2> DEFINE grown == Append(chunk, buf[Len(chunk)])
    <2>1. /\ Len(chunk) \in 0 .. sendCounter - 1 /\ chunk \in Seq(Nat)
          /\ Len(chunk) \in 0 .. BufSize - 1
      BY <1>19, BufferAssumption DEF TaskCopy, TypeOK
    <2>2. buf[Len(chunk)] = handLo + Len(chunk) + 1 /\ buf[Len(chunk)] \in Nat
      BY <1>19, <2>1 DEF TaskCopy, PacedBytes, TypeOK
    <2>3. /\ Len(grown) = Len(chunk) + 1
          /\ \A i \in 1 .. Len(grown) : grown[i] = IF i = Len(grown) THEN buf[Len(chunk)] ELSE chunk[i]
      BY <2>1, <2>2
    <2> HIDE DEF grown
    <2>4. ASSUME NEW i \in 1 .. Len(grown) PROVE grown[i] = handLo + i
      <3>1. CASE i = Len(grown)
        BY <2>1, <2>2, <2>3, <3>1 DEF TypeOK
      <3>2. CASE i # Len(grown)
        <4>1. i \in 1 .. Len(chunk)
          BY <2>1, <2>3, <3>2
        <4> QED
          BY <2>3, <3>2, <4>1 DEF PacedBytes
      <3> QED
        BY <3>1, <3>2
    <2>5. /\ chunk' \in {grown, <<>>}
          /\ taskPc = "copy" /\ taskPc' \in {"copy", "next"}
          /\ UNCHANGED <<line, rx, usartPc, timPc, sem, sendCounter, taken, handLo>>
      BY <1>19 DEF TaskCopy, grown
    <2>6. \A i \in 1 .. Len(chunk') : chunk'[i] = handLo + i
      BY <2>4, <2>5
    <2>7. taskPc' # "copy" => chunk' = <<>>
      BY <1>19 DEF TaskCopy
    <2>8. UNCHANGED <<buf, recCounter, arrived, sendCounter, taken, handLo, usartPc>>
      BY <2>5 DEF rx, line
    <2> QED
      BY <2>5, <2>6, <2>7, <2>8 DEF PacedBytes
  <1>20. CASE UNCHANGED vars
    BY <1>20 DEF vars, line, rx, task, TypeOK, PacedCount, PacedTurns, PacedBytes, TaskMayRun, UsartMayRun, TimMayRun
  <1> QED
    BY PacedActions, <1>1, <1>2, <1>3, <1>4, <1>5, <1>6, <1>7, <1>8, <1>9, <1>10, <1>11, <1>12, <1>13, <1>14, <1>15, <1>16, <1>17, <1>18, <1>19, <1>20

-----------------------------------------------------------------------------
\* A frame is the bytes between two clearings of the counter.
LEMMA BytesNone ==
  ASSUME NEW lo \in Nat
  PROVE  Bytes(lo, lo) = <<>>
  BY DEF Bytes

LEMMA BytesSome ==
  ASSUME NEW lo \in Nat, NEW hi \in Nat, lo < hi
  PROVE  Bytes(lo, hi) # <<>>
  BY DEF Bytes

LEMMA BytesMore ==
  ASSUME NEW lo \in Nat, NEW hi \in Nat, lo <= hi
  PROVE  Bytes(lo, hi + 1) = Append(Bytes(lo, hi), hi + 1)
  BY DEF Bytes

\* A chunk of that length that counts up from there is the frame.
LEMMA BytesCopied ==
  ASSUME NEW lo \in Nat, NEW hi \in Nat, lo <= hi, NEW s \in Seq(Nat),
         Len(s) = hi - lo, \A i \in 1 .. Len(s) : s[i] = lo + i
  PROVE  s = Bytes(lo, hi)
  BY DEF Bytes

\* The steps that the relay does not see.
LEMMA RelayStutters ==
  ASSUME UNCHANGED <<toGo, arrived, taken, handLo, sent>>, Todo' = Todo
  PROVE  UNCHANGED Relay!vars
  BY DEF Relay!vars, Bytes

\* While the task is not walking there is nothing to offer.
LEMMA NothingTodo ==
  /\ taskPc \notin {"next", "copy"} => Todo = {}
  /\ taskPc' \notin {"next", "copy"} => Todo' = {}
  /\ UNCHANGED <<taskPc, sendCounter, cpcb>> => Todo' = Todo
  BY DEF Todo

\* The quiet gateway has collected everything, and a frame may start.
LEMMA RelayStart ==
  ASSUME TypeOK, NoStrandedBytes, PacedCount, PacedTurns,
         NEW n \in FrameLengths, Quiet, StartFrame(n)
  PROVE  Relay!StartFrame(n)
  <1>1. recCounter = 0
    <2>1. ~(arrived > taken)
      BY DEF Quiet, NoStrandedBytes, PacedTurns, TypeOK
    <2> QED BY <2>1 DEF Quiet, PacedCount, TypeOK
  <1>2. arrived = taken /\ taken \in Nat
    BY <1>1 DEF Quiet, PacedCount, TypeOK
  <1>3. Bytes(taken, arrived) = <<>>
    BY <1>2, BytesNone
  <1>4. Todo = {} /\ Todo' = Todo
    BY NothingTodo DEF Quiet, StartFrame, task
  <1>5. /\ toGo = 0 /\ arrived + n <= MaxBytes /\ toGo' = n
        /\ UNCHANGED <<arrived, taken, handLo, sent>>
    BY DEF StartFrame, task
  <1> QED
    BY <1>3, <1>4, <1>5 DEF Relay!StartFrame, Bytes

\* A byte in the data register is the next of the frame.
LEMMA RelayReceive ==
  ASSUME TypeOK, PacedCount, UsartEnter
  PROVE  Relay!Receive
  <1>1. /\ toGo > 0 /\ toGo' = toGo - 1 /\ arrived' = arrived + 1
        /\ UNCHANGED <<taken, handLo, sent, taskPc, sendCounter, cpcb>>
    BY DEF UsartEnter, task
  <1>2. taken \in Nat /\ arrived \in Nat /\ taken <= arrived
    BY DEF TypeOK, PacedCount
  <1>3. Bytes(taken, arrived)' = Append(Bytes(taken, arrived), arrived + 1)
    <2>1. Bytes(taken, arrived + 1) = Append(Bytes(taken, arrived), arrived + 1)
      BY <1>2, BytesMore
    <2> QED
      BY <1>1, <2>1 DEF Bytes
  <1>4. Bytes(handLo, taken)' = Bytes(handLo, taken)
    BY <1>1 DEF Bytes
  <1>5. Todo' = Todo
    BY <1>1, NothingTodo
  <1> QED
    BY <1>1, <1>3, <1>4, <1>5 DEF Relay!Receive

\* Clearing the counter takes the frame in hand, unless there is none: the
\* semaphore's first count lets the task through before any byte arrives.
LEMMA RelayTake ==
  ASSUME TypeOK, PacedCount, PacedTurns, TaskClear
  PROVE  Relay!Take \/ UNCHANGED Relay!vars
  <1>1. /\ taskPc = "clear" /\ taskPc' = "next" /\ cpcb' = 1
        /\ taken' = arrived /\ handLo' = taken
        /\ UNCHANGED <<toGo, arrived, sent, sendCounter>>
    BY DEF TaskClear, line
  <1>2. /\ toGo = 0 /\ arrived = taken + recCounter /\ sendCounter = recCounter
        /\ taken \in Nat /\ arrived \in Nat /\ recCounter \in Nat
        /\ recCounter > 0 \/ handLo = taken
    BY <1>1 DEF PacedCount, PacedTurns, TypeOK
  <1>3. CASE recCounter = 0
    <2>1. Todo' = {} /\ Todo = {}
      BY <1>1, <1>2, <1>3 DEF Todo
    <2>2. UNCHANGED <<toGo, arrived, taken, handLo, sent>>
      BY <1>1, <1>2, <1>3
    <2> QED
      BY <2>1, <2>2, RelayStutters
  <1>4. CASE recCounter > 0
    <2>1. Todo = {} /\ Todo' = 1 .. NumClients
      BY <1>1, <1>2, <1>4 DEF Todo
    <2>2. Bytes(taken, arrived) # <<>>
      BY <1>2, <1>4, BytesSome
    <2>3. Bytes(taken, arrived)' = <<>>
      <3>1. Bytes(arrived, arrived) = <<>>
        BY <1>2, BytesNone
      <3> QED
        BY <1>1, <3>1 DEF Bytes
    <2>4. Bytes(handLo, taken)' = Bytes(taken, arrived)
      BY <1>1 DEF Bytes
    <2> QED
      BY <1>1, <1>2, <2>1, <2>2, <2>3, <2>4 DEF Relay!Take, Relay!Clients
  <1> QED
    BY <1>2, <1>3, <1>4

\* The walk offers the frame to one connection after the other; with nothing
\* in hand it offers nothing.
LEMMA RelaySkip ==
  ASSUME TypeOK, TaskNext
  PROVE  (\E c \in Clients : Relay!Offer(c)) \/ UNCHANGED Relay!vars
  <1>1. taskPc = "next" /\ UNCHANGED <<toGo, arrived, sendCounter, sent, taken, handLo>>
    BY DEF TaskNext, line
  <1>2. cpcb \in 1 .. NumClients + 1 /\ sendCounter \in Nat
    BY DEF TypeOK
  <1>3. CASE cpcb > NumClients /\ taskPc' = "pend" /\ UNCHANGED cpcb
    <2>1. Todo' = Todo
      BY <1>1, <1>2, <1>3, ClientAssumption DEF Todo
    <2> QED
      BY <1>1, <2>1, RelayStutters
  <1>4. CASE cpcb <= NumClients /\ cpcb' = cpcb + 1 /\ UNCHANGED taskPc
    <2>1. CASE sendCounter > 0
      <3>1. cpcb \in Todo /\ Todo' = Todo \ {cpcb} /\ cpcb \in Clients
        BY <1>1, <1>2, <1>4, <2>1, ClientAssumption DEF Todo, Clients
      <3>2. Bytes(taken, arrived)' = Bytes(taken, arrived) /\ Bytes(handLo, taken)' = Bytes(handLo, taken)
        BY <1>1 DEF Bytes
      <3> QED
        BY <1>1, <3>1, <3>2 DEF Relay!Offer
    <2>2. CASE ~(sendCounter > 0)
      <3>1. Todo' = Todo
        BY <1>1, <2>2 DEF Todo
      <3> QED
        BY <1>1, <3>1, RelayStutters
    <2> QED
      BY <2>1, <2>2
  <1>5. CASE cpcb <= NumClients /\ sendCounter > 0 /\ taskPc' = "copy" /\ UNCHANGED cpcb
    <2>1. Todo' = Todo
      BY <1>1, <1>5 DEF Todo
    <2> QED
      BY <1>1, <2>1, RelayStutters
  <1> QED
    BY <1>3, <1>4, <1>5 DEF TaskNext

\* The chunk that is queued is the frame, whole.
LEMMA RelayCopy ==
  ASSUME TypeOK, PacedCount, PacedTurns, PacedBytes, TaskCopy
  PROVE  (\E c \in Clients : Relay!Offer(c)) \/ UNCHANGED Relay!vars
  <1> DEFINE grown == Append(chunk, buf[Len(chunk)])
  <1>1. taskPc = "copy" /\ UNCHANGED <<toGo, arrived, sendCounter, taken, handLo>>
    BY DEF TaskCopy, line
  <1>2. /\ chunk \in Seq(Nat) /\ Len(chunk) \in Nat /\ Len(chunk) < sendCounter
        /\ sendCounter \in Nat /\ sendCounter < BufSize
        /\ sendCounter = taken - handLo /\ handLo <= taken
        /\ taken \in Nat /\ handLo \in Nat /\ cpcb \in Clients
        /\ sent \in [Clients -> Seq(Seq(Nat))]
    BY <1>1, BufferAssumption DEF TypeOK, PacedCount, PacedTurns
  <1>3. buf[Len(chunk)] = handLo + Len(chunk) + 1 /\ buf[Len(chunk)] \in Nat
    BY <1>1, <1>2 DEF PacedBytes, TypeOK
  <1>4. /\ Len(grown) = Len(chunk) + 1 /\ grown \in Seq(Nat)
        /\ \A i \in 1 .. Len(grown) : grown[i] = IF i = Len(grown) THEN buf[Len(chunk)] ELSE chunk[i]
    BY <1>2, <1>3
  <1>5. \/ Len(grown) < sendCounter /\ UNCHANGED <<sent, cpcb, taskPc>>
        \/ /\ ~(Len(grown) < sendCounter)
           /\ sent' = [sent EXCEPT ![cpcb] = Append(sent[cpcb], grown)]
           /\ cpcb' = cpcb + 1 /\ taskPc' = "next"
    BY DEF TaskCopy
  <1> HIDE DEF grown
  <1>6. \A i \in 1 .. Len(grown) : grown[i] = handLo + i
    <2> SUFFICES ASSUME NEW i \in 1 .. Len(grown) PROVE grown[i] = handLo + i
      OBVIOUS
    <2>1. CASE i = Len(grown)
      BY <1>2, <1>3, <1>4, <2>1
    <2>2. CASE i # Len(grown)
      <3>1. i \in 1 .. Len(chunk)
        BY <1>2, <1>4, <2>2
      <3> QED
        BY <1>4, <2>2, <3>1 DEF PacedBytes
    <2> QED
      BY <2>1, <2>2
  <1>7. CASE Len(grown) < sendCounter /\ UNCHANGED <<sent, cpcb, taskPc>>
    BY <1>1, <1>7, NothingTodo, RelayStutters
  <1>8. CASE /\ ~(Len(grown) < sendCounter)
             /\ sent' = [sent EXCEPT ![cpcb] = Append(sent[cpcb], grown)]
             /\ cpcb' = cpcb + 1 /\ taskPc' = "next"
    <2>1. Len(grown) = taken - handLo
      <3>1. Len(grown) = sendCounter
        <4>1. /\ Len(grown) = Len(chunk) + 1 /\ Len(chunk) < sendCounter
              /\ Len(chunk) \in Nat /\ sendCounter \in Nat
              /\ ~(Len(grown) < sendCounter)
          BY <1>2, <1>4, <1>8
        <4> QED
          BY ONLY <4>1
      <3> QED
        BY <1>2, <3>1
    <2>2. grown = Bytes(handLo, taken)
      BY <1>2, <1>4, <1>6, <2>1, BytesCopied
    <2>3. cpcb \in Todo /\ Todo' = Todo \ {cpcb}
      BY <1>1, <1>2, <1>8, ClientAssumption DEF Todo, Clients
    <2>4. Bytes(taken, arrived)' = Bytes(taken, arrived) /\ Bytes(handLo, taken)' = Bytes(handLo, taken)
      BY <1>1 DEF Bytes
    <2>5. Relay!Offer(cpcb)
      BY <1>1, <1>8, <2>2, <2>3, <2>4 DEF Relay!Offer
    <2> QED
      BY <1>2, <2>5
  <1> QED
    BY <1>5, <1>7, <1>8

\* Every step of the port is a step of the relay, or one it does not see.
LEMMA RelayStep ==
  ASSUME TypeOK, NoStrandedBytes, PacedInv, [PacedNext]_vars
  PROVE  [Relay!Next]_(Relay!vars)
  <1>1. CASE \E n \in FrameLengths : Quiet /\ StartFrame(n)
    BY <1>1, RelayStart DEF PacedInv, Relay!Next
  <1>2. CASE UsartEnter
    BY <1>2, RelayReceive DEF PacedInv, Relay!Next
  <1>3. CASE UsartStore
    BY <1>3, NothingTodo, RelayStutters DEF UsartStore, line, task
  <1>4. CASE UsartCount
    BY <1>4, NothingTodo, RelayStutters DEF UsartCount, line, task
  <1>5. CASE UsartStart
    BY <1>5, NothingTodo, RelayStutters DEF UsartStart, line, task
  <1>6. CASE UsartRestart
    BY <1>6, NothingTodo, RelayStutters DEF UsartRestart, line, task
  <1>7. CASE UsartCheck
    BY <1>7, NothingTodo, RelayStutters DEF UsartCheck, line, task
  <1>8. CASE toGo = 0 /\ TimEnter
    BY <1>8, NothingTodo, RelayStutters DEF TimEnter, line, task
  <1>9. CASE TimTest
    BY <1>9, NothingTodo, RelayStutters DEF TimTest, line, task
  <1>10. CASE TimTick
    BY <1>10, NothingTodo, RelayStutters DEF TimTick, line, task
  <1>11. CASE TimCompare
    BY <1>11, NothingTodo, RelayStutters DEF TimCompare, line, task
  <1>12. CASE TimStop
    BY <1>12, NothingTodo, RelayStutters DEF TimStop, line, task
  <1>13. CASE TimPost
    BY <1>13, NothingTodo, RelayStutters DEF TimPost, line, task
  <1>14. CASE TaskCreate
    BY <1>14, NothingTodo, RelayStutters DEF TaskCreate, line, task
  <1>15. CASE TaskPend
    BY <1>15, NothingTodo, RelayStutters DEF TaskPend, line, task
  <1>16. CASE TaskLength
    BY <1>16, NothingTodo, RelayStutters DEF TaskLength, line, task
  <1>17. CASE TaskClear
    BY <1>17, RelayTake DEF PacedInv, Relay!Next
  <1>18. CASE TaskNext
    BY <1>18, RelaySkip DEF Relay!Next, Relay!Clients, Clients
  <1>19. CASE TaskCopy
    BY <1>19, RelayCopy DEF PacedInv, Relay!Next, Relay!Clients, Clients
  <1>20. CASE UNCHANGED vars
    BY <1>20, NothingTodo, RelayStutters DEF vars, line, task
  <1> QED
    BY PacedActions, <1>1, <1>2, <1>3, <1>4, <1>5, <1>6, <1>7, <1>8, <1>9, <1>10, <1>11, <1>12, <1>13, <1>14, <1>15, <1>16, <1>17, <1>18, <1>19, <1>20

LEMMA PacedInit ==
  ASSUME FramesFit, Init
  PROVE  NoStrandedBytes /\ PacedInv /\ Relay!Init
  <1>1. NoStrandedBytes /\ PacedInv
    BY BufferAssumption DEF Init, NoStrandedBytes, PacedInv, PacedCount, PacedTurns, PacedBytes
  <1>2. Bytes(0, 0) = <<>>
    BY BytesNone
  <1>3. Todo = {}
    BY DEF Init, Todo
  <1> QED
    BY <1>1, <1>2, <1>3 DEF Init, Relay!Init, Relay!Clients, Clients

\* For a device that paces itself, whose frames the counter can count, and a
\* USART that outranks TIM2, as RS232's does, the USART handler, TIM2 and
\* RS232_to_TCP_task implement the relay: a frame is taken only complete, it
\* is offered once to every connection of the list, and what tcp_write queues
\* for a connection is the frame, whole, with no byte of another.
THEOREM ImplementsRelay ==
  UsartOutranks /\ FramesFit => (PacedSpec => Relay!Safety)
  <1> SUFFICES ASSUME UsartOutranks, FramesFit PROVE PacedSpec => Relay!Safety
    OBVIOUS
  <1> DEFINE I == TypeOK /\ NoStrandedBytes /\ PacedInv
  <1>1. Init => I /\ Relay!Init
    BY TypeInit, PacedInit
  <1>2. I /\ [PacedNext]_vars => I'
    BY PacedIsNext, TypeStep, StrandedStep, PacedCountStep, PacedTurnsStep, PacedBytesStep
    DEF PacedInv
  <1>3. I /\ [PacedNext]_vars => [Relay!Next]_(Relay!vars)
    BY RelayStep
  <1> HIDE DEF I
  <1> QED
    BY <1>1, <1>2, <1>3, PTL DEF PacedSpec, Relay!Safety
=============================================================================
