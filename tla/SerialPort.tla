----------------------------- MODULE SerialPort -----------------------------
(***************************************************************************)
(* The receiving half of one serial port of the gateway: the USART         *)
(* interrupt stores each byte and counts it, TIM2 closes a frame and posts *)
(* a semaphore, and the port's task copies the frame to every TCP          *)
(* connection.  RS232 and RS485 run the same code on variables of their    *)
(* own; they differ in which of the two interrupts preempts the other.     *)
(*                                                                         *)
(* Each interrupt handler and the task advance one access of a shared      *)
(* variable at a time.  A handler runs only while the handlers that        *)
(* outrank it are idle, the task only while both handlers are idle.        *)
(*                                                                         *)
(* Byte number b is the b-th byte the serial device put on the wire;       *)
(* 0 stands for what the buffer holds at reset.                            *)
(***************************************************************************)
EXTENDS Naturals, Sequences

CONSTANTS
  BufSize,         \* bytes in RS232_rec_buf (2048)
  CounterMod,      \* values an unsigned char counter takes (256)
  NumClients,      \* connections on tcp_active_pcbs, in list order
  FrameLengths,    \* lengths of the frames the serial device sends
  MaxBytes,        \* bound: bytes the device sends in a behaviour
  UsartOutranks    \* TRUE iff the USART preempts TIM2, FALSE iff TIM2 preempts it

ASSUME BufferAssumption == /\ BufSize \in Nat \ {0}
                           /\ CounterMod \in Nat \ {0}
                           /\ CounterMod <= BufSize
ASSUME ClientAssumption == NumClients \in Nat
ASSUME LineAssumption   == /\ FrameLengths \subseteq Nat \ {0}
                           /\ MaxBytes \in Nat
ASSUME RankAssumption   == UsartOutranks \in BOOLEAN

VARIABLES
  toGo,        \* bytes of its current frame the device has still to send
  arrived,     \* bytes that reached the data register so far
  buf,         \* RS232_rec_buf
  recCounter,  \* RS232_rec_counter
  startTime,   \* rs232_start_time_flag
  timeCounter, \* RS232_REC_time_counter
  usartPc,     \* where the USART handler is
  timPc,       \* where the TIM2 handler is
  sem,         \* OSEventCnt of sem_RS232_rec_flag, once it is created
  taskPc,      \* where RS232_to_TCP_task is
  sendCounter, \* RS232_TCP_send_counter
  cpcb,        \* the connection the task is at
  chunk,       \* what tcp_write has copied for that connection so far
  sent,        \* per connection, the chunks its send queue accepted
  taken,       \* history: bytes that had arrived when the task last cleared the counter
  handLo       \* history: the same, for the clearing before that: the task
               \* has bytes handLo + 1 .. taken in hand

line == <<toGo, arrived>>
rx   == <<buf, recCounter, startTime, timeCounter>>
task == <<sendCounter, cpcb, chunk, sent, taken, handLo>>
vars == <<line, rx, usartPc, timPc, sem, taskPc, task>>

Clients == 1 .. NumClients

UsartLocations == {"idle", "store", "count", "start", "restart", "check"}
TimLocations   == {"idle", "test", "tick", "compare", "stop", "post"}
TaskLocations  == {"create", "pend", "wait", "length", "clear", "next", "copy"}

-----------------------------------------------------------------------------
(* Who may run *)

UsartMayRun == UsartOutranks \/ timPc = "idle"
TimMayRun   == ~UsartOutranks \/ usartPc = "idle"
TaskMayRun  == usartPc = "idle" /\ timPc = "idle"

-----------------------------------------------------------------------------
Init ==
  /\ toGo = 0 /\ arrived = 0
  /\ buf = [i \in 0 .. BufSize - 1 |-> 0]
  /\ recCounter = 0 /\ startTime = FALSE /\ timeCounter = 0
  /\ usartPc = "idle" /\ timPc = "idle"
  /\ sem = 0 /\ taskPc = "create"
  /\ sendCounter = 0 /\ cpcb = 1 /\ chunk = <<>>
  /\ sent = [c \in Clients |-> <<>>]
  /\ taken = 0 /\ handLo = 0

-----------------------------------------------------------------------------
(* The serial device *)

StartFrame(n) ==
  /\ toGo = 0 /\ arrived + n <= MaxBytes
  /\ toGo' = n
  /\ UNCHANGED <<arrived, rx, usartPc, timPc, sem, taskPc, task>>

-----------------------------------------------------------------------------
(* USART1_IRQHandler, USART2_IRQHandler *)

\* A byte fills the data register and raises RXNE.
UsartEnter ==
  /\ usartPc = "idle" /\ UsartMayRun
  /\ toGo > 0
  /\ toGo' = toGo - 1 /\ arrived' = arrived + 1
  /\ usartPc' = "store"
  /\ UNCHANGED <<rx, timPc, sem, taskPc, task>>

UsartStore ==
  /\ usartPc = "store" /\ UsartMayRun
  /\ buf' = [buf EXCEPT ![recCounter] = arrived]
  /\ usartPc' = "count"
  /\ UNCHANGED <<line, recCounter, startTime, timeCounter, timPc, sem, taskPc, task>>

\* Slip: the counter is wider than the buffer is long.
UsartCountWide ==
  /\ usartPc = "count" /\ UsartMayRun
  /\ recCounter' = recCounter + 1
  /\ usartPc' = "start"
  /\ UNCHANGED <<line, buf, startTime, timeCounter, timPc, sem, taskPc, task>>

UsartCount ==
  /\ usartPc = "count" /\ UsartMayRun
  /\ recCounter' = (recCounter + 1) % CounterMod
  /\ usartPc' = "start"
  /\ UNCHANGED <<line, buf, startTime, timeCounter, timPc, sem, taskPc, task>>

UsartStart ==
  /\ usartPc = "start" /\ UsartMayRun
  /\ startTime' = TRUE
  /\ usartPc' = "restart"
  /\ UNCHANGED <<line, buf, recCounter, timeCounter, timPc, sem, taskPc, task>>

UsartRestart ==
  /\ usartPc = "restart" /\ UsartMayRun
  /\ timeCounter' = 0
  /\ usartPc' = "check"
  /\ UNCHANGED <<line, buf, recCounter, startTime, timPc, sem, taskPc, task>>

\* Slip: a full counter stops the timing but is not reset.
UsartCheckKeeps ==
  /\ usartPc = "check" /\ UsartMayRun
  /\ startTime' = (startTime /\ recCounter < CounterMod - 1)
  /\ usartPc' = "idle"
  /\ UNCHANGED <<line, buf, recCounter, timeCounter, timPc, sem, taskPc, task>>

\* The overflow test, and the return from the interrupt.
UsartCheck ==
  /\ usartPc = "check" /\ UsartMayRun
  /\ IF recCounter > BufSize
       THEN recCounter' = 0 /\ startTime' = FALSE
       ELSE UNCHANGED <<recCounter, startTime>>
  /\ usartPc' = "idle"
  /\ UNCHANGED <<line, buf, timeCounter, timPc, sem, taskPc, task>>

UsartStep ==
  UsartStore \/ UsartCount \/ UsartStart \/ UsartRestart \/ UsartCheck

-----------------------------------------------------------------------------
(* TIM2_IRQHandler, the part for this port *)

TimEnter ==
  /\ timPc = "idle" /\ TimMayRun
  /\ timPc' = "test"
  /\ UNCHANGED <<line, rx, usartPc, sem, taskPc, task>>

TimTest ==
  /\ timPc = "test" /\ TimMayRun
  /\ timPc' = IF startTime THEN "tick" ELSE "idle"
  /\ UNCHANGED <<line, rx, usartPc, sem, taskPc, task>>

TimTick ==
  /\ timPc = "tick" /\ TimMayRun
  /\ timeCounter' = timeCounter + 1
  /\ timPc' = "compare"
  /\ UNCHANGED <<line, buf, recCounter, startTime, usartPc, sem, taskPc, task>>

\* The counter is not volatile: the comparison uses the value just computed
\* (at least 1) or, if the compiler reloads it, what a USART interrupt may
\* have put there meanwhile.
TimCompare ==
  /\ timPc = "compare" /\ TimMayRun
  /\ \/ timPc' = "stop"
     \/ timeCounter = 0 /\ timPc' = "idle"
  /\ UNCHANGED <<line, rx, usartPc, sem, taskPc, task>>

TimStop ==
  /\ timPc = "stop" /\ TimMayRun
  /\ startTime' = FALSE
  /\ timPc' = "post"
  /\ UNCHANGED <<line, buf, recCounter, timeCounter, usartPc, sem, taskPc, task>>

\* OSSemPost: an error while the pointer is still NULL, a hand-over to the
\* pending task, or a count.
TimPost ==
  /\ timPc = "post" /\ TimMayRun
  /\ timPc' = "idle"
  /\ \/ taskPc = "create" /\ UNCHANGED <<sem, taskPc>>
     \/ taskPc = "wait" /\ taskPc' = "length" /\ UNCHANGED sem
     \/ taskPc \notin {"create", "wait"} /\ sem' = sem + 1 /\ UNCHANGED taskPc
  /\ UNCHANGED <<line, rx, usartPc, task>>

TimStep == TimTest \/ TimTick \/ TimCompare \/ TimStop \/ TimPost

-----------------------------------------------------------------------------
(* RS232_to_TCP_task, RS485_to_TCP_task *)

\* Slip: OSSemCreate(0).
TaskCreateZero ==
  /\ taskPc = "create" /\ TaskMayRun
  /\ sem' = 0 /\ taskPc' = "pend"
  /\ UNCHANGED <<line, rx, usartPc, timPc, task>>

\* OSSemCreate(1)
TaskCreate ==
  /\ taskPc = "create" /\ TaskMayRun
  /\ sem' = 1 /\ taskPc' = "pend"
  /\ UNCHANGED <<line, rx, usartPc, timPc, task>>

\* OSSemPend without a timeout
TaskPend ==
  /\ taskPc = "pend" /\ TaskMayRun
  /\ IF sem > 0 THEN sem' = sem - 1 /\ taskPc' = "length"
                ELSE taskPc' = "wait" /\ UNCHANGED sem
  /\ UNCHANGED <<line, rx, usartPc, timPc, task>>

TaskLength ==
  /\ taskPc = "length" /\ TaskMayRun
  /\ sendCounter' = recCounter
  /\ taskPc' = "clear"
  /\ UNCHANGED <<line, rx, usartPc, timPc, sem, cpcb, chunk, sent, taken, handLo>>

\* Slip: the receive counter is left as it is.
TaskClearNot ==
  /\ taskPc = "clear" /\ TaskMayRun
  /\ cpcb' = 1 /\ taskPc' = "next"
  /\ taken' = arrived /\ handLo' = taken
  /\ UNCHANGED <<line, rx, usartPc, timPc, sem, sendCounter, chunk, sent>>

\* The counter is cleared, and the walk over the connections begins.
TaskClear ==
  /\ taskPc = "clear" /\ TaskMayRun
  /\ recCounter' = 0
  /\ cpcb' = 1 /\ taskPc' = "next"
  /\ taken' = arrived /\ handLo' = taken
  /\ UNCHANGED <<line, buf, startTime, timeCounter, usartPc, timPc, sem,
                 sendCounter, chunk, sent>>

\* tcp_write for the next connection is called with no bytes, is refused for
\* want of memory or queue space, or begins to copy; after the last connection
\* the task pends again.
TaskNext ==
  /\ taskPc = "next" /\ TaskMayRun
  /\ \/ cpcb > NumClients /\ taskPc' = "pend" /\ UNCHANGED cpcb
     \/ cpcb <= NumClients /\ cpcb' = cpcb + 1 /\ UNCHANGED taskPc
     \/ cpcb <= NumClients /\ sendCounter > 0 /\ taskPc' = "copy" /\ UNCHANGED cpcb
  /\ chunk' = <<>>
  /\ UNCHANGED <<line, rx, usartPc, timPc, sem, sendCounter, sent, taken, handLo>>

\* Slip: one byte too many is copied.
TaskCopyLong ==
  /\ taskPc = "copy" /\ TaskMayRun
  /\ LET grown == Append(chunk, buf[Len(chunk)])
     IN  IF Len(grown) <= sendCounter
           THEN chunk' = grown /\ UNCHANGED <<sent, cpcb, taskPc>>
           ELSE /\ chunk' = <<>>
                /\ sent' = [sent EXCEPT ![cpcb] = Append(@, grown)]
                /\ cpcb' = cpcb + 1 /\ taskPc' = "next"
  /\ UNCHANGED <<line, rx, usartPc, timPc, sem, sendCounter, taken, handLo>>

\* The copy into the segments, a byte at a time; then the chunk is queued.
TaskCopy ==
  /\ taskPc = "copy" /\ TaskMayRun
  /\ LET grown == Append(chunk, buf[Len(chunk)])
     IN  IF Len(grown) < sendCounter
           THEN chunk' = grown /\ UNCHANGED <<sent, cpcb, taskPc>>
           ELSE /\ chunk' = <<>>
                /\ sent' = [sent EXCEPT ![cpcb] = Append(@, grown)]
                /\ cpcb' = cpcb + 1 /\ taskPc' = "next"
  /\ UNCHANGED <<line, rx, usartPc, timPc, sem, sendCounter, taken, handLo>>

TaskStep == TaskCreate \/ TaskPend \/ TaskLength \/ TaskClear \/ TaskNext \/ TaskCopy

-----------------------------------------------------------------------------
Next ==
  \/ \E n \in FrameLengths : StartFrame(n)
  \/ UsartEnter \/ UsartStep
  \/ TimEnter \/ TimStep
  \/ TaskStep

\* TIM2 fires once per millisecond and the handlers take microseconds, so
\* whoever they interrupt gets the processor back again and again and moves
\* on: strong fairness.
Fairness ==
  /\ SF_vars(UsartEnter) /\ SF_vars(UsartStep)
  /\ WF_vars(TimEnter) /\ WF_vars(TimStep)
  /\ SF_vars(TaskStep)

Spec == Init /\ [][Next]_vars
FairSpec == Spec /\ Fairness
-----------------------------------------------------------------------------
(* A device that paces itself: it starts a frame only when the gateway is  *)
(* done with the one before, and its frames are so short against TIM2's    *)
(* period that it does not fire inside one.  The code enforces neither.    *)

Quiet ==
  /\ usartPc = "idle" /\ timPc = "idle" /\ ~startTime
  /\ taskPc = "wait"

PacedNext ==
  \/ Quiet /\ \E n \in FrameLengths : StartFrame(n)
  \/ UsartEnter \/ UsartStep
  \/ toGo = 0 /\ TimEnter
  \/ TimStep
  \/ TaskStep

PacedFairness ==
  /\ SF_vars(UsartEnter) /\ SF_vars(UsartStep)
  /\ WF_vars(toGo = 0 /\ TimEnter) /\ WF_vars(TimStep)
  /\ SF_vars(TaskStep)

PacedSpec == Init /\ [][PacedNext]_vars /\ PacedFairness
-----------------------------------------------------------------------------
(* Properties *)

\* Every variable has its type: in particular the handler stores and the task
\* copies inside the buffer, since the counter is no wider than the buffer is
\* long.
TypeOK ==
  /\ toGo \in Nat /\ arrived \in Nat
  /\ buf \in [0 .. BufSize - 1 -> Nat]
  /\ recCounter \in 0 .. CounterMod - 1
  /\ startTime \in BOOLEAN /\ timeCounter \in Nat
  /\ usartPc \in UsartLocations /\ timPc \in TimLocations
  /\ sem \in Nat /\ taskPc \in TaskLocations
  /\ sendCounter \in 0 .. CounterMod - 1
  /\ cpcb \in 1 .. NumClients + 1
  /\ chunk \in Seq(Nat) /\ sent \in [Clients -> Seq(Seq(Nat))]
  /\ taskPc = "copy" => Len(chunk) < sendCounter /\ cpcb \in Clients
  /\ taken \in Nat /\ handLo \in Nat

\* While a byte has come in since the task last cleared the counter, somebody is
\* bound to make the task do so again: the frame timer is armed or about to be, a
\* post is on its way, the semaphore is up, or the task has yet to pass the point
\* where it clears the counter.  This covers the posts lost before the semaphore
\* exists, which its initial count of 1 makes good.  It does not say that the
\* byte is among those the task then takes: one that came in behind the reading
\* of the counter is not (LengthIsLengthReceived), nor one the counter has
\* wrapped over.
NoStrandedBytes ==
  arrived > taken =>
    \/ startTime \/ usartPc \in {"store", "count", "start"}
    \/ timPc = "post" \/ sem > 0
    \/ taskPc \in {"create", "length", "clear"}

\* No stale bytes: what the task hands to tcp_write arrived after the previous
\* frame was taken over, however the interrupts interleave with the copying
\* and whether or not the counter wrapped.
NoStaleBytes ==
  /\ taskPc \in {"next", "copy"} =>
       \A i \in 0 .. sendCounter - 1 : buf[i] > handLo
  /\ \A i \in 1 .. Len(chunk) : chunk[i] > handLo

\* What keeps the bytes fresh: the counted bytes, and the one being counted,
\* arrived after the counter was last cleared; those whose number the task has
\* read did too; those it is copying arrived after the clearing before.
FreshBytes ==
  /\ handLo <= taken /\ taken <= arrived
  /\ usartPc \in {"store", "count"} => arrived > taken
  /\ \A i \in 0 .. recCounter - 1 : buf[i] > taken
  /\ usartPc = "count" => buf[recCounter] > taken
  /\ taskPc = "clear" => \A i \in 0 .. sendCounter - 1 : buf[i] > taken
  /\ taskPc # "copy" => chunk = <<>>

\* The inductive invariant.
IInv == TypeOK /\ NoStrandedBytes /\ FreshBytes /\ NoStaleBytes

\* The length that is sent is the length that was received, as the comment on
\* the assignment of RS232_TCP_send_counter says.
LengthIsLengthReceived ==
  [][TaskClear => sendCounter = arrived - taken]_vars

\* After every byte the task comes round and clears the counter once more,
\* whenever the byte falls and whatever it collides with.
BytesAreCollected == \A b \in 1 .. MaxBytes : arrived >= b ~> taken >= b

\* Bytes number lo + 1 .. hi, in order.
Bytes(lo, hi) == [i \in 1 .. hi - lo |-> lo + i]

\* The connections the task has still to offer the frame to.
Todo == IF taskPc \in {"next", "copy"} /\ sendCounter > 0
          THEN cpcb .. NumClients ELSE {}

\* The frame relay this port implements for a device that paces itself.
Relay == INSTANCE FrameRelay WITH
  frame <- Bytes(taken, arrived), hand <- Bytes(handLo, taken),
  todo <- Todo, given <- sent

\* A frame is shorter than what the receive counter can count.
FramesFit == \A n \in FrameLengths : n < CounterMod

\* For a device that paces itself: the bytes that arrived since the counter
\* was last cleared are counted or about to be, and with the rest of the
\* frame they do not wrap the counter.
PacedCount ==
  /\ handLo <= taken
  /\ arrived = taken + recCounter + (IF usartPc \in {"store", "count"} THEN 1 ELSE 0)
  /\ arrived - taken + toGo < CounterMod
  /\ usartPc \in {"start", "restart", "check"} => recCounter > 0

\* For a device that paces itself: bytes arrive only while the task waits, the
\* two handlers never meet, a frame is posted once, and what the task clears
\* is what it has read.
PacedTurns ==
  /\ taskPc # "wait" => /\ toGo = 0 /\ usartPc = "idle"
                        /\ ~startTime /\ timPc \in {"idle", "test"}
  /\ timPc # "idle" => toGo = 0 /\ usartPc = "idle"
  /\ startTime => recCounter > 0
  /\ usartPc \in {"restart", "check"} => startTime
  /\ timPc \in {"tick", "compare", "stop"} => startTime
  /\ timPc = "compare" => timeCounter > 0
  /\ timPc = "post" => ~startTime /\ recCounter > 0
  /\ sem > 0 => sem = 1 /\ taskPc = "pend" /\ handLo = taken
  /\ taskPc \in {"create", "pend", "next", "copy"} => recCounter = 0
  /\ taskPc = "create" => handLo = taken
  /\ taskPc \in {"length", "clear"} => recCounter > 0 \/ handLo = taken
  /\ taskPc = "clear" => sendCounter = recCounter
  /\ taskPc \in {"next", "copy"} => sendCounter = taken - handLo

\* For a device that paces itself: the buffer holds the frame, from its start,
\* while it is counted and while it is copied.
PacedBytes ==
  /\ \A i \in 0 .. recCounter - 1 : buf[i] = taken + i + 1
  /\ usartPc = "count" => buf[recCounter] = arrived
  /\ taskPc \in {"next", "copy"} =>
       \A i \in 0 .. sendCounter - 1 : buf[i] = handLo + i + 1
  /\ \A i \in 1 .. Len(chunk) : chunk[i] = handLo + i
  /\ taskPc # "copy" => chunk = <<>>

\* The inductive invariant of the refinement.
PacedInv == PacedCount /\ PacedTurns /\ PacedBytes

\* For a self-paced device every connection is offered every frame whole, in
\* order, once, and the same bytes go to all of them.
RelaysFrames == Relay!Spec
=============================================================================
