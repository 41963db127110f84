----------------------------- MODULE FrameTimer -----------------------------
(***************************************************************************)
(* When TIM2 finds the end of a frame.  Time advances in counts of the     *)
(* timer, whose prescaler divides the 72 MHz clock by 12000: six counts a  *)
(* millisecond.  TIM2 runs freely; it is not restarted by a byte.  One     *)
(* interrupt serves both ports.  It posts a semaphore and no more: the     *)
(* frame ends where the port's task clears the receive counter, whenever   *)
(* it gets to run.  Handlers, and the task's reading and clearing, take no *)
(* time here; SerialPort interleaves them.                                 *)
(***************************************************************************)
EXTENDS Naturals

CONSTANTS
  Ports,      \* RS232 and RS485
  TimerOut,   \* RS232_TIMER_OUT, in milliseconds (5)
  ByteTime,   \* per port, the least number of counts from a byte to the next
  SilenceCap, \* bound: silence is measured up to this many counts
  LengthCap,  \* bound: bytes not yet collected are counted up to this many
  SemMax      \* the largest count of a semaphore (65535)

ASSUME TimerAssumption == /\ TimerOut \in Nat /\ SilenceCap \in Nat \ {0}
                          /\ LengthCap \in Nat \ {0} /\ SemMax \in Nat \ {0}
                          /\ ByteTime \in [Ports -> Nat]

VARIABLES
  cnt,         \* TIM2's counter
  startTime,   \* rs232_start_time_flag, rs485_start_time_flag
  timeCounter, \* RS232_REC_time_counter, RS485_REC_time_counter
  silent,      \* counts since the port's last byte
  length,      \* bytes since the port's task last cleared its counter
  created,     \* ports whose task has created its semaphore
  sem          \* sem_RS232_rec_flag's and sem_RS485_rec_flag's count

vars == <<cnt, startTime, timeCounter, silent, length, created, sem>>

\* TIM_Configuration loads the auto-reload register with the number of
\* milliseconds it is asked for, in counts.
Reload == TimerOut

Init ==
  /\ cnt = 0
  /\ startTime = [p \in Ports |-> FALSE]
  /\ timeCounter = [p \in Ports |-> 0]
  /\ silent = [p \in Ports |-> SilenceCap]
  /\ length = [p \in Ports |-> 0]
  /\ created = {} /\ sem = [p \in Ports |-> 0]

\* The port's task creates its semaphore, with a count of one.
Create(p) ==
  /\ p \notin created
  /\ created' = created \cup {p} /\ sem' = [sem EXCEPT ![p] = 1]
  /\ UNCHANGED <<cnt, startTime, timeCounter, silent, length>>

OneMoreByteOf(p) ==
  /\ silent[p] >= ByteTime[p]
  /\ silent' = [silent EXCEPT ![p] = 0]
  /\ length' = [length EXCEPT ![p] = IF @ < LengthCap THEN @ + 1 ELSE @]
  /\ timeCounter' = [timeCounter EXCEPT ![p] = 0]
  /\ UNCHANGED <<cnt, created, sem>>

\* Slip: the byte restarts the elapsed time but does not arm the timing.
ByteNoStart(p) == OneMoreByteOf(p) /\ UNCHANGED startTime

\* The USART handler: the port's byte arms the timing and restarts it.
Byte(p) == OneMoreByteOf(p) /\ startTime' = [startTime EXCEPT ![p] = TRUE]

\* The port's task comes out of OSSemPend, takes the length and clears the
\* counter.  It leaves the timing alone.
Collect(p) ==
  /\ p \in created /\ sem[p] > 0
  /\ sem' = [sem EXCEPT ![p] = @ - 1]
  /\ length' = [length EXCEPT ![p] = 0]
  /\ UNCHANGED <<cnt, startTime, timeCounter, silent, created>>

Pass == silent' = [p \in Ports |-> IF silent[p] < SilenceCap THEN silent[p] + 1
                                                             ELSE SilenceCap]

\* A count short of the reload value: no interrupt.
Count ==
  /\ cnt < Reload
  /\ cnt' = cnt + 1 /\ Pass
  /\ UNCHANGED <<startTime, timeCounter, length, created, sem>>

\* OSSemPost: lost before the semaphore exists, refused at its largest count.
Posted(p) == IF p \in created /\ sem[p] < SemMax THEN sem[p] + 1 ELSE sem[p]

\* The counter wraps and TIM2_IRQHandler runs: every port that is timing has
\* its elapsed time counted, and one period is enough to stop and to post.
Update ==
  /\ cnt = Reload
  /\ cnt' = 0 /\ Pass
  /\ timeCounter' = [p \in Ports |-> IF startTime[p] THEN timeCounter[p] + 1
                                                     ELSE timeCounter[p]]
  /\ startTime' = [p \in Ports |-> startTime[p] /\ ~(timeCounter'[p] >= 1)]
  /\ sem' = [p \in Ports |-> IF startTime[p] /\ ~startTime'[p] THEN Posted(p) ELSE sem[p]]
  /\ UNCHANGED <<length, created>>

Next == (\E p \in Ports : Create(p) \/ Byte(p) \/ Collect(p)) \/ Count \/ Update

Spec == Init /\ [][Next]_vars
-----------------------------------------------------------------------------
\* The end of a frame is found at the latest one period of TIM2 after its last
\* byte, and bytes the task has not collected are being timed or have been
\* posted, once there is a semaphore to post.
ClosedPromptly ==
  \A p \in Ports : /\ startTime[p] => silent[p] <= Reload
                   /\ p \in created /\ length[p] > 0 => startTime[p] \/ sem[p] > 0

\* Bytes that come in before TIM2 has posted for the first of them never span
\* more than one period, however fast the device sends: it posts in the middle
\* of a longer frame, which the task then cuts there if it gets to run.
UnpostedFitOnePeriod ==
  \A p \in created : ByteTime[p] > 0 /\ sem[p] = 0 =>
    length[p] <= (Reload + ByteTime[p]) \div ByteTime[p]

\* What makes both hold: while a port is being timed its silence began after
\* the timer last wrapped, and so did, as long as nothing is posted, its bytes,
\* each of which after the first took a byte's time.
TimedSinceWrap ==
  \A p \in Ports :
    /\ startTime[p] => silent[p] <= cnt
    /\ p \in created /\ sem[p] = 0 /\ length[p] > 0 =>
         startTime[p] /\ (length[p] - 1) * ByteTime[p] + silent[p] <= cnt

TypeOK ==
  /\ cnt \in 0 .. Reload
  /\ startTime \in [Ports -> BOOLEAN] /\ timeCounter \in [Ports -> Nat]
  /\ silent \in [Ports -> 0 .. SilenceCap] /\ length \in [Ports -> Nat]
  /\ created \subseteq Ports /\ sem \in [Ports -> Nat]

\* The inductive invariant.
IInv == TypeOK /\ TimedSinceWrap
=============================================================================
