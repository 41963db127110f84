----------------------------- MODULE Rs485Line -----------------------------
(***************************************************************************)
(* Both directions of the serial ports in one time line: FrameTimer's      *)
(* counts, and on top of them the TCP/IP thread, which runs the receive    *)
(* callbacks.  A callback sends a segment byte by byte through the port's  *)
(* USART, waiting for each; the one for RS485 also turns the transceiver   *)
(* round, and sleeps for a tick of uC/OS-II before and after.  The pin     *)
(* decides what the gateway hears: while it transmits, a byte the device   *)
(* sends is lost.  The thread outranks the tasks that collect the bytes,   *)
(* and keeps them waiting while it polls a USART.                          *)
(***************************************************************************)
EXTENDS FrameTimer

CONSTANTS
  Line,       \* the port behind the transceiver, RS485
  Direct,     \* the other one, RS232
  Tick,       \* counts between two ticks of uC/OS-II (60)
  WireTime,   \* per port, the counts a byte takes on the wire
  MaxSegment, \* bound: bytes of a segment
  Prio        \* the priority of each task, smaller is more urgent

Tasks == {"RS232_to_TCP_task", "RS485_to_TCP_task", "TCP_server_task"}

ASSUME LineAssumption ==
  /\ Line \in Ports /\ Direct \in Ports /\ Tick \in Nat /\ MaxSegment \in Nat
  /\ WireTime \in [Ports -> Nat \ {0}]
  /\ Prio \in [Tasks -> Nat]

\* What the 10 ms on either side of a transmission are for: a tick is longer
\* than a byte on the wire and than a period of TIM2.
ASSUME DelayAssumption == Tick > Reload /\ Tick >= WireTime[Line]

\* The task that configures the line outranks the one that opens the server.
ASSUME PrioAssumption == Prio["RS485_to_TCP_task"] < Prio["TCP_server_task"]

VARIABLES
  started, \* tasks that have run what precedes their endless loop
  dir,     \* the direction pin: "rx" or "tx"
  call,    \* where the receive callback is; "idle" outside
  port,    \* the port it sends to
  size,    \* p->tot_len
  left,    \* bytes still to be written
  delay,   \* ticks its task still sleeps
  tick,    \* counts since the last tick
  busy,    \* counts since the callback was entered
  shift,   \* per port, counts until the byte on the wire is out
  held,    \* per port, a byte waits in DR behind it
  TC,      \* per port, the transmission-complete flag
  srRead,  \* per port, SR has been read since DR was written
  across   \* history: a transmission came upon bytes of the line that still wait

usart == <<shift, held, TC, srRead>>
thread == <<call, port, size, left, delay>>
lineVars == <<started, dir, tick, busy, across, thread, usart>>
allVars == <<vars, lineVars>>

\* After reset the pin is low, which is receive.  TC is clear, or set again by
\* the idle frame that enabling the transmitter sends.
LineInit ==
  /\ Init
  /\ started = {} /\ dir = "rx" /\ across = FALSE
  /\ call = "idle" /\ port = Line /\ size = 0 /\ left = 0 /\ delay = 0
  /\ tick \in 0 .. Tick - 1 /\ busy = 0
  /\ shift = [p \in Ports |-> 0] /\ held = [p \in Ports |-> FALSE]
  /\ TC \in [Ports -> BOOLEAN] /\ srRead = [p \in Ports |-> FALSE]

OS_TICKS_PER_SEC == 100

\* Slip: the delay is rounded up.
TicksUp(ms) == (OS_TICKS_PER_SEC * ms) \div 1000 + 1

\* OSTimeDlyHMSM rounds to the nearest tick, and OSTimeDly counts ticks, so
\* that the sleep of a tick ends with the next one, however near.
Ticks(ms) == (OS_TICKS_PER_SEC * (ms + 500 \div OS_TICKS_PER_SEC)) \div 1000
-----------------------------------------------------------------------------
(* The tasks up to their loops. *)

\* Slip: the tasks come up in the order of their creation.
MayStartLast(t) == \A u \in Tasks \ started : Prio[t] >= Prio[u]

\* The scheduler runs the most urgent ready task, and all are created before
\* any of them runs.
MayStart(t) == \A u \in Tasks \ started : Prio[t] <= Prio[u]

\* A task may run when the TCP/IP thread, more urgent than all, is waiting for
\* a message or asleep, not when it polls a USART.
TasksRun == call \in {"idle", "lead", "trail"}

\* What a task does before its loop: two create their port's semaphore.
Prologue(t) ==
  CASE t = "RS232_to_TCP_task" -> Create(Direct) /\ UNCHANGED dir
    [] t = "RS485_to_TCP_task" -> Create(Line) /\ dir' = "rx"
    [] t = "TCP_server_task"   -> UNCHANGED <<vars, dir>>

StartTask(t) ==
  /\ t \notin started /\ MayStart(t) /\ TasksRun
  /\ started' = started \cup {t}
  /\ Prologue(t)
  /\ UNCHANGED <<tick, busy, across, thread, usart>>

\* The task of a port collects what has come in.
TaskCollects(p) ==
  /\ TasksRun /\ Collect(p)
  /\ across' = (across /\ p # Line)
  /\ UNCHANGED <<started, dir, tick, busy, thread, usart>>
-----------------------------------------------------------------------------
(* The receive callbacks, in the TCP/IP thread. *)

\* A segment for port p reaches tcp_232_server_recv or tcp_485_server_recv.
Receive(p) ==
  /\ call = "idle" /\ "TCP_server_task" \in started
  /\ port' = p /\ size' \in 1 .. MaxSegment /\ left' = size'
  /\ call' = IF p = Line THEN "lead" ELSE "write"
  /\ dir' = IF p = Line THEN "tx" ELSE dir
  /\ delay' = IF p = Line THEN Ticks(10) ELSE 0
  /\ across' = (across \/ (p = Line /\ length[Line] > 0))
  /\ UNCHANGED <<vars, started, tick, busy, usart>>

\* The thread wakes from the delay before the first byte.
LeadOver ==
  /\ call = "lead" /\ delay = 0
  /\ call' = "write"
  /\ UNCHANGED <<vars, started, dir, port, size, left, delay, tick, busy, across, usart>>

\* USARTx->DR = data[i].  The write clears TC only if SR was read before it;
\* the poll that follows reads it.
Write ==
  /\ call = "write"
  /\ call' = "poll" /\ left' = left - 1
  /\ shift' = [shift EXCEPT ![port] = IF @ = 0 THEN WireTime[port] ELSE @]
  /\ held' = [held EXCEPT ![port] = shift[port] > 0]
  /\ TC' = [TC EXCEPT ![port] = @ /\ ~srRead[port]]
  /\ srRead' = [srRead EXCEPT ![port] = TRUE]
  /\ UNCHANGED <<vars, started, dir, port, size, delay, tick, busy, across>>

\* Slip: the loop waits for room in DR, not for the end of the byte.
SentIfRoom == ~held[port]

\* while ((USARTx->SR & 0x40) == 0): the byte, and any before it, is out.
Sent == TC[port]

\* The loop ends: the RS232 callback returns, the RS485 one sleeps again.
\* Slip: without the second delay.
AfterLastNoDelay ==
  /\ call' = IF port = Line THEN "trail" ELSE "idle"
  /\ delay' = 0
  /\ busy' = IF port = Line THEN busy ELSE 0

AfterLast ==
  /\ call' = IF port = Line THEN "trail" ELSE "idle"
  /\ delay' = IF port = Line THEN Ticks(10) ELSE 0
  /\ busy' = IF port = Line THEN busy ELSE 0

Poll ==
  /\ call = "poll" /\ Sent
  /\ IF left > 0 THEN call' = "write" /\ UNCHANGED <<delay, busy>> ELSE AfterLast
  /\ UNCHANGED <<vars, started, dir, port, size, left, tick, across, usart>>

\* Slip: the callback returns with the line still its own.
TurnBackNot ==
  /\ call = "trail" /\ delay = 0
  /\ call' = "idle" /\ busy' = 0
  /\ UNCHANGED <<vars, started, dir, port, size, left, delay, tick, across, usart>>

\* RS_485_RX_EN, and the callback returns.
TurnBack ==
  /\ call = "trail" /\ delay = 0
  /\ call' = "idle" /\ dir' = "rx" /\ busy' = 0
  /\ UNCHANGED <<vars, started, port, size, left, delay, tick, across, usart>>

Thread == LeadOver \/ Write \/ Poll \/ TurnBack

\* The thread outranks every task: it runs as soon as it has something to do.
Ready == \/ call \in {"lead", "trail"} /\ delay = 0
         \/ call = "write"
         \/ call = "poll" /\ Sent
-----------------------------------------------------------------------------
(* Bytes from the devices, and time. *)

\* A device's byte, if the transceiver listens; the handler reads SR.
Hear(p) ==
  /\ p = Line => dir = "rx"
  /\ Byte(p)
  /\ srRead' = [srRead EXCEPT ![p] = TRUE]
  /\ UNCHANGED <<started, dir, tick, busy, across, thread, shift, held, TC>>

\* What is on the wire: the byte in DR follows the one that is out; when none
\* does, the transmission is complete.
WireStep ==
  /\ shift' = [p \in Ports |-> IF shift[p] > 1 THEN shift[p] - 1
                               ELSE IF held[p] THEN WireTime[p] ELSE 0]
  /\ held' = [p \in Ports |-> held[p] /\ shift[p] > 1]
  /\ TC' = [p \in Ports |-> TC[p] \/ (shift[p] = 1 /\ ~held[p])]
  /\ UNCHANGED srRead

\* OSTimeTick takes a tick off the sleeping thread's delay.
TickStep ==
  /\ tick' = (tick + 1) % Tick
  /\ delay' = IF tick' = 0 /\ delay > 0 THEN delay - 1 ELSE delay

\* One count of TIM2 passes.
Elapse ==
  /\ ~Ready
  /\ Count \/ Update
  /\ WireStep /\ TickStep
  /\ busy' = IF call = "idle" THEN 0 ELSE busy + 1
  /\ UNCHANGED <<started, dir, call, port, size, left, across>>

LineNext ==
  \/ \E t \in Tasks : StartTask(t)
  \/ \E p \in Ports : Receive(p) \/ Hear(p) \/ TaskCollects(p)
  \/ Thread
  \/ Elapse

\* The clock never stops, the scheduler runs what is ready.
LineSpec ==
  /\ LineInit /\ [][LineNext]_allVars
  /\ WF_allVars(Elapse) /\ WF_allVars(Thread)
-----------------------------------------------------------------------------
LineTypeOK ==
  /\ TypeOK
  /\ started \subseteq Tasks /\ dir \in {"rx", "tx"} /\ across \in BOOLEAN
  /\ call \in {"idle", "lead", "write", "poll", "trail"} /\ port \in Ports
  /\ size \in Nat /\ left \in Nat /\ delay \in Nat
  /\ tick \in Nat /\ tick < Tick /\ busy \in Nat
  /\ shift \in [Ports -> Nat] /\ held \in [Ports -> BOOLEAN]
  /\ TC \in [Ports -> BOOLEAN] /\ srRead \in [Ports -> BOOLEAN]

\* The transceiver is never turned round under a byte of the gateway's own:
\* while it listens, nothing of a segment is on the wire.  The first byte ever
\* sent may not be waited for, TC being stale; the delay covers it.
NoByteCut == dir = "rx" => shift[Line] = 0 /\ ~held[Line]

\* A byte is never written over one that still waits in DR, so a segment goes
\* out whole, stale TC or not.
NothingOverwritten == call = "write" => ~held[port]

\* A frame that was interrupted by a transmission has been collected or posted
\* before the gateway listens again: what the device sends afterwards is joined
\* to it only if the task, already told, has not had the processor since.
InterruptedFramePosted == dir = "rx" /\ across => sem[Line] > 0

\* The callback, and with it the whole stack, is away from the mailbox for the
\* bytes' time on the wire and two ticks at most, never longer; for RS232 the
\* two ticks are one byte's time, which the very first byte may leave behind.
BackByDeadline ==
  busy <= size * WireTime[port] + IF port = Line THEN 2 * Tick ELSE WireTime[port]

\* The line is given back to the devices after every transmission.
LineIsReleased == dir = "tx" ~> dir = "rx"

-----------------------------------------------------------------------------
(* The inductive invariant, in parts. *)

\* The pin is the transmitter's exactly while the RS485 callback runs, and no
\* callback runs before the line's task has set it for the first time.
PinFollowsCall ==
  /\ call # "idle" => "TCP_server_task" \in started
  /\ "TCP_server_task" \in started => "RS485_to_TCP_task" \in started
  /\ "RS485_to_TCP_task" \in started => Line \in created
  /\ dir = "tx" <=> call # "idle" /\ port = Line

\* What TC says: false while two bytes are under way, and true at rest.
WireIsTracked ==
  /\ \A p \in Ports : /\ shift[p] <= WireTime[p]
                      /\ shift[p] > 0 => srRead[p]
                      /\ held[p] => /\ call = "poll" /\ port = p
                                    /\ ~TC[p] /\ shift[p] > 0
  /\ call = "poll" => srRead[port] /\ (TC[port] \/ shift[port] > 0)

\* The sleeps end on a tick, and only the first byte ever is not waited for.
LineIsQuiet ==
  /\ ~(call \in {"write", "poll", "trail"} /\ port = Line) => shift[Line] = 0
  /\ call = "lead" /\ delay = 0 => tick = 0
  /\ call = "write" /\ port = Line =>
       /\ ~srRead[Line] => tick = 0
       /\ shift[Line] > 0 => tick = 0 /\ shift[Line] = WireTime[Line]
  /\ call = "poll" /\ port = Line /\ TC[Line] /\ shift[Line] > 0 =>
       tick = 0 /\ shift[Line] = WireTime[Line]
  /\ call = "trail" /\ shift[Line] > 0 => delay > 0 /\ shift[Line] + tick <= WireTime[Line]

\* A transmission takes a tick at least, from the end of one delay to the end
\* of the other; a frame it interrupts is posted, or timed since the last wrap.
LastsATick ==
  /\ call \in {"lead", "trail"} => port = Line
  /\ delay <= 1 /\ (call \notin {"lead", "trail"} => delay = 0)
  /\ port = Line /\ call \in {"write", "poll", "trail"} => busy >= tick
  /\ call = "trail" /\ delay = 0 => busy >= Tick
  /\ across => Line \in created
  /\ across => sem[Line] > 0 \/ (dir = "tx" /\ startTime[Line] /\ busy <= cnt)

\* The time the callback has taken, and what the bytes on the wire still take.
OnTheWire(p) == shift[p] + IF held[p] THEN WireTime[p] ELSE 0

TimeIsSpent ==
  /\ left <= size
  /\ call \in {"lead", "write"} => left > 0
  /\ call = "idle" => busy = 0
  /\ call = "lead" => busy <= IF delay > 0 THEN tick ELSE Tick
  /\ call \in {"write", "poll"} =>
       busy + OnTheWire(port) <= (size - left) * WireTime[port]
                                 + IF port = Line THEN Tick ELSE WireTime[port]
  /\ call = "trail" => busy <= size * WireTime[Line] + Tick + IF delay > 0 THEN tick ELSE Tick

LineInv == /\ LineTypeOK /\ TimedSinceWrap /\ PinFollowsCall /\ WireIsTracked
           /\ LineIsQuiet /\ LastsATick /\ TimeIsSpent
=============================================================================
