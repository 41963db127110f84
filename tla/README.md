# TCP to RS485/RS232 gateway: TLA+ specification and proofs

The firmware turns an STM32F107 board into a gateway. It listens on one TCP
port for each of its two serial ports. What a serial device sends goes to the
TCP clients, what a client sends goes to its serial port. It runs on uC/OS-II
and lwIP 1.3.2. This directory holds a model of the parts in which the
gateway's own logic and its concurrency live, the TLC configurations that check
it, and machine-checked proofs.

## 1. Inventory

### Parts and state

| Part | Source | State | Operations |
|---|---|---|---|
| Serial reception | `USER/SCI.c`, `USER/stm32f107.c`, `USER/uctsk_TCP_client.c` | per port a receive buffer and its 8-bit counter, a timing flag, an elapsed-time counter, a semaphore | USART interrupt (store and count a byte), TIM2 interrupt (close a frame, post), task (pend, read and clear the counter, walk the connections with `tcp_write`) |
| Frame timing | `USER/stm32f107.c` | TIM2's counter | count, wrap and interrupt |
| Interrupt priorities | `USER/stm32f107.c`, `misc.c` | priority registers | set once |
| Serial sending | `USER/TCP_to_RS232_485.C` | transceiver direction, data and status registers of the USARTs | receive callback inside the TCP/IP thread: turn the line round, sleep, busy-wait per byte |
| TCP connections | `USER/TCP_to_RS232_485.C`, lwIP `tcp.c`, `tcp_in.c` | pool of control blocks, linked list `tcp_active_pcbs`, a state per block | SYN, handshake, client's FIN, reset or abort, abort in favour of a new connection; accept and receive callbacks |
| TCP sending | lwIP `tcp_out.c`, `tcp_in.c`, `tcp.c` | per connection the queues `unsent` and `unacked`, `snd_buf`, `snd_queuelen`, windows, timers | write, output, acknowledgement, retransmission, probe, close |
| lwIP heap | lwIP `mem.c` | one array of linked blocks, `lfree` | `mem_malloc`, `mem_free`, `mem_realloc` |
| Ethernet driver | `netif/ethernetif.c`, `lwip.c`, `stm32_eth.c` | two descriptor rings shared with the DMA controller, pending bit | interrupt, `low_level_input`, `low_level_output` |
| TCP/IP thread | `api/tcpip.c`, `core/sys.c`, `arch/sys_arch.c` | mailbox, list of timeouts, `tcpip_tcp_timer_active` | fetch a message or a timeout, serve it, set timeouts |
| Kernel | `USER/uCOS-II/Source` (`os_core.c`, `os_sem.c`, `os_q.c`, `os_time.c`), `Ports/os_cpu_a.asm` | ready list, wait lists, task control blocks, `OSIntNesting`, PendSV | pend, post, delay, tick, interrupt entry and exit, schedule, switch |
| Start-up | `USER/main.c`, `lwip.c`, `USER/uctsk_TCP_sever.c` | which interrupts, tasks and servers exist | run once |
| Libraries | rest of lwIP, CMSIS, peripheral library | pools, registers | used by effect |

`PROJECT.json` lists these, and the parts nobody needs to model, under
"components".

### Interaction

```
 serial device -> USART ISR -> buffer, counter, flag -> TIM2 ISR -> semaphore
      -> serial-to-TCP task --tcp_write--> connections (tcp_active_pcbs)
                                  queues, heap -> tcp_output -> low_level_output
 Ethernet DMA <-> rings <-> ETH ISR -> mailbox -> TCP/IP thread -> callbacks -> serial line
                    ^-------- low_level_output <- TCP/IP thread, serial-to-TCP tasks
 all of them: semaphores, queues, delays and context switches of uC/OS-II
```

Who preempts whom is decided by numbers. Task priorities: TCP/IP thread 2,
RS232 task 7, RS485 task 8, server task 9. Interrupts: `NVIC_Configuration`
asks for levels 0 to 4 where two bits hold 0 to 3, so the register of USART2
(level 4) overflows to 0. As a result USART2 (RS232) preempts TIM2, while TIM2
preempts USART1 (RS485). `Nvic` derives this; each order has its runs, and the
proofs about `SerialPort` hold for both.

Nothing excludes a task from the TCP/IP thread: the tasks call lwIP's raw API
directly, and `SYS_ARCH_PROTECT` compiles to nothing in the lwIP sources
(`cc.h:57` tests `OS_CRITICAL_METHOD` before the header that defines it is
included, `lwipopts.h` sets `SYS_LIGHTWEIGHT_PROT` to 0, and the linker map
shows no call of `OS_CPU_SR_Save` from `memp.o`, `pbuf.o` or `ethernetif.o`).
Only the heap has a lock of its own, the semaphore `mem_sem`.

### Behaviours that are hard to test, and the properties aimed at them

* Byte interrupt, timer interrupt and task interleave on unprotected variables:
  the task comes round for every byte, none is stale, the length sent is the length received.
* Frames are delimited by a free-running timer, and the RS485 line is shared by
  both directions: ends found promptly, no byte cut by a change of direction, a
  frame interrupted by one posted in time, the line always given back, the
  TCP/IP thread back at its mailbox by a deadline.
* A list is walked without a lock while blocks are moved to its front, unlinked,
  freed and reused: who gets a frame once, and does the cursor find the end?
* The pool of connections runs dry: nothing leaks, the right victim is aborted.
* Segments move between two queues under loss, repetition and reordering: the
  stream has no hole, the counters are exact, nothing is forgotten, what is
  written arrives.
* The heap is split, joined and trimmed in any order: linked, without adjoining
  holes, nothing lent is touched, no needless refusal.
* The interrupt and the DMA controller share rings, and pools run empty on
  every path: order, no leak, no frame forgotten; two threads send at once.
* Timeouts in a list of differences under traffic: none lost, set twice,
  starved or late.
* A post, a time-out and nested interrupts fall together: lists agree, the most
  urgent task runs, nothing posted is lost or doubled.

`PROJECT.json` "hazards" has each at its line, those without a property too.

## 2. Modules

| Module | Models | Lives in the same time as |
|---|---|---|
| `Nvic` | priorities of the interrupts (operators only) | used by `MCSerialPort` |
| `SerialPort` | serial reception of one port, one access of a shared variable per action | |
| `FrameRelay` | what a serial port promises | implemented by `SerialPort` for a self-paced device |
| `FrameTimer` | when TIM2 finds the end of a frame and when the task collects it, for both ports, in timer counts | |
| `Rs485Line` | callbacks that send, transceiver, USART transmitters, start of the tasks | extends `FrameTimer`: both directions in one time line |
| `Connections` | TCP connections, their pool and list, callbacks, the task's walk | thread's operations atomic: it outranks the task |
| `TcpSender` | the send side of one connection, network and client | `Connections` has what `tcp_write` finds when it is called |
| `Heap` | the heap that segments come from | |
| `Allocator` | what a heap promises | implemented by `Heap` |
| `Ethernet` | rings, interrupt handler, mailbox, pools, senders | DMA controller external |
| `TcpipThread` | the thread's loop and its list of timeouts | clock external |
| `Countdown` | what timeouts promise | implemented by `TcpipThread` |
| `Kernel` | semaphores, queues, delays, tick, scheduler, nested interrupts | |
| `Exchange` | what semaphores and queues promise to tasks | implemented by `Kernel` |
| `MC...` | instances for TLC | |
| `..._proofs` | theorems | section 5 |

The operators named "Slip: ..." are plausible bugs. No specification uses them;
they stand before the operator they distort to show that a property would
notice.

### How state and actions correspond to the code

**SerialPort.** `recCounter`, `startTime`, `timeCounter`, `buf`, `sendCounter`
are the variables of that name with their port prefix dropped; `usartPc`,
`timPc`, `taskPc` are the places between two accesses. `UsartMayRun`,
`TimMayRun` and `TaskMayRun` encode preemption: a handler that is outranked
waits, a task waits for both. `TimCompare` has two outcomes because the counter
is not `volatile`, so the compiler may compare the value it has just computed or
read the variable again. The semaphore starts at 1, as in the code. Before it
exists a post is lost. Bytes are numbered in the order of their arrival, so that
stale, lost and duplicated bytes can be told apart. `tcp_write` either refuses
or copies the bytes one at a time, since the byte interrupt may overwrite the
buffer meanwhile. RS232 and RS485 run the same code on their own variables and
share no state but the timer, so a port is checked on its own with its own order
of the interrupts.

**FrameTimer.** 72 MHz divided by 12000 is six counts a millisecond, and the
reload value is the number of *milliseconds* asked for, so the timer interrupts
about once a millisecond rather than every five. `Update` is the interrupt,
which only posts the semaphore; `Collect` is the port's task, which clears the
counter and so ends the frame, some time later. `length` is what the task has
not collected. A post is lost before the task has created the semaphore
(`Create`), with a count of one.

**Rs485Line.** `Elapse` is one count of TIM2 and advances everything that
depends on time together: the frame timer, the shift registers, the tick of
uC/OS-II. `call` is the line of the callback (`lead` and `trail` are its two
sleeps), `dir` the pin. `Write` models the register's rule that a write clears
`TC` only after a read of `SR`; so the first byte ever may find `TC` set by the
idle frame and is not waited for. `OSTimeDlyHMSM(0,0,0,10)` is one tick, which
ends with the next one however near (`Ticks`, `TickStep`). A byte from the
device is lost while the gateway transmits (`Hear`). `StartTask` brings the
tasks up in the order of their priority; the task of RS485 sets the line to
receive when it first runs. The tasks run only while the thread waits or sleeps
(`TasksRun`): while it polls a USART, for most of a segment, nothing is
collected, and what comes in is joined to what waits.

**Connections.** `active` is the list (head and `next` fields), `free` the
pool's LIFO list. `Reg` and `Rmv` are `TCP_REG` and `TCP_RMV`; `Touch`, part of
every action for a segment, moves the block to the front as `tcp_input` does
(where the block is removed in the same step, that it was first at the front
makes no difference); `TimedOut` is `tcp_slowtmr`'s own removal, which keeps
`next` and the state, and `RemovePcb` is `tcp_pcb_remove`, which clears both.
`prio` is 64 until the accept callback sets one of `Prios`. `Victim` is the
scan of `tcp_kill_prio`. The walk is `StartWalk`, `Check` (`tcp_write` looks at
the state), `Enqueue`, `Advance`, `EndWalk`. `Fin` and `Close` are the two calls
of a receive callback, with its sleep in between, during which tasks run but the
thread fetches no other message. `tcp_close` may find no memory for the FIN; its
result is not looked at. The gateway closes only after its client, so FIN_WAIT
and TIME_WAIT do not occur. Each frame goes to every connection of *both*
servers, as in the code. History variables: `owed`, the connections that were
open when the walk began and have not been moved before their turn, and `rough`,
that `Disturbs` held of a block that was moved, cleared or given away: it was the
cursor's own, or the cursor was on a block off the list.

**TcpSender.** `pcb` has the fields of the control block that the send side
uses. `WriteRefused`, `WriteBegin`, `WriteFind`, `WriteLink`, `WriteOutput` are
`tcp_write` and the `tcp_output` behind it, split where the thread can preempt
it to harm, and it may preempt it there at any time; the history variable `raced`
says whether it has. `Receive` is `tcp_input` with
`tcp_receive` and the callback, during which `tcp_input_pcb` keeps `tcp_output`
from sending (`input`); `Rto`, `Probe`, `GiveUp` and `Poll` are the branches of
`tcp_slowtmr`. A segment is its first byte, length, FIN and number of pbufs.
`Carries` lets the network keep any part of what was sent, with what was on its
way already, so it loses, delays and reorders; a segment or an answer that is
sent again is there again. The congestion window is one or several segments,
`snd_buf` an unsigned 16-bit number, which a FIN takes below zero.

**Heap.** A block is named by its offset, `mem` maps it to its `struct mem`.
`Insert` and `Absorb` are the two ways in which blocks are relinked.
`plug_holes` is composed of its two halves in the order of the code.

**Ethernet.** The handler is split at the points where the DMA controller may
act: each look at the ring, each hand-over, the clearing of the pending bits.
Sending is split at the look-up of the buffer, the copy and the submission.

**TcpipThread.** The list holds differences. `Elapsed` is the conversion at the
end of `sys_arch_mbox_fetch` with its unsigned 32-bit arithmetic, `PendTicks`
the one at its beginning.

**Kernel.** Each critical section is an action, so a pend is `Pend`, `Sched`
(`OS_Sched`), the switch (`PendSV`) and `PendReturns`, with interrupts in
between. `isr` is the stack of active handlers. A handler is entered, counts
itself (`Count`, `OSIntNesting++`), posts or looks at the tasks one after
another (`TickTask`, the loop of `OSTimeTick`, which opens a critical section per
task), and leaves through `OSIntExit`. It may be interrupted before it has
counted itself. The tick leaves a task whose time is out on the wait list, from
which the task removes itself when it runs; a post that comes first reaches it
all the same. Semaphores and queues run the same algorithm on different
contents, so `store` is a sequence of units or of messages.

## 3. Runs

| Run | Question | Result |
|---|---|---|
| `rs485_fair` | RS485, every interleaving, a device that sends at will: types, no stale byte; does the task come round to clear the counter after every byte? | holds |
| `rs232_paced` | RS232, self-paced device: does the port implement `FrameRelay`, liveness included? | holds |
| `rs232_race` | RS232, any device: is the length sent the length received? | violated |
| `rs485_line` | both directions of the line in real time: ends of frames found promptly, no cut byte, an interrupted frame posted in time, deadline, line given back | holds |
| `connections` | list, pool and cursor under all interleavings; half-open connections; do the links lead the cursor to the end from wherever it is; who gets the frame once; does the walk end; is the victim the right one? | holds |
| `tcp_sender` | queues, counters, timers of a connection over a bad network, tasks not being held up inside `tcp_write`; does what is written arrive, or the connection end? | holds |
| `write_race` | the thread preempts `tcp_write`: if pbufs are counted, does a queue hold them? | violated |
| `heap` | links, holes, lent blocks, refusals; does the heap implement `Allocator`? | holds |
| `ethernet` | order, leaks and unnoticed frames on reception; sending with one sender at a time | holds |
| `tx_race` | two senders at once: do frames go out as given? | violated |
| `tcpip_thread` | are timeouts all served, kept once, a tick late at most, and do they implement `Countdown`? | holds |
| `kernel` | lists, waiters, the running task; do semaphores and queues implement `Exchange`; does a wait with a time-out end? | holds |

### What the violations show

* `rs232_race`: `uctsk_TCP_client.c` reads the counter on line 80 and clears it
  on line 81 with interrupts enabled. A byte between the two is counted, its
  count is erased, and it is never sent.
* `write_race`: `tcp_enqueue` reads `snd_queuelen`, works on the queues and
  writes the sum back (`tcp_out.c:411`). The thread, which preempts the task,
  takes an acknowledged segment off the queue in between, and its pbufs off the
  count; the task restores the old count. With empty queues the count stays above
  zero for good, and once it has crept up to the limit the connection refuses
  every frame.
* `tx_race`: a task is preempted while it copies a frame into the current transmit
  buffer; the thread uses the same buffer and submits it. The task then submits
  the next one, which it never filled.

### Defects met while modelling that have no run of their own

* **Frames are cut.** TIM2 is not restarted by a byte, and its period is one
  millisecond (`stm32f107.c:111`), where the header `RS232_485_to_TCP.h:55` calls
  `RS232_TIMER_OUT`, 5 ms, the greatest time between two bytes of a frame. In the
  middle of a frame longer than a period it posts (`LongFramesArePosted`), and
  the task, if it gets to run, cuts the frame there.
* **Frames are joined.** A frame ends only where the task clears the counter
  (`uctsk_TCP_client.c:110`). While the TCP/IP thread polls a USART for a whole
  segment, up to 0.76 s on RS485, no task does; RS232's frames are joined
  meanwhile, and its 8-bit counter wraps. Nothing therefore is stated of
  collected frames; `InterruptedFramePosted` is what holds on RS485.
* **Walks over a list that changes.** Every segment moves its connection to the
  front of the list (`tcp_in.c:189`) that the task walks without a lock
  (`uctsk_TCP_client.c:83`). A client whose turn has not come misses the frame; if
  it is the cursor's own, the walk starts over and others get the frame twice.
  `TCP_RMV` under the cursor sets `next` to NULL, so the clients behind it miss the
  frame; `tcp_slowtmr` leaves `next` and state as they are, and the walk goes on,
  unless the block is given away first. `SentToAllOnce` says what is left: a
  connection that is not moved before its turn gets the frame once, if the
  cursor's block is neither moved, cleared nor given away (nor any block while the
  cursor is on one that `tcp_slowtmr` has taken out). In any case
  `CursorFindsTheEnd` holds, and a walk that does not end (`WalksEnd`) has blocks
  put ahead of its cursor again and again. Where the cursor is on a block that
  `tcp_slowtmr` has freed, `tcp_write` finds it open and queues segments on it.
* **Timeouts go off early.** A message that ends a wait of no tick is taken for a
  wrap-around of the clock, and the next timeout goes off at once:
  `sys_arch.c:217` has `>` where `sys_arch_sem_wait` (line 297) has `>=`.
  `LateByTicksOnly` bounds lateness only.
* **Closed before all is sent.** In LAST_ACK an acknowledgement of all that was
  *sent* ends the connection, although data and the FIN itself may still wait on
  `unsent` (`tcp_in.c:725`); they are freed. `tcp.c:194-196` expects that unsent
  data are still sent by the timer functions.
* **Half open for good.** A FIN that cannot be answered for want of memory leaves
  the connection in CLOSE_WAIT until its block is needed
  (`TCP_to_RS232_485.C:129`); `HalfOpenOnlyIfRefused` shows that it is the only
  way to get there.
* **Persist mode.** While the persist timer runs the retransmission timer stands
  still, so that data lost just before are recovered a byte per probe.
  `WrittenIsDelivered` holds all the same.
* **Long segments.** The callbacks send `tot_len` bytes from the first pbuf's
  payload (`TCP_to_RS232_485.C:124`); a segment of more than 1446 bytes comes as
  a chain of two, and what follows the first pbuf in memory is sent instead.
* **A count that steps over its limit.** `nrtx` is compared with `TCP_MAXRTX` for
  equality (`tcp.c:608`), and fast retransmission increments it as well.

### Bounds

| Run | Bounds | Why they are enough |
|---|---|---|
| `rs485_fair` | 3 bytes in all, counter of 3 values in a buffer of 4, 1 client | the counter wraps (the real one wraps at 256 in a buffer of 2048), and bytes arrive in every part of two task rounds |
| `rs232_paced` | frames of 1 to 3 bytes, 6 in all, counter of 4 values, 2 clients | several frames per behaviour, two clients to compare, no wrap: frames are shorter than the counter |
| `rs232_race` | 3 one-byte frames | the counterexample needs two bytes |
| `rs485_line` | the board's priorities; a period of TIM2 of 4 counts instead of 6, byte times in proportion, a tick of 5 counts instead of 60; segments of 1 or 2 bytes; silence counted up to 4, waiting bytes up to 1, semaphores up to 2 | a tick is longer than a period of TIM2 and a byte (2), which is what the code relies on; every phase of timer, tick and byte occurs; a post is pending while another comes, and one is refused; the properties ask only whether bytes wait; the proofs cover the real times |
| `connections` | 3 blocks, one server (priorities 1 and, before it accepts, 64), idle times 0 or 1 | first, middle and last block of the list, each moved to the front, taken out or under the cursor; empty and full pool, a reused block, connections of equal and of different priority; the proofs cover any priorities |
| `tcp_sender`, `write_race` | segments of 2 bytes, `snd_buf` 2, 2 pbufs, frames of 1 or 2 bytes, 3 bytes in all, window 2, 1 retransmission, 1 segment and 1 answer on their way | full and empty buffers, chained and separate segments, a closed window, a FIN behind data, `snd_buf` below zero, giving up; with one packet in flight old ones still overtake new ones, since either may be the one kept |
| `heap` | 44 bytes, heads of 4, data of at least 6, alignment 2, requests of 0, 3, 7 and 15 | four blocks, holes that can and cannot be split, requests that fill a hole and miss it by less than a head; the proofs cover any length |
| `ethernet`, `tx_race` | 3 receive and 2 transmit descriptors, 3 pbufs, 3 messages and a mailbox of 2 (`tx_race`: 2 and 3), packets of 1 or 2 pbufs, 2 threads | every pool, the mailbox and the rings are exhausted, and the rings wrap around |
| `tcpip_thread` | a tick of 3 ms, intervals of 2, 4 and 6 ticks, 6-bit words | the wrong elapsed time exceeds every interval as it does in 32 bits; all orders of the three timers occur |
| `kernel` | two tasks and the idle task, a semaphore and a queue of one message, time-outs of none and 2 ticks, delays of 1 tick, one device that preempts the clock's handler | two tasks wait for one event, a full queue, a time-out beside a post, an interrupt inside the clock's loop; the order in a longer queue and more tasks are covered by the proofs |

No bound is in an invariant. `MaxBytes`, `LengthCap`, `SilenceCap`, `MaxSegment`,
`SemMax`, `NetCap` and `MaxIdle` are the only ones that are not sizes of the system.
Deadlock is checked except in `tcp_sender` and `write_race`, whose connection ends.

### Fairness

* `SerialPort`: strong fairness of a started handler's and the task's steps.
  TIM2 interrupts once a millisecond and handlers take microseconds, so whoever
  is preempted runs again; with interrupts arriving again and again a step is
  enabled infinitely often but not continuously, hence strong. Weak fairness of
  TIM2, which runs freely. `UsartEnter` is fair because a frame once begun is
  sent to its end.
* `Rs485Line`: weak fairness of time (`Elapse`) and of the thread. Nothing is
  asked of devices or clients.
* `Connections`: weak fairness of the callback's end (`Rs485Line` shows that it
  ends), strong fairness of the task for the reason given above.
* `TcpSender`: weak fairness of the rest of a `tcp_write`; strong fairness of the
  slow timer's actions (it ticks every 500 ms) and of the callback's end; the
  network does not lose *every* copy of what is sent again and again, neither a
  segment that is in order, nor one the client has already, nor the answer it
  gives now; the client opens its window in the end. The latter two are the
  premises of any TCP. Nothing is asked of writes and closes.
* `TcpipThread`: weak fairness of the clock and the thread, not of messages. A
  timeout is served however many or few messages come.
* `Kernel`: the clock ticks, handlers end, PendSV and the most urgent task get
  time, all strong because interrupts disable them again and again. No fairness
  of tasks' calls, posts or the device.

### Environments

`PacedSpec` assumes that the device begins a frame only when the gateway is idle
and that TIM2 does not fire inside a frame. The code enforces neither; at
115200 baud a byte takes about 95 us, so it is the case for frames of a few
bytes. It is what the gateway needs to relay frames as wholes, and `rs232_race`
shows what happens otherwise. `AloneSpec` of `Ethernet` assumes one sender at a
time and a transmit ring with room; `tx_race` drops the former. `AloneSpec` of
`TcpSender` takes the behaviours in which the thread does not hold a task up
between the beginning of a `tcp_write` and the end of the `tcp_output` behind it;
the thread has priority 2 and the tasks 7 and 8, so the code does not see to that,
and `write_race` and the theorems do without. The pools of
`Ethernet` are taken to be served one at a time, which the compiled code does not
ensure (section 6).

## 4. Abstract specifications

* `FrameRelay`: a frame is collected, taken in hand whole, and offered to every
  connection once, the same bytes to each, accepted whole or refused. The mapping
  (`Relay` in `SerialPort`) reads the frame being collected and the one in hand
  from the history variables `taken` and `handLo`, and the connections still to
  be offered it from the task's cursor. `RelaysFrames` includes liveness.
* `Countdown`: timers count down together, and the one with the least time left
  goes off next. The mapping (`Abstract` in `TcpipThread`) sums the differences.
* `Allocator`: disjoint pieces of memory, given out, returned and made smaller.
  The mapping forgets holes and links: a block in use, with its end, is a piece.
* `Exchange`: what is posted is granted to the most urgent waiting task, or kept
  in order if there is room, or refused if there is none; a wait ends with what
  was granted, or times out when nothing was granted and nothing is there. Posts
  are part of the state (the history variable `out` of both specifications, with
  a bit that makes two equal posts in a row two different states), so that a post
  that vanishes, whether a task waits, or there is room, is no step of `Exchange`.
  The mapping takes a task for waiting
  from `Pend` to `PendReturns`, and for having been granted its message once it
  is ready without a time-out.

## 5. Proofs

Checked by TLAPS with SMT, Zenon and PTL; no step is left open. Each holds for
every value of the constants that meets the named assumptions.

| Theorem | Says |
|---|---|
| `SerialPort_proofs!TypeCorrect` | `TypeOK`: no store and no copy outside the buffer |
| `SerialPort_proofs!NothingStranded`, `NothingStale` | `NoStrandedBytes`, `NoStaleBytes` |
| `SerialPort_proofs!ImplementsRelay` | `SerialPort` implements `FrameRelay!Safety` for a self-paced device |
| `Rs485Line_proofs!FramesClosedPromptly`, `LongFramesArePosted` | `ClosedPromptly`, `UnpostedFitOnePeriod` of `FrameTimer` |
| `Rs485Line_proofs!LineTypeCorrect`, `NoByteIsCut`, `NoByteIsOverwritten` | `LineTypeOK`, `NoByteCut`, `NothingOverwritten` |
| `Rs485Line_proofs!FrameIsPostedInTime`, `ThreadIsBackByDeadline` | `InterruptedFramePosted`, `BackByDeadline` |
| `Rs485Line_proofs!LineClosesPromptly`, `LinePostsLongFrames` | what `FrameTimer` promises, on the composed line |
| `Connections_proofs!TypeCorrect`, `CursorIsNeverCaught` | `TypeOK` (the task never uses a NULL cursor), `CursorFindsTheEnd` |
| `Connections_proofs!HalfOpenOnlyByRefusal` | `HalfOpenOnlyIfRefused` |
| `Connections_proofs!PoolPartitioned` | `PoolIsPartitioned` |
| `Connections_proofs!SentOnce` | `SentToAllOnce`, an action property |
| `Connections_proofs!VictimUndominated` | `VictimIsUndominated` |
| `TcpSender_proofs!TypeCorrect`, `NothingForgotten` | `TypeOK`, `SomethingIsDue`, until the thread runs inside `tcp_write` |
| `TcpSender_proofs!StreamCovered`, `CountersExact` | `QueuesCoverTheStream`, `CountersAreExact`, likewise |
| `TcpSender_proofs!ClosedComplete` | `ClosedWhenSentArrived`, also after the thread has run inside `tcp_write` |
| `Heap_proofs!TypeCorrect`, `StaysLinked`, `HolesAreJoined`, `HeldIsKept` | `TypeOK`, `HeapIsLinked`, `NoTwoHoles` with `LowestFree`, `LentBlocksAreKept` |
| `Heap_proofs!NoNeedlessRefusal` | `RefusedOnlyWhenNothingFits` |
| `Heap_proofs!ImplementsAllocator` | `Heap` implements `Allocator` |
| `Kernel_proofs!TypeCorrect`, `ListsAlwaysAgree` | `TypeOK`, `ListsAgree` |
| `Kernel_proofs!NothingIsKept`, `HighestAlwaysRuns` | `NothingKeptFromWaiters`, `HighestRuns` |
| `Kernel_proofs!ImplementsExchange` | `Kernel` implements `Exchange` |
| `Ethernet_proofs!ReceivedInOrder`, `OneUnnoticedAtMost` | `RingInOrder`, `AtMostOneUnnoticed` |
| `Ethernet_proofs!ReceptionIgnoresSenders` | both, also while senders race |
| `Ethernet_proofs!SentInOrder` | `SentAsGiven` with one sender at a time |
| `Ethernet_proofs!NothingLost`, `TypeCorrect` | `NoLeak`, `TypeOK` |
| `TcpipThread_proofs!TypeCorrect`, `TimersStayArmed` | `TypeOK`, `TimersArmed` |
| `TcpipThread_proofs!NeverLate` | `LateByTicksOnly` |
| `TcpipThread_proofs!ImplementsCountdown` | `TcpipThread` implements `Countdown` |

*Assumptions.* They are named where the constants are declared, and TLC evaluates
them in every run of the module. Most say no more than that a count is a number
and a set finite. Those that carry weight:

* `BufferAssumption`: the received-byte counter is no wider than the buffer is
  long (256 and 2048).
* `DelayAssumption`: a kernel tick is longer than TIM2's period and no shorter
  than a byte on RS485. `NoFrameIsSpliced` and `NoByteIsCut` need one half each.
* `PrioAssumption`: the task that sets up the line outranks the one that opens
  the server, so no callback runs before the pin is set.
* `HeapAssumption`: the heap holds a header and the smallest block.
* `KernelAssumption`: priorities are numbers, the idle task's is the lowest, and
  `None` is neither an event nor something posted.
* `SenderAssumption`: `TCP_SND_BUF` fits its 16 bits, and no frame is longer than
  a segment.
* `ClockAssumption`: a tick is a whole number of milliseconds, at least one.
  Nothing is assumed of the width of the word in which `sys_arch_mbox_fetch`
  computes.
* `TimerAssumption` of `TcpipThread`: the pool has an element for each of the
  three timers. With fewer, one is never set again.

*SerialPort.* `IInv` joins `TypeOK`, `NoStrandedBytes`, `NoStaleBytes` and
`FreshBytes`. `NoStrandedBytes` is inductive given the types, whichever
interrupt outranks the other. It counts the bytes that *arrived* since the task
last cleared the counter, not what the counter shows, so that a counter that has
wrapped to zero does not satisfy it. It does not say that each byte is among
those then taken: that is false (`rs232_race`). `NoStaleBytes` is not: the byte interrupt
overwrites the buffer during a copy, and what it writes is fresh only because
bytes after the last clearing are numbered above `taken`. `FreshBytes` says so
for the counted bytes, the byte being counted and those whose number the task
has read. The first theorem needs that the counter cannot pass the buffer's end;
the test for an overflow in the handler, which compares an 8-bit counter with
2048, never takes effect.

*SerialPort implements FrameRelay.* Two hypotheses go with `PacedSpec`:
`UsartOutranks`, which the priority registers grant RS232 (`Nvic`), and
`FramesFit`, since a frame as long as the counter's range would wrap it.
`PacedInv` says what the port is doing at each moment: which bytes are counted
(`PacedCount`), whose turn it is (`PacedTurns`) and what the buffer holds
(`PacedBytes`). Why two frames never meet is in the turns: a frame is posted
once, the task waits until then, and a new one starts only when it waits again;
that the buffer is empty then is `NoStrandedBytes`. `StartFrame` and `UsartEnter`
map to the relay's `StartFrame` and `Receive`, `TaskClear` to `Take` (or to
nothing on the semaphore's first count, before any byte), each connection of the
walk to `Offer`, and all other steps to nothing.

*FrameTimer.* While a port is being timed, its silence began after the timer last
wrapped, and so did the bytes that wait, as long as none has been posted for
(`TimedSinceWrap`); a byte's time apart, they fit in one period.

*Rs485Line.* Every step of the line is a step of `FrameTimer` or leaves its
variables alone, so `TimedSinceWrap` carries over and with it the frame timer's
promises. The rest of `LineInv` is about the transmitter: the pin is turned
exactly while the callback runs (`PinFollowsCall`), TC is false while bytes are
under way (`WireIsTracked`), and the sleep before the pin is turned back ends on
a tick, which is later than the last byte (`LineIsQuiet`). A transmission
therefore lasts at least a tick (`LastsATick`), time enough for TIM2 to post for
a frame that it interrupted, and at most the bytes' time and two ticks (`TimeIsSpent`).

*Connections.* `OrderInv` says that the links spell a sequence (`InOrder`) in which
each open connection occurs once (`Chain`). Three operations on sequences do to it
what the code does to the links, for any list: put in front (`RegChain`), taken out
(`UnlinkChain`, `RmvChain`), moved to the front (`MovedChain`), and each leaves the
links of blocks outside the list alone. The length of the sequence is the number
of connections, so the scans end and the pool is partitioned.
`HalfOpenOnlyIfRefused` needs `ClosedOnce`: `tcp_close` is not called again for a
connection it has refused.

A freed block may lead on. `FreeLeadsOn` says whereto: to nothing, to the list, or
to a block that was freed *after* it, which is nearer the pool's head, since blocks
come and go at that end. So by induction along the free list a path leads from
every block to the end of the list (`AllLead`), no longer than the pool is large;
that is `CursorFindsTheEnd`. `WalkOf` splits the walk at the cursor: it is on its way
along blocks that were taken out under it (`u`) to the `c`-th connection of the
list; those before that have been offered the frame, those from there on are owed
it. A connection put in front comes before the cursor; one taken out by
`tcp_slowtmr` from under it is appended to `u` (`LedOn`). The scan for the victim
is a fold over the sequence; by induction along it, what it holds is dominated by
none it has passed.

*TcpSender.* `Sound` says of a control block between two calls that `unacked`
followed by `unsent` is one chain of segments (`Chained`) from the first byte not
acknowledged to the last one written (`Spans`), that what is on `unacked` was sent
and fits the window (`Sent`), and that both counters can be computed from the chain
(`Counted`), where a FIN takes `snd_buf` below zero. Retransmission moves segments
between the queues but leaves the chain as it is, which is why it does not matter
how often; that the out-of-order test of `tcp_output` inserts them where they
belong needs that chains rise. `EdgesAdvance` is about the network: whatever old
acknowledgements it still carries, none announces a window whose right edge is
beyond that of a later one, so the window is never taken back. `OnlySent` keeps
what is on its way below what was written, which types the client. `CallCurrent` is
what fails when the thread preempts `tcp_write`: the theorems are about `Spec`, in
which it may, and say what holds for as long as `raced` is false, between
`tcp_write` and `tcp_output` included. Nothing in the code keeps `raced` false, and
run `write_race` shows the counters wrong after it has become true.

`ClosedComplete` does without. Its invariant, `NetInv`, says nothing of the counters
and only that the queues hold segments, whatever the race has made of them; that no
acknowledgement on its way exceeds what the client has; and that the client keeps
what it has. `tcp_process` therefore finds `snd_nxt` acknowledged only when the
client is that far, and a closed block is not written to again.

*Heap.* `IInv` is the conjunction of the named parts. Joining a block with its
neighbours keeps the links because the neighbours' own links name the block, and
one pass suffices because no two holes were side by side before. That `mem_free`
need only compare the freed block with `lfree` rests on `LowestFree`; that
`mem_malloc` finds the next one by walking up rests on the least element of a set
of numbers (`WFMin`). The refinement forgets the holes: `Allocator` knows only
the blocks in use.

*Kernel.* `KernelInv` is the types with `ListsAgree`, `StatusFits` (what a task's
control block says of what it is doing), `NothingKeptFromWaiters`,
`NestingCounts` (OSIntNesting is the number of handlers that have counted
themselves and not returned) and `HighestRuns`. The
refinement maps a task's status and its place in a wait list to one state of
waiting, and a post either to the grant of what is posted or to its being kept.

*Ethernet.* `Queues(n, S, g, p, c)`: the taken places of a ring are the first `c`
from `g` on, and `p` is the one behind them. Two lemmas (`Put`, `TakeOut`) move
either end of a ring of any length; both rings of the driver are instances.
`RxInv` adds what the handler knows at each step, `TxInv` that the buffer a
sender copies into belongs to nobody else. The latter is the part two senders
break (run `tx_race`). `PoolInv` counts: the pbufs in the pool, with the handler, in
the mailbox and with the thread are all there are, where the mailbox's share is a
sum over its messages. It is independent of the rings except that every full
descriptor holds a frame.

*TcpipThread.* `ArmedInv` says that the list is one of timeouts and no timer is in
it twice, so it is as long as the set of its timers and there is room for one
that is not in it. `LateInv` is the accounting behind `LateByTicksOnly`: what a
timer has waited and what it has left exceed its interval by the wait that is
going on, and by less than a tick for each timeout that went off since. It is
preserved because `PendTicks` rounds down, except to one tick, so a wait lasts less
than a tick longer than it should, and because `Elapsed` never charges less than
the time that has passed, also where it takes no tick for a wrap-around. The
differences of the timers behind the head stay as they are. The refinement takes a
timer's time left to be the sum of the differences up to it: inserting at a place
splits a difference and keeps all sums, and taking the head off subtracts the same
from each.

*Induction.* Sums and folds along a sequence are proved about by hand: the set of
places at which a claim fails has a least element, which the library's facts on
finite sets give. The lemmas that say so (`Steps`, `TopOf`, `FoldExists`) stand at
the head of `Connections_proofs`, `Ethernet_proofs`, `TcpSender_proofs` and
`TcpipThread_proofs`.

*Only model-checked.* Liveness, which the prover does not reach: `BytesAreCollected`,
`LineIsReleased`, `WalksEnd`, `WrittenIsDelivered`, `AllGoOff`, `ComesBack`, and the
fairness of `FrameRelay`, which `RelaysFrames` includes and `ImplementsRelay` does
not. Every invariant and action property that a passing run checks is also a
theorem.

## 6. Not modelled

* *Receiving side of TCP*: a client's data are a length (`Rs485Line`) or a reason
  for the callback to run (`TcpSender`). Options, checksums and urgent data are
  left out; sequence numbers do not wrap around.
* *Received frames longer than one buffer*, which leave the driver unable to read
  on (`stm32_eth.c:657`), and a *full transmit ring*, on which a frame waiting to
  be sent is overwritten and success reported (`ethernetif.c:437`).
* *The free lists of `memp.c`*: pool operations are single steps, although the
  Ethernet interrupt may run in the middle of one (`memp.c:305`). `NoLeak` holds
  under that assumption only.
* *`sys_mbox_post`'s ten attempts* (`sys_arch.c:131`), after which a message is
  dropped without notice.
* *Time* spent in handlers of the TCP/IP thread other than sending serial data;
  OSTime's wrap-around (after 497 days).
* *Kernel services the gateway never calls*: suspending, deleting, aborting and
  multiple waits, locking the scheduler, mailboxes, flags, mutexes, timers.
* *ARP, IP, ICMP, UDP* and the sequential API: third-party code used unchanged;
  nothing in the gateway depends on more than their timers, which are modelled.
* *Code that is not built or never called*: PPP, SNMP, IPv6, DHCP, DNS, sockets,
  slipif, the unit tests, legacy variants. Together with the peripheral
  libraries, register headers, fonts and start-up assembly this is most of the
  repository's lines.

## 7. What could come next

1. A pool module: the free list of `memp.c` with interrupt and threads inside
   it, and an abstract pool that it implements when nothing preempts it.
2. `Ethernet` with frames of two descriptors and a full transmit ring.
3. `TcpSender` with a client that sends data, composed with `Rs485Line`'s
   callback, and several connections that share `Heap`.
4. More that remains true after the thread has run inside `tcp_write`: so far only
   that a close is complete.
