---------------------------- MODULE TcpipThread ----------------------------
(***************************************************************************)
(* The TCP/IP thread as a server of messages and timeouts.  sys_mbox_fetch *)
(* waits for a message no longer than the first timeout of the thread's    *)
(* list lets it; the list holds, for each timeout, the time between the    *)
(* one before it and itself.                                               *)
(*                                                                         *)
(* The time the thread spends in its handlers is never counted by the      *)
(* code, so ticks of the clock appear here only while it waits.  OSTime is *)
(* taken not to wrap around during a wait (it does after 497 days).        *)
(***************************************************************************)
EXTENDS Naturals, Sequences, SequencesExt, FiniteSets, TLC

CONSTANTS
  TcpTimer, IpTimer, ArpTimer,
  Interval,      \* TCP_TMR_INTERVAL, IP_TMR_INTERVAL, ARP_TMR_INTERVAL
  MsPerSec, TicksPerSec,
  WordMod,       \* values an unsigned 32-bit number takes
  MaxTicks,      \* the greatest time-out of OSQPend, 65535
  TimeoutPool    \* MEMP_NUM_SYS_TIMEOUT

Timers == {TcpTimer, IpTimer, ArpTimer}

ASSUME ClockAssumption ==
  /\ TicksPerSec \in Nat \ {0} /\ MsPerSec \in Nat
  /\ MsPerSec % TicksPerSec = 0 /\ MsPerSec >= TicksPerSec
  /\ WordMod \in Nat \ {0} /\ MaxTicks \in Nat \ {0}
ASSUME IntervalAssumption == Interval \in [Timers -> Nat \ {0}]
\* An element of the pool for each of the three timers.
ASSUME TimerAssumption ==
  /\ TcpTimer # IpTimer /\ TcpTimer # ArpTimer /\ IpTimer # ArpTimer
  /\ TimeoutPool \in Nat /\ TimeoutPool >= 3

VARIABLES
  list,     \* lwip_timeouts[0]: a sequence of [h, time]
  pcbs,     \* whether tcp_active_pcbs has a connection
  timerOn,  \* tcpip_tcp_timer_active
  pc,       \* "again": in sys_mbox_fetch; "pend": in OSQPend
  ticks,    \* OSTCBDly: ticks until OSQPend times out
  spent,    \* ticks since OSQPend began
  waited,   \* history: per timer, ticks since it was set
  fires     \* history: per timer, timeouts since it was set

vars == <<list, pcbs, timerOn, pc, ticks, spent, waited, fires>>

TickMs == MsPerSec \div TicksPerSec

-----------------------------------------------------------------------------
(* The list *)

\* When the k-th timeout of the list is due, from now.
Due(l, k) == FoldLeft(LAMBDA sum, t : sum + t.time, 0, SubSeq(l, 1, k))

\* Slip: the successor keeps its time.
InsertKeeps(l, h, ms) ==
  LET k == Cardinality({i \in 1 .. Len(l) : Due(l, i) <= ms})
  IN  InsertAt(l, k + 1, [h |-> h, time |-> ms - Due(l, k)])

\* sys_timeout's search: behind the timeouts that are due no later, with what
\* is left of its time, which the next one then waits less.
Insert(l, h, ms) ==
  LET k    == Cardinality({i \in 1 .. Len(l) : Due(l, i) <= ms})
      time == ms - Due(l, k)
      rest == IF k = Len(l) THEN l ELSE [l EXCEPT ![k + 1].time = @ - time]
  IN  InsertAt(rest, k + 1, [h |-> h, time |-> time])

\* sys_timeout: without a free element the timeout is not set.
Timeout(l, h) == IF Len(l) < TimeoutPool THEN Insert(l, h, Interval[h]) ELSE l

-----------------------------------------------------------------------------
(* sys_arch_mbox_fetch *)

\* Slip: rounded up.
PendTicksUp(ms) ==
  LET n == ((ms * TicksPerSec) % WordMod) \div MsPerSec
  IN  IF n > MaxTicks THEN MaxTicks ELSE n + 1

\* The time-out in ticks.
PendTicks(ms) ==
  LET n == ((ms * TicksPerSec) % WordMod) \div MsPerSec
  IN  IF n < 1 THEN 1 ELSE IF n > MaxTicks THEN MaxTicks ELSE n

\* The milliseconds reported after n ticks.  The clock has to have advanced
\* for the difference to be taken; otherwise it is taken to have wrapped.
Elapsed(n) ==
  LET diff == IF n > 0 THEN n ELSE WordMod - 1
  IN  ((diff * MsPerSec) % WordMod) \div TicksPerSec + 1

-----------------------------------------------------------------------------
\* tcpip_thread sets these before its first message.
Init ==
  /\ list = Timeout(Timeout(<<>>, IpTimer), ArpTimer)
  /\ pcbs = FALSE /\ timerOn = FALSE
  /\ pc = "again" /\ ticks = 0 /\ spent = 0
  /\ waited = [h \in Timers |-> 0] /\ fires = [h \in Timers |-> 0]

InList == {list[i].h : i \in 1 .. Len(list)}

Reset(f, h) == [f EXCEPT ![h] = 0]
\* One more for every timer that is set.
More(f) == [h \in Timers |-> IF h \in InList THEN f[h] + 1 ELSE 0]

\* Slip: the TCP timer forgets that it is off.
FireStaysOn ==
  LET h    == Head(list).h
      rest == Tail(list)
  IN  /\ \/ h # TcpTimer /\ list' = Timeout(rest, h) /\ UNCHANGED <<pcbs, timerOn>>
         \/ h = TcpTimer /\ pcbs' \in {pcbs, FALSE}
            /\ list' = (IF pcbs' THEN Timeout(rest, h) ELSE rest) /\ UNCHANGED timerOn
      /\ waited' = Reset(waited, h) /\ fires' = Reset(More(fires), h)
      /\ pc' = "again" /\ ticks' = 0 /\ spent' = 0

\* The first timeout goes off: it is removed and its handler called.  The
\* handlers of IP and ARP set it again; tcpip_tcp_timer, whose tcp_tmr may end
\* connections, only while there are any.
Fire ==
  LET h    == Head(list).h
      rest == Tail(list)
  IN  /\ \/ h # TcpTimer /\ list' = Timeout(rest, h) /\ UNCHANGED <<pcbs, timerOn>>
         \/ h = TcpTimer /\ pcbs' \in {pcbs, FALSE} /\ timerOn' = pcbs'
            /\ list' = IF pcbs' THEN Timeout(rest, h) ELSE rest
      /\ waited' = Reset(waited, h) /\ fires' = Reset(More(fires), h)
      /\ pc' = "again" /\ ticks' = 0 /\ spent' = 0

\* A timeout that is due goes off before the mailbox is looked at.
FireDue == pc = "again" /\ Head(list).time = 0 /\ Fire

Pend ==
  /\ pc = "again" /\ Head(list).time > 0
  /\ pc' = "pend" /\ ticks' = PendTicks(Head(list).time) /\ spent' = 0
  /\ UNCHANGED <<list, pcbs, timerOn, waited, fires>>

Tick ==
  /\ pc = "pend" /\ ticks > 0
  /\ ticks' = ticks - 1 /\ spent' = spent + 1
  /\ waited' = More(waited)
  /\ UNCHANGED <<list, pcbs, timerOn, pc, fires>>

\* OSQPend times out.
Expire == pc = "pend" /\ ticks = 0 /\ Fire

\* Slip: the time of the wait is not subtracted.
ChargedNot == list

\* A message comes first: the first timeout is charged with the time reported.
Charged ==
  LET needed == Elapsed(spent)
  IN  [list EXCEPT ![1].time = IF needed < @ THEN @ - needed ELSE 0]

Received ==
  /\ pc = "pend" /\ ticks > 0
  /\ pc' = "again" /\ ticks' = 0 /\ spent' = 0

\* A packet that opens a connection: TCP_REG calls tcp_timer_needed, which sets
\* the TCP timer unless it is on.
Opens ==
  /\ Received
  /\ pcbs' = TRUE /\ timerOn' = TRUE
  /\ IF timerOn
       THEN list' = Charged /\ UNCHANGED <<waited, fires>>
       ELSE /\ list' = Timeout(Charged, TcpTimer)
            /\ waited' = Reset(waited, TcpTimer) /\ fires' = Reset(fires, TcpTimer)

\* Any other message; it may end the last connection.
Serves ==
  /\ Received
  /\ pcbs' \in {pcbs, FALSE}
  /\ list' = Charged
  /\ UNCHANGED <<timerOn, waited, fires>>

Next == FireDue \/ Pend \/ Tick \/ Expire \/ Opens \/ Serves

Spec == Init /\ [][Next]_vars
FairSpec == Spec /\ WF_vars(FireDue \/ Pend \/ Tick \/ Expire)
-----------------------------------------------------------------------------
(* Properties *)

Place(h) == CHOOSE i \in 1 .. Len(list) : list[i].h = h

TypeOK ==
  /\ list \in Seq([h : Timers, time : Nat])
  /\ pcbs \in BOOLEAN /\ timerOn \in BOOLEAN /\ pc \in {"again", "pend"}
  /\ ticks \in 0 .. MaxTicks /\ spent \in Nat
  /\ waited \in [Timers -> Nat] /\ fires \in [Timers -> Nat]

\* Every timer is in the list once: those of IP and ARP always, that of TCP
\* whenever there is a connection, and its flag tells whether it is.
TimersArmed ==
  /\ Len(list) = Cardinality(InList)
  /\ {IpTimer, ArpTimer} \subseteq InList
  /\ timerOn <=> TcpTimer \in InList
  /\ pcbs => timerOn

\* The inductive invariant: the list is one of timeouts, each timer's at most
\* once, and its timers are the right ones.
ListOfTimeouts(l) ==
  /\ l \in Seq({l[i] : i \in 1 .. Len(l)})
  /\ \A i \in 1 .. Len(l) : /\ l[i] = [h |-> l[i].h, time |-> l[i].time]
                            /\ l[i].h \in Timers
  /\ \A i, j \in 1 .. Len(l) : l[i].h = l[j].h => i = j

ArmedInv ==
  /\ ListOfTimeouts(list) /\ {IpTimer, ArpTimer} \subseteq InList
  /\ pcbs \in BOOLEAN /\ timerOn \in BOOLEAN
  /\ timerOn <=> TcpTimer \in InList
  /\ pcbs => timerOn

\* A timeout is late by less than a tick for itself and for every other one
\* that went off since it was set, apart from the time the thread was busy.
LateByTicksOnly ==
  \A h \in InList : waited[h] * TickMs <= Interval[h] + (fires[h] + 1) * (TickMs - 1)

\* The list of differences is a set of timers that count down together.
Left == [h \in InList |-> Due(list, Place(h))]
Abstract == INSTANCE Countdown WITH left <- Left
CountsDown == Abstract!Spec

\* The inductive invariant of the times: what a timer has waited and what it
\* has left exceed its interval by the wait that is going on, and by less than
\* a tick for each timeout that went off since it was set.
LateInv ==
  /\ pc = "again" => spent = 0
  /\ pc = "pend"  => list[1].time > 0 /\ spent + ticks = PendTicks(list[1].time)
  /\ \A h \in InList : waited[h] * TickMs + Left[h]
                         <= Interval[h] + fires[h] * (TickMs - 1) + spent * TickMs

TimeInv == ArmedInv /\ TypeOK /\ LateInv

\* No timer starves behind the others or behind the traffic: every one that is
\* set comes to the head of the list, where it goes off unless one that is due
\* earlier is put before it.
AllGoOff == \A h \in Timers : h \in InList ~> Head(list).h = h
=============================================================================
