------------------------------- MODULE Kernel -------------------------------
(***************************************************************************)
(* The part of uC/OS-II that the gateway runs on: semaphores and message   *)
(* queues with their wait lists and time-outs, delays, the tick, and the   *)
(* scheduler with its context switch in PendSV.  Each critical section of  *)
(* the kernel is a step; interrupts come between them and nest.            *)
(*                                                                         *)
(* A semaphore is an event that holds units, a queue one that holds        *)
(* messages: OSSemPend and OSQPend, and OSSemPost and OSQPost, are the     *)
(* same but for that.  A task is its priority, a smaller number being a    *)
(* higher one.  The gateway never aborts a wait, waits for several events, *)
(* locks the scheduler, suspends or deletes a task or an event.            *)
(***************************************************************************)
EXTENDS Naturals, Sequences, FiniteSets

CONSTANTS
  Tasks, Idle,   \* the tasks, and the idle task
  Events,        \* semaphores and queues
  Capacity,      \* per event, 65535 or OSQSize
  Content,       \* per event, what is posted to it
  Timeouts,      \* the time-outs given, in ticks; 0 is none
  Delays,        \* the delays given to OSTimeDly
  Handlers,      \* interrupt handlers besides Tick
  Tick,          \* SysTick_Handler
  Level,         \* preemption level of each handler
  None, Timeout

ASSUME KernelAssumption ==
  /\ Tasks \subseteq Nat /\ Idle \in Nat /\ \A t \in Tasks : t < Idle
  /\ None \notin Events /\ Capacity \in [Events -> Nat \ {0}]
  /\ \A e \in Events : None \notin Content[e]
  /\ Timeouts \subseteq Nat /\ Delays \subseteq Nat \ {0}
  /\ Tick \notin Handlers /\ Level \in [Handlers \cup {Tick} -> Nat]

VARIABLES
  rdy,      \* OSRdyGrp, OSRdyTbl: the ready list
  tcb,      \* per task [stat, pend, dly, ev, msg]
  wait,     \* per event, OSEventGrp and OSEventTbl: its wait list
  store,    \* per event, its units or messages
  cur,      \* OSPrioCur, OSTCBCur
  high,     \* OSPrioHighRdy, OSTCBHighRdy
  pendsv,   \* PendSV is pending
  isr,      \* active handlers, innermost first: [h, at, todo]
  nesting,  \* OSIntNesting
  at,       \* per task, where it is in a call of the kernel
  out       \* history: what the last step returned, <<task, value>>, or posted,
            \* <<event, value, bit>>; the bit sets a post off from one just before

kernel == <<rdy, tcb, wait, store>>
vars   == <<rdy, tcb, wait, store, cur, high, pendsv, isr, nesting, at, out>>

AllContent == UNION {Content[e] : e \in Events}

Ready == [stat |-> "rdy", pend |-> "ok", dly |-> 0, ev |-> None, msg |-> None]

\* The most urgent of some tasks.
Highest(S) == CHOOSE t \in S : \A u \in S : t <= u

\* The tasks have been created and the first of them is about to run.
Init ==
  /\ rdy = Tasks \cup {Idle} /\ tcb = [t \in Tasks |-> Ready]
  /\ wait = [e \in Events |-> {}] /\ store = [e \in Events |-> <<>>]
  /\ cur = Highest(rdy) /\ high = cur /\ pendsv = FALSE
  /\ isr = <<>> /\ nesting = 0
  /\ at = [t \in Tasks |-> "run"]
  /\ out = None

-----------------------------------------------------------------------------
(* Ready list and wait lists *)

\* Slip: the task stays on the wait list.
EventTaskRdyKeepsWaiting(e, m) ==
  LET t == Highest(wait[e])
  IN  /\ tcb' = [tcb EXCEPT ![t] = [stat |-> "rdy", pend |-> "ok", dly |-> 0,
                                    ev |-> e, msg |-> m]]
      /\ rdy' = rdy \cup {t}
      /\ UNCHANGED wait

\* OS_EventTaskRdy: the task of the highest priority on the wait list gets the
\* message and is made ready, also if its time is out but it has not run yet.
EventTaskRdy(e, m) ==
  LET t == Highest(wait[e])
  IN  /\ tcb' = [tcb EXCEPT ![t] = [stat |-> "rdy", pend |-> "ok", dly |-> 0,
                                    ev |-> e, msg |-> m]]
      /\ rdy' = rdy \cup {t}
      /\ wait' = [wait EXCEPT ![e] = @ \ {t}]

\* Slip: only a task whose time is not out counts as waiting.
PostToPending(e, m) ==
  LET pending == \E t \in wait[e] : tcb[t].stat = "pend"
  IN  \/ /\ pending /\ EventTaskRdy(e, m)
         /\ UNCHANGED store
      \/ /\ ~pending
         /\ store' = IF Len(store[e]) < Capacity[e]
                       THEN [store EXCEPT ![e] = Append(@, m)] ELSE store
         /\ UNCHANGED <<rdy, tcb, wait>>

\* Slip: an event counts as full one entry early, and the post vanishes.
PostFullEarly(e, m) ==
  \/ /\ wait[e] # {} /\ EventTaskRdy(e, m)
     /\ UNCHANGED store
  \/ /\ wait[e] = {}
     /\ store' = IF Len(store[e]) + 1 < Capacity[e]
                   THEN [store EXCEPT ![e] = Append(@, m)] ELSE store
     /\ UNCHANGED <<rdy, tcb, wait>>

\* The first part of OSSemPost and OSQPost: a full event stays as it is.
Post(e, m) ==
  \/ /\ wait[e] # {} /\ EventTaskRdy(e, m)
     /\ UNCHANGED store
  \/ /\ wait[e] = {}
     /\ store' = IF Len(store[e]) < Capacity[e]
                   THEN [store EXCEPT ![e] = Append(@, m)] ELSE store
     /\ UNCHANGED <<rdy, tcb, wait>>

\* That it is called, whatever comes of it.
Posted(e, m) == out' = <<e, m, out # <<e, m, TRUE>>>>

-----------------------------------------------------------------------------
(* Tasks *)

\* A task runs unless a handler or PendSV does.
Runs(t) == cur = t /\ isr = <<>> /\ ~pendsv

Calls(t) == t \in Tasks /\ Runs(t) /\ at[t] = "run"

\* OSSemPend and OSQPend, when there is something to take.
Take(t, e) ==
  /\ Calls(t) /\ store[e] # <<>>
  /\ store' = [store EXCEPT ![e] = Tail(@)] /\ out' = <<t, Head(store[e])>>
  /\ UNCHANGED <<rdy, tcb, wait, cur, high, pendsv, isr, nesting, at>>

\* When there is not, the task is put on the wait list; OS_Sched is next.
Pend(t, e, n) ==
  /\ Calls(t) /\ store[e] = <<>>
  /\ tcb' = [tcb EXCEPT ![t] = [stat |-> "pend", pend |-> "ok", dly |-> n,
                                ev |-> e, msg |-> None]]
  /\ wait' = [wait EXCEPT ![e] = @ \cup {t}]
  /\ rdy' = rdy \ {t}
  /\ at' = [at EXCEPT ![t] = "pended"] /\ out' = None
  /\ UNCHANGED <<store, cur, high, pendsv, isr, nesting>>

\* The task goes on behind OS_Sched: it has got something, or its time is out
\* and it takes itself from the wait list.
PendReturns(t) ==
  /\ t \in Tasks /\ Runs(t) /\ at[t] = "back"
  /\ \/ /\ tcb[t].pend = "ok" /\ out' = <<t, tcb[t].msg>>
        /\ UNCHANGED wait
     \/ /\ tcb[t].pend = "to" /\ out' = <<t, Timeout>>
        /\ wait' = [wait EXCEPT ![tcb[t].ev] = @ \ {t}]
  /\ tcb' = [tcb EXCEPT ![t] = Ready] /\ at' = [at EXCEPT ![t] = "run"]
  /\ UNCHANGED <<rdy, store, cur, high, pendsv, isr, nesting>>

\* OSTimeDly.
TimeDly(t, n) ==
  /\ Calls(t)
  /\ rdy' = rdy \ {t} /\ tcb' = [tcb EXCEPT ![t].dly = n]
  /\ at' = [at EXCEPT ![t] = "sched"] /\ out' = None
  /\ UNCHANGED <<wait, store, cur, high, pendsv, isr, nesting>>

\* OSSemPost and OSQPost from a task: OS_Sched follows if a task was waiting.
TaskPosts(t, e, m) ==
  /\ Calls(t) /\ Post(e, m) /\ Posted(e, m)
  /\ at' = [at EXCEPT ![t] = IF wait[e] # {} THEN "sched" ELSE "run"]
  /\ UNCHANGED <<cur, high, pendsv, isr, nesting>>

\* OS_SchedNew, and the request for a context switch if one is needed.
Schedules ==
  /\ high' = Highest(rdy)
  /\ pendsv' = (pendsv \/ high' # cur)

\* OS_Sched.
Sched(t) ==
  /\ t \in Tasks /\ Runs(t) /\ at[t] \in {"sched", "pended"}
  /\ Schedules
  /\ at' = [at EXCEPT ![t] = IF @ = "sched" THEN "run" ELSE "back"] /\ out' = None
  /\ UNCHANGED <<kernel, cur, isr, nesting>>

\* PendSV_Handler, when no other handler is active.
PendSV ==
  /\ pendsv /\ isr = <<>>
  /\ cur' = high /\ pendsv' = FALSE /\ out' = None
  /\ UNCHANGED <<kernel, high, isr, nesting, at>>

-----------------------------------------------------------------------------
(* Interrupts *)

\* A handler begins, unless one of its level or a more urgent one is active.
Enter(h) ==
  /\ isr # <<>> => Level[h] < Level[Head(isr).h]
  /\ isr' = <<[h |-> h, at |-> "entered", todo |-> {}]>> \o isr /\ out' = None
  /\ UNCHANGED <<kernel, cur, high, pendsv, nesting, at>>

\* It tells the kernel: OSIntNesting++.  SysTick_Handler then has all tasks to
\* look at.
Count ==
  /\ isr # <<>> /\ Head(isr).at = "entered"
  /\ nesting' = nesting + 1
  /\ isr' = <<[Head(isr) EXCEPT !.at = "counted",
                 !.todo = IF Head(isr).h = Tick THEN Tasks ELSE {}]>> \o Tail(isr)
  /\ out' = None
  /\ UNCHANGED <<kernel, cur, high, pendsv, at>>

Handling == isr # <<>> /\ Head(isr).at = "counted"

\* It posts; OS_Sched does nothing here.
HandlerPosts(e, m) ==
  /\ Handling /\ Head(isr).h # Tick /\ Post(e, m) /\ Posted(e, m)
  /\ UNCHANGED <<cur, high, pendsv, isr, nesting, at>>

\* What a tick makes of a task: the end of its delay, or of its wait.
Ticked(tc) ==
  IF tc.dly = 0 THEN tc
  ELSE IF tc.dly > 1 THEN [tc EXCEPT !.dly = @ - 1]
  ELSE [tc EXCEPT !.dly = 0, !.stat = "rdy", !.pend = IF tc.stat = "pend" THEN "to" ELSE "ok"]

\* One round of the loop of OSTimeTick.
TickTask(t) ==
  /\ Handling /\ t \in Head(isr).todo
  /\ tcb' = [tcb EXCEPT ![t] = Ticked(@)]
  /\ rdy' = IF tcb[t].dly = 1 THEN rdy \cup {t} ELSE rdy
  /\ isr' = <<[Head(isr) EXCEPT !.todo = @ \ {t}]>> \o Tail(isr) /\ out' = None
  /\ UNCHANGED <<wait, store, cur, high, pendsv, nesting, at>>

\* Slip: the handler returns without OSIntExit.
LeaveOnly ==
  /\ Handling /\ Head(isr).todo = {}
  /\ nesting' = nesting - 1 /\ isr' = Tail(isr) /\ out' = None
  /\ UNCHANGED <<kernel, cur, high, pendsv, at>>

\* OSIntExit, and the return from the handler.
Leave ==
  /\ Handling /\ Head(isr).todo = {}
  /\ nesting' = nesting - 1 /\ isr' = Tail(isr) /\ out' = None
  /\ IF nesting = 1 THEN Schedules ELSE UNCHANGED <<high, pendsv>>
  /\ UNCHANGED <<kernel, cur, at>>

-----------------------------------------------------------------------------
TaskStep(t) ==
  \/ \E e \in Events : Take(t, e) \/ \E n \in Timeouts : Pend(t, e, n)
  \/ \E e \in Events : \E m \in Content[e] : TaskPosts(t, e, m)
  \/ \E n \in Delays : TimeDly(t, n)

\* What the handler h does next but for posting.
Handler(h) ==
  isr # <<>> /\ Head(isr).h = h /\ (Count \/ Leave \/ \E t \in Tasks : TickTask(t))

Next ==
  \/ \E t \in Tasks : TaskStep(t) \/ Sched(t) \/ PendReturns(t)
  \/ PendSV
  \/ \E h \in Handlers \cup {Tick} : Enter(h) \/ Handler(h)
  \/ \E e \in Events : \E m \in Content[e] : HandlerPosts(e, m)

Spec == Init /\ [][Next]_vars

\* The clock ticks, handlers end, and interrupts leave time for those they
\* interrupt and for the kernel.
Fairness ==
  /\ \A h \in Handlers \cup {Tick} : SF_vars(Handler(h))
  /\ SF_vars(Enter(Tick)) /\ SF_vars(PendSV)
  /\ \A t \in Tasks : SF_vars(Sched(t) \/ PendReturns(t))

FairSpec == Spec /\ Fairness
-----------------------------------------------------------------------------
(* Properties *)

\* Every field has its type.
TypeOK ==
  /\ rdy \subseteq Tasks \cup {Idle} /\ Idle \in rdy
  /\ tcb \in [Tasks -> [stat : {"rdy", "pend"}, pend : {"ok", "to"}, dly : Nat,
                        ev : Events \cup {None}, msg : AllContent \cup {None}]]
  /\ wait \in [Events -> SUBSET Tasks] /\ store \in [Events -> Seq(AllContent)]
  /\ cur \in Tasks \cup {Idle} /\ high \in Tasks \cup {Idle} /\ pendsv \in BOOLEAN
  /\ isr \in Seq([h : Handlers \cup {Tick}, at : {"entered", "counted"}, todo : SUBSET Tasks])
  /\ nesting \in Nat
  /\ at \in [Tasks -> {"run", "sched", "pended", "back"}]

\* A task is ready, or it waits or sleeps: the ready list, the wait lists and
\* the status never disagree, whatever interrupts whatever.
ListsAgree ==
  \A t \in Tasks :
    /\ t \in rdy <=> tcb[t].stat = "rdy" /\ tcb[t].dly = 0
    /\ \A e \in Events :
         t \in wait[e] <=> tcb[t].ev = e /\ (tcb[t].stat = "pend" \/ tcb[t].pend = "to")

\* Nothing lies in a semaphore or a queue while a task is on its wait list.
NothingKeptFromWaiters == \A e \in Events : wait[e] # {} => store[e] = <<>>

\* When no handler is active and no context switch is under way the task of
\* the highest priority that is ready runs, unless it is just giving way.
HighestRuns ==
  isr = <<>> =>
    IF pendsv THEN high = Highest(rdy)
    ELSE cur = Highest(rdy) \/ (cur \in Tasks /\ at[cur] \in {"sched", "pended"})

\* To the tasks, all of this is an exchange: a post reaches a waiting task or is
\* kept, and is refused only when there is no room; nothing is lost, doubled or
\* overtaken after that, and a wait times out only when there is nothing to
\* take, however close a post comes.
Waits == [t \in Tasks |-> IF at[t] \in {"pended", "back"} THEN tcb[t].ev ELSE None]
Grants ==
  [t \in Tasks |-> IF at[t] \in {"pended", "back"} /\ tcb[t].stat = "rdy" /\ tcb[t].pend = "ok"
                     THEN tcb[t].msg ELSE None]
Abstract == INSTANCE Exchange WITH waits <- Waits, grant <- Grants
Exchanges == Abstract!Spec

\* The most urgent task, having called a wait with a time-out, comes back from
\* it, however many interrupts there are.
ComesBack ==
  \A t \in Tasks : t = Highest(Tasks) /\ at[t] = "pended" /\ tcb[t].dly # 0 ~> at[t] = "run"
=============================================================================
