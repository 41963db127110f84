---------------------------- MODULE Connections ----------------------------
(***************************************************************************)
(* The gateway's TCP connections.  The TCP/IP thread keeps them on the     *)
(* linked list tcp_active_pcbs, in control blocks of a fixed pool; a       *)
(* serial-to-TCP task walks that list, without a lock, to hand a frame to  *)
(* every connection.  The thread outranks the task: whatever it does is    *)
(* one step here, between any two accesses of the task.  It changes the    *)
(* list whenever a segment comes, and not only when a connection comes or  *)
(* goes: the block the segment is for is moved to the front.               *)
(*                                                                         *)
(* The gateway never closes first, so FIN_WAIT and TIME_WAIT do not occur. *)
(***************************************************************************)
EXTENDS Naturals, Sequences, SequencesExt, FiniteSets

CONSTANTS
  Pcbs,     \* the control blocks of the pool MEMP_TCP_PCB
  Null,
  Prios,    \* the priorities the accept callbacks give their connections
  MaxIdle   \* bound: how different the idle times of connections are

ASSUME PoolAssumption == /\ IsFiniteSet(Pcbs) /\ Null \notin Pcbs
                         /\ Prios \subseteq 1 .. 63 /\ MaxIdle \in Nat

VARIABLES
  active,   \* [head, next]: tcp_active_pcbs and the next fields
  free,     \* the pool's free list, last freed first
  state,    \* per block, its TCP state
  prio,     \* per block that is not in the pool, its priority
  closing,  \* the connection whose receive callback the TCP/IP thread is in
  pc,       \* where the walking task is
  cpcb,     \* its cursor
  owed,     \* history: connections established since the walk began, and not
            \* moved to the front before their turn
  offered,  \* history: per block, offers of the frame to its connection, 2 for more
  rough,    \* history: the place of the cursor in the list was changed in this walk
  refused   \* history: open connections that tcp_close had no memory for

tcp     == <<active, free, state, prio, closing>>
walker  == <<pc, cpcb>>
history == <<owed, offered, rough, refused>>
vars    == <<tcp, walker, history>>

States == {"CLOSED", "SYN_RCVD", "ESTABLISHED", "CLOSE_WAIT", "LAST_ACK"}
Lists  == [head : Pcbs \cup {Null}, next : [Pcbs -> Pcbs \cup {Null}]]

-----------------------------------------------------------------------------
(* The list *)

\* TCP_REG: to the front.
Reg(l, p) == [head |-> p, next |-> [l.next EXCEPT ![p] = l.head]]

\* The blocks that following the links from block p leads to, p being the 0-th.
Follow(l, p) ==
  LET at[n \in Nat] == IF n = 0 THEN p
                       ELSE IF at[n - 1] = Null THEN Null ELSE l.next[at[n - 1]]
  IN  at

Nth(l) == Follow(l, l.head)

InOrder(l) ==
  LET places == {n \in 0 .. Cardinality(Pcbs) - 1 : Nth(l)[n] # Null}
  IN  [n \in 1 .. Cardinality(places) |-> Nth(l)[n - 1]]

\* Slip: the block taken out forgets its successor.
UnlinkClears(l, p) ==
  LET listed == ToSet(InOrder(l))
  IN  [ head |-> IF l.head = p THEN l.next[p] ELSE l.head,
        next |-> [q \in Pcbs |-> IF q = p THEN Null
                                 ELSE IF q \in listed /\ l.next[q] = p THEN l.next[p]
                                 ELSE l.next[q]] ]

\* A block is taken out from behind the head or its predecessor on the list; it
\* keeps its own next, and so does any block that is not on the list.
Unlink(l, p) ==
  LET listed == ToSet(InOrder(l))
  IN  [ head |-> IF l.head = p THEN l.next[p] ELSE l.head,
        next |-> [q \in Pcbs |-> IF q \in listed /\ l.next[q] = p THEN l.next[p]
                                                                 ELSE l.next[q]] ]

\* Slip: the head is not checked.
RmvNotHead(l, p) == [Unlink(l, p) EXCEPT !.head = l.head, !.next[p] = Null]

\* TCP_RMV: taken out, its next NULL.
Rmv(l, p) == [Unlink(l, p) EXCEPT !.next[p] = Null]

\* Slip: put in front, but not taken out from behind its predecessor.
FrontTwice(l, p) == IF l.head = p THEN l ELSE Reg(l, p)

\* tcp_input: the block a segment is for is moved to the front.
ToFront(l, p) == IF l.head = p THEN l ELSE Reg(Unlink(l, p), p)

\* The blocks that are not in the pool.
Active == Pcbs \ ToSet(free)

\* Slip: the best idle time so far is not kept.
VictimForgets(idle) ==
  LET better(best, p) ==
        IF prio[p] <= best.mprio THEN [pcb |-> p, mprio |-> prio[p]] ELSE best
  IN  FoldLeft(better, [pcb |-> Null, mprio |-> 64], InOrder(active)).pcb

\* The choice between the best connection so far and the next one.
Better(idle, best, p) ==
  IF prio[p] <= best.mprio /\ idle[p] >= best.idle
    THEN [pcb |-> p, mprio |-> prio[p], idle |-> idle[p]]
    ELSE best

\* tcp_kill_prio: the scan for the connection to abort in favour of a new one.
Victim(idle) ==
  FoldLeft(LAMBDA best, p : Better(idle, best, p),
           [pcb |-> Null, mprio |-> 64, idle |-> 0], InOrder(active)).pcb

-----------------------------------------------------------------------------
Init ==
  /\ active = [head |-> Null, next |-> [p \in Pcbs |-> Null]]
  /\ free = SetToSeq(Pcbs)
  /\ state = [p \in Pcbs |-> "CLOSED"]
  /\ prio = [p \in {} |-> 64] /\ closing = Null /\ pc = "pend" /\ cpcb = Null
  /\ owed = {} /\ offered = [p \in Pcbs |-> 0] /\ rough = FALSE /\ refused = {}

\* The walk no longer owes the frame to p's connection.
Forget(p) ==
  /\ owed' = owed \ {p}
  /\ offered' = [offered EXCEPT ![p] = 0]

\* Putting p elsewhere in the list, or clearing its next, changes where the
\* cursor goes from here: it is p's, or it is on a block that is not on the
\* list and only leads to it.
Disturbs(p) == pc # "pend" /\ (p = cpcb \/ cpcb \notin Active \cup {Null})

-----------------------------------------------------------------------------
(* The TCP/IP thread, which takes the next message when no callback runs. *)

Waiting == closing = Null

\* A block is taken for a new connection, of middling priority: tcp_listen_input
\* sets it up.
SetUp(p) ==
  /\ state' = [state EXCEPT ![p] = "SYN_RCVD"]
  /\ prio' = [q \in Active' |-> IF q = p THEN 64 ELSE prio[q]]
  /\ Forget(p) /\ refused' = refused \ {p}
  /\ rough' = (rough \/ Disturbs(p))
  /\ UNCHANGED <<closing, walker>>

\* A SYN arrives for a server and the pool has a block.
Syn ==
  /\ Waiting /\ free # <<>>
  /\ free' = Tail(free)
  /\ LET p == Head(free)
     IN  active' = Reg(active, p) /\ SetUp(p)

\* The pool is empty: tcp_kill_prio aborts a connection and the new one gets
\* its block.
SynKills ==
  /\ Waiting /\ free = <<>>
  /\ UNCHANGED free
  /\ \E p \in Active \cap {Victim(idle) : idle \in [Pcbs -> 0 .. MaxIdle]} :
       active' = Reg(Rmv(active, p), p) /\ SetUp(p)

\* memp_free: the block is back in the pool.
Release(p) ==
  /\ free' = <<p>> \o free
  /\ prio' = [q \in Active' |-> prio[q]]
  /\ Forget(p) /\ refused' = refused \ {p}
  /\ UNCHANGED <<closing, walker>>

\* tcp_pcb_remove and memp_free.
RemovePcb(p) ==
  /\ active' = Rmv(active, p)
  /\ state' = [state EXCEPT ![p] = "CLOSED"]
  /\ rough' = (rough \/ Disturbs(p))
  /\ Release(p)

\* The SYN-ACK cannot be queued (tcp_abandon), or a reset arrives.
Abort(p) == Waiting /\ p \in Active /\ RemovePcb(p)

\* The client acknowledges the gateway's FIN.
LastAck(p) == Waiting /\ p \in Active /\ state[p] = "LAST_ACK" /\ RemovePcb(p)

\* tcp_slowtmr gives a connection up whose retransmissions are exhausted, or
\* that has been opening or closing for too long.  It takes the block out by
\* hand: next and state stay, and lead the cursor on.
TimedOut(p) ==
  /\ Waiting /\ p \in Active
  /\ active' = Unlink(active, p)
  /\ Release(p)
  /\ UNCHANGED <<state, rough>>

\* A segment for p's connection comes in.
Touch(p) ==
  /\ Waiting /\ p \in Active
  /\ active' = ToFront(active, p)
  /\ rough' = (rough \/ (active.head # p /\ Disturbs(p)))
  /\ UNCHANGED <<free, walker, refused>>

\* Moved before its turn, a connection is behind the cursor and goes without.
MissesIfMoved(p) ==
  /\ owed' = IF active.head # p /\ offered[p] = 0 THEN owed \ {p} ELSE owed
  /\ UNCHANGED offered

\* A segment that changes no state: data, an acknowledgement, a duplicate.
Segment(p) == Touch(p) /\ MissesIfMoved(p) /\ UNCHANGED <<state, prio, closing>>

\* The server's accept callback: tcp_setprio.
Accepted(p) == \E q \in Prios : prio' = [prio EXCEPT ![p] = q]

\* The handshake completes.
Accept(p) ==
  /\ state[p] = "SYN_RCVD"
  /\ state' = [state EXCEPT ![p] = "ESTABLISHED"] /\ Accepted(p)
  /\ Touch(p) /\ MissesIfMoved(p) /\ UNCHANGED closing

\* The client disconnects: tcp_process notes the FIN, which may come with the
\* end of the handshake.  The receive callback runs for the data that came with
\* it, and the RS485 one sleeps.
Fin(p) ==
  /\ state[p] \in {"SYN_RCVD", "ESTABLISHED"}
  /\ state' = [state EXCEPT ![p] = "CLOSE_WAIT"]
  /\ IF state[p] = "SYN_RCVD" THEN Accepted(p) ELSE UNCHANGED prio
  /\ closing' = p
  /\ Touch(p) /\ Forget(p)

\* Slip: a callback that had data to send does not close.
CloseForgets ==
  /\ closing # Null
  /\ closing' = Null
  /\ UNCHANGED <<active, free, state, prio, walker, history>>

\* Then the callback gets no pbuf and calls tcp_close, which moves on if the
\* FIN can be queued; its result is not looked at.
Close ==
  /\ closing # Null
  /\ \/ /\ state' = [state EXCEPT ![closing] = "LAST_ACK"]
        /\ UNCHANGED refused
     \/ /\ refused' = refused \cup {closing}
        /\ UNCHANGED state
  /\ closing' = Null
  /\ UNCHANGED <<active, free, prio, walker, owed, offered, rough>>

-----------------------------------------------------------------------------
(* The task: for (cpcb = tcp_active_pcbs; cpcb != NULL; cpcb = cpcb->next) *)

StartWalk ==
  /\ pc = "pend"
  /\ cpcb' = active.head /\ pc' = "test"
  /\ owed' = {p \in Active : state[p] = "ESTABLISHED"}
  /\ UNCHANGED <<tcp, offered, rough, refused>>

EndWalk ==
  /\ pc = "test" /\ cpcb = Null
  /\ pc' = "pend"
  /\ owed' = {} /\ offered' = [p \in Pcbs |-> 0] /\ rough' = FALSE
  /\ UNCHANGED <<tcp, cpcb, refused>>

\* tcp_write looks at the state: an open connection is offered the frame.
Check ==
  /\ pc = "test" /\ cpcb # Null
  /\ pc' = IF state[cpcb] \in {"SYN_RCVD", "ESTABLISHED", "CLOSE_WAIT"}
             THEN "enqueue" ELSE "advance"
  /\ UNCHANGED <<tcp, cpcb, history>>

\* tcp_enqueue queues the frame or has no memory, and tcp_output runs; by now
\* the block may serve another connection or none.
Enqueue ==
  /\ pc = "enqueue"
  /\ offered' = [offered EXCEPT ![cpcb] = IF cpcb \in owed /\ @ < 2 THEN @ + 1 ELSE @]
  /\ pc' = "advance"
  /\ UNCHANGED <<tcp, cpcb, owed, rough, refused>>

\* Slip: the next block is used without the test for the end of the list.
AdvanceNoTest ==
  /\ pc = "advance"
  /\ cpcb' = active.next[cpcb] /\ pc' = "enqueue"
  /\ UNCHANGED <<tcp, history>>

\* Slip: the cursor stays where it is.
AdvanceNot ==
  /\ pc = "advance"
  /\ pc' = "test"
  /\ UNCHANGED <<tcp, cpcb, history>>

Advance ==
  /\ pc = "advance"
  /\ cpcb' = active.next[cpcb] /\ pc' = "test"
  /\ UNCHANGED <<tcp, history>>

TaskStep == StartWalk \/ EndWalk \/ Check \/ Enqueue \/ Advance

-----------------------------------------------------------------------------
Handled(p) == Segment(p) \/ Accept(p) \/ Fin(p) \/ LastAck(p) \/ Abort(p) \/ TimedOut(p)

ThreadStep == Syn \/ SynKills \/ Close \/ \E p \in Pcbs : Handled(p)

Next == ThreadStep \/ TaskStep

\* The callback ends, and the processor comes back to the task.
Spec == Init /\ [][Next]_vars /\ WF_vars(Close) /\ SF_vars(TaskStep)
-----------------------------------------------------------------------------
(* Properties *)

\* Every variable has its type; the task dereferences its cursor only after
\* the test for the end of the list.
TypeOK ==
  /\ active \in Lists /\ free \in Seq(Pcbs) /\ closing \in Pcbs \cup {Null}
  /\ state \in [Pcbs -> States] /\ prio \in [Active -> 1 .. 64]
  /\ pc \in {"pend", "test", "enqueue", "advance"} /\ cpcb \in Pcbs \cup {Null}
  /\ pc \in {"enqueue", "advance"} => cpcb # Null
  /\ owed \subseteq Active /\ offered \in [Pcbs -> 0 .. 2]
  /\ rough \in BOOLEAN /\ refused \subseteq Pcbs

\* The linked list holds every block once that is not in the pool, none of them
\* CLOSED, and ends; the pool's list holds each of its blocks once: no block is
\* lost or used twice, whichever connections come, go, are aborted and moved.
PoolIsPartitioned ==
  LET l == InOrder(active)
  IN  /\ Nth(active)[Cardinality(Pcbs)] = Null
      /\ ToSet(l) = Active /\ IsInjective(l) /\ IsInjective(free)
      /\ \A p \in Active : state[p] # "CLOSED"

\* Wherever the walking task's cursor is, on the list or on a block that is in
\* the pool or was given away again, the links lead it to the end of the list:
\* there is no circle for it to be caught in.
CursorFindsTheEnd == Follow(active, cpcb)[Cardinality(Pcbs)] = Null

\* A block is in the pool once.
FreeOnce == \A i, j \in 1 .. Len(free) : free[i] = free[j] => i = j

\* A block in the pool leads nowhere, to the list, or to one freed after it.
FreeLeadsOn ==
  \A i \in 1 .. Len(free) :
    \/ active.next[free[i]] \in Active \cup {Null}
    \/ \E j \in 1 .. i - 1 : active.next[free[i]] = free[j]

At(s, i) == IF i \in 1 .. Len(s) THEN s[i] ELSE Null

\* The blocks of list l are those of s, in that order, each once.
Chain(l, s) ==
  /\ \A i, j \in 1 .. Len(s) : s[i] = s[j] => i = j
  /\ l.head = At(s, 1)
  /\ \A i \in 1 .. Len(s) : l.next[s[i]] = At(s, i + 1)

\* The cursor comes to the c-th block of s next, once it has left the blocks of
\* u, which were taken out under it one after the other.
LeadsTo(u, s, c) ==
  /\ cpcb = IF u = <<>> THEN At(s, c) ELSE u[1]
  /\ \A i \in 1 .. Len(u) :
       /\ u[i] \notin Active
       /\ active.next[u[i]] = IF i = Len(u) THEN At(s, c) ELSE u[i + 1]

\* The connections the frame is owed to have been offered it before the c-th
\* block, and not from there on.
Offered(u, s, c) ==
  \A i \in 1 .. Len(s) : s[i] \in owed =>
    /\ state[s[i]] = "ESTABLISHED"
    /\ offered[s[i]] = IF i < c \/ (u = <<>> /\ i = c /\ pc = "advance") THEN 1 ELSE 0

\* The walk in which the cursor's place was not changed.
WalkOf(s) ==
  /\ pc = "pend" => ~rough /\ owed = {} /\ offered = [p \in Pcbs |-> 0]
  /\ pc # "pend" /\ ~rough =>
       \E u \in Seq(Pcbs), c \in 1 .. Len(s) + 1 : LeadsTo(u, s, c) /\ Offered(u, s, c)

\* A connection whose client has gone stays half open only if tcp_close had no
\* memory; that one stays until its block is needed for another.
HalfOpenOnlyIfRefused ==
  \A p \in Active : state[p] = "CLOSE_WAIT" <=> p = closing \/ p \in refused

\* tcp_close is called once per connection.
ClosedOnce == closing \notin refused

NoneClosed == \A p \in Active : state[p] # "CLOSED"

\* The list is a chain of the blocks that are not in the pool, walked in its order.
OrderInv ==
  LET s == InOrder(active)
  IN  s \in Seq(Pcbs) /\ Chain(active, s) /\ ToSet(s) = Active /\ WalkOf(s)

\* The inductive invariant: of the pool, of the half-open, and of the list.
PoolInv == TypeOK /\ FreeOnce /\ NoneClosed
HalfInv == HalfOpenOnlyIfRefused /\ ClosedOnce
IInv    == PoolInv /\ HalfInv /\ FreeLeadsOn /\ OrderInv

\* Nobody else is both at most as important and idle for longer than the
\* connection that tcp_kill_prio aborts, nor less important and idle for as
\* long.
VictimIsUndominated ==
  \A idle \in [Pcbs -> 0 .. MaxIdle] :
    LET v == Victim(idle)
    IN  /\ v = Null <=> Active = {}
        /\ \A q \in Active :
             /\ prio[q] <= prio[v] => idle[q] <= idle[v]
             /\ prio[q] < prio[v]  => idle[q] < idle[v]

\* "Send the RS232 data to all TCP clients that are connected": at the end of
\* a walk every connection that was there throughout was offered the frame,
\* once, unless it was moved to the front before its turn, and provided the
\* cursor's own block was not moved, removed by TCP_RMV or given away, nor any
\* while the cursor was on a block that tcp_slowtmr had taken out.  Otherwise
\* connections may come, go and move about, and tcp_slowtmr may take them all.
SentToAllOnce ==
  [][EndWalk /\ ~rough => \A p \in owed : offered[p] = 1]_vars

\* A walk comes to its end unless again and again blocks are put ahead of the
\* cursor that were not: connections that come, go and move elsewhere do not
\* keep it from ending, segments for the cursor's own block may.
Ahead    == {Follow(active, cpcb)[n] : n \in 0 .. Cardinality(Pcbs)} \ {Null}
WalksEnd == []<>(pc = "pend") \/ []<><<Ahead' \ Ahead # {}>>_vars
=============================================================================
