------------------------------ MODULE Exchange ------------------------------
(***************************************************************************)
(* What semaphores and mailboxes promise to the tasks that use them: what  *)
(* is posted is granted to a waiting task if there is one, else kept in    *)
(* order if there is room, and refused only if there is none; every task   *)
(* gets what it was granted, or takes the oldest thing that is there; it   *)
(* is told that its time is out only when it was granted nothing and there *)
(* is nothing to take.  Every post is seen: no step but Keep, Grant and    *)
(* Refuse may go with one.                                                 *)
(***************************************************************************)
EXTENDS Naturals, Sequences

CONSTANTS Tasks, Events, Capacity, Content, None, Timeout

VARIABLES
  store,   \* what has been posted and not taken, per event
  waits,   \* the event each task waits for, or None
  grant,   \* what has been granted to a waiting task, or None
  out      \* what the last step gave to a task, <<task, value>>, or was given,
           \* <<event, value, bit>>; the bit sets a post off from one just before

Init ==
  /\ store = [e \in Events |-> <<>>]
  /\ waits = [t \in Tasks |-> None] /\ grant = [t \in Tasks |-> None]
  /\ out = None

Posted(e, m) == out' = <<e, m, out # <<e, m, TRUE>>>>

Waiters(e) == {t \in Tasks : waits[t] = e /\ grant[t] = None}

Take(t, e) ==
  /\ waits[t] = None /\ store[e] # <<>>
  /\ store' = [store EXCEPT ![e] = Tail(@)] /\ out' = <<t, Head(store[e])>>
  /\ UNCHANGED <<waits, grant>>

Wait(t, e) ==
  /\ waits[t] = None /\ store[e] = <<>>
  /\ waits' = [waits EXCEPT ![t] = e] /\ out' = None
  /\ UNCHANGED <<store, grant>>

\* Without a waiting task the thing is kept, if there is room.
Keep(e, m) ==
  /\ Waiters(e) = {} /\ Len(store[e]) < Capacity[e]
  /\ store' = [store EXCEPT ![e] = Append(@, m)] /\ Posted(e, m)
  /\ UNCHANGED <<waits, grant>>

\* Without room either it is refused.
Refuse(e, m) ==
  /\ Waiters(e) = {} /\ Len(store[e]) >= Capacity[e]
  /\ Posted(e, m)
  /\ UNCHANGED <<store, waits, grant>>

\* Of the waiting tasks the one with the highest priority is granted it.
Grant(t, m) ==
  /\ waits[t] # None /\ grant[t] = None
  /\ \A u \in Waiters(waits[t]) : t <= u
  /\ grant' = [grant EXCEPT ![t] = m] /\ Posted(waits[t], m)
  /\ UNCHANGED <<store, waits>>

Finish(t, value) ==
  /\ waits[t] # None
  /\ waits' = [waits EXCEPT ![t] = None] /\ grant' = [grant EXCEPT ![t] = None]
  /\ out' = <<t, value>>
  /\ UNCHANGED store

Return(t) == grant[t] # None /\ Finish(t, grant[t])

Expire(t) == waits[t] # None /\ grant[t] = None /\ store[waits[t]] = <<>> /\ Finish(t, Timeout)

\* Anything else the kernel does, which is of no concern here.
Quiet == out' = None /\ UNCHANGED <<store, waits, grant>>

Next ==
  \/ \E t \in Tasks, e \in Events : Take(t, e) \/ Wait(t, e)
  \/ \E e \in Events : \E m \in Content[e] : Keep(e, m) \/ Refuse(e, m)
  \/ \E t \in Tasks : waits[t] # None /\ \E m \in Content[waits[t]] : Grant(t, m)
  \/ \E t \in Tasks : Return(t) \/ Expire(t)
  \/ Quiet

Spec == Init /\ [][Next]_<<store, waits, grant, out>>
=============================================================================
