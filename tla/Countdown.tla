----------------------------- MODULE Countdown -----------------------------
(***************************************************************************)
(* What the timeouts of a thread promise: each timer that is set counts    *)
(* down from its interval, all at the same pace, and the one with the      *)
(* least time left goes off next; it may be set again at once.             *)
(***************************************************************************)
EXTENDS Naturals

CONSTANTS Timers, Interval   \* the timers, and the interval each is set with

VARIABLE left   \* for every timer that is set, the time it has left

Init == \E set \in SUBSET Timers : left = [h \in set |-> Interval[h]]

IsNext(h) == h \in DOMAIN left /\ \A g \in DOMAIN left : left[h] <= left[g]

Passed(f, d) == [g \in DOMAIN f |-> f[g] - d]

Without(f, h) == [g \in DOMAIN f \ {h} |-> f[g]]

\* h is set anew, or set as well.
With(f, h) == [g \in DOMAIN f \cup {h} |-> IF g = h THEN Interval[h] ELSE f[g]]

\* Time passes, and a timer that is not set may be set.
Elapse ==
  \E h \in DOMAIN left : \E d \in 0 .. left[h] :
    /\ IsNext(h)
    /\ \/ left' = Passed(left, d)
       \/ \E g \in Timers \ DOMAIN left : left' = With(Passed(left, d), g)

\* A timer goes off: the time it had left has passed for the others too.
GoesOff ==
  \E h \in DOMAIN left :
    /\ IsNext(h)
    /\ \/ left' = Passed(Without(left, h), left[h])
       \/ left' = With(Passed(Without(left, h), left[h]), h)

Next == Elapse \/ GoesOff

Spec == Init /\ [][Next]_left
=============================================================================
