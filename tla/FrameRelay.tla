----------------------------- MODULE FrameRelay -----------------------------
(***************************************************************************)
(* What a serial port of the gateway promises, seen from outside: the      *)
(* bytes of a device's frame are collected, the whole frame is taken in    *)
(* hand and then offered once to every connection, which queues it whole   *)
(* or refuses it.  Byte number b is the b-th byte the device sent.         *)
(***************************************************************************)
EXTENDS Naturals, Sequences

CONSTANTS NumClients, FrameLengths, MaxBytes

VARIABLES
  toGo,     \* bytes the device has still to send of its frame
  arrived,  \* bytes it has sent
  frame,    \* the frame being collected
  hand,     \* the frame last taken in hand
  todo,     \* connections it has not been offered to
  given     \* per connection, the frames it queued

vars == <<toGo, arrived, frame, hand, todo, given>>

Clients == 1 .. NumClients

Init ==
  /\ toGo = 0 /\ arrived = 0
  /\ frame = <<>> /\ hand = <<>> /\ todo = {}
  /\ given = [c \in Clients |-> <<>>]

\* The device waits for the gateway before it starts another frame.
StartFrame(n) ==
  /\ toGo = 0 /\ frame = <<>> /\ todo = {}
  /\ arrived + n <= MaxBytes
  /\ toGo' = n
  /\ UNCHANGED <<arrived, frame, hand, todo, given>>

Receive ==
  /\ toGo > 0
  /\ toGo' = toGo - 1 /\ arrived' = arrived + 1
  /\ frame' = Append(frame, arrived + 1)
  /\ UNCHANGED <<hand, todo, given>>

\* Only a complete frame is taken.
Take ==
  /\ toGo = 0 /\ frame # <<>> /\ todo = {}
  /\ hand' = frame /\ frame' = <<>> /\ todo' = Clients
  /\ UNCHANGED <<toGo, arrived, given>>

Offer(c) ==
  /\ c \in todo
  /\ todo' = todo \ {c}
  /\ given' \in {given, [given EXCEPT ![c] = Append(@, hand)]}
  /\ UNCHANGED <<toGo, arrived, frame, hand>>

Next ==
  \/ \E n \in FrameLengths : StartFrame(n)
  \/ Receive \/ Take
  \/ \E c \in Clients : Offer(c)

Fairness ==
  /\ WF_vars(Receive) /\ WF_vars(Take)
  /\ \A c \in Clients : WF_vars(Offer(c))

\* Everything but that the steps are taken in the end.
Safety == Init /\ [][Next]_vars

Spec == Safety /\ Fairness
=============================================================================
