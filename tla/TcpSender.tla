----------------------------- MODULE TcpSender -----------------------------
(***************************************************************************)
(* How a connection sends the frames that a serial-to-TCP task hands to    *)
(* lwIP.  tcp_write puts them on the queue unsent, in segments; tcp_output *)
(* moves segments to the queue unacked as it sends them; acknowledgements, *)
(* the slow timer and duplicate acknowledgements work on both.  The        *)
(* network loses and reorders; the client is a TCP of its own.             *)
(*                                                                         *)
(* The writing task and the TCP/IP thread share all this without a lock:   *)
(* the thread may run between tcp_write's reading of the counter, its      *)
(* search for the end of the queue and its linking there.  raced tells     *)
(* whether it has; what it breaks then, write_race shows.                  *)
(*                                                                         *)
(* Bytes are numbered from 0; the wrap-around of sequence numbers is left  *)
(* out, and so is the data the client sends, but for the time that the     *)
(* receive callback takes for it.  A frame is smaller than a segment.      *)
(***************************************************************************)
EXTENDS Naturals, Sequences, SequencesExt, FiniteSets, FiniteSetsExt

CONSTANTS
  Mss,          \* TCP_MSS
  SndBuf,       \* TCP_SND_BUF
  SndQueueLen,  \* TCP_SND_QUEUELEN
  MaxRtx,       \* TCP_MAXRTX
  Lengths,      \* lengths of frames
  Window,       \* the window of the client when it has room
  MaxBytes,     \* bound: bytes written
  NetCap        \* bound: segments, and acknowledgements, on their way

\* The counters are u16_t.
U16Max == 65535
U16(n) == n % (U16Max + 1)

ASSUME SenderAssumption ==
  /\ Mss \in Nat \ {0} /\ SndBuf \in 0 .. U16Max /\ SndQueueLen \in Nat /\ MaxRtx \in Nat
  /\ Lengths \subseteq 1 .. Mss
  /\ Window \in Nat /\ MaxBytes \in Nat /\ NetCap \in Nat \ {0}

VARIABLES
  pcb,     \* the control block
  call,    \* the task in tcp_write: where, and what it has read
  wire,    \* segments on their way
  acks,    \* acknowledgements on their way
  client,  \* [nxt, edge]: what the client has got, and has announced room for
  raced    \* history: the thread has run inside a tcp_write of this connection

vars == <<pcb, call, wire, acks, client, raced>>

Segments == [seq : Nat, len : 0 .. Mss, fin : BOOLEAN, bufs : Nat]

\* TCP_TCPLEN: a FIN counts as a byte.
End(s) == s.seq + s.len + (IF s.fin THEN 1 ELSE 0)

\* How many places from the first on are in S.
Leading(S) == Cardinality({i \in S : 1 .. i \subseteq S})

After(queue, n) == SubSeq(queue, n + 1, Len(queue))

\* pbuf_clen of all segments of a queue.
Pbufs(queue) == FoldLeft(LAMBDA n, s : n + s.bufs, 0, queue)

\* A control block whose connection has ended has been freed.
Alive == pcb.state \notin {"CLOSED", "ABORTED"}
Idle  == call.at = "idle"

InWrite == call.at \in {"counted", "found"}

\* The thread does something with the connection; nothing keeps it from doing
\* so while a task is in the middle of tcp_write.
ThreadRuns == Alive /\ raced' = (raced \/ InWrite)

Init ==
  /\ pcb = [ state |-> "ESTABLISHED", unsent |-> <<>>, unacked |-> <<>>,
             lbb |-> 0, nxt |-> 0, lastack |-> 0, buf |-> SndBuf, queuelen |-> 0,
             cwnd |-> 2 * Mss, wnd |-> Window, wl2 |-> 0,
             memerr |-> FALSE, infr |-> FALSE, persist |-> FALSE,
             timing |-> FALSE, nrtx |-> 0, input |-> FALSE ]
  /\ call = [at |-> "idle"]
  /\ wire = {} /\ acks = {}
  /\ client = [nxt |-> 0, edge |-> Window]
  /\ raced = FALSE

-----------------------------------------------------------------------------
(* tcp_output *)

\* The effective window reaches to the end of s.
Fits(p, s, wnd) == s.seq + s.len <= p.lastack + wnd

\* tcp_do_output_nagle, and its exceptions, for the i-th unsent segment.
NagleAllows(p, i) ==
  \/ i = 1 /\ p.unacked = <<>>
  \/ i < Len(p.unsent) \/ p.unsent[i].len >= Mss
  \/ p.infr \/ p.memerr \/ p.state = "LAST_ACK"

\* The segments that tcp_output sends: none from inside tcp_input for the same
\* connection, else the first ones that fit.
Emitted(p) ==
  LET sends == {i \in 1 .. Len(p.unsent) : /\ Fits(p, p.unsent[i], Min({p.wnd, p.cwnd}))
                                          /\ NagleAllows(p, i)}
  IN  IF p.input THEN <<>> ELSE SubSeq(p.unsent, 1, Leading(sends))

\* A segment goes to its place by sequence number.
Insert(queue, s) ==
  LET n == Leading({i \in 1 .. Len(queue) : queue[i].seq < s.seq})
  IN  SubSeq(queue, 1, n) \o <<s>> \o After(queue, n)

\* Slip: a zero window does not start the persist timer.
OutputNoPersist(p) ==
  LET sent == Emitted(p)
      rest == After(p.unsent, Len(sent))
  IN  IF p.input THEN p ELSE
      [p EXCEPT !.unsent  = rest,
                !.unacked = FoldLeft(Insert, @, sent),
                !.nxt     = Max({@} \cup {End(sent[i]) : i \in 1 .. Len(sent)}),
                !.timing  = @ \/ sent # <<>>,
                !.memerr  = FALSE]

\* What is sent waits on unacked, with the retransmission timer on; if the
\* rest waits for the client's window, the persist timer starts.
Output(p) ==
  LET sent == Emitted(p)
      rest == After(p.unsent, Len(sent))
  IN  IF p.input THEN p ELSE
      [p EXCEPT !.unsent  = rest,
                !.unacked = FoldLeft(Insert, @, sent),
                !.nxt     = Max({@} \cup {End(sent[i]) : i \in 1 .. Len(sent)}),
                !.timing  = @ \/ sent # <<>>,
                !.persist = @ \/ (rest # <<>> /\ ~Fits(p, rest[1], p.wnd)),
                !.memerr  = FALSE]

\* After data has come in an acknowledgement may be due at once: tcp_output
\* sends only that, and returns, if no data can go with it.
OutputOrAck(p) ==
  {Output(p)} \cup
  (IF p.unsent # <<>> /\ Fits(p, p.unsent[1], Min({p.wnd, p.cwnd})) THEN {} ELSE {p})

\* The network takes the segments, or loses or delays any of them; it carries
\* at least the first if it is told to.
Carries(sent, keep) ==
  LET packet(s) == [seq |-> s.seq, len |-> s.len, fin |-> s.fin]
  IN  IF sent = <<>> THEN UNCHANGED wire ELSE
      /\ wire' \in {w \in SUBSET (wire \cup {packet(s) : s \in ToSet(sent)}) :
                       Cardinality(w) <= NetCap}
      /\ keep => packet(sent[1]) \in wire'

-----------------------------------------------------------------------------
(* tcp_enqueue *)

\* Data or a FIN for a segment that has room and ends where it begins.
Chains(last, s) ==
  /\ ~last.fin /\ End(last) > last.seq
  /\ last.len + s.len <= Mss /\ End(last) = s.seq

Link(queue, s) ==
  IF queue # <<>> /\ Chains(Last(queue), s)
    THEN Front(queue) \o <<[Last(queue) EXCEPT !.len = @ + s.len, !.fin = s.fin,
                              !.bufs = IF s.fin THEN @ ELSE @ + s.bufs]>>
    ELSE Append(queue, s)

\* The first checks of tcp_enqueue; memory may be short besides.
Accepts(p, n) == n <= p.buf /\ p.queuelen < SndQueueLen

-----------------------------------------------------------------------------
(* The task: tcp_write, then tcp_output, whatever tcp_write returned. *)

Open == pcb.state \in {"ESTABLISHED", "CLOSE_WAIT"}

\* tcp_enqueue refuses the frame, which is lost to this connection.
WriteRefused ==
  /\ Idle /\ Open
  /\ pcb' = [pcb EXCEPT !.memerr = TRUE]
  /\ call' = [at |-> "output"]
  /\ UNCHANGED <<wire, acks, client, raced>>

\* Or it reads what it needs and allocates a segment.
WriteBegin(n) ==
  /\ Idle /\ Open /\ Accepts(pcb, n) /\ pcb.lbb + n <= MaxBytes
  /\ call' = [at |-> "counted", queuelen |-> pcb.queuelen,
              seg |-> [seq |-> pcb.lbb, len |-> n, fin |-> FALSE, bufs |-> 1]]
  /\ UNCHANGED <<pcb, wire, acks, client, raced>>

\* Then it looks for the last segment of unsent.
WriteFind ==
  /\ call.at = "counted" /\ Alive
  /\ call' = [at |-> "found", queuelen |-> call.queuelen, seg |-> call.seg,
              last |-> IF pcb.unsent = <<>> THEN {} ELSE {Last(pcb.unsent).seq}]
  /\ UNCHANGED <<pcb, wire, acks, client, raced>>

\* The queue after a segment is linked behind the one found: what followed
\* that one, if it is on this queue at all, is cut off.
LinkBehind(queue, seq, s) ==
  LET found == {i \in 1 .. Len(queue) : queue[i].seq = seq}
  IN  IF found # {} THEN Link(SubSeq(queue, 1, Max(found)), s) ELSE queue

\* It links its segment and writes the counters.  If the thread has not run in between
\* unsent is as it was found.
WriteLink ==
  /\ call.at = "found" /\ Alive
  /\ LET s == call.seg
         q(queue) == UNION {{LinkBehind(queue, seq, s)} : seq \in call.last}
     IN  \E unsent \in IF call.last = {} THEN {<<s>>} ELSE q(pcb.unsent),
            unacked \in IF call.last = {} THEN {pcb.unacked} ELSE q(pcb.unacked) :
           pcb' = [pcb EXCEPT !.unsent = unsent, !.unacked = unacked,
                              !.lbb = @ + s.len, !.buf = U16(@ + U16Max + 1 - s.len),
                              !.queuelen = call.queuelen + 1]
  /\ call' = [at |-> "output"]
  /\ UNCHANGED <<wire, acks, client, raced>>

\* tcp_output.
WriteOutput(keep) ==
  /\ call.at = "output" /\ Alive
  /\ pcb' = Output(pcb) /\ Carries(Emitted(pcb), keep)
  /\ call' = [at |-> "idle"]
  /\ UNCHANGED <<acks, client, raced>>

-----------------------------------------------------------------------------
(* The TCP/IP thread *)

Free(p, state) ==
  [p EXCEPT !.state = state, !.unsent = <<>>, !.unacked = <<>>, !.queuelen = 0]

\* tcp_receive looks at the window first.
Announced(p, a) ==
  IF p.wl2 < a.ack \/ (p.wl2 = a.ack /\ a.wnd > p.wnd)
    THEN [p EXCEPT !.wnd = a.wnd, !.wl2 = a.ack, !.persist = @ /\ a.wnd = 0]
    ELSE p

\* How many of the first segments an acknowledgement covers whole.
Arrived(queue, ack) == Leading({i \in 1 .. Len(queue) : End(queue[i]) <= ack})

\* Slip: an acknowledgement stops the retransmission timer.
AckedStops(p, ack) ==
  LET n    == Arrived(p.unacked, ack)
      left == After(p.unacked, n)
  IN  [p EXCEPT !.infr = FALSE, !.nrtx = 0, !.buf = U16(@ + ack - p.lastack),
                !.lastack = ack, !.unacked = left, !.timing = FALSE,
                !.queuelen = @ - Pbufs(SubSeq(p.unacked, 1, n))]

\* New data is acknowledged: what has arrived whole leaves unacked.
Acked(p, ack) ==
  LET n    == Arrived(p.unacked, ack)
      left == After(p.unacked, n)
  IN  [p EXCEPT !.infr = FALSE, !.nrtx = 0, !.buf = U16(@ + ack - p.lastack),
                !.lastack = ack, !.unacked = left, !.timing = left # <<>>,
                !.queuelen = @ - Pbufs(SubSeq(p.unacked, 1, n))]

\* Slip: the pbufs of segments that were to be sent again stay counted.
AckedUnsentCounted(p, ack) ==
  IF ack > p.nxt THEN p
  ELSE [p EXCEPT !.unsent = After(@, Arrived(@, ack))]

\* Segments that are on unsent to be sent again may have arrived too.
AckedUnsent(p, ack) ==
  LET n == Arrived(p.unsent, ack)
  IN  IF ack > p.nxt THEN p ELSE
      [p EXCEPT !.unsent = After(@, n), !.queuelen = @ - Pbufs(SubSeq(p.unsent, 1, n))]

\* nrtx, where MaxRtx + 1 stands for all that is more.
Retried(n) == Min({n + 1, MaxRtx + 1})

\* tcp_rexmit: the first unacknowledged segment is to be sent again.
Rexmit(p) ==
  [p EXCEPT !.unacked = Tail(@), !.unsent = Insert(@, Head(p.unacked)), !.nrtx = Retried(@),
            !.infr = TRUE]

\* What an acknowledgement makes of the block.  The third duplicate in a row
\* leads to a fast retransmission; which is the third is left open, and so is
\* how far the congestion window opens.
Received(p, a, withData) ==
  LET q == Announced(p, a)
      isNew == p.lastack < a.ack /\ a.ack <= p.nxt
      isDup == /\ ~withData /\ a.ack = p.lastack /\ p.timing
               /\ q.wl2 + q.wnd = p.wl2 + p.wnd
      opens == (IF p.infr THEN Min({p.cwnd, 2 * Mss}) ELSE p.cwnd) .. Max({p.cwnd, SndBuf})
      fast  == IF isDup /\ p.unacked # <<>> /\ ~p.infr
                 THEN {[Rexmit(q) EXCEPT !.cwnd = Max({@, SndBuf})]} ELSE {}
  IN  { [AckedUnsent(r, a.ack) EXCEPT !.input = withData] :
          r \in IF isNew THEN {[Acked(q, a.ack) EXCEPT !.cwnd = c] : c \in opens}
                ELSE {q} \cup fast }

\* Slip: any acknowledgement in LAST_ACK is taken for that of the FIN.
OverAtAnyAck(p, a) == p.state = "LAST_ACK" /\ a.ack >= p.lastack

\* tcp_process: in LAST_ACK the client's acknowledgement of all that was sent
\* ends the connection.
Over(p, a) == p.state = "LAST_ACK" /\ a.ack = p.nxt

\* tcp_input: tcp_receive, then the receive callback if there is data, which
\* may sleep, then tcp_output.
Receive(a, withData, keep) ==
  /\ ThreadRuns /\ ~pcb.input /\ a \in acks
  /\ withData => pcb.state = "ESTABLISHED"
  /\ acks' = acks \ {a}
  /\ \E p \in Received(pcb, a, withData) :
       IF Over(p, a) THEN pcb' = Free(p, "CLOSED") /\ UNCHANGED wire
       ELSE pcb' = Output(p) /\ Carries(Emitted(p), keep)
  /\ UNCHANGED <<call, client>>

\* The callback returns.
CallbackEnds(keep) ==
  /\ ThreadRuns /\ pcb.input
  /\ LET p == [pcb EXCEPT !.input = FALSE]
     IN  pcb' \in OutputOrAck(p) /\ Carries(Emitted(p), keep)
  /\ UNCHANGED <<call, acks, client>>

\* The client has closed its side: tcp_close queues a FIN if there is memory.
Disconnect(keep) ==
  /\ ThreadRuns /\ ~pcb.input /\ pcb.state = "ESTABLISHED"
  /\ LET fin == [seq |-> pcb.lbb, len |-> 0, fin |-> TRUE, bufs |-> 1]
         closed == [pcb EXCEPT !.state = "LAST_ACK", !.unsent = Link(@, fin),
                      !.lbb = @ + 1, !.buf = U16(@ + U16Max),
                      !.queuelen = IF Len(Link(pcb.unsent, fin)) > Len(pcb.unsent)
                                     THEN @ + 1 ELSE @]
     IN  \E p \in {[pcb EXCEPT !.state = "CLOSE_WAIT", !.memerr = TRUE]} \cup
                 (IF Accepts(pcb, 0) THEN {closed} ELSE {}) :
           pcb' = Output(p) /\ Carries(Emitted(p), keep)
  /\ UNCHANGED <<call, acks, client>>

\* The slow timer may look at the connection.
SlowTimer == ThreadRuns /\ ~pcb.input

\* It has retransmitted too often, or LAST_ACK has lasted too long.
GiveUp ==
  /\ SlowTimer /\ (pcb.nrtx = MaxRtx \/ pcb.state = "LAST_ACK")
  /\ pcb' = Free(pcb, "ABORTED")
  /\ UNCHANGED <<call, wire, acks, client>>

\* Slip: what has not been sent yet is not linked behind it.
RexmitRtoCutsOff(p) ==
  [p EXCEPT !.unsent = p.unacked, !.unacked = <<>>, !.cwnd = Mss, !.nrtx = Retried(@)]

\* tcp_rexmit_rto: all that was sent is to be sent again, one segment first.
RexmitRto(p) ==
  [p EXCEPT !.unsent = p.unacked \o @, !.unacked = <<>>, !.cwnd = Mss, !.nrtx = Retried(@)]

\* The retransmission timer has run out; in the persist mode it stands still.
Rto(keep) ==
  /\ SlowTimer /\ pcb.nrtx # MaxRtx /\ ~pcb.persist
  /\ pcb.unacked # <<>> /\ pcb.timing
  /\ LET p == RexmitRto(pcb)
     IN  pcb' = Output(p) /\ Carries(Emitted(p), keep)
  /\ UNCHANGED <<call, acks, client>>

\* The persist timer has run out: a byte of the first segment is sent.
Probe(keep) ==
  /\ SlowTimer /\ pcb.nrtx # MaxRtx /\ pcb.persist
  /\ LET first == (pcb.unacked \o pcb.unsent)[1]
     IN  /\ pcb.unacked \o pcb.unsent # <<>>
         /\ Carries(<<[seq |-> first.seq, len |-> Min({first.len, 1}),
                       fin |-> first.fin /\ first.len = 0]>>, keep)
  /\ UNCHANGED <<pcb, call, acks, client>>

\* Nothing is due; tcp_output is called all the same, at every tick.
Poll(keep) ==
  /\ SlowTimer /\ pcb.nrtx # MaxRtx
  /\ pcb' = Output(pcb) /\ Carries(Emitted(pcb), keep)
  /\ UNCHANGED <<call, acks, client>>

-----------------------------------------------------------------------------
(* The client *)

\* It acknowledges what it has got and announces its room; the answer may be
\* lost, or an older one.
Answer(c) == [ack |-> c.nxt, wnd |-> c.edge - c.nxt]

Answers(c, keep) ==
  /\ client' = c
  /\ acks' \in {w \in SUBSET (acks \cup {Answer(c)}) : Cardinality(w) <= NetCap}
  /\ keep => Answer(c) \in acks'

InOrder(m) == m.seq <= client.nxt /\ client.nxt < End(m)

\* A segment arrives; what is in order and in the window is taken.
Arrive(m, keep) ==
  /\ m \in wire /\ wire' = wire \ {m}
  /\ LET nxt == IF ~InOrder(m) THEN client.nxt
                ELSE IF m.seq + m.len <= client.edge THEN End(m) ELSE client.edge
     IN  Answers([nxt |-> nxt, edge |-> Max({client.edge, nxt})], keep)
  /\ UNCHANGED <<pcb, call, raced>>

\* The client has room again.
Opens(keep) ==
  /\ client.edge < client.nxt + Window
  /\ Answers([client EXCEPT !.edge = client.nxt + Window], keep)
  /\ UNCHANGED <<pcb, call, wire, raced>>
-----------------------------------------------------------------------------
Losable(keep) ==
  \/ WriteOutput(keep) \/ CallbackEnds(keep) \/ Disconnect(keep)
  \/ Rto(keep) \/ Probe(keep) \/ Poll(keep) \/ Opens(keep)
  \/ \E a \in acks, withData \in BOOLEAN : Receive(a, withData, keep)
  \/ \E m \in wire : Arrive(m, keep)

TaskStep == WriteRefused \/ (\E n \in Lengths : WriteBegin(n)) \/ WriteFind \/ WriteLink

Next == TaskStep \/ GiveUp \/ Losable(FALSE)

\* The task and the thread run, the slow timer ticks, and what is sent again
\* and again is not lost each time.
Fairness ==
  /\ WF_vars(WriteFind \/ WriteLink \/ WriteOutput(FALSE))
  /\ SF_vars(Rto(TRUE) \/ Probe(TRUE) \/ (GiveUp /\ pcb.nrtx = MaxRtx))
  /\ SF_vars(CallbackEnds(FALSE) \/ Poll(FALSE))
  /\ SF_vars(\E m \in wire : InOrder(m) /\ Arrive(m, TRUE))
  /\ SF_vars(\E m \in wire : End(m) <= client.nxt /\ Arrive(m, TRUE))
  /\ SF_vars(\E a \in acks : a = Answer(client) /\ Receive(a, FALSE, TRUE))
  /\ SF_vars(Opens(TRUE))

Spec == Init /\ [][Next]_vars /\ Fairness

\* The behaviours in which a task happens not to be held up by the thread from
\* the beginning of a tcp_write to the end of the tcp_output behind it.  The code
\* does not see to that.
HeldUp == ~Idle /\ call' = call /\ <<pcb, raced>>' # <<pcb, raced>>

AloneSpec == Init /\ [][Next /\ ~HeldUp]_vars /\ Fairness
-----------------------------------------------------------------------------
(* Properties *)

\* Every field has its type, as long as the thread has not run inside tcp_write.
TypeOK == ~raced =>
  /\ pcb.state \in {"ESTABLISHED", "CLOSE_WAIT", "LAST_ACK", "CLOSED", "ABORTED"}
  /\ pcb.unsent \in Seq(Segments) /\ pcb.unacked \in Seq(Segments)
  /\ pcb.lbb \in 0 .. MaxBytes + 1 /\ pcb.nxt \in 0 .. pcb.lbb
  /\ pcb.lastack \in 0 .. pcb.nxt
  /\ pcb.buf \in 0 .. U16Max /\ pcb.queuelen \in 0 .. SndQueueLen
  /\ pcb.nrtx \in 0 .. MaxRtx + 1
  /\ client.nxt \in 0 .. pcb.lbb /\ client.edge >= client.nxt

Queued == pcb.unsent \o pcb.unacked

\* As long as the thread has not run inside tcp_write, the two queues hold every
\* byte that is not acknowledged in exactly one segment, however often segments
\* went back and forth between them: the stream has no hole and nothing is sent
\* that was not written.
QueuesCoverTheStream ==
  Alive /\ ~raced =>
    \A b \in pcb.lastack .. MaxBytes :
      Cardinality({i \in 1 .. Len(Queued) : Queued[i].seq <= b /\ b < End(Queued[i])})
        = IF b < pcb.lbb THEN 1 ELSE 0

\* As long as that, the counters agree with the queues: snd_queuelen with the
\* pbufs on them, snd_buf with the bytes that are not acknowledged.
CountersAreExact ==
  Alive /\ ~raced =>
    /\ pcb.queuelen = Pbufs(Queued)
    /\ U16(pcb.buf + pcb.lbb - pcb.lastack) = SndBuf

\* An assertion of tcp_enqueue: if pbufs are counted, a queue holds them.
CountedMeansQueued == Alive /\ pcb.queuelen # 0 => Queued # <<>>

\* A connection is closed only when the client has everything that was sent
\* (not all that was written: unsent data do not keep it open).
ClosedWhenSentArrived == pcb.state = "CLOSED" => client.nxt >= pcb.nxt

\* As long as that, and between two calls: what waits for an acknowledgement is
\* timed, and what waits with nothing on its way waits for the client's window
\* and for nothing else (Nagle's algorithm and the congestion window let it go).
\* Whether the persist timer runs then is not said: a tcp_output that sends only
\* an acknowledgement leaves it off, and the slow timer calls tcp_output again.
SomethingIsDue ==
  Alive /\ Idle /\ ~pcb.input /\ ~raced =>
    /\ pcb.unacked # <<>> => pcb.timing
    /\ pcb.unsent # <<>> /\ pcb.unacked = <<>> => ~Fits(pcb, pcb.unsent[1], pcb.wnd)

-----------------------------------------------------------------------------
(* Why these hold until the thread runs inside tcp_write: IInv, while raced *)
(* is FALSE.                                                                *)

Blocks == [ state : {"ESTABLISHED", "CLOSE_WAIT", "LAST_ACK", "CLOSED", "ABORTED"},
            unsent : Seq(Segments), unacked : Seq(Segments),
            lbb : Nat, nxt : Nat, lastack : Nat, buf : 0 .. U16Max, queuelen : Nat,
            cwnd : Nat, wnd : Nat, wl2 : Nat, memerr : BOOLEAN, infr : BOOLEAN,
            persist : BOOLEAN, timing : BOOLEAN, nrtx : 0 .. MaxRtx + 1, input : BOOLEAN ]

Stream(p) == p.unacked \o p.unsent

\* Every segment begins where the one before it ends, and none is empty.
Chained(q) ==
  \A i \in 1 .. Len(q) : /\ q[i].seq < End(q[i])
                         /\ i < Len(q) => q[i + 1].seq = End(q[i])

\* From the first byte that is not acknowledged to the last one written.
Spans(p) ==
  LET q == Stream(p)
  IN  IF q = <<>> THEN p.lastack = p.lbb
      ELSE q[1].seq <= p.lastack /\ p.lastack < End(q[1]) /\ End(q[Len(q)]) = p.lbb

\* What waits on unacked has been sent and fits the window that is known.
Sent(p) == \A i \in 1 .. Len(p.unacked) :
  End(p.unacked[i]) <= p.nxt /\ Fits(p, p.unacked[i], p.wnd)

Counted(p) ==
  LET waits == p.lbb - p.lastack
  IN  /\ p.queuelen = Pbufs(p.unsent) + Pbufs(p.unacked) /\ p.queuelen <= SndQueueLen
      /\ IF p.state = "LAST_ACK"
           THEN waits <= SndBuf + 1 /\ p.buf = U16(SndBuf + U16Max + 1 - waits) /\ p.lbb <= MaxBytes + 1
           ELSE waits <= SndBuf /\ p.buf = SndBuf - waits /\ p.lbb <= MaxBytes

Sound(p) ==
  /\ Chained(Stream(p)) /\ Spans(p) /\ Sent(p) /\ Counted(p)
  /\ Mss <= p.cwnd /\ (p.unacked # <<>> => p.timing)
  /\ p.lastack <= p.wl2

\* A probe may have sent the byte after all that was sent.
MayHave(p, n) == n <= p.nxt \/ (p.unacked = <<>> /\ n <= p.lastack + 1)

\* What the network carries, and what the client has, was written and sent.
OnlySent ==
  /\ client.nxt <= pcb.lbb /\ MayHave(pcb, client.nxt)
  /\ \A m \in wire : End(m) <= pcb.lbb /\ MayHave(pcb, End(m))

\* The window's right edge never recedes from one acknowledgement to a later.
EdgesAdvance ==
  /\ client.nxt <= client.edge
  /\ pcb.wl2 <= client.nxt /\ pcb.wl2 + pcb.wnd <= client.edge
  /\ \A a \in acks :
       /\ a.ack <= client.nxt /\ a.ack + a.wnd <= client.edge
       /\ pcb.wl2 < a.ack => pcb.wl2 + pcb.wnd <= a.ack + a.wnd
       /\ \A b \in acks : a.ack < b.ack => a.ack + a.wnd <= b.ack + b.wnd

\* Inside tcp_write what it has read is still so.
CallCurrent ==
  call.at \in {"counted", "found"} =>
    /\ call.queuelen = pcb.queuelen /\ Open /\ Accepts(pcb, call.seg.len)
    /\ call.seg \in [seq : {pcb.lbb}, len : Lengths, fin : {FALSE}, bufs : {1}]
    /\ pcb.lbb + call.seg.len <= MaxBytes
    /\ call.at = "found" =>
         call.last = IF pcb.unsent = <<>> THEN {} ELSE {Last(pcb.unsent).seq}

Typed ==
  /\ pcb \in Blocks /\ pcb.lastack <= pcb.nxt /\ pcb.nxt <= pcb.lbb
  /\ pcb.lbb <= MaxBytes + 1 /\ pcb.queuelen <= SndQueueLen
  /\ call.at \in {"idle", "counted", "found", "output"}
  /\ wire \subseteq [seq : Nat, len : 0 .. Mss, fin : BOOLEAN]
  /\ acks \subseteq [ack : Nat, wnd : Nat]
  /\ client \in [nxt : Nat, edge : Nat]

IInv ==
  /\ Typed /\ OnlySent /\ EdgesAdvance
  /\ Alive => Sound(pcb) /\ CallCurrent
  /\ SomethingIsDue /\ ClosedWhenSentArrived

-----------------------------------------------------------------------------
(* What holds of network and client also after the thread has run inside it. *)

HasQueues(p) ==
  /\ DOMAIN p = {"state", "unsent", "unacked", "lbb", "nxt", "lastack", "buf", "queuelen", "cwnd",
                 "wnd", "wl2", "memerr", "infr", "persist", "timing", "nrtx", "input"}
  /\ p.unsent \in Seq(Segments) /\ p.unacked \in Seq(Segments) /\ p.lbb \in Nat

NetInv ==
  /\ HasQueues(pcb)
  /\ call.at \in {"idle", "counted", "found", "output"}
  /\ call.at \in {"counted", "found"} => call.seg \in Segments
  /\ wire \subseteq [seq : Nat, len : 0 .. Mss, fin : BOOLEAN]
  /\ client \in [nxt : Nat, edge : Nat] /\ client.nxt <= client.edge
  /\ \A a \in acks : a.ack \in Nat /\ a.ack <= client.nxt
  /\ pcb.state = "CLOSED" => pcb.nxt \in Nat /\ pcb.nxt <= client.nxt

-----------------------------------------------------------------------------
\* What tcp_write has taken reaches the client, or the connection ends, unless the
\* thread runs inside a tcp_write: no lost segment, acknowledgement or window
\* update, no sleep in the callback and no small frame held back leaves it on the
\* queues for good.
WrittenIsDelivered == client.nxt < pcb.lbb ~> client.nxt = pcb.lbb \/ ~Alive \/ raced
=============================================================================
