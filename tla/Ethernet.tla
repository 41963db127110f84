------------------------------ MODULE Ethernet ------------------------------
(***************************************************************************)
(* The Ethernet driver: two rings of descriptors shared with the DMA       *)
(* controller, the interrupt handler that moves received packets into the  *)
(* mailbox of the TCP/IP thread, and low_level_output, which the TCP/IP    *)
(* thread and the serial-to-TCP tasks call without mutual exclusion: the   *)
(* build compiles its SYS_ARCH_PROTECT to nothing.                         *)
(*                                                                         *)
(* The handler runs to completion before any thread does, a thread before  *)
(* those of lower priority; the DMA controller acts at any time.  Only     *)
(* frames that fit one descriptor are received.                            *)
(***************************************************************************)
EXTENDS Naturals, Sequences, FiniteSets, SequencesExt, FiniteSetsExt

CONSTANTS
  RxDescs,     \* ETH_RXBUFNB
  TxDescs,     \* ETH_TXBUFNB
  PbufPool,    \* PBUF_POOL_SIZE
  InpktPool,   \* MEMP_NUM_TCPIP_MSG_INPKT
  MboxSize,    \* TCPIP_MBOX_SIZE
  Sizes,       \* pbufs that received frames may need
  NumThreads   \* the threads that send: 1 is the TCP/IP thread, the most urgent

ASSUME RingAssumption == RxDescs \in Nat \ {0} /\ TxDescs \in Nat \ {0}
ASSUME PoolAssumption == /\ PbufPool \in Nat /\ InpktPool \in Nat /\ MboxSize \in Nat
                         /\ Sizes \subseteq Nat \ {0}
ASSUME ThreadAssumption == NumThreads \in Nat \ {0}

VARIABLES
  rxOwn, rxSize,  \* per receive descriptor, its owner and the size of its frame
  rxPos, rxGet,   \* the DMA's current descriptor, DMARxDescToGet
  rxFlag,         \* the receive interrupt's pending bit
  isr,            \* where ETH_IRQHandler is
  late,           \* whether a frame has arrived since the handler's last test
  held,           \* pbufs of the packet the handler passes on, 0 for none
  mbox,           \* the TCP/IP thread's mailbox: the sizes of the packets in it
  msg,            \* the size of the packet the thread works on, 0 for none
  pbufs, inpkts,  \* free elements of the two pools
  txOwn, txBuf,   \* per transmit descriptor, its owner and its buffer
  txPos, txSet,   \* the DMA's current descriptor, DMATxDescToSet
  snd,            \* per thread, where it is in low_level_output
  target,         \* per thread, the buffer it has looked up
  frame,          \* per thread, the frame it is sending or sends next
  given           \* history: frames reported as sent and not yet on the wire

rxRing == <<rxOwn, rxSize, rxPos, rxGet>>
handler == <<rxFlag, isr, late, held>>
stack  == <<mbox, msg, pbufs, inpkts>>
tx     == <<txOwn, txBuf, txPos, txSet, snd, target, frame, given>>
vars   == <<rxRing, handler, stack, tx>>

Rx      == 0 .. RxDescs - 1
Tx      == 0 .. TxDescs - 1
Threads == 1 .. NumThreads
Frames  == Threads \X {0, 1}   \* consecutive frames of a thread differ

RxNext(i) == (i + 1) % RxDescs
TxNext(i) == (i + 1) % TxDescs

Init ==
  /\ rxOwn = [i \in Rx |-> "dma"] /\ rxSize = [i \in Rx |-> 0]
  /\ rxPos = 0 /\ rxGet = 0
  /\ rxFlag = FALSE /\ isr = "out" /\ late = FALSE /\ held = 0
  /\ mbox = <<>> /\ msg = 0 /\ pbufs = PbufPool /\ inpkts = InpktPool
  /\ txOwn = [i \in Tx |-> "cpu"] /\ txBuf = [i \in Tx |-> <<1, 1>>]
  /\ txPos = 0 /\ txSet = 0
  /\ snd = [t \in Threads |-> "no"] /\ target = [t \in Threads |-> 0]
  /\ frame = [t \in Threads |-> <<t, 0>>] /\ given = <<>>

-----------------------------------------------------------------------------
(* Receiving *)

\* The DMA controller stores a frame in its current descriptor, or misses it.
\* A frame takes longer on the wire than the handler takes from its last test
\* to its end, so at most one arrives in between.
Arrive ==
  /\ isr = "clear" => ~late
  /\ late' = (isr = "clear")
  /\ IF rxOwn[rxPos] = "dma"
       THEN /\ \E n \in Sizes : rxSize' = [rxSize EXCEPT ![rxPos] = n]
            /\ rxOwn' = [rxOwn EXCEPT ![rxPos] = "cpu"]
            /\ rxPos' = RxNext(rxPos)
            /\ rxFlag' = TRUE
       ELSE UNCHANGED <<rxOwn, rxSize, rxPos, rxFlag>>
  /\ UNCHANGED <<rxGet, isr, held, stack, tx>>

IsrEnter ==
  /\ isr = "out" /\ rxFlag
  /\ isr' = "test"
  /\ UNCHANGED <<rxRing, rxFlag, late, held, stack, tx>>

\* while (ETH_GetRxPktSize() != 0)
IsrTest ==
  /\ isr = "test"
  /\ isr' = IF rxOwn[rxGet] = "cpu" THEN "take" ELSE "clear"
  /\ late' = FALSE
  /\ UNCHANGED <<rxRing, rxFlag, held, stack, tx>>

\* Slip: without a pbuf the descriptor is not given back.
IsrTakeKeeps ==
  /\ isr = "take"
  /\ LET n == rxSize[rxGet]
     IN  IF n <= pbufs
           THEN /\ pbufs' = pbufs - n /\ held' = n /\ isr' = "input"
                /\ rxOwn' = [rxOwn EXCEPT ![rxGet] = "dma"]
           ELSE isr' = "test" /\ UNCHANGED <<pbufs, held, rxOwn>>
  /\ rxGet' = RxNext(rxGet)
  /\ UNCHANGED <<rxSize, rxPos, rxFlag, late, mbox, msg, inpkts, tx>>

\* low_level_input: the packet is copied into pbufs, or dropped if the pool
\* has too few; either way the descriptor goes back to the DMA controller.
IsrTake ==
  /\ isr = "take"
  /\ LET n == rxSize[rxGet]
     IN  IF n <= pbufs
           THEN pbufs' = pbufs - n /\ held' = n /\ isr' = "input"
           ELSE isr' = "test" /\ UNCHANGED <<pbufs, held>>
  /\ rxOwn' = [rxOwn EXCEPT ![rxGet] = "dma"]
  /\ rxGet' = RxNext(rxGet)
  /\ UNCHANGED <<rxSize, rxPos, rxFlag, late, mbox, msg, inpkts, tx>>

\* Slip: a packet that cannot be posted is not freed.
IsrInputLeaks ==
  /\ isr = "input"
  /\ IF inpkts > 0 /\ Len(mbox) < MboxSize
       THEN mbox' = Append(mbox, held) /\ inpkts' = inpkts - 1
       ELSE UNCHANGED <<mbox, inpkts>>
  /\ held' = 0 /\ isr' = "test"
  /\ UNCHANGED <<rxRing, rxFlag, late, msg, pbufs, tx>>

\* Slip: only one packet per interrupt.
IsrInputOnce ==
  /\ isr = "input"
  /\ IF inpkts > 0 /\ Len(mbox) < MboxSize
       THEN mbox' = Append(mbox, held) /\ inpkts' = inpkts - 1 /\ pbufs' = pbufs
       ELSE pbufs' = pbufs + held /\ UNCHANGED <<mbox, inpkts>>
  /\ held' = 0 /\ isr' = "clear"
  /\ UNCHANGED <<rxRing, rxFlag, late, msg, tx>>

\* netif->input, that is tcpip_input: a message is allocated and posted; if
\* either fails what was allocated is freed again, and so is the packet.
IsrInput ==
  /\ isr = "input"
  /\ IF inpkts > 0 /\ Len(mbox) < MboxSize
       THEN mbox' = Append(mbox, held) /\ inpkts' = inpkts - 1 /\ pbufs' = pbufs
       ELSE pbufs' = pbufs + held /\ UNCHANGED <<mbox, inpkts>>
  /\ held' = 0 /\ isr' = "test"
  /\ UNCHANGED <<rxRing, rxFlag, late, msg, tx>>

\* The pending bits are cleared, whatever has arrived since the last test.
IsrClear ==
  /\ isr = "clear"
  /\ rxFlag' = FALSE /\ isr' = "out" /\ late' = FALSE
  /\ UNCHANGED <<rxRing, held, stack, tx>>

-----------------------------------------------------------------------------
(* Threads *)

Busy(t) == snd[t] # "no" \/ (t = 1 /\ (msg # 0 \/ mbox # <<>>))

MayRun(t) == isr = "out" /\ \A u \in 1 .. t - 1 : ~Busy(u)

\* The TCP/IP thread fetches a packet ...
Fetch ==
  /\ MayRun(1) /\ msg = 0 /\ snd[1] = "no" /\ mbox # <<>>
  /\ msg' = Head(mbox) /\ mbox' = Tail(mbox)
  /\ UNCHANGED <<rxRing, handler, pbufs, inpkts, tx>>

\* ... and, when it has processed it, frees it and its message.
Processed ==
  /\ MayRun(1) /\ msg # 0 /\ snd[1] = "no"
  /\ pbufs' = pbufs + msg /\ inpkts' = inpkts + 1 /\ msg' = 0
  /\ UNCHANGED <<rxRing, handler, mbox, tx>>

\* low_level_output looks up the current buffer without a look at its owner.
SendStart(t) ==
  /\ MayRun(t) /\ snd[t] = "no"
  /\ target' = [target EXCEPT ![t] = txSet]
  /\ snd' = [snd EXCEPT ![t] = "copy"]
  /\ UNCHANGED <<rxRing, handler, stack, txOwn, txBuf, txPos, txSet, frame, given>>

SendCopy(t) ==
  /\ MayRun(t) /\ snd[t] = "copy"
  /\ txBuf' = [txBuf EXCEPT ![target[t]] = frame[t]]
  /\ snd' = [snd EXCEPT ![t] = "submit"]
  /\ UNCHANGED <<rxRing, handler, stack, txOwn, txPos, txSet, target, frame, given>>

\* Slip: the next descriptor is not selected.
SendSubmitStays(t) ==
  /\ MayRun(t) /\ snd[t] = "submit"
  /\ txOwn' = [txOwn EXCEPT ![txSet] = "dma"]
  /\ given' = Append(given, frame[t])
  /\ frame' = [frame EXCEPT ![t][2] = 1 - @]
  /\ snd' = [snd EXCEPT ![t] = "no"]
  /\ UNCHANGED <<rxRing, handler, stack, txBuf, txPos, txSet, target>>

\* ETH_TxPkt_ChainMode hands over the current descriptor if it is free; its
\* result is ignored and low_level_output returns ERR_OK.
SendSubmit(t) ==
  /\ MayRun(t) /\ snd[t] = "submit"
  /\ IF txOwn[txSet] = "cpu"
       THEN /\ txOwn' = [txOwn EXCEPT ![txSet] = "dma"]
            /\ txSet' = TxNext(txSet)
       ELSE UNCHANGED <<txOwn, txSet>>
  /\ given' = Append(given, frame[t])
  /\ frame' = [frame EXCEPT ![t][2] = 1 - @]
  /\ snd' = [snd EXCEPT ![t] = "no"]
  /\ UNCHANGED <<rxRing, handler, stack, txBuf, txPos, target>>

\* The DMA controller fetches its current buffer and sends it.
TxFetch ==
  /\ txOwn[txPos] = "dma"
  /\ txOwn' = [txOwn EXCEPT ![txPos] = "cpu"]
  /\ txPos' = TxNext(txPos)
  /\ given' = IF given = <<>> THEN given ELSE Tail(given)
  /\ UNCHANGED <<rxRing, handler, stack, txBuf, txSet, snd, target, frame>>

-----------------------------------------------------------------------------
Receives == \/ Arrive \/ IsrEnter \/ IsrTest \/ IsrTake \/ IsrInput \/ IsrClear
            \/ Fetch \/ Processed

\* The ring has room for every frame that is being sent.
Room == Cardinality({i \in Tx : txOwn[i] = "dma"})
          + Cardinality({t \in Threads : snd[t] # "no"}) < TxDescs

Sends == \E t \in Threads : (Room /\ SendStart(t)) \/ SendCopy(t) \/ SendSubmit(t)

\* The driver while its transmit ring never runs full.
Next == Receives \/ Sends \/ TxFetch
Spec == Init /\ [][Next]_vars

\* The same where, in addition, no thread sends while another is sending.
AloneNext ==
  \/ Receives \/ TxFetch
  \/ \E t \in Threads :
       \/ Room /\ SendStart(t) /\ \A u \in Threads : snd[u] = "no"
       \/ SendCopy(t) \/ SendSubmit(t)
AloneSpec == Init /\ [][AloneNext]_vars
-----------------------------------------------------------------------------
(* Properties *)

TypeOK ==
  /\ rxOwn \in [Rx -> {"dma", "cpu"}] /\ rxSize \in [Rx -> Sizes \cup {0}]
  /\ rxPos \in Rx /\ rxGet \in Rx
  /\ rxFlag \in BOOLEAN /\ late \in BOOLEAN
  /\ isr \in {"out", "test", "take", "input", "clear"} /\ held \in Sizes \cup {0}
  /\ mbox \in Seq(Sizes) /\ Len(mbox) <= MboxSize /\ msg \in Sizes \cup {0}
  /\ pbufs \in 0 .. PbufPool /\ inpkts \in 0 .. InpktPool
  /\ txOwn \in [Tx -> {"dma", "cpu"}] /\ txBuf \in [Tx -> Frames]
  /\ txPos \in Tx /\ txSet \in Tx
  /\ snd \in [Threads -> {"no", "copy", "submit"}] /\ target \in [Threads -> Tx]
  /\ frame \in [Threads -> Frames] /\ given \in Seq(Frames)

\* The frames that wait for the handler are the descriptors from
\* DMARxDescToGet up to the DMA's: the handler takes them in the order of
\* their arrival, skips none, and never waits at a descriptor the DMA will
\* only fill after others.
RingInOrder ==
  LET full == {i \in Rx : rxOwn[i] = "cpu"}
  IN  /\ full = {(rxGet + k) % RxDescs : k \in 0 .. Cardinality(full) - 1}
      /\ rxPos = (rxGet + Cardinality(full)) % RxDescs

\* The pbufs of the packets in a mailbox.
Total(q) == FoldLeft(LAMBDA n, m : n + m, 0, q)

\* No pbuf and no message is ever lost, however many packets are dropped on
\* whichever path.
NoLeak ==
  /\ pbufs + held + msg + Total(mbox) = PbufPool
  /\ inpkts + Len(mbox) + (IF msg # 0 THEN 1 ELSE 0) = InpktPool

\* The handler clears the pending bit after its last look at the ring, so a
\* frame may wait unnoticed, but never a second one.
AtMostOneUnnoticed ==
  isr = "out" /\ ~rxFlag => Cardinality({i \in Rx : rxOwn[i] = "cpu"}) <= 1

\* low_level_output returns ERR_OK "if the packet could be sent": frames reach
\* the wire as they were given, in that order, each once.
SentAsGiven == [][TxFetch => given # <<>> /\ txBuf[txPos] = Head(given)]_vars
-----------------------------------------------------------------------------
(* What keeps both rings in order. *)

\* How far descriptor i of a ring of n is from descriptor g.
Ahead(n, g, i) == IF i >= g THEN i - g ELSE i - g + n

\* In a ring of n descriptors those of S are the first c from g on, and p is
\* the one behind them.
Queues(n, S, g, p, c) ==
  /\ c \in 0 .. n /\ g \in 0 .. n - 1 /\ p \in 0 .. n - 1
  /\ S = {i \in 0 .. n - 1 : Ahead(n, g, i) < c}
  /\ p = IF g + c < n THEN g + c ELSE g + c - n

Full     == {i \in Rx : rxOwn[i] = "cpu"}   \* frames that wait for the handler
Outgoing == {i \in Tx : txOwn[i] = "dma"}   \* frames that wait to be sent

\* The handler knows of every frame but the one that arrives behind its back.
RxInv ==
  /\ rxOwn \in [Rx -> {"dma", "cpu"}]
  /\ rxFlag \in BOOLEAN /\ late \in BOOLEAN
  /\ isr \in {"out", "test", "take", "input", "clear"}
  /\ Queues(RxDescs, Full, rxGet, rxPos, Cardinality(Full))
  /\ isr = "take" => rxGet \in Full
  /\ isr = "clear" => Cardinality(Full) <= IF late THEN 1 ELSE 0
  /\ isr = "out" /\ ~rxFlag => Cardinality(Full) <= 1

\* What the handler and the TCP/IP thread hold are packets of received frames.
PoolTypes ==
  /\ rxSize \in [Rx -> Sizes \cup {0}] /\ held \in Sizes \cup {0} /\ msg \in Sizes \cup {0}
  /\ mbox \in Seq(Sizes) /\ Len(mbox) <= MboxSize
  /\ pbufs \in Nat /\ inpkts \in Nat

\* Nothing is lost, every full descriptor has a frame, and the handler holds a
\* packet only while it passes one on.
PoolInv ==
  /\ PoolTypes /\ NoLeak
  /\ \A i \in Full : rxSize[i] # 0
  /\ isr = "input" <=> held # 0

\* With one sender at a time: the buffers of the frames that wait to be sent
\* hold what was given, and the sender has the next buffer to itself.
TxInv ==
  /\ txOwn \in [Tx -> {"dma", "cpu"}] /\ txBuf \in [Tx -> Frames]
  /\ snd \in [Threads -> {"no", "copy", "submit"}] /\ target \in [Threads -> Tx]
  /\ frame \in [Threads -> Frames] /\ given \in Seq(Frames)
  /\ Queues(TxDescs, Outgoing, txPos, txSet, Len(given))
  /\ \A i \in Outgoing : txBuf[i] = given[Ahead(TxDescs, txPos, i) + 1]
  /\ \A t, u \in Threads : snd[t] # "no" /\ snd[u] # "no" => t = u
  /\ \A t \in Threads : snd[t] # "no" => target[t] = txSet /\ Len(given) < TxDescs
  /\ \A t \in Threads : snd[t] = "submit" => txBuf[txSet] = frame[t]
=============================================================================
