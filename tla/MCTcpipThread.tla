--------------------------- MODULE MCTcpipThread ---------------------------
(* Small instances of TcpipThread: a tick of 3 ms, and intervals of 2, 4 and 6
   ticks in place of 25, 100 and 500. *)
EXTENDS TcpipThread

MCInterval == (TcpTimer :> 6) @@ (IpTimer :> 12) @@ (ArpTimer :> 18)
=============================================================================
