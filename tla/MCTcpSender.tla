---------------------------- MODULE MCTcpSender ----------------------------
(* Small instances of TcpSender. *)
EXTENDS TcpSender
=============================================================================
