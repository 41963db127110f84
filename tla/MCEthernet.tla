----------------------------- MODULE MCEthernet -----------------------------
(* Small instances of Ethernet. *)
EXTENDS Ethernet
=============================================================================
