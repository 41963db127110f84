---------------------------- MODULE MCRs485Line ----------------------------
(* Rs485Line with the board's priorities and its times scaled down: at 115200
   baud a byte of 11 bits takes 95 us on RS232, less than one count of 167 us;
   at 19200 baud one of 10 bits takes 521 us on RS485, half of TIM2's period
   of six counts.  The period is four counts here, and a tick five instead of
   sixty.  *)
EXTENDS Rs485Line

BoardByteTime == [p \in Ports |-> IF p = Line THEN 2 ELSE 0]
BoardWireTime == [p \in Ports |-> IF p = Line THEN 2 ELSE 1]
BoardPrio == [t \in Tasks |-> CASE t = "RS232_to_TCP_task" -> 7
                                [] t = "RS485_to_TCP_task" -> 8
                                [] t = "TCP_server_task" -> 9]
=============================================================================
