---------------------------- MODULE MCSerialPort ----------------------------
(***************************************************************************)
(* Small instances of SerialPort.  The order of the two interrupts comes   *)
(* from the priority registers that NVIC_Configuration really programs.    *)
(***************************************************************************)
EXTENDS SerialPort

Board == INSTANCE Nvic

Rs232Outranks == Board!Preempts("USART2", "TIM2")
Rs485Outranks == Board!Preempts("USART1", "TIM2")

=============================================================================
