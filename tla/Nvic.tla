-------------------------------- MODULE Nvic --------------------------------
(***************************************************************************)
(* The interrupt priorities of the board: what NVIC_Configuration asks     *)
(* for, what the priority register holds after NVIC_Init has encoded it,   *)
(* and which handler may preempt which.  The register is 8 bits wide and   *)
(* implements the upper four; with NVIC_PriorityGroup_2 two of those are   *)
(* the preemption level.                                                   *)
(***************************************************************************)
EXTENDS Naturals

\* The preemption and sub-priority each handler is configured with.
Configured ==
  [ ETH      |-> [pre |-> 0, sub |-> 0],
    CAN1_RX0 |-> [pre |-> 1, sub |-> 0],
    CAN2_RX0 |-> [pre |-> 2, sub |-> 0],
    USART1   |-> [pre |-> 3, sub |-> 0],
    USART2   |-> [pre |-> 4, sub |-> 0],
    TIM2     |-> [pre |-> 1, sub |-> 1] ]

IRQn == DOMAIN Configured

\* NVIC_Init for two preemption bits: pre << 2, or'ed with two bits of sub,
\* << 4, stored in a byte.
PriorityRegister(irq) ==
  ((Configured[irq].pre * 4 + (Configured[irq].sub % 4)) * 16) % 256

\* The level the core compares: the two upper bits of the register.
Level(irq) == PriorityRegister(irq) \div 64

Preempts(a, b) == Level(a) < Level(b)

=============================================================================
