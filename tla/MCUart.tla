------------------------------- MODULE MCUart --------------------------------
(* Stm32Uart for TLC, in the two builds of stm32_uart.c: the one qemu_stm32   *)
(* ships, which defines STM32_UART_NO_BAUD_DELAY and not                     *)
(* STM32_UART_ENABLE_OVERRUN, and the one with both the other way round.     *)
EXTENDS Stm32Uart

VARIABLE build \* "shipped" or "delay"; never changes

\* Transmit and receive enabled in one register write each, all interrupt
\* enables on or off together with the direction they belong to.
Bits(ue, te, re, txie, tcie, rxie) ==
  [UE |-> ue, TE |-> te, RE |-> re,
   TXEIE |-> txie, TCIE |-> tcie, RXNEIE |-> rxie]

MCCR1Values ==
  {Bits(0, 0, 0, 0, 0, 0), Bits(1, 1, 1, 0, 0, 0), Bits(1, 1, 1, 0, 1, 0),
   Bits(1, 1, 1, 1, 0, 1), Bits(1, 0, 1, 0, 0, 1), Bits(0, 1, 1, 0, 1, 1)}

\* The shipped build, one byte value received: stamps tell the receptions apart.
Shipped == INSTANCE Stm32Uart WITH RxBytes <- {7}

\* The build with baud delays and overruns, its clock left alone and without
\* the register values that enable no interrupt or no transmitter.
Delay == INSTANCE Stm32Uart WITH
  NoBaudDelay <- FALSE, EnableOverrun <- TRUE, BRRValues <- {}, Freqs <- {0},
  CR1Values <- MCCR1Values \ {Bits(1, 1, 1, 0, 0, 0), Bits(1, 0, 1, 0, 0, 1)}

BuildsInit == build \in {"shipped", "delay"} /\ Init
BuildsNext ==
  /\ \/ build = "shipped" /\ Shipped!Next
     \/ build = "delay" /\ Delay!Next
  /\ UNCHANGED build
BuildsSpec == BuildsInit /\ [][BuildsNext]_<<vars, build>>
=============================================================================
