----------------------------- MODULE MCUartLink ------------------------------
(* Instances of UartLink for TLC. *)
EXTENDS UartLink

Bits(ue) == [UE |-> ue, TE |-> 1, RE |-> 1, TXEIE |-> 0, TCIE |-> 0, RXNEIE |-> 0]

\* A guest that also disables the UART.
Toggles == {Bits(0), Bits(1)}
=============================================================================
