----------------------------- MODULE MCUartEcho ------------------------------
(* Instances of UartEcho for TLC.  The program writes only what its own code *)
(* computes, so the guest values of Stm32Uart are not used.                  *)
EXTENDS UartEcho

ASSUME EchoAssumption == DemoSetup
=============================================================================
