-------------------------------- MODULE MCNvic --------------------------------
(* Instances of Nvic for TLC. *)
EXTENDS Nvic
=============================================================================
