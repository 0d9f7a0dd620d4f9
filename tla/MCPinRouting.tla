---------------------------- MODULE MCPinRouting -----------------------------
(* Instances of PinRouting for TLC. *)
EXTENDS PinRouting
=============================================================================
