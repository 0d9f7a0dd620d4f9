------------------------------ MODULE MCGateway ------------------------------
(* Instances of BluetoothGateway for TLC. *)
EXTENDS BluetoothGateway

\* UTF-8: the two bytes of one character.
MCTwoByte == {<<"C3", "B1">>}

\* Windows, where the gateway runs.
MCSeparator == <<"cr", "nl">>
=============================================================================
