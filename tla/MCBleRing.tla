----------------------------- MODULE MCBleRing ------------------------------
(***************************************************************************)
(* BleRing for TLC: a ring of four slots, events of one or two bytes.      *)
(***************************************************************************)
EXTENDS BleRing
=============================================================================
