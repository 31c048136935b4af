---------------------------- MODULE MCBoardEvents -----------------------------
(* A small instance of BoardEvents: a clock that wraps every ten ticks, three *)
(* numbers for events, levels on both sides of a threshold and at it.         *)
EXTENDS BoardEvents

MCAccs == -3 .. 3
===============================================================================
