--------------------------- MODULE MCCheckSumLoop ---------------------------
(***************************************************************************)
(* Every buffer of up to nine one-bit bytes: no word, a short word alone,  *)
(* and up to two whole words with every length of short word behind them.  *)
(***************************************************************************)
EXTENDS CheckSumLoop, SequencesExt

MaxLen == 9

MCBufs == BoundedSeq(Byte, MaxLen)
=============================================================================
