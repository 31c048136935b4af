---------------------------- MODULE CheckSumLoop ----------------------------
(***************************************************************************)
(* calc_check_sum of codey_neurons_ftp.c as the code computes it: a loop   *)
(* over the words of the buffer, the last of which may be a short one.     *)
(* CheckSum defines what it must return.                                   *)
(***************************************************************************)
EXTENDS CheckSum

CONSTANT Bufs   \* the buffers the function may be called with

ASSUME BufsAssumption == Bufs \subseteq Seq(Byte)

VARIABLES buf, idx, oxr_check, pc

loopVars == <<buf, idx, oxr_check, pc>>

LoopInit == /\ buf \in Bufs
            /\ idx = 0
            /\ oxr_check = ZeroWord
            /\ pc = "loop"

\* Mutant of WordAt: tmp keeps something in the lanes no byte is copied to.
WordAtNotCleared(i) ==
  [l \in Lanes |-> IF i + l < Len(buf) THEN buf[i + l + 1] ELSE Bits]

(***************************************************************************)
(* tmp after the memcpy of the bytes from index i, at most four: the lanes *)
(* that no byte is copied to are zero.                                     *)
(***************************************************************************)
WordAt(i) ==
  [l \in Lanes |-> IF i + l < Len(buf) THEN buf[i + l + 1] ELSE {}]

WholeWord == /\ pc = "loop"
             /\ idx + 4 <= Len(buf)
             /\ oxr_check' = Xor(oxr_check, WordAt(idx))
             /\ idx' = idx + 4
             /\ UNCHANGED <<buf, pc>>

ShortWord == /\ pc = "loop"
             /\ idx < Len(buf)
             /\ idx + 4 > Len(buf)
             /\ oxr_check' = Xor(oxr_check, WordAt(idx))
             /\ pc' = "return"
             /\ UNCHANGED <<buf, idx>>

LoopEnds == /\ pc = "loop"
            /\ idx >= Len(buf)
            /\ pc' = "return"
            /\ UNCHANGED <<buf, idx, oxr_check>>

LoopNext == WholeWord \/ ShortWord \/ LoopEnds

LoopSpec == LoopInit /\ [][LoopNext]_loopVars
-----------------------------------------------------------------------------
(***************************************************************************)
(* Type invariant of the locals of calc_check_sum.                         *)
(***************************************************************************)
LoopTypeOK == /\ buf \in Seq(Byte)
              /\ idx \in Nat
              /\ oxr_check \in Word
              /\ pc \in {"loop", "return"}

(***************************************************************************)
(* Between two rounds of the loop, whole words have been consumed and      *)
(* oxr_check is the check sum of exactly the bytes before idx.             *)
(***************************************************************************)
PrefixSummed ==
  pc = "loop" => /\ idx % 4 = 0
                 /\ idx <= Len(buf)
                 /\ oxr_check = calc_check_sum(SubSeq(buf, 1, idx))

(***************************************************************************)
(* The loop returns the check sum of the whole buffer, also when its       *)
(* length is not a multiple of four.                                       *)
(***************************************************************************)
ReturnsCheckSum == pc = "return" => oxr_check = calc_check_sum(buf)

LoopInv == LoopTypeOK /\ PrefixSummed /\ ReturnsCheckSum
=============================================================================
