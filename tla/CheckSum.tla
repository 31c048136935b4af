------------------------------ MODULE CheckSum ------------------------------
(***************************************************************************)
(* The 32-bit xor check sum of a file, calc_check_sum of                   *)
(* codey_neurons_ftp.c.  A byte is the set of its bits that are 1, so that *)
(* xor is symmetric difference; a 32-bit word is four byte lanes, lane l   *)
(* holding the bytes whose index is l modulo 4 (memcpy of four bytes into  *)
(* a little endian uint32_t).                                              *)
(***************************************************************************)
EXTENDS Naturals, Sequences, FiniteSets

CONSTANT Bits   \* the bits of a byte: 0..7 in the code

ASSUME BitsAssumption == IsFiniteSet(Bits)

Byte  == SUBSET Bits
Lanes == 0..3
Word  == [Lanes -> Byte]

ZeroWord == [l \in Lanes |-> {}]

Xor(v, w) == [l \in Lanes |-> (v[l] \ w[l]) \cup (w[l] \ v[l])]

(***************************************************************************)
(* The bytes of s that fall in lane l and have bit b set.                  *)
(***************************************************************************)
Ones(s, l, b) == {i \in 1..Len(s) : (i + 3) % 4 = l /\ b \in s[i]}

(***************************************************************************)
(* The words of s are xor-ed together, the last one padded with zeros: a   *)
(* bit of the result is the parity of the ones met in its place.           *)
(***************************************************************************)
calc_check_sum(s) ==
  [l \in Lanes |-> {b \in Bits : Cardinality(Ones(s, l, b)) % 2 = 1}]
=============================================================================
