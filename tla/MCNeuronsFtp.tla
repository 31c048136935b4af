---------------------------- MODULE MCNeuronsFtp ----------------------------
(***************************************************************************)
(* Instances of NeuronsFtp for TLC: bytes of one bit, a buffer of six      *)
(* bytes, blocks shorter and longer than a word and one larger than the    *)
(* buffer, two files of which one has a name too long for the mailbox.     *)
(***************************************************************************)
EXTENDS NeuronsFtp

CONSTANTS main, song

x == Bits   \* the two byte values of a one-bit byte
o == {}

MCNames  == {main, song}
MCLong   == {song}
MCSizes  == {0, 5, 8}
MCBlocks == {<<>>, <<x>>, <<x, o, x>>, <<o, x, x, x>>,
             <<x, x, o, o, x, o, x>>}
MCSums   == {calc_check_sum(<<x, o, x, x, o, x, x, x>>),
             calc_check_sum(<<x, o, x, o, x>>)}
=============================================================================
