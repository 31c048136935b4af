----------------------------- MODULE MCCommFrame -----------------------------
(* A small instance of CommFrame: bytes of eight values, a buffer of three   *)
(* bytes, two protocols (0 and 1), two FF 55 commands and two channels.       *)
EXTENDS CommFrame

\* The frames: one without data, one whose data hold the header byte 3, one
\* that fills the buffer with bytes of an FF 55 header, one for the protocol
\* after the last, one that does not fit.
MCContents == {<<1>>, <<1, 3>>, <<1, 7, 5>>, <<2>>, <<1, 0, 6, 2>>}

\* Requests for the version, one with an index that is no channel, one that
\* holds the header byte; and for the channel, with an index that is one and
\* with one just behind the last.
MCRequests == {<<7, 5, 2, 6, 1, 0>>, <<7, 5, 2, 3, 1, 0>>,
               <<7, 5, 2, 1, 1, 6>>, <<7, 5, 2, 2, 1, 6>>}

MCFwTable == {<<1, 0>>, <<1, 6>>}

MCChannelPairs == {<<1, 6>>}
==============================================================================
