---------------------------- MODULE MCFtpSession ----------------------------
(***************************************************************************)
(* An upload of eleven one-bit bytes in blocks of three through a buffer   *)
(* of six: the buffer is flushed on the way, with bytes left over.        *)
(***************************************************************************)
EXTENDS FtpSession

CONSTANTS main

x == Bits
o == {}

MCNames == {main}
MCFile  == <<x, o, x, x, o, o, x, o, x, x, x>>
MCEmpty == {}
=============================================================================
