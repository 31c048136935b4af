---------------------------- MODULE FileTransfer ----------------------------
(***************************************************************************)
(* What the file transfer service promises, with no write buffer, no       *)
(* running check sum and no write position: the bytes of the accepted      *)
(* blocks are a growing sequence, the file on flash is at every moment a   *)
(* prefix of it, no other file is ever touched, and the status code of the *)
(* block that completes the file tells whether the stored bytes have the   *)
(* announced check sum - unless the last write was lost.                   *)
(***************************************************************************)
EXTENDS Naturals, Sequences

CONSTANTS Names,     \* full file names a host may send
          NoName,    \* no file is being received
          Sizes,     \* file sizes a header may announce
          Sums,      \* check sums a header may announce
          Blocks,    \* payloads of a block command
          Byte,      \* what a file is made of
          ZeroWord,  \* the check sum of nothing announced
          calc_check_sum(_)  \* the check sum of a sequence of bytes

VARIABLES active,    \* the file being received, or NoName
          received,  \* the bytes of the blocks accepted so far
          head,      \* what the header announced: size and check sum
          stored,    \* the files on flash
          status     \* the last status code sent to the host

vars == <<active, received, head, stored, status>>

NoHead == [size |-> 0, sum |-> ZeroWord]

Prefixes(s) == {SubSeq(s, 1, k) : k \in 0..Len(s)}

Init == /\ active = NoName
        /\ received = <<>>
        /\ head = NoHead
        /\ stored \in [Names -> Seq(Byte)]
        /\ status = "none"

(***************************************************************************)
(* A header truncates the file it names; a file whose transfer was under   *)
(* way stays as it is.                                                     *)
(***************************************************************************)
Begin(n, size, sum) ==
  /\ active' = n
  /\ received' = <<>>
  /\ head' = [size |-> size, sum |-> sum]
  /\ stored' = [stored EXCEPT ![n] = <<>>]
  /\ status' = "OK"

(***************************************************************************)
(* A block is accepted: its bytes follow the ones before, and a longer     *)
(* prefix of them may have reached the flash.                              *)
(***************************************************************************)
Accept(d) ==
  /\ active # NoName
  /\ Len(received \o d) # head.size
  /\ received' = received \o d
  /\ \E p \in Prefixes(received) :
        /\ Len(p) >= Len(stored[active])
        /\ stored' = [stored EXCEPT ![active] = p]
  /\ status' = "OK"
  /\ UNCHANGED <<active, head>>

Close == active' = NoName /\ received' = <<>> /\ head' = NoHead

(***************************************************************************)
(* The block that completes the file puts every byte on flash, and the     *)
(* status code is the comparison with the announced sum (an empty file is  *)
(* not compared).                                                          *)
(***************************************************************************)
Complete(d) ==
  /\ active # NoName
  /\ Len(received \o d) = head.size
  /\ stored' = [stored EXCEPT ![active] = received \o d]
  /\ status' = IF \/ received \o d = <<>>
                  \/ calc_check_sum(received \o d) = head.sum
               THEN "OK" ELSE "ERR"
  /\ Close

(***************************************************************************)
(* All bytes were received but the last write failed: some are missing on  *)
(* flash, and the host is told OK all the same.                            *)
(***************************************************************************)
LastWriteLost(d) ==
  /\ active # NoName
  /\ Len(received \o d) = head.size
  /\ \E p \in Prefixes(received \o d) :
        /\ Len(p) < head.size
        /\ stored' = [stored EXCEPT ![active] = p]
  /\ status' = "OK"
  /\ Close

(***************************************************************************)
(* The transfer is given up, by an error or by a power cycle: what is on   *)
(* flash is a prefix of what was accepted.                                 *)
(***************************************************************************)
Abort ==
  /\ active # NoName
  /\ \E p \in Prefixes(received) : stored' = [stored EXCEPT ![active] = p]
  /\ status' \in {"ERR", "none"}
  /\ Close

(***************************************************************************)
(* A command that is refused while no transfer is under way.               *)
(***************************************************************************)
Refuse ==
  /\ active = NoName
  /\ status' \in {"ERR", "none"}
  /\ UNCHANGED <<active, received, head, stored>>

Next == \/ \E n \in Names, size \in Sizes, sum \in Sums : Begin(n, size, sum)
        \/ \E d \in Blocks : Accept(d) \/ Complete(d) \/ LastWriteLost(d)
        \/ Abort
        \/ Refuse

Spec == Init /\ [][Next]_vars
=============================================================================
