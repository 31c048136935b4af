----------------------------- MODULE FtpSession -----------------------------
(***************************************************************************)
(* A host uploads one file to the device over an unreliable link.  The     *)
(* host is the one of document/file_to_hex.py: a header frame, then the    *)
(* blocks in order, each with its offset; it waits for the response to     *)
(* each frame and, as step 6 of the protocol's description allows, sends a *)
(* frame again when no response came.  The device is NeuronsFtp.           *)
(*                                                                         *)
(* A frame is lost when the receive ring is full or its check sum is       *)
(* wrong; a response is lost when the BLE link drops it.                   *)
(***************************************************************************)
EXTENDS NeuronsFtp

CONSTANTS Script,         \* the name the host uploads to
          File,           \* the bytes of the file
          BlockLen,       \* FILE_BLOCK_SIZE: bytes of a block
          MaxLostFrames,  \* bound: frames the link may lose
          MaxLostAcks     \* bound: responses the link may lose

ASSUME SessionAssumption ==
  /\ Script \in Names \ {READY}   \* READY in the mailbox is no file name
  /\ File \in Seq(Byte) /\ File # <<>>
  /\ BlockLen \in Nat \ {0}
  /\ BlockLen + 3 <= BufSize   \* a whole-word flush makes room for a block
  /\ MaxLostFrames \in Nat
  /\ MaxLostAcks \in Nat

VARIABLES host,       \* "start", "head", "block", "done" or "failed"
          pos,        \* offset of the block the host is sending
          link,       \* what is in flight: "none", "frame" or "ack"
          lostFrames, lostAcks

hostVars    == <<host, pos>>
linkVars    == <<link, lostFrames, lostAcks>>
sessionVars == <<vars, hostVars, linkVars>>

SessionInit == /\ Init
               /\ host = "start"
               /\ pos = 0
               /\ link = "none"
               /\ lostFrames = 0
               /\ lostAcks = 0

Min2(a, b) == IF a <= b THEN a ELSE b

(***************************************************************************)
(* The payload of the block at offset p.                                   *)
(***************************************************************************)
BlockAt(p) == SubSeq(File, p + 1, Min2(p + BlockLen, Len(File)))
-----------------------------------------------------------------------------
SendHead == /\ host = "start"
            /\ host' = "head"
            /\ link' = "frame"
            /\ UNCHANGED <<vars, pos, lostFrames, lostAcks>>

\* Mutant of RecvAck: a frame answered with ERR is sent again.
RecvAckRetryErr ==
  /\ link = "ack"
  /\ LET next == IF host = "head" THEN 0 ELSE pos + BlockLen
     IN \/ /\ rsp = "OK" /\ next < Len(File)
           /\ host' = "block" /\ pos' = next /\ link' = "frame"
        \/ /\ rsp = "OK" /\ next >= Len(File)
           /\ host' = "done" /\ link' = "none" /\ UNCHANGED pos
        \/ /\ rsp = "ERR"
           /\ link' = "frame" /\ UNCHANGED hostVars
  /\ UNCHANGED <<vars, lostFrames, lostAcks>>

(***************************************************************************)
(* The response to the frame arrives: the host goes on to the next block,  *)
(* is done after the last one, or gives up.                                *)
(***************************************************************************)
RecvAck ==
  /\ link = "ack"
  /\ LET next == IF host = "head" THEN 0 ELSE pos + BlockLen
     IN \/ /\ rsp = "OK" /\ next < Len(File)
           /\ host' = "block" /\ pos' = next /\ link' = "frame"
        \/ /\ rsp = "OK" /\ next >= Len(File)
           /\ host' = "done" /\ link' = "none" /\ UNCHANGED pos
        \/ /\ rsp = "ERR"
           /\ host' = "failed" /\ link' = "none" /\ UNCHANGED pos
  /\ UNCHANGED <<vars, lostFrames, lostAcks>>

(***************************************************************************)
(* No response came: the host sends the same frame again.                  *)
(***************************************************************************)
Retransmit == /\ host \in {"head", "block"}
              /\ link = "none"
              /\ link' = "frame"
              /\ UNCHANGED <<vars, hostVars, lostFrames, lostAcks>>

(***************************************************************************)
(* The device handles the frame and responds.                              *)
(***************************************************************************)
HandleHead == /\ host = "head"
              /\ \/ HeadOk(Script, Len(File), calc_check_sum(File))
                 \/ StorageFaults /\ HeadFail

HandleBlock == /\ host = "block"
               /\ LET d == BlockAt(pos)
                  IN \/ BlockMore(d) \/ BlockFail(d) \/ BlockLast(d)
                     \/ ~ file_info.is_file_open /\ Refuse

Handle == /\ link = "frame"
          /\ HandleHead \/ HandleBlock
          /\ link' = "ack"
          /\ UNCHANGED <<hostVars, lostFrames, lostAcks>>

LoseFrame == /\ link = "frame"
             /\ lostFrames < MaxLostFrames
             /\ link' = "none"
             /\ lostFrames' = lostFrames + 1
             /\ UNCHANGED <<vars, hostVars, lostAcks>>

LoseAck == /\ link = "ack"
           /\ lostAcks < MaxLostAcks
           /\ link' = "none"
           /\ lostAcks' = lostAcks + 1
           /\ UNCHANGED <<vars, hostVars, lostFrames>>

(***************************************************************************)
(* The communication task reads the mailbox between two frames.            *)
(***************************************************************************)
ReadMailbox == GetRecvFileName /\ UNCHANGED <<hostVars, linkVars>>

SessionNext == \/ SendHead \/ RecvAck \/ Retransmit \/ Handle
               \/ LoseFrame \/ LoseAck \/ ReadMailbox

(***************************************************************************)
(* The host keeps waiting, retrying and sending; the communication task    *)
(* handles every frame that arrives and reads the mailbox after it.        *)
(***************************************************************************)
SessionFairness ==
  /\ WF_sessionVars(SendHead \/ RecvAck \/ Retransmit \/ Handle)
  /\ WF_sessionVars(ReadMailbox)

SessionSpec == SessionInit /\ [][SessionNext]_sessionVars /\ SessionFairness
-----------------------------------------------------------------------------
(***************************************************************************)
(* When every frame of the upload was answered with OK, the file on flash  *)
(* is the host's file (steps 4 and 5 of the protocol's description, and    *)
(* what codey_neurons_ftp_parse answers on the last block).                *)
(***************************************************************************)
SuccessMeansStored == host = "done" => disk[Script] = File

(***************************************************************************)
(* The communication task is told the script's name, and will restart the  *)
(* script, only when the whole file is on flash.                           *)
(***************************************************************************)
NotifiedMeansStored == notified = Script => disk[Script] = File

(***************************************************************************)
(* An upload over a link that loses frames, but no responses, ends with    *)
(* the host done and the communication task told the script's name.        *)
(***************************************************************************)
UploadCompletes == <>(host = "done") /\ <>(notified = Script)

(***************************************************************************)
(* Whatever is lost and however the storage fails, every byte that was     *)
(* acknowledged before the current block was accepted by the transfer that *)
(* is open: it is on flash or in the write buffer.                         *)
(***************************************************************************)
AckedBytesHeld ==
  host = "block" /\ file_info.is_file_open => Accepted >= pos

(***************************************************************************)
(* Whatever is lost and however the storage fails, the host is not kept    *)
(* waiting or retrying forever: the upload ends.                           *)
(***************************************************************************)
UploadEnds == <>(host \in {"done", "failed"})
=============================================================================
