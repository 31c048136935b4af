--------------------------- MODULE FtpSessionProofs --------------------------
(***************************************************************************)
(* Proofs about FtpSession, for every file, block length and buffer: what  *)
(* was acknowledged is held whatever is lost and however the storage       *)
(* fails; and, while no response is lost and the storage works, a host     *)
(* that is done and a task that is told the name find the file on flash.   *)
(***************************************************************************)
EXTENDS FtpSession, NeuronsFtpProofs

SessionTypes ==
  /\ host \in {"start", "head", "block", "done", "failed"}
  /\ pos \in Nat /\ (host = "block" => pos < Len(File))
  /\ link \in {"none", "frame", "ack"}
  /\ link # "none" => host \in {"head", "block"}
  /\ lostAcks \in Nat

\* The bytes of the file up to the end of the block at p.
End(p) == Min2(p + BlockLen, Len(File))

(***************************************************************************)
(* The acknowledged bytes, and the block whose response is on its way.     *)
(***************************************************************************)
Held ==
  host = "block" /\ file_info.is_file_open =>
    Len(Received) >= IF link = "ack" THEN End(pos) ELSE pos

HeldInv == FtpInv /\ SessionTypes /\ Held

(***************************************************************************)
(* The transfer that is open is the host's, and has received k bytes of    *)
(* the host's file.                                                        *)
(***************************************************************************)
Got(k) ==
  /\ file_info.is_file_open
  /\ file_info.file_name = Script
  /\ file_info.file_size = Len(File)
  /\ file_info.file_check_sum = calc_check_sum(File)
  /\ Received = SubSeq(File, 1, k)

LastBlock == pos + BlockLen >= Len(File)

\* The whole file was received; no frame of the host will touch it again.
Ended ==
  /\ disk[Script] = File
  /\ host = "done" \/ (host = "block" /\ link = "ack" /\ LastBlock)

(***************************************************************************)
(* How far the device is, for every state of the host and the link.        *)
(***************************************************************************)
InStep ==
  /\ host = "head" /\ link = "ack" => rsp = "OK" /\ Got(0)
  /\ host = "block" /\ link # "ack" => Got(pos)
  /\ host = "block" /\ link = "ack" =>
       rsp = "OK" /\ IF LastBlock THEN Ended ELSE Got(pos + BlockLen)
  /\ host = "done" => Ended

Mailbox == (rx_file_name = Script \/ notified = Script) => Ended

InStepInv == FtpInv /\ SessionTypes /\ InStep /\ Mailbox
-----------------------------------------------------------------------------
LEMMA BlockFacts ==
  ASSUME NEW p \in Nat, p < Len(File)
  PROVE  /\ BlockAt(p) \in Seq(Byte)
         /\ End(p) \in Nat /\ p < End(p) /\ End(p) <= Len(File)
         /\ End(p) = IF p + BlockLen >= Len(File) THEN Len(File) ELSE p + BlockLen
         /\ Len(BlockAt(p)) = End(p) - p
         /\ Len(BlockAt(p)) <= BlockLen
         /\ SubSeq(File, 1, p) \o BlockAt(p) = SubSeq(File, 1, End(p))
<1> USE SessionAssumption
<1>1. Len(File) \in Nat /\ File \in Seq(Byte) /\ BlockLen \in Nat \ {0}
  OBVIOUS
<1>2. /\ End(p) \in Nat /\ p < End(p) /\ End(p) <= Len(File)
      /\ End(p) = IF p + BlockLen >= Len(File) THEN Len(File) ELSE p + BlockLen
      /\ End(p) - p <= BlockLen
  BY ONLY <1>1, p < Len(File), p \in Nat DEF End, Min2
<1>3. BlockAt(p) = SubSeq(File, p + 1, End(p))
  BY DEF BlockAt, End
<1>4. \A i \in p + 1 .. End(p) : File[i] \in Byte
  BY <1>1, <1>2, ElementOfSeq
<1>5. /\ SubSeq(File, p + 1, End(p)) \in Seq(Byte)
      /\ Len(SubSeq(File, p + 1, End(p)))
           = IF p + 1 <= End(p) THEN End(p) - (p + 1) + 1 ELSE 0
  <2>1. p + 1 \in Int /\ End(p) \in Int
    BY <1>2
  <2> QED BY <2>1, <1>4, SubSeqProperties
<1>6. Len(BlockAt(p)) = End(p) - p
  BY <1>2, <1>3, <1>5
<1>7. SubSeq(File, 1, p) \o SubSeq(File, p + 1, End(p)) = SubSeq(File, 1, End(p))
  <2>1. 1 \in 1 .. Len(File) + 1 /\ p \in 1 - 1 .. Len(File) /\ End(p) \in p .. Len(File)
    BY <1>1, <1>2
  <2> QED BY <2>1, <1>1, ConcatAdjacentSubSeq
<1> QED BY <1>2, <1>3, <1>5, <1>6, <1>7

LEMMA AcceptedIsReceived ==
  ASSUME FtpInv, file_info.is_file_open
  PROVE  Received \in Seq(Byte) /\ Accepted = Len(Received)
<1>1. /\ Content \in Seq(Byte) /\ file_info.flash_write_buf \in Seq(Byte)
      /\ Received = Content \o file_info.flash_write_buf
  BY MapOpen
<1>2. file_info.file_write_idx = Len(Content)
  BY DEF FtpInv, WriteIndexAtEnd
<1> QED BY <1>1, <1>2, ConcatProperties DEF Accepted

(***************************************************************************)
(* Every step of a session preserves the invariant of the device and the   *)
(* types of the host and the link.                                         *)
(***************************************************************************)
LEMMA SessionFtpStep ==
  ASSUME FtpInv, SessionTypes, [SessionNext]_sessionVars
  PROVE  FtpInv'
<1>1. ASSUME HandleHead PROVE FtpInv'
  <2>1. Script \in Names /\ Len(File) \in Nat /\ calc_check_sum(File) \in Word
    BY SessionAssumption, CheckSumType
  <2> QED BY <1>1, <2>1, HeadOkInv, FailInv DEF HandleHead
<1>2. ASSUME HandleBlock PROVE FtpInv'
  <2>1. BlockAt(pos) \in Seq(Byte)
    BY <1>2, BlockFacts DEF HandleBlock, SessionTypes
  <2> QED BY <1>2, <2>1, BlockMoreInv, BlockFailInv, BlockLastInv, FailInv
          DEF HandleBlock
<1>3. CASE UNCHANGED vars
  BY <1>3, UnchangedInv
<1>4. CASE GetRecvFileName
  BY <1>4, MailboxInv
<1> QED BY <1>1, <1>2, <1>3, <1>4
        DEF SessionNext, SendHead, RecvAck, Retransmit, Handle, LoseFrame,
            LoseAck, ReadMailbox, sessionVars

LEMMA SessionTypesStep ==
  ASSUME SessionTypes, [SessionNext]_sessionVars
  PROVE  SessionTypes'
<1> USE SessionAssumption DEF SessionTypes, hostVars, linkVars
<1>1. Len(File) \in Nat /\ BlockLen \in Nat /\ Len(File) # 0
  BY EmptySeq
<1>2. CASE SendHead
  BY <1>2 DEF SendHead
<1>3. CASE RecvAck
  BY <1>1, <1>3 DEF RecvAck
<1>4. CASE Retransmit
  BY <1>4 DEF Retransmit
<1>5. CASE Handle
  BY <1>5 DEF Handle, HandleHead, HandleBlock
<1>6. CASE LoseFrame
  BY <1>6 DEF LoseFrame
<1>7. CASE LoseAck
  BY <1>7 DEF LoseAck
<1>8. CASE ReadMailbox
  BY <1>8 DEF ReadMailbox
<1>9. CASE UNCHANGED sessionVars
  BY <1>9 DEF sessionVars
<1> QED BY <1>2, <1>3, <1>4, <1>5, <1>6, <1>7, <1>8, <1>9 DEF SessionNext

LEMMA SessionStart == SessionInit => FtpInv /\ SessionTypes
BY FtpInitInv DEF SessionInit, SessionTypes
-----------------------------------------------------------------------------
(***************************************************************************)
(* The state of the device when its variables do not change.               *)
(***************************************************************************)
LEMMA SameDevice ==
  ASSUME file_info' = file_info, disk' = disk
  PROVE  Received' = Received /\ \A k : Got(k)' <=> Got(k)
BY DEF Received, Content, Got

LEMMA HeldStep ==
  ASSUME HeldInv, [SessionNext]_sessionVars, FtpInv', SessionTypes'
  PROVE  Held'
<1> USE DEF HeldInv, Held
<1>0. /\ Len(File) \in Nat /\ BlockLen \in Nat \ {0} /\ pos \in Nat
      /\ file_info.is_file_open => Len(Received) \in Nat
  BY SessionAssumption, AcceptedIsReceived DEF SessionTypes
<1>1. CASE SendHead
  BY <1>1 DEF SendHead
<1>2. CASE RecvAck
  <2> SUFFICES ASSUME host' = "block", file_info'.is_file_open
               PROVE  Len(Received') >= IF link' = "ack" THEN End(pos') ELSE pos'
    BY DEF Held
  <2>1. file_info' = file_info /\ disk' = disk
    BY <1>2 DEF RecvAck, vars
  <2>2. Received' = Received
    BY <2>1, SameDevice
  <2>3. /\ link = "ack" /\ link' = "frame"
        /\ pos' = IF host = "head" THEN 0 ELSE pos + BlockLen
        /\ pos' < Len(File)
    BY <1>2 DEF RecvAck
  <2>4. CASE host = "head"
    BY <1>0, <2>1, <2>2, <2>3, <2>4
  <2>5. CASE host = "block"
    <3>1. Len(Received) >= End(pos)
      BY <2>1, <2>3, <2>5
    <3>2. pos < Len(File)
      BY <2>5 DEF SessionTypes
    <3>3. End(pos) = pos + BlockLen
      BY <1>0, <2>3, <2>5, <3>2, BlockFacts
    <3> QED BY <2>2, <2>3, <2>5, <3>1, <3>3
  <2> QED BY <2>3, <2>4, <2>5 DEF SessionTypes
<1>3. CASE Retransmit \/ LoseFrame \/ LoseAck \/ ReadMailbox \/ UNCHANGED sessionVars
  <2>1. /\ file_info' = file_info /\ disk' = disk /\ host' = host /\ pos' = pos
        /\ link' = "ack" => link = "ack"
    BY <1>3 DEF Retransmit, LoseFrame, LoseAck, ReadMailbox, GetRecvFileName,
                sessionVars, vars, hostVars, linkVars
  <2>2. Received' = Received
    BY <2>1, SameDevice
  <2>3. host = "block" => pos < End(pos) /\ End(pos) \in Nat
    BY <1>0, BlockFacts DEF SessionTypes
  <2> QED BY <1>0, <2>1, <2>2, <2>3
<1>4. CASE Handle
  <2> SUFFICES ASSUME host' = "block", file_info'.is_file_open
               PROVE  Len(Received') >= IF link' = "ack" THEN End(pos') ELSE pos'
    BY DEF Held
  <2>1. /\ link = "frame" /\ link' = "ack" /\ host = "block" /\ pos' = pos
        /\ pos < Len(File)
    BY <1>4 DEF Handle, hostVars, SessionTypes
  <2> DEFINE d == BlockAt(pos)
  <2>2. d \in Seq(Byte) /\ Len(d) = End(pos) - pos /\ End(pos) \in Nat
    BY <1>0, <2>1, BlockFacts
  <2>3. BlockMore(d)
    <3>1. ~ NoFile.is_file_open
      BY DEF NoFile
    <3> QED BY <1>4, <2>1, <3>1
            DEF Handle, HandleHead, HandleBlock, BlockFail, BlockLast, Refuse,
                Fail, Finish
  <2>4. Received' = Received \o d /\ file_info.is_file_open
    BY <2>2, <2>3, MoreAccepts DEF FT!Accept, Received, BlockMore
  <2>5. Received \in Seq(Byte) /\ Len(Received) >= pos
    BY <2>1, <2>4, AcceptedIsReceived
  <2>6. Len(Received') = Len(Received) + Len(d)
    BY <2>2, <2>4, <2>5, ConcatProperties
  <2> QED BY <1>0, <2>1, <2>2, <2>4, <2>5, <2>6
<1> QED BY <1>1, <1>2, <1>3, <1>4 DEF SessionNext

(***************************************************************************)
(* Every byte acknowledged before the current block is on flash or in the  *)
(* write buffer while the transfer is open, whatever frames and responses  *)
(* are lost, whatever is sent twice and however the storage fails          *)
(* (codey_neurons_ftp_parse answers OK to no byte it has not kept).        *)
(***************************************************************************)
THEOREM SessionAckedBytesHeld == SessionSpec => []AckedBytesHeld
<1>1. SessionInit => HeldInv
  BY SessionStart DEF SessionInit, HeldInv, Held
<1>2. HeldInv /\ [SessionNext]_sessionVars => HeldInv'
  BY HeldStep, SessionFtpStep, SessionTypesStep DEF HeldInv
<1>3. ASSUME HeldInv PROVE AckedBytesHeld
  <2> SUFFICES ASSUME host = "block", file_info.is_file_open
               PROVE  Accepted >= pos
    BY DEF AckedBytesHeld
  <2>1. Accepted = Len(Received) /\ Len(Received) \in Nat
    BY <1>3, AcceptedIsReceived DEF HeldInv
  <2>2. pos \in Nat /\ pos < End(pos) /\ End(pos) \in Nat
    BY <1>3, BlockFacts DEF HeldInv, SessionTypes
  <2>3. Len(Received) >= IF link = "ack" THEN End(pos) ELSE pos
    BY <1>3 DEF HeldInv, Held
  <2> QED BY <2>1, <2>2, <2>3
<1> QED BY <1>1, <1>2, <1>3, PTL DEF SessionSpec
-----------------------------------------------------------------------------
(***************************************************************************)
(* From here on the storage works and no response is lost.  A flush of     *)
(* whole words leaves at most three bytes, so there is room for a block.   *)
(***************************************************************************)
LEMMA RoundingLeaves == \A n \in Nat : n - WholeWords(n) \in 0 .. 3
BY DEF WholeWords

LEMMA NoBlockFail ==
  ASSUME FtpInv, StorageFaults = FALSE, NEW d \in Seq(Byte), Len(d) <= BlockLen
  PROVE  ~ BlockFail(d)
<1> SUFFICES ASSUME BlockFail(d) PROVE FALSE
  OBVIOUS
<1> DEFINE b == file_info.flash_write_buf
<1>1. OpenFile(file_info, disk) /\ file_info \in FileInfo
  BY InvOpen DEF BlockFail, OpenFile
<1>2. PICK w \in MakeRoom(file_info, d) : w.ok => ~ Room(Written(file_info, w), d)
  BY DEF BlockFail
<1>3. w.wb \in 0 .. Len(b)
  BY <1>1, MakeRoomOutcome
<1>4. b \in Seq(Byte) /\ Len(b) \in Nat /\ Len(d) \in Nat
  BY <1>1 DEF FileInfo
<1>5. w.ok /\ w.wb = IF Room(file_info, d) THEN 0 ELSE WholeWords(Len(b))
  BY <1>2 DEF MakeRoom, Writes
<1>6. Len(Written(file_info, w).flash_write_buf) = Len(b) - w.wb
  BY <1>1, <1>3, <1>5, CompleteWrite
<1>7. Len(b) - w.wb + Len(d) <= BufSize
  <2>1. CASE Room(file_info, d)
    BY <1>4, <1>5, <2>1 DEF Room
  <2>2. CASE ~ Room(file_info, d)
    <3>1. Len(b) - w.wb \in 0 .. 3
      BY <1>4, <1>5, <2>2, RoundingLeaves
    <3> QED BY <1>4, <3>1, SessionAssumption, FtpAssumption
  <2> QED BY <2>1, <2>2
<1> QED BY <1>2, <1>5, <1>6, <1>7 DEF Room

LEMMA ScriptName == Script \in Names /\ Script # NoName /\ Script # READY
BY SessionAssumption, FtpAssumption

LEMMA HeadInStep ==
  ASSUME InStepInv, StorageFaults = FALSE, Handle, host = "head"
  PROVE  InStep' /\ Mailbox'
<1> USE DEF InStepInv
<1>1. HeadOk(Script, Len(File), calc_check_sum(File))
  BY DEF Handle, HandleHead, HandleBlock
<1>2. /\ file_info'.is_file_open /\ file_info'.file_name = Script
      /\ file_info'.file_size = Len(File)
      /\ file_info'.file_check_sum = calc_check_sum(File)
      /\ file_info'.flash_write_buf = <<>>
      /\ disk'[Script] = <<>> /\ rsp' = "OK" /\ rx_file_name' = READY
      /\ notified' = notified
  BY <1>1, ScriptName DEF HeadOk, NoFile, FtpInv, TypeOK
<1>3. Received' = <<>>
  BY <1>2, ConcatEmptySeq, EmptySeq DEF Received, Content
<1>4. SubSeq(File, 1, 0) = <<>>
  BY SubSeqEmpty
<1>5. host' = "head" /\ link' = "ack"
  BY DEF Handle, hostVars
<1>6. InStep'
  BY <1>2, <1>3, <1>4, <1>5 DEF InStep, Got
<1>7. notified # Script
  BY DEF Mailbox, Ended
<1> QED BY <1>2, <1>6, <1>7, ScriptName DEF Mailbox

LEMMA BlockInStep ==
  ASSUME InStepInv, StorageFaults = FALSE, Handle, host = "block", FtpInv'
  PROVE  InStep' /\ Mailbox'
<1> USE DEF InStepInv
<1> DEFINE d == BlockAt(pos)
<1>1. link = "frame" /\ link' = "ack" /\ host' = "block" /\ pos' = pos
  BY DEF Handle, hostVars
<1>2. pos \in Nat /\ pos < Len(File) /\ Len(File) \in Nat /\ BlockLen \in Nat
  BY SessionAssumption DEF SessionTypes
<1>3. Got(pos)
  BY <1>1 DEF InStep
<1>4. /\ d \in Seq(Byte) /\ Len(d) <= BlockLen
      /\ End(pos) = IF LastBlock THEN Len(File) ELSE pos + BlockLen
      /\ Received \o d = SubSeq(File, 1, End(pos))
      /\ End(pos) \in 0 .. Len(File)
  BY <1>2, <1>3, BlockFacts DEF Got, LastBlock
<1>5. Len(Received \o d) = End(pos)
  <2>1. File \in Seq(Byte)
    BY SessionAssumption
  <2> QED BY <1>4, <2>1, Split
<1>6. LastBlock' <=> LastBlock
  BY <1>1 DEF LastBlock
<1>7. ~ BlockFail(d) /\ file_info.is_file_open
  BY <1>3, <1>4, NoBlockFail DEF Got
<1>8. CASE BlockMore(d)
  <2>1. FT!Accept(d)
    BY <1>4, <1>8, MoreAccepts
  <2>2. /\ Received' = Received \o d
        /\ Len(Received \o d) # file_info.file_size
        /\ file_info'.file_name = file_info.file_name
        /\ file_info'.file_size = file_info.file_size
        /\ file_info'.file_check_sum = file_info.file_check_sum
        /\ rsp' = "OK"
    BY <2>1 DEF FT!Accept, Received
  <2>3. ~ LastBlock
    BY <1>3, <1>4, <1>5, <2>2 DEF Got
  <2>4. file_info'.is_file_open
    BY <1>3, <2>2, ScriptName DEF FtpInv, BufferBounded, NoFile, Got
  <2>5. Got(pos + BlockLen)'
    BY <1>1, <1>3, <1>4, <2>2, <2>3, <2>4 DEF Got
  <2>6. InStep'
    BY <1>1, <1>6, <2>2, <2>3, <2>5 DEF InStep
  <2>7. rx_file_name' = rx_file_name /\ notified' = notified
    BY <1>8 DEF BlockMore
  <2> QED BY <1>1, <2>6, <2>7 DEF Mailbox, Ended
<1>9. CASE BlockLast(d)
  <2>1. FT!Complete(d)
    BY <1>4, <1>9, LastCompletes
  <2>2. /\ Len(Received \o d) = file_info.file_size
        /\ disk' = [disk EXCEPT ![file_info.file_name] = Received \o d]
        /\ calc_check_sum(Received \o d) = file_info.file_check_sum => rsp' = "OK"
    BY <2>1 DEF FT!Complete, Received
  <2>3. End(pos) = Len(File)
    BY <1>3, <1>5, <2>2 DEF Got
  <2>4. LastBlock
    BY <1>2, <1>4, <2>3 DEF LastBlock
  <2>5. Received \o d = File
    BY <1>4, <2>3, SessionAssumption, SubSeqFull
  <2>6. disk'[Script] = File /\ rsp' = "OK"
    BY <1>3, <2>2, <2>5, ScriptName DEF Got, FtpInv, TypeOK
  <2>7. Ended'
    BY <1>1, <1>6, <2>4, <2>6 DEF Ended
  <2>8. InStep'
    BY <1>1, <1>6, <2>4, <2>6, <2>7 DEF InStep
  <2> QED BY <2>7, <2>8 DEF Mailbox
<1> QED BY <1>7, <1>8, <1>9 DEF Handle, HandleHead, HandleBlock

LEMMA InStepStep ==
  ASSUME InStepInv, MaxLostAcks = 0, StorageFaults = FALSE,
         [SessionNext]_sessionVars, FtpInv'
  PROVE  InStep' /\ Mailbox'
<1> USE DEF InStepInv
<1>1. /\ Len(File) \in Nat \ {0} /\ BlockLen \in Nat /\ pos \in Nat
  BY SessionAssumption, EmptySeq DEF SessionTypes
<1>2. CASE Handle
  BY <1>2, HeadInStep, BlockInStep DEF Handle, HandleHead, HandleBlock
<1>3. CASE RecvAck
  <2>1. /\ link = "ack" /\ host \in {"head", "block"} /\ rsp = "OK"
        /\ file_info' = file_info /\ disk' = disk
        /\ rx_file_name' = rx_file_name /\ notified' = notified
    BY <1>3 DEF RecvAck, vars, SessionTypes, InStep
  <2>2. \A k : Got(k)' <=> Got(k)
    BY <2>1, SameDevice
  <2>3. CASE host = "head"
    <3>1. host' = "block" /\ pos' = 0 /\ link' = "frame"
      BY <1>1, <1>3, <2>1, <2>3 DEF RecvAck
    <3>2. Got(0)'
      BY <2>1, <2>2, <2>3 DEF InStep
    <3> QED BY <2>1, <2>3, <3>1, <3>2 DEF InStep, Mailbox, Ended, Got
  <2>4. CASE host = "block" /\ LastBlock
    <3>1. host' = "done"
      BY <1>1, <1>3, <2>1, <2>4 DEF RecvAck, LastBlock
    <3>2. Ended'
      BY <2>1, <2>4, <3>1 DEF InStep, Ended
    <3> QED BY <3>1, <3>2 DEF InStep, Mailbox
  <2>5. CASE host = "block" /\ ~ LastBlock
    <3>1. host' = "block" /\ pos' = pos + BlockLen /\ link' = "frame"
      BY <1>1, <1>3, <2>1, <2>5 DEF RecvAck, LastBlock
    <3>2. Got(pos + BlockLen)
      BY <2>1, <2>5 DEF InStep
    <3>3. Got(pos)'
      BY <2>1, <3>1, <3>2, SameDevice DEF Got
    <3> QED BY <2>1, <2>5, <3>1, <3>3 DEF InStep, Mailbox, Ended
  <2> QED BY <2>1, <2>3, <2>4, <2>5
<1>4. CASE SendHead \/ Retransmit \/ LoseFrame
  <2>1. /\ file_info' = file_info /\ disk' = disk /\ pos' = pos
        /\ rx_file_name' = rx_file_name /\ notified' = notified
        /\ link # "ack" /\ link' # "ack" /\ host' # "done"
        /\ host' = "block" => host = "block"
        /\ host # "done"
    BY <1>4 DEF SendHead, Retransmit, LoseFrame, vars, hostVars, SessionTypes
  <2>2. Received' = Received
    BY <2>1, SameDevice
  <2> QED BY <2>1, <2>2 DEF InStep, Mailbox, Ended, Got
<1>5. CASE LoseAck
  BY <1>5 DEF LoseAck, SessionTypes
<1>6. CASE ReadMailbox
  <2>1. /\ file_info' = file_info /\ disk' = disk /\ rsp' = rsp
        /\ host' = host /\ pos' = pos /\ link' = link
        /\ rx_file_name' = rx_file_name /\ notified' \in {NoName, rx_file_name}
    BY <1>6 DEF ReadMailbox, GetRecvFileName, hostVars, linkVars
  <2>2. Received' = Received
    BY <2>1, SameDevice
  <2> QED BY <2>1, <2>2, ScriptName DEF InStep, Mailbox, Ended, Got, LastBlock
<1>7. CASE UNCHANGED sessionVars
  <2>1. /\ file_info' = file_info /\ disk' = disk /\ rsp' = rsp
        /\ host' = host /\ pos' = pos /\ link' = link
        /\ rx_file_name' = rx_file_name /\ notified' = notified
    BY <1>7 DEF sessionVars, vars, hostVars, linkVars
  <2>2. Received' = Received
    BY <2>1, SameDevice
  <2> QED BY <2>1, <2>2 DEF InStep, Mailbox, Ended, Got, LastBlock
<1> QED BY <1>2, <1>3, <1>4, <1>5, <1>6, <1>7 DEF SessionNext

LEMMA InStepStart == SessionInit => InStepInv
<1> SUFFICES ASSUME SessionInit PROVE InStepInv
  OBVIOUS
<1>1. host = "start" /\ rx_file_name = NoName /\ notified = NoName
  BY DEF SessionInit, Init
<1> QED BY <1>1, SessionStart, ScriptName DEF InStepInv, InStep, Mailbox

LEMMA InStepNext ==
  ASSUME MaxLostAcks = 0, StorageFaults = FALSE
  PROVE  InStepInv /\ [SessionNext]_sessionVars => InStepInv'
BY InStepStep, SessionFtpStep, SessionTypesStep DEF InStepInv

(***************************************************************************)
(* A host whose frames were all answered OK finds its file on flash, byte  *)
(* for byte, for every file, block length and buffer size and however many *)
(* frames are lost and sent again: as long as no response is lost and the  *)
(* storage works.  The run session_ack shows that the first condition is   *)
(* needed.                                                                 *)
(***************************************************************************)
THEOREM SessionSuccessMeansStored ==
  ASSUME MaxLostAcks = 0, StorageFaults = FALSE
  PROVE  SessionSpec => []SuccessMeansStored
<1>1. InStepInv => SuccessMeansStored
  BY DEF InStepInv, InStep, Ended, SuccessMeansStored
<1> QED BY <1>1, InStepStart, InStepNext, PTL DEF SessionSpec

(***************************************************************************)
(* Under the same conditions codey_neurons_get_recv_file_name returns the  *)
(* script's name only when the whole file is on flash: the script that is  *)
(* restarted is the one that was sent.                                     *)
(***************************************************************************)
THEOREM SessionNotifiedMeansStored ==
  ASSUME MaxLostAcks = 0, StorageFaults = FALSE
  PROVE  SessionSpec => []NotifiedMeansStored
<1>1. InStepInv => NotifiedMeansStored
  BY DEF InStepInv, Mailbox, Ended, NotifiedMeansStored
<1> QED BY <1>1, InStepStart, InStepNext, PTL DEF SessionSpec
=============================================================================
