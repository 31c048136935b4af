----------------------------- MODULE NeuronsFtp -----------------------------
(***************************************************************************)
(* The file transfer service of the neurons protocol,                      *)
(* hardware/neurons/codey_neurons_ftp.c: a header command opens a file, a  *)
(* block command appends to it through a write buffer, and the name of a   *)
(* file that was received is left in a one-place mailbox for the           *)
(* communication task.                                                     *)
(*                                                                         *)
(* Every command is handled by the communication task from its first       *)
(* instruction to its last, so one command is one step.  The FAT file      *)
(* system, the heap and the fatfs semaphore are external: a write may stop *)
(* short, an allocation may fail, the semaphore may not be had in 1000 ms. *)
(***************************************************************************)
EXTENDS CheckSum

CONSTANTS Names,         \* full file names a host may send
          LongNames,     \* those of 63 characters or more
          NoName,        \* the empty string
          Sizes,         \* file sizes a header may announce
          Sums,          \* check sums a header may announce
          Blocks,        \* payloads of a block command
          BufSize,       \* FLASH_FILE_WRITE_BUFFER: 4096 in the code
          MaxBytes,      \* bound: bytes accepted in one transfer
          StorageFaults  \* may flash, heap and semaphore fail?

ASSUME FtpAssumption ==
  /\ NoName \notin Names
  /\ LongNames \subseteq Names
  /\ Sizes \subseteq Nat
  /\ Sums \subseteq Word
  /\ Blocks \subseteq Seq(Byte)
  /\ BufSize \in Nat \ {0}
  /\ MaxBytes \in Nat
  /\ StorageFaults \in BOOLEAN

VARIABLES file_info,         \* the static record of codey_neurons_ftp_parse
          disk,              \* the files of the flash file system
          rx_file_name,      \* s_rx_file_name: the mailbox
          get_rx_file_name,  \* s_get_rx_file_name: the mailbox was read
          rsp,               \* status code of the last response
          notified           \* what codey_neurons_get_recv_file_name returned

vars == <<file_info, disk, rx_file_name, get_rx_file_name, rsp, notified>>

READY == "NEU_FTY_READY"

(***************************************************************************)
(* init_file_head_info: memset of the record.                              *)
(***************************************************************************)
NoFile == [is_file_open |-> FALSE, file_name |-> NoName, file_size |-> 0,
           file_check_sum |-> ZeroWord, file_calc_check_sum |-> ZeroWord,
           flash_write_buf |-> <<>>, file_write_idx |-> 0]

Init == /\ file_info = NoFile
        /\ disk = [n \in Names |-> <<>>]
        /\ rx_file_name = NoName
        /\ get_rx_file_name = FALSE
        /\ rsp = "none"
        /\ notified = NoName
-----------------------------------------------------------------------------
(***************************************************************************)
(* f_lseek to idx and f_write of the bytes s.                              *)
(***************************************************************************)
WriteAt(content, idx, s) ==
  SubSeq(content, 1, idx) \o s
    \o SubSeq(content, idx + Len(s) + 1, Len(content))

(***************************************************************************)
(* The outcomes of write_buffer_to_flash asked for total bytes: all are    *)
(* written; or the semaphore was not had, or f_write wrote nothing three   *)
(* times, and only wb of them were.                                        *)
(***************************************************************************)
Writes(total) ==
  [ok : {TRUE}, wb : {total}]
    \cup (IF StorageFaults THEN [ok : {FALSE}, wb : {0} \cup 0..(total - 1)]
                           ELSE {})

\* Mutants of Written: the write position is not advanced; the bytes that
\* were not written are not moved to the start of the buffer.
WrittenIdxKept(fi, w) ==
  IF w.ok
  THEN [fi EXCEPT !.flash_write_buf = SubSeq(@, w.wb + 1, Len(@)),
                  !.file_calc_check_sum =
                     Xor(@, calc_check_sum(SubSeq(fi.flash_write_buf, 1, w.wb)))]
  ELSE fi

WrittenNotMoved(fi, w) ==
  IF w.ok
  THEN [fi EXCEPT !.file_write_idx = @ + w.wb,
                  !.flash_write_buf = SubSeq(@, 1, Len(@) - w.wb),
                  !.file_calc_check_sum =
                     Xor(@, calc_check_sum(SubSeq(fi.flash_write_buf, 1, w.wb)))]
  ELSE [fi EXCEPT !.file_write_idx = @ + w.wb]

(***************************************************************************)
(* The record and the disk after such an outcome.  Only a complete write   *)
(* updates the check sum and moves the rest of the buffer to its start.    *)
(***************************************************************************)
Written(fi, w) ==
  LET done == SubSeq(fi.flash_write_buf, 1, w.wb)
      rest == SubSeq(fi.flash_write_buf, w.wb + 1, Len(fi.flash_write_buf))
      at   == fi.file_write_idx + w.wb
  IN IF w.ok
     THEN [fi EXCEPT !.file_write_idx = at,
                     !.flash_write_buf = rest,
                     !.file_calc_check_sum = Xor(@, calc_check_sum(done))]
     ELSE [fi EXCEPT !.file_write_idx = at]

DiskWritten(dk, fi, w) ==
  [dk EXCEPT ![fi.file_name] =
     WriteAt(@, fi.file_write_idx, SubSeq(fi.flash_write_buf, 1, w.wb))]

\* Mutant of WholeWords: no rounding.
WholeBuffer(n) == n

(***************************************************************************)
(* The flush that makes room for a block is rounded down to whole words.   *)
(***************************************************************************)
WholeWords(n) == n - (n % 4)

\* Mutant of Room: only the room for one more byte is tested.
RoomForOne(fi, d) == Len(fi.flash_write_buf) < BufSize

Room(fi, d) == Len(fi.flash_write_buf) + Len(d) <= BufSize

\* Mutant of Buffered: the block is copied to the start of the buffer.
BufferedAtStart(fi, d) == [fi EXCEPT !.flash_write_buf = d]

Buffered(fi, d) == [fi EXCEPT !.flash_write_buf = @ \o d]

\* Mutant of AtEof: the bytes in the buffer are not counted.
AtEofOnFlash(fi) == fi.file_write_idx = fi.file_size

AtEof(fi) == fi.file_write_idx + Len(fi.flash_write_buf) = fi.file_size

\* Mutant of LastStatus: a status code that the end of the parser does not
\* know as an error.
LastStatusSumErr(fi, ok, done) ==
  IF ~ ok \/ done.file_calc_check_sum = fi.file_check_sum
  THEN "OK" ELSE "FILE_CHECKSUM_ERR"

(***************************************************************************)
(* The status code of the block that completes the file: fi is the record  *)
(* before the last write, done the record after it.                        *)
(***************************************************************************)
LastStatus(fi, ok, done) ==
  IF \/ fi.flash_write_buf = <<>>
     \/ ~ ok
     \/ done.file_calc_check_sum = fi.file_check_sum
  THEN "OK" ELSE "ERR"

(***************************************************************************)
(* codey_neurons_record_recv_file_name: a name that does not fit in the    *)
(* mailbox is recorded as the empty string.                                *)
(***************************************************************************)
RecordName(n) == rx_file_name' = IF n \in LongNames THEN NoName ELSE n

(***************************************************************************)
(* The end of codey_neurons_ftp_parse when ret is CODEY_STATUS_ERR: the    *)
(* file is closed, the record is cleared, and the mailbox may be read      *)
(* again, whatever it holds.                                               *)
(***************************************************************************)
Fail == /\ file_info' = NoFile
        /\ get_rx_file_name' = FALSE
        /\ rsp' = "ERR"
        /\ UNCHANGED <<rx_file_name, notified>>

\* Mutant of Finish: the mailbox is filled but not marked unread.
FinishUnready(n, ret) == /\ RecordName(n)
                         /\ file_info' = NoFile
                         /\ rsp' = ret
                         /\ UNCHANGED <<get_rx_file_name, notified>>

(***************************************************************************)
(* The same when file_finish is set.                                       *)
(***************************************************************************)
Finish(n, ret) == /\ RecordName(n)
                  /\ file_info' = NoFile
                  /\ get_rx_file_name' = FALSE
                  /\ rsp' = ret
                  /\ UNCHANGED notified
-----------------------------------------------------------------------------
\* Mutant of HeadOk: the file's own name is posted instead of READY.
HeadOkPostsName(n, size, sum) ==
  /\ file_info' = [NoFile EXCEPT !.is_file_open = TRUE, !.file_name = n,
                                 !.file_size = size, !.file_check_sum = sum]
  /\ disk' = [disk EXCEPT ![n] = <<>>]
  /\ RecordName(n)
  /\ get_rx_file_name' = FALSE
  /\ rsp' = "OK"
  /\ UNCHANGED notified

(***************************************************************************)
(* CMD_ID_HEAD.  The old record is freed, the header is read, the buffer   *)
(* is allocated, the file is created, and READY is posted.                 *)
(***************************************************************************)
HeadOk(n, size, sum) ==
  /\ file_info' = [NoFile EXCEPT !.is_file_open = TRUE, !.file_name = n,
                                 !.file_size = size, !.file_check_sum = sum]
  /\ disk' = [disk EXCEPT ![n] = <<>>]
  /\ rx_file_name' = READY
  /\ get_rx_file_name' = FALSE
  /\ rsp' = "OK"
  /\ UNCHANGED notified

(***************************************************************************)
(* The header is shorter than ten bytes, or malloc, the semaphore, f_chdir *)
(* or f_open failed.                                                       *)
(***************************************************************************)
HeadFail == Fail /\ UNCHANGED disk

(***************************************************************************)
(* CMD_ID_BLOCK with no file open or with less than four bytes; CMD_ID_DEL,*)
(* CMD_ID_STATUS and every unknown command.                                *)
(***************************************************************************)
Refuse == Fail /\ UNCHANGED disk

\* Mutant of MakeRoom: every block flushes the buffer first.
FlushAlways(fi, d) == Writes(WholeWords(Len(fi.flash_write_buf)))

(***************************************************************************)
(* CMD_ID_BLOCK first makes room: the buffer is flushed when the block     *)
(* does not fit behind what it holds.  The four bytes of the block's       *)
(* offset are skipped.                                                     *)
(***************************************************************************)
MakeRoom(fi, d) ==
  IF Room(fi, d) THEN [ok : {TRUE}, wb : {0}]
                 ELSE Writes(WholeWords(Len(fi.flash_write_buf)))

(***************************************************************************)
(* The block is buffered and the file is not complete.                     *)
(***************************************************************************)
BlockMore(d) ==
  /\ file_info.is_file_open
  /\ \E w \in MakeRoom(file_info, d) :
       LET fi == Written(file_info, w)
       IN /\ w.ok
          /\ Room(fi, d)
          /\ ~ AtEof(Buffered(fi, d))
          /\ file_info' = Buffered(fi, d)
          /\ disk' = DiskWritten(disk, file_info, w)
  /\ rsp' = "OK"
  /\ UNCHANGED <<rx_file_name, get_rx_file_name, notified>>

(***************************************************************************)
(* The flush failed, or the block is larger than the buffer.               *)
(***************************************************************************)
BlockFail(d) ==
  /\ file_info.is_file_open
  /\ \E w \in MakeRoom(file_info, d) :
       /\ w.ok => ~ Room(Written(file_info, w), d)
       /\ disk' = DiskWritten(disk, file_info, w)
  /\ Fail

(***************************************************************************)
(* The block completes the file: what the buffer holds is written, if it   *)
(* holds anything, and the check sum is compared if that succeeded.  When  *)
(* it did not, ret is still the CODEY_STATUS_OK of the buffering.          *)
(***************************************************************************)
BlockLast(d) ==
  /\ file_info.is_file_open
  /\ \E w \in MakeRoom(file_info, d) :
       LET fi == Buffered(Written(file_info, w), d)
       IN /\ w.ok
          /\ Room(Written(file_info, w), d)
          /\ AtEof(fi)
          /\ \E v \in IF fi.flash_write_buf = <<>>
                      THEN [ok : {TRUE}, wb : {0}]
                      ELSE Writes(Len(fi.flash_write_buf)) :
               /\ disk' = DiskWritten(DiskWritten(disk, file_info, w), fi, v)
               /\ Finish(fi.file_name,
                         LastStatus(fi, v.ok, Written(fi, v)))

(***************************************************************************)
(* codey_neurons_get_recv_file_name, called by the communication task      *)
(* after each round over its channels.                                     *)
(***************************************************************************)
GetRecvFileName ==
  /\ notified' = IF get_rx_file_name THEN NoName ELSE rx_file_name
  /\ get_rx_file_name' = TRUE
  /\ UNCHANGED <<file_info, disk, rx_file_name, rsp>>

(***************************************************************************)
(* The power is switched off and on.  The directory entry of a file that   *)
(* was not closed still has the size it was created with, and the static   *)
(* data of the module start from zero.                                     *)
(***************************************************************************)
PowerCycle ==
  /\ disk' = IF file_info.is_file_open
             THEN [disk EXCEPT ![file_info.file_name] = <<>>] ELSE disk
  /\ file_info' = NoFile
  /\ rx_file_name' = NoName
  /\ get_rx_file_name' = FALSE
  /\ rsp' = "none"
  /\ notified' = NoName

Accepted == file_info.file_write_idx + Len(file_info.flash_write_buf)

Next ==
  \/ \E n \in Names, size \in Sizes, sum \in Sums : HeadOk(n, size, sum)
  \/ HeadFail
  \/ Refuse
  \/ \E d \in Blocks : /\ Accepted + Len(d) <= MaxBytes
                       /\ BlockMore(d) \/ BlockFail(d) \/ BlockLast(d)
  \/ GetRecvFileName
  \/ PowerCycle

Spec == Init /\ [][Next]_vars
-----------------------------------------------------------------------------
FileInfo == [is_file_open : BOOLEAN, file_name : Names \cup {NoName},
             file_size : Nat, file_check_sum : Word,
             file_calc_check_sum : Word, flash_write_buf : Seq(Byte),
             file_write_idx : Nat]

(***************************************************************************)
(* Type invariant of the file transfer's static data and of the disk.      *)
(***************************************************************************)
TypeOK == /\ file_info \in FileInfo
          /\ disk \in [Names -> Seq(Byte)]
          /\ rx_file_name \in Names \cup {NoName, READY}
          /\ get_rx_file_name \in BOOLEAN
          /\ rsp \in {"none", "OK", "ERR"}
          /\ notified \in Names \cup {NoName, READY}

Content == disk[file_info.file_name]

(***************************************************************************)
(* While a file is open, file_write_idx is the length of the file on       *)
(* flash: every f_lseek of write_buffer_to_flash is to the end of the      *)
(* file, so no write overwrites a byte or leaves a hole.                   *)
(***************************************************************************)
WriteIndexAtEnd ==
  file_info.is_file_open => file_info.file_write_idx = Len(Content)

(***************************************************************************)
(* While a file is open, file_calc_check_sum, which write_buffer_to_flash  *)
(* accumulates flush by flush, is the check sum of the whole file on       *)
(* flash.  That needs every flush but the last to be of whole words.       *)
(***************************************************************************)
RunningCheckSum ==
  file_info.is_file_open =>
    /\ file_info.file_calc_check_sum = calc_check_sum(Content)
    /\ file_info.file_write_idx % 4 = 0

(***************************************************************************)
(* The write buffer never holds more than FLASH_FILE_WRITE_BUFFER bytes,   *)
(* whatever the block sizes, and a closed record holds nothing.            *)
(***************************************************************************)
BufferBounded ==
  /\ Len(file_info.flash_write_buf) <= BufSize
  /\ ~ file_info.is_file_open => file_info = NoFile
  /\ file_info.is_file_open => file_info.file_name \in Names

(***************************************************************************)
(* The buffer of an open file is empty only before the first byte arrived: *)
(* a flush always leaves the block it made room for.  So a complete file   *)
(* whose buffer is empty, which is not compared with its check sum, is an  *)
(* empty file.                                                             *)
(***************************************************************************)
EmptyBufferEmptyFile ==
  file_info.is_file_open /\ file_info.flash_write_buf = <<>> =>
    file_info.file_write_idx = 0

(***************************************************************************)
(* The invariants together: the inductive invariant of NeuronsFtpProofs.   *)
(***************************************************************************)
FtpInv == /\ TypeOK /\ WriteIndexAtEnd /\ RunningCheckSum /\ BufferBounded
          /\ EmptyBufferEmptyFile

(***************************************************************************)
(* The service without its buffer: the bytes received are those on flash   *)
(* followed by those in the buffer.                                        *)
(***************************************************************************)
FT == INSTANCE FileTransfer WITH
        active   <- file_info.file_name,
        received <- IF file_info.is_file_open
                    THEN Content \o file_info.flash_write_buf ELSE <<>>,
        head     <- [size |-> file_info.file_size,
                     sum |-> file_info.file_check_sum],
        stored   <- disk,
        status   <- rsp

(***************************************************************************)
(* codey_neurons_ftp_parse with its write buffer, partial flushes, running *)
(* check sum and error paths implements the abstract transfer: accepted    *)
(* bytes reach the flash in order, none twice and none missing, no other   *)
(* file changes, and the last status code tells the comparison's result.   *)
(***************************************************************************)
ImplementsFileTransfer == FT!Spec
=============================================================================
