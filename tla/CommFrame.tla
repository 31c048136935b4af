------------------------------ MODULE CommFrame ------------------------------
(***************************************************************************)
(* The two byte parsers every communication channel runs, one after the    *)
(* other, on each byte received: the F3 parser (codey_comm_protocol.c),    *)
(* which hands whole frames to the protocol handlers, and the FF 55 parser *)
(* (codey_ff_55_comm_protocol.c), which answers two read commands.  The    *)
(* host builds its F3 frames by the rule of codey_comm_build_frame; the    *)
(* line between them alters, loses and inserts bytes.                      *)
(*                                                                         *)
(* A byte has the values 0 .. Radix - 1 (the code: Radix = 256).  The data *)
(* of a frame being received are the bytes below recv_len, which is their  *)
(* length: what an earlier frame left above is never read.  Of the         *)
(* FF 55 parser the state, the index and the mode are kept.  Its length is *)
(* stored and never read, the command is compared when it comes, and       *)
(* S_FW_DATA and S_FW_END are states it never enters, exp_len being 0 in   *)
(* every entry of its table.  Its answers are built in memory from malloc, *)
(* which is taken to succeed, and are shorter than FW_MAX_DATA_LEN.        *)
(***************************************************************************)
EXTENDS Integers, Sequences

CONSTANTS Radix, FRAME_HEADER, FRAME_END, FRAME_DATA_MAX_LEN,
          PROTOCOL_NUM,     \* the number of entries of s_protocol_tab
          FW_FRAME_HEADER_1, FW_FRAME_HEADER_2,
          FwTable,          \* the <<mode, cmd>> pairs of s_fw_cmd_tab with a cmd_exe
          ChannelPairs,     \* those that are run by codey_fw_read_commu_chn
          COMM_CHN_NUM,     \* the number of channels
          Contents,         \* what the host sends in a frame: id and data
          Requests,         \* the FF 55 requests the host sends
          MaxFrames, MaxErrs    \* bounds: messages sent, faults of the line

Byte == 0 .. Radix - 1

ASSUME ByteAssumption == Radix \in Nat \ {0} /\ {FRAME_HEADER, FRAME_END} \subseteq Byte

ASSUME TableAssumption == PROTOCOL_NUM \in Nat /\ FRAME_DATA_MAX_LEN \in Nat \ {0}

\* A length takes two bytes.
ASSUME ContentsAssumption == 
  /\ Contents \subseteq Seq(Byte)
  /\ \A c \in Contents : Len(c) \in 1 .. Radix * Radix - 1

ASSUME RequestsAssumption ==
  /\ FW_FRAME_HEADER_1 \in Byte /\ FW_FRAME_HEADER_2 \in Byte \ {FW_FRAME_HEADER_1}
  /\ Requests \subseteq Seq(Byte)
  /\ \A r \in Requests : Len(r) = 6 /\ r[1] = FW_FRAME_HEADER_1 /\ r[2] = FW_FRAME_HEADER_2

ASSUME ChannelAssumption == ChannelPairs \subseteq FwTable /\ COMM_CHN_NUM \in Nat

ASSUME BoundsAssumption == MaxFrames \in Nat /\ MaxErrs \in Nat

VARIABLES
  fsm,      \* the channel's entry of s_fsm_tab
  fw,       \* the channel's entry of s_fw_fsm_tab: state, index and mode
  answered, \* the last byte made the FF 55 parser answer
  fault,    \* an index left its array: nothing is said of what follows
  got,      \* the contents handed to handlers
  kind,     \* what the host is sending: nothing, a frame, a request
  content,  \* the id and the data of the frame, or the request
  pos,      \* how many of its bytes have been sent
  sum,      \* the sum of the bytes of content sent (codey_calc_add_check_sum)
  sent,     \* the contents of the unharmed frames that have a handler
  hit,      \* how many bytes of the current frame were altered
  clean,    \* the faults of the line have been of the kind the protocol survives
  insync,   \* the FF 55 parser awaited a header when the request began
  msgs, errs    \* messages begun, faults of the line

hostVars == <<kind, content, pos, sum, sent, hit, insync, msgs>>
vars == <<fsm, fw, answered, fault, got, hostVars, clean, errs>>

AddWide(a, b) == a + b    \* mutant: the sums are kept in a wider type

\* The sum of two bytes in an uint8_t.
Add(a, b) == IF a + b < Radix THEN a + b ELSE a + b - Radix

------------------------------------------------------------------------------
\* codey_comm_protocol_pump_char, one operator for each case of its switch

Fsm == [s : {"S_HEAD", "S_HEAD_CHECK", "S_LEN1", "S_LEN2", "S_DATA", "S_CHECK", "S_END"},
        recv_head_check : Byte, calc_head_check : Byte, check : Byte,
        len : 0 .. Radix * Radix - 1, data : Seq(Byte)]

\* mutant: recv_len is not reset for a new frame
HeadStepKeepsLen(f, c) ==
  IF c = FRAME_HEADER
    THEN [s |-> "S_HEAD_CHECK", recv_head_check |-> 0, calc_head_check |-> FRAME_HEADER,
          check |-> 0, len |-> 0, data |-> f.data]
    ELSE f

HeadStep(f, c) ==
  IF c = FRAME_HEADER
    THEN [s |-> "S_HEAD_CHECK", recv_head_check |-> 0, calc_head_check |-> FRAME_HEADER,
          check |-> 0, len |-> 0, data |-> << >>]
    ELSE f

HeadCheckStep(f, c) == [f EXCEPT !.recv_head_check = c, !.s = "S_LEN1"]

Len1Step(f, c) ==
  [f EXCEPT !.calc_head_check = Add(f.calc_head_check, c), !.len = c, !.s = "S_LEN2"]

Len2Step(f, c) ==
  [f EXCEPT !.calc_head_check = Add(f.calc_head_check, c),
            !.len = f.len + c * Radix,
            !.s = IF f.recv_head_check = Add(f.calc_head_check, c) THEN "S_DATA" ELSE "S_HEAD"]

DataStep(f, c) ==
  [f EXCEPT !.check = Add(f.check, c), !.data = Append(f.data, c),
            !.s = IF Len(f.data) + 1 = f.len THEN "S_CHECK" ELSE "S_DATA"]

CheckStepAny(f, c) == [f EXCEPT !.s = "S_END"]    \* mutant: the check sum is not compared

CheckStep(f, c) == [f EXCEPT !.s = IF f.check = c THEN "S_END" ELSE "S_HEAD"]

EndStep(f, c) == [f EXCEPT !.s = "S_HEAD"]

FsmStep(f, c) ==
  CASE f.s = "S_HEAD" -> HeadStep(f, c)
    [] f.s = "S_HEAD_CHECK" -> HeadCheckStep(f, c)
    [] f.s = "S_LEN1" -> Len1Step(f, c)
    [] f.s = "S_LEN2" -> Len2Step(f, c)
    [] f.s = "S_DATA" -> DataStep(f, c)
    [] f.s = "S_CHECK" -> CheckStep(f, c)
    [] f.s = "S_END" -> EndStep(f, c)

\* The index of s_fsm_tab[].data, and of s_protocol_tab, is not compared with
\* the size of the array it is used on.
OverrunsData(f) == f.s = "S_DATA" /\ Len(f.data) = FRAME_DATA_MAX_LEN

Delivers(f, c) == f.s = "S_END" /\ c = FRAME_END

OverrunsTable(f, c) == Delivers(f, c) /\ f.data[1] = PROTOCOL_NUM

\* codey_get_protocol_by_id returns a handler: entry 0 is NULL.
HasHandler(id) == id \in 1 .. PROTOCOL_NUM - 1

------------------------------------------------------------------------------
\* codey_ff_55_protocol_pump_char

\* The index and the mode are written before they are read again.
FwIdle == [s |-> "S_FW_HEAD_1", index |-> 0, mode |-> 0]

Fw == [s : {"S_FW_HEAD_1", "S_FW_HEAD_2", "S_FW_LEN", "S_FW_INDEX", "S_FW_MODE", "S_FW_CMD"},
       index : Byte, mode : Byte]

\* mutant: a byte that is not the second header starts the parser anew
FwHead2StepResets(f, c) ==
  IF c = FW_FRAME_HEADER_2 THEN [f EXCEPT !.s = "S_FW_LEN"] ELSE [f EXCEPT !.s = "S_FW_HEAD_1"]

FwHead2Step(f, c) == IF c = FW_FRAME_HEADER_2 THEN [f EXCEPT !.s = "S_FW_LEN"] ELSE f

FwStep(f, c) ==
  CASE f.s = "S_FW_HEAD_1" ->
         IF c = FW_FRAME_HEADER_1 THEN [f EXCEPT !.s = "S_FW_HEAD_2"] ELSE f
    [] f.s = "S_FW_HEAD_2" -> FwHead2Step(f, c)
    [] f.s = "S_FW_LEN" -> [f EXCEPT !.s = "S_FW_INDEX"]
    [] f.s = "S_FW_INDEX" -> [f EXCEPT !.index = c, !.s = "S_FW_MODE"]
    [] f.s = "S_FW_MODE" -> [f EXCEPT !.mode = c, !.s = "S_FW_CMD"]
    [] f.s = "S_FW_CMD" -> FwIdle

\* cmd_exe leaves an output_len: the version is always told, the name of the
\* channel only to a request whose index is below COMM_CHN_NUM.
FwAnswers(f, c) ==
  /\ f.s = "S_FW_CMD"
  /\ <<f.mode, c>> \in FwTable
  /\ <<f.mode, c>> \in ChannelPairs => f.index < COMM_CHN_NUM

------------------------------------------------------------------------------
\* One byte goes through the F3 parser and then, unless that has produced an
\* answer, through the FF 55 parser.  A handler may answer or not.
Pump(c) ==
  /\ fsm' = FsmStep(fsm, c)
  /\ fault' = IF OverrunsData(fsm) THEN "data"
              ELSE IF OverrunsTable(fsm, c) THEN "table" ELSE "none"
  /\ LET handled == Delivers(fsm, c) /\ HasHandler(fsm.data[1])
     IN /\ got' = IF handled THEN Append(got, fsm.data) ELSE got
        /\ \/ /\ fw' = FwStep(fw, c)
              /\ answered' = FwAnswers(fw, c)
           \/ /\ handled
              /\ UNCHANGED fw
              /\ answered' = FALSE

------------------------------------------------------------------------------
\* The host and the line

\* codey_comm_build_frame: byte k (from 0) of the frame that carries content
LenLow == Len(content) % Radix

LenHigh == Len(content) \div Radix

FrameLen == Len(content) + 6

FrameByte ==
  CASE pos = 0 -> FRAME_HEADER
    [] pos = 1 -> Add(Add(FRAME_HEADER, LenLow), LenHigh)
    [] pos = 2 -> LenLow
    [] pos = 3 -> LenHigh
    [] pos \in 4 .. Len(content) + 3 -> content[pos - 3]
    [] pos = Len(content) + 4 -> sum
    [] pos = Len(content) + 5 -> FRAME_END

Init ==
  /\ fsm = [s |-> "S_HEAD", recv_head_check |-> 0, calc_head_check |-> 0,
            check |-> 0, len |-> 0, data |-> << >>]
  /\ fw = FwIdle
  /\ answered = FALSE /\ fault = "none" /\ got = << >>
  /\ kind = "none" /\ content = << >> /\ pos = 0 /\ sum = 0
  /\ sent = << >> /\ hit = 0 /\ clean = TRUE /\ insync = FALSE
  /\ msgs = 0 /\ errs = 0

\* The host begins a frame.  A content that does not fit the buffer, or that
\* names the protocol just after the last one, is one the device cannot take.
BeginFrame ==
  /\ kind = "none" /\ fault = "none" /\ msgs < MaxFrames
  /\ \E c \in Contents :
       /\ content' = c
       /\ clean' = (clean /\ Len(c) <= FRAME_DATA_MAX_LEN /\ c[1] # PROTOCOL_NUM)
  /\ kind' = "frame" /\ pos' = 0 /\ sum' = 0 /\ hit' = 0 /\ msgs' = msgs + 1
  /\ UNCHANGED <<fsm, fw, answered, fault, got, sent, insync, errs>>

\* The host sends the next byte b of its frame and the device receives c.
\* The protocol survives one altered byte in a frame, unless a byte received
\* from there on looks like the header of a frame.
FrameSends(b, c) ==
  /\ kind = "frame" /\ fault = "none"
  /\ b = FrameByte
  /\ Pump(c)
  /\ hit' = IF c = b THEN hit ELSE hit + 1
  /\ clean' = (clean /\ hit' <= 1 /\ (hit' = 1 /\ pos > 0 => c # FRAME_HEADER))
  /\ sum' = IF pos \in 4 .. Len(content) + 3 THEN Add(sum, b) ELSE sum
  /\ IF pos + 1 = FrameLen
       THEN /\ kind' = "none" /\ pos' = 0 /\ content' = << >>
            /\ sent' = IF hit' = 0 /\ HasHandler(content[1]) THEN Append(sent, content) ELSE sent
       ELSE pos' = pos + 1 /\ UNCHANGED <<kind, content, sent>>
  /\ UNCHANGED <<insync, msgs>>

FrameByteArrives == FrameSends(FrameByte, FrameByte) /\ UNCHANGED errs

FrameByteAltered ==
  /\ errs < MaxErrs
  /\ errs' = errs + 1
  /\ \E c \in Byte \ {FrameByte} : FrameSends(FrameByte, c)

\* A request of the other protocol is noise to the F3 parser.
BeginRequest ==
  /\ kind = "none" /\ fault = "none" /\ msgs < MaxFrames
  /\ content' \in Requests
  /\ insync' = (fw.s \in {"S_FW_HEAD_1", "S_FW_HEAD_2"})
  /\ kind' = "request" /\ pos' = 0 /\ msgs' = msgs + 1
  /\ UNCHANGED <<fsm, fw, answered, fault, got, sum, sent, hit, clean, errs>>

RequestByteArrives ==
  /\ kind = "request" /\ fault = "none"
  /\ Pump(content[pos + 1])
  /\ clean' = (clean /\ content[pos + 1] # FRAME_HEADER)
  /\ IF pos = 5
       THEN kind' = "none" /\ pos' = 0 /\ content' = << >>
       ELSE pos' = pos + 1 /\ UNCHANGED <<kind, content>>
  /\ UNCHANGED <<sum, sent, hit, insync, msgs, errs>>

\* The line loses a byte of a frame.
ByteLost ==
  /\ kind = "frame" /\ fault = "none" /\ errs < MaxErrs
  /\ errs' = errs + 1 /\ clean' = FALSE
  /\ IF pos + 1 = FrameLen
       THEN kind' = "none" /\ pos' = 0 /\ content' = << >>
       ELSE pos' = pos + 1 /\ UNCHANGED <<kind, content>>
  /\ sum' = IF pos \in 4 .. Len(content) + 3 THEN Add(sum, FrameByte) ELSE sum
  /\ UNCHANGED <<fsm, fw, answered, fault, got, sent, hit, insync, msgs>>

\* Noise between two messages.
StrayByte ==
  /\ kind = "none" /\ fault = "none" /\ errs < MaxErrs
  /\ errs' = errs + 1
  /\ \E c \in Byte : Pump(c) /\ clean' = (clean /\ c # FRAME_HEADER)
  /\ UNCHANGED hostVars

Next ==
  \/ BeginFrame \/ FrameByteArrives \/ FrameByteAltered
  \/ BeginRequest \/ RequestByteArrives
  \/ ByteLost \/ StrayByte

Spec == Init /\ [][Next]_vars

------------------------------------------------------------------------------
\* The states of both parsers are of their types, and the data received never
\* exceed the buffer while no index has left its array.
FrameTypeOK ==
  /\ fsm \in Fsm /\ fw \in Fw /\ answered \in BOOLEAN
  /\ fault \in {"none", "data", "table"}
  /\ got \in Seq(Seq(Byte)) /\ sent \in Seq(Seq(Byte))
  /\ kind \in {"none", "frame", "request"}
  /\ content \in Seq(Byte) /\ pos \in Nat /\ sum \in Byte
  /\ hit \in Nat /\ clean \in BOOLEAN /\ insync \in BOOLEAN
  /\ msgs \in Nat /\ errs \in Nat
  /\ fault = "none" => Len(fsm.data) <= FRAME_DATA_MAX_LEN

\* As long as no frame had more than one altered byte, and no byte taken for a
\* header followed it, the handlers have been given exactly the frames that
\* crossed the line unharmed, each once, in order and with its own id and data:
\* a harmed frame is dropped whole and costs no other frame, the two check sums
\* let no altered byte through, and no index leaves its array.
OneFaultOneFrame == clean => got = sent /\ fault = "none"

\* The data buffer is overrun only by a frame whose length, carried by its own
\* bytes, is 0 or greater than the buffer.
OverrunNeedsBadLength ==
  fault = "data" => fsm.len = 0 \/ fsm.len > FRAME_DATA_MAX_LEN

\* The table has the command of request r and, if that asks for the channel,
\* the index of r is one of a channel.
Answerable(r) ==
  /\ <<r[5], r[6]>> \in FwTable
  /\ <<r[5], r[6]>> \in ChannelPairs => r[4] < COMM_CHN_NUM

\* A request of the FF 55 protocol that begins while its parser awaits either
\* header byte is answered at its last byte exactly when it can be answered,
\* whatever bytes of F3 frames that parser has seen before.
RequestAnswered ==
  [][/\ kind = "request" /\ kind' = "none"
     /\ insync /\ clean
     => (answered' <=> Answerable(content))]_vars
==============================================================================
