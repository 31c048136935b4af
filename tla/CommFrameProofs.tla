--------------------------- MODULE CommFrameProofs ---------------------------
(***************************************************************************)
(* The parsers of CommFrame, for every radix, every size of the buffer,    *)
(* every set of contents and requests and every number of faults.          *)
(*                                                                         *)
(* The argument: while a frame crosses the line unharmed the F3 parser is  *)
(* InStep with it, its state being a function of the position in the       *)
(* frame; when one byte is altered it is Harmed: either back in S_HEAD, or *)
(* on its way to the next comparison with a check sum that differs from    *)
(* the one the host computes.                                              *)
(***************************************************************************)
EXTENDS CommFrame, SequenceTheorems, TLAPS

\* Facts of the F3 parser whatever it is sent.
ParserOK(f) ==
  /\ f \in Fsm
  /\ f.s \in {"S_HEAD_CHECK", "S_LEN1", "S_LEN2"} => f.data = << >> /\ f.check = 0
  /\ f.s = "S_LEN2" => f.len \in Byte
  /\ f.s = "S_DATA" => f.len = 0 \/ Len(f.data) < f.len

HeadCheckByte == Add(Add(FRAME_HEADER, LenLow), LenHigh)

Holds(f, k) == Len(f.data) = k /\ \A i \in 1 .. k : f.data[i] = content[i]

\* The parser after the first p bytes of an unharmed frame, of whose content
\* the host has summed t.
InStep(f, p, t) ==
  /\ p = 0 => f.s = "S_HEAD"
  /\ p = 1 => f.s = "S_HEAD_CHECK"
  /\ p = 2 => f.s = "S_LEN1" /\ f.recv_head_check = HeadCheckByte
  /\ p = 3 => f.s = "S_LEN2" /\ f.recv_head_check = HeadCheckByte /\ f.len = LenLow
  /\ p \in {1, 2} => f.calc_head_check = FRAME_HEADER
  /\ p = 3 => f.calc_head_check = Add(FRAME_HEADER, LenLow)
  /\ p \in 4 .. Len(content) + 3 => f.s = "S_DATA" /\ Holds(f, p - 4)
  /\ p \in 4 .. Len(content) + 4 => f.check = t
  /\ p \in 4 .. Len(content) + 5 => f.len = Len(content)
  /\ p = Len(content) + 4 => f.s = "S_CHECK" /\ Holds(f, Len(content))
  /\ p = Len(content) + 5 => f.s = "S_END" /\ Holds(f, Len(content))

\* The parser after the first p bytes of a frame one of which was altered.
Harmed(f, p, t) ==
  \/ f.s = "S_HEAD"
  \/ p = 2 /\ f.s = "S_LEN1" /\ f.recv_head_check # HeadCheckByte
     /\ f.calc_head_check = FRAME_HEADER
  \/ p = 3 /\ f.s = "S_LEN2" /\ f.recv_head_check # Add(f.calc_head_check, LenHigh)
  \/ p \in 5 .. Len(content) + 3 /\ f.s = "S_DATA" /\ f.len = Len(content)
     /\ Len(f.data) = p - 4 /\ f.check # t
  \/ p = Len(content) + 4 /\ f.s = "S_CHECK" /\ f.check # t

FrameSync ==
  /\ content \in Contents /\ Len(content) <= FRAME_DATA_MAX_LEN
  /\ content[1] # PROTOCOL_NUM
  /\ pos \in 0 .. Len(content) + 5
  /\ hit \in {0, 1}
  /\ pos <= 4 => sum = 0
  /\ hit = 0 => InStep(fsm, pos, sum)
  /\ hit = 1 => pos > 0 /\ Harmed(fsm, pos, sum)

RequestSync ==
  /\ content \in Requests /\ pos \in 0 .. 5
  /\ clean /\ insync =>
       /\ pos = 0 => fw.s \in {"S_FW_HEAD_1", "S_FW_HEAD_2"}
       /\ pos = 1 => fw.s = "S_FW_HEAD_2"
       /\ pos = 2 => fw.s = "S_FW_LEN"
       /\ pos = 3 => fw.s = "S_FW_INDEX"
       /\ pos = 4 => fw.s = "S_FW_MODE" /\ fw.index = content[4]
       /\ pos = 5 => /\ fw.s = "S_FW_CMD" /\ fw.index = content[4]
                     /\ fw.mode = content[5]

FrameInv ==
  /\ FrameTypeOK
  /\ ParserOK(fsm)
  /\ OverrunNeedsBadLength
  /\ OneFaultOneFrame
  /\ clean /\ kind # "frame" => fsm.s = "S_HEAD"
  /\ kind = "frame" => content \in Contents /\ pos \in 0 .. Len(content) + 5
  /\ clean /\ kind = "frame" => FrameSync
  /\ kind = "request" => RequestSync

------------------------------------------------------------------------------
LEMMA AddByte ==
  ASSUME NEW a \in Byte, NEW b \in Byte
  PROVE  Add(a, b) \in Byte
BY ByteAssumption DEF Add, Byte

\* Two different bytes added to one byte give two different sums: what makes
\* the check sums detect one altered byte.
LEMMA AddCancels ==
  ASSUME NEW a \in Byte, NEW b \in Byte, NEW c \in Byte
  PROVE  /\ Add(a, b) = Add(a, c) => b = c
         /\ Add(b, a) = Add(c, a) => b = c
BY ByteAssumption DEF Add, Byte

LEMMA Digits ==
  ASSUME NEW R \in Nat \ {0}, NEW n \in 1 .. R * R - 1
  PROVE  /\ n % R \in 0 .. R - 1
         /\ n \div R \in 0 .. R - 1
         /\ (n % R) + ((n \div R) * R) = n
<1>1. n % R \in 0 .. R - 1
  OBVIOUS
<1>2. n = ((n \div R) * R) + (n % R)
  OBVIOUS
<1>3. n \div R \in Nat
  OBVIOUS
<1>4. n \div R <= R - 1
  <2>1. SUFFICES ASSUME n \div R >= R PROVE FALSE
    BY <1>3
  <2>2. (n \div R) * R >= R * R
    BY <2>1, <1>3
  <2> QED
    BY <2>2, <1>1, <1>2, <1>3
<1> QED
  BY <1>1, <1>2, <1>3, <1>4

LEMMA TwoBytes ==
  ASSUME NEW R \in Nat \ {0}, NEW a \in 0 .. R - 1, NEW b \in 0 .. R - 1
  PROVE  a + b * R \in 0 .. R * R - 1
<1>1. b * R <= (R - 1) * R
  OBVIOUS
<1>2. (R - 1) * R = R * R - R
  OBVIOUS
<1>3. b * R \in Nat
  OBVIOUS
<1> QED
  BY <1>1, <1>2, <1>3
LEMMA EmptyIn == << >> \in Seq(Byte)
OBVIOUS

LEMMA ContentFacts ==
  ASSUME content \in Contents
  PROVE  /\ content \in Seq(Byte) /\ Len(content) \in Nat \ {0}
         /\ \A i \in 1 .. Len(content) : content[i] \in Byte
         /\ LenLow \in Byte /\ LenHigh \in Byte
         /\ LenLow + LenHigh * Radix = Len(content)
<1>1. content \in Seq(Byte) /\ Len(content) \in 1 .. Radix * Radix - 1
  BY ContentsAssumption
<1>2. \A i \in 1 .. Len(content) : content[i] \in Byte
  BY <1>1
<1>3. Radix \in Nat \ {0}
  BY ByteAssumption
<1>4. /\ LenLow \in Byte /\ LenHigh \in Byte
      /\ LenLow + LenHigh * Radix = Len(content)
  BY <1>1, <1>3, Digits DEF LenLow, LenHigh, Byte
<1> QED
  BY <1>1, <1>2, <1>4

LEMMA ParserStep ==
  ASSUME NEW f, ParserOK(f), NEW c \in Byte
  PROVE  ParserOK(FsmStep(f, c))
<1> USE DEF ParserOK, Fsm
<1>r. Radix \in Nat \ {0} /\ 0 \in Byte /\ FRAME_HEADER \in Byte
  BY ByteAssumption DEF Byte
<1>z. 0 \in 0 .. Radix * Radix - 1 /\ \A b \in Byte : b \in 0 .. Radix * Radix - 1
  <2>1. \A b \in Byte : b + 0 * Radix \in 0 .. Radix * Radix - 1
    BY <1>r, TwoBytes DEF Byte
  <2>2. \A b \in Byte : b + 0 * Radix = b
    BY <1>r DEF Byte
  <2> QED
    BY <2>1, <2>2, <1>r
<1>1. CASE f.s = "S_HEAD"
  BY <1>1, <1>r, <1>z DEF FsmStep, HeadStep
<1>2. CASE f.s = "S_HEAD_CHECK"
  BY <1>2, <1>r DEF FsmStep, HeadCheckStep
<1>3. CASE f.s = "S_LEN1"
  <2>1. Add(f.calc_head_check, c) \in Byte
    BY AddByte
  <2> QED
    BY <2>1, <1>3, <1>r, <1>z DEF FsmStep, Len1Step
<1>4. CASE f.s = "S_LEN2"
  <2>1. Add(f.calc_head_check, c) \in Byte
    BY AddByte
  <2>2. f.len + c * Radix \in 0 .. Radix * Radix - 1
    BY <1>4, <1>r, TwoBytes DEF Byte
  <2>3. f.len + c * Radix = 0 \/ Len(<< >>) < f.len + c * Radix
    BY <2>2
  <2> HIDE DEF Byte
  <2>4. FsmStep(f, c) = Len2Step(f, c)
    BY <1>4 DEF FsmStep
  <2> QED
    BY <2>1, <2>2, <2>3, <2>4, <1>4 DEF Len2Step
<1>5. CASE f.s = "S_DATA"
  <2>1. Add(f.check, c) \in Byte
    BY AddByte
  <2>2. Append(f.data, c) \in Seq(Byte) /\ Len(Append(f.data, c)) = Len(f.data) + 1
    OBVIOUS
  <2>3. FsmStep(f, c) = DataStep(f, c)
    BY <1>5 DEF FsmStep
  <2>4. Len(f.data) \in Nat /\ f.len \in Int
    BY <1>r
  <2>5. DataStep(f, c) \in Fsm
    BY <2>1, <2>2, <1>5 DEF DataStep
  <2>6. /\ DataStep(f, c).s = IF Len(f.data) + 1 = f.len THEN "S_CHECK" ELSE "S_DATA"
        /\ DataStep(f, c).len = f.len
        /\ Len(DataStep(f, c).data) = Len(f.data) + 1
    BY <2>2 DEF DataStep
  <2>7. f.len = 0 \/ Len(f.data) < f.len
    BY <1>5
  <2>8. DataStep(f, c).s = "S_DATA" => f.len = 0 \/ Len(f.data) + 1 < f.len
    BY <2>4, <2>6, <2>7
  <2> QED
    BY <2>3, <2>5, <2>6, <2>8
<1>6. CASE f.s = "S_CHECK"
  BY <1>6 DEF FsmStep, CheckStep
<1>7. CASE f.s = "S_END"
  BY <1>7 DEF FsmStep, EndStep
<1> QED
  BY <1>1, <1>2, <1>3, <1>4, <1>5, <1>6, <1>7

\* What the parser does with a byte, one fact for each of its states.
LEMMA StepFacts ==
  ASSUME NEW f, ParserOK(f), NEW c \in Byte, NEW g, g = FsmStep(f, c)
  PROVE  /\ f.s = "S_HEAD" /\ c # FRAME_HEADER => g = f
         /\ f.s = "S_HEAD" /\ c = FRAME_HEADER =>
              g.s = "S_HEAD_CHECK" /\ g.calc_head_check = FRAME_HEADER
         /\ f.s = "S_HEAD_CHECK" =>
              /\ g.s = "S_LEN1" /\ g.recv_head_check = c
              /\ g.calc_head_check = f.calc_head_check
         /\ f.s = "S_LEN1" =>
              /\ g.s = "S_LEN2" /\ g.recv_head_check = f.recv_head_check
              /\ g.calc_head_check = Add(f.calc_head_check, c) /\ g.len = c
         /\ f.s = "S_LEN2" =>
              /\ g.s = IF f.recv_head_check = Add(f.calc_head_check, c) THEN "S_DATA" ELSE "S_HEAD"
              /\ g.len = f.len + c * Radix /\ g.data = << >> /\ g.check = 0
         /\ f.s = "S_DATA" =>
              /\ g.s = IF Len(f.data) + 1 = f.len THEN "S_CHECK" ELSE "S_DATA"
              /\ g.len = f.len /\ g.data = Append(f.data, c) /\ g.check = Add(f.check, c)
         /\ f.s = "S_CHECK" =>
              /\ g.s = IF f.check = c THEN "S_END" ELSE "S_HEAD"
              /\ g.len = f.len /\ g.data = f.data
         /\ f.s = "S_END" => g.s = "S_HEAD"
<1> USE DEF ParserOK, Fsm
<1>1. CASE f.s = "S_HEAD"
  BY <1>1 DEF FsmStep, HeadStep
<1>2. CASE f.s = "S_HEAD_CHECK"
  BY <1>2 DEF FsmStep, HeadCheckStep
<1>3. CASE f.s = "S_LEN1"
  BY <1>3 DEF FsmStep, Len1Step
<1>4. CASE f.s = "S_LEN2"
  BY <1>4 DEF FsmStep, Len2Step
<1>5. CASE f.s = "S_DATA"
  BY <1>5 DEF FsmStep, DataStep
<1>6. CASE f.s = "S_CHECK"
  BY <1>6 DEF FsmStep, CheckStep
<1>7. CASE f.s = "S_END"
  BY <1>7 DEF FsmStep, EndStep
<1> QED
  BY <1>1, <1>2, <1>3, <1>4, <1>5, <1>6, <1>7

LEMMA FrameByteIs ==
  ASSUME content \in Contents, pos \in 0 .. Len(content) + 5, sum \in Byte
  PROVE  /\ FrameByte \in Byte
         /\ pos = 0 => FrameByte = FRAME_HEADER
         /\ pos = 1 => FrameByte = HeadCheckByte
         /\ pos = 2 => FrameByte = LenLow
         /\ pos = 3 => FrameByte = LenHigh
         /\ pos \in 4 .. Len(content) + 3 => FrameByte = content[pos - 3]
         /\ pos = Len(content) + 4 => FrameByte = sum
         /\ pos = Len(content) + 5 => FrameByte = FRAME_END
<1>c. /\ Len(content) \in Nat \ {0}
      /\ \A i \in 1 .. Len(content) : content[i] \in Byte
      /\ LenLow \in Byte /\ LenHigh \in Byte
  BY ContentFacts
<1>b. FRAME_HEADER \in Byte /\ FRAME_END \in Byte
  BY ByteAssumption
<1>h. HeadCheckByte \in Byte
  BY <1>c, <1>b, AddByte DEF HeadCheckByte
<1>1. CASE pos = 0
  BY <1>1, <1>b, <1>c DEF FrameByte
<1>2. CASE pos = 1
  BY <1>2, <1>h, <1>c DEF FrameByte, HeadCheckByte
<1>3. CASE pos = 2
  BY <1>3, <1>c DEF FrameByte
<1>4. CASE pos = 3
  BY <1>4, <1>c DEF FrameByte
<1>5. CASE pos \in 4 .. Len(content) + 3
  <2>1. FrameByte = content[pos - 3]
    BY <1>5, <1>c DEF FrameByte
  <2>2. pos - 3 \in 1 .. Len(content)
    BY <1>5, <1>c
  <2> QED
    BY <2>1, <2>2, <1>5, <1>c
<1>6. CASE pos = Len(content) + 4
  BY <1>6, <1>c DEF FrameByte
<1>7. CASE pos = Len(content) + 5
  BY <1>7, <1>b, <1>c DEF FrameByte
<1> QED
  BY <1>1, <1>2, <1>3, <1>4, <1>5, <1>6, <1>7, <1>c

\* The byte the host sends takes the parser from a position to the next.
LEMMA InStepStep ==
  ASSUME ParserOK(fsm), content \in Contents, sum \in Byte, pos \in 0 .. Len(content) + 5,
         pos <= 4 => sum = 0, InStep(fsm, pos, sum), pos # Len(content) + 5,
         NEW t, t = IF pos \in 4 .. Len(content) + 3 THEN Add(sum, FrameByte) ELSE sum,
         NEW g, g = FsmStep(fsm, FrameByte)
  PROVE  InStep(g, pos + 1, t)
<1> DEFINE n == Len(content)
<1>c. /\ n \in Nat \ {0} /\ LenLow \in Byte /\ LenHigh \in Byte
      /\ LenLow + LenHigh * Radix = n
  BY ContentFacts
<1>r. Radix \in Nat \ {0} /\ 0 \in Byte /\ FRAME_HEADER \in Byte /\ FRAME_END \in Byte
  BY ByteAssumption DEF Byte
<1>f. fsm \in Fsm /\ Len(fsm.data) \in Nat
  BY DEF ParserOK, Fsm
<1>b. FrameByte \in Byte
  BY FrameByteIs
<1>1. CASE pos = 0
  <2>1. g.s = "S_HEAD_CHECK" /\ g.calc_head_check = FRAME_HEADER
    BY <1>1, <1>b, StepFacts, FrameByteIs DEF InStep
  <2> QED
    BY <2>1, <1>1, <1>c DEF InStep
<1>2. CASE pos = 1
  <2>1. g.s = "S_LEN1" /\ g.recv_head_check = HeadCheckByte /\ g.calc_head_check = FRAME_HEADER
    BY <1>2, <1>b, StepFacts, FrameByteIs DEF InStep
  <2> QED
    BY <2>1, <1>2, <1>c DEF InStep
<1>3. CASE pos = 2
  <2>1. /\ g.s = "S_LEN2" /\ g.recv_head_check = HeadCheckByte
        /\ g.calc_head_check = Add(FRAME_HEADER, LenLow) /\ g.len = LenLow
    BY <1>3, <1>b, StepFacts, FrameByteIs DEF InStep
  <2> QED
    BY <2>1, <1>3, <1>c DEF InStep
<1>4. CASE pos = 3
  <2>1. /\ fsm.s = "S_LEN2" /\ fsm.recv_head_check = HeadCheckByte /\ fsm.len = LenLow
        /\ fsm.calc_head_check = Add(FRAME_HEADER, LenLow) /\ FrameByte = LenHigh
    BY <1>4, FrameByteIs DEF InStep
  <2>2. fsm.recv_head_check = Add(fsm.calc_head_check, FrameByte)
    BY <2>1 DEF HeadCheckByte
  <2>3. g.s = "S_DATA" /\ g.len = n /\ g.data = << >> /\ g.check = 0
    BY <2>1, <2>2, <1>b, <1>c, StepFacts
  <2>4. t = 0
    BY <1>4
  <2> QED
    BY <2>3, <2>4, <1>4, <1>c DEF InStep, Holds
<1>5. CASE pos \in 4 .. n + 3
  <2>1. fsm.s = "S_DATA" /\ Holds(fsm, pos - 4) /\ fsm.check = sum /\ fsm.len = n
    BY <1>5, <1>c DEF InStep
  <2>2. FrameByte = content[pos - 3]
    BY <1>5, FrameByteIs
  <2>3. /\ g.s = IF Len(fsm.data) + 1 = n THEN "S_CHECK" ELSE "S_DATA"
        /\ g.len = n /\ g.data = Append(fsm.data, content[pos - 3])
        /\ g.check = Add(sum, FrameByte)
    BY <2>1, <2>2, <1>b, StepFacts
  <2>4. Holds(g, pos - 3)
    <3>1. fsm.data \in Seq(Byte)
      BY <1>f DEF Fsm
    <3>2. Len(fsm.data) = pos - 4 /\ \A i \in 1 .. pos - 4 : fsm.data[i] = content[i]
      BY <2>1 DEF Holds
    <3>3. Len(g.data) = pos - 3
      BY <2>3, <3>1, <3>2, <1>5, <1>c
    <3>4. ASSUME NEW i \in 1 .. pos - 3 PROVE g.data[i] = content[i]
      BY <2>3, <3>1, <3>2, <1>5, <1>c
    <3> QED
      BY <3>3, <3>4 DEF Holds
  <2>5. Len(fsm.data) = pos - 4
    BY <2>1 DEF Holds
  <2>6. t = g.check
    BY <2>3, <1>5
  <2>7. CASE pos = n + 3
    <3>1. g.s = "S_CHECK"
      BY <2>3, <2>5, <2>7, <1>c
    <3>2. pos - 3 = n
      BY <2>7, <1>c
    <3>3. Holds(g, n)
      BY <3>2, <2>4
    <3>4. /\ pos + 1 = n + 4 /\ pos + 1 # 0 /\ pos + 1 \notin {1, 2, 3}
          /\ pos + 1 \notin 4 .. n + 3 /\ pos + 1 # n + 5
      BY <2>7, <1>c
    <3> QED
      BY <3>1, <3>3, <3>4, <2>3, <2>6 DEF InStep
  <2>8. CASE pos # n + 3
    <3>1. g.s = "S_DATA"
      BY <2>3, <2>5, <2>8, <1>5, <1>c
    <3>2. pos - 3 = (pos + 1) - 4 /\ pos + 1 \in 5 .. n + 3
      BY <2>8, <1>5, <1>c
    <3> QED
      BY <3>1, <3>2, <2>3, <2>4, <2>6, <1>c DEF InStep
  <2> QED
    BY <2>7, <2>8
<1>6. CASE pos = n + 4
  <2>1. fsm.s = "S_CHECK" /\ Holds(fsm, n) /\ fsm.check = sum /\ fsm.len = n
    BY <1>6, <1>c DEF InStep
  <2>2. FrameByte = sum
    BY <1>6, FrameByteIs
  <2>3. g.s = "S_END" /\ g.len = n /\ g.data = fsm.data
    BY <2>1, <2>2, <1>b, StepFacts
  <2> QED
    BY <2>1, <2>3, <1>6, <1>c DEF InStep, Holds
<1> QED
  BY <1>1, <1>2, <1>3, <1>4, <1>5, <1>6, <1>c

\* The first altered byte of a frame.
LEMMA FirstHit ==
  ASSUME ParserOK(fsm), content \in Contents, sum \in Byte, pos \in 0 .. Len(content) + 5,
         pos <= 4 => sum = 0, InStep(fsm, pos, sum),
         NEW c \in Byte, c # FrameByte,
         NEW t, t = IF pos \in 4 .. Len(content) + 3 THEN Add(sum, FrameByte) ELSE sum,
         NEW g, g = FsmStep(fsm, c)
  PROVE  Harmed(g, pos + 1, t)
<1> DEFINE n == Len(content)
<1>c. /\ n \in Nat \ {0} /\ LenLow \in Byte /\ LenHigh \in Byte
      /\ LenLow + LenHigh * Radix = n
  BY ContentFacts
<1>r. Radix \in Nat \ {0} /\ 0 \in Byte /\ FRAME_HEADER \in Byte /\ FRAME_END \in Byte
  BY ByteAssumption DEF Byte
<1>f. fsm \in Fsm /\ Len(fsm.data) \in Nat
  BY DEF ParserOK, Fsm
<1>b. FrameByte \in Byte
  BY FrameByteIs
<1>1. CASE pos = 0
  <2>1. g.s = "S_HEAD"
    BY <1>1, StepFacts, FrameByteIs DEF InStep
  <2> QED
    BY <2>1 DEF Harmed
<1>2. CASE pos = 1
  <2>1. g.s = "S_LEN1" /\ g.recv_head_check # HeadCheckByte /\ g.calc_head_check = FRAME_HEADER
    BY <1>2, StepFacts, FrameByteIs DEF InStep
  <2> QED
    BY <2>1, <1>2 DEF Harmed
<1>3. CASE pos = 2
  <2>1. /\ g.s = "S_LEN2" /\ g.recv_head_check = HeadCheckByte
        /\ g.calc_head_check = Add(FRAME_HEADER, c)
    BY <1>3, StepFacts DEF InStep
  <2>2. c # LenLow
    BY <1>3, FrameByteIs
  <2>3. Add(FRAME_HEADER, c) # Add(FRAME_HEADER, LenLow)
    BY <2>2, <1>c, <1>r, AddCancels
  <2>4. Add(FRAME_HEADER, c) \in Byte /\ Add(FRAME_HEADER, LenLow) \in Byte
    BY <1>c, <1>r, AddByte
  <2>5. HeadCheckByte # Add(Add(FRAME_HEADER, c), LenHigh)
    BY <2>3, <2>4, <1>c, AddCancels DEF HeadCheckByte
  <2> QED
    BY <2>1, <2>5, <1>3 DEF Harmed
<1>4. CASE pos = 3
  <2>1. /\ fsm.s = "S_LEN2" /\ fsm.recv_head_check = HeadCheckByte
        /\ fsm.calc_head_check = Add(FRAME_HEADER, LenLow)
    BY <1>4 DEF InStep
  <2>2. c # LenHigh
    BY <1>4, FrameByteIs
  <2>3. Add(FRAME_HEADER, LenLow) \in Byte
    BY <1>c, <1>r, AddByte
  <2>4. fsm.recv_head_check # Add(fsm.calc_head_check, c)
    BY <2>1, <2>2, <2>3, <1>c, AddCancels DEF HeadCheckByte
  <2>5. g.s = "S_HEAD"
    BY <2>1, <2>4, StepFacts
  <2> QED
    BY <2>5 DEF Harmed
<1>5. CASE pos \in 4 .. n + 3
  <2>1. fsm.s = "S_DATA" /\ Len(fsm.data) = pos - 4 /\ fsm.check = sum /\ fsm.len = n
    BY <1>5, <1>c DEF InStep, Holds
  <2>2. /\ g.s = IF Len(fsm.data) + 1 = n THEN "S_CHECK" ELSE "S_DATA"
        /\ g.len = n /\ g.data = Append(fsm.data, c) /\ g.check = Add(sum, c)
    BY <2>1, StepFacts
  <2>3. g.check # t
    BY <2>2, <1>5, <1>b, AddCancels
  <2>4. Len(g.data) = pos - 3
    BY <2>1, <2>2, <1>f, <1>5, <1>c DEF Fsm
  <2>5. CASE pos = n + 3
    BY <2>1, <2>2, <2>3, <2>5, <1>c DEF Harmed
  <2>6. CASE pos # n + 3
    <3>1. g.s = "S_DATA" /\ pos + 1 \in 5 .. n + 3 /\ pos - 3 = (pos + 1) - 4
      BY <2>1, <2>2, <2>6, <1>5, <1>c
    <3> QED
      BY <3>1, <2>2, <2>3, <2>4 DEF Harmed
  <2> QED
    BY <2>5, <2>6
<1>6. CASE pos = n + 4
  <2>1. fsm.s = "S_CHECK" /\ fsm.check = sum /\ c # sum
    BY <1>6, <1>c, FrameByteIs DEF InStep
  <2>2. g.s = "S_HEAD"
    BY <2>1, StepFacts
  <2> QED
    BY <2>2 DEF Harmed
<1>7. CASE pos = n + 5
  <2>1. fsm.s = "S_END"
    BY <1>7, <1>c DEF InStep
  <2>2. g.s = "S_HEAD"
    BY <2>1, StepFacts
  <2> QED
    BY <2>2 DEF Harmed
<1> QED
  BY <1>1, <1>2, <1>3, <1>4, <1>5, <1>6, <1>7, <1>c

\* The bytes after the altered one, none of which looks like a header.
LEMMA HarmedStep ==
  ASSUME ParserOK(fsm), content \in Contents, sum \in Byte, pos \in 0 .. Len(content) + 5,
         pos <= 4 => sum = 0, Harmed(fsm, pos, sum), pos > 0,
         FrameByte # FRAME_HEADER,
         NEW t, t = IF pos \in 4 .. Len(content) + 3 THEN Add(sum, FrameByte) ELSE sum,
         NEW g, g = FsmStep(fsm, FrameByte)
  PROVE  Harmed(g, pos + 1, t)
<1> DEFINE n == Len(content)
<1>c. /\ n \in Nat \ {0} /\ LenLow \in Byte /\ LenHigh \in Byte
      /\ LenLow + LenHigh * Radix = n
  BY ContentFacts
<1>r. Radix \in Nat \ {0} /\ 0 \in Byte /\ FRAME_HEADER \in Byte /\ FRAME_END \in Byte
  BY ByteAssumption DEF Byte
<1>f. fsm \in Fsm /\ Len(fsm.data) \in Nat
  BY DEF ParserOK, Fsm
<1>b. FrameByte \in Byte
  BY FrameByteIs
<1>1. CASE fsm.s = "S_HEAD"
  <2>1. g.s = "S_HEAD"
    BY <1>1, <1>b, StepFacts
  <2> QED
    BY <2>1 DEF Harmed
<1>2. CASE pos = 2 /\ fsm.s = "S_LEN1" /\ fsm.recv_head_check # HeadCheckByte
           /\ fsm.calc_head_check = FRAME_HEADER
  <2>1. /\ g.s = "S_LEN2" /\ g.recv_head_check # HeadCheckByte
        /\ g.calc_head_check = Add(FRAME_HEADER, LenLow)
    BY <1>2, <1>b, StepFacts, FrameByteIs
  <2> QED
    BY <2>1, <1>2 DEF Harmed, HeadCheckByte
<1>3. CASE pos = 3 /\ fsm.s = "S_LEN2" /\ fsm.recv_head_check # Add(fsm.calc_head_check, LenHigh)
  <2>1. g.s = "S_HEAD"
    BY <1>3, <1>b, StepFacts, FrameByteIs
  <2> QED
    BY <2>1 DEF Harmed
<1>4. CASE pos \in 5 .. n + 3 /\ fsm.s = "S_DATA" /\ fsm.len = n
           /\ Len(fsm.data) = pos - 4 /\ fsm.check # sum
  <2>1. /\ g.s = IF Len(fsm.data) + 1 = n THEN "S_CHECK" ELSE "S_DATA"
        /\ g.len = n /\ g.data = Append(fsm.data, FrameByte)
        /\ g.check = Add(fsm.check, FrameByte)
    BY <1>4, <1>b, StepFacts
  <2>2. fsm.check \in Byte
    BY <1>f DEF Fsm
  <2>3. t = Add(sum, FrameByte)
    BY <1>4, <1>c
  <2>4. g.check # t
    BY <2>1, <2>2, <2>3, <1>4, <1>b, AddCancels
  <2>5. Len(g.data) = pos - 3
    BY <2>1, <1>f, <1>4, <1>c, <1>b DEF Fsm
  <2>6. CASE pos = n + 3
    BY <2>1, <2>4, <2>6, <1>4, <1>c DEF Harmed
  <2>7. CASE pos # n + 3
    <3>1. g.s = "S_DATA" /\ pos + 1 \in 5 .. n + 3 /\ pos - 3 = (pos + 1) - 4
      BY <2>1, <2>7, <1>4, <1>c
    <3> QED
      BY <3>1, <2>1, <2>4, <2>5 DEF Harmed
  <2> QED
    BY <2>6, <2>7
<1>5. CASE pos = n + 4 /\ fsm.s = "S_CHECK" /\ fsm.check # sum
  <2>1. g.s = "S_HEAD"
    BY <1>5, <1>b, StepFacts, FrameByteIs
  <2> QED
    BY <2>1 DEF Harmed
<1> QED
  BY <1>1, <1>2, <1>3, <1>4, <1>5 DEF Harmed

------------------------------------------------------------------------------
LEMMA FwTyped ==
  ASSUME fw \in Fw, NEW c \in Byte
  PROVE  FwStep(fw, c) \in Fw
<1> USE DEF Fw
<1>z. 0 \in Byte
  BY ByteAssumption DEF Byte
<1>1. CASE fw.s = "S_FW_HEAD_1"
  BY <1>1 DEF FwStep
<1>2. CASE fw.s = "S_FW_HEAD_2"
  BY <1>2 DEF FwStep, FwHead2Step
<1>3. CASE fw.s = "S_FW_LEN"
  BY <1>3 DEF FwStep
<1>4. CASE fw.s = "S_FW_INDEX"
  BY <1>4 DEF FwStep
<1>5. CASE fw.s = "S_FW_MODE"
  BY <1>5 DEF FwStep
<1>6. CASE fw.s = "S_FW_CMD"
  BY <1>6, <1>z DEF FwStep, FwIdle
<1> QED
  BY <1>1, <1>2, <1>3, <1>4, <1>5, <1>6

\* What holds after a byte has gone through both parsers, whatever it is.
LEMMA PumpStep ==
  ASSUME FrameTypeOK, ParserOK(fsm), fault = "none", NEW c \in Byte, Pump(c)
  PROVE  /\ ParserOK(fsm') /\ fw' \in Fw /\ answered' \in BOOLEAN
         /\ fault' \in {"none", "data", "table"} /\ got' \in Seq(Seq(Byte))
         /\ fault' = "none" => Len(fsm'.data) <= FRAME_DATA_MAX_LEN
         /\ OverrunNeedsBadLength'
<1>1. fsm' = FsmStep(fsm, c)
  BY DEF Pump
<1>2. ParserOK(fsm')
  BY <1>1, ParserStep
<1>3. fw' \in Fw
  <2>1. fw \in Fw
    BY DEF FrameTypeOK
  <2>2. fw' = FwStep(fw, c) \/ fw' = fw
    BY DEF Pump
  <2> QED
    BY <2>1, <2>2, FwTyped
<1>4. answered' \in BOOLEAN
  <2>1. FwAnswers(fw, c) \in BOOLEAN
    BY Zenon DEF FwAnswers
  <2>2. answered' = FwAnswers(fw, c) \/ answered' = FALSE
    BY Zenon DEF Pump
  <2> QED
    BY <2>1, <2>2, Zenon
<1>5. got' \in Seq(Seq(Byte))
  <2>1. got \in Seq(Seq(Byte)) /\ fsm.data \in Seq(Byte)
    BY DEF FrameTypeOK, Fsm
  <2>2. got' = Append(got, fsm.data) \/ got' = got
    BY DEF Pump
  <2> QED
    BY <2>1, <2>2
<1>6. fault' = IF OverrunsData(fsm) THEN "data"
               ELSE IF OverrunsTable(fsm, c) THEN "table" ELSE "none"
  BY DEF Pump
<1>7. /\ fsm \in Fsm /\ fsm.data \in Seq(Byte) /\ Len(fsm.data) \in Nat
      /\ fsm.len \in Int /\ Len(fsm.data) <= FRAME_DATA_MAX_LEN
      /\ FRAME_DATA_MAX_LEN \in Nat
  BY ByteAssumption, TableAssumption DEF FrameTypeOK, Fsm
<1>8. CASE OverrunsData(fsm)
  <2>1. fsm.s = "S_DATA" /\ Len(fsm.data) = FRAME_DATA_MAX_LEN
    BY <1>8 DEF OverrunsData
  <2>2. fsm.len = 0 \/ fsm.len > FRAME_DATA_MAX_LEN
    BY <2>1, <1>7 DEF ParserOK
  <2>3. fsm'.len = fsm.len
    BY <1>1, <2>1, StepFacts
  <2>4. fault' = "data"
    BY <1>6, <1>8
  <2> QED
    BY <1>2, <1>3, <1>4, <1>5, <2>2, <2>3, <2>4 DEF OverrunNeedsBadLength
<1>9. CASE ~ OverrunsData(fsm)
  <2>1. fault' \in {"table", "none"}
    BY <1>6, <1>9
  <2>2. Len(fsm'.data) <= FRAME_DATA_MAX_LEN
    <3>1. CASE fsm.s = "S_DATA"
      <4>1. fsm'.data = Append(fsm.data, c)
        BY <1>1, <3>1, StepFacts
      <4> QED
        BY <4>1, <3>1, <1>7, <1>9 DEF OverrunsData
    <3>2. CASE fsm.s # "S_DATA"
      <4>1. fsm'.data = fsm.data \/ fsm'.data = << >>
        BY <1>1, <1>7, <3>2 DEF FsmStep, HeadStep, HeadCheckStep, Len1Step, Len2Step,
                                CheckStep, EndStep, Fsm
      <4> QED
        BY <4>1, <1>7
    <3> QED
      BY <3>1, <3>2
  <2> QED
    BY <1>2, <1>3, <1>4, <1>5, <2>1, <2>2 DEF OverrunNeedsBadLength
<1> QED
  BY <1>8, <1>9

\* A byte that is not a header leaves a parser that awaits one as it is.
LEMMA NoiseStep ==
  ASSUME ParserOK(fsm), fsm.s = "S_HEAD", NEW c \in Byte, c # FRAME_HEADER, Pump(c)
  PROVE  fsm'.s = "S_HEAD" /\ got' = got /\ fault' = "none"
         /\ fw' = FwStep(fw, c) /\ (FwAnswers(fw, c) => answered')
<1>1. fsm' = FsmStep(fsm, c)
  BY DEF Pump
<1>2. fsm' = fsm
  BY <1>1, StepFacts
<1>3. ~ Delivers(fsm, c) /\ ~ OverrunsData(fsm) /\ ~ OverrunsTable(fsm, c)
  BY DEF Delivers, OverrunsData, OverrunsTable
<1>4. got' = got /\ fault' = "none" /\ fw' = FwStep(fw, c)
  BY <1>3 DEF Pump
<1>5. answered' = FwAnswers(fw, c)
  BY <1>3, Zenon DEF Pump
<1>6. FwAnswers(fw, c) => answered'
  BY <1>5, Zenon
<1> QED
  BY <1>2, <1>4, <1>6

\* While the frame is in sync no index leaves its array, and a frame is handed
\* over only at its last byte, unharmed.
LEMMA SyncSafe ==
  ASSUME FrameSync, NEW c \in Byte
  PROVE  /\ ~ OverrunsData(fsm)
         /\ fsm.s = "S_END" => pos = Len(content) + 5 /\ hit = 0
         /\ fsm.s = "S_END" => Len(fsm.data) = Len(content)
         /\ fsm.s = "S_END" => \A i \in 1 .. Len(content) : fsm.data[i] = content[i]
<1>c. Len(content) \in Nat \ {0} /\ pos \in 0 .. Len(content) + 5
  BY ContentFacts DEF FrameSync
<1>m. Len(content) <= FRAME_DATA_MAX_LEN /\ FRAME_DATA_MAX_LEN \in Nat
  BY TableAssumption DEF FrameSync
<1>1. CASE hit = 0
  <2>1. InStep(fsm, pos, sum)
    BY <1>1 DEF FrameSync
  <2>2. fsm.s = "S_DATA" => pos \in 4 .. Len(content) + 3 /\ Len(fsm.data) = pos - 4
    BY <2>1, <1>c DEF InStep, Holds
  <2>3. fsm.s = "S_END" => pos = Len(content) + 5
    BY <2>1, <1>c DEF InStep
  <2>4. pos = Len(content) + 5 => Holds(fsm, Len(content))
    BY <2>1 DEF InStep
  <2>5. ~ OverrunsData(fsm)
    BY <2>2, <1>c, <1>m DEF OverrunsData
  <2> QED
    BY <2>3, <2>4, <2>5, <1>1 DEF Holds
<1>2. CASE hit = 1
  <2>1. Harmed(fsm, pos, sum)
    BY <1>2 DEF FrameSync
  <2>2. fsm.s = "S_DATA" => pos \in 5 .. Len(content) + 3 /\ Len(fsm.data) = pos - 4
    BY <2>1 DEF Harmed
  <2>3. fsm.s # "S_END"
    BY <2>1 DEF Harmed
  <2>4. ~ OverrunsData(fsm)
    BY <2>2, <1>c, <1>m DEF OverrunsData
  <2> QED
    BY <2>3, <2>4
<1> QED
  BY <1>1, <1>2 DEF FrameSync

\* A byte of a frame arrives, as it was sent or altered.
LEMMA FrameSendsStep ==
  ASSUME FrameInv, NEW c \in Byte, FrameSends(FrameByte, c), errs' \in Nat
  PROVE  FrameInv'
<1> DEFINE n == Len(content)
<1>k. kind = "frame" /\ fault = "none" /\ Pump(c)
  BY DEF FrameSends
<1>c. /\ content \in Contents /\ content \in Seq(Byte) /\ n \in Nat \ {0}
      /\ pos \in 0 .. n + 5 /\ sum \in Byte /\ hit \in Nat /\ sent \in Seq(Seq(Byte))
  BY <1>k, ContentFacts DEF FrameInv, FrameTypeOK
<1>b. FrameByte \in Byte
  BY <1>c, FrameByteIs
<1>p. /\ ParserOK(fsm') /\ fw' \in Fw /\ answered' \in BOOLEAN
      /\ fault' \in {"none", "data", "table"} /\ got' \in Seq(Seq(Byte))
      /\ fault' = "none" => Len(fsm'.data) <= FRAME_DATA_MAX_LEN
      /\ OverrunNeedsBadLength'
  BY <1>k, PumpStep DEF FrameInv
<1>h. hit' = IF c = FrameByte THEN hit ELSE hit + 1
  BY DEF FrameSends
<1>t. sum' = IF pos \in 4 .. n + 3 THEN Add(sum, FrameByte) ELSE sum
  BY DEF FrameSends
<1>s. sum' \in Byte
  BY <1>t, <1>c, <1>b, AddByte
<1>e. /\ pos = n + 5 =>
           /\ kind' = "none" /\ pos' = 0 /\ content' = << >>
           /\ sent' = IF hit' = 0 /\ HasHandler(content[1]) THEN Append(sent, content) ELSE sent
      /\ pos # n + 5 => pos' = pos + 1 /\ kind' = kind /\ content' = content /\ sent' = sent
  <2>1. pos + 1 = FrameLen <=> pos = n + 5
    BY <1>c DEF FrameLen
  <2> QED
    BY <2>1 DEF FrameSends
<1>1. FrameTypeOK'
  <2>1. fsm' \in Fsm
    BY <1>p DEF ParserOK
  <2>2. clean' \in BOOLEAN
    BY Zenon DEF FrameSends
  <2>3. sent' \in Seq(Seq(Byte)) /\ kind' \in {"none", "frame", "request"}
        /\ content' \in Seq(Byte) /\ pos' \in Nat /\ hit' \in Nat
    <3>1. sent' = sent \/ sent' = Append(sent, content)
      BY <1>e
    <3>2. sent' \in Seq(Seq(Byte))
      BY <3>1, <1>c
    <3>3. content' = << >> \/ content' = content
      BY <1>e
    <3>4. content' \in Seq(Byte)
      BY <3>3, <1>c, EmptyIn, Zenon
    <3>5. pos' \in Nat /\ hit' \in Nat /\ kind' \in {"none", "frame", "request"}
      BY <1>c, <1>e, <1>h, <1>k
    <3> QED
      BY <3>2, <3>4, <3>5
  <2>4. insync' \in BOOLEAN /\ msgs' \in Nat
    BY DEF FrameSends, FrameInv, FrameTypeOK
  <2> QED
    BY <2>1, <2>2, <2>3, <2>4, <1>p, <1>s DEF FrameTypeOK
<1>2. kind' = "frame" => content' \in Contents /\ pos' \in 0 .. Len(content') + 5
  BY <1>c, <1>e
<1>3. kind' # "request"
  BY <1>e, <1>k
<1>4. ASSUME clean'
      PROVE  /\ got' = sent' /\ fault' = "none"
             /\ kind' # "frame" => fsm'.s = "S_HEAD"
             /\ kind' = "frame" => FrameSync'
  <2>1. clean /\ hit' <= 1 /\ (hit' = 1 /\ pos > 0 => c # FRAME_HEADER)
    BY <1>4, Zenon DEF FrameSends
  <2>2. FrameSync /\ got = sent
    BY <2>1, <1>k DEF FrameInv, OneFaultOneFrame
  <2>3. /\ ~ OverrunsData(fsm)
        /\ fsm.s = "S_END" => pos = n + 5 /\ hit = 0 /\ Len(fsm.data) = n
        /\ fsm.s = "S_END" => \A i \in 1 .. n : fsm.data[i] = content[i]
    BY <2>2, SyncSafe
  <2>4. fsm' = FsmStep(fsm, c)
    BY <1>k DEF Pump
  <2>5. fault' = "none"
    <3>1. ~ OverrunsTable(fsm, c)
      BY <2>2, <2>3, <1>c DEF OverrunsTable, Delivers, FrameSync
    <3> QED
      BY <3>1, <2>3, <1>k DEF Pump
  <2>y. /\ ParserOK(fsm) /\ (pos <= 4 => sum = 0) /\ hit \in {0, 1}
        /\ (hit = 0 => InStep(fsm, pos, sum))
        /\ (hit = 1 => pos > 0 /\ Harmed(fsm, pos, sum))
        /\ n <= FRAME_DATA_MAX_LEN /\ content[1] # PROTOCOL_NUM
    BY <2>2 DEF FrameInv, FrameSync
  <2>6. got' = sent'
    <3>1. CASE Delivers(fsm, c)
      <4>1. fsm.s = "S_END" /\ c = FRAME_END /\ pos = n + 5 /\ hit = 0
        BY <3>1, <2>3 DEF Delivers
      <4>2. hit' = 0
        BY <4>1, <1>h, <1>c, FrameByteIs
      <4>3. fsm.data = content
        <5>1. fsm.data \in Seq(Byte)
          BY DEF FrameInv, FrameTypeOK, Fsm
        <5> QED
          BY <5>1, <4>1, <2>3, <1>c
      <4>4. got' = IF HasHandler(content[1]) THEN Append(got, content) ELSE got
        BY <3>1, <4>3, <1>k DEF Pump
      <4>5. sent' = IF HasHandler(content[1]) THEN Append(sent, content) ELSE sent
        BY <4>1, <4>2, <1>e
      <4> QED
        BY <4>4, <4>5, <2>2
    <3>2. CASE ~ Delivers(fsm, c)
      <4>1. got' = got
        BY <3>2, <1>k DEF Pump
      <4>2. pos = n + 5 => hit' = 1
        <5>1. SUFFICES ASSUME pos = n + 5, hit = 0 PROVE c # FrameByte
          BY <2>1, <2>y, <1>h, <1>c
        <5>2. fsm.s = "S_END" /\ FrameByte = FRAME_END
          BY <5>1, <2>y, <1>c, FrameByteIs DEF InStep
        <5> QED
          BY <5>2, <3>2 DEF Delivers
      <4>3. sent' = sent
        BY <4>2, <1>e
      <4> QED
        BY <4>1, <4>3, <2>2
    <3> QED
      BY <3>1, <3>2
  <2>7. hit' = 0 => hit = 0 /\ c = FrameByte
    BY <1>h, <1>c
  <2>8. hit' = 0 /\ pos # n + 5 => InStep(fsm', pos + 1, sum')
    BY <2>4, <2>7, <2>y, <1>c, <1>t, InStepStep
  <2>9. hit' = 1 => Harmed(fsm', pos + 1, sum')
    <3>1. CASE c # FrameByte
      <4>1. hit = 0
        BY <3>1, <2>1, <1>h, <1>c
      <4> QED
        BY <3>1, <4>1, <2>4, <2>y, <1>c, <1>t, FirstHit
    <3>2. CASE c = FrameByte /\ hit' = 1
      <4>1. hit = 1 /\ pos > 0 /\ FrameByte # FRAME_HEADER
        BY <3>2, <2>1, <2>y, <1>h
      <4> QED
        BY <3>2, <4>1, <2>4, <2>y, <1>c, <1>t, HarmedStep
    <3> QED
      BY <3>1, <3>2
  <2>10. hit' \in {0, 1}
    BY <2>1, <1>h, <1>c
  <2>11. CASE pos = n + 5
    <3>1. fsm'.s = "S_HEAD"
      <4>1. CASE hit' = 0
        <5>1. fsm.s = "S_END"
          BY <4>1, <2>7, <2>11, <2>y, <1>c DEF InStep
        <5> QED
          BY <5>1, <2>4, <2>y, StepFacts
      <4>2. CASE hit' = 1
        <5>1. Harmed(fsm', pos + 1, sum')
          BY <4>2, <2>9
        <5> QED
          BY <5>1, <2>11, <1>c DEF Harmed
      <4> QED
        BY <4>1, <4>2, <2>10
    <3>2. kind' = "none"
      BY <2>11, <1>e
    <3> QED
      BY <3>1, <3>2, <2>5, <2>6
  <2>12. CASE pos # n + 5
    <3>1. pos' = pos + 1 /\ kind' = "frame" /\ content' = content
      BY <2>12, <1>e, <1>k
    <3>2. pos' <= 4 => sum' = 0
      BY <3>1, <2>y, <1>t, <1>c
    <3>3. hit' = 0 => InStep(fsm, pos, sum)'
      BY <3>1, <2>8, <2>12 DEF InStep, Holds, HeadCheckByte, LenLow, LenHigh
    <3>4. hit' = 1 => Harmed(fsm, pos, sum)'
      BY <3>1, <2>9, <2>12 DEF Harmed, HeadCheckByte, LenLow, LenHigh
    <3>5. pos' \in 0 .. Len(content') + 5 /\ pos' > 0
      BY <3>1, <2>12, <1>c
    <3>6. FrameSync'
      BY <3>1, <3>2, <3>3, <3>4, <3>5, <2>10, <2>y, <1>c DEF FrameSync
    <3> QED
      BY <3>1, <3>6, <2>5, <2>6
  <2> QED
    BY <2>11, <2>12
<1> QED
  BY <1>1, <1>2, <1>3, <1>4, <1>p DEF FrameInv, OneFaultOneFrame

\* A byte that comes from outside a frame.
LEMMA NoiseInv ==
  ASSUME FrameInv, kind # "frame", fault = "none", NEW c \in Byte, Pump(c),
         clean' => clean /\ c # FRAME_HEADER, sent' = sent
  PROVE  /\ ParserOK(fsm') /\ OverrunNeedsBadLength' /\ OneFaultOneFrame'
         /\ clean' => fsm'.s = "S_HEAD"
         /\ fsm' \in Fsm /\ fw' \in Fw /\ answered' \in BOOLEAN
         /\ fault' \in {"none", "data", "table"} /\ got' \in Seq(Seq(Byte))
         /\ fault' = "none" => Len(fsm'.data) <= FRAME_DATA_MAX_LEN
<1>1. /\ ParserOK(fsm') /\ fw' \in Fw /\ answered' \in BOOLEAN
      /\ fault' \in {"none", "data", "table"} /\ got' \in Seq(Seq(Byte))
      /\ fault' = "none" => Len(fsm'.data) <= FRAME_DATA_MAX_LEN
      /\ OverrunNeedsBadLength'
  BY PumpStep DEF FrameInv
<1>2. ASSUME clean' PROVE fsm'.s = "S_HEAD" /\ got' = sent' /\ fault' = "none"
  <2>1. clean /\ c # FRAME_HEADER
    BY <1>2
  <2>2. ParserOK(fsm) /\ fsm.s = "S_HEAD" /\ got = sent
    BY <2>1 DEF FrameInv, OneFaultOneFrame
  <2> QED
    BY <2>1, <2>2, NoiseStep
<1>3. fsm' \in Fsm
  BY <1>1 DEF ParserOK
<1> QED
  BY <1>1, <1>2, <1>3 DEF OneFaultOneFrame

LEMMA RequestContent ==
  ASSUME content \in Requests, pos \in 0 .. 5
  PROVE  content[pos + 1] \in Byte /\ content \in Seq(Byte)
<1>1. content \in Seq(Byte) /\ Len(content) = 6
  BY RequestsAssumption
<1>2. pos + 1 \in 1 .. Len(content)
  BY <1>1
<1>3. content[pos + 1] \in Byte
  BY <1>1, <1>2, ElementOfSeq
<1> QED
  BY <1>1, <1>3

\* A request in sync moves the FF 55 parser one state on with each byte.
LEMMA FwFollows ==
  ASSUME fw \in Fw, RequestSync, clean, insync, NEW g, g = FwStep(fw, content[pos + 1])
  PROVE  /\ pos = 0 => g.s = "S_FW_HEAD_2"
         /\ pos = 1 => g.s = "S_FW_LEN"
         /\ pos = 2 => g.s = "S_FW_INDEX"
         /\ pos = 3 => g.s = "S_FW_MODE" /\ g.index = content[4]
         /\ pos = 4 => /\ g.s = "S_FW_CMD" /\ g.index = content[4]
                       /\ g.mode = content[5]
         /\ pos = 5 => /\ fw.s = "S_FW_CMD" /\ fw.index = content[4]
                       /\ fw.mode = content[5]
<1> USE DEF Fw
<1>0. /\ pos \in 0 .. 5
      /\ content[1] = FW_FRAME_HEADER_1 /\ content[2] = FW_FRAME_HEADER_2
      /\ FW_FRAME_HEADER_1 # FW_FRAME_HEADER_2
  BY RequestsAssumption DEF RequestSync
<1>1. CASE pos = 0
  <2>1. fw.s \in {"S_FW_HEAD_1", "S_FW_HEAD_2"} /\ content[pos + 1] = FW_FRAME_HEADER_1
    BY <1>0, <1>1 DEF RequestSync
  <2>2. CASE fw.s = "S_FW_HEAD_1"
    BY <2>1, <2>2, <1>1 DEF FwStep
  <2>3. CASE fw.s = "S_FW_HEAD_2"
    BY <2>1, <2>3, <1>0, <1>1 DEF FwStep, FwHead2Step
  <2> QED
    BY <2>1, <2>2, <2>3
<1>2. CASE pos = 1
  <2>1. fw.s = "S_FW_HEAD_2" /\ content[pos + 1] = FW_FRAME_HEADER_2
    BY <1>0, <1>2 DEF RequestSync
  <2> QED
    BY <2>1, <1>2 DEF FwStep, FwHead2Step
<1>3. CASE pos = 2
  <2>1. fw.s = "S_FW_LEN"
    BY <1>3 DEF RequestSync
  <2> QED
    BY <2>1, <1>3 DEF FwStep
<1>4. CASE pos = 3
  <2>1. fw.s = "S_FW_INDEX" /\ content[pos + 1] = content[4]
    BY <1>4 DEF RequestSync
  <2>2. g = [fw EXCEPT !.index = content[4], !.s = "S_FW_MODE"]
    BY <2>1 DEF FwStep
  <2>3. g.s = "S_FW_MODE" /\ g.index = content[4]
    BY ONLY fw \in Fw, <2>2 DEF Fw
  <2> QED
    BY <2>3, <1>4
<1>5. CASE pos = 4
  <2>1. /\ fw.s = "S_FW_MODE" /\ fw.index = content[4]
        /\ content[pos + 1] = content[5]
    BY <1>5 DEF RequestSync
  <2>2. g = [fw EXCEPT !.mode = content[5], !.s = "S_FW_CMD"]
    BY <2>1 DEF FwStep
  <2>3. g.s = "S_FW_CMD" /\ g.index = content[4] /\ g.mode = content[5]
    BY ONLY fw \in Fw, <2>1, <2>2 DEF Fw
  <2> QED
    BY <2>3, <1>5
<1>6. CASE pos = 5
  BY <1>6 DEF RequestSync
<1> QED
  BY <1>0, <1>1, <1>2, <1>3, <1>4, <1>5, <1>6

LEMMA RequestStep ==
  ASSUME FrameInv, RequestByteArrives
  PROVE  FrameInv'
<1> DEFINE c == content[pos + 1]
<1>k. kind = "request" /\ fault = "none" /\ Pump(c) /\ kind # "frame"
  BY DEF RequestByteArrives
<1>r. RequestSync /\ content \in Requests /\ pos \in 0 .. 5
  BY <1>k DEF FrameInv, RequestSync
<1>c. c \in Byte /\ content \in Seq(Byte)
  BY <1>r, RequestContent
<1>w. clean' => clean /\ c # FRAME_HEADER
  BY Zenon DEF RequestByteArrives
<1>x. sent' = sent /\ sum' = sum /\ hit' = hit /\ insync' = insync /\ msgs' = msgs /\ errs' = errs
  BY DEF RequestByteArrives
<1> HIDE DEF c
<1>n. /\ ParserOK(fsm') /\ OverrunNeedsBadLength' /\ OneFaultOneFrame'
      /\ clean' => fsm'.s = "S_HEAD"
      /\ fsm' \in Fsm /\ fw' \in Fw /\ answered' \in BOOLEAN
      /\ fault' \in {"none", "data", "table"} /\ got' \in Seq(Seq(Byte))
      /\ fault' = "none" => Len(fsm'.data) <= FRAME_DATA_MAX_LEN
  BY <1>k, <1>c, <1>w, <1>x, NoiseInv
<1>e. /\ pos = 5 => kind' = "none" /\ pos' = 0 /\ content' = << >>
      /\ pos # 5 => pos' = pos + 1 /\ kind' = kind /\ content' = content
  BY DEF RequestByteArrives
<1>1. FrameTypeOK'
  <2>1. clean' \in BOOLEAN
    BY Zenon DEF RequestByteArrives
  <2>2. content' \in Seq(Byte) /\ pos' \in Nat /\ kind' \in {"none", "frame", "request"}
    <3>1. content' = << >> \/ content' = content
      BY <1>e
    <3>2. content' \in Seq(Byte)
      BY <3>1, <1>c, EmptyIn, Zenon
    <3>3. pos' \in Nat /\ kind' \in {"none", "frame", "request"}
      BY <1>e, <1>r, <1>k
    <3> QED
      BY <3>2, <3>3
  <2>3. insync' \in BOOLEAN
    BY <1>x, Zenon DEF FrameInv, FrameTypeOK
  <2>4. sum' \in Byte /\ sent' \in Seq(Seq(Byte)) /\ hit' \in Nat /\ msgs' \in Nat /\ errs' \in Nat
    BY <1>x DEF FrameInv, FrameTypeOK
  <2> QED
    BY <2>1, <2>2, <2>3, <2>4, <1>n DEF FrameTypeOK
<1>2. kind' # "frame"
  BY <1>e, <1>k
<1>3. kind' = "request" => RequestSync'
  <2>1. SUFFICES ASSUME pos # 5 PROVE RequestSync'
    BY <1>e
  <2>2. pos' = pos + 1 /\ content' = content
    BY <2>1, <1>e
  <2>3. content' \in Requests /\ pos' \in 0 .. 5
    BY <2>1, <2>2, <1>r
  <2>4. ASSUME clean', insync'
        PROVE  /\ pos' = 0 => fw'.s \in {"S_FW_HEAD_1", "S_FW_HEAD_2"}
               /\ pos' = 1 => fw'.s = "S_FW_HEAD_2"
               /\ pos' = 2 => fw'.s = "S_FW_LEN"
               /\ pos' = 3 => fw'.s = "S_FW_INDEX"
               /\ pos' = 4 => fw'.s = "S_FW_MODE" /\ fw'.index = content'[4]
               /\ pos' = 5 => /\ fw'.s = "S_FW_CMD" /\ fw'.index = content'[4]
                              /\ fw'.mode = content'[5]
    <3>1. clean /\ c # FRAME_HEADER
      BY <2>4, <1>w
    <3>2. insync
      BY <2>4, <1>x, Zenon
    <3>3. fsm.s = "S_HEAD" /\ ParserOK(fsm)
      BY <3>1, <1>k DEF FrameInv
    <3>4. fw' = FwStep(fw, c)
      BY <3>1, <3>3, <1>k, <1>c, NoiseStep
    <3>5. /\ pos = 0 => fw'.s = "S_FW_HEAD_2"
          /\ pos = 1 => fw'.s = "S_FW_LEN"
          /\ pos = 2 => fw'.s = "S_FW_INDEX"
          /\ pos = 3 => fw'.s = "S_FW_MODE" /\ fw'.index = content[4]
          /\ pos = 4 => /\ fw'.s = "S_FW_CMD" /\ fw'.index = content[4]
                        /\ fw'.mode = content[5]
      BY <3>1, <3>2, <3>4, <1>r, FwFollows DEF c, FrameInv, FrameTypeOK
    <3> QED
      BY <3>5, <2>2, <1>r
  <2> QED
    BY <2>3, <2>4 DEF RequestSync
<1> QED
  BY <1>1, <1>2, <1>3, <1>n DEF FrameInv

------------------------------------------------------------------------------
LEMMA InitInv == Init => FrameInv
<1> SUFFICES ASSUME Init PROVE FrameInv
  OBVIOUS
<1>r. Radix \in Nat \ {0} /\ 0 \in Byte
  BY ByteAssumption DEF Byte
<1>z. 0 \in 0 .. Radix * Radix - 1
  <2>1. 0 + 0 * Radix \in 0 .. Radix * Radix - 1
    BY <1>r, TwoBytes DEF Byte
  <2> QED
    BY <2>1, <1>r
<1>1. fsm \in Fsm /\ fsm.s = "S_HEAD" /\ fsm.data = << >>
  BY <1>r, <1>z DEF Init, Fsm
<1>2. fw \in Fw
  BY <1>r DEF Init, Fw, FwIdle
<1>3. answered \in BOOLEAN /\ clean \in BOOLEAN /\ insync \in BOOLEAN
  BY Zenon DEF Init
<1>4. FrameTypeOK
  BY <1>1, <1>2, <1>3, <1>r, TableAssumption DEF Init, FrameTypeOK
<1>5. ParserOK(fsm)
  BY <1>1 DEF ParserOK
<1> QED
  BY <1>1, <1>4, <1>5 DEF Init, FrameInv, OverrunNeedsBadLength, OneFaultOneFrame

LEMMA NextInv == FrameInv /\ [Next]_vars => FrameInv'
<1> SUFFICES ASSUME FrameInv, [Next]_vars PROVE FrameInv'
  OBVIOUS
<1>1. CASE BeginFrame
  <2>1. PICK c \in Contents :
          /\ content' = c
          /\ clean' = (clean /\ Len(c) <= FRAME_DATA_MAX_LEN /\ c[1] # PROTOCOL_NUM)
    BY <1>1, Zenon DEF BeginFrame
  <2>2. /\ kind = "none" /\ fault = "none" /\ kind' = "frame"
        /\ pos' = 0 /\ sum' = 0 /\ hit' = 0 /\ msgs' = msgs + 1
        /\ fsm' = fsm /\ fw' = fw /\ fault' = fault /\ got' = got /\ sent' = sent
        /\ errs' = errs
    BY <1>1 DEF BeginFrame
  <2>3. answered' = answered /\ insync' = insync
    BY <1>1, Zenon DEF BeginFrame
  <2>4. clean' \in BOOLEAN
    BY <2>1, Zenon
  <2>5. clean' => clean /\ Len(content') <= FRAME_DATA_MAX_LEN /\ content'[1] # PROTOCOL_NUM
    BY <2>1, Zenon
  <2>6. content' \in Contents /\ content' \in Seq(Byte) /\ Len(content') \in Nat \ {0}
    BY <2>1, ContentsAssumption
  <2>7. answered' \in BOOLEAN /\ insync' \in BOOLEAN
    BY <2>3, Zenon DEF FrameInv, FrameTypeOK
  <2>8. 0 \in Byte
    BY ByteAssumption DEF Byte
  <2>9. FrameTypeOK'
    BY <2>2, <2>4, <2>6, <2>7, <2>8 DEF FrameInv, FrameTypeOK
  <2>10. ParserOK(fsm') /\ OverrunNeedsBadLength' /\ OneFaultOneFrame'
    BY <2>2, <2>5 DEF FrameInv, OverrunNeedsBadLength, OneFaultOneFrame
  <2>11. ASSUME clean' PROVE FrameSync'
    <3>1. fsm'.s = "S_HEAD"
      BY <2>11, <2>5, <2>2 DEF FrameInv
    <3>2. InStep(fsm, pos, sum)'
      BY <3>1, <2>2, <2>6 DEF InStep
    <3> QED
      BY <3>2, <2>2, <2>5, <2>6, <2>11 DEF FrameSync
  <2> QED
    BY <2>2, <2>6, <2>9, <2>10, <2>11 DEF FrameInv
<1>2. CASE FrameByteArrives
  <2>1. kind = "frame" /\ FrameSends(FrameByte, FrameByte) /\ errs' = errs
    BY <1>2 DEF FrameByteArrives, FrameSends
  <2>2. FrameByte \in Byte /\ errs' \in Nat
    BY <2>1, FrameByteIs DEF FrameInv, FrameTypeOK
  <2> QED
    BY <2>1, <2>2, FrameSendsStep
<1>3. CASE FrameByteAltered
  <2>1. PICK c \in Byte \ {FrameByte} : FrameSends(FrameByte, c)
    BY <1>3 DEF FrameByteAltered
  <2>2. errs' \in Nat
    BY <1>3 DEF FrameByteAltered, FrameInv, FrameTypeOK
  <2> QED
    BY <2>1, <2>2, FrameSendsStep
<1>4. CASE BeginRequest
  <2>2. /\ kind = "none" /\ fault = "none" /\ kind' = "request" /\ content' \in Requests
        /\ pos' = 0 /\ sum' = sum /\ hit' = hit /\ msgs' = msgs + 1
        /\ fsm' = fsm /\ fw' = fw /\ fault' = fault /\ got' = got /\ sent' = sent
        /\ errs' = errs
    BY <1>4 DEF BeginRequest
  <2>3. answered' = answered /\ clean' = clean
    BY <1>4, Zenon DEF BeginRequest
  <2>1. insync' = (fw.s \in {"S_FW_HEAD_1", "S_FW_HEAD_2"})
    BY <1>4, Zenon DEF BeginRequest
  <2> DEFINE waits == fw.s \in {"S_FW_HEAD_1", "S_FW_HEAD_2"}
  <2>w. waits \in BOOLEAN
    OBVIOUS
  <2> HIDE DEF waits
  <2>v. insync' = waits
    BY <2>1 DEF waits
  <2>u. insync' \in BOOLEAN /\ (insync' => waits)
    BY <2>v, <2>w, Zenon
  <2>4. insync' \in BOOLEAN /\ (insync' => fw.s \in {"S_FW_HEAD_1", "S_FW_HEAD_2"})
    BY <2>u DEF waits
  <2>5. answered' \in BOOLEAN /\ clean' \in BOOLEAN
    BY <2>3, Zenon DEF FrameInv, FrameTypeOK
  <2>6. content' \in Seq(Byte)
    BY <2>2, RequestsAssumption
  <2>7. FrameTypeOK'
    BY <2>2, <2>4, <2>5, <2>6 DEF FrameInv, FrameTypeOK
  <2>8. ParserOK(fsm') /\ OverrunNeedsBadLength'
    BY <2>2 DEF FrameInv, OverrunNeedsBadLength
  <2>9. OneFaultOneFrame' /\ (clean' => fsm'.s = "S_HEAD")
    <3>1. clean' => clean
      BY <2>3, Zenon
    <3> QED
      BY <3>1, <2>2 DEF FrameInv, OneFaultOneFrame
  <2>10. RequestSync'
    BY <2>2, <2>4 DEF RequestSync
  <2> QED
    BY <2>2, <2>7, <2>8, <2>9, <2>10 DEF FrameInv
<1>5. CASE RequestByteArrives
  BY <1>5, RequestStep
<1>6. CASE ByteLost
  <2>1. /\ kind = "frame" /\ fault = "none" /\ errs' = errs + 1
        /\ fsm' = fsm /\ fw' = fw /\ fault' = fault /\ got' = got /\ sent' = sent
        /\ hit' = hit /\ msgs' = msgs
    BY <1>6 DEF ByteLost
  <2>2. answered' = answered /\ insync' = insync /\ clean' = FALSE
    BY <1>6, Zenon DEF ByteLost
  <2>3. answered' \in BOOLEAN /\ insync' \in BOOLEAN /\ clean' \in BOOLEAN /\ ~ clean'
    BY <2>2, Zenon DEF FrameInv, FrameTypeOK
  <2>4. content \in Contents /\ content \in Seq(Byte) /\ Len(content) \in Nat
        /\ pos \in 0 .. Len(content) + 5 /\ sum \in Byte
    BY <2>1, ContentFacts DEF FrameInv, FrameTypeOK
  <2>5. sum' \in Byte
    <3>1. FrameByte \in Byte
      BY <2>4, FrameByteIs
    <3>2. Add(sum, FrameByte) \in Byte
      BY <3>1, <2>4, AddByte
    <3> QED
      BY <3>2, <2>4, <1>6 DEF ByteLost
  <2>6. \/ kind' = "none" /\ pos' = 0 /\ content' = << >>
        \/ pos # Len(content) + 5 /\ pos' = pos + 1 /\ kind' = kind /\ content' = content
    <3>1. pos + 1 = FrameLen <=> pos = Len(content) + 5
      BY <2>4 DEF FrameLen
    <3> QED
      BY <3>1, <1>6 DEF ByteLost
  <2>7. content' \in Seq(Byte) /\ pos' \in Nat /\ kind' \in {"none", "frame"}
    <3>1. content' = << >> \/ content' = content
      BY <2>6
    <3>2. content' \in Seq(Byte)
      BY <3>1, <2>4, EmptyIn, Zenon
    <3> QED
      BY <3>2, <2>1, <2>4, <2>6
  <2>8. kind' = "frame" => content' \in Contents /\ pos' \in 0 .. Len(content') + 5
    BY <2>4, <2>6
  <2>9. FrameTypeOK'
    BY <2>1, <2>3, <2>5, <2>7 DEF FrameInv, FrameTypeOK
  <2>10. ParserOK(fsm') /\ OverrunNeedsBadLength'
    BY <2>1 DEF FrameInv, OverrunNeedsBadLength
  <2> QED
    BY <2>3, <2>7, <2>8, <2>9, <2>10 DEF FrameInv, OneFaultOneFrame
<1>7. CASE StrayByte
  <2>1. PICK c \in Byte : Pump(c) /\ clean' = (clean /\ c # FRAME_HEADER)
    BY <1>7, Zenon DEF StrayByte
  <2>2. /\ kind = "none" /\ fault = "none" /\ errs' = errs + 1
        /\ kind' = kind /\ content' = content /\ pos' = pos /\ sum' = sum
        /\ sent' = sent /\ hit' = hit /\ msgs' = msgs
    BY <1>7 DEF StrayByte, hostVars
  <2>3. insync' = insync
    BY <1>7, Zenon DEF StrayByte, hostVars
  <2>4. clean' \in BOOLEAN /\ (clean' => clean /\ c # FRAME_HEADER)
    BY <2>1, Zenon
  <2>5. insync' \in BOOLEAN
    BY <2>3, Zenon DEF FrameInv, FrameTypeOK
  <2>6. kind # "frame" /\ kind' # "frame" /\ kind' # "request"
    BY <2>2
  <2>7. /\ ParserOK(fsm') /\ OverrunNeedsBadLength' /\ OneFaultOneFrame'
        /\ clean' => fsm'.s = "S_HEAD"
        /\ fsm' \in Fsm /\ fw' \in Fw /\ answered' \in BOOLEAN
        /\ fault' \in {"none", "data", "table"} /\ got' \in Seq(Seq(Byte))
        /\ fault' = "none" => Len(fsm'.data) <= FRAME_DATA_MAX_LEN
    BY <2>1, <2>2, <2>4, <2>6, NoiseInv
  <2>8. FrameTypeOK'
    BY <2>2, <2>4, <2>5, <2>7 DEF FrameInv, FrameTypeOK
  <2> QED
    BY <2>6, <2>7, <2>8 DEF FrameInv
<1>8. CASE UNCHANGED vars
  <2>1. /\ fsm' = fsm /\ fw' = fw /\ answered' = answered /\ fault' = fault /\ got' = got
        /\ kind' = kind /\ content' = content /\ pos' = pos /\ sum' = sum /\ sent' = sent
        /\ hit' = hit /\ insync' = insync /\ msgs' = msgs /\ clean' = clean /\ errs' = errs
    BY <1>8, Zenon DEF vars, hostVars
  <2>2. FrameTypeOK'
    BY <2>1, Zenon DEF FrameInv, FrameTypeOK
  <2>3. ParserOK(fsm') /\ OverrunNeedsBadLength' /\ OneFaultOneFrame'
    BY <2>1, Zenon DEF FrameInv, OverrunNeedsBadLength, OneFaultOneFrame
  <2>4. FrameSync => FrameSync'
    BY <2>1 DEF FrameSync, InStep, Harmed, Holds, HeadCheckByte, LenLow, LenHigh
  <2>5. RequestSync => RequestSync'
    BY <2>1, Zenon DEF RequestSync
  <2> QED
    BY <2>1, <2>2, <2>3, <2>4, <2>5, Zenon DEF FrameInv
<1> QED
  BY <1>1, <1>2, <1>3, <1>4, <1>5, <1>6, <1>7, <1>8 DEF Next

\* The invariant of the two parsers.
THEOREM FrameInvariant == Spec => []FrameInv
<1>1. Init => FrameInv
  BY InitInv
<1>2. FrameInv /\ [Next]_vars => FrameInv'
  BY NextInv
<1> QED
  BY <1>1, <1>2, PTL DEF Spec

\* The two parsers and the frame on the line keep their types, whatever bytes
\* come in, and until a fault the data buffer holds at most its size
\* (FrameTypeOK).
THEOREM FrameTypes == Spec => []FrameTypeOK
<1>1. FrameInv => FrameTypeOK
  BY DEF FrameInv
<1> QED
  BY <1>1, FrameInvariant, PTL

\* For every radix, buffer, content and number of faults: a frame with one
\* altered byte is dropped and costs no other frame (codey_comm_protocol_pump_char).
THEOREM FrameOneFaultOneFrame == Spec => []OneFaultOneFrame
<1>1. FrameInv => OneFaultOneFrame
  BY DEF FrameInv
<1> QED
  BY <1>1, FrameInvariant, PTL

\* The data buffer is overrun by no frame whose length lies between 1 and its
\* size, whatever bytes come in (case S_DATA of codey_comm_protocol_pump_char).
THEOREM FrameOverrunNeedsBadLength == Spec => []OverrunNeedsBadLength
<1>1. FrameInv => OverrunNeedsBadLength
  BY DEF FrameInv
<1> QED
  BY <1>1, FrameInvariant, PTL

\* A request of the FF 55 protocol in sync is answered at its last byte when
\* the table has its command and, for the name of the channel, its index is
\* below COMM_CHN_NUM, and is not answered otherwise
\* (codey_ff_55_protocol_pump_char, codey_fw_read_commu_chn).
THEOREM FrameRequestAnswered == Spec => RequestAnswered
<1>1. ASSUME FrameInv, [Next]_vars,
             kind = "request", kind' = "none", insync, clean
      PROVE  answered' <=> Answerable(content)
  <2>1. RequestByteArrives
    BY <1>1 DEF Next, vars, hostVars, BeginFrame, FrameByteArrives, FrameByteAltered,
                FrameSends, BeginRequest, ByteLost, StrayByte
  <2>2. RequestSync /\ fsm.s = "S_HEAD"
    BY <1>1 DEF FrameInv
  <2>3. pos = 5
    <3>1. pos # 5 => kind' = kind
      BY <2>1 DEF RequestByteArrives
    <3> QED
      BY <3>1, <1>1
  <2>4. fw.s = "S_FW_CMD" /\ fw.index = content[4] /\ fw.mode = content[5]
    BY <2>2, <2>3, <1>1 DEF RequestSync
  <2>5. content[pos + 1] = content[6]
    BY <2>3
  <2>6. FwAnswers(fw, content[pos + 1]) <=> Answerable(content)
    BY ONLY <2>4, <2>5 DEF FwAnswers, Answerable
  <2>7. ~ Delivers(fsm, content[pos + 1])
    BY <2>2 DEF Delivers
  <2>8. Pump(content[pos + 1])
    BY <2>1 DEF RequestByteArrives
  <2>9. answered' = FwAnswers(fw, content[pos + 1])
    BY <2>7, <2>8, Zenon DEF Pump
  <2> QED
    BY <2>6, <2>9, Zenon
<1> QED
  BY <1>1, FrameInvariant, PTL DEF Spec, RequestAnswered
==============================================================================
