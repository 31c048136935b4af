-------------------------- MODULE NeuronsFtpProofs --------------------------
(***************************************************************************)
(* Proofs about codey_neurons_ftp.c, for every buffer size, every set of   *)
(* files and blocks and every failure of the storage: the check sum, its   *)
(* loop, the invariant of the file transfer service and the refinement of  *)
(* the abstract transfer.                                                  *)
(***************************************************************************)
EXTENDS NeuronsFtp, CheckSumLoop, FiniteSetTheorems, SequenceTheorems, TLAPS

-----------------------------------------------------------------------------
(***************************************************************************)
(* The check sum of a file may be accumulated flush by flush, provided     *)
(* that every flush but the last is of whole words.                        *)
(***************************************************************************)

(***************************************************************************)
(* The ones of a sequence are finitely many.                               *)
(***************************************************************************)
LEMMA OnesFinite ==
  ASSUME NEW s \in Seq(Byte), NEW l, NEW b
  PROVE  IsFiniteSet(Ones(s, l, b)) /\ Cardinality(Ones(s, l, b)) \in Nat
<1>1. Len(s) \in Int
  OBVIOUS
<1>2. IsFiniteSet(1..Len(s))
  BY <1>1, FS_Interval
<1>3. Ones(s, l, b) \in SUBSET (1..Len(s))
  BY DEF Ones
<1> QED BY <1>2, <1>3, FS_Subset, FS_CardinalityType

(***************************************************************************)
(* Behind whole words the bytes of t keep their lanes: the ones of s \o t  *)
(* are those of s and those of t, moved by the length of s.                *)
(***************************************************************************)
LEMMA OnesConcat ==
  ASSUME NEW s \in Seq(Byte), NEW t \in Seq(Byte), Len(s) % 4 = 0,
         NEW l \in Lanes, NEW b
  PROVE  Cardinality(Ones(s \o t, l, b))
           = Cardinality(Ones(s, l, b)) + Cardinality(Ones(t, l, b))
<1> DEFINE n == Len(s)
           S == Ones(s, l, b)
           T == Ones(t, l, b)
           M == {i \in (n + 1)..(n + Len(t)) :
                   (i + 3) % 4 = l /\ b \in (s \o t)[i]}
           f == [i \in T |-> i + n]
<1>1. n \in Nat /\ Len(t) \in Nat /\ n % 4 = 0
  OBVIOUS
<1>2. /\ Len(s \o t) = n + Len(t)
      /\ \A i \in 1..n : (s \o t)[i] = s[i]
      /\ \A i \in 1..Len(t) : (s \o t)[i + n] = t[i]
  OBVIOUS
<1>3. Ones(s \o t, l, b) = S \cup M
  BY <1>1, <1>2 DEF Ones
<1>4. S \cap M = {}
  BY <1>1 DEF Ones
<1>5. \A i \in Nat : (i + n + 3) % 4 = (i + 3) % 4
  BY <1>1
<1>6. f \in Bijection(T, M)
  <2>1. \A i \in T : i + n \in M
    BY <1>1, <1>2, <1>5 DEF Ones
  <2>2. ASSUME NEW j \in M PROVE j - n \in T /\ f[j - n] = j
    <3>0. j \in (n + 1)..(n + Len(t)) /\ b \in (s \o t)[j] /\ (j + 3) % 4 = l
      OBVIOUS
    <3>1. j \in Nat /\ j - n \in 1..Len(t) /\ (j - n) + n = j
      BY <3>0, <1>1
    <3>2. b \in t[j - n]
      BY <3>0, <3>1, <1>2
    <3>3. ((j - n) + 3) % 4 = l
      BY <3>0, <3>1, <1>1, <1>5
    <3> QED BY <3>1, <3>2, <3>3 DEF Ones
  <2>3. \A i, j \in T : f[i] = f[j] => i = j
    BY <1>1 DEF Ones
  <2>4. f \in [T -> M]
    BY <2>1
  <2> HIDE DEF T, M, f
  <2> QED BY <2>2, <2>3, <2>4
          DEF Bijection, Injection, Surjection, IsInjective
<1>7. ExistsBijection(T, M)
  BY <1>6 DEF ExistsBijection
<1>8. IsFiniteSet(M) /\ Cardinality(M) = Cardinality(T)
  BY <1>7, OnesFinite, FS_Bijection
<1>9. Cardinality(S \cup M)
        = Cardinality(S) + Cardinality(M) - Cardinality(S \cap M)
  BY <1>8, OnesFinite, FS_Union
<1>10. Cardinality(S) \in Nat /\ Cardinality(T) \in Nat
  BY OnesFinite
<1>11. Cardinality(S \cap M) = 0
  BY <1>4, FS_EmptySet
<1> HIDE DEF M
<1> QED BY <1>3, <1>8, <1>9, <1>10, <1>11

(***************************************************************************)
(* calc_check_sum returns a word.                                          *)
(***************************************************************************)
LEMMA CheckSumType ==
  ASSUME NEW s PROVE calc_check_sum(s) \in Word
BY DEF calc_check_sum, Word, Byte

LEMMA XorType ==
  ASSUME NEW v \in Word, NEW w \in Word
  PROVE  Xor(v, w) \in Word
BY DEF Xor, Word, Byte

(***************************************************************************)
(* The check sum of the empty buffer is zero, and zero is neutral.         *)
(***************************************************************************)
LEMMA CheckSumEmpty == calc_check_sum(<<>>) = ZeroWord
<1>1. \A l, b : Ones(<<>>, l, b) = {}
  BY DEF Ones
<1>2. \A l, b : Cardinality(Ones(<<>>, l, b)) = 0
  BY <1>1, FS_EmptySet
<1> QED BY <1>2 DEF calc_check_sum, ZeroWord

LEMMA XorZero == \A w \in Word : Xor(w, ZeroWord) = w
BY DEF Xor, Word, ZeroWord

(***************************************************************************)
(* The accumulation write_buffer_to_flash relies on:                       *)
(*   file_calc_check_sum ^= calc_check_sum(flash_write_buf, have_been_wb). *)
(***************************************************************************)
THEOREM CheckSumConcat ==
  ASSUME NEW s \in Seq(Byte), NEW t \in Seq(Byte), Len(s) % 4 = 0
  PROVE  calc_check_sum(s \o t) = Xor(calc_check_sum(s), calc_check_sum(t))
<1> DEFINE A(l, b) == Cardinality(Ones(s, l, b))
           B(l, b) == Cardinality(Ones(t, l, b))
           odd(n)  == n % 2 = 1
<1>1. \A l \in Lanes, b \in Bits :
        /\ A(l, b) \in Nat /\ B(l, b) \in Nat
        /\ Cardinality(Ones(s \o t, l, b)) = A(l, b) + B(l, b)
  BY OnesFinite, OnesConcat
<1>2. \A m, n \in Nat : odd(m + n) <=> (odd(m) /\ ~ odd(n)) \/ (odd(n) /\ ~ odd(m))
  OBVIOUS
<1>3. \A l \in Lanes, b \in Bits :
        odd(Cardinality(Ones(s \o t, l, b)))
          <=> (odd(A(l, b)) /\ ~ odd(B(l, b))) \/ (odd(B(l, b)) /\ ~ odd(A(l, b)))
  BY <1>1, <1>2
<1> HIDE DEF A, B, odd
<1>4. \A l \in Lanes :
        {b \in Bits : odd(Cardinality(Ones(s \o t, l, b)))}
          = ({b \in Bits : odd(A(l, b))} \ {b \in Bits : odd(B(l, b))})
              \cup ({b \in Bits : odd(B(l, b))} \ {b \in Bits : odd(A(l, b))})
  BY <1>3
<1> QED BY <1>4 DEF calc_check_sum, Xor, A, B, odd
-----------------------------------------------------------------------------
(***************************************************************************)
(* The loop of calc_check_sum.                                             *)
(***************************************************************************)

(***************************************************************************)
(* The check sum of at most four bytes is those bytes, padded with zeros.  *)
(***************************************************************************)
LEMMA ShortCheckSum ==
  ASSUME NEW s \in Seq(Byte), Len(s) <= 4
  PROVE  calc_check_sum(s)
           = [l \in Lanes |-> IF l < Len(s) THEN s[l + 1] ELSE {}]
<1>1. ASSUME NEW l \in Lanes, NEW b \in Bits
      PROVE  Ones(s, l, b) = IF l < Len(s) /\ b \in s[l + 1]
                             THEN {l + 1} ELSE {}
  <2>0. Len(s) \in Nat
    OBVIOUS
  <2>1. Len(s) \in 0..4 /\ l \in 0..3
    <3>1. \A m \in Nat : m <= 4 => m \in 0..4
      OBVIOUS
    <3> QED BY <2>0, <3>1 DEF Lanes
  <2>2. \A i \in 1..Len(s) : (i + 3) % 4 = l <=> i = l + 1
    BY <2>1
  <2>3. l < Len(s) <=> l + 1 \in 1..Len(s)
    BY <2>1
  <2> QED BY <2>2, <2>3 DEF Ones
<1>2. ASSUME NEW l \in Lanes, NEW b \in Bits
      PROVE  Cardinality(Ones(s, l, b)) % 2 = 1
               <=> l < Len(s) /\ b \in s[l + 1]
  <2>1. CASE l < Len(s) /\ b \in s[l + 1]
    <3>1. Cardinality(Ones(s, l, b)) = 1
      BY <1>1, <2>1, FS_Singleton
    <3> QED BY <2>1, <3>1
  <2>2. CASE ~ (l < Len(s) /\ b \in s[l + 1])
    <3>1. Cardinality(Ones(s, l, b)) = 0
      BY <1>1, <2>2, FS_EmptySet
    <3> QED BY <2>2, <3>1
  <2> QED BY <2>1, <2>2
<1>3. ASSUME NEW l \in Lanes
      PROVE  {b \in Bits : Cardinality(Ones(s, l, b)) % 2 = 1}
               = IF l < Len(s) THEN s[l + 1] ELSE {}
  <2>1. {b \in Bits : Cardinality(Ones(s, l, b)) % 2 = 1}
          = {b \in Bits : l < Len(s) /\ b \in s[l + 1]}
    BY <1>2
  <2>2. l < Len(s) => s[l + 1] \subseteq Bits
    <3>1. l < Len(s) => l + 1 \in 1..Len(s)
      BY DEF Lanes
    <3> QED BY <3>1 DEF Byte
  <2> QED BY <2>1, <2>2
<1> QED BY <1>3 DEF calc_check_sum

(***************************************************************************)
(* One round: the word at a multiple of four extends the check sum of the  *)
(* bytes before it to the bytes up to its end, n of them.                  *)
(***************************************************************************)
LEMMA RoundSums ==
  ASSUME LoopInv, pc = "loop",
         NEW n \in 1..4, idx + n <= Len(buf), n < 4 => idx + n = Len(buf)
  PROVE  /\ WordAt(idx) \in Word
         /\ Xor(oxr_check, WordAt(idx)) = calc_check_sum(SubSeq(buf, 1, idx + n))
<1> DEFINE s == SubSeq(buf, 1, idx)
           t == SubSeq(buf, idx + 1, idx + n)
<1>1. /\ buf \in Seq(Byte) /\ idx \in Nat /\ Len(buf) \in Nat
      /\ idx % 4 = 0 /\ idx + n <= Len(buf)
      /\ oxr_check = calc_check_sum(s)
  BY DEF LoopInv, LoopTypeOK, PrefixSummed
<1>2. /\ s \in Seq(Byte) /\ Len(s) = idx
      /\ \A i \in 1..idx : s[i] = buf[i]
  <2>1. \A i \in 1..idx : buf[i] \in Byte
    BY <1>1
  <2> QED BY <1>1, <2>1, SubSeqProperties
<1>3. /\ t \in Seq(Byte) /\ Len(t) = n
      /\ \A i \in 1..n : t[i] = buf[idx + i]
  <2>1. \A i \in (idx + 1)..(idx + n) : buf[i] \in Byte
    BY <1>1
  <2> QED BY <1>1, <2>1, SubSeqProperties
<1>4. s \o t = SubSeq(buf, 1, idx + n)
  <2>1. \A i \in 1..(idx + n) : buf[i] \in Byte
    BY <1>1
  <2>2. /\ SubSeq(buf, 1, idx + n) \in Seq(Byte)
        /\ Len(SubSeq(buf, 1, idx + n)) = idx + n
        /\ \A i \in 1..(idx + n) : SubSeq(buf, 1, idx + n)[i] = buf[i]
    BY <1>1, <2>1, SubSeqProperties
  <2>3. /\ s \o t \in Seq(Byte) /\ Len(s \o t) = idx + n
        /\ \A i \in 1..(idx + n) :
             (s \o t)[i] = IF i <= idx THEN s[i] ELSE t[i - idx]
    BY <1>1, <1>2, <1>3, ConcatProperties
  <2>4. \A i \in 1..(idx + n) : (s \o t)[i] = buf[i]
    <3> TAKE i \in 1..(idx + n)
    <3>1. CASE i <= idx
      BY <3>1, <1>1, <1>2, <2>3
    <3>2. CASE ~ (i <= idx)
      <4>1. i - idx \in 1..n /\ idx + (i - idx) = i
        BY <3>2, <1>1
      <4> QED BY <4>1, <3>2, <1>3, <2>3
    <3> QED BY <3>1, <3>2
  <2> QED BY <2>2, <2>3, <2>4, SeqEqual
<1>5. WordAt(idx) = calc_check_sum(t)
  <2>1. calc_check_sum(t) = [l \in Lanes |-> IF l < n THEN t[l + 1] ELSE {}]
    <3> HIDE DEF t
    <3>1. Len(t) = n /\ Len(t) <= 4
      BY <1>3
    <3>2. calc_check_sum(t)
            = [l \in Lanes |-> IF l < Len(t) THEN t[l + 1] ELSE {}]
      BY <1>3, <3>1, ShortCheckSum
    <3> QED BY <3>1, <3>2
  <2>2. ASSUME NEW l \in Lanes
        PROVE  (IF l < n THEN t[l + 1] ELSE {})
                 = IF idx + l < Len(buf) THEN buf[idx + l + 1] ELSE {}
    <3>1. l \in 0..3 /\ n \in 1..4
      BY DEF Lanes
    <3>2. l < n <=> idx + l < Len(buf)
      BY <3>1, <1>1
    <3>3. l < n => t[l + 1] = buf[idx + l + 1]
      <4>1. l < n => l + 1 \in 1..n /\ idx + (l + 1) = idx + l + 1
        BY <3>1, <1>1
      <4> QED BY <4>1, <1>3
    <3> QED BY <3>2, <3>3
  <2> QED BY <2>1, <2>2 DEF WordAt
<1> HIDE DEF s, t
<1>6. calc_check_sum(s \o t) = Xor(calc_check_sum(s), calc_check_sum(t))
  BY <1>1, <1>2, <1>3, CheckSumConcat
<1> QED BY <1>1, <1>4, <1>5, <1>6, CheckSumType

LEMMA LoopInitInv == LoopInit => LoopInv
<1> SUFFICES ASSUME LoopInit PROVE LoopInv
  OBVIOUS
<1>1. buf \in Seq(Byte) /\ idx = 0 /\ oxr_check = ZeroWord /\ pc = "loop"
  BY BufsAssumption DEF LoopInit
<1>2. SubSeq(buf, 1, 0) = <<>>
  BY <1>1, SubSeqEmpty
<1>3. ZeroWord \in Word
  BY DEF ZeroWord, Word, Byte
<1>4. Len(buf) \in Nat
  BY <1>1
<1>5. PrefixSummed
  <2>1. calc_check_sum(SubSeq(buf, 1, idx)) = ZeroWord
    BY <1>1, <1>2, CheckSumEmpty
  <2>2. idx % 4 = 0 /\ idx <= Len(buf)
    BY <1>1, <1>4
  <2> QED BY <1>1, <2>1, <2>2 DEF PrefixSummed
<1> QED BY <1>1, <1>3, <1>5
        DEF LoopInv, LoopTypeOK, ReturnsCheckSum

LEMMA LoopStepInv == LoopInv /\ [LoopNext]_loopVars => LoopInv'
<1> SUFFICES ASSUME LoopInv, [LoopNext]_loopVars PROVE LoopInv'
  OBVIOUS
<1> USE DEF LoopInv, LoopTypeOK, PrefixSummed, ReturnsCheckSum
<1>1. CASE WholeWord
  <2>1. /\ pc = "loop" /\ idx + 4 <= Len(buf) /\ buf' = buf /\ pc' = pc
        /\ idx' = idx + 4 /\ oxr_check' = Xor(oxr_check, WordAt(idx))
    BY <1>1 DEF WholeWord
  <2>2. /\ WordAt(idx) \in Word
        /\ oxr_check' = calc_check_sum(SubSeq(buf, 1, idx + 4))
    BY <2>1, RoundSums
  <2>3. oxr_check' \in Word
    BY <2>2, CheckSumType
  <2>4. (idx + 4) % 4 = 0 /\ idx + 4 \in Nat
    BY <2>1
  <2> QED BY <2>1, <2>2, <2>3, <2>4
<1>2. CASE ShortWord
  <2>1. /\ pc = "loop" /\ idx < Len(buf) /\ idx + 4 > Len(buf)
        /\ buf' = buf /\ pc' = "return" /\ idx' = idx
        /\ oxr_check' = Xor(oxr_check, WordAt(idx))
    BY <1>2 DEF ShortWord
  <2>2. PICK n \in 1..3 : idx + n = Len(buf)
    <3>1. Len(buf) \in Nat /\ idx \in Nat /\ Len(buf) - idx \in 1..3
      BY <2>1
    <3> QED BY <3>1
  <2>3. oxr_check' = calc_check_sum(SubSeq(buf, 1, Len(buf)))
    <3>1. n \in 1..4 /\ idx + n <= Len(buf)
      BY <2>1, <2>2
    <3> QED BY <2>1, <2>2, <3>1, RoundSums
  <2>4. SubSeq(buf, 1, Len(buf)) = buf
    BY SubSeqFull
  <2>5. oxr_check' \in Word
    BY <2>3, CheckSumType
  <2> QED BY <2>1, <2>3, <2>4, <2>5
<1>3. CASE LoopEnds
  <2>1. /\ pc = "loop" /\ idx >= Len(buf) /\ pc' = "return"
        /\ buf' = buf /\ idx' = idx /\ oxr_check' = oxr_check
    BY <1>3 DEF LoopEnds
  <2>2. Len(buf) \in Nat /\ idx = Len(buf)
    BY <2>1
  <2>3. SubSeq(buf, 1, idx) = buf
    BY <2>2, SubSeqFull
  <2> QED BY <2>1, <2>3
<1>4. CASE UNCHANGED loopVars
  BY <1>4 DEF loopVars
<1> QED BY <1>1, <1>2, <1>3, <1>4 DEF LoopNext

(***************************************************************************)
(* Whatever the buffer and its length, calc_check_sum returns the xor of   *)
(* the buffer's words, the last one padded with zeros.                     *)
(***************************************************************************)
THEOREM LoopComputesCheckSum == LoopSpec => []ReturnsCheckSum
<1>1. LoopInv => ReturnsCheckSum
  BY DEF LoopInv
<1> QED BY <1>1, LoopInitInv, LoopStepInv, PTL DEF LoopSpec
-----------------------------------------------------------------------------
(***************************************************************************)
(* The invariant of the file transfer service.                             *)
(***************************************************************************)

(***************************************************************************)
(* A write at the end of the file appends.                                 *)
(***************************************************************************)
LEMMA WriteAppends ==
  ASSUME NEW c \in Seq(Byte), NEW s \in Seq(Byte)
  PROVE  WriteAt(c, Len(c), s) = c \o s
<1>1. SubSeq(c, 1, Len(c)) = c
  BY SubSeqFull
<1>2. SubSeq(c, Len(c) + Len(s) + 1, Len(c)) = <<>>
  BY SubSeqEmpty
<1>3. c \o s \in Seq(Byte)
  BY ConcatProperties
<1> QED BY <1>1, <1>2, <1>3, ConcatEmptySeq DEF WriteAt

(***************************************************************************)
(* The buffer is the bytes a flush writes followed by those it leaves.     *)
(***************************************************************************)
LEMMA Split ==
  ASSUME NEW s \in Seq(Byte), NEW k \in 0..Len(s)
  PROVE  /\ SubSeq(s, 1, k) \in Seq(Byte)
         /\ Len(SubSeq(s, 1, k)) = k
         /\ SubSeq(s, k + 1, Len(s)) \in Seq(Byte)
         /\ Len(SubSeq(s, k + 1, Len(s))) = Len(s) - k
         /\ SubSeq(s, 1, k) \o SubSeq(s, k + 1, Len(s)) = s
<1>1. /\ SubSeq(s, 1, k) \in Seq(Byte) /\ Len(SubSeq(s, 1, k)) = k
      /\ SubSeq(s, k + 1, Len(s)) \in Seq(Byte)
      /\ Len(SubSeq(s, k + 1, Len(s))) = Len(s) - k
  <2>1. \A i \in 1..k : s[i] \in Byte
    OBVIOUS
  <2>2. \A i \in (k + 1)..Len(s) : s[i] \in Byte
    OBVIOUS
  <2> QED BY <2>1, <2>2, SubSeqProperties
<1>2. SubSeq(s, 1, k) \o SubSeq(s, k + 1, Len(s)) = SubSeq(s, 1, Len(s))
  <2>1. /\ 1 \in 1..(Len(s) + 1)
        /\ k \in (1 - 1)..Len(s)
        /\ Len(s) \in k..Len(s)
    OBVIOUS
  <2> QED BY <2>1, ConcatAdjacentSubSeq
<1> QED BY <1>1, <1>2, SubSeqFull

(***************************************************************************)
(* What the outcomes of a write are.                                       *)
(***************************************************************************)
LEMMA WritesOutcome ==
  ASSUME NEW total \in Nat, NEW w \in Writes(total)
  PROVE  w.ok \in BOOLEAN /\ w.wb \in 0..total /\ (w.ok => w.wb = total)
<1>1. CASE w \in [ok : {TRUE}, wb : {total}]
  <2>1. w.ok = TRUE /\ w.wb = total
    BY <1>1
  <2>2. total \in 0..total
    OBVIOUS
  <2> QED BY <2>1, <2>2
<1>2. CASE w \in [ok : {FALSE}, wb : {0} \cup 0..(total - 1)]
  <2>1. w.ok = FALSE /\ w.wb \in {0} \cup 0..(total - 1)
    BY <1>2
  <2>2. {0} \cup 0..(total - 1) \subseteq 0..total
    OBVIOUS
  <2> QED BY <2>1, <2>2
<1> QED BY <1>1, <1>2 DEF Writes

(***************************************************************************)
(* Rounding down to whole words.                                           *)
(***************************************************************************)
LEMMA WholeWordsRounds ==
  ASSUME NEW n \in Nat
  PROVE  WholeWords(n) \in 0..n /\ WholeWords(n) % 4 = 0
BY DEF WholeWords

LEMMA MakeRoomOutcome ==
  ASSUME NEW fi \in FileInfo, NEW d, NEW w \in MakeRoom(fi, d)
  PROVE  /\ w.ok \in BOOLEAN
         /\ w.wb \in 0..Len(fi.flash_write_buf)
         /\ w.ok => w.wb % 4 = 0
<1>1. PICK n \in Nat : n = Len(fi.flash_write_buf)
  BY DEF FileInfo
<1>2. CASE w \in [ok : {TRUE}, wb : {0}]
  <2>1. w.ok = TRUE /\ w.wb = 0
    BY <1>2
  <2>2. 0 \in 0..n /\ 0 % 4 = 0
    BY <1>1
  <2> QED BY <1>1, <2>1, <2>2
<1>3. CASE w \in Writes(WholeWords(n))
  <2>1. WholeWords(n) \in 0..n /\ WholeWords(n) % 4 = 0
    BY <1>1, WholeWordsRounds
  <2>2. w.ok \in BOOLEAN /\ w.wb \in 0..WholeWords(n)
        /\ (w.ok => w.wb = WholeWords(n))
    BY <2>1, <1>3, WritesOutcome
  <2>3. w.wb \in 0..n
    BY <2>1, <2>2, <1>1
  <2> QED BY <1>1, <2>1, <2>2, <2>3
<1> QED BY <1>1, <1>2, <1>3 DEF MakeRoom

LEMMA LastWriteOutcome ==
  ASSUME NEW b \in Seq(Byte),
         NEW v \in IF b = <<>> THEN [ok : {TRUE}, wb : {0}]
                              ELSE Writes(Len(b))
  PROVE  v.ok \in BOOLEAN /\ v.wb \in 0..Len(b) /\ (v.ok => v.wb = Len(b))
<1>1. Len(b) \in Nat
  OBVIOUS
<1>2. CASE b = <<>>
  <2>1. v \in [ok : {TRUE}, wb : {0}]
    BY <1>2
  <2>2. v.ok = TRUE /\ v.wb = 0
    BY <2>1
  <2>3. Len(b) = 0 /\ 0 \in 0..0
    BY <1>2, EmptySeq
  <2> QED BY <2>2, <2>3
<1>3. CASE b # <<>>
  BY <1>1, <1>3, WritesOutcome
<1> QED BY <1>2, <1>3

(***************************************************************************)
(* The state of an open file, as a predicate on the record and the disk.   *)
(***************************************************************************)
OpenFile(fi, dk) ==
  /\ fi \in FileInfo
  /\ dk \in [Names -> Seq(Byte)]
  /\ fi.file_name \in Names
  /\ fi.file_write_idx = Len(dk[fi.file_name])
  /\ fi.file_write_idx % 4 = 0
  /\ fi.file_calc_check_sum = calc_check_sum(dk[fi.file_name])

(***************************************************************************)
(* Any write leaves on flash the old content followed by a prefix of the   *)
(* buffer.                                                                 *)
(***************************************************************************)
LEMMA DiskAfterWrite ==
  ASSUME NEW fi, NEW dk, OpenFile(fi, dk),
         NEW w, w.wb \in 0..Len(fi.flash_write_buf)
  PROVE  /\ DiskWritten(dk, fi, w)
              = [dk EXCEPT ![fi.file_name] =
                   dk[fi.file_name] \o SubSeq(fi.flash_write_buf, 1, w.wb)]
         /\ DiskWritten(dk, fi, w) \in [Names -> Seq(Byte)]
<1> DEFINE c == dk[fi.file_name]
           done == SubSeq(fi.flash_write_buf, 1, w.wb)
<1>1. c \in Seq(Byte) /\ fi.flash_write_buf \in Seq(Byte)
  BY DEF OpenFile, FileInfo
<1>2. done \in Seq(Byte)
  BY <1>1, Split
<1>3. WriteAt(c, fi.file_write_idx, done) = c \o done
  BY <1>1, <1>2, WriteAppends DEF OpenFile
<1>4. c \o done \in Seq(Byte)
  BY <1>1, <1>2, ConcatProperties
<1>5. dk \in [Names -> Seq(Byte)] /\ fi.file_name \in Names
  BY DEF OpenFile
<1> QED BY <1>3, <1>4, <1>5 DEF DiskWritten

(***************************************************************************)
(* A complete write moves bytes from the buffer to the flash: together     *)
(* they hold what they held.  The running sum follows.                     *)
(***************************************************************************)
LEMMA CompleteWrite ==
  ASSUME NEW fi, NEW dk, OpenFile(fi, dk),
         NEW w, w.wb \in 0..Len(fi.flash_write_buf), w.ok
  PROVE  LET wr == Written(fi, w)
             dw == DiskWritten(dk, fi, w)
             n  == fi.file_name
         IN /\ wr \in FileInfo
            /\ wr.file_name = n
            /\ wr.is_file_open = fi.is_file_open
            /\ wr.file_size = fi.file_size
            /\ wr.file_check_sum = fi.file_check_sum
            /\ wr.file_write_idx = Len(dw[n])
            /\ wr.file_calc_check_sum = calc_check_sum(dw[n])
            /\ Len(wr.flash_write_buf) = Len(fi.flash_write_buf) - w.wb
            /\ dw[n] \o wr.flash_write_buf = dk[n] \o fi.flash_write_buf
            /\ wr.file_write_idx + Len(wr.flash_write_buf)
                 = fi.file_write_idx + Len(fi.flash_write_buf)
            /\ wr.file_write_idx = fi.file_write_idx + w.wb
<1> DEFINE n == fi.file_name
           c == dk[n]
           b == fi.flash_write_buf
           done == SubSeq(b, 1, w.wb)
           rest == SubSeq(b, w.wb + 1, Len(b))
           wr == Written(fi, w)
           dw == DiskWritten(dk, fi, w)
<1>1. /\ n \in Names /\ c \in Seq(Byte) /\ b \in Seq(Byte)
      /\ fi.file_write_idx \in Nat /\ fi.file_calc_check_sum \in Word
      /\ dk \in [Names -> Seq(Byte)] /\ fi \in FileInfo
  BY DEF OpenFile, FileInfo
<1>2. /\ done \in Seq(Byte) /\ Len(done) = w.wb
      /\ rest \in Seq(Byte) /\ Len(rest) = Len(b) - w.wb
      /\ done \o rest = b
  BY <1>1, Split
<1>3. dw[n] = c \o done
  <2>1. dw = [dk EXCEPT ![n] = c \o done]
    BY DiskAfterWrite
  <2> QED BY <2>1, <1>1
<1>4. wr = [fi EXCEPT !.file_write_idx = fi.file_write_idx + w.wb,
                      !.flash_write_buf = rest,
                      !.file_calc_check_sum =
                         Xor(fi.file_calc_check_sum, calc_check_sum(done))]
  BY DEF Written
<1>5. calc_check_sum(c \o done)
        = Xor(fi.file_calc_check_sum, calc_check_sum(done))
  <2>1. Len(c) % 4 = 0 /\ fi.file_calc_check_sum = calc_check_sum(c)
    BY DEF OpenFile
  <2>2. c \in Seq(Byte) /\ done \in Seq(Byte)
    BY <1>1, <1>2
  <2> HIDE DEF c, done
  <2> QED BY <2>1, <2>2, CheckSumConcat
<1>6. Xor(fi.file_calc_check_sum, calc_check_sum(done)) \in Word
  BY <1>1, CheckSumType, XorType
<1>7. Len(c \o done) = Len(c) + w.wb
  BY <1>1, <1>2, ConcatProperties
<1>8. (c \o done) \o rest = c \o b
  <2>1. c \in Seq(Byte) /\ done \in Seq(Byte) /\ rest \in Seq(Byte)
    BY <1>1, <1>2
  <2> HIDE DEF c, done, rest, b
  <2>2. (c \o done) \o rest = c \o (done \o rest)
    BY <2>1, ConcatAssociative
  <2> QED BY <2>2, <1>2
<1>9. fi.file_write_idx + w.wb \in Nat /\ Len(b) \in Nat /\ w.wb \in Nat
  BY <1>1
<1>10. fi.file_write_idx = Len(c)
  BY DEF OpenFile
<1>11. wr \in FileInfo
  BY <1>1, <1>2, <1>4, <1>6, <1>9 DEF FileInfo
<1>12. /\ wr.file_name = n
       /\ wr.is_file_open = fi.is_file_open
       /\ wr.file_size = fi.file_size
       /\ wr.file_check_sum = fi.file_check_sum
       /\ wr.file_write_idx = fi.file_write_idx + w.wb
       /\ wr.flash_write_buf = rest
       /\ wr.file_calc_check_sum
            = Xor(fi.file_calc_check_sum, calc_check_sum(done))
  BY <1>1, <1>4 DEF FileInfo
<1> HIDE DEF wr, dw, done, rest, c, b, n
<1>13. wr.file_write_idx + Len(wr.flash_write_buf)
         = fi.file_write_idx + Len(b)
  BY <1>1, <1>2, <1>9, <1>12
<1> USE DEF n
<1>14. /\ wr.file_write_idx = Len(dw[n])
       /\ wr.file_calc_check_sum = calc_check_sum(dw[n])
       /\ Len(wr.flash_write_buf) = Len(b) - w.wb
       /\ dw[n] \o wr.flash_write_buf = c \o b
  BY <1>2, <1>3, <1>5, <1>7, <1>8, <1>10, <1>12
<1> QED BY <1>11, <1>12, <1>13, <1>14 DEF wr, dw, c, b
-----------------------------------------------------------------------------
(***************************************************************************)
(* The invariant says of an open file what OpenFile says.                  *)
(***************************************************************************)
LEMMA InvOpen ==
  ASSUME FtpInv, file_info.is_file_open
  PROVE  OpenFile(file_info, disk)
BY DEF FtpInv, TypeOK, WriteIndexAtEnd, RunningCheckSum, BufferBounded,
       Content, OpenFile

(***************************************************************************)
(* Appending a block to the buffer changes nothing else of the record.     *)
(***************************************************************************)
LEMMA BufferedRecord ==
  ASSUME NEW fi \in FileInfo, NEW d \in Seq(Byte)
  PROVE  LET bf == Buffered(fi, d)
         IN /\ bf \in FileInfo
            /\ bf.flash_write_buf = fi.flash_write_buf \o d
            /\ Len(bf.flash_write_buf) = Len(fi.flash_write_buf) + Len(d)
            /\ bf.is_file_open = fi.is_file_open
            /\ bf.file_name = fi.file_name
            /\ bf.file_size = fi.file_size
            /\ bf.file_check_sum = fi.file_check_sum
            /\ bf.file_calc_check_sum = fi.file_calc_check_sum
            /\ bf.file_write_idx = fi.file_write_idx
<1>1. fi.flash_write_buf \o d \in Seq(Byte)
  BY ConcatProperties DEF FileInfo
<1>2. Len(fi.flash_write_buf \o d) = Len(fi.flash_write_buf) + Len(d)
  BY ConcatProperties DEF FileInfo
<1> QED BY <1>1, <1>2 DEF Buffered, FileInfo

LEMMA NoFileType == NoFile \in FileInfo
BY DEF NoFile, FileInfo, ZeroWord, Word, Byte

(***************************************************************************)
(* Once the record is cleared, the invariant only asks the types.          *)
(***************************************************************************)
LEMMA ClearedInv ==
  ASSUME file_info' = NoFile,
         (disk \in [Names -> Seq(Byte)])',
         (rx_file_name \in Names \cup {NoName, READY})',
         (get_rx_file_name \in BOOLEAN)',
         (rsp \in {"none", "OK", "ERR"})',
         (notified \in Names \cup {NoName, READY})'
  PROVE  FtpInv'
<1>1. ~ NoFile.is_file_open /\ Len(NoFile.flash_write_buf) = 0
  BY DEF NoFile
<1>2. 0 <= BufSize
  BY FtpAssumption
<1> QED BY <1>1, <1>2, NoFileType
        DEF FtpInv, TypeOK, WriteIndexAtEnd, RunningCheckSum, BufferBounded,
            EmptyBufferEmptyFile

(***************************************************************************)
(* The block buffered after the room was made: the record still describes  *)
(* the open file, and nothing was lost.                                    *)
(***************************************************************************)
LEMMA BlockStored ==
  ASSUME FtpInv, file_info.is_file_open, NEW d \in Seq(Byte),
         NEW w \in MakeRoom(file_info, d), w.ok,
         Room(Written(file_info, w), d)
  PROVE  LET fi == Buffered(Written(file_info, w), d)
             dk == DiskWritten(disk, file_info, w)
             n  == file_info.file_name
         IN /\ OpenFile(fi, dk)
            /\ fi.is_file_open
            /\ fi.file_name = n
            /\ fi.file_size = file_info.file_size
            /\ fi.file_check_sum = file_info.file_check_sum
            /\ Len(fi.flash_write_buf) <= BufSize
            /\ dk[n] \o fi.flash_write_buf
                 = (disk[n] \o file_info.flash_write_buf) \o d
            /\ fi.file_write_idx + Len(fi.flash_write_buf)
                 = Len((disk[n] \o file_info.flash_write_buf) \o d)
            /\ fi.flash_write_buf = <<>> => fi.file_write_idx = 0
<1> DEFINE wr == Written(file_info, w)
           fi == Buffered(wr, d)
           dk == DiskWritten(disk, file_info, w)
           n  == file_info.file_name
           c  == disk[n]
           b  == file_info.flash_write_buf
<1>1. OpenFile(file_info, disk)
  BY InvOpen
<1>2. d \in Seq(Byte)
  OBVIOUS
<1>3. w.wb \in 0..Len(b) /\ w.wb % 4 = 0
  BY <1>1, MakeRoomOutcome DEF OpenFile
<1>4. /\ wr \in FileInfo
      /\ wr.file_name = n
      /\ wr.is_file_open = file_info.is_file_open
      /\ wr.file_size = file_info.file_size
      /\ wr.file_check_sum = file_info.file_check_sum
      /\ wr.file_write_idx = Len(dk[n])
      /\ wr.file_calc_check_sum = calc_check_sum(dk[n])
      /\ dk[n] \o wr.flash_write_buf = c \o b
      /\ Len(wr.flash_write_buf) = Len(b) - w.wb
      /\ wr.file_write_idx = file_info.file_write_idx + w.wb
  BY <1>1, <1>3, CompleteWrite
<1>5. dk \in [Names -> Seq(Byte)]
  BY <1>1, <1>3, DiskAfterWrite
<1>6. /\ fi \in FileInfo
      /\ fi.flash_write_buf = wr.flash_write_buf \o d
      /\ Len(fi.flash_write_buf) = Len(wr.flash_write_buf) + Len(d)
      /\ fi.is_file_open = wr.is_file_open
      /\ fi.file_name = wr.file_name
      /\ fi.file_size = wr.file_size
      /\ fi.file_check_sum = wr.file_check_sum
      /\ fi.file_calc_check_sum = wr.file_calc_check_sum
      /\ fi.file_write_idx = wr.file_write_idx
  BY <1>2, <1>4, BufferedRecord
<1>7. Len(fi.flash_write_buf) <= BufSize
  BY <1>6 DEF Room
<1>8. /\ n \in Names /\ file_info.file_write_idx \in Nat
      /\ file_info.file_write_idx % 4 = 0
  BY <1>1 DEF OpenFile, FileInfo
<1>9. (file_info.file_write_idx + w.wb) % 4 = 0
  BY <1>3, <1>8
<1>10. dk[n] \in Seq(Byte) /\ wr.flash_write_buf \in Seq(Byte)
  BY <1>4, <1>5, <1>8 DEF FileInfo
<1>15. fi.flash_write_buf = <<>> => fi.file_write_idx = 0
  <2> SUFFICES ASSUME fi.flash_write_buf = <<>> PROVE fi.file_write_idx = 0
    OBVIOUS
  <2>1. Len(b) \in Nat /\ Len(d) \in Nat /\ Len(b) <= BufSize
    BY <1>1, <1>2 DEF FtpInv, BufferBounded, OpenFile, FileInfo
  <2>2. Len(b) - w.wb = 0 /\ Len(d) = 0
    <3>1. Len(fi.flash_write_buf) = 0
      BY EmptySeq
    <3> HIDE DEF b, fi, wr
    <3> QED BY <3>1, <1>3, <1>4, <1>6, <2>1
  <2>3. Room(file_info, d)
    BY <2>1, <2>2, FtpAssumption DEF Room
  <2>4. w \in [ok : {TRUE}, wb : {0}]
    BY <2>3 DEF MakeRoom
  <2>5. w.wb = 0
    BY <2>4
  <2>6. b = <<>>
    <3>1. b \in Seq(Byte) /\ Len(b) = 0
      BY <1>1, <2>1, <2>2, <2>5 DEF OpenFile, FileInfo
    <3> QED BY <3>1, EmptySeq
  <2>7. file_info.file_write_idx = 0
    BY <2>6 DEF FtpInv, EmptyBufferEmptyFile
  <2> HIDE DEF fi, wr
  <2> QED BY <2>5, <2>7, <1>4, <1>6
<1> HIDE DEF wr, fi, dk, n, c, b
<1>11. OpenFile(fi, dk)
  BY <1>4, <1>5, <1>6, <1>8, <1>9 DEF OpenFile
<1>12. dk[n] \o fi.flash_write_buf = (c \o b) \o d
  <2>1. dk[n] \o (wr.flash_write_buf \o d) = (dk[n] \o wr.flash_write_buf) \o d
    <3> DEFINE p == dk[n]
               q == wr.flash_write_buf
    <3>1. p \in Seq(Byte) /\ q \in Seq(Byte) /\ d \in Seq(Byte)
      BY <1>2, <1>10
    <3> HIDE DEF p, q
    <3>2. p \o (q \o d) = (p \o q) \o d
      BY <3>1, ConcatAssociative
    <3> QED BY <3>2 DEF p, q
  <2> QED BY <2>1, <1>4, <1>6
<1>13. fi.file_write_idx + Len(fi.flash_write_buf) = Len((c \o b) \o d)
  <2>1. fi.flash_write_buf \in Seq(Byte)
    BY <1>6 DEF FileInfo
  <2>2. Len(dk[n] \o fi.flash_write_buf)
          = Len(dk[n]) + Len(fi.flash_write_buf)
    BY <1>10, <2>1, ConcatProperties
  <2> QED BY <2>2, <1>4, <1>6, <1>12
<1>14. fi.is_file_open
  BY <1>4, <1>6
<1> QED BY <1>4, <1>6, <1>7, <1>11, <1>12, <1>13, <1>14, <1>15
        DEF wr, fi, dk, n, c, b
-----------------------------------------------------------------------------
LEMMA FtpInitInv == Init => FtpInv
<1> SUFFICES ASSUME Init PROVE FtpInv
  OBVIOUS
<1>1. <<>> \in Seq(Byte)
  BY EmptySeq
<1>2. disk \in [Names -> Seq(Byte)]
  BY <1>1 DEF Init
<1>3. ~ NoFile.is_file_open /\ Len(NoFile.flash_write_buf) = 0
  BY DEF NoFile
<1>4. TypeOK
  BY <1>2, NoFileType DEF Init, TypeOK
<1>5. file_info = NoFile
  BY DEF Init
<1> QED BY <1>3, <1>4, <1>5, FtpAssumption
        DEF FtpInv, WriteIndexAtEnd, RunningCheckSum, BufferBounded,
            EmptyBufferEmptyFile

(***************************************************************************)
(* The names the mailbox may hold.                                         *)
(***************************************************************************)
LEMMA RecordedName ==
  ASSUME NEW n \in Names, RecordName(n)
  PROVE  (rx_file_name \in Names \cup {NoName, READY})'
BY DEF RecordName

(***************************************************************************)
(* Each command preserves the invariant, whatever its arguments.           *)
(***************************************************************************)
LEMMA HeadOkInv ==
  ASSUME FtpInv, NEW n \in Names, NEW size \in Nat, NEW sum \in Word,
         HeadOk(n, size, sum)
  PROVE  FtpInv'
<1>0. TypeOK
  BY DEF FtpInv
<1> DEFINE hd == [NoFile EXCEPT !.is_file_open = TRUE, !.file_name = n,
                                !.file_size = size, !.file_check_sum = sum]
<1>2. /\ hd \in FileInfo
      /\ hd.file_name = n /\ hd.is_file_open /\ hd.file_write_idx = 0
      /\ hd.file_calc_check_sum = ZeroWord /\ hd.flash_write_buf = <<>>
  BY NoFileType DEF NoFile, FileInfo
<1>3. file_info' = hd /\ disk' = [disk EXCEPT ![n] = <<>>]
  BY DEF HeadOk
<1>4. <<>> \in Seq(Byte) /\ Len(<<>>) = 0
  BY EmptySeq
<1>5. disk' \in [Names -> Seq(Byte)] /\ disk'[n] = <<>>
  BY <1>3, <1>4, <1>0 DEF TypeOK
<1>6. 0 % 4 = 0 /\ 0 <= BufSize
  BY FtpAssumption
<1>7. TypeOK'
  BY <1>2, <1>3, <1>5, <1>0 DEF TypeOK, HeadOk
<1> HIDE DEF hd
<1> QED BY <1>2, <1>3, <1>4, <1>5, <1>6, <1>7, CheckSumEmpty
        DEF FtpInv, WriteIndexAtEnd, RunningCheckSum, BufferBounded, Content,
            EmptyBufferEmptyFile

LEMMA FailInv ==
  ASSUME FtpInv, HeadFail \/ Refuse
  PROVE  FtpInv'
BY ClearedInv DEF HeadFail, Refuse, Fail, FtpInv, TypeOK

LEMMA BlockMoreInv ==
  ASSUME FtpInv, NEW d \in Seq(Byte), BlockMore(d)
  PROVE  FtpInv'
<1>0. TypeOK
  BY DEF FtpInv
<1>1. PICK w \in MakeRoom(file_info, d) :
        /\ w.ok
        /\ Room(Written(file_info, w), d)
        /\ file_info' = Buffered(Written(file_info, w), d)
        /\ disk' = DiskWritten(disk, file_info, w)
  BY DEF BlockMore
<1>2. file_info.is_file_open
  BY DEF BlockMore
<1>3. /\ OpenFile(file_info', disk')
      /\ file_info'.is_file_open
      /\ Len(file_info'.flash_write_buf) <= BufSize
      /\ file_info'.flash_write_buf = <<>> => file_info'.file_write_idx = 0
  BY <1>1, <1>2, BlockStored
<1>4. TypeOK'
  BY <1>3, <1>0 DEF TypeOK, OpenFile, BlockMore
<1> QED BY <1>3, <1>4
        DEF FtpInv, WriteIndexAtEnd, RunningCheckSum, BufferBounded,
            Content, OpenFile, EmptyBufferEmptyFile

LEMMA BlockFailInv ==
  ASSUME FtpInv, NEW d \in Seq(Byte), BlockFail(d)
  PROVE  FtpInv'
<1>0. TypeOK
  BY DEF FtpInv
<1>1. PICK w \in MakeRoom(file_info, d) :
        disk' = DiskWritten(disk, file_info, w)
  BY DEF BlockFail
<1>2. OpenFile(file_info, disk)
  BY InvOpen DEF BlockFail
<1>3. w.wb \in 0..Len(file_info.flash_write_buf)
  BY <1>0, MakeRoomOutcome DEF TypeOK
<1>4. disk' \in [Names -> Seq(Byte)]
  BY <1>1, <1>2, <1>3, DiskAfterWrite
<1> QED BY <1>4, <1>0, ClearedInv DEF BlockFail, Fail, TypeOK

LEMMA BlockLastInv ==
  ASSUME FtpInv, NEW d \in Seq(Byte), BlockLast(d)
  PROVE  FtpInv'
<1>0. TypeOK
  BY DEF FtpInv
<1>1. file_info.is_file_open
  BY DEF BlockLast
<1>2. PICK w \in MakeRoom(file_info, d) :
        LET fi == Buffered(Written(file_info, w), d)
        IN /\ w.ok
           /\ Room(Written(file_info, w), d)
           /\ \E v \in IF fi.flash_write_buf = <<>>
                       THEN [ok : {TRUE}, wb : {0}]
                       ELSE Writes(Len(fi.flash_write_buf)) :
                /\ disk' = DiskWritten(DiskWritten(disk, file_info, w), fi, v)
                /\ Finish(fi.file_name,
                          LastStatus(fi, v.ok, Written(fi, v)))
  BY DEF BlockLast
<1> DEFINE fi == Buffered(Written(file_info, w), d)
           dk == DiskWritten(disk, file_info, w)
<1>3. OpenFile(fi, dk)
  BY <1>1, <1>2, BlockStored
<1>4. PICK v \in IF fi.flash_write_buf = <<>>
                 THEN [ok : {TRUE}, wb : {0}]
                 ELSE Writes(Len(fi.flash_write_buf)) :
        /\ disk' = DiskWritten(dk, fi, v)
        /\ Finish(fi.file_name, LastStatus(fi, v.ok, Written(fi, v)))
  BY <1>2
<1> HIDE DEF fi, dk
<1>5. v.wb \in 0..Len(fi.flash_write_buf)
  <2>1. fi.flash_write_buf \in Seq(Byte)
    BY <1>3 DEF OpenFile, FileInfo
  <2> QED BY <2>1, LastWriteOutcome
<1>6. disk' \in [Names -> Seq(Byte)]
  BY <1>3, <1>4, <1>5, DiskAfterWrite
<1>7. fi.file_name \in Names
  BY <1>3 DEF OpenFile
<1>8. RecordName(fi.file_name)
  BY <1>4 DEF Finish
<1>9. (rx_file_name \in Names \cup {NoName, READY})'
  BY <1>7, <1>8, RecordedName
<1>10. rsp' \in {"OK", "ERR"} /\ file_info' = NoFile
       /\ get_rx_file_name' = FALSE /\ notified' = notified
  BY <1>4 DEF Finish, LastStatus
<1> QED BY <1>6, <1>9, <1>10, <1>0, ClearedInv DEF TypeOK

LEMMA MailboxInv ==
  ASSUME FtpInv, GetRecvFileName
  PROVE  FtpInv'
BY DEF GetRecvFileName, FtpInv, TypeOK, WriteIndexAtEnd, RunningCheckSum,
       BufferBounded, Content, EmptyBufferEmptyFile

LEMMA UnchangedInv ==
  ASSUME FtpInv, UNCHANGED vars
  PROVE  FtpInv'
BY DEF vars, FtpInv, TypeOK, WriteIndexAtEnd, RunningCheckSum, BufferBounded,
       Content, EmptyBufferEmptyFile

(***************************************************************************)
(* A step of codey_neurons_ftp_parse preserves the invariant.              *)
(***************************************************************************)
LEMMA FtpStepInv == FtpInv /\ [Next]_vars => FtpInv'
<1> SUFFICES ASSUME FtpInv, [Next]_vars PROVE FtpInv'
  OBVIOUS
<1>1. ASSUME NEW n \in Names, NEW size \in Sizes, NEW sum \in Sums,
             HeadOk(n, size, sum)
      PROVE  FtpInv'
  BY <1>1, HeadOkInv, FtpAssumption
<1>2. CASE HeadFail \/ Refuse
  BY <1>2, FailInv
<1>3. ASSUME NEW d \in Blocks, BlockMore(d) \/ BlockFail(d) \/ BlockLast(d)
      PROVE  FtpInv'
  <2>1. d \in Seq(Byte)
    BY FtpAssumption
  <2> QED BY <2>1, <1>3, BlockMoreInv, BlockFailInv, BlockLastInv
<1>4. CASE GetRecvFileName
  BY <1>4, MailboxInv
<1>5. CASE PowerCycle
  <2>1. <<>> \in Seq(Byte)
    BY EmptySeq
  <2>2. disk' \in [Names -> Seq(Byte)]
    BY <1>5, <2>1 DEF PowerCycle, FtpInv, TypeOK
  <2> QED BY <2>2, <1>5, ClearedInv DEF PowerCycle
<1>6. CASE UNCHANGED vars
  BY <1>6, UnchangedInv
<1> QED BY <1>1, <1>2, <1>3, <1>4, <1>5, <1>6 DEF Next

(***************************************************************************)
(* The static data of codey_neurons_ftp_parse, its buffer, its write index *)
(* and its running check sum stay consistent with the file on flash,       *)
(* whatever the host sends and whatever the storage does.                  *)
(***************************************************************************)
THEOREM FtpInvariant == Spec => []FtpInv
BY FtpInitInv, FtpStepInv, PTL DEF Spec

(***************************************************************************)
(* The static data of codey_neurons_ftp_parse and the disk keep their      *)
(* types: check sums are words, the status code is one the protocol knows. *)
(***************************************************************************)
THEOREM FtpTypes == Spec => []TypeOK
<1>1. FtpInv => TypeOK
  BY DEF FtpInv
<1> QED BY <1>1, FtpInvariant, PTL

(***************************************************************************)
(* Every f_lseek of write_buffer_to_flash is to the end of the file, also  *)
(* after a write that stopped short.                                       *)
(***************************************************************************)
THEOREM FtpWriteIndexAtEnd == Spec => []WriteIndexAtEnd
<1>1. FtpInv => WriteIndexAtEnd
  BY DEF FtpInv
<1> QED BY <1>1, FtpInvariant, PTL

(***************************************************************************)
(* The sum that write_buffer_to_flash accumulates flush by flush is the    *)
(* check sum of the file on flash: it rests on CheckSumConcat and on every *)
(* flush but the last being of whole words.                                *)
(***************************************************************************)
THEOREM FtpRunningCheckSum == Spec => []RunningCheckSum
<1>1. FtpInv => RunningCheckSum
  BY DEF FtpInv
<1> QED BY <1>1, FtpInvariant, PTL

(***************************************************************************)
(* The memcpy of a block into the write buffer stays inside it for every   *)
(* block and buffer size, and a closed record is a cleared one.            *)
(***************************************************************************)
THEOREM FtpBufferBounded == Spec => []BufferBounded
<1>1. FtpInv => BufferBounded
  BY DEF FtpInv
<1> QED BY <1>1, FtpInvariant, PTL

(***************************************************************************)
(* The block that completes the file finds the buffer empty only when the  *)
(* file is empty, so no other file escapes the comparison of the check     *)
(* sum.                                                                    *)
(***************************************************************************)
THEOREM FtpEmptyBuffer == Spec => []EmptyBufferEmptyFile
<1>1. FtpInv => EmptyBufferEmptyFile
  BY DEF FtpInv
<1> QED BY <1>1, FtpInvariant, PTL
-----------------------------------------------------------------------------
(***************************************************************************)
(* The refinement that NeuronsFtp states as ImplementsFileTransfer.        *)
(***************************************************************************)

(***************************************************************************)
(* The bytes accepted: on flash, then in the buffer.                       *)
(***************************************************************************)
Received == IF file_info.is_file_open
            THEN Content \o file_info.flash_write_buf ELSE <<>>

LEMMA LessAfter ==
  ASSUME NEW x \in Nat, NEW y \in Nat, NEW z \in Nat, y < z
  PROVE  x + y < x + z
OBVIOUS

(***************************************************************************)
(* The old content and a prefix of the buffer are a prefix of both.        *)
(***************************************************************************)
LEMMA PrefixOfBoth ==
  ASSUME NEW c \in Seq(Byte), NEW b \in Seq(Byte), NEW k \in 0..Len(b)
  PROVE  /\ c \o SubSeq(b, 1, k) \in FT!Prefixes(c \o b)
         /\ Len(c \o SubSeq(b, 1, k)) = Len(c) + k
<1> DEFINE p == SubSeq(b, 1, k)
           m == Len(c) + k
<1>1. /\ p \in Seq(Byte) /\ Len(p) = k
      /\ \A i \in 1..k : p[i] = b[i]
  <2>1. \A i \in 1..k : b[i] \in Byte
    OBVIOUS
  <2> QED BY <2>1, Split, SubSeqProperties
<1>2. /\ c \o p \in Seq(Byte) /\ Len(c \o p) = m
      /\ \A i \in 1..m : (c \o p)[i] = IF i <= Len(c) THEN c[i]
                                                      ELSE p[i - Len(c)]
  BY <1>1, ConcatProperties
<1>3. /\ c \o b \in Seq(Byte) /\ Len(c \o b) = Len(c) + Len(b)
      /\ \A i \in 1..(Len(c) + Len(b)) :
           (c \o b)[i] = IF i <= Len(c) THEN c[i] ELSE b[i - Len(c)]
  BY ConcatProperties
<1>4. m \in 0..Len(c \o b)
  BY <1>3
<1> HIDE DEF m
<1>5. /\ SubSeq(c \o b, 1, m) \in Seq(Byte) /\ Len(SubSeq(c \o b, 1, m)) = m
      /\ \A i \in 1..m : SubSeq(c \o b, 1, m)[i] = (c \o b)[i]
  <2> DEFINE r == c \o b
  <2>1. r \in Seq(Byte) /\ m \in 0..Len(r)
    BY <1>3, <1>4
  <2> HIDE DEF r
  <2>2. \A i \in 1..m : r[i] \in Byte
    BY <2>1
  <2>3. /\ SubSeq(r, 1, m) \in Seq(Byte) /\ Len(SubSeq(r, 1, m)) = m
    BY <2>1, Split
  <2>4. \A i \in 1..m : SubSeq(r, 1, m)[i] = r[i]
    BY <2>1, <2>2, SubSeqProperties
  <2> QED BY <2>3, <2>4 DEF r
<1>6. \A i \in 1..m : (c \o p)[i] = SubSeq(c \o b, 1, m)[i]
  <2> TAKE i \in 1..m
  <2>1. Len(c) \in Nat /\ Len(b) \in Nat /\ i \in 1..(Len(c) + Len(b))
    BY <1>3 DEF m
  <2>2. CASE i <= Len(c)
    BY <2>1, <2>2, <1>2, <1>3, <1>5
  <2>3. CASE ~ (i <= Len(c))
    <3>1. i - Len(c) \in 1..k
      BY <2>1, <2>3 DEF m
    <3>2. p[i - Len(c)] = b[i - Len(c)]
      BY <3>1, <1>1
    <3> QED BY <3>2, <2>1, <2>3, <1>2, <1>3, <1>5
  <2> QED BY <2>2, <2>3
<1>7. c \o p = SubSeq(c \o b, 1, m)
  BY <1>2, <1>5, <1>6, SeqEqual
<1> QED BY <1>2, <1>4, <1>7 DEF FT!Prefixes, m

(***************************************************************************)
(* What the mapping is of a cleared record and of an open one.             *)
(***************************************************************************)
LEMMA MapClosed ==
  ASSUME FtpInv, ~ file_info.is_file_open
  PROVE  /\ file_info.file_name = NoName
         /\ Received = <<>>
         /\ [size |-> file_info.file_size, sum |-> file_info.file_check_sum]
              = FT!NoHead
<1>1. file_info = NoFile
  BY DEF FtpInv, BufferBounded
<1> QED BY <1>1
        DEF NoFile, Received, FT!NoHead

LEMMA MapOpen ==
  ASSUME FtpInv, file_info.is_file_open
  PROVE  /\ file_info.file_name \in Names
         /\ file_info.file_name # NoName
         /\ Content \in Seq(Byte)
         /\ file_info.flash_write_buf \in Seq(Byte)
         /\ Received = Content \o file_info.flash_write_buf
         /\ disk \in [Names -> Seq(Byte)]
BY InvOpen, FtpAssumption DEF OpenFile, FileInfo, Received, Content

(***************************************************************************)
(* After a flush of the first k bytes of the buffer, the file is a longer  *)
(* prefix of what was received.                                            *)
(***************************************************************************)
LEMMA FlushedPrefix ==
  ASSUME FtpInv, file_info.is_file_open,
         NEW k \in 0..Len(file_info.flash_write_buf)
  PROVE  /\ Content \o SubSeq(file_info.flash_write_buf, 1, k)
              \in FT!Prefixes(Received)
         /\ Len(Content \o SubSeq(file_info.flash_write_buf, 1, k))
              >= Len(Content)
<1> DEFINE c == Content
           b == file_info.flash_write_buf
<1>1. c \in Seq(Byte) /\ b \in Seq(Byte) /\ Received = c \o b
  BY MapOpen
<1>2. k \in 0..Len(b)
  OBVIOUS
<1> HIDE DEF c, b
<1>3. /\ c \o SubSeq(b, 1, k) \in FT!Prefixes(c \o b)
      /\ Len(c \o SubSeq(b, 1, k)) = Len(c) + k
  BY <1>1, <1>2, PrefixOfBoth
<1>4. Len(c) \in Nat /\ Len(b) \in Nat
  BY <1>1
<1>5. Len(c) + k >= Len(c)
  BY <1>2, <1>4
<1>6. /\ c \o SubSeq(b, 1, k) \in FT!Prefixes(Received)
      /\ Len(c \o SubSeq(b, 1, k)) >= Len(c)
  BY <1>1, <1>3, <1>5
<1> QED BY <1>6 DEF c, b

(***************************************************************************)
(* Clearing the record ends the abstract transfer.                         *)
(***************************************************************************)
LEMMA ClearedCloses ==
  ASSUME file_info' = NoFile
  PROVE  FT!Close
BY DEF FT!Close, NoFile, FT!NoHead

(***************************************************************************)
(* An error closes the file; what is on flash is a prefix of what was      *)
(* received, or nothing was being received.                                *)
(***************************************************************************)
LEMMA FailAborts ==
  ASSUME FtpInv, file_info' = NoFile, rsp' \in {"ERR", "none"},
         \/ ~ file_info.is_file_open /\ disk' = disk
         \/ /\ file_info.is_file_open
            /\ \E p \in FT!Prefixes(Received) :
                 disk' = [disk EXCEPT ![file_info.file_name] = p]
  PROVE  FT!Next
<1>1. CASE ~ file_info.is_file_open /\ disk' = disk
  <2>1. FT!Refuse
    BY <1>1, MapClosed, ClearedCloses
       DEF FT!Refuse, FT!Close, Received
  <2> QED BY <2>1 DEF FT!Next
<1>2. CASE /\ file_info.is_file_open
           /\ \E p \in FT!Prefixes(Received) :
                disk' = [disk EXCEPT ![file_info.file_name] = p]
  <2>1. FT!Abort
    BY <1>2, MapOpen, ClearedCloses DEF FT!Abort, Received
  <2> QED BY <2>1 DEF FT!Next
<1> QED BY <1>1, <1>2

(***************************************************************************)
(* A write that failed left something unwritten, if there was anything.    *)
(***************************************************************************)
LEMMA FailedWriteShort ==
  ASSUME NEW s \in Seq(Byte),
         NEW v \in IF s = <<>> THEN [ok : {TRUE}, wb : {0}]
                              ELSE Writes(Len(s)),
         ~ v.ok
  PROVE  v.wb < Len(s)
<1>1. s # <<>>
  OBVIOUS
<1>2. Len(s) \in Nat \ {0}
  BY <1>1, EmptySeq
<1>3. v \in [ok : {FALSE}, wb : {0} \cup 0..(Len(s) - 1)]
  BY <1>1 DEF Writes
<1>4. v.wb \in {0} \cup 0..(Len(s) - 1)
  BY <1>3
<1> QED BY <1>2, <1>4

(***************************************************************************)
(* A block that is not the last is accepted; one that fails gives the      *)
(* transfer up; the last one completes it, or, when the storage can fail,  *)
(* is lost.                                                                *)
(***************************************************************************)
LEMMA MoreAccepts ==
  ASSUME FtpInv, NEW d \in Seq(Byte), BlockMore(d)
  PROVE  FT!Accept(d)
<1> DEFINE n == file_info.file_name
           b == file_info.flash_write_buf
<1>1. file_info.is_file_open /\ rsp' = "OK"
  BY DEF BlockMore
<1>2. PICK w \in MakeRoom(file_info, d) :
        /\ w.ok
        /\ Room(Written(file_info, w), d)
        /\ ~ AtEof(Buffered(Written(file_info, w), d))
        /\ file_info' = Buffered(Written(file_info, w), d)
        /\ disk' = DiskWritten(disk, file_info, w)
  BY DEF BlockMore
<1>3. /\ file_info'.is_file_open
      /\ file_info'.file_name = n
      /\ file_info'.file_size = file_info.file_size
      /\ file_info'.file_check_sum = file_info.file_check_sum
      /\ disk'[n] \o file_info'.flash_write_buf = (Content \o b) \o d
      /\ file_info'.file_write_idx + Len(file_info'.flash_write_buf)
           = Len((Content \o b) \o d)
  BY <1>1, <1>2, BlockStored DEF Content
<1>4. Len((Content \o b) \o d) # file_info.file_size
  BY <1>2, <1>3 DEF AtEof
<1>5. w.wb \in 0..Len(b)
  BY MakeRoomOutcome DEF FtpInv, TypeOK
<1>6. disk' = [disk EXCEPT ![n] = Content \o SubSeq(b, 1, w.wb)]
  BY <1>1, <1>2, <1>5, InvOpen, DiskAfterWrite DEF Content
<1>7. /\ Content \o SubSeq(b, 1, w.wb) \in FT!Prefixes(Received)
      /\ Len(Content \o SubSeq(b, 1, w.wb)) >= Len(Content)
  BY <1>1, <1>5, FlushedPrefix
<1>8. Content' = disk'[n]
  BY <1>3 DEF Content
<1>9. FT!Accept(d)
  BY <1>1, <1>3, <1>4, <1>6, <1>7, <1>8, MapOpen
     DEF FT!Accept, Received, Content
<1> QED BY <1>9

LEMMA FailGivesUp ==
  ASSUME FtpInv, NEW d \in Seq(Byte), BlockFail(d)
  PROVE  FT!Next
<1> DEFINE n == file_info.file_name
           b == file_info.flash_write_buf
<1>1. /\ file_info.is_file_open
      /\ file_info' = NoFile /\ rsp' = "ERR"
  BY DEF BlockFail, Fail
<1>2. PICK w \in MakeRoom(file_info, d) :
        disk' = DiskWritten(disk, file_info, w)
  BY DEF BlockFail
<1>3. w.wb \in 0..Len(b)
  BY MakeRoomOutcome DEF FtpInv, TypeOK
<1>4. disk' = [disk EXCEPT ![n] = Content \o SubSeq(b, 1, w.wb)]
  BY <1>1, <1>2, <1>3, InvOpen, DiskAfterWrite DEF Content
<1>5. Content \o SubSeq(b, 1, w.wb) \in FT!Prefixes(Received)
  BY <1>1, <1>3, FlushedPrefix
<1> QED BY <1>1, <1>4, <1>5, FailAborts

LEMMA LastCompletes ==
  ASSUME FtpInv, NEW d \in Seq(Byte), BlockLast(d)
  PROVE  FT!Complete(d) \/ (StorageFaults /\ FT!LastWriteLost(d))
<1> DEFINE n == file_info.file_name
           b == file_info.flash_write_buf
<1>1. file_info.is_file_open
  BY DEF BlockLast
<1>2. PICK w \in MakeRoom(file_info, d) :
        LET fi == Buffered(Written(file_info, w), d)
        IN /\ w.ok
           /\ Room(Written(file_info, w), d)
           /\ AtEof(fi)
           /\ \E v \in IF fi.flash_write_buf = <<>>
                       THEN [ok : {TRUE}, wb : {0}]
                       ELSE Writes(Len(fi.flash_write_buf)) :
                /\ disk' = DiskWritten(DiskWritten(disk, file_info, w), fi, v)
                /\ Finish(fi.file_name,
                          LastStatus(fi, v.ok, Written(fi, v)))
  BY DEF BlockLast
<1> DEFINE fi == Buffered(Written(file_info, w), d)
           dk == DiskWritten(disk, file_info, w)
           R  == (Content \o b) \o d
<1>3. PICK v :
        /\ v \in IF fi.flash_write_buf = <<>>
                 THEN [ok : {TRUE}, wb : {0}]
                 ELSE Writes(Len(fi.flash_write_buf))
        /\ disk' = DiskWritten(dk, fi, v)
        /\ Finish(fi.file_name, LastStatus(fi, v.ok, Written(fi, v)))
  BY <1>2
<1>4. /\ OpenFile(fi, dk)
      /\ fi.file_name = n
      /\ fi.file_size = file_info.file_size
      /\ fi.file_check_sum = file_info.file_check_sum
      /\ dk[n] \o fi.flash_write_buf = R
      /\ fi.file_write_idx + Len(fi.flash_write_buf) = Len(R)
      /\ fi.flash_write_buf = <<>> => fi.file_write_idx = 0
  BY <1>1, <1>2, BlockStored DEF Content
<1>5. Len(R) = file_info.file_size
  BY <1>2, <1>4 DEF AtEof
<1>6. w.wb \in 0..Len(b)
  BY MakeRoomOutcome DEF FtpInv, TypeOK
<1>7. dk = [disk EXCEPT ![n] = Content \o SubSeq(b, 1, w.wb)]
  BY <1>1, <1>6, InvOpen, DiskAfterWrite DEF Content
<1> HIDE DEF fi, dk, R
<1>8. fi.flash_write_buf \in Seq(Byte) /\ dk[n] \in Seq(Byte)
  BY <1>4 DEF OpenFile, FileInfo
<1>9. /\ v.ok \in BOOLEAN /\ v.wb \in 0..Len(fi.flash_write_buf)
      /\ v.ok => v.wb = Len(fi.flash_write_buf)
  BY <1>3, <1>8, LastWriteOutcome
<1> DEFINE P == dk[n] \o SubSeq(fi.flash_write_buf, 1, v.wb)
<1>10. disk' = [dk EXCEPT ![n] = P]
  <2>1. DiskWritten(dk, fi, v)
          = [dk EXCEPT ![fi.file_name] =
               dk[fi.file_name] \o SubSeq(fi.flash_write_buf, 1, v.wb)]
    BY <1>4, <1>9, DiskAfterWrite
  <2> QED BY <2>1, <1>3, <1>4
<1>11. disk' = [disk EXCEPT ![n] = P]
  BY <1>7, <1>10
<1>12. file_info' = NoFile /\ rsp' = LastStatus(fi, v.ok, Written(fi, v))
  BY <1>3 DEF Finish
<1>13. FT!Close
  BY <1>12, ClearedCloses
<1>14. Received \o d = R /\ n # NoName
  BY <1>1, MapOpen DEF R, Received
<1>15. CASE v.ok
  <2>1. P = R
    <3>1. SubSeq(fi.flash_write_buf, 1, Len(fi.flash_write_buf))
            = fi.flash_write_buf
      BY <1>8, SubSeqFull
    <3> QED BY <3>1, <1>4, <1>9, <1>15
  <2>2. Written(fi, v).file_calc_check_sum = calc_check_sum(R)
    <3>1. Written(fi, v).file_calc_check_sum
            = calc_check_sum(DiskWritten(dk, fi, v)[n])
      <4>1. Written(fi, v).file_calc_check_sum
              = calc_check_sum(DiskWritten(dk, fi, v)[fi.file_name])
        <5> DEFINE x == Written(fi, v)
                   y == DiskWritten(dk, fi, v)
                   z == fi.file_name
        <5>1. v.wb \in 0..Len(fi.flash_write_buf) /\ v.ok
          BY <1>9, <1>15
        <5>2. x.file_calc_check_sum = calc_check_sum(y[z])
          <6> HIDE DEF n, b
          <6> QED BY ONLY <5>1, <1>4, CompleteWrite
        <5> QED BY <5>2
      <4> QED BY <4>1, <1>4
    <3>2. disk'[n] = P
      BY <1>1, <1>11, MapOpen
    <3> QED BY <3>1, <3>2, <1>3, <2>1
  <2>3. fi.flash_write_buf = <<>> => R = <<>>
    <3> SUFFICES ASSUME fi.flash_write_buf = <<>> PROVE R = <<>>
      OBVIOUS
    <3>1. Len(dk[n]) = 0
      BY <1>4 DEF OpenFile
    <3>2. dk[n] = <<>>
      BY <3>1, <1>8, EmptySeq
    <3> QED BY <3>2, <1>4, <1>8, ConcatEmptySeq
  <2>4. R = <<>> => fi.flash_write_buf = <<>>
    BY <1>4, <1>8, ConcatEqualIffEmpty
  <2>5. rsp' = IF R = <<>> \/ calc_check_sum(R) = file_info.file_check_sum
               THEN "OK" ELSE "ERR"
    BY <1>4, <1>12, <1>15, <2>2, <2>3, <2>4 DEF LastStatus
  <2>6. FT!Complete(d)
    <3> HIDE DEF P
    <3>1. Received \o d = R /\ Len(R) = file_info.file_size
      BY <1>5, <1>14
    <3>2. disk' = [disk EXCEPT ![n] = R]
      BY <1>11, <2>1
    <3>3. /\ Len(Received \o d) = file_info.file_size
          /\ disk' = [disk EXCEPT ![n] = Received \o d]
          /\ rsp' = IF \/ Received \o d = <<>>
                       \/ calc_check_sum(Received \o d)
                            = file_info.file_check_sum
                    THEN "OK" ELSE "ERR"
      BY <3>1, <3>2, <2>5
    <3> QED BY <3>3, <1>13, <1>14 DEF FT!Complete, Received
  <2> QED BY <2>6
<1>16. CASE ~ v.ok
  <2>1. v.wb < Len(fi.flash_write_buf)
    BY <1>3, <1>16, <1>8, FailedWriteShort
  <2>2. P \in FT!Prefixes(R) /\ Len(P) = Len(dk[n]) + v.wb
    BY <1>4, <1>8, <1>9, PrefixOfBoth
  <2>3. Len(R) = Len(dk[n]) + Len(fi.flash_write_buf)
    BY <1>4, <1>8, ConcatProperties
  <2>4. Len(P) < file_info.file_size
    <3>1. /\ Len(dk[n]) \in Nat /\ Len(fi.flash_write_buf) \in Nat
          /\ v.wb \in Nat
      BY <1>8, <1>9
    <3>2. Len(dk[n]) + v.wb < Len(dk[n]) + Len(fi.flash_write_buf)
      BY <3>1, <2>1, LessAfter
    <3>3. Len(P) = Len(dk[n]) + v.wb
      BY <2>2
    <3> HIDE DEF P
    <3> QED BY <3>2, <3>3, <1>5, <2>3
  <2>5. rsp' = "OK"
    BY <1>12, <1>16 DEF LastStatus
  <2>6. FT!LastWriteLost(d)
    BY <1>5, <1>11, <1>13, <1>14, <2>2, <2>4, <2>5
       DEF FT!LastWriteLost, Received
  <2>7. StorageFaults
    BY <1>3, <1>16 DEF Writes
  <2> QED BY <2>6, <2>7
<1> QED BY <1>9, <1>15, <1>16

(***************************************************************************)
(* Every step of the service is a step of the abstract transfer or leaves  *)
(* it unchanged.                                                           *)
(***************************************************************************)
LEMMA FtpStepRefines == FtpInv /\ FtpInv' /\ [Next]_vars => [FT!Next]_(FT!vars)
<1> SUFFICES ASSUME FtpInv, FtpInv', [Next]_vars PROVE [FT!Next]_(FT!vars)
  OBVIOUS
<1> DEFINE n == file_info.file_name
           b == file_info.flash_write_buf
<1>1. ASSUME NEW m \in Names, NEW size \in Sizes, NEW sum \in Sums,
             HeadOk(m, size, sum)
      PROVE  FT!Next
  <2>1. /\ file_info'.is_file_open /\ file_info'.file_name = m
        /\ file_info'.file_size = size /\ file_info'.file_check_sum = sum
        /\ file_info'.flash_write_buf = <<>>
    BY <1>1 DEF HeadOk, NoFile
  <2>2. disk' = [disk EXCEPT ![m] = <<>>] /\ rsp' = "OK"
    BY <1>1 DEF HeadOk
  <2>3. disk'[m] = <<>>
    BY <2>2 DEF FtpInv, TypeOK
  <2>4. disk'[m] \o file_info'.flash_write_buf = <<>>
    BY <2>1, <2>3, ConcatEmptySeq, EmptySeq
  <2>5. FT!Begin(m, size, sum)
    BY <2>1, <2>2, <2>4 DEF FT!Begin, Content
  <2> QED BY <2>5 DEF FT!Next
<1>2. ASSUME HeadFail \/ Refuse
      PROVE  FT!Next
  <2>1. file_info' = NoFile /\ rsp' = "ERR" /\ disk' = disk
    BY <1>2 DEF HeadFail, Refuse, Fail
  <2>2. CASE ~ file_info.is_file_open
    BY <2>1, <2>2, FailAborts
  <2>3. CASE file_info.is_file_open
    <3>1. Content \o SubSeq(b, 1, 0) \in FT!Prefixes(Received)
      <4>1. 0 \in 0..Len(b)
        BY <2>3, MapOpen
      <4> QED BY <4>1, <2>3, FlushedPrefix
    <3>2. Content \o SubSeq(b, 1, 0) = Content
      BY <2>3, MapOpen, SubSeqEmpty, ConcatEmptySeq
    <3>3. disk' = [disk EXCEPT ![n] = Content]
      BY <2>1, <2>3, MapOpen DEF Content
    <3> QED BY <2>1, <2>3, <3>1, <3>2, <3>3, FailAborts
  <2> QED BY <2>2, <2>3
<1>3. ASSUME NEW d \in Blocks, BlockMore(d)
      PROVE  FT!Next
  <2>1. FT!Accept(d)
    BY <1>3, MoreAccepts, FtpAssumption
  <2> QED BY <2>1 DEF FT!Next
<1>4. ASSUME NEW d \in Blocks, BlockFail(d)
      PROVE  FT!Next
  BY <1>4, FailGivesUp, FtpAssumption
<1>5. ASSUME NEW d \in Blocks, BlockLast(d)
      PROVE  FT!Next
  <2>1. FT!Complete(d) \/ FT!LastWriteLost(d)
    BY <1>5, LastCompletes, FtpAssumption
  <2> QED BY <2>1 DEF FT!Next
<1>6. CASE GetRecvFileName
  BY <1>6 DEF GetRecvFileName, FT!vars, Content
<1>7. ASSUME PowerCycle
      PROVE  FT!Next
  <2>1. file_info' = NoFile /\ rsp' = "none"
    BY <1>7 DEF PowerCycle
  <2>2. CASE ~ file_info.is_file_open
    BY <1>7, <2>1, <2>2, FailAborts DEF PowerCycle
  <2>3. CASE file_info.is_file_open
    <3>1. Received \in Seq(Byte)
      BY <2>3, MapOpen, ConcatProperties
    <3>2. <<>> \in FT!Prefixes(Received)
      <4>1. SubSeq(Received, 1, 0) = <<>> /\ 0 \in 0..Len(Received)
        BY <3>1, SubSeqEmpty
      <4> QED BY <4>1 DEF FT!Prefixes
    <3>3. disk' = [disk EXCEPT ![n] = <<>>]
      BY <1>7, <2>3 DEF PowerCycle
    <3> QED BY <2>1, <2>3, <3>2, <3>3, FailAborts
  <2> QED BY <2>2, <2>3
<1>8. CASE UNCHANGED vars
  BY <1>8 DEF vars, FT!vars, Content
<1> QED BY <1>1, <1>2, <1>3, <1>4, <1>5, <1>6, <1>7, <1>8 DEF Next

(***************************************************************************)
(* Whatever the host sends, whatever the buffer size and however the       *)
(* storage fails, codey_neurons_ftp_parse implements the abstract          *)
(* transfer.                                                               *)
(***************************************************************************)
THEOREM FtpRefinesTransfer == Spec => ImplementsFileTransfer
<1>1. Init => FT!Init
  <2> SUFFICES ASSUME Init PROVE FT!Init
    OBVIOUS
  <2>1. FtpInv
    BY FtpInitInv
  <2>2. ~ file_info.is_file_open
    BY DEF Init, NoFile
  <2>3. disk \in [Names -> Seq(Byte)]
    BY <2>1 DEF FtpInv, TypeOK
  <2> QED BY <2>1, <2>2, <2>3, MapClosed DEF FT!Init, Init, Received
<1> QED BY <1>1, FtpInvariant, FtpStepRefines, PTL
        DEF Spec, ImplementsFileTransfer, FT!Spec
=============================================================================
