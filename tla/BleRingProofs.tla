--------------------------- MODULE BleRingProofs ----------------------------
(***************************************************************************)
(* The ring of the BLE channel delivers in order and loses no wake-up, for *)
(* every size of the ring and of the events.                               *)
(***************************************************************************)
EXTENDS BleRing, TLAPS

\* The slot that the get in progress, or the next one, reads.
Head == IF deal \in {"byte", "mask"} THEN index ELSE iget

\* The published index: one past the slot only inside a torn get.
IndexInv == IF deal \in {"byte", "mask"}
            THEN iget = (IF Torn THEN index + 1 ELSE index)
            ELSE iget \in Slots

\* The unread bytes lie from Head to iput, in order.
Unread == accepted - delivered

Filled == /\ delivered <= accepted /\ Unread <= size
          /\ iput = Mask(Head + Unread)
          /\ \A k \in Nat : delivered < k /\ k <= accepted =>
               buf[Mask(Head + (k - delivered - 1))] = k

Reading == /\ deal \in {"index", "byte", "mask"} => delivered < accepted
           /\ deal = "mask" => ret = delivered + 1

RingInv == Sound => Filled /\ Reading

\* A get after the channel was found drained is owed to a later event.
WakeInv == /\ NoLostWakeup
           /\ deal \in {"index", "byte", "mask"} /\ ~ more => sem

BleInv == BleTypeOK /\ IndexInv /\ RingInv /\ WakeInv

(***************************************************************************)
(* Init: the ring is empty and nobody is told otherwise.                   *)
(***************************************************************************)
LEMMA BleInit == Init => BleInv
<1> SUFFICES ASSUME Init PROVE BleInv
  OBVIOUS
<1>1. BleTypeOK /\ IndexInv
  <2>1. RingTypeOK /\ IndexInv
    BY BleAssumption DEF Init, RingTypeOK, IndexInv, Slots
  <2>2. DealTypeOK
    <3>1. 0 \in 0..MaxWrite
      BY BleAssumption
    <3> QED BY <3>1, Zenon DEF Init, DealTypeOK
  <2> QED BY <2>1, <2>2 DEF Init, BleTypeOK
<1>2. Filled
  <2>1. Head = 0 /\ Unread = 0 /\ Mask(Head + Unread) = 0
    BY BleAssumption DEF Init, Head, Unread, Mask
  <2> QED BY BleAssumption, <2>1 DEF Init, Filled
<1>3. Reading
  BY DEF Init, Reading
<1>4. WakeInv
  BY DEF Init, WakeInv, NoLostWakeup, IsEmpty
<1> QED BY <1>1, <1>2, <1>3, <1>4 DEF BleInv, RingInv

(***************************************************************************)
(* codey_ring_buf_put and codey_ring_buf_get keep the variables in their   *)
(* types and iget within one of the last slot.                             *)
(***************************************************************************)
LEMMA BleTypeStep == BleTypeOK /\ IndexInv /\ [Next]_vars
                     => BleTypeOK' /\ IndexInv'
<1> SUFFICES ASSUME BleTypeOK, IndexInv, [Next]_vars
             PROVE  BleTypeOK' /\ IndexInv'
  OBVIOUS
<1> USE BleAssumption DEF BleTypeOK, RingTypeOK, DealTypeOK, IndexInv, Slots
<1>1. CASE WriteBegins
  BY <1>1 DEF WriteBegins, ringVars, dealVars, history
<1>2. CASE Put
  BY <1>2 DEF Put, Overruns, Mask, dealVars
<1>3. CASE Refuse
  BY <1>3 DEF Refuse, Overruns, ringVars, dealVars
<1>4. CASE WriteEnds
  BY <1>4 DEF WriteEnds, ringVars, dealVars, history
<1>5. CASE OtherGives
  BY <1>5 DEF OtherGives, ringVars, dealVars, history, writeVars
<1>6. CASE Take
  BY <1>6 DEF Take, ringVars, history, writeVars
<1>7. CASE Check
  BY <1>7 DEF Check, ringVars, history, writeVars
<1>8. CASE GetIndex
  BY <1>8 DEF GetIndex, history, writeVars
<1>9. CASE GetByte
  BY <1>9 DEF GetByte, ringVars, history, writeVars
<1>10. CASE GetMask
  BY <1>10 DEF GetMask, Mask, history, writeVars
<1>11. CASE Pump
  BY <1>11 DEF Pump, ringVars, history, writeVars
<1>12. CASE Round
  BY <1>12 DEF Round, ringVars, history, writeVars
<1>13. CASE UNCHANGED vars
  BY <1>13 DEF vars, ringVars, dealVars, history, writeVars
<1> QED
  BY <1>1, <1>2, <1>3, <1>4, <1>5, <1>6, <1>7, <1>8, <1>9, <1>10, <1>11, <1>12,
     <1>13 DEF Next, WriteStep, DealStep

(***************************************************************************)
(* A write event puts its bytes behind the unread ones, also while iget is *)
(* published one past its slot; a get takes the first of them.             *)
(***************************************************************************)
LEMMA RingStep == BleTypeOK /\ IndexInv /\ RingInv /\ [Next]_vars => RingInv'
<1> SUFFICES ASSUME BleTypeOK, IndexInv, RingInv, [Next]_vars, Sound'
             PROVE  Filled' /\ Reading'
  BY DEF RingInv
<1> USE BleAssumption DEF BleTypeOK, RingTypeOK, DealTypeOK, Slots
<1>0. Sound
  BY DEF Sound, Next, WriteStep, DealStep, WriteBegins, Put, Refuse, WriteEnds,
         OtherGives, Take, Check, GetIndex, GetByte, GetMask, Pump, Round,
         Overruns, vars, history
<1>a. Filled /\ Reading
  BY <1>0 DEF RingInv
<1>b. Head \in Slots
  BY DEF Head, IndexInv
<1>k. ASSUME UNCHANGED <<ringVars, history, index, ret>>,
             deal \in {"byte", "mask"} <=> deal' \in {"byte", "mask"},
             deal' \in {"index", "byte", "mask"} => delivered < accepted,
             deal' = "mask" => deal = "mask"
      PROVE  Filled' /\ Reading'
  <2>1. Head' = Head
    BY <1>k DEF Head, ringVars
  <2>2. Filled'
    BY <1>a, <1>k, <2>1 DEF Filled, Unread, Mask, ringVars, history
  <2>3. Reading'
    BY <1>a, <1>k DEF Reading, history
  <2> QED BY <2>2, <2>3
<1>1. CASE WriteBegins \/ WriteEnds \/ OtherGives
  BY <1>1, <1>a, <1>k DEF WriteBegins, WriteEnds, OtherGives, dealVars, Reading
<1>2. CASE Put
  <2>1. Unread < size
    <3>1. CASE Torn
      <4>1. ~ (accepted - delivered >= size)
        BY <1>2, <3>1, Zenon DEF Put, Overruns, Sound
      <4> QED BY <4>1 DEF Unread
    <3>2. CASE ~ Torn
      BY <1>2, <1>a, <1>b, <3>2
      DEF Put, IsFull, Mask, Filled, Unread, Head, IndexInv
    <3> QED BY <3>1, <3>2
  <2>2. Head' = Head /\ Unread' = Unread + 1 /\ accepted' = accepted + 1
        /\ delivered' = delivered
    BY <1>2, <1>a DEF Put, Head, Unread, dealVars, Filled
  <2>3. iput' = Mask(Head' + Unread')
    BY <1>2, <1>a, <1>b, <2>1, <2>2 DEF Put, Mask, Filled, Unread
  <2>4. ASSUME NEW k \in Nat, delivered' < k, k <= accepted'
        PROVE  buf'[Mask(Head' + (k - delivered' - 1))] = k
    <3>1. CASE k = accepted + 1
      <4>1. k - delivered - 1 = Unread
        BY <3>1 DEF Unread
      <4> QED BY <1>2, <1>a, <2>2, <3>1, <4>1 DEF Put, Filled
    <3>2. CASE k # accepted + 1
      <4>1. k <= accepted /\ delivered < k
        BY <2>2, <2>4, <3>2
      <4>2. buf[Mask(Head + (k - delivered - 1))] = k
        BY <1>a, <4>1 DEF Filled
      <4>3. /\ Mask(Head + (k - delivered - 1)) # iput
            /\ Mask(Head + (k - delivered - 1)) \in Slots
        BY <1>a, <1>b, <2>1, <4>1 DEF Mask, Filled, Unread
      <4> QED BY <1>2, <2>2, <4>2, <4>3 DEF Put
    <3> QED BY <3>1, <3>2
  <2>5. Reading'
    BY <1>2, <1>a, <2>2 DEF Put, Reading, dealVars
  <2>6. delivered' <= accepted' /\ Unread' <= size
    BY <1>a, <2>1, <2>2 DEF Filled, Unread
  <2> QED
    BY <2>3, <2>4, <2>5, <2>6 DEF Filled
<1>3. CASE Refuse
  <2>1. Head' = Head
    BY <1>3 DEF Refuse, Head, ringVars, dealVars
  <2> QED
    BY <1>3, <1>a, <2>1 DEF Refuse, Filled, Reading, Unread, ringVars, dealVars
<1>4. CASE Take \/ Pump \/ Round
  BY <1>4, <1>k DEF Take, Pump, Round
<1>5. CASE Check
  <2>1. ~ IsEmpty => delivered < accepted
    BY <1>5, <1>a DEF Check, IsEmpty, Filled, Head, IndexInv, Unread, Mask
  <2> QED
    BY <1>5, <1>k, <2>1 DEF Check
<1>6. CASE GetIndex
  <2>1. Head' = Head
    BY <1>6 DEF GetIndex, Head
  <2> QED
    BY <1>6, <1>a, <2>1 DEF GetIndex, Filled, Reading, Unread, history
<1>7. CASE GetByte
  <2>1. Head' = Head /\ Head = index
    BY <1>7 DEF GetByte, Head, ringVars
  <2>2. delivered < accepted
    BY <1>7, <1>a DEF GetByte, Reading
  <2>3. buf[Mask(Head + ((delivered + 1) - delivered - 1))] = delivered + 1
    BY <1>a, <2>2 DEF Filled
  <2>4. Mask(Head + ((delivered + 1) - delivered - 1)) = index
    BY <1>b, <2>1 DEF Mask
  <2>5. Reading'
    BY <1>7, <2>2, <2>3, <2>4 DEF GetByte, Reading, history
  <2>6. Filled'
    BY <1>7, <1>a, <2>1 DEF GetByte, Filled, Unread, ringVars, history
  <2> QED BY <2>5, <2>6
<1>8. CASE GetMask
  <2>1. delivered < accepted
    BY <1>8, <1>a DEF GetMask, Reading
  <2>2. /\ Head' = Mask(Head + 1) /\ Unread' = Unread - 1
        /\ delivered' = delivered + 1 /\ accepted' = accepted
        /\ buf' = buf /\ iput' = iput
    BY <1>8 DEF GetMask, Head, Unread
  <2>3. iput' = Mask(Head' + Unread')
    BY <1>a, <1>b, <2>1, <2>2 DEF Mask, Filled, Unread
  <2>4. ASSUME NEW k \in Nat, delivered' < k, k <= accepted'
        PROVE  buf'[Mask(Head' + (k - delivered' - 1))] = k
    <3>1. Mask(Head' + (k - delivered' - 1)) = Mask(Head + (k - delivered - 1))
      BY <1>a, <1>b, <2>2, <2>4 DEF Mask, Filled, Unread
    <3>2. buf[Mask(Head + (k - delivered - 1))] = k
      BY <1>a, <2>2, <2>4 DEF Filled
    <3> QED BY <2>2, <3>1, <3>2
  <2>5. Reading'
    BY <1>8 DEF GetMask, Reading
  <2>6. delivered' <= accepted' /\ Unread' <= size
    BY <1>a, <2>1, <2>2 DEF Filled, Unread
  <2> QED
    BY <2>3, <2>4, <2>5, <2>6 DEF Filled
<1>9. CASE UNCHANGED vars
  BY <1>9, <1>a, <1>k DEF vars, dealVars, Reading
<1> QED
  BY <1>1, <1>2, <1>3, <1>4, <1>5, <1>6, <1>7, <1>8, <1>9
  DEF Next, WriteStep, DealStep

(***************************************************************************)
(* The task leaves its rounds only with ble_more_data clear, and an event  *)
(* that comes after it was cleared gives the semaphore.                    *)
(***************************************************************************)
LEMMA WakeStep == BleTypeOK /\ WakeInv /\ [Next]_vars => WakeInv'
<1> SUFFICES ASSUME BleTypeOK, WakeInv, [Next]_vars
             PROVE  WakeInv'
  OBVIOUS
<1> USE DEF BleTypeOK, DealTypeOK, WakeInv, NoLostWakeup, IsEmpty
<1>1. CASE WriteBegins \/ Put \/ Refuse \/ WriteEnds \/ OtherGives
  BY <1>1 DEF WriteBegins, Put, Refuse, WriteEnds, OtherGives, ringVars,
              dealVars, writeVars
<1>2. CASE Take \/ Check \/ GetIndex
  BY <1>2 DEF Take, Check, GetIndex, ringVars, writeVars
<1>3. CASE GetByte \/ GetMask \/ Pump \/ Round
  BY <1>3 DEF GetByte, GetMask, Pump, Round, ringVars, writeVars
<1>4. CASE UNCHANGED vars
  BY <1>4 DEF vars, ringVars, dealVars, writeVars
<1> QED
  BY <1>1, <1>2, <1>3, <1>4 DEF Next, WriteStep, DealStep

(***************************************************************************)
(* The invariant of the ring and of the wake-ups holds in every behaviour. *)
(***************************************************************************)
THEOREM BleInvariant == Spec => []BleInv
<1>1. BleInv /\ [Next]_vars => BleInv'
  BY BleTypeStep, RingStep, WakeStep DEF BleInv
<1> QED
  BY BleInit, <1>1, PTL DEF Spec

(***************************************************************************)
(* Whatever interrupts codey_ring_buf_get, the byte it reads is the next   *)
(* one that was put, for rings and events of every size, as long as the    *)
(* host keeps no more than size bytes unread or the two stores are merged. *)
(***************************************************************************)
THEOREM BleInOrder == Spec => []InOrder
<1>1. BleInv => InOrder
  BY DEF BleInv, RingInv, Reading, InOrder
<1> QED
  BY BleInvariant, <1>1, PTL

(***************************************************************************)
(* codey_neurons_deal never waits for the semaphore with bytes in the ring *)
(* and the semaphore not given.                                            *)
(***************************************************************************)
THEOREM BleNoLostWakeup == Spec => []NoLostWakeup
<1>1. BleInv => NoLostWakeup
  BY DEF BleInv, WakeInv
<1> QED
  BY BleInvariant, <1>1, PTL

(***************************************************************************)
(* A write event drops bytes only when size bytes are unread: the full     *)
(* test of RING_BUF_IS_FULL is exact, also inside a torn get.              *)
(***************************************************************************)
THEOREM BleRefusedWhenFull == Spec => RefusedWhenFull
<1>1. BleInv /\ [Next]_vars
      => [Refuse /\ Sound => accepted - delivered >= size]_vars
  <2> SUFFICES ASSUME BleInv, Refuse, Sound
               PROVE  accepted - delivered >= size
    OBVIOUS
  <2>1. Filled /\ Reading /\ Head \in Slots
    BY DEF BleInv, RingInv, Head, IndexInv, BleTypeOK, RingTypeOK
  <2>2. accepted \in Nat /\ delivered \in Nat /\ iput \in Slots
    BY DEF BleInv, BleTypeOK, RingTypeOK
  <2>3. CASE Torn /\ deal \in {"byte", "mask"}
    <3>1. iget = Head + 1 /\ delivered < accepted
      BY <2>1, <2>3 DEF BleInv, IndexInv, Head, Reading
    <3> QED
      BY BleAssumption, <2>1, <2>2, <3>1
      DEF Refuse, IsFull, Mask, Filled, Unread, Slots
  <2>4. CASE ~ (Torn /\ deal \in {"byte", "mask"})
    <3>1. iget = Head
      BY <2>4 DEF BleInv, IndexInv, Head
    <3> QED
      BY BleAssumption, <2>1, <2>2, <3>1
      DEF Refuse, IsFull, Mask, Filled, Unread, Slots
  <2> QED BY <2>3, <2>4
<1> QED
  BY BleInvariant, <1>1, PTL DEF Spec, RefusedWhenFull
=============================================================================
