------------------------------ MODULE BleRing -------------------------------
(***************************************************************************)
(* The receive ring of the BLE channel and the semaphore that wakes the    *)
(* communication task.  A write event of the BLE stack puts its bytes into *)
(* the ring and gives the semaphore; codey_neurons_deal takes the          *)
(* semaphore and drains the ring, a byte at a time, in rounds it shares    *)
(* with the two UARTs.  There is no lock.                                  *)
(*                                                                         *)
(* The firmware runs on one core (CONFIG_FREERTOS_UNICORE) and the BLE     *)
(* task has the higher priority, so a write event is never interrupted by  *)
(* the communication task, while a get may be interrupted between any two  *)
(* of its memory accesses.                                                 *)
(*                                                                         *)
(* A byte is the number of bytes the ring had taken when it was put.       *)
(***************************************************************************)
EXTENDS Naturals

CONSTANTS size,       \* r->size, one less than the slots: 255 in the code
          MaxWrite,   \* bound: bytes of a write event
          MaxBytes,   \* bound: bytes the ring takes in
          Torn        \* r->iget++ and r->iget &= r->size store separately

ASSUME BleAssumption == /\ size \in Nat \ {0}
                        /\ MaxWrite \in Nat /\ MaxBytes \in Nat
                        /\ Torn \in BOOLEAN

VARIABLES
  buf, iput, iget,      \* s_rx_rb
  sem,                  \* s_recv_data_sem
  writing, left,        \* a write event is handled; its bytes still to put
  deal, more, more_uart,\* codey_neurons_deal, ble_more_data, uartX_more_data
  index, ret,           \* temporaries of codey_ring_buf_get
  accepted, delivered,  \* history: bytes put and bytes returned
  overrun               \* history: a byte came when size others were unread

ringVars  == <<buf, iput, iget>>
writeVars == <<writing, left>>
dealVars  == <<deal, more, more_uart, index, ret>>
history   == <<accepted, delivered, overrun>>
vars      == <<ringVars, sem, writeVars, dealVars, history>>

Slots == 0..size

(***************************************************************************)
(* i & r->size: the number of slots is a power of two and no index is more *)
(* than one past the last.                                                 *)
(***************************************************************************)
Mask(i) == IF i > size THEN i - (size + 1) ELSE i

\* Mutant of IsFull: the ring is full a byte too early.
FullEarly == Mask(iput + 2) = iget

IsFull  == Mask(iput + 1) = iget
IsEmpty == iput = iget

Init == /\ buf = [i \in Slots |-> 0]
        /\ iput = 0 /\ iget = 0
        /\ sem = FALSE
        /\ writing = FALSE /\ left = 0
        /\ deal = "take" /\ more = FALSE /\ more_uart = FALSE
        /\ index = 0 /\ ret = 0
        /\ accepted = 0 /\ delivered = 0 /\ overrun = FALSE
-----------------------------------------------------------------------------
(***************************************************************************)
(* ESP_GATTS_WRITE_EVT: a byte is put while there is room, the rest of the *)
(* event is dropped when there is none, and the semaphore is given.        *)
(***************************************************************************)
WriteBegins == /\ ~ writing
               /\ writing' = TRUE
               /\ \E n \in 1..MaxWrite :
                    accepted + n <= MaxBytes /\ left' = n
               /\ UNCHANGED <<ringVars, sem, dealVars, history>>

Overruns == overrun' = (overrun \/ accepted - delivered >= size)

Put == /\ writing /\ left > 0
       /\ ~ IsFull
       /\ buf' = [buf EXCEPT ![iput] = accepted + 1]
       /\ iput' = Mask(iput + 1)
       /\ left' = left - 1
       /\ accepted' = accepted + 1
       /\ Overruns
       /\ UNCHANGED <<iget, sem, writing, dealVars, delivered>>

Refuse == /\ writing /\ left > 0
          /\ IsFull
          /\ left' = 0
          /\ Overruns
          /\ UNCHANGED <<ringVars, sem, writing, dealVars, accepted, delivered>>

WriteEnds == /\ writing /\ left = 0
             /\ sem' = TRUE
             /\ writing' = FALSE
             /\ UNCHANGED <<ringVars, left, dealVars, history>>

(***************************************************************************)
(* The interrupt of a UART and the neurons engine give it as well.         *)
(***************************************************************************)
OtherGives == /\ ~ writing
              /\ sem' = TRUE
              /\ UNCHANGED <<ringVars, writeVars, dealVars, history>>
-----------------------------------------------------------------------------
\* Mutant of Take: ble_more_data is not set again.
TakeKeepsMore == /\ ~ writing /\ deal = "take" /\ sem
                 /\ sem' = FALSE
                 /\ more_uart' = TRUE
                 /\ deal' = "check"
                 /\ UNCHANGED <<ringVars, writeVars, more, index, ret, history>>

(***************************************************************************)
(* The communication task.  Without the semaphore it does its other        *)
(* routing every 50 ms and waits again.                                    *)
(***************************************************************************)
Take == /\ ~ writing
        /\ deal = "take"
        /\ sem
        /\ sem' = FALSE
        /\ more' = TRUE /\ more_uart' = TRUE
        /\ deal' = "check"
        /\ UNCHANGED <<ringVars, writeVars, index, ret, history>>

\* Mutant of Check: the ring is read without asking whether it is empty.
CheckNothing == /\ ~ writing /\ deal = "check"
                /\ deal' = "index"
                /\ UNCHANGED <<ringVars, sem, writeVars, more, more_uart, index,
                               ret, history>>

(***************************************************************************)
(* codey_ble_dev_get_char: an empty ring ends the BLE part of the round.   *)
(***************************************************************************)
Check == /\ ~ writing
         /\ deal = "check"
         /\ deal' = IF IsEmpty THEN "uarts" ELSE "index"
         /\ more' = (more /\ ~ IsEmpty)
         /\ UNCHANGED <<ringVars, sem, writeVars, more_uart, index, ret, history>>

(***************************************************************************)
(* codey_ring_buf_get.  The index is read and, where the compiler keeps    *)
(* the store of r->iget++, published one past the slot; then the byte is   *)
(* read; then the masked index is stored.                                  *)
(***************************************************************************)
GetIndex == /\ ~ writing
            /\ deal = "index"
            /\ index' = iget
            /\ iget' = IF Torn THEN iget + 1 ELSE iget
            /\ deal' = "byte"
            /\ UNCHANGED <<buf, iput, sem, writeVars, more, more_uart, ret, history>>

GetByte == /\ ~ writing
           /\ deal = "byte"
           /\ ret' = buf[index]
           /\ deal' = "mask"
           /\ UNCHANGED <<ringVars, sem, writeVars, more, more_uart, index, history>>

GetMask == /\ ~ writing
           /\ deal = "mask"
           /\ iget' = Mask(index + 1)
           /\ delivered' = delivered + 1
           /\ deal' = "pump"
           /\ UNCHANGED <<buf, iput, sem, writeVars, more, more_uart, index, ret,
                          accepted, overrun>>

(***************************************************************************)
(* The byte is given to the parsers; after 50 ms the round goes on to the  *)
(* UARTs, with ble_more_data as it was.                                    *)
(***************************************************************************)
Pump == /\ ~ writing
        /\ deal = "pump"
        /\ deal' \in {"check", "uarts"}
        /\ UNCHANGED <<ringVars, sem, writeVars, more, more_uart, index, ret,
                       history>>

\* Mutant of Round: the rounds end when one channel is drained.
RoundEndsEarly == /\ ~ writing /\ deal = "uarts"
                  /\ more_uart' \in {more_uart, FALSE}
                  /\ deal' = IF more /\ more_uart' THEN "check" ELSE "take"
                  /\ UNCHANGED <<ringVars, sem, writeVars, more, index, ret,
                                 history>>

(***************************************************************************)
(* The rest of a round.  The flags of the UARTs are never set again, and   *)
(* that of UART1 stays set while a script is being received.               *)
(***************************************************************************)
Round == /\ ~ writing
         /\ deal = "uarts"
         /\ more_uart' \in {more_uart, FALSE}
         /\ deal' = IF more \/ more_uart' THEN "check" ELSE "take"
         /\ UNCHANGED <<ringVars, sem, writeVars, more, index, ret, history>>

DealStep == \/ Take \/ Check \/ GetIndex \/ GetByte \/ GetMask \/ Pump \/ Round
WriteStep == Put \/ Refuse \/ WriteEnds

Next == WriteBegins \/ WriteStep \/ OtherGives \/ DealStep

(***************************************************************************)
(* An event that has begun runs to its end; the communication task runs.   *)
(* It is preempted by every event, but events end.                         *)
(***************************************************************************)
Fairness == WF_vars(WriteStep) /\ SF_vars(DealStep)

Spec == Init /\ [][Next]_vars /\ Fairness
-----------------------------------------------------------------------------
RingTypeOK == /\ buf \in [Slots -> Nat]
              /\ iput \in Slots
              /\ iget \in 0..(size + 1)
              /\ index \in Slots /\ ret \in Nat

DealTypeOK == /\ deal \in {"take", "check", "index", "byte", "mask", "pump",
                           "uarts"}
              /\ more \in BOOLEAN /\ more_uart \in BOOLEAN
              /\ sem \in BOOLEAN
              /\ writing \in BOOLEAN /\ left \in 0..MaxWrite

(***************************************************************************)
(* Type invariant; a published index is at most one past the last slot.    *)
(***************************************************************************)
BleTypeOK == /\ RingTypeOK /\ DealTypeOK
             /\ accepted \in Nat /\ delivered \in Nat /\ overrun \in BOOLEAN

(***************************************************************************)
(* The host never had more than size bytes unread, or the compiler merges  *)
(* the two stores of codey_ring_buf_get.                                   *)
(***************************************************************************)
Sound == Torn => ~ overrun

(***************************************************************************)
(* Every byte codey_ring_buf_get reads is the next one that was put,       *)
(* wherever write events interrupt it: none is lost, repeated or           *)
(* overwritten, also when iget is seen one past the slot, provided that    *)
(* the host keeps no more than size bytes outstanding.                     *)
(***************************************************************************)
InOrder == Sound /\ deal = "mask" => ret = delivered + 1

(***************************************************************************)
(* A write event drops bytes only when size bytes are unread.              *)
(***************************************************************************)
RefusedWhenFull == [][Refuse /\ Sound => accepted - delivered >= size]_vars

(***************************************************************************)
(* No wake-up is lost: when the communication task waits for the           *)
(* semaphore, or has decided in this turn that the BLE channel is drained, *)
(* bytes in the ring come with a semaphore that is given.                  *)
(***************************************************************************)
NoLostWakeup ==
  ~ writing /\ ~ IsEmpty /\ (deal = "take" \/ ~ more) => sem

(***************************************************************************)
(* Every byte that was put is given to the parsers in the end.             *)
(***************************************************************************)
EveryByteRead ==
  \A k \in 1..MaxBytes : accepted >= k ~> delivered >= k \/ ~ Sound
=============================================================================
