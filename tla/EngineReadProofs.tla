-------------------------- MODULE EngineReadProofs ---------------------------
(***************************************************************************)
(* Proofs about EngineRead, for every set of threads and of commands, every *)
(* size of the ring and every number of operations and restarts: one read  *)
(* at a time, an index that stays in its array, and a read that returns    *)
(* the answer to its own command.                                          *)
(***************************************************************************)
EXTENDS EngineRead, FiniteSetTheorems, TLAPS

Op == [cmd : Reads \cup {NoCmd}, n : 0 .. MaxOps]

Slots == 0 .. CMD_BUFFER_MAX - 1

(***************************************************************************)
(* The types EngineTypeOK leaves out, and when a thread has a read.        *)
(***************************************************************************)
MoreTypes ==
  /\ ring \in [Slots -> Op] /\ at \in [Threads -> Nat]
  /\ asked \subseteq [cmd : Reads, n : 0 .. MaxOps]
  /\ ops \in 0 .. MaxOps /\ restarts \in Nat
  /\ suspended \in BOOLEAN /\ kept \in BOOLEAN /\ (suspended \/ kept => restarts # 0)
  /\ dealing \in BOOLEAN /\ update \in BOOLEAN /\ more \in BOOLEAN
  /\ timeouts \in BOOLEAN /\ race \in BOOLEAN /\ early \in BOOLEAN

ReadPlaces ==
  \A t \in Threads :
    /\ pc[t] = "idle" => op[t].cmd = NoCmd
    /\ pc[t] \in {"lock", "enter", "wait", "got", "exit"} => op[t].cmd \in Reads

(***************************************************************************)
(* Mutual exclusion of the readers, in a form without cardinalities.       *)
(***************************************************************************)
Exclusion ==
  /\ mutex = 1 => \A t \in Threads : ~ InRead(t)
  /\ \A t, u \in Threads : InRead(t) /\ InRead(u) => t = u

(***************************************************************************)
(* While no two threads were in push at once, the one that is there has    *)
(* counted the slot before in, and no suspended thread is.                 *)
(***************************************************************************)
InPush(t) == pc[t] \in {"copy", "mask"}

PushAlone ==
  ~ race =>
    /\ \A t \in Threads : InPush(t) => at[t] \in Slots /\ in = at[t] + 1
    /\ \A t, u \in Threads : InPush(t) /\ InPush(u) => t = u
    /\ (\A t \in Threads : ~ InPush(t)) => in \in Slots
    /\ suspended => \A t \in Threads : InPush(t) => t = Main

(***************************************************************************)
(* The slots between out and in that hold a command: a thread that has     *)
(* counted a slot copies to it later.                                      *)
(***************************************************************************)
Filled(i) ==
  /\ IF out <= in THEN out <= i /\ i < in ELSE out <= i \/ i < in
  /\ \A t \in Threads : ~ (pc[t] = "copy" /\ at[t] = i)

HoldsRead(i) == Filled(i) /\ ring[i].cmd \in Reads

\* No read command is on its way to a block or back.
Quiet == asked = {} /\ \A i \in Slots : ~ HoldsRead(i)

\* The read of u is pushed and its answer not taken.
Flying(u) == InRead(u) /\ pc[u] \in {"mask", "ready", "wait"}

Undisturbed == ~ timeouts /\ ~ race /\ ~ early /\ restarts = 0

(***************************************************************************)
(* The command of the reader is in one place at most: in a slot, at its    *)
(* block, or answered; and no other read command is anywhere.              *)
(***************************************************************************)
Single(u) ==
  /\ asked \subseteq {op[u]}
  /\ \A i \in Slots : HoldsRead(i) => ring[i] = op[u] /\ asked = {}
  /\ \A i, j \in Slots : HoldsRead(i) /\ HoldsRead(j) => i = j

Answered(u) == Flying(u) /\ Quiet /\ val[op[u].cmd] = op[u].n

Track ==
  Undisturbed =>
    /\ (\A u \in Threads : ~ Flying(u)) => Quiet
    /\ \A u \in Threads : Flying(u) => Single(u)
    /\ sema = 1 => \/ \A t \in Threads : op[t].cmd = NoCmd
                   \/ \E u \in Threads : Answered(u)
    /\ \A u \in Threads : pc[u] = "got" => val[op[u].cmd] = op[u].n
    /\ \A u \in Threads : pc[u] = "exit" => res[u] = op[u].n

EngineInv ==
  /\ EngineTypeOK /\ MoreTypes /\ ReadPlaces
  /\ ~ kept => Exclusion
  /\ PushAlone /\ Track
------------------------------------------------------------------------------
LEMMA Masked ==
  \A x \in Nat : x % CMD_BUFFER_MAX \in Slots
BY EngineAssumption DEF Slots

LEMMA MaskedOnce ==
  ASSUME NEW x \in 1 .. CMD_BUFFER_MAX
  PROVE  x % CMD_BUFFER_MAX = IF x = CMD_BUFFER_MAX THEN 0 ELSE x
<1> USE EngineAssumption
<1>1. CASE x = CMD_BUFFER_MAX
  <2>1. x = CMD_BUFFER_MAX * 1 + 0
    BY <1>1
  <2> QED BY <1>1, <2>1
<1>2. CASE x < CMD_BUFFER_MAX
  BY <1>2
<1> QED BY <1>1, <1>2

LEMMA InitInv == Init => EngineInv
<1> SUFFICES ASSUME Init PROVE EngineInv
  OBVIOUS
<1> USE EngineAssumption DEF Init
<1>1. NoOp \in Op /\ NoOp.cmd = NoCmd
  BY DEF NoOp, Op
<1>2. EngineTypeOK
  BY <1>1 DEF EngineTypeOK, Op
<1>7. MoreTypes
  <2>1. ring \in [Slots -> Op]
    BY <1>1 DEF Slots
  <2>2. at \in [Threads -> Nat] /\ ops \in 0 .. MaxOps /\ restarts \in Nat
    OBVIOUS
  <2>3. asked \subseteq [cmd : Reads, n : 0 .. MaxOps]
    OBVIOUS
  <2> QED BY <2>1, <2>2, <2>3 DEF MoreTypes
<1>3. \A u \in Threads : pc[u] = "idle" /\ op[u].cmd = NoCmd
  BY <1>1
<1>4. ReadPlaces /\ Exclusion /\ PushAlone
  BY <1>3 DEF ReadPlaces, Exclusion, InRead, Inside, PushAlone, InPush, Slots
<1>5. \A i \in Slots : ~ HoldsRead(i)
  BY DEF HoldsRead, Filled, Slots
<1>6. Track
  BY <1>3, <1>5 DEF Track, Flying, Quiet
<1> QED BY <1>2, <1>4, <1>6, <1>7 DEF EngineInv

(***************************************************************************)
(* What a step does to the types and to the places of the reads.           *)
(***************************************************************************)
Types == EngineTypeOK /\ MoreTypes /\ ReadPlaces

Bounded == \A t \in Threads : pc[t] = "copy" /\ ~ race => at[t] < CMD_BUFFER_MAX

LEMMA TypeStep ==
  ASSUME Types, [Next]_vars, Bounded'
  PROVE  Types'
<1> USE EngineAssumption
        DEF Types, EngineTypeOK, MoreTypes, ReadPlaces, Inside, Op, Slots, NoOp,
            Bounded, threadVars, ringVars, taskVars, lifeVars, Goes
<1>1. ASSUME NEW t \in Threads, ReadBegins(t) PROVE Types'
  BY <1>1 DEF ReadBegins
<1>2. ASSUME NEW t \in Threads, SendBegins(t) PROVE Types'
  BY <1>2 DEF SendBegins
<1>3. ASSUME NEW t \in Threads, ReadLocks(t) PROVE Types'
  BY <1>3 DEF ReadLocks
<1>4. ASSUME NEW t \in Threads, ReadSetsCmd(t) PROVE Types'
  BY <1>4 DEF ReadSetsCmd
<1>5. ASSUME NEW t \in Threads, PushFinds(t) PROVE Types'
  BY <1>5 DEF PushFinds
<1>6. ASSUME NEW t \in Threads, PushCounts(t) PROVE Types'
  <2>1. in' \in Nat /\ at' \in [Threads -> Nat] /\ race' \in BOOLEAN
    BY <1>6 DEF PushCounts
  <2> QED BY <1>6, <2>1 DEF PushCounts
<1>7. ASSUME NEW t \in Threads, PushCopies(t) PROVE Types'
  BY <1>7 DEF PushCopies
<1>8. ASSUME NEW t \in Threads, PushMasks(t) PROVE Types'
  <2>1. in' \in Nat
    BY <1>8, Masked DEF PushMasks
  <2> QED BY <1>8, <2>1 DEF PushMasks
<1>9. ASSUME NEW t \in Threads, Pushed(t) PROVE Types'
  BY <1>9 DEF Pushed
<1>10. ASSUME NEW t \in Threads, WaitAnswered(t) PROVE Types'
  BY <1>10 DEF WaitAnswered
<1>11. ASSUME NEW t \in Threads, WaitTimesOut(t) PROVE Types'
  BY <1>11 DEF WaitTimesOut
<1>12. ASSUME NEW t \in Threads, TakesValue(t) PROVE Types'
  BY <1>12 DEF TakesValue
<1>13. ASSUME NEW t \in Threads, ReadExits(t) PROVE Types'
  <2>1. op' \in [Threads -> Op] /\ op'[t] = NoOp
    BY <1>13 DEF ReadExits
  <2>2. pc' \in [Threads -> Inside \cup {"idle", "lock"}]
    BY <1>13 DEF ReadExits
  <2>3. ReadPlaces'
    BY <1>13, <2>1 DEF ReadExits
  <2> QED BY <1>13, <2>1, <2>2, <2>3 DEF ReadExits
<1>14. CASE Interrupt
  BY <1>14 DEF Interrupt
<1>15. CASE DealBegins
  BY <1>15 DEF DealBegins
<1>16. CASE Pop
  <2>5. out + 1 \in Nat
    OBVIOUS
  <2>1. out' \in Slots
    <3>1. (out + 1) % CMD_BUFFER_MAX \in Slots
      BY ONLY <2>5, Masked
    <3> QED BY <1>16, <3>1 DEF Pop
  <2>2. ring[out] \in Op
    OBVIOUS
  <2>3. asked' \subseteq [cmd : Reads, n : 0 .. MaxOps]
    BY <1>16, <2>2 DEF Pop
  <2>4. early' \in BOOLEAN
    BY <1>16 DEF Pop
  <2> QED BY <1>16, <2>1, <2>3, <2>4 DEF Pop
<1>17. CASE DealEnds
  BY <1>17 DEF DealEnds
<1>18. CASE Answer
  BY <1>18 DEF Answer
<1>19. CASE AnswerLost
  BY <1>19 DEF AnswerLost
<1>20. CASE Suspend
  BY <1>20 DEF Suspend, StoppedInPush
<1>21. CASE Restart
  <2>1. op' \in [Threads -> Op] /\ \A t \in Threads : op'[t] = NoOp
    BY <1>21 DEF Restart, ThreadsDeleted
  <2>2. pc' \in [Threads -> Inside \cup {"idle", "lock"}]
    BY <1>21 DEF Restart, ThreadsDeleted
  <2>3. ReadPlaces'
    BY <1>21, <2>1 DEF Restart, ThreadsDeleted
  <2> QED BY <1>21, <2>1, <2>2, <2>3 DEF Restart, ScriptStarts, ThreadsDeleted
<1>23. ASSUME NEW t \in Threads, ReadFails(t) PROVE Types'
  <2>1. op' \in [Threads -> Op] /\ op'[t] = NoOp
    BY <1>23 DEF ReadFails
  <2>2. pc' \in [Threads -> Inside \cup {"idle", "lock"}]
    BY <1>23 DEF ReadFails
  <2>3. ReadPlaces'
    BY <1>23, <2>1 DEF ReadFails
  <2>4. cmd' \in Reads \cup {NoCmd}
    BY <1>23 DEF ReadFails
  <2> QED BY <1>23, <2>1, <2>2, <2>3, <2>4 DEF ReadFails
<1>24. CASE UpdateBegins
  BY <1>24 DEF UpdateBegins
<1>25. CASE RestartAlone
  <2>1. op' \in [Threads -> Op] /\ \A t \in Threads : op'[t] = NoOp
    BY <1>25 DEF RestartAlone, ThreadsDeleted
  <2>2. pc' \in [Threads -> Inside \cup {"idle", "lock"}]
    BY <1>25 DEF RestartAlone, ThreadsDeleted
  <2>3. ReadPlaces'
    BY <1>25, <2>1 DEF RestartAlone, ThreadsDeleted
  <2>4. race' \in BOOLEAN /\ restarts' \in Nat
    BY <1>25 DEF RestartAlone, EndsAlone, StoppedInPush
  <2>5. EngineTypeOK'
    BY <1>25, <2>1, <2>2 DEF RestartAlone, ScriptStarts
  <2>6. MoreTypes'
    BY <1>25, <2>1, <2>4 DEF RestartAlone, EndsAlone, ScriptStarts, ThreadsDeleted
  <2> QED BY <2>3, <2>5, <2>6
<1>26. CASE RunsAgain
  <2>1. restarts' \in Nat /\ restarts' # 0
    BY <1>26 DEF RunsAgain, EndsAlone
  <2>2. EngineTypeOK'
    BY <1>26 DEF RunsAgain, ScriptStarts
  <2>3. MoreTypes'
    BY <1>26, <2>1 DEF RunsAgain, EndsAlone, ScriptStarts
  <2>4. ReadPlaces'
    BY <1>26 DEF RunsAgain
  <2> QED BY <2>2, <2>3, <2>4
<1>22. CASE UNCHANGED vars
  BY <1>22 DEF vars
<1> QED BY <1>1, <1>2, <1>3, <1>4, <1>5, <1>6, <1>7, <1>8, <1>9, <1>10, <1>11,
           <1>12, <1>13, <1>14, <1>15, <1>16, <1>17, <1>18, <1>19, <1>20,
           <1>21, <1>22,
     <1>23, <1>24, <1>25, <1>26 DEF Next, Step

(***************************************************************************)
(* A thread enters a read by taking the mutex, and gives it when it leaves, *)
(* unless the read fails; a mutex left taken keeps the others out.         *)
(***************************************************************************)
LEMMA ExclusionStep ==
  ASSUME Types, ~ kept => Exclusion, [Next]_vars, ~ kept'
  PROVE  Exclusion'
<1> USE EngineAssumption
        DEF Types, EngineTypeOK, ReadPlaces, Exclusion, InRead, Inside, NoOp,
            threadVars, ringVars, taskVars, lifeVars, Goes
<1>1. ASSUME NEW t \in Threads, ReadBegins(t) PROVE Exclusion'
  BY <1>1 DEF ReadBegins
<1>2. ASSUME NEW t \in Threads, SendBegins(t) PROVE Exclusion'
  BY <1>2 DEF SendBegins
<1>3. ASSUME NEW t \in Threads, ReadLocks(t) PROVE Exclusion'
  BY <1>3 DEF ReadLocks
<1>4. ASSUME NEW t \in Threads, ReadSetsCmd(t) PROVE Exclusion'
  BY <1>4 DEF ReadSetsCmd
<1>5. ASSUME NEW t \in Threads, PushFinds(t) PROVE Exclusion'
  BY <1>5 DEF PushFinds
<1>6. ASSUME NEW t \in Threads, PushCounts(t) PROVE Exclusion'
  BY <1>6 DEF PushCounts
<1>7. ASSUME NEW t \in Threads, PushCopies(t) PROVE Exclusion'
  BY <1>7 DEF PushCopies
<1>8. ASSUME NEW t \in Threads, PushMasks(t) PROVE Exclusion'
  BY <1>8 DEF PushMasks
<1>9. ASSUME NEW t \in Threads, Pushed(t) PROVE Exclusion'
  BY <1>9 DEF Pushed
<1>10. ASSUME NEW t \in Threads, WaitAnswered(t) PROVE Exclusion'
  BY <1>10 DEF WaitAnswered
<1>11. ASSUME NEW t \in Threads, WaitTimesOut(t) PROVE Exclusion'
  BY <1>11 DEF WaitTimesOut
<1>12. ASSUME NEW t \in Threads, TakesValue(t) PROVE Exclusion'
  BY <1>12 DEF TakesValue
<1>13. ASSUME NEW t \in Threads, ReadExits(t) PROVE Exclusion'
  BY <1>13 DEF ReadExits
<1>14. CASE Interrupt
  BY <1>14 DEF Interrupt
<1>15. CASE DealBegins
  BY <1>15 DEF DealBegins
<1>16. CASE Pop
  BY <1>16 DEF Pop
<1>17. CASE DealEnds
  BY <1>17 DEF DealEnds
<1>18. CASE Answer
  BY <1>18 DEF Answer
<1>19. CASE AnswerLost
  BY <1>19 DEF AnswerLost
<1>20. CASE Suspend
  BY <1>20 DEF Suspend, StoppedInPush
<1>21. CASE Restart
  BY <1>21 DEF Restart, ScriptStarts, ThreadsDeleted
<1>23. ASSUME NEW t \in Threads, ReadFails(t) PROVE Exclusion'
  BY <1>23 DEF ReadFails
<1>24. CASE UpdateBegins
  BY <1>24 DEF UpdateBegins
<1>25. CASE RestartAlone
  BY <1>25 DEF RestartAlone, EndsAlone, ScriptStarts, ThreadsDeleted, StoppedInPush
<1>26. CASE RunsAgain
  BY <1>26 DEF RunsAgain, EndsAlone, ScriptStarts
<1>22. CASE UNCHANGED vars
  BY <1>22 DEF vars
<1> QED
  BY <1>1, <1>2, <1>3, <1>4, <1>5, <1>6, <1>7, <1>8, <1>9, <1>10, <1>11, <1>12, <1>13,
         <1>14, <1>15, <1>16, <1>17, <1>18, <1>19, <1>20, <1>21, <1>22,
     <1>23, <1>24, <1>25, <1>26
  DEF Next, Step

(***************************************************************************)
(* The thread in push, while no two have been there, is the one that       *)
(* counted last.                                                           *)
(***************************************************************************)
LEMMA PushAloneStep ==
  ASSUME Types, PushAlone, [Next]_vars
  PROVE  PushAlone'
<1> USE EngineAssumption
        DEF Types, EngineTypeOK, MoreTypes, PushAlone, InPush, Inside, Runs,
            threadVars, ringVars, taskVars, lifeVars, Goes
<1>1. ASSUME NEW t \in Threads, ReadBegins(t) PROVE PushAlone'
  BY <1>1 DEF ReadBegins
<1>2. ASSUME NEW t \in Threads, SendBegins(t) PROVE PushAlone'
  BY <1>2 DEF SendBegins
<1>3. ASSUME NEW t \in Threads, ReadLocks(t) PROVE PushAlone'
  BY <1>3 DEF ReadLocks
<1>4. ASSUME NEW t \in Threads, ReadSetsCmd(t) PROVE PushAlone'
  BY <1>4 DEF ReadSetsCmd
<1>5. ASSUME NEW t \in Threads, PushFinds(t) PROVE PushAlone'
  BY <1>5 DEF PushFinds
<1>6. ASSUME NEW t \in Threads, PushCounts(t) PROVE PushAlone'
  <2>1. CASE race'
    BY <2>1
  <2>2. CASE ~ race'
    <3>1. \A u \in Threads \ {t} : pc[u] \notin {"inc", "copy", "mask"}
      BY <1>6, <2>2 DEF PushCounts
    <3>2. \A u \in Threads : ~ InPush(u)
      BY <1>6, <3>1 DEF PushCounts
    <3>3. in \in Slots /\ ~ race
      BY <1>6, <2>2, <3>2 DEF PushCounts
    <3>4. \A u \in Threads : InPush(u)' => u = t
      BY <1>6, <3>1 DEF PushCounts
    <3>5. at'[t] = in /\ in' = in + 1
      BY <1>6 DEF PushCounts
    <3>6. suspended' => t = Main
      BY <1>6 DEF PushCounts
    <3>7. InPush(t)'
      BY <1>6 DEF PushCounts
    <3> QED BY <3>3, <3>4, <3>5, <3>6, <3>7
  <2> QED BY <2>1, <2>2
<1>7. ASSUME NEW t \in Threads, PushCopies(t) PROVE PushAlone'
  BY <1>7 DEF PushCopies
<1>8. ASSUME NEW t \in Threads, PushMasks(t) PROVE PushAlone'
  <2>1. in % CMD_BUFFER_MAX \in Slots
    BY Masked
  <2> QED BY <1>8, <2>1 DEF PushMasks
<1>9. ASSUME NEW t \in Threads, Pushed(t) PROVE PushAlone'
  BY <1>9 DEF Pushed
<1>10. ASSUME NEW t \in Threads, WaitAnswered(t) PROVE PushAlone'
  BY <1>10 DEF WaitAnswered
<1>11. ASSUME NEW t \in Threads, WaitTimesOut(t) PROVE PushAlone'
  BY <1>11 DEF WaitTimesOut
<1>12. ASSUME NEW t \in Threads, TakesValue(t) PROVE PushAlone'
  BY <1>12 DEF TakesValue
<1>13. ASSUME NEW t \in Threads, ReadExits(t) PROVE PushAlone'
  BY <1>13 DEF ReadExits
<1>14. CASE Interrupt
  BY <1>14 DEF Interrupt
<1>15. CASE DealBegins
  BY <1>15 DEF DealBegins
<1>16. CASE Pop
  BY <1>16 DEF Pop
<1>17. CASE DealEnds
  BY <1>17 DEF DealEnds
<1>18. CASE Answer
  BY <1>18 DEF Answer
<1>19. CASE AnswerLost
  BY <1>19 DEF AnswerLost
<1>20. CASE Suspend
  BY <1>20 DEF Suspend, StoppedInPush
<1>21. CASE Restart
  BY <1>21 DEF Restart, ScriptStarts, ThreadsDeleted
<1>23. ASSUME NEW t \in Threads, ReadFails(t) PROVE PushAlone'
  BY <1>23 DEF ReadFails
<1>24. CASE UpdateBegins
  BY <1>24 DEF UpdateBegins
<1>25. CASE RestartAlone
  BY <1>25 DEF RestartAlone, EndsAlone, ScriptStarts, ThreadsDeleted, StoppedInPush
<1>26. CASE RunsAgain
  BY <1>26 DEF RunsAgain, EndsAlone, ScriptStarts
<1>22. CASE UNCHANGED vars
  BY <1>22 DEF vars
<1> QED
  BY <1>1, <1>2, <1>3, <1>4, <1>5, <1>6, <1>7, <1>8, <1>9, <1>10, <1>11, <1>12, <1>13,
         <1>14, <1>15, <1>16, <1>17, <1>18, <1>19, <1>20, <1>21, <1>22,
     <1>23, <1>24, <1>25, <1>26
  DEF Next, Step

(***************************************************************************)
(* A step that puts no read command in a slot or at a block, that leaves   *)
(* the answers alone and that starts or ends no flight keeps Track.        *)
(***************************************************************************)
Shrinks == \A i \in Slots : HoldsRead(i)' => HoldsRead(i) /\ ring'[i] = ring[i]

LEMMA TrackKept ==
  ASSUME Track, Undisturbed' => Undisturbed, Shrinks, asked' \subseteq asked,
         val' = val,
         \A u \in Threads : Flying(u)' <=> Flying(u),
         \A u \in Threads : Flying(u) => op'[u] = op[u],
         sema' = 1 => sema = 1 /\ (   (\A u \in Threads : op[u].cmd = NoCmd)
                                   => (\A u \in Threads : op'[u].cmd = NoCmd)),
         Undisturbed' => \A u \in Threads :
           /\ pc'[u] = "got" => val'[op'[u].cmd] = op'[u].n
           /\ pc'[u] = "exit" => res'[u] = op'[u].n
  PROVE  Track'
<1> SUFFICES ASSUME Undisturbed' PROVE Track'
  BY DEF Track
<1>1. Quiet => Quiet'
  BY DEF Quiet, Shrinks
<1>2. (\A u \in Threads : ~ Flying(u)') => Quiet'
  BY <1>1 DEF Track
<1>3. ASSUME NEW u \in Threads, Flying(u)' PROVE Single(u)'
  <2>1. Single(u) /\ op'[u] = op[u]
    BY <1>3 DEF Track
  <2> QED BY <2>1 DEF Single, Shrinks
<1>4. ASSUME NEW u \in Threads, Answered(u) PROVE Answered(u)'
  BY <1>1, <1>4 DEF Answered
<1>5. sema' = 1 => \/ \A t \in Threads : op'[t].cmd = NoCmd
                  \/ \E u \in Threads : Answered(u)'
  BY <1>4 DEF Track
<1> QED BY <1>2, <1>3, <1>5 DEF Track

(***************************************************************************)
(* The ring and the slots counted are as they were.                        *)
(***************************************************************************)
LEMMA SameRing ==
  ASSUME in' = in, out' = out, ring' = ring,
         \A u \in Threads : pc'[u] = "copy" <=> pc[u] = "copy",
         \A u \in Threads : at'[u] = at[u]
  PROVE  /\ Shrinks
         /\ \A i \in Slots : HoldsRead(i)' <=> HoldsRead(i)
BY DEF Shrinks, HoldsRead, Filled

(***************************************************************************)
(* One step of the argument per action that Track is about: the index      *)
(* counts a slot that is not filled yet, ...                               *)
(***************************************************************************)
LEMMA CountsShrinks ==
  ASSUME Types, PushAlone, NEW t \in Threads, PushCounts(t), ~ race'
  PROVE  Shrinks
<1> USE EngineAssumption DEF Types, EngineTypeOK, MoreTypes
<1>1. \A u \in Threads \ {t} : pc[u] \notin {"inc", "copy", "mask"}
  BY DEF PushCounts
<1>2. pc[t] = "inc" /\ pc'[t] = "copy" /\ at'[t] = in /\ in' = in + 1
  BY DEF PushCounts, Goes
<1>3. in \in Slots
  BY <1>1, <1>2 DEF PushCounts, PushAlone, InPush
<1>4. ring' = ring /\ out' = out
  BY DEF PushCounts
<1>5. ASSUME NEW i \in Slots, HoldsRead(i)' PROVE HoldsRead(i)
  <2>1. i # in
    BY <1>2, <1>5 DEF HoldsRead, Filled
  <2>2. \A u \in Threads : pc[u] # "copy"
    BY <1>1, <1>2
  <2>3. IF out <= in + 1 THEN out <= i /\ i < in + 1 ELSE out <= i \/ i < in + 1
    BY <1>2, <1>4, <1>5 DEF HoldsRead, Filled
  <2>4. IF out <= in THEN out <= i /\ i < in ELSE out <= i \/ i < in
    BY <2>1, <2>3, <1>3 DEF Slots
  <2> QED BY <1>4, <1>5, <2>2, <2>4 DEF HoldsRead, Filled
<1> QED BY <1>4, <1>5 DEF Shrinks

(***************************************************************************)
(* ... masking it leaves the slots between out and in as they are, ...     *)
(***************************************************************************)
LEMMA MasksShrinks ==
  ASSUME Types, PushAlone, NEW t \in Threads, PushMasks(t), ~ race
  PROVE  Shrinks
<1> USE EngineAssumption DEF Types, EngineTypeOK, MoreTypes
<1>1. at[t] \in Slots /\ in = at[t] + 1
  BY DEF PushMasks, Goes, PushAlone, InPush
<1>2. in' = IF in = CMD_BUFFER_MAX THEN 0 ELSE in
  <2>1. in \in 1 .. CMD_BUFFER_MAX
    BY <1>1 DEF Slots
  <2>2. in' = in % CMD_BUFFER_MAX
    BY DEF PushMasks
  <2> QED BY <2>1, <2>2, MaskedOnce
<1>3. ring' = ring /\ out' = out /\ at' = at
  BY DEF PushMasks
<1>4. \A u \in Threads : pc'[u] = "copy" <=> pc[u] = "copy"
  BY DEF PushMasks, Goes
<1>5. ASSUME NEW i \in Slots, HoldsRead(i)' PROVE HoldsRead(i)
  <2>1. IF out <= in' THEN out <= i /\ i < in' ELSE out <= i \/ i < in'
    BY <1>3, <1>5 DEF HoldsRead, Filled
  <2>2. IF out <= in THEN out <= i /\ i < in ELSE out <= i \/ i < in
    BY <1>1, <1>2, <2>1 DEF Slots
  <2> QED BY <1>3, <1>4, <1>5, <2>2 DEF HoldsRead, Filled
<1> QED BY <1>3, <1>5 DEF Shrinks

(***************************************************************************)
(* ... a pop that is not early empties the slot at out and no other, ...   *)
(***************************************************************************)
LEMMA PopEmpties ==
  ASSUME Types, PushAlone, Pop, ~ race, ~ early'
  PROVE  /\ out \in Slots /\ Filled(out)
         /\ \A i \in Slots : Filled(i)' => Filled(i) /\ i # out
<1> USE EngineAssumption DEF Types, EngineTypeOK, MoreTypes
<1>1. in # CMD_BUFFER_MAX /\ out # in
  BY DEF Pop
<1>2. \A u \in Threads : ~ (pc[u] = "copy" /\ at[u] = out)
  BY DEF Pop
<1>3. in \in Slots
  <2>1. CASE \A u \in Threads : ~ InPush(u)
    BY <2>1 DEF PushAlone
  <2>2. ASSUME NEW u \in Threads, InPush(u) PROVE in \in Slots
    BY <1>1, <2>2 DEF PushAlone, Slots
  <2> QED BY <2>1, <2>2
<1>4. out' = IF out + 1 = CMD_BUFFER_MAX THEN 0 ELSE out + 1
  <2>1. out + 1 \in 1 .. CMD_BUFFER_MAX
    OBVIOUS
  <2>2. out' = (out + 1) % CMD_BUFFER_MAX
    BY DEF Pop
  <2> QED BY <2>1, <2>2, MaskedOnce
<1>5. out \in Slots /\ Filled(out)
  BY <1>1, <1>2, <1>3 DEF Filled, Slots
<1>6. in' = in /\ pc' = pc /\ at' = at
  BY DEF Pop, threadVars
<1>7. ASSUME NEW i \in Slots, Filled(i)' PROVE Filled(i) /\ i # out
  <2>1. IF out' <= in THEN out' <= i /\ i < in ELSE out' <= i \/ i < in
    BY <1>6, <1>7 DEF Filled
  <2>2. /\ IF out <= in THEN out <= i /\ i < in ELSE out <= i \/ i < in
        /\ i # out
    BY <1>1, <1>3, <1>4, <2>1 DEF Slots
  <2> QED BY <1>6, <1>7, <2>2 DEF Filled
<1> QED BY <1>5, <1>7

(***************************************************************************)
(* ... the copy of a read command is the only one anywhere, ...            *)
(***************************************************************************)
LEMMA CopiesTrack ==
  ASSUME Types, Exclusion, PushAlone, Track, Exclusion',
         NEW t \in Threads, PushCopies(t)
  PROVE  Track'
<1> USE EngineAssumption DEF Types, EngineTypeOK, MoreTypes
<1> SUFFICES ASSUME Undisturbed' PROVE Track'
  BY DEF Track
<1>1. Undisturbed /\ ~ race
  BY DEF PushCopies, Undisturbed, lifeVars
<1>2. /\ pc[t] = "copy" /\ pc' = [pc EXCEPT ![t] = "mask"]
      /\ op' = op /\ asked' = asked /\ val' = val /\ sema' = sema /\ res' = res
      /\ in' = in /\ out' = out /\ at' = at
  BY DEF PushCopies, Goes, taskVars
<1>3. at[t] \in Slots /\ in = at[t] + 1
  BY <1>1, <1>2 DEF PushAlone, InPush
<1>4. \A u \in Threads : pc[u] = "copy" => u = t
  BY <1>1, <1>2 DEF PushAlone, InPush
<1>5. \A i \in Slots : ring'[i] = IF i = at[t] THEN op[t] ELSE ring[i]
  BY DEF PushCopies, Slots
<1>6. ASSUME NEW i \in Slots, i # at[t], HoldsRead(i)'
      PROVE  HoldsRead(i) /\ ring'[i] = ring[i]
  BY <1>2, <1>4, <1>5, <1>6 DEF HoldsRead, Filled
<1>7. CASE op[t].cmd = NoCmd
  <2>1. \A i \in Slots : HoldsRead(i)' => i # at[t]
    BY <1>3, <1>5, <1>7 DEF HoldsRead
  <2>2. Shrinks
    BY <1>6, <2>1 DEF Shrinks
  <2>3. \A u \in Threads : Flying(u)' <=> Flying(u)
    BY <1>2, <1>7 DEF Flying, InRead
  <2>4. \A u \in Threads : /\ pc'[u] = "got" => val'[op'[u].cmd] = op'[u].n
                           /\ pc'[u] = "exit" => res'[u] = op'[u].n
    BY <1>1, <1>2 DEF Track
  <2> QED BY <1>1, <1>2, <2>2, <2>3, <2>4, TrackKept
<1>8. CASE op[t].cmd # NoCmd
  <2>1. InRead(t) /\ InRead(t)' /\ Flying(t)'
    BY <1>2, <1>8 DEF InRead, Inside, Flying
  <2>2. \A u \in Threads : ~ Flying(u)
    BY <1>2, <2>1 DEF Exclusion, Flying
  <2>3. Quiet /\ sema # 1
    BY <1>1, <1>8, <2>2 DEF Track, Answered
  <2>4. \A i \in Slots : HoldsRead(i)' => i = at[t] /\ ring'[i] = op[t]
    BY <1>3, <1>5, <1>6, <2>3 DEF Quiet
  <2>5. Single(t)'
    BY <1>2, <2>3, <2>4 DEF Single, Quiet
  <2>6. \A u \in Threads : Flying(u)' => u = t
    BY <2>1 DEF Exclusion, Flying
  <2>7. \A u \in Threads : /\ pc'[u] = "got" => val'[op'[u].cmd] = op'[u].n
                           /\ pc'[u] = "exit" => res'[u] = op'[u].n
    BY <1>1, <1>2 DEF Track
  <2> QED BY <1>2, <2>1, <2>3, <2>5, <2>6, <2>7 DEF Track
<1> QED BY <1>7, <1>8

(***************************************************************************)
(* ... a command taken from the ring is at its block and nowhere else, ... *)
(***************************************************************************)
LEMMA PopTrack ==
  ASSUME Types, Exclusion, PushAlone, Track, Pop
  PROVE  Track'
<1> USE EngineAssumption DEF Types, EngineTypeOK, MoreTypes
<1> SUFFICES ASSUME Undisturbed' PROVE Track'
  BY DEF Track
<1>1. Undisturbed /\ ~ race /\ ~ early'
  BY DEF Pop, Undisturbed, lifeVars
<1>2. /\ pc' = pc /\ op' = op /\ val' = val /\ sema' = sema /\ res' = res /\ ring' = ring
      /\ asked' = IF ring[out].cmd \in Reads /\ ~ update THEN asked \cup {ring[out]} ELSE asked
  BY DEF Pop, threadVars
<1>3. /\ out \in Slots /\ Filled(out)
      /\ \A i \in Slots : Filled(i)' => Filled(i) /\ i # out
  BY <1>1, PopEmpties
<1>4. Shrinks /\ \A i \in Slots : HoldsRead(i)' => HoldsRead(i) /\ i # out
  BY <1>2, <1>3 DEF Shrinks, HoldsRead
<1>5. \A u \in Threads : Flying(u)' <=> Flying(u)
  BY <1>2 DEF Flying, InRead
<1>6. \A u \in Threads : /\ pc'[u] = "got" => val'[op'[u].cmd] = op'[u].n
                         /\ pc'[u] = "exit" => res'[u] = op'[u].n
  BY <1>1, <1>2 DEF Track
<1>7. CASE ring[out].cmd \notin Reads \/ update
  BY <1>1, <1>2, <1>4, <1>5, <1>6, <1>7, TrackKept
<1>8. CASE ring[out].cmd \in Reads /\ ~ update
  <2>1. HoldsRead(out) /\ ~ Quiet
    BY <1>3, <1>8 DEF HoldsRead, Quiet
  <2>2. PICK u \in Threads : Flying(u)
    BY <1>1, <2>1 DEF Track
  <2>3. Single(u)
    BY <1>1, <2>2 DEF Track
  <2>4. ring[out] = op[u] /\ asked = {} /\ \A i \in Slots : HoldsRead(i) => i = out
    BY <1>3, <2>1, <2>3 DEF Single
  <2>5. asked' = {op[u]} /\ \A i \in Slots : ~ HoldsRead(i)'
    BY <1>2, <1>4, <1>8, <2>4
  <2>6. Single(u)'
    BY <1>2, <2>5 DEF Single
  <2>7. \A v \in Threads : Flying(v)' => v = u
    BY <1>5, <2>2 DEF Exclusion, Flying
  <2>8. sema' # 1
    BY <1>1, <1>2, <2>1, <2>2 DEF Track, Answered, Flying, InRead
  <2> QED BY <1>5, <1>6, <2>2, <2>6, <2>7, <2>8 DEF Track
<1> QED BY <1>7, <1>8

(***************************************************************************)
(* ... the answer that comes in is the reader's own, ...                   *)
(***************************************************************************)
LEMMA AnswerTrack ==
  ASSUME Types, Exclusion, Track, Answer
  PROVE  Track'
<1> USE EngineAssumption DEF Types, EngineTypeOK, MoreTypes
<1> SUFFICES ASSUME Undisturbed' PROVE Track'
  BY DEF Track
<1>1. PICK a \in asked : /\ asked' = asked \ {a}
                         /\ val' = [val EXCEPT ![a.cmd] = a.n]
                         /\ UNCHANGED <<threadVars, ringVars, lifeVars, timeouts>>
  BY DEF Answer
<1>2. Undisturbed
  BY <1>1 DEF Undisturbed, lifeVars, ringVars
<1>3. /\ pc' = pc /\ op' = op /\ res' = res /\ at' = at
      /\ ring' = ring /\ in' = in /\ out' = out
  BY <1>1 DEF threadVars, ringVars
<1>4. PICK u \in Threads : Flying(u)
  BY <1>2 DEF Track, Quiet
<1>5. Single(u)
  BY <1>2, <1>4 DEF Track
<1>6. a = op[u] /\ asked' = {} /\ \A i \in Slots : ~ HoldsRead(i)
  BY <1>1, <1>5 DEF Single
<1>7. \A i \in Slots : ~ HoldsRead(i)'
  BY <1>3, <1>6, SameRing
<1>8. Quiet'
  BY <1>6, <1>7 DEF Quiet
<1>9. val'[op[u].cmd] = op[u].n
  BY <1>1, <1>6
<1>10. \A v \in Threads : Flying(v)' <=> Flying(v)
  BY <1>3 DEF Flying, InRead
<1>11. Answered(u)' /\ Single(u)'
  BY <1>3, <1>4, <1>6, <1>7, <1>8, <1>9, <1>10 DEF Answered, Single
<1>12. \A v \in Threads : InRead(v) => v = u
  BY <1>4 DEF Exclusion, Flying
<1>13. \A v \in Threads : pc[v] # "got"
  BY <1>4, <1>12 DEF Flying, InRead, Inside, ReadPlaces
<1>14. \A v \in Threads : pc'[v] = "exit" => res'[v] = op'[v].n
  BY <1>2, <1>3 DEF Track
<1> QED BY <1>3, <1>8, <1>10, <1>11, <1>12, <1>13, <1>14 DEF Track, Flying

(***************************************************************************)
(* ... and so is the one that ends the wait.                               *)
(***************************************************************************)
LEMMA AnsweredTrack ==
  ASSUME Types, Exclusion, Track, NEW t \in Threads, WaitAnswered(t)
  PROVE  Track'
<1> USE EngineAssumption DEF Types, EngineTypeOK, MoreTypes
<1> SUFFICES ASSUME Undisturbed' PROVE Track'
  BY DEF Track
<1>1. Undisturbed
  BY DEF WaitAnswered, Undisturbed, lifeVars, ringVars
<1>2. /\ op' = op /\ val' = val /\ res' = res /\ at' = at /\ asked' = asked
      /\ ring' = ring /\ in' = in /\ out' = out /\ sema = 1 /\ sema' = 0
      /\ pc[t] = "wait" /\ pc' = [pc EXCEPT ![t] = "got"]
  BY DEF WaitAnswered, Goes, ringVars, taskVars
<1>3. InRead(t)
  BY <1>2 DEF InRead, Inside, ReadPlaces
<1>4. \A v \in Threads : InRead(v) => v = t
  BY <1>3 DEF Exclusion
<1>5. Answered(t)
  BY <1>1, <1>2, <1>3, <1>4 DEF Track, Answered, Flying, InRead
<1>6. Quiet'
  BY <1>2, <1>5, SameRing DEF Answered, Quiet
<1>7. \A v \in Threads : ~ Flying(v)'
  BY <1>2, <1>4 DEF Flying, InRead
<1>8. \A v \in Threads : /\ pc'[v] = "got" => val'[op'[v].cmd] = op'[v].n
                         /\ pc'[v] = "exit" => res'[v] = op'[v].n
  BY <1>1, <1>2, <1>5 DEF Track, Answered
<1> QED BY <1>2, <1>6, <1>7, <1>8 DEF Track

(***************************************************************************)
(* The steps that start and end no flight: what TrackKept asks for, apart  *)
(* from the ring.                                                          *)
(***************************************************************************)
Kept ==
  /\ asked' \subseteq asked /\ val' = val
  /\ \A u \in Threads : Flying(u)' <=> Flying(u)
  /\ \A u \in Threads : Flying(u) => op'[u] = op[u]
  /\ sema' = 1 => sema = 1 /\ (   (\A u \in Threads : op[u].cmd = NoCmd)
                                => (\A u \in Threads : op'[u].cmd = NoCmd))
  /\ \A u \in Threads :
       /\ pc'[u] = "got" => val'[op'[u].cmd] = op'[u].n
       /\ pc'[u] = "exit" => res'[u] = op'[u].n

LEMMA KeptTrack ==
  ASSUME Track, Undisturbed' => Undisturbed /\ Kept /\ Shrinks
  PROVE  Track'
<1> SUFFICES ASSUME Undisturbed' PROVE Track'
  BY DEF Track
<1> QED BY TrackKept DEF Kept

LEMMA TrackStep ==
  ASSUME Types, Exclusion, PushAlone, Track, [Next]_vars, Exclusion'
  PROVE  Track'
<1> USE EngineAssumption
        DEF threadVars, ringVars, taskVars, lifeVars, Goes, Undisturbed
<1> DEFINE Facts == Undisturbed => \A u \in Threads :
                      /\ pc[u] = "got" => val[op[u].cmd] = op[u].n
                      /\ pc[u] = "exit" => res[u] = op[u].n
<1>f. Facts
  BY DEF Track
<1> HIDE DEF Facts
<1>1. ASSUME NEW t \in Threads, ReadBegins(t) PROVE Track'
  <2>1. Undisturbed' => Undisturbed
    BY <1>1 DEF ReadBegins
  <2>2. /\ in' = in /\ out' = out /\ ring' = ring
        /\ \A u \in Threads : pc'[u] = "copy" <=> pc[u] = "copy"
        /\ \A u \in Threads : at'[u] = at[u]
    BY <1>1 DEF ReadBegins, Types, EngineTypeOK
  <2>3. Undisturbed => Kept
    BY <1>1, <1>f DEF ReadBegins, Facts, Kept, Flying, InRead, Types,
       EngineTypeOK, ReadPlaces
  <2> QED BY <2>1, <2>2, <2>3, SameRing, KeptTrack
<1>2. ASSUME NEW t \in Threads, SendBegins(t) PROVE Track'
  <2>1. Undisturbed' => Undisturbed
    BY <1>2 DEF SendBegins
  <2>2. /\ in' = in /\ out' = out /\ ring' = ring
        /\ \A u \in Threads : pc'[u] = "copy" <=> pc[u] = "copy"
        /\ \A u \in Threads : at'[u] = at[u]
    BY <1>2 DEF SendBegins, Types, EngineTypeOK
  <2>3. Undisturbed => Kept
    BY <1>2, <1>f DEF SendBegins, Facts, Kept, Flying, InRead, Types,
       EngineTypeOK, ReadPlaces
  <2> QED BY <2>1, <2>2, <2>3, SameRing, KeptTrack
<1>3. ASSUME NEW t \in Threads, ReadLocks(t) PROVE Track'
  <2>1. Undisturbed' => Undisturbed
    BY <1>3 DEF ReadLocks
  <2>2. /\ in' = in /\ out' = out /\ ring' = ring
        /\ \A u \in Threads : pc'[u] = "copy" <=> pc[u] = "copy"
        /\ \A u \in Threads : at'[u] = at[u]
    BY <1>3 DEF ReadLocks, Types, EngineTypeOK
  <2>3. Undisturbed => Kept
    BY <1>3, <1>f DEF ReadLocks, Facts, Kept, Flying, InRead, Types,
       EngineTypeOK, ReadPlaces
  <2> QED BY <2>1, <2>2, <2>3, SameRing, KeptTrack
<1>4. ASSUME NEW t \in Threads, ReadSetsCmd(t) PROVE Track'
  <2>1. Undisturbed' => Undisturbed
    BY <1>4 DEF ReadSetsCmd
  <2>2. /\ in' = in /\ out' = out /\ ring' = ring
        /\ \A u \in Threads : pc'[u] = "copy" <=> pc[u] = "copy"
        /\ \A u \in Threads : at'[u] = at[u]
    BY <1>4 DEF ReadSetsCmd, Types, EngineTypeOK
  <2>3. Undisturbed => Kept
    BY <1>4, <1>f DEF ReadSetsCmd, Facts, Kept, Flying, InRead, Types,
       EngineTypeOK, ReadPlaces
  <2> QED BY <2>1, <2>2, <2>3, SameRing, KeptTrack
<1>5. ASSUME NEW t \in Threads, PushFinds(t) PROVE Track'
  <2>1. Undisturbed' => Undisturbed
    BY <1>5 DEF PushFinds
  <2>2. /\ in' = in /\ out' = out /\ ring' = ring
        /\ \A u \in Threads : pc'[u] = "copy" <=> pc[u] = "copy"
        /\ \A u \in Threads : at'[u] = at[u]
    BY <1>5 DEF PushFinds, Types, EngineTypeOK
  <2>3. Undisturbed => Kept
    BY <1>5, <1>f DEF PushFinds, Facts, Kept, Flying, InRead, Types,
       EngineTypeOK, ReadPlaces
  <2> QED BY <2>1, <2>2, <2>3, SameRing, KeptTrack
<1>6. ASSUME NEW t \in Threads, PushCounts(t) PROVE Track'
  <2>1. Undisturbed' => Undisturbed /\ ~ race /\ ~ race'
    BY <1>6 DEF PushCounts
  <2>2. Undisturbed' => Shrinks
    BY <1>6, <2>1, CountsShrinks
  <2>3. Undisturbed => Kept
    BY <1>6, <1>f DEF PushCounts, Facts, Kept, Flying, InRead, Types,
       EngineTypeOK, ReadPlaces
  <2> QED BY <2>1, <2>2, <2>3, KeptTrack
<1>7. ASSUME NEW t \in Threads, PushCopies(t) PROVE Track'
  BY <1>7, CopiesTrack
<1>8. ASSUME NEW t \in Threads, PushMasks(t) PROVE Track'
  <2>1. Undisturbed' => Undisturbed /\ ~ race /\ ~ race'
    BY <1>8 DEF PushMasks
  <2>2. Undisturbed' => Shrinks
    BY <1>8, <2>1, MasksShrinks
  <2>3. Undisturbed => Kept
    BY <1>8, <1>f DEF PushMasks, Facts, Kept, Flying, InRead, Inside, Types,
       EngineTypeOK, ReadPlaces
  <2> QED BY <2>1, <2>2, <2>3, KeptTrack
<1>9. ASSUME NEW t \in Threads, Pushed(t) PROVE Track'
  <2>1. Undisturbed' => Undisturbed
    BY <1>9 DEF Pushed
  <2>2. /\ in' = in /\ out' = out /\ ring' = ring
        /\ \A u \in Threads : pc'[u] = "copy" <=> pc[u] = "copy"
        /\ \A u \in Threads : at'[u] = at[u]
    BY <1>9 DEF Pushed, Types, EngineTypeOK
  <2>3. Undisturbed => Kept
    BY <1>9, <1>f DEF Pushed, Facts, Kept, Flying, InRead, Inside, Types,
       EngineTypeOK, ReadPlaces
  <2> QED BY <2>1, <2>2, <2>3, SameRing, KeptTrack
<1>10. ASSUME NEW t \in Threads, WaitAnswered(t) PROVE Track'
  BY <1>10, AnsweredTrack
<1>11. ASSUME NEW t \in Threads, WaitTimesOut(t) PROVE Track'
  BY <1>11 DEF WaitTimesOut, Track
<1>12. ASSUME NEW t \in Threads, TakesValue(t) PROVE Track'
  <2>1. Undisturbed' => Undisturbed
    BY <1>12 DEF TakesValue
  <2>2. /\ in' = in /\ out' = out /\ ring' = ring
        /\ \A u \in Threads : pc'[u] = "copy" <=> pc[u] = "copy"
        /\ \A u \in Threads : at'[u] = at[u]
    BY <1>12 DEF TakesValue, Types, EngineTypeOK
  <2>3. Undisturbed => Kept
    BY <1>12, <1>f DEF TakesValue, Facts, Kept, Flying, InRead, Types,
       EngineTypeOK, ReadPlaces
  <2> QED BY <2>1, <2>2, <2>3, SameRing, KeptTrack
<1>13. ASSUME NEW t \in Threads, ReadExits(t) PROVE Track'
  <2>1. Undisturbed' => Undisturbed
    BY <1>13 DEF ReadExits
  <2>2. /\ in' = in /\ out' = out /\ ring' = ring
        /\ \A u \in Threads : pc'[u] = "copy" <=> pc[u] = "copy"
        /\ \A u \in Threads : at'[u] = at[u]
    BY <1>13 DEF ReadExits, Types, EngineTypeOK
  <2>3. Undisturbed => Kept
    BY <1>13, <1>f DEF ReadExits, Facts, Kept, Flying, InRead, Types,
       EngineTypeOK, ReadPlaces
  <2> QED BY <2>1, <2>2, <2>3, SameRing, KeptTrack
<1>14. CASE Interrupt
  <2>1. Undisturbed' => Undisturbed
    BY <1>14 DEF Interrupt
  <2>2. /\ in' = in /\ out' = out /\ ring' = ring
        /\ \A u \in Threads : pc'[u] = "copy" <=> pc[u] = "copy"
        /\ \A u \in Threads : at'[u] = at[u]
    BY <1>14 DEF Interrupt, Types, EngineTypeOK
  <2>3. Undisturbed => Kept
    BY <1>14, <1>f DEF Interrupt, Facts, Kept, Flying, InRead, Types,
       EngineTypeOK, ReadPlaces
  <2> QED BY <2>1, <2>2, <2>3, SameRing, KeptTrack
<1>15. CASE DealBegins
  <2>1. Undisturbed' => Undisturbed
    BY <1>15 DEF DealBegins
  <2>2. /\ in' = in /\ out' = out /\ ring' = ring
        /\ \A u \in Threads : pc'[u] = "copy" <=> pc[u] = "copy"
        /\ \A u \in Threads : at'[u] = at[u]
    BY <1>15 DEF DealBegins, Types, EngineTypeOK
  <2>3. Undisturbed => Kept
    BY <1>15, <1>f DEF DealBegins, Facts, Kept, Flying, InRead, Types,
       EngineTypeOK, ReadPlaces
  <2> QED BY <2>1, <2>2, <2>3, SameRing, KeptTrack
<1>16. CASE Pop
  BY <1>16, PopTrack
<1>17. CASE DealEnds
  <2>1. Undisturbed' => Undisturbed
    BY <1>17 DEF DealEnds
  <2>2. /\ in' = in /\ out' = out /\ ring' = ring
        /\ \A u \in Threads : pc'[u] = "copy" <=> pc[u] = "copy"
        /\ \A u \in Threads : at'[u] = at[u]
    BY <1>17 DEF DealEnds, Types, EngineTypeOK
  <2>3. Undisturbed => Kept
    BY <1>17, <1>f DEF DealEnds, Facts, Kept, Flying, InRead, Types,
       EngineTypeOK, ReadPlaces
  <2> QED BY <2>1, <2>2, <2>3, SameRing, KeptTrack
<1>18. CASE Answer
  BY <1>18, AnswerTrack
<1>19. CASE AnswerLost
  <2>1. Undisturbed' => Undisturbed
    BY <1>19 DEF AnswerLost
  <2>2. /\ in' = in /\ out' = out /\ ring' = ring
        /\ \A u \in Threads : pc'[u] = "copy" <=> pc[u] = "copy"
        /\ \A u \in Threads : at'[u] = at[u]
    BY <1>19 DEF AnswerLost, Types, EngineTypeOK
  <2>3. Undisturbed => Kept
    BY <1>19, <1>f DEF AnswerLost, Facts, Kept, Flying, InRead, Types,
       EngineTypeOK, ReadPlaces
  <2> QED BY <2>1, <2>2, <2>3, SameRing, KeptTrack
<1>20. CASE Suspend
  BY <1>20 DEF Suspend, StoppedInPush, Track, Types, MoreTypes
<1>21. CASE Restart
  BY <1>21 DEF Restart, Track, Types, MoreTypes
<1>23. ASSUME NEW t \in Threads, ReadFails(t) PROVE Track'
  <2>1. Undisturbed' => Undisturbed
    BY <1>23 DEF ReadFails
  <2>2. /\ in' = in /\ out' = out /\ ring' = ring
        /\ \A u \in Threads : pc'[u] = "copy" <=> pc[u] = "copy"
        /\ \A u \in Threads : at'[u] = at[u]
    BY <1>23 DEF ReadFails, Types, EngineTypeOK
  <2>3. Undisturbed => Kept
    BY <1>23, <1>f DEF ReadFails, Facts, Kept, Flying, InRead, Types,
       EngineTypeOK, ReadPlaces, NoOp
  <2> QED BY <2>1, <2>2, <2>3, SameRing, KeptTrack
<1>24. CASE UpdateBegins
  <2>1. Undisturbed' => Undisturbed
    BY <1>24 DEF UpdateBegins
  <2>2. /\ in' = in /\ out' = out /\ ring' = ring
        /\ \A u \in Threads : pc'[u] = "copy" <=> pc[u] = "copy"
        /\ \A u \in Threads : at'[u] = at[u]
    BY <1>24 DEF UpdateBegins, Types, EngineTypeOK
  <2>3. Undisturbed => Kept
    BY <1>24, <1>f DEF UpdateBegins, Facts, Kept, Flying, InRead, Types,
       EngineTypeOK, ReadPlaces
  <2> QED BY <2>1, <2>2, <2>3, SameRing, KeptTrack
<1>25. CASE RestartAlone
  BY <1>25 DEF RestartAlone, EndsAlone, Track, Types, MoreTypes
<1>26. CASE RunsAgain
  BY <1>26 DEF RunsAgain, EndsAlone, Track, Types, MoreTypes
<1>22. CASE UNCHANGED vars
  <2>1. Undisturbed' => Undisturbed
    BY <1>22 DEF vars
  <2>2. /\ in' = in /\ out' = out /\ ring' = ring
        /\ \A u \in Threads : pc'[u] = "copy" <=> pc[u] = "copy"
        /\ \A u \in Threads : at'[u] = at[u]
    BY <1>22 DEF vars, Types, EngineTypeOK
  <2>3. Undisturbed => Kept
    BY <1>22, <1>f DEF vars, Facts, Kept, Flying, InRead, Types, EngineTypeOK, ReadPlaces
  <2> QED BY <2>1, <2>2, <2>3, SameRing, KeptTrack
<1> QED
  BY <1>1, <1>2, <1>3, <1>4, <1>5, <1>6, <1>7, <1>8, <1>9, <1>10, <1>11, <1>12, <1>13,
     <1>14, <1>15, <1>16, <1>17, <1>18, <1>19, <1>20, <1>21, <1>22,
     <1>23, <1>24, <1>25, <1>26
  DEF Next, Step

------------------------------------------------------------------------------
\* A restart is never forgotten.
LEMMA RestartsCount ==
  ASSUME Types, [Next]_vars, restarts # 0
  PROVE  restarts' # 0
<1>1. restarts \in Nat
  BY DEF Types, MoreTypes
<1>2. restarts' = restarts \/ restarts' = restarts + 1
  BY DEF Next, Step, vars, lifeVars, ReadBegins, SendBegins, ReadFails, ReadLocks, ReadSetsCmd,
     PushFinds, PushCounts, PushCopies, PushMasks, Pushed, WaitAnswered, WaitTimesOut,
     TakesValue, ReadExits, Interrupt, DealBegins, Pop, UpdateBegins, DealEnds, Answer,
     AnswerLost, Suspend, Restart, RestartAlone, RunsAgain, EndsAlone
<1> QED BY <1>1, <1>2

LEMMA EngineStep == EngineInv /\ [Next]_vars => EngineInv'
<1> SUFFICES ASSUME EngineInv, [Next]_vars PROVE EngineInv'
  OBVIOUS
<1>1. Types /\ (~ kept => Exclusion) /\ PushAlone /\ Track
  BY DEF EngineInv, Types
<1>2. (~ kept' => Exclusion') /\ PushAlone'
  BY <1>1, ExclusionStep, PushAloneStep
<1>4. Bounded'
  BY <1>2, EngineAssumption DEF PushAlone, Bounded, InPush, Slots
<1>5. Types'
  BY <1>1, <1>4, TypeStep
<1>3. Track'
  <2>1. CASE kept'
    BY <1>5, <2>1 DEF Track, Undisturbed, Types, MoreTypes
  <2>2. CASE kept
    BY <1>1, <2>2, RestartsCount DEF Track, Undisturbed, Types, MoreTypes
  <2>3. CASE ~ kept /\ ~ kept'
    BY <1>1, <1>2, <2>3, TrackStep
  <2> QED BY <2>1, <2>2, <2>3
<1> QED BY <1>2, <1>3, <1>5 DEF EngineInv, Types

(***************************************************************************)
(* The inductive invariant of reads, ring and restarts: mutual exclusion of *)
(* the readers, one thread in push, and where the reader's command is.     *)
(***************************************************************************)
THEOREM EngineInvariant == Spec => []EngineInv
BY InitInv, EngineStep, PTL DEF Spec

(***************************************************************************)
(* The state keeps its type: the index at which push copies a command is   *)
(* in the array unless two threads were in push at once or one was         *)
(* suspended there (neurons_engine_command_buffer_push).                   *)
(***************************************************************************)
THEOREM EngineTypes == Spec => []EngineTypeOK
<1>1. EngineInv => EngineTypeOK
  BY DEF EngineInv
<1> QED BY <1>1, EngineInvariant, PTL

(***************************************************************************)
(* One thread at a time is between the lock and the unlock of              *)
(* neurons_engine_port_read_data, through restarts that delete the thread  *)
(* that holds the mutex too and reads that fail inside the lock; not after *)
(* main.c has run a script again beside the threads of the old one.        *)
(***************************************************************************)
THEOREM EngineOneReader == Spec => []OneReader
<1>1. ASSUME EngineInv, ~ kept PROVE OneReader
  <2> DEFINE Readers == {t \in Threads : InRead(t)}
  <2>1. \A t, u \in Readers : t = u
    BY <1>1 DEF EngineInv, Exclusion
  <2>2. Cardinality(Readers) <= 1
    <3>1. CASE Readers = {}
      BY <3>1, FS_EmptySet
    <3>2. CASE Readers # {}
      <4>1. PICK t : Readers = {t}
        BY <2>1, <3>2
      <4>2. Cardinality({t}) = 1
        BY FS_Singleton
      <4> QED BY <4>1, <4>2
    <3> QED BY <3>1, <3>2
  <2> QED BY <1>1, <2>2 DEF EngineInv, Exclusion, OneReader
<1>2. EngineInv => OneReader
  BY <1>1 DEF OneReader
<1> QED BY <1>2, EngineInvariant, PTL

(***************************************************************************)
(* A read returns the answer to its own command while nothing disturbs it: *)
(* no time-out, no race in push, no command taken too early, no restart    *)
(* (neurons_engine_read_check_t compares the block and the respond id only, *)
(* never which read the answer belongs to).                                *)
(***************************************************************************)
THEOREM EngineOwnAnswer == Spec => []OwnAnswer
<1>1. EngineInv => OwnAnswer
  BY DEF EngineInv, Track, Undisturbed, OwnAnswer
<1> QED BY <1>1, EngineInvariant, PTL
==============================================================================
