------------------------ MODULE ScriptRestartProofs -------------------------
(***************************************************************************)
(* What holds of the restart of the script for every number of uploads and *)
(* errors, every number of rounds and every interleaving of the tasks.     *)
(***************************************************************************)
EXTENDS ScriptRestart, TLAPS

(***************************************************************************)
(* The main task and mp_task hold the mutex exactly in the steps between   *)
(* their take and their give.                                              *)
(***************************************************************************)
MutexHolders ==
  /\ fatfs = "hook" <=> hook \in {"dtr", "answered", "interrupt"}
  /\ fatfs = "mp" <=> mp = "mounted"

(***************************************************************************)
(* The round counter of the main task stays below its limit.               *)
(***************************************************************************)
RoundsCounted == hook \in {"wait", "round"} => count <= GiveUp

(***************************************************************************)
(* The semaphores of the DTR command are only given for a request, and a   *)
(* respond semaphore that the communication task waits for is the one of   *)
(* an answer whose three seconds are not over.                             *)
(***************************************************************************)
DtrOnce ==
  /\ dtr_require \/ dtr_respond \/ comm = "dtr" => dtrs > 0
  /\ dtr_respond /\ comm = "dtr" => hook = "answered"

(***************************************************************************)
(* A single upload goes through its restart once.  ReadDone: the name of   *)
(* the uploaded main.py was read from the mailbox.  Interrupted: the hook  *)
(* has interrupted the script for it; Suspended: it has suspended the      *)
(* threads.                                                                *)
(***************************************************************************)
ReadDone    == mail = "main.py" /\ ~ unread
Interrupted == /\ ReadDone /\ comm # "set flag"
               /\ restart_flag => hook \in {"wait", "round", "clear"}
Suspended   == Interrupted \/ hook = "interrupt"

(***************************************************************************)
(* The name is posted once, and the flag is set and the hook leaves its    *)
(* poll only after it was read.                                            *)
(***************************************************************************)
MailOnce == /\ mail # "none" \/ transfer => heads = 1
            /\ mail = "main.py" => ~ transfer
            /\ restart_flag \/ comm = "set flag" => ReadDone
            /\ comm = "set flag" => ~ restart_flag
            /\ hook # "poll" => restart_flag

(***************************************************************************)
(* Values of the reason.  A pending interrupt is one of the restart.       *)
(***************************************************************************)
ReasonPlaces ==
  /\ ReadDone => reason # 0
  /\ reason = 2 => ReadDone
  /\ mp = "claim" => reason # 1
  /\ mp \in {"after", "open", "main.py", "check main", "loop", "check loop"}
       => reason # 0
  /\ pending => Interrupted

(***************************************************************************)
(* From the claim that follows the upload on, the status says EXECUTED,    *)
(* and no round of the hook that would interrupt again outlasts the open.  *)
(***************************************************************************)
NoFurtherRound ==
  ReadDone /\ reason = 1 /\ mp # "after" =>
    /\ exec_status = "EXECUTED"
    /\ mp # "open" => hook # "round"

(***************************************************************************)
(* A thread that runs belongs to main.py or to an event loop.  When        *)
(* mp_task has left them without it, nothing brings mp_task to             *)
(* mp_thread_deinit before the hook has suspended it: the reason is 1      *)
(* until mp_task sleeps in esp32_pass.py, and no interrupt is to come.     *)
(***************************************************************************)
ThreadPlaces ==
  thread = "runs" =>
    /\ mp \in {"main.py", "check main", "loop", "check loop", "top", "pass"}
    /\ mp \in {"check main", "check loop", "top"} => reason = 1
    /\ mp \in {"check loop", "top", "pass"} =>
         ~ pending /\ hook # "interrupt"
    /\ reason = 2 => ~ Suspended

OnceInv == MailOnce /\ ReasonPlaces /\ NoFurtherRound /\ ThreadPlaces

RestartInv == /\ RestartTypeOK /\ MutexHolders /\ RoundsCounted
              /\ MaxDtrs <= 1 => DtrOnce
              /\ OneRequest /\ ~ raced => OnceInv /\ ~ Orphaned

-----------------------------------------------------------------------------
(***************************************************************************)
(* The steps of mp_task and of the thread, with those that need no         *)
(* fairness.                                                               *)
(***************************************************************************)
MpAny     == MpStep \/ MpEnds \/ MpLoopDies \/ MpBootInterrupted
ThreadAny == \/ ThreadStarts \/ ThreadTakes \/ ThreadGives
             \/ ThreadInterrupted

(***************************************************************************)
(* A step of a task leaves the frame of the task alone.                    *)
(***************************************************************************)
LEMMA Frames == /\ CommStep => CommFrame
                /\ HookStep => HookFrame
                /\ MpAny => MpFrame
<1>1. CommStep => CommFrame
  BY DEF CommStep, Head, Err, LastBlock, ReadMail, SetFlag, DtrRequest,
         DtrAnswered, DtrTimeout
<1>2. HookStep => HookFrame
  BY DEF HookStep, HookSeesFlag, HookTakes, HookAnswers, HookSuspends,
         HookInterrupts, HookWaits, HookRound, HookSeesExecuted, HookClears
<1>3. MpAny => MpFrame
  BY DEF MpAny, MpStep, MpMounts, MpMountTimeout, MpMounted, MpTop, MpClaims,
         MpAfterOperation, MpOpens, MpInterrupted, MpCheckMain, MpCheckLoop,
         MpResets, MpEnds, MpLoopDies, MpBootInterrupted
<1> QED BY <1>1, <1>2, <1>3

(***************************************************************************)
(* Types.  The counters of the communication task are guarded by their     *)
(* bounds, the rounds of the main task by RoundsCounted.                   *)
(***************************************************************************)
LEMMA CommTypes ==
  ASSUME RestartTypeOK, CommStep
  PROVE  RestartTypeOK'
<1>1. HookTypeOK' /\ MpTypeOK'
  BY Frames DEF RestartTypeOK, HookTypeOK, MpTypeOK, CommFrame, hookVars,
     mpVars
<1>2. CommTypeOK'
  BY DEF RestartTypeOK, CommTypeOK, CommStep, Head, Err, LastBlock, ReadMail,
         SetFlag, DtrRequest, DtrAnswered, DtrTimeout
<1>3. CounterTypeOK'
  <2>1. heads' = heads \/ (heads + errs < MaxRequests /\ heads' = heads + 1)
    BY DEF CommStep, Head, Err, LastBlock, ReadMail, SetFlag, DtrRequest,
           DtrAnswered, DtrTimeout
  <2>2. errs' = errs \/ (heads + errs < MaxRequests /\ errs' = errs + 1)
    BY DEF CommStep, Head, Err, LastBlock, ReadMail, SetFlag, DtrRequest,
           DtrAnswered, DtrTimeout
  <2>3. dtrs' = dtrs \/ (dtrs < MaxDtrs /\ dtrs' = dtrs + 1)
    BY DEF CommStep, Head, Err, LastBlock, ReadMail, SetFlag, DtrRequest,
           DtrAnswered, DtrTimeout
  <2> QED BY <2>1, <2>2, <2>3, RestartAssumption
          DEF RestartTypeOK, CounterTypeOK
<1>4. SharedTypeOK'
  <2>1. flash' \in (0..MaxRequests) \cup {Partial}
    BY RestartAssumption
       DEF RestartTypeOK, CounterTypeOK, SharedTypeOK, CommStep, Head, Err,
           LastBlock, ReadMail, SetFlag, DtrRequest, DtrAnswered, DtrTimeout
  <2>2. reason' \in {0, 1, 2}
    BY DEF RestartTypeOK, SharedTypeOK, CommStep, Head, Err, LastBlock,
           ReadMail, SetFlag, DtrRequest, DtrAnswered, DtrTimeout
  <2>3. /\ restart_flag' \in BOOLEAN
        /\ exec_status' \in {"UPDATE", "EXECUTED"}
        /\ dtr_require' \in BOOLEAN /\ dtr_respond' \in BOOLEAN
        /\ raced' \in BOOLEAN
    BY DEF RestartTypeOK, SharedTypeOK, Outlives, dtrVars, CommStep, Head,
           Err, LastBlock, ReadMail, SetFlag, DtrRequest, DtrAnswered,
           DtrTimeout
  <2>4. UNCHANGED <<pending, fatfs>>
    BY Frames DEF CommFrame
  <2> QED BY <2>1, <2>2, <2>3, <2>4 DEF RestartTypeOK, SharedTypeOK
<1> QED BY <1>1, <1>2, <1>3, <1>4 DEF RestartTypeOK

LEMMA HookTypes ==
  ASSUME RestartTypeOK, RoundsCounted, HookStep
  PROVE  RestartTypeOK'
<1>1. CommTypeOK' /\ CounterTypeOK'
  BY Frames DEF RestartTypeOK, CommTypeOK, CounterTypeOK, HookFrame, commVars
<1>2. HookTypeOK'
  BY RestartAssumption
     DEF RestartTypeOK, HookTypeOK, RoundsCounted, HookStep, HookSeesFlag,
         HookTakes, HookAnswers, HookSuspends, HookInterrupts, HookWaits,
         HookRound, HookSeesExecuted, HookClears
<1>3. MpTypeOK'
  BY Frames
     DEF RestartTypeOK, MpTypeOK, HookFrame, mpVars, HookStep, HookSeesFlag,
         HookTakes, HookAnswers, HookSuspends, HookInterrupts, HookWaits,
         HookRound, HookSeesExecuted, HookClears
<1>4. SharedTypeOK'
  BY Frames
     DEF RestartTypeOK, SharedTypeOK, HookFrame, dtrVars, HookStep,
         HookSeesFlag, HookTakes, HookAnswers, HookSuspends, HookInterrupts,
         HookWaits, HookRound, HookSeesExecuted, HookClears
<1> QED BY <1>1, <1>2, <1>3, <1>4 DEF RestartTypeOK

LEMMA MpTypes ==
  ASSUME RestartTypeOK, MpAny
  PROVE  RestartTypeOK'
<1>1. CommTypeOK' /\ CounterTypeOK' /\ HookTypeOK'
  BY Frames DEF RestartTypeOK, CommTypeOK, CounterTypeOK, HookTypeOK, MpFrame,
                commVars, hookVars
<1>2. MpTypeOK'
  BY Frames
     DEF RestartTypeOK, MpTypeOK, SharedTypeOK, MpAny, MpStep, MpMounts,
         MpMountTimeout, MpMounted, MpTop, MpClaims, MpAfterOperation, MpOpens,
         MpInterrupted, MpCheckMain, MpCheckLoop, MpResets, MpEnds,
         MpLoopDies, MpBootInterrupted
<1>3. SharedTypeOK'
  <2>1. reason' \in {0, 1, 2}
    BY DEF RestartTypeOK, SharedTypeOK, MpAny, MpStep, MpMounts,
         MpMountTimeout, MpMounted, MpTop, MpClaims, MpAfterOperation, MpOpens,
         MpInterrupted, MpCheckMain, MpCheckLoop, MpResets, MpEnds,
         MpLoopDies, MpBootInterrupted
  <2>2. /\ pending' \in BOOLEAN
        /\ exec_status' \in {"UPDATE", "EXECUTED"}
        /\ fatfs' \in {"free", "hook", "mp", "thread"}
        /\ raced' \in BOOLEAN
    BY DEF RestartTypeOK, SharedTypeOK, Outlives, MpAny, MpStep, MpMounts,
         MpMountTimeout, MpMounted, MpTop, MpClaims, MpAfterOperation, MpOpens,
         MpInterrupted, MpCheckMain, MpCheckLoop, MpResets, MpEnds,
         MpLoopDies, MpBootInterrupted
  <2>3. UNCHANGED <<flash, restart_flag, dtr_require, dtr_respond>>
    BY Frames DEF MpFrame, dtrVars
  <2> QED BY <2>1, <2>2, <2>3 DEF RestartTypeOK, SharedTypeOK
<1> QED BY <1>1, <1>2, <1>3 DEF RestartTypeOK

LEMMA ThreadTypes ==
  ASSUME RestartTypeOK, ThreadAny
  PROVE  RestartTypeOK'
<1>1. CommTypeOK' /\ CounterTypeOK' /\ HookTypeOK' /\ MpTypeOK'
  BY DEF RestartTypeOK, CommTypeOK, CounterTypeOK, HookTypeOK, MpTypeOK,
         commVars, hookVars, mpVars, ThreadAny, ThreadStarts, ThreadTakes,
         ThreadGives, ThreadInterrupted
<1>2. SharedTypeOK'
  BY DEF RestartTypeOK, SharedTypeOK, dtrVars, Outlives, ThreadAny,
         ThreadStarts, ThreadTakes, ThreadGives, ThreadInterrupted
<1> QED BY <1>1, <1>2 DEF RestartTypeOK

(***************************************************************************)
(* The mutex, the rounds and the DTR semaphores.                           *)
(***************************************************************************)
LEMMA MutexKept ==
  ASSUME RestartTypeOK, MutexHolders, Next
  PROVE  MutexHolders'
<1>1. CASE CommStep
  BY <1>1, Frames DEF CommFrame, hookVars, mpVars, MutexHolders
<1>2. CASE HookStep
  BY <1>2 DEF RestartTypeOK, HookTypeOK, MpTypeOK, SharedTypeOK, MutexHolders,
     HookFrame, mpVars, HookStep,
     HookSeesFlag, HookTakes, HookAnswers, HookSuspends, HookInterrupts,
     HookWaits, HookRound, HookSeesExecuted, HookClears
<1>3. CASE MpAny
  BY <1>3 DEF RestartTypeOK, HookTypeOK, MpTypeOK, SharedTypeOK, MutexHolders,
     MpFrame, hookVars, MpAny, MpStep,
     MpMounts, MpMountTimeout, MpMounted, MpTop, MpClaims, MpAfterOperation,
     MpOpens, MpInterrupted, MpCheckMain, MpCheckLoop, MpResets, MpEnds,
     MpLoopDies, MpBootInterrupted
<1>4. CASE ThreadAny
  BY <1>4 DEF RestartTypeOK, HookTypeOK, MpTypeOK, SharedTypeOK, MutexHolders,
     hookVars, mpVars, ThreadAny,
     ThreadStarts, ThreadTakes, ThreadGives, ThreadInterrupted
<1> QED BY <1>1, <1>2, <1>3, <1>4 DEF Next, MpAny, ThreadAny

LEMMA RoundsKept ==
  ASSUME RestartTypeOK, RoundsCounted, Next
  PROVE  RoundsCounted'
<1>1. CASE HookStep
  BY <1>1, RestartAssumption DEF RestartTypeOK, HookTypeOK, RoundsCounted,
     HookStep,
     HookSeesFlag, HookTakes, HookAnswers, HookSuspends, HookInterrupts,
     HookWaits, HookRound, HookSeesExecuted, HookClears
<1>2. CASE CommStep \/ MpAny \/ ThreadAny
  <2>1. UNCHANGED <<hook, count>>
    BY <1>2, Frames DEF CommFrame, MpFrame, hookVars, ThreadAny,
       ThreadStarts, ThreadTakes, ThreadGives, ThreadInterrupted
  <2> QED BY <2>1 DEF RoundsCounted
<1> QED BY <1>1, <1>2 DEF Next, MpAny, ThreadAny

LEMMA DtrKept ==
  ASSUME RestartTypeOK, DtrOnce, Next, MaxDtrs <= 1
  PROVE  DtrOnce'
<1>1. CASE CommStep
  <2>1. UNCHANGED hook
    BY <1>1, Frames DEF CommFrame, hookVars
  <2>2. dtrs \in 0..MaxDtrs /\ dtrs < MaxDtrs => dtrs = 0 /\ dtrs + 1 > 0
    BY RestartAssumption
  <2>3. CASE DtrRequest
    <3>1. dtrs = 0 /\ dtrs' > 0
      BY <2>2, <2>3 DEF RestartTypeOK, CounterTypeOK, DtrRequest
    <3>2. ~ (dtrs > 0)
      BY <3>1
    <3>3. ~ dtr_respond'
      BY <2>3, <3>2 DEF DtrOnce, DtrRequest
    <3> QED BY <3>1, <3>3 DEF DtrOnce
  <2>4. CASE ~ DtrRequest
    <3>1. dtrs' = dtrs
      BY <1>1, <2>4 DEF CommStep, Head, Err, LastBlock, ReadMail, SetFlag,
                         DtrAnswered, DtrTimeout, dtrVars
    <3>2. dtr_require' = dtr_require
      BY <1>1, <2>4 DEF CommStep, Head, Err, LastBlock, ReadMail, SetFlag,
                         DtrAnswered, DtrTimeout, dtrVars
    <3>3. dtr_respond' = dtr_respond \/ dtr_respond' = FALSE
      BY <1>1, <2>4 DEF CommStep, Head, Err, LastBlock, ReadMail, SetFlag,
                         DtrAnswered, DtrTimeout, dtrVars
    <3>4. comm' = "dtr" => comm = "dtr"
      BY <1>1, <2>4 DEF CommStep, Head, Err, LastBlock, ReadMail, SetFlag,
                         DtrAnswered, DtrTimeout, dtrVars
    <3> QED BY <2>1, <3>1, <3>2, <3>3, <3>4 DEF DtrOnce
  <2> QED BY <2>3, <2>4
<1>2. CASE HookStep
  BY <1>2 DEF DtrOnce, HookFrame, commVars, dtrVars, HookStep, HookSeesFlag,
     HookTakes, HookAnswers, HookSuspends, HookInterrupts, HookWaits,
     HookRound, HookSeesExecuted, HookClears
<1>3. CASE MpAny \/ ThreadAny
  <2>1. UNCHANGED <<comm, dtrs, hook, dtr_require, dtr_respond>>
    BY <1>3, Frames DEF MpFrame, commVars, hookVars, dtrVars, ThreadAny,
       ThreadStarts, ThreadTakes, ThreadGives, ThreadInterrupted
  <2> QED BY <2>1 DEF DtrOnce
<1> QED BY <1>1, <1>2, <1>3 DEF Next, MpAny, ThreadAny
(***************************************************************************)
(* One request.  A second upload or error ends the claim, so that a step   *)
(* that keeps it leaves at most the first of them.                         *)
(***************************************************************************)
LEMMA OneRequestBack ==
  ASSUME RestartTypeOK, Next, OneRequest'
  PROVE  OneRequest
<1>1. heads' = heads \/ heads' = heads + 1
  BY Frames DEF Next, CommStep, Head, Err, LastBlock, ReadMail, SetFlag,
     DtrRequest, DtrAnswered, DtrTimeout, MpAny, MpFrame, HookFrame, commVars,
     ThreadStarts, ThreadTakes, ThreadGives, ThreadInterrupted
<1>2. errs' = errs \/ errs' = errs + 1
  BY Frames DEF Next, CommStep, Head, Err, LastBlock, ReadMail, SetFlag,
     DtrRequest, DtrAnswered, DtrTimeout, MpAny, MpFrame, HookFrame, commVars,
     ThreadStarts, ThreadTakes, ThreadGives, ThreadInterrupted
<1>3. heads \in Nat /\ errs \in Nat
  BY RestartAssumption DEF RestartTypeOK, CounterTypeOK
<1> QED BY <1>1, <1>2, <1>3 DEF OneRequest

(***************************************************************************)
(* What was recorded of a late thread stays recorded.                      *)
(***************************************************************************)
LEMMA RacedBack ==
  ASSUME Next, ~ raced'
  PROVE  ~ raced
<1>1. CASE CommStep
  BY <1>1 DEF Outlives, CommStep, Head, Err, LastBlock, ReadMail, SetFlag,
     DtrRequest, DtrAnswered, DtrTimeout
<1>2. CASE HookStep
  BY <1>2, Frames DEF HookFrame
<1>3. CASE MpAny
  BY <1>3 DEF Outlives, MpAny, MpStep, MpMounts, MpMountTimeout, MpMounted,
     MpTop, MpClaims, MpAfterOperation, MpOpens, MpInterrupted, MpCheckMain,
     MpCheckLoop, MpResets, MpEnds, MpLoopDies, MpBootInterrupted
<1>4. CASE ThreadAny
  BY <1>4 DEF Outlives, ThreadAny, ThreadStarts, ThreadTakes, ThreadGives,
     ThreadInterrupted
<1> QED BY <1>1, <1>2, <1>3, <1>4 DEF Next, MpAny, ThreadAny

\* The values of the reason differ.
LEMMA Reasons == 0 # 1 /\ 0 # 2 /\ 1 # 2
OBVIOUS

(***************************************************************************)
(* The communication task.  Only ReadMail, which finds the name once, and  *)
(* SetFlag concern the restart.                                            *)
(***************************************************************************)
LEMMA CommOnce ==
  ASSUME RestartTypeOK, OnceInv, ~ Orphaned, OneRequest', OneRequest, ~ raced',
         CommStep
  PROVE  OnceInv' /\ ~ Orphaned'
<1>1. UNCHANGED <<hook, mp, thread, pending, fatfs>>
  BY Frames DEF CommFrame, hookVars, mpVars
<1>2. ~ Orphaned'
  BY <1>1 DEF Orphaned
<1>3. heads \in Nat /\ errs \in Nat
  BY RestartAssumption DEF RestartTypeOK, CounterTypeOK
<1>4. /\ comm \in {"commands", "set flag", "dtr"}
      /\ mail \in {"none", "ready", "main.py"}
      /\ unread \in BOOLEAN /\ transfer \in BOOLEAN
      /\ restart_flag \in BOOLEAN
  BY DEF RestartTypeOK, CommTypeOK, SharedTypeOK
<1> USE DEF OnceInv, MailOnce, ReasonPlaces, NoFurtherRound, ThreadPlaces,
            ReadDone, Interrupted, Suspended
<1>5. CASE Head
  <2>1. heads # 1 /\ heads' = 1
    <3>1. heads' = heads + 1 /\ errs' = errs
      BY ONLY <1>5 DEF Head
    <3>2. heads' + errs' <= 1
      BY ONLY OneRequest' DEF OneRequest
    <3> QED BY ONLY <3>1, <3>2, <1>3
  <2>2. mail = "none" /\ ~ restart_flag /\ hook = "poll"
    BY <2>1, Zenon
  <2> QED BY <1>1, <1>2, <1>5, <2>1, <2>2, Zenon DEF Head
<1>6. CASE Err
  <2>1. heads # 1
    <3>1. heads' = heads /\ errs' = errs + 1
      BY ONLY <1>6 DEF Err
    <3>2. heads' + errs' <= 1
      BY ONLY OneRequest' DEF OneRequest
    <3> QED BY ONLY <3>1, <3>2, <1>3
  <2>2. mail = "none" /\ ~ restart_flag /\ hook = "poll"
    BY <2>1, Zenon
  <2> QED BY <1>1, <1>2, <1>6, <2>1, <2>2, Zenon DEF Err
<1>7. CASE LastBlock
  <2>1. heads = 1 /\ mail # "main.py" /\ ~ restart_flag
    BY <1>7 DEF LastBlock
  <2> QED BY <1>1, <1>2, <1>7, <2>1 DEF LastBlock
<1>8. CASE ReadMail
  <2>1. ~ restart_flag /\ comm # "set flag" /\ hook = "poll" /\ ~ ReadDone
    BY <1>8 DEF ReadMail
  <2>2. CASE mail # "main.py"
    BY <1>1, <1>2, <1>8, <2>1, <2>2 DEF ReadMail
  <2>3. CASE mail = "main.py"
    <3>1. comm' = "set flag" /\ reason' = 2 /\ mail' = mail /\ ~ unread'
      BY <1>8, <2>3 DEF ReadMail
    <3>2. UNCHANGED <<transfer, heads, restart_flag, exec_status>>
      BY <1>8, <2>3 DEF ReadMail
    <3>3. /\ ~ pending
          /\ thread = "runs" => mp \in {"main.py", "loop", "pass"}
      BY <1>8, <2>1, <2>3 DEF ReadMail, Outlives
    <3>4. MailOnce'
      <4>1. heads' = 1 /\ ~ transfer'
        BY <2>3, <3>2
      <4>2. ReadDone' /\ hook' = "poll" /\ ~ restart_flag'
        BY <1>1, <2>1, <2>3, <3>1, <3>2
      <4> QED BY ONLY <4>1, <4>2 DEF MailOnce
    <3>5. ReasonPlaces' /\ NoFurtherRound'
      <4>1. ReadDone' /\ reason' = 2 /\ reason' # 0 /\ reason' # 1
        BY <2>3, <3>1, Reasons, Zenon
      <4>2. ~ pending'
        BY <1>1, <3>3
      <4>3. NoFurtherRound'
        BY ONLY <4>1 DEF NoFurtherRound
      <4>4. ReasonPlaces'
        BY ONLY <4>1, <4>2, Zenon DEF ReasonPlaces
      <4> QED BY <4>3, <4>4
    <3>6. ThreadPlaces'
      BY <1>1, <2>1, <2>3, <3>1, <3>3
    <3> QED BY <1>2, <3>4, <3>5, <3>6
  <2> QED BY <2>2, <2>3
<1>9. CASE SetFlag
  BY <1>1, <1>2, <1>4, <1>9 DEF SetFlag
<1>10. CASE DtrRequest \/ DtrAnswered \/ DtrTimeout
  <2>1. UNCHANGED <<mail, unread, transfer, heads, reason, restart_flag,
                    exec_status>>
    BY <1>10 DEF DtrRequest, DtrAnswered, DtrTimeout
  <2>2. comm # "set flag" /\ comm' # "set flag"
    BY <1>10 DEF DtrRequest, DtrAnswered, DtrTimeout
  <2> QED BY <1>1, <1>2, <2>1, <2>2
<1> QED BY <1>5, <1>6, <1>7, <1>8, <1>9, <1>10 DEF CommStep

(***************************************************************************)
(* The main task.  It suspends the thread while it holds the mutex itself, *)
(* and does not go into a round once the status says EXECUTED.             *)
(***************************************************************************)
LEMMA HookOnce ==
  ASSUME RestartTypeOK, MutexHolders, OnceInv, ~ Orphaned, HookStep
  PROVE  OnceInv' /\ ~ Orphaned'
<1>1. UNCHANGED <<comm, mail, unread, transfer, heads, mp, reason,
                  exec_status>>
  BY Frames DEF HookFrame, commVars, mpVars
<1>2. restart_flag \in BOOLEAN /\ pending \in BOOLEAN
  BY DEF RestartTypeOK, SharedTypeOK
<1>3. ~ Orphaned'
  BY DEF Orphaned, MutexHolders, HookStep, HookSeesFlag, HookTakes,
     HookAnswers, HookSuspends, HookInterrupts, HookWaits, HookRound,
     HookSeesExecuted, HookClears
<1> USE DEF OnceInv, MailOnce, ReasonPlaces, NoFurtherRound, ThreadPlaces,
            ReadDone, Interrupted, Suspended
<1>4. CASE HookSeesFlag \/ HookTakes \/ HookAnswers
  <2>1. /\ hook' \in {"take", "dtr", "answered"} /\ restart_flag
        /\ hook \in {"poll", "take", "dtr"}
        /\ UNCHANGED <<thread, restart_flag, pending>>
    BY <1>4 DEF HookSeesFlag, HookTakes, HookAnswers
  <2>2. ~ Interrupted /\ ~ Interrupted' /\ ~ Suspended'
    BY <1>1, <2>1
  <2>3. MailOnce' /\ NoFurtherRound'
    BY <1>1, <2>1
  <2>4. ReasonPlaces' /\ ThreadPlaces'
    BY <1>1, <2>1, <2>2
  <2> QED BY <1>3, <2>3, <2>4
<1>5. CASE HookSuspends
  BY <1>1, <1>3, <1>5 DEF HookSuspends
<1>6. CASE HookInterrupts
  BY <1>1, <1>3, <1>6 DEF HookInterrupts
<1>7. CASE HookWaits
  BY <1>1, <1>3, <1>7 DEF HookWaits
<1>8. CASE HookRound
  <2>1. /\ hook = "round" /\ hook' \in {"wait", "clear"}
        /\ UNCHANGED <<thread, restart_flag>>
    BY <1>8 DEF HookRound
  <2>2. Interrupted /\ Interrupted' /\ Suspended /\ Suspended'
    BY <1>1, <2>1
  <2>3. MailOnce' /\ NoFurtherRound'
    BY <1>1, <2>1
  <2>4. ReasonPlaces'
    BY <1>1, <2>2
  <2>5. ThreadPlaces'
    <3>1. thread = "runs" => mp \notin {"check loop", "top", "pass"}
      BY <2>1, <2>2 DEF RestartTypeOK, SharedTypeOK
    <3>2. thread = "runs" => reason # 2
      BY <2>2
    <3> QED BY <1>1, <2>1, <3>1, <3>2
  <2> QED BY <1>3, <2>3, <2>4, <2>5
<1>9. CASE HookSeesExecuted
  BY <1>1, <1>3, <1>9 DEF HookSeesExecuted
<1>10. CASE HookClears
  BY <1>1, <1>3, <1>10 DEF HookClears
<1> QED BY <1>4, <1>5, <1>6, <1>7, <1>8, <1>9, <1>10 DEF HookStep

(***************************************************************************)
(* mp_task.  It deletes a thread only after the hook suspended it, and     *)
(* starts one only when the interrupt of the upload is behind or the       *)
(* upload still to come.  A script that ends by itself with a running      *)
(* thread and without raced leaves reason 1 and no interrupt to come.      *)
(***************************************************************************)
LEMMA MpOnce ==
  ASSUME RestartTypeOK, MutexHolders, OnceInv, ~ Orphaned, ~ raced', MpAny
  PROVE  OnceInv' /\ ~ Orphaned'
<1>1. UNCHANGED <<comm, mail, unread, transfer, heads, hook, restart_flag>>
  BY Frames DEF MpFrame, commVars, hookVars
<1>2. reason \in {0, 1, 2} /\ pending \in BOOLEAN
  BY DEF RestartTypeOK, SharedTypeOK
<1>3. mp = "reset" => thread # "runs"
  BY DEF OnceInv, ThreadPlaces
<1>4. ~ Orphaned'
  BY <1>3 DEF Orphaned, MutexHolders, MpAny, MpStep, MpMounts,
     MpMountTimeout, MpMounted, MpTop, MpClaims, MpAfterOperation, MpOpens,
     MpInterrupted, MpCheckMain, MpCheckLoop, MpResets, MpEnds,
     MpLoopDies, MpBootInterrupted
<1>17. /\ ReadDone' <=> ReadDone
       /\ Interrupted' <=> Interrupted
       /\ Suspended' <=> Suspended
  BY <1>1 DEF ReadDone, Interrupted, Suspended
<1>18. MailOnce'
  BY <1>1, <1>17 DEF OnceInv, MailOnce
<1>19. Interrupted => ReadDone
  BY DEF Interrupted
<1> USE <1>17, <1>18, <1>19
    DEF OnceInv, ReasonPlaces, NoFurtherRound, ThreadPlaces
<1>5. CASE MpMounts \/ MpMounted
  <2>1. /\ mp \in {"mount", "mounted"} /\ mp' \in {"mounted", "top"}
        /\ UNCHANGED <<thread, reason, exec_status, pending>>
    BY <1>5 DEF MpMounts, MpMounted
  <2> QED BY <1>1, <1>4, <2>1
<1>6. CASE MpMountTimeout
  BY <1>6 DEF MpMountTimeout, Orphaned
<1>7. CASE MpTop
  BY <1>1, <1>2, <1>4, <1>7 DEF MpTop
<1>8. CASE MpClaims
  <2>1. /\ mp = "claim" /\ mp' = "after" /\ reason' = 1
        /\ UNCHANGED <<thread, exec_status, pending>>
    BY <1>8 DEF MpClaims
  <2>2. thread # "runs"
    BY <2>1
  <2> QED BY <1>1, <1>4, <2>1, <2>2
<1>9. CASE MpAfterOperation
  BY <1>1, <1>4, <1>9 DEF MpAfterOperation
<1>10. CASE MpOpens
  BY <1>1, <1>4, <1>10 DEF MpOpens
<1>11. CASE MpEnds \/ MpLoopDies
  <2>1. /\ \/ mp = "main.py" /\ mp' = "check main"
           \/ mp = "loop" /\ mp' = "check loop"
        /\ UNCHANGED <<thread, reason, exec_status, pending>>
    BY <1>11 DEF MpEnds, MpLoopDies
  <2>2. thread = "runs" => reason # 2 /\ ~ pending /\ hook # "interrupt"
    BY <1>11 DEF MpEnds, MpLoopDies, Outlives, Leaving
  <2>3. reason # 0
    BY <2>1
  <2>4. ReasonPlaces' /\ NoFurtherRound'
    BY ONLY OnceInv, <1>1, <1>17, <1>19, <2>1, Zenon
       DEF OnceInv, ReasonPlaces, NoFurtherRound
  <2>5. ThreadPlaces'
    <3>1. thread = "runs" => reason = 1
      BY <1>2, <2>2, <2>3
    <3> QED BY ONLY <1>1, <2>1, <2>2, <3>1, Reasons, Zenon DEF ThreadPlaces
  <2> QED BY <1>4, <2>4, <2>5
<1>12. CASE MpInterrupted
  <2>1. /\ pending /\ ~ pending' /\ Interrupted
        /\ UNCHANGED <<thread, reason, exec_status>>
    BY <1>12 DEF MpInterrupted
  <2>2. CASE mp = "main.py" /\ mp' = "check main"
    <3>1. thread = "runs" => reason = 1
      BY <1>2, <2>1, <2>2 DEF Suspended
    <3> QED BY <1>1, <1>4, <2>1, <2>2, <3>1, Reasons, Zenon
  <2>3. CASE mp = "loop" /\ mp' = "check loop"
    <3>1. thread = "runs" => reason = 1
      BY <1>2, <2>1, <2>3 DEF Suspended
    <3>2. hook # "interrupt"
      BY <2>1 DEF MailOnce, Interrupted
    <3>3. ReasonPlaces' /\ NoFurtherRound'
      BY <1>1, <2>1, <2>3, Zenon
    <3>4. ThreadPlaces'
      BY ONLY <1>1, <2>1, <2>3, <3>1, <3>2, Reasons, Zenon DEF ThreadPlaces
    <3> QED BY <1>4, <3>3, <3>4
  <2>4. CASE mp = "pass" /\ mp' = "reset"
    BY <1>1, <1>4, <2>1, <2>4, Zenon
  <2> QED BY <1>12, <2>2, <2>3, <2>4 DEF MpInterrupted
<1>13. CASE MpCheckMain
  <2>1. /\ mp = "check main" /\ UNCHANGED <<reason, exec_status, pending>>
        /\ thread = "runs" => reason = 1
        /\ reason \in {1, 2}
    BY <1>2, <1>13 DEF MpCheckMain
  <2>2. CASE reason = 2 /\ mp' = "reset" /\ UNCHANGED thread
    BY <1>1, <1>4, <2>1, <2>2, Reasons, Zenon
  <2>3. CASE reason = 1 /\ mp' = "loop" /\ thread' = "runs"
    BY <1>1, <1>4, <2>1, <2>3, Reasons, Zenon
  <2> QED BY <1>13, <2>1, <2>2, <2>3 DEF MpCheckMain
<1>14. CASE MpCheckLoop
  <2>1. /\ mp = "check loop"
        /\ UNCHANGED <<thread, reason, exec_status, pending>>
        /\ mp' = IF reason = 2 THEN "reset" ELSE "top"
    BY <1>14 DEF MpCheckLoop
  <2>2. CASE reason = 2 /\ mp' = "reset"
    BY <1>1, <1>4, <2>1, <2>2, Reasons, Zenon
  <2>3. CASE reason # 2 /\ mp' = "top"
    BY <1>1, <1>4, <2>1, <2>3, Zenon
  <2> QED BY <2>1, <2>2, <2>3
<1>15. CASE MpResets
  BY <1>1, <1>4, <1>15 DEF MpResets
<1>16. CASE MpBootInterrupted
  BY <1>1, <1>4, <1>16 DEF MpBootInterrupted
<1> QED BY <1>5, <1>6, <1>7, <1>8, <1>9, <1>10, <1>11, <1>12, <1>13, <1>14,
           <1>15, <1>16 DEF MpAny, MpStep

LEMMA ThreadOnce ==
  ASSUME RestartTypeOK, OnceInv, ~ Orphaned, ~ raced', ThreadAny
  PROVE  OnceInv' /\ ~ Orphaned'
<1>1. UNCHANGED <<comm, mail, unread, transfer, heads, hook, restart_flag, mp,
                  reason, exec_status>>
  BY DEF ThreadAny, ThreadStarts, ThreadTakes, ThreadGives, ThreadInterrupted,
         commVars, hookVars, mpVars
<1>2. thread' = "runs"
  BY DEF ThreadAny, ThreadStarts, ThreadTakes, ThreadGives, ThreadInterrupted
<1>3. pending' = pending \/ pending' = FALSE
  BY DEF ThreadAny, ThreadStarts, ThreadTakes, ThreadGives, ThreadInterrupted
<1>4. ~ Orphaned'
  BY <1>2 DEF Orphaned
<1>5. MailOnce' /\ NoFurtherRound'
  BY <1>1 DEF OnceInv, MailOnce, NoFurtherRound, ReadDone
<1>6. /\ ReadDone' <=> ReadDone
      /\ Interrupted' <=> Interrupted
      /\ Suspended' <=> Suspended
  BY <1>1 DEF Interrupted, Suspended, ReadDone
<1>7. ReasonPlaces'
  <2>1. mp' = mp /\ reason' = reason
    BY <1>1
  <2>2. (pending => Interrupted)'
    BY ONLY OnceInv, <1>3, <1>6, Zenon DEF OnceInv, ReasonPlaces
  <2> QED BY ONLY OnceInv, <1>6, <2>1, <2>2, Zenon DEF OnceInv, ReasonPlaces
<1>8. ThreadPlaces'
  <2>1. CASE thread = "runs"
    BY ONLY OnceInv, <1>1, <1>3, <1>6, <2>1, Zenon DEF OnceInv, ThreadPlaces
  <2>2. CASE thread # "runs"
    <3>1. mp = "main.py" /\ reason # 2
      BY <2>2 DEF Outlives, ThreadAny, ThreadStarts, ThreadTakes, ThreadGives,
         ThreadInterrupted
    <3>2. mp' = "main.py" /\ reason' # 2
      BY <1>1, <3>1
    <3> QED BY ONLY <3>2 DEF ThreadPlaces
  <2> QED BY <2>1, <2>2
<1> QED BY <1>4, <1>5, <1>7, <1>8 DEF OnceInv

LEMMA OnceKept ==
  ASSUME RestartInv, Next, OneRequest', ~ raced'
  PROVE  OnceInv' /\ ~ Orphaned'
<1>1. OneRequest /\ OnceInv /\ ~ Orphaned
  BY OneRequestBack, RacedBack DEF RestartInv
<1> QED BY <1>1, CommOnce, HookOnce, MpOnce, ThreadOnce
        DEF RestartInv, Next, MpAny, ThreadAny
-----------------------------------------------------------------------------
LEMMA RestartInit == Init => RestartInv
<1> SUFFICES ASSUME Init PROVE RestartInv
  OBVIOUS
<1>1. /\ heads \in 0..MaxRequests /\ errs \in 0..MaxRequests /\ dtrs \in 0..MaxDtrs
      /\ count \in 0..(GiveUp + 1)
      /\ flash \in 0..MaxRequests
      /\ reason \in {0, 1, 2}
  BY RestartAssumption DEF Init
<1>2. RestartTypeOK
  BY ONLY Init, <1>1 DEF Init, RestartTypeOK, CommTypeOK, CounterTypeOK,
     HookTypeOK, MpTypeOK,
          SharedTypeOK
<1>3. MutexHolders /\ RoundsCounted /\ DtrOnce
  BY DEF Init, MutexHolders, RoundsCounted, DtrOnce
<1>4. OnceInv /\ ~ Orphaned
  BY DEF Init, OnceInv, MailOnce, ReasonPlaces, NoFurtherRound, ThreadPlaces,
         ReadDone, Interrupted, Suspended, Orphaned
<1> QED BY <1>2, <1>3, <1>4 DEF RestartInv

LEMMA RestartStep == RestartInv /\ [Next]_vars => RestartInv'
<1> SUFFICES ASSUME RestartInv, [Next]_vars PROVE RestartInv'
  OBVIOUS
<1> USE DEF RestartInv
<1>1. CASE Next
  <2>1. RestartTypeOK'
    BY <1>1, CommTypes, HookTypes, MpTypes, ThreadTypes
       DEF Next, MpAny, ThreadAny
  <2>2. MutexHolders'
    BY <1>1, MutexKept
  <2>3. RoundsCounted'
    BY <1>1, RoundsKept
  <2>4. (MaxDtrs <= 1 => DtrOnce)'
    BY <1>1, DtrKept
  <2>5. (OneRequest /\ ~ raced => OnceInv /\ ~ Orphaned)'
    BY <1>1, OnceKept
  <2> QED BY <2>1, <2>2, <2>3, <2>4, <2>5
<1>2. CASE UNCHANGED vars
  <2> USE <1>2 DEF vars, commVars, hookVars, mpVars, dtrVars
  <2>1. CommTypeOK' /\ CounterTypeOK' /\ HookTypeOK'
    BY DEF RestartTypeOK, CommTypeOK, CounterTypeOK, HookTypeOK
  <2>2. MpTypeOK'
    BY DEF RestartTypeOK, MpTypeOK
  <2>3. SharedTypeOK'
    BY DEF RestartTypeOK, SharedTypeOK
  <2>4. MutexHolders' /\ RoundsCounted'
    BY DEF MutexHolders, RoundsCounted
  <2>5. (MaxDtrs <= 1 => DtrOnce)'
    BY DEF DtrOnce
  <2>6. (OneRequest /\ ~ raced => OnceInv /\ ~ Orphaned)'
    BY DEF OneRequest, OnceInv, MailOnce, ReasonPlaces, NoFurtherRound,
           ThreadPlaces, ReadDone, Interrupted, Suspended, Orphaned
  <2> QED BY ONLY <2>1, <2>2, <2>3, <2>4, <2>5, <2>6 DEF RestartTypeOK
<1> QED BY <1>1, <1>2

(***************************************************************************)
(* The shared variables keep their types, the holders of the mutex are     *)
(* where they should be and the rounds are counted within their limit.     *)
(***************************************************************************)
THEOREM RestartInvariant == Spec => [](RestartTypeOK /\ MutexHolders)
<1>1. RestartInv => RestartTypeOK /\ MutexHolders
  BY DEF RestartInv
<1> QED BY <1>1, RestartInit, RestartStep, PTL DEF Spec

(***************************************************************************)
(* For every number of rounds and every interleaving: while the host has   *)
(* asked for one thing only and no thread outlived its script on the way   *)
(* of the restart, the thread that holds the file system's mutex is        *)
(* neither suspended by codey_main_task_hook_t nor deleted by mp_task,     *)
(* though main.py and the event loop may end by themselves before and      *)
(* after.                                                                  *)
(***************************************************************************)
THEOREM RestartHolderAlive == Spec => []HolderAlive
<1>1. RestartInv => HolderAlive
  BY DEF RestartInv, HolderAlive
<1> QED BY <1>1, RestartInit, RestartStep, PTL DEF Spec

(***************************************************************************)
(* As long as the host sends one DTR request in a session, it is granted   *)
(* only while the main task keeps everybody else from the file system.     *)
(***************************************************************************)
THEOREM OneDtrGrantedQuiet ==
  ASSUME MaxDtrs <= 1
  PROVE  Spec => DtrGrantedQuiet
<1>1. RestartInv /\ DtrAnswered => fatfs = "hook"
  BY DEF RestartInv, DtrOnce, MutexHolders, DtrAnswered
<1>2. RestartInv /\ [Next]_vars => [DtrAnswered => fatfs = "hook"]_vars
  BY <1>1
<1> QED BY <1>2, RestartInit, RestartStep, PTL DEF Spec, DtrGrantedQuiet
=============================================================================
