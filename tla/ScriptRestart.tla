--------------------------- MODULE ScriptRestart ----------------------------
(***************************************************************************)
(* How an uploaded main.py comes to run.  Three tasks and the script's own *)
(* threads share plain global variables, two binary semaphores and the     *)
(* mutex of the file system:                                               *)
(*   - the communication task (codey_neurons_deal) receives the file,      *)
(*     reads the mailbox of the file transfer and asks for a restart; it   *)
(*     also answers the host's request to pull DTR (codey_dtr_req);        *)
(*   - the main task (codey_main_task_hook_t) sees the request, suspends   *)
(*     the script's threads and interrupts the script;                     *)
(*   - mp_task runs main.py and the event loop, leaves them when           *)
(*     interrupted, and starts over when the reason is 2;                  *)
(*   - a thread that main.py or the event loop starts uses the file        *)
(*     system, and runs on when main.py or the loop ends.                  *)
(*                                                                         *)
(* A script is the number of the upload that wrote it.  The file transfer  *)
(* itself is NeuronsFtp; here its commands only change the mailbox and     *)
(* main.py.  Other tasks that hold the mutex for a moment (the music       *)
(* player, the library list) are the thread.                               *)
(***************************************************************************)
EXTENDS Naturals

CONSTANTS MaxRequests, \* bound: uploads of main.py that the host starts and
                       \* commands answered with an error, together
          MaxDtrs,     \* bound: DTR requests
          Again,       \* rounds between two interrupts: 20 in the code
          GiveUp,      \* rounds until the hook gives up: 100 in the code
          Partial,     \* main.py truncated by a header, not yet whole
          NoScript     \* nothing was run yet

ASSUME RestartAssumption ==
  /\ MaxRequests \in Nat /\ MaxDtrs \in Nat
  /\ Again \in Nat \ {0} /\ GiveUp \in Nat \ {0}
  /\ Partial \notin Nat /\ NoScript \notin Nat

VARIABLES
  comm, mail, unread, transfer, heads, errs, dtrs,  \* communication task
  hook, count,                                      \* main task
  mp, running,                                      \* mp_task
  thread,                                           \* a thread of the script
  flash,            \* main.py
  reason,           \* g_user_script_interrupt_reason
  restart_flag,     \* g_esp_restart_flag
  exec_status,      \* s_main_py_exec_status
  pending,          \* mp_pending_exception
  fatfs,            \* holder of g_fatfs_sema
  dtr_require, dtr_respond,  \* the binary semaphores of the DTR command
  raced             \* history: see Outlives

commVars == <<comm, mail, unread, transfer, heads, errs, dtrs>>
hookVars == <<hook, count>>
mpVars   == <<mp, running>>
dtrVars  == <<dtr_require, dtr_respond>>
vars     == <<commVars, hookVars, mpVars, thread, flash, reason,
              restart_flag, exec_status, pending, fatfs, dtrVars, raced>>

Init == /\ comm = "commands" /\ mail = "none" /\ unread = FALSE
        /\ transfer = FALSE /\ heads = 0 /\ errs = 0 /\ dtrs = 0
        /\ hook = "poll" /\ count = 0
        /\ mp = "mount" /\ running = NoScript
        /\ thread = "none"
        /\ flash = 0
        /\ reason = 0
        /\ restart_flag = FALSE
        /\ exec_status = "UPDATE"
        /\ pending = FALSE
        /\ fatfs = "free"
        /\ dtr_require = FALSE /\ dtr_respond = FALSE
        /\ raced = FALSE
-----------------------------------------------------------------------------
(***************************************************************************)
(* mp_thread_deinit deletes the threads that the main task has suspended   *)
(* before.  It meets a running one if main.py or the loop ends by itself   *)
(* meanwhile, or if a thread is started too late to be suspended; raced    *)
(* records that the code took such a way, not whether the mutex is held.   *)
(***************************************************************************)
Outlives(way) == raced' = (raced \/ way)

\* The script is to be left: the interrupt follows, or the test of the reason.
Leaving == reason = 2 \/ pending \/ hook = "interrupt"

\* What the steps of a task never change.
CommFrame == UNCHANGED <<hookVars, mpVars, thread, pending, fatfs>>
HookFrame == UNCHANGED <<commVars, mpVars, flash, reason, exec_status,
                         raced>>
MpFrame   == UNCHANGED <<commVars, hookVars, flash, restart_flag, dtrVars>>

(***************************************************************************)
(* The communication task.  A header truncates main.py and posts READY; it *)
(* is answered with an error when the mutex is not had in a second.        *)
(***************************************************************************)
Head == /\ comm = "commands"
        /\ heads + errs < MaxRequests
        /\ fatfs = "free"
        /\ heads' = heads + 1
        /\ transfer' = TRUE
        /\ flash' = Partial
        /\ mail' = "ready" /\ unread' = TRUE
        /\ CommFrame
        /\ UNCHANGED <<comm, errs, dtrs, reason, restart_flag, exec_status,
                       dtrVars, raced>>

(***************************************************************************)
(* Any command answered with an error ends the transfer and marks the      *)
(* mailbox unread, whatever it holds.                                      *)
(***************************************************************************)
Err == /\ comm = "commands"
       /\ heads + errs < MaxRequests
       /\ errs' = errs + 1
       /\ transfer' = FALSE
       /\ unread' = TRUE
       /\ CommFrame
       /\ UNCHANGED <<comm, mail, heads, dtrs, flash, reason, restart_flag,
                      exec_status, dtrVars, raced>>

(***************************************************************************)
(* The last block.  While the main task holds the mutex the write fails    *)
(* after a second, and the name is posted all the same.                    *)
(***************************************************************************)
LastBlock == /\ comm = "commands"
             /\ transfer
             /\ \/ fatfs = "free" /\ flash' = heads
                \/ fatfs = "hook" /\ UNCHANGED flash
             /\ transfer' = FALSE
             /\ mail' = "main.py" /\ unread' = TRUE
             /\ CommFrame
             /\ UNCHANGED <<comm, heads, errs, dtrs, reason, restart_flag,
                            exec_status, dtrVars, raced>>

\* Mutant of ReadMail: the restart is asked for without a reason.
ReadMailNoReason ==
  /\ comm = "commands" /\ unread
  /\ unread' = FALSE
  /\ exec_status' = IF mail = "ready" THEN "UPDATE" ELSE exec_status
  /\ comm' = IF mail = "main.py" THEN "set flag" ELSE comm
  /\ CommFrame
  /\ UNCHANGED <<mail, transfer, heads, errs, dtrs, flash, reason, restart_flag,
                 dtrVars, raced>>

(***************************************************************************)
(* codey_neurons_get_recv_file_name at the end of a round, and what the    *)
(* task does about it: the reason first, then the flag.                    *)
(***************************************************************************)
ReadMail ==
  /\ comm = "commands"
  /\ unread
  /\ unread' = FALSE
  /\ \/ /\ mail = "none"
        /\ UNCHANGED <<comm, reason, exec_status, raced>>
     \/ /\ mail = "ready"
        /\ exec_status' = "UPDATE"
        /\ UNCHANGED <<comm, reason, raced>>
     \/ /\ mail = "main.py"
        /\ reason' = 2
        /\ comm' = "set flag"
        /\ Outlives(thread = "runs"
                      /\ mp \in {"check main", "check loop", "top"})
        /\ UNCHANGED exec_status
  /\ CommFrame
  /\ UNCHANGED <<mail, transfer, heads, errs, dtrs, flash, restart_flag,
                 dtrVars>>

SetFlag == /\ comm = "set flag"
           /\ restart_flag' = TRUE
           /\ comm' = "commands"
           /\ CommFrame
           /\ UNCHANGED <<mail, unread, transfer, heads, errs, dtrs, flash,
                          reason, exec_status, dtrVars, raced>>

(***************************************************************************)
(* codey_dtr_req: give the require semaphore, wait two seconds for the     *)
(* respond semaphore.                                                      *)
(***************************************************************************)
DtrRequest == /\ comm = "commands"
              /\ dtrs < MaxDtrs
              /\ dtrs' = dtrs + 1
              /\ dtr_require' = TRUE
              /\ comm' = "dtr"
              /\ CommFrame
              /\ UNCHANGED <<mail, unread, transfer, heads, errs, flash,
                             reason, restart_flag, exec_status, dtr_respond,
                             raced>>

DtrAnswered == /\ comm = "dtr"
               /\ dtr_respond
               /\ dtr_respond' = FALSE
               /\ comm' = "commands"
               /\ CommFrame
               /\ UNCHANGED <<mail, unread, transfer, heads, errs, dtrs,
                              flash, reason, restart_flag, exec_status,
                              dtr_require, raced>>

DtrTimeout == /\ comm = "dtr"
              /\ ~ dtr_respond
              /\ comm' = "commands"
              /\ CommFrame
              /\ UNCHANGED <<mail, unread, transfer, heads, errs, dtrs,
                             flash, reason, restart_flag, exec_status,
                             dtrVars, raced>>
-----------------------------------------------------------------------------
(***************************************************************************)
(* The main task.  codey_script_update_pre_operation waits for other tasks *)
(* for a bounded time; then the mutex is tried once, without waiting.  If  *)
(* it is busy the hook is back in 100 ms, and the flag, which only the     *)
(* hook clears, is still set.                                              *)
(***************************************************************************)
HookSeesFlag == /\ hook = "poll"
                /\ restart_flag
                /\ hook' = "take"
                /\ HookFrame
                /\ UNCHANGED <<count, thread, restart_flag, pending, fatfs,
                               dtrVars>>

\* Mutant of HookTakes: the hook goes on without the mutex.
HookSkipsMutex == /\ hook = "take"
                  /\ hook' = "dtr"
                  /\ HookFrame
                  /\ UNCHANGED <<count, thread, restart_flag, pending, fatfs,
                                 dtrVars>>

HookTakes == /\ hook = "take"
             /\ fatfs = "free"
             /\ fatfs' = "hook"
             /\ hook' = "dtr"
             /\ HookFrame
             /\ UNCHANGED <<count, thread, restart_flag, pending, dtrVars>>

(***************************************************************************)
(* A DTR request is answered, and three seconds are left for it; without   *)
(* one the hook goes on after 200 ms.                                      *)
(***************************************************************************)
HookAnswers == /\ hook = "dtr"
               /\ dtr_require
               /\ dtr_require' = FALSE
               /\ dtr_respond' = TRUE
               /\ hook' = "answered"
               /\ HookFrame
               /\ UNCHANGED <<count, thread, restart_flag, pending, fatfs>>

(***************************************************************************)
(* A task that waits for the respond semaphore has it long before the      *)
(* three seconds are over.                                                 *)
(***************************************************************************)
HookSuspends ==
  /\ \/ hook = "dtr" /\ ~ dtr_require
     \/ hook = "answered" /\ ~ (comm = "dtr" /\ dtr_respond)
  /\ thread' = IF thread = "none" THEN "none" ELSE "suspended"
  /\ hook' = "interrupt"
  /\ HookFrame
  /\ UNCHANGED <<count, restart_flag, pending, fatfs, dtrVars>>

HookInterrupts == /\ hook = "interrupt"
                  /\ pending' = TRUE
                  /\ fatfs' = "free"
                  /\ count' = 1
                  /\ hook' = "wait"
                  /\ HookFrame
                  /\ UNCHANGED <<thread, restart_flag, dtrVars>>

(***************************************************************************)
(* The rounds of 50 ms until the script runs again.  Every Again rounds it *)
(* is interrupted again, and after GiveUp rounds the hook stops waiting.   *)
(***************************************************************************)
HookWaits == /\ hook = "wait"
             /\ exec_status # "EXECUTED"
             /\ hook' = "round"
             /\ HookFrame
             /\ UNCHANGED <<count, thread, restart_flag, pending, fatfs,
                            dtrVars>>

\* Mutants of HookRound: one round more than the counter may count; the
\* test that gives up is missing and the counter wraps.
HookRoundOneMore == /\ hook = "round"
                    /\ pending' = (pending \/ count % Again = 0)
                    /\ count' = count + 1
                    /\ hook' = IF count > GiveUp THEN "clear" ELSE "wait"
                    /\ HookFrame
                    /\ UNCHANGED <<thread, restart_flag, fatfs, dtrVars>>

HookRoundForever == /\ hook = "round"
                    /\ pending' = (pending \/ count % Again = 0)
                    /\ count' = (count + 1) % (GiveUp + 1)
                    /\ hook' = "wait"
                    /\ HookFrame
                    /\ UNCHANGED <<thread, restart_flag, fatfs, dtrVars>>

HookRound == /\ hook = "round"
             /\ pending' = (pending \/ count % Again = 0)
             /\ count' = count + 1
             /\ hook' = IF count + 1 > GiveUp THEN "clear" ELSE "wait"
             /\ HookFrame
             /\ UNCHANGED <<thread, restart_flag, fatfs, dtrVars>>

HookSeesExecuted == /\ hook = "wait"
                    /\ exec_status = "EXECUTED"
                    /\ hook' = "clear"
                    /\ HookFrame
                    /\ UNCHANGED <<count, thread, restart_flag, pending,
                                   fatfs, dtrVars>>

\* Mutant of HookClears: the flag is not reset.
HookKeepsFlag == /\ hook = "clear"
                 /\ count' = 0
                 /\ hook' = "poll"
                 /\ HookFrame
                 /\ UNCHANGED <<thread, restart_flag, pending, fatfs, dtrVars>>

(***************************************************************************)
(* The restart is over, whatever was asked for in between.  Nothing reads  *)
(* count before the next restart sets it to 1; here it is forgotten.       *)
(***************************************************************************)
HookClears == /\ hook = "clear"
              /\ restart_flag' = FALSE
              /\ count' = 0
              /\ hook' = "poll"
              /\ HookFrame
              /\ UNCHANGED <<thread, pending, fatfs, dtrVars>>
-----------------------------------------------------------------------------
(***************************************************************************)
(* mp_task.  The file system is mounted under the mutex.                   *)
(***************************************************************************)
MpMounts == /\ mp = "mount"
            /\ fatfs = "free"
            /\ fatfs' = "mp"
            /\ mp' = "mounted"
            /\ MpFrame
            /\ UNCHANGED <<running, thread, reason, exec_status, pending,
                             raced>>

(***************************************************************************)
(* The mutex is not had in ten seconds: its holder will never give it      *)
(* back.  The mount that _boot.py made stays.                              *)
(***************************************************************************)
MpMountTimeout == /\ mp = "mount"
                  /\ fatfs = "thread" /\ thread # "runs"
                  /\ mp' = "top"
                  /\ MpFrame
                  /\ UNCHANGED <<running, thread, reason, exec_status, pending,
                                 fatfs, raced>>

MpMounted == /\ mp = "mounted"
             /\ fatfs' = "free"
             /\ mp' = "top"
             /\ MpFrame
             /\ UNCHANGED <<running, thread, reason, exec_status, pending,
                             raced>>

(***************************************************************************)
(* The head of the loop: with reason 1 the script is out and               *)
(* esp32_pass.py sleeps forever; otherwise the reason is set to 1, in a    *)
(* step of its own.                                                        *)
(***************************************************************************)
MpTop == /\ mp = "top"
         /\ mp' = IF reason = 1 THEN "pass" ELSE "claim"
         /\ MpFrame
         /\ UNCHANGED <<running, thread, reason, exec_status, pending,
                        fatfs, raced>>

MpClaims == /\ mp = "claim"
            /\ reason' = 1
            /\ mp' = "after"
            /\ MpFrame
            /\ UNCHANGED <<running, thread, exec_status, pending, fatfs,
                           raced>>

(***************************************************************************)
(* codey_script_update_after_operation sets the status, then signals the   *)
(* restart with the RGB LED for 720 ms.  A round of the hook that began    *)
(* before the status was set is over by then.                              *)
(***************************************************************************)
MpAfterOperation == /\ mp = "after"
                    /\ exec_status' = "EXECUTED"
                    /\ mp' = "open"
                    /\ MpFrame
                    /\ UNCHANGED <<running, thread, reason, pending, fatfs,
                                   raced>>

(***************************************************************************)
(* pyexec_file opens main.py under the mutex, which it waits for without   *)
(* end.  The parser's reads that follow are one step with the open.        *)
(***************************************************************************)
MpOpens == /\ mp = "open"
           /\ fatfs = "free"
           /\ hook = "round" => exec_status = "UPDATE"
           /\ running' = flash
           /\ mp' = "main.py"
           /\ MpFrame
           /\ UNCHANGED <<thread, reason, exec_status, pending, fatfs, raced>>

(***************************************************************************)
(* main.py and the event loop may end by themselves: main.py at its last   *)
(* line, both on an exception.  Their threads run on.  esp32_pass.py does  *)
(* not end.                                                                *)
(***************************************************************************)
MpEnds == /\ mp = "main.py"
          /\ mp' = "check main"
          /\ Outlives(thread = "runs" /\ Leaving)
          /\ MpFrame
          /\ UNCHANGED <<running, thread, reason, exec_status, pending, fatfs>>

MpLoopDies == /\ mp = "loop"
              /\ mp' = "check loop"
              /\ Outlives(thread = "runs" /\ Leaving)
              /\ MpFrame
              /\ UNCHANGED <<running, thread, reason, exec_status, pending,
                             fatfs>>

(***************************************************************************)
(* The KeyboardInterrupt is raised in the script that runs.                *)
(***************************************************************************)
MpInterrupted ==
  /\ pending
  /\ pending' = FALSE
  /\ \/ mp = "main.py" /\ mp' = "check main"
     \/ mp = "loop" /\ mp' = "check loop"
     \/ mp = "pass" /\ mp' = "reset"
  /\ MpFrame
  /\ UNCHANGED <<running, thread, reason, exec_status, fatfs, raced>>

(***************************************************************************)
(* After main.py: codey_main_loop.py starts the threads, unless the reason *)
(* is 2.  After the loop: back to the head.                                *)
(***************************************************************************)
MpCheckMain ==
  /\ mp = "check main"
  /\ \/ reason = 2 /\ mp' = "reset" /\ UNCHANGED thread
     \/ reason # 2 /\ mp' = "loop" /\ thread' = "runs"
  /\ MpFrame
  /\ UNCHANGED <<running, reason, exec_status, pending, fatfs, raced>>

MpCheckLoop ==
  /\ mp = "check loop"
  /\ mp' = IF reason = 2 THEN "reset" ELSE "top"
  /\ MpFrame
  /\ UNCHANGED <<running, thread, reason, exec_status, pending, fatfs, raced>>

(***************************************************************************)
(* mp_thread_deinit deletes the threads; mp_init of the next run forgets a *)
(* pending interrupt, and one that comes while _boot.py runs ends          *)
(* _boot.py.                                                               *)
(***************************************************************************)
MpResets == /\ mp = "reset"
            /\ thread' = "none"
            /\ pending' = FALSE
            /\ mp' = "mount"
            /\ MpFrame
            /\ UNCHANGED <<running, reason, exec_status, fatfs, raced>>

MpBootInterrupted == /\ mp = "mount"
                     /\ pending
                     /\ pending' = FALSE
                     /\ MpFrame
                     /\ UNCHANGED <<mp, running, thread, reason, exec_status,
                                    fatfs, raced>>
-----------------------------------------------------------------------------
(***************************************************************************)
(* main.py starts a thread of its own.                                     *)
(***************************************************************************)
ThreadStarts == /\ mp = "main.py"
                /\ thread # "runs"
                /\ thread' = "runs"
                /\ Outlives(reason = 2)
                /\ UNCHANGED <<commVars, hookVars, mpVars, flash, reason,
                               restart_flag, exec_status, pending, fatfs,
                               dtrVars>>

(***************************************************************************)
(* A thread of the script uses the file system.                            *)
(***************************************************************************)
ThreadTakes == /\ thread = "runs"
               /\ fatfs = "free"
               /\ fatfs' = "thread"
               /\ UNCHANGED <<commVars, hookVars, mpVars, thread, flash, reason,
                              restart_flag, exec_status, pending, dtrVars,
                              raced>>

ThreadGives == /\ thread = "runs"
               /\ fatfs = "thread"
               /\ fatfs' = "free"
               /\ UNCHANGED <<commVars, hookVars, mpVars, thread, flash, reason,
                              restart_flag, exec_status, pending, dtrVars,
                              raced>>

(***************************************************************************)
(* The interrupt is raised in whichever thread of the interpreter checks   *)
(* for it first.                                                           *)
(***************************************************************************)
ThreadInterrupted == /\ thread = "runs"
                     /\ pending
                     /\ pending' = FALSE
                     /\ UNCHANGED <<commVars, hookVars, mpVars, thread, flash,
                                    reason, restart_flag, exec_status, fatfs,
                                    dtrVars, raced>>

CommStep == \/ Head \/ Err \/ LastBlock \/ ReadMail \/ SetFlag
            \/ DtrRequest \/ DtrAnswered \/ DtrTimeout

HookStep == \/ HookSeesFlag \/ HookTakes \/ HookAnswers \/ HookSuspends
            \/ HookInterrupts \/ HookWaits \/ HookRound
            \/ HookSeesExecuted \/ HookClears

MpStep == \/ MpMounts \/ MpMountTimeout \/ MpMounted \/ MpTop \/ MpClaims
          \/ MpAfterOperation \/ MpOpens \/ MpInterrupted \/ MpCheckMain
          \/ MpCheckLoop \/ MpResets

Next == \/ CommStep
        \/ HookStep
        \/ MpStep \/ MpEnds \/ MpLoopDies \/ MpBootInterrupted
        \/ ThreadStarts \/ ThreadTakes \/ ThreadGives \/ ThreadInterrupted

(***************************************************************************)
(* FreeRTOS lets every task run.  The host need not send anything and a    *)
(* script need not end.  The main task polls for the mutex and mp_task     *)
(* waits for it among holders that give it back, so both get it at last.   *)
(***************************************************************************)
Fairness == /\ WF_vars(ReadMail \/ SetFlag \/ DtrAnswered \/ DtrTimeout)
            /\ WF_vars(HookStep) /\ SF_vars(HookTakes)
            /\ WF_vars(MpStep) /\ SF_vars(MpMounts) /\ SF_vars(MpOpens)
            /\ WF_vars(ThreadGives)

Spec == Init /\ [][Next]_vars /\ Fairness
-----------------------------------------------------------------------------
CommTypeOK ==
  /\ comm \in {"commands", "set flag", "dtr"}
  /\ mail \in {"none", "ready", "main.py"}
  /\ unread \in BOOLEAN /\ transfer \in BOOLEAN

CounterTypeOK ==
  heads \in 0..MaxRequests /\ errs \in 0..MaxRequests /\ dtrs \in 0..MaxDtrs

HookTypeOK ==
  /\ hook \in {"poll", "take", "dtr", "answered", "interrupt", "wait", "round",
               "clear"}
  /\ count \in 0..(GiveUp + 1)

MpTypeOK ==
  /\ mp \in {"mount", "mounted", "top", "claim", "after", "open", "main.py",
             "check main", "loop", "check loop", "pass", "reset"}
  /\ running \in (0..MaxRequests) \cup {Partial, NoScript}
  /\ thread \in {"none", "runs", "suspended"}

SharedTypeOK ==
  /\ flash \in (0..MaxRequests) \cup {Partial}
  /\ reason \in {0, 1, 2}
  /\ restart_flag \in BOOLEAN /\ pending \in BOOLEAN
  /\ exec_status \in {"UPDATE", "EXECUTED"}
  /\ fatfs \in {"free", "hook", "mp", "thread"}
  /\ dtr_require \in BOOLEAN /\ dtr_respond \in BOOLEAN
  /\ raced \in BOOLEAN

(***************************************************************************)
(* Type invariant of the variables of the tasks and of those they share.   *)
(***************************************************************************)
RestartTypeOK == /\ CommTypeOK /\ CounterTypeOK /\ HookTypeOK
                 /\ MpTypeOK /\ SharedTypeOK

(***************************************************************************)
(* The host has asked for one thing only: a single upload or a single      *)
(* command that failed.  Without this TLC finds each property that uses it *)
(* violated (see the README).                                              *)
(***************************************************************************)
OneRequest == heads + errs <= 1

(***************************************************************************)
(* The mutex of the file system is lost: its holder was deleted.           *)
(***************************************************************************)
Orphaned == fatfs = "thread" /\ thread # "runs"

(***************************************************************************)
(* While there was one request, the thread that holds the file system's    *)
(* mutex can give it back: it is neither suspended by the main task nor    *)
(* deleted by mp_task, unless a thread outlives its script on the way of   *)
(* a restart (raced).  This is why the main task takes the mutex before    *)
(* mp_thread_suspend, and why it suspends before it interrupts.            *)
(***************************************************************************)
HolderAlive == OneRequest /\ ~ raced => ~ Orphaned

(***************************************************************************)
(* DTR is granted to the host only while the main task holds the file      *)
(* system's mutex, so that nothing is written when the reset line is       *)
(* pulled.                                                                 *)
(***************************************************************************)
DtrGrantedQuiet == [][DtrAnswered => fatfs = "hook"]_vars

(***************************************************************************)
(* A request to restart is served, unless the mutex is lost: the main task *)
(* does not wait forever for a script or for the DTR command.  HolderAlive *)
(* says when the mutex is not lost.                                        *)
(***************************************************************************)
RestartServed == restart_flag ~> ~ restart_flag \/ Orphaned

(***************************************************************************)
(* Once the main task has interrupted the script it comes to an end:       *)
(* whatever uploads, errors and DTR requests come in between, it gives the *)
(* mutex back and leaves the rounds that wait for the script.              *)
(***************************************************************************)
HookWaitEnds == fatfs = "hook" \/ hook = "wait" ~> hook = "clear"

(***************************************************************************)
(* A script that was uploaded is run, unless the host sends more or a      *)
(* thread outlives the script before it: such a thread may take every      *)
(* interrupt or be deleted with the mutex.                                 *)
(***************************************************************************)
UploadedScriptRuns == flash = 1 ~> running = 1 \/ ~ OneRequest \/ raced

(***************************************************************************)
(* The interrupt of a restart is meant for the script that was there       *)
(* before: with one upload, the event loop that serves the uploaded script *)
(* is not interrupted.                                                     *)
(***************************************************************************)
UploadedScriptStays ==
  [][mp = "loop" /\ running \in 1..MaxRequests /\ running = flash =>
       ~ MpInterrupted]_vars
=============================================================================
