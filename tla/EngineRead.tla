----------------------------- MODULE EngineRead ------------------------------
(***************************************************************************)
(* Reading a value from a neurons block: Python threads call read and send *)
(* (neurons_engine_port.c), which put a command in the ring of commands    *)
(* (neurons_engine_list_maintain.c); the communication task takes it out,  *)
(* sends it to the block and, when the block answers, stores the value and *)
(* gives read_sema.  One read at a time holds read_sema_mutex.  A restart  *)
(* of the script suspends the threads, then deletes them, and the new      *)
(* script's start gives both semaphores (neurons_engine_read_control_deinit_t). *)
(* When the event loop dies as an upload ends, the script is started       *)
(* without a suspension, in one order of the steps beside its old threads. *)
(*                                                                         *)
(* Python threads have priority 1 and share the processor; the             *)
(* communication task has priority 4 on the one core, and waits when the   *)
(* transmit FIFO is full (the driver has no transmit buffer).  A thread is *)
(* stopped anywhere, also between the increment of the ring's index, the   *)
(* copy of the command and the masking of the index, in the order in which *)
(* the code writes them.                                                   *)
(* From the announcement of an upload to the next start of a script the    *)
(* status is CODEY_MAIN_PY_UPDATE: the task drops the commands and what    *)
(* the blocks send, and sends no heart package.                            *)
(* The list of blocks online does not change in this module: the node a    *)
(* read looks up before it locks is there until it ends, with its buffer,  *)
(* and the library of blocks has been found.                               *)
(***************************************************************************)
EXTENDS Integers, FiniteSets

CONSTANTS Threads, Main,        \* the script's threads; Main is mp_task
          Reads,                \* the read commands: a block and a respond id
          NoCmd, Nobody,
          CMD_BUFFER_MAX,       \* a power of two; 2 in the code
          MaxOps, MaxRestarts   \* bounds: reads and sends begun, restarts

ASSUME EngineAssumption ==
  /\ Main \in Threads /\ NoCmd \notin Reads /\ Nobody \notin Threads
  /\ CMD_BUFFER_MAX \in Nat \ {0} /\ MaxOps \in Nat /\ MaxRestarts \in Nat

VARIABLES
  pc, op,           \* where each thread is, and its operation: cmd and number
  gil,              \* who holds the interpreter's lock across steps
  sema, mutex,      \* read_sema, read_sema_mutex: 1 when it can be taken
  cmd,              \* neurons_engine_read_cmd
  in, out, ring,    \* neurons_command_buffer
  at,               \* the index at which each thread copies its command
  recv, dealing,    \* s_recv_data_sem; the communication task is in its loop
  update, more,     \* the status is CODEY_MAIN_PY_UPDATE; uart1_more_data of a
                    \* loop that nothing clears in that status
  asked, val,       \* commands the blocks have not answered; the last answers
  res,              \* what each read is about to return, 0 for None
  ops, restarts, suspended,
  kept,             \* a script has been started beside the old one's threads
  timeouts,         \* a read has timed out
  race, early       \* two threads were in push at once, or one was stopped in
                    \* it; a command was taken out of the ring too early

threadVars == <<pc, op, at, res>>
ringVars == <<in, out, ring, race, early>>
taskVars == <<recv, dealing, update, more, asked, val>>
lifeVars == <<ops, restarts, suspended, kept>>
vars == <<threadVars, gil, sema, mutex, cmd, ringVars, taskVars, lifeVars, timeouts>>

NoOp == [cmd |-> NoCmd, n |-> 0]

Inside == {"enter", "check", "inc", "copy", "mask", "ready", "wait", "got", "exit"}

InRead(t) == pc[t] \in Inside /\ op[t].cmd # NoCmd

Init ==
  /\ pc = [t \in Threads |-> "idle"] /\ op = [t \in Threads |-> NoOp]
  /\ at = [t \in Threads |-> 0] /\ res = [t \in Threads |-> 0]
  /\ gil = Nobody /\ sema = 1 /\ mutex = 1 /\ cmd = NoCmd
  /\ in = 0 /\ out = 0 /\ ring = [i \in 0 .. CMD_BUFFER_MAX - 1 |-> NoOp]
  /\ recv = 0 /\ dealing = FALSE /\ update = FALSE /\ more = FALSE
  /\ asked = {} /\ val = [c \in Reads |-> 0]
  /\ ops = 0 /\ restarts = 0 /\ suspended = FALSE /\ kept = FALSE
  /\ timeouts = FALSE /\ race = FALSE /\ early = FALSE

Runs(t) == t = Main \/ ~ suspended

Goes(t, from, to) == Runs(t) /\ pc[t] = from /\ pc' = [pc EXCEPT ![t] = to]

------------------------------------------------------------------------------
\* neurons_engine_port_read_data

ReadBeginsNoReset(t) ==    \* mutant: read_sema is not taken first
  /\ Goes(t, "idle", "lock") /\ gil = Nobody /\ ops < MaxOps
  /\ \E c \in Reads : op' = [op EXCEPT ![t] = [cmd |-> c, n |-> ops + 1]]
  /\ ops' = ops + 1
  /\ UNCHANGED <<at, res, gil, sema, mutex, cmd, ringVars, taskVars, restarts, suspended, kept, timeouts>>

\* Up to the point where the interpreter's lock is released: read_sema is taken
\* if it was given.
ReadBegins(t) ==
  /\ Goes(t, "idle", "lock") /\ gil = Nobody /\ ops < MaxOps
  /\ \E c \in Reads : op' = [op EXCEPT ![t] = [cmd |-> c, n |-> ops + 1]]
  /\ ops' = ops + 1
  /\ sema' = 0
  /\ UNCHANGED <<at, res, gil, mutex, cmd, ringVars, taskVars, restarts, suspended, kept, timeouts>>

ReadLocks(t) ==
  /\ Goes(t, "lock", "enter") /\ mutex = 1
  /\ mutex' = 0
  /\ UNCHANGED <<op, at, res, gil, sema, cmd, ringVars, taskVars, lifeVars, timeouts>>

ReadSetsCmd(t) ==
  /\ Goes(t, "enter", "check") /\ gil = Nobody
  /\ cmd' = op[t].cmd
  /\ UNCHANGED <<op, at, res, gil, sema, mutex, ringVars, taskVars, lifeVars, timeouts>>

\* neurons_engine_port_send_command: a command no block answers.
SendBegins(t) ==
  /\ Goes(t, "idle", "check") /\ gil = Nobody /\ ops < MaxOps
  /\ op' = [op EXCEPT ![t] = [cmd |-> NoCmd, n |-> ops + 1]]
  /\ ops' = ops + 1
  /\ UNCHANGED <<at, res, gil, sema, mutex, cmd, ringVars, taskVars, restarts, suspended, kept, timeouts>>

\* neurons_engine_command_buffer_push, without the interpreter's lock: a full
\* ring is waited for, the index is incremented, the command copied to the slot
\* it named, and the index masked.
Full == out = (in + 1) % CMD_BUFFER_MAX

PushFinds(t) ==
  /\ Goes(t, "check", "inc") /\ ~ Full
  /\ UNCHANGED <<op, at, res, gil, sema, mutex, cmd, ringVars, taskVars, lifeVars, timeouts>>

PushCounts(t) ==
  /\ Goes(t, "inc", "copy")
  /\ at' = [at EXCEPT ![t] = in]
  /\ in' = in + 1
  /\ race' = (race \/ \E u \in Threads \ {t} : pc[u] \in {"inc", "copy", "mask"})
  /\ UNCHANGED <<op, res, gil, sema, mutex, cmd, out, ring, early, taskVars, lifeVars, timeouts>>

\* What a copy beyond the array overwrites is left out; only a race gets there.
PushCopies(t) ==
  /\ Goes(t, "copy", "mask")
  /\ ring' = [i \in DOMAIN ring |-> IF i = at[t] THEN op[t] ELSE ring[i]]
  /\ UNCHANGED <<op, at, res, gil, sema, mutex, cmd, in, out, race, early, taskVars, lifeVars, timeouts>>

PushMasks(t) ==
  /\ Goes(t, "mask", "ready")
  /\ in' = in % CMD_BUFFER_MAX
  /\ UNCHANGED <<op, at, res, gil, sema, mutex, cmd, out, ring, race, early, taskVars, lifeVars, timeouts>>

\* mutant: the task is not woken
PushedNoWake(t) ==
  /\ gil = Nobody
  /\ Goes(t, "ready", IF op[t].cmd = NoCmd THEN "idle" ELSE "wait")
  /\ gil' = IF op[t].cmd = NoCmd THEN Nobody ELSE t
  /\ UNCHANGED <<op, at, res, sema, mutex, cmd, ringVars, taskVars, lifeVars, timeouts>>

\* The task is woken.  A send returns; a read waits and keeps the
\* interpreter's lock while it does.
Pushed(t) ==
  /\ gil = Nobody
  /\ Goes(t, "ready", IF op[t].cmd = NoCmd THEN "idle" ELSE "wait")
  /\ gil' = IF op[t].cmd = NoCmd THEN Nobody ELSE t
  /\ recv' = 1
  /\ UNCHANGED <<op, at, res, sema, mutex, cmd, ringVars, dealing, update, more, asked, val, lifeVars, timeouts>>

WaitAnswered(t) ==
  /\ Goes(t, "wait", "got") /\ sema = 1
  /\ sema' = 0
  /\ UNCHANGED <<op, at, res, gil, mutex, cmd, ringVars, taskVars, lifeVars, timeouts>>

\* The value is taken from the block's buffer and the interpreter's lock
\* released to give the mutex.
TakesValue(t) ==
  /\ Goes(t, "got", "exit")
  /\ res' = [res EXCEPT ![t] = val[op[t].cmd]]
  /\ gil' = Nobody
  /\ UNCHANGED <<op, at, sema, mutex, cmd, ringVars, taskVars, lifeVars, timeouts>>

\* NEU_ENGINE_READ_WAIT_TICK_MAX passes.
WaitTimesOut(t) ==
  /\ Goes(t, "wait", "exit") /\ sema = 0
  /\ res' = [res EXCEPT ![t] = 0]
  /\ gil' = Nobody /\ timeouts' = TRUE
  /\ UNCHANGED <<op, at, sema, mutex, cmd, ringVars, taskVars, lifeVars>>

\* The exits that leave the mutex taken: mp_obj_get_float raises on an argument
\* that is no number, before the command is sent; mp_obj_new_list or
\* mp_obj_get_int raises, or the first type is ALTERABLE_NUM_BYTE, after the
\* answer has come.
ReadFails(t) ==
  /\ \/ Goes(t, "enter", "idle") /\ gil = Nobody /\ cmd' = op[t].cmd
     \/ Goes(t, "got", "idle") /\ cmd' = cmd
  /\ op' = [op EXCEPT ![t] = NoOp]
  /\ gil' = Nobody
  /\ UNCHANGED <<at, res, sema, mutex, ringVars, taskVars, lifeVars, timeouts>>

ReadExits(t) ==
  /\ Goes(t, "exit", "idle")
  /\ mutex' = 1
  /\ op' = [op EXCEPT ![t] = NoOp]
  /\ UNCHANGED <<at, res, gil, sema, cmd, ringVars, taskVars, lifeVars, timeouts>>

Step(t) ==
  \/ ReadLocks(t) \/ ReadSetsCmd(t)
  \/ PushFinds(t) \/ PushCounts(t) \/ PushCopies(t) \/ PushMasks(t) \/ Pushed(t)
  \/ WaitAnswered(t) \/ WaitTimesOut(t) \/ TakesValue(t) \/ ReadExits(t)

------------------------------------------------------------------------------
\* codey_neurons_deal, the part of the UART of the blocks

\* Any byte of any channel gives the semaphore from the interrupt.
Interrupt ==
  /\ recv = 0
  /\ recv' = 1
  /\ UNCHANGED <<threadVars, gil, sema, mutex, cmd, ringVars, dealing, update, more,
                 asked, val, lifeVars, timeouts>>

DealBegins ==
  /\ ~ dealing /\ recv = 1
  /\ recv' = 0 /\ dealing' = TRUE /\ more' = update
  /\ UNCHANGED <<threadVars, gil, sema, mutex, cmd, ringVars, update, asked, val, lifeVars, timeouts>>

PopNoMask ==    \* mutant: the index of the pop is not masked
  /\ dealing /\ out # in
  /\ out' = out + 1
  /\ UNCHANGED <<threadVars, gil, sema, mutex, cmd, in, ring, race, early, taskVars, lifeVars, timeouts>>

\* neurons_engine_command_buffer_pop returns 1 and the command is sent, unless
\* the status is CODEY_MAIN_PY_UPDATE; it is
\* early when a thread has counted the slot and not yet copied to it, or has not
\* yet masked an index that left the array.
Pop ==
  /\ dealing /\ out # in
  /\ out' = (out + 1) % CMD_BUFFER_MAX
  /\ early' = (early \/ in = CMD_BUFFER_MAX
                    \/ \E t \in Threads : pc[t] = "copy" /\ at[t] = out)
  /\ asked' = IF ring[out].cmd \in Reads /\ ~ update THEN asked \cup {ring[out]} ELSE asked
  /\ UNCHANGED <<threadVars, gil, sema, mutex, cmd, in, ring, race, recv, dealing, update, more,
                 val, lifeVars, timeouts>>

\* After the pops of a round the task finds "NEU_FTY_READY" posted; what UART1
\* sent may not all have been read in that round.
UpdateBegins ==
  /\ dealing /\ out = in /\ ~ update
  /\ update' = TRUE /\ more' \in BOOLEAN
  /\ UNCHANGED <<threadVars, gil, sema, mutex, cmd, ringVars, recv, dealing, asked, val, lifeVars, timeouts>>

\* Only the branch of the other statuses clears uart1_more_data: with it the
\* rounds follow each other until a script starts.
DealEnds ==
  /\ dealing /\ out = in /\ ~ (update /\ more)
  /\ dealing' = FALSE
  /\ more' = FALSE
  /\ UNCHANGED <<threadVars, gil, sema, mutex, cmd, ringVars, recv, update, asked, val, lifeVars, timeouts>>

\* neurons_engine_parse_blocks_respond_t: the value is stored, and
\* neurons_engine_read_check_t gives read_sema when the answer is of the command
\* set last.
Answer ==
  /\ ~ update
  /\ \E a \in asked :
       /\ asked' = asked \ {a}
       /\ val' = [val EXCEPT ![a.cmd] = a.n]
       /\ sema' = IF cmd = a.cmd THEN 1 ELSE sema
  /\ UNCHANGED <<threadVars, gil, mutex, cmd, ringVars, recv, dealing, update, more, lifeVars, timeouts>>

\* The block does not answer, or its answer is flushed.
AnswerLost ==
  /\ \E a \in asked : asked' = asked \ {a}
  /\ UNCHANGED <<threadVars, gil, sema, mutex, cmd, ringVars, recv, dealing, update, more,
                 val, lifeVars, timeouts>>

------------------------------------------------------------------------------
\* The restart of the script

StoppedInPush == \E t \in Threads \ {Main} : pc[t] \in {"copy", "mask"}

SuspendKeepsGil ==    \* mutant: the interpreter's lock is not given
  /\ ~ suspended /\ restarts < MaxRestarts
  /\ suspended' = TRUE /\ restarts' = restarts + 1
  /\ race' = (race \/ StoppedInPush)
  /\ UNCHANGED <<threadVars, gil, sema, mutex, cmd, in, out, ring, early, taskVars,
                 ops, kept, timeouts>>

\* codey_main_task_hook_t suspends every thread but mp_task and gives the
\* interpreter's lock, whoever holds it.
Suspend ==
  /\ ~ suspended /\ restarts < MaxRestarts
  /\ suspended' = TRUE /\ restarts' = restarts + 1
  /\ gil' = Nobody
  /\ race' = (race \/ StoppedInPush)
  /\ UNCHANGED <<threadVars, sema, mutex, cmd, in, out, ring, early, taskVars,
                 ops, kept, timeouts>>

\* codey_script_update_after_operation: neurons_engine_read_control_deinit_t
\* and the status CODEY_MAIN_PY_EXECUTED.
ScriptStarts ==
  /\ sema' = 1 /\ mutex' = 1 /\ cmd' = NoCmd
  /\ update' = FALSE
  /\ UNCHANGED <<at, res, gil, in, out, ring, early, recv, dealing, more, asked, val, ops, timeouts>>

\* mutant: the old threads are not deleted
RestartKeepsThreads ==
  /\ suspended /\ pc[Main] = "idle"
  /\ ScriptStarts /\ suspended' = FALSE /\ kept' = FALSE
  /\ UNCHANGED <<pc, op, race, restarts>>

\* mp_thread_deinit deletes the other threads, wherever they are.
ThreadsDeleted ==
  /\ pc' = [t \in Threads |-> "idle"] /\ op' = [t \in Threads |-> NoOp]
  /\ kept' = FALSE

\* mp_task is interrupted where it executes Python, the script ends, and the
\* next one starts.
Restart ==
  /\ suspended /\ pc[Main] = "idle"
  /\ ScriptStarts /\ ThreadsDeleted /\ suspended' = FALSE
  /\ UNCHANGED <<race, restarts>>

\* The script or its event loop ends by itself.  With reason 1 mp_task goes to
\* sleep in esp32_pass.py, beside the threads.  When the communication task has
\* set the reason to 2 before it is tested, the loop of main.c ends too, ...
EndsAlone ==
  /\ ~ suspended /\ pc[Main] = "idle" /\ gil = Nobody /\ restarts < MaxRestarts
  /\ restarts' = restarts + 1
  /\ UNCHANGED suspended

RestartAlone ==
  /\ EndsAlone
  /\ ScriptStarts /\ ThreadsDeleted
  /\ race' = (race \/ StoppedInPush)

\* ... and when it sets it after that test and before the one at the head of
\* the loop, the script is run again, beside the threads.
RunsAgain ==
  /\ EndsAlone
  /\ ScriptStarts /\ kept' = TRUE
  /\ UNCHANGED <<pc, op, race>>

Next ==
  \/ \E t \in Threads : ReadBegins(t) \/ SendBegins(t) \/ Step(t) \/ ReadFails(t)
  \/ Interrupt \/ DealBegins \/ Pop \/ UpdateBegins \/ DealEnds \/ Answer \/ AnswerLost
  \/ Suspend \/ Restart \/ RestartAlone \/ RunsAgain

\* FreeRTOS runs every thread that can run, and the task; a restart that was
\* asked for goes on.  Outside CODEY_MAIN_PY_UPDATE the task sends a heart
\* package every few hundred milliseconds and the block that is online answers
\* it, so that bytes keep coming in; in that status nothing need come.  A block
\* owes no answer to a read, a script no call, an upload no time.
Fairness ==
  /\ \A t \in Threads : WF_vars(Step(t))
  /\ WF_vars(~ update /\ Interrupt)
  /\ WF_vars(DealBegins) /\ WF_vars(Pop) /\ WF_vars(DealEnds)
  /\ WF_vars(Restart)

Spec == Init /\ [][Next]_vars /\ Fairness

------------------------------------------------------------------------------
\* The type of the state.  The index of the ring leaves the array, at the
\* moment it is used, only when two threads were in push at once.
EngineTypeOK ==
  /\ pc \in [Threads -> Inside \cup {"idle", "lock"}]
  /\ op \in [Threads -> [cmd : Reads \cup {NoCmd}, n : 0 .. MaxOps]]
  /\ gil \in Threads \cup {Nobody} /\ {sema, mutex, recv} \subseteq {0, 1}
  /\ cmd \in Reads \cup {NoCmd}
  /\ in \in Nat /\ out \in 0 .. CMD_BUFFER_MAX - 1
  /\ val \in [Reads -> 0 .. MaxOps] /\ res \in [Threads -> 0 .. MaxOps]
  /\ \A t \in Threads : pc[t] = "copy" /\ ~ race => at[t] < CMD_BUFFER_MAX

\* One thread at a time is between the lock and the unlock of a read, also
\* after a restart has given a mutex that a deleted thread held; not after a
\* script that ran again has given it over the head of a living one.
OneReader ==
  ~ kept =>
    /\ Cardinality({t \in Threads : InRead(t)}) <= 1
    /\ mutex = 1 => \A t \in Threads : ~ InRead(t)

\* While no read has timed out, no two threads have pushed at once, no command
\* was taken too early and no script was started again, a read that returns
\* returns the answer to the very command it sent.
OwnAnswer ==
  ~ timeouts /\ ~ race /\ ~ early /\ restarts = 0 =>
    \A t \in Threads : pc[t] = "exit" => res[t] = op[t].n

\* A read has failed and left the mutex taken: every later one waits for it
\* until a script starts.
LeftLocked == mutex = 0 /\ \A t \in Threads : ~ InRead(t)

\* A read or a send that began returns, or its thread is stopped for a restart,
\* or the ring has been disturbed by a race in push, or a read has failed inside
\* the lock.
OperationReturns ==
  \A t \in Threads :
    pc[t] # "idle" ~> (pc[t] = "idle" \/ suspended \/ race \/ LeftLocked)

\* mp_task waits for room in a ring nobody empties: the thread that filled it
\* was suspended before it woke the task, and no byte need come.
Stranded == pc[Main] = "check" /\ Full /\ update /\ recv = 0 /\ ~ dealing

\* A restart that was begun ends, unless mp_task is itself waiting for the read
\* mutex and the thread that holds it has been suspended, or for room in the
\* ring, or a thread was stopped in push: with the index beyond the ring, the
\* task takes commands out for ever.
RestartEnds ==
  suspended ~> (~ suspended \/ (pc[Main] = "lock" /\ mutex = 0) \/ Stranded \/ race)
==============================================================================
