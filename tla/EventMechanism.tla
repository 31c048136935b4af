--------------------------- MODULE EventMechanism ---------------------------
(***************************************************************************)
(* How an event (a button, a message, a tilt) comes to run the callback a  *)
(* script registered for it.  codey_eve_trigger_t sets a flag in the table *)
(* of events; it is called by the sensor task, the communication task and  *)
(* the script.  codey_main_loop.py polls the flags every 25 ms and         *)
(* releases the lock of the event; the event's thread waits for that lock, *)
(* runs the callback, clears the flag and takes back a release that came   *)
(* in the meantime (codey_event_board.py).                                 *)
(*                                                                         *)
(* The sensor and the communication task have a higher priority than the   *)
(* threads of the interpreter, so a trigger is one step.  The threads of   *)
(* the interpreter switch where the GIL is given: at a jump of the         *)
(* bytecode and inside acquire and release, before and after the mutex of  *)
(* the lock is touched.                                                    *)
(***************************************************************************)
EXTENDS Naturals, Sequences

CONSTANTS MaxNum,       \* CODEY_EVE_MAX_NUM: 16 in the code
          Topics,       \* what an event waits for: its type and message text
          Messages,     \* the topics of type EVE_MESSAGE
          Launch,       \* the topic EVE_CODEY_LAUNCH
          Scripts,      \* what scripts register, in order
          MaxTriggers,  \* bound: calls of codey_eve_trigger_t from outside
          MaxRestarts   \* bound: restarts of the script

ASSUME EventAssumption ==
  /\ MaxNum \in Nat \ {0}
  /\ Messages \subseteq Topics /\ Launch \in Topics
  /\ Scripts \subseteq Seq(Topics)
  /\ MaxTriggers \in Nat /\ MaxRestarts \in Nat

VARIABLES
  script,         \* events_info: what main.py has asked for
  registered,     \* codey_eve_single[]: topics of the registered events
  started,        \* s_codey_eve_started
  occured,        \* eve_occured of each event
  sema,           \* event_sema_list: "unset", "lock" or "none"
  avail, locked,  \* mutex and flag of each event's lock
  main, idx,      \* the main loop and its loop variable
  cb,             \* the thread of each event
  starts,         \* history: callbacks begun since the event's last trigger
  triggers, restarts

tableVars == <<script, registered, started>>
lockVars  == <<avail, locked>>
vars == <<tableVars, occured, sema, lockVars, main, idx, cb, starts, triggers,
          restarts>>

Ids    == 1..MaxNum
Number == Len(registered)

AtFirst(x) == [i \in Ids |-> x]

Init == /\ script \in Scripts
        /\ registered = <<>> /\ started = FALSE
        /\ occured = AtFirst(FALSE)
        /\ sema = AtFirst("unset")
        /\ avail = AtFirst(FALSE) /\ locked = AtFirst(FALSE)
        /\ main = "register" /\ idx = 1
        /\ cb = AtFirst("none")
        /\ starts = AtFirst(0)
        /\ triggers = 0 /\ restarts = 0
-----------------------------------------------------------------------------
(***************************************************************************)
(* The events a trigger of topic t reaches.  codey_eve_trigger_check       *)
(* refuses every event once the table is full, and compares the text of a  *)
(* message; the thresholds of light and sound are in BoardEvents.          *)
(***************************************************************************)
Reached(t) == IF Number >= MaxNum THEN {}
              ELSE {i \in 1..Number : registered[i] = t}

Occurs(t) ==
  /\ occured' = [i \in Ids |-> occured[i] \/ i \in Reached(t)]
  /\ starts' = [i \in Ids |-> IF i \in Reached(t) THEN 0 ELSE starts[i]]

(***************************************************************************)
(* codey_eve_trigger_t called by a sensor, which looks at the start flag   *)
(* first, or for a message, which does not.                                *)
(***************************************************************************)
Trigger(t) == /\ triggers < MaxTriggers
              /\ started \/ t \in Messages
              /\ triggers' = triggers + 1
              /\ Occurs(t)
              /\ UNCHANGED <<tableVars, sema, lockVars, main, idx, cb, restarts>>
-----------------------------------------------------------------------------
\* Mutant of Register: the table takes one event too many.
RegisterOneMore ==
  /\ main = "register" /\ idx <= Len(script)
  /\ idx' = idx + 1
  /\ registered' = Append(registered, script[idx])
  /\ occured' = [occured EXCEPT ![Number + 1] = FALSE]
  /\ sema' = [sema EXCEPT ![Number + 1] = "lock"]
  /\ avail' = [avail EXCEPT ![Number + 1] = FALSE]
  /\ locked' = [locked EXCEPT ![Number + 1] = TRUE]
  /\ cb' = [cb EXCEPT ![Number + 1] = "wait"]
  /\ starts' = [starts EXCEPT ![Number + 1] = 0]
  /\ UNCHANGED <<script, started, main, triggers, restarts>>

(***************************************************************************)
(* codey_sys_start.  An event gets a number and a lock that is taken; its  *)
(* thread then waits for the lock.  When the table is full the event has   *)
(* no number and its thread only sleeps.                                   *)
(***************************************************************************)
Register ==
  /\ main = "register" /\ idx <= Len(script)
  /\ idx' = idx + 1
  /\ \/ /\ Number < MaxNum
        /\ registered' = Append(registered, script[idx])
        /\ occured' = [occured EXCEPT ![Number + 1] = FALSE]
        /\ sema' = [sema EXCEPT ![Number + 1] = "lock"]
        /\ avail' = [avail EXCEPT ![Number + 1] = FALSE]
        /\ locked' = [locked EXCEPT ![Number + 1] = TRUE]
        /\ cb' = [cb EXCEPT ![Number + 1] = "wait"]
        /\ starts' = [starts EXCEPT ![Number + 1] = 0]
     \/ /\ Number >= MaxNum
        /\ UNCHANGED <<registered, occured, sema, lockVars, cb, starts>>
  /\ UNCHANGED <<script, started, main, triggers, restarts>>

(***************************************************************************)
(* main_loop: start_trigger, then the launch event, then the rounds.       *)
(***************************************************************************)
StartTrigger == /\ main = "register" /\ idx > Len(script)
                /\ started' = TRUE
                /\ main' = "launch"
                /\ UNCHANGED <<script, registered, occured, sema, lockVars, idx,
                               cb, starts, triggers, restarts>>

TriggerLaunch == /\ main = "launch"
                 /\ Occurs(Launch)
                 /\ main' = "round"
                 /\ UNCHANGED <<tableVars, sema, lockVars, idx, cb, triggers,
                                restarts>>

LoopFrame == UNCHANGED <<tableVars, occured, sema, cb, starts, triggers,
                         restarts>>

Round == /\ main = "round" /\ Number # 0
         /\ main' = "occured" /\ idx' = 1
         /\ LoopFrame /\ UNCHANGED lockVars

\* The rest of the loop's body is left out for this event.
NextEvent == IF idx < Number THEN main' = "occured" /\ idx' = idx + 1
             ELSE main' = "round" /\ UNCHANGED idx

(***************************************************************************)
(* The four accesses of a round, each followed by a jump: the flag, the    *)
(* list, the lock's state, and the release.  A method of None raises an    *)
(* AttributeError, which ends the main loop.                               *)
(***************************************************************************)
GetOccuredFlag == /\ main = "occured"
                  /\ \/ occured[idx] /\ main' = "exists" /\ UNCHANGED idx
                     \/ ~ occured[idx] /\ NextEvent
                  /\ LoopFrame /\ UNCHANGED lockVars

SemaExists == /\ main = "exists"
              /\ \/ sema[idx] # "none" /\ main' = "locked" /\ UNCHANGED idx
                 \/ sema[idx] = "none" /\ NextEvent
              /\ LoopFrame /\ UNCHANGED lockVars

\* Mutant of SemaLocked: the lock is released without asking its state.
SemaNotAsked == /\ main = "locked"
                /\ main' = IF sema[idx] = "none" THEN "dead" ELSE "release"
                /\ LoopFrame /\ UNCHANGED <<idx, lockVars>>

SemaLocked == /\ main = "locked"
              /\ \/ sema[idx] = "none" /\ main' = "dead" /\ UNCHANGED idx
                 \/ sema[idx] # "none" /\ locked[idx] /\ main' = "release"
                    /\ UNCHANGED idx
                 \/ sema[idx] # "none" /\ ~ locked[idx] /\ NextEvent
              /\ LoopFrame /\ UNCHANGED lockVars

\* Mutant of Release: the lock's flag stays set.
ReleaseKeepsFlag ==
  /\ main = "release"
  /\ main' = IF sema[idx] = "none" \/ ~ locked[idx] THEN "dead" ELSE "unlock"
  /\ LoopFrame /\ UNCHANGED <<idx, lockVars>>

(***************************************************************************)
(* thread_lock_release: a RuntimeError when the lock is not locked; else   *)
(* the flag, then, outside the GIL, the mutex.                             *)
(***************************************************************************)
Release == /\ main = "release"
           /\ \/ /\ sema[idx] = "none" \/ ~ locked[idx]
                 /\ main' = "dead" /\ UNCHANGED locked
              \/ /\ sema[idx] # "none" /\ locked[idx]
                 /\ main' = "unlock"
                 /\ locked' = [locked EXCEPT ![idx] = FALSE]
           /\ LoopFrame /\ UNCHANGED <<idx, avail>>

Unlock == /\ main = "unlock"
          /\ avail' = [avail EXCEPT ![idx] = TRUE]
          /\ NextEvent
          /\ LoopFrame /\ UNCHANGED locked
-----------------------------------------------------------------------------
(***************************************************************************)
(* The thread of event i (event_cb_task).  acquire(1) takes the mutex      *)
(* outside the GIL and sets the lock's flag when it has the GIL again.     *)
(***************************************************************************)
ThreadFrame == UNCHANGED <<tableVars, main, idx, triggers, restarts>>

Acquire(i) == /\ cb[i] = "wait" /\ avail[i]
              /\ avail' = [avail EXCEPT ![i] = FALSE]
              /\ cb' = [cb EXCEPT ![i] = "taken"]
              /\ ThreadFrame /\ UNCHANGED <<occured, sema, locked, starts>>

CallbackBegins(i) == /\ cb[i] = "taken"
                     /\ locked' = [locked EXCEPT ![i] = TRUE]
                     /\ cb' = [cb EXCEPT ![i] = "runs"]
                     /\ starts' = [starts EXCEPT ![i] = @ + 1]
                     /\ ThreadFrame /\ UNCHANGED <<occured, sema, avail>>

CallbackReturns(i) == /\ cb[i] = "runs"
                      /\ cb' = [cb EXCEPT ![i] = "clear"]
                      /\ ThreadFrame
                      /\ UNCHANGED <<occured, sema, lockVars, starts>>

ClearFlag(i) == /\ cb[i] = "clear"
                /\ occured' = [occured EXCEPT ![i] = FALSE]
                /\ cb' = [cb EXCEPT ![i] = "try"]
                /\ ThreadFrame /\ UNCHANGED <<sema, lockVars, starts>>

\* Mutants of TryAcquire: the acquire(0) is missing; the flag is cleared
\* again with it.
NoTryAcquire(i) == /\ cb[i] = "try"
                   /\ cb' = [cb EXCEPT ![i] = "wait"]
                   /\ ThreadFrame
                   /\ UNCHANGED <<occured, sema, lockVars, starts>>

TryAcquireClears(i) ==
  /\ cb[i] = "try"
  /\ cb' = [cb EXCEPT ![i] = IF avail[i] THEN "got" ELSE "wait"]
  /\ avail' = [avail EXCEPT ![i] = FALSE]
  /\ occured' = [occured EXCEPT ![i] = FALSE]
  /\ ThreadFrame /\ UNCHANGED <<sema, locked, starts>>

(***************************************************************************)
(* acquire(0) takes the mutex back if the main loop has released it again. *)
(***************************************************************************)
TryAcquire(i) == /\ cb[i] = "try"
                 /\ cb' = [cb EXCEPT ![i] = IF avail[i] THEN "got" ELSE "wait"]
                 /\ avail' = [avail EXCEPT ![i] = FALSE]
                 /\ ThreadFrame /\ UNCHANGED <<occured, sema, locked, starts>>

TryAcquired(i) == /\ cb[i] = "got"
                  /\ locked' = [locked EXCEPT ![i] = TRUE]
                  /\ cb' = [cb EXCEPT ![i] = "wait"]
                  /\ ThreadFrame /\ UNCHANGED <<occured, sema, avail, starts>>

(***************************************************************************)
(* An exception in the callback, or the script's KeyboardInterrupt where   *)
(* this thread takes it: the lock is dropped from the list and the thread  *)
(* ends.                                                                   *)
(***************************************************************************)
CallbackRaises(i) == /\ cb[i] \in {"runs", "clear", "try"}
                     /\ sema' = [sema EXCEPT ![i] = "none"]
                     /\ cb' = [cb EXCEPT ![i] = "none"]
                     /\ ThreadFrame /\ UNCHANGED <<occured, lockVars, starts>>
-----------------------------------------------------------------------------
(***************************************************************************)
(* The script restarts: mp_thread_deinit deletes the threads, the          *)
(* interpreter's heap is new, codey_eve_deinit_t frees the table, and the  *)
(* next main.py asks for its events.  mp_task has the priority of the      *)
(* communication task here and the sensors cannot come in between.         *)
(***************************************************************************)
Restart == /\ restarts < MaxRestarts
           /\ restarts' = restarts + 1
           /\ script' \in Scripts
           /\ registered' = <<>> /\ started' = FALSE
           /\ occured' = AtFirst(FALSE)
           /\ sema' = AtFirst("unset")
           /\ avail' = AtFirst(FALSE) /\ locked' = AtFirst(FALSE)
           /\ main' = "register" /\ idx' = 1
           /\ cb' = AtFirst("none")
           /\ starts' = AtFirst(0)
           /\ UNCHANGED triggers

MainStep == \/ Register \/ StartTrigger \/ TriggerLaunch \/ Round
            \/ GetOccuredFlag \/ SemaExists \/ SemaLocked \/ Release \/ Unlock

ThreadStep(i) == \/ Acquire(i) \/ CallbackBegins(i) \/ ClearFlag(i)
                 \/ TryAcquire(i) \/ TryAcquired(i)

Next == \/ \E t \in Topics : Trigger(t)
        \/ MainStep
        \/ \E i \in Ids : ThreadStep(i) \/ CallbackReturns(i) \/ CallbackRaises(i)
        \/ Restart

(***************************************************************************)
(* The GIL goes round among the threads of one priority.  A callback need  *)
(* not return, and nobody has to trigger anything.                         *)
(***************************************************************************)
Fairness == WF_vars(MainStep) /\ \A i \in Ids : WF_vars(ThreadStep(i))

Spec == Init /\ [][Next]_vars /\ Fairness
-----------------------------------------------------------------------------
(***************************************************************************)
(* Type invariant of the table, the locks, the main loop and the threads.  *)
(***************************************************************************)
EventTypeOK ==
  /\ script \in Scripts
  /\ registered \in Seq(Topics) /\ Number <= MaxNum
  /\ started \in BOOLEAN
  /\ occured \in [Ids -> BOOLEAN]
  /\ sema \in [Ids -> {"unset", "lock", "none"}]
  /\ avail \in [Ids -> BOOLEAN] /\ locked \in [Ids -> BOOLEAN]
  /\ main \in {"register", "launch", "round", "occured", "exists", "locked",
               "release", "unlock", "dead"}
  /\ idx \in Nat \ {0}
  /\ cb \in [Ids -> {"none", "wait", "taken", "runs", "clear", "try", "got"}]
  /\ starts \in [Ids -> Nat]
  /\ triggers \in 0..MaxTriggers /\ restarts \in 0..MaxRestarts

(***************************************************************************)
(* A lock is one token: it is in the mutex, marked as locked, or on its    *)
(* way between the two in the main loop's release or in an acquire of the  *)
(* thread.  Were it in two places a callback would run without a release;  *)
(* were it in none the thread would wait forever.                          *)
(***************************************************************************)
Releasing(i) == main = "unlock" /\ idx = i
Acquiring(i) == cb[i] \in {"taken", "got"}

Token(i) == /\ avail[i] \/ locked[i] \/ Releasing(i) \/ Acquiring(i)
            /\ avail[i] => ~ locked[i] /\ ~ Releasing(i) /\ ~ Acquiring(i)
            /\ locked[i] => ~ Releasing(i) /\ ~ Acquiring(i)
            /\ Releasing(i) => ~ Acquiring(i)

OneToken == \A i \in 1..Number : Token(i)

(***************************************************************************)
(* The main loop ends by an exception only when the callback of the event  *)
(* it is looking at has raised one since it tested the list: release never *)
(* finds its lock unlocked.                                                *)
(***************************************************************************)
LoopDiesOfNone == main = "dead" => sema[idx] = "none"

(***************************************************************************)
(* One trigger begins its callback at most twice: once, and once more when *)
(* the main loop had read the flag before the thread cleared it and        *)
(* released the lock after the thread's acquire(0).                        *)
(***************************************************************************)
AtMostOneRepeat == \A i \in Ids : starts[i] <= 2

(***************************************************************************)
(* An event that occurs after the flag was cleared is not forgotten, even  *)
(* when acquire(0) takes back the release made for it: its callback begins *)
(* again, unless the script restarts or the main loop has ended.           *)
(***************************************************************************)
EventServed ==
  \A i \in Ids : (occured[i] /\ cb[i] \in {"try", "got", "wait"})
                   ~> (cb[i] \in {"runs", "none"} \/ main = "dead")
=============================================================================
