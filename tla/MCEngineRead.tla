---------------------------- MODULE MCEngineRead -----------------------------
(* A small instance of EngineRead: mp_task and one more thread, the ring of  *)
(* the code, and one read command.  A second command tells nothing more:     *)
(* under the conditions of OwnAnswer, the only command the blocks have to    *)
(* answer is the one sent by the thread that holds the mutex.                *)
EXTENDS EngineRead, TLC
==============================================================================
