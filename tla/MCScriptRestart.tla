--------------------------- MODULE MCScriptRestart --------------------------
(***************************************************************************)
(* ScriptRestart for TLC: its constants are numbers, given in the          *)
(* configurations.                                                         *)
(***************************************************************************)
EXTENDS ScriptRestart
=============================================================================
