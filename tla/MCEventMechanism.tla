-------------------------- MODULE MCEventMechanism --------------------------
(***************************************************************************)
(* A table of three events: scripts with two events that wait for the same *)
(* message, with the launch event, and with one event too many.            *)
(***************************************************************************)
EXTENDS EventMechanism

CONSTANTS go, button, launch

MCTopics   == {go, button, launch}
MCMessages == {go}
MCScripts  == {<<go, go>>, <<launch, button>>, <<go, button, launch, go>>}
=============================================================================
