---------------------------- MODULE MCEventQueue ---------------------------
(* The event queue on a ring of two slots that grows to four and to eight. *)
EXTENDS EventQueue
============================================================================
