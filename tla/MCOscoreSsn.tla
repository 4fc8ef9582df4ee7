---------------------------- MODULE MCOscoreSsn ----------------------------
(* One OSCORE sender context that writes its SSN at every second step.     *)
EXTENDS OscoreSsn
============================================================================
