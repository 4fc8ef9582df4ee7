---------------------------- MODULE MCEventLoop ----------------------------
(* The event loop with two network threads, of which one receives two plain*)
(* messages and the other a secured one.                                   *)
EXTENDS EventLoop

CONSTANTS t1, t2

TwoAndOne == t1 :> 2 @@ t2 :> 1
OtherSecured == {<<t2, 1>>}
============================================================================
