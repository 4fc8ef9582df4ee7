------------------------------ MODULE MCSpake ------------------------------
(* A client with the password that may start twice and leaves the id to    *)
(* the device, and one without the password that sends its own.            *)
EXTENDS Spake, TLC

CONSTANTS c1, c2

MCClient == {c1, c2}
MCKnows == {c1}
MCNamed == {c2}
MCMaxTries == (c1 :> 2) @@ (c2 :> 1)
=============================================================================
