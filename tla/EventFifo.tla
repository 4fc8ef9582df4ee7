----------------------------- MODULE EventFifo -----------------------------
(***************************************************************************)
(* What util/oc_process.c promises its users about posted events: they     *)
(* form one unbounded first-in first-out queue.  Nothing is lost, nothing  *)
(* is delivered twice, nothing overtakes.                                  *)
(***************************************************************************)
EXTENDS Sequences

CONSTANT Event    \* an event: its identifier, its datum and its receiver

VARIABLE queue    \* the events posted and not yet taken, oldest first

Init == queue = << >>

Post(e) == queue' = Append(queue, e)

Take == queue # << >> /\ queue' = Tail(queue)

Next == (\E e \in Event : Post(e)) \/ Take

Spec == Init /\ [][Next]_queue
============================================================================
