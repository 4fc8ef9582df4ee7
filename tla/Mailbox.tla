------------------------------ MODULE Mailbox ------------------------------
(***************************************************************************)
(* What the event loop promises the network threads: each message they     *)
(* receive reaches the CoAP engine once.  Secured messages take another    *)
(* way than plain ones; the messages of a thread that go the same way      *)
(* arrive one after the other, as they were received, with none left out.  *)
(***************************************************************************)
EXTENDS Naturals, Sequences

CONSTANTS Thread,     \* the network threads
          Secured     \* the messages <<thread, number>> that take the longer way

VARIABLES received,   \* how many messages each thread has received
          handled     \* the messages that have arrived, in that order

Init == received = [t \in Thread |-> 0] /\ handled = << >>

Received == UNION {{t} \X (1 .. received[t]) : t \in Thread}

Waiting == {m \in Received : \A i \in DOMAIN handled : handled[i] # m}

SameWay(m, k) == m[1] = k[1] /\ (m \in Secured <=> k \in Secured)

Receive(t) ==
  /\ received' = [received EXCEPT ![t] = @ + 1]
  /\ UNCHANGED handled

Handle(m) ==
  /\ m \in Waiting
  /\ \A k \in Waiting : SameWay(m, k) => m[2] <= k[2]
  /\ handled' = Append(handled, m)
  /\ UNCHANGED received

Next == (\E t \in Thread : Receive(t)) \/ (\E m \in Waiting : Handle(m))

Spec == Init /\ [][Next]_<<received, handled>>
============================================================================
