--------------------------- MODULE MCCoapExchange ---------------------------
EXTENDS CoapExchange, TLC

CONSTANTS n1, n2, get, put1, put2

(* One client and one server, whose message ids lie apart.                 *)
FromOne == [r \in Request |-> n1]
ToOne == [r \in Request |-> n2]
StartApart == (n1 :> 0 @@ n2 :> 100)
BehaviourAll == (get :> {"answer", "ignore", "defer", "reject"}
                 @@ put1 :> {"answer"} @@ put2 :> {"ignore"})
=============================================================================
