---------------------------- MODULE CoapExchange ----------------------------
(***************************************************************************)
(* Requests and responses between nodes that run the CoAP engine both as   *)
(* client and as server, over a network that loses, delays, reorders and   *)
(* repeats messages.  On the client, a request has a client callback,      *)
(* found by its token, and when it is confirmable a transaction, found by  *)
(* message id or token, that sends it again until something answers it.    *)
(* On the server a request is answered at once, ignored, rejected, or      *)
(* answered later in a confirmable response with a transaction of its own. *)
(*                                                                         *)
(* A token is 8 random bytes: here it is the request itself.  Messages are *)
(* unicast, without block or observe options and without Echo challenge.   *)
(***************************************************************************)
EXTENDS Integers, Sequences, FiniteSets

CONSTANTS Node,
          Request,        \* client requests, each sent once by an application
          From, To,       \* the client and the server of each
          Confirmable,    \* requests with HIGH_QOS
          Silent,         \* requests without a response handler
          Behaviour,      \* what the server may do with each
          StartMid,       \* where each node's random first message id lies
          MidRange,       \* number of message ids (2^16)
          MaxRetransmit,  \* COAP_MAX_RETRANSMIT (4)
          HistorySize,    \* OC_REQUEST_HISTORY_SIZE (25)
          MaxDuplicates,  \* bound of the model: messages the network repeats
          MaxInFlight,    \* bound of the model: messages the network holds
          NoToken

ASSUME ExchangeAssumption ==
  /\ From \in [Request -> Node] /\ To \in [Request -> Node]
  /\ Confirmable \subseteq Request /\ Silent \subseteq Request
  /\ Behaviour \in [Request -> SUBSET {"answer", "ignore", "defer", "reject"}]
  /\ MidRange \in Nat \ {0} /\ StartMid \in [Node -> 0 .. MidRange - 1]
  /\ MaxRetransmit \in Nat \ {0} /\ HistorySize \in Nat \ {0}
  /\ MaxDuplicates \in Nat /\ MaxInFlight \in Nat /\ NoToken \notin Request

VARIABLES
  cb,        \* the client callback of each request
  mid,       \* cb->mid
  trans,     \* transactions_list of each node; its message ids differ
  current,   \* current_mid of each node
  history,   \* the last message ids of non-confirmable requests, oldest first
  deferred,  \* requests stored for a separate response
  net,       \* messages under way
  dups,      \* repetitions by the network so far
  outcome,   \* history: what the response handler of each request was told
  accepted   \* history: non-confirmable requests each node let through

vars == <<cb, mid, trans, current, history, deferred, net, dups, outcome,
          accepted>>

Mid == 0 .. MidRange - 1
Message == [type : {"CON", "NON", "ACK", "RST"},
            code : {"request", "response", "empty"},
            mid : Mid, token : Request \cup {NoToken}, dst : Node]
Transaction == [msg : Message, counter : 0 .. MaxRetransmit - 1]

TypeOK ==
  /\ cb \in [Request -> {"unsent", "live", "freed"}]
  /\ mid \in [Request -> Mid]
  /\ trans \in [Node -> SUBSET Transaction]
  /\ current \in [Node -> Mid]
  /\ history \in [Node -> [1 .. HistorySize -> Mid]]
  /\ deferred \subseteq Request
  /\ net \subseteq Message
  /\ dups \in 0 .. MaxDuplicates
  /\ outcome \in [Request -> Seq({"response", "503"})]
  /\ accepted \in [Node -> Seq(Request)]

Init ==
  /\ cb = [r \in Request |-> "unsent"]
  /\ mid = [r \in Request |-> 0]
  /\ trans = [n \in Node |-> {}]
  /\ current = StartMid
  /\ history = [n \in Node |-> [i \in 1 .. HistorySize |-> 0]]
  /\ deferred = {} /\ net = {} /\ dups = 0
  /\ outcome = [r \in Request |-> <<>>]
  /\ accepted = [n \in Node |-> <<>>]

----------------------------------------------------------------------------
(* Messages and their ids.                                                 *)

NextMid(n) == (current[n] + 1) % MidRange
TakeMid(n) == current' = [current EXCEPT ![n] = NextMid(n)]

Packet(type, code, id, token, dst) ==
  [type |-> type, code |-> code, mid |-> id, token |-> token, dst |-> dst]

(* What the network holds when msgs are sent: it loses what is too much.   *)
With(held, msgs) ==
  IF Cardinality(held \cup msgs) <= MaxInFlight THEN held \cup msgs ELSE held

(* The network delivers m and may keep it for another time.                *)
Delivered(m, sent) ==
  \/ net' = With(net \ {m}, sent) /\ UNCHANGED dups
  \/ dups < MaxDuplicates /\ net' = With(net, sent) /\ dups' = dups + 1

(* coap_send_transaction keeps a confirmable message for retransmission,   *)
(* and clears the transaction of any other.                                *)
Kept(msg) == IF msg.type = "CON" THEN {[msg |-> msg, counter |-> 0]} ELSE {}

(* Mutant: a transaction is looked up by message id only.                  *)
AfterReceiptByMid(n, m) == {t \in trans[n] : t.msg.mid # m.mid}

(* The transactions node n keeps when it receives m: the one with its      *)
(* message id is cleared, else the one with its token; nobody looks at who *)
(* sent m, nor at what kind of message it is.                              *)
AfterReceipt(n, m) ==
  LET byMid == {t \in trans[n] : t.msg.mid = m.mid}
      byToken == {t \in trans[n] : t.msg.token = m.token}
  IN  trans[n] \ (IF byMid # {} THEN byMid ELSE byToken)

----------------------------------------------------------------------------
(* The client's side.                                                      *)

(* oc_do_get and its like: a callback, a transaction, and the message.     *)
Send(r) ==
  LET n == From[r]
      msg == Packet(IF r \in Confirmable THEN "CON" ELSE "NON", "request",
                    NextMid(n), r, To[r])
  IN  /\ cb[r] = "unsent"
      /\ cb' = [cb EXCEPT ![r] = IF r \in Silent THEN "freed" ELSE "live"]
      /\ mid' = [mid EXCEPT ![r] = NextMid(n)]
      /\ TakeMid(n)
      /\ trans' = [trans EXCEPT ![n] = @ \cup Kept(msg)]
      /\ net' = With(net, {msg})
      /\ UNCHANGED <<history, deferred, dups, outcome, accepted>>

(* Mutant: the callback is called though it was freed.                     *)
AnswersFreed(m, r) ==
  m.type # "RST" /\ m.code = "response" /\ r = m.token /\ From[r] = m.dst

(* A response finds its callback by token and calls it for the last time.  *)
Answers(m, r) ==
  /\ m.type # "RST" /\ m.code = "response"
  /\ r = m.token /\ From[r] = m.dst /\ cb[r] = "live"

(* Any message that is no request.  The message id it takes for a request  *)
(* of the next block goes into no message here and is left out: message    *)
(* ids matter by being different only.                                     *)
ReceiveResponse(m) ==
  /\ m.code # "request"
  /\ trans' = [trans EXCEPT ![m.dst] = AfterReceipt(m.dst, m)]
  /\ cb' = [r \in Request |-> IF Answers(m, r) THEN "freed" ELSE cb[r]]
  /\ outcome' = [r \in Request |->
                   IF Answers(m, r) THEN Append(outcome[r], "response")
                                    ELSE outcome[r]]
  /\ Delivered(m, IF m.type = "CON"
                  THEN {Packet("ACK", "empty", m.mid, m.token, To[m.token])}
                  ELSE {})
  /\ UNCHANGED <<mid, current, history, deferred, accepted>>

(* Mutant: the callbacks are told only beyond the last attempt.            *)
TimesOutLate(n, t, r) ==
  /\ t.counter = MaxRetransmit
  /\ From[r] = n /\ cb[r] = "live" /\ mid[r] = t.msg.mid

(* A timer runs out: coap_check_transactions sends the message again, or   *)
(* after the last time tells the callbacks with its message id and clears  *)
(* the transaction.                                                        *)
TimesOut(n, t, r) ==
  /\ t.counter + 1 = MaxRetransmit
  /\ From[r] = n /\ cb[r] = "live" /\ mid[r] = t.msg.mid

(* Mutant: one attempt too many.                                           *)
ExpiredLate(n, t) ==
  /\ trans' = [trans EXCEPT ![n] = (@ \ {t}) \cup
                 IF t.counter < MaxRetransmit
                 THEN {[t EXCEPT !.counter = @ + 1]} ELSE {}]
  /\ net' = IF t.counter < MaxRetransmit THEN With(net, {t.msg}) ELSE net

Expired(n, t) ==
  /\ trans' = [trans EXCEPT ![n] = (@ \ {t}) \cup
                 IF t.counter + 1 < MaxRetransmit
                 THEN {[t EXCEPT !.counter = @ + 1]} ELSE {}]
  /\ net' = IF t.counter + 1 < MaxRetransmit THEN With(net, {t.msg}) ELSE net

Timeout(n) ==
  /\ \E t \in trans[n] :
       /\ Expired(n, t)
       /\ cb' = [r \in Request |->
                   IF TimesOut(n, t, r) THEN "freed" ELSE cb[r]]
       /\ outcome' = [r \in Request |->
                        IF TimesOut(n, t, r) THEN Append(outcome[r], "503")
                                             ELSE outcome[r]]
  /\ UNCHANGED <<mid, current, history, deferred, dups, accepted>>

(* Mutant: only the callbacks of confirmable requests have a timer.        *)
RemoveConfirmable(r) ==
  /\ cb[r] = "live" /\ r \in Confirmable
  /\ \A t \in trans[From[r]] : t.msg.token # r
  /\ cb' = [cb EXCEPT ![r] = "freed"]
  /\ UNCHANGED <<mid, trans, current, history, deferred, net, dups, outcome,
                 accepted>>

(* oc_ri_remove_client_cb, OC_NON_LIFETIME (213 s) or OC_EXCHANGE_LIFETIME *)
(* (318 s) after the request was sent.  Its retransmissions end within     *)
(* 113 s.                                                                  *)
RemoveCallback(r) ==
  /\ cb[r] = "live"
  /\ \A t \in trans[From[r]] : t.msg.token # r
  /\ cb' = [cb EXCEPT ![r] = "freed"]
  /\ UNCHANGED <<mid, trans, current, history, deferred, net, dups, outcome,
                 accepted>>

----------------------------------------------------------------------------
(* The server's side.                                                      *)

(* Mutant: the search stops before the last entry.                         *)
IsDuplicateShort(n, m) ==
  m.type = "NON" /\ \E i \in 1 .. HistorySize - 1 : history[n][i] = m.mid

(* oc_coap_check_if_duplicate: whose message id it was is not recorded.    *)
IsDuplicate(n, m) ==
  m.type = "NON" /\ \E i \in 1 .. HistorySize : history[n][i] = m.mid

Remember(n, m) ==
  history' = IF m.type = "NON"
             THEN [history EXCEPT ![n] = Append(Tail(@), m.mid)] ELSE history

(* What goes back at once, with the message id of a confirmable request or *)
(* a fresh one; an empty acknowledgement and a reset carry no token.       *)
Reply(m, behaviour) ==
  LET type == IF m.type = "CON" THEN "ACK" ELSE "NON"
      id == IF m.type = "CON" THEN m.mid ELSE NextMid(m.dst)
      client == From[m.token]
  IN  CASE behaviour = "answer" -> {Packet(type, "response", id, m.token, client)}
        [] behaviour = "reject" -> {Packet("RST", "empty", m.mid, NoToken, client)}
        [] behaviour = "defer" /\ m.type = "CON" ->
             {Packet("ACK", "empty", m.mid, NoToken, client)}
        [] OTHER -> {}

(* coap_separate_accept keeps one entry for each token.                    *)
Stored(m, behaviour) == IF behaviour = "defer" THEN {m.token} ELSE {}

(* A request; one that repeats a remembered message id goes no further.    *)
ReceiveDuplicate(m) ==
  /\ m.code = "request" /\ IsDuplicate(m.dst, m)
  /\ trans' = [trans EXCEPT ![m.dst] = AfterReceipt(m.dst, m)]
  /\ Delivered(m, {})
  /\ UNCHANGED <<cb, mid, current, history, deferred, outcome, accepted>>

ReceiveRequest(m) ==
  /\ m.code = "request" /\ ~IsDuplicate(m.dst, m)
  /\ trans' = [trans EXCEPT ![m.dst] = AfterReceipt(m.dst, m)]
  /\ Remember(m.dst, m)
  /\ IF m.type = "CON" THEN UNCHANGED <<current, accepted>>
     ELSE /\ TakeMid(m.dst)
          /\ accepted' = [accepted EXCEPT ![m.dst] = Append(@, m.token)]
  /\ \E b \in Behaviour[m.token] :
       /\ deferred' = deferred \cup Stored(m, b)
       /\ Delivered(m, Reply(m, b))
  /\ UNCHANGED <<cb, mid, outcome>>

(* oc_send_separate_response, when the application has its answer.         *)
SendSeparate(r) ==
  LET n == To[r]
      msg == Packet("CON", "response", NextMid(n), r, From[r])
  IN  /\ r \in deferred
      /\ deferred' = deferred \ {r}
      /\ TakeMid(n)
      /\ trans' = [trans EXCEPT ![n] = @ \cup Kept(msg)]
      /\ net' = With(net, {msg})
      /\ UNCHANGED <<cb, mid, history, dups, outcome, accepted>>

----------------------------------------------------------------------------
Lose == /\ \E m \in net : net' = net \ {m}
        /\ UNCHANGED <<cb, mid, trans, current, history, deferred, dups,
                       outcome, accepted>>

Receive == \E m \in net :
             ReceiveResponse(m) \/ ReceiveDuplicate(m) \/ ReceiveRequest(m)

Next == \/ Receive \/ Lose
        \/ \E n \in Node : Timeout(n)
        \/ \E r \in Request : Send(r) \/ RemoveCallback(r) \/ SendSeparate(r)

Spec == Init /\ [][Next]_vars

(* Timers run out.  Nothing is promised of the network or the application. *)
FairSpec == /\ Spec
            /\ \A n \in Node : WF_vars(Timeout(n))
            /\ \A r \in Request : WF_vars(RemoveCallback(r))

----------------------------------------------------------------------------
(* A response handler is called once at most: no late response after a 503 *)
(* and no second response, whatever the network repeats.                   *)
OneOutcome == \A r \in Request : Len(outcome[r]) <= 1

(* While a request is sent again, its callback is there to be told when    *)
(* the last attempt fails: a response ends both, by whichever way it comes.*)
TransactionHasCallback ==
  \A n \in Node : \A t \in trans[n] :
    t.msg.code = "request" /\ t.msg.token \notin Silent =>
      cb[t.msg.token] = "live" /\ mid[t.msg.token] = t.msg.mid

(* A non-confirmable request is let through a second time only when        *)
(* OC_REQUEST_HISTORY_SIZE others have come since.                         *)
RepeatsDropped ==
  \A n \in Node : \A i, j \in 1 .. Len(accepted[n]) :
    i < j /\ accepted[n][i] = accepted[n][j] => j - i > HistorySize

(* The server only ever answers r at once, or ignores it.                  *)
AnsweredAtOnce(r) ==
  r \notin deferred /\ \A m \in net : m.type = "RST" => m.mid # mid[r]

(* Every confirmable request that the server answers at once or ignores    *)
(* comes to an end its application is told of, however unreliable the      *)
(* network is.                                                             *)
EveryConEnds ==
  \A r \in Confirmable \ Silent :
    []AnsweredAtOnce(r) => (cb[r] = "live" ~> outcome[r] # <<>>)

(* No client callback and no transaction stays allocated for ever: again   *)
(* and again there is none.                                                *)
EverythingReleased ==
  []<>( /\ \A r \in Request : cb[r] # "live"
        /\ \A n \in Node : trans[n] = {} )
=============================================================================
