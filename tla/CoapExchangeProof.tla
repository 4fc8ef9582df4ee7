-------------------------- MODULE CoapExchangeProof --------------------------
(***************************************************************************)
(* What a client is told of its requests and what a server lets through,   *)
(* for every set of nodes and requests, every network, every number of     *)
(* retransmissions and every size of the request history.                  *)
(***************************************************************************)
EXTENDS CoapExchange, TLAPS

(* A request whose handler was called has lost its callback: without it    *)
(* nothing calls the handler again.                                        *)
ToldOnce ==
  /\ cb \in [Request -> {"unsent", "live", "freed"}]
  /\ outcome \in [Request -> Seq({"response", "503"})]
  /\ \A r \in Request :
       outcome[r] = <<>> \/ (Len(outcome[r]) = 1 /\ cb[r] = "freed")

(* A callback that is live becomes freed and the handler is told, or no    *)
(* handler is told anything and no freed callback comes back.              *)
LEMMA OutcomeStep ==
  ASSUME ToldOnce, [Next]_vars
  PROVE  /\ cb' \in [Request -> {"unsent", "live", "freed"}]
         /\ \A r \in Request : cb[r] = "freed" => cb'[r] = "freed"
         /\ \/ outcome' = outcome
            \/ \E told \in SUBSET Request, what \in {"response", "503"} :
                 /\ \A r \in told : cb[r] = "live" /\ cb'[r] = "freed"
                 /\ outcome' = [r \in Request |->
                                  IF r \in told THEN Append(outcome[r], what)
                                                ELSE outcome[r]]
<1>1. ASSUME NEW m \in net, ReceiveResponse(m)
      PROVE  /\ cb' \in [Request -> {"unsent", "live", "freed"}]
             /\ \A r \in Request : cb[r] = "freed" => cb'[r] = "freed"
             /\ \E told \in SUBSET Request :
                  /\ \A r \in told : cb[r] = "live" /\ cb'[r] = "freed"
                  /\ outcome' = [r \in Request |->
                                   IF r \in told THEN Append(outcome[r], "response")
                                                 ELSE outcome[r]]
  <2>. DEFINE told == {r \in Request : Answers(m, r)}
  <2>1. cb' = [r \in Request |-> IF r \in told THEN "freed" ELSE cb[r]]
    BY <1>1 DEF ReceiveResponse
  <2>2. outcome' = [r \in Request |->
                      IF r \in told THEN Append(outcome[r], "response")
                                    ELSE outcome[r]]
    BY <1>1 DEF ReceiveResponse
  <2>3. \A r \in told : cb[r] = "live"
    BY DEF Answers
  <2>. HIDE DEF told
  <2>4. told \in SUBSET Request
    BY DEF told
  <2>. QED BY <2>1, <2>2, <2>3, <2>4 DEF ToldOnce
<1>2. ASSUME NEW n \in Node, Timeout(n)
      PROVE  /\ cb' \in [Request -> {"unsent", "live", "freed"}]
             /\ \A r \in Request : cb[r] = "freed" => cb'[r] = "freed"
             /\ \E told \in SUBSET Request :
                  /\ \A r \in told : cb[r] = "live" /\ cb'[r] = "freed"
                  /\ outcome' = [r \in Request |->
                                   IF r \in told THEN Append(outcome[r], "503")
                                                 ELSE outcome[r]]
  <2>1. PICK t \in trans[n] :
          /\ cb' = [r \in Request |->
                      IF TimesOut(n, t, r) THEN "freed" ELSE cb[r]]
          /\ outcome' = [r \in Request |->
                           IF TimesOut(n, t, r) THEN Append(outcome[r], "503")
                                                ELSE outcome[r]]
    BY <1>2 DEF Timeout
  <2>. DEFINE told == {r \in Request : TimesOut(n, t, r)}
  <2>2. cb' = [r \in Request |-> IF r \in told THEN "freed" ELSE cb[r]]
    BY <2>1
  <2>3. outcome' = [r \in Request |->
                      IF r \in told THEN Append(outcome[r], "503")
                                    ELSE outcome[r]]
    BY <2>1
  <2>4. \A r \in told : cb[r] = "live"
    BY DEF TimesOut
  <2>. HIDE DEF told
  <2>5. told \in SUBSET Request
    BY DEF told
  <2>. QED BY <2>2, <2>3, <2>4, <2>5 DEF ToldOnce
<1>3. ASSUME NEW m \in net, ReceiveDuplicate(m) \/ ReceiveRequest(m)
      PROVE  UNCHANGED <<cb, outcome>>
  BY <1>3 DEF ReceiveDuplicate, ReceiveRequest
<1>4. ASSUME Lose \/ UNCHANGED vars \/ \E r \in Request : SendSeparate(r)
      PROVE  UNCHANGED <<cb, outcome>>
  BY <1>4 DEF Lose, SendSeparate, vars
<1>5. ASSUME NEW r \in Request, Send(r) \/ RemoveCallback(r)
      PROVE  /\ UNCHANGED outcome
             /\ cb[r] # "freed"
             /\ \E new \in {"live", "freed"} : cb' = [cb EXCEPT ![r] = new]
  BY <1>5 DEF Send, RemoveCallback
<1>. QED BY <1>1, <1>2, <1>3, <1>4, <1>5 DEF Next, Receive, ToldOnce

(* One call or none.                                                       *)
LEMMA ToldOnceMeansOne == ToldOnce => OneOutcome
<1>. SUFFICES ASSUME ToldOnce, NEW r \in Request PROVE Len(outcome[r]) <= 1
  BY DEF OneOutcome
<1>1. CASE outcome[r] = <<>>
  BY <1>1
<1>2. CASE Len(outcome[r]) = 1
  BY <1>2
<1>. QED BY <1>1, <1>2 DEF ToldOnce

(* The response handler of a request is called at most once, whatever the  *)
(* network repeats and delays and however many nodes there are.            *)
THEOREM AtMostOneOutcome == Spec => []OneOutcome
<1>1. Init => ToldOnce
  BY DEF Init, ToldOnce
<1>2. ToldOnce /\ [Next]_vars => ToldOnce'
  <2>. SUFFICES ASSUME ToldOnce, [Next]_vars PROVE ToldOnce'
    OBVIOUS
  <2>1. CASE outcome' = outcome
    BY <2>1, OutcomeStep DEF ToldOnce
  <2>2. ASSUME NEW told \in SUBSET Request, NEW what \in {"response", "503"},
               \A r \in told : cb[r] = "live" /\ cb'[r] = "freed",
               outcome' = [r \in Request |->
                             IF r \in told THEN Append(outcome[r], what)
                                           ELSE outcome[r]]
        PROVE  ToldOnce'
    <3>1. ASSUME NEW r \in Request
          PROVE  /\ outcome'[r] \in Seq({"response", "503"})
                 /\ outcome'[r] = <<>> \/ (Len(outcome'[r]) = 1 /\ cb'[r] = "freed")
      <4>1. CASE r \in told
        <5>1. outcome[r] = <<>> /\ outcome'[r] = Append(<<>>, what)
          BY <2>2, <4>1 DEF ToldOnce
        <5>. QED BY <5>1, <2>2, <4>1
      <4>2. CASE r \notin told
        BY <2>2, <4>2, OutcomeStep DEF ToldOnce
      <4>. QED BY <4>1, <4>2
    <3>. QED BY <2>2, <3>1, OutcomeStep DEF ToldOnce
  <2>. QED BY <2>1, <2>2, OutcomeStep
<1>. QED BY <1>1, <1>2, ToldOnceMeansOne, PTL DEF Spec

----------------------------------------------------------------------------
(* A request under way, or kept to be sent again, bears the message id of  *)
(* its callback, which never changes once it was sent.                     *)
Stamped(m) ==
  /\ m.type \in {"CON", "NON"} /\ m.token \in Request
  /\ m.mid = mid[m.token] /\ cb[m.token] # "unsent"

RequestsStamped ==
  /\ \A m \in net : m.code = "request" => Stamped(m)
  /\ \A n \in Node : \A t \in trans[n] :
       t.msg.code = "request" => Stamped(t.msg)

(* The history of a node ends with the message ids of the last requests it *)
(* let through.                                                            *)
Remembers(n) ==
  LET a == accepted[n]
  IN  \A i \in 1 .. Len(a) :
        /\ cb[a[i]] # "unsent"
        /\ Len(a) - i < HistorySize =>
             history[n][HistorySize - (Len(a) - i)] = mid[a[i]]

RepeatTypes ==
  /\ cb \in [Request -> {"unsent", "live", "freed"}]
  /\ mid \in [Request -> Int] /\ current \in [Node -> Int]
  /\ trans = [n \in Node |-> trans[n]]
  /\ \A n \in Node : \A t \in trans[n] :
       t = [msg |-> t.msg, counter |-> t.counter]
  /\ accepted \in [Node -> Seq(Request)]
  /\ history \in [Node -> Seq(Int)]
  /\ \A n \in Node : Len(history[n]) = HistorySize

RepeatInv ==
  /\ RepeatTypes
  /\ RequestsStamped
  /\ \A n \in Node : Remembers(n)
  /\ RepeatsDropped

LEMMA WithSubset ==
  ASSUME NEW held, NEW msgs PROVE With(held, msgs) \subseteq held \cup msgs
BY DEF With

LEMMA DeliveredSubset ==
  ASSUME NEW m, NEW sent, Delivered(m, sent)
  PROVE  net' \subseteq net \cup sent
BY WithSubset DEF Delivered

(* What a server sends at once is no request.                              *)
LEMMA RepliesAreNoRequests ==
  ASSUME NEW m, NEW b, NEW reply \in Reply(m, b)
  PROVE  reply.code # "request"
BY DEF Reply, Packet

(* The message id of a request that was sent stays.                        *)
LEMMA StampStays ==
  ASSUME RepeatTypes, [Next]_vars, NEW r \in Request, cb[r] # "unsent"
  PROVE  cb'[r] # "unsent" /\ mid'[r] = mid[r]
<1>1. ASSUME NEW m \in net, ReceiveResponse(m)
      PROVE  cb'[r] # "unsent" /\ mid'[r] = mid[r]
  BY <1>1 DEF ReceiveResponse
<1>2. ASSUME NEW m \in net, ReceiveDuplicate(m) \/ ReceiveRequest(m)
      PROVE  cb'[r] # "unsent" /\ mid'[r] = mid[r]
  BY <1>2 DEF ReceiveDuplicate, ReceiveRequest
<1>3. ASSUME NEW n \in Node, Timeout(n)
      PROVE  cb'[r] # "unsent" /\ mid'[r] = mid[r]
  BY <1>3 DEF Timeout
<1>4. ASSUME NEW q \in Request, Send(q)
      PROVE  cb'[r] # "unsent" /\ mid'[r] = mid[r]
  BY <1>4 DEF Send, RepeatTypes
<1>5. ASSUME NEW q \in Request, RemoveCallback(q) \/ SendSeparate(q)
      PROVE  cb'[r] # "unsent" /\ mid'[r] = mid[r]
  BY <1>5 DEF RemoveCallback, SendSeparate, RepeatTypes
<1>6. CASE Lose \/ UNCHANGED vars
  BY <1>6 DEF Lose, vars
<1>. QED BY <1>1, <1>2, <1>3, <1>4, <1>5, <1>6 DEF Next, Receive

LEMMA StampedStays ==
  ASSUME RepeatTypes, [Next]_vars, NEW m, Stamped(m)
  PROVE  Stamped(m)'
BY StampStays DEF Stamped

(* Only Send puts a request among the messages and transactions that was   *)
(* not there before.                                                       *)
LEMMA StampedStep ==
  ASSUME RepeatTypes, RequestsStamped, [Next]_vars
  PROVE  RequestsStamped'
<1>. DEFINE Known(m) == m.code = "request" => Stamped(m)
<1>1. SUFFICES /\ \A m \in net' : Known(m)'
               /\ \A n \in Node : \A t \in trans'[n] : Known(t.msg)'
  BY DEF RequestsStamped
<1>2. /\ \A m \in net : Known(m)'
      /\ \A n \in Node : \A t \in trans[n] : Known(t.msg)'
  BY StampedStays DEF RequestsStamped
<1>3. ASSUME NEW m \in net, ReceiveResponse(m)
      PROVE  /\ \A p \in net' : Known(p)'
             /\ \A n \in Node : trans'[n] \subseteq trans[n]
  <2>1. PICK sent : Delivered(m, sent) /\ \A p \in sent : p.code # "request"
    BY <1>3 DEF ReceiveResponse, Packet
  <2>2. \A n \in Node : trans'[n] \subseteq trans[n]
    BY <1>3 DEF ReceiveResponse, AfterReceipt, RepeatTypes
  <2>. QED BY <2>1, <2>2, <1>2, DeliveredSubset
<1>4. ASSUME NEW m \in net, ReceiveDuplicate(m) \/ ReceiveRequest(m)
      PROVE  /\ \A p \in net' : Known(p)'
             /\ \A n \in Node : trans'[n] \subseteq trans[n]
  <2>1. PICK sent : Delivered(m, sent) /\ \A p \in sent : p.code # "request"
    BY <1>4, RepliesAreNoRequests DEF ReceiveDuplicate, ReceiveRequest
  <2>2. \A n \in Node : trans'[n] \subseteq trans[n]
    BY <1>4 DEF ReceiveDuplicate, ReceiveRequest, AfterReceipt, RepeatTypes
  <2>. QED BY <2>1, <2>2, <1>2, DeliveredSubset
<1>5. ASSUME NEW n \in Node, Timeout(n)
      PROVE  /\ \A p \in net' : Known(p)'
             /\ \A k \in Node : \A t \in trans'[k] : Known(t.msg)'
  <2>1. PICK t \in trans[n] : Expired(n, t)
    BY <1>5 DEF Timeout
  <2>2. \A p \in net' : p \in net \/ p = t.msg
    BY <2>1, WithSubset DEF Expired
  <2>3. [t EXCEPT !.counter = @ + 1].msg = t.msg
    BY DEF RepeatTypes
  <2>4. \A k \in Node : \A u \in trans'[k] : u \in trans[k] \/ (k = n /\ u.msg = t.msg)
    BY <2>1, <2>3 DEF Expired, RepeatTypes
  <2>. QED BY <2>2, <2>4, <1>2
<1>6. ASSUME NEW r \in Request, Send(r)
      PROVE  /\ \A p \in net' : Known(p)'
             /\ \A k \in Node : \A t \in trans'[k] : Known(t.msg)'
  <2>1. PICK msg :
          /\ msg = Packet(IF r \in Confirmable THEN "CON" ELSE "NON", "request",
                          NextMid(From[r]), r, To[r])
          /\ net' = With(net, {msg})
          /\ trans' = [trans EXCEPT ![From[r]] = @ \cup Kept(msg)]
    BY <1>6 DEF Send
  <2>2. /\ msg.type \in {"CON", "NON"} /\ msg.token = r
        /\ msg.mid = mid'[r] /\ cb'[r] # "unsent"
    BY <2>1, <1>6 DEF Send, Packet, RepeatTypes
  <2>3. Known(msg)'
    BY <2>2 DEF Stamped
  <2>4. \A p \in net' : p \in net \/ p = msg
    BY <2>1, WithSubset
  <2>5. \A k \in Node : \A t \in trans'[k] : t \in trans[k] \/ t.msg = msg
    BY <2>1 DEF Kept, RepeatTypes
  <2>. HIDE DEF Known
  <2>. QED BY <2>3, <2>4, <2>5, <1>2
<1>7. ASSUME NEW r \in Request, SendSeparate(r)
      PROVE  /\ \A p \in net' : Known(p)'
             /\ \A k \in Node : \A t \in trans'[k] : Known(t.msg)'
  <2>. DEFINE n == To[r]
              msg == Packet("CON", "response", NextMid(n), r, From[r])
  <2>1. msg.code = "response"
    BY DEF Packet
  <2>2. \A p \in net' : p \in net \/ p = msg
    BY <1>7, WithSubset DEF SendSeparate
  <2>3. \A k \in Node : \A t \in trans'[k] : t \in trans[k] \/ t.msg = msg
    BY <1>7 DEF SendSeparate, Kept, RepeatTypes
  <2>. HIDE DEF msg
  <2>. QED BY <2>1, <2>2, <2>3, <1>2
<1>8. ASSUME \/ \E r \in Request : RemoveCallback(r)
             \/ Lose \/ UNCHANGED vars
      PROVE  net' \subseteq net /\ trans' = trans
  BY <1>8 DEF RemoveCallback, Lose, vars
<1>. HIDE DEF Known
<1>. QED BY <1>1, <1>2, <1>3, <1>4, <1>5, <1>6, <1>7, <1>8 DEF Next, Receive

(* The history as a queue of constant length.                              *)
LEMMA Push ==
  ASSUME NEW h \in Seq(Int), NEW x \in Int, Len(h) = HistorySize
  PROVE  LET p == Append(Tail(h), x)
         IN  /\ p \in Seq(Int) /\ Len(p) = HistorySize
             /\ \A i \in 1 .. HistorySize - 1 : p[i] = h[i + 1]
             /\ p[HistorySize] = x
<1>1. HistorySize \in Nat \ {0}
  BY ExchangeAssumption
<1>2. h # <<>>
  BY <1>1
<1>3. /\ Tail(h) \in Seq(Int) /\ Len(Tail(h)) = HistorySize - 1
      /\ \A i \in 1 .. HistorySize - 1 : Tail(h)[i] = h[i + 1]
  BY <1>1, <1>2
<1>. QED BY <1>1, <1>3

(* A node lets one non-confirmable request through, or neither its list of *)
(* them nor its history changes.                                           *)
LEMMA AcceptStep ==
  ASSUME RepeatTypes, RequestsStamped, [Next]_vars
  PROVE  \/ UNCHANGED <<accepted, history>>
         \/ \E m \in net :
              /\ Stamped(m) /\ m.type = "NON" /\ ~IsDuplicate(m.dst, m)
              /\ accepted' = [accepted EXCEPT ![m.dst] = Append(@, m.token)]
              /\ history' = [history EXCEPT ![m.dst] = Append(Tail(@), m.mid)]
<1>1. ASSUME NEW m \in net, ReceiveRequest(m)
      PROVE  \/ UNCHANGED <<accepted, history>>
             \/ /\ Stamped(m) /\ m.type = "NON" /\ ~IsDuplicate(m.dst, m)
                /\ accepted' = [accepted EXCEPT ![m.dst] = Append(@, m.token)]
                /\ history' = [history EXCEPT ![m.dst] = Append(Tail(@), m.mid)]
  <2>1. Stamped(m) /\ ~IsDuplicate(m.dst, m)
    BY <1>1 DEF ReceiveRequest, RequestsStamped
  <2>2. CASE m.type = "NON"
    BY <1>1, <2>1, <2>2 DEF ReceiveRequest, Remember
  <2>3. CASE m.type = "CON"
    BY <1>1, <2>3 DEF ReceiveRequest, Remember
  <2>. QED BY <2>1, <2>2, <2>3 DEF Stamped
<1>2. ASSUME NEW m \in net, ReceiveResponse(m) \/ ReceiveDuplicate(m)
      PROVE  UNCHANGED <<accepted, history>>
  BY <1>2 DEF ReceiveResponse, ReceiveDuplicate
<1>3. ASSUME NEW n \in Node, Timeout(n)
      PROVE  UNCHANGED <<accepted, history>>
  BY <1>3 DEF Timeout
<1>4. ASSUME NEW r \in Request, Send(r) \/ RemoveCallback(r) \/ SendSeparate(r)
      PROVE  UNCHANGED <<accepted, history>>
  BY <1>4 DEF Send, RemoveCallback, SendSeparate
<1>5. CASE Lose \/ UNCHANGED vars
  BY <1>5 DEF Lose, vars
<1>. QED BY <1>1, <1>2, <1>3, <1>4, <1>5 DEF Next, Receive

LEMMA NextMidInt ==
  ASSUME NEW n \in Node, RepeatTypes PROVE NextMid(n) \in Int
<1>1. current[n] + 1 \in Int /\ MidRange \in Nat \ {0}
  BY ExchangeAssumption DEF RepeatTypes
<1>. QED BY <1>1 DEF NextMid

LEMMA TakeMidInt ==
  ASSUME NEW n, RepeatTypes, TakeMid(n) PROVE current' \in [Node -> Int]
BY NextMidInt DEF TakeMid, RepeatTypes

LEMMA KeptTypes ==
  ASSUME NEW m, NEW t \in Kept(m) PROVE t = [msg |-> t.msg, counter |-> t.counter]
BY DEF Kept

LEMMA ClientTypesStep ==
  ASSUME RepeatTypes, RequestsStamped, [Next]_vars
  PROVE  /\ cb' \in [Request -> {"unsent", "live", "freed"}]
         /\ mid' \in [Request -> Int] /\ current' \in [Node -> Int]
         /\ trans' = [n \in Node |-> trans'[n]]
         /\ \A n \in Node : \A t \in trans'[n] :
              t = [msg |-> t.msg, counter |-> t.counter]
<1>1. ASSUME NEW m \in net, ReceiveResponse(m)
      PROVE  /\ cb' \in [Request -> {"unsent", "live", "freed"}]
             /\ UNCHANGED <<mid, current>>
             /\ trans' = [trans EXCEPT ![m.dst] = AfterReceipt(m.dst, m)]
  BY <1>1 DEF ReceiveResponse, RepeatTypes
<1>2. ASSUME NEW m \in net, ReceiveDuplicate(m) \/ ReceiveRequest(m)
      PROVE  /\ UNCHANGED <<cb, mid>> /\ current' \in [Node -> Int]
             /\ trans' = [trans EXCEPT ![m.dst] = AfterReceipt(m.dst, m)]
  BY <1>2, TakeMidInt DEF ReceiveDuplicate, ReceiveRequest, RepeatTypes
<1>3. ASSUME NEW m, trans' = [trans EXCEPT ![m.dst] = AfterReceipt(m.dst, m)]
      PROVE  /\ trans' = [n \in Node |-> trans'[n]]
             /\ \A n \in Node : \A t \in trans'[n] :
                  t = [msg |-> t.msg, counter |-> t.counter]
  <2>1. AfterReceipt(m.dst, m) \subseteq trans[m.dst]
    BY DEF AfterReceipt
  <2>. QED BY <1>3, <2>1 DEF RepeatTypes
<1>4. ASSUME NEW n \in Node, NEW new, trans' = [trans EXCEPT ![n] = new],
             \A t \in new : t \in trans[n]
                            \/ t = [msg |-> t.msg, counter |-> t.counter]
      PROVE  /\ trans' = [k \in Node |-> trans'[k]]
             /\ \A k \in Node : \A t \in trans'[k] :
                  t = [msg |-> t.msg, counter |-> t.counter]
  BY <1>4 DEF RepeatTypes
<1>5. ASSUME NEW n \in Node, Timeout(n)
      PROVE  /\ cb' \in [Request -> {"unsent", "live", "freed"}]
             /\ UNCHANGED <<mid, current>>
             /\ trans' = [k \in Node |-> trans'[k]]
             /\ \A k \in Node : \A t \in trans'[k] :
                  t = [msg |-> t.msg, counter |-> t.counter]
  <2>1. PICK t \in trans[n] : Expired(n, t)
    BY <1>5 DEF Timeout
  <2>2. t = [msg |-> t.msg, counter |-> t.counter]
    BY DEF RepeatTypes
  <2>3. [t EXCEPT !.counter = @ + 1] = [msg |-> t.msg, counter |-> t.counter + 1]
    BY <2>2
  <2>4. PICK new : /\ trans' = [trans EXCEPT ![n] = new]
                   /\ new \subseteq trans[n] \cup {[t EXCEPT !.counter = @ + 1]}
    BY <2>1 DEF Expired
  <2>5. \A u \in new : u \in trans[n] \/ u = [msg |-> u.msg, counter |-> u.counter]
    BY <2>3, <2>4
  <2>6. UNCHANGED <<mid, current>> /\ cb' \in [Request -> {"unsent", "live", "freed"}]
    BY <1>5 DEF Timeout, RepeatTypes
  <2>. QED BY <1>4, <2>4, <2>5, <2>6
<1>6. ASSUME NEW r \in Request, Send(r)
      PROVE  /\ cb' \in [Request -> {"unsent", "live", "freed"}]
             /\ mid' \in [Request -> Int] /\ current' \in [Node -> Int]
             /\ trans' = [k \in Node |-> trans'[k]]
             /\ \A k \in Node : \A t \in trans'[k] :
                  t = [msg |-> t.msg, counter |-> t.counter]
  <2>1. From[r] \in Node
    BY ExchangeAssumption
  <2>2. PICK m : trans' = [trans EXCEPT ![From[r]] = @ \cup Kept(m)]
    BY <1>6 DEF Send
  <2>3. /\ cb' \in [Request -> {"unsent", "live", "freed"}]
        /\ mid' \in [Request -> Int] /\ current' \in [Node -> Int]
    BY <1>6, <2>1, NextMidInt, TakeMidInt DEF Send, RepeatTypes
  <2>4. \A t \in trans[From[r]] \cup Kept(m) :
          t \in trans[From[r]] \/ t = [msg |-> t.msg, counter |-> t.counter]
    BY KeptTypes
  <2>. QED BY <1>4, <2>1, <2>2, <2>3, <2>4
<1>7. ASSUME NEW r \in Request, SendSeparate(r)
      PROVE  /\ UNCHANGED <<cb, mid>> /\ current' \in [Node -> Int]
             /\ trans' = [k \in Node |-> trans'[k]]
             /\ \A k \in Node : \A t \in trans'[k] :
                  t = [msg |-> t.msg, counter |-> t.counter]
  <2>1. To[r] \in Node
    BY ExchangeAssumption
  <2>2. PICK m : trans' = [trans EXCEPT ![To[r]] = @ \cup Kept(m)]
    BY <1>7 DEF SendSeparate
  <2>3. UNCHANGED <<cb, mid>> /\ current' \in [Node -> Int]
    BY <1>7, TakeMidInt DEF SendSeparate
  <2>4. \A t \in trans[To[r]] \cup Kept(m) :
          t \in trans[To[r]] \/ t = [msg |-> t.msg, counter |-> t.counter]
    BY KeptTypes
  <2>. QED BY <1>4, <2>1, <2>2, <2>3, <2>4
<1>8. ASSUME NEW r \in Request, RemoveCallback(r)
      PROVE  /\ cb' \in [Request -> {"unsent", "live", "freed"}]
             /\ UNCHANGED <<mid, current, trans>>
  BY <1>8 DEF RemoveCallback, RepeatTypes
<1>9. CASE Lose \/ UNCHANGED vars
  <2>1. UNCHANGED <<cb, mid, current, trans>>
    BY <1>9 DEF Lose, vars
  <2>. QED BY <2>1 DEF RepeatTypes
<1>. QED BY <1>1, <1>2, <1>3, <1>5, <1>6, <1>7, <1>8, <1>9 DEF Next, Receive, RepeatTypes

LEMMA ServerTypesStep ==
  ASSUME RepeatTypes, RequestsStamped, [Next]_vars
  PROVE  /\ accepted' \in [Node -> Seq(Request)]
         /\ history' \in [Node -> Seq(Int)]
         /\ \A n \in Node : Len(history'[n]) = HistorySize
<1>1. CASE UNCHANGED <<accepted, history>>
  BY <1>1 DEF RepeatTypes
<1>2. ASSUME NEW m \in net, Stamped(m),
             accepted' = [accepted EXCEPT ![m.dst] = Append(@, m.token)],
             history' = [history EXCEPT ![m.dst] = Append(Tail(@), m.mid)]
      PROVE  /\ accepted' \in [Node -> Seq(Request)]
             /\ history' \in [Node -> Seq(Int)]
             /\ \A n \in Node : Len(history'[n]) = HistorySize
  <2>1. m.token \in Request /\ m.mid \in Int
    BY <1>2 DEF Stamped, RepeatTypes
  <2>2. accepted' \in [Node -> Seq(Request)]
    <3>1. \A s \in Seq(Request) : Append(s, m.token) \in Seq(Request)
      BY <2>1
    <3>. QED BY <1>2, <3>1, ZenonT(30) DEF RepeatTypes
  <2>3. CASE m.dst \in Node
    <3>1. history[m.dst] \in Seq(Int) /\ Len(history[m.dst]) = HistorySize
      BY <2>3 DEF RepeatTypes
    <3>2. /\ Append(Tail(history[m.dst]), m.mid) \in Seq(Int)
          /\ Len(Append(Tail(history[m.dst]), m.mid)) = HistorySize
      BY <2>1, <3>1, Push
    <3>. QED BY <1>2, <2>2, <2>3, <3>2 DEF RepeatTypes
  <2>4. CASE m.dst \notin Node
    BY <1>2, <2>2, <2>4 DEF RepeatTypes
  <2>. QED BY <2>3, <2>4
<1>. QED BY <1>1, <1>2, AcceptStep

LEMMA TypesStep ==
  ASSUME RepeatTypes, RequestsStamped, [Next]_vars
  PROVE  RepeatTypes'
BY ClientTypesStep, ServerTypesStep DEF RepeatTypes

LEMMA RemembersStep ==
  ASSUME RepeatInv, [Next]_vars, NEW n \in Node
  PROVE  Remembers(n)'
<1>1. CASE accepted'[n] = accepted[n] /\ history'[n] = history[n]
  <2>1. \A i \in 1 .. Len(accepted[n]) : accepted[n][i] \in Request
    BY DEF RepeatInv, RepeatTypes
  <2>. QED BY <1>1, <2>1, StampStays DEF RepeatInv, Remembers
<1>2. ASSUME NEW m \in net, Stamped(m), m.dst = n,
             accepted' = [accepted EXCEPT ![m.dst] = Append(@, m.token)],
             history' = [history EXCEPT ![m.dst] = Append(Tail(@), m.mid)]
      PROVE  Remembers(n)'
  <2>. DEFINE a == accepted[n]
              b == accepted'[n]
              h == history[n]
              g == history'[n]
  <2>1. a \in Seq(Request) /\ h \in Seq(Int) /\ Len(h) = HistorySize
    BY DEF RepeatInv, RepeatTypes
  <2>2. m.token \in Request /\ m.mid = mid[m.token] /\ m.mid \in Int
    BY <1>2 DEF Stamped, RepeatInv, RepeatTypes
  <2>3. b = Append(a, m.token) /\ g = Append(Tail(h), m.mid)
    BY <1>2 DEF RepeatInv, RepeatTypes
  <2>4. /\ \A i \in 1 .. HistorySize - 1 : g[i] = h[i + 1]
        /\ g[HistorySize] = m.mid
    BY <2>1, <2>2, <2>3, Push
  <2>5. /\ Len(b) = Len(a) + 1 /\ Len(a) \in Nat
        /\ \A i \in 1 .. Len(a) : b[i] = a[i] /\ a[i] \in Request
        /\ b[Len(a) + 1] = m.token
    BY <2>1, <2>2, <2>3
  <2>6. cb'[m.token] # "unsent" /\ mid'[m.token] = m.mid
    BY <1>2, <2>2, StampStays DEF Stamped, RepeatInv
  <2>7. \A i \in 1 .. Len(a) : /\ cb[a[i]] # "unsent"
                               /\ Len(a) - i < HistorySize =>
                                    h[HistorySize - (Len(a) - i)] = mid[a[i]]
    BY DEF RepeatInv, Remembers
  <2>8. \A i \in 1 .. Len(a) : cb'[a[i]] # "unsent" /\ mid'[a[i]] = mid[a[i]]
    BY <2>5, <2>7, StampStays DEF RepeatInv
  <2>9. HistorySize \in Nat \ {0}
    BY ExchangeAssumption
  <2>. HIDE DEF a, b, h, g
  <2>10. ASSUME NEW i \in 1 .. Len(b)
         PROVE  /\ cb'[b[i]] # "unsent"
                /\ Len(b) - i < HistorySize =>
                     g[HistorySize - (Len(b) - i)] = mid'[b[i]]
    <3>1. CASE i = Len(a) + 1
      BY <2>4, <2>5, <2>6, <2>9, <3>1
    <3>2. CASE i \in 1 .. Len(a)
      <4>1. cb'[b[i]] # "unsent"
        BY <2>5, <2>8, <3>2
      <4>2. ASSUME Len(b) - i < HistorySize
            PROVE  g[HistorySize - (Len(b) - i)] = mid'[b[i]]
        <5>1. /\ HistorySize - (Len(b) - i) \in 1 .. HistorySize - 1
              /\ HistorySize - (Len(b) - i) + 1 = HistorySize - (Len(a) - i)
              /\ Len(a) - i < HistorySize
          BY <2>5, <2>9, <3>2, <4>2
        <5>2. g[HistorySize - (Len(b) - i)] = h[HistorySize - (Len(a) - i)]
          BY <2>4, <5>1
        <5>. QED BY <2>5, <2>7, <2>8, <3>2, <5>1, <5>2
      <4>. QED BY <4>1, <4>2
    <3>. QED BY <2>5, <3>1, <3>2
  <2>. QED BY <2>10 DEF Remembers, b, g
<1>3. ASSUME NEW m \in net, m.dst # n,
             accepted' = [accepted EXCEPT ![m.dst] = Append(@, m.token)],
             history' = [history EXCEPT ![m.dst] = Append(Tail(@), m.mid)]
      PROVE  accepted'[n] = accepted[n] /\ history'[n] = history[n]
  BY <1>3 DEF RepeatInv, RepeatTypes
<1>. QED BY <1>1, <1>2, <1>3, AcceptStep DEF RepeatInv

LEMMA RepeatsStep ==
  ASSUME RepeatInv, [Next]_vars
  PROVE  RepeatsDropped'
<1>1. CASE UNCHANGED <<accepted, history>>
  BY <1>1 DEF RepeatInv, RepeatsDropped
<1>2. ASSUME NEW m \in net, Stamped(m), m.type = "NON", ~IsDuplicate(m.dst, m),
             accepted' = [accepted EXCEPT ![m.dst] = Append(@, m.token)],
             NEW n \in Node, NEW i \in 1 .. Len(accepted'[n]),
             NEW j \in 1 .. Len(accepted'[n]),
             i < j, accepted'[n][i] = accepted'[n][j]
      PROVE  j - i > HistorySize
  <2>. DEFINE a == accepted[n]
              b == accepted'[n]
  <2>1. a \in Seq(Request) /\ HistorySize \in Nat \ {0} /\ m.token \in Request
    BY <1>2, ExchangeAssumption DEF RepeatInv, RepeatTypes, Stamped
  <2>2. \A k, l \in 1 .. Len(a) : k < l /\ a[k] = a[l] => l - k > HistorySize
    BY DEF RepeatInv, RepeatsDropped
  <2>3. CASE n # m.dst
    <3>1. b = a
      BY <1>2, <2>3 DEF RepeatInv, RepeatTypes
    <3>. QED BY <1>2, <2>2, <3>1
  <2>4. CASE n = m.dst
    <3>1. b = Append(a, m.token)
      BY <1>2, <2>4 DEF RepeatInv, RepeatTypes
    <3>2. /\ Len(b) = Len(a) + 1 /\ Len(a) \in Nat
          /\ \A k \in 1 .. Len(a) : b[k] = a[k]
          /\ b[Len(a) + 1] = m.token
      BY <2>1, <3>1
    <3>3. CASE j \in 1 .. Len(a)
      BY <1>2, <2>2, <3>2, <3>3
    <3>4. CASE j = Len(a) + 1
      <4>1. i \in 1 .. Len(a) /\ a[i] = m.token
        BY <1>2, <3>2, <3>4
      <4>2. Len(a) - i < HistorySize =>
              history[n][HistorySize - (Len(a) - i)] = m.mid
        BY <1>2, <4>1 DEF RepeatInv, Remembers, Stamped
      <4>3. \A k \in 1 .. HistorySize : history[n][k] # m.mid
        BY <1>2, <2>4 DEF IsDuplicate
      <4>4. Len(a) - i < HistorySize =>
              HistorySize - (Len(a) - i) \in 1 .. HistorySize
        BY <2>1, <3>2, <4>1
      <4>5. ~(Len(a) - i < HistorySize)
        BY <4>2, <4>3, <4>4
      <4>. QED BY <2>1, <3>2, <3>4, <4>1, <4>5
    <3>. QED BY <1>2, <3>2, <3>3, <3>4
  <2>. QED BY <2>3, <2>4
<1>. QED BY <1>1, <1>2, AcceptStep DEF RepeatInv, RepeatsDropped

LEMMA RepeatInvariant == Spec => []RepeatInv
<1>1. Init => RepeatInv
  <2>. SUFFICES ASSUME Init PROVE RepeatInv
    OBVIOUS
  <2>1. HistorySize \in Nat \ {0} /\ current \in [Node -> Int]
    BY ExchangeAssumption DEF Init
  <2>2. \A n \in Node : history[n] \in Seq(Int) /\ Len(history[n]) = HistorySize
    BY <2>1 DEF Init
  <2>3. history \in [Node -> Seq(Int)] /\ accepted \in [Node -> Seq(Request)]
    <3>1. history = [n \in Node |-> history[n]]
      BY DEF Init
    <3>2. accepted = [n \in Node |-> <<>>] /\ <<>> \in Seq(Request)
      BY DEF Init
    <3>. QED BY <2>2, <3>1, <3>2
  <2>4. \A n \in Node : Len(accepted[n]) = 0
    BY DEF Init
  <2>5. (\A n \in Node : Remembers(n)) /\ RepeatsDropped
    BY <2>4 DEF Remembers, RepeatsDropped
  <2>6. RequestsStamped
    BY DEF Init, RequestsStamped
  <2>7. /\ cb \in [Request -> {"unsent", "live", "freed"}]
        /\ mid \in [Request -> Int] /\ trans = [n \in Node |-> trans[n]]
        /\ \A n \in Node : trans[n] = {}
    BY DEF Init
  <2>8. RepeatTypes
    BY <2>1, <2>2, <2>3, <2>7 DEF RepeatTypes
  <2>. QED BY <2>5, <2>6, <2>8 DEF RepeatInv
<1>2. RepeatInv /\ [Next]_vars => RepeatInv'
  BY TypesStep, StampedStep, RemembersStep, RepeatsStep DEF RepeatInv
<1>. QED BY <1>1, <1>2, PTL DEF Spec

(* Whatever the size of the history, a non-confirmable request is let      *)
(* through again only after as many others as the history holds.           *)
THEOREM HistoryDropsRepeats == Spec => []RepeatsDropped
BY RepeatInvariant, PTL DEF RepeatInv

----------------------------------------------------------------------------
(* Every message that is confirmable or a request bears the token of a     *)
(* request, and a transaction holds a confirmable message; that of a       *)
(* request is with the client that sends it.                               *)
Addressed(m) == m \in Message /\ (m.type = "CON" \/ m.code = "request" => m.token \in Request)

KeptAt(n, t) ==
  /\ t \in Transaction
  /\ t.msg.type = "CON" /\ t.msg.token \in Request
  /\ t.msg.code = "request" => From[t.msg.token] = n

Typed ==
  /\ cb \in [Request -> {"unsent", "live", "freed"}]
  /\ mid \in [Request -> Mid]
  /\ current \in [Node -> Mid]
  /\ history \in [Node -> [1 .. HistorySize -> Mid]]
  /\ deferred \subseteq Request
  /\ dups \in 0 .. MaxDuplicates
  /\ outcome \in [Request -> Seq({"response", "503"})]
  /\ accepted \in [Node -> Seq(Request)]
  /\ DOMAIN trans = Node

ExchangeInv ==
  /\ Typed
  /\ trans = [n \in Node |-> trans[n]]
  /\ \A m \in net : Addressed(m)
  /\ \A n \in Node : \A t \in trans[n] : KeptAt(n, t)

LEMMA TypedExchange == ExchangeInv => TypeOK
BY DEF ExchangeInv, Typed, TypeOK, Addressed, KeptAt

LEMMA NextMidTyped ==
  ASSUME current \in [Node -> Mid], NEW n \in Node
  PROVE  /\ NextMid(n) \in Mid
         /\ TakeMid(n) => current' \in [Node -> Mid]
<1>1. MidRange \in Nat /\ MidRange > 0 /\ current[n] \in Nat
  BY ExchangeAssumption DEF Mid
<1>2. NextMid(n) \in Mid
  BY <1>1 DEF NextMid, Mid
<1>. QED BY <1>2 DEF TakeMid

LEMMA Appended ==
  ASSUME NEW S, NEW s \in Seq(S), NEW x \in S
  PROVE  Append(s, x) \in Seq(S)
OBVIOUS

LEMMA Pushed ==
  ASSUME NEW h \in [1 .. HistorySize -> Mid], NEW x \in Mid
  PROVE  Append(Tail(h), x) \in [1 .. HistorySize -> Mid]
<1>1. HistorySize \in Nat /\ HistorySize > 0
  BY ExchangeAssumption
<1>2. h \in Seq(Mid) /\ Len(h) = HistorySize
  BY <1>1
<1>3. Tail(h) \in Seq(Mid) /\ Len(Tail(h)) = HistorySize - 1
  BY <1>1, <1>2
<1>4. Append(Tail(h), x) \in Seq(Mid) /\ Len(Append(Tail(h), x)) = HistorySize
  BY <1>1, <1>3
<1>5. \A p \in Seq(Mid) : p \in [1 .. Len(p) -> Mid]
  OBVIOUS
<1>. QED BY <1>4, <1>5

LEMMA PacketAddressed ==
  ASSUME NEW type \in {"CON", "NON", "ACK", "RST"}, NEW code \in {"request", "response", "empty"},
         NEW id \in Mid, NEW token \in Request \cup {NoToken}, NEW dst \in Node,
         type = "CON" \/ code = "request" => token \in Request
  PROVE  Addressed(Packet(type, code, id, token, dst))
BY DEF Addressed, Packet, Message

LEMMA DupsDelivered ==
  ASSUME dups \in 0 .. MaxDuplicates, NEW m, NEW sent, Delivered(m, sent)
  PROVE  dups' \in 0 .. MaxDuplicates
BY ExchangeAssumption DEF Delivered

(* What is left after a receipt was there before.                          *)
LEMMA ReceiptSubset == ASSUME NEW n, NEW m PROVE AfterReceipt(n, m) \subseteq trans[n]
BY DEF AfterReceipt

LEMMA TransChanged ==
  ASSUME ExchangeInv, NEW n, NEW new, trans' = [trans EXCEPT ![n] = new],
         n \in Node => \A t \in new : t \in trans[n] \/ KeptAt(n, t)
  PROVE  /\ trans' = [k \in Node |-> trans'[k]] /\ DOMAIN trans' = Node
         /\ \A k \in Node : \A t \in trans'[k] : KeptAt(k, t)
BY DEF ExchangeInv

LEMMA ReceiveTyped ==
  ASSUME ExchangeInv, NEW m \in net,
         ReceiveResponse(m) \/ ReceiveDuplicate(m) \/ ReceiveRequest(m)
  PROVE  ExchangeInv'
<1>1. Addressed(m) /\ m \in Message /\ m.dst \in Node /\ m.mid \in Mid
  BY DEF ExchangeInv, Addressed, Message
<1>2. trans' = [trans EXCEPT ![m.dst] = AfterReceipt(m.dst, m)]
  BY DEF ReceiveResponse, ReceiveDuplicate, ReceiveRequest
<1>3. /\ trans' = [k \in Node |-> trans'[k]] /\ DOMAIN trans' = Node
      /\ \A k \in Node : \A t \in trans'[k] : KeptAt(k, t)
  BY <1>2, ReceiptSubset, TransChanged
<1>4. CASE ReceiveResponse(m)
  <2>. DEFINE sent == IF m.type = "CON"
                      THEN {Packet("ACK", "empty", m.mid, m.token, To[m.token])} ELSE {}
  <2>1. /\ cb' = [r \in Request |-> IF Answers(m, r) THEN "freed" ELSE cb[r]]
        /\ outcome' = [r \in Request |->
                         IF Answers(m, r) THEN Append(outcome[r], "response") ELSE outcome[r]]
        /\ Delivered(m, sent)
        /\ UNCHANGED <<mid, current, history, deferred, accepted>>
    BY <1>4 DEF ReceiveResponse
  <2>2. \A p \in sent : Addressed(p)
    BY <1>1, PacketAddressed, ExchangeAssumption DEF Addressed
  <2>3. \A r \in Request : Append(outcome[r], "response") \in Seq({"response", "503"})
    BY Appended DEF ExchangeInv, Typed
  <2>. HIDE DEF sent
  <2>4. net' \subseteq net \cup sent /\ dups' \in 0 .. MaxDuplicates
    BY <2>1, DeliveredSubset, DupsDelivered DEF ExchangeInv, Typed
  <2>5. cb' \in [Request -> {"unsent", "live", "freed"}]
    BY <2>1 DEF ExchangeInv, Typed
  <2>6. outcome' \in [Request -> Seq({"response", "503"})]
    BY <2>1, <2>3 DEF ExchangeInv, Typed
  <2>7. Typed'
    BY <1>3, <2>1, <2>4, <2>5, <2>6 DEF ExchangeInv, Typed
  <2>8. \A p \in net' : Addressed(p)
    BY <2>2, <2>4 DEF ExchangeInv
  <2>. QED BY <1>3, <2>7, <2>8 DEF ExchangeInv, Addressed, KeptAt
<1>5. CASE ReceiveDuplicate(m)
  <2>1. Delivered(m, {}) /\ UNCHANGED <<cb, mid, current, history, deferred, outcome, accepted>>
    BY <1>5 DEF ReceiveDuplicate
  <2>2. net' \subseteq net /\ dups' \in 0 .. MaxDuplicates
    BY <2>1, DeliveredSubset, DupsDelivered DEF ExchangeInv, Typed
  <2>3. Typed'
    BY <1>3, <2>1, <2>2 DEF ExchangeInv, Typed
  <2>. QED BY <1>3, <2>2, <2>3 DEF ExchangeInv, Addressed, KeptAt
<1>6. CASE ReceiveRequest(m)
  <2>1. m.token \in Request /\ From[m.token] \in Node
    BY <1>1, <1>6, ExchangeAssumption DEF ReceiveRequest, Addressed
  <2>2. PICK b \in Behaviour[m.token] :
          deferred' = deferred \cup Stored(m, b) /\ Delivered(m, Reply(m, b))
    BY <1>6 DEF ReceiveRequest
  <2>3. NextMid(m.dst) \in Mid
    BY <1>1, NextMidTyped DEF ExchangeInv, Typed
  <2>4. \A p \in Reply(m, b) : Addressed(p)
    BY <1>1, <2>1, <2>3, PacketAddressed DEF Reply
  <2>5. net' \subseteq net \cup Reply(m, b) /\ dups' \in 0 .. MaxDuplicates
    BY <2>2, DeliveredSubset, DupsDelivered DEF ExchangeInv, Typed
  <2>6. deferred' \subseteq Request
    BY <2>1, <2>2 DEF Stored, ExchangeInv, Typed
  <2>7. history' \in [Node -> [1 .. HistorySize -> Mid]]
    <3>1. history[m.dst] \in [1 .. HistorySize -> Mid]
      BY <1>1 DEF ExchangeInv, Typed
    <3>2. Append(Tail(history[m.dst]), m.mid) \in [1 .. HistorySize -> Mid]
      BY <1>1, <3>1, Pushed
    <3>3. \/ history' = [history EXCEPT ![m.dst] = Append(Tail(history[m.dst]), m.mid)]
          \/ history' = history
      BY <1>6 DEF ReceiveRequest, Remember
    <3>. HIDE DEF ExchangeInv
    <3>4. history \in [Node -> [1 .. HistorySize -> Mid]]
      BY DEF ExchangeInv, Typed
    <3>. QED BY <3>2, <3>3, <3>4
  <2>8. current' \in [Node -> Mid] /\ accepted' \in [Node -> Seq(Request)]
    <3>1. current \in [Node -> Mid] /\ accepted \in [Node -> Seq(Request)]
      BY DEF ExchangeInv, Typed
    <3>2. CASE m.type = "CON"
      BY <1>6, <3>1, <3>2 DEF ReceiveRequest
    <3>3. CASE m.type # "CON"
      <4>1. TakeMid(m.dst) /\ accepted' = [accepted EXCEPT ![m.dst] = Append(accepted[m.dst], m.token)]
        BY <1>6, <3>3 DEF ReceiveRequest
      <4>2. Append(accepted[m.dst], m.token) \in Seq(Request)
        BY <1>1, <2>1, <3>1, Appended
      <4>. QED BY <1>1, <3>1, <4>1, <4>2, NextMidTyped
    <3>. QED BY <3>2, <3>3
  <2>9. UNCHANGED <<cb, mid, outcome>>
    BY <1>6 DEF ReceiveRequest
  <2>10. Typed'
    BY <1>3, <2>5, <2>6, <2>7, <2>8, <2>9 DEF ExchangeInv, Typed
  <2>11. \A p \in net' : Addressed(p)
    BY <2>4, <2>5 DEF ExchangeInv
  <2>. QED BY <1>3, <2>10, <2>11 DEF ExchangeInv, Addressed, KeptAt
<1>. QED BY <1>4, <1>5, <1>6

(* A message that is sent and, if confirmable, kept.                       *)
LEMMA KeptTyped ==
  ASSUME NEW n, NEW msg, Addressed(msg), msg.code = "request" => From[msg.token] = n
  PROVE  \A t \in Kept(msg) : KeptAt(n, t)
BY ExchangeAssumption DEF Kept, KeptAt, Transaction, Addressed

LEMMA OtherTyped ==
  ASSUME ExchangeInv,
         \/ Lose \/ UNCHANGED vars \/ \E n \in Node : Timeout(n)
         \/ \E r \in Request : Send(r) \/ RemoveCallback(r) \/ SendSeparate(r)
  PROVE  ExchangeInv'
<1>1. CASE Lose \/ UNCHANGED vars \/ \E r \in Request : RemoveCallback(r)
  <2>1. /\ net' \subseteq net /\ UNCHANGED <<mid, trans, current, history, deferred, dups, outcome, accepted>>
        /\ cb' = cb \/ \E r \in Request : cb' = [cb EXCEPT ![r] = "freed"]
    BY <1>1 DEF Lose, vars, RemoveCallback
  <2>2. Typed'
    BY <2>1 DEF ExchangeInv, Typed
  <2>. QED BY <2>1, <2>2 DEF ExchangeInv, Addressed, KeptAt
<1>2. ASSUME NEW n \in Node, Timeout(n) PROVE ExchangeInv'
  <2>1. PICK t \in trans[n] :
          /\ Expired(n, t)
          /\ cb' = [r \in Request |-> IF TimesOut(n, t, r) THEN "freed" ELSE cb[r]]
          /\ outcome' = [r \in Request |->
                           IF TimesOut(n, t, r) THEN Append(outcome[r], "503") ELSE outcome[r]]
    BY <1>2 DEF Timeout
  <2>2. UNCHANGED <<mid, current, history, deferred, dups, accepted>>
    BY <1>2 DEF Timeout
  <2>3. KeptAt(n, t) /\ Addressed(t.msg)
    BY DEF ExchangeInv, KeptAt, Addressed, Transaction
  <2>4. t.counter + 1 < MaxRetransmit => KeptAt(n, [t EXCEPT !.counter = @ + 1])
    BY <2>3, ExchangeAssumption DEF KeptAt, Transaction
  <2>. DEFINE again == [t EXCEPT !.counter = @ + 1]
              new == (trans[n] \ {t}) \cup (IF t.counter + 1 < MaxRetransmit THEN {again} ELSE {})
  <2>5. trans' = [trans EXCEPT ![n] = new]
    BY <2>1 DEF Expired
  <2>6. \A u \in new : u \in trans[n] \/ KeptAt(n, u)
    BY <2>4
  <2>. HIDE DEF new
  <2>7. /\ trans' = [k \in Node |-> trans'[k]] /\ DOMAIN trans' = Node
        /\ \A k \in Node : \A u \in trans'[k] : KeptAt(k, u)
    BY <2>5, <2>6, TransChanged
  <2>8. \A p \in net' : Addressed(p)
    <3>1. net' \subseteq net \cup {t.msg}
      BY <2>1, WithSubset DEF Expired
    <3>. QED BY <2>3, <3>1 DEF ExchangeInv
  <2>9. \A r \in Request : Append(outcome[r], "503") \in Seq({"response", "503"})
    BY Appended DEF ExchangeInv, Typed
  <2>10. cb' \in [Request -> {"unsent", "live", "freed"}]
    BY <2>1 DEF ExchangeInv, Typed
  <2>11. outcome' \in [Request -> Seq({"response", "503"})]
    BY <2>1, <2>9 DEF ExchangeInv, Typed
  <2>12. Typed'
    BY <2>2, <2>7, <2>10, <2>11 DEF ExchangeInv, Typed
  <2>. QED BY <2>7, <2>8, <2>12 DEF ExchangeInv, Addressed, KeptAt
<1>3. ASSUME NEW r \in Request, Send(r) \/ SendSeparate(r) PROVE ExchangeInv'
  <2>1. From[r] \in Node /\ To[r] \in Node
    BY ExchangeAssumption
  <2>. DEFINE Sends(n, msg) ==
          /\ Addressed(msg) /\ (msg.code = "request" => From[msg.token] = n)
          /\ TakeMid(n) /\ NextMid(n) \in Mid
          /\ trans' = [trans EXCEPT ![n] = trans[n] \cup Kept(msg)]
          /\ net' = With(net, {msg})
          /\ mid' \in {mid, [mid EXCEPT ![r] = NextMid(n)]}
  <2>20. \E n \in Node : \E msg : Sends(n, msg)
    <3>1. CASE Send(r)
      <4>. DEFINE n == From[r]
                  msg == Packet(IF r \in Confirmable THEN "CON" ELSE "NON", "request",
                                NextMid(n), r, To[r])
      <4>1. /\ TakeMid(n) /\ trans' = [trans EXCEPT ![n] = trans[n] \cup Kept(msg)]
            /\ net' = With(net, {msg}) /\ mid' = [mid EXCEPT ![r] = NextMid(n)]
        BY <3>1 DEF Send
      <4>2. NextMid(n) \in Mid
        BY <2>1, NextMidTyped DEF ExchangeInv, Typed
      <4>3. Addressed(msg) /\ From[msg.token] = n
        BY <2>1, <4>2, PacketAddressed DEF Packet
      <4>. HIDE DEF msg
      <4>. QED BY <2>1, <4>1, <4>2, <4>3
    <3>2. CASE SendSeparate(r)
      <4>. DEFINE n == To[r]
                  msg == Packet("CON", "response", NextMid(n), r, From[r])
      <4>1. /\ TakeMid(n) /\ trans' = [trans EXCEPT ![n] = trans[n] \cup Kept(msg)]
            /\ net' = With(net, {msg}) /\ mid' = mid
        BY <3>2 DEF SendSeparate
      <4>2. NextMid(n) \in Mid
        BY <2>1, NextMidTyped DEF ExchangeInv, Typed
      <4>3. Addressed(msg) /\ msg.code # "request"
        BY <2>1, <4>2, PacketAddressed DEF Packet
      <4>. HIDE DEF msg
      <4>. QED BY <2>1, <4>1, <4>2, <4>3
    <3>. QED BY <1>3, <3>1, <3>2
  <2>21. PICK n \in Node : \E msg : Sends(n, msg)
    BY <2>20
  <2>2. PICK msg : Sends(n, msg)
    BY <2>21
  <2>3. /\ cb' \in {cb, [cb EXCEPT ![r] = "freed"], [cb EXCEPT ![r] = "live"]}
        /\ deferred' \subseteq deferred
        /\ UNCHANGED <<history, dups, outcome, accepted>>
    BY <1>3 DEF Send, SendSeparate
  <2>4. \A t \in trans[n] \cup Kept(msg) : t \in trans[n] \/ KeptAt(n, t)
    BY <2>2, KeptTyped
  <2>5. /\ trans' = [k \in Node |-> trans'[k]] /\ DOMAIN trans' = Node
        /\ \A k \in Node : \A t \in trans'[k] : KeptAt(k, t)
    BY <2>2, <2>4, TransChanged
  <2>6. \A p \in net' : Addressed(p)
    BY <2>2, WithSubset DEF ExchangeInv
  <2>7. mid' \in [Request -> Mid] /\ current' \in [Node -> Mid]
    BY <2>2, NextMidTyped DEF ExchangeInv, Typed
  <2>8. Typed'
    BY <2>3, <2>5, <2>7 DEF ExchangeInv, Typed
  <2>. QED BY <2>5, <2>6, <2>8 DEF ExchangeInv, Addressed, KeptAt
<1>. QED BY <1>1, <1>2, <1>3

LEMMA ExchangeInvariant == Spec => []ExchangeInv
<1>1. Init => ExchangeInv
  <2>. SUFFICES ASSUME Init PROVE ExchangeInv
    OBVIOUS
  <2>1. /\ 0 \in Mid /\ StartMid \in [Node -> Mid] /\ 0 \in 0 .. MaxDuplicates
    BY ExchangeAssumption DEF Mid
  <2>2. Typed
    BY <2>1 DEF Init, Typed
  <2>. QED BY <2>2 DEF Init, ExchangeInv
<1>2. ExchangeInv /\ [Next]_vars => ExchangeInv'
  BY ReceiveTyped, OtherTyped DEF Next, Receive
<1>. QED BY <1>1, <1>2, PTL DEF Spec

(* The state stays well formed: message ids stay in their range, counters  *)
(* below the number of retransmissions, the history at its size, and       *)
(* nothing but typed messages is sent or kept.                             *)
THEOREM TypeCorrect == Spec => []TypeOK
BY ExchangeInvariant, TypedExchange, PTL

----------------------------------------------------------------------------
(* What message ids are for: no two transactions of a node have the same,  *)
(* and a response that comes with the message id of a transaction is one   *)
(* to the request of that transaction.  The client and the server choose   *)
(* their message ids each on their own, at random first, so a coincidence  *)
(* is possible: the lookup by message id then clears a transaction of      *)
(* another request, and the one that was answered goes on.                 *)
MidsApart ==
  \A n \in Node : \A t \in trans[n] :
    /\ \A u \in trans[n] : u.msg.mid = t.msg.mid => u = t
    /\ \A m \in net :
         m.dst = n /\ m.mid = t.msg.mid /\ m.code = "response" =>
           t.msg.code = "request" /\ t.msg.token = m.token

HasCallback(t) ==
  t.msg.code = "request" /\ t.msg.token \notin Silent =>
    cb[t.msg.token] = "live" /\ mid[t.msg.token] = t.msg.mid

(* A response that ends a callback ends the transaction as well.           *)
LEMMA AnswerEndsBoth ==
  ASSUME ExchangeInv, MidsApart, TransactionHasCallback, NEW m \in net, ReceiveResponse(m),
         NEW n \in Node, NEW t \in trans'[n]
  PROVE  HasCallback(t)'
<1>1. /\ trans'[n] \subseteq trans[n]
      /\ m.dst = n => trans'[n] = AfterReceipt(n, m)
  BY ReceiptSubset DEF ReceiveResponse, ExchangeInv
<1>2. t \in trans[n] /\ t.msg.token \in Request
  BY <1>1 DEF ExchangeInv, KeptAt
<1>. SUFFICES ASSUME t.msg.code = "request", t.msg.token \notin Silent
              PROVE  cb'[t.msg.token] = "live" /\ mid'[t.msg.token] = t.msg.mid
  BY DEF HasCallback
<1>3. /\ From[t.msg.token] = n
      /\ cb[t.msg.token] = "live" /\ mid[t.msg.token] = t.msg.mid
  BY <1>2 DEF TransactionHasCallback, ExchangeInv, KeptAt
<1>4. ASSUME Answers(m, t.msg.token) PROVE FALSE
  <2>1. m.dst = n /\ m.code = "response" /\ m.token = t.msg.token
    BY <1>3, <1>4 DEF Answers
  <2>2. t \in AfterReceipt(n, m)
    BY <1>1, <2>1
  <2>3. CASE {u \in trans[n] : u.msg.mid = m.mid} = {}
    BY <1>2, <2>1, <2>2, <2>3 DEF AfterReceipt
  <2>4. ASSUME NEW u \in trans[n], u.msg.mid = m.mid PROVE FALSE
    <3>1. u.msg.code = "request" /\ u.msg.token = m.token
      BY <2>1, <2>4 DEF MidsApart
    <3>2. mid[u.msg.token] = u.msg.mid
      BY <2>1, <2>4, <3>1 DEF TransactionHasCallback
    <3>3. t.msg.mid = m.mid
      BY <1>3, <2>1, <2>4, <3>1, <3>2
    <3>. QED BY <1>2, <2>2, <3>3 DEF AfterReceipt
  <2>. QED BY <2>3, <2>4
<1>. QED BY <1>2, <1>3, <1>4 DEF ReceiveResponse

(* The last timeout of a transaction ends no callback that another one of  *)
(* the node still needs.                                                   *)
LEMMA TimeoutEndsBoth ==
  ASSUME ExchangeInv, MidsApart, TransactionHasCallback, NEW k \in Node, Timeout(k),
         NEW n \in Node, NEW t \in trans'[n]
  PROVE  HasCallback(t)'
<1>1. PICK e \in trans[k] :
        /\ Expired(k, e)
        /\ cb' = [r \in Request |-> IF TimesOut(k, e, r) THEN "freed" ELSE cb[r]]
  BY DEF Timeout
<1>2. UNCHANGED mid
  BY DEF Timeout
<1>. DEFINE again == [e EXCEPT !.counter = @ + 1]
<1>3. again.msg = e.msg /\ KeptAt(k, e)
  BY DEF ExchangeInv, KeptAt, Transaction
<1>4. PICK s \in trans[n] :
        /\ s.msg = t.msg
        /\ e.counter + 1 = MaxRetransmit /\ n = k => s # e
  <2>1. CASE n # k
    BY <1>1, <2>1 DEF Expired, ExchangeInv
  <2>2. CASE n = k
    <3>1. trans'[n] = (trans[k] \ {e}) \cup
                        (IF e.counter + 1 < MaxRetransmit THEN {again} ELSE {})
      BY <1>1, <2>2 DEF Expired, ExchangeInv
    <3>. HIDE DEF again
    <3>2. CASE t \in trans[k] \ {e}
      BY <2>2, <3>2
    <3>3. CASE t = again /\ e.counter + 1 < MaxRetransmit
      <4>1. ~(e.counter + 1 = MaxRetransmit)
        BY <1>3, <3>3, ExchangeAssumption DEF KeptAt, Transaction
      <4>. QED BY <1>3, <2>2, <3>3, <4>1
    <3>. QED BY <3>1, <3>2, <3>3
  <2>. QED BY <2>1, <2>2
<1>. SUFFICES ASSUME t.msg.code = "request", t.msg.token \notin Silent
              PROVE  cb'[t.msg.token] = "live" /\ mid'[t.msg.token] = t.msg.mid
  BY DEF HasCallback
<1>5. /\ From[t.msg.token] = n /\ t.msg.token \in Request
      /\ cb[t.msg.token] = "live" /\ mid[t.msg.token] = t.msg.mid
  BY <1>4 DEF TransactionHasCallback, ExchangeInv, KeptAt
<1>6. ASSUME TimesOut(k, e, t.msg.token) PROVE FALSE
  <2>1. n = k /\ e.counter + 1 = MaxRetransmit /\ e.msg.mid = s.msg.mid
    BY <1>4, <1>5, <1>6 DEF TimesOut
  <2>2. e = s
    BY <1>4, <2>1 DEF MidsApart
  <2>. QED BY <1>4, <2>1, <2>2
<1>. QED BY <1>1, <1>2, <1>5, <1>6

LEMMA CallbackStep ==
  ASSUME ExchangeInv, RequestsStamped, MidsApart, TransactionHasCallback, [Next]_vars,
         NEW n \in Node, NEW t \in trans'[n]
  PROVE  HasCallback(t)'
<1>1. \A s \in trans[n] : HasCallback(s)
  BY DEF TransactionHasCallback, HasCallback
<1>2. CASE \E m \in net : ReceiveResponse(m)
  BY <1>2, AnswerEndsBoth
<1>3. CASE \E k \in Node : Timeout(k)
  BY <1>3, TimeoutEndsBoth
<1>4. CASE \/ \E m \in net : ReceiveDuplicate(m) \/ ReceiveRequest(m)
           \/ Lose \/ UNCHANGED vars
  <2>1. /\ UNCHANGED <<cb, mid>>
        /\ trans' = trans \/ \E m \in net : trans' = [trans EXCEPT ![m.dst] = AfterReceipt(m.dst, m)]
    BY <1>4 DEF ReceiveDuplicate, ReceiveRequest, Lose, vars
  <2>2. t \in trans[n]
    BY <2>1, ReceiptSubset DEF ExchangeInv
  <2>. QED BY <1>1, <2>1, <2>2 DEF HasCallback
<1>5. ASSUME NEW r \in Request, Send(r) PROVE HasCallback(t)'
  <2>. DEFINE msg == Packet(IF r \in Confirmable THEN "CON" ELSE "NON", "request",
                            NextMid(From[r]), r, To[r])
  <2>1. /\ trans' = [trans EXCEPT ![From[r]] = trans[From[r]] \cup Kept(msg)]
        /\ cb[r] = "unsent" /\ mid' = [mid EXCEPT ![r] = NextMid(From[r])]
        /\ cb' = [cb EXCEPT ![r] = IF r \in Silent THEN "freed" ELSE "live"]
    BY <1>5 DEF Send
  <2>2. msg.token = r /\ msg.mid = NextMid(From[r])
    BY DEF Packet
  <2>. HIDE DEF msg
  <2>3. t \in trans[n] \/ t.msg = msg
    BY <2>1 DEF Kept, ExchangeInv
  <2>4. r \in Request /\ cb \in [Request -> {"unsent", "live", "freed"}] /\ mid \in [Request -> Mid]
    BY DEF ExchangeInv, Typed
  <2>5. CASE t.msg = msg
    BY <2>1, <2>2, <2>4, <2>5 DEF HasCallback
  <2>6. CASE t \in trans[n]
    <3>1. t.msg.code = "request" => t.msg.token # r
      BY <2>1, <2>6 DEF RequestsStamped, Stamped
    <3>. QED BY <1>1, <2>1, <2>4, <2>6, <3>1 DEF HasCallback
  <2>. QED BY <2>3, <2>5, <2>6
<1>6. ASSUME NEW r \in Request, RemoveCallback(r) PROVE HasCallback(t)'
  <2>1. /\ UNCHANGED <<mid, trans>> /\ cb' = [cb EXCEPT ![r] = "freed"]
        /\ \A s \in trans[From[r]] : s.msg.token # r
    BY <1>6 DEF RemoveCallback
  <2>2. t \in trans[n] /\ (t.msg.code = "request" => t.msg.token # r)
    BY <2>1 DEF ExchangeInv, KeptAt
  <2>. QED BY <1>1, <2>1, <2>2 DEF HasCallback, ExchangeInv, Typed
<1>7. ASSUME NEW r \in Request, SendSeparate(r) PROVE HasCallback(t)'
  <2>. DEFINE msg == Packet("CON", "response", NextMid(To[r]), r, From[r])
  <2>1. /\ trans' = [trans EXCEPT ![To[r]] = trans[To[r]] \cup Kept(msg)]
        /\ UNCHANGED <<cb, mid>>
    BY <1>7 DEF SendSeparate
  <2>2. msg.code = "response"
    BY DEF Packet
  <2>. HIDE DEF msg
  <2>3. t \in trans[n] \/ t.msg = msg
    BY <2>1 DEF Kept, ExchangeInv
  <2>. QED BY <1>1, <2>1, <2>2, <2>3 DEF HasCallback
<1>. QED BY <1>2, <1>3, <1>4, <1>5, <1>6, <1>7 DEF Next, Receive

(* While a request is sent again its callback is there, as long as no      *)
(* message ids coincide: a response, a timeout and the removal of a        *)
(* callback each end both, for any number of nodes and requests and        *)
(* whatever the network repeats or delays.                                 *)
THEOREM CallbackOfTransaction == Spec /\ []MidsApart => []TransactionHasCallback
<1>1. Init => TransactionHasCallback
  BY DEF Init, TransactionHasCallback
<1>2. ASSUME ExchangeInv, RequestsStamped, MidsApart, TransactionHasCallback, [Next]_vars
      PROVE  TransactionHasCallback'
  BY <1>2, CallbackStep DEF TransactionHasCallback, HasCallback
<1>3. RepeatInv => RequestsStamped
  BY DEF RepeatInv
<1>. QED BY <1>1, <1>2, <1>3, ExchangeInvariant, RepeatInvariant, PTL DEF Spec
=============================================================================
