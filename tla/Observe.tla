------------------------------ MODULE Observe ------------------------------
(***************************************************************************)
(* Observation of one periodically observable resource: the server's list  *)
(* of observers, its periodic and its delayed notification, the            *)
(* confirmable notifications that find out whether a client still answers, *)
(* and the callbacks of clients that observe, stop and are switched off.   *)
(* The network loses messages and lets them overtake one another.          *)
(*                                                                         *)
(* Requests are non-confirmable, payloads fit one block, and a token is    *)
(* fresh when nothing holds it any more: eight random bytes.               *)
(***************************************************************************)
EXTENDS Naturals, FiniteSets, Sequences

CONSTANTS Client, Token,
          RefreshInterval,  \* COAP_OBSERVE_REFRESH_INTERVAL
          MaxRetransmit,    \* COAP_MAX_RETRANSMIT
          Mid,              \* of a client's transactions: as many as the pool has
          MaxUp, MaxDown,   \* bounds: messages under way from and to a client
          MaxCallbacks,     \* bound: callbacks of a client
          MaxPending,       \* bound: delayed notifications that wait
          none              \* nothing shown, a message without message id

Value == {0, 1}

ASSUME ObserveAssumption ==
  /\ RefreshInterval \in Nat \ {0} /\ MaxRetransmit \in Nat
  /\ MaxUp \in Nat /\ MaxDown \in Nat /\ MaxCallbacks \in Nat /\ MaxPending \in Nat
  /\ none \notin Value \cup Mid

VARIABLES
  observers,        \* entries of observers_list for the resource
  observe_counter,  \* modulo the interval, like the counters of the observers
  polling,          \* the resource has a periodic callback
  pending,          \* delayed notifications that wait
  transactions,     \* confirmable notifications without acknowledgement
  value,            \* of the resource
  on,               \* clients that are switched on
  callbacks,        \* client_cbs of each client, in the order they were made
  shown,            \* what each client's handler was called with last
  up, down          \* messages under way from and to each client

server == <<observers, observe_counter, polling, pending, transactions, value>>
client == <<on, callbacks, shown>>
net == <<up, down>>
vars == <<server, client, net>>

Observer == [client : Client, token : Token, counter : 0 .. RefreshInterval - 1]
Transaction ==
  [client : Client, token : Token, mid : Mid, value : Value, tries : 0 .. MaxRetransmit]
Callback == [token : Token, answered : BOOLEAN]
Request ==
  [kind : {"register", "cancel"}, token : Token] \cup [kind : {"ack"}, mid : Mid]
Reply ==
  [kind : {"registered", "plain"}, token : Token, value : Value]
    \cup [kind : {"notify"}, token : Token, value : Value, mid : Mid \cup {none}]

\* The types of the state; the list of a client's callbacks has a bound.
TypeOK ==
  /\ observers \subseteq Observer
  /\ observe_counter \in 0 .. RefreshInterval - 1
  /\ polling \in BOOLEAN /\ pending \in 0 .. MaxPending /\ value \in Value
  /\ transactions \subseteq Transaction
  /\ on \in [Client -> BOOLEAN]
  /\ \A c \in Client : callbacks[c] \in Seq(Callback) /\ Len(callbacks[c]) <= MaxCallbacks
  /\ shown \in [Client -> Value \cup {none}]
  /\ up \in [Client -> SUBSET Request] /\ down \in [Client -> SUBSET Reply]

Init ==
  /\ observers = {} /\ observe_counter = 3 % RefreshInterval
  /\ polling = FALSE /\ pending = 0 /\ transactions = {} /\ value = 0
  /\ on = [c \in Client |-> TRUE]
  /\ callbacks = [c \in Client |-> <<>>] /\ shown = [c \in Client |-> none]
  /\ up = [c \in Client |-> {}] /\ down = [c \in Client |-> {}]

-----------------------------------------------------------------------------
\* A full network loses what is sent last.
Sent(msgs, m, room) == IF Cardinality(msgs) < room THEN msgs \cup {m} ELSE msgs
SentUp(c, m) == [up EXCEPT ![c] = Sent(@, m, MaxUp)]

\* A client that is off hears nothing.
SentDown(c, m) == IF on[c] THEN [down EXCEPT ![c] = Sent(@, m, MaxDown)] ELSE down

InUse(t) ==
  \/ \E o \in observers \cup transactions : o.token = t
  \/ \E c \in Client :
       \/ \E i \in DOMAIN callbacks[c] : callbacks[c][i].token = t
       \/ \E m \in up[c] : m.kind # "ack" /\ m.token = t
       \/ \E m \in down[c] : m.token = t

-----------------------------------------------------------------------------
\* Server.

Others(c) == {o \in observers : o.client # c}

Answer(c, kind, t) == SentDown(c, [kind |-> kind, token |-> t, value |-> value])

\* An observer of the same client and path gives way to the new one, whatever
\* its token; the resource is polled from now on.
Register(c, t) ==
  /\ observers' =
       Others(c) \cup {[client |-> c, token |-> t, counter |-> observe_counter]}
  /\ polling' = TRUE
  /\ down' = Answer(c, "registered", t)
  /\ UNCHANGED transactions

\* Observers and callbacks come from pools.  Without an observer the client is
\* told all the same that it is one; without a callback it is not.
RegisterNone(c, t) ==
  /\ observers' = Others(c)
  /\ \/ down' = Answer(c, "registered", t)
     \/ ~polling /\ down' = Answer(c, "plain", t)
  /\ UNCHANGED <<polling, transactions>>

WithToken(c, t) == {o \in observers : o.client = c /\ o.token = t}

\* A message that has a transaction's token ends it: the first one's, if there
\* are more.
EndTransaction(t) ==
  LET ended == {x \in transactions : x.token = t}
  IN  \/ ended = {} /\ UNCHANGED transactions
      \/ \E x \in ended : transactions' = transactions \ {x}

\* The end of one observation ends the polling of the resource.
Cancel(c, t) ==
  /\ EndTransaction(t)
  /\ observers' = observers \ WithToken(c, t)
  /\ polling' = (polling /\ WithToken(c, t) = {})
  /\ down' = Answer(c, "plain", t)

Acknowledged(c, mid) ==
  /\ transactions' = {x \in transactions : ~(x.client = c /\ x.mid = mid)}
  /\ UNCHANGED <<observers, polling, down>>

Serve(c) ==
  \E m \in up[c] :
    /\ up' = [up EXCEPT ![c] = @ \ {m}]
    /\ \/ m.kind = "register" /\ (Register(c, m.token) \/ RegisterNone(c, m.token))
       \/ m.kind = "cancel" /\ Cancel(c, m.token)
       \/ m.kind = "ack" /\ Acknowledged(c, m.mid)
    /\ UNCHANGED <<observe_counter, pending, value, client>>

IsCon(o) == o.counter = 0
FreeMids(c) == {i \in Mid : \A x \in transactions : ~(x.client = c /\ x.mid = i)}

\* A transaction for the notification of an observer can be had.
Sendable(o) == IsCon(o) => FreeMids(o.client) # {}

\* Every observer is told the value, and asked to acknowledge it when its
\* counter is a multiple of the interval.  One for which no transaction is left
\* is not told, but counted.  (A client's observer is one.)
NotifyObservers ==
  LET MidFor(o) == IF IsCon(o) THEN CHOOSE i \in FreeMids(o.client) : TRUE ELSE none
      Note(o) == [kind |-> "notify", token |-> o.token, value |-> value, mid |-> MidFor(o)]
      told == {o \in observers : Sendable(o)}
  IN /\ transactions' = transactions \cup
          {[client |-> o.client, token |-> o.token, mid |-> MidFor(o),
            value |-> value, tries |-> 0] : o \in {p \in told : IsCon(p)}}
     /\ down' = [c \in Client |->
          IF on[c] /\ \E o \in told : o.client = c
          THEN Sent(down[c], Note(CHOOSE o \in told : o.client = c), MaxDown) ELSE down[c]]
     /\ observers' = {[o EXCEPT !.counter = (@ + 1) % RefreshInterval] : o \in observers}
     /\ observe_counter' = (observe_counter + Cardinality(observers)) % RefreshInterval
     /\ UNCHANGED <<value, client, up>>

\* The periodic callback goes on as long as there are observers.
Periodic ==
  /\ polling /\ NotifyObservers
  /\ polling' = (observers # {})
  /\ UNCHANGED pending

Delayed ==
  /\ pending > 0 /\ NotifyObservers
  /\ pending' = pending - 1
  /\ UNCHANGED polling

\* A client of no interest here writes the resource.
Put ==
  /\ pending < MaxPending
  /\ pending' = pending + 1 /\ value' = 1 - value
  /\ UNCHANGED <<observers, observe_counter, polling, transactions, client, net>>

\* Mutant: a retransmission is not counted.
RetriedUncounted(x) == x

Retried(x) == [x EXCEPT !.tries = @ + 1]

\* Mutant: a timeout leaves the observers as they are.
LeftAsTheyAre(c) == observers

LeftAfterTimeout(c) == Others(c)

\* The retransmission timer of one transaction: the notification is sent again,
\* as it was, or the client has lost all its observations.
Retransmit(c) ==
  \E x \in transactions :
    /\ x.client = c
    /\ IF x.tries + 1 < MaxRetransmit
       THEN /\ transactions' = (transactions \ {x}) \cup {Retried(x)}
            /\ down' = SentDown(c, [kind |-> "notify", token |-> x.token,
                                          value |-> x.value, mid |-> x.mid])
            /\ UNCHANGED observers
       ELSE /\ transactions' = transactions \ {x}
            /\ observers' = LeftAfterTimeout(c)
            /\ UNCHANGED down
    /\ UNCHANGED <<observe_counter, polling, pending, value, client, up>>

-----------------------------------------------------------------------------
\* Clients.

DoObserve(c) ==
  \E t \in Token :
    /\ on[c] /\ ~InUse(t) /\ Len(callbacks[c]) < MaxCallbacks
    /\ callbacks' = [callbacks EXCEPT ![c] = Append(@, [token |-> t, answered |-> FALSE])]
    /\ up' = SentUp(c, [kind |-> "register", token |-> t])
    /\ UNCHANGED <<server, on, shown, down>>

\* The first callback for the path is taken, with its token.
StopObserve(c) ==
  /\ callbacks[c] # <<>>
  /\ up' = SentUp(c, [kind |-> "cancel", token |-> Head(callbacks[c]).token])
  /\ UNCHANGED <<server, client, down>>

Matching(c, t) == {i \in DOMAIN callbacks[c] : callbacks[c][i].token = t}

Without(s, i) == SubSeq(s, 1, i - 1) \o SubSeq(s, i + 1, Len(s))

\* Another callback with the token of the one answered is dropped.
Answered(s, i) ==
  LET t == [s EXCEPT ![i].answered = TRUE]
      dup == {j \in DOMAIN s : j # i /\ s[j].token = s[i].token}
  IN IF dup = {} THEN t ELSE Without(t, CHOOSE j \in dup : \A k \in dup : j <= k)

\* What the callback of a message's token becomes: an answer without the
\* observe option frees it.
AfterReply(s, i, m) ==
  CASE m.kind = "registered" -> Answered(s, i)
    [] m.kind = "plain" -> Without(s, i)
    [] m.kind = "notify" -> s

\* A confirmable notification is acknowledged, wanted or not.
Hear(c) ==
  \E m \in down[c] :
    /\ on[c]
    /\ down' = [down EXCEPT ![c] = @ \ {m}]
    /\ up' = IF m.kind = "notify" /\ m.mid # none
             THEN SentUp(c, [kind |-> "ack", mid |-> m.mid]) ELSE up
    /\ IF Matching(c, m.token) = {}
       THEN UNCHANGED <<callbacks, shown>>
       ELSE LET i == CHOOSE i \in Matching(c, m.token) : TRUE
            IN /\ callbacks' = [callbacks EXCEPT ![c] = AfterReply(@, i, m)]
               /\ shown' = [shown EXCEPT ![c] = m.value]
    /\ UNCHANGED <<server, on>>

SwitchOff(c) ==
  /\ on[c]
  /\ on' = [on EXCEPT ![c] = FALSE]
  /\ callbacks' = [callbacks EXCEPT ![c] = <<>>]
  /\ shown' = [shown EXCEPT ![c] = none]
  /\ down' = [down EXCEPT ![c] = {}]
  /\ UNCHANGED <<server, up>>

SwitchOn(c) ==
  /\ ~on[c]
  /\ on' = [on EXCEPT ![c] = TRUE]
  /\ UNCHANGED <<server, callbacks, shown, net>>

Lose ==
  \E c \in Client :
    /\ \/ \E m \in up[c] : up' = [up EXCEPT ![c] = @ \ {m}] /\ UNCHANGED down
       \/ \E m \in down[c] : down' = [down EXCEPT ![c] = @ \ {m}] /\ UNCHANGED up
    /\ UNCHANGED <<server, client>>

-----------------------------------------------------------------------------
Next ==
  \/ \E c \in Client :
       \/ Serve(c) \/ Retransmit(c)
       \/ DoObserve(c) \/ StopObserve(c) \/ Hear(c)
       \/ SwitchOff(c) \/ SwitchOn(c)
  \/ Periodic \/ Delayed \/ Put \/ Lose

\* Timers run out; a network that a client hears nothing of any more, whatever
\* is sent to it, is not worth talking about.
Fairness ==
  /\ WF_vars(Periodic) /\ WF_vars(Delayed)
  /\ \A c \in Client : WF_vars(Retransmit(c)) /\ SF_vars(Hear(c))

Spec == Init /\ [][Next]_vars
FairSpec == Spec /\ Fairness

-----------------------------------------------------------------------------
Observes(c) == \E o \in observers : o.client = c
Registered(c) ==
  \E o \in observers : o.client = c /\ Matching(c, o.token) # {}

\* A client that is switched off for good is found out and taken off the list,
\* as long as the resource is polled, whatever was under way when it went.
GoneIsFound ==
  \A c \in Client : <>[](~on[c]) => []<>(~Observes(c) \/ ~polling)

\* Whatever was lost, late or overtaken, a client that stays registered with a
\* resource that is polled ends with the value the resource stays at.
PeriodicHeals ==
  \A c \in Client, v \in Value :
    <>[](Registered(c) /\ polling /\ value = v) => <>[](shown[c] = v)
=============================================================================
