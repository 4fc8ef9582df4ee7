--------------------------- MODULE EventLoopProof ---------------------------
(***************************************************************************)
(* No message is forgotten between the network threads and the main        *)
(* thread, and the loop is a mailbox, for every set of threads, any number *)
(* of messages and every choice of those that are secured; the ring the    *)
(* loop posts its events to is a first-in first-out queue.                 *)
(***************************************************************************)
EXTENDS EventLoop, EventQueue, SequenceTheorems, TLAPS

LoopEvent == MessageEvent \cup {TimerEvent}

(* What the head of the queue is, and what remains when it is taken.       *)
LEMMA HeadEvent ==
  ASSUME TypeOK, queue # << >>
  PROVE  /\ Head(queue) \in LoopEvent
         /\ Tail(queue) \in Seq(LoopEvent)
         /\ Head(queue) # TimerEvent =>
              /\ Head(queue) \in MessageEvent
              /\ Head(queue).message \in Message
              /\ NextHop(Head(queue)) \in MessageEvent
<1>1. queue \in Seq(LoopEvent)
  BY DEF TypeOK, LoopEvent
<1>2. Head(queue) \in LoopEvent /\ Tail(queue) \in Seq(LoopEvent)
  BY <1>1, HeadTailProperties
<1>3. ASSUME Head(queue) # TimerEvent
      PROVE  /\ Head(queue) \in MessageEvent
             /\ Head(queue).message \in Message
             /\ NextHop(Head(queue)) \in MessageEvent
  <2>1. Head(queue) \in MessageEvent
    BY <1>2, <1>3 DEF LoopEvent
  <2>. QED BY <2>1 DEF MessageEvent, NextHop
<1>. QED BY <1>2, <1>3

(* The messages of the list become events to the message buffer.           *)
LEMMA BufferedEvents ==
  ASSUME TypeOK
  PROVE  /\ Buffered(network) \in Seq(MessageEvent)
         /\ Len(Buffered(network)) = Len(network)
         /\ \A i \in 1 .. Len(network) :
              Buffered(network)[i] = [to |-> "buffer", message |-> network[i]]
<1>1. network \in [1 .. Len(network) -> Message] /\ Len(network) \in Nat
  BY LenProperties DEF TypeOK
<1>2. Buffered(network) = [i \in 1 .. Len(network) |->
                             [to |-> "buffer", message |-> network[i]]]
  BY <1>1 DEF Buffered
<1>3. Buffered(network) \in [1 .. Len(network) -> MessageEvent]
  BY <1>1, <1>2 DEF MessageEvent
<1>. QED BY <1>1, <1>2, <1>3, SeqDef

(* The queue when the whole list has been handed to the message buffer.    *)
LEMMA Drained ==
  ASSUME TypeOK, Drain
  PROVE  /\ queue' \in Seq(LoopEvent)
         /\ Len(queue') = Len(queue) + Len(network)
         /\ \A i \in 1 .. Len(queue) : queue'[i] = queue[i]
         /\ \A i \in Len(queue) + 1 .. Len(queue') :
              /\ i - Len(queue) \in 1 .. Len(network)
              /\ queue'[i] = [to |-> "buffer",
                               message |-> network[i - Len(queue)]]
<1>1. queue \in Seq(LoopEvent) /\ Len(queue) \in Nat
  BY LenProperties DEF TypeOK, LoopEvent
<1>2. network \in Seq(Message) /\ Len(network) \in Nat
  BY LenProperties DEF TypeOK
<1>3. Buffered(network) \in Seq(LoopEvent)
  BY BufferedEvents, SeqMonotonic DEF LoopEvent
<1>4. queue' = queue \o Buffered(network)
  BY DEF Drain
<1>5. /\ queue' \in Seq(LoopEvent)
      /\ Len(queue') = Len(queue) + Len(Buffered(network))
      /\ \A i \in 1 .. Len(queue) + Len(Buffered(network)) :
           queue'[i] = IF i <= Len(queue) THEN queue[i]
                        ELSE Buffered(network)[i - Len(queue)]
  BY <1>1, <1>3, <1>4, ConcatProperties
<1>6. Len(queue') = Len(queue) + Len(network)
  BY <1>5, BufferedEvents
<1>7. \A i \in 1 .. Len(queue) : queue'[i] = queue[i]
  BY <1>1, <1>2, <1>5, BufferedEvents
<1>8. ASSUME NEW i \in Len(queue) + 1 .. Len(queue')
      PROVE  /\ i - Len(queue) \in 1 .. Len(network)
             /\ queue'[i] = Buffered(network)[i - Len(queue)]
  BY <1>1, <1>2, <1>5, <1>6
<1>. QED BY <1>5, <1>6, <1>7, <1>8, BufferedEvents

----------------------------------------------------------------------------
(* A request for a poll leaves flags of the right type.                    *)
LEMMA RequestPollTypes ==
  ASSUME TypeOK, RequestPoll
  PROVE  needspoll' \subseteq Process /\ pollRequested' \in BOOLEAN /\ deadline' \in BOOLEAN
<1>1. CASE timer \in {"armed", "expired"}
  BY <1>1 DEF RequestPoll, TypeOK, Process
<1>2. CASE timer \notin {"armed", "expired"}
  BY <1>2 DEF RequestPoll, TypeOK, Process
<1>. QED BY <1>1, <1>2

(* A thread that is about to add a message has read one, so that its       *)
(* number is not 0.                                                        *)
ReadBeforeAdd == \A t \in Thread : threadPc[t] = "add" => received[t] > 0

(* The state stays well formed: a message event is only ever addressed to  *)
(* the message buffer, the OSCORE layer or the CoAP engine, and messages   *)
(* are numbered from 1.                                                    *)
LEMMA WellFormed == Spec => [](TypeOK /\ ReadBeforeAdd)
<1>1. Init => TypeOK /\ ReadBeforeAdd
  <2>. SUFFICES ASSUME Init PROVE TypeOK /\ ReadBeforeAdd
    OBVIOUS
  <2>1. timer \in {"none", "armed", "expired", "posted"}
    BY DEF Init
  <2>2. /\ network \in Seq(Message) /\ handled \in Seq(Message)
        /\ queue \in Seq(MessageEvent \cup {TimerEvent})
    BY EmptySeq DEF Init
  <2>3. /\ threadPc \in [Thread -> {"select", "add", "flag", "request", "signal"}]
        /\ received \in [Thread -> Nat]
    BY DEF Init
  <2>. QED BY <2>1, <2>2, <2>3 DEF Init, TypeOK, ReadBeforeAdd
<1>2. TypeOK /\ ReadBeforeAdd /\ [Next]_vars => (TypeOK /\ ReadBeforeAdd)'
  <2>. SUFFICES ASSUME TypeOK, ReadBeforeAdd, [Next]_vars
                PROVE  TypeOK' /\ ReadBeforeAdd'
    OBVIOUS
  <2>. USE DEF ReadBeforeAdd
  <2>1. CASE MainPoll
    BY <2>1, RequestPollTypes DEF MainPoll, TypeOK
  <2>2. CASE Check
    BY <2>2, RequestPollTypes DEF Check, TypeOK
  <2>3. CASE StartTurn
    BY <2>3 DEF StartTurn, TypeOK
  <2>4. CASE VisitNetwork
    BY <2>4 DEF VisitNetwork, TypeOK
  <2>5. CASE Drain
    <3>1. << >> \in Seq(Message)
      BY EmptySeq
    <3>. QED BY <2>5, <3>1, Drained DEF Drain, TypeOK, LoopEvent
  <2>6. CASE VisitTimer
    <3>1. Append(queue, TimerEvent) \in Seq(LoopEvent)
      BY AppendProperties DEF TypeOK, LoopEvent
    <3>. QED BY <2>6, <3>1 DEF VisitTimer, TypeOK, LoopEvent
  <2>7. CASE NoEvent
    BY <2>7 DEF NoEvent, TypeOK
  <2>8. CASE DeliverMessage
    <3>1. /\ queue # << >> /\ Head(queue) # TimerEvent
          /\ \/ handled' = Append(handled, Head(queue).message) /\ queue' = Tail(queue)
             \/ handled' = handled /\ queue' = Append(Tail(queue), NextHop(Head(queue)))
      BY <2>8 DEF DeliverMessage
    <3>2. handled \in Seq(Message)
      BY DEF TypeOK
    <3>3. NextHop(Head(queue)) \in LoopEvent
      BY <3>1, HeadEvent DEF LoopEvent
    <3>4. Head(queue).message \in Message /\ Tail(queue) \in Seq(LoopEvent)
      BY <3>1, HeadEvent
    <3>5. Append(handled, Head(queue).message) \in Seq(Message)
      BY <3>2, <3>4, AppendProperties
    <3>6. Append(Tail(queue), NextHop(Head(queue))) \in Seq(LoopEvent)
      BY <3>3, <3>4, AppendProperties
    <3>7. handled' \in Seq(Message) /\ queue' \in Seq(LoopEvent)
      BY <3>1, <3>2, <3>4, <3>5, <3>6
    <3>. QED BY <2>8, <3>7 DEF DeliverMessage, TypeOK, LoopEvent
  <2>9. CASE DeliverTimer
    BY <2>9, HeadEvent DEF DeliverTimer, TypeOK, Process, LoopEvent
  <2>10. CASE Wait \/ Timeout \/ SpuriousWakeup \/ TimePasses
    BY <2>10 DEF Wait, Timeout, SpuriousWakeup, TimePasses, TypeOK
  <2>11. ASSUME NEW t \in Thread, Receive(t) PROVE TypeOK' /\ ReadBeforeAdd'
    BY <2>11 DEF Receive, At, TypeOK
  <2>12. ASSUME NEW t \in Thread, Add(t) PROVE TypeOK' /\ ReadBeforeAdd'
    <3>1. <<t, received[t]>> \in Message
      BY <2>12 DEF Add, At, TypeOK, Message
    <3>2. network' \in Seq(Message)
      BY <2>12, <3>1, AppendProperties DEF Add, TypeOK
    <3>. QED BY <2>12, <3>2 DEF Add, At, TypeOK
  <2>13. ASSUME NEW t \in Thread, SetNeedsPoll(t) \/ SetPollRequested(t) \/ Signal(t)
         PROVE  TypeOK' /\ ReadBeforeAdd'
    BY <2>13 DEF SetNeedsPoll, SetPollRequested, Signal, At, TypeOK, Process
  <2>14. CASE UNCHANGED vars
    BY <2>14 DEF vars, TypeOK
  <2>. QED
    BY <2>1, <2>2, <2>3, <2>4, <2>5, <2>6, <2>7, <2>8, <2>9, <2>10, <2>11,
       <2>12, <2>13, <2>14 DEF Next, MainStep, Announce
<1>. QED BY <1>1, <1>2, PTL DEF Spec

THEOREM TypeCorrect == Spec => []TypeOK
BY WellFormed, PTL
----------------------------------------------------------------------------
(* A message a network thread has put on the list is not forgotten by the  *)
(* poll flags, however the threads and the main thread interleave their    *)
(* unlocked stores.                                                        *)
THEOREM PollNotLost == Spec => []NoLostPoll
<1>1. Init => NoLostPoll
  BY DEF Init, NoLostPoll
<1>2. TypeOK /\ NoLostPoll /\ [Next]_vars => NoLostPoll'
  <2>. SUFFICES ASSUME TypeOK, NoLostPoll, [Next]_vars PROVE NoLostPoll'
    OBVIOUS
  <2>. USE DEF NoLostPoll
  <2>1. CASE MainPoll \/ Check
    BY <2>1 DEF MainPoll, Check, RequestPoll
  <2>2. CASE StartTurn \/ VisitNetwork \/ Drain
    BY <2>2 DEF StartTurn, VisitNetwork, Drain
  <2>3. CASE VisitTimer
    BY <2>3 DEF VisitTimer
  <2>4. CASE NoEvent \/ DeliverMessage \/ DeliverTimer
    BY <2>4 DEF NoEvent, DeliverMessage, DeliverTimer
  <2>5. CASE Wait \/ Timeout \/ SpuriousWakeup \/ TimePasses
    BY <2>5 DEF Wait, Timeout, SpuriousWakeup, TimePasses
  <2>6. ASSUME NEW t \in Thread, Receive(t) PROVE NoLostPoll'
    BY <2>6 DEF Receive, At, TypeOK
  <2>7. ASSUME NEW t \in Thread, Add(t) PROVE NoLostPoll'
    BY <2>7 DEF Add, At, TypeOK
  <2>8. ASSUME NEW t \in Thread, SetNeedsPoll(t) PROVE NoLostPoll'
    BY <2>8 DEF SetNeedsPoll, At, TypeOK
  <2>9. ASSUME NEW t \in Thread, SetPollRequested(t) \/ Signal(t) PROVE NoLostPoll'
    BY <2>9 DEF SetPollRequested, Signal, At, TypeOK
  <2>10. CASE UNCHANGED vars
    BY <2>10 DEF vars
  <2>. QED
    BY <2>1, <2>2, <2>3, <2>4, <2>5, <2>6, <2>7, <2>8, <2>9, <2>10
       DEF Next, MainStep, Announce
<1>. QED BY <1>1, <1>2, TypeCorrect, PTL DEF Spec

(* A timer that was posted is in the queue; otherwise the deadline is set, *)
(* or the main thread is about to ask for it.                              *)
TimerPosted == timer = "posted" => \E i \in 1 .. Len(queue) : queue[i] = TimerEvent

DeadlineKnown ==
  timer # "none" =>
    deadline \/ timer = "posted" \/ pc = "poll" \/ (pc = "check" /\ pollRequested)

SleepInv ==
  /\ TimerPosted /\ DeadlineKnown
  /\ pc \in {"gap", "waiting"} => queue = << >>

(* The expiry stays in the queue until it is at the head.                  *)
LEMMA TimerPostedStep ==
  ASSUME TypeOK, TimerPosted, Drain \/ VisitTimer \/ DeliverMessage
  PROVE  TimerPosted'
<1>0. Len(queue) \in Nat
  BY LenProperties DEF TypeOK
<1>1. CASE Drain
  <2>1. \A i \in 1 .. Len(queue) : i \in 1 .. Len(queue') /\ queue'[i] = queue[i]
    <3>1. Len(queue') = Len(queue) + Len(network) /\ Len(network) \in Nat
      BY <1>1, Drained, LenProperties DEF TypeOK
    <3>. QED BY <1>0, <1>1, <3>1, Drained
  <2>. QED BY <1>1, <2>1 DEF Drain, TimerPosted
<1>2. CASE VisitTimer
  <2>1. CASE queue' = Append(queue, TimerEvent)
    <3>1. TimerEvent \in LoopEvent /\ queue \in Seq(LoopEvent)
      BY DEF LoopEvent, TypeOK
    <3>2. Len(queue') = Len(queue) + 1 /\ queue'[Len(queue) + 1] = TimerEvent
      BY <2>1, <3>1, AppendProperties
    <3>. QED BY <1>0, <3>2 DEF TimerPosted
  <2>2. CASE UNCHANGED <<timer, queue>>
    BY <2>2 DEF TimerPosted
  <2>. QED BY <1>2, <2>1, <2>2 DEF VisitTimer
<1>3. CASE DeliverMessage
  <2>. SUFFICES ASSUME timer = "posted" PROVE \E i \in 1 .. Len(queue') : queue'[i] = TimerEvent
    BY <1>3 DEF DeliverMessage, TimerPosted
  <2>1. PICK i \in 1 .. Len(queue) : queue[i] = TimerEvent
    BY DEF TimerPosted
  <2>2. /\ queue # << >> /\ Head(queue) # TimerEvent /\ queue \in Seq(LoopEvent)
        /\ Head(queue) = queue[1]
    BY <1>3, HeadTailProperties DEF DeliverMessage, TypeOK, LoopEvent
  <2>3. /\ Tail(queue) \in Seq(LoopEvent) /\ NextHop(Head(queue)) \in LoopEvent
        /\ Len(Tail(queue)) = Len(queue) - 1
        /\ \A j \in 1 .. Len(queue) - 1 : Tail(queue)[j] = queue[j + 1]
    BY <2>2, HeadEvent, HeadTailProperties DEF LoopEvent
  <2>4. i - 1 \in 1 .. Len(queue) - 1 /\ (i - 1) + 1 = i
    BY <1>0, <2>1, <2>2
  <2>5. Tail(queue)[i - 1] = TimerEvent
    BY <2>1, <2>3, <2>4
  <2>6. CASE queue' = Tail(queue)
    BY <2>3, <2>4, <2>5, <2>6
  <2>7. CASE queue' = Append(Tail(queue), NextHop(Head(queue)))
    <3>1. Len(queue') = Len(queue) /\ queue'[i - 1] = Tail(queue)[i - 1]
      BY <1>0, <2>3, <2>4, <2>7, AppendProperties
    <3>. QED BY <1>0, <2>4, <2>5, <3>1
  <2>. QED BY <1>3, <2>6, <2>7 DEF DeliverMessage
<1>. QED BY <1>1, <1>2, <1>3

(* With a timer the main thread never sleeps without an end, and it never  *)
(* sleeps on an event, for any number of threads and messages.             *)
THEOREM SleepIsBounded == Spec => []SleepEnds
<1>1. Init => SleepInv
  BY DEF Init, SleepInv, TimerPosted, DeadlineKnown
<1>2. TypeOK /\ SleepInv /\ [Next]_vars => SleepInv'
  <2>. SUFFICES ASSUME TypeOK, SleepInv, [Next]_vars PROVE SleepInv'
    OBVIOUS
  <2>. USE DEF SleepInv, DeadlineKnown
  <2>1. CASE MainPoll
    BY <2>1 DEF MainPoll, RequestPoll, TimerPosted, TypeOK
  <2>2. CASE Check
    <3>1. queue = << >> => timer # "posted"
      BY EmptySeq DEF TimerPosted
    <3>2. CASE queue # << >> \/ pollRequested
      BY <2>2, <3>2 DEF Check, RequestPoll, TimerPosted, TypeOK
    <3>3. CASE ~(queue # << >> \/ pollRequested)
      BY <2>2, <3>1, <3>3 DEF Check, TimerPosted
    <3>. QED BY <3>2, <3>3
  <2>3. CASE StartTurn \/ VisitNetwork \/ NoEvent
    BY <2>3 DEF StartTurn, VisitNetwork, NoEvent, TimerPosted
  <2>4. CASE Drain
    BY <2>4, TimerPostedStep DEF Drain
  <2>5. CASE VisitTimer
    BY <2>5, TimerPostedStep DEF VisitTimer
  <2>6. CASE DeliverMessage
    BY <2>6, TimerPostedStep DEF DeliverMessage
  <2>7. CASE DeliverTimer
    BY <2>7 DEF DeliverTimer, TimerPosted
  <2>8. CASE Wait \/ Timeout \/ SpuriousWakeup
    BY <2>8 DEF Wait, Timeout, SpuriousWakeup, TimerPosted
  <2>9. CASE TimePasses
    BY <2>9 DEF TimePasses, TimerPosted
  <2>10. ASSUME NEW t \in Thread, Receive(t) \/ Announce(t) PROVE SleepInv'
    BY <2>10 DEF Receive, Announce, Add, SetNeedsPoll, SetPollRequested, Signal, TimerPosted
  <2>11. CASE UNCHANGED vars
    BY <2>11 DEF vars, TimerPosted
  <2>. QED
    BY <2>1, <2>2, <2>3, <2>4, <2>5, <2>6, <2>7, <2>8, <2>9, <2>10, <2>11
       DEF Next, MainStep
<1>3. SleepInv => SleepEnds
  <2>1. TimerPosted /\ queue = << >> => timer # "posted"
    BY EmptySeq DEF TimerPosted
  <2>. QED BY <2>1 DEF SleepInv, DeadlineKnown, SleepEnds
<1>. QED BY <1>1, <1>2, <1>3, TypeCorrect, PTL DEF Spec
----------------------------------------------------------------------------
(* Where the messages of a thread and a kind are on their way, oldest      *)
(* first: handled, in the event queue, on the list, being received.  The   *)
(* queue alone does not have them in order: a younger message may be in    *)
(* front of an older one, which then is hops further on.                   *)
SameKind(m, k) == m[1] = k[1] /\ (m \in Secured <=> k \in Secured)

Before(m, k) == SameKind(m, k) => m[2] < k[2]

HopsDone(e) == IF e.to = "buffer" THEN 0 ELSE IF e.to = "oscore" THEN 1 ELSE 2

InFrontOf(e, f) ==
  SameKind(e.message, f.message) =>
    \/ e.message[2] < f.message[2] /\ HopsDone(e) >= HopsDone(f)
    \/ e.message[2] > f.message[2] /\ HopsDone(e) < HopsDone(f)

Queued(i) == i \in 1 .. Len(queue) /\ queue[i] # TimerEvent

HandledInOrder ==
  \A i, j \in 1 .. Len(handled) : i < j => Before(handled[i], handled[j])

QueueInOrder ==
  \A i, j \in 1 .. Len(queue) :
    Queued(i) /\ Queued(j) /\ i < j => InFrontOf(queue[i], queue[j])

ListInOrder ==
  \A i, j \in 1 .. Len(network) : i < j => Before(network[i], network[j])

HandledBeforeQueue ==
  \A i \in 1 .. Len(handled) : \A j \in 1 .. Len(queue) :
    Queued(j) => Before(handled[i], queue[j].message)

HandledBeforeList ==
  \A i \in 1 .. Len(handled) : \A j \in 1 .. Len(network) :
    Before(handled[i], network[j])

QueueBeforeList ==
  \A i \in 1 .. Len(queue) : \A j \in 1 .. Len(network) :
    Queued(i) => Before(queue[i].message, network[j])

OnlySecuredDecrypted ==
  \A i \in 1 .. Len(queue) :
    Queued(i) /\ queue[i].to = "oscore" => queue[i].message \in Secured

(* A message on its way is no younger than the last its thread received,   *)
(* and older than the one its thread is about to add.                      *)
Older(m) ==
  IF threadPc[m[1]] = "add" THEN m[2] < received[m[1]] ELSE m[2] <= received[m[1]]

AllReceived ==
  /\ \A i \in 1 .. Len(handled) : Older(handled[i])
  /\ \A i \in 1 .. Len(queue) : Queued(i) => Older(queue[i].message)
  /\ \A i \in 1 .. Len(network) : Older(network[i])

OrderInv ==
  /\ HandledInOrder /\ QueueInOrder /\ ListInOrder
  /\ HandledBeforeQueue /\ HandledBeforeList /\ QueueBeforeList
  /\ OnlySecuredDecrypted /\ AllReceived

(* What the three sequences hold.                                          *)
LEMMA Held ==
  ASSUME TypeOK
  PROVE  /\ Len(handled) \in Nat /\ Len(queue) \in Nat /\ Len(network) \in Nat
         /\ \A i \in 1 .. Len(handled) : handled[i][1] \in Thread /\ handled[i][2] \in Nat
         /\ \A i \in 1 .. Len(network) : network[i][1] \in Thread /\ network[i][2] \in Nat
         /\ \A i \in 1 .. Len(queue) : Queued(i) =>
              /\ queue[i].to \in {"buffer", "oscore", "coap"}
              /\ queue[i].message[1] \in Thread /\ queue[i].message[2] \in Nat
<1>1. /\ Len(handled) \in Nat /\ Len(queue) \in Nat /\ Len(network) \in Nat
      /\ \A i \in 1 .. Len(handled) : handled[i] \in Message
      /\ \A i \in 1 .. Len(network) : network[i] \in Message
      /\ \A i \in 1 .. Len(queue) : queue[i] \in LoopEvent
  BY LenProperties, ElementOfSeq DEF TypeOK, LoopEvent
<1>2. \A m \in Message : m[1] \in Thread /\ m[2] \in Nat
  BY DEF Message
<1>3. \A i \in 1 .. Len(queue) : Queued(i) => queue[i] \in MessageEvent
  BY <1>1 DEF Queued, LoopEvent
<1>4. \A e \in MessageEvent : e.to \in {"buffer", "oscore", "coap"} /\ e.message \in Message
  BY DEF MessageEvent
<1>. QED BY <1>1, <1>2, <1>3, <1>4

(* A step that moves no message and reads none keeps the order.            *)
LEMMA OrderFrame ==
  ASSUME TypeOK, OrderInv, UNCHANGED <<network, queue, handled, received>>,
         \A t \in Thread : threadPc'[t] = "add" => threadPc[t] = "add"
  PROVE  OrderInv'
<1>1. \A i : Queued(i)' <=> Queued(i)
  BY DEF Queued
<1>2. /\ HandledInOrder' /\ QueueInOrder' /\ ListInOrder'
      /\ HandledBeforeQueue' /\ HandledBeforeList' /\ QueueBeforeList'
      /\ OnlySecuredDecrypted'
  BY <1>1 DEF OrderInv, HandledInOrder, QueueInOrder, ListInOrder,
     HandledBeforeQueue, HandledBeforeList, QueueBeforeList, OnlySecuredDecrypted
<1>3. ASSUME NEW m, m[1] \in Thread, m[2] \in Nat, Older(m) PROVE Older(m)'
  BY <1>3 DEF Older, TypeOK
<1>4. AllReceived'
  BY <1>1, <1>3, Held DEF OrderInv, AllReceived
<1>. QED BY <1>2, <1>4 DEF OrderInv

(* A thread reads its next message.                                        *)
LEMMA OrderReceive ==
  ASSUME TypeOK, OrderInv, NEW t \in Thread, Receive(t)
  PROVE  OrderInv'
<1>0. UNCHANGED <<network, queue, handled>>
  BY DEF Receive
<1>1. \A i : Queued(i)' <=> Queued(i)
  BY <1>0 DEF Queued
<1>2. /\ HandledInOrder' /\ QueueInOrder' /\ ListInOrder'
      /\ HandledBeforeQueue' /\ HandledBeforeList' /\ QueueBeforeList'
      /\ OnlySecuredDecrypted'
  BY <1>0, <1>1 DEF OrderInv, HandledInOrder, QueueInOrder, ListInOrder,
     HandledBeforeQueue, HandledBeforeList, QueueBeforeList, OnlySecuredDecrypted
<1>3. ASSUME NEW m, m[1] \in Thread, m[2] \in Nat, Older(m) PROVE Older(m)'
  BY <1>3 DEF Older, TypeOK, Receive, At
<1>4. AllReceived'
  BY <1>0, <1>1, <1>3, Held DEF OrderInv, AllReceived
<1>. QED BY <1>2, <1>4 DEF OrderInv

(* It puts the message behind those that are on the list.                  *)
LEMMA OrderAdd ==
  ASSUME TypeOK, ReadBeforeAdd, OrderInv, NEW t \in Thread, Add(t)
  PROVE  OrderInv'
<1>. DEFINE new == <<t, received[t]>>
<1>0. UNCHANGED <<queue, handled, received>> /\ network' = Append(network, new)
  BY DEF Add
<1>1. \A i : Queued(i)' <=> Queued(i)
  BY <1>0 DEF Queued
<1>2. new \in Message /\ network \in Seq(Message) /\ Len(network) \in Nat
  BY LenProperties DEF Add, At, TypeOK, ReadBeforeAdd, Message
<1>3. /\ Len(network') = Len(network) + 1
      /\ \A i \in 1 .. Len(network) : network'[i] = network[i]
      /\ network'[Len(network) + 1] = new
  BY <1>0, <1>2, AppendProperties
<1>4. ASSUME NEW m, m[1] \in Thread, m[2] \in Nat, Older(m)
      PROVE  Before(m, new) /\ Older(m)'
  BY <1>4 DEF Older, Before, SameKind, TypeOK, Add, At
<1>5. Older(new)'
  BY DEF Older, TypeOK, Add, At
<1>6. /\ \A i \in 1 .. Len(handled) : Before(handled[i], new)
      /\ \A i \in 1 .. Len(queue) : Queued(i) => Before(queue[i].message, new)
      /\ \A i \in 1 .. Len(network) : Before(network[i], new)
  BY <1>4, Held DEF OrderInv, AllReceived
<1>8. HandledInOrder' /\ QueueInOrder' /\ HandledBeforeQueue' /\ OnlySecuredDecrypted'
  BY <1>0, <1>1 DEF OrderInv, HandledInOrder, QueueInOrder, HandledBeforeQueue,
     OnlySecuredDecrypted
<1>. HIDE DEF new
<1>7. AllReceived'
  <2>. DEFINE StillOlder(m) == IF threadPc'[m[1]] = "add" THEN m[2] < received'[m[1]]
                                                          ELSE m[2] <= received'[m[1]]
  <2>1. \A i \in 1 .. Len(handled) : StillOlder(handled[i])
    BY <1>4, Held DEF OrderInv, AllReceived, Older
  <2>2. \A i \in 1 .. Len(queue) : Queued(i) => StillOlder(queue[i].message)
    BY <1>4, Held DEF OrderInv, AllReceived, Older
  <2>3. \A i \in 1 .. Len(network) : StillOlder(network[i])
    BY <1>4, Held DEF OrderInv, AllReceived, Older
  <2>4. StillOlder(new)
    BY <1>0, <1>5 DEF Older, new
  <2>. HIDE DEF StillOlder
  <2>5. \A i \in 1 .. Len(network') : StillOlder(network'[i])
    BY <1>2, <1>3, <2>3, <2>4
  <2>6. \A m : StillOlder(m) <=> IF threadPc'[m[1]] = "add" THEN m[2] < received'[m[1]]
                                                           ELSE m[2] <= received'[m[1]]
    BY DEF StillOlder
  <2>. QED BY <1>0, <1>1, <2>1, <2>2, <2>5, <2>6 DEF AllReceived, Older
<1>9. HandledBeforeList' /\ QueueBeforeList'
  BY <1>0, <1>1, <1>2, <1>3, <1>6 DEF OrderInv, HandledBeforeList, QueueBeforeList
<1>10. ListInOrder'
  BY <1>2, <1>3, <1>6 DEF OrderInv, ListInOrder
<1>. QED BY <1>7, <1>8, <1>9, <1>10 DEF OrderInv

(* The list joins the queue behind what is in it.                          *)
LEMMA OrderDrain ==
  ASSUME TypeOK, OrderInv, Drain
  PROVE  OrderInv'
<1>. DEFINE n == Len(queue)
            k == Len(network)
<1>0. /\ UNCHANGED <<handled, received, threadPc>> /\ Len(network') = 0
      /\ n \in Nat /\ k \in Nat
  BY Held, EmptySeq DEF Drain
<1>1. Len(queue') = n + k /\ \A i \in 1 .. n : queue'[i] = queue[i]
  BY Drained
<1>2. ASSUME NEW i \in n + 1 .. n + k
      PROVE  /\ i - n \in 1 .. k
             /\ queue'[i].to = "buffer" /\ queue'[i].message = network[i - n]
  <2>1. i \in n + 1 .. Len(queue')
    BY <1>1
  <2>2. i - n \in 1 .. k /\ queue'[i] = [to |-> "buffer", message |-> network[i - n]]
    BY <2>1, Drained
  <2>. QED BY <2>2
<1>. HIDE DEF n, k
<1>3. \A i \in 1 .. n : Queued(i)' => Queued(i)
  BY <1>0, <1>1 DEF Queued, n
<1>4. AllReceived'
  <2>1. \A i \in 1 .. Len(handled') : Older(handled'[i])
    BY <1>0 DEF OrderInv, AllReceived
  <2>2. \A i \in 1 .. Len(queue') : Queued(i)' => Older(queue'[i].message)
    BY <1>0, <1>1, <1>2, <1>3 DEF OrderInv, AllReceived, n, k
  <2>. QED BY <1>0, <2>1, <2>2 DEF AllReceived, Older
<1>5. HandledInOrder' /\ ListInOrder' /\ HandledBeforeList' /\ QueueBeforeList'
  BY <1>0 DEF OrderInv, HandledInOrder, ListInOrder, HandledBeforeList, QueueBeforeList
<1>6. OnlySecuredDecrypted'
  BY <1>0, <1>1, <1>2, <1>3 DEF OrderInv, OnlySecuredDecrypted, n
<1>7. HandledBeforeQueue'
  BY <1>0, <1>1, <1>2, <1>3 DEF OrderInv, HandledBeforeQueue, HandledBeforeList, n, k
<1>8. QueueInOrder'
  <2>. SUFFICES ASSUME NEW i \in 1 .. n + k, NEW j \in 1 .. n + k,
                       Queued(i)', Queued(j)', i < j
                PROVE  InFrontOf(queue'[i], queue'[j])
    BY <1>1 DEF QueueInOrder
  <2>1. CASE j <= n
    <3>1. i \in 1 .. n /\ j \in 1 .. n
      BY <2>1, <1>0
    <3>. QED BY <3>1, <1>1, <1>3 DEF OrderInv, QueueInOrder, n
  <2>2. CASE i <= n /\ j > n
    <3>1. i \in 1 .. n /\ j \in n + 1 .. n + k
      BY <2>2, <1>0
    <3>2. Before(queue'[i].message, queue'[j].message)
      BY <3>1, <1>1, <1>2, <1>3 DEF OrderInv, QueueBeforeList, n, k
    <3>. QED BY <3>1, <3>2, <1>2 DEF InFrontOf, Before, HopsDone
  <2>3. CASE i > n
    <3>1. i \in n + 1 .. n + k /\ j \in n + 1 .. n + k /\ i - n < j - n
      BY <2>3, <1>0
    <3>2. Before(queue'[i].message, queue'[j].message)
      BY <3>1, <1>2 DEF OrderInv, ListInOrder, k
    <3>. QED BY <3>1, <3>2, <1>2 DEF InFrontOf, Before, HopsDone
  <2>. QED BY <2>1, <2>2, <2>3, <1>0
<1>. QED BY <1>4, <1>5, <1>6, <1>7, <1>8 DEF OrderInv

(* A posted expiry is no message.                                          *)
LEMMA OrderTimerPosted ==
  ASSUME TypeOK, OrderInv, UNCHANGED <<network, handled, received, threadPc>>,
         queue' = Append(queue, TimerEvent)
  PROVE  OrderInv'
<1>1. /\ Len(queue) \in Nat /\ Len(queue') = Len(queue) + 1
      /\ \A i \in 1 .. Len(queue) : queue'[i] = queue[i]
      /\ queue'[Len(queue) + 1] = TimerEvent
  BY AppendProperties, Held DEF TypeOK
<1>2. \A i : Queued(i)' => Queued(i) /\ queue'[i] = queue[i]
  BY <1>1 DEF Queued
<1>3. \A i : Queued(i) => i \in 1 .. Len(queue)
  BY DEF Queued
<1>4. /\ HandledInOrder' /\ ListInOrder' /\ HandledBeforeList' /\ QueueBeforeList'
      /\ HandledBeforeQueue' /\ OnlySecuredDecrypted'
  BY <1>2, <1>3 DEF OrderInv, HandledInOrder, ListInOrder, HandledBeforeList,
     QueueBeforeList, HandledBeforeQueue, OnlySecuredDecrypted
<1>5. QueueInOrder'
  BY <1>2, <1>3 DEF OrderInv, QueueInOrder
<1>6. AllReceived'
  BY <1>2, <1>3 DEF OrderInv, AllReceived, Older
<1>. QED BY <1>4, <1>5, <1>6 DEF OrderInv

(* The queue without its head: the rest is one place further in front.     *)
LEMMA TailEvents ==
  ASSUME TypeOK, queue # << >>
  PROVE  /\ Len(queue) \in Nat \ {0} /\ Len(Tail(queue)) = Len(queue) - 1
         /\ Head(queue) = queue[1]
         /\ \A i \in 1 .. Len(queue) - 1 : Tail(queue)[i] = queue[i + 1]
<1>1. queue \in Seq(LoopEvent)
  BY DEF TypeOK, LoopEvent
<1>2. Len(queue) \in Nat \ {0}
  BY <1>1, EmptySeq
<1>. QED BY <1>1, <1>2, HeadTailProperties

(* The CoAP engine gets the message at the head, or the head is no message.*)
LEMMA OrderTaken ==
  ASSUME TypeOK, OrderInv, UNCHANGED <<network, received, threadPc>>,
         queue # << >>, queue' = Tail(queue),
         \/ handled' = handled
         \/ /\ Queued(1) /\ queue[1].to = "coap"
            /\ handled' = Append(handled, queue[1].message)
  PROVE  OrderInv'
<1>. DEFINE n == Len(queue)
<1>1. /\ n \in Nat \ {0} /\ Len(queue') = n - 1
      /\ \A i \in 1 .. n - 1 : queue'[i] = queue[i + 1]
  BY TailEvents
<1>2. \A i : Queued(i)' => Queued(i + 1) /\ i \in 1 .. n - 1 /\ queue'[i] = queue[i + 1]
  BY <1>1 DEF Queued
<1>. HIDE DEF n
<1>3. \A i \in 1 .. n - 1 : i + 1 \in 1 .. n /\ i + 1 > 1
  BY <1>1
<1>4. ListInOrder' /\ QueueBeforeList' /\ OnlySecuredDecrypted'
  BY <1>2, <1>3 DEF OrderInv, ListInOrder, QueueBeforeList, OnlySecuredDecrypted, n
<1>5. QueueInOrder'
  <2>. SUFFICES ASSUME NEW i \in 1 .. n - 1, NEW j \in 1 .. n - 1,
                       Queued(i)', Queued(j)', i < j
                PROVE  InFrontOf(queue'[i], queue'[j])
    BY <1>1 DEF QueueInOrder
  <2>1. i + 1 < j + 1 /\ i + 1 \in 1 .. n /\ j + 1 \in 1 .. n
    BY <1>1
  <2>2. InFrontOf(queue[i + 1], queue[j + 1])
    BY <2>1, <1>2 DEF OrderInv, QueueInOrder, n
  <2>. QED BY <2>2, <1>2
<1>6. CASE handled' = handled
  <2>1. HandledInOrder' /\ HandledBeforeList'
    BY <1>6 DEF OrderInv, HandledInOrder, HandledBeforeList
  <2>2. HandledBeforeQueue'
    BY <1>6, <1>2, <1>3 DEF OrderInv, HandledBeforeQueue, n
  <2>3. AllReceived'
    BY <1>6, <1>2, <1>3 DEF OrderInv, AllReceived, Older, n
  <2>. QED BY <1>4, <1>5, <2>1, <2>2, <2>3 DEF OrderInv
<1>7. CASE /\ Queued(1) /\ queue[1].to = "coap"
           /\ handled' = Append(handled, queue[1].message)
  <2>. DEFINE m == queue[1].message
              h == Len(handled)
  <2>1. 1 \in 1 .. n /\ m \in Message /\ handled \in Seq(Message) /\ h \in Nat
    <3>1. 1 \in 1 .. n
      BY <1>1
    <3>2. queue[1] = Head(queue) /\ queue[1] # TimerEvent
      BY <1>7, TailEvents DEF Queued
    <3>. QED BY <3>1, <3>2, HeadEvent, Held DEF TypeOK
  <2>2. /\ Len(handled') = h + 1 /\ handled'[h + 1] = m
        /\ \A i \in 1 .. h : handled'[i] = handled[i]
    BY <1>7, <2>1, AppendProperties
  <2>3. \A i \in 1 .. h : Before(handled[i], m)
    BY <1>7, <2>1 DEF OrderInv, HandledBeforeQueue, n
  <2>4. \A j \in 1 .. Len(network) : Before(m, network[j])
    BY <1>7, <2>1 DEF OrderInv, QueueBeforeList, n
  <2>5. Older(m)
    BY <1>7, <2>1 DEF OrderInv, AllReceived, n
  <2>6. \A j \in 2 .. n : Queued(j) => Before(m, queue[j].message)
    <3>. SUFFICES ASSUME NEW j \in 2 .. n, Queued(j) PROVE Before(m, queue[j].message)
      OBVIOUS
    <3>1. j \in 1 .. n /\ 1 < j
      BY <1>1
    <3>2. InFrontOf(queue[1], queue[j])
      BY <1>7, <2>1, <3>1 DEF OrderInv, QueueInOrder, n
    <3>3. HopsDone(queue[1]) = 2 /\ HopsDone(queue[j]) \in 0 .. 2
      BY <1>7 DEF HopsDone
    <3>. QED BY <3>2, <3>3 DEF InFrontOf, Before
  <2>. HIDE DEF m, h
  <2>7. HandledInOrder'
    BY <2>1, <2>2, <2>3 DEF OrderInv, HandledInOrder, h
  <2>8. HandledBeforeList'
    BY <2>1, <2>2, <2>4 DEF OrderInv, HandledBeforeList, h
  <2>9. HandledBeforeQueue'
    <3>. SUFFICES ASSUME NEW i \in 1 .. h + 1, NEW j \in 1 .. n - 1, Queued(j)'
                  PROVE  Before(handled'[i], queue'[j].message)
      BY <1>1, <2>2 DEF HandledBeforeQueue
    <3>1. j + 1 \in 2 .. n /\ j + 1 \in 1 .. n
      BY <1>1
    <3>2. CASE i = h + 1
      BY <3>1, <3>2, <1>2, <2>2, <2>6
    <3>3. CASE i # h + 1
      <4>1. i \in 1 .. h
        BY <2>1, <3>3
      <4>. QED BY <3>1, <4>1, <1>2, <2>2 DEF OrderInv, HandledBeforeQueue, n, h
    <3>. QED BY <3>2, <3>3
  <2>10. AllReceived'
    <3>1. \A i \in 1 .. h + 1 : Older(handled'[i])
      BY <2>1, <2>2, <2>5 DEF OrderInv, AllReceived, h
    <3>2. \A i \in 1 .. n - 1 : Queued(i)' => Older(queue'[i].message)
      BY <1>2, <1>3 DEF OrderInv, AllReceived, n
    <3>3. \A i \in 1 .. Len(network) : Older(network[i])
      BY DEF OrderInv, AllReceived
    <3>. QED BY <1>1, <2>2, <3>1, <3>2, <3>3 DEF AllReceived, Older
  <2>. QED BY <1>4, <1>5, <2>7, <2>8, <2>9, <2>10 DEF OrderInv
<1>. QED BY <1>6, <1>7

(* The message at the head makes its next hop, to the end of the queue.    *)
LEMMA OrderHop ==
  ASSUME TypeOK, OrderInv, UNCHANGED <<network, handled, received, threadPc>>,
         Queued(1), queue[1].to # "coap",
         queue' = Append(Tail(queue), NextHop(queue[1]))
  PROVE  OrderInv'
<1>. DEFINE n == Len(queue)
            e == queue[1]
            f == NextHop(queue[1])
<1>1. queue # << >>
  BY Held DEF Queued
<1>2. /\ n \in Nat \ {0} /\ 1 \in 1 .. n /\ Len(Tail(queue)) = n - 1
      /\ e = Head(queue) /\ e # TimerEvent
      /\ \A i \in 1 .. n - 1 : Tail(queue)[i] = queue[i + 1]
  BY <1>1, TailEvents DEF Queued
<1>3. /\ Tail(queue) \in Seq(LoopEvent) /\ f \in LoopEvent
      /\ f.message = e.message
      /\ f.to # "buffer"
      /\ HopsDone(e) < HopsDone(f)
      /\ f.to = "oscore" => e.message \in Secured
  <2>1. Tail(queue) \in Seq(LoopEvent) /\ e \in MessageEvent /\ f \in MessageEvent
    BY <1>1, <1>2, HeadEvent
  <2>2. f = [e EXCEPT !.to = IF e.to = "buffer" /\ e.message \in Secured
                             THEN "oscore" ELSE "coap"]
    BY DEF NextHop
  <2>. QED BY <2>1, <2>2 DEF MessageEvent, HopsDone, LoopEvent
<1>4. HopsDone(f) = HopsDone(e) + 1 \/ (HopsDone(f) = 2 /\ e.message \notin Secured)
  <2>1. e \in MessageEvent
    BY <1>1, <1>2, HeadEvent
  <2>2. f = [e EXCEPT !.to = IF e.to = "buffer" /\ e.message \in Secured
                             THEN "oscore" ELSE "coap"]
    BY DEF NextHop
  <2>3. e.to = "oscore" => e.message \in Secured
    BY <1>2 DEF OrderInv, OnlySecuredDecrypted
  <2>. QED BY <2>1, <2>2, <2>3 DEF MessageEvent, HopsDone
<1>. HIDE DEF n, f
<1>5. /\ Len(queue') = n /\ queue'[n] = f
      /\ \A i \in 1 .. n - 1 : queue'[i] = queue[i + 1]
  <2>1. queue' = Append(Tail(queue), f)
    BY DEF f
  <2>. QED BY <2>1, <1>2, <1>3, AppendProperties
<1>6. \A i \in 1 .. n - 1 : Queued(i)' => Queued(i + 1)
  BY <1>2, <1>5 DEF Queued, n
<1>7. \A i \in 1 .. n - 1 : i + 1 \in 1 .. n /\ i + 1 > 1
  BY <1>2
<1>8. \A i \in 1 .. n : Queued(i)' =>
        \E k \in 1 .. n : Queued(k) /\ queue'[i].message = queue[k].message
  <2>. SUFFICES ASSUME NEW i \in 1 .. n, Queued(i)'
                PROVE  \E k \in 1 .. n : Queued(k) /\ queue'[i].message = queue[k].message
    OBVIOUS
  <2>1. CASE i = n
    BY <2>1, <1>2, <1>3, <1>5
  <2>2. CASE i # n
    <3>1. i \in 1 .. n - 1
      BY <2>2, <1>2
    <3>. QED BY <3>1, <1>5, <1>6, <1>7
  <2>. QED BY <2>1, <2>2
<1>9. HandledInOrder' /\ ListInOrder' /\ HandledBeforeList'
  BY DEF OrderInv, HandledInOrder, ListInOrder, HandledBeforeList
<1>10. HandledBeforeQueue' /\ QueueBeforeList'
  BY <1>5, <1>8 DEF OrderInv, HandledBeforeQueue, QueueBeforeList, n
<1>11. AllReceived'
  BY <1>5, <1>8 DEF OrderInv, AllReceived, Older, n
<1>12. OnlySecuredDecrypted'
  <2>. SUFFICES ASSUME NEW i \in 1 .. n, Queued(i)', queue'[i].to = "oscore"
                PROVE  queue'[i].message \in Secured
    BY <1>5 DEF OnlySecuredDecrypted
  <2>1. CASE i = n
    BY <2>1, <1>3, <1>5
  <2>2. CASE i # n
    <3>1. i \in 1 .. n - 1
      BY <2>2, <1>2
    <3>. QED BY <3>1, <1>5, <1>6, <1>7 DEF OrderInv, OnlySecuredDecrypted, n
  <2>. QED BY <2>1, <2>2
<1>13. QueueInOrder'
  <2>. SUFFICES ASSUME NEW i \in 1 .. n, NEW j \in 1 .. n,
                       Queued(i)', Queued(j)', i < j
                PROVE  InFrontOf(queue'[i], queue'[j])
    BY <1>5 DEF QueueInOrder
  <2>1. i \in 1 .. n - 1 /\ i + 1 \in 1 .. n /\ Queued(i + 1) /\ queue'[i] = queue[i + 1]
    BY <1>2, <1>5, <1>6
  <2>2. CASE j = n
    <3>1. InFrontOf(e, queue[i + 1])
      BY <2>1, <1>2, <1>7 DEF OrderInv, QueueInOrder, n
    <3>2. /\ queue[i + 1].message[2] \in Nat /\ e.message[2] \in Nat
          /\ HopsDone(e) \in 0 .. 2 /\ HopsDone(queue[i + 1]) \in 0 .. 2
      BY <2>1, <1>2, Held DEF HopsDone, n
    <3>3. SameKind(queue[i + 1].message, f.message) =>
            /\ SameKind(e.message, queue[i + 1].message)
            /\ HopsDone(f) = HopsDone(e) + 1 \/ HopsDone(queue[i + 1]) # 1
      <4>1. queue[i + 1].to = "oscore" => queue[i + 1].message \in Secured
        BY <2>1 DEF OrderInv, OnlySecuredDecrypted, n
      <4>2. HopsDone(queue[i + 1]) = 1 => queue[i + 1].to = "oscore"
        BY DEF HopsDone
      <4>. QED BY <4>1, <4>2, <1>3, <1>4 DEF SameKind
    <3>4. HopsDone(f) = HopsDone(e) + 1 \/ (HopsDone(f) = 2 /\ HopsDone(e) = 0)
      BY <1>3, <1>4, <3>2
    <3>5. InFrontOf(queue[i + 1], f)
      <4>. SUFFICES ASSUME SameKind(queue[i + 1].message, f.message)
                    PROVE  \/ /\ queue[i + 1].message[2] < e.message[2]
                              /\ HopsDone(queue[i + 1]) >= HopsDone(f)
                           \/ /\ queue[i + 1].message[2] > e.message[2]
                              /\ HopsDone(queue[i + 1]) < HopsDone(f)
        BY <1>3 DEF InFrontOf
      <4>. QED BY <3>1, <3>2, <3>3, <3>4 DEF InFrontOf
    <3>. QED BY <2>1, <2>2, <3>5, <1>5
  <2>3. CASE j # n
    <3>1. /\ j \in 1 .. n - 1 /\ j + 1 \in 1 .. n /\ i + 1 < j + 1
          /\ Queued(j + 1) /\ queue'[j] = queue[j + 1]
      BY <2>3, <1>2, <1>5, <1>6
    <3>. QED BY <2>1, <3>1 DEF OrderInv, QueueInOrder, n
  <2>. QED BY <2>2, <2>3
<1>. QED BY <1>9, <1>10, <1>11, <1>12, <1>13 DEF OrderInv

LEMMA OrderInvariant == Spec => []OrderInv
<1>1. Init => OrderInv
  BY DEF Init, OrderInv, HandledInOrder, QueueInOrder, ListInOrder, HandledBeforeQueue,
     HandledBeforeList, QueueBeforeList, OnlySecuredDecrypted, AllReceived
<1>2. TypeOK /\ ReadBeforeAdd /\ OrderInv /\ [Next]_vars => OrderInv'
  <2>. SUFFICES ASSUME TypeOK, ReadBeforeAdd, OrderInv, [Next]_vars PROVE OrderInv'
    OBVIOUS
  <2>1. CASE MainPoll \/ Check \/ StartTurn \/ VisitNetwork \/ NoEvent
    BY <2>1, OrderFrame DEF MainPoll, Check, StartTurn, VisitNetwork, NoEvent
  <2>2. CASE Drain
    BY <2>2, OrderDrain
  <2>3. CASE VisitTimer
    BY <2>3, OrderTimerPosted, OrderFrame DEF VisitTimer
  <2>4. CASE DeliverMessage
    <3>1. /\ Queued(1) /\ queue # << >> /\ Head(queue) = queue[1]
      BY <2>4, TailEvents DEF DeliverMessage, Queued
    <3>2. CASE queue[1].to = "coap"
      BY <2>4, <3>1, <3>2, OrderTaken DEF DeliverMessage
    <3>3. CASE queue[1].to # "coap"
      BY <2>4, <3>1, <3>3, OrderHop DEF DeliverMessage
    <3>. QED BY <3>2, <3>3
  <2>5. CASE DeliverTimer
    BY <2>5, OrderTaken DEF DeliverTimer
  <2>6. CASE Wait \/ Timeout \/ SpuriousWakeup \/ TimePasses
    BY <2>6, OrderFrame DEF Wait, Timeout, SpuriousWakeup, TimePasses
  <2>7. ASSUME NEW t \in Thread, Receive(t) PROVE OrderInv'
    BY <2>7, OrderReceive
  <2>8. ASSUME NEW t \in Thread, Add(t) PROVE OrderInv'
    BY <2>8, OrderAdd
  <2>9. ASSUME NEW t \in Thread, SetNeedsPoll(t) \/ SetPollRequested(t) \/ Signal(t)
        PROVE  OrderInv'
    <3>1. \A u \in Thread : threadPc'[u] = "add" => threadPc[u] = "add"
      BY <2>9 DEF SetNeedsPoll, SetPollRequested, Signal, At, TypeOK
    <3>. QED BY <2>9, <3>1, OrderFrame DEF SetNeedsPoll, SetPollRequested, Signal
  <2>10. CASE UNCHANGED vars
    BY <2>10, OrderFrame DEF vars
  <2>. QED
    BY <2>1, <2>2, <2>3, <2>4, <2>5, <2>6, <2>7, <2>8, <2>9, <2>10
       DEF Next, MainStep, Announce
<1>. QED BY <1>1, <1>2, WellFormed, PTL DEF Spec

-----------------------------------------------------------------------------
(* The loop as a mailbox.  A message that was received is somewhere on its *)
(* way: handled, in the queue, on the list, or about to be added to it.    *)
IsHandled(m) == \E i \in 1 .. Len(handled) : handled[i] = m

IsQueued(m) == \E i \in 1 .. Len(queue) : Queued(i) /\ queue[i].message = m

IsListed(m) == \E i \in 1 .. Len(network) : network[i] = m

IsAdded(m) == threadPc[m[1]] = "add" /\ m[2] = received[m[1]]

Somewhere(m) == IsHandled(m) \/ IsQueued(m) \/ IsListed(m) \/ IsAdded(m)

NothingLost == \A t \in Thread : \A n \in 1 .. received[t] : Somewhere(<<t, n>>)

(* A step that moves no message and reads none loses none.                 *)
LEMMA LostFrame ==
  ASSUME NothingLost, UNCHANGED <<network, queue, handled, received>>,
         \A t \in Thread : threadPc[t] = "add" => threadPc'[t] = "add"
  PROVE  NothingLost'
<1>. SUFFICES ASSUME NEW u \in Thread, NEW n \in 1 .. received[u]
              PROVE  Somewhere(<<u, n>>)'
  BY DEF NothingLost
<1>1. Somewhere(<<u, n>>)
  BY DEF NothingLost
<1>2. IsAdded(<<u, n>>) => IsAdded(<<u, n>>)'
  BY DEF IsAdded
<1>. QED BY <1>1, <1>2 DEF Somewhere, IsHandled, IsQueued, IsListed, Queued

(* A thread that reads a message has it.                                   *)
LEMMA LostReceive ==
  ASSUME TypeOK, NothingLost, NEW t \in Thread, Receive(t)
  PROVE  NothingLost'
<1>. SUFFICES ASSUME NEW u \in Thread, NEW n \in 1 .. received'[u]
              PROVE  Somewhere(<<u, n>>)'
  BY DEF NothingLost
<1>1. /\ UNCHANGED <<network, queue, handled>> /\ threadPc[t] = "select"
      /\ received' = [received EXCEPT ![t] = @ + 1]
      /\ threadPc' = [threadPc EXCEPT ![t] = "add"]
      /\ received \in [Thread -> Nat]
      /\ threadPc \in [Thread -> {"select", "add", "flag", "request", "signal"}]
  BY DEF Receive, At, TypeOK
<1>2. CASE u = t /\ n = received'[t]
  BY <1>1, <1>2 DEF Somewhere, IsAdded
<1>3. CASE ~(u = t /\ n = received'[t])
  <2>1. n \in 1 .. received[u]
    BY <1>1, <1>3
  <2>2. Somewhere(<<u, n>>)
    BY <2>1 DEF NothingLost
  <2>3. IsAdded(<<u, n>>) => IsAdded(<<u, n>>)'
    BY <1>1 DEF IsAdded
  <2>. QED BY <2>2, <2>3, <1>1 DEF Somewhere, IsHandled, IsQueued, IsListed, Queued
<1>. QED BY <1>2, <1>3

(* What it adds is on the list then.                                       *)
(* A new last entry, whatever it is.                                       *)
LEMMA AppendAny ==
  ASSUME NEW S, NEW s \in Seq(S), NEW e
  PROVE  /\ Len(Append(s, e)) = Len(s) + 1
         /\ \A i \in 1 .. Len(s) : Append(s, e)[i] = s[i]
         /\ Append(s, e)[Len(s) + 1] = e
<1>1. s \in Seq(S \cup {e})
  BY LenProperties, SeqDef
<1>. QED BY <1>1, AppendProperties

LEMMA LostAdd ==
  ASSUME TypeOK, NothingLost, NEW t \in Thread, Add(t)
  PROVE  NothingLost'
<1>. SUFFICES ASSUME NEW u \in Thread, NEW n \in 1 .. received[u]
              PROVE  Somewhere(<<u, n>>)'
  BY DEF NothingLost, Add
<1>1. /\ UNCHANGED <<queue, handled, received>>
      /\ threadPc' = [threadPc EXCEPT ![t] = "flag"]
      /\ threadPc \in [Thread -> {"select", "add", "flag", "request", "signal"}]
      /\ network' = Append(network, <<t, received[t]>>)
      /\ received[t] \in Nat
  BY DEF Add, At, TypeOK
<1>2. /\ Len(network) \in Nat /\ Len(network') = Len(network) + 1
      /\ \A i \in 1 .. Len(network) : network'[i] = network[i]
      /\ network'[Len(network) + 1] = <<t, received[t]>>
  BY <1>1, Held, AppendAny
<1>3. Somewhere(<<u, n>>)
  BY DEF NothingLost
<1>4. IsHandled(<<u, n>>) => IsHandled(<<u, n>>)'
  BY <1>1 DEF IsHandled
<1>5. IsQueued(<<u, n>>) => IsQueued(<<u, n>>)'
  BY <1>1 DEF IsQueued, Queued
<1>6. IsListed(<<u, n>>) => IsListed(<<u, n>>)'
  BY <1>2 DEF IsListed
<1>7. IsAdded(<<u, n>>) /\ u # t => IsAdded(<<u, n>>)'
  BY <1>1 DEF IsAdded
<1>8. IsAdded(<<u, n>>) /\ u = t => IsListed(<<u, n>>)'
  BY <1>2 DEF IsAdded, IsListed
<1>. QED BY <1>3, <1>4, <1>5, <1>6, <1>7, <1>8 DEF Somewhere

(* The whole list goes to the queue.                                       *)
LEMMA LostDrain ==
  ASSUME TypeOK, NothingLost, Drain
  PROVE  NothingLost'
<1>. SUFFICES ASSUME NEW u \in Thread, NEW n \in 1 .. received[u]
              PROVE  Somewhere(<<u, n>>)'
  BY DEF NothingLost, Drain
<1>1. UNCHANGED <<handled, received, threadPc>>
  BY DEF Drain
<1>2. Somewhere(<<u, n>>)
  BY DEF NothingLost
<1>3. IsQueued(<<u, n>>) => IsQueued(<<u, n>>)'
  <2>1. Len(queue) \in Nat /\ Len(network) \in Nat /\ Len(queue') = Len(queue) + Len(network)
    BY Drained, Held
  <2>2. \A i \in 1 .. Len(queue) : i \in 1 .. Len(queue') /\ queue'[i] = queue[i]
    BY <2>1, Drained
  <2>. QED BY <2>2 DEF IsQueued, Queued
<1>4. IsListed(<<u, n>>) => IsQueued(<<u, n>>)'
  <2>. SUFFICES ASSUME NEW i \in 1 .. Len(network), network[i] = <<u, n>>
                PROVE  IsQueued(<<u, n>>)'
    BY DEF IsListed
  <2>. DEFINE j == Len(queue) + i
  <2>1. /\ j \in 1 .. Len(queue') /\ j \in Len(queue) + 1 .. Len(queue')
        /\ j - Len(queue) = i
    BY Drained, Held
  <2>2. queue'[j] = [to |-> "buffer", message |-> <<u, n>>]
    BY <2>1, Drained
  <2>3. queue'[j] # TimerEvent /\ queue'[j].message = <<u, n>>
    BY <2>2 DEF TimerEvent
  <2>. QED BY <2>1, <2>3 DEF IsQueued, Queued
<1>. QED BY <1>1, <1>2, <1>3, <1>4 DEF Somewhere, IsHandled, IsAdded

(* A posted expiry leaves the queue in front of it as it is.               *)
LEMMA LostTimerPosted ==
  ASSUME TypeOK, NothingLost, UNCHANGED <<network, handled, received, threadPc>>,
         queue' = Append(queue, TimerEvent)
  PROVE  NothingLost'
<1>1. /\ Len(queue) \in Nat /\ Len(queue') = Len(queue) + 1
      /\ \A i \in 1 .. Len(queue) : queue'[i] = queue[i]
  BY AppendProperties, Held DEF TypeOK
<1>2. \A m : IsQueued(m) => IsQueued(m)'
  BY <1>1 DEF IsQueued, Queued
<1>. QED BY <1>2 DEF NothingLost, Somewhere, IsHandled, IsListed, IsAdded

(* The head of the queue moves on: to the engine, or a hop further; what   *)
(* is behind it stays in the queue.                                        *)
LEMMA LostTaken ==
  ASSUME TypeOK, NothingLost, UNCHANGED <<network, received, threadPc>>,
         queue # << >>, queue' = Tail(queue),
         \/ ~Queued(1) /\ handled' = handled
         \/ handled' = Append(handled, queue[1].message)
  PROVE  NothingLost'
<1>. SUFFICES ASSUME NEW u \in Thread, NEW n \in 1 .. received[u]
              PROVE  Somewhere(<<u, n>>)'
  BY DEF NothingLost
<1>1. Somewhere(<<u, n>>)
  BY DEF NothingLost
<1>0. /\ Len(handled) \in Nat
      /\ handled' = Append(handled, queue[1].message) =>
           /\ Len(handled') = Len(handled) + 1
           /\ \A i \in 1 .. Len(handled) : handled'[i] = handled[i]
           /\ handled'[Len(handled) + 1] = queue[1].message
           /\ Len(handled) + 1 \in 1 .. Len(handled')
  <2>1. handled \in Seq(Message) /\ Len(handled) \in Nat
    BY Held DEF TypeOK
  <2>2. handled' = Append(handled, queue[1].message) =>
          /\ Len(handled') = Len(handled) + 1
          /\ \A i \in 1 .. Len(handled) : handled'[i] = handled[i]
          /\ handled'[Len(handled) + 1] = queue[1].message
    BY <2>1, AppendAny
  <2>. QED BY <2>1, <2>2
<1>2. IsHandled(<<u, n>>) => IsHandled(<<u, n>>)'
  BY <1>0 DEF IsHandled
<1>3. IsQueued(<<u, n>>) => IsQueued(<<u, n>>)' \/ IsHandled(<<u, n>>)'
  <2>. SUFFICES ASSUME NEW i \in 1 .. Len(queue), Queued(i), queue[i].message = <<u, n>>
                PROVE  IsQueued(<<u, n>>)' \/ IsHandled(<<u, n>>)'
    BY DEF IsQueued
  <2>1. CASE i = 1
    <3>1. handled' = Append(handled, queue[1].message) /\ queue[1].message = <<u, n>>
      BY <2>1
    <3>. QED BY <3>1, <1>0 DEF IsHandled
  <2>2. CASE i # 1
    <3>1. i - 1 \in 1 .. Len(queue) - 1 /\ (i - 1) + 1 = i
      BY <2>2, TailEvents
    <3>2. Len(queue') = Len(queue) - 1 /\ queue'[i - 1] = queue[i]
      BY <3>1, TailEvents
    <3>. QED BY <3>1, <3>2 DEF IsQueued, Queued
  <2>. QED BY <2>1, <2>2
<1>. QED BY <1>1, <1>2, <1>3 DEF Somewhere, IsListed, IsAdded

LEMMA LostHop ==
  ASSUME TypeOK, NothingLost, UNCHANGED <<network, handled, received, threadPc>>,
         Queued(1), queue # << >>, queue' = Append(Tail(queue), NextHop(queue[1]))
  PROVE  NothingLost'
<1>. DEFINE l == Len(queue)
<1>1. /\ l \in Nat \ {0} /\ Len(Tail(queue)) = l - 1 /\ Head(queue) = queue[1]
      /\ \A i \in 1 .. l - 1 : Tail(queue)[i] = queue[i + 1]
  BY TailEvents
<1>2. Tail(queue) \in Seq(LoopEvent) /\ NextHop(queue[1]) \in MessageEvent
  BY <1>1, HeadEvent DEF Queued
<1>3. /\ Len(queue') = l /\ queue'[l] = NextHop(queue[1])
      /\ \A i \in 1 .. l - 1 : queue'[i] = queue[i + 1]
  <2>1. NextHop(queue[1]) \in LoopEvent
    BY <1>2 DEF LoopEvent
  <2>2. Len(queue') = Len(Tail(queue)) + 1
    BY <1>2, <2>1, AppendProperties
  <2>3. queue'[Len(Tail(queue)) + 1] = NextHop(queue[1])
    BY <1>2, <2>1, AppendProperties
  <2>4. \A i \in 1 .. Len(Tail(queue)) : queue'[i] = Tail(queue)[i]
    BY <1>2, <2>1, AppendProperties
  <2>. QED BY <1>1, <2>2, <2>3, <2>4
<1>4. NextHop(queue[1]).message = queue[1].message /\ NextHop(queue[1]) # TimerEvent
  <2>1. queue[1] \in MessageEvent
    BY <1>1, HeadEvent DEF Queued
  <2>2. NextHop(queue[1]).message = queue[1].message
    BY <2>1 DEF NextHop, MessageEvent
  <2>3. NextHop(queue[1]) # TimerEvent
    BY <1>2 DEF MessageEvent, TimerEvent
  <2>. QED BY <2>2, <2>3
<1>5. ASSUME NEW m, IsQueued(m) PROVE IsQueued(m)'
  <2>. PICK i \in 1 .. l : Queued(i) /\ queue[i].message = m
    BY <1>5 DEF IsQueued
  <2>1. CASE i = 1
    <3>1. l \in 1 .. Len(queue') /\ queue'[l] # TimerEvent /\ queue'[l].message = m
      BY <2>1, <1>1, <1>3, <1>4
    <3>. QED BY <3>1 DEF IsQueued, Queued
  <2>2. CASE i # 1
    <3>1. i - 1 \in 1 .. l - 1 /\ (i - 1) + 1 = i /\ i - 1 \in 1 .. l
      BY <2>2, <1>1
    <3>. QED BY <3>1, <1>3 DEF IsQueued, Queued
  <2>. QED BY <2>1, <2>2
<1>. QED BY <1>5 DEF NothingLost, Somewhere, IsHandled, IsListed, IsAdded

LEMMA LostStep ==
  ASSUME TypeOK, NothingLost, [Next]_vars
  PROVE  NothingLost'
<1>1. CASE MainPoll \/ Check \/ StartTurn \/ VisitNetwork \/ NoEvent
  BY <1>1, LostFrame DEF MainPoll, Check, StartTurn, VisitNetwork, NoEvent
<1>2. CASE Drain
  BY <1>2, LostDrain
<1>3. CASE VisitTimer
  BY <1>3, LostTimerPosted, LostFrame DEF VisitTimer
<1>4. CASE DeliverMessage
  <2>1. /\ Queued(1) /\ queue # << >> /\ Head(queue) = queue[1]
    BY <1>4, TailEvents DEF DeliverMessage, Queued
  <2>2. CASE queue[1].to = "coap"
    BY <1>4, <2>1, <2>2, LostTaken DEF DeliverMessage
  <2>3. CASE queue[1].to # "coap"
    BY <1>4, <2>1, <2>3, LostHop DEF DeliverMessage
  <2>. QED BY <2>2, <2>3
<1>5. CASE DeliverTimer
  <2>1. ~Queued(1)
    BY <1>5, TailEvents DEF DeliverTimer, Queued
  <2>. QED BY <1>5, <2>1, LostTaken DEF DeliverTimer
<1>6. CASE Wait \/ Timeout \/ SpuriousWakeup \/ TimePasses
  BY <1>6, LostFrame DEF Wait, Timeout, SpuriousWakeup, TimePasses
<1>7. ASSUME NEW t \in Thread, Receive(t) PROVE NothingLost'
  BY <1>7, LostReceive
<1>8. ASSUME NEW t \in Thread, Add(t) PROVE NothingLost'
  BY <1>8, LostAdd
<1>9. ASSUME NEW t \in Thread, SetNeedsPoll(t) \/ SetPollRequested(t) \/ Signal(t)
      PROVE  NothingLost'
  <2>1. \A u \in Thread : threadPc[u] = "add" => threadPc'[u] = "add"
    BY <1>9 DEF SetNeedsPoll, SetPollRequested, Signal, At, TypeOK
  <2>. QED BY <1>9, <2>1, LostFrame DEF SetNeedsPoll, SetPollRequested, Signal
<1>10. CASE UNCHANGED vars
  BY <1>10, LostFrame DEF vars
<1>. QED
  BY <1>1, <1>2, <1>3, <1>4, <1>5, <1>6, <1>7, <1>8, <1>9, <1>10
     DEF Next, MainStep, Announce

(* What the engine gets is the oldest message of its thread and kind that  *)
(* is still on its way: whatever is older has been handled.                *)
LEMMA EngineGetsOldest ==
  ASSUME TypeOK, OrderInv, NothingLost, DeliverMessage, Head(queue).to = "coap"
  PROVE  Mail!Handle(Head(queue).message)
<1>. DEFINE m == Head(queue).message
<1>1. /\ Queued(1) /\ queue # << >> /\ Head(queue) = queue[1]
      /\ 1 \in 1 .. Len(queue) /\ queue[1].to = "coap"
  BY TailEvents DEF DeliverMessage, Queued
<1>2. m \in Message /\ m[1] \in Thread /\ m[2] \in Nat \ {0} /\ m = <<m[1], m[2]>>
  BY <1>1, HeadEvent DEF Queued, Message
<1>3. received \in [Thread -> Nat] /\ Len(handled) \in Nat /\ DOMAIN handled = 1 .. Len(handled)
  BY Held, LenProperties DEF TypeOK
<1>4. Older(m)
  BY <1>1 DEF OrderInv, AllReceived
<1>5. m[2] \in 1 .. received[m[1]]
  BY <1>2, <1>3, <1>4 DEF Older
<1>6. \A i \in 1 .. Len(handled) : handled[i] # m
  BY <1>1, <1>2 DEF OrderInv, HandledBeforeQueue, Before, SameKind
<1>7. m \in Mail!Waiting
  <2>1. m \in {m[1]} \X (1 .. received[m[1]])
    BY <1>2, <1>5
  <2>2. m \in Mail!Received
    BY <1>2, <2>1 DEF Mail!Received
  <2>. QED BY <1>3, <1>6, <2>2 DEF Mail!Waiting
<1>8. ASSUME NEW k \in Mail!Waiting, Mail!SameWay(m, k) PROVE m[2] <= k[2]
  <2>1. PICK t \in Thread : k \in {t} \X (1 .. received[t])
    BY DEF Mail!Waiting, Mail!Received
  <2>2. k = <<t, k[2]>> /\ k[1] = t /\ k[2] \in 1 .. received[t]
    BY <2>1
  <2>3. Somewhere(k)
    BY <2>2 DEF NothingLost
  <2>4. ~IsHandled(k)
    BY <1>3 DEF Mail!Waiting, IsHandled
  <2>5. SameKind(m, k)
    BY <1>8 DEF Mail!SameWay, SameKind
  <2>6. k[2] \in Nat /\ m[2] \in Nat
    BY <1>2, <1>3, <2>2
  <2>7. CASE IsQueued(k)
    <3>. PICK j \in 1 .. Len(queue) : Queued(j) /\ queue[j].message = k
      BY <2>7 DEF IsQueued
    <3>1. CASE j = 1
      BY <3>1, <1>1, <2>6
    <3>2. CASE j # 1
      <4>1. 1 < j
        BY <3>2
      <4>2. InFrontOf(queue[1], queue[j])
        BY <4>1, <1>1 DEF OrderInv, QueueInOrder
      <4>3. HopsDone(queue[1]) = 2 /\ HopsDone(queue[j]) \in 0 .. 2
        BY <1>1 DEF HopsDone
      <4>. QED BY <4>2, <4>3, <1>1, <2>5, <2>6 DEF InFrontOf
    <3>. QED BY <3>1, <3>2
  <2>8. CASE IsListed(k)
    BY <2>8, <1>1, <2>5, <2>6 DEF IsListed, OrderInv, QueueBeforeList, Before
  <2>9. CASE IsAdded(k)
    BY <2>9, <1>4, <2>5, <2>6 DEF IsAdded, Older, SameKind
  <2>. QED BY <2>3, <2>4, <2>7, <2>8, <2>9 DEF Somewhere
<1>9. handled' = Append(handled, m) /\ UNCHANGED received
  BY DEF DeliverMessage
<1>. QED BY <1>7, <1>8, <1>9 DEF Mail!Handle

(* The loop is a mailbox: the poll flags, the list, the queue, the hops    *)
(* and the sleep come to what the mailbox does in one step, or to nothing. *)
THEOREM LoopImplementsMailbox == Spec => LoopIsMailbox
<1>1. Init => Mail!Init
  BY DEF Init, Mail!Init
<1>2. Init => NothingLost
  BY DEF Init, NothingLost
<1>3. TypeOK /\ NothingLost /\ [Next]_vars => NothingLost'
  BY LostStep
<1>4. TypeOK /\ OrderInv /\ NothingLost /\ [Next]_vars => [Mail!Next]_<<received, handled>>
  <2>. SUFFICES ASSUME TypeOK, OrderInv, NothingLost, [Next]_vars
                PROVE  Mail!Next \/ UNCHANGED <<received, handled>>
    OBVIOUS
  <2>1. CASE DeliverMessage
    <3>1. CASE Head(queue).to = "coap"
      <4>1. Mail!Handle(Head(queue).message)
        BY <2>1, <3>1, EngineGetsOldest
      <4>2. Head(queue).message \in Mail!Waiting
        BY <4>1 DEF Mail!Handle
      <4>. QED BY <4>1, <4>2 DEF Mail!Next
    <3>2. CASE Head(queue).to # "coap"
      BY <2>1, <3>2 DEF DeliverMessage
    <3>. QED BY <3>1, <3>2
  <2>2. CASE MainPoll \/ Check \/ StartTurn \/ VisitNetwork \/ Drain \/ VisitTimer
             \/ NoEvent \/ DeliverTimer \/ Wait \/ Timeout \/ SpuriousWakeup \/ TimePasses
    BY <2>2 DEF MainPoll, Check, StartTurn, VisitNetwork, Drain, VisitTimer,
       NoEvent, DeliverTimer, Wait, Timeout, SpuriousWakeup, TimePasses
  <2>3. ASSUME NEW t \in Thread, Receive(t) PROVE Mail!Next
    BY <2>3 DEF Receive, Mail!Receive, Mail!Next
  <2>4. ASSUME NEW t \in Thread, Announce(t) PROVE UNCHANGED <<received, handled>>
    BY <2>4 DEF Announce, Add, SetNeedsPoll, SetPollRequested, Signal
  <2>5. CASE UNCHANGED vars
    BY <2>5 DEF vars
  <2>. QED BY <2>1, <2>2, <2>3, <2>4, <2>5 DEF Next, MainStep
<1>. QED BY <1>1, <1>2, <1>3, <1>4, WellFormed, OrderInvariant, PTL
         DEF Spec, LoopIsMailbox, Mail!Spec

-----------------------------------------------------------------------------
(* The ring that holds the posted events implements the first-in first-out *)
(* queue, for every initial size, every bound on the pending events and    *)
(* every set of events.                                                    *)

(* A position below two laps of the ring wraps at most once: the only fact *)
(* about % that the ring relies on.                                        *)
LEMMA WrapOnce ==
  ASSUME NEW m \in Nat \ {0}, NEW a \in Nat, a < 2 * m
  PROVE  Wrap(a, m) = IF a < m THEN a ELSE a - m
<1>1. CASE a < m
  BY <1>1, SMT DEF Wrap
<1>2. CASE a >= m
  <2>1. /\ a \div m \in Int
        /\ a % m \in Int
        /\ a = m * (a \div m) + (a % m)
        /\ 0 <= a % m
        /\ a % m < m
    BY SMT
  <2>2. a \div m > 0
    BY <1>2, <2>1, SMT
  <2>3. a \div m < 2
    BY <2>1, SMT
  <2>. QED BY <1>2, <2>1, <2>2, <2>3, SMT DEF Wrap
<1>. QED BY <1>1, <1>2

----------------------------------------------------------------------------
(* The ring stays well formed: the counters stay within the array, so      *)
(* do_event and oc_process_post never index outside it.                    *)
THEOREM RingTypeCorrect == RingSpec => []RingTypeOK
<1>1. RingInit => RingTypeOK
  BY QueueAssumption DEF RingInit, RingTypeOK, Slots
<1>2. RingTypeOK /\ [RingNext]_ringVars => RingTypeOK'
  <2>. SUFFICES ASSUME RingTypeOK, [RingNext]_ringVars PROVE RingTypeOK'
    OBVIOUS
  <2>. USE DEF RingTypeOK, Slots
  <2>1. ASSUME NEW e \in Event, PostInPlace(e) PROVE RingTypeOK'
    <3>1. Wrap(fevent + nevents, size) \in 0 .. size - 1
      BY <2>1, WrapOnce DEF PostInPlace
    <3>. QED BY <2>1, <3>1 DEF PostInPlace
  <2>2. ASSUME NEW e \in Event, PostGrowing(e) PROVE RingTypeOK'
    <3>1. Grown \in [0 .. size' - 1 -> Event \cup {Cleared}]
      BY <2>2 DEF Grown, PostGrowing
    <3>2. events' \in [0 .. size' - 1 -> Event \cup {Cleared}]
      BY <2>2, <3>1 DEF PostGrowing
    <3>3. /\ size' \in Nat \ {0}
          /\ nevents' \in 0 .. size'
          /\ fevent' \in 0 .. size' - 1
      BY <2>2 DEF PostGrowing
    <3>. QED BY <3>2, <3>3
  <2>3. CASE Take
    <3>1. Wrap(fevent + 1, size) \in 0 .. size - 1
      BY WrapOnce
    <3>. QED BY <2>3, <3>1 DEF Take
  <2>4. CASE UNCHANGED ringVars
    BY <2>4 DEF ringVars
  <2>. QED BY <2>1, <2>2, <2>3, <2>4 DEF RingNext, Post
<1>. QED BY <1>1, <1>2, PTL DEF RingSpec

----------------------------------------------------------------------------
(* The slot of the k-th entry of a ring of m slots that starts at f,       *)
(* written without %.                                                      *)
SlotOfEntry(k, f, m) == IF f + k - 1 < m THEN f + k - 1 ELSE f + k - 1 - m

LEMMA WrapEntry ==
  ASSUME NEW m \in Nat \ {0}, NEW f \in 0 .. m - 1, NEW k \in 1 .. m
  PROVE  /\ Wrap(f + k - 1, m) = SlotOfEntry(k, f, m)
         /\ SlotOfEntry(k, f, m) \in 0 .. m - 1
<1>1. f + k - 1 \in Nat /\ f + k - 1 < 2 * m
  BY SMT
<1>2. Wrap(f + k - 1, m) = SlotOfEntry(k, f, m)
  BY <1>1, WrapOnce DEF SlotOfEntry
<1>3. SlotOfEntry(k, f, m) \in 0 .. m - 1
  BY SMT DEF SlotOfEntry
<1>. QED BY <1>2, <1>3

LEMMA PendingAt ==
  ASSUME RingTypeOK, NEW k \in 1 .. nevents
  PROVE  Pending[k] = events[SlotOfEntry(k, fevent, size)]
<1>1. size \in Nat \ {0} /\ fevent \in 0 .. size - 1 /\ k \in 1 .. size
  BY DEF RingTypeOK, Slots
<1>. QED BY <1>1, WrapEntry DEF Pending

(* Where the k-th entry lies after the ring started one slot later.        *)
LEMMA EntryAfterTake ==
  ASSUME NEW m \in Nat \ {0}, NEW f \in 0 .. m - 1, NEW k \in 1 .. m - 1
  PROVE  SlotOfEntry(k, Wrap(f + 1, m), m) = SlotOfEntry(k + 1, f, m)
<1>1. Wrap(f + 1, m) = IF f + 1 < m THEN f + 1 ELSE f + 1 - m
  BY WrapOnce
<1>. QED BY <1>1, SMT DEF SlotOfEntry

(* Where the k-th entry of a full ring lies after the growth: one old      *)
(* length higher, unless it had wrapped.  The slot of the new entry is the *)
(* first free one, the old fevent.                                         *)
LEMMA EntryAfterGrowth ==
  ASSUME NEW m \in Nat \ {0}, NEW f \in 0 .. m - 1, NEW k \in 1 .. m
  PROVE  SlotOfEntry(k, m + f, 2 * m) =
           IF f + k - 1 < m THEN SlotOfEntry(k, f, m) + m
                            ELSE SlotOfEntry(k, f, m)
BY SMT DEF SlotOfEntry

(* The pending events form a sequence of nevents events, once none of them *)
(* is a cleared slot.                                                      *)
LEMMA PendingIsSeq ==
  ASSUME RingTypeOK, NoClearedEventPending
  PROVE  Pending \in Seq(Event) /\ Len(Pending) = nevents
<1>1. nevents \in Nat
  BY DEF RingTypeOK
<1>2. Pending \in [1 .. nevents -> Event]
  BY <1>1 DEF Pending, NoClearedEventPending
<1>. QED BY <1>1, <1>2, SeqDef

(* The same of the state after a step.                                     *)
LEMMA PendingIsSeqNext ==
  ASSUME RingTypeOK', NoClearedEventPending'
  PROVE  Pending' \in Seq(Event) /\ Len(Pending') = nevents'
<1>1. nevents' \in Nat
  BY DEF RingTypeOK
<1>2. Pending' = [k \in 1 .. nevents' |-> Pending'[k]]
  BY Zenon DEF Pending
<1>3. \A k \in 1 .. nevents' : Pending'[k] \in Event
  BY Zenon DEF NoClearedEventPending
<1>. HIDE DEF Pending
<1>4. Pending' \in [1 .. nevents' -> Event]
  BY <1>2, <1>3
<1>. QED BY <1>1, <1>4, SeqDef

(* A post, in place or after a growth, adds one entry behind the last and  *)
(* leaves every pending entry where it was in the order.                   *)
LEMMA PostAppends ==
  ASSUME RingTypeOK, RingTypeOK', NEW e \in Event, PostInPlace(e) \/ PostGrowing(e)
  PROVE  /\ nevents' = nevents + 1
         /\ Pending'[nevents + 1] = e
         /\ \A k \in 1 .. nevents : Pending'[k] = Pending[k]
<1>1. nevents' = nevents + 1
  BY DEF PostInPlace, PostGrowing
<1>2. /\ size \in Nat \ {0} /\ size' \in Nat \ {0}
      /\ nevents \in 0 .. size /\ nevents' \in 0 .. size'
      /\ fevent \in 0 .. size - 1 /\ fevent' \in 0 .. size' - 1
      /\ DOMAIN events = 0 .. size - 1
  BY DEF RingTypeOK, Slots
<1>3. ASSUME NEW k \in 1 .. nevents + 1
      PROVE  Pending'[k] = events'[SlotOfEntry(k, fevent', size')]
  <2>1. k \in 1 .. nevents' /\ k \in 1 .. size'
    BY <1>1, <1>2
  <2>. QED BY <1>2, <2>1, WrapEntry DEF Pending
<1>4. CASE PostInPlace(e)
  <2>1. nevents < size /\ size' = size /\ fevent' = fevent
    BY <1>4 DEF PostInPlace
  <2>2. nevents + 1 \in 1 .. size /\ fevent + (nevents + 1) - 1 = fevent + nevents
    BY <1>2, <2>1
  <2>3. events' = [events EXCEPT ![SlotOfEntry(nevents + 1, fevent, size)] = e]
    BY <1>2, <1>4, <2>2, WrapEntry DEF PostInPlace
  <2>4. Pending'[nevents + 1] = e
    <3>1. SlotOfEntry(nevents + 1, fevent, size) \in DOMAIN events
      BY <1>2, <2>2, WrapEntry
    <3>2. Pending'[nevents + 1] = events'[SlotOfEntry(nevents + 1, fevent, size)]
      BY <1>2, <1>3, <2>1
    <3>. QED BY <2>3, <3>1, <3>2
  <2>5. ASSUME NEW k \in 1 .. nevents PROVE Pending'[k] = Pending[k]
    <3>1. k \in 1 .. size /\ k \in 1 .. nevents + 1 /\ k # nevents + 1
      BY <1>2
    <3>2. SlotOfEntry(k, fevent, size) # SlotOfEntry(nevents + 1, fevent, size)
      BY <1>2, <2>2, <3>1 DEF SlotOfEntry
    <3>3. Pending'[k] = events[SlotOfEntry(k, fevent, size)]
      BY <1>2, <1>3, <2>1, <2>3, <3>1, <3>2, WrapEntry
    <3>. QED BY <3>3, PendingAt
  <2>. QED BY <1>1, <2>4, <2>5
<1>5. CASE PostGrowing(e)
  <2>1. size' = 2 * size /\ fevent' = size + fevent /\ nevents = size
    BY <1>5 DEF PostGrowing
  <2>2. Wrap(fevent' + nevents, size') = fevent
    <3>1. /\ size + fevent + size \in Nat
          /\ size + fevent + size < 2 * (2 * size)
          /\ ~(size + fevent + size < 2 * size)
          /\ size + fevent + size - 2 * size = fevent
          /\ 2 * size \in Nat \ {0}
      BY <1>2
    <3>. DEFINE i == size + fevent + size
    <3>. HIDE DEF i
    <3>2. Wrap(i, 2 * size) = i - 2 * size
      BY <3>1, WrapOnce DEF i
    <3>3. fevent' + nevents = i
      BY <1>2, <2>1 DEF i
    <3>4. i - 2 * size = fevent
      BY <1>2, <3>1 DEF i
    <3>. QED BY <2>1, <3>2, <3>3, <3>4
  <2>3. events' = [Grown EXCEPT ![fevent] = e]
    BY <1>5, <2>2 DEF PostGrowing
  <2>4. /\ DOMAIN Grown = 0 .. 2 * size - 1
        /\ \A i \in 0 .. 2 * size - 1 :
             /\ i < fevent => Grown[i] = events[i]
             /\ i >= fevent + size => Grown[i] = events[i - size]
    BY <1>2 DEF Grown, Slots
  <2>5. Pending'[nevents + 1] = e
    <3>1. /\ nevents + 1 \in 1 .. size' /\ nevents + 1 \in 1 .. nevents + 1
          /\ fevent' + (nevents + 1) - 1 = fevent' + nevents
          /\ fevent \in 0 .. 2 * size - 1
      BY <1>2, <2>1
    <3>2. SlotOfEntry(nevents + 1, fevent', size') = fevent
      BY <1>2, <2>2, <3>1, WrapEntry
    <3>. QED BY <1>3, <2>3, <2>4, <3>1, <3>2
  <2>6. ASSUME NEW k \in 1 .. nevents PROVE Pending'[k] = Pending[k]
    <3>. DEFINE j == SlotOfEntry(k, fevent, size)
    <3>1. k \in 1 .. size /\ k \in 1 .. nevents + 1
      BY <1>2, <2>1
    <3>2. j \in 0 .. size - 1 /\ Pending[k] = events[j]
      BY <1>2, <3>1, WrapEntry, PendingAt
    <3>3. Pending'[k] = events'[SlotOfEntry(k, size + fevent, 2 * size)]
      BY <1>3, <2>1, <3>1
    <3>4. CASE fevent + k - 1 < size
      <4>1. j >= fevent
        BY <1>2, <3>1, <3>4 DEF SlotOfEntry
      <4>2. SlotOfEntry(k, size + fevent, 2 * size) = j + size
        BY <1>2, <3>1, <3>4, EntryAfterGrowth
      <4>. HIDE DEF j
      <4>3. /\ j + size \in 0 .. 2 * size - 1 /\ j + size >= fevent + size
            /\ j + size # fevent /\ j + size - size = j
        BY <1>2, <3>2, <4>1
      <4>4. Grown[j + size] = events[j]
        <5>. DEFINE i == j + size
        <5>1. i \in 0 .. 2 * size - 1 /\ i >= fevent + size /\ i - size = j
          BY <1>2, <3>2, <4>3
        <5>. HIDE DEF i
        <5>2. Grown[i] = events[i - size]
          BY <1>2, <2>4, <5>1
        <5>3. Grown[i] = events[j]
          BY <5>1, <5>2
        <5>. QED BY <5>3 DEF i
      <4>5. events'[j + size] = Grown[j + size]
        BY <2>3, <2>4, <4>3
      <4>. QED BY <3>2, <3>3, <4>2, <4>4, <4>5
    <3>5. CASE ~(fevent + k - 1 < size)
      <4>1. j < fevent
        BY <1>2, <3>1, <3>5 DEF SlotOfEntry
      <4>2. SlotOfEntry(k, size + fevent, 2 * size) = j
        BY <1>2, <3>1, <3>5, EntryAfterGrowth
      <4>. HIDE DEF j
      <4>3. j \in 0 .. 2 * size - 1 /\ j # fevent
        BY <1>2, <3>2, <4>1
      <4>. QED BY <2>3, <2>4, <3>2, <3>3, <4>1, <4>2, <4>3
    <3>. QED BY <3>4, <3>5
  <2>. QED BY <1>1, <2>5, <2>6
<1>. QED BY <1>4, <1>5

(* Taking the oldest entry shifts the order by one.                        *)
LEMMA TakeShifts ==
  ASSUME RingTypeOK, RingTypeOK', Take
  PROVE  /\ nevents > 0
         /\ nevents' = nevents - 1
         /\ \A k \in 1 .. nevents - 1 : Pending'[k] = Pending[k + 1]
<1>1. /\ nevents > 0 /\ nevents' = nevents - 1
      /\ events' = events /\ size' = size /\ fevent' = Wrap(fevent + 1, size)
  BY DEF Take
<1>2. /\ size \in Nat \ {0} /\ nevents \in 0 .. size
      /\ fevent \in 0 .. size - 1 /\ fevent' \in 0 .. size - 1
  BY <1>1 DEF RingTypeOK, Slots
<1>3. ASSUME NEW k \in 1 .. nevents - 1 PROVE Pending'[k] = Pending[k + 1]
  <2>1. /\ k \in 1 .. nevents' /\ k + 1 \in 1 .. nevents
        /\ k \in 1 .. size - 1 /\ k \in 1 .. size
    BY <1>1, <1>2
  <2>2. Pending'[k] = events[SlotOfEntry(k, fevent', size)]
    BY <1>1, <1>2, <2>1, WrapEntry DEF Pending
  <2>3. Pending[k + 1] = events[SlotOfEntry(k + 1, fevent, size)]
    BY <2>1, PendingAt
  <2>. QED BY <1>1, <1>2, <2>1, <2>2, <2>3, EntryAfterTake
<1>. QED BY <1>1, <1>3

----------------------------------------------------------------------------
(* A step of the queue keeps every pending slot an event.  It is not       *)
(* inductive without TypeOK, which places fevent and nevents in the ring.  *)
LEMMA NoClearedStep ==
  ASSUME RingTypeOK, RingTypeOK', NoClearedEventPending, [RingNext]_ringVars
  PROVE  NoClearedEventPending'
<1>1. ASSUME NEW e \in Event, PostInPlace(e) \/ PostGrowing(e)
      PROVE  NoClearedEventPending'
  <2>1. ASSUME NEW k \in 1 .. nevents' PROVE Pending'[k] \in Event
    <3>1. nevents' = nevents + 1 /\ nevents \in Nat
      BY <1>1, PostAppends DEF RingTypeOK
    <3>2. k \in 1 .. nevents \/ k = nevents + 1
      BY <3>1
    <3>. QED BY <1>1, <3>2, PostAppends DEF NoClearedEventPending
  <2>. QED BY <2>1 DEF NoClearedEventPending
<1>2. CASE Take
  <2>1. ASSUME NEW k \in 1 .. nevents' PROVE Pending'[k] \in Event
    <3>1. nevents' = nevents - 1 /\ nevents \in Nat /\ nevents > 0
      BY <1>2, TakeShifts DEF RingTypeOK
    <3>2. k \in 1 .. nevents - 1 /\ k + 1 \in 1 .. nevents
      BY <3>1
    <3>. QED BY <1>2, <3>2, TakeShifts DEF NoClearedEventPending
  <2>. QED BY <2>1 DEF NoClearedEventPending
<1>3. CASE UNCHANGED ringVars
  BY <1>3 DEF ringVars, NoClearedEventPending, Pending
<1>. QED BY <1>1, <1>2, <1>3 DEF RingNext, Post

(* No event that was posted is ever cleared before it is taken: do_event   *)
(* never dereferences the empty slots that the growth leaves behind.       *)
THEOREM NoClearedEvent == RingSpec => []NoClearedEventPending
<1>1. RingInit => NoClearedEventPending
  BY DEF RingInit, NoClearedEventPending
<1>2. RingTypeOK /\ RingTypeOK' /\ NoClearedEventPending /\ [RingNext]_ringVars
        => NoClearedEventPending'
  BY NoClearedStep
<1>. QED BY <1>1, <1>2, RingTypeCorrect, PTL DEF RingSpec

----------------------------------------------------------------------------
(* A post is a post of the abstract queue.                                 *)
LEMMA PostImplements ==
  ASSUME RingTypeOK, RingTypeOK', NoClearedEventPending, NoClearedEventPending',
         NEW e \in Event, PostInPlace(e) \/ PostGrowing(e)
  PROVE  Fifo!Post(e)
<1>1. /\ nevents \in Nat
      /\ nevents' = nevents + 1
      /\ Pending'[nevents + 1] = e
      /\ \A k \in 1 .. nevents : Pending'[k] = Pending[k]
  BY PostAppends DEF RingTypeOK
<1>2. Pending \in Seq(Event) /\ Len(Pending) = nevents
  BY PendingIsSeq
<1>3. Pending' \in Seq(Event) /\ Len(Pending') = nevents + 1
  BY <1>1, PendingIsSeqNext
<1>4. /\ Append(Pending, e) \in Seq(Event)
      /\ Len(Append(Pending, e)) = nevents + 1
      /\ \A k \in 1 .. nevents : Append(Pending, e)[k] = Pending[k]
      /\ Append(Pending, e)[nevents + 1] = e
  BY <1>2, AppendProperties
<1>5. \A k \in 1 .. nevents + 1 : Pending'[k] = Append(Pending, e)[k]
  <2>1. \A k \in 1 .. nevents + 1 : k \in 1 .. nevents \/ k = nevents + 1
    BY <1>1
  <2>. QED BY <1>1, <1>4, <2>1
<1>6. Pending' = Append(Pending, e)
  BY <1>3, <1>4, <1>5, SeqEqual
<1>. QED BY <1>6 DEF Fifo!Post

(* Taking the oldest entry of the ring takes the head of the queue.        *)
LEMMA TakeImplements ==
  ASSUME RingTypeOK, RingTypeOK', NoClearedEventPending, NoClearedEventPending', Take
  PROVE  Fifo!Take
<1>1. /\ nevents \in Nat /\ nevents > 0
      /\ nevents' = nevents - 1
      /\ \A k \in 1 .. nevents - 1 : Pending'[k] = Pending[k + 1]
  BY TakeShifts DEF RingTypeOK
<1>2. Pending \in Seq(Event) /\ Len(Pending) = nevents
  BY PendingIsSeq
<1>3. Pending # << >>
  BY <1>1, <1>2
<1>4. Pending' \in Seq(Event) /\ Len(Pending') = nevents - 1
  BY <1>1, PendingIsSeqNext
<1>5. /\ Tail(Pending) \in Seq(Event)
      /\ Len(Tail(Pending)) = nevents - 1
      /\ \A k \in 1 .. nevents - 1 : Tail(Pending)[k] = Pending[k + 1]
  BY <1>2, <1>3, HeadTailProperties
<1>6. Pending' = Tail(Pending)
  BY <1>1, <1>4, <1>5, SeqEqual
<1>. QED BY <1>3, <1>6 DEF Fifo!Take

(* The ring implements the abstract queue: what leaves it left in the      *)
(* order it came, whatever the number of growths and the position of the   *)
(* ring at each of them.                                                   *)
THEOREM RingImplementsFifo == RingSpec => RingIsFifo
<1>1. RingInit => Fifo!Init
  <2>1. ASSUME RingInit PROVE Pending = << >>
    BY <2>1 DEF RingInit, Pending
  <2>. QED BY <2>1 DEF Fifo!Init
<1>2. RingTypeOK /\ RingTypeOK' /\ NoClearedEventPending /\ NoClearedEventPending'
        /\ [RingNext]_ringVars => [Fifo!Next]_Pending
  <2>. SUFFICES ASSUME RingTypeOK, RingTypeOK', NoClearedEventPending,
                       NoClearedEventPending', [RingNext]_ringVars
                PROVE  [Fifo!Next]_Pending
    OBVIOUS
  <2>1. ASSUME NEW e \in Event, Post(e) PROVE Fifo!Next
    BY <2>1, PostImplements DEF Post, Fifo!Next
  <2>2. CASE Take
    BY <2>2, TakeImplements DEF Fifo!Next
  <2>3. CASE UNCHANGED ringVars
    BY <2>3 DEF ringVars, Pending
  <2>. QED BY <2>1, <2>2, <2>3 DEF RingNext
<1>. QED BY <1>1, <1>2, RingTypeCorrect, NoClearedEvent, PTL
         DEF RingSpec, RingIsFifo, Fifo!Spec
=============================================================================
