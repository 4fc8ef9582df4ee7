----------------------------- MODULE EventLoop -----------------------------
(***************************************************************************)
(* The event loop: the main thread of the Linux port (oc_main_poll, then a *)
(* wait on a condition variable), the network threads that hand it         *)
(* messages (oc_network_event), the poll flags and the event queue of      *)
(* util/oc_process.c, the event timers of util/oc_etimer.c, and the        *)
(* processes a message goes through on its way to the CoAP engine.         *)
(*                                                                         *)
(* One action of the main thread is one step another thread can observe:   *)
(* the poll flags are read and written without a lock.  The queue of       *)
(* posted events is the abstract queue that EventQueue implements.         *)
(***************************************************************************)
EXTENDS Naturals, Sequences, SequencesExt

CONSTANTS Thread,       \* the network threads
          Messages,     \* bound of the model: how many messages each receives
          Secured,      \* the messages <<thread, number>> under OSCORE
          HasTimer      \* whether a periodic timed callback is registered

ASSUME LoopAssumption ==
  /\ Messages \in [Thread -> Nat]
  /\ Secured \subseteq Thread \X Nat
  /\ HasTimer \in BOOLEAN

VARIABLES
  pc,             \* where the main thread is
  network,        \* network_events, the list under the handler mutex
  needspoll,      \* processes whose needspoll flag is set
  pollRequested,  \* poll_requested
  queue,         \* posted events, oldest first
  deadline,       \* whether oc_main_poll has a next_event other than 0
  timer,          \* the periodic timer
  threadPc,       \* where each network thread is
  received,       \* how many messages each network thread has received
  handled         \* messages the CoAP engine has seen, in that order

vars == <<pc, network, needspoll, pollRequested, queue, deadline, timer,
          threadPc, received, handled>>

Message == Thread \X (Nat \ {0})    \* <<thread, number>>

(* The processes with a poll handler.                                      *)
Process == {"network", "etimer"}

(* Posted events: a message on its way through the message buffer, the     *)
(* OSCORE layer and the CoAP engine, or the expiry of the timer.           *)
MessageEvent == [to : {"buffer", "oscore", "coap"}, message : Message]
TimerEvent == [to |-> "callbacks"]

TypeOK ==
  /\ pc \in {"poll", "run", "visitNetwork", "drain", "visitTimer", "event",
             "check", "gap", "waiting"}
  /\ network \in Seq(Message)
  /\ needspoll \subseteq Process
  /\ pollRequested \in BOOLEAN
  /\ queue \in Seq(MessageEvent \cup {TimerEvent})
  /\ deadline \in BOOLEAN
  /\ timer \in {"none", "armed", "expired", "posted"}
  /\ threadPc \in [Thread -> {"select", "add", "flag", "request", "signal"}]
  /\ received \in [Thread -> Nat]
  /\ handled \in Seq(Message)

Init ==
  /\ pc = "poll"
  /\ network = << >>
  /\ needspoll = {}
  /\ pollRequested = FALSE
  /\ queue = << >>
  /\ deadline = FALSE
  /\ timer = IF HasTimer THEN "armed" ELSE "none"
  /\ threadPc = [t \in Thread |-> "select"]
  /\ received = [t \in Thread |-> 0]
  /\ handled = << >>

----------------------------------------------------------------------------
(* oc_etimer_request_poll: poll the timer process, and tell whether a      *)
(* timer is on the list.                                                   *)
RequestPoll ==
  /\ needspoll' = needspoll \cup {"etimer"}
  /\ pollRequested' = TRUE
  /\ deadline' = (timer \in {"armed", "expired"})

(* oc_main_poll asks before its first turn...                              *)
MainPoll ==
  /\ pc = "poll"
  /\ RequestPoll
  /\ pc' = "run"
  /\ UNCHANGED <<network, queue, timer, threadPc, received, handled>>

(* ... and after every turn that left an event or a poll request.          *)
Check ==
  /\ pc = "check"
  /\ IF queue # << >> \/ pollRequested
     THEN RequestPoll /\ pc' = "run"
     ELSE pc' = "gap" /\ UNCHANGED <<needspoll, pollRequested, deadline>>
  /\ UNCHANGED <<network, queue, timer, threadPc, received, handled>>

(* oc_process_run: do_poll first clears the request, then visits the       *)
(* processes, the most recently started first.                             *)
StartTurn ==
  /\ pc = "run"
  /\ IF pollRequested
     THEN pollRequested' = FALSE /\ pc' = "visitNetwork"
     ELSE pc' = "event" /\ UNCHANGED pollRequested
  /\ UNCHANGED <<network, needspoll, queue, deadline, timer, threadPc,
                 received, handled>>

VisitNetwork ==
  /\ pc = "visitNetwork"
  /\ needspoll' = needspoll \ {"network"}
  /\ pc' = IF "network" \in needspoll THEN "drain" ELSE "visitTimer"
  /\ UNCHANGED <<network, pollRequested, queue, deadline, timer, threadPc,
                 received, handled>>

(* The events that carry the messages ms to the message buffer.            *)
Buffered(ms) == [i \in DOMAIN ms |-> [to |-> "buffer", message |-> ms[i]]]

(* Mutant: the list is taken from its end.                                 *)
DrainReversed ==
  /\ pc = "drain"
  /\ queue' = queue \o Buffered(Reverse(network))
  /\ network' = << >>
  /\ pc' = "visitTimer"
  /\ UNCHANGED <<needspoll, pollRequested, deadline, timer, threadPc, received,
                 handled>>

(* oc_process_network_event, under the handler mutex: the whole list goes  *)
(* to the message buffer.                                                  *)
Drain ==
  /\ pc = "drain"
  /\ queue' = queue \o Buffered(network)
  /\ network' = << >>
  /\ pc' = "visitTimer"
  /\ UNCHANGED <<needspoll, pollRequested, deadline, timer, threadPc, received,
                 handled>>

(* Mutant: do_poll clears the flags when its round is over.                *)
VisitTimerClearsAll ==
  /\ pc = "visitTimer"
  /\ needspoll' = {}
  /\ IF "etimer" \in needspoll /\ timer = "expired"
     THEN timer' = "posted" /\ queue' = Append(queue, TimerEvent)
     ELSE UNCHANGED <<timer, queue>>
  /\ pc' = "event"
  /\ UNCHANGED <<network, pollRequested, deadline, threadPc, received, handled>>

(* The timer process posts the expiry of every timer whose time has come.  *)
VisitTimer ==
  /\ pc = "visitTimer"
  /\ needspoll' = needspoll \ {"etimer"}
  /\ IF "etimer" \in needspoll /\ timer = "expired"
     THEN timer' = "posted" /\ queue' = Append(queue, TimerEvent)
     ELSE UNCHANGED <<timer, queue>>
  /\ pc' = "event"
  /\ UNCHANGED <<network, pollRequested, deadline, threadPc, received, handled>>

----------------------------------------------------------------------------
(* do_event delivers at most one event.                                    *)
NoEvent ==
  /\ pc = "event" /\ queue = << >>
  /\ pc' = "check"
  /\ UNCHANGED <<network, needspoll, pollRequested, queue, deadline, timer,
                 threadPc, received, handled>>

(* Mutant: the next process is the one the message came from.              *)
NextHopBack(e) ==
  [e EXCEPT !.to = IF e.to = "buffer" /\ e.message \in Secured
                   THEN "oscore" ELSE "network"]

(* The message buffer passes a message on: to OSCORE when it is secured,   *)
(* to the CoAP engine otherwise.  OSCORE passes it to the CoAP engine.     *)
NextHop(e) ==
  [e EXCEPT !.to = IF e.to = "buffer" /\ e.message \in Secured
                   THEN "oscore" ELSE "coap"]

DeliverMessage ==
  /\ pc = "event" /\ queue # << >>
  /\ LET e == Head(queue)
     IN  /\ e # TimerEvent
         /\ IF e.to = "coap"
            THEN /\ handled' = Append(handled, e.message)
                 /\ queue' = Tail(queue)
            ELSE /\ queue' = Append(Tail(queue), NextHop(e))
                 /\ UNCHANGED handled
  /\ pc' = "check"
  /\ UNCHANGED <<network, needspoll, pollRequested, deadline, timer, threadPc,
                 received>>

(* Mutant: the timer is put back on the list without a poll request.       *)
DeliverTimerQuietly ==
  /\ pc = "event" /\ queue # << >> /\ Head(queue) = TimerEvent
  /\ queue' = Tail(queue)
  /\ timer' = "armed"
  /\ pc' = "check"
  /\ UNCHANGED <<network, needspoll, pollRequested, deadline, threadPc,
                 received, handled>>

(* timed_callback_events runs the callback and restarts its timer:         *)
(* add_timer asks for a poll, so that oc_main_poll looks again.            *)
DeliverTimer ==
  /\ pc = "event" /\ queue # << >> /\ Head(queue) = TimerEvent
  /\ queue' = Tail(queue)
  /\ timer' = "armed"
  /\ needspoll' = needspoll \cup {"etimer"}
  /\ pollRequested' = TRUE
  /\ pc' = "check"
  /\ UNCHANGED <<network, deadline, threadPc, received, handled>>

----------------------------------------------------------------------------
(* The application's loop: lock the mutex and wait on the condition        *)
(* variable, until the deadline when there is one.  The mutex is taken     *)
(* only here, after oc_main_poll has returned.                             *)
Wait ==
  /\ pc = "gap"
  /\ pc' = "waiting"
  /\ UNCHANGED <<network, needspoll, pollRequested, queue, deadline, timer,
                 threadPc, received, handled>>

(* pthread_cond_timedwait gives up when the deadline has passed.           *)
Timeout ==
  /\ pc = "waiting" /\ deadline /\ timer = "expired"
  /\ pc' = "poll"
  /\ UNCHANGED <<network, needspoll, pollRequested, queue, deadline, timer,
                 threadPc, received, handled>>

(* The condition variable may wake its waiter without a signal.            *)
SpuriousWakeup ==
  /\ pc = "waiting"
  /\ pc' = "poll"
  /\ UNCHANGED <<network, needspoll, pollRequested, queue, deadline, timer,
                 threadPc, received, handled>>

(* The clock reaches the timer's expiry.                                   *)
TimePasses ==
  /\ timer = "armed"
  /\ timer' = "expired"
  /\ UNCHANGED <<pc, network, needspoll, pollRequested, queue, deadline,
                 threadPc, received, handled>>

----------------------------------------------------------------------------
(* A network thread reads a message from its socket and calls              *)
(* oc_network_event: the list first, under the mutex, then the two flags,  *)
(* then the signal.                                                        *)
At(t, from, to) == threadPc[t] = from /\ threadPc' = [threadPc EXCEPT ![t] = to]

Receive(t) ==
  /\ At(t, "select", "add")
  /\ received[t] < Messages[t]
  /\ received' = [received EXCEPT ![t] = @ + 1]
  /\ UNCHANGED <<pc, network, needspoll, pollRequested, queue, deadline,
                 timer, handled>>

Add(t) ==
  /\ At(t, "add", "flag")
  /\ network' = Append(network, <<t, received[t]>>)
  /\ UNCHANGED <<pc, needspoll, pollRequested, queue, deadline, timer,
                 received, handled>>

SetNeedsPoll(t) ==
  /\ At(t, "flag", "request")
  /\ needspoll' = needspoll \cup {"network"}
  /\ UNCHANGED <<pc, network, pollRequested, queue, deadline, timer, received,
                 handled>>

SetPollRequested(t) ==
  /\ At(t, "request", "signal")
  /\ pollRequested' = TRUE
  /\ UNCHANGED <<pc, network, needspoll, queue, deadline, timer, received,
                 handled>>

(* signal_event_loop: wakes the main thread only if it already waits.      *)
Signal(t) ==
  /\ At(t, "signal", "select")
  /\ pc' = IF pc = "waiting" THEN "poll" ELSE pc
  /\ UNCHANGED <<network, needspoll, pollRequested, queue, deadline, timer,
                 received, handled>>

----------------------------------------------------------------------------
MainStep ==
  \/ MainPoll \/ Check \/ StartTurn \/ VisitNetwork \/ Drain \/ VisitTimer
  \/ NoEvent \/ DeliverMessage \/ DeliverTimer \/ Wait

Announce(t) == Add(t) \/ SetNeedsPoll(t) \/ SetPollRequested(t) \/ Signal(t)

Next ==
  \/ MainStep
  \/ Timeout
  \/ SpuriousWakeup
  \/ TimePasses
  \/ \E t \in Thread : Receive(t) \/ Announce(t)

Spec == Init /\ [][Next]_vars

(* Threads run, the clock runs, and a timed wait ends; nothing promises a  *)
(* message or a spurious wakeup.                                           *)
Fairness ==
  /\ WF_vars(MainStep)
  /\ WF_vars(Timeout)
  /\ WF_vars(TimePasses)
  /\ \A t \in Thread : WF_vars(Announce(t))

FairSpec == Spec /\ Fairness

----------------------------------------------------------------------------
(* A message on the list is never forgotten by the poll flags, whatever    *)
(* the interleaving of the unlocked stores: its poll is flagged, or the    *)
(* handler is about to drain, or its thread has yet to set the flag; and a *)
(* flagged process is requested, or in the round of visits, or its thread  *)
(* has yet to request it.                                                  *)
NoLostPoll ==
  /\ network # << >> =>
       \/ "network" \in needspoll
       \/ pc = "drain"
       \/ \E t \in Thread : threadPc[t] = "flag"
  /\ "network" \in needspoll =>
       \/ pollRequested
       \/ pc = "visitNetwork"
       \/ \E t \in Thread : threadPc[t] = "request"

(* The main thread goes to sleep only when no event is left, and, where    *)
(* there is a timer, only until the timer's expiry: the wake-up that a     *)
(* signal may miss between the last look and the wait (gap) is made good   *)
(* by then, although the deadline was read before the last events.         *)
SleepEnds ==
  pc \in {"gap", "waiting"} => queue = << >> /\ (timer # "none" => deadline)

(* Whatever the threads, the timer and the flags do, the engine gets the   *)
(* messages of one thread and one kind each once, in the order of their    *)
(* reception, and none before all earlier ones.  (A secured message makes  *)
(* one more hop than a plain one, which may overtake it.)                  *)
Mail == INSTANCE Mailbox
LoopIsMailbox == Mail!Spec

(* Every message a network thread reads is eventually handled.             *)
EveryMessageHandled ==
  \A t \in Thread : \A n \in 1 .. Messages[t] :
    received[t] = n ~> <<t, n>> \in Range(handled)

(* An expired timer's callback eventually runs and the timer is rearmed.   *)
TimerServed == timer = "expired" ~> timer = "armed"
============================================================================
