----------------------------- MODULE EventQueue ----------------------------
(***************************************************************************)
(* The event queue of util/oc_process.c in the dynamic-allocation build: a *)
(* ring of OC_PROCESS_NUMEVENTS slots, its oldest entry at `fevent', with  *)
(* `nevents' entries in use.  A post to a full ring doubles the ring and   *)
(* moves the entries that had not wrapped to the end of the new array, so  *)
(* that the wrapped ones keep their slots.                                 *)
(***************************************************************************)
EXTENDS Naturals, Sequences

CONSTANTS Event,         \* what is posted: identifier, datum and receiver
          Cleared,       \* the content of a slot cleared by calloc or memset
          InitialSize,   \* OC_PROCESS_NUMEVENTS at start (10 in the code)
          MaxEvents      \* bound of the model: no post beyond this many pending

ASSUME QueueAssumption ==
  /\ Cleared \notin Event
  /\ InitialSize \in Nat \ {0}
  /\ MaxEvents \in Nat

VARIABLES size,      \* OC_PROCESS_NUMEVENTS
          events,    \* the array of slots
          nevents,   \* slots in use
          fevent     \* the slot of the oldest event

ringVars == <<size, events, nevents, fevent>>

Slots(n) == 0 .. n - 1

(* The slot of position i of a ring of n slots.                            *)
Wrap(i, n) == i % n

RingTypeOK ==
  /\ size \in Nat \ {0}
  /\ events \in [Slots(size) -> Event \cup {Cleared}]
  /\ nevents \in 0 .. size
  /\ fevent \in Slots(size)

----------------------------------------------------------------------------
(* oc_process_init: a zeroed array.                                        *)
RingInit ==
  /\ size = InitialSize
  /\ events = [i \in Slots(InitialSize) |-> Cleared]
  /\ nevents = 0
  /\ fevent = 0

(* Mutant: the growth leaves the entries where they are, as a plain        *)
(* realloc would, and fevent with them.                                    *)
GrownInPlace ==
  [i \in Slots(2 * size) |-> IF i < size THEN events[i] ELSE Cleared]

(* The array after the growth of a full ring: slots below fevent keep      *)
(* their (wrapped) entries, the other entries move to the end, and every   *)
(* slot between is cleared.                                                *)
Grown ==
  LET shift == size    \* NEW - (nevents - fevent) - fevent, the ring being full
  IN  [i \in Slots(2 * size) |->
         CASE i < fevent         -> events[i]
           [] i >= fevent + shift -> events[i - shift]
           [] OTHER              -> Cleared]

(* oc_process_post on a ring with room: the entry goes behind the last.    *)
PostInPlace(e) ==
  /\ nevents < size
  /\ events' = [events EXCEPT ![Wrap(fevent + nevents, size)] = e]
  /\ nevents' = nevents + 1
  /\ UNCHANGED <<size, fevent>>

(* Mutant: the slot of a new entry forgets that the ring starts at fevent. *)
PostAtCount(e) ==
  /\ nevents < size
  /\ events' = [events EXCEPT ![nevents] = e]
  /\ nevents' = nevents + 1
  /\ UNCHANGED <<size, fevent>>

(* oc_process_post on a full ring: grow, then store behind the last.       *)
PostGrowing(e) ==
  /\ nevents = size
  /\ size' = 2 * size
  /\ fevent' = size + fevent
  /\ events' = [Grown EXCEPT ![Wrap(fevent' + nevents, size')] = e]
  /\ nevents' = nevents + 1

Post(e) == nevents < MaxEvents /\ (PostInPlace(e) \/ PostGrowing(e))

(* Mutant: the read position runs past the end of the array.               *)
TakeNoWrap ==
  /\ nevents > 0
  /\ fevent' = fevent + 1
  /\ nevents' = nevents - 1
  /\ UNCHANGED <<size, events>>

(* The head of do_event: take the oldest entry, before it is delivered.    *)
Take ==
  /\ nevents > 0
  /\ fevent' = Wrap(fevent + 1, size)
  /\ nevents' = nevents - 1
  /\ UNCHANGED <<size, events>>

RingNext == (\E e \in Event : Post(e)) \/ Take

RingSpec == RingInit /\ [][RingNext]_ringVars

----------------------------------------------------------------------------
(* The pending events, oldest first.                                       *)
Pending == [k \in 1 .. nevents |-> events[Wrap(fevent + k - 1, size)]]

(* Every slot in use holds an event: do_event dereferences what it takes,  *)
(* so the memset of the growth must never clear an entry that is pending.  *)
NoClearedEventPending == \A k \in 1 .. nevents : Pending[k] \in Event

Fifo == INSTANCE EventFifo WITH queue <- Pending

(* The ring implements the first-in first-out queue: through every growth, *)
(* from every position of the ring, no event is lost, repeated or          *)
(* overtaken.                                                              *)
RingIsFifo == Fifo!Spec
============================================================================
