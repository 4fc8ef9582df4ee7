--------------------------- MODULE GroupMessages ---------------------------
(***************************************************************************)
(* Group communication between devices.  A device whose datapoint changes  *)
(* sends a write to the first group address of its group objects; one that *)
(* receives a message on /k looks for the group objects with its group     *)
(* address, and by their flags stores the value, passes it on or answers   *)
(* with its own.  After a restart the objects with the init flag are read. *)
(*                                                                         *)
(* Each message goes out once per multicast scope.  Every member of the    *)
(* multicast group gets it, the sender too; messages on the way to a       *)
(* device arrive in the order they were sent, or are lost.                 *)
(***************************************************************************)
EXTENDS Integers, SequencesExt, FiniteSetsExt

CONSTANTS Device,
          Objects,        \* per device, its Group Object Table: rows with an
                          \* href, a sequence ga of group addresses and flags
          PublisherRows,  \* per device, its Publisher Table: rows [grpid, ga]
          RecipientRows,  \* per device, the rows of its Recipient Table that
                          \* have a grpid and no individual address
          NumPublishers,  \* oc_core_get_publisher_table_size()
          Running,        \* devices that are in run time
          IgnoreSelf,     \* g_ignore_smessage_from_self
          NumScopes,      \* multicast scopes in use: 5, or 2 and 5
          Source,         \* datapoints <<device, href>> the application changes
          Restarting,     \* devices that restart
          MaxValue, MaxRestarts, MaxLost, MaxInbox  \* bounds of the model

ASSUME GroupAssumption ==
  /\ Running \subseteq Device /\ Restarting \subseteq Device
  /\ IgnoreSelf \in BOOLEAN /\ NumScopes \in {1, 2}
  /\ MaxValue \in Nat /\ MaxRestarts \in Nat /\ MaxLost \in Nat /\ MaxInbox \in Nat

\* The rows of the tables.
ObjectRow == [href : STRING, ga : Seq(Nat), flags : SUBSET {"w", "u", "r", "t", "i"}]
TableRow == [grpid : Nat, ga : SUBSET Nat]

ASSUME TablesAssumption ==
  /\ Objects \in [Device -> Seq(ObjectRow)]
  /\ PublisherRows \in [Device -> Seq(TableRow)]
  /\ RecipientRows \in [Device -> Seq(TableRow)]
  /\ NumPublishers \in Nat

VARIABLES
  value,    \* per device, the values of its datapoints
  inbox,    \* per device, the messages on their way to it
  written,  \* the value the application wrote last
  restarts, \* restarts so far
  lost      \* messages lost so far

vars == <<value, inbox, written, restarts, lost>>

Hrefs(d) == {row.href : row \in Range(Objects[d])}
Addresses == UNION {Range(row.ga) : row \in UNION {Range(Objects[d]) : d \in Device}}
Groups == Addresses \cup {row.grpid : row \in
            UNION {Range(PublisherRows[d]) \cup Range(RecipientRows[d]) : d \in Device}}

Message == [st : {"w", "a", "r"}, ga : Addresses, group : Groups,
            value : 0 .. MaxValue, from : Device]

TypeOK ==
  /\ DOMAIN value = Device
  /\ \A d \in Device : value[d] \in [Hrefs(d) -> 0 .. MaxValue]
  /\ inbox \in [Device -> Seq(Message)]
  /\ \A d \in Device : Len(inbox[d]) <= MaxInbox
  /\ written \in 0 .. MaxValue
  /\ restarts \in 0 .. MaxRestarts /\ lost \in 0 .. MaxLost

-----------------------------------------------------------------------------
(* The tables.                                                             *)

\* oc_find_grpid_in_table: of the first row with the address, 0 for none.
GrpidOf(rows, ga) ==
  LET found == SelectInSeq(rows, LAMBDA row : ga \in row.ga)
  IN  IF found = 0 THEN 0 ELSE rows[found].grpid

\* The multicast group of an address: of its table row, or the address.
GroupOf(rows, ga) == IF GrpidOf(rows, ga) > 0 THEN GrpidOf(rows, ga) ELSE ga

ReceivingFlags == {"w", "u", "r"}

\* oc_register_group_multicasts: with a Publisher Table the groups of its
\* rows, for as many group objects as it has rows; without it the addresses.
Joined ==
  [d \in Device |->
     LET receiving(n) == {i \in 1 .. n : Objects[d][i].flags \cap ReceivingFlags # {}}
         addresses(n) == UNION {Range(Objects[d][i].ga) : i \in receiving(n)}
         size == Len(Objects[d])
     IN  IF \E i \in DOMAIN PublisherRows[d] : PublisherRows[d][i].grpid > 0
         THEN {GrpidOf(PublisherRows[d], ga) :
                 ga \in addresses(Min({size, NumPublishers}))} \ {0}
         ELSE addresses(size)]

\* Mutant: only the first group object of an address is found.
FirstWith(d, ga) ==
  LET found == {i \in DOMAIN Objects[d] : ga \in Range(Objects[d][i].ga)}
  IN  {i \in found : \A j \in found : i <= j}

\* oc_core_find_group_object_table_index and its successors: the rows of the
\* table that have the address.
RowsWith(d, ga) == {i \in DOMAIN Objects[d] : ga \in Range(Objects[d][i].ga)}

\* The entries of a list at the positions to keep, in their order.
Kept(list, keep) ==
  LET kept[n \in 0 .. Len(list)] ==
        IF n = 0 THEN <<>>
        ELSE IF n \in keep THEN Append(kept[n - 1], list[n]) ELSE kept[n - 1]
  IN  kept[Len(list)]

-----------------------------------------------------------------------------
(* Sending.                                                                *)

\* oc_issue_s_mode
SMessage(d, st, ga, group, val) ==
  [st |-> st, ga |-> ga, group |-> group, value |-> val, from |-> d]

Sends(row, check) == ~check \/ "t" \in row.flags

\* oc_do_s_mode_with_scope_and_check for one scope: each row of the datapoint
\* that may send does so, to its first address.
SMode(d, href, st, check, val) ==
  LET may(row) == row.href = href /\ row.ga # <<>> /\ Sends(row, check)
      rows == Kept(Objects[d], {i \in DOMAIN Objects[d] : may(Objects[d][i])})
  IN  [i \in DOMAIN rows |->
         SMessage(d, st, Head(rows[i].ga),
                  GroupOf(RecipientRows[d], Head(rows[i].ga)), val)]

\* The calls for scope 2, where it is used, and scope 5.
EachScope(messages) == IF NumScopes = 1 THEN messages ELSE messages \o messages

SModes(d, href, st, check, val) ==
  IF d \in Running THEN EachScope(SMode(d, href, st, check, val)) ELSE <<>>

\* oc_do_s_mode_read, which asks neither for run time nor for flags.
ReadModes(d, ga) ==
  EachScope(<<SMessage(d, "r", ga, GroupOf(PublisherRows[d], ga), 0)>>)

\* The messages each device gets of those that were sent, in order; MaxInbox
\* bounds what can be under way to one device.
Arriving(d, messages) ==
  Kept(messages, {i \in DOMAIN messages : messages[i].group \in Joined[d]})

Transmit(boxes, messages) ==
  \E after \in {[d \in Device |-> boxes[d] \o Arriving(d, messages)]} :
    /\ \A d \in Device : Len(after[d]) <= MaxInbox
    /\ inbox' = after

-----------------------------------------------------------------------------
(* Receiving.                                                              *)

\* Mutant: the transmission flag is not asked for.
PassOnAlways(d, row, new) == SModes(d, row.href, "w", FALSE, new)

\* A row with the transmission flag announces its datapoint, in every row
\* of the datapoint that has the flag.
PassOn(d, row, new) ==
  IF "t" \in row.flags THEN SModes(d, row.href, "w", TRUE, new) ELSE <<>>

Overwrites(row, st) ==
  (st = "w" /\ "w" \in row.flags) \/ (st = "a" /\ "u" \in row.flags)

Answers(row, st) == st = "r" /\ "r" \in row.flags

\* Mutant: the value of the request is sent back.
AnswerOfRequest(d, row, m, val) == SModes(d, row.href, "a", FALSE, m.value)

Answer(d, row, m, val) == SModes(d, row.href, "a", FALSE, val)

\* What oc_core_knx_k_post_handler does for one row: s has the values of the
\* device and the messages sent so far.
HandleRow(d, m, s, i) ==
  LET row == Objects[d][i]
      old == s.values[row.href]
  IN  IF Overwrites(row, m.st)
      THEN [values |-> [s.values EXCEPT ![row.href] = m.value],
            sent   |-> s.sent \o PassOn(d, row, m.value)]
      ELSE IF Answers(row, m.st)
      THEN [s EXCEPT !.sent = @ \o Answer(d, row, m, old)]
      ELSE s

Ignores(d, from) == (IgnoreSelf /\ from = d) \/ d \notin Running

Handled(d, m) ==
  LET rows == IF Ignores(d, m.from) THEN {} ELSE RowsWith(d, m.ga)
      handled[n \in 0 .. Len(Objects[d])] ==
        IF n = 0 THEN [values |-> value[d], sent |-> <<>>]
        ELSE IF n \in rows THEN HandleRow(d, m, handled[n - 1], n)
        ELSE handled[n - 1]
  IN  handled[Len(Objects[d])]

Receive(d) ==
  /\ inbox[d] # <<>>
  /\ \E s \in {Handled(d, Head(inbox[d]))} :
       /\ value' = [value EXCEPT ![d] = s.values]
       /\ Transmit([inbox EXCEPT ![d] = Tail(@)], s.sent)
  /\ UNCHANGED <<written, restarts, lost>>

\* The network loses a message.
Lose(d) ==
  /\ inbox[d] # <<>> /\ lost < MaxLost
  /\ inbox' = [inbox EXCEPT ![d] = Tail(@)]
  /\ lost' = lost + 1
  /\ UNCHANGED <<value, written, restarts>>

-----------------------------------------------------------------------------
(* The device itself.                                                      *)

\* The application changes a datapoint and announces it.
Write(d, href) ==
  /\ <<d, href>> \in Source /\ written < MaxValue
  /\ written' = written + 1
  /\ value' = [value EXCEPT ![d][href] = written + 1]
  /\ Transmit(inbox, SModes(d, href, "w", TRUE, written + 1))
  /\ UNCHANGED <<restarts, lost>>

\* oc_init_datapoints_at_initialization
InitReads(d) ==
  LET row(n) == Objects[d][n]
      reads[n \in 0 .. Len(Objects[d])] ==
        IF n = 0 THEN <<>>
        ELSE IF row(n).ga # <<>> /\ "i" \in row(n).flags
        THEN reads[n - 1] \o ReadModes(d, Head(row(n).ga))
        ELSE reads[n - 1]
  IN  reads[Len(Objects[d])]

\* oc_main_init after a power loss: what was on its way is missed.
Restart(d) ==
  /\ d \in Restarting /\ restarts < MaxRestarts
  /\ restarts' = restarts + 1
  /\ value' = [value EXCEPT ![d] = [href \in Hrefs(d) |-> 0]]
  /\ Transmit([inbox EXCEPT ![d] = <<>>], InitReads(d))
  /\ UNCHANGED <<written, lost>>

-----------------------------------------------------------------------------
Init ==
  /\ value = [d \in Device |-> [href \in Hrefs(d) |-> 0]]
  /\ inbox = [d \in Device |-> <<>>]
  /\ written = 0 /\ restarts = 0 /\ lost = 0

Next ==
  \E d \in Device :
    \/ Receive(d) \/ Lose(d) \/ Restart(d)
    \/ \E href \in Hrefs(d) : Write(d, href)

Fairness == WF_vars(\E d \in Device : Receive(d))

Spec == Init /\ [][Next]_vars
FairSpec == Spec /\ Fairness

-----------------------------------------------------------------------------
Silent == \A d \in Device : inbox[d] = <<>>

\* An object that follows another: it can be written by the messages the
\* other sends to its first address.
Follows(d, row, e, other) ==
  /\ "t" \in other.flags /\ other.ga # <<>> /\ Head(other.ga) \in Range(row.ga)
  /\ "w" \in row.flags
  /\ {d, e} \subseteq Running /\ d # e
  /\ GroupOf(RecipientRows[e], Head(other.ga)) \in Joined[d]

-----------------------------------------------------------------------------
(* What the agreement of the devices asks of their tables: no management   *)
(* client is told of it, and the code does not check it.                   *)

\* A datapoint of e that can overwrite one of d, by a write of its own or by
\* the answer to a read.
Reaches(e, g, d, h) ==
  /\ e \in Running /\ ~Ignores(d, e)
  /\ \E row \in Range(Objects[e]), own \in Range(Objects[d]), st \in {"w", "a"} :
       /\ row.href = g /\ row.ga # <<>> /\ own.href = h
       /\ Overwrites(own, st) /\ Head(row.ga) \in Range(own.ga)
       /\ st = "w" => "t" \in row.flags
       /\ st = "a" => \E r \in Range(Objects[e]) : r.href = g /\ "r" \in r.flags
       /\ GroupOf(RecipientRows[e], Head(row.ga)) \in Joined[d]

\* A datapoint is overwritten by one other at most.
OneLeader ==
  \A d \in Device : \A h \in Hrefs(d) :
    \A e, f \in Device : \A g \in Hrefs(e), k \in Hrefs(f) :
      Reaches(e, g, d, h) /\ Reaches(f, k, d, h) => e = f /\ g = k

\* What the application changes is overwritten by none.
SourcesLead ==
  \A d, e \in Device : \A h \in Hrefs(d), g \in Hrefs(e) :
    <<d, h>> \in Source => ~Reaches(e, g, d, h)

\* A device that forgets its values overwrites none.
LeadersStay ==
  \A d, e \in Device : \A h \in Hrefs(d), g \in Hrefs(e) :
    Reaches(e, g, d, h) => e \notin Restarting

\* Where a datapoint that is followed is overwritten, it is announced.
PassedOn ==
  \A d, e \in Device : \A row \in Range(Objects[d]), other, own \in Range(Objects[e]) :
    Follows(d, row, e, other) /\ own.href = other.href /\ own.flags \cap {"w", "u"} # {} =>
      "t" \in own.flags

\* A device that restarts reads what it follows, is answered, and takes the
\* answer for its own.
ReadsBack ==
  \A d, e \in Device : \A row \in Range(Objects[d]), other \in Range(Objects[e]) :
    d \in Restarting /\ Follows(d, row, e, other) =>
      /\ \E init \in Range(Objects[d]), asked \in Range(Objects[e]) :
           /\ init.ga # <<>> /\ "i" \in init.flags
           /\ GroupOf(PublisherRows[d], Head(init.ga)) \in Joined[e]
           /\ asked.href = other.href /\ "r" \in asked.flags
           /\ Head(init.ga) \in Range(asked.ga)
      /\ \E own \in Range(Objects[d]) :
           /\ own.href = row.href /\ "u" \in own.flags
           /\ Head(other.ga) \in Range(own.ga)

-----------------------------------------------------------------------------
\* Once all messages have been handled, and none was lost, every object has
\* the value of the object it follows: through any chain of devices, any order
\* in which they act, and restarts of devices that read their objects again.
FollowersAgree ==
  Silent /\ lost = 0 =>
    \A d, e \in Device : \A row \in Range(Objects[d]), other \in Range(Objects[e]) :
      Follows(d, row, e, other) => value[d][row.href] = value[e][other.href]

\* What a device shows never goes back to an older value, whatever messages
\* cross, repeat each other or answer a read; only a restart forgets.
NeverBackwards ==
  [][\A d \in Device :
       restarts' = restarts =>
         \A href \in Hrefs(d) : value'[d][href] >= value[d][href]]_vars

\* A change dies down: where no chain of objects returns to its start, the
\* devices do not keep each other sending for ever.
DiesDown == <>[]Silent
=============================================================================
