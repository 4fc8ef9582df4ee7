----------------------------- MODULE KnxDevice -----------------------------
(***************************************************************************)
(* The configuration of a KNX IoT device: the load state machine (/a/lsm), *)
(* the Group Object Table (/fp/g) and the Publisher Table (/fp/p), the     *)
(* addresses, the fingerprint and the programming mode, each in memory and *)
(* in persistent storage, with the reset and the power loss that take them *)
(* apart.  subs are the multicast groups the device listens to.            *)
(*                                                                         *)
(* A CBOR map of a request is a record whose domain is the set of the keys *)
(* present.  A payload is a sequence of such maps.                         *)
(***************************************************************************)
EXTENDS Integers, Sequences

CONSTANTS GotMax,        \* GOT_MAX_ENTRIES (20)
          GptMax,        \* GPT_MAX_ENTRIES (20)
          GroupPosts,    \* the payloads clients POST to /fp/g
          PublisherPosts,\* the payloads clients POST to /fp/p
          Ids,           \* the ids in both
          Iids,          \* the installation ids clients set
          MaxFingerprint,\* bound of the model: the fingerprint
          MaxResets      \* bound of the model: delayed resets pending at once

ASSUME DeviceAssumption ==
  /\ GotMax \in Nat \ {0} /\ GptMax \in Nat \ {0}
  /\ MaxFingerprint \in Nat /\ MaxResets \in Nat \ {0}
  /\ Ids \subseteq Nat /\ Iids \subseteq Nat \ {0}

MapsOf(posts) == UNION {{payload[i] : i \in DOMAIN payload} : payload \in posts}
GroupAddresses ==
  UNION {o.ga : o \in {x \in MapsOf(GroupPosts) \cup MapsOf(PublisherPosts) :
                        "ga" \in DOMAIN x}}
Grpids == {o.grpid : o \in {x \in MapsOf(PublisherPosts) :
                              "grpid" \in DOMAIN x}}
Flags == {"r", "w", "i", "t", "u"}

\* Each map has some of the keys of a row, with values of their types.
ASSUME PostsAssumption ==
  /\ GroupPosts \subseteq Seq(MapsOf(GroupPosts))
  /\ PublisherPosts \subseteq Seq(MapsOf(PublisherPosts))
  /\ Grpids \subseteq Nat
  /\ \A o \in MapsOf(GroupPosts) \cup MapsOf(PublisherPosts) :
       "id" \in DOMAIN o => o.id \in Ids
  /\ \A o \in MapsOf(PublisherPosts) : DOMAIN o \subseteq {"id", "ga", "grpid"}
  /\ \A o \in MapsOf(GroupPosts) :
       /\ DOMAIN o \subseteq {"id", "href", "ga", "cflags"}
       /\ "href" \in DOMAIN o => o.href \in {"ours", "foreign"}
       /\ "cflags" \in DOMAIN o => o.cflags \subseteq Flags

VARIABLES
  lsm,          \* device->lsm_s
  got,          \* g_got
  gpt,          \* g_gpt
  fingerprint,  \* g_fingerprint
  ia,           \* device->ia
  iid,          \* device->iid
  pm,           \* device->pm
  disk,         \* persistent storage: a record of the seven above
  subs,         \* <<group, iid>> of the multicast addresses subscribed to
  resets,       \* delayed_reset callbacks pending
  cached,       \* cached_value: the reset they will all perform
  acked,        \* history: the ids whose last request was not refused
  refused,      \* history: the last POST of ia and iid was refused
  torn,         \* history: power failed within a factory reset
  lost,         \* history: the ids whose stored row a start has left out
  factory       \* history: no request came since a factory reset

tables == <<got, gpt, fingerprint>>
config == <<lsm, got, gpt, fingerprint, ia, iid, pm, disk>>
delayed == <<resets, cached>>
history == <<acked, refused, torn, lost, factory>>
vars == <<config, subs, delayed, history>>

\* A record, with the values of a map for the keys the map has.
Merged(o, record) ==
  [k \in DOMAIN record |-> IF k \in DOMAIN o THEN o[k] ELSE record[k]]

NoId == -1
NoGroupObject == [id |-> NoId, href |-> "", ga |-> {}, cflags |-> {}]
NoPublisher == [id |-> NoId, ga |-> {}, grpid |-> 0]
EmptyGot == [s \in 1 .. GotMax |-> NoGroupObject]
EmptyGpt == [s \in 1 .. GptMax |-> NoPublisher]
NoIa == 65535
ResetValues == {2, 3, 7}

Init ==
  /\ lsm = "unloaded" /\ got = EmptyGot /\ gpt = EmptyGpt /\ fingerprint = 0
  /\ ia = NoIa /\ iid = 0 /\ pm = FALSE
  /\ disk = [lsm |-> lsm, got |-> got, gpt |-> gpt, fp |-> fingerprint,
             ia |-> ia, iid |-> iid, pm |-> pm]
  /\ subs = {}
  /\ resets = 0 /\ cached = 0
  /\ acked = Ids /\ lost = {}
  /\ refused = FALSE /\ torn = FALSE /\ factory = FALSE

----------------------------------------------------------------------------
(* Slots of the two tables.                                                *)

Least(S) == CHOOSE x \in S : \A y \in S : x <= y

\* oc_table_find_id_from_rep
IdOf(o) == IF "id" \in DOMAIN o THEN o.id ELSE NoId
IdsOf(payload) == {IdOf(payload[i]) : i \in DOMAIN payload} \ {NoId}

\* Mutant: a known id gets a second row.
FirstFreeSlot(table, id) ==
  LET free == {s \in DOMAIN table : table[s].id = NoId}
  IN IF id = NoId \/ free = {} THEN 0 ELSE Least(free)

\* The slot of id, else the first empty one, else 0; also 0 for no id.
SlotFor(table, id) ==
  LET used == {s \in DOMAIN table : table[s].id = id}
      free == {s \in DOMAIN table : table[s].id = NoId}
  IN CASE id = NoId -> 0
       [] id # NoId /\ used # {} -> Least(used)
       [] id # NoId /\ used = {} -> IF free = {} THEN 0 ELSE Least(free)

\* A table being changed by a request: its rows in memory and in storage, ok
\* while every row passed its checks, stop once the handler has returned.
Row(acc, s, entry) == [acc EXCEPT !.rows[s] = entry, !.saved[s] = entry]

\* oc_fp_g_check_and_save: what a row must have to be kept.
Sane(entry) == entry.ga # {} /\ entry.cflags # {} /\ entry.href = "ours"

\* Mutant: an accepted row stays in memory only.
CheckWithoutSave(acc, s, entry) ==
  IF acc.ok /\ ~Sane(entry)
    THEN [Row(acc, s, NoGroupObject) EXCEPT !.ok = FALSE]
    ELSE [acc EXCEPT !.rows[s] = entry]

\* After one row failed the checks, the rows after it are neither checked nor
\* saved: they are in memory only.
CheckAndSave(acc, s, entry) ==
  CASE ~acc.ok -> [acc EXCEPT !.rows[s] = entry]
    [] acc.ok /\ Sane(entry) -> Row(acc, s, entry)
    [] acc.ok /\ ~Sane(entry) ->
         [Row(acc, s, NoGroupObject) EXCEPT !.ok = FALSE]

\* One map of a POST to /fp/g.
PutGroupObject(acc, o) ==
  LET s == SlotFor(acc.rows, IdOf(o))
  IN CASE acc.stop -> acc
       [] ~acc.stop /\ s = 0 -> [acc EXCEPT !.stop = TRUE]
       [] OTHER ->
            LET created == acc.rows[s].id = NoId
            IN CASE DOMAIN o = {"id"} -> Row(acc, s, NoGroupObject)
                 [] DOMAIN o # {"id"} /\ created
                    /\ DOMAIN o # DOMAIN NoGroupObject ->
                      [Row(acc, s, NoGroupObject) EXCEPT !.stop = TRUE]
                 [] OTHER -> CheckAndSave(acc, s, Merged(o, acc.rows[s]))

\* One map of a POST to /fp/p: the same without the checks of the row.
PutPublisher(acc, o) ==
  LET s == SlotFor(acc.rows, IdOf(o))
  IN CASE acc.stop -> acc
       [] ~acc.stop /\ s = 0 -> [acc EXCEPT !.stop = TRUE]
       [] OTHER ->
            LET created == acc.rows[s].id = NoId
            IN CASE DOMAIN o = {"id"} -> Row(acc, s, NoPublisher)
                 [] DOMAIN o # {"id"} /\ created
                    /\ ~ {"ga", "grpid"} \subseteq DOMAIN o ->
                      [Row(acc, s, NoPublisher) EXCEPT !.stop = TRUE]
                 [] OTHER -> Row(acc, s, Merged(o, acc.rows[s]))

Opened(rows, saved) ==
  [rows |-> rows, saved |-> saved, ok |-> TRUE, stop |-> FALSE]

\* The maps of the payload from first to last.
Loaded(Put(_, _), rows, saved, payload) ==
  LET acc[i \in 0 .. Len(payload)] ==
        IF i = 0 THEN Opened(rows, saved) ELSE Put(acc[i - 1], payload[i])
  IN  acc[Len(payload)]

----------------------------------------------------------------------------
(* Groups the device listens to.                                           *)

Receives(row) == row.cflags \cap {"r", "w", "u"} # {}

\* The group addresses that the first n rows receive.
Received(g, n) ==
  UNION {g[s].ga : s \in {t \in DOMAIN g : t <= n /\ Receives(g[t])}}

\* The group id of the first publisher row with this group address, else 0.
GrpidOf(p, a) ==
  LET rows == {s \in DOMAIN p : a \in p[s].ga}
  IN IF rows = {} THEN 0 ELSE p[Least(rows)].grpid

\* The groups of the first n rows: by group id as soon as one publisher row
\* has one, and then only those; else by the group address of every row.
GroupsOf(g, p, n) ==
  IF \E s \in DOMAIN p : p[s].grpid > 0
    THEN {GrpidOf(p, a) : a \in Received(g, n)} \ {0}
    ELSE Received(g, GotMax)

\* oc_register_group_multicasts: the loop of the group ids goes through the
\* rows of the Group Object Table up to the size of the Publisher Table.
Listened(g, p) == GroupsOf(g, p, GptMax)

Groups(g, p, installation) == Listened(g, p) \X {installation}

InRuntime == ia > 0 /\ iid > 0 /\ lsm = "loaded"

\* The run-time installation that ends a request which may enter the runtime.
Install ==
  subs' = subs \cup (IF InRuntime' THEN Groups(got', gpt', iid') ELSE {})

----------------------------------------------------------------------------
(* POST /a/lsm.                                                            *)

Requested == factory' = FALSE

SetState(s) == lsm' = s /\ disk' = [disk EXCEPT !.lsm = s]

Nop ==
  /\ Requested
  /\ UNCHANGED <<config, delayed, acked, refused, torn, lost>>
  /\ Install

StartLoading ==
  /\ Requested
  /\ SetState("loading")
  /\ UNCHANGED <<tables, ia, iid, pm, delayed, acked, refused, torn, lost>>
  /\ Install

\* Mutant: completing the load does not register the groups.
LoadCompleteOnly ==
  /\ Requested
  /\ SetState("loaded")
  /\ UNCHANGED <<tables, ia, iid, pm, subs, delayed, acked, refused, torn, lost>>

LoadComplete ==
  /\ Requested
  /\ SetState("loaded")
  /\ UNCHANGED <<tables, ia, iid, pm, delayed, acked, refused, torn, lost>>
  /\ Install

\* Mutant: the load state is stored before the rows are erased.
ErasedAfterState(p, g) ==
  [disk EXCEPT
     !.gpt = [s \in 1 .. GptMax |-> IF s <= p THEN NoPublisher ELSE @[s]],
     !.got = [s \in 1 .. GotMax |-> IF s <= g THEN NoGroupObject ELSE @[s]],
     !.lsm = "unloaded"]

\* Storage after p rows of the publisher table and then g rows of the group
\* object table have been erased.
Erased(p, g) ==
  [disk EXCEPT
     !.gpt = [s \in 1 .. GptMax |-> IF s <= p THEN NoPublisher ELSE @[s]],
     !.got = [s \in 1 .. GotMax |-> IF s <= g THEN NoGroupObject ELSE @[s]]]

Unload ==
  /\ Requested
  /\ got' = EmptyGot /\ gpt' = EmptyGpt
  /\ lsm' = "unloaded"
  /\ disk' = [Erased(GptMax, GotMax) EXCEPT !.lsm = "unloaded"]
  /\ torn' = FALSE /\ lost' = {}
  /\ UNCHANGED <<fingerprint, ia, iid, pm, delayed, acked, refused>>
  /\ Install

----------------------------------------------------------------------------
(* POST and DELETE on the tables, in the loading state only.               *)

\* A request to the tables that ends, its fingerprint included.
Touch(payload, accepted, increased) ==
  /\ Requested
  /\ acked' = IF accepted THEN acked \cup IdsOf(payload)
                          ELSE acked \ IdsOf(payload)
  /\ fingerprint' = fingerprint + (IF increased THEN 1 ELSE 0)
  /\ UNCHANGED <<lsm, ia, iid, pm, subs, delayed, refused, torn, lost>>

PostGroupObjects(payload) ==
  LET acc == Loaded(PutGroupObject, got, disk.got, payload)
      accepted == acc.ok /\ ~acc.stop
  IN /\ lsm = "loading" /\ fingerprint < MaxFingerprint
     /\ got' = acc.rows
     /\ Touch(payload, accepted, accepted)
     /\ disk' = [disk EXCEPT !.got = acc.saved, !.fp = fingerprint']
     /\ UNCHANGED gpt

DeleteGroupObject(id) ==
  LET used == {s \in DOMAIN got : got[s].id = id}
      acc == Row(Opened(got, disk.got), Least(used), NoGroupObject)
  IN /\ lsm = "loading" /\ fingerprint < MaxFingerprint
     /\ used # {}
     /\ got' = acc.rows
     /\ Touch(<<[id |-> id]>>, TRUE, TRUE)
     /\ disk' = [disk EXCEPT !.got = acc.saved, !.fp = fingerprint']
     /\ UNCHANGED gpt

PostPublishers(payload) ==
  LET acc == Loaded(PutPublisher, gpt, disk.gpt, payload)
  IN /\ lsm = "loading" /\ fingerprint < MaxFingerprint
     /\ gpt' = acc.rows
     /\ Touch(<<>>, TRUE, ~acc.stop)
     /\ disk' = [disk EXCEPT !.gpt = acc.saved, !.fp = fingerprint']
     /\ UNCHANGED got

DeletePublisher(id) ==
  LET used == {s \in DOMAIN gpt : gpt[s].id = id}
      acc == Row(Opened(gpt, disk.gpt), Least(used), NoPublisher)
  IN /\ lsm = "loading" /\ fingerprint < MaxFingerprint
     /\ used # {}
     /\ gpt' = acc.rows
     /\ Touch(<<>>, TRUE, TRUE)
     /\ disk' = [disk EXCEPT !.gpt = acc.saved, !.fp = fingerprint']
     /\ UNCHANGED got

----------------------------------------------------------------------------
(* Addresses and programming mode.                                         *)

\* POST /.well-known/knx/ia: what the payload has is taken and stored even
\* when the request is refused because the other address is missing.
PostIa(fields) ==
  /\ Requested
  /\ ia' = IF "ia" \in DOMAIN fields THEN fields.ia ELSE ia
  /\ iid' = IF "iid" \in DOMAIN fields THEN fields.iid ELSE iid
  /\ disk' = Merged(fields, disk)
  /\ refused' = ({"ia", "iid"} # DOMAIN fields)
  /\ UNCHANGED <<lsm, tables, pm, delayed, acked, torn, lost>>
  /\ IF refused' THEN UNCHANGED subs ELSE Install

\* PUT /dev/iid
PutIid(value) ==
  /\ Requested
  /\ iid' = value
  /\ disk' = [disk EXCEPT !.iid = value]
  /\ refused' = FALSE
  /\ UNCHANGED <<lsm, tables, ia, pm, delayed, acked, torn, lost>>
  /\ Install

\* PUT /dev/pm
PutPm(value) ==
  /\ Requested
  /\ pm' = value
  /\ disk' = [disk EXCEPT !.pm = value]
  /\ UNCHANGED <<lsm, tables, ia, iid, subs, delayed, acked, refused, torn, lost>>

----------------------------------------------------------------------------
(* Restart and reset: POST /.well-known/knx.                               *)

RestartDevice ==
  /\ pm' = FALSE
  /\ UNCHANGED <<lsm, tables, ia, iid, disk, subs, delayed, history>>

RequestReset(value) ==
  /\ resets < MaxResets
  /\ resets' = resets + 1
  /\ cached' = value
  /\ UNCHANGED <<config, subs, history>>

\* Mutant: the programming mode stays in storage.
AddressErasedButPm(n) ==
  [disk EXCEPT !.ia = IF n >= 1 THEN NoIa ELSE @,
               !.iid = IF n >= 2 THEN 0 ELSE @,
               !.lsm = IF n >= 4 THEN "unloaded" ELSE @]

\* Storage after the first n writes of a factory reset: the address, the
\* installation id, the programming mode and the load state.
AddressErased(n) ==
  [disk EXCEPT !.ia = IF n >= 1 THEN NoIa ELSE @,
               !.iid = IF n >= 2 THEN 0 ELSE @,
               !.pm = IF n >= 3 THEN FALSE ELSE @,
               !.lsm = IF n >= 4 THEN "unloaded" ELSE @]

FactoryReset ==
  /\ cached = 2
  /\ got' = EmptyGot /\ gpt' = EmptyGpt
  /\ lsm' = "unloaded" /\ ia' = NoIa /\ iid' = 0 /\ pm' = FALSE
  /\ disk' = [AddressErased(4) EXCEPT !.got = EmptyGot, !.gpt = EmptyGpt]
  /\ torn' = FALSE /\ lost' = {} /\ factory' = TRUE
  /\ UNCHANGED <<fingerprint, acked, refused>>

ResetIa ==
  /\ cached = 3
  /\ ia' = NoIa /\ pm' = FALSE
  /\ disk' = [disk EXCEPT !.ia = NoIa]
  /\ UNCHANGED <<lsm, tables, iid, history>>

ResetTables ==
  /\ cached = 7
  /\ got' = EmptyGot /\ gpt' = EmptyGpt
  /\ pm' = FALSE /\ lsm' = "unloaded"
  /\ disk' = [Erased(GptMax, GotMax) EXCEPT !.lsm = "unloaded"]
  /\ torn' = FALSE /\ lost' = {}
  /\ UNCHANGED <<fingerprint, ia, iid, acked, refused, factory>>

DelayedReset ==
  /\ resets > 0
  /\ resets' = resets - 1
  /\ FactoryReset \/ ResetIa \/ ResetTables
  /\ cached' = IF resets' = 0 THEN 0 ELSE cached  \* not read any more
  /\ UNCHANGED subs

----------------------------------------------------------------------------
(* Power loss, and the start from storage that follows.  A row is one file *)
(* and each write of a file is whole or not done.                          *)

\* The rows of the Group Object Table that storage gives back: the parser's
\* pool counts its used blocks in uninitialised memory, and a row for which
\* it has too few free ones is left out.
Readable(saved) ==
  {[s \in DOMAIN saved |-> IF s \in out THEN NoGroupObject ELSE saved[s]]
     : out \in SUBSET DOMAIN saved}

\* The ids of the rows left out.
LeftOut(rows, saved) ==
  {id \in Ids : \E s \in DOMAIN saved : saved[s].id = id /\ rows[s] # saved[s]}

Boot(d) ==
  /\ disk' = d
  /\ lsm' = d.lsm /\ ia' = d.ia /\ iid' = d.iid /\ pm' = d.pm
  /\ got' \in Readable(d.got) /\ gpt' = d.gpt /\ fingerprint' = d.fp
  /\ subs' = Groups(got', gpt', iid')
  /\ resets' = 0 /\ cached' = 0
  /\ acked' = Ids \ LeftOut(got', d.got) /\ refused' = FALSE
  /\ lost' = lost \cup LeftOut(got', d.got)

PowerLoss == Boot(disk) /\ UNCHANGED <<torn, factory>>

\* After the first n maps of a POST to /fp/g, before the fingerprint is stored.
\* (A row that is refused is erased, then written as an empty one: power loss
\* between the two leaves the same rows.)
PowerLossInGroupPost(payload) ==
  /\ lsm = "loading"
  /\ \E n \in 0 .. Len(payload) :
       Boot([disk EXCEPT !.got = Loaded(PutGroupObject, got, disk.got,
                                        SubSeq(payload, 1, n)).saved])
  /\ factory' = FALSE
  /\ UNCHANGED torn

\* The same of a POST to /fp/p.
PowerLossInPublisherPost(payload) ==
  /\ lsm = "loading"
  /\ \E n \in 0 .. Len(payload) :
       Boot([disk EXCEPT !.gpt = Loaded(PutPublisher, gpt, disk.gpt,
                                        SubSeq(payload, 1, n)).saved])
  /\ factory' = FALSE
  /\ UNCHANGED torn

\* After a DELETE took its row, before the fingerprint is stored.
PowerLossInDelete(id) ==
  /\ lsm = "loading"
  /\ \/ LET used == {s \in DOMAIN got : got[s].id = id}
        IN  used # {} /\ Boot([disk EXCEPT
              !.got = [@ EXCEPT ![Least(used)] = NoGroupObject]])
     \/ LET used == {s \in DOMAIN gpt : gpt[s].id = id}
        IN  used # {} /\ Boot([disk EXCEPT
              !.gpt = [@ EXCEPT ![Least(used)] = NoPublisher]])
  /\ factory' = FALSE
  /\ UNCHANGED torn

\* Between two rows: of Unload, which takes the publishers first.
PowerLossInUnload ==
  /\ \E p \in 0 .. GptMax, g \in 0 .. GotMax :
       /\ g > 0 => p = GptMax
       /\ Boot(Erased(p, g))
  /\ factory' = FALSE
  /\ UNCHANGED torn

\* Of ResetTables, which takes the group objects first.
PowerLossInResetTables ==
  /\ resets > 0 /\ cached = 7
  /\ \E p \in 0 .. GptMax, g \in 0 .. GotMax :
       /\ p > 0 => g = GotMax
       /\ Boot(Erased(p, g))
  /\ UNCHANGED <<torn, factory>>

\* Of FactoryReset: after n of its first writes, and once these are done
\* between two rows of its tables.
PowerLossInFactoryReset ==
  /\ resets > 0 /\ cached = 2
  /\ \E n \in 0 .. 4, p \in 0 .. GptMax, g \in 0 .. GotMax :
       /\ g > 0 => n = 4
       /\ p > 0 => g = GotMax
       /\ Boot([AddressErased(n) EXCEPT !.got = Erased(p, g).got,
                                        !.gpt = Erased(p, g).gpt])
       /\ torn' = (torn \/ n = 4)
  /\ UNCHANGED factory

----------------------------------------------------------------------------

Next ==
  \/ Nop \/ StartLoading \/ LoadComplete \/ Unload
  \/ \E payload \in GroupPosts : PostGroupObjects(payload)
  \/ \E payload \in PublisherPosts : PostPublishers(payload)
  \/ \E id \in Ids : DeleteGroupObject(id) \/ DeletePublisher(id)
  \/ \E a \in {NoIa - 1}, i \in Iids :
       \E fields \in {[ia |-> a, iid |-> i], [ia |-> a], [iid |-> i]} :
         PostIa(fields)
  \/ \E i \in Iids : PutIid(i)
  \/ \E b \in BOOLEAN : PutPm(b)
  \/ RestartDevice
  \/ \E v \in ResetValues : RequestReset(v)
  \/ DelayedReset
  \/ PowerLoss \/ PowerLossInUnload
  \/ \E payload \in GroupPosts : PowerLossInGroupPost(payload)
  \/ \E payload \in PublisherPosts : PowerLossInPublisherPost(payload)
  \/ \E id \in Ids : PowerLossInDelete(id)
  \/ PowerLossInResetTables \/ PowerLossInFactoryReset

Spec == Init /\ [][Next]_vars

----------------------------------------------------------------------------
(* Properties.                                                             *)

GroupObjectRow ==
  [id : Ids \cup {NoId}, href : {"", "ours", "foreign"},
   ga : SUBSET GroupAddresses, cflags : SUBSET Flags]
PublisherRow ==
  [id : Ids \cup {NoId}, ga : SUBSET GroupAddresses, grpid : Grpids \cup {0}]
GotType == [1 .. GotMax -> GroupObjectRow]
GptType == [1 .. GptMax -> PublisherRow]
LoadState == {"unloaded", "loading", "loaded"}

TypeOK ==
  /\ lsm \in LoadState /\ got \in GotType /\ gpt \in GptType
  /\ fingerprint \in 0 .. MaxFingerprint
  /\ ia \in 0 .. NoIa /\ iid \in Iids \cup {0} /\ pm \in BOOLEAN
  /\ disk \in [lsm : LoadState, got : GotType, gpt : GptType,
               fp : 0 .. MaxFingerprint, ia : 0 .. NoIa, iid : Iids \cup {0},
               pm : BOOLEAN]
  /\ subs \subseteq (GroupAddresses \cup Grpids) \X (Iids \cup {0})
  /\ resets \in 0 .. MaxResets /\ cached \in ResetValues \cup {0}
  /\ acked \subseteq Ids /\ lost \subseteq Ids
  /\ {refused, torn, factory} \subseteq BOOLEAN

\* In the unloaded state both tables are empty, in memory and in storage, also
\* when power failed half way an unload or a reset of the tables: the load
\* state is the last thing these write.  (A factory reset writes it first:
\* a power loss within one is the exception.)
UnloadedIsEmpty ==
  lsm = "unloaded" /\ ~torn =>
    /\ got = EmptyGot /\ gpt = EmptyGpt
    /\ disk.got = EmptyGot /\ disk.gpt = EmptyGpt

\* No id is in two rows of a table, in memory or in storage: GET, POST and
\* DELETE by id act on the first row found, so a second one could neither be
\* read nor deleted.  The exception are the ids of which a start has left out
\* a stored row: the next POST of one may take another slot, beside that row.
UniqueIds ==
  /\ \A table \in {got, disk.got} :
       \A s, t \in DOMAIN table :
         table[s].id = table[t].id /\ table[s].id \notin lost \cup {NoId} => s = t
  /\ \A table \in {gpt, disk.gpt} :
       \A s, t \in DOMAIN table :
         table[s].id = table[t].id /\ table[s].id # NoId => s = t

RowsOf(table, id) == {table[s] : s \in {t \in DOMAIN table : table[t].id = id}}

\* A group object whose last request was accepted is in storage as it is in
\* memory, whatever refused requests about other objects came in between and
\* whatever rows of other objects a start has left out.
AcceptedIsStored ==
  \A id \in acked \ lost : RowsOf(got, id) = RowsOf(disk.got, id)

\* A device in run time listens to every group its tables say it receives,
\* in whichever row, under its present installation id, by whichever of the
\* ways in (load event, address, installation id, power on) it got there; the
\* exception is a refused POST of the addresses, which sets them all the same.
\* It holds where the Publisher Table is not the smaller one.
RuntimeSubscribed ==
  InRuntime /\ ~refused => GroupsOf(got, gpt, GotMax) \X {iid} \subseteq subs

\* After a factory reset the device has no address, no installation id, no
\* programming mode and no tables, until a request gives it some: restarts,
\* other resets and power losses bring nothing back.  (The comment of
\* oc_knx_device_storage_reset says that programming mode is true then; the
\* code erases it and sets it to false.)
FactoryResetHolds ==
  factory =>
    /\ lsm = "unloaded" /\ ia = NoIa /\ iid = 0 /\ ~pm
    /\ got = EmptyGot /\ gpt = EmptyGpt
=============================================================================
