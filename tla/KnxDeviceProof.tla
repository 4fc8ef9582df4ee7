--------------------------- MODULE KnxDeviceProof ---------------------------
(***************************************************************************)
(* What the tables, the storage and the subscriptions of a device are in   *)
(* every state, for tables of every size and all payloads clients may post.*)
(***************************************************************************)
EXTENDS KnxDevice, FiniteSetTheorems, WellFoundedInduction, TLAPS

(* The least element of a set of numbers: strict inclusion of the initial  *)
(* segments is well founded.                                               *)
LEMMA LeastNumber ==
  ASSUME NEW S \in SUBSET Nat, S # {}
  PROVE  Least(S) \in S /\ \A m \in S : Least(S) <= m
<1>. DEFINE T == {0 .. n - 1 : n \in S}
<1>1. T \subseteq FiniteSubsetsOf(Nat)
  <2>. SUFFICES ASSUME NEW n \in S PROVE 0 .. n - 1 \in FiniteSubsetsOf(Nat)
    OBVIOUS
  <2>1. IsFiniteSet(0 .. n - 1)
    BY FS_Interval
  <2>. QED BY <2>1 DEF FiniteSubsetsOf
<1>2. T # {}
  OBVIOUS
<1>3. IsWellFoundedOn(StrictSubsetOrdering(Nat), FiniteSubsetsOf(Nat))
  BY FS_StrictSubsetOrderingWellFounded
<1>. HIDE DEF T
<1>4. PICK x \in T : \A y \in T : ~(<<y, x>> \in StrictSubsetOrdering(Nat))
  BY <1>1, <1>2, <1>3, WFMin
<1>5. PICK n \in S : x = 0 .. n - 1
  BY DEF T
<1>6. ASSUME NEW m \in S, m < n PROVE FALSE
  <2>1. 0 .. m - 1 \in T
    BY DEF T
  <2>2. 0 .. m - 1 \subseteq 0 .. n - 1 /\ 0 .. m - 1 # 0 .. n - 1
    <3>1. m \in 0 .. n - 1 /\ m \notin 0 .. m - 1
      BY <1>6
    <3>. QED BY <3>1, <1>6
  <2>3. <<0 .. m - 1, 0 .. n - 1>> \in StrictSubsetOrdering(Nat)
    BY <2>2 DEF StrictSubsetOrdering
  <2>. QED BY <1>4, <1>5, <2>1, <2>3
<1>7. \E k \in S : \A m \in S : k <= m
  BY <1>6
<1>. QED BY <1>7 DEF Least

(* Induction over the maps of a payload, on a set of numbers.              *)
LEMMA UpTo ==
  ASSUME NEW n \in Nat, NEW T, 0 \in T, \A i \in 1 .. n : i - 1 \in T => i \in T
  PROVE  \A i \in 0 .. n : i \in T
<1>. SUFFICES ASSUME NEW i \in 0 .. n, i \notin T PROVE FALSE
  OBVIOUS
<1>. DEFINE S == {j \in 0 .. n : j \notin T}
<1>1. S \in SUBSET Nat /\ S # {}
  OBVIOUS
<1>2. Least(S) \in S /\ \A m \in S : Least(S) <= m
  BY <1>1, LeastNumber
<1>3. Least(S) \in 1 .. n
  BY <1>2
<1>4. Least(S) - 1 \in 0 .. n /\ Least(S) - 1 \in T
  BY <1>2, <1>3
<1>. QED BY <1>2, <1>3, <1>4

(* A loop that stays in a set has the values it goes through.              *)
Runs(n, S, base, step) ==
  \E f \in [0 .. n -> S] : f[0] = base /\ \A i \in 1 .. n : f[i] = step[<<f[i - 1], i>>]

LEMMA Iterates ==
  ASSUME NEW n \in Nat, NEW S, NEW base \in S, NEW step \in [S \X (1 .. n) -> S]
  PROVE  Runs(n, S, base, step)
<1>. DEFINE T == {k \in 0 .. n : Runs(k, S, base, step)}
<1>1. Runs(0, S, base, step)
  <2>. DEFINE f == [i \in 0 .. 0 |-> base]
  <2>1. f \in [0 .. 0 -> S] /\ f[0] = base
    OBVIOUS
  <2>2. \A i \in 1 .. 0 : FALSE
    OBVIOUS
  <2>. HIDE DEF f
  <2>. QED BY <2>1, <2>2 DEF Runs
<1>2. ASSUME NEW k \in 1 .. n, k - 1 \in T PROVE k \in T
  <2>1. PICK f \in [0 .. k - 1 -> S] :
          f[0] = base /\ \A i \in 1 .. k - 1 : f[i] = step[<<f[i - 1], i>>]
    BY <1>2 DEF Runs
  <2>. DEFINE last == step[<<f[k - 1], k>>]
              g == [i \in 0 .. k |-> IF i = k THEN last ELSE f[i]]
  <2>2. last \in S
    <3>1. k - 1 \in 0 .. k - 1
      OBVIOUS
    <3>. QED BY <3>1
  <2>. HIDE DEF last
  <2>3. g \in [0 .. k -> S]
    BY <2>2
  <2>4. g[0] = base
    BY <2>1
  <2>5. ASSUME NEW i \in 1 .. k PROVE g[i] = step[<<g[i - 1], i>>]
    <3>1. g[i - 1] = f[i - 1] /\ g[i] = IF i = k THEN last ELSE f[i]
      OBVIOUS
    <3>. HIDE DEF g
    <3>2. CASE i = k
      BY <3>1, <3>2 DEF last
    <3>3. CASE i # k
      <4>1. i \in 1 .. k - 1
        BY <3>3
      <4>2. f[i] = step[<<f[i - 1], i>>]
        BY <2>1, <4>1
      <4>. QED BY <3>1, <3>3, <4>2
    <3>. QED BY <3>2, <3>3
  <2>. HIDE DEF g
  <2>6. \E h \in [0 .. k -> S] : h[0] = base /\ \A i \in 1 .. k : h[i] = step[<<h[i - 1], i>>]
    <3>. WITNESS g \in [0 .. k -> S]
    <3>. QED BY <2>4, <2>5
  <2>. QED BY <2>6 DEF Runs
<1>3. 0 \in T
  BY <1>1
<1>. HIDE DEF T
<1>4. n \in T
  BY <1>2, <1>3, UpTo
<1>. QED BY <1>4 DEF T

-----------------------------------------------------------------------------
(* What one map of a payload does to a table a of n rows: nothing, or one  *)
(* row is written, the one that has its id or an empty one if none has; in *)
(* storage as well, unless a row before failed its checks.                 *)
Loading(n, Entry) ==
  [rows : [1 .. n -> Entry], saved : [1 .. n -> Entry], ok : BOOLEAN, stop : BOOLEAN]

Place(rows, n, s, id) ==
  /\ s \in 1 .. n /\ id # NoId
  /\ rows[s].id = id \/ (rows[s].id = NoId /\ \A t \in 1 .. n : rows[t].id # id)

Puts(n, Entry, a, b, id) ==
  /\ b \in Loading(n, Entry)
  /\ b.ok => a.ok
  /\ \/ b = a /\ a.stop
     \/ b.rows = a.rows /\ b.saved = a.saved /\ b.stop
     \/ \E s \in 1 .. n, e \in Entry :
          /\ Place(a.rows, n, s, id) /\ e.id \in {id, NoId} /\ ~a.stop
          /\ b.rows = [a.rows EXCEPT ![s] = e]
          /\ \/ b.saved = [a.saved EXCEPT ![s] = e]
             \/ b.saved = a.saved /\ e.id = id /\ ~a.ok

LEMMA SlotIsPlace ==
  ASSUME NEW n \in Nat, NEW Entry, NEW rows \in [1 .. n -> Entry], NEW id
  PROVE  SlotFor(rows, id) = 0 \/ Place(rows, n, SlotFor(rows, id), id)
<1>. DEFINE used == {s \in DOMAIN rows : rows[s].id = id}
            free == {s \in DOMAIN rows : rows[s].id = NoId}
<1>1. used \subseteq 1 .. n /\ free \subseteq 1 .. n /\ used \in SUBSET Nat /\ free \in SUBSET Nat
  OBVIOUS
<1>2. CASE id = NoId
  BY <1>2 DEF SlotFor
<1>3. CASE id # NoId /\ used # {}
  <2>1. Least(used) \in used
    BY <1>1, <1>3, LeastNumber
  <2>2. SlotFor(rows, id) = Least(used)
    BY <1>3 DEF SlotFor
  <2>. QED BY <1>1, <1>3, <2>1, <2>2 DEF Place
<1>4. CASE id # NoId /\ used = {}
  <2>1. SlotFor(rows, id) = IF free = {} THEN 0 ELSE Least(free)
    BY <1>4 DEF SlotFor
  <2>2. free # {} => Least(free) \in free
    BY <1>1, LeastNumber
  <2>. QED BY <1>1, <1>4, <2>1, <2>2 DEF Place
<1>. QED BY <1>2, <1>3, <1>4

(* The rows a payload makes are rows.                                      *)
LEMMA Rows ==
  /\ NoGroupObject \in GroupObjectRow /\ NoGroupObject.id = NoId
  /\ NoPublisher \in PublisherRow /\ NoPublisher.id = NoId
  /\ EmptyGot \in GotType /\ EmptyGpt \in GptType
BY DEF NoGroupObject, GroupObjectRow, NoPublisher, PublisherRow, EmptyGot, EmptyGpt,
   GotType, GptType

LEMMA MergedGroupObject ==
  ASSUME NEW o \in MapsOf(GroupPosts), NEW row \in GroupObjectRow
  PROVE  /\ Merged(o, row) \in GroupObjectRow
         /\ "id" \in DOMAIN o => Merged(o, row).id = o.id
<1>1. "id" \in DOMAIN o => o.id \in Ids
  BY PostsAssumption
<1>2. "ga" \in DOMAIN o => o.ga \in SUBSET GroupAddresses
  BY DEF GroupAddresses
<1>3. /\ "href" \in DOMAIN o => o.href \in {"ours", "foreign"}
      /\ "cflags" \in DOMAIN o => o.cflags \in SUBSET Flags
  BY PostsAssumption
<1>4. /\ DOMAIN row = {"id", "href", "ga", "cflags"}
      /\ row.id \in Ids \cup {NoId} /\ row.href \in {"", "ours", "foreign"}
      /\ row.ga \in SUBSET GroupAddresses /\ row.cflags \in SUBSET Flags
  BY DEF GroupObjectRow
<1>. DEFINE m == Merged(o, row)
<1>5. /\ DOMAIN m = {"id", "href", "ga", "cflags"} /\ m = [k \in DOMAIN m |-> m[k]]
      /\ m.id = IF "id" \in DOMAIN o THEN o.id ELSE row.id
      /\ m.href = IF "href" \in DOMAIN o THEN o.href ELSE row.href
      /\ m.ga = IF "ga" \in DOMAIN o THEN o.ga ELSE row.ga
      /\ m.cflags = IF "cflags" \in DOMAIN o THEN o.cflags ELSE row.cflags
  BY <1>4 DEF Merged
<1>. HIDE DEF m
<1>6. m \in [id : Ids \cup {NoId}, href : {"", "ours", "foreign"},
             ga : SUBSET GroupAddresses, cflags : SUBSET Flags]
  BY <1>1, <1>2, <1>3, <1>4, <1>5
<1>. QED BY <1>5, <1>6 DEF m, GroupObjectRow

LEMMA MergedPublisher ==
  ASSUME NEW o \in MapsOf(PublisherPosts), NEW row \in PublisherRow
  PROVE  /\ Merged(o, row) \in PublisherRow
         /\ "id" \in DOMAIN o => Merged(o, row).id = o.id
<1>1. "id" \in DOMAIN o => o.id \in Ids
  BY PostsAssumption
<1>2. /\ "ga" \in DOMAIN o => o.ga \in SUBSET GroupAddresses
      /\ "grpid" \in DOMAIN o => o.grpid \in Grpids
  BY DEF GroupAddresses, Grpids
<1>4. /\ DOMAIN row = {"id", "ga", "grpid"}
      /\ row.id \in Ids \cup {NoId}
      /\ row.ga \in SUBSET GroupAddresses /\ row.grpid \in Grpids \cup {0}
  BY DEF PublisherRow
<1>. DEFINE m == Merged(o, row)
<1>5. /\ DOMAIN m = {"id", "ga", "grpid"} /\ m = [k \in DOMAIN m |-> m[k]]
      /\ m.id = IF "id" \in DOMAIN o THEN o.id ELSE row.id
      /\ m.ga = IF "ga" \in DOMAIN o THEN o.ga ELSE row.ga
      /\ m.grpid = IF "grpid" \in DOMAIN o THEN o.grpid ELSE row.grpid
  BY <1>4 DEF Merged
<1>. HIDE DEF m
<1>6. m \in [id : Ids \cup {NoId}, ga : SUBSET GroupAddresses, grpid : Grpids \cup {0}]
  BY <1>1, <1>2, <1>4, <1>5
<1>. QED BY <1>5, <1>6 DEF m, PublisherRow

(* A row that is written, in memory and in storage.                        *)
LEMMA RowWritten ==
  ASSUME NEW n, NEW R, NEW a \in Loading(n, R), NEW s \in 1 .. n, NEW e \in R
  PROVE  /\ Row(a, s, e) \in Loading(n, R)
         /\ Row(a, s, e).rows = [a.rows EXCEPT ![s] = e]
         /\ Row(a, s, e).saved = [a.saved EXCEPT ![s] = e]
         /\ Row(a, s, e).ok = a.ok /\ Row(a, s, e).stop = a.stop
BY DEF Loading, Row

LEMMA GroupObjectPut ==
  ASSUME NEW a \in Loading(GotMax, GroupObjectRow), NEW o \in MapsOf(GroupPosts)
  PROVE  Puts(GotMax, GroupObjectRow, a, PutGroupObject(a, o), IdOf(o))
<1>. DEFINE s == SlotFor(a.rows, IdOf(o))
            b == PutGroupObject(a, o)
<1>0. GotMax \in Nat
  BY DeviceAssumption
<1>1. s = 0 \/ Place(a.rows, GotMax, s, IdOf(o))
  BY <1>0, SlotIsPlace DEF Loading
<1>2. CASE a.stop
  BY <1>2 DEF PutGroupObject, Puts
<1>3. CASE ~a.stop /\ s = 0
  <2>1. b = [a EXCEPT !.stop = TRUE]
    BY <1>3 DEF PutGroupObject
  <2>. QED BY <2>1 DEF Puts, Loading
<1>4. CASE ~a.stop /\ s # 0
  <2>1. /\ s \in 1 .. GotMax /\ Place(a.rows, GotMax, s, IdOf(o))
        /\ "id" \in DOMAIN o /\ IdOf(o) = o.id /\ a.rows[s] \in GroupObjectRow
    BY <1>1, <1>4 DEF Place, IdOf, Loading
  <2>. DEFINE e == Merged(o, a.rows[s])
  <2>2. e \in GroupObjectRow /\ e.id = IdOf(o)
    BY <2>1, MergedGroupObject
  <2>. HIDE DEF s, e
  <2>3. \/ b = Row(a, s, NoGroupObject)
        \/ b = [Row(a, s, NoGroupObject) EXCEPT !.stop = TRUE]
        \/ b = CheckAndSave(a, s, e)
    BY <1>4 DEF s, e, PutGroupObject
  <2>. HIDE DEF b
  <2>4. /\ Row(a, s, NoGroupObject) \in Loading(GotMax, GroupObjectRow)
        /\ Row(a, s, NoGroupObject).rows = [a.rows EXCEPT ![s] = NoGroupObject]
        /\ Row(a, s, NoGroupObject).saved = [a.saved EXCEPT ![s] = NoGroupObject]
        /\ Row(a, s, NoGroupObject).ok = a.ok
    BY <2>1, Rows, RowWritten
  <2>5. CASE \/ b = Row(a, s, NoGroupObject)
             \/ b = [Row(a, s, NoGroupObject) EXCEPT !.stop = TRUE]
             \/ b = [Row(a, s, NoGroupObject) EXCEPT !.ok = FALSE]
    <3>1. /\ b \in Loading(GotMax, GroupObjectRow) /\ (b.ok => a.ok)
          /\ b.rows = [a.rows EXCEPT ![s] = NoGroupObject]
          /\ b.saved = [a.saved EXCEPT ![s] = NoGroupObject]
      BY <2>4, <2>5 DEF Loading
    <3>. QED BY <1>4, <2>1, <3>1, Rows DEF Puts, b
  <2>6. CASE b = Row(a, s, e)
    <3>1. /\ b \in Loading(GotMax, GroupObjectRow) /\ b.ok = a.ok
          /\ b.rows = [a.rows EXCEPT ![s] = e] /\ b.saved = [a.saved EXCEPT ![s] = e]
      BY <2>1, <2>2, <2>6, RowWritten
    <3>. QED BY <1>4, <2>1, <2>2, <3>1 DEF Puts, b
  <2>7. CASE ~a.ok /\ b = [a EXCEPT !.rows[s] = e]
    <3>1. /\ b \in Loading(GotMax, GroupObjectRow) /\ b.ok = a.ok
          /\ b.rows = [a.rows EXCEPT ![s] = e] /\ b.saved = a.saved
      BY <2>1, <2>2, <2>7 DEF Loading
    <3>. QED BY <1>4, <2>1, <2>2, <2>7, <3>1 DEF Puts, b
  <2>. QED BY <2>3, <2>5, <2>6, <2>7 DEF CheckAndSave
<1>. QED BY <1>2, <1>3, <1>4

LEMMA PublisherPut ==
  ASSUME NEW a \in Loading(GptMax, PublisherRow), NEW o \in MapsOf(PublisherPosts)
  PROVE  /\ Puts(GptMax, PublisherRow, a, PutPublisher(a, o), IdOf(o))
         /\ a.rows = a.saved => PutPublisher(a, o).rows = PutPublisher(a, o).saved
<1>. DEFINE s == SlotFor(a.rows, IdOf(o))
            b == PutPublisher(a, o)
<1>0. GptMax \in Nat
  BY DeviceAssumption
<1>1. s = 0 \/ Place(a.rows, GptMax, s, IdOf(o))
  BY <1>0, SlotIsPlace DEF Loading
<1>2. CASE a.stop
  BY <1>2 DEF PutPublisher, Puts
<1>3. CASE ~a.stop /\ s = 0
  <2>1. b = [a EXCEPT !.stop = TRUE]
    BY <1>3 DEF PutPublisher
  <2>. QED BY <2>1 DEF Puts, Loading
<1>4. CASE ~a.stop /\ s # 0
  <2>1. /\ s \in 1 .. GptMax /\ Place(a.rows, GptMax, s, IdOf(o))
        /\ "id" \in DOMAIN o /\ IdOf(o) = o.id /\ a.rows[s] \in PublisherRow
    BY <1>1, <1>4 DEF Place, IdOf, Loading
  <2>. DEFINE m == Merged(o, a.rows[s])
  <2>2. m \in PublisherRow /\ m.id = IdOf(o)
    BY <2>1, MergedPublisher
  <2>. HIDE DEF s, m
  <2>3. \/ b = Row(a, s, NoPublisher)
        \/ b = [Row(a, s, NoPublisher) EXCEPT !.stop = TRUE]
        \/ b = Row(a, s, m)
    BY <1>4 DEF s, m, PutPublisher
  <2>. HIDE DEF b
  <2>4. PICK e \in PublisherRow :
          /\ e.id \in {IdOf(o), NoId}
          /\ b \in {Row(a, s, e), [Row(a, s, e) EXCEPT !.stop = TRUE]}
    BY <2>2, <2>3, Rows
  <2>5. /\ b \in Loading(GptMax, PublisherRow) /\ b.ok = a.ok
        /\ b.rows = [a.rows EXCEPT ![s] = e] /\ b.saved = [a.saved EXCEPT ![s] = e]
    <3>1. /\ Row(a, s, e) \in Loading(GptMax, PublisherRow)
          /\ Row(a, s, e).rows = [a.rows EXCEPT ![s] = e]
          /\ Row(a, s, e).saved = [a.saved EXCEPT ![s] = e]
          /\ Row(a, s, e).ok = a.ok
      BY <2>1, RowWritten
    <3>. QED BY <2>4, <3>1 DEF Loading
  <2>. QED BY <1>4, <2>1, <2>4, <2>5 DEF Puts, b
<1>. QED BY <1>2, <1>3, <1>4

-----------------------------------------------------------------------------
(* The maps of a payload one after the other: the states a loop over them  *)
(* goes through.                                                           *)
IdAt(payload, i) == IdOf(payload[i])

Loop(n, Entry, g, payload, rows, saved) ==
  /\ g \in [0 .. Len(payload) -> Loading(n, Entry)]
  /\ g[0] = Opened(rows, saved)
  /\ \A i \in 1 .. Len(payload) : Puts(n, Entry, g[i - 1], g[i], IdAt(payload, i))

LEMMA MapsOfPayload ==
  ASSUME NEW M, NEW payload \in Seq(M)
  PROVE  /\ Len(payload) \in Nat /\ DOMAIN payload = 1 .. Len(payload)
         /\ \A i \in 1 .. Len(payload) : payload[i] \in M
         /\ \A n \in 0 .. Len(payload) : SubSeq(payload, 1, n) \in Seq(M)
OBVIOUS

LEMMA OpenedTable ==
  ASSUME NEW n, NEW R, NEW rows \in [1 .. n -> R], NEW saved \in [1 .. n -> R]
  PROVE  /\ Opened(rows, saved) \in Loading(n, R)
         /\ Opened(rows, saved).rows = rows /\ Opened(rows, saved).saved = saved
         /\ Opened(rows, saved).ok = TRUE /\ Opened(rows, saved).stop = FALSE
BY DEF Opened, Loading

LEMMA GroupObjectLoop ==
  ASSUME NEW payload \in Seq(MapsOf(GroupPosts)), NEW rows \in GotType, NEW saved \in GotType
  PROVE  \E g : /\ Loop(GotMax, GroupObjectRow, g, payload, rows, saved)
                /\ Loaded(PutGroupObject, rows, saved, payload) = g[Len(payload)]
<1>. DEFINE n == Len(payload)
            S == Loading(GotMax, GroupObjectRow)
            base == Opened(rows, saved)
            step == [x \in S \X (1 .. n) |-> PutGroupObject(x[1], payload[x[2]])]
<1>1. n \in Nat /\ \A i \in 1 .. n : payload[i] \in MapsOf(GroupPosts)
  BY MapsOfPayload
<1>2. base \in S
  BY OpenedTable DEF GotType
<1>3. \A a \in S, i \in 1 .. n :
        /\ Puts(GotMax, GroupObjectRow, a, PutGroupObject(a, payload[i]), IdAt(payload, i))
        /\ PutGroupObject(a, payload[i]) \in S
  BY <1>1, GroupObjectPut DEF Puts, IdAt
<1>4. step \in [S \X (1 .. n) -> S]
  BY <1>3
<1>5. \A a \in S, i \in 1 .. n : step[<<a, i>>] = PutGroupObject(a, payload[i])
  OBVIOUS
<1>. DEFINE acc == CHOOSE f : f = [i \in 0 .. n |->
                     IF i = 0 THEN base ELSE PutGroupObject(f[i - 1], payload[i])]
<1>6. Loaded(PutGroupObject, rows, saved, payload) = acc[n]
  BY DEF Loaded
<1>. HIDE DEF n, S, base, step, acc
<1>7. PICK f \in [0 .. n -> S] : f[0] = base /\ \A i \in 1 .. n : f[i] = step[<<f[i - 1], i>>]
  <2>1. Runs(n, S, base, step)
    BY <1>1, <1>2, <1>4, Iterates
  <2>. QED BY <2>1 DEF Runs
<1>8. \A i \in 1 .. n : f[i] = PutGroupObject(f[i - 1], payload[i])
  <2>. SUFFICES ASSUME NEW i \in 1 .. n PROVE f[i] = PutGroupObject(f[i - 1], payload[i])
    OBVIOUS
  <2>1. i - 1 \in 0 .. n
    BY <1>1
  <2>2. f[i - 1] \in S
    BY <1>7, <2>1
  <2>. QED BY <1>5, <1>7, <2>2
<1>9. f = [i \in 0 .. n |-> IF i = 0 THEN base ELSE PutGroupObject(f[i - 1], payload[i])]
  BY <1>1, <1>7, <1>8
<1>10. acc = [i \in 0 .. n |-> IF i = 0 THEN base ELSE PutGroupObject(acc[i - 1], payload[i])]
  BY <1>9 DEF acc
<1>11. acc[0] = base /\ \A i \in 1 .. n : acc[i] = PutGroupObject(acc[i - 1], payload[i])
  BY <1>1, <1>10
<1>12. \A i \in 0 .. n : acc[i] \in S
  <2>. DEFINE T == {i \in 0 .. n : acc[i] \in S}
  <2>1. 0 \in T
    BY <1>1, <1>2, <1>11
  <2>2. \A i \in 1 .. n : i - 1 \in T => i \in T
    BY <1>1, <1>3, <1>11
  <2>. HIDE DEF T
  <2>3. \A i \in 0 .. n : i \in T
    BY <1>1, <2>1, <2>2, UpTo
  <2>. QED BY <2>3 DEF T
<1>13. acc \in [0 .. n -> S]
  BY <1>10, <1>12
<1>14. \A i \in 1 .. n : Puts(GotMax, GroupObjectRow, acc[i - 1], acc[i], IdAt(payload, i))
  BY <1>1, <1>3, <1>11, <1>12
<1>15. Loop(GotMax, GroupObjectRow, acc, payload, rows, saved)
  BY <1>11, <1>13, <1>14 DEF Loop, n, S, base
<1>. QED BY <1>6, <1>15 DEF n

LEMMA PublisherLoop ==
  ASSUME NEW payload \in Seq(MapsOf(PublisherPosts)), NEW rows \in GptType, NEW saved \in GptType
  PROVE  \E g : /\ Loop(GptMax, PublisherRow, g, payload, rows, saved)
                /\ Loaded(PutPublisher, rows, saved, payload) = g[Len(payload)]
                /\ rows = saved =>
                     \A i \in 0 .. Len(payload) : g[i].rows = g[i].saved
<1>. DEFINE n == Len(payload)
            S == Loading(GptMax, PublisherRow)
            base == Opened(rows, saved)
            step == [x \in S \X (1 .. n) |-> PutPublisher(x[1], payload[x[2]])]
<1>1. n \in Nat /\ \A i \in 1 .. n : payload[i] \in MapsOf(PublisherPosts)
  BY MapsOfPayload
<1>2. base \in S
  BY OpenedTable DEF GptType
<1>3. \A a \in S, i \in 1 .. n :
        /\ Puts(GptMax, PublisherRow, a, PutPublisher(a, payload[i]), IdAt(payload, i))
        /\ PutPublisher(a, payload[i]) \in S
  BY <1>1, PublisherPut DEF Puts, IdAt
<1>4. step \in [S \X (1 .. n) -> S]
  BY <1>3
<1>5. \A a \in S, i \in 1 .. n : step[<<a, i>>] = PutPublisher(a, payload[i])
  OBVIOUS
<1>. DEFINE acc == CHOOSE f : f = [i \in 0 .. n |->
                     IF i = 0 THEN base ELSE PutPublisher(f[i - 1], payload[i])]
<1>6. Loaded(PutPublisher, rows, saved, payload) = acc[n]
  BY DEF Loaded
<1>. HIDE DEF n, S, base, step, acc
<1>7. PICK f \in [0 .. n -> S] : f[0] = base /\ \A i \in 1 .. n : f[i] = step[<<f[i - 1], i>>]
  <2>1. Runs(n, S, base, step)
    BY <1>1, <1>2, <1>4, Iterates
  <2>. QED BY <2>1 DEF Runs
<1>8. \A i \in 1 .. n : f[i] = PutPublisher(f[i - 1], payload[i])
  <2>. SUFFICES ASSUME NEW i \in 1 .. n PROVE f[i] = PutPublisher(f[i - 1], payload[i])
    OBVIOUS
  <2>1. i - 1 \in 0 .. n
    BY <1>1
  <2>2. f[i - 1] \in S
    BY <1>7, <2>1
  <2>. QED BY <1>5, <1>7, <2>2
<1>9. f = [i \in 0 .. n |-> IF i = 0 THEN base ELSE PutPublisher(f[i - 1], payload[i])]
  BY <1>1, <1>7, <1>8
<1>10. acc = [i \in 0 .. n |-> IF i = 0 THEN base ELSE PutPublisher(acc[i - 1], payload[i])]
  BY <1>9 DEF acc
<1>11. acc[0] = base /\ \A i \in 1 .. n : acc[i] = PutPublisher(acc[i - 1], payload[i])
  BY <1>1, <1>10
<1>12. \A i \in 0 .. n : acc[i] \in S
  <2>. DEFINE T == {i \in 0 .. n : acc[i] \in S}
  <2>1. 0 \in T
    BY <1>1, <1>2, <1>11
  <2>2. \A i \in 1 .. n : i - 1 \in T => i \in T
    BY <1>1, <1>3, <1>11
  <2>. HIDE DEF T
  <2>3. \A i \in 0 .. n : i \in T
    BY <1>1, <2>1, <2>2, UpTo
  <2>. QED BY <2>3 DEF T
<1>13. acc \in [0 .. n -> S]
  BY <1>10, <1>12
<1>14. \A i \in 1 .. n : Puts(GptMax, PublisherRow, acc[i - 1], acc[i], IdAt(payload, i))
  BY <1>1, <1>3, <1>11, <1>12
<1>15. Loop(GptMax, PublisherRow, acc, payload, rows, saved)
  BY <1>11, <1>13, <1>14 DEF Loop, n, S, base
<1>16. ASSUME rows = saved PROVE \A i \in 0 .. n : acc[i].rows = acc[i].saved
  <2>. DEFINE T == {i \in 0 .. n : acc[i].rows = acc[i].saved}
  <2>1. 0 \in T
    BY <1>1, <1>11, <1>16 DEF base, Opened
  <2>2. ASSUME NEW i \in 1 .. n, i - 1 \in T PROVE i \in T
    <3>1. acc[i - 1] \in S /\ acc[i - 1].rows = acc[i - 1].saved
      BY <1>12, <2>2
    <3>2. PutPublisher(acc[i - 1], payload[i]).rows = PutPublisher(acc[i - 1], payload[i]).saved
      BY <1>1, <3>1, PublisherPut DEF S
    <3>. QED BY <1>11, <3>2
  <2>. HIDE DEF T
  <2>3. \A i \in 0 .. n : i \in T
    BY <1>1, <2>1, <2>2, UpTo
  <2>. QED BY <2>3 DEF T
<1>. QED BY <1>6, <1>15, <1>16 DEF n

(* Of the ids that no start has left out, none is in two rows, and storage *)
(* has a row where memory has it.                                          *)
InSlots(n, rows, saved, out) ==
  /\ \A s, t \in 1 .. n :
       rows[s].id = rows[t].id /\ rows[s].id \notin out \cup {NoId} => s = t
  /\ \A s \in 1 .. n : saved[s].id \in out \cup {NoId, rows[s].id}

Stored(n, rows, saved, ids, out) ==
  \A s \in 1 .. n : rows[s].id \in ids \ out => saved[s] = rows[s]

LEMMA PutKeeps ==
  ASSUME NEW n \in Nat, NEW R, NEW a \in Loading(n, R), NEW b, NEW id, NEW ids, NoId \notin ids,
         NEW out,
         Puts(n, R, a, b, id), InSlots(n, a.rows, a.saved, out)
  PROVE  /\ InSlots(n, b.rows, b.saved, out)
         /\ id \notin ids /\ Stored(n, a.rows, a.saved, ids, out) => Stored(n, b.rows, b.saved, ids, out)
         /\ b.ok /\ ~b.stop => a.ok /\ ~a.stop /\ id # NoId
         /\ b.ok /\ ~b.stop /\ Stored(n, a.rows, a.saved, ids, out) =>
              Stored(n, b.rows, b.saved, ids \cup {id}, out)
<1>1. CASE b = a /\ a.stop
  BY <1>1
<1>2. CASE b.rows = a.rows /\ b.saved = a.saved /\ b.stop
  BY <1>2
<1>3. ASSUME NEW s \in 1 .. n, NEW e \in R, Place(a.rows, n, s, id), e.id \in {id, NoId}, ~a.stop,
             b.rows = [a.rows EXCEPT ![s] = e],
             \/ b.saved = [a.saved EXCEPT ![s] = e]
             \/ b.saved = a.saved /\ e.id = id /\ ~a.ok
      PROVE  /\ InSlots(n, b.rows, b.saved, out)
             /\ id \notin ids /\ Stored(n, a.rows, a.saved, ids, out) => Stored(n, b.rows, b.saved, ids, out)
             /\ b.ok /\ ~b.stop => a.ok /\ ~a.stop /\ id # NoId
             /\ b.ok /\ ~b.stop /\ Stored(n, a.rows, a.saved, ids, out) =>
                  Stored(n, b.rows, b.saved, ids \cup {id}, out)
  <2>1. /\ b.rows[s] = e /\ \A t \in 1 .. n \ {s} : b.rows[t] = a.rows[t]
        /\ \A t \in 1 .. n \ {s} : b.saved[t] = a.saved[t]
        /\ b.saved[s] = e \/ (b.saved[s] = a.saved[s] /\ e.id = id /\ ~a.ok)
    BY <1>3 DEF Loading
  <2>2. /\ id # NoId
        /\ b.ok => a.ok
        /\ a.rows[s].id = id \/ (a.rows[s].id = NoId /\ \A t \in 1 .. n : a.rows[t].id # id)
    BY <1>3 DEF Place, Puts
  <2>3. id \notin out => \A t \in 1 .. n \ {s} : a.rows[t].id # id
    BY <2>2 DEF InSlots
  <2>4. InSlots(n, b.rows, b.saved, out)
    BY <1>3, <2>1, <2>2, <2>3 DEF InSlots
  <2>5. id \notin ids /\ Stored(n, a.rows, a.saved, ids, out) => Stored(n, b.rows, b.saved, ids, out)
    BY <1>3, <2>1 DEF Stored
  <2>6. a.ok /\ Stored(n, a.rows, a.saved, ids, out) => Stored(n, b.rows, b.saved, ids \cup {id}, out)
    BY <2>1, <2>3 DEF Stored
  <2>. QED BY <1>3, <2>2, <2>4, <2>5, <2>6
<1>. QED BY <1>1, <1>2, <1>3 DEF Puts

(* A payload that is taken as a whole is stored as a whole; one that is    *)
(* refused leaves what other requests have stored.                         *)
LEMMA LoopKeeps ==
  ASSUME NEW n \in Nat, NEW R, NEW payload, Len(payload) \in Nat,
         DOMAIN payload = 1 .. Len(payload), NEW rows, NEW saved, NEW g, NEW out,
         Loop(n, R, g, payload, rows, saved), InSlots(n, rows, saved, out),
         NEW ids, NoId \notin ids, Stored(n, rows, saved, ids, out)
  PROVE  LET b == g[Len(payload)]
         IN  /\ b \in Loading(n, R)
             /\ InSlots(n, b.rows, b.saved, out)
             /\ Stored(n, b.rows, b.saved, ids \ IdsOf(payload), out)
             /\ b.ok /\ ~b.stop => Stored(n, b.rows, b.saved, ids \cup IdsOf(payload), out)
<1>. DEFINE m == Len(payload)
            Taken(i) == {IdAt(payload, j) : j \in 1 .. i} \ {NoId}
            T == {i \in 0 .. m :
                    /\ InSlots(n, g[i].rows, g[i].saved, out)
                    /\ Stored(n, g[i].rows, g[i].saved, ids \ IdsOf(payload), out)
                    /\ g[i].ok /\ ~g[i].stop =>
                         Stored(n, g[i].rows, g[i].saved, ids \cup Taken(i), out)}
<1>1. /\ g \in [0 .. m -> Loading(n, R)] /\ g[0] = Opened(rows, saved)
      /\ \A i \in 1 .. m : Puts(n, R, g[i - 1], g[i], IdAt(payload, i))
  BY DEF Loop
<1>2. g[0].rows = rows /\ g[0].saved = saved
  BY <1>1 DEF Opened
<1>3. \A i \in 1 .. m : IdAt(payload, i) = NoId \/ IdAt(payload, i) \in IdsOf(payload)
  BY DEF IdAt, IdsOf
<1>4. 0 \in T
  <2>1. Taken(0) = {}
    OBVIOUS
  <2>2. Stored(n, rows, saved, ids \ IdsOf(payload), out) /\ Stored(n, rows, saved, ids \cup Taken(0), out)
    BY <2>1 DEF Stored
  <2>. QED BY <1>2, <2>2
<1>5. ASSUME NEW i \in 1 .. m, i - 1 \in T PROVE i \in T
  <2>. DEFINE a == g[i - 1]
              b == g[i]
              id == IdAt(payload, i)
  <2>1. /\ a \in Loading(n, R) /\ Puts(n, R, a, b, id)
        /\ InSlots(n, a.rows, a.saved, out)
        /\ Stored(n, a.rows, a.saved, ids \ IdsOf(payload), out)
        /\ a.ok /\ ~a.stop => Stored(n, a.rows, a.saved, ids \cup Taken(i - 1), out)
    BY <1>1, <1>5
  <2>2. id \notin ids \ IdsOf(payload)
    BY <1>3
  <2>3. Taken(i) = (Taken(i - 1) \cup {id}) \ {NoId}
    <3>1. 1 .. i = 1 .. i - 1 \cup {i}
      OBVIOUS
    <3>. QED BY <3>1
  <2>. HIDE DEF a, b, id, Taken
  <2>4. /\ InSlots(n, b.rows, b.saved, out)
        /\ Stored(n, b.rows, b.saved, ids \ IdsOf(payload), out)
    <3>1. NoId \notin ids \ IdsOf(payload)
      OBVIOUS
    <3>. QED BY <2>1, <2>2, <3>1, PutKeeps
  <2>5. ASSUME b.ok, ~b.stop PROVE Stored(n, b.rows, b.saved, ids \cup Taken(i), out)
    <3>. DEFINE known == ids \cup Taken(i - 1)
    <3>1. NoId \notin known
      BY DEF Taken
    <3>. HIDE DEF known
    <3>2. a.ok /\ ~a.stop /\ id # NoId
      BY <2>1, <2>5, <3>1, PutKeeps
    <3>3. Stored(n, a.rows, a.saved, known, out)
      BY <2>1, <3>2 DEF known
    <3>4. Stored(n, b.rows, b.saved, known \cup {id}, out)
      BY <2>1, <2>5, <3>1, <3>3, PutKeeps
    <3>. QED BY <2>3, <3>4 DEF Stored, known
  <2>. QED BY <2>4, <2>5 DEF b
<1>6. m \in T
  <2>. HIDE DEF T, m
  <2>1. m \in Nat
    BY DEF m
  <2>2. \A i \in 0 .. m : i \in T
    BY <1>4, <1>5, <2>1, UpTo
  <2>. QED BY <2>1, <2>2
<1>7. Taken(m) = IdsOf(payload)
  BY DEF IdAt, IdsOf
<1>8. g[m] \in Loading(n, R)
  BY <1>1
<1>. QED BY <1>6, <1>7, <1>8

-----------------------------------------------------------------------------
StorageType ==
  [lsm : LoadState, got : GotType, gpt : GptType, fp : 0 .. MaxFingerprint,
   ia : 0 .. NoIa, iid : Iids \cup {0}, pm : BOOLEAN]

(* The groups of typed tables.                                             *)
LEMMA GroupsTyped ==
  ASSUME NEW g \in GotType, NEW p \in GptType, NEW i \in Iids \cup {0}
  PROVE  Groups(g, p, i) \subseteq (GroupAddresses \cup Grpids) \X (Iids \cup {0})
<1>1. \A n : Received(g, n) \subseteq GroupAddresses
  <2>. SUFFICES ASSUME NEW n PROVE Received(g, n) \subseteq GroupAddresses
    OBVIOUS
  <2>1. \A s \in DOMAIN g : g[s].ga \subseteq GroupAddresses
    BY DEF GotType, GroupObjectRow
  <2>. QED BY <2>1 DEF Received
<1>2. \A a : GrpidOf(p, a) \in Grpids \cup {0}
  <2>. SUFFICES ASSUME NEW a PROVE GrpidOf(p, a) \in Grpids \cup {0}
    OBVIOUS
  <2>. DEFINE rows == {s \in DOMAIN p : a \in p[s].ga}
  <2>1. rows \in SUBSET Nat /\ rows \subseteq 1 .. GptMax
    BY DeviceAssumption DEF GptType
  <2>2. GrpidOf(p, a) = IF rows = {} THEN 0 ELSE p[Least(rows)].grpid
    BY DEF GrpidOf
  <2>. HIDE DEF rows
  <2>3. rows # {} => Least(rows) \in 1 .. GptMax
    BY <2>1, LeastNumber
  <2>. QED BY <2>2, <2>3 DEF GptType, PublisherRow
<1>3. Listened(g, p) \subseteq GroupAddresses \cup Grpids
  BY <1>1, <1>2 DEF Listened, GroupsOf
<1>. QED BY <1>3 DEF Groups

(* Storage of which some first rows have been erased.                      *)
LEMMA ErasedStorage ==
  ASSUME disk \in StorageType, NEW p \in 0 .. GptMax, NEW g \in 0 .. GotMax
  PROVE  /\ Erased(p, g) \in StorageType
         /\ Erased(p, g).lsm = disk.lsm /\ Erased(p, g).ia = disk.ia
         /\ Erased(p, g).iid = disk.iid /\ Erased(p, g).pm = disk.pm
         /\ Erased(p, g).got = [s \in 1 .. GotMax |-> IF s <= g THEN NoGroupObject ELSE disk.got[s]]
         /\ Erased(p, g).gpt = [s \in 1 .. GptMax |-> IF s <= p THEN NoPublisher ELSE disk.gpt[s]]
<1>. DEFINE g2 == [s \in 1 .. GotMax |-> IF s <= g THEN NoGroupObject ELSE disk.got[s]]
            p2 == [s \in 1 .. GptMax |-> IF s <= p THEN NoPublisher ELSE disk.gpt[s]]
<1>1. g2 \in GotType /\ p2 \in GptType
  BY Rows DEF StorageType, GotType, GptType
<1>2. Erased(p, g) = [disk EXCEPT !.gpt = p2, !.got = g2]
  BY DEF Erased, StorageType
<1>. HIDE DEF g2, p2
<1>3. /\ [disk EXCEPT !.gpt = p2, !.got = g2] \in StorageType
      /\ [disk EXCEPT !.gpt = p2, !.got = g2].lsm = disk.lsm
      /\ [disk EXCEPT !.gpt = p2, !.got = g2].ia = disk.ia
      /\ [disk EXCEPT !.gpt = p2, !.got = g2].iid = disk.iid
      /\ [disk EXCEPT !.gpt = p2, !.got = g2].pm = disk.pm
      /\ [disk EXCEPT !.gpt = p2, !.got = g2].got = g2
      /\ [disk EXCEPT !.gpt = p2, !.got = g2].gpt = p2
  BY <1>1 DEF StorageType
<1>. QED BY <1>2, <1>3 DEF g2, p2

LEMMA AllErased ==
  ASSUME disk \in StorageType
  PROVE  LET d == Erased(GptMax, GotMax)
         IN  /\ d \in StorageType /\ d.got = EmptyGot /\ d.gpt = EmptyGpt
             /\ d.lsm = disk.lsm /\ d.ia = disk.ia /\ d.iid = disk.iid /\ d.pm = disk.pm
<1>1. GptMax \in 0 .. GptMax /\ GotMax \in 0 .. GotMax /\ GptMax \in Nat /\ GotMax \in Nat
  BY DeviceAssumption
<1>2. /\ Erased(GptMax, GotMax).got =
           [s \in 1 .. GotMax |-> IF s <= GotMax THEN NoGroupObject ELSE disk.got[s]]
      /\ Erased(GptMax, GotMax).gpt =
           [s \in 1 .. GptMax |-> IF s <= GptMax THEN NoPublisher ELSE disk.gpt[s]]
  BY <1>1, ErasedStorage
<1>3. Erased(GptMax, GotMax).got = EmptyGot
  BY <1>1, <1>2 DEF EmptyGot
<1>4. Erased(GptMax, GotMax).gpt = EmptyGpt
  BY <1>1, <1>2 DEF EmptyGpt
<1>. QED BY <1>1, <1>3, <1>4, ErasedStorage

(* The state a device starts with from typed storage.                      *)
LEMMA BootTyped ==
  ASSUME lost \subseteq Ids, NEW d \in StorageType, Boot(d), {torn', factory'} \subseteq BOOLEAN
  PROVE  TypeOK'
<1>1. /\ disk' = d /\ lsm' = d.lsm /\ ia' = d.ia /\ iid' = d.iid /\ pm' = d.pm
      /\ got' \in Readable(d.got) /\ gpt' = d.gpt /\ fingerprint' = d.fp
      /\ subs' = Groups(got', gpt', iid') /\ resets' = 0 /\ cached' = 0
      /\ acked' = Ids \ LeftOut(got', d.got) /\ refused' = FALSE
      /\ lost' = lost \cup LeftOut(got', d.got)
  BY DEF Boot
<1>2. /\ d.lsm \in LoadState /\ d.got \in GotType /\ d.gpt \in GptType
      /\ d.fp \in 0 .. MaxFingerprint /\ d.ia \in 0 .. NoIa /\ d.iid \in Iids \cup {0}
      /\ d.pm \in BOOLEAN
  BY DEF StorageType
<1>3. got' \in GotType
  BY <1>1, <1>2, Rows DEF Readable, GotType
<1>4. subs' \subseteq (GroupAddresses \cup Grpids) \X (Iids \cup {0})
  BY <1>1, <1>2, <1>3, GroupsTyped
<1>5. resets' \in 0 .. MaxResets /\ cached' \in ResetValues \cup {0}
  BY <1>1, DeviceAssumption
<1>6. disk' \in StorageType
  BY <1>1
<1>7. LeftOut(got', d.got) \subseteq Ids
  BY DEF LeftOut
<1>. QED BY <1>1, <1>2, <1>3, <1>4, <1>5, <1>6, <1>7 DEF TypeOK, StorageType

(* What a payload may leave of the tables.                                 *)
LEMMA GroupObjectsLoaded ==
  ASSUME TypeOK, NEW payload \in Seq(MapsOf(GroupPosts))
  PROVE  Loaded(PutGroupObject, got, disk.got, payload) \in Loading(GotMax, GroupObjectRow)
<1>1. disk.got \in GotType
  BY DEF TypeOK
<1>2. PICK g : /\ Loop(GotMax, GroupObjectRow, g, payload, got, disk.got)
               /\ Loaded(PutGroupObject, got, disk.got, payload) = g[Len(payload)]
  BY <1>1, GroupObjectLoop DEF TypeOK
<1>. QED BY <1>2, MapsOfPayload DEF Loop

LEMMA PublishersLoaded ==
  ASSUME TypeOK, NEW payload \in Seq(MapsOf(PublisherPosts))
  PROVE  /\ Loaded(PutPublisher, gpt, disk.gpt, payload) \in Loading(GptMax, PublisherRow)
         /\ gpt = disk.gpt => Loaded(PutPublisher, gpt, disk.gpt, payload).rows =
                                Loaded(PutPublisher, gpt, disk.gpt, payload).saved
<1>1. disk.gpt \in GptType
  BY DEF TypeOK
<1>2. PICK g : /\ Loop(GptMax, PublisherRow, g, payload, gpt, disk.gpt)
               /\ Loaded(PutPublisher, gpt, disk.gpt, payload) = g[Len(payload)]
               /\ gpt = disk.gpt => \A i \in 0 .. Len(payload) : g[i].rows = g[i].saved
  BY <1>1, PublisherLoop DEF TypeOK
<1>. QED BY <1>2, MapsOfPayload DEF Loop

LEMMA IdsOfPayload ==
  \A payload \in GroupPosts \cup PublisherPosts : IdsOf(payload) \subseteq Ids
<1>1. \A payload \in GroupPosts : \A i \in DOMAIN payload : payload[i] \in MapsOf(GroupPosts)
  BY DEF MapsOf
<1>2. \A payload \in PublisherPosts : \A i \in DOMAIN payload : payload[i] \in MapsOf(PublisherPosts)
  BY DEF MapsOf
<1>. QED BY <1>1, <1>2, PostsAssumption DEF IdsOf, IdOf


(* Storage says what memory says of the load state, the addresses and the  *)
(* publishers, so that a start brings them back; after a factory reset it  *)
(* has nothing to bring back.                                              *)
Agrees ==
  /\ lsm = disk.lsm /\ ia = disk.ia /\ iid = disk.iid /\ gpt = disk.gpt
  /\ ia > 0

NothingStored == factory => disk.got = EmptyGot /\ ~disk.pm

\* A device in run time listens to the groups the installation goes through.
Listening == InRuntime /\ ~refused => Groups(got, gpt, iid) \subseteq subs

DeviceInv ==
  TypeOK /\ Agrees /\ NothingStored /\ UnloadedIsEmpty /\ FactoryResetHolds /\ Listening

(* After an installation the device listens to all its groups.             *)
LEMMA Installed ==
  ASSUME TypeOK, got' \in GotType, gpt' \in GptType, iid' \in Iids \cup {0}, Install
  PROVE  /\ subs' \subseteq (GroupAddresses \cup Grpids) \X (Iids \cup {0})
         /\ Listening'
<1>1. Groups(got', gpt', iid') \subseteq (GroupAddresses \cup Grpids) \X (Iids \cup {0})
  BY GroupsTyped
<1>2. subs' = subs \cup (IF InRuntime' THEN Groups(got', gpt', iid') ELSE {})
  BY DEF Install
<1>3. InRuntime' => Groups(got, gpt, iid)' \subseteq subs'
  BY <1>2 DEF Groups, Listened, GroupsOf, Received, GrpidOf, Receives
<1>4. subs' \subseteq (GroupAddresses \cup Grpids) \X (Iids \cup {0})
  BY <1>1, <1>2 DEF TypeOK
<1>. QED BY <1>3, <1>4 DEF Listening

(* The load events.                                                        *)
LEMMA LoadEventDevice ==
  ASSUME DeviceInv, Nop \/ StartLoading \/ LoadComplete \/ Unload
  PROVE  DeviceInv'
<1>. USE DEF DeviceInv
<1>1. /\ factory' = FALSE /\ Install
      /\ UNCHANGED <<fingerprint, ia, iid, pm, resets, cached, acked, refused>>
      /\ lost' \in {lost, {}}
  BY DEF Nop, StartLoading, LoadComplete, Unload, Requested, config, tables, delayed
<1>2. disk \in StorageType
  BY DEF TypeOK, StorageType
<1>3. /\ got' \in GotType /\ gpt' \in GptType /\ lsm' \in LoadState /\ disk' \in StorageType
      /\ torn' \in {torn, FALSE}
      /\ lsm' = disk'.lsm /\ disk'.ia = disk.ia /\ disk'.iid = disk.iid /\ gpt' = disk'.gpt
      /\ lsm' = "unloaded" /\ ~torn' =>
           got' = EmptyGot /\ gpt' = EmptyGpt /\ disk'.got = EmptyGot /\ disk'.gpt = EmptyGpt
  <2>1. CASE Nop
    BY <1>2, <2>1 DEF Nop, config, tables, Agrees, TypeOK, UnloadedIsEmpty
  <2>2. ASSUME NEW state \in LoadState \ {"unloaded"}, SetState(state), UNCHANGED <<got, gpt, torn>>
        PROVE  /\ lsm' \in LoadState /\ disk' \in StorageType
               /\ lsm' = disk'.lsm /\ disk'.ia = disk.ia /\ disk'.iid = disk.iid
               /\ gpt' = disk'.gpt /\ lsm' # "unloaded"
    BY <1>2, <2>2 DEF SetState, Agrees, TypeOK, StorageType
  <2>3. CASE StartLoading \/ LoadComplete
    <3>1. \E state \in LoadState \ {"unloaded"} : SetState(state) /\ UNCHANGED <<got, gpt, torn>>
      BY <2>3 DEF StartLoading, LoadComplete, LoadState, tables
    <3>. QED BY <2>2, <3>1 DEF TypeOK
  <2>4. CASE Unload
    <3>. DEFINE d == Erased(GptMax, GotMax)
    <3>1. d \in StorageType /\ d.got = EmptyGot /\ d.gpt = EmptyGpt
          /\ d.ia = disk.ia /\ d.iid = disk.iid
      BY <1>2, AllErased
    <3>2. /\ got' = EmptyGot /\ gpt' = EmptyGpt /\ lsm' = "unloaded" /\ torn' = FALSE
          /\ disk' = [d EXCEPT !.lsm = "unloaded"]
      BY <2>4 DEF Unload
    <3>. HIDE DEF d
    <3>3. /\ disk' \in StorageType /\ disk'.lsm = "unloaded" /\ disk'.got = EmptyGot
          /\ disk'.gpt = EmptyGpt /\ disk'.ia = disk.ia /\ disk'.iid = disk.iid
      BY <3>1, <3>2 DEF StorageType, LoadState
    <3>. QED BY <3>2, <3>3, Rows DEF LoadState
  <2>. QED BY <2>1, <2>3, <2>4
<1>4. iid' \in Iids \cup {0} /\ ia' > 0
  BY <1>1 DEF TypeOK, Agrees
<1>5. /\ subs' \subseteq (GroupAddresses \cup Grpids) \X (Iids \cup {0})
      /\ Listening'
  BY <1>1, <1>3, <1>4, Installed
<1>6. torn' \in BOOLEAN /\ factory' \in BOOLEAN /\ refused' \in BOOLEAN
  BY <1>1, <1>3, Zenon DEF TypeOK
<1>7. TypeOK'
  BY <1>1, <1>3, <1>5, <1>6 DEF TypeOK, StorageType
<1>8. Agrees' /\ NothingStored' /\ UnloadedIsEmpty' /\ FactoryResetHolds'
  BY <1>1, <1>3, <1>4 DEF Agrees, NothingStored, UnloadedIsEmpty, FactoryResetHolds
<1>. QED BY <1>5, <1>7, <1>8

(* A request that deletes a row is about its id.                           *)
LEMMA IdOfDeleted ==
  ASSUME NEW id \in Ids
  PROVE  IdsOf(<<[id |-> id]>>) = {id}
<1>. DEFINE p == <<[id |-> id]>>
<1>1. DOMAIN p = {1} /\ p[1] = [id |-> id]
  OBVIOUS
<1>2. IdOf([id |-> id]) = id
  BY DEF IdOf
<1>3. id # NoId
  BY DeviceAssumption DEF NoId
<1>. HIDE DEF p
<1>4. IdsOf(p) = {id}
  BY <1>1, <1>2, <1>3 DEF IdsOf
<1>. QED BY <1>4, Zenon DEF p


(* The requests to the tables, which are taken while the device loads.     *)
LEMMA FoundRow ==
  ASSUME NEW n \in Nat, NEW R, NEW rows \in [1 .. n -> R], NEW id,
         {s \in DOMAIN rows : rows[s].id = id} # {}
  PROVE  LET s == Least({t \in DOMAIN rows : rows[t].id = id})
         IN  s \in 1 .. n /\ rows[s].id = id
<1>. DEFINE used == {s \in DOMAIN rows : rows[s].id = id}
<1>1. used \in SUBSET Nat /\ used # {} /\ used \subseteq 1 .. n
  OBVIOUS
<1>2. Least(used) \in used
  BY <1>1, LeastNumber
<1>. QED BY <1>1, <1>2

(* The requests to the tables, which are taken while the device loads.     *)
LEMMA TableDevice ==
  ASSUME DeviceInv,
         \/ \E payload \in GroupPosts : PostGroupObjects(payload)
         \/ \E payload \in PublisherPosts : PostPublishers(payload)
         \/ \E id \in Ids : DeleteGroupObject(id) \/ DeletePublisher(id)
  PROVE  DeviceInv'
<1>. USE DEF DeviceInv
<1>1. /\ lsm = "loading" /\ factory' = FALSE /\ fingerprint < MaxFingerprint
      /\ UNCHANGED <<lsm, ia, iid, pm, subs, resets, cached, refused, torn, lost>>
  BY DEF PostGroupObjects, PostPublishers, DeleteGroupObject, DeletePublisher, Touch, Requested,
     delayed
<1>2. fingerprint' \in 0 .. MaxFingerprint
  <2>1. \E more \in {0, 1} : fingerprint' = fingerprint + more
    BY DEF PostGroupObjects, PostPublishers, DeleteGroupObject, DeletePublisher, Touch
  <2>. QED BY <1>1, <2>1, DeviceAssumption DEF TypeOK
<1>3. disk \in StorageType /\ GotMax \in Nat /\ GptMax \in Nat
  BY DeviceAssumption DEF TypeOK, StorageType
<1>4. /\ got' \in GotType /\ gpt' \in GptType /\ disk' \in StorageType /\ acked' \subseteq Ids
      /\ gpt' = disk'.gpt /\ disk'.lsm = disk.lsm /\ disk'.ia = disk.ia /\ disk'.iid = disk.iid
  <2>1. ASSUME NEW payload \in GroupPosts, PostGroupObjects(payload)
        PROVE  /\ got' \in GotType /\ gpt' \in GptType /\ disk' \in StorageType
               /\ acked' \subseteq Ids /\ gpt' = disk'.gpt /\ disk'.lsm = disk.lsm
               /\ disk'.ia = disk.ia /\ disk'.iid = disk.iid
    <3>. DEFINE acc == Loaded(PutGroupObject, got, disk.got, payload)
    <3>1. acc.rows \in GotType /\ acc.saved \in GotType
      BY PostsAssumption, GroupObjectsLoaded DEF Loading, GotType
    <3>2. /\ got' = acc.rows /\ UNCHANGED gpt
          /\ disk' = [disk EXCEPT !.got = acc.saved, !.fp = fingerprint']
          /\ acked' \in {acked \cup IdsOf(payload), acked \ IdsOf(payload)}
      BY <2>1 DEF PostGroupObjects, Touch
    <3>. HIDE DEF acc
    <3>3. /\ disk' \in StorageType /\ disk'.lsm = disk.lsm /\ disk'.ia = disk.ia
          /\ disk'.iid = disk.iid /\ disk'.gpt = disk.gpt
      BY <1>2, <1>3, <3>1, <3>2 DEF StorageType
    <3>4. acked' \subseteq Ids
      BY <3>2, IdsOfPayload DEF TypeOK
    <3>. QED BY <3>1, <3>2, <3>3, <3>4 DEF TypeOK, Agrees
  <2>2. ASSUME NEW payload \in PublisherPosts, PostPublishers(payload)
        PROVE  /\ got' \in GotType /\ gpt' \in GptType /\ disk' \in StorageType
               /\ acked' \subseteq Ids /\ gpt' = disk'.gpt /\ disk'.lsm = disk.lsm
               /\ disk'.ia = disk.ia /\ disk'.iid = disk.iid
    <3>. DEFINE acc == Loaded(PutPublisher, gpt, disk.gpt, payload)
    <3>1. acc.rows \in GptType /\ acc.saved = acc.rows
      BY PostsAssumption, PublishersLoaded DEF Loading, GptType, Agrees
    <3>2. /\ gpt' = acc.rows /\ UNCHANGED got
          /\ disk' = [disk EXCEPT !.gpt = acc.saved, !.fp = fingerprint']
          /\ acked' = acked \cup IdsOf(<<>>)
      BY <2>2 DEF PostPublishers, Touch
    <3>. HIDE DEF acc
    <3>3. /\ disk' \in StorageType /\ disk'.lsm = disk.lsm /\ disk'.ia = disk.ia
          /\ disk'.iid = disk.iid /\ disk'.gpt = acc.rows
      BY <1>2, <1>3, <3>1, <3>2 DEF StorageType
    <3>4. acked' \subseteq Ids
      BY <3>2 DEF TypeOK, IdsOf
    <3>. QED BY <3>1, <3>2, <3>3, <3>4 DEF TypeOK
  <2>3. ASSUME NEW id \in Ids, DeleteGroupObject(id)
        PROVE  /\ got' \in GotType /\ gpt' \in GptType /\ disk' \in StorageType
               /\ acked' \subseteq Ids /\ gpt' = disk'.gpt /\ disk'.lsm = disk.lsm
               /\ disk'.ia = disk.ia /\ disk'.iid = disk.iid
    <3>. DEFINE used == {t \in DOMAIN got : got[t].id = id}
                s == Least(used)
                acc == Row(Opened(got, disk.got), s, NoGroupObject)
    <3>1. s \in 1 .. GotMax
      <4>1. used # {}
        BY <2>3 DEF DeleteGroupObject
      <4>2. used \subseteq 1 .. GotMax /\ used \in SUBSET Nat
        BY <1>3 DEF TypeOK, GotType
      <4>. HIDE DEF used
      <4>. QED BY <4>1, <4>2, LeastNumber
    <3>2. acc.rows \in GotType /\ acc.saved \in GotType
      <4>1. Opened(got, disk.got) \in Loading(GotMax, GroupObjectRow)
        BY <1>3, OpenedTable DEF TypeOK, GotType, StorageType
      <4>2. acc \in Loading(GotMax, GroupObjectRow)
        BY <3>1, <4>1, Rows, RowWritten
      <4>. QED BY <4>2 DEF Loading, GotType
    <3>3. /\ got' = acc.rows /\ UNCHANGED gpt
          /\ disk' = [disk EXCEPT !.got = acc.saved, !.fp = fingerprint']
          /\ acked' = acked \cup IdsOf(<<[id |-> id]>>)
      BY <2>3 DEF DeleteGroupObject, Touch
    <3>. HIDE DEF acc
    <3>4. /\ disk' \in StorageType /\ disk'.lsm = disk.lsm /\ disk'.ia = disk.ia
          /\ disk'.iid = disk.iid /\ disk'.gpt = disk.gpt
      BY <1>2, <1>3, <3>2, <3>3 DEF StorageType
    <3>5. acked' \subseteq Ids
      BY <3>3, IdOfDeleted DEF TypeOK
    <3>. QED BY <3>2, <3>3, <3>4, <3>5 DEF TypeOK, Agrees
  <2>4. ASSUME NEW id \in Ids, DeletePublisher(id)
        PROVE  /\ got' \in GotType /\ gpt' \in GptType /\ disk' \in StorageType
               /\ acked' \subseteq Ids /\ gpt' = disk'.gpt /\ disk'.lsm = disk.lsm
               /\ disk'.ia = disk.ia /\ disk'.iid = disk.iid
    <3>. DEFINE used == {t \in DOMAIN gpt : gpt[t].id = id}
                s == Least(used)
                acc == Row(Opened(gpt, disk.gpt), s, NoPublisher)
    <3>1. s \in 1 .. GptMax
      <4>1. used # {}
        BY <2>4 DEF DeletePublisher
      <4>2. used \subseteq 1 .. GptMax /\ used \in SUBSET Nat
        BY <1>3 DEF TypeOK, GptType
      <4>. HIDE DEF used
      <4>. QED BY <4>1, <4>2, LeastNumber
    <3>2. acc.rows \in GptType /\ acc.saved = acc.rows
      <4>0. gpt \in [1 .. GptMax -> PublisherRow] /\ disk.gpt = gpt
        BY DEF TypeOK, GptType, Agrees
      <4>1. /\ Opened(gpt, disk.gpt) \in Loading(GptMax, PublisherRow)
            /\ Opened(gpt, disk.gpt).rows = gpt /\ Opened(gpt, disk.gpt).saved = gpt
        BY <4>0 DEF Opened, Loading
      <4>. HIDE DEF s
      <4>2. /\ acc \in Loading(GptMax, PublisherRow)
            /\ acc.rows = [gpt EXCEPT ![s] = NoPublisher]
            /\ acc.saved = [gpt EXCEPT ![s] = NoPublisher]
        BY <3>1, <4>1, Rows, RowWritten
      <4>. QED BY <4>2 DEF Loading, GptType
    <3>3. /\ gpt' = acc.rows /\ UNCHANGED got
          /\ disk' = [disk EXCEPT !.gpt = acc.saved, !.fp = fingerprint']
          /\ acked' = acked \cup IdsOf(<<>>)
      BY <2>4 DEF DeletePublisher, Touch
    <3>. HIDE DEF acc
    <3>4. /\ disk' \in StorageType /\ disk'.lsm = disk.lsm /\ disk'.ia = disk.ia
          /\ disk'.iid = disk.iid /\ disk'.gpt = acc.rows
      BY <1>2, <1>3, <3>2, <3>3 DEF StorageType
    <3>5. acked' \subseteq Ids
      BY <3>3 DEF TypeOK, IdsOf
    <3>. QED BY <3>2, <3>3, <3>4, <3>5 DEF TypeOK
  <2>. QED BY <2>1, <2>2, <2>3, <2>4
<1>5. factory' \in BOOLEAN /\ torn' \in BOOLEAN /\ refused' \in BOOLEAN
  BY <1>1, Zenon DEF TypeOK
<1>6. TypeOK'
  BY <1>1, <1>2, <1>4, <1>5 DEF TypeOK, StorageType
<1>7. Agrees' /\ NothingStored' /\ UnloadedIsEmpty' /\ FactoryResetHolds' /\ Listening'
  BY <1>1, <1>4 DEF Agrees, NothingStored, UnloadedIsEmpty, FactoryResetHolds,
     Listening, InRuntime
<1>. QED BY <1>6, <1>7


(* A device that stays in run time as it is listens as before.             *)
LEMMA StillListens ==
  ASSUME Listening, UNCHANGED <<got, gpt, iid, subs, refused>>, InRuntime' => InRuntime
  PROVE  Listening'
<1>1. Groups(got, gpt, iid)' = Groups(got, gpt, iid)
  BY DEF Groups, Listened, GroupsOf, Received, Receives, GrpidOf
<1>2. InRuntime' /\ ~refused' => Groups(got, gpt, iid)' \subseteq subs'
  BY <1>1, Zenon DEF Listening
<1>. QED BY <1>2 DEF Listening

(* The requests that set the addresses and the programming mode.           *)
LEMMA MergedAddresses ==
  ASSUME disk \in StorageType, NEW fields, DOMAIN fields \subseteq {"ia", "iid"},
         "ia" \in DOMAIN fields => fields.ia \in 0 .. NoIa,
         "iid" \in DOMAIN fields => fields.iid \in Iids \cup {0}
  PROVE  LET d == Merged(fields, disk)
         IN  /\ d \in StorageType
             /\ d.ia = (IF "ia" \in DOMAIN fields THEN fields.ia ELSE disk.ia)
             /\ d.iid = (IF "iid" \in DOMAIN fields THEN fields.iid ELSE disk.iid)
             /\ d.lsm = disk.lsm /\ d.got = disk.got /\ d.gpt = disk.gpt
<1>. DEFINE d == Merged(fields, disk)
<1>1. /\ DOMAIN disk = {"lsm", "got", "gpt", "fp", "ia", "iid", "pm"}
      /\ disk.lsm \in LoadState /\ disk.got \in GotType /\ disk.gpt \in GptType
      /\ disk.fp \in 0 .. MaxFingerprint /\ disk.ia \in 0 .. NoIa
      /\ disk.iid \in Iids \cup {0} /\ disk.pm \in BOOLEAN
  BY DEF StorageType
<1>2. /\ DOMAIN d = {"lsm", "got", "gpt", "fp", "ia", "iid", "pm"}
      /\ d = [k \in DOMAIN d |-> d[k]]
      /\ d.ia = (IF "ia" \in DOMAIN fields THEN fields.ia ELSE disk.ia)
      /\ d.iid = (IF "iid" \in DOMAIN fields THEN fields.iid ELSE disk.iid)
      /\ d.lsm = disk.lsm /\ d.got = disk.got /\ d.gpt = disk.gpt /\ d.fp = disk.fp
      /\ d.pm = disk.pm
  BY <1>1 DEF Merged
<1>. HIDE DEF d
<1>3. d \in [lsm : LoadState, got : GotType, gpt : GptType, fp : 0 .. MaxFingerprint,
             ia : 0 .. NoIa, iid : Iids \cup {0}, pm : BOOLEAN]
  BY <1>1, <1>2
<1>. QED BY <1>2, <1>3 DEF d, StorageType

LEMMA AddressDevice ==
  ASSUME DeviceInv,
         \/ \E a \in {NoIa - 1}, i \in Iids :
              \E fields \in {[ia |-> a, iid |-> i], [ia |-> a], [iid |-> i]} : PostIa(fields)
         \/ \E i \in Iids : PutIid(i)
         \/ \E b \in BOOLEAN : PutPm(b)
  PROVE  DeviceInv'
<1>. USE DEF DeviceInv
<1>1. /\ factory' = FALSE
      /\ UNCHANGED <<lsm, got, gpt, fingerprint, resets, cached, acked, torn, lost>>
  BY DEF PostIa, PutIid, PutPm, Requested, tables, delayed
<1>2. disk \in StorageType
  BY DEF TypeOK, StorageType
<1>3. got' \in GotType /\ gpt' \in GptType
  BY <1>1 DEF TypeOK
<1>4. /\ ia' \in 0 .. NoIa /\ ia' > 0 /\ iid' \in Iids \cup {0} /\ pm' \in BOOLEAN
      /\ disk' \in StorageType /\ ia' = disk'.ia /\ iid' = disk'.iid
      /\ disk'.lsm = disk.lsm /\ disk'.got = disk.got /\ disk'.gpt = disk.gpt
      /\ refused' \in BOOLEAN
      /\ subs' \subseteq (GroupAddresses \cup Grpids) \X (Iids \cup {0})
      /\ Listening'
  <2>1. ASSUME NEW a \in {NoIa - 1}, NEW i \in Iids,
               NEW fields \in {[ia |-> a, iid |-> i], [ia |-> a], [iid |-> i]}, PostIa(fields)
        PROVE  /\ ia' \in 0 .. NoIa /\ ia' > 0 /\ iid' \in Iids \cup {0} /\ pm' \in BOOLEAN
               /\ disk' \in StorageType /\ ia' = disk'.ia /\ iid' = disk'.iid
               /\ disk'.lsm = disk.lsm /\ disk'.got = disk.got /\ disk'.gpt = disk.gpt
               /\ refused' \in BOOLEAN
               /\ subs' \subseteq (GroupAddresses \cup Grpids) \X (Iids \cup {0})
               /\ Listening'
    <3>1. /\ DOMAIN fields \subseteq {"ia", "iid"}
          /\ "ia" \in DOMAIN fields => fields.ia \in 0 .. NoIa /\ fields.ia > 0
          /\ "iid" \in DOMAIN fields => fields.iid \in Iids \cup {0}
      <4>1. a \in 0 .. NoIa /\ a > 0
        BY DEF NoIa
      <4>2. CASE fields = [ia |-> a, iid |-> i]
        BY <4>1, <4>2
      <4>3. CASE fields = [ia |-> a]
        BY <4>1, <4>3
      <4>4. CASE fields = [iid |-> i]
        BY <4>4
      <4>. QED BY <4>2, <4>3, <4>4
    <3>2. /\ ia' = IF "ia" \in DOMAIN fields THEN fields.ia ELSE ia
          /\ iid' = IF "iid" \in DOMAIN fields THEN fields.iid ELSE iid
          /\ disk' = Merged(fields, disk) /\ pm' = pm
      BY <2>1 DEF PostIa
    <3>3. refused' \in BOOLEAN /\ (refused' \/ ~refused')
      BY <2>1, Zenon DEF PostIa
    <3>4. CASE refused'
      <4>1. UNCHANGED subs
        BY <2>1, <3>4 DEF PostIa
      <4>2. Listening'
        BY <3>4 DEF Listening
      <4>. QED BY <1>2, <3>1, <3>2, <3>3, <4>1, <4>2, MergedAddresses DEF TypeOK, Agrees
    <3>5. CASE ~refused'
      <4>1. Install
        BY <2>1, <3>5 DEF PostIa
      <4>2. iid' \in Iids \cup {0}
        BY <3>1, <3>2 DEF TypeOK
      <4>3. subs' \subseteq (GroupAddresses \cup Grpids) \X (Iids \cup {0}) /\ Listening'
        BY <1>3, <4>1, <4>2, Installed
      <4>. QED BY <1>2, <3>1, <3>2, <3>3, <4>3, MergedAddresses DEF TypeOK, Agrees
    <3>. QED BY <3>3, <3>4, <3>5
  <2>2. ASSUME NEW i \in Iids, PutIid(i)
        PROVE  /\ ia' \in 0 .. NoIa /\ ia' > 0 /\ iid' \in Iids \cup {0} /\ pm' \in BOOLEAN
               /\ disk' \in StorageType /\ ia' = disk'.ia /\ iid' = disk'.iid
               /\ disk'.lsm = disk.lsm /\ disk'.got = disk.got /\ disk'.gpt = disk.gpt
               /\ refused' \in BOOLEAN
               /\ subs' \subseteq (GroupAddresses \cup Grpids) \X (Iids \cup {0})
               /\ Listening'
    <3>1. /\ iid' = i /\ disk' = [disk EXCEPT !.iid = i] /\ refused' = FALSE /\ Install
          /\ UNCHANGED <<ia, pm>>
      BY <2>2 DEF PutIid
    <3>2. /\ disk' \in StorageType /\ iid' = disk'.iid /\ disk'.ia = disk.ia
          /\ disk'.lsm = disk.lsm /\ disk'.got = disk.got /\ disk'.gpt = disk.gpt
      BY <1>2, <3>1 DEF StorageType
    <3>3. subs' \subseteq (GroupAddresses \cup Grpids) \X (Iids \cup {0}) /\ Listening'
      BY <1>3, <3>1, Installed
    <3>. QED BY <3>1, <3>2, <3>3 DEF TypeOK, Agrees
  <2>3. ASSUME NEW b \in BOOLEAN, PutPm(b)
        PROVE  /\ ia' \in 0 .. NoIa /\ ia' > 0 /\ iid' \in Iids \cup {0} /\ pm' \in BOOLEAN
               /\ disk' \in StorageType /\ ia' = disk'.ia /\ iid' = disk'.iid
               /\ disk'.lsm = disk.lsm /\ disk'.got = disk.got /\ disk'.gpt = disk.gpt
               /\ refused' \in BOOLEAN
               /\ subs' \subseteq (GroupAddresses \cup Grpids) \X (Iids \cup {0})
               /\ Listening'
    <3>1. /\ pm' = b /\ disk' = [disk EXCEPT !.pm = b]
          /\ UNCHANGED <<ia, iid, subs, refused>>
      BY <2>3 DEF PutPm
    <3>2. /\ disk' \in StorageType /\ disk'.iid = disk.iid /\ disk'.ia = disk.ia
          /\ disk'.lsm = disk.lsm /\ disk'.got = disk.got /\ disk'.gpt = disk.gpt
      BY <1>2, <3>1 DEF StorageType
    <3>3. Listening'
      BY <1>1, <3>1, StillListens DEF InRuntime
    <3>4. refused' \in BOOLEAN
      BY <3>1, Zenon DEF TypeOK
    <3>. QED BY <3>1, <3>2, <3>3, <3>4 DEF TypeOK, Agrees
  <2>. QED BY <2>1, <2>2, <2>3
<1>5. torn' \in BOOLEAN /\ factory' \in BOOLEAN
  BY <1>1, Zenon DEF TypeOK
<1>6. TypeOK'
  BY <1>1, <1>3, <1>4, <1>5 DEF TypeOK, StorageType
<1>7. Agrees' /\ NothingStored' /\ UnloadedIsEmpty' /\ FactoryResetHolds'
  BY <1>1, <1>4 DEF Agrees, NothingStored, UnloadedIsEmpty, FactoryResetHolds
<1>. QED BY <1>4, <1>6, <1>7


(* A restart and the resets.                                               *)
LEMMA ResetDevice ==
  ASSUME DeviceInv,
         RestartDevice \/ (\E v \in ResetValues : RequestReset(v)) \/ DelayedReset
  PROVE  DeviceInv'
<1>. USE DEF DeviceInv
<1>1. disk \in StorageType
  BY DEF TypeOK, StorageType
<1>2. CASE RestartDevice \/ \E v \in ResetValues : RequestReset(v)
  <2>1. /\ UNCHANGED <<lsm, got, gpt, fingerprint, ia, iid, disk, subs, acked, refused, torn, factory>>
        /\ UNCHANGED lost
        /\ pm' \in {pm, FALSE}
    BY <1>2 DEF RestartDevice, RequestReset, config, tables, history, delayed
  <2>2. resets' \in 0 .. MaxResets /\ cached' \in ResetValues \cup {0}
    BY <1>2, DeviceAssumption DEF RestartDevice, RequestReset, delayed, TypeOK
  <2>3. pm' \in BOOLEAN
    BY <2>1, Zenon DEF TypeOK
  <2>4. refused' \in BOOLEAN /\ torn' \in BOOLEAN /\ factory' \in BOOLEAN
    BY <2>1, Zenon DEF TypeOK
  <2>5. TypeOK'
    BY <2>1, <2>2, <2>3, <2>4 DEF TypeOK
  <2>6. Listening'
    BY <2>1, StillListens DEF InRuntime
  <2>7. Agrees' /\ NothingStored' /\ UnloadedIsEmpty'
    BY <2>1 DEF Agrees, NothingStored, UnloadedIsEmpty
  <2>8. FactoryResetHolds'
    BY <2>1 DEF FactoryResetHolds
  <2>. QED BY <2>5, <2>6, <2>7, <2>8
<1>3. CASE DelayedReset
  <2>1. /\ resets' \in 0 .. MaxResets /\ cached' \in {0, cached} /\ UNCHANGED subs
        /\ FactoryReset \/ ResetIa \/ ResetTables
    BY <1>3, DeviceAssumption DEF DelayedReset, TypeOK
  <2>2. UNCHANGED <<fingerprint, acked, refused>> /\ lost' \in {lost, {}}
    BY <2>1 DEF FactoryReset, ResetIa, ResetTables, history, tables
  <2>3. NoIa \in 0 .. NoIa /\ NoIa > 0
    BY DEF NoIa
  <2>4. CASE FactoryReset
    <3>1. /\ got' = EmptyGot /\ gpt' = EmptyGpt /\ lsm' = "unloaded" /\ ia' = NoIa /\ iid' = 0
          /\ pm' = FALSE /\ torn' = FALSE /\ factory' = TRUE
          /\ disk' = [AddressErased(4) EXCEPT !.got = EmptyGot, !.gpt = EmptyGpt]
      BY <2>4 DEF FactoryReset
    <3>2. /\ disk' \in StorageType /\ disk'.lsm = "unloaded" /\ disk'.ia = NoIa /\ disk'.iid = 0
          /\ disk'.pm = FALSE /\ disk'.got = EmptyGot /\ disk'.gpt = EmptyGpt
      <4>1. AddressErased(4) = [disk EXCEPT !.ia = NoIa, !.iid = 0, !.pm = FALSE,
                                            !.lsm = "unloaded"]
        BY <1>1 DEF AddressErased, StorageType
      <4>. QED BY <1>1, <2>3, <3>1, <4>1, Rows DEF StorageType, LoadState
    <3>3. refused' \in BOOLEAN
      BY <2>2, Zenon DEF TypeOK
    <3>4. TypeOK'
      BY <2>1, <2>2, <2>3, <3>1, <3>2, <3>3, Rows DEF TypeOK, StorageType, LoadState
    <3>5. Agrees' /\ NothingStored' /\ UnloadedIsEmpty' /\ FactoryResetHolds'
      BY <2>3, <3>1, <3>2 DEF Agrees, NothingStored, UnloadedIsEmpty, FactoryResetHolds
    <3>6. Listening'
      BY <3>1 DEF Listening, InRuntime
    <3>. QED BY <3>4, <3>5, <3>6
  <2>5. CASE ResetIa
    <3>1. /\ ia' = NoIa /\ pm' = FALSE /\ disk' = [disk EXCEPT !.ia = NoIa]
          /\ UNCHANGED <<lsm, got, gpt, iid, torn, factory>>
      BY <2>5 DEF ResetIa, tables, history
    <3>2. /\ disk' \in StorageType /\ disk'.lsm = disk.lsm /\ disk'.ia = NoIa
          /\ disk'.iid = disk.iid /\ disk'.pm = disk.pm /\ disk'.got = disk.got
          /\ disk'.gpt = disk.gpt
      BY <1>1, <2>3, <3>1 DEF StorageType
    <3>3. refused' \in BOOLEAN /\ torn' \in BOOLEAN /\ factory' \in BOOLEAN
      BY <2>2, <3>1, Zenon DEF TypeOK
    <3>4. TypeOK'
      BY <2>1, <2>2, <2>3, <3>1, <3>2, <3>3 DEF TypeOK, StorageType
    <3>5. Agrees' /\ NothingStored' /\ UnloadedIsEmpty' /\ FactoryResetHolds'
      BY <2>3, <3>1, <3>2 DEF Agrees, NothingStored, UnloadedIsEmpty, FactoryResetHolds
    <3>6. Listening'
      BY <2>1, <2>2, <3>1, StillListens DEF InRuntime, Agrees
    <3>. QED BY <3>4, <3>5, <3>6
  <2>6. CASE ResetTables
    <3>. DEFINE d == Erased(GptMax, GotMax)
    <3>1. /\ got' = EmptyGot /\ gpt' = EmptyGpt /\ lsm' = "unloaded" /\ pm' = FALSE
          /\ torn' = FALSE /\ disk' = [d EXCEPT !.lsm = "unloaded"]
          /\ UNCHANGED <<ia, iid, factory>>
      BY <2>6 DEF ResetTables
    <3>2. /\ d \in StorageType /\ d.got = EmptyGot /\ d.gpt = EmptyGpt
          /\ d.ia = disk.ia /\ d.iid = disk.iid /\ d.pm = disk.pm
      BY <1>1, AllErased
    <3>. HIDE DEF d
    <3>3. /\ disk' \in StorageType /\ disk'.lsm = "unloaded" /\ disk'.ia = disk.ia
          /\ disk'.iid = disk.iid /\ disk'.pm = disk.pm /\ disk'.got = EmptyGot
          /\ disk'.gpt = EmptyGpt
      BY <3>1, <3>2 DEF StorageType, LoadState
    <3>4. refused' \in BOOLEAN /\ torn' \in BOOLEAN /\ factory' \in BOOLEAN
      BY <2>2, <3>1, Zenon DEF TypeOK
    <3>5. TypeOK'
      BY <2>1, <2>2, <3>1, <3>3, <3>4, Rows DEF TypeOK, StorageType, LoadState
    <3>6. Agrees' /\ NothingStored' /\ UnloadedIsEmpty' /\ FactoryResetHolds'
      BY <3>1, <3>3 DEF Agrees, NothingStored, UnloadedIsEmpty, FactoryResetHolds
    <3>7. Listening'
      BY <3>1 DEF Listening, InRuntime
    <3>. QED BY <3>5, <3>6, <3>7
  <2>. QED BY <2>1, <2>4, <2>5, <2>6
<1>. QED BY <1>2, <1>3

(* A start from storage, as it is or as an interrupted step has left it.   *)
LEMMA BootDevice ==
  ASSUME DeviceInv, NEW d \in StorageType, Boot(d), torn' \in BOOLEAN, factory' \in BOOLEAN,
         d.ia > 0,
         d.lsm = "unloaded" /\ ~torn' => d.got = EmptyGot /\ d.gpt = EmptyGpt,
         factory' => /\ d.lsm = "unloaded" /\ d.ia = NoIa /\ d.iid = 0 /\ d.pm = FALSE
                     /\ d.got = EmptyGot /\ d.gpt = EmptyGpt
  PROVE  DeviceInv'
<1>1. /\ disk' = d /\ lsm' = d.lsm /\ ia' = d.ia /\ iid' = d.iid /\ pm' = d.pm
      /\ got' \in Readable(d.got) /\ gpt' = d.gpt
      /\ subs' = Groups(got', gpt', iid')
  BY DEF Boot
<1>2. TypeOK'
  BY BootTyped DEF DeviceInv, TypeOK
<1>3. d.got = EmptyGot => got' = EmptyGot
  BY <1>1 DEF Readable, EmptyGot
<1>4. Agrees'
  BY <1>1 DEF Agrees
<1>5. UnloadedIsEmpty'
  BY <1>1, <1>3 DEF UnloadedIsEmpty
<1>6. NothingStored' /\ FactoryResetHolds'
  BY <1>1, <1>3 DEF NothingStored, FactoryResetHolds
<1>7. Listening'
  <2>1. Groups(got, gpt, iid)' = subs'
    BY <1>1 DEF Groups, Listened, GroupsOf, Received, Receives, GrpidOf
  <2>. QED BY <2>1 DEF Listening
<1>. QED BY <1>2, <1>4, <1>5, <1>6, <1>7 DEF DeviceInv

LEMMA PowerLossDevice ==
  ASSUME DeviceInv,
         \/ PowerLoss \/ PowerLossInUnload \/ PowerLossInResetTables \/ PowerLossInFactoryReset
         \/ \E payload \in GroupPosts : PowerLossInGroupPost(payload)
         \/ \E payload \in PublisherPosts : PowerLossInPublisherPost(payload)
         \/ \E id \in Ids : PowerLossInDelete(id)
  PROVE  DeviceInv'
<1>. USE DEF DeviceInv
<1>1. disk \in StorageType /\ torn \in BOOLEAN /\ factory \in BOOLEAN
  BY DEF TypeOK, StorageType
<1>2. /\ disk.ia > 0
      /\ disk.lsm = "unloaded" /\ ~torn => disk.got = EmptyGot /\ disk.gpt = EmptyGpt
      /\ factory => /\ disk.lsm = "unloaded" /\ disk.ia = NoIa /\ disk.iid = 0
                    /\ disk.got = EmptyGot /\ disk.gpt = EmptyGpt
  BY DEF Agrees, UnloadedIsEmpty, FactoryResetHolds, NothingStored
<1>3. factory => disk.pm = FALSE
  BY <1>1 DEF NothingStored, StorageType
<1>4. CASE PowerLoss
  <2>1. Boot(disk) /\ torn' = torn /\ factory' = factory
    BY <1>4 DEF PowerLoss
  <2>. QED BY <1>1, <1>2, <1>3, <2>1, BootDevice
<1>5. ASSUME NEW p \in 0 .. GptMax, NEW g \in 0 .. GotMax
      PROVE  LET d == Erased(p, g)
             IN  /\ d \in StorageType
                 /\ d.lsm = disk.lsm /\ d.ia = disk.ia /\ d.iid = disk.iid /\ d.pm = disk.pm
                 /\ disk.got = EmptyGot => d.got = EmptyGot
                 /\ disk.gpt = EmptyGpt => d.gpt = EmptyGpt
  <2>1. /\ Erased(p, g).got = [s \in 1 .. GotMax |-> IF s <= g THEN NoGroupObject ELSE disk.got[s]]
        /\ Erased(p, g).gpt = [s \in 1 .. GptMax |-> IF s <= p THEN NoPublisher ELSE disk.gpt[s]]
    BY <1>1, ErasedStorage
  <2>2. disk.got = EmptyGot => Erased(p, g).got = EmptyGot
    BY <2>1 DEF EmptyGot
  <2>3. disk.gpt = EmptyGpt => Erased(p, g).gpt = EmptyGpt
    BY <2>1 DEF EmptyGpt
  <2>. QED BY <1>1, <2>2, <2>3, ErasedStorage
<1>6. CASE PowerLossInUnload
  <2>1. PICK p \in 0 .. GptMax, g \in 0 .. GotMax : Boot(Erased(p, g))
    BY <1>6 DEF PowerLossInUnload
  <2>2. factory' = FALSE /\ torn' = torn
    BY <1>6 DEF PowerLossInUnload
  <2>. QED BY <1>1, <1>2, <1>5, <2>1, <2>2, BootDevice
<1>7. CASE PowerLossInResetTables
  <2>1. PICK p \in 0 .. GptMax, g \in 0 .. GotMax : Boot(Erased(p, g))
    BY <1>7 DEF PowerLossInResetTables
  <2>2. factory' = factory /\ torn' = torn
    BY <1>7 DEF PowerLossInResetTables
  <2>. QED BY <1>1, <1>2, <1>3, <1>5, <2>1, <2>2, BootDevice
<1>8. CASE PowerLossInFactoryReset
  <2>1. PICK n \in 0 .. 4, p \in 0 .. GptMax, g \in 0 .. GotMax :
          /\ g > 0 => n = 4
          /\ p > 0 => g = GotMax
          /\ Boot([AddressErased(n) EXCEPT !.got = Erased(p, g).got, !.gpt = Erased(p, g).gpt])
          /\ torn' = (torn \/ n = 4)
    BY <1>8 DEF PowerLossInFactoryReset
  <2>2. factory' = factory /\ torn' \in BOOLEAN
    BY <1>1, <1>8, <2>1 DEF PowerLossInFactoryReset
  <2>. DEFINE e == Erased(p, g)
              a == AddressErased(n)
              d == [a EXCEPT !.got = e.got, !.gpt = e.gpt]
  <2>3. /\ e \in StorageType
        /\ disk.got = EmptyGot => e.got = EmptyGot
        /\ disk.gpt = EmptyGpt => e.gpt = EmptyGpt
    BY <1>5
  <2>. HIDE DEF e
  <2>4. /\ a \in StorageType /\ a.ia \in {disk.ia, NoIa} /\ a.ia > 0
        /\ a.iid \in {disk.iid, 0} /\ a.pm \in {disk.pm, FALSE}
        /\ a.lsm = IF n = 4 THEN "unloaded" ELSE disk.lsm
    <3>1. NoIa \in 0 .. NoIa /\ NoIa > 0
      BY DEF NoIa
    <3>2. n >= 4 <=> n = 4
      OBVIOUS
    <3>. QED BY <1>1, <1>2, <3>1, <3>2 DEF AddressErased, StorageType, LoadState
  <2>. HIDE DEF a
  <2>5. /\ d \in StorageType /\ d.lsm = a.lsm /\ d.ia = a.ia /\ d.iid = a.iid /\ d.pm = a.pm
        /\ d.got = e.got /\ d.gpt = e.gpt
    BY <2>3, <2>4 DEF StorageType
  <2>6. Boot(d)
    BY <2>1 DEF e, a
  <2>7. d.lsm = "unloaded" /\ ~torn' => d.got = EmptyGot /\ d.gpt = EmptyGpt
    <3>1. ~torn' => ~torn /\ n # 4
      BY <2>1
    <3>. QED BY <1>2, <2>3, <2>4, <2>5, <3>1
  <2>. HIDE DEF d
  <2>. QED BY <1>1, <1>2, <1>3, <2>2, <2>3, <2>4, <2>5, <2>6, <2>7, BootDevice
<1>9. ASSUME NEW payload \in GroupPosts, PowerLossInGroupPost(payload) PROVE DeviceInv'
  <2>1. /\ lsm = "loading" /\ factory' = FALSE /\ torn' = torn
        /\ payload \in Seq(MapsOf(GroupPosts))
    BY <1>9, PostsAssumption DEF PowerLossInGroupPost
  <2>2. PICK n \in 0 .. Len(payload) :
          Boot([disk EXCEPT !.got = Loaded(PutGroupObject, got, disk.got,
                                           SubSeq(payload, 1, n)).saved])
    BY <1>9 DEF PowerLossInGroupPost
  <2>. DEFINE saved == Loaded(PutGroupObject, got, disk.got, SubSeq(payload, 1, n)).saved
              d == [disk EXCEPT !.got = saved]
  <2>3. saved \in GotType
    BY <2>1, MapsOfPayload, GroupObjectsLoaded DEF Loading, GotType
  <2>4. Boot(d)
    BY <2>2
  <2>. HIDE DEF saved
  <2>5. d \in StorageType /\ d.ia = disk.ia /\ d.lsm = disk.lsm
    BY <1>1, <2>3 DEF StorageType
  <2>. HIDE DEF d
  <2>6. d.lsm # "unloaded"
    BY <2>1, <2>5 DEF Agrees
  <2>. QED BY <1>1, <1>2, <2>1, <2>4, <2>5, <2>6, BootDevice
<1>10. ASSUME NEW payload \in PublisherPosts, PowerLossInPublisherPost(payload) PROVE DeviceInv'
  <2>1. /\ lsm = "loading" /\ factory' = FALSE /\ torn' = torn
        /\ payload \in Seq(MapsOf(PublisherPosts))
    BY <1>10, PostsAssumption DEF PowerLossInPublisherPost
  <2>2. PICK n \in 0 .. Len(payload) :
          Boot([disk EXCEPT !.gpt = Loaded(PutPublisher, gpt, disk.gpt,
                                           SubSeq(payload, 1, n)).saved])
    BY <1>10 DEF PowerLossInPublisherPost
  <2>. DEFINE saved == Loaded(PutPublisher, gpt, disk.gpt, SubSeq(payload, 1, n)).saved
              d == [disk EXCEPT !.gpt = saved]
  <2>3. saved \in GptType
    BY <2>1, MapsOfPayload, PublishersLoaded DEF Loading, GptType
  <2>4. Boot(d)
    BY <2>2
  <2>. HIDE DEF saved
  <2>5. d \in StorageType /\ d.ia = disk.ia /\ d.lsm = disk.lsm
    BY <1>1, <2>3 DEF StorageType
  <2>. HIDE DEF d
  <2>6. d.lsm # "unloaded"
    BY <2>1, <2>5 DEF Agrees
  <2>. QED BY <1>1, <1>2, <2>1, <2>4, <2>5, <2>6, BootDevice
<1>11. ASSUME NEW id \in Ids, PowerLossInDelete(id) PROVE DeviceInv'
  <2>1. lsm = "loading" /\ factory' = FALSE /\ torn' = torn
    BY <1>11 DEF PowerLossInDelete
  <2>2. PICK d : /\ Boot(d)
                 /\ \/ \E s : d = [disk EXCEPT !.got = [@ EXCEPT ![s] = NoGroupObject]]
                    \/ \E s : d = [disk EXCEPT !.gpt = [@ EXCEPT ![s] = NoPublisher]]
    BY <1>11 DEF PowerLossInDelete
  <2>3. d \in StorageType /\ d.ia = disk.ia /\ d.lsm = disk.lsm
    <3>1. ASSUME NEW s
          PROVE  /\ [disk.got EXCEPT ![s] = NoGroupObject] \in GotType
                 /\ [disk.gpt EXCEPT ![s] = NoPublisher] \in GptType
      BY <1>1, Rows DEF StorageType, GotType, GptType
    <3>2. \A rows \in GotType : LET e == [disk EXCEPT !.got = rows]
                               IN  e \in StorageType /\ e.ia = disk.ia /\ e.lsm = disk.lsm
      BY <1>1 DEF StorageType
    <3>3. \A rows \in GptType : LET e == [disk EXCEPT !.gpt = rows]
                               IN  e \in StorageType /\ e.ia = disk.ia /\ e.lsm = disk.lsm
      BY <1>1 DEF StorageType
    <3>4. CASE \E s : d = [disk EXCEPT !.got = [@ EXCEPT ![s] = NoGroupObject]]
      <4>1. PICK s : d = [disk EXCEPT !.got = [@ EXCEPT ![s] = NoGroupObject]]
        BY <3>4
      <4>2. d = [disk EXCEPT !.got = [disk.got EXCEPT ![s] = NoGroupObject]]
        BY <4>1
      <4>. QED BY <3>1, <3>2, <4>2
    <3>5. CASE \E s : d = [disk EXCEPT !.gpt = [@ EXCEPT ![s] = NoPublisher]]
      <4>1. PICK s : d = [disk EXCEPT !.gpt = [@ EXCEPT ![s] = NoPublisher]]
        BY <3>5
      <4>2. d = [disk EXCEPT !.gpt = [disk.gpt EXCEPT ![s] = NoPublisher]]
        BY <4>1
      <4>. QED BY <3>1, <3>3, <4>2
    <3>. QED BY <2>2, <3>4, <3>5
  <2>4. d.lsm # "unloaded"
    BY <2>1, <2>3 DEF Agrees
  <2>. QED BY <1>1, <1>2, <2>1, <2>2, <2>3, <2>4, BootDevice
<1>. QED BY <1>4, <1>6, <1>7, <1>8, <1>9, <1>10, <1>11

LEMMA DeviceInvariant == Spec => []DeviceInv
<1>1. Init => DeviceInv
  <2>. SUFFICES ASSUME Init PROVE DeviceInv
    OBVIOUS
  <2>1. /\ lsm = "unloaded" /\ got = EmptyGot /\ gpt = EmptyGpt /\ fingerprint = 0
        /\ ia = NoIa /\ iid = 0 /\ pm = FALSE /\ subs = {} /\ resets = 0 /\ cached = 0
        /\ acked = Ids /\ lost = {} /\ refused = FALSE /\ torn = FALSE /\ factory = FALSE
        /\ disk = [lsm |-> lsm, got |-> got, gpt |-> gpt, fp |-> fingerprint,
                   ia |-> ia, iid |-> iid, pm |-> pm]
    BY DEF Init
  <2>2. NoIa \in 0 .. NoIa /\ NoIa > 0 /\ 0 \in 0 .. MaxFingerprint /\ 0 \in 0 .. MaxResets
    BY DeviceAssumption DEF NoIa
  <2>3. TypeOK
    BY <2>1, <2>2, Rows DEF TypeOK, LoadState
  <2>4. Agrees /\ NothingStored /\ UnloadedIsEmpty /\ FactoryResetHolds /\ Listening
    BY <2>1, <2>2 DEF Agrees, NothingStored, UnloadedIsEmpty, FactoryResetHolds,
       Listening, InRuntime
  <2>. QED BY <2>3, <2>4 DEF DeviceInv
<1>2. DeviceInv /\ [Next]_vars => DeviceInv'
  <2>. SUFFICES ASSUME DeviceInv, [Next]_vars PROVE DeviceInv'
    OBVIOUS
  <2>1. CASE Nop \/ StartLoading \/ LoadComplete \/ Unload
    BY <2>1, LoadEventDevice
  <2>2. CASE \/ \E payload \in GroupPosts : PostGroupObjects(payload)
             \/ \E payload \in PublisherPosts : PostPublishers(payload)
             \/ \E id \in Ids : DeleteGroupObject(id) \/ DeletePublisher(id)
    BY <2>2, TableDevice
  <2>3. CASE \/ \E a \in {NoIa - 1}, i \in Iids :
                  \E fields \in {[ia |-> a, iid |-> i], [ia |-> a], [iid |-> i]} : PostIa(fields)
             \/ \E i \in Iids : PutIid(i)
             \/ \E b \in BOOLEAN : PutPm(b)
    BY <2>3, AddressDevice
  <2>4. CASE RestartDevice \/ (\E v \in ResetValues : RequestReset(v)) \/ DelayedReset
    BY <2>4, ResetDevice
  <2>5. CASE \/ PowerLoss \/ PowerLossInUnload \/ PowerLossInResetTables
             \/ PowerLossInFactoryReset
             \/ \E payload \in GroupPosts : PowerLossInGroupPost(payload)
             \/ \E payload \in PublisherPosts : PowerLossInPublisherPost(payload)
             \/ \E id \in Ids : PowerLossInDelete(id)
    BY <2>5, PowerLossDevice
  <2>6. CASE UNCHANGED vars
    <3>1. /\ UNCHANGED <<lsm, got, gpt, fingerprint, ia, iid, pm, disk, subs, resets, cached>>
          /\ UNCHANGED <<acked, refused, torn, lost, factory>>
      BY <2>6 DEF vars, config, tables, delayed, history
    <3>2. pm' \in BOOLEAN /\ refused' \in BOOLEAN /\ torn' \in BOOLEAN /\ factory' \in BOOLEAN
      BY <3>1, Zenon DEF DeviceInv, TypeOK
    <3>3. TypeOK'
      BY <3>1, <3>2 DEF DeviceInv, TypeOK
    <3>4. Listening'
      BY <3>1, StillListens DEF DeviceInv, InRuntime
    <3>5. Agrees' /\ NothingStored' /\ UnloadedIsEmpty' /\ FactoryResetHolds'
      BY <3>1 DEF DeviceInv, Agrees, NothingStored, UnloadedIsEmpty, FactoryResetHolds
    <3>. QED BY <3>3, <3>4, <3>5 DEF DeviceInv
  <2>. QED BY <2>1, <2>2, <2>3, <2>4, <2>5, <2>6 DEF Next
<1>. QED BY <1>1, <1>2, PTL DEF Spec

(* The state stays well formed: whatever the maps of a payload have, the   *)
(* rows of both tables keep their fields, in memory and in storage.        *)
THEOREM TypeCorrect == Spec => []TypeOK
BY DeviceInvariant, PTL DEF DeviceInv

(* An unloaded device has empty tables, in memory and in storage, wherever *)
(* power failed; only a factory reset that was cut short is excepted.      *)
THEOREM UnloadedStaysEmpty == Spec => []UnloadedIsEmpty
BY DeviceInvariant, PTL DEF DeviceInv

(* Nothing of before a factory reset comes back.                           *)
THEOREM FactoryResetStays == Spec => []FactoryResetHolds
BY DeviceInvariant, PTL DEF DeviceInv

(* A device in run time listens to all the groups its tables say it        *)
(* receives, under its present installation id, where the Group Object     *)
(* Table is not the larger one.                                            *)
THEOREM RuntimeListens ==
  ASSUME GotMax <= GptMax
  PROVE  Spec => []RuntimeSubscribed
<1>1. ASSUME DeviceInv PROVE RuntimeSubscribed
  <2>1. DOMAIN got = 1 .. GotMax
    BY <1>1 DEF DeviceInv, TypeOK, GotType
  <2>2. {t \in DOMAIN got : t <= GptMax /\ Receives(got[t])} =
          {t \in DOMAIN got : t <= GotMax /\ Receives(got[t])}
    BY <2>1, DeviceAssumption
  <2>3. Received(got, GptMax) = Received(got, GotMax)
    BY <2>2 DEF Received
  <2>4. Listened(got, gpt) = GroupsOf(got, gpt, GotMax)
    BY <2>3 DEF Listened, GroupsOf
  <2>. QED BY <1>1, <2>4 DEF DeviceInv, Listening, RuntimeSubscribed, Groups
<1>. QED BY <1>1, DeviceInvariant, PTL

-----------------------------------------------------------------------------
(* The rows of the tables in memory and in storage.                        *)
TablesInv ==
  /\ InSlots(GotMax, got, disk.got, lost)
  /\ InSlots(GptMax, gpt, disk.gpt, {})
  /\ Stored(GotMax, got, disk.got, acked, lost)

LEMMA SavedAlone ==
  ASSUME NEW n, NEW rows, NEW saved, NEW out, InSlots(n, rows, saved, out)
  PROVE  InSlots(n, saved, saved, out)
BY DEF InSlots

LEMMA RowDeleted ==
  ASSUME NEW n \in Nat, NEW R, NEW rows \in [1 .. n -> R], NEW saved \in [1 .. n -> R],
         NEW id, id # NoId, NEW empty \in R, empty.id = NoId, NEW s \in 1 .. n, rows[s].id = id,
         NEW out, InSlots(n, rows, saved, out), NEW ids, NoId \notin ids,
         Stored(n, rows, saved, ids, out)
  PROVE  LET acc == Row(Opened(rows, saved), s, empty)
         IN  /\ InSlots(n, acc.rows, acc.saved, out)
             /\ Stored(n, acc.rows, acc.saved, ids \cup {id}, out)
<1>. DEFINE a == Opened(rows, saved)
            acc == Row(a, s, empty)
<1>1. a \in Loading(n, R) /\ a.rows = rows /\ a.saved = saved /\ a.ok /\ ~a.stop
  BY DEF Opened, Loading
<1>. HIDE DEF a
<1>2. /\ acc \in Loading(n, R) /\ acc.rows = [a.rows EXCEPT ![s] = empty]
      /\ acc.saved = [a.saved EXCEPT ![s] = empty] /\ acc.ok /\ ~acc.stop
  BY <1>1 DEF Row, Loading
<1>. HIDE DEF acc
<1>3. Place(a.rows, n, s, id)
  BY <1>1 DEF Place
<1>4. Puts(n, R, a, acc, id)
  BY <1>1, <1>2, <1>3 DEF Puts
<1>5. /\ InSlots(n, acc.rows, acc.saved, out)
      /\ Stored(n, acc.rows, acc.saved, ids \cup {id}, out)
  <2>1. InSlots(n, a.rows, a.saved, out) /\ Stored(n, a.rows, a.saved, ids, out)
    BY <1>1
  <2>2. acc.ok /\ ~acc.stop
    BY <1>2
  <2>3. a \in Loading(n, R)
    BY <1>1
  <2>4. acc.ok /\ ~acc.stop /\ Stored(n, a.rows, a.saved, ids, out) =>
          Stored(n, acc.rows, acc.saved, ids \cup {id}, out)
    BY <1>4, <2>1, <2>3, PutKeeps
  <2>5. InSlots(n, acc.rows, acc.saved, out)
    BY <1>4, <2>1, <2>3, PutKeeps
  <2>. QED BY <2>1, <2>2, <2>4, <2>5
<1>. QED BY <1>5 DEF acc, a

LEMMA EmptiedTables ==
  ASSUME got' = EmptyGot, gpt' = EmptyGpt, disk'.got = EmptyGot, disk'.gpt = EmptyGpt
  PROVE  TablesInv'
BY DEF TablesInv, InSlots, Stored, EmptyGot, EmptyGpt, NoGroupObject, NoPublisher

LEMMA SameTables ==
  ASSUME TablesInv, UNCHANGED <<got, gpt, acked, lost>>, disk'.got = disk.got, disk'.gpt = disk.gpt
  PROVE  TablesInv'
BY DEF TablesInv, InSlots, Stored

LEMMA BootTables ==
  ASSUME NEW d \in StorageType, Boot(d),
         InSlots(GotMax, d.got, d.got, lost), InSlots(GptMax, d.gpt, d.gpt, {})
  PROVE  TablesInv'
<1>. DEFINE left == LeftOut(got', d.got)
<1>1. /\ disk' = d /\ got' \in Readable(d.got) /\ gpt' = d.gpt
      /\ acked' = Ids \ left /\ lost' = lost \cup left
  BY DEF Boot
<1>2. /\ DOMAIN d.got = 1 .. GotMax
      /\ \A s \in 1 .. GotMax : d.got[s].id \in Ids \cup {NoId}
  BY DEF StorageType, GotType, GroupObjectRow
<1>3. \A s \in 1 .. GotMax : got'[s] \in {NoGroupObject, d.got[s]}
  BY <1>1, <1>2 DEF Readable
<1>4. \A s \in 1 .. GotMax : got'[s] = d.got[s] \/ d.got[s].id \in left \cup {NoId}
  BY <1>2 DEF LeftOut
<1>. HIDE DEF left
<1>5. NoGroupObject.id = NoId /\ NoId \notin Ids
  BY Rows, DeviceAssumption DEF NoId
<1>6. InSlots(GotMax, got', d.got, lost')
  BY <1>1, <1>3, <1>4, <1>5 DEF InSlots
<1>7. Stored(GotMax, got', d.got, acked', lost')
  BY <1>1, <1>3, <1>5 DEF Stored
<1>. QED BY <1>1, <1>6, <1>7 DEF TablesInv, InSlots, Stored

(* Rows that were erased one after the other do not make two of one.       *)
LEMMA ErasedAlone ==
  ASSUME disk \in StorageType, TablesInv, NEW p \in 0 .. GptMax, NEW g \in 0 .. GotMax
  PROVE  /\ InSlots(GotMax, Erased(p, g).got, Erased(p, g).got, lost)
         /\ InSlots(GptMax, Erased(p, g).gpt, Erased(p, g).gpt, {})
<1>1. InSlots(GotMax, disk.got, disk.got, lost) /\ InSlots(GptMax, disk.gpt, disk.gpt, {})
  BY SavedAlone DEF TablesInv
<1>2. /\ Erased(p, g).got = [s \in 1 .. GotMax |-> IF s <= g THEN NoGroupObject ELSE disk.got[s]]
      /\ Erased(p, g).gpt = [s \in 1 .. GptMax |-> IF s <= p THEN NoPublisher ELSE disk.gpt[s]]
  BY ErasedStorage
<1>3. NoGroupObject.id = NoId /\ NoPublisher.id = NoId
  BY Rows
<1>. DEFINE eg == Erased(p, g).got
            ep == Erased(p, g).gpt
<1>4. \A s \in 1 .. GotMax : eg[s] = NoGroupObject \/ eg[s] = disk.got[s]
  BY <1>2
<1>5. \A s \in 1 .. GptMax : ep[s] = NoPublisher \/ ep[s] = disk.gpt[s]
  BY <1>2
<1>. HIDE DEF eg, ep
<1>6. InSlots(GotMax, eg, eg, lost)
  BY <1>1, <1>3, <1>4 DEF InSlots
<1>7. InSlots(GptMax, ep, ep, {})
  BY <1>1, <1>3, <1>5 DEF InSlots
<1>. QED BY <1>6, <1>7 DEF eg, ep

(* The requests to the tables: a payload that was taken is stored, one     *)
(* that was refused costs its own ids only.                                *)
LEMMA TableRequests ==
  ASSUME TypeOK, disk \in StorageType, TablesInv,
         \/ \E payload \in GroupPosts : PostGroupObjects(payload)
         \/ \E payload \in PublisherPosts : PostPublishers(payload)
         \/ \E id \in Ids : DeleteGroupObject(id) \/ DeletePublisher(id)
  PROVE  TablesInv'
<1>1. /\ GotMax \in Nat /\ GptMax \in Nat /\ NoId \notin acked /\ NoId \notin Ids
      /\ got \in GotType /\ gpt \in GptType /\ disk.got \in GotType /\ disk.gpt \in GptType
  BY DeviceAssumption DEF TypeOK, StorageType, NoId
<1>2. IdsOf(<<>>) = {}
  BY DEF IdsOf
<1>3. ASSUME NEW payload \in GroupPosts, PostGroupObjects(payload) PROVE TablesInv'
  <2>. DEFINE acc == Loaded(PutGroupObject, got, disk.got, payload)
  <2>1. PICK g : /\ Loop(GotMax, GroupObjectRow, g, payload, got, disk.got)
                 /\ acc = g[Len(payload)]
    BY <1>1, PostsAssumption, GroupObjectLoop
  <2>2. /\ got' = acc.rows /\ gpt' = gpt /\ lost' = lost
        /\ disk' = [disk EXCEPT !.got = acc.saved, !.fp = fingerprint']
        /\ acked' = IF acc.ok /\ ~acc.stop THEN acked \cup IdsOf(payload)
                                           ELSE acked \ IdsOf(payload)
    BY <1>3 DEF PostGroupObjects, Touch
  <2>. HIDE DEF acc
  <2>3. Len(payload) \in Nat /\ DOMAIN payload = 1 .. Len(payload)
    BY PostsAssumption, MapsOfPayload
  <2>4. /\ InSlots(GotMax, acc.rows, acc.saved, lost)
        /\ Stored(GotMax, acc.rows, acc.saved, acked \ IdsOf(payload), lost)
        /\ acc.ok /\ ~acc.stop => Stored(GotMax, acc.rows, acc.saved, acked \cup IdsOf(payload), lost)
    BY <1>1, <2>1, <2>3, LoopKeeps DEF TablesInv
  <2>5. disk'.got = acc.saved /\ disk'.gpt = disk.gpt
    BY <2>2 DEF StorageType
  <2>6. Stored(GotMax, acc.rows, acc.saved, acked', lost)
    BY <2>2, <2>4
  <2>7. InSlots(GotMax, got', disk'.got, lost') /\ InSlots(GptMax, gpt', disk'.gpt, {})
    BY <2>2, <2>4, <2>5 DEF TablesInv
  <2>. QED BY <2>2, <2>5, <2>6, <2>7 DEF TablesInv, InSlots, Stored
<1>4. ASSUME NEW payload \in PublisherPosts, PostPublishers(payload) PROVE TablesInv'
  <2>. DEFINE acc == Loaded(PutPublisher, gpt, disk.gpt, payload)
  <2>1. PICK g : /\ Loop(GptMax, PublisherRow, g, payload, gpt, disk.gpt)
                 /\ acc = g[Len(payload)]
    BY <1>1, PostsAssumption, PublisherLoop
  <2>2. /\ gpt' = acc.rows /\ got' = got /\ acked' = acked /\ lost' = lost
        /\ disk' = [disk EXCEPT !.gpt = acc.saved, !.fp = fingerprint']
    BY <1>2, <1>4 DEF PostPublishers, Touch
  <2>. HIDE DEF acc
  <2>3. Len(payload) \in Nat /\ DOMAIN payload = 1 .. Len(payload)
    BY PostsAssumption, MapsOfPayload
  <2>. DEFINE none == {}
  <2>4. Stored(GptMax, gpt, disk.gpt, none, {}) /\ NoId \notin none
    BY DEF Stored
  <2>. HIDE DEF none
  <2>5. InSlots(GptMax, acc.rows, acc.saved, {})
    BY <1>1, <2>1, <2>3, <2>4, LoopKeeps DEF TablesInv
  <2>6. disk'.gpt = acc.saved /\ disk'.got = disk.got
    BY <2>2 DEF StorageType
  <2>. QED BY <2>2, <2>5, <2>6 DEF TablesInv, InSlots, Stored
<1>5. ASSUME NEW id \in Ids, DeleteGroupObject(id) PROVE TablesInv'
  <2>. DEFINE used == {t \in DOMAIN got : got[t].id = id}
              s == Least(used)
              acc == Row(Opened(got, disk.got), s, NoGroupObject)
  <2>0. s \in 1 .. GotMax /\ got[s].id = id
    <3>1. used # {}
      BY <1>5 DEF DeleteGroupObject
    <3>2. used \subseteq 1 .. GotMax /\ used \in SUBSET Nat
      BY <1>1 DEF GotType
    <3>3. s \in used
      <4>. HIDE DEF used
      <4>. QED BY <3>1, <3>2, LeastNumber
    <3>. QED BY <3>2, <3>3
  <2>1. /\ got' = acc.rows /\ gpt' = gpt /\ lost' = lost
        /\ disk' = [disk EXCEPT !.got = acc.saved, !.fp = fingerprint']
        /\ acked' = acked \cup IdsOf(<<[id |-> id]>>)
    BY <1>5 DEF DeleteGroupObject, Touch
  <2>2. acked' = acked \cup {id}
    BY <2>1, IdOfDeleted
  <2>. HIDE DEF s
  <2>3. /\ InSlots(GotMax, acc.rows, acc.saved, lost)
        /\ Stored(GotMax, acc.rows, acc.saved, acked \cup {id}, lost)
    BY <1>1, <2>0, Rows, RowDeleted DEF TablesInv, GotType
  <2>. HIDE DEF acc
  <2>4. disk'.got = acc.saved /\ disk'.gpt = disk.gpt
    BY <2>1 DEF StorageType
  <2>. QED BY <2>1, <2>2, <2>3, <2>4 DEF TablesInv, InSlots, Stored
<1>6. ASSUME NEW id \in Ids, DeletePublisher(id) PROVE TablesInv'
  <2>. DEFINE used == {t \in DOMAIN gpt : gpt[t].id = id}
              s == Least(used)
              acc == Row(Opened(gpt, disk.gpt), s, NoPublisher)
  <2>0. s \in 1 .. GptMax /\ gpt[s].id = id
    <3>1. used # {}
      BY <1>6 DEF DeletePublisher
    <3>2. used \subseteq 1 .. GptMax /\ used \in SUBSET Nat
      BY <1>1 DEF GptType
    <3>3. s \in used
      <4>. HIDE DEF used
      <4>. QED BY <3>1, <3>2, LeastNumber
    <3>. QED BY <3>2, <3>3
  <2>1. /\ gpt' = acc.rows /\ got' = got /\ acked' = acked /\ lost' = lost
        /\ disk' = [disk EXCEPT !.gpt = acc.saved, !.fp = fingerprint']
    BY <1>2, <1>6 DEF DeletePublisher, Touch
  <2>. DEFINE none == {}
  <2>2. Stored(GptMax, gpt, disk.gpt, none, {}) /\ NoId \notin none
    BY DEF Stored
  <2>. HIDE DEF s, none
  <2>3. InSlots(GptMax, acc.rows, acc.saved, {})
    BY <1>1, <2>0, <2>2, Rows, RowDeleted DEF TablesInv, GptType
  <2>. HIDE DEF acc
  <2>4. disk'.gpt = acc.saved /\ disk'.got = disk.got
    BY <2>1 DEF StorageType
  <2>. QED BY <2>1, <2>3, <2>4 DEF TablesInv, InSlots, Stored
<1>. QED BY <1>3, <1>4, <1>5, <1>6

(* A start, from storage as it is or as an interrupted step left it.       *)
LEMMA TablesReadBack ==
  ASSUME TypeOK, disk \in StorageType, TablesInv,
         \/ PowerLoss \/ PowerLossInUnload \/ PowerLossInResetTables \/ PowerLossInFactoryReset
         \/ \E payload \in GroupPosts : PowerLossInGroupPost(payload)
         \/ \E payload \in PublisherPosts : PowerLossInPublisherPost(payload)
         \/ \E id \in Ids : PowerLossInDelete(id)
  PROVE  TablesInv'
<1>1. InSlots(GotMax, disk.got, disk.got, lost) /\ InSlots(GptMax, disk.gpt, disk.gpt, {})
  BY SavedAlone DEF TablesInv
<1>2. CASE PowerLoss
  BY <1>1, <1>2, BootTables DEF PowerLoss
<1>3. CASE PowerLossInUnload \/ PowerLossInResetTables
  <2>1. PICK p \in 0 .. GptMax, g \in 0 .. GotMax : Boot(Erased(p, g))
    BY <1>3 DEF PowerLossInUnload, PowerLossInResetTables
  <2>. QED BY <2>1, ErasedAlone, ErasedStorage, BootTables
<1>4. CASE PowerLossInFactoryReset
  <2>1. PICK n \in 0 .. 4, p \in 0 .. GptMax, g \in 0 .. GotMax :
          Boot([AddressErased(n) EXCEPT !.got = Erased(p, g).got, !.gpt = Erased(p, g).gpt])
    BY <1>4 DEF PowerLossInFactoryReset
  <2>. DEFINE e == Erased(p, g)
              d == [AddressErased(n) EXCEPT !.got = e.got, !.gpt = e.gpt]
  <2>2. /\ InSlots(GotMax, e.got, e.got, lost) /\ InSlots(GptMax, e.gpt, e.gpt, {})
        /\ e.got \in GotType /\ e.gpt \in GptType
    BY ErasedAlone, ErasedStorage DEF StorageType
  <2>3. Boot(d)
    BY <2>1
  <2>. HIDE DEF e
  <2>4. AddressErased(n) \in StorageType
    <3>1. NoIa \in 0 .. NoIa
      BY DEF NoIa
    <3>. QED BY <3>1 DEF AddressErased, StorageType, LoadState
  <2>5. d \in StorageType /\ d.got = e.got /\ d.gpt = e.gpt
    BY <2>2, <2>4 DEF StorageType
  <2>. HIDE DEF d
  <2>. QED BY <2>2, <2>3, <2>5, BootTables
<1>5. ASSUME NEW payload \in GroupPosts, PowerLossInGroupPost(payload) PROVE TablesInv'
  <2>1. PICK n \in 0 .. Len(payload) :
          Boot([disk EXCEPT !.got = Loaded(PutGroupObject, got, disk.got,
                                           SubSeq(payload, 1, n)).saved])
    BY <1>5 DEF PowerLossInGroupPost
  <2>. DEFINE part == SubSeq(payload, 1, n)
              acc == Loaded(PutGroupObject, got, disk.got, part)
              d == [disk EXCEPT !.got = acc.saved]
  <2>2. Boot(d)
    BY <2>1
  <2>3. GotMax \in Nat /\ got \in GotType /\ disk.got \in GotType /\ NoId \notin acked
    BY DeviceAssumption DEF TypeOK, StorageType, NoId
  <2>4. part \in Seq(MapsOf(GroupPosts))
    BY PostsAssumption, MapsOfPayload
  <2>5. acc.saved \in GotType
    BY <2>4, GroupObjectsLoaded DEF Loading, GotType
  <2>. HIDE DEF part
  <2>6. PICK g : /\ Loop(GotMax, GroupObjectRow, g, part, got, disk.got)
                 /\ acc = g[Len(part)]
    BY <2>3, <2>4, GroupObjectLoop
  <2>7. Len(part) \in Nat /\ DOMAIN part = 1 .. Len(part)
    BY <2>4, MapsOfPayload
  <2>. HIDE DEF acc
  <2>8. InSlots(GotMax, acc.rows, acc.saved, lost)
    BY <2>3, <2>6, <2>7, LoopKeeps DEF TablesInv
  <2>9. d \in StorageType /\ d.got = acc.saved /\ d.gpt = disk.gpt
    BY <2>5 DEF StorageType
  <2>. HIDE DEF d
  <2>10. InSlots(GotMax, d.got, d.got, lost) /\ InSlots(GptMax, d.gpt, d.gpt, {})
    BY <1>1, <2>8, <2>9, SavedAlone
  <2>. QED BY <2>2, <2>9, <2>10, BootTables
<1>6. ASSUME NEW payload \in PublisherPosts, PowerLossInPublisherPost(payload) PROVE TablesInv'
  <2>1. PICK n \in 0 .. Len(payload) :
          Boot([disk EXCEPT !.gpt = Loaded(PutPublisher, gpt, disk.gpt,
                                           SubSeq(payload, 1, n)).saved])
    BY <1>6 DEF PowerLossInPublisherPost
  <2>. DEFINE part == SubSeq(payload, 1, n)
              acc == Loaded(PutPublisher, gpt, disk.gpt, part)
              d == [disk EXCEPT !.gpt = acc.saved]
  <2>2. Boot(d)
    BY <2>1
  <2>3. GptMax \in Nat /\ gpt \in GptType /\ disk.gpt \in GptType
    BY DeviceAssumption DEF TypeOK, StorageType
  <2>4. part \in Seq(MapsOf(PublisherPosts))
    BY PostsAssumption, MapsOfPayload
  <2>5. acc.saved \in GptType
    BY <2>4, PublishersLoaded DEF Loading, GptType
  <2>. HIDE DEF part
  <2>6. PICK g : /\ Loop(GptMax, PublisherRow, g, part, gpt, disk.gpt)
                 /\ acc = g[Len(part)]
    BY <2>3, <2>4, PublisherLoop
  <2>7. Len(part) \in Nat /\ DOMAIN part = 1 .. Len(part)
    BY <2>4, MapsOfPayload
  <2>. HIDE DEF acc
  <2>. DEFINE none == {}
  <2>8. Stored(GptMax, gpt, disk.gpt, none, {}) /\ NoId \notin none
    BY DEF Stored
  <2>. HIDE DEF none
  <2>9. InSlots(GptMax, acc.rows, acc.saved, {})
    BY <2>3, <2>6, <2>7, <2>8, LoopKeeps DEF TablesInv
  <2>10. d \in StorageType /\ d.gpt = acc.saved /\ d.got = disk.got
    BY <2>5 DEF StorageType
  <2>. HIDE DEF d
  <2>11. InSlots(GotMax, d.got, d.got, lost) /\ InSlots(GptMax, d.gpt, d.gpt, {})
    BY <1>1, <2>9, <2>10, SavedAlone
  <2>. QED BY <2>2, <2>10, <2>11, BootTables
<1>7. ASSUME NEW id \in Ids, PowerLossInDelete(id) PROVE TablesInv'
  <2>1. NoGroupObject.id = NoId /\ NoPublisher.id = NoId /\ NoGroupObject \in GroupObjectRow
        /\ NoPublisher \in PublisherRow
    BY Rows
  <2>2. CASE \E s : Boot([disk EXCEPT !.got = [@ EXCEPT ![s] = NoGroupObject]])
    <3>1. PICK s : Boot([disk EXCEPT !.got = [@ EXCEPT ![s] = NoGroupObject]])
      BY <2>2
    <3>. DEFINE rows == [disk.got EXCEPT ![s] = NoGroupObject]
                d == [disk EXCEPT !.got = rows]
    <3>2. rows \in GotType
      BY <2>1 DEF StorageType, GotType
    <3>3. \A t \in 1 .. GotMax : rows[t] \in {disk.got[t], NoGroupObject}
      BY DEF StorageType, GotType
    <3>4. Boot(d)
      BY <3>1
    <3>. HIDE DEF rows
    <3>5. d \in StorageType /\ d.got = rows /\ d.gpt = disk.gpt
      BY <3>2 DEF StorageType
    <3>. HIDE DEF d
    <3>6. InSlots(GotMax, d.got, d.got, lost)
      BY <1>1, <2>1, <3>3, <3>5 DEF InSlots
    <3>. QED BY <1>1, <3>4, <3>5, <3>6, BootTables
  <2>3. CASE \E s : Boot([disk EXCEPT !.gpt = [@ EXCEPT ![s] = NoPublisher]])
    <3>1. PICK s : Boot([disk EXCEPT !.gpt = [@ EXCEPT ![s] = NoPublisher]])
      BY <2>3
    <3>. DEFINE rows == [disk.gpt EXCEPT ![s] = NoPublisher]
                d == [disk EXCEPT !.gpt = rows]
    <3>2. rows \in GptType
      BY <2>1 DEF StorageType, GptType
    <3>3. \A t \in 1 .. GptMax : rows[t] \in {disk.gpt[t], NoPublisher}
      BY DEF StorageType, GptType
    <3>4. Boot(d)
      BY <3>1
    <3>. HIDE DEF rows
    <3>5. d \in StorageType /\ d.gpt = rows /\ d.got = disk.got
      BY <3>2 DEF StorageType
    <3>. HIDE DEF d
    <3>6. InSlots(GptMax, d.gpt, d.gpt, {})
      BY <1>1, <2>1, <3>3, <3>5 DEF InSlots
    <3>. QED BY <1>1, <3>4, <3>5, <3>6, BootTables
  <2>. QED BY <1>7, <2>2, <2>3 DEF PowerLossInDelete
<1>. QED BY <1>2, <1>3, <1>4, <1>5, <1>6, <1>7

LEMMA TablesInvariant == Spec => []TablesInv
<1>1. ASSUME Init PROVE TablesInv
  <2>1. got = EmptyGot /\ gpt = EmptyGpt /\ disk.got = EmptyGot /\ disk.gpt = EmptyGpt
    BY <1>1 DEF Init
  <2>. QED BY <2>1 DEF TablesInv, InSlots, Stored, EmptyGot, EmptyGpt, NoGroupObject, NoPublisher
<1>2. ASSUME DeviceInv, TablesInv, [Next]_vars PROVE TablesInv'
  <2>1. TypeOK /\ disk \in StorageType
    BY <1>2 DEF DeviceInv, TypeOK, StorageType
  <2>2. CASE \/ Nop \/ StartLoading \/ LoadComplete
             \/ \E i \in Iids : PutIid(i)
             \/ \E b \in BOOLEAN : PutPm(b)
             \/ RestartDevice \/ \E v \in ResetValues : RequestReset(v)
             \/ UNCHANGED vars
    <3>1. /\ UNCHANGED <<got, gpt, acked, lost>>
          /\ \/ disk' = disk \/ disk' = [disk EXCEPT !.lsm = lsm']
             \/ disk' = [disk EXCEPT !.iid = iid'] \/ disk' = [disk EXCEPT !.pm = pm']
      BY <2>2 DEF Nop, StartLoading, LoadComplete, SetState, PutIid, PutPm, RestartDevice,
         RequestReset, vars, config, tables, delayed, history
    <3>2. disk'.got = disk.got /\ disk'.gpt = disk.gpt
      BY <2>1, <3>1 DEF StorageType
    <3>. QED BY <1>2, <3>1, <3>2, SameTables
  <2>3. CASE \E a \in {NoIa - 1}, i \in Iids :
               \E fields \in {[ia |-> a, iid |-> i], [ia |-> a], [iid |-> i]} : PostIa(fields)
    <3>1. PICK a \in {NoIa - 1}, i \in Iids :
            \E fields \in {[ia |-> a, iid |-> i], [ia |-> a], [iid |-> i]} : PostIa(fields)
      BY <2>3
    <3>2. PICK fields \in {[ia |-> a, iid |-> i], [ia |-> a], [iid |-> i]} : PostIa(fields)
      BY <3>1
    <3>3. UNCHANGED <<got, gpt, acked, lost>> /\ disk' = Merged(fields, disk)
      BY <3>2 DEF PostIa, tables
    <3>4. "got" \notin DOMAIN fields /\ "gpt" \notin DOMAIN fields
      BY <3>2
    <3>5. disk'.got = disk.got /\ disk'.gpt = disk.gpt
      BY <2>1, <3>3, <3>4 DEF Merged, StorageType
    <3>. QED BY <1>2, <3>3, <3>5, SameTables
  <2>4. CASE Unload
    <3>1. /\ got' = EmptyGot /\ gpt' = EmptyGpt
          /\ disk' = [Erased(GptMax, GotMax) EXCEPT !.lsm = "unloaded"]
      BY <2>4 DEF Unload
    <3>2. disk'.got = EmptyGot /\ disk'.gpt = EmptyGpt
      BY <2>1, <3>1, AllErased DEF StorageType
    <3>. QED BY <3>1, <3>2, EmptiedTables
  <2>5. CASE DelayedReset
    <3>1. CASE FactoryReset
      <4>1. /\ got' = EmptyGot /\ gpt' = EmptyGpt
            /\ disk' = [AddressErased(4) EXCEPT !.got = EmptyGot, !.gpt = EmptyGpt]
        BY <3>1 DEF FactoryReset
      <4>2. disk'.got = EmptyGot /\ disk'.gpt = EmptyGpt
        BY <2>1, <4>1 DEF AddressErased, StorageType
      <4>. QED BY <4>1, <4>2, EmptiedTables
    <3>2. CASE ResetIa
      <4>1. UNCHANGED <<got, gpt, acked, lost>> /\ disk' = [disk EXCEPT !.ia = NoIa]
        BY <3>2 DEF ResetIa, tables, history
      <4>2. disk'.got = disk.got /\ disk'.gpt = disk.gpt
        BY <2>1, <4>1 DEF StorageType
      <4>. QED BY <1>2, <4>1, <4>2, SameTables
    <3>3. CASE ResetTables
      <4>1. /\ got' = EmptyGot /\ gpt' = EmptyGpt
            /\ disk' = [Erased(GptMax, GotMax) EXCEPT !.lsm = "unloaded"]
        BY <3>3 DEF ResetTables
      <4>2. disk'.got = EmptyGot /\ disk'.gpt = EmptyGpt
        BY <2>1, <4>1, AllErased DEF StorageType
      <4>. QED BY <4>1, <4>2, EmptiedTables
    <3>. QED BY <2>5, <3>1, <3>2, <3>3 DEF DelayedReset
  <2>6. CASE \/ \E payload \in GroupPosts : PostGroupObjects(payload)
             \/ \E payload \in PublisherPosts : PostPublishers(payload)
             \/ \E id \in Ids : DeleteGroupObject(id) \/ DeletePublisher(id)
    BY <1>2, <2>1, <2>6, TableRequests
  <2>7. CASE \/ PowerLoss \/ PowerLossInUnload \/ PowerLossInResetTables
             \/ PowerLossInFactoryReset
             \/ \E payload \in GroupPosts : PowerLossInGroupPost(payload)
             \/ \E payload \in PublisherPosts : PowerLossInPublisherPost(payload)
             \/ \E id \in Ids : PowerLossInDelete(id)
    BY <1>2, <2>1, <2>7, TablesReadBack
  <2>. QED BY <1>2, <2>2, <2>3, <2>4, <2>5, <2>6, <2>7 DEF Next
<1>. QED BY <1>1, <1>2, DeviceInvariant, PTL DEF Spec

(* No id is in two rows of a table, in memory or in storage, whatever the  *)
(* payloads, wherever power failed and whichever rows a start left out: the *)
(* only ids that can be twice are those left out.                          *)
THEOREM IdsAreUnique == Spec => []UniqueIds
<1>1. ASSUME DeviceInv, TablesInv PROVE UniqueIds
  <2>1. /\ DOMAIN got = 1 .. GotMax /\ DOMAIN disk.got = 1 .. GotMax
        /\ DOMAIN gpt = 1 .. GptMax /\ DOMAIN disk.gpt = 1 .. GptMax
    BY <1>1 DEF DeviceInv, TypeOK, GotType, GptType
  <2>2. InSlots(GotMax, disk.got, disk.got, lost) /\ InSlots(GptMax, disk.gpt, disk.gpt, {})
    BY <1>1, SavedAlone DEF TablesInv
  <2>. DEFINE Unique(table, out) ==
                \A s, t \in DOMAIN table :
                  table[s].id = table[t].id /\ table[s].id \notin out \cup {NoId} => s = t
  <2>3. Unique(got, lost) /\ Unique(gpt, {})
    BY <1>1, <2>1 DEF TablesInv, InSlots
  <2>4. Unique(disk.got, lost) /\ Unique(disk.gpt, {})
    BY <2>1, <2>2 DEF InSlots
  <2>5. UniqueIds = /\ \A table \in {got, disk.got} : Unique(table, lost)
                    /\ \A table \in {gpt, disk.gpt} : Unique(table, {})
    BY DEF UniqueIds
  <2>. HIDE DEF Unique
  <2>. QED BY <2>3, <2>4, <2>5
<1>. QED BY <1>1, DeviceInvariant, TablesInvariant, PTL

(* A group object whose last request was accepted is in storage as it is   *)
(* in memory, with the same exception.                                     *)
THEOREM AcceptedStored == Spec => []AcceptedIsStored
<1>1. ASSUME DeviceInv, TablesInv PROVE AcceptedIsStored
  <2>1. DOMAIN got = 1 .. GotMax /\ DOMAIN disk.got = 1 .. GotMax /\ NoId \notin acked
    BY <1>1, DeviceAssumption DEF DeviceInv, TypeOK, GotType, NoId
  <2>. SUFFICES ASSUME NEW id \in acked \ lost PROVE RowsOf(got, id) = RowsOf(disk.got, id)
    BY DEF AcceptedIsStored
  <2>2. \A s \in 1 .. GotMax : got[s].id = id => disk.got[s] = got[s]
    BY <1>1 DEF TablesInv, Stored
  <2>3. \A s \in 1 .. GotMax : disk.got[s].id = id => got[s].id = id
    BY <1>1, <2>1 DEF TablesInv, InSlots
  <2>. QED BY <2>1, <2>2, <2>3 DEF RowsOf
<1>. QED BY <1>1, DeviceInvariant, TablesInvariant, PTL
=============================================================================
