------------------------- MODULE GroupMessagesProof -------------------------
(***************************************************************************)
(* What the devices of a group show, for any number of devices, any tables *)
(* that meet the conditions named, and every order of messages, losses and *)
(* restarts: no value goes back to an older one, and whoever follows a     *)
(* datapoint ends with its value.                                          *)
(***************************************************************************)
EXTENDS GroupMessages, FiniteSetTheorems, WellFoundedInduction, SequenceTheorems, TLAPS

(* The least element of a set of numbers: strict inclusion of the initial  *)
(* segments is well founded.                                               *)
LEMMA LeastNumber ==
  ASSUME NEW S \in SUBSET Nat, S # {}
  PROVE  Min(S) \in S /\ \A m \in S : Min(S) <= m
<1>. DEFINE T == {0 .. n - 1 : n \in S}
<1>1. T \subseteq FiniteSubsetsOf(Nat)
  <2>. SUFFICES ASSUME NEW n \in S PROVE 0 .. n - 1 \in FiniteSubsetsOf(Nat)
    OBVIOUS
  <2>1. IsFiniteSet(0 .. n - 1)
    BY FS_Interval
  <2>. QED BY <2>1 DEF FiniteSubsetsOf
<1>2. T # {}
  OBVIOUS
<1>3. IsWellFoundedOn(StrictSubsetOrdering(Nat), FiniteSubsetsOf(Nat))
  BY FS_StrictSubsetOrderingWellFounded
<1>. HIDE DEF T
<1>4. PICK x \in T : \A y \in T : ~(<<y, x>> \in StrictSubsetOrdering(Nat))
  BY <1>1, <1>2, <1>3, WFMin
<1>5. PICK n \in S : x = 0 .. n - 1
  BY DEF T
<1>6. ASSUME NEW m \in S, m < n PROVE FALSE
  <2>1. 0 .. m - 1 \in T
    BY DEF T
  <2>2. 0 .. m - 1 \subseteq 0 .. n - 1 /\ 0 .. m - 1 # 0 .. n - 1
    <3>1. m \in 0 .. n - 1 /\ m \notin 0 .. m - 1
      BY <1>6
    <3>. QED BY <3>1, <1>6
  <2>3. <<0 .. m - 1, 0 .. n - 1>> \in StrictSubsetOrdering(Nat)
    BY <2>2 DEF StrictSubsetOrdering
  <2>. QED BY <1>4, <1>5, <2>1, <2>3
<1>7. \E k \in S : \A m \in S : k <= m
  BY <1>6
<1>. QED BY <1>7 DEF Min

(* Induction over the positions of a list, on a set of numbers.            *)
LEMMA UpTo ==
  ASSUME NEW n \in Nat, NEW T, 0 \in T, \A i \in 1 .. n : i - 1 \in T => i \in T
  PROVE  \A i \in 0 .. n : i \in T
<1>. SUFFICES ASSUME NEW i \in 0 .. n, i \notin T PROVE FALSE
  OBVIOUS
<1>. DEFINE S == {j \in 0 .. n : j \notin T}
<1>1. S \in SUBSET Nat /\ S # {}
  OBVIOUS
<1>2. Min(S) \in S /\ \A m \in S : Min(S) <= m
  BY <1>1, LeastNumber
<1>3. Min(S) \in 1 .. n
  BY <1>2
<1>4. Min(S) - 1 \in 0 .. n /\ Min(S) - 1 \in T
  BY <1>2, <1>3
<1>. QED BY <1>2, <1>3, <1>4

(* A loop that stays in a set has the values it goes through.              *)
Runs(n, S, base, step) ==
  \E f \in [0 .. n -> S] : f[0] = base /\ \A i \in 1 .. n : f[i] = step[<<f[i - 1], i>>]

LEMMA Iterates ==
  ASSUME NEW n \in Nat, NEW S, NEW base \in S, NEW step \in [S \X (1 .. n) -> S]
  PROVE  Runs(n, S, base, step)
<1>. DEFINE T == {k \in 0 .. n : Runs(k, S, base, step)}
<1>1. Runs(0, S, base, step)
  <2>. DEFINE f == [i \in 0 .. 0 |-> base]
  <2>1. f \in [0 .. 0 -> S] /\ f[0] = base
    OBVIOUS
  <2>2. \A i \in 1 .. 0 : FALSE
    OBVIOUS
  <2>. HIDE DEF f
  <2>. QED BY <2>1, <2>2 DEF Runs
<1>2. ASSUME NEW k \in 1 .. n, k - 1 \in T PROVE k \in T
  <2>1. PICK f \in [0 .. k - 1 -> S] :
          f[0] = base /\ \A i \in 1 .. k - 1 : f[i] = step[<<f[i - 1], i>>]
    BY <1>2 DEF Runs
  <2>. DEFINE latest == step[<<f[k - 1], k>>]
              g == [i \in 0 .. k |-> IF i = k THEN latest ELSE f[i]]
  <2>2. latest \in S
    <3>1. k - 1 \in 0 .. k - 1
      OBVIOUS
    <3>. QED BY <3>1
  <2>. HIDE DEF latest
  <2>3. g \in [0 .. k -> S]
    BY <2>2
  <2>4. g[0] = base
    BY <2>1
  <2>5. ASSUME NEW i \in 1 .. k PROVE g[i] = step[<<g[i - 1], i>>]
    <3>1. g[i - 1] = f[i - 1] /\ g[i] = IF i = k THEN latest ELSE f[i]
      OBVIOUS
    <3>. HIDE DEF g
    <3>2. CASE i = k
      BY <3>1, <3>2 DEF latest
    <3>3. CASE i # k
      <4>1. i \in 1 .. k - 1
        BY <3>3
      <4>2. f[i] = step[<<f[i - 1], i>>]
        BY <2>1, <4>1
      <4>. QED BY <3>1, <3>3, <4>2
    <3>. QED BY <3>2, <3>3
  <2>. HIDE DEF g
  <2>6. \E h \in [0 .. k -> S] : h[0] = base /\ \A i \in 1 .. k : h[i] = step[<<h[i - 1], i>>]
    <3>. WITNESS g \in [0 .. k -> S]
    <3>. QED BY <2>4, <2>5
  <2>. QED BY <2>6 DEF Runs
<1>3. 0 \in T
  BY <1>1
<1>. HIDE DEF T
<1>4. n \in T
  BY <1>2, <1>3, UpTo
<1>. QED BY <1>4 DEF T

-----------------------------------------------------------------------------
(* Lists, and what is kept of them.                                        *)

LEMMA RangeOf ==
  ASSUME NEW R, NEW list \in Seq(R), NEW x
  PROVE  x \in Range(list) <=> \E i \in 1 .. Len(list) : x = list[i]
BY DEF Range

LEMMA RangeWith ==
  ASSUME NEW R, NEW list \in Seq(R), NEW r \in R, NEW x
  PROVE  x \in Range(Append(list, r)) <=> x \in Range(list) \/ x = r
<1>. DEFINE more == Append(list, r)
            n == Len(list)
<1>1. /\ more \in Seq(R) /\ Len(more) = n + 1 /\ more[n + 1] = r
      /\ \A i \in 1 .. n : more[i] = list[i]
  BY AppendProperties
<1>2. n \in Nat
  OBVIOUS
<1>3. x \in Range(list) <=> \E i \in 1 .. n : x = list[i]
  BY RangeOf
<1>. HIDE DEF more, n
<1>4. x \in Range(more) <=> \E i \in 1 .. n + 1 : x = more[i]
  BY <1>1, RangeOf
<1>5. \A i \in 1 .. n + 1 : i \in 1 .. n \/ i = n + 1
  BY <1>2
<1>6. n + 1 \in 1 .. n + 1 /\ \A i \in 1 .. n : i \in 1 .. n + 1
  BY <1>2
<1>7. x \in Range(more) <=> x \in Range(list) \/ x = r
  BY <1>1, <1>3, <1>4, <1>5, <1>6
<1>. QED BY <1>7 DEF more

LEMMA RangeBoth ==
  ASSUME NEW R, NEW s \in Seq(R), NEW t \in Seq(R), NEW x
  PROVE  /\ s \o t \in Seq(R)
         /\ x \in Range(s \o t) <=> x \in Range(s) \/ x \in Range(t)
BY RangeConcatenation, ConcatProperties

KeptOf(R, list, keep, sub, n) ==
  /\ sub \in Seq(R)
  /\ \A x : x \in Range(sub) <=> \E i \in 1 .. n : i \in keep /\ x = list[i]

LEMMA KeptIs ==
  ASSUME NEW R, NEW list \in Seq(R), NEW keep
  PROVE  KeptOf(R, list, keep, Kept(list, keep), Len(list))
<1>. DEFINE n == Len(list)
            S == Seq(R)
            base == <<>>
            Next1(sub, i) == IF i \in keep THEN Append(sub, list[i]) ELSE sub
            step == [x \in S \X (1 .. n) |-> Next1(x[1], x[2])]
            kept == CHOOSE f : f = [i \in 0 .. n |->
                      IF i = 0 THEN base ELSE Next1(f[i - 1], i)]
<1>1. n \in Nat /\ base \in S
  OBVIOUS
<1>2. \A sub \in S, i \in 1 .. n : Next1(sub, i) \in S
  <2>. SUFFICES ASSUME NEW sub \in S, NEW i \in 1 .. n PROVE Next1(sub, i) \in S
    OBVIOUS
  <2>1. list[i] \in R
    OBVIOUS
  <2>. QED BY <2>1
<1>3. Kept(list, keep) = kept[n]
  BY DEF Kept
<1>. HIDE DEF n, S, base, Next1
<1>4. /\ step \in [S \X (1 .. n) -> S]
      /\ \A sub \in S, i \in 1 .. n : step[<<sub, i>>] = Next1(sub, i)
  BY <1>2
<1>. HIDE DEF step, kept
<1>5. PICK f \in [0 .. n -> S] : f[0] = base /\ \A i \in 1 .. n : f[i] = step[<<f[i - 1], i>>]
  <2>1. Runs(n, S, base, step)
    BY <1>1, <1>4, Iterates
  <2>. QED BY <2>1 DEF Runs
<1>6. \A i \in 1 .. n : i - 1 \in 0 .. n /\ f[i - 1] \in S /\ f[i] = Next1(f[i - 1], i)
  <2>. SUFFICES ASSUME NEW i \in 1 .. n
                PROVE  i - 1 \in 0 .. n /\ f[i - 1] \in S /\ f[i] = Next1(f[i - 1], i)
    OBVIOUS
  <2>1. i - 1 \in 0 .. n
    BY <1>1
  <2>. QED BY <1>4, <1>5, <2>1
<1>7. f = [i \in 0 .. n |-> IF i = 0 THEN base ELSE Next1(f[i - 1], i)]
  BY <1>1, <1>5, <1>6
<1>8. kept = [i \in 0 .. n |-> IF i = 0 THEN base ELSE Next1(kept[i - 1], i)]
  BY <1>7 DEF kept
<1>9. kept[0] = base /\ \A i \in 1 .. n : kept[i] = Next1(kept[i - 1], i)
  BY <1>1, <1>8
<1>. DEFINE T == {i \in 0 .. n : KeptOf(R, list, keep, kept[i], i)}
<1>10. 0 \in T
  <2>1. \A x : x \notin Range(base)
    BY DEF base, Range
  <2>2. \A i \in 1 .. 0 : FALSE
    OBVIOUS
  <2>. QED BY <1>1, <1>9, <2>1, <2>2 DEF KeptOf, S
<1>11. ASSUME NEW i \in 1 .. n, i - 1 \in T PROVE i \in T
  <2>1. kept[i - 1] \in Seq(R) /\ list[i] \in R /\ i \in 0 .. n
    BY <1>1, <1>11 DEF KeptOf, n
  <2>2. \A x : x \in Range(kept[i - 1]) <=> \E j \in 1 .. i - 1 : j \in keep /\ x = list[j]
    BY <1>11 DEF KeptOf
  <2>3. \A j : j \in 1 .. i <=> j \in 1 .. i - 1 \/ j = i
    BY <1>1
  <2>4. kept[i] = IF i \in keep THEN Append(kept[i - 1], list[i]) ELSE kept[i - 1]
    BY <1>9 DEF Next1
  <2>5. \A x : x \in Range(Append(kept[i - 1], list[i])) <=>
                 x \in Range(kept[i - 1]) \/ x = list[i]
    BY <2>1, RangeWith
  <2>6. kept[i] \in Seq(R)
    BY <2>1, <2>4, AppendProperties
  <2>7. \A x : x \in Range(kept[i]) <=> \E j \in 1 .. i : j \in keep /\ x = list[j]
    BY <2>2, <2>3, <2>4, <2>5
  <2>. QED BY <2>1, <2>6, <2>7 DEF KeptOf
<1>. HIDE DEF T
<1>12. \A i \in 0 .. n : i \in T
  BY <1>1, <1>10, <1>11, UpTo
<1>13. n \in T
  BY <1>1, <1>12
<1>. QED BY <1>3, <1>13 DEF T, n

-----------------------------------------------------------------------------
(* The rows of the tables, and the messages they make a device send.       *)

LEMMA RowIs ==
  ASSUME NEW d \in Device, NEW row \in Range(Objects[d])
  PROVE  /\ Objects[d] \in Seq(ObjectRow) /\ row \in ObjectRow /\ row.href \in Hrefs(d)
         /\ row.ga # <<>> => Head(row.ga) \in Range(row.ga) /\ Head(row.ga) \in Addresses
<1>1. Objects[d] \in Seq(ObjectRow)
  BY TablesAssumption
<1>2. row \in ObjectRow
  BY <1>1, RangeOf
<1>3. row.href \in Hrefs(d)
  BY DEF Hrefs
<1>4. ASSUME row.ga # <<>> PROVE Head(row.ga) \in Range(row.ga)
  <2>1. row.ga \in Seq(Nat)
    BY <1>2 DEF ObjectRow
  <2>2. 1 \in 1 .. Len(row.ga) /\ Head(row.ga) = row.ga[1]
    BY <1>4, <2>1
  <2>. QED BY <2>1, <2>2, RangeOf
<1>5. \A ga \in Range(row.ga) : ga \in Addresses
  BY DEF Addresses
<1>. QED BY <1>1, <1>2, <1>3, <1>4, <1>5

LEMMA PositionIs ==
  ASSUME NEW d \in Device, NEW i \in DOMAIN Objects[d]
  PROVE  Objects[d][i] \in Range(Objects[d]) /\ DOMAIN Objects[d] = 1 .. Len(Objects[d])
<1>1. Objects[d] \in Seq(ObjectRow)
  BY TablesAssumption
<1>. QED BY <1>1 DEF Range

LEMMA GroupIs ==
  ASSUME NEW d \in Device, NEW rows, rows = PublisherRows[d] \/ rows = RecipientRows[d],
         NEW ga \in Addresses
  PROVE  GroupOf(rows, ga) \in Groups
<1>. DEFINE I == {i \in 1 .. Len(rows) : ga \in rows[i].ga}
            found == IF I # {} THEN Min(I) ELSE 0
<1>1. rows \in Seq(TableRow)
  BY TablesAssumption
<1>2. GrpidOf(rows, ga) = IF found = 0 THEN 0 ELSE rows[found].grpid
  BY DEF GrpidOf, SelectInSeq
<1>3. found # 0 => found \in 1 .. Len(rows)
  <2>1. I \in SUBSET Nat
    OBVIOUS
  <2>2. I # {} => Min(I) \in I
    BY <2>1, LeastNumber
  <2>. QED BY <2>2
<1>. HIDE DEF I, found
<1>4. found # 0 => rows[found] \in Range(rows)
  BY <1>1, <1>3, RangeOf
<1>5. \A row \in Range(rows) : row.grpid \in Groups
  BY DEF Groups
<1>6. found # 0 => GrpidOf(rows, ga) \in Groups
  BY <1>2, <1>4, <1>5
<1>7. ga \in Groups
  BY DEF Groups
<1>8. found = 0 => GroupOf(rows, ga) = ga
  BY <1>2 DEF GroupOf
<1>. QED BY <1>6, <1>7, <1>8 DEF GroupOf

(* A message that some row of a datapoint sends.                           *)
SentBy(d, href, st, check, val, m) ==
  \E row \in Range(Objects[d]) :
    /\ row.href = href /\ row.ga # <<>> /\ Sends(row, check)
    /\ m = SMessage(d, st, Head(row.ga), GroupOf(RecipientRows[d], Head(row.ga)), val)

LEMMA SentIsMessage ==
  ASSUME NEW d \in Device, NEW row \in Range(Objects[d]), row.ga # <<>>,
         NEW st \in {"w", "a", "r"}, NEW val \in 0 .. MaxValue
  PROVE  SMessage(d, st, Head(row.ga), GroupOf(RecipientRows[d], Head(row.ga)), val) \in Message
<1>1. Head(row.ga) \in Addresses
  BY RowIs
<1>2. GroupOf(RecipientRows[d], Head(row.ga)) \in Groups
  BY <1>1, GroupIs
<1>. QED BY <1>1, <1>2 DEF SMessage, Message

LEMMA SModeIs ==
  ASSUME NEW d \in Device, NEW href, NEW st \in {"w", "a", "r"}, NEW check,
         NEW val \in 0 .. MaxValue
  PROVE  /\ SMode(d, href, st, check, val) \in Seq(Message)
         /\ \A m : m \in Range(SMode(d, href, st, check, val)) <=>
                     SentBy(d, href, st, check, val, m)
<1>. DEFINE list == Objects[d]
            may(row) == row.href = href /\ row.ga # <<>> /\ Sends(row, check)
            keep == {i \in DOMAIN Objects[d] : may(Objects[d][i])}
            rows == Kept(list, keep)
            make(row) == SMessage(d, st, Head(row.ga),
                                  GroupOf(RecipientRows[d], Head(row.ga)), val)
<1>1. list \in Seq(ObjectRow)
  BY TablesAssumption
<1>2. KeptOf(ObjectRow, list, keep, rows, Len(list))
  <2>. HIDE DEF list, keep
  <2>. QED BY <1>1, KeptIs
<1>3. \A row : row \in Range(rows) <=> row \in Range(list) /\ may(row)
  <2>1. DOMAIN list = 1 .. Len(list)
    BY <1>1
  <2>2. \A row : row \in Range(list) <=> \E i \in 1 .. Len(list) : row = list[i]
    BY <1>1, RangeOf
  <2>3. \A i \in 1 .. Len(list) : i \in keep <=> may(list[i])
    BY <2>1
  <2>4. \A row : row \in Range(rows) <=> \E i \in 1 .. Len(list) : i \in keep /\ row = list[i]
    BY <1>2 DEF KeptOf
  <2>. HIDE DEF list, keep, rows, may
  <2>. QED BY <2>2, <2>3, <2>4
<1>4. SMode(d, href, st, check, val) = [i \in DOMAIN rows |-> make(rows[i])]
  BY DEF SMode
<1>5. rows \in Seq(ObjectRow)
  BY <1>2 DEF KeptOf
<1>6. \A row \in Range(rows) : make(row) \in Message
  BY <1>3, SentIsMessage
<1>. DEFINE sent == [i \in DOMAIN rows |-> make(rows[i])]
<1>7. sent \in Seq(Message)
  <2>. HIDE DEF make, rows, list
  <2>1. \A i \in 1 .. Len(rows) : rows[i] \in Range(rows)
    BY <1>5, RangeOf
  <2>2. sent = [i \in 1 .. Len(rows) |-> make(rows[i])] /\ Len(rows) \in Nat
    BY <1>5
  <2>3. sent \in [1 .. Len(rows) -> Message]
    BY <1>6, <2>1, <2>2
  <2>. QED BY <2>2, <2>3
<1>8. \A m : m \in Range(sent) <=> \E row \in Range(rows) : m = make(row)
  <2>. HIDE DEF make, rows
  <2>. QED BY DEF Range
<1>9. \A m : SentBy(d, href, st, check, val, m) <=>
               \E row \in Range(list) : may(row) /\ m = make(row)
  BY DEF SentBy
<1>. HIDE DEF make, rows, list, may
<1>. QED BY <1>3, <1>4, <1>7, <1>8, <1>9

LEMMA EachScopeIs ==
  ASSUME NEW messages \in Seq(Message)
  PROVE  /\ EachScope(messages) \in Seq(Message)
         /\ \A m : m \in Range(EachScope(messages)) <=> m \in Range(messages)
<1>1. /\ messages \o messages \in Seq(Message)
      /\ \A m : m \in Range(messages \o messages) <=> m \in Range(messages)
  BY RangeBoth
<1>. QED BY <1>1 DEF EachScope

LEMMA SModesIs ==
  ASSUME NEW d \in Device, NEW href, NEW st \in {"w", "a", "r"}, NEW check,
         NEW val \in 0 .. MaxValue
  PROVE  /\ SModes(d, href, st, check, val) \in Seq(Message)
         /\ \A m : m \in Range(SModes(d, href, st, check, val)) <=>
                     d \in Running /\ SentBy(d, href, st, check, val, m)
<1>. DEFINE sent == SMode(d, href, st, check, val)
<1>1. sent \in Seq(Message) /\ \A m : m \in Range(sent) <=> SentBy(d, href, st, check, val, m)
  BY SModeIs
<1>2. EachScope(sent) \in Seq(Message) /\ \A m : m \in Range(EachScope(sent)) <=> m \in Range(sent)
  <2>. HIDE DEF sent
  <2>. QED BY <1>1, EachScopeIs
<1>3. SModes(d, href, st, check, val) = IF d \in Running THEN EachScope(sent) ELSE <<>>
  BY DEF SModes
<1>4. <<>> \in Seq(Message) /\ \A m : m \notin Range(<<>>)
  BY DEF Range
<1>. HIDE DEF sent
<1>. QED BY <1>1, <1>2, <1>3, <1>4

LEMMA PassOnIs ==
  ASSUME NEW d \in Device, NEW row, NEW val \in 0 .. MaxValue
  PROVE  /\ PassOn(d, row, val) \in Seq(Message)
         /\ \A m : m \in Range(PassOn(d, row, val)) <=>
              "t" \in row.flags /\ d \in Running /\ SentBy(d, row.href, "w", TRUE, val, m)
<1>. DEFINE sent == SModes(d, row.href, "w", TRUE, val)
<1>1. /\ sent \in Seq(Message)
      /\ \A m : m \in Range(sent) <=> d \in Running /\ SentBy(d, row.href, "w", TRUE, val, m)
  <2>1. "w" \in {"w", "a", "r"}
    OBVIOUS
  <2>. QED BY <2>1, SModesIs
<1>2. PassOn(d, row, val) = IF "t" \in row.flags THEN sent ELSE <<>>
  BY DEF PassOn
<1>3. <<>> \in Seq(Message) /\ \A m : m \notin Range(<<>>)
  BY DEF Range
<1>. HIDE DEF sent
<1>. QED BY <1>1, <1>2, <1>3

LEMMA AnswerIs ==
  ASSUME NEW d \in Device, NEW row, NEW request, NEW val \in 0 .. MaxValue
  PROVE  /\ Answer(d, row, request, val) \in Seq(Message)
         /\ \A m : m \in Range(Answer(d, row, request, val)) <=>
              d \in Running /\ SentBy(d, row.href, "a", FALSE, val, m)
<1>1. "a" \in {"w", "a", "r"}
  OBVIOUS
<1>. QED BY <1>1, SModesIs DEF Answer

-----------------------------------------------------------------------------
(* What a device makes of a message: the loop over its rows.               *)

(* What one row sends; a read overwrites nothing, so that the value sent   *)
(* back is the one the device has.                                         *)
Says(d, m, i) ==
  LET row == Objects[d][i]
  IN  IF Overwrites(row, m.st) THEN PassOn(d, row, m.value)
      ELSE IF Answers(row, m.st) THEN Answer(d, row, m, value[d][row.href])
      ELSE <<>>

Handles(d, m, i) == ~Ignores(d, m.from) /\ i \in RowsWith(d, m.ga)

Result(d) == [values : [Hrefs(d) -> 0 .. MaxValue], sent : Seq(Message)]

(* The result after the rows up to n.                                      *)
AfterRows(d, m, s, n) ==
  /\ s \in Result(d)
  /\ \A h \in Hrefs(d) :
       s.values[h] = IF \E i \in 1 .. n : /\ Handles(d, m, i) /\ Objects[d][i].href = h
                                          /\ Overwrites(Objects[d][i], m.st)
                     THEN m.value ELSE value[d][h]
  /\ \A x : x \in Range(s.sent) <=> \E i \in 1 .. n : Handles(d, m, i) /\ x \in Range(Says(d, m, i))

LEMMA SaysIs ==
  ASSUME NEW d \in Device, TypeOK, NEW m \in Message, NEW i \in DOMAIN Objects[d]
  PROVE  Says(d, m, i) \in Seq(Message)
<1>. DEFINE row == Objects[d][i]
<1>1. row \in Range(Objects[d]) /\ row.href \in Hrefs(d)
  BY PositionIs, RowIs
<1>2. m.value \in 0 .. MaxValue
  BY DEF Message
<1>3. value[d][row.href] \in 0 .. MaxValue
  BY <1>1 DEF TypeOK
<1>4. PassOn(d, row, m.value) \in Seq(Message)
  BY <1>2, PassOnIs
<1>5. Answer(d, row, m, value[d][row.href]) \in Seq(Message)
  BY <1>3, AnswerIs
<1>. QED BY <1>4, <1>5 DEF Says

LEMMA RowHandled ==
  ASSUME NEW d \in Device, TypeOK, NEW m \in Message, NEW i \in 1 .. Len(Objects[d]),
         NEW s, AfterRows(d, m, s, i - 1)
  PROVE  AfterRows(d, m, IF Handles(d, m, i) THEN HandleRow(d, m, s, i) ELSE s, i)
<1>. DEFINE row == Objects[d][i]
            h0 == row.href
            t == HandleRow(d, m, s, i)
<1>1. i \in DOMAIN Objects[d]
  BY TablesAssumption
<1>2. h0 \in Hrefs(d)
  BY <1>1, PositionIs, RowIs
<1>3. s \in Result(d) /\ s.values \in [Hrefs(d) -> 0 .. MaxValue] /\ s.sent \in Seq(Message)
  BY DEF AfterRows, Result
<1>4. Says(d, m, i) \in Seq(Message) /\ m.value \in 0 .. MaxValue
  BY <1>1, SaysIs DEF Message
<1>5. \A j : j \in 1 .. i <=> j \in 1 .. i - 1 \/ j = i
  BY <1>1
<1>6. CASE ~Handles(d, m, i)
  BY <1>5, <1>6 DEF AfterRows
<1>7. CASE Handles(d, m, i)
  <2>1. /\ t.values = IF Overwrites(row, m.st)
                      THEN [s.values EXCEPT ![h0] = m.value] ELSE s.values
        /\ t.sent = s.sent \o Says(d, m, i)
        /\ t \in Result(d)
    <3>1. CASE Overwrites(row, m.st)
      <4>1. t = [values |-> [s.values EXCEPT ![h0] = m.value],
                 sent |-> s.sent \o Says(d, m, i)]
        BY <3>1 DEF HandleRow, Says
      <4>. HIDE DEF t, row, h0
      <4>2. [s.values EXCEPT ![h0] = m.value] \in [Hrefs(d) -> 0 .. MaxValue]
        BY <1>2, <1>3, <1>4
      <4>3. s.sent \o Says(d, m, i) \in Seq(Message)
        BY <1>3, <1>4, RangeBoth
      <4>. QED BY <3>1, <4>1, <4>2, <4>3 DEF Result
    <3>2. CASE ~Overwrites(row, m.st) /\ Answers(row, m.st)
      <4>1. m.st = "r"
        BY <3>2 DEF Answers
      <4>2. \A j : ~Overwrites(Objects[d][j], m.st)
        BY <4>1 DEF Overwrites
      <4>3. s.values[h0] = value[d][h0]
        BY <1>2, <4>2 DEF AfterRows
      <4>4. t = [s EXCEPT !.sent = s.sent \o Says(d, m, i)]
        BY <3>2, <4>3 DEF HandleRow, Says
      <4>. HIDE DEF t, row, h0
      <4>5. s.sent \o Says(d, m, i) \in Seq(Message)
        BY <1>3, <1>4, RangeBoth
      <4>. QED BY <1>3, <3>2, <4>4, <4>5 DEF Result
    <3>3. CASE ~Overwrites(row, m.st) /\ ~Answers(row, m.st)
      <4>1. t = s /\ Says(d, m, i) = <<>>
        BY <3>3 DEF HandleRow, Says
      <4>. HIDE DEF t, row, h0
      <4>. QED BY <1>3, <3>3, <4>1
    <3>. QED BY <3>1, <3>2, <3>3
  <2>2. \A x : x \in Range(t.sent) <=> x \in Range(s.sent) \/ x \in Range(Says(d, m, i))
    <3>. HIDE DEF t
    <3>. QED BY <1>3, <1>4, <2>1, RangeBoth
  <2>3. ASSUME NEW h \in Hrefs(d)
        PROVE  t.values[h] = IF Overwrites(row, m.st) /\ h0 = h
                             THEN m.value ELSE s.values[h]
    <3>. HIDE DEF t, row, h0
    <3>. QED BY <1>2, <1>3, <2>1
  <2>. HIDE DEF t
  <2>4. AfterRows(d, m, t, i)
    BY <1>5, <1>7, <2>1, <2>2, <2>3 DEF AfterRows
  <2>. QED BY <1>7, <2>4 DEF t
<1>. QED BY <1>6, <1>7

LEMMA HandledIs ==
  ASSUME NEW d \in Device, TypeOK, NEW m \in Message
  PROVE  AfterRows(d, m, Handled(d, m), Len(Objects[d]))
<1>. DEFINE n == Len(Objects[d])
            S == Result(d)
            base == [values |-> value[d], sent |-> <<>>]
            rows == IF Ignores(d, m.from) THEN {} ELSE RowsWith(d, m.ga)
            Next1(s, i) == IF i \in rows THEN HandleRow(d, m, s, i) ELSE s
            T(i) == {s \in S : AfterRows(d, m, s, i)}
            step == [x \in S \X (1 .. n) |->
                       IF x[1] \in T(x[2] - 1) THEN Next1(x[1], x[2]) ELSE base]
            handled == CHOOSE f : f = [i \in 0 .. n |->
                      IF i = 0 THEN base ELSE Next1(f[i - 1], i)]
<1>1. n \in Nat /\ base \in S
  <2>1. Objects[d] \in Seq(ObjectRow)
    BY TablesAssumption
  <2>2. value[d] \in [Hrefs(d) -> 0 .. MaxValue]
    BY DEF TypeOK
  <2>. QED BY <2>1, <2>2 DEF Result
<1>2. \A i \in 1 .. n : i \in rows <=> Handles(d, m, i)
  BY DEF Handles
<1>3. ASSUME NEW i \in 1 .. n, NEW s \in T(i - 1) PROVE Next1(s, i) \in T(i)
  <2>1. AfterRows(d, m, Next1(s, i), i)
    BY <1>2, RowHandled
  <2>. QED BY <2>1 DEF AfterRows
<1>4. Handled(d, m) = handled[n]
  BY DEF Handled
<1>5. base \in T(0)
  <2>1. \A x : x \notin Range(<<>>)
    BY DEF Range
  <2>2. \A i \in 1 .. 0 : FALSE
    OBVIOUS
  <2>. QED BY <1>1, <2>1, <2>2 DEF AfterRows
<1>6. \A i : T(i) \subseteq S
  OBVIOUS
<1>. HIDE DEF n, S, base, Next1, T, rows
<1>7. /\ step \in [S \X (1 .. n) -> S]
      /\ \A i \in 1 .. n : \A s \in T(i - 1) : step[<<s, i>>] = Next1(s, i)
  BY <1>1, <1>3, <1>6
<1>. HIDE DEF step, handled
<1>8. PICK f \in [0 .. n -> S] : f[0] = base /\ \A i \in 1 .. n : f[i] = step[<<f[i - 1], i>>]
  <2>1. Runs(n, S, base, step)
    BY <1>1, <1>7, Iterates
  <2>. QED BY <2>1 DEF Runs
<1>. DEFINE U == {i \in 0 .. n : f[i] \in T(i)}
<1>9. 0 \in U
  BY <1>1, <1>5, <1>8
<1>10. ASSUME NEW i \in 1 .. n, i - 1 \in U PROVE i \in U
  <2>1. f[i - 1] \in T(i - 1) /\ i \in 0 .. n
    BY <1>1, <1>10
  <2>2. f[i] = Next1(f[i - 1], i)
    BY <1>7, <1>8, <2>1
  <2>. QED BY <1>3, <2>1, <2>2
<1>11. \A i \in 0 .. n : f[i] \in T(i)
  <2>. HIDE DEF U
  <2>1. \A i \in 0 .. n : i \in U
    BY <1>1, <1>9, <1>10, UpTo
  <2>. QED BY <2>1 DEF U
<1>12. \A i \in 1 .. n : f[i] = Next1(f[i - 1], i)
  <2>1. \A i \in 1 .. n : i - 1 \in 0 .. n
    BY <1>1
  <2>. QED BY <1>7, <1>8, <1>11, <2>1
<1>13. f = [i \in 0 .. n |-> IF i = 0 THEN base ELSE Next1(f[i - 1], i)]
  BY <1>1, <1>8, <1>12
<1>14. handled = [i \in 0 .. n |-> IF i = 0 THEN base ELSE Next1(handled[i - 1], i)]
  BY <1>13 DEF handled
<1>. DEFINE V == {i \in 0 .. n : handled[i] \in T(i)}
<1>15. 0 \in V
  BY <1>1, <1>5, <1>14
<1>16. ASSUME NEW i \in 1 .. n, i - 1 \in V PROVE i \in V
  <2>1. handled[i - 1] \in T(i - 1) /\ i \in 0 .. n
    BY <1>1, <1>16
  <2>2. handled[i] = Next1(handled[i - 1], i)
    BY <1>1, <1>14
  <2>. QED BY <1>3, <2>1, <2>2
<1>. HIDE DEF V
<1>17. \A i \in 0 .. n : i \in V
  BY <1>1, <1>15, <1>16, UpTo
<1>18. handled[n] \in T(n)
  BY <1>1, <1>17 DEF V
<1>. QED BY <1>4, <1>18 DEF T, n

-----------------------------------------------------------------------------
(* The reads of a restart, and what arrives where.                         *)

AsksFirst(d, row) == row.ga # <<>> /\ "i" \in row.flags

FirstRead(d, row) ==
  SMessage(d, "r", Head(row.ga), GroupOf(PublisherRows[d], Head(row.ga)), 0)

LEMMA FirstReadIs ==
  ASSUME NEW d \in Device, NEW row \in Range(Objects[d]), AsksFirst(d, row)
  PROVE  /\ FirstRead(d, row) \in Message
         /\ ReadModes(d, Head(row.ga)) \in Seq(Message)
         /\ \A m : m \in Range(ReadModes(d, Head(row.ga))) <=> m = FirstRead(d, row)
<1>1. Head(row.ga) \in Addresses
  BY RowIs DEF AsksFirst
<1>2. GroupOf(PublisherRows[d], Head(row.ga)) \in Groups
  BY <1>1, GroupIs
<1>3. FirstRead(d, row) \in Message
  BY <1>1, <1>2, GroupAssumption DEF FirstRead, SMessage, Message
<1>. DEFINE read == FirstRead(d, row)
<1>4. ReadModes(d, Head(row.ga)) = EachScope(<<read>>)
  BY DEF ReadModes, FirstRead
<1>. HIDE DEF read
<1>5. <<read>> \in Seq(Message)
  BY <1>3 DEF read
<1>6. \A m : m \in Range(<<read>>) <=> m = read
  <2>1. Len(<<read>>) = 1 /\ <<read>>[1] = read
    OBVIOUS
  <2>2. \A i : i \in 1 .. 1 <=> i = 1
    OBVIOUS
  <2>3. \A m : m \in Range(<<read>>) <=> \E i \in 1 .. Len(<<read>>) : m = <<read>>[i]
    BY <1>5, RangeOf
  <2>. QED BY <2>1, <2>2, <2>3
<1>7. /\ EachScope(<<read>>) \in Seq(Message)
      /\ \A m : m \in Range(EachScope(<<read>>)) <=> m \in Range(<<read>>)
  BY <1>5, EachScopeIs
<1>. QED BY <1>3, <1>4, <1>6, <1>7 DEF read

ReadsOf(d, s, n) ==
  /\ s \in Seq(Message)
  /\ \A m : m \in Range(s) <=> \E i \in 1 .. n :
       AsksFirst(d, Objects[d][i]) /\ m = FirstRead(d, Objects[d][i])

LEMMA InitReadsIs ==
  ASSUME NEW d \in Device
  PROVE  ReadsOf(d, InitReads(d), Len(Objects[d]))
<1>. DEFINE n == Len(Objects[d])
            S == Seq(Message)
            base == <<>>
            list == Objects[d]
            Next1(s, i) == IF list[i].ga # <<>> /\ "i" \in list[i].flags
                           THEN s \o ReadModes(d, Head(list[i].ga)) ELSE s
            step == [x \in S \X (1 .. n) |-> Next1(x[1], x[2])]
            reads == CHOOSE f : f = [i \in 0 .. n |->
                      IF i = 0 THEN base ELSE Next1(f[i - 1], i)]
<1>1. n \in Nat /\ base \in S /\ list \in Seq(ObjectRow)
  BY TablesAssumption
<1>2. ASSUME NEW s \in S, NEW i \in 1 .. n, ReadsOf(d, s, i - 1)
      PROVE  ReadsOf(d, Next1(s, i), i)
  <2>1. \A j : j \in 1 .. i <=> j \in 1 .. i - 1 \/ j = i
    BY <1>1
  <2>2. CASE ~AsksFirst(d, list[i])
    <3>1. Next1(s, i) = s
      BY <2>2 DEF AsksFirst
    <3>. HIDE DEF Next1
    <3>. QED BY <1>2, <2>1, <2>2, <3>1 DEF ReadsOf
  <2>3. CASE AsksFirst(d, list[i])
    <3>. DEFINE more == ReadModes(d, Head(list[i].ga))
    <3>1. Next1(s, i) = s \o more
      BY <2>3 DEF AsksFirst
    <3>2. i \in DOMAIN list
      BY <1>1
    <3>3. /\ more \in Seq(Message)
          /\ \A m : m \in Range(more) <=> m = FirstRead(d, list[i])
      BY <2>3, <3>2, PositionIs, FirstReadIs
    <3>. HIDE DEF Next1, more
    <3>4. s \o more \in Seq(Message) /\ \A m : m \in Range(s \o more) <=> m \in Range(s) \/ m \in Range(more)
      BY <3>3, RangeBoth
    <3>. QED BY <1>2, <2>1, <2>3, <3>1, <3>3, <3>4 DEF ReadsOf
  <2>. QED BY <2>2, <2>3
<1>3. \A s \in S, i \in 1 .. n : Next1(s, i) \in S
  <2>. SUFFICES ASSUME NEW s \in S, NEW i \in 1 .. n PROVE Next1(s, i) \in S
    OBVIOUS
  <2>1. CASE list[i].ga # <<>> /\ "i" \in list[i].flags
    <3>. DEFINE more == ReadModes(d, Head(list[i].ga))
    <3>1. i \in DOMAIN list /\ AsksFirst(d, list[i])
      BY <1>1, <2>1 DEF AsksFirst
    <3>2. more \in Seq(Message)
      BY <3>1, PositionIs, FirstReadIs
    <3>3. Next1(s, i) = s \o more
      BY <2>1
    <3>. HIDE DEF Next1, more
    <3>. QED BY <3>2, <3>3, RangeBoth
  <2>2. CASE ~(list[i].ga # <<>> /\ "i" \in list[i].flags)
    BY <2>2
  <2>. QED BY <2>1, <2>2
<1>4. InitReads(d) = reads[n]
  BY DEF InitReads
<1>5. ReadsOf(d, base, 0)
  <2>1. \A m : m \notin Range(<<>>)
    BY DEF Range
  <2>2. \A i \in 1 .. 0 : FALSE
    OBVIOUS
  <2>. QED BY <2>1, <2>2 DEF ReadsOf
<1>. HIDE DEF n, S, base, Next1, list
<1>6. /\ step \in [S \X (1 .. n) -> S]
      /\ \A s \in S, i \in 1 .. n : step[<<s, i>>] = Next1(s, i)
  BY <1>3
<1>. HIDE DEF step, reads
<1>7. PICK f \in [0 .. n -> S] : f[0] = base /\ \A i \in 1 .. n : f[i] = step[<<f[i - 1], i>>]
  <2>1. Runs(n, S, base, step)
    BY <1>1, <1>6, Iterates
  <2>. QED BY <2>1 DEF Runs
<1>8. \A i \in 1 .. n : i - 1 \in 0 .. n /\ f[i - 1] \in S /\ f[i] = Next1(f[i - 1], i)
  <2>. SUFFICES ASSUME NEW i \in 1 .. n
                PROVE  i - 1 \in 0 .. n /\ f[i - 1] \in S /\ f[i] = Next1(f[i - 1], i)
    OBVIOUS
  <2>1. i - 1 \in 0 .. n
    BY <1>1
  <2>. QED BY <1>6, <1>7, <2>1
<1>9. f = [i \in 0 .. n |-> IF i = 0 THEN base ELSE Next1(f[i - 1], i)]
  BY <1>1, <1>7, <1>8
<1>10. reads = [i \in 0 .. n |-> IF i = 0 THEN base ELSE Next1(reads[i - 1], i)]
  BY <1>9 DEF reads
<1>. DEFINE T == {i \in 0 .. n : reads[i] \in S /\ ReadsOf(d, reads[i], i)}
<1>11. 0 \in T
  BY <1>1, <1>5, <1>10
<1>12. ASSUME NEW i \in 1 .. n, i - 1 \in T PROVE i \in T
  <2>1. reads[i - 1] \in S /\ ReadsOf(d, reads[i - 1], i - 1) /\ i \in 0 .. n
    BY <1>1, <1>12
  <2>2. reads[i] = Next1(reads[i - 1], i)
    BY <1>1, <1>10
  <2>. QED BY <1>2, <1>3, <2>1, <2>2
<1>. HIDE DEF T
<1>13. \A i \in 0 .. n : i \in T
  BY <1>1, <1>11, <1>12, UpTo
<1>14. n \in T
  BY <1>1, <1>13
<1>. QED BY <1>4, <1>14 DEF T, n

LEMMA ArrivingIs ==
  ASSUME NEW d \in Device, NEW messages \in Seq(Message)
  PROVE  /\ Arriving(d, messages) \in Seq(Message)
         /\ \A m : m \in Range(Arriving(d, messages)) <=>
                     m \in Range(messages) /\ m.group \in Joined[d]
<1>. DEFINE keep == {i \in DOMAIN messages : messages[i].group \in Joined[d]}
<1>1. \A i \in 1 .. Len(messages) : i \in keep <=> messages[i].group \in Joined[d]
  OBVIOUS
<1>2. Arriving(d, messages) = Kept(messages, keep)
  BY DEF Arriving
<1>. HIDE DEF keep
<1>3. KeptOf(Message, messages, keep, Kept(messages, keep), Len(messages))
  BY KeptIs
<1>4. \A m : m \in Range(messages) <=> \E i \in 1 .. Len(messages) : m = messages[i]
  BY RangeOf
<1>. QED BY <1>1, <1>2, <1>3, <1>4 DEF KeptOf

-----------------------------------------------------------------------------
(* Well-formedness.                                                        *)

LEMMA TransmitIs ==
  ASSUME NEW boxes \in [Device -> Seq(Message)], NEW sent \in Seq(Message),
         Transmit(boxes, sent)
  PROVE  /\ inbox' \in [Device -> Seq(Message)]
         /\ \A d \in Device : Len(inbox'[d]) <= MaxInbox
         /\ \A d \in Device : inbox'[d] = boxes[d] \o Arriving(d, sent)
<1>1. inbox' = [d \in Device |-> boxes[d] \o Arriving(d, sent)]
  BY DEF Transmit
<1>2. \A d \in Device : Len(inbox'[d]) <= MaxInbox
  BY DEF Transmit
<1>3. \A d \in Device : boxes[d] \o Arriving(d, sent) \in Seq(Message)
  <2>. SUFFICES ASSUME NEW d \in Device PROVE boxes[d] \o Arriving(d, sent) \in Seq(Message)
    OBVIOUS
  <2>1. Arriving(d, sent) \in Seq(Message) /\ boxes[d] \in Seq(Message)
    BY ArrivingIs
  <2>. QED BY <2>1, RangeBoth
<1>. QED BY <1>1, <1>2, <1>3

(* A device handles the first message of its inbox.                        *)
LEMMA HeadIs ==
  ASSUME NEW d \in Device, TypeOK, inbox[d] # <<>>
  PROVE  /\ Head(inbox[d]) \in Message /\ Head(inbox[d]) = inbox[d][1]
         /\ Head(inbox[d]) \in Range(inbox[d])
         /\ Tail(inbox[d]) \in Seq(Message) /\ Len(inbox[d]) \in Nat \ {0}
         /\ Len(Tail(inbox[d])) = Len(inbox[d]) - 1
         /\ \A i \in 1 .. Len(inbox[d]) - 1 : Tail(inbox[d])[i] = inbox[d][i + 1]
         /\ [inbox EXCEPT ![d] = Tail(@)] \in [Device -> Seq(Message)]
<1>1. inbox[d] \in Seq(Message) /\ inbox \in [Device -> Seq(Message)]
  BY DEF TypeOK
<1>. DEFINE box == inbox[d]
<1>2. box \in Seq(Message) /\ box # <<>>
  BY <1>1
<1>3. /\ Tail(box) \in Seq(Message) /\ Len(box) \in Nat \ {0} /\ Head(box) = box[1]
      /\ Len(Tail(box)) = Len(box) - 1
      /\ \A i \in 1 .. Len(box) - 1 : Tail(box)[i] = box[i + 1]
  <2>. HIDE DEF box
  <2>. QED BY <1>2
<1>4. 1 \in 1 .. Len(box)
  BY <1>3
<1>5. box[1] \in Message /\ box[1] \in Range(box)
  BY <1>2, <1>4, RangeOf
<1>6. [inbox EXCEPT ![d] = Tail(@)] \in [Device -> Seq(Message)]
  BY <1>1, <1>3
<1>. QED BY <1>3, <1>5, <1>6

LEMMA ReceiveIs ==
  ASSUME NEW d \in Device, TypeOK, Receive(d)
  PROVE  \E s : /\ AfterRows(d, Head(inbox[d]), s, Len(Objects[d]))
                /\ value' = [value EXCEPT ![d] = s.values]
                /\ Transmit([inbox EXCEPT ![d] = Tail(@)], s.sent)
<1>1. inbox[d] # <<>>
  BY DEF Receive
<1>2. Head(inbox[d]) \in Message
  BY <1>1, HeadIs
<1>. DEFINE s == Handled(d, Head(inbox[d]))
<1>3. AfterRows(d, Head(inbox[d]), s, Len(Objects[d]))
  BY <1>2, HandledIs
<1>4. value' = [value EXCEPT ![d] = s.values] /\ Transmit([inbox EXCEPT ![d] = Tail(@)], s.sent)
  BY DEF Receive
<1>. HIDE DEF s
<1>. QED BY <1>3, <1>4

LEMMA TypeStep == TypeOK /\ [Next]_vars => TypeOK'
<1>. SUFFICES ASSUME TypeOK, [Next]_vars PROVE TypeOK'
  OBVIOUS
<1>1. ASSUME NEW d \in Device, Receive(d) PROVE TypeOK'
  <2>1. PICK s : /\ AfterRows(d, Head(inbox[d]), s, Len(Objects[d]))
                 /\ value' = [value EXCEPT ![d] = s.values]
                 /\ Transmit([inbox EXCEPT ![d] = Tail(@)], s.sent)
    BY <1>1, ReceiveIs
  <2>2. s.values \in [Hrefs(d) -> 0 .. MaxValue] /\ s.sent \in Seq(Message)
    BY <2>1 DEF AfterRows, Result
  <2>3. inbox[d] # <<>> /\ UNCHANGED <<written, restarts, lost>>
    BY <1>1 DEF Receive
  <2>4. [inbox EXCEPT ![d] = Tail(@)] \in [Device -> Seq(Message)]
    BY <2>3, HeadIs
  <2>5. inbox' \in [Device -> Seq(Message)] /\ \A c \in Device : Len(inbox'[c]) <= MaxInbox
    BY <2>1, <2>2, <2>4, TransmitIs
  <2>. QED BY <2>1, <2>2, <2>3, <2>5 DEF TypeOK
<1>2. ASSUME NEW d \in Device, Lose(d) PROVE TypeOK'
  <2>1. inbox[d] # <<>> /\ inbox' = [inbox EXCEPT ![d] = Tail(@)]
    BY <1>2 DEF Lose
  <2>2. inbox' \in [Device -> Seq(Message)] /\ Len(Tail(inbox[d])) <= Len(inbox[d])
    BY <2>1, HeadIs
  <2>3. \A c \in Device : inbox'[c] = IF c = d THEN Tail(inbox[d]) ELSE inbox[c]
    BY <2>1 DEF TypeOK
  <2>4. Len(inbox[d]) \in Nat /\ Len(Tail(inbox[d])) \in Nat
    BY <2>1, HeadIs
  <2>5. \A c \in Device : Len(inbox'[c]) <= MaxInbox
    <3>. SUFFICES ASSUME NEW c \in Device PROVE Len(inbox'[c]) <= MaxInbox
      OBVIOUS
    <3>1. Len(inbox[c]) <= MaxInbox /\ Len(inbox[d]) <= MaxInbox /\ MaxInbox \in Nat
      BY GroupAssumption DEF TypeOK
    <3>2. CASE c = d
      <4>1. inbox'[c] = Tail(inbox[d])
        BY <2>3, <3>2
      <4>2. Len(Tail(inbox[d])) <= MaxInbox
        BY <2>2, <2>4, <3>1
      <4>. QED BY <4>1, <4>2
    <3>3. CASE c # d
      BY <2>3, <3>1, <3>3
    <3>. QED BY <3>2, <3>3
  <2>6. lost' \in 0 .. MaxLost /\ UNCHANGED <<value, written, restarts>>
    BY <1>2, GroupAssumption DEF Lose, TypeOK
  <2>. QED BY <2>2, <2>5, <2>6 DEF TypeOK
<1>3. ASSUME NEW d \in Device, Restart(d) PROVE TypeOK'
  <2>1. InitReads(d) \in Seq(Message)
    BY InitReadsIs DEF ReadsOf
  <2>2. [inbox EXCEPT ![d] = <<>>] \in [Device -> Seq(Message)]
    BY DEF TypeOK
  <2>3. Transmit([inbox EXCEPT ![d] = <<>>], InitReads(d))
    BY <1>3 DEF Restart
  <2>4. inbox' \in [Device -> Seq(Message)] /\ \A c \in Device : Len(inbox'[c]) <= MaxInbox
    BY <2>1, <2>2, <2>3, TransmitIs
  <2>5. /\ value' = [value EXCEPT ![d] = [href \in Hrefs(d) |-> 0]]
        /\ restarts' \in 0 .. MaxRestarts /\ UNCHANGED <<written, lost>>
    BY <1>3, GroupAssumption DEF Restart, TypeOK
  <2>6. [href \in Hrefs(d) |-> 0] \in [Hrefs(d) -> 0 .. MaxValue]
    BY GroupAssumption
  <2>. QED BY <2>4, <2>5, <2>6 DEF TypeOK
<1>4. ASSUME NEW d \in Device, NEW href \in Hrefs(d), Write(d, href) PROVE TypeOK'
  <2>1. written + 1 \in 0 .. MaxValue
    BY <1>4, GroupAssumption DEF Write, TypeOK
  <2>2. SModes(d, href, "w", TRUE, written + 1) \in Seq(Message)
    <3>1. "w" \in {"w", "a", "r"}
      OBVIOUS
    <3>. QED BY <2>1, <3>1, SModesIs
  <2>3. Transmit(inbox, SModes(d, href, "w", TRUE, written + 1))
    BY <1>4 DEF Write
  <2>4. inbox \in [Device -> Seq(Message)]
    BY DEF TypeOK
  <2>5. inbox' \in [Device -> Seq(Message)] /\ \A c \in Device : Len(inbox'[c]) <= MaxInbox
    BY <2>2, <2>3, <2>4, TransmitIs
  <2>6. /\ value' = [value EXCEPT ![d][href] = written + 1]
        /\ written' = written + 1 /\ UNCHANGED <<restarts, lost>>
    BY <1>4 DEF Write
  <2>7. \A c \in Device : value'[c] = IF c = d THEN [value[d] EXCEPT ![href] = written + 1] ELSE value[c]
    BY <2>6 DEF TypeOK
  <2>8. DOMAIN value' = Device
    BY <2>6 DEF TypeOK
  <2>9. \A c \in Device : value'[c] \in [Hrefs(c) -> 0 .. MaxValue]
    <3>. SUFFICES ASSUME NEW c \in Device PROVE value'[c] \in [Hrefs(c) -> 0 .. MaxValue]
      OBVIOUS
    <3>1. value[c] \in [Hrefs(c) -> 0 .. MaxValue]
      BY DEF TypeOK
    <3>2. CASE c = d
      BY <2>1, <2>7, <3>1, <3>2
    <3>3. CASE c # d
      BY <2>7, <3>1, <3>3
    <3>. QED BY <3>2, <3>3
  <2>. QED BY <2>1, <2>5, <2>6, <2>8, <2>9 DEF TypeOK
<1>5. CASE UNCHANGED vars
  BY <1>5 DEF vars, TypeOK
<1>. QED BY <1>1, <1>2, <1>3, <1>4, <1>5 DEF Next

(* Values and messages stay within their sets: a value is one the          *)
(* application wrote, and a message goes to a group of some table.         *)
THEOREM TypeCorrect == Spec => []TypeOK
<1>1. Init => TypeOK
  <2>. SUFFICES ASSUME Init PROVE TypeOK
    OBVIOUS
  <2>1. \A d \in Device : value[d] \in [Hrefs(d) -> 0 .. MaxValue]
    BY GroupAssumption DEF Init
  <2>2. inbox \in [Device -> Seq(Message)] /\ \A d \in Device : Len(inbox[d]) <= MaxInbox
    BY GroupAssumption DEF Init
  <2>. QED BY <2>1, <2>2, GroupAssumption DEF Init, TypeOK
<1>. QED BY <1>1, TypeStep, PTL DEF Spec

-----------------------------------------------------------------------------
(* Order: what a message tells a datapoint, and what it has not passed.     *)

(* A message that overwrites a datapoint when the device handles it.       *)
Comes(d, h, m) ==
  /\ ~Ignores(d, m.from)
  /\ \E row \in Range(Objects[d]) :
       row.href = h /\ m.ga \in Range(row.ga) /\ Overwrites(row, m.st)

(* Each message on its way to a datapoint carries a value the datapoint's  *)
(* leader had or has, and the datapoint has not passed.                    *)
Explained(vals, boxes) ==
  \A d \in Device : \A h \in Hrefs(d) : \A m \in Range(boxes[d]) :
    Comes(d, h, m) =>
      /\ vals[d][h] <= m.value
      /\ \E g \in Hrefs(m.from) : Reaches(m.from, g, d, h) /\ m.value <= vals[m.from][g]

(* Those messages are in the order of the values.                          *)
Ordered(boxes) ==
  \A d \in Device : \A h \in Hrefs(d) : \A k, l \in 1 .. Len(boxes[d]) :
    k < l /\ Comes(d, h, boxes[d][k]) /\ Comes(d, h, boxes[d][l]) =>
      boxes[d][k].value <= boxes[d][l].value

(* A datapoint is never ahead of the one that overwrites it.               *)
Behind(vals) ==
  \A d, e \in Device : \A h \in Hrefs(d), g \in Hrefs(e) :
    Reaches(e, g, d, h) => vals[d][h] <= vals[e][g]

(* The application is never behind.                                        *)
Bounded(vals, last) == \A d \in Device : \A h \in Hrefs(d) : vals[d][h] <= last

OrderInv ==
  Explained(value, inbox) /\ Ordered(inbox) /\ Behind(value) /\ Bounded(value, written)

(* A message by which d announces a datapoint that has the value vals.     *)
Announces(d, vals, m) ==
  /\ m.from = d /\ d \in Running
  /\ \E row \in Range(Objects[d]) :
       /\ row.ga # <<>> /\ m.ga = Head(row.ga)
       /\ m.group = GroupOf(RecipientRows[d], Head(row.ga))
       /\ m.value = vals[row.href]
       /\ \/ m.st = "w" /\ "t" \in row.flags
          \/ m.st = "a" /\ \E r \in Range(Objects[d]) : r.href = row.href /\ "r" \in r.flags

LEMMA OverwritesBy ==
  ASSUME NEW row, NEW st, Overwrites(row, st)
  PROVE  st \in {"w", "a"} /\ ~Answers(row, st)
BY DEF Overwrites, Answers

LEMMA AnnouncedReaches ==
  ASSUME NEW d \in Device, NEW c \in Device, NEW h, NEW vals, NEW m,
         Announces(d, vals, m), m.group \in Joined[c], Comes(c, h, m)
  PROVE  \E g \in Hrefs(d) : Reaches(d, g, c, h) /\ m.value = vals[g]
<1>1. PICK row \in Range(Objects[d]) :
        /\ row.ga # <<>> /\ m.ga = Head(row.ga)
        /\ m.group = GroupOf(RecipientRows[d], Head(row.ga))
        /\ m.value = vals[row.href]
        /\ \/ m.st = "w" /\ "t" \in row.flags
           \/ m.st = "a" /\ \E r \in Range(Objects[d]) : r.href = row.href /\ "r" \in r.flags
  BY DEF Announces
<1>2. PICK own \in Range(Objects[c]) :
        own.href = h /\ m.ga \in Range(own.ga) /\ Overwrites(own, m.st)
  BY DEF Comes
<1>3. m.st \in {"w", "a"}
  BY <1>2, OverwritesBy
<1>4. m.from = d /\ d \in Running /\ ~Ignores(c, d)
  BY DEF Announces, Comes
<1>5. Reaches(d, row.href, c, h)
  BY <1>1, <1>2, <1>3, <1>4 DEF Reaches
<1>6. row.href \in Hrefs(d)
  BY RowIs
<1>. QED BY <1>1, <1>5, <1>6

IsValues(vals) == \A d \in Device : \A h \in Hrefs(d) : vals[d][h] \in Int

(* Messages announced with the values of their sender, behind those that   *)
(* are on their way, leave the order as it is.                             *)
LEMMA Delivered ==
  ASSUME OneLeader, NEW vals, IsValues(vals), NEW boxes \in [Device -> Seq(Message)],
         NEW after \in [Device -> Seq(Message)], NEW d \in Device, NEW sent \in Seq(Message),
         \A c \in Device : after[c] = boxes[c] \o Arriving(c, sent),
         \A m \in Range(sent) : m.st = "r" \/ Announces(d, vals[d], m),
         Explained(vals, boxes), Ordered(boxes), Behind(vals)
  PROVE  Explained(vals, after) /\ Ordered(after)
<1>1. ASSUME NEW c \in Device, NEW h \in Hrefs(c), NEW m \in Range(sent), m.group \in Joined[c],
             Comes(c, h, m)
      PROVE  \E g \in Hrefs(d) : m.from = d /\ Reaches(d, g, c, h) /\ m.value = vals[d][g]
  <2>1. m.st # "r"
    BY <1>1, OverwritesBy DEF Comes
  <2>2. Announces(d, vals[d], m)
    BY <2>1
  <2>3. m.from = d
    BY <2>2 DEF Announces
  <2>4. \E g \in Hrefs(d) : Reaches(d, g, c, h) /\ m.value = vals[d][g]
    <3>. DEFINE own == vals[d]
    <3>1. Announces(d, own, m)
      BY <2>2
    <3>. HIDE DEF own
    <3>2. \E g \in Hrefs(d) : Reaches(d, g, c, h) /\ m.value = own[g]
      BY <1>1, <3>1, AnnouncedReaches
    <3>. QED BY <3>2 DEF own
  <2>. QED BY <2>3, <2>4
<1>2. ASSUME NEW c \in Device
      PROVE  /\ boxes[c] \in Seq(Message) /\ Arriving(c, sent) \in Seq(Message)
             /\ \A m : m \in Range(Arriving(c, sent)) <=> m \in Range(sent) /\ m.group \in Joined[c]
             /\ \A m : m \in Range(after[c]) <=>
                         m \in Range(boxes[c]) \/ (m \in Range(sent) /\ m.group \in Joined[c])
  <2>1. /\ Arriving(c, sent) \in Seq(Message)
        /\ \A m : m \in Range(Arriving(c, sent)) <=> m \in Range(sent) /\ m.group \in Joined[c]
    BY ArrivingIs
  <2>. QED BY <2>1, RangeBoth
<1>3. Explained(vals, after)
  <2>. SUFFICES ASSUME NEW c \in Device, NEW h \in Hrefs(c), NEW m \in Range(after[c]), Comes(c, h, m)
                PROVE  /\ vals[c][h] <= m.value
                       /\ \E g \in Hrefs(m.from) : Reaches(m.from, g, c, h) /\ m.value <= vals[m.from][g]
    BY DEF Explained
  <2>1. CASE m \in Range(boxes[c])
    BY <2>1 DEF Explained
  <2>2. CASE m \in Range(sent) /\ m.group \in Joined[c]
    <3>1. PICK g \in Hrefs(d) : m.from = d /\ Reaches(d, g, c, h) /\ m.value = vals[d][g]
      BY <1>1, <2>2
    <3>2. vals[c][h] <= vals[d][g]
      BY <3>1 DEF Behind
    <3>3. vals[d][g] \in Int
      BY DEF IsValues
    <3>. QED BY <3>1, <3>2, <3>3
  <2>. QED BY <1>2, <2>1, <2>2
<1>4. Ordered(after)
  <2>. SUFFICES ASSUME NEW c \in Device, NEW h \in Hrefs(c),
                       NEW k \in 1 .. Len(after[c]), NEW l \in 1 .. Len(after[c]), k < l,
                       Comes(c, h, after[c][k]), Comes(c, h, after[c][l])
                PROVE  after[c][k].value <= after[c][l].value
    BY DEF Ordered
  <2>. DEFINE n == Len(boxes[c])
              new == Arriving(c, sent)
  <2>1. /\ boxes[c] \in Seq(Message) /\ new \in Seq(Message) /\ n \in Nat
        /\ after[c] = boxes[c] \o new /\ after[c] \in Seq(Message)
    BY <1>2
  <2>2. CASE l <= n
    <3>1. k \in 1 .. n /\ l \in 1 .. n
      BY <2>1, <2>2
    <3>2. after[c][k] = boxes[c][k] /\ after[c][l] = boxes[c][l]
      BY <2>1, <3>1, ConcatProperties
    <3>. QED BY <3>1, <3>2 DEF Ordered
  <2>3. CASE l > n
    <3>1. after[c][l] \in Range(new)
      <4>1. l - n \in 1 .. Len(new) /\ after[c][l] = new[l - n]
        BY <2>1, <2>3, ConcatProperties
      <4>. QED BY <2>1, <4>1, RangeOf
    <3>2. after[c][l] \in Range(sent) /\ after[c][l].group \in Joined[c]
      BY <1>2, <3>1
    <3>3. PICK g \in Hrefs(d) : Reaches(d, g, c, h) /\ after[c][l].value = vals[d][g]
      BY <1>1, <3>2
    <3>4. after[c][k] \in Range(after[c]) /\ after[c][k] \in Message
      <4>1. after[c][k] \in Range(after[c])
        <5>. DEFINE box == after[c]
        <5>1. box \in Seq(Message) /\ k \in 1 .. Len(box)
          BY <2>1
        <5>. HIDE DEF box
        <5>2. box[k] \in Range(box)
          BY <5>1, RangeOf
        <5>. QED BY <5>2 DEF box
      <4>2. after[c][k] \in Message
        BY <2>1
      <4>. QED BY <4>1, <4>2
    <3>. DEFINE m == after[c][k]
    <3>5. PICK g1 \in Hrefs(m.from) : Reaches(m.from, g1, c, h) /\ m.value <= vals[m.from][g1]
      BY <1>3, <3>4 DEF Explained
    <3>6. m.from \in Device
      BY <3>4 DEF Message
    <3>7. m.from = d /\ g1 = g
      BY <3>3, <3>5, <3>6 DEF OneLeader
    <3>. QED BY <3>3, <3>5, <3>7
  <2>. QED BY <2>1, <2>2, <2>3
<1>. QED BY <1>3, <1>4

(* A device that has handled a message has its value in the datapoints it  *)
(* came for, and announces no other value.                                 *)
LEMMA ValuesAfter ==
  ASSUME NEW d \in Device, NEW m \in Message, NEW s,
         AfterRows(d, m, s, Len(Objects[d])), NEW h \in Hrefs(d)
  PROVE  s.values[h] = IF Comes(d, h, m) THEN m.value ELSE value[d][h]
<1>1. Objects[d] \in Seq(ObjectRow)
  BY TablesAssumption
<1>2. DOMAIN Objects[d] = 1 .. Len(Objects[d])
  BY <1>1
<1>3. \A i \in 1 .. Len(Objects[d]) :
        Handles(d, m, i) <=> ~Ignores(d, m.from) /\ m.ga \in Range(Objects[d][i].ga)
  BY <1>2 DEF Handles, RowsWith
<1>4. \A row : row \in Range(Objects[d]) <=> \E i \in 1 .. Len(Objects[d]) : row = Objects[d][i]
  BY <1>1, RangeOf
<1>5. (\E i \in 1 .. Len(Objects[d]) : /\ Handles(d, m, i) /\ Objects[d][i].href = h
                                       /\ Overwrites(Objects[d][i], m.st))
        <=> Comes(d, h, m)
  BY <1>3, <1>4 DEF Comes
<1>. QED BY <1>5 DEF AfterRows

LEMMA SaysAfter ==
  ASSUME NEW d \in Device, TypeOK, NEW m \in Message, NEW s,
         AfterRows(d, m, s, Len(Objects[d])), NEW x \in Range(s.sent)
  PROVE  Announces(d, s.values, x)
<1>1. PICK i \in 1 .. Len(Objects[d]) : Handles(d, m, i) /\ x \in Range(Says(d, m, i))
  BY DEF AfterRows
<1>. DEFINE row == Objects[d][i]
<1>2. i \in DOMAIN Objects[d]
  BY TablesAssumption
<1>3. row \in Range(Objects[d]) /\ row.href \in Hrefs(d)
  BY <1>2, PositionIs, RowIs
<1>4. s.values[row.href] = IF Comes(d, row.href, m) THEN m.value ELSE value[d][row.href]
  BY <1>3, ValuesAfter
<1>5. ~Ignores(d, m.from) /\ m.ga \in Range(row.ga)
  BY <1>1 DEF Handles, RowsWith
<1>6. m.value \in 0 .. MaxValue /\ value[d][row.href] \in 0 .. MaxValue
  BY <1>3 DEF Message, TypeOK
<1>7. CASE Overwrites(row, m.st)
  <2>1. Says(d, m, i) = PassOn(d, row, m.value)
    BY <1>7 DEF Says
  <2>2. "t" \in row.flags /\ d \in Running /\ SentBy(d, row.href, "w", TRUE, m.value, x)
    <3>. HIDE DEF row
    <3>. QED BY <1>1, <1>6, <2>1, PassOnIs
  <2>3. Comes(d, row.href, m)
    BY <1>3, <1>5, <1>7 DEF Comes
  <2>4. s.values[row.href] = m.value
    BY <1>4, <2>3
  <2>. HIDE DEF row
  <2>. QED BY <2>2, <2>4 DEF SentBy, SMessage, Sends, Announces
<1>8. CASE ~Overwrites(row, m.st)
  <2>1. Answers(row, m.st)
    <3>1. \A y : y \notin Range(<<>>)
      BY DEF Range
    <3>. QED BY <1>1, <1>8, <3>1 DEF Says
  <2>2. Says(d, m, i) = Answer(d, row, m, value[d][row.href])
    BY <1>8, <2>1 DEF Says
  <2>3. d \in Running /\ SentBy(d, row.href, "a", FALSE, value[d][row.href], x)
    <3>. HIDE DEF row
    <3>. QED BY <1>1, <1>6, <2>2, AnswerIs
  <2>4. ~Comes(d, row.href, m)
    BY <2>1, OverwritesBy DEF Comes, Answers
  <2>5. s.values[row.href] = value[d][row.href] /\ "r" \in row.flags
    BY <1>4, <2>1, <2>4 DEF Answers
  <2>. HIDE DEF row
  <2>. QED BY <1>3, <2>3, <2>5 DEF SentBy, SMessage, Announces
<1>. QED BY <1>7, <1>8

LEMMA IsValuesNow ==
  ASSUME TypeOK
  PROVE  IsValues(value) /\ \A d \in Device : \A h \in Hrefs(d) : value[d][h] \in 0 .. MaxValue
BY GroupAssumption DEF TypeOK, IsValues

LEMMA ReceiveValues ==
  ASSUME NEW d \in Device, TypeOK, Receive(d), NEW c \in Device, NEW h \in Hrefs(c)
  PROVE  value'[c][h] = IF c = d /\ Comes(d, h, Head(inbox[d]))
                        THEN Head(inbox[d]).value ELSE value[c][h]
<1>. DEFINE m == Head(inbox[d])
<1>1. PICK s : AfterRows(d, m, s, Len(Objects[d])) /\ value' = [value EXCEPT ![d] = s.values]
  BY ReceiveIs
<1>2. m \in Message
  BY HeadIs DEF Receive
<1>. HIDE DEF m
<1>3. c = d => s.values[h] = IF Comes(d, h, m) THEN m.value ELSE value[d][h]
  BY <1>1, <1>2, ValuesAfter
<1>4. value'[c] = IF c = d THEN s.values ELSE value[c]
  BY <1>1 DEF TypeOK
<1>5. value'[c][h] = IF c = d /\ Comes(d, h, m) THEN m.value ELSE value[c][h]
  BY <1>3, <1>4
<1>. QED BY <1>5 DEF m

(* A message that comes does not take a datapoint back, nor past the one   *)
(* that sent it.                                                           *)
LEMMA HeadInOrder ==
  ASSUME NEW d \in Device, TypeOK, OrderInv, inbox[d] # <<>>,
         NEW h \in Hrefs(d), Comes(d, h, Head(inbox[d]))
  PROVE  /\ Head(inbox[d]) \in Message
         /\ value[d][h] <= Head(inbox[d]).value
         /\ \E e \in Device : \E g \in Hrefs(e) :
              Reaches(e, g, d, h) /\ Head(inbox[d]).value <= value[e][g]
<1>. DEFINE m == Head(inbox[d])
<1>1. m \in Message /\ m \in Range(inbox[d])
  BY HeadIs
<1>2. m.from \in Device
  BY <1>1 DEF Message
<1>. HIDE DEF m
<1>3. Comes(d, h, m)
  BY DEF m
<1>4. /\ value[d][h] <= m.value
      /\ \E g \in Hrefs(m.from) : Reaches(m.from, g, d, h) /\ m.value <= value[m.from][g]
  BY <1>1, <1>3 DEF OrderInv, Explained
<1>. QED BY <1>1, <1>2, <1>4 DEF m

LEMMA ReceiveGrows ==
  ASSUME NEW d \in Device, TypeOK, OrderInv, Receive(d), NEW c \in Device, NEW h \in Hrefs(c)
  PROVE  value[c][h] <= value'[c][h] /\ value'[c][h] \in Int
<1>. DEFINE m == Head(inbox[d])
<1>1. value'[c][h] = IF c = d /\ Comes(d, h, m) THEN m.value ELSE value[c][h]
  BY ReceiveValues
<1>2. m \in Message /\ m.value \in Int /\ inbox[d] # <<>>
  BY HeadIs DEF Receive, Message
<1>3. c = d /\ Comes(d, h, m) => value[c][h] <= m.value
  BY <1>2, HeadInOrder
<1>4. value[c][h] \in Int
  BY IsValuesNow DEF IsValues
<1>. HIDE DEF m
<1>. QED BY <1>1, <1>2, <1>3, <1>4

Popped(d) == [inbox EXCEPT ![d] = Tail(@)]

(* What is left of the messages when the first one to d is taken.          *)
LEMMA PoppedIs ==
  ASSUME NEW d \in Device, TypeOK, inbox[d] # <<>>
  PROVE  /\ Popped(d) \in [Device -> Seq(Message)]
         /\ \A c \in Device : c # d => Popped(d)[c] = inbox[c]
         /\ \A c \in Device : \A x \in Range(Popped(d)[c]) : x \in Range(inbox[c]) /\ x \in Message
         /\ \A x \in Range(Popped(d)[d]) : \E i \in 2 .. Len(inbox[d]) : x = inbox[d][i]
         /\ \A x \in Range(inbox[d]) : x = Head(inbox[d]) \/ x \in Range(Popped(d)[d])
         /\ Ordered(inbox) => Ordered(Popped(d))
<1>. DEFINE n == Len(inbox[d])
            boxes == Popped(d)
            rest == Tail(inbox[d])
<1>1. /\ Head(inbox[d]) = inbox[d][1] /\ n \in Nat \ {0}
      /\ rest \in Seq(Message) /\ Len(rest) = n - 1
      /\ \A i \in 1 .. n - 1 : rest[i] = inbox[d][i + 1]
      /\ boxes \in [Device -> Seq(Message)]
  BY HeadIs DEF Popped
<1>2. \A c \in Device : boxes[c] = IF c = d THEN rest ELSE inbox[c]
  BY DEF TypeOK, Popped
<1>. HIDE DEF n, rest, boxes
<1>3. \A c \in Device : inbox[c] \in Seq(Message)
  BY DEF TypeOK
<1>4. \A x \in Range(rest) :
        x \in Message /\ x \in Range(inbox[d]) /\ \E i \in 2 .. n : x = inbox[d][i]
  <2>. SUFFICES ASSUME NEW x \in Range(rest)
                PROVE x \in Message /\ x \in Range(inbox[d]) /\ \E i \in 2 .. n : x = inbox[d][i]
    OBVIOUS
  <2>1. PICK i \in 1 .. n - 1 : x = rest[i]
    BY <1>1, RangeOf
  <2>2. i + 1 \in 2 .. n /\ x = inbox[d][i + 1] /\ i + 1 \in 1 .. n
    BY <1>1, <2>1
  <2>3. x \in Range(inbox[d])
    BY <1>3, <2>2, RangeOf DEF n
  <2>4. x \in Message
    BY <1>1, <2>1
  <2>. QED BY <2>2, <2>3, <2>4
<1>5. \A x \in Range(inbox[d]) : x = Head(inbox[d]) \/ x \in Range(rest)
  <2>. SUFFICES ASSUME NEW x \in Range(inbox[d]), x # Head(inbox[d]) PROVE x \in Range(rest)
    OBVIOUS
  <2>1. PICK i \in 1 .. n : x = inbox[d][i]
    BY <1>3, RangeOf DEF n
  <2>2. i - 1 \in 1 .. n - 1 /\ (i - 1) + 1 = i
    BY <1>1, <2>1
  <2>3. rest[i - 1] = x
    BY <1>1, <2>1, <2>2
  <2>. QED BY <1>1, <2>2, <2>3, RangeOf
<1>6. ASSUME NEW c \in Device, NEW x \in Range(boxes[c]) PROVE x \in Range(inbox[c]) /\ x \in Message
  <2>1. CASE c = d
    BY <1>2, <1>4, <2>1
  <2>2. CASE c # d
    <3>1. x \in Range(inbox[c])
      BY <1>2, <2>2
    <3>. QED BY <1>3, <3>1, RangeOf
  <2>. QED BY <2>1, <2>2
<1>7. ASSUME Ordered(inbox) PROVE Ordered(boxes)
  <2>. SUFFICES ASSUME NEW c \in Device, NEW h \in Hrefs(c),
                       NEW k \in 1 .. Len(boxes[c]), NEW l \in 1 .. Len(boxes[c]), k < l,
                       Comes(c, h, boxes[c][k]), Comes(c, h, boxes[c][l])
                PROVE  boxes[c][k].value <= boxes[c][l].value
    BY DEF Ordered
  <2>1. CASE c = d
    <3>1. boxes[c] = rest /\ k \in 1 .. n - 1 /\ l \in 1 .. n - 1
      BY <1>1, <1>2, <2>1
    <3>2. /\ boxes[c][k] = inbox[d][k + 1] /\ boxes[c][l] = inbox[d][l + 1]
          /\ k + 1 \in 1 .. n /\ l + 1 \in 1 .. n /\ k + 1 < l + 1
      BY <1>1, <3>1
    <3>. QED BY <1>7, <2>1, <3>2 DEF Ordered, n
  <2>2. CASE c # d
    <3>1. boxes[c] = inbox[c]
      BY <1>2, <2>2
    <3>. QED BY <1>7, <3>1 DEF Ordered
  <2>. QED BY <2>1, <2>2
<1>. QED BY <1>1, <1>2, <1>4, <1>5, <1>6, <1>7 DEF n, boxes

(* What is left to a device that takes a message is in the order of the    *)
(* new values.                                                             *)
LEMMA PoppedInOrder ==
  ASSUME NEW d \in Device, TypeOK, OrderInv, OneLeader, Receive(d)
  PROVE  Explained(value', Popped(d)) /\ Ordered(Popped(d)) /\ Behind(value') /\ Bounded(value', written)
<1>. DEFINE m == Head(inbox[d])
            n == Len(inbox[d])
            boxes == Popped(d)
<1>1. /\ m \in Message /\ m = inbox[d][1] /\ n \in Nat \ {0} /\ inbox[d] # <<>>
  BY HeadIs DEF Receive
<1>2. /\ \A c \in Device : \A x \in Range(boxes[c]) : x \in Range(inbox[c]) /\ x \in Message
      /\ \A x \in Range(boxes[d]) : \E i \in 2 .. n : x = inbox[d][i]
      /\ Ordered(boxes)
  <2>1. Ordered(inbox)
    BY DEF OrderInv
  <2>. QED BY <1>1, <2>1, PoppedIs
<1>3. \A c \in Device : \A h \in Hrefs(c) :
        value'[c][h] = IF c = d /\ Comes(d, h, m) THEN m.value ELSE value[c][h]
  BY ReceiveValues
<1>4. \A c \in Device : \A h \in Hrefs(c) : value[c][h] <= value'[c][h] /\ value'[c][h] \in Int
  BY ReceiveGrows
<1>5. \A c \in Device : \A h \in Hrefs(c) : value[c][h] \in Int
  BY IsValuesNow DEF IsValues
<1>6. m.value \in Int
  BY <1>1 DEF Message
<1>. HIDE DEF m, n, boxes
<1>7. Explained(value', boxes)
  <2>. SUFFICES ASSUME NEW c \in Device, NEW h \in Hrefs(c), NEW x \in Range(boxes[c]), Comes(c, h, x)
                PROVE  /\ value'[c][h] <= x.value
                       /\ \E g \in Hrefs(x.from) : Reaches(x.from, g, c, h) /\ x.value <= value'[x.from][g]
    BY DEF Explained
  <2>1. x \in Range(inbox[c]) /\ x \in Message
    BY <1>2
  <2>2. /\ value[c][h] <= x.value
        /\ \E g \in Hrefs(x.from) : Reaches(x.from, g, c, h) /\ x.value <= value[x.from][g]
    BY <2>1 DEF OrderInv, Explained
  <2>3. x.from \in Device /\ x.value \in Int
    BY <2>1 DEF Message
  <2>4. \E g \in Hrefs(x.from) : Reaches(x.from, g, c, h) /\ x.value <= value'[x.from][g]
    BY <1>4, <1>5, <2>2, <2>3
  <2>5. value'[c][h] <= x.value
    <3>1. CASE c = d /\ Comes(d, h, m)
      <4>1. PICK i \in 2 .. n : x = inbox[d][i]
        BY <1>2, <3>1
      <4>2. 1 \in 1 .. n /\ i \in 1 .. n /\ 1 < i
        BY <1>1, <4>1
      <4>3. inbox[d][1].value <= inbox[d][i].value
        BY <1>1, <3>1, <4>1, <4>2 DEF OrderInv, Ordered, n
      <4>. QED BY <1>1, <1>3, <3>1, <4>1, <4>3
    <3>2. CASE ~(c = d /\ Comes(d, h, m))
      BY <1>3, <2>2, <3>2
    <3>. QED BY <3>1, <3>2
  <2>. QED BY <2>4, <2>5
<1>8. ASSUME NEW h \in Hrefs(d), Comes(d, h, m)
       PROVE \E e \in Device : \E g \in Hrefs(e) : Reaches(e, g, d, h) /\ m.value <= value[e][g]
  BY <1>1, <1>8, HeadInOrder DEF m
<1>9. Behind(value')
  <2>. SUFFICES ASSUME NEW c \in Device, NEW e \in Device, NEW h \in Hrefs(c), NEW g \in Hrefs(e),
                       Reaches(e, g, c, h)
                PROVE  value'[c][h] <= value'[e][g]
    BY DEF Behind
  <2>1. value[c][h] <= value[e][g]
    BY DEF OrderInv, Behind
  <2>2. CASE c = d /\ Comes(d, h, m)
    <3>1. PICK f \in Device : \E k \in Hrefs(f) : Reaches(f, k, d, h) /\ m.value <= value[f][k]
      BY <1>8, <2>2
    <3>2. PICK k \in Hrefs(f) : Reaches(f, k, d, h) /\ m.value <= value[f][k]
      BY <3>1
    <3>3. f = e /\ k = g
      BY <2>2, <3>2 DEF OneLeader
    <3>4. m.value <= value[e][g] /\ value'[c][h] = m.value
      BY <1>3, <2>2, <3>2, <3>3
    <3>. QED BY <1>4, <1>5, <1>6, <3>4
  <2>3. CASE ~(c = d /\ Comes(d, h, m))
    <3>1. value'[c][h] = value[c][h]
      BY <1>3, <2>3
    <3>. QED BY <1>4, <1>5, <2>1, <3>1
  <2>. QED BY <2>2, <2>3
<1>10. Bounded(value', written)
  <2>. SUFFICES ASSUME NEW c \in Device, NEW h \in Hrefs(c) PROVE value'[c][h] <= written
    BY DEF Bounded
  <2>1. written \in Int /\ \A f \in Device : \A k \in Hrefs(f) : value[f][k] <= written
    BY DEF OrderInv, Bounded, TypeOK
  <2>2. CASE c = d /\ Comes(d, h, m)
    BY <1>3, <1>5, <1>6, <1>8, <2>1, <2>2
  <2>3. CASE ~(c = d /\ Comes(d, h, m))
    BY <1>3, <2>1, <2>3
  <2>. QED BY <2>2, <2>3
<1>. QED BY <1>2, <1>7, <1>9, <1>10 DEF boxes

LEMMA ReceiveInOrder ==
  ASSUME NEW d \in Device, TypeOK, OrderInv, OneLeader, Receive(d)
  PROVE  OrderInv'
<1>1. PICK s : /\ AfterRows(d, Head(inbox[d]), s, Len(Objects[d]))
               /\ value' = [value EXCEPT ![d] = s.values]
               /\ Transmit(Popped(d), s.sent)
  BY ReceiveIs DEF Popped
<1>2. inbox[d] # <<>> /\ written' = written
  BY <1>1 DEF Receive
<1>3. /\ Popped(d) \in [Device -> Seq(Message)]
      /\ Head(inbox[d]) \in Message
  BY <1>2, HeadIs, PoppedIs
<1>4. s.sent \in Seq(Message)
  BY <1>1 DEF AfterRows, Result
<1>5. /\ inbox' \in [Device -> Seq(Message)]
      /\ \A c \in Device : inbox'[c] = Popped(d)[c] \o Arriving(c, s.sent)
  BY <1>1, <1>3, <1>4, TransmitIs
<1>6. value'[d] = s.values
  BY <1>1 DEF TypeOK
<1>7. \A m \in Range(s.sent) : m.st = "r" \/ Announces(d, value'[d], m)
  BY <1>1, <1>3, <1>6, SaysAfter
<1>8. Explained(value', Popped(d)) /\ Ordered(Popped(d)) /\ Behind(value') /\ Bounded(value', written)
  BY PoppedInOrder
<1>9. IsValues(value')
  BY ReceiveGrows DEF IsValues
<1>10. Explained(value', inbox') /\ Ordered(inbox')
  BY <1>3, <1>4, <1>5, <1>7, <1>8, <1>9, Delivered
<1>. QED BY <1>2, <1>8, <1>10 DEF OrderInv

LEMMA LoseInOrder ==
  ASSUME NEW d \in Device, TypeOK, OrderInv, Lose(d)
  PROVE  OrderInv'
<1>1. inbox[d] # <<>> /\ inbox' = Popped(d) /\ UNCHANGED <<value, written>>
  BY DEF Lose, Popped
<1>2. Ordered(inbox)
  BY DEF OrderInv
<1>3. /\ Ordered(Popped(d))
      /\ \A c \in Device : \A x \in Range(Popped(d)[c]) : x \in Range(inbox[c])
  BY <1>1, <1>2, PoppedIs
<1>4. Explained(value, Popped(d))
  BY <1>3 DEF OrderInv, Explained
<1>. QED BY <1>1, <1>3, <1>4 DEF OrderInv

(* The application changes a datapoint that no other device leads.         *)
LEMMA WriteInOrder ==
  ASSUME NEW d \in Device, NEW href \in Hrefs(d), TypeOK, TypeOK', OrderInv,
         OneLeader, SourcesLead, Write(d, href)
  PROVE  OrderInv'
<1>. DEFINE new == written + 1
            sent == SModes(d, href, "w", TRUE, new)
<1>1. /\ <<d, href>> \in Source /\ new \in 0 .. MaxValue /\ new \in Int /\ written < new
      /\ written \in Int
  BY GroupAssumption DEF Write, TypeOK
<1>2. written' = new /\ Transmit(inbox, sent) /\ value' = [value EXCEPT ![d][href] = new]
  BY DEF Write
<1>3. /\ sent \in Seq(Message)
      /\ \A m : m \in Range(sent) <=> d \in Running /\ SentBy(d, href, "w", TRUE, new, m)
  <2>1. "w" \in {"w", "a", "r"}
    OBVIOUS
  <2>. QED BY <1>1, <2>1, SModesIs
<1>. HIDE DEF sent, new
<1>4. \A c \in Device : \A h \in Hrefs(c) :
        value'[c][h] = IF c = d /\ h = href THEN new ELSE value[c][h]
  BY <1>2 DEF TypeOK
<1>5. \A c \in Device : \A h \in Hrefs(c) : value[c][h] \in Int /\ value[c][h] <= written
  BY IsValuesNow DEF IsValues, OrderInv, Bounded
<1>6. \A c \in Device : \A h \in Hrefs(c) :
        value[c][h] <= value'[c][h] /\ value'[c][h] \in Int /\ value'[c][h] <= new
  BY <1>1, <1>4, <1>5
<1>7. IsValues(value') /\ Bounded(value', written')
  BY <1>2, <1>6 DEF IsValues, Bounded
<1>8. \A e \in Device : \A g \in Hrefs(e) : ~Reaches(e, g, d, href)
  BY <1>1 DEF SourcesLead
<1>9. \A m \in Range(sent) : m.st = "r" \/ Announces(d, value'[d], m)
  <2>. SUFFICES ASSUME NEW m \in Range(sent) PROVE Announces(d, value'[d], m)
    OBVIOUS
  <2>1. d \in Running /\ SentBy(d, href, "w", TRUE, new, m)
    BY <1>3
  <2>2. value'[d][href] = new
    BY <1>4
  <2>. QED BY <2>1, <2>2 DEF SentBy, SMessage, Sends, Announces
<1>10. inbox \in [Device -> Seq(Message)]
  BY DEF TypeOK
<1>11. /\ inbox' \in [Device -> Seq(Message)]
       /\ \A c \in Device : inbox'[c] = inbox[c] \o Arriving(c, sent)
  BY <1>2, <1>3, <1>10, TransmitIs
<1>12. ASSUME NEW c \in Device, NEW h \in Hrefs(c), NEW m \in Range(inbox[c]), Comes(c, h, m)
       PROVE  /\ value'[c][h] <= m.value
              /\ \E g \in Hrefs(m.from) : Reaches(m.from, g, c, h) /\ m.value <= value'[m.from][g]
  <2>1. m \in Message
    BY <1>10, RangeOf
  <2>2. m.from \in Device /\ m.value \in Int
    BY <2>1 DEF Message
  <2>3. /\ value[c][h] <= m.value
        /\ \E g \in Hrefs(m.from) : Reaches(m.from, g, c, h) /\ m.value <= value[m.from][g]
    BY <1>12 DEF OrderInv, Explained
  <2>4. \E g \in Hrefs(m.from) : Reaches(m.from, g, c, h) /\ m.value <= value'[m.from][g]
    BY <1>5, <1>6, <2>2, <2>3
  <2>5. ~(c = d /\ h = href)
    BY <1>8, <2>2, <2>3
  <2>. QED BY <1>4, <2>3, <2>4, <2>5
<1>13. Explained(value', inbox)
  BY <1>12 DEF Explained
<1>14. Behind(value')
  <2>. SUFFICES ASSUME NEW c \in Device, NEW e \in Device, NEW h \in Hrefs(c), NEW g \in Hrefs(e),
                       Reaches(e, g, c, h)
                PROVE  value'[c][h] <= value'[e][g]
    BY DEF Behind
  <2>1. value[c][h] <= value[e][g] /\ ~(c = d /\ h = href)
    BY <1>8 DEF OrderInv, Behind
  <2>2. value'[c][h] = value[c][h]
    BY <1>4, <2>1
  <2>. QED BY <1>5, <1>6, <2>1, <2>2
<1>15. Ordered(inbox)
  BY DEF OrderInv
<1>16. Explained(value', inbox') /\ Ordered(inbox')
  BY <1>3, <1>7, <1>9, <1>10, <1>11, <1>13, <1>14, <1>15, Delivered
<1>. QED BY <1>7, <1>14, <1>16 DEF OrderInv

(* A device that restarts leads none, and has nothing on its way.          *)
LEMMA RestartInOrder ==
  ASSUME NEW d \in Device, TypeOK, TypeOK', OrderInv, OneLeader, LeadersStay, Restart(d)
  PROVE  OrderInv'
<1>. DEFINE boxes == [inbox EXCEPT ![d] = <<>>]
            sent == InitReads(d)
<1>1. d \in Restarting /\ written' = written /\ Transmit(boxes, sent)
  BY DEF Restart
<1>2. \A c \in Device : \A h \in Hrefs(c) : value'[c][h] = IF c = d THEN 0 ELSE value[c][h]
  BY DEF Restart, TypeOK
<1>3. /\ boxes \in [Device -> Seq(Message)]
      /\ \A c \in Device : boxes[c] = IF c = d THEN <<>> ELSE inbox[c]
  BY DEF TypeOK
<1>4. /\ sent \in Seq(Message)
      /\ \A m \in Range(sent) : m.st = "r"
  <2>1. ReadsOf(d, sent, Len(Objects[d]))
    BY InitReadsIs
  <2>. HIDE DEF sent
  <2>. QED BY <2>1 DEF ReadsOf, FirstRead, SMessage
<1>. HIDE DEF boxes, sent
<1>5. /\ inbox' \in [Device -> Seq(Message)]
      /\ \A c \in Device : inbox'[c] = boxes[c] \o Arriving(c, sent)
  BY <1>1, <1>3, <1>4, TransmitIs
<1>6. \A c \in Device : \A h \in Hrefs(c) : value[c][h] \in Nat /\ value[c][h] <= written
  BY IsValuesNow, GroupAssumption DEF OrderInv, Bounded
<1>7. \A e, c \in Device : \A g \in Hrefs(e), h \in Hrefs(c) : Reaches(e, g, c, h) => e # d
  BY <1>1 DEF LeadersStay
<1>8. IsValues(value')
  BY <1>2, <1>6 DEF IsValues
<1>9. Bounded(value', written')
  <2>1. written \in Nat
    BY GroupAssumption DEF TypeOK
  <2>. QED BY <1>1, <1>2, <1>6, <2>1 DEF Bounded
<1>10. Behind(value')
  <2>. SUFFICES ASSUME NEW c \in Device, NEW e \in Device, NEW h \in Hrefs(c), NEW g \in Hrefs(e),
                       Reaches(e, g, c, h)
                PROVE  value'[c][h] <= value'[e][g]
    BY DEF Behind
  <2>1. value[c][h] <= value[e][g] /\ value'[e][g] = value[e][g]
    BY <1>2, <1>7 DEF OrderInv, Behind
  <2>. QED BY <1>2, <1>6, <2>1
<1>11. \A m : m \notin Range(<<>>)
  BY DEF Range
<1>12. ASSUME NEW c \in Device, NEW h \in Hrefs(c), NEW m \in Range(boxes[c]), Comes(c, h, m)
       PROVE  /\ value'[c][h] <= m.value
              /\ \E g \in Hrefs(m.from) : Reaches(m.from, g, c, h) /\ m.value <= value'[m.from][g]
  <2>1. c # d /\ m \in Range(inbox[c])
    BY <1>3, <1>11
  <2>2. m \in Message
    BY <1>3, RangeOf
  <2>3. m.from \in Device
    BY <2>2 DEF Message
  <2>4. /\ value[c][h] <= m.value
        /\ \E g \in Hrefs(m.from) : Reaches(m.from, g, c, h) /\ m.value <= value[m.from][g]
    BY <1>12, <2>1 DEF OrderInv, Explained
  <2>. QED BY <1>2, <1>7, <2>1, <2>3, <2>4
<1>13. Explained(value', boxes)
  BY <1>12 DEF Explained
<1>14. Ordered(boxes)
  <2>1. \A c \in Device : c # d => boxes[c] = inbox[c]
    BY <1>3
  <2>2. boxes[d] = <<>> /\ Len(<<>>) = 0
    BY <1>3
  <2>3. \A k \in 1 .. 0 : FALSE
    OBVIOUS
  <2>. QED BY <2>1, <2>2, <2>3 DEF OrderInv, Ordered
<1>15. Explained(value', inbox') /\ Ordered(inbox')
  BY <1>3, <1>4, <1>5, <1>8, <1>10, <1>13, <1>14, Delivered
<1>. QED BY <1>9, <1>10, <1>15 DEF OrderInv

(* The tables give a datapoint one leader, give none to what the           *)
(* application changes, and let no device lead that forgets.               *)
LEMMA OrderStep ==
  ASSUME OneLeader, SourcesLead, LeadersStay
  PROVE  TypeOK /\ TypeOK' /\ OrderInv /\ [Next]_vars => OrderInv'
<1>. SUFFICES ASSUME TypeOK, TypeOK', OrderInv, [Next]_vars PROVE OrderInv'
  OBVIOUS
<1>1. CASE UNCHANGED vars
  BY <1>1 DEF vars, OrderInv
<1>2. CASE Next
  BY <1>2, ReceiveInOrder, LoseInOrder, RestartInOrder, WriteInOrder DEF Next
<1>. QED BY <1>1, <1>2

LEMMA OrderInit == Init => OrderInv
<1>. SUFFICES ASSUME Init PROVE OrderInv
  OBVIOUS
<1>1. \A d \in Device : \A h \in Hrefs(d) : value[d][h] = 0
  BY DEF Init
<1>2. \A d \in Device : inbox[d] = <<>> /\ Len(inbox[d]) = 0
  BY DEF Init
<1>3. (\A m : m \notin Range(<<>>)) /\ \A k \in 1 .. 0 : FALSE
  BY DEF Range
<1>4. Explained(value, inbox)
  BY <1>2, <1>3 DEF Explained
<1>5. Ordered(inbox)
  BY <1>2, <1>3 DEF Ordered
<1>6. Behind(value) /\ Bounded(value, written)
  BY <1>1 DEF Behind, Bounded, Init
<1>. QED BY <1>4, <1>5, <1>6 DEF OrderInv

LEMMA InOrder ==
  ASSUME OneLeader, SourcesLead, LeadersStay
  PROVE  Spec => []OrderInv
<1>1. TypeOK /\ TypeOK' /\ OrderInv /\ [Next]_vars => OrderInv'
  BY OrderStep
<1>. QED BY <1>1, OrderInit, TypeCorrect, PTL DEF Spec

(* What a device shows never goes back to an older value, except by a      *)
(* restart: with tables of any number of devices and datapoints in which   *)
(* a datapoint is overwritten by one other at most, one the application    *)
(* changes by none, and none by a device that restarts.                    *)
THEOREM NeverGoesBack ==
  ASSUME OneLeader, SourcesLead, LeadersStay
  PROVE  Spec => NeverBackwards
<1>1. TypeOK /\ OrderInv /\ [Next]_vars =>
        [\A d \in Device : restarts' = restarts =>
           \A href \in Hrefs(d) : value'[d][href] >= value[d][href]]_vars
  <2>. SUFFICES ASSUME TypeOK, OrderInv, Next, NEW c \in Device, restarts' = restarts,
                       NEW h \in Hrefs(c)
                PROVE  value'[c][h] >= value[c][h]
    BY DEF vars
  <2>1. value[c][h] \in Int /\ value[c][h] <= written /\ written \in Int
    BY IsValuesNow DEF IsValues, OrderInv, Bounded, TypeOK
  <2>2. ASSUME NEW d \in Device, Receive(d) PROVE value'[c][h] >= value[c][h]
    BY <2>1, <2>2, ReceiveGrows
  <2>3. ASSUME NEW d \in Device, Lose(d) PROVE value'[c][h] >= value[c][h]
    BY <2>1, <2>3 DEF Lose
  <2>4. ASSUME NEW d \in Device, Restart(d) PROVE FALSE
    BY <2>4 DEF Restart, TypeOK
  <2>5. ASSUME NEW d \in Device, NEW href \in Hrefs(d), Write(d, href)
        PROVE  value'[c][h] >= value[c][h]
    <3>1. value' = [value EXCEPT ![d][href] = written + 1]
      BY <2>5 DEF Write
    <3>2. value'[c][h] = written + 1 \/ value'[c][h] = value[c][h]
      BY <3>1 DEF TypeOK
    <3>. QED BY <2>1, <3>2
  <2>. QED BY <2>2, <2>3, <2>4, <2>5 DEF Next
<1>. QED BY <1>1, InOrder, TypeCorrect, PTL DEF Spec, NeverBackwards

-----------------------------------------------------------------------------
(* Nothing lost: whoever follows a datapoint is told its value.            *)

(* A read that e will answer with the value of its datapoint g.            *)
Asks(e, g, m) ==
  /\ m.st = "r" /\ ~Ignores(e, m.from)
  /\ \E row \in Range(Objects[e]) :
       row.href = g /\ m.ga \in Range(row.ga) /\ Answers(row, m.st)

(* The answer reaches the datapoint h of d.                                *)
Takes(d, h, ga) ==
  \E own \in Range(Objects[d]) : own.href = h /\ "u" \in own.flags /\ ga \in Range(own.ga)

(* Nothing lost: a datapoint that follows another has its value, or will   *)
(* be told it, or has asked for it.                                        *)
Informed(vals, boxes, d, h, e, g, ga) ==
  \/ vals[d][h] = vals[e][g]
  \/ \E m \in Range(boxes[d]) : Comes(d, h, m) /\ m.value = vals[e][g]
  \/ Takes(d, h, ga) /\ \E m \in Range(boxes[e]) : Asks(e, g, m)

Current(vals, boxes) ==
  \A d, e \in Device : \A row \in Range(Objects[d]), other \in Range(Objects[e]) :
    Follows(d, row, e, other) =>
      Informed(vals, boxes, d, row.href, e, other.href, Head(other.ga))

CurrentInv == lost = 0 => Current(value, inbox)

(* What follows a datapoint is reached by it.                              *)
LEMMA FollowerReached ==
  ASSUME NEW d \in Device, NEW e \in Device, NEW row \in Range(Objects[d]),
         NEW other \in Range(Objects[e]), Follows(d, row, e, other)
  PROVE  /\ Reaches(e, other.href, d, row.href)
         /\ row.href \in Hrefs(d) /\ other.href \in Hrefs(e) /\ d # e
<1>1. row.href \in Hrefs(d) /\ other.href \in Hrefs(e)
  BY RowIs
<1>2. /\ "t" \in other.flags /\ other.ga # <<>> /\ Head(other.ga) \in Range(row.ga)
      /\ "w" \in row.flags /\ d \in Running /\ e \in Running /\ d # e
      /\ GroupOf(RecipientRows[e], Head(other.ga)) \in Joined[d]
  BY DEF Follows
<1>3. ~Ignores(d, e)
  BY <1>2 DEF Ignores
<1>4. Overwrites(row, "w")
  BY <1>2 DEF Overwrites
<1>5. Reaches(e, other.href, d, row.href)
  BY <1>2, <1>3, <1>4 DEF Reaches
<1>. QED BY <1>1, <1>2, <1>5

(* The message by which e announces the datapoint of other.                *)
News(e, other, st, val) ==
  SMessage(e, st, Head(other.ga), GroupOf(RecipientRows[e], Head(other.ga)), val)

LEMMA NewsComes ==
  ASSUME NEW d \in Device, NEW e \in Device, NEW row \in Range(Objects[d]),
         NEW other \in Range(Objects[e]), Follows(d, row, e, other), NEW val
  PROVE  /\ News(e, other, "w", val).group \in Joined[d] /\ News(e, other, "w", val).value = val
         /\ News(e, other, "a", val).group \in Joined[d] /\ News(e, other, "a", val).value = val
         /\ Comes(d, row.href, News(e, other, "w", val))
         /\ Takes(d, row.href, Head(other.ga)) => Comes(d, row.href, News(e, other, "a", val))
<1>1. /\ Head(other.ga) \in Range(row.ga)
      /\ "w" \in row.flags /\ d \in Running /\ d # e
      /\ GroupOf(RecipientRows[e], Head(other.ga)) \in Joined[d]
  BY DEF Follows
<1>2. ~Ignores(d, e)
  BY <1>1 DEF Ignores
<1>3. Comes(d, row.href, News(e, other, "w", val))
  BY <1>1, <1>2 DEF Comes, Overwrites, News, SMessage
<1>4. ASSUME Takes(d, row.href, Head(other.ga))
      PROVE  Comes(d, row.href, News(e, other, "a", val))
  <2>1. PICK own \in Range(Objects[d]) :
          own.href = row.href /\ "u" \in own.flags /\ Head(other.ga) \in Range(own.ga)
    BY <1>4 DEF Takes
  <2>. QED BY <1>2, <2>1 DEF Comes, Overwrites, News, SMessage
<1>. QED BY <1>1, <1>3, <1>4 DEF News, SMessage

Posted(boxes, sent, after) == \A c \in Device : after[c] = boxes[c] \o Arriving(c, sent)

Told(d, e, row, other, boxes, sent, after, val) ==
  /\ \A m \in Range(boxes[d]) : m \in Range(after[d])
  /\ \A m \in Range(boxes[e]) : m \in Range(after[e])
  /\ \A m \in Range(sent) : m.group \in Joined[e] => m \in Range(after[e])
  /\ News(e, other, "w", val) \in Range(sent) =>
       \E m \in Range(after[d]) : Comes(d, row.href, m) /\ m.value = val
  /\ News(e, other, "a", val) \in Range(sent) /\ Takes(d, row.href, Head(other.ga)) =>
       \E m \in Range(after[d]) : Comes(d, row.href, m) /\ m.value = val

(* What is sent arrives at whoever follows.                                *)
LEMMA NewsArrives ==
  ASSUME NEW d \in Device, NEW e \in Device, NEW row \in Range(Objects[d]),
         NEW other \in Range(Objects[e]), Follows(d, row, e, other), NEW val,
         NEW boxes \in [Device -> Seq(Message)], NEW after, NEW sent \in Seq(Message),
         Posted(boxes, sent, after)
  PROVE  Told(d, e, row, other, boxes, sent, after, val)
<1>1. \A c \in Device : \A m : m \in Range(after[c]) <=>
          m \in Range(boxes[c]) \/ (m \in Range(sent) /\ m.group \in Joined[c])
  <2>. SUFFICES ASSUME NEW c \in Device
                PROVE \A m : m \in Range(after[c]) <=>
                  m \in Range(boxes[c]) \/ (m \in Range(sent) /\ m.group \in Joined[c])
    OBVIOUS
  <2>1. /\ Arriving(c, sent) \in Seq(Message) /\ boxes[c] \in Seq(Message)
        /\ \A m : m \in Range(Arriving(c, sent)) <=> m \in Range(sent) /\ m.group \in Joined[c]
    BY ArrivingIs
  <2>. DEFINE old == boxes[c]
              new == Arriving(c, sent)
  <2>2. old \in Seq(Message) /\ new \in Seq(Message) /\ after[c] = old \o new
    BY <2>1 DEF Posted
  <2>. HIDE DEF old, new
  <2>3. \A m : m \in Range(after[c]) <=> m \in Range(old) \/ m \in Range(new)
    BY <2>2, RangeBoth
  <2>. QED BY <2>1, <2>3 DEF old, new
<1>2. /\ News(e, other, "w", val).group \in Joined[d] /\ News(e, other, "w", val).value = val
      /\ News(e, other, "a", val).group \in Joined[d] /\ News(e, other, "a", val).value = val
      /\ Comes(d, row.href, News(e, other, "w", val))
      /\ Takes(d, row.href, Head(other.ga)) => Comes(d, row.href, News(e, other, "a", val))
  BY NewsComes
<1>3. /\ \A m \in Range(boxes[d]) : m \in Range(after[d])
      /\ \A m \in Range(boxes[e]) : m \in Range(after[e])
      /\ \A m \in Range(sent) : m.group \in Joined[e] => m \in Range(after[e])
  BY <1>1
<1>4. ASSUME News(e, other, "w", val) \in Range(sent)
      PROVE  \E m \in Range(after[d]) : Comes(d, row.href, m) /\ m.value = val
  <2>1. News(e, other, "w", val) \in Range(after[d])
    BY <1>1, <1>2, <1>4
  <2>. QED BY <1>2, <2>1
<1>5. ASSUME News(e, other, "a", val) \in Range(sent), Takes(d, row.href, Head(other.ga))
      PROVE  \E m \in Range(after[d]) : Comes(d, row.href, m) /\ m.value = val
  <2>1. News(e, other, "a", val) \in Range(after[d])
    BY <1>1, <1>2, <1>5
  <2>. QED BY <1>2, <1>5, <2>1
<1>. QED BY <1>3, <1>4, <1>5 DEF Told

(* A datapoint that is followed and overwritten is announced.              *)
LEMMA PassesOn ==
  ASSUME PassedOn, NEW d \in Device, NEW e \in Device, NEW row \in Range(Objects[d]),
         NEW other \in Range(Objects[e]), Follows(d, row, e, other),
         TypeOK, NEW m \in Message, NEW s, AfterRows(e, m, s, Len(Objects[e])),
         Comes(e, other.href, m)
  PROVE  News(e, other, "w", m.value) \in Range(s.sent)
<1>1. PICK own \in Range(Objects[e]) :
        own.href = other.href /\ m.ga \in Range(own.ga) /\ Overwrites(own, m.st)
  BY DEF Comes
<1>2. PICK i \in 1 .. Len(Objects[e]) : own = Objects[e][i]
  BY RowIs, RangeOf
<1>3. Handles(e, m, i)
  <2>1. i \in DOMAIN Objects[e]
    BY TablesAssumption
  <2>. QED BY <1>1, <1>2, <2>1 DEF Handles, RowsWith, Comes
<1>4. "t" \in own.flags
  <2>1. own.flags \cap {"w", "u"} # {}
    BY <1>1 DEF Overwrites
  <2>. QED BY <1>1, <2>1 DEF PassedOn
<1>5. Says(e, m, i) = PassOn(e, own, m.value)
  BY <1>1, <1>2 DEF Says
<1>6. SentBy(e, own.href, "w", TRUE, m.value, News(e, other, "w", m.value)) /\ e \in Running
  <2>1. other.ga # <<>> /\ "t" \in other.flags /\ e \in Running
    BY DEF Follows
  <2>. QED BY <1>1, <2>1 DEF SentBy, Sends, News
<1>7. m.value \in 0 .. MaxValue
  BY DEF Message
<1>8. News(e, other, "w", m.value) \in Range(PassOn(e, own, m.value))
  BY <1>4, <1>6, <1>7, PassOnIs
<1>. QED BY <1>3, <1>5, <1>8 DEF AfterRows

(* A read is answered with the value of the datapoint.                     *)
LEMMA AnswersRead ==
  ASSUME NEW d \in Device, NEW e \in Device, NEW row \in Range(Objects[d]),
         NEW other \in Range(Objects[e]), Follows(d, row, e, other),
         TypeOK, NEW m \in Message, NEW s, AfterRows(e, m, s, Len(Objects[e])),
         Asks(e, other.href, m)
  PROVE  News(e, other, "a", value[e][other.href]) \in Range(s.sent)
<1>1. PICK own \in Range(Objects[e]) :
        own.href = other.href /\ m.ga \in Range(own.ga) /\ Answers(own, m.st)
  BY DEF Asks
<1>2. PICK i \in 1 .. Len(Objects[e]) : own = Objects[e][i]
  BY RowIs, RangeOf
<1>3. Handles(e, m, i)
  <2>1. i \in DOMAIN Objects[e]
    BY TablesAssumption
  <2>. QED BY <1>1, <1>2, <2>1 DEF Handles, RowsWith, Asks
<1>4. ~Overwrites(own, m.st)
  BY <1>1, OverwritesBy
<1>5. Says(e, m, i) = Answer(e, own, m, value[e][own.href])
  BY <1>1, <1>2, <1>4 DEF Says
<1>6. /\ SentBy(e, own.href, "a", FALSE, value[e][own.href], News(e, other, "a", value[e][own.href]))
      /\ e \in Running
  <2>1. other.ga # <<>> /\ e \in Running
    BY DEF Follows
  <2>. QED BY <1>1, <2>1 DEF SentBy, Sends, News
<1>7. value[e][own.href] \in 0 .. MaxValue
  BY <1>1, RowIs, IsValuesNow
<1>8. News(e, other, "a", value[e][own.href]) \in Range(Answer(e, own, m, value[e][own.href]))
  BY <1>6, <1>7, AnswerIs
<1>. QED BY <1>1, <1>3, <1>5, <1>8 DEF AfterRows

(* A follower stays informed when any device handles a message.            *)
LEMMA ReceiveInforms ==
  ASSUME OneLeader, PassedOn, TypeOK, OrderInv, NEW x \in Device, Receive(x),
         NEW d \in Device, NEW e \in Device, NEW row \in Range(Objects[d]),
         NEW other \in Range(Objects[e]), Follows(d, row, e, other),
         Informed(value, inbox, d, row.href, e, other.href, Head(other.ga))
  PROVE  Informed(value', inbox', d, row.href, e, other.href, Head(other.ga))
<1>. DEFINE h == row.href
            g == other.href
            ga == Head(other.ga)
            m == Head(inbox[x])
<1>1. PICK s : /\ AfterRows(x, m, s, Len(Objects[x]))
               /\ value' = [value EXCEPT ![x] = s.values]
               /\ Transmit(Popped(x), s.sent)
  BY ReceiveIs DEF Popped
<1>2. inbox[x] # <<>>
  BY DEF Receive
<1>3. /\ Reaches(e, g, d, h) /\ h \in Hrefs(d) /\ g \in Hrefs(e) /\ d # e
  BY FollowerReached
<1>4. m \in Message /\ m.value \in Int /\ s.sent \in Seq(Message)
  BY <1>1, <1>2, HeadIs DEF AfterRows, Result, Message
<1>5. /\ Popped(x) \in [Device -> Seq(Message)]
      /\ \A c \in Device : c # x => Popped(x)[c] = inbox[c]
      /\ \A y \in Range(inbox[x]) : y = m \/ y \in Range(Popped(x)[x])
  BY <1>2, PoppedIs
<1>6. \A c \in Device : inbox'[c] = Popped(x)[c] \o Arriving(c, s.sent)
  BY <1>1, <1>4, <1>5, TransmitIs
<1>7. \A c \in Device : \A k \in Hrefs(c) :
        value'[c][k] = IF c = x /\ Comes(x, k, m) THEN m.value ELSE value[c][k]
  BY ReceiveValues
<1>. HIDE DEF h, g, ga, m
<1>8. \A val : /\ \A y \in Range(Popped(x)[d]) : y \in Range(inbox'[d])
               /\ \A y \in Range(Popped(x)[e]) : y \in Range(inbox'[e])
               /\ News(e, other, "w", val) \in Range(s.sent) =>
                    \E y \in Range(inbox'[d]) : Comes(d, h, y) /\ y.value = val
               /\ News(e, other, "a", val) \in Range(s.sent) /\ Takes(d, h, ga) =>
                    \E y \in Range(inbox'[d]) : Comes(d, h, y) /\ y.value = val
  <2>1. Posted(Popped(x), s.sent, inbox')
    BY <1>6 DEF Posted
  <2>2. \A val : Told(d, e, row, other, Popped(x), s.sent, inbox', val)
    BY <1>4, <1>5, <2>1, NewsArrives
  <2>. QED BY <2>2 DEF Told, h, ga
<1>9. \/ value[d][h] = value[e][g]
      \/ \E y \in Range(inbox[d]) : Comes(d, h, y) /\ y.value = value[e][g]
      \/ Takes(d, h, ga) /\ \E y \in Range(inbox[e]) : Asks(e, g, y)
  BY DEF Informed, h, g, ga
<1>10. \/ value'[d][h] = value'[e][g]
       \/ \E y \in Range(inbox'[d]) : Comes(d, h, y) /\ y.value = value'[e][g]
       \/ Takes(d, h, ga) /\ \E y \in Range(inbox'[e]) : Asks(e, g, y)
  <2>1. CASE x = e
    <3>1. CASE Comes(e, g, m)
      <4>1. value'[e][g] = m.value
        BY <1>3, <1>7, <2>1, <3>1
      <4>2. News(e, other, "w", m.value) \in Range(s.sent)
        BY <1>1, <1>4, <2>1, <3>1, PassesOn DEF g
      <4>. QED BY <1>8, <4>1, <4>2
    <3>2. CASE ~Comes(e, g, m)
      <4>1. value'[e][g] = value[e][g] /\ value'[d][h] = value[d][h]
        BY <1>3, <1>7, <2>1, <3>2
      <4>2. \A y \in Range(inbox[d]) : y \in Range(inbox'[d])
        BY <1>3, <1>5, <1>8, <2>1
      <4>3. ASSUME Takes(d, h, ga), NEW y \in Range(inbox[e]), Asks(e, g, y)
            PROVE  \/ \E z \in Range(inbox'[d]) : Comes(d, h, z) /\ z.value = value[e][g]
                   \/ \E z \in Range(inbox'[e]) : Asks(e, g, z)
        <5>1. CASE y = m
          <6>1. News(e, other, "a", value[e][g]) \in Range(s.sent)
            BY <1>1, <1>4, <2>1, <4>3, <5>1, AnswersRead DEF g
          <6>. QED BY <1>8, <4>3, <6>1
        <5>2. CASE y # m
          BY <1>5, <1>8, <2>1, <4>3, <5>2
        <5>. QED BY <5>1, <5>2
      <4>. QED BY <1>9, <4>1, <4>2, <4>3
    <3>. QED BY <3>1, <3>2
  <2>2. CASE x = d
    <3>1. value'[e][g] = value[e][g] /\ \A y \in Range(inbox[e]) : y \in Range(inbox'[e])
      BY <1>3, <1>5, <1>7, <1>8, <2>2
    <3>2. CASE Takes(d, h, ga) /\ \E y \in Range(inbox[e]) : Asks(e, g, y)
      BY <3>1, <3>2
    <3>3. CASE \E y \in Range(inbox[d]) : Comes(d, h, y) /\ y.value = value[e][g]
      <4>1. PICK y \in Range(inbox[d]) : Comes(d, h, y) /\ y.value = value[e][g]
        BY <3>3
      <4>2. CASE y = m
        <5>1. value'[d][h] = m.value
          BY <1>3, <1>7, <2>2, <4>1, <4>2
        <5>. QED BY <3>1, <4>1, <4>2, <5>1
      <4>3. CASE y # m
        <5>1. y \in Range(inbox'[d])
          BY <1>5, <1>8, <2>2, <4>1, <4>3
        <5>. QED BY <3>1, <4>1, <5>1
      <4>. QED BY <4>2, <4>3
    <3>4. CASE value[d][h] = value[e][g]
      <4>1. CASE Comes(d, h, m)
        <5>1. /\ value[d][h] <= m.value
              /\ \E f \in Device : \E k \in Hrefs(f) : Reaches(f, k, d, h) /\ m.value <= value[f][k]
          BY <1>2, <1>3, <2>2, <4>1, HeadInOrder DEF m
        <5>2. m.value <= value[e][g]
          BY <1>3, <5>1 DEF OneLeader
        <5>3. value[d][h] \in Int /\ value[e][g] \in Int
          BY <1>3, IsValuesNow DEF IsValues
        <5>4. m.value = value[e][g]
          BY <1>4, <3>4, <5>1, <5>2, <5>3
        <5>5. value'[d][h] = m.value
          BY <1>3, <1>7, <2>2, <4>1
        <5>. QED BY <3>1, <5>4, <5>5
      <4>2. CASE ~Comes(d, h, m)
        <5>1. value'[d][h] = value[d][h]
          BY <1>3, <1>7, <2>2, <4>2
        <5>. QED BY <3>1, <3>4, <5>1
      <4>. QED BY <4>1, <4>2
    <3>. QED BY <1>9, <3>2, <3>3, <3>4
  <2>3. CASE x # d /\ x # e
    <3>1. /\ value'[e][g] = value[e][g] /\ value'[d][h] = value[d][h]
      BY <1>3, <1>7, <2>3
    <3>2. /\ \A y \in Range(inbox[d]) : y \in Range(inbox'[d])
          /\ \A y \in Range(inbox[e]) : y \in Range(inbox'[e])
      BY <1>5, <1>8, <2>3
    <3>. QED BY <1>9, <3>1, <3>2
  <2>. QED BY <2>1, <2>2, <2>3
<1>. QED BY <1>10 DEF Informed, h, g, ga

(* A change of the application is announced to those that follow.          *)
LEMMA WriteInforms ==
  ASSUME SourcesLead, TypeOK, NEW x \in Device, NEW href \in Hrefs(x), Write(x, href),
         NEW d \in Device, NEW e \in Device, NEW row \in Range(Objects[d]),
         NEW other \in Range(Objects[e]), Follows(d, row, e, other),
         Informed(value, inbox, d, row.href, e, other.href, Head(other.ga))
  PROVE  Informed(value', inbox', d, row.href, e, other.href, Head(other.ga))
<1>. DEFINE h == row.href
            g == other.href
            ga == Head(other.ga)
            new == written + 1
            sent == SModes(x, href, "w", TRUE, new)
<1>1. <<x, href>> \in Source /\ new \in 0 .. MaxValue
  BY GroupAssumption DEF Write, TypeOK
<1>2. Transmit(inbox, sent) /\ value' = [value EXCEPT ![x][href] = new]
  BY DEF Write
<1>3. /\ sent \in Seq(Message)
      /\ \A m : m \in Range(sent) <=> x \in Running /\ SentBy(x, href, "w", TRUE, new, m)
  <2>1. "w" \in {"w", "a", "r"}
    OBVIOUS
  <2>. QED BY <1>1, <2>1, SModesIs
<1>. HIDE DEF sent, new
<1>4. \A c \in Device : \A k \in Hrefs(c) :
        value'[c][k] = IF c = x /\ k = href THEN new ELSE value[c][k]
  BY <1>2 DEF TypeOK
<1>5. inbox \in [Device -> Seq(Message)]
  BY DEF TypeOK
<1>6. \A c \in Device : inbox'[c] = inbox[c] \o Arriving(c, sent)
  BY <1>2, <1>3, <1>5, TransmitIs
<1>7. Reaches(e, g, d, h) /\ h \in Hrefs(d) /\ g \in Hrefs(e) /\ d # e
  BY FollowerReached
<1>. HIDE DEF h, g, ga
<1>8. /\ \A y \in Range(inbox[d]) : y \in Range(inbox'[d])
      /\ \A y \in Range(inbox[e]) : y \in Range(inbox'[e])
      /\ News(e, other, "w", new) \in Range(sent) =>
           \E y \in Range(inbox'[d]) : Comes(d, h, y) /\ y.value = new
  <2>1. Posted(inbox, sent, inbox')
    BY <1>6 DEF Posted
  <2>2. Told(d, e, row, other, inbox, sent, inbox', new)
    BY <1>3, <1>5, <2>1, NewsArrives
  <2>. QED BY <2>2 DEF Told, h
<1>9. ~(d = x /\ h = href)
  BY <1>1, <1>7 DEF SourcesLead
<1>10. \/ value[d][h] = value[e][g]
       \/ \E y \in Range(inbox[d]) : Comes(d, h, y) /\ y.value = value[e][g]
       \/ Takes(d, h, ga) /\ \E y \in Range(inbox[e]) : Asks(e, g, y)
  BY DEF Informed, h, g, ga
<1>11. \/ value'[d][h] = value'[e][g]
       \/ \E y \in Range(inbox'[d]) : Comes(d, h, y) /\ y.value = value'[e][g]
       \/ Takes(d, h, ga) /\ \E y \in Range(inbox'[e]) : Asks(e, g, y)
  <2>1. CASE e = x /\ g = href
    <3>1. SentBy(e, g, "w", TRUE, new, News(e, other, "w", new)) /\ e \in Running
      <4>1. other.ga # <<>> /\ "t" \in other.flags /\ e \in Running
        BY DEF Follows
      <4>. QED BY <4>1 DEF SentBy, Sends, News, g
    <3>2. News(e, other, "w", new) \in Range(sent)
      BY <1>3, <2>1, <3>1
    <3>3. value'[e][g] = new
      BY <1>4, <1>7, <2>1
    <3>. QED BY <1>8, <3>2, <3>3
  <2>2. CASE ~(e = x /\ g = href)
    <3>1. value'[e][g] = value[e][g] /\ value'[d][h] = value[d][h]
      BY <1>4, <1>7, <1>9, <2>2
    <3>. QED BY <1>8, <1>10, <3>1
  <2>. QED BY <2>1, <2>2
<1>. QED BY <1>11 DEF Informed, h, g, ga

(* A device that restarts asks for what it follows.                        *)
LEMMA RestartInforms ==
  ASSUME LeadersStay, ReadsBack, TypeOK, NEW x \in Device, Restart(x),
         NEW d \in Device, NEW e \in Device, NEW row \in Range(Objects[d]),
         NEW other \in Range(Objects[e]), Follows(d, row, e, other),
         Informed(value, inbox, d, row.href, e, other.href, Head(other.ga))
  PROVE  Informed(value', inbox', d, row.href, e, other.href, Head(other.ga))
<1>. DEFINE h == row.href
            g == other.href
            ga == Head(other.ga)
            boxes == [inbox EXCEPT ![x] = <<>>]
            sent == InitReads(x)
<1>1. x \in Restarting /\ Transmit(boxes, sent)
  BY DEF Restart
<1>2. \A c \in Device : c # x => value'[c] = value[c]
  BY DEF Restart, TypeOK
<1>3. /\ boxes \in [Device -> Seq(Message)]
      /\ \A c \in Device : boxes[c] = IF c = x THEN <<>> ELSE inbox[c]
  BY DEF TypeOK
<1>4. ReadsOf(x, sent, Len(Objects[x])) /\ sent \in Seq(Message)
  BY InitReadsIs DEF ReadsOf
<1>. HIDE DEF boxes, sent
<1>5. \A c \in Device : inbox'[c] = boxes[c] \o Arriving(c, sent)
  BY <1>1, <1>3, <1>4, TransmitIs
<1>6. Reaches(e, g, d, h) /\ h \in Hrefs(d) /\ g \in Hrefs(e) /\ d # e
  BY FollowerReached
<1>7. x # e
  BY <1>1, <1>6 DEF LeadersStay
<1>. HIDE DEF h, g, ga
<1>8. /\ \A y \in Range(boxes[d]) : y \in Range(inbox'[d])
      /\ \A y \in Range(boxes[e]) : y \in Range(inbox'[e])
      /\ \A y \in Range(sent) : y.group \in Joined[e] => y \in Range(inbox'[e])
  <2>1. Posted(boxes, sent, inbox')
    BY <1>5 DEF Posted
  <2>2. Told(d, e, row, other, boxes, sent, inbox', 0)
    BY <1>3, <1>4, <2>1, NewsArrives
  <2>. QED BY <2>2 DEF Told
<1>9. \/ value[d][h] = value[e][g]
      \/ \E y \in Range(inbox[d]) : Comes(d, h, y) /\ y.value = value[e][g]
      \/ Takes(d, h, ga) /\ \E y \in Range(inbox[e]) : Asks(e, g, y)
  BY DEF Informed, h, g, ga
<1>10. \/ value'[d][h] = value'[e][g]
       \/ \E y \in Range(inbox'[d]) : Comes(d, h, y) /\ y.value = value'[e][g]
       \/ Takes(d, h, ga) /\ \E y \in Range(inbox'[e]) : Asks(e, g, y)
  <2>1. CASE x # d
    BY <1>2, <1>3, <1>7, <1>8, <1>9, <2>1
  <2>2. CASE x = d
    <3>1. PICK init \in Range(Objects[d]) : \E asked \in Range(Objects[e]) :
            /\ init.ga # <<>> /\ "i" \in init.flags
            /\ GroupOf(PublisherRows[d], Head(init.ga)) \in Joined[e]
            /\ asked.href = g /\ "r" \in asked.flags
            /\ Head(init.ga) \in Range(asked.ga)
      BY <1>1, <2>2 DEF ReadsBack, g
    <3>2. Takes(d, h, ga)
      BY <1>1, <2>2 DEF ReadsBack, Takes, h, ga
    <3>3. FirstRead(d, init) \in Range(sent)
      <4>1. PICK i \in 1 .. Len(Objects[d]) : init = Objects[d][i]
        BY RowIs, RangeOf
      <4>2. AsksFirst(d, init)
        BY <3>1 DEF AsksFirst
      <4>. QED BY <1>4, <2>2, <4>1, <4>2 DEF ReadsOf
    <3>4. FirstRead(d, init).group \in Joined[e]
      BY <3>1 DEF FirstRead, SMessage
    <3>5. Asks(e, g, FirstRead(d, init))
      <4>1. ~Ignores(e, d)
        BY <1>6 DEF Ignores, Follows
      <4>. QED BY <3>1, <4>1 DEF Asks, Answers, FirstRead, SMessage
    <3>. QED BY <1>8, <3>2, <3>3, <3>4, <3>5
  <2>. QED BY <2>1, <2>2
<1>. QED BY <1>10 DEF Informed, h, g, ga

LEMMA CurrentStep ==
  ASSUME OneLeader, SourcesLead, LeadersStay, PassedOn, ReadsBack
  PROVE  TypeOK /\ OrderInv /\ CurrentInv /\ [Next]_vars => CurrentInv'
<1>. SUFFICES ASSUME TypeOK, OrderInv, CurrentInv, [Next]_vars, lost' = 0
              PROVE  Current(value', inbox')
  BY DEF CurrentInv
<1>. SUFFICES ASSUME NEW d \in Device, NEW e \in Device, NEW row \in Range(Objects[d]),
                     NEW other \in Range(Objects[e]), Follows(d, row, e, other)
              PROVE  Informed(value', inbox', d, row.href, e, other.href, Head(other.ga))
  BY DEF Current
<1>1. ASSUME NEW x \in Device, Lose(x) PROVE FALSE
  BY <1>1 DEF Lose, TypeOK
<1>2. lost = 0
  BY <1>1 DEF Next, Receive, Restart, Write, vars
<1>3. Informed(value, inbox, d, row.href, e, other.href, Head(other.ga))
  BY <1>2 DEF CurrentInv, Current
<1>4. CASE UNCHANGED vars
  BY <1>3, <1>4 DEF vars
<1>5. ASSUME NEW x \in Device, Receive(x)
      PROVE  Informed(value', inbox', d, row.href, e, other.href, Head(other.ga))
  BY <1>3, <1>5, ReceiveInforms
<1>6. ASSUME NEW x \in Device, Restart(x)
      PROVE  Informed(value', inbox', d, row.href, e, other.href, Head(other.ga))
  BY <1>3, <1>6, RestartInforms
<1>7. ASSUME NEW x \in Device, NEW href \in Hrefs(x), Write(x, href)
      PROVE  Informed(value', inbox', d, row.href, e, other.href, Head(other.ga))
  BY <1>3, <1>7, WriteInforms
<1>. QED BY <1>1, <1>4, <1>5, <1>6, <1>7 DEF Next

(* When all messages have been handled and none was lost, every datapoint  *)
(* has the value of the one it follows, through chains of any number of    *)
(* devices and any order in which they act and restart: with tables as     *)
(* above, that announce a datapoint that is followed wherever it is        *)
(* overwritten, and in which a device that restarts can read what it       *)
(* follows.                                                                *)
THEOREM FollowersReach ==
  ASSUME OneLeader, SourcesLead, LeadersStay, PassedOn, ReadsBack
  PROVE  Spec => []FollowersAgree
<1>1. Init => CurrentInv
  BY DEF Init, CurrentInv, Current, Informed, Hrefs
<1>2. TypeOK /\ OrderInv /\ CurrentInv /\ [Next]_vars => CurrentInv'
  BY CurrentStep
<1>3. TypeOK /\ CurrentInv => FollowersAgree
  <2>. SUFFICES ASSUME CurrentInv, Silent, lost = 0,
                       NEW d \in Device, NEW e \in Device, NEW row \in Range(Objects[d]),
                       NEW other \in Range(Objects[e]), Follows(d, row, e, other)
                PROVE  value[d][row.href] = value[e][other.href]
    BY DEF FollowersAgree
  <2>1. Informed(value, inbox, d, row.href, e, other.href, Head(other.ga))
    BY DEF CurrentInv, Current
  <2>2. \A c \in Device : \A m : m \notin Range(inbox[c])
    BY DEF Silent, Range
  <2>. QED BY <2>1, <2>2 DEF Informed
<1>. QED BY <1>1, <1>2, <1>3, InOrder, TypeCorrect, PTL DEF Spec
=============================================================================
