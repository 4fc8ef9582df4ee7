------------------------- MODULE OscoreContextsProof -------------------------
(***************************************************************************)
(* What the token table, its storage and the pool of contexts are in every *)
(* state, for tables and pools of every size, all tokens and all messages. *)
(***************************************************************************)
EXTENDS OscoreContexts, FiniteSetTheorems, WellFoundedInduction, TLAPS

(* The least element of a set of numbers: strict inclusion of the initial  *)
(* segments is well founded.                                               *)
LEMMA LeastNumber ==
  ASSUME NEW S \in SUBSET Nat, S # {}
  PROVE  Min(S) \in S /\ \A m \in S : Min(S) <= m
<1>. DEFINE T == {0 .. n - 1 : n \in S}
<1>1. T \subseteq FiniteSubsetsOf(Nat)
  <2>. SUFFICES ASSUME NEW n \in S PROVE 0 .. n - 1 \in FiniteSubsetsOf(Nat)
    OBVIOUS
  <2>1. IsFiniteSet(0 .. n - 1)
    BY FS_Interval
  <2>. QED BY <2>1 DEF FiniteSubsetsOf
<1>2. T # {}
  OBVIOUS
<1>3. IsWellFoundedOn(StrictSubsetOrdering(Nat), FiniteSubsetsOf(Nat))
  BY FS_StrictSubsetOrderingWellFounded
<1>. HIDE DEF T
<1>4. PICK x \in T : \A y \in T : ~(<<y, x>> \in StrictSubsetOrdering(Nat))
  BY <1>1, <1>2, <1>3, WFMin
<1>5. PICK n \in S : x = 0 .. n - 1
  BY DEF T
<1>6. ASSUME NEW m \in S, m < n PROVE FALSE
  <2>1. 0 .. m - 1 \in T
    BY DEF T
  <2>2. 0 .. m - 1 \subseteq 0 .. n - 1 /\ 0 .. m - 1 # 0 .. n - 1
    <3>1. m \in 0 .. n - 1 /\ m \notin 0 .. m - 1
      BY <1>6
    <3>. QED BY <3>1, <1>6
  <2>3. <<0 .. m - 1, 0 .. n - 1>> \in StrictSubsetOrdering(Nat)
    BY <2>2 DEF StrictSubsetOrdering
  <2>. QED BY <1>4, <1>5, <2>1, <2>3
<1>7. \E k \in S : \A m \in S : k <= m
  BY <1>6
<1>. QED BY <1>7 DEF Min

(* Induction over the positions of a list, on a set of numbers.            *)
LEMMA UpTo ==
  ASSUME NEW n \in Nat, NEW T, 0 \in T, \A i \in 1 .. n : i - 1 \in T => i \in T
  PROVE  \A i \in 0 .. n : i \in T
<1>. SUFFICES ASSUME NEW i \in 0 .. n, i \notin T PROVE FALSE
  OBVIOUS
<1>. DEFINE S == {j \in 0 .. n : j \notin T}
<1>1. S \in SUBSET Nat /\ S # {}
  OBVIOUS
<1>2. Min(S) \in S /\ \A m \in S : Min(S) <= m
  BY <1>1, LeastNumber
<1>3. Min(S) \in 1 .. n
  BY <1>2
<1>4. Min(S) - 1 \in 0 .. n /\ Min(S) - 1 \in T
  BY <1>2, <1>3
<1>. QED BY <1>2, <1>3, <1>4

(* A loop that stays in a set has the values it goes through.              *)
Runs(n, S, base, step) ==
  \E f \in [0 .. n -> S] : f[0] = base /\ \A i \in 1 .. n : f[i] = step[<<f[i - 1], i>>]

LEMMA Iterates ==
  ASSUME NEW n \in Nat, NEW S, NEW base \in S, NEW step \in [S \X (1 .. n) -> S]
  PROVE  Runs(n, S, base, step)
<1>. DEFINE T == {k \in 0 .. n : Runs(k, S, base, step)}
<1>1. Runs(0, S, base, step)
  <2>. DEFINE f == [i \in 0 .. 0 |-> base]
  <2>1. f \in [0 .. 0 -> S] /\ f[0] = base
    OBVIOUS
  <2>2. \A i \in 1 .. 0 : FALSE
    OBVIOUS
  <2>. HIDE DEF f
  <2>. QED BY <2>1, <2>2 DEF Runs
<1>2. ASSUME NEW k \in 1 .. n, k - 1 \in T PROVE k \in T
  <2>1. PICK f \in [0 .. k - 1 -> S] :
          f[0] = base /\ \A i \in 1 .. k - 1 : f[i] = step[<<f[i - 1], i>>]
    BY <1>2 DEF Runs
  <2>. DEFINE latest == step[<<f[k - 1], k>>]
              g == [i \in 0 .. k |-> IF i = k THEN latest ELSE f[i]]
  <2>2. latest \in S
    <3>1. k - 1 \in 0 .. k - 1
      OBVIOUS
    <3>. QED BY <3>1
  <2>. HIDE DEF latest
  <2>3. g \in [0 .. k -> S]
    BY <2>2
  <2>4. g[0] = base
    BY <2>1
  <2>5. ASSUME NEW i \in 1 .. k PROVE g[i] = step[<<g[i - 1], i>>]
    <3>1. g[i - 1] = f[i - 1] /\ g[i] = IF i = k THEN latest ELSE f[i]
      OBVIOUS
    <3>. HIDE DEF g
    <3>2. CASE i = k
      BY <3>1, <3>2 DEF latest
    <3>3. CASE i # k
      <4>1. i \in 1 .. k - 1
        BY <3>3
      <4>2. f[i] = step[<<f[i - 1], i>>]
        BY <2>1, <4>1
      <4>. QED BY <3>1, <3>3, <4>2
    <3>. QED BY <3>2, <3>3
  <2>. HIDE DEF g
  <2>6. \E h \in [0 .. k -> S] : h[0] = base /\ \A i \in 1 .. k : h[i] = step[<<h[i - 1], i>>]
    <3>. WITNESS g \in [0 .. k -> S]
    <3>. QED BY <2>4, <2>5
  <2>. QED BY <2>6 DEF Runs
<1>3. 0 \in T
  BY <1>1
<1>. HIDE DEF T
<1>4. n \in T
  BY <1>2, <1>3, UpTo
<1>. QED BY <1>4 DEF T

-----------------------------------------------------------------------------
(* What is kept of the first n entries of a list: each entry comes from a  *)
(* position to keep, in order, and each of these positions is there.       *)
PickedAs(list, keep, n, sub, len) ==
  /\ len <= n
  /\ (\E i \in 1 .. n : i \notin keep) => len < n
  /\ \E o \in [1 .. len -> 1 .. n] :
       /\ \A j \in 1 .. len : o[j] \in keep /\ sub[j] = list[o[j]]
       /\ \A j, k \in 1 .. len : o[j] = o[k] => j = k
       /\ \A i \in 1 .. n : i \in keep => \E j \in 1 .. len : o[j] = i

Picked(list, keep, n, sub) == PickedAs(list, keep, n, sub, Len(sub))

LEMMA PickedMore ==
  ASSUME NEW R, NEW list \in Seq(R), NEW keep, NEW n \in 1 .. Len(list),
         NEW sub \in Seq(R), Picked(list, keep, n - 1, sub)
  PROVE  Picked(list, keep, n,
                IF n \in keep THEN Append(sub, list[n]) ELSE sub)
<1>1. PICK o \in [1 .. Len(sub) -> 1 .. n - 1] :
        /\ \A j \in 1 .. Len(sub) : o[j] \in keep /\ sub[j] = list[o[j]]
        /\ \A j, k \in 1 .. Len(sub) : o[j] = o[k] => j = k
        /\ \A i \in 1 .. n - 1 : i \in keep => \E j \in 1 .. Len(sub) : o[j] = i
  BY DEF Picked, PickedAs
<1>2. /\ Len(sub) \in Nat /\ Len(sub) <= n - 1 /\ n \in Nat
      /\ (\E i \in 1 .. n - 1 : i \notin keep) => Len(sub) < n - 1
  BY DEF Picked, PickedAs
<1>3. CASE n \notin keep
  <2>1. o \in [1 .. Len(sub) -> 1 .. n]
    BY <1>2
  <2>2. \A i \in 1 .. n : i \in keep => i \in 1 .. n - 1
    BY <1>2, <1>3
  <2>. QED BY <1>1, <1>2, <1>3, <2>1, <2>2 DEF Picked, PickedAs
<1>4. CASE n \in keep
  <2>. DEFINE m == Len(sub)
              more == Append(sub, list[n])
              p == [j \in 1 .. m + 1 |-> IF j = m + 1 THEN n ELSE o[j]]
  <2>1. /\ Len(more) = m + 1 /\ more[m + 1] = list[n]
        /\ \A j \in 1 .. m : more[j] = sub[j]
    BY <1>2
  <2>2. /\ p \in [1 .. m + 1 -> 1 .. n] /\ p[m + 1] = n
        /\ \A j \in 1 .. m : p[j] = o[j] /\ p[j] \in 1 .. n - 1
    BY <1>2
  <2>3. \A j \in 1 .. m + 1 : j \in 1 .. m \/ j = m + 1
    BY <1>2
  <2>4. (\E i \in 1 .. n : i \notin keep) => \E i \in 1 .. n - 1 : i \notin keep
    BY <1>2, <1>4
  <2>. HIDE DEF p, m, more
  <2>5. \A j \in 1 .. m + 1 : p[j] \in keep /\ more[j] = list[p[j]]
    BY <1>1, <1>4, <2>1, <2>2, <2>3 DEF m
  <2>6. \A j, k \in 1 .. m + 1 : p[j] = p[k] => j = k
    <3>1. n \notin 1 .. n - 1
      BY <1>2
    <3>. QED BY <1>1, <2>2, <2>3, <3>1 DEF m
  <2>7. \A i \in 1 .. n : i \in keep => \E j \in 1 .. m + 1 : p[j] = i
    <3>. SUFFICES ASSUME NEW i \in 1 .. n, i \in keep
                  PROVE  \E j \in 1 .. m + 1 : p[j] = i
      OBVIOUS
    <3>1. CASE i = n
      <4>1. m + 1 \in 1 .. m + 1
        BY <1>2 DEF m
      <4>. QED BY <2>2, <3>1, <4>1
    <3>2. CASE i # n
      <4>1. i \in 1 .. n - 1
        BY <1>2, <3>2
      <4>2. PICK j \in 1 .. m : o[j] = i
        BY <1>1, <4>1 DEF m
      <4>3. j \in 1 .. m + 1
        BY <1>2 DEF m
      <4>. QED BY <2>2, <4>2, <4>3
    <3>. QED BY <3>1, <3>2
  <2>8. m + 1 <= n /\ ((\E i \in 1 .. n : i \notin keep) => m + 1 < n)
    BY <1>2, <2>4 DEF m
  <2>9. \E q \in [1 .. m + 1 -> 1 .. n] :
          /\ \A j \in 1 .. m + 1 : q[j] \in keep /\ more[j] = list[q[j]]
          /\ \A j, k \in 1 .. m + 1 : q[j] = q[k] => j = k
          /\ \A i \in 1 .. n : i \in keep => \E j \in 1 .. m + 1 : q[j] = i
    <3>1. p \in [1 .. m + 1 -> 1 .. n]
      BY <2>2
    <3>. WITNESS p \in [1 .. m + 1 -> 1 .. n]
    <3>. QED BY <2>5, <2>6, <2>7
  <2>10. PickedAs(list, keep, n, more, m + 1)
    BY <2>8, <2>9 DEF PickedAs
  <2>11. Picked(list, keep, n, more)
    BY <2>1, <2>10 DEF Picked
  <2>. QED BY <1>4, <2>11 DEF more
<1>. QED BY <1>3, <1>4

LEMMA KeptPicks ==
  ASSUME NEW R, NEW list \in Seq(R), NEW keep
  PROVE  Kept(list, keep) \in Seq(R) /\ Picked(list, keep, Len(list), Kept(list, keep))
<1>. DEFINE n == Len(list)
            S == Seq(R)
            base == <<>>
            Next1(sub, i) == IF i \in keep THEN Append(sub, list[i]) ELSE sub
            step == [x \in S \X (1 .. n) |-> Next1(x[1], x[2])]
            kept == CHOOSE f : f = [i \in 0 .. n |->
                      IF i = 0 THEN base ELSE Next1(f[i - 1], i)]
<1>1. n \in Nat /\ base \in S
  OBVIOUS
<1>2. \A sub \in S, i \in 1 .. n : Next1(sub, i) \in S
  <2>. SUFFICES ASSUME NEW sub \in S, NEW i \in 1 .. n PROVE Next1(sub, i) \in S
    OBVIOUS
  <2>1. list[i] \in R
    OBVIOUS
  <2>. QED BY <2>1
<1>3. Kept(list, keep) = kept[n]
  BY DEF Kept
<1>. HIDE DEF n, S, base, Next1
<1>4. /\ step \in [S \X (1 .. n) -> S]
      /\ \A sub \in S, i \in 1 .. n : step[<<sub, i>>] = Next1(sub, i)
  BY <1>2
<1>. HIDE DEF step, kept
<1>5. PICK f \in [0 .. n -> S] : f[0] = base /\ \A i \in 1 .. n : f[i] = step[<<f[i - 1], i>>]
  <2>1. Runs(n, S, base, step)
    BY <1>1, <1>4, Iterates
  <2>. QED BY <2>1 DEF Runs
<1>6. \A i \in 1 .. n : i - 1 \in 0 .. n /\ f[i - 1] \in S /\ f[i] = Next1(f[i - 1], i)
  <2>. SUFFICES ASSUME NEW i \in 1 .. n
                PROVE  i - 1 \in 0 .. n /\ f[i - 1] \in S /\ f[i] = Next1(f[i - 1], i)
    OBVIOUS
  <2>1. i - 1 \in 0 .. n
    BY <1>1
  <2>. QED BY <1>4, <1>5, <2>1
<1>7. f = [i \in 0 .. n |-> IF i = 0 THEN base ELSE Next1(f[i - 1], i)]
  BY <1>1, <1>5, <1>6
<1>8. kept = [i \in 0 .. n |-> IF i = 0 THEN base ELSE Next1(kept[i - 1], i)]
  BY <1>7 DEF kept
<1>9. kept[0] = base /\ \A i \in 1 .. n : kept[i] = Next1(kept[i - 1], i)
  BY <1>1, <1>8
<1>. DEFINE T == {i \in 0 .. n : kept[i] \in S /\ Picked(list, keep, i, kept[i])}
<1>10. 0 \in T
  <2>1. Picked(list, keep, 0, base)
    <3>1. Len(base) = 0
      BY DEF base
    <3>2. \A j \in 1 .. 0 : FALSE
      OBVIOUS
    <3>3. \E o \in [1 .. 0 -> 1 .. 0] :
            /\ \A j \in 1 .. 0 : o[j] \in keep /\ base[j] = list[o[j]]
            /\ \A j, k \in 1 .. 0 : o[j] = o[k] => j = k
            /\ \A i \in 1 .. 0 : i \in keep => \E j \in 1 .. 0 : o[j] = i
      <4>. DEFINE none == [j \in 1 .. 0 |-> 0]
      <4>1. none \in [1 .. 0 -> 1 .. 0]
        BY <3>2
      <4>. HIDE DEF none
      <4>. WITNESS none \in [1 .. 0 -> 1 .. 0]
      <4>. QED BY <3>2
    <3>4. 0 <= 0 /\ ((\E i \in 1 .. 0 : i \notin keep) => 0 < 0)
      BY <3>2
    <3>. HIDE DEF base
    <3>5. PickedAs(list, keep, 0, base, 0)
      BY <3>3, <3>4 DEF PickedAs
    <3>. QED BY <3>1, <3>5 DEF Picked
  <2>. QED BY <1>1, <1>9, <2>1
<1>11. ASSUME NEW i \in 1 .. n, i - 1 \in T PROVE i \in T
  <2>1. /\ kept[i - 1] \in Seq(R) /\ list \in Seq(R) /\ i \in 1 .. Len(list)
        /\ Picked(list, keep, i - 1, kept[i - 1])
    BY <1>11 DEF n, S
  <2>2. Picked(list, keep, i, Next1(kept[i - 1], i))
    BY <2>1, PickedMore DEF Next1
  <2>3. i \in 0 .. n
    BY <1>1
  <2>. QED BY <1>2, <1>9, <1>11, <2>1, <2>2, <2>3 DEF S
<1>. HIDE DEF T
<1>12. \A i \in 0 .. n : i \in T
  BY <1>1, <1>10, <1>11, UpTo
<1>13. n \in T
  BY <1>1, <1>12
<1>. QED BY <1>3, <1>13 DEF T, n, S

-----------------------------------------------------------------------------
(* Lists of contexts.  What matters of a context, but for when it was used *)
(* last; a list that has some of the contexts of another; and what of a    *)
(* list passes on to every such part of it.                                *)
Lists == Seq(Context)

Alike(c, d) ==
  /\ c.send = d.send /\ c.recv = d.recv /\ c.ctx = d.ctx
  /\ c.key = d.key /\ c.index = d.index

PartOf(a, b) ==
  \E o \in [1 .. Len(a) -> 1 .. Len(b)] :
    /\ \A j, k \in 1 .. Len(a) : o[j] = o[k] => j = k
    /\ \A j \in 1 .. Len(a) : Alike(a[j], b[o[j]])

Apart(c, d) ==
  /\ IsSender(c) /\ IsSender(d) => c.index # d.index
  /\ ~IsSender(c) /\ ~IsSender(d) => <<c.recv, c.ctx>> # <<d.recv, d.ctx>>

Unique(list) == \A n, m \in 1 .. Len(list) : n # m => Apart(list[n], list[m])

\* Sender contexts have what their tokens have, but for some entries.
UpToDate(table, but, c) ==
  IsSender(c) /\ c.index \notin but =>
    /\ table[c.index].id # None
    /\ c.send = table[c.index].osc /\ c.ctx = table[c.index].ctx
    /\ c.key = table[c.index].key

Current(table, but, list) == \A n \in 1 .. Len(list) : UpToDate(table, but, list[n])

\* A context with a recipient id has no sender id.
OneRole(list) == \A n \in 1 .. Len(list) : ~IsSender(list[n]) => IsRecipient(list[n])

LEMMA PartOfPart ==
  ASSUME NEW a \in Lists, NEW b \in Lists, NEW c \in Lists, PartOf(a, b), PartOf(b, c)
  PROVE  PartOf(a, c)
<1>1. PICK o \in [1 .. Len(a) -> 1 .. Len(b)] :
        /\ \A j, k \in 1 .. Len(a) : o[j] = o[k] => j = k
        /\ \A j \in 1 .. Len(a) : Alike(a[j], b[o[j]])
  BY DEF PartOf
<1>2. PICK p \in [1 .. Len(b) -> 1 .. Len(c)] :
        /\ \A j, k \in 1 .. Len(b) : p[j] = p[k] => j = k
        /\ \A j \in 1 .. Len(b) : Alike(b[j], c[p[j]])
  BY DEF PartOf
<1>. DEFINE q == [j \in 1 .. Len(a) |-> p[o[j]]]
<1>3. q \in [1 .. Len(a) -> 1 .. Len(c)] /\ \A j \in 1 .. Len(a) : q[j] = p[o[j]]
  OBVIOUS
<1>. HIDE DEF q
<1>4. ASSUME NEW j \in 1 .. Len(a), NEW k \in 1 .. Len(a), q[j] = q[k] PROVE j = k
  <2>1. o[j] \in 1 .. Len(b) /\ o[k] \in 1 .. Len(b) /\ p[o[j]] = p[o[k]]
    BY <1>3, <1>4
  <2>2. o[j] = o[k]
    BY <1>2, <2>1
  <2>. QED BY <1>1, <2>2
<1>5. \A j \in 1 .. Len(a) : Alike(a[j], c[q[j]])
  BY <1>1, <1>2, <1>3 DEF Alike
<1>. QED BY <1>3, <1>4, <1>5 DEF PartOf

LEMMA PartKeeps ==
  ASSUME NEW a \in Lists, NEW b \in Lists, PartOf(a, b)
  PROVE  /\ Unique(b) => Unique(a)
         /\ \A table, but : Current(table, but, b) => Current(table, but, a)
         /\ OneRole(b) => OneRole(a)
<1>1. PICK o \in [1 .. Len(a) -> 1 .. Len(b)] :
        /\ \A j, k \in 1 .. Len(a) : o[j] = o[k] => j = k
        /\ \A j \in 1 .. Len(a) : Alike(a[j], b[o[j]])
  BY DEF PartOf
<1>2. ASSUME Unique(b), NEW n \in 1 .. Len(a), NEW m \in 1 .. Len(a), n # m
      PROVE  Apart(a[n], a[m])
  <2>1. Apart(b[o[n]], b[o[m]])
    BY <1>1, <1>2 DEF Unique
  <2>. QED BY <1>1, <2>1 DEF Apart, Alike, IsSender
<1>3. ASSUME NEW table, NEW but, Current(table, but, b), NEW n \in 1 .. Len(a)
      PROVE  UpToDate(table, but, a[n])
  BY <1>1, <1>3 DEF Current, UpToDate, Alike, IsSender
<1>4. ASSUME OneRole(b), NEW n \in 1 .. Len(a), ~IsSender(a[n])
      PROVE  IsRecipient(a[n])
  BY <1>1, <1>4 DEF OneRole, Alike, IsSender, IsRecipient
<1>. QED BY <1>2, <1>3, <1>4 DEF Unique, Current, OneRole

(* The same list with other times of use.                                  *)
Renewed(a, b) ==
  /\ a \in Lists /\ Len(a) = Len(b)
  /\ \A n \in 1 .. Len(b) : Alike(a[n], b[n])

LEMMA RenewedIsPart ==
  ASSUME NEW a, NEW b \in Lists, Renewed(a, b)
  PROVE  PartOf(a, b)
<1>. DEFINE o == [n \in 1 .. Len(a) |-> n]
<1>1. o \in [1 .. Len(a) -> 1 .. Len(b)] /\ \A n \in 1 .. Len(a) : o[n] = n
  BY DEF Renewed
<1>. HIDE DEF o
<1>. QED BY <1>1 DEF PartOf, Renewed

LEMMA ContextWithTime ==
  ASSUME NEW c \in Context, NEW t \in Nat
  PROVE  [c EXCEPT !.used = t] \in Context /\ Alike([c EXCEPT !.used = t], c)
BY DEF Context, Alike

LEMMA RankedRenews ==
  ASSUME NEW list \in Lists
  PROVE  Renewed(Ranked(list), list)
<1>. DEFINE times == {c.used : c \in Range(list)}
            rank(i) == Cardinality({t \in times : t < list[i].used})
            a == Ranked(list)
<1>1. IsFiniteSet(times)
  <2>. DEFINE f == [i \in 1 .. Len(list) |-> list[i].used]
  <2>1. IsFiniteSet(1 .. Len(list))
    <3>1. Len(list) \in Nat
      BY DEF Lists
    <3>. QED BY <3>1, FS_Interval
  <2>2. DOMAIN list = 1 .. Len(list)
    BY DEF Lists
  <2>3. \A t \in times : \E i \in 1 .. Len(list) : f[i] = t
    BY <2>2 DEF Range
  <2>4. f \in [1 .. Len(list) -> times]
    BY <2>2 DEF Range
  <2>. HIDE DEF f, times
  <2>5. f \in Surjection(1 .. Len(list), times)
    BY <2>3, <2>4 DEF Surjection
  <2>. QED BY <2>1, <2>5, FS_Surjection
<1>2. \A i : rank(i) \in Nat
  <2>. SUFFICES ASSUME NEW i PROVE rank(i) \in Nat
    OBVIOUS
  <2>. DEFINE below == {t \in times : t < list[i].used}
  <2>1. below \subseteq times
    OBVIOUS
  <2>. HIDE DEF times, below
  <2>2. IsFiniteSet(below)
    BY <1>1, <2>1, FS_Subset
  <2>3. Cardinality(below) \in Nat
    BY <2>2, FS_CardinalityType
  <2>. QED BY <2>3 DEF below
<1>3. a = [i \in 1 .. Len(list) |-> [list[i] EXCEPT !.used = rank(i)]]
  <2>1. DOMAIN list = 1 .. Len(list)
    BY DEF Lists
  <2>. QED BY <2>1 DEF Ranked
<1>. HIDE DEF a, rank
<1>4. \A i \in 1 .. Len(list) : /\ list[i] \in Context /\ a[i] = [list[i] EXCEPT !.used = rank(i)]
                                /\ a[i] \in Context /\ Alike(a[i], list[i])
  <2>. SUFFICES ASSUME NEW i \in 1 .. Len(list)
                PROVE  /\ list[i] \in Context /\ a[i] = [list[i] EXCEPT !.used = rank(i)]
                       /\ a[i] \in Context /\ Alike(a[i], list[i])
    OBVIOUS
  <2>1. list[i] \in Context
    BY DEF Lists
  <2>2. a[i] = [list[i] EXCEPT !.used = rank(i)]
    BY <1>3
  <2>. QED BY <1>2, <2>1, <2>2, ContextWithTime
<1>5. a \in Lists /\ Len(a) = Len(list)
  <2>1. Len(list) \in Nat
    BY DEF Lists
  <2>2. a = [i \in 1 .. Len(list) |-> a[i]]
    BY <1>3
  <2>. QED BY <1>4, <2>1, <2>2 DEF Lists
<1>. QED BY <1>4, <1>5 DEF Renewed, a

LEMMA ListTyped ==
  ASSUME NEW list \in Lists
  PROVE  /\ Len(list) \in Nat /\ DOMAIN list = 1 .. Len(list)
         /\ \A i \in 1 .. Len(list) : list[i] \in Context
         /\ \A i \in 1 .. Len(list) : list[i].used \in Nat
<1>1. /\ Len(list) \in Nat /\ DOMAIN list = 1 .. Len(list)
      /\ \A i \in 1 .. Len(list) : list[i] \in Context
  BY DEF Lists
<1>2. \A c \in Context : c.used \in Nat
  BY DEF Context
<1>. QED BY <1>1, <1>2

LEMMA NextUseTyped ==
  ASSUME NEW list \in Lists
  PROVE  NextUse(list) \in Nat
<1>. DEFINE n == Len(list)
            Bounded(k) == \E b \in Nat : \A i \in 1 .. k : list[i].used <= b
            T == {k \in 0 .. n : Bounded(k)}
            times == {c.used : c \in Range(list)} \cup {0}
<1>1. /\ n \in Nat /\ DOMAIN list = 1 .. n
      /\ \A i \in 1 .. n : list[i] \in Context /\ list[i].used \in Nat
  BY ListTyped
<1>2. 0 \in T
  BY <1>1
<1>3. ASSUME NEW k \in 1 .. n, k - 1 \in T PROVE k \in T
  <2>1. PICK b \in Nat : \A i \in 1 .. k - 1 : list[i].used <= b
    BY <1>3
  <2>2. \A i \in 1 .. k : i \in 1 .. k - 1 \/ i = k
    BY <1>1
  <2>3. PICK d \in Nat : b <= d /\ list[k].used <= d
    BY <1>1
  <2>4. \A i \in 1 .. k : list[i].used \in Nat
    BY <1>1
  <2>5. \A i \in 1 .. k : list[i].used <= d
    BY <2>1, <2>2, <2>3, <2>4
  <2>6. Bounded(k)
    BY <2>5
  <2>7. k \in 0 .. n
    BY <1>1
  <2>. HIDE DEF Bounded
  <2>. QED BY <2>6, <2>7
<1>. HIDE DEF T
<1>4. \A k \in 0 .. n : k \in T
  BY <1>1, <1>2, <1>3, UpTo
<1>5. PICK b \in Nat : \A i \in 1 .. n : list[i].used <= b
  <2>1. n \in T
    BY <1>1, <1>4
  <2>. QED BY <2>1 DEF T
<1>6. times \in SUBSET Nat /\ 0 \in times /\ \A t \in times : t <= b
  BY <1>1, <1>5 DEF Range
<1>. DEFINE rest == {b - t : t \in times}
<1>. HIDE DEF times
<1>7. rest \in SUBSET Nat /\ rest # {}
  BY <1>6
<1>8. Min(rest) \in rest /\ \A m \in rest : Min(rest) <= m
  <2>. HIDE DEF rest
  <2>. QED BY <1>7, LeastNumber
<1>9. PICK x \in times : \A t \in times : b - x <= b - t
  BY <1>8
<1>10. \E y \in times : \A t \in times : y >= t
  BY <1>6, <1>9
<1>11. Max(times) \in times
  BY <1>10 DEF Max
<1>12. NextUse(list) = Max(times) + 1
  BY DEF NextUse, times
<1>13. Max(times) \in Nat
  BY <1>6, <1>11
<1>. DEFINE top == Max(times)
<1>. HIDE DEF top
<1>14. NextUse(list) = top + 1 /\ top \in Nat
  BY <1>12, <1>13 DEF top
<1>. QED BY <1>14

LEMMA TouchRenews ==
  ASSUME NEW list \in Lists, NEW i \in 1 .. Len(list)
  PROVE  Renewed(Touch(list, i), list)
<1>. DEFINE a == [list EXCEPT ![i] = [list[i] EXCEPT !.used = NextUse(list)]]
<1>1. /\ list[i] \in Context /\ Len(list) \in Nat
      /\ DOMAIN list = 1 .. Len(list) /\ NextUse(list) \in Nat
  BY NextUseTyped DEF Lists
<1>2. /\ [list[i] EXCEPT !.used = NextUse(list)] \in Context
      /\ Alike([list[i] EXCEPT !.used = NextUse(list)], list[i])
  BY <1>1, ContextWithTime
<1>3. a \in Lists /\ Len(a) = Len(list)
  BY <1>1, <1>2 DEF Lists
<1>4. \A n \in 1 .. Len(list) : Alike(a[n], list[n])
  BY <1>1, <1>2 DEF Alike
<1>5. Touch(list, i) = Ranked(a)
  BY DEF Touch
<1>. HIDE DEF a
<1>6. Renewed(Ranked(a), a)
  BY <1>3, RankedRenews
<1>. QED BY <1>3, <1>4, <1>5, <1>6 DEF Renewed, Alike

LEMMA KeptIsPart ==
  ASSUME NEW list \in Lists, NEW keep
  PROVE  /\ Kept(list, keep) \in Lists /\ PartOf(Kept(list, keep), list)
         /\ Len(Kept(list, keep)) <= Len(list)
         /\ (\E i \in 1 .. Len(list) : i \notin keep) =>
              Len(Kept(list, keep)) < Len(list)
         /\ \A n \in 1 .. Len(Kept(list, keep)) :
              \E i \in 1 .. Len(list) : i \in keep /\ Kept(list, keep)[n] = list[i]
         /\ \A i \in 1 .. Len(list) : i \in keep =>
              \E n \in 1 .. Len(Kept(list, keep)) : Kept(list, keep)[n] = list[i]
<1>. DEFINE a == Kept(list, keep)
<1>1. a \in Lists /\ Picked(list, keep, Len(list), a)
  BY KeptPicks DEF Lists
<1>. HIDE DEF a
<1>2. PICK o \in [1 .. Len(a) -> 1 .. Len(list)] :
        /\ \A j \in 1 .. Len(a) : o[j] \in keep /\ a[j] = list[o[j]]
        /\ \A j, k \in 1 .. Len(a) : o[j] = o[k] => j = k
        /\ \A i \in 1 .. Len(list) : i \in keep => \E j \in 1 .. Len(a) : o[j] = i
  BY <1>1 DEF Picked, PickedAs
<1>3. PartOf(a, list)
  BY <1>2 DEF PartOf, Alike
<1>4. /\ Len(a) <= Len(list)
      /\ (\E i \in 1 .. Len(list) : i \notin keep) => Len(a) < Len(list)
  BY <1>1 DEF Picked, PickedAs
<1>5. \A n \in 1 .. Len(a) : \E i \in 1 .. Len(list) : i \in keep /\ a[n] = list[i]
  BY <1>2
<1>6. \A i \in 1 .. Len(list) : i \in keep => \E n \in 1 .. Len(a) : a[n] = list[i]
  BY <1>2
<1>. QED BY <1>1, <1>3, <1>4, <1>5, <1>6 DEF a

(* The context evicted, if it is a recipient's, is the one used before all *)
(* other recipient contexts.                                               *)
LEMMA LruIsOldest ==
  ASSUME NEW list \in Lists, list # <<>>
  PROVE  /\ LruIndex(list) \in 1 .. Len(list)
         /\ \A m \in 1 .. Len(list) :
              IsRecipient(list[m]) /\ IsRecipient(list[LruIndex(list)]) =>
                list[LruIndex(list)].used <= list[m].used
<1>. DEFINE older == {i \in DOMAIN list :
                        IsRecipient(list[i]) /\ list[i].used < Head(list).used}
            oldest == {i \in older : \A j \in older : list[i].used <= list[j].used}
            times == {list[i].used : i \in older}
<1>1. /\ Len(list) \in Nat /\ DOMAIN list = 1 .. Len(list) /\ 1 \in 1 .. Len(list)
      /\ Head(list) = list[1] /\ \A i \in 1 .. Len(list) : list[i].used \in Nat
  <2>1. Len(list) # 0
    BY DEF Lists
  <2>. QED BY <2>1, ListTyped
<1>2. LruIndex(list) = IF older = {} THEN 1 ELSE Min(oldest)
  BY DEF LruIndex
<1>3. CASE older = {}
  <2>1. LruIndex(list) = 1
    BY <1>2, <1>3
  <2>2. \A m \in 1 .. Len(list) : IsRecipient(list[m]) => ~(list[m].used < list[1].used)
    BY <1>1, <1>3
  <2>. HIDE DEF older
  <2>3. ASSUME NEW m \in 1 .. Len(list), IsRecipient(list[m])
        PROVE  list[1].used <= list[m].used
    BY <1>1, <2>2, <2>3
  <2>. QED BY <1>1, <2>1, <2>3
<1>4. CASE older # {}
  <2>1. times \in SUBSET Nat /\ times # {}
    BY <1>1, <1>4
  <2>2. Min(times) \in times /\ \A t \in times : Min(times) <= t
    <3>. HIDE DEF times
    <3>. QED BY <2>1, LeastNumber
  <2>3. oldest # {} /\ oldest \in SUBSET Nat
    <3>1. PICK k \in older : list[k].used = Min(times)
      BY <2>2
    <3>2. \A j \in older : list[k].used <= list[j].used
      BY <2>2, <3>1
    <3>3. older \in SUBSET Nat
      BY <1>1
    <3>. HIDE DEF older, times
    <3>. QED BY <3>2, <3>3
  <2>4. Min(oldest) \in oldest
    <3>. HIDE DEF oldest
    <3>. QED BY <2>3, LeastNumber
  <2>5. PICK l \in older : /\ LruIndex(list) = l
                           /\ \A j \in older : list[l].used <= list[j].used
    BY <1>2, <1>4, <2>4
  <2>6. l \in 1 .. Len(list) /\ list[l].used < list[1].used
    BY <1>1
  <2>7. \A m \in 1 .. Len(list) : IsRecipient(list[m]) =>
          m \in older \/ ~(list[m].used < list[1].used)
    BY <1>1
  <2>. HIDE DEF older
  <2>8. ASSUME NEW m \in 1 .. Len(list), IsRecipient(list[m])
        PROVE  list[l].used <= list[m].used
    <3>1. CASE m \in older
      BY <2>5, <3>1
    <3>2. CASE ~(list[m].used < list[1].used)
      BY <1>1, <2>6, <3>2
    <3>. QED BY <2>7, <2>8, <3>1, <3>2
  <2>. QED BY <2>5, <2>6, <2>8
<1>. QED BY <1>3, <1>4

-----------------------------------------------------------------------------
(* The pool: what adding, evicting and building again leave of it.         *)
Pools == {p \in [list : Lists, leaked : Nat] : Len(p.list) + p.leaked <= PoolSize}

LEMMA AppendKeeps ==
  ASSUME NEW list \in Lists, NEW c \in Context
  PROVE  /\ Append(list, c) \in Lists /\ Len(Append(list, c)) = Len(list) + 1
         /\ Append(list, c)[Len(list) + 1] = c
         /\ \A n \in 1 .. Len(list) : Append(list, c)[n] = list[n]
         /\ Unique(list) /\ (\A n \in 1 .. Len(list) : Apart(list[n], c)) =>
              Unique(Append(list, c))
         /\ \A table, but : Current(table, but, list) /\ UpToDate(table, but, c) =>
              Current(table, but, Append(list, c))
         /\ OneRole(list) /\ (~IsSender(c) => IsRecipient(c)) =>
              OneRole(Append(list, c))
<1>. DEFINE a == Append(list, c)
            m == Len(list)
<1>1. /\ m \in Nat /\ a \in Lists /\ Len(a) = m + 1 /\ a[m + 1] = c
      /\ \A n \in 1 .. m : a[n] = list[n]
  BY DEF Lists
<1>2. \A n \in 1 .. m + 1 : n \in 1 .. m \/ n = m + 1
  BY <1>1
<1>. HIDE DEF a, m
<1>3. ASSUME Unique(list), \A n \in 1 .. m : Apart(list[n], c) PROVE Unique(a)
  <2>1. \A n \in 1 .. m : Apart(c, list[n])
    BY <1>3 DEF Apart
  <2>2. \A n, k \in 1 .. m : n # k => Apart(list[n], list[k])
    BY <1>3 DEF Unique, m
  <2>. QED BY <1>1, <1>2, <1>3, <2>1, <2>2 DEF Unique
<1>4. ASSUME NEW table, NEW but, Current(table, but, list), UpToDate(table, but, c)
      PROVE  Current(table, but, a)
  BY <1>1, <1>2, <1>4 DEF Current, m
<1>5. ASSUME OneRole(list), ~IsSender(c) => IsRecipient(c) PROVE OneRole(a)
  BY <1>1, <1>2, <1>5 DEF OneRole, m
<1>. QED BY <1>1, <1>3, <1>4, <1>5 DEF a, m

LEMMA ContextAdded ==
  ASSUME NEW p \in Pools, NEW c, c.key # None => c \in Context
  PROVE  /\ AddContext(p, c) \in Pools
         /\ Adds(p, c) => /\ AddContext(p, c).list = Append(p.list, c)
                          /\ c \in Context
         /\ ~Adds(p, c) => AddContext(p, c).list = p.list
         /\ Full(p) => AddContext(p, c) = p
<1>1. /\ p \in [list : Lists, leaked : Nat] /\ Len(p.list) \in Nat
      /\ Len(p.list) + p.leaked <= PoolSize /\ PoolSize \in Nat
  BY ListTyped, ContextsAssumption DEF Pools
<1>2. CASE Full(p)
  BY <1>2 DEF AddContext, Adds
<1>3. CASE ~Full(p) /\ c.key = None
  <2>1. AddContext(p, c) = [p EXCEPT !.leaked = @ + 1]
    BY <1>3 DEF AddContext
  <2>2. Len(p.list) + (p.leaked + 1) <= PoolSize
    BY <1>1, <1>3 DEF Full
  <2>. QED BY <1>1, <1>3, <2>1, <2>2 DEF Adds, Pools
<1>4. CASE ~Full(p) /\ c.key # None
  <2>. DEFINE a == Append(p.list, c)
  <2>1. AddContext(p, c) = [p EXCEPT !.list = a]
    BY <1>4 DEF AddContext
  <2>2. a \in Lists /\ Len(a) = Len(p.list) + 1
    BY <1>1, <1>4, AppendKeeps
  <2>. HIDE DEF a
  <2>3. Len(a) + p.leaked <= PoolSize
    BY <1>1, <1>4, <2>2 DEF Full
  <2>. QED BY <1>1, <1>4, <2>1, <2>2, <2>3 DEF Adds, Pools, a
<1>. QED BY <1>2, <1>3, <1>4

LEMMA ContextFreed ==
  ASSUME NEW p \in Pools, p.list # <<>>
  PROVE  /\ FreeLru(p) \in Pools /\ FreeLru(p).leaked = p.leaked
         /\ PartOf(FreeLru(p).list, p.list) /\ ~Full(FreeLru(p))
         /\ \A i \in 1 .. Len(p.list) : i # LruIndex(p.list) =>
              \E n \in 1 .. Len(FreeLru(p).list) : FreeLru(p).list[n] = p.list[i]
<1>. DEFINE l == LruIndex(p.list)
            keep == DOMAIN p.list \ {l}
            a == Kept(p.list, keep)
<1>1. /\ p \in [list : Lists, leaked : Nat] /\ Len(p.list) \in Nat
      /\ DOMAIN p.list = 1 .. Len(p.list)
      /\ Len(p.list) + p.leaked <= PoolSize /\ PoolSize \in Nat
  BY ListTyped, ContextsAssumption DEF Pools
<1>2. l \in 1 .. Len(p.list)
  BY <1>1, LruIsOldest
<1>3. FreeLru(p) = [p EXCEPT !.list = a]
  BY DEF FreeLru
<1>4. l \notin keep /\ \A i \in 1 .. Len(p.list) : i # l => i \in keep
  BY <1>1
<1>. HIDE DEF keep, l
<1>5. /\ a \in Lists /\ PartOf(a, p.list) /\ Len(a) < Len(p.list)
      /\ \A i \in 1 .. Len(p.list) : i \in keep =>
           \E n \in 1 .. Len(a) : a[n] = p.list[i]
  BY <1>1, <1>2, <1>4, KeptIsPart
<1>. HIDE DEF a
<1>6. /\ FreeLru(p) \in [list : Lists, leaked : Nat]
      /\ FreeLru(p).list = a /\ FreeLru(p).leaked = p.leaked
  BY <1>1, <1>3, <1>5
<1>7. Len(a) \in Nat /\ Len(a) + p.leaked < PoolSize
  <2>1. Len(a) \in Nat
    BY <1>5, ListTyped
  <2>. QED BY <1>1, <1>5, <2>1
<1>. QED BY <1>1, <1>4, <1>5, <1>6, <1>7 DEF Pools, Full, l

(* What becomes of a pool while the sender contexts of the first i entries *)
(* are built.                                                              *)
Building(table, i, p) ==
  /\ p \in Pools /\ Unique(p.list) /\ OneRole(p.list) /\ Current(table, {}, p.list)
  /\ \A n \in 1 .. Len(p.list) : IsSender(p.list[n]) => p.list[n].index <= i

LEMMA SenderTyped ==
  ASSUME NEW table \in [Slot -> Token], NEW i \in Slot, NEW time \in Nat
  PROVE  /\ SenderContext(table, i, time).key # None =>
              SenderContext(table, i, time) \in Context
         /\ IsSender(SenderContext(table, i, time))
         /\ SenderContext(table, i, time).index = i
         /\ Loadable(table, i) => UpToDate(table, {}, SenderContext(table, i, time))
<1>1. table[i] \in Token
  OBVIOUS
<1>2. /\ table[i].osc \in Kids \cup {None} /\ table[i].ctx \in KidCtxs \cup {None}
      /\ table[i].key \in Keys \cup {None}
  BY <1>1 DEF Token
<1>. QED BY <1>2 DEF SenderContext, Context, IsSender, Loadable, UpToDate

LEMMA SenderBuilt ==
  ASSUME NEW table \in [Slot -> Token], NEW i \in Slot, NEW time \in Nat,
         NEW p, Building(table, i - 1, p)
  PROVE  Building(table, i, IF Loadable(table, i)
                            THEN AddContext(p, SenderContext(table, i, time)) ELSE p)
<1>. DEFINE c == SenderContext(table, i, time)
            q == AddContext(p, c)
<1>1. /\ c.key # None => c \in Context
      /\ IsSender(c) /\ c.index = i /\ (Loadable(table, i) => UpToDate(table, {}, c))
  BY SenderTyped
<1>2. i \in Nat /\ p \in Pools /\ p.list \in Lists
  BY ContextsAssumption DEF Building, Slot, Pools
<1>3. \A n \in 1 .. Len(p.list) : p.list[n].index \in Nat
  <2>1. \A n \in 1 .. Len(p.list) : p.list[n] \in Context
    BY <1>2, ListTyped
  <2>. QED BY <2>1, ContextsAssumption DEF Context, Slot
<1>4. \A n \in 1 .. Len(p.list) : IsSender(p.list[n]) =>
        p.list[n].index < i /\ p.list[n].index <= i
  BY <1>2, <1>3 DEF Building
<1>5. Building(table, i, p)
  BY <1>4 DEF Building
<1>. HIDE DEF c
<1>6. /\ q \in Pools /\ (Adds(p, c) => q.list = Append(p.list, c) /\ c \in Context)
      /\ (~Adds(p, c) => q.list = p.list)
  BY <1>1, <1>2, ContextAdded
<1>. HIDE DEF q
<1>7. CASE ~Adds(p, c)
  <2>1. Building(table, i, q)
    BY <1>5, <1>6, <1>7 DEF Building
  <2>. QED BY <1>5, <2>1 DEF q, c
<1>8. CASE Adds(p, c) /\ Loadable(table, i)
  <2>. DEFINE a == Append(p.list, c)
              m == Len(p.list)
  <2>1. c \in Context /\ q.list = a /\ m \in Nat
    BY <1>2, <1>6, <1>8, ListTyped
  <2>2. \A n \in 1 .. m : Apart(p.list[n], c)
    <3>1. \A n \in 1 .. m : IsSender(p.list[n]) => p.list[n].index # c.index
      BY <1>1, <1>2, <1>3, <1>4
    <3>. QED BY <1>1, <3>1 DEF Apart
  <2>3. /\ Len(a) = m + 1 /\ a[m + 1] = c /\ \A n \in 1 .. m : a[n] = p.list[n]
        /\ Unique(a) /\ OneRole(a) /\ Current(table, {}, a)
    BY <1>1, <1>2, <1>5, <1>8, <2>1, <2>2, AppendKeeps DEF Building
  <2>. HIDE DEF a, m
  <2>4. \A n \in 1 .. m + 1 : n \in 1 .. m \/ n = m + 1
    BY <2>1
  <2>5. \A n \in 1 .. Len(a) : IsSender(a[n]) => a[n].index <= i
    <3>1. c.index <= i
      BY <1>1, <1>2
    <3>. QED BY <1>4, <2>3, <2>4, <3>1 DEF m
  <2>6. Building(table, i, q)
    BY <1>6, <2>1, <2>3, <2>5 DEF Building
  <2>. QED BY <1>8, <2>6 DEF q, c
<1>. QED BY <1>5, <1>7, <1>8

(* The contexts built again: one for each token at most, as the token is.  *)
LEMMA RebuiltCurrent ==
  ASSUME NEW pool \in Pools, NEW table \in [Slot -> Token],
         Unique(pool.list), OneRole(pool.list)
  PROVE  /\ Rebuilt(pool, table) \in Pools /\ Unique(Rebuilt(pool, table).list)
         /\ OneRole(Rebuilt(pool, table).list)
         /\ Current(table, {}, Rebuilt(pool, table).list)
<1>. DEFINE n == NumEntries
            time == NextUse(pool.list)
            base == [pool EXCEPT !.list = FreeSenders(@)]
            Built(p, i) == IF Loadable(table, i)
                           THEN AddContext(p, SenderContext(table, i, time)) ELSE p
            step == [x \in Pools \X (1 .. n) |-> Built(x[1], x[2])]
            built == CHOOSE f : f = [i \in 0 .. n |->
                       IF i = 0 THEN base ELSE Built(f[i - 1], i)]
<1>1. /\ n \in Nat /\ Slot = 1 .. n /\ pool.list \in Lists
      /\ pool \in [list : Lists, leaked : Nat] /\ time \in Nat
      /\ Len(pool.list) + pool.leaked <= PoolSize /\ PoolSize \in Nat
  BY NextUseTyped, ContextsAssumption DEF Slot, Pools
<1>2. Building(table, 0, base)
  <2>. DEFINE keep == {k \in DOMAIN pool.list : ~IsSender(pool.list[k])}
              a == Kept(pool.list, keep)
  <2>1. base = [pool EXCEPT !.list = a]
    BY DEF FreeSenders
  <2>2. \A k \in keep : ~IsSender(pool.list[k])
    OBVIOUS
  <2>. HIDE DEF keep, base
  <2>3. /\ a \in Lists /\ PartOf(a, pool.list) /\ Len(a) <= Len(pool.list)
        /\ \A k \in 1 .. Len(a) :
             \E j \in 1 .. Len(pool.list) : j \in keep /\ a[k] = pool.list[j]
    BY <1>1, KeptIsPart
  <2>4. \A k \in 1 .. Len(a) : ~IsSender(a[k])
    BY <2>2, <2>3
  <2>. HIDE DEF a
  <2>5. Unique(a) /\ OneRole(a)
    BY <1>1, <2>3, PartKeeps
  <2>6. Current(table, {}, a)
    BY <2>4 DEF Current, UpToDate
  <2>7. base \in Pools /\ base.list = a
    <3>1. base \in [list : Lists, leaked : Nat] /\ base.list = a /\ base.leaked = pool.leaked
      BY <1>1, <2>1, <2>3
    <3>2. Len(a) \in Nat /\ Len(pool.list) \in Nat
      BY <1>1, <2>3, ListTyped
    <3>3. Len(a) + pool.leaked <= PoolSize
      BY <1>1, <2>3, <3>2
    <3>. QED BY <3>1, <3>3 DEF Pools
  <2>. QED BY <2>4, <2>5, <2>6, <2>7 DEF Building
<1>3. base \in Pools
  BY <1>2 DEF Building
<1>4. \A p \in Pools, i \in 1 .. n : Built(p, i) \in Pools
  <2>. SUFFICES ASSUME NEW p \in Pools, NEW i \in 1 .. n PROVE Built(p, i) \in Pools
    OBVIOUS
  <2>. DEFINE c == SenderContext(table, i, time)
  <2>1. c.key # None => c \in Context
    BY <1>1, SenderTyped
  <2>2. AddContext(p, c) \in Pools
    <3>. HIDE DEF c
    <3>. QED BY <2>1, ContextAdded
  <2>. QED BY <2>2
<1>5. Rebuilt(pool, table) = [built[n] EXCEPT !.list = Ranked(@)]
  BY DEF Rebuilt
<1>6. \A p, i : Building(table, i - 1, p) /\ i \in 1 .. n => Building(table, i, Built(p, i))
  BY <1>1, SenderBuilt
<1>. HIDE DEF n, base, Built
<1>7. /\ step \in [Pools \X (1 .. n) -> Pools]
      /\ \A p \in Pools, i \in 1 .. n : step[<<p, i>>] = Built(p, i)
  BY <1>4
<1>. HIDE DEF step, built
<1>8. PICK f \in [0 .. n -> Pools] : f[0] = base /\ \A i \in 1 .. n : f[i] = step[<<f[i - 1], i>>]
  <2>1. Runs(n, Pools, base, step)
    BY <1>1, <1>3, <1>7, Iterates
  <2>. QED BY <2>1 DEF Runs
<1>9. \A i \in 1 .. n : i - 1 \in 0 .. n /\ f[i - 1] \in Pools /\ f[i] = Built(f[i - 1], i)
  <2>. SUFFICES ASSUME NEW i \in 1 .. n
                PROVE  i - 1 \in 0 .. n /\ f[i - 1] \in Pools /\ f[i] = Built(f[i - 1], i)
    OBVIOUS
  <2>1. i - 1 \in 0 .. n
    BY <1>1
  <2>. QED BY <1>7, <1>8, <2>1
<1>10. f = [i \in 0 .. n |-> IF i = 0 THEN base ELSE Built(f[i - 1], i)]
  <2>1. \A i \in 0 .. n : i = 0 \/ i \in 1 .. n
    BY <1>1
  <2>2. \A i \in 0 .. n : f[i] = IF i = 0 THEN base ELSE Built(f[i - 1], i)
    BY <1>8, <1>9, <2>1
  <2>3. f = [i \in 0 .. n |-> f[i]]
    BY <1>8
  <2>. QED BY <2>2, <2>3
<1>11. built = [i \in 0 .. n |-> IF i = 0 THEN base ELSE Built(built[i - 1], i)]
  BY <1>10 DEF built
<1>12. built[0] = base /\ \A i \in 1 .. n : built[i] = Built(built[i - 1], i)
  BY <1>1, <1>11
<1>. DEFINE T == {i \in 0 .. n : Building(table, i, built[i])}
<1>13. 0 \in T
  BY <1>1, <1>2, <1>12
<1>14. ASSUME NEW i \in 1 .. n, i - 1 \in T PROVE i \in T
  <2>1. Building(table, i - 1, built[i - 1])
    BY <1>14
  <2>2. Building(table, i, Built(built[i - 1], i))
    BY <1>6, <2>1
  <2>3. i \in 0 .. n
    BY <1>1
  <2>. QED BY <1>12, <2>2, <2>3
<1>. HIDE DEF T
<1>15. \A i \in 0 .. n : i \in T
  BY <1>1, <1>13, <1>14, UpTo
<1>16. n \in T
  BY <1>1, <1>15
<1>17. Building(table, n, built[n])
  BY <1>16 DEF T
<1>. DEFINE q == built[n]
            a == Ranked(q.list)
<1>18. /\ q \in [list : Lists, leaked : Nat] /\ q.list \in Lists
       /\ Len(q.list) + q.leaked <= PoolSize
       /\ Unique(q.list) /\ OneRole(q.list) /\ Current(table, {}, q.list)
  BY <1>17 DEF Building, Pools
<1>19. Rebuilt(pool, table) = [q EXCEPT !.list = a]
  BY <1>5
<1>. HIDE DEF q
<1>20. Renewed(a, q.list)
  BY <1>18, RankedRenews
<1>. HIDE DEF a
<1>21. a \in Lists /\ Len(a) = Len(q.list) /\ PartOf(a, q.list)
  BY <1>18, <1>20, RenewedIsPart DEF Renewed
<1>22. Unique(a) /\ OneRole(a) /\ Current(table, {}, a)
  BY <1>18, <1>21, PartKeeps
<1>23. /\ Rebuilt(pool, table) \in [list : Lists, leaked : Nat]
       /\ Rebuilt(pool, table).list = a /\ Rebuilt(pool, table).leaked = q.leaked
  BY <1>18, <1>19, <1>21
<1>. QED BY <1>18, <1>21, <1>22, <1>23 DEF Pools

-----------------------------------------------------------------------------
(* The table and its files.                                                *)
Files == [Slot -> Token \cup {NoFile}]

InFiles(table, files) ==
  \A i \in Slot :
    IF table[i].id # None THEN files[i] = table[i]
    ELSE files[i] = NoFile \/ files[i].id = None

LEMMA SlotTyped == Slot \in SUBSET Nat /\ 0 \notin Slot
BY ContextsAssumption DEF Slot

LEMMA IndexIsSlot ==
  ASSUME NEW table, NEW id
  PROVE  IndexFor(table, id) = 0 \/ IndexFor(table, id) \in Slot
<1>1. \A x : IndexOf(table, x) = 0 \/ IndexOf(table, x) \in Slot
  <2>. SUFFICES ASSUME NEW x PROVE IndexOf(table, x) = 0 \/ IndexOf(table, x) \in Slot
    OBVIOUS
  <2>. DEFINE S == WithId(table, x)
  <2>1. S \subseteq Slot /\ S \in SUBSET Nat
    BY SlotTyped DEF WithId
  <2>2. IndexOf(table, x) = IF S = {} THEN 0 ELSE Min(S)
    BY DEF IndexOf
  <2>. HIDE DEF S
  <2>3. S # {} => Min(S) \in S
    BY <2>1, LeastNumber
  <2>. QED BY <2>1, <2>2, <2>3
<1>. QED BY <1>1 DEF IndexFor

LEMMA EmptyTyped ==
  /\ EmptyToken \in Token
  /\ \A token \in Token : /\ Cleared(token) \in Token
                          /\ Cleared(token).id = None
<1>1. EmptyToken \in Token
  BY DEF EmptyToken, Token, Scopes
<1>2. ASSUME NEW token \in Token
      PROVE  Cleared(token) \in Token /\ Cleared(token).id = None
  <2>1. token.ga \in SUBSET GroupAddresses
    BY DEF Token
  <2>. QED BY <1>1, <2>1 DEF Cleared, EmptyToken, Token
<1>. QED BY <1>1, <1>2

LEMMA WrittenTyped ==
  ASSUME NEW token \in Token, NEW o \in Objects, "id" \in DOMAIN o
  PROVE  /\ Written(token, o) \in Token /\ Written(token, o).id # None
         /\ DOMAIN o \cap {"osc", "key", "ctx"} = {} =>
              /\ Written(token, o).osc = token.osc
              /\ Written(token, o).key = token.key
              /\ Written(token, o).ctx = token.ctx
<1>. DEFINE w == Written(token, o)
<1>1. o.id \in TokenIds /\ o.id # None
  BY ObjectsAssumption DEF TokenIds
<1>2. /\ "osc" \in DOMAIN o => o.osc \in Kids \cup {None}
      /\ "key" \in DOMAIN o => o.key \in Keys \cup {None}
      /\ "ctx" \in DOMAIN o => o.ctx \in KidCtxs \cup {None}
      /\ "ga" \in DOMAIN o => o.ga \in SUBSET GroupAddresses
      /\ "scope" \in DOMAIN o => o.scope \in Scopes
      /\ "profile" \in DOMAIN o => o.profile \in BOOLEAN
  BY ObjectsAssumption
<1>3. /\ token.osc \in Kids \cup {None} /\ token.key \in Keys \cup {None}
      /\ token.ctx \in KidCtxs \cup {None} /\ token.ga \in SUBSET GroupAddresses
      /\ token.scope \in Scopes /\ token.profile \in BOOLEAN
  BY DEF Token
<1>4. /\ DOMAIN w = Fields /\ w = [f \in Fields |-> w[f]] /\ w.id = o.id
      /\ w.osc = IF "osc" \in DOMAIN o THEN o.osc ELSE token.osc
      /\ w.key = IF "key" \in DOMAIN o THEN o.key ELSE token.key
      /\ w.ctx = IF "ctx" \in DOMAIN o THEN o.ctx ELSE token.ctx
      /\ w.ga = IF "ga" \in DOMAIN o THEN o.ga ELSE token.ga
      /\ w.scope = IF "ga" \in DOMAIN o THEN "g"
                   ELSE IF "scope" \in DOMAIN o THEN o.scope ELSE token.scope
  BY DEF Written, Fields
<1>5. w.profile \in BOOLEAN
  <2>1. w.profile = IF "profile" \in DOMAIN o THEN o["profile"] ELSE token["profile"]
    BY Zenon DEF Written, Fields
  <2>. QED BY <1>2, <1>3, <2>1
<1>6. "g" \in Scopes
  BY DEF Scopes
<1>. HIDE DEF w
<1>7. w \in Token
  <2>1. /\ w.id \in TokenIds \cup {None} /\ w.osc \in Kids \cup {None}
        /\ w.key \in Keys \cup {None} /\ w.ctx \in KidCtxs \cup {None}
        /\ w.ga \in SUBSET GroupAddresses /\ w.scope \in Scopes
    BY <1>1, <1>2, <1>3, <1>4, <1>6
  <2>. QED BY <1>4, <1>5, <2>1 DEF Token, Fields
<1>8. DOMAIN o \cap {"osc", "key", "ctx"} = {} =>
        w.osc = token.osc /\ w.key = token.key /\ w.ctx = token.ctx
  BY <1>4
<1>. QED BY <1>1, <1>4, <1>7, <1>8 DEF w

(* A POST, object by object: files and table go together, and the one      *)
(* object that leaves the contexts alone leaves what they are made of.     *)
PostState ==
  [at : [Slot -> Token], stored : Files, changed : BOOLEAN, other : BOOLEAN,
   scope : BOOLEAN, refused : BOOLEAN]

SameKeys(old, new) ==
  \A i \in Slot : old[i].id # None =>
    /\ new[i].id # None /\ new[i].osc = old[i].osc
    /\ new[i].ctx = old[i].ctx /\ new[i].key = old[i].key

LEMMA FilesWritten ==
  ASSUME NEW table \in [Slot -> Token], NEW files \in Files, InFiles(table, files),
         NEW i \in Slot, NEW token \in Token, NEW file \in Token \cup {NoFile},
         IF token.id # None THEN file = token ELSE file = NoFile \/ file.id = None
  PROVE  /\ [table EXCEPT ![i] = token] \in [Slot -> Token]
         /\ [files EXCEPT ![i] = file] \in Files
         /\ InFiles([table EXCEPT ![i] = token], [files EXCEPT ![i] = file])
BY DEF Files, InFiles

LEMMA ObjectPosted ==
  ASSUME NEW s \in PostState, InFiles(s.at, s.stored), NEW o \in Objects
  PROVE  /\ PostObject(s, o) \in PostState
         /\ InFiles(PostObject(s, o).at, PostObject(s, o).stored)
         /\ PostObject(s, o).refused => PostObject(s, o).at = s.at
         /\ ~s.scope /\ ScopeOnly(PostObject(s, o)) /\ ~PostObject(s, o).refused =>
              SameKeys(s.at, PostObject(s, o).at)
<1>. DEFINE r == PostObject(s, o)
            i == IndexFor(s.at, o.id)
<1>1. /\ s.at \in [Slot -> Token] /\ s.stored \in Files /\ s.changed \in BOOLEAN
      /\ s.other \in BOOLEAN /\ s.scope \in BOOLEAN /\ s.refused \in BOOLEAN
  BY DEF PostState
<1>2. CASE s.refused \/ "id" \notin DOMAIN o \/ i = 0
  <2>1. r = [s EXCEPT !.refused = TRUE]
    BY <1>2 DEF PostObject
  <2>2. /\ r \in PostState /\ r.at = s.at /\ r.stored = s.stored /\ r.refused
    BY <2>1 DEF PostState
  <2>. QED BY <2>2
<1>3. CASE ~s.refused /\ "id" \in DOMAIN o /\ i # 0
  <2>. DEFINE old == s.at[i]
              entry == IF IdOnly(o) THEN Cleared(old) ELSE Written(old, o)
              file == IF IdOnly(o) THEN NoFile ELSE entry
              table == [s.at EXCEPT ![i] = entry]
              files == [s.stored EXCEPT ![i] = file]
              changed == old.id # None
              other == s.other \/ DOMAIN o \cap {"osc", "key", "ctx"} # {}
              scope == s.scope \/ "scope" \in DOMAIN o
  <2>1. r = [at |-> table, stored |-> files, changed |-> changed,
             other |-> other, scope |-> scope, refused |-> FALSE]
    BY <1>3, Zenon DEF PostObject
  <2>2. i \in Slot
    BY <1>3, IndexIsSlot
  <2>3. old \in Token
    BY <1>1, <2>2
  <2>4. /\ entry \in Token
        /\ IdOnly(o) => entry.id = None
        /\ ~IdOnly(o) => entry.id # None
    BY <1>3, <2>3, EmptyTyped, WrittenTyped
  <2>5. /\ file \in Token \cup {NoFile}
        /\ IF entry.id # None THEN file = entry ELSE file = NoFile \/ file.id = None
    BY <2>4
  <2>6. changed \in BOOLEAN /\ other \in BOOLEAN /\ scope \in BOOLEAN
    BY Zenon
  <2>7. IdOnly(o) => ~("scope" \in DOMAIN o)
    BY DEF IdOnly
  <2>8. ~other /\ ~IdOnly(o) =>
          entry.osc = old.osc /\ entry.key = old.key /\ entry.ctx = old.ctx
    BY <1>3, <2>3, WrittenTyped
  <2>9. other = (s.other \/ DOMAIN o \cap {"osc", "key", "ctx"} # {})
    OBVIOUS
  <2>10. scope => s.scope \/ "scope" \in DOMAIN o
    OBVIOUS
  <2>. HIDE DEF r, i, entry, file, changed, other, scope
  <2>11. /\ table \in [Slot -> Token] /\ files \in Files /\ InFiles(table, files)
    BY <1>1, <2>2, <2>4, <2>5, FilesWritten
  <2>12. ~s.scope /\ scope /\ ~other => SameKeys(s.at, table)
    <3>. SUFFICES ASSUME ~s.scope, scope, ~other, NEW k \in Slot, s.at[k].id # None
                  PROVE  /\ table[k].id # None /\ table[k].osc = s.at[k].osc
                         /\ table[k].ctx = s.at[k].ctx /\ table[k].key = s.at[k].key
      BY DEF SameKeys
    <3>1. ~IdOnly(o)
      BY <2>7, <2>10
    <3>2. CASE k = i
      BY <1>1, <2>2, <2>4, <2>8, <3>1, <3>2
    <3>3. CASE k # i
      BY <1>1, <2>2, <3>3
    <3>. QED BY <3>2, <3>3
  <2>. HIDE DEF table, files
  <2>13. /\ r \in PostState /\ r.at = table /\ r.stored = files /\ ~r.refused
         /\ r.scope = scope /\ r.other = other
    BY <2>1, <2>6, <2>11 DEF PostState
  <2>. QED BY <2>11, <2>12, <2>13 DEF ScopeOnly, r
<1>. QED BY <1>2, <1>3, <1>1

LEMMA PayloadPosted ==
  ASSUME NEW post \in Posts, at \in [Slot -> Token], stored \in Files,
         InFiles(at, stored)
  PROVE  /\ Posted(post) \in PostState /\ InFiles(Posted(post).at, Posted(post).stored)
         /\ Len(post) <= 1 =>
              /\ Posted(post).refused => Posted(post).at = at
              /\ ScopeOnly(Posted(post)) /\ ~Posted(post).refused =>
                   SameKeys(at, Posted(post).at)
<1>. DEFINE n == Len(post)
            S == {s \in PostState : InFiles(s.at, s.stored)}
            base == [at |-> at, stored |-> stored, changed |-> FALSE,
                     other |-> FALSE, scope |-> FALSE, refused |-> FALSE]
            step == [x \in S \X (1 .. n) |-> PostObject(x[1], post[x[2]])]
            acc == CHOOSE f : f = [i \in 0 .. n |->
                     IF i = 0 THEN base ELSE PostObject(f[i - 1], post[i])]
<1>1. n \in Nat /\ \A i \in 1 .. n : post[i] \in Objects
  BY ObjectsAssumption
<1>2. base \in S /\ base.at = at /\ ~base.scope /\ ~base.refused
  BY DEF PostState
<1>3. \A s \in S, i \in 1 .. n : PostObject(s, post[i]) \in S
  BY <1>1, ObjectPosted
<1>4. Posted(post) = acc[n]
  BY DEF Posted
<1>. HIDE DEF n, S, base
<1>5. /\ step \in [S \X (1 .. n) -> S]
      /\ \A s \in S, i \in 1 .. n : step[<<s, i>>] = PostObject(s, post[i])
  BY <1>3
<1>. HIDE DEF step, acc
<1>6. PICK f \in [0 .. n -> S] : f[0] = base /\ \A i \in 1 .. n : f[i] = step[<<f[i - 1], i>>]
  <2>1. Runs(n, S, base, step)
    BY <1>1, <1>2, <1>5, Iterates
  <2>. QED BY <2>1 DEF Runs
<1>7. \A i \in 1 .. n : i - 1 \in 0 .. n /\ f[i - 1] \in S
                        /\ f[i] = PostObject(f[i - 1], post[i])
  <2>. SUFFICES ASSUME NEW i \in 1 .. n
                PROVE  /\ i - 1 \in 0 .. n /\ f[i - 1] \in S
                       /\ f[i] = PostObject(f[i - 1], post[i])
    OBVIOUS
  <2>1. i - 1 \in 0 .. n
    BY <1>1
  <2>. QED BY <1>5, <1>6, <2>1
<1>8. \A i \in 0 .. n : i = 0 \/ i \in 1 .. n
  BY <1>1
<1>9. f = [i \in 0 .. n |-> IF i = 0 THEN base ELSE PostObject(f[i - 1], post[i])]
  <2>1. \A i \in 0 .. n : f[i] = IF i = 0 THEN base ELSE PostObject(f[i - 1], post[i])
    BY <1>6, <1>7, <1>8
  <2>2. f = [i \in 0 .. n |-> f[i]]
    BY <1>6
  <2>. QED BY <2>1, <2>2
<1>10. acc = [i \in 0 .. n |-> IF i = 0 THEN base ELSE PostObject(acc[i - 1], post[i])]
  BY <1>9 DEF acc
<1>11. 0 \in 0 .. n /\ 0 \notin 1 .. n /\ \A i \in 1 .. n : i \in 0 .. n /\ i # 0
  BY <1>1
<1>12. acc[0] = base /\ \A i \in 1 .. n : acc[i] = PostObject(acc[i - 1], post[i])
  BY <1>10, <1>11
<1>. DEFINE T == {i \in 0 .. n : acc[i] \in S}
<1>13. 0 \in T
  BY <1>2, <1>11, <1>12
<1>14. ASSUME NEW i \in 1 .. n, i - 1 \in T PROVE i \in T
  BY <1>3, <1>11, <1>12, <1>14
<1>. HIDE DEF T
<1>15. \A i \in 0 .. n : i \in T
  BY <1>1, <1>13, <1>14, UpTo
<1>16. n \in T
  BY <1>1, <1>15
<1>17. Posted(post) \in PostState /\ InFiles(Posted(post).at, Posted(post).stored)
  BY <1>4, <1>16 DEF T, S
<1>18. ASSUME n <= 1
       PROVE  /\ Posted(post).refused => Posted(post).at = at
              /\ ScopeOnly(Posted(post)) /\ ~Posted(post).refused =>
                   SameKeys(at, Posted(post).at)
  <2>1. CASE n = 0
    <3>1. Posted(post) = base
      BY <1>4, <1>12, <2>1
    <3>. QED BY <1>2, <3>1 DEF ScopeOnly
  <2>2. CASE n = 1
    <3>1. 1 \in 1 .. n /\ 1 - 1 = 0
      BY <2>2
    <3>2. Posted(post) = PostObject(base, post[1]) /\ post[1] \in Objects
      BY <1>1, <1>4, <1>12, <2>2, <3>1
    <3>3. base \in PostState /\ InFiles(base.at, base.stored)
      BY <1>2 DEF S
    <3>. QED BY <1>2, <3>2, <3>3, ObjectPosted
  <2>. QED BY <1>1, <1>18, <2>1, <2>2
<1>. QED BY <1>17, <1>18 DEF n

-----------------------------------------------------------------------------
(* The two attempts to add a recipient context.                            *)
StillIn(a, b, i) == \E n \in 1 .. Len(a) : a[n] = b[i]

LEMMA AppendedOrNot ==
  ASSUME NEW p \in Pools, NEW c, c.key # None => c \in Context,
         Unique(p.list), OneRole(p.list), ~IsSender(c) => IsRecipient(c),
         \A n \in 1 .. Len(p.list) : Apart(p.list[n], c)
  PROVE  /\ AddContext(p, c) \in Pools
         /\ Unique(AddContext(p, c).list) /\ OneRole(AddContext(p, c).list)
         /\ \A table, but : Current(table, but, p.list) /\ UpToDate(table, but, c) =>
              Current(table, but, AddContext(p, c).list)
         /\ \A i \in 1 .. Len(p.list) : StillIn(AddContext(p, c).list, p.list, i)
<1>. DEFINE q == AddContext(p, c)
<1>1. /\ q \in Pools /\ p.list \in Lists
      /\ Adds(p, c) => q.list = Append(p.list, c) /\ c \in Context
      /\ ~Adds(p, c) => q.list = p.list
  BY ContextAdded DEF Pools
<1>. HIDE DEF q
<1>2. CASE ~Adds(p, c)
  BY <1>1, <1>2 DEF StillIn, q
<1>3. CASE Adds(p, c)
  <2>. DEFINE a == Append(p.list, c)
  <2>1. /\ a \in Lists /\ Len(a) = Len(p.list) + 1 /\ q.list = a
        /\ \A n \in 1 .. Len(p.list) : a[n] = p.list[n]
        /\ Unique(a) /\ OneRole(a)
        /\ \A table, but : Current(table, but, p.list) /\ UpToDate(table, but, c) =>
             Current(table, but, a)
    BY <1>1, <1>3, AppendKeeps
  <2>. HIDE DEF a
  <2>2. Len(p.list) \in Nat
    BY <1>1, ListTyped
  <2>3. \A i \in 1 .. Len(p.list) : i \in 1 .. Len(a)
    BY <2>1, <2>2
  <2>4. \A i \in 1 .. Len(p.list) : StillIn(a, p.list, i)
    BY <2>1, <2>3 DEF StillIn
  <2>. QED BY <1>1, <2>1, <2>4 DEF q
<1>. QED BY <1>2, <1>3

LEMMA AddedInTwo ==
  ASSUME NEW p \in Pools, NEW c, c.key # None => c \in Context,
         Unique(p.list), OneRole(p.list), ~IsSender(c) => IsRecipient(c),
         \A n \in 1 .. Len(p.list) : Apart(p.list[n], c)
  PROVE  /\ TryTwice(p, c) \in Pools
         /\ Unique(TryTwice(p, c).list) /\ OneRole(TryTwice(p, c).list)
         /\ \A table, but : Current(table, but, p.list) /\ UpToDate(table, but, c) =>
              Current(table, but, TryTwice(p, c).list)
         /\ AddsInTwo(p, c) =>
              \A i \in 1 .. Len(p.list) :
                i # LruIndex(p.list) => StillIn(TryTwice(p, c).list, p.list, i)
         /\ ~AddsInTwo(p, c) /\ c.key # None => TryTwice(p, c).leaked = PoolSize
<1>. DEFINE q == TryTwice(p, c)
            r == AddContext(p, c)
            f == FreeLru(r)
<1>1. /\ r \in Pools /\ p.list \in Lists /\ (Full(p) => r = p)
      /\ ~Adds(p, c) => r.list = p.list
  BY ContextAdded DEF Pools
<1>2. CASE Adds(p, c)
  <2>1. q = r /\ AddsInTwo(p, c)
    BY <1>2 DEF TryTwice, AddsInTwo
  <2>. HIDE DEF q, r, f
  <2>. QED BY <2>1, AppendedOrNot DEF q, r
<1>3. CASE ~Adds(p, c)
  <2>1. /\ q = AddContext(f, c) /\ r.list = p.list
        /\ AddsInTwo(p, c) <=> Adds(f, c)
    <3>1. q = AddContext(f, c)
      BY <1>3 DEF TryTwice
    <3>2. AddsInTwo(p, c) <=> Adds(f, c)
      BY <1>3, Zenon DEF AddsInTwo
    <3>. HIDE DEF q, r, f
    <3>3. r.list = p.list
      BY <1>1, <1>3
    <3>. QED BY <3>1, <3>2, <3>3
  <2>. HIDE DEF q, r
  <2>2. /\ f \in Pools /\ PartOf(f.list, p.list) /\ (p.list # <<>> => ~Full(f))
        /\ (p.list = <<>> => f = r)
        /\ \A i \in 1 .. Len(p.list) : i # LruIndex(p.list) => StillIn(f.list, p.list, i)
    <3>1. CASE p.list = <<>>
      <4>1. f = r
        BY <2>1, <3>1 DEF FreeLru
      <4>. HIDE DEF f
      <4>2. Renewed(f.list, p.list)
        BY <1>1, <2>1, <4>1 DEF Renewed, Alike
      <4>3. \A i \in 1 .. Len(p.list) : StillIn(f.list, p.list, i)
        BY <2>1, <4>1 DEF StillIn
      <4>. QED BY <1>1, <3>1, <4>1, <4>2, <4>3, RenewedIsPart
    <3>2. CASE p.list # <<>>
      BY <1>1, <2>1, <3>2, ContextFreed DEF StillIn
    <3>. QED BY <3>1, <3>2
  <2>. HIDE DEF f
  <2>3. f.list \in Lists
    BY <2>2 DEF Pools
  <2>4. /\ Unique(f.list) /\ OneRole(f.list)
        /\ \A table, but : Current(table, but, p.list) => Current(table, but, f.list)
    BY <1>1, <2>2, <2>3, PartKeeps
  <2>5. \A n \in 1 .. Len(f.list) : Apart(f.list[n], c)
    <3>1. PICK o \in [1 .. Len(f.list) -> 1 .. Len(p.list)] :
            \A j \in 1 .. Len(f.list) : Alike(f.list[j], p.list[o[j]])
      BY <2>2 DEF PartOf
    <3>2. ASSUME NEW n \in 1 .. Len(f.list) PROVE Apart(f.list[n], c)
      <4>1. Apart(p.list[o[n]], c)
        BY <3>1
      <4>. QED BY <3>1, <4>1 DEF Apart, Alike, IsSender
    <3>. QED BY <3>2
  <2>6. /\ q \in Pools /\ Unique(q.list) /\ OneRole(q.list)
        /\ \A table, but : Current(table, but, f.list) /\ UpToDate(table, but, c) =>
             Current(table, but, q.list)
        /\ \A i \in 1 .. Len(f.list) : StillIn(q.list, f.list, i)
    BY <2>1, <2>2, <2>4, <2>5, AppendedOrNot
  <2>7. \A i \in 1 .. Len(p.list) : i # LruIndex(p.list) => StillIn(q.list, p.list, i)
    BY <2>2, <2>6 DEF StillIn
  <2>8. ASSUME ~AddsInTwo(p, c), c.key # None PROVE q.leaked = PoolSize
    <3>1. ~Adds(f, c)
      BY <2>1, <2>8
    <3>2. Full(f) /\ Full(p)
      BY <1>3, <2>8, <3>1 DEF Adds
    <3>3. p.list = <<>> /\ f = p
      BY <1>1, <2>2, <3>2
    <3>4. p.leaked = PoolSize
      <4>1. Len(p.list) = 0 /\ p.leaked \in Nat
        BY <3>3 DEF Pools
      <4>. QED BY <3>2, <4>1 DEF Full
    <3>5. q = p
      BY <2>1, <3>2, <3>3 DEF AddContext
    <3>. QED BY <3>4, <3>5
  <2>. QED BY <2>4, <2>6, <2>7, <2>8 DEF q
<1>. QED BY <1>2, <1>3

-----------------------------------------------------------------------------
(* The invariant: a context has one role, no two contexts of a role are    *)
(* for the same peer or entry, and the files hold the table.               *)
PoolInv ==
  /\ TypeOK /\ Unique(contexts) /\ OneRole(contexts) /\ InFiles(at, stored)

LEMMA PoolTyped ==
  ASSUME TypeOK
  PROVE  /\ Pool \in Pools /\ Pool.list = contexts /\ contexts \in Lists
         /\ at \in [Slot -> Token] /\ stored \in Files
         /\ Len(contexts) \in Nat /\ leaked \in Nat
         /\ DOMAIN contexts = 1 .. Len(contexts)
<1>1. contexts \in Lists /\ leaked \in Nat /\ Len(contexts) + leaked <= PoolSize
  BY DEF TypeOK, Lists
<1>2. Pool = [list |-> contexts, leaked |-> leaked]
  BY DEF Pool
<1>. QED BY <1>1, <1>2, ListTyped DEF Pools, TypeOK, Files

LEMMA EmptyPoolTyped ==
  /\ EmptyPool \in Pools /\ Unique(EmptyPool.list) /\ OneRole(EmptyPool.list)
  /\ \A table, but : Current(table, but, <<>>)
<1>1. EmptyPool.list = <<>> /\ <<>> \in Lists /\ Len(<<>>) = 0 /\ \A n \in 1 .. 0 : FALSE
  BY DEF EmptyPool, Lists
<1>2. EmptyPool \in Pools
  BY <1>1, ContextsAssumption DEF EmptyPool, Pools
<1>. QED BY <1>1, <1>2 DEF Unique, OneRole, Current

(* A step that leaves a part of the list, or builds it again.              *)
LEMMA PartLeft ==
  ASSUME PoolInv, contexts' \in Lists, PartOf(contexts', contexts),
         Len(contexts') <= Len(contexts), leaked' = leaked
  PROVE  /\ contexts' \in Seq(Context) /\ leaked' \in Nat
         /\ Len(contexts') + leaked' <= PoolSize
         /\ Unique(contexts') /\ OneRole(contexts')
         /\ \A table, but : Current(table, but, contexts) => Current(table, but, contexts')
<1>1. /\ contexts \in Lists /\ Len(contexts) + leaked <= PoolSize /\ leaked \in Nat
      /\ PoolSize \in Nat
  BY ContextsAssumption DEF PoolInv, TypeOK, Lists
<1>2. Len(contexts) \in Nat /\ Len(contexts') \in Nat
  BY <1>1, ListTyped
<1>3. Len(contexts') + leaked' <= PoolSize
  BY <1>1, <1>2
<1>. QED BY <1>1, <1>3, PartKeeps DEF PoolInv, Lists

LEMMA ListUsed ==
  ASSUME PoolInv, NEW n \in 0 .. Len(contexts), Use(n), leaked' = leaked
  PROVE  /\ contexts' \in Seq(Context) /\ leaked' \in Nat
         /\ Len(contexts') + leaked' <= PoolSize
         /\ Unique(contexts') /\ OneRole(contexts')
         /\ Renewed(contexts', contexts)
         /\ \A table, but : Current(table, but, contexts) => Current(table, but, contexts')
<1>1. contexts \in Lists /\ Len(contexts) \in Nat
  BY PoolTyped DEF PoolInv
<1>2. Renewed(contexts', contexts)
  <2>1. CASE n = 0
    BY <1>1, <2>1 DEF Use, Renewed, Alike
  <2>2. CASE n # 0
    <3>1. n \in 1 .. Len(contexts) /\ contexts' = Touch(contexts, n)
      BY <1>1, <2>2 DEF Use
    <3>. QED BY <1>1, <3>1, TouchRenews
  <2>. QED BY <2>1, <2>2
<1>3. /\ contexts' \in Lists /\ PartOf(contexts', contexts)
      /\ Len(contexts') <= Len(contexts)
  <2>1. PartOf(contexts', contexts)
    BY <1>1, <1>2, RenewedIsPart
  <2>. QED BY <1>1, <1>2, <2>1 DEF Renewed
<1>. QED BY <1>2, <1>3, PartLeft

LEMMA PoolLeft ==
  ASSUME NEW pool \in Pools, NEW table, Unique(pool.list), OneRole(pool.list),
         Current(table, {}, pool.list), SetPool(pool)
  PROVE  /\ contexts' \in Seq(Context) /\ leaked' \in Nat
         /\ Len(contexts') + leaked' <= PoolSize
         /\ Unique(contexts') /\ OneRole(contexts') /\ Current(table, {}, contexts')
<1>1. contexts' = pool.list /\ leaked' = pool.leaked
  BY DEF SetPool
<1>2. pool.list \in Lists /\ pool.leaked \in Nat /\ Len(pool.list) + pool.leaked <= PoolSize
  BY DEF Pools
<1>. QED BY <1>1, <1>2 DEF Lists

LEMMA NothingTyped ==
  Nothing \in [outcome : Outcome, kid : Kids \cup {None}] /\ Nothing.outcome = "none"
BY DEF Nothing, Outcome

(* The positions the lookups return.                                       *)
LEMMA FirstFound ==
  ASSUME NEW n \in Nat, NEW I \in SUBSET (1 .. n)
  PROVE  /\ (IF I # {} THEN Min(I) ELSE 0) \in 0 .. n
         /\ (IF I # {} THEN Min(I) ELSE 0) # 0 => Min(I) \in I
         /\ (IF I # {} THEN Min(I) ELSE 0) = 0 => I = {}
<1>1. I \in SUBSET Nat
  OBVIOUS
<1>2. I # {} => Min(I) \in I
  BY <1>1, LeastNumber
<1>3. CASE I = {}
  BY <1>3
<1>4. CASE I # {}
  <2>. DEFINE k == Min(I)
  <2>1. k \in I /\ (IF I # {} THEN k ELSE 0) = k
    BY <1>2, <1>4
  <2>. HIDE DEF k
  <2>2. k \in 1 .. n /\ k # 0 /\ k \in 0 .. n
    BY <2>1
  <2>. QED BY <2>1, <2>2 DEF k
<1>. QED BY <1>3, <1>4

LEMMA KidCtxFound ==
  ASSUME contexts \in Lists, NEW kid, NEW ctx
  PROVE  /\ FindByKidCtx(kid, ctx) \in 0 .. Len(contexts)
         /\ FindByKidCtx(kid, ctx) = 0 =>
              \A n \in 1 .. Len(contexts) :
                ~(contexts[n].recv = kid /\ contexts[n].ctx = ctx)
<1>. DEFINE I == {n \in 1 .. Len(contexts) : contexts[n].recv = kid /\ contexts[n].ctx = ctx}
<1>1. FindByKidCtx(kid, ctx) = IF I # {} THEN Min(I) ELSE 0
  BY DEF FindByKidCtx, SelectInSeq
<1>2. Len(contexts) \in Nat /\ I \in SUBSET (1 .. Len(contexts))
  BY ListTyped
<1>3. I = {} => \A n \in 1 .. Len(contexts) :
                  ~(contexts[n].recv = kid /\ contexts[n].ctx = ctx)
  OBVIOUS
<1>. HIDE DEF I
<1>. QED BY <1>1, <1>2, <1>3, FirstFound

-----------------------------------------------------------------------------
(* Messages: the table stays, the contexts get other times of use, and one *)
(* may be added, after an eviction if need be.                             *)
Preserved ==
  PoolInv' /\ (Current(at, missed, contexts) => Current(at', missed', contexts'))

Outcomes == [outcome : Outcome, kid : Kids \cup {None}]

LEMMA UseStep ==
  ASSUME PoolInv, NEW n \in 0 .. Len(contexts), Use(n),
         UNCHANGED <<at, stored, leaked, missed>>,
         pending' \subseteq Slot, last' \in Outcomes
  PROVE  Preserved
<1>1. /\ contexts' \in Seq(Context) /\ leaked' \in Nat
      /\ Len(contexts') + leaked' <= PoolSize
      /\ Unique(contexts') /\ OneRole(contexts')
      /\ \A table, but : Current(table, but, contexts) => Current(table, but, contexts')
  BY ListUsed
<1>2. TypeOK'
  BY <1>1 DEF PoolInv, TypeOK, Outcomes
<1>3. InFiles(at', stored')
  BY DEF PoolInv
<1>4. Current(at, missed, contexts) => Current(at', missed', contexts')
  BY <1>1
<1>. QED BY <1>1, <1>2, <1>3, <1>4 DEF Preserved, PoolInv

LEMMA DecryptTyped ==
  ASSUME NEW c, NEW key, c.index \in Slot, pending \subseteq Slot, Decrypt(c, key)
  PROVE  pending' \subseteq Slot /\ last' \in Outcomes /\ last'.outcome \in {"ok", "4.00"}
BY DEF Decrypt, Outcomes, Outcome

LEMMA ReceiveKnownStep ==
  ASSUME PoolInv, NEW kid, NEW ctx, NEW key, ReceiveKnown(kid, ctx, key)
  PROVE  Preserved /\ KnownKidServed' /\ Renewed(contexts', contexts)
<1>. DEFINE n == FindByKidCtx(kid, ctx)
<1>1. /\ n # 0 /\ contexts' = Touch(contexts, n) /\ Decrypt(contexts[n], key)
      /\ UNCHANGED <<at, stored, leaked, missed>>
  BY DEF ReceiveKnown
<1>2. contexts \in Lists /\ Len(contexts) \in Nat /\ n \in 0 .. Len(contexts)
  BY PoolTyped, KidCtxFound DEF PoolInv
<1>. HIDE DEF n
<1>3. n \in 1 .. Len(contexts) /\ Use(n)
  BY <1>1, <1>2 DEF Use
<1>4. contexts[n] \in Context
  BY <1>2, <1>3, ListTyped
<1>5. contexts[n].index \in Slot
  BY <1>4 DEF Context
<1>6. pending' \subseteq Slot /\ last' \in Outcomes /\ last'.outcome \in {"ok", "4.00"}
  BY <1>1, <1>5, DecryptTyped DEF PoolInv, TypeOK
<1>7. Preserved /\ Renewed(contexts', contexts)
  BY <1>1, <1>2, <1>3, <1>6, UseStep, ListUsed
<1>. QED BY <1>6, <1>7 DEF KnownKidServed

LEMMA RecipientTyped ==
  ASSUME TypeOK, NEW kid \in Kids, NEW ctx \in KidCtxs, TokensWith(kid) # {}
  PROVE  LET c == RecipientContext(kid, ctx) IN
         /\ Min(TokensWith(kid)) \in TokensWith(kid)
         /\ c.index \in Slot /\ c.key = at[Min(TokensWith(kid))].key
         /\ c.key # None => c \in Context
         /\ ~IsSender(c) /\ IsRecipient(c) /\ c.recv = kid /\ c.ctx = ctx
<1>. DEFINE c == RecipientContext(kid, ctx)
            I == TokensWith(kid)
            i == Min(I)
<1>1. I \subseteq Slot /\ I \in SUBSET Nat
  BY SlotTyped DEF TokensWith
<1>2. c = [send |-> None, recv |-> kid, ctx |-> ctx, key |-> at[i].key,
           index |-> i, used |-> NextUse(contexts)]
  BY DEF RecipientContext
<1>. HIDE DEF c, I
<1>3. i \in I
  BY <1>1, LeastNumber DEF I
<1>4. at[i] \in Token
  BY <1>1, <1>3 DEF TypeOK
<1>5. at[i].key \in Keys \cup {None}
  BY <1>4 DEF Token
<1>6. NextUse(contexts) \in Nat
  BY NextUseTyped, PoolTyped
<1>. HIDE DEF i
<1>7. c.key # None => c \in Context
  BY <1>1, <1>2, <1>3, <1>5, <1>6 DEF Context
<1>8. ~IsSender(c) /\ IsRecipient(c)
  BY <1>2, ContextsAssumption DEF IsSender, IsRecipient
<1>. QED BY <1>1, <1>2, <1>3, <1>7, <1>8 DEF c, I, i

LEMMA ReceiveNewStep ==
  ASSUME PoolInv, NEW kid \in Kids, NEW ctx \in KidCtxs, NEW key, ReceiveNew(kid, ctx, key)
  PROVE  /\ Preserved /\ KnownKidServed'
         /\ last'.outcome \in {"ok", "4.00"} =>
              \A i \in 1 .. Len(contexts) : i # LruIndex(contexts) =>
                \E n \in 1 .. Len(contexts') : Alike(contexts'[n], contexts[i])
<1>. DEFINE c == RecipientContext(kid, ctx)
            q == TryTwice(Pool, c)
            a == Ranked(q.list)
<1>1. /\ FindByKidCtx(kid, ctx) = 0 /\ TokensWith(kid) # {}
      /\ SetPool([q EXCEPT !.list = a]) /\ UNCHANGED <<at, stored, missed>>
      /\ IF AddsInTwo(Pool, c) THEN Decrypt(c, key)
         ELSE last' = [outcome |-> "4.01", kid |-> kid] /\ UNCHANGED pending
  BY Zenon DEF ReceiveNew
<1>2. /\ Pool \in Pools /\ Pool.list = contexts /\ contexts \in Lists
      /\ Len(contexts) \in Nat /\ TypeOK
  BY PoolTyped DEF PoolInv
<1>3. /\ c.index \in Slot /\ c.key = at[Min(TokensWith(kid))].key
      /\ c.key # None => c \in Context
      /\ ~IsSender(c) /\ IsRecipient(c) /\ c.recv = kid /\ c.ctx = ctx
  BY <1>1, <1>2, RecipientTyped
<1>. HIDE DEF c
<1>4. \A n \in 1 .. Len(contexts) : Apart(contexts[n], c)
  BY <1>1, <1>2, <1>3, KidCtxFound DEF Apart
<1>5. \A table, but : UpToDate(table, but, c)
  BY <1>3 DEF UpToDate
<1>6. /\ q \in Pools /\ Unique(q.list) /\ OneRole(q.list)
      /\ \A table, but : Current(table, but, contexts) => Current(table, but, q.list)
      /\ AddsInTwo(Pool, c) =>
           \A i \in 1 .. Len(contexts) : i # LruIndex(contexts) => StillIn(q.list, contexts, i)
      /\ ~AddsInTwo(Pool, c) /\ c.key # None => q.leaked = PoolSize
  <2>1. Unique(Pool.list) /\ OneRole(Pool.list)
    BY <1>2 DEF PoolInv
  <2>. QED BY <1>2, <1>3, <1>4, <1>5, <2>1, AddedInTwo
<1>. HIDE DEF q
<1>7. /\ q \in [list : Lists, leaked : Nat] /\ q.list \in Lists
      /\ Len(q.list) + q.leaked <= PoolSize
  BY <1>6 DEF Pools
<1>8. Renewed(a, q.list)
  BY <1>7, RankedRenews
<1>. HIDE DEF a
<1>9. contexts' = a /\ leaked' = q.leaked
  BY <1>1, <1>7 DEF SetPool
<1>10. a \in Lists /\ Len(a) = Len(q.list) /\ PartOf(a, q.list)
  BY <1>7, <1>8, RenewedIsPart DEF Renewed
<1>11. /\ Unique(a) /\ OneRole(a)
       /\ \A table, but : Current(table, but, q.list) => Current(table, but, a)
  BY <1>6, <1>7, <1>10, PartKeeps
<1>12. /\ pending' \subseteq Slot /\ last' \in Outcomes
       /\ IF AddsInTwo(Pool, c) THEN last'.outcome \in {"ok", "4.00"}
          ELSE last' = [outcome |-> "4.01", kid |-> kid]
  <2>1. pending \subseteq Slot
    BY <1>2 DEF TypeOK
  <2>2. CASE AddsInTwo(Pool, c)
    BY <1>1, <1>3, <2>1, <2>2, DecryptTyped
  <2>3. CASE ~AddsInTwo(Pool, c)
    BY <1>1, <2>1, <2>3 DEF Outcomes, Outcome
  <2>. QED BY <2>2, <2>3
<1>13. TypeOK'
  BY <1>1, <1>2, <1>7, <1>9, <1>10, <1>12 DEF TypeOK, Outcomes, Lists
<1>14. Preserved
  <2>1. InFiles(at', stored')
    BY <1>1 DEF PoolInv
  <2>2. Current(at, missed, contexts) => Current(at', missed', contexts')
    BY <1>1, <1>6, <1>9, <1>11
  <2>. QED BY <1>9, <1>11, <1>13, <2>1, <2>2 DEF Preserved, PoolInv
<1>15. KnownKidServed'
  <2>. SUFFICES ASSUME last'.outcome = "4.01", c.key # None
                PROVE  leaked' = PoolSize
    <3>1. ~AddsInTwo(Pool, c) => last'.kid = kid
      BY <1>12
    <3>2. last'.outcome = "4.01" => ~AddsInTwo(Pool, c)
      BY <1>12
    <3>3. TokensWith(kid)' = TokensWith(kid)
      BY <1>1 DEF TokensWith
    <3>. QED BY <1>1, <1>3, <3>1, <3>2, <3>3 DEF KnownKidServed
  <2>. QED BY <1>6, <1>9, <1>12
<1>16. ASSUME last'.outcome \in {"ok", "4.00"}, NEW i \in 1 .. Len(contexts),
              i # LruIndex(contexts)
       PROVE  \E n \in 1 .. Len(contexts') : Alike(contexts'[n], contexts[i])
  <2>1. AddsInTwo(Pool, c)
    BY <1>12, <1>16
  <2>2. PICK n \in 1 .. Len(q.list) : q.list[n] = contexts[i]
    BY <1>6, <1>16, <2>1 DEF StillIn
  <2>. QED BY <1>8, <1>9, <1>10, <2>2 DEF Renewed
<1>. QED BY <1>14, <1>15, <1>16

LEMMA OtherMessageSteps ==
  ASSUME PoolInv,
         \/ \E i \in Slot : Respond(i)
         \/ \E kid \in Kids : Unicast(kid) \/ \E ctx \in KidCtxs : ReceiveUnknown(kid, ctx)
         \/ \E ga \in GroupAddresses : SendGroup(ga)
  PROVE  Preserved /\ KnownKidServed' /\ last'.outcome \notin {"ok", "4.00"}
<1>1. contexts \in Lists /\ Len(contexts) \in Nat /\ pending \subseteq Slot /\ TypeOK
  BY PoolTyped DEF PoolInv, TypeOK
<1>2. ASSUME NEW i \in Slot, Respond(i)
      PROVE  Preserved /\ KnownKidServed' /\ last'.outcome \notin {"ok", "4.00"}
  <2>. DEFINE byKid == IF at[i].osc = None THEN 0
                       ELSE SelectInSeq(contexts, LAMBDA c : c.recv = at[i].osc)
              byId  == SelectInSeq(contexts, IsRecipient)
              n == IF byKid # 0 THEN byKid ELSE byId
  <2>1. /\ pending' = pending \ {i} /\ Use(n) /\ last' = Nothing
        /\ UNCHANGED <<at, stored, leaked, missed>>
    BY <1>2 DEF Respond
  <2>2. byKid \in 0 .. Len(contexts) /\ byId \in 0 .. Len(contexts)
    <3>. DEFINE I == {m \in 1 .. Len(contexts) : contexts[m].recv = at[i].osc}
                J == {m \in 1 .. Len(contexts) : IsRecipient(contexts[m])}
    <3>1. /\ byKid = IF at[i].osc = None THEN 0 ELSE IF I # {} THEN Min(I) ELSE 0
          /\ byId = IF J # {} THEN Min(J) ELSE 0
      BY DEF SelectInSeq
    <3>2. I \in SUBSET (1 .. Len(contexts)) /\ J \in SUBSET (1 .. Len(contexts))
      OBVIOUS
    <3>. HIDE DEF byKid, byId, I, J
    <3>3. 0 \in 0 .. Len(contexts)
      BY <1>1
    <3>. QED BY <1>1, <3>1, <3>2, <3>3, FirstFound
  <2>. HIDE DEF byKid, byId
  <2>3. n \in 0 .. Len(contexts)
    BY <2>2
  <2>. HIDE DEF n
  <2>4. Preserved
    BY <1>1, <2>1, <2>3, UseStep, NothingTyped DEF Outcomes
  <2>. QED BY <2>1, <2>4, NothingTyped DEF KnownKidServed
<1>3. ASSUME NEW kid \in Kids, Unicast(kid)
      PROVE  Preserved /\ KnownKidServed' /\ last'.outcome \notin {"ok", "4.00"}
  <2>. DEFINE n == SelectInSeq(contexts, LAMBDA c : c.send = kid)
  <2>1. Use(n) /\ last' = Nothing /\ UNCHANGED <<at, stored, leaked, pending, missed>>
    BY <1>3 DEF Unicast
  <2>2. n \in 0 .. Len(contexts)
    <3>. DEFINE I == {m \in 1 .. Len(contexts) : contexts[m].send = kid}
    <3>1. n = IF I # {} THEN Min(I) ELSE 0
      BY DEF SelectInSeq
    <3>2. I \in SUBSET (1 .. Len(contexts))
      OBVIOUS
    <3>. HIDE DEF n, I
    <3>. QED BY <1>1, <3>1, <3>2, FirstFound
  <2>. HIDE DEF n
  <2>3. Preserved
    BY <1>1, <2>1, <2>2, UseStep, NothingTyped DEF Outcomes
  <2>. QED BY <2>1, <2>3, NothingTyped DEF KnownKidServed
<1>4. ASSUME NEW kid \in Kids, NEW ctx \in KidCtxs, ReceiveUnknown(kid, ctx)
      PROVE  Preserved /\ KnownKidServed' /\ last'.outcome \notin {"ok", "4.00"}
  <2>1. /\ TokensWith(kid) = {} /\ last' = [outcome |-> "4.01", kid |-> kid]
        /\ UNCHANGED <<at, stored, contexts, leaked, pending, missed>>
    BY <1>4 DEF ReceiveUnknown
  <2>2. Use(0) /\ 0 \in 0 .. Len(contexts) /\ last' \in Outcomes
    BY <1>1, <2>1 DEF Use, Outcomes, Outcome
  <2>3. Preserved
    BY <1>1, <2>1, <2>2, UseStep
  <2>4. TokensWith(kid)' = {} /\ last'.kid = kid
    BY <2>1 DEF TokensWith
  <2>5. KnownKidServed'
    BY <2>1, <2>4 DEF KnownKidServed
  <2>. QED BY <2>1, <2>3, <2>5
<1>5. ASSUME NEW ga \in GroupAddresses, SendGroup(ga)
      PROVE  Preserved /\ KnownKidServed' /\ last'.outcome \notin {"ok", "4.00"}
  <2>. DEFINE n == SelectInSeq(contexts, LAMBDA c : ga \in at[c.index].ga)
  <2>1. /\ Use(n) /\ UNCHANGED <<at, stored, leaked, pending, missed>>
        /\ last' = IF n = 0 THEN [outcome |-> "dropped", kid |-> None]
                   ELSE [outcome |-> "sent", kid |-> contexts[n].send]
    BY <1>5 DEF SendGroup
  <2>2. n \in 0 .. Len(contexts)
    <3>. DEFINE I == {m \in 1 .. Len(contexts) : ga \in at[contexts[m].index].ga}
    <3>1. n = IF I # {} THEN Min(I) ELSE 0
      BY DEF SelectInSeq
    <3>2. I \in SUBSET (1 .. Len(contexts))
      OBVIOUS
    <3>. HIDE DEF n, I
    <3>. QED BY <1>1, <3>1, <3>2, FirstFound
  <2>. HIDE DEF n
  <2>3. last' \in Outcomes /\ last'.outcome \in {"dropped", "sent"}
    <3>1. CASE n = 0
      BY <2>1, <3>1 DEF Outcomes, Outcome
    <3>2. CASE n # 0
      <4>1. contexts[n] \in Context
        BY <1>1, <2>2, <3>2, ListTyped
      <4>2. contexts[n].send \in Kids \cup {None}
        BY <4>1 DEF Context
      <4>. QED BY <2>1, <3>2, <4>2 DEF Outcomes, Outcome
    <3>. QED BY <3>1, <3>2
  <2>4. Preserved
    BY <1>1, <2>1, <2>2, <2>3, UseStep
  <2>. QED BY <2>3, <2>4 DEF KnownKidServed
<1>. QED BY <1>2, <1>3, <1>4, <1>5

-----------------------------------------------------------------------------
(* Requests that change the table, resets and restarts: the files follow,  *)
(* and the contexts are built again, or none of them has lost its token.   *)
LEMMA TableStep ==
  ASSUME PoolInv, at' \in [Slot -> Token], stored' \in Files, InFiles(at', stored'),
         contexts' \in Seq(Context), leaked' \in Nat,
         Len(contexts') + leaked' <= PoolSize, Unique(contexts'), OneRole(contexts'),
         pending' \subseteq Slot, last' = Nothing, missed' \subseteq Slot
  PROVE  PoolInv' /\ KnownKidServed' /\ last'.outcome \notin {"ok", "4.00"}
<1>1. last' \in Outcomes /\ last'.outcome = "none"
  BY NothingTyped DEF Outcomes
<1>2. TypeOK'
  BY <1>1 DEF TypeOK, Outcomes, Files
<1>. QED BY <1>1, <1>2 DEF PoolInv, KnownKidServed

LEMMA CurrentPassed ==
  ASSUME NEW list \in Lists, NEW old, NEW new, NEW but, Current(old, but, list),
         SameKeys(old, new)
  PROVE  Current(new, but, list)
<1>. SUFFICES ASSUME NEW n \in 1 .. Len(list) PROVE UpToDate(new, but, list[n])
  BY DEF Current
<1>1. list[n] \in Context
  BY ListTyped
<1>2. list[n].index \in Slot
  BY <1>1 DEF Context
<1>. QED BY <1>2 DEF Current, UpToDate, SameKeys

(* A context of a token that several objects changed is in missed.         *)
LEMMA CurrentMissed ==
  ASSUME NEW list \in Lists, NEW post, NEW table, Len(post) > 1,
         Current(at, missed, list), Len(post) \in Nat
  PROVE  Current(table, missed \cup MissedBy(post, table), list)
<1>. DEFINE but == missed \cup MissedBy(post, table)
<1>. SUFFICES ASSUME NEW n \in 1 .. Len(list) PROVE UpToDate(table, but, list[n])
  BY DEF Current
<1>1. list[n].index \in Slot
  <2>1. list[n] \in Context
    BY ListTyped
  <2>. QED BY <2>1 DEF Context
<1>2. MissedBy(post, table) = {i \in Slot : Sending(table[i]) # Sending(at[i])}
  BY DEF MissedBy
<1>3. list[n].index \notin but =>
        /\ list[n].index \notin missed
        /\ Sending(table[list[n].index]) = Sending(at[list[n].index])
  BY <1>1, <1>2
<1>. QED BY <1>3 DEF Current, UpToDate, Sending

LEMMA PostStep ==
  ASSUME PoolInv, NEW post \in Posts, Post(post)
  PROVE  Preserved /\ KnownKidServed' /\ last'.outcome \notin {"ok", "4.00"}
<1>. DEFINE s == Posted(post)
            q == Rebuilt(Pool, s.at)
<1>1. /\ at' = s.at /\ stored' = s.stored /\ last' = Nothing /\ UNCHANGED pending
      /\ IF s.refused \/ ScopeOnly(s)
         THEN missed' = missed \cup MissedBy(post, s.at) /\ UNCHANGED <<contexts, leaked>>
         ELSE missed' = {} /\ SetPool(q)
  BY DEF Post
<1>2. /\ Pool \in Pools /\ Pool.list = contexts /\ contexts \in Lists
      /\ at \in [Slot -> Token] /\ stored \in Files /\ InFiles(at, stored)
      /\ Unique(contexts) /\ OneRole(contexts) /\ pending \subseteq Slot
      /\ leaked \in Nat /\ Len(contexts) + leaked <= PoolSize /\ missed \subseteq Slot
  BY PoolTyped DEF PoolInv, TypeOK
<1>3. /\ s \in PostState /\ InFiles(s.at, s.stored)
      /\ Len(post) <= 1 =>
           /\ s.refused => s.at = at
           /\ ScopeOnly(s) /\ ~s.refused => SameKeys(at, s.at)
  BY <1>2, PayloadPosted
<1>. HIDE DEF s
<1>4. s.at \in [Slot -> Token] /\ s.stored \in Files
  BY <1>3 DEF PostState
<1>5. /\ q \in Pools /\ Unique(q.list) /\ OneRole(q.list) /\ Current(s.at, {}, q.list)
  BY <1>2, <1>4, RebuiltCurrent
<1>. HIDE DEF q
<1>6. CASE s.refused \/ ScopeOnly(s)
  <2>1. UNCHANGED <<contexts, leaked>> /\ missed' = missed \cup MissedBy(post, s.at)
    BY <1>1, <1>6
  <2>2. missed' \subseteq Slot
    BY <1>2, <2>1 DEF MissedBy
  <2>3. PoolInv' /\ KnownKidServed' /\ last'.outcome \notin {"ok", "4.00"}
    BY <1>1, <1>2, <1>3, <1>4, <2>1, <2>2, TableStep DEF Lists
  <2>4. ASSUME Current(at, missed, contexts) PROVE Current(s.at, missed', contexts)
    <3>1. Len(post) \in Nat
      BY ObjectsAssumption
    <3>2. CASE Len(post) > 1
      BY <1>2, <2>1, <2>4, <3>1, <3>2, CurrentMissed
    <3>3. CASE Len(post) <= 1
      <4>1. missed' = missed
        BY <2>1, <3>3 DEF MissedBy
      <4>2. CASE s.refused
        BY <1>3, <2>4, <3>3, <4>1, <4>2
      <4>3. CASE ~s.refused
        BY <1>2, <1>3, <1>6, <2>4, <3>3, <4>1, <4>3, CurrentPassed
      <4>. QED BY <4>2, <4>3
    <3>. QED BY <3>1, <3>2, <3>3
  <2>. QED BY <1>1, <2>1, <2>3, <2>4 DEF Preserved
<1>7. CASE ~(s.refused \/ ScopeOnly(s))
  <2>1. SetPool(q) /\ missed' = {}
    BY <1>1, <1>7
  <2>2. /\ contexts' \in Seq(Context) /\ leaked' \in Nat
        /\ Len(contexts') + leaked' <= PoolSize
        /\ Unique(contexts') /\ OneRole(contexts') /\ Current(s.at, {}, contexts')
    BY <1>5, <2>1, PoolLeft
  <2>3. PoolInv' /\ KnownKidServed' /\ last'.outcome \notin {"ok", "4.00"}
    BY <1>1, <1>2, <1>3, <1>4, <2>1, <2>2, TableStep
  <2>. QED BY <1>1, <2>1, <2>2, <2>3 DEF Preserved
<1>. QED BY <1>6, <1>7

LEMMA DeleteTokenStep ==
  ASSUME PoolInv, NEW i \in Slot, DeleteToken(i)
  PROVE  Preserved /\ KnownKidServed' /\ last'.outcome \notin {"ok", "4.00"}
<1>. DEFINE keep == {n \in DOMAIN contexts : contexts[n].index # i}
            a == Kept(contexts, keep)
            token == Cleared(at[i])
<1>1. /\ at' = [at EXCEPT ![i] = token] /\ stored' = [stored EXCEPT ![i] = token]
      /\ contexts' = Ranked(a) /\ last' = Nothing /\ UNCHANGED <<leaked, pending>>
      /\ missed' = missed \ {i}
  BY DEF DeleteToken
<1>2. /\ contexts \in Lists /\ Len(contexts) \in Nat
      /\ at \in [Slot -> Token] /\ stored \in Files /\ InFiles(at, stored)
      /\ pending \subseteq Slot /\ missed \subseteq Slot
  BY PoolTyped DEF PoolInv, TypeOK
<1>3. \A n \in keep : contexts[n].index # i
  OBVIOUS
<1>4. token \in Token /\ token.id = None
  <2>1. at[i] \in Token
    BY <1>2
  <2>. QED BY <2>1, EmptyTyped
<1>. HIDE DEF keep, token
<1>5. /\ a \in Lists /\ PartOf(a, contexts) /\ Len(a) <= Len(contexts)
      /\ \A n \in 1 .. Len(a) : \E k \in 1 .. Len(contexts) : k \in keep /\ a[n] = contexts[k]
  BY <1>2, KeptIsPart
<1>. HIDE DEF a
<1>6. Renewed(Ranked(a), a)
  BY <1>5, RankedRenews
<1>7. contexts' \in Lists /\ Len(contexts') = Len(a) /\ PartOf(contexts', contexts)
  <2>1. contexts' \in Lists /\ Len(contexts') = Len(a) /\ PartOf(contexts', a)
    BY <1>1, <1>5, <1>6, RenewedIsPart DEF Renewed
  <2>. QED BY <1>2, <1>5, <2>1, PartOfPart
<1>8. /\ contexts' \in Seq(Context) /\ leaked' \in Nat
      /\ Len(contexts') + leaked' <= PoolSize
      /\ Unique(contexts') /\ OneRole(contexts')
      /\ \A table, but : Current(table, but, contexts) => Current(table, but, contexts')
  BY <1>1, <1>5, <1>7, PartLeft
<1>9. at' \in [Slot -> Token] /\ stored' \in Files /\ InFiles(at', stored')
  BY <1>1, <1>2, <1>4, FilesWritten
<1>10. PoolInv' /\ KnownKidServed' /\ last'.outcome \notin {"ok", "4.00"}
  BY <1>1, <1>2, <1>8, <1>9, TableStep
<1>11. ASSUME Current(at, missed, contexts) PROVE Current(at', missed', contexts')
  <2>. SUFFICES ASSUME NEW n \in 1 .. Len(contexts') PROVE UpToDate(at', missed', contexts'[n])
    BY DEF Current
  <2>1. UpToDate(at, missed, contexts'[n])
    BY <1>8, <1>11 DEF Current
  <2>2. contexts'[n].index # i /\ contexts'[n].index \in Slot
    <3>1. Alike(contexts'[n], a[n]) /\ n \in 1 .. Len(a)
      BY <1>1, <1>6, <1>7 DEF Renewed
    <3>2. contexts'[n] \in Context
      BY <1>7, ListTyped
    <3>3. contexts'[n].index \in Slot
      BY <3>2 DEF Context
    <3>. QED BY <1>3, <1>5, <3>1, <3>3 DEF Alike
  <2>. QED BY <1>1, <1>2, <2>1, <2>2 DEF UpToDate
<1>. QED BY <1>10, <1>11 DEF Preserved

LEMMA BuiltStep ==
  ASSUME PoolInv, NEW table \in [Slot -> Token], NEW pool \in Pools,
         Unique(pool.list), OneRole(pool.list), Current(table, {}, pool.list),
         at' = table, SetPool(pool), stored' \in Files, InFiles(table, stored'),
         pending' \subseteq Slot, last' = Nothing, missed' = {}
  PROVE  Preserved /\ KnownKidServed' /\ last'.outcome \notin {"ok", "4.00"}
<1>1. /\ contexts' \in Seq(Context) /\ leaked' \in Nat
      /\ Len(contexts') + leaked' <= PoolSize
      /\ Unique(contexts') /\ OneRole(contexts') /\ Current(table, {}, contexts')
  BY PoolLeft
<1>2. PoolInv' /\ KnownKidServed' /\ last'.outcome \notin {"ok", "4.00"}
  BY <1>1, TableStep
<1>. QED BY <1>1, <1>2 DEF Preserved

LEMMA DeleteTableStep ==
  ASSUME PoolInv, DeleteTable
  PROVE  Preserved /\ KnownKidServed' /\ last'.outcome \notin {"ok", "4.00"}
<1>1. /\ at' = [i \in Slot |-> Cleared(at[i])] /\ stored' = EraseFiles({})
      /\ contexts' = EmptyPool.list /\ last' = Nothing /\ UNCHANGED <<leaked, pending>>
      /\ missed' = {}
  BY DEF DeleteTable, EmptyPool
<1>2. /\ at \in [Slot -> Token] /\ stored \in Files /\ pending \subseteq Slot
      /\ leaked \in Nat /\ Len(contexts) + leaked <= PoolSize /\ Len(contexts) \in Nat
      /\ PoolSize \in Nat
  BY PoolTyped, ContextsAssumption DEF PoolInv, TypeOK
<1>3. \A i \in Slot : /\ at[i] \in Token /\ Cleared(at[i]) \in Token
                      /\ Cleared(at[i]).id = None
  BY <1>2, EmptyTyped
<1>4. at' \in [Slot -> Token] /\ stored' \in Files
  BY <1>1, <1>3 DEF EraseFiles, Files
<1>5. InFiles(at', stored')
  BY <1>1, <1>3 DEF InFiles, EraseFiles
<1>6. /\ contexts' \in Seq(Context) /\ leaked' \in Nat
      /\ Len(contexts') + leaked' <= PoolSize
      /\ Unique(contexts') /\ OneRole(contexts') /\ Current(at', {}, contexts')
  <2>1. /\ contexts' = <<>> /\ contexts' \in Seq(Context) /\ Len(contexts') = 0
        /\ leaked' = leaked
    BY <1>1 DEF EmptyPool
  <2>2. Len(contexts') + leaked' <= PoolSize
    BY <1>2, <2>1
  <2>. QED BY <1>1, <1>2, <2>1, <2>2, EmptyPoolTyped
<1>7. PoolInv' /\ KnownKidServed' /\ last'.outcome \notin {"ok", "4.00"}
  BY <1>1, <1>2, <1>4, <1>5, <1>6, TableStep
<1>. QED BY <1>1, <1>6, <1>7 DEF Preserved

LEMMA ResetTableStep ==
  ASSUME PoolInv, ResetTable
  PROVE  Preserved /\ KnownKidServed' /\ last'.outcome \notin {"ok", "4.00"}
<1>. DEFINE keep  == {i \in Slot : at[i].scope = "sec"}
            table == [i \in Slot |-> IF i \in keep THEN at[i] ELSE Cleared(at[i])]
            pool  == Rebuilt(Pool, table)
<1>1. /\ at' = table /\ stored' = EraseFiles(keep) /\ SetPool(pool)
      /\ last' = Nothing /\ UNCHANGED pending /\ missed' = {}
  BY DEF ResetTable
<1>2. /\ Pool \in Pools /\ Unique(Pool.list) /\ OneRole(Pool.list)
      /\ at \in [Slot -> Token] /\ stored \in Files /\ InFiles(at, stored)
      /\ pending \subseteq Slot
  BY PoolTyped DEF PoolInv, TypeOK
<1>. HIDE DEF keep
<1>3. \A i \in Slot : /\ at[i] \in Token /\ Cleared(at[i]) \in Token
                      /\ Cleared(at[i]).id = None
  BY <1>2, EmptyTyped
<1>4. table \in [Slot -> Token]
  BY <1>3
<1>5. stored' \in Files
  BY <1>1, <1>2 DEF EraseFiles, Files
<1>6. InFiles(table, stored')
  BY <1>1, <1>2, <1>3 DEF InFiles, EraseFiles
<1>. HIDE DEF table
<1>7. pool \in Pools /\ Unique(pool.list) /\ OneRole(pool.list) /\ Current(table, {}, pool.list)
  BY <1>2, <1>4, RebuiltCurrent
<1>. HIDE DEF pool
<1>8. pending' \subseteq Slot
  BY <1>1, <1>2
<1>. QED BY <1>1, <1>4, <1>5, <1>6, <1>7, <1>8, BuiltStep

LEMMA SetAuthSharedStep ==
  ASSUME PoolInv, NEW token \in SharedTokens, SetAuthShared(token)
  PROVE  Preserved /\ KnownKidServed' /\ last'.outcome \notin {"ok", "4.00"}
<1>. DEFINE i     == IndexFor(at, token.id)
            table == [at EXCEPT ![i] = token]
            once  == Rebuilt(Pool, table)
            pool  == Rebuilt(once, table)
<1>1. /\ i # 0 /\ at' = table /\ stored' = [stored EXCEPT ![i] = token]
      /\ SetPool(pool) /\ last' = Nothing /\ UNCHANGED pending /\ missed' = {}
  BY DEF SetAuthShared
<1>2. /\ Pool \in Pools /\ Unique(Pool.list) /\ OneRole(Pool.list)
      /\ at \in [Slot -> Token] /\ stored \in Files /\ InFiles(at, stored)
      /\ pending' \subseteq Slot
  BY <1>1, PoolTyped DEF PoolInv, TypeOK
<1>3. i \in Slot
  BY <1>1, IndexIsSlot
<1>. HIDE DEF i
<1>4. token \in Token /\ token.id # None
  <2>1. token \in Token
    BY ObjectsAssumption
  <2>2. "id" \in DOMAIN token
    BY <2>1 DEF Token
  <2>3. token.id \in TokenIds
    BY <2>2 DEF TokenIds
  <2>. QED BY <2>1, <2>3, ObjectsAssumption
<1>5. table \in [Slot -> Token] /\ stored' \in Files /\ InFiles(table, stored')
  BY <1>1, <1>2, <1>3, <1>4, FilesWritten
<1>. HIDE DEF table
<1>6. once \in Pools /\ Unique(once.list) /\ OneRole(once.list)
  BY <1>2, <1>5, RebuiltCurrent
<1>. HIDE DEF once
<1>7. pool \in Pools /\ Unique(pool.list) /\ OneRole(pool.list) /\ Current(table, {}, pool.list)
  BY <1>5, <1>6, RebuiltCurrent
<1>. HIDE DEF pool
<1>. QED BY <1>1, <1>2, <1>5, <1>7, BuiltStep

LEMMA RestartStep ==
  ASSUME PoolInv, Restart
  PROVE  Preserved /\ KnownKidServed' /\ last'.outcome \notin {"ok", "4.00"}
<1>. DEFINE table == [i \in Slot |-> IF stored[i] = NoFile THEN EmptyToken ELSE stored[i]]
            pool  == Rebuilt(EmptyPool, table)
<1>1. /\ at' = table /\ SetPool(pool) /\ pending' = {} /\ last' = Nothing
      /\ missed' = {} /\ UNCHANGED stored
  BY DEF Restart
<1>2. stored' \in Files /\ \A i \in Slot : stored[i] \in Token \cup {NoFile}
  BY <1>1, PoolTyped DEF PoolInv, Files
<1>3. table \in [Slot -> Token]
  BY <1>2, EmptyTyped
<1>4. InFiles(table, stored')
  BY <1>1 DEF InFiles, EmptyToken
<1>. HIDE DEF table
<1>5. pool \in Pools /\ Unique(pool.list) /\ OneRole(pool.list) /\ Current(table, {}, pool.list)
  BY <1>3, EmptyPoolTyped, RebuiltCurrent
<1>. HIDE DEF pool
<1>6. pending' \subseteq Slot
  BY <1>1
<1>. QED BY <1>1, <1>2, <1>3, <1>4, <1>5, <1>6, BuiltStep

-----------------------------------------------------------------------------
LEMMA InitIsTyped ==
  ASSUME Init
  PROVE  PoolInv /\ Current(at, missed, contexts) /\ KnownKidServed
<1>1. /\ at = [i \in Slot |-> EmptyToken] /\ stored = [i \in Slot |-> NoFile]
      /\ contexts = EmptyPool.list /\ leaked = 0 /\ pending = {} /\ last = Nothing
      /\ missed = {}
  BY DEF Init, EmptyPool
<1>2. at \in [Slot -> Token] /\ stored \in [Slot -> Token \cup {NoFile}]
  BY <1>1, EmptyTyped
<1>3. /\ contexts = <<>> /\ contexts \in Seq(Context) /\ Len(contexts) = 0
      /\ Len(contexts) + leaked <= PoolSize /\ leaked \in Nat
  BY <1>1, ContextsAssumption DEF EmptyPool
<1>4. Unique(contexts) /\ OneRole(contexts) /\ Current(at, missed, contexts)
  BY <1>1, <1>3, EmptyPoolTyped
<1>5. last \in [outcome : Outcome, kid : Kids \cup {None}] /\ last.outcome = "none"
  BY <1>1, NothingTyped
<1>6. InFiles(at, stored)
  BY <1>1 DEF InFiles, EmptyToken
<1>. QED BY <1>1, <1>2, <1>3, <1>4, <1>5, <1>6 DEF PoolInv, TypeOK, KnownKidServed

(* What is left after a request that was accepted: every context but the   *)
(* one used before all others.                                             *)
OthersLeft ==
  last'.outcome \in {"ok", "4.00"} =>
    \A i \in 1 .. Len(contexts) : i # LruIndex(contexts) =>
      \E n \in 1 .. Len(contexts') : Alike(contexts'[n], contexts[i])

LEMMA NextKeeps ==
  ASSUME PoolInv, Next
  PROVE  /\ PoolInv' /\ KnownKidServed' /\ OthersLeft
         /\ Current(at, missed, contexts) => Current(at', missed', contexts')
<1>1. ASSUME NEW post \in Posts, Post(post)
      PROVE  /\ PoolInv' /\ KnownKidServed' /\ OthersLeft
             /\ Current(at, missed, contexts) => Current(at', missed', contexts')
  BY <1>1, PostStep DEF Preserved, OthersLeft
<1>2. CASE \/ \E token \in SharedTokens : SetAuthShared(token)
           \/ \E i \in Slot : DeleteToken(i)
           \/ DeleteTable \/ ResetTable \/ Restart
  <2>1. Preserved /\ KnownKidServed' /\ last'.outcome \notin {"ok", "4.00"}
    BY <1>2, SetAuthSharedStep, DeleteTokenStep, DeleteTableStep, ResetTableStep,
       RestartStep
  <2>. QED BY <2>1 DEF Preserved, OthersLeft
<1>3. CASE \/ \E i \in Slot : Respond(i)
           \/ \E kid \in Kids : \/ Unicast(kid)
                                \/ \E ctx \in KidCtxs : ReceiveUnknown(kid, ctx)
           \/ \E ga \in GroupAddresses : SendGroup(ga)
  <2>1. Preserved /\ KnownKidServed' /\ last'.outcome \notin {"ok", "4.00"}
    BY <1>3, OtherMessageSteps
  <2>. QED BY <2>1 DEF Preserved, OthersLeft
<1>4. ASSUME NEW kid \in Kids, NEW ctx \in KidCtxs, NEW key \in Keys,
             ReceiveKnown(kid, ctx, key)
      PROVE  Preserved /\ KnownKidServed' /\ OthersLeft
  <2>1. Preserved /\ KnownKidServed' /\ Renewed(contexts', contexts)
    BY <1>4, ReceiveKnownStep
  <2>2. \A i \in 1 .. Len(contexts) : i \in 1 .. Len(contexts')
                                      /\ Alike(contexts'[i], contexts[i])
    BY <2>1 DEF Renewed
  <2>. QED BY <2>1, <2>2 DEF OthersLeft
<1>5. ASSUME NEW kid \in Kids, NEW ctx \in KidCtxs, NEW key \in Keys,
             ReceiveNew(kid, ctx, key)
      PROVE  Preserved /\ KnownKidServed' /\ OthersLeft
  BY <1>5, ReceiveNewStep DEF OthersLeft
<1>. QED BY <1>1, <1>2, <1>3, <1>4, <1>5 DEF Next, Preserved

LEMMA StepKeeps ==
  ASSUME PoolInv, [Next]_vars
  PROVE  /\ PoolInv' /\ (KnownKidServed => KnownKidServed')
         /\ Current(at, missed, contexts) => Current(at', missed', contexts')
<1>1. CASE Next
  BY <1>1, NextKeeps
<1>2. CASE UNCHANGED vars
  <2>1. UNCHANGED <<at, stored, contexts, leaked, pending, last, missed>>
    BY <1>2 DEF vars
  <2>2. PoolInv'
    BY <2>1 DEF PoolInv, TypeOK
  <2>3. KnownKidServed => KnownKidServed'
    BY <2>1 DEF KnownKidServed, TokensWith
  <2>. QED BY <2>1, <2>2, <2>3
<1>. QED BY <1>1, <1>2

\* In every state the token table has whole tokens in all its entries, the
\* list has contexts of entries that exist, and the contexts and the blocks
\* lost together are never more than the blocks of the pool.
THEOREM TypeCorrect == Spec => []TypeOK
<1>1. Init => PoolInv
  BY InitIsTyped
<1>2. PoolInv /\ [Next]_vars => PoolInv'
  BY StepKeeps
<1>3. PoolInv => TypeOK
  BY DEF PoolInv
<1>. QED BY <1>1, <1>2, <1>3, PTL DEF Spec

\* Whatever is written to the table and whichever messages come in, a kid and
\* context id has one recipient context at most and an entry one sender
\* context, so that the first match of every lookup is the only one.
THEOREM ContextsAreUnique == Spec => []UniqueContexts
<1>1. Init => PoolInv
  BY InitIsTyped
<1>2. PoolInv /\ [Next]_vars => PoolInv'
  BY StepKeeps
<1>3. ASSUME PoolInv PROVE UniqueContexts
  <2>1. DOMAIN contexts = 1 .. Len(contexts) /\ Unique(contexts)
    BY <1>3, PoolTyped DEF PoolInv
  <2>. QED BY <2>1 DEF UniqueContexts, Unique, Apart
<1>. QED BY <1>1, <1>2, <1>3, PTL DEF Spec

\* After every request, reset and restart the files hold each token of the
\* table with all its fields, and no other token.
THEOREM TableStored == Spec => []TableIsStored
<1>1. Init => PoolInv
  BY InitIsTyped
<1>2. PoolInv /\ [Next]_vars => PoolInv'
  BY StepKeeps
<1>3. PoolInv => TableIsStored
  BY DEF PoolInv, InFiles, TableIsStored
<1>. QED BY <1>1, <1>2, <1>3, PTL DEF Spec

\* A request with a kid that has a token with a secret finds or gets a
\* context, in a pool of any size, unless all blocks of the pool are lost.
THEOREM KidServed == Spec => []KnownKidServed
<1>1. Init => PoolInv /\ KnownKidServed
  BY InitIsTyped
<1>2. PoolInv /\ KnownKidServed /\ [Next]_vars => (PoolInv /\ KnownKidServed)'
  BY StepKeeps
<1>. QED BY <1>1, <1>2, PTL DEF Spec

\* Whatever the payloads, a sender context has what its token has, unless a
\* payload of several objects has changed that token and its last object did
\* not have the contexts built again.
THEOREM SendersAreCurrent == Spec => []SenderContextsCurrent
<1>. DEFINE CurrentInv == PoolInv /\ Current(at, missed, contexts)
<1>1. Init => CurrentInv
  BY InitIsTyped
<1>2. CurrentInv /\ [Next]_vars => CurrentInv'
  BY StepKeeps
<1>3. ASSUME CurrentInv PROVE SenderContextsCurrent
  <2>1. DOMAIN contexts = 1 .. Len(contexts)
    BY <1>3, PoolTyped DEF PoolInv
  <2>2. ASSUME NEW c \in Range(contexts), IsSender(c), c.index \notin missed
        PROVE  Follows(c)
    <3>1. PICK n \in 1 .. Len(contexts) : c = contexts[n]
      BY <2>1 DEF Range
    <3>. QED BY <1>3, <2>2, <3>1 DEF Current, UpToDate, Follows
  <2>. QED BY <2>2 DEF SenderContextsCurrent
<1>. HIDE DEF CurrentInv
<1>. QED BY <1>1, <1>2, <1>3, PTL DEF Spec

LEMMA OldestLeaves ==
  ASSUME PoolInv, PoolInv', OthersLeft, last'.outcome \in {"ok", "4.00"},
         NEW c \in Evicted, NEW d \in Range(contexts) \ Evicted, ~IsSender(d)
  PROVE  c.used <= d.used
<1>1. /\ contexts \in Lists /\ DOMAIN contexts = 1 .. Len(contexts)
      /\ OneRole(contexts) /\ contexts' \in Lists
  BY PoolTyped DEF PoolInv, TypeOK, Lists
<1>2. DOMAIN contexts' = 1 .. Len(contexts')
  BY <1>1, ListTyped
<1>3. PICK i \in 1 .. Len(contexts) : c = contexts[i]
  BY <1>1 DEF Evicted, Range
<1>4. PICK m \in 1 .. Len(contexts) : d = contexts[m]
  BY <1>1 DEF Range
<1>5. ~IsSender(c) /\ IsRecipient(c) /\ IsRecipient(d)
  BY <1>1, <1>3, <1>4 DEF Evicted, OneRole
<1>6. i = LruIndex(contexts)
  <2>. SUFFICES ASSUME NEW n \in 1 .. Len(contexts'), Alike(contexts'[n], contexts[i])
                PROVE  FALSE
    BY DEF OthersLeft
  <2>1. contexts'[n] \in Range(contexts')
    BY <1>2 DEF Range
  <2>. QED BY <1>3, <2>1 DEF Evicted, Alike
<1>7. contexts # <<>>
  BY <1>3
<1>. QED BY <1>1, <1>3, <1>4, <1>5, <1>6, <1>7, LruIsOldest

\* A request that needs a block of a full pool takes the one of the recipient
\* context that was used before all others, or that of the head of the list.
THEOREM OldestEvicted == Spec => EvictsOldest
<1>1. Init => PoolInv
  BY InitIsTyped
<1>2. PoolInv /\ [Next]_vars => PoolInv'
  BY StepKeeps
<1>3. ASSUME PoolInv, [Next]_vars
      PROVE  [ last'.outcome \in {"ok", "4.00"} =>
                 \A c \in Evicted : \A d \in Range(contexts) \ Evicted :
                   ~IsSender(d) => c.used <= d.used ]_vars
  <2>1. CASE Next
    <3>1. PoolInv' /\ OthersLeft
      BY <1>3, <2>1, NextKeeps
    <3>. QED BY <1>3, <3>1, OldestLeaves
  <2>2. CASE UNCHANGED vars
    BY <2>2
  <2>. QED BY <1>3, <2>1, <2>2
<1>. QED BY <1>1, <1>2, <1>3, PTL DEF Spec, EvictsOldest
=============================================================================
