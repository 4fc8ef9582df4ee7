--------------------------- MODULE OscoreSsnProof ---------------------------
(***************************************************************************)
(* What one OSCORE sender context guarantees about its sequence numbers,   *)
(* for every write interval, padding and number of retransmissions.        *)
(***************************************************************************)
EXTENDS OscoreSsn, TLAPS

(* The constants without their product, which only RebuiltSsn needs.       *)
LEMMA Constants ==
  /\ WriteFreq \in Nat \ {0} /\ MaxRetransmit \in Nat \ {0}
  /\ MaxSsn \in Nat /\ MaxRebuilds \in Nat
BY SsnAssumption

(* What every step needs to know of the types.                             *)
LEMMA Types ==
  ASSUME TypeOK
  PROVE  /\ ssn \in Nat /\ stored \in Nat /\ failed \in Nat
         /\ rebuilds \in Nat /\ wrote \in BOOLEAN
         /\ last \in Int /\ top \in Int /\ past \in Int
         /\ last >= -1 /\ top >= -1 /\ past >= -1
         /\ WriteFreq \in Nat \ {0}
BY Constants DEF TypeOK, PivOrNone, NoPiv

(* Where the padding bump leaves the SSN.                                  *)
LEMMA RebuiltSsn == WriteFreq + Pad \in 0 .. MaxSsn + 1
<1>. DEFINE p == PadFactor * WriteFreq
<1>1. p \in Nat /\ WriteFreq \in Nat /\ MaxSsn \in Nat /\ WriteFreq + p <= MaxSsn + 1
  BY SsnAssumption
<1>. HIDE DEF p
<1>2. WriteFreq + p \in 0 .. MaxSsn + 1
  BY <1>1
<1>. QED BY <1>2 DEF p, Pad

(* The number of a request.                                                *)
LEMMA NumberTypes ==
  ASSUME TypeOK
  PROVE  /\ Number \in Nat
         /\ \A n \in Nat : n <= MaxSsn => n \in PivOrNone
BY Constants DEF TypeOK, PivOrNone, NoPiv, Number

(* The SSN moves on from some n; or it stays; or it is set again.          *)
LEMMA SsnStep ==
  ASSUME TypeOK, [Next]_vars
  PROVE  \/ \E n \in Nat : Increment(n)
         \/ UNCHANGED <<ssn, stored, wrote>> /\ UNCHANGED failed
         \/ wrote' = FALSE
BY NumberTypes, Types
   DEF Next, SetNextSsn, TakenElsewhere, RaiseNextSsn, SendRequest, SendWithEcho, Retransmit,
       RepeatWith, EndTransaction, SendOther, SendSeparate, SendResponse,
       Restart, ResetKeepingToken, SetAtTable, Rebuild, vars

(* A message goes out as a new one, and the SSN is one more afterwards;    *)
(* the history stays, and the SSN goes up at most; or both begin anew.     *)
LEMMA HistoryStep ==
  ASSUME TypeOK, [Next]_vars
  PROVE  \/ \E n \in Nat : Transmit(n) /\ ssn' = n + 1
         \/ ssn' >= ssn /\ ssn' \in Nat /\ UNCHANGED history
         \/ last' = NoPiv /\ top' = NoPiv /\ ssn' \in Nat
<1>. USE NumberTypes, Types
<1>1. ASSUME NEW r \in Request, SendRequest(r) \/ SendWithEcho(r)
      PROVE  \E n \in Nat : Transmit(n) /\ ssn' = n + 1
  BY <1>1 DEF SendRequest, SendWithEcho, Increment
<1>2. ASSUME SendOther \/ SendSeparate
      PROVE  \E n \in Nat : Transmit(n) /\ ssn' = n + 1
  BY <1>2 DEF SendOther, SendSeparate, Increment
<1>3. ASSUME NEW r \in Request, Retransmit(r)
      PROVE  \/ ssn' >= ssn /\ ssn' \in Nat /\ UNCHANGED history
             \/ last' = NoPiv /\ top' = NoPiv /\ ssn' \in Nat
  BY <1>3 DEF Retransmit, RepeatWith
<1>4. ASSUME Restart \/ ResetKeepingToken \/ SetAtTable
      PROVE  last' = NoPiv /\ top' = NoPiv /\ ssn' \in Nat
  <2>1. WriteFreq + Pad \in Nat
    BY RebuiltSsn, Constants
  <2>. QED BY <1>4, <2>1 DEF Restart, ResetKeepingToken, SetAtTable, Rebuild
<1>5. ASSUME \/ \E n \in Chosen : SetNextSsn(n)
             \/ TakenElsewhere \/ RaiseNextSsn \/ (\E r \in Request : EndTransaction(r))
             \/ SendResponse \/ UNCHANGED vars
      PROVE  ssn' >= ssn /\ ssn' \in Nat /\ UNCHANGED history
  BY <1>5 DEF SetNextSsn, TakenElsewhere, RaiseNextSsn, EndTransaction, SendResponse, Increment,
              history, vars
<1>. QED BY <1>1, <1>2, <1>3, <1>4, <1>5 DEF Next

----------------------------------------------------------------------------
(* An increment below the bound keeps the types of what it changes.        *)
LEMMA IncrementTypes ==
  ASSUME TypeOK, NEW n \in Nat, n <= MaxSsn, Increment(n)
  PROVE  /\ ssn' \in 0 .. MaxSsn + 1 /\ stored' \in 0 .. MaxSsn + 1
         /\ failed' \in Nat /\ wrote' \in BOOLEAN
<1>1. /\ stored \in 0 .. MaxSsn + 1 /\ failed \in Nat
      /\ wrote \in BOOLEAN /\ MaxSsn \in Nat
  BY Constants DEF TypeOK
<1>2. ssn' = n + 1 /\ ssn' \in 0 .. MaxSsn + 1
  BY <1>1 DEF Increment
<1>3. \/ stored' = ssn' /\ failed' = 0
      \/ failed' \in {failed, failed + 1} /\ UNCHANGED stored
  BY DEF Increment
<1>4. stored' \in 0 .. MaxSsn + 1 /\ failed' \in Nat
  BY <1>1, <1>2, <1>3
<1>5. wrote' \in BOOLEAN
  BY DEF Increment
<1>. QED BY <1>2, <1>4, <1>5

(* A new message keeps the types of the history.                           *)
LEMMA TransmitTypes ==
  ASSUME TypeOK, NEW n \in Nat, Transmit(n)
  PROVE  /\ n <= MaxSsn /\ n \in PivOrNone
         /\ last' \in PivOrNone /\ top' \in PivOrNone /\ past' \in PivOrNone
BY Constants DEF TypeOK, Transmit, Highest, HighestUsed, PivOrNone, NoPiv

LEMMA RebuildTypes ==
  ASSUME TypeOK, NEW b \in BOOLEAN, Rebuild(b)
  PROVE  /\ ssn' \in 0 .. MaxSsn + 1 /\ stored' \in 0 .. MaxSsn + 1
         /\ wrote' \in BOOLEAN /\ rebuilds' \in 0 .. MaxRebuilds
         /\ last' \in PivOrNone /\ top' \in PivOrNone /\ past' \in PivOrNone
<1>1. past' \in PivOrNone
  BY DEF TypeOK, Rebuild, Highest, HighestUsed
<1>2. NoPiv \in PivOrNone
  BY Constants DEF PivOrNone, NoPiv
<1>3. rebuilds' \in 0 .. MaxRebuilds
  BY Constants DEF TypeOK, Rebuild
<1>4. ssn' \in 0 .. MaxSsn + 1
  BY RebuiltSsn, Constants DEF Rebuild
<1>. QED BY <1>1, <1>2, <1>3, <1>4 DEF Rebuild, TypeOK

(* Sequence numbers, counters and open requests stay in their ranges: a    *)
(* retransmission counter never reaches COAP_MAX_RETRANSMIT.               *)
THEOREM TypeCorrect == Spec => []TypeOK
<1>1. ASSUME Init PROVE TypeOK
  <2>1. 0 \in 0 .. MaxRetransmit - 1 /\ NoPiv \in PivOrNone
    BY Constants DEF PivOrNone, NoPiv
  <2>2. /\ counter \in [Request -> 0 .. MaxRetransmit - 1]
        /\ piv \in [Request -> PivOrNone]
    BY <1>1, <2>1 DEF Init
  <2>3. /\ ssn \in 0 .. MaxSsn + 1 /\ stored \in 0 .. MaxSsn + 1
        /\ failed \in Nat /\ rebuilds \in 0 .. MaxRebuilds /\ g_ssn \in PivOrNone
    BY <1>1, <2>1, Constants DEF Init
  <2>4. /\ wrote \in BOOLEAN /\ open \subseteq Request
        /\ last \in PivOrNone /\ top \in PivOrNone /\ past \in PivOrNone
    BY <1>1, <2>1, Zenon DEF Init
  <2>. QED BY <2>2, <2>3, <2>4 DEF TypeOK
<1>2. TypeOK /\ [Next]_vars => TypeOK'
  <2>. SUFFICES ASSUME TypeOK, [Next]_vars PROVE TypeOK'
    OBVIOUS
  <2>0. NoPiv \in PivOrNone /\ 0 \in 0 .. MaxRetransmit - 1
    BY Constants DEF PivOrNone, NoPiv
  <2>1. ASSUME NEW r \in Request, SendRequest(r) PROVE TypeOK'
    <3>1. Number \in Nat /\ Transmit(Number) /\ Increment(Number)
      BY <2>1, NumberTypes DEF SendRequest
    <3>2. piv' \in [Request -> PivOrNone] /\ open' \subseteq Request
      BY <2>1, <3>1, TransmitTypes DEF SendRequest, TypeOK
    <3>. QED BY <2>0, <2>1, <3>1, <3>2, TransmitTypes, IncrementTypes
            DEF SendRequest, TypeOK
  <2>2. ASSUME NEW r \in Request, SendWithEcho(r) PROVE TypeOK'
    <3>1. Number \in Nat /\ Transmit(Number) /\ Increment(Number)
      BY <2>2, NumberTypes DEF SendWithEcho
    <3>2. /\ piv' \in [Request -> PivOrNone]
          /\ counter' \in [Request -> 0 .. MaxRetransmit - 1]
      BY <2>0, <2>2, <3>1, TransmitTypes DEF SendWithEcho, TypeOK
    <3>. QED BY <2>0, <2>2, <3>1, <3>2, TransmitTypes, IncrementTypes
            DEF SendWithEcho, TypeOK
  <2>3. ASSUME NEW r \in Request, Retransmit(r) PROVE TypeOK'
    <3>1. Number \in Nat /\ Number <= MaxSsn /\ RepeatWith(r, Number)
      BY <2>3, NumberTypes DEF Retransmit, RepeatWith
    <3>2. Number \in PivOrNone /\ Number \in 0 .. MaxSsn + 1
      BY <3>1, NumberTypes, Constants
    <3>3. piv' \in [Request -> PivOrNone] /\ wrote' \in BOOLEAN
      BY <3>1, <3>2 DEF RepeatWith, TypeOK
    <3>4. counter[r] + 1 \in 0 .. MaxRetransmit - 1
      BY <2>3, Constants DEF Retransmit, TypeOK
    <3>5. counter' \in [Request -> 0 .. MaxRetransmit - 1]
      BY <3>1, <3>4 DEF RepeatWith, TypeOK
    <3>6. last' \in PivOrNone /\ top' \in PivOrNone /\ past' \in PivOrNone
      BY <2>0, <3>1 DEF RepeatWith, TypeOK, history, Highest, HighestUsed
    <3>. QED BY <2>0, <3>1, <3>2, <3>3, <3>5, <3>6 DEF RepeatWith, TypeOK
  <2>4. ASSUME NEW r \in Request, EndTransaction(r) PROVE TypeOK'
    BY <2>4 DEF EndTransaction, TypeOK, history
  <2>5. CASE SendOther
    BY <2>0, <2>5, NumberTypes, TransmitTypes, IncrementTypes DEF SendOther, TypeOK
  <2>9. CASE SendSeparate \/ SendResponse
    <3>1. ssn \in Nat
      BY Types
    <3>. QED BY <2>9, <3>1, TransmitTypes, IncrementTypes
            DEF SendSeparate, SendResponse, TypeOK, history
  <2>10. ASSUME NEW n \in Chosen, SetNextSsn(n) PROVE TypeOK'
    BY <2>10, NumberTypes, SsnAssumption DEF SetNextSsn, TypeOK, history
  <2>11. CASE TakenElsewhere
    BY <2>0, <2>11 DEF TakenElsewhere, TypeOK, history
  <2>12. CASE RaiseNextSsn
    <3>1. g_ssn' \in PivOrNone
      BY <2>12, Constants DEF RaiseNextSsn, TypeOK, PivOrNone, NoPiv
    <3>. QED BY <2>12, <3>1 DEF RaiseNextSsn, TypeOK, history
  <2>6. CASE Restart
    <3>1. /\ 0 \in 0 .. MaxRetransmit - 1
          /\ NoPiv \in PivOrNone
      BY Constants DEF PivOrNone, NoPiv
    <3>2. /\ counter' \in [Request -> 0 .. MaxRetransmit - 1]
          /\ piv' \in [Request -> PivOrNone]
          /\ open' \subseteq Request /\ failed' \in Nat
      BY <2>6, <3>1 DEF Restart
    <3>. QED BY <2>6, <3>1, <3>2, RebuildTypes DEF Restart, TypeOK
  <2>7. CASE ResetKeepingToken \/ SetAtTable
    BY <2>7, RebuildTypes DEF ResetKeepingToken, SetAtTable, TypeOK
  <2>8. CASE UNCHANGED vars
    BY <2>8 DEF vars, TypeOK
  <2>. QED BY <2>1, <2>2, <2>3, <2>4, <2>5, <2>6, <2>7, <2>8, <2>9, <2>10, <2>11,
             <2>12
          DEF Next
<1>. QED BY <1>1, <1>2, PTL DEF Spec

----------------------------------------------------------------------------
(* NewMessagesDiffer is not inductive: it needs that no number given so    *)
(* far reaches the SSN of the context.                                     *)
GivenBelowSsn == last < ssn /\ top < ssn

(* Within one context two new messages never share a Partial IV, whatever  *)
(* responses, retransmissions and writes come between them, and wherever   *)
(* an application sets the number to.                                      *)
THEOREM NoReuseInContext == Spec => []NewMessagesDiffer
<1>. DEFINE IInv == GivenBelowSsn /\ NewMessagesDiffer
<1>1. Init => IInv
  BY DEF Init, GivenBelowSsn, NewMessagesDiffer, NoPiv
<1>2. TypeOK /\ IInv /\ [Next]_vars => IInv'
  <2>. SUFFICES ASSUME TypeOK, IInv, [Next]_vars PROVE IInv'
    OBVIOUS
  <2>1. /\ ssn \in Nat /\ last \in Int /\ top \in Int
        /\ last < ssn /\ top < ssn
    BY Types DEF GivenBelowSsn
  <2>2. ASSUME NEW n \in Nat, Transmit(n), ssn' = n + 1 PROVE IInv'
    BY <2>1, <2>2 DEF Transmit, Highest, NoPiv, GivenBelowSsn, NewMessagesDiffer
  <2>3. CASE ssn' >= ssn /\ ssn' \in Nat /\ UNCHANGED history
    BY <2>1, <2>3 DEF GivenBelowSsn, NewMessagesDiffer, history
  <2>4. CASE last' = NoPiv /\ top' = NoPiv /\ ssn' \in Nat
    BY <2>4 DEF GivenBelowSsn, NewMessagesDiffer, NoPiv
  <2>. QED BY <2>2, <2>3, <2>4, HistoryStep
<1>. QED BY <1>1, <1>2, TypeCorrect, PTL DEF Spec

----------------------------------------------------------------------------
(* Multiples of the write interval, the only numbers ever stored.          *)

LEMMA MultipleOrder ==
  ASSUME NEW w \in Nat \ {0}, NEW a \in Nat, NEW b \in Nat, w * a < w * b
  PROVE  a + 1 <= b
<1>1. ASSUME b <= a PROVE FALSE
  <2>1. PICK d \in Nat : a = b + d
    BY <1>1
  <2>2. w * a = w * b + w * d /\ w * d \in Nat /\ w * b \in Nat
    BY <2>1
  <2>. QED BY <2>2
<1>. QED BY <1>1

LEMMA MultipleSum ==
  ASSUME NEW w \in Nat, NEW a \in Nat, NEW b \in Nat
  PROVE  w * (a + b) = w * a + w * b /\ w * a \in Nat /\ w * b \in Nat
OBVIOUS

LEMMA MultipleIff ==
  ASSUME NEW w \in Nat \ {0}, NEW a \in Nat
  PROVE  a % w = 0 <=> \E k \in Nat : a = w * k
<1>1. /\ a \div w \in Int /\ a % w \in Int
      /\ a = w * (a \div w) + (a % w)
      /\ 0 <= a % w /\ a % w < w
  BY SMT
<1>2. a \div w \in Nat
  BY <1>1
<1>3. ASSUME a % w = 0 PROVE \E k \in Nat : a = w * k
  BY <1>1, <1>2, <1>3
<1>4. ASSUME NEW k \in Nat, a = w * k PROVE a % w = 0
  <2>. DEFINE q == a \div w
              r == a % w
  <2>1. /\ q \in Nat /\ r \in Nat /\ r < w
        /\ w * k = w * q + r
    BY <1>1, <1>2, <1>4
  <2>. SUFFICES ASSUME r > 0 PROVE FALSE
    BY <2>1
  <2>. HIDE DEF q, r
  <2>2. w * q < w * k /\ w * k < w * (q + 1)
    BY <2>1, MultipleSum
  <2>3. q + 1 <= k /\ k + 1 <= q + 1
    BY <2>1, <2>2, MultipleOrder
  <2>. QED BY <2>1, <2>3
<1>. QED BY <1>3, <1>4

(* StorageTrails is not inductive: it has to know that what is stored is a *)
(* multiple q of the interval, and that the SSN lies in the interval that  *)
(* starts as many intervals later as writes have failed.                   *)
InInterval(n, s) == WriteFreq * n <= s /\ s < WriteFreq * (n + 1)
StoredMultiple ==
  wrote => \E q \in Nat : stored = WriteFreq * q /\ InInterval(q + failed, ssn)

(* One increment stays in its interval, or enters the next one exactly     *)
(* when it reaches a multiple.                                             *)
LEMMA IntervalStep ==
  ASSUME NEW n \in Nat, NEW s \in Nat, InInterval(n, s)
  PROVE  /\ (s + 1) % WriteFreq = 0 =>
              s + 1 = WriteFreq * (n + 1) /\ InInterval(n + 1, s + 1)
         /\ (s + 1) % WriteFreq # 0 => InInterval(n, s + 1)
<1>1. /\ WriteFreq \in Nat \ {0} /\ WriteFreq * (n + 1) \in Nat
      /\ WriteFreq * n \in Nat
      /\ WriteFreq * (n + 1 + 1) = WriteFreq * (n + 1) + WriteFreq
      /\ WriteFreq * n <= s /\ s + 1 <= WriteFreq * (n + 1)
  BY Constants DEF InInterval
<1>2. ASSUME (s + 1) % WriteFreq = 0 PROVE s + 1 = WriteFreq * (n + 1)
  <2>1. PICK k \in Nat : s + 1 = WriteFreq * k
    BY <1>1, <1>2, MultipleIff
  <2>2. n + 1 <= k
    BY <1>1, <2>1, MultipleOrder
  <2>3. ~(WriteFreq * k < WriteFreq * (n + 1))
    BY <1>1, <2>2, MultipleOrder
  <2>. QED BY <1>1, <2>1, <2>3
<1>3. ASSUME (s + 1) % WriteFreq # 0 PROVE s + 1 # WriteFreq * (n + 1)
  BY <1>1, <1>3, MultipleIff
<1>. QED BY <1>1, <1>2, <1>3 DEF InInterval

LEMMA IncrementKeepsStoredMultiple ==
  ASSUME TypeOK, StoredMultiple, NEW n \in Nat, Increment(n)
  PROVE  StoredMultiple'
<1>1. /\ ssn \in Nat /\ failed \in Nat /\ WriteFreq \in Nat \ {0}
      /\ ssn' = n + 1 /\ ssn' \in Nat
  BY Types DEF Increment
<1>2. CASE ssn' % WriteFreq = 0 /\ stored' = ssn' /\ failed' = 0
  <2>1. PICK k \in Nat : ssn' = WriteFreq * k
    BY <1>1, <1>2, MultipleIff, Zenon
  <2>2. InInterval(k + failed', ssn')
    BY <1>1, <1>2, <2>1, MultipleSum DEF InInterval
  <2>. QED BY <1>2, <2>1, <2>2 DEF StoredMultiple
<1>3. CASE /\ failed' = IF ssn' % WriteFreq = 0 THEN failed + 1 ELSE failed
           /\ wrote' = (wrote /\ n = ssn) /\ UNCHANGED stored
  <2>. SUFFICES ASSUME wrote, n = ssn
                PROVE  \E q \in Nat :
                         /\ stored' = WriteFreq * q
                         /\ InInterval(q + failed', ssn')
    BY <1>3 DEF StoredMultiple
  <2>1. PICK q \in Nat : stored = WriteFreq * q /\ InInterval(q + failed, ssn)
    BY DEF StoredMultiple
  <2>2. CASE ssn' % WriteFreq = 0
    <3>1. InInterval(q + failed + 1, ssn + 1)
      BY <1>1, <2>1, <2>2, IntervalStep
    <3>2. q + failed' = q + failed + 1
      BY <1>1, <1>3, <2>2
    <3>. QED BY <1>1, <1>3, <2>1, <3>1, <3>2
  <2>3. CASE ssn' % WriteFreq # 0
    <3>1. InInterval(q + failed, ssn + 1)
      BY <1>1, <2>1, <2>3, IntervalStep
    <3>. QED BY <1>1, <1>3, <2>1, <2>3, <3>1
  <2>. QED BY <2>2, <2>3
<1>. QED BY <1>2, <1>3 DEF Increment

LEMMA StoredMultipleStep ==
  ASSUME TypeOK, StoredMultiple, [Next]_vars
  PROVE  StoredMultiple'
<1>1. ASSUME NEW n \in Nat, Increment(n) PROVE StoredMultiple'
  BY <1>1, IncrementKeepsStoredMultiple
<1>2. CASE UNCHANGED <<ssn, stored, wrote>> /\ UNCHANGED failed
  BY <1>2 DEF StoredMultiple
<1>3. CASE wrote' = FALSE
  BY <1>3 DEF StoredMultiple
<1>. QED BY <1>1, <1>2, <1>3, SsnStep

(* What is stored trails the SSN by less than an interval, and one more    *)
(* for each write that failed: the gap the padding has to cover.           *)
THEOREM StorageTrailsSsn == Spec => []StorageTrails
<1>1. Init => StoredMultiple
  BY DEF Init, StoredMultiple
<1>2. TypeOK /\ StoredMultiple /\ [Next]_vars => StoredMultiple'
  BY StoredMultipleStep
<1>3. TypeOK /\ StoredMultiple => StorageTrails
  <2>. SUFFICES ASSUME TypeOK, StoredMultiple, wrote
                PROVE  /\ stored <= ssn
                       /\ ssn < stored + WriteFreq * (failed + 1)
    BY DEF StorageTrails
  <2>1. PICK q \in Nat : stored = WriteFreq * q /\ InInterval(q + failed, ssn)
    BY DEF StoredMultiple
  <2>2. /\ WriteFreq \in Nat /\ failed \in Nat /\ ssn \in Nat
        /\ failed + 1 \in Nat /\ q + failed + 1 = q + (failed + 1)
    BY Types
  <2>3. /\ WriteFreq * (q + failed) = stored + WriteFreq * failed
        /\ WriteFreq * (q + (failed + 1)) = stored + WriteFreq * (failed + 1)
        /\ WriteFreq * failed \in Nat /\ stored \in Nat
        /\ WriteFreq * (failed + 1) \in Nat
    BY <2>1, <2>2, MultipleSum
  <2>. HIDE DEF StoredMultiple
  <2>. QED BY <2>1, <2>2, <2>3 DEF InInterval
<1>. QED BY <1>1, <1>2, <1>3, TypeCorrect, PTL DEF Spec

=============================================================================
