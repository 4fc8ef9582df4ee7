----------------------------- MODULE OscoreSsn -----------------------------
(***************************************************************************)
(* The sender sequence number (SSN) of one OSCORE sender context: taken as *)
(* the Partial IV of what the device sends, incremented, written to        *)
(* persistent storage every OSCORE_SSN_WRITE_FREQ_K steps, and set again   *)
(* whenever the context is rebuilt from the access-token table: after a    *)
(* restart, after a change of the table and after a reset that keeps the   *)
(* token.  The token, and with it the sender key, outlives all of these.   *)
(*                                                                         *)
(* A confirmable request is encrypted anew for each of its transmissions,  *)
(* because its transaction keeps the plain message.                        *)
(*                                                                         *)
(* An application may set the number of the next request itself            *)
(* (oc_oscore_set_next_ssn; no program of the repository does).            *)
(***************************************************************************)
EXTENDS Integers

CONSTANTS Request,        \* confirmable client requests, one transaction each
          WriteFreq,      \* OSCORE_SSN_WRITE_FREQ_K (32)
          PadFactor,      \* OSCORE_SSN_PAD_F in units of WriteFreq (4)
          MaxRetransmit,  \* COAP_MAX_RETRANSMIT (4)
          Chosen,         \* the numbers an application sets
          MaxSsn,         \* bound of the model: no transmission beyond it
          MaxRebuilds     \* bound of the model: contexts built after the first,
                          \* and numbers an application sets

ASSUME SsnAssumption ==
  /\ WriteFreq \in Nat \ {0} /\ PadFactor \in Nat
  /\ MaxRetransmit \in Nat \ {0} /\ MaxSsn \in Nat /\ MaxRebuilds \in Nat
  /\ Chosen \subseteq 0 .. MaxSsn
  /\ WriteFreq + PadFactor * WriteFreq <= MaxSsn + 1

VARIABLES
  ssn,       \* ctx->ssn
  g_ssn,     \* the number set for the next request, if any
  stored,    \* the SSN in persistent storage, 0 while there is none
  failed,    \* storage writes that failed since the last one that succeeded
  wrote,     \* whether the SSN was written since it was set
  rebuilds,  \* how often the context was rebuilt or a number set
  counter,   \* retrans_counter of each request's transaction
  open,      \* requests with a transaction
  piv,       \* the Partial IV kept in each request's client callback
  last,      \* history: the Partial IV of the last message when it is new
  top,       \* history: the highest such of this context, before the last
  past       \* history: the highest such before the SSN was set back

history == <<last, top, past>>
vars == <<ssn, g_ssn, stored, failed, wrote, rebuilds, counter, open, piv, last, top,
          past>>

Pad == PadFactor * WriteFreq    \* OSCORE_SSN_PAD_F
NoPiv == -1

PivOrNone == NoPiv .. MaxSsn
Highest(a, b) == IF a > b THEN a ELSE b

TypeOK ==
  /\ ssn \in 0 .. MaxSsn + 1
  /\ g_ssn \in PivOrNone
  /\ stored \in 0 .. MaxSsn + 1
  /\ failed \in Nat
  /\ wrote \in BOOLEAN
  /\ rebuilds \in 0 .. MaxRebuilds
  /\ counter \in [Request -> 0 .. MaxRetransmit - 1]
  /\ open \subseteq Request
  /\ piv \in [Request -> PivOrNone]
  /\ last \in PivOrNone /\ top \in PivOrNone /\ past \in PivOrNone

Init ==
  /\ ssn = 0 /\ g_ssn = NoPiv
  /\ stored = 0
  /\ failed = 0
  /\ wrote = FALSE
  /\ rebuilds = 0
  /\ counter = [r \in Request |-> 0]
  /\ open = {}
  /\ piv = [r \in Request |-> NoPiv]
  /\ last = NoPiv /\ top = NoPiv /\ past = NoPiv

----------------------------------------------------------------------------
(* The application sets the number of the next request.                    *)
SetNextSsn(n) ==
  /\ rebuilds < MaxRebuilds
  /\ g_ssn' = n
  /\ rebuilds' = rebuilds + 1
  /\ UNCHANGED <<ssn, stored, failed, wrote, counter, open, piv, history>>

(* It is global: a request on another context takes it as well.            *)
TakenElsewhere ==
  /\ g_ssn # NoPiv /\ g_ssn' = NoPiv
  /\ UNCHANGED <<ssn, stored, failed, wrote, rebuilds, counter, open, piv, history>>

(* An answer, on this context or another, asks for an Echo: the number set *)
(* is raised before the request is sent again.                             *)
RaiseNextSsn ==
  /\ g_ssn # NoPiv /\ g_ssn < MaxSsn
  /\ g_ssn' = g_ssn + 1
  /\ UNCHANGED <<ssn, stored, failed, wrote, rebuilds, counter, open, piv, history>>

(* The number a request is sent with.                                      *)
Number == IF g_ssn = NoPiv THEN ssn ELSE g_ssn

(* Mutant: the SSN is stored only once.                                    *)
IncrementStoringOnce(n) ==
  /\ ssn' = n + 1
  /\ IF ssn' = WriteFreq
     THEN stored' = ssn' /\ failed' = 0 /\ wrote' = TRUE
     ELSE wrote' = (wrote /\ n = ssn) /\ UNCHANGED <<stored, failed>>

(* increment_ssn_in_context, where the SSN is n.  Nothing looks at whether *)
(* the write failed.                                                       *)
Increment(n) ==
  /\ ssn' = n + 1
  /\ \/ /\ ssn' % WriteFreq = 0
        /\ stored' = ssn' /\ failed' = 0 /\ wrote' = TRUE
     \/ /\ failed' = IF ssn' % WriteFreq = 0 THEN failed + 1 ELSE failed
        /\ wrote' = (wrote /\ n = ssn)
        /\ UNCHANGED stored

(* What the history takes for the present context: a number that goes back *)
(* begins a new one.                                                       *)
HighestUsed == Highest(past, Highest(top, last))

(* A new message goes out with the Partial IV n.                           *)
Transmit(n) ==
  /\ n <= MaxSsn
  /\ last' = n
  /\ top' = IF n < ssn THEN NoPiv ELSE Highest(top, last)
  /\ past' = IF n < ssn THEN HighestUsed ELSE past

(* Mutant: a request increments only when it has no transaction.           *)
SendRequestKeepingSsn(r) ==
  /\ counter[r] = 0 /\ piv[r] = NoPiv
  /\ Transmit(Number)
  /\ open' = open \cup {r}
  /\ piv' = [piv EXCEPT ![r] = Number]
  /\ UNCHANGED <<ssn, g_ssn, stored, failed, wrote, rebuilds, counter>>

(* A confirmable request: a transaction with retrans_counter 0.            *)
SendRequest(r) ==
  /\ counter[r] = 0 /\ piv[r] = NoPiv
  /\ Transmit(Number)
  /\ Increment(Number)
  /\ g_ssn' = NoPiv
  /\ open' = open \cup {r}
  /\ piv' = [piv EXCEPT ![r] = Number]
  /\ UNCHANGED <<rebuilds, counter>>

(* The answer asks for an Echo: the request goes out as a new one, with a  *)
(* new transaction and the same client callback.                           *)
SendWithEcho(r) ==
  /\ r \in open
  /\ Transmit(Number)
  /\ Increment(Number)
  /\ g_ssn' = NoPiv
  /\ counter' = [counter EXCEPT ![r] = 0]
  /\ piv' = [piv EXCEPT ![r] = Number]
  /\ UNCHANGED <<rebuilds, open>>

(* A retransmission takes the present SSN, or the number that is set, and  *)
(* does not increment it.                                                  *)
RepeatWith(r, n) ==
  /\ n <= MaxSsn
  /\ counter' = [counter EXCEPT ![r] = @ + 1]
  /\ ssn' = n /\ g_ssn' = NoPiv
  /\ wrote' = (wrote /\ n = ssn)
  /\ piv' = [piv EXCEPT ![r] = n]
  /\ \/ n >= ssn /\ UNCHANGED history
     \/ n < ssn /\ last' = NoPiv /\ top' = NoPiv /\ past' = HighestUsed
  /\ UNCHANGED <<stored, failed, rebuilds, open>>

(* Mutant: one retransmission too many.                                    *)
RetransmitTooOften(r) ==
  /\ r \in open /\ counter[r] < MaxRetransmit
  /\ RepeatWith(r, Number)

(* coap_check_transactions: the retransmission passes through              *)
(* oc_oscore_send_message again, which overwrites the Partial IV of the    *)
(* client callback.                                                        *)
Retransmit(r) ==
  /\ r \in open /\ counter[r] + 1 < MaxRetransmit
  /\ RepeatWith(r, Number)

(* The response clears the transaction; so does the last timeout.          *)
EndTransaction(r) ==
  /\ r \in open
  /\ open' = open \ {r}
  /\ UNCHANGED <<ssn, g_ssn, stored, failed, wrote, rebuilds, counter, piv, history>>

(* A multicast request or a request without transaction.                   *)
SendOther ==
  /\ Transmit(Number)
  /\ Increment(Number)
  /\ g_ssn' = NoPiv
  /\ UNCHANGED <<rebuilds, counter, open, piv>>

(* An empty acknowledgement or a separate response: the number that is set *)
(* is not for them.                                                        *)
SendSeparate ==
  /\ Transmit(ssn)
  /\ Increment(ssn)
  /\ UNCHANGED <<g_ssn, rebuilds, counter, open, piv>>

(* A piggybacked response uses the Partial IV of its request, yet          *)
(* increments the SSN.                                                     *)
SendResponse ==
  /\ ssn <= MaxSsn
  /\ Increment(ssn)
  /\ UNCHANGED <<g_ssn, rebuilds, counter, open, piv, history>>

(* oc_oscore_add_context, always called with the SSN 0.                    *)
Rebuild(fromStorage) ==
  /\ rebuilds < MaxRebuilds
  /\ ssn' = IF fromStorage THEN WriteFreq + Pad ELSE 0
  /\ wrote' = FALSE
  /\ rebuilds' = rebuilds + 1
  /\ past' = HighestUsed
  /\ last' = NoPiv
  /\ top' = NoPiv
  /\ UNCHANGED stored

(* The device stops at any time and starts again: oc_load_at_table.        *)
Restart ==
  /\ Rebuild(TRUE)
  /\ failed' = 0 /\ g_ssn' = NoPiv
  /\ counter' = [r \in Request |-> 0]
  /\ open' = {}
  /\ piv' = [r \in Request |-> NoPiv]

(* oc_reset_at_table with erase code 7 rebuilds what it keeps.             *)
ResetKeepingToken ==
  /\ Rebuild(TRUE)
  /\ UNCHANGED <<g_ssn, failed, counter, open, piv>>

(* oc_core_set_at_table, for whichever entry, rebuilds every context.      *)
SetAtTable ==
  /\ Rebuild(FALSE)
  /\ UNCHANGED <<g_ssn, failed, counter, open, piv>>

Next ==
  \/ \E n \in Chosen : SetNextSsn(n)
  \/ TakenElsewhere \/ RaiseNextSsn
  \/ \E r \in Request :
       SendRequest(r) \/ SendWithEcho(r) \/ Retransmit(r) \/ EndTransaction(r)
  \/ SendOther \/ SendSeparate \/ SendResponse
  \/ Restart \/ ResetKeepingToken \/ SetAtTable

Spec == Init /\ [][Next]_vars

----------------------------------------------------------------------------
(* One context never gives two new messages the same Partial IV, whatever  *)
(* is sent in between: each takes a higher one, until the application sets *)
(* a lower one.                                                            *)
NewMessagesDiffer == last # NoPiv => last > top

(* Once the SSN was written, the stored value trails it by less than       *)
(* WriteFreq, and by WriteFreq more for each failed write, until it is set *)
(* again: what the padding of a rebuilt context is meant to absorb.        *)
StorageTrails ==
  wrote => stored <= ssn /\ ssn < stored + WriteFreq * (failed + 1)

(* What the comment at oc_oscore_add_context says of the bump: a rebuilt   *)
(* context does not give a new message an SSN that an earlier one used.    *)
NoReuseAfterRebuild == last # NoPiv => last > past
============================================================================
