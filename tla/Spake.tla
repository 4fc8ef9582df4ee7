------------------------------- MODULE Spake -------------------------------
(***************************************************************************)
(* The SPAKE2+ handshake by which a management client and a device that is *)
(* not loaded agree on the key of an access token.  The client posts three *)
(* times: rnd for the parameters of the password, pa with its share, ca to *)
(* prove its key.  The device accepts a post at once and answers it later, *)
(* from a delayed callback, with one set of variables for all clients; it  *)
(* counts failures and refuses handshakes for a while after too many.      *)
(*                                                                         *)
(* A key is a record of what both sides put into it: equal records are     *)
(* equal keys, and a confirmation fits only the key it was made with.  The *)
(* wiped key is a value like the others.  The clients are those of         *)
(* oc_knx_client.c, which confirm only a key they made from a share.       *)
(***************************************************************************)
EXTENDS Integers, FiniteSets

CONSTANTS Client,
          Knows,         \* the clients that have the right password
          Named,         \* the clients that send their id
          rkey,          \* the id of the others
          Preloaded,     \* the device has stored parameters for its password
          FailureLimit,  \* 10 in is_handshake_blocked
          Capacity,      \* OC_MAX_NUM_CONCURRENT_REQUESTS
          TokenMax,      \* entries of auth/at that are left for handshakes
          MaxTries,      \* bound: handshakes each client starts
          zeros,         \* the value of a key that was wiped
          none           \* a value that is absent

ASSUME SpakeAssumption ==
  /\ Knows \subseteq Client /\ Named \subseteq Client /\ Preloaded \in BOOLEAN
  /\ FailureLimit \in Nat /\ Capacity \in Nat \ {0} /\ TokenMax \in Nat
  /\ MaxTries \in [Client -> Nat]

VARIABLES
  client,         \* per client: phase, try, the password's w and the key
  requests,       \* posts under way
  answers,        \* answers under way
  pase,           \* g_pase: id, pa, pb, ca, salt
  K_main,         \* spake_data.K_main
  valid_request,  \* the kind of the last accepted post
  stored,         \* spake_separate_rsp: the posts that wait for an answer
  callbacks,      \* delayed calls of the separate handler
  failed,         \* failed_handshake_count
  is_blocking,
  unloaded,       \* the load state machine is in state unloaded
  tokens,         \* the access tokens the handshake made
  fresh,          \* the next random value
  disturbed       \* clients whose handshake a foreign post interrupted

deviceVars == <<pase, K_main, valid_request, stored, callbacks, tokens, fresh>>
vars == <<client, requests, answers, deviceVars, failed, is_blocking, unloaded, disturbed>>

Kinds == {"rnd", "pa", "ca"}
Share == UNION {{c} \X (1 .. MaxTries[c]) : c \in Client}
Junk == -1  \* a salt that was never set
W == [good : BOOLEAN, salt : Nat \cup {Junk}]
Key == [pa : (Share \cup {none}), pb : Nat, w : W]
Confirmation == [key : Key, pb : Nat]
Id == Client \cup {rkey}
RequestId == Share \X Kinds
ClientState == [phase : Kinds \cup {"idle", "done", "failed"}, try : Nat,
                w : W \cup {none}, key : Key \cup {none}]
RequestMessage == [id : RequestId, name : Id \cup {none}, pa : Share \cup {none},
                   ca : Confirmation \cup {none}]
AnswerMessage == [to : RequestId, code : {"changed", "bad", "unavailable"},
                  kind : Kinds \cup {none}, value : Nat]

ASSUME NoneAssumption ==
  none \notin Kinds \cup Id \cup Share \cup W \cup Key \cup {zeros}
            \cup [key : Key \cup {zeros}, pb : Nat]

TypeOK ==
  /\ client \in [Client -> ClientState]
  /\ \A c \in Client : client[c].try <= MaxTries[c]
  /\ requests \subseteq RequestMessage /\ answers \subseteq AnswerMessage
  /\ pase \in [id : Id \cup {none}, pa : Share \cup {none}, pb : Nat,
               ca : Confirmation \cup {none}, salt : Nat]
  /\ K_main \in Key \cup {zeros}
  /\ valid_request \in Kinds \cup {none}
  /\ stored \subseteq RequestId
  /\ IsFiniteSet(stored) /\ Cardinality(stored) <= Capacity
  /\ callbacks \in Nat /\ failed \in Nat
  /\ is_blocking \in BOOLEAN /\ unloaded \in BOOLEAN
  /\ tokens \subseteq [id : Id, key : Key \cup {zeros}]
  /\ fresh \in Nat /\ disturbed \subseteq Client

-----------------------------------------------------------------------------
(* The client.                                                             *)

UnderWay(c) == client[c].phase \in Kinds

\* What a post carries: the id goes with rnd, pa and ca go alone.
Request(c, try, kind, ca) ==
  [id   |-> <<<<c, try>>, kind>>,
   name |-> IF kind = "rnd" /\ c \in Named THEN c ELSE none,
   pa   |-> IF kind = "pa" THEN <<c, try>> ELSE none,
   ca   |-> ca]

\* The id of the token a client expects.
IdOf(c) == IF c \in Named THEN c ELSE rkey

\* The request a client waits for.
Current(c) == <<<<c, client[c].try>>, client[c].phase>>

\* oc_initiate_spake_parameter_request
Start(c) ==
  LET try == client[c].try + 1
  IN  /\ ~UnderWay(c) /\ try <= MaxTries[c]
      /\ client' = [client EXCEPT ![c] =
                      [phase |-> "rnd", try |-> try, w |-> none, key |-> none]]
      /\ requests' = requests \cup {Request(c, try, "rnd", none)}
      /\ UNCHANGED <<answers, deviceVars, failed, is_blocking, unloaded, disturbed>>

\* The handshake is over and its values are freed; an answer that comes now
\* is for nobody.
Ends(c, phase) ==
  /\ client' = [client EXCEPT ![c] = [@ EXCEPT !.phase = phase, !.w = none, !.key = none]]
  /\ answers' = {a \in answers : a.to # Current(c)}
  /\ disturbed' = disturbed \ {c}

\* do_credential_exchange.  An answer without parameters leaves the salt
\* uninitialised: the client stops, or takes what it finds for a salt.
ExchangeCredentials(c, a) ==
  \E salt \in (IF a.kind = "rnd" THEN {a.value} ELSE {Junk}) :
    /\ client' = [client EXCEPT ![c] =
                    [@ EXCEPT !.phase = "pa",
                              !.w = [good |-> c \in Knows, salt |-> salt]]]
    /\ requests' = requests \cup {Request(c, client[c].try, "pa", none)}

\* do_credential_verification
VerifyCredentials(c, a) ==
  LET key == [pa |-> <<c, client[c].try>>, pb |-> a.value, w |-> client[c].w]
  IN  /\ client' = [client EXCEPT ![c] = [@ EXCEPT !.phase = "ca", !.key = key]]
      /\ requests' = requests \cup
           {Request(c, client[c].try, "ca", [key |-> key, pb |-> a.value])}

\* The answer to the request the client waits for; the client goes by what it
\* asked, not by what the answer has.
GetAnswer(c) ==
  \E a \in answers :
    /\ a.to = Current(c)
    /\ \/ /\ a.code = "changed"
          /\ \/ client[c].phase = "rnd" /\ ExchangeCredentials(c, a)
             \/ client[c].phase = "pa" /\ a.kind = "pa" /\ VerifyCredentials(c, a)
          /\ answers' = answers \ {a} /\ UNCHANGED disturbed
       \/ /\ a.code # "changed" \/ client[c].phase \in {"rnd", "pa"} \ {a.kind}
          /\ Ends(c, "failed") /\ UNCHANGED requests
       \/ \* finish_spake_handshake
          /\ a.code = "changed" /\ client[c].phase = "ca"
          /\ Ends(c, "done") /\ UNCHANGED requests
    /\ UNCHANGED <<deviceVars, failed, is_blocking, unloaded>>

\* No answer came in time; what is under way may still arrive.
GiveUp(c) ==
  /\ UnderWay(c)
  /\ Ends(c, "failed")
  /\ UNCHANGED <<requests, deviceVars, failed, is_blocking, unloaded>>

-----------------------------------------------------------------------------
(* The device: oc_core_knx_spake_post_handler.                             *)

\* An answer reaches the client if it still waits for it.
Send(ids, code, kind, val) ==
  answers' = answers \cup
    {[to |-> id, code |-> code, kind |-> kind, value |-> val] :
       id \in {i \in ids : \E c \in Client : i = Current(c)}}

\* is_handshake_blocked
Blocked == is_blocking \/ failed > FailureLimit

PostLoaded(r) ==
  /\ ~unloaded
  /\ Send({r.id}, "bad", none, 0)
  /\ UNCHANGED <<deviceVars, is_blocking, disturbed>>

PostBlocked(r) ==
  /\ unloaded /\ Blocked
  /\ is_blocking' = TRUE
  /\ Send({r.id}, "unavailable", none, 0)
  /\ UNCHANGED <<deviceVars, disturbed>>

Given(field, old) == IF field = none THEN old ELSE field

\* Mutant: the default id does not replace a known one.
ParsedKeepId(r) ==
  [pase EXCEPT !.id = Given(r.name, IF r.id[2] = "rnd" /\ @ = none THEN rkey ELSE @),
               !.pa = Given(r.pa, @),
               !.ca = Given(r.ca, @)]

\* What the handler reads from the payload: every field that is there, and
\* for rnd the default id unless the post has one.
Parsed(r) ==
  [pase EXCEPT !.id = Given(r.name, IF r.id[2] = "rnd" THEN rkey ELSE @),
               !.pa = Given(r.pa, @),
               !.ca = Given(r.ca, @)]

FreeStore == Cardinality(stored) < Capacity

\* coap_separate_accept: without a free store the post gets no answer.
Accept(r) ==
  /\ unloaded /\ ~Blocked
  /\ valid_request' = r.id[2]
  /\ pase' = Parsed(r)
  /\ stored' = IF FreeStore THEN stored \cup {r.id} ELSE stored
  /\ callbacks' = callbacks + 1
  /\ disturbed' = disturbed \cup {c \in Client : UnderWay(c) /\ Current(c) # r.id}
  /\ UNCHANGED <<answers, K_main, tokens, fresh, is_blocking>>

\* A post of some other client, with none of rnd, pa and ca: it is refused, but
\* valid_request is cleared, also for the posts that wait.
PostNothing ==
  /\ unloaded
  /\ is_blocking' = Blocked
  /\ \/ Blocked /\ UNCHANGED <<valid_request, disturbed>>
     \/ /\ ~Blocked /\ valid_request' = none
        /\ disturbed' = disturbed \cup {c \in Client : UnderWay(c)}
  /\ UNCHANGED <<client, requests, answers, pase, K_main, stored, callbacks, tokens, fresh,
                 failed, unloaded>>

Post ==
  \E r \in requests :
    /\ requests' = requests \ {r}
    /\ PostLoaded(r) \/ PostBlocked(r) \/ Accept(r)
    /\ UNCHANGED <<client, failed, unloaded>>

-----------------------------------------------------------------------------
(* The device: oc_core_knx_spake_separate_post_handler.                    *)

\* oc_send_separate_response: one answer for every post that waits.
AnswerAll(code, kind, val) ==
  /\ Send(stored, code, kind, val)
  /\ stored' = {}

\* The values of the handshake are cleared, but for the id.
Wipe ==
  /\ pase' = [pase EXCEPT !.pa = none, !.pb = 0, !.ca = none, !.salt = 0]
  /\ K_main' = zeros

GiveParameters ==
  LET salt == IF Preloaded THEN 1 ELSE fresh
  IN  /\ valid_request = "rnd"
      /\ pase' = [pase EXCEPT !.salt = salt]
      /\ fresh' = fresh + 1
      /\ AnswerAll("changed", "rnd", salt)
      /\ UNCHANGED <<K_main, failed, tokens>>

\* oc_spake_get_w0_L: of the stored parameters, or of the password and salt.
W0 == [good |-> TRUE, salt |-> IF Preloaded THEN 1 ELSE pase.salt]

GiveShare ==
  /\ valid_request = "pa"
  /\ pase' = [pase EXCEPT !.pb = fresh]
  /\ K_main' = [pa |-> pase.pa, pb |-> fresh, w |-> W0]
  /\ fresh' = fresh + 1
  /\ AnswerAll("changed", "pa", fresh)
  /\ UNCHANGED <<failed, tokens>>

Confirms == pase.ca = [key |-> K_main, pb |-> pase.pb]

\* oc_oscore_set_auth_shared: the token takes the entry with its id, else a free
\* one; without one it is not kept.
TokensWith(old, new) ==
  LET others == {t \in old : t.id # new.id}
  IN  IF others # old \/ Cardinality(old) < TokenMax THEN others \cup {new} ELSE old

MakeToken ==
  /\ valid_request = "ca" /\ Confirms
  /\ tokens' = TokensWith(tokens, [id |-> pase.id, key |-> K_main])
  /\ AnswerAll("changed", none, 0)
  /\ Wipe
  /\ UNCHANGED <<failed, fresh>>

\* The key is not proved, the cryptography fails, or the last post had nothing.
HandshakeFails ==
  /\ \/ valid_request \in {"pa", none}
     \/ valid_request = "ca" /\ ~Confirms
  /\ failed' = failed + 1
  /\ AnswerAll("bad", none, 0)
  /\ Wipe
  /\ UNCHANGED <<tokens, fresh>>

\* Mutant: the handler works though nobody waits any more.
AlwaysActive == TRUE

Active == stored # {}

Separate ==
  /\ callbacks > 0
  /\ callbacks' = callbacks - 1
  /\ \/ Active /\ (GiveParameters \/ GiveShare \/ MakeToken \/ HandshakeFails)
     \/ ~Active /\ UNCHANGED <<answers, stored, pase, K_main, failed, tokens, fresh>>
  /\ UNCHANGED <<client, requests, valid_request, is_blocking, unloaded, disturbed>>

\* Mutant: the count stops at one.
CountStops == failed > 1

Counts == failed > 0

\* decrement_counter
Decrement ==
  /\ failed' = IF Counts THEN failed - 1 ELSE failed
  /\ is_blocking' = (is_blocking /\ failed' # 0)
  /\ UNCHANGED <<client, requests, answers, deviceVars, unloaded, disturbed>>

\* The device is loaded: the handshake is no longer offered.
Load ==
  /\ unloaded /\ unloaded' = FALSE
  /\ UNCHANGED <<client, requests, answers, deviceVars, failed, is_blocking, disturbed>>

-----------------------------------------------------------------------------
Init ==
  /\ client = [c \in Client |-> [phase |-> "idle", try |-> 0, w |-> none, key |-> none]]
  /\ requests = {} /\ answers = {}
  /\ pase = [id |-> none, pa |-> none, pb |-> 0, ca |-> none, salt |-> 0]
  /\ K_main = zeros /\ valid_request = none
  /\ stored = {} /\ callbacks = 0
  /\ failed = 0 /\ is_blocking = FALSE /\ unloaded = TRUE
  /\ tokens = {} /\ fresh = 2 /\ disturbed = {}

Next ==
  \/ \E c \in Client : Start(c) \/ GetAnswer(c) \/ GiveUp(c)
  \/ Post \/ PostNothing \/ Separate \/ Decrement \/ Load

Fairness == WF_vars(Decrement)

Spec == Init /\ [][Next]_vars
FairSpec == Spec /\ Fairness

-----------------------------------------------------------------------------
HasToken(c) == [id |-> IdOf(c), key |-> client[c].key] \in tokens

\* There is no entry for a token with this id.
NoEntry(id) == ~(Cardinality(tokens) < TokenMax) /\ \A t \in tokens : t.id # id

Confirmed(c) == client[c].phase = "ca" /\ client'[c].phase = "done"

\* A client that ends a handshake nobody interrupted shares its key with the
\* device, under its id, or the table had no entry for it, whatever became of
\* earlier handshakes, late posts and answers.
UndisturbedIsShared ==
  [][\A c \in Client \ disturbed :
       Confirmed(c) => HasToken(c) \/ NoEntry(IdOf(c))]_vars

\* A client with the password is not told that its key is wrong, unless another
\* post came in between or the device is loaded: nothing the device keeps from
\* other handshakes, no late callback and no random value gets in.
TrueKeysPass ==
  \A c \in Knows \ disturbed, a \in answers :
    client[c].phase = "ca" /\ a.to = Current(c) /\ a.code = "bad" => ~unloaded

\* However many posts wait when a handshake fails, the count of failures passes
\* its limit by one at most: the device blocks no longer than that takes (with
\* the limit of 10, eleven steps of ten seconds; the comment at oc_knx.c:1227
\* speaks of ten failures and one minute).
FailuresBounded == failed <= FailureLimit + 1

\* A device that blocks offers the handshake again.
BlockingEnds == is_blocking ~> ~is_blocking
=============================================================================
