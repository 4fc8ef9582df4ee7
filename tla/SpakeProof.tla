----------------------------- MODULE SpakeProof -----------------------------
(***************************************************************************)
(* What a client may conclude from the end of its handshake and how long   *)
(* the device refuses, for every set of clients and of those that know the *)
(* password, every limit of failures, every number of concurrent posts and *)
(* of entries for tokens.                                                  *)
(***************************************************************************)
EXTENDS Spake, FiniteSetTheorems, TLAPS

(* What an absent value is not.                                            *)
LEMMA Absent ==
  /\ none \notin Kinds /\ none \notin Id /\ none \notin Share
  /\ none \notin W /\ none \notin Key /\ none \notin Confirmation
BY NoneAssumption DEF Confirmation

(* A share names its client and one of its tries.                          *)
LEMMA Shares ==
  /\ \A s \in Share : /\ s[1] \in Client /\ s[2] \in 1 .. MaxTries[s[1]] /\ s[2] \in Nat
                      /\ s = <<s[1], s[2]>>
  /\ \A c \in Client, k \in Nat : k > 0 /\ k <= MaxTries[c] => <<c, k>> \in Share
<1>1. \A c \in Client : MaxTries[c] \in Nat
  BY SpakeAssumption
<1>. QED BY <1>1 DEF Share

(* A client that has a handshake under way has started one.                *)
Begun == \A c \in Client : UnderWay(c) => client[c].try > 0

LEMMA CurrentId ==
  ASSUME TypeOK, Begun, NEW c \in Client, UnderWay(c)
  PROVE  <<c, client[c].try>> \in Share /\ Current(c) \in RequestId
<1>1. client[c].try \in Nat /\ client[c].try <= MaxTries[c]
  BY DEF TypeOK, ClientState
<1>. QED BY <1>1, Shares DEF Begun, Current, RequestId, UnderWay

(* A post has the shape of one.                                            *)
LEMMA RequestTypes ==
  ASSUME NEW c \in Client, NEW try, <<c, try>> \in Share, NEW kind \in Kinds,
         NEW ca \in Confirmation \cup {none}
  PROVE  Request(c, try, kind, ca) \in RequestMessage
<1>1. <<<<c, try>>, kind>> \in RequestId
  BY DEF RequestId
<1>2. (IF kind = "rnd" /\ c \in Named THEN c ELSE none) \in Id \cup {none}
  BY DEF Id
<1>3. (IF kind = "pa" THEN <<c, try>> ELSE none) \in Share \cup {none}
  OBVIOUS
<1>. QED BY <1>1, <1>2, <1>3 DEF Request, RequestMessage

(* Answers to posts keep their shape.                                      *)
LEMMA SendTypes ==
  ASSUME TypeOK, NEW ids \in SUBSET RequestId, NEW code \in {"changed", "bad", "unavailable"},
         NEW kind \in Kinds \cup {none}, NEW val \in Nat, Send(ids, code, kind, val)
  PROVE  answers' \subseteq AnswerMessage
BY DEF TypeOK, Send, AnswerMessage

(* The steps of a client keep the types.                                   *)
LEMMA StartTypes ==
  ASSUME TypeOK, Begun, NEW c \in Client, Start(c)
  PROVE  TypeOK' /\ Begun'
<1>. DEFINE try == client[c].try + 1
            new == [phase |-> "rnd", try |-> try, w |-> none, key |-> none]
            post == Request(c, try, "rnd", none)
<1>1. /\ client' = [client EXCEPT ![c] = new] /\ requests' = requests \cup {post}
      /\ try <= MaxTries[c]
      /\ UNCHANGED <<answers, pase, K_main, valid_request, stored, callbacks, tokens, fresh,
                     failed, is_blocking, unloaded, disturbed>>
  BY DEF Start, deviceVars
<1>2. try \in Nat /\ try > 0
  BY DEF TypeOK, ClientState
<1>3. <<c, try>> \in Share
  BY <1>1, <1>2, Shares
<1>4. new \in ClientState /\ new.try = try /\ post \in RequestMessage
  BY <1>2, <1>3, RequestTypes DEF ClientState, Kinds
<1>. HIDE DEF try, new, post
<1>5. /\ client' \in [Client -> ClientState]
      /\ \A d \in Client : client'[d].try <= MaxTries[d]
  BY <1>1, <1>4 DEF TypeOK
<1>6. requests' \subseteq RequestMessage
  BY <1>1, <1>4 DEF TypeOK
<1>7. Begun'
  BY <1>1, <1>2, <1>4 DEF TypeOK, Begun, UnderWay
<1>. QED BY <1>1, <1>5, <1>6, <1>7 DEF TypeOK

LEMMA EndsTypes ==
  ASSUME TypeOK, NEW c \in Client, NEW phase \in {"done", "failed"}, Ends(c, phase)
  PROVE  /\ client' \in [Client -> ClientState]
         /\ client'[c].phase = phase
         /\ \A d \in Client : client'[d].try = client[d].try
         /\ \A d \in Client \ {c} : client'[d] = client[d]
         /\ answers' \subseteq answers /\ disturbed' = disturbed \ {c}
<1>. DEFINE new == [client[c] EXCEPT !.phase = phase, !.w = none, !.key = none]
<1>0. answers' \subseteq answers /\ disturbed' = disturbed \ {c}
  <2>1. answers' = {a \in answers : a.to # Current(c)}
    BY DEF Ends
  <2>2. disturbed' = disturbed \ {c}
    BY DEF Ends
  <2>. QED BY <2>1, <2>2
<1>1. client' = [client EXCEPT ![c] = new]
  BY DEF Ends, TypeOK
<1>2. new \in ClientState /\ new.try = client[c].try /\ new.phase = phase
  BY DEF TypeOK, ClientState
<1>. HIDE DEF new
<1>. QED BY <1>0, <1>1, <1>2 DEF TypeOK

(* What an answer makes the client do next: it posts again, with the key   *)
(* it has made from the device's share.                                    *)
LEMMA PostsCredentials ==
  ASSUME TypeOK, Begun, NEW c \in Client, NEW a \in answers,
         client[c].phase = "rnd", ExchangeCredentials(c, a)
  PROVE  /\ client' \in [Client -> ClientState]
         /\ client'[c].phase = "pa" /\ client'[c].w \in W
         /\ a.kind = "rnd" => client'[c].w = [good |-> c \in Knows, salt |-> a.value]
         /\ \A d \in Client : client'[d].try = client[d].try
         /\ \A d \in Client \ {c} : client'[d] = client[d]
         /\ Request(c, client[c].try, "pa", none) \in RequestMessage
         /\ requests' = requests \cup {Request(c, client[c].try, "pa", none)}
<1>1. PICK salt \in Nat \cup {Junk} :
        /\ a.kind = "rnd" => salt = a.value
        /\ client' = [client EXCEPT ![c] =
                        [@ EXCEPT !.phase = "pa", !.w = [good |-> c \in Knows, salt |-> salt]]]
        /\ requests' = requests \cup {Request(c, client[c].try, "pa", none)}
  BY DEF ExchangeCredentials, TypeOK, AnswerMessage
<1>. DEFINE w == [good |-> c \in Knows, salt |-> salt]
            new == [client[c] EXCEPT !.phase = "pa", !.w = w]
<1>2. (c \in Knows) \in BOOLEAN
  OBVIOUS
<1>3. w \in W
  BY <1>2 DEF W
<1>4. a.kind = "rnd" => w = [good |-> c \in Knows, salt |-> a.value]
  BY <1>1
<1>5. client' = [client EXCEPT ![c] = new]
  BY <1>1 DEF TypeOK
<1>. HIDE DEF w
<1>6. new \in ClientState /\ new.try = client[c].try /\ new.phase = "pa" /\ new.w = w
  BY <1>3 DEF TypeOK, ClientState, Kinds
<1>. HIDE DEF new
<1>7. Request(c, client[c].try, "pa", none) \in RequestMessage
  BY CurrentId, RequestTypes DEF UnderWay, Kinds
<1>. QED BY <1>1, <1>3, <1>4, <1>5, <1>6, <1>7 DEF TypeOK

LEMMA PostsConfirmation ==
  ASSUME TypeOK, Begun, NEW c \in Client, NEW a \in answers,
         client[c].phase = "pa", client[c].w # none, VerifyCredentials(c, a)
  PROVE  \E key \in Key :
           /\ key = [pa |-> <<c, client[c].try>>, pb |-> a.value, w |-> client[c].w]
           /\ client' \in [Client -> ClientState]
           /\ client'[c].phase = "ca" /\ client'[c].key = key /\ client'[c].w = client[c].w
           /\ \A d \in Client : client'[d].try = client[d].try
           /\ \A d \in Client \ {c} : client'[d] = client[d]
           /\ Request(c, client[c].try, "ca", [key |-> key, pb |-> a.value]) \in RequestMessage
           /\ requests' = requests \cup
                {Request(c, client[c].try, "ca", [key |-> key, pb |-> a.value])}
<1>. DEFINE key == [pa |-> <<c, client[c].try>>, pb |-> a.value, w |-> client[c].w]
            new == [client[c] EXCEPT !.phase = "ca", !.key = key]
            post == Request(c, client[c].try, "ca", [key |-> key, pb |-> a.value])
<1>1. client' = [client EXCEPT ![c] = new] /\ requests' = requests \cup {post}
  BY DEF VerifyCredentials, TypeOK
<1>2. a.value \in Nat /\ client[c].w \in W /\ <<c, client[c].try>> \in Share
  BY CurrentId DEF TypeOK, AnswerMessage, ClientState, UnderWay, Kinds
<1>3. key \in Key /\ key = [pa |-> <<c, client[c].try>>, pb |-> a.value, w |-> client[c].w]
  BY <1>2 DEF Key
<1>. HIDE DEF key
<1>4. /\ new \in ClientState /\ new.try = client[c].try /\ new.phase = "ca"
      /\ new.key = key /\ new.w = client[c].w
  BY <1>3 DEF TypeOK, ClientState, Kinds
<1>5. post \in RequestMessage
  <2>1. [key |-> key, pb |-> a.value] \in Confirmation
    BY <1>2, <1>3 DEF Confirmation
  <2>. QED BY <1>2, <2>1, RequestTypes DEF Kinds
<1>. HIDE DEF new
<1>. QED BY <1>1, <1>3, <1>4, <1>5 DEF TypeOK
----------------------------------------------------------------------------
(* A post waits for its answer only if it was accepted while the count of  *)
(* failures allowed it; with each failure all posts that wait are answered.*)
WaitingAllowed ==
  /\ failed \in Nat
  /\ stored # {} => failed <= FailureLimit
  /\ FailuresBounded

(* A client that is on to the second post has parameters for its password. *)
HasParameters ==
  \A c \in Client : client[c].phase \in {"pa", "ca"} => client[c].w # none

(* A post under way has the fields of its kind.                            *)
FieldsOwn ==
  \A r \in requests : r = Request(r.id[1][1], r.id[1][2], r.id[2], r.ca)

(* Before the first post that names a client nothing was accepted.         *)
NobodyYet ==
  pase.id = none =>
    /\ \A r \in requests : r.id[2] = "rnd"
    /\ \A c \in Client : client[c].phase \notin {"pa", "ca"}
    /\ \A a \in answers : a.code # "changed"
    /\ valid_request = none /\ stored = {}

TokenInv ==
  TypeOK /\ Begun /\ WaitingAllowed /\ HasParameters /\ FieldsOwn /\ NobodyYet

(* The client's steps leave the device alone.                              *)
LEMMA ClientTokens ==
  ASSUME TokenInv, NEW c \in Client, Start(c) \/ GetAnswer(c) \/ GiveUp(c)
  PROVE  TokenInv'
<1>. USE DEF TokenInv
<1>1. UNCHANGED <<pase, K_main, valid_request, stored, callbacks, tokens, fresh,
                  failed, is_blocking, unloaded>>
  BY DEF Start, GetAnswer, GiveUp, deviceVars
<1>2. WaitingAllowed'
  BY <1>1 DEF WaitingAllowed, FailuresBounded
<1>3. ASSUME client' \in [Client -> ClientState],
             \A d \in Client : client'[d].try = client[d].try,
             \A d \in Client \ {c} : client'[d] = client[d],
             UnderWay(c) \/ client'[c].phase \notin Kinds,
             requests' \subseteq RequestMessage, answers' \subseteq answers,
             disturbed' \subseteq Client
      PROVE  TypeOK' /\ Begun'
  BY <1>1, <1>3 DEF TypeOK, Begun, UnderWay
<1>4. ASSUME NEW phase \in {"done", "failed"}, Ends(c, phase), requests' = requests
      PROVE  TokenInv'
  <2>1. TypeOK' /\ Begun'
    BY <1>3, <1>4, EndsTypes DEF TypeOK, Kinds
  <2>2. HasParameters' /\ FieldsOwn'
    BY <1>1, <1>4, EndsTypes DEF HasParameters, FieldsOwn
  <2>3. NobodyYet'
    BY <1>1, <1>4, EndsTypes DEF NobodyYet
  <2>. QED BY <1>2, <2>1, <2>2, <2>3
<1>5. CASE Start(c)
  <2>1. TypeOK' /\ Begun'
    BY <1>5, StartTypes
  <2>2. /\ \A d \in Client : client'[d].phase \in {"pa", "ca"} => client'[d] = client[d]
        /\ UNCHANGED answers
        /\ requests' = requests \cup {Request(c, client[c].try + 1, "rnd", none)}
    BY <1>5 DEF Start, TypeOK
  <2>3. HasParameters' /\ FieldsOwn'
    BY <1>1, <2>2 DEF HasParameters, FieldsOwn, Request
  <2>4. NobodyYet'
    BY <1>1, <2>2 DEF NobodyYet, Request
  <2>. QED BY <1>2, <2>1, <2>3, <2>4
<1>6. CASE GetAnswer(c)
  <2>1. PICK a \in answers :
          /\ a.to = Current(c)
          /\ \/ /\ a.code = "changed"
                /\ \/ client[c].phase = "rnd" /\ ExchangeCredentials(c, a)
                   \/ client[c].phase = "pa" /\ a.kind = "pa" /\ VerifyCredentials(c, a)
                /\ answers' = answers \ {a} /\ UNCHANGED disturbed
             \/ Ends(c, "failed") /\ UNCHANGED requests
             \/ Ends(c, "done") /\ UNCHANGED requests
    BY <1>6 DEF GetAnswer
  <2>2. CASE Ends(c, "failed") /\ UNCHANGED requests
    BY <2>2, <1>4
  <2>3. CASE Ends(c, "done") /\ UNCHANGED requests
    BY <2>3, <1>4
  <2>4. CASE /\ a.code = "changed" /\ client[c].phase = "rnd" /\ ExchangeCredentials(c, a)
             /\ answers' = answers \ {a} /\ UNCHANGED disturbed
    <3>1. TypeOK' /\ Begun'
      BY <1>3, <2>4, PostsCredentials DEF TypeOK, UnderWay, Kinds
    <3>2. HasParameters'
      BY <2>4, PostsCredentials, Absent DEF HasParameters
    <3>4. FieldsOwn'
      <4>1. requests' = requests \cup {Request(c, client[c].try, "pa", none)}
        BY <2>4, PostsCredentials
      <4>. QED BY <4>1 DEF FieldsOwn, Request
    <3>3. NobodyYet'
      BY <1>1, <2>4 DEF NobodyYet
    <3>. QED BY <1>2, <3>1, <3>2, <3>3, <3>4
  <2>5. CASE /\ a.code = "changed" /\ client[c].phase = "pa" /\ VerifyCredentials(c, a)
             /\ answers' = answers \ {a} /\ UNCHANGED disturbed
    <3>1. client[c].w # none
      BY <2>5 DEF HasParameters
    <3>2. PICK key \in Key :
           /\ client' \in [Client -> ClientState]
           /\ client'[c].phase = "ca" /\ client'[c].key = key /\ client'[c].w = client[c].w
           /\ \A d \in Client : client'[d].try = client[d].try
           /\ \A d \in Client \ {c} : client'[d] = client[d]
           /\ Request(c, client[c].try, "ca", [key |-> key, pb |-> a.value]) \in RequestMessage
           /\ requests' = requests \cup
                {Request(c, client[c].try, "ca", [key |-> key, pb |-> a.value])}
      BY <2>5, <3>1, PostsConfirmation
    <3>3. TypeOK' /\ Begun'
      BY <1>3, <2>5, <3>2 DEF TypeOK, UnderWay, Kinds
    <3>4. HasParameters' /\ FieldsOwn'
      BY <3>1, <3>2 DEF HasParameters, FieldsOwn, Request
    <3>5. NobodyYet'
      BY <1>1, <2>5 DEF NobodyYet
    <3>. QED BY <1>2, <3>3, <3>4, <3>5
  <2>. QED BY <2>1, <2>2, <2>3, <2>4, <2>5
<1>7. CASE GiveUp(c)
  BY <1>4, <1>7 DEF GiveUp
<1>. QED BY <1>5, <1>6, <1>7

(* A post is refused, or accepted by a device that is not blocked.         *)
LEMMA PostTokens ==
  ASSUME TokenInv, Post
  PROVE  TokenInv'
<1>. USE DEF TokenInv
<1>1. PICK r \in requests :
        /\ requests' = requests \ {r}
        /\ PostLoaded(r) \/ PostBlocked(r) \/ Accept(r)
        /\ UNCHANGED <<client, failed, unloaded>>
  BY DEF Post
<1>2. r \in RequestMessage /\ r.id \in RequestId /\ {r.id} \in SUBSET RequestId
      /\ r.id[1] \in Share /\ r.id[1][1] \in Client /\ r.id[2] \in Kinds
      /\ r.ca \in Confirmation \cup {none} /\ r.pa \in Share \cup {none}
      /\ r.name \in Id \cup {none}
  <2>1. r \in RequestMessage
    BY DEF TypeOK
  <2>. QED BY <2>1, Shares DEF RequestMessage, RequestId
<1>3. Begun' /\ HasParameters' /\ FieldsOwn'
  BY <1>1 DEF Begun, UnderWay, HasParameters, FieldsOwn
<1>4. CASE PostLoaded(r) \/ PostBlocked(r)
  <2>1. /\ UNCHANGED <<pase, K_main, valid_request, stored, callbacks, tokens, fresh, disturbed>>
        /\ is_blocking' \in BOOLEAN
    BY <1>4 DEF PostLoaded, PostBlocked, deviceVars, TypeOK
  <2>2. \E code \in {"bad", "unavailable"} : Send({r.id}, code, none, 0)
    BY <1>4 DEF PostLoaded, PostBlocked
  <2>3. answers' \subseteq AnswerMessage
    BY <1>2, <2>2, SendTypes
  <2>4. \A a \in answers' : a \in answers \/ a.code # "changed"
    BY <2>2 DEF Send
  <2>5. TypeOK'
    BY <1>1, <2>1, <2>3 DEF TypeOK
  <2>6. WaitingAllowed'
    BY <1>1, <2>1 DEF WaitingAllowed, FailuresBounded
  <2>7. NobodyYet'
    BY <1>1, <2>1, <2>4 DEF NobodyYet
  <2>. QED BY <1>3, <2>5, <2>6, <2>7
<1>5. CASE Accept(r)
  <2>1. /\ ~(is_blocking \/ failed > FailureLimit)
        /\ valid_request' = r.id[2] /\ pase' = Parsed(r)
        /\ stored' = IF FreeStore THEN stored \cup {r.id} ELSE stored
        /\ callbacks' = callbacks + 1
        /\ UNCHANGED <<answers, K_main, tokens, fresh, is_blocking>>
    BY <1>5 DEF Accept, Blocked
  <2>2. disturbed' \subseteq Client
    BY <1>5 DEF Accept, TypeOK
  <2>3. /\ pase' \in [id : Id \cup {none}, pa : Share \cup {none}, pb : Nat,
                      ca : Confirmation \cup {none}, salt : Nat]
        /\ r.id[2] = "rnd" \/ pase.id # none => pase'.id # none
    <3>1. /\ Given(r.name, IF r.id[2] = "rnd" THEN rkey ELSE pase.id) \in Id \cup {none}
          /\ r.id[2] = "rnd" \/ pase.id # none =>
               Given(r.name, IF r.id[2] = "rnd" THEN rkey ELSE pase.id) # none
      BY <1>2, Absent DEF Given, Id, TypeOK
    <3>2. Given(r.pa, pase.pa) \in Share \cup {none}
      BY <1>2 DEF Given, TypeOK
    <3>3. Given(r.ca, pase.ca) \in Confirmation \cup {none}
      BY <1>2 DEF Given, TypeOK
    <3>. QED BY <2>1, <3>1, <3>2, <3>3 DEF Parsed, TypeOK
  <2>4. /\ stored' \subseteq RequestId
        /\ IsFiniteSet(stored') /\ Cardinality(stored') <= Capacity
    <3>1. CASE FreeStore
      <4>1. /\ IsFiniteSet(stored') /\ Cardinality(stored) \in Nat
            /\ Cardinality(stored') <= Cardinality(stored) + 1
        <5>1. IsFiniteSet(stored) /\ stored' = stored \cup {r.id}
          BY <3>1, <2>1 DEF TypeOK
        <5>2. Cardinality(stored) \in Nat
          BY <5>1, FS_CardinalityType
        <5>3. /\ IsFiniteSet(stored \cup {r.id})
              /\ Cardinality(stored \cup {r.id}) =
                   IF r.id \in stored THEN Cardinality(stored) ELSE Cardinality(stored) + 1
          BY <5>1, FS_AddElement
        <5>. QED BY <5>1, <5>2, <5>3
      <4>. QED BY <3>1, <4>1, <1>2, <2>1, FS_CardinalityType, SpakeAssumption
           DEF FreeStore, TypeOK
    <3>2. CASE ~FreeStore
      BY <3>2, <2>1 DEF TypeOK
    <3>. QED BY <3>1, <3>2
  <2>5. TypeOK'
    BY <1>1, <1>2, <2>1, <2>2, <2>3, <2>4 DEF TypeOK
  <2>6. WaitingAllowed'
    BY <1>1, <2>1, SpakeAssumption DEF WaitingAllowed, FailuresBounded
  <2>7. NobodyYet'
    <3>1. pase'.id # none
      BY <1>2, <2>3 DEF NobodyYet, Kinds
    <3>. QED BY <3>1 DEF NobodyYet
  <2>. QED BY <1>3, <2>5, <2>6, <2>7
<1>. QED BY <1>1, <1>4, <1>5

(* A post with nothing only clears what was asked for last.                *)
LEMMA NothingTokens ==
  ASSUME TokenInv, PostNothing
  PROVE  TokenInv'
<1>. USE DEF TokenInv
<1>1. /\ UNCHANGED <<client, requests, answers, pase, K_main, stored, callbacks, tokens,
                     fresh, failed, unloaded>>
      /\ valid_request' \in {valid_request, none} /\ disturbed' \subseteq Client
      /\ is_blocking' \in BOOLEAN
  BY DEF PostNothing, Blocked, TypeOK
<1>2. TypeOK'
  BY <1>1 DEF TypeOK
<1>. QED BY <1>1, <1>2 DEF Begun, UnderWay, WaitingAllowed, FailuresBounded, HasParameters,
     FieldsOwn, NobodyYet

(* The answers of the device.                                              *)
LEMMA SeparateTokens ==
  ASSUME TokenInv, Separate
  PROVE  TokenInv'
<1>. USE DEF TokenInv
<1>1. /\ UNCHANGED <<client, requests, valid_request, is_blocking, unloaded, disturbed>>
      /\ callbacks > 0 /\ callbacks' = callbacks - 1 /\ callbacks' \in Nat
  BY DEF Separate, TypeOK
<1>2. CASE UNCHANGED <<answers, stored, pase, K_main, failed, tokens, fresh>>
  BY <1>1, <1>2 DEF TypeOK, Begun, UnderWay, WaitingAllowed, FailuresBounded,
     HasParameters, FieldsOwn, NobodyYet
<1>3. CASE Active /\ (GiveParameters \/ GiveShare \/ MakeToken \/ HandshakeFails)
  <2>1. /\ stored # {} /\ stored' = {} /\ pase.id # none /\ failed <= FailureLimit
        /\ stored \in SUBSET RequestId
    BY <1>3 DEF Active, GiveParameters, GiveShare, MakeToken, HandshakeFails, AnswerAll,
       NobodyYet, WaitingAllowed, TypeOK
  <2>2. IsFiniteSet({}) /\ Cardinality({}) <= Capacity
    BY FS_EmptySet, SpakeAssumption
  <2>3. answers' \subseteq AnswerMessage
    <3>1. CASE GiveParameters
      <4>1. (IF Preloaded THEN 1 ELSE fresh) \in Nat
        BY DEF TypeOK
      <4>. QED BY <2>1, <3>1, <4>1, SendTypes DEF GiveParameters, AnswerAll, Kinds
    <3>2. CASE GiveShare
      <4>1. fresh \in Nat
        BY DEF TypeOK
      <4>. QED BY <2>1, <3>2, <4>1, SendTypes DEF GiveShare, AnswerAll, Kinds
    <3>3. CASE MakeToken \/ HandshakeFails
      BY <2>1, <3>3, SendTypes DEF MakeToken, HandshakeFails, AnswerAll
    <3>. QED BY <1>3, <3>1, <3>2, <3>3
  <2>4. /\ pase' \in [id : Id \cup {none}, pa : Share \cup {none}, pb : Nat,
                      ca : Confirmation \cup {none}, salt : Nat]
        /\ pase'.id = pase.id
        /\ fresh' \in Nat
    <3>1. CASE GiveParameters
      <4>1. (IF Preloaded THEN 1 ELSE fresh) \in Nat /\ fresh + 1 \in Nat
        BY DEF TypeOK
      <4>. QED BY <3>1, <4>1 DEF GiveParameters, TypeOK
    <3>2. CASE GiveShare
      BY <3>2 DEF GiveShare, TypeOK
    <3>3. CASE MakeToken \/ HandshakeFails
      <4>1. /\ pase' = [pase EXCEPT !.pa = none, !.pb = 0, !.ca = none, !.salt = 0]
            /\ fresh' = fresh
        BY <3>3 DEF MakeToken, HandshakeFails, Wipe
      <4>2. /\ pase \in [id : Id \cup {none}, pa : Share \cup {none}, pb : Nat,
                          ca : Confirmation \cup {none}, salt : Nat]
            /\ fresh \in Nat
        BY DEF TypeOK
      <4>. QED BY <4>1, <4>2
    <3>. QED BY <1>3, <3>1, <3>2, <3>3
  <2>5. K_main' \in Key \cup {zeros}
    <3>1. CASE GiveShare
      <4>1. W0 \in W
        BY DEF W0, W, TypeOK
      <4>2. K_main' = [pa |-> pase.pa, pb |-> fresh, w |-> W0]
        BY <3>1 DEF GiveShare
      <4>3. pase.pa \in Share \cup {none} /\ fresh \in Nat
        BY DEF TypeOK
      <4>. QED BY <4>1, <4>2, <4>3 DEF Key
    <3>2. CASE GiveParameters \/ MakeToken \/ HandshakeFails
      BY <3>2 DEF GiveParameters, MakeToken, HandshakeFails, Wipe, TypeOK
    <3>. QED BY <1>3, <3>1, <3>2
  <2>6. tokens' \subseteq [id : Id, key : Key \cup {zeros}]
    <3>1. CASE MakeToken
      <4>1. [id |-> pase.id, key |-> K_main] \in [id : Id, key : Key \cup {zeros}]
        BY <2>1 DEF TypeOK
      <4>2. tokens' \subseteq tokens \cup {[id |-> pase.id, key |-> K_main]}
        BY <3>1 DEF MakeToken, TokensWith
      <4>. QED BY <4>1, <4>2 DEF TypeOK
    <3>2. CASE GiveParameters \/ GiveShare \/ HandshakeFails
      BY <3>2 DEF GiveParameters, GiveShare, HandshakeFails, TypeOK
    <3>. QED BY <1>3, <3>1, <3>2
  <2>7. failed' \in Nat /\ failed' <= FailureLimit + 1
    BY <1>3, <2>1, SpakeAssumption
       DEF GiveParameters, GiveShare, MakeToken, HandshakeFails, TypeOK
  <2>8. TypeOK'
    BY <1>1, <2>1, <2>2, <2>3, <2>4, <2>5, <2>6, <2>7 DEF TypeOK
  <2>9. HasParameters' /\ FieldsOwn'
    BY <1>1 DEF HasParameters, FieldsOwn
  <2>10. Begun' /\ WaitingAllowed'
    BY <1>1, <2>1, <2>7 DEF Begun, UnderWay, WaitingAllowed, FailuresBounded
  <2>11. NobodyYet'
    BY <2>1, <2>4 DEF NobodyYet
  <2>. QED BY <2>8, <2>9, <2>10, <2>11
<1>. QED BY <1>2, <1>3 DEF Separate

LEMMA TokenInvariant == Spec => []TokenInv
<1>1. Init => TokenInv
  <2>. SUFFICES ASSUME Init PROVE TokenInv
    OBVIOUS
  <2>1. client \in [Client -> ClientState] /\ \A c \in Client : client[c].phase = "idle"
    BY DEF Init, ClientState
  <2>2. \A c \in Client : client[c].try <= MaxTries[c]
    BY SpakeAssumption DEF Init
  <2>3. /\ pase \in [id : Id \cup {none}, pa : Share \cup {none}, pb : Nat,
                     ca : Confirmation \cup {none}, salt : Nat]
        /\ pase.id = none /\ pase.ca = none
    BY DEF Init
  <2>4. IsFiniteSet(stored) /\ Cardinality(stored) <= Capacity
    BY FS_EmptySet, SpakeAssumption DEF Init
  <2>5. TypeOK
    BY <2>1, <2>2, <2>3, <2>4 DEF Init, TypeOK
  <2>6. Begun /\ HasParameters /\ FieldsOwn /\ NobodyYet
    BY <2>1, <2>3 DEF Init, Begun, UnderWay, HasParameters, FieldsOwn, NobodyYet, Kinds
  <2>7. WaitingAllowed
    BY SpakeAssumption DEF Init, WaitingAllowed, FailuresBounded
  <2>. QED BY <2>5, <2>6, <2>7 DEF TokenInv
<1>2. TokenInv /\ [Next]_vars => TokenInv'
  <2>. SUFFICES ASSUME TokenInv, [Next]_vars PROVE TokenInv'
    OBVIOUS
  <2>1. ASSUME NEW c \in Client, Start(c) \/ GetAnswer(c) \/ GiveUp(c) PROVE TokenInv'
    BY <2>1, ClientTokens
  <2>2. CASE Post
    BY <2>2, PostTokens
  <2>5. CASE PostNothing
    BY <2>5, NothingTokens
  <2>3. CASE Separate
    BY <2>3, SeparateTokens
  <2>4. CASE Decrement \/ Load \/ UNCHANGED vars
    <3>1. /\ UNCHANGED <<client, requests, answers, pase, K_main, valid_request, stored,
                         callbacks, tokens, fresh, disturbed>>
          /\ failed' \in Nat /\ failed' <= failed
          /\ is_blocking' \in BOOLEAN /\ unloaded' \in BOOLEAN
      <4>1. CASE Decrement
        <5>1. failed' \in Nat /\ failed' <= failed
          BY <4>1 DEF Decrement, Counts, TokenInv, TypeOK
        <5>2. is_blocking' \in BOOLEAN
          BY <4>1, Zenon DEF Decrement
        <5>3. /\ UNCHANGED <<client, requests, answers, pase, K_main, valid_request,
                             stored, callbacks, tokens, fresh, disturbed>>
              /\ unloaded' = unloaded
          BY <4>1, Zenon DEF Decrement, deviceVars
        <5>4. unloaded' \in BOOLEAN
          BY <5>3, Zenon DEF TokenInv, TypeOK
        <5>. QED BY <5>1, <5>2, <5>3, <5>4
      <4>2. CASE Load \/ UNCHANGED vars
        <5>1. /\ UNCHANGED <<client, requests, answers, pase, K_main, valid_request,
                             stored, callbacks, tokens, fresh, disturbed, failed>>
              /\ is_blocking' = is_blocking /\ unloaded' \in {FALSE, unloaded}
          BY <4>2, Zenon DEF Load, vars, deviceVars
        <5>2. is_blocking' \in BOOLEAN /\ unloaded' \in BOOLEAN
          BY <5>1, Zenon DEF TokenInv, TypeOK
        <5>3. failed \in Nat
          BY DEF TokenInv, TypeOK
        <5>. QED BY <5>1, <5>2, <5>3
      <4>. QED BY <2>4, <4>1, <4>2
    <3>2. TypeOK'
      BY <3>1 DEF TokenInv, TypeOK
    <3>3. WaitingAllowed'
      BY <3>1, SpakeAssumption DEF TokenInv, WaitingAllowed, FailuresBounded
    <3>4. Begun' /\ HasParameters' /\ FieldsOwn' /\ NobodyYet'
      BY <3>1 DEF TokenInv, Begun, UnderWay, HasParameters, FieldsOwn, NobodyYet
    <3>. QED BY <3>2, <3>3, <3>4 DEF TokenInv
  <2>. QED BY <2>1, <2>2, <2>3, <2>4, <2>5 DEF Next
<1>. QED BY <1>1, <1>2, PTL DEF Spec

(* The state stays well formed: no more posts wait than there are stores   *)
(* for them, and every token has the id of a post or the default one.      *)
THEOREM TypeCorrect == Spec => []TypeOK
BY TokenInvariant, PTL DEF TokenInv

(* The count of failures passes its limit by one at most, however many     *)
(* posts were accepted before it was reached.                              *)
THEOREM FailuresAreBounded == Spec => []FailuresBounded
BY TokenInvariant, PTL DEF TokenInv, WaitingAllowed

-----------------------------------------------------------------------------
(* A message is one its client has sent by now, and is in one place.       *)
Turn(kind) == IF kind = "rnd" THEN 1 ELSE IF kind = "pa" THEN 2 ELSE 3

Sent(id) ==
  LET c == id[1][1]
  IN  \/ id[1][2] < client[c].try
      \/ /\ id[1][2] = client[c].try
         /\ UnderWay(c) => Turn(id[2]) <= Turn(client[c].phase)

SentByNow ==
  /\ \A r \in requests : Sent(r.id)
  /\ \A id \in stored : Sent(id)
  /\ \A a \in answers : Sent(a.to)

OnePlace ==
  /\ \A r \in requests : r.id \notin stored /\ \A a \in answers : a.to # r.id
  /\ \A r, q \in requests : r.id = q.id => r = q

(* While nobody has interrupted the handshake of a client, the device's    *)
(* variables are those of this handshake.                                  *)
Undisturbed(c) == UnderWay(c) /\ c \notin disturbed

OwnRequest(c) ==
  \A r \in requests : r.id = Current(c) /\ client[c].phase = "ca" =>
    r.ca # none /\ r.ca.key = client[c].key

OwnPost(c) ==
  Current(c) \in stored =>
    /\ valid_request = client[c].phase
    /\ client[c].phase = "ca" => pase.ca # none /\ pase.ca.key = client[c].key

Kept(c) == HasToken(c) \/ NoEntry(IdOf(c))

OwnAnswer(c) ==
  \A a \in answers : a.to = Current(c) /\ a.code = "changed" =>
    /\ stored = {}
    /\ client[c].phase = "ca" => Kept(c)

OwnId(c) ==
  (\/ client[c].phase \in {"pa", "ca"}
   \/ Current(c) \in stored
   \/ \E a \in answers : a.to = Current(c) /\ a.code = "changed") => pase.id = IdOf(c)

HandshakeOwn ==
  /\ \A c \in Client : UnderWay(c) => OwnRequest(c)
  /\ \A c \in Client : Undisturbed(c) => OwnPost(c) /\ OwnAnswer(c) /\ OwnId(c)

HandshakeInv == SentByNow /\ OnePlace /\ HandshakeOwn

(* A client's step ends its handshake or sends the next post of it.        *)
Stops(c) ==
  /\ client'[c].phase \in {"done", "failed"} /\ client'[c].try = client[c].try
  /\ requests' = requests
  /\ client[c].phase = "ca" /\ client'[c].phase = "done" =>
       \E a \in answers : a.to = Current(c) /\ a.code = "changed"

Advances(c) ==
  \/ ~UnderWay(c) /\ client'[c].phase = "rnd" /\ client'[c].try = client[c].try + 1
  \/ /\ \E a \in answers : a.to = Current(c) /\ a.code = "changed"
     /\ client'[c].try = client[c].try
     /\ \/ client[c].phase = "rnd" /\ client'[c].phase = "pa"
        \/ client[c].phase = "pa" /\ client'[c].phase = "ca"

Posts(c, r) ==
  /\ Advances(c)
  /\ r.id = <<<<c, client'[c].try>>, client'[c].phase>>
  /\ client'[c].phase = "ca" => r.ca # none /\ r.ca.key = client'[c].key
  /\ requests' = requests \cup {r}
  /\ disturbed' = disturbed

LEMMA ClientMoves ==
  ASSUME TokenInv, NEW c \in Client, Start(c) \/ GetAnswer(c) \/ GiveUp(c)
  PROVE  /\ UNCHANGED <<pase, K_main, valid_request, stored, tokens>>
         /\ \A d \in Client \ {c} : client'[d] = client[d]
         /\ answers' \subseteq answers
         /\ disturbed' \in {disturbed, disturbed \ {c}}
         /\ \/ Stops(c)
            \/ \E r \in RequestMessage : Posts(c, r)
<1>. USE DEF TokenInv
<1>1. UNCHANGED <<pase, K_main, valid_request, stored, tokens>>
  BY DEF Start, GetAnswer, GiveUp, deviceVars
<1>2. CASE Start(c)
  <2>. DEFINE r == Request(c, client[c].try + 1, "rnd", none)
  <2>1. /\ ~UnderWay(c) /\ client \in [Client -> ClientState]
        /\ client' = [client EXCEPT ![c] =
                        [phase |-> "rnd", try |-> client[c].try + 1, w |-> none, key |-> none]]
        /\ requests' = requests \cup {r} /\ UNCHANGED <<answers, disturbed>>
        /\ client[c].try + 1 <= MaxTries[c]
    BY <1>2 DEF Start, TypeOK
  <2>2. /\ client'[c].phase = "rnd" /\ client'[c].try = client[c].try + 1
        /\ \A d \in Client \ {c} : client'[d] = client[d]
    BY <2>1
  <2>3. r.id = <<<<c, client'[c].try>>, client'[c].phase>>
    BY <2>2 DEF Request
  <2>4. r \in RequestMessage
    <3>1. client[c].try + 1 \in Nat /\ client[c].try + 1 > 0
      BY <2>1 DEF ClientState
    <3>2. <<c, client[c].try + 1>> \in Share
      BY <2>1, <3>1, Shares
    <3>. QED BY <3>2, RequestTypes DEF Kinds
  <2>. HIDE DEF r
  <2>5. Posts(c, r)
    BY <2>1, <2>2, <2>3 DEF Posts, Advances
  <2>. QED BY <1>1, <2>1, <2>2, <2>4, <2>5
<1>3. ASSUME NEW phase \in {"done", "failed"}, Ends(c, phase), requests' = requests,
             client[c].phase = "ca" /\ phase = "done" =>
               \E a \in answers : a.to = Current(c) /\ a.code = "changed"
      PROVE  /\ \A d \in Client \ {c} : client'[d] = client[d]
             /\ answers' \subseteq answers
             /\ disturbed' \in {disturbed, disturbed \ {c}}
             /\ Stops(c)
  BY <1>3, EndsTypes DEF Stops
<1>4. CASE GiveUp(c)
  BY <1>1, <1>3, <1>4 DEF GiveUp
<1>5. CASE GetAnswer(c)
  <2>1. PICK a \in answers :
          /\ a.to = Current(c)
          /\ \/ /\ a.code = "changed"
                /\ \/ client[c].phase = "rnd" /\ ExchangeCredentials(c, a)
                   \/ client[c].phase = "pa" /\ a.kind = "pa" /\ VerifyCredentials(c, a)
                /\ answers' = answers \ {a} /\ UNCHANGED disturbed
             \/ Ends(c, "failed") /\ UNCHANGED requests
             \/ a.code = "changed" /\ Ends(c, "done") /\ UNCHANGED requests
    BY <1>5 DEF GetAnswer
  <2>2. CASE Ends(c, "failed") /\ UNCHANGED requests
    BY <1>1, <1>3, <2>2
  <2>3. CASE a.code = "changed" /\ Ends(c, "done") /\ UNCHANGED requests
    BY <1>1, <1>3, <2>1, <2>3
  <2>4. CASE /\ a.code = "changed" /\ client[c].phase = "rnd" /\ ExchangeCredentials(c, a)
             /\ answers' = answers \ {a} /\ UNCHANGED disturbed
    <3>. DEFINE r == Request(c, client[c].try, "pa", none)
    <3>1. /\ client'[c].phase = "pa" /\ client'[c].try = client[c].try
          /\ \A d \in Client \ {c} : client'[d] = client[d]
          /\ r \in RequestMessage /\ requests' = requests \cup {r}
      BY <2>4, PostsCredentials
    <3>2. r.id = <<<<c, client'[c].try>>, client'[c].phase>>
      BY <3>1 DEF Request
    <3>. HIDE DEF r
    <3>3. Posts(c, r)
      BY <2>1, <2>4, <3>1, <3>2 DEF Posts, Advances
    <3>. QED BY <1>1, <2>4, <3>1, <3>3
  <2>5. CASE /\ a.code = "changed" /\ client[c].phase = "pa" /\ VerifyCredentials(c, a)
             /\ answers' = answers \ {a} /\ UNCHANGED disturbed
    <3>1. client[c].w # none
      BY <2>5 DEF HasParameters
    <3>2. PICK key \in Key :
           /\ client'[c].phase = "ca" /\ client'[c].key = key
           /\ \A d \in Client : client'[d].try = client[d].try
           /\ \A d \in Client \ {c} : client'[d] = client[d]
           /\ Request(c, client[c].try, "ca", [key |-> key, pb |-> a.value]) \in RequestMessage
           /\ requests' = requests \cup
                {Request(c, client[c].try, "ca", [key |-> key, pb |-> a.value])}
      BY <2>5, <3>1, PostsConfirmation
    <3>. DEFINE r == Request(c, client[c].try, "ca", [key |-> key, pb |-> a.value])
    <3>3. r.id = <<<<c, client'[c].try>>, client'[c].phase>>
      BY <3>2 DEF Request
    <3>4. r.ca # none /\ r.ca.key = client'[c].key
      <4>1. a.value \in Nat
        BY DEF TypeOK, AnswerMessage
      <4>2. [key |-> key, pb |-> a.value] \in Confirmation
        BY <4>1 DEF Confirmation
      <4>. QED BY <3>2, <4>2, Absent DEF Request
    <3>5. r \in RequestMessage /\ requests' = requests \cup {r}
      BY <3>2
    <3>. HIDE DEF r
    <3>6. Posts(c, r)
      BY <2>1, <2>5, <3>2, <3>3, <3>4, <3>5 DEF Posts, Advances
    <3>. QED BY <1>1, <2>5, <3>2, <3>5, <3>6
  <2>. QED BY <2>1, <2>2, <2>3, <2>4, <2>5
<1>. QED BY <1>2, <1>4, <1>5

(* What was sent stays sent, and the next post is a new one.               *)
LEMMA SentStays ==
  ASSUME TokenInv, TokenInv', NEW c \in Client,
         \A d \in Client \ {c} : client'[d] = client[d],
         Stops(c) \/ Advances(c)
  PROVE  \A id \in RequestId : Sent(id) =>
           /\ Sent(id)'
           /\ Advances(c) => id # <<<<c, client'[c].try>>, client'[c].phase>>
<1>. SUFFICES ASSUME NEW id \in RequestId, Sent(id)
     PROVE  /\ Sent(id)'
            /\ Advances(c) => id # <<<<c, client'[c].try>>, client'[c].phase>>
  OBVIOUS
<1>1. id[1][1] \in Client /\ id[1][2] \in Nat /\ id[2] \in Kinds
  BY Shares DEF RequestId
<1>2. client[c].try \in Nat /\ client'[c].try \in Nat
  BY DEF TokenInv, TypeOK, ClientState
<1>3. CASE id[1][1] # c
  BY <1>1, <1>3 DEF Sent, UnderWay
<1>4. CASE id[1][1] = c
  BY <1>1, <1>2, <1>4 DEF Sent, UnderWay, Stops, Advances, Turn, Kinds
<1>. QED BY <1>3, <1>4

(* The identifiers of all messages are ones a client can send.             *)
LEMMA Identifiers ==
  ASSUME TypeOK
  PROVE  /\ \A r \in requests : r.id \in RequestId
         /\ \A a \in answers : a.to \in RequestId
         /\ \A id \in stored : id \in RequestId
BY DEF TypeOK, RequestMessage, AnswerMessage

LEMMA ClientHandshake ==
  ASSUME TokenInv, TokenInv', HandshakeInv, NEW c \in Client,
         Start(c) \/ GetAnswer(c) \/ GiveUp(c)
  PROVE  HandshakeInv'
<1>. USE DEF HandshakeInv
<1>1. /\ UNCHANGED <<pase, K_main, valid_request, stored, tokens>>
      /\ \A d \in Client \ {c} : client'[d] = client[d]
      /\ answers' \subseteq answers
      /\ disturbed' \in {disturbed, disturbed \ {c}}
      /\ Stops(c) \/ \E r \in RequestMessage : Posts(c, r)
  BY ClientMoves
<1>2. Stops(c) \/ Advances(c)
  BY <1>1 DEF Posts
<1>3. /\ \A r \in requests : r.id \in RequestId /\ Sent(r.id)
      /\ \A a \in answers : a.to \in RequestId /\ Sent(a.to)
      /\ \A id \in stored : id \in RequestId /\ Sent(id)
  BY Identifiers DEF SentByNow, TokenInv
<1>4. \A id \in RequestId : Sent(id) =>
        /\ Sent(id)'
        /\ Advances(c) => id # <<<<c, client'[c].try>>, client'[c].phase>>
  BY <1>1, <1>2, SentStays
<1>5. \A a \in answers' : Sent(a.to)'
  BY <1>1, <1>3, <1>4
<1>6. \A id \in stored' : Sent(id)'
  BY <1>1, <1>3, <1>4
<1>7. ASSUME NEW d \in Client \ {c}
      PROVE  /\ Current(d)' = Current(d) /\ client'[d] = client[d]
             /\ UnderWay(d)' <=> UnderWay(d)
             /\ Undisturbed(d)' <=> Undisturbed(d)
  BY <1>1 DEF Current, UnderWay, Undisturbed
<1>8. ASSUME NEW d \in Client \ {c}, Undisturbed(d)'
      PROVE  OwnPost(d)' /\ OwnAnswer(d)' /\ OwnId(d)'
  <2>1. Current(d)' = Current(d) /\ client'[d] = client[d] /\ Undisturbed(d)
    BY <1>7, <1>8
  <2>2. OwnPost(d) /\ OwnAnswer(d) /\ OwnId(d)
    BY <2>1 DEF HandshakeOwn
  <2>. QED BY <1>1, <2>1, <2>2 DEF OwnPost, OwnAnswer, OwnId, Kept, HasToken, NoEntry
<1>9. CASE Stops(c)
  <2>1. SentByNow'
    BY <1>3, <1>4, <1>5, <1>6, <1>9 DEF SentByNow, Stops
  <2>2. OnePlace'
    BY <1>1, <1>9 DEF OnePlace, Stops
  <2>3. ~UnderWay(c)' /\ ~Undisturbed(c)'
    BY <1>9 DEF Stops, UnderWay, Undisturbed, Kinds
  <2>4. \A d \in Client : UnderWay(d)' => OwnRequest(d)'
    <3>. SUFFICES ASSUME NEW d \in Client \ {c}, UnderWay(d)' PROVE OwnRequest(d)'
      BY <2>3
    <3>1. OwnRequest(d)
      BY <1>7 DEF HandshakeOwn
    <3>. QED BY <1>7, <1>9, <3>1 DEF OwnRequest, Stops
  <2>. QED BY <1>8, <2>1, <2>2, <2>3, <2>4 DEF HandshakeOwn
<1>10. ASSUME NEW r \in RequestMessage, Posts(c, r)
       PROVE  HandshakeInv'
  <2>1. /\ Advances(c) /\ requests' = requests \cup {r} /\ disturbed' = disturbed
        /\ r.id = <<<<c, client'[c].try>>, client'[c].phase>>
        /\ client'[c].phase = "ca" => r.ca # none /\ r.ca.key = client'[c].key
    BY <1>10 DEF Posts
  <2>2. /\ \A q \in requests : q.id # r.id
        /\ \A a \in answers : a.to # r.id
        /\ r.id \notin stored
    BY <1>3, <1>4, <2>1
  <2>3. Sent(r.id)'
    BY <2>1 DEF Sent, Turn
  <2>4. SentByNow'
    BY <1>3, <1>4, <1>5, <1>6, <2>1, <2>3 DEF SentByNow
  <2>5. OnePlace'
    BY <1>1, <2>1, <2>2 DEF OnePlace
  <2>6. Current(c)' = r.id
    BY <2>1 DEF Current
  <2>7. OwnRequest(c)'
    BY <2>1, <2>2, <2>6 DEF OwnRequest
  <2>8. \A d \in Client : UnderWay(d)' => OwnRequest(d)'
    <3>. SUFFICES ASSUME NEW d \in Client \ {c}, UnderWay(d)' PROVE OwnRequest(d)'
      BY <2>7
    <3>1. OwnRequest(d)
      BY <1>7 DEF HandshakeOwn
    <3>2. Current(d) # r.id
      BY <2>1 DEF Current
    <3>. QED BY <1>7, <2>1, <3>1, <3>2 DEF OwnRequest
  <2>9. OwnPost(c)' /\ OwnAnswer(c)'
    BY <1>1, <2>2, <2>6 DEF OwnPost, OwnAnswer
  <2>10. Undisturbed(c)' => OwnId(c)'
    <3>1. CASE client'[c].phase = "rnd"
      BY <1>1, <2>2, <2>6, <3>1 DEF OwnId
    <3>2. CASE client'[c].phase # "rnd"
      <4>1. /\ \E a \in answers : a.to = Current(c) /\ a.code = "changed"
            /\ UnderWay(c)
        BY <2>1, <3>2 DEF Advances, UnderWay, Kinds
      <4>2. Undisturbed(c)' => Undisturbed(c)
        BY <2>1, <4>1 DEF Undisturbed
      <4>3. Undisturbed(c)' => pase.id = IdOf(c)
        BY <4>1, <4>2 DEF HandshakeOwn, OwnId
      <4>. QED BY <1>1, <4>3 DEF OwnId
    <3>. QED BY <3>1, <3>2
  <2>. QED BY <1>8, <2>4, <2>5, <2>8, <2>9, <2>10 DEF HandshakeOwn
<1>. QED BY <1>1, <1>9, <1>10

(* A post that is accepted disturbs every handshake but its own.           *)
LEMMA PostHandshake ==
  ASSUME TokenInv, HandshakeInv, Post
  PROVE  HandshakeInv'
<1>. USE DEF HandshakeInv
<1>1. PICK r \in requests :
        /\ requests' = requests \ {r}
        /\ PostLoaded(r) \/ PostBlocked(r) \/ Accept(r)
        /\ UNCHANGED <<client, failed, unloaded>>
  BY DEF Post
<1>2. UNCHANGED tokens
  BY <1>1 DEF PostLoaded, PostBlocked, Accept, deviceVars
<1>3. \A q \in requests' : q.id # r.id
  BY <1>1 DEF OnePlace
<1>4. r.id \notin stored /\ \A a \in answers : a.to # r.id
  BY DEF OnePlace
<1>5. \A c \in Client : UnderWay(c)' => OwnRequest(c)'
  BY <1>1 DEF HandshakeOwn, OwnRequest, UnderWay, Current
<1>6. CASE PostLoaded(r) \/ PostBlocked(r)
  <2>1. UNCHANGED <<pase, valid_request, stored, disturbed>>
    BY <1>6 DEF PostLoaded, PostBlocked, deviceVars
  <2>2. \A a \in answers' : a \in answers \/ (a.to = r.id /\ a.code # "changed")
    BY <1>6 DEF PostLoaded, PostBlocked, Send
  <2>3. SentByNow'
    BY <1>1, <2>1, <2>2 DEF SentByNow, Sent, UnderWay
  <2>4. OnePlace'
    BY <1>1, <1>3, <2>1, <2>2 DEF OnePlace
  <2>5. ASSUME NEW c \in Client, Undisturbed(c)'
        PROVE  OwnPost(c)' /\ OwnAnswer(c)' /\ OwnId(c)'
    <3>1. Undisturbed(c) /\ Current(c)' = Current(c)
      BY <1>1, <2>1, <2>5 DEF Undisturbed, UnderWay, Current
    <3>2. OwnPost(c) /\ OwnAnswer(c) /\ OwnId(c)
      BY <3>1 DEF HandshakeOwn
    <3>. QED BY <1>1, <1>2, <2>1, <2>2, <3>1, <3>2 DEF OwnPost, OwnAnswer, OwnId, Kept, HasToken, NoEntry
  <2>. QED BY <1>5, <2>3, <2>4, <2>5 DEF HandshakeOwn
<1>7. CASE Accept(r)
  <2>1. /\ valid_request' = r.id[2] /\ pase' = Parsed(r)
        /\ stored' \subseteq stored \cup {r.id}
        /\ disturbed' = disturbed \cup {c \in Client : UnderWay(c) /\ Current(c) # r.id}
        /\ UNCHANGED answers
    BY <1>7 DEF Accept
  <2>2. r.id[2] \in Kinds /\ r.id[1][1] \in Client
    BY Identifiers, Shares DEF TokenInv, RequestId
  <2>3. /\ pase'.id = IF r.id[2] = "rnd" THEN IdOf(r.id[1][1]) ELSE pase.id
        /\ r.ca # none => pase'.ca = r.ca
    <3>1. r.name = IF r.id[2] = "rnd" /\ r.id[1][1] \in Named THEN r.id[1][1] ELSE none
      <4>1. r = Request(r.id[1][1], r.id[1][2], r.id[2], r.ca)
        BY DEF TokenInv, FieldsOwn
      <4>. QED BY <4>1 DEF Request
    <3>2. r.id[1][1] # none
      BY <2>2, Absent DEF Id
    <3>3. /\ pase'.id = Given(r.name, IF r.id[2] = "rnd" THEN rkey ELSE pase.id)
          /\ pase'.ca = Given(r.ca, pase.ca)
      BY <2>1 DEF TokenInv, TypeOK, Parsed
    <3>. QED BY <3>1, <3>2, <3>3 DEF Given, IdOf
  <2>4. SentByNow'
    BY <1>1, <2>1 DEF SentByNow, Sent, UnderWay
  <2>5. OnePlace'
    BY <1>1, <1>3, <2>1 DEF OnePlace
  <2>6. ASSUME NEW c \in Client, Undisturbed(c)'
        PROVE  OwnPost(c)' /\ OwnAnswer(c)' /\ OwnId(c)'
    <3>1. Undisturbed(c) /\ Current(c)' = r.id /\ Current(c) = r.id
      BY <1>1, <2>1, <2>6 DEF Undisturbed, UnderWay, Current
    <3>2. r.id[2] = client[c].phase /\ r.id[1][1] = c
      BY <3>1 DEF Current
    <3>3. OwnPost(c)'
      BY <1>1, <2>1, <2>3, <3>1, <3>2 DEF OwnPost, HandshakeOwn, OwnRequest, Undisturbed
    <3>4. OwnAnswer(c)'
      BY <1>4, <2>1, <3>1 DEF OwnAnswer
    <3>5. OwnId(c)'
      <4>1. client[c].phase \in {"pa", "ca"} => pase.id = IdOf(c)
        BY <3>1 DEF HandshakeOwn, OwnId
      <4>2. pase'.id = IdOf(c)
        BY <2>2, <2>3, <3>2, <4>1 DEF Kinds
      <4>. QED BY <4>2 DEF OwnId
    <3>. QED BY <3>3, <3>4, <3>5
  <2>. QED BY <1>5, <2>4, <2>5, <2>6 DEF HandshakeOwn
<1>. QED BY <1>1, <1>6, <1>7

(* The answer to an undisturbed handshake is that of its own last post: it *)
(* says that the key is confirmed once the token has been made.            *)
LEMMA SeparateHandshake ==
  ASSUME TokenInv, HandshakeInv, Separate
  PROVE  HandshakeInv'
<1>. USE DEF HandshakeInv
<1>1. UNCHANGED <<client, requests, valid_request, disturbed>>
  BY DEF Separate
<1>2. \A c \in Client : UnderWay(c)' => OwnRequest(c)'
  BY <1>1 DEF HandshakeOwn, OwnRequest, UnderWay, Current
<1>3. CASE UNCHANGED <<answers, stored, pase, K_main, failed, tokens, fresh>>
  BY <1>1, <1>3 DEF SentByNow, Sent, OnePlace, HandshakeOwn, OwnRequest, OwnPost, OwnAnswer,
     OwnId, Undisturbed, UnderWay, Current, Kept, HasToken,
     NoEntry
<1>4. CASE Active /\ (GiveParameters \/ GiveShare \/ MakeToken \/ HandshakeFails)
  <2>1. stored # {} /\ stored' = {}
    BY <1>4 DEF Active, GiveParameters, GiveShare, MakeToken, HandshakeFails, AnswerAll
  <2>2. \A a \in answers' :
          a \in answers \/ (a.to \in stored /\ (a.code = "changed" => ~HandshakeFails \/ MakeToken))
    BY <1>4 DEF GiveParameters, GiveShare, MakeToken, HandshakeFails, AnswerAll, Send
  <2>3. pase'.id = pase.id
    BY <1>4 DEF GiveParameters, GiveShare, MakeToken, HandshakeFails, Wipe, TokenInv, TypeOK
  <2>4. SentByNow'
    BY <1>1, <2>1, <2>2 DEF SentByNow, Sent, UnderWay
  <2>5. OnePlace'
    BY <1>1, <2>1, <2>2 DEF OnePlace
  <2>6. ASSUME NEW c \in Client, Undisturbed(c)'
        PROVE  OwnPost(c)' /\ OwnAnswer(c)' /\ OwnId(c)'
    <3>1. Undisturbed(c) /\ Current(c)' = Current(c)
      BY <1>1, <2>6 DEF Undisturbed, UnderWay, Current
    <3>2. OwnPost(c) /\ OwnAnswer(c) /\ OwnId(c)
      BY <3>1 DEF HandshakeOwn
    <3>3. OwnPost(c)'
      BY <2>1 DEF OwnPost
    <3>4. OwnId(c)'
      BY <1>1, <2>1, <2>2, <2>3, <3>1, <3>2 DEF OwnId
    <3>5. OwnAnswer(c)'
      <4>. SUFFICES ASSUME NEW a \in answers', a.to = Current(c), a.code = "changed",
                           client[c].phase = "ca"
           PROVE  Kept(c)'
        BY <1>1, <2>1, <3>1 DEF OwnAnswer
      <4>1. a \notin answers
        BY <2>1, <3>2 DEF OwnAnswer
      <4>2. Current(c) \in stored
        BY <2>2, <4>1
      <4>3. valid_request = "ca" /\ pase.ca.key = client[c].key /\ pase.id = IdOf(c)
        BY <3>2, <4>2 DEF OwnPost, OwnId
      <4>4. MakeToken
        BY <1>4, <2>2, <4>1, <4>3 DEF GiveParameters, GiveShare
      <4>5. /\ tokens' = TokensWith(tokens, [id |-> pase.id, key |-> K_main])
            /\ pase.ca = [key |-> K_main, pb |-> pase.pb]
        BY <4>4 DEF MakeToken, Confirms
      <4>6. /\ tokens' = TokensWith(tokens, [id |-> IdOf(c), key |-> client[c].key])
            /\ client' = client
        BY <1>1, <4>3, <4>5
      <4>. DEFINE own == [id |-> IdOf(c), key |-> client[c].key]
      <4>7. CASE own \in tokens'
        BY <4>6, <4>7 DEF Kept, HasToken
      <4>8. CASE own \notin tokens'
        <5>1. /\ tokens' = tokens /\ {t \in tokens : t.id # IdOf(c)} = tokens
              /\ ~(Cardinality(tokens) < TokenMax)
          BY <4>6, <4>8, Zenon DEF TokensWith
        <5>. QED BY <4>6, <5>1 DEF Kept, NoEntry
      <4>. QED BY <4>7, <4>8
    <3>. QED BY <3>3, <3>4, <3>5
  <2>. QED BY <1>2, <2>4, <2>5, <2>6 DEF HandshakeOwn
<1>. QED BY <1>3, <1>4 DEF Separate

(* A post with nothing disturbs every handshake that is under way.         *)
LEMMA NothingHandshake ==
  ASSUME TokenInv, HandshakeInv, PostNothing
  PROVE  HandshakeInv'
<1>. USE DEF HandshakeInv
<1>1. UNCHANGED <<client, requests, answers, pase, stored, tokens>>
  BY DEF PostNothing
<1>2. /\ SentByNow' /\ OnePlace'
      /\ \A c \in Client : UnderWay(c)' => OwnRequest(c)'
  BY <1>1 DEF SentByNow, Sent, OnePlace, HandshakeOwn, OwnRequest, UnderWay, Current
<1>3. \A c \in Client : Undisturbed(c)' => Undisturbed(c) /\ valid_request' = valid_request
  BY <1>1 DEF PostNothing, Undisturbed, UnderWay
<1>. QED BY <1>1, <1>2, <1>3 DEF HandshakeOwn, OwnPost, OwnAnswer, OwnId, Current, Kept,
     HasToken, NoEntry

LEMMA HandshakeInvariant == Spec => [](TokenInv /\ HandshakeInv)
<1>1. Init => HandshakeInv
  BY DEF Init, HandshakeInv, SentByNow, OnePlace, HandshakeOwn, Undisturbed, UnderWay, Kinds
<1>2. TokenInv /\ TokenInv' /\ HandshakeInv /\ [Next]_vars => HandshakeInv'
  <2>. SUFFICES ASSUME TokenInv, TokenInv', HandshakeInv, [Next]_vars PROVE HandshakeInv'
    OBVIOUS
  <2>1. ASSUME NEW c \in Client, Start(c) \/ GetAnswer(c) \/ GiveUp(c) PROVE HandshakeInv'
    BY <2>1, ClientHandshake
  <2>2. CASE Post
    BY <2>2, PostHandshake
  <2>3. CASE Separate
    BY <2>3, SeparateHandshake
  <2>5. CASE PostNothing
    BY <2>5, NothingHandshake
  <2>4. CASE Decrement \/ Load \/ UNCHANGED vars
    <3>1. UNCHANGED <<client, requests, answers, pase, valid_request, stored, tokens, disturbed>>
      BY <2>4, Zenon DEF Decrement, Load, vars, deviceVars
    <3>. QED BY <3>1 DEF HandshakeInv, SentByNow, Sent, OnePlace, HandshakeOwn, OwnRequest,
         OwnPost, OwnAnswer, OwnId, Undisturbed, UnderWay, Current, Kept, HasToken,
     NoEntry
  <2>. QED BY <2>1, <2>2, <2>3, <2>4, <2>5 DEF Next
<1>. QED BY <1>1, <1>2, TokenInvariant, PTL DEF Spec

(* A client that finishes a handshake no other post interrupted has a      *)
(* token with its own key, or there was no entry for one.                  *)
THEOREM UndisturbedShares == Spec => UndisturbedIsShared
<1>1. TokenInv /\ HandshakeInv /\ [Next]_vars =>
        \A c \in Client \ disturbed : Confirmed(c) => HasToken(c) \/ NoEntry(IdOf(c))
  <2>. SUFFICES ASSUME TokenInv, HandshakeInv, [Next]_vars, NEW c \in Client \ disturbed,
                       Confirmed(c)
       PROVE  Kept(c)
    BY DEF Kept
  <2>0. client[c].phase = "ca" /\ client'[c].phase = "done"
    BY DEF Confirmed
  <2>1. PICK d \in Client : Start(d) \/ GetAnswer(d) \/ GiveUp(d)
    BY <2>0 DEF Next, Post, PostNothing, Separate, Decrement, Load, vars
  <2>2. d = c
    BY <2>0, <2>1, ClientMoves
  <2>3. Stops(c)
    BY <2>0, <2>1, <2>2, ClientMoves DEF Posts, Advances
  <2>4. \E a \in answers : a.to = Current(c) /\ a.code = "changed"
    BY <2>0, <2>3 DEF Stops
  <2>5. Undisturbed(c)
    BY <2>0 DEF Undisturbed, UnderWay, Kinds
  <2>. QED BY <2>0, <2>4, <2>5 DEF HandshakeInv, HandshakeOwn, OwnAnswer
<1>. QED BY <1>1, HandshakeInvariant, PTL DEF Spec, UndisturbedIsShared

-----------------------------------------------------------------------------
(* While nobody has interrupted the handshake of a client that knows the   *)
(* password, what the device keeps is what the client reckons with.        *)
Pending(c) == Current(c) \in stored \/ \E r \in requests : r.id = Current(c)

ShareOf(c) == <<c, client[c].try>>

ParametersAgree(c) ==
  client[c].phase = "rnd" =>
    \A a \in answers : a.to = Current(c) /\ a.code = "changed" =>
      a.kind = "rnd" /\ a.value = W0.salt

SharesAgree(c) ==
  client[c].phase = "pa" =>
    /\ Pending(c) => client[c].w = W0
    /\ Current(c) \in stored => pase.pa = ShareOf(c)
    /\ \A a \in answers : a.to = Current(c) /\ a.code = "changed" =>
         /\ K_main = [pa |-> ShareOf(c), pb |-> pase.pb, w |-> client[c].w]
         /\ a.value = pase.pb

KeysAgree(c) ==
  client[c].phase = "ca" =>
    /\ Pending(c) => K_main = client[c].key /\ pase.pb = client[c].key.pb
    /\ \A r \in requests : r.id = Current(c) =>
         r.ca = [key |-> client[c].key, pb |-> client[c].key.pb]
    /\ Current(c) \in stored => Confirms
    /\ \A a \in answers : a.to = Current(c) /\ a.code = "bad" => ~unloaded

\* Once the parameters came, only posts of this handshake wait.
StoredOwn(c) == client[c].phase \in {"pa", "ca"} => stored \subseteq {Current(c)}

Agree(c) == ParametersAgree(c) /\ SharesAgree(c) /\ KeysAgree(c) /\ StoredOwn(c)

ValuesInv == \A c \in Knows : Undisturbed(c) => Agree(c)

(* What a client sends next was never sent before.                         *)
LEMMA FreshPost ==
  ASSUME TokenInv, TokenInv', HandshakeInv, NEW c \in Client, NEW r, Posts(c, r),
         \A d \in Client \ {c} : client'[d] = client[d]
  PROVE  /\ r.id = Current(c)' /\ requests' = requests \cup {r}
         /\ r.id \notin stored
         /\ \A a \in answers : a.to # r.id
         /\ \A q \in requests : q.id # r.id
<1>1. /\ Advances(c) /\ requests' = requests \cup {r}
      /\ r.id = <<<<c, client'[c].try>>, client'[c].phase>>
  BY DEF Posts
<1>2. \A id \in RequestId : Sent(id) => id # r.id
  BY <1>1, SentStays
<1>. QED BY <1>1, <1>2, Identifiers DEF Current, HandshakeInv, SentByNow, TokenInv

(* A step of a client keeps what the device and the other clients have.    *)
LEMMA ClientValues ==
  ASSUME TokenInv, TokenInv', HandshakeInv, ValuesInv, NEW c \in Client,
         Start(c) \/ GetAnswer(c) \/ GiveUp(c)
  PROVE  ValuesInv'
<1>1. /\ UNCHANGED <<pase, K_main, valid_request, stored, tokens>>
      /\ \A d \in Client \ {c} : client'[d] = client[d]
      /\ answers' \subseteq answers
      /\ disturbed' \in {disturbed, disturbed \ {c}}
      /\ Stops(c) \/ \E r \in RequestMessage : Posts(c, r)
  BY ClientMoves
<1>2. unloaded' = unloaded /\ W0' = W0 /\ (Confirms' <=> Confirms)
  BY <1>1 DEF Start, GetAnswer, GiveUp, W0, Confirms
<1>3. ASSUME NEW d \in Knows \ {c}, Undisturbed(d)'
      PROVE  Agree(d)'
  <2>1. /\ Current(d)' = Current(d) /\ client'[d] = client[d] /\ Undisturbed(d)
        /\ ShareOf(d)' = ShareOf(d) /\ d \in Client
    BY <1>1, <1>3, SpakeAssumption DEF Current, Undisturbed, UnderWay, ShareOf
  <2>2. Agree(d)
    BY <2>1 DEF ValuesInv
  <2>3. \A r \in requests' : r.id = Current(d) => r \in requests
    <3>1. CASE Stops(c)
      BY <3>1 DEF Stops
    <3>2. CASE \E r \in RequestMessage : Posts(c, r)
      <4>1. PICK r : Posts(c, r)
        BY <3>2
      <4>. QED BY <4>1 DEF Posts, Current
    <3>. QED BY <1>1, <3>1, <3>2
  <2>4. Pending(d)' => Pending(d)
    BY <1>1, <2>1, <2>3 DEF Pending
  <2>5. ParametersAgree(d)' /\ StoredOwn(d)'
    BY <1>1, <1>2, <2>1, <2>2 DEF Agree, ParametersAgree, StoredOwn
  <2>6. SharesAgree(d)'
    BY <1>1, <1>2, <2>1, <2>2, <2>4 DEF Agree, SharesAgree
  <2>7. KeysAgree(d)'
    BY <1>1, <1>2, <2>1, <2>2, <2>3, <2>4 DEF Agree, KeysAgree
  <2>. QED BY <2>5, <2>6, <2>7 DEF Agree
<1>4. ASSUME c \in Knows, Undisturbed(c)'
      PROVE  Agree(c)'
  <2>1. ~Stops(c)
    BY <1>4 DEF Stops, Undisturbed, UnderWay, Kinds
  <2>2. PICK r \in RequestMessage : Posts(c, r)
    BY <1>1, <2>1
  <2>3. /\ r.id = Current(c)' /\ requests' = requests \cup {r}
        /\ r.id \notin stored /\ \A a \in answers : a.to # r.id
        /\ \A q \in requests : q.id # r.id
    BY <1>1, <2>2, FreshPost
  <2>4. disturbed' = disturbed
    BY <2>2 DEF Posts
  <2>5. CASE client'[c].phase = "rnd"
    BY <1>1, <2>3, <2>5 DEF Agree, ParametersAgree, SharesAgree, KeysAgree, StoredOwn
  <2>6. ASSUME client'[c].phase # "rnd"
        PROVE  \E a \in answers :
                 /\ a.to = Current(c) /\ a.code = "changed" /\ Undisturbed(c)
                 /\ stored = {} /\ Agree(c)
                 /\ \/ client[c].phase = "rnd" /\ ExchangeCredentials(c, a)
                    \/ client[c].phase = "pa" /\ VerifyCredentials(c, a)
    <3>1. ~Start(c) /\ ~GiveUp(c)
      <4>1. ASSUME Start(c) PROVE client'[c].phase = "rnd"
        BY <4>1 DEF Start, TokenInv, TypeOK
      <4>2. ASSUME GiveUp(c) PROVE Stops(c)
        BY <4>2, EndsTypes DEF GiveUp, Stops, TokenInv
      <4>. QED BY <2>1, <2>6, <4>1, <4>2
    <3>2. PICK a \in answers :
            /\ a.to = Current(c) /\ a.code = "changed"
            /\ \/ client[c].phase = "rnd" /\ ExchangeCredentials(c, a)
               \/ client[c].phase = "pa" /\ VerifyCredentials(c, a)
      <4>1. PICK a \in answers :
              /\ a.to = Current(c)
              /\ \/ /\ a.code = "changed"
                    /\ \/ client[c].phase = "rnd" /\ ExchangeCredentials(c, a)
                       \/ client[c].phase = "pa" /\ VerifyCredentials(c, a)
                 \/ Ends(c, "failed") \/ Ends(c, "done")
        BY <3>1 DEF GetAnswer
      <4>2. ASSUME NEW phase \in {"done", "failed"}, Ends(c, phase) PROVE FALSE
        <5>1. client'[c].phase = phase
          BY <4>2, EndsTypes DEF TokenInv
        <5>. QED BY <1>4, <5>1 DEF Undisturbed, UnderWay, Kinds
      <4>. QED BY <4>1, <4>2
    <3>3. Undisturbed(c)
      BY <1>4, <2>4, <3>2 DEF Undisturbed, UnderWay, Kinds
    <3>4. stored = {}
      BY <3>2, <3>3 DEF HandshakeInv, HandshakeOwn, OwnAnswer
    <3>. QED BY <1>4, <3>2, <3>3, <3>4 DEF ValuesInv
  <2>7. CASE client'[c].phase # "rnd"
    <3>1. PICK a \in answers :
            /\ a.to = Current(c) /\ a.code = "changed" /\ Undisturbed(c)
            /\ stored = {} /\ Agree(c)
            /\ \/ client[c].phase = "rnd" /\ ExchangeCredentials(c, a)
               \/ client[c].phase = "pa" /\ VerifyCredentials(c, a)
      BY <2>6, <2>7
    <3>2. CASE client[c].phase = "rnd" /\ ExchangeCredentials(c, a)
      <4>1. a.kind = "rnd" /\ a.value = W0.salt
        BY <3>1, <3>2 DEF Agree, ParametersAgree
      <4>2. /\ client'[c].phase = "pa"
            /\ client'[c].w = [good |-> c \in Knows, salt |-> a.value]
        BY <3>2, <4>1, PostsCredentials DEF TokenInv
      <4>3. client'[c].w = W0
        <5>1. (c \in Knows) = TRUE
          BY <1>4
        <5>2. client'[c].w = [good |-> TRUE, salt |-> W0.salt]
          BY <4>1, <4>2, <5>1
        <5>. QED BY <5>2 DEF W0
      <4>. QED BY <1>1, <1>2, <2>3, <3>1, <4>2, <4>3
           DEF Agree, ParametersAgree, SharesAgree, KeysAgree, StoredOwn
    <3>3. CASE client[c].phase = "pa" /\ VerifyCredentials(c, a)
      <4>1. /\ K_main = [pa |-> ShareOf(c), pb |-> pase.pb, w |-> client[c].w]
            /\ a.value = pase.pb
        BY <3>1, <3>3 DEF Agree, SharesAgree
      <4>2. client[c].w # none
        BY <3>3 DEF TokenInv, HasParameters
      <4>3. PICK key \in Key :
              /\ key = [pa |-> <<c, client[c].try>>, pb |-> a.value, w |-> client[c].w]
              /\ client'[c].phase = "ca" /\ client'[c].key = key
              /\ requests' = requests \cup
                   {Request(c, client[c].try, "ca", [key |-> key, pb |-> a.value])}
        BY <3>3, <4>2, PostsConfirmation DEF TokenInv
      <4>4. key = K_main /\ key.pb = pase.pb
        BY <4>1, <4>3 DEF ShareOf
      <4>5. r.ca = [key |-> key, pb |-> a.value]
        <5>1. r \in requests' /\ r \notin requests
          BY <2>3
        <5>2. r = Request(c, client[c].try, "ca", [key |-> key, pb |-> a.value])
          BY <4>3, <5>1
        <5>. QED BY <5>2 DEF Request
      <4>6. /\ K_main' = client'[c].key /\ pase'.pb = client'[c].key.pb
            /\ \A q \in requests' : q.id = Current(c)' =>
                 q.ca = [key |-> client'[c].key, pb |-> client'[c].key.pb]
        BY <1>1, <2>3, <4>1, <4>3, <4>4, <4>5
      <4>. QED BY <1>1, <2>3, <3>1, <4>3, <4>6
           DEF Agree, ParametersAgree, SharesAgree, KeysAgree, StoredOwn
    <3>. QED BY <3>1, <3>2, <3>3
  <2>. QED BY <2>5, <2>7
<1>. QED BY <1>3, <1>4 DEF ValuesInv

(* A post of the client brings its own share or confirmation.              *)
LEMMA PostValues ==
  ASSUME TokenInv, HandshakeInv, ValuesInv, Post
  PROVE  ValuesInv'
<1>1. PICK r \in requests :
        /\ requests' = requests \ {r}
        /\ PostLoaded(r) \/ PostBlocked(r) \/ Accept(r)
        /\ UNCHANGED <<client, failed, unloaded>>
  BY DEF Post
<1>2. /\ r.id \notin stored /\ \A a \in answers : a.to # r.id
      /\ r = Request(r.id[1][1], r.id[1][2], r.id[2], r.ca)
  BY DEF HandshakeInv, OnePlace, TokenInv, FieldsOwn
<1>. SUFFICES ASSUME NEW c \in Knows, Undisturbed(c)' PROVE Agree(c)'
  BY DEF ValuesInv
<1>3. /\ Undisturbed(c) /\ Agree(c) /\ c \in Client
      /\ Current(c)' = Current(c) /\ ShareOf(c)' = ShareOf(c)
  <2>1. disturbed \subseteq disturbed'
    BY <1>1 DEF PostLoaded, PostBlocked, Accept
  <2>2. Undisturbed(c)
    BY <1>1, <2>1 DEF Undisturbed, UnderWay
  <2>. QED BY <1>1, <2>2, SpakeAssumption DEF Current, ShareOf, ValuesInv
<1>4. CASE PostLoaded(r) \/ PostBlocked(r)
  <2>1. UNCHANGED <<pase, K_main, stored>>
    BY <1>4 DEF PostLoaded, PostBlocked, deviceVars
  <2>2. W0' = W0 /\ (Confirms' <=> Confirms)
    BY <2>1 DEF W0, Confirms
  <2>3. \A a \in answers' : a \in answers \/ (a.code # "changed" /\ (a.code = "bad" => ~unloaded))
    BY <1>4 DEF PostLoaded, PostBlocked, Send
  <2>4. Pending(c)' => Pending(c)
    BY <1>1, <1>3, <2>1 DEF Pending
  <2>. QED BY <1>1, <1>3, <2>1, <2>2, <2>3, <2>4
       DEF Agree, ParametersAgree, SharesAgree, KeysAgree, StoredOwn
<1>5. CASE Accept(r)
  <2>1. /\ pase' = Parsed(r) /\ stored' \subseteq stored \cup {r.id}
        /\ disturbed' = disturbed \cup {d \in Client : UnderWay(d) /\ Current(d) # r.id}
        /\ UNCHANGED <<answers, K_main>>
    BY <1>5 DEF Accept
  <2>2. Current(c) = r.id /\ Pending(c)
    BY <1>1, <1>3, <2>1 DEF Undisturbed, UnderWay, Pending
  <2>3. r.id[1] = ShareOf(c) /\ r.id[2] = client[c].phase
    BY <2>2 DEF Current, ShareOf
  <2>4. /\ pase'.pb = pase.pb /\ pase'.salt = pase.salt
        /\ pase'.pa = Given(r.pa, pase.pa) /\ pase'.ca = Given(r.ca, pase.ca)
    BY <2>1 DEF Parsed, TokenInv, TypeOK
  <2>5. W0' = W0
    BY <2>4 DEF W0
  <2>6. client[c].phase = "pa" => pase'.pa = ShareOf(c)
    <3>. SUFFICES ASSUME client[c].phase = "pa" PROVE pase'.pa = ShareOf(c)
      OBVIOUS
    <3>1. r.pa = ShareOf(c)
      BY <1>2, <2>3 DEF Request, ShareOf
    <3>2. ShareOf(c) # none
      BY CurrentId, <1>3, Absent DEF ShareOf, TokenInv, Undisturbed
    <3>. QED BY <2>4, <3>1, <3>2 DEF Given
  <2>7. client[c].phase = "ca" => Confirms'
    <3>. SUFFICES ASSUME client[c].phase = "ca" PROVE Confirms'
      OBVIOUS
    <3>1. r.ca # none /\ r.ca = [key |-> client[c].key, pb |-> client[c].key.pb]
      BY <1>3, <2>2 DEF Agree, KeysAgree, HandshakeInv, HandshakeOwn, OwnRequest, Undisturbed
    <3>2. K_main = client[c].key /\ pase.pb = client[c].key.pb
      BY <1>3, <2>2 DEF Agree, KeysAgree
    <3>. QED BY <2>1, <2>4, <3>1, <3>2 DEF Given, Confirms
  <2>8. ParametersAgree(c)' /\ StoredOwn(c)'
    BY <1>1, <1>2, <1>3, <2>1, <2>2 DEF Agree, ParametersAgree, StoredOwn
  <2>9. SharesAgree(c)'
    BY <1>1, <1>2, <1>3, <2>1, <2>2, <2>5, <2>6 DEF Agree, SharesAgree
  <2>10. KeysAgree(c)'
    BY <1>1, <1>2, <1>3, <2>1, <2>2, <2>4, <2>7 DEF Agree, KeysAgree
  <2>. QED BY <2>8, <2>9, <2>10 DEF Agree
<1>. QED BY <1>1, <1>4, <1>5

(* The device answers an undisturbed handshake from its own values.        *)
LEMMA SeparateValues ==
  ASSUME TokenInv, HandshakeInv, ValuesInv, Separate
  PROVE  ValuesInv'
<1>1. UNCHANGED <<client, requests, disturbed, unloaded>>
  BY DEF Separate
<1>. SUFFICES ASSUME NEW c \in Knows, Undisturbed(c)' PROVE Agree(c)'
  BY DEF ValuesInv
<1>2. /\ Undisturbed(c) /\ Agree(c) /\ c \in Client
      /\ Current(c)' = Current(c) /\ ShareOf(c)' = ShareOf(c)
  BY <1>1, SpakeAssumption DEF Undisturbed, UnderWay, Current, ShareOf, ValuesInv
<1>3. CASE UNCHANGED <<answers, stored, pase, K_main, failed, tokens, fresh>>
  <2>1. W0' = W0 /\ (Confirms' <=> Confirms) /\ (Pending(c)' <=> Pending(c))
    BY <1>1, <1>2, <1>3 DEF W0, Confirms, Pending
  <2>. QED BY <1>1, <1>2, <1>3, <2>1
       DEF Agree, ParametersAgree, SharesAgree, KeysAgree, StoredOwn
<1>4. CASE Active /\ (GiveParameters \/ GiveShare \/ MakeToken \/ HandshakeFails)
  <2>1. stored # {} /\ stored' = {}
    BY <1>4 DEF Active, GiveParameters, GiveShare, MakeToken, HandshakeFails, AnswerAll
  <2>2. \A a \in answers : a.to = Current(c) => a.code # "changed"
    BY <1>2, <2>1 DEF HandshakeInv, HandshakeOwn, OwnAnswer
  <2>3. \A a \in answers' : a \in answers \/ a.to \in stored
    BY <1>4 DEF GiveParameters, GiveShare, MakeToken, HandshakeFails, AnswerAll, Send
  <2>4. StoredOwn(c)'
    BY <2>1 DEF StoredOwn
  <2>5. Current(c) \in stored =>
          /\ valid_request = client[c].phase
          /\ ~Pending(c)'
    BY <1>1, <1>2, <2>1 DEF HandshakeInv, HandshakeOwn, OwnPost, OnePlace, Pending
  <2>6. CASE Current(c) \notin stored
    <3>1. client[c].phase = "rnd"
      BY <1>2, <2>1, <2>6 DEF Agree, StoredOwn, Undisturbed, UnderWay, Kinds
    <3>. QED BY <1>1, <1>2, <2>2, <2>3, <2>4, <2>6, <3>1
         DEF Agree, ParametersAgree, SharesAgree, KeysAgree
  <2>7. CASE Current(c) \in stored /\ client[c].phase = "rnd"
    <3>1. GiveParameters
      BY <1>4, <2>5, <2>7, Absent DEF GiveShare, MakeToken, HandshakeFails, Kinds
    <3>2. \A a \in answers' : a \in answers \/
            (a.kind = "rnd" /\ a.value = IF Preloaded THEN 1 ELSE fresh)
      BY <3>1 DEF GiveParameters, AnswerAll, Send
    <3>3. pase'.salt = IF Preloaded THEN 1 ELSE fresh
      BY <3>1 DEF GiveParameters, TokenInv, TypeOK
    <3>4. W0'.salt = IF Preloaded THEN 1 ELSE fresh
      BY <3>3 DEF W0
    <3>5. ParametersAgree(c)'
      BY <1>2, <2>2, <3>2, <3>4 DEF ParametersAgree
    <3>. QED BY <1>1, <2>4, <2>7, <3>5 DEF Agree, SharesAgree, KeysAgree
  <2>8. CASE Current(c) \in stored /\ client[c].phase = "pa"
    <3>1. client[c].w = W0 /\ pase.pa = ShareOf(c)
      BY <1>2, <2>8 DEF Agree, SharesAgree, Pending
    <3>2. GiveShare \/ HandshakeFails
      BY <1>4, <2>5, <2>8 DEF GiveParameters, MakeToken
    <3>3. CASE HandshakeFails
      <4>1. \A a \in answers' : a \in answers \/ a.code = "bad"
        BY <3>3 DEF HandshakeFails, AnswerAll, Send
      <4>2. SharesAgree(c)'
        BY <1>1, <1>2, <2>1, <2>2, <2>5, <2>8, <4>1 DEF SharesAgree
      <4>. QED BY <1>1, <2>4, <2>8, <4>2 DEF Agree, ParametersAgree, KeysAgree
    <3>4. CASE GiveShare
      <4>1. /\ pase' = [pase EXCEPT !.pb = fresh]
            /\ K_main' = [pa |-> pase.pa, pb |-> fresh, w |-> W0]
        BY <3>4 DEF GiveShare
      <4>2. \A a \in answers' : a \in answers \/ a.value = fresh
        BY <3>4 DEF GiveShare, AnswerAll, Send
      <4>3. pase'.pb = fresh
        BY <4>1 DEF TokenInv, TypeOK
      <4>4. SharesAgree(c)'
        BY <1>1, <1>2, <2>1, <2>2, <2>5, <2>8, <3>1, <4>1, <4>2, <4>3 DEF SharesAgree
      <4>. QED BY <1>1, <2>4, <2>8, <4>4 DEF Agree, ParametersAgree, KeysAgree
    <3>. QED BY <3>2, <3>3, <3>4
  <2>9. CASE Current(c) \in stored /\ client[c].phase = "ca"
    <3>1. Confirms
      BY <1>2, <2>9 DEF Agree, KeysAgree
    <3>2. MakeToken
      BY <1>4, <2>5, <2>9, <3>1, Absent
         DEF GiveParameters, GiveShare, HandshakeFails, Kinds
    <3>3. \A a \in answers' : a \in answers \/ a.code = "changed"
      BY <3>2 DEF MakeToken, AnswerAll, Send
    <3>4. \A q \in requests : q.id # Current(c)
      BY <2>9 DEF HandshakeInv, OnePlace
    <3>5. KeysAgree(c)'
      BY <1>1, <1>2, <2>1, <2>5, <2>9, <3>3, <3>4 DEF Agree, KeysAgree
    <3>. QED BY <1>1, <2>4, <2>9, <3>5 DEF Agree, ParametersAgree, SharesAgree
  <2>. QED BY <1>2, <2>6, <2>7, <2>8, <2>9 DEF Undisturbed, UnderWay, Kinds
<1>. QED BY <1>3, <1>4 DEF Separate

LEMMA ValuesInvariant == Spec => []ValuesInv
<1>1. Init => ValuesInv
  BY SpakeAssumption DEF Init, ValuesInv, Undisturbed, UnderWay, Kinds
<1>2. TokenInv /\ TokenInv' /\ HandshakeInv /\ ValuesInv /\ [Next]_vars => ValuesInv'
  <2>. SUFFICES ASSUME TokenInv, TokenInv', HandshakeInv, ValuesInv, [Next]_vars
       PROVE  ValuesInv'
    OBVIOUS
  <2>1. ASSUME NEW c \in Client, Start(c) \/ GetAnswer(c) \/ GiveUp(c) PROVE ValuesInv'
    BY <2>1, ClientValues
  <2>2. CASE Post
    BY <2>2, PostValues
  <2>3. CASE Separate
    BY <2>3, SeparateValues
  <2>4. CASE PostNothing \/ Decrement \/ Load \/ UNCHANGED vars
    <3>1. /\ UNCHANGED <<client, requests, answers, pase, K_main, stored>>
          /\ unloaded' = FALSE \/ unloaded' = unloaded
          /\ disturbed \subseteq disturbed'
      BY <2>4, Zenon DEF PostNothing, Decrement, Load, vars, deviceVars
    <3>2. ASSUME NEW c \in Knows, Undisturbed(c)' PROVE Agree(c)'
      <4>1. Undisturbed(c) /\ Agree(c)
        BY <3>1, <3>2 DEF Undisturbed, UnderWay, ValuesInv
      <4>2. /\ Current(c)' = Current(c) /\ ShareOf(c)' = ShareOf(c) /\ W0' = W0
            /\ (Confirms' <=> Confirms) /\ (Pending(c)' <=> Pending(c))
        BY <3>1 DEF Current, ShareOf, W0, Confirms, Pending
      <4>. QED BY <3>1, <4>1, <4>2
           DEF Agree, ParametersAgree, SharesAgree, KeysAgree, StoredOwn
    <3>. QED BY <3>2 DEF ValuesInv
  <2>. QED BY <2>1, <2>2, <2>3, <2>4 DEF Next
<1>. QED BY <1>1, <1>2, TokenInvariant, HandshakeInvariant, PTL DEF Spec

(* A client with the password is refused only when it was interrupted or   *)
(* the device is loaded.                                                   *)
THEOREM TrueKeysAlwaysPass == Spec => []TrueKeysPass
<1>1. ValuesInv => TrueKeysPass
  BY DEF ValuesInv, TrueKeysPass, Undisturbed, UnderWay, Kinds, Agree, KeysAgree
<1>. QED BY <1>1, ValuesInvariant, PTL
=============================================================================
