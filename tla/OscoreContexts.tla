-------------------------- MODULE OscoreContexts --------------------------
(***************************************************************************)
(* The access-token table of a device (/auth/at) with its storage, and the *)
(* pool of OSCORE contexts derived from it.  A token that may send has one *)
(* sender context, built again for all tokens after a change of the table; *)
(* a recipient context is created when the first message of a kid and a    *)
(* context id arrives, and evicted when the pool is full.                  *)
(*                                                                         *)
(* Handlers run to completion on the one main thread; a restart falls      *)
(* between two of them.  The clock advances between handlers and stands    *)
(* still within one; of the times of last use only their order is kept.    *)
(***************************************************************************)
EXTENDS Integers, Sequences, FiniteSets, SequencesExt, FiniteSetsExt

CONSTANTS NumEntries,  \* G_AT_MAX_ENTRIES (20)
          PoolSize,    \* number of blocks of the pool ctx_s (20)
          None,        \* the empty string
          NoFile,      \* what reading a file that does not exist returns
          Kids,        \* OSCORE ids of tokens and of messages (kid)
          Keys,        \* master secrets of 16 bytes
          KidCtxs,     \* context ids (kid context)
          GroupAddresses,
          Posts,       \* payloads of POST /auth/at: sequences of objects, see Fields
          SharedTokens,\* tokens the SPAKE2+ handshake installs
          MaxPending   \* bound of the model: entries whose peers await a response

Fields == {"id", "osc", "key", "ctx", "ga", "scope", "profile"}

Objects == UNION {{post[i] : i \in DOMAIN post} : post \in Posts}
TokenIds ==
  {o.id : o \in {x \in Objects \cup SharedTokens : "id" \in DOMAIN x}}
Scopes == {"none", "g", "sec"}
Token ==
  [id : TokenIds \cup {None}, osc : Kids \cup {None}, key : Keys \cup {None},
   ctx : KidCtxs \cup {None}, ga : SUBSET GroupAddresses, scope : Scopes,
   profile : BOOLEAN]

ASSUME ContextsAssumption ==
  /\ NumEntries \in Nat \ {0} /\ PoolSize \in Nat \ {0}
  /\ MaxPending \in Nat \ {0}
  /\ None \notin Kids \cup Keys \cup KidCtxs

\* An object has some of the fields of a token, and no token an empty id.
ASSUME ObjectsAssumption ==
  /\ Posts \subseteq Seq(Objects) /\ SharedTokens \subseteq Token
  /\ None \notin TokenIds
  /\ \A o \in Objects :
       /\ DOMAIN o \subseteq Fields
       /\ "osc" \in DOMAIN o => o.osc \in Kids \cup {None}
       /\ "key" \in DOMAIN o => o.key \in Keys \cup {None}
       /\ "ctx" \in DOMAIN o => o.ctx \in KidCtxs \cup {None}
       /\ "ga" \in DOMAIN o => o.ga \subseteq GroupAddresses
       /\ "scope" \in DOMAIN o => o.scope \in Scopes
       /\ "profile" \in DOMAIN o => o.profile \in BOOLEAN

VARIABLES
  at,       \* g_at_entries
  stored,   \* their files in persistent storage
  contexts, \* the list contexts
  leaked,   \* blocks of ctx_s that are allocated and in no list
  pending,  \* auth_at_index of the requests that still have to be answered
  last,     \* what became of the last message received or sent
  missed    \* history: entries changed by a POST of several objects that
            \* ended without building the contexts again

vars == <<at, stored, contexts, leaked, pending, last, missed>>

Slot == 1 .. NumEntries

EmptyToken == [id |-> None, osc |-> None, key |-> None, ctx |-> None,
               ga |-> {}, scope |-> "none", profile |-> FALSE]

\* What became of a message; the kid of one refused or sent.
Outcome == {"none", "ok", "4.00", "4.01", "sent", "dropped"}
Nothing == [outcome |-> "none", kid |-> None]

\* What the code takes for a sender and for a recipient context: the one
\* where it rebuilds the contexts, the other where it evicts one.
IsSender(c) == c.recv = None
IsRecipient(c) == c.send = None

Context == [send : Kids \cup {None}, recv : Kids \cup {None},
            ctx : KidCtxs \cup {None}, key : Keys, index : Slot, used : Nat]

TypeOK ==
  /\ at \in [Slot -> Token] /\ stored \in [Slot -> Token \cup {NoFile}]
  /\ contexts \in Seq(Context)
  /\ leaked \in Nat /\ Len(contexts) + leaked <= PoolSize
  /\ pending \subseteq Slot
  /\ last \in [outcome : Outcome, kid : Kids \cup {None}]
  /\ missed \subseteq Slot
-----------------------------------------------------------------------------
(* The pool, as a record of the list of contexts and the blocks leaked.     *)

\* The entries of a list at the positions to keep, in their order.
Kept(list, keep) ==
  LET kept[n \in 0 .. Len(list)] ==
        IF n = 0 THEN <<>>
        ELSE IF n \in keep THEN Append(kept[n - 1], list[n]) ELSE kept[n - 1]
  IN  kept[Len(list)]

Pool == [list |-> contexts, leaked |-> leaked]
EmptyPool == [list |-> <<>>, leaked |-> 0]

\* Times of last use are ranks; a use gets a new highest one.
NextUse(list) == Max({c.used : c \in Range(list)} \cup {0}) + 1

Ranked(list) ==
  LET times == {c.used : c \in Range(list)}
  IN  [i \in DOMAIN list |->
         [list[i] EXCEPT !.used = Cardinality({t \in times : t < list[i].used})]]

Touch(list, i) == Ranked([list EXCEPT ![i].used = NextUse(list)])

Full(pool) == Len(pool.list) + pool.leaked = PoolSize

\* oc_oscore_add_context: a secret that is not of 16 bytes is found out after
\* the block was taken, and the block is not given back.
AddContext(pool, c) ==
  IF Full(pool) THEN pool
  ELSE IF c.key = None THEN [pool EXCEPT !.leaked = @ + 1]
  ELSE [pool EXCEPT !.list = Append(@, c)]

Adds(pool, c) == ~Full(pool) /\ c.key # None

\* Mutant: the comparison of the times is the wrong way round.
MruIndex(list) ==
  LET newer == {i \in DOMAIN list :
                  IsRecipient(list[i]) /\ list[i].used > Head(list).used}
  IN  IF newer = {} THEN 1
      ELSE Min({i \in newer : \A j \in newer : list[i].used >= list[j].used})

\* oc_oscore_free_lru_recipient_context: the search starts from the head,
\* whatever it is, and goes on with recipient contexts that are older.
LruIndex(list) ==
  LET older == {i \in DOMAIN list :
                  IsRecipient(list[i]) /\ list[i].used < Head(list).used}
  IN  IF older = {} THEN 1
      ELSE Min({i \in older : \A j \in older : list[i].used <= list[j].used})

\* Mutant: nothing is freed.
FreeNone(pool) == pool

FreeLru(pool) ==
  IF pool.list = <<>> THEN pool
  ELSE [pool EXCEPT !.list = Kept(@, DOMAIN @ \ {LruIndex(@)})]

Loadable(table, i) == table[i].id # None /\ table[i].profile

SenderContext(table, i, time) ==
  [send |-> table[i].osc, recv |-> None, ctx |-> table[i].ctx,
   key |-> table[i].key, index |-> i, used |-> time]

\* Mutant: no context is freed before the new ones are built.
KeepAll(list) == list

\* oc_oscore_free_sender_contexts
FreeSenders(list) == Kept(list, {n \in DOMAIN list : ~IsSender(list[n])})

\* oc_init_oscore_from_storage: no context is evicted for another.
Rebuilt(pool, table) ==
  LET time == NextUse(pool.list)
      built[i \in 0 .. NumEntries] ==
        IF i = 0 THEN [pool EXCEPT !.list = FreeSenders(@)]
        ELSE IF Loadable(table, i)
             THEN AddContext(built[i - 1], SenderContext(table, i, time))
             ELSE built[i - 1]
  IN  [built[NumEntries] EXCEPT !.list = Ranked(@)]

SetPool(pool) == contexts' = pool.list /\ leaked' = pool.leaked

-----------------------------------------------------------------------------
(* The table.                                                              *)

WithId(table, id) == {i \in Slot : table[i].id = id}
IndexOf(table, id) == IF WithId(table, id) = {} THEN 0 ELSE Min(WithId(table, id))

\* find_index_from_at, or else find_empty_at_index; 0 for none.
IndexFor(table, id) ==
  IF IndexOf(table, id) # 0 THEN IndexOf(table, id) ELSE IndexOf(table, None)

\* oc_at_delete_entry keeps the group addresses.
Cleared(token) == [EmptyToken EXCEPT !.ga = token.ga]

\* The fields of an object replace those of the entry; group addresses set
\* the scope as well.
Written(token, object) ==
  [f \in Fields |->
     IF f = "scope" /\ "ga" \in DOMAIN object THEN "g"
     ELSE IF f \in DOMAIN object THEN object[f] ELSE token[f]]

IdOnly(object) == DOMAIN object = {"id"}

\* Mutant: the files stay.
EraseNone(keep) == stored

\* The files of the entries that are not kept are erased.
EraseFiles(keep) == [i \in Slot |-> IF i \in keep THEN stored[i] ELSE NoFile]

\* One object of a POST: s holds the table and its files, whether the last
\* object was a change, what was updated so far, and whether it was refused.
\* An object with a mixed array is refused like one without an id.
PostObject(s, object) ==
  IF s.refused \/ "id" \notin DOMAIN object \/ IndexFor(s.at, object.id) = 0
  THEN [s EXCEPT !.refused = TRUE]
  ELSE LET i     == IndexFor(s.at, object.id)
           entry == IF IdOnly(object) THEN Cleared(s.at[i])
                    ELSE Written(s.at[i], object)
       IN  [at      |-> [s.at EXCEPT ![i] = entry],
            stored  |-> [s.stored EXCEPT ![i] =
                           IF IdOnly(object) THEN NoFile ELSE entry],
            changed |-> s.at[i].id # None,
            other   |-> s.other \/ DOMAIN object \cap {"osc", "key", "ctx"} # {},
            scope   |-> s.scope \/ "scope" \in DOMAIN object,
            refused |-> FALSE]

\* Mutant: it is not asked what else was updated.
AnyChange(s) == s.changed

\* An update of scopes only leaves the contexts alone.
ScopeOnly(s) == s.changed /\ ~s.other /\ s.scope

\* The objects of a payload from first to last.
Posted(post) ==
  LET s[n \in 0 .. Len(post)] ==
        IF n = 0 THEN [at |-> at, stored |-> stored, changed |-> FALSE,
                       other |-> FALSE, scope |-> FALSE, refused |-> FALSE]
        ELSE PostObject(s[n - 1], post[n])
  IN  s[Len(post)]

\* What of a token its sender context has.
Sending(token) == <<token.id, token.osc, token.ctx, token.key>>

\* One object is enough to know what has changed; of several the last decides.
MissedBy(post, table) ==
  IF Len(post) <= 1 THEN {} ELSE {i \in Slot : Sending(table[i]) # Sending(at[i])}

\* oc_core_auth_at_post_handler: a refusal ends the request where it is.
Post(post) ==
  LET s == Posted(post)
  IN  /\ at' = s.at /\ stored' = s.stored
      /\ IF s.refused \/ ScopeOnly(s)
         THEN missed' = missed \cup MissedBy(post, s.at) /\ UNCHANGED <<contexts, leaked>>
         ELSE missed' = {} /\ SetPool(Rebuilt(Pool, s.at))
      /\ last' = Nothing
      /\ UNCHANGED pending

\* oc_core_auth_at_x_delete_handler: the file is erased, and written again
\* for the empty entry.
DeleteToken(i) ==
  /\ at[i].id # None
  /\ at' = [at EXCEPT ![i] = Cleared(at[i])]
  /\ stored' = [stored EXCEPT ![i] = Cleared(at[i])]
  /\ contexts' = Ranked(Kept(contexts, {n \in DOMAIN contexts : contexts[n].index # i}))
  /\ missed' = missed \ {i}
  /\ last' = Nothing
  /\ UNCHANGED <<leaked, pending>>

\* oc_delete_at_table: DELETE /auth/at, and reset 2.
DeleteTable ==
  /\ at' = [i \in Slot |-> Cleared(at[i])]
  /\ stored' = EraseFiles({})
  /\ contexts' = <<>> /\ missed' = {}
  /\ last' = Nothing
  /\ UNCHANGED <<leaked, pending>>

\* oc_reset_at_table with code 7: tokens of the security interface stay.
ResetTable ==
  LET keep  == {i \in Slot : at[i].scope = "sec"}
      table == [i \in Slot |-> IF i \in keep THEN at[i] ELSE Cleared(at[i])]
  IN  /\ at' = table
      /\ stored' = EraseFiles(keep)
      /\ SetPool(Rebuilt(Pool, table)) /\ missed' = {}
      /\ last' = Nothing
      /\ UNCHANGED pending

\* oc_oscore_set_auth_shared with oc_core_set_at_table: every field is
\* replaced, and the contexts are built twice.
SetAuthShared(token) ==
  LET i     == IndexFor(at, token.id)
      table == [at EXCEPT ![i] = token]
  IN  /\ i # 0
      /\ at' = table
      /\ stored' = [stored EXCEPT ![i] = token]
      /\ SetPool(Rebuilt(Rebuilt(Pool, table), table)) /\ missed' = {}
      /\ last' = Nothing
      /\ UNCHANGED pending

\* Power on: oc_load_at_table, with an empty table and pool.
Restart ==
  LET table == [i \in Slot |-> IF stored[i] = NoFile THEN EmptyToken ELSE stored[i]]
  IN  /\ at' = table
      /\ SetPool(Rebuilt(EmptyPool, table)) /\ missed' = {}
      /\ pending' = {}
      /\ last' = Nothing
      /\ UNCHANGED stored

-----------------------------------------------------------------------------
(* Messages.                                                               *)

\* oc_oscore_recv_message finds the context of a request by kid and context
\* id, or creates it from the first token with the kid, if need be after an
\* eviction.
FindByKidCtx(kid, ctx) ==
  SelectInSeq(contexts, LAMBDA c : c.recv = kid /\ c.ctx = ctx)

TokensWith(kid) == {i \in Slot : at[i].osc = kid}

RecipientContext(kid, ctx) ==
  LET i == Min(TokensWith(kid))
  IN  [send |-> None, recv |-> kid, ctx |-> ctx, key |-> at[i].key,
       index |-> i, used |-> NextUse(contexts)]

\* The two attempts to add a recipient context.
TryTwice(pool, c) ==
  IF Adds(pool, c) THEN AddContext(pool, c)
  ELSE AddContext(FreeLru(AddContext(pool, c)), c)

AddsInTwo(pool, c) == Adds(pool, c) \/ Adds(FreeLru(AddContext(pool, c)), c)

Accepted(c, key) == c.key = key

Decrypt(c, key) ==
  /\ last' = [outcome |-> IF Accepted(c, key) THEN "ok" ELSE "4.00", kid |-> None]
  /\ pending' = pending \cup (IF Accepted(c, key) THEN {c.index} ELSE {})

MayReceive == Cardinality(pending) < MaxPending

ReceiveKnown(kid, ctx, key) ==
  LET n == FindByKidCtx(kid, ctx)
  IN  /\ MayReceive
      /\ n # 0
      /\ contexts' = Touch(contexts, n)
      /\ Decrypt(contexts[n], key)
      /\ UNCHANGED <<at, stored, leaked, missed>>

ReceiveNew(kid, ctx, key) ==
  /\ MayReceive
  /\ FindByKidCtx(kid, ctx) = 0
  /\ TokensWith(kid) # {}
  /\ LET c    == RecipientContext(kid, ctx)
         pool == TryTwice(Pool, c)
     IN  /\ SetPool([pool EXCEPT !.list = Ranked(@)])
         /\ IF AddsInTwo(Pool, c) THEN Decrypt(c, key)
            ELSE /\ last' = [outcome |-> "4.01", kid |-> kid]
                 /\ UNCHANGED pending
  /\ UNCHANGED <<at, stored, missed>>

ReceiveUnknown(kid, ctx) ==
  /\ FindByKidCtx(kid, ctx) = 0
  /\ TokensWith(kid) = {}
  /\ last' = [outcome |-> "4.01", kid |-> kid]
  /\ UNCHANGED <<at, stored, contexts, leaked, pending, missed>>

Use(n) == contexts' = IF n = 0 THEN contexts ELSE Touch(contexts, n)

\* oc_oscore_send_message for a response: the context is looked up by the
\* OSCORE id the token at the index has now, and failing that by the empty id
\* a recipient context leaves in the endpoint.
Respond(i) ==
  LET byKid == IF at[i].osc = None THEN 0
               ELSE SelectInSeq(contexts, LAMBDA c : c.recv = at[i].osc)
      byId  == SelectInSeq(contexts, IsRecipient)
  IN  /\ i \in pending
      /\ pending' = pending \ {i}
      /\ Use(IF byKid # 0 THEN byKid ELSE byId)
      /\ last' = Nothing
      /\ UNCHANGED <<at, stored, leaked, missed>>

\* A unicast request to a known peer, and its response: both find the
\* context by its sender id.
Unicast(kid) ==
  /\ Use(SelectInSeq(contexts, LAMBDA c : c.send = kid))
  /\ last' = Nothing
  /\ UNCHANGED <<at, stored, leaked, pending, missed>>

\* oc_oscore_send_multicast_message: the first context of any kind whose
\* token has the group address.
SendGroup(ga) ==
  LET n == SelectInSeq(contexts, LAMBDA c : ga \in at[c.index].ga)
  IN  /\ Use(n)
      /\ last' = IF n = 0 THEN [outcome |-> "dropped", kid |-> None]
                 ELSE [outcome |-> "sent", kid |-> contexts[n].send]
      /\ UNCHANGED <<at, stored, leaked, pending, missed>>

-----------------------------------------------------------------------------
Init ==
  /\ at = [i \in Slot |-> EmptyToken]
  /\ stored = [i \in Slot |-> NoFile]
  /\ contexts = <<>> /\ leaked = 0
  /\ pending = {} /\ last = Nothing /\ missed = {}

Next ==
  \/ \E post \in Posts : Post(post)
  \/ \E token \in SharedTokens : SetAuthShared(token)
  \/ \E i \in Slot : DeleteToken(i) \/ Respond(i)
  \/ DeleteTable \/ ResetTable \/ Restart
  \/ \E kid \in Kids, ctx \in KidCtxs :
       \/ ReceiveUnknown(kid, ctx)
       \/ \E key \in Keys : ReceiveKnown(kid, ctx, key) \/ ReceiveNew(kid, ctx, key)
  \/ \E kid \in Kids : Unicast(kid)
  \/ \E ga \in GroupAddresses : SendGroup(ga)

Spec == Init /\ [][Next]_vars

-----------------------------------------------------------------------------
\* However the table changes and messages come in, no kid and context id has
\* two recipient contexts and no entry has two sender contexts: the lookups
\* return the first match, and would leave the second to grow stale.
UniqueContexts ==
  \A n, m \in DOMAIN contexts : n # m =>
    /\ IsSender(contexts[n]) /\ IsSender(contexts[m]) =>
         contexts[n].index # contexts[m].index
    /\ ~IsSender(contexts[n]) /\ ~IsSender(contexts[m]) =>
         <<contexts[n].recv, contexts[n].ctx>> # <<contexts[m].recv, contexts[m].ctx>>

\* A sender context has the id, the context id and the secret of its token.
Follows(c) ==
  /\ at[c.index].id # None
  /\ c.send = at[c.index].osc /\ c.ctx = at[c.index].ctx /\ c.key = at[c.index].key

\* A sender context always has what its token has now, however tokens are
\* written, refused, deleted and reset: unless a POST of several objects
\* changed that very token, and its last object was refused or was a change of
\* scopes.
SenderContextsCurrent ==
  \A c \in Range(contexts) : IsSender(c) /\ c.index \notin missed => Follows(c)

\* A restart brings back every token, with all its fields, and none that was
\* deleted.
TableIsStored ==
  \A i \in Slot :
    IF at[i].id # None THEN stored[i] = at[i]
    ELSE stored[i] = NoFile \/ stored[i].id = None

\* A request whose kid has a token with a complete secret is never refused for
\* want of a context: however full the pool is, eviction makes room, unless
\* every block has leaked.
KnownKidServed ==
  last.outcome = "4.01" =>
    \/ TokensWith(last.kid) = {}
    \/ at[Min(TokensWith(last.kid))].key = None
    \/ leaked = PoolSize

\* The recipient contexts a received request takes from the list.
Evicted ==
  {c \in Range(contexts) :
     ~IsSender(c) /\ \A d \in Range(contexts') :
                       <<d.recv, d.ctx>> # <<c.recv, c.ctx>>}

\* Of two recipient contexts a request never evicts the one that was used
\* later and keeps the other.
EvictsOldest ==
  [][ last'.outcome \in {"ok", "4.00"} =>
        \A c \in Evicted : \A d \in Range(contexts) \ Evicted :
          ~IsSender(d) => c.used <= d.used ]_vars

\* A group message carries the kid its receivers need to find their context.
GroupMessageHasKid == last.outcome = "sent" => last.kid # None
=============================================================================
