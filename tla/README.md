# A verification project for the KNX IoT Point API stack

TLA+ models of the stack in this repository, model-checked with TLC and, but for
`Observe`, proved about with TLAPS. Paths below are relative to the repository root.

## The system

A device runs one main thread. It takes messages from network threads, passes
them through a chain of Contiki processes (message buffer, OSCORE, CoAP engine,
timers), and serves resources that configure the device and exchange group
messages. Configuration, tokens and sequence numbers live in persistent storage.

| part | state | operations | interacts with |
| --- | --- | --- | --- |
| process kernel, `util/oc_process.c` | ring `events`, `nevents`, `fevent`, `OC_PROCESS_NUMEVENTS`; `needspoll` of each process, `poll_requested` | `oc_process_post`, `oc_process_poll`, `oc_process_run` | called by every other part; the poll flags also by network threads |
| event loop, `api/oc_main.c`, `apps/`, `samples/` | condition variable, mutex, `next_event` | `oc_main_poll`, wait, `signal_event_loop` | kernel, timers |
| network hand-over, `api/oc_network_events.c`, `port/linux/ipadapter.c`, `api/oc_buffer.c` | list `network_events` under a mutex | `oc_network_event`, `oc_process_network_event` | network threads, kernel, OSCORE, CoAP |
| timers, `util/oc_etimer.c`, timed callbacks of `api/oc_ri.c` | list of timers, `next_expiration` | set, restart, stop, expiry | kernel |
| OSCORE, `security/oc_oscore_*.c` | up to 20 contexts, each with an SSN | protect, unprotect, build and free contexts | CoAP, access tokens, storage |
| access tokens, `api/oc_knx_sec.c` | the `auth/at` table | POST, DELETE, load, reset | OSCORE, storage |
| CoAP, `messaging/coap/` | transactions, observers, request history, separate responses | receive, send, retransmit | OSCORE, resources, timers |
| replay protection, `api/oc_replay.c` | windows per client, cached messages | check, add, evict | CoAP, message buffers |
| block-wise transfer, `api/oc_blockwise.c` | buffers per transfer | dispatch, handle, expire | CoAP |
| device configuration, `api/oc_knx.c`, `api/oc_knx_dev.c` | load state, `ia`, `iid`, `pm`, fingerprint | `/a/lsm`, `/.well-known/knx*`, `/dev/*` | tables, tokens, storage |
| group tables, `api/oc_knx_fp.c` | group objects, recipients, publishers | POST and DELETE by id | load state, storage, multicast |
| group messages, `api/oc_knx.c` (`/k`), `api/oc_knx_client.c` | none of their own | write, read, response | tables, OSCORE |
| SPAKE2+, `security/oc_spake2plus.c`, `api/oc_knx.c` | handshake data, counter of failures | the three messages of a handshake | access tokens, timers |
| software update, `api/oc_knx_swu.c` | state, block counter, packages | POST, PUT, defer | storage, restart |

What is hard in each, and what makes it correct:

- **Kernel and loop**: concurrency of network threads with the main thread, an
  array that grows while in use, a sleep that must not miss a wake-up. Correct
  when nothing is lost, duplicated or overtaken, and everything is handled.
- **OSCORE**: retransmissions, restarts and rebuilt contexts around a counter
  that is stored only now and then. Correct when no number is given to two
  different messages, and requests and responses find each other.
- **Configuration and tables**: requests refused half way, delayed resets,
  power loss between two writes, several ways into run time. Correct when
  memory and storage agree on what was accepted, load state and tables agree,
  and the device listens to what its tables say.
- **CoAP, replay, blocks**: loss, duplication, delay, full pools. Correct when a
  request has at most one outcome, and no slot or buffer is freed twice or kept
  for ever.

`PROJECT.json` lists every component with what is and is not modelled, and the
hazards at their lines, with the properties that cover them or the module that
will.

## Modules

| module | models | checked by |
| --- | --- | --- |
| `EventFifo` | what the kernel promises: a first-in first-out queue | through `EventQueue` |
| `Mailbox` | what the event loop promises network threads: each message once, in order of its way | through `EventLoop` |
| `EventQueue` | the ring buffer of `util/oc_process.c` | `MCEventQueue` |
| `EventLoop` | network threads, poll flags, ring, timer and the sleep of the main thread | `MCEventLoop` |
| `EventLoopProof` | theorems about `EventQueue` and `EventLoop` | TLAPS |
| `OscoreSsn` | the SSN of a sender context, from use to rebuild | `MCOscoreSsn` |
| `OscoreSsnProof` | theorems about `OscoreSsn` | TLAPS |
| `CoapExchange` | requests and responses between nodes over an unreliable network | `MCCoapExchange` |
| `CoapExchangeProof` | theorems about `CoapExchange` | TLAPS |
| `KnxDevice` | load state, tables, addresses, fingerprint, reset, power loss | `MCKnxDevice` |
| `KnxDeviceProof` | theorems about `KnxDevice` | TLAPS |
| `OscoreContexts` | the access token table, its storage and the pool of OSCORE contexts | `MCOscoreContexts` |
| `OscoreContextsProof` | theorems about `OscoreContexts` | TLAPS |
| `GroupMessages` | s-mode messages between devices through their group tables | `MCGroupMessages` |
| `GroupMessagesProof` | theorems about `GroupMessages` | TLAPS |
| `Spake` | the SPAKE2+ handshake between several clients and a device | `MCSpake` |
| `SpakeProof` | theorems about `Spake` | TLAPS |
| `Blockwise` | block-wise upload and download with the buffers of both sides | `MCBlockwise` |
| `BlockwiseProof` | theorems about `Blockwise` | TLAPS |
| `Observe` | observers of a periodic resource, their notifications, and clients that come and go | `MCObserve` |

`EventLoop` takes the ring of `EventQueue` for a sequence, `OscoreSsn` and
`OscoreContexts` look at the same contexts, the one at the numbers in one of
them, the other at which there are; `GroupMessages` takes the tables
`KnxDevice` fills as constants; `Spake` ends with the token whose way into the
table is `SetAuthShared` of `OscoreContexts`; `Blockwise` is on top of the
confirmable exchange of `CoapExchange`; `Observe` has the transactions of the server only,
whose notifications are not answered by a response. In all of them a handler runs to completion
on the main thread and is one action.

### EventFifo, EventQueue

`size`, `events`, `nevents`, `fevent` are the variables of the C file. `Post` is
`oc_process_post`, in place or growing a full ring, `Take` the head of
`do_event`. The array is doubled by `memcpy` and `memset` on the ring as it is;
`Grown` is its result slot by slot. `Cleared` is what `memset` leaves in a slot. `RingIsFifo` says that the ring implements
`EventFifo` under the mapping `Pending`.

Bounds: `InitialSize` 2 for the 10 of the code, at most `MaxEvents` pending, so
that the ring grows from every position and more than once.

### EventLoop

A step is what one thread does between two points where another may act: taking
a mutex, writing a flag. The main thread runs `oc_main_poll` (`poll`, `run`,
`visitNetwork`, `drain`, `visitTimer`, `event`, `check`), returns (`gap`) and
waits (`waiting`). A network thread receives a message, adds it to the list under
the mutex, sets `needspoll`, then `poll_requested`, then signals. A message makes one hop
through the ring per process: buffer, OSCORE when it is `Secured`, CoAP. The
ring is a sequence here (`queue`), which `EventQueue` justifies.

`FairSpec` assumes that the main thread keeps running while it is not waiting,
that a thread which took a message from its socket finishes announcing it, that
time passes, and that a wait ends when its deadline has passed. It does not
assume that spurious wake-ups occur, nor that messages arrive.

- `NoLostPoll`: a message on the list always has somebody on the way to process it.
- `SleepEnds`: the main thread sleeps only when no event is left, and with a timer only until its expiry.
- `LoopIsMailbox`: the loop implements `Mailbox`. The messages of a thread that go the same way are
  handled each once, in the order they were received, and none before an earlier one.
- `EveryMessageHandled`, `TimerServed`: liveness.

`MCEventLoop.cfg` has the timer that a running device always has (the handshake
counter of `/.well-known/knx/spake` is periodic). Without one (`HasTimer = FALSE`) `EveryMessageHandled`
does not hold: a wake-up is lost between the end of `oc_main_poll` and the wait. Two
threads with two and one messages are enough for every order in
which two announcements, a drain and the sleep can interleave.

### OscoreSsn

The SSN of one context, what storage holds of it, the Partial IV each request's
client callback remembers and the retransmission counter of its transaction.
`Increment` is `increment_ssn_in_context`, with the write that may fail.
`Retransmit` goes through `oc_oscore_send_message` again. `Rebuild` is `oc_oscore_add_context`
as restart, reset 7 and a change of the token table call it.

An application may set the number of its next request (`oc_oscore_set_next_ssn`); the setter is part of the
interface, and no program of the repository calls it. `g_ssn` is that number: the next request of any context
takes it (`Number`, `TakenElsewhere`), also a retransmission (`RepeatWith`), an answer that asks for
an Echo raises it (`RaiseNextSsn`, then `SendWithEcho`), and separate responses pass it by (`SendSeparate`).
A number below the SSN is the application's own reuse: the history begins anew, as for a rebuilt context.

- `NewMessagesDiffer`: within one context, a new message has a higher number than all before.
- `StorageTrails`: what the padding of the bump is meant to absorb.
- `NoReuseAfterRebuild` is what a comment says of the bump; it is violated (see Findings).

A comment at `security/oc_oscore_engine.c:798` says that retransmissions keep
the SSN of their request; `Retransmit` is what the code does instead.

Bounds: a write every 2 numbers instead of 32, a padding of 1 instead of 4
intervals, one open request, SSNs up to 7, one rebuild or one number set, 1 (which may be below the SSN) or 4 (which may
skip a write): enough for three write intervals, a request with all its retransmissions, and a rebuild after a
write. `MCOscoreSsnRebuild.cfg` sets no number, so that what it finds is the rebuild's. `CHECK_DEADLOCK FALSE` because the
bounded model stops at the last SSN.

### CoapExchange

Every node runs the engine as client and as server. `cb` and `mid` are a
request's client callback, `trans` the list of transactions, `current` the
message id counter, `history` the request history as a queue of constant length,
`deferred` the requests stored for a separate response. `net` is the set of
messages under way. A message is received whole: `AfterReceipt` clears a
transaction, by message id or else by token, before anything else is
looked at, as `coap_receive` does. `Behaviour` says what a server may do with a
request: answer, ignore (`OC_IGNORE`), defer (a separate response), reject (a reset).

- `OneOutcome`: a response handler is called once at most.
- `TransactionHasCallback`: as long as a request is sent again, somebody is there to be told of its end.
- `RepeatsDropped`: a repeated non-confirmable request passes only when the history has forgotten it.
- `EveryConEnds`: a confirmable request that is neither deferred nor rejected has an outcome. One that
  is may end without: its transaction is gone and its callback is removed in silence.
- `EverythingReleased`: nothing stays allocated.

`FairSpec` assumes that timers run out, and nothing of network, server or
application: a message may never arrive and a deferred answer never come.

Bounds: one confirmable request with all four behaviours and two
non-confirmable ones, two transmissions for the four of the code, a history of
one for 25, so that it forgets, two messages under way (what is too much is
lost) and one repetition by the network on top of those by retransmission. Message ids of
different nodes lie apart in `MCCoapExchange.cfg`: where they meet, a
message of one exchange clears a transaction of another, and a request is taken for the
duplicate of another client's (see the hazards). `CHECK_DEADLOCK FALSE` because all requests
may be done.

### KnxDevice

Memory is in variables with the names of the code, storage is the record
`disk`. A request is one action, its storage writes included. A payload is a
sequence of CBOR maps; a map is a record with the keys present as its domain, so
that `DOMAIN o = {"id"}` is the "id only" case and `Merged(o, row)` the update of a row.
`Loaded` runs `PutGroupObject` over the maps as the handler's loop does, with
`ok` and `stop` for its status and early returns.

Power may fail between requests (`PowerLoss`) and within one, at every storage write that leaves a
different state: between the maps of a POST and before its fingerprint is stored, in a DELETE between the row and
the fingerprint, between two rows or values of an unload, of a reset of the tables, and of a
factory reset, from its first erasure on (`AddressErased`). `Boot` loads from storage and registers the multicast groups, which
the code does at power on in every load state.

The loader of the Group Object Table parses each row with a pool whose counts are uninitialised
(`api/oc_knx_fp.c:1882`): any stored row may be left out at a start. `Readable` is the choice of the rows that come back;
`lost` remembers the ids of the others, until the table is erased.

- `UnloadedIsEmpty`: load state and tables agree, in memory and storage.
- `UniqueIds`: no id in two rows.
- `AcceptedIsStored`: what was accepted is in storage as it is in memory.
- `RuntimeSubscribed`: in run time the device listens to what its tables say.
- `FactoryResetHolds`: nothing comes back after a factory reset.

History variables say about what the properties speak: `acked`, `refused`, `factory`; `torn` marks the one case
`UnloadedIsEmpty` excludes, a factory reset that stored the load
state and lost power before it erased the rows. `UniqueIds` and `AcceptedIsStored` say nothing of ids in `lost`: the code does
put such an id in a second row (see Findings).

`Listened` is the loop of the group ids, which goes through the Group Object Table up to the size of the Publisher
Table only. Both are 20 rows as the code is configured, and there `RuntimeSubscribed` holds; the sizes are
set apart, and where the Publisher Table is the smaller one it does not (see Findings).

Bounds: two rows in each table, of which the second is the one that receives; a payload that creates both, one
that deletes, and one whose refused row comes before a change, so that rows are in memory only; a publisher with a group id; one installation
id, two accepted changes (the fingerprint), one reset pending.

### OscoreContexts

`at` is the token table, `stored` its files, `contexts` the list of contexts,
oldest first, `leaked` the blocks of the pool in no list. `Posted` runs
`PostObject` over the objects of a payload, as the handler's loop does, with
what it keeps between them (`changed` is its status, `other` and `scope` its two
flags); `Post` then rebuilds the contexts unless only scopes changed. `Kept` is the list
after the loops that free some of its contexts. `Rebuilt` is
`oc_init_oscore_from_storage`: `FreeSenders`, then one sender context for
each token with the OSCORE profile. `ReceiveNew` is the part of
`oc_oscore_recv_message` that creates a recipient context, with its two attempts
and the eviction between them. Times of last use are kept as ranks, which is all
`FreeLru` looks at. `pending` holds the requests still to be answered by the index of
their token, so that the table may change before the response looks its
context up. A key stands for itself: decryption succeeds with the same one.

- `UniqueContexts`: one recipient context for a kid and context id, one sender context for a token.
- `SenderContextsCurrent`: a sender context has what its token has now, unless a POST of several
  objects changed that token and its last object was refused or a change of scopes (`missed`).
- `TableIsStored`: a restart brings back every token and no deleted one.
- `KnownKidServed`: a full pool refuses nobody, unless every block has leaked.
- `EvictsOldest`: of two recipient contexts the one used last stays.
- `GroupMessageHasKid`: what a comment says of group messages; violated (see Findings).

Bounds: two tokens and a pool of three contexts for 20 each, so that the pool is
full with one sender context and two recipient contexts; two kids, two context ids (which
are interchangeable, hence the symmetry), two secrets, one request to answer. Five payloads
have one object and two have two, with a refused object after a new secret and a change of scopes after a
deletion: the two ways in which the last object keeps the contexts from being built again. In
`MCOscoreContextsGroup.cfg` the pool has five blocks and no token lacks its secret, so
that neither eviction nor leak plays a part.

### GroupMessages

`Objects`, `PublisherRows` and `RecipientRows` are the three tables of each
device; `value` holds its datapoints and `inbox` the messages on their way to
it. `Joined` are the groups `oc_register_group_multicasts` subscribes to,
`GroupOf` the one a message is sent to. `Receive` is the handler of `/k`:
`HandleRow` is run over the rows that have the address (`RowsWith`), writes the
datapoint where flags and service fit (`Overwrites`), passes the new value on
(`PassOn`) and answers reads. `SMode` is the client's loop over the rows of a
datapoint, called once for each multicast scope (`EachScope`). The loops over rows
are recursive functions (`Handled`, `InitReads`), the filter of a list is `Kept`. `Restart` reads
the objects with the `i` flag again, as a device does at power on.

- `FollowersAgree`: when all is quiet and nothing was lost, an object has the value of what it follows.
- `NeverBackwards`: nobody ever shows an older value again, whatever crosses whatever.
- `DiesDown`: the messages of a change come to an end.

The tables are the installer's, and no code looks at them as a whole. A datapoint `Follows` another when
every change of the one is announced to it, and the other `Reaches` it when a message with its value may overwrite it at all. The module states what an installation must be like:

- `OneLeader`: a datapoint is reached by at most one other, its leader.
- `SourcesLead`: nothing reaches what an application changes.
- `LeadersStay`: a device whose datapoints reach others does not restart, since a restart forgets them.
- `PassedOn`: a row through which a datapoint with followers is overwritten has the flag by which they are told.
- `ReadsBack`: a device that restarts reads each datapoint that follows another from one that answers.

`MCTables` has TLC confirm the five for the tables of the run, and the theorems about the properties assume
them. On small tables that break one of the first two or of the last two, TLC finds a datapoint
that disagrees with its leader; `LeadersStay` is more than is needed, as a leader that restarts may read its
value back.

`FairSpec` assumes that messages under way are handled. `NeverBackwards` needs that messages
to one device arrive in the order they were sent, which `inbox` as a queue
assumes; the network of the model loses messages and does not reorder them.

Bounds: a switch, a lamp that follows it and announces its status in a second row on
another group address, a panel with two objects for the status that restarts
once, and a device that is not in run time; both scopes, two changes, one lost
message. `MaxInbox` is 16, more than are ever under way to a device: a larger bound
gives the same states. `IgnoreSelf` is FALSE, as `g_ignore_smessage_from_self` is
in the code, where nothing calls its setter. A device then takes its own
messages too, and a row with both the write and the transmission flag that has its
own sending address answers itself for ever; `DiesDown` is about tables
without such a loop, which is why the lamp's status has a row of its own. `CHECK_DEADLOCK FALSE`
because the application stops changing its datapoint.

### Spake

`pase`, `K_main`, `valid_request`, `failed` and `is_blocking` are the globals of
`api/oc_knx.c`; `stored` are the posts held by `spake_separate_rsp`, `callbacks` the
delayed calls of the separate handler. A post is accepted in `Accept`, which overwrites
the globals with the fields it has (`Parsed`), and answered in `Separate`, which answers every post that waits with what
the globals then say. A post without any field is refused, and clears `valid_request` for the posts that
wait (`PostNothing`). The client (`api/oc_knx_client.c`) posts, takes an
answer by what it asked, or gives up; it sends its id or leaves it to the device (`Named`). A key is the record of what each side
puts into it, so that two sides have the same key exactly when they used the same
share, answer, password and salt. The wiped key is a value like others (`zeros`), and nothing in the device keeps a
confirmation from being compared with it: the clients of the model are those of `oc_knx_client.c`,
which confirm only a key they made from a share, and no property says who else may obtain a token.

- `TrueKeysPass`: a client with the password is not told that its key is wrong, unless another post came in between.
- `UndisturbedIsShared`: a handshake no other post interrupted that ends well has left its token, or there was no entry for it.
- `FailuresBounded`: the count of failures passes its limit by one at most.
- `BlockingEnds`: a device that refuses handshakes offers them again.

`FairSpec` assumes the periodic `decrement_counter`, and nothing of clients and network.

Bounds: a client with the password that starts twice and leaves the id to the device, one without it that starts once and
sends its own, one entry left in the table for the two of them, two
posts waiting, a limit of one failure for the ten of the code: enough for a post of each
client to interrupt the other between any two steps, and for two accepted posts to fail
after the limit was reached. Posts are delivered in any order or never. `CHECK_DEADLOCK FALSE` because
clients stop. A client that starts again while its handshake is under way is left out.

### Blockwise

The server's `requestBuffer` and `responseBuffer` for the path and peer of the
transfer, the client's buffers as part of `client` (`blocks` what it collected, `sending` whether the buffer of an upload is
still there), messages as sets. `Serve` is the part of
`coap_receive` for requests with block1, with block2, and with neither; `GetReply` the
part for responses. `Fits` and `Stored` are `oc_blockwise_handle_block`, `More` is what
`oc_blockwise_dispatch_block` leaves of the payload. A buffer whose `ref_count`
is 0 is freed at the end of the call, which is why it is `none` after its last block.
Buffers are timed from their allocation (`RequestTimeout`, `ResponseTimeout`, `SendTimeout`).

A reply is a block taken or served, a reset, an empty acknowledgement or an error. The last block of an upload is
acknowledged at once and answered, after the handler, by a message with an id of its own, so that the two may change
places; the first finds the client's request buffer by message id and frees it. Allocation may fail on
both sides. Where the client has no transaction left for the next block, or its buffer is gone, it calls its
callback: with 2.31 as if the upload were done, or with the blocks so far as if they were the payload. The
client's uploads are compiled with `OC_BLOCK_WISE_REQUEST` only, which `api/oc_client_api.c:33` comments out; as the
repository is built the server's side of them meets other clients.

- `UploadIntact`: an upload reaches the handler whole and in order.
- `DoneIsHandled`: what the client takes for done, the handler has had.
- `DownloadIntact`: blocks of one ETag make up the resource as it was at one time, in order, and whole unless cut.
- `BuffersReleased`: no buffer of the server stays, nor the one of a client's upload.

What the properties except is marked in the state: uploads that were mixed with an
abandoned one in the same buffer (`by`, `etags`); uploads that met a reset, a timer, or a missing transaction or buffer
(`broken`), of which the client may be told that they are done; and payloads handed over early for want of a transaction
(`cut`), which the callback cannot tell from whole ones. The last two are hazards with their lines.

`FairSpec` assumes that the timers of the buffers run out. Bounds: two transfers of two
or three blocks, up or down, a resource of two versions of different length,
one repetition by the network: enough for a late block to meet the buffer of
another transfer at each of its positions, and for a late Continue to meet a transfer that was reset. `CHECK_DEADLOCK FALSE` because transfers come to an end.

### Observe

One resource that is periodically observable. `observers` is the part of
`observers_list` that is about it, as a set (a client has one entry, since `Register`
removes the earlier one by its path); the counters are kept modulo the interval after which
a notification is confirmable. `polling` says whether `observe_callbacks` has the
resource's callback, `pending` counts the delayed notifications of writes.
`NotifyObservers` is one call of `coap_notify_observers`; `Retransmit` is the timer
of one transaction, whose last expiry removes all observations of the client.
A message that has the token of a transaction ends it before it is looked at (`EndTransaction`), which a stop
request does. The pools of observers and of callbacks may be used up (`RegisterNone`): without an observer the client is
told all the same that it is registered.
`callbacks` is a client's part of `client_cbs`: `DoObserve` appends one with a new
token, `StopObserve` takes the first, `Hear` finds it by token, calls the handler
(`shown`) and frees it on an answer without the observe option. A confirmable notification
is acknowledged even when nobody wants it, which is why a client that has been
restarted stays an observer. The network is a set of messages each way.

- `GoneIsFound`: a client gone for good is infinitely often no observer, or the
  resource infinitely often not polled.
- `PeriodicHeals`: a client that stays registered with a polled resource shows, from some time on,
  the value the resource stays at. Before, it may go back: a retransmission
  carries the value of its time.

Fairness: the timers of the periodic callback, of the delayed ones and of the
transactions expire (weak). The network's is an assumption about the
environment, not the code: a client to which something is under way again and again hears
something again and again (strong). Nothing is assumed of requests and acknowledgements.

Bounds: the interval is 2 for 5 and a notification is sent twice for four times, so that
confirmable and other notifications alternate; one client (clients touch each other
through `polling` and the first value of the counter only, and both properties are about a
client while the resource is polled), one callback, one transaction, after which a confirmable
notification finds no room, one message from and two to the client, one write that waits. Tokens
are used again when nothing holds them: all behaviours are infinite, none is cut off.

## Findings

Two runs end with a counterexample, and are quoted with their lines in `PROJECT.json`.

1. A rebuilt OSCORE context repeats sequence numbers (`OscoreSsnRebuild`).
2. A group message may carry an empty kid after the contexts were rebuilt (`OscoreContextsGroup`).

Other disagreements of code and text that the models show have no run of their own. For each, the formula beside it is what
the text says, and TLC finds it violated under the configuration named:

3. A group object that a start left out may be written again in another row, and its deletion then leaves the old row in
   storage. `api/oc_knx_fp.h:114` and `api/oc_knx_fp.c:775` say that a deletion is persistent:
   `\A id \in acked : RowsOf(got, id) = {} => RowsOf(disk.got, id) = {}`, `MCKnxDevice.cfg`.
4. A factory reset leaves the programming mode off; the comment at `api/oc_knx_dev.c:1435` says "load state: unloaded, and
   programming mode is true": `[][DelayedReset /\ cached = 2 => pm']_vars`, `MCKnxDevice.cfg`. `FactoryResetHolds` is
   about what the code does.
5. With fewer rows in the Publisher Table than in the Group Object Table, groups of the later rows are not
   joined, though `api/oc_knx_fp.h:262` says "loop over the group object table": `RuntimeSubscribed`, `MCKnxDevice.cfg` with `GptMax = 1`.
6. Sender contexts stay behind their tokens after a POST whose last object changes scopes only or is refused; the comment at
   `api/oc_knx_sec.c:833` excepts the "update of the scope contents only": `\A c \in Range(contexts) : IsSender(c) => Follows(c)`,
   `MCOscoreContexts.cfg`.
7. When no entry of the token table is left, a handshake is answered as completed (`api/oc_knx.c:1503`) and its token is not
   kept: `[][\A c \in Client \ disturbed : Confirmed(c) => HasToken(c)]_vars`, `MCSpake.cfg` with `TokenMax = 0`.

What else the models show is in the notes of the hazards: a client may be told that an interrupted handshake
succeeded while its token went elsewhere (`Spake`); a client without a transaction for the next block takes an upload for done and
a part of a download for the whole (`Blockwise`); when one observer of a periodic resource stops,
the others are no longer notified periodically, and the callback of an earlier observation of a path
is never dropped (`Observe`).

## Proofs

Every theorem is for all values of the constants; of the bounds that make a model finite none
is more than a number in them. `PROJECT.json` lists them with the properties they state. The
inductive invariant of each module has the name given below, and every action has a lemma or a step
of its own that says what it leaves of it.

| module | theorems | inductive invariant |
| --- | --- | --- |
| `EventLoopProof`, the ring | `RingTypeCorrect`, `NoClearedEvent`, `RingImplementsFifo` | `RingTypeOK /\ NoClearedEventPending` |
| `EventLoopProof`, the loop | `TypeCorrect`, `PollNotLost`, `SleepIsBounded`, `LoopImplementsMailbox` | `TypeOK`, `OrderInv`, `NothingLost`, `SleepInv` |
| `OscoreSsnProof` | `TypeCorrect`, `NoReuseInContext`, `StorageTrailsSsn` | see below |
| `OscoreContextsProof` | `TypeCorrect`, `ContextsAreUnique`, `TableStored`, `KidServed`, `SendersAreCurrent`, `OldestEvicted` | `PoolInv` |
| `CoapExchangeProof` | `TypeCorrect`, `AtMostOneOutcome`, `HistoryDropsRepeats`, `CallbackOfTransaction` | `ExchangeInv`, `ToldOnce`, `RepeatInv` |
| `KnxDeviceProof` | `TypeCorrect`, `UnloadedStaysEmpty`, `FactoryResetStays`, `RuntimeListens`, `IdsAreUnique`, `AcceptedStored` | `DeviceInv`, `TablesInv` |
| `SpakeProof` | `TypeCorrect`, `TrueKeysAlwaysPass`, `FailuresAreBounded`, `UndisturbedShares` | `TokenInv`, `HandshakeInv`, `ValuesInv` |
| `BlockwiseProof` | `TypeCorrect`, `UploadsIntact`, `DoneUploadsHandled`, `DownloadsIntact` | `TransferInv` |
| `GroupMessagesProof` | `TypeCorrect`, `NeverGoesBack`, `FollowersReach` | `OrderInv`, `CurrentInv` |

**EventLoopProof, the ring.** The growth needs that `size + fevent` is a slot of the doubled ring.
`PendingAt` and `EntryAfterGrowth` say where an entry is after a growth, `PostAppends` and `TakeShifts`
compare the two queues entry by entry. `%` is used only through `Wrap`, whose two lemmas
(`WrapOnce`, `WrapEntry`) are all the arithmetic the rest needs.

**EventLoopProof, the loop.** `NoLostPoll` follows from itself and `TypeOK`. For `SleepEnds`, `SleepInv` says that an
expiry which was posted is in the queue, and that otherwise the deadline is set or will be asked for before the main thread returns. That the loop implements
`Mailbox` needs the order of what was handled, and of every pair of places a message may be in:
`OrderInv` relates handled messages, ring and list to one another. Within the ring a message may be
behind a later one of the same kind only when it has made more hops (`InFrontOf`): the ring is a
queue, so the two never change places on arrival. What a thread has yet to add is younger
than all of these (`AllReceived`). `NothingLost` says that a message which was received is in one of these places. Together: what the
engine is handed has been handled by no earlier step, and whatever is older and of its kind has (`EngineGetsOldest`).

**OscoreSsnProof.** `TypeOK` needs that a rebuilt context, one interval and the padding on, is within
the bound of the model (`SsnAssumption`). `NewMessagesDiffer` is strengthened by: every number given out
is below the SSN. `StorageTrails` is strengthened by: what is stored is a multiple of the
interval, and the SSN is in the interval `failed` after it. `MultipleIff` and `IntervalStep` hold the
arithmetic: an increment leaves its interval exactly when it reaches a multiple, which
is when the code writes. What an application may set, and how often, is a constant of both.

**OscoreContextsProof.** `PoolInv` says that contexts are pairwise for different peers or entries (`Unique`),
that a context with a recipient id has no sender id (`OneRole`, which `EvictsOldest` needs because
the eviction and the rebuild recognise a recipient context by different fields), and that the files
hold the table (`InFiles`). Three relations carry a list through its changes: `PartOf` for what the
freeing loops and an eviction leave (`KeptIsPart`, `PartKeeps`), `Renewed` for new times of use, and
`AppendKeeps` for an addition. `RebuiltCurrent` goes through the entries of the table: before entry
`i` all sender contexts have a smaller index (`Building`). `LruIsOldest` is the search for the context to
evict. `SendersAreCurrent` is for payloads of any number of objects; `Current` says that what
is not in `missed` has the token's values, before and after the loop over the objects.
`ObjectsAssumption` says of what the values of a token are made and that no token has the empty id.

**CoapExchangeProof.** A handler is only called while the callback is live, and each call frees it
(`ToldOnce`). For `RepeatsDropped`, the end of the history equals the message ids of the last requests let
through (`Remembers`), and every copy of a request bears the id its callback has had since it was
sent (`RequestsStamped`). `CallbackOfTransaction` has the hypothesis `[]MidsApart`: no two transactions of a node, and
no response on its way to it and a transaction that is not the one it answers, have the same message id. It is
needed: when two nodes start from the same id TLC finds `TransactionHasCallback` violated (see the hazard at
`messaging/coap/engine.c:285`). It excludes nothing else: any loss, repetition and delay is left in.

**KnxDeviceProof.** Tables are loaded and posted by loops over a payload. `Puts` is what one map may do
to the rows and their files, whatever its keys: nothing, or one row at the slot of its id (`Place`), saved or, after a refusal, not. `Loop`
runs it over a payload of any length. `DeviceInv` adds to the properties that load state, addresses and publisher
rows are the same in memory and storage between requests (`Agrees`). Where the code has power fail between two maps or rows, the
state reached is that of a prefix of the loop, which is what the lemmas are about. A start may leave out any rows
(`Readable`) in all the theorems. `IdsAreUnique` and `AcceptedStored` need
`TablesInv`: a saved row has the id of the row in memory, or none, except for ids in `lost`.
`RuntimeListens` assumes `GotMax <= GptMax`, which the code's defaults meet; without it the
property is false (see Findings). What holds for all sizes is in `DeviceInv`: the device listens to the groups its loop goes through (`Listening`).
`PostsAssumption` says of what the values of a map are made.

**SpakeProof.** `TokenInv` says that no post waits once the
failures have passed the limit (`WaitingAllowed`), that a post carries the fields of its kind (`FieldsOwn`), and that a device to which nobody has
identified itself has answered nothing (`NobodyYet`). `UndisturbedIsShared` needs `HandshakeInv`: a post is in one place only and
has been sent by now, and as long as no other post came between, the device's variables are those of this handshake (`OwnPost`, `OwnAnswer`,
`OwnId`). `TrueKeysPass` needs in addition that both sides then have the same values at each stage: the salt
(`ParametersAgree`), the shares (`SharesAgree`), the key (`KeysAgree`). `NoneAssumption` keeps the absent value apart from all others;
`zeros` may be any other value.

**BlockwiseProof.** A buffer filled by one transfer alone holds a start of what it sends, with room left
(`RequestBufferOK`), the blocks a client collected under one ETag are a start of that version (`ClientOK`), a reply on its way
that ends an upload says so because the handler had it (`MessagesOK`), and a client whose buffer is gone has an upload that
the handler had or that is `broken` (`SentOK`). Transfers and versions have any number of blocks.

**GroupMessagesProof.** Whatever the tables, the model keeps its types. For the two properties the tables are as
above. `OrderInv` says of every datapoint and its leader: each message on its way to it has a value its leader
had (`Explained`) and is not older than what it shows (`Ordered`); it is never ahead of its leader (`Behind`).
Since it has one leader and the inbox is a queue, no step shows an older value. For agreement,
`CurrentInv` says that as long as nothing was lost a datapoint has its leader's value, or a message with that
value is on its way to it, or a read is on its way to somebody who will send it; when all is quiet only the first is left. A
read counts only when the reader follows whom it asks, which is what `ReadsBack` is for, and a value
passed on by the datapoint in between needs `PassedOn`. `HandledIs` and `InitReadsIs` say what the loops over rows
keep and send, `Delivered` what a message sent to a group leaves in each inbox.

Induction over data is out of the provers' reach, since its theorem has an operator for a
parameter. Where a recursive function runs a loop over a payload, a list or a table, the proofs use
that strict inclusion of finite sets is well founded, a fact about sets: `LeastNumber` derives the least number principle from it, `UpTo` an induction over a set of
numbers, and `Iterates` that a loop whose body stays in a set has values in it. The functions are then used through what
their loop preserves, not through what they compute.

Only model-checked:

- Liveness (`EveryMessageHandled`, `TimerServed`, `EveryConEnds`, `EverythingReleased`, `DiesDown`,
  `BlockingEnds`, `BuffersReleased`, `GoneIsFound`, `PeriodicHeals`): fairness is beyond the prover.

Every other property of a run that holds, invariant or action property, is a theorem.

## Plan

1. Proofs: the number of contexts and lost blocks of `OscoreContexts` over time (only `Restart` gives
   blocks back); that `CoapExchange` implements, for each request, an exchange of one request and at most one outcome.
2. `CoapExchange`: allocation that fails, and callbacks freed by the handlers called while the list of transactions is walked.
3. `ReplayWindow`: window and records, checked against the set of numbers received; the Echo exchange.
4. `Observe`: notifications longer than a block, together with `Blockwise`; the Recipient Table's handlers in `KnxDevice`.

## Not modelled

Cryptography, CBOR and CoAP option formats, discovery, sockets and clocks, TLS
(not compiled), replay protection (compiled only with `OC_REPLAY_PROTECTION`, off by
default), software update (`oc_knx_swu.c` has registers set one at a time; the states of an
update are the application's), the host name and read-only points of `/dev`, requests to a broker,
responses that are block-wise as well as their requests.
