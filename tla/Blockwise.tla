----------------------------- MODULE Blockwise -----------------------------
(***************************************************************************)
(* Block-wise transfer of one resource between a client and a server: an   *)
(* upload block by block (option block1, collected in the server's request *)
(* buffer) and a download (option block2, served from its response buffer  *)
(* and collected by the client).  The client makes one transfer at a time, *)
(* may abandon it and begin another; the server keeps a buffer until the   *)
(* transfer ends or the buffer times out.                                  *)
(*                                                                         *)
(* Offsets are counted in blocks.  Messages are lost, delayed, repeated    *)
(* and change places: the engine recognises repeats of non-confirmable     *)
(* requests only, and the requests of a transfer are confirmable.          *)
(*                                                                         *)
(* The client's uploads are those of OC_BLOCK_WISE_REQUEST, which the      *)
(* repository leaves undefined: as it is built, uploads come from other    *)
(* clients.  A request the server has no transaction for counts as lost.   *)
(***************************************************************************)
EXTENDS Integers, Sequences, FiniteSets

CONSTANTS UploadSize,    \* blocks of an upload, per transfer
          VersionSize,   \* blocks of the resource, per version
          MaxTransfers, MaxVersions, MaxRepeats,  \* bounds of the model
          none           \* no buffer, no transfer

Transfer == 1 .. MaxTransfers
Version == 1 .. MaxVersions

ASSUME BlockwiseAssumption ==
  /\ MaxTransfers \in Nat /\ MaxVersions \in Nat \ {0} /\ MaxRepeats \in Nat
  /\ UploadSize \in [Transfer -> Nat \ {0, 1}]
  /\ VersionSize \in [Version -> Nat \ {0}]

VARIABLES
  client,     \* the transfer under way
  started,    \* transfers so far
  requestBuffer, responseBuffer,  \* the server's
  requests, replies,              \* the messages under way
  version,    \* of the resource
  repeats,    \* messages delivered once more
  handled,    \* uploads the server's handler got: blocks, and whose they were
  received,   \* payloads the client's callback got
  done,       \* uploads the client was told are done
  broken      \* history: uploads that met a reset, the end of the client's
              \* buffer, or a missing transaction or buffer for an answer

serverVars == <<requestBuffer, responseBuffer, handled>>
clientVars == <<client, started, received, done, broken>>
vars == <<serverVars, clientVars, requests, replies, version, repeats>>

Payload(t) == [i \in 1 .. UploadSize[t] |-> <<t, i - 1>>]
Snapshot(v) == [i \in 1 .. VersionSize[v] |-> <<v, i - 1>>]

TypeOK ==
  /\ \/ client = none
     \/ /\ client.tid \in Transfer /\ client.dir \in {"up", "down"}
        /\ client.etags \subseteq Version /\ client.sending \in BOOLEAN
        /\ client.asked \in 0 .. IF client.dir = "up" THEN UploadSize[client.tid] - 1
                                                     ELSE Len(client.blocks)
  /\ started \in 0 .. MaxTransfers /\ version \in Version
  /\ repeats \in 0 .. MaxRepeats
  /\ requestBuffer # none =>
       /\ requestBuffer.by \subseteq Transfer /\ requestBuffer.blocks # <<>>
       /\ \E t \in Transfer : Len(requestBuffer.blocks) < UploadSize[t]
  /\ responseBuffer # none =>
       /\ responseBuffer.version \in Version
       /\ responseBuffer.next \in 1 .. VersionSize[responseBuffer.version] - 1
  /\ done \cup broken \subseteq Transfer

-----------------------------------------------------------------------------
(* The buffers.                                                            *)

\* Mutant: a block beyond the next one is taken too.
FitsAny(blocks, num) == TRUE

\* oc_blockwise_handle_block: a block beyond the next one is refused, an
\* earlier one passes without being stored.
Fits(blocks, num) == num <= Len(blocks)

Stored(blocks, num, block) ==
  IF num = Len(blocks) THEN Append(blocks, block) ELSE blocks

\* Mutant: off by one.
MoreOff(num, size) == num + 2 < size

More(num, size) == num + 1 < size

\* A message is delivered, and may be repeated.
Deliver(messages, m) ==
  \/ messages' = messages \ {m} /\ UNCHANGED repeats
  \/ /\ repeats < MaxRepeats /\ repeats' = repeats + 1
     /\ UNCHANGED messages

-----------------------------------------------------------------------------
(* The client.                                                             *)

Upload(t, num) ==
  [dir |-> "up", tid |-> t, num |-> num, more |-> More(num, UploadSize[t])]
Download(t, num) == [dir |-> "down", tid |-> t, num |-> num, more |-> FALSE]

Begin(dir) ==
  LET t == started + 1
  IN  /\ client = none /\ t \in Transfer
      /\ started' = t
      /\ client' = [tid |-> t, dir |-> dir, blocks |-> <<>>, etags |-> {},
                    asked |-> 0, sending |-> TRUE]
      /\ requests' = requests \cup {IF dir = "up" THEN Upload(t, 0) ELSE Download(t, 0)}
      /\ UNCHANGED <<serverVars, received, done, broken, replies, version, repeats>>

\* The exchange timed out, or the application stopped it.
Abandon ==
  /\ client # none /\ client' = none
  /\ UNCHANGED <<started, received, done, broken, serverVars,
                 requests, replies, version, repeats>>

ForClient(r, dir) ==
  client # none /\ r.tid = client.tid /\ r.dir = dir /\ client.dir = dir

\* A reply to an upload asks for the block after the one it names; without one
\* the callback is called.  So it is when the client's buffer is gone, or no
\* transaction is left: a "Continue" then ends the transfer with code "OK".
GetContinue(r) ==
  /\ ForClient(r, "up") /\ r.kind = "block"
  /\ LET next == client.sending /\ More(r.num, UploadSize[r.tid])
     IN  \/ /\ next
            /\ requests' = requests \cup {Upload(r.tid, r.num + 1)}
            /\ client' = [client EXCEPT !.asked = r.num + 1]
            /\ UNCHANGED <<done, broken>>
         \/ /\ client' = none /\ UNCHANGED requests
            /\ done' = done \cup {r.tid}
            /\ broken' = IF next THEN broken \cup {r.tid} ELSE broken
  /\ UNCHANGED received

\* A reset and an empty acknowledgement have no token and are known by the
\* message id of the last request.
EmptyIsFor(r, dir) ==
  /\ ForClient(r, dir) /\ r.kind \in {"reset", "ack"}
  /\ r.num = client.asked

\* Either frees the client's request buffer and calls nobody.
GetEmpty(r) ==
  /\ EmptyIsFor(r, "up") /\ client.sending
  /\ client' = [client EXCEPT !.sending = FALSE]
  /\ broken' = IF r.kind = "reset" THEN broken \cup {r.tid} ELSE broken
  /\ UNCHANGED <<requests, received, done>>

\* A reply to a download: the block is collected, and the next one asked for.
\* Without a transaction for that, what was collected is the payload.
GetBlock(r) ==
  /\ ForClient(r, "down") /\ r.kind = "block" /\ Fits(client.blocks, r.num)
  /\ LET blocks == Stored(client.blocks, r.num, r.block)
         etags == client.etags \cup {r.block[1]}
     IN  \/ /\ r.more
            /\ client' = [client EXCEPT !.blocks = blocks, !.etags = etags,
                                       !.asked = r.num + 1]
            /\ requests' = requests \cup {Download(r.tid, r.num + 1)}
            /\ UNCHANGED received
         \/ /\ client' = none
            /\ received' = received \cup
                            {[blocks |-> blocks, etags |-> etags, cut |-> r.more]}
            /\ UNCHANGED requests
  /\ UNCHANGED <<done, broken>>

\* A block beyond the next one, a reset or an error: the callback is called
\* without payload.
GetNothing(r) ==
  /\ \/ EmptyIsFor(r, "down")
     \/ r.kind = "error" /\ (ForClient(r, "up") \/ ForClient(r, "down"))
     \/ ForClient(r, "down") /\ r.kind = "block" /\ ~Fits(client.blocks, r.num)
  /\ client' = none
  /\ UNCHANGED <<requests, received, done, broken>>

\* A reply whose token, or whose message id, nobody knows.
Ignore(r) ==
  /\ IF r.kind \in {"reset", "ack"}
     THEN ~(EmptyIsFor(r, "up") /\ client.sending) /\ ~EmptyIsFor(r, "down")
     ELSE ~ForClient(r, "up") /\ ~ForClient(r, "down")
  /\ UNCHANGED <<client, requests, received, done, broken>>

GetReply ==
  \E r \in replies :
    /\ Deliver(replies, r)
    /\ GetContinue(r) \/ GetEmpty(r) \/ GetBlock(r) \/ GetNothing(r) \/ Ignore(r)
    /\ UNCHANGED <<started, serverVars, version>>

-----------------------------------------------------------------------------
(* The server.                                                             *)

Reply(answers) == replies' = replies \cup answers

\* A block taken, a reset, an empty acknowledgement or an error.
Answer(m, kind) == [dir |-> m.dir, tid |-> m.tid, num |-> m.num, kind |-> kind]

\* The buffer a block goes to; only the first block begins one, if the pool has
\* room.  One whose payload is complete is freed with the block that completed
\* it, so that the code's test for it finds none.
BufferFor(m, room) ==
  IF requestBuffer # none THEN requestBuffer
  ELSE IF m.num = 0 /\ room THEN [blocks |-> <<>>, by |-> {}]
  ELSE none

\* Mutant: a refused block is acknowledged.
AcknowledgeBlock(m) ==
  /\ requestBuffer' = none
  /\ Reply({Answer(m, "block")})
  /\ UNCHANGED <<handled, broken>>

\* A refused block ends the transfer: its buffer is no longer referenced and
\* is freed when the message has been handled.
RefuseBlock(m) ==
  /\ requestBuffer' = none /\ Reply({Answer(m, "reset")})
  /\ UNCHANGED <<handled, broken>>

\* The last block is acknowledged at once, and answered by a message of its own
\* when the handler was called; without a buffer for the answer it is not.
TakeBlock(buffer, m) ==
  LET blocks == Stored(buffer.blocks, m.num, <<m.tid, m.num>>)
      by == buffer.by \cup {m.tid}
  IN  \/ /\ m.more
         /\ requestBuffer' = [blocks |-> blocks, by |-> by]
         /\ Reply({Answer(m, "block")})
         /\ UNCHANGED <<handled, broken>>
      \/ /\ ~m.more /\ requestBuffer' = none
         /\ Reply({Answer(m, "ack"), Answer(m, "block")})
         /\ handled' = handled \cup {[blocks |-> blocks, by |-> by]}
         /\ UNCHANGED broken
      \/ /\ ~m.more /\ requestBuffer' = none
         /\ Reply({Answer(m, "ack"), Answer(m, "error")})
         /\ broken' = broken \cup {m.tid}
         /\ UNCHANGED handled

ServeUpload(m) ==
  /\ m.dir = "up"
  /\ \E room \in BOOLEAN :
       LET buffer == BufferFor(m, room)
       IN  IF buffer = none THEN RefuseBlock(m)
           ELSE IF Fits(buffer.blocks, m.num) THEN TakeBlock(buffer, m)
           ELSE RefuseBlock(m)
  /\ UNCHANGED responseBuffer

Block(m, v, more) ==
  [dir |-> "down", tid |-> m.tid, num |-> m.num, kind |-> "block",
   block |-> <<v, m.num>>, more |-> more]

\* A request without block option: the handler fills a new buffer, if the pool
\* has room; the buffer of an earlier one is freed.
ServeFirst(m) ==
  LET more == More(0, VersionSize[version])
  IN  /\ m.dir = "down" /\ m.num = 0
      /\ \/ /\ responseBuffer' =
                 IF more THEN [version |-> version, next |-> 1] ELSE none
            /\ Reply({Block(m, version, more)})
         \/ responseBuffer' = none /\ Reply({Answer(m, "error")})
      /\ UNCHANGED <<requestBuffer, handled, broken>>

\* A request for a block is dropped unless it is for the last one that was
\* sent or the one after it: the difference is an unsigned number.  The empty
\* acknowledgement before the last block changes nothing at the client.
ServeNext(m) ==
  /\ m.dir = "down" /\ m.num > 0 /\ responseBuffer # none
  /\ IF responseBuffer.next - m.num \in {0, 1}
     THEN LET v == responseBuffer.version
              more == More(m.num, VersionSize[v])
          IN  /\ responseBuffer' =
                   IF more THEN [responseBuffer EXCEPT !.next = m.num + 1] ELSE none
              /\ Reply({Block(m, v, more)})
     ELSE UNCHANGED <<responseBuffer, replies>>
  /\ UNCHANGED <<requestBuffer, handled, broken>>

ServeNone(m) ==
  /\ m.dir = "down" /\ m.num > 0 /\ responseBuffer = none
  /\ Reply({Answer(m, "reset")})
  /\ UNCHANGED <<serverVars, broken>>

Serve ==
  \E m \in requests :
    /\ Deliver(requests, m)
    /\ ServeUpload(m) \/ ServeFirst(m) \/ ServeNext(m) \/ ServeNone(m)
    /\ UNCHANGED <<client, started, received, done, version>>

\* Mutant: only response buffers are timed.
TimedIfResponse(buffer) == buffer # none /\ "next" \in DOMAIN buffer

\* The timer starts with the buffer.
Timed(buffer) == buffer # none

\* oc_blockwise_request_timeout, oc_blockwise_response_timeout
RequestTimeout ==
  /\ Timed(requestBuffer) /\ requestBuffer' = none
  /\ UNCHANGED <<responseBuffer, handled, clientVars, requests, replies,
                 version, repeats>>

ResponseTimeout ==
  /\ Timed(responseBuffer) /\ responseBuffer' = none
  /\ UNCHANGED <<requestBuffer, handled, clientVars, requests, replies,
                 version, repeats>>

\* The client's request buffer holds the upload t.
Sending(t) ==
  client # none /\ client.tid = t /\ client.dir = "up" /\ client.sending

\* The timer of the client's request buffer: the buffer is older than its
\* callback, whose own timer ends the transfer.  The timer of the client's
\* response buffer runs out after both.
SendTimeout ==
  /\ client # none /\ Sending(client.tid)
  /\ client' = [client EXCEPT !.sending = FALSE]
  /\ broken' = broken \cup {client.tid}
  /\ UNCHANGED <<started, received, done, serverVars, requests, replies,
                 version, repeats>>

\* The application changes the resource.
Change ==
  /\ version + 1 \in Version /\ version' = version + 1
  /\ UNCHANGED <<serverVars, clientVars, requests, replies, repeats>>

-----------------------------------------------------------------------------
Init ==
  /\ client = none /\ started = 0
  /\ requestBuffer = none /\ responseBuffer = none
  /\ requests = {} /\ replies = {}
  /\ version = 1 /\ repeats = 0
  /\ handled = {} /\ received = {} /\ done = {} /\ broken = {}

Next ==
  \/ \E dir \in {"up", "down"} : Begin(dir)
  \/ Abandon \/ GetReply \/ Serve
  \/ RequestTimeout \/ ResponseTimeout \/ SendTimeout \/ Change

Fairness ==
  WF_vars(RequestTimeout) /\ WF_vars(ResponseTimeout) /\ WF_vars(SendTimeout)

Spec == Init /\ [][Next]_vars
FairSpec == Spec /\ Fairness

-----------------------------------------------------------------------------
\* An upload whose blocks alone went into the buffer reaches the handler as it
\* was sent, whole and in order, whatever blocks were lost, repeated or late,
\* and whichever buffers timed out in between.
UploadIntact ==
  \A h \in handled : \A t \in Transfer : h.by = {t} => h.blocks = Payload(t)

\* A client that is told an upload is done can rely on the handler having had
\* it, or what it was mixed with, late repeats of "Continue" notwithstanding:
\* unless it had been reset, a timer had freed the client's buffer, or one side
\* had no transaction or buffer left to go on.
DoneIsHandled == \A t \in done \ broken : \E h \in handled : t \in h.by

\* A download whose replies had one ETag is the resource as it was at one time,
\* in order, and whole unless the client had no transaction left to ask for the
\* next block: its callback cannot tell.
DownloadIntact ==
  \A d \in received, v \in Version : d.etags = {v} =>
    /\ d.cut \/ Len(d.blocks) = VersionSize[v]
    /\ \A i \in 1 .. Len(d.blocks) : d.blocks[i] = Snapshot(v)[i]

\* No buffer stays for ever, not even those of abandoned transfers, and no
\* upload keeps the client's.
BuffersReleased ==
  /\ requestBuffer # none ~> requestBuffer = none
  /\ responseBuffer # none ~> responseBuffer = none
  /\ \A t \in Transfer : Sending(t) ~> ~Sending(t)
=============================================================================
