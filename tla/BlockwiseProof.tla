--------------------------- MODULE BlockwiseProof ---------------------------
(***************************************************************************)
(* What is collected block by block is what was sent, for every size of    *)
(* the payloads, every number of transfers, versions and repeats.          *)
(***************************************************************************)
EXTENDS Blockwise, SequenceTheorems, TLAPS

(* A block is a pair of whose it is and its number.                        *)
Block0 == Nat \X Nat

(* The blocks are the first ones of what x has to send.                    *)
StartOf(blocks, x) == \A i \in 1 .. Len(blocks) : blocks[i] = <<x, i - 1>>

(* A block that fits extends a start, or was there already; the last one   *)
(* makes it whole.                                                         *)
LEMMA StoredExtends ==
  ASSUME NEW x \in Nat, NEW size \in Nat \ {0}, NEW num \in Nat, num < size,
         NEW blocks \in Seq(Block0), StartOf(blocks, x), Len(blocks) < size,
         Fits(blocks, num)
  PROVE  /\ StartOf(Stored(blocks, num, <<x, num>>), x)
         /\ More(num, size) => Len(Stored(blocks, num, <<x, num>>)) < size
         /\ ~More(num, size) => Len(Stored(blocks, num, <<x, num>>)) = size
<1>1. Len(blocks) \in Nat /\ <<x, num>> \in Block0
  BY LenProperties DEF Block0
<1>2. CASE num = Len(blocks)
  <2>. DEFINE b == Append(blocks, <<x, num>>)
  <2>1. Stored(blocks, num, <<x, num>>) = b
    BY <1>2 DEF Stored
  <2>2. /\ Len(b) = num + 1 /\ b[num + 1] = <<x, num>>
        /\ \A i \in 1 .. num : b[i] = blocks[i]
    BY <1>1, <1>2, AppendProperties
  <2>. HIDE DEF b
  <2>3. StartOf(b, x)
    <3>. SUFFICES ASSUME NEW i \in 1 .. num + 1 PROVE b[i] = <<x, i - 1>>
      BY <2>2 DEF StartOf
    <3>1. CASE i = num + 1
      BY <2>2, <3>1
    <3>2. CASE i # num + 1
      <4>1. i \in 1 .. num
        BY <3>2
      <4>. QED BY <4>1, <1>2, <2>2 DEF StartOf
    <3>. QED BY <3>1, <3>2
  <2>4. /\ More(num, size) => Len(b) < size
        /\ ~More(num, size) => Len(b) = size
    BY <2>2 DEF More
  <2>. QED BY <2>1, <2>3, <2>4
<1>3. CASE num # Len(blocks)
  BY <1>1, <1>3 DEF Stored, Fits, More
<1>. QED BY <1>2, <1>3

(* Storing a block leaves a sequence of blocks that is longer by one, or   *)
(* as it was; it is not empty when the block fits.                         *)
LEMMA StoredTypes ==
  ASSUME NEW blocks \in Seq(Block0), NEW num \in Nat, NEW block \in Block0,
         Fits(blocks, num)
  PROVE  /\ Stored(blocks, num, block) \in Seq(Block0)
         /\ Stored(blocks, num, block) # << >>
         /\ Len(Stored(blocks, num, block)) =
              IF num = Len(blocks) THEN num + 1 ELSE Len(blocks)
         /\ num + 1 <= Len(Stored(blocks, num, block))
<1>1. Len(blocks) \in Nat
  BY LenProperties
<1>2. CASE num = Len(blocks)
  BY <1>1, <1>2, AppendProperties DEF Stored
<1>3. CASE num # Len(blocks)
  <2>1. blocks # << >>
    BY <1>1, <1>3, EmptySeq DEF Fits
  <2>. QED BY <1>1, <1>3, <2>1 DEF Stored, Fits
<1>. QED BY <1>2, <1>3

(* A start that has the whole length is the whole.                         *)
LEMMA WholeStart ==
  ASSUME NEW x, NEW size \in Nat, NEW blocks \in Seq(Block0),
         StartOf(blocks, x), Len(blocks) = size
  PROVE  blocks = [i \in 1 .. size |-> <<x, i - 1>>]
<1>1. blocks \in [1 .. size -> Block0]
  BY LenProperties
<1>. QED BY <1>1 DEF StartOf

----------------------------------------------------------------------------
(* The handler had what t sent, or the upload was broken off.              *)
HadOrBroken(t) == t \in broken \/ \E h \in handled : t \in h.by

(* What the messages under way say.  The last block of an upload is        *)
(* answered only when the handler got it, and acknowledged then or when it *)
(* could not be called; a block of a download names the version it is of.  *)
RequestOK(m) ==
  /\ m.tid \in Transfer /\ m.num \in Nat /\ m.dir \in {"up", "down"}
  /\ m.dir = "up" => /\ m.num < UploadSize[m.tid]
                     /\ m.more <=> More(m.num, UploadSize[m.tid])

ReplyOK(r) ==
  /\ r.tid \in Transfer /\ r.num \in Nat
  /\ r.dir = "up" /\ r.kind = "block" /\ ~More(r.num, UploadSize[r.tid]) =>
       \E h \in handled : r.tid \in h.by
  /\ r.dir = "up" /\ r.kind = "ack" => HadOrBroken(r.tid)
  /\ r.dir = "down" /\ r.kind = "block" =>
       \E v \in Version :
         /\ r.block = <<v, r.num>> /\ r.num < VersionSize[v]
         /\ r.more <=> More(r.num, VersionSize[v])

MessagesOK ==
  /\ \A m \in requests : RequestOK(m)
  /\ \A r \in replies : ReplyOK(r)

(* A buffer that one transfer alone has filled holds a start of what that  *)
(* transfer sends.                                                         *)
RequestBufferOK ==
  requestBuffer # none =>
    /\ requestBuffer.blocks \in Seq(Block0) /\ requestBuffer.blocks # << >>
    /\ requestBuffer.by \subseteq Transfer /\ requestBuffer.by # {}
    /\ \E t \in Transfer : Len(requestBuffer.blocks) < UploadSize[t]
    /\ \A t \in Transfer : requestBuffer.by = {t} =>
         /\ StartOf(requestBuffer.blocks, t)
         /\ Len(requestBuffer.blocks) < UploadSize[t]

ResponseBufferOK ==
  responseBuffer # none =>
    /\ responseBuffer \in [version : Version, next : Nat]
    /\ responseBuffer.next \in 1 .. VersionSize[responseBuffer.version] - 1

(* What the client has collected under one ETag is a start of that version.*)
ClientOK ==
  client # none =>
    /\ client \in [tid : Transfer, dir : {"up", "down"}, blocks : Seq(Block0),
                    etags : SUBSET Version, asked : Nat, sending : BOOLEAN]
    /\ client.dir = "up" => client.asked < UploadSize[client.tid]
    /\ client.dir = "down" => client.asked <= Len(client.blocks)
    /\ client.etags = {} => client.blocks = << >>
    /\ \A v \in Version : client.etags = {v} =>
         /\ StartOf(client.blocks, v)
         /\ Len(client.blocks) < VersionSize[v]

(* A client without its buffer is one whose upload is through, or broken.  *)
SentOK ==
  client # none /\ client.dir = "up" /\ ~client.sending => HadOrBroken(client.tid)

CountsOK ==
  /\ started \in 0 .. MaxTransfers /\ version \in Version
  /\ repeats \in 0 .. MaxRepeats
  /\ done \cup broken \subseteq Transfer

TransferInv ==
  /\ MessagesOK /\ RequestBufferOK /\ ResponseBufferOK
  /\ ClientOK /\ SentOK /\ CountsOK
  /\ UploadIntact /\ DoneIsHandled /\ DownloadIntact

LEMMA Sizes ==
  /\ \A t \in Transfer : t \in Nat /\ UploadSize[t] \in Nat \ {0}
                         /\ UploadSize[t] > 1
  /\ \A v \in Version : v \in Nat /\ VersionSize[v] \in Nat \ {0}
BY BlockwiseAssumption DEF Transfer, Version

(* Messages stay right when only right ones are added, and no upload the   *)
(* handler got is forgotten.                                               *)
LEMMA MessagesStep ==
  ASSUME MessagesOK, handled \subseteq handled', broken \subseteq broken',
         \A m \in requests' : m \in requests \/ RequestOK(m),
         \A r \in replies' : r \in replies \/ ReplyOK(r)'
  PROVE  MessagesOK'
<1>1. \A m \in requests' : RequestOK(m)'
  BY DEF MessagesOK, RequestOK
<1>2. \A r \in replies : ReplyOK(r)'
  BY DEF MessagesOK, ReplyOK, HadOrBroken
<1>. QED BY <1>1, <1>2 DEF MessagesOK

(* A delivered message was under way.                                      *)
LEMMA DeliverRequests ==
  ASSUME NEW m \in requests, Deliver(requests, m), CountsOK
  PROVE  requests' \subseteq requests /\ repeats' \in 0 .. MaxRepeats
BY BlockwiseAssumption DEF Deliver, CountsOK

LEMMA DeliverReplies ==
  ASSUME NEW r \in replies, Deliver(replies, r), CountsOK
  PROVE  replies' \subseteq replies /\ repeats' \in 0 .. MaxRepeats
BY BlockwiseAssumption DEF Deliver, CountsOK

(* What the handler got and the client was told stays true.                *)
LEMMA TransfersKept ==
  ASSUME TransferInv, UNCHANGED <<handled, done, received>>, broken \subseteq broken'
  PROVE  UploadIntact' /\ DoneIsHandled' /\ DownloadIntact'
BY DEF TransferInv, UploadIntact, DoneIsHandled, DownloadIntact

(* A client that does not lose its buffer keeps what SentOK says.          *)
LEMMA SentKept ==
  ASSUME SentOK, handled \subseteq handled', broken \subseteq broken',
         \/ client' = none \/ client' = client
         \/ client'.sending
  PROVE  SentOK'
BY DEF SentOK, HadOrBroken

(* The steps of the client that send or end something of their own accord, *)
(* and those that only let go of a buffer or change the resource.          *)
LEMMA OwnStep ==
  ASSUME TransferInv,
         \/ \E dir \in {"up", "down"} : Begin(dir)
         \/ Abandon \/ RequestTimeout \/ ResponseTimeout \/ SendTimeout \/ Change
  PROVE  TransferInv'
<1>. USE DEF TransferInv
<1>1. ASSUME NEW dir \in {"up", "down"}, Begin(dir) PROVE TransferInv'
  <2>. DEFINE t == started + 1
              m == IF dir = "up" THEN Upload(t, 0) ELSE Download(t, 0)
  <2>1. /\ t \in Transfer /\ started' = t
        /\ client' = [tid |-> t, dir |-> dir, blocks |-> <<>>, etags |-> {},
                      asked |-> 0, sending |-> TRUE]
        /\ requests' = requests \cup {m}
        /\ UNCHANGED <<requestBuffer, responseBuffer, handled, received, done,
                       broken, replies, version, repeats>>
    BY <1>1 DEF Begin, serverVars
  <2>2. RequestOK(m)
    BY <2>1, Sizes DEF RequestOK, Upload, Download
  <2>. HIDE DEF t, m
  <2>3. MessagesOK'
    BY <2>1, <2>2, MessagesStep
  <2>4. ClientOK'
    BY <2>1, Sizes, EmptySeq DEF ClientOK
  <2>5. CountsOK'
    BY <2>1 DEF CountsOK, Transfer
  <2>6. RequestBufferOK' /\ ResponseBufferOK'
    BY <2>1 DEF RequestBufferOK, ResponseBufferOK
  <2>7. SentOK'
    BY <2>1, SentKept
  <2>. QED BY <2>1, <2>3, <2>4, <2>5, <2>6, <2>7, TransfersKept
<1>2. CASE Abandon \/ RequestTimeout \/ ResponseTimeout \/ Change
  <2>1. UNCHANGED <<handled, done, broken, received, requests, replies>>
    BY <1>2 DEF Abandon, RequestTimeout, ResponseTimeout, Change, clientVars, serverVars
  <2>2. MessagesOK'
    BY <2>1, MessagesStep
  <2>3. ClientOK' /\ RequestBufferOK' /\ ResponseBufferOK' /\ CountsOK'
    BY <1>2 DEF Abandon, RequestTimeout, ResponseTimeout, Change, clientVars,
       serverVars, ClientOK, RequestBufferOK, ResponseBufferOK, CountsOK
  <2>4. SentOK'
    BY <1>2, <2>1, SentKept
       DEF Abandon, RequestTimeout, ResponseTimeout, Change, clientVars
  <2>. QED BY <2>1, <2>2, <2>3, <2>4, TransfersKept
<1>3. CASE SendTimeout
  <2>1. /\ client # none /\ client' = [client EXCEPT !.sending = FALSE]
        /\ broken' = broken \cup {client.tid}
        /\ UNCHANGED <<started, requestBuffer, responseBuffer, handled, received, done,
                       requests, replies, version, repeats>>
    BY <1>3 DEF SendTimeout, serverVars
  <2>2. MessagesOK'
    BY <2>1, MessagesStep
  <2>3. ClientOK' /\ RequestBufferOK' /\ ResponseBufferOK'
    BY <2>1 DEF ClientOK, RequestBufferOK, ResponseBufferOK
  <2>4. client'.tid = client.tid /\ client.tid \in Transfer
    BY <2>1 DEF ClientOK
  <2>5. SentOK' /\ CountsOK'
    BY <2>1, <2>4 DEF SentOK, HadOrBroken, CountsOK
  <2>. QED BY <2>1, <2>2, <2>3, <2>5, TransfersKept
<1>. QED BY <1>1, <1>2, <1>3

----------------------------------------------------------------------------
(* A reply to an upload: the client goes on, loses its buffer, or is told  *)
(* that it is done.                                                        *)
LEMMA UploadReplyStep ==
  ASSUME TransferInv, NEW r \in replies, Deliver(replies, r),
         GetContinue(r) \/ GetEmpty(r), UNCHANGED <<started, serverVars, version>>
  PROVE  TransferInv'
<1>. USE DEF TransferInv
<1>1. /\ client # none /\ r.tid = client.tid /\ r.dir = "up" /\ client.dir = "up"
      /\ ClientOK /\ ReplyOK(r) /\ received' = received
      /\ UNCHANGED <<started, requestBuffer, responseBuffer, handled, version>>
  BY DEF GetContinue, GetEmpty, EmptyIsFor, ForClient, MessagesOK, serverVars
<1>2. replies' \subseteq replies /\ repeats' \in 0 .. MaxRepeats
  BY DeliverReplies
<1>3. RequestBufferOK' /\ ResponseBufferOK'
  BY <1>1 DEF RequestBufferOK, ResponseBufferOK
<1>4. UploadIntact' /\ DownloadIntact'
  BY <1>1 DEF UploadIntact, DownloadIntact
<1>5. CASE GetEmpty(r)
  <2>1. /\ UNCHANGED <<requests, done>> /\ client' = [client EXCEPT !.sending = FALSE]
        /\ r.kind \in {"reset", "ack"}
        /\ broken' = IF r.kind = "reset" THEN broken \cup {r.tid} ELSE broken
    BY <1>5 DEF GetEmpty, EmptyIsFor
  <2>2. ClientOK' /\ client'.tid = r.tid
    BY <1>1, <2>1 DEF ClientOK
  <2>3. r.tid \in Transfer /\ broken \subseteq broken'
    BY <1>1, <2>1 DEF ReplyOK
  <2>4. SentOK'
    BY <1>1, <2>1, <2>2 DEF SentOK, HadOrBroken, ReplyOK
  <2>5. CountsOK'
    BY <1>1, <1>2, <2>1, <2>3 DEF CountsOK
  <2>. QED BY <1>1, <1>2, <1>3, <1>4, <2>1, <2>2, <2>3, <2>4, <2>5,
              MessagesStep, TransfersKept
<1>. DEFINE next == client.sending /\ More(r.num, UploadSize[r.tid])
<1>6. CASE /\ GetContinue(r) /\ next
           /\ requests' = requests \cup {Upload(r.tid, r.num + 1)}
           /\ client' = [client EXCEPT !.asked = r.num + 1] /\ UNCHANGED <<done, broken>>
  <2>1. r.tid \in Transfer /\ r.num \in Nat /\ r.num + 1 < UploadSize[r.tid]
    BY <1>1, <1>6 DEF ReplyOK, More
  <2>2. RequestOK(Upload(r.tid, r.num + 1))
    BY <2>1 DEF RequestOK, Upload
  <2>3. ClientOK' /\ client'.sending
    BY <1>1, <1>6, <2>1 DEF ClientOK
  <2>. QED BY <1>1, <1>2, <1>3, <1>4, <1>6, <2>2, <2>3,
              MessagesStep, TransfersKept, SentKept
         DEF CountsOK
<1>7. CASE /\ GetContinue(r) /\ client' = none /\ UNCHANGED requests
           /\ done' = done \cup {r.tid}
           /\ broken' = IF next THEN broken \cup {r.tid} ELSE broken
  <2>1. r.kind = "block" /\ r.tid \in Transfer /\ broken \subseteq broken'
    BY <1>1, <1>7 DEF GetContinue, ReplyOK
  <2>2. ClientOK' /\ SentOK' /\ CountsOK'
    BY <1>1, <1>2, <1>7, <2>1 DEF ClientOK, SentOK, CountsOK
  <2>3. HadOrBroken(r.tid)'
    <3>1. CASE next
      BY <1>7, <3>1 DEF HadOrBroken
    <3>2. CASE ~client.sending
      BY <1>1, <1>7, <3>2 DEF SentOK, HadOrBroken
    <3>3. CASE ~More(r.num, UploadSize[r.tid])
      BY <1>1, <2>1, <3>3 DEF ReplyOK, HadOrBroken
    <3>. QED BY <3>1, <3>2, <3>3
  <2>4. DoneIsHandled'
    BY <1>1, <1>7, <2>1, <2>3 DEF DoneIsHandled, HadOrBroken
  <2>. QED BY <1>1, <1>2, <1>3, <1>4, <1>7, <2>1, <2>2, <2>4, MessagesStep
<1>. QED BY <1>5, <1>6, <1>7 DEF GetContinue

(* A block of a download: while all have one ETag, they are a start of     *)
(* that version, and the whole of it with the last.                        *)
LEMMA DownloadReplyStep ==
  ASSUME TransferInv, NEW r \in replies, Deliver(replies, r),
         GetBlock(r), UNCHANGED <<started, serverVars, version>>
  PROVE  TransferInv'
<1>. USE DEF TransferInv
<1>. DEFINE blocks == Stored(client.blocks, r.num, r.block)
            etags == client.etags \cup {r.block[1]}
<1>1. /\ client # none /\ r.tid = client.tid /\ r.dir = "down" /\ client.dir = "down"
      /\ r.kind = "block"
      /\ Fits(client.blocks, r.num)
      /\ UNCHANGED <<started, requestBuffer, responseBuffer, handled, version,
                     done, broken>>
  BY DEF GetBlock, ForClient, serverVars
<1>2. \/ /\ r.more /\ received' = received
         /\ client' = [client EXCEPT !.blocks = blocks, !.etags = etags,
                                     !.asked = r.num + 1]
         /\ requests' = requests \cup {Download(r.tid, r.num + 1)}
      \/ /\ client' = none /\ UNCHANGED requests
         /\ received' = received \cup
                          {[blocks |-> blocks, etags |-> etags, cut |-> r.more]}
  BY DEF GetBlock
<1>3. replies' \subseteq replies /\ repeats' \in 0 .. MaxRepeats
  BY DeliverReplies
<1>4. ClientOK /\ ReplyOK(r)
  BY DEF MessagesOK
<1>5. PICK u \in Version : /\ r.block = <<u, r.num>> /\ r.num < VersionSize[u]
                           /\ r.more <=> More(r.num, VersionSize[u])
  BY <1>1, <1>4 DEF ReplyOK
<1>6. /\ r.num \in Nat /\ r.block \in Block0 /\ u \in Nat /\ VersionSize[u] \in Nat \ {0}
      /\ client.blocks \in Seq(Block0) /\ client.etags \subseteq Version
      /\ etags = client.etags \cup {u} /\ etags \subseteq Version
  BY <1>1, <1>4, <1>5, Sizes DEF ReplyOK, ClientOK, Block0
<1>7. /\ blocks \in Seq(Block0) /\ r.num + 1 <= Len(blocks)
  BY <1>1, <1>6, StoredTypes
<1>8. ASSUME NEW v \in Version, etags = {v}
      PROVE  /\ StartOf(blocks, v)
             /\ r.more => Len(blocks) < VersionSize[v]
             /\ ~r.more => Len(blocks) = VersionSize[v]
  <2>1. u = v /\ (client.etags = {} \/ client.etags = {v})
    BY <1>6, <1>8
  <2>2. StartOf(client.blocks, v) /\ Len(client.blocks) < VersionSize[v]
    BY <2>1, <1>1, <1>4, Sizes, EmptySeq DEF ClientOK, StartOf
  <2>. QED BY <2>1, <2>2, <1>1, <1>5, <1>6, StoredExtends
<1>. HIDE DEF blocks, etags
<1>9. RequestBufferOK' /\ ResponseBufferOK'
  BY <1>1 DEF RequestBufferOK, ResponseBufferOK
<1>10. UploadIntact' /\ DoneIsHandled'
  BY <1>1 DEF UploadIntact, DoneIsHandled
<1>11. CountsOK'
  BY <1>1, <1>3 DEF CountsOK
<1>12. MessagesOK'
  <2>1. RequestOK(Download(r.tid, r.num + 1))
    BY <1>4, <1>6 DEF RequestOK, Download, ReplyOK
  <2>. QED BY <1>1, <1>2, <1>3, <2>1, MessagesStep
<1>13. ClientOK' /\ SentOK'
  <2>1. CASE client' = none
    BY <2>1 DEF ClientOK, SentOK
  <2>2. CASE r.more /\ client' = [client EXCEPT !.blocks = blocks, !.etags = etags,
                                                !.asked = r.num + 1]
    <3>1. /\ client' \in [tid : Transfer, dir : {"up", "down"}, blocks : Seq(Block0),
                           etags : SUBSET Version, asked : Nat, sending : BOOLEAN]
          /\ client'.dir = "down" /\ client'.blocks = blocks
          /\ client'.etags = etags /\ client'.asked = r.num + 1
      <4>1. client \in [tid : Transfer, dir : {"up", "down"}, blocks : Seq(Block0),
                         etags : SUBSET Version, asked : Nat, sending : BOOLEAN]
        BY <1>1, <1>4 DEF ClientOK
      <4>2. etags \in SUBSET Version /\ r.num + 1 \in Nat /\ blocks \in Seq(Block0)
        BY <1>6, <1>7
      <4>. QED BY <2>2, <4>1, <4>2, <1>1
    <3>2. etags # {}
      BY <1>6
    <3>3. \A v \in Version : etags = {v} =>
            StartOf(blocks, v) /\ Len(blocks) < VersionSize[v]
      BY <2>2, <1>8
    <3>4. SentOK'
      BY <3>1 DEF SentOK
    <3>. QED BY <3>1, <3>2, <3>3, <3>4, <1>7 DEF ClientOK
  <2>. QED BY <1>2, <2>1, <2>2
<1>14. DownloadIntact'
  <2>1. CASE received' = received
    BY <2>1 DEF DownloadIntact
  <2>2. CASE received' = received \cup
                          {[blocks |-> blocks, etags |-> etags, cut |-> r.more]}
    <3>1. ASSUME NEW v \in Version, etags = {v}
          PROVE  /\ r.more \/ Len(blocks) = VersionSize[v]
                 /\ \A i \in 1 .. Len(blocks) : blocks[i] = Snapshot(v)[i]
      <4>1. /\ StartOf(blocks, v) /\ Len(blocks) \in Nat
            /\ VersionSize[v] \in Nat /\ Len(blocks) <= VersionSize[v]
            /\ r.more \/ Len(blocks) = VersionSize[v]
        BY <3>1, <1>5, <1>7, <1>8, Sizes, LenProperties DEF More
      <4>2. \A i \in 1 .. Len(blocks) : i \in 1 .. VersionSize[v]
        BY <4>1
      <4>. QED BY <4>1, <4>2 DEF StartOf, Snapshot
    <3>. QED BY <2>2, <3>1 DEF DownloadIntact
  <2>. QED BY <1>2, <2>1, <2>2
<1>. QED BY <1>9, <1>10, <1>11, <1>12, <1>13, <1>14

(* The callback is called without payload, or the reply is for nobody.     *)
LEMMA OtherReplyStep ==
  ASSUME TransferInv, NEW r \in replies, Deliver(replies, r),
         GetNothing(r) \/ Ignore(r), UNCHANGED <<started, serverVars, version>>
  PROVE  TransferInv'
<1>. USE DEF TransferInv
<1>1. /\ client' = none \/ client' = client
      /\ UNCHANGED <<requests, received, done, broken>>
      /\ UNCHANGED <<started, requestBuffer, responseBuffer, handled, version>>
  BY DEF GetNothing, Ignore, serverVars
<1>2. replies' \subseteq replies /\ repeats' \in 0 .. MaxRepeats
  BY DeliverReplies
<1>3. MessagesOK'
  BY <1>1, <1>2, MessagesStep
<1>4. ClientOK' /\ RequestBufferOK' /\ ResponseBufferOK' /\ CountsOK'
  BY <1>1, <1>2 DEF ClientOK, RequestBufferOK, ResponseBufferOK, CountsOK
<1>5. SentOK'
  BY <1>1, SentKept
<1>. QED BY <1>1, <1>3, <1>4, <1>5, TransfersKept

----------------------------------------------------------------------------
(* The buffer a block goes to: nobody else's, as long as its owner is the  *)
(* only one.                                                               *)
LEMMA BufferForBlock ==
  ASSUME RequestBufferOK, NEW m \in requests, RequestOK(m), NEW room \in BOOLEAN,
         BufferFor(m, room) # none
  PROVE  /\ BufferFor(m, room).blocks \in Seq(Block0)
         /\ BufferFor(m, room).by \subseteq Transfer
         /\ \E t \in Transfer : Len(BufferFor(m, room).blocks) < UploadSize[t]
         /\ \A t \in Transfer : BufferFor(m, room).by \subseteq {t} /\ t = m.tid =>
              /\ StartOf(BufferFor(m, room).blocks, t)
              /\ Len(BufferFor(m, room).blocks) < UploadSize[t]
<1>1. CASE requestBuffer # none
  <2>1. BufferFor(m, room) = requestBuffer
    BY <1>1 DEF BufferFor
  <2>2. \A t : requestBuffer.by \subseteq {t} => requestBuffer.by = {t}
    BY <1>1 DEF RequestBufferOK
  <2>. QED BY <1>1, <2>1, <2>2 DEF RequestBufferOK
<1>2. CASE requestBuffer = none
  <2>1. BufferFor(m, room) = [blocks |-> << >>, by |-> {}]
    BY <1>2 DEF BufferFor
  <2>2. << >> \in Seq(Block0) /\ Len(<< >>) = 0
    BY EmptySeq
  <2>. QED BY <2>1, <2>2, Sizes DEF RequestOK, StartOf
<1>. QED BY <1>1, <1>2

(* A block is stored and acknowledged; with the last the handler gets the  *)
(* payload.                                                                *)
LEMMA TakeBlockStep ==
  ASSUME TransferInv, NEW m \in requests, m.dir = "up", NEW room \in BOOLEAN,
         BufferFor(m, room) # none, Fits(BufferFor(m, room).blocks, m.num),
         TakeBlock(BufferFor(m, room), m), requests' \subseteq requests,
         UNCHANGED <<responseBuffer, client, started, received, done, version>>
  PROVE  /\ MessagesOK' /\ RequestBufferOK' /\ UploadIntact' /\ DoneIsHandled' /\ SentOK'
         /\ broken' \subseteq Transfer \cup broken
<1>. USE DEF TransferInv
<1>. DEFINE buffer == BufferFor(m, room)
            blocks == Stored(buffer.blocks, m.num, <<m.tid, m.num>>)
            by == buffer.by \cup {m.tid}
<1>1. \/ /\ m.more /\ handled' = handled /\ broken' = broken
         /\ requestBuffer' = [blocks |-> blocks, by |-> by]
         /\ replies' = replies \cup {Answer(m, "block")}
      \/ /\ ~m.more /\ requestBuffer' = none /\ broken' = broken
         /\ handled' = handled \cup {[blocks |-> blocks, by |-> by]}
         /\ replies' = replies \cup {Answer(m, "ack"), Answer(m, "block")}
      \/ /\ ~m.more /\ requestBuffer' = none
         /\ handled' = handled /\ broken' = broken \cup {m.tid}
         /\ replies' = replies \cup {Answer(m, "ack"), Answer(m, "error")}
  BY DEF TakeBlock, Reply
<1>2. /\ m.tid \in Transfer /\ m.num \in Nat /\ m.num < UploadSize[m.tid]
      /\ m.more <=> More(m.num, UploadSize[m.tid])
      /\ m.tid \in Nat /\ UploadSize[m.tid] \in Nat \ {0} /\ <<m.tid, m.num>> \in Block0
  BY Sizes DEF MessagesOK, RequestOK, Block0
<1>3. /\ buffer.blocks \in Seq(Block0) /\ by \subseteq Transfer
      /\ \E t \in Transfer : Len(buffer.blocks) < UploadSize[t]
  BY <1>2, BufferForBlock DEF MessagesOK
<1>4. /\ blocks \in Seq(Block0) /\ blocks # << >>
      /\ Len(blocks) = IF m.num = Len(buffer.blocks) THEN m.num + 1 ELSE Len(buffer.blocks)
  BY <1>2, <1>3, StoredTypes
<1>5. ASSUME NEW t \in Transfer, by = {t}
      PROVE  /\ StartOf(blocks, t)
             /\ m.more => Len(blocks) < UploadSize[t]
             /\ ~m.more => Len(blocks) = UploadSize[t]
  <2>1. t = m.tid /\ buffer.by \subseteq {t}
    BY <1>5
  <2>2. StartOf(buffer.blocks, t) /\ Len(buffer.blocks) < UploadSize[t]
    BY <2>1, BufferForBlock DEF MessagesOK
  <2>. QED BY <2>1, <2>2, <1>2, <1>3, StoredExtends
<1>. HIDE DEF blocks, by, buffer
<1>6. RequestBufferOK'
  <2>1. CASE requestBuffer' = none
    BY <2>1 DEF RequestBufferOK
  <2>2. CASE m.more /\ requestBuffer' = [blocks |-> blocks, by |-> by]
    <3>1. \E t \in Transfer : Len(blocks) < UploadSize[t]
      <4>1. CASE m.num = Len(buffer.blocks)
        BY <4>1, <2>2, <1>2, <1>4 DEF More
      <4>2. CASE m.num # Len(buffer.blocks)
        BY <4>2, <1>3, <1>4
      <4>. QED BY <4>1, <4>2
    <3>2. requestBuffer'.blocks = blocks /\ requestBuffer'.by = by
      BY <2>2
    <3>3. by # {}
      BY DEF by
    <3>4. \A t \in Transfer : by = {t} => StartOf(blocks, t) /\ Len(blocks) < UploadSize[t]
      BY <2>2, <1>5
    <3>. QED BY <3>1, <3>2, <3>3, <3>4, <1>3, <1>4 DEF RequestBufferOK
  <2>. QED BY <1>1, <2>1, <2>2
<1>7. MessagesOK'
  <2>1. /\ m.more => ReplyOK(Answer(m, "block"))'
        /\ ReplyOK(Answer(m, "error"))'
    BY <1>2 DEF ReplyOK, Answer
  <2>2. ASSUME HadOrBroken(m.tid)' PROVE ReplyOK(Answer(m, "ack"))'
    BY <1>2, <2>2 DEF ReplyOK, Answer
  <2>3. ASSUME handled' = handled \cup {[blocks |-> blocks, by |-> by]}
        PROVE  ReplyOK(Answer(m, "block"))' /\ HadOrBroken(m.tid)'
    <3>. DEFINE h == [blocks |-> blocks, by |-> by]
    <3>1. h \in handled' /\ m.tid \in h.by
      BY <2>3 DEF by
    <3>. QED BY <1>2, <3>1 DEF ReplyOK, Answer, HadOrBroken
  <2>4. \A a \in replies' : a \in replies \/ ReplyOK(a)'
    BY <1>1, <2>1, <2>2, <2>3 DEF HadOrBroken
  <2>. QED BY <1>1, <2>4, MessagesStep
<1>8. UploadIntact'
  <2>1. CASE handled' = handled
    BY <2>1 DEF UploadIntact
  <2>2. CASE ~m.more /\ handled' = handled \cup {[blocks |-> blocks, by |-> by]}
    <3>1. ASSUME NEW t \in Transfer, by = {t} PROVE blocks = Payload(t)
      BY <2>2, <3>1, <1>4, <1>5, Sizes, WholeStart DEF Payload
    <3>. QED BY <2>2, <3>1 DEF UploadIntact
  <2>. QED BY <1>1, <2>1, <2>2
<1>9. DoneIsHandled' /\ SentOK'
  BY <1>1, SentKept DEF DoneIsHandled
<1>10. broken' \subseteq Transfer \cup broken
  BY <1>1, <1>2
<1>. QED BY <1>6, <1>7, <1>8, <1>9, <1>10

(* The server's steps.                                                     *)
LEMMA ServeStep ==
  ASSUME TransferInv, NEW m \in requests, Deliver(requests, m),
         ServeUpload(m) \/ ServeFirst(m) \/ ServeNext(m) \/ ServeNone(m),
         UNCHANGED <<client, started, received, done, version>>
  PROVE  TransferInv'
<1>. USE DEF TransferInv
<1>2. requests' \subseteq requests /\ repeats' \in 0 .. MaxRepeats
  BY DeliverRequests
<1>3. RequestOK(m)
  BY DEF MessagesOK
<1>4. /\ ClientOK' /\ DownloadIntact'
      /\ broken' \subseteq Transfer \cup broken => CountsOK'
  BY <1>2 DEF ClientOK, CountsOK, DownloadIntact
<1>5. ASSUME NEW k \in {"reset", "error"} PROVE ReplyOK(Answer(m, k))'
  BY <1>3 DEF ReplyOK, RequestOK, Answer
<1>6. CASE ServeUpload(m)
  <2>1. PICK room \in BOOLEAN :
          \/ RefuseBlock(m)
          \/ /\ BufferFor(m, room) # none /\ Fits(BufferFor(m, room).blocks, m.num)
             /\ TakeBlock(BufferFor(m, room), m)
    BY <1>6 DEF ServeUpload
  <2>2. m.dir = "up" /\ UNCHANGED responseBuffer
    BY <1>6 DEF ServeUpload
  <2>3. ResponseBufferOK'
    BY <2>2 DEF ResponseBufferOK
  <2>4. CASE RefuseBlock(m)
    <3>1. /\ requestBuffer' = none /\ UNCHANGED <<handled, broken>>
          /\ replies' = replies \cup {Answer(m, "reset")}
      BY <2>2, <2>4 DEF RefuseBlock, Reply
    <3>2. MessagesOK' /\ RequestBufferOK'
      BY <3>1, <1>2, <1>5, MessagesStep DEF RequestBufferOK
    <3>. QED BY <3>1, <3>2, <2>3, <1>4, TransfersKept, SentKept
  <2>5. CASE /\ BufferFor(m, room) # none /\ Fits(BufferFor(m, room).blocks, m.num)
             /\ TakeBlock(BufferFor(m, room), m)
    BY <2>2, <2>3, <2>5, <1>2, <1>4, TakeBlockStep
  <2>. QED BY <2>1, <2>4, <2>5
<1>7. CASE ServeFirst(m) \/ ServeNext(m) \/ ServeNone(m)
  <2>1. m.dir = "down" /\ UNCHANGED <<requestBuffer, handled, broken>>
    BY <1>7 DEF ServeFirst, ServeNext, ServeNone, serverVars
  <2>2. ASSUME NEW v \in Version, NEW more \in BOOLEAN, m.num < VersionSize[v],
               more <=> More(m.num, VersionSize[v])
        PROVE  ReplyOK(Block(m, v, more))'
    BY <2>1, <2>2, <1>3 DEF ReplyOK, RequestOK, Block
  <2>3. RequestBufferOK'
    BY <2>1 DEF RequestBufferOK
  <2>4. ResponseBufferOK' /\ \A r \in replies' : r \in replies \/ ReplyOK(r)'
    <3>1. CASE ServeFirst(m)
      <4>. DEFINE more == More(0, VersionSize[version])
      <4>1. /\ m.num = 0
            /\ \/ /\ replies' = replies \cup {Block(m, version, more)}
                  /\ responseBuffer' = IF more THEN [version |-> version, next |-> 1]
                                              ELSE none
               \/ responseBuffer' = none /\ replies' = replies \cup {Answer(m, "error")}
        BY <3>1 DEF ServeFirst, Reply
      <4>2. version \in Version /\ VersionSize[version] \in Nat \ {0} /\ more \in BOOLEAN
        BY Sizes DEF CountsOK, More
      <4>3. ReplyOK(Block(m, version, more))'
        BY <4>1, <4>2, <2>2
      <4>4. ResponseBufferOK'
        BY <4>1, <4>2 DEF ResponseBufferOK, More
      <4>. QED BY <4>1, <4>3, <4>4, <1>5
    <3>2. CASE ServeNext(m)
      <4>0. /\ responseBuffer \in [version : Version, next : Nat] /\ m.num \in Nat
            /\ responseBuffer.next \in 1 .. VersionSize[responseBuffer.version] - 1
        BY <3>2, <1>3 DEF ServeNext, ResponseBufferOK, RequestOK
      <4>1. PICK v \in Version : v = responseBuffer.version /\ VersionSize[v] \in Nat \ {0}
        BY <4>0, Sizes
      <4>. DEFINE more == More(m.num, VersionSize[v])
      <4>2. CASE UNCHANGED <<responseBuffer, replies>>
        BY <4>2 DEF ResponseBufferOK
      <4>3. CASE /\ responseBuffer.next - m.num \in {0, 1}
                 /\ replies' = replies \cup {Block(m, v, more)}
                 /\ responseBuffer' = IF more THEN [responseBuffer EXCEPT !.next = m.num + 1]
                                              ELSE none
        <5>1. m.num < VersionSize[v]
          BY <4>0, <4>1, <4>3
        <5>2. ReplyOK(Block(m, v, more))'
          <6>1. more \in BOOLEAN
            BY DEF More
          <6>. QED BY <4>1, <5>1, <6>1, <2>2
        <5>3. ResponseBufferOK'
          <6>1. CASE more
            <7>1. responseBuffer' = [version |-> v, next |-> m.num + 1]
              BY <4>0, <4>1, <4>3, <6>1
            <7>. QED BY <6>1, <7>1, <4>0, <4>1 DEF ResponseBufferOK, More
          <6>2. CASE ~more
            BY <6>2, <4>3 DEF ResponseBufferOK
          <6>. QED BY <6>1, <6>2
        <5>. QED BY <4>3, <5>2, <5>3
      <4>. QED BY <3>2, <4>1, <4>2, <4>3 DEF ServeNext, Reply
    <3>3. CASE ServeNone(m)
      <4>1. /\ UNCHANGED responseBuffer
            /\ replies' = replies \cup {Answer(m, "reset")}
        BY <3>3 DEF ServeNone, Reply, serverVars
      <4>. QED BY <4>1, <1>5 DEF ResponseBufferOK
    <3>. QED BY <1>7, <3>1, <3>2, <3>3
  <2>5. MessagesOK'
    BY <2>1, <2>4, <1>2, MessagesStep
  <2>. QED BY <2>1, <2>3, <2>4, <2>5, <1>4, TransfersKept, SentKept
<1>. QED BY <1>6, <1>7

----------------------------------------------------------------------------
(* The inductive invariant: what the messages say, what the buffers and    *)
(* the client have collected, and the properties.                          *)
LEMMA TransferInvariant == Spec => []TransferInv
<1>1. Init => TransferInv
  <2>. SUFFICES ASSUME Init PROVE TransferInv
    OBVIOUS
  <2>1. MessagesOK /\ UploadIntact /\ DoneIsHandled /\ DownloadIntact
    BY DEF Init, MessagesOK, UploadIntact, DoneIsHandled, DownloadIntact
  <2>2. RequestBufferOK /\ ResponseBufferOK /\ ClientOK /\ SentOK
    BY DEF Init, RequestBufferOK, ResponseBufferOK, ClientOK, SentOK
  <2>3. CountsOK
    BY BlockwiseAssumption DEF Init, CountsOK, Version
  <2>. QED BY <2>1, <2>2, <2>3 DEF TransferInv
<1>2. TransferInv /\ [Next]_vars => TransferInv'
  <2>. SUFFICES ASSUME TransferInv, [Next]_vars PROVE TransferInv'
    OBVIOUS
  <2>1. CASE \/ \E dir \in {"up", "down"} : Begin(dir)
             \/ Abandon \/ RequestTimeout \/ ResponseTimeout \/ SendTimeout \/ Change
    BY <2>1, OwnStep
  <2>2. CASE GetReply
    BY <2>2, UploadReplyStep, DownloadReplyStep, OtherReplyStep DEF GetReply
  <2>3. CASE Serve
    BY <2>3, ServeStep DEF Serve
  <2>4. CASE UNCHANGED vars
    <3>1. UNCHANGED <<client, started, requestBuffer, responseBuffer, requests, replies,
                      version, repeats, handled, received, done, broken>>
      BY <2>4 DEF vars, serverVars, clientVars
    <3>2. MessagesOK'
      BY <3>1, MessagesStep DEF TransferInv
    <3>3. ClientOK' /\ RequestBufferOK' /\ ResponseBufferOK' /\ CountsOK'
      BY <3>1 DEF TransferInv, ClientOK, RequestBufferOK, ResponseBufferOK, CountsOK
    <3>. QED BY <3>1, <3>2, <3>3, TransfersKept, SentKept DEF TransferInv
  <2>. QED BY <2>1, <2>2, <2>3, <2>4 DEF Next
<1>. QED BY <1>1, <1>2, PTL DEF Spec

(* The state stays well formed: a buffer that is kept has room left for    *)
(* some transfer, and its next block lies within the payload.              *)
THEOREM TypeCorrect == Spec => []TypeOK
<1>1. TransferInv => TypeOK
  <2>. SUFFICES ASSUME TransferInv PROVE TypeOK
    OBVIOUS
  <2>1. ASSUME client # none
        PROVE  /\ client.tid \in Transfer /\ client.dir \in {"up", "down"}
               /\ client.etags \subseteq Version /\ client.sending \in BOOLEAN
               /\ client.asked \in 0 .. IF client.dir = "up" THEN UploadSize[client.tid] - 1
                                                            ELSE Len(client.blocks)
    <3>1. Len(client.blocks) \in Nat
      BY <2>1, LenProperties DEF TransferInv, ClientOK
    <3>. QED BY <2>1, <3>1, Sizes DEF TransferInv, ClientOK
  <2>2. requestBuffer # none =>
          /\ requestBuffer.by \subseteq Transfer /\ requestBuffer.blocks # << >>
          /\ \E t \in Transfer : Len(requestBuffer.blocks) < UploadSize[t]
    BY DEF TransferInv, RequestBufferOK
  <2>3. responseBuffer # none =>
          /\ responseBuffer.version \in Version
          /\ responseBuffer.next \in 1 .. VersionSize[responseBuffer.version] - 1
    BY DEF TransferInv, ResponseBufferOK
  <2>. QED BY <2>1, <2>2, <2>3 DEF TypeOK, TransferInv, CountsOK
<1>. QED BY <1>1, TransferInvariant, PTL

(* An upload that alone filled its buffer reaches the handler whole and in *)
(* order, however its blocks are lost, repeated or late.                   *)
THEOREM UploadsIntact == Spec => []UploadIntact
BY TransferInvariant, PTL DEF TransferInv

(* A client that is told of a finished upload can rely on the handler      *)
(* having had its last block, unless the upload had been broken off by a   *)
(* reset, a timer, or the lack of a transaction or a buffer.               *)
THEOREM DoneUploadsHandled == Spec => []DoneIsHandled
BY TransferInvariant, PTL DEF TransferInv

(* A download under one ETag is the resource as it was at one time, in     *)
(* order, however often it changed meanwhile, and whole unless the client  *)
(* had no transaction to ask for more.                                     *)
THEOREM DownloadsIntact == Spec => []DownloadIntact
BY TransferInvariant, PTL DEF TransferInv
=============================================================================
