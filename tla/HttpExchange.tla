---------------------------- MODULE HttpExchange ----------------------------
(***************************************************************************)
(* One request and its response, as messages on the wire (forward_http in  *)
(* src/src/proxy/server.rs): how much of a body is read, how it is framed  *)
(* when it leaves with another length, and the chunked response that is    *)
(* taken apart and put together again around the restorer of               *)
(* restore/stream.rs (an event stream goes through the same loop, around   *)
(* SseRestorer's).                                                         *)
(*                                                                         *)
(* A head is what framing and rewriting look at; a wire is what follows    *)
(* it, symbol by symbol, a chunk's size being one symbol, a number.  Reads *)
(* return any part of what has been sent, and upstream may break off       *)
(* anywhere.                                                               *)
(* When the proxy is done with the exchange it closes both connections.    *)
(***************************************************************************)
EXTENDS Restoration

CONSTANTS
    Requests,           \* [head, wire] an agent may send
    Responses,          \* [head, wire] upstream may send
    SanitizedBody(_),   \* body -> what the sanitizer makes of it
    RefusedBodies,      \* bodies it refuses
    NoLength,
    Cr, Lf              \* the symbols a line ends with

HttpHead ==
    [bodiless: BOOLEAN,         \* a HEAD request; a status that excludes a body
     length: Nat \cup {NoLength}, chunked: BOOLEAN,
     media: {"redactable", "other"},
     encoded: BOOLEAN,          \* content-encoding
     accepts: BOOLEAN]          \* accept-encoding

\* What is sent: bytes, restored secrets, and what chunks are made of.
WireSymbol == Symbol \cup Nat \cup {Cr, Lf}

\* A length that is stated is not NoLength, and a size is not the end of its line.  A request
\* that states its length is as long as that, and one that states none, and no chunks, has no
\* body; an answer that states its length is no longer than that.
ASSUME HttpAssumption ==
    /\ NoLength \notin Nat /\ Cr \notin Nat
    /\ \A message \in Requests \cup Responses :
        message.head \in HttpHead /\ message.wire \in Seq(Byte)
    /\ \A message \in Requests :
        /\ SanitizedBody(message.wire) \in Seq(Byte)
        /\ ~message.head.chunked =>
            Len(message.wire) = IF message.head.length = NoLength THEN 0 ELSE message.head.length
    /\ \A message \in Responses :
        ~message.head.chunked /\ message.head.length # NoLength =>
            Len(message.wire) <= message.head.length

VARIABLES
    request,        \* what the agent sends
    response,       \* what upstream sends
    arriving,       \* how much of its wire gets through before the connection closes
    pc,             \* "idle", "read", "head", "whole", "chunks", "copy", "done", "failed"
    received,       \* how much of the message's wire has been read
    unused,         \* of that, what has not been used (pending in the code)
    carry,          \* ResponseRestorer::buffer
    toUpstream,     \* the messages written: [head, wire], or Nothing
    toClient

httpVars == <<request, response, arriving, pc, received, unused, carry, toUpstream, toClient>>

Nothing == [head |-> NoLength, wire |-> <<>>]

HttpInit ==
    /\ request \in Requests /\ response \in Responses
    /\ arriving \in 0 .. Len(response.wire)
    /\ pc = "idle"
    /\ received = 0 /\ unused = <<>> /\ carry = <<>>
    /\ toUpstream = Nothing /\ toClient = Nothing

Redactable(head) == head.media = "redactable"

\* is_redactable_http_body behind the test for a content length other than zero.
HasBodyToRewrite(head) == head.length \notin {NoLength, 0} /\ Redactable(head)

\* Mutant of RewriteHeadForBody: the length is left as it was.
RewriteHeadKeepingLength(head, length, stripAcceptEncoding) ==
    [head EXCEPT !.chunked = FALSE,
                 !.accepts = @ /\ ~stripAcceptEncoding,
                 !.encoded = @ /\ stripAcceptEncoding]

\* rewrite_http_head_for_body
RewriteHeadForBody(head, length, stripAcceptEncoding) ==
    [head EXCEPT !.length = length, !.chunked = FALSE,
                 !.accepts = @ /\ ~stripAcceptEncoding,
                 !.encoded = @ /\ stripAcceptEncoding]

\* rewrite_http_head_for_chunked
RewriteHeadForChunked(head) ==
    [head EXCEPT !.length = NoLength, !.chunked = TRUE, !.encoded = FALSE]

\* strip_http_message_header
StripAcceptEncoding(head) == [head EXCEPT !.accepts = FALSE]

-----------------------------------------------------------------------------
\* The request.

\* read_http_head has read the head and as much of the body as came with it,
\* read_remaining_body the rest, if the head says how much that is.
ReadRequest ==
    /\ pc = "idle"
    /\ \E early \in 0 .. Len(request.wire) :
        received' = IF request.head.length = NoLength THEN early ELSE Max({early, request.head.length})
    /\ pc' = "read"
    /\ UNCHANGED <<request, response, arriving, unused, carry, toUpstream, toClient>>

RequestBody == SubSeq(request.wire, 1, received)

Forward(head, wire) ==
    /\ toUpstream' = [head |-> head, wire |-> wire]
    /\ pc' = "head"
    /\ received' = 0
    /\ UNCHANGED <<request, response, arriving, unused, carry, toClient>>

ForwardUnread ==
    /\ pc = "read" /\ ~HasBodyToRewrite(request.head)
    /\ Forward(StripAcceptEncoding(request.head), RequestBody)

SanitizeHttpRequest ==
    LET sanitized == SanitizedBody(RequestBody) IN
    /\ pc = "read" /\ HasBodyToRewrite(request.head)
    /\ RequestBody \notin RefusedBodies
    /\ IF sanitized = RequestBody /\ ~request.head.accepts
       THEN Forward(request.head, RequestBody)
       ELSE Forward(RewriteHeadForBody(request.head, Len(sanitized), TRUE), sanitized)

RefuseRequest ==
    /\ pc = "read" /\ HasBodyToRewrite(request.head)
    /\ RequestBody \in RefusedBodies
    /\ pc' = "failed"
    /\ UNCHANGED <<request, response, arriving, received, unused, carry, toUpstream, toClient>>

-----------------------------------------------------------------------------
\* The response.

Bodiless == request.head.bodiless \/ response.head.bodiless

Answer(head, wire) == toClient' = [head |-> head, wire |-> wire]
WriteBytes(bytes) == toClient' = [toClient EXCEPT !.wire = @ \o bytes]

\* The head has been read, with some of the body, and says how the rest is handled.
ReceiveHead ==
    LET head == response.head
        rewritten == head.chunked /\ Redactable(head) /\ ~head.encoded
    IN
    /\ pc = "head"
    /\ \E early \in 0 .. arriving :
        /\ received' = early
        /\ CASE Bodiless ->
                    pc' = "done" /\ Answer(head, <<>>) /\ UNCHANGED unused
             [] ~Bodiless /\ rewritten ->
                    /\ pc' = "chunks" /\ Answer(RewriteHeadForChunked(head), <<>>)
                    /\ unused' = SubSeq(response.wire, 1, early)
             [] ~Bodiless /\ head.chunked /\ ~rewritten ->
                    /\ pc' = "copy" /\ Answer(head, SubSeq(response.wire, 1, early))
                    /\ UNCHANGED unused
             [] ~Bodiless /\ ~head.chunked ->
                    /\ pc' = "whole" /\ UNCHANGED toClient
                    /\ unused' = SubSeq(response.wire, 1, early)
    /\ UNCHANGED <<request, response, arriving, carry, toUpstream>>

GiveUp ==
    /\ pc' = "failed"
    /\ UNCHANGED <<request, response, arriving, received, unused, carry, toUpstream, toClient>>

\* No answer, or one that ends in front of what has to be read: the task gives up.
HeadBreaksOff == pc = "head" /\ GiveUp

\* forward_passthrough_http_response
Copy ==
    /\ pc = "copy"
    /\ WriteBytes(SubSeq(response.wire, received + 1, arriving))
    /\ received' = arriving
    /\ pc' = "done"
    /\ UNCHANGED <<request, response, arriving, unused, carry, toUpstream>>

\* read_remaining_body and restore_http_response: a body of no stated length is what came
\* with its head.
RestoreHttpResponse ==
    LET head == response.head
        stated == IF head.length = NoLength THEN 0 ELSE head.length
        body == SubSeq(response.wire, 1, Max({Len(unused), stated}))
        restored == ProcessUntil(body, Len(body)).out
    IN
    /\ pc = "whole" /\ stated <= arriving
    /\ IF HasBodyToRewrite(head) /\ restored # body
       THEN Answer(RewriteHeadForBody(head, Len(restored), FALSE), restored)
       ELSE Answer(head, body)
    /\ pc' = "done"
    /\ UNCHANGED <<request, response, arriving, received, unused, carry, toUpstream>>

WholeBreaksOff ==
    /\ pc = "whole"
    /\ response.head.length # NoLength /\ response.head.length > arriving
    /\ GiveUp

-----------------------------------------------------------------------------
\* forward_chunked_http_response

LineEnds(bytes) == {i \in 1 .. Len(bytes) - 1 : bytes[i] = Cr /\ bytes[i + 1] = Lf}

\* parse_chunk_len of the line in front; what follows its size is ignored.
HasLine(bytes) == LineEnds(bytes) # {}
LineLen(bytes) == Min(LineEnds(bytes)) - 1
HasSize(bytes) == HasLine(bytes) /\ bytes[1] \in Nat

\* The chunk in front: its data ends at ChunkEnd, and a line end belongs behind that.
ChunkEnd(bytes) == LineLen(bytes) + 2 + bytes[1]
HasChunk(bytes) == HasSize(bytes) /\ bytes[1] > 0 /\ Len(bytes) >= ChunkEnd(bytes) + 2
ChunkIsClosed(bytes) == bytes[ChunkEnd(bytes) + 1] = Cr /\ bytes[ChunkEnd(bytes) + 2] = Lf

\* The blank line behind the trailers of the last chunk: right behind another line's end.
HasLastChunk(bytes) ==
    HasSize(bytes) /\ bytes[1] = 0 /\ \E i \in LineEnds(bytes) : i - 2 \in LineEnds(bytes)

\* Mutant of HttpChunk: nothing is a chunk of its own.
HttpChunkAlways(bytes) == <<Len(bytes), Cr, Lf>> \o bytes \o <<Cr, Lf>>

\* write_http_chunk
HttpChunk(bytes) ==
    IF bytes = <<>> THEN <<>> ELSE <<Len(bytes), Cr, Lf>> \o bytes \o <<Cr, Lf>>

LastChunk == <<0, Cr, Lf, Cr, Lf>>

WantsMore ==
    pc = "chunks" /\ (HasLine(unused) => HasSize(unused) /\ ~HasChunk(unused) /\ ~HasLastChunk(unused))

\* Another read, when what is pending does not do.
ReadMore ==
    /\ WantsMore
    /\ \E upTo \in received + 1 .. arriving :
        /\ unused' = unused \o SubSeq(response.wire, received + 1, upTo)
        /\ received' = upTo
    /\ UNCHANGED <<request, response, arriving, pc, carry, toUpstream, toClient>>

PushHttpChunk ==
    LET filled == carry \o SubSeq(unused, LineLen(unused) + 3, ChunkEnd(unused))
        processed == ProcessUntil(filled, SafeEnd(filled))
    IN
    /\ pc = "chunks" /\ HasChunk(unused) /\ ChunkIsClosed(unused)
    /\ carry' = processed.rest
    /\ WriteBytes(HttpChunk(processed.out))
    /\ unused' = SubSeq(unused, ChunkEnd(unused) + 3, Len(unused))
    /\ UNCHANGED <<request, response, arriving, pc, received, toUpstream>>

\* The tail, and a last chunk without trailers.
FinishChunks ==
    /\ pc = "chunks" /\ HasLastChunk(unused)
    /\ WriteBytes(HttpChunk(ProcessUntil(carry, Len(carry)).out) \o LastChunk)
    /\ carry' = <<>>
    /\ pc' = "done"
    /\ UNCHANGED <<request, response, arriving, received, unused, toUpstream>>

ChunksBreakOff == WantsMore /\ received = arriving /\ GiveUp

\* A line that is no size; a chunk without the line end behind it.
RefuseChunk ==
    /\ pc = "chunks" /\ HasLine(unused)
    /\ ~HasSize(unused) \/ (HasChunk(unused) /\ ~ChunkIsClosed(unused))
    /\ GiveUp

HttpNext ==
    \/ ReadRequest \/ ForwardUnread \/ SanitizeHttpRequest \/ RefuseRequest
    \/ ReceiveHead \/ HeadBreaksOff
    \/ Copy
    \/ RestoreHttpResponse \/ WholeBreaksOff
    \/ ReadMore \/ PushHttpChunk \/ FinishChunks \/ ChunksBreakOff \/ RefuseChunk

HttpSpec == HttpInit /\ [][HttpNext]_httpVars

-----------------------------------------------------------------------------
\* How the other ends read what they are sent.

\* The last n symbols of a wire.
LastOf(wire, n) == SubSeq(wire, Len(wire) - n + 1, Len(wire))

\* A chunked wire, said[n] being what there is in its last n symbols: its data, and whether
\* the last chunk is there.
Says(wire, said) ==
    LET line == {i \in 1 .. Len(wire) - 1 : wire[i] = Cr /\ wire[i + 1] = Lf}
        data == Min(line) + 2
        end == data + wire[1]
        rest == said[Len(wire) - end - 1]
    IN  IF line = {} \/ wire[1] \notin Nat
        THEN [body |-> <<>>, complete |-> FALSE]
        ELSE IF wire[1] = 0
        THEN [body |-> <<>>, complete |-> \E i \in line : i - 2 \in line]
        ELSE IF end \notin line
        THEN [body |-> SubSeq(wire, data, Min({end - 1, Len(wire)})), complete |-> FALSE]
        ELSE [body |-> SubSeq(wire, data, end - 1) \o rest.body, complete |-> rest.complete]

Dechunked(wire) ==
    LET said[n \in 0 .. Len(wire)] == Says(LastOf(wire, n), said)
    IN  said[Len(wire)]

\* A message, once its connection is closed.
Read(head, wire, bodiless) ==
    IF bodiless THEN [body |-> <<>>, complete |-> TRUE]
    ELSE IF head.chunked THEN Dechunked(wire)
    ELSE IF head.length = NoLength THEN [body |-> wire, complete |-> TRUE]
    ELSE [body |-> SubSeq(wire, 1, Min({head.length, Len(wire)})),
          complete |-> Len(wire) >= head.length]

\* A message whose head says where it ends.
Framed(head) == head.chunked \/ head.length # NoLength

\* Upstream reads the whole request, sanitized, whatever length that gives it and however
\* much of it came with its head, and is not invited to encode its answer; but for a chunked
\* request, of which the proxy does not read more than what came with its head.
RequestArrivesSanitized ==
    LET arrived == Read(toUpstream.head, toUpstream.wire, FALSE)
        rewritten == HasBodyToRewrite(request.head)
    IN  toUpstream # Nothing =>
            /\ ~toUpstream.head.accepts
            /\ ~request.head.chunked =>
                /\ arrived.complete
                /\ arrived.body = IF rewritten THEN SanitizedBody(request.wire) ELSE request.wire

\* The client reads the body upstream sent, restored (unless it is encoded chunks or of
\* another type), wherever it was cut by reads and chunks; and an answer that broke off is
\* never taken for a whole one.  An answer that ends with its connection is excepted: the
\* proxy passes on what came with its head.
ResponseArrivesRestored ==
    LET sent == Read(response.head, SubSeq(response.wire, 1, arriving), Bodiless)
        got == Read(toClient.head, toClient.wire, Bodiless)
        asItIs == ~Redactable(response.head) \/ (response.head.chunked /\ response.head.encoded)
    IN  pc \in {"done", "failed"} /\ toClient # Nothing /\ Framed(response.head) =>
            /\ got.complete = (sent.complete /\ pc = "done")
            /\ got.complete => got.body = IF asItIs THEN sent.body ELSE Restore(sent.body)
            /\ ~got.complete => IsPrefix(got.body, IF asItIs THEN sent.body ELSE Restore(sent.body))
=============================================================================
