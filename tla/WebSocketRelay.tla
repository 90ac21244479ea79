--------------------------- MODULE WebSocketRelay ---------------------------
(***************************************************************************)
(* One websocket connection relayed through the proxy                      *)
(* (src/src/proxy/websocket.rs): a loop that selects over the next frame   *)
(* of either side and handles it to the end before it selects again.       *)
(*                                                                         *)
(* A frame's payload is a sequence of bytes; a text message is the         *)
(* concatenation of its fragments.  The text of an upstream message stands *)
(* in a stream field or is not JSON (Streamed) or stands in another string *)
(* of its JSON, which is restored on its own.                              *)
(*                                                                         *)
(* The registry belongs to the whole proxy.  The client's own text         *)
(* registers the secrets it marks or spells, and other connections         *)
(* register theirs between the steps of this one.  Patterns are the        *)
(* placeholders that come back in this conversation.  Upstream learns one  *)
(* only after it was registered, and a restorer built before that is       *)
(* replaced when the next text arrives: the one at work knows them all.    *)
(*                                                                         *)
(* The mask, the length encoding and the statistics are left out.          *)
(***************************************************************************)
EXTENDS Restoration

CONSTANTS
    Conversations,      \* [client, upstream]: the frames each side sends, in order
    Streamed(_),        \* payload -> whether its text goes through the fragment restorer
    Sanitized(_),       \* payload -> what the sanitizer makes of it
    Malformed,          \* payloads whose sanitization fails
    Secrets,            \* what is registered while the connection is open
    Registers(_, _),    \* payload, secret -> whether sanitizing the payload registers it
    MaxText             \* MAX_TEXT_MESSAGE_BYTES

\* Frames with payloads over S; "ping" stands for ping and pong.
Frames(S) ==
    [op: {"text", "continuation", "binary", "ping", "close", "reserved"},
     fin: BOOLEAN,
     payload: Seq(S)]

\* A frame that carries a part of a message, and one that completes it.
DataFrame(frame) == frame.op \in {"text", "continuation", "binary"}
Completes(frame) == DataFrame(frame) /\ frame.fin

\* Frame k of fs belongs to the message that is not complete in front of frame j.
SameMessage(fs, k, j) == DataFrame(fs[k]) /\ \A m \in k .. j - 1 : ~Completes(fs[m])

\* Both sides keep to the protocol: only data frames are fragmented, and a message begins when
\* the one before it is complete.
ASSUME ConversationsAssumption ==
    \A c \in Conversations : \A side \in {"client", "upstream"} :
        /\ c[side] \in Seq(Frames(Byte))
        /\ \A j \in 1 .. Len(c[side]) :
            /\ c[side][j].op \in {"ping", "close"} => c[side][j].fin
            /\ c[side][j].op \in {"text", "binary"} =>
                    \A k \in 1 .. j - 1 : ~SameMessage(c[side], k, j)

ASSUME LimitsAssumption == IsFiniteSet(Secrets) /\ MaxText \in Nat

VARIABLES
    frames,             \* [client, upstream]: the frames each side sends
    framesRead,         \* [client, upstream]: how many of them have been read
    partRead,           \* sides whose next frame is being read: its header is consumed
    lost,               \* sides whose bytes are out of step: a consumed header was dropped
    buffers,            \* the MessageBuffer of each side: [active, payload]
    restorer,           \* the WebSocketTextRestorer: [version, pending], version 0 for None
    registered,         \* those of Secrets that are in the registry
    version,            \* registry.version(), which is 1 or more here
    answered,           \* history: the text messages of upstream that were complete when a
                        \* secret was last registered
    written,            \* [client, upstream]: the frames written to each side
    relay               \* "open", "closed" or "failed"

registryVars == <<registered, version, answered>>
relayVars ==
    <<frames, framesRead, partRead, lost, buffers, restorer, registryVars, written, relay>>

Sides == {"client", "upstream"}
Other(side) == IF side = "client" THEN "upstream" ELSE "client"

EmptyBuffer == [active |-> FALSE, payload |-> <<>>]
NoRestorer == [version |-> 0, pending |-> <<>>]

RelayInit ==
    /\ frames \in Conversations
    /\ framesRead = [side \in Sides |-> 0]
    /\ partRead = {} /\ lost = {}
    /\ buffers = [side \in Sides |-> EmptyBuffer]
    /\ restorer = NoRestorer
    /\ registered = {} /\ version = 1 /\ answered = 0
    /\ written = [side \in Sides |-> <<>>]
    /\ relay = "open"

-----------------------------------------------------------------------------
\* Messages

\* What was read of a side, while it was read frame by frame.
ReadFrom(side) == SubSeq(frames[side], 1, framesRead[side])

\* Whether frame j of fs is a part of a text message.
OfText(fs, j) ==
    /\ DataFrame(fs[j])
    /\ \E k \in 1 .. j : fs[k].op = "text" /\ SameMessage(fs, k, j)

\* The payload of the message that frame j belongs to, as far as frame j.
Payload(fs, j) ==
    FlattenSeq([k \in 1 .. j |-> IF SameMessage(fs, k, j) THEN fs[k].payload ELSE <<>>])

\* The text messages that are complete in fs.
TextMessages(fs) ==
    FlattenSeq([j \in 1 .. Len(fs) |->
        IF Completes(fs[j]) /\ OfText(fs, j) THEN <<Payload(fs, j)>> ELSE <<>>])

-----------------------------------------------------------------------------
\* The registry

\* SecretRegistry::ingest of each of new: what is not registered yet moves the version.
Register(new) ==
    /\ registered' = registered \cup new
    /\ version' = version + Cardinality(new \ registered)
    /\ answered' = IF new \subseteq registered THEN answered
                   ELSE Len(TextMessages(ReadFrom("upstream")))

\* What the sanitizer registers of a payload, all of it marked or spelled there.
SecretsIn(payload) == {secret \in Secrets : Registers(payload, secret)}

-----------------------------------------------------------------------------
\* Frame handlers.  A handler that fails ends the relay and with it both connections.

Fail == relay' = "failed" /\ UNCHANGED <<restorer, written>>

\* write_frame to the other side.
Write(side, frame) == written' = [written EXCEPT ![Other(side)] = Append(@, frame)]

TextFrame(payload) == [op |-> "text", fin |-> TRUE, payload |-> payload]

\* Mutant of CurrentRestorer: a new one for every message.
NewRestorer == [version |-> version, pending |-> <<>>]

\* restore_upstream_text's restorer: a new one when the registry has changed.
CurrentRestorer ==
    IF restorer.version # version THEN [version |-> version, pending |-> <<>>] ELSE restorer

\* A complete text message is rewritten and written as one frame, whatever its fragments were.
\* Text of the client registers its secrets, and some of them before it fails.
RewriteText(side, payload) ==
    IF side = "client"
    THEN IF payload \in Malformed THEN Fail /\ \E some \in SUBSET SecretsIn(payload) : Register(some)
         ELSE /\ Register(SecretsIn(payload))
              /\ Write(side, TextFrame(Sanitized(payload)))
              /\ UNCHANGED <<restorer, relay>>
    ELSE /\ IF Streamed(payload)
            THEN LET pushed == PushText(CurrentRestorer.pending, payload)
                 IN  /\ Write(side, TextFrame(pushed.out))
                     /\ restorer' = [CurrentRestorer EXCEPT !.pending = pushed.pending]
            ELSE /\ Write(side, TextFrame(Restore(payload)))
                 /\ restorer' = CurrentRestorer
         /\ UNCHANGED <<registryVars, relay>>

Joined(side, frame) == buffers[side].payload \o frame.payload

\* append_fragment's limit.
TooLong(side, frame) == Len(Joined(side, frame)) > MaxText

\* What a complete message leaves in the buffer.  The mutant leaves its bytes.
KeptBuffer(side) == [buffers[side] EXCEPT !.active = FALSE]
LeftBuffer(side) == EmptyBuffer

\* A text frame or a continuation of a text message.
HandleText(side, frame) ==
    LET fragment == frame.op = "continuation" \/ ~frame.fin IN
    /\ frame.op = "text" \/ (frame.op = "continuation" /\ buffers[side].active)
    /\ IF fragment /\ TooLong(side, frame) THEN Fail /\ UNCHANGED <<buffers, registryVars>>
       ELSE IF ~frame.fin
       THEN /\ buffers' = [buffers EXCEPT ![side] =
                [active |-> TRUE, payload |-> Joined(side, frame)]]
            /\ UNCHANGED <<restorer, registryVars, written, relay>>
       ELSE /\ RewriteText(side, IF fragment THEN Joined(side, frame) ELSE frame.payload)
            /\ IF fragment THEN buffers' = [buffers EXCEPT ![side] = LeftBuffer(side)]
               ELSE UNCHANGED buffers

\* Mutant of HandlePassthrough: every frame leaves as a final one.
HandlePassthroughFinal(side, frame) ==
    /\ \/ frame.op \in {"binary", "ping"}
       \/ frame.op = "continuation" /\ ~buffers[side].active
    /\ Write(side, [frame EXCEPT !.fin = TRUE])
    /\ UNCHANGED <<buffers, restorer, registryVars, relay>>

\* handle_passthrough_frame: binary frames and their continuations, pings and pongs.
HandlePassthrough(side, frame) ==
    /\ \/ frame.op \in {"binary", "ping"}
       \/ frame.op = "continuation" /\ ~buffers[side].active
    /\ Write(side, IF frame.op = "ping" THEN [frame EXCEPT !.fin = TRUE] ELSE frame)
    /\ UNCHANGED <<buffers, restorer, registryVars, relay>>

\* A close frame is passed on and ends the relay, without waiting for the answer to it.
HandleClose(side, frame) ==
    /\ frame.op = "close"
    /\ Write(side, [frame EXCEPT !.fin = TRUE])
    /\ relay' = "closed"
    /\ UNCHANGED <<buffers, restorer, registryVars>>

HandleUnsupported(frame) ==
    frame.op = "reserved" /\ Fail /\ UNCHANGED <<buffers, registryVars>>

HandleFrame(side, frame) ==
    \/ HandleText(side, frame)
    \/ HandlePassthrough(side, frame)
    \/ HandleClose(side, frame)
    \/ HandleUnsupported(frame)

-----------------------------------------------------------------------------

Unread(side) == side \notin lost /\ framesRead[side] < Len(frames[side])

\* read_frame has the header, and the payload is still on its way.
ReadHeader(side) ==
    /\ relay = "open"
    /\ Unread(side)
    /\ side \notin partRead
    /\ partRead' = partRead \cup {side}
    /\ UNCHANGED <<frames, framesRead, lost, buffers, restorer, registryVars, written, relay>>

\* The frame is complete and its arm of the select runs.  The other arm's future is dropped,
\* and with it the header it may have consumed: what is read next there is payload, taken for
\* a header, and from then on that side may seem to send anything, or what is refused.
ReadFrame(side) ==
    /\ relay = "open"
    /\ Unread(side)
    /\ framesRead' = [framesRead EXCEPT ![side] = @ + 1]
    /\ HandleFrame(side, frames[side][framesRead[side] + 1])
    /\ lost' = lost \cup (partRead \ {side})
    /\ partRead' = {}
    /\ UNCHANGED frames

\* A side closes its connection between two frames.
Eof(side) ==
    /\ relay = "open"
    /\ side \notin lost /\ ~Unread(side)
    /\ relay' = "closed"
    /\ UNCHANGED <<frames, framesRead, partRead, lost, buffers, restorer, registryVars, written>>

\* A connection is reset, inside a frame or in a write, or a header is refused.
ConnectionFails ==
    /\ relay = "open"
    /\ relay' = "failed"
    /\ UNCHANGED <<frames, framesRead, partRead, lost, buffers, restorer, registryVars, written>>

\* Another connection of the proxy registers a secret.
OtherConnectionIngests ==
    /\ relay = "open"
    /\ \E secret \in Secrets \ registered : Register({secret})
    /\ UNCHANGED <<frames, framesRead, partRead, lost, buffers, restorer, written, relay>>

RelayNext ==
    \/ \E side \in Sides : ReadHeader(side) \/ ReadFrame(side) \/ Eof(side)
    \/ ConnectionFails
    \/ OtherConnectionIngests

RelaySpec == RelayInit /\ [][RelayNext]_relayVars

-----------------------------------------------------------------------------

\* The types, and what a restorer holds: nothing, or text of the version it was built from.
RelayTypeOK ==
    /\ frames \in Conversations
    /\ framesRead \in [Sides -> Nat]
    /\ \A side \in Sides : framesRead[side] <= Len(frames[side])
    /\ partRead \subseteq Sides /\ lost \subseteq Sides
    /\ buffers \in [Sides -> [active: BOOLEAN, payload: Seq(Byte)]]
    /\ \A side \in Sides : Len(buffers[side].payload) <= MaxText
    /\ restorer \in [version: 0 .. version, pending: Seq(Byte)]
    /\ restorer.version = 0 => restorer.pending = <<>>
    /\ registered \subseteq Secrets /\ version \in Nat \ {0} /\ answered \in Nat
    /\ DOMAIN written = Sides /\ written["client"] \in Seq(Frames(Symbol))
    /\ relay \in {"open", "closed", "failed"}

\* The frames of fs that are parts of no text message.
OtherFrames(fs) ==
    FlattenSeq([j \in 1 .. Len(fs) |-> IF OfText(fs, j) THEN <<>> ELSE <<fs[j]>>])

\* The text frames among those written, each a message, and the others.
TextsAmong(fs) ==
    FlattenSeq([j \in 1 .. Len(fs) |-> IF fs[j].op = "text" THEN <<fs[j]>> ELSE <<>>])
OthersAmong(fs) ==
    FlattenSeq([j \in 1 .. Len(fs) |-> IF fs[j].op = "text" THEN <<>> ELSE <<fs[j]>>])

\* Upstream gets each text message of the client once, whole, in order and sanitized: no
\* fragment leaves before the message is complete, whatever control frames come in between.
TextIsSentSanitized ==
    relay \in {"open", "closed"} =>
        LET messages == TextMessages(ReadFrom("client"))
        IN  TextsAmong(written["upstream"])
                = [k \in 1 .. Len(messages) |-> TextFrame(Sanitized(messages[k]))]

\* Everything else passes unchanged, in order and in both directions: control frames, also
\* those between the fragments of a text message, and binary messages frame by frame.
OtherFramesPass ==
    relay \in {"open", "closed"} =>
        \A side \in Sides :
            OthersAmong(written[Other(side)]) = OtherFrames(ReadFrom(side))

\* The messages of upstream and the texts the client got for them, since a secret was last
\* registered.
MessagesSince ==
    LET messages == TextMessages(ReadFrom("upstream"))
    IN  SubSeq(messages, answered + 1, Len(messages))
SentSince ==
    LET sent == TextsAmong(written["client"])
    IN  SubSeq(sent, answered + 1, Len(sent))

\* The streamed text of messages, and of what was sent for them.
StreamedOf(messages) ==
    FlattenSeq([k \in 1 .. Len(messages) |-> IF Streamed(messages[k]) THEN messages[k] ELSE <<>>])
SentFor(messages, sent) ==
    FlattenSeq([k \in 1 .. Len(messages) |->
        IF Streamed(messages[k]) THEN sent[k].payload ELSE <<>>])

\* No text of a streamed answer is dropped, duplicated or reordered between the messages that
\* carry it: what was sent, with its secrets put back, and what is held are what was read,
\* from one registration to the next.  At a registration, be it by text of the same client,
\* the answer's next message replaces the restorer, and what that one held is lost.
AnswerIsConserved ==
    restorer.version = version /\ relay \in {"open", "closed"} =>
        Unrestored(SentFor(MessagesSince, SentSince)) \o restorer.pending
            = StreamedOf(MessagesSince)
=============================================================================
