----------------------------- MODULE SseRestorer -----------------------------
(***************************************************************************)
(* A server-sent-event response restored event by event                    *)
(* (SseStreamRestorer in src/src/proxy/server.rs, driven by                *)
(* forward_sse_chunked_http_response).  The model answers with its text in *)
(* fragments: one JSON field of one event at a time, in the fields         *)
(* is_stream_text_field lists, or the data of a line that is not JSON.     *)
(* All of them go through one fragment restorer.                           *)
(*                                                                         *)
(* An event here is one such fragment; an event with several fields is as  *)
(* many of them in a row.  Events without one ([DONE], comments, other     *)
(* fields) are the ones of field Untouched.  A chunk that ends inside an   *)
(* event leaves it in event_buffer, which nothing reads until the rest is  *)
(* there or the response ends: only the last event, which may lack its     *)
(* blank line, is told apart.  The read lock is held for the whole body.   *)
(***************************************************************************)
EXTENDS Restoration

CONSTANTS
    Fields,         \* what an event's text may stand in
    Streams,        \* sequences of events [field, text] upstream may send
    Untouched,      \* the field of events no text is restored in
    TailField       \* the field of the event finish appends: "delta"

Events(S) == [field: Fields, text: Seq(S)]

ASSUME StreamsAssumption ==
    /\ Streams \subseteq Seq(Events(Byte))
    /\ TailField \in Fields \ {Untouched}

\* A restored secret is one symbol here, which is no byte: two placeholders stand for two secrets.
ASSUME SecretAssumption ==
    /\ \A p \in Patterns : Len(SecretOf(p)) = 1 /\ SecretOf(p)[1] \notin Byte
    /\ \A p, q \in Patterns : SecretOf(p) = SecretOf(q) => p = q

VARIABLES
    events,         \* what upstream sends
    terminated,     \* whether the last event ends in a blank line
    next,           \* the event pushed next
    pending,        \* PlaceholderFragmentRestorer::pending
    lines,          \* the data lines sent downstream, one an event but for the last (see FinishEvents)
    phase           \* "open", "ended" (last chunk written) or "broken"

sseVars == <<events, terminated, next, pending, lines, phase>>

SseInit ==
    /\ events \in Streams
    /\ terminated \in BOOLEAN
    /\ next = 1
    /\ pending = <<>>
    /\ lines = <<>>
    /\ phase = "open"

\* restore_event: the event as it is written, and what the fragment restorer holds then.
RestoreEvent(event, held) ==
    IF event.field = Untouched THEN [event |-> event, pending |-> held]
    ELSE LET pushed == PushText(held, event.text)
         IN  [event |-> [event EXCEPT !.text = pushed.out], pending |-> pushed.pending]

\* push_chunk's loop takes one complete event out of event_buffer.
PushEvent ==
    LET restored == RestoreEvent(events[next], pending)
    IN
    /\ phase = "open"
    /\ next < Len(events) \/ (next = Len(events) /\ terminated)
    /\ lines' = Append(lines, restored.event)
    /\ pending' = restored.pending
    /\ next' = next + 1
    /\ UNCHANGED <<events, terminated, phase>>

\* finish restores what is left in event_buffer, then sends the held text in a data line of
\* its own: an event, or a second line of the event that was left without its blank line.
FinishEvents ==
    LET left == SubSeq(events, next, Len(events))
        last == IF left = <<>> THEN [out |-> <<>>, pending |-> pending]
                ELSE LET r == RestoreEvent(left[1], pending)
                     IN  [out |-> <<r.event>>, pending |-> r.pending]
        tail == Restore(last.pending)
    IN
    /\ phase = "open"
    /\ left = <<>> \/ (Len(left) = 1 /\ ~terminated)
    /\ lines' = lines \o last.out
                  \o IF tail = <<>> THEN <<>> ELSE <<[field |-> TailField, text |-> tail]>>
    /\ pending' = <<>>
    /\ next' = Len(events) + 1
    /\ phase' = "ended"
    /\ UNCHANGED <<events, terminated>>

\* The upstream connection, its framing or an event's encoding fails: nothing more is sent.
EventsBreakOff ==
    /\ phase = "open"
    /\ phase' = "broken"
    /\ UNCHANGED <<events, terminated, next, pending, lines>>

SseNext == PushEvent \/ FinishEvents \/ EventsBreakOff

SseSpec == SseInit /\ [][SseNext]_sseVars

-----------------------------------------------------------------------------

SseTypeOK ==
    /\ events \in Streams
    /\ terminated \in BOOLEAN
    /\ next \in 1 .. Len(events) + 1
    /\ pending \in Seq(Byte)
    /\ lines \in Seq(Events(Symbol))
    /\ phase \in {"open", "ended", "broken"}

\* The text of some events that is restored, fragment after fragment.
TextOf(es) ==
    FlattenSeq([i \in DOMAIN es |-> IF es[i].field = Untouched THEN <<>> ELSE es[i].text])

Pushed(k) == TextOf(SubSeq(events, 1, k))

\* No byte of the stream is dropped, duplicated or reordered: the text sent, with its secrets
\* put back, and the text held are together the text received.  Only the beginning of a
\* placeholder is held, so that a reader never waits for text that no placeholder could
\* claim, and nothing once the stream has ended.
TextIsConserved ==
    /\ Unrestored(TextOf(lines)) \o pending = Pushed(next - 1)
    /\ pending # <<>> => phase # "ended" /\ \E p \in Patterns : IsStrictPrefix(pending, p)

\* A cut right behind the first byte of a placeholder, which placeholder_prefix_suffix_len
\* does not hold back: the placeholder is lost to the reader.
CutAfterFirstByte ==
    \E k \in DOMAIN events :
        Pushed(k) # <<>> /\ At(TextOf(events), Len(Pushed(k))) # {}

\* Wherever else the fragments are cut, the reader who joins them gets every secret back.
JoinedTextIsRestored ==
    phase = "ended" /\ ~CutAfterFirstByte => TextOf(lines) = Restore(TextOf(events))
=============================================================================
