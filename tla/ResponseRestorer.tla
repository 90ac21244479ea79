-------------------------- MODULE ResponseRestorer --------------------------
(***************************************************************************)
(* A response body restored chunk by chunk (src/src/restore/stream.rs), in *)
(* the loops that drive it: forward_chunked_http_response and              *)
(* restore_http_response of the proxy, restore_upstream_response_body of   *)
(* the gateway.  Each holds the registry's read lock from new to finish,   *)
(* so one set of placeholders serves the whole body.                       *)
(***************************************************************************)
EXTENDS Restoration

CONSTANT Sources    \* the bodies upstream may send

ASSUME SourcesAssumption == Sources \subseteq Seq(Byte)

VARIABLES
    source,         \* the body upstream sends
    read,           \* how many of its bytes have been pushed
    buffer,         \* ResponseRestorer::buffer
    out,            \* what the downstream client has been sent
    state           \* "open", "ended" (last chunk written) or "broken"

vars == <<source, read, buffer, out, state>>

Init ==
    /\ source \in Sources
    /\ read = 0
    /\ buffer = <<>>
    /\ out = <<>>
    /\ state = "open"

\* One chunk of n bytes arrives, is pushed, and what push_chunk returns is written.
PushChunk(n) ==
    LET filled == buffer \o SubSeq(source, read + 1, read + n)
        processed == ProcessUntil(filled, SafeEnd(filled))
    IN
    /\ state = "open"
    /\ read' = read + n
    /\ out' = out \o processed.out
    /\ buffer' = processed.rest
    /\ UNCHANGED <<source, state>>

\* Mutant of Finish: the buffer is not flushed.
FinishWithoutTail ==
    /\ state = "open"
    /\ read = Len(source)
    /\ buffer' = <<>>
    /\ state' = "ended"
    /\ UNCHANGED <<source, read, out>>

\* The body is complete: finish flushes what was held back.
Finish ==
    /\ state = "open"
    /\ read = Len(source)
    /\ out' = out \o ProcessUntil(buffer, Len(buffer)).out
    /\ buffer' = <<>>
    /\ state' = "ended"
    /\ UNCHANGED <<source, read>>

\* The upstream connection or its framing fails: the stream ends without finish.
UpstreamFails ==
    /\ state = "open"
    /\ state' = "broken"
    /\ UNCHANGED <<source, read, buffer, out>>

Next ==
    \/ \E n \in 0 .. Len(source) - read : PushChunk(n)
    \/ Finish
    \/ UpstreamFails

Spec == Init /\ [][Next]_vars

-----------------------------------------------------------------------------

TypeOK ==
    /\ source \in Sources
    /\ read \in 0 .. Len(source)
    /\ buffer \in Seq(Byte)
    /\ state \in {"open", "ended", "broken"}

\* Restoration adds no more latency than it must: between chunks fewer bytes are held back
\* than the longest placeholder has.
HoldsLessThanAPlaceholder == state = "open" => Len(buffer) <= CarryLen

\* Where the chunks are cut cannot be seen: at every moment what was sent, followed by the
\* restoration of everything still held or unread, is the restoration of the whole body.
CutsAreInvisible ==
    state # "broken" =>
        out \o Restore(buffer \o SubSeq(source, read + 1, Len(source))) = Restore(source)

\* The reader's view: a prefix of the restored body at all times, all of it at the end.
Promise == INSTANCE RestoredStream WITH
    whole <- Restore(source),
    emitted <- out

KeepsThePromise == Promise!Spec
=============================================================================
