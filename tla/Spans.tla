-------------------------------- MODULE Spans --------------------------------
(***************************************************************************)
(* The exact-match scanner and the span algebra of the redactor            *)
(* (src/src/redact/scanner.rs, span.rs, and the window arithmetic of       *)
(* cache.rs).  A text is a sequence of bytes; a span marks the occurrence  *)
(* of one registered secret, with the text's positions counted from 1.     *)
(***************************************************************************)
EXTENDS SecretRegistry, Folds

Window(text, start, len) == SubSeq(text, start, start + len - 1)

SpanEnd(span) == span.start + span.len

\* Mutant of Overlaps: spans may share a byte.
OverlapsByTwo(a, b) == a.start < SpanEnd(b) - 1 /\ b.start < SpanEnd(a) - 1

Overlaps(a, b) == a.start < SpanEnd(b) /\ b.start < SpanEnd(a)

\* Mutant of Occurrences: the window at the end of the text is missed.
OccurrencesButLast(text, reg) ==
    UNION {UNION {
        {[start |-> start, len |-> len, id |-> id,
          placeholder |-> reg.entries[id].placeholder] :
            id \in VerifiedIds(reg, Window(text, start, len))}
        : start \in 1 .. (Len(text) - len)}
        : len \in {Len(s) : s \in Registered(reg)}}

\* scan_string_token before the selection: every window the registry verifies.
Occurrences(text, reg) ==
    UNION {UNION {
        {[start |-> start, len |-> len, id |-> id,
          placeholder |-> reg.entries[id].placeholder] :
            id \in VerifiedIds(reg, Window(text, start, len))}
        : start \in 1 .. (Len(text) + 1 - len)}
        : len \in {Len(s) : s \in Registered(reg)}}

\* Mutant of Preferred: leftmost first.
PreferredLeftmost(a, b) ==
    \/ a.start < b.start
    \/ a.start = b.start /\ a.len > b.len
    \/ a.start = b.start /\ a.len = b.len /\ a.id < b.id

\* The order of preference: longest first, then leftmost, then lowest id.
Preferred(a, b) ==
    \/ a.len > b.len
    \/ a.len = b.len /\ a.start < b.start
    \/ a.len = b.len /\ a.start = b.start /\ a.id < b.id

\* The greedy pass over the spans in order of preference.
SelectSpans(spans) ==
    LET worst(S) == CHOOSE a \in S : \A b \in S \ {a} : Preferred(b, a)
        keep(a, selected) ==
            IF \E b \in selected : Overlaps(a, b) THEN selected ELSE selected \cup {a}
    IN  MapThenFoldSet(keep, {}, LAMBDA a : a, worst, spans)

\* The trailing sort: spans that do not overlap are in order when their starts are.
InTextOrder(spans) ==
    LET rank(a) == Cardinality({b \in spans : b.start <= a.start})
    IN  [i \in 1 .. Cardinality(spans) |-> CHOOSE a \in spans : rank(a) = i]

SelectLongestNonOverlapping(spans) == InTextOrder(SelectSpans(spans))

ScanStringToken(text, reg) == SelectLongestNonOverlapping(Occurrences(text, reg))

\* apply_spans: copy up to each span, write its placeholder as one symbol, copy the rest.
ApplySpans(text, spans) ==
    LET cursor(i) == IF i = 0 THEN 1 ELSE SpanEnd(spans[i])
        written[i \in 0 .. Len(spans)] ==
            IF i = 0 THEN <<>>
            ELSE written[i - 1]
                 \o SubSeq(text, cursor(i - 1), spans[i].start - 1)
                 \o <<spans[i].placeholder>>
    IN  written[Len(spans)] \o SubSeq(text, cursor(Len(spans)), Len(text))

-----------------------------------------------------------------------------
\* Texts longer than a chunk are scanned window by window (sanitize_large_string_detailed).

SmallerOf(a, b) == IF a < b THEN a ELSE b
LargerOf(a, b) == IF a > b THEN a ELSE b

\* Mutant of ChunkEnd: the end is taken to be the chunk's last position.
ChunkEndInclusive(text, start, chunk) == SmallerOf(start + chunk - 1, Len(text))

\* The chunk that begins at start ends before this position.
ChunkEnd(text, start, chunk) == SmallerOf(start + chunk, Len(text) + 1)

\* Mutant of WindowOverlap: one position short.
WindowOverlapShort(reg) == LargerOf(2, MaxSecretLen(reg)) - 2

\* The window scanned for a chunk reaches the longest secret less one beyond it on each side.
WindowOverlap(reg) == LargerOf(1, MaxSecretLen(reg)) - 1

WindowStart(reg, start) ==
    IF start > WindowOverlap(reg) THEN start - WindowOverlap(reg) ELSE 1

WindowText(text, reg, start, chunk) ==
    LET end == SmallerOf(ChunkEnd(text, start, chunk) + WindowOverlap(reg), Len(text) + 1)
    IN  SubSeq(text, WindowStart(reg, start), end - 1)

\* The window's spans that start inside the chunk, moved to the text's positions.
ChunkSpans(text, reg, start, chunk, windowSpans) ==
    LET shift == WindowStart(reg, start) - 1
    IN  {span \in {[windowSpans[i] EXCEPT !.start = @ + shift] : i \in DOMAIN windowSpans} :
            span.start >= start /\ span.start < ChunkEnd(text, start, chunk)}

ChunkStarts(text, chunk) ==
    {i \in 1 .. Len(text) : \E k \in 0 .. Len(text) : i = k * chunk + 1}

\* The spans of a long text: each window is scanned on its own, then the selection is redone.
ChunkedScan(text, reg, chunk) ==
    SelectLongestNonOverlapping(UNION {
        ChunkSpans(text, reg, start, chunk,
                   ScanStringToken(WindowText(text, reg, start, chunk), reg))
        : start \in ChunkStarts(text, chunk)})

\* What a string token is redacted to when nothing is cached.
FreshSpans(text, reg, chunk) ==
    IF Len(text) > chunk THEN ChunkedScan(text, reg, chunk) ELSE ScanStringToken(text, reg)
=============================================================================
