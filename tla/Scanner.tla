------------------------------ MODULE Scanner ------------------------------
(***************************************************************************)
(* The scanner at work: one text, the registry as ingestions change it,    *)
(* and what scan_string_token and the chunked scan of the cache make of    *)
(* the text at every moment (src/src/redact/scanner.rs, span.rs,           *)
(* cache.rs).                                                              *)
(***************************************************************************)
EXTENDS Spans, SequencesExt

CONSTANTS
    ScannedTexts,   \* the string tokens that may be scanned
    ChunkSize       \* the chunk size of the cache

\* A placeholder is one symbol here, and no byte of a text.
ASSUME ScannerAssumption ==
    /\ ScannedTexts \subseteq Seq(Byte)
    /\ ChunkSize \in Nat \ {0}
    /\ \A label \in Labels, secret \in Secrets : PlaceholderOf(label, secret) \notin Byte

VARIABLE text

ScanInit == RegistryInit /\ text \in ScannedTexts
ScanNext == RegistryNext /\ UNCHANGED text
ScanSpec == ScanInit /\ [][ScanNext]_<<registry, text>>

-----------------------------------------------------------------------------

Whole == ScanStringToken(text, registry)
Fresh == FreshSpans(text, registry, ChunkSize)

\* Some registered secret stands in the output, byte for byte.
HoldsSecret(output) ==
    \E s \in Registered(registry) : \E i \in 1 .. (Len(output) + 1 - Len(s)) :
        Window(output, i, Len(s)) = s

\* What the response path makes of the output: every placeholder becomes its secret again.
Restored(output) ==
    FlattenSeq([i \in DOMAIN output |->
        IF output[i] \in DOMAIN registry.byPlaceholder
        THEN registry.entries[registry.byPlaceholder[output[i]]].secret
        ELSE <<output[i]>>])

\* Every occurrence the scanner passes over is cut by a selected one that is longer, or
\* as long and further left, however the occurrences chain across the text.
LongestMatchWins ==
    LET selected == {Whole[i] : i \in DOMAIN Whole}
    IN  \A occ \in Occurrences(text, registry) \ selected :
            \E span \in selected :
                /\ Overlaps(occ, span)
                /\ span.len > occ.len \/ (span.len = occ.len /\ span.start < occ.start)

\* No registered secret survives the scan of a string token: neither an occurrence of the
\* input nor one that removing a span would have joined together.
NoSecretSurvives == ~HoldsSecret(ApplySpans(text, Whole))

\* Redaction loses nothing: restoring the output's placeholders gives the input back, with
\* the chunked scan as well as with the whole one.
RedactionIsReversible ==
    /\ Restored(ApplySpans(text, Whole)) = text
    /\ Restored(ApplySpans(text, Fresh)) = text

\* The chunked scan finds every occurrence that overlaps no other one, wherever the chunk
\* boundaries cut it.  An occurrence in a chain of overlapping ones may be missed: what beats
\* it in a window can be dropped with the chunk it begins in.
ChunksFindIsolatedSecrets ==
    LET selected == {Fresh[i] : i \in DOMAIN Fresh}
        all == Occurrences(text, registry)
    IN  \A occ \in all : (\A o \in all \ {occ} : ~Overlaps(o, occ)) => occ \in selected
=============================================================================
