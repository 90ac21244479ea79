----------------------------- MODULE Restoration -----------------------------
(***************************************************************************)
(* What the response path makes of placeholders: the matcher               *)
(* (src/src/restore/matcher.rs), the chunk restorer's process_until        *)
(* (restore/stream.rs) and the fragment restorer that the SSE path         *)
(* (proxy/server.rs) and the websocket relay (proxy/websocket.rs) each     *)
(* have a copy of.  Here a placeholder is a sequence of bytes, for where   *)
(* it is cut is what these modules are about; a restored secret is the     *)
(* sequence of symbols SecretOf gives, which nothing scans again.          *)
(***************************************************************************)
EXTENDS Naturals, FiniteSets, SequencesExt

CONSTANTS
    Byte,
    Patterns,       \* placeholders of the registry the restorer was built from
    SecretOf(_)     \* placeholder -> what restore_to_vec appends for it

\* "{{CREBRO_SECRET:v1:<label>:s_<hex>}}", the label without braces: a placeholder does not
\* stand inside another one, nor does its end begin one.
ASSUME PatternsAssumption ==
    /\ Patterns \subseteq Seq(Byte) \ {<<>>}
    /\ \A p, q \in Patterns :
        /\ \A k \in 1 .. Len(p) - 1 : ~IsPrefix(SubSeq(p, k + 1, Len(p)), q)
        /\ \A k \in 1 .. Len(p) - 1 : ~IsPrefix(q, SubSeq(p, k + 1, Len(p)))
        /\ p # q => ~IsPrefix(p, q)

\* A registry holds finitely many placeholders, and what stands for one is a sequence too.
ASSUME RegistryAssumption ==
    /\ IsFiniteSet(Patterns)
    /\ \A p \in Patterns : SecretOf(p) \in Seq(Range(SecretOf(p)))

\* What a restored text is made of.
Symbol == Byte \cup UNION {Range(SecretOf(p)) : p \in Patterns}

-----------------------------------------------------------------------------

\* PlaceholderMatcher::find_in: the placeholder that starts at position i, if any.  They
\* cannot overlap, so the automaton's non-overlapping matches are all the occurrences.
At(bytes, i) ==
    {p \in Patterns : i + Len(p) - 1 <= Len(bytes) /\ SubSeq(bytes, i, i + Len(p) - 1) = p}

\* Position i lies in a placeholder that starts before it.
Inside(bytes, i) == \E j \in 1 .. i - 1 : \E p \in At(bytes, j) : i < j + Len(p)

\* What is written for position i: a secret for the first byte of a placeholder, nothing for
\* its other bytes, the byte itself elsewhere.
Rendered(bytes, i) ==
    IF At(bytes, i) # {} THEN SecretOf(CHOOSE p \in At(bytes, i) : TRUE)
    ELSE IF Inside(bytes, i) THEN <<>>
    ELSE <<bytes[i]>>

RenderedUpTo(bytes, n) == FlattenSeq([i \in 1 .. n |-> Rendered(bytes, i)])

\* restore_complete_placeholders, and what a whole body is restored to.
Restore(bytes) == RenderedUpTo(bytes, Len(bytes))

\* Output with the restored secrets turned back into their placeholders.
Unrestored(symbols) ==
    FlattenSeq([i \in DOMAIN symbols |->
        IF \E p \in Patterns : SecretOf(p) = <<symbols[i]>>
        THEN CHOOSE p \in Patterns : SecretOf(p) = <<symbols[i]>>
        ELSE <<symbols[i]>>])

-----------------------------------------------------------------------------
\* ResponseRestorer

\* max_pattern_len().saturating_sub(1)
CarryLen == IF Patterns = {} THEN 0 ELSE Max({Len(p) : p \in Patterns}) - 1

\* Mutant of CommitUntil: a placeholder that reaches beyond safe_end stays in the buffer too.
CommitUntilSafeEnd(buffer, safeEnd) == safeEnd

\* commit_until: a placeholder that starts in front of safe_end is taken whole.
CommitUntil(buffer, safeEnd) ==
    Max({safeEnd} \cup UNION {{j + Len(p) - 1 : p \in At(buffer, j)} : j \in 1 .. safeEnd})

\* process_until: what is written, and what stays in the buffer.
ProcessUntil(buffer, safeEnd) ==
    [out |-> RenderedUpTo(buffer, safeEnd),
     rest |-> SubSeq(buffer, CommitUntil(buffer, safeEnd) + 1, Len(buffer))]

\* Mutant of SafeEnd: one byte more is held back.
SafeEndOneLess(buffer) == IF Len(buffer) > CarryLen + 1 THEN Len(buffer) - CarryLen - 1 ELSE 0

\* push_chunk's safe_end
SafeEnd(buffer) == IF Len(buffer) > CarryLen THEN Len(buffer) - CarryLen ELSE 0

-----------------------------------------------------------------------------
\* PlaceholderFragmentRestorer

\* Mutant of HoldLen: a two-byte beginning is not held.
HoldLenFromThree(bytes) ==
    Max({0} \cup {n \in 3 .. Len(bytes) : \E p \in Patterns :
        n < Len(p) /\ SubSeq(bytes, Len(bytes) - n + 1, Len(bytes)) = SubSeq(p, 1, n)})

\* placeholder_prefix_suffix_len: the longest end of bytes, of two bytes or more, with which
\* a placeholder begins.
HoldLen(bytes) ==
    Max({0} \cup {n \in 2 .. Len(bytes) : \E p \in Patterns :
        n < Len(p) /\ SubSeq(bytes, Len(bytes) - n + 1, Len(bytes)) = SubSeq(p, 1, n)})

\* Mutant of PushText: what was held is replaced by what is held now.
PushTextDropsPending(pending, text) ==
    LET safeLen == Len(text) - HoldLen(text)
    IN  IF Patterns = {} THEN [out |-> text, pending |-> pending]
        ELSE [out |-> Restore(SubSeq(text, 1, safeLen)),
              pending |-> SubSeq(text, safeLen + 1, Len(text))]

\* push_text
PushText(pending, text) ==
    LET combined == pending \o text
        safeLen == Len(combined) - HoldLen(combined)
    IN  IF Patterns = {} THEN [out |-> text, pending |-> pending]
        ELSE [out |-> Restore(SubSeq(combined, 1, safeLen)),
              pending |-> SubSeq(combined, safeLen + 1, Len(combined))]
=============================================================================
