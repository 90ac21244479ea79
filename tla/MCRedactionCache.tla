-------------------------- MODULE MCRedactionCache --------------------------
(***************************************************************************)
(* Two secrets, one of which a pattern detects; texts below, at and above  *)
(* the chunk size.  Objects: one whose second text registers a secret that *)
(* its first one holds, one with a malformed directive, one whose text is  *)
(* long, one whose bytes are also a string and a window of that text, one  *)
(* with a secret for a key, whose bytes are a string and a text of another *)
(* object, and that object.                                                *)
(***************************************************************************)
EXTENDS RedactionCache, SequencesExt

MCSecrets == {<<"a", "b">>, <<"b", "c">>}
MCPlaceholderOf(label, secret) == "<<" \o label \o ":" \o FlattenSeq(secret) \o ">>"
MCPrefilter(bytes) == Len(bytes)

Leaf(raw, text) == [raw |-> raw, text |-> text]
Registers == <<Leaf(<<"{">>, <<"b", "c">>), Leaf(<<"}">>, <<"=", "b", "c">>)>>
Fails == <<Leaf(<<"{">>, <<"a", "b", "c">>), Leaf(<<"}">>, <<"!">>)>>
Small == <<Leaf(<<"{">>, <<"a", "b">>)>>
Keyed == <<Leaf(<<"b", "c">>, <<"=">>)>>
Holds == <<Leaf(<<"{">>, <<"b", "c", "=">>)>>
Long == <<Leaf(<<"{">>, <<"b", "c", "{", "a", "b">>)>>

MCStrings == {<<"a", "b", "c">>, <<"{", "a", "b">>, <<"=", "b", "c">>, <<"b", "c", "=">>}
MCObjects == {Registers, Fails, Small, Keyed, Holds, Long}
MCCanonical(obj) == FlattenSeq([i \in DOMAIN obj |-> obj[i].raw \o obj[i].text])
MCRendered(obj, outs) == FlattenSeq([i \in DOMAIN outs |-> obj[i].raw \o outs[i]])
\* The pattern asks for the mark in front of the credential.
MCDetected(text) == IF text = <<"=", "b", "c">> THEN <<"b", "c">> ELSE <<>>
MCMalformed == {<<"!">>}
=============================================================================
