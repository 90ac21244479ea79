------------------------------- MODULE MCSpans -------------------------------
(* The registry after every order of ingestion, each secret under either of two   *)
(* labels, and the scanner over every text of bounded length.                     *)
EXTENDS Scanner

CONSTANT MaxTextLen

\* Secrets that overlap one another and themselves, two of one length.
MCSecrets == {<<"a", "b">>, <<"b", "b">>, <<"b", "a", "a", "b">>}
MCPlaceholderOf(label, secret) == "<<" \o label \o ":" \o FlattenSeq(secret) \o ">>"
\* A prefilter with collisions: windows of one length and last byte share a bucket, and
\* so do two of the secrets.
MCPrefilter(bytes) == Last(bytes)
MCTexts == BoundedSeq(Byte, MaxTextLen)
=============================================================================
