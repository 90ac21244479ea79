------------------------- MODULE MCResponseRestorer -------------------------
(* Every body of bounded length over the bytes of two placeholders of        *)
(* different lengths that share a prefix, cut in every way.                  *)
EXTENDS ResponseRestorer

CONSTANT MaxBodyLen

MCPatterns == {<<"{", "x", "}">>, <<"{", "x", "x", "}">>}
\* A secret that is longer than its placeholder, and one whose symbols could be scanned again.
MCSecretOf(p) == IF Len(p) = 3 THEN <<"{", "x">> ELSE <<"S", "E", "C", "R", "T">>
MCSources == BoundedSeq(Byte, MaxBodyLen)
=============================================================================
