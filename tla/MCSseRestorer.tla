---------------------------- MODULE MCSseRestorer ----------------------------
(* Every stream of up to three events, in two text fields and untouched ones, *)
(* whose texts are fragments of two placeholders that share a prefix.         *)
EXTENDS SseRestorer

CONSTANT MaxEvents

MCPatterns == {<<"{", "{", "x", "}">>, <<"{", "{", "x", "x", "}">>}
MCSecretOf(p) == IF Len(p) = 4 THEN <<"SHORT">> ELSE <<"LONG">>
MCStreams ==
    BoundedSeq([field: {"delta", "thinking"}, text: BoundedSeq(Byte, 2)]
               \cup {[field |-> "id", text |-> <<"x">>]}, MaxEvents)
=============================================================================
