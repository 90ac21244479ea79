--------------------------- MODULE RestoredStream ---------------------------
(***************************************************************************)
(* What a restored response stream promises its reader, however the bytes  *)
(* arrive: pieces of the restored body, in order, and all of it when the   *)
(* stream ends in good order.                                              *)
(***************************************************************************)
EXTENDS Naturals, SequencesExt

VARIABLES
    whole,          \* the body, restored in one piece
    emitted,        \* what the reader has got
    state           \* "open", "ended" or "broken"

vars == <<whole, emitted, state>>

Init == emitted = <<>> /\ state = "open"

Emit ==
    /\ state = "open"
    /\ \E n \in Len(emitted) .. Len(whole) : emitted' = SubSeq(whole, 1, n)
    /\ UNCHANGED <<whole, state>>

End ==
    /\ state = "open"
    /\ emitted' = whole
    /\ state' = "ended"
    /\ UNCHANGED whole

Break ==
    /\ state = "open"
    /\ state' = "broken"
    /\ UNCHANGED <<whole, emitted>>

Next == Emit \/ End \/ Break

Spec == Init /\ [][Next]_vars
=============================================================================
