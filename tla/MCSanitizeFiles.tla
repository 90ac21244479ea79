--------------------------- MODULE MCSanitizeFiles ---------------------------
(***************************************************************************)
(* A text, a database and a binary file; a discovered secret and one that  *)
(* only the database marks, in a row behind one that also holds it.  The   *)
(* database may be malformed.  One walk reaches the text twice.            *)
(***************************************************************************)
EXTENDS SanitizeFiles, TLC

CONSTANTS text, database, binary, k, m, d1, d2

MCKindOf(f) ==
    CASE f = text -> "text" [] f = database -> "sqlite" [] f = binary -> "binary"

Spells(plain, marked) ==
    [plain |-> plain, marked |-> marked, replaced |-> {}, malformed |-> FALSE]
Malformed == [Spells({m}, {}) EXCEPT !.malformed = TRUE]

MCInitialFiles ==
    {(text :> <<Spells({k, m}, {})>> @@ database :> rows
        @@ binary :> <<Spells({k}, {m})>>) :
        rows \in {<<Spells({m}, {}), Spells({}, {m})>>, <<Spells({}, {m}), Malformed>>}}
MCLines == {Spells({k}, {})}
MCConfigs ==
    {[write |-> FALSE, strict |-> FALSE, dir |-> d1],
     [write |-> TRUE, strict |-> FALSE, dir |-> d1],
     [write |-> TRUE, strict |-> TRUE, dir |-> d2]}
MCWalks == {<<text, database, binary>>, <<text, database, text>>, <<database, text>>}
=============================================================================
