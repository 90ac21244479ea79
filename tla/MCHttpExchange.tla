--------------------------- MODULE MCHttpExchange ---------------------------
(***************************************************************************)
(* Requests and responses of every framing.  Chunks that cut a placeholder,*)
(* hold back all they bring, carry line ends and what looks like the last  *)
(* chunk; a size line with an extension, trailers, and two chunked bodies  *)
(* that are malformed.                                                     *)
(***************************************************************************)
EXTENDS HttpExchange

CONSTANTS Open, X, Close, S, Semicolon

MCByte == {Open, X, Close, S, Semicolon, 0, 1, 2, 3, 5, Cr, Lf}
MCPatterns == {<<Open, X, Close>>}
MCSecretOf(p) == <<S, X, S, X, S>>

Plain == [bodiless |-> FALSE, length |-> NoLength, chunked |-> FALSE,
          media |-> "redactable", encoded |-> FALSE, accepts |-> FALSE]
Message(head, wire) == [head |-> head, wire |-> wire]
WithLength(head, wire) == Message([head EXCEPT !.length = Len(wire)], wire)
Chunked(head, wire) == Message([head EXCEPT !.chunked = TRUE], wire)

Accepting == [Plain EXCEPT !.accepts = TRUE]
Secret == <<S, X>>
MCSanitizedBody(body) == IF body = Secret THEN <<Open, X, Close, X>> ELSE body
MCRefusedBodies == {<<Close>>}

MCRequests ==
    {Message([Accepting EXCEPT !.bodiless = TRUE], <<>>),
     Message(Accepting, <<>>),
     WithLength(Plain, Secret), WithLength(Accepting, <<X>>), WithLength(Plain, <<Close>>),
     WithLength([Accepting EXCEPT !.media = "other"], Secret),
     Chunked(Plain, <<2, Cr, Lf>> \o Secret \o <<Cr, Lf>> \o LastChunk)}

Cut == <<3, Semicolon, Cr, Lf, X, Open, X, Cr, Lf, 1, Cr, Lf, Close, Cr, Lf>>
Lines == <<5, Cr, Lf, 0, Cr, Lf, Cr, Lf, Cr, Lf>>
Trailers == <<0, Cr, Lf, X, Cr, Lf, Cr, Lf>>

MCResponses ==
    {Message([Plain EXCEPT !.bodiless = TRUE, !.length = 3], <<>>),
     WithLength([Plain EXCEPT !.encoded = TRUE], <<X, X>>),
     WithLength(Plain, <<X, Open, X, Close, X>>),
     WithLength([Plain EXCEPT !.media = "other"], <<Open, X, Close>>),
     Message(Plain, <<Open, X, Close>>),
     Chunked(Plain, Cut \o LastChunk), Chunked(Plain, Lines \o Trailers),
     Chunked(Plain, <<1, Cr, Lf, X, X, Cr, Lf>> \o LastChunk),
     Chunked(Plain, <<1, Cr, Lf, Open, Cr, Lf, X, Cr, Lf>>),
     Chunked([Plain EXCEPT !.encoded = TRUE], <<1, Cr, Lf, X, Cr, Lf>> \o LastChunk)}
=============================================================================
