-------------------------- MODULE MCWebSocketRelay --------------------------
(***************************************************************************)
(* Clients that send a text message in one frame or in fragments around a  *)
(* ping, then another, or a binary message in fragments; upstreams that    *)
(* send the pieces of a placeholder over messages and fragments.           *)
(***************************************************************************)
EXTENDS WebSocketRelay

Frame(op, fin, payload) == [op |-> op, fin |-> fin, payload |-> payload]
Ping == Frame("ping", TRUE, <<>>)
Close == Frame("close", TRUE, <<>>)

MCPatterns == {<<"{", "{", "x", "}">>}
MCSecretOf(p) == <<"SECRET">>
\* A payload that begins with a quote is JSON whose text is in no stream field.
MCStreamed(payload) == payload = <<>> \/ payload[1] # "q"
MCSanitized(payload) == <<"REDACTED">> \o payload
MCMalformed == {<<"!">>}
\* The client's "x" spells a secret, and so does the text that fails.
MCRegisters(payload, secret) ==
    payload # <<>> /\ payload[1] = (IF secret = "own" THEN "x" ELSE "!")

Fragments(payload, cut) ==
    <<Frame("text", FALSE, SubSeq(payload, 1, cut)),
      Frame("continuation", TRUE, SubSeq(payload, cut + 1, Len(payload)))>>

ClientSides ==
    {<<Frame("text", TRUE, <<"x">>), Close>>,
     <<Frame("text", FALSE, <<"x">>), Ping, Frame("continuation", FALSE, <<"}">>),
       Frame("continuation", TRUE, <<>>), Frame("text", TRUE, <<"q">>)>>,
     <<Frame("text", FALSE, <<"x">>), Frame("continuation", TRUE, <<"x">>),
       Frame("text", FALSE, <<"}">>), Frame("continuation", TRUE, <<"}">>)>>,
     <<Frame("binary", FALSE, <<"x">>), Frame("continuation", TRUE, <<"}">>),
       Frame("text", TRUE, <<"!">>)>>,
     <<Frame("text", FALSE, <<"x", "x">>), Frame("continuation", FALSE, <<"x", "x", "x">>),
       Frame("continuation", TRUE, <<"x">>)>>,
     <<Frame("reserved", TRUE, <<>>)>>}

UpstreamSides ==
    {<<Frame("text", TRUE, <<"x", "{", "{">>), Ping, Frame("text", TRUE, <<"x", "}">>)>>,
     <<Frame("text", TRUE, <<"{", "{", "x">>), Frame("text", TRUE, <<"q", "{", "{", "x", "}">>),
       Frame("text", TRUE, <<"}", "x">>)>>,
     <<Frame("text", TRUE, <<"{", "{", "x", "}">>), Close>>}
    \cup {Fragments(<<"{", "{", "x", "}">>, cut) \o Fragments(<<"x", "{", "{">>, 1) : cut \in 1 .. 3}

MCConversations == [client: ClientSides, upstream: UpstreamSides]
=============================================================================
