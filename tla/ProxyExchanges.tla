--------------------------- MODULE ProxyExchanges ---------------------------
(***************************************************************************)
(* All connections of the proxy at once (src/src/proxy/server.rs and       *)
(* websocket.rs): one task each, sharing the sanitizer behind a mutex and  *)
(* the registry behind a read-write lock.  A request's text is redacted    *)
(* under both locks; a response in one piece, and a websocket message, is  *)
(* restored under a read lock taken for it; a chunked response holds its   *)
(* read lock from its first chunk to its last.                             *)
(*                                                                         *)
(* What a text says is the set of secrets it spells, or whose placeholders *)
(* it spells; how they are found, replaced and put back is in the modules  *)
(* about that.  The locks are tokio's: first come, first served, readers   *)
(* included.  A section without an await between lock and unlock is one    *)
(* step.                                                                   *)
(***************************************************************************)
EXTENDS Naturals, Sequences

CONSTANTS
    Clients,        \* connections; one that is over may be followed by another
    Secrets,
    Detectable,     \* secrets a pattern registers when a request spells them
    NoClient

ASSUME ExchangeAssumption == Detectable \subseteq Secrets /\ NoClient \notin Clients

VARIABLES
    pc,             \* where the task of each connection stands
    relaying,       \* connections upgraded to a websocket
    text,           \* what the text in hand spells
    snapshot,       \* what the restorer of a chunked response was built from
    known,          \* registered secrets
    sent,           \* secrets whose placeholder upstream has been sent
    raw,            \* placeholders that reached a client as they were
    holder,         \* who holds the sanitizer
    sanitizerQueue, \* who waits for it
    readers,        \* who holds the registry's read lock
    registryQueue   \* who waits for the registry: [who, mode]

vars == <<pc, relaying, text, snapshot, known, sent, raw,
          holder, sanitizerQueue, readers, registryQueue>>

Waiting == {"sanitizer", "write", "restore", "begin"}
Places == Waiting \cup {"idle", "forward", "head", "stream", "relay"}

Init ==
    /\ pc = [c \in Clients |-> "idle"]
    /\ relaying = {}
    /\ text = [c \in Clients |-> {}]
    /\ snapshot = [c \in Clients |-> {}]
    /\ known \in SUBSET Secrets
    /\ sent = {}
    /\ raw = {}
    /\ holder = NoClient
    /\ sanitizerQueue = <<>>
    /\ readers = {}
    /\ registryQueue = <<>>

-----------------------------------------------------------------------------
\* The locks.

JoinRegistry(c, mode) == registryQueue' = Append(registryQueue, [who |-> c, mode |-> mode])

\* Mutant of Admits: readers do not queue behind a writer.
AdmitsReadersFirst(c, mode) ==
    LET other(entry) == entry.who # c
    IN
    /\ \E i \in DOMAIN registryQueue :
            registryQueue[i] = [who |-> c, mode |-> mode] /\ (mode = "write" => i = 1)
    /\ mode = "write" => readers = {}
    /\ registryQueue' = SelectSeq(registryQueue, other)

\* c is at the head of the registry's queue, and the lock admits it.  No writer holds the
\* lock between two steps, so only readers can be in the way, and only of a writer.
Admits(c, mode) ==
    /\ registryQueue # <<>>
    /\ Head(registryQueue) = [who |-> c, mode |-> mode]
    /\ mode = "write" => readers = {}
    /\ registryQueue' = Tail(registryQueue)

GoTo(c, place) == pc' = [pc EXCEPT ![c] = place]
Say(c, secrets) == text' = [text EXCEPT ![c] = secrets]

\* Where the task goes when a text is done with: a websocket has another one.
NextText(c) == IF c \in relaying THEN "relay" ELSE "idle"

-----------------------------------------------------------------------------
\* From the client to upstream.

\* A websocket connection is upgraded; its messages then come one at a time.
Upgrade(c) ==
    /\ pc[c] = "idle"
    /\ GoTo(c, "relay")
    /\ relaying' = relaying \cup {c}
    /\ UNCHANGED <<text, snapshot, known, sent, raw,
                   holder, sanitizerQueue, readers, registryQueue>>

\* A request with a body that is redacted, or a text message of the client.
ReceiveText(c) ==
    /\ pc[c] \in {"idle", "relay"}
    /\ \E secrets \in SUBSET Secrets : Say(c, secrets)
    /\ GoTo(c, "sanitizer")
    /\ sanitizerQueue' = Append(sanitizerQueue, c)
    /\ UNCHANGED <<relaying, snapshot, known, sent, raw, holder, readers, registryQueue>>

\* A request without a body, or with one that is passed on as it is.
ReceiveOther(c) ==
    /\ pc[c] = "idle"
    /\ GoTo(c, "forward")
    /\ UNCHANGED <<relaying, text, snapshot, known, sent, raw,
                   holder, sanitizerQueue, readers, registryQueue>>

\* The sanitizer is locked, and stays so while the task waits for the registry.
LockSanitizer(c) ==
    /\ pc[c] = "sanitizer"
    /\ holder = NoClient
    /\ sanitizerQueue # <<>> /\ Head(sanitizerQueue) = c
    /\ holder' = c
    /\ sanitizerQueue' = Tail(sanitizerQueue)
    /\ JoinRegistry(c, "write")
    /\ GoTo(c, "write")
    /\ UNCHANGED <<relaying, text, snapshot, known, sent, raw, readers>>

\* Patterns register what they find, and every secret known by then becomes its placeholder;
\* both locks are released.
Sanitize(c) ==
    /\ pc[c] = "write"
    /\ Admits(c, "write")
    /\ known' = known \cup (text[c] \cap Detectable)
    /\ Say(c, text[c] \cap known')
    /\ GoTo(c, "forward")
    /\ holder' = NoClient
    /\ UNCHANGED <<relaying, snapshot, sent, raw, sanitizerQueue, readers>>

\* Mutant of FailToSanitize: the sanitizer stays locked.
FailAndKeepLock(c) ==
    /\ pc[c] = "write"
    /\ Admits(c, "write")
    /\ \E found \in SUBSET (text[c] \cap Detectable) : known' = known \cup found
    /\ Say(c, {})
    /\ GoTo(c, "idle")
    /\ relaying' = relaying \ {c}
    /\ UNCHANGED <<snapshot, sent, raw, holder, sanitizerQueue, readers>>

\* A body is malformed; the secrets found in front of the error stay registered.
FailToSanitize(c) ==
    /\ pc[c] = "write"
    /\ Admits(c, "write")
    /\ \E found \in SUBSET (text[c] \cap Detectable) : known' = known \cup found
    /\ Say(c, {})
    /\ GoTo(c, "idle")
    /\ relaying' = relaying \ {c}
    /\ holder' = NoClient
    /\ UNCHANGED <<snapshot, sent, raw, sanitizerQueue, readers>>

Forward(c) ==
    /\ pc[c] = "forward"
    /\ sent' = sent \cup text[c]
    /\ Say(c, {})
    /\ GoTo(c, IF c \in relaying THEN "relay" ELSE "head")
    /\ UNCHANGED <<relaying, snapshot, known, raw,
                   holder, sanitizerQueue, readers, registryQueue>>

-----------------------------------------------------------------------------
\* From upstream to the client.  Upstream keeps conversations: an answer may repeat any
\* placeholder that any connection has sent.

\* A response without a body, or with one that is not restored.
AnswerOther(c) ==
    /\ pc[c] = "head"
    /\ GoTo(c, "idle")
    /\ UNCHANGED <<relaying, text, snapshot, known, sent, raw,
                   holder, sanitizerQueue, readers, registryQueue>>

\* A response has been read to its end, or a message of upstream: it is restored in one piece.
AnswerWhole(c) ==
    /\ pc[c] \in {"head", "relay"}
    /\ \E secrets \in SUBSET sent : Say(c, secrets)
    /\ JoinRegistry(c, "read")
    /\ GoTo(c, "restore")
    /\ UNCHANGED <<relaying, snapshot, known, sent, raw, holder, sanitizerQueue, readers>>

\* The restorer is built from the registry as it is now (restore_upstream_text keeps the one
\* it has while the version stands still), used, and the lock released.
RestoreWhole(c) ==
    /\ pc[c] = "restore"
    /\ Admits(c, "read")
    /\ raw' = raw \cup (text[c] \ known)
    /\ Say(c, {})
    /\ GoTo(c, NextText(c))
    /\ UNCHANGED <<relaying, snapshot, known, sent, holder, sanitizerQueue, readers>>

\* The head of a chunked response has been passed on; its chunks wait for the lock.
AnswerChunked(c) ==
    /\ pc[c] = "head"
    /\ JoinRegistry(c, "read")
    /\ GoTo(c, "begin")
    /\ UNCHANGED <<relaying, text, snapshot, known, sent, raw,
                   holder, sanitizerQueue, readers>>

\* The restorer of a chunked response is built, and the lock kept.  The mutant lets it go.
BeginStreamUnlocked(c) ==
    /\ pc[c] = "begin"
    /\ Admits(c, "read")
    /\ snapshot' = [snapshot EXCEPT ![c] = known]
    /\ GoTo(c, "stream")
    /\ UNCHANGED <<relaying, text, known, sent, raw, holder, sanitizerQueue, readers>>

BeginStream(c) ==
    /\ pc[c] = "begin"
    /\ Admits(c, "read")
    /\ readers' = readers \cup {c}
    /\ snapshot' = [snapshot EXCEPT ![c] = known]
    /\ GoTo(c, "stream")
    /\ UNCHANGED <<relaying, text, known, sent, raw, holder, sanitizerQueue>>

Chunk(c) ==
    /\ pc[c] = "stream"
    /\ \E secrets \in SUBSET sent : raw' = raw \cup (secrets \ snapshot[c])
    /\ UNCHANGED <<pc, relaying, text, snapshot, known, sent,
                   holder, sanitizerQueue, readers, registryQueue>>

\* The last chunk, or a connection that fails: the task returns and its guard is dropped.
EndStream(c) ==
    /\ pc[c] = "stream"
    /\ readers' = readers \ {c}
    /\ snapshot' = [snapshot EXCEPT ![c] = {}]
    /\ GoTo(c, "idle")
    /\ UNCHANGED <<relaying, text, known, sent, raw, holder, sanitizerQueue, registryQueue>>

\* A side closes or fails while the task waits for neither lock.
Disconnect(c) ==
    /\ pc[c] \in {"forward", "head", "relay"}
    /\ GoTo(c, "idle")
    /\ Say(c, {})
    /\ relaying' = relaying \ {c}
    /\ UNCHANGED <<snapshot, known, sent, raw,
                   holder, sanitizerQueue, readers, registryQueue>>

Step(c) ==
    \/ Upgrade(c) \/ ReceiveText(c) \/ ReceiveOther(c)
    \/ LockSanitizer(c) \/ Sanitize(c) \/ FailToSanitize(c) \/ Forward(c)
    \/ AnswerOther(c) \/ AnswerWhole(c) \/ RestoreWhole(c)
    \/ AnswerChunked(c) \/ BeginStream(c) \/ Chunk(c) \/ EndStream(c)
    \/ Disconnect(c)

Next == \E c \in Clients : Step(c)

Spec == Init /\ [][Next]_vars

\* The runtime polls a task that was woken with its lock; every chunked response ends.
Fairness ==
    \A c \in Clients :
        /\ WF_vars(LockSanitizer(c))
        /\ WF_vars(Sanitize(c) \/ FailToSanitize(c))
        /\ WF_vars(RestoreWhole(c))
        /\ WF_vars(BeginStream(c))
        /\ WF_vars(EndStream(c))

FairSpec == Spec /\ Fairness

-----------------------------------------------------------------------------

\* The type of each variable, and which places hold which lock.
TypeOK ==
    /\ pc \in [Clients -> Places]
    /\ relaying \subseteq Clients
    /\ text \in [Clients -> SUBSET Secrets] /\ snapshot \in [Clients -> SUBSET Secrets]
    /\ known \subseteq Secrets /\ sent \subseteq Secrets /\ raw \subseteq Secrets
    /\ \A c \in Clients : holder = c <=> pc[c] = "write"
    /\ holder \in Clients \cup {NoClient}
    /\ sanitizerQueue \in Seq(Clients)
    /\ readers = {c \in Clients : pc[c] = "stream"}
    /\ registryQueue \in Seq([who: Clients, mode: {"read", "write"}])

\* Whatever placeholder comes back from upstream, in any connection and at any time, the
\* restorer at work there knows it: what other connections register and send while a
\* response is under way cannot outrun the registry the response is restored with.
NoPlaceholderReachesAClient == raw = {}

\* A task that waits for a lock gets it, whatever the other connections do in the meantime:
\* no circle of waits, and no stream of readers that a writer never gets past.
WaitersAreServed ==
    \A c \in Clients : pc[c] \in Waiting ~> pc[c] \notin Waiting
=============================================================================
