-------------------------- MODULE GatewayExchanges --------------------------
(***************************************************************************)
(* All requests of the gateway at once (src/src/gateway/server.rs): one    *)
(* handler each, sharing the sanitizer behind a mutex and the registry     *)
(* behind a read-write lock, as in ProxyExchanges.  Here a guard may       *)
(* outlive the call that took it: a streamed request body owns the         *)
(* registry's write lock until it has been sent, and takes the sanitizer   *)
(* for every chunk; a response owns a read lock until its last chunk.      *)
(*                                                                         *)
(* What a text says is the set of secrets it spells, or whose placeholders *)
(* it spells.  The locks are tokio's: first come, first served; a handler  *)
(* or a body that is dropped leaves its queue and drops its guards.  A     *)
(* section without an await between lock and unlock is one step.           *)
(***************************************************************************)
EXTENDS Naturals, Sequences

CONSTANTS
    Clients,        \* connections of the agent; one request at a time each
    Secrets,
    Detectable,     \* secrets a pattern registers when a body spells them
    NoClient

Kind == [body: {"other", "whole", "streamed"}, observed: BOOLEAN]

ASSUME GatewayAssumption == Detectable \subseteq Secrets /\ NoClient \notin Clients

VARIABLES
    configured,     \* whether the gateway has a credential of its own for the provider
    request,        \* the kind of the request in hand
    pc,             \* where the handler of each connection stands
    feed,           \* the streamed body of its request: "none", "open", "waiting"
    text,           \* what a whole body spells
    snapshot,       \* what the restorer of a response was built from
    known,          \* registered secrets
    sent,           \* secrets whose placeholder upstream has been sent
    raw,            \* placeholders that reached a client as they were
    holder,         \* who holds the sanitizer
    sanitizerQueue, \* who waits for it
    writer,         \* whose body holds the registry's write lock
    readers,        \* whose responses hold its read lock
    registryQueue   \* who waits for the registry: [who, mode]

vars == <<configured, request, pc, feed, text, snapshot, known, sent, raw,
          holder, sanitizerQueue, writer, readers, registryQueue>>

Waiting == {"register", "sanitizer", "sanitize", "peek", "own", "attach", "restore"}
Places == Waiting \cup {"idle", "body", "ready", "send", "stream"}

Init ==
    /\ configured \in BOOLEAN
    /\ request = [c \in Clients |-> [body |-> "other", observed |-> FALSE]]
    /\ pc = [c \in Clients |-> "idle"]
    /\ feed = [c \in Clients |-> "none"]
    /\ text = [c \in Clients |-> {}]
    /\ snapshot = [c \in Clients |-> {}]
    /\ known \in SUBSET Secrets
    /\ sent = {}
    /\ raw = {}
    /\ holder = NoClient
    /\ sanitizerQueue = <<>>
    /\ writer = NoClient
    /\ readers = {}
    /\ registryQueue = <<>>

-----------------------------------------------------------------------------
\* The locks.

GoTo(c, place) == pc' = [pc EXCEPT ![c] = place]

JoinRegistry(c, mode) == registryQueue' = Append(registryQueue, [who |-> c, mode |-> mode])

JoinSanitizer(c) == sanitizerQueue' = Append(sanitizerQueue, c)

\* c is at the head of the registry's queue, and the lock admits it.
Admits(c, mode) ==
    /\ registryQueue # <<>>
    /\ Head(registryQueue) = [who |-> c, mode |-> mode]
    /\ writer = NoClient
    /\ mode = "write" => readers = {}
    /\ registryQueue' = Tail(registryQueue)

\* c is at the head of the sanitizer's queue, and nobody holds it.
AdmitsToSanitizer(c) ==
    /\ holder = NoClient
    /\ sanitizerQueue # <<>> /\ Head(sanitizerQueue) = c
    /\ sanitizerQueue' = Tail(sanitizerQueue)

-----------------------------------------------------------------------------
\* The head of a request, and the credential in it.

Receive(c) ==
    /\ pc[c] = "idle" /\ feed[c] = "none"
    /\ \E kind \in Kind :
        /\ request' = [request EXCEPT ![c] = kind]
        /\ GoTo(c, IF kind.observed THEN "register" ELSE "body")
        /\ IF kind.observed THEN JoinRegistry(c, "write") ELSE UNCHANGED registryQueue
    /\ UNCHANGED <<configured, feed, text, snapshot, known, sent, raw,
                   holder, sanitizerQueue, writer, readers>>

\* register_observed_auth_header: the guard lives as long as the statement.
RegisterHeader(c) ==
    /\ pc[c] = "register"
    /\ Admits(c, "write")
    /\ \E secret \in Secrets : known' = known \cup {secret}
    /\ GoTo(c, "body")
    /\ UNCHANGED <<configured, request, feed, text, snapshot, sent, raw,
                   holder, sanitizerQueue, writer, readers>>

-----------------------------------------------------------------------------
\* A body that is not JSON is passed through; a short one is sanitized whole.

PassBody(c) ==
    /\ pc[c] = "body" /\ request[c].body = "other"
    /\ GoTo(c, "ready")
    /\ UNCHANGED <<configured, request, feed, text, snapshot, known, sent, raw,
                   holder, sanitizerQueue, writer, readers, registryQueue>>

ReadWhole(c) ==
    /\ pc[c] = "body" /\ request[c].body = "whole"
    /\ \E secrets \in SUBSET Secrets : text' = [text EXCEPT ![c] = secrets]
    /\ JoinSanitizer(c)
    /\ GoTo(c, "sanitizer")
    /\ UNCHANGED <<configured, request, feed, snapshot, known, sent, raw,
                   holder, writer, readers, registryQueue>>

LockSanitizer(c) ==
    /\ pc[c] = "sanitizer"
    /\ AdmitsToSanitizer(c)
    /\ holder' = c
    /\ JoinRegistry(c, "write")
    /\ GoTo(c, "sanitize")
    /\ UNCHANGED <<configured, request, feed, text, snapshot, known, sent, raw, writer, readers>>

\* Sanitized and recorded; both guards are dropped.
SanitizeWhole(c) ==
    /\ pc[c] = "sanitize"
    /\ Admits(c, "write")
    /\ known' = known \cup (text[c] \cap Detectable)
    /\ text' = [text EXCEPT ![c] = @ \cap known']
    /\ holder' = NoClient
    /\ GoTo(c, "ready")
    /\ UNCHANGED <<configured, request, feed, snapshot, sent, raw,
                   sanitizerQueue, writer, readers>>

\* A malformed body is answered with an error; what was found in front of the error stays.
FailWhole(c) ==
    /\ pc[c] = "sanitize"
    /\ Admits(c, "write")
    /\ \E found \in SUBSET (text[c] \cap Detectable) : known' = known \cup found
    /\ text' = [text EXCEPT ![c] = {}]
    /\ holder' = NoClient
    /\ GoTo(c, "idle")
    /\ UNCHANGED <<configured, request, feed, snapshot, sent, raw,
                   sanitizerQueue, writer, readers>>

-----------------------------------------------------------------------------
\* A long body, or one of unknown length, is sanitized while it is being sent.

QueueForPeek(c) ==
    /\ pc[c] = "body" /\ request[c].body = "streamed"
    /\ JoinSanitizer(c)
    /\ GoTo(c, "peek")
    /\ UNCHANGED <<configured, request, feed, text, snapshot, known, sent, raw,
                   holder, writer, readers, registryQueue>>

\* The sanitizer is asked for a streaming state and let go.
Peek(c) ==
    /\ pc[c] = "peek"
    /\ AdmitsToSanitizer(c)
    /\ JoinRegistry(c, "write")
    /\ GoTo(c, "own")
    /\ UNCHANGED <<configured, request, feed, text, snapshot, known, sent, raw,
                   holder, writer, readers>>

\* The write guard moves into the body.
OpenBody(c) ==
    /\ pc[c] = "own"
    /\ Admits(c, "write")
    /\ writer' = c
    /\ feed' = [feed EXCEPT ![c] = "open"]
    /\ GoTo(c, "ready")
    /\ UNCHANGED <<configured, request, text, snapshot, known, sent, raw,
                   holder, sanitizerQueue, readers>>

\* The connection to upstream polls the body, once the request is being sent; the agent's
\* next chunk, or the end of its body, is there.
PollBody(c) ==
    /\ pc[c] \notin {"ready", "attach"}
    /\ feed[c] = "open"
    /\ feed' = [feed EXCEPT ![c] = "waiting"]
    /\ JoinSanitizer(c)
    /\ UNCHANGED <<configured, request, pc, text, snapshot, known, sent, raw,
                   holder, writer, readers, registryQueue>>

PushChunk(c) ==
    /\ feed[c] = "waiting"
    /\ AdmitsToSanitizer(c)
    /\ \E secrets \in SUBSET Secrets :
        /\ known' = known \cup (secrets \cap Detectable)
        /\ sent' = sent \cup (secrets \cap known')
    /\ feed' = [feed EXCEPT ![c] = "open"]
    /\ UNCHANGED <<configured, request, pc, text, snapshot, raw,
                   holder, writer, readers, registryQueue>>

CloseBody(c) ==
    /\ feed' = [feed EXCEPT ![c] = "none"]
    /\ writer' = NoClient

\* Mutant of EndBody: the guard is handed back with the stream's state.
EndBodyKeepingGuard(c) ==
    /\ feed[c] = "waiting"
    /\ AdmitsToSanitizer(c)
    /\ feed' = [feed EXCEPT ![c] = "none"]
    /\ UNCHANGED <<configured, request, pc, text, snapshot, known, sent, raw,
                   holder, writer, readers, registryQueue>>

\* finish_stream; the tail is empty, and the stream with its guard is dropped.
EndBody(c) ==
    /\ feed[c] = "waiting"
    /\ AdmitsToSanitizer(c)
    /\ CloseBody(c)
    /\ UNCHANGED <<configured, request, pc, text, snapshot, known, sent, raw,
                   holder, readers, registryQueue>>

\* A malformed chunk ends the body with an error, and with it a request not yet answered.
FailBody(c) ==
    /\ feed[c] = "waiting"
    /\ AdmitsToSanitizer(c)
    /\ \E found \in SUBSET Detectable : known' = known \cup found
    /\ CloseBody(c)
    /\ GoTo(c, IF pc[c] = "send" THEN "idle" ELSE pc[c])
    /\ UNCHANGED <<configured, request, text, snapshot, sent, raw,
                   holder, readers, registryQueue>>

-----------------------------------------------------------------------------
\* The credential is attached under a read lock of its own, and the request sent.

NeedsAuth(c) == configured \/ request[c].observed

QueueForAuth(c) ==
    /\ pc[c] = "ready" /\ NeedsAuth(c)
    /\ JoinRegistry(c, "read")
    /\ GoTo(c, "attach")
    /\ UNCHANGED <<configured, request, feed, text, snapshot, known, sent, raw,
                   holder, sanitizerQueue, writer, readers>>

Send(c) ==
    /\ \/ /\ pc[c] = "ready" /\ ~NeedsAuth(c)
          /\ UNCHANGED registryQueue
       \/ /\ pc[c] = "attach"
          /\ Admits(c, "read")
    /\ sent' = sent \cup text[c]
    /\ text' = [text EXCEPT ![c] = {}]
    /\ GoTo(c, "send")
    /\ UNCHANGED <<configured, request, feed, snapshot, known, raw,
                   holder, sanitizerQueue, writer, readers>>

-----------------------------------------------------------------------------
\* The response.  Upstream keeps conversations: an answer may repeat any placeholder that
\* any request has sent, and may begin before the request's body has ended.

Respond(c) ==
    /\ pc[c] = "send"
    /\ JoinRegistry(c, "read")
    /\ GoTo(c, "restore")
    /\ UNCHANGED <<configured, request, feed, text, snapshot, known, sent, raw,
                   holder, sanitizerQueue, writer, readers>>

\* Mutant of BeginResponse: the guard is dropped when the restorer is built.
BeginResponseUnlocked(c) ==
    /\ pc[c] = "restore"
    /\ Admits(c, "read")
    /\ snapshot' = [snapshot EXCEPT ![c] = known]
    /\ GoTo(c, "stream")
    /\ UNCHANGED <<configured, request, feed, text, known, sent, raw,
                   holder, sanitizerQueue, writer, readers>>

BeginResponse(c) ==
    /\ pc[c] = "restore"
    /\ Admits(c, "read")
    /\ readers' = readers \cup {c}
    /\ snapshot' = [snapshot EXCEPT ![c] = known]
    /\ GoTo(c, "stream")
    /\ UNCHANGED <<configured, request, feed, text, known, sent, raw,
                   holder, sanitizerQueue, writer>>

RestoreChunk(c) ==
    /\ pc[c] = "stream"
    /\ \E secrets \in SUBSET sent : raw' = raw \cup (secrets \ snapshot[c])
    /\ UNCHANGED <<configured, request, pc, feed, text, snapshot, known, sent,
                   holder, sanitizerQueue, writer, readers, registryQueue>>

EndResponse(c) ==
    /\ pc[c] = "stream"
    /\ readers' = readers \ {c}
    /\ snapshot' = [snapshot EXCEPT ![c] = {}]
    /\ GoTo(c, "idle")
    /\ UNCHANGED <<configured, request, feed, text, known, sent, raw,
                   holder, sanitizerQueue, writer, registryQueue>>

-----------------------------------------------------------------------------

\* The agent or upstream goes away: the handler, the body and the response are dropped,
\* their guards with them, and the waits they were in are given up.
Drop(c) ==
    LET other(entry) == entry.who # c
        others(who) == who # c
    IN
    /\ pc[c] # "idle" \/ feed[c] # "none"
    /\ GoTo(c, "idle")
    /\ feed' = [feed EXCEPT ![c] = "none"]
    /\ text' = [text EXCEPT ![c] = {}]
    /\ snapshot' = [snapshot EXCEPT ![c] = {}]
    /\ holder' = IF holder = c THEN NoClient ELSE holder
    /\ sanitizerQueue' = SelectSeq(sanitizerQueue, others)
    /\ registryQueue' = SelectSeq(registryQueue, other)
    /\ writer' = IF writer = c THEN NoClient ELSE writer
    /\ readers' = readers \ {c}
    /\ UNCHANGED <<configured, request, known, sent, raw>>

Step(c) ==
    \/ Receive(c) \/ RegisterHeader(c)
    \/ PassBody(c) \/ ReadWhole(c) \/ LockSanitizer(c) \/ SanitizeWhole(c) \/ FailWhole(c)
    \/ QueueForPeek(c) \/ Peek(c) \/ OpenBody(c)
    \/ PollBody(c) \/ PushChunk(c) \/ EndBody(c) \/ FailBody(c)
    \/ QueueForAuth(c) \/ Send(c)
    \/ Respond(c) \/ BeginResponse(c) \/ RestoreChunk(c) \/ EndResponse(c)
    \/ Drop(c)

Next == \E c \in Clients : Step(c)

Spec == Init /\ [][Next]_vars

\* A task that was woken with its lock is polled and runs to its next await; every body of
\* a request and every response comes to its end.
Fairness ==
    \A c \in Clients :
        /\ WF_vars(RegisterHeader(c))
        /\ WF_vars(LockSanitizer(c))
        /\ WF_vars(SanitizeWhole(c) \/ FailWhole(c))
        /\ WF_vars(Peek(c))
        /\ WF_vars(OpenBody(c))
        /\ WF_vars(QueueForAuth(c) \/ Send(c))
        /\ WF_vars(PollBody(c))
        /\ WF_vars(PushChunk(c) \/ EndBody(c) \/ FailBody(c))
        /\ SF_vars(EndBody(c) \/ FailBody(c))
        /\ WF_vars(BeginResponse(c))
        /\ WF_vars(EndResponse(c))

FairSpec == Spec /\ Fairness

-----------------------------------------------------------------------------

\* The type of each variable, and which places hold which lock.
TypeOK ==
    /\ configured \in BOOLEAN
    /\ request \in [Clients -> Kind]
    /\ pc \in [Clients -> Places]
    /\ feed \in [Clients -> {"none", "open", "waiting"}]
    /\ text \in [Clients -> SUBSET Secrets] /\ snapshot \in [Clients -> SUBSET Secrets]
    /\ known \subseteq Secrets /\ sent \subseteq Secrets /\ raw \subseteq Secrets
    /\ holder \in Clients \cup {NoClient} /\ writer \in Clients \cup {NoClient}
    /\ \A c \in Clients : holder = c <=> pc[c] = "sanitize"
    /\ \A c \in Clients : writer = c <=> feed[c] # "none"
    /\ readers = {c \in Clients : pc[c] = "stream"}
    /\ sanitizerQueue \in Seq(Clients)
    /\ registryQueue \in Seq([who: Clients, mode: {"read", "write"}])

\* Whatever placeholder upstream repeats, the restorer of the response knows it: neither a
\* body that is still being sent nor another request's credential gets past the guards.
NoPlaceholderReachesAClient == raw = {}

\* The two ways in which guards that outlive their calls wait for one another: a handler
\* wants to read the registry that its own streamed body owns, or a streamed body wants the
\* sanitizer from a handler that waits for the registry the body owns.
OwnBodyCircle(c) == writer = c /\ pc[c] = "attach"
SanitizerCircle(c) == writer = c /\ feed[c] = "waiting" /\ holder # NoClient
Circle == \E c \in Clients : OwnBodyCircle(c) \/ SanitizerCircle(c)

\* A handler or a body that waits for a lock gets it, whatever the other requests do, unless
\* one of the two circles closes: there is no third.
WaitersAreServedOrCircle ==
    \A c \in Clients :
        /\ pc[c] \in Waiting ~> pc[c] \notin Waiting \/ Circle
        /\ feed[c] = "waiting" ~> feed[c] # "waiting" \/ Circle

\* A streamed body reaches upstream while the agent is still sending it: once opened, it is
\* polled, or the request is over (tests/gateway_roundtrip.rs:1110 and its message at 1163).
StreamsReachUpstream == \A c \in Clients : feed[c] = "open" ~> feed[c] # "open"
=============================================================================
