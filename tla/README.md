# Crebro, specified

TLA+ modules about [crebro](../src/README.md), a local credential broker: it sits between a
coding agent and its LLM provider, replaces registered secrets in requests by placeholders
(`{{CREBRO_SECRET:v1:<label>:s_<hex>}}`) and puts the secrets back in responses. The modules
are translated from the Rust code under `src/src/`; `PROJECT.json` maps each definition to the
lines it stands for. TLC checks every module on small instances (the `MC*` modules and
configurations), TLAPS proves the theorems of the `*Proofs` modules for every value of the
constants.

## The system

    child agent ── CONNECT ──> proxy (one task per connection)
                                 │ request text                  ▲ response text
                                 ▼                               │
                     sanitizer (mutex) ── cache            restorers (whole, chunked, SSE,
                                 │ ingest / scan             websocket)
                                 ▼                               │ placeholders
                     registry of secrets (read-write lock) ──────┘

| Part | State | Operations | What makes it correct |
|---|---|---|---|
| Registry (`secrets/registry.rs`) | entries, index by length and prefilter, index by placeholder, version | `ingest`, `candidates`, `verify_window`, `restore_to_vec` | one id per secret; indexes complete; append only; the version tells every change |
| Scanner, spans (`redact/scanner.rs`, `span.rs`) | none | scan, select longest, apply | no secret survives; longest match wins; reversible |
| Redaction cache (`redact/cache.rs`) | entries by key, recency order, registry version | string, long string (window by window), object closure, insert, evict, flush | it cannot be seen in the results; bounded; fresh after every registration |
| JSON sanitizer (`redact/json_sanitizer.rs`, `directive.rs`) | the cache, the patterns; a state machine for streamed bodies | walk over a body, `<cb>` directives, pattern registration, guidance | every string leaf is redacted with what is registered by then |
| Restorers (`restore/`, `proxy/server.rs`, `proxy/websocket.rs`) | bytes held back, a placeholder matcher | push a chunk, an event, a message; finish | where the text is cut cannot be seen; nothing lost, doubled or reordered |
| Proxy (`proxy/server.rs`) | per connection: where it stands, lock guards | requests, responses (whole, chunked, SSE), websockets | no deadlock, no starvation; every placeholder upstream may repeat is known to the restorer at work |
| HTTP framing (`proxy/server.rs`) | a head, the bytes read and not yet used | read a head, a body, a chunk; rewrite a head; write a chunk | the other end reads the rewritten body whole; a cut-off answer looks cut off |
| Websocket relay (`proxy/websocket.rs`) | fragments of a message per side, a restorer | select over two readers, frame handlers | messages leave whole and rewritten, other frames unchanged |
| Gateway (`gateway/`) | as the proxy, over an HTTP server library; used by its tests | whole and streamed JSON bodies, auth headers, responses | no deadlock between a streamed body and its own request |
| Conversation sanitizer (`sanitize.rs`) | files, SQLite databases, backups, a report | rewrite with backup, report | a crash or a failure loses nothing; the report is true |
| Statistics (`stats.rs`) | a JSON file shared by processes | read, change, write | no update lost |
| Discovery, patterns | none | which values are credentials | precedence of sources |
| Capsules, buffers, CA, launcher, CLI | keys, child process | | see "Not modelled" |

The parts call one another under two locks. A request's text is redacted while the sanitizer's
mutex and then the registry's write lock are held; a response in one piece is restored under a
read lock taken for it; a chunked or SSE response holds a read lock from its first chunk to its
last; a websocket takes the locks message by message. What is hard: registrations between any two
steps of a response, texts cut anywhere, registrations inside a cached computation, a read
abandoned by `select!`, locks held across awaits. The list of hazards, each at its line and
with the properties that watch it, is in `PROJECT.json`.

## Modules

| Module | Models | State and actions |
|---|---|---|
| `SecretRegistry` | registry, placeholders, fingerprints | `registry` is the Rust struct; `Ingest` is `ingest`; `VerifiedIds` is `candidates` followed by `verify_window` |
| `Spans` | scanner, span algebra, window arithmetic of the chunked scan | operators, one for each function or for each line of the window computation |
| `Scanner` | one text, scanned whole and in chunks, while ingestions change the registry | `text` is a string token; the only step is `Ingest`; what the scan makes of the text is compared with what it should at every moment |
| `RedactionCache` | the cache as the sanitizer drives it | `cache` is the struct; an object closure (`object`) and a long string (`large`) are calls in progress, one step per loop turn; `PassThrough`, `BeginLarge`, `Hit`, `Miss` are the branches of `sanitize_string_detailed`, `ObjectHit`, `BeginObject`, `EndObject`, `FailObject` those of `sanitize_object_bytes` |
| `Restoration` | placeholder matcher, `process_until`, the fragment restorer | operators shared by the next three |
| `ResponseRestorer` | `restore/stream.rs` and the loops that drive it | `PushChunk(n)`, `Finish`, `UpstreamFails` |
| `RestoredStream` | what a restored stream promises its reader | the abstract specification that `ResponseRestorer` implements |
| `SseRestorer` | `SseStreamRestorer` | `PushEvent`, `FinishEvents`, `EventsBreakOff`; `lines` is what was sent, `phase` whether the response goes on |
| `WebSocketRelay` | `proxy/websocket.rs` | `ReadHeader` and `ReadFrame` are the two halves of `read_frame` inside `select!`; `Handle...` are the frame handlers; the client's own text registers secrets (`RewriteText`), and other connections do; a side is `lost` once select has dropped a read of it that had begun |
| `HttpExchange` | `forward_http` and what it calls: one request and its response as heads and bytes | `ReadRequest` to `RefuseRequest` are the request; `ReceiveHead` decides between the branches of the response; `ReadMore`, `PushHttpChunk`, `FinishChunks` and the failures are the chunk loop, around `Restoration`; `received` and `unused` are what has been read and the code's `pending`, `carry` the restorer's buffer |
| `JsonSanitizer` | `json_sanitizer.rs`, `directive.rs`, `field_policy.rs`: bodies, whole and streamed | `SanitizeJson` is `sanitize_json` (parse, walk, guidance); `BeginStream`, `PushStreamChunk`, `FinishStream` the streaming calls; `state` is `StreamingJsonState`; `SanitizedString` is a string's way through directives, patterns and the last scan |
| `ProxyExchanges` | all connections of `proxy/server.rs` with the two locks | one action per step between two awaits; tokio's locks, first come first served, are external |
| `GatewayExchanges` | all requests of `gateway/server.rs` with the two locks | `pc` is where the handler stands, `feed` where its streamed body does: the two wait separately; `Drop` is a handler or a body that is dropped |
| `SanitizeFiles` | `sanitize.rs`, run after run, and the agent whose files these are | `Refuse` and `Scan` end the reading of a file; `BeginCopy`, `CopyLine`, `EndCopy`, `CopyLog`, `WriteOutput`, `Replace` are the steps of the rewrite (of a database: the copies of the main file and of its log, and the transaction); `Crash` and `FailToRewrite` may come between any two; `AgentAppends`, `AgentUpdates` and `Checkpoint` are what the agent and SQLite do meanwhile |
| `StatsFile` | `stats.rs` in several processes | `Read`, `Truncate` and `Write` are one `record_sanitizer_report` |
| `SecretRegistryProofs`, `ScannerProofs`, `RedactionCacheProofs`, `RestorerProofs`, `ProxyExchangesProofs`, `GatewayExchangesProofs`, `FilesProofs` | | the theorems about the modules they are named after; `RestorerProofs` is about `ResponseRestorer`, `SseRestorer`, `WebSocketRelay` and `HttpExchange`, `FilesProofs` about `SanitizeFiles` and `StatsFile` |
| `SequenceLemmas` | | what several proofs need of sequences, maxima and natural numbers |

`Spans` extends `SecretRegistry`; `Scanner` and `RedactionCache` extend `Spans`: the scan of a text and the cache
run over the real scanner and the real registry. The restorers share `Restoration`. `ProxyExchanges` composes the connections
at the level of what a text says (a set of secrets), for how texts are found and replaced is the
other modules' subject; `GatewayExchanges` does the same for the gateway, whose guards
outlive the calls that took them. `JsonSanitizer` takes what `Spans` and `RedactionCache`
establish for granted: a scan replaces the longest occurrences, and the cache, being
transparent, is left out.

Operators whose comments call them mutants are plausible mistakes in the operator that follows.
No specification uses them; they show that a property would notice the mistake.

Positions count from 1, where the code counts from 0. A placeholder is one symbol where texts are
redacted (nothing looks inside it there) and a sequence of bytes where they are restored (where
it is cut is the point).

## Runs

| Run | Instance | Shows |
|---|---|---|
| `spans` (`MCSpans.cfg`) | 2 bytes, secrets `ab`, `bb`, `baab` under 2 labels, texts up to 8 bytes, chunks of 4 | registry and scanner, every order of ingestion, every text |
| `cache` (`MCRedactionCache.cfg`) | 2 secrets (one found by a pattern), 6 objects, 4 strings, 2 entries, chunks of 3 | the cache cannot be seen, evicts by recency, every call returns |
| `response` | 2 placeholders that share a prefix, every body up to 7 bytes, every cut | chunk cuts cannot be seen; `RestoredStream` is implemented |
| `sse` | 2 placeholders, up to 3 events, 2 text fields and an untouched one, fragments up to 2 bytes | text conserved, nothing but beginnings held, cuts behind the second byte or later restored |
| `websocket` | 6 client sides, 6 upstream sides, a secret that client text registers and one that others do, messages of at most 4 bytes | messages leave whole and sanitized, other frames pass, answers conserved from one registration to the next |
| `http` | 7 requests, 10 responses, reads of every size, broken off anywhere | the other end reads the rewritten body whole, and no answer that broke off as a whole one |
| `proxy` | 3 connections, 2 secrets | no placeholder unrestored, no waiter forgotten |
| `gateway` | 2 connections, 2 secrets, every kind of request | no placeholder unrestored; whoever waits for ever is in one of two circles |
| `gateway-streams` | 1 connection | **violated**: a streamed body with a credential to attach never reaches upstream |
| `json` | 22 bodies, 2 of them one after another, with and without 2 credential patterns, chunks of up to 3 symbols, cut off at every place | the streaming machine does what the walk does; nothing known leaves; what changes can be restored; guidance once |
| `files` | a text, a database, a binary file; 2 runs, 2 backup directories, 1 line or row written by the agent, checkpoints at any time | originals kept, lines kept, report true, files clean |
| `stats` | 2 processes, 3 placeholders, counts up to 3 | never too high, exact without overlap |

Why the bounds are enough. Spans: three secrets that overlap one another and themselves,
two in one prefilter bucket, lengths 2 and 4 against chunks of 4, so that windows reach into the
neighbouring chunks and beyond both ends; texts of eight bytes are two chunks.
Cache: two entries under more keys than that, so that every insertion may evict; texts below, at
and above the chunk size; an object that registers a secret its earlier string holds, one that
fails, one with a long text, one whose bytes are also a string and a window, one with a secret for a key whose bytes are a
string and a text of another object. Responses: bodies
twice as long as the shorter placeholder, all cuts. Proxy: a reader that holds the lock, a writer
that waits for it and a third task behind them is what queueing needs; one secret that a pattern
registers and one that it does not. Gateway: two connections, for the circles are between a
handler and a body of one connection or of two. JSON: each body is there for one thing
that can go wrong (see `MCJsonSanitizer`), the second body meets the registry that the first
one left, and chunks of one symbol cut everywhere; one pattern matches around placeholders, from a directive, from a scan
and from an earlier body. HTTP: every branch of `forward_http` has a message; the chunked bodies
cut a placeholder in the middle, hold back all a chunk brings, carry line ends and what looks like the last chunk, have
an extension and trailers, or are malformed, and every way of cutting them into reads is tried. Files: a database whose
second row marks what its first one holds; a walk that reaches a file twice and one that
reaches the mark first; a second run is enough to copy over a backup or to find an interrupted run's
remains. The instances' limits are the constants `MaxTextLen`,
`ChunkSize`, `MaxEntries`, `MaxBodyLen`, `MaxEvents`, `MaxText`, `Secrets`
(of `websocket`), `MaxBodies`, `MaxChunk`, `MaxRuns`, `MaxWrites` and `MaxReports`.

Deadlock is checked where the system goes on for ever (`spans`, `cache`, `proxy`, `gateway`) and
switched off where a response, a connection or the instance's bodies, runs or processes end, and in
`gateway-streams`, which is about a system that stops. `TypeOK` is a run's invariant in
`proxy` only; of the other modules TLC would tell nothing new, and theorems state it (within the inductive
invariant, or by itself as `StatsTypeCorrect`) of the restorers, the files and the statistics.

### Where a promise ends

One run is violated, and shows what the code does:

- `StreamsReachUpstream` (`gateway/server.rs:342`). A streamed body owns the registry's write guard
  and is polled only once the request is sent; before that its handler waits to read the
  registry. Without a credential to attach (as in the gateway's tests) there is no wait. The second
  circle of `WaitersAreServedOrCircle`, a whole body that holds the sanitizer
  and waits for the registry while a streamed one holds the registry and waits for the sanitizer, needs
  two requests.

Other properties hold with an exception that the code really has, and each states its own:

- `ChunksFindIsolatedSecrets` (`redact/cache.rs:212`). Each window keeps the longest matches *of that window*;
  one may be dropped because it starts in another chunk, and what it beat is in no list. In a string longer than
  a chunk an occurrence in a chain of overlapping secrets can so be left unredacted.
- `Transparent` and `EntriesAreFresh` (`redact/cache.rs:169`). The cache's keys do not say what kind of thing was cached: a string
  that spells out an object with a secret in one of its keys may be answered with the object's
  entry, in which keys are not redacted. Both answers are allowed for such a string, and
  nothing is promised of an object with such a string among its texts, for its redaction depends on which it was.
  The instance has an object with a secret for a key, its bytes as a string, and an object that holds that string.
- `JoinedTextIsRestored` (`proxy/server.rs:876`). The loop over `2..=max_len` does not hold a single byte back:
  a placeholder cut behind its first byte is lost.
- `TextIsSentSanitized` and `OtherFramesPass` (`proxy/websocket.rs:42`). `read_exact` is not safe to cancel: when one side's
  frame is complete, select drops the read of the other side, and with it a header that it may have
  consumed. The properties speak of the frames that were read whole; what a side out of step seems to send is left open.
- `RequestArrivesSanitized` (`proxy/server.rs:447`). A chunked request is forwarded with what was read of its
  body together with its head, unredacted; the rest is never read.
- `ResponseArrivesRestored` (`proxy/server.rs:434`). Of an answer that has no length and ends with its connection, the client
  gets what was read together with the head, unrestored.
- `AnswerIsConserved` (`proxy/websocket.rs:271`). When another connection, or text of the same client (233-253), has registered a secret, the
  restorer is replaced together with the text it holds. The property speaks of the text from one registration to the next.
- `BodyIsRestorable` (`redact/json_sanitizer.rs:722`). Guidance takes the place of a
  system instruction whose parts are not an array. And (331-343, 543-555) patterns and the last scan
  run over text with placeholders in it: a database URL whose password has become a placeholder is credentialed
  (`patterns/credentials.toml:226`), is registered and becomes one itself. One restoration, which is all that a response gets, leaves the inner
  placeholder; the property asks for as many as placeholders nest.
- `NothingKnownLeaves` (`redact/json_sanitizer.rs:559`). A secret that a later string
  marks is still there in an earlier one, where earlier means key order for a whole body and
  order of writing for a streamed one. What a pattern matches only because the last scan has put a placeholder in stays.
- `OriginalsAreKept` (`sanitize.rs:706`). A file reached again after its rewrite, over another root or in a
  second run into the same directory, is copied over its own backup. A live database is copied in parts, main file, log (`-wal`) and
  the log's index (684-689): when the log is moved to the main file between the copies of the two, its rows are in neither copy, and are then
  rewritten. Lines that were thrown away as below are in no backup either.
- `LinesSurvive` (`sanitize.rs:724`, 594). What an agent appends to a file between its
  reading and the rename is thrown away; to a database it is not. Of a database, what the agent writes over a row
  that is to be rewritten, between the reading of the rows (543-571) and the transaction (594-603), is overwritten.
- `SweptFilesAreClean` (`sanitize.rs:433`). A secret that only a later file marks stays in an
  earlier one, and a binary file's own marks stay in it unless the run is strict, which refuses the file.
- `CountsAreReports` (`stats.rs:121`). Overlapping updates are lost, and an update cut off behind
  the truncation loses all counts.

### Fairness

`RedactionCache!FairSpec`: a call that was entered runs on (its loops are straight-line code under
a lock; nothing is awaited), so its steps are weakly fair. New calls are not.

`ProxyExchanges!FairSpec`: a task whose lock was granted is woken and polled by the runtime, so
taking a granted lock and the work under it are weakly fair. A chunked response is assumed to end
(`WF_vars(EndStream(c))`): the code has no timeout, and a provider that stops in the middle of a chunked
response while the connection stays up holds the read lock, and with it every redaction, as long
as it likes. Requests, answers, upgrades and disconnections are not assumed to happen.

`GatewayExchanges!FairSpec`: as for the proxy, granted locks are taken and work under them
goes on. A streamed body that has been handed to the connection is polled, and every body and
every response comes to its end: weak fairness for the end of a response, strong fairness for
`EndBody(c) \/ FailBody(c)`, since between two chunks the body does not wait for the sanitizer
and its end is not enabled. There are no timeouts in this code either.

## Proofs

All theorems hold for every value of the constants under the modules' named assumptions:

| Assumption | Says | Because |
|---|---|---|
| `SecretsAssumption` | secrets are non-empty sequences of bytes | `ingest` refuses empty ones |
| `PlaceholderAssumption` | no two secrets share a placeholder | it spells 48 bits of an HMAC, whose collisions are assumed away |
| `ScannerAssumption` | a placeholder is no byte; chunks are not empty | one symbol stands for it where texts are redacted |
| `CacheAssumption`, `CanonicalAssumption` | types; serialization is injective | cache keys are digests of it |
| `PatternsAssumption` | a placeholder neither stands in nor runs into another | it begins with `{{` and holds no brace before its end |
| `RegistryAssumption`, `SourcesAssumption`, `StreamsAssumption` | placeholders are finitely many; types; the tail is sent in a field that is restored | a registry is a map; `delta` is one of `is_stream_text_field`'s |
| `SecretAssumption` (events, answers) | a restored secret is one symbol, no byte, and two placeholders stand for two secrets | the symbol marks where a secret was put in, for conservation to be stated; one id per secret |
| `ConversationsAssumption` | both sides of a websocket fragment data frames only, and begin a message when the one before it is complete | RFC 6455 asks it of both; the code does not check it, and joins what such a side sends |
| `LimitsAssumption` | `Secrets` is finite; `MaxText` is a number | |
| `HttpAssumption` | types; `NoLength` is no length and the end of a line no size; a request that states its length is that long, and one that states none and is not chunked has no body; an answer is not longer than it states | what an agent or upstream sends beyond that belongs to another message, and the proxy serves one on a connection |
| `ExchangeAssumption`, `GatewayAssumption`, `FilesAssumption`, `StatsAssumption` | types; the marks for "nobody" and "no file" are no clients and no contents | |

`SecretRegistryProofs`. `RegistryConsistent` is the inductive invariant: type, and the
bindings of both indexes agreeing with the entries. `IndexIsComplete`
needs the index to hold each id under its own length and prefilter; `PlaceholdersAreInvertible` needs
`PlaceholderAssumption` and
`OneIdPerSecret`, which is what makes a pushed placeholder new. `RegistryAppendOnly` follows step by step.

`ScannerProofs`. The registry's invariant is all the induction over steps there is; the rest is about
one text. `ScanPrefersLongest`: the pass that selects spans is related (`Greedy`) to the set it selects from by
induction on the number of candidates, which gives that what was passed over overlaps something at least as
long. `RedactionHasInverse`: selected spans are ordered and apart, so what is written for the positions up to some
place restores to the text up to there. `ScanLeavesNoSecrets`: every run of bytes of the output, also one that a
removed span has joined, is in the text a run without a selected span in it, or reaches across a placeholder, and no
placeholder is a byte. `ChunksMissNothingIsolated`: windows reach the longest secret less one byte into their
neighbours, so each occurrence lies in the window of the chunk it starts in, and one that
overlaps nothing is dropped by none.

`RedactionCacheProofs`. `CacheInv` strengthens `EntriesAreFresh` with facts about
calls in progress: a cache at the registry's version holds only entries that mean what a
scan would give; the strings an object has sanitized so far, at the version they were sanitized
under, are what an uncached redaction gives; an unchanged version means an unchanged registry, which is why
the entry `EndObject` keeps is fresh. The spans gathered by a long string are those of the windows
before its position. `CanonicalAssumption` is needed for
`ObjectHit`. A string that spells an object out may have been answered as the object, so that the texts of an object that holds such a
string are not known to be what an uncached redaction gives: `Plain` keeps that apart, and what is claimed of a string and of an entry
(`AnswersString`, `Means`) is weak enough to be inductive without it. The recency list needs none of this: that it lists each key of the
cache once, together with the version's reachability, is an invariant of its own
(`CacheOrderListsEntries`, `CacheKeysAreReachable`), and `CacheEvictsLeastRecentlyUsed` follows from it.

`RestorerProofs`. `CutsCannotBeSeen` rests on `RestoreSplits`: a text may be restored in two
pieces wherever no placeholder stands across the cut. `process_until` cuts at such places only: its `safe_end` is as
far from the end of the buffer as the longest placeholder is long, less one, and `commit_until` moves the cut
behind a placeholder that reaches over it (`CommitCutsCleanly`). `RestorerKeepsThePromise` maps
every step to one of `RestoredStream` or to a stutter: what is written only grows, and is a prefix of the
restored body because the invariant says what follows. Of event streams, `EventsLoseNothing` needs that restoring
can be undone (`RestoreHasInverse`, by induction on the length of the text) and that what `push_text` sends and holds
are its input cut in two, cleanly: a placeholder over the cut would run into the one whose beginning is held, which
`PatternsAssumption` excludes. With text to follow, the cut is clean unless a placeholder begins with the very last byte
(`HoldCutsCleanly`), and so the invariant behind `EventsRestoreEverySecret` says of every state what
`CutsAreInvisible` says of the chunk restorer, provided that no fragment ends right behind a first byte.
Of websockets, `RelayInv` adds to the three properties that a side's buffer is active just when the frames
read of it end inside a text message, and then holds that message's payload so far: without this a
final fragment tells nothing of the message it completes. A frame has one of four outcomes (`FrameOutcomes`): it is
held, it completes a message that leaves in one frame, it passes, or the relay fails; each is a lemma. Which messages, which other
frames and which texts a side has sent is defined over positions, and changes by at most one element with
each frame (`MessagesGrow`, `WrittenGrows`). `AnswersLoseNothing` takes `PushTextConserves` from the event
streams, whose fragment restorer the relay has a copy of; that what is held begins a placeholder is needed because
with none registered `push_text` keeps what it held, and returns its text as it came. A registration moves the version, and so
empties the claim until the next text replaces the restorer; from there on `answered` says how many messages came before it.
Of HTTP exchanges, `HttpInv` says how far the exchange is, and of a chunked answer (`ChunksAreRestored`) that what the client
has been given, followed by the restoration of what the restorer holds and of the data still to come, is the restoration of all
data sent; between two chunks that is all that ties the two wires together. What a wire of chunks spells is the reader's
definition (`Dechunked`), a recursive function over the ends of the wire: it exists, is unique (`DechunkingExists`,
`DechunkingIsUnique`) and is local, that is, a whole chunk in front means its data in front of what the rest
means, whatever the rest is (`ChunkIsRead` for what upstream sent, `WrittenChunkIsRead` for what the proxy wrote).
So the client's wire `Carries` a text: data in front of any continuation. An answer that breaks off lacks the last chunk, and the reader
knows; a whole one has got the last chunk behind the tail, and only then. For a body read whole the statement is that
its rewritten length is the length written, which is what `RequestsArriveSanitized` comes to.

`ProxyExchangesProofs`. `EveryPlaceholderIsRestored` for any number of connections. The inductive
invariant says that a text about to be forwarded spells registered secrets only, that what was sent is
registered, and that a stream that holds the read lock was built from the registry as it is now
(no writer gets in between). `ExchangesTypeCorrect` ties places to lock holders.

`GatewayExchangesProofs`. The same property of the gateway needs more about the locks, since a streamed body keeps
its guard from one poll to the next: whoever is in the middle of a body owns the registry (`BodiesOwnTheRegistry`),
a writer is alone with it (`WriterIsAlone`), and therefore the registry is unchanged while a response is restored.

`FilesProofs`. Of the files: one invariant ties the step of a rewrite in progress to what stands in the file, its
backup, the rewritten text and the report, with every crash and failure in between. While a copy grows, it is as far as it goes
what the main file holds (`CopyFollows`), and with the rows of the log it shows each line of the file that is about to change
(`KeptElsewhere`): commits change the log only, and a checkpoint in between makes the database `torn`. What the rewrite would write
fits the file it was read from (`OutputFits`, `OutputIsSafe`), but where the agent has written since. Of the statistics: the
counts a process is about to write never exceed what was reported, and are exact as long as nobody
else was between reading and writing.

Induction over data is done without the library's induction theorems: the set of the numbers for which a statement holds is
a set like any other, and if it were not all of `Nat` there would be a least number missing
(`NatSetInduction`, from `WFMin`).

Model-checked only:

- liveness, which the provers cannot reason about (`CallsReturn`, `WaitersAreServed`, `WaitersAreServedOrCircle`);
- the JSON sanitizer, whose walk over a body is a `RECURSIVE` operator.

## Abstractions

- HMAC digests and cache keys are injective; the 64-bit prefilter is not and has
  collisions in the instance. Encryption of capsules is the identity on a secret's bytes.
- In `RedactionCache` a text matches at most one credential pattern.
- JSON and SSE syntax, headers, masks and lengths are data that the constants carry: an object is a
  list of raw parts and texts with its serialization, an SSE event a field and a text.
- In `WebSocketRelay` the placeholders of secrets registered meanwhile do not occur in the
  conversation, so one set of patterns serves every restorer. Both sides keep to the protocol's rules for fragments.
- In `HttpExchange` a head is the handful of fields that framing and rewriting look at; a chunk's size is one symbol, a number (the code's
  hexadecimal digits, read and written); both ends
  read to the end of what they are sent, and the proxy's writes do not fail. A chunked event stream takes the same loop as any
  other chunked answer, with `SseRestorer`'s restorer in it.
- In `ProxyExchanges` a section without an await between lock and unlock is one step, and
  upstream may answer with any placeholder any connection has sent it. A placeholder is that of a secret and not of a text with
  another placeholder in it: nesting is `JsonSanitizer`'s subject.
- In `GatewayExchanges` upstream answers likewise; a chunk of a streamed body is what it spells, and
  the byte machine under it is `JsonSanitizer`'s.
- In `JsonSanitizer` a text is a sequence of pieces (a word, a tag, an escaped character, a placeholder); secrets,
  directives and matches of patterns are any sequences of them, placeholders included, but none begins or ends inside a piece. The matches of one
  pattern do not overlap in the instance. Numbers, booleans and null are one symbol; white space is left out.
- In `SanitizeFiles` a line is the set of secrets it spells, marked or not; which files and which columns are
  conversations is given. A database is its main file and its log; one without a log is one that checkpoints with every
  commit, and the log's index (`-shm`), which is rebuilt from the log, is left out. The agent adds rows and writes rows anew, and deletes none; it
  appends to other files. The main file is copied row by row, the log at once. The replacement of a secret is a text of its length that is no secret. A database's
  transaction is atomic, and its rows are rewritten by row number, so that rows added meanwhile stay.
- In `StatsFile` a write replaces the bytes of a file that another process truncated and wrote; the outcome is one of
  the two contents or unreadable.
- Counters and reports of the exchanges are left out.

## Plan

What is left: the JSON sanitizer could be reasoned about if the walk over a body (`SanitizeJson`) were a recursive
function over numbered positions, as `Rendered` is of a text and `Dechunked` of a wire; and the precedence of the
discovery sources, should they grow.

Runs are kept few: each asks a question of its own.

## Not modelled

Capsule encryption, buffer wiping and memory locking (effects outside the program's
state), certificates and TLS (libraries), regular expressions and entropy rules
(pure functions of strings; the models take their outcome), the syntax of header lines and of CONNECT,
interim responses (the proxy takes a `100 Continue` for the whole answer, `proxy/server.rs:401`), argument parsing, the
child's environment, logging, the payload tap, the npm wrapper, release scripts and the QA upstream.
Of the gateway: provider inference, URL joining and header copying. Of the conversation sanitizer:
path discovery and the list of columns. Of the statistics: error counts, which nothing in the code can raise.
