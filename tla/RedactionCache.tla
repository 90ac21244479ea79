--------------------------- MODULE RedactionCache ---------------------------
(***************************************************************************)
(* The bounded redaction cache (src/src/redact/cache.rs) as the JSON       *)
(* sanitizer drives it: string tokens and whole objects looked up under a  *)
(* key that mixes the registry version with the bytes, long strings cached *)
(* window by window, least recently used entries evicted, everything       *)
(* flushed when the registry has moved on.                                 *)
(*                                                                         *)
(* The sanitizer sits behind a mutex and holds the registry's write lock   *)
(* for a whole body, so calls do not interleave.  An object, and a long    *)
(* string inside it, are calls in progress (object, large) whose loops     *)
(* take one step per iteration; nothing else moves until they return.      *)
(* The cache key is an HMAC and is taken to be injective.  The hit, miss   *)
(* and eviction counters, which nothing but reports read, are left out.    *)
(***************************************************************************)
EXTENDS Spans

CONSTANTS
    Strings,        \* texts that reach the sanitizer on their own
    Objects,        \* cacheable JSON objects: sequences of [raw, text] parts
    Canonical(_),   \* object -> its serialized bytes (serde_json::to_vec)
    Rendered(_, _), \* object, sanitized texts -> the serialized result
    Detected(_),    \* text -> the credential a pattern finds in it, <<>> if none
    Malformed,      \* texts with an ill-formed <cb> directive
    AutoLabel,      \* label of secrets registered from a pattern match
    MaxEntries,     \* max_entries
    ChunkSize       \* chunk_size

\* Every text sanitize_decoded_string may be called with.
Texts == Strings \cup UNION {{obj[i].text : i \in DOMAIN obj} : obj \in Objects}

ASSUME CacheAssumption ==
    /\ MaxEntries \in Nat
    /\ ChunkSize \in Nat \ {0}
    /\ AutoLabel \in Labels
    /\ Strings \subseteq Seq(Byte)
    /\ \A obj \in Objects :
        /\ obj \in Seq([raw: Seq(Byte), text: Seq(Byte)])
        /\ Canonical(obj) \in Seq(Byte)
    /\ \A text \in Texts : Detected(text) \in Secrets \cup {<<>>}

\* Serialization is faithful: two objects with the same bytes are the same object.
ASSUME CanonicalAssumption ==
    \A o, p \in Objects : Canonical(o) = Canonical(p) => o = p

VARIABLES
    cache,      \* [version, entries, order], order from oldest to newest use
    object,     \* the object call in progress
    large,      \* the long-string call in progress
    result      \* what the last completed top-level call returned

vars == <<registry, cache, object, large, result>>

-----------------------------------------------------------------------------
\* What a text or an object is turned into when nothing is cached.

\* registry.is_empty(), or the text is shorter than every secret.
TooShort(text, reg) == \A s \in Registered(reg) : Len(text) < Len(s)

FreshString(text, reg) ==
    IF TooShort(text, reg) THEN text
    ELSE ApplySpans(text, FreshSpans(text, reg, ChunkSize))

FreshObject(obj, reg) ==
    Rendered(obj, [i \in DOMAIN obj |-> FreshString(obj[i].text, reg)])

-----------------------------------------------------------------------------
\* The cache's own operations, from one cache value to the next.

EmptyCache == [version |-> 0, entries |-> <<>>, order |-> <<>>]

\* cache_key: the version is part of what is hashed.
Key(reg, bytes) == <<reg.version, bytes>>

\* CacheEntry::NoSecret is the empty list of spans.
SpansEntry(spans) == [kind |-> "spans", spans |-> spans, output |-> <<>>]
SanitizedEntry(output) == [kind |-> "sanitized", spans |-> <<>>, output |-> output]

Flushed(version) == [version |-> version, entries |-> <<>>, order |-> <<>>]

\* sync_registry_version
Synced(c, reg) == IF c.version # reg.version THEN Flushed(reg.version) ELSE c

Cached(c, key) == key \in DOMAIN c.entries

\* Mutant of CachedAs: whatever the key holds is taken for what is asked for.
CachedAsAnything(c, key, kind) == Cached(c, key)

CachedAs(c, key, kind) == Cached(c, key) /\ c.entries[key].kind = kind

\* touch: order.retain drops the key, which stands in the order at most once.
Touched(order, key) ==
    IF \E i \in DOMAIN order : order[i] = key
    THEN LET at == CHOOSE i \in DOMAIN order : order[i] = key
         IN  [i \in 1 .. Len(order) - 1 |-> IF i < at THEN order[i] ELSE order[i + 1]]
    ELSE order

\* Mutant of Refreshed: the key keeps its old place as well.
RefreshedTwice(c, key) == [c EXCEPT !.order = Append(c.order, key)]

\* cached_entry on a key that is there: it becomes the newest.
Refreshed(c, key) == [c EXCEPT !.order = Append(Touched(c.order, key), key)]

\* cached_entry, whether or not the key is there.
LookedUp(c, key) == IF Cached(c, key) THEN Refreshed(c, key) ELSE c

\* Mutant of Evicted: the newest keys go.
EvictedFromNewest(c) ==
    LET newest(n) == {c.order[i] : i \in Len(c.order) - n + 1 .. Len(c.order)}
        fits(n) == Cardinality(DOMAIN c.entries \ newest(n)) <= MaxEntries \/ n = Len(c.order)
        n == CHOOSE k \in 0 .. Len(c.order) : fits(k) /\ \A j \in 0 .. k - 1 : ~fits(j)
    IN  [c EXCEPT !.order = SubSeq(@, 1, Len(@) - n),
                  !.entries = [key \in DOMAIN @ \ newest(n) |-> @[key]]]

\* The eviction loop: the oldest keys go until the entries fit or the order runs out.
Evicted(c) ==
    LET oldest(n) == {c.order[i] : i \in 1 .. n}
        fits(n) == Cardinality(DOMAIN c.entries \ oldest(n)) <= MaxEntries \/ n = Len(c.order)
        n == CHOOSE k \in 0 .. Len(c.order) : fits(k) /\ \A j \in 0 .. k - 1 : ~fits(j)
    IN  [c EXCEPT !.order = SubSeq(@, n + 1, Len(@)),
                  !.entries = [key \in DOMAIN @ \ oldest(n) |-> @[key]]]

Inserted(c, key, entry) ==
    IF MaxEntries = 0 THEN c
    ELSE Evicted([c EXCEPT !.order = Append(Touched(@, key), key),
                           !.entries = Bind(@, key, entry)])

-----------------------------------------------------------------------------

\* Mutants of AfterClosure: the result is kept though the registry has moved on, under the
\* key made before the closure or under a new one.
AfterClosureOldKey(c, reg, version, bytes, output) ==
    Inserted(c, <<version, bytes>>, SanitizedEntry(output))
AfterClosureNewKey(c, reg, version, bytes, output) ==
    Inserted(c, Key(reg, bytes), SanitizedEntry(output))

\* The end of sanitize_object_bytes: the closure's result is cached only if the registry is
\* still the one the key was made for.
AfterClosure(c, reg, version, bytes, output) ==
    IF reg.version # version THEN Flushed(reg.version)
    ELSE Inserted(c, <<version, bytes>>, SanitizedEntry(output))

IdleObject == [busy |-> FALSE, source |-> <<>>, version |-> 0, outs |-> <<>>]
IdleLarge == [busy |-> FALSE, text |-> <<>>, start |-> 1, spans |-> {}]
NoResult == [kind |-> "none", source |-> <<>>, version |-> 0, steady |-> TRUE, output |-> <<>>]

Idle == ~object.busy /\ ~large.busy

Init ==
    /\ RegistryInit
    /\ cache = EmptyCache
    /\ object = IdleObject
    /\ large = IdleLarge
    /\ result = NoResult

\* A string call returns to the object whose closure made it, or to the caller.
Return(text, version, output) ==
    IF object.busy
    THEN /\ object' = [object EXCEPT !.outs = Append(@, [version |-> version, output |-> output])]
         /\ UNCHANGED result
    ELSE /\ result' = [kind |-> "string", source |-> text, version |-> version,
                       steady |-> TRUE, output |-> output]
         /\ UNCHANGED object

\* The registry once the patterns have registered what they find in text.
WithDetected(text) ==
    IF Detected(text) = <<>> THEN registry
    ELSE AfterIngest(registry, AutoLabel, Detected(text))

\* sanitize_decoded_string on a text without directives: register pattern matches, then
\* sanitize_string_detailed, by the branch that the text's length and the cache select.
PassThrough(text) ==
    LET reg == WithDetected(text) IN
    /\ TooShort(text, reg)
    /\ registry' = reg
    /\ Return(text, reg.version, text)
    /\ UNCHANGED <<cache, large>>

BeginLarge(text) ==
    LET reg == WithDetected(text) IN
    /\ ~TooShort(text, reg)
    /\ Len(text) > ChunkSize
    /\ registry' = reg
    /\ cache' = Synced(cache, reg)
    /\ large' = [busy |-> TRUE, text |-> text, start |-> 1, spans |-> {}]
    /\ UNCHANGED <<object, result>>

\* A hit answers from whatever entry the key has, an object's output included.
Hit(text) ==
    LET reg == WithDetected(text)
        c == Synced(cache, reg)
        key == Key(reg, text)
        entry == c.entries[key]
    IN
    /\ ~TooShort(text, reg)
    /\ Len(text) <= ChunkSize
    /\ Cached(c, key)
    /\ registry' = reg
    /\ cache' = Refreshed(c, key)
    /\ Return(text, reg.version,
              IF entry.kind = "sanitized" THEN entry.output ELSE ApplySpans(text, entry.spans))
    /\ UNCHANGED large

Miss(text) ==
    LET reg == WithDetected(text)
        c == Synced(cache, reg)
        key == Key(reg, text)
        spans == ScanStringToken(text, reg)
    IN
    /\ ~TooShort(text, reg)
    /\ Len(text) <= ChunkSize
    /\ ~Cached(c, key)
    /\ registry' = reg
    /\ cache' = Inserted(c, key, SpansEntry(spans))
    /\ Return(text, reg.version, ApplySpans(text, spans))
    /\ UNCHANGED large

StringCall(text) == PassThrough(text) \/ BeginLarge(text) \/ Hit(text) \/ Miss(text)

-----------------------------------------------------------------------------
\* A long string, window by window (sanitize_large_string_detailed, spans_for_window).

\* The spans of the next chunk's window, cached or scanned.
ScanWindow ==
    LET text == large.text
        start == large.start
        window == WindowText(text, registry, start, ChunkSize)
        key == Key(registry, window)
        usable == CachedAs(cache, key, "spans")
        spans == IF usable THEN cache.entries[key].spans ELSE ScanStringToken(window, registry)
    IN
    /\ large.busy
    /\ start <= Len(text)
    /\ cache' = IF usable THEN Refreshed(cache, key)
                ELSE Inserted(LookedUp(cache, key), key, SpansEntry(spans))
    /\ large' = [large EXCEPT
                    !.start = ChunkEnd(text, start, ChunkSize),
                    !.spans = @ \cup ChunkSpans(text, registry, start, ChunkSize, spans)]
    /\ UNCHANGED <<registry, object, result>>

EndLarge ==
    /\ large.busy
    /\ large.start > Len(large.text)
    /\ Return(large.text, registry.version,
              ApplySpans(large.text, SelectLongestNonOverlapping(large.spans)))
    /\ large' = IdleLarge
    /\ UNCHANGED <<registry, cache>>

-----------------------------------------------------------------------------
\* Top-level strings and objects, and the ingestion other components do in between.

SanitizeString == Idle /\ \E text \in Strings \ Malformed : StringCall(text)

\* sanitize_object_bytes answers from the cache.
ObjectHit(obj) ==
    LET c == Synced(cache, registry)
        key == Key(registry, Canonical(obj))
    IN
    /\ Idle
    /\ CachedAs(c, key, "sanitized")
    /\ cache' = Refreshed(c, key)
    /\ result' = [kind |-> "object", source |-> obj, version |-> registry.version,
                  steady |-> TRUE, output |-> c.entries[key].output]
    /\ UNCHANGED <<registry, object, large>>

\* sanitize_object_bytes enters the closure; a key held by a string entry is still touched.
BeginObject(obj) ==
    LET c == Synced(cache, registry)
        key == Key(registry, Canonical(obj))
    IN
    /\ Idle
    /\ ~CachedAs(c, key, "sanitized")
    /\ cache' = LookedUp(c, key)
    /\ object' = [busy |-> TRUE, source |-> obj, version |-> registry.version, outs |-> <<>>]
    /\ UNCHANGED <<registry, large, result>>

NextText == object.source[Len(object.outs) + 1].text

InClosure == object.busy /\ ~large.busy

SanitizeLeaf ==
    /\ InClosure
    /\ Len(object.outs) < Len(object.source)
    /\ NextText \notin Malformed
    /\ StringCall(NextText)

\* A malformed directive fails the closure and with it the call, before any flush.
FailObject ==
    /\ InClosure
    /\ Len(object.outs) < Len(object.source)
    /\ NextText \in Malformed
    /\ object' = IdleObject
    /\ UNCHANGED <<registry, cache, large, result>>

EndObject ==
    LET output == Rendered(object.source, [i \in DOMAIN object.outs |-> object.outs[i].output])
    IN
    /\ InClosure
    /\ Len(object.outs) = Len(object.source)
    /\ cache' = AfterClosure(cache, registry, object.version, Canonical(object.source), output)
    /\ result' = [kind |-> "object", source |-> object.source, version |-> registry.version,
                  steady |-> registry.version = object.version, output |-> output]
    /\ object' = IdleObject
    /\ UNCHANGED <<registry, large>>

\* Discovery, observed auth headers and <cb> directives ingest between calls.
IngestBetweenCalls ==
    /\ Idle
    /\ \E label \in Labels, secret \in Secrets : Ingest(label, secret)
    /\ UNCHANGED <<cache, object, large, result>>

Next ==
    \/ IngestBetweenCalls
    \/ SanitizeString
    \/ \E obj \in Objects : ObjectHit(obj) \/ BeginObject(obj)
    \/ SanitizeLeaf
    \/ FailObject
    \/ EndObject
    \/ ScanWindow
    \/ EndLarge

Spec == Init /\ [][Next]_vars

\* A call that was entered runs to its end: the loops are straight-line code under a lock.
FairSpec == Spec /\ WF_vars(SanitizeLeaf \/ FailObject \/ EndObject \/ ScanWindow \/ EndLarge)

-----------------------------------------------------------------------------

Symbol == Byte \cup {PlaceholderOf(l, s) : l \in Labels, s \in Secrets}

TypeOK ==
    /\ RegistryTypeOK
    /\ DOMAIN cache = {"version", "entries", "order"}
    /\ cache.version \in Nat
    /\ cache.order \in Seq(Nat \X Seq(Byte))
    /\ \A key \in DOMAIN cache.entries :
        /\ key \in Nat \X Seq(Byte)
        /\ cache.entries[key].kind \in {"spans", "sanitized"}
    /\ object.busy \in BOOLEAN /\ large.busy \in BOOLEAN
    /\ object.version \in Nat
    /\ object.outs \in Seq([version: Nat, output: Seq(Symbol)])
    /\ object.busy => object.source \in Objects /\ Len(object.outs) <= Len(object.source)
    /\ large.text \in Seq(Byte) /\ large.start \in Nat \ {0}

\* The order is the entries' recency list and nothing else: a key stands in it once, a key
\* without an entry never does, and there are never more than max_entries of them.
OrderListsEntries ==
    /\ \A i, j \in DOMAIN cache.order : cache.order[i] = cache.order[j] => i = j
    /\ {cache.order[i] : i \in DOMAIN cache.order} = DOMAIN cache.entries
    /\ Len(cache.order) <= MaxEntries

\* No entry outlives its registry version: a key of another version could never be asked
\* for again, and would hold a place in the bounded cache until it is evicted.
KeysAreReachable == \A key \in DOMAIN cache.entries : key[1] = cache.version

\* None of the object's texts spells a cacheable object out.
Plain(obj) == \A i \in DOMAIN obj : \A other \in Objects : obj[i].text # Canonical(other)

\* The uncached redaction of an object, which is promised of plain ones: the texts of others
\* may be answered as what they spell.
AnswersObject(output, obj, reg) == Plain(obj) => output = FreshObject(obj, reg)

\* The uncached redaction of a text, or of the cacheable object that it spells out: keys and
\* punctuation, which are redacted in a text, are left alone in an object.
AnswersString(output, text, reg) ==
    \/ output = FreshString(text, reg)
    \/ \E obj \in Objects : text = Canonical(obj) /\ AnswersObject(output, obj, reg)

\* What the entry of a key means under a registry: the spans of a token or of a window, or
\* the sanitized form of the object whose bytes the key holds.
Means(entry, bytes, reg) ==
    IF entry.kind = "spans" THEN entry.spans = ScanStringToken(bytes, reg)
    ELSE \E obj \in Objects : bytes = Canonical(obj) /\ AnswersObject(entry.output, obj, reg)

\* An entry that can be hit is what a scan under the current registry would find: neither a
\* registration inside an object's closure nor a failed closure leaves an older result behind.
EntriesAreFresh ==
    cache.version = registry.version =>
        \A key \in DOMAIN cache.entries : Means(cache.entries[key], key[2], registry)

\* The cache cannot be seen: as long as the registry is the one a call ended under, what
\* the call returned is what an uncached redaction returns, for strings alone, for the
\* strings of an object in progress and for whole objects.  Strings and objects share their
\* keys, and a string is answered as the object it spells out, but as nothing else, and an
\* object is never answered as the string.
Transparent ==
    /\ result.kind = "string" /\ result.version = registry.version =>
        AnswersString(result.output, result.source, registry)
    /\ result.kind = "object" /\ result.steady /\ result.version = registry.version =>
        AnswersObject(result.output, result.source, registry)
    /\ \A i \in DOMAIN object.outs : object.outs[i].version = registry.version =>
        AnswersString(object.outs[i].output, object.source[i].text, registry)

\* Eviction takes the least recently used entries: whatever goes while the cache is not
\* flushed is older than all that stays, and a short string's answer leaves its key the newest.
EvictsLeastRecentlyUsed ==
    [][/\ cache'.version = cache.version =>
            \A i, j \in DOMAIN cache.order :
                i < j /\ cache.order[j] \notin DOMAIN cache'.entries
                    => cache.order[i] \notin DOMAIN cache'.entries
       /\ LET cacheable == /\ MaxEntries > 0
                            /\ Len(result'.source) <= ChunkSize
                            /\ ~TooShort(result'.source, registry')
              key == <<result'.version, result'.source>>
          IN  result' # result /\ result'.kind = "string" /\ cacheable =>
                  Cached(cache', key) /\ cache'.order[Len(cache'.order)] = key
      ]_vars

\* Every call that was entered returns: the chunk loop reaches the end of the text.
CallsReturn == []<>Idle
=============================================================================
