------------------------ MODULE RedactionCacheProofs ------------------------
(***************************************************************************)
(* The redaction cache is transparent, for every set of secrets, texts and *)
(* objects, every cache bound and every chunk size.                        *)
(*                                                                         *)
(* The argument runs along one value at a time: Sound(c, reg) says what a  *)
(* cache value may hold while the registry is reg, each cache operation    *)
(* keeps it, and the registry only ever grows.  The calls in progress add  *)
(* what their frames remember: the object's version is a lower bound of    *)
(* the cache's, and a long string's spans are those of the chunks behind   *)
(* it.  How the scanner selects spans never matters, so its definitions    *)
(* stay folded throughout.                                                 *)
(*                                                                         *)
(* Strings and objects share their keys, so what is proved of a string is  *)
(* that its answer is its own redaction or that of the object it spells    *)
(* out (AnswersString), and of an object that it is the uncached redaction *)
(* if none of its texts spells an object out (AnswersObject).              *)
(***************************************************************************)
EXTENDS RedactionCache, SecretRegistryProofs, Integers, SequenceTheorems, FunctionTheorems,
        FiniteSetTheorems

-----------------------------------------------------------------------------
\* Values of the registry and of the cache.

\* What a registry may become.
Grown(old, new) == new = old \/ new.version > old.version

Sound(c, reg) ==
    /\ DOMAIN c = {"version", "entries", "order"}
    /\ c.version \in Nat
    /\ c.version <= reg.version
    /\ \A key \in DOMAIN c.entries :
        key[1] = c.version /\ c.entries[key].kind \in {"spans", "sanitized"}
    /\ c.version = reg.version =>
        \A key \in DOMAIN c.entries : Means(c.entries[key], key[2], reg)

\* Pattern matches keep the registry consistent and only make it grow.
LEMMA DetectedGrows ==
    ASSUME Consistent(registry), NEW text \in Texts
    PROVE  Consistent(WithDetected(text)) /\ Grown(registry, WithDetected(text))
  <1>1. CASE Detected(text) = <<>>
    BY <1>1 DEF WithDetected, Grown
  <1>2. CASE Detected(text) # <<>>
    <2>1. Detected(text) \in Secrets /\ AutoLabel \in Labels
      BY <1>2, CacheAssumption
    <2>2. registry.version \in Nat
      BY DEF Consistent
    <2>3. WithDetected(text) = AfterIngest(registry, AutoLabel, Detected(text))
      BY <1>2 DEF WithDetected
    <2>. QED
      BY <2>1, <2>2, <2>3, IngestConsistent, IngestAppends DEF Grown
  <1>. QED
    BY <1>1, <1>2

LEMMA ConsistentVersion ==
    ASSUME NEW reg, Consistent(reg)
    PROVE  reg.version \in Nat
  BY DEF Consistent

\* A sound cache stays sound when the registry grows: its entries are then out of reach.
LEMMA SoundGrows ==
    ASSUME NEW c, NEW old, NEW new, Consistent(old), Consistent(new), Grown(old, new),
           Sound(c, old)
    PROVE  Sound(c, new)
  BY ConsistentVersion DEF Sound, Grown

\* Synchronisation makes it one of the registry's version.
LEMMA SyncedSound ==
    ASSUME NEW c, NEW old, NEW new, Consistent(old), Consistent(new), Grown(old, new),
           Sound(c, old)
    PROVE  Sound(Synced(c, new), new) /\ Synced(c, new).version = new.version
  <1>1. Sound(c, new) /\ new.version \in Nat
    BY SoundGrows, ConsistentVersion
  <1>2. CASE c.version = new.version
    BY <1>1, <1>2 DEF Synced
  <1>3. CASE c.version # new.version
    BY <1>1, <1>3 DEF Synced, Flushed, Sound
  <1>. QED
    BY <1>2, <1>3

LEMMA FlushedSound ==
    ASSUME NEW reg, Consistent(reg)
    PROVE  Sound(Flushed(reg.version), reg)
  BY ConsistentVersion DEF Flushed, Sound

\* A lookup moves a key in the order and nothing else.
LEMMA LookedUpSound ==
    ASSUME NEW c, NEW reg, NEW key, Sound(c, reg)
    PROVE  /\ Sound(LookedUp(c, key), reg) /\ LookedUp(c, key).version = c.version
           /\ Cached(c, key) => LookedUp(c, key) = Refreshed(c, key)
  <1>1. /\ DOMAIN Refreshed(c, key) = DOMAIN c
        /\ Refreshed(c, key).version = c.version
        /\ Refreshed(c, key).entries = c.entries
    BY DEF Refreshed, Sound
  <1>2. Sound(Refreshed(c, key), reg)
    BY <1>1 DEF Sound
  <1>. QED
    BY <1>1, <1>2 DEF LookedUp

\* Eviction only drops entries.
LEMMA EvictedSound ==
    ASSUME NEW c, NEW reg, Sound(c, reg)
    PROVE  Sound(Evicted(c), reg) /\ Evicted(c).version = c.version
  <1> DEFINE gone == DOMAIN c.entries \ DOMAIN Evicted(c).entries
  <1>1. PICK S : /\ DOMAIN Evicted(c) = DOMAIN c
                 /\ Evicted(c).version = c.version
                 /\ Evicted(c).entries = [key \in DOMAIN c.entries \ S |-> c.entries[key]]
    BY DEF Evicted, Sound
  <1>. QED
    BY <1>1 DEF Sound

\* An entry that means what its key asks for may be inserted.
LEMMA InsertedSound ==
    ASSUME NEW c, NEW reg, NEW bytes, NEW entry, Sound(c, reg), c.version = reg.version,
           entry.kind \in {"spans", "sanitized"}, Means(entry, bytes, reg)
    PROVE  /\ Sound(Inserted(c, <<reg.version, bytes>>, entry), reg)
           /\ Inserted(c, <<reg.version, bytes>>, entry).version = reg.version
  <1> DEFINE key == <<reg.version, bytes>>
             full == [c EXCEPT !.order = Append(Touched(@, key), key),
                               !.entries = Bind(@, key, entry)]
  <1>1. /\ DOMAIN full = DOMAIN c
        /\ full.version = c.version
        /\ full.entries = Bind(c.entries, key, entry)
    BY DEF Sound
  <1>2. /\ DOMAIN full.entries = DOMAIN c.entries \cup {key}
        /\ \A k \in DOMAIN full.entries :
            full.entries[k] = IF k = key THEN entry ELSE c.entries[k]
    BY <1>1 DEF Bind
  <1>3. key[1] = reg.version /\ key[2] = bytes
    OBVIOUS
  <1> HIDE DEF key, full
  <1>4. Sound(full, reg)
    BY <1>1, <1>2, <1>3 DEF Sound
  <1>5. Sound(Evicted(full), reg) /\ Evicted(full).version = reg.version
    BY <1>1, <1>4, EvictedSound
  <1>. QED
    BY <1>5 DEF Inserted, key, full
-----------------------------------------------------------------------------
\* Chunk starts.

\* Multiples of the chunk size are at least a chunk apart.
LEMMA MultiplesApart ==
    ASSUME NEW c \in Nat \ {0}, NEW j \in Nat, NEW k \in Nat, j < k
    PROVE  j * c + c <= k * c
  <1>1. PICK d \in Nat : k = j + 1 + d
    <2>1. k - j - 1 \in Nat /\ k = j + 1 + (k - j - 1)
      OBVIOUS
    <2>. QED
      BY <2>1
  <1>2. k * c = j * c + c + d * c
    BY <1>1
  <1>3. d * c >= 0 /\ d * c \in Nat /\ j * c \in Nat
    OBVIOUS
  <1>. QED
    BY <1>2, <1>3

\* The chunk that begins at start ends where the next one begins, or at the end of the text.
LEMMA ChunkEndIsNextStart ==
    ASSUME NEW text \in Seq(Byte), NEW start \in ChunkStarts(text, ChunkSize)
    PROVE  LET end == ChunkEnd(text, start, ChunkSize)
           IN  /\ end \in ChunkStarts(text, ChunkSize) \cup {Len(text) + 1}
               /\ {i \in ChunkStarts(text, ChunkSize) : i < end}
                    = {i \in ChunkStarts(text, ChunkSize) : i < start} \cup {start}
  <1> DEFINE end == ChunkEnd(text, start, ChunkSize)
             starts == ChunkStarts(text, ChunkSize)
  <1>1. Len(text) \in Nat /\ ChunkSize \in Nat \ {0}
    BY CacheAssumption
  <1>2. PICK k \in 0 .. Len(text) : start = k * ChunkSize + 1
    BY DEF ChunkStarts
  <1>3. start \in 1 .. Len(text)
    BY DEF ChunkStarts
  <1>4. end = IF start + ChunkSize < Len(text) + 1 THEN start + ChunkSize ELSE Len(text) + 1
    BY DEF ChunkEnd, SmallerOf
  <1>5. start < end /\ end <= Len(text) + 1 /\ end <= start + ChunkSize
    BY <1>1, <1>3, <1>4
  <1>6. end \in starts \cup {Len(text) + 1}
    <2>1. CASE start + ChunkSize < Len(text) + 1
      <3>1. start + ChunkSize = (k + 1) * ChunkSize + 1
        BY <1>1, <1>2
      <3>2. k + 1 <= Len(text)
        <4>1. k * ChunkSize >= k
          BY <1>1, <1>2, MultiplesApart
        <4>. QED
          BY <1>1, <1>2, <2>1, <4>1
      <3>3. start + ChunkSize \in 1 .. Len(text) /\ k + 1 \in 0 .. Len(text)
        BY <1>1, <1>2, <1>3, <2>1, <3>2
      <3>. QED
        BY <3>1, <3>3, <2>1, <1>4 DEF ChunkStarts
    <2>2. CASE ~(start + ChunkSize < Len(text) + 1)
      BY <2>2, <1>4
    <2>. QED
      BY <2>1, <2>2
  <1>7. ASSUME NEW i \in starts, i < end
        PROVE  i <= start
    <2>1. PICK j \in 0 .. Len(text) : i = j * ChunkSize + 1
      BY DEF ChunkStarts
    <2>2. CASE k < j
      <3>1. k * ChunkSize + ChunkSize <= j * ChunkSize
        BY <1>1, <1>2, <2>1, <2>2, MultiplesApart
      <3>2. j * ChunkSize \in Nat /\ k * ChunkSize \in Nat
        BY <1>1, <1>2, <2>1
      <3>. QED
        BY <1>1, <1>2, <1>3, <1>4, <1>7, <2>1, <3>1, <3>2
    <2>3. CASE j <= k
      <3>1. j * ChunkSize <= k * ChunkSize
        BY <1>1, <1>2, <2>1, <2>3, MultiplesApart
      <3>. QED
        BY <1>1, <1>2, <2>1, <3>1
    <2>. QED
      BY <2>2, <2>3, <1>2, <2>1
  <1>8. \A i \in starts : i \in Int
    BY DEF ChunkStarts
  <1> HIDE DEF end, starts
  <1>9. {i \in starts : i < end} = {i \in starts : i < start} \cup {start}
    <2>1. start \in starts /\ end \in Int
      BY <1>1, <1>3, <1>4 DEF starts
    <2>2. \A i \in starts : i < end <=> i < start \/ i = start
      BY <2>1, <1>3, <1>5, <1>7, <1>8
    <2>. QED
      BY <2>1, <2>2
  <1>. QED
    BY <1>6, <1>9 DEF end, starts

-----------------------------------------------------------------------------
\* The calls in progress and the last answer.

ObjectSound(o, version, reg) ==
    /\ DOMAIN o = {"busy", "source", "version", "outs"}
    /\ o.busy \in BOOLEAN
    /\ \E S : o.outs \in Seq(S)
    /\ ~o.busy => o.outs = <<>>
    /\ o.busy =>
        /\ o.source \in Objects
        /\ o.version \in Nat
        /\ o.version <= version
        /\ Len(o.outs) <= Len(o.source)
        /\ \A i \in 1 .. Len(o.outs) :
            /\ o.outs[i].version \in Nat
            /\ o.version <= o.outs[i].version
            /\ o.outs[i].version <= reg.version
            /\ o.outs[i].version = reg.version =>
                    AnswersString(o.outs[i].output, o.source[i].text, reg)

\* The spans of the chunks that start before end.
SpansBefore(text, reg, end) ==
    UNION {ChunkSpans(text, reg, start, ChunkSize,
                      ScanStringToken(WindowText(text, reg, start, ChunkSize), reg))
        : start \in {i \in ChunkStarts(text, ChunkSize) : i < end}}

\* text is what the object in progress, if there is one, sanitizes next.
IsNext(o, text) ==
    o.busy => Len(o.outs) < Len(o.source) /\ text = o.source[Len(o.outs) + 1].text

LargeSound(l, o, version, reg) ==
    /\ DOMAIN l = {"busy", "text", "start", "spans"}
    /\ l.busy \in BOOLEAN
    /\ l.busy =>
        /\ l.text \in Texts
        /\ Len(l.text) > ChunkSize
        /\ ~TooShort(l.text, reg)
        /\ version = reg.version
        /\ l.start \in ChunkStarts(l.text, ChunkSize) \cup {Len(l.text) + 1}
        /\ l.spans = SpansBefore(l.text, reg, l.start)
        /\ IsNext(o, l.text)

ResultSound(r, reg) ==
    /\ r.version \in Nat
    /\ r.version <= reg.version
    /\ r.kind = "string" /\ r.version = reg.version => AnswersString(r.output, r.source, reg)
    /\ r.kind = "object" /\ r.steady /\ r.version = reg.version =>
            AnswersObject(r.output, r.source, reg)

\* The inductive invariant.
CacheInv ==
    /\ Consistent(registry)
    /\ Sound(cache, registry)
    /\ ObjectSound(object, cache.version, registry)
    /\ LargeSound(large, object, cache.version, registry)
    /\ ResultSound(result, registry)

\* Texts are byte strings, and the texts of objects are among them.
LEMMA TextsAreBytes ==
    /\ \A text \in Texts : text \in Seq(Byte)
    /\ \A obj \in Objects : \A i \in 1 .. Len(obj) : obj[i].text \in Texts
  <1>1. \A obj \in Objects : obj \in Seq([raw: Seq(Byte), text: Seq(Byte)])
    BY CacheAssumption
  <1>2. ASSUME NEW obj \in Objects, NEW i \in DOMAIN obj
        PROVE  obj[i].text \in Seq(Byte)
    <2> DEFINE Leaf == [raw: Seq(Byte), text: Seq(Byte)]
    <2>1. obj \in Seq(Leaf)
      BY <1>1
    <2>2. \A leaf \in Leaf : leaf.text \in Seq(Byte)
      OBVIOUS
    <2> HIDE DEF Leaf
    <2>3. obj[i] \in Leaf
      BY <2>1
    <2>. QED
      BY <2>2, <2>3
  <1>3. Strings \subseteq Seq(Byte)
    BY CacheAssumption
  <1>4. \A obj \in Objects : \A i \in 1 .. Len(obj) : i \in DOMAIN obj
    BY <1>1
  <1>. QED
    BY <1>2, <1>3, <1>4 DEF Texts

\* What frames remember stays true, or becomes irrelevant, when the registry grows.
LEMMA FramesGrow ==
    ASSUME NEW o, NEW r, NEW v \in Nat, NEW w \in Nat, v <= w, NEW old, NEW new,
           Consistent(old), Consistent(new), Grown(old, new)
    PROVE  /\ ObjectSound(o, v, old) => ObjectSound(o, w, new)
           /\ ResultSound(r, old) => ResultSound(r, new)
  <1>1. old.version \in Nat /\ new.version \in Nat
    BY ConsistentVersion
  <1>2. ObjectSound(o, v, old) => ObjectSound(o, w, new)
    BY <1>1 DEF ObjectSound, Grown
  <1>3. ResultSound(r, old) => ResultSound(r, new)
    BY <1>1 DEF ResultSound, Grown
  <1>. QED
    BY <1>2, <1>3

\* Without a long string in progress nothing is asked of the frame that would hold one.
LEMMA IdleLargeSound ==
    ASSUME NEW l, NEW o, NEW v, NEW reg, ~l.busy, l.busy \in BOOLEAN,
           DOMAIN l = {"busy", "text", "start", "spans"}
    PROVE  LargeSound(l, o, v, reg)
  BY DEF LargeSound

\* A string call that answers as an uncached one may keeps the frames sound.
LEMMA ReturnSound ==
    ASSUME CacheInv, NEW reg, Consistent(reg), Grown(registry, reg), NEW v \in Nat,
           cache.version <= v, v <= reg.version, NEW text, IsNext(object, text),
           NEW output, AnswersString(output, text, reg), Return(text, reg.version, output)
    PROVE  ObjectSound(object', v, reg) /\ ResultSound(result', reg)
  <1>1. ObjectSound(object, v, reg) /\ ResultSound(result, reg)
    BY FramesGrow DEF CacheInv, Sound
  <1>2. reg.version \in Nat
    BY ConsistentVersion
  <1>3. CASE object.busy
    <2> DEFINE out == [version |-> reg.version, output |-> output]
    <2>1. object' = [object EXCEPT !.outs = Append(object.outs, out)] /\ result' = result
      BY <1>3 DEF Return
    <2>2. PICK S : object.outs \in Seq(S)
      BY <1>1 DEF ObjectSound
    <2>3. object.outs \in Seq(S \cup {out}) /\ out \in S \cup {out}
      BY <2>2
    <2>4. /\ Append(object.outs, out) \in Seq(S \cup {out})
          /\ Len(Append(object.outs, out)) = Len(object.outs) + 1
          /\ Len(object.outs) \in Nat
          /\ \A i \in 1 .. Len(object.outs) : Append(object.outs, out)[i] = object.outs[i]
          /\ Append(object.outs, out)[Len(object.outs) + 1] = out
      BY <2>3
    <2>5. /\ DOMAIN object' = DOMAIN object
          /\ object'.busy = object.busy
          /\ object'.source = object.source
          /\ object'.version = object.version
          /\ object'.outs = Append(object.outs, out)
      BY <2>1, <1>1 DEF ObjectSound
    <2>6. /\ object.source \in Objects
          /\ Len(object.source) \in Nat
          /\ Len(object.outs) < Len(object.source)
          /\ text = object.source[Len(object.outs) + 1].text
      BY <1>3, <1>1, CacheAssumption DEF IsNext, ObjectSound
    <2>7. out.version = reg.version /\ AnswersString(out.output, text, reg)
      OBVIOUS
    <2> HIDE DEF out
    <2>8. ASSUME NEW i \in 1 .. (Len(object.outs) + 1)
          PROVE  /\ object'.outs[i].version \in Nat
                 /\ object.version <= object'.outs[i].version
                 /\ object'.outs[i].version <= reg.version
                 /\ object'.outs[i].version = reg.version =>
                        AnswersString(object'.outs[i].output, object.source[i].text, reg)
      <3>1. CASE i \in 1 .. Len(object.outs)
        BY <3>1, <1>1, <1>3, <2>4, <2>5 DEF ObjectSound
      <3>2. CASE i = Len(object.outs) + 1
        BY <3>2, <1>1, <1>2, <1>3, <2>4, <2>5, <2>6, <2>7 DEF ObjectSound
      <3>. QED
        BY <3>1, <3>2, <2>4
    <2>9. ObjectSound(object', v, reg)
      BY <1>1, <1>3, <2>4, <2>5, <2>6, <2>8 DEF ObjectSound
    <2>. QED
      BY <1>1, <2>1, <2>9
  <1>4. CASE ~object.busy
    BY <1>1, <1>2, <1>4 DEF Return, ResultSound
  <1>. QED
    BY <1>3, <1>4
-----------------------------------------------------------------------------
\* The actions, one lemma each.

LEMMA PassThroughSound ==
    ASSUME CacheInv, ~large.busy, NEW text \in Texts, IsNext(object, text), PassThrough(text)
    PROVE  CacheInv'
  <1> DEFINE reg == WithDetected(text)
  <1>1. Consistent(reg) /\ Grown(registry, reg) /\ registry' = reg
    BY DetectedGrows DEF CacheInv, PassThrough
  <1>2. cache' = cache /\ large' = large
    BY DEF PassThrough
  <1>3. Return(text, reg.version, text) /\ AnswersString(text, text, reg)
    BY DEF PassThrough, FreshString, AnswersString
  <1> HIDE DEF reg
  <1>4. Sound(cache, reg)
    BY <1>1, SoundGrows DEF CacheInv
  <1>5. cache.version \in Nat /\ cache.version <= reg.version
    BY <1>4 DEF Sound
  <1>6. ObjectSound(object', cache.version, reg) /\ ResultSound(result', reg)
    BY <1>1, <1>3, <1>5, ReturnSound
  <1>7. LargeSound(large, object', cache.version, reg)
    BY IdleLargeSound DEF CacheInv, LargeSound
  <1>. QED
    BY <1>1, <1>2, <1>4, <1>6, <1>7 DEF CacheInv

LEMMA BeginLargeSound ==
    ASSUME CacheInv, ~large.busy, NEW text \in Texts, IsNext(object, text), BeginLarge(text)
    PROVE  CacheInv'
  <1> DEFINE reg == WithDetected(text)
             c == Synced(cache, reg)
  <1>1. Consistent(reg) /\ Grown(registry, reg) /\ registry' = reg
    BY DetectedGrows DEF CacheInv, BeginLarge
  <1>2. /\ ~TooShort(text, reg) /\ Len(text) > ChunkSize
        /\ cache' = c /\ object' = object /\ result' = result
        /\ large' = [busy |-> TRUE, text |-> text, start |-> 1, spans |-> {}]
    BY DEF BeginLarge
  <1> HIDE DEF reg
  <1>3. Sound(c, reg) /\ c.version = reg.version
    BY <1>1, SyncedSound DEF CacheInv
  <1> HIDE DEF c
  <1>4. cache.version \in Nat /\ c.version \in Nat /\ cache.version <= c.version
    BY <1>1, <1>3, SoundGrows DEF CacheInv, Sound
  <1>5. ObjectSound(object, c.version, reg) /\ ResultSound(result, reg)
    BY <1>1, <1>4, FramesGrow DEF CacheInv
  <1>6. 1 \in ChunkStarts(text, ChunkSize)
    <2>1. text \in Seq(Byte) /\ ChunkSize \in Nat \ {0}
      BY TextsAreBytes, CacheAssumption
    <2>2. Len(text) \in Nat /\ 1 \in 1 .. Len(text) /\ 0 \in 0 .. Len(text) /\ 1 = 0 * ChunkSize + 1
      BY <2>1, <1>2
    <2>. QED
      BY <2>2 DEF ChunkStarts
  <1>7. SpansBefore(text, reg, 1) = {}
    <2>1. text \in Seq(Byte) /\ Len(text) \in Nat
      BY TextsAreBytes
    <2>2. {i \in ChunkStarts(text, ChunkSize) : i < 1} = {}
      BY <2>1 DEF ChunkStarts
    <2>. QED
      BY <2>2 DEF SpansBefore
  <1>8. LargeSound(large', object, c.version, reg)
    BY <1>2, <1>3, <1>6, <1>7 DEF LargeSound
  <1>. QED
    BY <1>1, <1>2, <1>3, <1>5, <1>8 DEF CacheInv

LEMMA HitSound ==
    ASSUME CacheInv, ~large.busy, NEW text \in Texts, IsNext(object, text), Hit(text)
    PROVE  CacheInv'
  <1> DEFINE reg == WithDetected(text)
             c == Synced(cache, reg)
             key == Key(reg, text)
             entry == c.entries[key]
  <1>1. Consistent(reg) /\ Grown(registry, reg) /\ registry' = reg
    BY DetectedGrows DEF CacheInv, Hit
  <1>2. /\ ~TooShort(text, reg) /\ Len(text) <= ChunkSize /\ Cached(c, key)
        /\ cache' = Refreshed(c, key) /\ large' = large
        /\ Return(text, reg.version,
                  IF entry.kind = "sanitized" THEN entry.output ELSE ApplySpans(text, entry.spans))
    BY DEF Hit
  <1> HIDE DEF reg
  <1>3. Sound(c, reg) /\ c.version = reg.version
    BY <1>1, SyncedSound DEF CacheInv
  <1> HIDE DEF c
  <1>4. Sound(cache', reg) /\ cache'.version = reg.version
    BY <1>2, <1>3, LookedUpSound
  <1>5. Means(entry, text, reg) /\ entry.kind \in {"spans", "sanitized"}
    BY <1>2, <1>3 DEF Sound, Cached, Key
  <1>6. FreshString(text, reg) = ApplySpans(text, ScanStringToken(text, reg))
    BY <1>2, TextsAreBytes, CacheAssumption DEF FreshString, FreshSpans
  <1> DEFINE output == IF entry.kind = "sanitized" THEN entry.output
                       ELSE ApplySpans(text, entry.spans)
  <1>7. AnswersString(output, text, reg)
    <2>1. CASE entry.kind = "spans"
      BY <2>1, <1>5, <1>6 DEF Means, AnswersString
    <2>2. CASE entry.kind = "sanitized"
      BY <2>2, <1>5 DEF Means, AnswersString
    <2>. QED
      BY <2>1, <2>2, <1>5
  <1>8. Return(text, reg.version, output)
    BY <1>2
  <1> HIDE DEF key, entry, output
  <1>9. /\ cache.version \in Nat /\ cache'.version \in Nat
        /\ cache.version <= cache'.version /\ cache'.version <= reg.version
    BY <1>1, <1>4, SoundGrows DEF CacheInv, Sound
  <1>10. ObjectSound(object', cache'.version, reg) /\ ResultSound(result', reg)
    BY <1>1, <1>7, <1>8, <1>9, ReturnSound
  <1>11. LargeSound(large, object', cache'.version, reg)
    BY IdleLargeSound DEF CacheInv, LargeSound
  <1>. QED
    BY <1>1, <1>2, <1>4, <1>10, <1>11 DEF CacheInv

\* Any insertion of freshly scanned spans.
LEMMA SpansEntryMeans ==
    ASSUME NEW reg, NEW bytes
    PROVE  LET entry == SpansEntry(ScanStringToken(bytes, reg))
           IN  entry.kind \in {"spans", "sanitized"} /\ Means(entry, bytes, reg)
  BY DEF SpansEntry, Means

LEMMA MissSound ==
    ASSUME CacheInv, ~large.busy, NEW text \in Texts, IsNext(object, text), Miss(text)
    PROVE  CacheInv'
  <1> DEFINE reg == WithDetected(text)
             c == Synced(cache, reg)
             spans == ScanStringToken(text, reg)
  <1>1. Consistent(reg) /\ Grown(registry, reg) /\ registry' = reg
    BY DetectedGrows DEF CacheInv, Miss
  <1>2. /\ ~TooShort(text, reg) /\ Len(text) <= ChunkSize
        /\ cache' = Inserted(c, <<reg.version, text>>, SpansEntry(spans)) /\ large' = large
        /\ Return(text, reg.version, ApplySpans(text, spans))
    BY DEF Miss, Key
  <1> HIDE DEF reg
  <1>3. Sound(c, reg) /\ c.version = reg.version
    BY <1>1, SyncedSound DEF CacheInv
  <1> HIDE DEF c
  <1>4. Sound(cache', reg) /\ cache'.version = reg.version
    BY <1>2, <1>3, SpansEntryMeans, InsertedSound
  <1>5. AnswersString(ApplySpans(text, spans), text, reg)
    BY <1>2, TextsAreBytes, CacheAssumption DEF FreshString, FreshSpans, AnswersString
  <1> HIDE DEF spans
  <1>6. /\ cache.version \in Nat /\ cache'.version \in Nat
        /\ cache.version <= cache'.version /\ cache'.version <= reg.version
    BY <1>1, <1>4, SoundGrows DEF CacheInv, Sound
  <1>7. ObjectSound(object', cache'.version, reg) /\ ResultSound(result', reg)
    BY <1>1, <1>2, <1>5, <1>6, ReturnSound
  <1>8. LargeSound(large, object', cache'.version, reg)
    BY IdleLargeSound DEF CacheInv, LargeSound
  <1>. QED
    BY <1>1, <1>2, <1>4, <1>7, <1>8 DEF CacheInv

\* All four branches of sanitize_decoded_string.
LEMMA StringCallSound ==
    ASSUME CacheInv, ~large.busy, NEW text \in Texts, IsNext(object, text),
           StringCall(text)
    PROVE  CacheInv'
  BY PassThroughSound, BeginLargeSound, HitSound, MissSound DEF StringCall

\* One more chunk: the window's spans, cached or not, are those of a fresh scan.
LEMMA ScanWindowSound ==
    ASSUME CacheInv, ScanWindow
    PROVE  CacheInv'
  <1> DEFINE text == large.text
             start == large.start
             window == WindowText(text, registry, start, ChunkSize)
             key == Key(registry, window)
             usable == CachedAs(cache, key, "spans")
             spans == IF usable THEN cache.entries[key].spans ELSE ScanStringToken(window, registry)
  <1>1. /\ large.busy /\ start <= Len(text)
        /\ cache' = IF usable THEN Refreshed(cache, key)
                    ELSE Inserted(LookedUp(cache, key), key, SpansEntry(spans))
        /\ large' = [large EXCEPT
                        !.start = ChunkEnd(text, start, ChunkSize),
                        !.spans = large.spans
                                    \cup ChunkSpans(text, registry, start, ChunkSize, spans)]
        /\ registry' = registry /\ object' = object /\ result' = result
    BY DEF ScanWindow
  <1>2. /\ DOMAIN large = {"busy", "text", "start", "spans"}
        /\ text \in Texts /\ Len(text) > ChunkSize /\ ~TooShort(text, registry)
        /\ cache.version = registry.version
        /\ start \in ChunkStarts(text, ChunkSize) \cup {Len(text) + 1}
        /\ large.spans = SpansBefore(text, registry, start)
        /\ IsNext(object, text)
    BY <1>1 DEF CacheInv, LargeSound
  <1>3. Sound(cache, registry)
    BY DEF CacheInv
  <1>4. spans = ScanStringToken(window, registry)
    <2>1. CASE usable
      BY <2>1, <1>2, <1>3 DEF CachedAs, Cached, Key, Sound, Means
    <2>2. CASE ~usable
      BY <2>2
    <2>. QED
      BY <2>1, <2>2
  <1>5. Sound(cache', registry) /\ cache'.version = registry.version
    <2>1. CASE usable
      BY <2>1, <1>1, <1>2, <1>3, LookedUpSound DEF CachedAs
    <2>2. CASE ~usable
      <3>1. Sound(LookedUp(cache, key), registry)
            /\ LookedUp(cache, key).version = registry.version
        BY <1>2, <1>3, LookedUpSound
      <3>. QED
        BY <2>2, <3>1, <1>1, <1>4, SpansEntryMeans, InsertedSound DEF Key
    <2>. QED
      BY <2>1, <2>2
  <1> HIDE DEF usable, key
  <1>6. start \in ChunkStarts(text, ChunkSize) /\ text \in Seq(Byte)
    BY <1>1, <1>2, TextsAreBytes
  <1>7. /\ large'.busy /\ large'.text = text
        /\ large'.start = ChunkEnd(text, start, ChunkSize)
        /\ large'.spans = SpansBefore(text, registry, start)
                            \cup ChunkSpans(text, registry, start, ChunkSize, spans)
        /\ DOMAIN large' = DOMAIN large
    BY <1>1, <1>2
  <1>8. large'.spans = SpansBefore(text, registry, ChunkEnd(text, start, ChunkSize))
    BY <1>4, <1>6, <1>7, ChunkEndIsNextStart DEF SpansBefore
  <1>9. large'.start \in ChunkStarts(text, ChunkSize) \cup {Len(text) + 1}
    BY <1>6, <1>7, ChunkEndIsNextStart
  <1> HIDE DEF text, start, window, spans
  <1>10. LargeSound(large', object, cache'.version, registry)
    <2>1. /\ large'.text \in Texts
          /\ Len(large'.text) > ChunkSize
          /\ ~TooShort(large'.text, registry)
          /\ IsNext(object, large'.text)
      BY <1>2, <1>7
    <2>. QED
      BY <2>1, <1>2, <1>5, <1>7, <1>8, <1>9 DEF LargeSound
  <1>11. ObjectSound(object, cache'.version, registry)
    BY <1>2, <1>5 DEF CacheInv
  <1>. QED
    BY <1>1, <1>5, <1>10, <1>11 DEF CacheInv
\* Behind the last chunk lie all of them, so the spans are those of the uncached scan.
LEMMA EndLargeSound ==
    ASSUME CacheInv, EndLarge
    PROVE  CacheInv'
  <1> DEFINE text == large.text
  <1>1. /\ large.busy /\ large.start > Len(text)
        /\ Return(text, registry.version,
                  ApplySpans(text, SelectLongestNonOverlapping(large.spans)))
        /\ large' = IdleLarge /\ registry' = registry /\ cache' = cache
    BY DEF EndLarge
  <1>2. /\ text \in Texts /\ Len(text) > ChunkSize /\ ~TooShort(text, registry)
        /\ cache.version = registry.version
        /\ large.start \in ChunkStarts(text, ChunkSize) \cup {Len(text) + 1}
        /\ large.spans = SpansBefore(text, registry, large.start)
        /\ IsNext(object, text)
    BY <1>1 DEF CacheInv, LargeSound
  <1> HIDE DEF text
  <1>3. Len(text) \in Nat
    BY <1>2, TextsAreBytes
  <1>4. {i \in ChunkStarts(text, ChunkSize) : i < large.start} = ChunkStarts(text, ChunkSize)
    <2>1. \A i \in ChunkStarts(text, ChunkSize) : i \in 1 .. Len(text)
      BY DEF ChunkStarts
    <2>2. large.start = Len(text) + 1
      BY <1>1, <1>2, <1>3, <2>1
    <2>. QED
      BY <1>3, <2>1, <2>2
  <1>5. SelectLongestNonOverlapping(large.spans) = FreshSpans(text, registry, ChunkSize)
    BY <1>2, <1>4 DEF SpansBefore, FreshSpans, ChunkedScan
  <1> DEFINE output == ApplySpans(text, SelectLongestNonOverlapping(large.spans))
  <1>6. Return(text, registry.version, output) /\ AnswersString(output, text, registry)
    BY <1>1, <1>2, <1>5 DEF FreshString, AnswersString
  <1> HIDE DEF output
  <1>7. cache.version \in Nat /\ cache.version <= registry.version /\ Grown(registry, registry)
    BY DEF CacheInv, Sound, Grown
  <1>8. Consistent(registry) /\ Sound(cache, registry)
    BY DEF CacheInv
  <1>9. ObjectSound(object', cache.version, registry) /\ ResultSound(result', registry)
    BY <1>2, <1>6, <1>7, <1>8, ReturnSound
  <1>10. LargeSound(large', object', cache.version, registry)
    BY <1>1, IdleLargeSound DEF IdleLarge
  <1>. QED
    BY <1>1, <1>8, <1>9, <1>10 DEF CacheInv

\* A cached object is the object that was cached: the key holds its bytes.
LEMMA ObjectHitSound ==
    ASSUME CacheInv, NEW obj \in Objects, ObjectHit(obj)
    PROVE  CacheInv'
  <1> DEFINE c == Synced(cache, registry)
             key == Key(registry, Canonical(obj))
  <1>1. /\ CachedAs(c, key, "sanitized") /\ cache' = Refreshed(c, key)
        /\ result' = [kind |-> "object", source |-> obj, version |-> registry.version,
                      steady |-> TRUE, output |-> c.entries[key].output]
        /\ ~object.busy /\ ~large.busy
        /\ registry' = registry /\ object' = object /\ large' = large
    BY DEF ObjectHit, Idle
  <1>2. Consistent(registry) /\ Grown(registry, registry) /\ registry.version \in Nat
    BY ConsistentVersion DEF CacheInv, Grown
  <1>3. Sound(c, registry) /\ c.version = registry.version
    BY <1>2, SyncedSound DEF CacheInv
  <1> HIDE DEF c
  <1>4. Sound(cache', registry) /\ cache'.version = registry.version
    BY <1>1, <1>3, LookedUpSound DEF CachedAs
  <1>5. AnswersObject(c.entries[key].output, obj, registry)
    <2>1. Means(c.entries[key], Canonical(obj), registry) /\ c.entries[key].kind = "sanitized"
      BY <1>1, <1>3 DEF CachedAs, Cached, Key, Sound
    <2>. QED
      BY <2>1, CanonicalAssumption DEF Means
  <1> HIDE DEF key
  <1>6. ResultSound(result', registry)
    BY <1>1, <1>2, <1>5 DEF ResultSound
  <1>7. ObjectSound(object, cache'.version, registry)
    BY <1>1 DEF CacheInv, ObjectSound
  <1>8. LargeSound(large, object, cache'.version, registry)
    BY <1>1, IdleLargeSound DEF CacheInv, LargeSound
  <1>. QED
    BY <1>1, <1>2, <1>4, <1>6, <1>7, <1>8 DEF CacheInv

LEMMA BeginObjectSound ==
    ASSUME CacheInv, NEW obj \in Objects, BeginObject(obj)
    PROVE  CacheInv'
  <1> DEFINE c == Synced(cache, registry)
             key == Key(registry, Canonical(obj))
  <1>1. /\ cache' = LookedUp(c, key)
        /\ object' = [busy |-> TRUE, source |-> obj, version |-> registry.version, outs |-> <<>>]
        /\ ~large.busy
        /\ registry' = registry /\ large' = large /\ result' = result
    BY DEF BeginObject, Idle
  <1>2. Consistent(registry) /\ Grown(registry, registry) /\ registry.version \in Nat
    BY ConsistentVersion DEF CacheInv, Grown
  <1>3. Sound(c, registry) /\ c.version = registry.version
    BY <1>2, SyncedSound DEF CacheInv
  <1> HIDE DEF c, key
  <1>4. Sound(cache', registry) /\ cache'.version = registry.version
    BY <1>1, <1>3, LookedUpSound
  <1>5. Len(obj) \in Nat /\ Len(<<>>) = 0 /\ <<>> \in Seq({})
    BY CacheAssumption
  <1>6. ObjectSound(object', cache'.version, registry)
    BY <1>1, <1>2, <1>4, <1>5 DEF ObjectSound
  <1>7. LargeSound(large, object', cache'.version, registry)
    BY <1>1, IdleLargeSound DEF CacheInv, LargeSound
  <1>. QED
    BY <1>1, <1>2, <1>4, <1>6, <1>7 DEF CacheInv

LEMMA SanitizeLeafSound ==
    ASSUME CacheInv, SanitizeLeaf
    PROVE  CacheInv'
  <1>1. /\ object.busy /\ ~large.busy
        /\ Len(object.outs) < Len(object.source) /\ StringCall(NextText)
    BY DEF SanitizeLeaf, InClosure
  <1>2. object.source \in Objects /\ \E S : object.outs \in Seq(S)
    BY <1>1 DEF CacheInv, ObjectSound
  <1>3. Len(object.outs) \in Nat /\ Len(object.source) \in Nat
    BY <1>2, CacheAssumption
  <1>4. Len(object.outs) + 1 \in 1 .. Len(object.source)
    BY <1>1, <1>3
  <1>5. NextText \in Texts
    BY <1>2, <1>4, TextsAreBytes DEF NextText
  <1>6. IsNext(object, NextText)
    BY <1>1 DEF IsNext, NextText
  <1>. QED
    BY <1>1, <1>5, <1>6, StringCallSound

LEMMA IdleObjectSound ==
    ASSUME NEW v, NEW reg
    PROVE  ObjectSound(IdleObject, v, reg)
  <1>1. <<>> \in Seq({})
    OBVIOUS
  <1>. QED
    BY <1>1 DEF ObjectSound, IdleObject

LEMMA FailObjectSound ==
    ASSUME CacheInv, FailObject
    PROVE  CacheInv'
  <1>1. /\ object' = IdleObject /\ ~large.busy
        /\ registry' = registry /\ cache' = cache /\ large' = large /\ result' = result
    BY DEF FailObject, InClosure
  <1>2. LargeSound(large, object', cache.version, registry)
    BY <1>1, IdleLargeSound DEF CacheInv, LargeSound
  <1>. QED
    BY <1>1, <1>2, IdleObjectSound DEF CacheInv

\* Where the registry is the one the object began under, every text of it was sanitized under
\* that registry, and the rendered whole is what an uncached redaction renders.
LEMMA EndObjectSound ==
    ASSUME CacheInv, EndObject
    PROVE  CacheInv'
  <1> DEFINE obj == object.source
             outs == object.outs
             output == Rendered(obj, [i \in DOMAIN outs |-> outs[i].output])
             bytes == Canonical(obj)
  <1>1. /\ object.busy /\ ~large.busy /\ Len(outs) = Len(obj)
        /\ cache' = AfterClosure(cache, registry, object.version, bytes, output)
        /\ result' = [kind |-> "object", source |-> obj, version |-> registry.version,
                      steady |-> registry.version = object.version, output |-> output]
        /\ object' = IdleObject /\ registry' = registry /\ large' = large
    BY DEF EndObject, InClosure
  <1>2. Consistent(registry) /\ registry.version \in Nat /\ Sound(cache, registry)
    BY ConsistentVersion DEF CacheInv
  <1>3. ObjectSound(object, cache.version, registry)
    BY DEF CacheInv
  <1>4. cache.version \in Nat /\ cache.version <= registry.version
    BY <1>2 DEF Sound
  <1>5. registry.version = object.version =>
            AnswersObject(output, obj, registry) /\ cache.version = registry.version
    <2> SUFFICES ASSUME registry.version = object.version
                 PROVE  AnswersObject(output, obj, registry) /\ cache.version = registry.version
      OBVIOUS
    <2>1. cache.version = registry.version
      BY <1>1, <1>3, <1>4 DEF ObjectSound
    <2>2. DOMAIN outs = 1 .. Len(outs) /\ DOMAIN obj = 1 .. Len(obj)
      BY <1>1, <1>3, CacheAssumption DEF ObjectSound
    <2>3. \A i \in 1 .. Len(outs) : AnswersString(outs[i].output, obj[i].text, registry)
      BY <1>1, <1>2, <1>3 DEF ObjectSound
    <2>4. ASSUME Plain(obj)
          PROVE  output = FreshObject(obj, registry)
      <3>1. \A i \in 1 .. Len(outs) : outs[i].output = FreshString(obj[i].text, registry)
        BY <1>1, <2>2, <2>3, <2>4 DEF AnswersString, Plain
      <3>2. [i \in DOMAIN outs |-> outs[i].output]
              = [i \in DOMAIN obj |-> FreshString(obj[i].text, registry)]
        BY <1>1, <2>2, <3>1
      <3>. QED
        BY <3>2 DEF FreshObject
    <2>. QED
      BY <2>1, <2>4 DEF AnswersObject
  <1>6. obj \in Objects
    BY <1>1, <1>3 DEF ObjectSound
  <1> HIDE DEF obj, outs, output
  <1>7. Sound(cache', registry)
    <2>1. CASE registry.version # object.version
      BY <2>1, <1>1, <1>2, FlushedSound DEF AfterClosure
    <2>2. CASE registry.version = object.version
      <3>1. /\ SanitizedEntry(output).kind \in {"spans", "sanitized"}
            /\ Means(SanitizedEntry(output), bytes, registry)
        BY <2>2, <1>5, <1>6 DEF SanitizedEntry, Means
      <3>2. cache' = Inserted(cache, <<registry.version, bytes>>, SanitizedEntry(output))
        BY <2>2, <1>1 DEF AfterClosure
      <3> HIDE DEF bytes
      <3>. QED
        BY <2>2, <3>1, <3>2, <1>2, <1>5, InsertedSound
    <2>. QED
      BY <2>1, <2>2
  <1>8. ResultSound(result', registry)
    <2>1. result'.steady => registry.version = object.version
      BY <1>1, Zenon
    <2>2. /\ result'.kind = "object" /\ result'.source = obj
          /\ result'.version = registry.version /\ result'.output = output
      BY <1>1, Zenon
    <2>. QED
      BY <2>1, <2>2, <1>2, <1>5 DEF ResultSound
  <1>9. LargeSound(large, object', cache'.version, registry)
    BY <1>1, IdleLargeSound DEF CacheInv, LargeSound
  <1>. QED
    BY <1>1, <1>2, <1>7, <1>8, <1>9, IdleObjectSound DEF CacheInv

LEMMA IngestBetweenCallsSound ==
    ASSUME CacheInv, IngestBetweenCalls
    PROVE  CacheInv'
  <1>1. PICK label \in Labels, secret \in Secrets : Ingest(label, secret)
    BY DEF IngestBetweenCalls
  <1>2. ~large.busy /\ cache' = cache /\ object' = object /\ large' = large /\ result' = result
    BY DEF IngestBetweenCalls, Idle
  <1>3. Consistent(registry) /\ registry.version \in Nat
    BY ConsistentVersion DEF CacheInv
  <1>4. Consistent(registry') /\ Grown(registry, registry')
    <2>1. registry' = registry \/ registry' = AfterIngest(registry, label, secret)
      BY <1>1 DEF Ingest
    <2>. QED
      BY <2>1, <1>3, IngestConsistent, IngestAppends DEF Grown
  <1>5. Sound(cache, registry')
    BY <1>3, <1>4, SoundGrows DEF CacheInv
  <1>6. cache.version \in Nat /\ cache.version <= cache.version
    BY <1>5 DEF Sound
  <1>7. ObjectSound(object, cache.version, registry') /\ ResultSound(result, registry')
    BY <1>3, <1>4, <1>6, FramesGrow DEF CacheInv
  <1>8. LargeSound(large, object, cache.version, registry')
    BY <1>2, IdleLargeSound DEF CacheInv, LargeSound
  <1>. QED
    BY <1>2, <1>4, <1>5, <1>7, <1>8 DEF CacheInv

-----------------------------------------------------------------------------

LEMMA CacheInvInit == Init => CacheInv
  <1> SUFFICES ASSUME Init PROVE CacheInv
    OBVIOUS
  <1>1. Consistent(registry) /\ registry.version = 0
    BY EmptyConsistent DEF Init, RegistryInit, EmptyRegistry
  <1>2. Sound(cache, registry)
    BY <1>1 DEF Init, EmptyCache, Sound
  <1>3. ObjectSound(object, cache.version, registry)
    BY IdleObjectSound DEF Init
  <1>4. LargeSound(large, object, cache.version, registry)
    BY DEF Init, IdleLarge, LargeSound
  <1>5. ResultSound(result, registry)
    BY <1>1 DEF Init, NoResult, ResultSound
  <1>. QED
    BY <1>1, <1>2, <1>3, <1>4, <1>5 DEF CacheInv

LEMMA CacheInvStep == CacheInv /\ [Next]_vars => CacheInv'
  <1> SUFFICES ASSUME CacheInv, [Next]_vars
               PROVE  CacheInv'
    OBVIOUS
  <1>1. CASE IngestBetweenCalls
    BY <1>1, IngestBetweenCallsSound
  <1>2. CASE SanitizeString
    <2>1. PICK text \in Strings : StringCall(text)
      BY <1>2 DEF SanitizeString
    <2>2. ~large.busy /\ ~object.busy /\ text \in Texts
      BY <1>2 DEF SanitizeString, Idle, Texts
    <2>. QED
      BY <2>1, <2>2, StringCallSound DEF IsNext
  <1>3. ASSUME NEW obj \in Objects, ObjectHit(obj)
        PROVE  CacheInv'
    BY <1>3, ObjectHitSound
  <1>4. ASSUME NEW obj \in Objects, BeginObject(obj)
        PROVE  CacheInv'
    BY <1>4, BeginObjectSound
  <1>5. CASE SanitizeLeaf
    BY <1>5, SanitizeLeafSound
  <1>6. CASE FailObject
    BY <1>6, FailObjectSound
  <1>7. CASE EndObject
    BY <1>7, EndObjectSound
  <1>8. CASE ScanWindow
    BY <1>8, ScanWindowSound
  <1>9. CASE EndLarge
    BY <1>9, EndLargeSound
  <1>10. CASE UNCHANGED vars
    BY <1>10 DEF vars, CacheInv
  <1>. QED
    BY <1>1, <1>2, <1>3, <1>4, <1>5, <1>6, <1>7, <1>8, <1>9, <1>10 DEF Next

\* What the invariant gives, property by property.
LEMMA CacheInvImplies == CacheInv => KeysAreReachable /\ EntriesAreFresh /\ Transparent
  <1> SUFFICES ASSUME CacheInv
               PROVE  KeysAreReachable /\ EntriesAreFresh /\ Transparent
    OBVIOUS
  <1>1. KeysAreReachable /\ EntriesAreFresh
    BY DEF CacheInv, Sound, KeysAreReachable, EntriesAreFresh
  <1>2. \A i \in DOMAIN object.outs : object.outs[i].version = registry.version =>
            AnswersString(object.outs[i].output, object.source[i].text, registry)
    <2>1. PICK S : object.outs \in Seq(S)
      BY DEF CacheInv, ObjectSound
    <2>2. DOMAIN object.outs = 1 .. Len(object.outs)
      BY <2>1
    <2>3. CASE object.busy
      BY <2>2, <2>3 DEF CacheInv, ObjectSound
    <2>4. CASE ~object.busy
      BY <2>2, <2>4 DEF CacheInv, ObjectSound
    <2>. QED
      BY <2>3, <2>4
  <1>3. Transparent
    BY <1>2 DEF CacheInv, ResultSound, Transparent
  <1>. QED
    BY <1>1, <1>3

\* The invariant holds throughout, whatever the cache bound, the chunk size, the order of
\* registrations and the calls that fail.
THEOREM CacheInvariant ==
    Spec => []CacheInv
  <1>1. Init => CacheInv
    BY CacheInvInit
  <1>2. CacheInv /\ [Next]_vars => CacheInv'
    BY CacheInvStep
  <1>. QED
    BY <1>1, <1>2, PTL DEF Spec

\* An entry that can be hit is what a scan under the current registry would find, or what the
\* plain object of its bytes is redacted to; whatever strings spell objects out.
THEOREM CacheEntriesAreFresh ==
    Spec => []EntriesAreFresh
  <1>1. CacheInv => EntriesAreFresh
    BY CacheInvImplies
  <1>2. Spec => []CacheInv
    BY CacheInvariant
  <1>. QED
    BY <1>1, <1>2, PTL

\* The cache cannot be seen: every answer to a string is the one an uncached redaction of it
\* gives, or of the object it spells out, and every answer to a plain object that of the object.
THEOREM CacheIsTransparent ==
    Spec => []Transparent
  <1>1. CacheInv => Transparent
    BY CacheInvImplies
  <1>2. Spec => []CacheInv
    BY CacheInvariant
  <1>. QED
    BY <1>1, <1>2, PTL

-----------------------------------------------------------------------------
\* The recency order.  Nothing here depends on what the entries mean.

\* order lists keys, each of them once.
Lists(order, keys) ==
    /\ order \in Seq(keys)
    /\ \A i, j \in 1 .. Len(order) : order[i] = order[j] => i = j
    /\ \A key \in keys : \E i \in 1 .. Len(order) : order[i] = key

LEMMA ListedCardinality ==
    ASSUME NEW keys, NEW order, Lists(order, keys)
    PROVE  IsFiniteSet(keys) /\ Cardinality(keys) = Len(order)
  <1>1. Len(order) \in Nat /\ order \in [1 .. Len(order) -> keys]
    BY DEF Lists
  <1>2. order \in Bijection(1 .. Len(order), keys)
    BY <1>1 DEF Lists, Bijection, Injection, Surjection, IsInjective
  <1>3. IsFiniteSet(1 .. Len(order)) /\ Cardinality(1 .. Len(order)) = Len(order)
    BY <1>1, FS_Interval
  <1>. QED
    BY <1>2, <1>3, FS_Bijection DEF ExistsBijection

\* Touching takes one key out and leaves the others listed.
LEMMA TouchedLists ==
    ASSUME NEW keys, NEW order, Lists(order, keys), NEW key
    PROVE  /\ Lists(Touched(order, key), keys \ {key})
           /\ key \in keys => Len(Touched(order, key)) + 1 = Len(order)
           /\ key \notin keys => Touched(order, key) = order
  <1>1. /\ order \in Seq(keys) /\ DOMAIN order = 1 .. Len(order) /\ Len(order) \in Nat
        /\ \A i \in 1 .. Len(order) : order[i] \in keys
    BY DEF Lists
  <1>2. CASE key \notin keys
    <2>1. Touched(order, key) = order
      BY <1>1, <1>2 DEF Touched
    <2>2. keys \ {key} = keys
      BY <1>2
    <2>. QED
      BY <1>2, <2>1, <2>2
  <1>3. CASE key \in keys
    <2> DEFINE at == CHOOSE i \in DOMAIN order : order[i] = key
               touched == [i \in 1 .. Len(order) - 1 |->
                              IF i < at THEN order[i] ELSE order[i + 1]]
    <2>1. at \in 1 .. Len(order) /\ order[at] = key
      BY <1>1, <1>3 DEF Lists
    <2>2. Touched(order, key) = touched
      BY <1>1, <2>1 DEF Touched
    <2> HIDE DEF at
    <2>3. \A i \in 1 .. Len(order) : i # at => order[i] \in keys \ {key}
      BY <1>1, <2>1 DEF Lists
    <2>4. touched \in [1 .. Len(order) - 1 -> keys \ {key}]
      BY <1>1, <2>1, <2>3
    <2>5. Len(order) - 1 \in Nat
      BY <1>1, <2>1
    <2>6. touched \in Seq(keys \ {key}) /\ Len(touched) = Len(order) - 1
      BY <2>4, <2>5
    <2>7. ASSUME NEW i \in 1 .. Len(touched), NEW j \in 1 .. Len(touched), touched[i] = touched[j]
          PROVE  i = j
      <3> DEFINE from(k) == IF k < at THEN k ELSE k + 1
      <3>1. /\ from(i) \in 1 .. Len(order) /\ touched[i] = order[from(i)]
            /\ from(j) \in 1 .. Len(order) /\ touched[j] = order[from(j)]
        BY <1>1, <2>1, <2>6
      <3>2. from(i) = from(j)
        BY <2>7, <3>1 DEF Lists
      <3>. QED
        BY <2>1, <2>6, <3>2
    <2>8. ASSUME NEW k \in keys \ {key}
          PROVE  \E i \in 1 .. Len(touched) : touched[i] = k
      <3>1. PICK j \in 1 .. Len(order) : order[j] = k
        BY DEF Lists
      <3>2. j # at
        BY <2>1, <3>1
      <3>3. CASE j < at
        <4>1. j \in 1 .. Len(order) - 1
          BY <1>1, <2>1, <3>3
        <4>2. touched[j] = k
          BY <3>1, <3>3, <4>1
        <4>. QED
          BY <2>6, <4>1, <4>2
      <3>4. CASE j > at
        <4>1. j - 1 \in 1 .. Len(order) - 1 /\ ~(j - 1 < at) /\ (j - 1) + 1 = j
          BY <1>1, <2>1, <3>4
        <4>2. touched[j - 1] = k
          BY <3>1, <4>1
        <4>. QED
          BY <2>6, <4>1, <4>2
      <3>5. j < at \/ j > at
        BY <1>1, <2>1, <3>2
      <3>. QED
        BY <3>3, <3>4, <3>5
    <2> HIDE DEF touched
    <2>. QED
      BY <1>1, <1>3, <2>2, <2>6, <2>7, <2>8 DEF Lists
  <1>. QED
    BY <1>2, <1>3

\* The key that was touched is listed again as the newest.
LEMMA AppendLists ==
    ASSUME NEW keys, NEW key, key \notin keys, NEW order, Lists(order, keys)
    PROVE  /\ Lists(Append(order, key), keys \cup {key})
           /\ Len(Append(order, key)) = Len(order) + 1
           /\ Append(order, key)[Len(order) + 1] = key
  <1>1. /\ order \in Seq(keys) /\ Len(order) \in Nat
        /\ \A i \in 1 .. Len(order) : order[i] \in keys
    BY DEF Lists
  <1>2. order \in Seq(keys \cup {key})
    BY <1>1
  <1>3. /\ Append(order, key) \in Seq(keys \cup {key})
        /\ Len(Append(order, key)) = Len(order) + 1
        /\ \A i \in 1 .. Len(order) : Append(order, key)[i] = order[i]
        /\ Append(order, key)[Len(order) + 1] = key
    BY <1>2
  <1>4. \A i \in 1 .. Len(order) + 1 : i \in 1 .. Len(order) \/ i = Len(order) + 1
    BY <1>1
  <1>5. \A i, j \in 1 .. Len(order) + 1 :
            Append(order, key)[i] = Append(order, key)[j] => i = j
    BY <1>1, <1>3, <1>4 DEF Lists
  <1>6. \A k \in keys \cup {key} : \E i \in 1 .. Len(order) + 1 : Append(order, key)[i] = k
    <2>1. 1 .. Len(order) \subseteq 1 .. Len(order) + 1 /\ Len(order) + 1 \in 1 .. Len(order) + 1
      BY <1>1
    <2>. QED
      BY <1>1, <1>3, <2>1 DEF Lists
  <1>. QED
    BY <1>3, <1>5, <1>6 DEF Lists

\* Without the oldest key the rest of the order lists the others.
LEMMA TailLists ==
    ASSUME NEW keys, NEW order, Lists(order, keys), order # <<>>
    PROVE  /\ Lists(SubSeq(order, 2, Len(order)), keys \ {order[1]})
           /\ Len(SubSeq(order, 2, Len(order))) = Len(order) - 1
           /\ \A i \in 1 .. Len(order) - 1 : SubSeq(order, 2, Len(order))[i] = order[i + 1]
  <1> DEFINE rest == SubSeq(order, 2, Len(order))
  <1>1. /\ order \in Seq(keys) /\ Len(order) \in Nat \ {0}
        /\ \A i \in 1 .. Len(order) : order[i] \in keys
    BY DEF Lists
  <1>2. /\ rest \in Seq(keys)
        /\ \A i \in 1 .. Len(order) - 1 : rest[i] = order[i + 1]
        /\ Len(rest) = Len(order) - 1
    <2>1. /\ 2 \in Int /\ Len(order) \in Int
          /\ \A i \in 2 .. Len(order) : order[i] \in keys
      BY <1>1
    <2>2. /\ rest \in Seq(keys)
          /\ Len(rest) = IF 2 <= Len(order) THEN Len(order) - 2 + 1 ELSE 0
          /\ \A i \in 1 .. Len(order) - 2 + 1 : rest[i] = order[2 + i - 1]
      BY <2>1, SubSeqProperties
    <2> HIDE DEF rest
    <2>3. Len(rest) = Len(order) - 1
      <3>1. Len(order) \in Nat /\ Len(order) # 0
        BY <1>1
      <3>2. CASE 2 <= Len(order)
        <4>1. Len(order) - 2 + 1 = Len(order) - 1
          BY <3>1
        <4>. QED
          BY <2>2, <3>2, <4>1
      <3>3. CASE ~(2 <= Len(order))
        <4>1. 0 = Len(order) - 1
          BY <3>1, <3>3
        <4>. QED
          BY <2>2, <3>3, <4>1
      <3>. QED
        BY <3>2, <3>3
    <2>4. ASSUME NEW i \in 1 .. Len(order) - 1 PROVE rest[i] = order[i + 1]
      <3>1. i \in 1 .. Len(order) - 2 + 1 /\ 2 + i - 1 = i + 1
        BY <1>1
      <3>. QED
        BY <2>2, <3>1
    <2>. QED
      BY <2>2, <2>3, <2>4
  <1> HIDE DEF rest
  <1>3. \A i \in 1 .. Len(order) - 1 : i + 1 \in 1 .. Len(order) /\ i + 1 # 1
    BY <1>1
  <1>4. ASSUME NEW i \in 1 .. Len(order) - 1
        PROVE  rest[i] \in keys \ {order[1]}
    <2>1. i + 1 \in 1 .. Len(order) /\ i + 1 # 1 /\ 1 \in 1 .. Len(order)
      BY <1>1
    <2>2. order[i + 1] # order[1]
      BY <2>1 DEF Lists
    <2>. QED
      BY <1>1, <1>2, <2>1, <2>2
  <1>5. rest \in Seq(keys \ {order[1]})
    BY <1>1, <1>2, <1>4
  <1>6. ASSUME NEW i \in 1 .. Len(rest), NEW j \in 1 .. Len(rest), rest[i] = rest[j]
        PROVE  i = j
    <2>1. /\ i + 1 \in 1 .. Len(order) /\ j + 1 \in 1 .. Len(order)
          /\ order[i + 1] = order[j + 1]
      BY <1>2, <1>3, <1>6
    <2>2. i + 1 = j + 1
      BY <2>1 DEF Lists
    <2>. QED
      BY <1>1, <1>2, <2>2
  <1>7. ASSUME NEW key \in keys \ {order[1]}
        PROVE  \E i \in 1 .. Len(rest) : rest[i] = key
    <2>1. PICK j \in 1 .. Len(order) : order[j] = key
      BY DEF Lists
    <2>2. j - 1 \in 1 .. Len(order) - 1 /\ (j - 1) + 1 = j
      BY <1>1, <2>1
    <2>. QED
      BY <1>2, <2>1, <2>2
  <1>. QED
    BY <1>2, <1>5, <1>6, <1>7 DEF Lists, rest

\* What one cache value promises of its order.
Listed(c) ==
    /\ DOMAIN c = {"version", "entries", "order"}
    /\ Lists(c.order, DOMAIN c.entries)
    /\ Len(c.order) <= MaxEntries

LEMMA FlushedListed == ASSUME NEW version PROVE Listed(Flushed(version))
  BY CacheAssumption DEF Flushed, Listed, Lists

LEMMA SyncedListed ==
    ASSUME NEW c, NEW reg, Listed(c)
    PROVE  /\ Listed(Synced(c, reg))
           /\ Synced(c, reg).version = c.version => Synced(c, reg) = c
           /\ Synced(c, reg).version = reg.version
  BY FlushedListed DEF Synced, Flushed

\* A lookup moves its key to the end, and entries neither come nor go.
LEMMA RefreshedListed ==
    ASSUME NEW c, NEW key, Listed(c), Cached(c, key)
    PROVE  LET d == Refreshed(c, key)
           IN  /\ Listed(d)
               /\ d.version = c.version /\ d.entries = c.entries
               /\ d.order[Len(d.order)] = key
  <1> DEFINE d == Refreshed(c, key)
             keys == DOMAIN c.entries
             order == Touched(c.order, key)
  <1>1. /\ DOMAIN d = DOMAIN c /\ d.version = c.version /\ d.entries = c.entries
        /\ d.order = Append(order, key)
    BY DEF Refreshed, Listed
  <1>2. key \in keys /\ Lists(c.order, keys) /\ Len(c.order) <= MaxEntries
    BY DEF Listed, Cached
  <1>3. Lists(order, keys \ {key}) /\ Len(order) + 1 = Len(c.order)
    BY <1>2, TouchedLists
  <1> HIDE DEF d, order, keys
  <1>4. /\ Lists(Append(order, key), (keys \ {key}) \cup {key})
        /\ Len(Append(order, key)) = Len(order) + 1
        /\ Append(order, key)[Len(order) + 1] = key
    BY <1>3, AppendLists
  <1>5. (keys \ {key}) \cup {key} = keys
    BY <1>2
  <1>. QED
    BY <1>1, <1>2, <1>3, <1>4, <1>5 DEF Listed, d, keys

LEMMA LookedUpListed ==
    ASSUME NEW c, NEW key, Listed(c)
    PROVE  /\ Listed(LookedUp(c, key))
           /\ LookedUp(c, key).version = c.version
           /\ LookedUp(c, key).entries = c.entries
  BY RefreshedListed DEF LookedUp

LEMMA OneFewer ==
    ASSUME NEW S, IsFiniteSet(S), NEW x \in S
    PROVE  Cardinality(S \ {x}) = Cardinality(S) - 1
  BY FS_RemoveElement

\* One key too many takes the oldest away, and only that; none too many takes nothing.
LEMMA EvictedListed ==
    ASSUME NEW c, DOMAIN c = {"version", "entries", "order"},
           Lists(c.order, DOMAIN c.entries), Len(c.order) <= MaxEntries + 1, MaxEntries # 0
    PROVE  LET d == Evicted(c)
           IN  /\ Listed(d)
               /\ d.version = c.version
               /\ Len(c.order) <= MaxEntries => DOMAIN d.entries = DOMAIN c.entries
               /\ Len(c.order) > MaxEntries => DOMAIN d.entries = DOMAIN c.entries \ {c.order[1]}
               /\ c.order # <<>> => d.order[Len(d.order)] = c.order[Len(c.order)]
  <1> DEFINE keys == DOMAIN c.entries
             length == Len(c.order)
             oldest(k) == {c.order[i] : i \in 1 .. k}
             fits(k) == Cardinality(keys \ oldest(k)) <= MaxEntries \/ k = length
             n == CHOOSE k \in 0 .. length : fits(k) /\ \A j \in 0 .. k - 1 : ~fits(j)
             d == Evicted(c)
  <1>1. /\ length \in Nat /\ MaxEntries \in Nat \ {0}
        /\ c.order \in Seq(keys)
        /\ IsFiniteSet(keys) /\ Cardinality(keys) = length
    BY CacheAssumption, ListedCardinality DEF Lists
  <1>2. /\ DOMAIN d = DOMAIN c
        /\ d.version = c.version
        /\ d.order = SubSeq(c.order, n + 1, length)
        /\ d.entries = [key \in keys \ oldest(n) |-> c.entries[key]]
    BY DEF Evicted
  <1>3. /\ oldest(0) = {}
        /\ \A k \in 1 .. length : k = 1 => oldest(k) = {c.order[1]}
    BY <1>1
  <1> HIDE DEF d, oldest
  <1>4. Cardinality(keys \ oldest(0)) = length
    <2>1. keys \ oldest(0) = keys
      BY <1>3
    <2>. QED
      BY <1>1, <2>1
  <1> DEFINE Promise ==
                /\ Listed(d)
                /\ d.version = c.version
                /\ length <= MaxEntries => DOMAIN d.entries = keys
                /\ length > MaxEntries => DOMAIN d.entries = keys \ {c.order[1]}
                /\ c.order # <<>> => d.order[Len(d.order)] = c.order[length]
  <1>5. ASSUME length <= MaxEntries PROVE Promise
    <2>1. 0 \in 0 .. length /\ \A j \in 0 .. 0 - 1 : ~fits(j)
      BY <1>1
    <2>2. fits(0)
      BY <1>4, <1>5
    <2> HIDE DEF fits
    <2>3. n \in 0 .. length /\ \A j \in 0 .. n - 1 : ~fits(j)
      BY <2>1, <2>2
    <2> HIDE DEF n
    <2>4. n = 0
      BY <1>1, <2>2, <2>3
    <2>5. d.order = c.order
      BY <1>1, <1>2, <2>4
    <2>6. DOMAIN d.entries = keys
      BY <1>2, <1>3, <2>4
    <2>7. Listed(d)
      BY <1>2, <1>5, <2>5, <2>6 DEF Listed
    <2>8. ~(length > MaxEntries)
      BY <1>1, <1>5
    <2>9. d.order[Len(d.order)] = c.order[length]
      BY <2>5
    <2>. QED
      BY <1>2, <2>6, <2>7, <2>8, <2>9
  <1>6. ASSUME length > MaxEntries PROVE Promise
    <2>1. length = MaxEntries + 1 /\ c.order # <<>> /\ 1 \in 1 .. length /\ length >= 2
      BY <1>1, <1>6
    <2>2. ~fits(0)
      BY <1>1, <1>4, <2>1
    <2>3. oldest(1) = {c.order[1]} /\ c.order[1] \in keys
      BY <1>1, <1>3, <2>1
    <2>4. fits(1)
      <3>1. Cardinality(keys \ {c.order[1]}) = Cardinality(keys) - 1
        BY <1>1, <2>3, OneFewer
      <3>2. Cardinality(keys \ oldest(1)) = length - 1
        BY <1>1, <2>3, <3>1
      <3>3. length - 1 <= MaxEntries
        BY <1>1, <2>1
      <3>. QED
        BY <3>2, <3>3
    <2> HIDE DEF fits
    <2>5. 1 \in 0 .. length /\ \A j \in 0 .. 1 - 1 : ~fits(j)
      BY <2>1, <2>2
    <2>6. n \in 0 .. length /\ fits(n) /\ \A j \in 0 .. n - 1 : ~fits(j)
      BY <2>4, <2>5
    <2> HIDE DEF n
    <2>7. n = 1
      BY <1>1, <2>2, <2>4, <2>6
    <2>8. d.order = SubSeq(c.order, 2, length) /\ DOMAIN d.entries = keys \ {c.order[1]}
      BY <1>2, <2>3, <2>7
    <2>9. /\ Lists(d.order, keys \ {c.order[1]})
          /\ Len(d.order) = length - 1
          /\ \A i \in 1 .. length - 1 : d.order[i] = c.order[i + 1]
      BY <2>1, <2>8, TailLists
    <2>10. d.order[length - 1] = c.order[length]
      <3>1. length - 1 \in 1 .. length - 1 /\ (length - 1) + 1 = length
        BY <1>1, <2>1
      <3>. QED
        BY <2>9, <3>1
    <2>11. Listed(d)
      <3>1. Lists(d.order, DOMAIN d.entries)
        BY <2>8, <2>9
      <3>2. Len(d.order) <= MaxEntries
        BY <1>1, <2>1, <2>9
      <3>. QED
        BY <1>2, <3>1, <3>2 DEF Listed
    <2>12. ~(length <= MaxEntries)
      BY <1>1, <1>6
    <2>13. d.order[Len(d.order)] = c.order[length]
      BY <2>9, <2>10
    <2>. QED
      BY <1>2, <2>8, <2>11, <2>12, <2>13
  <1>7. Promise
    BY <1>1, <1>5, <1>6
  <1>. QED
    BY <1>7 DEF d

\* An insertion makes its key the newest.  For a key that is there already nothing goes; for
\* a new one the oldest goes, if the cache is full.
LEMMA InsertedListed ==
    ASSUME NEW c, NEW key, NEW entry, Listed(c)
    PROVE  LET d == Inserted(c, key, entry)
           IN  /\ Listed(d)
               /\ d.version = c.version
               /\ MaxEntries # 0 => Cached(d, key) /\ d.order[Len(d.order)] = key
               /\ DOMAIN d.entries \subseteq DOMAIN c.entries \cup {key}
               /\ Cached(c, key) => DOMAIN c.entries \subseteq DOMAIN d.entries
               /\ \/ DOMAIN c.entries \subseteq DOMAIN d.entries
                  \/ DOMAIN c.entries \ DOMAIN d.entries = {c.order[1]}
  <1> DEFINE keys == DOMAIN c.entries
             full == [c EXCEPT !.order = Append(Touched(c.order, key), key),
                               !.entries = Bind(c.entries, key, entry)]
             d == Inserted(c, key, entry)
  <1>1. CASE MaxEntries = 0
    BY <1>1 DEF Inserted
  <1>2. CASE MaxEntries # 0
    <2>1. d = Evicted(full)
      BY <1>2 DEF Inserted
    <2>2. /\ DOMAIN full = DOMAIN c /\ full.version = c.version
          /\ full.order = Append(Touched(c.order, key), key)
          /\ DOMAIN full.entries = keys \cup {key}
      BY DEF Bind, Listed
    <2>3. /\ DOMAIN c = {"version", "entries", "order"}
          /\ Lists(c.order, keys) /\ Len(c.order) \in Nat /\ Len(c.order) <= MaxEntries
          /\ MaxEntries \in Nat
      BY CacheAssumption DEF Listed, Lists
    <2> HIDE DEF full, d, keys
    <2>4. /\ Lists(Touched(c.order, key), keys \ {key})
          /\ key \in keys => Len(Touched(c.order, key)) + 1 = Len(c.order)
          /\ key \notin keys => Touched(c.order, key) = c.order
      BY <2>3, TouchedLists
    <2>5. /\ Lists(full.order, (keys \ {key}) \cup {key})
          /\ Len(full.order) = Len(Touched(c.order, key)) + 1
          /\ full.order[Len(full.order)] = key
          /\ full.order # <<>>
      <3>1. Len(Touched(c.order, key)) \in Nat
        BY <2>4 DEF Lists
      <3>2. key \notin keys \ {key}
        OBVIOUS
      <3>3. /\ Lists(full.order, (keys \ {key}) \cup {key})
            /\ Len(full.order) = Len(Touched(c.order, key)) + 1
            /\ full.order[Len(full.order)] = key
        <4> DEFINE touched == Touched(c.order, key)
        <4>1. /\ Lists(Append(touched, key), (keys \ {key}) \cup {key})
              /\ Len(Append(touched, key)) = Len(touched) + 1
              /\ Append(touched, key)[Len(touched) + 1] = key
          BY <2>4, <3>2, AppendLists
        <4>. QED
          BY <2>2, <4>1
      <3>4. Len(full.order) # 0
        BY <3>1, <3>3
      <3>. QED
        BY <3>3, <3>4
    <2>6. (keys \ {key}) \cup {key} = DOMAIN full.entries
      BY <2>2
    <2>7. Lists(full.order, DOMAIN full.entries)
      BY <2>5, <2>6
    <2>8. CASE key \in keys
      <3>1. Len(full.order) <= MaxEntries /\ Len(full.order) <= MaxEntries + 1
        BY <2>3, <2>4, <2>5, <2>8
      <3>2. /\ Listed(d) /\ d.version = full.version
            /\ DOMAIN d.entries = DOMAIN full.entries
            /\ d.order[Len(d.order)] = full.order[Len(full.order)]
        BY <1>2, <2>1, <2>2, <2>3, <2>5, <2>7, <3>1, EvictedListed
      <3>. QED
        BY <2>2, <2>5, <3>2 DEF d, keys, Cached
    <2>9. CASE key \notin keys
      <3>1. /\ Len(full.order) = Len(c.order) + 1 /\ Len(full.order) <= MaxEntries + 1
            /\ full.order = Append(c.order, key)
        BY <2>2, <2>3, <2>4, <2>5, <2>9
      <3>2. /\ Listed(d) /\ d.version = full.version
            /\ Len(full.order) <= MaxEntries => DOMAIN d.entries = DOMAIN full.entries
            /\ Len(full.order) > MaxEntries =>
                    DOMAIN d.entries = DOMAIN full.entries \ {full.order[1]}
            /\ d.order[Len(d.order)] = full.order[Len(full.order)]
        BY <1>2, <2>1, <2>2, <2>3, <2>5, <2>7, <3>1, EvictedListed
      <3>3. CASE Len(full.order) <= MaxEntries
        BY <2>2, <2>5, <3>2, <3>3 DEF d, keys, Cached
      <3>4. CASE Len(full.order) > MaxEntries
        <4>1. c.order \in Seq(keys) /\ 1 \in 1 .. Len(c.order)
          BY <1>2, <2>3, <3>1, <3>4 DEF Lists
        <4>2. full.order[1] = c.order[1] /\ c.order[1] \in keys
          BY <3>1, <4>1
        <4>3. DOMAIN d.entries = (keys \cup {key}) \ {c.order[1]} /\ c.order[1] # key
          BY <2>2, <2>9, <3>2, <3>4, <4>2
        <4>4. /\ keys \ DOMAIN d.entries = {c.order[1]} /\ key \in DOMAIN d.entries
              /\ DOMAIN d.entries \subseteq keys \cup {key}
          BY <4>2, <4>3
        <4>5. ~Cached(c, key) /\ Cached(d, key)
          BY <2>9, <4>4 DEF Cached, keys
        <4>6. d.version = c.version /\ d.order[Len(d.order)] = key
          BY <2>2, <2>5, <3>2
        <4>. QED
          BY <3>2, <4>4, <4>5, <4>6 DEF d, keys
      <3>. QED
        BY <2>3, <3>1, <3>3, <3>4
    <2>. QED
      BY <2>8, <2>9
  <1>. QED
    BY <1>1, <1>2

\* What goes is older than what stays.
DropsOldest(c, d) ==
    d.version = c.version =>
        \A i, j \in DOMAIN c.order :
            i < j /\ c.order[j] \notin DOMAIN d.entries => c.order[i] \notin DOMAIN d.entries

LEMMA DropsAtMostTheOldest ==
    ASSUME NEW c, NEW d, Listed(c),
           d.version = c.version =>
                \/ DOMAIN c.entries \subseteq DOMAIN d.entries
                \/ DOMAIN c.entries \ DOMAIN d.entries = {c.order[1]}
                \/ DOMAIN d.entries = {}
    PROVE  DropsOldest(c, d)
  <1> SUFFICES ASSUME d.version = c.version, NEW i \in DOMAIN c.order, NEW j \in DOMAIN c.order,
                      i < j, c.order[j] \notin DOMAIN d.entries
               PROVE  c.order[i] \notin DOMAIN d.entries
    BY DEF DropsOldest
  <1>1. /\ i \in 1 .. Len(c.order) /\ j \in 1 .. Len(c.order) /\ 1 \in 1 .. Len(c.order)
        /\ c.order[j] \in DOMAIN c.entries
    BY DEF Listed, Lists
  <1>2. CASE DOMAIN c.entries \subseteq DOMAIN d.entries
    BY <1>1, <1>2
  <1>3. CASE DOMAIN c.entries \ DOMAIN d.entries = {c.order[1]}
    <2>1. c.order[j] = c.order[1]
      BY <1>1, <1>3
    <2>2. j = 1
      BY <1>1, <2>1 DEF Listed, Lists
    <2>. QED
      BY <1>1, <2>2
  <1>4. CASE DOMAIN d.entries = {}
    BY <1>4
  <1>. QED
    BY <1>2, <1>3, <1>4

\* The answer of a short string leaves its key the newest.
AnswerIsNewest ==
    LET cacheable == /\ MaxEntries > 0
                     /\ Len(result'.source) <= ChunkSize
                     /\ ~TooShort(result'.source, registry')
        key == <<result'.version, result'.source>>
    IN  result' # result /\ result'.kind = "string" /\ cacheable =>
            Cached(cache', key) /\ cache'.order[Len(cache'.order)] = key

\* The cache's version is the registry's or an older one, and every key is of it; an object
\* was begun under this version or an older one, and a long string is scanned under one.
OrderInv ==
    /\ Consistent(registry)
    /\ Listed(cache)
    /\ cache.version \in Nat /\ cache.version <= registry.version
    /\ \A key \in DOMAIN cache.entries : key[1] = cache.version
    /\ {"busy", "source", "version", "outs"} \subseteq DOMAIN object /\ object.busy \in BOOLEAN
    /\ \E S : object.outs \in Seq(S)
    /\ object.busy => /\ object.source \in Objects
                      /\ object.version \in Nat /\ object.version <= cache.version
    /\ {"busy", "text"} \subseteq DOMAIN large
    /\ large.busy => /\ large.text \in Texts /\ Len(large.text) > ChunkSize
                     /\ cache.version = registry.version

OrderStep == OrderInv' /\ DropsOldest(cache, cache') /\ AnswerIsNewest

\* A returning string call leaves the frames alone, but for the object's texts.
LEMMA ReturnOrder ==
    ASSUME OrderInv, NEW text, NEW version, NEW output, Return(text, version, output)
    PROVE  /\ DOMAIN object' = DOMAIN object
           /\ object'.busy = object.busy /\ object'.version = object.version
           /\ object'.source = object.source
           /\ \E S : object'.outs \in Seq(S)
           /\ result' # result => result'.source = text /\ result'.version = version
  <1> DEFINE out == [version |-> version, output |-> output]
  <1>1. CASE object.busy
    <2>1. object' = [object EXCEPT !.outs = Append(object.outs, out)] /\ result' = result
      BY <1>1 DEF Return
    <2>2. PICK S : object.outs \in Seq(S)
      BY DEF OrderInv
    <2> HIDE DEF out
    <2>3. object.outs \in Seq(S \cup {out}) /\ out \in S \cup {out}
      BY <2>2
    <2>4. Append(object.outs, out) \in Seq(S \cup {out})
      BY <2>3
    <2>. QED
      BY <2>1, <2>4 DEF OrderInv
  <1>2. CASE ~object.busy
    BY <1>2 DEF Return, OrderInv
  <1>. QED
    BY <1>1, <1>2

\* The four branches of a string call, by what becomes of the cache.
LEMMA StringCallOrder ==
    ASSUME OrderInv, ~large.busy, NEW text \in Texts, StringCall(text)
    PROVE  OrderStep
  <1> DEFINE reg == WithDetected(text)
             c == Synced(cache, reg)
             key == Key(reg, text)
  <1>1. /\ Consistent(reg) /\ reg.version \in Nat /\ registry.version \in Nat
        /\ registry.version <= reg.version
        /\ registry' = reg
    <2>1. Consistent(reg) /\ Grown(registry, reg)
      BY DetectedGrows DEF OrderInv
    <2>2. registry' = reg
      BY DEF StringCall, PassThrough, BeginLarge, Hit, Miss
    <2>. QED
      BY <2>1, <2>2, ConsistentVersion DEF Grown, OrderInv
  <1> HIDE DEF reg
  <1>2. /\ Listed(c) /\ c.version = reg.version
        /\ c.version = cache.version => c = cache
        /\ \A k \in DOMAIN c.entries : k[1] = c.version
    BY SyncedListed DEF OrderInv, Synced, Flushed
  <1>3. key[1] = reg.version /\ key = <<reg.version, text>>
    BY DEF Key
  <1> HIDE DEF c, key
  <1>4. CASE PassThrough(text)
    <2>1. /\ cache' = cache /\ large' = large /\ TooShort(text, reg)
          /\ Return(text, reg.version, text)
      BY <1>4 DEF PassThrough, reg
    <2>2. OrderInv'
      BY <1>1, <2>1, ReturnOrder DEF OrderInv
    <2>3. DropsOldest(cache, cache')
      BY <2>1, DropsAtMostTheOldest DEF OrderInv
    <2>4. AnswerIsNewest
      BY <1>1, <2>1, ReturnOrder DEF AnswerIsNewest
    <2>. QED
      BY <2>2, <2>3, <2>4 DEF OrderStep
  <1>5. CASE BeginLarge(text)
    <2>1. /\ cache' = c /\ object' = object /\ result' = result /\ Len(text) > ChunkSize
          /\ large' = [busy |-> TRUE, text |-> text, start |-> 1, spans |-> {}]
      BY <1>5 DEF BeginLarge, reg, c
    <2>2. OrderInv'
      BY <1>1, <1>2, <2>1 DEF OrderInv
    <2>3. DropsOldest(cache, cache')
      BY <1>2, <2>1, DropsAtMostTheOldest DEF OrderInv
    <2>4. AnswerIsNewest
      BY <2>1 DEF AnswerIsNewest
    <2>. QED
      BY <2>2, <2>3, <2>4 DEF OrderStep
  <1>6. CASE Hit(text) \/ Miss(text)
    <2>1. PICK output : Return(text, reg.version, output)
      BY <1>6 DEF Hit, Miss, reg
    <2>2. large' = large
      BY <1>6 DEF Hit, Miss
    <2>3. /\ Listed(cache') /\ cache'.version = c.version
          /\ \A k \in DOMAIN cache'.entries : k[1] = c.version
          /\ MaxEntries # 0 => Cached(cache', key) /\ cache'.order[Len(cache'.order)] = key
          /\ \/ DOMAIN c.entries \subseteq DOMAIN cache'.entries
             \/ DOMAIN c.entries \ DOMAIN cache'.entries = {c.order[1]}
      <3>1. CASE Hit(text)
        <4>1. Cached(c, key) /\ cache' = Refreshed(c, key)
          BY <3>1 DEF Hit, reg, c, key
        <4>. QED
          BY <1>2, <4>1, RefreshedListed DEF Cached
      <3>2. CASE Miss(text)
        <4>1. PICK entry : cache' = Inserted(c, key, entry)
          BY <3>2 DEF Miss, reg, c, key
        <4>. QED
          BY <1>2, <1>3, <4>1, InsertedListed
      <3>. QED
        BY <1>6, <3>1, <3>2
    <2>4. OrderInv'
      BY <1>1, <1>2, <2>1, <2>2, <2>3, ReturnOrder DEF OrderInv
    <2>5. DropsOldest(cache, cache')
      BY <1>2, <2>3, DropsAtMostTheOldest DEF OrderInv
    <2>6. AnswerIsNewest
      <3>1. result' # result => result'.source = text /\ result'.version = reg.version
        BY <2>1, ReturnOrder
      <3>2. MaxEntries > 0 => MaxEntries # 0
        BY CacheAssumption
      <3>. QED
        BY <1>3, <2>3, <3>1, <3>2 DEF AnswerIsNewest
    <2>. QED
      BY <2>4, <2>5, <2>6 DEF OrderStep
  <1>. QED
    BY <1>4, <1>5, <1>6 DEF StringCall

\* The window of a long string: a lookup, and an insertion where it found nothing to use.
LEMMA ScanWindowOrder == ASSUME OrderInv, ScanWindow PROVE OrderStep
  <1>1. /\ large.busy
        /\ registry' = registry /\ object' = object /\ result' = result
        /\ large' = [large EXCEPT !.start = large'.start, !.spans = large'.spans]
    BY DEF ScanWindow
  <1>2. PICK key, entry : /\ key[1] = registry.version
                         /\ \/ Cached(cache, key) /\ cache' = Refreshed(cache, key)
                            \/ cache' = Inserted(LookedUp(cache, key), key, entry)
    <2> DEFINE window == WindowText(large.text, registry, large.start, ChunkSize)
               key == Key(registry, window)
               usable == CachedAs(cache, key, "spans")
               spans == IF usable THEN cache.entries[key].spans
                        ELSE ScanStringToken(window, registry)
    <2>1. cache' = IF usable THEN Refreshed(cache, key)
                   ELSE Inserted(LookedUp(cache, key), key, SpansEntry(spans))
      BY DEF ScanWindow
    <2>2. key[1] = registry.version /\ (usable => Cached(cache, key))
      BY DEF Key, CachedAs
    <2> HIDE DEF key, usable, spans
    <2>. QED
      BY <2>1, <2>2
  <1>3. /\ Listed(cache') /\ cache'.version = cache.version
        /\ DOMAIN cache'.entries \subseteq DOMAIN cache.entries \cup {key}
        /\ \/ DOMAIN cache.entries \subseteq DOMAIN cache'.entries
           \/ DOMAIN cache.entries \ DOMAIN cache'.entries = {cache.order[1]}
    <2>1. Listed(cache)
      BY DEF OrderInv
    <2>2. CASE Cached(cache, key) /\ cache' = Refreshed(cache, key)
      BY <2>1, <2>2, RefreshedListed
    <2>3. CASE cache' = Inserted(LookedUp(cache, key), key, entry)
      <3> DEFINE c == LookedUp(cache, key)
      <3>1. /\ Listed(c) /\ c.version = cache.version /\ c.entries = cache.entries
            /\ ~Cached(cache, key) => c = cache
        BY <2>1, LookedUpListed DEF LookedUp
      <3> HIDE DEF c
      <3>2. /\ Listed(cache') /\ cache'.version = c.version
            /\ DOMAIN cache'.entries \subseteq DOMAIN c.entries \cup {key}
            /\ Cached(c, key) => DOMAIN c.entries \subseteq DOMAIN cache'.entries
            /\ \/ DOMAIN c.entries \subseteq DOMAIN cache'.entries
               \/ DOMAIN c.entries \ DOMAIN cache'.entries = {c.order[1]}
        BY <2>3, <3>1, InsertedListed DEF c
      <3>. QED
        BY <3>1, <3>2 DEF Cached
    <2>. QED
      BY <1>2, <2>2, <2>3
  <1>4. \A k \in DOMAIN cache'.entries : k[1] = cache.version
    BY <1>1, <1>2, <1>3 DEF OrderInv
  <1>5. /\ DOMAIN large' = DOMAIN large
        /\ large'.busy = large.busy /\ large'.text = large.text
    BY <1>1 DEF OrderInv
  <1>6. OrderInv'
    BY <1>1, <1>3, <1>4, <1>5 DEF OrderInv
  <1>7. DropsOldest(cache, cache')
    BY <1>3, DropsAtMostTheOldest DEF OrderInv
  <1>8. AnswerIsNewest
    BY <1>1 DEF AnswerIsNewest
  <1>. QED
    BY <1>6, <1>7, <1>8 DEF OrderStep

\* Steps that leave the cache alone.
LEMMA QuietOrder ==
    ASSUME OrderInv, EndLarge \/ FailObject \/ IngestBetweenCalls
    PROVE  OrderStep
  <1>1. cache' = cache
    BY DEF EndLarge, FailObject, IngestBetweenCalls
  <1>2. DropsOldest(cache, cache')
    BY <1>1, DropsAtMostTheOldest DEF OrderInv
  <1>3. CASE EndLarge
    <2>1. PICK output : Return(large.text, registry.version, output)
      BY <1>3 DEF EndLarge
    <2>2. /\ large' = IdleLarge /\ registry' = registry
          /\ large.busy /\ large.text \in Texts /\ Len(large.text) > ChunkSize
      BY <1>3 DEF EndLarge, OrderInv
    <2>3. OrderInv'
      BY <1>1, <2>1, <2>2, ReturnOrder DEF OrderInv, IdleLarge
    <2>4. AnswerIsNewest
      <3>1. Len(large.text) > ChunkSize => ~(Len(large.text) <= ChunkSize)
        <4>1. Len(large.text) \in Int /\ ChunkSize \in Int
          BY <2>2, TextsAreBytes, CacheAssumption
        <4>. QED
          BY <4>1
      <3>. QED
        BY <2>1, <2>2, <3>1, ReturnOrder DEF AnswerIsNewest
    <2>. QED
      BY <1>2, <2>3, <2>4 DEF OrderStep
  <1>4. CASE FailObject
    <2>1. <<>> \in Seq({})
      OBVIOUS
    <2>. QED
      BY <1>1, <1>2, <1>4, <2>1
         DEF FailObject, OrderInv, OrderStep, AnswerIsNewest, IdleObject
  <1>5. CASE IngestBetweenCalls
    <2>1. PICK label \in Labels, secret \in Secrets : Ingest(label, secret)
      BY <1>5 DEF IngestBetweenCalls
    <2>2. /\ ~object.busy /\ ~large.busy
          /\ object' = object /\ large' = large /\ result' = result
      BY <1>5 DEF IngestBetweenCalls, Idle
    <2>3. /\ registry.version \in Nat /\ Consistent(registry')
          /\ registry'.version \in Nat /\ registry.version <= registry'.version
      <3>1. registry' = registry \/ registry' = AfterIngest(registry, label, secret)
        BY <2>1 DEF Ingest
      <3>. QED
        BY <3>1, ConsistentVersion, IngestConsistent, IngestAppends DEF OrderInv
    <2>4. OrderInv'
      BY <1>1, <2>2, <2>3 DEF OrderInv
    <2>. QED
      BY <1>2, <2>2, <2>4 DEF OrderStep, AnswerIsNewest
  <1>. QED
    BY <1>3, <1>4, <1>5

\* The steps of an object's call that look into the cache or put the result there.
LEMMA ObjectOrder ==
    ASSUME OrderInv,
           EndObject \/ \E obj \in Objects : ObjectHit(obj) \/ BeginObject(obj)
    PROVE  OrderStep
  <1>1. registry.version \in Nat
    BY ConsistentVersion DEF OrderInv
  <1>2. ASSUME NEW obj \in Objects, ObjectHit(obj) \/ BeginObject(obj)
        PROVE  OrderStep
    <2> DEFINE c == Synced(cache, registry)
               key == Key(registry, Canonical(obj))
    <2>1. /\ Listed(c) /\ c.version = registry.version
          /\ c.version = cache.version => c = cache
          /\ \A k \in DOMAIN c.entries : k[1] = c.version
      BY SyncedListed DEF OrderInv, Synced, Flushed
    <2>2. cache' = LookedUp(c, key)
      BY <1>2 DEF ObjectHit, BeginObject, LookedUp, CachedAs
    <2> HIDE DEF c, key
    <2>3. /\ Listed(cache') /\ cache'.version = c.version /\ cache'.entries = c.entries
      BY <2>1, <2>2, LookedUpListed
    <2>4. /\ registry' = registry /\ large' = large /\ ~large.busy
          /\ \/ object' = object /\ ~object.busy
             \/ object' = [busy |-> TRUE, source |-> obj, version |-> registry.version,
                           outs |-> <<>>]
      BY <1>2 DEF ObjectHit, BeginObject, Idle
    <2>5. OrderInv'
      <3>1. /\ Consistent(registry') /\ Listed(cache')
            /\ cache'.version \in Nat /\ cache'.version <= registry'.version
            /\ cache'.version = registry'.version
            /\ \A k \in DOMAIN cache'.entries : k[1] = cache'.version
        BY <1>1, <2>1, <2>3, <2>4 DEF OrderInv
      <3>2. <<>> \in Seq({})
        OBVIOUS
      <3>3. /\ {"busy", "source", "version", "outs"} \subseteq DOMAIN object'
            /\ object'.busy \in BOOLEAN
            /\ \E S : object'.outs \in Seq(S)
            /\ object'.busy => object'.source \in Objects /\ object'.version = registry'.version
        <4>1. CASE object' = object /\ ~object.busy
          BY <4>1 DEF OrderInv
        <4>2. CASE object' = [busy |-> TRUE, source |-> obj, version |-> registry.version,
                              outs |-> <<>>]
          <5>1. /\ DOMAIN object' = {"busy", "source", "version", "outs"}
                /\ object'.busy /\ object'.busy \in BOOLEAN
                /\ object'.source = obj /\ object'.version = registry.version
                /\ object'.outs = <<>>
            BY <4>2
          <5>. QED
            BY <2>4, <3>2, <5>1
        <4>. QED
          BY <2>4, <4>1, <4>2
      <3>4. {"busy", "text"} \subseteq DOMAIN large' /\ ~large'.busy
        BY <2>4 DEF OrderInv
      <3>. QED
        BY <3>1, <3>3, <3>4 DEF OrderInv
    <2>6. DropsOldest(cache, cache')
      BY <2>1, <2>3, DropsAtMostTheOldest DEF OrderInv
    <2>7. AnswerIsNewest
      <3>1. result' = result \/ result'.kind = "object"
        BY <1>2 DEF ObjectHit, BeginObject
      <3>. QED
        BY <3>1 DEF AnswerIsNewest
    <2>. QED
      BY <2>5, <2>6, <2>7 DEF OrderStep
  <1>3. CASE EndObject
    <2>1. PICK bytes, output : cache' = AfterClosure(cache, registry, object.version, bytes, output)
      BY <1>3 DEF EndObject
    <2>2. /\ registry' = registry /\ large' = large /\ ~large.busy /\ object.busy
          /\ object' = IdleObject /\ result'.kind = "object"
      BY <1>3 DEF EndObject, InClosure
    <2>3. /\ Listed(cache') /\ cache'.version = registry.version
          /\ \A k \in DOMAIN cache'.entries : k[1] = registry.version
          /\ cache'.version = cache.version =>
                \/ DOMAIN cache.entries \subseteq DOMAIN cache'.entries
                \/ DOMAIN cache.entries \ DOMAIN cache'.entries = {cache.order[1]}
                \/ DOMAIN cache'.entries = {}
      <3>1. CASE registry.version # object.version
        BY <2>1, <3>1, FlushedListed DEF AfterClosure, Flushed
      <3>2. CASE registry.version = object.version
        <4> DEFINE key == <<object.version, bytes>>
        <4>1. cache.version = registry.version
          BY <1>1, <2>2, <3>2 DEF OrderInv
        <4>2. key[1] = registry.version /\ Listed(cache)
          BY <3>2 DEF OrderInv
        <4>3. cache' = Inserted(cache, key, SanitizedEntry(output))
          BY <2>1, <3>2 DEF AfterClosure
        <4> HIDE DEF key
        <4>4. /\ Listed(cache') /\ cache'.version = cache.version
              /\ DOMAIN cache'.entries \subseteq DOMAIN cache.entries \cup {key}
              /\ \/ DOMAIN cache.entries \subseteq DOMAIN cache'.entries
                 \/ DOMAIN cache.entries \ DOMAIN cache'.entries = {cache.order[1]}
          BY <4>2, <4>3, InsertedListed
        <4>. QED
          BY <4>1, <4>2, <4>4 DEF OrderInv
      <3>. QED
        BY <3>1, <3>2
    <2>4. OrderInv'
      <3>1. <<>> \in Seq({})
        OBVIOUS
      <3>. QED
        BY <1>1, <2>2, <2>3, <3>1 DEF OrderInv, IdleObject
    <2>5. DropsOldest(cache, cache')
      BY <2>3, DropsAtMostTheOldest DEF OrderInv
    <2>6. AnswerIsNewest
      BY <2>2 DEF AnswerIsNewest
    <2>. QED
      BY <2>4, <2>5, <2>6 DEF OrderStep
  <1>. QED
    BY <1>2, <1>3

LEMMA OrderInvInit == Init => OrderInv
  <1> SUFFICES ASSUME Init PROVE OrderInv
    OBVIOUS
  <1>1. Consistent(registry) /\ registry.version = 0
    BY EmptyConsistent DEF Init, RegistryInit, EmptyRegistry
  <1>2. Listed(cache) /\ cache.version = 0 /\ DOMAIN cache.entries = {}
    BY FlushedListed DEF Init, EmptyCache, Flushed
  <1>3. <<>> \in Seq({})
    OBVIOUS
  <1>. QED
    BY <1>1, <1>2, <1>3 DEF Init, IdleObject, IdleLarge, OrderInv

LEMMA OrderSteps == ASSUME OrderInv, Next PROVE OrderStep
  <1>1. CASE SanitizeString
    <2>1. PICK text \in Strings : StringCall(text)
      BY <1>1 DEF SanitizeString
    <2>2. ~large.busy /\ text \in Texts
      BY <1>1 DEF SanitizeString, Idle, Texts
    <2>. QED
      BY <2>1, <2>2, StringCallOrder
  <1>2. CASE SanitizeLeaf
    <2>1. /\ object.busy /\ ~large.busy
          /\ Len(object.outs) < Len(object.source) /\ StringCall(NextText)
      BY <1>2 DEF SanitizeLeaf, InClosure
    <2>2. object.source \in Objects /\ \E S : object.outs \in Seq(S)
      BY <2>1 DEF OrderInv
    <2>3. Len(object.outs) \in Nat /\ Len(object.source) \in Nat
      BY <2>2, CacheAssumption
    <2>4. Len(object.outs) + 1 \in 1 .. Len(object.source)
      BY <2>1, <2>3
    <2>5. NextText \in Texts
      BY <2>2, <2>4, TextsAreBytes DEF NextText
    <2>. QED
      BY <2>1, <2>5, StringCallOrder
  <1>3. CASE ScanWindow
    BY <1>3, ScanWindowOrder
  <1>4. CASE EndLarge \/ FailObject \/ IngestBetweenCalls
    BY <1>4, QuietOrder
  <1>5. CASE EndObject \/ \E obj \in Objects : ObjectHit(obj) \/ BeginObject(obj)
    BY <1>5, ObjectOrder
  <1>. QED
    BY <1>1, <1>2, <1>3, <1>4, <1>5 DEF Next

LEMMA OrderHolds == Spec => []OrderInv /\ [][OrderStep]_vars
  <1>1. OrderInv /\ [Next]_vars => OrderInv' /\ [OrderStep]_vars
    <2> SUFFICES ASSUME OrderInv, [Next]_vars PROVE OrderInv' /\ [OrderStep]_vars
      OBVIOUS
    <2>1. CASE Next
      BY <2>1, OrderSteps DEF OrderStep
    <2>2. CASE UNCHANGED vars
      BY <2>2 DEF vars, OrderInv, Listed
    <2>. QED
      BY <2>1, <2>2
  <1>. QED
    BY OrderInvInit, <1>1, PTL DEF Spec

\* The recency order lists the entries and nothing else, each of them once, and they are never
\* more than max_entries, whatever is looked up, inserted and evicted.
THEOREM CacheOrderListsEntries == Spec => []OrderListsEntries
  <1>1. OrderInv => OrderListsEntries
    <2> SUFFICES ASSUME OrderInv PROVE OrderListsEntries
      OBVIOUS
    <2>1. Lists(cache.order, DOMAIN cache.entries) /\ Len(cache.order) <= MaxEntries
      BY DEF OrderInv, Listed
    <2>2. /\ DOMAIN cache.order = 1 .. Len(cache.order)
          /\ \A i \in 1 .. Len(cache.order) : cache.order[i] \in DOMAIN cache.entries
      BY <2>1 DEF Lists
    <2>3. {cache.order[i] : i \in DOMAIN cache.order} = DOMAIN cache.entries
      <3>1. \A key \in DOMAIN cache.entries : \E i \in 1 .. Len(cache.order) : cache.order[i] = key
        BY <2>1 DEF Lists
      <3>. QED
        BY <2>2, <3>1
    <2>. QED
      BY <2>1, <2>2, <2>3 DEF OrderListsEntries, Lists
  <1>. QED
    BY <1>1, OrderHolds, PTL

\* No entry outlives its registry version: the keys are right even where what is kept under
\* them is not.
THEOREM CacheKeysAreReachable == Spec => []KeysAreReachable
  <1>1. OrderInv => KeysAreReachable
    BY DEF OrderInv, KeysAreReachable
  <1>. QED
    BY <1>1, OrderHolds, PTL

\* Only the least recently used entry is evicted, and a short string's answer leaves its key
\* the newest.
THEOREM CacheEvictsLeastRecentlyUsed == Spec => EvictsLeastRecentlyUsed
  <1>1. Spec => [][OrderStep]_vars
    BY OrderHolds, PTL
  <1>2. ASSUME OrderStep
        PROVE  /\ cache'.version = cache.version =>
                    \A i, j \in DOMAIN cache.order :
                        i < j /\ cache.order[j] \notin DOMAIN cache'.entries
                            => cache.order[i] \notin DOMAIN cache'.entries
               /\ AnswerIsNewest
    BY <1>2 DEF OrderStep, DropsOldest
  <1>. QED
    BY <1>1, <1>2, PTL DEF EvictsLeastRecentlyUsed, AnswerIsNewest
=============================================================================
