--------------------------- MODULE JsonSanitizer ---------------------------
(***************************************************************************)
(* Request bodies through the JSON sanitizer (redact/json_sanitizer.rs,    *)
(* directive.rs, field_policy.rs): whole bodies are parsed and walked,     *)
(* streamed ones are followed byte by byte.  One registry serves all of    *)
(* them, and every body may add to it.                                     *)
(*                                                                         *)
(* A body is a tree.  A string is a sequence of pieces: words, tags of     *)
(* <cb> directives, characters with an escape, placeholders; as written in *)
(* a body it is raw, with its escapes.  A secret is a sequence of pieces,  *)
(* and may hold placeholders: credential patterns run over text that has   *)
(* some in it.  That a scan selects the longest occurrences, of a string   *)
(* that is no longer than a chunk, and that the cache in front of it       *)
(* changes nothing, is the matter of Spans and RedactionCache.             *)
(***************************************************************************)
EXTENDS Naturals, Sequences, FiniteSets, SequencesExt

CONSTANTS
    Documents,          \* the bodies that are sent: trees
    KeyOrder,           \* every key, in byte order
    Spelling(_),        \* what a key is spelled of
    BinarySuffixes,     \* spelled ends of the paths whose strings are taken for binary data
    InitialRegistries,  \* what may be registered at first
    PatternSets,        \* what credential patterns the sanitizer may have
    Matches(_, _),      \* a pattern matches a text
    PlaceholderOf(_),
    MaxChunk, MaxBodies

Open == "<cb>"
EscapedOpen == "u003ccb>"   \* what follows the backslash of an escaped open tag
Close == "</cb>"
Tags == {Open, Close}
Quote == "\""
Backslash == "\\"
Guidance == "guidance"

Str(raw) == [kind |-> "string", raw |-> raw]
Arr(items) == [kind |-> "array", items |-> items]
Obj(fields) == [kind |-> "object", fields |-> fields]   \* of records [key, value]
Atom == [kind |-> "atom"]                               \* a number, a boolean, null
Field(key, value) == [key |-> key, value |-> value]

VARIABLES
    patterns,   \* of the sanitizer, once and for all
    registry,   \* secrets registered
    state,      \* StreamingJsonState of the body that is streamed
    input,      \* what is still to come of it
    sent,       \* bytes of the current body sent on
    phase,      \* of the current body: "none", "streaming", "answered", "failed"
    \* observed, not kept by the program:
    document,   \* the current body
    cut,        \* how much of its text arrives
    streamed,   \* it is streamed
    answer,     \* the tree a whole body became
    before,     \* the registry when the body began
    bodies

ghosts == <<document, cut, streamed, answer, before, bodies>>
vars == <<patterns, registry, state, input, sent, phase, ghosts>>

-----------------------------------------------------------------------------
\* Strings.

\* decode_raw_json_string, and the escaping that serde_json writes.
Decode(raw) ==
    LET read(seen, symbol) ==
            IF seen.escaped
            THEN [text |-> Append(seen.text, IF symbol = EscapedOpen THEN Open ELSE symbol),
                  escaped |-> FALSE]
            ELSE IF symbol = Backslash THEN [seen EXCEPT !.escaped = TRUE]
            ELSE [seen EXCEPT !.text = Append(@, symbol)]
    IN  FoldLeft(read, [text |-> <<>>, escaped |-> FALSE], raw).text

Encode(text) ==
    FlattenSeq([i \in DOMAIN text |->
        IF text[i] \in {Quote, Backslash} THEN <<Backslash, text[i]>> ELSE <<text[i]>>])

Quoted(raw) == <<Quote>> \o raw \o <<Quote>>

\* might_contain_directive_bytes
MightContainDirective(symbols) == ToSet(symbols) \cap {Open, Close, EscapedOpen} # {}

HasTags(text) == ToSet(text) \cap Tags # {}

\* parse_ranges fails: a close tag without an open one, an open one that is not closed,
\* one in another, an empty directive.
Malformed(text) ==
    LET tags == SelectSeq(text, LAMBDA piece : piece \in Tags)
    IN  \/ \E i \in DOMAIN tags : tags[i] # IF i % 2 = 1 THEN Open ELSE Close
        \/ Len(tags) % 2 = 1
        \/ \E i \in DOMAIN text : text[i] = Open /\ i < Len(text) /\ text[i + 1] = Close

\* The text in and around the directives, in turn.
Parts(text) ==
    LET read(parts, piece) ==
            IF piece \in Tags THEN Append(parts, [secret |-> piece = Open, text |-> <<>>])
            ELSE [parts EXCEPT ![Len(parts)].text = Append(@, piece)]
    IN  FoldLeft(read, <<[secret |-> FALSE, text |-> <<>>]>>, text)

Marked(text) == {part.text : part \in {part \in ToSet(Parts(text)) : part.secret}}

\* An occurrence in a text.
Span(text) == {span \in [start: DOMAIN text, len: DOMAIN text] :
                   span.start + span.len <= Len(text) + 1}
Spelled(text, span) == SubSeq(text, span.start, span.start + span.len - 1)

Overlap(a, b) == a.start < b.start + b.len /\ b.start < a.start + a.len
Beats(a, b) == a.len > b.len \/ (a.len = b.len /\ a.start < b.start)

\* select_longest_non_overlapping: every span that is left out loses to one that is chosen.
Selected(spans) ==
    CHOOSE chosen \in SUBSET spans :
        /\ \A a, b \in chosen : Overlap(a, b) => a = b
        /\ \A a \in spans \ chosen : \E b \in chosen : Overlap(a, b) /\ Beats(b, a)

Found(text, secrets) == Selected({span \in Span(text) : Spelled(text, span) \in secrets})

\* sanitize_string_detailed
Scanned(text, secrets) ==
    LET found == Found(text, secrets)
        at(i) == {span \in found : span.start <= i /\ i < span.start + span.len}
        becomes(i) ==
            IF at(i) = {} THEN <<text[i]>>
            ELSE LET span == CHOOSE span \in at(i) : TRUE
                 IN  IF span.start = i THEN <<PlaceholderOf(Spelled(text, span))>> ELSE <<>>
    IN  FlattenSeq([i \in DOMAIN text |-> becomes(i)])

SecretsIn(text, secrets) == {Spelled(text, span) : span \in Found(text, secrets)}

\* auto_redact_matches
PatternMatches(text) ==
    {Spelled(text, span) : span \in
        Selected({span \in Span(text) :
                     \E pattern \in patterns : Matches(pattern, Spelled(text, span))})}

Fine(raw, secrets, redacted) ==
    [raw |-> raw, registry |-> secrets, redacted |-> redacted, ok |-> TRUE]

\* replace_user_secret_directives_with: what is not marked is scanned for secrets.
DirectivesReplaced(text, secrets) ==
    LET parts == Parts(text)
    IN  FlattenSeq([i \in DOMAIN parts |->
            IF parts[i].secret THEN <<PlaceholderOf(parts[i].text)>>
            ELSE Scanned(parts[i].text, secrets)])

\* Mutant of SanitizedString: a string's directives are registered with its matches, when
\* the parts in between have been scanned.
SanitizedStringLazily(text, reg) ==
    LET first == IF HasTags(text) THEN DirectivesReplaced(text, reg) ELSE text
        matches == PatternMatches(first)
        all == reg \cup Marked(text) \cup matches
        last == IF HasTags(text) /\ matches = {} THEN first ELSE Scanned(first, all)
    IN  Fine(Encode(last), all, Marked(text) \cup SecretsIn(text, all))

\* sanitize_decoded_string, sanitize_decoded_string_with_cache: the directives of a string
\* are registered before any of it is scanned; patterns are matched with what that leaves,
\* its placeholders included, and matches registered before the (last) scan.
SanitizedString(text, reg) ==
    IF HasTags(text)
    THEN LET own == reg \cup Marked(text)
             first == DirectivesReplaced(text, own)
             matches == PatternMatches(first)
         IN  Fine(Encode(IF matches = {} THEN first ELSE Scanned(first, own \cup matches)),
                  own \cup matches, Marked(text))
    ELSE LET all == reg \cup PatternMatches(text)
         IN  Fine(Encode(Scanned(text, all)), all, SecretsIn(text, all))

\* FieldPolicy.action_for_path: the end of the path's spelling, wherever a key begins.
IsBinaryField(path) ==
    LET joined == FlattenSeq([i \in DOMAIN path |->
                      IF i = 1 THEN Spelling(path[i]) ELSE <<".">> \o Spelling(path[i])])
    IN  \E suffix \in BinarySuffixes : IsSuffix(suffix, joined)

\* Of what is taken for binary data, only directives are replaced.
SanitizedBinary(text, raw, reg) ==
    IF HasTags(text)
    THEN Fine(Encode(DirectivesReplaced(text, {})), reg \cup Marked(text), Marked(text))
    ELSE Fine(raw, reg, {})

\* The string value at path, with its escapes.
SanitizedRaw(raw, path, reg) ==
    LET text == Decode(raw) IN
    IF ~MightContainDirective(raw) /\ (IsBinaryField(path) \/ (reg = {} /\ patterns = {}))
    THEN Fine(raw, reg, {})
    ELSE IF Malformed(text)
    THEN [raw |-> raw, registry |-> reg, redacted |-> {}, ok |-> FALSE]
    ELSE IF IsBinaryField(path) THEN SanitizedBinary(text, raw, reg)
    ELSE SanitizedString(text, reg)

-----------------------------------------------------------------------------
\* Trees.

RECURSIVE Render(_)

Separated(texts) ==
    FlattenSeq([i \in DOMAIN texts |-> IF i = 1 THEN texts[i] ELSE <<",">> \o texts[i]])

\* The body's text.
Render(value) ==
    CASE value.kind = "atom" -> <<"0">>
      [] value.kind = "string" -> Quoted(value.raw)
      [] value.kind = "array" ->
            <<"[">> \o Separated([i \in DOMAIN value.items |-> Render(value.items[i])])
            \o <<"]">>
      [] value.kind = "object" ->
            LET written(f) == Quoted(<<f.key>>) \o <<":">> \o Render(f.value)
            IN  <<"{">> \o Separated([i \in DOMAIN value.fields |-> written(value.fields[i])])
                \o <<"}">>

\* A parsed object is a map: its fields come in key order, the last of a key counts.
FieldsOf(fields) ==
    [key \in {fields[i].key : i \in DOMAIN fields} |->
        Last(SelectSeq(fields, LAMBDA f : f.key = key)).value]

InKeyOrder(map) ==
    LET keys == SelectSeq(KeyOrder, LAMBDA key : key \in DOMAIN map)
    IN  [i \in DOMAIN keys |-> Field(keys[i], map[keys[i]])]

RECURSIVE Parsed(_)

\* serde_json::from_slice
Parsed(value) ==
    CASE value.kind = "atom" -> value
      [] value.kind = "string" -> Str(Encode(Decode(value.raw)))
      [] value.kind = "array" -> Arr([i \in DOMAIN value.items |-> Parsed(value.items[i])])
      [] value.kind = "object" ->
            LET map == FieldsOf(value.fields)
            IN  Obj(InKeyOrder([key \in DOMAIN map |-> Parsed(map[key])]))

RECURSIVE Walk(_, _, _)

\* The children, one after another.
WalkAll(children, report) ==
    LET next(done, child) ==
            LET walked == Walk(child.value, child.path, done.report)
            IN  [values |-> Append(done.values, walked.value), report |-> walked.report]
    IN  FoldLeft(next, [values |-> <<>>, report |-> report], children)

\* sanitize_value, and sanitize_value_with_cache under a cacheable object: every string
\* under its path, in order, until one fails.
Walk(value, path, report) ==
    CASE value.kind = "atom" \/ report.failed -> [value |-> value, report |-> report]
      [] value.kind = "string" /\ ~report.failed ->
            LET done == SanitizedRaw(value.raw, path, report.registry)
            IN  [value |-> Str(done.raw),
                 report |-> [registry |-> done.registry,
                             redacted |-> report.redacted \cup done.redacted,
                             failed |-> ~done.ok]]
      [] value.kind = "array" /\ ~report.failed ->
            LET done == WalkAll([i \in DOMAIN value.items |->
                                    [value |-> value.items[i], path |-> path]], report)
            IN  [value |-> Arr(done.values), report |-> done.report]
      [] value.kind = "object" /\ ~report.failed ->
            LET fields == value.fields
                done == WalkAll([i \in DOMAIN fields |->
                                    [value |-> fields[i].value,
                                     path |-> Append(path, fields[i].key)]], report)
            IN  [value |-> Obj([i \in DOMAIN fields |-> Field(fields[i].key, done.values[i])]),
                 report |-> done.report]

Walked(value, reg) ==
    Walk(value, <<>>, [registry |-> reg, redacted |-> {}, failed |-> FALSE])

RECURSIVE Strings(_, _)

\* The strings of a tree in order, decoded, each with its path.
Strings(value, path) ==
    CASE value.kind = "atom" -> <<>>
      [] value.kind = "string" -> <<[path |-> path, text |-> Decode(value.raw)]>>
      [] value.kind = "array" ->
            FlattenSeq([i \in DOMAIN value.items |-> Strings(value.items[i], path)])
      [] value.kind = "object" ->
            FlattenSeq([i \in DOMAIN value.fields |->
                Strings(value.fields[i].value, Append(path, value.fields[i].key))])

-----------------------------------------------------------------------------
\* Placeholder guidance.

AllFields(value) == FieldsOf(value.fields)
IsObject(value) == value.kind = "object"
IsString(value) == value.kind = "string"
IsArray(value) == value.kind = "array"

ContainsGuidance(value) ==
    LET strings == Strings(value, <<>>)
    IN  \E i \in DOMAIN strings : Guidance \in ToSet(strings[i].text)

WithField(map, key, value) ==
    Obj(InKeyOrder([k \in DOMAIN map \cup {key} |-> IF k = key THEN value ELSE map[k]]))

\* Mutant of PrependText: the text is replaced.
PrependTextOver(value) == Str(<<Guidance>>)

PrependText(value) == Str(<<Guidance>> \o value.raw)

GuidanceBlock == Obj(<<Field("text", Str(<<Guidance>>))>>)
PrependBlock(value) == Arr(<<GuidanceBlock>> \o value.items)

\* prepend_system_field, prepend_instructions_field: a text, blocks of text (in the first
\* only), or nothing yet.
PrependField(map, key, blocks) ==
    IF key \notin DOMAIN map THEN WithField(map, key, Str(<<Guidance>>))
    ELSE IF IsString(map[key]) THEN WithField(map, key, PrependText(map[key]))
    ELSE IF blocks /\ IsArray(map[key]) THEN WithField(map, key, PrependBlock(map[key]))
    ELSE Obj(InKeyOrder(map))

PrependSystemInstruction(map) ==
    LET key == "system_instruction"
        fresh == Arr(<<GuidanceBlock>>)
        withParts(object) ==
            LET fields == AllFields(object)
            IN  WithField(fields, "parts",
                    IF "parts" \in DOMAIN fields /\ IsArray(fields["parts"])
                    THEN PrependBlock(fields["parts"]) ELSE fresh)
    IN  IF key \notin DOMAIN map
        THEN WithField(map, key, Obj(<<Field("parts", fresh)>>))
        ELSE IF IsObject(map[key]) THEN WithField(map, key, withParts(map[key]))
        ELSE IF IsString(map[key]) THEN WithField(map, key, PrependText(map[key]))
        ELSE Obj(InKeyOrder(map))

\* A message that guidance can be put in front of (prepend_message_content).
TakesGuidance(message) ==
    /\ IsObject(message)
    /\ "content" \in DOMAIN AllFields(message)
    /\ AllFields(message)["content"].kind \in {"string", "array"}

TakingMessages(map) ==
    IF "messages" \in DOMAIN map /\ IsArray(map["messages"])
    THEN {i \in DOMAIN map["messages"].items : TakesGuidance(map["messages"].items[i])}
    ELSE {}

\* Mutant of PrependMessages: every message gets it.
PrependEveryMessage(map) ==
    LET items == map["messages"].items
    IN  WithField(map, "messages", Arr([i \in DOMAIN items |->
            IF i \in TakingMessages(map)
            THEN PrependField(AllFields(items[i]), "content", TRUE) ELSE items[i]]))

\* The first that takes it.
PrependMessages(map) ==
    LET items == map["messages"].items
        first == CHOOSE i \in TakingMessages(map) : \A j \in TakingMessages(map) : i <= j
    IN  WithField(map, "messages", Arr([items EXCEPT
            ![first] = PrependField(AllFields(items[first]), "content", TRUE)]))

\* inject_placeholder_guidance_into_object: the object itself where it finds no place.
InjectedIntoObject(object) ==
    LET map == AllFields(object)
        has(keys) == keys \cap DOMAIN map # {}
    IN  IF has({"system", "anthropic_version"}) THEN PrependField(map, "system", TRUE)
        ELSE IF has({"system_instruction", "contents"}) THEN PrependSystemInstruction(map)
        ELSE IF has({"instructions", "input"}) THEN PrependField(map, "instructions", FALSE)
        ELSE IF TakingMessages(map) # {} THEN PrependMessages(map)
        ELSE IF has({"prompt"}) /\ IsString(map["prompt"])
        THEN WithField(map, "prompt", PrependText(map["prompt"]))
        ELSE object

\* inject_placeholder_guidance: into the response that the body is about, if it takes it.
Injected(value) ==
    LET map == AllFields(value)
        response == InjectedIntoObject(map["response"])
    IN  IF ~IsObject(value) THEN value
        ELSE IF /\ "response" \in DOMAIN map /\ IsObject(map["response"])
                /\ response # map["response"]
        THEN WithField(map, "response", response)
        ELSE InjectedIntoObject(value)

\* inject_placeholder_guidance_if_needed
WithGuidance(value, redacted) ==
    IF redacted = {} \/ ContainsGuidance(value) THEN value ELSE Injected(value)

-----------------------------------------------------------------------------
\* The streaming state machine.

NoKey == <<>>
NoState == [in_string |-> FALSE, escape_next |-> FALSE, raw_string |-> <<>>,
            path |-> <<>>, stack |-> <<>>]

Frame(object, path) ==
    [object |-> object, expecting_key |-> object, pending_key |-> NoKey,
     path_len_on_exit |-> Len(path)]

TopIsObject(s) == s.stack # <<>> /\ Last(s.stack).object

TopObjectExpectsKey(s) == TopIsObject(s) /\ Last(s.stack).expecting_key

WithTop(s, frame) == [s EXCEPT !.stack = Append(Front(@), frame)]

PendingKey(s) == IF TopIsObject(s) THEN Last(s.stack).pending_key ELSE NoKey

\* take_pending_object_key
KeyTaken(s) ==
    IF TopIsObject(s) THEN WithTop(s, [Last(s.stack) EXCEPT !.pending_key = NoKey]) ELSE s

BeginContainer(s, object) ==
    LET path == s.path \o PendingKey(s)
    IN  [KeyTaken(s) EXCEPT !.path = path,
                            !.stack = Append(@, Frame(object, s.path))]

\* Mutant of EndContainer: the path stays.
EndContainerInPlace(s) == IF s.stack = <<>> THEN s ELSE [s EXCEPT !.stack = Front(@)]

EndContainer(s) ==
    IF s.stack = <<>> THEN s
    ELSE [s EXCEPT !.stack = Front(@),
                   !.path = SubSeq(@, 1, Last(s.stack).path_len_on_exit)]

ObserveStructuralByte(s, symbol) ==
    CASE symbol \in {"{", "["} -> BeginContainer(s, symbol = "{")
      [] symbol \in {"}", "]"} -> EndContainer(s)
      [] symbol = "," /\ TopIsObject(s) ->
            WithTop(s, [Last(s.stack) EXCEPT !.expecting_key = TRUE, !.pending_key = NoKey])
      [] OTHER -> s

\* What one call has read: [state, registry, out, failed].
Passed(call, symbols) == [call EXCEPT !.out = @ \o symbols]

\* complete_string_context, and what becomes of the string.
CompleteString(call) ==
    LET s == call.state
        raw == s.raw_string
        closed == [s EXCEPT !.in_string = FALSE, !.raw_string = <<>>]
        path == s.path \o PendingKey(s)
        done == SanitizedRaw(raw, path, call.registry)
        asKey == [Last(s.stack) EXCEPT !.expecting_key = FALSE, !.pending_key = raw]
    IN  IF TopObjectExpectsKey(s)
        THEN Passed([call EXCEPT !.state = WithTop(closed, asKey)], Quoted(raw))
        ELSE IF done.ok
        THEN Passed([call EXCEPT !.state = KeyTaken(closed), !.registry = done.registry],
                    Quoted(done.raw))
        ELSE [call EXCEPT !.failed = TRUE]

ByteInString(call, symbol) ==
    LET s == call.state
        kept(escape) == [call EXCEPT !.state.raw_string = Append(@, symbol),
                                     !.state.escape_next = escape]
    IN  IF s.escape_next THEN kept(FALSE)
        ELSE IF symbol = Backslash THEN kept(TRUE)
        ELSE IF symbol = Quote THEN CompleteString(call)
        ELSE kept(FALSE)

PushByte(call, symbol) ==
    IF call.failed THEN call
    ELSE IF call.state.in_string THEN ByteInString(call, symbol)
    ELSE IF symbol = Quote
    THEN [call EXCEPT !.state.in_string = TRUE, !.state.escape_next = FALSE,
                      !.state.raw_string = <<>>]
    ELSE Passed([call EXCEPT !.state = ObserveStructuralByte(@, symbol)], <<symbol>>)

-----------------------------------------------------------------------------

None == Atom

Init ==
    /\ patterns \in PatternSets
    /\ registry \in InitialRegistries
    /\ state = NoState /\ input = <<>> /\ sent = <<>> /\ phase = "none"
    /\ document = None /\ cut = 0 /\ streamed = FALSE /\ answer = None
    /\ before = registry
    /\ bodies = 0

\* A body comes in; of a broken one, only the beginning.
Receive(doc, len, stream) ==
    /\ phase # "streaming" /\ bodies < MaxBodies
    /\ document' = doc /\ cut' = len /\ streamed' = stream
    /\ before' = registry
    /\ bodies' = bodies + 1

\* sanitize_json
SanitizeJson ==
    \E doc \in Documents :
        LET text == Render(doc) IN
        \E len \in {Len(text) - 1, Len(text)} :
            LET body == SubSeq(text, 1, len)
                untouched ==
                    registry = {} /\ patterns = {} /\ ~MightContainDirective(body)
                walked == Walked(Parsed(doc), registry)
                result == WithGuidance(walked.value, walked.report.redacted)
            IN
            /\ Receive(doc, len, FALSE)
            /\ \/ /\ untouched
                  /\ phase' = "answered" /\ sent' = body /\ answer' = doc
                  /\ UNCHANGED registry
               \/ /\ ~untouched /\ len < Len(text)
                  /\ phase' = "failed" /\ sent' = <<>> /\ answer' = None
                  /\ UNCHANGED registry
               \/ /\ ~untouched /\ len = Len(text)
                  /\ registry' = walked.report.registry
                  /\ IF walked.report.failed
                     THEN phase' = "failed" /\ sent' = <<>> /\ answer' = None
                     ELSE phase' = "answered" /\ sent' = Render(result) /\ answer' = result
            /\ UNCHANGED <<patterns, state, input>>

\* streaming_state
BeginStream ==
    \E doc \in Documents :
        \E len \in 1 .. Len(Render(doc)) :
            /\ Receive(doc, len, TRUE)
            /\ input' = SubSeq(Render(doc), 1, len)
            /\ state' = NoState
            /\ sent' = <<>> /\ phase' = "streaming" /\ answer' = None
            /\ UNCHANGED <<patterns, registry>>

\* push_stream_chunk: an error takes the call's output with it.
PushStreamChunk ==
    /\ phase = "streaming" /\ input # <<>>
    /\ \E len \in 1 .. MaxChunk :
        LET call == FoldLeft(PushByte,
                [state |-> state, registry |-> registry, out |-> <<>>, failed |-> FALSE],
                SubSeq(input, 1, len))
        IN
        /\ len <= Len(input)
        /\ state' = call.state /\ registry' = call.registry
        /\ IF call.failed
           THEN phase' = "failed" /\ input' = <<>> /\ UNCHANGED sent
           ELSE /\ sent' = sent \o call.out
                /\ input' = SubSeq(input, len + 1, Len(input))
                /\ UNCHANGED phase
    /\ UNCHANGED <<patterns, ghosts>>

FinishStream ==
    /\ phase = "streaming" /\ input = <<>>
    /\ phase' = IF state.in_string THEN "failed" ELSE "answered"
    /\ UNCHANGED <<patterns, registry, state, input, sent, ghosts>>

Next == SanitizeJson \/ BeginStream \/ PushStreamChunk \/ FinishStream

Spec == Init /\ [][Next]_vars

-----------------------------------------------------------------------------

\* The body breaks off inside a string.
OpenString(symbols) ==
    LET at(seen, symbol) ==
            IF seen.escaped THEN [seen EXCEPT !.escaped = FALSE]
            ELSE IF symbol = Backslash THEN [seen EXCEPT !.escaped = TRUE]
            ELSE IF symbol = Quote THEN [seen EXCEPT !.open = ~@]
            ELSE seen
    IN  FoldLeft(at, [open |-> FALSE, escaped |-> FALSE], symbols).open

\* The byte machine reads a body as a parser would: every value goes out sanitized under
\* its path and with the secrets of the values in front of it, keys and all the rest as they
\* came, however the body is cut into chunks and wherever it breaks off; and it gives up
\* only a body with a malformed directive or an open string.
StreamFollowsTheDocument ==
    LET walked == Walked(document, before)
        becomes == Render(walked.value)
        whole == Len(Render(document))
    IN  streamed =>
            /\ IsPrefix(sent, becomes)
            /\ registry \subseteq walked.report.registry
            /\ phase = "answered" => ~OpenString(SubSeq(Render(document), 1, cut))
            /\ phase = "answered" /\ cut = whole =>
                /\ ~walked.report.failed
                /\ sent = becomes /\ registry = walked.report.registry
            /\ phase = "failed" /\ cut = whole => walked.report.failed

-----------------------------------------------------------------------------
\* Of a body that is sanitized as a whole.

AnsweredWhole == phase = "answered" /\ ~streamed

\* What was read: an untouched body is not parsed.
Source == IF answer = document THEN document ELSE Parsed(document)

\* Strings of a tree as the user wrote them: without guidance, without a string that
\* was only guidance.
UserStrings(value) ==
    LET strings == Strings(value, <<>>)
        plain == [i \in DOMAIN strings |->
                    [strings[i] EXCEPT
                        !.text = SelectSeq(@, LAMBDA piece : piece # Guidance)]]
    IN  SelectSeq(plain, LAMBDA string : string.text # <<>>)

Pieces(value) ==
    LET strings == Strings(value, <<>>)
    IN  FlattenSeq([i \in DOMAIN strings |-> strings[i].text])

Placeholders == {PlaceholderOf(s) : s \in registry}

\* A system instruction whose parts are no array: prepend_system_instruction_field writes
\* its own over them.
PartsAreReplaced ==
    \E object \in {Source} \cup IF IsObject(Source) THEN Range(FieldsOf(Source.fields)) ELSE {} :
        /\ IsObject(object)
        /\ "system_instruction" \in DOMAIN FieldsOf(object.fields)
        /\ LET instruction == FieldsOf(object.fields)["system_instruction"] IN
            /\ IsObject(instruction) /\ "parts" \in DOMAIN FieldsOf(instruction.fields)
            /\ ~IsArray(FieldsOf(instruction.fields)["parts"])

\* Nothing known leaves in a value that is scanned: none of the secrets that were registered
\* when the body came, none of those that a directive marks in the same string or in one in
\* front of it, and nothing of the user's alone that a pattern matches: what matches because
\* of a placeholder that the last scan has put in stays.
NothingKnownLeaves ==
    LET read == UserStrings(Source)
        left == UserStrings(answer)
        known(i) == before \cup UNION {Marked(read[j].text) : j \in 1 .. i}
    IN  AnsweredWhole =>
            \A i \in DOMAIN left : ~IsBinaryField(left[i].path) =>
                \A span \in Span(left[i].text) :
                    /\ Spelled(left[i].text, span) \notin known(i)
                    /\ \A pattern \in patterns :
                        Matches(pattern, Spelled(left[i].text, span)) =>
                            ToSet(Spelled(left[i].text, span)) \cap Placeholders # {}

SecretOf(placeholder) == CHOOSE s \in registry : PlaceholderOf(s) = placeholder

\* The response path's restoration: every placeholder once, in one pass.
RestoredOnce(text) ==
    FlattenSeq([i \in DOMAIN text |->
        IF text[i] \in Placeholders THEN SecretOf(text[i]) ELSE <<text[i]>>])

RECURSIVE RestoredFully(_)

RestoredFully(text) ==
    IF ToSet(text) \cap Placeholders = {} THEN text ELSE RestoredFully(RestoredOnce(text))

\* A placeholder of it stands for a secret with a placeholder in it.
Nests(text) == ToSet(RestoredOnce(text)) \cap Placeholders # {}

\* Nothing but placeholders, directive tags and guidance tells the answer from the body:
\* with placeholders restored it has the user's strings in the user's places (but for a
\* system instruction whose parts are no array).  Where a pattern has matched a text with a
\* placeholder in it, one restoration, which is all that a response gets, leaves that
\* placeholder, and it takes as many as placeholders nest.
BodyIsRestorable ==
    LET read == UserStrings(Source)
        left == UserStrings(answer)
        written(i) == SelectSeq(read[i].text, LAMBDA piece : piece \notin Tags)
    IN  AnsweredWhole /\ ~PartsAreReplaced =>
            /\ DOMAIN left = DOMAIN read
            /\ \A i \in DOMAIN left :
                /\ left[i].path = read[i].path
                /\ IF Nests(left[i].text)
                   THEN RestoredFully(left[i].text) = RestoredFully(written(i))
                   ELSE RestoredOnce(left[i].text) = RestoredOnce(written(i))

\* Guidance is never given twice, and a body that has placeholders put in has it, in each
\* provider's format, if what stands in its place is of a type that takes it.
GuidanceIsGivenOnce ==
    LET given(value) == Len(SelectSeq(Pieces(value), LAMBDA piece : piece = Guidance))
        map == FieldsOf(Source.fields)
        takes ==
            /\ DOMAIN map \cap {"system", "anthropic_version", "system_instruction",
                                "contents", "instructions", "input"} # {}
            /\ \A key \in DOMAIN map \cap {"system", "system_instruction", "instructions"} :
                IsString(map[key])
    IN  AnsweredWhole =>
            /\ given(answer) <= Max({given(document), 1})
            /\ /\ IsObject(document) /\ takes
               /\ ToSet(Pieces(answer)) \cap Placeholders # {}
               /\ ToSet(Pieces(document)) \cap Placeholders = {}
               => given(answer) >= 1
=============================================================================
