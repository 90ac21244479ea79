-------------------------- MODULE MCJsonSanitizer --------------------------
(***************************************************************************)
(* Bodies chosen for what can go wrong: strings with quotes, commas and    *)
(* braces in them, values behind nested containers, binary fields with and *)
(* without directives, secrets marked behind where they stand, malformed   *)
(* directives, one key twice; placeholders in what a pattern matches, from *)
(* a directive, from a scan and from an earlier body; and for each         *)
(* provider's format.                                                      *)
(***************************************************************************)
EXTENDS JsonSanitizer

MCKeyOrder == <<"anthropic_version", "content", "contents", "data", "image_url", "inline_data",
                "inline_data.data", "input", "instructions", "k", "messages", "my_image_url",
                "parts", "prompt", "response", "system", "system_instruction", "text">>
\* A key that ends as another is spelled, and one with a dot in it.
MCSpelling(key) ==
    CASE key = "my_image_url" -> <<"my_", "image_url">>
      [] key = "inline_data.data" -> <<"inline_data", ".", "data">>
      [] OTHER -> <<key>>
MCBinarySuffixes == {<<"inline_data", ".", "data">>, <<"image_url">>}

MCInitialRegistries == {{}, {<<"k">>}}
MCPlaceholderOf(secret) == FoldLeft(LAMBDA name, piece : name \o piece, "{{", secret) \o "}}"

\* A key of a known form, and a database URL with a password of any form.
MCMatches(pattern, text) ==
    CASE pattern = "key" -> text = <<"p">>
      [] pattern = "url" -> Len(text) = 3 /\ text[1] = "url:" /\ text[3] = "@"
MCPatternSets == {{}, {"key", "url"}}

One(key, raw) == Obj(<<Field(key, Str(raw))>>)
\* \u003ccb>
Escaped == <<Backslash, EscapedOpen>>

MCDocuments ==
    { \* a value with quotes and structure in it, a key that is a secret, a nested object
     Obj(<<Field("messages", Arr(<<One("content", <<Backslash, Quote, "k", ",">>), Atom>>)),
           Field("k", Str(<<"{", Backslash, Backslash, "k">>))>>),
      \* a binary value, and one of the same name elsewhere, behind the object it was in
     Obj(<<Field("inline_data", One("data", <<"p", Open, "u", Close>>)),
           Field("data", Str(<<"p", "u">>))>>),
     Obj(<<Field("inline_data", Arr(<<One("k", <<"p">>), One("data", Escaped \o <<"u", Close>>)>>)),
           Field("my_image_url", Str(<<"k">>))>>),
     Obj(<<Field("inline_data.data", Str(<<"k">>)), Field("image_url", One("text", <<"k">>))>>),
      \* marked behind where it stands: in the string, in key order, in the body's order
     One("prompt", <<"u", Open, "u", Close>>),
     Obj(<<Field("prompt", Str(<<"u">>)), Field("input", Str(<<Open, "u", Close, "p">>))>>),
      \* a broken directive behind a good one; one key twice
     Obj(<<Field("input", Str(<<Open, "u", Close>>)), Field("prompt", Str(<<Open, "k">>))>>),
     Obj(<<Field("prompt", Str(<<"k">>)), Field("prompt", Str(<<"a">>))>>),
      \* a URL with a password that is marked, known, the placeholder of one, or
      \* makes a URL only as a placeholder
     One("prompt", <<"url:", Open, "u", Close, "@">>),
     Obj(<<Field("input", Str(<<"url:", "k", "@", "k">>)),
           Field("prompt", Str(<<Open, "u", "u", Close, "url:", "k", "@">>))>>),
     One("prompt", <<"url:", MCPlaceholderOf(<<"k">>), "@">>),
     One("prompt", <<"url:", "u", "u", "@", "p">>),
      \* guidance
     Obj(<<Field("anthropic_version", Atom), Field("system", Str(<<"k">>))>>),
     Obj(<<Field("system", Arr(<<One("text", <<"k">>)>>))>>),
     Obj(<<Field("contents", One("text", <<"k">>)),
           Field("system_instruction", Obj(<<Field("parts", Arr(<<One("text", <<"k">>)>>))>>))>>),
     Obj(<<Field("contents", One("text", <<"k">>))>>),
     Obj(<<Field("system_instruction", Str(<<"k">>))>>),
     Obj(<<Field("system_instruction", One("parts", <<"a">>)), Field("contents", Str(<<"k">>))>>),
     Obj(<<Field("messages", Arr(<<One("content", <<"k">>), One("content", <<"a">>)>>))>>),
     Obj(<<Field("instructions", Str(<<Guidance, "a">>)), Field("input", Str(<<"k">>))>>),
     Obj(<<Field("response", One("input", <<"k">>)), Field("prompt", Str(<<"a">>))>>),
     Obj(<<Field("response", One("text", <<"k">>)), Field("prompt", Str(<<MCPlaceholderOf(<<"k">>)>>))>>)
    }
=============================================================================
