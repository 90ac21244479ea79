--------------------------- MODULE SecretRegistry ---------------------------
(***************************************************************************)
(* The in-memory secret registry (src/src/secrets/registry.rs): an         *)
(* append-only list of secrets, two hash indexes over it, and the version  *)
(* by which the redaction cache and the response restorers notice change.  *)
(*                                                                         *)
(* A secret is the sequence of its bytes.  HMAC-SHA256 is taken to be      *)
(* injective, so a keyed digest is the secret itself; the 64-bit prefilter *)
(* is not, and stays a constant operator whose collisions are modelled.    *)
(* The encryption of the capsule and the wiping of buffers are left out,   *)
(* and so is the saturation of the 64-bit version.                         *)
(***************************************************************************)
EXTENDS Naturals, Sequences, FiniteSets

CONSTANTS
    Byte,                   \* the bytes texts and secrets are made of
    Secrets,                \* the byte sequences that may get registered
    Labels,                 \* cleaned labels (SecretLabel::new)
    PlaceholderOf(_, _),    \* label, secret -> placeholder (Placeholder::new)
    Prefilter(_)            \* bytes -> fingerprint (keyed_fingerprint)

ASSUME SecretsAssumption == Secrets \subseteq Seq(Byte) \ {<<>>}

\* A placeholder spells its label and 48 bits of an HMAC of the secret's digest.
\* Two secrets under one label could share those bits; that is assumed away.
ASSUME PlaceholderAssumption ==
    \A k, l \in Labels : \A s, t \in Secrets :
        PlaceholderOf(k, s) = PlaceholderOf(l, t) => k = l /\ s = t

VARIABLE registry

-----------------------------------------------------------------------------

EmptyRegistry ==
    [entries |-> <<>>, byLenAndPrefilter |-> <<>>, byPlaceholder |-> <<>>, version |-> 0]

\* The ids (positions in entries) whose digest and length are those of secret.
IdsOf(reg, secret) == {id \in DOMAIN reg.entries : reg.entries[id].secret = secret}

Registered(reg) == {reg.entries[id].secret : id \in DOMAIN reg.entries}

\* The map f with key bound to value (HashMap::insert).
Bind(f, key, value) ==
    [k \in DOMAIN f \cup {key} |-> IF k = key THEN value ELSE f[k]]

IndexKey(bytes) == <<Len(bytes), Prefilter(bytes)>>

\* Registry::candidates: the ids the length and prefilter index lists for a window.
CandidateIds(reg, bytes) ==
    IF IndexKey(bytes) \in DOMAIN reg.byLenAndPrefilter
    THEN reg.byLenAndPrefilter[IndexKey(bytes)]
    ELSE {}

\* Candidates whose keyed digest is the window's (verify_window).
VerifiedIds(reg, bytes) ==
    {id \in CandidateIds(reg, bytes) : reg.entries[id].secret = bytes}

\* Mutants of Push: the placeholder bound to the next id; the bucket replaced, not extended.
PushBindsNextId(reg, label, secret) ==
    LET placeholder == PlaceholderOf(label, secret)
    IN  [entries |-> Append(reg.entries,
            [label |-> label, secret |-> secret, placeholder |-> placeholder]),
         byLenAndPrefilter |-> Bind(reg.byLenAndPrefilter, IndexKey(secret),
            CandidateIds(reg, secret) \cup {Len(reg.entries) + 1}),
         byPlaceholder |-> Bind(reg.byPlaceholder, placeholder, Len(reg.entries) + 2),
         version |-> reg.version + 1]
PushReplacesBucket(reg, label, secret) ==
    LET placeholder == PlaceholderOf(label, secret)
    IN  [entries |-> Append(reg.entries,
            [label |-> label, secret |-> secret, placeholder |-> placeholder]),
         byLenAndPrefilter |->
            Bind(reg.byLenAndPrefilter, IndexKey(secret), {Len(reg.entries) + 1}),
         byPlaceholder |-> Bind(reg.byPlaceholder, placeholder, Len(reg.entries) + 1),
         version |-> reg.version + 1]

\* The registry after a secret that is not in it is pushed.
Push(reg, label, secret) ==
    LET id == Len(reg.entries) + 1
        placeholder == PlaceholderOf(label, secret)
        entry == [label |-> label, secret |-> secret, placeholder |-> placeholder]
    IN  [entries |-> Append(reg.entries, entry),
         byLenAndPrefilter |->
            Bind(reg.byLenAndPrefilter, IndexKey(secret), CandidateIds(reg, secret) \cup {id}),
         byPlaceholder |-> Bind(reg.byPlaceholder, placeholder, id),
         version |-> reg.version + 1]

\* Mutants of AfterIngest: a secret known under another label is pushed again; a known secret
\* takes the new label.
AfterIngestByLabel(reg, label, secret) ==
    IF \E id \in IdsOf(reg, secret) : reg.entries[id].label = label
    THEN reg ELSE Push(reg, label, secret)
AfterIngestRelabels(reg, label, secret) ==
    IF IdsOf(reg, secret) = {} THEN Push(reg, label, secret)
    ELSE [reg EXCEPT !.entries = [id \in DOMAIN @ |->
            IF id \in IdsOf(reg, secret)
            THEN [@[id] EXCEPT !.label = label, !.placeholder = PlaceholderOf(label, secret)]
            ELSE @[id]]]

\* Registry::ingest on non-empty bytes: a known secret keeps its id and first label.
AfterIngest(reg, label, secret) ==
    IF IdsOf(reg, secret) # {} THEN reg ELSE Push(reg, label, secret)

\* The length of the longest registered secret.
MaxSecretLen(reg) ==
    IF reg.entries = <<>> THEN 0
    ELSE CHOOSE n \in {Len(s) : s \in Registered(reg)} :
            \A s \in Registered(reg) : Len(s) <= n

-----------------------------------------------------------------------------

RegistryInit == registry = EmptyRegistry

\* ingest(label, bytes): empty bytes are refused and leave the registry alone.
Ingest(label, bytes) ==
    registry' = IF bytes = <<>> THEN registry ELSE AfterIngest(registry, label, bytes)

RegistryNext == \E label \in Labels, bytes \in Secrets \cup {<<>>} : Ingest(label, bytes)

RegistrySpec == RegistryInit /\ [][RegistryNext]_registry

-----------------------------------------------------------------------------

Entry ==
    [label: Labels, secret: Secrets,
     placeholder: {PlaceholderOf(l, s) : l \in Labels, s \in Secrets}]

RegistryTypeOK ==
    /\ DOMAIN registry = {"entries", "byLenAndPrefilter", "byPlaceholder", "version"}
    /\ registry.entries \in Seq(Entry)
    /\ registry.version \in Nat
    /\ \A key \in DOMAIN registry.byLenAndPrefilter :
            registry.byLenAndPrefilter[key] \subseteq DOMAIN registry.entries
    /\ \A p \in DOMAIN registry.byPlaceholder :
            registry.byPlaceholder[p] \in DOMAIN registry.entries

\* A secret has one id, whatever labels it was ingested under: the discovery pass, the
\* observed auth headers, the <cb> directives and the patterns all meet the same secret.
OneIdPerSecret ==
    \A i, j \in DOMAIN registry.entries :
        registry.entries[i].secret = registry.entries[j].secret => i = j

\* The scanner's prefilter never costs a match: what the index and the digest check let
\* through is exactly the set of entries whose secret the window is, collisions or not.
IndexFindsEverySecret ==
    \A s \in Secrets : VerifiedIds(registry, s) = IdsOf(registry, s)

\* Restoration is the inverse of redaction: the placeholder written for an entry is bound
\* to that entry, and the index holds no placeholder that was never written.
PlaceholdersResolve ==
    /\ \A id \in DOMAIN registry.entries :
            LET p == registry.entries[id].placeholder
            IN  p \in DOMAIN registry.byPlaceholder /\ registry.byPlaceholder[p] = id
    /\ \A p \in DOMAIN registry.byPlaceholder :
            registry.entries[registry.byPlaceholder[p]].placeholder = p

\* Ids, labels and placeholders already handed out never change (spans cached with an id
\* and placeholders already upstream stay valid), and a step that changes anything changes
\* the version, which is all a cache or a restorer looks at.
AppendOnly ==
    [][/\ registry'.version > registry.version
       /\ \A id \in DOMAIN registry.entries :
            id \in DOMAIN registry'.entries /\ registry'.entries[id] = registry.entries[id]
      ]_registry
=============================================================================
