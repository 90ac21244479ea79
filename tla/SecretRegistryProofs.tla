------------------------ MODULE SecretRegistryProofs ------------------------
(***************************************************************************)
(* The safety properties of SecretRegistry for every set of secrets and    *)
(* labels.  Everything follows from Consistent, an invariant of one        *)
(* registry value that AfterIngest preserves; stating it of a value and    *)
(* not of the variable lets the proofs of other modules, whose actions     *)
(* ingest in the middle of a larger step, use the same lemma.              *)
(***************************************************************************)
EXTENDS SecretRegistry, TLAPS

\* Both indexes hold ids of entries; the length index lists every id under its secret's key
\* and the placeholder index binds every placeholder to the one entry it was made for.
Consistent(reg) ==
    /\ DOMAIN reg = {"entries", "byLenAndPrefilter", "byPlaceholder", "version"}
    /\ reg.entries \in Seq(Entry)
    /\ reg.version = Len(reg.entries)
    /\ \A i \in 1 .. Len(reg.entries) :
        /\ reg.entries[i].placeholder = PlaceholderOf(reg.entries[i].label, reg.entries[i].secret)
        /\ IndexKey(reg.entries[i].secret) \in DOMAIN reg.byLenAndPrefilter
        /\ i \in reg.byLenAndPrefilter[IndexKey(reg.entries[i].secret)]
        /\ reg.entries[i].placeholder \in DOMAIN reg.byPlaceholder
        /\ reg.byPlaceholder[reg.entries[i].placeholder] = i
    /\ \A i, j \in 1 .. Len(reg.entries) : reg.entries[i].secret = reg.entries[j].secret => i = j
    /\ \A key \in DOMAIN reg.byLenAndPrefilter :
            reg.byLenAndPrefilter[key] \subseteq 1 .. Len(reg.entries)
    /\ \A p \in DOMAIN reg.byPlaceholder :
            /\ reg.byPlaceholder[p] \in 1 .. Len(reg.entries)
            /\ reg.entries[reg.byPlaceholder[p]].placeholder = p

LEMMA EmptyConsistent == Consistent(EmptyRegistry)
  BY DEF Consistent, EmptyRegistry

\* Pushing a secret that no entry holds keeps a registry consistent.
LEMMA PushConsistent ==
    ASSUME NEW reg, Consistent(reg), NEW label \in Labels, NEW secret \in Secrets,
           IdsOf(reg, secret) = {}
    PROVE  Consistent(Push(reg, label, secret))
  <1> DEFINE n == Len(reg.entries)
             placeholder == PlaceholderOf(label, secret)
             entry == [label |-> label, secret |-> secret, placeholder |-> placeholder]
             new == Push(reg, label, secret)
  <1>1. entry \in Entry
    BY DEF Entry
  <1>2. reg.entries \in Seq(Entry) /\ n \in Nat /\ reg.version = n
    BY DEF Consistent
  <1>3. /\ new.entries = Append(reg.entries, entry)
        /\ new.byLenAndPrefilter = Bind(reg.byLenAndPrefilter, IndexKey(secret),
                                        CandidateIds(reg, secret) \cup {n + 1})
        /\ new.byPlaceholder = Bind(reg.byPlaceholder, placeholder, n + 1)
        /\ new.version = n + 1
        /\ DOMAIN new = {"entries", "byLenAndPrefilter", "byPlaceholder", "version"}
    BY <1>2 DEF Push
  <1>4. /\ new.entries \in Seq(Entry)
        /\ Len(new.entries) = n + 1
        /\ new.entries[n + 1] = entry
        /\ \A i \in 1 .. n : new.entries[i] = reg.entries[i]
    BY <1>1, <1>2, <1>3
  <1>5. \A i \in 1 .. n : reg.entries[i] \in Entry /\ reg.entries[i].secret # secret
    BY <1>2 DEF IdsOf
  <1>6. \A i \in 1 .. n : reg.entries[i].placeholder # placeholder
    BY <1>5, PlaceholderAssumption DEF Consistent, Entry
  <1>7. placeholder \notin DOMAIN reg.byPlaceholder
    BY <1>6 DEF Consistent
  <1>8. CandidateIds(reg, secret) \subseteq 1 .. n
    BY DEF Consistent, CandidateIds
  <1>9. /\ DOMAIN new.byLenAndPrefilter = DOMAIN reg.byLenAndPrefilter \cup {IndexKey(secret)}
        /\ \A k \in DOMAIN new.byLenAndPrefilter :
             new.byLenAndPrefilter[k] = IF k = IndexKey(secret)
                                        THEN CandidateIds(reg, secret) \cup {n + 1}
                                        ELSE reg.byLenAndPrefilter[k]
    BY <1>3 DEF Bind
  <1>10. /\ DOMAIN new.byPlaceholder = DOMAIN reg.byPlaceholder \cup {placeholder}
         /\ \A p \in DOMAIN new.byPlaceholder :
              new.byPlaceholder[p] = IF p = placeholder THEN n + 1 ELSE reg.byPlaceholder[p]
    BY <1>3 DEF Bind
  <1>11. ASSUME NEW i \in 1 .. (n + 1)
         PROVE  /\ new.entries[i].placeholder =
                     PlaceholderOf(new.entries[i].label, new.entries[i].secret)
                /\ IndexKey(new.entries[i].secret) \in DOMAIN new.byLenAndPrefilter
                /\ i \in new.byLenAndPrefilter[IndexKey(new.entries[i].secret)]
                /\ new.entries[i].placeholder \in DOMAIN new.byPlaceholder
                /\ new.byPlaceholder[new.entries[i].placeholder] = i
    <2>1. CASE i = n + 1
      BY <2>1, <1>4, <1>9, <1>10
    <2>2. CASE i \in 1 .. n
      <3>1. new.entries[i] = reg.entries[i]
        BY <2>2, <1>4
      <3>2. /\ reg.entries[i].placeholder =
                 PlaceholderOf(reg.entries[i].label, reg.entries[i].secret)
            /\ IndexKey(reg.entries[i].secret) \in DOMAIN reg.byLenAndPrefilter
            /\ i \in reg.byLenAndPrefilter[IndexKey(reg.entries[i].secret)]
            /\ reg.entries[i].placeholder \in DOMAIN reg.byPlaceholder
            /\ reg.byPlaceholder[reg.entries[i].placeholder] = i
        BY <2>2 DEF Consistent
      <3>3. i \in new.byLenAndPrefilter[IndexKey(reg.entries[i].secret)]
        BY <3>2, <1>9 DEF CandidateIds
      <3>. QED
        BY <2>2, <3>1, <3>2, <3>3, <1>6, <1>9, <1>10
    <2>. QED
      BY <2>1, <2>2, <1>2
  <1>12. \A i, j \in 1 .. (n + 1) : new.entries[i].secret = new.entries[j].secret => i = j
    <2>1. \A i, j \in 1 .. n : reg.entries[i].secret = reg.entries[j].secret => i = j
      BY DEF Consistent
    <2> TAKE i, j \in 1 .. (n + 1)
    <2> HAVE new.entries[i].secret = new.entries[j].secret
    <2>2. new.entries[n + 1].secret = secret
      BY <1>4
    <2>3. \A k \in 1 .. n : new.entries[k].secret = reg.entries[k].secret
      BY <1>4
    <2>4. CASE i \in 1 .. n /\ j \in 1 .. n
      BY <2>1, <2>3, <2>4
    <2>5. CASE i = n + 1 /\ j \in 1 .. n
      BY <2>2, <2>3, <2>5, <1>5
    <2>6. CASE i \in 1 .. n /\ j = n + 1
      BY <2>2, <2>3, <2>6, <1>5
    <2>. HIDE DEF new
    <2>. QED
      BY <2>4, <2>5, <2>6, <1>2
  <1>13. \A k \in DOMAIN new.byLenAndPrefilter : new.byLenAndPrefilter[k] \subseteq 1 .. (n + 1)
    <2>1. \A k \in DOMAIN reg.byLenAndPrefilter : reg.byLenAndPrefilter[k] \subseteq 1 .. n
      BY DEF Consistent
    <2>. QED
      BY <2>1, <1>2, <1>8, <1>9
  <1>14. \A p \in DOMAIN new.byPlaceholder :
            /\ new.byPlaceholder[p] \in 1 .. (n + 1)
            /\ new.entries[new.byPlaceholder[p]].placeholder = p
    <2>1. \A p \in DOMAIN reg.byPlaceholder :
            reg.byPlaceholder[p] \in 1 .. n /\ reg.entries[reg.byPlaceholder[p]].placeholder = p
      BY DEF Consistent
    <2>. HIDE DEF new
    <2>. TAKE p \in DOMAIN new.byPlaceholder
    <2>2. CASE p = placeholder
      <3>1. new.byPlaceholder[p] = n + 1 /\ new.entries[n + 1] = entry /\ entry.placeholder = placeholder
        BY <2>2, <1>2, <1>4, <1>10
      <3>. QED
        BY <2>2, <3>1, <1>2
    <2>3. CASE p # placeholder
      <3>1. new.byPlaceholder[p] = reg.byPlaceholder[p] /\ reg.byPlaceholder[p] \in 1 .. n
        BY <2>1, <2>3, <1>10
      <3>2. new.entries[reg.byPlaceholder[p]] = reg.entries[reg.byPlaceholder[p]]
        BY <3>1, <1>4
      <3>. QED
        BY <2>1, <2>3, <3>1, <3>2, <1>2, <1>10
    <2>. QED
      BY <2>2, <2>3
  <1>. HIDE DEF new, n
  <1>. QED
    BY <1>2, <1>3, <1>4, <1>11, <1>12, <1>13, <1>14 DEF Consistent, new, n

\* Ingestion keeps a registry consistent, and the secret is registered afterwards.
LEMMA IngestConsistent ==
    ASSUME NEW reg, Consistent(reg), NEW label \in Labels, NEW secret \in Secrets
    PROVE  Consistent(AfterIngest(reg, label, secret))
  BY PushConsistent DEF AfterIngest

\* Ingestion either leaves the registry alone or appends one entry and counts it.
LEMMA IngestAppends ==
    ASSUME NEW reg, Consistent(reg), NEW label \in Labels, NEW secret \in Secrets
    PROVE  LET new == AfterIngest(reg, label, secret)
           IN  \/ new = reg
               \/ /\ new.version = reg.version + 1
                  /\ \A id \in DOMAIN reg.entries :
                        id \in DOMAIN new.entries /\ new.entries[id] = reg.entries[id]
  <1>1. reg.entries \in Seq(Entry)
    BY DEF Consistent
  <1>2. [label |-> label, secret |-> secret, placeholder |-> PlaceholderOf(label, secret)] \in Entry
    BY DEF Entry
  <1>. QED
    BY <1>1, <1>2 DEF AfterIngest, Push

\* What Consistent gives, property by property.
LEMMA ConsistentImplies ==
    ASSUME Consistent(registry)
    PROVE  RegistryTypeOK /\ OneIdPerSecret /\ IndexFindsEverySecret /\ PlaceholdersResolve
  <1>1. DOMAIN registry.entries = 1 .. Len(registry.entries)
    BY DEF Consistent
  <1>2. RegistryTypeOK
    BY <1>1 DEF Consistent, RegistryTypeOK
  <1>3. OneIdPerSecret
    BY <1>1 DEF Consistent, OneIdPerSecret
  <1>4. IndexFindsEverySecret
    BY <1>1 DEF Consistent, IndexFindsEverySecret, VerifiedIds, CandidateIds, IdsOf
  <1>5. PlaceholdersResolve
    BY <1>1 DEF Consistent, PlaceholdersResolve
  <1>. QED
    BY <1>2, <1>3, <1>4, <1>5

\* Consistent is an invariant of the registry.
THEOREM RegistryConsistent == RegistrySpec => []Consistent(registry)
  <1>1. RegistryInit => Consistent(registry)
    BY EmptyConsistent DEF RegistryInit
  <1>2. Consistent(registry) /\ [RegistryNext]_registry => Consistent(registry)'
    <2> SUFFICES ASSUME Consistent(registry), [RegistryNext]_registry
                 PROVE  Consistent(registry)'
      OBVIOUS
    <2>1. CASE UNCHANGED registry
      BY <2>1 DEF Consistent
    <2>2. ASSUME NEW label \in Labels, NEW bytes \in Secrets \cup {<<>>}, Ingest(label, bytes)
          PROVE  Consistent(registry)'
      <3>1. registry' = registry \/ \E secret \in Secrets :
                registry' = AfterIngest(registry, label, secret)
        BY <2>2 DEF Ingest
      <3>. QED
        BY <3>1, IngestConsistent
    <2>. QED
      BY <2>1, <2>2 DEF RegistryNext
  <1>. QED
    BY <1>1, <1>2, PTL DEF RegistrySpec

\* The registry's data has its type: both indexes hold ids of entries.
THEOREM RegistryTypeCorrect == RegistrySpec => []RegistryTypeOK
  BY RegistryConsistent, ConsistentImplies, PTL

\* A secret has one id under whatever labels and in whatever order it is ingested.
THEOREM SecretsHaveOneId == RegistrySpec => []OneIdPerSecret
  BY RegistryConsistent, ConsistentImplies, PTL

\* The prefilter index finds every registered secret, whatever its collisions.
THEOREM IndexIsComplete == RegistrySpec => []IndexFindsEverySecret
  BY RegistryConsistent, ConsistentImplies, PTL

\* Every placeholder ever written resolves to the secret it was written for.
THEOREM PlaceholdersAreInvertible == RegistrySpec => []PlaceholdersResolve
  BY RegistryConsistent, ConsistentImplies, PTL

\* Entries never change and every change is counted by the version.
THEOREM RegistryAppendOnly == RegistrySpec => AppendOnly
  <1>1. Consistent(registry) /\ [RegistryNext]_registry
            => [/\ registry'.version > registry.version
                /\ \A id \in DOMAIN registry.entries :
                     id \in DOMAIN registry'.entries
                     /\ registry'.entries[id] = registry.entries[id]]_registry
    <2> SUFFICES ASSUME Consistent(registry), registry' # registry,
                        NEW label \in Labels, NEW bytes \in Secrets \cup {<<>>},
                        Ingest(label, bytes)
                 PROVE  /\ registry'.version > registry.version
                        /\ \A id \in DOMAIN registry.entries :
                             id \in DOMAIN registry'.entries
                             /\ registry'.entries[id] = registry.entries[id]
      BY DEF RegistryNext
    <2>1. registry.version \in Nat
      BY DEF Consistent
    <2>. QED
      BY <2>1, IngestAppends DEF Ingest
  <1>. QED
    BY <1>1, RegistryConsistent, PTL DEF RegistrySpec, AppendOnly
=============================================================================
