---------------------------- MODULE ScannerProofs ----------------------------
(***************************************************************************)
(* What the scanner promises for every registry, every text and every      *)
(* chunk size.                                                             *)
(***************************************************************************)
EXTENDS Scanner, SequenceLemmas, SecretRegistryProofs

-----------------------------------------------------------------------------
\* The greedy selection (select_longest_non_overlapping)

\* Spans as the scanner makes them: start and length tell two of them apart.
WellFormed(S) ==
    /\ \A a \in S : a.start \in Nat \ {0} /\ a.len \in Nat \ {0} /\ a.id \in Nat
    /\ \A a, b \in S : a.start = b.start /\ a.len = b.len => a = b

\* What the greedy pass makes of a set of spans: some of them that do not overlap, and for
\* each of the others one that overlaps it and is preferred to it.
Greedy(S, selected) ==
    /\ selected \subseteq S
    /\ \A a, b \in selected : a # b => ~Overlaps(a, b)
    /\ \A a \in S \ selected : \E b \in selected : Overlaps(a, b) /\ Preferred(b, a)

LEMMA PreferredIsOrder ==
    ASSUME NEW S, WellFormed(S)
    PROVE  /\ \A a, b \in S : a # b => Preferred(a, b) \/ Preferred(b, a)
           /\ \A a, b, c \in S : Preferred(a, b) /\ Preferred(b, c) => Preferred(a, c)
<1>1. ASSUME NEW a \in S, NEW b \in S, a # b PROVE Preferred(a, b) \/ Preferred(b, a)
  <2>1. a.len # b.len \/ a.start # b.start
    BY <1>1 DEF WellFormed
  <2>2. a.len \in Nat /\ b.len \in Nat /\ a.start \in Nat /\ b.start \in Nat
    BY DEF WellFormed
  <2> QED BY <2>1, <2>2 DEF Preferred
<1>2. ASSUME NEW a \in S, NEW b \in S, NEW c \in S, Preferred(a, b), Preferred(b, c)
      PROVE  Preferred(a, c)
  <2>1. /\ a.len \in Nat /\ b.len \in Nat /\ c.len \in Nat
        /\ a.start \in Nat /\ b.start \in Nat /\ c.start \in Nat
        /\ a.id \in Nat /\ b.id \in Nat /\ c.id \in Nat
    BY DEF WellFormed
  <2> QED BY <1>2, <2>1 DEF Preferred
<1> QED BY <1>1, <1>2

\* A finite set of spans has one to which all others are preferred.
LEMMA WorstExists ==
    ASSUME NEW S, WellFormed(S), IsFiniteSet(S), S # {}
    PROVE  \E a \in S : \A b \in S \ {a} : Preferred(b, a)
<1> DEFINE WorstOf(f, k, i) == \A j \in 1 .. k : f[j] = f[i] \/ Preferred(f[j], f[i])
           T == {k \in Nat : \A f \in [1 .. k + 1 -> S] : \E i \in 1 .. k + 1 : WorstOf(f, k + 1, i)}
<1>1. 0 \in T
  <2> SUFFICES ASSUME NEW f \in [1 .. 0 + 1 -> S] PROVE WorstOf(f, 0 + 1, 1)
    OBVIOUS
  <2> QED OBVIOUS
<1>2. ASSUME NEW k \in Nat, k \in T PROVE k + 1 \in T
  <2> HIDE DEF WorstOf
  <2> SUFFICES ASSUME NEW f \in [1 .. (k + 1) + 1 -> S]
               PROVE  \E i \in 1 .. (k + 1) + 1 : WorstOf(f, (k + 1) + 1, i)
    OBVIOUS
  <2> DEFINE g == [i \in 1 .. k + 1 |-> f[i]]
             l == (k + 1) + 1
  <2>1. g \in [1 .. k + 1 -> S]
    OBVIOUS
  <2>2. PICK i \in 1 .. k + 1 : WorstOf(g, k + 1, i)
    BY <1>2, <2>1
  <2>3. /\ i \in 1 .. l /\ l \in 1 .. l /\ f[i] \in S /\ f[l] \in S /\ g[i] = f[i]
        /\ \A j \in 1 .. k + 1 : j \in 1 .. l /\ g[j] = f[j] /\ f[j] \in S
        /\ \A j \in 1 .. l : j \in 1 .. k + 1 \/ j = l
    OBVIOUS
  <2> HIDE DEF g, l
  <2>4. \A j \in 1 .. k + 1 : f[j] = f[i] \/ Preferred(f[j], f[i])
    BY <2>2, <2>3 DEF WorstOf
  <2>5. CASE f[l] = f[i] \/ Preferred(f[l], f[i])
    <3>1. WorstOf(f, l, i)
        BY <2>3, <2>4, <2>5 DEF WorstOf
    <3> QED BY <2>3, <3>1 DEF l
  <2>6. CASE f[l] # f[i] /\ ~Preferred(f[l], f[i])
    <3>1. Preferred(f[i], f[l])
        BY <2>3, <2>6, PreferredIsOrder
    <3>2. \A j \in 1 .. k + 1 : Preferred(f[j], f[l])
        BY <2>3, <2>4, <3>1, PreferredIsOrder
    <3>3. WorstOf(f, l, l)
        BY <2>3, <3>2 DEF WorstOf
    <3> QED BY <2>3, <3>3 DEF l
  <2> QED BY <2>5, <2>6
<1>3. Nat \subseteq T
  <2> HIDE DEF T
  <2> QED BY <1>1, <1>2, NatSetInduction
<1>4. PICK n \in Nat : ExistsBijection(1 .. n, S)
    BY FS_NatBijection
<1>5. PICK f \in [1 .. n -> S] : \A x \in S : \E i \in 1 .. n : f[i] = x
    BY <1>4 DEF ExistsBijection, Bijection, Injection, Surjection
<1>6. n # 0
    BY <1>5
<1>7. n - 1 \in T /\ (n - 1) + 1 = n
  <2>1. n - 1 \in Nat /\ (n - 1) + 1 = n
    BY <1>6
  <2> HIDE DEF T
  <2> QED BY <1>3, <2>1
<1> HIDE DEF WorstOf
<1>8. PICK i \in 1 .. n : WorstOf(f, n, i)
    BY <1>5, <1>7
<1>9. \A b \in S \ {f[i]} : Preferred(b, f[i])
    BY <1>5, <1>8 DEF WorstOf
<1> QED BY <1>5, <1>9

\* The recursion of the greedy pass.
WorstSpan(S) == CHOOSE a \in S : \A b \in S \ {a} : Preferred(b, a)

Keep(a, selected) ==
    IF \E b \in selected : Overlaps(a, b) THEN selected ELSE selected \cup {a}

SelectionStep(s, f) == IF s = {} THEN {} ELSE Keep(WorstSpan(s), f[s \ {WorstSpan(s)}])

LEMMA WorstSpanIsWorst ==
    ASSUME NEW S, WellFormed(S), IsFiniteSet(S), NEW s \in SUBSET S, s # {}
    PROVE  /\ WorstSpan(s) \in s
           /\ \A b \in s \ {WorstSpan(s)} : Preferred(b, WorstSpan(s))
           /\ s \ {WorstSpan(s)} \in SUBSET S
           /\ Cardinality(s) \in Nat \ {0}
           /\ Cardinality(s \ {WorstSpan(s)}) = Cardinality(s) - 1
<1>1. IsFiniteSet(s) /\ WellFormed(s)
    BY FS_Subset DEF WellFormed
<1>2. \E a \in s : \A b \in s \ {a} : Preferred(b, a)
    BY <1>1, WorstExists
<1>3. WorstSpan(s) \in s /\ \A b \in s \ {WorstSpan(s)} : Preferred(b, WorstSpan(s))
    BY <1>2 DEF WorstSpan
<1>4. Cardinality(s) \in Nat /\ Cardinality(s) # 0
    BY <1>1, FS_CardinalityType, FS_EmptySet
<1>5. Cardinality(s \ {WorstSpan(s)}) = Cardinality(s) - 1
    BY <1>1, <1>3, FS_RemoveElement
<1> QED BY <1>3, <1>4, <1>5

\* A function satisfies the recursion on all subsets of a finite set of spans.
LEMMA SelectionExists ==
    ASSUME NEW S, WellFormed(S), IsFiniteSet(S)
    PROVE  \E f : f = [s \in SUBSET S |-> SelectionStep(s, f)]
<1> DEFINE Upto(n, f) == \A s \in SUBSET S : Cardinality(s) <= n => f[s] = SelectionStep(s, f)
           T == {n \in Nat : \E f : Upto(n, f)}
<1>1. \A s \in SUBSET S : Cardinality(s) \in Nat /\ (Cardinality(s) = 0 <=> s = {})
    BY FS_Subset, FS_CardinalityType, FS_EmptySet
<1>2. 0 \in T
  <2> DEFINE f == [s \in SUBSET S |-> {}]
  <2>1. ASSUME NEW s \in SUBSET S, Cardinality(s) <= 0 PROVE f[s] = SelectionStep(s, f)
    <3>1. s = {}
        BY <1>1, <2>1
    <3> QED BY <3>1 DEF SelectionStep
  <2>2. Upto(0, f)
    BY <2>1
  <2> HIDE DEF Upto
  <2> QED BY <2>2
<1>3. ASSUME NEW n \in Nat, n \in T PROVE n + 1 \in T
  <2>1. PICK f : Upto(n, f)
    BY <1>3
  <2> DEFINE g == [s \in SUBSET S |-> SelectionStep(s, f)]
  <2>2. ASSUME NEW s \in SUBSET S, Cardinality(s) <= n + 1 PROVE g[s] = SelectionStep(s, g)
    <3>1. CASE s = {}
        BY <3>1 DEF SelectionStep
    <3>2. CASE s # {}
      <4> DEFINE t == s \ {WorstSpan(s)}
      <4>1. t \in SUBSET S /\ Cardinality(t) <= n
        BY <1>1, <2>2, <3>2, WorstSpanIsWorst
      <4> HIDE DEF t
      <4>2. g[t] = SelectionStep(t, f)
        BY <4>1
      <4>3. f[t] = SelectionStep(t, f)
        BY <2>1, <4>1
      <4>4. f[t] = g[t]
        BY <4>2, <4>3
      <4>5. g[s] = SelectionStep(s, f)
        OBVIOUS
      <4> HIDE DEF g
      <4> QED BY <3>2, <4>4, <4>5 DEF SelectionStep, t
    <3> QED BY <3>1, <3>2
  <2> HIDE DEF g
  <2>3. Upto(n + 1, g)
    BY <2>2
  <2> HIDE DEF Upto
  <2> QED BY <2>3
<1>4. Cardinality(S) \in Nat
    BY FS_CardinalityType
<1>5. Nat \subseteq T
  <2> HIDE DEF T
  <2> QED BY <1>2, <1>3, NatSetInduction
<1>6. PICK f : Upto(Cardinality(S), f)
    BY <1>4, <1>5
<1> DEFINE g == [s \in SUBSET S |-> f[s]]
<1>7. ASSUME NEW s \in SUBSET S PROVE g[s] = SelectionStep(s, g)
  <2>1. Cardinality(s) <= Cardinality(S)
    BY FS_Subset
  <2>2. f[s] = SelectionStep(s, f) /\ g[s] = f[s]
    BY <1>6, <2>1
  <2>3. s # {} => g[s \ {WorstSpan(s)}] = f[s \ {WorstSpan(s)}]
    OBVIOUS
  <2> HIDE DEF g
  <2> QED BY <2>2, <2>3 DEF SelectionStep
<1>8. g = [s \in SUBSET S |-> SelectionStep(s, g)]
  <2>1. g = [s \in SUBSET S |-> g[s]]
    OBVIOUS
  <2> HIDE DEF g
  <2> QED BY <1>7, <2>1
<1> QED BY <1>8

\* Whatever satisfies it selects greedily, for a span joins the selection last of those it
\* was compared with.
LEMMA SelectionIsGreedy ==
    ASSUME NEW S, WellFormed(S), IsFiniteSet(S), NEW f, f = [s \in SUBSET S |-> SelectionStep(s, f)]
    PROVE  Greedy(S, f[S])
<1> DEFINE T == {n \in Nat : \A s \in SUBSET S : Cardinality(s) = n => Greedy(s, f[s])}
<1>1. \A s \in SUBSET S : Cardinality(s) \in Nat /\ (Cardinality(s) = 0 <=> s = {})
    BY FS_Subset, FS_CardinalityType, FS_EmptySet
<1>2. 0 \in T
  <2>1. f[{}] = {}
    BY DEF SelectionStep
  <2> QED BY <1>1, <2>1 DEF Greedy
<1>3. ASSUME NEW n \in Nat, n \in T PROVE n + 1 \in T
  <2> SUFFICES ASSUME NEW s \in SUBSET S, Cardinality(s) = n + 1 PROVE Greedy(s, f[s])
    OBVIOUS
  <2> DEFINE w == WorstSpan(s)
             t == s \ {w}
             k == f[t]
  <2>1. s # {}
    BY <1>1
  <2>2. w \in s /\ (\A b \in t : Preferred(b, w)) /\ t \in SUBSET S /\ Cardinality(t) = n
    BY <2>1, WorstSpanIsWorst
  <2>3. f[s] = Keep(w, k)
    BY <2>1 DEF SelectionStep
  <2> HIDE DEF w, t
  <2>4. Greedy(t, k)
    BY <1>3, <2>2
  <2> HIDE DEF k
  <2>5. s = t \cup {w} /\ w \notin t
    BY <2>2 DEF t
  <2>6. ASSUME NEW a \in S, NEW b \in S PROVE Overlaps(a, b) <=> Overlaps(b, a)
    BY DEF Overlaps
  <2>7. CASE \E b \in k : Overlaps(w, b)
    <3>1. f[s] = k
        BY <2>3, <2>7 DEF Keep
    <3>2. PICK d \in k : Overlaps(w, d)
        BY <2>7
    <3>3. d \in t /\ Preferred(d, w)
        BY <2>2, <2>4, <3>2 DEF Greedy
    <3>4. \A a \in s \ k : \E c \in k : Overlaps(a, c) /\ Preferred(c, a)
      <4> SUFFICES ASSUME NEW a \in s \ k PROVE \E c \in k : Overlaps(a, c) /\ Preferred(c, a)
        OBVIOUS
      <4>1. CASE a = w
        BY <3>2, <3>3, <4>1
      <4>2. CASE a # w
        BY <2>4, <2>5, <4>2 DEF Greedy
      <4> QED BY <4>1, <4>2
    <3>5. k \subseteq s /\ \A a, b \in k : a # b => ~Overlaps(a, b)
        BY <2>4, <2>5, Zenon DEF Greedy
    <3> QED BY <3>1, <3>4, <3>5 DEF Greedy
  <2>8. CASE ~\E b \in k : Overlaps(w, b)
    <3>1. f[s] = k \cup {w}
        BY <2>3, <2>8 DEF Keep
    <3>2. k \subseteq t /\ t \subseteq S /\ w \in S
        BY <2>2, <2>4 DEF Greedy
    <3>3. \A a, b \in k \cup {w} : a # b => ~Overlaps(a, b)
        BY <2>4, <2>6, <2>8, <3>2 DEF Greedy
    <3>4. \A a \in s \ (k \cup {w}) : \E b \in k \cup {w} : Overlaps(a, b) /\ Preferred(b, a)
        BY <2>4, <2>5 DEF Greedy
    <3> QED BY <2>5, <3>1, <3>2, <3>3, <3>4 DEF Greedy
  <2> QED BY <2>7, <2>8
<1>4. Nat \subseteq T
  <2> HIDE DEF T
  <2> QED BY <1>2, <1>3, NatSetInduction
<1>5. Cardinality(S) \in T
    BY <1>1, <1>4
<1> QED BY <1>5

LEMMA SelectSpansIsGreedy ==
    ASSUME NEW S, WellFormed(S), IsFiniteSet(S)
    PROVE  Greedy(S, SelectSpans(S))
<1> DEFINE f == CHOOSE f : f = [s \in SUBSET S |-> SelectionStep(s, f)]
<1>1. f = [s \in SUBSET S |-> SelectionStep(s, f)]
    BY SelectionExists
<1>2. SelectSpans(S) = f[S]
    BY DEF SelectSpans, MapThenFoldSet, SelectionStep, Keep, WorstSpan
<1> HIDE DEF f
<1> QED BY <1>1, <1>2, SelectionIsGreedy

-----------------------------------------------------------------------------
\* The order of the selected spans (the trailing sort)

\* Spans of which no two share a position, in the order in which they stand in the text.
Ordered(w) ==
    \A i, j \in DOMAIN w : i < j => SpanEnd(w[i]) <= w[j].start

LEMMA TextOrder ==
    ASSUME NEW S, WellFormed(S), IsFiniteSet(S), \A a, b \in S : a # b => ~Overlaps(a, b)
    PROVE  /\ Cardinality(S) \in Nat
           /\ InTextOrder(S) \in [1 .. Cardinality(S) -> S]
           /\ \A a \in S : \E i \in 1 .. Cardinality(S) : InTextOrder(S)[i] = a
           /\ Ordered(InTextOrder(S))
<1> DEFINE n == Cardinality(S)
           Upper(a) == {b \in S : b.start <= a.start}
           r == [a \in S |-> Cardinality(Upper(a))]
           w == InTextOrder(S)
<1>1. n \in Nat
    BY FS_CardinalityType
<1>2. \A a \in S : a.start \in Nat /\ a.len \in Nat \ {0}
    BY DEF WellFormed
<1>3. \A a \in S : IsFiniteSet(Upper(a)) /\ Cardinality(Upper(a)) \in Nat /\ Cardinality(Upper(a)) <= n
    BY FS_Subset, FS_CardinalityType
<1>4. ASSUME NEW a \in S PROVE r[a] \in 1 .. n
  <2>1. a \in Upper(a)
    BY <1>2
  <2>2. Cardinality(Upper(a)) # 0
    BY <1>3, <2>1, FS_EmptySet
  <2> HIDE DEF Upper
  <2> QED BY <1>1, <1>3, <2>2
<1>5. ASSUME NEW a \in S, NEW b \in S, a.start <= b.start PROVE r[a] <= r[b]
  <2>1. Upper(a) \subseteq Upper(b)
    BY <1>2, <1>5
  <2> HIDE DEF Upper
  <2> QED BY <1>3, <2>1, FS_Subset
<1>6. ASSUME NEW a \in S, NEW b \in S, a.start < b.start PROVE r[a] < r[b]
  <2>1. Upper(a) \subseteq Upper(b) /\ b \in Upper(b) /\ b \notin Upper(a)
    BY <1>2, <1>6
  <2> HIDE DEF Upper
  <2>2. Cardinality(Upper(a)) <= Cardinality(Upper(b)) /\ Cardinality(Upper(a)) # Cardinality(Upper(b))
    BY <1>3, <2>1, FS_Subset
  <2> QED BY <1>3, <2>2
<1>7. ASSUME NEW a \in S, NEW b \in S, a # b PROVE a.start < b.start \/ b.start < a.start
    BY <1>2, <1>7 DEF Overlaps, SpanEnd
<1> HIDE DEF r
<1>8. r \in Injection(S, 1 .. n)
  <2>1. r \in [S -> 1 .. n]
    BY <1>4 DEF r
  <2>2. ASSUME NEW a \in S, NEW b \in S, r[a] = r[b] PROVE a = b
    <3>1. r[a] \in Int /\ r[b] \in Int
        BY <1>4
    <3> QED BY <1>6, <1>7, <2>2, <3>1
  <2> QED BY <2>1, <2>2 DEF Injection, IsInjective
<1>9. r \in Surjection(S, 1 .. n)
  <2>1. IsFiniteSet(1 .. n) /\ Cardinality(1 .. n) = n
    BY <1>1, FS_Interval
  <2> QED BY <1>8, <2>1, FS_Injection
<1>10. w = [i \in 1 .. n |-> CHOOSE a \in S : r[a] = i]
  <2>1. w = [i \in 1 .. n |-> CHOOSE a \in S : Cardinality(Upper(a)) = i]
    BY DEF InTextOrder
  <2>2. \A a \in S : r[a] = Cardinality(Upper(a))
    BY DEF r
  <2> HIDE DEF w, Upper
  <2>3. \A i \in 1 .. n : (CHOOSE a \in S : Cardinality(Upper(a)) = i) = CHOOSE a \in S : r[a] = i
    BY <2>2
  <2> QED BY <2>1, <2>3
<1> HIDE DEF w
<1>11. ASSUME NEW i \in 1 .. n PROVE w[i] \in S /\ r[w[i]] = i
  <2>1. \E a \in S : r[a] = i
    BY <1>9 DEF Surjection
  <2> QED BY <1>10, <2>1
<1>12. w \in [1 .. n -> S]
    BY <1>10, <1>11
<1>13. ASSUME NEW a \in S PROVE \E i \in 1 .. n : w[i] = a
  <2>1. w[r[a]] \in S /\ r[w[r[a]]] = r[a]
    BY <1>4, <1>11
  <2> QED BY <1>4, <1>8, <2>1 DEF Injection, IsInjective
<1>14. ASSUME NEW i \in 1 .. n, NEW j \in 1 .. n, i < j PROVE SpanEnd(w[i]) <= w[j].start
  <2>1. w[i] \in S /\ w[j] \in S /\ r[w[i]] = i /\ r[w[j]] = j
    BY <1>11
  <2>2. w[i].start \in Nat /\ w[j].start \in Nat /\ w[i].len \in Nat \ {0} /\ w[j].len \in Nat \ {0}
    BY <1>2, <2>1
  <2>3. ~(w[j].start <= w[i].start)
    BY <1>5, <1>14, <2>1
  <2>4. w[i] # w[j]
    BY <1>14, <2>1
  <2>5. ~Overlaps(w[i], w[j])
    BY <2>1, <2>4
  <2> QED BY <2>2, <2>3, <2>5 DEF Overlaps, SpanEnd
<1>15. Ordered(w)
    BY <1>12, <1>14 DEF Ordered
<1> QED BY <1>1, <1>12, <1>13, <1>15 DEF w

\* What select_longest_non_overlapping returns.
LEMMA SelectionInOrder ==
    ASSUME NEW S, WellFormed(S), IsFiniteSet(S)
    PROVE  LET w == SelectLongestNonOverlapping(S)
           IN  /\ w \in Seq(S)
               /\ DOMAIN w = 1 .. Len(w)
               /\ Ordered(w)
               /\ Greedy(S, {w[i] : i \in DOMAIN w})
<1> DEFINE G == SelectSpans(S)
           w == SelectLongestNonOverlapping(S)
<1>1. Greedy(S, G)
    BY SelectSpansIsGreedy
<1> HIDE DEF G
<1>2. G \subseteq S /\ \A a, b \in G : a # b => ~Overlaps(a, b)
    BY <1>1 DEF Greedy
<1>3. WellFormed(G) /\ IsFiniteSet(G)
    BY <1>2, FS_Subset DEF WellFormed
<1>4. /\ Cardinality(G) \in Nat /\ w \in [1 .. Cardinality(G) -> G]
      /\ \A a \in G : \E i \in 1 .. Cardinality(G) : w[i] = a
      /\ Ordered(w)
    BY <1>2, <1>3, TextOrder DEF SelectLongestNonOverlapping, G
<1> HIDE DEF w
<1>5. {w[i] : i \in DOMAIN w} = G
    BY <1>4
<1>6. w \in Seq(S) /\ DOMAIN w = 1 .. Len(w)
    BY <1>2, <1>4
<1> QED BY <1>1, <1>4, <1>5, <1>6 DEF w

-----------------------------------------------------------------------------
\* The occurrences (scan_string_token)

\* The span of entry id at position k.
SpanAt(reg, id, k) ==
    [start |-> k, len |-> Len(reg.entries[id].secret), id |-> id,
     placeholder |-> reg.entries[id].placeholder]

\* A span marks a registered secret that stands where the span says.
Marks(o, t, reg) ==
    \E id \in 1 .. Len(reg.entries) : \E k \in 1 .. Len(t) + 1 - Len(reg.entries[id].secret) :
        /\ o = SpanAt(reg, id, k)
        /\ Window(t, k, Len(reg.entries[id].secret)) = reg.entries[id].secret

LEMMA EntryType ==
    ASSUME NEW reg, Consistent(reg), NEW id \in 1 .. Len(reg.entries)
    PROVE  /\ reg.entries[id] \in Entry
           /\ reg.entries[id].secret \in Secrets
           /\ reg.entries[id].secret \in Seq(Byte)
           /\ Len(reg.entries[id].secret) \in Nat \ {0}
<1>1. reg.entries[id] \in Entry
    BY DEF Consistent
<1>2. reg.entries[id].secret \in Secrets
    BY <1>1 DEF Entry
<1>3. reg.entries[id].secret \in Seq(Byte) /\ reg.entries[id].secret # <<>>
    BY <1>2, SecretsAssumption
<1> QED BY <1>1, <1>2, <1>3

LEMMA VerifiedAre ==
    ASSUME NEW reg, Consistent(reg), NEW bytes
    PROVE  VerifiedIds(reg, bytes) = {id \in 1 .. Len(reg.entries) : reg.entries[id].secret = bytes}
<1>1. ASSUME NEW id \in VerifiedIds(reg, bytes)
      PROVE  id \in 1 .. Len(reg.entries) /\ reg.entries[id].secret = bytes
    BY DEF VerifiedIds, CandidateIds, Consistent
<1>2. ASSUME NEW id \in 1 .. Len(reg.entries), reg.entries[id].secret = bytes
      PROVE  id \in VerifiedIds(reg, bytes)
    BY <1>2 DEF VerifiedIds, CandidateIds, Consistent
<1> QED BY <1>1, <1>2

LEMMA OccurrencesMark ==
    ASSUME NEW reg, Consistent(reg), NEW t \in Seq(Byte), NEW o
    PROVE  o \in Occurrences(t, reg) <=> Marks(o, t, reg)
<1>1. ASSUME o \in Occurrences(t, reg) PROVE Marks(o, t, reg)
  <2>1. PICK n \in {Len(x) : x \in Registered(reg)} :
            o \in UNION {{[start |-> start, len |-> n, id |-> id, placeholder |-> reg.entries[id].placeholder] :
                            id \in VerifiedIds(reg, Window(t, start, n))} : start \in 1 .. (Len(t) + 1 - n)}
    BY <1>1 DEF Occurrences
  <2>2. PICK k \in 1 .. (Len(t) + 1 - n) :
            o \in {[start |-> k, len |-> n, id |-> id, placeholder |-> reg.entries[id].placeholder] :
                            id \in VerifiedIds(reg, Window(t, k, n))}
    BY <2>1
  <2>3. PICK id \in VerifiedIds(reg, Window(t, k, n)) :
            o = [start |-> k, len |-> n, id |-> id, placeholder |-> reg.entries[id].placeholder]
    BY <2>2
  <2>4. id \in 1 .. Len(reg.entries) /\ reg.entries[id].secret = Window(t, k, n)
    BY VerifiedAre
  <2>5. n \in Nat
    <3>1. PICK j \in DOMAIN reg.entries : n = Len(reg.entries[j].secret)
        BY DEF Registered
    <3>2. j \in 1 .. Len(reg.entries)
        BY DEF Consistent
    <3> QED BY <3>1, <3>2, EntryType
  <2>6. Len(Window(t, k, n)) = n
    BY <2>5 DEF Window
  <2> QED BY <2>3, <2>4, <2>6 DEF Marks, SpanAt
<1>2. ASSUME Marks(o, t, reg) PROVE o \in Occurrences(t, reg)
  <2>1. PICK id \in 1 .. Len(reg.entries) : \E k \in 1 .. Len(t) + 1 - Len(reg.entries[id].secret) :
            /\ o = SpanAt(reg, id, k)
            /\ Window(t, k, Len(reg.entries[id].secret)) = reg.entries[id].secret
    BY <1>2 DEF Marks
  <2> DEFINE n == Len(reg.entries[id].secret)
  <2>2. PICK k \in 1 .. Len(t) + 1 - n : o = SpanAt(reg, id, k) /\ Window(t, k, n) = reg.entries[id].secret
    BY <2>1
  <2>3. n \in {Len(x) : x \in Registered(reg)}
    <3>1. id \in DOMAIN reg.entries
        BY DEF Consistent
    <3>2. reg.entries[id].secret \in Registered(reg)
        BY <3>1 DEF Registered
    <3> QED BY <3>2
  <2>4. id \in VerifiedIds(reg, Window(t, k, n))
    BY <2>2, VerifiedAre
  <2>5. o = [start |-> k, len |-> n, id |-> id, placeholder |-> reg.entries[id].placeholder]
    BY <2>2 DEF SpanAt
  <2> HIDE DEF n
  <2> QED BY <2>3, <2>4, <2>5 DEF Occurrences
<1> QED BY <1>1, <1>2

\* What a mark says, field by field.
LEMMA MarkFields ==
    ASSUME NEW reg, Consistent(reg), NEW t \in Seq(Byte), NEW o, Marks(o, t, reg)
    PROVE  /\ o.id \in 1 .. Len(reg.entries)
           /\ o = SpanAt(reg, o.id, o.start)
           /\ o.len = Len(reg.entries[o.id].secret)
           /\ o.placeholder = reg.entries[o.id].placeholder
           /\ o.len \in Nat \ {0} /\ o.start \in Nat \ {0} /\ o.start + o.len <= Len(t) + 1
           /\ Window(t, o.start, o.len) = reg.entries[o.id].secret
           /\ reg.entries[o.id].secret \in Seq(Byte)
           /\ \A i \in 1 .. o.len : t[o.start + i - 1] = reg.entries[o.id].secret[i]
<1>1. PICK id \in 1 .. Len(reg.entries) : \E k \in 1 .. Len(t) + 1 - Len(reg.entries[id].secret) :
            /\ o = SpanAt(reg, id, k)
            /\ Window(t, k, Len(reg.entries[id].secret)) = reg.entries[id].secret
    BY DEF Marks
<1> DEFINE n == Len(reg.entries[id].secret)
<1>2. PICK k \in 1 .. Len(t) + 1 - n : o = SpanAt(reg, id, k) /\ Window(t, k, n) = reg.entries[id].secret
    BY <1>1
<1>3. n \in Nat \ {0} /\ reg.entries[id].secret \in Seq(Byte)
    BY EntryType
<1>4. /\ o.start = k /\ o.len = n /\ o.id = id /\ o.placeholder = reg.entries[id].placeholder
      /\ o = SpanAt(reg, o.id, o.start)
    BY <1>2 DEF SpanAt
<1>5. k \in Nat \ {0} /\ k + n <= Len(t) + 1
    BY <1>3
<1>6. \A i \in 1 .. n : Window(t, k, n)[i] = t[k + i - 1]
    BY <1>3, <1>5 DEF Window
<1> HIDE DEF n
<1>7. n = Len(reg.entries[o.id].secret)
    BY <1>4 DEF n
<1>8. \A i \in 1 .. n : t[k + i - 1] = reg.entries[o.id].secret[i]
    BY <1>2, <1>4, <1>6
<1> QED BY <1>2, <1>3, <1>4, <1>5, <1>7, <1>8

LEMMA MarksAreWellFormed ==
    ASSUME NEW reg, Consistent(reg), NEW t \in Seq(Byte), NEW S, \A o \in S : Marks(o, t, reg)
    PROVE  WellFormed(S) /\ IsFiniteSet(S)
<1>1. ASSUME NEW a \in S
      PROVE  a.start \in Nat \ {0} /\ a.len \in Nat \ {0} /\ a.id \in Nat
    BY MarkFields
<1>2. ASSUME NEW a \in S, NEW b \in S, a.start = b.start, a.len = b.len PROVE a = b
  <2>1. reg.entries[a.id].secret = reg.entries[b.id].secret
    BY <1>2, MarkFields
  <2>2. a.id = b.id
    BY <2>1, MarkFields DEF Consistent
  <2>3. a = SpanAt(reg, a.id, a.start) /\ b = SpanAt(reg, b.id, b.start)
    BY MarkFields
  <2> QED BY <1>2, <2>2, <2>3
<1>3. IsFiniteSet(S)
  <2> DEFINE P == (1 .. Len(reg.entries)) \X (1 .. Len(t) + 1)
             f == [x \in P |-> SpanAt(reg, x[1], x[2])]
             I == {f[x] : x \in P}
  <2>1. Len(reg.entries) \in Nat /\ Len(t) + 1 \in Nat
    BY DEF Consistent
  <2>2. IsFiniteSet(1 .. Len(reg.entries)) /\ IsFiniteSet(1 .. Len(t) + 1)
    BY <2>1, FS_Interval
  <2>3. IsFiniteSet(P)
    BY <2>2, FS_Product
  <2>4. ASSUME NEW a \in S PROVE a \in I
    <3>1. a.id \in 1 .. Len(reg.entries) /\ a.start \in 1 .. Len(t) + 1
      <4>1. /\ a.id \in 1 .. Len(reg.entries) /\ a.start \in Nat \ {0} /\ a.len \in Nat \ {0}
            /\ a.start + a.len <= Len(t) + 1
        BY MarkFields
      <4> QED BY <2>1, <4>1
    <3>2. a = SpanAt(reg, a.id, a.start)
        BY MarkFields
    <3>3. <<a.id, a.start>> \in P
        BY <3>1
    <3>4. f[<<a.id, a.start>>] = a
        BY <3>2, <3>3
    <3> HIDE DEF f
    <3> QED BY <3>3, <3>4
  <2> HIDE DEF P
  <2>5. f \in Surjection(P, I)
    BY DEF Surjection
  <2> HIDE DEF I, f
  <2>6. IsFiniteSet(I)
    BY <2>3, <2>5, FS_Surjection
  <2>7. S \in SUBSET I
    BY <2>4
  <2> QED BY <2>6, <2>7, FS_Subset
<1> QED BY <1>1, <1>2, <1>3 DEF WellFormed

LEMMA OccurrencesAreWellFormed ==
    ASSUME NEW reg, Consistent(reg), NEW t \in Seq(Byte)
    PROVE  WellFormed(Occurrences(t, reg)) /\ IsFiniteSet(Occurrences(t, reg))
  BY OccurrencesMark, MarksAreWellFormed

-----------------------------------------------------------------------------
\* Longest match wins

\* What holds at every moment of the scanner's specification.
ScanInv == Consistent(registry) /\ text \in Seq(Byte)

\* The registry the scanner reads is consistent at every moment, and texts are bytes.
THEOREM ScannerInvariant == ScanSpec => []ScanInv
<1>1. ScanInit => ScanInv
    BY EmptyConsistent, ScannerAssumption DEF ScanInit, RegistryInit, ScanInv
<1>2. ScanInv /\ [ScanNext]_<<registry, text>> => ScanInv'
  <2> SUFFICES ASSUME ScanInv, [ScanNext]_<<registry, text>> PROVE ScanInv'
    OBVIOUS
  <2>1. CASE UNCHANGED <<registry, text>>
    BY <2>1 DEF ScanInv
  <2>2. CASE ScanNext
    <3>1. PICK label \in Labels, bytes \in Secrets \cup {<<>>} : Ingest(label, bytes)
        BY <2>2 DEF ScanNext, RegistryNext
    <3>2. CASE bytes = <<>>
        BY <2>2, <3>1, <3>2 DEF Ingest, ScanInv, ScanNext
    <3>3. CASE bytes # <<>>
      <4>1. bytes \in Secrets /\ registry' = AfterIngest(registry, label, bytes)
        BY <3>1, <3>3 DEF Ingest
      <4>2. Consistent(registry')
        BY <4>1, IngestConsistent DEF ScanInv
      <4> QED BY <2>2, <4>2 DEF ScanInv, ScanNext
    <3> QED BY <3>2, <3>3
  <2> QED BY <2>1, <2>2
<1> QED BY <1>1, <1>2, PTL DEF ScanSpec

\* The scan of a text: marks in text order, and a greedy choice among all the occurrences.
LEMMA ScanIsGreedy ==
    ASSUME NEW reg, Consistent(reg), NEW t \in Seq(Byte)
    PROVE  LET w == ScanStringToken(t, reg)
           IN  /\ w \in Seq(Occurrences(t, reg))
               /\ DOMAIN w = 1 .. Len(w)
               /\ Ordered(w)
               /\ Greedy(Occurrences(t, reg), {w[i] : i \in DOMAIN w})
  BY OccurrencesAreWellFormed, SelectionInOrder DEF ScanStringToken

LEMMA LongestWins ==
    ASSUME NEW reg, Consistent(reg), NEW t \in Seq(Byte),
           NEW selected, Greedy(Occurrences(t, reg), selected),
           NEW occ \in Occurrences(t, reg) \ selected
    PROVE  \E span \in selected :
                /\ Overlaps(occ, span)
                /\ span.len > occ.len \/ (span.len = occ.len /\ span.start < occ.start)
<1>1. PICK span \in selected : Overlaps(occ, span) /\ Preferred(span, occ)
    BY DEF Greedy
<1>2. span \in Occurrences(t, reg) /\ span # occ
    BY DEF Greedy
<1>3. span.len # occ.len \/ span.start # occ.start
    BY <1>2, OccurrencesAreWellFormed DEF WellFormed
<1>4. span.len > occ.len \/ (span.len = occ.len /\ span.start < occ.start)
    BY <1>1, <1>3 DEF Preferred
<1> QED BY <1>1, <1>4

\* An occurrence that is passed over gave way to a longer one, or to one as long and further
\* left, which overlaps it and is redacted.
THEOREM ScanPrefersLongest == ScanSpec => []LongestMatchWins
<1>1. ASSUME ScanInv PROVE LongestMatchWins
  <2> DEFINE selected == {Whole[i] : i \in DOMAIN Whole}
  <2>1. Greedy(Occurrences(text, registry), selected)
    BY <1>1, ScanIsGreedy DEF ScanInv, Whole
  <2> HIDE DEF selected
  <2>2. ASSUME NEW occ \in Occurrences(text, registry) \ selected
        PROVE  \E span \in selected :
                    /\ Overlaps(occ, span)
                    /\ span.len > occ.len \/ (span.len = occ.len /\ span.start < occ.start)
    BY <1>1, <2>1, LongestWins DEF ScanInv
  <2> QED BY <2>2 DEF selected, LongestMatchWins
<1> QED BY <1>1, ScannerInvariant, PTL

-----------------------------------------------------------------------------
\* The redacted text (apply_spans)

\* The recursion of apply_spans: where it stands in the text after i spans, and what it has
\* written by then.
CursorAfter(w, i) == IF i = 0 THEN 1 ELSE SpanEnd(w[i])

WrittenStep(t, w, f, i) ==
    IF i = 0 THEN <<>>
    ELSE f[i - 1] \o SubSeq(t, CursorAfter(w, i - 1), w[i].start - 1) \o <<w[i].placeholder>>

\* A function satisfies it.
LEMMA WrittenExists ==
    ASSUME NEW t, NEW w, Len(w) \in Nat
    PROVE  \E f : f = [i \in 0 .. Len(w) |-> WrittenStep(t, w, f, i)]
<1> DEFINE Upto(n, f) == f = [i \in 0 .. n |-> WrittenStep(t, w, f, i)]
           T == {n \in Nat : \E f : Upto(n, f)}
<1>1. 0 \in T
  <2>1. Upto(0, [i \in 0 .. 0 |-> <<>>])
    BY DEF WrittenStep
  <2> HIDE DEF Upto
  <2> QED BY <2>1
<1>2. ASSUME NEW n \in Nat, n \in T PROVE n + 1 \in T
  <2>1. PICK f : Upto(n, f)
    BY <1>2
  <2> DEFINE g == [i \in 0 .. n + 1 |-> WrittenStep(t, w, f, i)]
  <2>2. \A i \in 0 .. n : f[i] = WrittenStep(t, w, f, i) /\ g[i] = WrittenStep(t, w, f, i)
    <3>1. ASSUME NEW i \in 0 .. n PROVE f[i] = WrittenStep(t, w, f, i)
      <4> DEFINE h == [j \in 0 .. n |-> WrittenStep(t, w, f, j)]
      <4>1. f = h
        BY <2>1
      <4>2. h[i] = WrittenStep(t, w, f, i)
        OBVIOUS
      <4> HIDE DEF h
      <4> QED BY <4>1, <4>2
    <3>2. ASSUME NEW i \in 0 .. n PROVE g[i] = WrittenStep(t, w, f, i)
        OBVIOUS
    <3> QED BY <3>1, <3>2
  <2>3. ASSUME NEW i \in 0 .. n + 1 PROVE g[i] = WrittenStep(t, w, g, i)
    <3>1. g[i] = WrittenStep(t, w, f, i)
        OBVIOUS
    <3>2. i # 0 => i - 1 \in 0 .. n
        OBVIOUS
    <3> HIDE DEF g
    <3>3. i # 0 => f[i - 1] = g[i - 1]
        BY <2>2, <3>2
    <3> QED BY <3>1, <3>3 DEF WrittenStep
  <2>4. Upto(n + 1, g)
    <3>1. g = [i \in 0 .. n + 1 |-> g[i]]
        OBVIOUS
    <3> HIDE DEF g
    <3> QED BY <2>3, <3>1
  <2> HIDE DEF Upto, g
  <2> QED BY <2>4
<1>3. Nat \subseteq T
  <2> HIDE DEF T
  <2> QED BY <1>1, <1>2, NatSetInduction
<1>4. Len(w) \in T
    BY <1>3
<1> QED BY <1>4

\* What apply_spans returns, by way of that recursion.
LEMMA AppliedIs ==
    ASSUME NEW t, NEW w, Len(w) \in Nat
    PROVE  \E f : /\ f = [i \in 0 .. Len(w) |-> WrittenStep(t, w, f, i)]
                  /\ ApplySpans(t, w) = f[Len(w)] \o SubSeq(t, CursorAfter(w, Len(w)), Len(t))
<1> DEFINE f == CHOOSE f : f = [i \in 0 .. Len(w) |-> WrittenStep(t, w, f, i)]
<1>1. f = [i \in 0 .. Len(w) |-> WrittenStep(t, w, f, i)]
    BY WrittenExists
<1>2. ApplySpans(t, w) = f[Len(w)] \o SubSeq(t, CursorAfter(w, Len(w)), Len(t))
    BY DEF ApplySpans, WrittenStep, CursorAfter
<1> HIDE DEF f
<1> QED BY <1>1, <1>2

\* Spans inside a text, in text order.
Placed(t, w) ==
    /\ Len(w) \in Nat /\ DOMAIN w = 1 .. Len(w)
    /\ \A i \in 1 .. Len(w) :
        w[i].start \in Nat \ {0} /\ w[i].len \in Nat \ {0} /\ w[i].start + w[i].len <= Len(t) + 1
    /\ Ordered(w)

\* The scan cursor moves forward and never over the next span.
LEMMA CursorAdvances ==
    ASSUME NEW t, Len(t) \in Nat, NEW w, Placed(t, w), NEW i \in 0 .. Len(w)
    PROVE  /\ CursorAfter(w, i) \in 1 .. Len(t) + 1
           /\ \A j \in 1 .. i : SpanEnd(w[j]) <= CursorAfter(w, i)
           /\ i # Len(w) => CursorAfter(w, i) <= w[i + 1].start
<1>1. CASE i = 0
    BY <1>1 DEF Placed, CursorAfter
<1>2. CASE i # 0
  <2>1. i \in 1 .. Len(w) /\ CursorAfter(w, i) = SpanEnd(w[i])
    BY <1>2 DEF CursorAfter, Placed
  <2>2. \A j \in 1 .. Len(w) : SpanEnd(w[j]) \in 1 .. Len(t) + 1 /\ w[j].start \in Nat /\ w[j].start < SpanEnd(w[j])
    BY DEF Placed, SpanEnd
  <2>3. \A j, k \in 1 .. Len(w) : j < k => SpanEnd(w[j]) <= w[k].start
    BY DEF Placed, Ordered
  <2>4. Len(w) \in Nat
    BY DEF Placed
  <2>5. ASSUME NEW j \in 1 .. i PROVE SpanEnd(w[j]) <= SpanEnd(w[i])
    <3>1. j \in 1 .. Len(w) /\ (j = i \/ j < i)
        BY <2>1, <2>4
    <3>2. CASE j < i
      <4>1. SpanEnd(w[j]) <= w[i].start
        BY <2>1, <2>3, <3>1, <3>2
      <4> QED BY <2>1, <2>2, <3>1, <4>1
    <3> QED BY <2>1, <2>2, <3>1, <3>2
  <2>6. i # Len(w) => i + 1 \in 1 .. Len(w) /\ i < i + 1
    BY <2>1, <2>4
  <2> QED BY <2>1, <2>2, <2>3, <2>5, <2>6
<1> QED BY <1>1, <1>2

\* apply_spans, a piece at a time.
LEMMA AppliedByPieces ==
    ASSUME NEW X, NEW t \in Seq(X), NEW w, Placed(t, w),
           \A i \in 1 .. Len(w) : w[i].placeholder \in X
    PROVE  \E f \in [0 .. Len(w) -> Seq(X)] :
               /\ f[0] = <<>>
               /\ \A i \in 0 .. Len(w) : i # Len(w) =>
                    f[i + 1] = (f[i] \o SubSeq(t, CursorAfter(w, i), w[i + 1].start - 1))
                               \o <<w[i + 1].placeholder>>
               /\ ApplySpans(t, w) = f[Len(w)] \o SubSeq(t, CursorAfter(w, Len(w)), Len(t))
<1>1. Len(w) \in Nat
    BY DEF Placed
<1>2. PICK f : /\ f = [i \in 0 .. Len(w) |-> WrittenStep(t, w, f, i)]
               /\ ApplySpans(t, w) = f[Len(w)] \o SubSeq(t, CursorAfter(w, Len(w)), Len(t))
    BY <1>1, AppliedIs
<1>3. DOMAIN f = 0 .. Len(w)
    BY <1>2
<1>4. ASSUME NEW i \in 0 .. Len(w) PROVE f[i] = WrittenStep(t, w, f, i)
  <2> DEFINE h == [j \in 0 .. Len(w) |-> WrittenStep(t, w, f, j)]
  <2>1. f = h
    BY <1>2
  <2>2. h[i] = WrittenStep(t, w, f, i)
    OBVIOUS
  <2> HIDE DEF h
  <2> QED BY <2>1, <2>2
<1>5. f[0] = <<>>
  <2>1. 0 \in 0 .. Len(w)
    BY <1>1
  <2>2. WrittenStep(t, w, f, 0) = <<>>
    BY Zenon DEF WrittenStep
  <2> QED BY <1>4, <2>1, <2>2
<1>6. ASSUME NEW i \in 0 .. Len(w), i # Len(w)
      PROVE  f[i + 1] = (f[i] \o SubSeq(t, CursorAfter(w, i), w[i + 1].start - 1))
                        \o <<w[i + 1].placeholder>>
  <2>1. i + 1 \in 0 .. Len(w) /\ i + 1 # 0 /\ (i + 1) - 1 = i
    BY <1>1, <1>6
  <2> QED BY <1>4, <2>1 DEF WrittenStep
<1> DEFINE T == {i \in Nat : i <= Len(w) => f[i] \in Seq(X)}
<1>7. 0 \in T
  <2>1. <<>> \in Seq(X)
    OBVIOUS
  <2> QED BY <1>5, <2>1, Zenon
<1>8. ASSUME NEW i \in Nat, i \in T PROVE i + 1 \in T
  <2> SUFFICES ASSUME i + 1 <= Len(w) PROVE f[i + 1] \in Seq(X)
    OBVIOUS
  <2>1. i \in 0 .. Len(w) /\ i # Len(w) /\ i + 1 \in 1 .. Len(w)
    BY <1>1
  <2>2. f[i] \in Seq(X)
    BY <1>8, <2>1
  <2>3. CursorAfter(w, i) \in 1 .. Len(t) + 1
    BY <2>1, CursorAdvances
  <2>4. w[i + 1].start - 1 \in 0 .. Len(t)
    <3>1. ASSUME NEW k \in 1 .. Len(w) PROVE w[k].start - 1 \in 0 .. Len(t)
      <4>1. w[k].start \in Nat \ {0} /\ w[k].len \in Nat \ {0} /\ w[k].start + w[k].len <= Len(t) + 1
        BY DEF Placed
      <4>2. Len(t) \in Nat
        OBVIOUS
      <4> QED BY <4>1, <4>2
    <3> QED BY <2>1, <3>1
  <2>5. SubSeq(t, CursorAfter(w, i), w[i + 1].start - 1) \in Seq(X)
    BY <2>3, <2>4
  <2>6. <<w[i + 1].placeholder>> \in Seq(X)
    BY <2>1
  <2> DEFINE v == SubSeq(t, CursorAfter(w, i), w[i + 1].start - 1)
  <2>7. f[i + 1] = (f[i] \o v) \o <<w[i + 1].placeholder>>
    BY <1>6, <2>1
  <2>8. v \in Seq(X)
    BY <2>5
  <2> HIDE DEF v
  <2>9. f[i] \o v \in Seq(X)
    BY <2>2, <2>8, ConcatProperties
  <2>10. (f[i] \o v) \o <<w[i + 1].placeholder>> \in Seq(X)
    BY <2>6, <2>9, ConcatProperties
  <2> QED BY <2>7, <2>10
<1>9. Nat \subseteq T
  <2> HIDE DEF T
  <2> QED BY <1>7, <1>8, NatSetInduction
<1>10. \A i \in 0 .. Len(w) : f[i] \in Seq(X)
    BY <1>1, <1>9
<1>11. f \in [0 .. Len(w) -> Seq(X)]
  <2>1. f = [i \in 0 .. Len(w) |-> f[i]]
    BY <1>2
  <2> QED BY <1>10, <2>1
<1> QED BY <1>2, <1>5, <1>6, <1>11

-----------------------------------------------------------------------------
\* No secret survives

\* A run of bytes in what was written so far stands in the text, in front of d and away
\* from the first k spans.
Copies(u, t, w, k, d) ==
    \A i, n \in Nat \ {0} :
        i + n <= Len(u) + 1 /\ (\A j \in 0 .. n - 1 : u[i + j] \in Byte)
        => \E p \in Nat \ {0} :
              /\ p + n <= d
              /\ \A j \in 0 .. n - 1 : t[p + j] = u[i + j]
              /\ \A m \in 1 .. k : p + n <= w[m].start \/ SpanEnd(w[m]) <= p

\* Nothing was written yet, or a placeholder was written last.
EndsInPlaceholder(u) == u = <<>> \/ u[Len(u)] \notin Byte

\* Copying the text up to the next span adds no run of bytes that is not the text's.
LEMMA CopyOn ==
    ASSUME NEW X, NEW t \in Seq(X), NEW u \in Seq(X), NEW w, NEW k \in Nat,
           NEW c \in 1 .. Len(t) + 1, NEW d \in 1 .. Len(t) + 1, c <= d,
           Copies(u, t, w, k, c), EndsInPlaceholder(u),
           \A m \in 1 .. k : SpanEnd(w[m]) \in Nat /\ w[m].start \in Nat /\ SpanEnd(w[m]) <= c
    PROVE  Copies(u \o SubSeq(t, c, d - 1), t, w, k, d)
<1> DEFINE v == SubSeq(t, c, d - 1)
           x == u \o v
<1>1. /\ Len(u) \in Nat /\ Len(t) \in Nat /\ Len(v) = d - c
      /\ \A j \in 1 .. d - c : v[j] = t[c + j - 1]
    OBVIOUS
<1>2. v \in Seq(X)
    OBVIOUS
<1> HIDE DEF v
<1>3. /\ Len(x) = Len(u) + (d - c)
      /\ \A j \in 1 .. Len(u) : x[j] = u[j]
      /\ \A j \in Len(u) + 1 .. Len(u) + (d - c) : x[j] = v[j - Len(u)]
  <2>1. /\ Len(x) = Len(u) + Len(v)
        /\ \A j \in 1 .. Len(u) : x[j] = u[j]
        /\ \A j \in Len(u) + 1 .. Len(u) + Len(v) : x[j] = v[j - Len(u)]
    BY <1>2, ConcatProperties
  <2> HIDE DEF x
  <2> QED BY <1>1, <2>1
<1> HIDE DEF x
<1>4. \A j \in Len(u) + 1 .. Len(u) + (d - c) : x[j] = t[(c - 1) + (j - Len(u))]
    BY <1>1, <1>3
<1>5. ASSUME NEW i \in Nat \ {0}, NEW n \in Nat \ {0}, i + n <= Len(x) + 1,
             \A j \in 0 .. n - 1 : x[i + j] \in Byte
      PROVE  \E p \in Nat \ {0} :
                /\ p + n <= d
                /\ \A j \in 0 .. n - 1 : t[p + j] = x[i + j]
                /\ \A m \in 1 .. k : p + n <= w[m].start \/ SpanEnd(w[m]) <= p
  <2>1. CASE i + n <= Len(u) + 1
    <3>1. \A j \in 0 .. n - 1 : i + j \in 1 .. Len(u)
        BY <1>1, <2>1
    <3>2. \A j \in 0 .. n - 1 : x[i + j] = u[i + j]
        BY <1>3, <3>1
    <3>3. PICK p \in Nat \ {0} :
              /\ p + n <= c
              /\ \A j \in 0 .. n - 1 : t[p + j] = u[i + j]
              /\ \A m \in 1 .. k : p + n <= w[m].start \/ SpanEnd(w[m]) <= p
        BY <1>5, <2>1, <3>2 DEF Copies
    <3>4. p + n <= d
        BY <3>3
    <3> QED BY <3>2, <3>3, <3>4
  <2>2. CASE i > Len(u)
    <3> DEFINE p == (c - 1) + (i - Len(u))
    <3>1. p \in Nat \ {0} /\ p >= c /\ p + n <= d
        BY <1>1, <1>3, <1>5, <2>2
    <3>2. \A j \in 0 .. n - 1 : i + j \in Len(u) + 1 .. Len(u) + (d - c) /\ p + j = (c - 1) + ((i + j) - Len(u))
        BY <1>1, <1>3, <1>5, <2>2
    <3>3. \A j \in 0 .. n - 1 : t[p + j] = x[i + j]
        BY <1>4, <3>2
    <3> HIDE DEF p
    <3>4. \A m \in 1 .. k : SpanEnd(w[m]) <= p
        BY <3>1
    <3> QED BY <3>1, <3>3, <3>4
  <2>3. CASE i <= Len(u) /\ i + n > Len(u) + 1
    <3>1. Len(u) - i \in 0 .. n - 1 /\ i + (Len(u) - i) = Len(u) /\ Len(u) \in 1 .. Len(u)
        BY <1>1, <2>3
    <3>2. u[Len(u)] \in Byte
        BY <1>3, <1>5, <3>1
    <3>3. u # <<>>
        BY <3>1
    <3> QED BY <3>2, <3>3 DEF EndsInPlaceholder
  <2> QED BY <1>1, <2>1, <2>2, <2>3
<1>6. Copies(x, t, w, k, d)
    BY <1>5 DEF Copies
<1> QED BY <1>6 DEF x, v

\* Neither does writing the placeholder, which is no byte.
LEMMA CopyPlaceholder ==
    ASSUME NEW X, NEW t, NEW u \in Seq(X), NEW w, NEW k \in Nat, NEW c \in Nat, NEW d \in Nat, c <= d,
           Copies(u, t, w, k, c), c = w[k + 1].start, NEW p \in X, p \notin Byte
    PROVE  /\ Copies(u \o <<p>>, t, w, k + 1, d)
           /\ EndsInPlaceholder(u \o <<p>>)
<1> DEFINE x == u \o <<p>>
<1>1. Len(u) \in Nat /\ Len(x) = Len(u) + 1 /\ x[Len(u) + 1] = p /\ \A j \in 1 .. Len(u) : x[j] = u[j]
    OBVIOUS
<1> HIDE DEF x
<1>2. EndsInPlaceholder(x)
    BY <1>1 DEF EndsInPlaceholder
<1>3. ASSUME NEW i \in Nat \ {0}, NEW n \in Nat \ {0}, i + n <= Len(x) + 1,
             \A j \in 0 .. n - 1 : x[i + j] \in Byte
      PROVE  \E q \in Nat \ {0} :
                /\ q + n <= d
                /\ \A j \in 0 .. n - 1 : t[q + j] = x[i + j]
                /\ \A m \in 1 .. k + 1 : q + n <= w[m].start \/ SpanEnd(w[m]) <= q
  <2>1. CASE i + n <= Len(u) + 1
    <3>1. \A j \in 0 .. n - 1 : i + j \in 1 .. Len(u)
        BY <1>1, <2>1
    <3>2. \A j \in 0 .. n - 1 : x[i + j] = u[i + j]
        BY <1>1, <3>1
    <3>3. PICK q \in Nat \ {0} :
              /\ q + n <= c
              /\ \A j \in 0 .. n - 1 : t[q + j] = u[i + j]
              /\ \A m \in 1 .. k : q + n <= w[m].start \/ SpanEnd(w[m]) <= q
      <4>1. \A j \in 0 .. n - 1 : u[i + j] \in Byte
        BY <1>3, <3>2
      <4> QED BY <2>1, <4>1 DEF Copies
    <3>4. q + n <= d
        BY <3>3
    <3>5. \A m \in 1 .. k + 1 : m \in 1 .. k \/ m = k + 1
        OBVIOUS
    <3>6. \A m \in 1 .. k + 1 : q + n <= w[m].start \/ SpanEnd(w[m]) <= q
      <4>1. q + n <= w[k + 1].start
        BY <3>3
      <4> QED BY <3>3, <3>5, <4>1
    <3>7. \A j \in 0 .. n - 1 : t[q + j] = x[i + j]
        BY <3>2, <3>3
    <3> QED BY <3>4, <3>6, <3>7, Zenon
  <2>2. CASE i + n = Len(u) + 2
    <3>1. n - 1 \in 0 .. n - 1 /\ i + (n - 1) = Len(u) + 1
        BY <1>1, <2>2
    <3>2. x[Len(u) + 1] \in Byte
        BY <1>3, <3>1
    <3> QED BY <1>1, <3>2
  <2>3. i + n <= Len(u) + 1 \/ i + n = Len(u) + 2
    <3>1. Len(u) \in Nat /\ i + n <= (Len(u) + 1) + 1
        BY <1>1, <1>3
    <3> QED BY <3>1
  <2> QED BY <2>1, <2>2, <2>3
<1>4. Copies(x, t, w, k + 1, d)
    BY <1>3 DEF Copies
<1> QED BY <1>2, <1>4 DEF x

\* The redacted text as a whole.
LEMMA AppliedCopies ==
    ASSUME NEW t \in Seq(Byte), NEW w, Placed(t, w), \A i \in 1 .. Len(w) : w[i].placeholder \notin Byte
    PROVE  /\ Copies(ApplySpans(t, w), t, w, Len(w), Len(t) + 1)
           /\ Len(ApplySpans(t, w)) \in Nat
<1> DEFINE X == Byte \cup {w[i].placeholder : i \in 1 .. Len(w)}
<1>1. t \in Seq(X) /\ \A i \in 1 .. Len(w) : w[i].placeholder \in X
    OBVIOUS
<1> HIDE DEF X
<1>2. PICK f \in [0 .. Len(w) -> Seq(X)] :
        /\ f[0] = <<>>
        /\ \A i \in 0 .. Len(w) : i # Len(w) =>
             f[i + 1] = (f[i] \o SubSeq(t, CursorAfter(w, i), w[i + 1].start - 1))
                        \o <<w[i + 1].placeholder>>
        /\ ApplySpans(t, w) = f[Len(w)] \o SubSeq(t, CursorAfter(w, Len(w)), Len(t))
    BY <1>1, AppliedByPieces
<1>3. Len(w) \in Nat /\ Len(t) \in Nat
    BY DEF Placed
<1>4. \A m \in 1 .. Len(w) :
        /\ w[m].start \in 1 .. Len(t) + 1 /\ SpanEnd(w[m]) \in Nat
        /\ w[m].start <= SpanEnd(w[m])
  <2>1. ASSUME NEW m \in 1 .. Len(w)
        PROVE  /\ w[m].start \in 1 .. Len(t) + 1 /\ SpanEnd(w[m]) \in Nat
               /\ w[m].start <= SpanEnd(w[m])
    <3>1. w[m].start \in Nat \ {0} /\ w[m].len \in Nat \ {0} /\ w[m].start + w[m].len <= Len(t) + 1
        BY DEF Placed
    <3> QED BY <1>3, <3>1 DEF SpanEnd
  <2> QED BY <2>1
<1> DEFINE Good(i) == Copies(f[i], t, w, i, CursorAfter(w, i)) /\ EndsInPlaceholder(f[i])
           T == {i \in Nat : i <= Len(w) => Good(i)}
<1>5. 0 \in T
  <2>1. Copies(<<>>, t, w, 0, CursorAfter(w, 0))
    BY DEF Copies
  <2> QED BY <1>2, <2>1 DEF EndsInPlaceholder
<1>6. ASSUME NEW i \in Nat, i \in T PROVE i + 1 \in T
  <2> SUFFICES ASSUME i + 1 <= Len(w) PROVE Good(i + 1)
    OBVIOUS
  <2> DEFINE c == CursorAfter(w, i)
             d == w[i + 1].start
             p == w[i + 1].placeholder
             u == f[i] \o SubSeq(t, c, d - 1)
  <2>1. i \in 0 .. Len(w) /\ i # Len(w) /\ i + 1 \in 1 .. Len(w)
    BY <1>3
  <2>2. Good(i) /\ f[i] \in Seq(X)
    BY <1>3, <1>6, <2>1
  <2>3. c \in 1 .. Len(t) + 1 /\ c <= d /\ \A m \in 1 .. i : SpanEnd(w[m]) <= c
    BY <1>3, <2>1, CursorAdvances
  <2>4. d \in 1 .. Len(t) + 1 /\ p \in X /\ p \notin Byte
    BY <1>1, <1>4, <2>1
  <2>5. CursorAfter(w, i + 1) = SpanEnd(w[i + 1]) /\ SpanEnd(w[i + 1]) \in Nat /\ d <= SpanEnd(w[i + 1])
    BY <1>4, <2>1 DEF CursorAfter
  <2>6. f[i + 1] = u \o <<p>>
    BY <1>2, <2>1
  <2>7. \A m \in 1 .. i : SpanEnd(w[m]) \in Nat /\ w[m].start \in Nat /\ SpanEnd(w[m]) <= c
    BY <1>3, <1>4, <2>1, <2>3
  <2> HIDE DEF c, p
  <2>8. d = w[i + 1].start
    OBVIOUS
  <2> HIDE DEF d
  <2>9. Copies(u, t, w, i, d)
    BY <1>1, <2>2, <2>3, <2>4, <2>7, CopyOn DEF c
  <2>10. u \in Seq(X)
    <3>1. SubSeq(t, c, d - 1) \in Seq(X)
        BY <1>1, <2>3, <2>4
    <3> HIDE DEF Good
    <3> QED BY <2>2, <3>1, ConcatProperties
  <2> HIDE DEF u
  <2>11. /\ Copies(u \o <<p>>, t, w, i + 1, SpanEnd(w[i + 1]))
         /\ EndsInPlaceholder(u \o <<p>>)
    BY <1>3, <2>4, <2>5, <2>8, <2>9, <2>10, CopyPlaceholder
  <2> QED BY <2>5, <2>6, <2>11
<1>7. Nat \subseteq T
  <2> HIDE DEF T
  <2> QED BY <1>5, <1>6, NatSetInduction
<1>8. Good(Len(w)) /\ f[Len(w)] \in Seq(X)
    BY <1>3, <1>7
<1> DEFINE c == CursorAfter(w, Len(w))
<1>9. Len(w) \in 0 .. Len(w)
    BY <1>3
<1>10. c \in 1 .. Len(t) + 1 /\ \A m \in 1 .. Len(w) : SpanEnd(w[m]) <= c
    BY <1>3, <1>9, CursorAdvances
<1>11. \A m \in 1 .. Len(w) : SpanEnd(w[m]) \in Nat /\ w[m].start \in Nat /\ SpanEnd(w[m]) <= c
    BY <1>4, <1>10
<1> HIDE DEF c
<1>12. Len(t) + 1 \in 1 .. Len(t) + 1 /\ c <= Len(t) + 1 /\ (Len(t) + 1) - 1 = Len(t)
    BY <1>3, <1>10
<1>13. Copies(f[Len(w)] \o SubSeq(t, c, (Len(t) + 1) - 1), t, w, Len(w), Len(t) + 1)
    BY <1>1, <1>3, <1>8, <1>10, <1>11, <1>12, CopyOn DEF c
<1>14. ApplySpans(t, w) = f[Len(w)] \o SubSeq(t, c, Len(t))
    BY <1>2 DEF c
<1>15. SubSeq(t, c, Len(t)) \in Seq(X)
    BY <1>1, <1>10
<1>16. f[Len(w)] \o SubSeq(t, c, Len(t)) \in Seq(X)
    BY <1>8, <1>15, ConcatProperties
<1>17. Len(f[Len(w)] \o SubSeq(t, c, Len(t))) \in Nat
    BY <1>16
<1> QED BY <1>12, <1>13, <1>14, <1>17

\* No placeholder of the registry is a byte.
LEMMA PlaceholdersAreNoBytes ==
    ASSUME NEW reg, Consistent(reg), NEW id \in 1 .. Len(reg.entries)
    PROVE  reg.entries[id].placeholder \notin Byte
<1>1. reg.entries[id].label \in Labels /\ reg.entries[id].secret \in Secrets
  <2>1. reg.entries[id] \in Entry
    BY EntryType
  <2> QED BY <2>1 DEF Entry
<1>2. reg.entries[id].placeholder = PlaceholderOf(reg.entries[id].label, reg.entries[id].secret)
    BY DEF Consistent
<1> QED BY <1>1, <1>2, ScannerAssumption

LEMMA MarksArePlaced ==
    ASSUME NEW reg, Consistent(reg), NEW t \in Seq(Byte), NEW S, \A o \in S : Marks(o, t, reg),
           NEW w \in Seq(S), DOMAIN w = 1 .. Len(w), Ordered(w)
    PROVE  Placed(t, w) /\ \A i \in 1 .. Len(w) : w[i].placeholder \notin Byte
<1>1. Len(w) \in Nat /\ \A i \in 1 .. Len(w) : w[i] \in S
    OBVIOUS
<1>2. ASSUME NEW i \in 1 .. Len(w)
      PROVE  /\ w[i].start \in Nat \ {0} /\ w[i].len \in Nat \ {0}
             /\ w[i].start + w[i].len <= Len(t) + 1
             /\ w[i].placeholder \notin Byte
  <2>1. Marks(w[i], t, reg)
    BY <1>1
  <2>2. w[i].id \in 1 .. Len(reg.entries) /\ w[i].placeholder = reg.entries[w[i].id].placeholder
    BY <2>1, MarkFields
  <2> QED BY <2>1, <2>2, MarkFields, PlaceholdersAreNoBytes
<1> QED BY <1>1, <1>2 DEF Placed

\* No window of the scan's output is a secret: the text would hold it away from every
\* selected span, where the scan would have selected it or a longer one across it.
LEMMA ScanLeavesNoSecret ==
    ASSUME NEW reg, Consistent(reg), NEW t \in Seq(Byte), NEW s \in Registered(reg),
           NEW i \in 1 .. (Len(ApplySpans(t, ScanStringToken(t, reg))) + 1 - Len(s))
    PROVE  Window(ApplySpans(t, ScanStringToken(t, reg)), i, Len(s)) # s
<1> DEFINE w == ScanStringToken(t, reg)
           out == ApplySpans(t, w)
           n == Len(s)
           selected == {w[m] : m \in DOMAIN w}
<1>1. /\ w \in Seq(Occurrences(t, reg)) /\ DOMAIN w = 1 .. Len(w) /\ Ordered(w)
      /\ Greedy(Occurrences(t, reg), selected)
    BY ScanIsGreedy
<1>2. \A o \in Occurrences(t, reg) : Marks(o, t, reg)
    BY OccurrencesMark
<1> HIDE DEF w
<1>3. Placed(t, w) /\ \A m \in 1 .. Len(w) : w[m].placeholder \notin Byte
    BY <1>1, <1>2, MarksArePlaced
<1>4. Copies(out, t, w, Len(w), Len(t) + 1) /\ Len(out) \in Nat
    BY <1>3, AppliedCopies
<1>5. PICK id \in 1 .. Len(reg.entries) : s = reg.entries[id].secret
  <2>1. DOMAIN reg.entries = 1 .. Len(reg.entries)
    BY DEF Consistent
  <2> QED BY <2>1 DEF Registered
<1>6. s \in Seq(Byte) /\ n \in Nat \ {0}
    BY <1>5, EntryType
<1>7. i \in Nat \ {0} /\ i + n <= Len(out) + 1
  <2>1. i \in 1 .. (Len(out) + 1 - n)
    BY DEF w
  <2> HIDE DEF out, n
  <2> QED BY <1>4, <1>6, <2>1
<1> HIDE DEF out
<1> SUFFICES ASSUME Window(out, i, n) = s PROVE FALSE
    BY DEF out, w
<1>8. \A j \in 0 .. n - 1 : out[i + j] = s[j + 1]
  <2>1. \A j \in 1 .. n : Window(out, i, n)[j] = out[i + j - 1]
    BY <1>6, <1>7 DEF Window
  <2>2. \A j \in 0 .. n - 1 : j + 1 \in 1 .. n /\ i + (j + 1) - 1 = i + j
    BY <1>6, <1>7
  <2>3. \A j \in 1 .. n : s[j] = out[i + j - 1]
    BY <2>1
  <2> HIDE DEF n
  <2> QED BY <2>2, <2>3
<1>9. \A j \in 0 .. n - 1 : out[i + j] \in Byte
    BY <1>6, <1>8
<1>10. PICK p \in Nat \ {0} :
        /\ p + n <= Len(t) + 1
        /\ \A j \in 0 .. n - 1 : t[p + j] = out[i + j]
        /\ \A m \in 1 .. Len(w) : p + n <= w[m].start \/ SpanEnd(w[m]) <= p
    BY <1>4, <1>6, <1>7, <1>9 DEF Copies
<1> DEFINE occ == SpanAt(reg, id, p)
<1>11. occ.start = p /\ occ.len = n
    BY <1>5 DEF SpanAt
<1>12. Window(t, p, n) = s
  <2>1. Len(t) \in Nat
    OBVIOUS
  <2>2. Len(Window(t, p, n)) = n /\ Window(t, p, n) \in Seq(Byte)
    BY <1>6, <1>10, <2>1 DEF Window
  <2>3. ASSUME NEW j \in 1 .. n PROVE Window(t, p, n)[j] = s[j]
    <3>1. Window(t, p, n)[j] = t[p + j - 1]
        BY <1>6, <1>10, <2>1 DEF Window
    <3>2. j - 1 \in 0 .. n - 1 /\ p + (j - 1) = p + j - 1 /\ (j - 1) + 1 = j
        BY <1>6
    <3> HIDE DEF n
    <3>3. t[p + (j - 1)] = out[i + (j - 1)] /\ out[i + (j - 1)] = s[(j - 1) + 1]
        BY <1>8, <1>10, <3>2
    <3> QED BY <3>1, <3>2, <3>3
  <2> QED BY <1>6, <2>2, <2>3, SeqEqual
<1>13. occ \in Occurrences(t, reg)
  <2>1. Len(t) \in Nat
    OBVIOUS
  <2>2. p \in 1 .. Len(t) + 1 - n
    BY <1>6, <1>10, <2>1
  <2>3. Marks(occ, t, reg)
    BY <1>5, <1>12, <2>2 DEF Marks
  <2> QED BY <2>3, OccurrencesMark
<1>14. \A span \in selected : ~Overlaps(occ, span) /\ span # occ
  <2> SUFFICES ASSUME NEW m \in 1 .. Len(w) PROVE ~Overlaps(occ, w[m]) /\ w[m] # occ
    BY <1>1
  <2>1. w[m].start \in Nat /\ w[m].len \in Nat \ {0}
    BY <1>3 DEF Placed
  <2>2. p + n <= w[m].start \/ SpanEnd(w[m]) <= p
    BY <1>10
  <2>3. ~Overlaps(occ, w[m])
    BY <1>6, <1>11, <2>1, <2>2 DEF Overlaps, SpanEnd
  <2>4. Overlaps(occ, occ)
    BY <1>6, <1>11 DEF Overlaps, SpanEnd
  <2> QED BY <2>3, <2>4
<1> HIDE DEF occ, selected
<1>15. occ \in Occurrences(t, reg) \ selected
    BY <1>13, <1>14
<1> QED BY <1>1, <1>14, <1>15 DEF Greedy

\* No registered secret survives the scan of a string token, and none is made by it.
THEOREM ScanLeavesNoSecrets == ScanSpec => []NoSecretSurvives
<1>1. ScanInv => NoSecretSurvives
    BY ScanLeavesNoSecret DEF ScanInv, NoSecretSurvives, HoldsSecret, Whole
<1> QED BY <1>1, ScannerInvariant, PTL

-----------------------------------------------------------------------------
\* Redaction is reversible

\* What one symbol of the output is restored to.
RestoredSymbol(x) ==
    IF x \in DOMAIN registry.byPlaceholder
    THEN registry.entries[registry.byPlaceholder[x]].secret
    ELSE <<x>>

\* The symbols a redacted text is made of.
Symbols(reg) == Byte \cup {reg.entries[id].placeholder : id \in 1 .. Len(reg.entries)}

LEMMA RestoredIs == Restored(<<>>) = <<>> /\ \A out : Restored(out) = FlattenSeq([i \in DOMAIN out |-> RestoredSymbol(out[i])])
<1>1. \A out : Restored(out) = FlattenSeq([i \in DOMAIN out |-> RestoredSymbol(out[i])])
    BY DEF Restored, RestoredSymbol
<1>2. Restored(<<>>) = <<>>
  <2>1. [i \in DOMAIN <<>> |-> RestoredSymbol(<<>>[i])] = <<>>
    OBVIOUS
  <2>2. FlattenSeq(<<>>) = <<>>
    BY DEF FlattenSeq
  <2> QED BY <1>1, <2>1, <2>2
<1> QED BY <1>1, <1>2

\* A byte stands for itself and a placeholder for its entry's secret.
LEMMA SymbolsRestore ==
    ASSUME Consistent(registry)
    PROVE  /\ \A x \in Symbols(registry) : RestoredSymbol(x) \in Seq(Byte)
           /\ \A x \in Byte : RestoredSymbol(x) = <<x>>
           /\ \A id \in 1 .. Len(registry.entries) :
                RestoredSymbol(registry.entries[id].placeholder) = registry.entries[id].secret
<1>1. ASSUME NEW x \in Byte PROVE RestoredSymbol(x) = <<x>>
  <2>1. ASSUME x \in DOMAIN registry.byPlaceholder PROVE FALSE
    <3>1. /\ registry.byPlaceholder[x] \in 1 .. Len(registry.entries)
          /\ registry.entries[registry.byPlaceholder[x]].placeholder = x
        BY <2>1 DEF Consistent
    <3> QED BY <3>1, PlaceholdersAreNoBytes
  <2> QED BY <2>1 DEF RestoredSymbol
<1>2. ASSUME NEW id \in 1 .. Len(registry.entries)
      PROVE  RestoredSymbol(registry.entries[id].placeholder) = registry.entries[id].secret
  <2>1. /\ registry.entries[id].placeholder \in DOMAIN registry.byPlaceholder
        /\ registry.byPlaceholder[registry.entries[id].placeholder] = id
    BY DEF Consistent
  <2> QED BY <2>1 DEF RestoredSymbol
<1>3. ASSUME NEW x \in Symbols(registry) PROVE RestoredSymbol(x) \in Seq(Byte)
  <2>1. CASE x \in Byte
    <3>1. <<x>> \in Seq(Byte)
        BY <2>1
    <3>2. RestoredSymbol(x) = <<x>>
        BY <1>1, <2>1
    <3> QED BY <3>1, <3>2
  <2>2. CASE x \notin Byte
    <3>1. PICK id \in 1 .. Len(registry.entries) : x = registry.entries[id].placeholder
        BY <2>2 DEF Symbols
    <3>2. registry.entries[id].secret \in Seq(Byte)
        BY EntryType
    <3>3. RestoredSymbol(x) = registry.entries[id].secret
        BY <1>2, <3>1
    <3> QED BY <3>2, <3>3
  <2> QED BY <2>1, <2>2
<1> QED BY <1>1, <1>2, <1>3

\* Restoring a text restores its pieces.
LEMMA RestoredConcat ==
    ASSUME Consistent(registry), NEW u \in Seq(Symbols(registry)), NEW v \in Seq(Symbols(registry))
    PROVE  /\ Restored(u \o v) = Restored(u) \o Restored(v)
           /\ Restored(u) \in Seq(Byte)
<1> DEFINE n == Len(u)
           m == Len(v)
           x == u \o v
           f == [i \in 1 .. n + m |-> RestoredSymbol(x[i])]
           fu == [i \in 1 .. n |-> f[i]]
           fv == [i \in 1 .. m |-> f[n + i]]
           gu == [i \in DOMAIN u |-> RestoredSymbol(u[i])]
           gv == [i \in DOMAIN v |-> RestoredSymbol(v[i])]
           gx == [i \in DOMAIN x |-> RestoredSymbol(x[i])]
<1>1. /\ n \in Nat /\ m \in Nat /\ DOMAIN u = 1 .. n /\ DOMAIN v = 1 .. m
      /\ \A i \in 1 .. n : u[i] \in Symbols(registry)
      /\ \A i \in 1 .. m : v[i] \in Symbols(registry)
    OBVIOUS
<1>2. /\ x \in Seq(Symbols(registry)) /\ Len(x) = n + m
      /\ \A i \in 1 .. n : x[i] = u[i]
      /\ \A i \in 1 .. m : x[n + i] = v[i]
  <2>1. /\ x \in Seq(Symbols(registry)) /\ Len(x) = n + m
        /\ \A i \in 1 .. n + m : x[i] = IF i <= n THEN u[i] ELSE v[i - n]
    BY ConcatProperties
  <2> HIDE DEF x, n, m
  <2>2. ASSUME NEW i \in 1 .. m PROVE x[n + i] = v[i]
    <3>1. n + i \in 1 .. n + m /\ ~(n + i <= n) /\ (n + i) - n = i
        BY <1>1
    <3> QED BY <2>1, <3>1
  <2>3. ASSUME NEW i \in 1 .. n PROVE x[i] = u[i]
    <3>1. i \in 1 .. n + m /\ i <= n
        BY <1>1
    <3> QED BY <2>1, <3>1
  <2> QED BY <2>1, <2>2, <2>3
<1>3. DOMAIN x = 1 .. n + m /\ \A i \in 1 .. n + m : x[i] \in Symbols(registry)
  <2>1. DOMAIN x = 1 .. Len(x) /\ \A i \in 1 .. Len(x) : x[i] \in Symbols(registry)
    BY <1>2
  <2> HIDE DEF x, n, m
  <2> QED BY <1>2, <2>1
<1> HIDE DEF n, m, x
<1>4. f \in [1 .. n + m -> Seq(Byte)] /\ gx = f
    BY <1>3, SymbolsRestore
<1>5. fu = gu
  <2>1. ASSUME NEW i \in 1 .. n PROVE f[i] = RestoredSymbol(u[i])
    <3>1. i \in 1 .. n + m
        BY <1>1
    <3> QED BY <1>2, <3>1
  <2> HIDE DEF f
  <2> QED BY <1>1, <2>1
<1>6. fv = gv
  <2>1. ASSUME NEW i \in 1 .. m PROVE f[n + i] = RestoredSymbol(v[i])
    <3>1. n + i \in 1 .. n + m
        BY <1>1
    <3> QED BY <1>2, <3>1
  <2> HIDE DEF f
  <2> QED BY <1>1, <2>1
<1>7. FlattenSeq(gu) \in Seq(Byte)
  <2>1. gu \in [1 .. n -> Seq(Byte)]
    BY <1>1, SymbolsRestore
  <2> HIDE DEF gu
  <2>2. gu \in Seq(Seq(Byte))
    BY <1>1, <2>1
  <2> QED BY <2>2, FlattenType
<1> HIDE DEF f
<1>8. FlattenSeq(f) = FlattenSeq(fu) \o FlattenSeq(fv)
  <2>1. \A g \in [1 .. n + m -> Seq(Byte)] :
            FlattenSeq(g) = FlattenSeq([i \in 1 .. n |-> g[i]]) \o FlattenSeq([i \in 1 .. m |-> g[n + i]])
    BY <1>1, FlattenSplit
  <2> QED BY <1>4, <2>1, Zenon
<1> HIDE DEF fu, fv, gu, gv, gx
<1>9. FlattenSeq(gx) = FlattenSeq(gu) \o FlattenSeq(gv)
    BY <1>4, <1>5, <1>6, <1>8
<1>10. Restored(u) = FlattenSeq(gu) /\ Restored(v) = FlattenSeq(gv) /\ Restored(x) = FlattenSeq(gx)
    BY RestoredIs DEF gu, gv, gx
<1> QED BY <1>7, <1>9, <1>10 DEF x

LEMMA RestoredOne ==
    ASSUME Consistent(registry), NEW x \in Symbols(registry)
    PROVE  Restored(<<x>>) = RestoredSymbol(x)
<1> DEFINE f == [i \in 1 .. 0 + 1 |-> RestoredSymbol(x)]
           g == [i \in 1 .. 0 |-> f[i]]
<1>1. RestoredSymbol(x) \in Seq(Byte)
    BY SymbolsRestore
<1>2. f \in [1 .. 0 + 1 -> Seq(Byte)] /\ f[0 + 1] = RestoredSymbol(x)
    BY <1>1
<1>3. g = <<>>
    OBVIOUS
<1>4. f = [i \in DOMAIN <<x>> |-> RestoredSymbol(<<x>>[i])]
    OBVIOUS
<1> HIDE DEF f
<1>5. FlattenSeq(f) = FlattenSeq(g) \o f[0 + 1]
    BY <1>2, FlattenOneMore
<1> HIDE DEF g
<1>6. FlattenSeq(g) = <<>>
    BY <1>3 DEF FlattenSeq
<1>7. FlattenSeq(f) = RestoredSymbol(x)
    BY <1>1, <1>2, <1>5, <1>6
<1> QED BY <1>4, <1>7, RestoredIs

\* Text without placeholders is left alone.
LEMMA RestoredBytes ==
    ASSUME Consistent(registry), NEW u \in Seq(Byte)
    PROVE  Restored(u) = u
<1> DEFINE T == {n \in Nat : \A g \in [1 .. n -> Byte] : Restored(g) = g}
<1>1. 0 \in T
  <2>1. \A g \in [1 .. 0 -> Byte] : g = <<>>
    OBVIOUS
  <2> QED BY <2>1, RestoredIs
<1>2. ASSUME NEW n \in Nat, n \in T PROVE n + 1 \in T
  <2> SUFFICES ASSUME NEW g \in [1 .. n + 1 -> Byte] PROVE Restored(g) = g
    OBVIOUS
  <2> DEFINE h == [i \in 1 .. n |-> g[i]]
  <2>1. h \in [1 .. n -> Byte] /\ g[n + 1] \in Byte
    OBVIOUS
  <2>2. g = h \o <<g[n + 1]>>
    OBVIOUS
  <2> HIDE DEF h
  <2>3. Restored(h) = h
    BY <1>2, <2>1
  <2>4. h \in Seq(Symbols(registry)) /\ <<g[n + 1]>> \in Seq(Symbols(registry)) /\ g[n + 1] \in Symbols(registry)
    BY <2>1 DEF Symbols
  <2>5. Restored(<<g[n + 1]>>) = <<g[n + 1]>>
    BY <2>1, <2>4, RestoredOne, SymbolsRestore
  <2>6. Restored(h \o <<g[n + 1]>>) = Restored(h) \o Restored(<<g[n + 1]>>)
    BY <2>4, RestoredConcat
  <2> QED BY <2>2, <2>3, <2>5, <2>6
<1>3. Nat \subseteq T
  <2> HIDE DEF T
  <2> QED BY <1>1, <1>2, NatSetInduction
<1>4. Len(u) \in T /\ u \in [1 .. Len(u) -> Byte]
    BY <1>3
<1> QED BY <1>4

\* Writing placeholders for marked secrets and restoring them gives the text back.
LEMMA AppliedIsReversible ==
    ASSUME Consistent(registry), NEW t \in Seq(Byte), NEW S, \A o \in S : Marks(o, t, registry),
           NEW w \in Seq(S), DOMAIN w = 1 .. Len(w), Ordered(w)
    PROVE  Restored(ApplySpans(t, w)) = t
<1> DEFINE X == Symbols(registry)
<1>1. Placed(t, w)
    BY MarksArePlaced
<1>2. Len(w) \in Nat /\ Len(t) \in Nat
    BY <1>1 DEF Placed
<1>3. \A m \in 1 .. Len(w) : Marks(w[m], t, registry)
    BY <1>2
<1>4. ASSUME NEW m \in 1 .. Len(w)
      PROVE  /\ w[m].start \in Nat \ {0} /\ w[m].len \in Nat \ {0}
             /\ w[m].start + w[m].len <= Len(t) + 1
             /\ w[m].placeholder \in X
             /\ RestoredSymbol(w[m].placeholder) = Window(t, w[m].start, w[m].len)
  <2>1. /\ w[m].id \in 1 .. Len(registry.entries)
        /\ w[m].placeholder = registry.entries[w[m].id].placeholder
        /\ Window(t, w[m].start, w[m].len) = registry.entries[w[m].id].secret
    BY <1>3, MarkFields
  <2>2. w[m].placeholder \in X
    BY <2>1 DEF Symbols
  <2>3. RestoredSymbol(w[m].placeholder) = Window(t, w[m].start, w[m].len)
    BY <2>1, SymbolsRestore
  <2> QED BY <1>1, <2>2, <2>3 DEF Placed
<1>5. t \in Seq(X)
    BY DEF Symbols
<1> HIDE DEF X
<1>6. PICK f \in [0 .. Len(w) -> Seq(X)] :
        /\ f[0] = <<>>
        /\ \A i \in 0 .. Len(w) : i # Len(w) =>
             f[i + 1] = (f[i] \o SubSeq(t, CursorAfter(w, i), w[i + 1].start - 1))
                        \o <<w[i + 1].placeholder>>
        /\ ApplySpans(t, w) = f[Len(w)] \o SubSeq(t, CursorAfter(w, Len(w)), Len(t))
    BY <1>1, <1>4, <1>5, AppliedByPieces
<1> DEFINE Good(i) == Restored(f[i]) = SubSeq(t, 1, CursorAfter(w, i) - 1)
           T == {i \in Nat : i <= Len(w) => Good(i)}
\* Copying the text from the cursor c up to d.
<1>7. ASSUME NEW c \in 1 .. Len(t) + 1, NEW d \in 1 .. Len(t) + 1, c <= d, NEW u \in Seq(X),
             Restored(u) = SubSeq(t, 1, c - 1)
      PROVE  /\ u \o SubSeq(t, c, d - 1) \in Seq(X)
             /\ Restored(u \o SubSeq(t, c, d - 1)) = SubSeq(t, 1, d - 1)
  <2> DEFINE v == SubSeq(t, c, d - 1)
  <2>1. v \in Seq(Byte) /\ v \in Seq(X)
    BY <1>2, <1>5
  <2>2. SubSeq(t, 1, c - 1) \o SubSeq(t, (c - 1) + 1, d - 1) = SubSeq(t, 1, d - 1)
    <3>1. 1 \in 1 .. Len(t) + 1 /\ c - 1 \in 1 - 1 .. Len(t) /\ d - 1 \in c - 1 .. Len(t)
        BY <1>2, <1>7
    <3> QED BY <3>1, ConcatAdjacentSubSeq
  <2>3. (c - 1) + 1 = c
    OBVIOUS
  <2>4. SubSeq(t, 1, c - 1) \o v = SubSeq(t, 1, d - 1)
    BY <2>2, <2>3
  <2> HIDE DEF v
  <2>5. Restored(u \o v) = Restored(u) \o Restored(v) /\ Restored(v) = v
    BY <2>1, RestoredConcat, RestoredBytes DEF X
  <2>6. u \o v \in Seq(X)
    BY <2>1, ConcatProperties
  <2> QED BY <1>7, <2>4, <2>5, <2>6 DEF v
<1>8. 0 \in T
  <2>1. CursorAfter(w, 0) = 1
    BY DEF CursorAfter
  <2>2. SubSeq(t, 1, 1 - 1) = <<>>
    OBVIOUS
  <2> QED BY <1>6, <2>1, <2>2, RestoredIs
<1>9. ASSUME NEW i \in Nat, i \in T PROVE i + 1 \in T
  <2> SUFFICES ASSUME i + 1 <= Len(w) PROVE Good(i + 1)
    OBVIOUS
  <2> DEFINE c == CursorAfter(w, i)
             d == w[i + 1].start
             e == CursorAfter(w, i + 1)
             p == w[i + 1].placeholder
             u == f[i] \o SubSeq(t, c, d - 1)
  <2>1. i \in 0 .. Len(w) /\ i # Len(w) /\ i + 1 \in 1 .. Len(w) /\ i <= Len(w) /\ i + 1 # 0
    <3>1. \A n \in Nat : i + 1 <= n => i \in 0 .. n /\ i # n /\ i + 1 \in 1 .. n /\ i <= n /\ i + 1 # 0
        OBVIOUS
    <3> QED BY <1>2, <3>1
  <2>2. Restored(f[i]) = SubSeq(t, 1, c - 1) /\ f[i] \in Seq(X)
    <3>1. Good(i)
        BY <1>9, <2>1
    <3>2. f[i] \in Seq(X)
        BY <2>1
    <3> QED BY <3>1, <3>2
  <2>3. c \in 1 .. Len(t) + 1 /\ c <= d
    BY <1>1, <1>2, <2>1, CursorAdvances
  <2>4. e = d + w[i + 1].len
    BY <2>1, Zenon DEF CursorAfter, SpanEnd
  <2>5. /\ d \in 1 .. Len(t) + 1 /\ e \in 1 .. Len(t) + 1 /\ d <= e /\ p \in X
        /\ RestoredSymbol(p) = SubSeq(t, d, e - 1)
    <3>1. /\ d \in Nat \ {0} /\ w[i + 1].len \in Nat \ {0}
          /\ d + w[i + 1].len <= Len(t) + 1
          /\ p \in X
          /\ RestoredSymbol(p) = Window(t, d, w[i + 1].len)
        BY <1>4, <2>1
    <3>2. RestoredSymbol(p) = SubSeq(t, d, e - 1)
      <4> DEFINE l == w[i + 1].len
      <4>1. RestoredSymbol(p) = SubSeq(t, d, d + l - 1)
        BY <3>1, Zenon DEF Window
      <4>2. d \in Nat /\ l \in Nat /\ e = d + l
        BY <2>4, <3>1
      <4> HIDE DEF d, e, l, p
      <4>3. e - 1 = d + l - 1
        BY <4>2
      <4> QED BY <4>1, <4>3
    <3> HIDE DEF d, e, p
    <3> QED BY <1>2, <2>4, <3>1, <3>2
  <2>6. f[i + 1] = u \o <<p>>
    BY <1>6, <2>1
  <2> HIDE DEF c, d, e, p
  <2>7. u \in Seq(X) /\ Restored(u) = SubSeq(t, 1, d - 1)
    BY <1>7, <2>2, <2>3, <2>5
  <2> HIDE DEF u
  <2>8. <<p>> \in Seq(X)
    BY <2>5
  <2>9. Restored(u \o <<p>>) = SubSeq(t, 1, d - 1) \o SubSeq(t, d, e - 1)
    BY <2>5, <2>7, <2>8, RestoredConcat, RestoredOne DEF X
  <2>10. SubSeq(t, 1, d - 1) \o SubSeq(t, (d - 1) + 1, e - 1) = SubSeq(t, 1, e - 1)
    <3>1. 1 \in 1 .. Len(t) + 1 /\ d - 1 \in 1 - 1 .. Len(t) /\ e - 1 \in d - 1 .. Len(t)
        BY <1>2, <2>5
    <3> QED BY <3>1, ConcatAdjacentSubSeq
  <2>11. (d - 1) + 1 = d
    BY <2>5
  <2> QED BY <2>6, <2>9, <2>10, <2>11 DEF e
<1>10. Nat \subseteq T
  <2> HIDE DEF T
  <2> QED BY <1>8, <1>9, NatSetInduction
<1>11. Good(Len(w)) /\ f[Len(w)] \in Seq(X)
    BY <1>2, <1>10
<1> DEFINE c == CursorAfter(w, Len(w))
<1>12. c \in 1 .. Len(t) + 1
  <2>1. Len(w) \in 0 .. Len(w)
    BY <1>2
  <2> QED BY <1>1, <1>2, <2>1, CursorAdvances
<1>13. Restored(f[Len(w)]) = SubSeq(t, 1, c - 1) /\ f[Len(w)] \in Seq(X)
    BY <1>11
<1>14. ApplySpans(t, w) = f[Len(w)] \o SubSeq(t, c, Len(t))
    BY <1>6
<1> HIDE DEF c, Good
<1>15. Len(t) + 1 \in 1 .. Len(t) + 1 /\ c <= Len(t) + 1 /\ (Len(t) + 1) - 1 = Len(t)
    BY <1>2, <1>12
<1>16. Restored(f[Len(w)] \o SubSeq(t, c, (Len(t) + 1) - 1)) = SubSeq(t, 1, (Len(t) + 1) - 1)
    BY <1>7, <1>12, <1>13, <1>15
<1>17. SubSeq(t, 1, Len(t)) = t
    BY SubSeqFull
<1> QED BY <1>14, <1>15, <1>16, <1>17

-----------------------------------------------------------------------------
\* Windows of a text (sanitize_large_string_detailed)

Shifted(o, n) == [o EXCEPT !.start = @ + n]

LEMMA ShiftedSpan ==
    ASSUME NEW reg, NEW id, NEW k, NEW n
    PROVE  /\ Shifted(SpanAt(reg, id, k), n) = SpanAt(reg, id, k + n)
           /\ SpanAt(reg, id, k).start = k
           /\ SpanAt(reg, id, k).len = Len(reg.entries[id].secret)
  BY DEF Shifted, SpanAt

\* A span of a window, moved to the text's positions, and the other way round.
LEMMA MarksInWindow ==
    ASSUME NEW reg, Consistent(reg), NEW t \in Seq(Byte),
           NEW a \in 1 .. Len(t) + 1, NEW b \in 1 .. Len(t) + 1, a < b
    PROVE  LET wt == SubSeq(t, a, b - 1)
           IN  /\ wt \in Seq(Byte)
               /\ \A o : Marks(o, wt, reg) =>
                    /\ Marks(Shifted(o, a - 1), t, reg)
                    /\ Shifted(o, a - 1).start = o.start + (a - 1)
                    /\ Shifted(o, a - 1).len = o.len
               /\ \A o : Marks(o, t, reg) /\ a <= o.start /\ o.start + o.len <= b =>
                    \E q : Marks(q, wt, reg) /\ Shifted(q, a - 1) = o
<1> DEFINE wt == SubSeq(t, a, b - 1)
<1>1. Len(t) \in Nat
    OBVIOUS
<1>2. wt \in Seq(Byte) /\ Len(wt) = b - a
    BY <1>1
<1>3. ASSUME NEW k \in Nat \ {0}, NEW n \in Nat \ {0}, k + n <= (b - a) + 1
      PROVE  Window(wt, k, n) = Window(t, k + (a - 1), n)
  <2>1. /\ a \in 1 .. Len(t) /\ b - 1 \in 1 .. Len(t)
        /\ k \in 1 .. (b - 1) - a + 1 /\ k + n - 1 \in 1 .. (b - 1) - a + 1
    BY <1>1, <1>3
  <2>2. SubSeq(SubSeq(t, a, b - 1), k, k + n - 1) = SubSeq(t, a + k - 1, a + (k + n - 1) - 1)
    BY <2>1, SubSeqOfSubSeq
  <2>3. a + k - 1 = k + (a - 1) /\ a + (k + n - 1) - 1 = (k + (a - 1)) + n - 1
    BY <1>3
  <2> QED BY <2>2, <2>3 DEF Window
<1> HIDE DEF wt
<1>4. ASSUME NEW k \in Nat \ {0}, NEW n \in Nat \ {0}, k + n <= (b - a) + 1
      PROVE  k + (a - 1) \in 1 .. Len(t) + 1 - n
    BY <1>1, <1>4
<1>5. ASSUME NEW m \in Nat \ {0}, NEW n \in Nat \ {0}, a <= m, m + n <= b
      PROVE  /\ m - (a - 1) \in Nat \ {0} /\ (m - (a - 1)) + n <= (b - a) + 1
             /\ (m - (a - 1)) + (a - 1) = m
             /\ m - (a - 1) \in 1 .. (b - a) + 1 - n
    BY <1>1, <1>5
<1>6. ASSUME NEW o, Marks(o, wt, reg)
      PROVE  /\ Marks(Shifted(o, a - 1), t, reg)
             /\ Shifted(o, a - 1).start = o.start + (a - 1)
             /\ Shifted(o, a - 1).len = o.len
  <2> DEFINE id == o.id
             k == o.start
             n == o.len
             m == k + (a - 1)
  <2>1. /\ id \in 1 .. Len(reg.entries) /\ o = SpanAt(reg, id, k)
        /\ n = Len(reg.entries[id].secret)
        /\ n \in Nat \ {0} /\ k \in Nat \ {0} /\ k + n <= Len(wt) + 1
        /\ Window(wt, k, n) = reg.entries[id].secret
    BY <1>2, <1>6, MarkFields
  <2> HIDE DEF id, k, n
  <2>2. /\ Shifted(o, a - 1) = SpanAt(reg, id, m)
        /\ Shifted(o, a - 1).start = m
        /\ Shifted(o, a - 1).len = n
    <3>1. o = SpanAt(reg, id, k) /\ n = Len(reg.entries[id].secret)
        BY <2>1
    <3>2. Shifted(SpanAt(reg, id, k), a - 1) = SpanAt(reg, id, m)
        BY ShiftedSpan
    <3> HIDE DEF m
    <3>3. SpanAt(reg, id, m).start = m /\ SpanAt(reg, id, m).len = Len(reg.entries[id].secret)
        BY DEF SpanAt
    <3> QED BY <3>1, <3>2, <3>3, Zenon
  <2>3. Window(t, m, n) = reg.entries[id].secret
    BY <1>2, <1>3, <2>1
  <2>4. m \in 1 .. Len(t) + 1 - n
    BY <1>2, <1>4, <2>1
  <2>5. Marks(Shifted(o, a - 1), t, reg)
    BY <2>1, <2>2, <2>3, <2>4 DEF Marks
  <2> QED BY <2>2, <2>5 DEF k, n
<1>7. ASSUME NEW o, Marks(o, t, reg), a <= o.start, o.start + o.len <= b
      PROVE  \E q : Marks(q, wt, reg) /\ Shifted(q, a - 1) = o
  <2> DEFINE id == o.id
             n == o.len
             m == o.start
             k == m - (a - 1)
  <2>1. /\ id \in 1 .. Len(reg.entries) /\ o = SpanAt(reg, id, m)
        /\ n = Len(reg.entries[id].secret)
        /\ n \in Nat \ {0} /\ m \in Nat \ {0}
        /\ Window(t, m, n) = reg.entries[id].secret
    BY <1>7, MarkFields
  <2>2. a <= m /\ m + n <= b
    BY <1>7
  <2> HIDE DEF id, n, m
  <2>3. k \in Nat \ {0} /\ k + n <= (b - a) + 1 /\ k + (a - 1) = m
    BY <1>5, <2>1, <2>2
  <2>4. Window(wt, k, n) = reg.entries[id].secret
    BY <1>3, <2>1, <2>3
  <2>5. k \in 1 .. Len(wt) + 1 - n
    BY <1>2, <1>5, <2>1, <2>2
  <2>6. Marks(SpanAt(reg, id, k), wt, reg)
    BY <2>1, <2>4, <2>5 DEF Marks
  <2>7. Shifted(SpanAt(reg, id, k), a - 1) = SpanAt(reg, id, k + (a - 1))
    BY ShiftedSpan
  <2> QED BY <2>1, <2>3, <2>6, <2>7
<1> QED BY <1>2, <1>6, <1>7 DEF wt

\* The overlap of the windows is the longest secret less one.
LEMMA OverlapBounds ==
    ASSUME NEW reg, Consistent(reg)
    PROVE  /\ WindowOverlap(reg) \in Nat
           /\ \A id \in 1 .. Len(reg.entries) : Len(reg.entries[id].secret) <= WindowOverlap(reg) + 1
<1>1. CASE reg.entries = <<>>
  <2>1. MaxSecretLen(reg) = 0 /\ Len(reg.entries) = 0
    BY <1>1 DEF MaxSecretLen
  <2> QED BY <2>1 DEF WindowOverlap, LargerOf
<1>2. CASE reg.entries # <<>>
  <2> DEFINE D == 1 .. Len(reg.entries)
             h == [i \in D |-> Len(reg.entries[i].secret)]
             S == {Len(s) : s \in Registered(reg)}
  <2>1. Len(reg.entries) \in Nat \ {0} /\ DOMAIN reg.entries = D
    BY <1>2 DEF Consistent
  <2>2. \A i \in D : h[i] = Len(reg.entries[i].secret) /\ h[i] \in Nat \ {0}
    BY EntryType
  <2>3. \A i \in D : h[i] \in S
    BY <2>1 DEF Registered
  <2>4. \A x \in S : \E i \in D : x = h[i]
    BY <2>1 DEF Registered
  <2>5. IsFiniteSet(D) /\ 1 \in D
    BY <2>1, FS_Interval
  <2>6. DOMAIN h = D
    OBVIOUS
  <2>7. h = [i \in D |-> h[i]]
    OBVIOUS
  <2> HIDE DEF h, S, D
  <2>8. h \in [D -> S]
    BY <2>3, <2>7
  <2>9. h \in Surjection(D, S)
    BY <2>4, <2>8 DEF Surjection
  <2>10. IsFiniteSet(S) /\ S \in SUBSET Nat /\ S # {}
    BY <2>2, <2>3, <2>4, <2>5, <2>9, FS_Surjection
  <2>11. PICK bound \in Nat : \A x \in S : x <= bound
    BY <2>10, FiniteIsBounded
  <2>12. Max(S) \in S /\ \A y \in S : Max(S) >= y
    BY <2>10, <2>11, MaxIsGreatest
  <2>13. \A y \in S : y <= Max(S)
    BY <2>10, <2>12
  <2>14. \E n \in S : \A s \in Registered(reg) : Len(s) <= n
    BY <2>12, <2>13 DEF S
  <2>15. MaxSecretLen(reg) \in S /\ \A s \in Registered(reg) : Len(s) <= MaxSecretLen(reg)
    BY <1>2, <2>14 DEF MaxSecretLen, S
  <2>16. MaxSecretLen(reg) \in Nat \ {0}
    BY <2>2, <2>4, <2>15
  <2>17. ASSUME NEW i \in D PROVE Len(reg.entries[i].secret) <= MaxSecretLen(reg)
    <3>1. reg.entries[i].secret \in Registered(reg)
        BY <2>1 DEF Registered
    <3> QED BY <2>15, <3>1
  <2>18. WindowOverlap(reg) = MaxSecretLen(reg) - 1
    <3>1. MaxSecretLen(reg) = 1 \/ ~(1 > MaxSecretLen(reg))
        BY <2>16
    <3> QED BY <2>16, <3>1 DEF WindowOverlap, LargerOf
  <2> QED BY <2>2, <2>16, <2>17, <2>18 DEF D
<1> QED BY <1>1, <1>2

\* The chunks cover the text.
LEMMA ChunksCover ==
    ASSUME NEW t, Len(t) \in Nat, NEW chunk \in Nat \ {0}, NEW p \in 1 .. Len(t)
    PROVE  \E start \in ChunkStarts(t, chunk) : start <= p /\ p < start + chunk
<1> DEFINE T == {i \in Nat : \E k \in Nat : k <= i /\ k * chunk <= i /\ i < k * chunk + chunk}
<1>1. 0 \in T
  <2>1. 0 * chunk = 0
    OBVIOUS
  <2> QED BY <2>1
<1>2. ASSUME NEW i \in Nat, i \in T PROVE i + 1 \in T
  <2>1. PICK k \in Nat : k <= i /\ k * chunk <= i /\ i < k * chunk + chunk
    BY <1>2
  <2> DEFINE m == k * chunk
  <2>2. m \in Nat /\ (k + 1) * chunk = m + chunk
    OBVIOUS
  <2>3. m <= i /\ i < m + chunk
    BY <2>1
  <2> HIDE DEF m
  <2>4. CASE i + 1 < m + chunk
    <3>1. k <= i + 1 /\ m <= i + 1
        BY <2>1, <2>2, <2>3
    <3>2. k * chunk <= i + 1 /\ i + 1 < k * chunk + chunk
        BY <2>4, <3>1 DEF m
    <3>3. i + 1 \in Nat
        OBVIOUS
    <3> QED BY <3>1, <3>2, <3>3
  <2>5. CASE i + 1 = m + chunk
    <3>1. k + 1 \in Nat /\ k + 1 <= i + 1
        BY <2>1
    <3>2. (k + 1) * chunk <= i + 1 /\ i + 1 < (k + 1) * chunk + chunk
        BY <2>2, <2>5
    <3>3. i + 1 \in Nat
        OBVIOUS
    <3> QED BY <3>1, <3>2, <3>3
  <2> QED BY <2>2, <2>3, <2>4, <2>5
<1>3. Nat \subseteq T
  <2> HIDE DEF T
  <2> QED BY <1>1, <1>2, NatSetInduction
<1>4. p - 1 \in T
  <2>1. p - 1 \in Nat
    OBVIOUS
  <2> HIDE DEF T
  <2> QED BY <1>3, <2>1
<1>5. PICK k \in Nat : k <= p - 1 /\ k * chunk <= p - 1 /\ p - 1 < k * chunk + chunk
    BY <1>4
<1> DEFINE m == k * chunk
<1>6. m \in Nat /\ m <= p - 1 /\ p - 1 < m + chunk
    BY <1>5
<1>7. k \in 0 .. Len(t) /\ m + 1 = k * chunk + 1
    BY <1>5
<1> HIDE DEF m
<1>8. m + 1 \in 1 .. Len(t) /\ m + 1 <= p /\ p < (m + 1) + chunk
    BY <1>6
<1>9. m + 1 \in ChunkStarts(t, chunk)
    BY <1>7, <1>8 DEF ChunkStarts
<1> QED BY <1>8, <1>9

-----------------------------------------------------------------------------
\* The chunked scan

\* An occurrence that no other one overlaps.
Isolated(occ, t, reg) ==
    /\ occ \in Occurrences(t, reg)
    /\ \A o \in Occurrences(t, reg) \ {occ} : ~Overlaps(o, occ)

\* Where the window of a chunk begins and ends.
LEMMA WindowBounds ==
    ASSUME NEW reg, Consistent(reg), NEW t \in Seq(Byte), NEW chunk \in Nat \ {0},
           NEW start \in 1 .. Len(t)
    PROVE  \E b \in 1 .. Len(t) + 1 :
             /\ WindowText(t, reg, start, chunk) = SubSeq(t, WindowStart(reg, start), b - 1)
             /\ WindowStart(reg, start) \in 1 .. Len(t) + 1
             /\ WindowStart(reg, start) <= start
             /\ WindowStart(reg, start) < b
             /\ ChunkEnd(t, start, chunk) \in Nat
             /\ \A p \in Nat : p < start + chunk /\ p <= Len(t) => p < ChunkEnd(t, start, chunk)
             /\ \A p, n \in Nat :
                    p < ChunkEnd(t, start, chunk) /\ n <= WindowOverlap(reg) + 1 /\ p + n <= Len(t) + 1
                    => p + n <= b
<1> DEFINE O == WindowOverlap(reg)
           a == WindowStart(reg, start)
           e == ChunkEnd(t, start, chunk)
           b == SmallerOf(e + O, Len(t) + 1)
<1>1. O \in Nat /\ Len(t) \in Nat /\ start \in Nat \ {0} /\ start <= Len(t)
    BY OverlapBounds
<1>2. WindowText(t, reg, start, chunk) = SubSeq(t, a, b - 1)
    BY DEF WindowText
<1> HIDE DEF O
<1>3. a \in Nat \ {0} /\ a <= start
    BY <1>1 DEF WindowStart, O
<1>4. (e = start + chunk /\ start + chunk < Len(t) + 1) \/ (e = Len(t) + 1 /\ start + chunk >= Len(t) + 1)
    BY <1>1 DEF ChunkEnd, SmallerOf
<1> HIDE DEF e, a
<1>5. e \in Nat /\ start < e
    BY <1>1, <1>4
<1>6. (b = e + O /\ e + O < Len(t) + 1) \/ (b = Len(t) + 1 /\ e + O >= Len(t) + 1)
    BY <1>1, <1>5 DEF SmallerOf
<1> HIDE DEF b
<1>7. b \in 1 .. Len(t) + 1 /\ a < b /\ a \in 1 .. Len(t) + 1
    BY <1>1, <1>3, <1>5, <1>6
<1>8. ASSUME NEW p \in Nat, p < start + chunk, p <= Len(t) PROVE p < e
    BY <1>1, <1>4, <1>8
<1>9. ASSUME NEW p \in Nat, NEW n \in Nat, p < e, n <= O + 1, p + n <= Len(t) + 1 PROVE p + n <= b
    BY <1>1, <1>5, <1>6, <1>9
<1> QED BY <1>2, <1>3, <1>5, <1>7, <1>8, <1>9 DEF O, a, e

\* What one window contributes: marks of the text, and among them the isolated occurrences
\* that start in its chunk.
LEMMA ChunkContributes ==
    ASSUME NEW reg, Consistent(reg), NEW t \in Seq(Byte), NEW chunk \in Nat \ {0},
           NEW start \in 1 .. Len(t)
    PROVE  LET spans == ChunkSpans(t, reg, start, chunk,
                            ScanStringToken(WindowText(t, reg, start, chunk), reg))
           IN  /\ \A o \in spans : Marks(o, t, reg)
               /\ \A o : Isolated(o, t, reg) /\ start <= o.start /\ o.start < start + chunk
                         => o \in spans
<1> DEFINE a == WindowStart(reg, start)
           e == ChunkEnd(t, start, chunk)
           wt == WindowText(t, reg, start, chunk)
           w == ScanStringToken(wt, reg)
           spans == ChunkSpans(t, reg, start, chunk, w)
           selected == {w[i] : i \in DOMAIN w}
<1>1. PICK b \in 1 .. Len(t) + 1 :
             /\ wt = SubSeq(t, a, b - 1)
             /\ a \in 1 .. Len(t) + 1 /\ a <= start /\ a < b /\ e \in Nat
             /\ \A p \in Nat : p < start + chunk /\ p <= Len(t) => p < e
             /\ \A p, n \in Nat : p < e /\ n <= WindowOverlap(reg) + 1 /\ p + n <= Len(t) + 1 => p + n <= b
    BY WindowBounds
<1>2. spans = {span \in {Shifted(w[i], a - 1) : i \in DOMAIN w} : span.start >= start /\ span.start < e}
    BY DEF ChunkSpans, Shifted
<1> HIDE DEF a, e, wt, spans
<1>3. /\ wt \in Seq(Byte)
      /\ \A o : Marks(o, wt, reg) =>
            /\ Marks(Shifted(o, a - 1), t, reg)
            /\ Shifted(o, a - 1).start = o.start + (a - 1)
            /\ Shifted(o, a - 1).len = o.len
      /\ \A o : Marks(o, t, reg) /\ a <= o.start /\ o.start + o.len <= b =>
            \E q : Marks(q, wt, reg) /\ Shifted(q, a - 1) = o
    BY <1>1, MarksInWindow
<1>4. /\ w \in Seq(Occurrences(wt, reg)) /\ DOMAIN w = 1 .. Len(w)
      /\ Greedy(Occurrences(wt, reg), selected)
    BY <1>3, ScanIsGreedy
<1> HIDE DEF w
<1>5. \A i \in DOMAIN w : Marks(w[i], wt, reg)
  <2>1. \A i \in DOMAIN w : w[i] \in Occurrences(wt, reg)
    BY <1>4
  <2> QED BY <1>3, <2>1, OccurrencesMark
<1>6. \A o \in spans : Marks(o, t, reg)
    BY <1>2, <1>3, <1>5
<1>7. ASSUME NEW o, Isolated(o, t, reg), start <= o.start, o.start < start + chunk
      PROVE  o \in spans
  <2>1. Marks(o, t, reg)
    BY <1>7, OccurrencesMark DEF Isolated
  <2>2. /\ o.start \in Nat /\ o.len \in Nat \ {0} /\ o.start + o.len <= Len(t) + 1
        /\ o.len <= WindowOverlap(reg) + 1
    <3>1. /\ o.start \in Nat \ {0} /\ o.len \in Nat \ {0} /\ o.start + o.len <= Len(t) + 1
          /\ o.id \in 1 .. Len(reg.entries) /\ o.len = Len(reg.entries[o.id].secret)
        BY <2>1, MarkFields
    <3>2. Len(reg.entries[o.id].secret) <= WindowOverlap(reg) + 1
        BY <3>1, OverlapBounds
    <3> QED BY <3>1, <3>2
  <2>3. Len(t) \in Nat /\ start \in Nat /\ a \in Nat
    BY <1>1
  <2>4. o.start < e /\ o.start + o.len <= b
    <3>1. o.start <= Len(t)
        BY <2>2, <2>3
    <3>2. o.start < e
        BY <1>1, <1>7, <2>2, <3>1
    <3> QED BY <1>1, <2>2, <3>2
  <2>5. a <= o.start
    BY <1>1, <1>7, <2>2, <2>3
  <2>6. PICK q : Marks(q, wt, reg) /\ Shifted(q, a - 1) = o
    BY <1>3, <2>1, <2>4, <2>5
  <2>7. q \in Occurrences(wt, reg)
    BY <1>3, <2>6, OccurrencesMark
  <2>8. ASSUME q \notin selected PROVE FALSE
    <3>1. PICK c \in selected : Overlaps(q, c) /\ Preferred(c, q)
        BY <1>4, <2>7, <2>8 DEF Greedy
    <3>2. Marks(c, wt, reg)
        BY <1>5, <3>1
    <3> DEFINE d == Shifted(c, a - 1)
    <3>3. /\ Marks(d, t, reg) /\ d.start = c.start + (a - 1) /\ d.len = c.len
          /\ o.start = q.start + (a - 1) /\ o.len = q.len
        BY <1>3, <2>6, <3>2
    <3> HIDE DEF d
    <3>4. c.start \in Nat /\ c.len \in Nat /\ q.start \in Nat /\ q.len \in Nat /\ c.id \in Nat /\ q.id \in Nat
        BY <1>3, <2>6, <3>2, MarkFields
    <3>5. Overlaps(d, o)
        BY <2>3, <3>1, <3>3, <3>4 DEF Overlaps, SpanEnd
    <3>6. d \in Occurrences(t, reg)
        BY <3>3, OccurrencesMark
    <3>7. d = o
        BY <1>7, <3>5, <3>6 DEF Isolated
    <3>8. c.start = q.start /\ c.len = q.len
        BY <2>3, <3>3, <3>4, <3>7
    <3>9. c = q
        BY <1>3, <2>7, <3>2, <3>8, OccurrencesMark, OccurrencesAreWellFormed DEF WellFormed
    <3> QED BY <2>8, <3>1, <3>9
  <2>9. PICK i \in DOMAIN w : q = w[i]
    BY <2>8
  <2> QED BY <1>2, <1>7, <2>3, <2>4, <2>2, <2>6, <2>9
<1> QED BY <1>6, <1>7 DEF spans, w, wt

\* The spans a text is redacted with when nothing is cached: a greedy choice among marks of
\* the text, the isolated occurrences among them.
LEMMA FreshIsGreedy ==
    ASSUME NEW reg, Consistent(reg), NEW t \in Seq(Byte), NEW chunk \in Nat \ {0}
    PROVE  \E A :
             LET w == FreshSpans(t, reg, chunk)
             IN  /\ \A o \in A : Marks(o, t, reg)
                 /\ w \in Seq(A) /\ DOMAIN w = 1 .. Len(w) /\ Ordered(w)
                 /\ Greedy(A, {w[i] : i \in DOMAIN w})
                 /\ \A o : Isolated(o, t, reg) => o \in A
<1>1. CASE Len(t) > chunk
  <2> DEFINE Found(start) == ChunkSpans(t, reg, start, chunk,
                                 ScanStringToken(WindowText(t, reg, start, chunk), reg))
             A == UNION {Found(start) : start \in ChunkStarts(t, chunk)}
  <2>1. FreshSpans(t, reg, chunk) = SelectLongestNonOverlapping(A)
    BY <1>1 DEF FreshSpans, ChunkedScan
  <2>2. ChunkStarts(t, chunk) \subseteq 1 .. Len(t)
    BY DEF ChunkStarts
  <2>3. ASSUME NEW start \in ChunkStarts(t, chunk)
        PROVE  /\ \A o \in Found(start) : Marks(o, t, reg)
               /\ \A o : Isolated(o, t, reg) /\ start <= o.start /\ o.start < start + chunk
                         => o \in Found(start)
    BY <2>2, ChunkContributes
  <2> HIDE DEF Found
  <2>4. \A o \in A : Marks(o, t, reg)
    BY <2>3
  <2>5. ASSUME NEW o, Isolated(o, t, reg) PROVE o \in A
    <3>1. Marks(o, t, reg)
        BY <2>5, OccurrencesMark DEF Isolated
    <3>2. o.start \in Nat \ {0} /\ o.len \in Nat \ {0} /\ o.start + o.len <= Len(t) + 1 /\ Len(t) \in Nat
        BY <3>1, MarkFields
    <3>3. o.start \in 1 .. Len(t)
        BY <3>2
    <3>4. PICK start \in ChunkStarts(t, chunk) : start <= o.start /\ o.start < start + chunk
        BY <3>2, <3>3, ChunksCover
    <3> QED BY <2>3, <2>5, <3>4
  <2> HIDE DEF A
  <2>6. WellFormed(A) /\ IsFiniteSet(A)
    BY <2>4, MarksAreWellFormed
  <2> QED BY <2>1, <2>4, <2>5, <2>6, SelectionInOrder
<1>2. CASE ~(Len(t) > chunk)
  <2> DEFINE A == Occurrences(t, reg)
  <2>1. FreshSpans(t, reg, chunk) = ScanStringToken(t, reg)
    BY <1>2 DEF FreshSpans
  <2>2. \A o \in A : Marks(o, t, reg)
    BY OccurrencesMark
  <2>3. \A o : Isolated(o, t, reg) => o \in A
    BY DEF Isolated
  <2> DEFINE w == FreshSpans(t, reg, chunk)
  <2>4. w \in Seq(A) /\ DOMAIN w = 1 .. Len(w) /\ Ordered(w) /\ Greedy(A, {w[i] : i \in DOMAIN w})
    BY <2>1, ScanIsGreedy
  <2> HIDE DEF A, w
  <2>5. /\ \A o \in A : Marks(o, t, reg)
        /\ w \in Seq(A) /\ DOMAIN w = 1 .. Len(w) /\ Ordered(w)
        /\ Greedy(A, {w[i] : i \in DOMAIN w})
        /\ \A o : Isolated(o, t, reg) => o \in A
    BY <2>2, <2>3, <2>4
  <2> QED BY <2>5, Zenon DEF w
<1> QED BY <1>1, <1>2

\* Restoring a redacted text gives the text back, whether it was scanned whole or in chunks.
THEOREM RedactionHasInverse == ScanSpec => []RedactionIsReversible
<1>1. ASSUME ScanInv PROVE RedactionIsReversible
  <2>1. Consistent(registry) /\ text \in Seq(Byte) /\ ChunkSize \in Nat \ {0}
    BY <1>1, ScannerAssumption DEF ScanInv
  <2>2. Restored(ApplySpans(text, Whole)) = text
    <3>1. Whole \in Seq(Occurrences(text, registry)) /\ DOMAIN Whole = 1 .. Len(Whole) /\ Ordered(Whole)
        BY <2>1, ScanIsGreedy DEF Whole
    <3>2. \A o \in Occurrences(text, registry) : Marks(o, text, registry)
        BY <2>1, OccurrencesMark
    <3> QED BY <2>1, <3>1, <3>2, AppliedIsReversible
  <2>3. Restored(ApplySpans(text, Fresh)) = text
    <3>1. PICK A : /\ \A o \in A : Marks(o, text, registry)
                   /\ Fresh \in Seq(A) /\ DOMAIN Fresh = 1 .. Len(Fresh) /\ Ordered(Fresh)
        BY <2>1, FreshIsGreedy DEF Fresh
    <3> QED BY <2>1, <3>1, AppliedIsReversible
  <2> QED BY <2>2, <2>3 DEF RedactionIsReversible
<1> QED BY <1>1, ScannerInvariant, PTL

\* No chunk boundary hides an occurrence that nothing overlaps, at any chunk size.
THEOREM ChunksMissNothingIsolated == ScanSpec => []ChunksFindIsolatedSecrets
<1>1. ASSUME ScanInv PROVE ChunksFindIsolatedSecrets
  <2>1. Consistent(registry) /\ text \in Seq(Byte) /\ ChunkSize \in Nat \ {0}
    BY <1>1, ScannerAssumption DEF ScanInv
  <2> DEFINE selected == {Fresh[i] : i \in DOMAIN Fresh}
  <2>2. PICK A : /\ \A o \in A : Marks(o, text, registry)
                 /\ Greedy(A, selected)
                 /\ \A o : Isolated(o, text, registry) => o \in A
    BY <2>1, FreshIsGreedy DEF Fresh
  <2> HIDE DEF selected
  <2>3. ASSUME NEW occ, Isolated(occ, text, registry) PROVE occ \in selected
    <3> SUFFICES ASSUME occ \notin selected PROVE FALSE
        OBVIOUS
    <3>1. PICK b \in selected : Overlaps(occ, b) /\ Preferred(b, occ)
        BY <2>2, <2>3 DEF Greedy
    <3>2. b \in Occurrences(text, registry) /\ b # occ
        BY <2>1, <2>2, OccurrencesMark DEF Greedy
    <3>3. ~Overlaps(b, occ)
        BY <2>3, <3>2 DEF Isolated
    <3> QED BY <3>1, <3>3 DEF Overlaps
  <2> QED BY <2>3 DEF selected, Isolated, ChunksFindIsolatedSecrets
<1> QED BY <1>1, ScannerInvariant, PTL
=============================================================================
