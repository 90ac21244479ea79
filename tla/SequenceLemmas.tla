--------------------------- MODULE SequenceLemmas ---------------------------
(***************************************************************************)
(* What the proofs about texts rest on: induction over the naturals for a  *)
(* property given as a set, least and greatest naturals, and FlattenSeq,   *)
(* which respects concatenation.                                           *)
(***************************************************************************)
EXTENDS SequencesExt, WellFoundedInduction, SequenceTheorems, FunctionTheorems, FiniteSetTheorems,
        TLAPS

\* Induction over the naturals for a property given as the set of numbers that have it.
LEMMA NatSetInduction ==
    ASSUME NEW T, 0 \in T, \A n \in Nat : n \in T => n + 1 \in T
    PROVE  Nat \subseteq T
<1> DEFINE Missing == Nat \ T
<1> SUFFICES ASSUME Missing # {} PROVE FALSE
    OBVIOUS
<1>1. PICK x \in Missing : \A y \in Missing : <<y, x>> \notin OpToRel(<, Nat)
    BY WFMin, NatLessThanWellFounded
<1>2. x \in Nat /\ x # 0
    OBVIOUS
<1>3. x - 1 \in Nat /\ x - 1 < x /\ (x - 1) + 1 = x
    BY <1>2
<1>4. x - 1 \notin T
    BY <1>3
<1>5. <<x - 1, x>> \in OpToRel(<, Nat)
    BY <1>2, <1>3 DEF OpToRel
<1> QED BY <1>1, <1>3, <1>4, <1>5

\* A set of naturals with a bound has a maximum, and Max is it.
LEMMA MaxIsGreatest ==
    ASSUME NEW S \in SUBSET Nat, S # {}, NEW b \in Nat, \A x \in S : x <= b
    PROVE  Max(S) \in S /\ \A y \in S : Max(S) >= y
<1> DEFINE Gaps == {b - x : x \in S}
<1>1. Gaps \subseteq Nat /\ Gaps # {}
  <2>1. ASSUME NEW x \in S PROVE b - x \in Nat
    <3>1. x \in Nat /\ x <= b
        OBVIOUS
    <3> QED BY <3>1
  <2> QED BY <2>1
<1>2. PICK g \in Gaps : \A h \in Gaps : <<h, g>> \notin OpToRel(<, Nat)
    BY <1>1, WFMin, NatLessThanWellFounded
<1>3. PICK m \in S : g = b - m
    OBVIOUS
<1>4. ASSUME NEW y \in S PROVE m >= y
  <2>1. b - y \in Gaps /\ b - y \in Nat /\ g \in Nat
    BY <1>1
  <2>2. <<b - y, g>> \notin OpToRel(<, Nat)
    BY <2>1, <1>2
  <2>3. ~(b - y < g)
    BY <2>1, <2>2 DEF OpToRel
  <2> QED BY <2>3, <1>3, <2>1
<1> QED BY <1>4 DEF Max

\* A set of naturals has a minimum, and Min is it.
LEMMA MinIsLeast ==
    ASSUME NEW T \in SUBSET Nat, T # {}
    PROVE  Min(T) \in T /\ \A y \in T : Min(T) <= y
<1>1. PICK x \in T : \A y \in T : <<y, x>> \notin OpToRel(<, Nat)
    BY WFMin, NatLessThanWellFounded
<1>2. ASSUME NEW y \in T PROVE x <= y
  <2>1. <<y, x>> \notin OpToRel(<, Nat) /\ x \in Nat /\ y \in Nat
    BY <1>1
  <2>2. x \in Nat /\ y \in Nat
    BY <2>1
  <2>3. ~(y < x)
    BY <2>1, <2>2 DEF OpToRel
  <2> QED BY <2>2, <2>3
<1> QED BY <1>2 DEF Min

\* Of two numbers.
LEMMA TwoNumbers ==
    ASSUME NEW a \in Nat, NEW b \in Nat
    PROVE  /\ a <= b => Max({a, b}) = b /\ Min({a, b}) = a
           /\ b <= a => Max({a, b}) = a /\ Min({a, b}) = b
<1>1. Max({a, b}) \in {a, b} /\ \A y \in {a, b} : Max({a, b}) >= y
  <2>1. \A x \in {a, b} : x <= a + b
    OBVIOUS
  <2> QED BY <2>1, MaxIsGreatest
<1>2. Min({a, b}) \in {a, b} /\ \A y \in {a, b} : Min({a, b}) <= y
    BY MinIsLeast
<1> QED BY <1>1, <1>2

\* A finite set of naturals has a bound.
LEMMA FiniteIsBounded ==
    ASSUME NEW S \in SUBSET Nat, IsFiniteSet(S)
    PROVE  \E b \in Nat : \A x \in S : x <= b
<1> DEFINE T == {n \in Nat : \A f \in [1 .. n -> S] : \E b \in Nat : \A i \in 1 .. n : f[i] <= b}
<1>1. 0 \in T
    OBVIOUS
<1>2. ASSUME NEW n \in Nat, n \in T PROVE n + 1 \in T
  <2> SUFFICES ASSUME NEW f \in [1 .. n + 1 -> S]
               PROVE  \E b \in Nat : \A i \in 1 .. n + 1 : f[i] <= b
    OBVIOUS
  <2> DEFINE g == [i \in 1 .. n |-> f[i]]
  <2>1. g \in [1 .. n -> S]
    OBVIOUS
  <2>2. PICK b \in Nat : \A i \in 1 .. n : g[i] <= b
    BY <1>2, <2>1
  <2>3. f[n + 1] \in Nat
    <3>1. n + 1 \in 1 .. n + 1
        OBVIOUS
    <3>2. f[n + 1] \in S
        BY <3>1
    <3> QED BY <3>2
  <2>4. ASSUME NEW i \in 1 .. n PROVE f[i] <= b + f[n + 1]
    <3>1. f[i] \in S /\ g[i] = f[i]
        OBVIOUS
    <3>2. f[i] \in Nat /\ f[i] <= b
        BY <2>2, <3>1
    <3> QED BY <2>3, <3>2
  <2>5. b + f[n + 1] \in Nat /\ f[n + 1] <= b + f[n + 1]
    BY <2>3
  <2>6. \A i \in 1 .. n + 1 : i \in 1 .. n \/ i = n + 1
    OBVIOUS
  <2> QED BY <2>4, <2>5, <2>6
<1>3. Nat \subseteq T
  <2> HIDE DEF T
  <2> QED BY <1>1, <1>2, NatSetInduction
<1>5. PICK n \in Nat : \E f : f \in Bijection(1 .. n, S)
    BY FS_NatBijection DEF ExistsBijection
<1>6. PICK f : f \in Bijection(1 .. n, S)
    BY <1>5
<1>7. f \in [1 .. n -> S] /\ \A x \in S : \E i \in 1 .. n : f[i] = x
    BY <1>6 DEF Bijection, Injection, Surjection
<1>8. n \in T
    BY <1>3
<1>9. PICK b \in Nat : \A i \in 1 .. n : f[i] <= b
    BY <1>7, <1>8
<1> QED BY <1>7, <1>9

-----------------------------------------------------------------------------
\* FlattenSeq

\* The recursive function FlattenSeq chooses, characterised.
FlattensTo(s, n, f) ==
    \A i \in 1 .. n : f[i] = IF i = 1 THEN s[i] ELSE f[i - 1] \o s[i]

Flattens(s, f) == FlattensTo(s, Len(s), f)

\* There is such a function for every sequence of sequences.
LEMMA FlatteningExists ==
    ASSUME NEW S, NEW s \in Seq(Seq(S))
    PROVE  \E f \in [1 .. Len(s) -> Seq(S)] : Flattens(s, f)
<1> DEFINE T == {n \in Nat : n <= Len(s) => \E f \in [1 .. n -> Seq(S)] : FlattensTo(s, n, f)}
<1>1. 0 \in T
  <2>1. /\ [i \in 1 .. 0 |-> <<>>] \in [1 .. 0 -> Seq(S)]
        /\ FlattensTo(s, 0, [i \in 1 .. 0 |-> <<>>])
    BY DEF FlattensTo
  <2> QED BY <2>1
<1>2. ASSUME NEW n \in Nat, n \in T PROVE n + 1 \in T
  <2> SUFFICES ASSUME n + 1 <= Len(s)
               PROVE  \E f \in [1 .. n + 1 -> Seq(S)] : FlattensTo(s, n + 1, f)
    OBVIOUS
  <2>1. PICK f \in [1 .. n -> Seq(S)] : FlattensTo(s, n, f)
    BY <1>2
  <2> DEFINE last == IF n = 0 THEN s[n + 1] ELSE f[n] \o s[n + 1]
             g == [i \in 1 .. n + 1 |-> IF i <= n THEN f[i] ELSE last]
  <2>2. s[n + 1] \in Seq(S)
    OBVIOUS
  <2>3. last \in Seq(S)
    <3>1. CASE n = 0
        BY <2>2, <3>1
    <3>2. CASE n # 0
      <4>1. f[n] \in Seq(S)
        BY <3>2
      <4> QED BY <2>2, <3>2, <4>1
    <3> QED BY <3>1, <3>2
  <2>4. g \in [1 .. n + 1 -> Seq(S)]
    BY <2>3
  <2>5. ASSUME NEW i \in 1 .. n + 1
        PROVE  g[i] = IF i = 1 THEN s[i] ELSE g[i - 1] \o s[i]
    <3>1. CASE i <= n
      <4>1. g[i] = f[i] /\ (i # 1 => g[i - 1] = f[i - 1])
        BY <3>1
      <4>2. f[i] = IF i = 1 THEN s[i] ELSE f[i - 1] \o s[i]
        <5>1. i \in 1 .. n
            BY <3>1
        <5> QED BY <2>1, <5>1, Zenon DEF FlattensTo
      <4> HIDE DEF g
      <4>3. CASE i = 1
        BY <4>1, <4>2, <4>3
      <4>4. CASE i # 1
        BY <4>1, <4>2, <4>4
      <4> QED BY <4>3, <4>4
    <3>2. CASE i = n + 1
      <4>1. g[i] = last /\ (n # 0 => g[i - 1] = f[n])
        BY <3>2
      <4> QED BY <3>2, <4>1
    <3> QED BY <3>1, <3>2
  <2> HIDE DEF last, g
  <2>6. FlattensTo(s, n + 1, g)
    BY <2>5 DEF FlattensTo
  <2> QED BY <2>4, <2>6
<1>3. Nat \subseteq T
  <2> HIDE DEF T
  <2> QED BY <1>1, <1>2, NatSetInduction
<1>4. Len(s) \in T /\ Len(s) \in Nat /\ Len(s) <= Len(s)
  <2>1. Len(s) \in Nat
    OBVIOUS
  <2> HIDE DEF T
  <2> QED BY <1>3, <2>1
<1> QED BY <1>4 DEF Flattens

\* It is unique, so FlattenSeq is its last value.
LEMMA FlatteningIsUnique ==
    ASSUME NEW S, NEW s \in Seq(Seq(S)), NEW f, NEW g, Flattens(s, f), Flattens(s, g)
    PROVE  \A i \in 1 .. Len(s) : f[i] = g[i]
<1> DEFINE T == {n \in Nat : n + 1 \in 1 .. Len(s) => f[n + 1] = g[n + 1]}
<1>1. 0 \in T
    BY DEF Flattens, FlattensTo
<1>2. ASSUME NEW n \in Nat, n \in T PROVE n + 1 \in T
  <2> SUFFICES ASSUME (n + 1) + 1 \in 1 .. Len(s) PROVE f[(n + 1) + 1] = g[(n + 1) + 1]
    OBVIOUS
  <2>1. f[n + 1] = g[n + 1]
    BY <1>2
  <2>2. (n + 1) + 1 # 1
    OBVIOUS
  <2>4. /\ f[(n + 1) + 1] = f[((n + 1) + 1) - 1] \o s[(n + 1) + 1]
        /\ g[(n + 1) + 1] = g[((n + 1) + 1) - 1] \o s[(n + 1) + 1]
    BY <2>2 DEF Flattens, FlattensTo
  <2>3. ((n + 1) + 1) - 1 = n + 1
    OBVIOUS
  <2> QED BY <2>1, <2>4, <2>3
<1>3. Nat \subseteq T
  <2> HIDE DEF T
  <2> QED BY <1>1, <1>2, NatSetInduction
<1>4. ASSUME NEW i \in 1 .. Len(s) PROVE f[i] = g[i]
  <2>1. i - 1 \in Nat /\ (i - 1) + 1 = i
    OBVIOUS
  <2>2. i - 1 \in T
    BY <1>3, <2>1
  <2> QED BY <2>1, <2>2
<1> QED BY <1>4

LEMMA FlattenIsLast ==
    ASSUME NEW S, NEW s \in Seq(Seq(S)), Len(s) # 0, NEW f, Flattens(s, f)
    PROVE  FlattenSeq(s) = f[Len(s)]
<1>1. PICK g \in [1 .. Len(s) -> Seq(S)] : Flattens(s, g)
    BY FlatteningExists
<1>2. g = [i \in 1 .. Len(s) |-> IF i = 1 THEN s[i] ELSE g[i - 1] \o s[i]]
    BY <1>1 DEF Flattens, FlattensTo
<1> DEFINE h == CHOOSE h : h = [i \in 1 .. Len(s) |-> IF i = 1 THEN s[i] ELSE h[i - 1] \o s[i]]
<1>3. h = [i \in 1 .. Len(s) |-> IF i = 1 THEN s[i] ELSE h[i - 1] \o s[i]]
    BY <1>2
<1>4. FlattenSeq(s) = h[Len(s)]
    BY DEF FlattenSeq
<1> HIDE DEF h
<1>5. Flattens(s, h)
    BY <1>3 DEF Flattens, FlattensTo
<1>6. Len(s) \in 1 .. Len(s)
    OBVIOUS
<1> QED BY <1>4, <1>5, <1>6, FlatteningIsUnique

LEMMA FlattenType == ASSUME NEW S, NEW s \in Seq(Seq(S)) PROVE FlattenSeq(s) \in Seq(S)
<1>1. CASE Len(s) = 0
  <2>1. s = <<>>
    BY <1>1
  <2> QED BY <1>1, <2>1 DEF FlattenSeq
<1>2. CASE Len(s) # 0
  <2>1. PICK f \in [1 .. Len(s) -> Seq(S)] : Flattens(s, f)
    BY FlatteningExists
  <2>2. Len(s) \in 1 .. Len(s)
    BY <1>2
  <2>3. FlattenSeq(s) = f[Len(s)]
    BY <1>2, <2>1, FlattenIsLast
  <2> QED BY <2>1, <2>2, <2>3
<1> QED BY <1>1, <1>2

\* Flattening one more sequence appends it.
LEMMA FlattenOneMore ==
    ASSUME NEW S, NEW n \in Nat, NEW f \in [1 .. n + 1 -> Seq(S)]
    PROVE  FlattenSeq(f) = FlattenSeq([i \in 1 .. n |-> f[i]]) \o f[n + 1]
<1> DEFINE g == [i \in 1 .. n |-> f[i]]
<1>1. /\ f \in Seq(Seq(S)) /\ Len(f) = n + 1 /\ Len(f) # 0
      /\ g \in Seq(Seq(S)) /\ Len(g) = n
    OBVIOUS
<1>2. PICK h \in [1 .. n + 1 -> Seq(S)] : Flattens(f, h)
    BY <1>1, FlatteningExists
<1>3. FlattenSeq(f) = h[n + 1]
    BY <1>1, <1>2, FlattenIsLast
<1>4. h[n + 1] = IF n = 0 THEN f[n + 1] ELSE h[n] \o f[n + 1]
  <2>1. n + 1 \in 1 .. Len(f) /\ (n + 1) - 1 = n /\ (n + 1 = 1 <=> n = 0)
    BY <1>1
  <2>2. h[n + 1] = IF n + 1 = 1 THEN f[n + 1] ELSE h[(n + 1) - 1] \o f[n + 1]
    BY <1>2, <2>1, Zenon DEF Flattens, FlattensTo
  <2> QED BY <2>1, <2>2
<1>5. CASE n = 0
  <2>1. FlattenSeq(g) = <<>>
    BY <1>1, <1>5 DEF FlattenSeq
  <2>2. f[n + 1] \in Seq(S)
    OBVIOUS
  <2> QED BY <1>3, <1>4, <1>5, <2>1, <2>2
<1>6. CASE n # 0
  <2>1. Flattens(g, h)
    <3>1. ASSUME NEW i \in 1 .. n PROVE h[i] = IF i = 1 THEN g[i] ELSE h[i - 1] \o g[i]
      <4>1. i \in 1 .. Len(f) /\ g[i] = f[i]
        BY <1>1
      <4> HIDE DEF g
      <4> QED BY <1>2, <4>1, Zenon DEF Flattens, FlattensTo
    <3> HIDE DEF g
    <3> QED BY <1>1, <3>1 DEF Flattens, FlattensTo
  <2>2. FlattenSeq(g) = h[n]
    BY <1>1, <1>6, <2>1, FlattenIsLast
  <2> QED BY <1>3, <1>4, <1>6, <2>2
<1> QED BY <1>5, <1>6

\* The same of two sequences, one of which goes on where the other ends.
LEMMA FlattenGrows ==
    ASSUME NEW S, NEW n \in Nat, NEW f \in [1 .. n -> Seq(S)], NEW g \in [1 .. n + 1 -> Seq(S)],
           \A i \in 1 .. n : g[i] = f[i]
    PROVE  /\ FlattenSeq(g) = FlattenSeq(f) \o g[n + 1]
           /\ FlattenSeq(f) \in Seq(S) /\ FlattenSeq(g) \in Seq(S)
<1>1. [i \in 1 .. n |-> g[i]] = f
    OBVIOUS
<1>2. FlattenSeq(g) = FlattenSeq([i \in 1 .. n |-> g[i]]) \o g[n + 1]
    BY FlattenOneMore
<1>3. f \in Seq(Seq(S)) /\ g \in Seq(Seq(S))
    OBVIOUS
<1>4. FlattenSeq(f) \in Seq(S) /\ FlattenSeq(g) \in Seq(S)
    BY <1>3, FlattenType
<1> QED BY <1>1, <1>2, <1>4

\* A sequence of sequences may be flattened in two pieces.
LEMMA FlattenSplit ==
    ASSUME NEW S, NEW n \in Nat, NEW m \in Nat, NEW f \in [1 .. n + m -> Seq(S)]
    PROVE  FlattenSeq(f) = FlattenSeq([i \in 1 .. n |-> f[i]]) \o FlattenSeq([i \in 1 .. m |-> f[n + i]])
<1> DEFINE Beginning(g) == [i \in 1 .. n |-> g[i]]
           Back(g, k) == [i \in 1 .. k |-> g[n + i]]
           Splits(g, k) == FlattenSeq(g) = FlattenSeq(Beginning(g)) \o FlattenSeq(Back(g, k))
           T == {k \in Nat : \A g \in [1 .. n + k -> Seq(S)] : Splits(g, k)}
<1>1. ASSUME NEW k \in Nat, NEW g \in [1 .. n + k -> Seq(S)]
      PROVE  /\ Beginning(g) \in Seq(Seq(S)) /\ Back(g, k) \in Seq(Seq(S))
             /\ FlattenSeq(Beginning(g)) \in Seq(S) /\ FlattenSeq(Back(g, k)) \in Seq(S)
  <2>1. Beginning(g) \in [1 .. n -> Seq(S)] /\ Back(g, k) \in [1 .. k -> Seq(S)]
    OBVIOUS
  <2>2. Beginning(g) \in Seq(Seq(S)) /\ Back(g, k) \in Seq(Seq(S))
    BY <2>1
  <2> QED BY <2>2, FlattenType
<1>2. 0 \in T
  <2> SUFFICES ASSUME NEW g \in [1 .. n + 0 -> Seq(S)] PROVE Splits(g, 0)
    OBVIOUS
  <2>1. Beginning(g) = g
    OBVIOUS
  <2>2. FlattenSeq(Back(g, 0)) = <<>>
    BY DEF FlattenSeq
  <2>3. FlattenSeq(Beginning(g)) \in Seq(S)
    BY <1>1
  <2> HIDE DEF Beginning, Back
  <2>4. FlattenSeq(Beginning(g)) \o <<>> = FlattenSeq(Beginning(g))
    BY <2>3
  <2> QED BY <2>1, <2>2, <2>4
<1>3. ASSUME NEW k \in Nat, k \in T PROVE k + 1 \in T
  <2> HIDE DEF Splits
  <2> SUFFICES ASSUME NEW g \in [1 .. n + (k + 1) -> Seq(S)] PROVE Splits(g, k + 1)
    OBVIOUS
  <2> DEFINE c == [i \in 1 .. n + k |-> g[i]]
             b == Back(g, k + 1)
  <2>1. c \in [1 .. n + k -> Seq(S)] /\ b \in [1 .. k + 1 -> Seq(S)] /\ g \in [1 .. (n + k) + 1 -> Seq(S)]
    OBVIOUS
  <2>2. FlattenSeq(g) = FlattenSeq(c) \o g[(n + k) + 1]
    <3>1. n + k \in Nat
        OBVIOUS
    <3> HIDE DEF b
    <3> QED BY <3>1, <2>1, FlattenOneMore
  <2>3. FlattenSeq(b) = FlattenSeq([i \in 1 .. k |-> b[i]]) \o b[k + 1]
    BY <2>1, FlattenOneMore
  <2>4. Beginning(c) = Beginning(g) /\ Back(c, k) = [i \in 1 .. k |-> b[i]] /\ b[k + 1] = g[(n + k) + 1]
    OBVIOUS
  <2>5. Splits(c, k)
    BY <1>3, <2>1
  <2>6. FlattenSeq(Beginning(c)) \in Seq(S) /\ FlattenSeq(Back(c, k)) \in Seq(S)
    BY <1>1, <2>1
  <2>7. b[k + 1] \in Seq(S)
    BY <2>1
  <2> HIDE DEF c, b, Beginning, Back
  <2>8. FlattenSeq(g) = (FlattenSeq(Beginning(c)) \o FlattenSeq(Back(c, k))) \o b[k + 1]
    BY <2>2, <2>4, <2>5 DEF Splits
  <2>9. FlattenSeq(g) = FlattenSeq(Beginning(c)) \o (FlattenSeq(Back(c, k)) \o b[k + 1])
    <3>1. \A x, y, z \in Seq(S) : (x \o y) \o z = x \o (y \o z)
        BY ConcatAssociative
    <3> QED BY <3>1, <2>8, <2>6, <2>7, Zenon
  <2>10. FlattenSeq(Back(c, k)) \o b[k + 1] = FlattenSeq(b)
    BY <2>3, <2>4
  <2>11. FlattenSeq(g) = FlattenSeq(Beginning(g)) \o FlattenSeq(b)
    BY <2>9, <2>10, <2>4
  <2> QED BY <2>11 DEF b, Splits
<1>4. Nat \subseteq T
  <2> HIDE DEF T
  <2> QED BY <1>2, <1>3, NatSetInduction
<1>5. m \in T
    BY <1>4
<1> QED BY <1>5

LEMMA FlattenOfEmpties ==
    ASSUME NEW n \in Nat, NEW f \in [1 .. n -> {<<>>}]
    PROVE  FlattenSeq(f) = <<>>
<1> DEFINE T == {k \in Nat : \A g \in [1 .. k -> {<<>>}] : FlattenSeq(g) = <<>>}
<1>1. 0 \in T
    BY DEF FlattenSeq
<1>2. ASSUME NEW k \in Nat, k \in T PROVE k + 1 \in T
  <2> SUFFICES ASSUME NEW g \in [1 .. k + 1 -> {<<>>}] PROVE FlattenSeq(g) = <<>>
    OBVIOUS
  <2> DEFINE c == [i \in 1 .. k |-> g[i]]
  <2>1. c \in [1 .. k -> {<<>>}] /\ g[k + 1] = <<>>
    <3>1. k + 1 \in 1 .. k + 1 /\ \A i \in 1 .. k : i \in 1 .. k + 1
        OBVIOUS
    <3>2. \A i \in 1 .. k + 1 : g[i] = <<>>
        OBVIOUS
    <3> QED BY <3>1, <3>2
  <2>4. g \in [1 .. k + 1 -> Seq({})]
    <3>1. <<>> \in Seq({})
        OBVIOUS
    <3> QED BY <3>1
  <2>2. FlattenSeq(g) = FlattenSeq(c) \o g[k + 1]
    BY <2>4, FlattenOneMore
  <2>3. FlattenSeq(c) = <<>>
    BY <1>2, <2>1
  <2> QED BY <2>1, <2>2, <2>3
<1>3. Nat \subseteq T
  <2> HIDE DEF T
  <2> QED BY <1>1, <1>2, NatSetInduction
<1>4. n \in T
    BY <1>3
<1> QED BY <1>4

\* Flattening the concatenation of two sequences of sequences.
LEMMA FlattenConcat ==
    ASSUME NEW S, NEW s \in Seq(Seq(S)), NEW t \in Seq(Seq(S))
    PROVE  FlattenSeq(s \o t) = FlattenSeq(s) \o FlattenSeq(t)
<1> DEFINE n == Len(s)
           m == Len(t)
           f == s \o t
<1>1. /\ n \in Nat /\ m \in Nat
      /\ f \in Seq(Seq(S)) /\ Len(f) = n + m
      /\ \A i \in 1 .. n + m : f[i] = IF i <= n THEN s[i] ELSE t[i - n]
    BY ConcatProperties
<1> HIDE DEF f
<1>2. f \in [1 .. n + m -> Seq(S)]
    BY <1>1
<1>3. FlattenSeq(f) = FlattenSeq([i \in 1 .. n |-> f[i]]) \o FlattenSeq([i \in 1 .. m |-> f[n + i]])
  <2> HIDE DEF n, m
  <2>1. \A g \in [1 .. n + m -> Seq(S)] :
            FlattenSeq(g) = FlattenSeq([i \in 1 .. n |-> g[i]]) \o FlattenSeq([i \in 1 .. m |-> g[n + i]])
    BY <1>1, FlattenSplit
  <2> QED BY <1>2, <2>1, Zenon
<1>4. [i \in 1 .. n |-> f[i]] = s
  <2>1. \A i \in 1 .. n : f[i] = s[i]
    BY <1>1
  <2> QED BY <2>1
<1>5. [i \in 1 .. m |-> f[n + i]] = t
  <2>1. ASSUME NEW i \in 1 .. m PROVE f[n + i] = t[i]
    <3>1. n + i \in 1 .. n + m /\ ~(n + i <= n) /\ (n + i) - n = i
        BY <1>1
    <3>2. f[n + i] = t[(n + i) - n]
        BY <1>1, <3>1
    <3> QED BY <3>1, <3>2
  <2> QED BY <2>1
<1> QED BY <1>3, <1>4, <1>5 DEF f

LEMMA FlattenOne == ASSUME NEW S, NEW s \in Seq(S) PROVE FlattenSeq(<<s>>) = s
<1>1. FlattenSeq(<<s>>) = FlattenSeq([i \in 1 .. 0 |-> <<s>>[i]]) \o <<s>>[0 + 1]
  <2>1. <<s>> \in [1 .. 0 + 1 -> Seq(S)]
    OBVIOUS
  <2>2. \A f \in [1 .. 0 + 1 -> Seq(S)] :
            FlattenSeq(f) = FlattenSeq([i \in 1 .. 0 |-> f[i]]) \o f[0 + 1]
    BY FlattenOneMore
  <2> QED BY <2>1, <2>2, Zenon
<1>2. [i \in 1 .. 0 |-> <<s>>[i]] = <<>>
    OBVIOUS
<1>3. FlattenSeq(<<>>) = <<>>
    BY DEF FlattenSeq
<1> QED BY <1>1, <1>2, <1>3

\* Taking a sequence apart and flattening the pieces.
LEMMA FlattenSingles ==
    ASSUME NEW S, NEW s \in Seq(S)
    PROVE  FlattenSeq([i \in 1 .. Len(s) |-> <<s[i]>>]) = s
<1> DEFINE P(n) == FlattenSeq([i \in 1 .. n |-> <<s[i]>>])
           T == {n \in Nat : n <= Len(s) => P(n) = SubSeq(s, 1, n)}
<1> HIDE DEF P
<1>1. 0 \in T
  <2>1. [i \in 1 .. 0 |-> <<s[i]>>] = <<>> /\ SubSeq(s, 1, 0) = <<>>
    OBVIOUS
  <2>2. FlattenSeq(<<>>) = <<>>
    BY DEF FlattenSeq
  <2> QED BY <2>1, <2>2 DEF P
<1>2. ASSUME NEW n \in Nat, n \in T PROVE n + 1 \in T
  <2> SUFFICES ASSUME n + 1 <= Len(s) PROVE P(n + 1) = SubSeq(s, 1, n + 1)
    OBVIOUS
  <2> DEFINE f == [i \in 1 .. n + 1 |-> <<s[i]>>]
  <2>1. f \in [1 .. n + 1 -> Seq(S)]
    OBVIOUS
  <2>2. FlattenSeq(f) = FlattenSeq([i \in 1 .. n |-> f[i]]) \o f[n + 1]
    <3> HIDE DEF f
    <3> QED BY <2>1, FlattenOneMore
  <2>3. [i \in 1 .. n |-> f[i]] = [i \in 1 .. n |-> <<s[i]>>] /\ f[n + 1] = <<s[n + 1]>>
    OBVIOUS
  <2>4. P(n) = SubSeq(s, 1, n)
    BY <1>2
  <2>5. SubSeq(s, 1, n) \o <<s[n + 1]>> = SubSeq(s, 1, n + 1)
    OBVIOUS
  <2>6. P(n + 1) = FlattenSeq(f)
    BY DEF P
  <2> HIDE DEF f
  <2> QED BY <2>2, <2>3, <2>4, <2>5, <2>6 DEF P
<1>3. Nat \subseteq T
  <2> HIDE DEF T
  <2> QED BY <1>1, <1>2, NatSetInduction
<1>4. Len(s) \in T
    BY <1>3
<1>5. SubSeq(s, 1, Len(s)) = s
    OBVIOUS
<1> QED BY <1>4, <1>5 DEF P

\* A text cut inside the first of its two parts.
LEMMA CutOfConcat ==
    ASSUME NEW S, NEW b \in Seq(S), NEW u \in Seq(S), NEW c \in 0 .. Len(b)
    PROVE  /\ SubSeq(b \o u, 1, c) = SubSeq(b, 1, c)
           /\ SubSeq(b \o u, c + 1, Len(b \o u)) = SubSeq(b, c + 1, Len(b)) \o u
<1> DEFINE t == b \o u
           x == SubSeq(t, c + 1, Len(t))
           y == SubSeq(b, c + 1, Len(b)) \o u
<1>1. /\ t \in Seq(S) /\ Len(t) = Len(b) + Len(u)
      /\ \A k \in 1 .. Len(b) : t[k] = b[k]
      /\ \A k \in Len(b) + 1 .. Len(b) + Len(u) : t[k] = u[k - Len(b)]
    OBVIOUS
<1>2. SubSeq(t, 1, c) = SubSeq(b, 1, c)
  <2> HIDE DEF t
  <2> QED BY <1>1
<1>3. /\ y \in Seq(S) /\ Len(y) = Len(t) - c
      /\ \A k \in 1 .. Len(b) - c : y[k] = b[c + k]
      /\ \A k \in (Len(b) - c) + 1 .. Len(t) - c : y[k] = u[k - (Len(b) - c)]
    OBVIOUS
<1> HIDE DEF t, y
<1>4. /\ x \in Seq(S) /\ Len(x) = Len(t) - c
      /\ \A k \in 1 .. Len(t) - c : x[k] = t[c + k]
  <2>1. c \in Nat /\ Len(t) \in Nat /\ c <= Len(t)
    BY <1>1
  <2> HIDE DEF x
  <2>2. c + 1 \in 1 .. Len(t) + 1 /\ Len(t) \in c .. Len(t)
    BY <2>1
  <2> QED BY <1>1, <2>1, <2>2, SubSeqProperties DEF x
<1> HIDE DEF x
<1>5. ASSUME NEW k \in 1 .. Len(t) - c PROVE x[k] = y[k]
  <2>1. CASE k <= Len(b) - c
    BY <1>1, <1>3, <1>4, <2>1
  <2>2. CASE k > Len(b) - c
    <3>1. c + k \in Len(b) + 1 .. Len(b) + Len(u) /\ (c + k) - Len(b) = k - (Len(b) - c)
        BY <1>1, <2>2
    <3> QED BY <1>1, <1>3, <1>4, <2>2, <3>1
  <2> QED BY <2>1, <2>2
<1>6. x = y
    BY <1>3, <1>4, <1>5, SeqEqual
<1> QED BY <1>2, <1>6 DEF t, x, y

LEMMA PartsOfConcat ==
    ASSUME NEW S, NEW b \in Seq(S), NEW u \in Seq(S)
    PROVE  /\ SubSeq(b \o u, 1, Len(b)) = b
           /\ SubSeq(b \o u, Len(b) + 1, Len(b \o u)) = u
<1>1. Len(b) \in 0 .. Len(b) /\ SubSeq(b, 1, Len(b)) = b /\ SubSeq(b, Len(b) + 1, Len(b)) = <<>>
    OBVIOUS
<1>2. <<>> \o u = u
    OBVIOUS
<1> QED BY <1>1, <1>2, CutOfConcat
=============================================================================
