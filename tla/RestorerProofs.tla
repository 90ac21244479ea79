--------------------------- MODULE RestorerProofs ---------------------------
(***************************************************************************)
(* For every set of placeholders: a body cut into chunks in any way, an    *)
(* event stream cut into fragments in any way, a websocket connection      *)
(* whose messages are cut into frames in any way, and an HTTP exchange     *)
(* whose body is framed and read in pieces in any way.  What is held back  *)
(* is bounded, the cuts of a body cannot be seen, and the chunk restorer   *)
(* implements RestoredStream; an event stream loses nothing, and its cuts  *)
(* cannot be seen but for those behind the first byte of a placeholder; a  *)
(* relay sends each message on once and whole, and loses nothing of an     *)
(* answer between its messages, from one registration of a secret to the   *)
(* next; and an exchange frames what it forwards such that either side     *)
(* reads it whole, sanitized or restored, or knows that it is not whole.   *)
(***************************************************************************)
EXTENDS ResponseRestorer, SseRestorer, WebSocketRelay, HttpExchange, SequenceLemmas

-----------------------------------------------------------------------------
\* Placeholders in a text

LEMMA PatternType == ASSUME NEW p \in Patterns PROVE p \in Seq(Byte) /\ Len(p) \in Nat \ {0}
<1>1. p \in Seq(Byte) /\ p # <<>>
    BY PatternsAssumption
<1> QED BY <1>1

LEMMA SecretType == ASSUME NEW p \in Patterns PROVE SecretOf(p) \in Seq(Symbol)
<1>1. SecretOf(p) \in Seq(Range(SecretOf(p)))
    BY RegistryAssumption
<1>2. Range(SecretOf(p)) \subseteq Symbol
    BY DEF Symbol
<1> QED BY <1>1, <1>2, SeqMonotonic

LEMMA CarryLenBound == CarryLen \in Nat /\ \A p \in Patterns : Len(p) - 1 <= CarryLen
<1>1. CASE Patterns = {}
    BY <1>1 DEF CarryLen
<1>2. CASE Patterns # {}
  <2> DEFINE S == {Len(p) : p \in Patterns}
  <2>1. S \in SUBSET Nat /\ S # {} /\ \A x \in S : x >= 1
    BY <1>2, PatternType
  <2>2. IsFiniteSet(S)
    <3>1. [p \in Patterns |-> Len(p)] \in Surjection(Patterns, S)
        BY DEF Surjection
    <3> QED BY <3>1, FS_Surjection, RegistryAssumption
  <2>3. PICK b \in Nat : \A x \in S : x <= b
    BY <2>1, <2>2, FiniteIsBounded
  <2> HIDE DEF S
  <2>4. Max(S) \in S /\ \A y \in S : Max(S) >= y
    BY <2>1, <2>3, MaxIsGreatest
  <2>5. CarryLen = Max(S) - 1
    BY <1>2 DEF CarryLen, S
  <2>6. \A p \in Patterns : Len(p) \in S
    BY DEF S
  <2>7. Max(S) \in Nat /\ Max(S) >= 1
    BY <2>1, <2>4
  <2>8. CarryLen \in Nat
    BY <2>5, <2>7
  <2>9. ASSUME NEW p \in Patterns PROVE Len(p) - 1 <= CarryLen
    <3>1. Len(p) \in Nat /\ Max(S) >= Len(p)
        BY <2>1, <2>4, <2>6, PatternType
    <3> QED BY <3>1, <2>5, <2>7
  <2> QED BY <2>8, <2>9
<1> QED BY <1>1, <1>2

\* Where a placeholder stands, byte by byte.
LEMMA AtBytewise ==
    ASSUME NEW b \in Seq(Byte), NEW i \in Nat \ {0}, NEW p \in Patterns
    PROVE  p \in At(b, i) <=> /\ i + Len(p) - 1 <= Len(b)
                              /\ \A k \in 1 .. Len(p) : b[i + k - 1] = p[k]
<1>1. p \in Seq(Byte) /\ Len(p) \in Nat \ {0}
    BY PatternType
<1>2. SUFFICES ASSUME i + Len(p) - 1 <= Len(b)
               PROVE  SubSeq(b, i, i + Len(p) - 1) = p
                        <=> \A k \in 1 .. Len(p) : b[i + k - 1] = p[k]
    BY DEF At
<1>3. /\ SubSeq(b, i, i + Len(p) - 1) \in Seq(Byte)
      /\ Len(SubSeq(b, i, i + Len(p) - 1)) = Len(p)
      /\ \A k \in 1 .. Len(p) : SubSeq(b, i, i + Len(p) - 1)[k] = b[i + k - 1]
    BY <1>1, <1>2
<1> QED BY <1>1, <1>3, SeqEqual

\* Placeholders do not overlap: none starts behind the first byte of another.
LEMMA PlaceholdersAreApart ==
    ASSUME NEW b \in Seq(Byte), NEW i \in Nat \ {0}, NEW p \in At(b, i),
           NEW j \in Nat, i < j, j < i + Len(p)
    PROVE  At(b, j) = {}
<1> SUFFICES ASSUME NEW q \in At(b, j) PROVE FALSE
    OBVIOUS
<1>1. p \in Patterns /\ q \in Patterns
    BY DEF At
<1>2. /\ p \in Seq(Byte) /\ Len(p) \in Nat \ {0}
      /\ q \in Seq(Byte) /\ Len(q) \in Nat \ {0}
    BY <1>1, PatternType
<1>3. /\ \A k \in 1 .. Len(p) : b[i + k - 1] = p[k]
      /\ \A k \in 1 .. Len(q) : b[j + k - 1] = q[k]
    BY <1>1, AtBytewise
<1> DEFINE d == j - i
           t == SubSeq(p, d + 1, Len(p))
<1>4. d \in 1 .. Len(p) - 1
    BY <1>2
<1>5. t \in Seq(Byte) /\ Len(t) = Len(p) - d /\ \A k \in 1 .. Len(p) - d : t[k] = p[d + k]
    BY <1>2, <1>4
<1> HIDE DEF t
<1>6. ASSUME NEW k \in 1 .. Len(p) - d, k <= Len(q) PROVE t[k] = q[k]
  <2>1. i + (d + k) - 1 = j + k - 1 /\ d + k \in 1 .. Len(p) /\ k \in 1 .. Len(q)
    BY <1>2, <1>4, <1>6
  <2>2. b[i + (d + k) - 1] = p[d + k] /\ b[j + k - 1] = q[k]
    BY <1>3, <2>1
  <2> QED BY <1>5, <2>1, <2>2
<1>7. CASE Len(t) <= Len(q)
  <2>1. SubSeq(t, 1, Len(t)) = SubSeq(q, 1, Len(t))
    BY <1>2, <1>4, <1>5, <1>6, <1>7
  <2>2. IsPrefix(t, q)
    BY <1>7, <2>1 DEF IsPrefix
  <2> QED BY <1>1, <1>4, <2>2, PatternsAssumption DEF t
<1>8. CASE Len(q) <= Len(t)
  <2>1. SubSeq(t, 1, Len(q)) = SubSeq(q, 1, Len(q))
    BY <1>2, <1>4, <1>5, <1>6, <1>8
  <2>2. IsPrefix(q, t)
    BY <1>8, <2>1 DEF IsPrefix
  <2> QED BY <1>1, <1>4, <2>2, PatternsAssumption DEF t
<1> QED BY <1>2, <1>4, <1>5, <1>7, <1>8

-----------------------------------------------------------------------------
\* Cutting a text

\* No placeholder stands across the end of the first c bytes.
CutsCleanly(b, c) == \A j \in 1 .. c : \A p \in At(b, j) : j + Len(p) - 1 <= c

LEMMA AtInFront ==
    ASSUME NEW b \in Seq(Byte), NEW c \in 0 .. Len(b), CutsCleanly(b, c), NEW i \in 1 .. c
    PROVE  At(SubSeq(b, 1, c), i) = At(b, i)
<1> DEFINE f == SubSeq(b, 1, c)
<1>1. f \in Seq(Byte) /\ Len(f) = c /\ \A k \in 1 .. c : f[k] = b[k]
    OBVIOUS
<1>2. ASSUME NEW p \in Patterns PROVE p \in At(f, i) <=> p \in At(b, i)
  <2>1. Len(p) \in Nat \ {0}
    BY PatternType
  <2>2. p \in At(b, i) => i + Len(p) - 1 <= c
    BY DEF CutsCleanly
  <2> HIDE DEF f
  <2>3. p \in At(f, i) <=> i + Len(p) - 1 <= c /\ \A k \in 1 .. Len(p) : f[i + k - 1] = p[k]
    <3>1. i \in Nat \ {0}
        OBVIOUS
    <3> QED BY <1>1, <3>1, AtBytewise
  <2>4. p \in At(b, i) <=> i + Len(p) - 1 <= Len(b) /\ \A k \in 1 .. Len(p) : b[i + k - 1] = p[k]
    <3>1. i \in Nat \ {0}
        OBVIOUS
    <3> QED BY <3>1, AtBytewise, Zenon
  <2>5. i + Len(p) - 1 <= c =>
            i + Len(p) - 1 <= Len(b) /\ \A k \in 1 .. Len(p) : f[i + k - 1] = b[i + k - 1]
    BY <1>1, <2>1
  <2> QED BY <2>2, <2>3, <2>4, <2>5
<1> QED BY <1>2 DEF At

LEMMA AtBehind ==
    ASSUME NEW b \in Seq(Byte), NEW c \in 0 .. Len(b), NEW i \in 1 .. Len(b) - c
    PROVE  At(SubSeq(b, c + 1, Len(b)), i) = At(b, c + i)
<1> DEFINE f == SubSeq(b, c + 1, Len(b))
<1>1. f \in Seq(Byte) /\ Len(f) = Len(b) - c /\ \A k \in 1 .. Len(b) - c : f[k] = b[c + k]
    OBVIOUS
<1>2. ASSUME NEW p \in Patterns PROVE p \in At(f, i) <=> p \in At(b, c + i)
  <2>1. Len(p) \in Nat \ {0}
    BY PatternType
  <2> HIDE DEF f
  <2>2. p \in At(f, i) <=>
            i + Len(p) - 1 <= Len(b) - c /\ \A k \in 1 .. Len(p) : f[i + k - 1] = p[k]
    <3>1. i \in Nat \ {0} /\ f \in Seq(Byte) /\ Len(f) = Len(b) - c
        BY <1>1
    <3>2. p \in At(f, i) <=>
            i + Len(p) - 1 <= Len(f) /\ \A k \in 1 .. Len(p) : f[i + k - 1] = p[k]
        BY <3>1, AtBytewise
    <3> QED BY <3>1, <3>2
  <2>3. p \in At(b, c + i) <=>
            (c + i) + Len(p) - 1 <= Len(b) /\ \A k \in 1 .. Len(p) : b[(c + i) + k - 1] = p[k]
    <3>1. c + i \in Nat \ {0}
        OBVIOUS
    <3> QED BY <3>1, AtBytewise
  <2>4. i + Len(p) - 1 <= Len(b) - c <=> (c + i) + Len(p) - 1 <= Len(b)
    BY <2>1
  <2>5. i + Len(p) - 1 <= Len(b) - c =>
            \A k \in 1 .. Len(p) : f[i + k - 1] = b[(c + i) + k - 1]
    <3> SUFFICES ASSUME i + Len(p) - 1 <= Len(b) - c, NEW k \in 1 .. Len(p)
                 PROVE  f[i + k - 1] = b[(c + i) + k - 1]
        OBVIOUS
    <3>1. i + k - 1 \in 1 .. Len(b) - c /\ c + (i + k - 1) = (c + i) + k - 1
        BY <2>1
    <3> QED BY <1>1, <3>1
  <2> QED BY <2>2, <2>3, <2>4, <2>5
<1> QED BY <1>2 DEF At

LEMMA RenderedInFront ==
    ASSUME NEW b \in Seq(Byte), NEW c \in 0 .. Len(b), CutsCleanly(b, c), NEW i \in 1 .. c
    PROVE  Rendered(SubSeq(b, 1, c), i) = Rendered(b, i)
<1> DEFINE f == SubSeq(b, 1, c)
<1>1. \A j \in 1 .. c : At(f, j) = At(b, j)
    BY AtInFront
<1>2. f[i] = b[i]
    OBVIOUS
<1> HIDE DEF f
<1>3. Inside(f, i) <=> Inside(b, i)
    BY <1>1 DEF Inside
<1>4. At(f, i) = At(b, i)
    BY <1>1
<1>5. Rendered(f, i) = Rendered(b, i)
    BY <1>2, <1>3, <1>4 DEF Rendered
<1> QED BY <1>5 DEF f

LEMMA RenderedBehind ==
    ASSUME NEW b \in Seq(Byte), NEW c \in 0 .. Len(b), CutsCleanly(b, c), NEW i \in 1 .. Len(b) - c
    PROVE  Rendered(SubSeq(b, c + 1, Len(b)), i) = Rendered(b, c + i)
<1> DEFINE f == SubSeq(b, c + 1, Len(b))
<1>1. \A j \in 1 .. Len(b) - c : At(f, j) = At(b, c + j)
    BY AtBehind
<1>2. \A j \in Nat : \A p \in At(b, j) : Len(p) \in Nat
    BY PatternType DEF At
<1>3. ASSUME Inside(f, i) PROVE Inside(b, c + i)
  <2>1. PICK j \in 1 .. i - 1 : \E p \in At(f, j) : i < j + Len(p)
    BY <1>3 DEF Inside
  <2>2. PICK p \in At(f, j) : i < j + Len(p)
    BY <2>1
  <2>3. p \in At(b, c + j) /\ c + j \in 1 .. (c + i) - 1
    BY <1>1, <2>2
  <2>4. c + i < (c + j) + Len(p)
    BY <2>2, <2>3, <1>2
  <2> QED BY <2>3, <2>4 DEF Inside
<1>4. ASSUME Inside(b, c + i) PROVE Inside(f, i)
  <2>1. PICK j \in 1 .. (c + i) - 1 : \E p \in At(b, j) : c + i < j + Len(p)
    BY <1>4 DEF Inside
  <2>2. PICK p \in At(b, j) : c + i < j + Len(p)
    BY <2>1
  <2>3. Len(p) \in Nat
    BY <1>2
  <2>4. j > c
    BY <2>2, <2>3 DEF CutsCleanly
  <2>5. j - c \in 1 .. i - 1 /\ c + (j - c) = j /\ i < (j - c) + Len(p)
    BY <2>2, <2>3, <2>4
  <2>6. p \in At(f, j - c)
    BY <1>1, <2>2, <2>5
  <2> QED BY <2>5, <2>6 DEF Inside
<1>5. f[i] = b[c + i]
    OBVIOUS
<1>6. At(f, i) = At(b, c + i)
    BY <1>1
<1> HIDE DEF f
<1>7. Rendered(f, i) = Rendered(b, c + i)
    BY <1>3, <1>4, <1>5, <1>6 DEF Rendered
<1> QED BY <1>7 DEF f

LEMMA RenderedType ==
    ASSUME NEW b \in Seq(Byte), NEW i \in 1 .. Len(b)
    PROVE  Rendered(b, i) \in Seq(Symbol)
<1>1. CASE At(b, i) # {}
  <2>1. (CHOOSE p \in At(b, i) : TRUE) \in Patterns
    BY <1>1 DEF At
  <2> QED BY <1>1, <2>1, SecretType DEF Rendered
<1>2. CASE At(b, i) = {}
  <2>1. b[i] \in Symbol
    BY DEF Symbol
  <2> QED BY <1>2, <2>1 DEF Rendered
<1> QED BY <1>1, <1>2

LEMMA RestoreType ==
    ASSUME NEW b \in Seq(Byte), NEW n \in 0 .. Len(b)
    PROVE  RenderedUpTo(b, n) \in Seq(Symbol)
<1>1. [i \in 1 .. n |-> Rendered(b, i)] \in [1 .. n -> Seq(Symbol)]
    BY RenderedType
<1>2. [i \in 1 .. n |-> Rendered(b, i)] \in Seq(Seq(Symbol))
    BY <1>1
<1> QED BY <1>2, FlattenType DEF RenderedUpTo

LEMMA RestoreWholeType == ASSUME NEW b \in Seq(Byte) PROVE Restore(b) \in Seq(Symbol)
<1>1. Len(b) \in 0 .. Len(b)
    OBVIOUS
<1> QED BY <1>1, RestoreType DEF Restore

\* A text may be restored in two pieces wherever no placeholder stands across the cut.
LEMMA RestoreSplits ==
    ASSUME NEW b \in Seq(Byte), NEW c \in 0 .. Len(b), CutsCleanly(b, c)
    PROVE  Restore(b) = Restore(SubSeq(b, 1, c)) \o Restore(SubSeq(b, c + 1, Len(b)))
<1> DEFINE m == Len(b) - c
           f == [i \in 1 .. c + m |-> Rendered(b, i)]
           front == SubSeq(b, 1, c)
           behind == SubSeq(b, c + 1, Len(b))
<1>1. m \in Nat /\ c + m = Len(b) /\ Len(front) = c /\ Len(behind) = m
    OBVIOUS
<1>2. f \in [1 .. c + m -> Seq(Symbol)]
    BY <1>1, RenderedType
<1>3. FlattenSeq(f) = FlattenSeq([i \in 1 .. c |-> f[i]]) \o FlattenSeq([i \in 1 .. m |-> f[c + i]])
  <2>1. c \in Nat
    OBVIOUS
  <2>2. m \in Nat
    BY <1>1
  <2> HIDE DEF f, m, front, behind
  <2>3. \A g \in [1 .. c + m -> Seq(Symbol)] :
            FlattenSeq(g) = FlattenSeq([i \in 1 .. c |-> g[i]]) \o FlattenSeq([i \in 1 .. m |-> g[c + i]])
    BY <2>1, <2>2, FlattenSplit
  <2> QED BY <1>2, <2>3
<1>4. [i \in 1 .. c |-> f[i]] = [i \in 1 .. Len(front) |-> Rendered(front, i)]
  <2>1. \A i \in 1 .. c : f[i] = Rendered(b, i) /\ Rendered(b, i) = Rendered(front, i)
    BY RenderedInFront
  <2> HIDE DEF f, front
  <2> QED BY <1>1, <2>1
<1>5. [i \in 1 .. m |-> f[c + i]] = [i \in 1 .. Len(behind) |-> Rendered(behind, i)]
  <2>1. ASSUME NEW i \in 1 .. m PROVE f[c + i] = Rendered(b, c + i)
    <3>1. c + i \in 1 .. c + m
      <4> HIDE DEF m, f, front, behind
      <4> QED BY <1>1
    <3> QED BY <3>1
  <2>2. \A i \in 1 .. m : Rendered(b, c + i) = Rendered(behind, i)
    BY RenderedBehind
  <2> HIDE DEF f, behind
  <2> QED BY <1>1, <2>1, <2>2
<1>6. FlattenSeq(f) = Restore(b)
    BY <1>1 DEF Restore, RenderedUpTo
<1> QED BY <1>3, <1>4, <1>5, <1>6 DEF Restore, RenderedUpTo

-----------------------------------------------------------------------------
\* process_until

LEMMA SafeEndBounds ==
    ASSUME NEW b \in Seq(Byte)
    PROVE  /\ SafeEnd(b) \in 0 .. Len(b)
           /\ Len(b) - SafeEnd(b) <= CarryLen
           /\ SafeEnd(b) > 0 => SafeEnd(b) + CarryLen = Len(b)
<1>1. CarryLen \in Nat /\ Len(b) \in Nat
    BY CarryLenBound
<1> QED BY <1>1 DEF SafeEnd

\* commit_until lies between safe_end and the end of the buffer, and no placeholder that
\* starts before safe_end reaches beyond it.
LEMMA CommitUntilBounds ==
    ASSUME NEW b \in Seq(Byte), NEW s \in 0 .. Len(b)
    PROVE  /\ CommitUntil(b, s) \in s .. Len(b)
           /\ \A j \in 1 .. s : \A p \in At(b, j) : j + Len(p) - 1 <= CommitUntil(b, s)
           /\ CommitUntil(b, s) # s =>
                \E j \in 1 .. s : \E p \in At(b, j) : CommitUntil(b, s) = j + Len(p) - 1
<1> DEFINE Ends == UNION {{j + Len(p) - 1 : p \in At(b, j)} : j \in 1 .. s}
           S == {s} \cup Ends
<1>1. ASSUME NEW j \in 1 .. s, NEW p \in At(b, j)
      PROVE  j + Len(p) - 1 \in Nat /\ j + Len(p) - 1 <= Len(b)
  <2>1. Len(p) \in Nat \ {0} /\ j + Len(p) - 1 <= Len(b)
    BY PatternType DEF At
  <2> QED BY <2>1
<1>2. \A e \in Ends : \E j \in 1 .. s : \E p \in At(b, j) : e = j + Len(p) - 1
    OBVIOUS
<1>3. \A j \in 1 .. s : \A p \in At(b, j) : j + Len(p) - 1 \in Ends
    OBVIOUS
<1> HIDE DEF Ends
<1>4. Ends \subseteq Nat /\ \A e \in Ends : e <= Len(b)
    BY <1>1, <1>2
<1>5. S \in SUBSET Nat /\ S # {} /\ \A x \in S : x <= Len(b)
    BY <1>4
<1>6. Len(b) \in Nat
    OBVIOUS
<1>7. Max(S) \in S /\ \A y \in S : Max(S) >= y
  <2> HIDE DEF S
  <2> QED BY <1>5, <1>6, MaxIsGreatest
<1>8. CommitUntil(b, s) = Max(S)
    BY DEF CommitUntil, Ends
<1> DEFINE c == CommitUntil(b, s)
<1>9. c \in S /\ \A y \in S : c >= y
    BY <1>7, <1>8
<1> HIDE DEF c
<1>10. c \in s .. Len(b)
  <2>1. c \in Nat /\ c <= Len(b) /\ c >= s
    BY <1>5, <1>9
  <2> QED BY <2>1
<1>11. \A j \in 1 .. s : \A p \in At(b, j) : j + Len(p) - 1 <= c
  <2> SUFFICES ASSUME NEW j \in 1 .. s, NEW p \in At(b, j) PROVE j + Len(p) - 1 <= c
    OBVIOUS
  <2>1. c >= j + Len(p) - 1
    BY <1>3, <1>9
  <2>2. c \in Nat /\ j + Len(p) - 1 \in Nat
    BY <1>1, <1>10
  <2> QED BY <2>1, <2>2
<1>12. c # s => \E j \in 1 .. s : \E p \in At(b, j) : c = j + Len(p) - 1
    BY <1>2, <1>9
<1> QED BY <1>10, <1>11, <1>12 DEF c

\* Of a text that starts with b, what process_until commits up to safe_end can be cut off
\* without cutting a placeholder, provided that those that start before safe_end end in b.
LEMMA CommitCutsCleanly ==
    ASSUME NEW b \in Seq(Byte), NEW u \in Seq(Byte), NEW s \in 0 .. Len(b),
           \A p \in Patterns : \A j \in 1 .. s : u = <<>> \/ j + Len(p) - 1 <= Len(b)
    PROVE  CutsCleanly(b \o u, CommitUntil(b, s))
<1> DEFINE c == CommitUntil(b, s)
           t == b \o u
<1>1. /\ t \in Seq(Byte) /\ Len(t) = Len(b) + Len(u)
      /\ \A k \in 1 .. Len(b) : t[k] = b[k]
    OBVIOUS
<1>2. c \in s .. Len(b)
    BY CommitUntilBounds
<1>3. u = <<>> => t = b
    OBVIOUS
<1> HIDE DEF t
<1>4. ASSUME NEW j \in 1 .. s, NEW p \in Patterns
      PROVE  p \in At(t, j) <=> p \in At(b, j)
  <2>1. Len(p) \in Nat \ {0} /\ j \in Nat \ {0}
    BY PatternType
  <2>2. CASE u = <<>>
    BY <1>3, <2>2
  <2>3. CASE j + Len(p) - 1 <= Len(b)
    <3>1. \A k \in 1 .. Len(p) : j + k - 1 \in 1 .. Len(b)
        BY <2>1, <2>3
    <3>2. \A k \in 1 .. Len(p) : t[j + k - 1] = b[j + k - 1]
        BY <1>1, <3>1
    <3>3. j + Len(p) - 1 <= Len(t)
        BY <1>1, <2>1, <2>3
    <3>4. p \in At(t, j) <=> \A k \in 1 .. Len(p) : t[j + k - 1] = p[k]
      <4>1. p \in At(t, j) <=> /\ j + Len(p) - 1 <= Len(t)
                               /\ \A k \in 1 .. Len(p) : t[j + k - 1] = p[k]
        BY <1>1, <2>1, AtBytewise
      <4> QED BY <3>3, <4>1, Zenon
    <3>5. p \in At(b, j) <=> \A k \in 1 .. Len(p) : b[j + k - 1] = p[k]
        BY <2>1, <2>3, AtBytewise
    <3> QED BY <3>2, <3>4, <3>5
  <2> QED BY <2>2, <2>3
<1>5. SUFFICES ASSUME NEW j \in 1 .. c, NEW p \in At(t, j) PROVE j + Len(p) - 1 <= c
    BY DEF CutsCleanly, t
<1>6. p \in Patterns
    BY DEF At
<1>7. CASE j <= s
  <2>1. j \in 1 .. s
    BY <1>2, <1>7
  <2>2. p \in At(b, j)
    BY <1>4, <1>6, <2>1
  <2> QED BY <2>1, <2>2, CommitUntilBounds
<1>8. CASE j > s
  <2>1. c # s
    BY <1>2, <1>8
  <2>2. PICK i \in 1 .. s : \E q \in At(b, i) : c = i + Len(q) - 1
    BY <2>1, CommitUntilBounds
  <2>3. PICK q \in At(b, i) : c = i + Len(q) - 1
    BY <2>2
  <2>4. q \in Patterns /\ Len(q) \in Nat \ {0}
    BY PatternType DEF At
  <2>5. q \in At(t, i)
    BY <1>4, <2>4
  <2>6. i \in Nat \ {0} /\ j \in Nat /\ i < j /\ j < i + Len(q)
    BY <1>2, <1>8, <2>3, <2>4
  <2>7. At(t, j) = {}
    BY <1>1, <2>5, <2>6, PlaceholdersAreApart
  <2> QED BY <2>7
<1> QED BY <1>2, <1>7, <1>8

\* What process_until writes is the restoration of what it takes out of the buffer.
LEMMA ProcessUntilRestores ==
    ASSUME NEW b \in Seq(Byte), NEW s \in 0 .. Len(b)
    PROVE  RenderedUpTo(b, s) = Restore(SubSeq(b, 1, CommitUntil(b, s)))
<1> DEFINE c == CommitUntil(b, s)
           m == c - s
           f == [i \in 1 .. s + m |-> Rendered(b, i)]
           t == SubSeq(b, 1, c)
<1>1. c \in s .. Len(b)
    BY CommitUntilBounds
<1>2. m \in Nat /\ s \in Nat /\ s + m = c /\ Len(t) = c /\ c \in 0 .. Len(b)
    BY <1>1
<1>3. CutsCleanly(b, c)
  <2>1. b \o <<>> = b
    OBVIOUS
  <2>2. <<>> \in Seq(Byte)
    OBVIOUS
  <2> QED BY <2>1, <2>2, CommitCutsCleanly
<1>4. f \in [1 .. s + m -> Seq(Symbol)]
  <2>1. \A i \in 1 .. s + m : i \in 1 .. Len(b)
    BY <1>1, <1>2
  <2> QED BY <2>1, RenderedType
<1>5. ASSUME NEW i \in 1 .. m PROVE Rendered(b, s + i) = <<>>
  <2>1. c # s /\ s < s + i /\ s + i <= c
    BY <1>2
  <2>2. PICK j \in 1 .. s : \E p \in At(b, j) : c = j + Len(p) - 1
    BY <2>1, CommitUntilBounds
  <2>3. PICK p \in At(b, j) : c = j + Len(p) - 1
    BY <2>2
  <2>4. Len(p) \in Nat \ {0}
    BY PatternType DEF At
  <2>5. j \in 1 .. (s + i) - 1 /\ s + i < j + Len(p) /\ j \in Nat \ {0} /\ s + i \in Nat /\ j < s + i
    BY <1>2, <2>1, <2>3, <2>4
  <2>6. At(b, s + i) = {}
    BY <2>5, PlaceholdersAreApart
  <2>7. Inside(b, s + i)
    BY <2>5 DEF Inside
  <2> QED BY <2>6, <2>7 DEF Rendered
<1>6. FlattenSeq([i \in 1 .. m |-> f[s + i]]) = <<>>
  <2>1. ASSUME NEW i \in 1 .. m PROVE f[s + i] = <<>>
    <3>1. s + i \in 1 .. s + m
      <4> HIDE DEF f, t, m, c
      <4> QED BY <1>2
    <3> QED BY <3>1, <1>5
  <2> HIDE DEF f, m
  <2>2. [i \in 1 .. m |-> f[s + i]] \in [1 .. m -> {<<>>}]
    BY <2>1
  <2> QED BY <1>2, <2>2, FlattenOfEmpties
<1>7. [i \in 1 .. s |-> f[i]] = [i \in 1 .. s |-> Rendered(b, i)]
  <2>1. ASSUME NEW i \in 1 .. s PROVE f[i] = Rendered(b, i)
    <3>1. i \in 1 .. s + m
      <4> HIDE DEF f, t, m, c
      <4> QED BY <1>2
    <3> QED BY <3>1
  <2> HIDE DEF f
  <2> QED BY <2>1
<1>8. f = [i \in 1 .. Len(t) |-> Rendered(t, i)]
  <2>1. ASSUME NEW i \in 1 .. c PROVE Rendered(t, i) = Rendered(b, i)
    BY <1>2, <1>3, RenderedInFront
  <2> HIDE DEF t, c, m
  <2> QED BY <1>2, <2>1
<1>9. RenderedUpTo(b, s) \in Seq(Symbol)
    BY RestoreType
<1>10. FlattenSeq(f) = FlattenSeq([i \in 1 .. s |-> f[i]]) \o FlattenSeq([i \in 1 .. m |-> f[s + i]])
  <2> HIDE DEF f, m, t, c
  <2>1. \A g \in [1 .. s + m -> Seq(Symbol)] :
            FlattenSeq(g) = FlattenSeq([i \in 1 .. s |-> g[i]]) \o FlattenSeq([i \in 1 .. m |-> g[s + i]])
    BY <1>2, FlattenSplit
  <2> QED BY <1>4, <2>1
<1>11. FlattenSeq(f) = Restore(t)
    BY <1>8 DEF Restore, RenderedUpTo
<1> HIDE DEF f, t, m, c
<1>12. Restore(t) = RenderedUpTo(b, s) \o <<>>
    BY <1>6, <1>7, <1>10, <1>11 DEF RenderedUpTo
<1>13. Restore(t) = RenderedUpTo(b, s)
    BY <1>9, <1>12
<1> QED BY <1>13 DEF t, c

\* Pushing a chunk does not show: whatever follows, what is written and the restoration of
\* the rest are the restoration of the whole.
LEMMA ProcessingIsInvisible ==
    ASSUME NEW b \in Seq(Byte), NEW u \in Seq(Byte)
    PROVE  Restore(b \o u) = ProcessUntil(b, SafeEnd(b)).out
                             \o Restore(ProcessUntil(b, SafeEnd(b)).rest \o u)
<1> DEFINE s == SafeEnd(b)
           c == CommitUntil(b, s)
           t == b \o u
<1>1. s \in 0 .. Len(b) /\ c \in s .. Len(b)
    BY SafeEndBounds, CommitUntilBounds
<1>2. /\ t \in Seq(Byte) /\ c \in 0 .. Len(t)
      /\ SubSeq(t, 1, c) = SubSeq(b, 1, c)
      /\ SubSeq(t, c + 1, Len(t)) = SubSeq(b, c + 1, Len(b)) \o u
  <2>1. t \in Seq(Byte) /\ Len(t) = Len(b) + Len(u)
    OBVIOUS
  <2> HIDE DEF s, c
  <2>2. c \in 0 .. Len(b)
    BY <1>1
  <2>3. c \in 0 .. Len(t)
    BY <2>1, <2>2
  <2> QED BY <2>1, <2>2, <2>3, CutOfConcat
<1>3. \A p \in Patterns : \A j \in 1 .. s : j + Len(p) - 1 <= Len(b)
  <2> SUFFICES ASSUME NEW p \in Patterns, NEW j \in 1 .. s PROVE j + Len(p) - 1 <= Len(b)
    OBVIOUS
  <2>1. s + CarryLen = Len(b) /\ Len(p) - 1 <= CarryLen /\ CarryLen \in Nat /\ Len(p) \in Nat
    BY <1>1, SafeEndBounds, CarryLenBound, PatternType
  <2> HIDE DEF s
  <2> QED BY <1>1, <2>1
<1>4. CutsCleanly(t, c)
    BY <1>1, <1>3, CommitCutsCleanly
<1>5. Restore(t) = Restore(SubSeq(t, 1, c)) \o Restore(SubSeq(t, c + 1, Len(t)))
  <2> HIDE DEF t, c
  <2> QED BY <1>2, <1>4, RestoreSplits
<1>6. ProcessUntil(b, s).out = Restore(SubSeq(b, 1, c))
    BY <1>1, ProcessUntilRestores DEF ProcessUntil
<1>7. ProcessUntil(b, s).rest = SubSeq(b, c + 1, Len(b))
    BY DEF ProcessUntil
<1> QED BY <1>2, <1>5, <1>6, <1>7

-----------------------------------------------------------------------------
\* The chunk restorer

\* CutsAreInvisible is inductive with the types, for it speaks of all that is still unread.
Inv ==
    /\ TypeOK
    /\ out \in Seq(Symbol)
    /\ HoldsLessThanAPlaceholder
    /\ CutsAreInvisible

LEMMA InitEstablishes == Init => Inv
<1> SUFFICES ASSUME Init PROVE Inv
    OBVIOUS
<1>1. source \in Seq(Byte) /\ Len(source) \in Nat /\ CarryLen \in Nat
    BY SourcesAssumption, CarryLenBound DEF Init
<1>2. TypeOK
    BY <1>1 DEF Init, TypeOK
<1>3. out \in Seq(Symbol)
    BY DEF Init
<1>4. HoldsLessThanAPlaceholder
    BY <1>1 DEF Init, HoldsLessThanAPlaceholder
<1>5. CutsAreInvisible
  <2>1. SubSeq(source, read + 1, Len(source)) = source /\ buffer \o source = source
    BY <1>1 DEF Init
  <2>2. Restore(source) \in Seq(Symbol)
    BY <1>1, RestoreWholeType
  <2>3. out \o Restore(source) = Restore(source)
    BY <2>2 DEF Init
  <2> QED BY <2>1, <2>3 DEF CutsAreInvisible
<1> QED BY <1>2, <1>3, <1>4, <1>5 DEF Inv

LEMMA RestType ==
    ASSUME NEW b \in Seq(Byte), NEW s \in Seq(Byte), NEW r \in 0 .. Len(s)
    PROVE  Restore(b \o SubSeq(s, r + 1, Len(s))) \in Seq(Symbol)
<1>1. b \o SubSeq(s, r + 1, Len(s)) \in Seq(Byte)
    OBVIOUS
<1> QED BY <1>1, RestoreWholeType

\* What a chunk does to the state, and why its reader cannot tell.
LEMMA PushPreserves ==
    ASSUME Inv, NEW n \in 0 .. Len(source) - read, PushChunk(n)
    PROVE  Inv' /\ \E more \in Seq(Symbol) : out' = out \o more
<1> DEFINE chunk == SubSeq(source, read + 1, read + n)
           unread == SubSeq(source, read + n + 1, Len(source))
           filled == buffer \o chunk
           p == ProcessUntil(filled, SafeEnd(filled))
<1>1. /\ source \in Seq(Byte) /\ Len(source) \in Nat /\ read \in Nat /\ n \in Nat
      /\ read + n <= Len(source) /\ buffer \in Seq(Byte) /\ state = "open"
    BY SourcesAssumption DEF Inv, TypeOK, PushChunk
<1>2. chunk \in Seq(Byte) /\ unread \in Seq(Byte)
    BY <1>1
<1>3. filled \in Seq(Byte)
    BY <1>1, <1>2
<1> HIDE DEF chunk, unread, filled
<1>4. chunk \o unread = SubSeq(source, read + 1, Len(source))
  <2>1. read + 1 \in 1 .. Len(source) + 1 /\ read + n \in (read + 1) - 1 .. Len(source)
    BY <1>1
  <2>2. Len(source) \in read + n .. Len(source)
    BY <1>1
  <2> QED BY <1>1, <2>1, <2>2, ConcatAdjacentSubSeq, Zenon DEF chunk, unread
<1>5. /\ read' = read + n /\ out' = out \o p.out /\ buffer' = p.rest
      /\ source' = source /\ state' = "open"
    BY DEF PushChunk, filled, chunk
<1>6. filled \o unread = buffer \o SubSeq(source, read + 1, Len(source))
  <2>1. \A x, y, z \in Seq(Byte) : (x \o y) \o z = x \o (y \o z)
    BY ConcatAssociative
  <2>2. (buffer \o chunk) \o unread = buffer \o (chunk \o unread)
    BY <1>1, <1>2, <2>1
  <2> QED BY <1>4, <2>2 DEF filled
<1>7. CommitUntil(filled, SafeEnd(filled)) \in SafeEnd(filled) .. Len(filled)
    BY <1>3, SafeEndBounds, CommitUntilBounds
<1>8. p.rest \in Seq(Byte) /\ Len(p.rest) = Len(filled) - CommitUntil(filled, SafeEnd(filled))
    BY <1>3, <1>7, SafeEndBounds DEF ProcessUntil
<1>9. p.out \in Seq(Symbol)
    BY <1>3, SafeEndBounds, RestoreType DEF ProcessUntil
<1>10. TypeOK'
    BY <1>1, <1>5, <1>8 DEF TypeOK, Inv
<1> HIDE DEF p
<1>11. out' \in Seq(Symbol)
    BY <1>5, <1>9 DEF Inv
<1>12. HoldsLessThanAPlaceholder'
  <2>1. Len(filled) - SafeEnd(filled) <= CarryLen /\ SafeEnd(filled) \in 0 .. Len(filled)
    BY <1>3, SafeEndBounds
  <2>2. Len(p.rest) <= CarryLen
    BY <1>3, <1>7, <1>8, <2>1, CarryLenBound
  <2>3. CarryLen' = CarryLen
    BY DEF CarryLen
  <2> QED BY <1>5, <2>2 DEF HoldsLessThanAPlaceholder
<1>13. CutsAreInvisible'
  <2>1. out \o Restore(filled \o unread) = Restore(source)
    BY <1>1, <1>6 DEF Inv, CutsAreInvisible
  <2>2. Restore(filled \o unread) = p.out \o Restore(p.rest \o unread)
    BY <1>2, <1>3, ProcessingIsInvisible DEF p
  <2>3. Restore(p.rest \o unread) \in Seq(Symbol)
    <3>1. p.rest \o unread \in Seq(Byte)
        BY <1>2, <1>8
    <3> QED BY <3>1, RestoreWholeType
  <2>4. (out \o p.out) \o Restore(p.rest \o unread) = Restore(source)
    <3>1. \A x, y, z \in Seq(Symbol) : (x \o y) \o z = x \o (y \o z)
        BY ConcatAssociative
    <3>2. out \in Seq(Symbol)
        BY DEF Inv
    <3>3. (out \o p.out) \o Restore(p.rest \o unread) = out \o (p.out \o Restore(p.rest \o unread))
        BY <1>9, <2>3, <3>1, <3>2, Zenon
    <3> QED BY <2>1, <2>2, <3>3
  <2>5. buffer' \o SubSeq(source', read' + 1, Len(source')) = p.rest \o unread
    BY <1>1, <1>5 DEF unread
  <2>6. out' \o Restore(buffer' \o SubSeq(source', read' + 1, Len(source'))) = Restore(source')
    BY <1>5, <2>4, <2>5
  <2> QED BY <2>6 DEF CutsAreInvisible
<1>14. Inv'
    BY <1>10, <1>11, <1>12, <1>13 DEF Inv
<1> QED BY <1>5, <1>9, <1>14

\* finish writes the restoration of all that is held, which is all that is left.
LEMMA FinishCompletes ==
    ASSUME Inv, Finish
    PROVE  Inv' /\ out' = Restore(source)
<1>1. /\ source \in Seq(Byte) /\ buffer \in Seq(Byte) /\ state = "open" /\ read = Len(source)
      /\ source' = source /\ read' = read /\ buffer' = <<>> /\ state' = "ended"
    BY SourcesAssumption DEF Inv, TypeOK, Finish
<1>2. buffer \o SubSeq(source, read + 1, Len(source)) = buffer
  <2>1. SubSeq(source, read + 1, Len(source)) = <<>>
    BY <1>1
  <2> QED BY <1>1, <2>1
<1>3. out \o Restore(buffer) = Restore(source)
    BY <1>1, <1>2 DEF Inv, CutsAreInvisible
<1>4. out' = Restore(source)
    BY <1>3 DEF Finish, ProcessUntil, Restore
<1>5. Restore(source) \in Seq(Symbol)
    BY <1>1, RestoreWholeType
<1>6. TypeOK' /\ HoldsLessThanAPlaceholder'
    BY <1>1 DEF Inv, TypeOK, HoldsLessThanAPlaceholder
<1>7. CutsAreInvisible'
  <2>1. buffer' \o SubSeq(source', read' + 1, Len(source')) = <<>>
    BY <1>1
  <2>2. Restore(<<>>) = <<>>
    BY DEF Restore, RenderedUpTo, FlattenSeq
  <2>3. out' \o <<>> = out'
    BY <1>4, <1>5
  <2> QED BY <1>1, <1>4, <2>1, <2>2, <2>3 DEF CutsAreInvisible
<1> QED BY <1>4, <1>5, <1>6, <1>7 DEF Inv

LEMMA StepPreserves == Inv /\ [Next]_vars => Inv'
<1> SUFFICES ASSUME Inv, [Next]_vars PROVE Inv'
    OBVIOUS
<1>1. ASSUME NEW n \in 0 .. Len(source) - read, PushChunk(n) PROVE Inv'
    BY <1>1, PushPreserves
<1>2. CASE Finish
    BY <1>2, FinishCompletes
<1>3. CASE UpstreamFails
    BY <1>3 DEF Inv, TypeOK, UpstreamFails, HoldsLessThanAPlaceholder, CutsAreInvisible
<1>4. CASE UNCHANGED vars
    BY <1>4 DEF Inv, TypeOK, vars, HoldsLessThanAPlaceholder, CutsAreInvisible
<1> QED BY <1>1, <1>2, <1>3, <1>4 DEF Next

THEOREM RestorerInvariant == Spec => []Inv
<1> QED BY InitEstablishes, StepPreserves, PTL DEF Spec

\* Between two chunks the restorer holds back less than the longest placeholder has, whatever
\* the placeholders, the body and the chunks (push_chunk, commit_until).
THEOREM RestorerHoldsLittle == Spec => []HoldsLessThanAPlaceholder
<1>1. Inv => HoldsLessThanAPlaceholder
    BY DEF Inv
<1> QED BY <1>1, RestorerInvariant, PTL

\* Wherever a body is cut into chunks, what was written and the restoration of the rest are
\* the restoration of the body in one piece (process_until, commit_until, push_chunk).
THEOREM CutsCannotBeSeen == Spec => []CutsAreInvisible
<1>1. Inv => CutsAreInvisible
    BY DEF Inv
<1> QED BY <1>1, RestorerInvariant, PTL

\* Each step of the restorer is a step of RestoredStream or leaves its view unchanged.
LEMMA StepRefines == Inv /\ Inv' /\ [Next]_vars => [Promise!Next]_Promise!vars
<1> SUFFICES ASSUME Inv, Inv', [Next]_vars PROVE [Promise!Next]_Promise!vars
    OBVIOUS
<1> DEFINE whole == Restore(source)
<1>1. source \in Seq(Byte) /\ whole \in Seq(Symbol)
  <2>1. source \in Seq(Byte)
    BY SourcesAssumption DEF Inv, TypeOK
  <2> QED BY <2>1, RestoreWholeType
<1>2. ASSUME NEW n \in 0 .. Len(source) - read, PushChunk(n) PROVE Promise!Emit
  <2> DEFINE rest == Restore(buffer' \o SubSeq(source', read' + 1, Len(source')))
  <2>1. state = "open" /\ state' = "open" /\ source' = source
    BY <1>2 DEF PushChunk
  <2>2. PICK more \in Seq(Symbol) : out' = out \o more
    BY <1>2, PushPreserves
  <2>3. out \in Seq(Symbol) /\ out' \in Seq(Symbol)
    BY DEF Inv
  <2>4. out' \o rest = whole
    BY <2>1 DEF Inv, CutsAreInvisible
  <2>5. rest \in Seq(Symbol)
    <3>1. buffer' \in Seq(Byte) /\ source' \in Seq(Byte) /\ read' \in 0 .. Len(source')
        BY SourcesAssumption DEF Inv, TypeOK
    <3> QED BY <3>1, RestType
  <2> HIDE DEF rest, whole
  <2>6. Len(out') \in Len(out) .. Len(whole)
    BY <2>2, <2>3, <2>4, <2>5
  <2>7. out' = SubSeq(whole, 1, Len(out'))
    BY <2>3, <2>4, <2>5
  <2> QED BY <2>1, <2>6, <2>7 DEF Promise!Emit, whole
<1>3. CASE Finish
  <2>1. out' = whole /\ state = "open" /\ state' = "ended" /\ source' = source
    BY <1>3, FinishCompletes DEF Finish
  <2> QED BY <2>1 DEF Promise!Next, Promise!End
<1>4. CASE UpstreamFails
    BY <1>4 DEF UpstreamFails, Promise!Next, Promise!Break
<1>5. CASE UNCHANGED vars
    BY <1>5 DEF vars, Promise!vars
<1> QED BY <1>2, <1>3, <1>4, <1>5 DEF Next, Promise!Next

\* The restorer implements RestoredStream: its reader gets a growing prefix of the restored
\* body, and all of it when the stream ends in good order (push_chunk, finish).
THEOREM RestorerKeepsThePromise == Spec => KeepsThePromise
<1>1. Init => Promise!Init
    BY DEF Init, Promise!Init
<1> QED BY <1>1, RestorerInvariant, StepRefines, PTL DEF Spec, KeepsThePromise, Promise!Spec

-----------------------------------------------------------------------------
\* Restored text turned back

\* Restoring goes by the first byte: what stands there is rendered, and the text behind it is
\* restored on its own.
LEMMA RestoreByTheFirst ==
    ASSUME NEW b \in Seq(Byte), b # <<>>
    PROVE  LET c == CommitUntil(b, 1)
           IN  /\ c \in 1 .. Len(b)
               /\ Restore(b) = Rendered(b, 1) \o Restore(SubSeq(b, c + 1, Len(b)))
<1> DEFINE c == CommitUntil(b, 1)
<1>1. 1 \in 0 .. Len(b) /\ Len(b) \in Nat
    OBVIOUS
<1>2. c \in 1 .. Len(b)
    BY <1>1, CommitUntilBounds
<1>3. CutsCleanly(b, c)
  <2>1. CutsCleanly(b \o <<>>, c)
    <3>1. <<>> \in Seq(Byte)
        OBVIOUS
    <3> QED BY <1>1, <3>1, CommitCutsCleanly
  <2> QED BY <2>1
<1>4. Restore(b) = Restore(SubSeq(b, 1, c)) \o Restore(SubSeq(b, c + 1, Len(b)))
  <2> HIDE DEF c
  <2>1. c \in 0 .. Len(b)
    BY <1>1, <1>2
  <2> QED BY <1>3, <2>1, RestoreSplits
<1>5. RenderedUpTo(b, 1) = Restore(SubSeq(b, 1, c))
    BY <1>1, ProcessUntilRestores
<1>6. RenderedUpTo(b, 1) = Rendered(b, 1)
  <2>1. Rendered(b, 1) \in Seq(Symbol)
    BY <1>1, RenderedType
  <2>2. [i \in 1 .. 1 |-> Rendered(b, i)] = <<Rendered(b, 1)>>
    OBVIOUS
  <2>3. FlattenSeq(<<Rendered(b, 1)>>) = Rendered(b, 1)
    BY <2>1, FlattenOne
  <2> QED BY <2>2, <2>3 DEF RenderedUpTo
<1> HIDE DEF c
<1> QED BY <1>2, <1>4, <1>5, <1>6 DEF c

\* What stands for the first byte, turned back, is what was taken off the text for it.
Original(x) ==
    IF \E p \in Patterns : SecretOf(p) = <<x>>
    THEN CHOOSE p \in Patterns : SecretOf(p) = <<x>>
    ELSE <<x>>

LEMMA UnrestoredIs ==
    \A s : Unrestored(s) = FlattenSeq([i \in DOMAIN s |-> Original(s[i])])
BY DEF Unrestored, Original

LEMMA OriginalType == ASSUME NEW x \in Symbol PROVE Original(x) \in Seq(Symbol)
<1>1. CASE \E p \in Patterns : SecretOf(p) = <<x>>
  <2>1. Original(x) \in Patterns
    BY <1>1 DEF Original
  <2>2. Original(x) \in Seq(Byte)
    BY <2>1, PatternType
  <2> QED BY <2>2, SeqMonotonic DEF Symbol
<1>2. CASE ~\E p \in Patterns : SecretOf(p) = <<x>>
    BY <1>2 DEF Original
<1> QED BY <1>1, <1>2

LEMMA UnrestoredType ==
    ASSUME NEW s \in Seq(Symbol)
    PROVE  /\ [i \in DOMAIN s |-> Original(s[i])] \in Seq(Seq(Symbol))
           /\ Unrestored(s) \in Seq(Symbol)
<1> DEFINE f == [i \in DOMAIN s |-> Original(s[i])]
<1>1. DOMAIN s = 1 .. Len(s) /\ Len(s) \in Nat
    OBVIOUS
<1>2. \A i \in DOMAIN s : Original(s[i]) \in Seq(Symbol)
    BY OriginalType
<1>3. f \in Seq(Seq(Symbol))
    BY <1>1, <1>2
<1>4. FlattenSeq(f) \in Seq(Symbol)
    BY <1>3, FlattenType
<1> QED BY <1>3, <1>4, UnrestoredIs

LEMMA UnrestoredConcat ==
    ASSUME NEW s \in Seq(Symbol), NEW t \in Seq(Symbol)
    PROVE  Unrestored(s \o t) = Unrestored(s) \o Unrestored(t)
<1> DEFINE F(u) == [i \in DOMAIN u |-> Original(u[i])]
<1>1. F(s) \in Seq(Seq(Symbol)) /\ F(t) \in Seq(Seq(Symbol))
    BY UnrestoredType
<1>2. FlattenSeq(F(s) \o F(t)) = FlattenSeq(F(s)) \o FlattenSeq(F(t))
  <2> HIDE DEF F
  <2> QED BY <1>1, FlattenConcat
<1>3. F(s \o t) = F(s) \o F(t)
  <2>1. s \o t \in Seq(Symbol)
    OBVIOUS
  <2>2. F(s \o t) \in Seq(Seq(Symbol))
    BY <2>1, UnrestoredType
  <2>3. Len(F(s \o t)) = Len(s) + Len(t) /\ Len(F(s)) = Len(s) /\ Len(F(t)) = Len(t)
    OBVIOUS
  <2>4. ASSUME NEW i \in 1 .. Len(s) + Len(t)
        PROVE  F(s \o t)[i] = IF i <= Len(s) THEN F(s)[i] ELSE F(t)[i - Len(s)]
    <3>1. F(s \o t)[i] = Original((s \o t)[i])
        OBVIOUS
    <3>2. CASE i <= Len(s)
      <4>1. (s \o t)[i] = s[i] /\ F(s)[i] = Original(s[i])
        BY <3>2
      <4> QED BY <3>1, <3>2, <4>1
    <3>3. CASE ~(i <= Len(s))
      <4>1. i - Len(s) \in DOMAIN t
        BY <3>3
      <4>2. (s \o t)[i] = t[i - Len(s)] /\ F(t)[i - Len(s)] = Original(t[i - Len(s)])
        BY <3>3, <4>1
      <4> QED BY <3>1, <3>3, <4>2
    <3> QED BY <3>2, <3>3
  <2>5. /\ F(s) \o F(t) \in Seq(Seq(Symbol))
        /\ Len(F(s) \o F(t)) = Len(s) + Len(t)
        /\ \A i \in 1 .. Len(s) + Len(t) :
              (F(s) \o F(t))[i] = IF i <= Len(s) THEN F(s)[i] ELSE F(t)[i - Len(s)]
    <3>1. /\ F(s) \o F(t) \in Seq(Seq(Symbol))
          /\ Len(F(s) \o F(t)) = Len(F(s)) + Len(F(t))
          /\ \A i \in 1 .. Len(F(s)) + Len(F(t)) :
                (F(s) \o F(t))[i] = IF i <= Len(F(s)) THEN F(s)[i] ELSE F(t)[i - Len(F(s))]
      <4> HIDE DEF F
      <4> QED BY <1>1, ConcatProperties
    <3> HIDE DEF F
    <3> QED BY <2>3, <3>1
  <2> HIDE DEF F
  <2> QED BY <2>2, <2>3, <2>4, <2>5, SeqEqual
<1> QED BY <1>2, <1>3, UnrestoredIs

LEMMA OriginalOfByte == ASSUME NEW x \in Byte PROVE Original(x) = <<x>>
<1>1. ASSUME NEW p \in Patterns PROVE SecretOf(p) # <<x>>
  <2>1. SecretOf(p)[1] \notin Byte
    BY SecretAssumption
  <2>2. <<x>>[1] = x
    OBVIOUS
  <2> QED BY <2>1, <2>2
<1> QED BY <1>1 DEF Original

LEMMA OriginalOfSecret == ASSUME NEW p \in Patterns PROVE Unrestored(SecretOf(p)) = p
<1> DEFINE x == SecretOf(p)[1]
<1>1. SecretOf(p) \in Seq(Symbol) /\ Len(SecretOf(p)) = 1
    BY SecretType, SecretAssumption
<1>2. SecretOf(p) = <<x>> /\ x \in Symbol
    BY <1>1
<1>3. \A q \in Patterns : SecretOf(q) = <<x>> => q = p
    BY <1>2, SecretAssumption
<1>4. Original(x) = p
  <2> HIDE DEF x
  <2> QED BY <1>2, <1>3 DEF Original
<1>5. p \in Seq(Byte)
    BY PatternType
<1> HIDE DEF x
<1>6. Unrestored(<<x>>) = FlattenSeq(<<Original(x)>>)
  <2>1. [i \in DOMAIN <<x>> |-> Original(<<x>>[i])] = <<Original(x)>>
    OBVIOUS
  <2> QED BY <2>1, UnrestoredIs
<1> QED BY <1>2, <1>4, <1>5, <1>6, FlattenOne

\* Turning back the first thing written gives the bytes it was written for.
LEMMA RenderedHasInverse ==
    ASSUME NEW b \in Seq(Byte), b # <<>>
    PROVE  Unrestored(Rendered(b, 1)) = SubSeq(b, 1, CommitUntil(b, 1))
<1> DEFINE c == CommitUntil(b, 1)
<1>1. 1 \in 0 .. Len(b) /\ 1 \in 1 .. Len(b) /\ 1 \in Nat \ {0} /\ Len(b) \in Nat
    OBVIOUS
<1>2. /\ c \in 1 .. Len(b)
      /\ \A p \in At(b, 1) : 1 + Len(p) - 1 <= c
      /\ c # 1 => \E p \in At(b, 1) : c = 1 + Len(p) - 1
  <2>1. /\ c \in 1 .. Len(b)
        /\ \A j \in 1 .. 1 : \A p \in At(b, j) : j + Len(p) - 1 <= c
        /\ c # 1 => \E j \in 1 .. 1 : \E p \in At(b, j) : c = j + Len(p) - 1
    BY <1>1, CommitUntilBounds
  <2>2. \A j \in 1 .. 1 : j = 1
    OBVIOUS
  <2>3. 1 \in 1 .. 1
    OBVIOUS
  <2> HIDE DEF c
  <2> QED BY <2>1, <2>2, <2>3
<1> HIDE DEF c
<1>3. CASE At(b, 1) # {}
  <2>1. PICK p \in At(b, 1) : p = CHOOSE q \in At(b, 1) : TRUE
    BY <1>3
  <2>2. p \in Patterns /\ Len(p) \in Nat \ {0} /\ SubSeq(b, 1, 1 + Len(p) - 1) = p
    BY PatternType DEF At
  <2>3. ASSUME NEW q \in At(b, 1) PROVE Len(q) <= Len(p)
    <3>1. q \in Patterns /\ Len(q) \in Nat \ {0} /\ SubSeq(b, 1, 1 + Len(q) - 1) = q
        BY PatternType DEF At
    <3>2. p \in Seq(Byte) /\ q \in Seq(Byte) /\ 1 + Len(q) - 1 <= Len(b) /\ 1 + Len(p) - 1 <= Len(b)
        BY <2>2, <3>1, PatternType DEF At
    <3>3. SUFFICES ASSUME Len(p) < Len(q) PROVE FALSE
        BY <2>2, <3>1
    <3>4. p = SubSeq(q, 1, Len(p))
        BY <2>2, <3>1, <3>2, <3>3
    <3>5. IsPrefix(p, q)
        BY <3>2, <3>3, <3>4 DEF IsPrefix
    <3> QED BY <2>2, <3>1, <3>3, <3>5, PatternsAssumption
  <2>4. c = Len(p)
    <3>1. Len(p) <= c
        BY <1>2, <2>2
    <3>2. CASE c # 1
      <4>1. PICK q \in At(b, 1) : c = 1 + Len(q) - 1
        BY <1>2, <3>2
      <4>2. Len(q) \in Nat
        BY PatternType DEF At
      <4>3. Len(q) <= Len(p)
        BY <2>3, <4>1
      <4>4. c = Len(q) /\ Len(p) \in Nat
        BY <2>2, <4>1, <4>2
      <4> QED BY <3>1, <4>2, <4>3, <4>4
    <3>3. CASE c = 1
        BY <2>2, <3>1, <3>3
    <3> QED BY <3>2, <3>3
  <2>5. Rendered(b, 1) = SecretOf(p)
    BY <1>3, <2>1 DEF Rendered
  <2> QED BY <2>2, <2>4, <2>5, OriginalOfSecret DEF c
<1>4. CASE At(b, 1) = {}
  <2>1. ~Inside(b, 1)
    BY DEF Inside
  <2>2. Rendered(b, 1) = <<b[1]>>
    BY <1>4, <2>1 DEF Rendered
  <2>3. c = 1
    BY <1>2, <1>4
  <2>4. b[1] \in Byte
    BY <1>1
  <2>5. Unrestored(<<b[1]>>) = FlattenSeq(<<Original(b[1])>>)
    <3>1. [i \in DOMAIN <<b[1]>> |-> Original(<<b[1]>>[i])] = <<Original(b[1])>>
        OBVIOUS
    <3> QED BY <3>1, UnrestoredIs
  <2>6. FlattenSeq(<<Original(b[1])>>) = <<b[1]>>
    <3>1. <<b[1]>> \in Seq(Byte)
        BY <2>4
    <3> QED BY <2>4, <3>1, OriginalOfByte, FlattenOne
  <2>7. SubSeq(b, 1, 1) = <<b[1]>>
    <3>1. SubSeq(b, 1, 1) \in Seq(Byte) /\ Len(SubSeq(b, 1, 1)) = 1 /\ SubSeq(b, 1, 1)[1] = b[1]
        BY <1>1
    <3>2. <<b[1]>> \in Seq(Byte) /\ Len(<<b[1]>>) = 1 /\ <<b[1]>>[1] = b[1]
        BY <2>4
    <3> DEFINE l == SubSeq(b, 1, 1)
               r == <<b[1]>>
    <3> HIDE DEF l, r
    <3>3. \A i \in 1 .. Len(l) : l[i] = r[i]
      <4>1. \A i \in 1 .. 1 : i = 1
        OBVIOUS
      <4> QED BY <3>1, <3>2, <4>1 DEF l, r
    <3>4. l = r
        BY <3>1, <3>2, <3>3, SeqEqual DEF l, r
    <3> QED BY <3>4 DEF l, r
  <2> QED BY <2>2, <2>3, <2>5, <2>6, <2>7 DEF c
<1> QED BY <1>3, <1>4

\* A restored text holds all there is to know about the text it was made of.
LEMMA RestoreHasInverse == ASSUME NEW b \in Seq(Byte) PROVE Unrestored(Restore(b)) = b
<1> DEFINE T == {n \in Nat : \A t \in Seq(Byte) : Len(t) <= n => Unrestored(Restore(t)) = t}
<1>1. Unrestored(Restore(<<>>)) = <<>>
  <2>1. Restore(<<>>) = <<>>
    BY DEF Restore, RenderedUpTo, FlattenSeq
  <2>2. Unrestored(<<>>) = <<>>
    BY DEF Unrestored, FlattenSeq
  <2> QED BY <2>1, <2>2
<1>2. 0 \in T
  <2>1. ASSUME NEW t \in Seq(Byte), Len(t) <= 0 PROVE Unrestored(Restore(t)) = t
    <3>1. t = <<>>
        BY <2>1
    <3> QED BY <1>1, <3>1
  <2> QED BY <2>1
<1>3. ASSUME NEW n \in Nat, n \in T PROVE n + 1 \in T
  <2> SUFFICES ASSUME NEW t \in Seq(Byte), Len(t) <= n + 1 PROVE Unrestored(Restore(t)) = t
    OBVIOUS
  <2>0. \A r \in Seq(Byte) : Len(r) <= n => Unrestored(Restore(r)) = r
    BY <1>3
  <2> HIDE DEF T
  <2>1. CASE t = <<>>
    BY <1>1, <2>1
  <2>2. CASE t # <<>>
    <3> DEFINE c == CommitUntil(t, 1)
               rest == SubSeq(t, c + 1, Len(t))
    <3>1. c \in 1 .. Len(t) /\ Restore(t) = Rendered(t, 1) \o Restore(rest)
        BY <2>2, RestoreByTheFirst
    <3>2. Unrestored(Rendered(t, 1)) = SubSeq(t, 1, c)
        BY <2>2, RenderedHasInverse
    <3>3. Rendered(t, 1) \in Seq(Symbol)
      <4>1. 1 \in 1 .. Len(t)
        BY <2>2
      <4> QED BY <4>1, RenderedType
    <3> HIDE DEF c
    <3>4. rest \in Seq(Byte) /\ Len(rest) <= n /\ SubSeq(t, 1, c) \o rest = t
      <4>1. c \in Nat /\ 1 <= c /\ c <= Len(t) /\ Len(t) \in Nat
        BY <3>1
      <4>2. rest \in Seq(Byte) /\ Len(rest) = Len(t) - c
        BY <4>1
      <4>3. SubSeq(t, 1, c) \o SubSeq(t, c + 1, Len(t)) = SubSeq(t, 1, Len(t))
        BY <4>1, ConcatAdjacentSubSeq
      <4>4. SubSeq(t, 1, Len(t)) = t
        OBVIOUS
      <4> HIDE DEF rest
      <4>5. Len(rest) <= n
        BY <4>1, <4>2
      <4> QED BY <4>2, <4>3, <4>4, <4>5 DEF rest
    <3> HIDE DEF rest
    <3>5. Restore(rest) \in Seq(Symbol) /\ Unrestored(Restore(rest)) = rest
        BY <2>0, <3>4, RestoreWholeType
    <3> QED BY <3>1, <3>2, <3>3, <3>4, <3>5, UnrestoredConcat
  <2> QED BY <2>1, <2>2
<1>4. Nat \subseteq T
  <2> HIDE DEF T
  <2> QED BY <1>2, <1>3, NatSetInduction
<1>5. Len(b) \in T
    BY <1>4
<1> QED BY <1>5

-----------------------------------------------------------------------------
\* The fragment restorer

\* A placeholder begins with the last n bytes of b and goes on behind them.
Begins(b, n) ==
    \E p \in Patterns : n < Len(p) /\ SubSeq(b, Len(b) - n + 1, Len(b)) = SubSeq(p, 1, n)

LEMMA HoldLenIs ==
    ASSUME NEW b \in Seq(Byte)
    PROVE  /\ HoldLen(b) \in 0 .. Len(b)
           /\ HoldLen(b) # 0 => Begins(b, HoldLen(b))
           /\ \A n \in 2 .. Len(b) : Begins(b, n) => n <= HoldLen(b)
<1> DEFINE S == {0} \cup {n \in 2 .. Len(b) : Begins(b, n)}
<1>1. HoldLen(b) = Max(S)
    BY DEF HoldLen, Begins
<1>2. S \in SUBSET Nat /\ S # {} /\ Len(b) \in Nat /\ \A n \in S : n <= Len(b)
    OBVIOUS
<1>3. Max(S) \in S /\ \A n \in S : Max(S) >= n
  <2> HIDE DEF S
  <2> QED BY <1>2, MaxIsGreatest
<1>4. HoldLen(b) \in S /\ \A n \in S : n <= HoldLen(b)
  <2>1. HoldLen(b) \in S /\ \A n \in S : HoldLen(b) >= n
    <3> HIDE DEF S
    <3> QED BY <1>1, <1>3
  <2> HIDE DEF S
  <2>2. HoldLen(b) \in Nat /\ \A n \in S : n \in Nat
    BY <1>2, <2>1
  <2> QED BY <2>1, <2>2
<1>5. HoldLen(b) \in 0 .. Len(b)
  <2> HIDE DEF S
  <2>1. HoldLen(b) \in Nat
    BY <1>2, <1>4
  <2>2. HoldLen(b) <= Len(b)
    BY <1>2, <1>4
  <2> QED BY <1>2, <2>1, <2>2
<1>6. HoldLen(b) # 0 => Begins(b, HoldLen(b))
    BY <1>4
<1>7. ASSUME NEW n \in 2 .. Len(b), Begins(b, n) PROVE n <= HoldLen(b)
  <2>1. n \in S
    BY <1>7
  <2> HIDE DEF S
  <2> QED BY <1>4, <2>1
<1> QED BY <1>5, <1>6, <1>7

\* What is not held can be cut off without cutting a placeholder, unless one begins with the
\* very last byte.
LEMMA HoldCutsCleanly ==
    ASSUME NEW b \in Seq(Byte), NEW u \in Seq(Byte),
           b # <<>> /\ u # <<>> => At(b \o u, Len(b)) = {}
    PROVE  CutsCleanly(b \o u, Len(b) - HoldLen(b))
<1> DEFINE h == HoldLen(b)
           c == Len(b) - h
           t == b \o u
<1>1. /\ h \in 0 .. Len(b)
      /\ h # 0 => Begins(b, h)
      /\ \A n \in 2 .. Len(b) : Begins(b, n) => n <= h
    BY HoldLenIs
<1>2. /\ t \in Seq(Byte) /\ Len(t) = Len(b) + Len(u) /\ Len(b) \in Nat /\ Len(u) \in Nat
      /\ \A k \in 1 .. Len(b) : t[k] = b[k]
    OBVIOUS
<1>3. b # <<>> /\ u # <<>> => At(t, Len(b)) = {}
    OBVIOUS
<1> HIDE DEF h, t
<1>4. c \in Nat /\ h \in Nat /\ c <= Len(b) /\ c + h = Len(b)
    BY <1>1, <1>2
<1> SUFFICES ASSUME NEW j \in 1 .. c, NEW p \in At(t, j) PROVE j + Len(p) - 1 <= c
    BY DEF CutsCleanly, t, h
<1> HIDE DEF c
<1>5. /\ p \in Patterns /\ p \in Seq(Byte) /\ Len(p) \in Nat \ {0}
      /\ j \in Nat \ {0} /\ j <= c
    BY <1>4, PatternType DEF At
<1>6. j + Len(p) - 1 <= Len(t) /\ \A k \in 1 .. Len(p) : t[j + k - 1] = p[k]
    BY <1>2, <1>5, AtBytewise
<1>7. CASE j + Len(p) - 1 <= Len(b)
  <2> SUFFICES ASSUME j + Len(p) - 1 > c PROVE FALSE
    BY <1>4, <1>5
  <2>1. h # 0
    BY <1>4, <1>7
  <2>2. PICK q \in Patterns : h < Len(q) /\ SubSeq(b, Len(b) - h + 1, Len(b)) = SubSeq(q, 1, h)
    BY <1>1, <2>1 DEF Begins
  <2>3. q \in Seq(Byte) /\ Len(q) \in Nat
    BY PatternType
  <2>4. ASSUME NEW i \in 1 .. h PROVE b[c + i] = q[i]
    <3>1. SubSeq(b, c + 1, Len(b))[i] = b[c + i]
        BY <1>4
    <3>2. SubSeq(q, 1, h)[i] = q[i]
        BY <1>4, <2>2, <2>3
    <3>3. Len(b) - h = c
        BY <1>2, <1>4
    <3> QED BY <2>2, <3>1, <3>2, <3>3
  <2> DEFINE k == c - j + 1
             r == SubSeq(p, k + 1, Len(p))
  <2>5. k \in 1 .. Len(p) - 1
    BY <1>4, <1>5
  <2>6. r \in Seq(Byte) /\ Len(r) = Len(p) - k /\ \A i \in 1 .. Len(p) - k : r[i] = p[k + i]
    <3> HIDE DEF k
    <3> QED BY <1>5, <2>5
  <2>7. Len(p) - k <= h /\ Len(p) - k \in Nat
    BY <1>2, <1>4, <1>5, <1>7, <2>5
  <2>8. ASSUME NEW i \in 1 .. Len(p) - k PROVE r[i] = q[i]
    <3>1. k + i \in 1 .. Len(p) /\ j + (k + i) - 1 = c + i /\ i \in 1 .. h /\ c + i \in 1 .. Len(b)
      <4>1. /\ c \in Nat /\ h \in Nat /\ j \in Nat /\ Len(b) \in Nat /\ Len(p) \in Nat
            /\ c + h = Len(b) /\ k = c - j + 1
        BY <1>2, <1>4, <1>5
      <4>2. i \in Nat /\ 1 <= i /\ i <= Len(p) - k /\ Len(p) - k <= h /\ k \in Nat /\ 1 <= k
        BY <2>5, <2>7, <4>1
      <4> HIDE DEF k
      <4> QED BY <4>1, <4>2
    <3>2. t[j + (k + i) - 1] = p[k + i]
        BY <1>6, <3>1
    <3>3. t[c + i] = b[c + i] /\ b[c + i] = q[i]
        BY <1>2, <2>4, <3>1
    <3>4. r[i] = p[k + i]
        BY <2>6
    <3> QED BY <3>1, <3>2, <3>3, <3>4
  <2> HIDE DEF r, k
  <2>9. IsPrefix(r, q)
    <3>1. Len(r) <= Len(q) /\ Len(r) \in Nat
        BY <1>4, <2>2, <2>3, <2>6, <2>7
    <3>2. SubSeq(r, 1, Len(r)) = SubSeq(q, 1, Len(r))
      <4>1. \A i \in 1 .. Len(r) : r[i] = q[i]
        BY <2>6, <2>8
      <4> QED BY <2>3, <2>6, <3>1, <4>1
    <3> QED BY <3>1, <3>2 DEF IsPrefix
  <2> QED BY <1>5, <2>5, <2>9, PatternsAssumption DEF r
<1>8. CASE ~(j + Len(p) - 1 <= Len(b))
  <2> DEFINE n == Len(b) - j + 1
  <2>1. n \in Nat /\ 1 <= n /\ n <= Len(b) /\ n < Len(p) /\ Len(b) - n = j - 1
    BY <1>2, <1>4, <1>5, <1>8
  <2>2. CASE n = 1
    <3>1. j = Len(b) /\ Len(b) # 0
        BY <1>2, <1>5, <2>2
    <3>2. b # <<>> /\ u # <<>>
        BY <1>2, <1>6, <1>8, <3>1
    <3> QED BY <1>3, <3>1, <3>2
  <2>3. CASE n # 1
    <3> HIDE DEF n
    <3>1. n \in 2 .. Len(b)
        BY <1>2, <2>1, <2>3
    <3>2. SubSeq(b, Len(b) - n + 1, Len(b)) = SubSeq(p, 1, n)
      <4> DEFINE l == SubSeq(b, Len(b) - n + 1, Len(b))
                 r == SubSeq(p, 1, n)
      <4>1. /\ l \in Seq(Byte) /\ Len(l) = n
            /\ \A i \in 1 .. n : l[i] = b[Len(b) - n + i]
        BY <1>2, <2>1
      <4>2. /\ r \in Seq(Byte) /\ Len(r) = n
            /\ \A i \in 1 .. n : r[i] = p[i]
        BY <1>5, <2>1
      <4>3. ASSUME NEW i \in 1 .. n PROVE l[i] = r[i]
        <5> HIDE DEF l, r
        <5>1. i \in 1 .. Len(p) /\ j + i - 1 = Len(b) - n + i /\ Len(b) - n + i \in 1 .. Len(b)
          <6>1. i \in Nat /\ 1 <= i /\ i <= n
            BY <2>1
          <6>2. i <= Len(p)
            BY <1>5, <2>1, <6>1
          <6>3. Len(b) - n + i = j - 1 + i /\ j - 1 + i = j + i - 1
            BY <1>5, <2>1, <6>1
          <6>4. Len(b) - n + i <= Len(b) /\ 1 <= Len(b) - n + i
            BY <1>2, <2>1, <6>1
          <6> HIDE DEF n
          <6> QED BY <1>2, <1>5, <2>1, <6>1, <6>2, <6>3, <6>4
        <5>2. t[j + i - 1] = p[i]
            BY <1>6, <5>1
        <5>3. t[Len(b) - n + i] = b[Len(b) - n + i]
            BY <1>2, <5>1
        <5> QED BY <4>1, <4>2, <5>1, <5>2, <5>3
      <4> HIDE DEF l, r
      <4>4. l = r
        BY <4>1, <4>2, <4>3, SeqEqual
      <4> QED BY <4>4 DEF l, r
    <3>3. Begins(b, n)
        BY <1>5, <2>1, <3>2 DEF Begins
    <3>4. n <= h
        BY <1>1, <3>1, <3>3
    <3> QED BY <1>2, <1>4, <1>5, <2>1, <3>4
  <2> QED BY <2>2, <2>3
<1> QED BY <1>7, <1>8

\* push_text restores what it does not hold, whether there are placeholders or not.
LEMMA PushTextIs ==
    ASSUME NEW held \in Seq(Byte), NEW text \in Seq(Byte), Patterns = {} => held = <<>>
    PROVE  LET b == held \o text
               c == Len(b) - HoldLen(b)
           IN  /\ PushText(held, text).out = Restore(SubSeq(b, 1, c))
               /\ PushText(held, text).pending = SubSeq(b, c + 1, Len(b))
<1>1. CASE Patterns # {}
    BY <1>1 DEF PushText
<1>2. CASE Patterns = {}
  <2>1. held \o text = text /\ held = <<>>
    BY <1>2
  <2>2. HoldLen(text) = 0
    <3>1. ~Begins(text, HoldLen(text))
        BY <1>2 DEF Begins
    <3> QED BY <3>1, HoldLenIs
  <2>3. /\ SubSeq(text, 1, Len(text) - 0) = text
        /\ SubSeq(text, Len(text) - 0 + 1, Len(text)) = <<>>
    OBVIOUS
  <2>4. Restore(text) = text
    <3>1. \A j : At(text, j) = {}
        BY <1>2 DEF At
    <3>2. \A j : Rendered(text, j) = <<text[j]>>
        BY <3>1 DEF Rendered, Inside
    <3>3. FlattenSeq([j \in 1 .. Len(text) |-> <<text[j]>>]) = text
        BY FlattenSingles
    <3> QED BY <3>2, <3>3 DEF Restore, RenderedUpTo
  <2>5. PushText(held, text) = [out |-> text, pending |-> held]
    BY <1>2 DEF PushText
  <2>6. PushText(held, text).out = text /\ PushText(held, text).pending = <<>>
    BY <2>1, <2>5
  <2> DEFINE c == Len(held \o text) - HoldLen(held \o text)
  <2>7. c = Len(text) - 0
    BY <2>1, <2>2
  <2> HIDE DEF c
  <2>8. SubSeq(held \o text, 1, c) = text /\ SubSeq(held \o text, c + 1, Len(held \o text)) = <<>>
    BY <2>1, <2>3, <2>7
  <2> QED BY <2>4, <2>6, <2>8 DEF c
<1> QED BY <1>1, <1>2

\* A fragment is neither lost nor doubled: what is written for it, turned back, and what is
\* held then are what was held before and the fragment.
LEMMA PushTextConserves ==
    ASSUME NEW held \in Seq(Byte), NEW text \in Seq(Byte), Patterns = {} => held = <<>>
    PROVE  LET r == PushText(held, text)
           IN  /\ r.out \in Seq(Symbol) /\ r.pending \in Seq(Byte)
               /\ Unrestored(r.out) \o r.pending = held \o text
               /\ r.pending # <<>> => \E p \in Patterns : IsStrictPrefix(r.pending, p)
<1> DEFINE b == held \o text
           h == HoldLen(b)
           c == Len(b) - h
           front == SubSeq(b, 1, c)
           behind == SubSeq(b, c + 1, Len(b))
<1>1. PushText(held, text).out = Restore(front) /\ PushText(held, text).pending = behind
    BY PushTextIs
<1>2. b \in Seq(Byte) /\ Len(b) \in Nat
    OBVIOUS
<1> HIDE DEF b
<1>3. h \in 0 .. Len(b) /\ (h # 0 => Begins(b, h))
    BY <1>2, HoldLenIs
<1> HIDE DEF h
<1>4. c \in 0 .. Len(b) /\ c \in Nat /\ h \in Nat /\ c + h = Len(b)
    BY <1>2, <1>3
<1>5. /\ front \in Seq(Byte) /\ behind \in Seq(Byte) /\ Len(behind) = h
      /\ front \o behind = b
  <2> HIDE DEF c
  <2>1. front \in Seq(Byte) /\ behind \in Seq(Byte) /\ Len(behind) = h
    BY <1>2, <1>4
  <2>2. SubSeq(b, 1, c) \o SubSeq(b, c + 1, Len(b)) = SubSeq(b, 1, Len(b))
    <3>1. 1 \in 1 .. Len(b) + 1 /\ c \in 1 - 1 .. Len(b) /\ Len(b) \in c .. Len(b)
        BY <1>2, <1>4
    <3> QED BY <1>2, <3>1, ConcatAdjacentSubSeq
  <2>3. SubSeq(b, 1, Len(b)) = b
    BY <1>2
  <2> QED BY <2>1, <2>2, <2>3
<1>6. ASSUME behind # <<>> PROVE \E p \in Patterns : IsStrictPrefix(behind, p)
  <2>1. h # 0
    <3> HIDE DEF behind
    <3> QED BY <1>5, <1>6
  <2>2. PICK p \in Patterns : h < Len(p) /\ SubSeq(b, Len(b) - h + 1, Len(b)) = SubSeq(p, 1, h)
    BY <1>3, <2>1 DEF Begins
  <2>3. p \in Seq(Byte) /\ Len(p) \in Nat
    BY PatternType
  <2>4. behind = SubSeq(p, 1, h)
    BY <2>2
  <2>5. SubSeq(behind, 1, Len(behind)) = behind
    <3> HIDE DEF behind
    <3> QED BY <1>5
  <2> HIDE DEF behind
  <2>6. Len(behind) < Len(p) /\ Len(behind) \in Nat
    BY <1>4, <1>5, <2>2
  <2>7. behind # p
    BY <2>3, <2>6
  <2>8. SubSeq(p, 1, Len(behind)) = behind
    BY <1>5, <2>4
  <2>9. IsStrictPrefix(behind, p)
    BY <2>5, <2>6, <2>7, <2>8 DEF IsStrictPrefix, IsPrefix
  <2> QED BY <2>9
<1> HIDE DEF front, behind, c
<1>7. Restore(front) \in Seq(Symbol) /\ Unrestored(Restore(front)) = front
    BY <1>5, RestoreWholeType, RestoreHasInverse
<1> QED BY <1>1, <1>5, <1>6, <1>7 DEF b

\* Where a fragment ends cannot be seen, whatever text follows it, unless it ends right behind
\* the first byte of a placeholder.
LEMMA PushTextIsInvisible ==
    ASSUME NEW held \in Seq(Byte), NEW text \in Seq(Byte), Patterns = {} => held = <<>>,
           NEW u \in Seq(Byte),
           held \o text # <<>> /\ u # <<>> =>
                At((held \o text) \o u, Len(held \o text)) = {}
    PROVE  Restore((held \o text) \o u)
                = PushText(held, text).out \o Restore(PushText(held, text).pending \o u)
<1> DEFINE b == held \o text
           c == Len(b) - HoldLen(b)
           t == b \o u
<1>1. /\ PushText(held, text).out = Restore(SubSeq(b, 1, c))
      /\ PushText(held, text).pending = SubSeq(b, c + 1, Len(b))
    BY PushTextIs
<1>2. b \in Seq(Byte) /\ Len(b) \in Nat
    OBVIOUS
<1>3. b # <<>> /\ u # <<>> => At(b \o u, Len(b)) = {}
    OBVIOUS
<1> HIDE DEF b
<1>4. CutsCleanly(t, c)
    BY <1>2, <1>3, HoldCutsCleanly
<1>5. c \in 0 .. Len(b)
    BY <1>2, HoldLenIs
<1>6. t \in Seq(Byte) /\ Len(t) = Len(b) + Len(u) /\ Len(u) \in Nat
    BY <1>2
<1> HIDE DEF c
<1>7. /\ SubSeq(t, 1, c) = SubSeq(b, 1, c)
      /\ SubSeq(t, c + 1, Len(t)) = SubSeq(b, c + 1, Len(b)) \o u
    BY <1>2, <1>5, CutOfConcat
<1> HIDE DEF t
<1>8. c \in 0 .. Len(t)
    BY <1>2, <1>5, <1>6
<1>9. Restore(t) = Restore(SubSeq(t, 1, c)) \o Restore(SubSeq(t, c + 1, Len(t)))
    BY <1>4, <1>6, <1>8, RestoreSplits
<1> QED BY <1>1, <1>7, <1>9 DEF b, t

-----------------------------------------------------------------------------
\* The text of a stream of events

EventText(e) == IF e.field = Untouched THEN <<>> ELSE e.text

LEMMA TextOfIs == \A es : TextOf(es) = FlattenSeq([i \in DOMAIN es |-> EventText(es[i])])
BY DEF TextOf, EventText

LEMMA EventTextType == ASSUME NEW S, NEW e \in Events(S) PROVE EventText(e) \in Seq(S)
BY DEF Events, EventText

LEMMA TextOfType ==
    ASSUME NEW S, NEW es \in Seq(Events(S))
    PROVE  /\ [i \in DOMAIN es |-> EventText(es[i])] \in Seq(Seq(S))
           /\ TextOf(es) \in Seq(S)
<1> DEFINE f == [i \in DOMAIN es |-> EventText(es[i])]
<1>1. DOMAIN es = 1 .. Len(es) /\ Len(es) \in Nat
    OBVIOUS
<1>2. \A i \in DOMAIN es : EventText(es[i]) \in Seq(S)
  <2>1. \A i \in DOMAIN es : es[i] \in Events(S)
    OBVIOUS
  <2> QED BY <2>1, EventTextType
<1>3. f \in Seq(Seq(S))
    BY <1>1, <1>2
<1>4. FlattenSeq(f) \in Seq(S)
  <2> HIDE DEF f
  <2> QED BY <1>3, FlattenType
<1> QED BY <1>3, <1>4, TextOfIs

LEMMA TextOfConcat ==
    ASSUME NEW S, NEW es \in Seq(Events(S)), NEW fs \in Seq(Events(S))
    PROVE  TextOf(es \o fs) = TextOf(es) \o TextOf(fs)
<1> DEFINE F(u) == [i \in DOMAIN u |-> EventText(u[i])]
<1>1. F(es) \in Seq(Seq(S)) /\ F(fs) \in Seq(Seq(S))
    BY TextOfType
<1>2. FlattenSeq(F(es) \o F(fs)) = FlattenSeq(F(es)) \o FlattenSeq(F(fs))
  <2> HIDE DEF F
  <2> QED BY <1>1, FlattenConcat
<1>3. F(es \o fs) = F(es) \o F(fs)
  <2>1. es \o fs \in Seq(Events(S))
    OBVIOUS
  <2>2. F(es \o fs) \in Seq(Seq(S))
    BY <2>1, TextOfType
  <2>3. Len(F(es \o fs)) = Len(es) + Len(fs) /\ Len(F(es)) = Len(es) /\ Len(F(fs)) = Len(fs)
    OBVIOUS
  <2>4. ASSUME NEW i \in 1 .. Len(es) + Len(fs)
        PROVE  F(es \o fs)[i] = IF i <= Len(es) THEN F(es)[i] ELSE F(fs)[i - Len(es)]
    <3>1. F(es \o fs)[i] = EventText((es \o fs)[i])
        OBVIOUS
    <3>2. CASE i <= Len(es)
      <4>1. (es \o fs)[i] = es[i] /\ F(es)[i] = EventText(es[i])
        BY <3>2
      <4> QED BY <3>1, <3>2, <4>1
    <3>3. CASE ~(i <= Len(es))
      <4>1. i - Len(es) \in DOMAIN fs
        BY <3>3
      <4>2. (es \o fs)[i] = fs[i - Len(es)] /\ F(fs)[i - Len(es)] = EventText(fs[i - Len(es)])
        BY <3>3, <4>1
      <4> QED BY <3>1, <3>3, <4>2
    <3> QED BY <3>2, <3>3
  <2>5. /\ F(es) \o F(fs) \in Seq(Seq(S))
        /\ Len(F(es) \o F(fs)) = Len(es) + Len(fs)
        /\ \A i \in 1 .. Len(es) + Len(fs) :
              (F(es) \o F(fs))[i] = IF i <= Len(es) THEN F(es)[i] ELSE F(fs)[i - Len(es)]
    <3>1. /\ F(es) \o F(fs) \in Seq(Seq(S))
          /\ Len(F(es) \o F(fs)) = Len(F(es)) + Len(F(fs))
          /\ \A i \in 1 .. Len(F(es)) + Len(F(fs)) :
                (F(es) \o F(fs))[i] = IF i <= Len(F(es)) THEN F(es)[i] ELSE F(fs)[i - Len(F(es))]
      <4> HIDE DEF F
      <4> QED BY <1>1, ConcatProperties
    <3> HIDE DEF F
    <3> QED BY <2>3, <3>1
  <2> HIDE DEF F
  <2> QED BY <2>2, <2>3, <2>4, <2>5, SeqEqual
<1> QED BY <1>2, <1>3, TextOfIs

LEMMA TextOfNone == TextOf(<<>>) = <<>>
BY DEF TextOf, FlattenSeq

LEMMA TextOfOne == ASSUME NEW S, NEW e \in Events(S) PROVE TextOf(<<e>>) = EventText(e)
<1>1. [i \in DOMAIN <<e>> |-> EventText(<<e>>[i])] = <<EventText(e)>>
    OBVIOUS
<1>2. FlattenSeq(<<EventText(e)>>) = EventText(e)
    BY EventTextType, FlattenOne
<1> QED BY <1>1, <1>2, TextOfIs

LEMMA TextOfAppend ==
    ASSUME NEW S, NEW es \in Seq(Events(S)), NEW e \in Events(S)
    PROVE  TextOf(Append(es, e)) = TextOf(es) \o EventText(e)
<1>1. Append(es, e) = es \o <<e>> /\ <<e>> \in Seq(Events(S))
    OBVIOUS
<1>2. TextOf(es \o <<e>>) = TextOf(es) \o TextOf(<<e>>)
    BY <1>1, TextOfConcat
<1> QED BY <1>1, <1>2, TextOfOne

\* The text still to come.
Coming(k) == TextOf(SubSeq(events, k, Len(events)))

LEMMA StreamText ==
    ASSUME events \in Streams, NEW k \in 1 .. Len(events) + 1
    PROVE  /\ Pushed(k - 1) \in Seq(Byte) /\ Coming(k) \in Seq(Byte) /\ TextOf(events) \in Seq(Byte)
           /\ TextOf(events) = Pushed(k - 1) \o Coming(k)
           /\ k <= Len(events) =>
                /\ events[k] \in Events(Byte)
                /\ Pushed(k) = Pushed(k - 1) \o EventText(events[k])
                /\ Coming(k) = EventText(events[k]) \o Coming(k + 1)
<1>1. events \in Seq(Events(Byte)) /\ Len(events) \in Nat
    BY StreamsAssumption
<1>2. k \in Nat \ {0} /\ k - 1 \in Nat /\ k - 1 <= Len(events)
    BY <1>1
<1>3. /\ SubSeq(events, 1, k - 1) \in Seq(Events(Byte))
      /\ SubSeq(events, k, Len(events)) \in Seq(Events(Byte))
    BY <1>1, <1>2
<1>4. SubSeq(events, 1, k - 1) \o SubSeq(events, k, Len(events)) = events
  <2>1. 1 \in 1 .. Len(events) + 1 /\ k - 1 \in 1 - 1 .. Len(events) /\ Len(events) \in k - 1 .. Len(events)
    BY <1>1, <1>2
  <2>2. SubSeq(events, 1, k - 1) \o SubSeq(events, (k - 1) + 1, Len(events)) = SubSeq(events, 1, Len(events))
    BY <1>1, <2>1, ConcatAdjacentSubSeq
  <2>3. (k - 1) + 1 = k /\ SubSeq(events, 1, Len(events)) = events
    BY <1>1, <1>2
  <2> QED BY <2>2, <2>3
<1>5. /\ Pushed(k - 1) \in Seq(Byte) /\ Coming(k) \in Seq(Byte) /\ TextOf(events) \in Seq(Byte)
    BY <1>1, <1>3, TextOfType DEF Pushed, Coming
<1>6. TextOf(events) = Pushed(k - 1) \o Coming(k)
    BY <1>3, <1>4, TextOfConcat DEF Pushed, Coming
<1>7. ASSUME k <= Len(events)
      PROVE  /\ events[k] \in Events(Byte)
             /\ Pushed(k) = Pushed(k - 1) \o EventText(events[k])
             /\ Coming(k) = EventText(events[k]) \o Coming(k + 1)
  <2>1. events[k] \in Events(Byte)
    BY <1>1, <1>2, <1>7
  <2>2. /\ SubSeq(events, 1, k) = Append(SubSeq(events, 1, k - 1), events[k])
        /\ SubSeq(events, k, Len(events)) = <<events[k]>> \o SubSeq(events, k + 1, Len(events))
        /\ SubSeq(events, k + 1, Len(events)) \in Seq(Events(Byte))
        /\ <<events[k]>> \in Seq(Events(Byte))
    BY <1>1, <1>2, <1>7
  <2>3. Pushed(k) = Pushed(k - 1) \o EventText(events[k])
    BY <1>3, <2>1, <2>2, TextOfAppend DEF Pushed
  <2>4. Coming(k) = EventText(events[k]) \o Coming(k + 1)
    <3> DEFINE one == <<events[k]>>
               rest == SubSeq(events, k + 1, Len(events))
    <3>1. one \in Seq(Events(Byte)) /\ rest \in Seq(Events(Byte))
      BY <2>2
    <3>2. TextOf(one) = EventText(events[k])
      BY <2>1, TextOfOne
    <3>3. SubSeq(events, k, Len(events)) = one \o rest
      BY <2>2
    <3> HIDE DEF one, rest
    <3>4. TextOf(one \o rest) = TextOf(one) \o TextOf(rest)
      BY <3>1, TextOfConcat, Zenon
    <3>5. Coming(k) = TextOf(one \o rest)
      BY <3>3 DEF Coming
    <3>6. Coming(k + 1) = TextOf(rest)
      BY DEF Coming, rest
    <3> QED BY <3>2, <3>4, <3>5, <3>6, Zenon
  <2> QED BY <2>1, <2>3, <2>4
<1> QED BY <1>5, <1>6, <1>7

-----------------------------------------------------------------------------
\* The event restorer

\* Joining what was sent with the restoration of what is held and still to come gives the
\* restored text, as long as no fragment ended right behind a first byte.
CutsDoNotShow ==
    ~CutAfterFirstByte => TextOf(lines) \o Restore(pending \o Coming(next)) = Restore(TextOf(events))

SseInv == SseTypeOK /\ TextIsConserved /\ CutsDoNotShow

LEMMA EventsByteSymbol == Seq(Byte) \subseteq Seq(Symbol) /\ Events(Byte) \subseteq Events(Symbol)
<1>1. Byte \subseteq Symbol
    BY DEF Symbol
<1>2. Seq(Byte) \subseteq Seq(Symbol)
    BY <1>1, SeqMonotonic
<1> QED BY <1>2 DEF Events

LEMMA SymbolsAssociate ==
    \A s, t, u \in Seq(Symbol) : (s \o t) \o u = s \o (t \o u) /\ s \o t \in Seq(Symbol)
BY ConcatAssociative, ConcatProperties

LEMMA ConcatIsAssociative == \A s, t, u \in Seq(Symbol) : (s \o t) \o u = s \o (t \o u)
BY SymbolsAssociate, Zenon

LEMMA SseInitEstablishes == SseInit => SseInv
<1> SUFFICES ASSUME SseInit PROVE SseInv
    OBVIOUS
<1>1. /\ events \in Streams /\ events \in Seq(Events(Byte)) /\ Len(events) \in Nat
      /\ next = 1 /\ pending = <<>> /\ lines = <<>> /\ phase = "open" /\ terminated \in BOOLEAN
    BY StreamsAssumption DEF SseInit
<1>2. SseTypeOK
    BY <1>1 DEF SseTypeOK
<1>3. 1 \in 1 .. Len(events) + 1 /\ 1 - 1 = 0
    BY <1>1
<1>4. SubSeq(events, 1, 0) = <<>> /\ SubSeq(events, 1, Len(events)) = events
    BY <1>1
<1>5. Pushed(0) = <<>> /\ Coming(1) = TextOf(events) /\ TextOf(events) \in Seq(Byte)
    BY <1>1, <1>3, <1>4, TextOfNone, StreamText DEF Pushed, Coming
<1>6. TextIsConserved
  <2>1. Unrestored(<<>>) = <<>>
    BY DEF Unrestored, FlattenSeq
  <2>2. TextOf(lines) = <<>>
    BY <1>1, TextOfNone
  <2>3. Unrestored(TextOf(lines)) \o pending = Pushed(next - 1)
    BY <1>1, <1>3, <1>5, <2>1, <2>2
  <2> QED BY <1>1, <2>3 DEF TextIsConserved
<1>7. CutsDoNotShow
  <2>1. Restore(TextOf(events)) \in Seq(Symbol)
    BY <1>5, RestoreWholeType
  <2>2. <<>> \o TextOf(events) = TextOf(events) /\ <<>> \o Restore(TextOf(events)) = Restore(TextOf(events))
    BY <1>5, <2>1
  <2> QED BY <1>1, <1>5, <2>2, TextOfNone DEF CutsDoNotShow
<1> QED BY <1>2, <1>6, <1>7 DEF SseInv

\* What restoring one event does to the invariant, whether it is pushed or the last one,
\* found in event_buffer when the response ends.
LEMMA EventPreserves ==
    ASSUME SseInv, next <= Len(events), NEW r, r = RestoreEvent(events[next], pending)
    PROVE  /\ Append(lines, r.event) \in Seq(Events(Symbol))
           /\ r.pending \in Seq(Byte)
           /\ Unrestored(TextOf(Append(lines, r.event))) \o r.pending = Pushed(next)
           /\ r.pending # <<>> => \E p \in Patterns : IsStrictPrefix(r.pending, p)
           /\ ~CutAfterFirstByte =>
                TextOf(Append(lines, r.event)) \o Restore(r.pending \o Coming(next + 1))
                    = Restore(TextOf(events))
<1> DEFINE e == events[next]
           done == TextOf(lines)
           u == Coming(next + 1)
           all == TextOf(events)
<1>1. /\ events \in Streams /\ Len(events) \in Nat /\ next \in 1 .. Len(events) /\ next - 1 \in Nat
      /\ next \in 1 .. Len(events) + 1 /\ next + 1 \in 1 .. Len(events) + 1 /\ (next + 1) - 1 = next
      /\ pending \in Seq(Byte) /\ lines \in Seq(Events(Symbol))
    BY StreamsAssumption DEF SseInv, SseTypeOK
<1>2. /\ e \in Events(Byte) /\ e \in Events(Symbol)
      /\ Pushed(next - 1) \in Seq(Byte) /\ Pushed(next) \in Seq(Byte)
      /\ Coming(next) \in Seq(Byte) /\ u \in Seq(Byte) /\ all \in Seq(Byte)
      /\ Pushed(next) = Pushed(next - 1) \o EventText(e)
      /\ Coming(next) = EventText(e) \o u
      /\ all = Pushed(next) \o u
  <2>1. /\ e \in Events(Byte)
        /\ Pushed(next - 1) \in Seq(Byte) /\ Coming(next) \in Seq(Byte) /\ all \in Seq(Byte)
        /\ Pushed(next) = Pushed(next - 1) \o EventText(e)
        /\ Coming(next) = EventText(e) \o u
    BY <1>1, StreamText
  <2>2. Pushed((next + 1) - 1) \in Seq(Byte) /\ u \in Seq(Byte) /\ all = Pushed((next + 1) - 1) \o u
    BY <1>1, StreamText
  <2> QED BY <1>1, <2>1, <2>2, EventsByteSymbol
<1>3. done \in Seq(Symbol) /\ Unrestored(done) \in Seq(Symbol) /\ pending \in Seq(Symbol)
    BY <1>1, TextOfType, UnrestoredType, EventsByteSymbol
<1>4. /\ Unrestored(done) \o pending = Pushed(next - 1)
      /\ pending # <<>> => \E p \in Patterns : IsStrictPrefix(pending, p)
      /\ ~CutAfterFirstByte => done \o Restore(pending \o Coming(next)) = Restore(all)
    BY DEF SseInv, TextIsConserved, CutsDoNotShow
<1>5. CASE e.field = Untouched
  <2>1. r.event = e /\ r.pending = pending /\ EventText(e) = <<>>
    BY <1>5 DEF RestoreEvent, EventText
  <2>2. TextOf(Append(lines, e)) = done
    <3>1. TextOf(Append(lines, e)) = done \o EventText(e)
        BY <1>1, <1>2, TextOfAppend
    <3>2. done \o <<>> = done
        BY <1>3, ConcatEmptySeq
    <3> QED BY <2>1, <3>1, <3>2
  <2>3. Pushed(next) = Pushed(next - 1) /\ Coming(next) = u
    BY <1>2, <2>1, ConcatEmptySeq
  <2>4. Append(lines, e) \in Seq(Events(Symbol))
    BY <1>1, <1>2
  <2> QED BY <1>1, <1>4, <2>1, <2>2, <2>3, <2>4
<1>6. CASE e.field # Untouched
  <2> DEFINE b == pending \o e.text
             q == PushText(pending, e.text)
  <2>1. r.event = [e EXCEPT !.text = q.out] /\ r.pending = q.pending
    BY <1>6 DEF RestoreEvent
  <2>2. e.text \in Seq(Byte) /\ EventText(e) = e.text /\ e.field \in Fields
    BY <1>2, <1>6 DEF Events, EventText
  <2>3. Patterns = {} => pending = <<>>
    BY <1>4
  <2>4. /\ q.out \in Seq(Symbol) /\ q.pending \in Seq(Byte)
        /\ Unrestored(q.out) \o q.pending = b
        /\ q.pending # <<>> => \E p \in Patterns : IsStrictPrefix(q.pending, p)
    BY <1>1, <2>2, <2>3, PushTextConserves
  <2>5. r.event \in Events(Symbol) /\ EventText(r.event) = q.out
    BY <1>2, <1>6, <2>1, <2>4 DEF Events, EventText
  <2>6. /\ Append(lines, r.event) \in Seq(Events(Symbol))
        /\ TextOf(Append(lines, r.event)) = done \o q.out
    <3>1. Append(lines, r.event) \in Seq(Events(Symbol))
        BY <1>1, <2>5
    <3>2. TextOf(Append(lines, r.event)) = done \o EventText(r.event)
        BY <1>1, <2>5, TextOfAppend
    <3> HIDE DEF q
    <3> QED BY <2>5, <3>1, <3>2
  <2>7. b \in Seq(Byte) /\ Len(b) \in Nat
    BY <1>1, <2>2
  <2>8. Unrestored(done) \o b = Pushed(next)
    <3> DEFINE x == Unrestored(done)
               text == e.text
    <3>1. x \in Seq(Symbol) /\ pending \in Seq(Symbol) /\ text \in Seq(Symbol)
      BY <1>3, <2>2, EventsByteSymbol
    <3>2. Pushed(next) = (x \o pending) \o text
      BY <1>2, <1>4, <2>2
    <3> HIDE DEF x, text
    <3>3. (x \o pending) \o text = x \o (pending \o text)
      BY <3>1, ConcatIsAssociative, Zenon
    <3> QED BY <3>2, <3>3 DEF x, text
  <2>9. Unrestored(done \o q.out) \o q.pending = Pushed(next)
    <3>1. Unrestored(done \o q.out) = Unrestored(done) \o Unrestored(q.out)
        BY <1>3, <2>4, UnrestoredConcat
    <3>2. (Unrestored(done) \o Unrestored(q.out)) \o q.pending
            = Unrestored(done) \o (Unrestored(q.out) \o q.pending)
      <4> DEFINE x == Unrestored(done)
                 y == Unrestored(q.out)
                 z == q.pending
      <4>1. x \in Seq(Symbol)
        BY <1>3
      <4>2. y \in Seq(Symbol)
        <5> HIDE DEF q
        <5> QED BY <2>4, UnrestoredType, EventsByteSymbol
      <4>3. z \in Seq(Symbol)
        <5> HIDE DEF q
        <5> QED BY <2>4, EventsByteSymbol
      <4> HIDE DEF x, y, z
      <4>4. (x \o y) \o z = x \o (y \o z)
        BY <4>1, <4>2, <4>3, ConcatIsAssociative, Zenon
      <4> QED BY <4>4 DEF x, y, z
    <3> QED BY <2>4, <2>8, <3>1, <3>2
  <2>10. ASSUME ~CutAfterFirstByte
         PROVE  (done \o q.out) \o Restore(q.pending \o u) = Restore(all)
    <3>1. b # <<>> => At(b \o u, Len(b)) = {}
      <4> SUFFICES ASSUME b # <<>> PROVE At(b \o u, Len(b)) = {}
        OBVIOUS
      <4> DEFINE x == Unrestored(done)
                 n == Len(x)
      <4> HIDE DEF b, x
      <4>1. x \in Seq(Symbol) /\ b \in Seq(Symbol) /\ u \in Seq(Symbol) /\ n \in Nat
        BY <1>2, <1>3, <2>7, EventsByteSymbol DEF x
      <4>2. all = x \o (b \o u) /\ b \o u \in Seq(Symbol)
        <5>1. Pushed(next) = x \o b
            BY <2>8 DEF x, b
        <5>2. (x \o b) \o u = x \o (b \o u)
          <6> HIDE DEF u
          <6> QED BY <4>1, ConcatIsAssociative, Zenon
        <5>4. b \o u \in Seq(Symbol)
          <6> HIDE DEF u
          <6> QED BY <4>1
        <5>3. all = Pushed(next) \o u
            BY <1>2
        <5> HIDE DEF all, u
        <5> QED BY <5>1, <5>2, <5>3, <5>4
      <4>3. SubSeq(all, n + 1, Len(all)) = b \o u
        <5>1. \A s, t \in Seq(Symbol) : SubSeq(s \o t, Len(s) + 1, Len(s \o t)) = t
            BY PartsOfConcat
        <5> QED BY <4>1, <4>2, <5>1, Zenon
      <4>4. Len(all) = n + Len(b) + Len(u) /\ Len(u) \in Nat /\ Len(b) # 0
            /\ Len(Pushed(next)) = n + Len(b)
        BY <2>8, <4>1, <4>2, <2>7 DEF x
      <4>5. n \in 0 .. Len(all) /\ Len(b) \in 1 .. Len(all) - n
        BY <2>7, <4>1, <4>4
      <4>6. At(SubSeq(all, n + 1, Len(all)), Len(b)) = At(all, n + Len(b))
        <5> HIDE DEF all, n
        <5> QED BY <1>2, <4>5, AtBehind
      <4>7. Pushed(next) # <<>>
        <5>1. Len(Pushed(next)) # 0
            BY <2>7, <4>1, <4>4
        <5> QED BY <5>1
      <4>8. At(all, Len(Pushed(next))) = {}
        <5>1. next \in DOMAIN events
            BY <1>1, StreamsAssumption
        <5> QED BY <2>10, <4>7, <5>1 DEF CutAfterFirstByte
      <4> QED BY <4>3, <4>4, <4>6, <4>8
    <3>2. Restore(b \o u) = q.out \o Restore(q.pending \o u)
      <4> DEFINE text == e.text
      <4>1. pending \in Seq(Byte) /\ text \in Seq(Byte) /\ u \in Seq(Byte)
        BY <1>1, <1>2, <2>2
      <4>2. (pending \o text) # <<>> => At((pending \o text) \o u, Len(pending \o text)) = {}
        BY <3>1 DEF b
      <4> HIDE DEF text, u
      <4>3. Restore((pending \o text) \o u)
              = PushText(pending, text).out \o Restore(PushText(pending, text).pending \o u)
        BY <2>3, <4>1, <4>2, PushTextIsInvisible
      <4> QED BY <4>3 DEF text
    <3>3. b \o u = pending \o Coming(next)
      <4>1. (pending \o e.text) \o u = pending \o (e.text \o u)
        <5> DEFINE text == e.text
        <5>1. text \in Seq(Symbol) /\ u \in Seq(Symbol)
            BY <1>2, <2>2, EventsByteSymbol
        <5> HIDE DEF text, u
        <5>2. (pending \o text) \o u = pending \o (text \o u)
            BY <1>3, <5>1, ConcatIsAssociative, Zenon
        <5> QED BY <5>2 DEF text
      <4> QED BY <1>2, <2>2, <4>1
    <3>4. (done \o q.out) \o Restore(q.pending \o u) = done \o (q.out \o Restore(q.pending \o u))
      <4>1. q.pending \o u \in Seq(Byte)
        <5>1. q.pending \in Seq(Byte) /\ u \in Seq(Byte)
            BY <1>2, <2>4
        <5> HIDE DEF q, u
        <5> QED BY <5>1
      <4>2. Restore(q.pending \o u) \in Seq(Symbol)
        BY <4>1, RestoreWholeType
      <4> DEFINE last == Restore(q.pending \o u)
                 text == q.out
      <4>3. done \in Seq(Symbol) /\ text \in Seq(Symbol) /\ last \in Seq(Symbol)
        BY <1>3, <2>4, <4>2
      <4> HIDE DEF last, text, done
      <4>5. (done \o text) \o last = done \o (text \o last)
        BY <4>3, ConcatIsAssociative, Zenon
      <4> QED BY <4>5 DEF last, text
    <3> QED BY <1>4, <2>10, <3>2, <3>3, <3>4
  <2> QED BY <2>1, <2>4, <2>6, <2>9, <2>10
<1> QED BY <1>5, <1>6

LEMMA PushEventPreserves == SseInv /\ PushEvent => SseInv'
<1> SUFFICES ASSUME SseInv, PushEvent PROVE SseInv'
    OBVIOUS
<1> DEFINE r == RestoreEvent(events[next], pending)
<1>1. /\ events' = events /\ terminated' = terminated /\ phase' = phase /\ phase = "open"
      /\ lines' = Append(lines, r.event) /\ pending' = r.pending /\ next' = next + 1
      /\ next \in 1 .. Len(events) /\ Len(events) \in Nat
      /\ events \in Streams /\ terminated \in BOOLEAN
    BY StreamsAssumption DEF SseInv, SseTypeOK, PushEvent
<1>2. next <= Len(events) /\ (next + 1) - 1 = next /\ next + 1 \in 1 .. Len(events) + 1
    BY <1>1
<1>3. /\ lines' \in Seq(Events(Symbol)) /\ pending' \in Seq(Byte)
      /\ Unrestored(TextOf(lines')) \o pending' = Pushed(next)
      /\ pending' # <<>> => \E p \in Patterns : IsStrictPrefix(pending', p)
      /\ ~CutAfterFirstByte =>
            TextOf(lines') \o Restore(pending' \o Coming(next + 1)) = Restore(TextOf(events))
  <2> HIDE DEF r
  <2>1. r = RestoreEvent(events[next], pending)
    BY DEF r
  <2> QED BY <1>1, <1>2, <2>1, EventPreserves
<1> HIDE DEF r
<1>4. SseTypeOK'
    BY <1>1, <1>2, <1>3 DEF SseTypeOK
<1>5. CutAfterFirstByte' = CutAfterFirstByte
    BY <1>1 DEF CutAfterFirstByte, Pushed
<1>6. TextIsConserved'
    BY <1>1, <1>2, <1>3 DEF TextIsConserved, Pushed
<1>7. CutsDoNotShow'
    BY <1>1, <1>3, <1>5 DEF CutsDoNotShow, Coming
<1> QED BY <1>4, <1>6, <1>7 DEF SseInv

\* The end: the held text is restored and sent, in a line of its own if there is any.
LEMMA TailPreserves ==
    ASSUME NEW ls \in Seq(Events(Symbol)), NEW held \in Seq(Byte),
           NEW more, more = IF Restore(held) = <<>> THEN <<>>
                            ELSE <<[field |-> TailField, text |-> Restore(held)]>>
    PROVE  /\ ls \o more \in Seq(Events(Symbol))
           /\ TextOf(ls \o more) = TextOf(ls) \o Restore(held)
           /\ Unrestored(TextOf(ls \o more)) = Unrestored(TextOf(ls)) \o held
<1>1. /\ Restore(held) \in Seq(Symbol) /\ Unrestored(Restore(held)) = held
      /\ TextOf(ls) \in Seq(Symbol)
    BY RestoreWholeType, RestoreHasInverse, TextOfType
<1>2. more \in Seq(Events(Symbol)) /\ TextOf(more) = Restore(held)
  <2>1. CASE Restore(held) = <<>>
    BY <2>1, TextOfNone
  <2>2. CASE Restore(held) # <<>>
    <3> DEFINE tail == [field |-> TailField, text |-> Restore(held)]
    <3>1. tail \in Events(Symbol) /\ EventText(tail) = Restore(held)
        BY <1>1, StreamsAssumption DEF Events, EventText
    <3>2. more = <<tail>>
        BY <2>2
    <3> HIDE DEF tail
    <3>3. TextOf(<<tail>>) = EventText(tail) /\ <<tail>> \in Seq(Events(Symbol))
        BY <3>1, TextOfOne
    <3> QED BY <3>1, <3>2, <3>3
  <2> QED BY <2>1, <2>2
<1>3. ls \o more \in Seq(Events(Symbol)) /\ TextOf(ls \o more) = TextOf(ls) \o TextOf(more)
    BY <1>2, TextOfConcat, ConcatProperties
<1>4. Unrestored(TextOf(ls) \o Restore(held)) = Unrestored(TextOf(ls)) \o Unrestored(Restore(held))
    BY <1>1, UnrestoredConcat
<1> QED BY <1>1, <1>2, <1>3, <1>4

LEMMA FinishEventsPreserves == SseInv /\ FinishEvents => SseInv'
<1> SUFFICES ASSUME SseInv, FinishEvents PROVE SseInv'
    OBVIOUS
<1> DEFINE left == SubSeq(events, next, Len(events))
           last == IF left = <<>> THEN [out |-> <<>>, pending |-> pending]
                   ELSE [out |-> <<RestoreEvent(left[1], pending).event>>,
                         pending |-> RestoreEvent(left[1], pending).pending]
           more == IF Restore(last.pending) = <<>> THEN <<>>
                   ELSE <<[field |-> TailField, text |-> Restore(last.pending)]>>
           ls == lines \o last.out
           end == Len(events) + 1
<1>1. /\ events \in Streams /\ events \in Seq(Events(Byte)) /\ Len(events) \in Nat
      /\ next \in 1 .. Len(events) + 1 /\ next - 1 \in Nat /\ terminated \in BOOLEAN
      /\ pending \in Seq(Byte) /\ lines \in Seq(Events(Symbol))
    BY StreamsAssumption DEF SseInv, SseTypeOK
<1>2. /\ lines' = (lines \o last.out) \o more
      /\ left = <<>> \/ Len(left) = 1
      /\ pending' = <<>> /\ next' = end /\ phase' = "ended"
      /\ events' = events /\ terminated' = terminated
    BY DEF FinishEvents
<1>3. end \in 1 .. Len(events) + 1 /\ end - 1 = Len(events) /\ end \in Nat
    BY <1>1
<1>4. Pushed(Len(events)) = TextOf(events) /\ Coming(end) = <<>> /\ TextOf(events) \in Seq(Byte)
  <2>1. SubSeq(events, 1, Len(events)) = events /\ SubSeq(events, end, Len(events)) = <<>>
    BY <1>1
  <2>2. TextOf(events) \in Seq(Byte)
    BY <1>1, StreamText
  <2> HIDE DEF end
  <2> QED BY <2>1, <2>2, TextOfNone DEF Pushed, Coming
<1> HIDE DEF end
<1>5. /\ ls \in Seq(Events(Symbol)) /\ last.pending \in Seq(Byte)
      /\ Unrestored(TextOf(ls)) \o last.pending = TextOf(events)
      /\ ~CutAfterFirstByte => TextOf(ls) \o Restore(last.pending) = Restore(TextOf(events))
  <2>1. CASE left = <<>>
    <3>1. last = [out |-> <<>>, pending |-> pending]
        BY <2>1
    <3>2. next = end /\ next - 1 = Len(events)
      <4>1. Len(left) = 0
        BY <2>1
      <4>2. Len(left) = IF next <= Len(events) THEN Len(events) - next + 1 ELSE 0
        BY <1>1
      <4> HIDE DEF left
      <4> QED BY <1>1, <4>1, <4>2 DEF end
    <3>3. ls = lines /\ last.pending = pending
      <4>1. last.out = <<>> /\ last.pending = pending
        <5> HIDE DEF last
        <5> QED BY <3>1
      <4> HIDE DEF last
      <4> QED BY <1>1, <4>1
    <3>4. pending \o <<>> = pending
        BY <1>1
    <3> HIDE DEF ls, last
    <3> QED BY <1>1, <1>4, <3>2, <3>3, <3>4 DEF SseInv, TextIsConserved, CutsDoNotShow
  <2>2. CASE left # <<>>
    <3> DEFINE r == RestoreEvent(events[next], pending)
    <3>1. next = Len(events) /\ next \in 1 .. Len(events) /\ left[1] = events[next]
      <4>1. Len(left) = 1
        BY <1>2, <2>2
      <4>2. next = Len(events) + 1 => left = <<>>
        BY <1>1
      <4>3. next <= Len(events) => Len(left) = Len(events) - next + 1 /\ left[1] = events[next]
        BY <1>1
      <4>4. next <= Len(events)
        <5> HIDE DEF left
        <5> QED BY <1>1, <2>2, <4>2
      <4>5. Len(events) - next + 1 = 1
        BY <4>1, <4>3, <4>4, Zenon
      <4>6. next = Len(events)
        BY <1>1, <4>5
      <4> QED BY <1>1, <4>3, <4>4, <4>6
    <3>2. last = [out |-> <<r.event>>, pending |-> r.pending]
        BY <2>2, <3>1
    <3>3. last.pending = r.pending /\ last.out = <<r.event>>
      <4> HIDE DEF r, last
      <4> QED BY <3>2
    <3>4. ls = Append(lines, r.event)
      <4> HIDE DEF r, last
      <4> QED BY <1>1, <3>3
    <3>5. /\ Append(lines, r.event) \in Seq(Events(Symbol))
          /\ r.pending \in Seq(Byte)
          /\ Unrestored(TextOf(Append(lines, r.event))) \o r.pending = Pushed(next)
          /\ ~CutAfterFirstByte =>
                TextOf(Append(lines, r.event)) \o Restore(r.pending \o Coming(next + 1))
                    = Restore(TextOf(events))
      <4>1. next <= Len(events)
        BY <1>1, <3>1
      <4> HIDE DEF r
      <4>2. r = RestoreEvent(events[next], pending)
        BY DEF r
      <4> QED BY <4>1, <4>2, EventPreserves
    <3> HIDE DEF ls, last, r
    <3>6. next + 1 = end /\ r.pending \o <<>> = r.pending
        BY <3>1, <3>5 DEF end
    <3> QED BY <1>4, <3>1, <3>3, <3>4, <3>5, <3>6
  <2> QED BY <2>1, <2>2
<1>6. lines' = ls \o more
    BY <1>2
<1> HIDE DEF ls
<1>7. /\ ls \o more \in Seq(Events(Symbol))
      /\ TextOf(ls \o more) = TextOf(ls) \o Restore(last.pending)
      /\ Unrestored(TextOf(ls \o more)) = Unrestored(TextOf(ls)) \o last.pending
  <2> DEFINE held == last.pending
  <2>1. more = IF Restore(held) = <<>> THEN <<>> ELSE <<[field |-> TailField, text |-> Restore(held)]>>
    BY Zenon
  <2>2. held \in Seq(Byte)
    BY <1>5
  <2> HIDE DEF more, held, last
  <2>3. /\ ls \o more \in Seq(Events(Symbol))
        /\ TextOf(ls \o more) = TextOf(ls) \o Restore(held)
        /\ Unrestored(TextOf(ls \o more)) = Unrestored(TextOf(ls)) \o held
    BY <1>5, <2>1, <2>2, TailPreserves
  <2> QED BY <2>3 DEF held
<1> HIDE DEF more, last, left
<1>8. SseTypeOK'
    BY <1>1, <1>2, <1>3, <1>6, <1>7 DEF SseTypeOK
<1>9. CutAfterFirstByte' = CutAfterFirstByte
    BY <1>2 DEF CutAfterFirstByte, Pushed
<1>10. TextIsConserved'
  <2>1. Unrestored(TextOf(lines')) = TextOf(events) /\ TextOf(events) \o <<>> = TextOf(events)
    BY <1>4, <1>5, <1>6, <1>7
  <2>2. Pushed(end - 1) = TextOf(events)
    BY <1>3, <1>4
  <2>3. (Unrestored(TextOf(lines)) \o pending = Pushed(next - 1))'
    BY <1>2, <2>1, <2>2 DEF Pushed
  <2> QED BY <1>2, <2>3 DEF TextIsConserved
<1>11. CutsDoNotShow'
  <2>1. ASSUME ~CutAfterFirstByte PROVE TextOf(lines') \o Restore(<<>> \o <<>>) = Restore(TextOf(events))
    <3>1. TextOf(lines') = Restore(TextOf(events)) /\ Restore(TextOf(events)) \in Seq(Symbol)
        BY <1>4, <1>5, <1>6, <1>7, <2>1, RestoreWholeType
    <3>2. Restore(<<>> \o <<>>) = <<>>
      <4>1. <<>> \o <<>> = <<>>
        OBVIOUS
      <4> QED BY <4>1 DEF Restore, RenderedUpTo, FlattenSeq
    <3> QED BY <3>1, <3>2
  <2>2. (Coming(next))' = <<>>
    BY <1>2, <1>4 DEF Coming
  <2> QED BY <1>2, <1>9, <2>1, <2>2 DEF CutsDoNotShow
<1> QED BY <1>8, <1>10, <1>11 DEF SseInv

LEMMA SseStepPreserves == SseInv /\ [SseNext]_sseVars => SseInv'
<1> SUFFICES ASSUME SseInv, [SseNext]_sseVars PROVE SseInv'
    OBVIOUS
<1>1. CASE PushEvent
    BY <1>1, PushEventPreserves
<1>2. CASE FinishEvents
    BY <1>2, FinishEventsPreserves
<1>3. CASE EventsBreakOff
    BY <1>3 DEF EventsBreakOff, SseInv, SseTypeOK, TextIsConserved, CutsDoNotShow, CutAfterFirstByte,
            Coming, Pushed
<1>4. CASE UNCHANGED sseVars
    BY <1>4 DEF sseVars, SseInv, SseTypeOK, TextIsConserved, CutsDoNotShow, CutAfterFirstByte,
            Coming, Pushed
<1> QED BY <1>1, <1>2, <1>3, <1>4 DEF SseNext

THEOREM SseInvariant == SseSpec => []SseInv
<1> QED BY SseInitEstablishes, SseStepPreserves, PTL DEF SseSpec

\* No byte of an event stream is dropped, doubled or reordered between its events, whatever the
\* placeholders and wherever the fragments are cut, and nothing but the beginning of a
\* placeholder is held (push_text, SseStreamRestorer::finish).
THEOREM EventsLoseNothing == SseSpec => []TextIsConserved
<1>1. SseInv => TextIsConserved
    BY DEF SseInv
<1> QED BY <1>1, SseInvariant, PTL

\* A placeholder cut anywhere but behind its first byte, into any number of fragments, is restored
\* (placeholder_prefix_suffix_len).
THEOREM EventsRestoreEverySecret == SseSpec => []JoinedTextIsRestored
<1> DEFINE Ended == phase = "ended" => pending = <<>> /\ next = Len(events) + 1
<1>1. SseInit => Ended
    BY DEF SseInit
<1>2. Ended /\ [SseNext]_sseVars => Ended'
    BY DEF SseNext, PushEvent, FinishEvents, EventsBreakOff, sseVars
<1>3. SseInv /\ Ended => JoinedTextIsRestored
  <2> SUFFICES ASSUME SseInv, Ended, phase = "ended", ~CutAfterFirstByte
               PROVE  TextOf(lines) = Restore(TextOf(events))
    BY DEF JoinedTextIsRestored
  <2>1. Coming(next) = <<>>
    <3>1. events \in Seq(Events(Byte))
        BY StreamsAssumption DEF SseInv, SseTypeOK
    <3>2. SubSeq(events, Len(events) + 1, Len(events)) = <<>>
        BY <3>1
    <3> QED BY <3>2, TextOfNone DEF Coming
  <2>2. Restore(<<>> \o <<>>) = <<>>
    <3>1. <<>> \o <<>> = <<>>
        OBVIOUS
    <3> QED BY <3>1 DEF Restore, RenderedUpTo, FlattenSeq
  <2>3. TextOf(lines) \o <<>> = TextOf(lines)
    <3>1. TextOf(lines) \in Seq(Symbol)
        BY TextOfType DEF SseInv, SseTypeOK
    <3> QED BY <3>1
  <2> QED BY <2>1, <2>2, <2>3 DEF SseInv, CutsDoNotShow
<1> QED BY <1>1, <1>2, <1>3, SseInvariant, PTL DEF SseSpec

-----------------------------------------------------------------------------
\* Frames and messages

\* The message that is not complete at the end of fs: whether it is text, its payload so far,
\* and whether there is none.
OpenText(fs) == \E k \in 1 .. Len(fs) : fs[k].op = "text" /\ SameMessage(fs, k, Len(fs) + 1)
OpenPayload(fs) ==
    FlattenSeq([k \in 1 .. Len(fs) |->
        IF SameMessage(fs, k, Len(fs) + 1) THEN fs[k].payload ELSE <<>>])
Between(fs) == \A k \in 1 .. Len(fs) : ~SameMessage(fs, k, Len(fs) + 1)

\* What a frame behind fs adds to its message.
Added(e) == IF DataFrame(e) THEN e.payload ELSE <<>>

\* Whether two frames are of one message is seen from the frames up to the second one.
LEMMA SameMessageSoFar ==
    ASSUME NEW S, NEW fs \in Seq(S), NEW e \in S,
           NEW k \in 1 .. Len(fs), NEW j \in 1 .. Len(fs) + 1
    PROVE  SameMessage(Append(fs, e), k, j) <=> SameMessage(fs, k, j)
<1> DEFINE gs == Append(fs, e)
<1>1. \A m \in 1 .. Len(fs) : gs[m] = fs[m]
    OBVIOUS
<1>2. \A m \in k .. j - 1 : m \in 1 .. Len(fs)
    OBVIOUS
<1> HIDE DEF gs
<1>3. SameMessage(gs, k, j) <=> SameMessage(fs, k, j)
    BY <1>1, <1>2, Zenon DEF SameMessage
<1> QED BY <1>3 DEF gs

LEMMA FramePayloads ==
    ASSUME NEW S, NEW fs \in Seq(Frames(S)), NEW j \in Nat, NEW n \in 0 .. Len(fs)
    PROVE  [k \in 1 .. n |-> IF SameMessage(fs, k, j) THEN fs[k].payload ELSE <<>>] \in [1 .. n -> Seq(S)]
<1>1. \A k \in 1 .. n : fs[k] \in Frames(S)
    OBVIOUS
<1>2. \A k \in 1 .. n : fs[k].payload \in Seq(S)
    BY <1>1 DEF Frames
<1>3. <<>> \in Seq(S)
    OBVIOUS
<1> QED BY <1>2, <1>3

LEMMA PayloadGrows ==
    ASSUME NEW S, NEW fs \in Seq(Frames(S)), NEW e \in Frames(S)
    PROVE  LET gs == Append(fs, e)
               j == Len(fs) + 1
           IN  /\ OpenPayload(fs) \in Seq(S) /\ Added(e) \in Seq(S)
               /\ Payload(gs, j) = OpenPayload(fs) \o Added(e)
               /\ OpenPayload(gs) = IF Completes(e) THEN <<>> ELSE Payload(gs, j)
<1> DEFINE gs == Append(fs, e)
           n == Len(fs)
           f == [k \in 1 .. n |-> IF SameMessage(fs, k, n + 1) THEN fs[k].payload ELSE <<>>]
           g == [k \in 1 .. n + 1 |-> IF SameMessage(gs, k, n + 1) THEN gs[k].payload ELSE <<>>]
           h == [k \in 1 .. n + 1 |-> IF SameMessage(gs, k, n + 2) THEN gs[k].payload ELSE <<>>]
<1>1. /\ gs \in Seq(Frames(S)) /\ Len(gs) = n + 1 /\ n \in Nat
      /\ gs[n + 1] = e /\ \A k \in 1 .. n : gs[k] = fs[k]
    OBVIOUS
<1>2. \A k \in 1 .. n : SameMessage(gs, k, n + 1) <=> SameMessage(fs, k, n + 1)
  <2>1. n + 1 \in 1 .. n + 1
    BY <1>1
  <2> QED BY <2>1, SameMessageSoFar
<1> HIDE DEF gs, n
<1>3. SameMessage(gs, n + 1, n + 1) <=> DataFrame(e)
  <2>1. n + 1 .. (n + 1) - 1 = {}
    BY <1>1
  <2> QED BY <1>1, <2>1 DEF SameMessage
<1>4. f \in [1 .. n -> Seq(S)] /\ g \in [1 .. n + 1 -> Seq(S)]
  <2>1. n \in 0 .. Len(fs) /\ n + 1 \in 0 .. Len(gs) /\ n + 1 \in Nat
    BY <1>1 DEF n
  <2> QED BY <1>1, <2>1, FramePayloads
<1>5. (\A k \in 1 .. n : g[k] = f[k]) /\ g[n + 1] = Added(e)
  <2>1. \A k \in 1 .. n : k \in 1 .. n + 1
    BY <1>1
  <2>2. n + 1 \in 1 .. n + 1
    BY <1>1
  <2>3. g[n + 1] = Added(e)
    BY <1>1, <1>3, <2>2 DEF Added
  <2>4. \A k \in 1 .. n : g[k] = f[k]
    BY <1>1, <1>2, <2>1
  <2> QED BY <2>3, <2>4
<1>6. OpenPayload(fs) = FlattenSeq(f) /\ Payload(gs, n + 1) = FlattenSeq(g)
    BY DEF OpenPayload, Payload, n
<1>7. OpenPayload(gs) = FlattenSeq(h)
  <2>1. Len(gs) = n + 1 /\ (n + 1) + 1 = n + 2
    BY <1>1
  <2> QED BY <2>1 DEF OpenPayload
<1>8. \A k \in 1 .. n + 1 : SameMessage(gs, k, n + 2) <=> SameMessage(gs, k, n + 1) /\ ~Completes(e)
  <2> TAKE k \in 1 .. n + 1
  <2>1. k .. (n + 2) - 1 = (k .. (n + 1) - 1) \cup {n + 1}
    BY <1>1
  <2> QED BY <1>1, <2>1 DEF SameMessage
<1>9. FlattenSeq(h) = IF Completes(e) THEN <<>> ELSE FlattenSeq(g)
  <2>1. CASE Completes(e)
    <3>1. h \in [1 .. n + 1 -> {<<>>}]
        BY <1>8, <2>1
    <3>2. n + 1 \in Nat
        BY <1>1
    <3> HIDE DEF h
    <3> QED BY <2>1, <3>1, <3>2, FlattenOfEmpties
  <2>2. CASE ~Completes(e)
    <3>1. h = g
        BY <1>8, <2>2
    <3> HIDE DEF h, g
    <3> QED BY <2>2, <3>1
  <2> QED BY <2>1, <2>2
<1> HIDE DEF f, g, h
<1>10. FlattenSeq(g) = FlattenSeq(f) \o g[n + 1] /\ FlattenSeq(f) \in Seq(S) /\ g[n + 1] \in Seq(S)
  <2>1. n + 1 \in 1 .. n + 1
    BY <1>1
  <2> QED BY <1>1, <1>4, <1>5, <2>1, FlattenGrows
<1>11. /\ OpenPayload(fs) \in Seq(S) /\ Added(e) \in Seq(S)
       /\ Payload(gs, n + 1) = OpenPayload(fs) \o Added(e)
       /\ OpenPayload(gs) = IF Completes(e) THEN <<>> ELSE Payload(gs, n + 1)
    BY <1>5, <1>6, <1>7, <1>9, <1>10
<1> QED BY <1>11 DEF gs, n

LEMMA TextGrows ==
    ASSUME NEW S, NEW fs \in Seq(Frames(S)), NEW e \in Frames(S)
    PROVE  LET gs == Append(fs, e)
           IN  /\ OfText(gs, Len(fs) + 1) <=> DataFrame(e) /\ (OpenText(fs) \/ e.op = "text")
               /\ OpenText(gs) <=> ~Completes(e) /\ (OpenText(fs) \/ e.op = "text")
               /\ \A j \in 1 .. Len(fs) : OfText(gs, j) <=> OfText(fs, j)
               /\ \A j \in 1 .. Len(fs) : Payload(gs, j) = Payload(fs, j)
<1> DEFINE gs == Append(fs, e)
           n == Len(fs)
<1>1. /\ gs \in Seq(Frames(S)) /\ Len(gs) = n + 1 /\ n \in Nat
      /\ gs[n + 1] = e /\ \A k \in 1 .. n : gs[k] = fs[k]
    OBVIOUS
<1>2. \A k \in 1 .. n, j \in 1 .. n + 1 : SameMessage(gs, k, j) <=> SameMessage(fs, k, j)
    BY SameMessageSoFar
<1>3. OpenText(fs) <=> \E k \in 1 .. n : fs[k].op = "text" /\ SameMessage(fs, k, n + 1)
    BY DEF OpenText
<1> HIDE DEF gs, n
<1>4. SameMessage(gs, n + 1, n + 1) <=> DataFrame(e)
  <2>1. n + 1 .. (n + 1) - 1 = {}
    BY <1>1
  <2> QED BY <1>1, <2>1 DEF SameMessage
<1>5. \A k \in 1 .. n + 1 : k \in 1 .. n \/ k = n + 1
    BY <1>1
<1>6. n + 1 \in 1 .. n + 1 /\ \A k \in 1 .. n : k \in 1 .. n + 1
    BY <1>1
<1>7. e.op = "text" => DataFrame(e)
    BY DEF DataFrame
<1>8. (\E k \in 1 .. n + 1 : gs[k].op = "text" /\ SameMessage(gs, k, n + 1))
        <=> OpenText(fs) \/ e.op = "text"
    BY <1>1, <1>2, <1>3, <1>4, <1>5, <1>6, <1>7
<1>9. OfText(gs, n + 1) <=> DataFrame(e) /\ (OpenText(fs) \/ e.op = "text")
    BY <1>1, <1>8 DEF OfText
<1>10. \A k \in 1 .. n + 1 : SameMessage(gs, k, n + 2) <=> SameMessage(gs, k, n + 1) /\ ~Completes(e)
  <2> TAKE k \in 1 .. n + 1
  <2>1. k .. (n + 2) - 1 = (k .. (n + 1) - 1) \cup {n + 1}
    BY <1>1
  <2> QED BY <1>1, <2>1 DEF SameMessage
<1>11. OpenText(gs) <=> \E k \in 1 .. n + 1 : gs[k].op = "text" /\ SameMessage(gs, k, n + 2)
  <2>1. Len(gs) = n + 1 /\ (n + 1) + 1 = n + 2
    BY <1>1
  <2> QED BY <2>1 DEF OpenText
<1>12. OpenText(gs) <=> ~Completes(e) /\ (OpenText(fs) \/ e.op = "text")
    BY <1>8, <1>10, <1>11
<1>13. ASSUME NEW j \in 1 .. n
       PROVE  (OfText(gs, j) <=> OfText(fs, j)) /\ Payload(gs, j) = Payload(fs, j)
  <2>1. j \in 1 .. n + 1 /\ \A k \in 1 .. j : k \in 1 .. n
    BY <1>1
  <2>2. \A k \in 1 .. j : gs[k] = fs[k] /\ (SameMessage(gs, k, j) <=> SameMessage(fs, k, j))
    BY <1>1, <1>2, <2>1
  <2>3. [k \in 1 .. j |-> IF SameMessage(gs, k, j) THEN gs[k].payload ELSE <<>>]
          = [k \in 1 .. j |-> IF SameMessage(fs, k, j) THEN fs[k].payload ELSE <<>>]
    BY <2>2
  <2>4. Payload(gs, j) = Payload(fs, j)
    BY <2>3, Zenon DEF Payload
  <2>5. OfText(gs, j) <=> OfText(fs, j)
    BY <1>1, <2>2 DEF OfText
  <2> QED BY <2>4, <2>5
<1> QED BY <1>9, <1>12, <1>13 DEF gs, n

LEMMA PayloadType ==
    ASSUME NEW S, NEW fs \in Seq(Frames(S)), NEW j \in 1 .. Len(fs)
    PROVE  Payload(fs, j) \in Seq(S)
<1> DEFINE f == [k \in 1 .. j |-> IF SameMessage(fs, k, j) THEN fs[k].payload ELSE <<>>]
<1>1. f \in [1 .. j -> Seq(S)]
    BY FramePayloads
<1>2. f \in Seq(Seq(S))
  <2> HIDE DEF f
  <2> QED BY <1>1
<1> HIDE DEF f
<1>3. FlattenSeq(f) \in Seq(S)
    BY <1>2, FlattenType
<1> QED BY <1>3 DEF Payload, f

\* The complete messages and the other frames, one frame further.
LEMMA MessagesGrow ==
    ASSUME NEW S, NEW fs \in Seq(Frames(S)), NEW e \in Frames(S)
    PROVE  LET gs == Append(fs, e)
               j == Len(fs) + 1
           IN  /\ TextMessages(fs) \in Seq(Seq(S)) /\ OtherFrames(fs) \in Seq(Frames(S))
               /\ Payload(gs, j) \in Seq(S)
               /\ TextMessages(gs) = TextMessages(fs) \o
                    IF Completes(e) /\ OfText(gs, j) THEN <<Payload(gs, j)>> ELSE <<>>
               /\ OtherFrames(gs) = OtherFrames(fs) \o IF OfText(gs, j) THEN <<>> ELSE <<e>>
<1> DEFINE gs == Append(fs, e)
           n == Len(fs)
           M(hs, j) == IF Completes(hs[j]) /\ OfText(hs, j) THEN <<Payload(hs, j)>> ELSE <<>>
           O(hs, j) == IF OfText(hs, j) THEN <<>> ELSE <<hs[j]>>
<1>1. /\ gs \in Seq(Frames(S)) /\ Len(gs) = n + 1 /\ n \in Nat
      /\ gs[n + 1] = e /\ \A k \in 1 .. n : gs[k] = fs[k]
    OBVIOUS
<1>2. \A j \in 1 .. n : (OfText(gs, j) <=> OfText(fs, j)) /\ Payload(gs, j) = Payload(fs, j)
    BY TextGrows
<1>3. \A j \in 1 .. n : Payload(fs, j) \in Seq(S)
    BY PayloadType
<1> HIDE DEF gs
<1>4. \A j \in 1 .. n + 1 : Payload(gs, j) \in Seq(S)
    BY <1>1, PayloadType
<1>5. \A j \in 1 .. n : M(gs, j) = M(fs, j) /\ O(gs, j) = O(fs, j)
    BY <1>1, <1>2
<1>6. \A j \in 1 .. n : M(fs, j) \in Seq(Seq(S))
    BY <1>3
<1>7. \A j \in 1 .. n + 1 : M(gs, j) \in Seq(Seq(S))
    BY <1>4
<1>8. \A j \in 1 .. n : O(fs, j) \in Seq(Frames(S))
  <2>1. \A j \in 1 .. n : fs[j] \in Frames(S)
    OBVIOUS
  <2> QED BY <2>1
<1>9. \A j \in 1 .. n + 1 : O(gs, j) \in Seq(Frames(S))
  <2>1. \A j \in 1 .. n + 1 : gs[j] \in Frames(S)
    BY <1>1
  <2> QED BY <2>1
<1>10. n + 1 \in 1 .. n + 1 /\ \A j \in 1 .. n : j \in 1 .. n + 1
    BY <1>1
<1> DEFINE a == [j \in 1 .. n |-> M(fs, j)]
           b == [j \in 1 .. n + 1 |-> M(gs, j)]
           c == [j \in 1 .. n |-> O(fs, j)]
           d == [j \in 1 .. n + 1 |-> O(gs, j)]
<1>11. /\ TextMessages(fs) = FlattenSeq(a) /\ TextMessages(gs) = FlattenSeq(b)
       /\ OtherFrames(fs) = FlattenSeq(c) /\ OtherFrames(gs) = FlattenSeq(d)
    BY <1>1, Zenon DEF TextMessages, OtherFrames
<1>12. /\ b[n + 1] = IF Completes(e) /\ OfText(gs, n + 1) THEN <<Payload(gs, n + 1)>> ELSE <<>>
       /\ d[n + 1] = IF OfText(gs, n + 1) THEN <<>> ELSE <<e>>
    BY <1>1, <1>10
<1> HIDE DEF M, O
<1>13. /\ a \in [1 .. n -> Seq(Seq(S))] /\ b \in [1 .. n + 1 -> Seq(Seq(S))]
       /\ c \in [1 .. n -> Seq(Frames(S))] /\ d \in [1 .. n + 1 -> Seq(Frames(S))]
       /\ \A j \in 1 .. n : b[j] = a[j] /\ d[j] = c[j]
  <2>1. a \in [1 .. n -> Seq(Seq(S))] /\ c \in [1 .. n -> Seq(Frames(S))]
    BY <1>5, <1>6, <1>7, <1>8, <1>9, <1>10
  <2>2. b \in [1 .. n + 1 -> Seq(Seq(S))] /\ d \in [1 .. n + 1 -> Seq(Frames(S))]
    BY <1>5, <1>6, <1>7, <1>8, <1>9, <1>10
  <2>3. ASSUME NEW j \in 1 .. n PROVE b[j] = a[j] /\ d[j] = c[j]
    <3>1. j \in 1 .. n + 1
        BY <1>10
    <3>2. b[j] = M(gs, j) /\ d[j] = O(gs, j) /\ a[j] = M(fs, j) /\ c[j] = O(fs, j)
        BY <3>1
    <3> HIDE DEF a, b, c, d
    <3> QED BY <1>5, <3>2
  <2> QED BY <2>1, <2>2, <2>3
<1> HIDE DEF a, b, c, d, n
<1>14. FlattenSeq(b) = FlattenSeq(a) \o b[n + 1] /\ FlattenSeq(a) \in Seq(Seq(S))
  <2> DEFINE T == Seq(S)
  <2>1. n \in Nat /\ a \in [1 .. n -> Seq(T)] /\ b \in [1 .. n + 1 -> Seq(T)]
        /\ \A j \in 1 .. n : b[j] = a[j]
    BY <1>1, <1>13
  <2> HIDE DEF T
  <2>2. FlattenSeq(b) = FlattenSeq(a) \o b[n + 1] /\ FlattenSeq(a) \in Seq(T)
    BY <2>1, FlattenGrows
  <2> QED BY <2>2 DEF T
<1>15. FlattenSeq(d) = FlattenSeq(c) \o d[n + 1] /\ FlattenSeq(c) \in Seq(Frames(S))
  <2>1. n \in Nat /\ c \in [1 .. n -> Seq(Frames(S))] /\ d \in [1 .. n + 1 -> Seq(Frames(S))]
        /\ \A j \in 1 .. n : d[j] = c[j]
    BY <1>1, <1>13
  <2> QED BY <2>1, FlattenGrows
<1>16. /\ TextMessages(fs) \in Seq(Seq(S)) /\ OtherFrames(fs) \in Seq(Frames(S))
       /\ Payload(gs, n + 1) \in Seq(S)
       /\ TextMessages(gs) = TextMessages(fs) \o
            IF Completes(e) /\ OfText(gs, n + 1) THEN <<Payload(gs, n + 1)>> ELSE <<>>
       /\ OtherFrames(gs) = OtherFrames(fs) \o IF OfText(gs, n + 1) THEN <<>> ELSE <<e>>
    BY <1>4, <1>10, <1>11, <1>12, <1>14, <1>15
<1> QED BY <1>16 DEF gs, n

\* The frames among those written, one further.
LEMMA WrittenGrows ==
    ASSUME NEW S, NEW fs \in Seq(S), NEW e \in S
    PROVE  /\ TextsAmong(fs) \in Seq(S) /\ OthersAmong(fs) \in Seq(S)
           /\ TextsAmong(Append(fs, e)) = TextsAmong(fs) \o IF e.op = "text" THEN <<e>> ELSE <<>>
           /\ OthersAmong(Append(fs, e)) = OthersAmong(fs) \o IF e.op = "text" THEN <<>> ELSE <<e>>
<1> DEFINE gs == Append(fs, e)
           n == Len(fs)
           M(hs, j) == IF hs[j].op = "text" THEN <<hs[j]>> ELSE <<>>
           O(hs, j) == IF hs[j].op = "text" THEN <<>> ELSE <<hs[j]>>
           a == [j \in 1 .. n |-> M(fs, j)]
           b == [j \in 1 .. n + 1 |-> M(gs, j)]
           c == [j \in 1 .. n |-> O(fs, j)]
           d == [j \in 1 .. n + 1 |-> O(gs, j)]
<1>1. /\ gs \in Seq(S) /\ Len(gs) = n + 1 /\ n \in Nat
      /\ gs[n + 1] = e /\ \A k \in 1 .. n : gs[k] = fs[k]
    OBVIOUS
<1>2. (\A k \in 1 .. n : fs[k] \in S) /\ (\A k \in 1 .. n + 1 : gs[k] \in S)
    OBVIOUS
<1> HIDE DEF gs, n
<1>3. /\ \A j \in 1 .. n : M(fs, j) \in Seq(S) /\ O(fs, j) \in Seq(S)
      /\ \A j \in 1 .. n + 1 : M(gs, j) \in Seq(S) /\ O(gs, j) \in Seq(S)
      /\ \A j \in 1 .. n : M(gs, j) = M(fs, j) /\ O(gs, j) = O(fs, j)
    BY <1>1, <1>2
<1>4. n + 1 \in 1 .. n + 1 /\ \A j \in 1 .. n : j \in 1 .. n + 1
    BY <1>1
<1>5. /\ TextsAmong(fs) = FlattenSeq(a) /\ TextsAmong(gs) = FlattenSeq(b)
      /\ OthersAmong(fs) = FlattenSeq(c) /\ OthersAmong(gs) = FlattenSeq(d)
    BY <1>1, Zenon DEF TextsAmong, OthersAmong, n
<1>6. /\ b[n + 1] = IF e.op = "text" THEN <<e>> ELSE <<>>
      /\ d[n + 1] = IF e.op = "text" THEN <<>> ELSE <<e>>
    BY <1>1, <1>4
<1> HIDE DEF M, O
<1>7. /\ a \in [1 .. n -> Seq(S)] /\ b \in [1 .. n + 1 -> Seq(S)]
      /\ c \in [1 .. n -> Seq(S)] /\ d \in [1 .. n + 1 -> Seq(S)]
      /\ \A j \in 1 .. n : b[j] = a[j] /\ d[j] = c[j]
    BY <1>3, <1>4
<1> HIDE DEF a, b, c, d
<1>8. FlattenSeq(b) = FlattenSeq(a) \o b[n + 1] /\ FlattenSeq(a) \in Seq(S)
    BY <1>1, <1>7, FlattenGrows
<1>9. FlattenSeq(d) = FlattenSeq(c) \o d[n + 1] /\ FlattenSeq(c) \in Seq(S)
    BY <1>1, <1>7, FlattenGrows
<1> QED BY <1>5, <1>6, <1>8, <1>9 DEF gs

\* What is written, one frame further.
LEMMA TextIsWritten ==
    ASSUME NEW S, NEW ws \in Seq(S), NEW w, w.op = "text"
    PROVE  /\ TextsAmong(Append(ws, w)) = TextsAmong(ws) \o <<w>>
           /\ OthersAmong(Append(ws, w)) = OthersAmong(ws)
           /\ Append(ws, w) \in Seq(S \cup {w})
<1> DEFINE T == S \cup {w}
<1>1. ws \in Seq(T) /\ w \in T
    BY SeqMonotonic
<1> HIDE DEF T
<1>2. /\ OthersAmong(ws) \in Seq(T)
      /\ TextsAmong(Append(ws, w)) = TextsAmong(ws) \o <<w>>
      /\ OthersAmong(Append(ws, w)) = OthersAmong(ws) \o <<>>
    BY <1>1, WrittenGrows
<1>3. OthersAmong(ws) \o <<>> = OthersAmong(ws)
    BY <1>2, ConcatEmptySeq
<1>4. Append(ws, w) \in Seq(T)
    BY <1>1
<1> QED BY <1>2, <1>3, <1>4 DEF T

LEMMA OtherIsWritten ==
    ASSUME NEW S, NEW ws \in Seq(S), NEW w, w.op # "text"
    PROVE  /\ TextsAmong(Append(ws, w)) = TextsAmong(ws)
           /\ OthersAmong(Append(ws, w)) = OthersAmong(ws) \o <<w>>
           /\ Append(ws, w) \in Seq(S \cup {w})
<1> DEFINE T == S \cup {w}
<1>1. ws \in Seq(T) /\ w \in T
    BY SeqMonotonic
<1> HIDE DEF T
<1>2. /\ TextsAmong(ws) \in Seq(T)
      /\ TextsAmong(Append(ws, w)) = TextsAmong(ws) \o <<>>
      /\ OthersAmong(Append(ws, w)) = OthersAmong(ws) \o <<w>>
    BY <1>1, WrittenGrows
<1>3. TextsAmong(ws) \o <<>> = TextsAmong(ws)
    BY <1>2, ConcatEmptySeq
<1>4. Append(ws, w) \in Seq(T)
    BY <1>1
<1> QED BY <1>2, <1>3, <1>4 DEF T

\* What is written for text messages, and the text of the streamed ones, one message further.
Rewritten(ms) == [k \in 1 .. Len(ms) |-> TextFrame(Sanitized(ms[k]))]

LEMMA RewrittenGrows ==
    ASSUME NEW S, NEW ms \in Seq(S), NEW m \in S
    PROVE  /\ Rewritten(ms \o <<m>>) = Rewritten(ms) \o <<TextFrame(Sanitized(m))>>
           /\ ms \o <<>> = ms
<1> DEFINE ns == ms \o <<m>>
           n == Len(ms)
           G(x) == TextFrame(Sanitized(x))
<1>1. Len(ns) = n + 1 /\ n \in Nat /\ ns[n + 1] = m /\ \A k \in 1 .. n : ns[k] = ms[k]
    OBVIOUS
<1>2. ms \o <<>> = ms
    OBVIOUS
<1> HIDE DEF ns, n
<1>3. Rewritten(ns) = [k \in 1 .. n + 1 |-> G(ns[k])] /\ Rewritten(ms) = [k \in 1 .. n |-> G(ms[k])]
    BY <1>1, Zenon DEF Rewritten, n
<1> HIDE DEF G
<1>4. \A k \in 1 .. n + 1 : k \in 1 .. n \/ k = n + 1
    BY <1>1
<1>5. [k \in 1 .. n + 1 |-> G(ns[k])] = [k \in 1 .. n |-> G(ms[k])] \o <<G(m)>>
  <2> DEFINE a == [k \in 1 .. n |-> G(ms[k])]
             b == [k \in 1 .. n + 1 |-> G(ns[k])]
             T == {G(ns[k]) : k \in 1 .. n + 1}
  <2>1. /\ a \in Seq(T) /\ Len(a) = n /\ G(m) \in T
        /\ \A k \in 1 .. n : a[k] = G(ms[k])
    <3>1. n + 1 \in 1 .. n + 1 /\ \A k \in 1 .. n : k \in 1 .. n + 1
        BY <1>1
    <3>2. G(m) = G(ns[n + 1]) /\ \A k \in 1 .. n : G(ms[k]) = G(ns[k])
        BY <1>1
    <3>3. G(m) \in T /\ \A k \in 1 .. n : G(ms[k]) \in T
        BY <3>1, <3>2
    <3> HIDE DEF T
    <3> QED BY <1>1, <3>3
  <2>2. b \in Seq(T) /\ Len(b) = n + 1 /\ \A k \in 1 .. n + 1 : b[k] = G(ns[k])
    BY <1>1
  <2> HIDE DEF a, b, T
  <2>3. a \o <<G(m)>> \in Seq(T) /\ Len(a \o <<G(m)>>) = n + 1
    BY <1>1, <2>1
  <2>4. ASSUME NEW k \in 1 .. n + 1 PROVE (a \o <<G(m)>>)[k] = b[k]
    <3>1. CASE k \in 1 .. n
      <4>1. (a \o <<G(m)>>)[k] = a[k]
        BY <2>1, <3>1
      <4>2. ns[k] = ms[k]
        BY <1>1, <3>1
      <4> QED BY <2>1, <2>2, <3>1, <4>1, <4>2
    <3>2. CASE k = n + 1
      <4>1. (a \o <<G(m)>>)[k] = G(m)
        BY <1>1, <2>1, <3>2
      <4> QED BY <1>1, <2>2, <3>2, <4>1
    <3> QED BY <1>4, <3>1, <3>2
  <2>5. b = a \o <<G(m)>>
    BY <2>2, <2>3, <2>4, SeqEqual
  <2> QED BY <2>5 DEF a, b
<1> QED BY <1>2, <1>3, <1>5 DEF ns, G

LEMMA StreamedGrows ==
    ASSUME NEW ms \in Seq(Seq(Byte)), NEW m \in Seq(Byte),
           NEW ws \in Seq(Frames(Symbol)), NEW w \in Frames(Symbol), Len(ws) = Len(ms)
    PROVE  /\ StreamedOf(ms) \in Seq(Byte) /\ SentFor(ms, ws) \in Seq(Symbol)
           /\ StreamedOf(ms \o <<m>>) = StreamedOf(ms) \o IF Streamed(m) THEN m ELSE <<>>
           /\ SentFor(ms \o <<m>>, ws \o <<w>>)
                = SentFor(ms, ws) \o IF Streamed(m) THEN w.payload ELSE <<>>
           /\ Len(ms \o <<m>>) = Len(ws \o <<w>>)
<1> DEFINE ns == ms \o <<m>>
           us == ws \o <<w>>
           n == Len(ms)
<1>1. /\ Len(ns) = n + 1 /\ n \in Nat /\ ns[n + 1] = m /\ \A k \in 1 .. n : ns[k] = ms[k]
      /\ \A k \in 1 .. n : ms[k] \in Seq(Byte)
    OBVIOUS
<1>2. /\ Len(us) = n + 1 /\ us[n + 1] = w /\ \A k \in 1 .. n : us[k] = ws[k]
      /\ \A k \in 1 .. n : ws[k] \in Frames(Symbol)
    OBVIOUS
<1> HIDE DEF ns, us, n
<1>3. (\A k \in 1 .. n : ws[k].payload \in Seq(Symbol)) /\ w.payload \in Seq(Symbol)
    BY <1>2 DEF Frames
<1> DEFINE a == [k \in 1 .. n |-> IF Streamed(ms[k]) THEN ms[k] ELSE <<>>]
           b == [k \in 1 .. n + 1 |-> IF Streamed(ns[k]) THEN ns[k] ELSE <<>>]
           c == [k \in 1 .. n |-> IF Streamed(ms[k]) THEN ws[k].payload ELSE <<>>]
           d == [k \in 1 .. n + 1 |-> IF Streamed(ns[k]) THEN us[k].payload ELSE <<>>]
<1>4. n + 1 \in 1 .. n + 1 /\ \A k \in 1 .. n + 1 : k \in 1 .. n \/ k = n + 1
    BY <1>1
<1>5. \A k \in 1 .. n : k \in 1 .. n + 1
    BY <1>1
<1>6. (\A k \in 1 .. n + 1 : ns[k] \in Seq(Byte)) /\ (\A k \in 1 .. n + 1 : us[k].payload \in Seq(Symbol))
    BY <1>1, <1>2, <1>3, <1>4
<1>7. <<>> \in Seq(Byte) /\ <<>> \in Seq(Symbol)
    OBVIOUS
<1>8. /\ StreamedOf(ms) = FlattenSeq(a) /\ StreamedOf(ns) = FlattenSeq(b)
      /\ SentFor(ms, ws) = FlattenSeq(c) /\ SentFor(ns, us) = FlattenSeq(d)
    BY <1>1, Zenon DEF StreamedOf, SentFor, n
<1>9. /\ a \in [1 .. n -> Seq(Byte)] /\ b \in [1 .. n + 1 -> Seq(Byte)]
      /\ \A k \in 1 .. n : b[k] = a[k]
      /\ b[n + 1] = IF Streamed(m) THEN m ELSE <<>>
    BY <1>1, <1>4, <1>5, <1>6, <1>7
<1>10. /\ c \in [1 .. n -> Seq(Symbol)] /\ d \in [1 .. n + 1 -> Seq(Symbol)]
       /\ \A k \in 1 .. n : d[k] = c[k]
       /\ d[n + 1] = IF Streamed(m) THEN w.payload ELSE <<>>
    BY <1>1, <1>2, <1>3, <1>4, <1>5, <1>6, <1>7
<1> HIDE DEF a, b, c, d
<1>11. FlattenSeq(b) = FlattenSeq(a) \o b[n + 1] /\ FlattenSeq(a) \in Seq(Byte)
    BY <1>1, <1>9, FlattenGrows
<1>12. FlattenSeq(d) = FlattenSeq(c) \o d[n + 1] /\ FlattenSeq(c) \in Seq(Symbol)
    BY <1>1, <1>10, FlattenGrows
<1>13. /\ StreamedOf(ms) \in Seq(Byte) /\ SentFor(ms, ws) \in Seq(Symbol)
       /\ StreamedOf(ns) = StreamedOf(ms) \o IF Streamed(m) THEN m ELSE <<>>
       /\ SentFor(ns, us) = SentFor(ms, ws) \o IF Streamed(m) THEN w.payload ELSE <<>>
    BY <1>8, <1>9, <1>10, <1>11, <1>12
<1> QED BY <1>1, <1>2, <1>13 DEF ns, us

-----------------------------------------------------------------------------
\* The websocket relay

\* A side's buffer holds the text message that is not complete in what was read of it.
BufferHolds(side) ==
    LET fs == ReadFrom(side)
    IN  /\ buffers[side].active <=> OpenText(fs)
        /\ buffers[side].payload = IF OpenText(fs) THEN OpenPayload(fs) ELSE <<>>

RelayInv ==
    /\ RelayTypeOK
    /\ \E S : written["upstream"] \in Seq(S)
    /\ relay \in {"open", "closed"} =>
        /\ \A side \in Sides : BufferHolds(side)
        /\ Len(TextsAmong(written["client"])) = Len(TextMessages(ReadFrom("upstream")))
        /\ restorer.pending # <<>> => \E p \in Patterns : IsStrictPrefix(restorer.pending, p)
        /\ answered <= Len(TextMessages(ReadFrom("upstream")))
        /\ restorer.version # version => answered = Len(TextMessages(ReadFrom("upstream")))
    /\ TextIsSentSanitized /\ OtherFramesPass /\ AnswerIsConserved

LEMMA BetweenIsIdle ==
    ASSUME NEW S, NEW fs \in Seq(Frames(S)), Between(fs)
    PROVE  ~OpenText(fs) /\ OpenPayload(fs) = <<>>
<1> DEFINE f == [k \in 1 .. Len(fs) |->
                    IF SameMessage(fs, k, Len(fs) + 1) THEN fs[k].payload ELSE <<>>]
<1>1. f \in [1 .. Len(fs) -> {<<>>}] /\ Len(fs) \in Nat
    BY DEF Between
<1>2. OpenPayload(fs) = FlattenSeq(f)
    BY DEF OpenPayload
<1> HIDE DEF f
<1>3. OpenPayload(fs) = <<>>
    BY <1>1, <1>2, FlattenOfEmpties
<1> QED BY <1>3 DEF Between, OpenText

\* The frame a side's next step reads, and how it goes on from those read before.
LEMMA NextFrame ==
    ASSUME RelayTypeOK, NEW side \in Sides, framesRead[side] < Len(frames[side])
    PROVE  LET fs == ReadFrom(side)
               e == frames[side][framesRead[side] + 1]
           IN  /\ fs \in Seq(Frames(Byte)) /\ e \in Frames(Byte)
               /\ SubSeq(frames[side], 1, framesRead[side] + 1) = Append(fs, e)
               /\ framesRead[side] \in Nat
               /\ e.op \in {"ping", "close"} => e.fin
               /\ e.op \in {"text", "binary"} => Between(fs)
<1> DEFINE c == frames[side]
           n == framesRead[side]
           fs == SubSeq(c, 1, n)
<1>1. /\ c \in Seq(Frames(Byte)) /\ n \in Nat /\ n < Len(c)
      /\ \A j \in 1 .. Len(c) :
            /\ c[j].op \in {"ping", "close"} => c[j].fin
            /\ c[j].op \in {"text", "binary"} => \A k \in 1 .. j - 1 : ~SameMessage(c, k, j)
    BY ConversationsAssumption DEF RelayTypeOK, Sides
<1> HIDE DEF c, n
<1>2. n + 1 \in 1 .. Len(c) /\ (n + 1) - 1 = n
    BY <1>1
<1>3. /\ fs \in Seq(Frames(Byte)) /\ Len(fs) = n
      /\ \A k \in 1 .. n : fs[k] = c[k]
    BY <1>1
<1>4. SubSeq(c, 1, n + 1) = Append(fs, c[n + 1]) /\ c[n + 1] \in Frames(Byte)
    BY <1>1, <1>2
<1> HIDE DEF fs
<1>5. ASSUME c[n + 1].op \in {"text", "binary"} PROVE Between(fs)
  <2>1. \A k \in 1 .. n : ~SameMessage(c, k, n + 1)
    BY <1>1, <1>2, <1>5
  <2>2. ASSUME NEW k \in 1 .. n PROVE SameMessage(fs, k, n + 1) <=> SameMessage(c, k, n + 1)
    <3>1. \A m \in k .. (n + 1) - 1 : m \in 1 .. n
        BY <1>1
    <3> QED BY <1>3, <3>1, Zenon DEF SameMessage
  <2> QED BY <1>3, <2>1, <2>2 DEF Between
<1> QED BY <1>1, <1>2, <1>3, <1>4, <1>5 DEF fs, c, n, ReadFrom

\* What the handlers make of a frame, by what becomes of it.
FrameFails(side) ==
    /\ UNCHANGED registryVars \/ \E new \in SUBSET Secrets : Register(new)
    /\ relay' = "failed" /\ written' = written /\ restorer' = restorer
    /\ buffers' \in {buffers, [buffers EXCEPT ![side] = EmptyBuffer]}
FrameIsHeld(side, gs) ==
    /\ relay' = relay /\ written' = written /\ restorer' = restorer /\ UNCHANGED registryVars
    /\ ~Completes(gs[Len(gs)]) /\ OfText(gs, Len(gs)) /\ Len(Payload(gs, Len(gs))) <= MaxText
    /\ buffers' = [buffers EXCEPT ![side] = [active |-> TRUE, payload |-> Payload(gs, Len(gs))]]
MessageLeaves(side, gs) ==
    /\ Completes(gs[Len(gs)]) /\ OfText(gs, Len(gs))
    /\ RewriteText(side, Payload(gs, Len(gs)))
    /\ buffers' = [buffers EXCEPT ![side] = EmptyBuffer]
FramePasses(side, gs) ==
    /\ ~OfText(gs, Len(gs)) /\ gs[Len(gs)].op # "text"
    /\ Write(side, gs[Len(gs)])
    /\ buffers' = buffers /\ restorer' = restorer /\ UNCHANGED registryVars
    /\ relay' \in {"open", "closed"}

LEMMA FrameOutcomes ==
    ASSUME RelayInv, relay = "open", NEW side \in Sides, ReadFrame(side)
    PROVE  LET fs == ReadFrom(side)
               e == frames[side][framesRead[side] + 1]
           IN  /\ fs \in Seq(Frames(Byte)) /\ e \in Frames(Byte)
               /\ ReadFrom(side)' = Append(fs, e)
               /\ \A s \in Sides \ {side} : ReadFrom(s)' = ReadFrom(s)
               /\ \/ FrameFails(side)
                  \/ FrameIsHeld(side, Append(fs, e))
                  \/ MessageLeaves(side, Append(fs, e))
                  \/ FramePasses(side, Append(fs, e))
<1> DEFINE fs == ReadFrom(side)
           e == frames[side][framesRead[side] + 1]
           gs == Append(fs, e)
           j == Len(fs) + 1
           Outcome == \/ FrameFails(side) \/ FrameIsHeld(side, gs)
                      \/ MessageLeaves(side, gs) \/ FramePasses(side, gs)
<1>1. /\ RelayTypeOK /\ BufferHolds(side)
      /\ buffers \in [Sides -> [active: BOOLEAN, payload: Seq(Byte)]]
    BY DEF RelayInv, RelayTypeOK
<1>2. /\ fs \in Seq(Frames(Byte)) /\ e \in Frames(Byte)
      /\ SubSeq(frames[side], 1, framesRead[side] + 1) = gs
      /\ framesRead[side] \in Nat
      /\ e.op \in {"ping", "close"} => e.fin
      /\ e.op \in {"text", "binary"} => Between(fs)
    BY <1>1, NextFrame DEF ReadFrame, Unread
<1>3. /\ frames' = frames /\ framesRead' = [framesRead EXCEPT ![side] = @ + 1]
      /\ HandleFrame(side, e)
    BY DEF ReadFrame
<1>4. ReadFrom(side)' = gs
  <2>1. framesRead'[side] = framesRead[side] + 1
    BY <1>1, <1>3 DEF RelayTypeOK
  <2> HIDE DEF gs
  <2> QED BY <1>2, <1>3, <2>1 DEF ReadFrom
<1>5. \A s \in Sides \ {side} : ReadFrom(s)' = ReadFrom(s)
    BY <1>1, <1>3 DEF RelayTypeOK, ReadFrom
<1>6. /\ OpenPayload(fs) \in Seq(Byte) /\ Added(e) \in Seq(Byte)
      /\ Payload(gs, j) = OpenPayload(fs) \o Added(e)
    BY <1>2, PayloadGrows
<1>7. OfText(gs, j) <=> DataFrame(e) /\ (OpenText(fs) \/ e.op = "text")
    BY <1>2, TextGrows
<1>8. /\ buffers[side].active <=> OpenText(fs)
      /\ buffers[side].payload = IF OpenText(fs) THEN OpenPayload(fs) ELSE <<>>
    BY <1>1 DEF BufferHolds
<1>9. e.op \in {"text", "binary"} => ~OpenText(fs) /\ OpenPayload(fs) = <<>>
    BY <1>2, BetweenIsIdle
<1>10. gs[Len(gs)] = e /\ Len(gs) = j
    BY <1>2
<1>11. ~OpenText(fs) => buffers[side] = EmptyBuffer /\ buffers = [buffers EXCEPT ![side] = EmptyBuffer]
  <2> HIDE DEF fs
  <2> SUFFICES ASSUME ~OpenText(fs)
               PROVE  buffers[side] = EmptyBuffer
    BY <1>1
  <2>1. buffers[side].active = FALSE /\ buffers[side].payload = <<>>
    BY <1>1, <1>8
  <2> QED BY <1>1, <2>1 DEF EmptyBuffer
<1>12. e = [e EXCEPT !.op = e.op] /\ (e.fin => [e EXCEPT !.fin = TRUE] = e)
    BY <1>2 DEF Frames
<1> HIDE DEF fs, e, gs, j
<1>13. ASSUME HandleText(side, e) PROVE Outcome
  <2>1. e.op = "text" \/ (e.op = "continuation" /\ OpenText(fs))
    BY <1>8, <1>13 DEF HandleText
  <2>2. DataFrame(e) /\ OfText(gs, j) /\ Added(e) = e.payload
    BY <1>7, <2>1 DEF DataFrame, Added
  <2>3. Completes(e) <=> e.fin
    BY <2>2 DEF Completes
  <2>4. Joined(side, e) = Payload(gs, j)
    <3>1. Joined(side, e) = buffers[side].payload \o e.payload
        BY DEF Joined
    <3>2. buffers[side].payload = OpenPayload(fs)
        BY <1>8, <1>9, <2>1
    <3> QED BY <1>6, <2>2, <3>1, <3>2
  <2>5. e.op = "text" => e.payload = Payload(gs, j)
    <3>1. <<>> \o Added(e) = Added(e)
        BY <1>6
    <3> QED BY <1>6, <1>9, <2>2, <3>1
  <2>6. Len(Payload(gs, j)) \in Nat
    <3>1. Payload(gs, j) \in Seq(Byte)
        BY <1>6
    <3> QED BY <3>1
  <2> DEFINE fragment == e.op = "continuation" \/ ~e.fin
  <2>7. CASE fragment /\ TooLong(side, e)
    BY <1>13, <2>7, Zenon DEF HandleText, Fail, FrameFails
  <2>8. CASE ~(fragment /\ TooLong(side, e)) /\ ~e.fin
    <3>1. Len(Payload(gs, j)) <= MaxText
        BY <2>4, <2>6, <2>8, LimitsAssumption DEF TooLong
    <3>2. /\ buffers' = [buffers EXCEPT ![side] = [active |-> TRUE, payload |-> Joined(side, e)]]
          /\ UNCHANGED <<restorer, registryVars, written, relay>>
        BY <1>13, <2>8 DEF HandleText
    <3> QED BY <1>10, <2>2, <2>3, <2>4, <2>8, <3>1, <3>2 DEF FrameIsHeld
  <2>9. CASE ~(fragment /\ TooLong(side, e)) /\ e.fin
    <3>1. /\ RewriteText(side, IF fragment THEN Joined(side, e) ELSE e.payload)
          /\ IF fragment THEN buffers' = [buffers EXCEPT ![side] = LeftBuffer(side)]
             ELSE UNCHANGED buffers
        BY <1>13, <2>9, Zenon DEF HandleText
    <3>2. (IF fragment THEN Joined(side, e) ELSE e.payload) = Payload(gs, j)
        BY <2>1, <2>4, <2>5
    <3>3. RewriteText(side, Payload(gs, j))
        BY <3>1, <3>2
    <3>4. buffers' = [buffers EXCEPT ![side] = EmptyBuffer]
        BY <1>9, <1>11, <2>1, <3>1 DEF LeftBuffer
    <3> QED BY <1>10, <2>2, <2>3, <2>9, <3>3, <3>4 DEF MessageLeaves
  <2> QED BY <2>7, <2>8, <2>9
<1>14. ASSUME HandlePassthrough(side, e) PROVE Outcome
  <2>1. e.op \in {"binary", "ping"} \/ (e.op = "continuation" /\ ~OpenText(fs))
    BY <1>8, <1>14 DEF HandlePassthrough
  <2>2. e.op # "text" /\ ~OfText(gs, j)
    BY <1>7, <1>9, <2>1 DEF DataFrame
  <2>3. (IF e.op = "ping" THEN [e EXCEPT !.fin = TRUE] ELSE e) = e
    BY <1>2, <1>12
  <2>4. Write(side, e) /\ UNCHANGED <<buffers, restorer, registryVars, relay>>
    BY <1>14, <2>3 DEF HandlePassthrough
  <2> QED BY <1>10, <2>2, <2>4 DEF FramePasses
<1>15. ASSUME HandleClose(side, e) PROVE Outcome
  <2>1. e.op # "text" /\ ~OfText(gs, j)
    BY <1>7, <1>15 DEF DataFrame, HandleClose
  <2>2. [e EXCEPT !.fin = TRUE] = e
    BY <1>2, <1>12, <1>15 DEF HandleClose
  <2>3. Write(side, e) /\ relay' = "closed" /\ UNCHANGED <<buffers, restorer, registryVars>>
    BY <1>15, <2>2 DEF HandleClose
  <2> QED BY <1>10, <2>1, <2>3 DEF FramePasses
<1>16. ASSUME HandleUnsupported(e) PROVE Outcome
    BY <1>16 DEF HandleUnsupported, Fail, FrameFails
<1>17. Outcome
    BY <1>3, <1>13, <1>14, <1>15, <1>16 DEF HandleFrame
<1> QED BY <1>2, <1>4, <1>5, <1>17 DEF fs, e, gs

LEMMA OtherSide ==
    /\ Sides = {"client", "upstream"}
    /\ Other("client") = "upstream" /\ Other("upstream") = "client"
    /\ \A s \in Sides : Other(s) \in Sides /\ Other(Other(s)) = s
BY DEF Sides, Other

LEMMA FramesByteSymbol == Frames(Byte) \subseteq Frames(Symbol)
BY EventsByteSymbol DEF Frames

LEMMA WrittenType ==
    ASSUME RelayInv, NEW s \in Sides
    PROVE  \E S : written[s] \in Seq(S)
BY OtherSide DEF RelayInv, RelayTypeOK

LEMMA RelayInitEstablishes == RelayInit => RelayInv
<1> SUFFICES ASSUME RelayInit PROVE RelayInv
    OBVIOUS
<1>1. /\ frames \in Conversations /\ framesRead = [side \in Sides |-> 0]
      /\ partRead = {} /\ lost = {} /\ registered = {} /\ version = 1 /\ answered = 0 /\ relay = "open"
      /\ buffers = [side \in Sides |-> EmptyBuffer] /\ restorer = NoRestorer
      /\ written = [side \in Sides |-> <<>>]
    BY DEF RelayInit
<1>2. \A side \in Sides : frames[side] \in Seq(Frames(Byte)) /\ Len(frames[side]) \in Nat
    BY <1>1, ConversationsAssumption DEF Sides
<1>3. \A side \in Sides : ReadFrom(side) = <<>> /\ written[side] = <<>>
    BY <1>1, <1>2 DEF ReadFrom
<1>4. /\ EmptyBuffer \in [active: BOOLEAN, payload: Seq(Byte)]
      /\ EmptyBuffer.active = FALSE /\ EmptyBuffer.payload = <<>> /\ Len(EmptyBuffer.payload) = 0
    BY DEF EmptyBuffer
<1>5. NoRestorer \in [version: 0 .. version, pending: Seq(Byte)] /\ NoRestorer.pending = <<>>
    BY <1>1 DEF NoRestorer
<1>6. "client" \in Sides /\ "upstream" \in Sides
    BY OtherSide
<1>7. RelayTypeOK
  <2>1. written["client"] \in Seq(Frames(Symbol))
    <3>1. written["client"] = <<>> /\ <<>> \in Seq(Frames(Symbol))
        BY <1>3, <1>6, EmptySeq
    <3> QED BY <3>1, Zenon
  <2>2. \A side \in Sides : framesRead[side] <= Len(frames[side]) /\ Len(buffers[side].payload) <= MaxText
    BY <1>1, <1>2, <1>4, LimitsAssumption
  <2> QED BY <1>1, <1>4, <1>5, <2>1, <2>2, LimitsAssumption DEF RelayTypeOK
<1>8. \A S : written["upstream"] \in Seq(S)
  <2>1. written["upstream"] = <<>> /\ \A S : <<>> \in Seq(S)
    BY <1>3, <1>6, EmptySeq
  <2> QED BY <2>1, Zenon
<1>9. FlattenSeq(<<>>) = <<>>
    BY DEF FlattenSeq
<1>10. /\ TextMessages(<<>>) = <<>> /\ OtherFrames(<<>>) = <<>>
       /\ TextsAmong(<<>>) = <<>> /\ OthersAmong(<<>>) = <<>>
       /\ ~OpenText(<<>>)
  <2>1. Len(<<>>) = 0 /\ 1 .. 0 = {}
    OBVIOUS
  <2>2. \A f : DOMAIN f = {} /\ f = [i \in {} |-> f[i]] => f = <<>>
    OBVIOUS
  <2>3. ~OpenText(<<>>)
    BY <2>1 DEF OpenText
  <2> QED BY <1>9, <2>1, <2>3 DEF TextMessages, OtherFrames, TextsAmong, OthersAmong
<1>11. \A side \in Sides : BufferHolds(side)
    BY <1>1, <1>3, <1>4, <1>10 DEF BufferHolds
<1>12. TextIsSentSanitized
    BY <1>3, <1>6, <1>10 DEF TextIsSentSanitized
<1>13. OtherFramesPass
    BY <1>3, <1>10, OtherSide DEF OtherFramesPass
<1>14. AnswerIsConserved
    BY <1>1 DEF AnswerIsConserved, NoRestorer
<1>15. /\ Len(TextsAmong(written["client"])) = Len(TextMessages(ReadFrom("upstream")))
       /\ answered <= Len(TextMessages(ReadFrom("upstream")))
       /\ answered = Len(TextMessages(ReadFrom("upstream")))
    BY <1>1, <1>3, <1>6, <1>10
<1> QED BY <1>1, <1>5, <1>7, <1>8, <1>11, <1>12, <1>13, <1>14, <1>15 DEF RelayInv

\* A registration, or none: the version tells one from the other.
RegistryMoves == UNCHANGED registryVars \/ \E new \in SUBSET Secrets : Register(new)

LEMMA MessagesType ==
    ASSUME RelayTypeOK, NEW side \in Sides
    PROVE  TextMessages(ReadFrom(side)) \in Seq(Seq(Byte))
<1> DEFINE e == [op |-> "ping", fin |-> TRUE, payload |-> <<>>]
           fs == ReadFrom(side)
<1>1. e \in Frames(Byte)
    BY DEF Frames
<1>2. fs \in Seq(Frames(Byte))
  <2>1. frames[side] \in Seq(Frames(Byte)) /\ framesRead[side] \in 0 .. Len(frames[side])
    BY ConversationsAssumption DEF RelayTypeOK, Sides
  <2> QED BY <2>1 DEF ReadFrom
<1> HIDE DEF e, fs
<1>3. TextMessages(fs) \in Seq(Seq(Byte))
    BY <1>1, <1>2, MessagesGrow
<1> QED BY <1>3 DEF fs

LEMMA RegistryType ==
    ASSUME RelayTypeOK, RegistryMoves
    PROVE  /\ registered' \subseteq Secrets /\ version' \in Nat \ {0} /\ answered' \in Nat
           /\ version \in Nat \ {0} /\ version <= version'
           /\ \/ UNCHANGED <<version, answered>>
              \/ version < version' /\ answered' = Len(TextMessages(ReadFrom("upstream")))
<1>1. registered \subseteq Secrets /\ version \in Nat \ {0} /\ answered \in Nat
    BY DEF RelayTypeOK
<1>2. CASE UNCHANGED registryVars
    BY <1>1, <1>2 DEF registryVars
<1>3. ASSUME NEW new \in SUBSET Secrets, Register(new)
      PROVE  /\ registered' \subseteq Secrets /\ version' \in Nat \ {0} /\ answered' \in Nat
             /\ version <= version'
             /\ \/ UNCHANGED <<version, answered>>
                \/ version < version' /\ answered' = Len(TextMessages(ReadFrom("upstream")))
  <2> DEFINE fresh == new \ registered
             n == Len(TextMessages(ReadFrom("upstream")))
  <2>1. IsFiniteSet(fresh)
    BY LimitsAssumption, FS_Subset
  <2>2. Cardinality(fresh) \in Nat /\ (Cardinality(fresh) = 0 <=> fresh = {})
    BY <2>1, FS_CardinalityType, FS_EmptySet
  <2>3. n \in Nat
    <3>1. "upstream" \in Sides
        BY DEF Sides
    <3> QED BY <3>1, MessagesType
  <2>4. /\ registered' = registered \cup new
        /\ version' = version + Cardinality(fresh)
        /\ answered' = IF fresh = {} THEN answered ELSE n
    <3>1. new \subseteq registered <=> fresh = {}
        OBVIOUS
    <3> QED BY <1>3, <3>1 DEF Register
  <2> HIDE DEF fresh, n
  <2> QED BY <1>1, <2>2, <2>3, <2>4 DEF n
<1> QED BY <1>1, <1>2, <1>3 DEF RegistryMoves

\* Steps that complete no message of upstream.
LEMMA AnswerStays ==
    ASSUME RelayInv, relay \in {"open", "closed"}, RegistryMoves, restorer' = restorer,
           TextMessages(ReadFrom("upstream")') = TextMessages(ReadFrom("upstream")),
           TextsAmong(written'["client"]) = TextsAmong(written["client"])
    PROVE  /\ AnswerIsConserved'
           /\ answered' <= Len(TextMessages(ReadFrom("upstream")'))
           /\ restorer'.version # version' => answered' = Len(TextMessages(ReadFrom("upstream")'))
<1> DEFINE ms == TextMessages(ReadFrom("upstream"))
<1>1. /\ restorer \in [version: 0 .. version, pending: Seq(Byte)]
      /\ answered <= Len(ms)
      /\ restorer.version # version => answered = Len(ms)
    BY DEF RelayInv, RelayTypeOK
<1>2. Len(ms) \in Nat
  <2>1. "upstream" \in Sides
    BY DEF Sides
  <2> QED BY <2>1, MessagesType DEF RelayInv
<1>3. /\ version \in Nat /\ version' \in Nat
      /\ \/ UNCHANGED <<version, answered>>
         \/ version < version' /\ answered' = Len(ms)
    BY RegistryType DEF RelayInv
<1> HIDE DEF ms
<1>4. CASE UNCHANGED <<version, answered>>
  <2>1. MessagesSince' = MessagesSince /\ SentSince' = SentSince
    BY <1>4, Zenon DEF MessagesSince, SentSince
  <2>2. AnswerIsConserved'
    BY <1>4, <2>1 DEF RelayInv, AnswerIsConserved
  <2> QED BY <1>1, <1>4, <2>2 DEF ms
<1>5. CASE version < version' /\ answered' = Len(ms)
  <2>1. restorer'.version # version'
    BY <1>1, <1>3, <1>5
  <2>2. AnswerIsConserved'
    BY <2>1 DEF AnswerIsConserved
  <2> QED BY <1>2, <1>5, <2>1, <2>2 DEF ms
<1> QED BY <1>3, <1>4, <1>5

\* Steps that read no frame to its end.
LEMMA RelayIdles ==
    ASSUME RelayInv,
           UNCHANGED <<frames, framesRead, buffers, restorer, written>>,
           partRead' \subseteq Sides, lost' \subseteq Sides,
           RegistryMoves,
           relay' \in {"open", "closed", "failed"},
           relay' \in {"open", "closed"} => relay \in {"open", "closed"}
    PROVE  RelayInv'
<1>1. RelayTypeOK'
  <2>1. /\ registered' \subseteq Secrets /\ version' \in Nat \ {0} /\ answered' \in Nat
        /\ version \in Nat \ {0} /\ version <= version'
    BY RegistryType DEF RelayInv
  <2>2. 0 .. version \subseteq 0 .. version'
    BY <2>1
  <2>3. restorer' \in [version: 0 .. version', pending: Seq(Byte)]
    BY <2>2 DEF RelayInv, RelayTypeOK
  <2> QED BY <2>1, <2>3 DEF RelayInv, RelayTypeOK
<1>3. \A s : ReadFrom(s)' = ReadFrom(s)
    BY DEF ReadFrom
<1>4. TextIsSentSanitized'
    BY <1>3 DEF RelayInv, TextIsSentSanitized
<1>5. OtherFramesPass'
    BY <1>3 DEF RelayInv, OtherFramesPass
<1>6. /\ AnswerIsConserved'
      /\ relay' \in {"open", "closed"} =>
            /\ answered' <= Len(TextMessages(ReadFrom("upstream")'))
            /\ restorer'.version # version' =>
                    answered' = Len(TextMessages(ReadFrom("upstream")'))
  <2>1. CASE relay \in {"open", "closed"}
    BY <1>3, <2>1, AnswerStays
  <2>2. CASE relay \notin {"open", "closed"}
    BY <2>2 DEF AnswerIsConserved
  <2> QED BY <2>1, <2>2
<1>7. relay \in {"open", "closed"} => \A side \in Sides : BufferHolds(side)'
    BY <1>3 DEF RelayInv, BufferHolds
<1> QED BY <1>1, <1>3, <1>4, <1>5, <1>6, <1>7 DEF RelayInv

\* What ReadFrame leaves to its handler.
LEMMA ReadFrameType ==
    ASSUME RelayTypeOK, NEW side \in Sides, ReadFrame(side),
           buffers' \in [Sides -> [active: BOOLEAN, payload: Seq(Byte)]],
           \A s \in Sides : Len(buffers'[s].payload) <= MaxText,
           restorer' \in [version: 0 .. version, pending: Seq(Byte)], RegistryMoves,
           restorer'.version = 0 => restorer'.pending = <<>>,
           DOMAIN written' = Sides, written'["client"] \in Seq(Frames(Symbol)),
           relay' \in {"open", "closed", "failed"}
    PROVE  RelayTypeOK'
<1>1. /\ frames' = frames /\ partRead' = {}
      /\ lost' = lost \cup (partRead \ {side})
      /\ framesRead' = [framesRead EXCEPT ![side] = @ + 1]
      /\ framesRead[side] < Len(frames[side])
    BY DEF ReadFrame, Unread
<1>2. framesRead' \in [Sides -> Nat] /\ \A s \in Sides : framesRead'[s] <= Len(frames'[s])
  <2>1. \A s \in Sides : frames[s] \in Seq(Frames(Byte)) /\ Len(frames[s]) \in Nat
    BY ConversationsAssumption DEF RelayTypeOK, Sides
  <2>2. framesRead \in [Sides -> Nat] /\ \A s \in Sides : framesRead[s] <= Len(frames[s])
    BY DEF RelayTypeOK
  <2>3. \A s \in Sides : framesRead'[s] = IF s = side THEN framesRead[s] + 1 ELSE framesRead[s]
    BY <1>1, <2>2
  <2>4. ASSUME NEW s \in Sides PROVE framesRead'[s] <= Len(frames'[s])
    <3>1. framesRead[s] \in Nat /\ Len(frames[s]) \in Nat
        BY <2>1, <2>2
    <3> QED BY <1>1, <2>2, <2>3, <3>1
  <2>5. framesRead' \in [Sides -> Nat]
    BY <1>1, <2>2
  <2> QED BY <2>4, <2>5
<1>3. /\ registered' \subseteq Secrets /\ version' \in Nat \ {0} /\ answered' \in Nat
      /\ restorer' \in [version: 0 .. version', pending: Seq(Byte)]
  <2>1. /\ registered' \subseteq Secrets /\ version' \in Nat \ {0} /\ answered' \in Nat
        /\ version \in Nat \ {0} /\ version <= version'
    BY RegistryType
  <2>2. 0 .. version \subseteq 0 .. version'
    BY <2>1
  <2> QED BY <2>1, <2>2
<1> QED BY <1>1, <1>2, <1>3 DEF RelayTypeOK

LEMMA FailPreserves ==
    ASSUME RelayInv, NEW side \in Sides, ReadFrame(side), FrameFails(side)
    PROVE  RelayInv'
<1>1. RelayTypeOK /\ relay' = "failed" /\ written' = written /\ restorer' = restorer
      /\ buffers' \in {buffers, [buffers EXCEPT ![side] = EmptyBuffer]} /\ RegistryMoves
    BY DEF RelayInv, FrameFails, RegistryMoves
<1>2. EmptyBuffer \in [active: BOOLEAN, payload: Seq(Byte)] /\ Len(EmptyBuffer.payload) = 0
    BY DEF EmptyBuffer
<1>3. /\ buffers' \in [Sides -> [active: BOOLEAN, payload: Seq(Byte)]]
      /\ \A s \in Sides : Len(buffers'[s].payload) <= MaxText
  <2>1. CASE buffers' = buffers
    BY <1>1, <2>1 DEF RelayTypeOK
  <2>2. CASE buffers' = [buffers EXCEPT ![side] = EmptyBuffer]
    <3>1. 0 <= MaxText
        BY LimitsAssumption
    <3>2. \A s \in Sides : buffers'[s] = IF s = side THEN EmptyBuffer ELSE buffers[s]
        BY <1>1, <2>2 DEF RelayTypeOK
    <3>3. \A s \in Sides : Len(buffers'[s].payload) <= MaxText
        BY <1>1, <1>2, <3>1, <3>2 DEF RelayTypeOK
    <3>4. buffers' \in [Sides -> [active: BOOLEAN, payload: Seq(Byte)]]
        BY <1>1, <1>2, <2>2 DEF RelayTypeOK
    <3> QED BY <3>3, <3>4
  <2> QED BY <1>1, <2>1, <2>2
<1>4. RelayTypeOK'
    BY <1>1, <1>3, ReadFrameType DEF RelayTypeOK
<1> QED BY <1>1, <1>4 DEF RelayInv, TextIsSentSanitized, OtherFramesPass, AnswerIsConserved

LEMMA HeldPreserves ==
    ASSUME RelayInv, relay = "open", NEW side \in Sides, ReadFrame(side),
           NEW e \in Frames(Byte), ReadFrom(side) \in Seq(Frames(Byte)),
           ReadFrom(side)' = Append(ReadFrom(side), e),
           \A s \in Sides \ {side} : ReadFrom(s)' = ReadFrom(s),
           FrameIsHeld(side, Append(ReadFrom(side), e))
    PROVE  RelayInv'
<1> DEFINE fs == ReadFrom(side)
           gs == Append(fs, e)
           j == Len(fs) + 1
<1>1. fs \in Seq(Frames(Byte)) /\ gs[Len(gs)] = e /\ Len(gs) = j
    OBVIOUS
<1>2. /\ relay' = relay /\ written' = written /\ restorer' = restorer /\ RegistryMoves
      /\ ~Completes(e) /\ OfText(gs, j) /\ Len(Payload(gs, j)) <= MaxText
      /\ buffers' = [buffers EXCEPT ![side] = [active |-> TRUE, payload |-> Payload(gs, j)]]
  <2> HIDE DEF gs, j
  <2> QED BY <1>1 DEF FrameIsHeld, RegistryMoves, gs, fs
<1>3. OpenPayload(gs) = Payload(gs, j)
    BY <1>1, <1>2, PayloadGrows
<1>4. OpenText(gs)
    BY <1>1, <1>2, TextGrows
<1>5. /\ TextMessages(fs) \in Seq(Seq(Byte)) /\ OtherFrames(fs) \in Seq(Frames(Byte))
      /\ Payload(gs, j) \in Seq(Byte)
      /\ TextMessages(gs) = TextMessages(fs) \o <<>>
      /\ OtherFrames(gs) = OtherFrames(fs) \o <<>>
    BY <1>1, <1>2, MessagesGrow
<1>6. TextMessages(gs) = TextMessages(fs) /\ OtherFrames(gs) = OtherFrames(fs)
  <2> HIDE DEF fs, gs
  <2> QED BY <1>5, ConcatEmptySeq
<1> HIDE DEF j
<1>7. RelayTypeOK
    BY DEF RelayInv
<1>8. /\ buffers' \in [Sides -> [active: BOOLEAN, payload: Seq(Byte)]]
      /\ \A s \in Sides : Len(buffers'[s].payload) <= MaxText
  <2> HIDE DEF gs
  <2> QED BY <1>2, <1>5, <1>7 DEF RelayTypeOK
<1>9. RelayTypeOK'
    BY <1>2, <1>7, <1>8, ReadFrameType DEF RelayTypeOK
<1>11. ReadFrom(side)' = gs
    OBVIOUS
<1> HIDE DEF gs, fs
<1>12. \A s \in Sides : /\ TextMessages(ReadFrom(s)') = TextMessages(ReadFrom(s))
                        /\ OtherFrames(ReadFrom(s)') = OtherFrames(ReadFrom(s))
    BY <1>6, <1>11, Zenon DEF fs
<1>13. ASSUME NEW s \in Sides PROVE BufferHolds(s)'
  <2>1. CASE s = side
    <3>1. buffers'[s].active = TRUE /\ buffers'[s].payload = OpenPayload(gs)
        BY <1>2, <1>3, <1>7, <2>1 DEF RelayTypeOK
    <3> QED BY <1>4, <1>11, <2>1, <3>1 DEF BufferHolds
  <2>2. CASE s # side
    <3>1. buffers'[s] = buffers[s] /\ ReadFrom(s)' = ReadFrom(s) /\ BufferHolds(s)
        BY <1>2, <1>7, <2>2 DEF RelayTypeOK, RelayInv
    <3> QED BY <3>1 DEF BufferHolds
  <2> QED BY <2>1, <2>2
<1>14. "client" \in Sides /\ "upstream" \in Sides /\ relay \in {"open", "closed"}
    BY OtherSide
<1>15. TextIsSentSanitized'
    BY <1>2, <1>12, <1>14 DEF RelayInv, TextIsSentSanitized
<1>16. OtherFramesPass'
    BY <1>2, <1>12, <1>14 DEF RelayInv, OtherFramesPass
<1>17. /\ AnswerIsConserved'
       /\ answered' <= Len(TextMessages(ReadFrom("upstream")'))
       /\ restorer'.version # version' => answered' = Len(TextMessages(ReadFrom("upstream")'))
    BY <1>2, <1>12, <1>14, AnswerStays
<1>18. /\ Len(TextsAmong(written'["client"])) = Len(TextMessages(ReadFrom("upstream")'))
       /\ restorer'.pending # <<>> => \E p \in Patterns : IsStrictPrefix(restorer'.pending, p)
    BY <1>2, <1>12, <1>14 DEF RelayInv
<1> QED BY <1>2, <1>9, <1>13, <1>15, <1>16, <1>17, <1>18 DEF RelayInv

LEMMA PassPreserves ==
    ASSUME RelayInv, relay = "open", NEW side \in Sides, ReadFrame(side),
           NEW e \in Frames(Byte), ReadFrom(side) \in Seq(Frames(Byte)),
           ReadFrom(side)' = Append(ReadFrom(side), e),
           \A s \in Sides \ {side} : ReadFrom(s)' = ReadFrom(s),
           FramePasses(side, Append(ReadFrom(side), e))
    PROVE  RelayInv'
<1> DEFINE fs == ReadFrom(side)
           gs == Append(fs, e)
           j == Len(fs) + 1
           to == Other(side)
           ws == written[to]
<1>1. fs \in Seq(Frames(Byte)) /\ gs[Len(gs)] = e /\ Len(gs) = j
    OBVIOUS
<1>2. /\ ~OfText(gs, j) /\ e.op # "text"
      /\ written' = [written EXCEPT ![to] = Append(ws, e)]
      /\ buffers' = buffers /\ restorer' = restorer /\ relay' \in {"open", "closed"}
      /\ RegistryMoves
  <2> HIDE DEF gs, j
  <2> QED BY <1>1 DEF FramePasses, Write, RegistryMoves, gs, fs
<1>3. /\ OpenPayload(fs) \in Seq(Byte)
      /\ Payload(gs, j) = OpenPayload(fs) \o Added(e)
      /\ OpenPayload(gs) = IF Completes(e) THEN <<>> ELSE Payload(gs, j)
    BY <1>1, PayloadGrows
<1>4. /\ OfText(gs, j) <=> DataFrame(e) /\ (OpenText(fs) \/ e.op = "text")
      /\ OpenText(gs) <=> ~Completes(e) /\ (OpenText(fs) \/ e.op = "text")
    BY <1>1, TextGrows
<1>5. /\ TextMessages(fs) \in Seq(Seq(Byte))
      /\ TextMessages(gs) = TextMessages(fs) \o <<>>
      /\ OtherFrames(gs) = OtherFrames(fs) \o <<e>>
    BY <1>1, <1>2, MessagesGrow
<1>6. TextMessages(gs) = TextMessages(fs)
  <2> HIDE DEF fs, gs
  <2> QED BY <1>5, ConcatEmptySeq
<1> HIDE DEF j, gs, fs
<1>7. (OpenText(gs) <=> OpenText(fs)) /\ (OpenText(fs) => OpenPayload(gs) = OpenPayload(fs))
  <2>1. CASE DataFrame(e)
    BY <1>2, <1>4, <2>1
  <2>2. CASE ~DataFrame(e)
    <3>1. ~Completes(e) /\ Added(e) = <<>>
        BY <2>2 DEF Completes, Added
    <3>2. OpenPayload(fs) \o <<>> = OpenPayload(fs)
        BY <1>3, ConcatEmptySeq
    <3> QED BY <1>2, <1>3, <1>4, <3>1, <3>2
  <2> QED BY <2>1, <2>2
<1>8. PICK S : ws \in Seq(S)
    BY WrittenType, OtherSide
<1>9. DOMAIN written = Sides /\ to \in Sides /\ written'[to] = Append(ws, e)
      /\ \A s \in Sides \ {to} : written'[s] = written[s]
    BY <1>2, OtherSide DEF RelayInv, RelayTypeOK
<1>10. /\ TextsAmong(written'[to]) = TextsAmong(ws)
       /\ OthersAmong(written'[to]) = OthersAmong(ws) \o <<e>>
       /\ written'[to] \in Seq(S \cup {e})
  <2> HIDE DEF ws
  <2>1. /\ TextsAmong(Append(ws, e)) = TextsAmong(ws)
        /\ OthersAmong(Append(ws, e)) = OthersAmong(ws) \o <<e>>
        /\ Append(ws, e) \in Seq(S \cup {e})
    BY <1>2, <1>8, OtherIsWritten, Zenon
  <2> QED BY <1>9, <2>1
<1>11. RelayTypeOK
    BY DEF RelayInv
<1>12. DOMAIN written' = Sides /\ written'["client"] \in Seq(Frames(Symbol))
  <2>1. CASE to = "client"
    <3>1. ws \in Seq(Frames(Symbol)) /\ e \in Frames(Symbol)
        BY <1>11, <2>1, FramesByteSymbol DEF RelayTypeOK
    <3> HIDE DEF ws
    <3>2. Append(ws, e) \in Seq(Frames(Symbol))
        BY <3>1
    <3> QED BY <1>2, <1>9, <2>1, <3>2
  <2>2. CASE to # "client"
    BY <1>2, <1>9, <1>11, <2>2, OtherSide DEF RelayTypeOK
  <2> QED BY <2>1, <2>2
<1>13. RelayTypeOK'
  <2>1. relay' \in {"open", "closed", "failed"}
    BY <1>2
  <2>2. /\ buffers' \in [Sides -> [active: BOOLEAN, payload: Seq(Byte)]]
        /\ \A s \in Sides : Len(buffers'[s].payload) <= MaxText
        /\ restorer' \in [version: 0 .. version, pending: Seq(Byte)]
        /\ restorer'.version = 0 => restorer'.pending = <<>>
    BY <1>2, <1>11 DEF RelayTypeOK
  <2> QED BY <1>2, <1>11, <1>12, <2>1, <2>2, ReadFrameType
<1>14. \E T : written'["upstream"] \in Seq(T)
  <2>1. CASE to = "upstream"
    BY <1>10, <2>1
  <2>2. CASE to # "upstream"
    BY <1>9, <2>2, OtherSide DEF RelayInv
  <2> QED BY <2>1, <2>2
<1>15. ReadFrom(side)' = gs
    BY DEF gs, fs
<1>16. \A s \in Sides : /\ TextMessages(ReadFrom(s)') = TextMessages(ReadFrom(s))
                        /\ TextsAmong(written'[s]) = TextsAmong(written[s])
  <2>1. \A s \in Sides : TextMessages(ReadFrom(s)') = TextMessages(ReadFrom(s))
    BY <1>6, <1>15, Zenon DEF fs
  <2>2. \A s \in Sides : TextsAmong(written'[s]) = TextsAmong(written[s])
    BY <1>9, <1>10, Zenon DEF ws
  <2> QED BY <2>1, <2>2
<1>17. ASSUME NEW s \in Sides PROVE BufferHolds(s)'
  <2>1. buffers'[s] = buffers[s] /\ BufferHolds(s)
    BY <1>2 DEF RelayInv
  <2>2. CASE s = side
    BY <1>7, <1>15, <2>1, <2>2 DEF BufferHolds, fs
  <2>3. CASE s # side
    <3>1. ReadFrom(s)' = ReadFrom(s)
        BY <2>3
    <3> QED BY <2>1, <3>1 DEF BufferHolds
  <2> QED BY <2>2, <2>3
<1>18. "client" \in Sides /\ "upstream" \in Sides /\ relay \in {"open", "closed"}
    BY OtherSide
<1>19. TextIsSentSanitized'
    BY <1>16, <1>18 DEF RelayInv, TextIsSentSanitized
<1>20. OtherFramesPass'
  <2>1. ASSUME NEW s \in Sides
        PROVE  OthersAmong(written'[Other(s)]) = OtherFrames(ReadFrom(s)')
    <3>1. OthersAmong(written[Other(s)]) = OtherFrames(ReadFrom(s))
        BY <1>18 DEF RelayInv, OtherFramesPass
    <3>2. CASE s = side
        BY <1>5, <1>10, <1>15, <3>1, <3>2 DEF fs
    <3>3. CASE s # side
      <4>1. Other(s) \in Sides \ {to} /\ ReadFrom(s)' = ReadFrom(s)
        BY <3>3, OtherSide
      <4> QED BY <1>9, <3>1, <4>1
    <3> QED BY <3>2, <3>3
  <2>2. \A s \in Sides : OthersAmong(written[Other(s)])' = OtherFrames(ReadFrom(s))'
    BY <2>1
  <2> QED BY <2>2 DEF OtherFramesPass
<1>21. /\ AnswerIsConserved'
       /\ answered' <= Len(TextMessages(ReadFrom("upstream")'))
       /\ restorer'.version # version' => answered' = Len(TextMessages(ReadFrom("upstream")'))
    BY <1>2, <1>16, <1>18, AnswerStays
<1>22. /\ Len(TextsAmong(written'["client"])) = Len(TextMessages(ReadFrom("upstream")'))
       /\ restorer'.pending # <<>> => \E p \in Patterns : IsStrictPrefix(restorer'.pending, p)
    BY <1>2, <1>16, <1>18 DEF RelayInv
<1> QED BY <1>13, <1>14, <1>17, <1>19, <1>20, <1>21, <1>22 DEF RelayInv

\* What holds after a message has left in a text frame w, whichever way it goes.
LEMMA MessageIsCounted ==
    ASSUME RelayInv, relay = "open", NEW side \in Sides, ReadFrame(side),
           NEW e \in Frames(Byte), ReadFrom(side) \in Seq(Frames(Byte)),
           ReadFrom(side)' = Append(ReadFrom(side), e),
           \A s \in Sides \ {side} : ReadFrom(s)' = ReadFrom(s),
           MessageLeaves(side, Append(ReadFrom(side), e)),
           NEW w, w.op = "text",
           written' = [written EXCEPT ![Other(side)] = Append(@, w)]
    PROVE  LET m == Payload(Append(ReadFrom(side), e), Len(ReadFrom(side)) + 1)
           IN  /\ m \in Seq(Byte) /\ TextMessages(ReadFrom(side)) \in Seq(Seq(Byte))
               /\ TextMessages(ReadFrom(side)') = TextMessages(ReadFrom(side)) \o <<m>>
               /\ \A s \in Sides \ {side} : TextMessages(ReadFrom(s)') = TextMessages(ReadFrom(s))
               /\ TextsAmong(written'[Other(side)]) = TextsAmong(written[Other(side)]) \o <<w>>
               /\ \A s \in Sides \ {side} : written'[Other(s)] = written[Other(s)]
               /\ \A s \in Sides : BufferHolds(s)'
               /\ buffers' \in [Sides -> [active: BOOLEAN, payload: Seq(Byte)]]
               /\ \A s \in Sides : Len(buffers'[s].payload) <= MaxText
               /\ OtherFramesPass'
               /\ DOMAIN written' = Sides /\ \E S : written'["upstream"] \in Seq(S)
<1> DEFINE fs == ReadFrom(side)
           gs == Append(fs, e)
           j == Len(fs) + 1
           m == Payload(gs, j)
           to == Other(side)
           ws == written[to]
<1>1. fs \in Seq(Frames(Byte)) /\ gs[Len(gs)] = e /\ Len(gs) = j
    OBVIOUS
<1>2. /\ Completes(e) /\ OfText(gs, j)
      /\ buffers' = [buffers EXCEPT ![side] = EmptyBuffer]
  <2> HIDE DEF gs, j
  <2> QED BY <1>1 DEF MessageLeaves, gs, fs
<1>3. ~OpenText(gs)
    BY <1>1, <1>2, TextGrows
<1>4. /\ TextMessages(fs) \in Seq(Seq(Byte)) /\ OtherFrames(fs) \in Seq(Frames(Byte))
      /\ m \in Seq(Byte)
      /\ TextMessages(gs) = TextMessages(fs) \o <<m>>
      /\ OtherFrames(gs) = OtherFrames(fs) \o <<>>
    BY <1>1, <1>2, MessagesGrow
<1>5. OtherFrames(gs) = OtherFrames(fs)
  <2> HIDE DEF fs, gs
  <2> QED BY <1>4, ConcatEmptySeq
<1>6. ReadFrom(side)' = gs
    OBVIOUS
<1> HIDE DEF j, gs, fs, m
<1>7. PICK S : ws \in Seq(S)
    BY WrittenType, OtherSide
<1>8. DOMAIN written = Sides /\ to \in Sides /\ written'[to] = Append(ws, w) /\ DOMAIN written' = Sides
      /\ \A s \in Sides \ {to} : written'[s] = written[s]
    BY OtherSide DEF RelayInv, RelayTypeOK
<1>10. /\ TextsAmong(written'[to]) = TextsAmong(ws) \o <<w>>
       /\ OthersAmong(written'[to]) = OthersAmong(ws)
       /\ written'[to] \in Seq(S \cup {w})
  <2> HIDE DEF ws
  <2>1. /\ TextsAmong(Append(ws, w)) = TextsAmong(ws) \o <<w>>
        /\ OthersAmong(Append(ws, w)) = OthersAmong(ws)
        /\ Append(ws, w) \in Seq(S \cup {w})
    BY <1>7, TextIsWritten, Zenon
  <2> QED BY <1>8, <2>1
<1>11. \E T : written'["upstream"] \in Seq(T)
  <2>1. CASE to = "upstream"
    BY <1>10, <2>1
  <2>2. CASE to # "upstream"
    BY <1>8, <2>2, OtherSide DEF RelayInv
  <2> QED BY <2>1, <2>2
<1>12. EmptyBuffer \in [active: BOOLEAN, payload: Seq(Byte)] /\ Len(EmptyBuffer.payload) = 0
       /\ EmptyBuffer.active = FALSE /\ EmptyBuffer.payload = <<>>
    BY DEF EmptyBuffer
<1>13. RelayTypeOK /\ \A s \in Sides : buffers'[s] = IF s = side THEN EmptyBuffer ELSE buffers[s]
    BY <1>2 DEF RelayInv, RelayTypeOK
<1>14. /\ buffers' \in [Sides -> [active: BOOLEAN, payload: Seq(Byte)]]
       /\ \A s \in Sides : Len(buffers'[s].payload) <= MaxText
  <2>1. 0 <= MaxText
    BY LimitsAssumption
  <2>2. buffers' \in [Sides -> [active: BOOLEAN, payload: Seq(Byte)]]
    BY <1>2, <1>12, <1>13 DEF RelayTypeOK
  <2> QED BY <1>12, <1>13, <2>1, <2>2 DEF RelayTypeOK
<1>15. ASSUME NEW s \in Sides PROVE BufferHolds(s)'
  <2>1. CASE s = side
    BY <1>3, <1>6, <1>12, <1>13, <2>1 DEF BufferHolds
  <2>2. CASE s # side
    <3>1. buffers'[s] = buffers[s] /\ ReadFrom(s)' = ReadFrom(s) /\ BufferHolds(s)
        BY <1>13, <2>2 DEF RelayInv
    <3> QED BY <3>1 DEF BufferHolds
  <2> QED BY <2>1, <2>2
<1>16. \A s \in Sides \ {side} : written'[Other(s)] = written[Other(s)]
    BY <1>8, OtherSide
<1>17. OtherFramesPass'
  <2>1. ASSUME NEW s \in Sides
        PROVE  OthersAmong(written'[Other(s)]) = OtherFrames(ReadFrom(s)')
    <3>1. OthersAmong(written[Other(s)]) = OtherFrames(ReadFrom(s))
        BY DEF RelayInv, OtherFramesPass
    <3>2. CASE s = side
        BY <1>5, <1>6, <1>10, <3>1, <3>2 DEF fs
    <3>3. CASE s # side
        BY <1>16, <3>1, <3>3
    <3> QED BY <3>2, <3>3
  <2>2. \A s \in Sides : OthersAmong(written[Other(s)])' = OtherFrames(ReadFrom(s))'
    BY <2>1
  <2> QED BY <2>2 DEF OtherFramesPass
<1>18. \A s \in Sides \ {side} : TextMessages(ReadFrom(s)') = TextMessages(ReadFrom(s))
    OBVIOUS
<1> QED BY <1>4, <1>6, <1>8, <1>10, <1>11, <1>14, <1>15, <1>16, <1>17, <1>18 DEF fs, gs, m, j

LEMMA ClientMessagePreserves ==
    ASSUME RelayInv, relay = "open", ReadFrame("client"),
           NEW e \in Frames(Byte), ReadFrom("client") \in Seq(Frames(Byte)),
           ReadFrom("client")' = Append(ReadFrom("client"), e),
           \A s \in Sides \ {"client"} : ReadFrom(s)' = ReadFrom(s),
           MessageLeaves("client", Append(ReadFrom("client"), e))
    PROVE  RelayInv'
<1> DEFINE m == Payload(Append(ReadFrom("client"), e), Len(ReadFrom("client")) + 1)
           w == TextFrame(Sanitized(m))
<1>1. RewriteText("client", m) /\ buffers' = [buffers EXCEPT !["client"] = EmptyBuffer]
    BY DEF MessageLeaves
<1>2. "client" \in Sides /\ "upstream" \in Sides /\ Other("client") = "upstream"
      /\ "upstream" \in Sides \ {"client"} /\ Other("upstream") = "client"
    BY OtherSide
<1> HIDE DEF m
<1>3. CASE m \in Malformed
  <2>1. FrameFails("client")
    <3>1. SecretsIn(m) \subseteq Secrets
        BY DEF SecretsIn
    <3> QED BY <1>1, <1>3, <3>1 DEF RewriteText, Fail, FrameFails
  <2> QED BY <1>2, <2>1, FailPreserves
<1>4. CASE m \notin Malformed
  <2>1. /\ written' = [written EXCEPT !["upstream"] = Append(@, w)]
        /\ restorer' = restorer /\ relay' = relay
    BY <1>1, <1>2, <1>4 DEF RewriteText, Write
  <2>9. RegistryMoves
    <3>1. Register(SecretsIn(m)) /\ SecretsIn(m) \subseteq Secrets
        BY <1>1, <1>4 DEF RewriteText, SecretsIn
    <3> QED BY <3>1 DEF RegistryMoves
  <2>2. w.op = "text"
    BY DEF TextFrame
  <2> HIDE DEF w
  <2>3. /\ m \in Seq(Byte) /\ TextMessages(ReadFrom("client")) \in Seq(Seq(Byte))
        /\ TextMessages(ReadFrom("client")') = TextMessages(ReadFrom("client")) \o <<m>>
        /\ TextMessages(ReadFrom("upstream")') = TextMessages(ReadFrom("upstream"))
        /\ TextsAmong(written'["upstream"]) = TextsAmong(written["upstream"]) \o <<w>>
        /\ written'["client"] = written["client"]
        /\ \A s \in Sides : BufferHolds(s)'
        /\ buffers' \in [Sides -> [active: BOOLEAN, payload: Seq(Byte)]]
        /\ \A s \in Sides : Len(buffers'[s].payload) <= MaxText
        /\ OtherFramesPass'
        /\ DOMAIN written' = Sides /\ \E S : written'["upstream"] \in Seq(S)
    BY <1>2, <2>1, <2>2, MessageIsCounted DEF m
  <2>4. RelayTypeOK
    BY DEF RelayInv
  <2>5. RelayTypeOK'
    BY <1>2, <2>1, <2>3, <2>4, <2>9, ReadFrameType DEF RelayTypeOK
  <2>6. TextIsSentSanitized'
    <3> DEFINE ms == TextMessages(ReadFrom("client"))
    <3>1. TextsAmong(written["upstream"]) = Rewritten(ms)
        BY DEF RelayInv, TextIsSentSanitized, Rewritten
    <3>2. Rewritten(ms \o <<m>>) = Rewritten(ms) \o <<w>>
      <4> HIDE DEF ms
      <4>1. ms \in Seq(Seq(Byte))
        BY <2>3 DEF ms
      <4> QED BY <2>3, <4>1, RewrittenGrows DEF w
    <3>3. TextsAmong(written'["upstream"]) = Rewritten(TextMessages(ReadFrom("client")'))
        BY <2>3, <3>1, <3>2
    <3> QED BY <3>3 DEF TextIsSentSanitized, Rewritten
  <2>7. /\ AnswerIsConserved'
        /\ answered' <= Len(TextMessages(ReadFrom("upstream")'))
        /\ restorer'.version # version' => answered' = Len(TextMessages(ReadFrom("upstream")'))
    BY <2>1, <2>3, <2>9, AnswerStays
  <2>8. /\ Len(TextsAmong(written'["client"])) = Len(TextMessages(ReadFrom("upstream")'))
        /\ restorer'.pending # <<>> => \E p \in Patterns : IsStrictPrefix(restorer'.pending, p)
    BY <2>1, <2>3 DEF RelayInv
  <2> QED BY <2>1, <2>3, <2>5, <2>6, <2>7, <2>8 DEF RelayInv
<1> QED BY <1>3, <1>4

\* The restorer a message meets: it is of the registry's version, and with what it holds the
\* texts since the last registration add up.
LEMMA RestorerAtHand ==
    ASSUME RelayInv, relay = "open"
    PROVE  /\ CurrentRestorer \in [version: {version}, pending: Seq(Byte)]
           /\ CurrentRestorer.pending # <<>> =>
                \E p \in Patterns : IsStrictPrefix(CurrentRestorer.pending, p)
           /\ Unrestored(SentFor(MessagesSince, SentSince)) \o CurrentRestorer.pending
                = StreamedOf(MessagesSince)
<1> DEFINE new == [version |-> version, pending |-> <<>>]
           ms == TextMessages(ReadFrom("upstream"))
           sent == TextsAmong(written["client"])
<1>1. /\ restorer \in [version: 0 .. version, pending: Seq(Byte)]
      /\ restorer.pending # <<>> => \E p \in Patterns : IsStrictPrefix(restorer.pending, p)
      /\ relay \in {"open", "closed"}
    BY DEF RelayInv, RelayTypeOK
<1>2. CASE restorer.version # version
  <2>1. CurrentRestorer = new
    BY <1>2 DEF CurrentRestorer
  <2>2. answered = Len(ms) /\ Len(ms) \in Nat /\ Len(sent) = Len(ms)
    <3>1. Len(ms) \in Nat
        BY MessagesType DEF RelayInv, Sides
    <3> QED BY <1>1, <1>2, <3>1 DEF RelayInv
  <2>3. \A t : SubSeq(t, Len(ms) + 1, Len(ms)) = <<>>
    <3> HIDE DEF ms
    <3> QED BY <2>2
  <2>4. MessagesSince = <<>> /\ SentSince = <<>>
    <3> HIDE DEF ms, sent
    <3>1. MessagesSince = SubSeq(ms, answered + 1, Len(ms)) /\ SentSince = SubSeq(sent, answered + 1, Len(sent))
        BY Zenon DEF MessagesSince, SentSince, ms, sent
    <3> QED BY <2>2, <2>3, <3>1
  <2>5. StreamedOf(<<>>) = <<>> /\ SentFor(<<>>, <<>>) = <<>>
    <3>1. FlattenSeq(<<>>) = <<>> /\ Len(<<>>) = 0 /\ 1 .. 0 = {}
        BY DEF FlattenSeq
    <3> QED BY <3>1 DEF StreamedOf, SentFor
  <2>6. Unrestored(<<>>) = <<>>
    <3>1. FlattenSeq(<<>>) = <<>>
        BY DEF FlattenSeq
    <3> QED BY <3>1 DEF Unrestored
  <2>7. new \in [version: {version}, pending: Seq(Byte)] /\ new.pending = <<>>
    OBVIOUS
  <2> QED BY <2>1, <2>4, <2>5, <2>6, <2>7
<1>3. CASE restorer.version = version
  <2>1. CurrentRestorer = restorer
    BY <1>3 DEF CurrentRestorer
  <2>2. restorer \in [version: {version}, pending: Seq(Byte)]
    BY <1>1, <1>3
  <2> QED BY <1>1, <1>3, <2>1, <2>2 DEF RelayInv, AnswerIsConserved
<1> QED BY <1>2, <1>3

\* What a message of the answer becomes: the payload sent, and what the restorer holds then.
LEMMA MessageIsRestored ==
    ASSUME RelayInv, relay = "open", NEW m \in Seq(Byte), RewriteText("upstream", m)
    PROVE  \E restored \in Seq(Symbol) :
            /\ written' = [written EXCEPT !["client"] = Append(@, TextFrame(restored))]
            /\ relay' = relay /\ UNCHANGED registryVars
            /\ restorer' \in [version: {version}, pending: Seq(Byte)]
            /\ restorer'.pending # <<>> => \E p \in Patterns : IsStrictPrefix(restorer'.pending, p)
            /\ IF Streamed(m)
               THEN Unrestored(restored) \o restorer'.pending = CurrentRestorer.pending \o m
               ELSE restorer'.pending = CurrentRestorer.pending
<1> DEFINE held == CurrentRestorer.pending
           pushed == PushText(held, m)
<1>1. /\ CurrentRestorer \in [version: {version}, pending: Seq(Byte)]
      /\ held # <<>> => \E p \in Patterns : IsStrictPrefix(held, p)
    BY RestorerAtHand
<1>2. Other("upstream") = "client" /\ "upstream" # "client"
    BY OtherSide
<1> HIDE DEF held
<1>3. CASE Streamed(m)
  <2>1. /\ written' = [written EXCEPT !["client"] = Append(@, TextFrame(pushed.out))]
        /\ restorer' = [CurrentRestorer EXCEPT !.pending = pushed.pending]
        /\ relay' = relay /\ UNCHANGED registryVars
    BY <1>2, <1>3, Zenon DEF RewriteText, Write, held
  <2>2. held \in Seq(Byte) /\ (Patterns = {} => held = <<>>)
    BY <1>1 DEF held
  <2>3. /\ pushed.out \in Seq(Symbol) /\ pushed.pending \in Seq(Byte)
        /\ Unrestored(pushed.out) \o pushed.pending = held \o m
        /\ pushed.pending # <<>> => \E p \in Patterns : IsStrictPrefix(pushed.pending, p)
    BY <2>2, PushTextConserves
  <2> HIDE DEF pushed
  <2>4. restorer' \in [version: {version}, pending: Seq(Byte)] /\ restorer'.pending = pushed.pending
    BY <1>1, <2>1, <2>3
  <2> QED BY <1>3, <2>1, <2>3, <2>4 DEF held
<1>4. CASE ~Streamed(m)
  <2>1. /\ written' = [written EXCEPT !["client"] = Append(@, TextFrame(Restore(m)))]
        /\ restorer' = CurrentRestorer
        /\ relay' = relay /\ UNCHANGED registryVars
    BY <1>2, <1>4, Zenon DEF RewriteText, Write
  <2>2. Restore(m) \in Seq(Symbol)
    BY RestoreWholeType
  <2> QED BY <1>1, <1>4, <2>1, <2>2 DEF held
<1> QED BY <1>3, <1>4

\* What a sequence holds behind its first n members.
Behind(s, n) == SubSeq(s, n + 1, Len(s))

LEMMA BehindGrows ==
    ASSUME NEW S, NEW s \in Seq(S), NEW x \in S, NEW n \in Nat, n <= Len(s)
    PROVE  /\ Behind(s, n) \in Seq(S) /\ Len(Behind(s, n)) = Len(s) - n
           /\ Behind(s \o <<x>>, n) = Behind(s, n) \o <<x>>
<1> DEFINE a == SubSeq(s \o <<x>>, n + 1, Len(s \o <<x>>))
           b == SubSeq(s, n + 1, Len(s))
<1>1. /\ s \o <<x>> \in Seq(S) /\ Len(s \o <<x>>) = Len(s) + 1 /\ Len(s) \in Nat
      /\ \A i \in 1 .. Len(s) + 1 : (s \o <<x>>)[i] = IF i <= Len(s) THEN s[i] ELSE x
    OBVIOUS
<1>2. b \in Seq(S) /\ Len(b) = Len(s) - n /\ \A i \in 1 .. Len(s) - n : b[i] = s[n + i]
    BY <1>1
<1>3. a \in Seq(S) /\ Len(a) = Len(s) + 1 - n
      /\ \A i \in 1 .. Len(s) + 1 - n : a[i] = (s \o <<x>>)[n + i]
    BY <1>1
<1> HIDE DEF a, b
<1>4. /\ b \o <<x>> \in Seq(S) /\ Len(b \o <<x>>) = Len(s) + 1 - n
      /\ \A i \in 1 .. Len(s) + 1 - n : (b \o <<x>>)[i] = IF i <= Len(s) - n THEN b[i] ELSE x
    BY <1>1, <1>2
<1>5. ASSUME NEW i \in 1 .. Len(s) + 1 - n PROVE a[i] = (b \o <<x>>)[i]
  <2>1. n + i \in 1 .. Len(s) + 1 /\ (n + i <= Len(s) <=> i <= Len(s) - n)
        /\ (i <= Len(s) - n => i \in 1 .. Len(s) - n)
    BY <1>1
  <2> QED BY <1>1, <1>2, <1>3, <1>4, <2>1
<1>6. a = b \o <<x>>
    BY <1>3, <1>4, <1>5, SeqEqual
<1> QED BY <1>2, <1>6 DEF a, b, Behind

\* What was sent for messages and what is held are the streamed text of the messages.
AddsUp(ms, sent, p) == Unrestored(SentFor(ms, sent)) \o p = StreamedOf(ms)

\* What message m and the frame w written for it make of what is held.
GoesOn(m, w, p, q) ==
    IF Streamed(m) THEN Unrestored(w.payload) \o q = p \o m ELSE q = p

\* One message more keeps what was sent and what is held equal to what was read.
LEMMA AnswerGrows ==
    ASSUME NEW ms \in Seq(Seq(Byte)), NEW m \in Seq(Byte),
           NEW sent \in Seq(Frames(Symbol)), NEW w \in Frames(Symbol), Len(sent) = Len(ms),
           NEW p \in Seq(Byte), NEW q \in Seq(Byte),
           AddsUp(ms, sent, p), GoesOn(m, w, p, q)
    PROVE  AddsUp(ms \o <<m>>, sent \o <<w>>, q)
<1> DEFINE taken == StreamedOf(ms)
           given == SentFor(ms, sent)
           g == Unrestored(given)
           h == Unrestored(w.payload)
<1>1. /\ taken \in Seq(Byte) /\ given \in Seq(Symbol)
      /\ StreamedOf(ms \o <<m>>) = taken \o IF Streamed(m) THEN m ELSE <<>>
      /\ SentFor(ms \o <<m>>, sent \o <<w>>) = given \o IF Streamed(m) THEN w.payload ELSE <<>>
  <2>1. /\ ms \in Seq(Seq(Byte)) /\ m \in Seq(Byte) /\ sent \in Seq(Frames(Symbol))
        /\ w \in Frames(Symbol) /\ Len(sent) = Len(ms)
    OBVIOUS
  <2> QED BY <2>1, StreamedGrows, Zenon
<1>2. w.payload \in Seq(Symbol)
    BY DEF Frames
<1>3. g \o p = taken
    BY DEF AddsUp
<1> HIDE DEF taken, given
<1>4. g \in Seq(Symbol) /\ h \in Seq(Symbol)
    BY <1>1, <1>2, UnrestoredType
<1>5. p \in Seq(Symbol) /\ q \in Seq(Symbol) /\ m \in Seq(Symbol)
    BY EventsByteSymbol
<1>6. CASE Streamed(m)
  <2>1. Unrestored(given \o w.payload) = g \o h
    BY <1>1, <1>2, UnrestoredConcat
  <2>2. h \o q = p \o m
    BY <1>6 DEF GoesOn
  <2> HIDE DEF g, h
  <2>3. (g \o h) \o q = g \o (h \o q)
    BY <1>4, <1>5, ConcatIsAssociative, Zenon
  <2>4. (g \o p) \o m = g \o (p \o m)
    BY <1>4, <1>5, ConcatIsAssociative, Zenon
  <2> QED BY <1>1, <1>3, <1>6, <2>1, <2>2, <2>3, <2>4 DEF AddsUp
<1>7. CASE ~Streamed(m)
  <2>1. given \o <<>> = given /\ taken \o <<>> = taken
    BY <1>1, ConcatEmptySeq
  <2> QED BY <1>1, <1>3, <1>7, <2>1 DEF AddsUp, GoesOn, g, given, taken
<1> QED BY <1>6, <1>7

\* The same of the messages behind the first n.
LEMMA AnswerBehindGrows ==
    ASSUME NEW ms \in Seq(Seq(Byte)), NEW m \in Seq(Byte),
           NEW sent \in Seq(Frames(Symbol)), NEW w \in Frames(Symbol), Len(sent) = Len(ms),
           NEW n \in Nat, n <= Len(ms), NEW p \in Seq(Byte), NEW q \in Seq(Byte),
           AddsUp(Behind(ms, n), Behind(sent, n), p), GoesOn(m, w, p, q)
    PROVE  AddsUp(Behind(ms \o <<m>>, n), Behind(sent \o <<w>>, n), q)
<1> DEFINE a == Behind(ms, n)
           b == Behind(sent, n)
<1>1. a \in Seq(Seq(Byte)) /\ Len(a) = Len(ms) - n /\ Behind(ms \o <<m>>, n) = a \o <<m>>
    BY BehindGrows
<1>2. b \in Seq(Frames(Symbol)) /\ Len(b) = Len(sent) - n /\ Behind(sent \o <<w>>, n) = b \o <<w>>
  <2>1. n <= Len(sent)
    OBVIOUS
  <2> QED BY <2>1, BehindGrows
<1> HIDE DEF a, b
<1>3. AddsUp(a \o <<m>>, b \o <<w>>, q)
  <2>1. Len(b) = Len(a) /\ AddsUp(a, b, p)
    BY <1>1, <1>2 DEF a, b
  <2> QED BY <1>1, <1>2, <2>1, AnswerGrows, Zenon
<1> QED BY <1>1, <1>2, <1>3

LEMMA UpstreamMessagePreserves ==
    ASSUME RelayInv, relay = "open", ReadFrame("upstream"),
           NEW e \in Frames(Byte), ReadFrom("upstream") \in Seq(Frames(Byte)),
           ReadFrom("upstream")' = Append(ReadFrom("upstream"), e),
           \A s \in Sides \ {"upstream"} : ReadFrom(s)' = ReadFrom(s),
           MessageLeaves("upstream", Append(ReadFrom("upstream"), e))
    PROVE  RelayInv'
<1> DEFINE m == Payload(Append(ReadFrom("upstream"), e), Len(ReadFrom("upstream")) + 1)
           ms == TextMessages(ReadFrom("upstream"))
           sent == TextsAmong(written["client"])
<1>1. RewriteText("upstream", m) /\ Completes(e)
      /\ OfText(Append(ReadFrom("upstream"), e), Len(ReadFrom("upstream")) + 1)
  <2>1. LET gs == Append(ReadFrom("upstream"), e) IN gs[Len(gs)] = e /\ Len(gs) = Len(ReadFrom("upstream")) + 1
    OBVIOUS
  <2> QED BY <2>1 DEF MessageLeaves
<1>2. "client" \in Sides /\ "upstream" \in Sides /\ Other("upstream") = "client"
      /\ "client" \in Sides \ {"upstream"} /\ Other("client") = "upstream"
    BY OtherSide
<1>3. m \in Seq(Byte)
    BY <1>1, MessagesGrow
<1> HIDE DEF m
<1>4. PICK restored \in Seq(Symbol) :
        /\ written' = [written EXCEPT !["client"] = Append(@, TextFrame(restored))]
        /\ relay' = relay
        /\ UNCHANGED registryVars
        /\ restorer' \in [version: {version}, pending: Seq(Byte)]
        /\ restorer'.pending # <<>> => \E p \in Patterns : IsStrictPrefix(restorer'.pending, p)
        /\ IF Streamed(m)
           THEN Unrestored(restored) \o restorer'.pending = CurrentRestorer.pending \o m
           ELSE restorer'.pending = CurrentRestorer.pending
    BY <1>1, <1>3, MessageIsRestored
<1> DEFINE w == TextFrame(restored)
<1>5. w \in Frames(Symbol) /\ w.op = "text" /\ w.payload = restored
    BY DEF TextFrame, Frames
<1> HIDE DEF w
<1>6. /\ ms \in Seq(Seq(Byte))
      /\ TextMessages(ReadFrom("upstream")') = ms \o <<m>>
      /\ TextMessages(ReadFrom("client")') = TextMessages(ReadFrom("client"))
      /\ TextsAmong(written'["client"]) = sent \o <<w>>
      /\ written'["upstream"] = written["upstream"]
      /\ \A s \in Sides : BufferHolds(s)'
      /\ buffers' \in [Sides -> [active: BOOLEAN, payload: Seq(Byte)]]
      /\ \A s \in Sides : Len(buffers'[s].payload) <= MaxText
      /\ OtherFramesPass'
      /\ DOMAIN written' = Sides /\ \E S : written'["upstream"] \in Seq(S)
  <2>1. written' = [written EXCEPT ![Other("upstream")] = Append(@, w)]
    BY <1>2, <1>4 DEF w
  <2> HIDE <1>4
  <2> QED BY <1>2, <1>5, <2>1, MessageIsCounted DEF m
<1>7. /\ RelayTypeOK /\ version' = version /\ answered' = answered /\ RegistryMoves
      /\ DOMAIN written = Sides /\ written["client"] \in Seq(Frames(Symbol))
      /\ restorer \in [version: 0 .. version, pending: Seq(Byte)]
      /\ relay \in {"open", "closed"}
      /\ Len(sent) = Len(ms) /\ answered <= Len(ms) /\ answered \in Nat
    BY <1>4 DEF RelayInv, RelayTypeOK, registryVars, RegistryMoves
<1>8. RelayTypeOK'
  <2>1. written'["client"] \in Seq(Frames(Symbol))
    BY <1>2, <1>4, <1>5, <1>7 DEF w
  <2>2. restorer' \in [version: 0 .. version, pending: Seq(Byte)] /\ restorer'.version # 0
    <3>1. version \in Nat \ {0}
        BY <1>7 DEF RelayTypeOK
    <3>2. version \in 0 .. version /\ version # 0
        BY <3>1
    <3> QED BY <1>4, <3>2
  <2>3. relay' \in {"open", "closed", "failed"}
    BY <1>4, <1>7
  <2> QED BY <1>2, <1>6, <1>7, <2>1, <2>2, <2>3, ReadFrameType
<1>9. sent \in Seq(Frames(Symbol))
    BY <1>5, <1>7, WrittenGrows
<1> HIDE DEF ms, sent
<1>10. /\ ms \in Seq(Seq(Byte)) /\ m \in Seq(Byte)
       /\ sent \in Seq(Frames(Symbol)) /\ w \in Frames(Symbol)
       /\ CurrentRestorer.pending \in Seq(Byte) /\ restorer'.pending \in Seq(Byte)
    BY <1>3, <1>4, <1>5, <1>6, <1>9, RestorerAtHand
<1> DEFINE held == CurrentRestorer.pending
           left == restorer'.pending
<1>11. AnswerIsConserved'
  <2>1. AddsUp(Behind(ms, answered), Behind(sent, answered), held)
    <3>1. MessagesSince = Behind(ms, answered) /\ SentSince = Behind(sent, answered)
        BY Zenon DEF MessagesSince, SentSince, Behind, ms, sent
    <3> QED BY <3>1, RestorerAtHand DEF AddsUp
  <2>2. GoesOn(m, w, held, left)
    BY <1>4, <1>5 DEF GoesOn
  <2>3. /\ Len(sent) = Len(ms) /\ held \in Seq(Byte) /\ left \in Seq(Byte)
        /\ answered \in Nat /\ answered <= Len(ms)
    BY <1>7, <1>10
  <2>4. /\ MessagesSince' = Behind(ms \o <<m>>, answered)
        /\ SentSince' = Behind(sent \o <<w>>, answered)
    BY <1>6, <1>7 DEF MessagesSince, SentSince, Behind
  <2> HIDE DEF held, left
  <2>5. AddsUp(Behind(ms \o <<m>>, answered), Behind(sent \o <<w>>, answered), left)
    BY <1>10, <2>1, <2>2, <2>3, AnswerBehindGrows, Zenon
  <2> QED BY <2>4, <2>5 DEF AnswerIsConserved, AddsUp, left
<1>12. TextIsSentSanitized'
    BY <1>4, <1>6, <1>7 DEF RelayInv, TextIsSentSanitized
<1>13. Len(TextsAmong(written'["client"])) = Len(TextMessages(ReadFrom("upstream")'))
  <2>1. Len(ms \o <<m>>) = Len(sent \o <<w>>)
    BY <1>7, <1>10
  <2> QED BY <1>6, <2>1
<1>14. /\ answered' <= Len(TextMessages(ReadFrom("upstream")'))
       /\ restorer'.version = version'
  <2>1. Len(ms \o <<m>>) = Len(ms) + 1 /\ Len(ms) \in Nat
    BY <1>10
  <2> QED BY <1>4, <1>6, <1>7, <2>1
<1> QED BY <1>4, <1>6, <1>8, <1>11, <1>12, <1>13, <1>14 DEF RelayInv

LEMMA ReadFramePreserves ==
    ASSUME RelayInv, NEW side \in Sides, ReadFrame(side)
    PROVE  RelayInv'
<1>1. relay = "open"
    BY DEF ReadFrame
<1> DEFINE e == frames[side][framesRead[side] + 1]
           gs == Append(ReadFrom(side), e)
<1>2. /\ ReadFrom(side) \in Seq(Frames(Byte)) /\ e \in Frames(Byte)
      /\ ReadFrom(side)' = gs
      /\ \A s \in Sides \ {side} : ReadFrom(s)' = ReadFrom(s)
      /\ \/ FrameFails(side) \/ FrameIsHeld(side, gs)
         \/ MessageLeaves(side, gs) \/ FramePasses(side, gs)
    BY <1>1, FrameOutcomes
<1> HIDE DEF e
<1>3. CASE FrameFails(side)
    BY <1>3, FailPreserves
<1>4. CASE FrameIsHeld(side, gs)
    BY <1>1, <1>2, <1>4, HeldPreserves
<1>5. CASE FramePasses(side, gs)
    BY <1>1, <1>2, <1>5, PassPreserves
<1>6. CASE MessageLeaves(side, gs)
  <2>1. CASE side = "client"
    BY <1>1, <1>2, <1>6, <2>1, ClientMessagePreserves
  <2>2. CASE side = "upstream"
    BY <1>1, <1>2, <1>6, <2>2, UpstreamMessagePreserves
  <2> QED BY <2>1, <2>2, OtherSide
<1> QED BY <1>2, <1>3, <1>4, <1>5, <1>6

LEMMA RelayStepPreserves == RelayInv /\ [RelayNext]_relayVars => RelayInv'
<1> SUFFICES ASSUME RelayInv, [RelayNext]_relayVars PROVE RelayInv'
    OBVIOUS
<1>1. /\ partRead \subseteq Sides /\ lost \subseteq Sides /\ relay \in {"open", "closed", "failed"}
    BY DEF RelayInv, RelayTypeOK
<1>8. UNCHANGED registryVars => RegistryMoves
    BY DEF RegistryMoves
<1>2. ASSUME NEW side \in Sides, ReadHeader(side) PROVE RelayInv'
    BY <1>1, <1>2, <1>8, RelayIdles DEF ReadHeader
<1>3. ASSUME NEW side \in Sides, ReadFrame(side) PROVE RelayInv'
    BY <1>3, ReadFramePreserves
<1>4. ASSUME NEW side \in Sides, Eof(side) PROVE RelayInv'
    BY <1>1, <1>4, <1>8, RelayIdles DEF Eof
<1>5. CASE ConnectionFails
    BY <1>1, <1>5, <1>8, RelayIdles DEF ConnectionFails
<1>6. CASE OtherConnectionIngests
  <2>1. RegistryMoves
    BY <1>6 DEF OtherConnectionIngests, RegistryMoves
  <2> QED BY <1>1, <1>6, <2>1, RelayIdles DEF OtherConnectionIngests
<1>7. CASE UNCHANGED relayVars
    BY <1>1, <1>7, <1>8, RelayIdles DEF relayVars
<1> QED BY <1>2, <1>3, <1>4, <1>5, <1>6, <1>7 DEF RelayNext

\* In every reachable state a side's buffer holds the open text message and nothing else, the
\* restorer less than a placeholder, and each side was sent what the other one said.
THEOREM RelayInvariant == RelaySpec => []RelayInv
<1> QED BY RelayInitEstablishes, RelayStepPreserves, PTL DEF RelaySpec

\* Whatever the fragments and the control frames between them, upstream gets each text message
\* of the client once, whole, in order and sanitized (handle_text_frame, append_fragment).
THEOREM MessagesAreSentSanitized == RelaySpec => []TextIsSentSanitized
<1>1. RelayInv => TextIsSentSanitized
    BY DEF RelayInv
<1> QED BY <1>1, RelayInvariant, PTL

\* Every frame of no text message passes unchanged and in order (handle_passthrough_frame).
THEOREM TheRestIsPassedOn == RelaySpec => []OtherFramesPass
<1>1. RelayInv => OtherFramesPass
    BY DEF RelayInv
<1> QED BY <1>1, RelayInvariant, PTL

\* However an answer is cut into messages, none of its streamed text is lost between them,
\* from one registration, of this client's secrets or of another's, to the next
\* (restore_upstream_text, PlaceholderFragmentRestorer::push_text).
THEOREM AnswersLoseNothing == RelaySpec => []AnswerIsConserved
<1>1. RelayInv => AnswerIsConserved
    BY DEF RelayInv
<1> QED BY <1>1, RelayInvariant, PTL

-----------------------------------------------------------------------------
\* Chunks

Reading(S) == [body : Seq(S), complete : BOOLEAN]

\* A whole chunk stands in front.
StartsWithChunk(wire) == HasChunk(wire) /\ ChunkIsClosed(wire)

\* The line in front ends where a line ends first.
LEMMA LineInFront ==
    ASSUME NEW S, NEW wire \in Seq(S), HasLine(wire)
    PROVE  /\ LineLen(wire) \in Nat /\ LineLen(wire) + 1 \in LineEnds(wire)
           /\ LineLen(wire) + 2 <= Len(wire)
           /\ \A i \in LineEnds(wire) : LineLen(wire) + 1 <= i
<1>1. LineEnds(wire) \in SUBSET Nat /\ LineEnds(wire) # {}
    BY DEF LineEnds, HasLine
<1>2. Min(LineEnds(wire)) \in LineEnds(wire) /\ \A i \in LineEnds(wire) : Min(LineEnds(wire)) <= i
    BY <1>1, MinIsLeast
<1>3. Min(LineEnds(wire)) \in 1 .. Len(wire) - 1
    BY <1>2 DEF LineEnds
<1> QED BY <1>2, <1>3 DEF LineLen

\* Where the chunk in front ends, and when its end closes it.
LEMMA ChunkInFront ==
    ASSUME NEW S, NEW wire \in Seq(S), HasSize(wire)
    PROVE  /\ wire[1] \in Nat /\ ChunkEnd(wire) \in Nat /\ Len(wire) \in Nat
           /\ ChunkEnd(wire) = LineLen(wire) + 2 + wire[1] /\ LineLen(wire) \in Nat
           /\ ChunkEnd(wire) + 1 \in LineEnds(wire) <=>
                Len(wire) >= ChunkEnd(wire) + 2 /\ ChunkIsClosed(wire)
<1>1. HasLine(wire) /\ wire[1] \in Nat /\ Len(wire) \in Nat
    BY DEF HasSize
<1>2. LineLen(wire) \in Nat
    BY <1>1, LineInFront
<1>3. ChunkEnd(wire) \in Nat /\ ChunkEnd(wire) = LineLen(wire) + 2 + wire[1]
    BY <1>1, <1>2 DEF ChunkEnd
<1>4. ChunkEnd(wire) + 1 \in LineEnds(wire) <=>
        Len(wire) >= ChunkEnd(wire) + 2 /\ ChunkIsClosed(wire)
  <2> HIDE DEF ChunkEnd
  <2>1. ChunkEnd(wire) + 1 + 1 = ChunkEnd(wire) + 2
    BY <1>3
  <2> QED BY <1>1, <1>3, <2>1 DEF LineEnds, ChunkIsClosed
<1> QED BY <1>1, <1>2, <1>3, <1>4

\* The reader of a wire and the proxy agree on what stands in front of it.
LEMMA SaysIs ==
    ASSUME NEW S, NEW wire \in Seq(S), NEW said
    PROVE  /\ ~HasSize(wire) => Says(wire, said) = [body |-> <<>>, complete |-> FALSE]
           /\ HasSize(wire) /\ wire[1] = 0 =>
                Says(wire, said) = [body |-> <<>>, complete |-> HasLastChunk(wire)]
           /\ HasSize(wire) /\ wire[1] # 0 /\ ~StartsWithChunk(wire) =>
                Says(wire, said) =
                    [body |-> SubSeq(wire, LineLen(wire) + 3, Min({ChunkEnd(wire), Len(wire)})),
                     complete |-> FALSE]
           /\ StartsWithChunk(wire) =>
                Says(wire, said) =
                    [body |-> SubSeq(wire, LineLen(wire) + 3, ChunkEnd(wire))
                              \o said[Len(wire) - ChunkEnd(wire) - 2].body,
                     complete |-> said[Len(wire) - ChunkEnd(wire) - 2].complete]
<1> DEFINE line == {i \in 1 .. Len(wire) - 1 : wire[i] = Cr /\ wire[i + 1] = Lf}
           data == Min(line) + 2
           end == data + wire[1]
<1>1. line = LineEnds(wire)
    BY DEF LineEnds
<1>2. CASE ~HasSize(wire)
  <2>1. line = {} \/ wire[1] \notin Nat
    BY <1>1, <1>2 DEF HasSize, HasLine
  <2>2. ~StartsWithChunk(wire)
    BY <1>2 DEF StartsWithChunk, HasChunk
  <2>3. Says(wire, said) = [body |-> <<>>, complete |-> FALSE]
    BY <2>1, Zenon DEF Says
  <2> QED BY <1>2, <2>2, <2>3
<1>3. CASE HasSize(wire)
  <2>1. /\ wire[1] \in Nat /\ ChunkEnd(wire) \in Nat /\ Len(wire) \in Nat /\ LineLen(wire) \in Nat
        /\ ChunkEnd(wire) = LineLen(wire) + 2 + wire[1]
        /\ ChunkEnd(wire) + 1 \in LineEnds(wire) <=>
                Len(wire) >= ChunkEnd(wire) + 2 /\ ChunkIsClosed(wire)
    BY <1>3, ChunkInFront
  <2>2. Min(line) = LineLen(wire) + 1 /\ line # {}
    <3>1. HasLine(wire)
        BY <1>3 DEF HasSize
    <3>2. Min(line) \in Nat
        <4>1. LineEnds(wire) \in SUBSET Nat /\ LineEnds(wire) # {}
            BY <3>1 DEF LineEnds, HasLine
        <4> QED BY <1>1, <4>1, MinIsLeast
    <3> HIDE DEF line
    <3> QED BY <1>1, <3>1, <3>2 DEF HasLine, LineLen
  <2>3. data = LineLen(wire) + 3 /\ end = ChunkEnd(wire) + 1
    <3>1. data = Min(line) + 2 /\ end = data + wire[1]
        OBVIOUS
    <3>2. /\ Min(line) = LineLen(wire) + 1 /\ LineLen(wire) \in Nat /\ wire[1] \in Nat
          /\ ChunkEnd(wire) = LineLen(wire) + 2 + wire[1]
        BY <2>1, <2>2
    <3> HIDE DEF data, end, line
    <3> QED BY <3>1, <3>2
  <2>4. /\ end - 1 = ChunkEnd(wire) /\ Len(wire) - end - 1 = Len(wire) - ChunkEnd(wire) - 2
        /\ end \in line <=> Len(wire) >= ChunkEnd(wire) + 2 /\ ChunkIsClosed(wire)
    <3>1. line = LineEnds(wire) /\ end = ChunkEnd(wire) + 1
        BY <1>1, <2>3
    <3> HIDE DEF line, end
    <3>2. /\ end - 1 = ChunkEnd(wire) /\ Len(wire) - end - 1 = Len(wire) - ChunkEnd(wire) - 2
        BY <2>1, <3>1
    <3> QED BY <2>1, <3>1, <3>2
  <2>5. ~(line = {} \/ wire[1] \notin Nat)
    BY <2>1, <2>2
  <2>6. CASE wire[1] = 0
    <3>1. ~StartsWithChunk(wire)
        BY <2>6 DEF StartsWithChunk, HasChunk
    <3>2. Says(wire, said) = [body |-> <<>>, complete |-> \E i \in line : i - 2 \in line]
        BY <2>5, <2>6, Zenon DEF Says
    <3>3. (\E i \in line : i - 2 \in line) <=> HasLastChunk(wire)
        BY <1>1, <1>3, <2>6, Zenon DEF HasLastChunk
    <3>4. HasLastChunk(wire) \in BOOLEAN /\ (\E i \in line : i - 2 \in line) \in BOOLEAN
        BY DEF HasLastChunk
    <3>5. (\E i \in line : i - 2 \in line) = HasLastChunk(wire)
        BY <3>3, <3>4
    <3>6. Says(wire, said) = [body |-> <<>>, complete |-> HasLastChunk(wire)]
        BY <3>2, <3>5, Zenon
    <3> QED BY <1>3, <2>6, <3>1, <3>6, Zenon
  <2>7. CASE wire[1] # 0 /\ end \notin line
    <3>1. ~StartsWithChunk(wire)
        BY <2>4, <2>7 DEF StartsWithChunk, HasChunk
    <3>2. Says(wire, said) = [body |-> SubSeq(wire, data, Min({end - 1, Len(wire)})), complete |-> FALSE]
        BY <2>5, <2>7, Zenon DEF Says
    <3>3. Says(wire, said) =
            [body |-> SubSeq(wire, LineLen(wire) + 3, Min({ChunkEnd(wire), Len(wire)})),
             complete |-> FALSE]
        BY <2>3, <2>4, <3>2, Zenon
    <3> QED BY <1>3, <2>7, <3>1, <3>3, Zenon
  <2>8. CASE wire[1] # 0 /\ end \in line
    <3> DEFINE rest == said[Len(wire) - end - 1]
    <3>2. Says(wire, said) = [body |-> SubSeq(wire, data, end - 1) \o rest.body, complete |-> rest.complete]
        BY <2>5, <2>8, Zenon DEF Says
    <3>3. StartsWithChunk(wire)
      <4>1. wire[1] > 0
        BY <2>1, <2>8
      <4> HIDE DEF end, line
      <4> QED BY <1>3, <2>4, <2>8, <4>1 DEF StartsWithChunk, HasChunk
    <3>4. Says(wire, said) =
            [body |-> SubSeq(wire, LineLen(wire) + 3, ChunkEnd(wire))
                      \o said[Len(wire) - ChunkEnd(wire) - 2].body,
             complete |-> said[Len(wire) - ChunkEnd(wire) - 2].complete]
        BY <2>3, <2>4, <3>2, Zenon
    <3> QED BY <1>3, <2>8, <3>3, <3>4, Zenon
  <2> QED BY <2>6, <2>7, <2>8
<1> QED BY <1>2, <1>3

\* Behind a whole chunk there is less.
LEMMA RestIsShorter ==
    ASSUME NEW S, NEW wire \in Seq(S), StartsWithChunk(wire)
    PROVE  /\ Len(wire) \in Nat /\ ChunkEnd(wire) \in Nat /\ HasSize(wire) /\ wire[1] # 0
           /\ Len(wire) - ChunkEnd(wire) - 2 \in Nat
           /\ Len(wire) - ChunkEnd(wire) - 2 < Len(wire)
<1>1. HasSize(wire) /\ Len(wire) >= ChunkEnd(wire) + 2 /\ wire[1] > 0
    BY DEF StartsWithChunk, HasChunk
<1>2. wire[1] \in Nat /\ ChunkEnd(wire) \in Nat /\ Len(wire) \in Nat
    BY <1>1, ChunkInFront
<1> QED BY <1>1, <1>2

\* What a wire says depends only on what shorter ones say.
LEMMA SaysDepends ==
    ASSUME NEW S, NEW wire \in Seq(S), NEW f, NEW g,
           \A k \in Nat : k < Len(wire) => f[k] = g[k]
    PROVE  Says(wire, f) = Says(wire, g)
<1>1. CASE ~HasSize(wire)
    BY <1>1, SaysIs
<1>2. CASE HasSize(wire) /\ wire[1] = 0
    BY <1>2, SaysIs
<1>3. CASE HasSize(wire) /\ wire[1] # 0 /\ ~StartsWithChunk(wire)
    BY <1>3, SaysIs
<1>4. CASE StartsWithChunk(wire)
  <2> DEFINE m == Len(wire) - ChunkEnd(wire) - 2
  <2>1. f[m] = g[m]
    BY <1>4, RestIsShorter
  <2>2. \A said : Says(wire, said) =
                    [body |-> SubSeq(wire, LineLen(wire) + 3, ChunkEnd(wire)) \o said[m].body,
                     complete |-> said[m].complete]
    BY <1>4, SaysIs
  <2> HIDE DEF m
  <2> QED BY <2>1, <2>2, Zenon
<1> QED BY <1>1, <1>2, <1>3, <1>4

LEMMA SaysType ==
    ASSUME NEW S, NEW wire \in Seq(S), NEW f,
           \A k \in Nat : k < Len(wire) => f[k] \in Reading(S)
    PROVE  Says(wire, f) \in Reading(S)
<1>1. CASE ~HasSize(wire)
  <2>1. [body |-> <<>>, complete |-> FALSE] \in Reading(S)
    BY DEF Reading
  <2> QED BY <1>1, <2>1, SaysIs
<1>2. CASE HasSize(wire) /\ wire[1] = 0
  <2>1. HasLastChunk(wire) \in BOOLEAN
    BY DEF HasLastChunk
  <2>2. [body |-> <<>>, complete |-> HasLastChunk(wire)] \in Reading(S)
    BY <2>1 DEF Reading
  <2> QED BY <1>2, <2>2, SaysIs
<1>3. CASE HasSize(wire) /\ wire[1] # 0 /\ ~StartsWithChunk(wire)
  <2> DEFINE e == Min({ChunkEnd(wire), Len(wire)})
             part == SubSeq(wire, LineLen(wire) + 3, e)
  <2>1. ChunkEnd(wire) \in Nat /\ Len(wire) \in Nat /\ LineLen(wire) \in Nat
    BY <1>3, ChunkInFront
  <2>2. e \in Nat /\ e <= Len(wire)
    <3>1. ASSUME NEW a \in Nat, NEW b \in Nat PROVE Min({a, b}) \in Nat /\ Min({a, b}) <= b
        BY MinIsLeast
    <3> QED BY <2>1, <3>1
  <2> HIDE DEF e
  <2>3. part \in Seq(S)
    BY <2>1, <2>2
  <2> HIDE DEF part
  <2>4. [body |-> part, complete |-> FALSE] \in Reading(S)
    BY <2>3 DEF Reading
  <2>5. Says(wire, f) = [body |-> part, complete |-> FALSE]
    BY <1>3, SaysIs DEF part, e
  <2> QED BY <2>4, <2>5
<1>4. CASE StartsWithChunk(wire)
  <2> DEFINE m == Len(wire) - ChunkEnd(wire) - 2
             data == SubSeq(wire, LineLen(wire) + 3, ChunkEnd(wire))
  <2>1. f[m] \in Reading(S)
    BY <1>4, RestIsShorter
  <2>2. data \in Seq(S)
    <3>1. ChunkEnd(wire) \in Nat /\ Len(wire) \in Nat /\ ChunkEnd(wire) <= Len(wire)
        BY <1>4, RestIsShorter
    <3>2. LineLen(wire) \in Nat
        BY <1>4, RestIsShorter, ChunkInFront
    <3> QED BY <3>1, <3>2
  <2>3. Says(wire, f) = [body |-> data \o f[m].body, complete |-> f[m].complete]
    BY <1>4, SaysIs
  <2> HIDE DEF m, data
  <2>4. f[m].body \in Seq(S) /\ f[m].complete \in BOOLEAN
    BY <2>1 DEF Reading
  <2>5. data \o f[m].body \in Seq(S)
    BY <2>2, <2>4
  <2>6. [body |-> data \o f[m].body, complete |-> f[m].complete] \in Reading(S)
    BY <2>4, <2>5 DEF Reading
  <2> QED BY <2>3, <2>6
<1> QED BY <1>1, <1>2, <1>3, <1>4

\* The ends of a wire, and the ends of those.
LEMMA EndsOfAWire ==
    ASSUME NEW S, NEW wire \in Seq(S)
    PROVE  /\ Len(wire) \in Nat /\ LastOf(wire, Len(wire)) = wire
           /\ \A n \in 0 .. Len(wire) : LastOf(wire, n) \in Seq(S) /\ Len(LastOf(wire, n)) = n
           /\ \A n \in 0 .. Len(wire) : \A k \in 0 .. n :
                LastOf(LastOf(wire, n), k) = LastOf(wire, k)
<1>1. Len(wire) \in Nat /\ LastOf(wire, Len(wire)) = wire
    BY DEF LastOf
<1>2. ASSUME NEW n \in 0 .. Len(wire) PROVE LastOf(wire, n) \in Seq(S) /\ Len(LastOf(wire, n)) = n
    BY <1>1 DEF LastOf
<1>3. ASSUME NEW n \in 0 .. Len(wire), NEW k \in 0 .. n
      PROVE  LastOf(LastOf(wire, n), k) = LastOf(wire, k)
  <2> DEFINE a == LastOf(LastOf(wire, n), k)
             b == LastOf(wire, k)
  <2>1. k \in 0 .. Len(wire)
    BY <1>1
  <2>2. a \in Seq(S) /\ Len(a) = k /\ b \in Seq(S) /\ Len(b) = k
    <3>1. LastOf(wire, n) \in Seq(S) /\ Len(LastOf(wire, n)) = n
        BY <1>2
    <3>2. a \in Seq(S) /\ Len(a) = k
        BY <3>1 DEF LastOf
    <3> QED BY <1>2, <2>1, <3>2
  <2>3. ASSUME NEW i \in 1 .. k PROVE a[i] = b[i]
    <3> DEFINE c == LastOf(wire, n)
    <3>1. c \in Seq(S) /\ Len(c) = n
        BY <1>2
    <3>2. \A j \in 1 .. n : c[j] = wire[Len(wire) - n + j]
        BY <1>1 DEF LastOf
    <3> HIDE DEF c
    <3>3. a[i] = c[n - k + i]
      <4>1. a = SubSeq(c, n - k + 1, n)
        BY <3>1 DEF LastOf, c
      <4> HIDE DEF a
      <4>2. i \in 1 .. n - (n - k + 1) + 1 /\ n - k + 1 + i - 1 = n - k + i /\ n - k + 1 \in 1 .. n + 1
        BY <1>1
      <4> QED BY <1>1, <3>1, <4>1, <4>2
    <3>4. b[i] = wire[Len(wire) - k + i]
        BY <1>1, <2>1 DEF LastOf
    <3>5. n - k + i \in 1 .. n /\ Len(wire) - n + (n - k + i) = Len(wire) - k + i
        BY <1>1
    <3> QED BY <3>2, <3>3, <3>4, <3>5
  <2> HIDE DEF a, b
  <2>4. a = b
    BY <2>2, <2>3
  <2> QED BY <2>4 DEF a, b
<1> QED BY <1>1, <1>2, <1>3

\* f says what there is in each of the last ends of a wire, up to n symbols.
Dechunks(wire, f, n) == \A k \in 0 .. n : f[k] = Says(LastOf(wire, k), f)

\* A reading of every end of a wire exists,
LEMMA DechunkingExists ==
    ASSUME NEW S, NEW wire \in Seq(S)
    PROVE  \E f \in [0 .. Len(wire) -> Reading(S)] : Dechunks(wire, f, Len(wire))
<1> DEFINE Broken == [body |-> <<>>, complete |-> FALSE]
           T == {n \in Nat : n <= Len(wire) =>
                    \E f \in [0 .. n -> Reading(S)] : Dechunks(wire, f, n)}
<1>1. 0 \in T
  <2> DEFINE f == [k \in 0 .. 0 |-> Broken]
  <2>1. Broken \in Reading(S)
    BY DEF Reading
  <2>2. f \in [0 .. 0 -> Reading(S)] /\ f[0] = Broken
    BY <2>1
  <2>3. Says(LastOf(wire, 0), f) = Broken
    <3>1. LastOf(wire, 0) \in Seq(S) /\ Len(LastOf(wire, 0)) = 0
        BY EndsOfAWire
    <3>2. ~HasSize(LastOf(wire, 0))
        BY <3>1 DEF HasSize, HasLine, LineEnds
    <3> HIDE DEF f
    <3> QED BY <3>1, <3>2, SaysIs
  <2> HIDE DEF f
  <2>4. Dechunks(wire, f, 0)
    <3>1. \A k \in 0 .. 0 : k = 0
        OBVIOUS
    <3> QED BY <2>2, <2>3, <3>1 DEF Dechunks
  <2> QED BY <2>2, <2>4
<1>2. ASSUME NEW n \in Nat, n \in T PROVE n + 1 \in T
  <2> SUFFICES ASSUME n + 1 <= Len(wire)
               PROVE  \E f \in [0 .. n + 1 -> Reading(S)] : Dechunks(wire, f, n + 1)
    OBVIOUS
  <2>1. PICK f \in [0 .. n -> Reading(S)] : Dechunks(wire, f, n)
    BY <1>2
  <2> DEFINE last == Says(LastOf(wire, n + 1), f)
             g == [k \in 0 .. n + 1 |-> IF k <= n THEN f[k] ELSE last]
  <2>2. /\ LastOf(wire, n + 1) \in Seq(S) /\ Len(LastOf(wire, n + 1)) = n + 1
        /\ \A k \in 0 .. n : LastOf(wire, k) \in Seq(S) /\ Len(LastOf(wire, k)) = k
    BY EndsOfAWire
  <2>3. last \in Reading(S)
    <3>1. \A k \in Nat : k < n + 1 => f[k] \in Reading(S)
        OBVIOUS
    <3> QED BY <2>2, <3>1, SaysType
  <2> HIDE DEF last
  <2>4. g \in [0 .. n + 1 -> Reading(S)] /\ g[n + 1] = last /\ \A k \in 0 .. n : g[k] = f[k]
    BY <2>3
  <2> HIDE DEF g
  <2>5. ASSUME NEW k \in 0 .. n + 1 PROVE g[k] = Says(LastOf(wire, k), g)
    <3>1. \A i \in Nat : i < k => f[i] = g[i]
        BY <2>4
    <3>2. LastOf(wire, k) \in Seq(S) /\ Len(LastOf(wire, k)) = k
        BY <2>2
    <3>3. Says(LastOf(wire, k), f) = Says(LastOf(wire, k), g)
        BY <3>1, <3>2, SaysDepends
    <3>4. CASE k = n + 1
        BY <2>4, <3>3, <3>4 DEF last
    <3>5. CASE k # n + 1
      <4>1. k \in 0 .. n
        BY <3>5
      <4>2. f[k] = Says(LastOf(wire, k), f)
        BY <2>1, <4>1 DEF Dechunks
      <4> QED BY <2>4, <3>3, <4>1, <4>2
    <3> QED BY <3>4, <3>5
  <2>6. Dechunks(wire, g, n + 1)
    BY <2>5 DEF Dechunks
  <2> QED BY <2>4, <2>6
<1>3. Nat \subseteq T
  <2> HIDE DEF T
  <2> QED BY <1>1, <1>2, NatSetInduction
<1>4. Len(wire) \in T /\ Len(wire) <= Len(wire)
  <2>1. Len(wire) \in Nat /\ Len(wire) <= Len(wire)
    OBVIOUS
  <2> HIDE DEF T
  <2> QED BY <1>3, <2>1
<1> QED BY <1>4

\* there is only one,
LEMMA DechunkingIsUnique ==
    ASSUME NEW S, NEW wire \in Seq(S), NEW m \in 0 .. Len(wire), NEW f, NEW g,
           Dechunks(wire, f, m), Dechunks(wire, g, m)
    PROVE  f[m] = g[m]
<1> DEFINE T == {n \in Nat : n <= m => \A k \in 0 .. n : f[k] = g[k]}
<1>0. /\ m \in Nat
      /\ \A k \in 0 .. m : LastOf(wire, k) \in Seq(S) /\ Len(LastOf(wire, k)) = k
    BY EndsOfAWire
<1>1. ASSUME NEW k \in 0 .. m, \A i \in Nat : i < k => f[i] = g[i] PROVE f[k] = g[k]
  <2>1. Says(LastOf(wire, k), f) = Says(LastOf(wire, k), g)
    BY <1>0, <1>1, SaysDepends
  <2>2. f[k] = Says(LastOf(wire, k), f) /\ g[k] = Says(LastOf(wire, k), g)
    BY Zenon DEF Dechunks
  <2> QED BY <2>1, <2>2
<1>2. 0 \in T
  <2>1. 0 \in 0 .. m /\ \A i \in Nat : i < 0 => f[i] = g[i]
    BY <1>0
  <2>2. f[0] = g[0]
    BY <1>1, <2>1
  <2> QED BY <2>2
<1>3. ASSUME NEW n \in Nat, n \in T PROVE n + 1 \in T
  <2> SUFFICES ASSUME n + 1 <= m PROVE \A k \in 0 .. n + 1 : f[k] = g[k]
    OBVIOUS
  <2>1. \A k \in 0 .. n : f[k] = g[k]
    BY <1>0, <1>3
  <2>2. n + 1 \in 0 .. m /\ \A i \in Nat : i < n + 1 => f[i] = g[i]
    BY <1>0, <2>1
  <2>3. f[n + 1] = g[n + 1]
    BY <1>1, <2>2
  <2> QED BY <2>1, <2>3
<1>4. Nat \subseteq T
  <2> HIDE DEF T
  <2> QED BY <1>2, <1>3, NatSetInduction
<1>5. m \in T
  <2> HIDE DEF T
  <2> QED BY <1>0, <1>4
<1> QED BY <1>0, <1>5

\* and Dechunked is what it gives for the whole wire.
LEMMA DechunkedIsLast ==
    ASSUME NEW S, NEW wire \in Seq(S), NEW f, Dechunks(wire, f, Len(wire))
    PROVE  Dechunked(wire) = f[Len(wire)] /\ Dechunked(wire) \in Reading(S)
<1>1. PICK g \in [0 .. Len(wire) -> Reading(S)] : Dechunks(wire, g, Len(wire))
    BY DechunkingExists
<1>2. g = [n \in 0 .. Len(wire) |-> Says(LastOf(wire, n), g)]
  <2>1. \A n \in 0 .. Len(wire) : g[n] = Says(LastOf(wire, n), g)
    BY <1>1, Zenon DEF Dechunks
  <2> QED BY <2>1
<1> DEFINE said == CHOOSE said : said = [n \in 0 .. Len(wire) |-> Says(LastOf(wire, n), said)]
<1>3. said = [n \in 0 .. Len(wire) |-> Says(LastOf(wire, n), said)]
    BY <1>2
<1>4. Dechunked(wire) = said[Len(wire)]
    BY DEF Dechunked
<1> HIDE DEF said
<1>5. Dechunks(wire, said, Len(wire))
  <2>1. ASSUME NEW k \in 0 .. Len(wire) PROVE said[k] = Says(LastOf(wire, k), said)
    BY <1>3
  <2> QED BY <2>1 DEF Dechunks
<1>6. Len(wire) \in 0 .. Len(wire)
    BY EndsOfAWire
<1>7. said[Len(wire)] = f[Len(wire)] /\ said[Len(wire)] = g[Len(wire)]
    BY <1>1, <1>5, <1>6, DechunkingIsUnique
<1>8. g[Len(wire)] \in Reading(S)
    BY <1>1, <1>6
<1> QED BY <1>4, <1>7, <1>8

\* What a reader makes of a wire: the same of what is behind its first chunk.
LEMMA DechunkedIs ==
    ASSUME NEW S, NEW wire \in Seq(S)
    PROVE  /\ Dechunked(wire) \in Reading(S)
           /\ ~HasSize(wire) => Dechunked(wire) = [body |-> <<>>, complete |-> FALSE]
           /\ HasSize(wire) /\ wire[1] = 0 =>
                Dechunked(wire) = [body |-> <<>>, complete |-> HasLastChunk(wire)]
           /\ StartsWithChunk(wire) =>
                LET rest == Dechunked(SubSeq(wire, ChunkEnd(wire) + 3, Len(wire)))
                IN  Dechunked(wire) =
                    [body |-> SubSeq(wire, LineLen(wire) + 3, ChunkEnd(wire)) \o rest.body,
                     complete |-> rest.complete]
<1>1. PICK f \in [0 .. Len(wire) -> Reading(S)] : Dechunks(wire, f, Len(wire))
    BY DechunkingExists
<1>2. Dechunked(wire) = f[Len(wire)] /\ Dechunked(wire) \in Reading(S)
    BY <1>1, DechunkedIsLast
<1>3. f[Len(wire)] = Says(wire, f)
  <2>1. Len(wire) \in 0 .. Len(wire) /\ LastOf(wire, Len(wire)) = wire
    BY EndsOfAWire
  <2> QED BY <1>1, <2>1, Zenon DEF Dechunks
<1>4. ASSUME StartsWithChunk(wire)
      PROVE  LET rest == Dechunked(SubSeq(wire, ChunkEnd(wire) + 3, Len(wire)))
             IN  Dechunked(wire) =
                    [body |-> SubSeq(wire, LineLen(wire) + 3, ChunkEnd(wire)) \o rest.body,
                     complete |-> rest.complete]
  <2> DEFINE m == Len(wire) - ChunkEnd(wire) - 2
             behind == SubSeq(wire, ChunkEnd(wire) + 3, Len(wire))
  <2>1. m \in 0 .. Len(wire) /\ Len(wire) \in Nat /\ Len(wire) - m + 1 = ChunkEnd(wire) + 3
    BY <1>4, RestIsShorter
  <2>2. behind = LastOf(wire, m)
    BY <2>1 DEF LastOf
  <2>3. Says(wire, f) = [body |-> SubSeq(wire, LineLen(wire) + 3, ChunkEnd(wire)) \o f[m].body,
                         complete |-> f[m].complete]
    BY <1>4, SaysIs
  <2> HIDE DEF m, behind
  <2>4. behind \in Seq(S) /\ Len(behind) = m
    BY <2>1, <2>2, EndsOfAWire
  <2>5. Dechunks(behind, f, m)
    <3>1. ASSUME NEW k \in 0 .. m PROVE f[k] = Says(LastOf(behind, k), f)
      <4>1. k \in 0 .. Len(wire)
        BY <2>1
      <4>2. f[k] = Says(LastOf(wire, k), f)
        BY <1>1, <4>1, Zenon DEF Dechunks
      <4>3. LastOf(behind, k) = LastOf(wire, k)
        BY <2>1, <2>2, EndsOfAWire
      <4> QED BY <4>2, <4>3
    <3> QED BY <3>1 DEF Dechunks
  <2>6. Dechunked(behind) = f[m]
    BY <2>4, <2>5, DechunkedIsLast
  <2> QED BY <1>2, <1>3, <2>3, <2>6 DEF behind
<1> QED BY <1>2, <1>3, <1>4, SaysIs

\* A part of what is in front is a part of the whole.
LEMMA PartInFront ==
    ASSUME NEW S, NEW r \in Seq(S), NEW w \in Seq(S), NEW m \in Nat, NEW n \in Nat,
           1 <= m, n <= Len(r)
    PROVE  SubSeq(r \o w, m, n) = SubSeq(r, m, n)
<1> DEFINE t == r \o w
<1>1. /\ Len(r) \in Nat /\ Len(t) >= Len(r) /\ Len(t) \in Nat /\ t \in Seq(S)
      /\ \A i \in 1 .. Len(r) : t[i] = r[i]
    OBVIOUS
<1> HIDE DEF t
<1>2. SubSeq(t, m, n) = SubSeq(r, m, n)
    BY <1>1
<1> QED BY <1>2 DEF t

\* What comes behind it does not change the line in front.
LEMMA LineStays ==
    ASSUME NEW S, NEW r \in Seq(S), NEW w \in Seq(S), NEW t, t = r \o w, HasLine(r)
    PROVE  /\ HasLine(t) /\ LineLen(t) = LineLen(r) /\ t[1] = r[1]
           /\ LineEnds(r) \subseteq LineEnds(t)
<1> DEFINE e == LineLen(r) + 1
<1>1. /\ t \in Seq(S) /\ Len(t) = Len(r) + Len(w) /\ Len(r) \in Nat /\ Len(w) \in Nat
      /\ \A i \in 1 .. Len(r) : t[i] = r[i]
    OBVIOUS
<1>2. \A i \in 1 .. Len(r) - 1 : i \in LineEnds(t) <=> i \in LineEnds(r)
    BY <1>1 DEF LineEnds
<1>3. LineEnds(r) \subseteq LineEnds(t)
  <2>1. LineEnds(r) \subseteq 1 .. Len(r) - 1
    BY DEF LineEnds
  <2> QED BY <1>2, <2>1
<1>4. /\ e \in LineEnds(r) /\ e \in 1 .. Len(r) - 1 /\ LineLen(r) \in Nat
      /\ \A i \in LineEnds(r) : e <= i
  <2>1. /\ LineLen(r) \in Nat /\ e \in LineEnds(r) /\ LineLen(r) + 2 <= Len(r)
        /\ \A i \in LineEnds(r) : e <= i
    BY LineInFront
  <2> QED BY <1>1, <2>1
<1> HIDE DEF e
<1>5. HasLine(t)
    BY <1>3, <1>4 DEF HasLine
<1>6. LineLen(t) = LineLen(r)
  <2>1. /\ LineLen(t) \in Nat /\ LineLen(t) + 1 \in LineEnds(t)
        /\ \A i \in LineEnds(t) : LineLen(t) + 1 <= i
    BY <1>1, <1>5, LineInFront
  <2>2. LineLen(t) + 1 <= e
    BY <1>3, <1>4, <2>1
  <2>3. LineLen(t) + 1 \in LineEnds(r)
    <3>1. LineLen(t) + 1 \in 1 .. Len(r) - 1
        BY <1>1, <1>4, <2>1, <2>2
    <3> QED BY <1>2, <2>1, <3>1
  <2>4. e <= LineLen(t) + 1
    BY <1>4, <2>3
  <2> QED BY <1>4, <2>1, <2>2, <2>4 DEF e
<1>7. t[1] = r[1]
    BY <1>1, <1>4
<1> QED BY <1>3, <1>5, <1>6, <1>7

\* A whole chunk in front stays one, whatever comes behind.
LEMMA ChunkStays ==
    ASSUME NEW S, NEW r \in Seq(S), NEW w \in Seq(S), NEW t, t = r \o w, StartsWithChunk(r)
    PROVE  /\ StartsWithChunk(t) /\ LineLen(t) = LineLen(r) /\ ChunkEnd(t) = ChunkEnd(r)
           /\ ChunkEnd(r) + 2 <= Len(r) /\ ChunkEnd(r) \in Nat /\ LineLen(r) \in Nat
<1>1. /\ t \in Seq(S) /\ Len(t) = Len(r) + Len(w) /\ Len(r) \in Nat /\ Len(w) \in Nat
      /\ \A i \in 1 .. Len(r) : t[i] = r[i]
    OBVIOUS
<1>2. HasSize(r) /\ r[1] > 0 /\ Len(r) >= ChunkEnd(r) + 2 /\ ChunkIsClosed(r)
    BY DEF StartsWithChunk, HasChunk
<1>3. HasLine(r) /\ r[1] \in Nat
    BY <1>2 DEF HasSize
<1>4. HasLine(t) /\ LineLen(t) = LineLen(r) /\ t[1] = r[1]
    BY <1>3, LineStays
<1>5. ChunkEnd(r) \in Nat /\ LineLen(r) \in Nat
    BY <1>2, ChunkInFront
<1>6. ChunkEnd(t) = ChunkEnd(r) /\ HasSize(t)
    BY <1>3, <1>4 DEF ChunkEnd, HasSize
<1>7. HasChunk(t)
    BY <1>1, <1>2, <1>4, <1>5, <1>6 DEF HasChunk
<1>8. ChunkIsClosed(t)
  <2>1. ChunkEnd(r) + 1 \in 1 .. Len(r) /\ ChunkEnd(r) + 2 \in 1 .. Len(r)
    BY <1>1, <1>2, <1>5
  <2>2. t[ChunkEnd(r) + 1] = Cr /\ t[ChunkEnd(r) + 2] = Lf
    BY <1>1, <1>2, <2>1 DEF ChunkIsClosed
  <2> QED BY <1>6, <2>2 DEF ChunkIsClosed
<1> QED BY <1>2, <1>4, <1>5, <1>6, <1>7, <1>8 DEF StartsWithChunk

\* A chunk in front is data in front of what the rest says.
LEMMA ChunkIsRead ==
    ASSUME NEW S, NEW r \in Seq(S), NEW w \in Seq(S), NEW t, t = r \o w, StartsWithChunk(r)
    PROVE  LET rest == Dechunked(SubSeq(r, ChunkEnd(r) + 3, Len(r)) \o w)
           IN  Dechunked(t) =
                [body |-> SubSeq(r, LineLen(r) + 3, ChunkEnd(r)) \o rest.body,
                 complete |-> rest.complete]
<1> DEFINE c == ChunkEnd(r) + 2
<1>1. /\ StartsWithChunk(t) /\ LineLen(t) = LineLen(r) /\ ChunkEnd(t) = ChunkEnd(r)
      /\ ChunkEnd(r) + 2 <= Len(r) /\ ChunkEnd(r) \in Nat /\ LineLen(r) \in Nat
    BY ChunkStays
<1>2. t \in Seq(S) /\ c \in 0 .. Len(r) /\ c + 1 = ChunkEnd(r) + 3
    BY <1>1
<1>3. SubSeq(t, c + 1, Len(t)) = SubSeq(r, c + 1, Len(r)) \o w
    BY <1>2, CutOfConcat
<1>4. SubSeq(t, LineLen(r) + 3, ChunkEnd(r)) = SubSeq(r, LineLen(r) + 3, ChunkEnd(r))
  <2> HIDE DEF c
  <2> DEFINE m == LineLen(r) + 3
             n == ChunkEnd(r)
  <2>1. m \in Nat /\ n \in Nat /\ 1 <= m /\ n <= Len(r)
    BY <1>1
  <2> HIDE DEF m, n
  <2>2. SubSeq(r \o w, m, n) = SubSeq(r, m, n)
    BY <2>1, PartInFront, Zenon
  <2> QED BY <2>2 DEF m, n
<1> DEFINE rest == Dechunked(SubSeq(t, ChunkEnd(t) + 3, Len(t)))
<1>5. Dechunked(t) = [body |-> SubSeq(t, LineLen(t) + 3, ChunkEnd(t)) \o rest.body,
                      complete |-> rest.complete]
    BY <1>1, <1>2, DechunkedIs
<1>6. rest = Dechunked(SubSeq(r, ChunkEnd(r) + 3, Len(r)) \o w)
    BY <1>1, <1>2, <1>3
<1> QED BY <1>1, <1>4, <1>5, <1>6

\* The last chunk ends the body, whatever comes behind it.
LEMMA LastChunkIsRead ==
    ASSUME NEW S, NEW r \in Seq(S), NEW w \in Seq(S), NEW t, t = r \o w, HasLastChunk(r)
    PROVE  Dechunked(t) = [body |-> <<>>, complete |-> TRUE]
<1>1. HasLine(r) /\ HasSize(r) /\ r[1] = 0 /\ \E i \in LineEnds(r) : i - 2 \in LineEnds(r)
    BY DEF HasLastChunk, HasSize
<1>2. HasLine(t) /\ LineEnds(r) \subseteq LineEnds(t) /\ t[1] = r[1]
    BY <1>1, LineStays
<1>3. HasSize(t) /\ t[1] = 0 /\ t \in Seq(S)
    BY <1>1, <1>2 DEF HasSize
<1>4. HasLastChunk(t)
    BY <1>1, <1>2, <1>3 DEF HasLastChunk
<1>5. Dechunked(t) = [body |-> <<>>, complete |-> HasLastChunk(t)]
    BY <1>3, DechunkedIs
<1>6. HasLastChunk(t) = TRUE
    BY <1>4 DEF HasLastChunk
<1> QED BY <1>5, <1>6

LEMMA NothingIsRead == Dechunked(<<>>) = [body |-> <<>>, complete |-> FALSE]
<1>1. <<>> \in Seq(Byte) /\ ~HasSize(<<>>)
    BY DEF HasSize, HasLine, LineEnds
<1> QED BY <1>1, DechunkedIs

LEMMA ChunkSymbols ==
    ASSUME NEW b \in Seq(WireSymbol), NEW n, n = Len(b), n \in WireSymbol,
           NEW r, r = <<n, Cr, Lf>> \o b \o <<Cr, Lf>>
    PROVE  /\ r \in Seq(WireSymbol) /\ Len(r) = n + 5
           /\ r[1] = n /\ r[2] = Cr /\ r[3] = Lf /\ r[n + 4] = Cr /\ r[n + 5] = Lf
           /\ SubSeq(r, 4, n + 3) = b
<1>1. Cr \in WireSymbol /\ Lf \in WireSymbol
    BY DEF WireSymbol
<1>2. /\ r \in Seq(WireSymbol) /\ Len(r) = n + 5
      /\ r[1] = n /\ r[2] = Cr /\ r[3] = Lf /\ r[n + 4] = Cr /\ r[n + 5] = Lf
    BY <1>1
<1>3. SubSeq(r, 4, n + 3) = b
    BY <1>1
<1> QED BY <1>2, <1>3

\* What the proxy writes is a chunk, unless it is nothing.
LEMMA WrittenChunkIsRead ==
    ASSUME NEW b \in Seq(Symbol), NEW w \in Seq(WireSymbol)
    PROVE  /\ HttpChunk(b) \in Seq(WireSymbol)
           /\ LET rest == Dechunked(w)
              IN  Dechunked(HttpChunk(b) \o w) = [body |-> b \o rest.body, complete |-> rest.complete]
<1> DEFINE rest == Dechunked(w)
<1>1. rest.body \in Seq(WireSymbol) /\ rest.complete \in BOOLEAN
      /\ rest = [body |-> rest.body, complete |-> rest.complete]
  <2>1. rest \in Reading(WireSymbol)
    BY DechunkedIs
  <2> HIDE DEF rest
  <2> QED BY <2>1 DEF Reading
<1> HIDE DEF rest
<1>2. CASE b = <<>>
  <2>1. HttpChunk(b) = <<>>
    BY <1>2 DEF HttpChunk
  <2>2. HttpChunk(b) \o w = w /\ b \o rest.body = rest.body
    BY <1>1, <1>2, <2>1
  <2> QED BY <1>1, <2>1, <2>2 DEF rest
<1>3. CASE b # <<>>
  <2> DEFINE r == HttpChunk(b)
             n == Len(b)
  <2>1. r = <<n, Cr, Lf>> \o b \o <<Cr, Lf>>
    BY <1>3 DEF HttpChunk
  <2>2. n \in Nat /\ n > 0
    BY <1>3
  <2>3. b \in Seq(WireSymbol) /\ {n, Cr, Lf} \subseteq WireSymbol
    BY <2>2, SeqMonotonic DEF WireSymbol
  <2> HIDE DEF r
  <2>4. /\ r \in Seq(WireSymbol) /\ Len(r) = n + 5
        /\ r[1] = n /\ r[2] = Cr /\ r[3] = Lf /\ r[n + 4] = Cr /\ r[n + 5] = Lf
        /\ SubSeq(r, 4, n + 3) = b
    BY <2>1, <2>3, ChunkSymbols
  <2>5. HasLine(r) /\ LineLen(r) = 1
    <3>1. 2 \in LineEnds(r)
        BY <2>2, <2>4 DEF LineEnds
    <3>2. HasLine(r)
        BY <3>1 DEF HasLine
    <3>3. 1 \notin LineEnds(r)
        BY <2>2, <2>4, HttpAssumption DEF LineEnds
    <3>4. LineLen(r) \in Nat /\ LineLen(r) + 1 \in LineEnds(r) /\ LineLen(r) + 1 <= 2
        BY <2>4, <3>1, <3>2, LineInFront
    <3>5. LineLen(r) + 1 # 1
        BY <3>3, <3>4
    <3> QED BY <3>2, <3>4, <3>5
  <2>6. ChunkEnd(r) = n + 3 /\ HasSize(r)
    BY <2>2, <2>4, <2>5 DEF ChunkEnd, HasSize
  <2>7. StartsWithChunk(r)
    BY <2>2, <2>4, <2>6 DEF StartsWithChunk, HasChunk, ChunkIsClosed
  <2>8. SubSeq(r, ChunkEnd(r) + 3, Len(r)) \o w = w
    <3>1. SubSeq(r, ChunkEnd(r) + 3, Len(r)) = <<>>
        BY <2>2, <2>4, <2>6
    <3> DEFINE behind == SubSeq(r, ChunkEnd(r) + 3, Len(r))
    <3>2. behind \o w = w
      <4> HIDE DEF behind
      <4>1. behind = <<>>
        BY <3>1 DEF behind
      <4> QED BY <4>1
    <3> QED BY <3>2
  <2>9. SubSeq(r, LineLen(r) + 3, ChunkEnd(r)) = b
    BY <2>4, <2>5, <2>6
  <2> DEFINE t == r \o w
             behind == Dechunked(SubSeq(r, ChunkEnd(r) + 3, Len(r)) \o w)
  <2>10. Dechunked(t) = [body |-> SubSeq(r, LineLen(r) + 3, ChunkEnd(r)) \o behind.body,
                         complete |-> behind.complete]
    BY <2>4, <2>7, ChunkIsRead
  <2>11. behind = rest
    BY <2>8 DEF rest
  <2> QED BY <2>4, <2>9, <2>10, <2>11 DEF rest, r
<1> QED BY <1>2, <1>3 DEF rest

\* The last chunk has no data and ends the body.
LEMMA LastChunkEnds ==
    LastChunk \in Seq(WireSymbol) /\ Dechunked(LastChunk) = [body |-> <<>>, complete |-> TRUE]
<1> DEFINE r == LastChunk
<1>1. /\ r \in Seq(WireSymbol) /\ Len(r) = 5
      /\ r[1] = 0 /\ r[2] = Cr /\ r[3] = Lf /\ r[4] = Cr /\ r[5] = Lf
  <2>1. {0, Cr, Lf} \subseteq WireSymbol
    BY DEF WireSymbol
  <2> QED BY <2>1 DEF LastChunk
<1> HIDE DEF r
<1>2. 2 \in LineEnds(r) /\ 4 \in LineEnds(r)
    BY <1>1 DEF LineEnds
<1>3. HasSize(r)
    BY <1>1, <1>2 DEF HasSize, HasLine
<1>4. \E i \in LineEnds(r) : i - 2 \in LineEnds(r)
  <2>1. 4 - 2 = 2
    OBVIOUS
  <2> QED BY <1>2, <2>1
<1>5. HasLastChunk(r)
    BY <1>1, <1>3, <1>4 DEF HasLastChunk
<1>6. <<>> \in Seq(WireSymbol) /\ r = r \o <<>>
    BY <1>1
<1>7. Dechunked(r) = [body |-> <<>>, complete |-> TRUE]
    BY <1>1, <1>5, <1>6, LastChunkIsRead
<1> QED BY <1>1, <1>7 DEF r

-----------------------------------------------------------------------------
\* Heads and what they frame

LEMMA RewrittenHead ==
    ASSUME NEW head \in HttpHead, NEW n \in Nat, NEW strip \in BOOLEAN
    PROVE  /\ ~RewriteHeadForBody(head, n, strip).chunked
           /\ RewriteHeadForBody(head, n, strip).length = n
           /\ strip => ~RewriteHeadForBody(head, n, strip).accepts
BY DEF RewriteHeadForBody, HttpHead

LEMMA StrippedHead ==
    ASSUME NEW head \in HttpHead
    PROVE  /\ ~StripAcceptEncoding(head).accepts
           /\ StripAcceptEncoding(head).chunked = head.chunked
           /\ StripAcceptEncoding(head).length = head.length
BY DEF StripAcceptEncoding, HttpHead

LEMMA ChunkedHead == ASSUME NEW head \in HttpHead PROVE RewriteHeadForChunked(head).chunked
BY DEF RewriteHeadForChunked, HttpHead

LEMMA ReadingFields ==
    ASSUME NEW r, NEW x, NEW y, r = [body |-> x, complete |-> y]
    PROVE  r.body = x /\ r.complete = y
OBVIOUS

\* A message whose stated length is its length is read whole.
LEMMA ReadStated ==
    ASSUME NEW S, NEW wire \in Seq(S), NEW head, ~head.chunked, head.length = Len(wire)
    PROVE  Read(head, wire, FALSE) = [body |-> wire, complete |-> TRUE]
<1>1. Len(wire) \in Nat /\ head.length # NoLength
    BY HttpAssumption
<1>2. Min({head.length, Len(wire)}) = Len(wire)
  <2>1. ASSUME NEW n \in Nat PROVE Min({n, n}) = n
    <3>1. Min({n, n}) \in {n, n}
        BY MinIsLeast
    <3> QED BY <3>1
  <2> QED BY <1>1, <2>1
<1>3. SubSeq(wire, 1, Len(wire)) = wire
    OBVIOUS
<1>4. (Len(wire) >= head.length) = TRUE
    BY <1>1
<1> QED BY <1>1, <1>2, <1>3, <1>4, Zenon DEF Read

LEMMA ReadUnstated ==
    ASSUME NEW wire, NEW head, ~head.chunked, head.length = NoLength
    PROVE  Read(head, wire, FALSE) = [body |-> wire, complete |-> TRUE]
BY DEF Read

-----------------------------------------------------------------------------
\* The invariant

Arrived == SubSeq(response.wire, 1, arriving)
StillToCome == unused \o SubSeq(response.wire, received + 1, arriving)

\* A wire of chunks whose data is this text, whatever comes behind it.
Carries(wire, text) ==
    \A w \in Seq(WireSymbol) :
        Dechunked(wire \o w) = [body |-> text \o Dechunked(w).body,
                                complete |-> Dechunked(w).complete]

\* The answers whose chunks are taken apart and put together again.
RestoredInChunks ==
    response.head.chunked /\ Redactable(response.head) /\ ~response.head.encoded

HttpTypeOK ==
    /\ request \in Requests /\ response \in Responses
    /\ arriving \in 0 .. Len(response.wire) /\ received \in Nat
    /\ unused \in Seq(Byte) /\ carry \in Seq(Byte)
    /\ pc \in {"idle", "read", "head", "whole", "chunks", "copy", "done", "failed"}

\* How far the exchange is.
HttpStages ==
    /\ pc \in {"idle", "read"} => toUpstream = Nothing
    /\ pc \in {"idle", "read", "head", "whole"} => toClient = Nothing /\ carry = <<>>
    /\ pc = "read" /\ ~request.head.chunked => received = Len(request.wire)
    /\ pc \in {"whole", "copy", "chunks"} => ~Bodiless /\ received <= arriving
    /\ pc = "whole" => ~response.head.chunked /\ unused = SubSeq(response.wire, 1, received)
    /\ pc = "copy" =>
        /\ response.head.chunked /\ ~RestoredInChunks
        /\ toClient = [head |-> response.head, wire |-> SubSeq(response.wire, 1, received)]

\* What the client has been given, and what is held back and comes restored, is what has
\* been sent restored.
ChunksAreRestored ==
    pc = "chunks" =>
        /\ RestoredInChunks
        /\ toClient.head = RewriteHeadForChunked(response.head)
        /\ toClient = [head |-> toClient.head, wire |-> toClient.wire]
        /\ toClient.wire \in Seq(WireSymbol)
        /\ Dechunked(StillToCome).complete = Dechunked(Arrived).complete
        /\ \E given \in Seq(Symbol) :
            /\ Carries(toClient.wire, given)
            /\ given \o Restore(carry \o Dechunked(StillToCome).body) = Restore(Dechunked(Arrived).body)

HttpInv ==
    HttpTypeOK /\ HttpStages /\ ChunksAreRestored /\ RequestArrivesSanitized /\ ResponseArrivesRestored

\* What HttpAssumption says of a request, and of a response.
LEMMA RequestFacts ==
    ASSUME NEW m \in Requests
    PROVE  /\ m.head \in HttpHead /\ m.wire \in Seq(Byte) /\ SanitizedBody(m.wire) \in Seq(Byte)
           /\ ~m.head.chunked /\ m.head.length = NoLength => m.wire = <<>>
           /\ ~m.head.chunked /\ m.head.length # NoLength => m.head.length = Len(m.wire)
<1>1. m.head \in HttpHead /\ m.wire \in Seq(Byte) /\ SanitizedBody(m.wire) \in Seq(Byte)
    BY HttpAssumption
<1>2. ~m.head.chunked =>
            Len(m.wire) = IF m.head.length = NoLength THEN 0 ELSE m.head.length
    BY HttpAssumption
<1>3. ~m.head.chunked /\ m.head.length = NoLength => Len(m.wire) = 0
    BY <1>2
<1> QED BY <1>1, <1>2, <1>3

LEMMA ResponseFacts ==
    ASSUME NEW m \in Responses
    PROVE  /\ m.head \in HttpHead /\ m.wire \in Seq(Byte)
           /\ ~m.head.chunked /\ m.head.length # NoLength =>
                m.head.length \in Nat /\ Len(m.wire) <= m.head.length
<1>1. m.head \in HttpHead /\ m.wire \in Seq(Byte)
    BY HttpAssumption
<1>2. ~m.head.chunked /\ m.head.length # NoLength => Len(m.wire) <= m.head.length
    BY HttpAssumption
<1>3. m.head.length \in Nat \cup {NoLength}
    BY <1>1 DEF HttpHead
<1> QED BY <1>1, <1>2, <1>3

LEMMA HttpInitEstablishes == HttpInit => HttpInv
<1> SUFFICES ASSUME HttpInit PROVE HttpInv
    OBVIOUS
<1> USE DEF HttpInit
<1>1. HttpTypeOK
    BY DEF HttpTypeOK
<1>2. HttpStages /\ ChunksAreRestored
    BY DEF HttpStages, ChunksAreRestored
<1>3. RequestArrivesSanitized /\ ResponseArrivesRestored
    BY DEF RequestArrivesSanitized, ResponseArrivesRestored
<1> QED BY <1>1, <1>2, <1>3 DEF HttpInv

\* The request, step by step.
LEMMA ReadRequestPreserves == HttpInv /\ ReadRequest => HttpInv'
<1> SUFFICES ASSUME HttpInv, ReadRequest PROVE HttpInv'
    OBVIOUS
<1> USE DEF HttpInv
<1>1. /\ pc = "idle" /\ pc' = "read"
      /\ UNCHANGED <<request, response, arriving, unused, carry, toUpstream, toClient>>
    BY DEF ReadRequest
<1>2. PICK early \in 0 .. Len(request.wire) :
        received' = IF request.head.length = NoLength THEN early ELSE Max({early, request.head.length})
    BY DEF ReadRequest
<1>3. /\ request \in Requests /\ request.head \in HttpHead /\ request.wire \in Seq(Byte)
      /\ ~request.head.chunked /\ request.head.length = NoLength => request.wire = <<>>
      /\ ~request.head.chunked /\ request.head.length # NoLength =>
            request.head.length = Len(request.wire)
    BY RequestFacts DEF HttpTypeOK
<1>4. received' \in Nat /\ (~request.head.chunked => received' = Len(request.wire))
  <2>1. early \in Nat /\ early <= Len(request.wire) /\ Len(request.wire) \in Nat
    BY <1>3
  <2>2. CASE request.head.length = NoLength
    <3>1. received' = early
        BY <1>2, <2>2
    <3>2. ~request.head.chunked => Len(request.wire) = 0
        BY <1>3, <2>2
    <3> QED BY <2>1, <3>1, <3>2
  <2>3. CASE request.head.length # NoLength
    <3>1. request.head.length \in Nat /\ received' = Max({early, request.head.length})
        BY <1>2, <1>3, <2>3 DEF HttpHead
    <3>2. early <= request.head.length \/ request.head.length <= early
        BY <2>1, <3>1
    <3>3. Max({early, request.head.length}) \in Nat
        BY <2>1, <3>1, <3>2, TwoNumbers
    <3>4. ~request.head.chunked => Max({early, request.head.length}) = Len(request.wire)
        BY <1>3, <2>1, <2>3, <3>1, TwoNumbers
    <3> QED BY <3>1, <3>3, <3>4
  <2> QED BY <2>2, <2>3
<1>5. HttpTypeOK'
    BY <1>1, <1>4 DEF HttpTypeOK
<1>6. HttpStages'
    BY <1>1, <1>4 DEF HttpStages
<1>7. ChunksAreRestored'
    BY <1>1 DEF ChunksAreRestored
<1>8. RequestArrivesSanitized' /\ ResponseArrivesRestored'
    BY <1>1 DEF RequestArrivesSanitized, ResponseArrivesRestored, HttpStages
<1> QED BY <1>5, <1>6, <1>7, <1>8

\* What is written upstream: the head asks for no encoding, and what it frames is the body.
LEMMA ForwardPreserves ==
    ASSUME HttpInv, pc = "read", NEW head, NEW wire, Forward(head, wire),
           ~head.accepts,
           ~request.head.chunked =>
                Read(head, wire, FALSE) =
                    [body |-> IF HasBodyToRewrite(request.head)
                              THEN SanitizedBody(request.wire) ELSE request.wire,
                     complete |-> TRUE]
    PROVE  HttpInv'
<1> USE DEF HttpInv
<1>1. /\ pc' = "head" /\ received' = 0 /\ toUpstream' = [head |-> head, wire |-> wire]
      /\ UNCHANGED <<request, response, arriving, unused, carry, toClient>>
    BY DEF Forward
<1>2. HttpTypeOK' /\ HttpStages' /\ ChunksAreRestored'
    BY <1>1 DEF HttpTypeOK, HttpStages, ChunksAreRestored
<1>3. ResponseArrivesRestored'
    BY <1>1 DEF ResponseArrivesRestored
<1>4. RequestArrivesSanitized'
  <2> DEFINE body == IF HasBodyToRewrite(request.head)
                     THEN SanitizedBody(request.wire) ELSE request.wire
  <2>1. toUpstream'.head = head /\ toUpstream'.wire = wire /\ request' = request
    BY <1>1
  <2>2. ~request.head.chunked =>
            /\ Read(head, wire, FALSE).complete
            /\ Read(head, wire, FALSE).body = body
    <3> SUFFICES ASSUME ~request.head.chunked
                 PROVE  Read(head, wire, FALSE).complete /\ Read(head, wire, FALSE).body = body
        OBVIOUS
    <3>1. Read(head, wire, FALSE) = [body |-> body, complete |-> TRUE]
        OBVIOUS
    <3> HIDE DEF body
    <3> QED BY <3>1, ReadingFields, Zenon
  <2> HIDE DEF HttpInv
  <2> QED BY <2>1, <2>2, Zenon DEF RequestArrivesSanitized
<1> QED BY <1>2, <1>3, <1>4

LEMMA ForwardUnreadPreserves == HttpInv /\ ForwardUnread => HttpInv'
<1> SUFFICES ASSUME HttpInv, ForwardUnread PROVE HttpInv'
    OBVIOUS
<1> DEFINE head == StripAcceptEncoding(request.head)
<1>1. /\ pc = "read" /\ ~HasBodyToRewrite(request.head) /\ Forward(head, RequestBody)
    BY DEF ForwardUnread
<1>2. /\ request \in Requests /\ request.head \in HttpHead /\ request.wire \in Seq(Byte)
      /\ ~request.head.chunked /\ request.head.length = NoLength => request.wire = <<>>
      /\ ~request.head.chunked /\ request.head.length # NoLength =>
            request.head.length = Len(request.wire)
    BY RequestFacts DEF HttpInv, HttpTypeOK
<1>3. ~head.accepts /\ head.chunked = request.head.chunked /\ head.length = request.head.length
    BY <1>2, StrippedHead
<1> HIDE DEF head
<1>4. ASSUME ~request.head.chunked
      PROVE  Read(head, RequestBody, FALSE) = [body |-> request.wire, complete |-> TRUE]
  <2>1. received = Len(request.wire)
    BY <1>1, <1>4 DEF HttpInv, HttpStages
  <2>2. RequestBody = request.wire
    BY <1>2, <2>1 DEF RequestBody
  <2>3. CASE request.head.length = NoLength
    BY <1>3, <1>4, <2>2, <2>3, ReadUnstated
  <2>4. CASE request.head.length # NoLength
    BY <1>2, <1>3, <1>4, <2>2, <2>4, ReadStated
  <2> QED BY <2>3, <2>4
<1>5. (IF HasBodyToRewrite(request.head) THEN SanitizedBody(request.wire) ELSE request.wire) = request.wire
    BY <1>1
<1> QED BY <1>1, <1>3, <1>4, <1>5, ForwardPreserves DEF head

LEMMA SanitizePreserves == HttpInv /\ SanitizeHttpRequest => HttpInv'
<1> SUFFICES ASSUME HttpInv, SanitizeHttpRequest PROVE HttpInv'
    OBVIOUS
<1> DEFINE sanitized == SanitizedBody(RequestBody)
           head == RewriteHeadForBody(request.head, Len(sanitized), TRUE)
<1>1. /\ pc = "read" /\ HasBodyToRewrite(request.head)
      /\ IF sanitized = RequestBody /\ ~request.head.accepts
         THEN Forward(request.head, RequestBody) ELSE Forward(head, sanitized)
    BY DEF SanitizeHttpRequest
<1>2. /\ request \in Requests /\ request.head \in HttpHead /\ request.wire \in Seq(Byte)
      /\ SanitizedBody(request.wire) \in Seq(Byte)
      /\ ~request.head.chunked /\ request.head.length # NoLength =>
            request.head.length = Len(request.wire)
    BY RequestFacts DEF HttpInv, HttpTypeOK
<1>3. ~request.head.chunked => RequestBody = request.wire /\ request.head.length = Len(request.wire)
  <2>1. ~request.head.chunked => received = Len(request.wire)
    BY <1>1 DEF HttpInv, HttpStages
  <2>2. request.head.length # NoLength
    BY <1>1 DEF HasBodyToRewrite
  <2> QED BY <1>2, <2>1, <2>2 DEF RequestBody
<1>4. (IF HasBodyToRewrite(request.head) THEN SanitizedBody(request.wire) ELSE request.wire)
        = SanitizedBody(request.wire)
    BY <1>1
<1>5. CASE sanitized = RequestBody /\ ~request.head.accepts
  <2>1. Forward(request.head, RequestBody)
    BY <1>1, <1>5
  <2>2. ~request.head.chunked =>
            Read(request.head, RequestBody, FALSE) = [body |-> SanitizedBody(request.wire), complete |-> TRUE]
    BY <1>2, <1>3, <1>5, ReadStated
  <2> QED BY <1>1, <1>4, <1>5, <2>1, <2>2, ForwardPreserves
<1>6. CASE ~(sanitized = RequestBody /\ ~request.head.accepts)
  <2>1. Forward(head, sanitized)
    BY <1>1, <1>6
  <2>2. ~head.accepts
    BY <1>2 DEF RewriteHeadForBody, HttpHead
  <2>3. ASSUME ~request.head.chunked
        PROVE  Read(head, sanitized, FALSE) = [body |-> SanitizedBody(request.wire), complete |-> TRUE]
    <3>1. sanitized = SanitizedBody(request.wire) /\ sanitized \in Seq(Byte)
        BY <1>2, <1>3, <2>3
    <3> HIDE DEF sanitized
    <3>2. Len(sanitized) \in Nat /\ TRUE \in BOOLEAN
        BY <3>1
    <3>3. ~head.chunked /\ head.length = Len(sanitized)
      <4>1. \A n \in Nat : /\ ~RewriteHeadForBody(request.head, n, TRUE).chunked
                           /\ RewriteHeadForBody(request.head, n, TRUE).length = n
        BY <1>2, <3>2, RewrittenHead
      <4> QED BY <3>2, <4>1
    <3> HIDE DEF head
    <3> QED BY <3>1, <3>3, ReadStated
  <2> HIDE DEF head, sanitized
  <2> QED BY <1>1, <1>4, <2>1, <2>2, <2>3, ForwardPreserves
<1> QED BY <1>5, <1>6

-----------------------------------------------------------------------------
\* Answers

AsItIs(head) == ~Redactable(head) \/ (head.chunked /\ head.encoded)
Expected(head, body) == IF AsItIs(head) THEN body ELSE Restore(body)

\* What the client reads is what upstream sent, as it ought to be.
Answered(head, wire, bodiless, got, done) ==
    LET sent == Read(head, wire, bodiless)
        what == Read(got.head, got.wire, bodiless)
    IN  /\ what.complete = (sent.complete /\ done)
        /\ what.complete => what.body = Expected(head, sent.body)
        /\ ~what.complete => IsPrefix(what.body, Expected(head, sent.body))

\* How to show it: by what is read at either end.
LEMMA AnsweredIs ==
    ASSUME NEW head, NEW wire, NEW bodiless, NEW got, NEW done \in BOOLEAN,
           NEW x, NEW c \in BOOLEAN, NEW y, NEW d \in BOOLEAN,
           Read(head, wire, bodiless) = [body |-> x, complete |-> c],
           Read(got.head, got.wire, bodiless) = [body |-> y, complete |-> d],
           d = (c /\ done), d => y = Expected(head, x), ~d => IsPrefix(y, Expected(head, x))
    PROVE  Answered(head, wire, bodiless, got, done)
<1> DEFINE sent == Read(head, wire, bodiless)
           what == Read(got.head, got.wire, bodiless)
<1>1. sent.body = x /\ sent.complete = c /\ what.body = y /\ what.complete = d
    OBVIOUS
<1> HIDE DEF sent, what
<1>2. /\ what.complete = (sent.complete /\ done)
      /\ what.complete => what.body = Expected(head, sent.body)
      /\ ~what.complete => IsPrefix(what.body, Expected(head, sent.body))
    BY <1>1
<1> QED BY <1>2, Zenon DEF Answered, sent, what

\* The invariant's part is about nothing but an exchange that has ended with an answer.
LEMMA ArrivesIf ==
    ASSUME (toClient # Nothing /\ Framed(response.head) =>
                Answered(response.head, Arrived, Bodiless, toClient, pc = "done"))'
    PROVE  ResponseArrivesRestored'
BY Zenon DEF ResponseArrivesRestored, Answered, Arrived, Expected, AsItIs

LEMMA RestoreNothing == Restore(<<>>) = <<>>
BY DEF Restore, RenderedUpTo, FlattenSeq

LEMMA PrefixOfConcat ==
    ASSUME NEW S, NEW a \in Seq(S), NEW b \in Seq(S) PROVE IsPrefix(a, a \o b)
<1> DEFINE t == a \o b
<1>1. Len(a) <= Len(t) /\ SubSeq(t, 1, Len(a)) = a /\ SubSeq(a, 1, Len(a)) = a
  <2>1. SubSeq(t, 1, Len(a)) = a
    BY PartsOfConcat
  <2>2. SubSeq(a, 1, Len(a)) = a /\ Len(a) <= Len(t)
    OBVIOUS
  <2> QED BY <2>1, <2>2
<1> HIDE DEF t
<1>2. IsPrefix(a, t)
    BY <1>1 DEF IsPrefix
<1> QED BY <1>2 DEF t

LEMMA PrefixOfItself == ASSUME NEW S, NEW a \in Seq(S) PROVE IsPrefix(a, a)
<1>1. Len(a) <= Len(a) /\ SubSeq(a, 1, Len(a)) = SubSeq(a, 1, Len(a))
    OBVIOUS
<1> QED BY <1>1 DEF IsPrefix

\* Two parts of a sequence, one behind the other.
LEMMA JoinParts ==
    ASSUME NEW S, NEW s \in Seq(S), NEW k \in Nat, NEW m \in Nat, NEW n \in Nat,
           1 <= k, k <= m + 1, m <= n, n <= Len(s)
    PROVE  SubSeq(s, k, m) \o SubSeq(s, m + 1, n) = SubSeq(s, k, n)
<1>1. k \in 1 .. Len(s) + 1 /\ m \in k - 1 .. Len(s) /\ n \in m .. Len(s)
    OBVIOUS
<1> QED BY <1>1, ConcatAdjacentSubSeq, Zenon

LEMMA BytesAreSymbols ==
    Seq(Byte) \subseteq Seq(WireSymbol) /\ Seq(Symbol) \subseteq Seq(WireSymbol)
<1>1. Byte \subseteq WireSymbol /\ Symbol \subseteq WireSymbol
    BY DEF WireSymbol, Symbol
<1> QED BY <1>1, SeqMonotonic

LEMMA WiresAssociate ==
    /\ \A s, t, u \in Seq(WireSymbol) : (s \o t) \o u = s \o (t \o u)
    /\ \A s, t, u \in Seq(Byte) : (s \o t) \o u = s \o (t \o u)
<1>1. \A s, t, u \in Seq(WireSymbol) : (s \o t) \o u = s \o (t \o u)
    BY ConcatAssociative
<1>2. \A s, t, u \in Seq(Byte) : (s \o t) \o u = s \o (t \o u)
    BY ConcatAssociative
<1> QED BY <1>1, <1>2, Zenon

LEMMA DechunkedType ==
    /\ \A w \in Seq(WireSymbol) :
        Dechunked(w).body \in Seq(WireSymbol) /\ Dechunked(w).complete \in BOOLEAN
        /\ Dechunked(w) = [body |-> Dechunked(w).body, complete |-> Dechunked(w).complete]
    /\ \A w \in Seq(Byte) :
        Dechunked(w).body \in Seq(Byte) /\ Dechunked(w).complete \in BOOLEAN
        /\ Dechunked(w) = [body |-> Dechunked(w).body, complete |-> Dechunked(w).complete]
<1>1. ASSUME NEW T, NEW r, r \in Reading(T)
      PROVE  r.body \in Seq(T) /\ r.complete \in BOOLEAN /\ r = [body |-> r.body, complete |-> r.complete]
    BY <1>1 DEF Reading
<1>2. ASSUME NEW w \in Seq(WireSymbol) PROVE Dechunked(w) \in Reading(WireSymbol)
    BY DechunkedIs
<1>3. ASSUME NEW w \in Seq(Byte) PROVE Dechunked(w) \in Reading(Byte)
    BY DechunkedIs
<1>4. ASSUME NEW w \in Seq(WireSymbol)
      PROVE  Dechunked(w).body \in Seq(WireSymbol) /\ Dechunked(w).complete \in BOOLEAN
             /\ Dechunked(w) = [body |-> Dechunked(w).body, complete |-> Dechunked(w).complete]
    BY <1>1, <1>2, Zenon
<1>5. ASSUME NEW w \in Seq(Byte)
      PROVE  Dechunked(w).body \in Seq(Byte) /\ Dechunked(w).complete \in BOOLEAN
             /\ Dechunked(w) = [body |-> Dechunked(w).body, complete |-> Dechunked(w).complete]
    BY <1>1, <1>3, Zenon
<1> QED BY <1>4, <1>5

-----------------------------------------------------------------------------
\* Wires of chunks

\* Nothing carries nothing, and a chunk more carries its data more.
LEMMA CarriesNothing == Carries(<<>>, <<>>)
<1> SUFFICES ASSUME NEW w \in Seq(WireSymbol)
             PROVE  Dechunked(<<>> \o w) = [body |-> <<>> \o Dechunked(w).body,
                                            complete |-> Dechunked(w).complete]
    BY DEF Carries
<1>1. /\ Dechunked(w).body \in Seq(WireSymbol)
      /\ Dechunked(w) = [body |-> Dechunked(w).body, complete |-> Dechunked(w).complete]
    BY DechunkedType
<1>2. \A s \in Seq(WireSymbol) : <<>> \o s = s
    OBVIOUS
<1>3. <<>> \o w = w /\ <<>> \o Dechunked(w).body = Dechunked(w).body
    BY <1>1, <1>2
<1> QED BY <1>1, <1>3, Zenon

LEMMA CarriesMore ==
    ASSUME NEW wire \in Seq(WireSymbol), NEW text \in Seq(Symbol), Carries(wire, text),
           NEW b \in Seq(Symbol)
    PROVE  Carries(wire \o HttpChunk(b), text \o b) /\ wire \o HttpChunk(b) \in Seq(WireSymbol)
<1> DEFINE h == HttpChunk(b)
<1>1. h \in Seq(WireSymbol)
  <2>1. <<>> \in Seq(WireSymbol)
    OBVIOUS
  <2> QED BY <2>1, WrittenChunkIsRead
<1>2. ASSUME NEW w \in Seq(WireSymbol)
      PROVE  Dechunked((wire \o h) \o w) = [body |-> (text \o b) \o Dechunked(w).body,
                                            complete |-> Dechunked(w).complete]
  <2> DEFINE rest == Dechunked(w)
             behind == Dechunked(h \o w)
  <2>1. behind = [body |-> b \o rest.body, complete |-> rest.complete]
    BY WrittenChunkIsRead
  <2>2. rest.body \in Seq(WireSymbol)
    BY DechunkedType
  <2> HIDE DEF h
  <2>3. h \o w \in Seq(WireSymbol)
    BY <1>1
  <2>4. (wire \o h) \o w = wire \o (h \o w)
    BY <1>1, WiresAssociate, Zenon
  <2>5. Dechunked(wire \o (h \o w)) = [body |-> text \o behind.body, complete |-> behind.complete]
    BY <2>3, Zenon DEF Carries
  <2> HIDE DEF rest, behind
  <2>6. behind.body = b \o rest.body /\ behind.complete = rest.complete
    BY <2>1, ReadingFields, Zenon
  <2>7. text \o (b \o rest.body) = (text \o b) \o rest.body
    <3>1. text \in Seq(WireSymbol) /\ b \in Seq(WireSymbol)
        BY BytesAreSymbols
    <3> QED BY <2>2, <3>1, WiresAssociate, Zenon
  <2>8. Dechunked((wire \o h) \o w) = [body |-> (text \o b) \o rest.body, complete |-> rest.complete]
    BY <2>4, <2>5, <2>6, <2>7, Zenon
  <2> QED BY <2>8 DEF rest
<1> HIDE DEF h
<1>3. wire \o h \in Seq(WireSymbol)
    BY <1>1
<1>4. Carries(wire \o h, text \o b)
    BY <1>2, Zenon DEF Carries
<1> QED BY <1>3, <1>4 DEF h

\* What has been carried when the wire ends there, and when the last chunk follows.
LEMMA CarriedSoFar ==
    ASSUME NEW wire \in Seq(WireSymbol), NEW text \in Seq(Symbol), Carries(wire, text)
    PROVE  /\ Dechunked(wire) = [body |-> text, complete |-> FALSE]
           /\ Dechunked(wire \o LastChunk) = [body |-> text, complete |-> TRUE]
<1>1. \A s \in Seq(WireSymbol) : s \o <<>> = s
    OBVIOUS
<1>2. text \o <<>> = text /\ wire \o <<>> = wire
    BY <1>1, BytesAreSymbols
<1>3. <<>> \in Seq(WireSymbol)
    OBVIOUS
<1>4. Dechunked(<<>>).body = <<>> /\ Dechunked(<<>>).complete = FALSE
    BY NothingIsRead, ReadingFields, Zenon
<1>5. Dechunked(LastChunk).body = <<>> /\ Dechunked(LastChunk).complete = TRUE
    BY LastChunkEnds, ReadingFields, Zenon
<1>6. Dechunked(wire \o <<>>) = [body |-> text \o Dechunked(<<>>).body,
                                 complete |-> Dechunked(<<>>).complete]
    BY <1>3, Zenon DEF Carries
<1>7. Dechunked(wire \o LastChunk) = [body |-> text \o Dechunked(LastChunk).body,
                                      complete |-> Dechunked(LastChunk).complete]
    BY LastChunkEnds, Zenon DEF Carries
<1>8. Dechunked(wire) = [body |-> text, complete |-> FALSE]
    BY <1>2, <1>4, <1>6, Zenon
<1>9. Dechunked(wire \o LastChunk) = [body |-> text, complete |-> TRUE]
    BY <1>2, <1>5, <1>7, Zenon
<1> QED BY <1>8, <1>9

-----------------------------------------------------------------------------
\* The response, step by step

\* The request's part of the invariant.
LEMMA RequestIsLeft ==
    ASSUME HttpInv, UNCHANGED <<request, toUpstream>> PROVE RequestArrivesSanitized'
BY DEF HttpInv, RequestArrivesSanitized

\* What the invariant says of the state, part by part.
LEMMA HttpFacts ==
    ASSUME HttpInv
    PROVE  /\ request \in Requests /\ response \in Responses
           /\ response.head \in HttpHead /\ response.wire \in Seq(Byte)
           /\ ~response.head.chunked /\ response.head.length # NoLength =>
                response.head.length \in Nat /\ Len(response.wire) <= response.head.length
           /\ Len(response.wire) \in Nat /\ arriving \in Nat /\ arriving <= Len(response.wire)
           /\ received \in Nat /\ unused \in Seq(Byte) /\ carry \in Seq(Byte)
           /\ Arrived \in Seq(Byte) /\ Len(Arrived) = arriving
           /\ StillToCome \in Seq(Byte)
<1>1. /\ request \in Requests /\ response \in Responses /\ arriving \in 0 .. Len(response.wire)
      /\ received \in Nat /\ unused \in Seq(Byte) /\ carry \in Seq(Byte)
    BY DEF HttpInv, HttpTypeOK
<1>2. /\ response.head \in HttpHead /\ response.wire \in Seq(Byte)
      /\ ~response.head.chunked /\ response.head.length # NoLength =>
            response.head.length \in Nat /\ Len(response.wire) <= response.head.length
    BY <1>1, ResponseFacts
<1>3. Len(response.wire) \in Nat /\ arriving \in Nat /\ arriving <= Len(response.wire)
    BY <1>1, <1>2
<1>4. Arrived \in Seq(Byte) /\ Len(Arrived) = arriving
    BY <1>2, <1>3 DEF Arrived
<1>5. SubSeq(response.wire, received + 1, arriving) \in Seq(Byte)
    BY <1>1, <1>2, <1>3
<1>6. StillToCome \in Seq(Byte)
    BY <1>1, <1>5 DEF StillToCome
<1> QED BY <1>1, <1>2, <1>3, <1>4, <1>6

\* What the two ends read while the answer is rewritten in chunks.
LEMMA ChunkedAnswer ==
    ASSUME HttpInv, pc = "chunks"
    PROVE  /\ Read(response.head, Arrived, Bodiless) = Dechunked(Arrived)
           /\ Dechunked(Arrived) = [body |-> Dechunked(Arrived).body, complete |-> Dechunked(Arrived).complete]
           /\ Dechunked(Arrived).body \in Seq(Byte) /\ Dechunked(Arrived).complete \in BOOLEAN
           /\ \A body : Expected(response.head, body) = Restore(body)
           /\ \A wire : Read(toClient.head, wire, Bodiless) = Dechunked(wire)
           /\ ~Bodiless /\ RestoredInChunks
<1>1. ~Bodiless /\ RestoredInChunks /\ toClient.head = RewriteHeadForChunked(response.head)
    BY DEF HttpInv, HttpStages, ChunksAreRestored
<1>2. response.head.chunked /\ ~AsItIs(response.head)
    BY <1>1 DEF RestoredInChunks, AsItIs
<1>3. toClient.head.chunked
    BY <1>1, HttpFacts, ChunkedHead
<1>4. /\ Dechunked(Arrived) = [body |-> Dechunked(Arrived).body, complete |-> Dechunked(Arrived).complete]
      /\ Dechunked(Arrived).body \in Seq(Byte) /\ Dechunked(Arrived).complete \in BOOLEAN
    BY HttpFacts, DechunkedType
<1>5. Read(response.head, Arrived, Bodiless) = Dechunked(Arrived)
    BY <1>1, <1>2, Zenon DEF Read
<1>6. \A wire : Read(toClient.head, wire, Bodiless) = Dechunked(wire)
    BY <1>1, <1>3, Zenon DEF Read
<1>7. \A body : Expected(response.head, body) = Restore(body)
    BY <1>2, Zenon DEF Expected
<1> QED BY <1>1, <1>4, <1>5, <1>6, <1>7

\* Chunks that break off: the client misses the last one, and has nothing but what belongs
\* to the body.
LEMMA BrokenOffAnswer ==
    ASSUME HttpInv, pc = "chunks"
    PROVE  Answered(response.head, Arrived, Bodiless, toClient, FALSE)
<1> DEFINE sent == Dechunked(Arrived)
<1>1. /\ Read(response.head, Arrived, Bodiless) = [body |-> sent.body, complete |-> sent.complete]
      /\ sent.body \in Seq(Byte) /\ sent.complete \in BOOLEAN
      /\ Expected(response.head, sent.body) = Restore(sent.body)
      /\ Read(toClient.head, toClient.wire, Bodiless) = Dechunked(toClient.wire)
    BY ChunkedAnswer
<1> DEFINE rest == Restore(carry \o Dechunked(StillToCome).body)
<1>2. PICK given \in Seq(Symbol) : Carries(toClient.wire, given) /\ given \o rest = Restore(sent.body)
    BY DEF HttpInv, ChunksAreRestored
<1>3. toClient.wire \in Seq(WireSymbol)
    BY DEF HttpInv, ChunksAreRestored
<1>4. Dechunked(toClient.wire) = [body |-> given, complete |-> FALSE]
    BY <1>2, <1>3, CarriedSoFar
<1>5. rest \in Seq(Symbol)
  <2>1. carry \in Seq(Byte) /\ Dechunked(StillToCome).body \in Seq(Byte)
    BY HttpFacts, DechunkedType
  <2>2. carry \o Dechunked(StillToCome).body \in Seq(Byte)
    BY <2>1
  <2> QED BY <2>2, RestoreWholeType
<1> HIDE DEF rest, sent
<1>6. IsPrefix(given, Restore(sent.body))
  <2>1. IsPrefix(given, given \o rest)
    BY <1>5, PrefixOfConcat
  <2> QED BY <1>2, <2>1
<1>7. FALSE = (sent.complete /\ FALSE) /\ FALSE \in BOOLEAN
    OBVIOUS
<1>8. Read(toClient.head, toClient.wire, Bodiless) = [body |-> given, complete |-> FALSE]
    BY <1>1, <1>4
<1> QED BY <1>1, <1>6, <1>7, <1>8, AnsweredIs DEF sent

\* An exchange given up leaves everything as it is.
LEMMA GiveUpPreserves ==
    ASSUME HttpInv, GiveUp, pc \in {"read", "head", "whole", "chunks"} PROVE HttpInv'
<1>1. /\ pc' = "failed"
      /\ UNCHANGED <<request, response, arriving, received, unused, carry, toUpstream, toClient>>
    BY DEF GiveUp
<1>2. HttpTypeOK' /\ HttpStages' /\ ChunksAreRestored'
    BY <1>1 DEF HttpInv, HttpTypeOK, HttpStages, ChunksAreRestored
<1>3. RequestArrivesSanitized'
    BY <1>1, RequestIsLeft
<1>4. ResponseArrivesRestored'
  <2>1. CASE pc = "chunks"
    <3>1. Answered(response.head, Arrived, Bodiless, toClient, FALSE)
        BY <2>1, BrokenOffAnswer
    <3>2. (pc' = "done") = FALSE /\ Arrived' = Arrived /\ Bodiless' = Bodiless
        BY <1>1 DEF Arrived, Bodiless
    <3>3. Answered(response'.head, Arrived', Bodiless', toClient', pc' = "done")
        BY <1>1, <3>1, <3>2
    <3> QED BY <3>3, ArrivesIf
  <2>2. CASE pc # "chunks"
    <3>1. toClient = Nothing
        BY <2>2 DEF HttpInv, HttpStages
    <3>2. toClient' = Nothing'
        BY <1>1, <3>1 DEF Nothing
    <3> QED BY <3>2, ArrivesIf
  <2> QED BY <2>1, <2>2
<1> QED BY <1>2, <1>3, <1>4 DEF HttpInv

LEMMA RefuseRequestPreserves == HttpInv /\ RefuseRequest => HttpInv'
<1>1. RefuseRequest => pc = "read" /\ GiveUp
    BY DEF RefuseRequest, GiveUp
<1> QED BY <1>1, GiveUpPreserves

LEMMA BreakOffPreserves ==
    HttpInv /\ (HeadBreaksOff \/ WholeBreaksOff \/ ChunksBreakOff \/ RefuseChunk) => HttpInv'
<1>1. HeadBreaksOff => pc = "head" /\ GiveUp
    BY DEF HeadBreaksOff
<1>2. WholeBreaksOff => pc = "whole" /\ GiveUp
    BY DEF WholeBreaksOff
<1>3. ChunksBreakOff => pc = "chunks" /\ GiveUp
    BY DEF ChunksBreakOff, WantsMore
<1>4. RefuseChunk => pc = "chunks" /\ GiveUp
    BY DEF RefuseChunk
<1> QED BY <1>1, <1>2, <1>3, <1>4, GiveUpPreserves

\* An answer that is not restored is copied.
LEMMA CopyPreserves == HttpInv /\ Copy => HttpInv'
<1> SUFFICES ASSUME HttpInv, Copy PROVE HttpInv'
    OBVIOUS
<1> DEFINE behind == SubSeq(response.wire, received + 1, arriving)
<1>1. /\ pc = "copy" /\ pc' = "done" /\ received' = arriving
      /\ toClient' = [toClient EXCEPT !.wire = @ \o behind]
      /\ UNCHANGED <<request, response, arriving, unused, carry, toUpstream>>
    BY DEF Copy, WriteBytes
<1>2. /\ response.head.chunked /\ ~RestoredInChunks /\ ~Bodiless /\ received <= arriving
      /\ toClient = [head |-> response.head, wire |-> SubSeq(response.wire, 1, received)]
    BY <1>1 DEF HttpInv, HttpStages
<1>3. toClient' = [head |-> response.head, wire |-> Arrived]
  <2>1. SubSeq(response.wire, 1, received) \o behind = Arrived
    <3>1. /\ response.wire \in Seq(Byte) /\ received \in Nat /\ arriving \in Nat
          /\ arriving <= Len(response.wire)
        BY HttpFacts
    <3>2. 1 \in Nat /\ 1 <= 1 /\ 1 <= received + 1
        BY <3>1
    <3> QED BY <1>2, <3>1, <3>2, JoinParts DEF Arrived
  <2> HIDE DEF behind
  <2> QED BY <1>1, <1>2, <2>1
<1>4. HttpTypeOK' /\ HttpStages' /\ ChunksAreRestored'
    BY <1>1, HttpFacts DEF HttpInv, HttpTypeOK, HttpStages, ChunksAreRestored
<1>5. RequestArrivesSanitized'
    BY <1>1, RequestIsLeft
<1>6. ResponseArrivesRestored'
  <2> DEFINE sent == Dechunked(Arrived)
             got == [head |-> response.head, wire |-> Arrived]
  <2>1. /\ sent = [body |-> sent.body, complete |-> sent.complete]
        /\ sent.body \in Seq(Byte) /\ sent.complete \in BOOLEAN
    BY HttpFacts, DechunkedType
  <2>2. Read(response.head, Arrived, Bodiless) = sent
    BY <1>2, Zenon DEF Read
  <2>3. Expected(response.head, sent.body) = sent.body
    <3>1. AsItIs(response.head)
        BY <1>2 DEF AsItIs, RestoredInChunks
    <3> QED BY <3>1, Zenon DEF Expected
  <2>4. got.head = response.head /\ got.wire = Arrived
    OBVIOUS
  <2>5. IsPrefix(sent.body, sent.body)
    BY <2>1, PrefixOfItself
  <2>6. sent.complete = (sent.complete /\ TRUE) /\ TRUE \in BOOLEAN
    BY <2>1
  <2> HIDE DEF sent, got
  <2>7. Answered(response.head, Arrived, Bodiless, got, TRUE)
    <3>1. Read(response.head, Arrived, Bodiless) = [body |-> sent.body, complete |-> sent.complete]
        BY <2>1, <2>2
    <3>2. Read(got.head, got.wire, Bodiless) = [body |-> sent.body, complete |-> sent.complete]
        BY <2>4, <3>1
    <3> QED BY <2>1, <2>3, <2>5, <2>6, <3>1, <3>2, AnsweredIs
  <2>8. (pc' = "done") = TRUE /\ Arrived' = Arrived /\ Bodiless' = Bodiless
    BY <1>1 DEF Arrived, Bodiless
  <2>9. toClient' = got /\ response' = response
    BY <1>1, <1>3 DEF got
  <2>10. Answered(response'.head, Arrived', Bodiless', toClient', pc' = "done")
    BY <2>7, <2>8, <2>9
  <2> QED BY <2>10, ArrivesIf
<1> QED BY <1>4, <1>5, <1>6 DEF HttpInv

\* A whole answer, restored at once.
LEMMA RestoreHttpResponsePreserves == HttpInv /\ RestoreHttpResponse => HttpInv'
<1> SUFFICES ASSUME HttpInv, RestoreHttpResponse PROVE HttpInv'
    OBVIOUS
<1> DEFINE head == response.head
           stated == IF head.length = NoLength THEN 0 ELSE head.length
           body == SubSeq(response.wire, 1, Max({Len(unused), stated}))
           restored == ProcessUntil(body, Len(body)).out
           new == RewriteHeadForBody(head, Len(restored), FALSE)
           got == IF HasBodyToRewrite(head) /\ restored # body
                  THEN [head |-> new, wire |-> restored] ELSE [head |-> head, wire |-> body]
<1>1. /\ pc = "whole" /\ pc' = "done" /\ stated <= arriving
      /\ UNCHANGED <<request, response, arriving, received, unused, carry, toUpstream>>
    BY DEF RestoreHttpResponse
<1>2. toClient' = got
    BY Zenon DEF RestoreHttpResponse, Answer
<1>3. /\ ~head.chunked /\ ~Bodiless /\ received <= arriving
      /\ unused = SubSeq(response.wire, 1, received)
    BY <1>1 DEF HttpInv, HttpStages
<1>4. HttpTypeOK' /\ HttpStages' /\ ChunksAreRestored'
    BY <1>1, HttpFacts DEF HttpInv, HttpTypeOK, HttpStages, ChunksAreRestored
<1>5. RequestArrivesSanitized'
    BY <1>1, RequestIsLeft
<1>6. ResponseArrivesRestored'
  <2>1. CASE head.length = NoLength
    <3>1. ~Framed(response'.head)
        BY <1>1, <1>3, <2>1 DEF Framed
    <3> QED BY <3>1, ArrivesIf
  <2>2. CASE head.length # NoLength
    <3>1. /\ head \in HttpHead /\ response.wire \in Seq(Byte) /\ Len(response.wire) \in Nat
          /\ head.length \in Nat /\ Len(response.wire) <= head.length
          /\ arriving \in Nat /\ arriving <= Len(response.wire) /\ received \in Nat
        BY <1>3, <2>2, HttpFacts
    <3>2. stated = head.length
        BY <2>2
    <3>3. arriving = head.length /\ Len(response.wire) = head.length
        BY <1>1, <3>1, <3>2
    <3>4. Len(unused) = received /\ received <= head.length
        BY <1>3, <3>1, <3>3
    <3>5. Max({Len(unused), stated}) = head.length
        BY <3>1, <3>2, <3>4, TwoNumbers
    <3>6. body = Arrived /\ body \in Seq(Byte) /\ Len(body) = head.length
      <4>1. body = SubSeq(response.wire, 1, arriving)
        BY <3>3, <3>5
      <4> HIDE DEF body, stated
      <4>2. Arrived \in Seq(Byte) /\ Len(Arrived) = arriving
        BY HttpFacts
      <4> QED BY <3>3, <4>1, <4>2 DEF Arrived
    <3> HIDE DEF body, stated
    <3>7. restored = Restore(body) /\ restored \in Seq(Symbol)
        BY <3>6, RestoreWholeType DEF ProcessUntil, Restore
    <3> HIDE DEF restored
    <3>8. Read(head, Arrived, Bodiless) = [body |-> body, complete |-> TRUE]
      <4>1. Read(head, body, FALSE) = [body |-> body, complete |-> TRUE]
        BY <1>3, <3>6, ReadStated
      <4>2. Bodiless = FALSE
        BY <1>3, <3>1, HttpFacts, RequestFacts DEF Bodiless, HttpHead
      <4> QED BY <3>6, <4>1, <4>2
    <3>9. Read(got.head, got.wire, Bodiless) = [body |-> got.wire, complete |-> TRUE]
      <4>2. Bodiless = FALSE
        BY <1>3, <3>1, HttpFacts, RequestFacts DEF Bodiless, HttpHead
      <4>3. CASE HasBodyToRewrite(head) /\ restored # body
        <5>1. Len(restored) \in Nat /\ FALSE \in BOOLEAN
            BY <3>7
        <5>2. ~new.chunked /\ new.length = Len(restored)
            BY <3>1, <5>1, RewrittenHead
        <5> HIDE DEF new
        <5>3. Read(new, restored, FALSE) = [body |-> restored, complete |-> TRUE]
            BY <3>7, <5>2, ReadStated
        <5>4. got.head = new /\ got.wire = restored
            BY <4>3
        <5> QED BY <4>2, <5>3, <5>4
      <4>4. CASE ~(HasBodyToRewrite(head) /\ restored # body)
        <5>1. Read(head, body, FALSE) = [body |-> body, complete |-> TRUE]
            BY <1>3, <3>6, ReadStated
        <5>2. got.head = head /\ got.wire = body
            BY <4>4
        <5> QED BY <4>2, <5>1, <5>2
      <4> QED BY <4>3, <4>4
    <3>10. got.wire = Expected(head, body)
      <4>1. CASE AsItIs(head)
        <5>1. ~HasBodyToRewrite(head)
            BY <1>3, <4>1 DEF AsItIs, HasBodyToRewrite
        <5>2. got.wire = body
            BY <5>1
        <5> QED BY <4>1, <5>2, Zenon DEF Expected
      <4>2. CASE ~AsItIs(head)
        <5>1. got.wire = Restore(body)
          <6>1. CASE HasBodyToRewrite(head)
            <7>1. got.wire = restored
                BY <6>1
            <7> QED BY <3>7, <7>1
          <6>2. CASE ~HasBodyToRewrite(head)
            <7>1. head.length = 0
                BY <2>2, <4>2, <6>2 DEF HasBodyToRewrite, AsItIs
            <7>2. body = <<>>
                BY <3>6, <7>1
            <7>3. got.wire = body
                BY <6>2
            <7> QED BY <7>2, <7>3, RestoreNothing
          <6> QED BY <6>1, <6>2
        <5> QED BY <4>2, <5>1, Zenon DEF Expected
      <4> QED BY <4>1, <4>2
    <3> HIDE DEF got
    <3>11. TRUE = (TRUE /\ TRUE) /\ TRUE \in BOOLEAN
        OBVIOUS
    <3>12. Answered(head, Arrived, Bodiless, got, TRUE)
        BY <3>8, <3>9, <3>10, <3>11, AnsweredIs
    <3>13. (pc' = "done") = TRUE /\ Arrived' = Arrived /\ Bodiless' = Bodiless
        BY <1>1 DEF Arrived, Bodiless
    <3>14. toClient' = got /\ response' = response
        BY <1>1, <1>2
    <3>15. Answered(response'.head, Arrived', Bodiless', toClient', pc' = "done")
        BY <3>12, <3>13, <3>14
    <3> QED BY <3>15, ArrivesIf
  <2> QED BY <2>1, <2>2
<1> QED BY <1>4, <1>5, <1>6 DEF HttpInv

\* More of the answer is read, which changes nothing of it.
LEMMA ReadMorePreserves == HttpInv /\ ReadMore => HttpInv'
<1> SUFFICES ASSUME HttpInv, ReadMore PROVE HttpInv'
    OBVIOUS
<1>1. /\ pc = "chunks" /\ pc' = "chunks"
      /\ UNCHANGED <<request, response, arriving, carry, toUpstream, toClient>>
    BY DEF ReadMore, WantsMore
<1>2. PICK upTo \in received + 1 .. arriving :
        /\ unused' = unused \o SubSeq(response.wire, received + 1, upTo)
        /\ received' = upTo
    BY DEF ReadMore
<1>3. /\ response.wire \in Seq(Byte) /\ Len(response.wire) \in Nat
      /\ arriving \in Nat /\ arriving <= Len(response.wire) /\ received \in Nat
      /\ unused \in Seq(Byte)
    BY HttpFacts
<1> DEFINE come == SubSeq(response.wire, received + 1, upTo)
           behind == SubSeq(response.wire, upTo + 1, arriving)
<1>4. upTo \in Nat /\ upTo <= arriving /\ received + 1 <= upTo
    BY <1>3
<1>5. come \in Seq(Byte) /\ behind \in Seq(Byte)
    BY <1>3, <1>4
<1>6. come \o behind = SubSeq(response.wire, received + 1, arriving)
  <2>1. received + 1 \in Nat /\ 1 <= received + 1 /\ received + 1 <= upTo + 1
    BY <1>3, <1>4
  <2> QED BY <1>3, <1>4, <2>1, JoinParts
<1>7. StillToCome' = (unused \o come) \o behind
    BY <1>1, <1>2 DEF StillToCome
<1> HIDE DEF come, behind
<1>8. StillToCome' = StillToCome
  <2>1. (unused \o come) \o behind = unused \o (come \o behind)
    BY <1>3, <1>5, WiresAssociate, Zenon
  <2> QED BY <1>6, <1>7, <2>1 DEF StillToCome
<1>9. unused' \in Seq(Byte)
    BY <1>2, <1>3, <1>5 DEF come
<1>10. HttpTypeOK'
    BY <1>1, <1>2, <1>4, <1>9 DEF HttpInv, HttpTypeOK
<1>11. HttpStages'
    BY <1>1, <1>2, <1>4 DEF HttpInv, HttpStages, Bodiless, RestoredInChunks
<1>12. ChunksAreRestored'
  <2>1. RestoredInChunks' = RestoredInChunks /\ Arrived' = Arrived
    BY <1>1 DEF RestoredInChunks, Arrived
  <2>2. /\ RestoredInChunks
        /\ toClient.head = RewriteHeadForChunked(response.head)
        /\ toClient = [head |-> toClient.head, wire |-> toClient.wire]
        /\ toClient.wire \in Seq(WireSymbol)
        /\ Dechunked(StillToCome).complete = Dechunked(Arrived).complete
    BY <1>1 DEF HttpInv, ChunksAreRestored
  <2>3. PICK given \in Seq(Symbol) :
            /\ Carries(toClient.wire, given)
            /\ given \o Restore(carry \o Dechunked(StillToCome).body) = Restore(Dechunked(Arrived).body)
    BY <1>1 DEF HttpInv, ChunksAreRestored
  <2>4. /\ Carries(toClient'.wire, given)
        /\ given \o Restore(carry' \o Dechunked(StillToCome').body) = Restore(Dechunked(Arrived').body)
    BY <1>1, <1>8, <2>1, <2>3
  <2>5. /\ RestoredInChunks'
        /\ toClient'.head = RewriteHeadForChunked(response'.head)
        /\ toClient' = [head |-> toClient'.head, wire |-> toClient'.wire]
        /\ toClient'.wire \in Seq(WireSymbol)
        /\ Dechunked(StillToCome').complete = Dechunked(Arrived').complete
    BY <1>1, <1>8, <2>1, <2>2
  <2> QED BY <2>4, <2>5 DEF ChunksAreRestored
<1>13. RequestArrivesSanitized'
    BY <1>1, RequestIsLeft
<1>14. ResponseArrivesRestored'
    BY <1>1 DEF ResponseArrivesRestored
<1> QED BY <1>10, <1>11, <1>12, <1>13, <1>14 DEF HttpInv

\* The state a chunked answer starts in, before anything of it has been used.
LEMMA StartsRestored ==
    ASSUME HttpInv, carry = <<>>, NEW early \in 0 .. arriving,
           NEW first, first = SubSeq(response.wire, 1, early)
    PROVE  /\ first \in Seq(Byte)
           /\ first \o SubSeq(response.wire, early + 1, arriving) = Arrived
           /\ <<>> \o Restore(<<>> \o Dechunked(Arrived).body) = Restore(Dechunked(Arrived).body)
<1>1. /\ response.wire \in Seq(Byte) /\ Len(response.wire) \in Nat
      /\ arriving \in Nat /\ arriving <= Len(response.wire) /\ Arrived \in Seq(Byte)
    BY HttpFacts
<1>2. early \in Nat /\ early <= arriving /\ 1 \in Nat /\ 1 <= 1 /\ 1 <= early + 1
    BY <1>1
<1>3. first \in Seq(Byte)
    BY <1>1, <1>2
<1>4. first \o SubSeq(response.wire, early + 1, arriving) = Arrived
    BY <1>1, <1>2, JoinParts DEF Arrived
<1> DEFINE body == Dechunked(Arrived).body
<1>5. body \in Seq(Byte)
    BY <1>1, DechunkedType
<1> HIDE DEF body
<1>6. <<>> \o body = body
    BY <1>5
<1>7. <<>> \o Restore(body) = Restore(body)
  <2>1. Restore(body) \in Seq(Symbol)
    BY <1>5, RestoreWholeType
  <2> QED BY <2>1
<1> QED BY <1>3, <1>4, <1>6, <1>7 DEF body

\* The head of the answer decides how the rest is read.
LEMMA ReceiveHeadPreserves == HttpInv /\ ReceiveHead => HttpInv'
<1> SUFFICES ASSUME HttpInv, ReceiveHead PROVE HttpInv'
    OBVIOUS
<1> DEFINE head == response.head
<1>1. pc = "head" /\ UNCHANGED <<request, response, arriving, carry, toUpstream>>
    BY DEF ReceiveHead
<1>2. /\ response.wire \in Seq(Byte) /\ Len(response.wire) \in Nat /\ head \in HttpHead
      /\ arriving \in Nat /\ arriving <= Len(response.wire)
      /\ unused \in Seq(Byte) /\ Bodiless \in BOOLEAN
  <2>1. Bodiless \in BOOLEAN
    BY HttpFacts, RequestFacts DEF Bodiless, HttpHead
  <2> QED BY <2>1, HttpFacts
<1>3. PICK early \in 0 .. arriving :
        /\ received' = early
        /\ Bodiless => pc' = "done" /\ toClient' = [head |-> head, wire |-> <<>>] /\ unused' = unused
        /\ ~Bodiless /\ RestoredInChunks =>
            /\ pc' = "chunks" /\ toClient' = [head |-> RewriteHeadForChunked(head), wire |-> <<>>]
            /\ unused' = SubSeq(response.wire, 1, early)
        /\ ~Bodiless /\ head.chunked /\ ~RestoredInChunks =>
            /\ pc' = "copy" /\ unused' = unused
            /\ toClient' = [head |-> head, wire |-> SubSeq(response.wire, 1, early)]
        /\ ~Bodiless /\ ~head.chunked =>
            /\ pc' = "whole" /\ toClient' = toClient
            /\ unused' = SubSeq(response.wire, 1, early)
    BY <1>2 DEF ReceiveHead, Answer, RestoredInChunks
<1> DEFINE first == SubSeq(response.wire, 1, early)
<1>4. carry = <<>> /\ toClient = Nothing
    BY <1>1 DEF HttpInv, HttpStages
<1>5. /\ first \in Seq(Byte)
      /\ first \o SubSeq(response.wire, early + 1, arriving) = Arrived
      /\ <<>> \o Restore(<<>> \o Dechunked(Arrived).body) = Restore(Dechunked(Arrived).body)
    BY <1>4, StartsRestored
<1>6. Arrived' = Arrived /\ Bodiless' = Bodiless /\ RestoredInChunks' = RestoredInChunks /\ head' = head
    BY <1>1 DEF Arrived, Bodiless, RestoredInChunks
<1>7. early \in Nat /\ early <= arriving
    BY <1>2
<1>8. RequestArrivesSanitized'
    BY <1>1, RequestIsLeft
<1>9. CASE Bodiless
  <2>1. pc' = "done" /\ toClient' = [head |-> head, wire |-> <<>>] /\ unused' = unused /\ received' = early
    BY <1>3, <1>9
  <2>2. HttpTypeOK' /\ HttpStages' /\ ChunksAreRestored'
    BY <1>1, <1>2, <1>7, <2>1 DEF HttpInv, HttpTypeOK, HttpStages, ChunksAreRestored
  <2>3. ResponseArrivesRestored'
    <3> DEFINE got == [head |-> head, wire |-> <<>>]
    <3>1. \A h, w : Read(h, w, Bodiless) = [body |-> <<>>, complete |-> TRUE]
        BY <1>9, Zenon DEF Read
    <3>2. <<>> = Expected(head, <<>>)
        BY RestoreNothing, Zenon DEF Expected
    <3>3. TRUE = (TRUE /\ TRUE) /\ TRUE \in BOOLEAN
        OBVIOUS
    <3> HIDE DEF got
    <3>4. Answered(head, Arrived, Bodiless, got, TRUE)
        BY <3>1, <3>2, <3>3, AnsweredIs
    <3>5. (pc' = "done") = TRUE
        BY <2>1
    <3>6. Answered(response'.head, Arrived', Bodiless', toClient', pc' = "done")
        BY <1>1, <1>6, <2>1, <3>4, <3>5 DEF got
    <3> QED BY <3>6, ArrivesIf
  <2> QED BY <1>8, <2>2, <2>3 DEF HttpInv
<1>10. CASE ~Bodiless /\ RestoredInChunks
  <2>1. /\ pc' = "chunks" /\ toClient' = [head |-> RewriteHeadForChunked(head), wire |-> <<>>]
        /\ unused' = first /\ received' = early
    BY <1>3, <1>10
  <2> HIDE DEF first
  <2>2. HttpTypeOK' /\ HttpStages'
    BY <1>1, <1>2, <1>5, <1>6, <1>7, <1>10, <2>1 DEF HttpInv, HttpTypeOK, HttpStages
  <2>3. StillToCome' = Arrived
    BY <1>1, <1>5, <2>1 DEF StillToCome
  <2>4. ChunksAreRestored'
    <3>1. <<>> \in Seq(Symbol) /\ <<>> \in Seq(WireSymbol)
        OBVIOUS
    <3>2. toClient'.head = RewriteHeadForChunked(response'.head) /\ toClient'.wire = <<>>
        BY <1>1, <2>1
    <3>3. toClient' = [head |-> toClient'.head, wire |-> toClient'.wire]
        BY <2>1, <3>2
    <3>4. Carries(toClient'.wire, <<>>)
        BY <3>2, CarriesNothing
    <3>5. carry' = <<>>
        BY <1>1, <1>4
    <3>6. <<>> \o Restore(carry' \o Dechunked(StillToCome').body) = Restore(Dechunked(Arrived').body)
        BY <1>5, <1>6, <2>3, <3>5
    <3>7. Dechunked(StillToCome').complete = Dechunked(Arrived').complete
        BY <1>6, <2>3
    <3> QED BY <1>6, <1>10, <3>1, <3>2, <3>3, <3>4, <3>6, <3>7 DEF ChunksAreRestored
  <2>5. ResponseArrivesRestored'
    BY <2>1 DEF ResponseArrivesRestored
  <2> QED BY <1>8, <2>2, <2>4, <2>5 DEF HttpInv
<1>11. CASE ~Bodiless /\ head.chunked /\ ~RestoredInChunks
  <2>1. /\ pc' = "copy" /\ unused' = unused /\ received' = early
        /\ toClient' = [head |-> head, wire |-> first]
    BY <1>3, <1>11
  <2>2. HttpTypeOK' /\ HttpStages' /\ ChunksAreRestored'
    BY <1>1, <1>2, <1>6, <1>7, <1>11, <2>1 DEF HttpInv, HttpTypeOK, HttpStages, ChunksAreRestored
  <2>3. ResponseArrivesRestored'
    BY <2>1 DEF ResponseArrivesRestored
  <2> QED BY <1>8, <2>2, <2>3 DEF HttpInv
<1>12. CASE ~Bodiless /\ ~head.chunked
  <2>1. pc' = "whole" /\ toClient' = toClient /\ unused' = first /\ received' = early
    BY <1>3, <1>12
  <2>2. HttpTypeOK' /\ HttpStages' /\ ChunksAreRestored'
    <3>1. toClient' = Nothing'
        BY <1>4, <2>1 DEF Nothing
    <3>2. unused' = SubSeq(response'.wire, 1, received')
        BY <1>1, <2>1
    <3> HIDE DEF first
    <3> QED BY <1>1, <1>2, <1>4, <1>5, <1>6, <1>7, <1>12, <2>1, <3>1, <3>2
            DEF HttpInv, HttpTypeOK, HttpStages, ChunksAreRestored
  <2>3. ResponseArrivesRestored'
    BY <2>1 DEF ResponseArrivesRestored
  <2> QED BY <1>8, <2>2, <2>3 DEF HttpInv
<1>13. head.chunked \in BOOLEAN
    BY <1>2 DEF HttpHead
<1> QED BY <1>9, <1>10, <1>11, <1>12, <1>13

\* What is written and what stays are texts.
LEMMA ProcessedType ==
    ASSUME NEW b \in Seq(Byte)
    PROVE  /\ ProcessUntil(b, SafeEnd(b)).out \in Seq(Symbol)
           /\ ProcessUntil(b, SafeEnd(b)).rest \in Seq(Byte)
<1>1. SafeEnd(b) \in 0 .. Len(b)
    BY SafeEndBounds
<1>2. CommitUntil(b, SafeEnd(b)) \in SafeEnd(b) .. Len(b)
    BY <1>1, CommitUntilBounds
<1>3. ProcessUntil(b, SafeEnd(b)).out \in Seq(Symbol)
    BY <1>1, RestoreType DEF ProcessUntil
<1>4. ProcessUntil(b, SafeEnd(b)).rest \in Seq(Byte)
    BY <1>1, <1>2 DEF ProcessUntil
<1> QED BY <1>3, <1>4

\* What a chunk does to the texts: what is written of it, and what is held back with what is
\* still to come, is what was.
LEMMA ChunkIsRestored ==
    ASSUME NEW given \in Seq(Symbol), NEW filled \in Seq(Byte), NEW rest \in Seq(Byte)
    PROVE  (given \o ProcessUntil(filled, SafeEnd(filled)).out)
               \o Restore(ProcessUntil(filled, SafeEnd(filled)).rest \o rest)
           = given \o Restore(filled \o rest)
<1> DEFINE put == ProcessUntil(filled, SafeEnd(filled)).out
           left == ProcessUntil(filled, SafeEnd(filled)).rest
           last == Restore(left \o rest)
<1>1. put \in Seq(Symbol) /\ left \in Seq(Byte)
    BY ProcessedType
<1>2. Restore(filled \o rest) = put \o last
    BY ProcessingIsInvisible
<1> HIDE DEF put, left
<1>3. last \in Seq(Symbol)
  <2>1. left \o rest \in Seq(Byte)
    BY <1>1
  <2> QED BY <2>1, RestoreWholeType
<1> HIDE DEF last
<1>4. (given \o put) \o last = given \o (put \o last)
    BY <1>1, <1>3, ConcatIsAssociative, Zenon
<1>5. (given \o put) \o last = given \o Restore(filled \o rest)
    BY <1>2, <1>4
<1> QED BY <1>5 DEF last, left, put

\* A chunk of the answer is written restored, but for what is held back.
LEMMA PushHttpChunkPreserves == HttpInv /\ PushHttpChunk => HttpInv'
<1> SUFFICES ASSUME HttpInv, PushHttpChunk PROVE HttpInv'
    OBVIOUS
<1> DEFINE data == SubSeq(unused, LineLen(unused) + 3, ChunkEnd(unused))
           p == ProcessUntil(carry \o data, SafeEnd(carry \o data))
           behind == SubSeq(unused, ChunkEnd(unused) + 3, Len(unused))
           tail == SubSeq(response.wire, received + 1, arriving)
<1>1. /\ pc = "chunks" /\ pc' = "chunks" /\ StartsWithChunk(unused)
      /\ carry' = p.rest /\ unused' = behind
      /\ toClient' = [toClient EXCEPT !.wire = @ \o HttpChunk(p.out)]
      /\ UNCHANGED <<request, response, arriving, received, toUpstream>>
    BY DEF PushHttpChunk, WriteBytes, StartsWithChunk
<1>2. /\ response.wire \in Seq(Byte) /\ Len(response.wire) \in Nat
      /\ arriving \in Nat /\ arriving <= Len(response.wire) /\ received \in Nat
      /\ unused \in Seq(Byte) /\ carry \in Seq(Byte)
    BY HttpFacts
<1>3. data \in Seq(Byte) /\ behind \in Seq(Byte) /\ tail \in Seq(Byte)
  <2>1. ChunkEnd(unused) \in Nat /\ Len(unused) \in Nat /\ ChunkEnd(unused) + 2 <= Len(unused)
    <3>1. StartsWithChunk(unused) => Len(unused) >= ChunkEnd(unused) + 2
        BY DEF StartsWithChunk, HasChunk
    <3>2. ChunkEnd(unused) \in Nat /\ Len(unused) \in Nat
        BY <1>1, <1>2, RestIsShorter
    <3> QED BY <1>1, <3>1, <3>2
  <2>2. LineLen(unused) \in Nat
    BY <1>1, <1>2, RestIsShorter, ChunkInFront
  <2> QED BY <1>2, <2>1, <2>2
<1> DEFINE rest == Dechunked(behind \o tail)
<1>4. rest.body \in Seq(Byte) /\ rest.complete \in BOOLEAN
  <2>1. behind \o tail \in Seq(Byte)
    BY <1>3
  <2> QED BY <2>1, DechunkedType
<1>5. /\ Dechunked(StillToCome).body = data \o rest.body
      /\ Dechunked(StillToCome).complete = rest.complete
  <2>1. StillToCome = unused \o tail
    BY DEF StillToCome
  <2> HIDE DEF tail
  <2>2. Dechunked(StillToCome) = [body |-> data \o rest.body, complete |-> rest.complete]
    BY <1>1, <1>2, <1>3, <2>1, ChunkIsRead
  <2> HIDE DEF rest, data
  <2> QED BY <2>2, ReadingFields, Zenon
<1>6. Dechunked(StillToCome') = rest
  <2>1. StillToCome' = behind \o tail
    BY <1>1 DEF StillToCome
  <2> QED BY <2>1
<1> HIDE DEF data, behind, tail, rest
<1>7. PICK given \in Seq(Symbol) :
        /\ Carries(toClient.wire, given)
        /\ given \o Restore(carry \o Dechunked(StillToCome).body) = Restore(Dechunked(Arrived).body)
    BY <1>1 DEF HttpInv, ChunksAreRestored
<1>8. /\ p.out \in Seq(Symbol) /\ p.rest \in Seq(Byte)
      /\ (given \o p.out) \o Restore(p.rest \o rest.body) = given \o Restore(carry \o (data \o rest.body))
  <2> DEFINE filled == carry \o data
             left == rest.body
  <2>1. filled \in Seq(Byte) /\ left \in Seq(Byte)
    BY <1>2, <1>3, <1>4
  <2> HIDE DEF left
  <2>2. filled \o left = carry \o (data \o left)
    <3>1. carry \in Seq(Byte) /\ data \in Seq(Byte) /\ left \in Seq(Byte)
        BY <1>2, <1>3, <2>1
    <3> HIDE DEF p
    <3> QED BY <3>1, WiresAssociate, Zenon
  <2>3. p = ProcessUntil(filled, SafeEnd(filled))
    OBVIOUS
  <2> HIDE DEF filled
  <2>4. ProcessUntil(filled, SafeEnd(filled)).out \in Seq(Symbol)
    BY <2>1, ProcessedType
  <2>5. ProcessUntil(filled, SafeEnd(filled)).rest \in Seq(Byte)
    BY <2>1, ProcessedType
  <2>6. (given \o ProcessUntil(filled, SafeEnd(filled)).out)
            \o Restore(ProcessUntil(filled, SafeEnd(filled)).rest \o left)
        = given \o Restore(filled \o left)
    BY <1>7, <2>1, ChunkIsRestored
  <2> HIDE DEF p
  <2> QED BY <2>2, <2>3, <2>4, <2>5, <2>6 DEF left
<1> HIDE DEF p
<1>9. /\ RestoredInChunks /\ toClient.head = RewriteHeadForChunked(response.head)
      /\ toClient = [head |-> toClient.head, wire |-> toClient.wire]
      /\ toClient.wire \in Seq(WireSymbol)
      /\ Dechunked(StillToCome).complete = Dechunked(Arrived).complete
    BY <1>1 DEF HttpInv, ChunksAreRestored
<1> DEFINE wire == toClient.wire \o HttpChunk(p.out)
<1>10. Carries(wire, given \o p.out) /\ wire \in Seq(WireSymbol)
    BY <1>7, <1>8, <1>9, CarriesMore
<1>11. toClient' = [head |-> toClient.head, wire |-> wire]
    BY <1>1, <1>9
<1> HIDE DEF wire
<1>12. toClient'.head = toClient.head /\ toClient'.wire = wire
    BY <1>11
<1>13. HttpTypeOK'
    BY <1>1, <1>3, <1>8 DEF HttpInv, HttpTypeOK
<1>14. HttpStages'
    BY <1>1 DEF HttpInv, HttpStages, Bodiless, RestoredInChunks
<1>15. ChunksAreRestored'
  <2>1. RestoredInChunks' = RestoredInChunks /\ Arrived' = Arrived /\ response' = response /\ carry' = p.rest
    BY <1>1 DEF RestoredInChunks, Arrived
  <2>2. given \o p.out \in Seq(Symbol)
    BY <1>8
  <2>3. (given \o p.out) \o Restore(carry' \o Dechunked(StillToCome').body) = Restore(Dechunked(Arrived').body)
    BY <1>5, <1>6, <1>7, <1>8, <2>1
  <2>4. Dechunked(StillToCome').complete = Dechunked(Arrived').complete
    BY <1>5, <1>6, <1>9, <2>1
  <2>5. Carries(toClient'.wire, given \o p.out) /\ toClient'.wire \in Seq(WireSymbol)
    BY <1>10, <1>12
  <2>6. toClient' = [head |-> toClient'.head, wire |-> toClient'.wire]
    BY <1>11, <1>12
  <2>7. toClient'.head = RewriteHeadForChunked(response'.head)
    BY <1>9, <1>12, <2>1
  <2> QED BY <1>9, <2>1, <2>2, <2>3, <2>4, <2>5, <2>6, <2>7 DEF ChunksAreRestored
<1>16. RequestArrivesSanitized'
    BY <1>1, RequestIsLeft
<1>17. ResponseArrivesRestored'
    BY <1>1 DEF ResponseArrivesRestored
<1> QED BY <1>13, <1>14, <1>15, <1>16, <1>17 DEF HttpInv

\* The last chunk brings what was held back.
LEMMA FinishChunksPreserves == HttpInv /\ FinishChunks => HttpInv'
<1> SUFFICES ASSUME HttpInv, FinishChunks PROVE HttpInv'
    OBVIOUS
<1> DEFINE last == ProcessUntil(carry, Len(carry)).out
           behind == HttpChunk(last) \o LastChunk
           tail == SubSeq(response.wire, received + 1, arriving)
           sent == Dechunked(Arrived)
<1>1. /\ pc = "chunks" /\ pc' = "done" /\ HasLastChunk(unused) /\ carry' = <<>>
      /\ toClient' = [toClient EXCEPT !.wire = @ \o behind]
      /\ UNCHANGED <<request, response, arriving, received, unused, toUpstream>>
    BY DEF FinishChunks, WriteBytes
<1>2. /\ response.wire \in Seq(Byte) /\ Len(response.wire) \in Nat
      /\ arriving \in Nat /\ arriving <= Len(response.wire) /\ received \in Nat
      /\ unused \in Seq(Byte) /\ carry \in Seq(Byte)
    BY HttpFacts
<1>3. tail \in Seq(Byte)
    BY <1>2
<1>4. Dechunked(StillToCome).body = <<>> /\ Dechunked(StillToCome).complete = TRUE
  <2>1. StillToCome = unused \o tail
    BY DEF StillToCome
  <2> HIDE DEF tail
  <2>2. Dechunked(StillToCome) = [body |-> <<>>, complete |-> TRUE]
    BY <1>1, <1>2, <1>3, <2>1, LastChunkIsRead
  <2> QED BY <2>2, ReadingFields, Zenon
<1>5. /\ toClient = [head |-> toClient.head, wire |-> toClient.wire]
      /\ toClient.wire \in Seq(WireSymbol)
      /\ Dechunked(StillToCome).complete = sent.complete
    BY <1>1 DEF HttpInv, ChunksAreRestored
<1>6. PICK given \in Seq(Symbol) :
        /\ Carries(toClient.wire, given)
        /\ given \o Restore(carry \o Dechunked(StillToCome).body) = Restore(sent.body)
    BY <1>1 DEF HttpInv, ChunksAreRestored
<1>7. last = Restore(carry) /\ last \in Seq(Symbol)
    BY <1>2, RestoreWholeType DEF ProcessUntil, Restore
<1>8. given \o last = Restore(sent.body)
  <2>1. carry \o <<>> = carry
    BY <1>2
  <2> HIDE DEF last
  <2> QED BY <1>4, <1>6, <1>7, <2>1
<1> HIDE DEF last, tail
<1> DEFINE wire == toClient.wire \o HttpChunk(last)
<1>9. Carries(wire, given \o last) /\ wire \in Seq(WireSymbol) /\ given \o last \in Seq(Symbol)
  <2>1. given \o last \in Seq(Symbol)
    BY <1>7
  <2> QED BY <1>5, <1>6, <1>7, <2>1, CarriesMore
<1>10. toClient.wire \o behind = wire \o LastChunk
  <2>1. HttpChunk(last) \in Seq(WireSymbol)
    <3>1. <<>> \in Seq(WireSymbol)
        OBVIOUS
    <3> QED BY <1>7, <3>1, WrittenChunkIsRead
  <2>2. LastChunk \in Seq(WireSymbol)
    BY LastChunkEnds
  <2>3. (toClient.wire \o HttpChunk(last)) \o LastChunk = toClient.wire \o (HttpChunk(last) \o LastChunk)
    BY <1>5, <2>1, <2>2, WiresAssociate, Zenon
  <2> QED BY <2>3
<1> HIDE DEF wire, behind
<1>11. Dechunked(wire \o LastChunk) = [body |-> Restore(sent.body), complete |-> TRUE]
    BY <1>8, <1>9, CarriedSoFar
<1>12. toClient' = [head |-> toClient.head, wire |-> wire \o LastChunk]
    BY <1>1, <1>5, <1>10
<1>13. HttpTypeOK' /\ HttpStages' /\ ChunksAreRestored'
  <2>1. <<>> \in Seq(Byte)
    OBVIOUS
  <2> QED BY <1>1, <2>1 DEF HttpInv, HttpTypeOK, HttpStages, ChunksAreRestored
<1>14. RequestArrivesSanitized'
    BY <1>1, RequestIsLeft
<1>15. ResponseArrivesRestored'
  <2> DEFINE got == [head |-> toClient.head, wire |-> wire \o LastChunk]
  <2>1. got.head = toClient.head /\ got.wire = wire \o LastChunk
    OBVIOUS
  <2> HIDE DEF got
  <2>2. /\ Read(response.head, Arrived, Bodiless) = sent
        /\ sent = [body |-> sent.body, complete |-> sent.complete]
        /\ Expected(response.head, sent.body) = Restore(sent.body)
        /\ \A w : Read(toClient.head, w, Bodiless) = Dechunked(w)
    BY <1>1, ChunkedAnswer
  <2>3. sent.complete = TRUE
    BY <1>4, <1>5
  <2> HIDE DEF sent
  <2>4. Read(response.head, Arrived, Bodiless) = [body |-> sent.body, complete |-> TRUE]
    BY <2>2, <2>3
  <2>5. Read(got.head, got.wire, Bodiless) = [body |-> Restore(sent.body), complete |-> TRUE]
    BY <1>11, <2>1, <2>2
  <2>6. TRUE = (TRUE /\ TRUE) /\ TRUE \in BOOLEAN
    OBVIOUS
  <2>7. Answered(response.head, Arrived, Bodiless, got, TRUE)
    BY <2>2, <2>4, <2>5, <2>6, AnsweredIs
  <2>8. (pc' = "done") = TRUE /\ Arrived' = Arrived /\ Bodiless' = Bodiless
    BY <1>1 DEF Arrived, Bodiless
  <2>9. toClient' = got /\ response' = response
    BY <1>1, <1>12 DEF got
  <2>10. Answered(response'.head, Arrived', Bodiless', toClient', pc' = "done")
    BY <2>7, <2>8, <2>9
  <2> QED BY <2>10, ArrivesIf
<1> QED BY <1>13, <1>14, <1>15 DEF HttpInv

LEMMA HttpStepPreserves == HttpInv /\ [HttpNext]_httpVars => HttpInv'
<1> SUFFICES ASSUME HttpInv, [HttpNext]_httpVars PROVE HttpInv'
    OBVIOUS
<1>1. CASE ReadRequest
    BY <1>1, ReadRequestPreserves
<1>2. CASE ForwardUnread
    BY <1>2, ForwardUnreadPreserves
<1>3. CASE SanitizeHttpRequest
    BY <1>3, SanitizePreserves
<1>4. CASE RefuseRequest
    BY <1>4, RefuseRequestPreserves
<1>5. CASE ReceiveHead
    BY <1>5, ReceiveHeadPreserves
<1>6. CASE HeadBreaksOff \/ WholeBreaksOff \/ ChunksBreakOff \/ RefuseChunk
    BY <1>6, BreakOffPreserves
<1>7. CASE Copy
    BY <1>7, CopyPreserves
<1>8. CASE RestoreHttpResponse
    BY <1>8, RestoreHttpResponsePreserves
<1>9. CASE ReadMore
    BY <1>9, ReadMorePreserves
<1>10. CASE PushHttpChunk
    BY <1>10, PushHttpChunkPreserves
<1>11. CASE FinishChunks
    BY <1>11, FinishChunksPreserves
<1>12. CASE UNCHANGED httpVars
    BY <1>12 DEF HttpInv, httpVars, HttpTypeOK, HttpStages, ChunksAreRestored, RestoredInChunks, Arrived,
                 StillToCome, Bodiless, RequestArrivesSanitized, ResponseArrivesRestored
<1> QED BY <1>1, <1>2, <1>3, <1>4, <1>5, <1>6, <1>7, <1>8, <1>9, <1>10, <1>11, <1>12 DEF HttpNext

\* What is known of an exchange in every state: how far it is, and that what the client has
\* been given of a chunked answer, what is held back and what is still to come are together
\* the answer restored.
THEOREM HttpInvariant == HttpSpec => []HttpInv
<1> QED BY HttpInitEstablishes, HttpStepPreserves, PTL DEF HttpSpec

\* Whatever length sanitizing gives a request, upstream reads it whole and sanitized, and is
\* not asked for an encoded answer (sanitize_http_request, rewrite_http_head_for_body).
THEOREM RequestsArriveSanitized == HttpSpec => []RequestArrivesSanitized
<1>1. HttpInv => RequestArrivesSanitized
    BY DEF HttpInv
<1> QED BY <1>1, HttpInvariant, PTL

\* Wherever reads and chunks cut it, the client reads the answer upstream sent, restored, and
\* takes none that broke off for a whole one (forward_chunked_http_response,
\* restore_http_response).
THEOREM ResponsesArriveRestored == HttpSpec => []ResponseArrivesRestored
<1>1. HttpInv => ResponseArrivesRestored
    BY DEF HttpInv
<1> QED BY <1>1, HttpInvariant, PTL
=============================================================================
