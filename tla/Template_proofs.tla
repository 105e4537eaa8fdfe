--------------------------- MODULE Template_proofs ---------------------------
(***************************************************************************)
(* Proofs about Template: the executor's scan expands every text to what   *)
(* the positions of the text contribute one by one, or refuses it when a   *)
(* reference in it is not bound, and the validator's scan finds the same   *)
(* references, for texts of any length over any tokens.                    *)
(***************************************************************************)
EXTENDS Template, FiniteSetTheorems, SequenceTheorems, TLAPS

-----------------------------------------------------------------------------
(* Induction.  The recursive definitions are functions on intervals, so    *)
(* the least number of a set is all that is needed.                        *)

\* Every nonempty set of natural numbers has a least one: initial segments of
\* an interval are well-founded by inclusion.
LEMMA Least ==
  ASSUME NEW T, T \subseteq Nat, T # {}
  PROVE  \E n \in T : \A m \in T : n <= m
<1>1. PICK k \in T : TRUE
  OBVIOUS
<1> DEFINE Segments == {1..m : m \in {m \in T : m <= k}}
           R == StrictSubsetOrdering(1..k)
           S == FiniteSubsetsOf(1..k)
<1>2. IsWellFoundedOn(R, S)
  BY FS_StrictSubsetOrderingWellFounded
<1>3. Segments \subseteq S
  <2>1. \A m \in Nat : IsFiniteSet(1..m)
    BY FS_Interval
  <2> QED
    BY <2>1, <1>1 DEF FiniteSubsetsOf
<1>4. Segments # {}
  BY <1>1
<1>5. PICK x \in Segments : \A y \in Segments : ~ (<<y, x>> \in R)
  <2> HIDE DEF Segments, R, S
  <2> QED
    BY <1>2, <1>3, <1>4, WFMin
<1>6. PICK n \in T : n <= k /\ x = 1..n
  OBVIOUS
<1>7. ASSUME NEW m \in T, ~(n <= m)
      PROVE  FALSE
  <2>1. m \in Nat /\ n \in Nat /\ m < n /\ m <= k /\ k \in Nat
    BY <1>1, <1>6, <1>7
  <2>2. 1..m \in Segments
    BY <2>1, <1>7
  <2>3. 1..m \subseteq 1..n /\ 1..n \subseteq 1..k
    BY <2>1, <1>6
  <2>4. n \in 1..n /\ n \notin 1..m
    BY <2>1
  <2>5. <<1..m, 1..n>> \in R
    BY <2>3, <2>4 DEF StrictSubsetOrdering
  <2> QED
    BY <1>5, <1>6, <2>2, <2>5
<1> QED
  BY <1>7

\* Every nonempty set of numbers up to M has a greatest one.
LEMMA Greatest ==
  ASSUME NEW M \in Nat, NEW T, T \subseteq 0..M, T # {}
  PROVE  \E n \in T : \A m \in T : m <= n
<1> DEFINE U == {M - m : m \in T}
<1>1. \A m \in T : m \in Nat /\ m <= M /\ M - m \in Nat
  OBVIOUS
<1>2. U \subseteq Nat /\ U # {}
  BY <1>1
<1>3. PICK u \in U : \A v \in U : u <= v
  <2> HIDE DEF U
  <2> QED
    BY <1>2, Least
<1>4. PICK n \in T : u = M - n
  OBVIOUS
<1>5. ASSUME NEW m \in T PROVE m <= n
  <2>1. M - m \in U
    OBVIOUS
  <2>2. M - n <= M - m
    BY <1>3, <1>4, <2>1
  <2> QED
    BY <1>1, <2>2
<1> QED
  BY <1>5

\* A set of natural numbers has the minimum that Min names.
LEMMA MinIs ==
  ASSUME NEW T, T \subseteq Nat, T # {}
  PROVE  Min(T) \in T /\ \A m \in T : Min(T) <= m
BY Least DEF Min

\* Scanning a text: the result at a position is a base, or a piece before each
\* result further on.  Such a function exists.
HasScan(M, stop, base, pre, ok, jump) ==
  \E f : f = [p \in 1..M |->
                IF stop[p] THEN base[p]
                ELSE {pre[p] \o rest : rest \in IF ok[p] THEN f[jump[p]] ELSE {}}]

LEMMA ScanExists ==
  ASSUME NEW M \in Nat, NEW stop, NEW base, NEW pre, NEW ok, NEW jump,
         \A p \in 1..M : ~stop[p] /\ ok[p] => jump[p] \in (p + 1)..M
  PROVE  HasScan(M, stop, base, pre, ok, jump)
<1> DEFINE Body(f, p) == IF stop[p] THEN base[p]
             ELSE {pre[p] \o rest : rest \in IF ok[p] THEN f[jump[p]] ELSE {}}
           Good(n) == \E f : f = [p \in n..M |-> Body(f, p)]
           Bad == {n \in 1..(M + 1) : ~Good(n)}
<1>1. Good(M + 1)
  <2>1. (M + 1)..M = {}
    OBVIOUS
  <2>2. <<>> = [p \in (M + 1)..M |-> Body(<<>>, p)]
    BY <2>1
  <2> QED
    BY <2>2
<1>2. ASSUME NEW n \in 1..M, Good(n + 1)
      PROVE  Good(n)
  <2>1. PICK f : f = [p \in (n + 1)..M |-> Body(f, p)]
    BY <1>2
  <2> DEFINE g == [p \in n..M |-> IF p = n THEN Body(f, n) ELSE f[p]]
  <2>2. ASSUME NEW p \in n..M
        PROVE  Body(g, p) = Body(f, p)
    <3>1. ~stop[p] /\ ok[p] => jump[p] \in (n + 1)..M /\ jump[p] \in n..M /\ jump[p] # n
      OBVIOUS
    <3>2. ~stop[p] /\ ok[p] => g[jump[p]] = f[jump[p]]
      BY <3>1
    <3> QED
      BY <3>2
  <2>3. ASSUME NEW p \in n..M
        PROVE  g[p] = Body(g, p)
    <3>1. CASE p = n
      <4>1. g[p] = Body(f, n)
        BY <3>1
      <4> HIDE DEF Body, g
      <4> QED
        BY <3>1, <4>1, <2>2
    <3>2. CASE p # n
      <4>1. p \in (n + 1)..M
        BY <3>2
      <4>2. f[p] = Body(f, p)
        <5> HIDE DEF Body
        <5> QED
          BY <2>1, <4>1
      <4>3. g[p] = f[p]
        <5> HIDE DEF Body
        <5> QED
          BY <3>2
      <4> HIDE DEF Body, g
      <4> QED
        BY <4>2, <4>3, <2>2
    <3> QED
      BY <3>1, <3>2
  <2>4. g = [p \in n..M |-> Body(g, p)]
    <3>1. g = [p \in n..M |-> g[p]]
      OBVIOUS
    <3> HIDE DEF Body, g
    <3> QED
      BY <2>3, <3>1
  <2> QED
    BY <2>4
<1>3. Bad = {}
  <2>1. SUFFICES ASSUME Bad # {}
                 PROVE  FALSE
    OBVIOUS
  <2> HIDE DEF Good
  <2>2. PICK n \in Bad : \A m \in Bad : m <= n
    <3>1. Bad \subseteq 0..(M + 1) /\ M + 1 \in Nat
      OBVIOUS
    <3> HIDE DEF Bad
    <3> QED
      BY <3>1, <2>1, Greatest
  <2>3. n \in 1..M /\ n + 1 \in 1..(M + 1) /\ n + 1 \notin Bad
    BY <2>2, <1>1
  <2> QED
    BY <2>2, <2>3, <1>2
<1>4. Good(1)
  <2>1. 1 \in 1..(M + 1)
    OBVIOUS
  <2> HIDE DEF Good
  <2> QED
    BY <2>1, <1>3
<1> QED
  BY <1>4 DEF HasScan

\* What is put together from the left exists at every length.
LEMMA ChainExists ==
  ASSUME NEW seqs, NEW L \in Nat
  PROVE  \E f : f = [i \in 1..L |-> IF i = 1 THEN seqs[i] ELSE f[i - 1] \o seqs[i]]
<1> DEFINE Body(f, i) == IF i = 1 THEN seqs[i] ELSE f[i - 1] \o seqs[i]
           Good(n) == \E f : f = [i \in 1..n |-> Body(f, i)]
           Bad == {n \in 0..L : ~Good(n)}
<1>1. Good(0)
  <2>1. 1..0 = {}
    OBVIOUS
  <2>2. <<>> = [i \in 1..0 |-> Body(<<>>, i)]
    BY <2>1
  <2> QED
    BY <2>2
<1>2. ASSUME NEW n \in Nat, Good(n)
      PROVE  Good(n + 1)
  <2>1. PICK f : f = [i \in 1..n |-> Body(f, i)]
    BY <1>2
  <2> DEFINE g == [i \in 1..(n + 1) |-> IF i = n + 1 THEN Body(f, i) ELSE f[i]]
  <2>2. ASSUME NEW i \in 1..(n + 1)
        PROVE  Body(g, i) = Body(f, i)
    <3>1. i # 1 => i - 1 \in 1..(n + 1) /\ i - 1 # n + 1
      OBVIOUS
    <3> QED
      BY <3>1
  <2>3. ASSUME NEW i \in 1..(n + 1)
        PROVE  g[i] = Body(g, i)
    <3>1. g[i] = IF i = n + 1 THEN Body(f, i) ELSE f[i]
      OBVIOUS
    <3>2. i # n + 1 => i \in 1..n
      OBVIOUS
    <3>3. i \in 1..n => f[i] = Body(f, i)
      <4> HIDE DEF Body
      <4> QED
        BY <2>1
    <3> HIDE DEF Body, g
    <3> QED
      BY <3>1, <3>2, <3>3, <2>2
  <2>4. g = [i \in 1..(n + 1) |-> Body(g, i)]
    <3>1. g = [i \in 1..(n + 1) |-> g[i]]
      OBVIOUS
    <3> HIDE DEF Body, g
    <3> QED
      BY <2>3, <3>1
  <2> QED
    BY <2>4
<1>3. Good(L)
  <2>1. SUFFICES ASSUME ~Good(L)
                 PROVE  FALSE
    OBVIOUS
  <2> HIDE DEF Good
  <2>2. Bad \subseteq Nat /\ Bad # {}
    BY <2>1
  <2>3. PICK n \in Bad : \A m \in Bad : n <= m
    <3> HIDE DEF Bad
    <3> QED
      BY <2>2, Least
  <2>4. n \in 0..L /\ ~Good(n) /\ n # 0
    BY <1>1
  <2>5. n - 1 \in Nat /\ n - 1 \in 0..L /\ (n - 1) + 1 = n /\ ~(n <= n - 1)
    BY <2>4
  <2>6. Good(n - 1)
    BY <2>3, <2>5
  <2>7. Good((n - 1) + 1)
    BY <2>5, <2>6, <1>2
  <2> QED
    BY <2>4, <2>5, <2>7
<1> QED
  BY <1>3

\* FlattenSeq is what is left of adding one text after the other.
LEMMA Flattened ==
  ASSUME NEW T, NEW seqs \in Seq(Seq(T))
  PROVE  \E sum \in [0..Len(seqs) -> Seq(T)] :
           /\ sum[0] = <<>>
           /\ \A i \in 1..Len(seqs) : sum[i] = sum[i - 1] \o seqs[i]
           /\ FlattenSeq(seqs) = sum[Len(seqs)]
<1> DEFINE L == Len(seqs)
           flatten == CHOOSE f : f = [i \in 1..L |-> IF i = 1 THEN seqs[i] ELSE f[i - 1] \o seqs[i]]
           sum == [i \in 0..L |-> IF i = 0 THEN <<>> ELSE flatten[i]]
<1>1. L \in Nat /\ \A i \in 1..L : seqs[i] \in Seq(T)
  OBVIOUS
<1>2. flatten = [i \in 1..L |-> IF i = 1 THEN seqs[i] ELSE flatten[i - 1] \o seqs[i]]
  <2> HIDE DEF L
  <2> QED
    BY <1>1, ChainExists
<1>3. FlattenSeq(seqs) = IF L = 0 THEN seqs ELSE flatten[L]
  BY DEF FlattenSeq
<1> HIDE DEF flatten, L
<1>4. \A i \in 1..L : flatten[i] = IF i = 1 THEN seqs[i] ELSE flatten[i - 1] \o seqs[i]
  BY <1>2
<1>5. \A i \in 0..L : sum[i] = IF i = 0 THEN <<>> ELSE flatten[i]
  OBVIOUS
<1>6. sum = [i \in 0..L |-> sum[i]]
  OBVIOUS
<1> HIDE DEF sum
<1>7. ASSUME NEW i \in 1..L
      PROVE  sum[i] = sum[i - 1] \o seqs[i]
  <2>1. i \in 0..L /\ i - 1 \in 0..L /\ (i - 1 = 0 <=> i = 1) /\ i # 0
    BY <1>1
  <2>2. seqs[i] = <<>> \o seqs[i]
    BY <1>1
  <2> QED
    BY <1>4, <1>5, <2>1, <2>2
<1>8. sum[0] = <<>>
  BY <1>1, <1>5
<1>9. \A i \in 0..L : sum[i] \in Seq(T)
  <2> DEFINE Bad == {i \in 0..L : sum[i] \notin Seq(T)}
  <2>1. SUFFICES ASSUME Bad # {}
                 PROVE  FALSE
    OBVIOUS
  <2>2. Bad \subseteq Nat
    BY <1>1
  <2>3. PICK n \in Bad : \A m \in Bad : n <= m
    <3> HIDE DEF Bad
    <3> QED
      BY <2>1, <2>2, Least
  <2>4. n # 0
    BY <1>8, EmptySeq
  <2>5. n \in 1..L /\ n - 1 \in 0..L /\ ~(n <= n - 1)
    BY <1>1, <2>4
  <2>6. sum[n - 1] \in Seq(T)
    BY <2>3, <2>5
  <2> QED
    BY <1>1, <1>7, <2>5, <2>6, ConcatProperties
<1>10. FlattenSeq(seqs) = sum[L]
  <2>1. L = 0 => seqs = <<>>
    BY DEF L
  <2> QED
    BY <1>1, <1>3, <1>5, <2>1
<1> QED
  BY <1>6, <1>7, <1>8, <1>9, <1>10 DEF L

\* Adding the elements of a stretch of a text adds the stretch.
LEMMA PlainStretch ==
  ASSUME NEW T, NEW s \in Seq(T), NEW sum \in [0..Len(s) -> Seq(T)],
         NEW a \in 0..Len(s), NEW b \in a..Len(s),
         \A i \in (a + 1)..b : sum[i] = sum[i - 1] \o <<s[i]>>
  PROVE  sum[b] = sum[a] \o SubSeq(s, a + 1, b)
<1> DEFINE L == Len(s)
           Good(n) == sum[n] = sum[a] \o SubSeq(s, a + 1, n)
           Bad == {n \in a..b : ~Good(n)}
<1>1. L \in Nat /\ a \in Nat /\ b \in Nat /\ \A i \in 1..L : s[i] \in T
  OBVIOUS
<1>2. \A i, j \in 1..L : SubSeq(s, i, j) \in Seq(T)
  BY <1>1, SubSeqProperties
<1>3. Good(a)
  <2>1. SubSeq(s, a + 1, a) = <<>>
    BY <1>1, SubSeqEmpty
  <2> QED
    BY <2>1, <1>1, ConcatEmptySeq
<1>4. ASSUME NEW n \in (a + 1)..b, Good(n - 1)
      PROVE  Good(n)
  <2>1. n \in 1..L /\ n - 1 \in 0..L /\ a + 1 \in 1..L /\ n \in (a + 1)..L
    BY <1>1
  <2>2. SubSeq(s, a + 1, n) = SubSeq(s, a + 1, n - 1) \o <<s[n]>>
    BY <2>1, SubSeqRecursiveSecond
  <2>3. SubSeq(s, a + 1, n - 1) \in Seq(T)
    <3>1. CASE n = a + 1
      BY <1>1, <2>1, <3>1, SubSeqEmpty, EmptySeq
    <3>2. CASE n # a + 1
      BY <1>1, <1>2, <2>1, <3>2
    <3> QED
      BY <3>1, <3>2
  <2>4. <<s[n]>> \in Seq(T) /\ sum[a] \in Seq(T)
    BY <1>1, <2>1
  <2>5. (sum[a] \o SubSeq(s, a + 1, n - 1)) \o <<s[n]>>
          = sum[a] \o (SubSeq(s, a + 1, n - 1) \o <<s[n]>>)
    BY <2>3, <2>4, ConcatAssociative, SMTT(30)
  <2> QED
    BY <1>4, <2>2, <2>5
<1>5. Bad = {}
  <2>1. SUFFICES ASSUME Bad # {}
                 PROVE  FALSE
    OBVIOUS
  <2> HIDE DEF Good
  <2>2. Bad \subseteq Nat
    BY <1>1
  <2>3. PICK n \in Bad : \A m \in Bad : n <= m
    <3> HIDE DEF Bad
    <3> QED
      BY <2>1, <2>2, Least
  <2>4. n \in (a + 1)..b /\ n - 1 \in a..b /\ ~(n <= n - 1)
    BY <1>1, <1>3
  <2> QED
    BY <1>4, <2>3, <2>4
<1>6. b \in a..b
  BY <1>1
<1>7. Good(b)
  <2> HIDE DEF Good
  <2> QED
    BY <1>5, <1>6
<1> QED
  BY <1>7

\* Adding nothing changes nothing.
LEMMA QuietStretch ==
  ASSUME NEW T, NEW L \in Nat, NEW sum \in [0..L -> Seq(T)],
         NEW a \in 0..L, NEW b \in a..L,
         \A i \in (a + 1)..b : sum[i] = sum[i - 1] \o <<>>
  PROVE  sum[b] = sum[a]
<1> DEFINE Bad == {n \in a..b : sum[n] # sum[a]}
<1>0. b \in a..b
  OBVIOUS
<1>1. SUFFICES ASSUME Bad # {}
               PROVE  FALSE
  BY <1>0
<1>2. Bad \subseteq Nat
  <2>1. \A n \in a..b : n \in Nat
    OBVIOUS
  <2> QED
    BY <2>1
<1>3. PICK n \in Bad : \A m \in Bad : n <= m
  <2> HIDE DEF Bad
  <2> QED
    BY <1>1, <1>2, Least
<1>4. n \in (a + 1)..b /\ n \in 1..L /\ n - 1 \in a..b /\ n - 1 \in 0..L /\ ~(n <= n - 1)
  <2>1. n \in a..b /\ n # a
    OBVIOUS
  <2> HIDE DEF Bad
  <2> QED
    BY <2>1
<1>5. sum[n - 1] = sum[a]
  BY <1>3, <1>4
<1>6. sum[n] = sum[n - 1]
  BY <1>4, ConcatEmptySeq
<1> QED
  BY <1>5, <1>6
-----------------------------------------------------------------------------
(* Where a scan stands.                                                    *)

\* The marker at o begins a reference.
Sound(s, o) == Braces(s, o) # {} /\ isVariableReference(Name(s, o))

\* No reference reaches over position p.
Outside(s, p) ==
  \A o \in Markers(s, 1) : o < p => Braces(s, o) # {} /\ Min(Braces(s, o)) < p

\* The signs, by name.
Dollar == "$"
Opening == "{"
Closing == "}"

LEMMA Signs ==
  /\ Dollar # Opening /\ Dollar # Closing
  /\ Dollar \notin Letter \cup Digit /\ Closing \notin Letter \cup Digit
<1>1. "$" # "{" /\ "$" # "}"
  OBVIOUS
<1>2. "$" \notin Letter \cup Digit /\ "}" \notin Letter \cup Digit
  BY TemplateAssumption
<1> QED
  BY <1>1, <1>2 DEF Dollar, Opening, Closing

LEMMA OpensIs ==
  ASSUME NEW s, NEW i
  PROVE  Opens(s, i) <=> i < Len(s) /\ s[i] = Dollar /\ s[i + 1] = Opening
BY Zenon DEF Opens, Dollar, Opening

\* Markers and braces are positions of the text.
LEMMA Positions ==
  ASSUME NEW T, NEW s \in Seq(T), NEW p \in Nat
  PROVE  /\ Len(s) \in Nat
         /\ Markers(s, p) \subseteq Nat /\ Braces(s, p) \subseteq Nat
         /\ \A o \in Markers(s, p) :
              /\ o \in p..Len(s) /\ o + 1 <= Len(s) /\ Opens(s, o)
              /\ s[o] = Dollar /\ s[o + 1] = Opening
         /\ \A o \in p..Len(s) : Opens(s, o) => o \in Markers(s, p)
         /\ Braces(s, p) # {} =>
              /\ Min(Braces(s, p)) \in (p + 2)..Len(s)
              /\ s[Min(Braces(s, p))] = Closing
<1>1. Len(s) \in Nat
  OBVIOUS
<1>2. /\ \A i \in p..Len(s) : i \in Nat
      /\ \A i \in (p + 2)..Len(s) : i \in Nat
  BY <1>1
<1>3. \A i \in Braces(s, p) : i \in (p + 2)..Len(s) /\ s[i] = Closing
  BY Zenon DEF Braces, Closing
<1>4. Braces(s, p) # {} => Min(Braces(s, p)) \in Braces(s, p)
  <2>1. Braces(s, p) \subseteq Nat
    BY <1>2, <1>3
  <2> QED
    BY <2>1, MinIs
<1>5. \A o \in Markers(s, p) : o \in p..Len(s) /\ Opens(s, o)
  BY DEF Markers
<1>6. ASSUME NEW o \in Markers(s, p)
      PROVE  o \in p..Len(s) /\ o + 1 <= Len(s) /\ s[o] = Dollar /\ s[o + 1] = Opening
  <2>1. o \in p..Len(s) /\ o < Len(s) /\ s[o] = Dollar /\ s[o + 1] = Opening
    BY <1>5, OpensIs
  <2> QED
    BY <1>1, <2>1
<1>7. \A o \in p..Len(s) : Opens(s, o) => o \in Markers(s, p)
  BY DEF Markers
<1> QED
  BY <1>1, <1>2, <1>3, <1>4, <1>5, <1>6, <1>7

\* The tokens of a name are those of the text, and none is a sign.
LEMMA NameTokens ==
  ASSUME NEW T, NEW s \in Seq(T), NEW o \in Nat, Sound(s, o)
  PROVE  \A i \in (o + 2)..(Min(Braces(s, o)) - 1) : s[i] \in Letter \cup Digit
<1> DEFINE b == Min(Braces(s, o))
<1>1. b \in (o + 2)..Len(s) /\ Len(s) \in Nat
  BY Positions DEF Sound
<1> HIDE DEF b
<1>2. \A i \in (o + 2)..(b - 1) : s[i] \in T
  BY <1>1
<1>3. /\ Len(SubSeq(s, o + 2, b - 1)) = IF o + 2 <= b - 1 THEN (b - 1) - (o + 2) + 1 ELSE 0
      /\ \A i \in 1..((b - 1) - (o + 2) + 1) : SubSeq(s, o + 2, b - 1)[i] = s[(o + 2) + i - 1]
      /\ SubSeq(s, o + 2, b - 1) \in Seq(T)
  <2>1. o + 2 \in Int /\ b - 1 \in Int
    BY <1>1
  <2> QED
    BY <1>2, <2>1, SubSeqProperties
<1>4. \A i \in DOMAIN SubSeq(s, o + 2, b - 1) : SubSeq(s, o + 2, b - 1)[i] \in Letter \cup Digit
  BY DEF Sound, Name, isVariableReference, b
<1>5. ASSUME NEW i \in (o + 2)..(b - 1)
      PROVE  s[i] \in Letter \cup Digit
  <2>1. PICK j \in 1..((b - 1) - (o + 2) + 1) : j = i - (o + 2) + 1
    BY <1>1
  <2>2. i = (o + 2) + j - 1 /\ o + 2 <= b - 1
    BY <1>1, <2>1
  <2>3. j \in DOMAIN SubSeq(s, o + 2, b - 1)
    BY <1>1, <1>3, <2>1, <2>2
  <2> QED
    BY <1>3, <1>4, <2>2, <2>3
<1> QED
  BY <1>5 DEF b

\* From a position outside references, the scan passes plain tokens to the next
\* marker; a sound reference there holds no other marker, and the scan is
\* outside again behind its brace.
LEMMA Hop ==
  ASSUME NEW T, NEW s \in Seq(T), NEW p \in 1..(Len(s) + 1), Outside(s, p),
         NEW o \in Markers(s, p), \A m \in Markers(s, p) : o <= m
  PROVE  /\ \A i \in p..(o - 1) : ~Opens(s, i) /\ ~Inside(s, i)
         /\ Sound(s, o) =>
              /\ \A i \in (o + 1)..Min(Braces(s, o)) : ~Opens(s, i) /\ Inside(s, i)
              /\ Min(Braces(s, o)) + 1 \in (p + 1)..(Len(s) + 1)
              /\ Outside(s, Min(Braces(s, o)) + 1)
              /\ Markers(s, p) = {o} \cup Markers(s, Min(Braces(s, o)) + 1)
<1>1. /\ Len(s) \in Nat /\ p \in Nat /\ p >= 1
      /\ o \in p..Len(s) /\ o \in Nat /\ o + 1 <= Len(s) /\ s[o] = Dollar /\ s[o + 1] = Opening
  <2>1. Len(s) \in Nat /\ p \in Nat /\ p >= 1
    OBVIOUS
  <2>2. o \in p..Len(s) /\ o + 1 <= Len(s) /\ s[o] = Dollar /\ s[o + 1] = Opening
    BY <2>1, Positions
  <2> QED
    BY <2>1, <2>2
<1>2. /\ \A m \in Markers(s, 1) : m \in 1..Len(s) /\ Opens(s, m)
      /\ \A m \in 1..Len(s) : Opens(s, m) => m \in Markers(s, 1)
      /\ \A m \in p..Len(s) : Opens(s, m) => m \in Markers(s, p)
      /\ Markers(s, p) \subseteq Markers(s, 1)
  BY <1>1 DEF Markers
<1>3. \A m \in Markers(s, 1) : Braces(s, m) # {} => Min(Braces(s, m)) \in (m + 2)..Len(s)
  BY <1>1, <1>2, Positions
<1>4. ASSUME NEW i \in p..(o - 1)
      PROVE  ~Opens(s, i) /\ ~Inside(s, i)
  <2>1. i \in p..Len(s) /\ i < o /\ i \in Nat
    BY <1>1
  <2>2. ~Opens(s, i)
    BY <1>2, <2>1
  <2>3. ASSUME NEW m \in Markers(s, 1), Braces(s, m) # {}, i \in m..Min(Braces(s, m))
        PROVE  FALSE
    <3>1. Min(Braces(s, m)) \in Nat /\ m \in Nat /\ m <= i /\ i <= Min(Braces(s, m))
      BY <1>1, <1>2, <1>3, <2>3
    <3>2. CASE m < p
      BY <1>1, <2>1, <3>1, <3>2 DEF Outside
    <3>3. CASE ~(m < p)
      BY <1>1, <1>2, <2>1, <3>1, <3>3
    <3> QED
      BY <3>2, <3>3
  <2> QED
    BY <2>2, <2>3 DEF Inside
<1>5. ASSUME Sound(s, o)
      PROVE  /\ \A i \in (o + 1)..Min(Braces(s, o)) : ~Opens(s, i) /\ Inside(s, i)
             /\ Min(Braces(s, o)) + 1 \in (p + 1)..(Len(s) + 1)
             /\ Outside(s, Min(Braces(s, o)) + 1)
             /\ Markers(s, p) = {o} \cup Markers(s, Min(Braces(s, o)) + 1)
  <2>1. PICK b \in Nat : b = Min(Braces(s, o)) /\ b \in (o + 2)..Len(s) /\ s[b] = Closing
    BY <1>1, <1>5, Positions DEF Sound
  <2>2. \A i \in (o + 2)..(b - 1) : s[i] # Dollar
    BY <1>1, <1>5, <2>1, NameTokens, Signs
  <2>3. ASSUME NEW i \in (o + 1)..b
        PROVE  ~Opens(s, i) /\ Inside(s, i)
    <3>1. i = o + 1 \/ i = b \/ i \in (o + 2)..(b - 1)
      BY <1>1, <2>1
    <3>2. s[i] # Dollar
      BY <1>1, <2>1, <2>2, <3>1, Signs
    <3>3. i \in o..Min(Braces(s, o)) /\ o \in Markers(s, 1) /\ Braces(s, o) # {}
      BY <1>1, <1>2, <1>5, <2>1 DEF Sound
    <3> QED
      BY <3>2, <3>3, OpensIs DEF Inside
  <2>4. ASSUME NEW m \in Markers(s, 1), m < b + 1
        PROVE  m < p \/ m = o
    BY <1>1, <1>2, <2>1, <2>3, <2>4
  <2>5. Outside(s, b + 1)
    <3>1. ASSUME NEW m \in Markers(s, 1), m < b + 1
          PROVE  Braces(s, m) # {} /\ Min(Braces(s, m)) < b + 1
      <4>1. CASE m < p
        BY <1>1, <1>2, <1>3, <2>1, <4>1, SMTT(30) DEF Outside
      <4>2. CASE m = o
        BY <1>5, <2>1, <4>2 DEF Sound
      <4> QED
        BY <2>4, <3>1, <4>1, <4>2
    <3> QED
      BY <3>1 DEF Outside
  <2>6. Markers(s, p) = {o} \cup Markers(s, b + 1)
    <3>1. ASSUME NEW m \in Markers(s, p)
          PROVE  m = o \/ m \in Markers(s, b + 1)
      <4>1. m \in p..Len(s) /\ Opens(s, m) /\ m \in Markers(s, 1)
        BY <1>2 DEF Markers
      <4>2. CASE m < b + 1
        BY <1>1, <2>4, <4>1, <4>2
      <4>3. CASE ~(m < b + 1)
        BY <1>1, <2>1, <4>1, <4>3 DEF Markers
      <4> QED
        BY <4>2, <4>3
    <3>2. ASSUME NEW m \in Markers(s, b + 1)
          PROVE  m \in Markers(s, p)
      BY <1>1, <2>1 DEF Markers
    <3> QED
      BY <3>1, <3>2
  <2> QED
    BY <1>1, <2>1, <2>3, <2>5, <2>6
<1> QED
  BY <1>4, <1>5

-----------------------------------------------------------------------------
(* The executor's scan.                                                    *)

\* One stop of substituteString's scan at p, when f has the results further on.
Expand(s, inputs, f, p) ==
  IF Markers(s, p) = {} THEN {SubSeq(s, p, Len(s))}
  ELSE LET o == Min(Markers(s, p))
           bound == /\ Braces(s, o) # {}
                    /\ isVariableReference(Name(s, o))
                    /\ Name(s, o) \in DOMAIN inputs
       IN {SubSeq(s, p, o - 1) \o inputs[Name(s, o)].text \o rest :
             rest \in IF bound THEN f[Min(Braces(s, o)) + 1] ELSE {}}

\* The scan is a function that stops like this everywhere.
LEMMA ExpandExists ==
  ASSUME NEW T, NEW s \in Seq(T), NEW inputs
  PROVE  \E f : /\ \A p \in 1..(Len(s) + 1) : f[p] = Expand(s, inputs, f, p)
                /\ substituteString(s, inputs) = f[1]
<1> DEFINE M == Len(s) + 1
           o(p) == Min(Markers(s, p))
           stop == [p \in 1..M |-> Markers(s, p) = {}]
           base == [p \in 1..M |-> {SubSeq(s, p, Len(s))}]
           pre == [p \in 1..M |-> SubSeq(s, p, o(p) - 1) \o inputs[Name(s, o(p))].text]
           ok == [p \in 1..M |-> /\ Braces(s, o(p)) # {}
                                 /\ isVariableReference(Name(s, o(p)))
                                 /\ Name(s, o(p)) \in DOMAIN inputs]
           jump == [p \in 1..M |-> Min(Braces(s, o(p))) + 1]
<1>1. M \in Nat /\ Len(s) \in Nat /\ 1 \in 1..M
  OBVIOUS
<1>2. ASSUME NEW p \in 1..M, ~stop[p], ok[p]
      PROVE  jump[p] \in (p + 1)..M
  <2>1. Markers(s, p) # {} /\ Braces(s, o(p)) # {}
    BY <1>2
  <2>2. p \in Nat
    BY <1>1
  <2>3. o(p) \in Markers(s, p)
    BY <2>1, <2>2, Positions, MinIs
  <2>4. o(p) \in p..Len(s) /\ o(p) \in Nat
    BY <1>1, <2>2, <2>3, Positions
  <2>5. Min(Braces(s, o(p))) \in (o(p) + 2)..Len(s)
    BY <2>1, <2>4, Positions
  <2>6. jump[p] = Min(Braces(s, o(p))) + 1
    OBVIOUS
  <2> HIDE DEF jump, o
  <2> QED
    BY <1>1, <2>2, <2>4, <2>5, <2>6
<1>3. \E f : f = [p \in 1..M |->
              IF stop[p] THEN base[p]
              ELSE {pre[p] \o rest : rest \in IF ok[p] THEN f[jump[p]] ELSE {}}]
  <2>1. \A p \in 1..M : ~stop[p] /\ ok[p] => jump[p] \in (p + 1)..M
    <3> HIDE DEF M, stop, ok, jump
    <3> QED
      BY <1>2
  <2> HIDE DEF M, stop, base, pre, ok, jump
  <2>2. HasScan(M, stop, base, pre, ok, jump)
    BY <1>1, <2>1, ScanExists
  <2> QED
    BY <2>2 DEF HasScan
<1>4. ASSUME NEW f, NEW p \in 1..M
      PROVE  (IF stop[p] THEN base[p]
              ELSE {pre[p] \o rest : rest \in IF ok[p] THEN f[jump[p]] ELSE {}})
               = Expand(s, inputs, f, p)
  BY ZenonT(30) DEF Expand
<1>5. \E f : f = [p \in 1..M |-> Expand(s, inputs, f, p)]
  <2> HIDE DEF M, stop, base, pre, ok, jump
  <2>1. PICK f : f = [p \in 1..M |->
              IF stop[p] THEN base[p]
              ELSE {pre[p] \o rest : rest \in IF ok[p] THEN f[jump[p]] ELSE {}}]
    BY <1>3
  <2>2. f = [p \in 1..M |-> Expand(s, inputs, f, p)]
    BY <1>4, <2>1
  <2> QED
    BY <2>2
<1> DEFINE expand == CHOOSE f : f = [p \in 1..M |-> Expand(s, inputs, f, p)]
<1>6. expand = [p \in 1..M |-> Expand(s, inputs, expand, p)]
  <2> HIDE DEF M
  <2> QED
    BY <1>5
<1>7. substituteString(s, inputs) = expand[1]
  BY DEF substituteString, Expand
<1>8. \A p \in 1..M : expand[p] = Expand(s, inputs, expand, p)
  <2> HIDE DEF expand, M
  <2> QED
    BY <1>6
<1> QED
  BY <1>7, <1>8

\* What has to hold of a marker for substituteString to go on.
Bound(s, inputs, o) == Sound(s, o) /\ Name(s, o) \in DOMAIN inputs

LEMMA ExpandableIs ==
  ASSUME NEW s, NEW inputs
  PROVE  Expandable(s, DOMAIN inputs) <=> \A o \in Markers(s, 1) : Bound(s, inputs, o)
BY DEF Expandable, Bound, Sound

\* The shares of an expandable text are texts.
LEMMA Shares ==
  ASSUME NEW T, NEW s \in Seq(T), NEW inputs,
         \A n \in DOMAIN inputs : inputs[n].text \in Seq(T),
         Expandable(s, DOMAIN inputs), NEW i \in 1..Len(s)
  PROVE  Share(s, i, inputs) \in Seq(T)
<1>1. CASE Opens(s, i)
  <2>1. i \in Markers(s, 1)
    BY <1>1 DEF Markers
  <2>2. Name(s, i) \in DOMAIN inputs
    BY <2>1 DEF Expandable
  <2> QED
    BY <1>1, <2>2 DEF Share
<1>2. CASE ~Opens(s, i)
  <2>1. <<>> \in Seq(T) /\ <<s[i]>> \in Seq(T)
    OBVIOUS
  <2> QED
    BY <1>2, <2>1 DEF Share
<1> QED
  BY <1>1, <1>2

\* What the scan yields from p on, compared with the sum of the shares.
Expands(s, inputs, T, f, sum, p) ==
  IF \A o \in Markers(s, p) : Bound(s, inputs, o)
    THEN \E t \in Seq(T) :
           /\ f[p] = {t}
           /\ Expandable(s, DOMAIN inputs) => sum[Len(s)] = sum[p - 1] \o t
    ELSE f[p] = {}

Over(T, t) == t \in Seq(T)
Regrouped(a, b, c, d) == ((a \o b) \o c) \o d = a \o (b \o c \o d)

LEMMA Regroup ==
  ASSUME NEW T, NEW a, NEW b, NEW c, NEW d,
         Over(T, a), Over(T, b), Over(T, c), Over(T, d)
  PROVE  Regrouped(a, b, c, d)
<1>1. a \in Seq(T) /\ b \in Seq(T) /\ c \in Seq(T) /\ d \in Seq(T)
  BY DEF Over
<1>2. a \o b \in Seq(T) /\ b \o c \in Seq(T)
  BY <1>1, ConcatProperties
<1>3. (a \o b) \o c = a \o (b \o c)
  BY <1>1, ConcatAssociative, SMTT(30)
<1>4. (a \o (b \o c)) \o d = a \o ((b \o c) \o d)
  BY <1>1, <1>2, ConcatAssociative, SMTT(30)
<1> QED
  BY <1>3, <1>4 DEF Regrouped

\* One stop of the scan.
LEMMA ExpandStep ==
  ASSUME NEW T, NEW s \in Seq(T), NEW inputs,
         \A n \in DOMAIN inputs : inputs[n].text \in Seq(T),
         NEW f, NEW sum \in [0..Len(s) -> Seq(T)],
         Expandable(s, DOMAIN inputs) =>
           \A i \in 1..Len(s) : sum[i] = sum[i - 1] \o Share(s, i, inputs),
         NEW p \in 1..(Len(s) + 1), Outside(s, p), f[p] = Expand(s, inputs, f, p),
         \A q \in (p + 1)..(Len(s) + 1) : Outside(s, q) => Expands(s, inputs, T, f, sum, q)
  PROVE  Expands(s, inputs, T, f, sum, p)
<1> DEFINE N == Len(s)
           X == Expandable(s, DOMAIN inputs)
<1>1. N \in Nat /\ p \in Nat /\ 1 \in Nat /\ \A i \in 1..N : s[i] \in T
  OBVIOUS
<1>2. \A i \in 0..N : sum[i] \in Seq(T)
  OBVIOUS
<1>3. ASSUME NEW c \in (p - 1)..N, \A i \in p..c : ~Opens(s, i) /\ ~Inside(s, i)
      PROVE  SubSeq(s, p, c) \in Seq(T) /\ (X => sum[c] = sum[p - 1] \o SubSeq(s, p, c))
  <2>1. p - 1 \in 0..N /\ c \in (p - 1)..N /\ (p - 1) + 1 = p /\ c \in Nat
    BY <1>1
  <2>2. SubSeq(s, p, c) \in Seq(T)
    <3>1. \A i \in p..c : s[i] \in T
      BY <1>1, <2>1
    <3> QED
      BY <1>1, <2>1, <3>1, SubSeqProperties
  <2>3. ASSUME X
        PROVE  sum[c] = sum[p - 1] \o SubSeq(s, p, c)
    <3>1. ASSUME NEW i \in ((p - 1) + 1)..c
          PROVE  sum[i] = sum[i - 1] \o <<s[i]>>
      <4>1. i \in 1..N /\ i \in p..c
        BY <1>1, <2>1
      <4>2. Share(s, i, inputs) = <<s[i]>>
        BY <1>3, <4>1 DEF Share
      <4> QED
        BY <2>3, <4>1, <4>2
    <3>2. sum[c] = sum[p - 1] \o SubSeq(s, (p - 1) + 1, c)
      BY <2>1, <3>1, PlainStretch
    <3> QED
      BY <2>1, <3>2
  <2> QED
    BY <2>2, <2>3
<1>4. CASE Markers(s, p) = {}
  <2>1. ASSUME NEW i \in p..N
        PROVE  ~Opens(s, i) /\ ~Inside(s, i)
    <3>1. ~Opens(s, i)
      BY <1>4 DEF Markers
    <3>2. ASSUME NEW m \in Markers(s, 1), Braces(s, m) # {}, i \in m..Min(Braces(s, m))
          PROVE  FALSE
      <4>1. m \in 1..N /\ m \in Nat /\ Opens(s, m)
        BY <1>1, Positions
      <4>2. Min(Braces(s, m)) \in Nat
        BY <1>1, <3>2, <4>1, Positions
      <4>3. m < p
        BY <1>1, <1>4, <4>1 DEF Markers
      <4>4. Min(Braces(s, m)) < p
        BY <4>3 DEF Outside
      <4> QED
        BY <1>1, <3>2, <4>1, <4>2, <4>4
    <3> QED
      BY <3>1, <3>2 DEF Inside
  <2>2. N \in (p - 1)..N
    BY <1>1
  <2>3. SubSeq(s, p, N) \in Seq(T) /\ (X => sum[N] = sum[p - 1] \o SubSeq(s, p, N))
    BY <1>3, <2>1, <2>2
  <2>4. f[p] = {SubSeq(s, p, N)}
    BY <1>4 DEF Expand
  <2> QED
    BY <1>4, <2>3, <2>4 DEF Expands
<1>5. CASE Markers(s, p) # {}
  <2>1. PICK o \in Markers(s, p) : o = Min(Markers(s, p)) /\ \A m \in Markers(s, p) : o <= m
    BY <1>1, <1>5, Positions, MinIs
  <2>2. /\ o \in p..N /\ o \in Nat /\ Opens(s, o) /\ o - 1 \in (p - 1)..N
    BY <1>1, Positions
  <2>3. \A i \in p..(o - 1) : ~Opens(s, i) /\ ~Inside(s, i)
    BY <2>1, Hop
  <2>4. f[p] = {SubSeq(s, p, o - 1) \o inputs[Name(s, o)].text \o rest :
                  rest \in IF Bound(s, inputs, o) THEN f[Min(Braces(s, o)) + 1] ELSE {}}
    BY <1>5, <2>1 DEF Expand, Bound, Sound
  <2>5. CASE ~Bound(s, inputs, o)
    BY <2>4, <2>5 DEF Expands
  <2>6. CASE Bound(s, inputs, o)
    <3>1. PICK b \in Nat : b = Min(Braces(s, o)) /\ b \in (o + 2)..N
      BY <2>2, <2>6, Positions DEF Bound, Sound
    <3>2. /\ \A i \in (o + 1)..b : ~Opens(s, i) /\ Inside(s, i)
          /\ b + 1 \in (p + 1)..(N + 1) /\ Outside(s, b + 1)
          /\ Markers(s, p) = {o} \cup Markers(s, b + 1)
      BY <2>1, <2>6, <3>1, Hop DEF Bound
    <3>3. Expands(s, inputs, T, f, sum, b + 1)
      BY <3>2
    <3>4. PICK pre \in Seq(T) : /\ pre = SubSeq(s, p, o - 1)
                                /\ X => sum[o - 1] = sum[p - 1] \o pre
      BY <1>3, <2>2, <2>3
    <3>5. PICK value \in Seq(T) : value = inputs[Name(s, o)].text
      BY <2>6 DEF Bound
    <3>6. f[p] = {pre \o value \o rest : rest \in f[b + 1]}
      BY <2>4, <2>6, <3>1, <3>4, <3>5
    <3>7. ASSUME X
          PROVE  sum[b] = (sum[p - 1] \o pre) \o value
      <4>1. Share(s, o, inputs) = value
        BY <2>2, <3>5 DEF Share
      <4>2. sum[o] = sum[o - 1] \o value
        <5>1. o \in 1..N
          BY <1>1, <2>2
        <5> QED
          BY <3>7, <4>1, <5>1
      <4>3. sum[b] = sum[o]
        <5>1. ASSUME NEW i \in (o + 1)..b
              PROVE  sum[i] = sum[i - 1] \o <<>>
          <6>1. i \in 1..N
            BY <1>1, <2>2, <3>1
          <6>2. Share(s, i, inputs) = <<>>
            BY <3>2 DEF Share
          <6> QED
            BY <3>7, <6>1, <6>2
        <5>2. o \in 0..N /\ b \in o..N
          BY <1>1, <2>2, <3>1
        <5> QED
          BY <1>1, <5>1, <5>2, QuietStretch
      <4> QED
        BY <3>4, <3>7, <4>2, <4>3
    <3>8. CASE \A m \in Markers(s, b + 1) : Bound(s, inputs, m)
      <4>1. PICK t \in Seq(T) : /\ f[b + 1] = {t}
                                /\ X => sum[N] = sum[(b + 1) - 1] \o t
        BY <3>3, <3>8 DEF Expands
      <4>2. f[p] = {pre \o value \o t}
        BY <3>6, <4>1
      <4>3. pre \o value \o t \in Seq(T)
        BY ConcatProperties
      <4>4. X => sum[N] = sum[p - 1] \o (pre \o value \o t)
        <5>1. (b + 1) - 1 = b
          OBVIOUS
        <5>2. PICK before \in Seq(T) : before = sum[p - 1]
          BY <1>1, <1>2
        <5>3. ((before \o pre) \o value) \o t = before \o (pre \o value \o t)
          <6>1. Over(T, before) /\ Over(T, pre) /\ Over(T, value) /\ Over(T, t)
            BY DEF Over
          <6>2. Regrouped(before, pre, value, t)
            BY <6>1, Regroup
          <6> QED
            BY <6>2 DEF Regrouped
        <5> QED
          BY <3>7, <4>1, <5>1, <5>2, <5>3
      <4>5. \A m \in Markers(s, p) : Bound(s, inputs, m)
        BY <2>6, <3>2, <3>8
      <4> QED
        BY <4>2, <4>3, <4>4, <4>5 DEF Expands
    <3>9. CASE ~\A m \in Markers(s, b + 1) : Bound(s, inputs, m)
      <4>1. f[b + 1] = {}
        BY <3>3, <3>9 DEF Expands
      <4>2. f[p] = {}
        BY <3>6, <4>1
      <4>3. ~\A m \in Markers(s, p) : Bound(s, inputs, m)
        BY <3>2, <3>9
      <4> QED
        BY <4>2, <4>3 DEF Expands
    <3> QED
      BY <3>8, <3>9
  <2> QED
    BY <2>5, <2>6
<1> QED
  BY <1>4, <1>5

\* The executor's scan agrees with the positions of the text.
THEOREM SubstitutionExpands ==
  ASSUME NEW T, NEW s \in Seq(T), NEW inputs,
         \A n \in DOMAIN inputs : inputs[n].text \in Seq(T)
  PROVE  substituteString(s, inputs) =
           IF Expandable(s, DOMAIN inputs) THEN {Expansion(s, inputs)} ELSE {}
<1> DEFINE N == Len(s)
           X == Expandable(s, DOMAIN inputs)
           seqs == [i \in 1..N |-> IF X THEN Share(s, i, inputs) ELSE <<>>]
<1>1. N \in Nat /\ DOMAIN s = 1..N
  OBVIOUS
<1>2. PICK f : /\ \A p \in 1..(N + 1) : f[p] = Expand(s, inputs, f, p)
               /\ substituteString(s, inputs) = f[1]
  BY ExpandExists
<1>3. seqs \in Seq(Seq(T)) /\ Len(seqs) = N
  <2>1. ASSUME NEW i \in 1..N
        PROVE  (IF X THEN Share(s, i, inputs) ELSE <<>>) \in Seq(T)
    BY Shares
  <2> QED
    BY <1>1, <2>1
<1>4. X => Expansion(s, inputs) = FlattenSeq(seqs)
  BY <1>1 DEF Expansion
<1>5. \A i \in 1..N : X => seqs[i] = Share(s, i, inputs)
  OBVIOUS
<1> HIDE DEF seqs
<1>6. PICK sum \in [0..N -> Seq(T)] :
        /\ sum[0] = <<>>
        /\ \A i \in 1..N : sum[i] = sum[i - 1] \o seqs[i]
        /\ FlattenSeq(seqs) = sum[N]
  <2>1. \E sum \in [0..Len(seqs) -> Seq(T)] :
          /\ sum[0] = <<>>
          /\ \A i \in 1..Len(seqs) : sum[i] = sum[i - 1] \o seqs[i]
          /\ FlattenSeq(seqs) = sum[Len(seqs)]
    BY <1>3, Flattened, Zenon
  <2> QED
    BY <1>3, <2>1, Zenon
<1>7. X => \A i \in 1..N : sum[i] = sum[i - 1] \o Share(s, i, inputs)
  BY <1>5, <1>6
<1>8. \A p \in 1..(N + 1) : Outside(s, p) => Expands(s, inputs, T, f, sum, p)
  <2> DEFINE Bad == {p \in 1..(N + 1) : Outside(s, p) /\ ~Expands(s, inputs, T, f, sum, p)}
  <2> SUFFICES ASSUME Bad # {} PROVE FALSE
    OBVIOUS
  <2>1. PICK p \in Bad : \A m \in Bad : m <= p
    <3>1. Bad \subseteq 0..(N + 1) /\ N + 1 \in Nat
      BY <1>1
    <3> HIDE DEF Bad
    <3> QED
      BY <3>1, Greatest
  <2>2. \A q \in (p + 1)..(N + 1) : Outside(s, q) => Expands(s, inputs, T, f, sum, q)
    <3> SUFFICES ASSUME NEW q \in (p + 1)..(N + 1), q \in Bad PROVE FALSE
      BY <1>1
    <3> QED
      BY <1>1, <2>1
  <2>3. p \in 1..(N + 1) /\ Outside(s, p) /\ ~Expands(s, inputs, T, f, sum, p)
    OBVIOUS
  <2>4. f[p] = Expand(s, inputs, f, p)
    BY <1>2, <2>3
  <2> QED
    BY <1>7, <2>2, <2>3, <2>4, ExpandStep
<1>9. Outside(s, 1) /\ 1 \in 1..(N + 1)
  <2>1. \A o \in Markers(s, 1) : ~(o < 1)
    BY <1>1, Positions
  <2> QED
    BY <1>1, <2>1 DEF Outside
<1>10. Expands(s, inputs, T, f, sum, 1)
  BY <1>8, <1>9
<1>11. CASE X
  <2>1. PICK t \in Seq(T) : f[1] = {t} /\ sum[N] = sum[1 - 1] \o t
    BY <1>10, <1>11, ExpandableIs DEF Expands
  <2>2. sum[N] = t
    BY <1>6, <2>1
  <2> QED
    BY <1>2, <1>4, <1>6, <1>11, <2>1, <2>2
<1>12. CASE ~X
  <2>1. f[1] = {}
    BY <1>10, <1>12, ExpandableIs DEF Expands
  <2> QED
    BY <1>2, <1>12, <2>1
<1> QED
  BY <1>11, <1>12

-----------------------------------------------------------------------------
(* The validator's scan.                                                   *)

\* One stop of extractVariableReferences' scan at p.
Extract(value, f, p) ==
  IF Markers(value, p) = {} THEN {<<>>}
  ELSE LET o == Min(Markers(value, p))
           sound == Braces(value, o) # {} /\ isVariableReference(Name(value, o))
       IN {<<Name(value, o)>> \o rest :
             rest \in IF sound THEN f[Min(Braces(value, o)) + 1] ELSE {}}

LEMMA ExtractExists ==
  ASSUME NEW T, NEW s \in Seq(T), ~isVariableReference(s)
  PROVE  \E f : /\ \A p \in 1..(Len(s) + 1) : f[p] = Extract(s, f, p)
                /\ extractVariableReferences(s) = f[1]
<1> DEFINE M == Len(s) + 1
           o(p) == Min(Markers(s, p))
           stop == [p \in 1..M |-> Markers(s, p) = {}]
           base == [p \in 1..M |-> {<<>>}]
           pre == [p \in 1..M |-> <<Name(s, o(p))>>]
           ok == [p \in 1..M |-> /\ Braces(s, o(p)) # {}
                                 /\ isVariableReference(Name(s, o(p)))]
           jump == [p \in 1..M |-> Min(Braces(s, o(p))) + 1]
<1>1. M \in Nat /\ Len(s) \in Nat /\ 1 \in 1..M
  OBVIOUS
<1>2. ASSUME NEW p \in 1..M, ~stop[p], ok[p]
      PROVE  jump[p] \in (p + 1)..M
  <2>1. Markers(s, p) # {} /\ Braces(s, o(p)) # {}
    BY <1>2
  <2>2. p \in Nat
    BY <1>1
  <2>3. o(p) \in Markers(s, p)
    BY <2>1, <2>2, Positions, MinIs
  <2>4. o(p) \in p..Len(s) /\ o(p) \in Nat
    BY <1>1, <2>2, <2>3, Positions
  <2>5. Min(Braces(s, o(p))) \in (o(p) + 2)..Len(s)
    BY <2>1, <2>4, Positions
  <2>6. jump[p] = Min(Braces(s, o(p))) + 1
    OBVIOUS
  <2> HIDE DEF jump, o
  <2> QED
    BY <1>1, <2>2, <2>4, <2>5, <2>6
<1>3. \E f : f = [p \in 1..M |->
              IF stop[p] THEN base[p]
              ELSE {pre[p] \o rest : rest \in IF ok[p] THEN f[jump[p]] ELSE {}}]
  <2>1. \A p \in 1..M : ~stop[p] /\ ok[p] => jump[p] \in (p + 1)..M
    <3> HIDE DEF M, stop, ok, jump
    <3> QED
      BY <1>2
  <2> HIDE DEF M, stop, base, pre, ok, jump
  <2>2. HasScan(M, stop, base, pre, ok, jump)
    BY <1>1, <2>1, ScanExists
  <2> QED
    BY <2>2 DEF HasScan
<1>4. ASSUME NEW f, NEW p \in 1..M
      PROVE  (IF stop[p] THEN base[p]
              ELSE {pre[p] \o rest : rest \in IF ok[p] THEN f[jump[p]] ELSE {}})
               = Extract(s, f, p)
  BY ZenonT(30) DEF Extract
<1>5. \E f : f = [p \in 1..M |-> Extract(s, f, p)]
  <2> HIDE DEF M, stop, base, pre, ok, jump
  <2>1. PICK f : f = [p \in 1..M |->
              IF stop[p] THEN base[p]
              ELSE {pre[p] \o rest : rest \in IF ok[p] THEN f[jump[p]] ELSE {}}]
    BY <1>3
  <2>2. f = [p \in 1..M |-> Extract(s, f, p)]
    BY <1>4, <2>1
  <2> QED
    BY <2>2
<1> DEFINE extract == CHOOSE f : f = [p \in 1..M |-> Extract(s, f, p)]
<1>6. extract = [p \in 1..M |-> Extract(s, extract, p)]
  <2> HIDE DEF M
  <2> QED
    BY <1>5
<1>7. extractVariableReferences(s) = extract[1]
  BY DEF extractVariableReferences, Extract
<1>8. \A p \in 1..M : extract[p] = Extract(s, extract, p)
  <2> HIDE DEF extract, M
  <2> QED
    BY <1>6
<1> QED
  BY <1>7, <1>8

\* What a sequence holds.
LEMMA Holds ==
  ASSUME NEW U, NEW n \in U, NEW r \in Seq(U)
  PROVE  /\ <<n>> \o r \in Seq(U)
         /\ ToSet(<<n>> \o r) = {n} \cup ToSet(r)
         /\ ToSet(<<>>) = {}
<1> DEFINE q == <<n>> \o r
<1>1. /\ q \in Seq(U) /\ Len(q) = Len(r) + 1 /\ q[1] = n
      /\ \A i \in 1..Len(r) : q[i + 1] = r[i]
      /\ DOMAIN q = 1..Len(q) /\ DOMAIN r = 1..Len(r) /\ Len(r) \in Nat
  OBVIOUS
<1>2. DOMAIN <<>> = {}
  OBVIOUS
<1> HIDE DEF q
<1>3. ASSUME NEW i \in 1..Len(q)
      PROVE  q[i] = n \/ \E j \in 1..Len(r) : q[i] = r[j]
  <2>1. CASE i = 1
    BY <1>1, <2>1
  <2>2. CASE i # 1
    <3>1. i - 1 \in 1..Len(r) /\ (i - 1) + 1 = i
      BY <1>1, <2>2
    <3> QED
      BY <1>1, <3>1
  <2> QED
    BY <2>1, <2>2
<1>4. 1 \in 1..Len(q) /\ \A j \in 1..Len(r) : j + 1 \in 1..Len(q)
  BY <1>1
<1>5. ToSet(q) = {n} \cup ToSet(r)
  <2>1. ToSet(q) = {q[i] : i \in 1..Len(q)} /\ ToSet(r) = {r[j] : j \in 1..Len(r)}
    BY <1>1, Zenon DEF ToSet
  <2>2. \A x \in ToSet(q) : x \in {n} \cup ToSet(r)
    BY <1>3, <2>1
  <2>3. n \in ToSet(q)
    BY <1>1, <1>4, <2>1
  <2>4. \A j \in 1..Len(r) : r[j] \in ToSet(q)
    <3> SUFFICES ASSUME NEW j \in 1..Len(r) PROVE r[j] \in ToSet(q)
      OBVIOUS
    <3>1. r[j] = q[j + 1] /\ j + 1 \in 1..Len(q)
      BY <1>1, <1>4
    <3> QED
      BY <2>1, <3>1
  <2> QED
    BY <2>1, <2>2, <2>3, <2>4
<1> QED
  BY <1>1, <1>2, <1>5 DEF q, ToSet

\* The name of a sound reference is a text over the tokens of the text.
LEMMA NameIs ==
  ASSUME NEW T, NEW s \in Seq(T), NEW o \in Nat, Sound(s, o)
  PROVE  Name(s, o) \in Seq(T)
<1>1. PICK b \in Nat : b = Min(Braces(s, o)) /\ b \in (o + 2)..Len(s)
  BY Positions DEF Sound
<1>2. \A i \in (o + 2)..(b - 1) : s[i] \in T
  BY <1>1
<1> QED
  BY <1>1, <1>2, SubSeqProperties DEF Name

\* What the scan yields from p on, compared with the markers from there.
Extracts(s, T, f, p) ==
  IF \A o \in Markers(s, p) : Sound(s, o)
    THEN \E r \in Seq(Seq(T)) : f[p] = {r} /\ ToSet(r) = {Name(s, o) : o \in Markers(s, p)}
    ELSE f[p] = {}

LEMMA ExtractStep ==
  ASSUME NEW T, NEW s \in Seq(T), NEW f,
         NEW p \in 1..(Len(s) + 1), Outside(s, p), f[p] = Extract(s, f, p),
         \A q \in (p + 1)..(Len(s) + 1) : Outside(s, q) => Extracts(s, T, f, q)
  PROVE  Extracts(s, T, f, p)
<1> DEFINE N == Len(s)
<1>1. N \in Nat /\ p \in Nat
  OBVIOUS
<1>2. CASE Markers(s, p) = {}
  <2>1. f[p] = {<<>>}
    BY <1>2 DEF Extract
  <2>2. <<>> \in Seq(Seq(T)) /\ ToSet(<<>>) = {}
    BY DEF ToSet
  <2>3. ToSet(<<>>) = {Name(s, o) : o \in Markers(s, p)}
    BY <1>2, <2>2
  <2> QED
    BY <1>2, <2>1, <2>2, <2>3 DEF Extracts
<1>3. CASE Markers(s, p) # {}
  <2>1. PICK o \in Markers(s, p) : o = Min(Markers(s, p)) /\ \A m \in Markers(s, p) : o <= m
    BY <1>1, <1>3, Positions, MinIs
  <2>2. o \in p..N /\ o \in Nat
    BY <1>1, Positions
  <2>3. f[p] = {<<Name(s, o)>> \o rest :
                  rest \in IF Sound(s, o) THEN f[Min(Braces(s, o)) + 1] ELSE {}}
    BY <1>3, <2>1 DEF Extract, Sound
  <2>4. CASE ~Sound(s, o)
    BY <2>3, <2>4 DEF Extracts
  <2>5. CASE Sound(s, o)
    <3>1. PICK b \in Nat : b = Min(Braces(s, o)) /\ b \in (o + 2)..N
      BY <2>2, <2>5, Positions DEF Sound
    <3>2. /\ b + 1 \in (p + 1)..(N + 1) /\ Outside(s, b + 1)
          /\ Markers(s, p) = {o} \cup Markers(s, b + 1)
      BY <2>1, <2>5, <3>1, Hop
    <3>3. Extracts(s, T, f, b + 1)
      BY <3>2
    <3>4. PICK n \in Seq(T) : n = Name(s, o)
      BY <2>2, <2>5, NameIs
    <3>5. f[p] = {<<n>> \o rest : rest \in f[b + 1]}
      BY <2>3, <2>5, <3>1, <3>4
    <3>6. CASE \A m \in Markers(s, b + 1) : Sound(s, m)
      <4>1. PICK r \in Seq(Seq(T)) : /\ f[b + 1] = {r}
                                     /\ ToSet(r) = {Name(s, m) : m \in Markers(s, b + 1)}
        BY <3>3, <3>6 DEF Extracts
      <4>2. f[p] = {<<n>> \o r}
        BY <3>5, <4>1
      <4>3. <<n>> \o r \in Seq(Seq(T)) /\ ToSet(<<n>> \o r) = {n} \cup ToSet(r)
        BY Holds
      <4>4. ToSet(<<n>> \o r) = {Name(s, m) : m \in Markers(s, p)}
        BY <3>2, <3>4, <4>1, <4>3
      <4>5. \A m \in Markers(s, p) : Sound(s, m)
        BY <2>5, <3>2, <3>6
      <4> QED
        BY <4>2, <4>3, <4>4, <4>5 DEF Extracts
    <3>7. CASE ~\A m \in Markers(s, b + 1) : Sound(s, m)
      <4>1. f[b + 1] = {}
        BY <3>3, <3>7 DEF Extracts
      <4>2. f[p] = {}
        BY <3>5, <4>1
      <4>3. ~\A m \in Markers(s, p) : Sound(s, m)
        BY <3>2, <3>7
      <4> QED
        BY <4>2, <4>3 DEF Extracts
    <3> QED
      BY <3>6, <3>7
  <2> QED
    BY <2>4, <2>5
<1> QED
  BY <1>2, <1>3

\* A text with a marker is no identifier, and what the validator takes from it
\* are the names of all its references, or nothing when one of them is unsound.
THEOREM ReferencesFound ==
  ASSUME NEW T, NEW s \in Seq(T), Markers(s, 1) # {}
  PROVE  IF \A o \in Markers(s, 1) : Sound(s, o)
           THEN \E r \in Seq(Seq(T)) : /\ extractVariableReferences(s) = {r}
                                       /\ ToSet(r) = {Name(s, o) : o \in Markers(s, 1)}
           ELSE extractVariableReferences(s) = {}
<1> DEFINE N == Len(s)
<1>1. N \in Nat /\ DOMAIN s = 1..N
  OBVIOUS
<1>2. ~isVariableReference(s)
  <2>1. PICK o \in Markers(s, 1) : o \in 1..N /\ s[o] = Dollar
    BY <1>1, Positions
  <2>2. s[o] \notin Letter \cup Digit
    BY <2>1, Signs
  <2> QED
    BY <1>1, <2>1, <2>2 DEF isVariableReference
<1>3. PICK f : /\ \A p \in 1..(N + 1) : f[p] = Extract(s, f, p)
               /\ extractVariableReferences(s) = f[1]
  BY <1>2, ExtractExists
<1>4. \A p \in 1..(N + 1) : Outside(s, p) => Extracts(s, T, f, p)
  <2> DEFINE Bad == {p \in 1..(N + 1) : Outside(s, p) /\ ~Extracts(s, T, f, p)}
  <2> SUFFICES ASSUME Bad # {} PROVE FALSE
    OBVIOUS
  <2>1. PICK p \in Bad : \A m \in Bad : m <= p
    <3>1. Bad \subseteq 0..(N + 1) /\ N + 1 \in Nat
      BY <1>1
    <3> HIDE DEF Bad
    <3> QED
      BY <3>1, Greatest
  <2>2. \A q \in (p + 1)..(N + 1) : Outside(s, q) => Extracts(s, T, f, q)
    <3> SUFFICES ASSUME NEW q \in (p + 1)..(N + 1), q \in Bad PROVE FALSE
      BY <1>1
    <3> QED
      BY <1>1, <2>1
  <2>3. p \in 1..(N + 1) /\ Outside(s, p) /\ ~Extracts(s, T, f, p)
    OBVIOUS
  <2>4. f[p] = Extract(s, f, p)
    BY <1>3, <2>3
  <2> QED
    BY <2>2, <2>3, <2>4, ExtractStep
<1>5. Outside(s, 1) /\ 1 \in 1..(N + 1)
  <2>1. \A o \in Markers(s, 1) : ~(o < 1)
    BY <1>1, Positions
  <2> QED
    BY <1>1, <2>1 DEF Outside
<1>6. Extracts(s, T, f, 1)
  BY <1>4, <1>5
<1> QED
  BY <1>3, <1>6 DEF Extracts
=============================================================================
