---------------------------- MODULE Paths_proofs ----------------------------
(***************************************************************************)
(* Proofs about module Paths: what cleaning, splitting and relating paths  *)
(* computes, for texts of any length.                                      *)
(*                                                                         *)
(* The operators are folds, and the first part says what a fold is by its  *)
(* values at positions; every later lemma takes the least or the greatest  *)
(* position at which something holds.  Split and Join are inverse on names *)
(* without a separator, Walk leaves alone what is clean, and Rel undoes    *)
(* the joining of a path to a directory above it.  Together they say which *)
(* location the text of a location reaches, and what a scope admits.       *)
(***************************************************************************)
EXTENDS Paths, Template_proofs

-----------------------------------------------------------------------------
(* Sequences.                                                              *)

\* Concatenation is associative.
Assoc(a, b, c) == (a \o b) \o c = a \o (b \o c)

LEMMA AssocIs ==
  ASSUME NEW S, NEW a \in Seq(S), NEW b \in Seq(S), NEW c \in Seq(S)
  PROVE  Assoc(a, b, c)
BY ConcatAssociative DEF Assoc

\* A sequence is one over whatever holds its elements.
LEMMA Narrow ==
  ASSUME NEW S, NEW N, NEW q \in Seq(S), \A i \in 1..Len(q) : q[i] \in N
  PROVE  q \in Seq(N)
<1> DEFINE n == Len(q)
           D == {[1..k -> N] : k \in Nat}
<1>1. n \in Nat /\ q \in [1..n -> S] /\ \A i \in 1..n : q[i] \in N
  BY LenProperties
<1>2. \A d : q \in [d -> S] /\ (\A i \in d : q[i] \in N) => q \in [d -> N]
  OBVIOUS
<1> HIDE DEF n
<1>3. q \in [1..n -> N] /\ [1..n -> N] \in D
  BY <1>1, <1>2, Zenon
<1>4. \A F \in D : q \in F => q \in UNION D
  BY Zenon
<1>5. q \in UNION D
  BY <1>3, <1>4, Zenon
<1> QED
  BY <1>5, SeqDef, Zenon

-----------------------------------------------------------------------------
(* Folds.                                                                  *)

LEMMA MaxIs ==
  ASSUME NEW M \in Nat, NEW S, S \subseteq 0..M, S # {}
  PROVE  Max(S) \in S /\ \A m \in S : m <= Max(S)
<1>1. \E n \in S : \A m \in S : n >= m
  <2>1. PICK n \in S : \A m \in S : m <= n
    BY Greatest
  <2> QED
    BY <2>1
<1> QED
  BY <1>1 DEF Max

\* The last of the first i positions is i.
LEMMA LastOf ==
  ASSUME NEW i \in Nat \ {0}
  PROVE  Max(1..i) = i /\ (1..i) \ {i} = 1..(i - 1) /\ 1..i # {}
<1>1. 1..i \subseteq 0..i /\ i \in 1..i
  OBVIOUS
<1>2. PICK m \in 1..i : m = Max(1..i) /\ i <= m
  BY <1>1, MaxIs
<1>3. m = i
  BY <1>2
<1> QED
  BY <1>1, <1>2, <1>3

\* A fold of a sequence takes its elements by their positions, the last one
\* last; step[i] is what the element at position i does.
HasFold(n, A, base, step) ==
  \E f \in [SUBSET (1..n) -> A] : f = [s \in SUBSET (1..n) |->
                IF s = {} THEN base ELSE step[Max(s)][f[s \ {Max(s)}]]]

LEMMA Longer ==
  ASSUME NEW n \in Nat, NEW A, NEW base \in A, NEW step,
         \A i \in 1..(n + 1) : \A a \in A : step[i][a] \in A,
         HasFold(n, A, base, step)
  PROVE  HasFold(n + 1, A, base, step)
<1> DEFINE Body(f, s) == IF s = {} THEN base ELSE step[Max(s)][f[s \ {Max(s)}]]
<1>1. PICK f \in [SUBSET (1..n) -> A] : f = [s \in SUBSET (1..n) |-> Body(f, s)]
  BY DEF HasFold
<1> DEFINE g == [s \in SUBSET (1..(n + 1)) |-> IF n + 1 \in s THEN step[n + 1][f[s \ {n + 1}]] ELSE f[s]]
<1>2. \A s \in SUBSET (1..n) : n + 1 \notin s /\ s \in SUBSET (1..(n + 1)) /\ g[s] = f[s]
  <2>1. 1..n \subseteq 1..(n + 1) /\ n + 1 \notin 1..n
    OBVIOUS
  <2> QED
    BY <2>1
<1>3. \A s \in SUBSET (1..(n + 1)) : n + 1 \in s => s \ {n + 1} \in SUBSET (1..n)
  <2>1. \A i \in 1..(n + 1) : i # n + 1 => i \in 1..n
    OBVIOUS
  <2> QED
    BY <2>1
<1>4. \A s \in SUBSET (1..(n + 1)) : n + 1 \notin s => s \in SUBSET (1..n)
  <2>1. \A i \in 1..(n + 1) : i # n + 1 => i \in 1..n
    OBVIOUS
  <2> QED
    BY <2>1
<1>5. ASSUME NEW s \in SUBSET (1..(n + 1))
      PROVE  g[s] = Body(g, s)
  <2>1. CASE n + 1 \in s
    <3>1. Max(s) = n + 1
      <4>1. s \subseteq 0..(n + 1) /\ s # {} /\ n + 1 \in Nat
        BY <2>1
      <4>2. PICK m \in s : m = Max(s) /\ n + 1 <= m
        BY <2>1, <4>1, MaxIs
      <4> QED
        BY <4>2
    <3>2. g[s] = step[n + 1][f[s \ {n + 1}]]
      BY <2>1
    <3>3. g[s \ {n + 1}] = f[s \ {n + 1}]
      BY <1>2, <1>3, <2>1
    <3>4. s # {}
      BY <2>1
    <3> HIDE DEF g
    <3> QED
      BY <3>1, <3>2, <3>3, <3>4
  <2>2. CASE n + 1 \notin s
    <3>1. s \in SUBSET (1..n) /\ g[s] = f[s]
      BY <1>2, <1>4, <2>2
    <3>2. f[s] = Body(f, s)
      <4> HIDE DEF Body
      <4> QED
        BY <1>1, <3>1
    <3>3. s \ {Max(s)} \in SUBSET (1..n)
      BY <3>1
    <3>4. g[s \ {Max(s)}] = f[s \ {Max(s)}]
      BY <1>2, <3>3
    <3> HIDE DEF g
    <3> QED
      BY <3>1, <3>2, <3>4
  <2> QED
    BY <2>1, <2>2
<1>6. g = [s \in SUBSET (1..(n + 1)) |-> Body(g, s)]
  <2>1. g = [s \in SUBSET (1..(n + 1)) |-> g[s]]
    OBVIOUS
  <2> HIDE DEF Body, g
  <2> QED
    BY <1>5, <2>1
<1>7. g \in [SUBSET (1..(n + 1)) -> A]
  <2>1. \A s \in SUBSET (1..n) : f[s] \in A
    BY <1>1
  <2>2. n + 1 \in 1..(n + 1)
    OBVIOUS
  <2>3. \A s \in SUBSET (1..(n + 1)) :
          (IF n + 1 \in s THEN step[n + 1][f[s \ {n + 1}]] ELSE f[s]) \in A
    BY <1>3, <1>4, <2>1, <2>2
  <2> QED
    BY <2>3
<1> QED
  BY <1>6, <1>7 DEF HasFold

LEMMA FoldExists ==
  ASSUME NEW n \in Nat, NEW A, NEW base \in A, NEW step,
         \A i \in 1..n : \A a \in A : step[i][a] \in A
  PROVE  HasFold(n, A, base, step)
<1> DEFINE Bad == {m \in 0..n : ~HasFold(m, A, base, step)}
<1>1. HasFold(0, A, base, step)
  <2> DEFINE f == [s \in SUBSET (1..0) |-> base]
  <2>1. \A s \in SUBSET (1..0) : s = {}
    OBVIOUS
  <2>2. f = [s \in SUBSET (1..0) |-> IF s = {} THEN base ELSE step[Max(s)][f[s \ {Max(s)}]]]
    BY <2>1
  <2>3. f \in [SUBSET (1..0) -> A]
    OBVIOUS
  <2> QED
    BY <2>2, <2>3 DEF HasFold
<1>2. SUFFICES ASSUME Bad # {}
               PROVE  FALSE
  OBVIOUS
<1>3. Bad \subseteq Nat
  OBVIOUS
<1>4. PICK m \in Bad : \A k \in Bad : m <= k
  <2> HIDE DEF Bad
  <2> QED
    BY <1>2, <1>3, Least
<1>5. m \in 0..n /\ ~HasFold(m, A, base, step) /\ m # 0
  BY <1>1
<1>6. m - 1 \in Nat /\ m - 1 \in 0..n /\ (m - 1) + 1 = m /\ ~(m <= m - 1)
  BY <1>5
<1>7. HasFold(m - 1, A, base, step)
  BY <1>4, <1>6
<1>9. \A i \in 1..((m - 1) + 1) : i \in 1..n
  BY <1>5
<1>8. HasFold((m - 1) + 1, A, base, step)
  BY <1>6, <1>7, <1>9, Longer
<1> QED
  BY <1>5, <1>6, <1>8

\* Induction over the positions of a sequence.
LEMMA Upward ==
  ASSUME NEW n \in Nat, NEW S, 0 \in S, \A i \in 1..n : i - 1 \in S => i \in S
  PROVE  \A i \in 0..n : i \in S
<1> DEFINE Bad == {i \in 0..n : i \notin S}
<1>1. SUFFICES ASSUME Bad # {}
               PROVE  FALSE
  OBVIOUS
<1>2. Bad \subseteq Nat
  OBVIOUS
<1>3. PICK m \in Bad : \A k \in Bad : m <= k
  <2> HIDE DEF Bad
  <2> QED
    BY <1>1, <1>2, Least
<1>4. m \in 1..n /\ m - 1 \in 0..n /\ ~(m <= m - 1)
  OBVIOUS
<1> QED
  BY <1>3, <1>4

\* What holds of the base and is kept by every step holds of all results.
LEMMA Steady ==
  ASSUME NEW n \in Nat, NEW A, NEW at, at[0] \in A,
         \A i \in 1..n : at[i - 1] \in A => at[i] \in A
  PROVE  \A i \in 0..n : at[i] \in A
<1> DEFINE S == {i \in 0..n : at[i] \in A}
<1>1. 0 \in S /\ \A i \in 1..n : i - 1 \in S => i \in S
  OBVIOUS
<1> HIDE DEF S
<1>2. \A i \in 0..n : i \in S
  BY <1>1, Upward
<1> QED
  BY <1>2 DEF S

-----------------------------------------------------------------------------
(* Trimming.                                                               *)

LEMMA StretchIs ==
  ASSUME NEW T, NEW t \in Seq(T), NEW a \in Nat \ {0}, NEW b \in Nat, b <= Len(t)
  PROVE  SubSeq(t, a, b) \in Seq(T)
<1>1. \A i \in a..b : t[i] \in T
  OBVIOUS
<1> QED
  BY <1>1, SubSeqProperties

\* Trimming a text leaves a text.
LEMMA TrimIs ==
  ASSUME NEW T, NEW t \in Seq(T)
  PROVE  TrimSpace(t) \in Seq(T)
<1> DEFINE inked(i) == t[i] # " "
           ink == {i \in DOMAIN t : inked(i)}
<1>1. ink \subseteq 1..Len(t)
  <2> HIDE DEF inked
  <2> QED
    OBVIOUS
<1>2. TrimSpace(t) = IF ink = {} THEN <<>> ELSE SubSeq(t, Min(ink), Max(ink))
  BY Zenon DEF TrimSpace
<1> HIDE DEF ink
<1>3. ASSUME ink # {}
      PROVE  SubSeq(t, Min(ink), Max(ink)) \in Seq(T)
  <2>1. Len(t) \in Nat /\ ink \subseteq 0..Len(t) /\ ink \subseteq Nat
    BY <1>1
  <2>2. PICK a \in ink : a = Min(ink)
    BY <1>3, <2>1, MinIs
  <2>3. PICK b \in ink : b = Max(ink)
    BY <1>3, <2>1, MaxIs
  <2>4. a \in Nat \ {0} /\ b \in Nat /\ b <= Len(t)
    BY <1>1, <2>1
  <2> QED
    BY <2>2, <2>3, <2>4, StretchIs
<1>4. <<>> \in Seq(T)
  OBVIOUS
<1> QED
  BY <1>2, <1>3, <1>4

-----------------------------------------------------------------------------
(* Splitting.                                                              *)

\* What the next token does to the parts found so far.
Cut(parts, k, sign) ==
  IF k = sign THEN Append(parts, <<>>) ELSE Append(Front(parts), Append(Last(parts), k))

LEMMA CutIs ==
  ASSUME NEW T, NEW sign, NEW parts \in Seq(Seq(T \ {sign})), parts # <<>>, NEW k \in T
  PROVE  Cut(parts, k, sign) \in Seq(Seq(T \ {sign})) /\ Cut(parts, k, sign) # <<>>
<1> DEFINE P == Seq(T \ {sign})
<1>1. Len(parts) \in Nat \ {0} /\ \A i \in 1..Len(parts) : parts[i] \in P
  OBVIOUS
<1>7. \A p \in P, x \in T \ {sign} : Append(p, x) \in P
  BY AppendProperties
<1>5. <<>> \in P
  OBVIOUS
<1> HIDE DEF P
<1>2. Front(parts) \in Seq(P)
  <2>1. \A i \in 1..(Len(parts) - 1) : parts[i] \in P
    BY <1>1
  <2>2. 1 \in Int /\ Len(parts) - 1 \in Int
    BY <1>1
  <2> QED
    BY <2>1, <2>2, SubSeqProperties DEF Front
<1>3. Last(parts) \in P
  BY <1>1 DEF Last
<1>4. k # sign => Append(Last(parts), k) \in P
  BY <1>3, <1>7
<1>6. \A p \in Seq(P), x \in P : Append(p, x) \in Seq(P) /\ Append(p, x) # <<>>
  BY AppendProperties
<1>8. parts \in Seq(P)
  BY DEF P
<1>9. Cut(parts, k, sign) \in Seq(P) /\ Cut(parts, k, sign) # <<>>
  BY <1>2, <1>4, <1>5, <1>6, <1>8 DEF Cut
<1> QED
  BY <1>9 DEF P

HasSplit(T, t, sign, w) ==
  \E cut \in [0..Len(t) -> Seq(Seq(T \ {sign})) \ {<<>>}] :
    /\ cut[0] = << <<>> >>
    /\ \A i \in 1..Len(t) : cut[i] = Cut(cut[i - 1], t[i], sign)
    /\ w = cut[Len(t)]

LEMMA Splitted ==
  ASSUME NEW T, NEW t \in Seq(T), NEW sign
  PROVE  HasSplit(T, t, sign, Split(t, sign))
<1> DEFINE n == Len(t)
           A == Seq(Seq(T \ {sign})) \ {<<>>}
           Body(f, s) == IF s = {} THEN << <<>> >> ELSE Cut(f[s \ {Max(s)}], t[Max(s)], sign)
           iter == CHOOSE f : f = [s \in SUBSET DOMAIN t |-> Body(f, s)]
           step == [i \in 1..n |-> [a \in A |-> Cut(a, t[i], sign)]]
           cut == [i \in 0..n |-> iter[1..i]]
<1>1. n \in Nat /\ DOMAIN t = 1..n /\ \A i \in 1..n : t[i] \in T
  OBVIOUS
<1>2. Split(t, sign) = iter[DOMAIN t]
  BY Zenon DEF Split, FoldLeft, MapThenFoldSet, Cut
<1> HIDE DEF n
<1>3. << <<>> >> \in A
  OBVIOUS
<1>4. \A i \in 1..n : \A a \in A : Cut(a, t[i], sign) \in A
  BY <1>1, CutIs
<1>5. \A i \in 1..n : \A a \in A : step[i][a] = Cut(a, t[i], sign)
  OBVIOUS
<1> HIDE DEF A, step
<1>6. HasFold(n, A, << <<>> >>, step)
  BY <1>1, <1>3, <1>4, <1>5, FoldExists
<1>7. PICK f \in [SUBSET (1..n) -> A] :
        f = [s \in SUBSET (1..n) |-> IF s = {} THEN << <<>> >> ELSE step[Max(s)][f[s \ {Max(s)}]]]
  BY <1>6 DEF HasFold
<1>8. ASSUME NEW s \in SUBSET (1..n)
      PROVE  f[s] = Body(f, s)
  <2>1. f[s] = IF s = {} THEN << <<>> >> ELSE step[Max(s)][f[s \ {Max(s)}]]
    BY <1>7
  <2>2. s # {} => Max(s) \in 1..n /\ f[s \ {Max(s)}] \in A
    <3>1. s \subseteq 0..n
      BY <1>1
    <3>2. s # {} => Max(s) \in s
      BY <1>1, <3>1, MaxIs
    <3> QED
      BY <3>2
  <2> QED
    BY <1>5, <2>1, <2>2
<1>9. f = [s \in SUBSET (1..n) |-> Body(f, s)]
  <2>1. f = [s \in SUBSET (1..n) |-> f[s]]
    BY <1>7
  <2> HIDE DEF Body
  <2> QED
    BY <1>8, <2>1
<1>10. iter = [s \in SUBSET (1..n) |-> Body(iter, s)]
  <2>1. SUBSET DOMAIN t = SUBSET (1..n)
    BY <1>1
  <2> HIDE DEF Body
  <2> QED
    BY <1>9, <2>1
<1> HIDE DEF iter
<1>11. \A i \in 0..n : cut[i] = iter[1..i]
  OBVIOUS
<1>12. cut[0] = << <<>> >>
  <2>1. 1..0 = {} /\ 0 \in 0..n /\ {} \in SUBSET (1..n)
    BY <1>1
  <2>2. iter[{}] = Body(iter, {})
    <3> HIDE DEF Body
    <3> QED
      BY <1>10, <2>1
  <2> QED
    BY <1>11, <2>1, <2>2
<1>13. ASSUME NEW i \in 1..n
       PROVE  cut[i] = Cut(cut[i - 1], t[i], sign)
  <2>5. i \in Nat \ {0} /\ i \in 0..n /\ i - 1 \in 0..n
    BY <1>1
  <2>1. Max(1..i) = i /\ (1..i) \ {i} = 1..(i - 1) /\ 1..i # {}
    BY <2>5, LastOf
  <2>2. 1..i \in SUBSET (1..n)
    BY <1>1
  <2>3. iter[1..i] = Body(iter, 1..i)
    <3> HIDE DEF Body
    <3> QED
      BY <1>10, <2>2
  <2>4. cut[i] = iter[1..i] /\ cut[i - 1] = iter[1..(i - 1)]
    BY <1>11, <2>5
  <2> HIDE DEF cut
  <2> QED
    BY <2>1, <2>3, <2>4, <2>5
<1>14. cut = [i \in 0..n |-> cut[i]]
  OBVIOUS
<1>15. Split(t, sign) = cut[n]
  BY <1>1, <1>2, <1>11
<1> HIDE DEF cut
<1>16. \A i \in 0..n : cut[i] \in A
  <2>1. \A i \in 1..n : cut[i - 1] \in A => cut[i] \in A
    BY <1>4, <1>13
  <2> QED
    BY <1>1, <1>3, <1>12, <2>1, Steady
<1> QED
  BY <1>12, <1>13, <1>14, <1>15, <1>16 DEF n, A, HasSplit

LEMMA SplitIs ==
  ASSUME NEW T, NEW t \in Seq(T), NEW sign
  PROVE  Split(t, sign) \in Seq(Seq(T \ {sign})) /\ Split(t, sign) # <<>>
<1>1. PICK cut \in [0..Len(t) -> Seq(Seq(T \ {sign})) \ {<<>>}] :
        /\ cut[0] = << <<>> >>
        /\ \A i \in 1..Len(t) : cut[i] = Cut(cut[i - 1], t[i], sign)
        /\ Split(t, sign) = cut[Len(t)]
  <2>1. HasSplit(T, t, sign, Split(t, sign))
    BY Splitted, Zenon
  <2> QED
    BY <2>1, Zenon DEF HasSplit
<1>2. Len(t) \in 0..Len(t)
  OBVIOUS
<1> QED
  BY <1>1, <1>2

\* A text without the sign is one part.
LEMMA SplitPlain ==
  ASSUME NEW T, NEW t \in Seq(T), NEW sign, sign \notin T
  PROVE  Split(t, sign) = <<t>>
<1> DEFINE n == Len(t)
<1>1. PICK cut \in [0..n -> Seq(Seq(T \ {sign})) \ {<<>>}] :
        /\ cut[0] = << <<>> >>
        /\ \A i \in 1..n : cut[i] = Cut(cut[i - 1], t[i], sign)
        /\ Split(t, sign) = cut[n]
  <2>1. HasSplit(T, t, sign, Split(t, sign))
    BY Splitted, Zenon
  <2> QED
    BY <2>1, Zenon DEF HasSplit
<1> DEFINE S == {i \in 0..n : cut[i] = <<SubSeq(t, 1, i)>>}
<1>2. n \in Nat
  OBVIOUS
<1>3. 0 \in S
  <2>1. SubSeq(t, 1, 0) = <<>>
    OBVIOUS
  <2> QED
    BY <1>1, <1>2, <2>1
<1>4. ASSUME NEW i \in 1..n, i - 1 \in S
      PROVE  i \in S
  <2>1. cut[i - 1] = <<SubSeq(t, 1, i - 1)>>
    BY <1>4
  <2>2. t[i] # sign
    OBVIOUS
  <2>3. Append(SubSeq(t, 1, i - 1), t[i]) = SubSeq(t, 1, i)
    OBVIOUS
  <2>4. Front(<<SubSeq(t, 1, i - 1)>>) = <<>> /\ Last(<<SubSeq(t, 1, i - 1)>>) = SubSeq(t, 1, i - 1)
    BY DEF Front, Last
  <2>5. cut[i] = Append(<<>>, SubSeq(t, 1, i))
    BY <1>1, <2>1, <2>2, <2>3, <2>4 DEF Cut
  <2>6. cut[i] = <<SubSeq(t, 1, i)>>
    BY <2>5
  <2> QED
    BY <2>6
<1> HIDE DEF S
<1>5. \A i \in 0..n : i \in S
  BY <1>2, <1>3, <1>4, Upward
<1>6. n \in S
  BY <1>2, <1>5
<1>7. SubSeq(t, 1, n) = t
  OBVIOUS
<1> QED
  BY <1>1, <1>6, <1>7 DEF S

\* Cutting leaves all parts but the last one alone.
Behind(p, q, k, sign) == Cut(p \o q, k, sign) = p \o Cut(q, k, sign)

LEMMA CutBehind ==
  ASSUME NEW T, NEW p \in Seq(Seq(T)), NEW q \in Seq(Seq(T)), q # <<>>,
         NEW k \in T, NEW sign
  PROVE  Behind(p, q, k, sign)
<1> DEFINE E == Seq(T)
<1>1. \A e \in E : Append(e, k) \in E
  OBVIOUS
<1>2. <<>> \in E
  OBVIOUS
<1>3. p \in Seq(E) /\ q \in Seq(E)
  OBVIOUS
<1> HIDE DEF E
<1>4. ASSUME NEW a \in Seq(E), NEW e \in E
      PROVE  Append(p \o a, e) = p \o Append(a, e)
  <2>1. p \o a \in Seq(E) /\ <<e>> \in Seq(E)
    BY <1>3
  <2>2. Append(p \o a, e) = (p \o a) \o <<e>> /\ Append(a, e) = a \o <<e>>
    BY <2>1, AppendIsConcat
  <2>3. (p \o a) \o <<e>> = p \o (a \o <<e>>)
    <3>1. Assoc(p, a, <<e>>)
      BY <1>3, <2>1, AssocIs, Zenon
    <3> QED
      BY <3>1, Zenon DEF Assoc
  <2> QED
    BY <2>2, <2>3, Zenon
<1>5. Front(p \o q) = p \o Front(q) /\ Front(q) \in Seq(E)
  BY <1>3, SMTT(30) DEF Front
<1>6. Last(p \o q) = Last(q) /\ Last(q) \in E
  BY <1>3 DEF Last
<1>7. CASE k = sign
  <2>1. Append(p \o q, <<>>) = p \o Append(q, <<>>)
    BY <1>2, <1>3, <1>4, Zenon
  <2> QED
    BY <1>7, <2>1, Zenon DEF Cut, Behind
<1>8. CASE k # sign
  <2>1. Append(p \o Front(q), Append(Last(q), k)) = p \o Append(Front(q), Append(Last(q), k))
    BY <1>1, <1>4, <1>5, <1>6, Zenon
  <2> QED
    BY <1>5, <1>6, <1>8, <2>1, Zenon DEF Cut, Behind
<1> QED
  BY <1>7, <1>8

\* A sign separates what is before it from what is after it.
Separates(t, r, sign) == Split(t \o <<sign>> \o r, sign) = Split(t, sign) \o Split(r, sign)

LEMMA SplitAt ==
  ASSUME NEW T, NEW t \in Seq(T), NEW r \in Seq(T), NEW sign \in T
  PROVE  Separates(t, r, sign)
<1> DEFINE u == t \o <<sign>> \o r
           n == Len(t)
           m == Len(r)
           A == Seq(Seq(T \ {sign})) \ {<<>>}
<1>1. /\ u \in Seq(T) /\ n \in Nat /\ m \in Nat /\ Len(u) = n + 1 + m
      /\ \A i \in 1..n : u[i] = t[i]
      /\ u[n + 1] = sign
      /\ \A j \in 1..m : u[n + 1 + j] = r[j]
  OBVIOUS
<1>2. PICK a \in [0..n -> A] :
        /\ a[0] = << <<>> >>
        /\ \A i \in 1..n : a[i] = Cut(a[i - 1], t[i], sign)
        /\ Split(t, sign) = a[n]
  <2>1. HasSplit(T, t, sign, Split(t, sign))
    BY Splitted, Zenon
  <2> QED
    BY <2>1, Zenon DEF HasSplit
<1>3. PICK b \in [0..m -> A] :
        /\ b[0] = << <<>> >>
        /\ \A i \in 1..m : b[i] = Cut(b[i - 1], r[i], sign)
        /\ Split(r, sign) = b[m]
  <2>1. HasSplit(T, r, sign, Split(r, sign))
    BY Splitted, Zenon
  <2> QED
    BY <2>1, Zenon DEF HasSplit
<1>4. PICK c \in [0..Len(u) -> A] :
        /\ c[0] = << <<>> >>
        /\ \A i \in 1..Len(u) : c[i] = Cut(c[i - 1], u[i], sign)
        /\ Split(u, sign) = c[Len(u)]
  <2>1. u \in Seq(T)
    BY <1>1
  <2> HIDE DEF u, A
  <2>2. HasSplit(T, u, sign, Split(u, sign))
    BY <2>1, Splitted, Zenon
  <2> QED
    BY <2>2, Zenon DEF HasSplit, A
<1> HIDE DEF u, n, m, A
<1>5. \A i \in 0..n : c[i] = a[i]
  <2> DEFINE S == {i \in 0..n : c[i] = a[i]}
  <2>1. 0 \in S
    <3>1. 0 \in 0..n
      BY <1>1
    <3> QED
      BY <1>2, <1>4, <3>1, Zenon
  <2>2. ASSUME NEW i \in 1..n, i - 1 \in S
        PROVE  i \in S
    <3>1. i \in 1..Len(u) /\ i \in 0..n
      BY <1>1
    <3>2. c[i] = Cut(c[i - 1], u[i], sign) /\ a[i] = Cut(a[i - 1], t[i], sign) /\ u[i] = t[i]
      BY <1>1, <1>2, <1>4, <3>1, Zenon
    <3>3. c[i - 1] = a[i - 1]
      BY <2>2
    <3>4. c[i] = a[i]
      BY <3>2, <3>3, Zenon
    <3> QED
      BY <3>1, <3>4
  <2> HIDE DEF S
  <2>3. \A i \in 0..n : i \in S
    BY <1>1, <2>1, <2>2, Upward
  <2> QED
    BY <2>3 DEF S
<1>6. a[n] \in A /\ c[n + 1] = Cut(a[n], sign, sign)
  <2>3. n \in Nat /\ m \in Nat /\ Len(u) = n + 1 + m
    BY <1>1
  <2>1. n \in 0..n /\ n + 1 \in 1..Len(u) /\ (n + 1) - 1 = n
    BY <2>3
  <2>2. c[n + 1] = Cut(c[n], sign, sign) /\ c[n] = a[n]
    BY <1>1, <1>4, <1>5, <2>1, Zenon
  <2> QED
    BY <1>2, <2>1, <2>2
<1>7. \A j \in 0..m : b[j] \in A
  BY <1>3
<1>8. a[n] \in Seq(Seq(T)) /\ \A j \in 0..m : b[j] \in Seq(Seq(T)) /\ b[j] # <<>>
  <2>1. A \subseteq Seq(Seq(T)) \ {<<>>}
    <3>1. Seq(T \ {sign}) \subseteq Seq(T)
      OBVIOUS
    <3>2. \A P, Q : P \subseteq Q => Seq(P) \subseteq Seq(Q)
      OBVIOUS
    <3> QED
      BY <3>1, <3>2 DEF A
  <2> QED
    BY <1>6, <1>7, <2>1
<1>9. \A j \in 0..m : c[n + 1 + j] = a[n] \o b[j]
  <2> DEFINE S == {j \in 0..m : c[n + 1 + j] = a[n] \o b[j]}
  <2>1. 0 \in S
    <3>1. Append(a[n], <<>>) = a[n] \o << <<>> >>
      <4>1. <<>> \in Seq(T)
        OBVIOUS
      <4> QED
        BY <1>8, <4>1, AppendIsConcat
    <3>2. c[n + 1] = a[n] \o b[0]
      BY <1>3, <1>6, <3>1, Zenon DEF Cut
    <3>3. n + 1 + 0 = n + 1 /\ 0 \in 0..m
      BY <1>1
    <3> QED
      BY <3>2, <3>3, Zenon
  <2>2. ASSUME NEW j \in 1..m, j - 1 \in S
        PROVE  j \in S
    <3>1. /\ n + 1 + j \in 1..Len(u) /\ (n + 1 + j) - 1 = n + 1 + (j - 1)
          /\ j \in 0..m /\ j - 1 \in 0..m /\ u[n + 1 + j] = r[j]
      BY <1>1
    <3>2. c[n + 1 + j] = Cut(c[n + 1 + (j - 1)], r[j], sign)
      BY <1>4, <3>1, Zenon
    <3>3. c[n + 1 + (j - 1)] = a[n] \o b[j - 1]
      BY <2>2, Zenon
    <3>4. r[j] \in T
      BY DEF m
    <3>5. b[j] = Cut(b[j - 1], r[j], sign)
      BY <1>3
    <3>6. Cut(a[n] \o b[j - 1], r[j], sign) = a[n] \o Cut(b[j - 1], r[j], sign)
      <4>1. PICK p \in Seq(Seq(T)) : p = a[n]
        BY <1>8
      <4>2. PICK q \in Seq(Seq(T)) : q = b[j - 1] /\ q # <<>>
        BY <1>8, <3>1
      <4>3. PICK k \in T : k = r[j]
        BY <3>4
      <4>4. Behind(p, q, k, sign)
        BY <4>2, CutBehind
      <4> QED
        BY <4>1, <4>2, <4>3, <4>4, Zenon DEF Behind
    <3> QED
      BY <3>1, <3>2, <3>3, <3>5, <3>6, Zenon
  <2> HIDE DEF S
  <2>3. \A j \in 0..m : j \in S
    BY <1>1, <2>1, <2>2, Upward
  <2> QED
    BY <2>3 DEF S
<1>10. Split(u, sign) = a[n] \o b[m]
  <2>1. m \in 0..m /\ n + 1 + m = Len(u)
    BY <1>1
  <2> QED
    BY <1>4, <1>9, <2>1, Zenon
<1> QED
  BY <1>2, <1>3, <1>10, Zenon DEF u, Separates

-----------------------------------------------------------------------------
(* Joining.                                                                *)

\* What the next part does to the text so far.
Tack(t, part, sign) == IF t = <<>> THEN part ELSE t \o <<sign>> \o part

LEMMA TackIs ==
  ASSUME NEW T, NEW t \in Seq(T), NEW part \in Seq(T), NEW sign \in T
  PROVE  Tack(t, part, sign) \in Seq(T)
BY DEF Tack

\* t is put together from one part after the other.
HasJoin(T, p, sign, t) ==
  \E at \in [0..Len(p) -> Seq(T)] :
    /\ at[0] = <<>>
    /\ \A i \in 1..Len(p) : at[i] = Tack(at[i - 1], p[i], sign)
    /\ t = at[Len(p)]

LEMMA Joined ==
  ASSUME NEW T, NEW p \in Seq(Seq(T)), NEW sign \in T
  PROVE  HasJoin(T, p, sign, Join(p, sign))
<1> DEFINE n == Len(p)
           A == Seq(T)
           Body(f, s) == IF s = {} THEN <<>> ELSE Tack(f[s \ {Max(s)}], p[Max(s)], sign)
           iter == CHOOSE f : f = [s \in SUBSET DOMAIN p |-> Body(f, s)]
           step == [i \in 1..n |-> [a \in A |-> Tack(a, p[i], sign)]]
           at == [i \in 0..n |-> iter[1..i]]
<1>1. n \in Nat /\ DOMAIN p = 1..n /\ \A i \in 1..n : p[i] \in Seq(T)
  OBVIOUS
<1>2. Join(p, sign) = iter[DOMAIN p]
  BY Zenon DEF Join, FoldLeft, MapThenFoldSet, Tack
<1> HIDE DEF n
<1>3. <<>> \in A
  OBVIOUS
<1>4. \A i \in 1..n : \A a \in A : Tack(a, p[i], sign) \in A
  BY <1>1, TackIs
<1>5. \A i \in 1..n : \A a \in A : step[i][a] = Tack(a, p[i], sign)
  OBVIOUS
<1> HIDE DEF A, step
<1>6. HasFold(n, A, <<>>, step)
  BY <1>1, <1>3, <1>4, <1>5, FoldExists
<1>7. PICK f \in [SUBSET (1..n) -> A] :
        f = [s \in SUBSET (1..n) |-> IF s = {} THEN <<>> ELSE step[Max(s)][f[s \ {Max(s)}]]]
  BY <1>6 DEF HasFold
<1>8. ASSUME NEW s \in SUBSET (1..n)
      PROVE  f[s] = Body(f, s)
  <2>1. f[s] = IF s = {} THEN <<>> ELSE step[Max(s)][f[s \ {Max(s)}]]
    BY <1>7
  <2>2. s # {} => Max(s) \in 1..n /\ f[s \ {Max(s)}] \in A
    <3>1. s \subseteq 0..n
      BY <1>1
    <3>2. s # {} => Max(s) \in s
      BY <1>1, <3>1, MaxIs
    <3> QED
      BY <3>2
  <2> QED
    BY <1>5, <2>1, <2>2
<1>9. f = [s \in SUBSET (1..n) |-> Body(f, s)]
  <2>1. f = [s \in SUBSET (1..n) |-> f[s]]
    BY <1>7
  <2> HIDE DEF Body
  <2> QED
    BY <1>8, <2>1
<1>10. iter = [s \in SUBSET (1..n) |-> Body(iter, s)]
  <2>1. SUBSET DOMAIN p = SUBSET (1..n)
    BY <1>1
  <2> HIDE DEF Body
  <2> QED
    BY <1>9, <2>1
<1> HIDE DEF iter
<1>11. \A i \in 0..n : at[i] = iter[1..i]
  OBVIOUS
<1>12. at[0] = <<>>
  <2>1. 1..0 = {} /\ 0 \in 0..n /\ {} \in SUBSET (1..n)
    BY <1>1
  <2>2. iter[{}] = Body(iter, {})
    <3> HIDE DEF Body
    <3> QED
      BY <1>10, <2>1
  <2> QED
    BY <1>11, <2>1, <2>2
<1>13. ASSUME NEW i \in 1..n
       PROVE  at[i] = Tack(at[i - 1], p[i], sign)
  <2>1. i \in Nat \ {0} /\ i \in 0..n /\ i - 1 \in 0..n
    BY <1>1
  <2>2. Max(1..i) = i /\ (1..i) \ {i} = 1..(i - 1) /\ 1..i # {}
    BY <2>1, LastOf
  <2>3. 1..i \in SUBSET (1..n)
    BY <1>1
  <2>4. iter[1..i] = Body(iter, 1..i)
    <3> HIDE DEF Body
    <3> QED
      BY <1>10, <2>3
  <2>5. at[i] = iter[1..i] /\ at[i - 1] = iter[1..(i - 1)]
    BY <1>11, <2>1
  <2> HIDE DEF at
  <2> QED
    BY <2>1, <2>2, <2>4, <2>5
<1>14. at = [i \in 0..n |-> at[i]]
  OBVIOUS
<1>15. Join(p, sign) = at[n]
  BY <1>1, <1>2, <1>11
<1> HIDE DEF at
<1>16. \A i \in 0..n : at[i] \in A
  <2>1. \A i \in 1..n : at[i - 1] \in A => at[i] \in A
    BY <1>4, <1>13
  <2> QED
    BY <1>1, <1>3, <1>12, <2>1, Steady
<1> QED
  BY <1>12, <1>13, <1>14, <1>15, <1>16 DEF n, A, HasJoin

\* What is joined splits into what it was joined from.
LEMMA SplitJoin ==
  ASSUME NEW T, NEW sign \in T, NEW p \in Seq(Seq(T \ {sign}) \ {<<>>}), p # <<>>
  PROVE  /\ Join(p, sign) \in Seq(T) /\ Join(p, sign) # <<>>
         /\ Head(Join(p, sign)) # sign
         /\ Split(Join(p, sign), sign) = p
<1> DEFINE n == Len(p)
           P == Seq(T \ {sign}) \ {<<>>}
<1>1. n \in Nat \ {0} /\ \A i \in 1..n : p[i] \in P
  OBVIOUS
<1>10. SubSeq(p, 1, 1) = <<p[1]>> /\ SubSeq(p, 1, n) = p
  <2>1. SubSeq(p, 1, 1) = SubSeq(p, 1, 0) \o <<p[1]>>
    <3>1. 1 \in 1..Len(p) /\ 1 \in 1..Len(p) /\ 1 - 1 = 0
      BY <1>1
    <3> QED
      BY <3>1, SubSeqRecursiveSecond
  <2>2. SubSeq(p, 1, 0) = <<>> /\ <<>> \o <<p[1]>> = <<p[1]>>
    OBVIOUS
  <2>3. SubSeq(p, 1, n) = p
    OBVIOUS
  <2> QED
    BY <2>1, <2>2, <2>3, Zenon
<1>2. \A t \in P : t \in Seq(T) /\ t \in Seq(T \ {sign}) /\ t # <<>> /\ t[1] # sign /\ Len(t) \in Nat \ {0}
  OBVIOUS
<1>3. PICK at \in [0..n -> Seq(T)] :
        /\ at[0] = <<>>
        /\ \A i \in 1..n : at[i] = Tack(at[i - 1], p[i], sign)
        /\ Join(p, sign) = at[n]
  <2>1. p \in Seq(Seq(T))
    OBVIOUS
  <2>2. HasJoin(T, p, sign, Join(p, sign))
    BY <2>1, Joined
  <2> QED
    BY <2>2 DEF HasJoin
<1> DEFINE Right(t, i) == t # <<>> /\ t[1] # sign /\ Split(t, sign) = SubSeq(p, 1, i)
           S == {i \in 0..n : i # 0 => Right(at[i], i)}
<1> HIDE DEF P
<1>4. 0 \in S
  BY <1>1
<1>5. ASSUME NEW i \in 1..n, i - 1 \in S
      PROVE  i \in S
  <2>1. PICK e \in P : e = p[i]
    BY <1>1
  <2>2. e \in Seq(T) /\ e \in Seq(T \ {sign}) /\ e # <<>> /\ e[1] # sign
    BY <1>2
  <2>3. sign \notin T \ {sign}
    OBVIOUS
  <2>4. Split(e, sign) = <<e>>
    BY <2>2, <2>3, SplitPlain
  <2>5. i \in 0..n /\ i \in Nat /\ i # 0 /\ i - 1 \in 0..n
    BY <1>1
  <2>6. at[i] = Tack(at[i - 1], e, sign)
    BY <1>3, <2>1
  <2>7. CASE i = 1
    <3>1. at[1] = e
      BY <1>3, <2>6, <2>7 DEF Tack
    <3>2. SubSeq(p, 1, 1) = <<e>>
      BY <1>10, <2>1, <2>7, Zenon
    <3>3. Right(at[i], i)
      BY <2>2, <2>4, <2>7, <3>1, <3>2, Zenon
    <3> HIDE DEF Right
    <3> QED
      BY <2>5, <3>3
  <2>8. CASE i # 1
    <3>1. i - 1 # 0 /\ i \in 1..Len(p) /\ 1 \in 1..Len(p)
      BY <1>1, <2>8
    <3>2. Right(at[i - 1], i - 1)
      <4> HIDE DEF Right
      <4> QED
        BY <1>5, <3>1
    <3>3. PICK t \in Seq(T) : t = at[i - 1]
      BY <1>3, <2>5
    <3>4. t # <<>> /\ t[1] # sign /\ Split(t, sign) = SubSeq(p, 1, i - 1)
      BY <3>2, <3>3, Zenon
    <3>5. at[i] = t \o <<sign>> \o e
      BY <2>6, <3>3, <3>4, Zenon DEF Tack
    <3>6. Split(t \o <<sign>> \o e, sign) = Split(t, sign) \o Split(e, sign)
      <4>1. Separates(t, e, sign)
        BY <2>2, SplitAt
      <4> QED
        BY <4>1 DEF Separates
    <3>7. SubSeq(p, 1, i) = SubSeq(p, 1, i - 1) \o <<e>>
      BY <2>1, <3>1, <2>8, SubSeqRecursiveSecond
    <3>8. t \o <<sign>> \o e # <<>> /\ (t \o <<sign>> \o e)[1] # sign
      BY <2>2, <3>4
    <3>9. Right(at[i], i)
      BY <2>4, <3>4, <3>5, <3>6, <3>7, <3>8, Zenon
    <3> HIDE DEF Right
    <3> QED
      BY <2>5, <3>9
  <2> QED
    BY <2>7, <2>8
<1> HIDE DEF S
<1>6. \A i \in 0..n : i \in S
  BY <1>1, <1>4, <1>5, Upward
<1>7. n \in 0..n /\ n # 0
  BY <1>1
<1>8. Right(at[n], n)
  BY <1>6, <1>7, Zenon DEF S
<1>9. PICK t \in Seq(T) : t = at[n]
  BY <1>3, <1>7
<1>11. t # <<>> /\ t[1] # sign /\ Split(t, sign) = p
  BY <1>8, <1>9, <1>10, Zenon
<1>12. Head(t) = t[1]
  BY <1>11
<1> QED
  BY <1>3, <1>9, <1>11, <1>12, Zenon

-----------------------------------------------------------------------------
(* Cleaning.                                                               *)

\* What the next element does to the place reached so far.
Climb(rooted, at, e) ==
  IF e \in NotIn THEN at
  ELSE IF e # Up THEN Append(at, e)
  ELSE IF at # <<>> /\ Last(at) # Up THEN Front(at)
  ELSE IF rooted THEN at ELSE Append(at, e)

LEMMA ClimbIs ==
  ASSUME NEW E, NEW at \in Seq(E), NEW e \in E, NEW rooted
  PROVE  Climb(rooted, at, e) \in Seq(E)
<1>1. Append(at, e) \in Seq(E)
  OBVIOUS
<1>2. at # <<>> => Front(at) \in Seq(E)
  BY DEF Front
<1> QED
  BY <1>1, <1>2, Zenon DEF Climb

\* w is reached from there by one element after the other.
HasWalk(E, rooted, from, parts, w) ==
  \E at \in [0..Len(parts) -> Seq(E)] :
    /\ at[0] = from
    /\ \A i \in 1..Len(parts) : at[i] = Climb(rooted, at[i - 1], parts[i])
    /\ w = at[Len(parts)]

LEMMA Walked ==
  ASSUME NEW E, NEW from \in Seq(E), NEW parts \in Seq(E), NEW rooted
  PROVE  HasWalk(E, rooted, from, parts, Walk(rooted, from, parts))
<1> DEFINE n == Len(parts)
           A == Seq(E)
           Body(f, s) == IF s = {} THEN from ELSE Climb(rooted, f[s \ {Max(s)}], parts[Max(s)])
           iter == CHOOSE f : f = [s \in SUBSET DOMAIN parts |-> Body(f, s)]
           step == [i \in 1..n |-> [a \in A |-> Climb(rooted, a, parts[i])]]
           at == [i \in 0..n |-> iter[1..i]]
<1>1. n \in Nat /\ DOMAIN parts = 1..n /\ \A i \in 1..n : parts[i] \in E
  OBVIOUS
<1>2. Walk(rooted, from, parts) = iter[DOMAIN parts]
  BY Zenon DEF Walk, FoldLeft, MapThenFoldSet, Climb
<1> HIDE DEF n
<1>3. from \in A
  OBVIOUS
<1>4. \A i \in 1..n : \A a \in A : Climb(rooted, a, parts[i]) \in A
  BY <1>1, ClimbIs
<1>5. \A i \in 1..n : \A a \in A : step[i][a] = Climb(rooted, a, parts[i])
  OBVIOUS
<1> HIDE DEF A, step
<1>6. HasFold(n, A, from, step)
  BY <1>1, <1>3, <1>4, <1>5, FoldExists
<1>7. PICK f \in [SUBSET (1..n) -> A] :
        f = [s \in SUBSET (1..n) |-> IF s = {} THEN from ELSE step[Max(s)][f[s \ {Max(s)}]]]
  BY <1>6 DEF HasFold
<1>8. ASSUME NEW s \in SUBSET (1..n)
      PROVE  f[s] = Body(f, s)
  <2>1. f[s] = IF s = {} THEN from ELSE step[Max(s)][f[s \ {Max(s)}]]
    BY <1>7
  <2>2. s # {} => Max(s) \in 1..n /\ f[s \ {Max(s)}] \in A
    <3>1. s \subseteq 0..n
      BY <1>1
    <3>2. s # {} => Max(s) \in s
      BY <1>1, <3>1, MaxIs
    <3> QED
      BY <3>2
  <2> QED
    BY <1>5, <2>1, <2>2
<1>9. f = [s \in SUBSET (1..n) |-> Body(f, s)]
  <2>1. f = [s \in SUBSET (1..n) |-> f[s]]
    BY <1>7
  <2> HIDE DEF Body
  <2> QED
    BY <1>8, <2>1
<1>10. iter = [s \in SUBSET (1..n) |-> Body(iter, s)]
  <2>1. SUBSET DOMAIN parts = SUBSET (1..n)
    BY <1>1
  <2> HIDE DEF Body
  <2> QED
    BY <1>9, <2>1
<1> HIDE DEF iter
<1>11. \A i \in 0..n : at[i] = iter[1..i]
  OBVIOUS
<1>12. at[0] = from
  <2>1. 1..0 = {} /\ 0 \in 0..n /\ {} \in SUBSET (1..n)
    BY <1>1
  <2>2. iter[{}] = Body(iter, {})
    <3> HIDE DEF Body
    <3> QED
      BY <1>10, <2>1
  <2> QED
    BY <1>11, <2>1, <2>2
<1>13. ASSUME NEW i \in 1..n
       PROVE  at[i] = Climb(rooted, at[i - 1], parts[i])
  <2>1. i \in Nat \ {0} /\ i \in 0..n /\ i - 1 \in 0..n
    BY <1>1
  <2>2. Max(1..i) = i /\ (1..i) \ {i} = 1..(i - 1) /\ 1..i # {}
    BY <2>1, LastOf
  <2>3. 1..i \in SUBSET (1..n)
    BY <1>1
  <2>4. iter[1..i] = Body(iter, 1..i)
    <3> HIDE DEF Body
    <3> QED
      BY <1>10, <2>3
  <2>5. at[i] = iter[1..i] /\ at[i - 1] = iter[1..(i - 1)]
    BY <1>11, <2>1
  <2> HIDE DEF at
  <2> QED
    BY <2>1, <2>2, <2>4, <2>5
<1>14. at = [i \in 0..n |-> at[i]]
  OBVIOUS
<1>15. Walk(rooted, from, parts) = at[n]
  BY <1>1, <1>2, <1>11
<1> HIDE DEF at
<1>16. \A i \in 0..n : at[i] \in A
  <2>1. \A i \in 1..n : at[i - 1] \in A => at[i] \in A
    BY <1>4, <1>13
  <2> QED
    BY <1>1, <1>3, <1>12, <2>1, Steady
<1> QED
  BY <1>12, <1>13, <1>14, <1>15, <1>16 DEF n, A, HasWalk

\* Walking on by one element.
Onward(rooted, from, parts, e) ==
  Walk(rooted, from, parts \o <<e>>) = Climb(rooted, Walk(rooted, from, parts), e)

LEMMA WalkOn ==
  ASSUME NEW E, NEW from \in Seq(E), NEW parts \in Seq(E), NEW e \in E, NEW rooted
  PROVE  Onward(rooted, from, parts, e)
<1> DEFINE n == Len(parts)
           longer == parts \o <<e>>
<1>1. /\ longer \in Seq(E) /\ n \in Nat /\ Len(longer) = n + 1
      /\ longer[n + 1] = e /\ \A i \in 1..n : longer[i] = parts[i]
  OBVIOUS
<1>2. PICK at \in [0..n -> Seq(E)] :
        /\ at[0] = from
        /\ \A i \in 1..n : at[i] = Climb(rooted, at[i - 1], parts[i])
        /\ Walk(rooted, from, parts) = at[n]
  <2>1. HasWalk(E, rooted, from, parts, Walk(rooted, from, parts))
    BY Walked
  <2> QED
    BY <2>1 DEF HasWalk
<1> HIDE DEF longer
<1>3. PICK on \in [0..Len(longer) -> Seq(E)] :
        /\ on[0] = from
        /\ \A i \in 1..Len(longer) : on[i] = Climb(rooted, on[i - 1], longer[i])
        /\ Walk(rooted, from, longer) = on[Len(longer)]
  <2>1. longer \in Seq(E)
    BY <1>1
  <2> QED
    BY <2>1, Walked DEF HasWalk
<1> HIDE DEF n
<1>4. \A i \in 0..n : on[i] = at[i]
  <2> DEFINE S == {i \in 0..n : on[i] = at[i]}
  <2>1. 0 \in S
    <3>1. 0 \in 0..n
      BY <1>1
    <3> QED
      BY <1>2, <1>3, <3>1, Zenon
  <2>2. ASSUME NEW i \in 1..n, i - 1 \in S
        PROVE  i \in S
    <3>1. i \in 1..Len(longer) /\ i \in 0..n /\ longer[i] = parts[i]
      BY <1>1
    <3>2. on[i] = Climb(rooted, on[i - 1], longer[i]) /\ at[i] = Climb(rooted, at[i - 1], parts[i])
      BY <1>2, <1>3, <3>1, Zenon
    <3> QED
      BY <2>2, <3>1, <3>2, Zenon
  <2> HIDE DEF S
  <2>3. \A i \in 0..n : i \in S
    BY <1>1, <2>1, <2>2, Upward
  <2> QED
    BY <2>3 DEF S
<1>5. n \in 0..n /\ n + 1 \in 1..(n + 1) /\ (n + 1) - 1 = n
  <2>1. n \in Nat
    BY <1>1
  <2> QED
    BY <2>1
<1>6. Walk(rooted, from, longer) = Climb(rooted, at[n], e)
  BY <1>1, <1>3, <1>4, <1>5, Zenon
<1> QED
  BY <1>2, <1>6, Zenon DEF longer, Onward

\* Elements that are names are appended.
LEMMA WalkPlain ==
  ASSUME NEW E, NEW from \in Seq(E), NEW parts \in Seq(E), NEW rooted,
         E \cap (NotIn \cup {Up}) = {}
  PROVE  Walk(rooted, from, parts) = from \o parts
<1> DEFINE n == Len(parts)
<1>1. PICK at \in [0..n -> Seq(E)] :
        /\ at[0] = from
        /\ \A i \in 1..n : at[i] = Climb(rooted, at[i - 1], parts[i])
        /\ Walk(rooted, from, parts) = at[n]
  <2>1. HasWalk(E, rooted, from, parts, Walk(rooted, from, parts))
    BY Walked
  <2> QED
    BY <2>1 DEF HasWalk
<1>2. n \in Nat /\ SubSeq(parts, 1, n) = parts
  OBVIOUS
<1> DEFINE S == {i \in 0..n : at[i] = from \o SubSeq(parts, 1, i)}
<1>3. 0 \in S
  <2>1. from \o SubSeq(parts, 1, 0) = from
    OBVIOUS
  <2>2. 0 \in 0..n
    BY <1>2
  <2> QED
    BY <1>1, <2>1, <2>2, Zenon
<1>4. ASSUME NEW i \in 1..n, i - 1 \in S
      PROVE  i \in S
  <2>1. parts[i] \in E
    OBVIOUS
  <2>2. at[i] = Append(at[i - 1], parts[i])
    <3>1. parts[i] \notin NotIn /\ parts[i] # Up
      BY <2>1
    <3>2. at[i] = Climb(rooted, at[i - 1], parts[i])
      BY <1>1
    <3> QED
      BY <3>1, <3>2, Zenon DEF Climb
  <2> DEFINE before == SubSeq(parts, 1, i - 1)
             whole == SubSeq(parts, 1, i)
             e == parts[i]
  <2>3. before \in Seq(E) /\ <<e>> \in Seq(E) /\ from \o before \in Seq(E) /\ i \in 0..n
    OBVIOUS
  <2>4. whole = before \o <<e>>
    <3>1. 1 \in 1..Len(parts) /\ i \in 1..Len(parts)
      OBVIOUS
    <3> QED
      BY <3>1, SubSeqRecursiveSecond
  <2>5. at[i - 1] = from \o before
    BY <1>4
  <2> HIDE DEF before, whole, e
  <2>6. Append(from \o before, e) = (from \o before) \o <<e>>
    <3>1. e \in E
      BY <2>1 DEF e
    <3> QED
      BY <2>3, <3>1, AppendIsConcat
  <2>7. (from \o before) \o <<e>> = from \o (before \o <<e>>)
    <3>1. Assoc(from, before, <<e>>)
      BY <2>3, AssocIs, Zenon
    <3> QED
      BY <3>1, Zenon DEF Assoc
  <2>8. at[i] = from \o whole
    BY <2>2, <2>4, <2>5, <2>6, <2>7, Zenon DEF e
  <2> QED
    BY <2>3, <2>8, Zenon DEF whole
<1> HIDE DEF S
<1>5. \A i \in 0..n : i \in S
  BY <1>2, <1>3, <1>4, Upward
<1>6. n \in S
  BY <1>2, <1>5
<1> QED
  BY <1>1, <1>2, <1>6, Zenon DEF S

\* Cleaning yields names only.
LEMMA WalkNames ==
  ASSUME NEW E, NEW N, NEW from \in Seq(N), NEW parts \in Seq(E), NEW rooted,
         \A e \in E : e \in N \/ e \in NotIn \/ (rooted /\ e = Up)
  PROVE  Walk(rooted, from, parts) \in Seq(N)
<1> DEFINE n == Len(parts)
           B == N \cup E
<1>1. PICK at \in [0..n -> Seq(B)] :
        /\ at[0] = from
        /\ \A i \in 1..n : at[i] = Climb(rooted, at[i - 1], parts[i])
        /\ Walk(rooted, from, parts) = at[n]
  <2>1. from \in Seq(B) /\ parts \in Seq(B)
    OBVIOUS
  <2> HIDE DEF B
  <2>2. HasWalk(B, rooted, from, parts, Walk(rooted, from, parts))
    BY <2>1, Walked
  <2> QED
    BY <2>2 DEF HasWalk
<1>2. n \in Nat /\ \A i \in 1..n : parts[i] \in E
  OBVIOUS
<1> HIDE DEF n, B
<1>3. \A i \in 0..n : at[i] \in Seq(N)
  <2>1. ASSUME NEW i \in 1..n, at[i - 1] \in Seq(N)
        PROVE  at[i] \in Seq(N)
    <3>1. PICK a \in Seq(N) : a = at[i - 1]
      BY <2>1
    <3>2. PICK e \in E : e = parts[i]
      BY <1>2
    <3>3. a # <<>> => Front(a) \in Seq(N)
      BY DEF Front
    <3>4. e \in N => Append(a, e) \in Seq(N)
      OBVIOUS
    <3>5. Climb(rooted, a, e) \in Seq(N)
      BY <3>3, <3>4, Zenon DEF Climb
    <3> QED
      BY <1>1, <3>1, <3>2, <3>5
  <2> QED
    BY <1>1, <1>2, <2>1, Steady
<1> QED
  BY <1>1, <1>2, <1>3

\* Without "..", walking on only adds to what is reached, rooted or not.
LEMMA WalkFurther ==
  ASSUME NEW E, Up \notin E, NEW a \in Seq(E), NEW b \in Seq(E), NEW r, NEW s
  PROVE  IsPrefix(Walk(r, <<>>, a), Walk(s, <<>>, a \o b))
<1> DEFINE n == Len(a)
           m == Len(b)
           whole == a \o b
<1>1. /\ whole \in Seq(E) /\ n \in Nat /\ m \in Nat /\ Len(whole) = n + m
      /\ \A i \in 1..n : whole[i] = a[i] /\ i \in 1..(n + m)
      /\ \A i \in 1..(n + m) : whole[i] \in E
      /\ <<>> \in Seq(E)
  OBVIOUS
<1>2. \A x, e : e # Up => Climb(r, x, e) = Climb(s, x, e)
  BY Zenon DEF Climb
<1>3. PICK at \in [0..n -> Seq(E)] :
        /\ at[0] = <<>>
        /\ \A i \in 1..n : at[i] = Climb(r, at[i - 1], a[i])
        /\ Walk(r, <<>>, a) = at[n]
  <2>1. HasWalk(E, r, <<>>, a, Walk(r, <<>>, a))
    BY <1>1, Walked
  <2> QED
    BY <2>1 DEF HasWalk
<1> HIDE DEF whole
<1>4. PICK on \in [0..(n + m) -> Seq(E)] :
        /\ on[0] = <<>>
        /\ \A i \in 1..(n + m) : on[i] = Climb(s, on[i - 1], whole[i])
        /\ Walk(s, <<>>, whole) = on[n + m]
  <2>1. HasWalk(E, s, <<>>, whole, Walk(s, <<>>, whole))
    BY <1>1, Walked
  <2> QED
    BY <1>1, <2>1 DEF HasWalk
<1> HIDE DEF n, m
<1>5. \A i \in 0..n : on[i] = at[i]
  <2> DEFINE S == {i \in 0..n : on[i] = at[i]}
  <2>1. 0 \in S
    <3>1. 0 \in 0..n
      BY <1>1
    <3> QED
      BY <1>3, <1>4, <3>1, Zenon
  <2>2. ASSUME NEW i \in 1..n, i - 1 \in S
        PROVE  i \in S
    <3>1. i \in 0..n /\ whole[i] = a[i] /\ i \in 1..(n + m) /\ whole[i] # Up
      BY <1>1
    <3>2. on[i] = Climb(s, on[i - 1], whole[i]) /\ at[i] = Climb(r, at[i - 1], a[i])
      BY <1>3, <1>4, <3>1, Zenon
    <3> QED
      BY <1>2, <2>2, <3>1, <3>2, Zenon
  <2> HIDE DEF S
  <2>3. \A i \in 0..n : i \in S
    BY <1>1, <2>1, <2>2, Upward
  <2> QED
    BY <2>3 DEF S
<1>6. \A j \in 0..m : n + j \in 0..(n + m)
  BY <1>1
<1> DEFINE w == on[n]
           P == {j \in 0..m : IsPrefix(w, on[n + j])}
<1>7. w \in Seq(E)
  <2>1. n \in 0..(n + m)
    BY <1>1
  <2> QED
    BY <1>4, <2>1
<1>8. 0 \in P
  <2>1. n + 0 = n /\ 0 \in 0..m
    BY <1>1
  <2>2. IsPrefix(w, w)
    <3> HIDE DEF w
    <3> QED
      BY <1>7 DEF IsPrefix
  <2> QED
    BY <2>1, <2>2
<1>9. ASSUME NEW j \in 1..m, j - 1 \in P
      PROVE  j \in P
  <2>1. j \in 0..m /\ n + j \in 1..(n + m) /\ n + (j - 1) = (n + j) - 1 /\ j - 1 \in 0..m
    BY <1>1
  <2>2. PICK x \in Seq(E) : x = on[(n + j) - 1]
    BY <1>4, <1>6, <2>1
  <2>3. PICK e \in E : e = whole[n + j]
    BY <1>1, <2>1
  <2>4. on[n + j] = Climb(s, x, e) /\ IsPrefix(w, x)
    BY <1>4, <1>9, <2>1, <2>2, <2>3
  <2>5. Climb(s, x, e) = x \/ Climb(s, x, e) = Append(x, e)
    BY Zenon DEF Climb
  <2>6. IsPrefix(w, Append(x, e))
    <3> HIDE DEF w
    <3> QED
      BY <1>7, <2>4 DEF IsPrefix
  <2> QED
    BY <2>1, <2>4, <2>5, <2>6
<1> HIDE DEF P, w
<1>10. \A j \in 0..m : j \in P
  BY <1>1, <1>8, <1>9, Upward
<1>11. m \in P /\ n \in 0..n
  BY <1>1, <1>10
<1>12. IsPrefix(w, on[n + m]) /\ w = at[n]
  BY <1>5, <1>11 DEF P, w
<1> QED
  BY <1>3, <1>4, <1>12 DEF whole

-----------------------------------------------------------------------------
(* Relative paths.                                                         *)

LEMMA CommonIs ==
  ASSUME NEW E, NEW s \in Seq(E), NEW t \in Seq(E)
  PROVE  LET same == Len(LongestCommonPrefix({s, t}))
         IN /\ same \in 0..Len(s) /\ same \in 0..Len(t)
            /\ IsPrefix(s, t) <=> same = Len(s)
<1> DEFINE C == CommonPrefixes({s, t})
           N == {n \in 0..Len(s) : n <= Len(t) /\ SubSeq(s, 1, n) = SubSeq(t, 1, n)}
<1>1. Len(s) \in Nat /\ Len(t) \in Nat
  OBVIOUS
<1>2. \A n \in 0..Len(s) : Len(SubSeq(s, 1, n)) = n /\ SubSeq(SubSeq(s, 1, n), 1, n) = SubSeq(s, 1, n)
  OBVIOUS
<1>3. \A n \in 0..Len(t) : Len(SubSeq(t, 1, n)) = n /\ SubSeq(SubSeq(t, 1, n), 1, n) = SubSeq(t, 1, n)
  OBVIOUS
<1>4. \A c \in C : Len(c) \in N /\ c = SubSeq(s, 1, Len(c))
  <2>1. SUFFICES ASSUME NEW c \in C
                 PROVE  Len(c) \in N /\ c = SubSeq(s, 1, Len(c))
    OBVIOUS
  <2>2. IsPrefix(c, s) /\ IsPrefix(c, t)
    BY DEF CommonPrefixes
  <2>3. \/ \E n \in 0..Len(s) : c = SubSeq(s, 1, n)
        \/ \E n \in 0..Len(t) : c = SubSeq(t, 1, n)
    BY DEF CommonPrefixes, Prefixes
  <2>4. Len(c) \in Nat /\ SubSeq(c, 1, Len(c)) = c
    BY <1>1, <1>2, <1>3, <2>3
  <2> QED
    BY <1>1, <2>2, <2>4 DEF IsPrefix
<1>5. \A n \in N : SubSeq(s, 1, n) \in C
  <2>1. SUFFICES ASSUME NEW n \in N
                 PROVE  SubSeq(s, 1, n) \in C
    OBVIOUS
  <2>2. n \in 0..Len(s) /\ n \in 0..Len(t) /\ SubSeq(s, 1, n) = SubSeq(t, 1, n)
    BY <1>1
  <2>3. IsPrefix(SubSeq(s, 1, n), s)
    BY <1>1, <1>2, <2>2 DEF IsPrefix
  <2>4. IsPrefix(SubSeq(s, 1, n), t)
    BY <1>1, <1>2, <2>2 DEF IsPrefix
  <2>5. SubSeq(s, 1, n) \in Prefixes(s)
    BY <2>2 DEF Prefixes
  <2> QED
    BY <2>3, <2>4, <2>5 DEF CommonPrefixes
<1>6. PICK m \in N : \A n \in N : n <= m
  <2>1. 0 \in N
    <3>1. SubSeq(s, 1, 0) = SubSeq(t, 1, 0)
      OBVIOUS
    <3> QED
      BY <1>1, <3>1
  <2>2. N \subseteq 0..Len(s) /\ N # {}
    BY <2>1
  <2> HIDE DEF N
  <2> QED
    BY <1>1, <2>2, Greatest
<1> HIDE DEF C, N
<1>7. \E c \in C : \A d \in C : Len(d) <= Len(c)
  <2>1. N \subseteq 0..Len(s)
    BY DEF N
  <2>2. SubSeq(s, 1, m) \in C /\ Len(SubSeq(s, 1, m)) = m
    BY <1>2, <1>5, <2>1
  <2> QED
    BY <1>4, <1>6, <2>2
<1>8. LongestCommonPrefix({s, t}) \in C /\ \A d \in C : Len(d) <= Len(LongestCommonPrefix({s, t}))
  BY <1>7 DEF LongestCommonPrefix, C
<1> DEFINE same == Len(LongestCommonPrefix({s, t}))
<1>9. same \in N
  BY <1>4, <1>8
<1>10. IsPrefix(s, t) => Len(s) \in N
  <2>1. SubSeq(s, 1, Len(s)) = s
    OBVIOUS
  <2> QED
    BY <1>1, <2>1 DEF IsPrefix, N
<1>11. \A n \in N : n <= same
  <2>1. \A n \in N : Len(SubSeq(s, 1, n)) = n /\ SubSeq(s, 1, n) \in C
    BY <1>2, <1>5 DEF N
  <2> QED
    BY <1>8, <2>1
<1>12. Len(s) \in N => IsPrefix(s, t)
  BY <1>1 DEF IsPrefix, N
<1> HIDE DEF same
<1>13. same \in 0..Len(s) /\ same \in 0..Len(t)
  BY <1>1, <1>9 DEF N
<1>14. IsPrefix(s, t) <=> same = Len(s)
  BY <1>1, <1>9, <1>10, <1>11, <1>12, <1>13
<1> QED
  BY <1>13, <1>14 DEF same

\* A path that does not escape leads to what lies below the base.
LEMMA RelIs ==
  ASSUME NEW E, NEW base \in Seq(E), NEW target \in Seq(E), Up \notin E
  PROVE  /\ ~escapesBase(Rel(base, target)) <=> IsPrefix(base, target)
         /\ IsPrefix(base, target) => Rel(base, target) = SubSeq(target, Len(base) + 1, Len(target))
<1> DEFINE same == Len(LongestCommonPrefix({base, target}))
           ups == [i \in 1..(Len(base) - same) |-> Up]
           rest == SubSeq(target, same + 1, Len(target))
<1>1. same \in 0..Len(base) /\ same \in 0..Len(target) /\ (IsPrefix(base, target) <=> same = Len(base))
  BY CommonIs
<1>2. Rel(base, target) = ups \o rest
  BY Zenon DEF Rel
<1> HIDE DEF same
<1>3. Len(base) \in Nat /\ Len(target) \in Nat
  OBVIOUS
<1>4. rest \in Seq(E)
  <2>1. \A i \in (same + 1)..Len(target) : target[i] \in E
    BY <1>1
  <2>2. same + 1 \in Int /\ Len(target) \in Int
    BY <1>1, <1>3
  <2> QED
    BY <2>1, <2>2, SubSeqProperties
<1> HIDE DEF rest
<1>5. CASE same = Len(base)
  <2>1. ups = <<>>
    BY <1>3, <1>5
  <2>2. <<>> \o rest = rest
    BY <1>4
  <2>3. Rel(base, target) = rest
    BY <1>2, <2>1, <2>2, Zenon
  <2>4. ~escapesBase(rest)
    <3>1. rest # <<>> => Head(rest) \in E
      BY <1>4
    <3> QED
      BY <3>1 DEF escapesBase
  <2> QED
    BY <1>1, <1>5, <2>3, <2>4 DEF rest
<1>6. CASE same # Len(base)
  <2>1. Len(base) - same \in Nat \ {0}
    BY <1>1, <1>3, <1>6
  <2>2. ups \in Seq({Up}) /\ Len(ups) \in Nat \ {0} /\ ups[1] = Up
    BY <2>1
  <2> HIDE DEF ups
  <2>3. ups \o rest # <<>> /\ Head(ups \o rest) = Up
    BY <1>4, <2>2
  <2>4. escapesBase(Rel(base, target))
    BY <1>2, <2>3, Zenon DEF escapesBase
  <2> QED
    BY <1>1, <1>6, <2>4
<1> QED
  BY <1>5, <1>6

LEMMA RelBelow ==
  ASSUME NEW E, NEW base \in Seq(E), NEW p \in Seq(E), Up \notin E
  PROVE  Rel(base, base \o p) = p /\ ~escapesBase(p)
<1> DEFINE t == base \o p
<1>1. t \in Seq(E) /\ SubSeq(base, 1, Len(base)) = base /\ SubSeq(t, 1, Len(base)) = base
      /\ Len(t) = Len(base) + Len(p) /\ SubSeq(t, Len(base) + 1, Len(t)) = p
  OBVIOUS
<1> HIDE DEF t
<1>2. Len(base) \in Nat /\ Len(p) \in Nat
  OBVIOUS
<1>3. IsPrefix(base, t)
  BY <1>1, <1>2 DEF IsPrefix
<1>4. Rel(base, t) = p /\ ~escapesBase(Rel(base, t))
  <2>1. t \in Seq(E)
    BY <1>1
  <2>2. /\ ~escapesBase(Rel(base, t)) <=> IsPrefix(base, t)
        /\ IsPrefix(base, t) => Rel(base, t) = SubSeq(t, Len(base) + 1, Len(t))
    BY <2>1, RelIs
  <2>3. SubSeq(t, Len(base) + 1, Len(t)) = p
    BY <1>1
  <2> QED
    BY <1>3, <2>2, <2>3, Zenon
<1> QED
  BY <1>4, Zenon DEF t

-----------------------------------------------------------------------------
(* Where a path leads.                                                     *)

\* What the elements of a clean path are; those of a location are no "..".
Element(T) == Seq(T \ {Slash}) \ NotIn
Location(T) == Seq(Element(T) \ {Up})

LEMMA CleanIs ==
  ASSUME NEW T, NEW t \in Seq(T)
  PROVE  /\ Clean(t).parts \in Seq(Element(T))
         /\ Clean(t).rooted => Clean(t).parts \in Location(T)
<1> DEFINE rooted == t # <<>> /\ Head(t) = Slash
           E == Seq(T \ {Slash})
           parts == Split(t, Slash)
<1>1. Clean(t).rooted = rooted /\ Clean(t).parts = Walk(rooted, <<>>, parts)
  BY DEF Clean
<1>2. parts \in Seq(E)
  BY SplitIs
<1>3. <<>> \in Seq(Element(T)) /\ <<>> \in Seq(Element(T) \ {Up})
  OBVIOUS
<1> HIDE DEF rooted, parts
<1>4. Walk(rooted, <<>>, parts) \in Seq(Element(T))
  <2>1. \A e \in E : e \in Element(T) \/ e \in NotIn \/ (rooted /\ e = Up)
    BY DEF Element
  <2> HIDE DEF E
  <2> QED
    BY <1>2, <1>3, <2>1, WalkNames
<1>5. rooted => Walk(rooted, <<>>, parts) \in Seq(Element(T) \ {Up})
  <2>1. SUFFICES ASSUME rooted
                 PROVE  Walk(rooted, <<>>, parts) \in Seq(Element(T) \ {Up})
    OBVIOUS
  <2>2. \A e \in E : e \in Element(T) \ {Up} \/ e \in NotIn \/ (rooted /\ e = Up)
    BY <2>1 DEF Element
  <2> HIDE DEF E
  <2> QED
    BY <1>2, <1>3, <2>2, WalkNames
<1> QED
  BY <1>1, <1>4, <1>5 DEF Location

\* What a clean path leads to from a location is a location.
LEMMA ClimbingIs ==
  ASSUME NEW T, NEW base \in Location(T), NEW parts \in Seq(Element(T))
  PROVE  Walk(TRUE, base, parts) \in Location(T)
<1> DEFINE N == Element(T) \ {Up}
<1>1. base \in Seq(N) /\ \A e \in Element(T) : e \in N \/ e \in NotIn \/ (TRUE /\ e = Up)
  BY DEF Location
<1> HIDE DEF N
<1>2. Walk(TRUE, base, parts) \in Seq(N)
  BY <1>1, WalkNames
<1> QED
  BY <1>2 DEF Location, N

\* Relative to a base, what does not escape is a location.
LEMMA WithinIs ==
  ASSUME NEW T, NEW base \in Location(T), NEW target \in Location(T), ~escapesBase(Rel(base, target))
  PROVE  Rel(base, target) \in Location(T)
<1> DEFINE N == Element(T) \ {Up}
<1>1. base \in Seq(N) /\ target \in Seq(N) /\ Up \notin N
  BY DEF Location
<1> HIDE DEF N
<1>2. IsPrefix(base, target) /\ Rel(base, target) = SubSeq(target, Len(base) + 1, Len(target))
  BY <1>1, RelIs
<1>3. SubSeq(target, Len(base) + 1, Len(target)) \in Seq(N)
  <2>1. Len(base) + 1 \in Nat \ {0} /\ Len(target) \in Nat /\ Len(target) <= Len(target)
    BY <1>1
  <2> QED
    BY <1>1, <2>1, StretchIs
<1> QED
  BY <1>2, <1>3 DEF Location, N

\* The sanitizer's text for a location names it, and cleaning finds it again.
LEMMA PathTextIs ==
  ASSUME NEW T, Slash \in T, NEW p \in Location(T), p # <<>>
  PROVE  /\ PathText(p) \in Seq(T) /\ PathText(p) # <<>>
         /\ Split(PathText(p), Slash) = p
         /\ Clean(PathText(p)) = [rooted |-> FALSE, parts |-> p]
<1> DEFINE N == Element(T) \ {Up}
           t == Join(p, Slash)
<1>1. p \in Seq(N)
  BY DEF Location
<1>2. p \in Seq(Seq(T \ {Slash}) \ {<<>>})
  <2>1. N \subseteq Seq(T \ {Slash}) \ {<<>>}
    BY DEF Element, NotIn
  <2>2. \A A, B : A \subseteq B => Seq(A) \subseteq Seq(B)
    OBVIOUS
  <2> QED
    BY <1>1, <2>1, <2>2, Zenon
<1>3. t \in Seq(T) /\ t # <<>> /\ Head(t) # Slash /\ Split(t, Slash) = p
  BY <1>2, SplitJoin
<1>4. PathText(p) = t
  BY DEF PathText
<1> HIDE DEF t
<1>5. Walk(FALSE, <<>>, p) = <<>> \o p
  <2>1. N \cap (NotIn \cup {Up}) = {} /\ <<>> \in Seq(N)
    BY DEF Element
  <2> HIDE DEF N
  <2> QED
    BY <1>1, <2>1, WalkPlain
<1>6. <<>> \o p = p
  BY <1>1
<1>7. (t # <<>> /\ Head(t) = Slash) = FALSE
  BY <1>3
<1>8. Clean(t) = [rooted |-> FALSE, parts |-> p]
  BY <1>3, <1>5, <1>6, <1>7, Zenon DEF Clean
<1> QED
  BY <1>3, <1>4, <1>8, Zenon

\* A path reaches locations outside the metadata only (validateManagedRelativePath).
LEMMA TargetIs ==
  ASSUME NEW T, Slash \in T, NEW t \in Seq(T),
         NEW work \in Location(T), NEW root \in Location(T), NEW p \in Target(t, work, root)
  PROVE  p \in Location(T) /\ ~isReservedShadowRelativePath(p)
<1>1. PICK s \in SanitizeShadowRelPath(root, t) : p \in resolveManagedRelativePath(s, work, root)
  BY DEF Target
<1>2. s \in Seq(T)
  <2> DEFINE path == Clean(TrimSpace(t))
  <2>1. PICK r \in sanitizeCallerRelativePath(t, root) : s = PathText(r)
    BY <1>1 DEF SanitizeShadowRelPath
  <2>2. TrimSpace(t) \in Seq(T)
    BY TrimIs
  <2>3. path.parts \in Seq(Element(T))
    BY <2>2, CleanIs
  <2> HIDE DEF path
  <2>4. PICK c \in joinWithinBase(root, path.parts) : r = Rel(root, c)
    BY <2>1, Zenon DEF sanitizeCallerRelativePath, path
  <2>5. r # <<>> /\ ~escapesBase(r)
    BY <2>1, Zenon DEF sanitizeCallerRelativePath
  <2>6. c = Walk(TRUE, root, path.parts)
    BY <2>4 DEF joinWithinBase
  <2>7. c \in Location(T)
    BY <2>3, <2>6, ClimbingIs
  <2>8. r \in Location(T)
    BY <2>4, <2>5, <2>7, WithinIs
  <2> QED
    BY <2>1, <2>5, <2>8, PathTextIs
<1> DEFINE path == Clean(TrimSpace(s))
           inside == relativeIfWithinBase(work, path.parts)
           candidates == IF ~path.rooted
                           THEN UNION {relativeIfWithinBase(work, c) : c \in joinWithinBase(work, path.parts)}
                         ELSE IF inside # {} THEN inside
                         ELSE relativeIfWithinBase(root, path.parts)
<1>3. p \in validateManagedRelativePath(candidates)
  BY <1>1, Zenon DEF resolveManagedRelativePath
<1>4. p \in candidates /\ ~isReservedShadowRelativePath(p)
  <2> HIDE DEF candidates
  <2> QED
    BY <1>3 DEF validateManagedRelativePath
<1>5. TrimSpace(s) \in Seq(T)
  BY <1>2, TrimIs
<1>6. path.parts \in Seq(Element(T)) /\ (path.rooted => path.parts \in Location(T))
  BY <1>5, CleanIs
<1> HIDE DEF path
<1>7. ASSUME NEW b \in Location(T), NEW c \in Location(T), NEW x \in relativeIfWithinBase(b, c)
      PROVE  x \in Location(T)
  <2>1. x = Rel(b, c) /\ ~escapesBase(Rel(b, c))
    BY <1>7 DEF relativeIfWithinBase
  <2> QED
    BY <2>1, WithinIs
<1>8. CASE ~path.rooted
  <2>1. PICK c \in joinWithinBase(work, path.parts) : p \in relativeIfWithinBase(work, c)
    BY <1>4, <1>8
  <2>2. c = Walk(TRUE, work, path.parts)
    BY <2>1 DEF joinWithinBase
  <2>3. c \in Location(T)
    BY <1>6, <2>2, ClimbingIs
  <2> QED
    BY <1>4, <1>7, <2>1, <2>3
<1>9. CASE path.rooted
  <2>1. p \in relativeIfWithinBase(work, path.parts) \/ p \in relativeIfWithinBase(root, path.parts)
    BY <1>4, <1>9
  <2> QED
    BY <1>4, <1>6, <1>7, <1>9, <2>1
<1> QED
  BY <1>8, <1>9

\* A location whose spelling has no blanks at its ends is what this reaches.
THEOREM SpellingReaches ==
  ASSUME NEW T, Slash \in T, NEW work \in Location(T), NEW root \in Location(T),
         NEW p \in Location(T), p # <<>>, ~isReservedShadowRelativePath(p),
         TrimSpace(PathText(p)) = PathText(p)
  PROVE  Target(PathText(p), work, root) = {p}
<1> DEFINE N == Element(T) \ {Up}
           t == PathText(p)
           path == Clean(TrimSpace(t))
<1>1. p \in Seq(N) /\ work \in Seq(N) /\ root \in Seq(N) /\ Up \notin N /\ N \cap (NotIn \cup {Up}) = {}
  BY DEF Location, Element
<1>2. t # <<>> /\ Clean(t) = [rooted |-> FALSE, parts |-> p]
  BY PathTextIs
<1>3. ~Blank(t) /\ path.rooted = FALSE /\ path.parts = p
  BY <1>2 DEF Blank
<1> HIDE DEF N, t, path
<1>4. ASSUME NEW b \in Seq(N)
      PROVE  joinWithinBase(b, p) = {b \o p} /\ relativeIfWithinBase(b, b \o p) = {p} /\ Rel(b, b \o p) = p
  <2>1. Walk(TRUE, b, p) = b \o p
    BY <1>1, WalkPlain
  <2>2. Rel(b, b \o p) = p /\ ~escapesBase(p)
    BY <1>1, RelBelow
  <2>3. isWithinBase(b, b \o p)
    BY <2>2, Zenon DEF isWithinBase
  <2>4. joinWithinBase(b, p) = {b \o p}
    BY <2>1, <2>3, Zenon DEF joinWithinBase
  <2>5. relativeIfWithinBase(b, b \o p) = {p}
    BY <2>2, Zenon DEF relativeIfWithinBase
  <2> QED
    BY <2>2, <2>4, <2>5
<1>5. ~escapesBase(p)
  BY <1>1, RelBelow
<1>6. sanitizeCallerRelativePath(t, root) = {p}
  <2>1. sanitizeCallerRelativePath(t, root) =
          {r \in {Rel(root, c) : c \in joinWithinBase(root, p)} : r # <<>> /\ ~escapesBase(r)}
    BY <1>3, Zenon DEF sanitizeCallerRelativePath, path
  <2>2. joinWithinBase(root, p) = {root \o p} /\ Rel(root, root \o p) = p
    BY <1>1, <1>4
  <2>3. {Rel(root, c) : c \in {root \o p}} = {p}
    <3>1. \A x : {Rel(root, c) : c \in {x}} = {Rel(root, x)}
      OBVIOUS
    <3> QED
      BY <2>2, <3>1, Zenon
  <2> QED
    BY <1>5, <2>1, <2>2, <2>3
<1>7. SanitizeShadowRelPath(root, t) = {t}
  BY <1>3, <1>6, Zenon DEF SanitizeShadowRelPath, t
<1>8. resolveManagedRelativePath(t, work, root) = {p}
  <2>1. joinWithinBase(work, p) = {work \o p} /\ relativeIfWithinBase(work, work \o p) = {p}
    BY <1>1, <1>4
  <2>2. UNION {relativeIfWithinBase(work, c) : c \in {work \o p}} = {p}
    BY <2>1, Zenon
  <2>3. resolveManagedRelativePath(t, work, root) =
          validateManagedRelativePath(UNION {relativeIfWithinBase(work, c) : c \in joinWithinBase(work, p)})
    BY <1>3, Zenon DEF resolveManagedRelativePath, path
  <2>4. validateManagedRelativePath({p}) = {p}
    BY Zenon DEF validateManagedRelativePath
  <2> QED
    BY <2>1, <2>2, <2>3, <2>4, Zenon
<1>9. Target(t, work, root) = {p}
  BY <1>7, <1>8, Zenon DEF Target
<1> QED
  BY <1>9 DEF t

\* A text without ".." that neither layer finds a blank to trim from reaches
\* what cleaning it yields, if anything.
THEOREM CleanReaches ==
  ASSUME NEW T, Slash \in T, NEW work \in Location(T), NEW root \in Location(T),
         NEW t \in Seq(T), Up \notin ToSet(Split(t, Slash)), TrimSpace(t) = t,
         TrimSpace(PathText(Clean(t).parts)) = PathText(Clean(t).parts),
         NEW p \in Target(t, work, root)
  PROVE  p = Clean(t).parts
<1> DEFINE N == Element(T) \ {Up}
           x == Clean(t).parts
<1>1. x \in Location(T)
  <2> DEFINE E == Seq(T \ {Slash}) \ {Up}
             parts == Split(t, Slash)
             rooted == t # <<>> /\ Head(t) = Slash
  <2>1. parts \in Seq(Seq(T \ {Slash})) /\ \A i \in 1..Len(parts) : parts[i] # Up
    <3>1. parts \in Seq(Seq(T \ {Slash}))
      BY SplitIs
    <3>2. \A i \in DOMAIN parts : parts[i] # Up
      <4> HIDE DEF parts
      <4>1. Up \notin ToSet(parts)
        BY DEF parts
      <4> QED
        BY <4>1, Zenon DEF ToSet
    <3> HIDE DEF parts
    <3> QED
      BY <3>1, <3>2
  <2>2. parts \in Seq(E)
    <3> HIDE DEF parts
    <3>1. \A i \in 1..Len(parts) : parts[i] \in E
      BY <2>1
    <3> HIDE DEF E
    <3> QED
      BY <2>1, <3>1, Narrow, Zenon
  <2>3. (\A e \in E : e \in N \/ e \in NotIn \/ (rooted /\ e = Up)) /\ <<>> \in Seq(N)
    BY DEF Element
  <2>4. x = Walk(rooted, <<>>, parts)
    BY DEF Clean
  <2> HIDE DEF E, N, x, parts, rooted
  <2>5. Walk(rooted, <<>>, parts) \in Seq(N)
    BY <2>2, <2>3, WalkNames
  <2> QED
    BY <2>4, <2>5 DEF Location, N
<1>2. x \in Seq(N) /\ work \in Seq(N) /\ root \in Seq(N) /\ Up \notin N /\ N \cap (NotIn \cup {Up}) = {}
  BY <1>1 DEF Location, Element
<1>3. PICK s \in SanitizeShadowRelPath(root, t) : p \in resolveManagedRelativePath(s, work, root)
  BY Zenon DEF Target
<1> HIDE DEF N
<1>4. ASSUME NEW b \in Seq(N), NEW c \in joinWithinBase(b, x)
      PROVE  Rel(b, c) = x
  <2>1. c = Walk(TRUE, b, x)
    BY <1>4 DEF joinWithinBase
  <2>2. Walk(TRUE, b, x) = b \o x
    BY <1>2, WalkPlain
  <2> QED
    BY <1>2, <2>1, <2>2, RelBelow
<1>5. s = PathText(x) /\ x # <<>>
  <2>1. PICK r \in sanitizeCallerRelativePath(t, root) : s = PathText(r)
    BY <1>3, Zenon DEF SanitizeShadowRelPath
  <2>2. r # <<>> /\ \E c \in joinWithinBase(root, x) : r = Rel(root, c)
    BY <2>1, Zenon DEF sanitizeCallerRelativePath
  <2>3. r = x
    BY <1>2, <1>4, <2>2
  <2> QED
    BY <2>1, <2>2, <2>3
<1>6. s # <<>> /\ Clean(s) = [rooted |-> FALSE, parts |-> x] /\ TrimSpace(s) = s
  <2>1. TrimSpace(s) = s
    BY <1>5, Zenon
  <2> HIDE DEF x
  <2>2. s # <<>> /\ Clean(s) = [rooted |-> FALSE, parts |-> x]
    BY <1>1, <1>5, PathTextIs
  <2> QED
    BY <2>1, <2>2
<1> DEFINE path == Clean(TrimSpace(s))
<1>7. path.rooted = FALSE /\ path.parts = x
  <2> HIDE DEF x
  <2> QED
    BY <1>6
<1> HIDE DEF x, path
<1>8. PICK c \in joinWithinBase(work, x) : p \in relativeIfWithinBase(work, c)
  <2>1. p \in validateManagedRelativePath(UNION {relativeIfWithinBase(work, c) : c \in joinWithinBase(work, x)})
    BY <1>3, <1>7, Zenon DEF resolveManagedRelativePath, path
  <2>2. p \in UNION {relativeIfWithinBase(work, c) : c \in joinWithinBase(work, x)}
    BY <2>1, Zenon DEF validateManagedRelativePath
  <2> QED
    BY <2>2, Zenon
<1>9. p = Rel(work, c)
  BY <1>8, Zenon DEF relativeIfWithinBase
<1> QED
  BY <1>2, <1>4, <1>8, <1>9 DEF x

\* A scope that covers a text without ".." contains, read as a location, what
\* cleaning the text yields (ScopeCovers compares texts).
THEOREM ScopesContain ==
  ASSUME NEW T, Slash \in T, NEW scope \in Seq(T), NEW t \in Seq(T),
         Up \notin ToSet(Split(t, Slash)), ScopeCovers(scope, t)
  PROVE  IsPrefix(Clean(scope).parts, Clean(t).parts)
<1> DEFINE E == Seq(T \ {Slash}) \ {Up}
           parts == Split(t, Slash)
<1>1. parts \in Seq(Seq(T \ {Slash})) /\ \A i \in 1..Len(parts) : parts[i] # Up
  <2>1. parts \in Seq(Seq(T \ {Slash}))
    BY SplitIs
  <2>2. \A i \in DOMAIN parts : parts[i] # Up
    <3> HIDE DEF parts
    <3>1. Up \notin ToSet(parts)
      BY DEF parts
    <3> QED
      BY <3>1, Zenon DEF ToSet
  <2> HIDE DEF parts
  <2> QED
    BY <2>1, <2>2
<1> HIDE DEF parts
<1>2. Up \notin E /\ <<>> \in E /\ \A u : u \in Seq(T \ {Slash}) /\ u # Up => u \in E
  BY DEF Up
<1>3. CASE scope = t
  <2>1. Clean(t).parts \in Seq(Element(T))
    BY CleanIs
  <2>2. \A u \in Seq(Element(T)) : IsPrefix(u, u)
    BY DEF IsPrefix
  <2> QED
    BY <1>3, <2>1, <2>2
<1>4. CASE scope # t
  <2>1. scope # <<>> /\ IsPrefix(IF Last(scope) = Slash THEN scope ELSE Append(scope, Slash), t)
    BY <1>4, Zenon DEF ScopeCovers
  <2>2. PICK s \in Seq(T) : /\ scope = s \/ scope = s \o <<Slash>>
                            /\ IsPrefix(s \o <<Slash>>, t)
    <3>1. CASE Last(scope) = Slash
      <4>1. Front(scope) \in Seq(T) /\ scope = Front(scope) \o <<Last(scope)>>
        BY <2>1 DEF Front, Last
      <4> QED
        BY <2>1, <3>1, <4>1, Zenon
    <3>2. CASE Last(scope) # Slash
      <4>1. Append(scope, Slash) = scope \o <<Slash>>
        BY AppendIsConcat
      <4> QED
        BY <2>1, <3>2, <4>1, Zenon
    <3> QED
      BY <3>1, <3>2
  <2>3. PICK r \in Seq(T) : t = s \o <<Slash>> \o r
    <3> DEFINE u == s \o <<Slash>>
    <3>1. u \in Seq(T) /\ Len(u) \in Nat \ {0} /\ Len(t) \in Nat /\ SubSeq(u, 1, Len(u)) = u
      OBVIOUS
    <3> HIDE DEF u
    <3>2. Len(u) <= Len(t) /\ u = SubSeq(t, 1, Len(u))
      BY <2>2, <3>1 DEF IsPrefix, u
    <3>3. SubSeq(t, 1, Len(u)) \o SubSeq(t, Len(u) + 1, Len(t)) = SubSeq(t, 1, Len(t))
      <4>1. 1 \in 1..(Len(t) + 1) /\ Len(u) \in (1 - 1)..Len(t) /\ Len(t) \in Len(u)..Len(t)
        BY <3>1, <3>2
      <4> QED
        BY <4>1, ConcatAdjacentSubSeq
    <3>4. SubSeq(t, 1, Len(t)) = t
      OBVIOUS
    <3>5. SubSeq(t, Len(u) + 1, Len(t)) \in Seq(T)
      <4>1. Len(u) + 1 \in Nat \ {0} /\ Len(t) \in Nat /\ Len(t) <= Len(t)
        BY <3>1
      <4> QED
        BY <4>1, StretchIs
    <3> QED
      BY <3>2, <3>3, <3>4, <3>5, Zenon DEF u
  <2> DEFINE q == Split(s, Slash)
             tail == Split(r, Slash)
  <2>4. parts = q \o tail
    <3>1. Separates(s, r, Slash)
      BY SplitAt
    <3> QED
      BY <2>3, <3>1, Zenon DEF Separates, parts
  <2>5. q \in Seq(Seq(T \ {Slash})) /\ tail \in Seq(Seq(T \ {Slash}))
    BY SplitIs
  <2> HIDE DEF q, tail, E
  <2>6. q \in Seq(E) /\ tail \in Seq(E)
    <3>1. /\ \A i \in 1..Len(q) : q[i] \in Seq(T \ {Slash}) /\ q[i] # Up
          /\ \A i \in 1..Len(tail) : tail[i] \in Seq(T \ {Slash}) /\ tail[i] # Up
      <4>1. /\ Len(q) \in Nat /\ Len(tail) \in Nat /\ Len(parts) = Len(q) + Len(tail)
            /\ \A i \in 1..Len(q) : parts[i] = q[i] /\ q[i] \in Seq(T \ {Slash})
            /\ \A i \in 1..Len(tail) : parts[i + Len(q)] = tail[i] /\ tail[i] \in Seq(T \ {Slash})
        BY <2>4, <2>5
      <4>2. /\ \A i \in 1..Len(q) : i \in 1..Len(parts)
            /\ \A i \in 1..Len(tail) : i + Len(q) \in 1..Len(parts)
        BY <4>1
      <4> QED
        BY <1>1, <4>1, <4>2, Zenon
    <3>2. /\ \A i \in 1..Len(q) : q[i] \in E
          /\ \A i \in 1..Len(tail) : tail[i] \in E
      BY <1>2, <3>1, Zenon
    <3> QED
      BY <2>5, <3>2, Narrow, Zenon
  <2> DEFINE above == t # <<>> /\ Head(t) = Slash
             rooted == scope # <<>> /\ Head(scope) = Slash
  <2>7. Clean(t).parts = Walk(above, <<>>, q \o tail)
    BY <2>4, Zenon DEF Clean, parts
  <2>8. Clean(scope).parts = Walk(rooted, <<>>, Split(scope, Slash))
    BY DEF Clean
  <2> HIDE DEF above, rooted
  <2>9. IsPrefix(Walk(rooted, <<>>, q), Clean(t).parts)
    <3>1. IsPrefix(Walk(rooted, <<>>, q), Walk(above, <<>>, q \o tail))
      BY <1>2, <2>6, WalkFurther
    <3> QED
      BY <2>7, <3>1, Zenon
  <2>10. CASE scope = s
    BY <2>8, <2>9, <2>10, Zenon DEF q
  <2>11. CASE scope = s \o <<Slash>>
    <3>1. Split(scope, Slash) = q \o << <<>> >>
      <4>1. <<>> \in Seq(T) /\ Separates(s, <<>>, Slash)
        <5>1. <<>> \in Seq(T)
          OBVIOUS
        <5> QED
          BY <5>1, SplitAt
      <4>2. s \o <<Slash>> \o <<>> = s \o <<Slash>>
        OBVIOUS
      <4>3. Split(<<>>, Slash) = << <<>> >>
        <5> DEFINE D == {}
        <5>1. <<>> \in Seq(D) /\ Slash \notin D
          OBVIOUS
        <5> HIDE DEF D
        <5>2. PICK e \in Seq(D) : e = <<>>
          BY <5>1
        <5>3. Split(e, Slash) = <<e>>
          BY <5>1, SplitPlain
        <5> QED
          BY <5>2, <5>3, Zenon
      <4> QED
        BY <2>11, <4>1, <4>2, <4>3, Zenon DEF Separates, q
    <3>2. Walk(rooted, <<>>, q \o << <<>> >>) = Climb(rooted, Walk(rooted, <<>>, q), <<>>)
      <4>1. PICK e \in E : e = <<>>
        BY <1>2
      <4>2. PICK from \in Seq(E) : from = <<>>
        <5>1. <<>> \in Seq(E)
          OBVIOUS
        <5> QED
          BY <5>1
      <4>3. Onward(rooted, from, q, e)
        BY <2>6, WalkOn
      <4> QED
        BY <4>1, <4>2, <4>3, Zenon DEF Onward
    <3>3. <<>> \in NotIn
      BY DEF NotIn
    <3>4. Clean(scope).parts = Walk(rooted, <<>>, q)
      BY <2>8, <3>1, <3>2, <3>3, Zenon DEF Climb
    <3> QED
      BY <2>9, <3>4, Zenon
  <2> QED
    BY <2>2, <2>10, <2>11
<1> QED
  BY <1>3, <1>4

=============================================================================
