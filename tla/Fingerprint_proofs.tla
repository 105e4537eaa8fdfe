------------------------- MODULE Fingerprint_proofs -------------------------
(***************************************************************************)
(* Proofs about Fingerprint, for bytes and maps of any size: what is       *)
(* written of two inputs (DigestTells) or of two skills (HashTells) tells  *)
(* them apart.                                                             *)
(*                                                                         *)
(* What is written one after another can be read back when no two pieces   *)
(* agree as far as the shorter goes.  In a digest the zero byte behind a   *)
(* field sees to that, in a hash the length before it and the number       *)
(* before a list.  The keys of a map are written in the one order there    *)
(* is, and so are capabilities, each as often as it is declared.           *)
(***************************************************************************)
EXTENDS Fingerprint, Paths_proofs

-----------------------------------------------------------------------------
(* Codes.  Two sequences agree when one begins with the other.  A set of   *)
(* sequences of which no two agree can be written one after another and    *)
(* read back.                                                              *)

Agree(a, b) == \A i \in 1..Len(a) : i <= Len(b) => a[i] = b[i]

LEMMA AgreeFront ==
  ASSUME NEW S, NEW a \in Seq(S), NEW b \in Seq(S), NEW r \in Seq(S), NEW s \in Seq(S),
         Agree(a \o r, b \o s)
  PROVE  Agree(a, b)
<1> DEFINE u == a \o r
           v == b \o s
<1>1. /\ Len(u) = Len(a) + Len(r) /\ Len(v) = Len(b) + Len(s)
      /\ Len(a) \in Nat /\ Len(r) \in Nat /\ Len(b) \in Nat /\ Len(s) \in Nat
      /\ \A i \in 1..Len(a) : u[i] = a[i]
      /\ \A i \in 1..Len(b) : v[i] = b[i]
  OBVIOUS
<1>2. Agree(u, v)
  OBVIOUS
<1> HIDE DEF u, v
<1> SUFFICES ASSUME NEW i \in 1..Len(a), i <= Len(b)
             PROVE  a[i] = b[i]
  BY DEF Agree
<1>3. i \in 1..Len(b) /\ i \in 1..Len(u) /\ i <= Len(v)
  BY <1>1
<1>4. u[i] = v[i]
  BY <1>2, <1>3 DEF Agree
<1> QED
  BY <1>1, <1>3, <1>4

LEMMA AgreeBack ==
  ASSUME NEW S, NEW a \in Seq(S), NEW r \in Seq(S), NEW s \in Seq(S),
         Agree(a \o r, a \o s)
  PROVE  Agree(r, s)
<1> DEFINE u == a \o r
           v == a \o s
           n == Len(a)
<1>1. /\ Len(u) = n + Len(r) /\ Len(v) = n + Len(s)
      /\ n \in Nat /\ Len(r) \in Nat /\ Len(s) \in Nat
      /\ \A i \in 1..Len(r) : u[n + i] = r[i]
      /\ \A i \in 1..Len(s) : v[n + i] = s[i]
  OBVIOUS
<1>2. Agree(u, v)
  OBVIOUS
<1> HIDE DEF u, v, n
<1> SUFFICES ASSUME NEW i \in 1..Len(r), i <= Len(s)
             PROVE  r[i] = s[i]
  BY DEF Agree
<1>3. i \in 1..Len(s) /\ n + i \in 1..Len(u) /\ n + i <= Len(v)
  BY <1>1
<1>4. u[n + i] = v[n + i]
  BY <1>2, <1>3 DEF Agree
<1> QED
  BY <1>1, <1>3, <1>4

LEMMA AgreeSame ==
  ASSUME NEW a
  PROVE  Agree(a, a)
BY DEF Agree

LEMMA AgreeSwap ==
  ASSUME NEW S, NEW a \in Seq(S), NEW b \in Seq(S), Agree(a, b)
  PROVE  Agree(b, a)
<1>1. Len(a) \in Nat /\ Len(b) \in Nat
  OBVIOUS
<1> QED
  BY <1>1 DEF Agree

\* b begins with a.
Starts(a, b) == Len(a) <= Len(b) /\ \A k \in 1..Len(a) : a[k] = b[k]

LEMMA StartsOn ==
  ASSUME NEW S, NEW a \in Seq(S), NEW b \in Seq(S), NEW r \in Seq(S), Starts(a, b)
  PROVE  Starts(a, b \o r)
<1> DEFINE v == b \o r
<1>1. /\ Len(v) = Len(b) + Len(r) /\ Len(a) \in Nat /\ Len(b) \in Nat /\ Len(r) \in Nat
      /\ \A k \in 1..Len(b) : v[k] = b[k]
  OBVIOUS
<1> HIDE DEF v
<1>2. Starts(a, v)
  BY <1>1 DEF Starts
<1> QED
  BY <1>2 DEF v

LEMMA StartsAgree ==
  ASSUME NEW S, NEW a \in Seq(S), NEW b \in Seq(S), NEW u \in Seq(S), NEW v \in Seq(S),
         Starts(a, u), Starts(b, v), Agree(u, v)
  PROVE  Agree(a, b)
<1>1. Len(a) \in Nat /\ Len(b) \in Nat /\ Len(u) \in Nat /\ Len(v) \in Nat
  OBVIOUS
<1> SUFFICES ASSUME NEW i \in 1..Len(a), i <= Len(b)
             PROVE  a[i] = b[i]
  BY DEF Agree
<1>2. i \in 1..Len(b) /\ i \in 1..Len(u) /\ i <= Len(v)
  BY <1>1 DEF Starts
<1> QED
  BY <1>2 DEF Starts, Agree

\* f[i] is what the first i texts of A are, written one after another.
Sums(S, A, f) ==
  /\ f \in [0..Len(A) -> Seq(S)]
  /\ f[0] = <<>>
  /\ \A i \in 1..Len(A) : f[i] = f[i - 1] \o A[i]
  /\ \A i \in 0..Len(A) : Starts(f[i], FlattenSeq(A))
  /\ FlattenSeq(A) = f[Len(A)]

LEMMA SumsExist ==
  ASSUME NEW S, NEW A \in Seq(Seq(S))
  PROVE  \E f : Sums(S, A, f)
<1>1. PICK f \in [0..Len(A) -> Seq(S)] :
        /\ f[0] = <<>>
        /\ \A i \in 1..Len(A) : f[i] = f[i - 1] \o A[i]
        /\ FlattenSeq(A) = f[Len(A)]
  BY Flattened, Zenon
<1>2. Len(A) \in Nat /\ \A i \in 1..Len(A) : A[i] \in Seq(S)
  OBVIOUS
<1> DEFINE n == Len(A)
           On == {j \in 0..n : \A i \in 0..j : Starts(f[i], f[j])}
<1> HIDE DEF n
<1>3. \A a \in Seq(S) : Starts(a, a)
  <2> SUFFICES ASSUME NEW a \in Seq(S) PROVE Starts(a, a)
    OBVIOUS
  <2>1. Len(a) \in Nat
    OBVIOUS
  <2> QED
    BY <2>1 DEF Starts
<1>4. \A i \in 0..n : f[i] \in Seq(S)
  BY <1>1 DEF n
<1>5. 0 \in On
  BY <1>2, <1>3, <1>4 DEF n
<1>6. ASSUME NEW j \in 1..n, j - 1 \in On
      PROVE  j \in On
  <2>1. j \in 0..n /\ j - 1 \in 0..n
    BY <1>2 DEF n
  <2>2. f[j] = f[j - 1] \o A[j] /\ A[j] \in Seq(S)
    BY <1>1, <1>2 DEF n
  <2>3. ASSUME NEW i \in 0..j
        PROVE  Starts(f[i], f[j])
    <3>1. CASE i = j
      BY <1>3, <1>4, <2>1, <3>1
    <3>2. CASE i # j
      <4>1. i \in 0..(j - 1) /\ i \in 0..n
        BY <1>2, <2>1, <3>2 DEF n
      <4>2. Starts(f[i], f[j - 1])
        BY <1>6, <4>1
      <4>3. Starts(f[i], f[j - 1] \o A[j])
        BY <1>4, <2>1, <2>2, <4>1, <4>2, StartsOn
      <4> QED
        BY <2>2, <4>3, Zenon
    <3> QED
      BY <3>1, <3>2
  <2> QED
    BY <2>1, <2>3
<1> HIDE DEF On
<1>7. \A j \in 0..n : j \in On
  <2>1. n \in Nat
    BY <1>2 DEF n
  <2> QED
    BY <1>5, <1>6, <2>1, Upward
<1>8. n \in On
  BY <1>2, <1>7 DEF n
<1>9. \A i \in 0..n : Starts(f[i], f[n])
  BY <1>8 DEF On
<1>10. \A i \in 0..Len(A) : Starts(f[i], FlattenSeq(A))
  BY <1>1, <1>9, Zenon DEF n
<1> QED
  BY <1>1, <1>10, Zenon DEF Sums

\* Where both have a text, the two texts do not agree unless they are equal.
Apart(A, B) == \A i \in 1..Len(A) : i <= Len(B) /\ Agree(A[i], B[i]) => A[i] = B[i]

\* The same up to where one of them ends.
Told(A, B, f, g) ==
  \A i \in 0..Len(A) : i <= Len(B) => f[i] = g[i] /\ (i # 0 => A[i] = B[i])

\* Sequences of texts that do not agree unless they are equal are equal as far
\* as both go when what they are written as agrees.
LEMMA SumsAgree ==
  ASSUME NEW S, NEW A \in Seq(Seq(S)), NEW B \in Seq(Seq(S)),
         Apart(A, B),
         Agree(FlattenSeq(A), FlattenSeq(B)),
         NEW f, Sums(S, A, f), NEW g, Sums(S, B, g)
  PROVE  Told(A, B, f, g)
<1>1. Sums(S, A, f)
  OBVIOUS
<1>2. Sums(S, B, g)
  OBVIOUS
<1>3. Len(A) \in Nat /\ Len(B) \in Nat
  OBVIOUS
<1>4. PICK n \in Nat : n <= Len(A) /\ n <= Len(B) /\ (n = Len(A) \/ n = Len(B))
  <2>1. CASE Len(A) <= Len(B)
    BY <1>3, <2>1
  <2>2. CASE Len(B) <= Len(A)
    BY <1>3, <2>2
  <2> QED
    BY <1>3, <2>1, <2>2
<1> DEFINE Same == {i \in 0..n : f[i] = g[i] /\ (i # 0 => A[i] = B[i])}
<1>5. 0 \in Same
  BY <1>1, <1>2 DEF Sums
<1>6. ASSUME NEW i \in 1..n, i - 1 \in Same
      PROVE  i \in Same
  <2>1. /\ i \in 1..Len(A) /\ i \in 0..Len(A) /\ i - 1 \in 0..Len(A)
        /\ i \in 1..Len(B) /\ i \in 0..Len(B) /\ i <= Len(B)
    BY <1>3, <1>4
  <2>2. PICK p \in Seq(S) : p = f[i - 1] /\ p = g[i - 1]
    BY <1>1, <1>6, <2>1 DEF Sums
  <2>3. PICK a \in Seq(S), b \in Seq(S) : a = A[i] /\ b = B[i]
    BY <2>1
  <2>4. f[i] = p \o a /\ g[i] = p \o b
    BY <1>1, <1>2, <2>1, <2>2, <2>3, Zenon DEF Sums
  <2>5. Agree(f[i], g[i])
    <3>1. Starts(f[i], FlattenSeq(A)) /\ Starts(g[i], FlattenSeq(B))
      BY <1>1, <1>2, <2>1, Zenon DEF Sums
    <3>2. f[i] \in Seq(S) /\ g[i] \in Seq(S)
      BY <1>1, <1>2, <2>1 DEF Sums
    <3>3. FlattenSeq(A) \in Seq(S) /\ FlattenSeq(B) \in Seq(S)
      <4>1. Len(A) \in 0..Len(A) /\ Len(B) \in 0..Len(B)
        BY <1>3
      <4>2. f[Len(A)] \in Seq(S) /\ g[Len(B)] \in Seq(S)
        BY <1>1, <1>2, <4>1 DEF Sums
      <4> QED
        BY <1>1, <1>2, <4>2, Zenon DEF Sums
    <3> QED
      BY <3>1, <3>2, <3>3, StartsAgree, Zenon
  <2>6. Agree(p \o a, p \o b)
    BY <2>4, <2>5, Zenon
  <2>7. Agree(a, b)
    BY <2>6, AgreeBack, Zenon
  <2>8. A[i] = B[i]
    BY <2>1, <2>3, <2>7, Zenon DEF Apart
  <2>9. f[i] = g[i]
    BY <2>3, <2>4, <2>8, Zenon
  <2>10. i \in 0..n
    OBVIOUS
  <2> QED
    BY <2>8, <2>9, <2>10
<1> HIDE DEF Same
<1>7. \A i \in 0..n : i \in Same
  BY <1>5, <1>6, Upward
<1> SUFFICES ASSUME NEW i \in 0..Len(A), i <= Len(B)
             PROVE  f[i] = g[i] /\ (i # 0 => A[i] = B[i])
  BY DEF Told
<1>8. i \in 0..n
  BY <1>3, <1>4
<1> QED
  BY <1>7, <1>8 DEF Same

LEMMA ReadBack ==
  ASSUME NEW S, NEW A \in Seq(Seq(S)), NEW B \in Seq(Seq(S)),
         Apart(A, B),
         Agree(FlattenSeq(A), FlattenSeq(B))
  PROVE  Agree(A, B)
<1>1. PICK f : Sums(S, A, f)
  BY SumsExist
<1>2. PICK g : Sums(S, B, g)
  BY SumsExist
<1>3. Told(A, B, f, g)
  BY <1>1, <1>2, SumsAgree, Zenon
<1>4. Len(A) \in Nat
  OBVIOUS
<1> SUFFICES ASSUME NEW i \in 1..Len(A), i <= Len(B)
             PROVE  A[i] = B[i]
  BY DEF Agree
<1>5. i \in 0..Len(A) /\ i # 0
  BY <1>4
<1> QED
  BY <1>3, <1>5 DEF Told

\* With a number of texts, nothing is left over.
LEMMA ReadLength ==
  ASSUME NEW S, NEW A \in Seq(Seq(S)), NEW B \in Seq(Seq(S)),
         Apart(A, B),
         Len(A) = Len(B), Agree(FlattenSeq(A), FlattenSeq(B))
  PROVE  A = B
<1>1. Agree(A, B)
  BY ReadBack, Zenon
<1>2. Len(A) \in Nat /\ \A i \in 1..Len(A) : A[i] = B[i]
  BY <1>1 DEF Agree
<1> QED
  BY <1>2, SeqEqual

\* Nothing follows the end.
LEMMA ReadEnd ==
  ASSUME NEW S, NEW A \in Seq(Seq(S)), NEW B \in Seq(Seq(S)),
         Apart(A, B),
         \A i \in 1..Len(B) : B[i] # <<>>,
         Agree(FlattenSeq(A), FlattenSeq(B)), Len(FlattenSeq(B)) <= Len(FlattenSeq(A))
  PROVE  ~(Len(A) < Len(B))
<1>1. PICK f : Sums(S, A, f)
  BY SumsExist
<1>2. PICK g : Sums(S, B, g)
  BY SumsExist
<1>13. Told(A, B, f, g)
  BY <1>1, <1>2, SumsAgree, Zenon
<1> SUFFICES ASSUME Len(A) < Len(B)
             PROVE  FALSE
  OBVIOUS
<1>3. PICK m \in Nat : m = Len(A)
  OBVIOUS
<1>4. m \in 0..Len(A) /\ m <= Len(B) /\ m + 1 \in 1..Len(B) /\ (m + 1) - 1 = m
        /\ m \in 0..Len(B) /\ m + 1 \in 0..Len(B)
  <2>1. Len(B) \in Nat
    OBVIOUS
  <2> QED
    BY <1>3, <2>1
<1>5. f[m] = g[m]
  BY <1>4, <1>13 DEF Told
<1>6. PICK p \in Seq(S) : p = g[m] /\ p = FlattenSeq(A)
  BY <1>1, <1>3, <1>4, <1>5 DEF Sums
<1>7. PICK b \in Seq(S) : b = B[m + 1] /\ b # <<>>
  BY <1>4
<1>8. g[m + 1] = p \o b
  BY <1>2, <1>4, <1>6, <1>7, Zenon DEF Sums
<1>9. Len(p \o b) <= Len(FlattenSeq(B))
  <2>1. Starts(g[m + 1], FlattenSeq(B))
    BY <1>2, <1>4, Zenon DEF Sums
  <2>2. Starts(p \o b, FlattenSeq(B))
    BY <1>8, <2>1, Zenon
  <2> QED
    BY <2>2, Zenon DEF Starts
<1>10. Len(p \o b) = Len(p) + Len(b) /\ Len(p) \in Nat /\ Len(b) \in Nat /\ Len(b) # 0
  BY <1>7
<1>11. PICK k : k = Len(FlattenSeq(B)) /\ k <= Len(p)
  BY <1>6
<1>12. k \in Nat
  <2>1. FlattenSeq(B) = g[Len(B)] /\ g \in [0..Len(B) -> Seq(S)] /\ Len(B) \in 0..Len(B)
    BY <1>2 DEF Sums
  <2>2. FlattenSeq(B) \in Seq(S)
    BY <2>1, Zenon
  <2> QED
    BY <1>11, <2>2, LenProperties
<1> QED
  BY <1>9, <1>10, <1>11, <1>12

LEMMA ReadAll ==
  ASSUME NEW S, NEW A \in Seq(Seq(S)), NEW B \in Seq(Seq(S)),
         \A i \in 1..Len(A) : A[i] # <<>>, \A i \in 1..Len(B) : B[i] # <<>>,
         Apart(A, B),
         FlattenSeq(A) = FlattenSeq(B)
  PROVE  A = B
<1>0. /\ Agree(FlattenSeq(A), FlattenSeq(B)) /\ Agree(FlattenSeq(B), FlattenSeq(A))
      /\ Len(FlattenSeq(A)) <= Len(FlattenSeq(B)) /\ Len(FlattenSeq(B)) <= Len(FlattenSeq(A))
  <2>1. Agree(FlattenSeq(A), FlattenSeq(B)) /\ Agree(FlattenSeq(B), FlattenSeq(A))
    BY AgreeSame, Zenon
  <2>2. PICK n \in Nat : n = Len(FlattenSeq(A))
    <3>1. FlattenSeq(A) \in Seq(S)
      <4>1. PICK f : Sums(S, A, f)
        BY SumsExist
      <4>2. FlattenSeq(A) = f[Len(A)] /\ f \in [0..Len(A) -> Seq(S)] /\ Len(A) \in 0..Len(A)
        BY <4>1 DEF Sums
      <4> QED
        BY <4>2, Zenon
    <3> QED
      BY <3>1, LenProperties
  <2>3. Len(FlattenSeq(B)) = n
    BY <2>2, Zenon
  <2>4. n <= n
    BY <2>2
  <2> QED
    BY <2>1, <2>2, <2>3, <2>4, Zenon
<1>1. ~(Len(A) < Len(B))
  BY <1>0, ReadEnd, Zenon
<1>2. Apart(B, A)
  <2> SUFFICES ASSUME NEW i \in 1..Len(B), i <= Len(A), Agree(B[i], A[i])
               PROVE  B[i] = A[i]
    BY DEF Apart
  <2>1. i \in 1..Len(A) /\ i <= Len(B)
    <3>1. Len(A) \in Nat /\ Len(B) \in Nat
      OBVIOUS
    <3> QED
      BY <3>1
  <2>2. A[i] \in Seq(S) /\ B[i] \in Seq(S)
    BY <2>1
  <2>3. Agree(A[i], B[i])
    BY <2>2, AgreeSwap, Zenon
  <2> QED
    BY <2>1, <2>3 DEF Apart
<1>3. ~(Len(B) < Len(A))
  BY <1>0, <1>2, ReadEnd, Zenon
<1>4. Len(A) = Len(B)
  <2>1. Len(A) \in Nat /\ Len(B) \in Nat
    OBVIOUS
  <2> QED
    BY <1>1, <1>3, <2>1
<1> QED
  BY <1>0, <1>4, ReadLength, Zenon

-----------------------------------------------------------------------------
(* Sorting.                                                                *)

\* R puts the elements of S in one order.
Orders(R, S) ==
  /\ \A x \in S : <<x, x>> \notin R
  /\ \A x, y, z \in S : <<x, y>> \in R /\ <<y, z>> \in R => <<x, z>> \in R
  /\ \A x, y \in S : x = y \/ <<x, y>> \in R \/ <<y, x>> \in R

\* An element goes where as many others come before it.
LEMMA Ranked ==
  ASSUME NEW S, IsFiniteSet(S), NEW R, Orders(R, S)
  PROVE  \E f \in Bijection(S, 1..Cardinality(S)) :
           \A x, y \in S : f[x] < f[y] => <<x, y>> \in R
<1> DEFINE n == Cardinality(S)
           Upto(x) == {y \in S : y = x \/ <<y, x>> \in R}
           f == [x \in S |-> Cardinality(Upto(x))]
<1>1. n \in Nat
  BY FS_CardinalityType
<1>2. \A x \in S : IsFiniteSet(Upto(x)) /\ Upto(x) \subseteq S /\ x \in Upto(x)
  BY FS_Subset
<1>3. \A x \in S : f[x] \in 1..n
  <2> SUFFICES ASSUME NEW x \in S PROVE f[x] \in 1..n
    OBVIOUS
  <2>1. PICK U \in SUBSET S : U = Upto(x) /\ IsFiniteSet(U) /\ x \in U
    BY <1>2
  <2>2. Cardinality(U) <= n
    BY FS_Subset
  <2>3. Cardinality(U) \in Nat /\ Cardinality(U) # 0
    BY <2>1, FS_CardinalityType, FS_EmptySet
  <2>4. f[x] = Cardinality(U)
    BY <2>1
  <2> QED
    BY <1>1, <2>2, <2>3, <2>4
<1>4. ASSUME NEW x \in S, NEW y \in S, <<x, y>> \in R
      PROVE  f[x] < f[y]
  <2>1. PICK U \in SUBSET S : U = Upto(x) /\ IsFiniteSet(U)
    BY <1>2
  <2>2. PICK V \in SUBSET S : V = Upto(y) /\ IsFiniteSet(V)
    BY <1>2
  <2>3. U \subseteq V /\ y \in V /\ y \notin U
    BY <1>4, <2>1, <2>2 DEF Orders
  <2>4. U \in SUBSET V /\ U # V
    BY <2>3
  <2>5. Cardinality(U) <= Cardinality(V) /\ Cardinality(V) # Cardinality(U)
    BY <2>2, <2>4, FS_Subset
  <2>6. Cardinality(U) \in Nat /\ Cardinality(V) \in Nat
    BY <2>1, <2>2, FS_CardinalityType
  <2>7. f[x] = Cardinality(U) /\ f[y] = Cardinality(V)
    BY <2>1, <2>2
  <2> QED
    BY <2>5, <2>6, <2>7
<1> HIDE DEF f
<1>5. f \in [S -> 1..n]
  <2>1. f = [x \in S |-> f[x]]
    BY Zenon DEF f
  <2> QED
    BY <1>3, <2>1
<1>6. \A x, y \in S : f[x] < f[y] => <<x, y>> \in R
  <2> SUFFICES ASSUME NEW x \in S, NEW y \in S, f[x] < f[y] PROVE <<x, y>> \in R
    OBVIOUS
  <2>1. f[x] \in Nat /\ f[y] \in Nat
    BY <1>1, <1>3
  <2>2. ~(f[y] < f[x]) /\ x # y
    BY <2>1
  <2> QED
    BY <1>4, <2>2 DEF Orders
<1>7. f \in Injection(S, 1..n)
  <2>1. ASSUME NEW x \in S, NEW y \in S, f[x] = f[y]
        PROVE  x = y
    <3>1. f[x] \in Nat /\ f[y] \in Nat
      BY <1>1, <1>3
    <3>2. ~(f[x] < f[y]) /\ ~(f[y] < f[x])
      BY <2>1, <3>1
    <3> QED
      BY <1>4, <3>2 DEF Orders
  <2> QED
    BY <1>5, <2>1 DEF Injection, IsInjective
<1>8. f \in Surjection(S, 1..n)
  <2>1. IsFiniteSet(1..n) /\ Cardinality(1..n) = n
    BY <1>1, FS_Interval
  <2> QED
    BY <1>7, <2>1, FS_Injection
<1> QED
  BY <1>6, <1>7, <1>8 DEF Bijection

\* s lists the elements of S in that order.
Lists(s, S, R) ==
  /\ s \in [1..Cardinality(S) -> S]
  /\ \A i, j \in DOMAIN s : i < j => <<s[i], s[j]>> \in R

LEMMA SortedExists ==
  ASSUME NEW S, IsFiniteSet(S), NEW R, Orders(R, S)
  PROVE  \E s : Lists(s, S, R)
<1> DEFINE n == Cardinality(S)
<1>1. PICK f \in Bijection(S, 1..n) : \A x, y \in S : f[x] < f[y] => <<x, y>> \in R
  BY Ranked
<1> HIDE DEF n
<1>2. \A i \in 1..n : \E x \in S : f[x] = i
  BY <1>1 DEF Bijection, Surjection
<1> DEFINE s == [i \in 1..n |-> CHOOSE x \in S : f[x] = i]
<1>3. \A i \in 1..n : s[i] \in S /\ f[s[i]] = i
  BY <1>2
<1>4. DOMAIN s = 1..n /\ s = [i \in 1..n |-> s[i]]
  OBVIOUS
<1> HIDE DEF s
<1>5. s \in [1..n -> S]
  BY <1>3, <1>4
<1>6. \A i, j \in DOMAIN s : i < j => <<s[i], s[j]>> \in R
  BY <1>1, <1>3, <1>4
<1>7. Lists(s, S, R)
  BY <1>5, <1>6 DEF Lists, n
<1> QED
  BY <1>7

\* A list of S holds all of S.
LEMMA ListsAll ==
  ASSUME NEW S, IsFiniteSet(S), NEW R, Orders(R, S), NEW s, Lists(s, S, R)
  PROVE  \A x \in S : \E i \in 1..Cardinality(S) : s[i] = x
<1> DEFINE n == Cardinality(S)
<1>1. n \in Nat
  BY FS_CardinalityType
<1>2. s \in [1..n -> S] /\ \A i, j \in 1..n : i < j => <<s[i], s[j]>> \in R
  BY DEF Lists
<1>3. IsFiniteSet(1..n) /\ Cardinality(1..n) = n
  BY <1>1, FS_Interval
<1> HIDE DEF n
<1>4. s \in Injection(1..n, S)
  <2>1. ASSUME NEW i \in 1..n, NEW j \in 1..n, s[i] = s[j]
        PROVE  i = j
    <3>1. <<s[i], s[j]>> \notin R /\ <<s[j], s[i]>> \notin R
      BY <1>2, <2>1 DEF Orders
    <3>2. ~(i < j) /\ ~(j < i)
      BY <1>2, <3>1
    <3> QED
      BY <1>1, <3>2
  <2> QED
    BY <1>2, <2>1 DEF Injection, IsInjective
<1>5. s \in Surjection(1..n, S)
  <2>1. Cardinality(1..n) = Cardinality(S)
    BY <1>3 DEF n
  <2> QED
    BY <1>4, <2>1, FS_Injection
<1> QED
  BY <1>5 DEF Surjection, n

-----------------------------------------------------------------------------
(* The order of bytes.                                                     *)

\* b comes before c because of position i.
Turns(b, c, i) ==
  /\ i \in 1..Len(c) /\ i <= Len(b) + 1
  /\ \A k \in 1..(i - 1) : b[k] = c[k]
  /\ i <= Len(b) => b[i] < c[i]

LEMMA FrontSame ==
  ASSUME NEW b \in Seq(Nat), NEW c \in Seq(Nat), NEW n \in Nat, n <= Len(b), n <= Len(c)
  PROVE  SubSeq(b, 1, n) = SubSeq(c, 1, n) <=> \A k \in 1..n : b[k] = c[k]
<1> DEFINE x == SubSeq(b, 1, n)
           y == SubSeq(c, 1, n)
<1>1. x \in Seq(Nat) /\ Len(x) = n /\ \A k \in 1..n : x[k] = b[k]
  OBVIOUS
<1>2. y \in Seq(Nat) /\ Len(y) = n /\ \A k \in 1..n : y[k] = c[k]
  OBVIOUS
<1> HIDE DEF x, y
<1>3. x = y <=> \A k \in 1..n : x[k] = y[k]
  BY <1>1, <1>2, SeqEqual
<1>4. x = y <=> \A k \in 1..n : b[k] = c[k]
  BY <1>1, <1>2, <1>3
<1> QED
  BY <1>4 DEF x, y

LEMMA BeforeIs ==
  ASSUME NEW s, NEW t, Bytes(s) \in Seq(Nat), Bytes(t) \in Seq(Nat)
  PROVE  Before(s, t) <=> \E i \in Nat : Turns(Bytes(s), Bytes(t), i)
<1>1. PICK b \in Seq(Nat) : b = Bytes(s)
  OBVIOUS
<1>2. PICK c \in Seq(Nat) : c = Bytes(t)
  OBVIOUS
<1>3. /\ Len(b) \in Nat /\ DOMAIN b = 1..Len(b)
      /\ Len(c) \in Nat /\ DOMAIN c = 1..Len(c)
      /\ \A k \in 1..Len(b) : b[k] \in Nat
      /\ \A k \in 1..Len(c) : c[k] \in Nat
  OBVIOUS
<1>4. Before(s, t) <=>
        b # c /\ \/ Len(b) <= Len(c) /\ SubSeq(b, 1, Len(b)) = SubSeq(c, 1, Len(b))
                 \/ \E i \in DOMAIN b \cap DOMAIN c :
                      b[i] < c[i] /\ SubSeq(b, 1, i - 1) = SubSeq(c, 1, i - 1)
  BY <1>1, <1>2, Zenon DEF Before, IsPrefix
<1>5. Len(b) <= Len(c) =>
        (SubSeq(b, 1, Len(b)) = SubSeq(c, 1, Len(b)) <=> \A k \in 1..Len(b) : b[k] = c[k])
  BY <1>3, FrontSame
<1>6. \A i \in DOMAIN b \cap DOMAIN c :
        SubSeq(b, 1, i - 1) = SubSeq(c, 1, i - 1) <=> \A k \in 1..(i - 1) : b[k] = c[k]
  <2> SUFFICES ASSUME NEW i \in DOMAIN b \cap DOMAIN c
               PROVE  SubSeq(b, 1, i - 1) = SubSeq(c, 1, i - 1)
                        <=> \A k \in 1..(i - 1) : b[k] = c[k]
    OBVIOUS
  <2>2. i \in Nat /\ i # 0 /\ i <= Len(b) /\ i <= Len(c)
    BY <1>3
  <2>1. PICK n \in Nat : n = i - 1 /\ n <= Len(b) /\ n <= Len(c)
    BY <1>3, <2>2
  <2> QED
    BY <2>1, FrontSame
<1>7. ASSUME b # c, Len(b) <= Len(c), \A k \in 1..Len(b) : b[k] = c[k]
      PROVE  Turns(b, c, Len(b) + 1)
  <2>1. Len(b) # Len(c)
    BY <1>3, <1>7, SeqEqual
  <2>2. Len(b) + 1 \in 1..Len(c) /\ ~(Len(b) + 1 <= Len(b)) /\ (Len(b) + 1) - 1 = Len(b)
    <3>1. Len(b) <= Len(c)
      BY <1>7
    <3>2. PICK m \in Nat, n \in Nat : m = Len(b) /\ n = Len(c)
      BY <1>3
    <3>3. m + 1 \in 1..n /\ ~(m + 1 <= m) /\ (m + 1) - 1 = m
      BY <2>1, <3>1, <3>2
    <3> QED
      BY <3>2, <3>3
  <2> QED
    BY <1>3, <1>7, <2>2 DEF Turns
<1>8. ASSUME NEW i \in DOMAIN b \cap DOMAIN c, b[i] < c[i], \A k \in 1..(i - 1) : b[k] = c[k]
      PROVE  Turns(b, c, i)
  BY <1>3, <1>8 DEF Turns
<1>9. ASSUME NEW i \in Nat, Turns(b, c, i)
      PROVE  /\ b # c
             /\ \/ Len(b) <= Len(c) /\ \A k \in 1..Len(b) : b[k] = c[k]
                \/ i \in DOMAIN b \cap DOMAIN c /\ b[i] < c[i] /\ \A k \in 1..(i - 1) : b[k] = c[k]
  <2>1. CASE i <= Len(b)
    <3>1. i \in DOMAIN b /\ i \in DOMAIN c /\ b[i] < c[i] /\ \A k \in 1..(i - 1) : b[k] = c[k]
      BY <1>3, <1>9, <2>1 DEF Turns
    <3>2. b[i] # c[i]
      BY <1>3, <3>1
    <3> QED
      BY <3>1, <3>2
  <2>2. CASE ~(i <= Len(b))
    <3>3. i <= Len(b) + 1
      BY <1>9 DEF Turns
    <3>1. i = Len(b) + 1
      BY <1>3, <2>2, <3>3
    <3>2. Len(b) < Len(c) /\ \A k \in 1..Len(b) : b[k] = c[k]
      BY <1>3, <1>9, <3>1 DEF Turns
    <3> QED
      BY <1>3, <3>2
  <2> QED
    BY <2>1, <2>2
<1>10. Before(s, t) => \E i \in Nat : Turns(b, c, i)
  <2>1. Len(b) + 1 \in Nat /\ \A i \in DOMAIN b \cap DOMAIN c : i \in Nat
    BY <1>3
  <2> QED
    BY <1>4, <1>5, <1>6, <1>7, <1>8, <2>1
<1>11. (\E i \in Nat : Turns(b, c, i)) => Before(s, t)
  BY <1>4, <1>5, <1>6, <1>9
<1> QED
  BY <1>1, <1>2, <1>10, <1>11

LEMMA TurnsOn ==
  ASSUME NEW b \in Seq(Nat), NEW c \in Seq(Nat), NEW d \in Seq(Nat),
         NEW i \in Nat, Turns(b, c, i), NEW j \in Nat, Turns(c, d, j)
  PROVE  \E k \in Nat : Turns(b, d, k)
<1>1. /\ Len(b) \in Nat /\ Len(c) \in Nat /\ Len(d) \in Nat
      /\ \A k \in 1..Len(b) : b[k] \in Nat
      /\ \A k \in 1..Len(c) : c[k] \in Nat
      /\ \A k \in 1..Len(d) : d[k] \in Nat
  OBVIOUS
<1>2. CASE i < j
  <2>1. i \in 1..(j - 1)
    BY <1>2 DEF Turns
  <2>2. c[i] = d[i] /\ i \in 1..Len(d)
    BY <1>1, <2>1 DEF Turns
  <2>3. \A k \in 1..(i - 1) : b[k] = d[k]
    <3> SUFFICES ASSUME NEW k \in 1..(i - 1) PROVE b[k] = d[k]
      OBVIOUS
    <3>1. k \in 1..(j - 1)
      BY <1>2
    <3> QED
      BY <3>1 DEF Turns
  <2>4. Turns(b, d, i)
    BY <2>2, <2>3 DEF Turns
  <2> QED
    BY <2>4
<1>3. CASE ~(i < j)
  <2>1. j <= i /\ j \in 1..Len(d) /\ j <= Len(b) + 1
    BY <1>1, <1>3 DEF Turns
  <2>2. \A k \in 1..(j - 1) : b[k] = d[k]
    <3> SUFFICES ASSUME NEW k \in 1..(j - 1) PROVE b[k] = d[k]
      OBVIOUS
    <3>1. k \in 1..(i - 1)
      BY <2>1
    <3> QED
      BY <3>1 DEF Turns
  <2>3. j <= Len(b) => b[j] < d[j]
    <3> SUFFICES ASSUME j <= Len(b) PROVE b[j] < d[j]
      OBVIOUS
    <3>1. j <= Len(c) /\ j \in 1..Len(c) /\ j \in 1..Len(b)
      BY <1>1, <2>1 DEF Turns
    <3>2. c[j] < d[j]
      BY <3>1 DEF Turns
    <3>3. b[j] = c[j] \/ b[j] < c[j]
      <4>1. CASE j = i
        BY <3>1, <4>1 DEF Turns
      <4>2. CASE j # i
        <5>1. j \in 1..(i - 1)
          BY <2>1, <4>2
        <5> QED
          BY <5>1 DEF Turns
      <4> QED
        BY <4>1, <4>2
    <3>4. b[j] \in Nat /\ c[j] \in Nat /\ d[j] \in Nat
      BY <1>1, <2>1, <3>1
    <3>5. PICK x \in Nat, y \in Nat, z \in Nat : x = b[j] /\ y = c[j] /\ z = d[j]
      BY <3>4, Zenon
    <3>6. (x = y \/ x < y) /\ y < z
      BY <3>2, <3>3, <3>5, Zenon
    <3>7. x < z
      BY <3>6
    <3> QED
      BY <3>5, <3>7, Zenon
  <2>4. Turns(b, d, j)
    BY <2>1, <2>2, <2>3 DEF Turns
  <2> QED
    BY <2>4
<1> QED
  BY <1>2, <1>3

LEMMA TurnsTotal ==
  ASSUME NEW b \in Seq(Nat), NEW c \in Seq(Nat), b # c
  PROVE  \E i \in Nat : Turns(b, c, i) \/ Turns(c, b, i)
<1>1. /\ Len(b) \in Nat /\ Len(c) \in Nat
      /\ \A k \in 1..Len(b) : b[k] \in Nat
      /\ \A k \in 1..Len(c) : c[k] \in Nat
  OBVIOUS
<1> DEFINE Odd == {i \in Nat \ {0} : i <= Len(b) /\ i <= Len(c) => b[i] # c[i]}
<1>2. Odd # {} /\ Odd \subseteq Nat
  <2>1. Len(b) + 1 \in Odd
    BY <1>1
  <2> QED
    BY <2>1
<1>3. PICK i \in Odd : \A k \in Odd : i <= k
  <2> HIDE DEF Odd
  <2> QED
    BY <1>2, Least
<1>4. \A k \in 1..(i - 1) : k <= Len(b) /\ k <= Len(c) /\ b[k] = c[k]
  <2> SUFFICES ASSUME NEW k \in 1..(i - 1)
               PROVE  k <= Len(b) /\ k <= Len(c) /\ b[k] = c[k]
    OBVIOUS
  <2>1. k \in Nat \ {0} /\ ~(i <= k)
    BY <1>3
  <2>2. k \notin Odd
    BY <1>3, <2>1
  <2> QED
    BY <2>1, <2>2
<1>5. i \in Nat \ {0} /\ i <= Len(b) + 1 /\ i <= Len(c) + 1
  <2>1. i \in Nat \ {0}
    OBVIOUS
  <2>2. i # 1 => i - 1 \in 1..(i - 1)
    BY <2>1
  <2> QED
    BY <1>1, <1>4, <2>1, <2>2
<1>6. CASE i <= Len(b) /\ i <= Len(c)
  <2>1. b[i] # c[i] /\ b[i] \in Nat /\ c[i] \in Nat
    BY <1>1, <1>3, <1>5, <1>6
  <2>2. b[i] < c[i] \/ c[i] < b[i]
    BY <2>1
  <2>3. i \in 1..Len(b) /\ i \in 1..Len(c)
    BY <1>1, <1>5, <1>6
  <2> QED
    BY <1>4, <1>5, <2>2, <2>3 DEF Turns
<1>7. CASE i <= Len(c) /\ ~(i <= Len(b))
  <2>1. i \in 1..Len(c)
    BY <1>1, <1>5, <1>7
  <2> QED
    BY <1>4, <1>5, <1>7, <2>1 DEF Turns
<1>8. CASE i <= Len(b) /\ ~(i <= Len(c))
  <2>1. i \in 1..Len(b)
    BY <1>1, <1>5, <1>8
  <2> QED
    BY <1>4, <1>5, <1>8, <2>1 DEF Turns
<1>9. CASE ~(i <= Len(b)) /\ ~(i <= Len(c))
  <2>1. Len(b) = i - 1 /\ Len(c) = i - 1
    BY <1>1, <1>5, <1>9
  <2>2. b = c
    BY <1>1, <1>4, <2>1, SeqEqual
  <2> QED
    BY <2>2
<1> QED
  BY <1>6, <1>7, <1>8, <1>9

-----------------------------------------------------------------------------
(* Texts as bytes.                                                         *)

Octet == 0..255
Writing == Seq(DOMAIN Byte)

LEMMA OctetsAre ==
  ASSUME NEW q \in Seq(Octet)
  PROVE  q \in Seq(Nat)
<1>1. \A i \in 1..Len(q) : q[i] \in Octet
  OBVIOUS
<1>2. \A i \in 1..Len(q) : q[i] \in Nat
  <2>1. Octet \subseteq Nat
    BY DEF Octet
  <2> QED
    BY <1>1, <2>1, Zenon
<1> QED
  BY <1>2, Narrow

LEMMA FlatIs ==
  ASSUME NEW S, NEW A \in Seq(Seq(S))
  PROVE  FlattenSeq(A) \in Seq(S)
<1>1. PICK f : Sums(S, A, f)
  BY SumsExist
<1>2. FlattenSeq(A) = f[Len(A)] /\ f \in [0..Len(A) -> Seq(S)] /\ Len(A) \in 0..Len(A)
  BY <1>1 DEF Sums
<1> QED
  BY <1>2, Zenon

\* The bytes of the tokens of t, token by token.
Codes(t) == [i \in DOMAIN t |-> Byte[t[i]]]

LEMMA CodesAre ==
  ASSUME NEW t \in Writing
  PROVE  /\ Codes(t) \in Seq(Seq(Octet)) /\ Len(Codes(t)) = Len(t)
         /\ \A i \in 1..Len(t) : Codes(t)[i] = Byte[t[i]] /\ t[i] \in DOMAIN Byte
         /\ \A i \in 1..Len(t) : Codes(t)[i] # <<>>
         /\ Bytes(t) = FlattenSeq(Codes(t))
<1>1. Len(t) \in Nat /\ DOMAIN t = 1..Len(t) /\ \A i \in 1..Len(t) : t[i] \in DOMAIN Byte
  BY DEF Writing
<1>2. \A k \in DOMAIN Byte : Byte[k] \in Seq(Octet) /\ Byte[k] # <<>>
  BY ByteAssumption DEF Octet
<1>3. \A i \in 1..Len(t) : Codes(t)[i] = Byte[t[i]] /\ Codes(t)[i] \in Seq(Octet) /\ Codes(t)[i] # <<>>
  BY <1>1, <1>2, Zenon DEF Codes
<1>4. Codes(t) = [i \in 1..Len(t) |-> Codes(t)[i]]
  BY <1>1, Zenon DEF Codes
<1>5. Codes(t) \in Seq(Seq(Octet)) /\ Len(Codes(t)) = Len(t)
  BY <1>1, <1>3, <1>4
<1>6. Bytes(t) = FlattenSeq(Codes(t))
  BY Zenon DEF Bytes, Codes
<1> QED
  BY <1>1, <1>3, <1>5, <1>6

LEMMA BytesAre ==
  ASSUME NEW t \in Writing
  PROVE  Bytes(t) \in Seq(Octet) /\ Bytes(t) \in Seq(Nat)
<1>1. Bytes(t) \in Seq(Octet)
  BY CodesAre, FlatIs
<1> QED
  BY <1>1, OctetsAre

\* No token's bytes go on where another's end.
LEMMA CodeApart ==
  ASSUME NEW k \in DOMAIN Byte, NEW l \in DOMAIN Byte, Agree(Byte[k], Byte[l])
  PROVE  k = l
<1>1. PICK a \in Seq(Octet) : a = Byte[k]
  BY ByteAssumption DEF Octet
<1>2. PICK b \in Seq(Octet) : b = Byte[l]
  BY ByteAssumption DEF Octet
<1>3. /\ Len(a) \in Nat /\ Len(b) \in Nat
      /\ a \in Seq(Nat) /\ b \in Seq(Nat)
  BY OctetsAre
<1>4. \A i \in 1..Len(a) : i <= Len(b) => a[i] = b[i]
  BY <1>1, <1>2 DEF Agree
<1>5. CASE Len(a) <= Len(b)
  <2>1. SubSeq(a, 1, Len(a)) = SubSeq(b, 1, Len(a)) <=> \A i \in 1..Len(a) : a[i] = b[i]
    BY <1>3, <1>5, FrontSame
  <2>2. \A i \in 1..Len(a) : a[i] = b[i]
    BY <1>3, <1>4, <1>5
  <2>3. IsPrefix(a, b)
    BY <1>5, <2>1, <2>2 DEF IsPrefix
  <2> QED
    BY <1>1, <1>2, <2>3, ByteAssumption
<1>6. CASE Len(b) <= Len(a)
  <2>1. SubSeq(b, 1, Len(b)) = SubSeq(a, 1, Len(b)) <=> \A i \in 1..Len(b) : b[i] = a[i]
    BY <1>3, <1>6, FrontSame
  <2>2. \A i \in 1..Len(b) : b[i] = a[i]
    BY <1>3, <1>4, <1>6
  <2>3. IsPrefix(b, a)
    BY <1>6, <2>1, <2>2 DEF IsPrefix
  <2> QED
    BY <1>1, <1>2, <2>3, ByteAssumption
<1> QED
  BY <1>3, <1>5, <1>6

\* Two texts with the same bytes are one.
LEMMA BytesOne ==
  ASSUME NEW t \in Writing, NEW u \in Writing, Bytes(t) = Bytes(u)
  PROVE  t = u
<1>1. PICK A \in Seq(Seq(Octet)) :
        /\ A = Codes(t) /\ Len(A) = Len(t) /\ Bytes(t) = FlattenSeq(A)
        /\ \A i \in 1..Len(t) : A[i] = Byte[t[i]] /\ t[i] \in DOMAIN Byte
        /\ \A i \in 1..Len(A) : A[i] # <<>>
  <2>1. /\ Codes(t) \in Seq(Seq(Octet)) /\ Len(Codes(t)) = Len(t)
        /\ \A i \in 1..Len(t) : Codes(t)[i] = Byte[t[i]] /\ t[i] \in DOMAIN Byte
        /\ \A i \in 1..Len(t) : Codes(t)[i] # <<>>
        /\ Bytes(t) = FlattenSeq(Codes(t))
    BY CodesAre, Zenon
  <2> QED
    BY <2>1, Zenon
<1>2. PICK B \in Seq(Seq(Octet)) :
        /\ B = Codes(u) /\ Len(B) = Len(u) /\ Bytes(u) = FlattenSeq(B)
        /\ \A i \in 1..Len(u) : B[i] = Byte[u[i]] /\ u[i] \in DOMAIN Byte
        /\ \A i \in 1..Len(B) : B[i] # <<>>
  <2>1. /\ Codes(u) \in Seq(Seq(Octet)) /\ Len(Codes(u)) = Len(u)
        /\ \A i \in 1..Len(u) : Codes(u)[i] = Byte[u[i]] /\ u[i] \in DOMAIN Byte
        /\ \A i \in 1..Len(u) : Codes(u)[i] # <<>>
        /\ Bytes(u) = FlattenSeq(Codes(u))
    BY CodesAre, Zenon
  <2> QED
    BY <2>1, Zenon
<1>3. Len(A) \in Nat /\ Len(B) \in Nat
  OBVIOUS
<1>4. ASSUME NEW i \in 1..Len(A), i <= Len(B), Agree(A[i], B[i])
      PROVE  t[i] = u[i]
  <2>1. i \in 1..Len(t) /\ i \in 1..Len(u)
    BY <1>1, <1>2, <1>3, <1>4
  <2>2. Agree(Byte[t[i]], Byte[u[i]]) /\ t[i] \in DOMAIN Byte /\ u[i] \in DOMAIN Byte
    BY <1>1, <1>2, <1>4, <2>1
  <2> QED
    BY <2>2, CodeApart
<1>5. Apart(A, B)
  <2> SUFFICES ASSUME NEW i \in 1..Len(A), i <= Len(B), Agree(A[i], B[i])
               PROVE  A[i] = B[i]
    BY DEF Apart
  <2>1. i \in 1..Len(t) /\ i \in 1..Len(u)
    BY <1>1, <1>2, <1>3
  <2> QED
    BY <1>1, <1>2, <1>4, <2>1
<1>6. A = B
  <2>1. FlattenSeq(A) = FlattenSeq(B)
    BY <1>1, <1>2
  <2> QED
    BY <1>1, <1>2, <1>5, <2>1, ReadAll
<1>7. Len(t) = Len(u) /\ \A i \in 1..Len(t) : t[i] = u[i]
  <2>1. ASSUME NEW i \in 1..Len(t)
        PROVE  t[i] = u[i]
    <3>1. i \in 1..Len(A) /\ i <= Len(B)
      BY <1>1, <1>3, <1>6
    <3>2. Agree(A[i], B[i])
      BY <1>6, AgreeSame
    <3> QED
      BY <1>4, <3>1, <3>2
  <2> QED
    BY <1>1, <1>2, <1>6, <2>1
<1> QED
  BY <1>7, SeqEqual DEF Writing

-----------------------------------------------------------------------------
(* The keys of a map.                                                      *)

KeyOrder(S) == {p \in S \X S : Before(p[1], p[2])}

LEMMA KeysOrdered ==
  ASSUME NEW S \in SUBSET Writing
  PROVE  Orders(KeyOrder(S), S)
<1>1. \A x, y \in S : <<x, y>> \in KeyOrder(S) <=> Before(x, y)
  BY DEF KeyOrder
<1>2. \A x \in S : Bytes(x) \in Seq(Nat)
  BY BytesAre
<1>3. \A x, y \in S : Before(x, y) <=> \E i \in Nat : Turns(Bytes(x), Bytes(y), i)
  BY <1>2, BeforeIs
<1>4. \A x \in S : ~Before(x, x)
  BY Zenon DEF Before
<1>5. ASSUME NEW x \in S, NEW y \in S, NEW z \in S, Before(x, y), Before(y, z)
      PROVE  Before(x, z)
  <2>1. PICK i \in Nat : Turns(Bytes(x), Bytes(y), i)
    BY <1>3, <1>5
  <2>2. PICK j \in Nat : Turns(Bytes(y), Bytes(z), j)
    BY <1>3, <1>5
  <2>3. \E k \in Nat : Turns(Bytes(x), Bytes(z), k)
    BY <1>2, <2>1, <2>2, TurnsOn
  <2> QED
    BY <1>3, <2>3
<1>6. ASSUME NEW x \in S, NEW y \in S, x # y
      PROVE  Before(x, y) \/ Before(y, x)
  <2>1. Bytes(x) # Bytes(y)
    BY <1>6, BytesOne
  <2>2. \E i \in Nat : Turns(Bytes(x), Bytes(y), i) \/ Turns(Bytes(y), Bytes(x), i)
    BY <1>2, <2>1, TurnsTotal
  <2> QED
    BY <1>3, <2>2
<1> HIDE DEF KeyOrder
<1> QED
  BY <1>1, <1>4, <1>5, <1>6 DEF Orders

LEMMA KeysListed ==
  ASSUME NEW m, IsFiniteSet(DOMAIN m), DOMAIN m \in SUBSET Writing
  PROVE  Lists(SortedKeys(m), DOMAIN m, KeyOrder(DOMAIN m))
<1> DEFINE S == DOMAIN m
           Right(s) == \A i, j \in DOMAIN s : i < j => Before(s[i], s[j])
<1>1. PICK s : Lists(s, S, KeyOrder(S))
  BY KeysOrdered, SortedExists
<1>2. SortedKeys(m) = CHOOSE r \in [1..Cardinality(S) -> S] : Right(r)
  BY Zenon DEF SortedKeys, Sorted
<1>3. s \in [1..Cardinality(S) -> S] /\ Right(s)
  BY <1>1 DEF Lists, KeyOrder
<1> HIDE DEF S, Right
<1>4. SortedKeys(m) \in [1..Cardinality(S) -> S] /\ Right(SortedKeys(m))
  BY <1>2, <1>3, Zenon
<1> USE DEF S, Right
<1>5. PICK r \in [1..Cardinality(S) -> S] : r = SortedKeys(m)
  BY <1>4
<1>6. \A i, j \in DOMAIN r : i < j => <<r[i], r[j]>> \in KeyOrder(S)
  <2>1. \A i, j \in DOMAIN r : r[i] \in S /\ r[j] \in S
    OBVIOUS
  <2> QED
    BY <1>4, <1>5, <2>1 DEF KeyOrder
<1> QED
  BY <1>5, <1>6 DEF Lists

\* The keys of a map in order are a sequence that holds every key.
LEMMA KeysAre ==
  ASSUME NEW m, IsFiniteSet(DOMAIN m), DOMAIN m \in SUBSET Writing
  PROVE  /\ SortedKeys(m) \in Seq(DOMAIN m)
         /\ DOMAIN SortedKeys(m) = 1..Len(SortedKeys(m))
         /\ \A x \in DOMAIN m : \E i \in 1..Len(SortedKeys(m)) : SortedKeys(m)[i] = x
<1> DEFINE S == DOMAIN m
           n == Cardinality(S)
           s == SortedKeys(m)
<1>1. n \in Nat
  BY FS_CardinalityType
<1>2. Lists(s, S, KeyOrder(S))
  BY KeysListed
<1>3. \A x \in S : \E i \in 1..n : s[i] = x
  BY <1>2, KeysOrdered, ListsAll
<1>4. s \in [1..n -> S]
  BY <1>2 DEF Lists
<1> HIDE DEF S, n, s
<1>5. s \in Seq(S) /\ Len(s) = n /\ DOMAIN s = 1..n
  BY <1>1, <1>4
<1> QED
  BY <1>3, <1>5 DEF S, s

-----------------------------------------------------------------------------
(* The digest of inputs.                                                   *)

\* The zero byte that ComputeInputDigest writes after each field.
Zero == <<0>>

\* No zero byte.
NoZero(a) == \A i \in 1..Len(a) : a[i] # 0

LEMMA ZeroEnds ==
  ASSUME NEW a \in Seq(Octet), NEW b \in Seq(Octet), NoZero(a), NoZero(b),
         Agree(a \o Zero, b \o Zero)
  PROVE  a = b
<1> DEFINE u == a \o <<0>>
           v == b \o <<0>>
<1>1. /\ Len(a) \in Nat /\ Len(b) \in Nat
      /\ Len(u) = Len(a) + 1 /\ Len(v) = Len(b) + 1
      /\ u[Len(a) + 1] = 0 /\ v[Len(b) + 1] = 0
      /\ \A i \in 1..Len(a) : u[i] = a[i]
      /\ \A i \in 1..Len(b) : v[i] = b[i]
  OBVIOUS
<1>2. Agree(u, v)
  BY DEF Zero
<1> HIDE DEF u, v
<1>3. \A i \in 1..(Len(a) + 1) : i <= Len(b) + 1 => u[i] = v[i]
  BY <1>1, <1>2 DEF Agree
<1>4. CASE Len(a) < Len(b)
  <2>1. PICK i \in 1..Len(b) : i = Len(a) + 1
    BY <1>1, <1>4
  <2>2. i \in 1..(Len(a) + 1) /\ i <= Len(b) + 1
    BY <1>1, <2>1
  <2>3. u[i] = 0 /\ v[i] = b[i]
    BY <1>1, <2>1
  <2>4. u[i] = v[i]
    BY <1>3, <2>2
  <2> QED
    BY <2>3, <2>4 DEF NoZero
<1>5. CASE Len(b) < Len(a)
  <2>1. PICK i \in 1..Len(a) : i = Len(b) + 1
    BY <1>1, <1>5
  <2>2. i \in 1..(Len(a) + 1) /\ i <= Len(b) + 1
    BY <1>1, <2>1
  <2>3. v[i] = 0 /\ u[i] = a[i]
    BY <1>1, <2>1
  <2>4. u[i] = v[i]
    BY <1>3, <2>2
  <2> QED
    BY <2>3, <2>4 DEF NoZero
<1>6. Len(a) = Len(b)
  BY <1>1, <1>4, <1>5
<1>7. \A i \in 1..Len(a) : a[i] = b[i]
  <2> SUFFICES ASSUME NEW i \in 1..Len(a) PROVE a[i] = b[i]
    OBVIOUS
  <2>1. i \in 1..(Len(a) + 1) /\ i <= Len(b) + 1 /\ i \in 1..Len(b)
    BY <1>1, <1>6
  <2> QED
    BY <1>1, <1>3, <2>1
<1> QED
  BY <1>6, <1>7, SeqEqual

\* What ComputeInputDigest writes of one input: a name, a tag and a text.
Item(n, tag, text) == Bytes(n) \o <<0>> \o Bytes(<<tag>>) \o <<0>> \o Bytes(text) \o <<0>>

\* The same, field by field.
Fields(a, c, d) == (a \o <<0>>) \o ((c \o <<0>>) \o (d \o <<0>>))
FieldsOf(a, c, d) == a \o <<0>> \o c \o <<0>> \o d \o <<0>> = Fields(a, c, d)

LEMMA FieldsAre ==
  ASSUME NEW a \in Seq(Octet), NEW c \in Seq(Octet), NEW d \in Seq(Octet)
  PROVE  FieldsOf(a, c, d)
<1> DEFINE z == <<0>>
<1>1. z \in Seq(Octet)
  BY DEF Octet
<1> HIDE DEF z
<1>2. PICK p \in Seq(Octet) : p = a \o z
  BY <1>1, ConcatProperties
<1>3. PICK q \in Seq(Octet) : q = c \o z
  BY <1>1, ConcatProperties
<1>4. PICK r \in Seq(Octet) : r = d \o z
  BY <1>1, ConcatProperties
<1>5. (p \o c) \o z = p \o q
  <2>1. Assoc(p, c, z)
    BY <1>1, AssocIs, Zenon
  <2> QED
    BY <1>3, <2>1, Zenon DEF Assoc
<1>6. ((p \o q) \o d) \o z = (p \o q) \o r
  <2>1. p \o q \in Seq(Octet)
    BY ConcatProperties
  <2>2. Assoc(p \o q, d, z)
    BY <1>1, <2>1, AssocIs, Zenon
  <2> QED
    BY <1>4, <2>2, Zenon DEF Assoc
<1>7. (p \o q) \o r = p \o (q \o r)
  <2>1. Assoc(p, q, r)
    BY AssocIs, Zenon
  <2> QED
    BY <2>1, Zenon DEF Assoc
<1>8. a \o z \o c \o z \o d \o z = (a \o z) \o ((c \o z) \o (d \o z))
  BY <1>2, <1>3, <1>4, <1>5, <1>6, <1>7, Zenon
<1> QED
  BY <1>8, Zenon DEF FieldsOf, Fields, z

\* The same name, type and text.
SameInput(v, n, w, m) == n = m /\ v[n].tag = w[m].tag /\ v[n].text = w[m].text
SameFields(a, c, d, a2, c2, d2) == a = a2 /\ c = c2 /\ d = d2

LEMMA FieldsApart ==
  ASSUME NEW a \in Seq(Octet), NEW c \in Seq(Octet), NEW d \in Seq(Octet),
         NEW a2 \in Seq(Octet), NEW c2 \in Seq(Octet), NEW d2 \in Seq(Octet),
         Agree(Fields(a, c, d), Fields(a2, c2, d2)),
         NoZero(a), NoZero(a2), NoZero(d), NoZero(d2), Agree(c, c2) => c = c2
  PROVE  SameFields(a, c, d, a2, c2, d2)
<1> DEFINE z == <<0>>
<1>1. z \in Seq(Octet)
  BY DEF Octet
<1> HIDE DEF z
<1>2. PICK p \in Seq(Octet), p2 \in Seq(Octet) : p = a \o z /\ p2 = a2 \o z
  BY <1>1, ConcatProperties
<1>3. PICK q \in Seq(Octet), q2 \in Seq(Octet) : q = c \o z /\ q2 = c2 \o z
  BY <1>1, ConcatProperties
<1>4. PICK r \in Seq(Octet), r2 \in Seq(Octet) : r = d \o z /\ r2 = d2 \o z
  BY <1>1, ConcatProperties
<1>5. PICK s \in Seq(Octet), s2 \in Seq(Octet) : s = q \o r /\ s2 = q2 \o r2
  BY ConcatProperties
<1>6. Agree(p \o s, p2 \o s2)
  BY <1>2, <1>3, <1>4, <1>5, Zenon DEF Fields, z
<1>7. Agree(p, p2)
  BY <1>6, AgreeFront, Zenon
<1>8. a = a2
  BY <1>2, <1>7, ZeroEnds, Zenon DEF z, Zero
<1>9. p = p2
  BY <1>2, <1>8
<1>10. Agree(s, s2)
  BY <1>6, <1>9, AgreeBack, Zenon
<1>11. Agree(q, q2)
  BY <1>5, <1>10, AgreeFront, Zenon
<1>12. c = c2
  BY <1>1, <1>3, <1>11, AgreeFront, Zenon
<1>13. q = q2
  BY <1>3, <1>12
<1>14. Agree(r, r2)
  BY <1>5, <1>10, <1>13, AgreeBack, Zenon
<1>15. d = d2
  BY <1>4, <1>14, ZeroEnds, Zenon DEF z, Zero
<1> QED
  BY <1>8, <1>12, <1>15 DEF SameFields

LEMMA ItemIs ==
  ASSUME NEW n \in Writing, NEW tag \in DOMAIN Byte, NEW text \in Writing
  PROVE  /\ Bytes(n) \in Seq(Octet) /\ Bytes(<<tag>>) \in Seq(Octet) /\ Bytes(text) \in Seq(Octet)
         /\ Item(n, tag, text) = Fields(Bytes(n), Bytes(<<tag>>), Bytes(text))
         /\ Item(n, tag, text) \in Seq(Octet) \ {<<>>}
<1>1. <<tag>> \in Writing
  BY DEF Writing
<1>2. PICK a \in Seq(Octet), c \in Seq(Octet), d \in Seq(Octet) :
        a = Bytes(n) /\ c = Bytes(<<tag>>) /\ d = Bytes(text)
  BY <1>1, BytesAre
<1>3. Item(n, tag, text) = Fields(a, c, d)
  BY <1>2, FieldsAre, Zenon DEF Item, FieldsOf
<1>4. Fields(a, c, d) \in Seq(Octet) \ {<<>>}
  <2>1. <<0>> \in Seq(Octet)
    BY DEF Octet
  <2>2. PICK p \in Seq(Octet) : p = a \o <<0>>
    BY <2>1, ConcatProperties
  <2>3. PICK q \in Seq(Octet) : q = (c \o <<0>>) \o (d \o <<0>>)
    BY <2>1, ConcatProperties
  <2>4. Len(p) = Len(a) + 1 /\ Len(a) \in Nat
    BY <2>2
  <2>5. p \o q \in Seq(Octet) /\ Len(p \o q) = Len(p) + Len(q) /\ Len(q) \in Nat
    BY ConcatProperties
  <2>6. p \o q # <<>>
    BY <2>4, <2>5
  <2> QED
    BY <2>2, <2>3, <2>5, <2>6, Zenon DEF Fields
<1> QED
  BY <1>2, <1>3, <1>4

LEMMA TagApart ==
  ASSUME NEW k \in DOMAIN Byte, NEW l \in DOMAIN Byte, Agree(Bytes(<<k>>), Bytes(<<l>>))
  PROVE  k = l
<1>1. \A m \in DOMAIN Byte : Bytes(<<m>>) = Byte[m]
  <2> SUFFICES ASSUME NEW m \in DOMAIN Byte PROVE Bytes(<<m>>) = Byte[m]
    OBVIOUS
  <2>1. <<m>> \in Writing /\ Len(<<m>>) = 1 /\ <<m>>[1] = m
    BY DEF Writing
  <2>2. PICK A \in Seq(Seq(Octet)) :
          Len(A) = 1 /\ A[1] = Byte[m] /\ Bytes(<<m>>) = FlattenSeq(A)
    BY <2>1, CodesAre
  <2>3. PICK f : Sums(Octet, A, f)
    BY SumsExist
  <2>4. 1 \in 1..Len(A) /\ 1 - 1 = 0
    BY <2>2
  <2>5. f[1] = <<>> \o A[1] /\ FlattenSeq(A) = f[1]
    BY <2>2, <2>3, <2>4 DEF Sums
  <2>6. <<>> \o A[1] = A[1]
    <3>1. A[1] \in Seq(Octet)
      BY <2>4
    <3> QED
      BY <3>1, ConcatEmptySeq
  <2> QED
    BY <2>2, <2>5, <2>6
<1> QED
  BY <1>1, CodeApart

\* Inputs as sanitizing yields them.
InputsType(v) ==
  /\ IsFiniteSet(DOMAIN v) /\ DOMAIN v \in SUBSET Writing
  /\ v = [n \in DOMAIN v |-> [tag |-> v[n].tag, text |-> v[n].text]]
  /\ \A n \in DOMAIN v : v[n].tag \in DOMAIN Byte /\ v[n].text \in Writing

\* No zero byte in names and texts.
Zeroless(v) == \A n \in DOMAIN v : NoZero(Bytes(n)) /\ NoZero(Bytes(v[n].text))

\* The items of v in the order of their names.
Items(v) ==
  [i \in DOMAIN SortedKeys(v) |->
     Item(SortedKeys(v)[i], v[SortedKeys(v)[i]].tag, v[SortedKeys(v)[i]].text)]

LEMMA ItemsAre ==
  ASSUME NEW v, InputsType(v)
  PROVE  /\ Items(v) \in Seq(Seq(Octet)) /\ Len(Items(v)) = Len(SortedKeys(v))
         /\ \A i \in 1..Len(Items(v)) :
              /\ SortedKeys(v)[i] \in DOMAIN v
              /\ Items(v)[i] # <<>>
              /\ Items(v)[i] =
                   Item(SortedKeys(v)[i], v[SortedKeys(v)[i]].tag, v[SortedKeys(v)[i]].text)
         /\ ComputeInputDigest(v) = FlattenSeq(Items(v))
<1>1. PICK s \in Seq(DOMAIN v) : s = SortedKeys(v) /\ DOMAIN s = 1..Len(s) /\ Len(s) \in Nat
  BY KeysAre DEF InputsType
<1> DEFINE e(i) == Item(s[i], v[s[i]].tag, v[s[i]].text)
<1>2. \A i \in 1..Len(s) : s[i] \in DOMAIN v /\ e(i) \in Seq(Octet) \ {<<>>}
  <2> SUFFICES ASSUME NEW i \in 1..Len(s)
               PROVE  s[i] \in DOMAIN v /\ e(i) \in Seq(Octet) \ {<<>>}
    OBVIOUS
  <2>1. s[i] \in DOMAIN v
    OBVIOUS
  <2>2. s[i] \in Writing /\ v[s[i]].tag \in DOMAIN Byte /\ v[s[i]].text \in Writing
    BY <2>1 DEF InputsType
  <2> QED
    BY <2>1, <2>2, ItemIs
<1>3. Items(v) = [i \in 1..Len(s) |-> e(i)]
  BY <1>1, Zenon DEF Items
<1>4. ComputeInputDigest(v) = FlattenSeq(Items(v))
  BY Zenon DEF ComputeInputDigest, Concat, Items, Item
<1> HIDE DEF e
<1>5. Items(v) \in Seq(Seq(Octet)) /\ Len(Items(v)) = Len(s)
  BY <1>1, <1>2, <1>3
<1>6. \A i \in 1..Len(s) : Items(v)[i] = e(i)
  BY <1>3
<1> QED
  BY <1>1, <1>2, <1>4, <1>5, <1>6 DEF e

LEMMA ItemsApart ==
  ASSUME NEW v, InputsType(v), Zeroless(v), NEW w, InputsType(w), Zeroless(w),
         NEW n \in DOMAIN v, NEW m \in DOMAIN w,
         Agree(Item(n, v[n].tag, v[n].text), Item(m, w[m].tag, w[m].text))
  PROVE  SameInput(v, n, w, m)
<1>1. n \in Writing /\ v[n].tag \in DOMAIN Byte /\ v[n].text \in Writing
  BY DEF InputsType
<1>2. m \in Writing /\ w[m].tag \in DOMAIN Byte /\ w[m].text \in Writing
  BY DEF InputsType
<1>3. PICK a \in Seq(Octet), c \in Seq(Octet), d \in Seq(Octet) :
        /\ a = Bytes(n) /\ c = Bytes(<<v[n].tag>>) /\ d = Bytes(v[n].text)
        /\ Item(n, v[n].tag, v[n].text) = Fields(a, c, d)
  BY <1>1, ItemIs
<1>4. PICK a2 \in Seq(Octet), c2 \in Seq(Octet), d2 \in Seq(Octet) :
        /\ a2 = Bytes(m) /\ c2 = Bytes(<<w[m].tag>>) /\ d2 = Bytes(w[m].text)
        /\ Item(m, w[m].tag, w[m].text) = Fields(a2, c2, d2)
  BY <1>2, ItemIs
<1>5. Agree(Fields(a, c, d), Fields(a2, c2, d2))
  BY <1>3, <1>4, Zenon
<1>6. NoZero(a) /\ NoZero(a2) /\ NoZero(d) /\ NoZero(d2)
  BY <1>3, <1>4 DEF Zeroless
<1>7. Agree(c, c2) => v[n].tag = w[m].tag /\ c = c2
  BY <1>1, <1>2, <1>3, <1>4, TagApart, Zenon
<1>8. a = a2 /\ c = c2 /\ d = d2
  <2>1. Agree(c, c2) => c = c2
    BY <1>7
  <2>2. SameFields(a, c, d, a2, c2, d2)
    BY <1>5, <1>6, <2>1, FieldsApart, Zenon
  <2> QED
    BY <2>2 DEF SameFields
<1>9. v[n].tag = w[m].tag
  BY <1>7, <1>8, AgreeSame, Zenon
<1>10. n = m /\ v[n].text = w[m].text
  BY <1>1, <1>2, <1>3, <1>4, <1>8, BytesOne, Zenon
<1> QED
  BY <1>9, <1>10 DEF SameInput

\* Two inputs with one digest are the same inputs (ComputeInputDigest).
THEOREM DigestTells ==
  ASSUME NEW v, InputsType(v), Zeroless(v), NEW w, InputsType(w), Zeroless(w),
         ComputeInputDigest(v) = ComputeInputDigest(w)
  PROVE  v = w
<1>1. PICK s \in Seq(DOMAIN v) :
        s = SortedKeys(v) /\ \A x \in DOMAIN v : \E i \in 1..Len(s) : s[i] = x
  BY KeysAre DEF InputsType
<1>2. PICK t \in Seq(DOMAIN w) :
        t = SortedKeys(w) /\ \A x \in DOMAIN w : \E i \in 1..Len(t) : t[i] = x
  BY KeysAre DEF InputsType
<1>3. PICK A \in Seq(Seq(Octet)) :
        /\ A = Items(v) /\ Len(A) = Len(s) /\ ComputeInputDigest(v) = FlattenSeq(A)
        /\ \A i \in 1..Len(A) : /\ s[i] \in DOMAIN v /\ A[i] # <<>>
                                /\ A[i] = Item(s[i], v[s[i]].tag, v[s[i]].text)
  BY <1>1, ItemsAre, Zenon
<1>4. PICK B \in Seq(Seq(Octet)) :
        /\ B = Items(w) /\ Len(B) = Len(t) /\ ComputeInputDigest(w) = FlattenSeq(B)
        /\ \A i \in 1..Len(B) : /\ t[i] \in DOMAIN w /\ B[i] # <<>>
                                /\ B[i] = Item(t[i], w[t[i]].tag, w[t[i]].text)
  BY <1>2, ItemsAre, Zenon
<1>5. Len(A) \in Nat /\ Len(B) \in Nat
  OBVIOUS
<1>6. ASSUME NEW i \in 1..Len(A), i <= Len(B), Agree(A[i], B[i])
      PROVE  SameInput(v, s[i], w, t[i])
  <2>1. i \in 1..Len(B)
    BY <1>5, <1>6
  <2>2. /\ s[i] \in DOMAIN v /\ A[i] = Item(s[i], v[s[i]].tag, v[s[i]].text)
        /\ t[i] \in DOMAIN w /\ B[i] = Item(t[i], w[t[i]].tag, w[t[i]].text)
    BY <1>3, <1>4, <2>1
  <2>3. Agree(Item(s[i], v[s[i]].tag, v[s[i]].text), Item(t[i], w[t[i]].tag, w[t[i]].text))
    BY <1>6, <2>2, Zenon
  <2> QED
    BY <2>2, <2>3, ItemsApart, Zenon
<1>7. Apart(A, B)
  <2> SUFFICES ASSUME NEW i \in 1..Len(A), i <= Len(B), Agree(A[i], B[i])
               PROVE  A[i] = B[i]
    BY DEF Apart
  <2>1. i \in 1..Len(B)
    BY <1>5
  <2>2. SameInput(v, s[i], w, t[i])
    BY <1>6
  <2>3. A[i] = Item(s[i], v[s[i]].tag, v[s[i]].text)
    BY <1>3
  <2>4. B[i] = Item(t[i], w[t[i]].tag, w[t[i]].text)
    BY <1>4, <2>1
  <2> QED
    BY <2>2, <2>3, <2>4, Zenon DEF SameInput
<1>8. A = B
  <2>1. FlattenSeq(A) = FlattenSeq(B)
    BY <1>3, <1>4
  <2>2. \A i \in 1..Len(A) : A[i] # <<>>
    BY <1>3
  <2>3. \A i \in 1..Len(B) : B[i] # <<>>
    BY <1>4
  <2> QED
    BY <1>7, <2>1, <2>2, <2>3, ReadAll
<1>9. \A i \in 1..Len(A) : s[i] = t[i] /\ v[s[i]].tag = w[t[i]].tag /\ v[s[i]].text = w[t[i]].text
  <2> SUFFICES ASSUME NEW i \in 1..Len(A)
               PROVE  s[i] = t[i] /\ v[s[i]].tag = w[t[i]].tag /\ v[s[i]].text = w[t[i]].text
    OBVIOUS
  <2>1. i <= Len(B)
    BY <1>5, <1>8
  <2>2. Agree(A[i], B[i])
    BY <1>8, AgreeSame
  <2> QED
    BY <1>6, <2>1, <2>2 DEF SameInput
<1>10. \A n \in DOMAIN v : n \in DOMAIN w /\ v[n].tag = w[n].tag /\ v[n].text = w[n].text
  <2> SUFFICES ASSUME NEW n \in DOMAIN v
               PROVE  n \in DOMAIN w /\ v[n].tag = w[n].tag /\ v[n].text = w[n].text
    OBVIOUS
  <2>1. PICK i \in 1..Len(A) : s[i] = n
    BY <1>1, <1>3
  <2>2. t[i] \in DOMAIN w
    BY <1>4, <1>8
  <2> QED
    BY <1>9, <2>1, <2>2
<1>11. DOMAIN w \subseteq DOMAIN v
  <2> SUFFICES ASSUME NEW n \in DOMAIN w PROVE n \in DOMAIN v
    OBVIOUS
  <2>1. PICK i \in 1..Len(A) : t[i] = n
    BY <1>2, <1>4, <1>8
  <2> QED
    BY <1>3, <1>9, <2>1
<1>12. DOMAIN v = DOMAIN w
  BY <1>10, <1>11
<1>13. [n \in DOMAIN v |-> [tag |-> v[n].tag, text |-> v[n].text]]
         = [n \in DOMAIN w |-> [tag |-> w[n].tag, text |-> w[n].text]]
  BY <1>10, <1>12
<1> QED
  BY <1>13, Zenon DEF InputsType

-----------------------------------------------------------------------------
(* Numbers.                                                                *)

\* f writes the numbers in N as writeVarUint does, given the smaller ones.
Writes7(f, N) ==
  \A n \in N : /\ n < 128 => f[n] = <<n>>
               /\ ~(n < 128) => f[n] = <<128 + (n % 128)>> \o f[n \div 128]

LEMMA Quotient ==
  ASSUME NEW n \in Nat, ~(n < 128)
  PROVE  /\ n \div 128 \in Nat /\ n \div 128 < n
         /\ n % 128 \in 0..127 /\ n = 128 * (n \div 128) + (n % 128)
OBVIOUS

LEMMA WrittenFewer ==
  ASSUME NEW f, NEW N, NEW M \in SUBSET N, Writes7(f, N)
  PROVE  Writes7(f, M)
BY Zenon DEF Writes7

LEMMA SomeWritten ==
  ASSUME NEW m \in Nat
  PROVE  \E f \in [0..m -> Seq(Octet)] : Writes7(f, 0..m)
<1> DEFINE S == {k \in 0..m : \E f \in [0..k -> Seq(Octet)] : Writes7(f, 0..k)}
<1>1. \A n \in 0..127 : <<n>> \in Seq(Octet)
  BY DEF Octet
<1>2. 0 \in S
  <2> DEFINE f == [n \in 0..0 |-> <<0>>]
  <2>1. \A n \in 0..0 : n = 0 /\ n < 128
    OBVIOUS
  <2>2. f \in [0..0 -> Seq(Octet)] /\ f[0] = <<0>>
    BY <1>1
  <2> HIDE DEF f
  <2>3. Writes7(f, 0..0)
    BY <2>1, <2>2 DEF Writes7
  <2> QED
    BY <2>2, <2>3
<1>3. ASSUME NEW k \in 1..m, k - 1 \in S PROVE k \in S
  <2>1. PICK g \in [0..(k - 1) -> Seq(Octet)] : Writes7(g, 0..(k - 1))
    BY <1>3
  <2> DEFINE new == IF k < 128 THEN <<k>> ELSE <<128 + (k % 128)>> \o g[k \div 128]
             f == [n \in 0..k |-> IF n = k THEN new ELSE g[n]]
  <2>2. new \in Seq(Octet)
    <3>1. CASE k < 128
      <4>1. k \in 0..127
        BY <3>1
      <4> QED
        BY <1>1, <3>1, <4>1
    <3>2. CASE ~(k < 128)
      <4>1. k \div 128 \in 0..(k - 1) /\ <<128 + (k % 128)>> \in Seq(Octet)
        BY <3>2, Quotient DEF Octet
      <4>2. g[k \div 128] \in Seq(Octet)
        BY <4>1
      <4> QED
        BY <3>2, <4>1, <4>2, ConcatProperties
    <3> QED
      BY <3>1, <3>2
  <2>3. f \in [0..k -> Seq(Octet)] /\ f[k] = new /\ \A n \in 0..(k - 1) : f[n] = g[n]
    <3> HIDE DEF new
    <3>1. \A n \in 0..k : n = k \/ n \in 0..(k - 1)
      OBVIOUS
    <3>2. \A n \in 0..(k - 1) : n \in 0..k /\ n # k
      OBVIOUS
    <3> QED
      BY <2>2, <3>1, <3>2
  <2>4. Writes7(f, 0..k)
    <3> SUFFICES ASSUME NEW n \in 0..k
                 PROVE  /\ n < 128 => f[n] = <<n>>
                        /\ ~(n < 128) => f[n] = <<128 + (n % 128)>> \o f[n \div 128]
      BY DEF Writes7
    <3> HIDE DEF f
    <3>1. ~(n < 128) => n \div 128 \in 0..(k - 1) /\ n \div 128 \in 0..(n - 1)
      BY Quotient
    <3>2. CASE n = k
      BY <2>3, <3>1, <3>2
    <3>3. CASE n \in 0..(k - 1)
      <4>1. /\ n < 128 => g[n] = <<n>>
            /\ ~(n < 128) => g[n] = <<128 + (n % 128)>> \o g[n \div 128]
        BY <2>1, <3>3, Zenon DEF Writes7
      <4>2. f[n] = g[n] /\ (~(n < 128) => f[n \div 128] = g[n \div 128])
        BY <2>3, <3>1, <3>3, Zenon
      <4> QED
        BY <4>1, <4>2, Zenon
    <3> QED
      BY <3>2, <3>3
  <2> HIDE DEF f
  <2> QED
    BY <2>3, <2>4
<1> HIDE DEF S
<1>4. \A k \in 0..m : k \in S
  BY <1>2, <1>3, Upward
<1>5. m \in S
  BY <1>4
<1> QED
  BY <1>5 DEF S

LEMMA SameWritten ==
  ASSUME NEW k \in Nat, NEW m \in Nat, NEW f, Writes7(f, 0..k), NEW g, Writes7(g, 0..m)
  PROVE  \A n \in Nat : n <= k /\ n <= m => f[n] = g[n]
<1> DEFINE Bad == {n \in Nat : n <= k /\ n <= m /\ f[n] # g[n]}
<1>1. SUFFICES ASSUME Bad # {} PROVE FALSE
  OBVIOUS
<1>2. PICK n \in Bad : \A j \in Bad : n <= j
  <2>1. Bad \subseteq Nat
    OBVIOUS
  <2> HIDE DEF Bad
  <2> QED
    BY <1>1, <2>1, Least
<1>3. n \in 0..k /\ n \in 0..m
  OBVIOUS
<1>4. CASE n < 128
  BY <1>3, <1>4 DEF Writes7
<1>5. CASE ~(n < 128)
  <2>1. n \div 128 \in Nat /\ ~(n <= n \div 128) /\ n \div 128 <= k /\ n \div 128 <= m
    BY <1>5, Quotient
  <2>2. f[n \div 128] = g[n \div 128]
    BY <1>2, <2>1
  <2>3. /\ f[n] = <<128 + (n % 128)>> \o f[n \div 128]
        /\ g[n] = <<128 + (n % 128)>> \o g[n \div 128]
    BY <1>3, <1>5, Zenon DEF Writes7
  <2> QED
    BY <2>2, <2>3, Zenon
<1> QED
  BY <1>4, <1>5

LEMMA SameEverywhere ==
  ASSUME NEW f, Writes7(f, Nat), NEW g, Writes7(g, Nat)
  PROVE  \A n \in Nat : f[n] = g[n]
<1> SUFFICES ASSUME NEW n \in Nat PROVE f[n] = g[n]
  OBVIOUS
<1>1. n <= n /\ 0..n \in SUBSET Nat
  OBVIOUS
<1>2. Writes7(f, 0..n) /\ Writes7(g, 0..n)
  BY <1>1, WrittenFewer, Zenon
<1>3. \A j \in Nat : j <= n /\ j <= n => f[j] = g[j]
  BY <1>2, SameWritten
<1> QED
  BY <1>1, <1>3

LEMMA AllWritten == \E f \in [Nat -> Seq(Octet)] : Writes7(f, Nat)
<1> DEFINE P(f, m) == f \in [0..m -> Seq(Octet)] /\ Writes7(f, 0..m)
           c(m) == CHOOSE f : P(f, m)
           g == [n \in Nat |-> c(n)[n]]
<1>1. \A m \in Nat : \E f : P(f, m)
  BY SomeWritten
<1> HIDE DEF P
<1>2. \A m \in Nat : P(c(m), m)
  BY <1>1, Zenon
<1>3. \A n \in Nat : c(n) \in [0..n -> Seq(Octet)] /\ Writes7(c(n), 0..n)
  BY <1>2 DEF P
<1> HIDE DEF c
<1>4. \A n \in Nat : n \in 0..n /\ c(n)[n] \in Seq(Octet)
  BY <1>3
<1>5. g \in [Nat -> Seq(Octet)] /\ \A n \in Nat : g[n] = c(n)[n]
  BY <1>4
<1> HIDE DEF g
<1>6. ASSUME NEW n \in Nat
      PROVE  /\ n < 128 => g[n] = <<n>>
             /\ ~(n < 128) => g[n] = <<128 + (n % 128)>> \o g[n \div 128]
  <2>1. CASE n < 128
    BY <1>3, <1>4, <1>5, <2>1 DEF Writes7
  <2>2. CASE ~(n < 128)
    <3>1. PICK q \in Nat : q = n \div 128 /\ q <= q /\ q <= n
      BY <2>2, Quotient
    <3>2. Writes7(c(q), 0..q) /\ Writes7(c(n), 0..n)
      BY <1>3, <3>1
    <3>3. c(q)[q] = c(n)[q]
      BY <3>1, <3>2, SameWritten
    <3>4. c(n)[n] = <<128 + (n % 128)>> \o c(n)[n \div 128]
      <4>1. n \in 0..n
        OBVIOUS
      <4>2. PICK h : h = c(n)
        OBVIOUS
      <4>3. Writes7(h, 0..n)
        BY <3>2, <4>2, Zenon
      <4>4. h[n] = <<128 + (n % 128)>> \o h[n \div 128]
        BY <2>2, <4>1, <4>3, Zenon DEF Writes7
      <4> QED
        BY <4>2, <4>4, Zenon
    <3> QED
      BY <1>5, <2>2, <3>1, <3>3, <3>4
  <2> QED
    BY <2>1, <2>2
<1>7. Writes7(g, Nat)
  BY <1>6 DEF Writes7
<1> QED
  BY <1>5, <1>7

\* writeVarUint is what its definition says, and yields bytes.
LEMMA VarUintIs ==
  \E f \in [Nat -> Seq(Octet)] :
    Writes7(f, Nat) /\ \A n \in Nat : writeVarUint(n) = f[n]
<1> DEFINE Def(f) == [n \in Nat |-> IF n < 128 THEN <<n>> ELSE <<128 + (n % 128)>> \o f[n \div 128]]
           v == CHOOSE f : f = Def(f)
<1>1. \A n \in Nat : writeVarUint(n) = v[n]
  BY Zenon DEF writeVarUint
<1>2. PICK g \in [Nat -> Seq(Octet)] : Writes7(g, Nat)
  BY AllWritten
<1>3. g = Def(g)
  <2>1. \A n \in Nat : g[n] = IF n < 128 THEN <<n>> ELSE <<128 + (n % 128)>> \o g[n \div 128]
    BY <1>2, Zenon DEF Writes7
  <2>2. g = [n \in Nat |-> g[n]]
    BY <1>2
  <2> QED
    BY <2>1, <2>2, Zenon
<1> HIDE DEF Def
<1>4. v = Def(v)
  BY <1>3, Zenon
<1> HIDE DEF v
<1>5. \A n \in Nat : v[n] = IF n < 128 THEN <<n>> ELSE <<128 + (n % 128)>> \o v[n \div 128]
  BY <1>4, Zenon DEF Def
<1>6. Writes7(v, Nat)
  BY <1>5, Zenon DEF Writes7
<1>7. v = [n \in Nat |-> v[n]]
  BY <1>4, Zenon DEF Def
<1>8. \A n \in Nat : v[n] \in Seq(Octet)
  <2>1. \A n \in Nat : v[n] = g[n]
    BY <1>2, <1>6, SameEverywhere, Zenon
  <2> QED
    BY <1>2, <2>1
<1>9. v \in [Nat -> Seq(Octet)]
  BY <1>7, <1>8
<1> QED
  BY <1>1, <1>6, <1>9

\* No number's bytes go on where another's end.
LEMMA VarUintApart ==
  ASSUME NEW m \in Nat, NEW n \in Nat, Agree(writeVarUint(m), writeVarUint(n))
  PROVE  m = n
<1>1. PICK v \in [Nat -> Seq(Octet)] :
        Writes7(v, Nat) /\ \A k \in Nat : writeVarUint(k) = v[k]
  BY VarUintIs
<1> DEFINE Bad == {k \in Nat : \E l \in Nat : Agree(v[k], v[l]) /\ k # l}
<1>2. SUFFICES ASSUME Bad # {} PROVE FALSE
  BY <1>1
<1>3. PICK k \in Bad : \A j \in Bad : k <= j
  <2>1. Bad \subseteq Nat
    OBVIOUS
  <2> HIDE DEF Bad
  <2> QED
    BY <1>2, <2>1, Least
<1>4. PICK l \in Nat : Agree(v[k], v[l]) /\ k # l
  OBVIOUS
<1>5. k \in Nat /\ \A j \in Nat : j < k => ~(j \in Bad)
  BY <1>3
<1> DEFINE first(i) == IF i < 128 THEN i ELSE 128 + (i % 128)
<1>6. ASSUME NEW i \in Nat
      PROVE  v[i] \in Seq(Octet) /\ Len(v[i]) \in Nat \ {0} /\ v[i][1] = first(i)
  <2>1. CASE i < 128
    <3>1. v[i] = <<i>>
      BY <1>1, <2>1 DEF Writes7
    <3>2. Len(<<i>>) \in Nat \ {0} /\ <<i>>[1] = first(i)
      BY <2>1
    <3>3. v[i] \in Seq(Octet)
      BY <1>1
    <3> QED
      BY <3>1, <3>2, <3>3, Zenon
  <2>2. CASE ~(i < 128)
    <3>1. i \div 128 \in Nat /\ i % 128 \in 0..127
      BY <2>2, Quotient
    <3>2. PICK r \in Seq(Octet) : r = v[i \div 128]
      BY <3>1
    <3>3. PICK c \in Octet : c = 128 + (i % 128)
      BY <3>1 DEF Octet
    <3>4. v[i] = <<c>> \o r
      BY <1>1, <2>2, <3>2, <3>3 DEF Writes7
    <3>5. /\ <<c>> \o r \in Seq(Octet) /\ Len(<<c>> \o r) \in Nat \ {0}
          /\ (<<c>> \o r)[1] = c
      <4>0. <<c>> \in Seq(Octet) /\ Len(<<c>>) = 1 /\ <<c>>[1] = c
        OBVIOUS
      <4>1. PICK d \in Seq(Octet) : d = <<c>> /\ Len(d) = 1 /\ d[1] = c
        BY <4>0, Zenon
      <4>2. d \o r \in Seq(Octet) /\ Len(d \o r) = 1 + Len(r) /\ (d \o r)[1] = c /\ Len(r) \in Nat
        BY <4>1
      <4>3. \A h \in Nat : 1 + h \in Nat \ {0}
        OBVIOUS
      <4>4. Len(d \o r) \in Nat \ {0}
        BY <4>2, <4>3, Zenon
      <4> QED
        BY <4>1, <4>2, <4>4, Zenon
    <3>6. first(i) = c
      BY <2>2, <3>3
    <3> HIDE DEF first
    <3> QED
      BY <3>4, <3>5, <3>6
  <2> QED
    BY <2>1, <2>2
<1>7. first(k) = first(l)
  <2>1. Len(v[k]) \in Nat \ {0} /\ Len(v[l]) \in Nat \ {0}
    BY <1>5, <1>6
  <2>2. v[k][1] = v[l][1]
    <3>1. \A a \in Nat \ {0} : 1 \in 1..a /\ 1 <= a
      OBVIOUS
    <3>2. 1 \in 1..Len(v[k]) /\ 1 <= Len(v[l])
      BY <2>1, <3>1, Zenon
    <3> QED
      BY <1>4, <3>2, Zenon DEF Agree
  <2> HIDE DEF first
  <2> QED
    BY <1>5, <1>6, <2>2
<1>8. CASE k < 128
  <2>1. ~(l < 128) => l % 128 \in 0..127
    BY Quotient
  <2> QED
    BY <1>4, <1>7, <1>8, <2>1
<1>9. CASE ~(k < 128)
  <2>1. /\ k \div 128 \in Nat /\ k \div 128 < k
        /\ k % 128 \in 0..127 /\ k = 128 * (k \div 128) + (k % 128)
    BY <1>5, <1>9, Quotient
  <2>2. ~(l < 128) /\ l % 128 = k % 128
    <3>1. ~(l < 128) => l % 128 \in 0..127
      BY Quotient
    <3>2. first(k) = 128 + (k % 128)
      BY <1>9
    <3>3. l < 128 => first(l) = l
      OBVIOUS
    <3>4. ~(l < 128) => first(l) = 128 + (l % 128)
      OBVIOUS
    <3> HIDE DEF first
    <3>5. PICK e \in 0..127 : e = k % 128
      BY <2>1
    <3>6. CASE l < 128
      <4>1. l = 128 + e
        BY <1>7, <3>2, <3>3, <3>5, <3>6, Zenon
      <4> QED
        BY <3>6, <4>1
    <3>7. CASE ~(l < 128)
      <4>1. PICK d \in 0..127 : d = l % 128
        BY <3>1, <3>7
      <4>2. 128 + d = 128 + e
        BY <1>7, <3>2, <3>4, <3>5, <3>7, <4>1, Zenon
      <4> QED
        BY <3>5, <3>7, <4>1, <4>2
    <3> QED
      BY <3>6, <3>7
  <2>3. l \div 128 \in Nat /\ l = 128 * (l \div 128) + (l % 128)
    BY <2>2, Quotient
  <2>4. PICK b \in Octet : b = 128 + (k % 128) /\ b = 128 + (l % 128)
    <3>1. PICK e \in 0..127 : e = k % 128
      BY <2>1
    <3>2. 128 + e \in Octet
      BY DEF Octet
    <3> QED
      BY <2>2, <3>1, <3>2
  <2>5. PICK r \in Seq(Octet), s \in Seq(Octet) : r = v[k \div 128] /\ s = v[l \div 128]
    BY <2>1, <2>3
  <2>6. v[k] = <<b>> \o r /\ v[l] = <<b>> \o s
    <3>1. /\ v[k] = <<128 + (k % 128)>> \o v[k \div 128]
          /\ v[l] = <<128 + (l % 128)>> \o v[l \div 128]
      BY <1>1, <1>5, <1>9, <2>2, Zenon DEF Writes7
    <3> QED
      BY <2>4, <2>5, <3>1, Zenon
  <2>7. <<b>> \in Seq(Octet)
    OBVIOUS
  <2>8. Agree(<<b>> \o r, <<b>> \o s)
    BY <1>4, <2>6
  <2>9. Agree(r, s)
    BY <2>7, <2>8, AgreeBack, Zenon
  <2>10. k \div 128 \notin Bad
    BY <1>5, <2>1
  <2>11. k \div 128 = l \div 128
    BY <2>1, <2>3, <2>5, <2>9, <2>10
  <2> QED
    BY <1>4, <2>1, <2>2, <2>3, <2>11
<1> QED
  BY <1>8, <1>9

LEMMA VarUintTyped ==
  ASSUME NEW n \in Nat
  PROVE  writeVarUint(n) \in Seq(Octet)
BY VarUintIs

-----------------------------------------------------------------------------
(* Fields, lists and maps.                                                 *)

\* The first piece is read, then the rest.
LEMMA PieceApart ==
  ASSUME NEW S, NEW a \in Seq(S), NEW b \in Seq(S), NEW r \in Seq(S), NEW s \in Seq(S),
         Agree(a \o r, b \o s), Agree(a, b) => a = b
  PROVE  a = b /\ Agree(r, s)
<1>1. Agree(a, b)
  BY AgreeFront, Zenon
<1>2. a = b
  BY <1>1
<1>3. Agree(a \o r, a \o s)
  BY <1>2, Zenon
<1>4. Agree(r, s)
  BY <1>3, AgreeBack, Zenon
<1> QED
  BY <1>2, <1>4

LEMMA LengthAgree ==
  ASSUME NEW a \in Seq(Octet), NEW b \in Seq(Octet), Len(a) = Len(b), Agree(a, b)
  PROVE  a = b
<1>1. \A i \in 1..Len(a) : a[i] = b[i]
  BY DEF Agree
<1> QED
  BY <1>1, SeqEqual

LEMMA TextIsBytes ==
  ASSUME NEW t \in Writing
  PROVE  writeLengthPrefixed(t) \in Seq(Octet)
<1>1. PICK b \in Seq(Octet) : b = Bytes(t)
  BY BytesAre
<1>2. Len(b) \in Nat
  OBVIOUS
<1>3. PICK v \in Seq(Octet) : v = writeVarUint(Len(b))
  BY <1>2, VarUintTyped
<1>4. writeLengthPrefixed(t) = v \o b
  BY <1>1, <1>3, Zenon DEF writeLengthPrefixed
<1> QED
  BY <1>4, ConcatProperties

LEMMA TextApart ==
  ASSUME NEW t \in Writing, NEW u \in Writing,
         Agree(writeLengthPrefixed(t), writeLengthPrefixed(u))
  PROVE  t = u
<1>1. PICK b \in Seq(Octet), c \in Seq(Octet) : b = Bytes(t) /\ c = Bytes(u)
  BY BytesAre
<1>2. PICK m \in Nat, n \in Nat : m = Len(b) /\ n = Len(c)
  OBVIOUS
<1>3. PICK v \in Seq(Octet), w \in Seq(Octet) : v = writeVarUint(m) /\ w = writeVarUint(n)
  BY VarUintTyped
<1>4. Agree(v \o b, w \o c)
  BY <1>1, <1>2, <1>3, Zenon DEF writeLengthPrefixed
<1>5. Agree(v, w) => m = n
  BY <1>3, VarUintApart, Zenon
<1>6. Agree(v, w) => v = w
  BY <1>3, <1>5, Zenon
<1>7. v = w /\ Agree(b, c)
  BY <1>4, <1>6, PieceApart, Zenon
<1>8. m = n
  BY <1>5, <1>7, AgreeSame, Zenon
<1>9. b = c
  BY <1>2, <1>7, <1>8, LengthAgree, Zenon
<1> QED
  BY <1>1, <1>9, BytesOne, Zenon

LEMMA WordIsText ==
  ASSUME NEW k \in DOMAIN Byte
  PROVE  <<k>> \in Writing
BY DEF Writing

LEMMA FieldIsBytes ==
  ASSUME NEW k \in DOMAIN Byte
  PROVE  Field(k) \in Seq(Octet)
BY WordIsText, TextIsBytes, Zenon DEF Field

LEMMA FieldApart ==
  ASSUME NEW k \in DOMAIN Byte, NEW l \in DOMAIN Byte, Agree(Field(k), Field(l))
  PROVE  k = l
<1>1. <<k>> \in Writing /\ <<l>> \in Writing
  BY WordIsText
<1>2. <<k>> = <<l>>
  BY <1>1, TextApart, Zenon DEF Field
<1>3. <<k>>[1] = k /\ <<l>>[1] = l
  OBVIOUS
<1> QED
  BY <1>2, <1>3, Zenon

\* The pieces of A with their number before them.
Counted(A) == writeVarUint(Len(A)) \o FlattenSeq(A)

LEMMA CountedIsBytes ==
  ASSUME NEW A \in Seq(Seq(Octet))
  PROVE  Counted(A) \in Seq(Octet)
<1>1. Len(A) \in Nat
  OBVIOUS
<1>2. PICK v \in Seq(Octet), r \in Seq(Octet) : v = writeVarUint(Len(A)) /\ r = FlattenSeq(A)
  BY <1>1, VarUintTyped, FlatIs
<1> QED
  BY <1>2, ConcatProperties, Zenon DEF Counted

LEMMA CountedApart ==
  ASSUME NEW A \in Seq(Seq(Octet)), NEW B \in Seq(Seq(Octet)), Apart(A, B),
         Agree(Counted(A), Counted(B))
  PROVE  A = B
<1>1. PICK m \in Nat, n \in Nat : m = Len(A) /\ n = Len(B)
  OBVIOUS
<1>2. PICK v \in Seq(Octet), w \in Seq(Octet) : v = writeVarUint(m) /\ w = writeVarUint(n)
  BY VarUintTyped
<1>3. PICK r \in Seq(Octet), s \in Seq(Octet) : r = FlattenSeq(A) /\ s = FlattenSeq(B)
  BY FlatIs
<1>4. Agree(v \o r, w \o s)
  BY <1>1, <1>2, <1>3, Zenon DEF Counted
<1>5. Agree(v, w) => m = n
  BY <1>2, VarUintApart, Zenon
<1>6. Agree(v, w) => v = w
  BY <1>2, <1>5, Zenon
<1>7. v = w /\ Agree(r, s)
  BY <1>4, <1>6, PieceApart, Zenon
<1>8. m = n
  BY <1>5, <1>7, AgreeSame, Zenon
<1> QED
  BY <1>1, <1>3, <1>7, <1>8, ReadLength, Zenon

\* Outputs are written like that.
TextsOf(s) == [i \in DOMAIN s |-> writeLengthPrefixed(s[i])]

LEMMA TextsOfIs ==
  ASSUME NEW s \in Seq(Writing)
  PROVE  /\ TextsOf(s) \in Seq(Seq(Octet)) /\ Len(TextsOf(s)) = Len(s)
         /\ \A i \in 1..Len(s) : s[i] \in Writing /\ TextsOf(s)[i] = writeLengthPrefixed(s[i])
<1>1. Len(s) \in Nat /\ DOMAIN s = 1..Len(s) /\ \A i \in 1..Len(s) : s[i] \in Writing
  OBVIOUS
<1>2. \A i \in 1..Len(s) : writeLengthPrefixed(s[i]) \in Seq(Octet)
  BY <1>1, TextIsBytes
<1>3. TextsOf(s) = [i \in 1..Len(s) |-> writeLengthPrefixed(s[i])]
  BY <1>1, Zenon DEF TextsOf
<1> QED
  BY <1>1, <1>2, <1>3

LEMMA TextsApart ==
  ASSUME NEW s \in Seq(Writing), NEW t \in Seq(Writing),
         Agree(Counted(TextsOf(s)), Counted(TextsOf(t)))
  PROVE  s = t
<1>1. PICK A \in Seq(Seq(Octet)) :
        A = TextsOf(s) /\ Len(A) = Len(s) /\ \A i \in 1..Len(s) : s[i] \in Writing /\ A[i] = writeLengthPrefixed(s[i])
  BY TextsOfIs
<1>2. PICK B \in Seq(Seq(Octet)) :
        B = TextsOf(t) /\ Len(B) = Len(t) /\ \A i \in 1..Len(t) : t[i] \in Writing /\ B[i] = writeLengthPrefixed(t[i])
  BY TextsOfIs
<1>3. ASSUME NEW i \in 1..Len(A), i <= Len(B), Agree(A[i], B[i])
      PROVE  s[i] = t[i]
  <2>1. i \in 1..Len(s) /\ i \in 1..Len(t)
    BY <1>1, <1>2, <1>3
  <2> QED
    BY <1>1, <1>2, <1>3, <2>1, TextApart
<1>4. Apart(A, B)
  <2> SUFFICES ASSUME NEW i \in 1..Len(A), i <= Len(B), Agree(A[i], B[i])
               PROVE  A[i] = B[i]
    BY DEF Apart
  <2>1. i \in 1..Len(s) /\ i \in 1..Len(t)
    BY <1>1, <1>2
  <2> QED
    BY <1>1, <1>2, <1>3, <2>1
<1>5. A = B
  BY <1>1, <1>2, <1>4, CountedApart, Zenon
<1>6. Len(s) = Len(t) /\ \A i \in 1..Len(s) : s[i] = t[i]
  <2> SUFFICES ASSUME NEW i \in 1..Len(A) PROVE s[i] = t[i]
    BY <1>1, <1>2, <1>5
  <2>1. i <= Len(B) /\ Agree(A[i], B[i])
    BY <1>5, AgreeSame
  <2> QED
    BY <1>3, <2>1
<1> QED
  BY <1>6, SeqEqual

\* A finite map whose keys are texts.
Keyed(m) == IsFiniteSet(DOMAIN m) /\ DOMAIN m \in SUBSET Writing

\* What is written of a map m when w[n] is what is written of m[n].
Entries(m, w) ==
  [i \in DOMAIN SortedKeys(m) |-> writeLengthPrefixed(SortedKeys(m)[i]) \o w[SortedKeys(m)[i]]]
MapText(m, w) == writeVarUint(Cardinality(DOMAIN m)) \o FlattenSeq(Entries(m, w))

LEMMA EntriesAre ==
  ASSUME NEW m, Keyed(m), NEW w, \A n \in DOMAIN m : w[n] \in Seq(Octet)
  PROVE  \E s \in Seq(DOMAIN m) :
           /\ \A n \in DOMAIN m : \E i \in 1..Len(s) : s[i] = n
           /\ Entries(m, w) \in Seq(Seq(Octet)) /\ Len(Entries(m, w)) = Len(s)
           /\ \A i \in 1..Len(s) :
                s[i] \in DOMAIN m /\ Entries(m, w)[i] = writeLengthPrefixed(s[i]) \o w[s[i]]
           /\ MapText(m, w) = Counted(Entries(m, w))
<1>1. PICK s \in Seq(DOMAIN m) :
        /\ s = SortedKeys(m) /\ DOMAIN s = 1..Len(s)
        /\ \A n \in DOMAIN m : \E i \in 1..Len(s) : s[i] = n
  BY KeysAre DEF Keyed
<1>2. Len(s) \in Nat /\ \A i \in 1..Len(s) : s[i] \in DOMAIN m
  OBVIOUS
<1>3. Len(s) = Cardinality(DOMAIN m)
  <2>1. s \in [1..Cardinality(DOMAIN m) -> DOMAIN m]
    BY <1>1, KeysListed DEF Keyed, Lists
  <2>2. Cardinality(DOMAIN m) \in Nat
    BY FS_CardinalityType DEF Keyed
  <2> QED
    BY <2>1, <2>2
<1>4. Entries(m, w) = [i \in 1..Len(s) |-> writeLengthPrefixed(s[i]) \o w[s[i]]]
  BY <1>1, Zenon DEF Entries
<1>5. \A i \in 1..Len(s) : writeLengthPrefixed(s[i]) \o w[s[i]] \in Seq(Octet)
  <2> SUFFICES ASSUME NEW i \in 1..Len(s)
               PROVE  writeLengthPrefixed(s[i]) \o w[s[i]] \in Seq(Octet)
    OBVIOUS
  <2>1. s[i] \in Writing /\ w[s[i]] \in Seq(Octet)
    BY <1>2 DEF Keyed
  <2>2. writeLengthPrefixed(s[i]) \in Seq(Octet)
    BY <2>1, TextIsBytes
  <2> QED
    BY <2>1, <2>2, ConcatProperties
<1> DEFINE e(i) == writeLengthPrefixed(s[i]) \o w[s[i]]
<1>6. /\ Entries(m, w) = [i \in 1..Len(s) |-> e(i)]
      /\ \A i \in 1..Len(s) : e(i) \in Seq(Octet)
  BY <1>4, <1>5, Zenon
<1> HIDE DEF e
<1>7. /\ Entries(m, w) \in Seq(Seq(Octet)) /\ Len(Entries(m, w)) = Len(s)
      /\ \A i \in 1..Len(s) : Entries(m, w)[i] = e(i)
  BY <1>2, <1>6
<1>8. MapText(m, w) = Counted(Entries(m, w))
  BY <1>3, <1>7, Zenon DEF MapText, Counted
<1> QED
  BY <1>1, <1>2, <1>7, <1>8, Zenon DEF e

LEMMA MapIsBytes ==
  ASSUME NEW m, Keyed(m), NEW w, \A n \in DOMAIN m : w[n] \in Seq(Octet)
  PROVE  MapText(m, w) \in Seq(Octet)
<1>1. Entries(m, w) \in Seq(Seq(Octet)) /\ MapText(m, w) = Counted(Entries(m, w))
  BY EntriesAre
<1> QED
  BY <1>1, CountedIsBytes, Zenon

\* Both have the same keys, and of each the same is written.
SameEntries(m, w, m2, w2) == DOMAIN m = DOMAIN m2 /\ \A n \in DOMAIN m : w[n] = w2[n]

LEMMA MapApart ==
  ASSUME NEW m, Keyed(m), NEW w, \A n \in DOMAIN m : w[n] \in Seq(Octet),
         NEW m2, Keyed(m2), NEW w2, \A n \in DOMAIN m2 : w2[n] \in Seq(Octet),
         \A n \in DOMAIN m \cap DOMAIN m2 : Agree(w[n], w2[n]) => w[n] = w2[n],
         Agree(MapText(m, w), MapText(m2, w2))
  PROVE  SameEntries(m, w, m2, w2)
<1>1. PICK s \in Seq(DOMAIN m), A \in Seq(Seq(Octet)) :
        /\ \A n \in DOMAIN m : \E i \in 1..Len(s) : s[i] = n
        /\ A = Entries(m, w) /\ Len(A) = Len(s)
        /\ \A i \in 1..Len(s) : s[i] \in DOMAIN m /\ A[i] = writeLengthPrefixed(s[i]) \o w[s[i]]
        /\ MapText(m, w) = Counted(A)
  BY EntriesAre
<1>2. PICK t \in Seq(DOMAIN m2), B \in Seq(Seq(Octet)) :
        /\ \A n \in DOMAIN m2 : \E i \in 1..Len(t) : t[i] = n
        /\ B = Entries(m2, w2) /\ Len(B) = Len(t)
        /\ \A i \in 1..Len(t) : t[i] \in DOMAIN m2 /\ B[i] = writeLengthPrefixed(t[i]) \o w2[t[i]]
        /\ MapText(m2, w2) = Counted(B)
  BY EntriesAre
<1>3. Len(A) \in Nat /\ Len(B) \in Nat
  OBVIOUS
<1>4. ASSUME NEW i \in 1..Len(A), i <= Len(B), Agree(A[i], B[i])
      PROVE  s[i] = t[i] /\ w[s[i]] = w2[t[i]]
  <2>1. i \in 1..Len(s) /\ i \in 1..Len(t)
    BY <1>1, <1>2, <1>3, <1>4
  <2>2. PICK k \in Writing, l \in Writing : k = s[i] /\ l = t[i] /\ k \in DOMAIN m /\ l \in DOMAIN m2
    BY <1>1, <1>2, <2>1 DEF Keyed
  <2>3. PICK a \in Seq(Octet), r \in Seq(Octet) :
          a = writeLengthPrefixed(k) /\ r = w[k] /\ A[i] = a \o r
    BY <1>1, <2>1, <2>2, TextIsBytes
  <2>4. PICK b \in Seq(Octet), q \in Seq(Octet) :
          b = writeLengthPrefixed(l) /\ q = w2[l] /\ B[i] = b \o q
    BY <1>2, <2>1, <2>2, TextIsBytes
  <2>5. Agree(a \o r, b \o q)
    BY <1>4, <2>3, <2>4, Zenon
  <2>6. Agree(a, b) => k = l
    BY <2>3, <2>4, TextApart, Zenon
  <2>7. Agree(a, b) => a = b
    BY <2>3, <2>4, <2>6, Zenon
  <2>8. a = b /\ Agree(r, q)
    BY <2>5, <2>7, PieceApart, Zenon
  <2>9. k = l
    BY <2>6, <2>8, AgreeSame, Zenon
  <2>10. r = q
    BY <2>2, <2>3, <2>4, <2>8, <2>9
  <2> QED
    BY <2>2, <2>3, <2>4, <2>9, <2>10
<1>5. Apart(A, B)
  <2> SUFFICES ASSUME NEW i \in 1..Len(A), i <= Len(B), Agree(A[i], B[i])
               PROVE  A[i] = B[i]
    BY DEF Apart
  <2>1. i \in 1..Len(s) /\ i \in 1..Len(t)
    BY <1>1, <1>2, <1>3
  <2>2. s[i] = t[i] /\ w[s[i]] = w2[t[i]]
    BY <1>4
  <2>3. A[i] = writeLengthPrefixed(s[i]) \o w[s[i]] /\ B[i] = writeLengthPrefixed(t[i]) \o w2[t[i]]
    BY <1>1, <1>2, <2>1
  <2> QED
    BY <2>2, <2>3, Zenon
<1>6. A = B
  <2>1. Agree(Counted(A), Counted(B))
    BY <1>1, <1>2, Zenon
  <2> QED
    BY <1>5, <2>1, CountedApart, Zenon
<1>7. \A i \in 1..Len(A) : s[i] = t[i] /\ w[s[i]] = w2[t[i]]
  <2> SUFFICES ASSUME NEW i \in 1..Len(A) PROVE s[i] = t[i] /\ w[s[i]] = w2[t[i]]
    OBVIOUS
  <2>1. i <= Len(B) /\ Agree(A[i], B[i])
    BY <1>6, AgreeSame
  <2> QED
    BY <1>4, <2>1
<1>8. \A n \in DOMAIN m : n \in DOMAIN m2 /\ w[n] = w2[n]
  <2> SUFFICES ASSUME NEW n \in DOMAIN m PROVE n \in DOMAIN m2 /\ w[n] = w2[n]
    OBVIOUS
  <2>1. PICK i \in 1..Len(s) : s[i] = n
    BY <1>1
  <2>2. i \in 1..Len(A) /\ i \in 1..Len(t)
    BY <1>1, <1>2, <1>6
  <2>3. t[i] \in DOMAIN m2
    BY <1>2, <2>2
  <2> QED
    BY <1>7, <2>1, <2>2, <2>3
<1>9. \A n \in DOMAIN m2 : n \in DOMAIN m
  <2> SUFFICES ASSUME NEW n \in DOMAIN m2 PROVE n \in DOMAIN m
    OBVIOUS
  <2>1. PICK i \in 1..Len(t) : t[i] = n
    BY <1>2
  <2>2. i \in 1..Len(A) /\ i \in 1..Len(s)
    BY <1>1, <1>2, <1>6
  <2>3. s[i] \in DOMAIN m
    BY <1>1, <2>2
  <2> QED
    BY <1>7, <2>1, <2>2, <2>3
<1> QED
  BY <1>8, <1>9 DEF SameEntries

-----------------------------------------------------------------------------
(* Parameters.                                                             *)

LEMMA ThreeApart ==
  ASSUME NEW a \in Seq(Octet), NEW c \in Seq(Octet), NEW d \in Seq(Octet),
         NEW a2 \in Seq(Octet), NEW c2 \in Seq(Octet), NEW d2 \in Seq(Octet),
         Agree((a \o c) \o d, (a2 \o c2) \o d2),
         Agree(a, a2) => a = a2, Agree(c, c2) => c = c2, Agree(d, d2) => d = d2
  PROVE  SameFields(a, c, d, a2, c2, d2)
<1>1. PICK p \in Seq(Octet), p2 \in Seq(Octet) : p = a \o c /\ p2 = a2 \o c2
  BY ConcatProperties
<1>2. Agree(p \o d, p2 \o d2)
  BY <1>1, Zenon
<1>3. Agree(a \o c, a2 \o c2)
  BY <1>1, <1>2, AgreeFront, Zenon
<1>4. a = a2 /\ Agree(c, c2)
  BY <1>3, PieceApart, Zenon
<1>5. c = c2
  BY <1>4
<1>6. Agree(p, p2) => p = p2
  BY <1>1, <1>4, <1>5, Zenon
<1>7. Agree(d, d2)
  BY <1>2, <1>6, PieceApart, Zenon
<1> QED
  BY <1>4, <1>5, <1>7 DEF SameFields

Flag(b) == <<IF b THEN 1 ELSE 0>>

LEMMA FlagApart ==
  ASSUME NEW b \in BOOLEAN, NEW c \in BOOLEAN
  PROVE  /\ Flag(b) \in Seq(Octet)
         /\ Agree(Flag(b), Flag(c)) => b = c
<1> DEFINE m == IF b THEN 1 ELSE 0
           n == IF c THEN 1 ELSE 0
<1>1. m \in Octet /\ n \in Octet
  BY DEF Octet
<1>2. m = n => b = c
  OBVIOUS
<1>3. Flag(b) = <<m>> /\ Flag(c) = <<n>>
  BY Zenon DEF Flag
<1> HIDE DEF m, n
<1>4. <<m>> \in Seq(Octet) /\ Len(<<m>>) = 1 /\ <<m>>[1] = m
  BY <1>1
<1>5. Len(<<n>>) = 1 /\ <<n>>[1] = n
  OBVIOUS
<1>6. Agree(<<m>>, <<n>>) => m = n
  BY <1>4, <1>5 DEF Agree
<1> QED
  BY <1>2, <1>3, <1>4, <1>6, Zenon

ParamText(p) == Field(p.type) \o writeLengthPrefixed(p.default) \o Flag(p.required)
ParamShape(p) == p.type \in DOMAIN Byte /\ p.default \in Writing /\ p.required \in BOOLEAN
SameParam(p, q) == p.type = q.type /\ p.default = q.default /\ p.required = q.required

LEMMA ParamIsBytes ==
  ASSUME NEW p, ParamShape(p)
  PROVE  ParamText(p) \in Seq(Octet)
<1>1. Field(p.type) \in Seq(Octet)
  BY FieldIsBytes DEF ParamShape
<1>2. writeLengthPrefixed(p.default) \in Seq(Octet)
  BY TextIsBytes DEF ParamShape
<1>3. Flag(p.required) \in Seq(Octet)
  BY FlagApart DEF ParamShape
<1>4. Field(p.type) \o writeLengthPrefixed(p.default) \in Seq(Octet)
  BY <1>1, <1>2, ConcatProperties
<1> QED
  BY <1>3, <1>4, ConcatProperties, Zenon DEF ParamText

LEMMA ParamApart ==
  ASSUME NEW p, ParamShape(p), NEW q, ParamShape(q), Agree(ParamText(p), ParamText(q))
  PROVE  SameParam(p, q)
<1>1. /\ p.type \in DOMAIN Byte /\ p.default \in Writing /\ p.required \in BOOLEAN
      /\ q.type \in DOMAIN Byte /\ q.default \in Writing /\ q.required \in BOOLEAN
  BY DEF ParamShape
<1>2. PICK a \in Seq(Octet), c \in Seq(Octet), d \in Seq(Octet) :
        a = Field(p.type) /\ c = writeLengthPrefixed(p.default) /\ d = Flag(p.required)
  BY <1>1, FieldIsBytes, TextIsBytes, FlagApart
<1>3. PICK a2 \in Seq(Octet), c2 \in Seq(Octet), d2 \in Seq(Octet) :
        a2 = Field(q.type) /\ c2 = writeLengthPrefixed(q.default) /\ d2 = Flag(q.required)
  BY <1>1, FieldIsBytes, TextIsBytes, FlagApart
<1>4. Agree((a \o c) \o d, (a2 \o c2) \o d2)
  BY <1>2, <1>3, Zenon DEF ParamText
<1>5. Agree(a, a2) => p.type = q.type /\ a = a2
  BY <1>1, <1>2, <1>3, FieldApart, Zenon
<1>6. Agree(c, c2) => p.default = q.default /\ c = c2
  BY <1>1, <1>2, <1>3, TextApart, Zenon
<1>7. Agree(d, d2) => p.required = q.required /\ d = d2
  BY <1>1, <1>2, <1>3, FlagApart, Zenon
<1>8. SameFields(a, c, d, a2, c2, d2)
  BY <1>4, <1>5, <1>6, <1>7, ThreeApart, Zenon
<1> QED
  BY <1>5, <1>6, <1>7, <1>8, AgreeSame, Zenon DEF SameFields, SameParam

\* Parameters with the fields they have in the code.
ParamsShape(m) ==
  /\ Keyed(m)
  /\ m = [n \in DOMAIN m |->
            [type |-> m[n].type, default |-> m[n].default, required |-> m[n].required]]
  /\ \A n \in DOMAIN m : ParamShape(m[n])

ParamTexts(m) == [n \in DOMAIN m |-> ParamText(m[n])]

LEMMA ParamsText ==
  ASSUME NEW m, ParamsShape(m)
  PROVE  /\ writeParametersCanonical(m) = Field("params") \o MapText(m, ParamTexts(m))
         /\ \A n \in DOMAIN m : ParamTexts(m)[n] = ParamText(m[n])
         /\ \A n \in DOMAIN m : ParamTexts(m)[n] \in Seq(Octet)
<1>1. \A i \in DOMAIN SortedKeys(m) : SortedKeys(m)[i] \in DOMAIN m
  BY KeysAre DEF ParamsShape, Keyed
<1>2. \A n \in DOMAIN m : ParamTexts(m)[n] = ParamText(m[n])
  BY DEF ParamTexts
<1>3. \A i \in DOMAIN SortedKeys(m) :
        ParamTexts(m)[SortedKeys(m)[i]] = ParamText(m[SortedKeys(m)[i]])
  BY <1>1, <1>2, Zenon
<1>4. Entries(m, ParamTexts(m)) =
        [i \in DOMAIN SortedKeys(m) |->
           writeLengthPrefixed(SortedKeys(m)[i]) \o ParamText(m[SortedKeys(m)[i]])]
  BY <1>3, Zenon DEF Entries
<1>5. writeParametersCanonical(m) = Field("params") \o MapText(m, ParamTexts(m))
  BY <1>4, Zenon DEF writeParametersCanonical, writeMap, Concat, MapText, ParamText, Flag
<1>6. \A n \in DOMAIN m : ParamText(m[n]) \in Seq(Octet)
  BY ParamIsBytes DEF ParamsShape
<1> QED
  BY <1>2, <1>5, <1>6, Zenon

LEMMA ParamsApart ==
  ASSUME NEW m, ParamsShape(m), NEW m2, ParamsShape(m2), Words \subseteq DOMAIN Byte
  PROVE  /\ writeParametersCanonical(m) \in Seq(Octet)
         /\ Agree(writeParametersCanonical(m), writeParametersCanonical(m2)) => m = m2
<1>1. "params" \in DOMAIN Byte
  BY DEF Words
<1>2. PICK f \in Seq(Octet) : f = Field("params")
  BY <1>1, FieldIsBytes
<1>3. \A n \in DOMAIN m : ParamTexts(m)[n] \in Seq(Octet)
  BY ParamsText
<1>4. \A n \in DOMAIN m2 : ParamTexts(m2)[n] \in Seq(Octet)
  BY ParamsText
<1>5. PICK b \in Seq(Octet) : b = MapText(m, ParamTexts(m))
  BY <1>3, MapIsBytes DEF ParamsShape
<1>6. PICK b2 \in Seq(Octet) : b2 = MapText(m2, ParamTexts(m2))
  BY <1>4, MapIsBytes DEF ParamsShape
<1>7. writeParametersCanonical(m) = f \o b /\ writeParametersCanonical(m2) = f \o b2
  BY <1>2, <1>5, <1>6, ParamsText, Zenon
<1>8. f \o b \in Seq(Octet)
  BY ConcatProperties
<1>9. ASSUME Agree(f \o b, f \o b2) PROVE m = m2
  <2>1. Agree(MapText(m, ParamTexts(m)), MapText(m2, ParamTexts(m2)))
    BY <1>5, <1>6, <1>9, AgreeBack, Zenon
  <2>2. ASSUME NEW n \in DOMAIN m \cap DOMAIN m2, Agree(ParamTexts(m)[n], ParamTexts(m2)[n])
        PROVE  SameParam(m[n], m2[n])
    <3>1. ParamShape(m[n]) /\ ParamShape(m2[n])
      BY DEF ParamsShape
    <3>2. ParamTexts(m)[n] = ParamText(m[n]) /\ ParamTexts(m2)[n] = ParamText(m2[n])
      BY ParamsText
    <3>3. Agree(ParamText(m[n]), ParamText(m2[n]))
      BY <2>2, <3>2, Zenon
    <3> QED
      BY <3>1, <3>3, ParamApart
  <2>3. \A n \in DOMAIN m \cap DOMAIN m2 :
          Agree(ParamTexts(m)[n], ParamTexts(m2)[n]) => ParamTexts(m)[n] = ParamTexts(m2)[n]
    <3> SUFFICES ASSUME NEW n \in DOMAIN m \cap DOMAIN m2,
                        Agree(ParamTexts(m)[n], ParamTexts(m2)[n])
                 PROVE  ParamTexts(m)[n] = ParamTexts(m2)[n]
      OBVIOUS
    <3>1. SameParam(m[n], m2[n])
      BY <2>2
    <3>2. ParamTexts(m)[n] = ParamText(m[n]) /\ ParamTexts(m2)[n] = ParamText(m2[n])
      BY ParamsText
    <3> QED
      BY <3>1, <3>2, Zenon DEF SameParam, ParamText
  <2>4. SameEntries(m, ParamTexts(m), m2, ParamTexts(m2))
    <3>1. Keyed(m) /\ Keyed(m2)
      BY DEF ParamsShape
    <3> QED
      BY <1>3, <1>4, <2>1, <2>3, <3>1, MapApart, Zenon
  <2>5. DOMAIN m = DOMAIN m2 /\ \A n \in DOMAIN m : ParamTexts(m)[n] = ParamTexts(m2)[n]
    BY <2>4, Zenon DEF SameEntries
  <2>6. \A n \in DOMAIN m : SameParam(m[n], m2[n])
    <3> SUFFICES ASSUME NEW n \in DOMAIN m PROVE SameParam(m[n], m2[n])
      OBVIOUS
    <3>1. n \in DOMAIN m \cap DOMAIN m2
      BY <2>5
    <3>2. Agree(ParamTexts(m)[n], ParamTexts(m2)[n])
      BY <2>5, AgreeSame, Zenon
    <3> QED
      BY <2>2, <3>1, <3>2
  <2>7. [n \in DOMAIN m |-> [type |-> m[n].type, default |-> m[n].default, required |-> m[n].required]]
          = [n \in DOMAIN m2 |-> [type |-> m2[n].type, default |-> m2[n].default, required |-> m2[n].required]]
    BY <2>5, <2>6 DEF SameParam
  <2> QED
    BY <2>7, Zenon DEF ParamsShape
<1> QED
  BY <1>7, <1>8, <1>9, Zenon

-----------------------------------------------------------------------------
(* Steps.                                                                  *)

\* A function from texts to texts.
InputsShape(m) ==
  Keyed(m) /\ m = [n \in DOMAIN m |-> m[n]] /\ \A n \in DOMAIN m : m[n] \in Writing

InputTexts(m) == [n \in DOMAIN m |-> writeLengthPrefixed(m[n])]

LEMMA InputsText ==
  ASSUME NEW m, InputsShape(m)
  PROVE  /\ writeMap(m, writeLengthPrefixed) = MapText(m, InputTexts(m))
         /\ \A n \in DOMAIN m : InputTexts(m)[n] = writeLengthPrefixed(m[n])
         /\ \A n \in DOMAIN m : InputTexts(m)[n] \in Seq(Octet)
<1>1. \A i \in DOMAIN SortedKeys(m) : SortedKeys(m)[i] \in DOMAIN m
  BY KeysAre DEF InputsShape, Keyed
<1>2. \A n \in DOMAIN m : InputTexts(m)[n] = writeLengthPrefixed(m[n])
  BY DEF InputTexts
<1>3. \A i \in DOMAIN SortedKeys(m) :
        InputTexts(m)[SortedKeys(m)[i]] = writeLengthPrefixed(m[SortedKeys(m)[i]])
  BY <1>1, <1>2, Zenon
<1>4. Entries(m, InputTexts(m)) =
        [i \in DOMAIN SortedKeys(m) |->
           writeLengthPrefixed(SortedKeys(m)[i]) \o writeLengthPrefixed(m[SortedKeys(m)[i]])]
  BY <1>3, Zenon DEF Entries
<1>5. writeMap(m, writeLengthPrefixed) = MapText(m, InputTexts(m))
  BY <1>4, Zenon DEF writeMap, Concat, MapText
<1>6. \A n \in DOMAIN m : writeLengthPrefixed(m[n]) \in Seq(Octet)
  BY TextIsBytes DEF InputsShape
<1> QED
  BY <1>2, <1>5, <1>6, Zenon

LEMMA InputsApart ==
  ASSUME NEW m, InputsShape(m), NEW m2, InputsShape(m2),
         Agree(MapText(m, InputTexts(m)), MapText(m2, InputTexts(m2)))
  PROVE  m = m2
<1>1. \A n \in DOMAIN m : InputTexts(m)[n] \in Seq(Octet)
  BY InputsText
<1>2. \A n \in DOMAIN m2 : InputTexts(m2)[n] \in Seq(Octet)
  BY InputsText
<1>3. ASSUME NEW n \in DOMAIN m \cap DOMAIN m2, Agree(InputTexts(m)[n], InputTexts(m2)[n])
      PROVE  m[n] = m2[n]
  <2>1. m[n] \in Writing /\ m2[n] \in Writing
    BY DEF InputsShape
  <2>2. InputTexts(m)[n] = writeLengthPrefixed(m[n]) /\ InputTexts(m2)[n] = writeLengthPrefixed(m2[n])
    BY InputsText
  <2>3. Agree(writeLengthPrefixed(m[n]), writeLengthPrefixed(m2[n]))
    BY <1>3, <2>2, Zenon
  <2> QED
    BY <2>1, <2>3, TextApart
<1>4. \A n \in DOMAIN m \cap DOMAIN m2 :
        Agree(InputTexts(m)[n], InputTexts(m2)[n]) => InputTexts(m)[n] = InputTexts(m2)[n]
  <2> SUFFICES ASSUME NEW n \in DOMAIN m \cap DOMAIN m2,
                      Agree(InputTexts(m)[n], InputTexts(m2)[n])
               PROVE  InputTexts(m)[n] = InputTexts(m2)[n]
    OBVIOUS
  <2>1. m[n] = m2[n]
    BY <1>3
  <2>2. InputTexts(m)[n] = writeLengthPrefixed(m[n]) /\ InputTexts(m2)[n] = writeLengthPrefixed(m2[n])
    BY InputsText
  <2> QED
    BY <2>1, <2>2, Zenon
<1>5. SameEntries(m, InputTexts(m), m2, InputTexts(m2))
  <2>1. Keyed(m) /\ Keyed(m2)
    BY DEF InputsShape
  <2> QED
    BY <1>1, <1>2, <1>4, <2>1, MapApart, Zenon
<1>6. DOMAIN m = DOMAIN m2 /\ \A n \in DOMAIN m : InputTexts(m)[n] = InputTexts(m2)[n]
  BY <1>5, Zenon DEF SameEntries
<1>7. \A n \in DOMAIN m : m[n] = m2[n]
  <2> SUFFICES ASSUME NEW n \in DOMAIN m PROVE m[n] = m2[n]
    OBVIOUS
  <2>1. n \in DOMAIN m \cap DOMAIN m2
    BY <1>6
  <2>2. Agree(InputTexts(m)[n], InputTexts(m2)[n])
    BY <1>6, AgreeSame, Zenon
  <2> QED
    BY <1>3, <2>1, <2>2
<1>8. [n \in DOMAIN m |-> m[n]] = [n \in DOMAIN m2 |-> m2[n]]
  BY <1>6, <1>7
<1> QED
  BY <1>8, Zenon DEF InputsShape

\* The same heading before two texts.
LEMMA TitleApart ==
  ASSUME NEW f \in Seq(Octet), NEW t \in Writing, NEW u \in Writing,
         Agree(f \o writeLengthPrefixed(t), f \o writeLengthPrefixed(u))
  PROVE  t = u
<1>1. PICK a \in Seq(Octet), b \in Seq(Octet) :
        a = writeLengthPrefixed(t) /\ b = writeLengthPrefixed(u)
  BY TextIsBytes
<1>2. Agree(a, b)
  BY <1>1, AgreeBack, Zenon
<1> QED
  BY <1>1, <1>2, TextApart, Zenon

\* A step with the fields it has in the code; the arguments its kind does not
\* have are empty.
StepShape(s) ==
  /\ s = [id |-> s.id, kind |-> s.kind, path |-> s.path, content |-> s.content,
          inputs |-> s.inputs, outputs |-> s.outputs]
  /\ s.id \in Writing /\ s.kind \in DOMAIN Byte /\ s.path \in Writing /\ s.content \in Writing
  /\ InputsShape(s.inputs) /\ s.outputs \in Seq(Writing)
  /\ s.kind \in {"read_file", "write_file", "legacy"}
  /\ s.kind = "read_file" => s.content = <<>>
  /\ s.kind = "legacy" => s.path = <<>>

\* The arguments of a step of each kind.
Head1(word, n) == Field(word) \o <<n>>
Named(word, t) == Field(word) \o writeLengthPrefixed(t)
ReadArgs(s) == Head1("args:read_file", 1) \o Named("path", s.path)
WriteArgs(s) == Head1("args:write_file", 2) \o Named("content", s.content) \o Named("path", s.path)
LegacyArgs(s) == Head1("args:legacy", 1) \o Field("action") \o writeLengthPrefixed(s.content)

LEMMA ArgsAre ==
  ASSUME NEW s
  PROVE  /\ s.kind = "read_file" => writeCanonicalFields(s) = ReadArgs(s)
         /\ s.kind = "write_file" => writeCanonicalFields(s) = WriteArgs(s)
         /\ s.kind = "legacy" => writeCanonicalFields(s) = LegacyArgs(s)
<1>1. s.kind = "read_file" => writeCanonicalFields(s) = ReadArgs(s)
  BY DEF writeCanonicalFields, ReadArgs, Head1, Named
<1>2. s.kind = "write_file" => writeCanonicalFields(s) = WriteArgs(s)
  BY DEF writeCanonicalFields, WriteArgs, Head1, Named
<1>3. s.kind = "legacy" => writeCanonicalFields(s) = LegacyArgs(s)
  BY DEF writeCanonicalFields, LegacyArgs, Head1, Named
<1> QED
  BY <1>1, <1>2, <1>3

LEMMA HeadIsBytes ==
  ASSUME NEW k \in DOMAIN Byte, NEW n \in Octet
  PROVE  Head1(k, n) \in Seq(Octet)
<1>1. Field(k) \in Seq(Octet) /\ <<n>> \in Seq(Octet)
  BY FieldIsBytes
<1> QED
  BY <1>1, ConcatProperties, Zenon DEF Head1

LEMMA NamedIsBytes ==
  ASSUME NEW k \in DOMAIN Byte, NEW t \in Writing
  PROVE  Named(k, t) \in Seq(Octet)
<1>1. Field(k) \in Seq(Octet) /\ writeLengthPrefixed(t) \in Seq(Octet)
  BY FieldIsBytes, TextIsBytes
<1> QED
  BY <1>1, ConcatProperties, Zenon DEF Named

LEMMA NamedApart ==
  ASSUME NEW k \in DOMAIN Byte, NEW t \in Writing, NEW u \in Writing, Agree(Named(k, t), Named(k, u))
  PROVE  t = u
<1>1. Field(k) \in Seq(Octet)
  BY FieldIsBytes
<1> QED
  BY <1>1, TitleApart, Zenon DEF Named

LEMMA ArgsIsBytes ==
  ASSUME NEW s, StepShape(s), Words \subseteq DOMAIN Byte
  PROVE  writeCanonicalFields(s) \in Seq(Octet)
<1>1. s.path \in Writing /\ s.content \in Writing /\ s.kind \in {"read_file", "write_file", "legacy"}
  BY DEF StepShape
<1>2. /\ "args:read_file" \in DOMAIN Byte /\ "args:write_file" \in DOMAIN Byte
      /\ "args:legacy" \in DOMAIN Byte /\ "path" \in DOMAIN Byte /\ "content" \in DOMAIN Byte
      /\ "action" \in DOMAIN Byte
  BY DEF Words
<1>3. 1 \in Octet /\ 2 \in Octet
  BY DEF Octet
<1>4. /\ Head1("args:read_file", 1) \in Seq(Octet) /\ Head1("args:write_file", 2) \in Seq(Octet)
      /\ Head1("args:legacy", 1) \in Seq(Octet)
  BY <1>2, <1>3, HeadIsBytes
<1>5. Named("path", s.path) \in Seq(Octet) /\ Named("content", s.content) \in Seq(Octet)
  BY <1>1, <1>2, NamedIsBytes
<1>6. Field("action") \in Seq(Octet) /\ writeLengthPrefixed(s.content) \in Seq(Octet)
  BY <1>1, <1>2, FieldIsBytes, TextIsBytes
<1>7. ReadArgs(s) \in Seq(Octet)
  BY <1>4, <1>5, ConcatProperties, Zenon DEF ReadArgs
<1>8. WriteArgs(s) \in Seq(Octet)
  BY <1>4, <1>5, ConcatProperties, Zenon DEF WriteArgs
<1>9. LegacyArgs(s) \in Seq(Octet)
  BY <1>4, <1>6, ConcatProperties, Zenon DEF LegacyArgs
<1> QED
  BY <1>1, <1>7, <1>8, <1>9, ArgsAre

SameArgs(s, t) == s.path = t.path /\ s.content = t.content

LEMMA ArgsApart ==
  ASSUME NEW s, StepShape(s), NEW t, StepShape(t), Words \subseteq DOMAIN Byte,
         s.kind = t.kind, Agree(writeCanonicalFields(s), writeCanonicalFields(t))
  PROVE  SameArgs(s, t)
<1>1. /\ s.path \in Writing /\ s.content \in Writing /\ t.path \in Writing /\ t.content \in Writing
      /\ s.kind \in {"read_file", "write_file", "legacy"}
      /\ s.kind = "read_file" => s.content = <<>> /\ t.content = <<>>
      /\ s.kind = "legacy" => s.path = <<>> /\ t.path = <<>>
  BY DEF StepShape
<1>2. /\ "args:read_file" \in DOMAIN Byte /\ "args:write_file" \in DOMAIN Byte
      /\ "args:legacy" \in DOMAIN Byte /\ "path" \in DOMAIN Byte /\ "content" \in DOMAIN Byte
      /\ "action" \in DOMAIN Byte
  BY DEF Words
<1>3. 1 \in Octet /\ 2 \in Octet
  BY DEF Octet
<1>4. CASE s.kind = "read_file"
  <2>1. PICK h \in Seq(Octet) : h = Head1("args:read_file", 1)
    BY <1>2, <1>3, HeadIsBytes
  <2>2. PICK a \in Seq(Octet), b \in Seq(Octet) :
          a = Named("path", s.path) /\ b = Named("path", t.path)
    BY <1>1, <1>2, NamedIsBytes
  <2>3. writeCanonicalFields(s) = ReadArgs(s) /\ writeCanonicalFields(t) = ReadArgs(t)
    BY <1>4, ArgsAre
  <2>4. Agree(h \o a, h \o b)
    BY <2>1, <2>2, <2>3, Zenon DEF ReadArgs
  <2>5. Agree(a, b)
    BY <2>4, AgreeBack, Zenon
  <2>6. s.path = t.path
    BY <1>1, <1>2, <2>2, <2>5, NamedApart, Zenon
  <2> QED
    BY <1>1, <1>4, <2>6 DEF SameArgs
<1>5. CASE s.kind = "write_file"
  <2>1. PICK h \in Seq(Octet) : h = Head1("args:write_file", 2)
    BY <1>2, <1>3, HeadIsBytes
  <2>2. PICK a \in Seq(Octet), b \in Seq(Octet) :
          a = Named("path", s.path) /\ b = Named("path", t.path)
    BY <1>1, <1>2, NamedIsBytes
  <2>3. PICK c \in Seq(Octet), d \in Seq(Octet) :
          c = Named("content", s.content) /\ d = Named("content", t.content)
    BY <1>1, <1>2, NamedIsBytes
  <2>4. writeCanonicalFields(s) = WriteArgs(s) /\ writeCanonicalFields(t) = WriteArgs(t)
    BY <1>5, ArgsAre
  <2>5. Agree((h \o c) \o a, (h \o d) \o b)
    BY <2>1, <2>2, <2>3, <2>4, Zenon DEF WriteArgs
  <2>6. Agree(a, b) => s.path = t.path /\ a = b
    BY <1>1, <1>2, <2>2, NamedApart, Zenon
  <2>7. Agree(c, d) => s.content = t.content /\ c = d
    BY <1>1, <1>2, <2>3, NamedApart, Zenon
  <2>8. SameFields(h, c, a, h, d, b)
    BY <2>5, <2>6, <2>7, ThreeApart, Zenon
  <2> QED
    BY <2>6, <2>7, <2>8, AgreeSame, Zenon DEF SameFields, SameArgs
<1>6. CASE s.kind = "legacy"
  <2>1. PICK h \in Seq(Octet) : h = Head1("args:legacy", 1)
    BY <1>2, <1>3, HeadIsBytes
  <2>2. PICK f \in Seq(Octet) : f = Field("action")
    BY <1>2, FieldIsBytes
  <2>3. PICK g \in Seq(Octet) : g = h \o f
    BY ConcatProperties
  <2>4. writeCanonicalFields(s) = LegacyArgs(s) /\ writeCanonicalFields(t) = LegacyArgs(t)
    BY <1>6, ArgsAre
  <2>5. Agree(g \o writeLengthPrefixed(s.content), g \o writeLengthPrefixed(t.content))
    BY <2>1, <2>2, <2>3, <2>4, Zenon DEF LegacyArgs
  <2>6. s.content = t.content
    BY <1>1, <2>5, TitleApart, Zenon
  <2> QED
    BY <1>1, <1>6, <2>6 DEF SameArgs
<1> QED
  BY <1>1, <1>4, <1>5, <1>6

StepFront(s) == writeLengthPrefixed(s.id) \o Field(s.kind) \o writeCanonicalFields(s)
StepText(s) ==
  StepFront(s) \o MapText(s.inputs, InputTexts(s.inputs)) \o Counted(TextsOf(s.outputs))

\* What writeStepsCanonical writes of a step.
StepWritten(step) ==
  writeLengthPrefixed(step.id) \o Field(step.kind) \o writeCanonicalFields(step)
    \o writeMap(step.inputs, writeLengthPrefixed)
    \o writeVarUint(Len(step.outputs)) \o Concat(step.outputs, writeLengthPrefixed)

LEMMA FrontIsBytes ==
  ASSUME NEW s, StepShape(s), Words \subseteq DOMAIN Byte
  PROVE  StepFront(s) \in Seq(Octet)
<1>1. s.id \in Writing /\ s.kind \in DOMAIN Byte
  BY DEF StepShape
<1>2. /\ writeLengthPrefixed(s.id) \in Seq(Octet) /\ Field(s.kind) \in Seq(Octet)
      /\ writeCanonicalFields(s) \in Seq(Octet)
  BY <1>1, FieldIsBytes, TextIsBytes, ArgsIsBytes
<1>3. writeLengthPrefixed(s.id) \o Field(s.kind) \in Seq(Octet)
  BY <1>2, ConcatProperties, Zenon
<1> QED
  BY <1>2, <1>3, ConcatProperties, Zenon DEF StepFront

SameFront(s, t) == s.id = t.id /\ s.kind = t.kind /\ s.path = t.path /\ s.content = t.content

LEMMA FrontApart ==
  ASSUME NEW s, StepShape(s), NEW t, StepShape(t), Words \subseteq DOMAIN Byte,
         Agree(StepFront(s), StepFront(t))
  PROVE  SameFront(s, t)
<1>1. s.id \in Writing /\ s.kind \in DOMAIN Byte /\ t.id \in Writing /\ t.kind \in DOMAIN Byte
  BY DEF StepShape
<1>2. PICK a \in Seq(Octet), c \in Seq(Octet), d \in Seq(Octet) :
        a = writeLengthPrefixed(s.id) /\ c = Field(s.kind) /\ d = writeCanonicalFields(s)
  BY <1>1, FieldIsBytes, TextIsBytes, ArgsIsBytes
<1>3. PICK a2 \in Seq(Octet), c2 \in Seq(Octet), d2 \in Seq(Octet) :
        a2 = writeLengthPrefixed(t.id) /\ c2 = Field(t.kind) /\ d2 = writeCanonicalFields(t)
  BY <1>1, FieldIsBytes, TextIsBytes, ArgsIsBytes
<1>4. Agree((a \o c) \o d, (a2 \o c2) \o d2)
  BY <1>2, <1>3, Zenon DEF StepFront
<1>5. PICK p \in Seq(Octet), p2 \in Seq(Octet) : p = a \o c /\ p2 = a2 \o c2
  BY ConcatProperties
<1>6. Agree(p \o d, p2 \o d2)
  BY <1>4, <1>5, Zenon
<1>7. Agree(a \o c, a2 \o c2)
  BY <1>5, <1>6, AgreeFront, Zenon
<1>8. Agree(a, a2) => s.id = t.id /\ a = a2
  BY <1>1, <1>2, <1>3, TextApart, Zenon
<1>9. a = a2 /\ Agree(c, c2)
  BY <1>7, <1>8, PieceApart, Zenon
<1>10. s.id = t.id
  BY <1>8, <1>9, AgreeSame, Zenon
<1>11. s.kind = t.kind
  BY <1>1, <1>2, <1>3, <1>9, FieldApart, Zenon
<1>12. p = p2
  BY <1>2, <1>3, <1>5, <1>9, <1>11, Zenon
<1>13. Agree(d, d2)
  BY <1>6, <1>12, AgreeBack, Zenon
<1>14. SameArgs(s, t)
  BY <1>2, <1>3, <1>11, <1>13, ArgsApart, Zenon
<1> QED
  BY <1>10, <1>11, <1>14 DEF SameFront, SameArgs

LEMMA StepIs ==
  ASSUME NEW s, StepShape(s), Words \subseteq DOMAIN Byte
  PROVE  StepWritten(s) = StepText(s) /\ StepText(s) \in Seq(Octet)
<1>1. InputsShape(s.inputs) /\ Keyed(s.inputs) /\ s.outputs \in Seq(Writing)
  BY DEF StepShape, InputsShape
<1>2. PICK f \in Seq(Octet) : f = StepFront(s)
  BY FrontIsBytes
<1>3. PICK m \in Seq(Octet) :
        m = MapText(s.inputs, InputTexts(s.inputs)) /\ m = writeMap(s.inputs, writeLengthPrefixed)
  <2>1. \A n \in DOMAIN s.inputs : InputTexts(s.inputs)[n] \in Seq(Octet)
    BY <1>1, InputsText
  <2>2. MapText(s.inputs, InputTexts(s.inputs)) \in Seq(Octet)
    BY <1>1, <2>1, MapIsBytes
  <2> QED
    BY <1>1, <2>2, InputsText, Zenon
<1>4. TextsOf(s.outputs) \in Seq(Seq(Octet)) /\ Len(TextsOf(s.outputs)) = Len(s.outputs)
  BY <1>1, TextsOfIs
<1>5. Len(s.outputs) \in Nat
  BY <1>1
<1>6. PICK v \in Seq(Octet), r \in Seq(Octet) :
        v = writeVarUint(Len(s.outputs)) /\ r = FlattenSeq(TextsOf(s.outputs))
  BY <1>4, <1>5, VarUintTyped, FlatIs
<1>7. Concat(s.outputs, writeLengthPrefixed) = r
  BY <1>6, Zenon DEF Concat, TextsOf
<1>8. Counted(TextsOf(s.outputs)) = v \o r
  BY <1>4, <1>6, Zenon DEF Counted
<1>9. PICK g \in Seq(Octet) : g = f \o m
  BY ConcatProperties
<1>10. StepWritten(s) = (g \o v) \o r
  BY <1>2, <1>3, <1>6, <1>7, <1>9, Zenon DEF StepWritten, StepFront
<1>11. StepText(s) = g \o (v \o r)
  BY <1>2, <1>3, <1>8, <1>9, Zenon DEF StepText
<1>12. (g \o v) \o r = g \o (v \o r)
  <2>1. Assoc(g, v, r)
    BY AssocIs, Zenon
  <2> QED
    BY <2>1, Zenon DEF Assoc
<1>13. (g \o v) \o r \in Seq(Octet)
  BY ConcatProperties, Zenon
<1> QED
  BY <1>10, <1>11, <1>12, <1>13, Zenon

LEMMA StepApart ==
  ASSUME NEW s, StepShape(s), NEW t, StepShape(t), Words \subseteq DOMAIN Byte,
         Agree(StepText(s), StepText(t))
  PROVE  s = t
<1>1. InputsShape(s.inputs) /\ Keyed(s.inputs) /\ s.outputs \in Seq(Writing)
  BY DEF StepShape, InputsShape
<1>2. InputsShape(t.inputs) /\ Keyed(t.inputs) /\ t.outputs \in Seq(Writing)
  BY DEF StepShape, InputsShape
<1>3. PICK a \in Seq(Octet), c \in Seq(Octet), d \in Seq(Octet) :
        /\ a = StepFront(s) /\ c = MapText(s.inputs, InputTexts(s.inputs))
        /\ d = Counted(TextsOf(s.outputs))
  <2>1. \A n \in DOMAIN s.inputs : InputTexts(s.inputs)[n] \in Seq(Octet)
    BY <1>1, InputsText
  <2> QED
    BY <1>1, <2>1, FrontIsBytes, MapIsBytes, TextsOfIs, CountedIsBytes
<1>4. PICK a2 \in Seq(Octet), c2 \in Seq(Octet), d2 \in Seq(Octet) :
        /\ a2 = StepFront(t) /\ c2 = MapText(t.inputs, InputTexts(t.inputs))
        /\ d2 = Counted(TextsOf(t.outputs))
  <2>1. \A n \in DOMAIN t.inputs : InputTexts(t.inputs)[n] \in Seq(Octet)
    BY <1>2, InputsText
  <2> QED
    BY <1>2, <2>1, FrontIsBytes, MapIsBytes, TextsOfIs, CountedIsBytes
<1>5. Agree((a \o c) \o d, (a2 \o c2) \o d2)
  BY <1>3, <1>4, Zenon DEF StepText
<1>6. Agree(a, a2) => SameFront(s, t)
  BY <1>3, <1>4, FrontApart, Zenon
<1>7. Agree(a, a2) => a = a2
  <2>1. SUFFICES ASSUME Agree(a, a2) PROVE a = a2
    OBVIOUS
  <2>2. SameFront(s, t)
    BY <1>6, <2>1
  <2>3. writeCanonicalFields(s) = writeCanonicalFields(t)
    BY <2>2, Zenon DEF SameFront, writeCanonicalFields
  <2> QED
    BY <1>3, <1>4, <2>2, <2>3, Zenon DEF SameFront, StepFront
<1>8. Agree(c, c2) => s.inputs = t.inputs
  BY <1>1, <1>2, <1>3, <1>4, InputsApart, Zenon
<1>9. Agree(c, c2) => c = c2
  BY <1>3, <1>4, <1>8, Zenon
<1>10. Agree(d, d2) => s.outputs = t.outputs
  BY <1>1, <1>2, <1>3, <1>4, TextsApart, Zenon
<1>11. Agree(d, d2) => d = d2
  BY <1>3, <1>4, <1>10, Zenon
<1>12. SameFields(a, c, d, a2, c2, d2)
  BY <1>5, <1>7, <1>9, <1>11, ThreeApart, Zenon
<1>13. SameFront(s, t) /\ s.inputs = t.inputs /\ s.outputs = t.outputs
  BY <1>6, <1>8, <1>10, <1>12, AgreeSame, Zenon DEF SameFields
<1>14. [id |-> s.id, kind |-> s.kind, path |-> s.path, content |-> s.content,
        inputs |-> s.inputs, outputs |-> s.outputs]
     = [id |-> t.id, kind |-> t.kind, path |-> t.path, content |-> t.content,
        inputs |-> t.inputs, outputs |-> t.outputs]
  BY <1>13 DEF SameFront
<1> QED
  BY <1>14, Zenon DEF StepShape

\* All steps of a skill.
StepsShape(k) == k \in Seq({s \in Range(k) : StepShape(s)})
StepTexts(k) == [i \in DOMAIN k |-> StepText(k[i])]

LEMMA StepsWritten ==
  ASSUME NEW k, StepsShape(k), Words \subseteq DOMAIN Byte
  PROVE  /\ Len(k) \in Nat /\ DOMAIN k = 1..Len(k) /\ \A i \in 1..Len(k) : StepShape(k[i])
         /\ k = [i \in 1..Len(k) |-> k[i]]
         /\ StepTexts(k) \in Seq(Seq(Octet)) /\ Len(StepTexts(k)) = Len(k)
         /\ \A i \in 1..Len(k) : StepTexts(k)[i] = StepText(k[i])
         /\ writeStepsCanonical(k) = Field("steps") \o Counted(StepTexts(k))
         /\ writeStepsCanonical(k) \in Seq(Octet)
<1> DEFINE S == {s \in Range(k) : StepShape(s)}
<1>1. k \in Seq(S) /\ \A s \in S : StepShape(s)
  BY Zenon DEF StepsShape
<1> HIDE DEF S
<1>2. /\ Len(k) \in Nat /\ DOMAIN k = 1..Len(k) /\ \A i \in 1..Len(k) : k[i] \in S
      /\ k = [i \in 1..Len(k) |-> k[i]]
  BY <1>1
<1>3. \A i \in 1..Len(k) : StepShape(k[i])
  BY <1>1, <1>2
<1>4. \A i \in 1..Len(k) : StepWritten(k[i]) = StepText(k[i]) /\ StepText(k[i]) \in Seq(Octet)
  BY <1>3, StepIs
<1>5. StepTexts(k) = [i \in 1..Len(k) |-> StepText(k[i])]
  BY <1>2, Zenon DEF StepTexts
<1>6. /\ StepTexts(k) \in Seq(Seq(Octet)) /\ Len(StepTexts(k)) = Len(k)
      /\ \A i \in 1..Len(k) : StepTexts(k)[i] = StepText(k[i])
  BY <1>2, <1>4, <1>5
<1>7. [i \in DOMAIN k |-> StepWritten(k[i])] = StepTexts(k)
  BY <1>2, <1>4, <1>5, Zenon
<1>8. writeStepsCanonical(k) =
        Field("steps") \o writeVarUint(Len(k)) \o FlattenSeq([i \in DOMAIN k |-> StepWritten(k[i])])
  BY Zenon DEF writeStepsCanonical, Concat, StepWritten
<1>9. PICK f \in Seq(Octet), v \in Seq(Octet), r \in Seq(Octet) :
        f = Field("steps") /\ v = writeVarUint(Len(k)) /\ r = FlattenSeq(StepTexts(k))
  <2>1. "steps" \in DOMAIN Byte
    BY DEF Words
  <2> QED
    BY <1>2, <1>6, <2>1, FieldIsBytes, VarUintTyped, FlatIs
<1>10. writeStepsCanonical(k) = (f \o v) \o r
  BY <1>7, <1>8, <1>9, Zenon
<1>11. Counted(StepTexts(k)) = v \o r
  BY <1>6, <1>9, Zenon DEF Counted
<1>12. (f \o v) \o r = f \o (v \o r)
  <2>1. Assoc(f, v, r)
    BY AssocIs, Zenon
  <2> QED
    BY <2>1, Zenon DEF Assoc
<1>13. (f \o v) \o r \in Seq(Octet)
  BY ConcatProperties, Zenon
<1>14. writeStepsCanonical(k) = Field("steps") \o Counted(StepTexts(k)) /\ writeStepsCanonical(k) \in Seq(Octet)
  BY <1>9, <1>10, <1>11, <1>12, <1>13, Zenon
<1> QED
  BY <1>2, <1>3, <1>6, <1>14

LEMMA StepsApart ==
  ASSUME NEW k, StepsShape(k), NEW l, StepsShape(l), Words \subseteq DOMAIN Byte,
         Agree(writeStepsCanonical(k), writeStepsCanonical(l))
  PROVE  k = l
<1>1. PICK A \in Seq(Seq(Octet)) :
        /\ A = StepTexts(k) /\ Len(A) = Len(k)
        /\ \A i \in 1..Len(k) : StepShape(k[i]) /\ A[i] = StepText(k[i])
        /\ writeStepsCanonical(k) = Field("steps") \o Counted(A)
  BY StepsWritten
<1>2. PICK B \in Seq(Seq(Octet)) :
        /\ B = StepTexts(l) /\ Len(B) = Len(l)
        /\ \A i \in 1..Len(l) : StepShape(l[i]) /\ B[i] = StepText(l[i])
        /\ writeStepsCanonical(l) = Field("steps") \o Counted(B)
  BY StepsWritten
<1>3. PICK f \in Seq(Octet) : f = Field("steps")
  <2>1. "steps" \in DOMAIN Byte
    BY DEF Words
  <2> QED
    BY <2>1, FieldIsBytes
<1>4. PICK c \in Seq(Octet), d \in Seq(Octet) : c = Counted(A) /\ d = Counted(B)
  BY CountedIsBytes
<1>5. Agree(f \o c, f \o d)
  BY <1>1, <1>2, <1>3, <1>4, Zenon
<1>6. Agree(c, d)
  BY <1>5, AgreeBack, Zenon
<1>7. ASSUME NEW i \in 1..Len(A), i <= Len(B), Agree(A[i], B[i])
      PROVE  k[i] = l[i] /\ A[i] = B[i]
  <2>1. i \in 1..Len(k) /\ i \in 1..Len(l)
    BY <1>1, <1>2, <1>7
  <2>2. StepShape(k[i]) /\ A[i] = StepText(k[i]) /\ StepShape(l[i]) /\ B[i] = StepText(l[i])
    BY <1>1, <1>2, <2>1
  <2>3. Agree(StepText(k[i]), StepText(l[i]))
    BY <1>7, <2>2, Zenon
  <2>4. k[i] = l[i]
    BY <2>2, <2>3, StepApart
  <2> QED
    BY <2>2, <2>4, Zenon
<1>8. Apart(A, B)
  BY <1>7 DEF Apart
<1>9. A = B
  BY <1>4, <1>6, <1>8, CountedApart, Zenon
<1>10. Len(k) = Len(l) /\ \A i \in 1..Len(k) : k[i] = l[i]
  <2> SUFFICES ASSUME NEW i \in 1..Len(A) PROVE k[i] = l[i]
    BY <1>1, <1>2, <1>9
  <2>1. i <= Len(B) /\ Agree(A[i], B[i])
    BY <1>9, AgreeSame
  <2> QED
    BY <1>7, <2>1
<1>11. k = [i \in 1..Len(k) |-> k[i]] /\ l = [i \in 1..Len(l) |-> l[i]]
  BY StepsWritten
<1>12. [i \in 1..Len(k) |-> k[i]] = [i \in 1..Len(l) |-> l[i]]
  BY <1>10, Zenon
<1> QED
  BY <1>11, <1>12, Zenon

-----------------------------------------------------------------------------
(* Sequences that hold the same elements equally often.                    *)

Places(s, c) == {i \in DOMAIN s : s[i] = c}
HowOften(s) == [c \in ToSet(s) |-> Cardinality(Places(s, c))]

\* Sequences with the same elements, each as often.
SameBag(s, t) == \A c : Cardinality(Places(s, c)) = Cardinality(Places(t, c))

LEMMA PlacesFinite ==
  ASSUME NEW S, NEW s \in Seq(S), NEW c
  PROVE  /\ IsFiniteSet(Places(s, c)) /\ Cardinality(Places(s, c)) \in Nat
         /\ Places(s, c) \subseteq 1..Len(s)
         /\ c \notin ToSet(s) => Cardinality(Places(s, c)) = 0
         /\ c \in ToSet(s) => Cardinality(Places(s, c)) # 0
<1>1. Len(s) \in Nat /\ DOMAIN s = 1..Len(s)
  OBVIOUS
<1>2. IsFiniteSet(1..Len(s))
  BY <1>1, FS_Interval
<1>3. Places(s, c) \in SUBSET (1..Len(s))
  BY <1>1 DEF Places
<1>4. IsFiniteSet(Places(s, c))
  BY <1>2, <1>3, FS_Subset
<1>5. c \in ToSet(s) <=> Places(s, c) # {}
  BY DEF ToSet, Places
<1> QED
  BY <1>3, <1>4, <1>5, FS_CardinalityType, FS_EmptySet

LEMMA OftenSame ==
  ASSUME NEW S, NEW s \in Seq(S), NEW t \in Seq(S)
  PROVE  HowOften(s) = HowOften(t) <=> SameBag(s, t)
<1>1. ASSUME HowOften(s) = HowOften(t) PROVE SameBag(s, t)
  <2>1. DOMAIN HowOften(s) = ToSet(s) /\ DOMAIN HowOften(t) = ToSet(t)
    BY DEF HowOften
  <2>2. ToSet(s) = ToSet(t)
    BY <1>1, <2>1
  <2>3. \A c \in ToSet(s) : HowOften(s)[c] = Cardinality(Places(s, c))
    BY DEF HowOften
  <2>4. \A c \in ToSet(t) : HowOften(t)[c] = Cardinality(Places(t, c))
    BY DEF HowOften
  <2>5. ASSUME NEW c PROVE Cardinality(Places(s, c)) = Cardinality(Places(t, c))
    <3>1. CASE c \in ToSet(s)
      BY <1>1, <2>2, <2>3, <2>4, <3>1, Zenon
    <3>2. CASE c \notin ToSet(s)
      BY <2>2, <3>2, PlacesFinite
    <3> QED
      BY <3>1, <3>2
  <2> QED
    BY <2>5 DEF SameBag
<1>2. ASSUME SameBag(s, t) PROVE HowOften(s) = HowOften(t)
  <2>1. \A c : Cardinality(Places(s, c)) = Cardinality(Places(t, c))
    BY <1>2 DEF SameBag
  <2>2. \A c : c \in ToSet(s) <=> Cardinality(Places(s, c)) # 0
    BY PlacesFinite
  <2>3. \A c : c \in ToSet(t) <=> Cardinality(Places(t, c)) # 0
    BY PlacesFinite
  <2>4. ToSet(s) = ToSet(t)
    BY <2>1, <2>2, <2>3
  <2> QED
    BY <2>1, <2>4, Zenon DEF HowOften
<1> QED
  BY <1>1, <1>2

\* Listing s in another order leaves its elements as they are.
LEMMA BagMoved ==
  ASSUME NEW S, NEW s \in Seq(S), NEW n \in Nat, n = Len(s),
         NEW o \in Bijection(1..n, 1..n),
         NEW l \in Seq(S), Len(l) = n, \A i \in 1..n : l[i] = s[o[i]]
  PROVE  SameBag(s, l)
<1>1. DOMAIN s = 1..n /\ DOMAIN l = 1..n
  OBVIOUS
<1>2. /\ \A i \in 1..n : o[i] \in 1..n
      /\ \A i, j \in 1..n : o[i] = o[j] => i = j
      /\ \A j \in 1..n : \E i \in 1..n : o[i] = j
  BY DEF Bijection, Injection, Surjection, IsInjective
<1>3. ASSUME NEW c PROVE Cardinality(Places(s, c)) = Cardinality(Places(l, c))
  <2> DEFINE P == Places(l, c)
             Q == Places(s, c)
             f == [i \in P |-> o[i]]
  <2>1. P \subseteq 1..n /\ Q \subseteq 1..n /\ (\A i \in P : l[i] = c) /\ \A i \in 1..n : l[i] = c => i \in P
    BY <1>1 DEF Places
  <2>2. (\A i \in Q : s[i] = c) /\ \A i \in 1..n : s[i] = c => i \in Q
    BY <1>1 DEF Places
  <2>3. IsFiniteSet(P)
    BY PlacesFinite
  <2> HIDE DEF P, Q
  <2>4. \A i \in P : o[i] \in Q /\ f[i] = o[i]
    BY <1>2, <2>1, <2>2
  <2>5. DOMAIN f = P /\ f = [i \in P |-> f[i]]
    OBVIOUS
  <2> HIDE DEF f
  <2>6. f \in [P -> Q]
    BY <2>4, <2>5
  <2>7. \A i, j \in P : f[i] = f[j] => i = j
    BY <1>2, <2>1, <2>4
  <2>8. \A j \in Q : \E i \in P : f[i] = j
    <3> SUFFICES ASSUME NEW j \in Q PROVE \E i \in P : f[i] = j
      OBVIOUS
    <3>1. PICK i \in 1..n : o[i] = j
      BY <1>2, <2>1
    <3>2. l[i] = c
      BY <2>2, <3>1
    <3> QED
      BY <2>1, <2>4, <3>1, <3>2
  <2>9. f \in Bijection(P, Q)
    BY <2>6, <2>7, <2>8 DEF Bijection, Injection, Surjection, IsInjective
  <2>10. ExistsBijection(P, Q)
    BY <2>9 DEF ExistsBijection
  <2>11. Cardinality(Q) = Cardinality(P)
    BY <2>3, <2>10, FS_Bijection
  <2> QED
    BY <2>11 DEF P, Q
<1> QED
  BY <1>3 DEF SameBag

\* What s has at its place p, and t nowhere from there on, is rarer in t.
LEMMA Rarer ==
  ASSUME NEW S, NEW s \in Seq(S), NEW t \in Seq(S), NEW p \in 1..Len(s),
         \A q \in 1..(p - 1) : q <= Len(t) => t[q] = s[q],
         \A q \in 1..Len(t) : p <= q => t[q] # s[p]
  PROVE  ~SameBag(s, t)
<1> DEFINE c == s[p]
<1>1. DOMAIN s = 1..Len(s) /\ DOMAIN t = 1..Len(t) /\ Len(s) \in Nat /\ Len(t) \in Nat /\ p \in Nat
  OBVIOUS
<1>2. PICK P : P = Places(s, c) /\ IsFiniteSet(P) /\ Cardinality(P) \in Nat
  BY PlacesFinite
<1>3. PICK Q : Q = Places(t, c) /\ IsFiniteSet(Q) /\ Cardinality(Q) \in Nat
  BY PlacesFinite
<1>4. \A q \in Q : q \in 1..Len(t) /\ t[q] = c
  BY <1>1, <1>3 DEF Places
<1>5. \A q \in 1..Len(s) : s[q] = c => q \in P
  BY <1>1, <1>2 DEF Places
<1>6. Q \in SUBSET P /\ p \in P /\ p \notin Q
  <2>1. ASSUME NEW q \in Q PROVE q \in P
    <3>1. q \in 1..Len(t) /\ t[q] = c
      BY <1>4
    <3>2. ~(p <= q)
      BY <3>1
    <3>3. q \in 1..(p - 1) /\ q <= Len(t) /\ q \in 1..Len(s)
      BY <1>1, <3>1, <3>2
    <3> QED
      BY <1>5, <3>1, <3>3
  <2>2. p \notin Q
    BY <1>1, <1>4
  <2> QED
    BY <1>5, <2>1, <2>2
<1>7. Cardinality(P) # Cardinality(Q)
  BY <1>2, <1>6, FS_Subset
<1> QED
  BY <1>2, <1>3, <1>7 DEF SameBag

\* Sorted without two places alike unless they hold the same.
InOrder(s, R) == \A p, q \in 1..Len(s) : p < q => s[p] = s[q] \/ <<s[p], s[q]>> \in R

\* Where two sorted sequences part, one of them has more of something.
LEMMA PartsOnce ==
  ASSUME NEW S, NEW s \in Seq(S), NEW t \in Seq(S), NEW R, Orders(R, S),
         InOrder(t, R), NEW p \in 1..Len(s), p \in 1..Len(t) => <<s[p], t[p]>> \in R,
         \A q \in 1..(p - 1) : q <= Len(t) => t[q] = s[q]
  PROVE  ~SameBag(s, t)
<1>1. Len(s) \in Nat /\ Len(t) \in Nat /\ p \in Nat
  OBVIOUS
<1>2. ASSUME NEW q \in 1..Len(t), p <= q PROVE t[q] # s[p]
  <2>1. p \in 1..Len(t)
    BY <1>1, <1>2
  <2>2. PICK a \in S, b \in S, d \in S : a = s[p] /\ b = t[p] /\ d = t[q]
    BY <2>1
  <2>3. <<a, b>> \in R
    BY <2>1, <2>2
  <2>4. b = d \/ <<b, d>> \in R
    BY <1>1, <1>2, <2>1, <2>2 DEF InOrder
  <2>5. a # d
    BY <2>3, <2>4 DEF Orders
  <2> QED
    BY <2>2, <2>5
<1> QED
  BY <1>2, Rarer

LEMMA OrderOnce ==
  ASSUME NEW S, NEW s \in Seq(S), NEW t \in Seq(S), NEW R, Orders(R, S),
         InOrder(s, R), InOrder(t, R), SameBag(s, t)
  PROVE  s = t
<1>1. Len(s) \in Nat /\ Len(t) \in Nat
  OBVIOUS
<1>2. SameBag(t, s)
  BY DEF SameBag
<1> DEFINE Bad == {p \in Nat \ {0} : /\ p <= Len(s) \/ p <= Len(t)
                                     /\ p <= Len(s) /\ p <= Len(t) => s[p] # t[p]}
<1>3. SUFFICES ASSUME s # t PROVE FALSE
  OBVIOUS
<1>4. Bad # {}
  <2>1. CASE Len(s) = Len(t)
    <3>1. PICK p \in 1..Len(s) : s[p] # t[p]
      BY <1>3, <2>1, SeqEqual
    <3> QED
      BY <1>1, <2>1, <3>1
  <2>2. CASE Len(s) < Len(t)
    <3>1. Len(t) \in Bad
      BY <1>1, <2>2
    <3> QED
      BY <3>1
  <2>3. CASE Len(t) < Len(s)
    <3>1. Len(s) \in Bad
      BY <1>1, <2>3
    <3> QED
      BY <3>1
  <2> QED
    BY <1>1, <2>1, <2>2, <2>3
<1>5. PICK p \in Bad : \A q \in Bad : p <= q
  <2>1. Bad \subseteq Nat
    OBVIOUS
  <2> HIDE DEF Bad
  <2> QED
    BY <1>4, <2>1, Least
<1>6. p \in Nat \ {0} /\ (p <= Len(s) \/ p <= Len(t)) /\ (p <= Len(s) /\ p <= Len(t) => s[p] # t[p])
  OBVIOUS
<1>7. \A q \in 1..(p - 1) : q <= Len(s) \/ q <= Len(t) => q <= Len(s) /\ q <= Len(t) /\ s[q] = t[q]
  <2> SUFFICES ASSUME NEW q \in 1..(p - 1), q <= Len(s) \/ q <= Len(t)
               PROVE  q <= Len(s) /\ q <= Len(t) /\ s[q] = t[q]
    OBVIOUS
  <2>1. q \in Nat \ {0} /\ ~(p <= q)
    BY <1>6
  <2>2. q \notin Bad
    BY <1>5, <2>1
  <2>3. q <= Len(s) /\ q <= Len(t) => s[q] = t[q]
    BY <2>1, <2>2
  <2>4. q <= Len(s) /\ q <= Len(t)
    BY <2>1, <2>2
  <2> QED
    BY <2>3, <2>4
<1> HIDE DEF Bad
<1>8. CASE ~(p <= Len(t))
  <2>1. p \in 1..Len(s) /\ p \notin 1..Len(t)
    BY <1>1, <1>6, <1>8
  <2>2. \A q \in 1..(p - 1) : q <= Len(t) => t[q] = s[q]
    BY <1>7
  <2> QED
    BY <2>1, <2>2, PartsOnce
<1>9. CASE ~(p <= Len(s))
  <2>1. p \in 1..Len(t) /\ p \notin 1..Len(s)
    BY <1>1, <1>6, <1>9
  <2>2. \A q \in 1..(p - 1) : q <= Len(s) => s[q] = t[q]
    BY <1>7
  <2> QED
    BY <1>2, <2>1, <2>2, PartsOnce
<1>10. CASE p <= Len(s) /\ p <= Len(t)
  <2>1. p \in 1..Len(s) /\ p \in 1..Len(t) /\ s[p] # t[p]
    BY <1>1, <1>6, <1>10
  <2>2. s[p] \in S /\ t[p] \in S
    BY <2>1
  <2>3. <<s[p], t[p]>> \in R \/ <<t[p], s[p]>> \in R
    BY <2>1, <2>2 DEF Orders
  <2>4. \A q \in 1..(p - 1) : q <= Len(t) => t[q] = s[q]
    BY <1>7
  <2>5. \A q \in 1..(p - 1) : q <= Len(s) => s[q] = t[q]
    BY <1>7
  <2>6. CASE <<s[p], t[p]>> \in R
    BY <2>1, <2>4, <2>6, PartsOnce
  <2>7. CASE <<t[p], s[p]>> \in R
    BY <1>2, <2>1, <2>5, <2>7, PartsOnce
  <2> QED
    BY <2>3, <2>6, <2>7
<1> QED
  BY <1>8, <1>9, <1>10

-----------------------------------------------------------------------------
(* Capabilities.                                                           *)

CapShape(c) ==
  c = [kind |-> c.kind, scope |-> c.scope] /\ c.kind \in DOMAIN Byte /\ c.scope \in Writing
CapsShape(k) == k \in Seq({c \in Range(k) : CapShape(c)})

CapKey(c) == <<c.kind>> \o c.scope
CapText(c) == Field(c.kind) \o writeLengthPrefixed(c.scope)

LEMMA CapKeyIs ==
  ASSUME NEW c, CapShape(c)
  PROVE  CapKey(c) \in Writing
<1>1. <<c.kind>> \in Seq(DOMAIN Byte) /\ c.scope \in Seq(DOMAIN Byte)
  BY DEF CapShape, Writing
<1> QED
  BY <1>1, ConcatProperties, Zenon DEF CapKey, Writing

LEMMA CapKeyOne ==
  ASSUME NEW c, CapShape(c), NEW d, CapShape(d), CapKey(c) = CapKey(d)
  PROVE  c = d
<1> DEFINE first(e) == <<e>>
<1>0. \A e \in DOMAIN Byte : first(e) \in Seq(DOMAIN Byte) /\ Len(first(e)) = 1 /\ first(e)[1] = e
  OBVIOUS
<1>1. PICK a \in Seq(DOMAIN Byte), b \in Seq(DOMAIN Byte) :
        a = first(c.kind) /\ b = first(d.kind)
  BY <1>0, Zenon DEF CapShape
<1>2. Len(a) = 1 /\ Len(b) = 1 /\ a[1] = c.kind /\ b[1] = d.kind
  BY <1>0, <1>1, Zenon DEF CapShape
<1>3. PICK x \in Seq(DOMAIN Byte), y \in Seq(DOMAIN Byte) : x = c.scope /\ y = d.scope
  BY DEF CapShape, Writing
<1>4. PICK u : u = a \o x /\ u = b \o y
  BY <1>1, <1>3, Zenon DEF CapKey, first
<1>5. /\ Len(u) = 1 + Len(x) /\ Len(u) = 1 + Len(y) /\ Len(x) \in Nat /\ Len(y) \in Nat
      /\ \A i \in 1..(1 + Len(x)) : u[i] = IF i <= 1 THEN a[i] ELSE x[i - 1]
      /\ \A i \in 1..(1 + Len(y)) : u[i] = IF i <= 1 THEN b[i] ELSE y[i - 1]
  <2>1. Len(a \o x) = Len(a) + Len(x) /\ Len(b \o y) = Len(b) + Len(y)
    BY ConcatProperties
  <2>2. \A i \in 1..(Len(a) + Len(x)) : (a \o x)[i] = IF i <= Len(a) THEN a[i] ELSE x[i - Len(a)]
    BY ConcatProperties
  <2>3. \A i \in 1..(Len(b) + Len(y)) : (b \o y)[i] = IF i <= Len(b) THEN b[i] ELSE y[i - Len(b)]
    BY ConcatProperties
  <2>4. Len(x) \in Nat /\ Len(y) \in Nat
    OBVIOUS
  <2> QED
    BY <1>2, <1>4, <2>1, <2>2, <2>3, <2>4, Zenon
<1>6. c.kind = d.kind
  <2>1. 1 \in 1..(1 + Len(x)) /\ 1 \in 1..(1 + Len(y)) /\ 1 <= 1
    BY <1>5
  <2> QED
    BY <1>2, <1>5, <2>1
<1>7. Len(x) = Len(y)
  BY <1>5
<1>8. \A i \in 1..Len(x) : x[i] = y[i]
  <2> SUFFICES ASSUME NEW i \in 1..Len(x) PROVE x[i] = y[i]
    OBVIOUS
  <2>1. i + 1 \in 1..(1 + Len(x)) /\ i + 1 \in 1..(1 + Len(y)) /\ ~(i + 1 <= 1) /\ (i + 1) - 1 = i
    BY <1>5, <1>7
  <2> QED
    BY <1>5, <2>1
<1>9. x = y
  BY <1>7, <1>8, SeqEqual
<1>10. [kind |-> c.kind, scope |-> c.scope] = [kind |-> d.kind, scope |-> d.scope]
  BY <1>3, <1>6, <1>9
<1> QED
  BY <1>10, Zenon DEF CapShape

LEMMA CapIsBytes ==
  ASSUME NEW c, CapShape(c)
  PROVE  CapText(c) \in Seq(Octet)
<1>1. Field(c.kind) \in Seq(Octet) /\ writeLengthPrefixed(c.scope) \in Seq(Octet)
  BY FieldIsBytes, TextIsBytes DEF CapShape
<1> QED
  BY <1>1, ConcatProperties, Zenon DEF CapText

LEMMA CapApart ==
  ASSUME NEW c, CapShape(c), NEW d, CapShape(d), Agree(CapText(c), CapText(d))
  PROVE  c = d
<1>1. c.kind \in DOMAIN Byte /\ c.scope \in Writing /\ d.kind \in DOMAIN Byte /\ d.scope \in Writing
  BY DEF CapShape
<1>2. PICK a \in Seq(Octet), r \in Seq(Octet) :
        a = Field(c.kind) /\ r = writeLengthPrefixed(c.scope)
  BY <1>1, FieldIsBytes, TextIsBytes
<1>3. PICK b \in Seq(Octet), s \in Seq(Octet) :
        b = Field(d.kind) /\ s = writeLengthPrefixed(d.scope)
  BY <1>1, FieldIsBytes, TextIsBytes
<1>4. Agree(a \o r, b \o s)
  BY <1>2, <1>3, Zenon DEF CapText
<1>5. Agree(a, b) => c.kind = d.kind /\ a = b
  BY <1>1, <1>2, <1>3, FieldApart, Zenon
<1>6. a = b /\ Agree(r, s)
  BY <1>4, <1>5, PieceApart, Zenon
<1>7. c.kind = d.kind
  BY <1>5, <1>6, AgreeSame, Zenon
<1>8. c.scope = d.scope
  BY <1>1, <1>2, <1>3, <1>6, TextApart, Zenon
<1>9. [kind |-> c.kind, scope |-> c.scope] = [kind |-> d.kind, scope |-> d.scope]
  BY <1>7, <1>8
<1> QED
  BY <1>9, Zenon DEF CapShape

\* The order of capabilities: by their keys.
CapOrder(C) == {p \in C \X C : Before(CapKey(p[1]), CapKey(p[2]))}

LEMMA CapsOrdered ==
  ASSUME NEW C, \A c \in C : CapShape(c)
  PROVE  Orders(CapOrder(C), C)
<1> DEFINE W == {CapKey(c) : c \in C}
<1>1. W \in SUBSET Writing
  BY CapKeyIs
<1>2. \A c \in C : CapKey(c) \in W
  OBVIOUS
<1>3. Orders(KeyOrder(W), W)
  BY <1>1, KeysOrdered
<1> HIDE DEF W
<1>4. \A x, y \in W : <<x, y>> \in KeyOrder(W) <=> Before(x, y)
  BY DEF KeyOrder
<1>5. \A c, d \in C : <<c, d>> \in CapOrder(C) <=> Before(CapKey(c), CapKey(d))
  BY DEF CapOrder
<1>6. \A x \in W : ~Before(x, x)
  BY <1>3, <1>4 DEF Orders
<1>7. \A x, y, z \in W : Before(x, y) /\ Before(y, z) => Before(x, z)
  BY <1>3, <1>4 DEF Orders
<1>8. \A x, y \in W : x = y \/ Before(x, y) \/ Before(y, x)
  BY <1>3, <1>4 DEF Orders
<1>9. \A c, d \in C : CapKey(c) = CapKey(d) => c = d
  BY CapKeyOne
<1>10. \A c \in C : <<c, c>> \notin CapOrder(C)
  BY <1>2, <1>5, <1>6
<1>11. \A c, d, e \in C : <<c, d>> \in CapOrder(C) /\ <<d, e>> \in CapOrder(C) => <<c, e>> \in CapOrder(C)
  BY <1>2, <1>5, <1>7
<1>12. \A c, d \in C : c = d \/ <<c, d>> \in CapOrder(C) \/ <<d, c>> \in CapOrder(C)
  BY <1>2, <1>5, <1>8, <1>9
<1> QED
  BY <1>10, <1>11, <1>12, Zenon DEF Orders

\* How the code compares two places: equal keys keep their places.
PlaceBefore(k, i, j) ==
  \/ Before(CapKey(k[i]), CapKey(k[j]))
  \/ Bytes(CapKey(k[i])) = Bytes(CapKey(k[j])) /\ i < j
PlaceOrder(k) == {p \in (DOMAIN k) \X (DOMAIN k) : PlaceBefore(k, p[1], p[2])}

LEMMA CapsAre ==
  ASSUME NEW k, CapsShape(k)
  PROVE  /\ k \in Seq(Range(k)) /\ Len(k) \in Nat /\ DOMAIN k = 1..Len(k)
         /\ \A c \in Range(k) : CapShape(c)
         /\ \A i \in 1..Len(k) : k[i] \in Range(k) /\ CapShape(k[i])
<1> DEFINE S == {c \in Range(k) : CapShape(c)}
<1>1. k \in Seq(S) /\ S \subseteq Range(k) /\ \A c \in S : CapShape(c)
  BY Zenon DEF CapsShape
<1> HIDE DEF S
<1>2. Len(k) \in Nat /\ DOMAIN k = 1..Len(k) /\ \A i \in 1..Len(k) : k[i] \in S
  BY <1>1
<1>3. \A c \in Range(k) : \E i \in 1..Len(k) : c = k[i]
  BY <1>2 DEF Range
<1>4. \A c \in Range(k) : c \in S
  BY <1>2, <1>3
<1>5. S = Range(k)
  BY <1>1, <1>4
<1> QED
  BY <1>1, <1>2, <1>5

LEMMA PlacesOrdered ==
  ASSUME NEW k, CapsShape(k)
  PROVE  Orders(PlaceOrder(k), DOMAIN k)
<1> DEFINE D == DOMAIN k
           C == Range(k)
           R == CapOrder(C)
<1>1. Len(k) \in Nat /\ D = 1..Len(k) /\ (\A c \in C : CapShape(c)) /\ \A i \in D : k[i] \in C
  BY CapsAre
<1>2. Orders(R, C)
  BY <1>1, CapsOrdered
<1>3. \A c, d \in C : <<c, d>> \in R <=> Before(CapKey(c), CapKey(d))
  BY DEF CapOrder
<1>4. \A c, d \in C : Bytes(CapKey(c)) = Bytes(CapKey(d)) <=> c = d
  <2> SUFFICES ASSUME NEW c \in C, NEW d \in C PROVE Bytes(CapKey(c)) = Bytes(CapKey(d)) <=> c = d
    OBVIOUS
  <2>1. CapShape(c) /\ CapShape(d)
    BY <1>1
  <2>2. CapKey(c) \in Writing /\ CapKey(d) \in Writing
    BY <2>1, CapKeyIs
  <2>3. Bytes(CapKey(c)) = Bytes(CapKey(d)) => CapKey(c) = CapKey(d)
    BY <2>2, BytesOne
  <2> QED
    BY <2>1, <2>3, CapKeyOne
<1>5. \A i, j \in D : <<i, j>> \in PlaceOrder(k) <=> PlaceBefore(k, i, j)
  BY DEF PlaceOrder
<1> HIDE DEF D, C, R
<1>6. \A i, j \in D : PlaceBefore(k, i, j) <=> <<k[i], k[j]>> \in R \/ (k[i] = k[j] /\ i < j)
  BY <1>1, <1>3, <1>4, Zenon DEF PlaceBefore
<1>7. \A i, j \in D : <<i, j>> \in PlaceOrder(k) <=> <<k[i], k[j]>> \in R \/ (k[i] = k[j] /\ i < j)
  BY <1>5, <1>6, Zenon
<1>8. \A i \in D : i \in Nat
  BY <1>1
<1>9. \A c \in C : <<c, c>> \notin R
  BY <1>2 DEF Orders
<1>10. \A c, d, e \in C : <<c, d>> \in R /\ <<d, e>> \in R => <<c, e>> \in R
  BY <1>2 DEF Orders
<1>11. \A c, d \in C : c = d \/ <<c, d>> \in R \/ <<d, c>> \in R
  BY <1>2 DEF Orders
<1>12. \A i \in D : <<i, i>> \notin PlaceOrder(k)
  <2> SUFFICES ASSUME NEW i \in D PROVE <<i, i>> \notin PlaceOrder(k)
    OBVIOUS
  <2>1. <<k[i], k[i]>> \notin R
    BY <1>1, <1>9
  <2>2. ~(i < i)
    BY <1>8
  <2> QED
    BY <1>7, <2>1, <2>2, Zenon
<1>13. \A x, y, z \in D : <<x, y>> \in PlaceOrder(k) /\ <<y, z>> \in PlaceOrder(k) => <<x, z>> \in PlaceOrder(k)
  <2> SUFFICES ASSUME NEW x \in D, NEW y \in D, NEW z \in D,
                      <<x, y>> \in PlaceOrder(k), <<y, z>> \in PlaceOrder(k)
               PROVE  <<x, z>> \in PlaceOrder(k)
    OBVIOUS
  <2>1. <<k[x], k[y]>> \in R \/ (k[x] = k[y] /\ x < y)
    BY <1>7
  <2>2. <<k[y], k[z]>> \in R \/ (k[y] = k[z] /\ y < z)
    BY <1>7
  <2>3. PICK a \in C, b \in C, c \in C : a = k[x] /\ b = k[y] /\ c = k[z]
    BY <1>1
  <2>4. <<a, c>> \in R \/ (a = c /\ x < z)
    <3>1. x \in Nat /\ y \in Nat /\ z \in Nat
      BY <1>8
    <3>2. x < y /\ y < z => x < z
      BY <3>1
    <3>3. <<a, b>> \in R \/ (a = b /\ x < y)
      BY <2>1, <2>3
    <3>4. <<b, c>> \in R \/ (b = c /\ y < z)
      BY <2>2, <2>3
    <3> QED
      BY <1>10, <3>2, <3>3, <3>4, Zenon
  <2> QED
    BY <1>7, <2>3, <2>4, Zenon
<1>14. \A x, y \in D : x = y \/ <<x, y>> \in PlaceOrder(k) \/ <<y, x>> \in PlaceOrder(k)
  <2> SUFFICES ASSUME NEW x \in D, NEW y \in D
               PROVE  x = y \/ <<x, y>> \in PlaceOrder(k) \/ <<y, x>> \in PlaceOrder(k)
    OBVIOUS
  <2>1. x = y \/ x < y \/ y < x
    BY <1>8
  <2>2. k[x] = k[y] \/ <<k[x], k[y]>> \in R \/ <<k[y], k[x]>> \in R
    BY <1>1, <1>11
  <2> QED
    BY <1>7, <2>1, <2>2, Zenon
<1>15. Orders(PlaceOrder(k), D)
  BY <1>12, <1>13, <1>14, Zenon DEF Orders
<1> QED
  BY <1>15 DEF D

\* The places in the order of the code, and what stands at them.
Order(k) ==
  CHOOSE s \in [1..Cardinality(DOMAIN k) -> DOMAIN k] :
    \A i, j \in DOMAIN s : i < j => PlaceBefore(k, s[i], s[j])
CapList(k) == [p \in DOMAIN Order(k) |-> k[Order(k)[p]]]
CapTexts(l) == [p \in DOMAIN l |-> CapText(l[p])]

LEMMA CapsWritten ==
  ASSUME NEW k
  PROVE  writeCapabilitiesCanonical(k) =
           Field("caps") \o writeVarUint(Len(k)) \o FlattenSeq(CapTexts(CapList(k)))
<1>1. writeCapabilitiesCanonical(k) =
        Field("caps") \o writeVarUint(Len(k))
          \o FlattenSeq([p \in DOMAIN Order(k) |-> CapText(k[Order(k)[p]])])
  BY Zenon DEF writeCapabilitiesCanonical, Sorted, Concat, PlaceBefore, CapKey, CapText, Order
<1>2. DOMAIN CapList(k) = DOMAIN Order(k)
      /\ \A p \in DOMAIN Order(k) : CapList(k)[p] = k[Order(k)[p]]
  BY DEF CapList
<1>3. CapTexts(CapList(k)) = [p \in DOMAIN Order(k) |-> CapText(k[Order(k)[p]])]
  BY <1>2, Zenon DEF CapTexts
<1> QED
  BY <1>1, <1>3, Zenon

LEMMA UptoIs ==
  ASSUME NEW n \in Nat
  PROVE  IsFiniteSet(1..n) /\ Cardinality(1..n) = n
BY FS_Interval

LEMMA OrderIs ==
  ASSUME NEW k, CapsShape(k), NEW n \in Nat, n = Len(k)
  PROVE  /\ Order(k) \in Bijection(1..n, 1..n)
         /\ \A i, j \in 1..n : i < j => PlaceBefore(k, Order(k)[i], Order(k)[j])
<1> DEFINE S == DOMAIN k
           R == PlaceOrder(k)
           Right(s) == \A i, j \in DOMAIN s : i < j => PlaceBefore(k, s[i], s[j])
<1>1. S = 1..n
  BY CapsAre
<1>2. IsFiniteSet(S) /\ Cardinality(S) = n
  <2>1. IsFiniteSet(1..n) /\ Cardinality(1..n) = n
    BY UptoIs
  <2> QED
    BY <1>1, <2>1, Zenon
<1>3. Orders(R, S)
  BY PlacesOrdered
<1>4. \A i, j \in S : <<i, j>> \in R <=> PlaceBefore(k, i, j)
  BY DEF PlaceOrder
<1>5. Order(k) = CHOOSE r \in [1..Cardinality(S) -> S] : Right(r)
  BY Zenon DEF Order
<1> HIDE DEF S, R
<1>6. PICK s : Lists(s, S, R)
  BY <1>2, <1>3, SortedExists
<1>7. s \in [1..Cardinality(S) -> S] /\ Right(s)
  <2>1. s \in [1..Cardinality(S) -> S] /\ \A i, j \in DOMAIN s : i < j => <<s[i], s[j]>> \in R
    BY <1>6 DEF Lists
  <2>2. \A i \in DOMAIN s : s[i] \in S
    BY <2>1
  <2> QED
    BY <1>4, <2>1, <2>2, Zenon
<1> HIDE DEF Right
<1>8. Order(k) \in [1..Cardinality(S) -> S] /\ Right(Order(k))
  BY <1>5, <1>7, Zenon
<1> USE DEF Right
<1>9. PICK o \in [1..Cardinality(S) -> S] : o = Order(k)
  BY <1>8, Zenon
<1>10. DOMAIN o = 1..n /\ \A i \in 1..n : o[i] \in S
  BY <1>2, <1>9
<1>11. \A i, j \in 1..n : i < j => PlaceBefore(k, o[i], o[j])
  BY <1>8, <1>9, <1>10, Zenon
<1>12. \A i, j \in DOMAIN o : i < j => <<o[i], o[j]>> \in R
  BY <1>4, <1>10, <1>11, Zenon
<1>13. Lists(o, S, R)
  BY <1>9, <1>12 DEF Lists
<1>14. \A x \in S : \E i \in 1..n : o[i] = x
  BY <1>2, <1>3, <1>13, ListsAll
<1>15. \A i, j \in 1..n : o[i] = o[j] => i = j
  <2> SUFFICES ASSUME NEW i \in 1..n, NEW j \in 1..n, o[i] = o[j] PROVE i = j
    OBVIOUS
  <2>1. <<o[i], o[j]>> \notin R /\ <<o[j], o[i]>> \notin R
    BY <1>3, <1>10 DEF Orders
  <2>2. ~(i < j) /\ ~(j < i)
    BY <1>10, <1>12, <2>1
  <2> QED
    BY <2>2
<1>16. o \in [1..n -> 1..n]
  BY <1>1, <1>2, <1>9
<1>17. o \in Bijection(1..n, 1..n)
  BY <1>1, <1>14, <1>15, <1>16 DEF Bijection, Injection, Surjection, IsInjective
<1> QED
  BY <1>9, <1>11, <1>17

LEMMA CapListIs ==
  ASSUME NEW k, CapsShape(k)
  PROVE  /\ CapList(k) \in Seq(Range(k)) /\ Len(CapList(k)) = Len(k)
         /\ SameBag(k, CapList(k))
         /\ \A p, q \in 1..Len(k) : p < q =>
              \/ CapList(k)[p] = CapList(k)[q]
              \/ Before(CapKey(CapList(k)[p]), CapKey(CapList(k)[q]))
<1>1. PICK n \in Nat : n = Len(k) /\ DOMAIN k = 1..n
  BY CapsAre
<1>2. k \in Seq(Range(k)) /\ \A i \in 1..n : k[i] \in Range(k) /\ CapShape(k[i])
  BY <1>1, CapsAre
<1>3. PICK o \in Bijection(1..n, 1..n) :
        o = Order(k) /\ \A i, j \in 1..n : i < j => PlaceBefore(k, o[i], o[j])
  BY <1>1, OrderIs
<1>4. DOMAIN o = 1..n /\ \A i \in 1..n : o[i] \in 1..n
  BY <1>3 DEF Bijection, Injection
<1>5. CapList(k) = [p \in 1..n |-> k[o[p]]]
  BY <1>3, <1>4, Zenon DEF CapList
<1>6. PICK l \in Seq(Range(k)) : l = CapList(k) /\ Len(l) = n /\ \A i \in 1..n : l[i] = k[o[i]]
  <2> DEFINE l == [p \in 1..n |-> k[o[p]]]
  <2>1. \A p \in 1..n : k[o[p]] \in Range(k)
    BY <1>2, <1>4
  <2>2. l \in Seq(Range(k)) /\ Len(l) = n /\ \A i \in 1..n : l[i] = k[o[i]]
    BY <2>1
  <2> QED
    BY <1>5, <2>2, Zenon
<1>7. SameBag(k, l)
  BY <1>1, <1>2, <1>6, BagMoved
<1>8. \A p, q \in 1..n : p < q => l[p] = l[q] \/ Before(CapKey(l[p]), CapKey(l[q]))
  <2> SUFFICES ASSUME NEW p \in 1..n, NEW q \in 1..n, p < q
               PROVE  l[p] = l[q] \/ Before(CapKey(l[p]), CapKey(l[q]))
    OBVIOUS
  <2>1. PlaceBefore(k, o[p], o[q])
    BY <1>3
  <2>2. PICK c, d : c = k[o[p]] /\ d = k[o[q]] /\ CapShape(c) /\ CapShape(d) /\ l[p] = c /\ l[q] = d
    BY <1>2, <1>4, <1>6
  <2>3. CapKey(c) \in Writing /\ CapKey(d) \in Writing
    BY <2>2, CapKeyIs
  <2>4. Before(CapKey(c), CapKey(d)) \/ Bytes(CapKey(c)) = Bytes(CapKey(d))
    BY <2>1, <2>2, Zenon DEF PlaceBefore
  <2>5. Bytes(CapKey(c)) = Bytes(CapKey(d)) => CapKey(c) = CapKey(d)
    BY <2>3, BytesOne
  <2>6. CapKey(c) = CapKey(d) => c = d
    BY <2>2, CapKeyOne
  <2> QED
    BY <2>2, <2>4, <2>5, <2>6, Zenon
<1> QED
  BY <1>1, <1>6, <1>7, <1>8

LEMMA CapTextsAre ==
  ASSUME NEW k, CapsShape(k), "caps" \in DOMAIN Byte
  PROVE  \E l \in Seq(Range(k)), A \in Seq(Seq(Octet)) :
           /\ l = CapList(k) /\ Len(l) = Len(k) /\ Len(A) = Len(l)
           /\ \A i \in 1..Len(l) : CapShape(l[i]) /\ A[i] = CapText(l[i])
           /\ writeCapabilitiesCanonical(k) = Field("caps") \o Counted(A)
           /\ writeCapabilitiesCanonical(k) \in Seq(Octet)
<1>1. PICK l \in Seq(Range(k)) : l = CapList(k) /\ Len(l) = Len(k)
  BY CapListIs
<1>2. Len(l) \in Nat /\ DOMAIN l = 1..Len(l) /\ \A i \in 1..Len(l) : CapShape(l[i])
  BY CapsAre
<1>3. \A i \in 1..Len(l) : CapText(l[i]) \in Seq(Octet)
  BY <1>2, CapIsBytes
<1>4. CapTexts(l) = [i \in 1..Len(l) |-> CapText(l[i])]
  BY <1>2, Zenon DEF CapTexts
<1>5. PICK A \in Seq(Seq(Octet)) :
        A = CapTexts(l) /\ Len(A) = Len(l) /\ \A i \in 1..Len(l) : A[i] = CapText(l[i])
  <2> DEFINE A == CapTexts(l)
  <2>1. A = [i \in 1..Len(l) |-> CapText(l[i])]
    BY <1>4, Zenon
  <2> HIDE DEF A
  <2>2. \A i \in 1..Len(l) : A[i] = CapText(l[i])
    BY <2>1, Zenon
  <2>3. A = [i \in 1..Len(l) |-> A[i]] /\ \A i \in 1..Len(l) : A[i] \in Seq(Octet)
    BY <1>3, <2>1, <2>2, Zenon
  <2>4. A \in Seq(Seq(Octet)) /\ Len(A) = Len(l)
    BY <1>2, <2>3
  <2> QED
    BY <2>2, <2>4, Zenon DEF A
<1>6. PICK f \in Seq(Octet), v \in Seq(Octet), r \in Seq(Octet) :
        f = Field("caps") /\ v = writeVarUint(Len(l)) /\ r = FlattenSeq(A)
  BY <1>2, FieldIsBytes, VarUintTyped, FlatIs
<1>7. writeCapabilitiesCanonical(k) = (f \o v) \o r
  BY <1>1, <1>5, <1>6, CapsWritten, Zenon
<1>8. Counted(A) = v \o r
  BY <1>5, <1>6, Zenon DEF Counted
<1>9. (f \o v) \o r = f \o (v \o r)
  <2>1. Assoc(f, v, r)
    BY AssocIs, Zenon
  <2> QED
    BY <2>1, Zenon DEF Assoc
<1>10. (f \o v) \o r \in Seq(Octet)
  BY ConcatProperties, Zenon
<1>11. writeCapabilitiesCanonical(k) = Field("caps") \o Counted(A) /\ writeCapabilitiesCanonical(k) \in Seq(Octet)
  BY <1>6, <1>7, <1>8, <1>9, <1>10, Zenon
<1> QED
  BY <1>1, <1>2, <1>5, <1>11

\* Capabilities are hashed alike only when they are the same, in any order.
LEMMA CapsApart ==
  ASSUME NEW k, CapsShape(k), NEW m, CapsShape(m), "caps" \in DOMAIN Byte,
         Agree(writeCapabilitiesCanonical(k), writeCapabilitiesCanonical(m))
  PROVE  SameBag(k, m)
<1>1. PICK l \in Seq(Range(k)), A \in Seq(Seq(Octet)) :
        /\ l = CapList(k) /\ Len(l) = Len(k) /\ Len(A) = Len(l)
        /\ \A i \in 1..Len(l) : CapShape(l[i]) /\ A[i] = CapText(l[i])
        /\ writeCapabilitiesCanonical(k) = Field("caps") \o Counted(A)
  BY CapTextsAre
<1>2. PICK l2 \in Seq(Range(m)), B \in Seq(Seq(Octet)) :
        /\ l2 = CapList(m) /\ Len(l2) = Len(m) /\ Len(B) = Len(l2)
        /\ \A i \in 1..Len(l2) : CapShape(l2[i]) /\ B[i] = CapText(l2[i])
        /\ writeCapabilitiesCanonical(m) = Field("caps") \o Counted(B)
  BY CapTextsAre
<1>3. PICK f \in Seq(Octet), c \in Seq(Octet), d \in Seq(Octet) :
        f = Field("caps") /\ c = Counted(A) /\ d = Counted(B)
  BY FieldIsBytes, CountedIsBytes
<1>4. Agree(f \o c, f \o d)
  BY <1>1, <1>2, <1>3, Zenon
<1>5. Agree(c, d)
  BY <1>4, AgreeBack, Zenon
<1>6. ASSUME NEW i \in 1..Len(A), i <= Len(B), Agree(A[i], B[i])
      PROVE  l[i] = l2[i] /\ A[i] = B[i]
  <2>1. i \in 1..Len(l) /\ i \in 1..Len(l2)
    BY <1>1, <1>2, <1>6
  <2>2. CapShape(l[i]) /\ A[i] = CapText(l[i]) /\ CapShape(l2[i]) /\ B[i] = CapText(l2[i])
    BY <1>1, <1>2, <2>1
  <2>3. Agree(CapText(l[i]), CapText(l2[i]))
    BY <1>6, <2>2, Zenon
  <2>4. l[i] = l2[i]
    BY <2>2, <2>3, CapApart
  <2> QED
    BY <2>2, <2>4, Zenon
<1>7. Apart(A, B)
  BY <1>6 DEF Apart
<1>8. A = B
  BY <1>3, <1>5, <1>7, CountedApart, Zenon
<1>9. Len(l) = Len(l2) /\ \A i \in 1..Len(l) : l[i] = l2[i]
  <2> SUFFICES ASSUME NEW i \in 1..Len(A) PROVE l[i] = l2[i]
    BY <1>1, <1>2, <1>8
  <2>1. i <= Len(B) /\ Agree(A[i], B[i])
    BY <1>8, AgreeSame
  <2> QED
    BY <1>6, <2>1
<1>10. l = l2
  <2> DEFINE C == Range(k) \cup Range(m)
  <2>1. Range(k) \subseteq C /\ Range(m) \subseteq C
    OBVIOUS
  <2> HIDE DEF C
  <2>2. l \in Seq(C) /\ l2 \in Seq(C)
    BY <2>1
  <2> QED
    BY <1>9, <2>2, SeqEqual
<1>11. SameBag(k, CapList(k)) /\ SameBag(m, CapList(m))
  BY CapListIs
<1> QED
  BY <1>1, <1>2, <1>10, <1>11 DEF SameBag

\* The same capabilities are hashed alike, whatever their order.
LEMMA CapsSame ==
  ASSUME NEW k, CapsShape(k), NEW m, CapsShape(m), "caps" \in DOMAIN Byte, SameBag(k, m)
  PROVE  writeCapabilitiesCanonical(k) = writeCapabilitiesCanonical(m)
<1> DEFINE C == Range(k) \cup Range(m)
           R == CapOrder(C)
<1>1. \A c \in C : CapShape(c)
  BY CapsAre
<1>2. Orders(R, C)
  BY <1>1, CapsOrdered
<1>3. \A c, d \in C : <<c, d>> \in R <=> Before(CapKey(c), CapKey(d))
  BY DEF CapOrder
<1>4. Range(k) \subseteq C /\ Range(m) \subseteq C
  OBVIOUS
<1> HIDE DEF C, R
<1>5. PICK l \in Seq(Range(k)) :
        /\ l = CapList(k) /\ Len(l) = Len(k) /\ SameBag(k, l)
        /\ \A p, q \in 1..Len(k) : p < q => l[p] = l[q] \/ Before(CapKey(l[p]), CapKey(l[q]))
  BY CapListIs
<1>6. PICK l2 \in Seq(Range(m)) :
        /\ l2 = CapList(m) /\ Len(l2) = Len(m) /\ SameBag(m, l2)
        /\ \A p, q \in 1..Len(m) : p < q => l2[p] = l2[q] \/ Before(CapKey(l2[p]), CapKey(l2[q]))
  BY CapListIs
<1>7. l \in Seq(C) /\ \A p \in 1..Len(l) : l[p] \in C
  BY <1>4
<1>8. l2 \in Seq(C) /\ \A p \in 1..Len(l2) : l2[p] \in C
  BY <1>4
<1>9. InOrder(l, R)
  BY <1>3, <1>5, <1>7, Zenon DEF InOrder
<1>10. InOrder(l2, R)
  BY <1>3, <1>6, <1>8, Zenon DEF InOrder
<1>11. SameBag(l, l2)
  BY <1>5, <1>6 DEF SameBag
<1>12. l = l2
  BY <1>2, <1>7, <1>8, <1>9, <1>10, <1>11, OrderOnce
<1>13. Len(k) = Len(m)
  BY <1>5, <1>6, <1>12
<1> QED
  BY <1>5, <1>6, <1>12, <1>13, CapsWritten, Zenon

LEMMA CapsTogether ==
  ASSUME NEW k, CapsShape(k), NEW m, CapsShape(m)
  PROVE  \E S : k \in Seq(S) /\ m \in Seq(S)
<1> DEFINE C == Range(k) \cup Range(m)
<1>1. Range(k) \subseteq C /\ Range(m) \subseteq C
  OBVIOUS
<1>2. k \in Seq(Range(k)) /\ m \in Seq(Range(m))
  BY CapsAre
<1> HIDE DEF C
<1>3. k \in Seq(C) /\ m \in Seq(C)
  BY <1>1, <1>2
<1> QED
  BY <1>3

-----------------------------------------------------------------------------
(* The logical hash.                                                       *)

LEMMA NothingWritten ==
  /\ <<>> \in Writing
  /\ writeVarUint(0) = writeLengthPrefixed(<<>>)
<1>1. <<>> \in Writing /\ Len(<<>>) = 0
  BY DEF Writing
<1>2. PICK A \in Seq(Seq(Octet)) : Len(A) = 0 /\ Bytes(<<>>) = FlattenSeq(A)
  BY <1>1, CodesAre DEF Bytes, Codes
<1>3. PICK f : Sums(Octet, A, f)
  BY SumsExist
<1>4. FlattenSeq(A) = <<>>
  BY <1>2, <1>3 DEF Sums
<1>5. Bytes(<<>>) = <<>> /\ Len(Bytes(<<>>)) = 0
  BY <1>1, <1>2, <1>4, Zenon
<1>6. PICK v \in Seq(Octet) : v = writeVarUint(0)
  BY VarUintTyped
<1>7. writeLengthPrefixed(<<>>) = v \o <<>>
  BY <1>5, <1>6, Zenon DEF writeLengthPrefixed
<1>8. v \o <<>> = v
  BY ConcatEmptySeq
<1> QED
  BY <1>1, <1>6, <1>7, <1>8, Zenon

VersionText(k) == IF k.version = "" THEN <<>> ELSE <<k.version>>
VersionWritten(k) == IF k.version = "" THEN writeVarUint(0) ELSE Field(k.version)

Versioned(k) == k.version = "" \/ k.version = "v1"

LEMMA VersionApart ==
  ASSUME NEW k, Versioned(k), NEW m, Versioned(m), "v1" \in DOMAIN Byte
  PROVE  /\ VersionWritten(k) \in Seq(Octet)
         /\ Agree(VersionWritten(k), VersionWritten(m)) => k.version = m.version
<1>1. \A j : VersionWritten(j) = writeLengthPrefixed(VersionText(j))
  BY NothingWritten, Zenon DEF VersionWritten, VersionText, Field
<1>2. \A j : Versioned(j) => VersionText(j) \in Writing
  <2>1. <<"v1">> \in Writing /\ <<>> \in Writing
    BY WordIsText, NothingWritten
  <2> QED
    BY <2>1, Zenon DEF VersionText, Versioned
<1>3. VersionText(k) \in Writing /\ VersionText(m) \in Writing
  BY <1>2, Zenon
<1>4. Agree(VersionWritten(k), VersionWritten(m)) => VersionText(k) = VersionText(m)
  BY <1>1, <1>3, TextApart, Zenon
<1>5. VersionText(k) = VersionText(m) => k.version = m.version
  <2>0. <<>> # <<"v1">>
    OBVIOUS
  <2>1. PICK e, o : e = <<>> /\ o = <<"v1">> /\ e # o
    BY <2>0, Zenon
  <2>2. \A j : j.version = "v1" => VersionText(j) = o
    BY <2>1 DEF VersionText
  <2>3. \A j : j.version = "" => VersionText(j) = e
    BY <2>1 DEF VersionText
  <2>4. (k.version = "" \/ k.version = "v1") /\ (m.version = "" \/ m.version = "v1")
    BY Zenon DEF Versioned
  <2>5. CASE k.version = "" /\ m.version = ""
    BY <2>5
  <2>6. CASE k.version = "v1" /\ m.version = "v1"
    BY <2>6
  <2>7. CASE k.version = "" /\ m.version = "v1"
    <3>1. VersionText(k) = e /\ VersionText(m) = o
      BY <2>2, <2>3, <2>7
    <3> QED
      BY <2>1, <3>1
  <2>8. CASE k.version = "v1" /\ m.version = ""
    <3>1. VersionText(k) = o /\ VersionText(m) = e
      BY <2>2, <2>3, <2>8
    <3> QED
      BY <2>1, <3>1
  <2> QED
    BY <2>4, <2>5, <2>6, <2>7, <2>8
<1>6. VersionWritten(k) \in Seq(Octet)
  BY <1>1, <1>3, TextIsBytes
<1> QED
  BY <1>4, <1>5, <1>6

\* A skill with the fields it has in the code.
SkillShape(k) ==
  Versioned(k) /\ ParamsShape(k.params) /\ StepsShape(k.steps) /\ CapsShape(k.caps)

\* Skills that do the same; the order of the capabilities does not count.
SameSkill(k, m) ==
  /\ k.version = m.version /\ k.params = m.params /\ k.steps = m.steps
  /\ HowOften(k.caps) = HowOften(m.caps)

\* Two skills have one logical hash when, and only when, they do the same
\* (GetLogicalHash).
THEOREM HashTells ==
  ASSUME NEW k, SkillShape(k), NEW m, SkillShape(m), Words \subseteq DOMAIN Byte
  PROVE  GetLogicalHash(k) = GetLogicalHash(m) <=> SameSkill(k, m)
<1>1. /\ Versioned(k) /\ ParamsShape(k.params) /\ StepsShape(k.steps) /\ CapsShape(k.caps)
      /\ Versioned(m) /\ ParamsShape(m.params) /\ StepsShape(m.steps) /\ CapsShape(m.caps)
  BY DEF SkillShape
<1>2. "v1" \in DOMAIN Byte /\ "caps" \in DOMAIN Byte
  BY DEF Words
<1>3. PICK v \in Seq(Octet), p \in Seq(Octet), s \in Seq(Octet), c \in Seq(Octet) :
        /\ v = VersionWritten(k) /\ p = writeParametersCanonical(k.params)
        /\ s = writeStepsCanonical(k.steps) /\ c = writeCapabilitiesCanonical(k.caps)
  <2>1. VersionWritten(k) \in Seq(Octet)
    BY <1>1, <1>2, VersionApart, Zenon
  <2>2. writeParametersCanonical(k.params) \in Seq(Octet)
    BY <1>1, ParamsApart
  <2>3. writeStepsCanonical(k.steps) \in Seq(Octet)
    BY <1>1, StepsWritten
  <2>4. writeCapabilitiesCanonical(k.caps) \in Seq(Octet)
    BY <1>1, <1>2, CapTextsAre
  <2> QED
    BY <2>1, <2>2, <2>3, <2>4
<1>4. PICK w \in Seq(Octet), q \in Seq(Octet), t \in Seq(Octet), d \in Seq(Octet) :
        /\ w = VersionWritten(m) /\ q = writeParametersCanonical(m.params)
        /\ t = writeStepsCanonical(m.steps) /\ d = writeCapabilitiesCanonical(m.caps)
  <2>1. VersionWritten(m) \in Seq(Octet)
    BY <1>1, <1>2, VersionApart, Zenon
  <2>2. writeParametersCanonical(m.params) \in Seq(Octet)
    BY <1>1, ParamsApart
  <2>3. writeStepsCanonical(m.steps) \in Seq(Octet)
    BY <1>1, StepsWritten
  <2>4. writeCapabilitiesCanonical(m.caps) \in Seq(Octet)
    BY <1>1, <1>2, CapTextsAre
  <2> QED
    BY <2>1, <2>2, <2>3, <2>4
<1>5. GetLogicalHash(k) = ((v \o p) \o s) \o c /\ GetLogicalHash(m) = ((w \o q) \o t) \o d
  BY <1>3, <1>4, Zenon DEF GetLogicalHash, VersionWritten
<1>6. ASSUME GetLogicalHash(k) = GetLogicalHash(m) PROVE SameSkill(k, m)
  <2>1. PICK a \in Seq(Octet), b \in Seq(Octet) : a = v \o p /\ b = w \o q
    BY ConcatProperties
  <2>2. Agree((a \o s) \o c, (b \o t) \o d)
    BY <1>5, <1>6, <2>1, AgreeSame, Zenon
  <2>3. Agree(v, w) => k.version = m.version
    BY <1>1, <1>2, <1>3, <1>4, VersionApart, Zenon
  <2>4. Agree(v, w) => v = w
    BY <1>3, <1>4, <2>3, Zenon DEF VersionWritten
  <2>5. Agree(p, q) => k.params = m.params
    BY <1>1, <1>3, <1>4, ParamsApart, Zenon
  <2>6. Agree(p, q) => p = q
    BY <1>3, <1>4, <2>5, Zenon
  <2>7. Agree(a, b) => v = w /\ Agree(p, q)
    BY <2>1, <2>4, PieceApart, Zenon
  <2>8. Agree(a, b) => k.version = m.version /\ k.params = m.params /\ a = b
    BY <2>1, <2>3, <2>5, <2>6, <2>7, AgreeSame, Zenon
  <2>9. Agree(s, t) => k.steps = m.steps
    BY <1>1, <1>3, <1>4, StepsApart, Zenon
  <2>10. Agree(s, t) => s = t
    BY <1>3, <1>4, <2>9, Zenon
  <2>11. PICK x \in Seq(Octet), y \in Seq(Octet) : x = a \o s /\ y = b \o t
    BY ConcatProperties
  <2>12. Agree(x \o c, y \o d)
    BY <2>2, <2>11, Zenon
  <2>13. Agree(a \o s, b \o t)
    BY <2>11, <2>12, AgreeFront, Zenon
  <2>14. a = b /\ Agree(s, t)
    BY <2>8, <2>13, PieceApart, Zenon
  <2>15. k.version = m.version /\ k.params = m.params /\ k.steps = m.steps /\ x = y
    BY <2>8, <2>9, <2>10, <2>11, <2>14, AgreeSame, Zenon
  <2>16. Agree(c, d)
    BY <2>12, <2>15, AgreeBack, Zenon
  <2>17. SameBag(k.caps, m.caps)
    BY <1>1, <1>2, <1>3, <1>4, <2>16, CapsApart, Zenon
  <2>18. HowOften(k.caps) = HowOften(m.caps)
    <3>1. PICK S : k.caps \in Seq(S) /\ m.caps \in Seq(S)
      BY <1>1, CapsTogether
    <3> QED
      BY <2>17, <3>1, OftenSame, Zenon
  <2> QED
    BY <2>15, <2>18 DEF SameSkill
<1>7. ASSUME SameSkill(k, m) PROVE GetLogicalHash(k) = GetLogicalHash(m)
  <2>1. k.version = m.version /\ k.params = m.params /\ k.steps = m.steps /\ HowOften(k.caps) = HowOften(m.caps)
    BY <1>7 DEF SameSkill
  <2>2. SameBag(k.caps, m.caps)
    <3>1. PICK S : k.caps \in Seq(S) /\ m.caps \in Seq(S)
      BY <1>1, CapsTogether
    <3> QED
      BY <2>1, <3>1, OftenSame, Zenon
  <2>3. c = d
    BY <1>1, <1>2, <1>3, <1>4, <2>2, CapsSame, Zenon
  <2>4. v = w /\ p = q /\ s = t
    BY <1>3, <1>4, <2>1, Zenon DEF VersionWritten
  <2> QED
    BY <1>5, <2>3, <2>4, Zenon
<1> QED
  BY <1>6, <1>7

=============================================================================
