-------------------------------- MODULE Texts --------------------------------
(***************************************************************************)
(* The text functions of the Go library that admission relies on.  A text  *)
(* is a sequence of tokens, and a token is a string nothing ever cuts in   *)
(* two: a sign the code looks for ("$", "{", "}", "/", ".", " ") or a run  *)
(* of letters or digits ("out").                                           *)
(***************************************************************************)
EXTENDS Naturals, SequencesExt

CONSTANT Byte   \* Byte[k]: the bytes that token k stands for

\* No token's bytes begin another's, so bytes are read as tokens in one way.
ASSUME ByteAssumption ==
  \A k \in DOMAIN Byte :
    /\ Byte[k] \in Seq(0..255) \ {<<>>}
    /\ \A l \in DOMAIN Byte : IsPrefix(Byte[k], Byte[l]) => k = l

\* strings.TrimSpace, and what it leaves of a blank text.
TrimSpace(t) ==
  LET ink == {i \in DOMAIN t : t[i] # " "}
  IN IF ink = {} THEN <<>> ELSE SubSeq(t, Min(ink), Max(ink))

Blank(t) == TrimSpace(t) = <<>>

\* strings.Contains.
Occurs(m, t) == \E i \in 1..(Len(t) - Len(m) + 1) : SubSeq(t, i, i + Len(m) - 1) = m

\* strings.Split, and strings.Join of what it yields.
Split(t, sign) ==
  FoldLeft(LAMBDA parts, k :
             IF k = sign THEN Append(parts, <<>>)
             ELSE Append(Front(parts), Append(Last(parts), k)),
           << <<>> >>, t)

Join(parts, sign) ==
  FoldLeft(LAMBDA t, part : IF t = <<>> THEN part ELSE t \o <<sign>> \o part, <<>>, parts)

Bytes(t) == FlattenSeq([i \in DOMAIN t |-> Byte[t[i]]])

\* The order of strings, byte by byte.
Before(s, t) ==
  LET b == Bytes(s)
      c == Bytes(t)
  IN b # c /\ \/ IsPrefix(b, c)
              \/ \E i \in DOMAIN b \cap DOMAIN c :
                   b[i] < c[i] /\ SubSeq(b, 1, i - 1) = SubSeq(c, 1, i - 1)

\* Package sort, for an order in which no two elements of S are equal.
\* SetToSortSeq rests on an operator the prover has no definition of.
Sorted(S, Less(_, _)) ==
  CHOOSE s \in [1..Cardinality(S) -> S] : \A i, j \in DOMAIN s : i < j => Less(s[i], s[j])

\* sort.Strings of the keys of a map.
SortedKeys(m) == Sorted(DOMAIN m, Before)

\* One text after another, one for each element of s.
Concat(s, Op(_)) == FlattenSeq([i \in DOMAIN s |-> Op(s[i])])
=============================================================================
