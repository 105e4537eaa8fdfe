---------------------------- MODULE MCMigration ----------------------------
(* Small instances of Migration: one or two sources that share an id, the  *)
(* library empty, with a draft, with a signed skill.                       *)
EXTENDS Migration, TLC

CONSTANTS p, q, plain, prose, broken, body, v, w

OneOrder == <<p>>
BothOrder == <<p, q>>
SameId == [s \in Path |-> "skill"]

Ask(conflict, force, execute, off, llm) ==
  [conflict |-> conflict, force |-> force, execute |-> execute, off |-> off, llm |-> llm]

\* Every conflict mode, forced or not, with and without a language model.
Asked ==
  {Ask(c, FALSE, TRUE, FALSE, FALSE) : c \in {"skip", "rename", "overwrite"}}
  \cup {Ask("overwrite", TRUE, TRUE, FALSE, TRUE), Ask("rename", FALSE, FALSE, TRUE, FALSE)}
Unforced == {Ask("overwrite", FALSE, TRUE, FALSE, FALSE)}

DraftOf(s, t) == [body |-> "translated", mode |-> "mechanical", from |-> s, hash |-> t]
Unsigned(k) == [seal |-> k, reviewed |-> FALSE, sig |-> {}]
Accepted(k) == [seal |-> k, reviewed |-> TRUE, sig |-> {k}]
Garbled == [Unsigned(DraftOf(p, plain)) EXCEPT !.seal.body = "garbled"]
None == [n \in Name |-> Absent]
With(f) == [None EXCEPT ![<<"skill", 0>>] = f]
Stored == {With(f) : f \in
  {Unsigned(DraftOf(p, plain)), Accepted(DraftOf(p, plain)), Garbled}} \cup
  {[With(Accepted(DraftOf(p, plain))) EXCEPT ![<<"skill", 1>>] = Unsigned(DraftOf(p, prose))]}

AnyLibrary == {None} \cup Stored
DraftLibrary == {With(Unsigned(DraftOf(p, plain)))}
SomeSources == {[s \in Path |-> plain], [s \in Path |-> IF s = p THEN prose ELSE plain],
                [s \in Path |-> IF s = p THEN broken ELSE prose],
                [s \in Path |-> IF s = p THEN plain ELSE Absent]}
PlainSource == {[s \in Path |-> plain]}

Symmetry == Permutations(Acceptor)
=============================================================================
