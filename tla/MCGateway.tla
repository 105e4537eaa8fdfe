------------------------------ MODULE MCGateway ------------------------------
(* Small instances of Gateway: skills that cover every branch of the       *)
(* admission, the draft gate and the executor.                             *)
EXTENDS Gateway, TLC

CONSTANTS a, b, x, y

Read(p) == [kind |-> "read", path |-> p, text |-> x, optional |-> FALSE]
Write(p, t) == [kind |-> "write", path |-> p, text |-> t, optional |-> FALSE]
WriteOptional(p, t) == [kind |-> "write", path |-> p, text |-> t, optional |-> TRUE]

Make(v1, valid, prov, steps) ==
  [v1 |-> v1, valid |-> valid, prov |-> prov, steps |-> steps]

Twice == <<Write(a, x), Write(b, y)>>
Reading == <<Write(a, y), Read(b), Write(a, x)>>
Optional == <<Write(a, x), WriteOptional(b, y)>>

\* One of each provenance, a v0 skill, an invalid one, and each failing step.
AllSkills ==
  {Make(TRUE, TRUE, prov, Twice) : prov \in {"none", "reviewed", "mismatch", "draft", "stub"}}
  \cup {Make(FALSE, TRUE, "none", Twice), Make(TRUE, FALSE, "none", Twice)}
  \cup {Make(TRUE, TRUE, "none", Reading), Make(TRUE, TRUE, "draft", Optional)}

FewSkills ==
  {Make(TRUE, TRUE, "none", Reading), Make(TRUE, TRUE, "draft", Optional),
   Make(TRUE, TRUE, "stub", Twice)}

TwoSkills == {Make(TRUE, TRUE, "none", Reading), Make(TRUE, TRUE, "draft", Optional)}

EmptyOrFull == {[p \in Path |-> Absent], [p \in Path |-> x]}
OnlyA == {[p \in Path |-> IF p = a THEN x ELSE Absent]}

Symmetry == Permutations(Session) \cup Permutations(Proc)
=============================================================================
