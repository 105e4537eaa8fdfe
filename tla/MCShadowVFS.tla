---------------------------- MODULE MCShadowVFS -----------------------------
(* Small instances of ShadowVFS: a nested directory and a file beside it,  *)
(* over a workspace that is empty, has files in directories, or has a file *)
(* where a session may want a directory.                                   *)
EXTENDS ShadowVFS, TLC

CONSTANTS x, y

\* For one session: a directory "a" with "a/b", which may be a directory too.
Deep == {"a", "a/b", "a/b/d", "c"}
DeepUp ==
  [p \in Deep |-> CASE p = "a/b" -> {"a"} [] p = "a/b/d" -> {"a", "a/b"} [] OTHER -> {}]
DeepBaselines == {
  [p \in Deep |-> Absent],
  [p \in Deep |-> IF p \in {"a", "a/b"} THEN Dir ELSE x],
  [p \in Deep |-> IF p = "a" THEN Dir ELSE IF p = "a/b" THEN x ELSE Absent] }

\* For several sessions or processes.
Flat == {"a", "a/b", "c"}
FlatUp == [p \in Flat |-> IF p = "a/b" THEN {"a"} ELSE {}]
FlatBaselines == {
  [p \in Flat |-> IF p = "a" THEN Dir ELSE x],
  [p \in Flat |-> IF p = "a" THEN x ELSE Absent] }

\* For two sessions promoted by two processes: one directory, one file.
Pair == {"a", "a/b"}
PairUp == [p \in Pair |-> IF p = "a/b" THEN {"a"} ELSE {}]
PairBaselines == {[p \in Pair |-> IF p = "a" THEN Dir ELSE x], [p \in Pair |-> Absent]}

Symmetry == Permutations(Session) \cup Permutations(Proc)
=============================================================================
