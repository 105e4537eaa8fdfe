------------------------------ MODULE FileTree ------------------------------
(***************************************************************************)
(* The part of a hierarchical file system that loom's engine relies on: a  *)
(* directory tree is a function from workspace-relative paths to what the  *)
(* path holds, and the os calls of internal/engine/vfs.go and              *)
(* internal/engine/executor.go are operators on such trees.  Names are     *)
(* abstract: a path is a value, and Up[p] is the set of its strict         *)
(* ancestors below the root ("a/b/c" |-> {"a", "a/b"}).  Every path is     *)
(* clean, relative and outside the reserved .loom_meta namespace, which is *)
(* what resolveManagedRelativePath lets through.                           *)
(***************************************************************************)
CONSTANTS
  Path,      \* workspace-relative paths
  Up,        \* Up[p]: the strict ancestors of p, the root excluded
  Content,   \* what a file may be written with
  Torn,      \* the bytes an interrupted os.WriteFile leaves behind
  Absent,    \* nothing at this path
  Dir        \* a directory

File == Content \cup {Torn}
Node == File \cup {Absent, Dir}

ASSUME NodeAssumption ==
  /\ Torn \notin Content
  /\ Absent \notin File
  /\ Dir \notin File
  /\ Absent # Dir

\* Ancestors form a chain, and an ancestor's ancestor is an ancestor.
ASSUME UpAssumption ==
  /\ Up \in [Path -> SUBSET Path]
  /\ \A p \in Path : p \notin Up[p]
  /\ \A p \in Path : \A q \in Up[p] : Up[q] \subseteq Up[p]
  /\ \A p \in Path : \A q, r \in Up[p] : q = r \/ q \in Up[r] \/ r \in Up[q]

\* A path has finitely many components: a first one, and one after each other.
ASSUME ComponentAssumption ==
  \A p \in Path :
    /\ \E r \in Up[p] \cup {p} : Up[r] = {}
    /\ \A q \in Up[p] : \E r \in Up[p] \cup {p} : Up[r] = Up[q] \cup {q}

-----------------------------------------------------------------------------
\* p and everything beneath it.
Under(p) == {q \in Path : q = p \/ p \in Up[q]}

\* The entries os.ReadDir lists for directory d, and for the root.
Children(d) == {q \in Path : d \in Up[q] /\ Up[q] = Up[d] \cup {d}}
TopLevel == {q \in Path : Up[q] = {}}

\* A tree: whatever exists lies in directories.
IsTree(t) ==
  /\ t \in [Path -> Node]
  /\ \A p \in Path : t[p] # Absent => \A q \in Up[p] : t[q] = Dir

Empty == [p \in Path |-> Absent]

\* A call on p meets ENOTDIR: one of its ancestors is a file.
Blocked(t, p) == \E q \in Up[p] : t[q] \in File

\* What reading p as a file yields.
FileAt(t, p) == IF t[p] \in File THEN t[p] ELSE Absent
Files(t) == [p \in Path |-> FileAt(t, p)]

-----------------------------------------------------------------------------
\* os.MkdirAll: every path of ds becomes a directory (none of them is a file).
MkdirAll(t, ds) == [q \in Path |-> IF q \in ds THEN Dir ELSE t[q]]

\* os.MkdirAll of the parent followed by os.WriteFile, or by a rename onto p.
Put(t, p, f) ==
  [q \in Path |-> IF q = p THEN f ELSE IF q \in Up[p] THEN Dir ELSE t[q]]

\* os.RemoveAll, as far as it got: the paths of gone no longer exist.
Drop(t, gone) == [q \in Path |-> IF q \in gone THEN Absent ELSE t[q]]

\* A set RemoveAll can have removed: with a directory, all it contained.
Sunken(t, gone) ==
  \A p \in gone : \A q \in Path : p \in Up[q] /\ t[q] # Absent => q \in gone
=============================================================================
