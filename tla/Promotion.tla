----------------------------- MODULE Promotion ------------------------------
(***************************************************************************)
(* What the overlay and its commit promise: a session records one change   *)
(* per path and the workspace stays as it is; once the session is over its *)
(* changes reach the workspace in any order and in any number of attempts, *)
(* a file at worst missing in between; when the session is done they are   *)
(* all there, and nothing it did not change was touched.                   *)
(***************************************************************************)
CONSTANTS
  Path, Session, File,
  Absent,    \* no file
  Keep,      \* no change recorded
  Gone       \* the file is to disappear

VARIABLES
  files,     \* files[p]: the workspace file at p, or Absent
  change,    \* change[s][p]: what s did to p
  over,      \* over[s]: s records no more
  done       \* done[s]: s is promoted for good

vars == <<files, change, over, done>>

Change == File \cup {Keep, Gone}

Outcome(s, p) == IF change[s][p] = Gone THEN Absent ELSE change[s][p]
Changed(s) == {p \in Path : change[s][p] # Keep}

Init ==
  /\ files \in [Path -> File \cup {Absent}]
  /\ change = [s \in Session |-> [p \in Path |-> Keep]]
  /\ over = [s \in Session |-> FALSE]
  /\ done = [s \in Session |-> FALSE]

Record(s) ==
  /\ ~over[s]
  /\ change' \in [Session -> [Path -> Change]]
  /\ \A r \in Session \ {s} : change'[r] = change[r]
  /\ over' \in [Session -> BOOLEAN]
  /\ \A r \in Session \ {s} : over'[r] = over[r]
  /\ UNCHANGED <<files, done>>

Publish(s) ==
  /\ over[s] /\ ~done[s]
  /\ files' \in [Path -> File \cup {Absent}]
  /\ \A p \in Path : files'[p] # files[p] =>
       p \in Changed(s) /\ files'[p] \in {Absent, Outcome(s, p)}
  /\ UNCHANGED <<change, over, done>>

Finish(s) ==
  /\ over[s]
  /\ \A p \in Changed(s) : files[p] = Outcome(s, p)
  /\ done' = [done EXCEPT ![s] = TRUE]
  /\ UNCHANGED <<files, change, over>>

Next == \E s \in Session : Record(s) \/ Publish(s) \/ Finish(s)

Spec == Init /\ [][Next]_vars
=============================================================================
