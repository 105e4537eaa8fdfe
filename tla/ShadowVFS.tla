----------------------------- MODULE ShadowVFS ------------------------------
(***************************************************************************)
(* The copy-on-write overlay of internal/engine/vfs.go.                    *)
(*                                                                         *)
(* A session reads through its shadow tree and its tombstones to the real  *)
(* workspace, and writes into the shadow only.  Any number of `loom        *)
(* commit` processes promote finished sessions: apply the tombstones, walk *)
(* the shadow and copy each file beside its target and rename it there,    *)
(* then remove the shadow.  Every call may fail and every process may die  *)
(* between two steps; a commit may be tried again and may run twice.       *)
(*                                                                         *)
(* Variables delta, landed and clash are history: they guard nothing and   *)
(* only the properties read them.                                          *)
(***************************************************************************)
EXTENDS FileTree, Naturals

CONSTANTS
  Session,     \* session ids (fresh and random: newSessionID)
  Proc,        \* commit processes
  Baselines,   \* the trees the workspace may hold before the first session
  Keep,        \* delta: the session did not touch this path
  Gone,        \* delta: the session sees no file here
  Rewrites,    \* whether runs write paths they have deleted
  MaxFaults    \* bound: failed calls and deaths of commit processes

ASSUME VFSAssumption ==
  /\ \A t \in Baselines : IsTree(t)
  /\ Keep \notin File /\ Gone \notin File /\ Keep # Gone
  /\ Rewrites \in BOOLEAN
  /\ MaxFaults \in Nat

VARIABLES
  ws,        \* the real workspace
  shadow,    \* shadow[s]: the shadow tree of s without .loom_meta
  tomb,      \* tomb[s]: the paths with a marker under .loom_meta/tombstones
  live,      \* live[s]: the run that owns s has not ended
  pc,        \* pc[c]: where commit process c is
  sess,      \* sess[c]: the session c promotes
  todo,      \* todo[c]: directory entries c has listed and not yet visited
  copying,   \* copying[c]: the path whose temp file c has written, if any
  tmp,       \* tmp[c]: that temp file, Absent once it is gone
  result,    \* result[c]: what c's last Commit call returned
  faults,    \* faults injected so far
  delta,     \* delta[s][p]: what s last did to p
  landed,    \* landed[s]: some commit of s has copied everything
  clash      \* clash[c]: Clash held when c's commit started

agentVars == <<shadow, tomb, live, delta>>
procVars == <<pc, sess, todo, copying, tmp, result, clash>>
vars == <<ws, agentVars, procVars, faults, landed>>

-----------------------------------------------------------------------------
(* Reading: ResolveReadPath.                                               *)

\* Variant: only the path's own marker is looked up.
CoveredByOwnMarker(s, p) == p \in tomb[s]

\* A tombstone on p or on an ancestor hides the workspace.
Covered(s, p) == \E q \in tomb[s] : p \in Under(q)

\* Stat of the shadow first (ENOTDIR is an error), then the tombstones, then
\* the workspace.
ResolveRead(s, p) ==
  IF shadow[s][p] # Absent THEN shadow[s][p]
  ELSE IF Blocked(shadow[s], p) \/ Covered(s, p) THEN Absent
  ELSE ws[p]

\* The file a read_file step of s finds at p, Absent if the step fails.
Seen(s, p) == LET n == ResolveRead(s, p) IN IF n \in File THEN n ELSE Absent

\* The change the shadow and the tombstones record for p.
Pending(s, p) ==
  IF shadow[s][p] \in File THEN shadow[s][p]
  ELSE IF shadow[s][p] = Dir \/ Blocked(shadow[s], p) \/ Covered(s, p) THEN Gone
  ELSE Keep

\* A recorded change applied to the workspace.
Applied(d, p) ==
  IF d = Keep THEN FileAt(ws, p) ELSE IF d = Gone THEN Absent ELSE d

-----------------------------------------------------------------------------
Init ==
  /\ ws \in Baselines
  /\ shadow = [s \in Session |-> Empty]
  /\ tomb = [s \in Session |-> {}]
  /\ live = [s \in Session |-> TRUE]
  /\ pc = [c \in Proc |-> "idle"]
  /\ sess \in {[c \in Proc |-> s] : s \in Session}
  /\ todo = [c \in Proc |-> {}]
  /\ copying = [c \in Proc |-> {}]
  /\ tmp = [c \in Proc |-> Absent]
  /\ result = [c \in Proc |-> "none"]
  /\ faults = 0
  /\ delta = [s \in Session |-> [p \in Path |-> Keep]]
  /\ landed = [s \in Session |-> FALSE]
  /\ clash = [c \in Proc |-> FALSE]

-----------------------------------------------------------------------------
(* The run that owns a session.                                            *)

\* A write_file step: MkdirAll of the parent in the shadow, then WriteFile.
\* A file above p or a directory at p makes the step fail and changes nothing.
Writable(s, p) ==
  /\ live[s] /\ ~Blocked(shadow[s], p) /\ shadow[s][p] # Dir
  /\ Covered(s, p) => Rewrites

WriteFile(s, p, f) ==
  /\ Writable(s, p)
  /\ shadow' = [shadow EXCEPT ![s] = Put(shadow[s], p, f)]
  /\ delta' = [delta EXCEPT ![s] =
       [q \in Path |-> IF q = p THEN f
                       ELSE IF q \in Up[p] \/ p \in Up[q] THEN Gone
                       ELSE delta[s][q]]]
  /\ UNCHANGED <<ws, tomb, live, procVars, faults, landed>>

\* The run ends inside a call on p: what p, the paths above and the paths
\* below it hold now is what the session leaves there.
EndRunAt(s, p) ==
  /\ live' = [live EXCEPT ![s] = FALSE]
  /\ delta' = [delta EXCEPT ![s] =
       [q \in Path |-> IF q \in Up[p] \cup Under(p) THEN Pending(s, q)'
                       ELSE delta[s][q]]]

\* The run dies, or its disk fills, within a write_file step: some of the
\* missing parents exist, or all of them and a truncated file.
WriteCut(s, p) ==
  /\ Writable(s, p)
  /\ \/ shadow' = [shadow EXCEPT ![s] = Put(shadow[s], p, Torn)]
     \/ \E q \in Up[p] :
          shadow' = [shadow EXCEPT ![s] = MkdirAll(shadow[s], Up[q] \cup {q})]
  /\ UNCHANGED <<ws, tomb, procVars, faults, landed>>
  /\ EndRunAt(s, p)

\* MarkDeleted: RemoveAll in the shadow, then the marker.
MarkDeleted(s, p) ==
  /\ live[s] /\ ~Blocked(shadow[s], p)
  /\ shadow' = [shadow EXCEPT ![s] = Drop(shadow[s], Under(p))]
  /\ tomb' = [tomb EXCEPT ![s] = @ \cup {p}]
  /\ delta' = [delta EXCEPT ![s] =
       [q \in Path |-> IF q \in Under(p) THEN Gone ELSE delta[s][q]]]
  /\ UNCHANGED <<ws, live, procVars, faults, landed>>

\* MarkDeleted stops before the marker is written.
MarkDeletedCut(s, p) ==
  /\ live[s] /\ ~Blocked(shadow[s], p)
  /\ \E gone \in SUBSET Under(p) :
       /\ Sunken(shadow[s], gone)
       /\ shadow' = [shadow EXCEPT ![s] = Drop(shadow[s], gone)]
  /\ UNCHANGED <<ws, tomb, procVars, faults, landed>>
  /\ EndRunAt(s, p)

\* The run ends: its last step is done, or a step was refused.
EndRun(s) ==
  /\ live[s]
  /\ live' = [live EXCEPT ![s] = FALSE]
  /\ UNCHANGED <<ws, shadow, tomb, procVars, faults, delta, landed>>

Agent(s) ==
  \/ \E p \in Path : \/ \E f \in Content : WriteFile(s, p, f)
                     \/ WriteCut(s, p)
                     \/ MarkDeleted(s, p)
                     \/ MarkDeletedCut(s, p)
  \/ EndRun(s)

-----------------------------------------------------------------------------
(* Commit, run by process c on session sess[c].                            *)

\* The workspace has shapes this commit cannot replace: a file above a
\* tombstoned path, or, once the tombstones are applied, a directory where
\* the shadow has a file or a file where it has a directory.
Clash(s) ==
  LET w == Drop(ws, UNION {Under(q) : q \in tomb[s]})
  IN \/ \E q \in tomb[s] : Blocked(ws, q)
     \/ \E p \in Path : \/ shadow[s][p] \in File /\ w[p] = Dir
                        \/ shadow[s][p] = Dir /\ w[p] \in File

Goto(c, l) == pc' = [pc EXCEPT ![c] = l]

\* Commit returns r; a temp file it still holds is removed, or left behind
\* under a fresh name nobody reads.
Return(c, r) ==
  /\ Goto(c, "idle")
  /\ result' = [result EXCEPT ![c] = r]
  /\ todo' = [todo EXCEPT ![c] = {}]
  /\ copying' = [copying EXCEPT ![c] = {}]
  /\ tmp' = [tmp EXCEPT ![c] = Absent]
  /\ UNCHANGED <<sess, clash>>

\* `loom commit s --yes`: the operator has the id from a run that has ended.
StartCommit(c, s) ==
  /\ pc[c] = "idle" /\ ~live[s]
  /\ Goto(c, "tombs")
  /\ sess' = [sess EXCEPT ![c] = s]
  /\ todo' = [todo EXCEPT ![c] = tomb[s]]
  /\ clash' = [clash EXCEPT ![c] = Clash(s)]
  /\ result' = [result EXCEPT ![c] = "none"]
  /\ UNCHANGED <<ws, agentVars, copying, tmp, faults, landed>>

\* applyTombstones walks the markers, those beneath a directory first.
NextTomb(c, p) ==
  /\ pc[c] = "tombs" /\ p \in todo[c]
  /\ \A q \in todo[c] : p \notin Up[q]

\* Temp files lie beside their targets: RemoveAll of a directory takes those
\* of other processes along.
LoseTemps(gone) ==
  tmp' = [d \in Proc |->
            IF \E p \in copying[d] : Up[p] \cap gone # {} THEN Absent ELSE tmp[d]]

\* Variant: os.Remove instead of os.RemoveAll.
ApplyTombstoneShallow(c) == \E p \in Path :
  /\ NextTomb(c, p) /\ p \in tomb[sess[c]] /\ ~Blocked(ws, p)
  /\ ws' = Drop(ws, {p})
  /\ LoseTemps({p})
  /\ todo' = [todo EXCEPT ![c] = @ \ {p}]
  /\ UNCHANGED <<agentVars, pc, sess, copying, result, clash, faults, landed>>

ApplyTombstone(c) == \E p \in Path :
  /\ NextTomb(c, p) /\ p \in tomb[sess[c]] /\ ~Blocked(ws, p)
  /\ ws' = Drop(ws, Under(p))
  /\ LoseTemps(Under(p))
  /\ todo' = [todo EXCEPT ![c] = @ \ {p}]
  /\ UNCHANGED <<agentVars, pc, sess, copying, result, clash, faults, landed>>

\* RemoveAll meets ENOTDIR.
RefuseTombstone(c) == \E p \in Path :
  /\ NextTomb(c, p) /\ p \in tomb[sess[c]] /\ Blocked(ws, p)
  /\ Return(c, "refused")
  /\ UNCHANGED <<ws, agentVars, faults, landed>>

\* Another commit of the session removed the marker: before its directory
\* was listed, or after, when entry.Info fails.
MissTombstone(c) == \E p \in Path :
  /\ NextTomb(c, p) /\ p \notin tomb[sess[c]]
  /\ \/ /\ todo' = [todo EXCEPT ![c] = @ \ {p}]
        /\ UNCHANGED <<pc, sess, copying, tmp, result, clash>>
     \/ Return(c, "failed")
  /\ UNCHANGED <<ws, agentVars, faults, landed>>

\* The second WalkDir starts by listing the shadow root.
EndTombstones(c) ==
  /\ pc[c] = "tombs" /\ todo[c] = {}
  /\ Goto(c, "walk")
  /\ todo' = [todo EXCEPT ![c] = {p \in TopLevel : shadow[sess[c]][p] # Absent}]
  /\ UNCHANGED <<ws, agentVars, sess, copying, tmp, result, clash, faults, landed>>

\* Variant: the target directory is replaced instead of merged into.
VisitDirectoryReplaces(c) == \E p \in todo[c] :
  LET s == sess[c]
  IN /\ pc[c] = "walk" /\ shadow[s][p] = Dir
     /\ ws[p] \notin File /\ ~Blocked(ws, p)
     /\ ws' = MkdirAll(Drop(ws, Under(p)), Up[p] \cup {p})
     /\ todo' = [todo EXCEPT ![c] =
          (@ \ {p}) \cup {q \in Children(p) : shadow[s][q] # Absent}]
     /\ UNCHANGED <<agentVars, pc, sess, copying, tmp, result, clash, faults, landed>>

\* A shadow directory: ensureTargetDirectory, then its entries are listed.
VisitDirectory(c) == \E p \in todo[c] :
  LET s == sess[c]
  IN /\ pc[c] = "walk" /\ shadow[s][p] = Dir
     /\ ws[p] \notin File /\ ~Blocked(ws, p)
     /\ ws' = MkdirAll(ws, Up[p] \cup {p})
     /\ todo' = [todo EXCEPT ![c] =
          (@ \ {p}) \cup {q \in Children(p) : shadow[s][q] # Absent}]
     /\ UNCHANGED <<agentVars, pc, sess, copying, tmp, result, clash, faults, landed>>

\* Variant: the shape of the target is not checked.
CopyToTempUnchecked(c) == \E p \in todo[c] :
  LET s == sess[c]
  IN /\ pc[c] = "walk" /\ shadow[s][p] \in File /\ ~Blocked(ws, p)
     /\ ws' = MkdirAll(ws, Up[p])
     /\ copying' = [copying EXCEPT ![c] = {p}]
     /\ tmp' = [tmp EXCEPT ![c] = shadow[s][p]]
     /\ Goto(c, "place")
     /\ UNCHANGED <<agentVars, sess, todo, result, clash, faults, landed>>

\* A shadow file, first half of copyFileIntoWorkspace: parents, temp file,
\* copy, chmod, sync.
CopyToTemp(c) == \E p \in todo[c] :
  LET s == sess[c]
  IN /\ pc[c] = "walk" /\ shadow[s][p] \in File
     /\ ws[p] # Dir /\ ~Blocked(ws, p)
     /\ ws' = MkdirAll(ws, Up[p])
     /\ copying' = [copying EXCEPT ![c] = {p}]
     /\ tmp' = [tmp EXCEPT ![c] = shadow[s][p]]
     /\ Goto(c, "place")
     /\ UNCHANGED <<agentVars, sess, todo, result, clash, faults, landed>>

\* Variant: an entry that cannot be promoted is skipped.
RefuseEntrySkips(c) == \E p \in todo[c] :
  LET n == shadow[sess[c]][p]
  IN /\ pc[c] = "walk"
     /\ \/ n = Dir /\ (ws[p] \in File \/ Blocked(ws, p))
        \/ n \in File /\ (ws[p] = Dir \/ Blocked(ws, p))
     /\ todo' = [todo EXCEPT ![c] = @ \ {p}]
     /\ UNCHANGED <<ws, agentVars, pc, sess, copying, tmp, result, clash, faults, landed>>

\* Variant: a directory that exists is refused.
RefuseEntryExists(c) == \E p \in todo[c] :
  LET n == shadow[sess[c]][p]
  IN /\ pc[c] = "walk"
     /\ \/ n = Dir /\ (ws[p] # Absent \/ Blocked(ws, p))
        \/ n \in File /\ (ws[p] = Dir \/ Blocked(ws, p))
     /\ Return(c, "refused")
     /\ UNCHANGED <<ws, agentVars, faults, landed>>

\* The workspace target has the wrong shape.
RefuseEntry(c) == \E p \in todo[c] :
  LET n == shadow[sess[c]][p]
  IN /\ pc[c] = "walk"
     /\ \/ n = Dir /\ (ws[p] \in File \/ Blocked(ws, p))
        \/ n \in File /\ (ws[p] = Dir \/ Blocked(ws, p))
     /\ Return(c, "refused")
     /\ UNCHANGED <<ws, agentVars, faults, landed>>

\* Another commit of the session removed a listed entry: Info, Open or
\* ReadDir fails.
MissEntry(c) == \E p \in todo[c] :
  /\ pc[c] = "walk" /\ shadow[sess[c]][p] = Absent
  /\ Return(c, "failed")
  /\ UNCHANGED <<ws, agentVars, faults, landed>>

\* A directory with entries, another process's temp file among them:
\* os.Remove of it, and a rename onto it, fail.
Occupied(p) ==
  /\ ws[p] = Dir
  /\ \/ \E q \in Path : p \in Up[q] /\ ws[q] # Absent
     \/ \E d \in Proc : tmp[d] # Absent /\ \E q \in copying[d] : p \in Up[q]

\* Second half, replaceFile: rename onto the target; if that fails, as it does
\* on a directory, remove the target and rename again.
PlaceFile(c) == \E p \in copying[c] :
  /\ pc[c] = "place" /\ tmp[c] # Absent /\ ~Occupied(p)
  /\ ws' = [ws EXCEPT ![p] = tmp[c]]
  /\ tmp' = [tmp EXCEPT ![c] = Absent]
  /\ copying' = [copying EXCEPT ![c] = {}]
  /\ todo' = [todo EXCEPT ![c] = @ \ {p}]
  /\ Goto(c, "walk")
  /\ UNCHANGED <<agentVars, sess, result, clash, faults, landed>>

\* Both renames fail: the temp file went with a directory another commit
\* removed, or the target is an occupied directory.  os.Remove has run.
MissPlace(c) == \E p \in copying[c] :
  /\ pc[c] = "place" /\ (tmp[c] = Absent \/ Occupied(p))
  /\ ws' = IF Occupied(p) THEN ws ELSE [ws EXCEPT ![p] = Absent]
  /\ Return(c, "failed")
  /\ UNCHANGED <<agentVars, faults, landed>>

\* Variant: the walk ends with entries still to visit.
EndWalkEarly(c) ==
  /\ pc[c] = "walk"
  /\ pc' = [pc EXCEPT ![c] = "teardown"]
  /\ landed' = [landed EXCEPT ![sess[c]] = TRUE]
  /\ UNCHANGED <<ws, agentVars, sess, todo, copying, tmp, result, clash, faults>>

EndWalk(c) ==
  /\ pc[c] = "walk" /\ todo[c] = {}
  /\ Goto(c, "teardown")
  /\ landed' = [landed EXCEPT ![sess[c]] = TRUE]
  /\ UNCHANGED <<ws, agentVars, sess, todo, copying, tmp, result, clash, faults>>

\* RemoveAll(shadowRoot): entries go one by one, in the order the directory
\* yields them, a directory after what it contains.
RemoveShadowEntry(c) ==
  LET s == sess[c]
  IN /\ pc[c] = "teardown"
     /\ \/ \E p \in Path :
             /\ shadow[s][p] # Absent
             /\ \A q \in Path : p \in Up[q] => shadow[s][q] = Absent
             /\ shadow' = [shadow EXCEPT ![s] = Drop(shadow[s], {p})]
             /\ UNCHANGED tomb
        \/ \E p \in tomb[s] :
             /\ tomb' = [tomb EXCEPT ![s] = @ \ {p}]
             /\ UNCHANGED shadow
     /\ UNCHANGED <<ws, live, delta, procVars, faults, landed>>

EndTeardown(c) ==
  /\ pc[c] = "teardown" /\ shadow[sess[c]] = Empty /\ tomb[sess[c]] = {}
  /\ Return(c, "ok")
  /\ UNCHANGED <<ws, agentVars, faults, landed>>

-----------------------------------------------------------------------------
(* Faults.                                                                 *)

\* A call fails, or the process dies, between two steps.
Fail(c) ==
  /\ pc[c] # "idle" /\ faults < MaxFaults
  /\ faults' = faults + 1
  /\ Return(c, "failed")
  /\ UNCHANGED <<ws, agentVars, landed>>

\* RemoveAll of a tombstoned path stops half-way.
FailTombstone(c) == \E p \in Path :
  /\ faults < MaxFaults
  /\ NextTomb(c, p) /\ p \in tomb[sess[c]] /\ ~Blocked(ws, p)
  /\ \E gone \in SUBSET Under(p) :
       /\ Sunken(ws, gone)
       /\ ws' = Drop(ws, gone)
       /\ LoseTemps(gone)
  /\ faults' = faults + 1
  /\ Goto(c, "idle")
  /\ result' = [result EXCEPT ![c] = "failed"]
  /\ todo' = [todo EXCEPT ![c] = {}]
  /\ UNCHANGED <<agentVars, sess, copying, clash, landed>>

\* replaceFile: the first rename failed, the target is removed, and then the
\* second rename fails or the process dies.
FailPlace(c) == \E p \in copying[c] :
  /\ pc[c] = "place" /\ faults < MaxFaults /\ ~Occupied(p)
  /\ ws' = [ws EXCEPT ![p] = Absent]
  /\ faults' = faults + 1
  /\ Return(c, "failed")
  /\ UNCHANGED <<agentVars, landed>>

Step(c) ==
  \/ ApplyTombstone(c) \/ RefuseTombstone(c) \/ MissTombstone(c) \/ EndTombstones(c)
  \/ VisitDirectory(c) \/ CopyToTemp(c) \/ RefuseEntry(c) \/ MissEntry(c)
  \/ PlaceFile(c) \/ MissPlace(c) \/ EndWalk(c)
  \/ RemoveShadowEntry(c) \/ EndTeardown(c)

Fault(c) == Fail(c) \/ FailTombstone(c) \/ FailPlace(c)

Next ==
  \/ \E s \in Session : Agent(s)
  \/ \E c \in Proc : Step(c) \/ Fault(c) \/ \E s \in Session : StartCommit(c, s)

Spec == Init /\ [][Next]_vars

\* A process that has started keeps going (Commit never waits), and the
\* operator starts another attempt after each one that ended.  Runs need not
\* end, and faults need not happen.
FairSpec ==
  /\ Spec
  /\ \A c \in Proc : WF_vars(Step(c))
  /\ \A c \in Proc, s \in Session : WF_vars(StartCommit(c, s))

-----------------------------------------------------------------------------
(* What must hold.                                                         *)

AgentTypeOK ==
  /\ shadow \in [Session -> [Path -> Node]]
  /\ \A s \in Session : IsTree(shadow[s])
  /\ tomb \in [Session -> SUBSET Path]
  /\ live \in [Session -> BOOLEAN]
  /\ delta \in [Session -> [Path -> File \cup {Keep, Gone}]]

ProcTypeOK ==
  /\ pc \in [Proc -> {"idle", "tombs", "walk", "place", "teardown"}]
  /\ sess \in [Proc -> Session]
  /\ todo \in [Proc -> SUBSET Path]
  /\ copying \in [Proc -> SUBSET Path]
  /\ tmp \in [Proc -> File \cup {Absent}]
  /\ result \in [Proc -> {"none", "ok", "refused", "failed"}]
  /\ clash \in [Proc -> BOOLEAN]

\* Workspace and shadows stay trees, and the variables have their types.
TypeOK ==
  /\ IsTree(ws)
  /\ AgentTypeOK
  /\ ProcTypeOK
  /\ faults \in 0..MaxFaults
  /\ landed \in [Session -> BOOLEAN]

\* Until a session lands it reads its own last change to every path and the
\* workspace elsewhere, whatever other sessions, commits and retries do to the
\* workspace meanwhile (ResolveReadPath over MarkDeleted, the write_file steps
\* and every interleaving with Commit).  An interrupted call disturbs no path
\* beside those above and below its target.
ReadYourWrites ==
  \A s \in Session : ~landed[s] =>
    \A p \in Path : Seen(s, p) = Applied(delta[s][p], p)

\* An interrupted, refused or repeated Commit loses no change: what a session
\* did to p is in its overlay or in the workspace, also while and after the
\* shadow is removed.  For one session (another may overwrite it) that does
\* not write what it deleted, and one commit at a time: a second one may fail
\* in replaceFile when the first has removed the shadow copy.
NothingLost ==
  \A s \in Session : \A p \in Path : Seen(s, p) = Applied(delta[s][p], p)

\* Once a Commit call has returned success, on whichever attempt, the workspace
\* holds every change: "Commit promotes shadow changes into the real workspace
\* and removes the shadow tree on success" (vfs.go:227).  For one session.
SuccessMeansPromoted ==
  \A c \in Proc : result[c] = "ok" =>
    \A p \in Path : FileAt(ws, p) = Applied(delta[sess[c]][p], p)

\* A file of the workspace changes only while a commit, failing or not,
\* promotes a session's change to that path, and then it goes away or becomes
\* what the session wrote (applyTombstones, copyFileIntoWorkspace, replaceFile).
OnlyPromotedChanges ==
  [][\A p \in Path : FileAt(ws, p)' # FileAt(ws, p) =>
       \E c \in Proc : /\ pc[c] \in {"tombs", "place"}
                       /\ delta[sess[c]][p] # Keep
                       /\ FileAt(ws, p)' \in {Absent, delta[sess[c]][p]}]_vars

\* The overlay and its commit keep the promise of module Promotion: a change is
\* never half forgotten, and a promoted session disturbs nothing any more.  For
\* one session that does not write what it deleted.
Promise == INSTANCE Promotion WITH
  files <- Files(ws),
  change <- delta,
  over <- [s \in Session |-> ~live[s]],
  done <- [s \in Session |-> landed[s] /\ shadow[s] = Empty /\ tomb[s] = {}]

ImplementsPromotion == Promise!Spec

\* Commit refuses only what its first look at the workspace could tell, and
\* then it always refuses (ensureTargetDirectory, copyFileIntoWorkspace).  For
\* one commit at a time.
RefusalForeseen ==
  \A c \in Proc : /\ result[c] = "refused" => clash[c]
                  /\ pc[c] = "teardown" => ~clash[c]

\* Once the faults cease, a finished session is promoted and its overlay is
\* gone, unless the workspace has shapes no commit can replace; two processes
\* promoting it do not keep each other from it for ever.
EventuallyPromoted ==
  \A s \in Session :
    ~live[s] ~> \/ landed[s] /\ shadow[s] = Empty /\ tomb[s] = {}
               \/ Clash(s)
=============================================================================
