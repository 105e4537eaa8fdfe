--------------------------- MODULE Commit_proofs ----------------------------
(***************************************************************************)
(* Proofs about one Commit at a time: what it refuses, that it loses       *)
(* nothing, and that overlay and commit implement module Promotion.        *)
(*                                                                         *)
(* Part one follows the walk: the tombstones still to apply and the        *)
(* entries still to visit are exactly what separates the workspace from    *)
(* the shadow, and neither step changes whether the shapes clash.  It      *)
(* needs one commit at a time, and no more.  Part two relates the overlay, *)
(* the workspace and what the session did, also while a retry promotes     *)
(* what a broken teardown left; it needs one session that does not write   *)
(* what it deleted, as the properties it is for say.                       *)
(***************************************************************************)
EXTENDS ShadowVFS_proofs

SingleCommit == \A c, d \in Proc : c = d
SingleSession == \A r, s \in Session : r = s

-----------------------------------------------------------------------------
\* A file stands where the overlay has a directory, or the other way round.
Misfit(o, w) ==
  \E p \in Path : \/ o[p] \in File /\ w[p] = Dir
                  \/ o[p] = Dir /\ w[p] \in File

\* What the tombstones m take away.
Hidden(m) == UNION {Under(q) : q \in m}

\* The markers are being applied, innermost first.
Clearing(c, s) ==
  pc[c] = "tombs" =>
    /\ todo[c] \subseteq tomb[s]
    /\ \A q \in tomb[s] \ todo[c] : \A p \in Under(q) : ws[p] = Absent
    /\ clash[c] <=> \/ \E q \in todo[c] : Blocked(ws, q)
                    \/ Misfit(shadow[s], Drop(ws, Hidden(tomb[s])))

\* The shadow is being walked, a directory before its entries.
Walking(c, s) ==
  pc[c] \in {"walk", "place"} =>
    /\ \A p \in todo[c] : shadow[s][p] # Absent
    /\ \A p \in Path : shadow[s][p] # Absent =>
         ws[p] = shadow[s][p] \/ \E q \in todo[c] : p \in Under(q)
    /\ clash[c] <=> Misfit(shadow[s], ws)

\* A copied file is about to take its target's place.
Placing(c, s) ==
  pc[c] = "place" =>
    \A p \in copying[c] : /\ p \in todo[c]
                          /\ shadow[s][p] \in File
                          /\ tmp[c] = shadow[s][p]
                          /\ ws[p] # Dir

Verdict(c) ==
  /\ pc[c] = "teardown" => ~clash[c]
  /\ result[c] = "refused" => clash[c]

Walk(c, s) == Clearing(c, s) /\ Walking(c, s) /\ Placing(c, s) /\ Verdict(c)

WalkInv == /\ Inv
           /\ SingleCommit
           /\ \A c \in Proc, s \in Session : sess[c] = s => Walk(c, s)

-----------------------------------------------------------------------------
\* Whether shapes clash depends on where the workspace has files and directories
\* that the overlay has something for.
LEMMA SameMisfit ==
  ASSUME NEW o, NEW v, NEW w,
         \A p \in Path : /\ o[p] \in File => (v[p] = Dir <=> w[p] = Dir)
                         /\ o[p] = Dir => (v[p] \in File <=> w[p] \in File)
  PROVE  Misfit(o, v) <=> Misfit(o, w)
BY DEF Misfit

\* Clash is what the walk carries along.
LEMMA ClashShapes ==
  ASSUME NEW s \in Session
  PROVE  Clash(s) <=> \/ \E q \in tomb[s] : Blocked(ws, q)
                      \/ Misfit(shadow[s], Drop(ws, Hidden(tomb[s])))
BY DEF Clash, Misfit, Hidden

\* A step that leaves the process, its session's overlay and the workspace.
LEMMA SameWalk ==
  ASSUME NEW c \in Proc, NEW s \in Session, Walk(c, s),
         UNCHANGED <<ws, procVars>>,
         pc[c] # "idle" => shadow'[s] = shadow[s] /\ tomb'[s] = tomb[s]
  PROVE  Walk(c, s)'
<1>1. /\ pc'[c] = pc[c] /\ todo'[c] = todo[c] /\ copying'[c] = copying[c]
      /\ tmp'[c] = tmp[c] /\ result'[c] = result[c] /\ clash'[c] = clash[c] /\ ws' = ws
  BY DEF procVars
<1>2. Clearing(c, s)'
  BY <1>1 DEF Walk, Clearing
<1>3. Walking(c, s)' /\ Placing(c, s)' /\ Verdict(c)'
  BY <1>1 DEF Walk, Walking, Placing, Verdict
<1>4. QED
  BY <1>2, <1>3 DEF Walk

\* A call that returns has kept the verdict if it did not refuse.
LEMMA ReturnWalk ==
  ASSUME Inv, NEW c \in Proc, NEW s \in Session, NEW r \in {"ok", "refused", "failed"},
         Return(c, r), r = "refused" => clash[c]
  PROVE  Walk(c, s)'
<1>1. pc'[c] = "idle" /\ result'[c] = r /\ clash'[c] = clash[c]
  BY DEF Return, Goto, Inv, TypeOK, ProcTypeOK
<1>2. QED
  BY <1>1 DEF Walk, Clearing, Walking, Placing, Verdict

\* What there is at p, its first component or a later one, is beneath an entry.
LEMMA FirstEntry ==
  ASSUME NEW p \in Path
  PROVE  \E r \in TopLevel : p \in Under(r) /\ r \in Up[p] \cup {p}
BY ComponentAssumption, UpAssumption DEF TopLevel, Under

LEMMA NextEntry ==
  ASSUME NEW q \in Path, NEW p \in Path, q \in Up[p]
  PROVE  \E r \in Children(q) : p \in Under(r) /\ r \in Up[p] \cup {p}
<1>1. PICK r \in Up[p] \cup {p} : Up[r] = Up[q] \cup {q}
  BY ComponentAssumption
<1>2. r \in Path
  BY UpAssumption
<1>3. QED
  BY <1>1, <1>2 DEF Children, Under

-----------------------------------------------------------------------------
\* StartCommit looks at the workspace.
LEMMA StartWalk ==
  ASSUME WalkInv, NEW c \in Proc, NEW s \in Session, StartCommit(c, s)
  PROVE  Walk(c, s)'
<1>1. /\ pc'[c] = "tombs" /\ todo'[c] = tomb[s] /\ clash'[c] = Clash(s)
      /\ result'[c] = "none" /\ ws' = ws /\ shadow'[s] = shadow[s] /\ tomb'[s] = tomb[s]
  BY DEF StartCommit, Goto, WalkInv, Inv, TypeOK, ProcTypeOK, agentVars
<1>2. Clearing(c, s)'
  BY <1>1, ClashShapes DEF Clearing
<1>3. QED
  BY <1>1, <1>2 DEF Walk, Walking, Placing, Verdict

\* applyTombstones takes a marker's paths away; those beneath it are done.
LEMMA ApplyTombstoneWalk ==
  ASSUME WalkInv, NEW c \in Proc, NEW s \in Session, sess[c] = s, ApplyTombstone(c)
  PROVE  Walk(c, s)'
<1>1. PICK p \in Path :
        /\ pc[c] = "tombs" /\ p \in todo[c] /\ \A q \in todo[c] : p \notin Up[q]
        /\ p \in tomb[s] /\ ~Blocked(ws, p)
        /\ ws' = Drop(ws, Under(p))
        /\ todo' = [todo EXCEPT ![c] = @ \ {p}]
        /\ UNCHANGED <<agentVars, pc, sess, copying, result, clash, faults, landed>>
  BY DEF ApplyTombstone, NextTomb
<1>2. /\ Clearing(c, s) /\ Verdict(c) /\ todo \in [Proc -> SUBSET Path] /\ tomb[s] \subseteq Path
  BY DEF WalkInv, Walk, Inv, TypeOK, AgentTypeOK, ProcTypeOK
<1>3. /\ todo'[c] = todo[c] \ {p} /\ pc'[c] = "tombs" /\ clash'[c] = clash[c]
      /\ result'[c] = result[c] /\ shadow'[s] = shadow[s] /\ tomb'[s] = tomb[s]
  BY <1>1, <1>2 DEF agentVars
<1>4. Drop(ws', Hidden(tomb[s])) = Drop(ws, Hidden(tomb[s]))
  BY <1>1 DEF Drop, Hidden
<1>5. \A q \in todo'[c] : Blocked(ws', q) <=> Blocked(ws, q)
  <2>1. TAKE q \in todo'[c]
  <2>2. q \in Path /\ q # p /\ p \notin Up[q]
    BY <1>1, <1>2, <1>3
  <2>3. \A r \in Up[q] : r \in Path /\ r \notin Under(p)
    BY <2>2, UpAssumption DEF Under
  <2>4. QED
    BY <1>1, <2>3 DEF Blocked, Drop
<1>6. \A q \in tomb[s] \ todo'[c] : \A x \in Under(q) : ws'[x] = Absent
  BY <1>1, <1>2, <1>3 DEF Clearing, Drop, Under
<1>7. clash[c] <=> \/ \E q \in todo'[c] : Blocked(ws', q)
                   \/ Misfit(shadow[s], Drop(ws', Hidden(tomb[s])))
  BY <1>1, <1>2, <1>3, <1>4, <1>5 DEF Clearing
<1>8. Clearing(c, s)'
  BY <1>1, <1>2, <1>3, <1>6, <1>7 DEF Clearing
<1>9. QED
  BY <1>2, <1>3, <1>8 DEF Walk, Walking, Placing, Verdict

\* A marker that cannot be applied is one the first look had seen.
LEMMA RefuseTombstoneWalk ==
  ASSUME WalkInv, NEW c \in Proc, NEW s \in Session, sess[c] = s, RefuseTombstone(c)
  PROVE  Walk(c, s)'
<1>1. clash[c]
  BY DEF WalkInv, Walk, Clearing, RefuseTombstone, NextTomb
<1>2. QED
  BY <1>1, ReturnWalk DEF RefuseTombstone, WalkInv

\* The second walk finds every path of a marker gone.
LEMMA EndTombstonesWalk ==
  ASSUME WalkInv, NEW c \in Proc, NEW s \in Session, sess[c] = s, EndTombstones(c)
  PROVE  Walk(c, s)'
<1>1. /\ pc[c] = "tombs" /\ todo[c] = {} /\ Clearing(c, s) /\ Verdict(c)
      /\ ws \in [Path -> Node] /\ IsTree(shadow[s])
  BY DEF WalkInv, Walk, EndTombstones, Inv, TypeOK, AgentTypeOK, IsTree
<1>2. /\ pc'[c] = "walk" /\ todo'[c] = {p \in TopLevel : shadow[s][p] # Absent}
      /\ ws' = ws /\ shadow'[s] = shadow[s] /\ clash'[c] = clash[c] /\ result'[c] = result[c]
  BY DEF EndTombstones, Goto, WalkInv, Inv, TypeOK, ProcTypeOK, agentVars
<1>3. \A q \in Hidden(tomb[s]) : ws[q] = Absent
  BY <1>1 DEF Clearing, Hidden
<1>4. \A q \in Path : Drop(ws, Hidden(tomb[s]))[q] = ws[q]
  BY <1>3 DEF Drop
<1>5. Misfit(shadow[s], Drop(ws, Hidden(tomb[s]))) <=> Misfit(shadow[s], ws)
  BY <1>4, SameMisfit
<1>6. ASSUME NEW p \in Path, shadow[s][p] # Absent
      PROVE  \E q \in todo'[c] : p \in Under(q)
  <2>1. PICK r \in TopLevel : p \in Under(r) /\ r \in Up[p] \cup {p}
    BY FirstEntry
  <2>2. shadow[s][r] # Absent
    BY <1>1, <1>6, <2>1, NodeAssumption DEF IsTree
  <2>3. QED
    BY <1>2, <2>1, <2>2
<1>7. Walking(c, s)'
  BY <1>1, <1>2, <1>5, <1>6 DEF Walking, Clearing
<1>8. QED
  BY <1>1, <1>2, <1>7 DEF Walk, Clearing, Placing, Verdict

-----------------------------------------------------------------------------
\* Directories are created where the shadow has directories.
LEMMA MkdirWalk ==
  ASSUME NEW s \in Session, NEW ds \in SUBSET Path,
         \A q \in ds : shadow[s][q] = Dir /\ ws[q] \notin File
  PROVE  /\ Misfit(shadow[s], MkdirAll(ws, ds)) <=> Misfit(shadow[s], ws)
         /\ \A q \in Path : ws[q] = shadow[s][q] \/ q \in ds =>
              MkdirAll(ws, ds)[q] = shadow[s][q]
<1>1. \A q \in Path : MkdirAll(ws, ds)[q] = IF q \in ds THEN Dir ELSE ws[q]
  BY DEF MkdirAll
<1>2. \A q \in Path :
        /\ shadow[s][q] \in File => (MkdirAll(ws, ds)[q] = Dir <=> ws[q] = Dir)
        /\ shadow[s][q] = Dir => (MkdirAll(ws, ds)[q] \in File <=> ws[q] \in File)
  BY <1>1, NodeAssumption
<1>3. QED
  BY <1>1, <1>2, SameMisfit

LEMMA VisitDirectoryWalk ==
  ASSUME WalkInv, NEW c \in Proc, NEW s \in Session, sess[c] = s, VisitDirectory(c)
  PROVE  Walk(c, s)'
<1>1. PICK p \in todo[c] :
        /\ pc[c] = "walk" /\ shadow[s][p] = Dir /\ ws[p] \notin File /\ ~Blocked(ws, p)
        /\ ws' = MkdirAll(ws, Up[p] \cup {p})
        /\ todo' = [todo EXCEPT ![c] =
             (@ \ {p}) \cup {q \in Children(p) : shadow[s][q] # Absent}]
        /\ UNCHANGED <<agentVars, pc, sess, copying, tmp, result, clash, faults, landed>>
  BY DEF VisitDirectory
<1>2. /\ Walking(c, s) /\ Verdict(c) /\ todo \in [Proc -> SUBSET Path] /\ p \in Path
      /\ IsTree(shadow[s])
  BY <1>1 DEF WalkInv, Walk, Inv, TypeOK, AgentTypeOK, ProcTypeOK
<1>3. /\ pc'[c] = "walk" /\ clash'[c] = clash[c] /\ result'[c] = result[c]
      /\ shadow'[s] = shadow[s]
      /\ todo'[c] = (todo[c] \ {p}) \cup {q \in Children(p) : shadow[s][q] # Absent}
  BY <1>1, <1>2 DEF agentVars
<1>4. /\ Up[p] \cup {p} \in SUBSET Path
      /\ \A q \in Up[p] \cup {p} : shadow[s][q] = Dir /\ ws[q] \notin File
  BY <1>1, <1>2, UpAssumption, NodeAssumption DEF IsTree, Blocked
<1>5. /\ Misfit(shadow[s], ws') <=> Misfit(shadow[s], ws)
      /\ \A q \in Path : ws[q] = shadow[s][q] \/ q \in Up[p] \cup {p} => ws'[q] = shadow[s][q]
  BY <1>1, <1>4, MkdirWalk
<1>6. ASSUME NEW x \in Path, shadow[s][x] # Absent, ws'[x] # shadow[s][x]
      PROVE  \E q \in todo'[c] : x \in Under(q)
  <2>1. PICK q \in todo[c] : x \in Under(q)
    BY <1>1, <1>2, <1>5, <1>6 DEF Walking
  <2>2. CASE q # p
    BY <1>3, <2>1, <2>2
  <2>3. CASE q = p
    <3>1. p \in Up[x]
      BY <1>5, <1>6, <2>1, <2>3 DEF Under
    <3>2. PICK r \in Children(p) : x \in Under(r) /\ r \in Up[x] \cup {x}
      BY <1>2, <3>1, NextEntry
    <3>3. shadow[s][r] # Absent
      BY <1>2, <1>6, <3>2, NodeAssumption DEF IsTree
    <3>4. QED
      BY <1>3, <3>2, <3>3
  <2>4. QED
    BY <2>2, <2>3
<1>7. Walking(c, s)'
  BY <1>1, <1>2, <1>3, <1>5, <1>6 DEF Walking
<1>8. QED
  BY <1>2, <1>3, <1>7 DEF Walk, Clearing, Placing, Verdict

LEMMA CopyToTempWalk ==
  ASSUME WalkInv, NEW c \in Proc, NEW s \in Session, sess[c] = s, CopyToTemp(c)
  PROVE  Walk(c, s)'
<1>1. PICK p \in todo[c] :
        /\ pc[c] = "walk" /\ shadow[s][p] \in File /\ ws[p] # Dir /\ ~Blocked(ws, p)
        /\ ws' = MkdirAll(ws, Up[p])
        /\ copying' = [copying EXCEPT ![c] = {p}]
        /\ tmp' = [tmp EXCEPT ![c] = shadow[s][p]]
        /\ pc' = [pc EXCEPT ![c] = "place"]
        /\ UNCHANGED <<agentVars, sess, todo, result, clash, faults, landed>>
  BY DEF CopyToTemp, Goto
<1>2. /\ Walking(c, s) /\ Verdict(c) /\ p \in Path /\ IsTree(shadow[s])
  BY <1>1 DEF WalkInv, Walk, Inv, TypeOK, AgentTypeOK, ProcTypeOK
<1>3. /\ pc'[c] = "place" /\ clash'[c] = clash[c] /\ result'[c] = result[c]
      /\ shadow'[s] = shadow[s] /\ todo'[c] = todo[c]
      /\ copying'[c] = {p} /\ tmp'[c] = shadow[s][p]
  BY <1>1 DEF agentVars, WalkInv, Inv, TypeOK, ProcTypeOK
<1>4. /\ Up[p] \in SUBSET Path /\ p \notin Up[p]
      /\ \A q \in Up[p] : shadow[s][q] = Dir /\ ws[q] \notin File
  BY <1>1, <1>2, UpAssumption, NodeAssumption DEF IsTree, Blocked
<1>5. /\ Misfit(shadow[s], ws') <=> Misfit(shadow[s], ws)
      /\ \A q \in Path : ws[q] = shadow[s][q] => ws'[q] = shadow[s][q]
  BY <1>1, <1>4, MkdirWalk
<1>6. ws'[p] # Dir
  BY <1>1, <1>2, <1>4 DEF MkdirAll
<1>7. Walking(c, s)'
  BY <1>1, <1>2, <1>3, <1>5 DEF Walking
<1>8. Placing(c, s)'
  BY <1>1, <1>3, <1>6 DEF Placing
<1>9. QED
  BY <1>2, <1>3, <1>7, <1>8 DEF Walk, Clearing, Verdict

\* The wrong shape is at the entry, or above it, where the shadow has a directory.
LEMMA RefuseEntryWalk ==
  ASSUME WalkInv, NEW c \in Proc, NEW s \in Session, sess[c] = s, RefuseEntry(c)
  PROVE  Walk(c, s)'
<1>1. PICK p \in todo[c] :
        /\ pc[c] = "walk" /\ Return(c, "refused")
        /\ \/ shadow[s][p] = Dir /\ (ws[p] \in File \/ Blocked(ws, p))
           \/ shadow[s][p] \in File /\ (ws[p] = Dir \/ Blocked(ws, p))
  BY DEF RefuseEntry
<1>2. Walking(c, s) /\ p \in Path /\ IsTree(shadow[s])
  BY <1>1 DEF WalkInv, Walk, Inv, TypeOK, AgentTypeOK, ProcTypeOK
<1>3. \A q \in Up[p] : q \in Path /\ shadow[s][q] = Dir
  BY <1>1, <1>2, UpAssumption, NodeAssumption DEF IsTree
<1>4. Misfit(shadow[s], ws)
  BY <1>1, <1>2, <1>3 DEF Misfit, Blocked
<1>5. clash[c]
  BY <1>1, <1>2, <1>4 DEF Walking
<1>6. QED
  BY <1>1, <1>5, ReturnWalk DEF WalkInv

\* A file takes a place that no directory holds, and nothing lies beneath it.
LEMMA PlaceFileWalk ==
  ASSUME WalkInv, NEW c \in Proc, NEW s \in Session, sess[c] = s, PlaceFile(c)
  PROVE  Walk(c, s)'
<1>1. PICK p \in copying[c] :
        /\ pc[c] = "place"
        /\ ws' = [ws EXCEPT ![p] = tmp[c]]
        /\ todo' = [todo EXCEPT ![c] = @ \ {p}]
        /\ pc' = [pc EXCEPT ![c] = "walk"]
        /\ UNCHANGED <<agentVars, sess, result, clash, faults, landed>>
  BY DEF PlaceFile, Goto
<1>2. /\ Walking(c, s) /\ Verdict(c) /\ p \in Path /\ IsTree(shadow[s])
      /\ ws \in [Path -> Node] /\ todo \in [Proc -> SUBSET Path]
      /\ shadow[s][p] \in File /\ tmp[c] = shadow[s][p] /\ ws[p] # Dir
  BY <1>1 DEF WalkInv, Walk, Placing, Inv, TypeOK, AgentTypeOK, ProcTypeOK, IsTree
<1>3. /\ pc'[c] = "walk" /\ clash'[c] = clash[c] /\ result'[c] = result[c]
      /\ shadow'[s] = shadow[s] /\ todo'[c] = todo[c] \ {p}
  BY <1>1, <1>2 DEF agentVars, WalkInv, Inv, TypeOK, ProcTypeOK
<1>4. \A q \in Path : ws'[q] = IF q = p THEN shadow[s][p] ELSE ws[q]
  BY <1>1, <1>2
<1>5. Misfit(shadow[s], ws') <=> Misfit(shadow[s], ws)
  <2>1. \A q \in Path :
          /\ shadow[s][q] \in File => (ws'[q] = Dir <=> ws[q] = Dir)
          /\ shadow[s][q] = Dir => (ws'[q] \in File <=> ws[q] \in File)
    BY <1>2, <1>4, NodeAssumption
  <2>2. QED
    BY <2>1, SameMisfit
<1>6. \A q \in Under(p) : q = p \/ shadow[s][q] = Absent
  BY <1>2, LeafTree, NodeAssumption DEF Under
<1>7. \A q \in Path : shadow[s][q] # Absent =>
        ws'[q] = shadow[s][q] \/ \E r \in todo'[c] : q \in Under(r)
  BY <1>1, <1>2, <1>3, <1>4, <1>6 DEF Walking
<1>8. Walking(c, s)'
  BY <1>1, <1>2, <1>3, <1>5, <1>7 DEF Walking
<1>9. QED
  BY <1>2, <1>3, <1>8 DEF Walk, Clearing, Placing, Verdict

\* With nothing left to visit, workspace and shadow agree.
LEMMA EndWalkWalk ==
  ASSUME WalkInv, NEW c \in Proc, NEW s \in Session, sess[c] = s, EndWalk(c)
  PROVE  Walk(c, s)'
<1>1. /\ Walking(c, s) /\ Verdict(c) /\ todo[c] = {} /\ pc[c] = "walk"
      /\ pc'[c] = "teardown" /\ clash'[c] = clash[c] /\ result'[c] = result[c]
  BY DEF EndWalk, Goto, WalkInv, Walk, Inv, TypeOK, ProcTypeOK
<1>2. \A p \in Path : shadow[s][p] # Absent => ws[p] = shadow[s][p]
  BY <1>1 DEF Walking
<1>3. ~Misfit(shadow[s], ws)
  BY <1>2, NodeAssumption DEF Misfit
<1>4. QED
  BY <1>1, <1>3 DEF Walk, Walking, Clearing, Placing, Verdict

LEMMA TeardownWalk ==
  ASSUME WalkInv, NEW c \in Proc, NEW s \in Session, sess[c] = s, RemoveShadowEntry(c)
  PROVE  Walk(c, s)'
BY DEF RemoveShadowEntry, procVars, WalkInv, Walk, Clearing, Walking, Placing, Verdict

\* The other ways a call returns say nothing about shapes.
LEMMA LeaveWalk ==
  ASSUME WalkInv, NEW c \in Proc, NEW s \in Session, sess[c] = s,
         \/ MissTombstone(c) \/ MissEntry(c) \/ MissPlace(c) \/ EndTeardown(c)
         \/ Fail(c) \/ FailPlace(c) \/ FailTombstone(c)
  PROVE  Walk(c, s)'
<1>1. CASE FailTombstone(c)
  <2>1. pc'[c] = "idle" /\ result'[c] = "failed" /\ clash'[c] = clash[c]
    BY <1>1 DEF FailTombstone, Goto, WalkInv, Inv, TypeOK, ProcTypeOK
  <2>2. QED
    BY <2>1 DEF Walk, Clearing, Walking, Placing, Verdict
<1>2. CASE \E r \in {"ok", "failed"} : Return(c, r)
  BY <1>2, ReturnWalk DEF WalkInv
<1>3. ~(MissTombstone(c) /\ ~Return(c, "failed"))
  BY DEF MissTombstone, NextTomb, WalkInv, Walk, Clearing
<1>4. QED
  BY <1>1, <1>2, <1>3 DEF MissEntry, MissPlace, EndTeardown, Fail, FailPlace

\* A step of the only process follows its walk.
LEMMA StepWalk ==
  ASSUME WalkInv, NEW c \in Proc, NEW s \in Session, sess[c] = s, Step(c) \/ Fault(c)
  PROVE  Walk(c, s)'
BY ApplyTombstoneWalk, RefuseTombstoneWalk, EndTombstonesWalk, VisitDirectoryWalk,
   CopyToTempWalk, RefuseEntryWalk, PlaceFileWalk, EndWalkWalk, TeardownWalk, LeaveWalk
   DEF Step, Fault

\* A run leaves the sessions that are being promoted alone.
LEMMA AgentWalk ==
  ASSUME WalkInv, NEW r \in Session, Agent(r), NEW c \in Proc, NEW s \in Session, sess[c] = s
  PROVE  Walk(c, s)'
<1>1. AgentTypeOK /\ Walk(c, s) /\ Phases
  BY DEF WalkInv, Inv, TypeOK
<1>2. /\ live[r] /\ UNCHANGED <<ws, procVars>>
      /\ s # r => shadow'[s] = shadow[s] /\ tomb'[s] = tomb[s]
  BY <1>1, AgentOwn
<1>3. QED
  BY <1>1, <1>2, SameWalk DEF Phases

\* Which session a process promotes changes when it starts, and only then.
LEMMA SameSession ==
  ASSUME Inv, NEW c \in Proc, Step(c) \/ Fault(c)
  PROVE  sess'[c] = sess[c]
BY DEF Step, Fault, ApplyTombstone, RefuseTombstone, MissTombstone, EndTombstones,
       VisitDirectory, CopyToTemp, RefuseEntry, MissEntry, PlaceFile, MissPlace, EndWalk,
       RemoveShadowEntry, EndTeardown, Fail, FailTombstone, FailPlace, Return, procVars

LEMMA InitWalk == SingleCommit /\ Init => WalkInv
BY InitInv DEF Init, WalkInv, Walk, Clearing, Walking, Placing, Verdict

LEMMA NextWalk == WalkInv /\ [Next]_vars => WalkInv'
<1> SUFFICES ASSUME WalkInv, [Next]_vars PROVE WalkInv'
  OBVIOUS
<1>1. Inv' /\ SingleCommit'
  BY NextInv DEF WalkInv, SingleCommit
<1>2. SUFFICES ASSUME NEW c \in Proc, NEW s \in Session, sess'[c] = s
               PROVE  Walk(c, s)'
  BY <1>1 DEF WalkInv
<1>3. ASSUME NEW r \in Session, Agent(r)
      PROVE  Walk(c, s)'
  <2>1. sess' = sess
    BY <1>3, AgentOwn DEF WalkInv, Inv, TypeOK, procVars
  <2>2. QED
    BY <1>2, <1>3, <2>1, AgentWalk
<1>4. ASSUME NEW d \in Proc, Step(d) \/ Fault(d)
      PROVE  Walk(c, s)'
  <2>1. d = c
    BY DEF WalkInv, SingleCommit
  <2>2. sess[c] = s
    BY <1>2, <1>4, <2>1, SameSession DEF WalkInv
  <2>3. QED
    BY <1>4, <2>1, <2>2, StepWalk
<1>5. ASSUME NEW d \in Proc, NEW r \in Session, StartCommit(d, r)
      PROVE  Walk(c, s)'
  <2>1. d = c
    BY DEF WalkInv, SingleCommit
  <2>2. s = r
    BY <1>2, <1>5, <2>1 DEF StartCommit, WalkInv, Inv, TypeOK, ProcTypeOK
  <2>3. QED
    BY <1>5, <2>1, <2>2, StartWalk
<1>6. CASE UNCHANGED vars
  BY <1>2, <1>6, SameWalk DEF vars, agentVars, procVars, WalkInv
<1>7. QED
  BY <1>3, <1>4, <1>5, <1>6 DEF Next

\* Commit refuses what its first look at the workspace could tell, and nothing
\* else, whatever sessions write meanwhile and however often calls fail.
THEOREM RefusesForeseen == SingleCommit /\ Spec => []RefusalForeseen
<1>1. WalkInv => RefusalForeseen
  BY DEF WalkInv, Walk, Verdict, RefusalForeseen, Inv, TypeOK, ProcTypeOK
<1>2. QED
  BY <1>1, InitWalk, NextWalk, PTL DEF Spec

-----------------------------------------------------------------------------
\* The run wrote nothing below its own tombstones.
Clean(s) == \A p \in Path : Covered(s, p) => shadow[s][p] = Absent

\* What is left of the overlay records what s did, or nothing.
Fading(s) == \A p \in Path : Pending(s, p) \in {Keep, delta[s][p]}

\* The change s made to p is in the workspace.
Arrived(s, p) == FileAt(ws, p) = Applied(delta[s][p], p)

\* Once landed, what is not in the overlay is in the workspace.
Kept(s) == landed[s] => \A p \in Path : shadow[s][p] \in File \/ Arrived(s, p)

\* The walk starts where the tombstones have made room.
Cleared(c, s) ==
  pc[c] \in {"walk", "place"} => \A p \in Path : Covered(s, p) => ws[p] = Absent

Settled(c, s) ==
  /\ pc[c] # "idle" => result[c] = "none"
  /\ pc[c] = "teardown" \/ result[c] = "ok" =>
       landed[s] /\ \A p \in Path : Arrived(s, p)

CommitInv ==
  /\ WalkInv
  /\ SingleSession /\ ~Rewrites
  /\ \A s \in Session : Clean(s) /\ Fading(s) /\ Kept(s)
  /\ \A c \in Proc, s \in Session : sess[c] = s => Cleared(c, s) /\ Settled(c, s)

-----------------------------------------------------------------------------
\* A tombstone covers what lies beneath what it covers.
LEMMA CoveredBelow ==
  ASSUME NEW s \in Session, tomb[s] \subseteq Path, NEW p \in Path, NEW q \in Up[p],
         Covered(s, q)
  PROVE  Covered(s, p)
BY UpAssumption DEF Covered, Under

\* Runs that do not write what they deleted keep the shadow clean.
LEMMA AgentClean ==
  ASSUME TypeOK, ~Rewrites, NEW s \in Session, Clean(s), Agent(s)
  PROVE  Clean(s)'
<1>1. /\ shadow \in [Session -> [Path -> Node]] /\ tomb \in [Session -> SUBSET Path]
      /\ tomb[s] \subseteq Path
  BY DEF TypeOK, AgentTypeOK
<1>2. ASSUME NEW p \in Path, Writable(s, p), tomb' = tomb,
             \A q \in Path : shadow'[s][q] = shadow[s][q] \/ q \in Up[p] \cup {p}
      PROVE  Clean(s)'
  <2>1. \A q \in Up[p] \cup {p} : ~Covered(s, q)
    BY <1>1, <1>2, CoveredBelow DEF Writable
  <2>2. \A q \in Path : Covered(s, q)' <=> Covered(s, q)
    BY <1>2 DEF Covered
  <2>3. QED
    BY <1>2, <2>1, <2>2 DEF Clean
<1>3. ASSUME NEW p \in Path, NEW f \in Content, WriteFile(s, p, f)
      PROVE  Clean(s)'
  <2>1. shadow'[s] = Put(shadow[s], p, f)
    BY <1>1, <1>3 DEF WriteFile
  <2>2. \A q \in Path : shadow'[s][q] = shadow[s][q] \/ q \in Up[p] \cup {p}
    BY <2>1 DEF Put
  <2>3. QED
    BY <1>2, <1>3, <2>2 DEF WriteFile
<1>4. ASSUME NEW p \in Path, WriteCut(s, p)
      PROVE  Clean(s)'
  <2>1. \/ shadow'[s] = Put(shadow[s], p, Torn)
        \/ \E r \in Up[p] : shadow'[s] = MkdirAll(shadow[s], Up[r] \cup {r})
    BY <1>1, <1>4 DEF WriteCut
  <2>2. \A q \in Path : shadow'[s][q] = shadow[s][q] \/ q \in Up[p] \cup {p}
    BY <2>1, UpAssumption DEF Put, MkdirAll
  <2>3. QED
    BY <1>2, <1>4, <2>2 DEF WriteCut
<1>5. ASSUME NEW p \in Path, MarkDeleted(s, p)
      PROVE  Clean(s)'
  <2>1. shadow'[s] = Drop(shadow[s], Under(p)) /\ tomb'[s] = tomb[s] \cup {p}
    BY <1>1, <1>5 DEF MarkDeleted
  <2>2. \A q \in Path : Covered(s, q)' => Covered(s, q) \/ q \in Under(p)
    BY <2>1 DEF Covered
  <2>3. QED
    BY <2>1, <2>2 DEF Clean, Drop
<1>6. ASSUME NEW p \in Path, MarkDeletedCut(s, p)
      PROVE  Clean(s)'
  <2>1. tomb' = tomb /\ \E gone \in SUBSET Under(p) : shadow'[s] = Drop(shadow[s], gone)
    BY <1>1, <1>6 DEF MarkDeletedCut
  <2>2. \A q \in Path : Covered(s, q)' <=> Covered(s, q)
    BY <2>1 DEF Covered
  <2>3. QED
    BY <2>1, <2>2 DEF Clean, Drop
<1>7. CASE EndRun(s)
  BY <1>7 DEF EndRun, Clean, Covered
<1>8. QED
  BY <1>3, <1>4, <1>5, <1>6, <1>7 DEF Agent

\* A run whose session has not landed keeps the invariant.
LEMMA AgentCommit ==
  ASSUME CommitInv, NEW s \in Session, Agent(s)
  PROVE  CommitInv'
<1>1. WalkInv' /\ Inv' /\ Inv
  BY NextWalk, AgentStep DEF CommitInv, WalkInv, Next
<1>2. live[s] /\ ~landed[s] /\ ~landed'[s] /\ UNCHANGED procVars
  BY AgentOwn DEF CommitInv, WalkInv, Inv, TypeOK, Phases
<1>3. Clean(s)'
  BY <1>1, AgentClean DEF CommitInv, Inv
<1>4. Fading(s)' /\ Kept(s)'
  BY <1>1, <1>2 DEF Inv, Recorded, Fading, Kept
<1>5. ASSUME NEW c \in Proc
      PROVE  pc'[c] = "idle" /\ result'[c] # "ok"
  <2>1. sess[c] = s
    BY DEF CommitInv, WalkInv, SingleSession, Inv, TypeOK, ProcTypeOK
  <2>2. pc[c] = "idle" /\ result[c] # "ok"
    BY <1>1, <1>2, <2>1 DEF CommitInv, Settled, Inv, Phases
  <2>3. QED
    BY <1>2, <2>2 DEF procVars
<1>6. \A c \in Proc, r \in Session : Cleared(c, r)' /\ Settled(c, r)'
  BY <1>5 DEF Cleared, Settled
<1>7. \A r \in Session : r = s
  BY DEF CommitInv, SingleSession
<1>8. QED
  BY <1>1, <1>3, <1>4, <1>6, <1>7 DEF CommitInv, SingleSession

-----------------------------------------------------------------------------
\* What every step of a commit but the removal of the shadow does to arrivals.
LEMMA SameOverlay ==
  ASSUME NEW s \in Session, Clean(s), Fading(s), UNCHANGED agentVars
  PROVE  Clean(s)' /\ Fading(s)'
BY DEF Clean, Fading, Pending, Covered, agentVars

\* Where the file stays, what had arrived has arrived.
LEMMA SameArrived ==
  ASSUME NEW s \in Session, NEW p \in Path, UNCHANGED agentVars,
         FileAt(ws', p) = FileAt(ws, p), Arrived(s, p)
  PROVE  Arrived(s, p)'
BY DEF Arrived, Applied, agentVars

\* A session's own file, or its deletion, arrives.
LEMMA WriteArrives ==
  ASSUME NEW s \in Session, NEW p \in Path, UNCHANGED agentVars,
         \/ delta[s][p] = Keep
         \/ FileAt(ws', p) = Absent /\ delta[s][p] = Gone
         \/ FileAt(ws', p) = delta[s][p] /\ delta[s][p] \in File
  PROVE  Arrived(s, p)'
BY VFSAssumption DEF Arrived, Applied, agentVars

\* What a tombstone covers, the session removed.
LEMMA CoveredGone ==
  ASSUME NEW s \in Session, Clean(s), Fading(s), NEW p \in Path, Covered(s, p)
  PROVE  delta[s][p] = Gone
BY VFSAssumption, NodeAssumption DEF Clean, Fading, Pending

\* Whatever arrives or stays keeps what is kept.
LEMMA KeptStep ==
  ASSUME NEW s \in Session, Kept(s), UNCHANGED <<agentVars, landed>>,
         \A p \in Path : \/ FileAt(ws', p) = FileAt(ws, p)
                         \/ shadow[s][p] \in File
                         \/ Arrived(s, p)'
  PROVE  Kept(s)'
<1>1. \A p \in Path : shadow'[s][p] = shadow[s][p]
  BY DEF agentVars
<1>2. QED
  BY <1>1, SameArrived DEF Kept

\* Tombstones, also half applied (applyTombstones).
LEMMA TombstoneArrives ==
  ASSUME CommitInv, NEW c \in Proc, ApplyTombstone(c) \/ FailTombstone(c), NEW p \in Path
  PROVE  FileAt(ws', p) = FileAt(ws, p) \/ Arrived(sess[c], p)'
<1>1. PICK s \in Session : s = sess[c]
  BY DEF CommitInv, WalkInv, Inv, TypeOK, ProcTypeOK
<1>2. PICK q \in Path, gone \in SUBSET Path :
        /\ q \in tomb[s] /\ gone \subseteq Under(q)
        /\ ws' = Drop(ws, gone) /\ UNCHANGED agentVars
  <2>1. \A q \in Path : Under(q) \in SUBSET Path
    BY DEF Under
  <2>2. QED
    BY <1>1, <2>1 DEF ApplyTombstone, FailTombstone, NextTomb
<1>3. CASE p \notin gone
  BY <1>2, <1>3 DEF FileAt, Drop
<1>4. CASE p \in gone
  <2>1. Covered(s, p)
    BY <1>2, <1>4 DEF Covered
  <2>2. delta[s][p] = Gone
    BY <2>1, CoveredGone DEF CommitInv
  <2>3. FileAt(ws', p) = Absent
    BY <1>2, <1>4, NodeAssumption DEF FileAt, Drop
  <2>4. Arrived(s, p)'
    BY <1>2, <2>2, <2>3, WriteArrives
  <2>5. sess' = sess
    BY DEF ApplyTombstone, FailTombstone
  <2>6. QED
    BY <1>1, <2>4, <2>5 DEF Arrived, Applied
<1>5. QED
  BY <1>3, <1>4

\* The rename touches only a path the shadow still has a file for.
LEMMA PlaceArrives ==
  ASSUME CommitInv, NEW c \in Proc, NEW s \in Session, sess[c] = s,
         PlaceFile(c) \/ MissPlace(c) \/ FailPlace(c), NEW p \in Path
  PROVE  FileAt(ws', p) = FileAt(ws, p) \/ shadow[s][p] \in File
<1>1. PICK q \in copying[c], f \in File \cup {Absent} :
        pc[c] = "place" /\ (UNCHANGED ws \/ ws' = [ws EXCEPT ![q] = f])
  BY DEF PlaceFile, MissPlace, FailPlace, CommitInv, WalkInv, Inv, TypeOK, ProcTypeOK
<1>2. shadow[s][q] \in File
  BY <1>1 DEF CommitInv, WalkInv, Walk, Placing
<1>3. ws \in [Path -> Node]
  BY DEF CommitInv, WalkInv, Inv, TypeOK, IsTree
<1>4. QED
  BY <1>1, <1>2, <1>3 DEF FileAt

\* The steps that leave the workspace and the overlays.
Quiet(c) ==
  \/ RefuseTombstone(c) \/ MissTombstone(c) \/ EndTombstones(c)
  \/ RefuseEntry(c) \/ MissEntry(c) \/ EndTeardown(c) \/ Fail(c)

\* No step of a commit takes back what has arrived.
LEMMA StepKept ==
  ASSUME CommitInv, NEW c \in Proc, NEW s \in Session, sess[c] = s,
         Step(c) \/ Fault(c), ~RemoveShadowEntry(c), ~EndWalk(c)
  PROVE  Kept(s)' /\ Clean(s)' /\ Fading(s)'
<1>1. UNCHANGED <<agentVars, landed>>
  BY DEF Step, Fault, ApplyTombstone, RefuseTombstone, MissTombstone, EndTombstones,
         VisitDirectory, CopyToTemp, RefuseEntry, MissEntry, PlaceFile, MissPlace,
         EndTeardown, Fail, FailTombstone, FailPlace
<1>2. ASSUME NEW p \in Path
      PROVE  FileAt(ws', p) = FileAt(ws, p) \/ shadow[s][p] \in File \/ Arrived(s, p)'
  <2>1. CASE Quiet(c)
    BY <2>1 DEF Quiet, RefuseTombstone, MissTombstone, EndTombstones, RefuseEntry, MissEntry,
                EndTeardown, Fail
  <2>2. CASE ApplyTombstone(c) \/ FailTombstone(c)
    <3>1. \/ FileAt(ws', p) = FileAt(ws, p)
          \/ Arrived(sess[c], p)' /\ sess' = sess
      BY <2>2, TombstoneArrives DEF ApplyTombstone, FailTombstone
    <3>2. QED
      BY <3>1 DEF Arrived, Applied
  <2>3. CASE VisitDirectory(c) \/ CopyToTemp(c)
    <3>1. Files(ws') = Files(ws)
      BY <2>3, VisitDirectoryFrame, CopyToTempFrame DEF CommitInv, WalkInv
    <3>2. QED
      BY <3>1 DEF Files
  <2>4. CASE PlaceFile(c) \/ MissPlace(c) \/ FailPlace(c)
    BY <2>4, PlaceArrives
  <2>5. QED
    BY <2>1, <2>2, <2>3, <2>4 DEF Step, Fault, Quiet
<1>3. QED
  BY <1>1, <1>2, KeptStep, SameOverlay DEF CommitInv

\* When the walk ends every change has arrived, this time or an earlier one.
LEMMA WalkArrives ==
  ASSUME CommitInv, NEW c \in Proc, NEW s \in Session, sess[c] = s, EndWalk(c), NEW p \in Path
  PROVE  Arrived(s, p)
<1>1. /\ Walking(c, s) /\ Cleared(c, s) /\ pc[c] = "walk" /\ todo[c] = {}
      /\ Marked(s) /\ (~landed[s] => Recorded(s)) /\ Kept(s)
      /\ IsTree(ws) /\ IsTree(shadow[s])
  BY DEF CommitInv, WalkInv, Walk, EndWalk, Inv, TypeOK, AgentTypeOK
<1>2. \A q \in Path : shadow[s][q] # Absent => ws[q] = shadow[s][q]
  BY <1>1 DEF Walking
<1>3. CASE shadow[s][p] \in File
  <2>1. delta[s][p] = shadow[s][p] /\ ws[p] = shadow[s][p]
    BY <1>1, <1>2, <1>3, NodeAssumption DEF Marked
  <2>2. QED
    BY <1>3, <2>1, VFSAssumption DEF Arrived, Applied, FileAt
<1>4. CASE shadow[s][p] \notin File /\ landed[s]
  BY <1>1, <1>4 DEF Kept
<1>5. CASE shadow[s][p] \notin File /\ ~landed[s]
  <2>1. delta[s][p] = Pending(s, p)
    BY <1>1, <1>5 DEF Recorded
  <2>2. CASE Pending(s, p) = Keep
    BY <2>1, <2>2 DEF Arrived, Applied
  <2>3. CASE Pending(s, p) = Gone /\ (shadow[s][p] = Dir \/ Blocked(shadow[s], p) \/ Covered(s, p))
    <3>1. ws[p] \notin File
      <4>1. CASE shadow[s][p] = Dir
        BY <1>2, <4>1, NodeAssumption
      <4>2. CASE Blocked(shadow[s], p)
        <5>1. PICK q \in Up[p] : shadow[s][q] \in File
          BY <4>2 DEF Blocked
        <5>2. q \in Path
          BY UpAssumption
        <5>3. ws[q] # Dir
          BY <1>2, <5>1, <5>2, NodeAssumption
        <5>4. QED
          BY <1>1, <5>3, NodeAssumption DEF IsTree
      <4>3. CASE Covered(s, p)
        BY <1>1, <4>3, NodeAssumption DEF Cleared
      <4>4. QED
        BY <2>3, <4>1, <4>2, <4>3
    <3>2. QED
      BY <2>1, <2>3, <3>1, VFSAssumption DEF Arrived, Applied, FileAt
  <2>4. QED
    BY <1>5, <2>2, <2>3 DEF Pending
<1>6. QED
  BY <1>3, <1>4, <1>5

\* Nothing appears under a tombstone the walk has passed.
LEMMA StepCleared ==
  ASSUME CommitInv, NEW c \in Proc, NEW s \in Session, sess[c] = s, Step(c) \/ Fault(c)
  PROVE  Cleared(c, s)'
<1>1. /\ Clean(s) /\ Cleared(c, s) /\ Clearing(c, s) /\ Placing(c, s) /\ IsTree(shadow[s])
      /\ pc \in [Proc -> {"idle", "tombs", "walk", "place", "teardown"}]
      /\ ws \in [Path -> Node] /\ todo \in [Proc -> SUBSET Path]
  BY DEF CommitInv, WalkInv, Walk, Inv, TypeOK, AgentTypeOK, ProcTypeOK, IsTree
<1>2. ASSUME pc'[c] \notin {"walk", "place"}
      PROVE  Cleared(c, s)'
  BY <1>2 DEF Cleared
<1>3. ASSUME pc[c] \in {"walk", "place"}, UNCHANGED agentVars,
             \A p \in Path : ws'[p] = ws[p] \/ shadow[s][p] # Absent
      PROVE  Cleared(c, s)'
  BY <1>1, <1>3 DEF Cleared, Clean, Covered, agentVars
<1>4. CASE EndTombstones(c)
  <2>1. /\ ws' = ws /\ tomb' = tomb /\ todo[c] = {} /\ pc[c] = "tombs"
    BY <1>4 DEF EndTombstones, agentVars
  <2>2. \A q \in tomb[s] : \A p \in Under(q) : ws'[p] = Absent
    BY <1>1, <2>1 DEF Clearing
  <2>3. QED
    BY <2>1, <2>2 DEF Cleared, Covered
<1>5. CASE VisitDirectory(c)
  <2>1. PICK p \in todo[c] :
          /\ pc[c] = "walk" /\ shadow[s][p] = Dir
          /\ ws' = MkdirAll(ws, Up[p] \cup {p}) /\ UNCHANGED agentVars
    BY <1>5 DEF VisitDirectory
  <2>2. \A q \in Up[p] \cup {p} : shadow[s][q] # Absent
    BY <1>1, <2>1, NodeAssumption DEF IsTree
  <2>3. QED
    BY <1>3, <2>1, <2>2 DEF MkdirAll
<1>6. CASE CopyToTemp(c)
  <2>1. PICK p \in todo[c] :
          /\ pc[c] = "walk" /\ shadow[s][p] \in File
          /\ ws' = MkdirAll(ws, Up[p]) /\ UNCHANGED agentVars
    BY <1>6 DEF CopyToTemp
  <2>2. \A q \in Up[p] : shadow[s][q] # Absent
    BY <1>1, <2>1, NodeAssumption DEF IsTree
  <2>3. QED
    BY <1>3, <2>1, <2>2 DEF MkdirAll
<1>7. CASE PlaceFile(c)
  <2>1. PICK p \in copying[c] :
          pc[c] = "place" /\ ws' = [ws EXCEPT ![p] = tmp[c]] /\ UNCHANGED agentVars
    BY <1>7 DEF PlaceFile
  <2>2. shadow[s][p] # Absent
    BY <1>1, <2>1, NodeAssumption DEF Placing
  <2>3. QED
    BY <1>1, <1>3, <2>1, <2>2
<1>8. ASSUME ~EndTombstones(c), ~VisitDirectory(c), ~CopyToTemp(c), ~PlaceFile(c)
      PROVE  pc'[c] \notin {"walk", "place"}
  BY <1>1, <1>8 DEF Step, Fault, ApplyTombstone, RefuseTombstone, MissTombstone, NextTomb,
     RefuseEntry, MissEntry, MissPlace, EndWalk, RemoveShadowEntry, EndTeardown, Fail,
     FailTombstone, FailPlace, Return, Goto, procVars
<1>9. QED
  BY <1>2, <1>4, <1>5, <1>6, <1>7, <1>8

\* The walk's end lands the session; only after it is a Commit successful.
LEMMA StepSettled ==
  ASSUME CommitInv, NEW c \in Proc, NEW s \in Session, sess[c] = s, Step(c) \/ Fault(c)
  PROVE  Settled(c, s)'
<1>1. /\ Settled(c, s)
      /\ pc \in [Proc -> {"idle", "tombs", "walk", "place", "teardown"}]
      /\ result \in [Proc -> {"none", "ok", "refused", "failed"}]
      /\ landed \in [Session -> BOOLEAN]
  BY DEF CommitInv, WalkInv, Inv, TypeOK, ProcTypeOK
<1>2. CASE EndWalk(c)
  <2>1. /\ pc[c] = "walk" /\ result' = result /\ landed'[s] /\ UNCHANGED <<ws, agentVars>>
    BY <1>1, <1>2 DEF EndWalk
  <2>2. \A p \in Path : Arrived(s, p)'
    BY <1>2, <2>1, WalkArrives, SameArrived
  <2>3. QED
    BY <1>1, <2>1, <2>2 DEF Settled
<1>3. CASE RemoveShadowEntry(c) \/ EndTeardown(c)
  <2>1. /\ pc[c] = "teardown" /\ UNCHANGED <<ws, delta, landed>>
        /\ \/ UNCHANGED <<pc, result>>
           \/ pc'[c] = "idle"
    BY <1>1, <1>3 DEF RemoveShadowEntry, EndTeardown, Return, Goto, procVars, agentVars
  <2>2. \A p \in Path : Arrived(s, p)'
    BY <1>1, <2>1 DEF Settled, Arrived, Applied
  <2>3. QED
    BY <1>1, <2>1, <2>2 DEF Settled
<1>4. CASE ~EndWalk(c) /\ ~RemoveShadowEntry(c) /\ ~EndTeardown(c)
  <2>1. \/ pc'[c] \in {"tombs", "walk", "place"} /\ pc[c] # "idle" /\ result' = result
        \/ pc'[c] = "idle" /\ result'[c] \in {"refused", "failed"}
    BY <1>1, <1>4 DEF Step, Fault, ApplyTombstone, RefuseTombstone, MissTombstone, NextTomb,
       EndTombstones, VisitDirectory, CopyToTemp, RefuseEntry, MissEntry, PlaceFile,
       MissPlace, Fail, FailTombstone, FailPlace, Return, Goto
  <2>2. QED
    BY <1>1, <2>1 DEF Settled
<1>5. QED
  BY <1>2, <1>3, <1>4

LEMMA EndWalkKept ==
  ASSUME CommitInv, NEW c \in Proc, NEW s \in Session, sess[c] = s, EndWalk(c)
  PROVE  Kept(s)' /\ Clean(s)' /\ Fading(s)'
<1>1. UNCHANGED <<ws, agentVars>>
  BY DEF EndWalk
<1>2. \A p \in Path : Arrived(s, p)'
  BY <1>1, WalkArrives, SameArrived
<1>3. QED
  BY <1>1, <1>2, SameOverlay DEF Kept, CommitInv

\* What the teardown removes has arrived, and what it leaves says nothing new.
LEMMA TeardownKept ==
  ASSUME CommitInv, NEW c \in Proc, NEW s \in Session, sess[c] = s, RemoveShadowEntry(c)
  PROVE  Kept(s)' /\ Clean(s)' /\ Fading(s)'
<1>1. /\ Clean(s) /\ Fading(s) /\ IsTree(shadow[s]) /\ tomb[s] \subseteq Path
      /\ shadow \in [Session -> [Path -> Node]] /\ tomb \in [Session -> SUBSET Path]
      /\ UNCHANGED <<ws, delta>> /\ \A p \in Path : Arrived(s, p)
  BY DEF CommitInv, WalkInv, Inv, TypeOK, AgentTypeOK, RemoveShadowEntry, Settled
<1>2. Kept(s)'
  BY <1>1 DEF Kept, Arrived, Applied
<1>3. ASSUME NEW p \in Path, UNCHANGED tomb, shadow[s][p] # Absent,
             \A q \in Path : p \in Up[q] => shadow[s][q] = Absent,
             shadow' = [shadow EXCEPT ![s] = Drop(shadow[s], {p})]
      PROVE  Clean(s)' /\ Fading(s)'
  <2>1. \A q \in Path : /\ shadow'[s][q] = IF q = p THEN Absent ELSE shadow[s][q]
                        /\ Covered(s, q)' <=> Covered(s, q)
    BY <1>1, <1>3 DEF Drop, Covered
  <2>2. Clean(s)'
    BY <1>1, <2>1 DEF Clean
  <2>3. ASSUME NEW q \in Path
        PROVE  Pending(s, q)' \in {Keep, Pending(s, q)}
    <3>1. CASE q = p
      <4>1. ~Covered(s, p) /\ \A r \in Up[p] : r \in Path /\ shadow[s][r] = Dir
        BY <1>1, <1>3, UpAssumption DEF Clean, IsTree
      <4>2. shadow'[s][q] = Absent /\ ~Covered(s, q)' /\ ~Blocked(shadow'[s], q)
        BY <2>1, <3>1, <4>1, NodeAssumption DEF Blocked
      <4>3. QED
        BY <4>2, NodeAssumption DEF Pending
    <3>2. CASE q # p
      <4>1. shadow'[s][q] = shadow[s][q] /\ (Covered(s, q)' <=> Covered(s, q))
        BY <2>1, <3>2
      <4>2. Blocked(shadow'[s], q) => Blocked(shadow[s], q)
        BY <2>1, UpAssumption, NodeAssumption DEF Blocked
      <4>3. QED
        BY <4>1, <4>2 DEF Pending
    <3>3. QED
      BY <3>1, <3>2
  <2>4. QED
    BY <1>1, <2>2, <2>3 DEF Fading
<1>4. ASSUME NEW p \in tomb[s], UNCHANGED shadow, tomb' = [tomb EXCEPT ![s] = @ \ {p}]
      PROVE  Clean(s)' /\ Fading(s)'
  <2>1. tomb'[s] \subseteq tomb[s]
    BY <1>1, <1>4
  <2>2. \A q \in Path : Covered(s, q)' => Covered(s, q)
    BY <2>1 DEF Covered
  <2>3. \A q \in Path : Pending(s, q)' \in {Keep, Pending(s, q)}
    BY <1>4, <2>2 DEF Pending
  <2>4. QED
    BY <1>1, <1>4, <2>2, <2>3 DEF Clean, Fading
<1>5. QED
  BY <1>2, <1>3, <1>4 DEF RemoveShadowEntry

LEMMA StepCommit ==
  ASSUME CommitInv, NEW c \in Proc, Step(c) \/ Fault(c)
  PROVE  CommitInv'
<1>1. PICK s \in Session : s = sess[c]
  BY DEF CommitInv, WalkInv, Inv, TypeOK, ProcTypeOK
<1>2. Kept(s)' /\ Clean(s)' /\ Fading(s)'
  BY <1>1, StepKept, EndWalkKept, TeardownKept
<1>3. Cleared(c, s)' /\ Settled(c, s)'
  BY <1>1, StepCleared, StepSettled
<1>4. /\ \A r \in Session : r = s
      /\ \A d \in Proc : d = c
  BY DEF CommitInv, WalkInv, SingleSession, SingleCommit
<1>5. WalkInv'
  BY NextWalk DEF CommitInv, Next
<1>6. QED
  BY <1>2, <1>3, <1>4, <1>5 DEF CommitInv, SingleSession

LEMMA StartKept ==
  ASSUME CommitInv, NEW c \in Proc, NEW s \in Session, StartCommit(c, s)
  PROVE  CommitInv'
<1>1. /\ pc'[c] = "tombs" /\ result'[c] = "none"
      /\ UNCHANGED <<ws, agentVars, landed>>
  BY DEF StartCommit, Goto, CommitInv, WalkInv, Inv, TypeOK, ProcTypeOK
<1>2. Kept(s)' /\ Clean(s)' /\ Fading(s)'
  BY <1>1, KeptStep, SameOverlay DEF CommitInv
<1>3. Cleared(c, s)' /\ Settled(c, s)'
  BY <1>1 DEF Cleared, Settled
<1>4. /\ \A r \in Session : r = s
      /\ \A d \in Proc : d = c
  BY DEF CommitInv, WalkInv, SingleSession, SingleCommit
<1>5. WalkInv'
  BY NextWalk DEF CommitInv, Next
<1>6. QED
  BY <1>2, <1>3, <1>4, <1>5 DEF CommitInv, SingleSession

LEMMA InitCommit == SingleSession /\ SingleCommit /\ ~Rewrites /\ Init => CommitInv
<1> SUFFICES ASSUME SingleSession, SingleCommit, ~Rewrites, Init PROVE CommitInv
  OBVIOUS
<1>1. WalkInv
  BY InitWalk
<1>2. \A s \in Session : Clean(s) /\ Fading(s) /\ Kept(s)
  BY <1>1 DEF WalkInv, Inv, Recorded, Init, Clean, Covered, Fading, Kept
<1>3. QED
  BY <1>1, <1>2 DEF Init, CommitInv, Cleared, Settled

LEMMA NextCommit == CommitInv /\ [Next]_vars => CommitInv'
<1> SUFFICES ASSUME CommitInv, [Next]_vars PROVE CommitInv'
  OBVIOUS
<1>1. CASE UNCHANGED vars
  <2>1. WalkInv' /\ SingleSession'
    BY NextWalk DEF CommitInv, SingleSession
  <2>2. QED
    BY <1>1, <2>1 DEF CommitInv, vars, agentVars, procVars, Clean, Fading, Kept, Cleared,
                      Settled, Arrived, Applied, Pending, Covered
<1>2. QED
  BY <1>1, AgentCommit, StepCommit, StartKept DEF Next

\* One session that does not write what it deleted, one commit at a time.
Alone == SingleSession /\ SingleCommit /\ ~Rewrites

\* Whatever the session did to a path is in its overlay or in the workspace,
\* through every failure, refusal and retry of its commit.
THEOREM LosesNothing == Alone /\ Spec => []NothingLost
<1>1. ASSUME CommitInv, NEW s \in Session, NEW p \in Path
      PROVE  Seen(s, p) = Applied(delta[s][p], p)
  <2>1. Seen(s, p) = Applied(Pending(s, p), p)
    BY <1>1, ReadsPending DEF CommitInv, WalkInv, Inv
  <2>2. Pending(s, p) \in {Keep, delta[s][p]} /\ (~landed[s] => Pending(s, p) = delta[s][p])
    BY <1>1 DEF CommitInv, WalkInv, Inv, Fading, Recorded
  <2>3. CASE Pending(s, p) = delta[s][p]
    BY <2>1, <2>3
  <2>4. CASE Pending(s, p) = Keep /\ landed[s]
    <3>1. shadow[s][p] \notin File
      BY <2>4, VFSAssumption DEF Pending
    <3>2. Arrived(s, p)
      BY <1>1, <2>4, <3>1 DEF CommitInv, Kept
    <3>3. QED
      BY <2>1, <2>4, <3>2 DEF Arrived, Applied
  <2>5. QED
    BY <2>2, <2>3, <2>4
<1>2. CommitInv => NothingLost
  BY <1>1 DEF NothingLost
<1>3. QED
  BY <1>2, InitCommit, NextCommit, PTL DEF Spec, Alone

\* A Commit that has returned success, on whichever attempt, has brought every
\* change of the session into the workspace.
THEOREM SuccessPromotes == Alone /\ Spec => []SuccessMeansPromoted
<1>1. ASSUME CommitInv, NEW c \in Proc, result[c] = "ok"
      PROVE  \A p \in Path : FileAt(ws, p) = Applied(delta[sess[c]][p], p)
  <2>1. PICK s \in Session : s = sess[c]
    BY <1>1 DEF CommitInv, WalkInv, Inv, TypeOK, ProcTypeOK
  <2>2. \A p \in Path : Arrived(s, p)
    BY <1>1, <2>1 DEF CommitInv, Settled
  <2>3. QED
    BY <2>1, <2>2 DEF Arrived
<1>2. CommitInv => SuccessMeansPromoted
  BY <1>1 DEF SuccessMeansPromoted
<1>3. QED
  BY <1>2, InitCommit, NextCommit, PTL DEF Spec, Alone

-----------------------------------------------------------------------------
(* Refinement of module Promotion.                                         *)

\* Nothing of the overlay is left and everything has landed.
Finished(s) == landed[s] /\ shadow[s] = Empty /\ tomb[s] = {}

LEMMA InitPromise == Init => Promise!Init
<1> SUFFICES ASSUME Init PROVE Promise!Init
  OBVIOUS
<1>1. Files(ws) \in [Path -> File \cup {Absent}]
  BY DEF Files, FileAt
<1>2. [s \in Session |-> ~live[s]] = [s \in Session |-> FALSE]
  BY DEF Init
<1>3. [s \in Session |-> landed[s] /\ shadow[s] = Empty /\ tomb[s] = {}]
        = [s \in Session |-> FALSE]
  BY DEF Init
<1>4. QED
  BY <1>1, <1>2, <1>3 DEF Init, Promise!Init

\* A step that changes no file, no change and no session's end.
LEMMA PromiseStutters ==
  ASSUME Files(ws') = Files(ws), UNCHANGED <<delta, live>>,
         \A s \in Session : Finished(s)' <=> Finished(s)
  PROVE  UNCHANGED Promise!vars
<1>1. [s \in Session |-> landed[s] /\ shadow[s] = Empty /\ tomb[s] = {}]'
        = [s \in Session |-> landed[s] /\ shadow[s] = Empty /\ tomb[s] = {}]
  BY DEF Finished
<1>2. QED
  BY <1>1 DEF Promise!vars

\* Whatever a run does is recorded, and the workspace does not see it.
LEMMA AgentRecords ==
  ASSUME CommitInv, NEW s \in Session, Agent(s)
  PROVE  Promise!Record(s)
<1>1. /\ live[s] /\ UNCHANGED <<ws, landed>> /\ ~landed[s]
      /\ \A r \in Session : r = s
  BY AgentOwn DEF CommitInv, WalkInv, SingleSession, Inv, TypeOK, Phases
<1>2. CommitInv'
  BY AgentCommit
<1>3. /\ delta' \in [Session -> [Path -> File \cup {Keep, Gone}]]
      /\ live' \in [Session -> BOOLEAN]
  BY <1>2 DEF CommitInv, WalkInv, Inv, TypeOK, AgentTypeOK
<1>4. [r \in Session |-> landed[r] /\ shadow[r] = Empty /\ tomb[r] = {}]'
        = [r \in Session |-> landed[r] /\ shadow[r] = Empty /\ tomb[r] = {}]
  BY <1>1
<1>5. Files(ws)' = Files(ws)
  BY <1>1
<1>6. QED
  BY <1>1, <1>3, <1>4, <1>5 DEF Promise!Record, Promise!Change

\* A commit that changes files publishes changes of its session.
LEMMA CommitPublishes ==
  ASSUME CommitInv, NEW c \in Proc, NEW s \in Session, sess[c] = s, Promoting,
         ~live[s], ~Finished(s), UNCHANGED <<agentVars, landed>>
  PROVE  Promise!Publish(s)
<1>1. \A d \in Proc : d = c
  BY DEF CommitInv, WalkInv, SingleCommit
<1>2. \A p \in Path : FileAt(ws', p) # FileAt(ws, p) =>
        delta[s][p] # Keep /\ FileAt(ws', p) \in {Absent, delta[s][p]}
  BY <1>1 DEF Promoting
<1>3. /\ Files(ws') \in [Path -> File \cup {Absent}]
      /\ \A p \in Path : Files(ws')[p] = FileAt(ws', p) /\ Files(ws)[p] = FileAt(ws, p)
  BY DEF Files, FileAt
<1>4. \A p \in Path : Files(ws')[p] # Files(ws)[p] =>
        /\ p \in Promise!Changed(s)
        /\ Files(ws')[p] \in {Absent, Promise!Outcome(s, p)}
  BY <1>2, <1>3, VFSAssumption DEF Promise!Changed, Promise!Outcome, FileAt
<1>5. [r \in Session |-> landed[r] /\ shadow[r] = Empty /\ tomb[r] = {}]'
        = [r \in Session |-> landed[r] /\ shadow[r] = Empty /\ tomb[r] = {}]
  BY DEF agentVars
<1>6. ~[r \in Session |-> landed[r] /\ shadow[r] = Empty /\ tomb[r] = {}][s]
  BY DEF Finished
<1>7. QED
  BY <1>3, <1>4, <1>5, <1>6 DEF Promise!Publish, agentVars

\* The last entry removed, or the walk of an empty overlay, ends the session
\* for good, and every change is in the workspace.
LEMMA CommitFinishes ==
  ASSUME CommitInv, NEW c \in Proc, NEW s \in Session, sess[c] = s,
         EndWalk(c) \/ RemoveShadowEntry(c)
  PROVE  Promise!Finish(s) \/ UNCHANGED Promise!vars
<1>1. /\ UNCHANGED <<ws, delta, live>> /\ ~live[s]
      /\ \A p \in Path : Arrived(s, p)
      /\ \A r \in Session : r = s
      /\ delta \in [Session -> [Path -> File \cup {Keep, Gone}]]
  <2>1. UNCHANGED <<ws, delta, live>> /\ pc[c] # "idle"
    BY DEF EndWalk, RemoveShadowEntry, agentVars
  <2>2. \A p \in Path : Arrived(s, p)
    BY WalkArrives DEF RemoveShadowEntry, CommitInv, Settled
  <2>3. QED
    BY <2>1, <2>2 DEF CommitInv, WalkInv, SingleSession, Inv, Phases, TypeOK, AgentTypeOK
<1>2. Files(ws') = Files(ws)
  BY <1>1
<1>3. CASE ~Finished(s)'
  <2>1. ~Finished(s)
    <3>1. CASE EndWalk(c)
      <4>1. landed'[s] /\ shadow'[s] = shadow[s] /\ tomb'[s] = tomb[s]
        BY <3>1 DEF EndWalk, agentVars, CommitInv, WalkInv, Inv, TypeOK
      <4>2. QED
        BY <1>3, <4>1 DEF Finished
    <3>2. CASE RemoveShadowEntry(c)
      BY <3>2 DEF RemoveShadowEntry, Finished, Empty
    <3>3. QED
      BY <3>1, <3>2
  <2>2. QED
    BY <1>1, <1>2, <1>3, <2>1, PromiseStutters
<1>4. CASE Finished(s)'
  <2>1. [r \in Session |-> landed[r] /\ shadow[r] = Empty /\ tomb[r] = {}]'
          = [[r \in Session |-> landed[r] /\ shadow[r] = Empty /\ tomb[r] = {}]
               EXCEPT ![s] = TRUE]
    BY <1>1, <1>4 DEF Finished
  <2>2. \A p \in Promise!Changed(s) : Files(ws)[p] = Promise!Outcome(s, p)
    BY <1>1, VFSAssumption DEF Promise!Changed, Promise!Outcome, Arrived, Applied, Files
  <2>3. QED
    BY <1>1, <1>2, <2>1, <2>2 DEF Promise!Finish
<1>5. QED
  BY <1>3, <1>4

LEMMA StepPromise ==
  ASSUME CommitInv, NEW c \in Proc, Step(c) \/ Fault(c)
  PROVE  Promise!Next \/ UNCHANGED Promise!vars
<1>1. PICK s \in Session : s = sess[c]
  BY DEF CommitInv, WalkInv, Inv, TypeOK, ProcTypeOK
<1>2. CASE EndWalk(c) \/ RemoveShadowEntry(c)
  BY <1>1, <1>2, CommitFinishes DEF Promise!Next
<1>3. CASE Quiet(c) \/ VisitDirectory(c) \/ CopyToTemp(c)
  <2>1. UNCHANGED <<agentVars, landed>>
    BY <1>3 DEF Quiet, RefuseTombstone, MissTombstone, EndTombstones, RefuseEntry, MissEntry,
                EndTeardown, Fail, VisitDirectory, CopyToTemp
  <2>2. Files(ws') = Files(ws)
    BY <1>3, VisitDirectoryFrame, CopyToTempFrame
       DEF Quiet, RefuseTombstone, MissTombstone, EndTombstones, RefuseEntry, MissEntry,
           EndTeardown, Fail, CommitInv, WalkInv
  <2>3. QED
    BY <2>1, <2>2, PromiseStutters DEF agentVars, Finished
<1>4. CASE \/ ApplyTombstone(c) \/ FailTombstone(c)
           \/ PlaceFile(c) \/ MissPlace(c) \/ FailPlace(c)
  <2>1. Promoting /\ UNCHANGED <<agentVars, landed>>
    BY <1>4, TombstoneChanges, PlaceChanges
       DEF CommitInv, WalkInv, ApplyTombstone, FailTombstone, PlaceFile, MissPlace, FailPlace
  <2>2. pc[c] # "idle" /\ ~live[s]
    BY <1>1, <1>4 DEF CommitInv, WalkInv, Inv, Phases, ApplyTombstone, FailTombstone, NextTomb,
                      PlaceFile, MissPlace, FailPlace
  <2>3. CASE ApplyTombstone(c) \/ FailTombstone(c)
    <3>1. ~Finished(s)
      BY <1>1, <2>3 DEF ApplyTombstone, FailTombstone, Finished
    <3>2. QED
      BY <1>1, <2>1, <2>2, <3>1, CommitPublishes DEF Promise!Next
  <2>4. CASE PlaceFile(c) \/ MissPlace(c) \/ FailPlace(c)
    <3>1. PICK p \in copying[c] : pc[c] = "place"
      BY <2>4 DEF PlaceFile, MissPlace, FailPlace
    <3>2. p \in Path /\ shadow[s][p] \in File
      BY <1>1, <3>1 DEF CommitInv, WalkInv, Walk, Placing, Inv, TypeOK, ProcTypeOK
    <3>3. ~Finished(s)
      BY <3>2, NodeAssumption DEF Finished, Empty
    <3>4. QED
      BY <1>1, <2>1, <2>2, <3>3, CommitPublishes DEF Promise!Next
  <2>5. QED
    BY <1>4, <2>3, <2>4
<1>5. QED
  BY <1>2, <1>3, <1>4 DEF Step, Fault, Quiet

LEMMA NextPromise == CommitInv /\ [Next]_vars => [Promise!Next]_(Promise!vars)
<1> SUFFICES ASSUME CommitInv, [Next]_vars PROVE Promise!Next \/ UNCHANGED Promise!vars
  OBVIOUS
<1>1. ASSUME NEW s \in Session, Agent(s)
      PROVE  Promise!Next
  BY <1>1, AgentRecords DEF Promise!Next
<1>2. ASSUME NEW c \in Proc, NEW s \in Session, StartCommit(c, s)
      PROVE  UNCHANGED Promise!vars
  <2>1. UNCHANGED <<ws, agentVars, landed>>
    BY <1>2 DEF StartCommit
  <2>2. QED
    BY <2>1, PromiseStutters DEF agentVars, Finished
<1>3. CASE UNCHANGED vars
  BY <1>3, PromiseStutters DEF vars, agentVars, Finished
<1>4. QED
  BY <1>1, <1>2, <1>3, StepPromise DEF Next

\* The overlay with its commit implements the promise of module Promotion:
\* changes are published piecemeal, only after the run, none besides its own,
\* and a session is done only when all are there.
THEOREM KeepsPromise == Alone /\ Spec => ImplementsPromotion
<1>1. Alone /\ Spec => []CommitInv
  BY InitCommit, NextCommit, PTL DEF Spec, Alone
<1>2. QED
  BY <1>1, InitPromise, NextPromise, PTL DEF Spec, ImplementsPromotion, Promise!Spec
=============================================================================
