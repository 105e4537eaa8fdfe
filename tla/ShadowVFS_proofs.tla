-------------------------- MODULE ShadowVFS_proofs --------------------------
(***************************************************************************)
(* Proofs about ShadowVFS, for every set of paths, sessions and commit     *)
(* processes, whatever runs rewrite and however often calls fail.          *)
(*                                                                         *)
(* The inductive invariant joins four facts: the variables have their      *)
(* types and the trees are trees; until a session lands its overlay        *)
(* records exactly the changes it made; later what is left of the overlay  *)
(* still only records changes; and a temp file holds its session's change  *)
(* and lies in a directory that exists.                                    *)
(***************************************************************************)
EXTENDS ShadowVFS, TLAPS

-----------------------------------------------------------------------------
(* Trees.  The os calls keep a tree a tree, and change the file at no path *)
(* beside the ones they are for.                                           *)

\* Creating directories where no file is (ensureTargetDirectory, the parents
\* of copyFileIntoWorkspace and of a write_file step).  ds is closed upwards.
LEMMA MkdirAllTree ==
  ASSUME NEW t, IsTree(t), NEW ds \in SUBSET Path,
         \A p \in ds : Up[p] \subseteq ds /\ t[p] \notin File
  PROVE  IsTree(MkdirAll(t, ds)) /\ Files(MkdirAll(t, ds)) = Files(t)
<1>1. MkdirAll(t, ds) \in [Path -> Node]
  BY DEF MkdirAll, IsTree, Node
<1>2. ASSUME NEW p \in Path, MkdirAll(t, ds)[p] # Absent, NEW q \in Up[p]
      PROVE  MkdirAll(t, ds)[q] = Dir
  BY <1>2, UpAssumption, NodeAssumption DEF MkdirAll, IsTree
<1>3. \A p \in Path : FileAt(MkdirAll(t, ds), p) = FileAt(t, p)
  BY NodeAssumption DEF MkdirAll, FileAt
<1>4. QED
  BY <1>1, <1>2, <1>3 DEF IsTree, Files

\* Writing a file where no directory is and no file is in the way.
LEMMA PutTree ==
  ASSUME NEW t, IsTree(t), NEW p \in Path, NEW f \in File,
         ~Blocked(t, p), t[p] # Dir
  PROVE  IsTree(Put(t, p, f))
<1>1. Put(t, p, f) \in [Path -> Node]
  BY DEF Put, IsTree, Node
<1>2. ASSUME NEW x \in Path, Put(t, p, f)[x] # Absent, NEW y \in Up[x]
      PROVE  Put(t, p, f)[y] = Dir
  <2>1. y \in Path /\ Up[y] \subseteq Up[x] /\ x \notin Up[x] /\ p \notin Up[p]
    BY UpAssumption
  <2>2. CASE x = p \/ x \in Up[p]
    BY <2>1, <2>2, UpAssumption DEF Put
  <2>3. CASE x # p /\ x \notin Up[p]
    <3>1. t[x] # Absent
      BY <1>2, <2>3 DEF Put
    <3>2. t[y] = Dir
      BY <3>1 DEF IsTree
    <3>3. QED
      BY <2>1, <3>2 DEF Put
  <2>4. QED
    BY <2>2, <2>3
<1>3. QED
  BY <1>1, <1>2 DEF IsTree

\* Whatever part of RemoveAll has happened.
LEMMA DropTree ==
  ASSUME NEW t, IsTree(t), NEW gone \in SUBSET Path, Sunken(t, gone)
  PROVE  IsTree(Drop(t, gone))
BY NodeAssumption, UpAssumption DEF IsTree, Drop, Sunken, Node

\* All of RemoveAll.
LEMMA UnderSunken ==
  ASSUME NEW t, NEW p \in Path
  PROVE  Under(p) \in SUBSET Path /\ Sunken(t, Under(p))
BY UpAssumption DEF Under, Sunken

\* A rename onto p, or its removal, when p holds nothing but itself.
LEMMA SetTree ==
  ASSUME NEW t, IsTree(t), NEW p \in Path, NEW f \in File \cup {Absent},
         \A q \in Path : p \in Up[q] => t[q] = Absent,
         f # Absent => \A q \in Up[p] : t[q] = Dir
  PROVE  IsTree([t EXCEPT ![p] = f])
<1>1. [t EXCEPT ![p] = f] \in [Path -> Node]
  BY DEF IsTree, Node
<1>2. ASSUME NEW x \in Path, [t EXCEPT ![p] = f][x] # Absent, NEW y \in Up[x]
      PROVE  [t EXCEPT ![p] = f][y] = Dir
  BY <1>2, UpAssumption DEF IsTree
<1>3. QED
  BY <1>1, <1>2 DEF IsTree

\* A path strictly under a file, or under nothing, holds nothing.
LEMMA LeafTree ==
  ASSUME NEW t, IsTree(t), NEW p \in Path, t[p] # Dir
  PROVE  \A q \in Path : p \in Up[q] => t[q] = Absent
BY DEF IsTree

-----------------------------------------------------------------------------
(* The inductive invariant.                                                *)

\* The overlay of s says of every path what s did to it.
Recorded(s) == \A p \in Path : Pending(s, p) = delta[s][p]

\* What is left of the overlay of s speaks only of what s did.
Marked(s) ==
  \A p \in Path : /\ Covered(s, p) => delta[s][p] # Keep
                  /\ shadow[s][p] \in File => delta[s][p] = shadow[s][p]

\* Only sessions that are over are promoted, and torn down once landed.
Phases ==
  /\ \A s \in Session : landed[s] => ~live[s]
  /\ \A c \in Proc : pc[c] # "idle" => ~live[sess[c]]
  /\ \A c \in Proc : pc[c] = "teardown" => landed[sess[c]]

Temps ==
  \A c \in Proc : \A p \in copying[c] :
    /\ pc[c] = "place"
    /\ delta[sess[c]][p] # Keep
    /\ tmp[c] # Absent => /\ tmp[c] = delta[sess[c]][p]
                          /\ \A q \in Up[p] : ws[q] = Dir

Inv ==
  /\ TypeOK
  /\ \A s \in Session : Marked(s) /\ (~landed[s] => Recorded(s))
  /\ Phases
  /\ Temps

-----------------------------------------------------------------------------
\* Reading through the overlay applies the change it records (ResolveReadPath).
LEMMA ReadsPending ==
  ASSUME TypeOK, NEW s \in Session, NEW p \in Path
  PROVE  Seen(s, p) = Applied(Pending(s, p), p)
<1>1. shadow[s][p] \in Node /\ IsTree(ws)
  BY DEF TypeOK, AgentTypeOK, ProcTypeOK, IsTree
<1>2. CASE shadow[s][p] \in File
  BY <1>1, <1>2, VFSAssumption, NodeAssumption
     DEF Seen, ResolveRead, Pending, Applied, FileAt, Node
<1>3. CASE shadow[s][p] = Dir
  BY <1>1, <1>3, VFSAssumption, NodeAssumption
     DEF Seen, ResolveRead, Pending, Applied, FileAt, Node
<1>4. CASE shadow[s][p] = Absent
  BY <1>1, <1>4, VFSAssumption, NodeAssumption
     DEF Seen, ResolveRead, Pending, Applied, FileAt, Node
<1>5. QED
  BY <1>1, <1>2, <1>3, <1>4 DEF Node

\* What a path's overlay records depends on the path, the files above it and
\* the tombstones.
LEMMA SamePending ==
  ASSUME NEW s \in Session, NEW p \in Path,
         shadow'[s][p] = shadow[s][p],
         Blocked(shadow'[s], p) <=> Blocked(shadow[s], p),
         Covered(s, p)' <=> Covered(s, p)
  PROVE  Pending(s, p)' = Pending(s, p)
BY DEF Pending

-----------------------------------------------------------------------------
\* A write_file step records the write, and the directories above it.
LEMMA WriteRecorded ==
  ASSUME TypeOK, NEW s \in Session, NEW p \in Path, NEW f \in Content,
         Recorded(s), WriteFile(s, p, f)
  PROVE  Recorded(s)'
<1> USE DEF WriteFile, Writable
<1>1. /\ shadow'[s] = Put(shadow[s], p, f)
      /\ tomb'[s] = tomb[s]
      /\ f \in File /\ IsTree(shadow[s])
      /\ \A q \in Path : delta'[s][q] = IF q = p THEN f
                         ELSE IF q \in Up[p] \/ p \in Up[q] THEN Gone
                         ELSE delta[s][q]
  BY DEF TypeOK, AgentTypeOK, ProcTypeOK, File
<1>2. SUFFICES ASSUME NEW q \in Path
               PROVE  Pending(s, q)' = delta'[s][q]
  BY DEF Recorded
<1>3. CASE q = p
  BY <1>1, <1>3 DEF Pending, Put
<1>4. CASE q \in Up[p]
  BY <1>1, <1>4, UpAssumption, NodeAssumption DEF Pending, Put
<1>5. CASE p \in Up[q]
  <2>1. q # p /\ q \notin Up[p]
    BY <1>5, UpAssumption
  <2>2. shadow'[s][q] = Absent
    BY <1>1, <1>5, <2>1, LeafTree DEF Put
  <2>3. Blocked(shadow'[s], q)
    BY <1>1, <1>5 DEF Blocked, Put
  <2>4. QED
    BY <1>1, <1>5, <2>1, <2>2, <2>3, NodeAssumption DEF Pending
<1>6. CASE q # p /\ q \notin Up[p] /\ p \notin Up[q]
  <2>1. shadow'[s][q] = shadow[s][q] /\ (Covered(s, q)' <=> Covered(s, q))
    BY <1>1, <1>6 DEF Put, Covered
  <2>2. Blocked(shadow'[s], q) <=> Blocked(shadow[s], q)
    <3>1. \A y \in Up[q] : shadow'[s][y] \in File <=> shadow[s][y] \in File
      BY <1>1, <1>6, UpAssumption, NodeAssumption DEF Blocked, Put
    <3>2. QED
      BY <3>1 DEF Blocked
  <2>3. Pending(s, q)' = Pending(s, q)
    BY <2>1, <2>2, SamePending
  <2>4. QED
    BY <1>1, <1>6, <2>3 DEF Recorded
<1>7. QED
  BY <1>3, <1>4, <1>5, <1>6

\* MarkDeleted records the deletion of p and of everything beneath it.
LEMMA DeleteRecorded ==
  ASSUME TypeOK, NEW s \in Session, NEW p \in Path,
         Recorded(s), MarkDeleted(s, p)
  PROVE  Recorded(s)'
<1> USE DEF MarkDeleted
<1>1. /\ shadow'[s] = Drop(shadow[s], Under(p))
      /\ tomb'[s] = tomb[s] \cup {p}
      /\ IsTree(shadow[s])
      /\ \A q \in Path : delta'[s][q] = IF q \in Under(p) THEN Gone ELSE delta[s][q]
  BY DEF TypeOK, AgentTypeOK, ProcTypeOK
<1>2. SUFFICES ASSUME NEW q \in Path
               PROVE  Pending(s, q)' = delta'[s][q]
  BY DEF Recorded
<1>3. CASE q \in Under(p)
  <2>1. shadow'[s][q] = Absent /\ Covered(s, q)'
    BY <1>1, <1>3 DEF Drop, Covered
  <2>2. QED
    BY <1>1, <1>3, <2>1, NodeAssumption DEF Pending
<1>4. CASE q \notin Under(p)
  <2>1. shadow'[s][q] = shadow[s][q] /\ (Covered(s, q)' <=> Covered(s, q))
    BY <1>1, <1>4 DEF Drop, Covered
  <2>2. Up[q] \cap Under(p) = {}
    BY <1>4, UpAssumption DEF Under
  <2>3. Blocked(shadow'[s], q) <=> Blocked(shadow[s], q)
    <3>1. \A y \in Up[q] : shadow'[s][y] = shadow[s][y]
      BY <1>1, <2>2, UpAssumption DEF Drop
    <3>2. QED
      BY <3>1 DEF Blocked
  <2>4. Pending(s, q)' = Pending(s, q)
    BY <2>1, <2>3, SamePending
  <2>5. QED
    BY <1>1, <1>4, <2>4 DEF Recorded
<1>5. QED
  BY <1>3, <1>4

\* A call on p that stops half-way leaves the record of the paths beside p.
LEMMA CutRecorded ==
  ASSUME TypeOK, NEW s \in Session, NEW p \in Path,
         Recorded(s), WriteCut(s, p) \/ MarkDeletedCut(s, p)
  PROVE  Recorded(s)'
<1>1. /\ IsTree(shadow[s])
      /\ tomb'[s] = tomb[s]
      /\ ~Blocked(shadow[s], p)
      /\ \A q \in Path : delta'[s][q] =
           IF q \in Up[p] \cup Under(p) THEN Pending(s, q)' ELSE delta[s][q]
  BY DEF TypeOK, AgentTypeOK, ProcTypeOK, WriteCut, MarkDeletedCut, EndRunAt, Writable
<1>2. SUFFICES ASSUME NEW q \in Path, q \notin Up[p], q \notin Under(p)
               PROVE  Pending(s, q)' = Pending(s, q)
  BY <1>1 DEF Recorded
<1>3. \A x \in Path : shadow'[s][x] # shadow[s][x] =>
        \/ x \in Under(p)
        \/ x \in Up[p] /\ shadow'[s][x] = Dir
  <2>1. CASE WriteCut(s, p)
    <3>1. CASE shadow' = [shadow EXCEPT ![s] = Put(shadow[s], p, Torn)]
      BY <3>1 DEF TypeOK, AgentTypeOK, ProcTypeOK, Put, Under
    <3>2. CASE \E r \in Up[p] :
                 shadow' = [shadow EXCEPT ![s] = MkdirAll(shadow[s], Up[r] \cup {r})]
      BY <3>2, UpAssumption DEF TypeOK, AgentTypeOK, ProcTypeOK, MkdirAll
    <3>3. QED
      BY <2>1, <3>1, <3>2 DEF WriteCut
  <2>2. CASE MarkDeletedCut(s, p)
    BY <2>2 DEF MarkDeletedCut, TypeOK, AgentTypeOK, ProcTypeOK, Drop
  <2>3. QED
    BY <2>1, <2>2
<1>4. shadow'[s][q] = shadow[s][q] /\ (Covered(s, q)' <=> Covered(s, q))
  BY <1>1, <1>2, <1>3 DEF Covered
<1>5. \A y \in Up[q] : y \in Path /\ y \notin Under(p)
  BY <1>2, UpAssumption DEF Under
<1>6. Blocked(shadow'[s], q) <=> Blocked(shadow[s], q)
  <2>1. \A y \in Up[q] : shadow'[s][y] \in File <=> shadow[s][y] \in File
    BY <1>1, <1>3, <1>5, NodeAssumption DEF Blocked
  <2>2. QED
    BY <2>1 DEF Blocked
<1>7. QED
  BY <1>4, <1>6, SamePending

-----------------------------------------------------------------------------
\* The run that owns s leaves the other sessions alone.
LEMMA AgentOwn ==
  ASSUME AgentTypeOK, NEW s \in Session, Agent(s)
  PROVE  /\ live[s]
         /\ UNCHANGED <<ws, procVars, faults, landed>>
         /\ \A r \in Session \ {s} :
              /\ shadow'[r] = shadow[r] /\ tomb'[r] = tomb[r]
              /\ live'[r] = live[r] /\ delta'[r] = delta[r]
BY DEF AgentTypeOK, Agent, WriteFile, Writable, WriteCut, MarkDeleted,
       MarkDeletedCut, EndRun, EndRunAt

LEMMA AgentTypes ==
  ASSUME AgentTypeOK, NEW s \in Session, Agent(s)
  PROVE  AgentTypeOK'
<1> USE DEF AgentTypeOK
<1>1. ASSUME NEW t, IsTree(t), shadow' = [shadow EXCEPT ![s] = t]
      PROVE  shadow' \in [Session -> [Path -> Node]] /\ \A r \in Session : IsTree(shadow'[r])
  BY <1>1 DEF IsTree
<1>2. \A q \in Path : Pending(s, q)' \in File \cup {Keep, Gone}
  BY DEF Pending
<1>3. ASSUME NEW p \in Path, NEW f \in Content, WriteFile(s, p, f)
      PROVE  AgentTypeOK'
  <2>1. IsTree(Put(shadow[s], p, f)) /\ f \in File
    BY <1>3, PutTree DEF WriteFile, Writable, File
  <2>2. QED
    BY <1>1, <1>3, <2>1 DEF WriteFile
<1>4. ASSUME NEW p \in Path, WriteCut(s, p)
      PROVE  AgentTypeOK'
  <2>1. IsTree(Put(shadow[s], p, Torn))
    BY <1>4, PutTree DEF WriteCut, Writable, File
  <2>2. \A q \in Up[p] : IsTree(MkdirAll(shadow[s], Up[q] \cup {q}))
    <3>1. TAKE q \in Up[p]
    <3>2. /\ Up[q] \cup {q} \in SUBSET Path
          /\ \A x \in Up[q] \cup {q} : /\ Up[x] \subseteq Up[q] \cup {q}
                                       /\ shadow[s][x] \notin File
      BY <1>4, UpAssumption DEF WriteCut, Writable, Blocked
    <3>3. QED
      BY <3>2, MkdirAllTree
  <2>3. shadow' \in [Session -> [Path -> Node]] /\ \A r \in Session : IsTree(shadow'[r])
    BY <1>1, <1>4, <2>1, <2>2 DEF WriteCut
  <2>4. QED
    BY <1>2, <1>4, <2>3 DEF WriteCut, EndRunAt
<1>5. ASSUME NEW p \in Path, MarkDeleted(s, p)
      PROVE  AgentTypeOK'
  <2>1. IsTree(Drop(shadow[s], Under(p)))
    BY UnderSunken, DropTree
  <2>2. QED
    BY <1>1, <1>5, <2>1 DEF MarkDeleted
<1>6. ASSUME NEW p \in Path, MarkDeletedCut(s, p)
      PROVE  AgentTypeOK'
  <2>1. PICK gone \in SUBSET Under(p) :
          /\ Sunken(shadow[s], gone)
          /\ shadow' = [shadow EXCEPT ![s] = Drop(shadow[s], gone)]
    BY <1>6 DEF MarkDeletedCut
  <2>2. IsTree(Drop(shadow[s], gone))
    BY <2>1, UnderSunken, DropTree
  <2>3. QED
    BY <1>1, <1>2, <1>6, <2>1, <2>2 DEF MarkDeletedCut, EndRunAt
<1>7. CASE EndRun(s)
  BY <1>7 DEF EndRun
<1>8. QED
  BY <1>3, <1>4, <1>5, <1>6, <1>7 DEF Agent

LEMMA AgentStep ==
  ASSUME Inv, NEW s \in Session, Agent(s)
  PROVE  Inv'
<1>1. live[s] /\ ~landed[s] /\ Recorded(s) /\ AgentTypeOK
  BY AgentOwn DEF Inv, TypeOK, Phases
<1>2. /\ UNCHANGED <<ws, procVars, faults, landed>>
      /\ \A r \in Session \ {s} : /\ shadow'[r] = shadow[r] /\ tomb'[r] = tomb[r]
                                   /\ live'[r] = live[r] /\ delta'[r] = delta[r]
  BY <1>1, AgentOwn
<1>3. TypeOK'
  BY <1>1, <1>2, AgentTypes DEF Inv, TypeOK, ProcTypeOK, procVars
<1>4. Recorded(s)'
  <2>1. CASE EndRun(s)
    BY <1>1, <2>1 DEF EndRun, Recorded, Pending, Covered
  <2>2. QED
    BY <1>1, <2>1, WriteRecorded, DeleteRecorded, CutRecorded DEF Agent, Inv
<1>5. \A r \in Session \ {s} : (Recorded(r)' <=> Recorded(r)) /\ (Marked(r)' <=> Marked(r))
  BY <1>2 DEF Recorded, Marked, Pending, Covered
<1>6. Marked(s)'
  BY <1>4, VFSAssumption, NodeAssumption DEF Recorded, Marked, Pending
<1>7. \A r \in Session : Marked(r)' /\ (~landed'[r] => Recorded(r)')
  BY <1>2, <1>4, <1>5, <1>6 DEF Inv
<1>8. Phases' /\ Temps'
  <2>1. \A c \in Proc : pc[c] # "idle" => sess[c] # s /\ sess[c] \in Session
    BY <1>1 DEF Inv, Phases, TypeOK, ProcTypeOK
  <2>2. QED
    BY <1>1, <1>2, <2>1 DEF Inv, Phases, Temps, procVars
<1>9. QED
  BY <1>3, <1>7, <1>8 DEF Inv

-----------------------------------------------------------------------------
\* The directories above the temp files of the processes other than c stand.
Sheltered(c) ==
  \A d \in Proc \ {c} : \A p \in copying[d] :
    tmp'[d] # Absent => \A q \in Up[p] : ws'[q] = Dir

\* What every step of process c but the removal of the shadow comes down to.
CommitFrame(c) ==
  /\ IsTree(ws') /\ ProcTypeOK'
  /\ UNCHANGED agentVars
  /\ faults' \in 0..MaxFaults
  /\ \/ UNCHANGED landed
     \/ landed' = [landed EXCEPT ![sess[c]] = TRUE] /\ pc[c] # "idle"
  /\ \A d \in Proc \ {c} :
       /\ pc'[d] = pc[d] /\ sess'[d] = sess[d] /\ copying'[d] = copying[d]
       /\ tmp'[d] \in {tmp[d], Absent}
  /\ Sheltered(c)
  /\ \A p \in copying'[c] :
       /\ pc'[c] = "place"
       /\ delta[sess'[c]][p] # Keep
       /\ tmp'[c] = delta[sess'[c]][p]
       /\ \A q \in Up[p] : ws'[q] = Dir
  /\ pc'[c] # "idle" => ~live[sess'[c]]
  /\ pc'[c] = "teardown" => landed'[sess'[c]]

LEMMA FrameInv ==
  ASSUME Inv, NEW c \in Proc, CommitFrame(c)
  PROVE  Inv'
<1>1. TypeOK'
  BY DEF CommitFrame, Inv, TypeOK, AgentTypeOK, agentVars, ProcTypeOK
<1>2. \A s \in Session : Marked(s)' /\ (~landed'[s] => Recorded(s)')
  <2>1. TAKE s \in Session
  <2>2. (Recorded(s)' <=> Recorded(s)) /\ (Marked(s)' <=> Marked(s))
    BY DEF CommitFrame, agentVars, Recorded, Marked, Pending, Covered
  <2>3. landed[s] => landed'[s]
    BY DEF CommitFrame, Inv, TypeOK
  <2>4. QED
    BY <2>2, <2>3 DEF Inv
<1>3. Phases'
  BY DEF CommitFrame, Inv, TypeOK, ProcTypeOK, agentVars, Phases
<1>4. Temps'
  BY DEF CommitFrame, Inv, agentVars, Temps, Sheltered
<1>5. QED
  BY <1>1, <1>2, <1>3, <1>4 DEF Inv

\* A process that returns keeps no temp file.
LEMMA ReturnFrame ==
  ASSUME Inv, NEW c \in Proc, NEW r \in {"ok", "refused", "failed"},
         Return(c, r), IsTree(ws'), UNCHANGED <<agentVars, landed>>,
         faults' \in 0..MaxFaults, Sheltered(c)
  PROVE  CommitFrame(c)
BY DEF CommitFrame, Inv, TypeOK, ProcTypeOK, Return, Goto

\* The temp files of others survive a step that keeps the directories.
LEMMA Shelter ==
  ASSUME Inv, NEW c \in Proc,
         \A d \in Proc \ {c} : tmp'[d] \in {tmp[d], Absent},
         \A q \in Path : ws[q] = Dir => ws'[q] = Dir
  PROVE  Sheltered(c)
BY UpAssumption DEF Inv, Temps, Sheltered, TypeOK, ProcTypeOK

\* A path that Occupied does not hold can be replaced.
LEMMA Replace ==
  ASSUME Inv, NEW c \in Proc, NEW p \in Path, NEW f \in File \cup {Absent},
         ~Occupied(p), f # Absent => \A q \in Up[p] : ws[q] = Dir,
         ws' = [ws EXCEPT ![p] = f],
         \A d \in Proc \ {c} : tmp'[d] \in {tmp[d], Absent}
  PROVE  IsTree(ws') /\ Sheltered(c)
<1>1. IsTree(ws)
  BY DEF Inv, TypeOK
<1>2. \A q \in Path : p \in Up[q] => ws[q] = Absent
  BY <1>1, LeafTree DEF Occupied
<1>3. IsTree(ws')
  BY <1>1, <1>2, SetTree
<1>4. Sheltered(c)
  <2>1. SUFFICES ASSUME NEW d \in Proc \ {c}, NEW q \in copying[d], tmp'[d] # Absent,
                        NEW x \in Up[q]
                 PROVE  ws'[x] = Dir
    BY DEF Sheltered
  <2>2. tmp[d] # Absent /\ ws[x] = Dir /\ q \in Path /\ x \in Path
    BY <2>1, UpAssumption DEF Inv, Temps, TypeOK, ProcTypeOK
  <2>3. x # p
    BY <2>1, <2>2 DEF Occupied
  <2>4. QED
    BY <1>1, <2>2, <2>3 DEF IsTree
<1>5. QED
  BY <1>3, <1>4

\* RemoveAll in the workspace, as far as it got.
LEMMA Removal ==
  ASSUME Inv, NEW c \in Proc, NEW gone \in SUBSET Path, Sunken(ws, gone),
         ws' = Drop(ws, gone), LoseTemps(gone)
  PROVE  IsTree(ws') /\ Sheltered(c)
<1>1. IsTree(ws')
  BY DropTree DEF Inv, TypeOK
<1>2. Sheltered(c)
  BY UpAssumption DEF Sheltered, LoseTemps, Inv, Temps, TypeOK, ProcTypeOK, Drop
<1>3. QED
  BY <1>1, <1>2

-----------------------------------------------------------------------------
\* Commit, action by action.
LEMMA StartFrame ==
  ASSUME Inv, NEW c \in Proc, NEW s \in Session, StartCommit(c, s)
  PROVE  CommitFrame(c)
<1>1. Sheltered(c)
  BY Shelter DEF StartCommit
<1>2. copying[c] = {}
  BY DEF StartCommit, Inv, Temps, TypeOK, ProcTypeOK
<1>3. Clash(s) \in BOOLEAN
  BY DEF Clash
<1>4. QED
  BY <1>1, <1>2, <1>3
     DEF StartCommit, Goto, CommitFrame, Inv, TypeOK, AgentTypeOK, ProcTypeOK

LEMMA ApplyTombstoneFrame ==
  ASSUME Inv, NEW c \in Proc, ApplyTombstone(c)
  PROVE  CommitFrame(c)
<1>1. PICK p \in Path :
        /\ pc[c] = "tombs" /\ p \in tomb[sess[c]]
        /\ ws' = Drop(ws, Under(p)) /\ LoseTemps(Under(p))
        /\ todo' = [todo EXCEPT ![c] = @ \ {p}]
        /\ UNCHANGED <<agentVars, pc, sess, copying, result, clash, faults, landed>>
  BY DEF ApplyTombstone, NextTomb
<1>2. IsTree(ws') /\ Sheltered(c)
  BY <1>1, UnderSunken, Removal
<1>3. copying[c] = {}
  BY <1>1 DEF Inv, Temps, TypeOK, ProcTypeOK
<1>4. ProcTypeOK'
  BY <1>1 DEF Inv, TypeOK, ProcTypeOK, LoseTemps
<1>5. QED
  BY <1>1, <1>2, <1>3, <1>4 DEF CommitFrame, LoseTemps, Inv, TypeOK, ProcTypeOK, Phases, agentVars

LEMMA MissTombstoneFrame ==
  ASSUME Inv, NEW c \in Proc, MissTombstone(c)
  PROVE  CommitFrame(c)
<1>1. PICK p \in Path :
        /\ pc[c] = "tombs"
        /\ \/ /\ todo' = [todo EXCEPT ![c] = @ \ {p}]
              /\ UNCHANGED <<pc, sess, copying, tmp, result, clash>>
           \/ Return(c, "failed")
        /\ UNCHANGED <<ws, agentVars, faults, landed>>
  BY DEF MissTombstone, NextTomb
<1>2. IsTree(ws') /\ Sheltered(c)
  BY <1>1, Shelter DEF Inv, TypeOK, ProcTypeOK, Return
<1>3. CASE Return(c, "failed")
  BY <1>1, <1>2, <1>3, ReturnFrame DEF Inv, TypeOK
<1>4. CASE UNCHANGED <<pc, sess, copying, tmp, result, clash>>
  <2>1. copying[c] = {}
    BY <1>1 DEF Inv, Temps, TypeOK, ProcTypeOK
  <2>2. QED
    BY <1>1, <1>2, <1>4, <2>1 DEF CommitFrame, Inv, TypeOK, ProcTypeOK, Phases, agentVars, Return, Goto
<1>5. QED
  BY <1>1, <1>3, <1>4

LEMMA EndTombstonesFrame ==
  ASSUME Inv, NEW c \in Proc, EndTombstones(c)
  PROVE  CommitFrame(c)
<1>1. Sheltered(c)
  BY Shelter DEF EndTombstones
<1>2. copying[c] = {}
  BY DEF EndTombstones, Inv, Temps, TypeOK, ProcTypeOK
<1>3. QED
  BY <1>1, <1>2 DEF EndTombstones, Goto, CommitFrame, Inv, TypeOK, ProcTypeOK, Phases, agentVars, TopLevel

LEMMA VisitDirectoryFrame ==
  ASSUME Inv, NEW c \in Proc, VisitDirectory(c)
  PROVE  CommitFrame(c) /\ Files(ws') = Files(ws)
<1>1. PICK p \in todo[c] :
        /\ pc[c] = "walk" /\ ws[p] \notin File /\ ~Blocked(ws, p)
        /\ ws' = MkdirAll(ws, Up[p] \cup {p})
        /\ todo' = [todo EXCEPT ![c] =
             (@ \ {p}) \cup {q \in Children(p) : shadow[sess[c]][q] # Absent}]
        /\ UNCHANGED <<agentVars, pc, sess, copying, tmp, result, clash, faults, landed>>
  BY DEF VisitDirectory
<1>2. p \in Path /\ IsTree(ws)
  BY <1>1 DEF Inv, TypeOK, ProcTypeOK
<1>3. /\ Up[p] \cup {p} \in SUBSET Path
      /\ \A x \in Up[p] \cup {p} : Up[x] \subseteq Up[p] \cup {p} /\ ws[x] \notin File
  BY <1>1, <1>2, UpAssumption DEF Blocked
<1>4. IsTree(ws') /\ Files(ws') = Files(ws)
  BY <1>1, <1>2, <1>3, MkdirAllTree
<1>5. Sheltered(c)
  BY <1>1, Shelter DEF MkdirAll, Inv, TypeOK, ProcTypeOK
<1>6. copying[c] = {}
  BY <1>1 DEF Inv, Temps, TypeOK, ProcTypeOK
<1>7. QED
  BY <1>1, <1>4, <1>5, <1>6 DEF CommitFrame, Inv, TypeOK, ProcTypeOK, Phases, agentVars, Children

LEMMA CopyToTempFrame ==
  ASSUME Inv, NEW c \in Proc, CopyToTemp(c)
  PROVE  CommitFrame(c) /\ Files(ws') = Files(ws)
<1>1. PICK p \in todo[c] :
        /\ pc[c] = "walk" /\ shadow[sess[c]][p] \in File /\ ~Blocked(ws, p)
        /\ ws' = MkdirAll(ws, Up[p])
        /\ copying' = [copying EXCEPT ![c] = {p}]
        /\ tmp' = [tmp EXCEPT ![c] = shadow[sess[c]][p]]
        /\ pc' = [pc EXCEPT ![c] = "place"]
        /\ UNCHANGED <<agentVars, sess, todo, result, clash, faults, landed>>
  BY DEF CopyToTemp, Goto
<1>2. p \in Path /\ IsTree(ws) /\ sess[c] \in Session
  BY <1>1 DEF Inv, TypeOK, ProcTypeOK
<1>3. /\ Up[p] \in SUBSET Path
      /\ \A x \in Up[p] : Up[x] \subseteq Up[p] /\ ws[x] \notin File
  BY <1>1, <1>2, UpAssumption DEF Blocked
<1>4. IsTree(ws') /\ Files(ws') = Files(ws)
  BY <1>1, <1>2, <1>3, MkdirAllTree
<1>5. Sheltered(c)
  BY <1>1, Shelter DEF MkdirAll, Inv, TypeOK, ProcTypeOK
<1>6. delta[sess[c]][p] = shadow[sess[c]][p] /\ delta[sess[c]][p] # Keep
  BY <1>1, <1>2, VFSAssumption DEF Inv, Marked
<1>7. \A q \in Up[p] : ws'[q] = Dir
  BY <1>1, <1>3 DEF MkdirAll
<1>8. ProcTypeOK'
  BY <1>1, <1>2 DEF Inv, TypeOK, ProcTypeOK
<1>9. QED
  BY <1>1, <1>4, <1>5, <1>6, <1>7, <1>8 DEF CommitFrame, Inv, TypeOK, ProcTypeOK, Phases, agentVars

LEMMA PlaceFileFrame ==
  ASSUME Inv, NEW c \in Proc, PlaceFile(c)
  PROVE  CommitFrame(c)
<1>1. PICK p \in copying[c] :
        /\ pc[c] = "place" /\ tmp[c] # Absent /\ ~Occupied(p)
        /\ ws' = [ws EXCEPT ![p] = tmp[c]]
        /\ tmp' = [tmp EXCEPT ![c] = Absent]
        /\ copying' = [copying EXCEPT ![c] = {}]
        /\ todo' = [todo EXCEPT ![c] = @ \ {p}]
        /\ pc' = [pc EXCEPT ![c] = "walk"]
        /\ UNCHANGED <<agentVars, sess, result, clash, faults, landed>>
  BY DEF PlaceFile, Goto
<1>2. p \in Path /\ tmp[c] \in File \cup {Absent} /\ \A q \in Up[p] : ws[q] = Dir
  BY <1>1 DEF Inv, TypeOK, ProcTypeOK, Temps
<1>3. \A d \in Proc \ {c} : tmp'[d] \in {tmp[d], Absent}
  BY <1>1 DEF Inv, TypeOK, ProcTypeOK
<1>4. IsTree(ws') /\ Sheltered(c)
  BY <1>1, <1>2, <1>3, Replace
<1>5. ProcTypeOK'
  BY <1>1 DEF Inv, TypeOK, ProcTypeOK
<1>6. QED
  BY <1>1, <1>3, <1>4, <1>5 DEF CommitFrame, Inv, TypeOK, ProcTypeOK, Phases, agentVars

\* os.Remove of the target, after which Commit returns.
LEMMA RemoveTargetFrame ==
  ASSUME Inv, NEW c \in Proc, NEW p \in copying[c], ~Occupied(p),
         ws' = [ws EXCEPT ![p] = Absent], Return(c, "failed"),
         faults' \in 0..MaxFaults, UNCHANGED <<agentVars, landed>>
  PROVE  CommitFrame(c)
<1>1. p \in Path /\ \A d \in Proc \ {c} : tmp'[d] \in {tmp[d], Absent}
  BY DEF Inv, TypeOK, ProcTypeOK, Return
<1>2. IsTree(ws') /\ Sheltered(c)
  BY <1>1, Replace
<1>3. QED
  BY <1>2, ReturnFrame

LEMMA MissPlaceFrame ==
  ASSUME Inv, NEW c \in Proc, MissPlace(c)
  PROVE  CommitFrame(c)
<1>1. PICK p \in copying[c] :
        /\ ws' = IF Occupied(p) THEN ws ELSE [ws EXCEPT ![p] = Absent]
        /\ Return(c, "failed") /\ UNCHANGED <<agentVars, faults, landed>>
  BY DEF MissPlace
<1>2. CASE ~Occupied(p)
  BY <1>1, <1>2, RemoveTargetFrame DEF Inv, TypeOK
<1>3. CASE Occupied(p)
  <2>1. Sheltered(c)
    BY <1>1, <1>3, Shelter DEF Return, Inv, TypeOK, ProcTypeOK
  <2>2. QED
    BY <1>1, <1>3, <2>1, ReturnFrame DEF Inv, TypeOK
<1>4. QED
  BY <1>2, <1>3

LEMMA FailPlaceFrame ==
  ASSUME Inv, NEW c \in Proc, FailPlace(c)
  PROVE  CommitFrame(c)
<1>1. faults' \in 0..MaxFaults
  BY VFSAssumption DEF FailPlace, Inv, TypeOK
<1>2. QED
  BY <1>1, RemoveTargetFrame DEF FailPlace

LEMMA FailTombstoneFrame ==
  ASSUME Inv, NEW c \in Proc, FailTombstone(c)
  PROVE  CommitFrame(c)
<1>1. PICK p \in Path :
        /\ pc[c] = "tombs" /\ faults < MaxFaults /\ faults' = faults + 1
        /\ \E gone \in SUBSET Under(p) :
             Sunken(ws, gone) /\ ws' = Drop(ws, gone) /\ LoseTemps(gone)
        /\ pc' = [pc EXCEPT ![c] = "idle"]
        /\ result' = [result EXCEPT ![c] = "failed"]
        /\ todo' = [todo EXCEPT ![c] = {}]
        /\ UNCHANGED <<agentVars, sess, copying, clash, landed>>
  BY DEF FailTombstone, NextTomb, Goto
<1>2. PICK gone \in SUBSET Path :
        Sunken(ws, gone) /\ ws' = Drop(ws, gone) /\ LoseTemps(gone)
  BY <1>1 DEF Under
<1>3. IsTree(ws') /\ Sheltered(c)
  BY <1>2, Removal
<1>4. copying[c] = {} /\ faults' \in 0..MaxFaults
  BY <1>1, VFSAssumption DEF Inv, Temps, TypeOK, ProcTypeOK
<1>5. ProcTypeOK'
  BY <1>1, <1>2 DEF Inv, TypeOK, ProcTypeOK, LoseTemps
<1>6. QED
  BY <1>1, <1>2, <1>3, <1>4, <1>5 DEF CommitFrame, LoseTemps, Inv, TypeOK, ProcTypeOK, agentVars

\* The steps that only return: refusals, missed entries, faults, success.
LEMMA LeaveFrame ==
  ASSUME Inv, NEW c \in Proc,
         RefuseTombstone(c) \/ RefuseEntry(c) \/ MissEntry(c) \/ EndTeardown(c) \/ Fail(c)
  PROVE  CommitFrame(c)
<1>1. PICK r \in {"ok", "refused", "failed"} :
        Return(c, r) /\ UNCHANGED <<ws, agentVars, landed>>
  BY DEF RefuseTombstone, RefuseEntry, MissEntry, EndTeardown, Fail
<1>2. faults' \in 0..MaxFaults
  BY VFSAssumption DEF RefuseTombstone, RefuseEntry, MissEntry, EndTeardown, Fail, Inv, TypeOK
<1>3. Sheltered(c)
  BY <1>1, Shelter DEF Return, Inv, TypeOK, ProcTypeOK
<1>4. QED
  BY <1>1, <1>2, <1>3, ReturnFrame DEF Inv, TypeOK

LEMMA EndWalkFrame ==
  ASSUME Inv, NEW c \in Proc, EndWalk(c)
  PROVE  CommitFrame(c)
<1>1. Sheltered(c)
  BY Shelter DEF EndWalk
<1>2. copying[c] = {}
  BY DEF EndWalk, Inv, Temps, TypeOK, ProcTypeOK
<1>3. QED
  BY <1>1, <1>2 DEF EndWalk, Goto, CommitFrame, Inv, TypeOK, ProcTypeOK, Phases, agentVars

\* The removal of the shadow touches only the overlay of a landed session.
LEMMA TeardownStep ==
  ASSUME Inv, NEW c \in Proc, RemoveShadowEntry(c)
  PROVE  Inv'
<1>0. PICK s \in Session : s = sess[c]
  BY DEF Inv, TypeOK, ProcTypeOK
<1>1. landed[s] /\ AgentTypeOK
  BY <1>0 DEF RemoveShadowEntry, Inv, TypeOK, Phases
<1>2. /\ UNCHANGED <<ws, live, delta, procVars, faults, landed>>
      /\ \/ /\ UNCHANGED shadow
            /\ tomb' \in [Session -> SUBSET Path]
            /\ \A r \in Session \ {s} : tomb'[r] = tomb[r]
            /\ tomb'[s] \subseteq tomb[s]
         \/ /\ UNCHANGED tomb
            /\ \E p \in Path :
                 /\ shadow' = [shadow EXCEPT ![s] = Drop(shadow[s], {p})]
                 /\ \A q \in Path : p \in Up[q] => shadow[s][q] = Absent
  BY <1>0, <1>1 DEF RemoveShadowEntry, AgentTypeOK
<1>3. /\ AgentTypeOK'
      /\ \A r \in Session \ {s} : shadow'[r] = shadow[r] /\ tomb'[r] = tomb[r]
      /\ \A p \in Path : shadow'[s][p] \in {shadow[s][p], Absent}
      /\ tomb'[s] \subseteq tomb[s]
  <2>1. CASE UNCHANGED shadow
    BY <1>1, <1>2, <2>1 DEF AgentTypeOK
  <2>2. ASSUME NEW p \in Path, UNCHANGED tomb,
               shadow' = [shadow EXCEPT ![s] = Drop(shadow[s], {p})],
               \A q \in Path : p \in Up[q] => shadow[s][q] = Absent
        PROVE  /\ AgentTypeOK'
               /\ \A r \in Session \ {s} : shadow'[r] = shadow[r] /\ tomb'[r] = tomb[r]
               /\ \A q \in Path : shadow'[s][q] \in {shadow[s][q], Absent}
               /\ tomb'[s] \subseteq tomb[s]
    <3>1. IsTree(Drop(shadow[s], {p}))
      BY <1>1, <2>2, DropTree DEF Sunken, AgentTypeOK
    <3>2. QED
      BY <1>1, <1>2, <2>2, <3>1 DEF AgentTypeOK, IsTree, Drop
  <2>3. QED
    BY <1>2, <2>1, <2>2
<1>4. \A r \in Session : Marked(r)' /\ (~landed'[r] => Recorded(r)')
  <2>1. Marked(s)'
    BY <1>2, <1>3, NodeAssumption DEF Inv, Marked, Covered, File
  <2>2. \A r \in Session \ {s} : (Recorded(r)' <=> Recorded(r)) /\ (Marked(r)' <=> Marked(r))
    BY <1>2, <1>3 DEF Recorded, Marked, Pending, Covered
  <2>3. QED
    BY <1>1, <1>2, <2>1, <2>2 DEF Inv
<1>5. QED
  BY <1>2, <1>3, <1>4 DEF Inv, TypeOK, ProcTypeOK, procVars, Phases, Temps

-----------------------------------------------------------------------------
LEMMA InitInv == Init => Inv
<1> SUFFICES ASSUME Init PROVE Inv
  OBVIOUS
<1>1. IsTree(Empty)
  BY DEF IsTree, Empty, Node
<1>2. TypeOK
  BY <1>1, VFSAssumption
     DEF Init, TypeOK, AgentTypeOK, ProcTypeOK, Empty, Node
<1>3. \A s \in Session : Marked(s) /\ Recorded(s)
  BY NodeAssumption, UpAssumption
     DEF Init, Marked, Recorded, Pending, Covered, Blocked, Empty
<1>4. QED
  BY <1>2, <1>3 DEF Inv, Init, Phases, Temps

LEMMA NextInv == Inv /\ [Next]_vars => Inv'
<1> SUFFICES ASSUME Inv, [Next]_vars PROVE Inv'
  OBVIOUS
<1>1. ASSUME NEW s \in Session, Agent(s)
      PROVE  Inv'
  BY <1>1, AgentStep
<1>2. ASSUME NEW c \in Proc, Step(c) \/ Fault(c)
      PROVE  Inv'
  BY <1>2, FrameInv, TeardownStep, ApplyTombstoneFrame, MissTombstoneFrame,
     EndTombstonesFrame, VisitDirectoryFrame, CopyToTempFrame, PlaceFileFrame,
     MissPlaceFrame, FailPlaceFrame, FailTombstoneFrame, LeaveFrame, EndWalkFrame
     DEF Step, Fault
<1>3. ASSUME NEW c \in Proc, NEW s \in Session, StartCommit(c, s)
      PROVE  Inv'
  BY <1>3, StartFrame, FrameInv
<1>4. CASE UNCHANGED vars
  BY <1>4 DEF vars, agentVars, procVars, Inv, TypeOK, AgentTypeOK, ProcTypeOK,
              Marked, Recorded, Pending, Covered, Phases, Temps
<1>5. QED
  BY <1>1, <1>2, <1>3, <1>4 DEF Next

THEOREM Invariance == Spec => []Inv
BY InitInv, NextInv, PTL DEF Spec

\* Workspace and shadows are trees at every step of every run and commit.
THEOREM TypeCorrect == Spec => []TypeOK
<1>1. Inv => TypeOK
  BY DEF Inv
<1>2. QED
  BY <1>1, Invariance, PTL

\* Every session reads its own changes until it lands, with any number of
\* sessions and commits around it.
THEOREM ReadsItsWrites == Spec => []ReadYourWrites
<1>1. Inv => ReadYourWrites
  BY ReadsPending DEF Inv, ReadYourWrites, Recorded
<1>2. QED
  BY <1>1, Invariance, PTL

-----------------------------------------------------------------------------
\* A file the step changes belongs to a change some commit promotes, and goes
\* away or becomes what the session wrote there.
Promoting ==
  \A p \in Path : FileAt(ws, p)' # FileAt(ws, p) =>
    \E c \in Proc : /\ pc[c] \in {"tombs", "place"}
                    /\ delta[sess[c]][p] # Keep
                    /\ FileAt(ws, p)' \in {Absent, delta[sess[c]][p]}

\* A tombstone hides only paths the session changed (applyTombstones).
LEMMA TombstoneChanges ==
  ASSUME Inv, NEW c \in Proc, ApplyTombstone(c) \/ FailTombstone(c)
  PROVE  Promoting
<1>1. PICK p \in Path, gone \in SUBSET Path :
        /\ pc[c] = "tombs" /\ p \in tomb[sess[c]]
        /\ gone \subseteq Under(p) /\ ws' = Drop(ws, gone)
  <2>1. \A p \in Path : Under(p) \in SUBSET Path
    BY DEF Under
  <2>2. QED
    BY <2>1 DEF ApplyTombstone, FailTombstone, NextTomb
<1>2. SUFFICES ASSUME NEW q \in Path, FileAt(ws, q)' # FileAt(ws, q)
               PROVE  delta[sess[c]][q] # Keep /\ FileAt(ws, q)' = Absent
  BY <1>1 DEF Promoting
<1>3. q \in gone
  BY <1>1, <1>2 DEF FileAt, Drop
<1>4. Covered(sess[c], q) /\ sess[c] \in Session
  BY <1>1, <1>3 DEF Covered, Inv, TypeOK, ProcTypeOK
<1>5. QED
  BY <1>1, <1>3, <1>4, NodeAssumption DEF FileAt, Drop, Inv, Marked, Node

\* The rename, or the removal before it, touches the target alone (replaceFile).
LEMMA PlaceChanges ==
  ASSUME Inv, NEW c \in Proc, PlaceFile(c) \/ MissPlace(c) \/ FailPlace(c)
  PROVE  Promoting
<1>1. PICK p \in copying[c] :
        /\ pc[c] = "place"
        /\ \/ ws' = [ws EXCEPT ![p] = tmp[c]] /\ tmp[c] # Absent
           \/ ws' = [ws EXCEPT ![p] = Absent]
           \/ UNCHANGED ws
  BY DEF PlaceFile, MissPlace, FailPlace
<1>2. p \in Path /\ ws \in [Path -> Node] /\ tmp[c] \in File \cup {Absent}
  BY <1>1 DEF Inv, TypeOK, ProcTypeOK, IsTree
<1>3. delta[sess[c]][p] # Keep /\ (tmp[c] # Absent => tmp[c] = delta[sess[c]][p])
  BY <1>1 DEF Inv, Temps
<1>4. \A q \in Path : FileAt(ws, q)' # FileAt(ws, q) =>
        q = p /\ FileAt(ws, q)' \in {Absent, delta[sess[c]][p]}
  BY <1>1, <1>2, <1>3 DEF FileAt
<1>5. QED
  BY <1>1, <1>3, <1>4 DEF Promoting

\* Creating directories changes no file (ensureTargetDirectory, os.MkdirAll).
LEMMA DirectoryChanges ==
  ASSUME Inv, NEW c \in Proc, VisitDirectory(c) \/ CopyToTemp(c)
  PROVE  Promoting
<1>1. Files(ws') = Files(ws)
  BY VisitDirectoryFrame, CopyToTempFrame
<1>2. QED
  BY <1>1 DEF Files, Promoting

LEMMA StepPromotes == Inv /\ [Next]_vars => [Promoting]_vars
<1> SUFFICES ASSUME Inv, Next PROVE Promoting
  OBVIOUS
<1>1. CASE UNCHANGED ws
  BY <1>1 DEF Promoting
<1>2. ASSUME NEW s \in Session, Agent(s)
      PROVE  UNCHANGED ws
  BY <1>2, AgentOwn DEF Inv, TypeOK
<1>3. ASSUME NEW c \in Proc, Step(c) \/ Fault(c)
      PROVE  UNCHANGED ws \/ Promoting
  <2>1. CASE \/ RefuseTombstone(c) \/ MissTombstone(c) \/ EndTombstones(c)
             \/ RefuseEntry(c) \/ MissEntry(c) \/ EndWalk(c)
             \/ RemoveShadowEntry(c) \/ EndTeardown(c) \/ Fail(c)
    BY <2>1 DEF RefuseTombstone, MissTombstone, EndTombstones, RefuseEntry, MissEntry,
                EndWalk, RemoveShadowEntry, EndTeardown, Fail
  <2>2. QED
    BY <1>3, <2>1, TombstoneChanges, PlaceChanges, DirectoryChanges DEF Step, Fault
<1>4. ASSUME NEW c \in Proc, NEW s \in Session, StartCommit(c, s)
      PROVE  UNCHANGED ws
  BY <1>4 DEF StartCommit
<1>5. QED
  BY <1>1, <1>2, <1>3, <1>4 DEF Next

\* Every change to a file of the workspace is a change of a finished session
\* that some commit is promoting, with any number of sessions, commits and
\* failures (applyTombstones, copyFileIntoWorkspace, replaceFile).
THEOREM ChangesOnlyPromoted == Spec => OnlyPromotedChanges
<1>1. Spec => [][Promoting]_vars
  BY Invariance, StepPromotes, PTL DEF Spec
<1>2. QED
  BY <1>1 DEF OnlyPromotedChanges, Promoting
=============================================================================
