-------------------------- MODULE Gateway_proofs --------------------------
(***************************************************************************)
(* Proofs about Gateway: the variables keep their types and the invariants *)
(* and the action properties OnlyConsentedChanges and ShownAndOwn hold for *)
(* any sessions, commit processes, paths, skills and number of faults.     *)
(***************************************************************************)
EXTENDS Gateway, TLAPS

\* A session that has started has a job, and runs it under a policy; the
\* server and verification never choose one.
JobRecord == JobType \ {NoJob}
Chosen ==
  \A s \in Session :
    /\ phase[s] # "fresh" => job[s] \in JobRecord
    /\ phase[s] \notin {"fresh", "rejected"} =>
         /\ job[s].policy \in Policy
         /\ job[s].cmd # "run" => job[s].policy = "refuse"
    /\ phase[s] \in {"provisioned", "admitted", "running"} => Admissible(job[s])
    /\ phase[s] = "running" => Consented(job[s])

\* The directory is there while a session needs it, and a receipt comes after
\* it; without a directory there are no files.
Provided ==
  \A s \in Session :
    /\ phase[s] \in {"fresh", "compiling", "rejected"} => ~dir[s]
    /\ phase[s] \in {"provisioned", "admitted", "running"} => dir[s]
    /\ phase[s] \in {"fresh", "compiling", "provisioned", "rejected"} => ~receipt[s]
    /\ ~dir[s] => shadow[s] = Empty

\* A file in a shadow is what a step of a consented job wrote.
WrittenBy(s, p, text) ==
  /\ Consented(job[s])
  /\ \E i \in 1 .. Len(Steps(s)) :
       /\ i <= next[s]
       /\ Steps(s)[i].kind = "write" /\ Steps(s)[i].path = p
       /\ text \in {Steps(s)[i].text, Torn}
Owned ==
  \A s \in Session : \A p \in Path : shadow[s][p] # Absent => WrittenBy(s, p, shadow[s][p])

\* A running session's shadow has what its steps wrote; afterwards the report
\* has, and what it lists is in the shadow or was copied, or a call has failed
\* and the report is empty.
Wrote(s) == {Steps(s)[i].path : i \in {j \in 1 .. (next[s] - 1) : Steps(s)[j].kind = "write"}}
ReportedAt(s) ==
  /\ phase[s] \in {"fresh", "compiling", "provisioned", "admitted"} => next[s] = 1
  /\ phase[s] = "running" => Wrote(s) \subseteq Held(shadow[s])
  /\ phase[s] \in {"done", "aborted"} =>
       \/ /\ Held(shadow[s]) \subseteq manifest[s]
          /\ manifest[s] \subseteq Held(shadow[s]) \cup placed[s]
          /\ Wrote(s) \subseteq manifest[s]
       \/ manifest[s] = {} /\ faults > 0
Reported == \A s \in Session : ReportedAt(s)

\* A commit works on a session that is over; what it printed is in the shadow
\* or was copied, and so is what it has not copied yet, all of which it printed.
CopiedAt(c, s) ==
  /\ pc[c] # "idle" => phase[s] \in Ended /\ receipt[s] /\ outcome[c] = "none"
  /\ pc[c] \in {"previewed", "copying", "removing"} =>
       printed[c] \subseteq Held(shadow[s]) \cup placed[s]
  /\ pc[c] = "previewed" => Held(shadow[s]) \subseteq printed[c]
  /\ pc[c] = "copying" =>
       /\ Held(shadow[s]) \subseteq left[c] \cup placed[s]
       /\ left[c] \subseteq printed[c]
  /\ pc[c] = "removing" => Held(shadow[s]) \subseteq placed[s]
  /\ outcome[c] = "promoted" => printed[c] \subseteq placed[s]
Copied == \A c \in Proc : CopiedAt(c, target[c])

Inv == TypeOK /\ Chosen /\ Provided /\ Owned /\ Reported /\ Copied

-----------------------------------------------------------------------------
(* Types.                                                                  *)

\* The files of a tree are paths.
LEMMA HeldPaths == \A t : Held(t) \in SUBSET Path
  BY DEF Held

\* An injected failure stays within the bound.
LEMMA FaultStep == ASSUME faults \in 0 .. MaxFaults, Faulty PROVE faults' \in 0 .. MaxFaults
<1>1. MaxFaults \in Nat
  BY GatewayAssumption
<1> QED
  BY <1>1 DEF Faulty

\* The report of a run that stops is what it leaves, or nothing after a failure.
LEMMA Reporting ==
  ASSUME TypeOK, NEW s \in Session, NEW failed \in 0 .. MaxFaults, safeManifest(s, failed)
  PROVE  /\ manifest' \in [Session -> SUBSET Path]
         /\ faults' \in 0 .. MaxFaults /\ failed <= faults'
         /\ \A r \in Session \ {s} : manifest'[r] = manifest[r]
         /\ \/ manifest'[s] = Held(shadow'[s])
            \/ manifest'[s] = {} /\ faults' > 0
<1>1. MaxFaults \in Nat
  BY GatewayAssumption
<1>2. manifest \in [Session -> SUBSET Path]
  BY DEF TypeOK
<1>3. /\ faults' \in 0 .. MaxFaults /\ failed <= faults'
      /\ \/ manifest' = [manifest EXCEPT ![s] = Held(shadow'[s])]
         \/ manifest' = [manifest EXCEPT ![s] = {}] /\ faults' > 0
  BY <1>1 DEF safeManifest
<1> QED
  BY <1>2, <1>3, HeldPaths

\* The next failure is within the bound.
LEMMA NextFault == ASSUME TypeOK, faults < MaxFaults PROVE faults + 1 \in 0 .. MaxFaults
<1>1. MaxFaults \in Nat
  BY GatewayAssumption
<1>2. faults \in 0 .. MaxFaults
  BY DEF TypeOK
<1> QED
  BY <1>1, <1>2

\* A session in motion has a skill, and its current step is one.
LEMMA CurrentStep ==
  ASSUME TypeOK, Chosen, NEW s \in Session, Ready(s)
  PROVE  /\ Steps(s) \in Seq(Step)
         /\ next[s] \in 1 .. Len(Steps(s))
         /\ Current(s).path \in Path
         /\ Current(s).text \in File
<1>1. job[s] \in JobRecord
  BY DEF Ready, Chosen
<1>2. job[s].skill \in Skill
  BY <1>1 DEF JobRecord, JobType, NoJob
<1>3. Steps(s) \in Seq(Step)
  BY <1>2, GatewayAssumption DEF Steps, SkillType
<1>4. next[s] \in Nat \ {0} /\ next[s] <= Len(Steps(s))
  BY DEF TypeOK, Ready
<1>5. next[s] \in 1 .. Len(Steps(s))
  BY <1>3, <1>4
<1>6. Current(s) \in Step
  BY <1>3, <1>5 DEF Current
<1> QED
  BY <1>3, <1>5, <1>6 DEF Step, File

\* What the operator, or the environment, may ask for.
LEMMA Resolved ==
  ASSUME env \in Env, NEW f \in Flag, NEW a \in BOOLEAN
  PROVE  resolveDraftPolicy(f, a) \in Policy \cup {"bogus"}
<1>1. Flag \subseteq Policy \cup {"", "bogus"} /\ Env \subseteq Policy \cup {"", "bogus"}
  BY GatewayAssumption
<1> QED
  BY <1>1 DEF resolveDraftPolicy, Policy

\* What commands and calls put together is a job.
LEMMA JobOf ==
  ASSUME NEW cmd \in Command, NEW k \in Skill, NEW i \in Input,
         NEW p \in Policy \cup {"bogus"}
  PROVE  [cmd |-> cmd, skill |-> k, input |-> i, policy |-> p] \in JobRecord
<1>1. i \in {"full", "partial", "bad"}
  BY GatewayAssumption
<1>2. cmd # "none"
  BY DEF Command
<1> QED
  BY <1>1, <1>2 DEF JobRecord, JobType, NoJob

\* Every step keeps the types.
LEMMA TypeStep == ASSUME TypeOK, Chosen, [Next]_vars PROVE TypeOK'
<1> USE DEF vars, sessVars, procVars
<1>phase. phase \in [Session -> Phases]
  BY DEF TypeOK
<1>next. next \in [Session -> Nat \ {0}]
  BY DEF TypeOK
<1>shadow. shadow \in [Session -> [Path -> File \cup {Absent}]]
  BY DEF TypeOK
<1>manifest. manifest \in [Session -> SUBSET Path]
  BY DEF TypeOK
<1>faults. faults \in 0 .. MaxFaults
  BY DEF TypeOK
<1>ws. ws \in [Path -> File \cup {Absent}]
  BY DEF TypeOK
<1>pc. pc \in [Proc -> {"idle", "loaded", "previewed", "copying", "removing"}]
  BY DEF TypeOK
<1>outcome. outcome \in [Proc -> {"none", "not found", "dry-run", "promoted", "failed"}]
  BY DEF TypeOK
<1>left. left \in [Proc -> SUBSET Path]
  BY DEF TypeOK
<1>placed. placed \in [Session -> SUBSET Path]
  BY DEF TypeOK
<1>target. target \in [Proc -> Session]
  BY DEF TypeOK
<1>1. ASSUME NEW s \in Session, Reject(s) PROVE TypeOK'
  <2>1. "rejected" \in Phases
    BY  DEF Phases, Busy, Ended
  <2>2. phase' \in [Session -> Phases]
    BY <1>1, <2>1, <1>phase DEF Reject, Goto
  <2> QED
    BY <1>1, <2>1, <2>2 DEF TypeOK, Reject
<1>2. ASSUME NEW s \in Session, Provision(s) PROVE TypeOK'
  <2>1. "provisioned" \in Phases
    BY  DEF Phases, Busy, Ended
  <2>2. phase' \in [Session -> Phases]
    BY <1>2, <2>1, <1>phase DEF Provision, Goto
  <2>3. Empty \in [Path -> File \cup {Absent}]
    BY  DEF Empty
  <2>4. shadow' \in [Session -> [Path -> File \cup {Absent}]]
    BY <1>2, <1>shadow, <2>3 DEF Provision
  <2> QED
    BY <1>2, <2>1, <2>2, <2>3, <2>4 DEF TypeOK, Provision
<1>3. ASSUME NEW s \in Session, WriteReceipt(s) PROVE TypeOK'
  <2>1. "verified" \in Phases /\ "admitted" \in Phases
    BY  DEF Phases, Busy, Ended
  <2>2. phase' \in [Session -> Phases]
    BY <1>3, <2>1, <1>phase DEF WriteReceipt, Goto
  <2> QED
    BY <1>3, <2>1, <2>2 DEF TypeOK, WriteReceipt
<1>4. ASSUME NEW s \in Session, Gate(s) PROVE TypeOK'
  <2>1. "running" \in Phases /\ "refused" \in Phases
    BY  DEF Phases, Busy, Ended
  <2>2. phase' \in [Session -> Phases]
    BY <1>4, <2>1, <1>phase DEF Gate, Goto
  <2> QED
    BY <1>4, <2>1, <2>2 DEF TypeOK, Gate
<1>5. ASSUME NEW s \in Session, ReadStep(s) PROVE TypeOK'
  <2>1. "aborted" \in Phases
    BY  DEF Phases, Busy, Ended
  <2>2. phase' \in [Session -> Phases]
    BY <1>5, <2>1, <1>phase DEF ReadStep, Goto, Abort, Advance
  <2>3. next' \in [Session -> Nat \ {0}]
    BY <1>5, <1>next DEF ReadStep, Advance
  <2>4. manifest' \in [Session -> SUBSET Path] /\ faults' \in 0 .. MaxFaults
    BY <1>5, <1>manifest, <1>faults, Reporting DEF ReadStep, Abort, Advance
  <2> QED
    BY <1>5, <2>1, <2>2, <2>3, <2>4 DEF TypeOK, ReadStep
<1>6. ASSUME NEW s \in Session, WriteStep(s) PROVE TypeOK'
  <2>1. Current(s).path \in Path /\ Current(s).text \in File
    BY <1>6, CurrentStep DEF WriteStep
  <2>2. next' \in [Session -> Nat \ {0}]
    BY <1>6, <1>next DEF WriteStep, Advance
  <2>3. shadow' \in [Session -> [Path -> File \cup {Absent}]]
    BY <1>6, <1>shadow, <2>1 DEF WriteStep
  <2> QED
    BY <1>6, <2>1, <2>2, <2>3 DEF TypeOK, WriteStep, Advance
<1>7. ASSUME NEW s \in Session, SubstituteStep(s) PROVE TypeOK'
  <2>1. "aborted" \in Phases
    BY  DEF Phases, Busy, Ended
  <2>2. phase' \in [Session -> Phases]
    BY <1>7, <2>1, <1>phase DEF SubstituteStep, Goto, Abort
  <2>3. manifest' \in [Session -> SUBSET Path] /\ faults' \in 0 .. MaxFaults
    BY <1>7, <1>faults, Reporting DEF SubstituteStep, Abort
  <2> QED
    BY <1>7, <2>1, <2>2, <2>3 DEF TypeOK, SubstituteStep
<1>8. ASSUME NEW s \in Session, Finish(s) PROVE TypeOK'
  <2>1. "done" \in Phases
    BY  DEF Phases, Busy, Ended
  <2>2. phase' \in [Session -> Phases]
    BY <1>8, <2>1, <1>phase DEF Finish, Goto
  <2>3. manifest' \in [Session -> SUBSET Path] /\ faults' \in 0 .. MaxFaults
    BY <1>8, <1>faults, Reporting DEF Finish
  <2> QED
    BY <1>8, <2>1, <2>2, <2>3 DEF TypeOK, Finish
<1>9. ASSUME NEW s \in Session, FailReceipt(s) PROVE TypeOK'
  <2>1. "rejected" \in Phases
    BY  DEF Phases, Busy, Ended
  <2>2. phase' \in [Session -> Phases]
    BY <1>9, <2>1, <1>phase DEF FailReceipt, Goto
  <2>3. Empty \in [Path -> File \cup {Absent}]
    BY  DEF Empty
  <2>4. shadow' \in [Session -> [Path -> File \cup {Absent}]]
    BY <1>9, <1>shadow, <2>3 DEF FailReceipt
  <2>5. faults' \in 0 .. MaxFaults
    BY <1>9, <1>faults, FaultStep DEF FailReceipt
  <2> QED
    BY <1>9, <2>1, <2>2, <2>3, <2>4, <2>5 DEF TypeOK, FailReceipt
<1>10. ASSUME NEW s \in Session, FailStep(s) PROVE TypeOK'
  <2>1. "aborted" \in Phases
    BY  DEF Phases, Busy, Ended
  <2>2. phase' \in [Session -> Phases]
    BY <1>10, <2>1, <1>phase DEF FailStep, Goto, Abort
  <2>3. manifest' \in [Session -> SUBSET Path] /\ faults' \in 0 .. MaxFaults
    BY <1>10, NextFault, Reporting DEF FailStep, Abort
  <2>4. Current(s).path \in Path /\ Torn \in File
    BY <1>10, CurrentStep DEF FailStep, File
  <2>5. shadow' \in [Session -> [Path -> File \cup {Absent}]]
    BY <1>10, <1>shadow, <2>4 DEF FailStep
  <2> QED
    BY <1>10, <2>1, <2>2, <2>3, <2>4, <2>5 DEF TypeOK, FailStep
<1>11. ASSUME NEW s \in Session, Die(s) PROVE TypeOK'
  <2>1. "dead" \in Phases
    BY  DEF Phases, Busy, Ended
  <2>2. phase' \in [Session -> Phases]
    BY <1>11, <2>1, <1>phase DEF Die, Goto
  <2>3. faults' \in 0 .. MaxFaults
    BY <1>11, <1>faults, FaultStep DEF Die
  <2> QED
    BY <1>11, <2>1, <2>2, <2>3 DEF TypeOK, Die
<1>job. job \in [Session -> JobType] /\ JobRecord \subseteq JobType
  BY DEF TypeOK, JobRecord
<1>env. env \in Env
  BY DEF TypeOK
<1>12. ASSUME NEW s \in Session, StartVerify(s) PROVE TypeOK'
  <2>1. "compiling" \in Phases /\ "rejected" \in Phases
    BY  DEF Phases, Busy, Ended
  <2>2. phase' \in [Session -> Phases]
    BY <1>12, <2>1, <1>phase DEF StartVerify, Goto
  <2>3. "verify" \in Command /\ "refuse" \in Policy
    BY  DEF Command, Policy
  <2>4. job' \in [Session -> JobType]
    BY <1>12, <2>3, <1>job, JobOf DEF StartVerify, Begin
  <2>5. UNCHANGED <<ws, env, next, dir, shadow, receipt, manifest, gated, server,
                procVars, faults, placed>>
    BY <1>12 DEF StartVerify, Begin
  <2> QED
    BY <2>1, <2>2, <2>3, <2>4, <2>5 DEF TypeOK
<1>13. ASSUME NEW s \in Session, StartRun(s) PROVE TypeOK'
  <2>1. "compiling" \in Phases /\ "rejected" \in Phases
    BY  DEF Phases, Busy, Ended
  <2>2. phase' \in [Session -> Phases]
    BY <1>13, <2>1, <1>phase DEF StartRun, Goto
  <2>3. "run" \in Command /\ "refuse" \in Policy
    BY  DEF Command, Policy
  <2>4. job' \in [Session -> JobType]
    BY <1>13, <2>3, <1>job, JobOf, <1>env, Resolved DEF StartRun, Begin
  <2>5. UNCHANGED <<ws, env, next, dir, shadow, receipt, manifest, gated, server,
                procVars, faults, placed>>
    BY <1>13 DEF StartRun, Begin
  <2> QED
    BY <2>1, <2>2, <2>3, <2>4, <2>5 DEF TypeOK
<1>14. ASSUME NEW s \in Session, StartCall(s) PROVE TypeOK'
  <2>1. "compiling" \in Phases /\ "rejected" \in Phases
    BY  DEF Phases, Busy, Ended
  <2>2. phase' \in [Session -> Phases]
    BY <1>14, <2>1, <1>phase DEF StartCall, Goto
  <2>3. "call" \in Command /\ "refuse" \in Policy
    BY  DEF Command, Policy
  <2>4. job' \in [Session -> JobType]
    BY <1>14, <2>3, <1>job, JobOf DEF StartCall, Begin
  <2>5. UNCHANGED <<ws, env, next, dir, shadow, receipt, manifest, gated, server,
                procVars, faults, placed>>
    BY <1>14 DEF StartCall, Begin
  <2> QED
    BY <2>1, <2>2, <2>3, <2>4, <2>5 DEF TypeOK
<1>15. CASE BeginShutdown
  BY <1>15 DEF TypeOK, BeginShutdown
<1>16. CASE EndShutdown
  BY <1>16 DEF TypeOK, EndShutdown
<1>17. CASE KillServer
  <2>1. "dead" \in Phases
    BY  DEF Phases, Busy, Ended
  <2>2. phase' \in [Session -> Phases]
    BY <1>17, <2>1, <1>phase DEF KillServer
  <2>3. faults' \in 0 .. MaxFaults
    BY <1>17, <1>faults, FaultStep DEF KillServer
  <2> QED
    BY <1>17, <2>1, <2>2, <2>3 DEF TypeOK, KillServer
<1>18. ASSUME NEW c \in Proc, Preview(c) PROVE TypeOK'
  <2>1. printed' \in [Proc -> SUBSET Path]
    BY <1>18, HeldPaths DEF Preview, TypeOK
  <2> QED
    BY <1>18, <2>1 DEF TypeOK, Preview
<1>19. ASSUME NEW c \in Proc, DryRun(c) PROVE TypeOK'
  BY <1>19 DEF TypeOK, DryRun, Leave
<1>20. ASSUME NEW c \in Proc, Promote(c) PROVE TypeOK'
  <2>1. pc' \in [Proc -> {"idle", "loaded", "previewed", "copying", "removing"}]
    BY <1>20, <1>pc DEF Promote, Leave
  <2>2. left' \in [Proc -> SUBSET Path]
    BY <1>20, <1>left, HeldPaths DEF Promote
  <2>3. outcome' \in [Proc -> {"none", "not found", "dry-run", "promoted", "failed"}]
    BY <1>20, <1>outcome DEF Promote, Leave
  <2> QED
    BY <1>20, <2>1, <2>2, <2>3 DEF TypeOK, Promote
<1>21. ASSUME NEW c \in Proc, CopyFile(c) PROVE TypeOK'
  <2>1. ws' \in [Path -> File \cup {Absent}]
    BY <1>21, <1>ws, <1>shadow, <1>left, <1>target DEF CopyFile
  <2>2. placed' \in [Session -> SUBSET Path]
    BY <1>21, <1>placed, <1>left, <1>target DEF CopyFile
  <2>3. left' \in [Proc -> SUBSET Path]
    BY <1>21, <1>left DEF CopyFile
  <2>4. UNCHANGED <<env, sessVars, server, pc, target, printed, outcome, faults>>
    BY <1>21 DEF CopyFile
  <2> QED
    BY <2>1, <2>2, <2>3, <2>4 DEF TypeOK
<1>22. ASSUME NEW c \in Proc, MissFile(c) PROVE TypeOK'
  BY <1>22 DEF TypeOK, MissFile, Leave
<1>23. ASSUME NEW c \in Proc, EndCopy(c) PROVE TypeOK'
  BY <1>23 DEF TypeOK, EndCopy
<1>24. ASSUME NEW c \in Proc, RemoveFile(c) PROVE TypeOK'
  <2>1. shadow' \in [Session -> [Path -> File \cup {Absent}]]
    BY <1>24, <1>shadow, <1>target DEF RemoveFile
  <2> QED
    BY <1>24, <2>1 DEF TypeOK, RemoveFile
<1>25. ASSUME NEW c \in Proc, EndRemove(c) PROVE TypeOK'
  BY <1>25 DEF TypeOK, EndRemove, Leave
<1>26. ASSUME NEW c \in Proc, FailCommit(c) PROVE TypeOK'
  <2>1. faults' \in 0 .. MaxFaults
    BY <1>26, <1>faults, FaultStep DEF FailCommit
  <2> QED
    BY <1>26, <2>1 DEF TypeOK, FailCommit, Leave
<1>27. ASSUME NEW c \in Proc, NEW s \in Session, LoadReceipt(c, s) PROVE TypeOK'
  BY <1>27 DEF TypeOK, LoadReceipt, Leave
<1>28. CASE UNCHANGED vars
  BY <1>28 DEF TypeOK
<1> QED
  BY <1>1, <1>2, <1>3, <1>4, <1>5, <1>6, <1>7, <1>8, <1>9, <1>10, <1>11,
     <1>12, <1>13, <1>14, <1>15, <1>16, <1>17, <1>18, <1>19, <1>20, <1>21,
     <1>22, <1>23, <1>24, <1>25, <1>26, <1>27, <1>28 DEF Next, Start,
     Progress, Commit

-----------------------------------------------------------------------------
(* Jobs and policies.                                                      *)

\* Every step keeps the jobs and the policies that Execute relies on.
LEMMA ChosenStep == ASSUME TypeOK, Chosen, [Next]_vars PROVE Chosen'
<1> USE DEF vars, sessVars, procVars
<1>phase. phase \in [Session -> Phases]
  BY DEF TypeOK
<1>job. job \in [Session -> JobType]
  BY DEF TypeOK
<1>env. env \in Env
  BY DEF TypeOK
<1>1. ASSUME NEW s \in Session, Reject(s) PROVE Chosen'
  BY <1>1, <1>phase, <1>job DEF Chosen, Reject, Goto
<1>2. ASSUME NEW s \in Session, Provision(s) PROVE Chosen'
  BY <1>2, <1>phase, <1>job DEF Chosen, Provision, Goto
<1>3. ASSUME NEW s \in Session, WriteReceipt(s) PROVE Chosen'
  BY <1>3, <1>phase, <1>job DEF Chosen, WriteReceipt, Goto
<1>4. ASSUME NEW s \in Session, Gate(s) PROVE Chosen'
  <2>1. /\ phase[s] = "admitted" /\ job' = job
        /\ \/ phase'[s] = "running" /\ job[s].skill.v1 /\ enforceDraftPolicy(job[s])
           \/ phase'[s] = "refused"
        /\ \A r \in Session \ {s} : phase'[r] = phase[r]
    BY <1>4, <1>phase DEF Gate, Goto
  <2>2. /\ job[s].policy \in Policy /\ (job[s].cmd # "run" => job[s].policy = "refuse")
        /\ Admissible(job[s])
    BY <2>1 DEF Chosen
  <2>3. phase'[s] = "running" => Consented(job[s])
    BY <2>1, <2>2 DEF enforceDraftPolicy, Admissible, Consented, Policy
  <2> QED
    BY <2>1, <2>2, <2>3 DEF Chosen
<1>5. ASSUME NEW s \in Session, ReadStep(s) PROVE Chosen'
  <2>1. /\ phase'[s] \in {phase[s], "aborted"} /\ job' = job
        /\ \A r \in Session \ {s} : phase'[r] = phase[r]
        /\ phase[s] = "running"
    BY <1>5, <1>phase DEF ReadStep, Ready, Goto, Abort, Advance
  <2> QED
    BY <2>1 DEF Chosen
<1>6. ASSUME NEW s \in Session, WriteStep(s) PROVE Chosen'
  BY <1>6, <1>phase, <1>job DEF Chosen, WriteStep, Goto, Advance
<1>7. ASSUME NEW s \in Session, SubstituteStep(s) PROVE Chosen'
  <2>1. /\ phase'[s] = "aborted" /\ phase[s] = "running" /\ job' = job
        /\ \A r \in Session \ {s} : phase'[r] = phase[r]
    BY <1>7, <1>phase DEF SubstituteStep, Goto, Ready, Abort
  <2> QED
    BY <2>1 DEF Chosen
<1>8. ASSUME NEW s \in Session, Finish(s) PROVE Chosen'
  BY <1>8, <1>phase, <1>job DEF Chosen, Finish, Goto
<1>9. ASSUME NEW s \in Session, FailReceipt(s) PROVE Chosen'
  BY <1>9, <1>phase, <1>job DEF Chosen, FailReceipt, Goto
<1>10. ASSUME NEW s \in Session, FailStep(s) PROVE Chosen'
  <2>1. /\ phase'[s] = "aborted" /\ phase[s] = "running" /\ job' = job
        /\ \A r \in Session \ {s} : phase'[r] = phase[r]
    BY <1>10, <1>phase DEF FailStep, Goto, Ready, Abort
  <2> QED
    BY <2>1 DEF Chosen
<1>11. ASSUME NEW s \in Session, Die(s) PROVE Chosen'
  <2>1. /\ phase'[s] = "dead" /\ phase[s] # "fresh" /\ phase[s] # "rejected"
        /\ job' = job
        /\ \A r \in Session \ {s} : phase'[r] = phase[r]
    BY <1>11, <1>phase DEF Die, Goto, Busy
  <2> QED
    BY <2>1 DEF Chosen
<1>12. ASSUME NEW s \in Session, StartVerify(s) PROVE Chosen'
  <2>1. PICK k \in Skill, i \in Input \ {"partial"} :
          /\ Begin(s, [cmd |-> "verify", skill |-> k, input |-> i, policy |-> "refuse"])
          /\ Goto(s, "compiling")
    BY <1>12 DEF StartVerify
  <2> DEFINE j == [cmd |-> "verify", skill |-> k, input |-> i, policy |-> "refuse"]
  <2>2. j \in JobRecord
    BY JobOf DEF Command, Policy
  <2>3. /\ job'[s] = j /\ phase'[s] = "compiling"
        /\ \A r \in Session \ {s} : phase'[r] = phase[r] /\ job'[r] = job[r]
    BY <2>1, <1>phase, <1>job DEF Begin, Goto
  <2>4. /\ phase'[s] \in {"compiling", "rejected"}
        /\ phase'[s] = "compiling" => j.policy \in Policy
        /\ j.cmd # "run" => j.policy = "refuse"
    BY <2>3 DEF Policy
  <2> HIDE DEF j
  <2> QED
    BY <2>2, <2>3, <2>4 DEF Chosen
<1>13. ASSUME NEW s \in Session, StartRun(s) PROVE Chosen'
  <2>1. PICK k \in Skill, i \in Input, f \in Flag, a \in BOOLEAN :
          LET p == resolveDraftPolicy(f, a)
          IN /\ Begin(s, [cmd |-> "run", skill |-> k, input |-> i, policy |-> p])
             /\ Goto(s, IF k.v1 /\ p \in Policy THEN "compiling" ELSE "rejected")
    BY <1>13 DEF StartRun
  <2> DEFINE p == resolveDraftPolicy(f, a)
  <2> DEFINE j == [cmd |-> "run", skill |-> k, input |-> i, policy |-> p]
  <2>2. j \in JobRecord
    BY JobOf, Resolved, <1>env DEF Command
  <2>3. /\ job'[s] = j /\ phase'[s] = (IF k.v1 /\ p \in Policy THEN "compiling" ELSE "rejected")
        /\ \A r \in Session \ {s} : phase'[r] = phase[r] /\ job'[r] = job[r]
    BY <2>1, <1>phase, <1>job DEF Begin, Goto
  <2>4. /\ phase'[s] \in {"compiling", "rejected"}
        /\ phase'[s] = "compiling" => j.policy \in Policy
        /\ j.cmd # "run" => j.policy = "refuse"
    BY <2>3 DEF Policy
  <2> HIDE DEF j, p
  <2> QED
    BY <2>2, <2>3, <2>4 DEF Chosen
<1>14. ASSUME NEW s \in Session, StartCall(s) PROVE Chosen'
  <2>1. PICK k \in Skill, i \in Input :
          /\ Begin(s, [cmd |-> "call", skill |-> k, input |-> i, policy |-> "refuse"])
          /\ Goto(s, "compiling")
    BY <1>14 DEF StartCall
  <2> DEFINE j == [cmd |-> "call", skill |-> k, input |-> i, policy |-> "refuse"]
  <2>2. j \in JobRecord
    BY JobOf DEF Command, Policy
  <2>3. /\ job'[s] = j /\ phase'[s] = "compiling"
        /\ \A r \in Session \ {s} : phase'[r] = phase[r] /\ job'[r] = job[r]
    BY <2>1, <1>phase, <1>job DEF Begin, Goto
  <2>4. /\ phase'[s] \in {"compiling", "rejected"}
        /\ phase'[s] = "compiling" => j.policy \in Policy
        /\ j.cmd # "run" => j.policy = "refuse"
    BY <2>3 DEF Policy
  <2> HIDE DEF j
  <2> QED
    BY <2>2, <2>3, <2>4 DEF Chosen
<1>15. CASE BeginShutdown
  BY <1>15, <1>phase, <1>job DEF Chosen, BeginShutdown
<1>16. CASE EndShutdown
  BY <1>16, <1>phase, <1>job DEF Chosen, EndShutdown
<1>17. CASE KillServer
  <2>1. /\ \A r \in Session : phase'[r] = phase[r] \/ (phase[r] \in Busy /\ phase'[r] = "dead")
        /\ job' = job
    BY <1>17, <1>phase DEF KillServer, Calls
  <2> QED
    BY <2>1 DEF Chosen, Busy
<1>18. ASSUME NEW c \in Proc, Preview(c) PROVE Chosen'
  BY <1>18, <1>phase, <1>job DEF Chosen, Preview
<1>19. ASSUME NEW c \in Proc, DryRun(c) PROVE Chosen'
  BY <1>19, <1>phase, <1>job DEF Chosen, DryRun, Leave
<1>20. ASSUME NEW c \in Proc, Promote(c) PROVE Chosen'
  BY <1>20, <1>phase, <1>job DEF Chosen, Promote, Leave
<1>21. ASSUME NEW c \in Proc, CopyFile(c) PROVE Chosen'
  BY <1>21, <1>phase, <1>job DEF Chosen, CopyFile
<1>22. ASSUME NEW c \in Proc, MissFile(c) PROVE Chosen'
  BY <1>22, <1>phase, <1>job DEF Chosen, MissFile, Leave
<1>23. ASSUME NEW c \in Proc, EndCopy(c) PROVE Chosen'
  BY <1>23, <1>phase, <1>job DEF Chosen, EndCopy
<1>24. ASSUME NEW c \in Proc, RemoveFile(c) PROVE Chosen'
  BY <1>24, <1>phase, <1>job DEF Chosen, RemoveFile
<1>25. ASSUME NEW c \in Proc, EndRemove(c) PROVE Chosen'
  BY <1>25, <1>phase, <1>job DEF Chosen, EndRemove, Leave
<1>26. ASSUME NEW c \in Proc, FailCommit(c) PROVE Chosen'
  BY <1>26, <1>phase, <1>job DEF Chosen, FailCommit, Leave
<1>27. ASSUME NEW c \in Proc, NEW s \in Session, LoadReceipt(c, s) PROVE Chosen'
  BY <1>27, <1>phase, <1>job DEF Chosen, LoadReceipt, Leave
<1>28. CASE UNCHANGED vars
  BY <1>28, <1>phase, <1>job DEF Chosen
<1> QED
  BY <1>1, <1>2, <1>3, <1>4, <1>5, <1>6, <1>7, <1>8, <1>9, <1>10, <1>11,
     <1>12, <1>13, <1>14, <1>15, <1>16, <1>17, <1>18, <1>19, <1>20, <1>21,
     <1>22, <1>23, <1>24, <1>25, <1>26, <1>27, <1>28 DEF Next, Start,
     Progress, Commit

\* Whatever starts a session gives a fresh one a job.
LEMMA Started ==
  ASSUME NEW s \in Session, Start(s)
  PROVE  /\ phase[s] = "fresh"
         /\ \E j, l : /\ Begin(s, j)
                     /\ l \in {"compiling", "rejected"} /\ Goto(s, l)
  BY DEF Start, StartVerify, StartRun, StartCall

-----------------------------------------------------------------------------
(* Directories and receipts.                                               *)

\* Every step keeps the order of directory, receipt and files.
LEMMA ProvidedStep == ASSUME TypeOK, Provided, Copied, [Next]_vars PROVE Provided'
<1> USE DEF vars, sessVars, procVars
<1>phase. phase \in [Session -> Phases]
  BY DEF TypeOK
<1>dir. dir \in [Session -> BOOLEAN]
  BY DEF TypeOK
<1>receipt. receipt \in [Session -> BOOLEAN]
  BY DEF TypeOK
<1>shadow. shadow \in [Session -> [Path -> File \cup {Absent}]]
  BY DEF TypeOK
<1>target. target \in [Proc -> Session]
  BY DEF TypeOK
<1>1. ASSUME NEW s \in Session, Reject(s) PROVE Provided'
  BY <1>1, <1>phase, <1>dir, <1>receipt, <1>shadow DEF Provided, Reject, Goto
<1>2. ASSUME NEW s \in Session, Provision(s) PROVE Provided'
  BY <1>2, <1>phase, <1>dir, <1>receipt, <1>shadow DEF Provided, Provision,
     Goto
<1>3. ASSUME NEW s \in Session, WriteReceipt(s) PROVE Provided'
  BY <1>3, <1>phase, <1>dir, <1>receipt, <1>shadow DEF Provided, WriteReceipt,
     Goto
<1>4. ASSUME NEW s \in Session, Gate(s) PROVE Provided'
  BY <1>4, <1>phase, <1>dir, <1>receipt, <1>shadow DEF Provided, Gate, Goto
<1>5. ASSUME NEW s \in Session, ReadStep(s) PROVE Provided'
  BY <1>5, <1>phase, <1>dir, <1>receipt, <1>shadow DEF Provided, ReadStep,
     Goto, Abort, Advance
<1>6. ASSUME NEW s \in Session, WriteStep(s) PROVE Provided'
  <2>1. /\ phase[s] = "running" /\ phase' = phase /\ dir' = dir
        /\ receipt' = receipt
        /\ \A r \in Session \ {s} : shadow'[r] = shadow[r]
    BY <1>6, <1>shadow DEF WriteStep, Ready, Advance
  <2> QED
    BY <2>1 DEF Provided
<1>7. ASSUME NEW s \in Session, SubstituteStep(s) PROVE Provided'
  BY <1>7, <1>phase, <1>dir, <1>receipt, <1>shadow DEF Provided,
     SubstituteStep, Goto, Abort
<1>8. ASSUME NEW s \in Session, Finish(s) PROVE Provided'
  BY <1>8, <1>phase, <1>dir, <1>receipt, <1>shadow DEF Provided, Finish, Goto
<1>9. ASSUME NEW s \in Session, FailReceipt(s) PROVE Provided'
  BY <1>9, <1>phase, <1>dir, <1>receipt, <1>shadow DEF Provided, FailReceipt,
     Goto
<1>10. ASSUME NEW s \in Session, FailStep(s) PROVE Provided'
  <2>1. /\ phase[s] = "running" /\ phase'[s] = "aborted" /\ dir' = dir
        /\ receipt' = receipt
        /\ \A r \in Session \ {s} : shadow'[r] = shadow[r] /\ phase'[r] = phase[r]
    BY <1>10, <1>shadow, <1>phase DEF FailStep, Ready, Abort, Goto
  <2> QED
    BY <2>1 DEF Provided
<1>11. ASSUME NEW s \in Session, Die(s) PROVE Provided'
  BY <1>11, <1>phase, <1>dir, <1>receipt, <1>shadow DEF Provided, Die, Goto
<1>12. ASSUME NEW s \in Session, Start(s) PROVE Provided'
  BY <1>12, Started, <1>phase DEF Provided, Goto, Begin
<1>13. CASE BeginShutdown
  BY <1>13, <1>phase, <1>dir, <1>receipt, <1>shadow DEF Provided,
     BeginShutdown
<1>14. CASE EndShutdown
  BY <1>14, <1>phase, <1>dir, <1>receipt, <1>shadow DEF Provided, EndShutdown
<1>15. CASE KillServer
  BY <1>15, <1>phase, <1>dir, <1>receipt, <1>shadow DEF Provided, KillServer
<1>16. ASSUME NEW c \in Proc, Preview(c) PROVE Provided'
  BY <1>16, <1>phase, <1>dir, <1>receipt, <1>shadow DEF Provided, Preview
<1>17. ASSUME NEW c \in Proc, DryRun(c) PROVE Provided'
  BY <1>17, <1>phase, <1>dir, <1>receipt, <1>shadow DEF Provided, DryRun,
     Leave
<1>18. ASSUME NEW c \in Proc, Promote(c) PROVE Provided'
  BY <1>18, <1>phase, <1>dir, <1>receipt, <1>shadow DEF Provided, Promote,
     Leave
<1>19. ASSUME NEW c \in Proc, CopyFile(c) PROVE Provided'
  BY <1>19, <1>phase, <1>dir, <1>receipt, <1>shadow DEF Provided, CopyFile
<1>20. ASSUME NEW c \in Proc, MissFile(c) PROVE Provided'
  BY <1>20, <1>phase, <1>dir, <1>receipt, <1>shadow DEF Provided, MissFile,
     Leave
<1>21. ASSUME NEW c \in Proc, EndCopy(c) PROVE Provided'
  BY <1>21, <1>phase, <1>dir, <1>receipt, <1>shadow DEF Provided, EndCopy
<1>22. ASSUME NEW c \in Proc, RemoveFile(c) PROVE Provided'
  <2>1. /\ phase' = phase /\ dir' = dir /\ receipt' = receipt
        /\ \A r \in Session : shadow[r] = Empty => shadow'[r] = Empty
    BY <1>22, <1>shadow, <1>target DEF RemoveFile, Empty
  <2> QED
    BY <2>1 DEF Provided
<1>23. ASSUME NEW c \in Proc, EndRemove(c) PROVE Provided'
  <2>1. /\ dir' = [dir EXCEPT ![target[c]] = FALSE]
        /\ phase' = phase /\ shadow' = shadow /\ receipt' = receipt
    BY <1>23 DEF EndRemove
  <2>2. shadow[target[c]] = Empty /\ phase[target[c]] \in Ended
    BY <1>23 DEF EndRemove, Copied, CopiedAt
  <2> QED
    BY <2>1, <2>2, <1>dir, <1>target DEF Provided, Ended
<1>24. ASSUME NEW c \in Proc, FailCommit(c) PROVE Provided'
  BY <1>24, <1>phase, <1>dir, <1>receipt, <1>shadow DEF Provided, FailCommit,
     Leave
<1>25. ASSUME NEW c \in Proc, NEW s \in Session, LoadReceipt(c, s) PROVE Provided'
  BY <1>25, <1>phase, <1>dir, <1>receipt, <1>shadow DEF Provided, LoadReceipt,
     Leave
<1>26. CASE UNCHANGED vars
  BY <1>26, <1>phase, <1>dir, <1>receipt, <1>shadow DEF Provided
<1> QED
  BY <1>1, <1>2, <1>3, <1>4, <1>5, <1>6, <1>7, <1>8, <1>9, <1>10, <1>11,
     <1>12, <1>13, <1>14, <1>15, <1>16, <1>17, <1>18, <1>19, <1>20, <1>21,
     <1>22, <1>23, <1>24, <1>25, <1>26 DEF Next, Progress, Commit

-----------------------------------------------------------------------------
(* Files and the steps that wrote them.                                    *)

\* What a step wrote it has written for good.
LEMMA KeepsWritten ==
  ASSUME TypeOK, Owned, NEW s \in Session, NEW p \in Path,
         job'[s] = job[s], next'[s] \in {next[s], next[s] + 1},
         shadow'[s][p] \in {Absent, shadow[s][p]}, shadow'[s][p] # Absent
  PROVE  WrittenBy(s, p, shadow[s][p])'
<1>1. next[s] \in Nat \ {0}
  BY DEF TypeOK
<1>2. WrittenBy(s, p, shadow[s][p])
  BY DEF Owned
<1>3. PICK i \in 1 .. Len(Steps(s)) :
        /\ i <= next[s]
        /\ Steps(s)[i].kind = "write" /\ Steps(s)[i].path = p
        /\ shadow[s][p] \in {Steps(s)[i].text, Torn}
  BY <1>2 DEF WrittenBy
<1>4. i <= next'[s]
  BY <1>1, <1>3
<1>5. Steps(s)' = Steps(s) /\ Consented(job'[s])
  BY <1>2 DEF Steps, WrittenBy
<1> QED
  BY <1>3, <1>4, <1>5 DEF WrittenBy

\* What a step writes, whole or torn, is its own.
LEMMA WritesOwn ==
  ASSUME TypeOK, Chosen, Owned, NEW s \in Session, Ready(s), Current(s).kind = "write",
         job' = job, \A r \in Session : next'[r] \in {next[r], next[r] + 1},
         NEW text \in {Current(s).text, Torn},
         shadow' = [shadow EXCEPT ![s][Current(s).path] = text]
  PROVE  Owned'
<1>1. shadow \in [Session -> [Path -> File \cup {Absent}]] /\ next[s] \in Nat \ {0}
  BY DEF TypeOK
<1>2. next[s] \in 1 .. Len(Steps(s)) /\ Current(s).path \in Path
  BY CurrentStep
<1>3. Consented(job[s])
  BY DEF Ready, Chosen
<1> SUFFICES ASSUME NEW r \in Session, NEW p \in Path, shadow'[r][p] # Absent
             PROVE  WrittenBy(r, p, shadow[r][p])'
  BY DEF Owned
<1>4. CASE r = s /\ p = Current(s).path
  <2>1. shadow'[s][p] = text
    BY <1>1, <1>2, <1>4
  <2>2. Steps(s)' = Steps(s) /\ next[s] <= next'[s]
    BY <1>1 DEF Steps
  <2> QED
    BY <1>2, <1>3, <1>4, <2>1, <2>2 DEF WrittenBy, Current
<1>5. CASE ~(r = s /\ p = Current(s).path)
  <2>1. shadow'[r][p] = shadow[r][p]
    BY <1>1, <1>2, <1>5
  <2> QED
    BY <2>1, KeepsWritten
<1> QED
  BY <1>4, <1>5

\* Every step leaves in a shadow only what steps of its own job wrote.
LEMMA OwnedStep == ASSUME TypeOK, Chosen, Provided, Owned, [Next]_vars PROVE Owned'
<1> USE DEF vars, sessVars, procVars
<1>job. job \in [Session -> JobType]
  BY DEF TypeOK
<1>next. next \in [Session -> Nat \ {0}]
  BY DEF TypeOK
<1>shadow. shadow \in [Session -> [Path -> File \cup {Absent}]]
  BY DEF TypeOK
<1>target. target \in [Proc -> Session]
  BY DEF TypeOK
<1>1. ASSUME NEW s \in Session, Reject(s) PROVE Owned'
  <2>1. UNCHANGED <<job, next, shadow>>
    BY <1>1 DEF Reject, Goto
  <2> QED
    BY <2>1, KeepsWritten DEF Owned
<1>2. ASSUME NEW s \in Session, Provision(s) PROVE Owned'
  <2>1. /\ job' = job /\ next' = next
        /\ \A r \in Session, p \in Path : shadow'[r][p] \in {Absent, shadow[r][p]}
    BY <1>2, <1>shadow DEF Provision, Empty
  <2> QED
    BY <2>1, KeepsWritten DEF Owned
<1>3. ASSUME NEW s \in Session, WriteReceipt(s) PROVE Owned'
  <2>1. UNCHANGED <<job, next, shadow>>
    BY <1>3 DEF WriteReceipt, Goto
  <2> QED
    BY <2>1, KeepsWritten DEF Owned
<1>4. ASSUME NEW s \in Session, Gate(s) PROVE Owned'
  <2>1. UNCHANGED <<job, next, shadow>>
    BY <1>4 DEF Gate, Goto
  <2> QED
    BY <2>1, KeepsWritten DEF Owned
<1>5. ASSUME NEW s \in Session, ReadStep(s) PROVE Owned'
  <2>1. /\ job' = job /\ shadow' = shadow
        /\ \A r \in Session : next'[r] \in {next[r], next[r] + 1}
    BY <1>5, <1>next DEF ReadStep, Advance
  <2> QED
    BY <2>1, KeepsWritten DEF Owned
<1>6. ASSUME NEW s \in Session, WriteStep(s) PROVE Owned'
  <2>1. /\ job' = job /\ Current(s).kind = "write" /\ Ready(s)
        /\ shadow' = [shadow EXCEPT ![s][Current(s).path] = Current(s).text]
    BY <1>6 DEF WriteStep
  <2>2. \A r \in Session : next'[r] \in {next[r], next[r] + 1}
    BY <1>6, <1>next DEF WriteStep, Advance
  <2> QED
    BY <2>1, <2>2, WritesOwn
<1>7. ASSUME NEW s \in Session, SubstituteStep(s) PROVE Owned'
  <2>1. UNCHANGED <<job, next, shadow>>
    BY <1>7 DEF SubstituteStep, Abort, Goto
  <2> QED
    BY <2>1, KeepsWritten DEF Owned
<1>8. ASSUME NEW s \in Session, Finish(s) PROVE Owned'
  <2>1. UNCHANGED <<job, next, shadow>>
    BY <1>8 DEF Finish, Goto
  <2> QED
    BY <2>1, KeepsWritten DEF Owned
<1>9. ASSUME NEW s \in Session, FailReceipt(s) PROVE Owned'
  <2>1. /\ job' = job /\ next' = next
        /\ \A r \in Session, p \in Path : shadow'[r][p] \in {Absent, shadow[r][p]}
    BY <1>9, <1>shadow DEF FailReceipt, Empty
  <2> QED
    BY <2>1, KeepsWritten DEF Owned
<1>10. ASSUME NEW s \in Session, FailStep(s) PROVE Owned'
  <2>1. job' = job /\ next' = next /\ Ready(s)
    BY <1>10 DEF FailStep
  <2>2. CASE UNCHANGED shadow
    BY <2>1, <2>2, KeepsWritten DEF Owned
  <2>3. CASE /\ Current(s).kind = "write"
             /\ shadow' = [shadow EXCEPT ![s][Current(s).path] = Torn]
    BY <2>1, <2>3, WritesOwn
  <2> QED
    BY <1>10, <2>2, <2>3 DEF FailStep
<1>11. ASSUME NEW s \in Session, Die(s) PROVE Owned'
  <2>1. UNCHANGED <<job, next, shadow>>
    BY <1>11 DEF Die, Goto
  <2> QED
    BY <2>1, KeepsWritten DEF Owned
<1>12. ASSUME NEW s \in Session, Start(s) PROVE Owned'
  <2>1. PICK j, l : Begin(s, j) /\ Goto(s, l)
    BY <1>12, Started
  <2>2. /\ shadow' = shadow /\ next' = next /\ shadow[s] = Empty
        /\ \A r \in Session \ {s} : job'[r] = job[r]
    BY <2>1, <1>job, <1>12, Started DEF Begin, Provided
  <2> SUFFICES ASSUME NEW r \in Session, NEW p \in Path, shadow'[r][p] # Absent
               PROVE  WrittenBy(r, p, shadow[r][p])'
    BY DEF Owned
  <2>3. r # s
    BY <2>2 DEF Empty
  <2> QED
    BY <2>2, <2>3, KeepsWritten
<1>13. CASE BeginShutdown
  <2>1. UNCHANGED <<job, next, shadow>>
    BY <1>13 DEF BeginShutdown
  <2> QED
    BY <2>1, KeepsWritten DEF Owned
<1>14. CASE EndShutdown
  <2>1. UNCHANGED <<job, next, shadow>>
    BY <1>14 DEF EndShutdown
  <2> QED
    BY <2>1, KeepsWritten DEF Owned
<1>15. CASE KillServer
  <2>1. UNCHANGED <<job, next, shadow>>
    BY <1>15 DEF KillServer
  <2> QED
    BY <2>1, KeepsWritten DEF Owned
<1>16. ASSUME NEW c \in Proc, Preview(c) PROVE Owned'
  <2>1. UNCHANGED <<job, next, shadow>>
    BY <1>16 DEF Preview
  <2> QED
    BY <2>1, KeepsWritten DEF Owned
<1>17. ASSUME NEW c \in Proc, DryRun(c) PROVE Owned'
  <2>1. UNCHANGED <<job, next, shadow>>
    BY <1>17 DEF DryRun, Leave
  <2> QED
    BY <2>1, KeepsWritten DEF Owned
<1>18. ASSUME NEW c \in Proc, Promote(c) PROVE Owned'
  <2>1. UNCHANGED <<job, next, shadow>>
    BY <1>18 DEF Promote, Leave
  <2> QED
    BY <2>1, KeepsWritten DEF Owned
<1>19. ASSUME NEW c \in Proc, CopyFile(c) PROVE Owned'
  <2>1. UNCHANGED <<job, next, shadow>>
    BY <1>19 DEF CopyFile
  <2> QED
    BY <2>1, KeepsWritten DEF Owned
<1>20. ASSUME NEW c \in Proc, MissFile(c) PROVE Owned'
  <2>1. UNCHANGED <<job, next, shadow>>
    BY <1>20 DEF MissFile, Leave
  <2> QED
    BY <2>1, KeepsWritten DEF Owned
<1>21. ASSUME NEW c \in Proc, EndCopy(c) PROVE Owned'
  <2>1. UNCHANGED <<job, next, shadow>>
    BY <1>21 DEF EndCopy
  <2> QED
    BY <2>1, KeepsWritten DEF Owned
<1>22. ASSUME NEW c \in Proc, RemoveFile(c) PROVE Owned'
  <2>1. /\ job' = job /\ next' = next
        /\ \A r \in Session, p \in Path : shadow'[r][p] \in {Absent, shadow[r][p]}
    BY <1>22, <1>shadow, <1>target DEF RemoveFile, Empty
  <2> QED
    BY <2>1, KeepsWritten DEF Owned
<1>23. ASSUME NEW c \in Proc, EndRemove(c) PROVE Owned'
  <2>1. UNCHANGED <<job, next, shadow>>
    BY <1>23 DEF EndRemove, Leave
  <2> QED
    BY <2>1, KeepsWritten DEF Owned
<1>24. ASSUME NEW c \in Proc, FailCommit(c) PROVE Owned'
  <2>1. UNCHANGED <<job, next, shadow>>
    BY <1>24 DEF FailCommit, Leave
  <2> QED
    BY <2>1, KeepsWritten DEF Owned
<1>25. ASSUME NEW c \in Proc, NEW s \in Session, LoadReceipt(c, s) PROVE Owned'
  <2>1. UNCHANGED <<job, next, shadow>>
    BY <1>25 DEF LoadReceipt, Leave
  <2> QED
    BY <2>1, KeepsWritten DEF Owned
<1>26. CASE UNCHANGED vars
  <2>1. UNCHANGED <<job, next, shadow>>
    BY <1>26
  <2> QED
    BY <2>1, KeepsWritten DEF Owned
<1> QED
  BY <1>1, <1>2, <1>3, <1>4, <1>5, <1>6, <1>7, <1>8, <1>9, <1>10, <1>11,
     <1>12, <1>13, <1>14, <1>15, <1>16, <1>17, <1>18, <1>19, <1>20, <1>21,
     <1>22, <1>23, <1>24, <1>25, <1>26 DEF Next, Progress, Commit

-----------------------------------------------------------------------------
(* Reports.                                                                *)

\* A session whose files, report and progress stay keeps to it, whatever else
\* is copied.
LEMMA KeepsReport ==
  ASSUME NEW s \in Session, ReportedAt(s),
         phase'[s] = phase[s], job'[s] = job[s], next'[s] = next[s],
         shadow'[s] = shadow[s], manifest'[s] = manifest[s], placed[s] \subseteq placed'[s],
         faults > 0 => faults' > 0
  PROVE  ReportedAt(s)'
<1>1. Wrote(s)' = Wrote(s)
  BY DEF Wrote, Steps
<1> QED
  BY <1>1 DEF ReportedAt, Held

\* A session in one of the other phases has nothing to report.
LEMMA NothingToReport ==
  ASSUME NEW s \in Session,
         phase'[s] \notin {"fresh", "compiling", "provisioned", "admitted",
                          "running", "done", "aborted"}
  PROVE  ReportedAt(s)'
  BY DEF ReportedAt

\* A run that stops reports what it leaves.
LEMMA StopReports ==
  ASSUME TypeOK, NEW s \in Session, ReportedAt(s), phase[s] = "running",
         phase'[s] \in {"done", "aborted"}, job'[s] = job[s], next'[s] = next[s],
         Held(shadow[s]) \subseteq Held(shadow'[s]),
         manifest'[s] = Held(shadow'[s]) \/ (manifest'[s] = {} /\ faults' > 0)
  PROVE  ReportedAt(s)'
<1>1. Wrote(s)' = Wrote(s)
  BY DEF Wrote, Steps
<1> QED
  BY <1>1 DEF ReportedAt, Held

\* A step that is over is one more that has written.
LEMMA WroteNext ==
  ASSUME TypeOK, NEW s \in Session, job'[s] = job[s], next'[s] = next[s] + 1
  PROVE  Wrote(s)' \subseteq Wrote(s) \cup
           (IF Current(s).kind = "write" THEN {Current(s).path} ELSE {})
<1>1. next[s] \in Nat \ {0}
  BY DEF TypeOK
<1>2. Steps(s)' = Steps(s)
  BY DEF Steps
<1> SUFFICES ASSUME NEW i \in 1 .. (next'[s] - 1), Steps(s)[i].kind = "write"
             PROVE  Steps(s)[i].path \in Wrote(s) \cup
                      (IF Current(s).kind = "write" THEN {Current(s).path} ELSE {})
  BY <1>2 DEF Wrote
<1>3. i \in 1 .. (next[s] - 1) \/ i = next[s]
  BY <1>1
<1> QED
  BY <1>3 DEF Wrote, Current

\* Failures are never taken back.
LEMMA FaultsGrow == ASSUME TypeOK, Chosen, [Next]_vars PROVE faults > 0 => faults' > 0
<1> USE DEF vars, sessVars, procVars
<1>faults. faults \in 0 .. MaxFaults
  BY DEF TypeOK
<1>typed. faults' \in 0 .. MaxFaults /\ MaxFaults \in Nat
  BY TypeStep, GatewayAssumption DEF TypeOK
<1>1. ASSUME NEW s \in Session, Start(s) PROVE faults' = faults
  BY <1>1, Started DEF Begin
<1>2. ASSUME NEW s \in Session,
             Reject(s) \/ Provision(s) \/ WriteReceipt(s) \/ Gate(s) \/ WriteStep(s)
      PROVE  faults' = faults
  BY <1>2 DEF Reject, Provision, WriteReceipt, Gate, WriteStep, Advance
<1>3. ASSUME NEW s \in Session, ReadStep(s) \/ SubstituteStep(s) \/ Finish(s)
      PROVE  faults <= faults'
  BY <1>3, <1>faults, Reporting DEF ReadStep, SubstituteStep, Finish, Abort, Advance
<1>4. ASSUME NEW s \in Session, FailReceipt(s) \/ Die(s) PROVE faults' = faults + 1
  BY <1>4 DEF FailReceipt, Die, Faulty
<1>5. ASSUME NEW s \in Session, FailStep(s) PROVE faults + 1 <= faults'
  BY <1>5, NextFault, Reporting DEF FailStep, Abort
<1>6. ASSUME BeginShutdown \/ EndShutdown \/ KillServer PROVE faults' \in {faults, faults + 1}
  BY <1>6 DEF BeginShutdown, EndShutdown, KillServer, Faulty
<1>7. ASSUME NEW c \in Proc, Commit(c) \/ \E s \in Session : LoadReceipt(c, s)
      PROVE  faults' \in {faults, faults + 1}
  BY <1>7 DEF Commit, LoadReceipt, Preview, DryRun, Promote, CopyFile, MissFile, EndCopy,
     RemoveFile, EndRemove, FailCommit, Faulty
<1>8. CASE UNCHANGED vars
  BY <1>8
<1>9. CASE Next
  <2>1. faults' = faults \/ faults <= faults' \/ faults' = faults + 1 \/ faults + 1 <= faults'
    BY <1>1, <1>2, <1>3, <1>4, <1>5, <1>6, <1>7, <1>9 DEF Next, Progress
  <2> QED
    BY <2>1, <1>typed, <1>faults
<1> QED
  BY <1>8, <1>9

\* Every step keeps the reports true.
LEMMA ReportedStep == ASSUME TypeOK, Chosen, Reported, Copied, [Next]_vars PROVE Reported'
<1> USE DEF vars, sessVars, procVars
<1>grow. faults > 0 => faults' > 0
  BY FaultsGrow
<1>phase. phase \in [Session -> Phases]
  BY DEF TypeOK
<1>job. job \in [Session -> JobType]
  BY DEF TypeOK
<1>next. next \in [Session -> Nat \ {0}]
  BY DEF TypeOK
<1>shadow. shadow \in [Session -> [Path -> File \cup {Absent}]]
  BY DEF TypeOK
<1>manifest. manifest \in [Session -> SUBSET Path]
  BY DEF TypeOK
<1>placed. placed \in [Session -> SUBSET Path]
  BY DEF TypeOK
<1>faults. faults \in 0 .. MaxFaults
  BY DEF TypeOK
<1>target. target \in [Proc -> Session]
  BY DEF TypeOK
<1>1. ASSUME NEW s \in Session, Reject(s) PROVE Reported'
  <2>1. /\ phase'[s] = "rejected"
    BY <1>1, <1>phase DEF Reject, Goto
  <2>2. \A r \in Session \ {s} : ReportedAt(r)'
    <3> TAKE r \in Session \ {s}
    <3>1. /\ phase'[r] = phase[r] /\ job'[r] = job[r] /\ next'[r] = next[r]
          /\ shadow'[r] = shadow[r] /\ manifest'[r] = manifest[r] /\ placed' = placed
      BY <1>1, <1>phase, <1>job, <1>next, <1>shadow, <1>manifest DEF Reject,
         Goto
    <3> QED
      BY <3>1, <1>grow, KeepsReport DEF Reported
  <2> QED
    BY <2>1, <2>2, NothingToReport DEF Reported
<1>2. ASSUME NEW s \in Session, Provision(s) PROVE Reported'
  <2>1. /\ phase'[s] = "provisioned" /\ phase[s] = "compiling" /\ next' = next
    BY <1>2, <1>phase DEF Provision, Goto
  <2>2. \A r \in Session \ {s} : ReportedAt(r)'
    <3> TAKE r \in Session \ {s}
    <3>1. /\ phase'[r] = phase[r] /\ job'[r] = job[r] /\ next'[r] = next[r]
          /\ shadow'[r] = shadow[r] /\ manifest'[r] = manifest[r] /\ placed' = placed
      BY <1>2, <1>phase, <1>job, <1>next, <1>shadow, <1>manifest
        DEF Provision, Goto
    <3> QED
      BY <3>1, <1>grow, KeepsReport DEF Reported
  <2>3. ReportedAt(s)'
    BY <2>1 DEF Reported, ReportedAt
  <2> QED
    BY <2>1, <2>2, <2>3 DEF Reported
<1>3. ASSUME NEW s \in Session, WriteReceipt(s) PROVE Reported'
  <2>1. /\ phase'[s] \in {"verified", "admitted"} /\ phase[s] = "provisioned"
        /\ next' = next
    BY <1>3, <1>phase DEF WriteReceipt, Goto
  <2>2. \A r \in Session \ {s} : ReportedAt(r)'
    <3> TAKE r \in Session \ {s}
    <3>1. /\ phase'[r] = phase[r] /\ job'[r] = job[r] /\ next'[r] = next[r]
          /\ shadow'[r] = shadow[r] /\ manifest'[r] = manifest[r] /\ placed' = placed
      BY <1>3, <1>phase, <1>job, <1>next, <1>shadow, <1>manifest
        DEF WriteReceipt, Goto
    <3> QED
      BY <3>1, <1>grow, KeepsReport DEF Reported
  <2>3. ReportedAt(s)'
    BY <2>1 DEF Reported, ReportedAt
  <2> QED
    BY <2>1, <2>2, <2>3 DEF Reported
<1>4. ASSUME NEW s \in Session, Gate(s) PROVE Reported'
  <2>1. /\ phase'[s] \in {"running", "refused"} /\ phase[s] = "admitted"
        /\ next' = next /\ job' = job
    BY <1>4, <1>phase DEF Gate, Goto
  <2>2. \A r \in Session \ {s} : ReportedAt(r)'
    <3> TAKE r \in Session \ {s}
    <3>1. /\ phase'[r] = phase[r] /\ job'[r] = job[r] /\ next'[r] = next[r]
          /\ shadow'[r] = shadow[r] /\ manifest'[r] = manifest[r] /\ placed' = placed
      BY <1>4, <1>phase, <1>job, <1>next, <1>shadow, <1>manifest DEF Gate,
         Goto
    <3> QED
      BY <3>1, <1>grow, KeepsReport DEF Reported
  <2>3. next[s] = 1
    BY <2>1 DEF Reported, ReportedAt
  <2>4. Wrote(s)' = {}
    BY <2>1, <2>3 DEF Wrote
  <2>5. ReportedAt(s)'
    BY <2>1, <2>4 DEF ReportedAt
  <2> QED
    BY <2>1, <2>2, <2>5 DEF Reported
<1>5. ASSUME NEW s \in Session, ReadStep(s) PROVE Reported'
  <2>1. /\ phase[s] = "running" /\ job' = job /\ shadow' = shadow /\ Current(s).kind = "read"
        /\ \/ /\ phase'[s] = "aborted" /\ next' = next
              /\ manifest'[s] = Held(shadow'[s]) \/ (manifest'[s] = {} /\ faults' > 0)
           \/ phase' = phase /\ next'[s] = next[s] + 1
    BY <1>5, <1>phase, <1>faults, <1>next, Reporting DEF ReadStep, Ready,
       Advance, Abort, Goto
  <2>2. \A r \in Session \ {s} : ReportedAt(r)'
    <3> TAKE r \in Session \ {s}
    <3>1. /\ phase'[r] = phase[r] /\ job'[r] = job[r] /\ next'[r] = next[r]
          /\ shadow'[r] = shadow[r] /\ manifest'[r] = manifest[r] /\ placed' = placed
      BY <1>5, <1>phase, <1>job, <1>next, <1>shadow, <1>faults, Reporting
        DEF ReadStep, Ready, Advance, Abort, Goto
    <3> QED
      BY <3>1, <1>grow, KeepsReport DEF Reported
  <2>3. ASSUME phase'[s] = "aborted", next' = next,
               manifest'[s] = Held(shadow'[s]) \/ (manifest'[s] = {} /\ faults' > 0)
        PROVE  ReportedAt(s)'
    BY <2>1, <2>3, StopReports DEF Reported
  <2>4. ASSUME phase' = phase, next'[s] = next[s] + 1
        PROVE  ReportedAt(s)'
    <3>1. Wrote(s)' \subseteq Wrote(s)
      BY <2>1, <2>4, WroteNext
    <3> QED
      BY <2>1, <2>4, <3>1 DEF Reported, ReportedAt
  <2> QED
    BY <2>1, <2>2, <2>3, <2>4 DEF Reported
<1>6. ASSUME NEW s \in Session, WriteStep(s) PROVE Reported'
  <2>1. /\ phase[s] = "running" /\ phase' = phase /\ job' = job /\ next'[s] = next[s] + 1 /\ Ready(s)
        /\ shadow'[s] = [shadow[s] EXCEPT ![Current(s).path] = Current(s).text]
    BY <1>6, <1>next, <1>shadow DEF WriteStep, Ready, Advance
  <2>2. \A r \in Session \ {s} : ReportedAt(r)'
    <3> TAKE r \in Session \ {s}
    <3>1. /\ phase'[r] = phase[r] /\ job'[r] = job[r] /\ next'[r] = next[r]
          /\ shadow'[r] = shadow[r] /\ manifest'[r] = manifest[r] /\ placed' = placed
      BY <1>6, <1>phase, <1>job, <1>next, <1>shadow, <1>manifest
        DEF WriteStep, Ready, Advance
    <3> QED
      BY <3>1, <1>grow, KeepsReport DEF Reported
  <2>3. Current(s).path \in Path /\ Current(s).text # Absent
    BY <2>1, CurrentStep, GatewayAssumption
  <2>4. Held(shadow'[s]) = Held(shadow[s]) \cup {Current(s).path}
    BY <2>1, <2>3, <1>shadow DEF Held
  <2>5. ReportedAt(s)'
    <3>1. Wrote(s)' \subseteq Wrote(s) \cup {Current(s).path}
      BY <2>1, WroteNext
    <3> QED
      BY <2>1, <2>4, <3>1 DEF Reported, ReportedAt
  <2> QED
    BY <2>1, <2>2, <2>5 DEF Reported
<1>7. ASSUME NEW s \in Session, SubstituteStep(s) PROVE Reported'
  <2>1. /\ phase[s] = "running" /\ phase'[s] = "aborted" /\ job' = job
        /\ next' = next /\ shadow' = shadow
        /\ manifest'[s] = Held(shadow'[s]) \/ (manifest'[s] = {} /\ faults' > 0)
    BY <1>7, <1>phase, <1>faults, Reporting DEF SubstituteStep, Ready, Abort,
       Goto
  <2>2. \A r \in Session \ {s} : ReportedAt(r)'
    <3> TAKE r \in Session \ {s}
    <3>1. /\ phase'[r] = phase[r] /\ job'[r] = job[r] /\ next'[r] = next[r]
          /\ shadow'[r] = shadow[r] /\ manifest'[r] = manifest[r] /\ placed' = placed
      BY <1>7, <1>phase, <1>job, <1>next, <1>shadow, <1>faults, Reporting
        DEF SubstituteStep, Ready, Abort, Goto
    <3> QED
      BY <3>1, <1>grow, KeepsReport DEF Reported
  <2> QED
    BY <2>1, <2>2, StopReports DEF Reported
<1>8. ASSUME NEW s \in Session, Finish(s) PROVE Reported'
  <2>1. /\ phase[s] = "running" /\ phase'[s] = "done" /\ job' = job
        /\ next' = next /\ shadow' = shadow
        /\ manifest'[s] = Held(shadow'[s]) \/ (manifest'[s] = {} /\ faults' > 0)
    BY <1>8, <1>phase, <1>faults, Reporting DEF Finish, Goto
  <2>2. \A r \in Session \ {s} : ReportedAt(r)'
    <3> TAKE r \in Session \ {s}
    <3>1. /\ phase'[r] = phase[r] /\ job'[r] = job[r] /\ next'[r] = next[r]
          /\ shadow'[r] = shadow[r] /\ manifest'[r] = manifest[r] /\ placed' = placed
      BY <1>8, <1>phase, <1>job, <1>next, <1>shadow, <1>faults, Reporting
        DEF Finish, Goto
    <3> QED
      BY <3>1, <1>grow, KeepsReport DEF Reported
  <2> QED
    BY <2>1, <2>2, StopReports DEF Reported
<1>9. ASSUME NEW s \in Session, FailReceipt(s) PROVE Reported'
  <2>1. /\ phase'[s] = "rejected"
    BY <1>9, <1>phase DEF FailReceipt, Goto
  <2>2. \A r \in Session \ {s} : ReportedAt(r)'
    <3> TAKE r \in Session \ {s}
    <3>1. /\ phase'[r] = phase[r] /\ job'[r] = job[r] /\ next'[r] = next[r]
          /\ shadow'[r] = shadow[r] /\ manifest'[r] = manifest[r] /\ placed' = placed
      BY <1>9, <1>phase, <1>job, <1>next, <1>shadow, <1>manifest
        DEF FailReceipt, Goto
    <3> QED
      BY <3>1, <1>grow, KeepsReport DEF Reported
  <2> QED
    BY <2>1, <2>2, NothingToReport DEF Reported
<1>10. ASSUME NEW s \in Session, FailStep(s) PROVE Reported'
  <2>1. /\ phase[s] = "running" /\ phase'[s] = "aborted" /\ job' = job /\ next' = next /\ Ready(s)
        /\ manifest'[s] = Held(shadow'[s]) \/ (manifest'[s] = {} /\ faults' > 0)
        /\ \/ shadow'[s] = shadow[s]
           \/ shadow'[s] = [shadow[s] EXCEPT ![Current(s).path] = Torn]
    BY <1>10, <1>phase, <1>shadow, NextFault, Reporting DEF FailStep, Ready,
       Abort, Goto
  <2>2. \A r \in Session \ {s} : ReportedAt(r)'
    <3> TAKE r \in Session \ {s}
    <3>1. /\ phase'[r] = phase[r] /\ job'[r] = job[r] /\ next'[r] = next[r]
          /\ shadow'[r] = shadow[r] /\ manifest'[r] = manifest[r] /\ placed' = placed
      BY <1>10, <1>phase, <1>job, <1>next, <1>shadow, NextFault, Reporting
        DEF FailStep, Ready, Abort, Goto
    <3> QED
      BY <3>1, <1>grow, KeepsReport DEF Reported
  <2>3. Torn # Absent
    BY GatewayAssumption DEF File
  <2>4. Held(shadow[s]) \subseteq Held(shadow'[s])
    BY <2>1, <2>3, <1>shadow DEF Held
  <2>5. ReportedAt(s)'
    BY <2>1, <2>4, StopReports DEF Reported
  <2> QED
    BY <2>1, <2>2, <2>5 DEF Reported
<1>11. ASSUME NEW s \in Session, Die(s) PROVE Reported'
  <2>1. /\ phase'[s] = "dead"
    BY <1>11, <1>phase DEF Die, Goto
  <2>2. \A r \in Session \ {s} : ReportedAt(r)'
    <3> TAKE r \in Session \ {s}
    <3>1. /\ phase'[r] = phase[r] /\ job'[r] = job[r] /\ next'[r] = next[r]
          /\ shadow'[r] = shadow[r] /\ manifest'[r] = manifest[r] /\ placed' = placed
      BY <1>11, <1>phase, <1>job, <1>next, <1>shadow, <1>manifest DEF Die,
         Goto
    <3> QED
      BY <3>1, <1>grow, KeepsReport DEF Reported
  <2> QED
    BY <2>1, <2>2, NothingToReport DEF Reported
<1>12. ASSUME NEW s \in Session, Start(s) PROVE Reported'
  <2>0. PICK j, l : Begin(s, j) /\ l \in {"compiling", "rejected"} /\ Goto(s, l)
    BY <1>12, Started
  <2>1. /\ next' = next /\ phase'[s] \in {"compiling", "rejected"}
        /\ phase[s] = "fresh"
    BY <1>12, <2>0, <1>phase, Started DEF Begin, Goto
  <2>2. \A r \in Session \ {s} : ReportedAt(r)'
    <3> TAKE r \in Session \ {s}
    <3>1. /\ phase'[r] = phase[r] /\ job'[r] = job[r] /\ next'[r] = next[r]
          /\ shadow'[r] = shadow[r] /\ manifest'[r] = manifest[r] /\ placed' = placed
      BY <1>12, <2>0, <1>phase, <1>job, <1>next, <1>shadow, <1>manifest
        DEF Begin, Goto
    <3> QED
      BY <3>1, <1>grow, KeepsReport DEF Reported
  <2>3. ReportedAt(s)'
    BY <2>1 DEF Reported, ReportedAt
  <2> QED
    BY <2>1, <2>2, <2>3 DEF Reported
<1>13. CASE BeginShutdown
  <2>1. UNCHANGED <<phase, job, next, shadow, manifest, placed>>
    BY <1>13 DEF BeginShutdown
  <2> QED
    BY <2>1, <1>grow, KeepsReport DEF Reported
<1>14. CASE EndShutdown
  <2>1. UNCHANGED <<phase, job, next, shadow, manifest, placed>>
    BY <1>14 DEF EndShutdown
  <2> QED
    BY <2>1, <1>grow, KeepsReport DEF Reported
<1>15. CASE KillServer
  <2>1. UNCHANGED <<job, next, shadow, manifest, placed>>
    BY <1>15 DEF KillServer
  <2>2. \A r \in Session : phase'[r] \in {phase[r], "dead"}
    BY <1>15, <1>phase DEF KillServer
  <2> QED
    BY <2>1, <2>2, <1>grow, KeepsReport, NothingToReport DEF Reported
<1>16. ASSUME NEW c \in Proc, Preview(c) PROVE Reported'
  <2>1. UNCHANGED <<phase, job, next, shadow, manifest, placed>>
    BY <1>16 DEF Preview
  <2> QED
    BY <2>1, <1>grow, KeepsReport DEF Reported
<1>17. ASSUME NEW c \in Proc, DryRun(c) PROVE Reported'
  <2>1. UNCHANGED <<phase, job, next, shadow, manifest, placed>>
    BY <1>17 DEF DryRun, Leave
  <2> QED
    BY <2>1, <1>grow, KeepsReport DEF Reported
<1>18. ASSUME NEW c \in Proc, Promote(c) PROVE Reported'
  <2>1. UNCHANGED <<phase, job, next, shadow, manifest, placed>>
    BY <1>18 DEF Promote, Leave
  <2> QED
    BY <2>1, <1>grow, KeepsReport DEF Reported
<1>19. ASSUME NEW c \in Proc, CopyFile(c) PROVE Reported'
  <2>1. UNCHANGED <<phase, job, next, shadow, manifest>>
    BY <1>19 DEF CopyFile
  <2>2. \A r \in Session : placed[r] \subseteq placed'[r]
    BY <1>19, <1>placed DEF CopyFile
  <2> QED
    BY <2>1, <2>2, <1>grow, KeepsReport DEF Reported
<1>20. ASSUME NEW c \in Proc, MissFile(c) PROVE Reported'
  <2>1. UNCHANGED <<phase, job, next, shadow, manifest, placed>>
    BY <1>20 DEF MissFile, Leave
  <2> QED
    BY <2>1, <1>grow, KeepsReport DEF Reported
<1>21. ASSUME NEW c \in Proc, EndCopy(c) PROVE Reported'
  <2>1. UNCHANGED <<phase, job, next, shadow, manifest, placed>>
    BY <1>21 DEF EndCopy
  <2> QED
    BY <2>1, <1>grow, KeepsReport DEF Reported
<1>22. ASSUME NEW c \in Proc, RemoveFile(c) PROVE Reported'
  <2>0. PICK s \in Session : s = target[c]
    BY <1>target
  <2>1. UNCHANGED <<phase, job, next, manifest, placed>> /\ pc[c] = "removing"
    BY <1>22 DEF RemoveFile
  <2>2. /\ Held(shadow'[s]) \subseteq Held(shadow[s])
        /\ \A r \in Session \ {s} : shadow'[r] = shadow[r]
    BY <1>22, <2>0, <1>shadow DEF RemoveFile, Held
  <2>3. Held(shadow[s]) \subseteq placed[s] /\ phase[s] \in Ended
    BY <2>0, <2>1 DEF Copied, CopiedAt
  <2>4. \A r \in Session \ {s} : ReportedAt(r)'
    BY <2>1, <2>2, <1>grow, KeepsReport DEF Reported
  <2>5. Wrote(s)' = Wrote(s)
    BY <2>1 DEF Wrote, Steps
  <2>6. ReportedAt(s)'
    BY <2>1, <2>2, <2>3, <2>5, <1>grow DEF Reported, ReportedAt, Ended
  <2> QED
    BY <2>4, <2>6 DEF Reported
<1>23. ASSUME NEW c \in Proc, EndRemove(c) PROVE Reported'
  <2>1. UNCHANGED <<phase, job, next, shadow, manifest, placed>>
    BY <1>23 DEF EndRemove, Leave
  <2> QED
    BY <2>1, <1>grow, KeepsReport DEF Reported
<1>24. ASSUME NEW c \in Proc, FailCommit(c) PROVE Reported'
  <2>1. UNCHANGED <<phase, job, next, shadow, manifest, placed>>
    BY <1>24 DEF FailCommit, Leave
  <2> QED
    BY <2>1, <1>grow, KeepsReport DEF Reported
<1>25. ASSUME NEW c \in Proc, NEW s \in Session, LoadReceipt(c, s) PROVE Reported'
  <2>1. UNCHANGED <<phase, job, next, shadow, manifest, placed>>
    BY <1>25 DEF LoadReceipt, Leave
  <2> QED
    BY <2>1, <1>grow, KeepsReport DEF Reported
<1>26. CASE UNCHANGED vars
  <2>1. UNCHANGED <<phase, job, next, shadow, manifest, placed>>
    BY <1>26
  <2> QED
    BY <2>1, <1>grow, KeepsReport DEF Reported
<1> QED
  BY <1>1, <1>2, <1>3, <1>4, <1>5, <1>6, <1>7, <1>8, <1>9, <1>10, <1>11,
     <1>12, <1>13, <1>14, <1>15, <1>16, <1>17, <1>18, <1>19, <1>20, <1>21,
     <1>22, <1>23, <1>24, <1>25, <1>26 DEF Next, Progress, Commit

-----------------------------------------------------------------------------
(* Commits.                                                                *)

\* The record of a commit process stays.
Rests(d) ==
  /\ pc'[d] = pc[d] /\ target'[d] = target[d] /\ outcome'[d] = outcome[d]
  /\ printed'[d] = printed[d] /\ left'[d] = left[d]

\* A commit process that does nothing keeps to it while its session is only
\* copied, or loses files that were.
LEMMA KeepsCopied ==
  ASSUME NEW d \in Proc, CopiedAt(d, target[d]),
         Rests(d),
         phase'[target[d]] = phase[target[d]], receipt'[target[d]] = receipt[target[d]],
         Held(shadow'[target[d]]) \subseteq Held(shadow[target[d]]),
         Held(shadow[target[d]]) \subseteq Held(shadow'[target[d]]) \cup placed'[target[d]],
         placed[target[d]] \subseteq placed'[target[d]]
  PROVE  CopiedAt(d, target[d])'
<1> DEFINE s == target[d]
<1>1. Held(shadow'[target'[d]]) = Held(shadow[target[d]])'
  BY DEF Held, Rests
<1> QED
  BY <1>1 DEF CopiedAt, Rests

\* Sessions that are over are left alone by the others.
LEMMA SessionKeepsCopied ==
  ASSUME TypeOK, Copied, UNCHANGED <<procVars, placed>>,
         \A s \in Session : phase[s] \in Ended =>
           phase'[s] = phase[s] /\ receipt'[s] = receipt[s] /\ shadow'[s] = shadow[s]
  PROVE  Copied'
<1> SUFFICES ASSUME NEW c \in Proc PROVE CopiedAt(c, target[c])'
  BY DEF Copied
<1>1. PICK s \in Session : s = target[c]
  BY DEF TypeOK
<1>2. target'[c] = s /\ CopiedAt(c, s)
  BY <1>1 DEF procVars, Copied
<1>3. CASE pc[c] = "idle"
  BY <1>1, <1>2, <1>3 DEF CopiedAt, procVars
<1>4. CASE pc[c] # "idle"
  <2>1. phase'[s] = phase[s] /\ receipt'[s] = receipt[s] /\ shadow'[s] = shadow[s]
    BY <1>2, <1>4 DEF CopiedAt
  <2> QED
    BY <1>1, <1>2, <2>1, KeepsCopied DEF procVars, Rests
<1> QED
  BY <1>3, <1>4

\* Every step keeps what commits have printed, copied and have left to copy.
LEMMA CopiedStep == ASSUME TypeOK, Provided, Copied, [Next]_vars PROVE Copied'
<1> USE DEF vars, sessVars, procVars
<1>phase. phase \in [Session -> Phases]
  BY DEF TypeOK
<1>receipt. receipt \in [Session -> BOOLEAN]
  BY DEF TypeOK
<1>shadow. shadow \in [Session -> [Path -> File \cup {Absent}]]
  BY DEF TypeOK
<1>placed. placed \in [Session -> SUBSET Path]
  BY DEF TypeOK
<1>target. target \in [Proc -> Session]
  BY DEF TypeOK
<1>pc. pc \in [Proc -> {"idle", "loaded", "previewed", "copying", "removing"}]
  BY DEF TypeOK
<1>printed. printed \in [Proc -> SUBSET Path]
  BY DEF TypeOK
<1>left. left \in [Proc -> SUBSET Path]
  BY DEF TypeOK
<1>outcome. outcome \in [Proc -> {"none", "not found", "dry-run", "promoted", "failed"}]
  BY DEF TypeOK
<1>1. ASSUME NEW s \in Session, Reject(s) PROVE Copied'
  <2>1. UNCHANGED <<procVars, placed>>
    BY <1>1 DEF Reject, Goto
  <2>2. \A r \in Session : phase[r] \in Ended =>
          phase'[r] = phase[r] /\ receipt'[r] = receipt[r] /\ shadow'[r] = shadow[r]
    BY <1>1, <1>phase, <1>receipt, <1>shadow DEF Reject, Goto, Ended
  <2> QED
    BY <2>1, <2>2, SessionKeepsCopied
<1>2. ASSUME NEW s \in Session, Provision(s) PROVE Copied'
  <2>1. UNCHANGED <<procVars, placed>>
    BY <1>2 DEF Provision, Goto
  <2>2. \A r \in Session : phase[r] \in Ended =>
          phase'[r] = phase[r] /\ receipt'[r] = receipt[r] /\ shadow'[r] = shadow[r]
    BY <1>2, <1>phase, <1>receipt, <1>shadow DEF Provision, Goto, Ended
  <2> QED
    BY <2>1, <2>2, SessionKeepsCopied
<1>3. ASSUME NEW s \in Session, WriteReceipt(s) PROVE Copied'
  <2>1. UNCHANGED <<procVars, placed>>
    BY <1>3 DEF WriteReceipt, Goto
  <2>2. \A r \in Session : phase[r] \in Ended =>
          phase'[r] = phase[r] /\ receipt'[r] = receipt[r] /\ shadow'[r] = shadow[r]
    BY <1>3, <1>phase, <1>receipt, <1>shadow DEF WriteReceipt, Goto, Ended
  <2> QED
    BY <2>1, <2>2, SessionKeepsCopied
<1>4. ASSUME NEW s \in Session, Gate(s) PROVE Copied'
  <2>1. UNCHANGED <<procVars, placed>>
    BY <1>4 DEF Gate, Goto
  <2>2. \A r \in Session : phase[r] \in Ended =>
          phase'[r] = phase[r] /\ receipt'[r] = receipt[r] /\ shadow'[r] = shadow[r]
    BY <1>4, <1>phase, <1>receipt, <1>shadow DEF Gate, Goto, Ended
  <2> QED
    BY <2>1, <2>2, SessionKeepsCopied
<1>5. ASSUME NEW s \in Session, ReadStep(s) PROVE Copied'
  <2>1. UNCHANGED <<procVars, placed>>
    BY <1>5 DEF ReadStep, Goto, Abort, Advance
  <2>2. \A r \in Session : phase[r] \in Ended =>
          phase'[r] = phase[r] /\ receipt'[r] = receipt[r] /\ shadow'[r] = shadow[r]
    BY <1>5, <1>phase, <1>receipt, <1>shadow DEF ReadStep, Goto, Abort,
       Advance, Ended, Ready
  <2> QED
    BY <2>1, <2>2, SessionKeepsCopied
<1>6. ASSUME NEW s \in Session, WriteStep(s) PROVE Copied'
  <2>1. UNCHANGED <<procVars, placed>>
    BY <1>6 DEF WriteStep, Goto, Advance
  <2>2. \A r \in Session : phase[r] \in Ended =>
          phase'[r] = phase[r] /\ receipt'[r] = receipt[r] /\ shadow'[r] = shadow[r]
    BY <1>6, <1>phase, <1>receipt, <1>shadow DEF WriteStep, Goto, Advance,
       Ended, Ready
  <2> QED
    BY <2>1, <2>2, SessionKeepsCopied
<1>7. ASSUME NEW s \in Session, SubstituteStep(s) PROVE Copied'
  <2>1. UNCHANGED <<procVars, placed>>
    BY <1>7 DEF SubstituteStep, Goto, Abort
  <2>2. \A r \in Session : phase[r] \in Ended =>
          phase'[r] = phase[r] /\ receipt'[r] = receipt[r] /\ shadow'[r] = shadow[r]
    BY <1>7, <1>phase, <1>receipt, <1>shadow DEF SubstituteStep, Goto, Abort,
       Ended, Ready
  <2> QED
    BY <2>1, <2>2, SessionKeepsCopied
<1>8. ASSUME NEW s \in Session, Finish(s) PROVE Copied'
  <2>1. UNCHANGED <<procVars, placed>>
    BY <1>8 DEF Finish, Goto
  <2>2. \A r \in Session : phase[r] \in Ended =>
          phase'[r] = phase[r] /\ receipt'[r] = receipt[r] /\ shadow'[r] = shadow[r]
    BY <1>8, <1>phase, <1>receipt, <1>shadow DEF Finish, Goto, Ended
  <2> QED
    BY <2>1, <2>2, SessionKeepsCopied
<1>9. ASSUME NEW s \in Session, FailReceipt(s) PROVE Copied'
  <2>1. UNCHANGED <<procVars, placed>>
    BY <1>9 DEF FailReceipt, Goto
  <2>2. \A r \in Session : phase[r] \in Ended =>
          phase'[r] = phase[r] /\ receipt'[r] = receipt[r] /\ shadow'[r] = shadow[r]
    BY <1>9, <1>phase, <1>receipt, <1>shadow DEF FailReceipt, Goto, Ended
  <2> QED
    BY <2>1, <2>2, SessionKeepsCopied
<1>10. ASSUME NEW s \in Session, FailStep(s) PROVE Copied'
  <2>1. UNCHANGED <<procVars, placed>>
    BY <1>10 DEF FailStep, Goto, Abort
  <2>2. \A r \in Session : phase[r] \in Ended =>
          phase'[r] = phase[r] /\ receipt'[r] = receipt[r] /\ shadow'[r] = shadow[r]
    BY <1>10, <1>phase, <1>receipt, <1>shadow DEF FailStep, Goto, Abort,
       Ended, Ready
  <2> QED
    BY <2>1, <2>2, SessionKeepsCopied
<1>11. ASSUME NEW s \in Session, Die(s) PROVE Copied'
  <2>1. UNCHANGED <<procVars, placed>>
    BY <1>11 DEF Die, Goto
  <2>2. \A r \in Session : phase[r] \in Ended =>
          phase'[r] = phase[r] /\ receipt'[r] = receipt[r] /\ shadow'[r] = shadow[r]
    BY <1>11, <1>phase, <1>receipt, <1>shadow DEF Die, Goto, Ended, Busy
  <2> QED
    BY <2>1, <2>2, SessionKeepsCopied
<1>12. ASSUME NEW s \in Session, Start(s) PROVE Copied'
  <2>0. PICK j, l : Begin(s, j) /\ Goto(s, l)
    BY <1>12, Started
  <2>1. UNCHANGED <<procVars, placed>>
    BY <2>0 DEF Begin
  <2>2. \A r \in Session : phase[r] \in Ended =>
          phase'[r] = phase[r] /\ receipt'[r] = receipt[r] /\ shadow'[r] = shadow[r]
    BY <1>12, <2>0, <1>phase, <1>receipt, <1>shadow, Started DEF Begin, Goto,
       Ended
  <2> QED
    BY <2>1, <2>2, SessionKeepsCopied
<1>13. CASE BeginShutdown
  <2>1. UNCHANGED <<procVars, placed>>
    BY <1>13 DEF BeginShutdown
  <2>2. \A r \in Session : phase[r] \in Ended =>
          phase'[r] = phase[r] /\ receipt'[r] = receipt[r] /\ shadow'[r] = shadow[r]
    BY <1>13, <1>phase, <1>receipt, <1>shadow DEF BeginShutdown, Ended
  <2> QED
    BY <2>1, <2>2, SessionKeepsCopied
<1>14. CASE EndShutdown
  <2>1. UNCHANGED <<procVars, placed>>
    BY <1>14 DEF EndShutdown
  <2>2. \A r \in Session : phase[r] \in Ended =>
          phase'[r] = phase[r] /\ receipt'[r] = receipt[r] /\ shadow'[r] = shadow[r]
    BY <1>14, <1>phase, <1>receipt, <1>shadow DEF EndShutdown, Ended
  <2> QED
    BY <2>1, <2>2, SessionKeepsCopied
<1>15. CASE KillServer
  <2>1. UNCHANGED <<procVars, placed>>
    BY <1>15 DEF KillServer
  <2>2. \A r \in Session : phase[r] \in Ended =>
          phase'[r] = phase[r] /\ receipt'[r] = receipt[r] /\ shadow'[r] = shadow[r]
    BY <1>15, <1>phase, <1>receipt, <1>shadow DEF KillServer, Ended, Busy,
       Calls
  <2> QED
    BY <2>1, <2>2, SessionKeepsCopied
<1>16. ASSUME NEW c \in Proc, Preview(c) PROVE Copied'
  <2>1. /\ target'[c] = target[c] /\ pc[c] = "loaded" /\ pc'[c] = "previewed"
        /\ outcome'[c] = outcome[c]
        /\ printed'[c] = Held(shadow[target[c]])
        /\ UNCHANGED <<phase, receipt, shadow, placed>>
    BY <1>16, <1>pc, <1>printed DEF Preview
  <2>2. \A d \in Proc \ {c} : Rests(d)
    BY <1>16, <1>pc, <1>target, <1>printed, <1>left, <1>outcome DEF Rests,
       Preview
  <2>3. \A d \in Proc \ {c} : CopiedAt(d, target[d])'
    BY <2>1, <2>2, KeepsCopied DEF Copied
  <2>4. CopiedAt(c, target[c])
    BY DEF Copied
  <2>5. CopiedAt(c, target[c])'
    BY <2>1, <2>4 DEF CopiedAt, Held
  <2> QED
    BY <2>3, <2>5 DEF Copied
<1>17. ASSUME NEW c \in Proc, DryRun(c) PROVE Copied'
  <2>1. /\ target'[c] = target[c] /\ printed'[c] = printed[c]
        /\ pc'[c] = "idle" /\ outcome'[c] = "dry-run"
        /\ UNCHANGED <<phase, receipt, shadow, placed>>
    BY <1>17, <1>pc, <1>outcome DEF DryRun, Leave
  <2>2. \A d \in Proc \ {c} : Rests(d)
    BY <1>17, <1>pc, <1>target, <1>printed, <1>left, <1>outcome DEF Rests,
       DryRun, Leave
  <2>3. \A d \in Proc \ {c} : CopiedAt(d, target[d])'
    BY <2>1, <2>2, KeepsCopied DEF Copied
  <2>4. CopiedAt(c, target[c])
    BY DEF Copied
  <2>5. CopiedAt(c, target[c])'
    BY <2>1, <2>4 DEF CopiedAt, Held
  <2> QED
    BY <2>3, <2>5 DEF Copied
<1>18. ASSUME NEW c \in Proc, Promote(c) PROVE Copied'
  <2>1. /\ target'[c] = target[c] /\ printed'[c] = printed[c]
        /\ pc[c] = "previewed"
        /\ \/ /\ dir[target[c]] /\ pc'[c] = "copying" /\ outcome'[c] = outcome[c]
              /\ left'[c] = Held(shadow[target[c]])
           \/ ~dir[target[c]] /\ pc'[c] = "idle" /\ outcome'[c] = "promoted"
        /\ UNCHANGED <<phase, receipt, shadow, placed>>
    BY <1>18, <1>pc, <1>outcome, <1>left DEF Promote, Leave
  <2>2. \A d \in Proc \ {c} : Rests(d)
    BY <1>18, <1>pc, <1>target, <1>printed, <1>left, <1>outcome DEF Rests,
       Promote, Leave
  <2>3. \A d \in Proc \ {c} : CopiedAt(d, target[d])'
    BY <2>1, <2>2, KeepsCopied DEF Copied
  <2>4. CopiedAt(c, target[c])
    BY DEF Copied
  <2>6. ~dir[target[c]] => Held(shadow[target[c]]) = {}
    BY <1>target DEF Provided, Held, Empty
  <2>5. CopiedAt(c, target[c])'
    BY <2>1, <2>4, <2>6 DEF CopiedAt, Held
  <2> QED
    BY <2>3, <2>5 DEF Copied
<1>19. ASSUME NEW c \in Proc, CopyFile(c) PROVE Copied'
  <2>0. PICK s \in Session : s = target[c]
    BY <1>target
  <2>1. PICK p \in left[c] :
          /\ pc[c] = "copying"
          /\ placed' = [placed EXCEPT ![s] = @ \cup {p}]
          /\ left' = [left EXCEPT ![c] = @ \ {p}]
          /\ UNCHANGED <<phase, receipt, shadow, pc, target, printed, outcome>>
    BY <1>19, <2>0 DEF CopyFile
  <2>2. /\ placed'[s] = placed[s] \cup {p} /\ left'[c] = left[c] \ {p}
        /\ \A r \in Session : placed[r] \subseteq placed'[r]
        /\ \A d \in Proc \ {c} : left'[d] = left[d]
    BY <2>1, <1>placed, <1>left
  <2>3. \A d \in Proc \ {c} : CopiedAt(d, target[d])'
    BY <2>1, <2>2, <1>target, KeepsCopied DEF Copied, Rests
  <2>4. CopiedAt(c, target[c])'
    BY <2>0, <2>1, <2>2 DEF Copied, CopiedAt, Held
  <2> QED
    BY <2>3, <2>4 DEF Copied
<1>20. ASSUME NEW c \in Proc, MissFile(c) PROVE Copied'
  <2>1. /\ target'[c] = target[c] /\ printed'[c] = printed[c]
        /\ pc'[c] = "idle" /\ outcome'[c] = "failed"
        /\ UNCHANGED <<phase, receipt, shadow, placed>>
    BY <1>20, <1>pc, <1>outcome DEF MissFile, Leave
  <2>2. \A d \in Proc \ {c} : Rests(d)
    BY <1>20, <1>pc, <1>target, <1>printed, <1>left, <1>outcome DEF Rests,
       MissFile, Leave
  <2>3. \A d \in Proc \ {c} : CopiedAt(d, target[d])'
    BY <2>1, <2>2, KeepsCopied DEF Copied
  <2>4. CopiedAt(c, target[c])
    BY DEF Copied
  <2>5. CopiedAt(c, target[c])'
    BY <2>1, <2>4 DEF CopiedAt, Held
  <2> QED
    BY <2>3, <2>5 DEF Copied
<1>21. ASSUME NEW c \in Proc, EndCopy(c) PROVE Copied'
  <2>1. /\ target'[c] = target[c] /\ printed'[c] = printed[c]
        /\ pc[c] = "copying" /\ pc'[c] = "removing" /\ left[c] = {}
        /\ outcome'[c] = outcome[c]
        /\ UNCHANGED <<phase, receipt, shadow, placed>>
    BY <1>21, <1>pc DEF EndCopy
  <2>2. \A d \in Proc \ {c} : Rests(d)
    BY <1>21, <1>pc, <1>target, <1>printed, <1>left, <1>outcome DEF Rests,
       EndCopy
  <2>3. \A d \in Proc \ {c} : CopiedAt(d, target[d])'
    BY <2>1, <2>2, KeepsCopied DEF Copied
  <2>4. CopiedAt(c, target[c])
    BY DEF Copied
  <2>5. CopiedAt(c, target[c])'
    BY <2>1, <2>4 DEF CopiedAt, Held
  <2> QED
    BY <2>3, <2>5 DEF Copied
<1>22. ASSUME NEW c \in Proc, RemoveFile(c) PROVE Copied'
  <2>0. PICK s \in Session : s = target[c]
    BY <1>target
  <2>1. UNCHANGED <<phase, receipt, placed, procVars>> /\ pc[c] = "removing"
    BY <1>22 DEF RemoveFile
  <2>2. /\ Held(shadow'[s]) \subseteq Held(shadow[s])
        /\ \A r \in Session \ {s} : shadow'[r] = shadow[r]
    BY <1>22, <2>0, <1>shadow DEF RemoveFile, Held
  <2>3. Held(shadow[s]) \subseteq placed[s]
    BY <2>0, <2>1 DEF Copied, CopiedAt
  <2>4. \A r \in Session : /\ Held(shadow'[r]) \subseteq Held(shadow[r])
                          /\ Held(shadow[r]) \subseteq Held(shadow'[r]) \cup placed'[r]
    BY <2>1, <2>2, <2>3
  <2> QED
    BY <2>1, <2>4, <1>target, KeepsCopied DEF Copied, Rests
<1>23. ASSUME NEW c \in Proc, EndRemove(c) PROVE Copied'
  <2>1. /\ target'[c] = target[c] /\ printed'[c] = printed[c]
        /\ pc[c] = "removing" /\ pc'[c] = "idle" /\ shadow[target[c]] = Empty
        /\ outcome'[c] = "promoted"
        /\ UNCHANGED <<phase, receipt, shadow, placed>>
    BY <1>23, <1>pc, <1>outcome DEF EndRemove, Leave
  <2>2. \A d \in Proc \ {c} : Rests(d)
    BY <1>23, <1>pc, <1>target, <1>printed, <1>left, <1>outcome DEF Rests,
       EndRemove, Leave
  <2>3. \A d \in Proc \ {c} : CopiedAt(d, target[d])'
    BY <2>1, <2>2, KeepsCopied DEF Copied
  <2>4. CopiedAt(c, target[c])
    BY DEF Copied
  <2>6. Held(shadow[target[c]]) = {}
    BY <2>1 DEF Held, Empty
  <2>5. CopiedAt(c, target[c])'
    BY <2>1, <2>4, <2>6 DEF CopiedAt, Held
  <2> QED
    BY <2>3, <2>5 DEF Copied
<1>24. ASSUME NEW c \in Proc, FailCommit(c) PROVE Copied'
  <2>1. /\ target'[c] = target[c] /\ printed'[c] = printed[c]
        /\ pc'[c] = "idle" /\ outcome'[c] = "failed"
        /\ UNCHANGED <<phase, receipt, shadow, placed>>
    BY <1>24, <1>pc, <1>outcome DEF FailCommit, Leave
  <2>2. \A d \in Proc \ {c} : Rests(d)
    BY <1>24, <1>pc, <1>target, <1>printed, <1>left, <1>outcome DEF Rests,
       FailCommit, Leave
  <2>3. \A d \in Proc \ {c} : CopiedAt(d, target[d])'
    BY <2>1, <2>2, KeepsCopied DEF Copied
  <2>4. CopiedAt(c, target[c])
    BY DEF Copied
  <2>5. CopiedAt(c, target[c])'
    BY <2>1, <2>4 DEF CopiedAt, Held
  <2> QED
    BY <2>3, <2>5 DEF Copied
<1>25. ASSUME NEW c \in Proc, NEW s \in Session, LoadReceipt(c, s) PROVE Copied'
  <2>1. /\ target'[c] = s /\ printed'[c] = {}
        /\ \/ receipt[s] /\ pc'[c] = "loaded" /\ outcome'[c] = "none"
           \/ pc'[c] = "idle" /\ outcome'[c] = "not found"
        /\ phase[s] \in Ended \cup {"rejected"}
        /\ UNCHANGED <<phase, receipt, shadow, placed>>
    BY <1>25, <1>pc, <1>outcome, <1>target, <1>printed DEF LoadReceipt, Leave
  <2>2. \A d \in Proc \ {c} : Rests(d)
    BY <1>25, <1>pc, <1>target, <1>printed, <1>left, <1>outcome DEF Rests,
       LoadReceipt, Leave
  <2>3. \A d \in Proc \ {c} : CopiedAt(d, target[d])'
    BY <2>1, <2>2, KeepsCopied DEF Copied
  <2>4. CopiedAt(c, target[c])
    BY DEF Copied
  <2>6. phase[s] = "rejected" => ~receipt[s]
    BY DEF Provided
  <2>5. CopiedAt(c, target[c])'
    BY <2>1, <2>4, <2>6 DEF CopiedAt, Held
  <2> QED
    BY <2>3, <2>5 DEF Copied
<1>26. CASE UNCHANGED vars
  BY <1>26, SessionKeepsCopied
<1> QED
  BY <1>1, <1>2, <1>3, <1>4, <1>5, <1>6, <1>7, <1>8, <1>9, <1>10, <1>11,
     <1>12, <1>13, <1>14, <1>15, <1>16, <1>17, <1>18, <1>19, <1>20, <1>21,
     <1>22, <1>23, <1>24, <1>25, <1>26 DEF Next, Progress, Commit

-----------------------------------------------------------------------------
(* The invariant.                                                          *)

\* It holds at first.
LEMMA InitInv == Init => Inv
<1> SUFFICES ASSUME Init PROVE Inv
  OBVIOUS
<1>1. TypeOK
  <2>1. Baselines \subseteq [Path -> Text \cup {Absent}] /\ MaxFaults \in Nat
    BY GatewayAssumption
  <2>2. ws \in [Path -> File \cup {Absent}] /\ faults \in 0 .. MaxFaults
    BY <2>1 DEF Init, File
  <2>3. Empty \in [Path -> File \cup {Absent}] /\ "fresh" \in Phases /\ NoJob \in JobType
    BY DEF Empty, Phases, JobType
  <2>4. target \in [Proc -> Session]
    BY DEF Init
  <2> QED
    BY <2>2, <2>3, <2>4 DEF Init, TypeOK
<1>2. Chosen /\ Provided
  BY DEF Init, Chosen, Provided
<1>3. Owned
  BY DEF Init, Owned, Empty
<1>4. Reported
  BY DEF Init, Reported, ReportedAt
<1>5. Copied
  BY DEF Init, Copied, CopiedAt
<1> QED
  BY <1>1, <1>2, <1>3, <1>4, <1>5 DEF Inv

\* Every step keeps it.
LEMMA InvStep == ASSUME Inv, [Next]_vars PROVE Inv'
  BY TypeStep, ChosenStep, ProvidedStep, OwnedStep, ReportedStep, CopiedStep
    DEF Inv

\* And so it holds always.
THEOREM InvHolds == Spec => []Inv
<1>1. Init => Inv
  BY InitInv
<1>2. Inv /\ [Next]_vars => Inv'
  BY InvStep
<1> QED
  BY <1>1, <1>2, PTL DEF Spec

\* The variables have their types, whatever the skills, the sessions, the
\* commit processes and the number of failures.
THEOREM TypesHold == Spec => []TypeOK
<1>1. Inv => TypeOK
  BY DEF Inv
<1> QED
  BY <1>1, InvHolds, PTL

\* An admission that fails leaves neither directory, files nor receipt.
THEOREM RejectionLeavesNothing == Spec => []RejectedLeavesNothing
<1>1. Inv => RejectedLeavesNothing
  BY DEF Inv, Provided, RejectedLeavesNothing
<1> QED
  BY <1>1, InvHolds, PTL

\* What a run reported is pending or copied, whatever the commits do, unless a
\* failing disk has taken the whole report.
THEOREM ReportsHold == Spec => []ReportedIsPending
<1>1. Inv => ReportedIsPending
  BY DEF Inv, Reported, ReportedAt, Wrote, ReportedIsPending
<1> QED
  BY <1>1, InvHolds, PTL

\* A reported promotion has copied all it printed.
THEOREM PromotionsHold == Spec => []PrintedIsPromoted
<1>1. Inv => PrintedIsPromoted
  BY DEF Inv, Copied, CopiedAt, PrintedIsPromoted
<1> QED
  BY <1>1, InvHolds, PTL

\* Only a commit that copies one of the files it has left changes the workspace.
LEMMA ChangeIsCopy ==
  ASSUME Inv, Next, ws' # ws
  PROVE  \E c \in Proc : \E q \in left[c] :
           /\ pc[c] = "copying" /\ left'[c] # left[c]
           /\ shadow[target[c]][q] # Absent
           /\ ws' = [ws EXCEPT ![q] = shadow[target[c]][q]]
<1>1. PICK c \in Proc : CopyFile(c)
  BY DEF Next, Start, StartVerify, StartRun, StartCall, Begin, Progress, Commit,
     Reject, Provision, WriteReceipt, Gate, ReadStep, WriteStep, SubstituteStep,
     Finish, FailReceipt, FailStep, Die, BeginShutdown, EndShutdown, KillServer,
     Preview, DryRun, Promote, MissFile, EndCopy, RemoveFile, EndRemove,
     FailCommit, LoadReceipt
<1>2. PICK q \in left[c] :
        /\ pc[c] = "copying" /\ shadow[target[c]][q] # Absent
        /\ ws' = [ws EXCEPT ![q] = shadow[target[c]][q]]
        /\ left' = [left EXCEPT ![c] = @ \ {q}]
  BY <1>1 DEF CopyFile
<1>3. left \in [Proc -> SUBSET Path]
  BY DEF Inv, TypeOK
<1>4. left'[c] = left[c] \ {q}
  BY <1>2, <1>3
<1> QED
  BY <1>2, <1>4

\* Whoever changes the workspace is a commit whose own session has a receipt
\* and a job the operator consented to.
THEOREM ChangesAreConsented == Spec => OnlyConsentedChanges
<1> DEFINE Change == ws' # ws =>
      \E c \in Proc : /\ left'[c] # left[c]
                     /\ receipt[target[c]] /\ Consented(job[target[c]])
<1>1. Inv /\ Next => Change
  <2> SUFFICES ASSUME Inv, Next, ws' # ws
               PROVE  \E c \in Proc : /\ left'[c] # left[c]
                                      /\ receipt[target[c]] /\ Consented(job[target[c]])
    OBVIOUS
  <2>0. PICK c \in Proc : \E q \in left[c] :
          /\ pc[c] = "copying" /\ left'[c] # left[c]
          /\ shadow[target[c]][q] # Absent
    BY ChangeIsCopy
  <2>1. PICK q \in left[c] :
          /\ pc[c] = "copying" /\ left'[c] # left[c]
          /\ shadow[target[c]][q] # Absent
    BY <2>0
  <2>2. target[c] \in Session /\ q \in Path
    BY <2>1 DEF Inv, TypeOK
  <2>3. receipt[target[c]]
    BY <2>1 DEF Inv, Copied, CopiedAt
  <2>4. Consented(job[target[c]])
    BY <2>1, <2>2 DEF Inv, Owned, WrittenBy
  <2> QED
    BY <2>1, <2>3, <2>4
<1>2. Inv /\ [Next]_vars => [Change]_vars
  BY <1>1
<1> QED
  BY <1>2, InvHolds, PTL DEF Spec, OnlyConsentedChanges

\* What is put into the workspace its commit has printed, and a step of that
\* commit's own session wrote it, whatever the other sessions do.
THEOREM CopiesAreShownAndOwn == Spec => ShownAndOwn
<1> DEFINE Change == \A p \in Path : ws'[p] # ws[p] =>
      \E c \in Proc :
        /\ left'[c] # left[c] /\ p \in printed[c]
        /\ \E i \in 1..Len(Steps(target[c])) :
             LET step == Steps(target[c])[i]
             IN /\ i <= next[target[c]] /\ step.kind = "write" /\ step.path = p
                /\ ws'[p] \in {step.text, Torn}
<1>1. Inv /\ Next => Change
  <2> SUFFICES ASSUME Inv, Next, NEW p \in Path, ws'[p] # ws[p]
               PROVE  \E c \in Proc :
                        /\ left'[c] # left[c] /\ p \in printed[c]
                        /\ WrittenBy(target[c], p, ws'[p])
    BY DEF WrittenBy
  <2>0. PICK c \in Proc : \E q \in left[c] :
          /\ pc[c] = "copying" /\ left'[c] # left[c]
          /\ shadow[target[c]][q] # Absent
          /\ ws' = [ws EXCEPT ![q] = shadow[target[c]][q]]
    BY ChangeIsCopy
  <2>1. PICK q \in left[c] :
          /\ pc[c] = "copying" /\ left'[c] # left[c]
          /\ shadow[target[c]][q] # Absent
          /\ ws' = [ws EXCEPT ![q] = shadow[target[c]][q]]
    BY <2>0
  <2>2. ws \in [Path -> File \cup {Absent}] /\ target[c] \in Session
    BY DEF Inv, TypeOK
  <2>3. p = q /\ ws'[p] = shadow[target[c]][p]
    BY <2>1, <2>2
  <2>4. p \in printed[c]
    BY <2>1, <2>3 DEF Inv, Copied, CopiedAt
  <2>5. WrittenBy(target[c], p, shadow[target[c]][p])
    BY <2>1, <2>2, <2>3 DEF Inv, Owned
  <2> QED
    BY <2>1, <2>3, <2>4, <2>5
<1>2. Inv /\ [Next]_vars => [Change]_vars
  BY <1>1
<1> QED
  BY <1>2, InvHolds, PTL DEF Spec, ShownAndOwn
=============================================================================
