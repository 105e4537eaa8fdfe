------------------------------- MODULE Gateway -------------------------------
(***************************************************************************)
(* A session from `loom verify`, `loom run` or an MCP tools/call to its    *)
(* promotion: CompileAndSetup (internal/engine/compiler.go) admits a skill *)
(* and leaves a shadow directory and a receipt, Execute                    *)
(* (internal/engine/executor.go) gates drafts and runs the steps into the  *)
(* shadow, and `loom commit` (cmd/main.go, internal/engine/commit_gate.go) *)
(* previews and promotes what it finds under the session id.  The MCP      *)
(* server (cmd/serve.go) runs calls concurrently and drains them when it   *)
(* is told to stop.                                                        *)
(*                                                                         *)
(* Paths are flat here and a promotion copies file by file; module         *)
(* ShadowVFS has the trees, tombstones and temp files of the same code.    *)
(*                                                                         *)
(* Variables gated and placed are history: only properties read them.      *)
(***************************************************************************)
EXTENDS Naturals, Sequences, FiniteSets

CONSTANTS
  Session,    \* session ids (fresh and random: newSessionID)
  Proc,       \* `loom commit` processes
  Path, Text, \* what skills read and write
  Torn,       \* the bytes an interrupted os.WriteFile leaves
  Absent,     \* no file
  Skill,      \* records: v1, valid, prov, steps (see SkillType)
  Input,      \* the caller's inputs: a subset of {"full", "partial", "bad"}
  Flag,       \* --draft-policy values: a subset of Policy \cup {"", "bogus"}
  Env,        \* the values LOOM_DRAFT_POLICY may have
  Baselines,  \* what the workspace may hold at first
  MaxFaults   \* bound: failed calls, deaths, drain timeouts

Policy == {"refuse", "warn", "allow"}
Command == {"verify", "run", "call"}
File == Text \cup {Torn}

\* A typed step: its path, the text it writes, and whether its args refer to a
\* parameter that is optional and has no default.
Step == [kind : {"read", "write"}, path : Path, text : Text, optional : BOOLEAN]

\* valid: ValidateSkill passes.  prov: no _provenance block, an unreviewed
\* draft, a review whose signature matches the body, one whose does not, a stub.
SkillType ==
  [v1 : BOOLEAN, valid : BOOLEAN,
   prov : {"none", "draft", "reviewed", "mismatch", "stub"}, steps : Seq(Step)]

ASSUME GatewayAssumption ==
  /\ Torn \notin Text /\ Absent \notin File
  /\ Skill \subseteq SkillType
  /\ Input \subseteq {"full", "partial", "bad"}
  /\ Flag \subseteq Policy \cup {"", "bogus"}
  /\ Env \subseteq Policy \cup {"", "bogus"}
  /\ Baselines \subseteq [Path -> Text \cup {Absent}]
  /\ MaxFaults \in Nat

VARIABLES
  ws,        \* the real workspace
  env,       \* LOOM_DRAFT_POLICY
  phase,     \* phase[s]: how far the session got
  job,       \* job[s]: the command, the skill, the inputs, the policy
  next,      \* next[s]: the step to execute
  dir,       \* dir[s]: ~/.loom/shadow/<s> exists
  shadow,    \* shadow[s]: its files
  receipt,   \* receipt[s]: ~/.loom/cache/<s>/receipt.json exists
  manifest,  \* manifest[s]: the paths the run reported
  server,    \* "up", "draining", "stopped", "killed"
  pc,        \* pc[c]: where commit process c is
  target,    \* target[c]: the session c was given
  printed,   \* printed[c]: the paths c has previewed
  left,      \* left[c]: shadow files c has yet to copy
  outcome,   \* outcome[c]: what c told the operator
  faults,    \* faults injected so far
  gated,     \* gated[s]: enforceDraftPolicy let the session pass
  placed     \* placed[s]: paths whose change of s some commit has copied

sessVars == <<phase, job, next, dir, shadow, receipt, manifest, gated>>
procVars == <<pc, target, printed, left, outcome>>
vars == <<ws, env, sessVars, server, procVars, faults, placed>>

Ended == {"verified", "done", "refused", "aborted", "dead"}
Busy == {"compiling", "provisioned", "admitted", "running"}
Empty == [p \in Path |-> Absent]
Held(t) == {p \in Path : t[p] # Absent}
NoJob == [cmd |-> "none"]

-----------------------------------------------------------------------------
Init ==
  /\ ws \in Baselines
  /\ env \in Env
  /\ phase = [s \in Session |-> "fresh"]
  /\ job = [s \in Session |-> NoJob]
  /\ next = [s \in Session |-> 1]
  /\ dir = [s \in Session |-> FALSE]
  /\ shadow = [s \in Session |-> Empty]
  /\ receipt = [s \in Session |-> FALSE]
  /\ manifest = [s \in Session |-> {}]
  /\ server = "up"
  /\ pc = [c \in Proc |-> "idle"]
  /\ target \in {[c \in Proc |-> s] : s \in Session}
  /\ printed = [c \in Proc |-> {}]
  /\ left = [c \in Proc |-> {}]
  /\ outcome = [c \in Proc |-> "none"]
  /\ faults = 0
  /\ gated = [s \in Session |-> FALSE]
  /\ placed = [s \in Session |-> {}]

Goto(s, l) == phase' = [phase EXCEPT ![s] = l]

Faulty == faults < MaxFaults /\ faults' = faults + 1

-----------------------------------------------------------------------------
(* Starting a session.                                                     *)

\* Variant: nothing set is passed on as it is.
resolveDraftPolicyNoDefault(flag, accept) ==
  LET value == IF flag # "" THEN flag ELSE env
  IN IF accept THEN "allow" ELSE value

\* --accept-draft, then --draft-policy, then LOOM_DRAFT_POLICY, then refuse.
resolveDraftPolicy(flag, accept) ==
  LET value == IF flag # "" THEN flag ELSE env
  IN IF accept THEN "allow" ELSE IF value = "" THEN "refuse" ELSE value

Begin(s, j) ==
  /\ job' = [job EXCEPT ![s] = j]
  /\ UNCHANGED <<ws, env, next, dir, shadow, receipt, manifest, gated, server,
                 procVars, faults, placed>>

\* Verification makes up an input for every parameter; a default it takes may
\* be refused.
StartVerify(s) == \E k \in Skill, i \in Input \ {"partial"} :
  /\ Begin(s, [cmd |-> "verify", skill |-> k, input |-> i, policy |-> "refuse"])
  /\ Goto(s, "compiling")

\* `loom run` checks the schema version and the policy before it draws an id.
StartRun(s) == \E k \in Skill, i \in Input, f \in Flag, a \in BOOLEAN :
  LET p == resolveDraftPolicy(f, a)
  IN /\ Begin(s, [cmd |-> "run", skill |-> k, input |-> i, policy |-> p])
     /\ Goto(s, IF k.v1 /\ p \in Policy THEN "compiling" ELSE "rejected")

\* handleToolCall builds the executor with the zero policy, which refuses.
StartCall(s) == \E k \in Skill, i \in Input :
  /\ server = "up"
  /\ Begin(s, [cmd |-> "call", skill |-> k, input |-> i, policy |-> "refuse"])
  /\ Goto(s, "compiling")

-----------------------------------------------------------------------------
(* CompileAndSetup.                                                        *)

Admissible(j) == j.skill.valid /\ j.input # "bad"

\* ValidateSkill or SanitizeInput refuses before anything exists.
Reject(s) ==
  /\ phase[s] = "compiling" /\ ~Admissible(job[s])
  /\ Goto(s, "rejected")
  /\ UNCHANGED <<ws, env, job, next, dir, shadow, receipt, manifest, gated,
                 server, procVars, faults, placed>>

\* RemoveAll and MkdirAll of the shadow root.
Provision(s) ==
  /\ phase[s] = "compiling" /\ Admissible(job[s])
  /\ dir' = [dir EXCEPT ![s] = TRUE]
  /\ shadow' = [shadow EXCEPT ![s] = Empty]
  /\ Goto(s, "provisioned")
  /\ UNCHANGED <<ws, env, job, next, receipt, manifest, gated, server, procVars,
                 faults, placed>>

\* writeReceipt; verify ends here, the others go on to Execute.
WriteReceipt(s) ==
  /\ phase[s] = "provisioned"
  /\ receipt' = [receipt EXCEPT ![s] = TRUE]
  /\ Goto(s, IF job[s].cmd = "verify" THEN "verified" ELSE "admitted")
  /\ UNCHANGED <<ws, env, job, next, dir, shadow, manifest, gated, server,
                 procVars, faults, placed>>

\* Variant: the deferred RemoveAll is not armed.
FailReceiptKeepsShadow(s) ==
  /\ phase[s] = "provisioned" /\ Faulty
  /\ Goto(s, "rejected")
  /\ UNCHANGED <<ws, env, job, next, dir, shadow, receipt, manifest, gated,
                 server, procVars, placed>>

\* The receipt cannot be written: the deferred RemoveAll takes the shadow away.
FailReceipt(s) ==
  /\ phase[s] = "provisioned" /\ Faulty
  /\ dir' = [dir EXCEPT ![s] = FALSE]
  /\ shadow' = [shadow EXCEPT ![s] = Empty]
  /\ Goto(s, "rejected")
  /\ UNCHANGED <<ws, env, job, next, receipt, manifest, gated, server, procVars,
                 placed>>

-----------------------------------------------------------------------------
(* Execute.                                                                *)

\* Variant: the mode is looked at only when the review is missing.
enforceDraftPolicyStubLast(j) ==
  \/ j.skill.prov \in {"none", "reviewed"}
  \/ j.skill.prov \in {"draft", "stub"} /\ j.policy # "refuse"

\* Stubs never pass, a review whose signature does not match is refused under
\* every policy, and unreviewed drafts obey the policy.
enforceDraftPolicy(j) ==
  \/ j.skill.prov \in {"none", "reviewed"}
  \/ j.skill.prov = "draft" /\ j.policy # "refuse"

Gate(s) ==
  LET pass == job[s].skill.v1 /\ enforceDraftPolicy(job[s])
  IN /\ phase[s] = "admitted"
     /\ gated' = [gated EXCEPT ![s] = pass]
     /\ Goto(s, IF pass THEN "running" ELSE "refused")
     /\ UNCHANGED <<ws, env, job, next, dir, shadow, receipt, manifest, server,
                    procVars, faults, placed>>

Steps(s) == job[s].skill.steps
Current(s) == Steps(s)[next[s]]
Ready(s) == phase[s] = "running" /\ next[s] <= Len(Steps(s))

\* An optional parameter the caller left out is missing from the sanitized
\* inputs, and its reference is an UnknownVariableError.
Unbound(s, step) == step.optional /\ job[s].input = "partial"

\* ResolveReadPath: the shadow before the workspace.
Readable(s, p) == shadow[s][p] # Absent \/ ws[p] # Absent

\* The manifest lists what the shadow holds.  When Manifest() fails its error
\* is dropped, and the run reports no changes.  Before that, so many calls had
\* failed.
safeManifest(s, failed) ==
  \/ /\ manifest' = [manifest EXCEPT ![s] = Held(shadow'[s])]
     /\ faults' = failed
  \/ /\ manifest' = [manifest EXCEPT ![s] = {}]
     /\ failed < MaxFaults /\ faults' = failed + 1

\* Any step error ends the run.
Abort(s, failed) == Goto(s, "aborted") /\ safeManifest(s, failed)

Advance(s) ==
  /\ next' = [next EXCEPT ![s] = @ + 1]
  /\ UNCHANGED <<phase, manifest, faults>>

\* Variant: a missing file is waited for.
ReadStepWaits(s) ==
  /\ Ready(s) /\ Current(s).kind = "read" /\ ~Unbound(s, Current(s))
  /\ Readable(s, Current(s).path)
  /\ UNCHANGED shadow
  /\ Advance(s)
  /\ UNCHANGED <<ws, env, job, dir, receipt, gated, server, procVars, placed>>

ReadStep(s) ==
  /\ Ready(s) /\ Current(s).kind = "read" /\ ~Unbound(s, Current(s))
  /\ UNCHANGED shadow
  /\ IF Readable(s, Current(s).path)
       THEN Advance(s)
       ELSE Abort(s, faults) /\ UNCHANGED next
  /\ UNCHANGED <<ws, env, job, dir, receipt, gated, server, procVars, placed>>

WriteStep(s) ==
  /\ Ready(s) /\ Current(s).kind = "write" /\ ~Unbound(s, Current(s))
  /\ shadow' = [shadow EXCEPT ![s][Current(s).path] = Current(s).text]
  /\ Advance(s)
  /\ UNCHANGED <<ws, env, job, dir, receipt, gated, server, procVars, placed>>

\* substituteInputs fails in the middle of the run.
SubstituteStep(s) ==
  /\ Ready(s) /\ Unbound(s, Current(s))
  /\ UNCHANGED shadow
  /\ Abort(s, faults)
  /\ UNCHANGED <<ws, env, job, next, dir, receipt, gated, server, procVars, placed>>

\* Variant: the manifest of a failed run is the one before the failing step.
FailStepReportsBefore(s) ==
  /\ Ready(s) /\ ~Unbound(s, Current(s)) /\ Faulty
  /\ \/ UNCHANGED shadow
     \/ /\ Current(s).kind = "write"
        /\ shadow' = [shadow EXCEPT ![s][Current(s).path] = Torn]
  /\ Goto(s, "aborted")
  /\ manifest' = [manifest EXCEPT ![s] = Held(shadow[s])]
  /\ UNCHANGED <<ws, env, job, next, dir, receipt, gated, server, procVars, placed>>

\* The disk fails a step; a write may leave part of its text.
FailStep(s) ==
  /\ Ready(s) /\ ~Unbound(s, Current(s)) /\ faults < MaxFaults
  /\ \/ UNCHANGED shadow
     \/ /\ Current(s).kind = "write"
        /\ shadow' = [shadow EXCEPT ![s][Current(s).path] = Torn]
  /\ Abort(s, faults + 1)
  /\ UNCHANGED <<ws, env, job, next, dir, receipt, gated, server, procVars, placed>>

Finish(s) ==
  /\ phase[s] = "running" /\ next[s] > Len(Steps(s))
  /\ UNCHANGED shadow
  /\ Goto(s, "done") /\ safeManifest(s, faults)
  /\ UNCHANGED <<ws, env, job, next, dir, receipt, gated, server, procVars, placed>>

\* The command is interrupted; deferred calls do not run.
Die(s) ==
  /\ phase[s] \in Busy /\ job[s].cmd # "call" /\ Faulty
  /\ Goto(s, "dead")
  /\ UNCHANGED <<ws, env, job, next, dir, shadow, receipt, manifest, gated,
                 server, procVars, placed>>

-----------------------------------------------------------------------------
(* The server.                                                             *)

Calls == {s \in Session : phase[s] \in Busy /\ job[s].cmd = "call"}

\* SIGINT or SIGTERM: the listener closes and Shutdown waits.
BeginShutdown ==
  /\ server = "up"
  /\ server' = "draining"
  /\ UNCHANGED <<ws, env, sessVars, procVars, faults, placed>>

\* Variant: Close instead of Shutdown.
EndShutdownNow ==
  /\ server = "draining"
  /\ server' = "stopped"
  /\ phase' = [s \in Session |-> IF s \in Calls THEN "dead" ELSE phase[s]]
  /\ UNCHANGED <<ws, env, job, next, dir, shadow, receipt, manifest, gated,
                 procVars, faults, placed>>

\* Every call has been answered.
EndShutdown ==
  /\ server = "draining" /\ Calls = {}
  /\ server' = "stopped"
  /\ UNCHANGED <<ws, env, sessVars, procVars, faults, placed>>

\* The five seconds are over, or the process dies: the handlers die with it.
KillServer ==
  /\ server \in {"up", "draining"} /\ Faulty
  /\ server' = "killed"
  /\ phase' = [s \in Session |-> IF s \in Calls THEN "dead" ELSE phase[s]]
  /\ UNCHANGED <<ws, env, job, next, dir, shadow, receipt, manifest, gated,
                 procVars, placed>>

-----------------------------------------------------------------------------
(* `loom commit`.                                                          *)

Leave(c, what) ==
  /\ pc' = [pc EXCEPT ![c] = "idle"]
  /\ outcome' = [outcome EXCEPT ![c] = what]

\* The operator has the id of a session that is over: both `loom run` and
\* tools/call tell it when they end.
LoadReceipt(c, s) ==
  /\ pc[c] = "idle" /\ phase[s] \in Ended \cup {"rejected"}
  /\ target' = [target EXCEPT ![c] = s]
  /\ printed' = [printed EXCEPT ![c] = {}]
  /\ IF receipt[s]
       THEN /\ pc' = [pc EXCEPT ![c] = "loaded"]
            /\ outcome' = [outcome EXCEPT ![c] = "none"]
       ELSE Leave(c, "not found")
  /\ UNCHANGED <<ws, env, sessVars, server, left, faults, placed>>

\* Variant: what the run reported is printed.
PreviewReported(c) ==
  /\ pc[c] = "loaded"
  /\ printed' = [printed EXCEPT ![c] = manifest[target[c]]]
  /\ pc' = [pc EXCEPT ![c] = "previewed"]
  /\ UNCHANGED <<ws, env, sessVars, server, target, left, outcome, faults, placed>>

\* The manifest of the shadow, empty when the directory is gone.
Preview(c) ==
  /\ pc[c] = "loaded"
  /\ printed' = [printed EXCEPT ![c] = Held(shadow[target[c]])]
  /\ pc' = [pc EXCEPT ![c] = "previewed"]
  /\ UNCHANGED <<ws, env, sessVars, server, target, left, outcome, faults, placed>>

\* Without --yes.
DryRun(c) ==
  /\ pc[c] = "previewed"
  /\ Leave(c, "dry-run")
  /\ UNCHANGED <<ws, env, sessVars, server, target, printed, left, faults, placed>>

\* Promote returns at once, successfully, when the shadow is gone.
Promote(c) ==
  /\ pc[c] = "previewed"
  /\ IF dir[target[c]]
       THEN /\ pc' = [pc EXCEPT ![c] = "copying"]
            /\ left' = [left EXCEPT ![c] = Held(shadow[target[c]])]
            /\ UNCHANGED outcome
       ELSE Leave(c, "promoted") /\ UNCHANGED left
  /\ UNCHANGED <<ws, env, sessVars, server, target, printed, faults, placed>>

CopyFile(c) == \E p \in left[c] :
  LET s == target[c]
  IN /\ pc[c] = "copying" /\ shadow[s][p] # Absent
     /\ ws' = [ws EXCEPT ![p] = shadow[s][p]]
     /\ placed' = [placed EXCEPT ![s] = @ \cup {p}]
     /\ left' = [left EXCEPT ![c] = @ \ {p}]
     /\ UNCHANGED <<env, sessVars, server, pc, target, printed, outcome, faults>>

\* Another commit of the session has removed the shadow file.
MissFile(c) == \E p \in left[c] :
  /\ pc[c] = "copying" /\ shadow[target[c]][p] = Absent
  /\ Leave(c, "failed")
  /\ UNCHANGED <<ws, env, sessVars, server, target, printed, left, faults, placed>>

\* Variant: the shadow is removed however the walk ended.
EndCopyAnyhow(c) ==
  /\ pc[c] = "copying"
  /\ pc' = [pc EXCEPT ![c] = "removing"]
  /\ UNCHANGED <<ws, env, sessVars, server, target, printed, left, outcome, faults, placed>>

EndCopy(c) ==
  /\ pc[c] = "copying" /\ left[c] = {}
  /\ pc' = [pc EXCEPT ![c] = "removing"]
  /\ UNCHANGED <<ws, env, sessVars, server, target, printed, left, outcome, faults, placed>>

RemoveFile(c) == \E p \in Path :
  LET s == target[c]
  IN /\ pc[c] = "removing" /\ shadow[s][p] # Absent
     /\ shadow' = [shadow EXCEPT ![s][p] = Absent]
     /\ UNCHANGED <<ws, env, phase, job, next, dir, receipt, manifest, gated,
                    server, procVars, faults, placed>>

EndRemove(c) ==
  LET s == target[c]
  IN /\ pc[c] = "removing" /\ shadow[s] = Empty
     /\ dir' = [dir EXCEPT ![s] = FALSE]
     /\ Leave(c, "promoted")
     /\ UNCHANGED <<ws, env, phase, job, next, shadow, receipt, manifest, gated,
                    server, target, printed, left, faults, placed>>

\* A call fails or the process dies.
FailCommit(c) ==
  /\ pc[c] # "idle" /\ Faulty
  /\ Leave(c, "failed")
  /\ UNCHANGED <<ws, env, sessVars, server, target, printed, left, placed>>

-----------------------------------------------------------------------------
Start(s) == phase[s] = "fresh" /\ (StartVerify(s) \/ StartRun(s) \/ StartCall(s))

Progress(s) ==
  \/ Reject(s) \/ Provision(s) \/ WriteReceipt(s) \/ Gate(s)
  \/ ReadStep(s) \/ WriteStep(s) \/ SubstituteStep(s) \/ Finish(s)

Commit(c) ==
  \/ Preview(c) \/ DryRun(c) \/ Promote(c) \/ CopyFile(c) \/ MissFile(c)
  \/ EndCopy(c) \/ RemoveFile(c) \/ EndRemove(c) \/ FailCommit(c)

Next ==
  \/ \E s \in Session : \/ Start(s) \/ Progress(s)
                        \/ FailReceipt(s) \/ FailStep(s) \/ Die(s)
  \/ BeginShutdown \/ EndShutdown \/ KillServer
  \/ \E c \in Proc : Commit(c) \/ \E s \in Session : LoadReceipt(c, s)

Spec == Init /\ [][Next]_vars

\* A run, or a handler's goroutine, goes on until it returns, and Shutdown
\* polls until the connections are idle.  Operators need not commit.
FairSpec ==
  /\ Spec
  /\ \A s \in Session : WF_vars(Progress(s))
  /\ WF_vars(EndShutdown)

-----------------------------------------------------------------------------
(* What must hold.                                                         *)

Phases == Busy \cup Ended \cup {"fresh", "rejected"}

JobType ==
  {NoJob} \cup [cmd : Command, skill : Skill, input : {"full", "partial", "bad"},
                policy : Policy \cup {"bogus"}]

\* The variables have their types.
TypeOK ==
  /\ ws \in [Path -> File \cup {Absent}]
  /\ env \in Env
  /\ phase \in [Session -> Phases]
  /\ job \in [Session -> JobType]
  /\ next \in [Session -> Nat \ {0}]
  /\ dir \in [Session -> BOOLEAN]
  /\ shadow \in [Session -> [Path -> File \cup {Absent}]]
  /\ receipt \in [Session -> BOOLEAN]
  /\ manifest \in [Session -> SUBSET Path]
  /\ server \in {"up", "draining", "stopped", "killed"}
  /\ pc \in [Proc -> {"idle", "loaded", "previewed", "copying", "removing"}]
  /\ target \in [Proc -> Session]
  /\ printed \in [Proc -> SUBSET Path]
  /\ left \in [Proc -> SUBSET Path]
  /\ outcome \in [Proc -> {"none", "not found", "dry-run", "promoted", "failed"}]
  /\ faults \in 0..MaxFaults
  /\ gated \in [Session -> BOOLEAN]
  /\ placed \in [Session -> SUBSET Path]

\* The job is one the operator agreed to run: a valid v1 skill that is no stub
\* and carries no forged review, and a draft only where --accept-draft,
\* --draft-policy or LOOM_DRAFT_POLICY said so.
Consented(j) ==
  /\ j.skill.v1 /\ j.skill.valid /\ j.input # "bad"
  /\ j.skill.prov \in {"none", "reviewed", "draft"}
  /\ j.skill.prov = "draft" => j.cmd = "run" /\ j.policy \in {"warn", "allow"}

\* Every change of the workspace is made by a commit whose own session is of a
\* job the operator agreed to, though receipts of verified and refused sessions
\* can be committed too (CompileAndSetup, enforceDraftPolicy, Promote).
OnlyConsentedChanges ==
  [][ws' # ws =>
       \E c \in Proc : /\ left'[c] # left[c]
                      /\ receipt[target[c]] /\ Consented(job[target[c]])]_vars

\* What a commit puts into the workspace the operator has been shown, and it is
\* what a step of the session he named has written there, whatever other
\* sessions have under the same path and however a run's own report came out
\* (Preview, Promote).
ShownAndOwn ==
  [][\A p \in Path : ws'[p] # ws[p] =>
       \E c \in Proc :
         /\ left'[c] # left[c] /\ p \in printed[c]
         /\ \E i \in 1..Len(Steps(target[c])) :
              LET step == Steps(target[c])[i]
              IN /\ i <= next[target[c]] /\ step.kind = "write" /\ step.path = p
                 /\ ws'[p] \in {step.text, Torn}]_vars

\* An admission that fails, at whatever point, leaves neither a shadow
\* directory nor a receipt behind (the deferred RemoveAll of CompileAndSetup).
RejectedLeavesNothing ==
  \A s \in Session : phase[s] = "rejected" =>
    ~dir[s] /\ ~receipt[s] /\ shadow[s] = Empty

\* What a finished or aborted run reported is what is pending under its id, or
\* has been copied since: retried, competing and failed commits forget nothing
\* it listed and add nothing it did not.  Only a failing disk can take the
\* list away, and then the whole of it (safeManifest, Preview, Promote).
ReportedIsPending ==
  \A s \in Session : phase[s] \in {"done", "aborted"} =>
    \/ /\ Held(shadow[s]) \subseteq manifest[s]
       /\ manifest[s] \subseteq Held(shadow[s]) \cup placed[s]
       /\ \A i \in 1..(next[s] - 1) :
            Steps(s)[i].kind = "write" => Steps(s)[i].path \in manifest[s]
    \/ manifest[s] = {} /\ faults > 0

\* When `loom commit` reports a promotion, every change it had printed has
\* reached the workspace, by its own hands or those of a concurrent commit.
PrintedIsPromoted ==
  \A c \in Proc : outcome[c] = "promoted" => printed[c] \subseteq placed[target[c]]

\* Every accepted run and call comes to an end.
RunsEnd == \A s \in Session : phase[s] \in Busy ~> phase[s] \notin Busy

\* A server that is told to stop stops, and when it does so by itself every
\* call it accepted was answered (runServe: Shutdown, then the goroutine's end).
ShutdownEnds ==
  /\ server = "draining" ~> server \in {"stopped", "killed"}
  /\ [][server' = "stopped" /\ server # "stopped" =>
          \A s \in Session : job[s].cmd = "call" => phase'[s] # "dead"]_vars

-----------------------------------------------------------------------------
(* What the comments say and the code does not do.                         *)

\* "the commit gate ... refuses to promote after an abort" (executor.go:52-53).
AbortNeverPromoted ==
  \A s \in Session : phase[s] = "aborted" => placed[s] = {}

\* "a substitution error aborts the run before the shadow is touched"
\* (executor.go:108).
SubstitutionFailsClean ==
  \A s \in Session :
    phase[s] = "aborted" /\ next[s] <= Len(Steps(s)) /\ Unbound(s, Current(s)) =>
      manifest[s] = {}
=============================================================================
