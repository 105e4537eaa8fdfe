------------------------------ MODULE Admission ------------------------------
(***************************************************************************)
(* One session with its data: from a skill file and a caller's inputs to   *)
(* the receipt and the files in the shadow.  `loom verify` and `loom run`  *)
(* (cmd/main.go) name a file, tools/call (cmd/serve.go) a tool;            *)
(* CompileAndSetup (internal/engine/compiler.go) and Execute               *)
(* (internal/engine/executor.go) are the same for all three.               *)
(*                                                                         *)
(* Gateway has the same session without its data but with everything that  *)
(* happens around it.  Here the texts are real and nothing interferes: a   *)
(* call of the file system fails only where a file or a directory is in    *)
(* the way, and the manifest can always be read.  The mapping at the end   *)
(* shows that this is a session of Gateway's.                              *)
(*                                                                         *)
(* Variables why and job are history: only properties and the mapping read *)
(* them.                                                                   *)
(***************************************************************************)
EXTENDS Contract, OpenClaw, Fingerprint

CONSTANTS
  Case,     \* what sessions may start from: see CaseType
  Home,     \* the location of the operator's home
  Session,  \* the session id, as an element of a path
  Torn, Absent

VARIABLES
  case,      \* the command, its arguments and the files it finds
  phase,     \* how far the session got
  parsed,    \* the skill
  sanitized, \* the inputs
  dir,       \* the shadow directory exists
  receipt,   \* what the receipt says
  next,      \* the step to execute
  shadow,    \* the files of the shadow: a function from locations to texts
  manifest,  \* the locations the run reported
  why,       \* what refused the session
  job        \* the session as Gateway sees it

vars == <<case, phase, parsed, sanitized, dir, receipt, next, shadow, manifest, why, job>>

NoSkill == [version |-> "none"]
NoReceipt == [hash |-> <<>>]

-----------------------------------------------------------------------------
(* What a session starts from.  A text is made of tokens whose bytes are   *)
(* known; documents hold texts where the code has strings, and so do the   *)
(* arguments of a caller.                                                  *)

Text == Seq(DOMAIN Byte)
MapOfTexts(m) ==
  IsFiniteSet(DOMAIN m) /\ DOMAIN m \subseteq Text /\ m \in [DOMAIN m -> Text]

ParameterRecord == [type : DOMAIN Byte, default : Text, required : BOOLEAN]
CapabilityRecord == [kind : DOMAIN Byte, scope : Text]

\* A read has no content, and a legacy step no path but an action.
StepType(s) ==
  /\ s \in [id : Text, kind : DOMAIN Byte, path : Text, content : Text,
            inputs : {s.inputs}, outputs : Seq(Text)]
  /\ MapOfTexts(s.inputs)
  /\ s.kind = "read_file" => s.content = <<>>
  /\ s.kind = "legacy" => s.path = <<>>

SkillType(k) ==
  /\ k.id \in Text
  /\ IsFiniteSet(DOMAIN k.params) /\ DOMAIN k.params \subseteq Text
  /\ k.params \in [DOMAIN k.params -> ParameterRecord]
  /\ k.steps \in Seq({s \in Range(k.steps) : StepType(s)})
  /\ k.caps \in Seq(CapabilityRecord)

LineType(l) ==
  /\ l.kind = "param" => l.name \in Text /\ l.default \in Text /\ l.required \in BOOLEAN
  /\ l.kind = "perm" => l.scopes \in Seq(Text)
  /\ l.kind = "instr" => l.text \in Text /\ l.num \in DOMAIN Byte

DocumentType(d) ==
  /\ d.format = "json" => SkillType(d.skill)
  /\ d.format = "lines" => d.lines \in Seq({l \in Range(d.lines) : LineType(l)})

\* What an absolute path is, cleaned and without its root.
Absolute(p) ==
  p \in Seq({e \in Range(p) : e \in Text /\ e \notin NotIn \cup {Up} /\ Slash \notin ToSet(e)})

\* A JSON value: numbers, Booleans and the rest keep their spelling.
Argument == [json : {"string", "number", "boolean", "null", "other"}, text : Text]

\* cmd, lib, ask, suffix   the command, the skill files, and the one it names
\* flags, args, policy     --input of a run, arguments of a call, the resolved policy
\* cwd, root, base         working directory, workspace root as given, its files
CaseType(c) ==
  /\ c.cmd \in {"verify", "run", "call"}
  /\ \A f \in DOMAIN c.lib : DocumentType(c.lib[f])
  /\ c.flags \in Seq(Text)
  /\ IsFiniteSet(DOMAIN c.args) /\ DOMAIN c.args \subseteq Text
  /\ c.args \in [DOMAIN c.args -> Argument]
  /\ c.policy \in {"refuse", "warn", "allow", "bogus"}
  /\ c.cmd # "run" => c.policy = "refuse"
  /\ c.root \in Text /\ ~Blank(c.root) /\ Absolute(c.cwd)

\* The tokens the code writes of itself.
Vocabulary ==
  Words \cup ParameterType \cup Range(Tag)
    \cup {"mock", "0", "false", "vfs.read", "vfs.write", "legacy", "step_"}

ASSUME AdmissionAssumption ==
  /\ \A c \in Case : CaseType(c)
  /\ Absolute(Home) /\ Absolute(<<Session>>)
  /\ Vocabulary \subseteq DOMAIN Byte
  /\ \A type \in {"int", "bool", "float"} : Range(Canonical[type]) \subseteq Text
  /\ Absent \notin Nat

-----------------------------------------------------------------------------
(* Finding and reading the skill.                                          *)

\* serve.go: the v1 form of a name comes first.
locateSkillFile(lib, name) ==
  LET candidate == [i \in 1..2 |-> [stem |-> name, suffix |-> <<".loom.json", ".md">>[i]]]
  IN {candidate[i] : i \in First({i \in 1..2 : candidate[i] \in DOMAIN lib})}

\* A stem with a "/" is a file in a subdirectory.
handleToolsList(lib) ==
  UNION {{skillToToolDefinition(k) : k \in ParseFile(f.suffix, lib[f])} :
           f \in {f \in DOMAIN lib : /\ Slash \notin ToSet(f.stem)
                                     /\ ToLower(f.suffix) \in {".loom.json", ".md"}}}

\* The file a command names, or the one found for the name of a tool, once the
\* arguments are decoded.
ReadSkill(c) ==
  LET name == TrimSpace(c.ask)
      sound == decodeArguments(c.args) # {} /\ name # <<>> /\ validateSkillLookupName(name)
      files == IF c.cmd = "call"
                 THEN IF sound THEN locateSkillFile(c.lib, name) ELSE {}
                 ELSE {[stem |-> c.ask, suffix |-> c.suffix]} \cap DOMAIN c.lib
  IN UNION {ParseFile(f.suffix, c.lib[f]) : f \in files}

RawInputs(c, k) ==
  CASE c.cmd = "verify" -> buildVerificationInputs(k.params)
    [] c.cmd = "run" -> parseInputFlags(c.flags)
    [] c.cmd = "call" -> decodeArguments(c.args)

\* CompileAndSetup looks at the skill's id before and after everything else.
Values(c, k) ==
  UNION {SanitizeInput(raw, k.params) :
           raw \in {r \in RawInputs(c, k) : sanitizeReceiptPathComponent(k.id)}}

Valid(k) == ~Blank(k.id) /\ ValidateSkill(k)

Workspace(c) == CHOOSE w \in normalizeRootPath(c.root, c.cwd) : TRUE
ShadowRoot == Home \o << <<".", "loom">>, <<"shadow">>, Session>>

-----------------------------------------------------------------------------
(* The same session in Gateway: a text is the first step that writes it,   *)
(* and what is refused after the references are expanded is a failed step. *)

Content(c, k, i) == UNION {substituteString(k.steps[i].content, v) : v \in Values(c, k)}
Reach(c, step) == Target(step.path, Workspace(c), ShadowRoot)

StepOf(c, k, i) ==
  LET writes == k.steps[i].kind = "write_file"
  IN [kind |-> IF writes THEN "write" ELSE "read",
      path |-> IF Reach(c, k.steps[i]) = {} THEN <<>>
               ELSE CHOOSE p \in Reach(c, k.steps[i]) : TRUE,
      text |-> Min({j \in 1..i : Content(c, k, j) = Content(c, k, i)}),
      optional |-> writes /\ Content(c, k, i) = {}]

SkillOf(c, k) ==
  [v1 |-> k.version = CurrentSchemaVersion, valid |-> Valid(k), prov |-> k.prov,
   steps |-> [i \in DOMAIN k.steps |-> StepOf(c, k, i)]]

JobOf(c, k) ==
  LET partial == c.cmd # "verify" /\ \E i \in DOMAIN k.steps : StepOf(c, k, i).optional
  IN [cmd |-> c.cmd, skill |-> SkillOf(c, k), policy |-> c.policy,
      input |-> IF Values(c, k) = {} THEN "bad" ELSE IF partial THEN "partial" ELSE "full"]

AllSkills == UNION {{SkillOf(c, k) : k \in ReadSkill(c)} : c \in Case}
AllPaths == (UNION {c.base : c \in Case}) \cup UNION {{s.path : s \in ToSet(k.steps)} : k \in AllSkills}
AllTexts == 0..Max({Len(k.steps) : k \in AllSkills})

Files == [p \in AllPaths |->
            IF p \notin DOMAIN shadow THEN Absent
            ELSE Min({i \in DOMAIN parsed.steps : Content(case, parsed, i) = {shadow[p]}})]
Base(c) == [p \in AllPaths |-> IF p \in c.base THEN 0 ELSE Absent]
AllBases == {Base(c) : c \in Case}
AllPolicies == {c.policy : c \in Case}

Abstract == INSTANCE Gateway WITH
  Session <- {"one"}, Proc <- {}, Path <- AllPaths, Text <- AllTexts,
  Skill <- AllSkills, Input <- {"full", "partial", "bad"},
  Flag <- AllPolicies, Env <- {""}, Baselines <- AllBases,
  MaxFaults <- 1,
  ws <- Base(case), env <- "",
  phase <- [s \in {"one"} |->
              IF phase \in {"fresh", "read", "unread"} THEN "fresh"
              ELSE IF phase \in {"validated", "sanitized"} THEN "compiling" ELSE phase],
  job <- [s \in {"one"} |-> job],
  next <- [s \in {"one"} |-> next],
  dir <- [s \in {"one"} |-> dir],
  shadow <- [s \in {"one"} |-> Files],
  receipt <- [s \in {"one"} |-> receipt # NoReceipt],
  manifest <- [s \in {"one"} |-> manifest],
  server <- "up", pc <- <<>>, target <- <<>>, printed <- <<>>, left <- <<>>, outcome <- <<>>,
  faults <- IF why \in {"roots", "path", "disk", "legacy"} THEN 1 ELSE 0,
  gated <- [s \in {"one"} |-> phase \in {"running", "done", "aborted"}],
  placed <- [s \in {"one"} |-> {}]

-----------------------------------------------------------------------------
Init ==
  /\ case \in Case
  /\ phase = "fresh" /\ parsed = NoSkill /\ sanitized = <<>>
  /\ dir = FALSE /\ receipt = NoReceipt
  /\ next = 1 /\ shadow = <<>> /\ manifest = {}
  /\ why = "nothing" /\ job = Abstract!NoJob

Goto(l) == phase' = l

\* ReadFile and ParseFile; for a call, the lookup before them.
Read ==
  /\ phase = "fresh"
  /\ \/ parsed' \in ReadSkill(case) /\ Goto("read")
     \/ ReadSkill(case) = {} /\ UNCHANGED parsed /\ Goto("unread")
  /\ UNCHANGED <<case, sanitized, dir, receipt, next, shadow, manifest, why, job>>

\* A run looks at the version and the policy before it draws an id.
Start ==
  LET startable == case.cmd = "run" =>
        parsed.version = CurrentSchemaVersion /\ case.policy \in Abstract!Policy
  IN /\ phase = "read"
     /\ job' = JobOf(case, parsed)
     /\ Goto(IF startable THEN "compiling" ELSE "rejected")
     /\ UNCHANGED <<case, parsed, sanitized, dir, receipt, next, shadow, manifest, why>>

-----------------------------------------------------------------------------
(* CompileAndSetup.                                                        *)

Validate ==
  /\ phase = "compiling"
  /\ Goto(IF RawInputs(case, parsed) # {} /\ Valid(parsed) THEN "validated" ELSE "rejected")
  /\ UNCHANGED <<case, parsed, sanitized, dir, receipt, next, shadow, manifest, why, job>>

Sanitize ==
  /\ phase = "validated"
  /\ \/ sanitized' \in Values(case, parsed) /\ Goto("sanitized")
     \/ Values(case, parsed) = {} /\ UNCHANGED sanitized /\ Goto("rejected")
  /\ UNCHANGED <<case, parsed, dir, receipt, next, shadow, manifest, why, job>>

\* RemoveAll and MkdirAll of the shadow root.
Provision ==
  /\ phase = "sanitized"
  /\ dir' = TRUE
  /\ Goto("provisioned")
  /\ UNCHANGED <<case, parsed, sanitized, receipt, next, shadow, manifest, why, job>>

\* Variant: the deferred RemoveAll is armed after the check of the roots.
RefuseRootsLeavesShadow ==
  /\ phase = "provisioned" /\ ~normalizedRoots(Workspace(case), ShadowRoot)
  /\ why' = "roots"
  /\ Goto("rejected")
  /\ UNCHANGED <<case, parsed, sanitized, dir, receipt, next, shadow, manifest, job>>

\* The workspace holds the shadow, or the other way round.
RefuseRoots ==
  /\ phase = "provisioned" /\ ~normalizedRoots(Workspace(case), ShadowRoot)
  /\ dir' = FALSE
  /\ why' = "roots"
  /\ Goto("rejected")
  /\ UNCHANGED <<case, parsed, sanitized, receipt, next, shadow, manifest, job>>

WriteReceipt ==
  /\ phase = "provisioned" /\ normalizedRoots(Workspace(case), ShadowRoot)
  /\ receipt' = [hash |-> GetLogicalHash(parsed), digest |-> ComputeInputDigest(sanitized),
                 skillID |-> parsed.id, caps |-> parsed.caps]
  /\ Goto(IF case.cmd = "verify" THEN "verified" ELSE "admitted")
  /\ UNCHANGED <<case, parsed, sanitized, dir, next, shadow, manifest, why, job>>

-----------------------------------------------------------------------------
(* Execute.                                                                *)

Gate ==
  LET pass == /\ parsed.version = CurrentSchemaVersion
              /\ Abstract!enforceDraftPolicy([skill |-> parsed, policy |-> case.policy])
  IN /\ phase = "admitted"
     /\ Goto(IF pass THEN "running" ELSE "refused")
     /\ UNCHANGED <<case, parsed, sanitized, dir, receipt, next, shadow, manifest, why, job>>

Current == parsed.steps[next]
Ready(kind) == phase = "running" /\ next <= Len(parsed.steps) /\ Current.kind = kind

Abort(reason) ==
  /\ why' = reason
  /\ manifest' = DOMAIN shadow
  /\ Goto("aborted")
  /\ UNCHANGED <<next, shadow>>

Advance == next' = next + 1 /\ UNCHANGED <<phase, manifest, why>>

\* A location needs directories where none of the files may stand, and is no
\* directory itself, as the root of the shadow is.
Above(p) == {SubSeq(p, 1, n) : n \in 1..(Len(p) - 1)}
Clear(p, files) == p # <<>> /\ Above(p) \cap files = {} /\ \A f \in files : p \notin Above(f)

\* The shadow hides the workspace, its directories do as well.
Found(p) == p \in DOMAIN shadow \/ (p \in case.base /\ Clear(p, DOMAIN shadow))

handleReadFile ==
  LET at == Reach(case, Current)
  IN /\ Ready("read_file")
     /\ \/ at = {} /\ Abort("path")
        \/ \E p \in at : Found(p) /\ Advance /\ UNCHANGED shadow
        \/ \E p \in at : ~Found(p) /\ Abort(IF p \in case.base THEN "disk" ELSE "missing")
     /\ UNCHANGED <<case, parsed, sanitized, dir, receipt, job>>

\* The references first, the path next.
handleWriteFile ==
  LET content == substituteString(Current.content, sanitized)
      at == Reach(case, Current)
  IN /\ Ready("write_file")
     /\ \/ content = {} /\ Abort("unbound")
        \/ content # {} /\ at = {} /\ Abort("path")
        \/ \E t \in content, p \in at :
             IF Clear(p, DOMAIN shadow)
               THEN shadow' = [q \in DOMAIN shadow \cup {p} |-> IF q = p THEN t ELSE shadow[q]]
                    /\ Advance
               ELSE Abort("disk")
     /\ UNCHANGED <<case, parsed, sanitized, dir, receipt, job>>

\* dispatch has nothing to run for it.
RefuseLegacy ==
  /\ Ready("legacy")
  /\ Abort("legacy")
  /\ UNCHANGED <<case, parsed, sanitized, dir, receipt, job>>

Finish ==
  /\ phase = "running" /\ next > Len(parsed.steps)
  /\ manifest' = DOMAIN shadow
  /\ Goto("done")
  /\ UNCHANGED <<case, parsed, sanitized, dir, receipt, next, shadow, why, job>>

-----------------------------------------------------------------------------
Next ==
  \/ Read \/ Start \/ Validate \/ Sanitize \/ Provision \/ RefuseRoots \/ WriteReceipt
  \/ Gate \/ handleReadFile \/ handleWriteFile \/ RefuseLegacy \/ Finish

Spec == Init /\ [][Next]_vars
-----------------------------------------------------------------------------
(* What must hold.                                                         *)

\* The variables have their types: sanitized numbers and Booleans are Go
\* values, which have one rendering each however they were written.
TypeOK ==
  /\ phase \in {"fresh", "read", "unread", "compiling", "rejected", "validated", "sanitized",
                "provisioned", "verified", "admitted", "refused", "running", "aborted", "done"}
  /\ \A n \in DOMAIN sanitized :
       /\ sanitized[n].tag = Tag[parsed.params[n].type]
       /\ sanitized[n].tag # "s" => sanitized[n].text \in Range(Canonical[parsed.params[n].type])
  /\ dir \in BOOLEAN
  /\ next \in Nat \ {0}
  /\ DOMAIN shadow \cup manifest \subseteq AllPaths
  /\ why \in {"nothing", "roots", "unbound", "path", "missing", "disk", "legacy"}

\* A session with real texts is a session of Gateway's, whatever refuses it
\* and at whatever point (CompileAndSetup, Execute).
ImplementsGateway == Abstract!Spec

\* Every position of a content decides by itself what it contributes to the
\* file; a value is never scanned again, and nothing is refused that could be
\* expanded (substituteString).
SubstitutionIsPositional ==
  LET writes == {i \in 1..(next - 1) : parsed.steps[i].kind = "write_file"}
      last(p) == Max({i \in writes : p \in Reach(case, parsed.steps[i])})
  IN /\ \A i \in writes : Expandable(parsed.steps[i].content, DOMAIN sanitized)
     /\ \A p \in DOMAIN shadow : shadow[p] = Expansion(parsed.steps[last(p)].content, sanitized)
     /\ why = "unbound" => ~Expandable(Current.content, DOMAIN sanitized)

\* The validator and the executor agree on what is a reference, in every text
\* that has a marker and for any set of bound names (the claim of
\* substitution.go:45-47 about extractVariableReferences and substituteString).
LayersAgree ==
  phase = "read" =>
    \A step \in {s \in ToSet(parsed.steps) : Markers(s.content, 1) # {}} :
      \A names \in SUBSET DOMAIN parsed.params :
        (\E refs \in extractVariableReferences(step.content) : ToSet(refs) \subseteq names)
        <=> substituteString(step.content, [n \in names |-> [tag |-> "s", text |-> n]]) # {}

\* What a type that tools/list shows takes of the JSON values: never a number
\* or a Boolean itself, only a string (or null) that spells one.
Takes(shown, a) ==
  LET text == IF a.json = "null" THEN <<>> ELSE a.text
  IN /\ a.json \in {"string", "null"}
     /\ CASE shown = "string" -> ~rejectShellInjection(text)
          [] shown = "integer" -> text \in DOMAIN Canonical["int"]
          [] shown = "boolean" -> text \in DOMAIN Canonical["bool"]
          [] shown = "number" -> text \in DOMAIN Canonical["float"]

\* Of the arguments for its parameters, a skill that passes `loom verify` is
\* admitted with just those that leave out no required one and are taken one by
\* one as the types tools/list shows: no parameter has a type the sanitizer does
\* not know, and no default is refused when a caller leaves its parameter out
\* (buildVerificationInputs, SanitizeInput, handleToolCall).
VerifiedIsCallable ==
  LET tool == skillToToolDefinition(parsed)
      admitted(args) == \E raw \in decodeArguments(args) : SanitizeInput(raw, parsed.params) # {}
  IN phase = "verified" =>
       \A given \in SUBSET DOMAIN tool.properties :
         \A args \in [given -> UNION {Range(c.args) : c \in Case}] :
           admitted(args) <=>
             /\ tool.required \subseteq given
             /\ \A n \in given : Takes(tool.properties[n].type, args[n])

\* What a path reaches lies strictly inside the shadow and apart from its
\* metadata, and is what the manifest's own spelling of it reaches, though the
\* two layers clean and trim it one after the other (SanitizeShadowRelPath,
\* resolveManagedRelativePath).  Only a location that begins or ends with a
\* blank, as "./ ./ x" reaches, has no spelling: the layers trim it away.
PathsDenote ==
  \A p \in DOMAIN shadow :
    /\ p # <<>> /\ Up \notin ToSet(p) /\ Head(p) # Reserved
    /\ TrimSpace(PathText(p)) = PathText(p) =>
         Target(PathText(p), Workspace(case), ShadowRoot) = {p}

\* A granted scope, read as a location, contains the location.
WithinScope(p) ==
  \E c \in ToSet(receipt.caps) : c.kind = "vfs.write" /\ IsPrefix(Clean(c.scope).parts, p)

\* The capability ceiling is verifiable at admission time (ir.go:98-101): a run
\* writes only where a scope of its receipt allows it, however the paths of its
\* steps are spelled.
CeilingHolds ==
  \A i \in 1..(next - 1) : parsed.steps[i].kind = "write_file" =>
    \A p \in Reach(case, parsed.steps[i]) : WithinScope(p)

\* So it is for a path that has no ".." in it and no blank that either layer
\* trims, wherever it has ".", "//" or a "/" at its end: scopes are compared as
\* texts before paths are cleaned (ScopeCovers, auditCapabilities,
\* SanitizeShadowRelPath).
WritesWithinScope ==
  LET plain(t) == /\ Up \notin ToSet(Split(t, Slash)) /\ TrimSpace(t) = t
                  /\ TrimSpace(PathText(Clean(t).parts)) = PathText(Clean(t).parts)
  IN \A i \in 1..(next - 1) :
       parsed.steps[i].kind = "write_file" /\ plain(parsed.steps[i].path) =>
         \A p \in Reach(case, parsed.steps[i]) : WithinScope(p)

\* What a skill does: its name and its review do not count, nor does the order
\* of its capabilities.
Behaviour(k) ==
  [version |-> k.version, params |-> k.params, steps |-> k.steps,
   caps |-> [c \in ToSet(k.caps) |-> Cardinality({i \in DOMAIN k.caps : k.caps[i] = c})]]

Fingerprints == UNION {{<<GetLogicalHash(k), Behaviour(k)>> : k \in ReadSkill(c)} : c \in Case}

\* Receipts of two sessions have the same logical hash when, and only when,
\* their skills do the same (GetLogicalHash).
HashIdentifiesBehaviour ==
  receipt # NoReceipt =>
    \A f \in Fingerprints : f[1] = receipt.hash <=> f[2] = Behaviour(parsed)

\* Inputs in which the zero bytes of the digest are the only ones.
ZeroFree(v) ==
  \A n \in DOMAIN v : 0 \notin ToSet(Bytes(n)) /\ 0 \notin ToSet(Bytes(v[n].text))

Digests ==
  UNION {UNION {{<<ComputeInputDigest(v), v>> : v \in {v \in Values(c, k) : ZeroFree(v)}} :
                  k \in ReadSkill(c)} : c \in Case}

\* Receipts of two sessions have the same input digest when, and only when,
\* their inputs have the same names, types and values, for names and values
\* without a zero byte (ComputeInputDigest).
DigestIdentifiesInputs ==
  receipt # NoReceipt /\ ZeroFree(sanitized) =>
    \A d \in Digests : d[1] = receipt.digest <=> d[2] = sanitized

\* Every reference in an instruction of an admitted markdown skill names one
\* of its parameters (parseInstructionInputs, validateStepDataflow).
AdmittedMentionsDeclared ==
  receipt # NoReceipt /\ parsed.version = "" =>
    \A step \in ToSet(parsed.steps) : \A o \in Markers(step.content, 1) :
      Braces(step.content, o) # {} /\ isVariableReference(Name(step.content, o)) =>
        Name(step.content, o) \in DOMAIN parsed.params

\* A markdown skill says what its document says: each line under the first
\* head of a title counts once, and no other (extractSection and the parsers).
Under(lines, title) ==
  LET heads == {h \in DOMAIN lines : Is(lines[h], "head")}
      start == Min({h \in heads : lines[h].title = title /\ h > Min(extractFrontmatter(lines))})
  IN {i \in (start + 1)..Len(lines) :
        heads \cap (start + 1)..i = {} /\ ~Is(lines[i], "blank")}

Says(lines, k) ==
  LET params == Under(lines, "Parameters")
      perms == Under(lines, "Permissions")
      instrs == Under(lines, "Instructions")
      kind(i) == IF lines[i].name = "fs.read" THEN "vfs.read" ELSE "vfs.write"
  IN /\ DOMAIN k.params = {TrimSpace(lines[i].name) : i \in params}
     /\ Cardinality(DOMAIN k.params) = Cardinality(params)
     /\ ToSet(k.caps) = UNION {{[kind |-> kind(i), scope |-> TrimSpace(s)] :
                                  s \in ToSet(lines[i].scopes)} : i \in perms}
     /\ Len(k.steps) = Cardinality(instrs)
     /\ \A i \in instrs : k.steps[Cardinality({j \in instrs : j <= i})].content
                            = TrimSpace(lines[i].text)

ParsesAsWritten ==
  phase = "read" /\ parsed.version = "" =>
    \E f \in DOMAIN case.lib :
      case.lib[f].format = "lines" /\ Says(case.lib[f].lines, parsed)

\* A call reaches only a skill that tools/list shows to callers
\* (validateSkillLookupName, locateSkillFile).
CallsOnlyListed ==
  case.cmd = "call" /\ phase \notin {"fresh", "unread"} =>
    skillToToolDefinition(parsed) \in handleToolsList(case.lib)
=============================================================================
