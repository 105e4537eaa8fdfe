# Verification of loom

TLA+ models of loom, the TLC runs that check them on small instances, and
theorems checked by TLAPS for every value of the constants.

loom turns what an agent wants to do into changes to a workspace in four
steps, each guarded: a skill is *admitted* (a receipt and an empty shadow
directory), *executed* into the shadow, *reviewed* by an operator, and
*promoted* into the real workspace. Skills themselves may be drafts produced by
a migrator, which need a human's signature. All of it is state in the file
system, shared by processes that know nothing of each other and take no lock.
That is where a model checker sees more than the unit tests do.

## Inventory

| Part | Source | State | Operations | Meets |
|---|---|---|---|---|
| Shadow VFS | `internal/engine/vfs.go` | workspace tree, one shadow tree and tombstones per session | resolve a read or a write, mark deleted, manifest, commit | the executor in a run, the commit gate afterwards |
| Compiler | `internal/engine/compiler.go` | shadow directory, receipt | `CompileAndSetup` | validator, sanitizer, Shadow VFS |
| Executor | `internal/engine/executor.go` | none of its own | `Execute`, the draft gate, read and write steps | Shadow VFS, substitution |
| Commit gate | `internal/engine/commit_gate.go` | none of its own | `LoadReceipt`, `Preview`, `Promote` | receipts, Shadow VFS |
| Command line | `cmd/main.go` | exit codes, `LOOM_DRAFT_POLICY` | `verify`, `run`, `commit`; `serve`, `migrate-openclaw` and `accept-migration` start the parts below | all of the above |
| MCP server | `cmd/serve.go` | the listener and its handlers, the directory of skills | `tools/list`, `tools/call`, shutdown | compiler, executor; never the commit gate |
| Migrator | `internal/migrator/migrator.go`, `mechanical.go`, `llm.go`, `stub.go`, `io.go` | the library of skill files, the report | `Migrate` | sources, the language model |
| Accept | `internal/migrator/accept.go` | the same library | `AcceptMigration` | sources, signatures |
| IR | `internal/engine/ir.go` | none | JSON, `CanonicalBodyHash`, `GetLogicalHash`, `ScopeCovers` | everyone |
| Parsers | `internal/engine/parser/` | none | `ParseFile`: v1 JSON, the older markdown | the commands, the server, the migrator |
| Validator, sanitizer, security policy | `internal/engine/validator.go`, `sanitizer.go`, `internal/security/policy.go` | none | `ValidateSkill`, `SanitizeInput`, `SanitizeShadowRelPath` | compiler, executor |
| Substitution | `internal/engine/substitution.go` | none | `substituteString`, `ComputeInputDigest` | executor, receipt |

Hard behaviours, and what makes each part correct:

- **Shadow VFS.** A commit is a long sequence of file operations. It may fail or
  be killed between any two, be retried, and run twice at once; several sessions
  share one workspace; tombstones act on whole subtrees; names may be files on
  one side and directories on the other. It is correct when a session reads what
  it wrote, a commit changes nothing the session did not change, and no
  interruption makes a change disappear from both sides.
- **Admission, execution, commit.** Rejections, failing steps and killed
  processes leave things behind that `loom commit` can find. It is correct when
  what was reported is what is pending, what was printed is what is promoted,
  and only what the operator agreed to reaches the workspace.
- **Texts on the way from a skill file to the shadow.** A reference is scanned by
  the parser, the validator and the executor, a path is cleaned by the sanitizer
  and the overlay, a parameter is tried by `verify` and by a call: each time two
  pieces of code that never call each other must agree, over texts nobody wrote a
  test for. They are correct when what one layer admits the next one understands
  in the same way, and when fingerprints tell different things apart.
- **Server.** Handlers run concurrently, and a signal drains them within five
  seconds. It is correct when each call ends and the server stops.
- **Migration.** Migrators, acceptors and editors read a file, think, and write
  it later. It is correct when nothing unaccepted passes the draft gate and
  nobody's work is replaced without being told to.

The list of hazards, line by line with the properties that cover each, is in
`PROJECT.json`.

## Modules

| Module | What it is |
|---|---|
| `FileTree` | Trees of files and directories over a fixed set of paths, with the effects of `MkdirAll`, a write, `RemoveAll` |
| `ShadowVFS` | The overlay and its commit, file operation by file operation (vfs.go) |
| `Promotion` | The abstract promise of the overlay; `ShadowVFS` implements it (`ImplementsPromotion`) |
| `Gateway` | A session from command to promotion: compiler, executor, draft policy, commit gate, command line, server |
| `Texts`, `Template`, `Paths` | Texts as sequences of tokens; references in them; path texts, locations and scopes |
| `Contract` | `ValidateSkill`, `SanitizeInput`, the inputs of `verify`, the definitions of `tools/list` |
| `OpenClaw` | `ParseFile` and the parsers, from lines to a skill |
| `Fingerprint` | `GetLogicalHash` and `ComputeInputDigest`, as the bytes that are hashed |
| `Admission` | One session with its data, composed of the five above; it implements `Gateway` (`ImplementsGateway`) |
| `Migration` | The skill library: migrator, accept, hand edits and the signature check of the draft gate |
| `MCShadowVFS`, `MCGateway`, `MCAdmission`, `MCMigration` | Small instances for TLC |
| `ShadowVFS_proofs`, `Commit_proofs` | Theorems about trees and the overlay, and about one commit at a time |
| `Gateway_proofs`, `Migration_proofs` | Theorems about sessions and about the library |
| `Template_proofs`, `Paths_proofs`, `Fingerprint_proofs` | Theorems about references, about paths, and about the two fingerprints |
| `Admission_proofs` | Theorems about a session with its data |

Operators marked *Variant* in the comments are mistaken forms of the definition
that follows them. Nothing uses them; each is there to show that some property
notices the mistake, and `PROJECT.json` says which.

### ShadowVFS and the code

`ws`, `shadow[s]` and `tomb[s]` are the directory trees on disk. A run's steps
are `WriteFile`, `MarkDeleted`, `EndRun` and their interrupted forms
`WriteCut`, `MarkDeletedCut`. (`MarkDeleted` is part of the VFS and its tests;
no step kind of the executor calls it yet.) `Seen` is `ResolveReadPath`.
`Commit` is cut where another process or a crash can come in between:

- `StartCommit`: the stat of the shadow root and the first directory listing;
- `ApplyTombstone`, `RefuseTombstone`, `MissTombstone`, `EndTombstones`:
  `applyTombstones`;
- `VisitDirectory`, `CopyToTemp`, `RefuseEntry`, `MissEntry`, `EndWalk`: the walk,
  `ensureTargetDirectory` and the first half of `copyFileIntoWorkspace`;
- `PlaceFile`, `MissPlace`: `replaceFile`;
- `RemoveShadowEntry`, `EndTeardown`: the final `RemoveAll`, one entry at a time;
- `Fail`, `FailTombstone`, `FailPlace`: a failing call or the death of the process,
  including a `RemoveAll` that stops half-way and a rename that fails after the
  target was removed.

`delta`, `landed` and `clash` are history variables: they guard nothing.

Abstracted: file modes, symbolic links, path cleaning and `normalizedRoots`, the
order in which a directory's entries are visited (any order that visits parents
first), litter of temp files that an interrupted commit leaves, a workspace path
that ends in `.tombstone`, and the root directories themselves, which exist.

### Gateway and the code

`phase[s]` follows a session through `CompileAndSetup` (`Reject`, `Provision`,
`WriteReceipt`, `FailReceipt`), `Execute` (`Gate`, `ReadStep`, `WriteStep`,
`SubstituteStep`, `FailStep`, `Finish`) and the death of its process (`Die`,
`KillServer`). `StartVerify`, `StartRun` and `StartCall` are the three commands
that open a session; each brings its own draft policy (`resolveDraftPolicy`).
`pc[c]` follows one `loom commit`: `LoadReceipt`, `Preview`, `DryRun` or
`Promote`, then the copies and the removal. Paths are flat and a copy is one
step, since `ShadowVFS` has the detail. A skill is a record: whether it is v1,
whether it passes `ValidateSkill`, what its `_provenance` block says, and its
steps. `SanitizeInput` is reduced to whether the inputs are complete, lack an
optional one, or are refused. `safeManifest` is the report of a run: the paths of the
shadow, or nothing at all when the shadow cannot be listed, since the code drops that
error. `gated` and `placed` are history variables.

### Admission and the code

`Gateway` takes the verdicts of the pure functions as inputs; `Admission` computes
them. `Read` is `ReadFile` and `ParseFile` (for a call, the checks of the tool's
name and `locateSkillFile` before them), `Start` what a command looks at before it
draws a session id, and `Validate`, `Sanitize`, `Provision`, `RefuseRoots` and
`WriteReceipt` are `CompileAndSetup`. `Gate`, `handleReadFile`, `handleWriteFile`,
`RefuseLegacy` and `Finish` are `Execute`. `case` is everything a session starts
from: the command and its arguments, the skill files, the working directory, the
workspace and its files. The arguments of a call are JSON values, which
`decodeArguments` takes only when all of them are texts or null. `shadow` maps
locations to the texts written there, and `receipt` holds the two fingerprints and
the granted capabilities.

A text is a sequence of tokens, a token a sign the code looks for or a run of
letters nothing ever cuts. An operator that can fail returns the set of its
results, empty for an error. A document is JSON that holds a skill, or lines that
are already classified: a line's record says what the parser's regular expression
for it captures. `Byte` gives the bytes of a token, which the fingerprints hash; a
hash is identified with what was hashed. Which tokens the deny rules match
(`Denied`) and how strconv renders what it parses (`Canonical`) are tables.

The mapping to `Gateway` names a text by the first step that writes it, calls the
inputs partial when some step's references are unbound, and counts what is refused
after that (an overlapping root, a path out of bounds, a file in the way, a legacy
step) as the fault `Gateway` allows. That the composition fits is not for free:
`RefuseRoots` must leave no shadow, a run must abort where `Gateway` aborts, and
its manifest must be the shadow's.

Abstracted: failures of the disk other than a file or a directory in the way (so a
manifest can always be read; `Gateway` has the other case), descriptions, schema details JSON ignores, characters the code does
not look for, Windows paths, and `--input`'s own splitting of commas, which the
flag library does.

### Migration and the code

`lib` is the directory of skill files. The name `<<id, 0>>` is `<id>.loom.json`,
`<<id, k>>` is `<id>-imported-<k>.loom.json`. A file is its *seal* (what
`CanonicalBodyHash` covers), the reviewed flag and the signature, which is empty
or a seal: a hash is identified with what was hashed. A migrator reads all
sources (`Collect`), then for each one decides where the draft goes (`Resolve`,
`ParseError`, `NoEntry`, `FailResolve`) and, after the translation, writes it
(`Emit`, `FailEmit`). An acceptor reads the draft (`AcceptRead`), compares the
source (`AcceptVerify`) and writes the signed copy (`AcceptWrite`, `FailAccept`).
People edit sources and skills (`EditSource`, `EditFile`) but compute no
signatures. Any of these steps may interleave. `Botched` is a failed `writeSkill`,
which removes the target when its rename fails. `accepted` and `seen` are history
variables.

Abstracted: the text of sources beyond whether it parses and whether Tier 1
matches it, the model and time in the provenance, the capability gaps and the
report file (both are computed from the items), temp files, and the suffix limit
of 10000, which is the constant `MaxCopies`.

## Runs

| Run | Instance | Question |
|---|---|---|
| `vfs_single` | one session over a directory in a directory, one commit, two faults | Does a commit that fails anywhere, twice, and is retried, lose or spoil anything? Does it keep the promise of `Promotion`? |
| `vfs_sessions` | two sessions, two commits, one fault, writes after deletions | Do sessions and commits disturb each other's files? |
| `vfs_live` | one session, two commits at once, one fault | Does the session land while both promote it? |
| `vfs_retry` | one session, writes after deletions | Does success after a retry mean promoted? **No**: see below |
| `gateway_commits` | one session of any command, skill, input and flag, two commits, one fault | Do reports, previews and promotions agree, and was every change agreed to? |
| `gateway_sessions` | two concurrent sessions that write the same paths, one commit, the server, one fault | Is what a commit copies what it showed, and of its own session? Does every run end and does the server stop? |
| `gateway_abort`, `gateway_substitution` | one session, one commit | Do two comments on aborted runs hold? **No**: see below |
| `admission` | about two thousand sessions, one at a time: see Bounds | Do the layers that read a text agree, is the right text written to the right place, and is such a session one of `Gateway`'s? |
| `admission_scope` | the sessions of `admission` whose paths climb | Does a run write only where its scopes allow it? **No**: see below |
| `migration_library` | two sources with one id, a migrator, two acceptors, an edit, a fault, five kinds of library | Is the draft gate sound and is nobody's file replaced unasked? |
| `migration_overwrite` | one source, a migrator, an acceptor | Is a review never destroyed without force? **No**: see below |

**Bounds.** Three or four paths are the least that have a file, a directory, a
directory inside it and an unrelated file. Two contents tell old from new. Two
faults let a retry fail as well. With two processes every interleaving of a pair
occurs; the code has no rule that involves three. For the library, two sources
of one id are the least that collide, `MaxCopies = 2` with up to two names taken
lets renaming both succeed and run out, and one edit is enough to come between
any two steps of an accept command. `MaxFaults` and `MaxEdits` bound only how
often something goes wrong in one behaviour.

The sessions of `admission` come in families; each varies one part of a session
over everything that can be written with a few pieces, and keeps the rest plain.
Contents are all texts of up to three of seven pieces (marker, brace, identifier,
digit, a dollar sign, two whole references), which is what a nested, doubled,
unterminated or adjacent reference takes; paths all of up to three of seven
(`./`, `../`, `x/`, `x`, a blank, `/`, the metadata directory). Scopes, parameter
types with defaults and arguments, dataflow, files in the way, working directories
with workspace roots, skills whose fingerprints might meet, markdown documents with
one line removed, doubled, moved or changed, and the names asked of a library are
families as well. Every token of the instance is one byte, so lengths can be
mistaken for contents.

**Restrictions.** `WritesWithinScope` is about paths with no `..` in them and no blank
that either layer trims; they may have `.`, `//` and a `/` at the end. With `..` the
claim is false (`admission_scope`). `VerifiedIsCallable` quantifies over the arguments
for a skill's own parameters; what a caller passes besides is refused
(`SanitizeInput`). `ReportedIsPending` lets a fault take a report away, as
`safeManifest` does, but only the whole of it. `ShownAndOwn` compares what a
commit copies with what that commit has printed, which it reads from the shadow, and
so holds when the report of the run was lost. `PathsDenote` asks that a
location's spelling reaches it again only of spellings that neither begin nor end
with a blank; what else it says holds of all locations. `DigestIdentifiesInputs` is
about names and values without a zero byte, since the digest has nothing but zero
bytes between its fields. `Rewrites = FALSE` keeps a session from writing what it
deleted; with it `NothingLost`, `SuccessMeansPromoted` and `ImplementsPromotion`
hold, without it they fail (`vfs_retry`), while `ReadYourWrites` and
`OnlyPromotedChanges` hold either way (`vfs_sessions`). Several properties are
about a single session, since a later session may rightly overwrite an earlier
one, and `NothingLost`, `RefusalForeseen` and `ImplementsPromotion` about one
commit at a time. `ReportedDraftsLanded` is about a migration that is alone with the library.

**Fairness.** `ShadowVFS!FairSpec` has weak fairness of each commit's next step
(nothing in `Commit` waits for anyone) and of starting another attempt (the
operator tries again until it works; the code does not do this by itself). Faults
have no fairness and are bounded. `Gateway!FairSpec` has weak fairness of each
session's steps (a goroutine or a command runs until it returns; the executor has
no loop and no lock) and of the end of the drain (`http.Server.Shutdown` polls).
In `Gateway` nothing is assumed of operators. With writes after deletions two commits could
keep applying tombstones to each other's files for ever, so `vfs_live` excludes
them.

**Deadlock** is checked except where a system may rightly stop: sessions are used
once, commands end and, in `gateway_sessions`, the `admission` runs and the two migration runs, nothing
follows.

## Where code and text disagree

Each of the first five is a run whose property TLC finds violated.

1. `vfs_retry`: `vfs.go:227` says a commit "removes the shadow tree on success".
   The tree goes file by file. If that stops when the shadow copy of a path is
   gone and its tombstone is not, the next `Commit` deletes the promoted file and
   reports success.
2. `gateway_abort`: `executor.go:50-53` says the commit gate "refuses to promote
   after an abort". It does not know of the abort: the receipt is written before
   execution and nothing marks the failure.
3. `gateway_substitution`: `executor.go:107-108` says a substitution error aborts
   "before the shadow is touched". That is so for each step, not for the run.
4. `migration_overwrite`: `migrator.go:449-451` promises that human review is not
   "silently destroyed". The review is looked at before the translation, the file
   is replaced after it, and an accept command may finish in between.
5. `admission_scope`: `ir.go:99-100` says of a path that "the capability ceiling must
   stay verifiable at admission time", and `README.md:23` calls a scope "a verifiable
   claim the validator enforces". `ScopeCovers` compares the text of the path, which
   the executor cleans afterwards: the path `out/../x` is admitted under the scope
   `out` and writes `x`. The write stays inside the shadow; only the ceiling is left.

Seen while modelling, without a run of their own:

- Two commits of one session can lose a file. One has promoted it and removes the
  shadow; the other has copied it to a temporary, `replaceFile` (`vfs.go:745`)
  falls back to removing the target, and it fails before the second rename. The
  promoted file and its shadow copy are gone. `NothingLost` is therefore claimed for
  one commit at a time; nothing in the code keeps a second one out.
- `vfs.go:20` calls the workspace an "immutable read baseline before commit".
  Reads fall through to the live workspace, so another session's commit changes
  them in the middle of a run.
- `ir.go:377-380` says that a directory scope ends with a slash, with "no implicit
  coverage". The code adds the slash when it is missing, so `out` covers `out/x` as
  `out/` does; only `output` is kept apart. `Paths!ScopeCovers` does what the code
  does.
- The sanitizer and the overlay each trim blanks after scopes were compared, so a path
  with an element of blanks may leave its scope as one with `..` does.
- `executor.go:180-182` says a mismatched signature is "treated as unreviewed", and
  unreviewed skills "obey DraftPolicy". The code (`executor.go:209-214`) refuses such a
  skill under every policy, `allow` included. `Gateway!enforceDraftPolicy` does what
  the code does, and `OnlyConsentedChanges` asks for the stricter rule.
- `executor.go:65-68` says an aborted run returns its manifest "so operators can see
  exactly which paths were touched". When `Manifest` fails, `safeManifest`
  (`executor.go:246-255`) reports no paths and no error, after a success too, and
  `serve.go:534-535` then tells the agent "No filesystem changes produced", while the
  shadow holds them and a commit promotes them.
- `tools/list` shows integers, numbers and Booleans for parameters of these types.
  `handleToolCall` decodes arguments into a map of texts (`serve.go:47-50`, `421-425`)
  and refuses the JSON number 3 and the JSON value true with "invalid tool call
  params"; a caller has to pass them as texts (`VerifiedIsCallable`). Null is taken as
  the empty text. Of the texts themselves the sanitizer refuses those with a shell
  marker, which no definition shows.
- `main.go:104-105` says `LOOM_DRAFT_POLICY` applies "across every command in the
  shell". `handleToolCall` (`serve.go:466`) builds an executor without a policy.
- `docs/migration.md:25` calls a run without `--yes` a preview of what would
  happen. Of two sources with one id it says both would be written, where the
  execution skips, renames or overwrites the second.
- `docs/migration.md:51` has `capability_gaps` list the stubbed skills. A stub
  that was renamed or that overwrote a file has another status and is missing.
- `llm.go:197` tells the model that an empty skill "becomes a Tier 3 stub". It
  is stored as `llm-assisted` with no steps.

- `substitution.go:45-47` says its grammar is "identical to what the validator
  accepts as a variable reference". `extractVariableReferences` also takes a text
  that is nothing but an identifier for one (`validator.go:237`), so a step input
  that is a plain word must name a parameter. In texts with a marker the two agree
  (`LayersAgree`).
- `ValidateSkill` looks for references in the inputs of a step only. An undeclared
  one in the content of a v1 step is found when the step runs; and outputs of
  earlier steps count as available though the executor binds parameters only. For
  markdown skills the parser copies the references of the text into the inputs
  (`AdmittedMentionsDeclared`).
- `sanitizer.go:204-206` wants a path that addresses the shadow root rejected
  before the overlay is asked. The sanitizer trims, cleans and returns the rest;
  `ResolveWritePath` trims again, so an element that is a blank and a dot is the root
  after all. The write then fails since the root is a directory, so no file of
  the shadow is its root (`PathsDenote`).
- `sanitizer.go:170-177` normalizes paths "for manifest stability". Trimming comes
  before cleaning there and again in `resolveManagedRelativePath`, so `./ ./ x`
  reaches a file whose name begins with a blank, and the spelling the manifest and
  the receipts have for it names another one.
- A tool is listed under its skill id and looked up by its file name, so an imported
  skill that was renamed is listed twice under one name. A suffix in upper case
  is listed and never found.
- `loom run` and `loom verify` from the home directory are always refused, since the
  shadow lies in the workspace; the shadow made for it is removed again.
- The default of a markdown parameter ends at the first full stop, so `0.5` is read
  as `0`; a second section of the same title is ignored.

## Proofs

TLAPS checks these for every set of paths, trees, sessions, skills, processes,
sources, options, texts and every bound on faults and edits. They need neither the
small sets of the MC modules nor their bounds.

### Assumptions

| Assumption | What it says, and why the code has it |
|---|---|
| `NodeAssumption`, `VFSAssumption`, `GatewayAssumption`, `MigrationAssumption` | The constants have their types and the model values are distinct |
| `UpAssumption` | Ancestors form a forest |
| `ComponentAssumption` | A path's ancestors follow one another: below a path that exists every directory has a parent with one ancestor less, as components of a path do |
| `TemplateAssumption` | The dollar sign and the braces are neither letters nor digits |
| `ByteAssumption` | Every token has at least one byte, and no token's bytes begin another's, so bytes can be read as tokens in one way; it is what makes a sequence of tokens stand for a string |
| `AdmissionAssumption` | Cases have the types of what `Read` and the commands deliver: texts are sequences of tokens, a skill has the fields of the structs in ir.go, with finite maps, a read without content and a legacy step without path (`ReadFileArgs`, `LegacyStepArgs`); the workspace root is not blank (the commands always pass `.`); the working directory (`os.Getwd`), the home directory and the session id are clean (a session id is one element, `sanitizeReceiptPathComponent`); numbers and Booleans render as texts; the words the code writes of itself (`Vocabulary`) are tokens |

TLC evaluates each of them on the instances.

### The overlay

- `ShadowVFS_proofs!TypeCorrect`: the workspace and every shadow remain trees. This
  is more than typing: each `MkdirAll`, rename and half-finished `RemoveAll` must
  keep every file's ancestors directories. A lemma for each operation of `FileTree`
  opens the module.
- `ShadowVFS_proofs!ReadsItsWrites`: until it lands, a session reads its own last
  change and the workspace elsewhere.
- `ShadowVFS_proofs!ChangesOnlyPromoted`: a workspace file changes only as some
  commit's session says.

The invariant is `Inv`: the types; every tombstone's
path is one the session sees as gone or has written again; what the overlay
records for a path is what the session last did, until the session lands; a
commit past its walk has landed its session; a temp file holds what the shadow
holds. `ReadYourWrites` alone is not inductive: whether a read stays right when
the shadow is written depends on the tombstones above the path, and whether a
change of the workspace is the session's depends on the temp file and the phase
of the commit. The proof has a lemma per action that says what the action leaves
alone, and combines them per conjunct.

`Commit_proofs` adds what holds of one commit at a time:

- `RefusesForeseen`: the walk refuses exactly what a clash between the
  workspace and the overlay made inevitable when the commit began. It needs
  `SingleCommit`, any number of sessions, and no restriction on what they write.
- `LosesNothing`, `SuccessPromotes`: whatever fails, and however often the
  commit is tried again, each change of the session is in the workspace or still
  pending; and a commit that reports success has promoted all of them.
- `KeepsPromise`: overlay and commit implement `Promotion`.

The last three assume `Alone`: one session, one commit at a time, and no write
after a deletion of the same path. These are the restrictions of the properties
themselves, and each is needed: without the third the claim is false
(`vfs_retry`), a second session may rightly overwrite, and a second commit can
lose a file (see above). `Alone` is a hypothesis and not an assumption, so the
theorems say it where they use it.

`WalkInv` follows the walk of a commit: the tombstones still to apply and the entries
still to visit are exactly what separates the workspace from the overlay, and no
step changes whether their shapes clash. `CommitInv` adds, for a retry, that what a
broken teardown left of the overlay records what the session did or nothing; that no
path lies below a tombstone; and that a change the overlay has lost is in the
workspace. The refinement goes action by action: each is a step of `Promotion`'s or a
stutter.

### Sessions

- `Gateway_proofs!TypesHold`, `RejectionLeavesNothing`, `ReportsHold`,
  `PromotionsHold`, `ChangesAreConsented` and `CopiesAreShownAndOwn`: the four
  invariants and the two action properties of safety that the runs of `Gateway`
  check, for any number of sessions, commits and failures.

The invariant is `Inv == TypeOK /\ Chosen /\ Provided /\ Owned /\ Reported /\
Copied`. `Chosen` says that a session past admission has an admissible job under a
known policy, and one that runs a consented one; `Provided` orders directory,
receipt and files; `Owned` says that a file in a shadow is what a step of a
consented job wrote, which is what makes every copy of it harmless, whoever makes
it and however often; `Reported` extends `ReportedIsPending` to running sessions,
where the completed writes are in the shadow; `Copied` says that a commit is at
work only on a session that is over and holds a receipt, that it has printed what it
has yet to copy, and that once it removes files all of them have been copied. The properties are not inductive by
themselves: `RemoveFile` keeps `ReportedIsPending` only because of `Copied`, and a
second commit finds its printed files gone only after the first copied them.

### The library

- `Migration_proofs!TypeCorrect` and `OnlyAcceptedDraftsRun`: a migrated skill that
  runs under the default policy was accepted as it is.
- `DraftsLand`: what a migration reports as written is in the library as long as
  nobody else has written there.
- `ReplacesOnlyKnowingly`: a migrator changes nothing in a dry run and otherwise the
  file it reports; a file that was there when it looked it replaces only under
  overwrite, and one marked reviewed only under force or when it did not parse. The
  theorem says nothing of what others put there after it looked: that is replaced
  (`migration_overwrite`).

The invariant is `Inv == TypeOK /\ Phase /\ Kept`. `Kept` says
that every signature in the library, valid or not, is a seal some acceptor has
verified, and so is what an acceptor is about to sign. The property itself speaks
of valid signatures only and is not inductive: editing a body back could make a
stale signature valid again. `Phase` says that a migrator about to write has a
text, without which its draft would have no type. `DraftInv` adds what a migrator
decided for a source and has not done yet: the file it is about to replace is the
one it looked at unless someone else wrote in between, and the items reported
before are not in its way.

### Texts and paths

The operators of `Template`, `Paths` and `OpenClaw` are folds and recursive
functions. What they compute is proved for texts of every length:

- `Template_proofs!SubstitutionExpands`: the executor's scan yields the one expansion
  that the positions of a text define, and nothing exactly when a reference is unbound.
- `Template_proofs!ReferencesFound`: the validator's scan finds exactly the names of the
  references of a text with a marker, or refuses the text when one is unsound.
- `Paths_proofs!SpellingReaches`: the text of a clean location that trimming leaves
  alone resolves, under a clean root, to that location and to no other.
- `Paths_proofs!CleanReaches`: a text with no `..` and no blank to trim is taken by the
  two layers, when they take it, to the location it cleans to.
- `Paths_proofs!ScopesContain`: the location of a text without `..` that `ScopeCovers`
  admits lies at or below the location of the scope.

`Fingerprint_proofs` does the same for what is hashed:

- `DigestTells`: two maps of sanitized inputs have one digest only when they are the
  same, as long as no name or text has a zero byte.
- `HashTells`: two skills have one logical hash when, and only when, version, parameters
  and steps are the same and the same capabilities are declared, each as often.

Two byte sequences *agree* when one begins with the other. If what is written first
agrees only when it is the same, the rest can be compared in the same way
(`PieceApart`, `CountedApart`): texts since tokens are told apart by their bytes, fields since their lengths
come first, lengths since of two varints neither begins the other, lists since their
number comes first. A map is written by its sorted keys: `Before` is a strict total
order on names, so a finite set has one sorted enumeration, and maps that are written
alike have the same keys. Capabilities may be equal and tie, so two declarations are
compared by how often each occurs; sorting keeps that, and it determines what is
written.

Induction over data with the library's theorems is out of reach, since these take an
operator as a parameter. The proofs do without: `Least` and `Greatest` give the
first or last position of a text at which something holds (from well-founded
minimality of finite sets of numbers, which has no such parameter), and a claim about
a whole scan is refuted at its least counterexample. A fold is first shown to be the
last of a sequence of intermediate values (`FoldExists`), which is then
reasoned about by position.

### Sessions with their data

`Admission_proofs` has, for every set of skill files and callers:

- `SessionTyped`: every variable has its type, and a sanitized number has its one
  rendering.
- `SubstitutionAlwaysPositional`: every file of the shadow is the expansion of the last
  content written to its location.
- `PathsAlwaysDenote`, `WritesStayWithinScope`: where the files of a run lie.
- `LayersAgreeAlways`, `MentionsDeclared`: validator, parser and executor agree on the
  references of a text.
- `VerifiedStaysCallable`: of the arguments for its parameters a verified skill is
  admitted with exactly those that leave out no required one and are, one by one, texts
  or nulls that spell a value of the shown type. In one direction no default of the
  skill's own is ever refused; in the other the JSON numbers and Booleans are.
- `CallsReachListed`: a call reads a listed skill.
- `ParsedAsWritten`: a markdown skill says what the lines under the first head of each
  section say, each line once and in order. The written lines are counted by their
  place (`Rank`), so that what the parser makes of the n-th is compared with the n-th.
- `DigestsTellInputs`, `HashesTellSkills`: receipts of two sessions have one digest only for
  the same inputs, and one hash exactly for skills that do the same. `ReceiptInv` ties a
  receipt to the skill and the inputs of its session; that what either parser returns has
  the shape the hash theorem wants is `ReadShaped`, and `SanitizedTyped` says so of inputs.
- `SessionsAreGateways`: `Admission` implements `Gateway`.

`SessionInv` says what `CompileAndSetup` has established at each point; `RunInv` that
the shadow holds what the last executed step that reaches a location wrote there;
`PhaseInv` which labels a session can have; `PlaceInv` that a run is one of a v1 skill
with its receipt's capabilities, none of whose files is the root. For the refinement
`JobInv` says that the job drawn up at the start is the one the skill describes.
`Validate` and `Sanitize` are stutters of `Gateway`; a text is named by the first step
that writes it, so that two steps writing the same text agree; and a refusal
after the references are expanded is a fault `Gateway` allows.

Two definitions were wrong or too weak to prove and are as they are because of the
attempt: `PathsDenote` claimed that every location's spelling reaches it (see the blanks
above; TLC finds the counterexample once `Blanks` is among the paths of the instance),
and parsed capabilities had no type.

### Only model-checked

- `EventuallyPromoted`, `RunsEnd` and `ShutdownEnds`: liveness under fairness is out of
  the prover's reach.
- The five properties the code does not have, of the runs that expect a violation.

Every invariant and every action property of a passing run, and both refinements, are
theorems.

## Not modelled

`internal/security/policy.go` is a table of regular expressions and address blocks
whose matches are the constant `Denied`; the command and the server use the default
one, and nothing in the program calls `LoadPolicy` or `RedactOutput`. Regular
expressions, `encoding/json`, `strconv` and the formatting of errors are
libraries here. The JSON-RPC framing, printing and the demo agent in `toys/` keep
no state.

## Plan

Done, in this order: `FileTree`, `Promotion`, `ShadowVFS` with its proofs, since
every other part relies on the overlay; `Gateway`, which decides what reaches it,
with its proofs; `Migration`, which decides what may run; the modules of
`Admission`, which decide what a session means; then the proofs of one commit at a time,
of `Promotion`, of the library's remaining properties, of texts and paths, of
`Admission` and its refinement of `Gateway`, and of the two fingerprints.

Next:

1. What two commits of one session preserve: the claims about one commit at a time are
   false for two, and a weaker one that both keep is not stated yet.
2. The order of the manifest against the order of the commit, and the migrator's
   capability gaps, neither of which any property needs so far.
