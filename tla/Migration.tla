------------------------------ MODULE Migration ------------------------------
(***************************************************************************)
(* The library of skill files and those who write it: `loom                *)
(* migrate-openclaw` (internal/migrator/migrator.go) turns markdown skills *)
(* into drafts, `loom accept-migration` (internal/migrator/accept.go)      *)
(* signs a draft a human has reviewed, and people edit files by hand.  The *)
(* commands are separate processes: each looks at a file, works, and later *)
(* writes it (io.go), and nothing locks the library in between.            *)
(*                                                                         *)
(* A source text stands for its sha256, so hash is the text a draft was    *)
(* made from.  A body "translated" is the translation of hash; MigratedAt, *)
(* the model and the stub reason, which the signature also covers, are     *)
(* left out.                                                               *)
(*                                                                         *)
(* Variables accepted and seen are history: only properties read them.     *)
(***************************************************************************)
EXTENDS Naturals, Sequences, FiniteSets

CONSTANTS
  Migrator,    \* `loom migrate-openclaw` processes
  Acceptor,    \* `loom accept-migration` processes
  Path,        \* markdown files under the source directory
  Order,       \* the same, sorted by relative path
  IdOf,        \* IdOf[p]: the skill id in p's frontmatter
  Text,        \* what a source file may contain
  Broken,      \* texts that do not parse
  Mechanical,  \* texts the Tier 1 patterns match
  Absent,      \* no file
  Edit,        \* bodies people write by hand
  Options,     \* what `loom migrate-openclaw` may be asked (OptionsType)
  Sources,     \* what the source directory may hold at first
  Libraries,   \* what the library may hold at first
  MaxCopies,   \* bound: -imported-<k> suffixes (10000 in the code)
  MaxEdits,    \* bound: changes by hand
  MaxFaults    \* bound: failed calls

\* off: --mechanical-mode=off.  llm: --no-llm is absent and a client is set up.
OptionsType == [conflict : {"skip", "rename", "overwrite"}, force : BOOLEAN,
                execute : BOOLEAN, off : BOOLEAN, llm : BOOLEAN]

Id == {IdOf[p] : p \in Path}

\* <<id, 0>> is <id>.loom.json and <<id, k>> is <id>-imported-<k>.loom.json.
Name == Id \X (0 .. MaxCopies)

Body == {"translated", "blank", "garbled"} \cup Edit

\* What CanonicalBodyHash covers.  Mode "none": no _provenance block.
Seal == [body : Body, mode : {"none", "mechanical", "llm-assisted", "stub"},
         from : Path, hash : Text]

\* sig: {} or the seal that ReviewerSignature is a hash of.
File == [seal : Seal, reviewed : BOOLEAN, sig : SUBSET Seal]

Written == {"mechanical", "llm-assisted", "stub", "renamed", "overwritten"}
Item == [path : Path, name : Name,
         status : Written \cup {"skipped", "refused", "error"}]

ASSUME MigrationAssumption ==
  /\ Absent \notin File /\ Absent \notin Text
  /\ Text # {} /\ Order \in Seq(Path) \ {<<>>}
  /\ \A p \in Path : \E i \in DOMAIN Order : Order[i] = p
  /\ IdOf \in [Path -> Id]
  /\ Broken \subseteq Text /\ Mechanical \subseteq Text
  /\ Options \subseteq OptionsType
  /\ Sources \subseteq [Path -> Text \cup {Absent}]
  /\ Libraries \subseteq [Name -> File \cup {Absent}]
  /\ MaxCopies \in Nat /\ MaxEdits \in Nat /\ MaxFaults \in Nat

VARIABLES
  src,       \* src[p]: the source file p
  lib,       \* lib[n]: the skill file n
  pc,        \* pc[m]: where migrator m is
  opts,      \* opts[m]: what m was asked
  at,        \* at[m]: the position in Order
  entries,   \* entries[m]: the source texts m has read
  dest,      \* dest[m]: the file m is about to write
  how,       \* how[m]: "", "renamed" or "overwritten"
  items,     \* items[m]: the report so far
  apc,       \* apc[a]: where acceptor a is
  chosen,    \* chosen[a]: the file a was given
  held,      \* held[a]: the copy a has read
  edits, faults,
  accepted,  \* seals whose source some acceptor has verified
  seen       \* seen[m]: the library when m resolved its destination

migVars == <<pc, opts, at, entries, dest, how, items, seen>>
accVars == <<apc, chosen, held, accepted>>
vars == <<src, lib, migVars, accVars, edits, faults>>

SomeName == CHOOSE n \in Name : TRUE
SomeText == CHOOSE t \in Text : TRUE

Signatures(l) == UNION {l[n].sig : n \in {k \in Name : l[k] # Absent}}

Init ==
  /\ src \in Sources
  /\ lib \in Libraries
  /\ pc = [m \in Migrator |-> "idle"]
  /\ opts \in [Migrator -> Options]
  /\ at = [m \in Migrator |-> 1]
  /\ entries = [m \in Migrator |-> [p \in Path |-> Absent]]
  /\ dest = [m \in Migrator |-> SomeName]
  /\ how = [m \in Migrator |-> ""]
  /\ items = [m \in Migrator |-> <<>>]
  /\ apc = [a \in Acceptor |-> "idle"]
  /\ chosen \in [Acceptor -> Name]
  /\ held = [a \in Acceptor |-> Absent]
  /\ edits = 0
  /\ faults = 0
  /\ accepted = Signatures(lib)
  /\ seen = [m \in Migrator |-> lib]

Faulty == faults < MaxFaults /\ faults' = faults + 1

Reviewed(f) == f.seal.mode # "none" /\ f.reviewed

Signed(f) == f # Absent /\ Reviewed(f) /\ f.sig = {f.seal}

-----------------------------------------------------------------------------
(* Migrate.                                                                *)

Goto(m, l) == pc' = [pc EXCEPT ![m] = l]

\* Variant: the comparison is off by one.
PastTheEnd(m, l, end) ==
  IF at[m] <= Len(Order)
  THEN at' = [at EXCEPT ![m] = @ + 1] /\ Goto(m, l)
  ELSE at' = [at EXCEPT ![m] = 1] /\ Goto(m, end)

\* The next source file, or the end of the list and the next phase.
Past(m, l, end) ==
  IF at[m] < Len(Order)
  THEN at' = [at EXCEPT ![m] = @ + 1] /\ Goto(m, l)
  ELSE at' = [at EXCEPT ![m] = 1] /\ Goto(m, end)

\* collectSourceSkills reads every file before the first one is processed.
Collect(m) ==
  /\ pc[m] = "idle"
  /\ entries' = [entries EXCEPT ![m][Order[at[m]]] = src[Order[at[m]]]]
  /\ Past(m, "idle", "resolve")
  /\ UNCHANGED <<src, lib, opts, dest, how, items, seen, accVars, edits, faults>>

\* Reports on the file at hand and passes to the next.
Report(m, name, status) ==
  /\ items' = [items EXCEPT ![m] = Append(@,
       [path |-> Order[at[m]], name |-> name, status |-> status])]
  /\ Past(m, "resolve", "done")

Target(m) == <<IdOf[Order[at[m]]], 0>>

Entry(m) == entries[m][Order[at[m]]]

\* A file that was not there when the directory was walked has no item.
NoEntry(m) ==
  /\ pc[m] = "resolve"
  /\ Entry(m) = Absent
  /\ Past(m, "resolve", "done")
  /\ UNCHANGED <<src, lib, opts, entries, dest, how, items, seen, accVars, edits, faults>>

ParseError(m) ==
  /\ pc[m] = "resolve"
  /\ Entry(m) \in Broken
  /\ Report(m, Target(m), "error")
  /\ UNCHANGED <<src, lib, opts, entries, dest, how, seen, accVars, edits, faults>>

\* A target that does not parse counts as unreviewed.
isTargetReviewed(f) == f.seal.body # "garbled" /\ Reviewed(f)

\* The first free -imported-<k>; none when they are exhausted.
nextAvailableName(l, t) ==
  {<<t[1], k>> : k \in {i \in 1 .. MaxCopies :
     /\ l[<<t[1], i>>] = Absent
     /\ \A j \in 1 .. i - 1 : l[<<t[1], j>>] # Absent}}

\* Variant: skip renames nothing and stops nothing.
resolveConflictNoSkip(o, l, t) ==
  IF l[t] = Absent \/ o.conflict = "skip" THEN <<"", t>>
  ELSE IF o.conflict = "rename" THEN
    IF nextAvailableName(l, t) = {} THEN <<"refused", t>>
    ELSE <<"renamed", CHOOSE n \in nextAvailableName(l, t) : TRUE>>
  ELSE IF isTargetReviewed(l[t]) /\ ~o.force THEN <<"refused", t>> ELSE <<"overwritten", t>>

\* What becomes of the item, and the file it would be written to.
resolveConflict(o, l, t) ==
  IF l[t] = Absent THEN <<"", t>>
  ELSE CASE o.conflict = "skip" -> <<"skipped", t>>
         [] o.conflict = "rename" ->
              IF nextAvailableName(l, t) = {} THEN <<"refused", t>>
              ELSE <<"renamed", CHOOSE n \in nextAvailableName(l, t) : TRUE>>
         [] o.conflict = "overwrite" ->
              IF isTargetReviewed(l[t]) /\ ~o.force THEN <<"refused", t>>
              ELSE <<"overwritten", t>>

\* processSkill decides where the draft goes before it translates anything.
Resolve(m) ==
  LET r == resolveConflict(opts[m], lib, Target(m))
  IN /\ pc[m] = "resolve"
     /\ Entry(m) \in Text \ Broken
     /\ seen' = [seen EXCEPT ![m] = lib]
     /\ \/ /\ r[1] \in {"skipped", "refused"}
           /\ Report(m, r[2], r[1])
           /\ UNCHANGED <<dest, how>>
        \/ /\ r[1] \in {"", "renamed", "overwritten"}
           /\ dest' = [dest EXCEPT ![m] = r[2]]
           /\ how' = [how EXCEPT ![m] = r[1]]
           /\ Goto(m, "emit")
           /\ UNCHANGED <<at, items>>
     /\ UNCHANGED <<src, lib, opts, entries, accVars, edits, faults>>

\* os.Stat or the read of the target fails: the item is refused.
FailResolve(m) ==
  /\ Faulty
  /\ pc[m] = "resolve"
  /\ Entry(m) \in Text \ Broken
  /\ Report(m, Target(m), "refused")
  /\ UNCHANGED <<src, lib, opts, entries, dest, how, seen, accVars, edits>>

\* The language model translates, answers with no steps (which is stamped
\* "llm-assisted" all the same), or fails, twice when its answer is malformed.
Translate ==
  {<<"llm-assisted", "translated">>, <<"llm-assisted", "blank">>, <<"stub", "blank">>}

\* The modes and bodies a source text may be given.
classify(o, t) ==
  IF ~o.off /\ t \in Mechanical THEN {<<"mechanical", "translated">>}
  ELSE IF o.llm THEN Translate ELSE {<<"stub", "blank">>}

Draft(m, c) ==
  [seal |-> [body |-> c[2], mode |-> c[1], from |-> Order[at[m]], hash |-> Entry(m)],
   reviewed |-> FALSE, sig |-> {}]

\* Variant: the draft always takes the name of the skill.
EmitAtTarget(m) == \E c \in classify(opts[m], Entry(m)) :
  /\ pc[m] = "emit"
  /\ lib' = IF opts[m].execute THEN [lib EXCEPT ![Target(m)] = Draft(m, c)] ELSE lib
  /\ Report(m, dest[m], IF how[m] = "" THEN c[1] ELSE how[m])
  /\ UNCHANGED <<src, opts, entries, dest, how, seen, accVars, edits, faults>>

\* The draft replaces whatever has the name by now.
Emit(m) == \E c \in classify(opts[m], Entry(m)) :
  /\ pc[m] = "emit"
  /\ lib' = IF opts[m].execute THEN [lib EXCEPT ![dest[m]] = Draft(m, c)] ELSE lib
  /\ Report(m, dest[m], IF how[m] = "" THEN c[1] ELSE how[m])
  /\ UNCHANGED <<src, opts, entries, dest, how, seen, accVars, edits, faults>>

\* writeSkill fails.  When the rename fails it removes the target and tries
\* again, so the old file may be gone too.
Botched(n) == {lib, [lib EXCEPT ![n] = Absent]}

FailEmit(m) ==
  /\ Faulty
  /\ pc[m] = "emit"
  /\ opts[m].execute
  /\ lib' \in Botched(dest[m])
  /\ Report(m, dest[m], "error")
  /\ UNCHANGED <<src, opts, entries, dest, how, seen, accVars, edits>>

-----------------------------------------------------------------------------
(* AcceptMigration.                                                        *)

AcceptRead(a) ==
  LET f == lib[chosen[a]]
  IN /\ apc[a] = "idle"
     /\ held' = [held EXCEPT ![a] = f]
     /\ apc' = [apc EXCEPT ![a] =
          IF f = Absent THEN "refused"
          ELSE IF f.seal.body = "garbled" \/ f.seal.mode \in {"none", "stub"} \/ f.reviewed
          THEN "refused" ELSE "verify"]
     /\ UNCHANGED <<src, lib, migVars, chosen, edits, faults, accepted>>

\* The source is read again and must be the text the draft was made from.
AcceptVerify(a) ==
  LET seal == held[a].seal
      same == src[seal.from] = seal.hash
  IN /\ apc[a] = "verify"
     /\ apc' = [apc EXCEPT ![a] = IF same THEN "write" ELSE "refused"]
     /\ accepted' = accepted \cup (IF same THEN {seal} ELSE {})
     /\ UNCHANGED <<src, lib, migVars, chosen, held, edits, faults>>

\* Variant: what is signed is read from the file once more.
AcceptWriteRereads(a) ==
  LET f == lib[chosen[a]]
  IN /\ apc[a] = "write"
     /\ f # Absent
     /\ lib' = [lib EXCEPT ![chosen[a]].reviewed = TRUE, ![chosen[a]].sig = {f.seal}]
     /\ apc' = [apc EXCEPT ![a] = "done"]
     /\ UNCHANGED <<src, migVars, chosen, held, edits, faults, accepted>>

\* The copy that was read is signed and replaces whatever has the name by now.
AcceptWrite(a) ==
  /\ apc[a] = "write"
  /\ lib' = [lib EXCEPT ![chosen[a]] =
       [seal |-> held[a].seal, reviewed |-> TRUE, sig |-> {held[a].seal}]]
  /\ apc' = [apc EXCEPT ![a] = "done"]
  /\ UNCHANGED <<src, migVars, chosen, held, edits, faults, accepted>>

FailAccept(a) ==
  /\ Faulty
  /\ apc[a] = "write"
  /\ lib' \in Botched(chosen[a])
  /\ apc' = [apc EXCEPT ![a] = "refused"]
  /\ UNCHANGED <<src, migVars, chosen, held, edits, accepted>>

-----------------------------------------------------------------------------
(* People.                                                                 *)

ByHand ==
  /\ edits < MaxEdits
  /\ edits' = edits + 1
  /\ UNCHANGED <<migVars, accVars, faults>>

EditSource == \E p \in Path, t \in Text \cup {Absent} :
  ByHand /\ src' = [src EXCEPT ![p] = t] /\ UNCHANGED lib

\* A new body under the old provenance, a flag set or cleared by hand, a file
\* written from nothing, a file deleted.  Nobody computes a signature.
EditFile == \E n \in Name : ByHand /\ UNCHANGED src /\
  \/ /\ lib[n] # Absent
     /\ \E b \in Edit \cup {"garbled"} : lib' = [lib EXCEPT ![n].seal.body = b]
  \/ lib[n] # Absent /\ lib' = [lib EXCEPT ![n].reviewed = ~@]
  \/ lib' = [lib EXCEPT ![n] = Absent]
  \/ \E b \in Edit : lib' = [lib EXCEPT ![n] =
       [seal |-> [body |-> b, mode |-> "none", from |-> Order[1], hash |-> SomeText],
        reviewed |-> FALSE, sig |-> {}]]

Next ==
  \/ \E m \in Migrator :
       \/ Collect(m) \/ NoEntry(m) \/ ParseError(m) \/ Resolve(m) \/ FailResolve(m)
       \/ Emit(m) \/ FailEmit(m)
  \/ \E a \in Acceptor :
       AcceptRead(a) \/ AcceptVerify(a) \/ AcceptWrite(a) \/ FailAccept(a)
  \/ EditSource \/ EditFile

Spec == Init /\ [][Next]_vars

-----------------------------------------------------------------------------
(* Properties.                                                             *)

\* The gate of internal/engine/executor.go: whether a run gets past it.
enforceDraftPolicy(f, policy) ==
  \/ f.seal.mode = "none"
  \/ /\ f.seal.mode # "stub"
     /\ IF f.reviewed THEN f.sig = {f.seal} ELSE policy # "refuse"

\* Every variable has its type.
TypeOK ==
  /\ src \in [Path -> Text \cup {Absent}]
  /\ lib \in [Name -> File \cup {Absent}]
  /\ pc \in [Migrator -> {"idle", "resolve", "emit", "done"}]
  /\ opts \in [Migrator -> OptionsType]
  /\ at \in [Migrator -> 1 .. Len(Order)]
  /\ entries \in [Migrator -> [Path -> Text \cup {Absent}]]
  /\ dest \in [Migrator -> Name]
  /\ how \in [Migrator -> {"", "renamed", "overwritten"}]
  /\ items \in [Migrator -> Seq(Item)]
  /\ apc \in [Acceptor -> {"idle", "verify", "write", "done", "refused"}]
  /\ chosen \in [Acceptor -> Name]
  /\ held \in [Acceptor -> File \cup {Absent}]
  /\ edits \in Nat /\ faults \in Nat
  /\ accepted \subseteq Seal
  /\ seen \in [Migrator -> [Name -> File \cup {Absent}]]

\* A migrated skill that the default policy lets run has a body and a source
\* that `loom accept-migration` verified, whatever was edited, migrated again
\* or signed at the same time (docs/migration.md: the signature is recomputed
\* on every run).
ExecutedWasAccepted == \A n \in Name :
  (/\ lib[n] # Absent /\ lib[n].seal.body # "garbled" /\ lib[n].seal.mode # "none"
   /\ enforceDraftPolicy(lib[n], "refuse"))
  => lib[n].seal \in accepted

\* A step in which migrator m finishes an item.
Reports(m) == items'[m] # items[m]

\* A migrator changes nothing in a dry run and one file with an item at most.
\* A file that was there when it looked is that file only if it was told to
\* overwrite, and then one marked as reviewed only if it was forced or the file
\* did not parse (resolveConflict and nextAvailableName decide, writeSkill
\* obeys).  What appeared or was signed since it looked does not count.
ReplacesKnowingly == [][\A m \in Migrator, n \in Name :
  (Reports(m) /\ lib'[n] # lib[n]) =>
    /\ opts[m].execute /\ n = dest[m]
    /\ seen[m][n] # Absent =>
         /\ opts[m].conflict = "overwrite"
         /\ \/ opts[m].force
            \/ ~Reviewed(seen[m][n])
            \/ seen[m][n].seal.body = "garbled"]_vars

\* As long as nobody else touches the library, each draft a migration reports
\* is in the file it names and was made from the text it read, until the same
\* migration overwrites that file for a later source with the same id.
ReportedDraftsLanded == \A m \in Migrator : \A i \in DOMAIN items[m] :
  LET item == items[m][i]
      file == lib[item.name]
      alone == /\ edits = 0
               /\ \A a \in Acceptor : apc[a] \notin {"done", "refused"}
               /\ \A o \in Migrator \ {m} : items[o] = <<>>
  IN (alone /\ opts[m].execute /\ item.status \in Written)
     => \/ /\ file # Absent
           /\ file.seal.from = item.path
           /\ file.seal.hash = entries[m][item.path]
        \/ /\ opts[m].conflict = "overwrite"
           /\ \E j \in DOMAIN items[m] : j > i /\ items[m][j].name = item.name

\* migrator.go calls it the "human review must not be silently destroyed"
\* guarantee: without force, no migration takes a signed file away.
ReviewNotDestroyed == [][\A m \in Migrator, n \in Name :
  (Reports(m) /\ Signed(lib[n]) /\ ~Signed(lib'[n])) => opts[m].force]_vars
=============================================================================
