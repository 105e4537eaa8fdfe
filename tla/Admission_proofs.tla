-------------------------- MODULE Admission_proofs --------------------------
(***************************************************************************)
(* Proofs about Admission, for every set of skill files and callers, texts *)
(* of any length and any number of parameters and steps.                   *)
(*                                                                         *)
(* SessionInv says what CompileAndSetup has established where the session  *)
(* is, RunInv what the steps executed so far have left behind, PlaceInv    *)
(* which locations they reach.  The lemmas before them say of what types   *)
(* parsing, sanitizing and path resolution are; module Template_proofs     *)
(* says what substitution yields, module Paths_proofs what cleaning does.  *)
(***************************************************************************)
EXTENDS Admission, Fingerprint_proofs

-----------------------------------------------------------------------------
(* Texts.                                                                  *)

\* The lines that are written are lines.
LEMMA WrittenIs ==
  ASSUME NEW L, NEW lines \in Seq(L)
  PROVE  Written(lines) \in Seq(L)
<1> DEFINE Op(l) == IF Is(l, "blank") THEN <<>> ELSE <<l>>
           seqs == [i \in DOMAIN lines |-> Op(lines[i])]
<1>1. \A l \in L : Op(l) \in Seq(L)
  <2> SUFFICES ASSUME NEW l \in L PROVE Op(l) \in Seq(L)
    OBVIOUS
  <2>1. <<>> \in Seq(L) /\ <<l>> \in Seq(L)
    OBVIOUS
  <2> QED
    BY <2>1
<1>2. Written(lines) = FlattenSeq(seqs)
  BY DEF Written, Concat
<1>3. seqs \in Seq(Seq(L))
  <2>1. Len(lines) \in Nat /\ DOMAIN lines = 1..Len(lines) /\ \A i \in DOMAIN lines : lines[i] \in L
    OBVIOUS
  <2> HIDE DEF Op
  <2> QED
    BY <1>1, <2>1
<1> HIDE DEF seqs
<1>4. PICK sum \in [0..Len(seqs) -> Seq(L)] : FlattenSeq(seqs) = sum[Len(seqs)]
  <2>1. \E sum \in [0..Len(seqs) -> Seq(L)] :
          /\ sum[0] = <<>>
          /\ \A i \in 1..Len(seqs) : sum[i] = sum[i - 1] \o seqs[i]
          /\ FlattenSeq(seqs) = sum[Len(seqs)]
    BY <1>3, Flattened, Zenon
  <2> QED
    BY <2>1, Zenon
<1>5. Len(seqs) \in 0..Len(seqs)
  BY <1>3
<1> QED
  BY <1>2, <1>4, <1>5

\* A section is a stretch of the lines.
LEMMA SectionIs ==
  ASSUME NEW L, NEW lines \in Seq(L), NEW title, NEW start \in Nat \ {0},
         NEW x \in extractSection(lines, title, start)
  PROVE  x \in Seq(L)
<1> DEFINE heads == {i \in start..Len(lines) : Is(lines[i], "head") /\ lines[i].title = title}
           stop(h) == {i \in (h + 1)..Len(lines) : Is(lines[i], "head")} \cup {Len(lines) + 1}
<1>1. PICK h \in First(heads) : x = SubSeq(lines, h + 1, Min(stop(h)) - 1)
  BY DEF extractSection
<1>2. Len(lines) \in Nat /\ start \in Nat
  OBVIOUS
<1>3. heads \subseteq start..Len(lines) /\ heads \subseteq Nat
  BY <1>2
<1>4. h \in Nat /\ h <= Len(lines)
  <2> HIDE DEF heads
  <2>1. heads # {} /\ h = Min(heads)
    BY DEF First
  <2>2. h \in heads
    BY <1>3, <2>1, MinIs
  <2> QED
    BY <1>2, <1>3, <2>2
<1>5. stop(h) \subseteq (h + 1)..(Len(lines) + 1) /\ stop(h) # {}
  BY <1>2, <1>4
<1> HIDE DEF stop
<1>6. PICK m \in (h + 1)..(Len(lines) + 1) : m = Min(stop(h))
  <2>1. stop(h) \subseteq Nat
    BY <1>2, <1>4, <1>5
  <2> QED
    BY <1>5, <2>1, MinIs
<1>7. h + 1 \in Nat \ {0} /\ m - 1 \in Nat /\ m - 1 <= Len(lines)
  BY <1>2, <1>4, <1>6
<1> QED
  BY <1>1, <1>6, <1>7, StretchIs

-----------------------------------------------------------------------------
(* What the parsers return.                                                *)

LEMMA FirstIs ==
  ASSUME NEW S, S \subseteq Nat, NEW n \in First(S)
  PROVE  n \in S
BY MinIs DEF First

LEMMA FrontIs ==
  ASSUME NEW L, NEW lines \in Seq(L), NEW end \in extractFrontmatter(lines)
  PROVE  end \in Nat \ {0}
<1> DEFINE fences == {i \in 2..Len(lines) : Is(lines[i], "fence")}
<1>1. end \in First(fences)
  BY DEF extractFrontmatter
<1>2. fences \subseteq 2..Len(lines) /\ Len(lines) \in Nat
  OBVIOUS
<1> HIDE DEF fences
<1>3. fences \subseteq Nat
  BY <1>2
<1>4. end \in fences
  BY <1>1, <1>3, FirstIs
<1> QED
  BY <1>2, <1>4

\* The parameters of a skill: finitely many, and their names and defaults are texts.
Declared(params) ==
  /\ IsFiniteSet(DOMAIN params) /\ DOMAIN params \subseteq Text
  /\ \A n \in DOMAIN params : params[n].default \in Text

LEMMA DefaultIs ==
  ASSUME NEW t \in Text
  PROVE  extractDefaultValue(t) \in Text
<1> DEFINE ends == {i \in DOMAIN t : t[i] \in {".", "]"}} \cup {Len(t) + 1}
<1>1. Len(t) \in Nat /\ DOMAIN t = 1..Len(t)
  BY DEF Text
<1>2. ends # {} /\ ends \subseteq 1..(Len(t) + 1)
  BY <1>1
<1>3. extractDefaultValue(t) = TrimSpace(SubSeq(t, 1, Min(ends) - 1))
  BY Zenon DEF extractDefaultValue
<1> HIDE DEF ends
<1>4. PICK e \in 1..(Len(t) + 1) : e = Min(ends)
  <2>1. ends \subseteq Nat
    BY <1>1, <1>2
  <2> QED
    BY <1>2, <2>1, MinIs
<1>5. SubSeq(t, 1, e - 1) \in Text
  <2>1. e - 1 \in Nat /\ e - 1 <= Len(t) /\ 1 \in Nat \ {0}
    BY <1>1
  <2> QED
    BY <2>1, StretchIs DEF Text
<1> QED
  BY <1>3, <1>4, <1>5, TrimIs DEF Text

LEMMA ParametersIs ==
  ASSUME NEW L, \A l \in L : LineType(l), NEW section \in Seq(L),
         NEW p \in parseParameters(section)
  PROVE  Declared(p)
<1> DEFINE decl == Written(section)
           name(i) == TrimSpace(decl[i].name)
           of(n) == decl[CHOOSE i \in DOMAIN decl : name(i) = n]
<1>1. /\ DOMAIN p = {name(i) : i \in DOMAIN decl}
      /\ \A i \in DOMAIN decl : Is(decl[i], "param")
      /\ \A n \in DOMAIN p : p[n].default = extractDefaultValue(of(n).default)
  <2>1. /\ \A i \in DOMAIN decl : Is(decl[i], "param")
        /\ p = [n \in {name(i) : i \in DOMAIN decl} |->
                  [type |-> parseParameterType[of(n).type],
                   default |-> extractDefaultValue(of(n).default),
                   required |-> of(n).required]]
    BY Zenon DEF parseParameters
  <2> HIDE DEF decl, name, of
  <2> QED
    BY <2>1
<1>2. decl \in Seq(L)
  BY WrittenIs
<1>3. ASSUME NEW i \in DOMAIN decl
      PROVE  name(i) \in Text /\ decl[i].default \in Text
  <2>1. decl[i] \in L
    BY <1>2
  <2>2. decl[i].name \in Text /\ decl[i].default \in Text
    BY <1>1, <2>1, Zenon DEF LineType, Is
  <2> QED
    BY <2>2, TrimIs DEF Text
<1>4. Len(decl) \in Nat /\ DOMAIN decl = 1..Len(decl)
  BY <1>2
<1> HIDE DEF decl, name
<1>5. ASSUME NEW n \in DOMAIN p
      PROVE  p[n].default \in Text
  <2>1. \E i \in DOMAIN decl : name(i) = n
    BY <1>1
  <2>2. PICK i \in DOMAIN decl : i = CHOOSE j \in DOMAIN decl : name(j) = n
    BY <2>1
  <2>3. of(n).default \in Text
    BY <1>3, <2>2
  <2> QED
    BY <1>1, <2>3, DefaultIs
<1>6. IsFiniteSet(DOMAIN p)
  <2> DEFINE f == [i \in 1..Len(decl) |-> name(i)]
  <2>1. f \in [1..Len(decl) -> DOMAIN p] /\ \A n \in DOMAIN p : \E i \in 1..Len(decl) : f[i] = n
    BY <1>1, <1>4
  <2> HIDE DEF f
  <2>2. f \in Surjection(1..Len(decl), DOMAIN p)
    BY <2>1 DEF Surjection
  <2>3. IsFiniteSet(1..Len(decl))
    BY <1>4, FS_Interval
  <2> QED
    BY <2>2, <2>3, FS_Surjection
<1> QED
  BY <1>1, <1>3, <1>5, <1>6 DEF Declared

\* A step of a markdown skill.
MarkdownStep(step) ==
  /\ step.kind = "legacy" /\ step.outputs = <<>>
  /\ step.content \in Text
  /\ step.inputs = parseInstructionInputs(step.content)

LEMMA InstructionsIs ==
  ASSUME NEW L, \A l \in L : LineType(l), NEW section \in Seq(L),
         NEW s \in parseInstructions(section)
  PROVE  /\ s \in Seq(Range(s))
         /\ \A i \in DOMAIN s : MarkdownStep(s[i])
<1> DEFINE decl == Written(section)
           text(i) == TrimSpace(decl[i].text)
           step(i) == [id |-> <<"step_", ToString(i)>>, kind |-> "legacy", path |-> <<>>,
                       content |-> text(i), outputs |-> <<>>,
                       inputs |-> parseInstructionInputs(text(i))]
<1>1. /\ s = [i \in DOMAIN decl |-> step(i)]
      /\ \A i \in DOMAIN decl : Is(decl[i], "instr")
  BY Zenon DEF parseInstructions
<1>2. decl \in Seq(L)
  BY WrittenIs
<1>3. ASSUME NEW i \in DOMAIN decl
      PROVE  MarkdownStep(step(i))
  <2>1. decl[i] \in L
    BY <1>2
  <2>2. decl[i].text \in Text
    BY <1>1, <2>1, Zenon DEF LineType, Is
  <2>3. text(i) \in Text
    BY <2>2, TrimIs DEF Text
  <2> HIDE DEF text
  <2> QED
    BY <2>3 DEF MarkdownStep
<1> HIDE DEF step
<1>4. DOMAIN s = 1..Len(decl) /\ Len(decl) \in Nat
  BY <1>1, <1>2
<1>5. \A i \in DOMAIN s : s[i] \in Range(s)
  BY Zenon DEF Range
<1>6. s = [i \in 1..Len(decl) |-> s[i]]
  BY <1>1, <1>4
<1>7. s \in Seq(Range(s))
  BY <1>4, <1>5, <1>6
<1> QED
  BY <1>1, <1>3, <1>7

\* A skill read from markdown.
MarkdownSkill(k) ==
  /\ k.version = ""
  /\ Declared(k.params)
  /\ k.steps \in Seq(Range(k.steps))
  /\ \A i \in DOMAIN k.steps : MarkdownStep(k.steps[i])

LEMMA MarkdownIs ==
  ASSUME NEW L, \A l \in L : LineType(l), NEW lines \in Seq(L),
         NEW k \in OpenClawParser(lines)
  PROVE  MarkdownSkill(k)
<1>1. PICK end \in extractFrontmatter(lines) : k \in parseSections(lines, end)
  BY DEF OpenClawParser
<1> DEFINE section(title) == extractSection(lines, title, end)
           params == UNION {parseParameters(x) : x \in section("Parameters")}
           steps == UNION {parseInstructions(x) : x \in section("Instructions")}
<1>2. PICK id, c, p, s : p \in params /\ s \in steps /\ k = markdownSkill(id, p, c, s)
  BY <1>1 DEF parseSections
<1>3. end \in Nat \ {0}
  BY FrontIs
<1>4. Declared(p)
  <2>1. PICK x \in section("Parameters") : p \in parseParameters(x)
    BY <1>2
  <2>2. x \in Seq(L)
    BY <1>3, SectionIs
  <2> QED
    BY <2>1, <2>2, ParametersIs
<1>5. s \in Seq(Range(s)) /\ \A i \in DOMAIN s : MarkdownStep(s[i])
  <2>1. PICK x \in section("Instructions") : s \in parseInstructions(x)
    BY <1>2
  <2>2. x \in Seq(L)
    BY <1>3, SectionIs
  <2> QED
    BY <2>1, <2>2, InstructionsIs
<1> QED
  BY <1>2, <1>4, <1>5 DEF MarkdownSkill, markdownSkill

\* A skill in JSON names a version, and the kinds of its steps are known.
JSONSkill(k) ==
  /\ k.version = "v1" /\ SkillType(k)
  /\ \A i \in DOMAIN k.steps : k.steps[i].kind \in argsRegistry

\* What its parts are.
SkillParts(k) ==
  /\ k.id \in Text /\ Declared(k.params)
  /\ k.steps \in Seq(Range(k.steps)) /\ k.caps \in Seq(Range(k.caps))
  /\ \A step \in Range(k.steps) : step.path \in Text /\ step.content \in Text
  /\ \A c \in Range(k.caps) : c.scope \in Text

LEMMA PartsIs ==
  ASSUME NEW k, SkillType(k)
  PROVE  SkillParts(k)
<1>1. k.id \in Text /\ IsFiniteSet(DOMAIN k.params) /\ DOMAIN k.params \subseteq Text
  BY DEF SkillType
<1>2. \A n \in DOMAIN k.params : k.params[n].default \in Text
  <2>1. \A n \in DOMAIN k.params : k.params[n] \in ParameterRecord
    BY DEF SkillType
  <2>2. \A p \in ParameterRecord : p.default \in Text
    BY DEF ParameterRecord
  <2> QED
    BY <2>1, <2>2
<1>3. k.steps \in Seq(Range(k.steps)) /\ \A s \in Range(k.steps) : StepType(s)
  <2> DEFINE typed == {s \in Range(k.steps) : StepType(s)}
  <2>1. k.steps \in Seq(typed)
    BY DEF SkillType
  <2>2. typed \subseteq Range(k.steps) /\ \A s \in typed : StepType(s)
    OBVIOUS
  <2> HIDE DEF typed
  <2>3. Len(k.steps) \in Nat /\ DOMAIN k.steps = 1..Len(k.steps)
        /\ k.steps = [i \in 1..Len(k.steps) |-> k.steps[i]] /\ \A i \in DOMAIN k.steps : k.steps[i] \in typed
    BY <2>1
  <2>4. \A s \in Range(k.steps) : s \in typed
    BY <2>3, Zenon DEF Range
  <2>5. \A i \in 1..Len(k.steps) : k.steps[i] \in Range(k.steps)
    BY <2>2, <2>3
  <2> QED
    BY <2>2, <2>3, <2>4, <2>5
<1>4. \A s \in Range(k.steps) : s.path \in Text /\ s.content \in Text
  BY <1>3 DEF StepType
<1>5. k.caps \in Seq(Range(k.caps)) /\ \A c \in Range(k.caps) : c.scope \in Text
  <2>1. k.caps \in Seq(CapabilityRecord)
    BY DEF SkillType
  <2>2. Len(k.caps) \in Nat /\ DOMAIN k.caps = 1..Len(k.caps)
        /\ k.caps = [i \in 1..Len(k.caps) |-> k.caps[i]]
        /\ \A i \in DOMAIN k.caps : k.caps[i] \in CapabilityRecord
    BY <2>1
  <2>3. \A i \in 1..Len(k.caps) : k.caps[i] \in Range(k.caps)
    BY <2>2, Zenon DEF Range
  <2>4. \A c \in Range(k.caps) : c \in CapabilityRecord
    BY <2>2, Zenon DEF Range
  <2>5. \A c \in CapabilityRecord : c.scope \in Text
    BY DEF CapabilityRecord
  <2> QED
    BY <2>2, <2>3, <2>4, <2>5
<1> QED
  BY <1>1, <1>2, <1>3, <1>4, <1>5 DEF SkillParts, Declared

LEMMA JSONParts ==
  ASSUME NEW k, JSONSkill(k)
  PROVE  SkillParts(k)
BY PartsIs DEF JSONSkill

\* A tool's file is there, is named like the tool and has one of two suffixes.
LEMMA LocatedIs ==
  ASSUME NEW lib, NEW name, NEW f \in locateSkillFile(lib, name)
  PROVE  f \in DOMAIN lib /\ f.stem = name /\ f.suffix \in {".loom.json", ".md"}
<1> DEFINE suffix == <<".loom.json", ".md">>
           candidate == [i \in 1..2 |-> [stem |-> name, suffix |-> suffix[i]]]
           there == {i \in 1..2 : candidate[i] \in DOMAIN lib}
<1>1. PICK i \in First(there) : f = candidate[i]
  BY DEF locateSkillFile
<1>2. i \in there
  <2>1. there \subseteq Nat
    OBVIOUS
  <2> HIDE DEF there
  <2> QED
    BY <2>1, FirstIs
<1>3. i \in 1..2 /\ candidate[i] \in DOMAIN lib /\ f = [stem |-> name, suffix |-> suffix[i]]
  BY <1>1, <1>2
<1>4. suffix[i] \in {".loom.json", ".md"}
  BY <1>3
<1> QED
  BY <1>1, <1>3, <1>4

LEMMA FileIs ==
  ASSUME NEW c, NEW k \in ReadSkill(c)
  PROVE  \E f \in DOMAIN c.lib :
           /\ k \in ParseFile(f.suffix, c.lib[f])
           /\ c.cmd = "call" =>
                /\ Slash \notin ToSet(f.stem)
                /\ f.suffix \in {".loom.json", ".md"}
<1> DEFINE name == TrimSpace(c.ask)
           sound == decodeArguments(c.args) # {} /\ name # <<>> /\ validateSkillLookupName(name)
           files == IF c.cmd = "call"
                      THEN IF sound THEN locateSkillFile(c.lib, name) ELSE {}
                      ELSE {[stem |-> c.ask, suffix |-> c.suffix]} \cap DOMAIN c.lib
<1>1. PICK f \in files : k \in ParseFile(f.suffix, c.lib[f])
  BY Zenon DEF ReadSkill
<1>2. CASE c.cmd = "call"
  <2>1. validateSkillLookupName(name) /\ f \in locateSkillFile(c.lib, name)
    BY <1>2, Zenon
  <2>2. f \in DOMAIN c.lib /\ f.stem = name /\ f.suffix \in {".loom.json", ".md"}
    BY <2>1, LocatedIs
  <2>3. Slash \notin ToSet(f.stem)
    BY <2>1, <2>2, Zenon DEF validateSkillLookupName
  <2> QED
    BY <1>1, <2>2, <2>3
<1>3. CASE c.cmd # "call"
  BY <1>1, <1>3
<1> QED
  BY <1>2, <1>3

\* What a command reads is one or the other.
LEMMA ReadIs ==
  ASSUME NEW c \in Case, NEW k \in ReadSkill(c)
  PROVE  JSONSkill(k) \/ MarkdownSkill(k)
<1>1. PICK f \in DOMAIN c.lib : k \in ParseFile(f.suffix, c.lib[f])
  BY FileIs
<1>2. PICK d : d = c.lib[f]
  OBVIOUS
<1>3. DocumentType(d)
  BY <1>2, AdmissionAssumption DEF CaseType
<1>4. \/ d.format = "json" /\ k \in V1JSONParser(d.skill)
      \/ d.format = "lines" /\ k \in OpenClawParser(d.lines)
  BY <1>1, <1>2, Zenon DEF ParseFile
<1>5. CASE d.format = "json" /\ k \in V1JSONParser(d.skill)
  BY <1>3, <1>5 DEF DocumentType, V1JSONParser, JSONSkill
<1>6. CASE d.format = "lines" /\ k \in OpenClawParser(d.lines)
  <2>1. PICK L : d.lines \in Seq(L) /\ \A l \in L : LineType(l)
    BY <1>3, <1>6 DEF DocumentType
  <2> QED
    BY <1>6, <2>1, MarkdownIs
<1> QED
  BY <1>4, <1>5, <1>6

LEMMA SkillIs ==
  ASSUME NEW c \in Case, NEW k \in ReadSkill(c)
  PROVE  /\ Len(k.steps) \in Nat /\ DOMAIN k.steps = 1..Len(k.steps)
         /\ \A i \in DOMAIN k.steps : k.steps[i].content \in Text
         /\ Declared(k.params) /\ DOMAIN k.params \subseteq Text
<1>1. k.steps \in Seq(Range(k.steps))
  BY ReadIs, JSONParts, Zenon DEF SkillParts, MarkdownSkill
<1>2. ASSUME NEW i \in DOMAIN k.steps
      PROVE  k.steps[i].content \in Text
  <2>1. k.steps[i] \in Range(k.steps)
    BY Zenon DEF Range
  <2> QED
    BY <2>1, ReadIs, JSONParts, Zenon DEF SkillParts, MarkdownSkill, MarkdownStep
<1>3. Declared(k.params) /\ DOMAIN k.params \subseteq Text
  BY ReadIs, JSONParts DEF SkillParts, MarkdownSkill, Declared
<1>4. Len(k.steps) \in Nat /\ DOMAIN k.steps = 1..Len(k.steps)
  BY <1>1
<1> QED
  BY <1>2, <1>3, <1>4

\* A path reaches at most one location.
LEMMA TargetOne ==
  ASSUME NEW t, NEW workspace, NEW shadowRoot,
         NEW p \in Target(t, workspace, shadowRoot), NEW q \in Target(t, workspace, shadowRoot)
  PROVE  p = q
<1>1. \A b, r : \A x, y \in joinWithinBase(b, r) : x = y
  BY DEF joinWithinBase
<1>2. \A b, r : \A x, y \in relativeIfWithinBase(b, r) : x = y
  BY DEF relativeIfWithinBase
<1>3. \A x, y \in sanitizeCallerRelativePath(t, shadowRoot) : x = y
  BY <1>1, Zenon DEF sanitizeCallerRelativePath
<1>4. \A x, y \in SanitizeShadowRelPath(shadowRoot, t) : x = y
  BY <1>3, Zenon DEF SanitizeShadowRelPath
<1>5. \A s : \A x, y \in resolveManagedRelativePath(s, workspace, shadowRoot) : x = y
  <2> SUFFICES ASSUME NEW s, NEW x \in resolveManagedRelativePath(s, workspace, shadowRoot),
                      NEW y \in resolveManagedRelativePath(s, workspace, shadowRoot)
               PROVE  x = y
    OBVIOUS
  <2> DEFINE path == Clean(TrimSpace(s))
             joined == joinWithinBase(workspace, path.parts)
             inside == relativeIfWithinBase(workspace, path.parts)
             other == relativeIfWithinBase(shadowRoot, path.parts)
             candidates == IF ~path.rooted
                             THEN UNION {relativeIfWithinBase(workspace, c) : c \in joined}
                           ELSE IF inside # {} THEN inside ELSE other
  <2>1. x \in candidates /\ y \in candidates
    BY Zenon DEF resolveManagedRelativePath, validateManagedRelativePath
  <2>2. CASE ~path.rooted
    <3>1. PICK a \in joined : x \in relativeIfWithinBase(workspace, a)
      BY <2>1, <2>2
    <3>2. PICK b \in joined : y \in relativeIfWithinBase(workspace, b)
      BY <2>1, <2>2
    <3>3. a = b
      BY <1>1
    <3> QED
      BY <1>2, <3>1, <3>2, <3>3
  <2>3. CASE path.rooted
    BY <1>2, <2>1, <2>3
  <2> QED
    BY <2>2, <2>3
<1>6. PICK r \in SanitizeShadowRelPath(shadowRoot, t) :
        p \in resolveManagedRelativePath(r, workspace, shadowRoot)
  BY DEF Target
<1>7. PICK s \in SanitizeShadowRelPath(shadowRoot, t) :
        q \in resolveManagedRelativePath(s, workspace, shadowRoot)
  BY DEF Target
<1> QED
  BY <1>4, <1>5, <1>6, <1>7

LEMMA ReachOne ==
  ASSUME NEW c, NEW step, NEW p \in Reach(c, step), NEW q \in Reach(c, step)
  PROVE  p = q
BY TargetOne DEF Reach

\* The locations a step reaches are among those the mapping to Gateway knows.
LEMMA ReachKnown ==
  ASSUME NEW c \in Case, NEW k \in ReadSkill(c), NEW i \in DOMAIN k.steps,
         NEW p \in Reach(c, k.steps[i])
  PROVE  p \in AllPaths
<1>1. (CHOOSE q \in Reach(c, k.steps[i]) : TRUE) = p
  BY ReachOne, Zenon
<1>2. StepOf(c, k, i).path = p
  BY <1>1 DEF StepOf
<1>3. SkillOf(c, k).steps = [j \in DOMAIN k.steps |-> StepOf(c, k, j)]
  BY DEF SkillOf
<1>4. StepOf(c, k, i) \in ToSet(SkillOf(c, k).steps)
  BY <1>3, Zenon DEF ToSet
<1>5. SkillOf(c, k) \in AllSkills
  <2>1. SkillOf(c, k) \in {SkillOf(c, x) : x \in ReadSkill(c)}
    OBVIOUS
  <2> QED
    BY <2>1 DEF AllSkills
<1>6. StepOf(c, k, i).path \in {s.path : s \in ToSet(SkillOf(c, k).steps)}
  BY <1>4
<1> DEFINE paths(x) == {s.path : s \in ToSet(x.steps)}
           all == {paths(x) : x \in AllSkills}
<1>7. UNION all \subseteq AllPaths
  BY DEF AllPaths
<1>8. p \in paths(SkillOf(c, k))
  BY <1>2, <1>6
<1> HIDE DEF paths
<1>9. paths(SkillOf(c, k)) \in all
  BY <1>5
<1> HIDE DEF all
<1> QED
  BY <1>7, <1>8, <1>9

\* What sanitizing yields is of the types the skill declares.
LEMMA SanitizedIs ==
  ASSUME NEW raw, NEW schema, NEW v \in SanitizeInput(raw, schema)
  PROVE  /\ DOMAIN v \subseteq DOMAIN schema
         /\ \A n \in DOMAIN v :
              v[n] \in sanitizeParameterValue(Supplied(raw, schema)[n], schema[n])
<1> DEFINE given == Supplied(raw, schema)
           value == [n \in DOMAIN given |-> sanitizeParameterValue(given[n], schema[n])]
<1>1. /\ \A n \in DOMAIN given : value[n] # {}
      /\ v = [n \in DOMAIN given |-> CHOOSE x \in value[n] : TRUE]
  BY Zenon DEF SanitizeInput
<1>2. DOMAIN given \subseteq DOMAIN schema
  BY DEF Supplied
<1>3. \A n \in DOMAIN given : (CHOOSE x \in value[n] : TRUE) \in value[n]
  BY <1>1
<1> HIDE DEF given
<1> QED
  BY <1>1, <1>2, <1>3 DEF given

LEMMA TypedIs ==
  ASSUME NEW t, NEW parameter, NEW v \in sanitizeParameterValue(t, parameter)
  PROVE  /\ v.tag = Tag[parameter.type]
         /\ v.tag # "s" => v.text \in Range(Canonical[parameter.type])
         /\ v.text = t \/ v.text \in UNION {Range(Canonical[y]) : y \in ParameterType \ {"string"}}
<1> DEFINE type == parameter.type
           texts == IF type = "string" THEN {x \in {t} : ~rejectShellInjection(x)}
                    ELSE IF type \in ParameterType
                      THEN {Canonical[type][x] : x \in {t} \cap DOMAIN Canonical[type]}
                    ELSE {}
<1>1. PICK x \in texts : v = [tag |-> Tag[type], text |-> x]
  BY Zenon DEF sanitizeParameterValue
<1>2. v.tag = Tag[type] /\ v.text = x
  BY <1>1
<1>3. CASE type = "string"
  <2>1. x = t
    BY <1>1, <1>3
  <2>2. Tag["string"] = "s"
    BY DEF Tag
  <2> QED
    BY <1>2, <1>3, <2>1, <2>2
<1>4. CASE type # "string"
  <2>1. type \in ParameterType /\ x \in Range(Canonical[type])
    BY <1>1, <1>4, Zenon DEF Range
  <2> QED
    BY <1>2, <1>4, <2>1
<1> QED
  BY <1>3, <1>4

-----------------------------------------------------------------------------
(* How far a session got.                                                  *)

Started == {"running", "aborted", "done"}
Admitted == {"verified", "admitted", "refused"} \cup Started
Sanitized == {"sanitized", "provisioned"} \cup Admitted
Checked == {"validated"} \cup Sanitized

\* What CompileAndSetup has established when the session is where it is.
SessionInv ==
  /\ case \in Case
  /\ phase \notin {"fresh", "unread"} => parsed \in ReadSkill(case)
  /\ phase \in {"fresh", "unread", "read"} => sanitized = <<>>
  /\ phase \in {"compiling", "validated"} => sanitized = <<>>
  /\ phase \in Checked => Valid(parsed)
  /\ phase \in Sanitized => sanitized \in Values(case, parsed)
  /\ sanitized = <<>> \/ (phase \notin {"fresh", "unread"} /\ sanitized \in Values(case, parsed))
  /\ receipt # NoReceipt => phase \in Admitted
  /\ phase = "verified" => case.cmd = "verify"

LEMMA SessionInit == Init => SessionInv
BY Zenon DEF Init, SessionInv, Checked, Sanitized, Admitted, Started

LEMMA SessionNext == SessionInv /\ [Next]_vars => SessionInv'
<1> USE DEF Goto, Checked, Sanitized, Admitted, Started
<1> SUFFICES ASSUME SessionInv, [Next]_vars
             PROVE  SessionInv'
  OBVIOUS
<1>1. CASE Read
  BY <1>1 DEF SessionInv, Read
<1>2. CASE Start
  BY <1>2 DEF SessionInv, Start
<1>3. CASE Validate
  BY <1>3 DEF SessionInv, Validate
<1>4. CASE Sanitize
  BY <1>4 DEF SessionInv, Sanitize
<1>5. CASE Provision
  BY <1>5 DEF SessionInv, Provision
<1>6. CASE RefuseRoots
  BY <1>6 DEF SessionInv, RefuseRoots
<1>7. CASE WriteReceipt
  BY <1>7 DEF SessionInv, WriteReceipt
<1>8. CASE Gate
  BY <1>8 DEF SessionInv, Gate
<1>9. CASE handleReadFile
  BY <1>9 DEF SessionInv, handleReadFile, Ready, Abort, Advance
<1>10. CASE handleWriteFile
  BY <1>10 DEF SessionInv, handleWriteFile, Ready, Abort, Advance
<1>11. CASE RefuseLegacy
  BY <1>11 DEF SessionInv, RefuseLegacy, Ready, Abort
<1>12. CASE Finish
  BY <1>12 DEF SessionInv, Finish
<1>13. CASE UNCHANGED vars
  BY <1>13 DEF SessionInv, vars
<1> QED
  BY <1>1, <1>2, <1>3, <1>4, <1>5, <1>6, <1>7, <1>8, <1>9, <1>10, <1>11, <1>12, <1>13 DEF Next

LEMMA SessionSafe == Spec => []SessionInv
BY SessionInit, SessionNext, PTL DEF Spec

-----------------------------------------------------------------------------
(* What follows from it.                                                   *)

LEMMA ListedIs == SessionInv => CallsOnlyListed
<1> SUFFICES ASSUME SessionInv, case.cmd = "call", phase \notin {"fresh", "unread"}
             PROVE  skillToToolDefinition(parsed) \in handleToolsList(case.lib)
  BY Zenon DEF CallsOnlyListed
<1> DEFINE lib == case.lib
           open == {f \in DOMAIN lib : /\ Slash \notin ToSet(f.stem)
                                       /\ ToLower(f.suffix) \in {".loom.json", ".md"}}
           tools(f) == {skillToToolDefinition(k) : k \in ParseFile(f.suffix, lib[f])}
<1>1. parsed \in ReadSkill(case)
  BY DEF SessionInv
<1>2. PICK f \in DOMAIN lib : /\ parsed \in ParseFile(f.suffix, lib[f])
                              /\ Slash \notin ToSet(f.stem) /\ f.suffix \in {".loom.json", ".md"}
  BY <1>1, FileIs
<1>3. ToLower(f.suffix) \in {".loom.json", ".md"}
  BY <1>2 DEF ToLower
<1>4. f \in open
  BY <1>2, <1>3
<1>5. skillToToolDefinition(parsed) \in tools(f)
  BY <1>2
<1>6. handleToolsList(case.lib) = UNION {tools(g) : g \in open}
  BY Zenon DEF handleToolsList
<1> HIDE DEF open, tools
<1>7. tools(f) \in {tools(g) : g \in open}
  BY <1>4
<1> QED
  BY <1>5, <1>6, <1>7

\* A call reaches only a skill that tools/list shows to callers
\* (validateSkillLookupName, locateSkillFile).
THEOREM CallsReachListed == Spec => []CallsOnlyListed
BY SessionSafe, ListedIs, PTL

\* The two scans agree on every text with a marker, for any bound names.
LEMMA ScansAgree ==
  ASSUME NEW T, NEW s \in Seq(T), Markers(s, 1) # {}, NEW names, names \subseteq Seq(T)
  PROVE  (\E refs \in extractVariableReferences(s) : ToSet(refs) \subseteq names)
         <=> substituteString(s, [n \in names |-> [tag |-> "s", text |-> n]]) # {}
<1> DEFINE inputs == [n \in names |-> [tag |-> "s", text |-> n]]
<1>1. DOMAIN inputs = names /\ \A n \in DOMAIN inputs : inputs[n].text \in Seq(T)
  <2>1. DOMAIN inputs = names
    BY Zenon
  <2>2. \A n \in names : inputs[n].text = n
    BY Zenon
  <2> HIDE DEF inputs
  <2> QED
    BY <2>1, <2>2
<1> HIDE DEF inputs
<1>2. substituteString(s, inputs) # {} <=> Expandable(s, names)
  BY <1>1, SubstitutionExpands
<1>3. Expandable(s, names) <=> \A o \in Markers(s, 1) : Sound(s, o) /\ Name(s, o) \in names
  BY Zenon DEF Expandable, Sound
<1>4. CASE \A o \in Markers(s, 1) : Sound(s, o)
  <2>1. PICK r : /\ extractVariableReferences(s) = {r}
                 /\ ToSet(r) = {Name(s, o) : o \in Markers(s, 1)}
    BY <1>4, ReferencesFound
  <2> QED
    BY <1>2, <1>3, <1>4, <2>1 DEF inputs
<1>5. CASE ~\A o \in Markers(s, 1) : Sound(s, o)
  <2>1. extractVariableReferences(s) = {}
    BY <1>5, ReferencesFound
  <2> QED
    BY <1>2, <1>3, <1>5, <2>1 DEF inputs
<1> QED
  BY <1>4, <1>5

LEMMA LayersIs == SessionInv => LayersAgree
<1> SUFFICES ASSUME SessionInv, phase = "read",
                    NEW step \in ToSet(parsed.steps), Markers(step.content, 1) # {},
                    NEW names \in SUBSET DOMAIN parsed.params
             PROVE  (\E refs \in extractVariableReferences(step.content) : ToSet(refs) \subseteq names)
                    <=> substituteString(step.content, [n \in names |-> [tag |-> "s", text |-> n]]) # {}
  BY Zenon DEF LayersAgree
<1>1. case \in Case /\ parsed \in ReadSkill(case)
  BY DEF SessionInv
<1>2. PICK i \in DOMAIN parsed.steps : step = parsed.steps[i]
  BY Zenon DEF ToSet
<1>3. step.content \in Text /\ names \subseteq Text
  BY <1>1, <1>2, SkillIs
<1> QED
  BY <1>3, ScansAgree, Zenon DEF Text

\* The validator and the executor agree on what is a reference, in every text
\* that has a marker and for any set of bound names (the claim of
\* substitution.go:45-47 about extractVariableReferences and substituteString).
THEOREM LayersAgreeAlways == Spec => []LayersAgree
BY SessionSafe, LayersIs, PTL

\* A value is taken when the type that tools/list shows takes it.
TakenAs(a, parameter) ==
  a.json \in {"string", "null"} /\ parameter.type \in ParameterType =>
    (sanitizeParameterValue(IF a.json = "null" THEN <<>> ELSE a.text, parameter) # {}
      <=> Takes(parameterTypeToJSONSchemaType(parameter.type), a))

LEMMA TakenIs ==
  ASSUME NEW a, NEW parameter
  PROVE  TakenAs(a, parameter)
<1> SUFFICES ASSUME a.json \in {"string", "null"}, parameter.type \in ParameterType
             PROVE  TakenAs(a, parameter)
  BY DEF TakenAs
<1> DEFINE type == parameter.type
           t == IF a.json = "null" THEN <<>> ELSE a.text
           texts == IF type = "string" THEN {v \in {t} : ~rejectShellInjection(v)}
                    ELSE IF type \in ParameterType
                      THEN {Canonical[type][v] : v \in {t} \cap DOMAIN Canonical[type]}
                    ELSE {}
<1>1. sanitizeParameterValue(t, parameter) = {[tag |-> Tag[type], text |-> v] : v \in texts}
  BY Zenon DEF sanitizeParameterValue
<1>2. sanitizeParameterValue(t, parameter) # {} <=> texts # {}
  <2> HIDE DEF texts, type
  <2> QED
    BY <1>1, Zenon
<1>3. type = "string" => (texts # {} <=> ~rejectShellInjection(t))
  BY Zenon
<1>4. type \in ParameterType \ {"string"} => (texts # {} <=> t \in DOMAIN Canonical[type])
  BY Zenon
<1>5. type \in {"string", "int", "bool", "float"}
  BY DEF ParameterType
<1> HIDE DEF texts, t
<1>6. CASE type = "string"
  BY <1>2, <1>3, <1>6 DEF t, TakenAs, Takes, parameterTypeToJSONSchemaType
<1>7. CASE type = "int"
  BY <1>2, <1>4, <1>7 DEF t, TakenAs, Takes, parameterTypeToJSONSchemaType, ParameterType
<1>8. CASE type = "bool"
  BY <1>2, <1>4, <1>8 DEF t, TakenAs, Takes, parameterTypeToJSONSchemaType, ParameterType
<1>9. CASE type = "float"
  BY <1>2, <1>4, <1>9 DEF t, TakenAs, Takes, parameterTypeToJSONSchemaType, ParameterType
<1> QED
  BY <1>5, <1>6, <1>7, <1>8, <1>9

\* Inputs are admitted when none is missing and none is refused, and no default
\* is needed that is refused.
LEMMA AdmitsIs ==
  ASSUME NEW raw, NEW schema, DOMAIN raw \subseteq DOMAIN schema,
         \A n \in DOMAIN schema :
           schema[n].default # <<>> => sanitizeParameterValue(schema[n].default, schema[n]) # {}
  PROVE  SanitizeInput(raw, schema) # {} <=>
           /\ \A n \in DOMAIN schema : schema[n].required => n \in DOMAIN raw
           /\ \A n \in DOMAIN raw : sanitizeParameterValue(raw[n], schema[n]) # {}
<1> DEFINE supplied == Supplied(raw, schema)
           value == [n \in DOMAIN supplied |-> sanitizeParameterValue(supplied[n], schema[n])]
           sound == /\ DOMAIN raw \subseteq DOMAIN schema
                    /\ \A n \in DOMAIN schema : schema[n].required => n \in DOMAIN raw
                    /\ \A n \in DOMAIN supplied : value[n] # {}
<1>1. SanitizeInput(raw, schema) # {} <=> sound
  BY Zenon DEF SanitizeInput
<1>2. /\ \A n \in DOMAIN raw : n \in DOMAIN supplied /\ supplied[n] = raw[n]
      /\ \A n \in DOMAIN supplied :
           /\ n \in DOMAIN schema /\ (n \in DOMAIN raw \/ schema[n].default # <<>>)
           /\ supplied[n] = IF n \in DOMAIN raw THEN raw[n] ELSE schema[n].default
  BY DEF Supplied
<1>3. \A n \in DOMAIN supplied : value[n] = sanitizeParameterValue(supplied[n], schema[n])
  OBVIOUS
<1> HIDE DEF supplied, value
<1>4. (\A n \in DOMAIN supplied : value[n] # {})
        <=> \A n \in DOMAIN raw : sanitizeParameterValue(raw[n], schema[n]) # {}
  BY <1>2, <1>3
<1> QED
  BY <1>1, <1>4

\* Verification has tried every default and every type.
LEMMA CallableIs == SessionInv => VerifiedIsCallable
<1> DEFINE schema == parsed.params
           shown(n) == parameterTypeToJSONSchemaType(schema[n].type)
           admitted(args) == \E raw \in decodeArguments(args) : SanitizeInput(raw, schema) # {}
<1> SUFFICES ASSUME SessionInv, phase = "verified",
                    NEW args, DOMAIN args \subseteq DOMAIN schema
             PROVE  admitted(args) <=>
                      /\ \A n \in DOMAIN schema : schema[n].required => n \in DOMAIN args
                      /\ \A n \in DOMAIN args : Takes(shown(n), args[n])
  <2> DEFINE tool == skillToToolDefinition(parsed)
  <2>1. /\ DOMAIN tool.properties = DOMAIN schema
        /\ \A n \in DOMAIN schema : tool.properties[n].type = shown(n)
        /\ tool.required = {n \in DOMAIN schema : schema[n].required}
    BY DEF skillToToolDefinition
  <2> HIDE DEF tool, shown
  <2>2. SUFFICES ASSUME SessionInv, phase = "verified", NEW given \in SUBSET DOMAIN tool.properties,
                        NEW args \in [given -> UNION {Range(c.args) : c \in Case}]
                 PROVE  admitted(args) <=>
                          /\ tool.required \subseteq given
                          /\ \A n \in given : Takes(tool.properties[n].type, args[n])
    BY Zenon DEF VerifiedIsCallable, tool
  <2>3. DOMAIN args = given
    OBVIOUS
  <2>4. admitted(args) <=>
          /\ \A n \in DOMAIN schema : schema[n].required => n \in DOMAIN args
          /\ \A n \in DOMAIN args : Takes(shown(n), args[n])
    <3>1. DOMAIN args \subseteq DOMAIN schema
      BY <2>1, <2>3
    <3> HIDE DEF admitted
    <3> QED
      BY <2>2, <3>1
  <2> HIDE DEF admitted
  <2> QED
    BY <2>1, <2>3, <2>4
<1>1. sanitized \in Values(case, parsed) /\ case.cmd = "verify"
  BY Zenon DEF SessionInv, Sanitized, Admitted
<1>2. PICK raw \in buildVerificationInputs(schema) : sanitized \in SanitizeInput(raw, schema)
  <2>1. RawInputs(case, parsed) = buildVerificationInputs(schema)
    BY <1>1, Zenon DEF RawInputs
  <2> QED
    BY <1>1, <2>1, Zenon DEF Values
<1>3. /\ DOMAIN raw = DOMAIN schema
      /\ \A n \in DOMAIN schema : schema[n].default # <<>> => raw[n] = schema[n].default
  BY <1>2, Zenon DEF buildVerificationInputs
<1>4. \A n \in DOMAIN schema : sanitizeParameterValue(raw[n], schema[n]) # {}
  <2> SUFFICES ASSUME NEW n \in DOMAIN schema
               PROVE  sanitizeParameterValue(raw[n], schema[n]) # {}
    OBVIOUS
  <2>1. n \in DOMAIN Supplied(raw, schema) /\ Supplied(raw, schema)[n] = raw[n]
    BY <1>3, Zenon DEF Supplied
  <2> DEFINE value == [m \in DOMAIN Supplied(raw, schema) |->
                         sanitizeParameterValue(Supplied(raw, schema)[m], schema[m])]
  <2>2. \A m \in DOMAIN Supplied(raw, schema) : value[m] # {}
    BY <1>2, Zenon DEF SanitizeInput
  <2> QED
    BY <2>1, <2>2
<1>5. \A n \in DOMAIN schema : schema[n].type \in ParameterType
  <2> SUFFICES ASSUME NEW n \in DOMAIN schema, schema[n].type \notin ParameterType
               PROVE  FALSE
    OBVIOUS
  <2>1. "string" \in ParameterType
    BY DEF ParameterType
  <2>2. sanitizeParameterValue(raw[n], schema[n]) = {}
    BY <2>1, Zenon DEF sanitizeParameterValue
  <2> QED
    BY <1>4, <2>2
<1>6. CASE \A n \in DOMAIN args : args[n].json \in {"string", "null"}
  <2> DEFINE text == [n \in DOMAIN args |-> IF args[n].json = "null" THEN <<>> ELSE args[n].text]
  <2>1. decodeArguments(args) = {text}
    BY <1>6, Zenon DEF decodeArguments
  <2>2. /\ DOMAIN text = DOMAIN args
        /\ \A n \in DOMAIN args : text[n] = IF args[n].json = "null" THEN <<>> ELSE args[n].text
    OBVIOUS
  <2> HIDE DEF text
  <2>3. SanitizeInput(text, schema) # {} <=>
          /\ \A n \in DOMAIN schema : schema[n].required => n \in DOMAIN text
          /\ \A n \in DOMAIN text : sanitizeParameterValue(text[n], schema[n]) # {}
    <3>1. \A n \in DOMAIN schema :
            schema[n].default # <<>> => sanitizeParameterValue(schema[n].default, schema[n]) # {}
      BY <1>3, <1>4
    <3>2. DOMAIN text \subseteq DOMAIN schema
      BY <2>2
    <3> HIDE DEF schema
    <3> QED
      BY <3>1, <3>2, AdmitsIs
  <2>4. \A n \in DOMAIN args :
          sanitizeParameterValue(text[n], schema[n]) # {} <=> Takes(shown(n), args[n])
    <3> SUFFICES ASSUME NEW n \in DOMAIN args
                 PROVE  sanitizeParameterValue(text[n], schema[n]) # {} <=> Takes(shown(n), args[n])
      OBVIOUS
    <3>1. schema[n].type \in ParameterType /\ args[n].json \in {"string", "null"}
      BY <1>5, <1>6
    <3> HIDE DEF schema
    <3>2. TakenAs(args[n], schema[n])
      BY TakenIs, Zenon
    <3> QED
      BY <2>2, <3>1, <3>2 DEF TakenAs
  <2>5. admitted(args) <=> SanitizeInput(text, schema) # {}
    BY <2>1, Zenon
  <2> HIDE DEF admitted, shown, schema
  <2> QED
    BY <2>2, <2>3, <2>4, <2>5
<1>7. CASE \E n \in DOMAIN args : args[n].json \notin {"string", "null"}
  <2>1. decodeArguments(args) = {}
    BY <1>7, Zenon DEF decodeArguments
  <2>2. PICK n \in DOMAIN args : args[n].json \notin {"string", "null"}
    BY <1>7
  <2>3. ~Takes(shown(n), args[n])
    BY <2>2, Zenon DEF Takes
  <2> QED
    BY <2>1, <2>2, <2>3
<1> QED
  BY <1>6, <1>7, Zenon

\* A skill that passes `loom verify` takes, in every later call, just the JSON
\* strings (and nulls) that spell a value of the type tools/list shows, with no
\* required parameter left out: its defaults and types have been tried, and
\* numbers and Booleans themselves are refused though the definition shows them
\* (buildVerificationInputs, SanitizeInput, handleToolCall).
THEOREM VerifiedStaysCallable == Spec => []VerifiedIsCallable
BY SessionSafe, CallableIs, PTL

\* A reference to an identifier is one sound reference to it.
LEMMA ReferenceIs ==
  ASSUME NEW T, NEW n \in Seq(T), isVariableReference(n), NEW s \in Seq(T),
         s = <<Dollar, Opening>> \o n \o <<Closing>>
  PROVE  1 \in Markers(s, 1) /\ Name(s, 1) = n
<1>1. /\ Len(n) \in Nat /\ Len(s) = Len(n) + 3
      /\ s[1] = Dollar /\ s[2] = Opening /\ s[Len(n) + 3] = Closing
      /\ \A i \in 1..Len(n) : s[i + 2] = n[i]
  OBVIOUS
<1>2. DOMAIN n = 1..Len(n)
  OBVIOUS
<1>3. Opens(s, 1)
  <2>1. 1 < Len(s) /\ s[1] = Dollar /\ s[1 + 1] = Opening
    BY <1>1
  <2> QED
    BY <2>1, OpensIs, Zenon
<1>4. \A i \in 1..Len(n) : n[i] # Closing
  BY <1>2, Signs, Zenon DEF isVariableReference
<1>5. Braces(s, 1) = {Len(n) + 3}
  <2>1. Braces(s, 1) = {i \in 3..Len(s) : s[i] = Closing}
    <3>1. Braces(s, 1) = {i \in (1 + 2)..Len(s) : s[i] = Closing}
      BY Zenon DEF Braces, Closing
    <3>2. 1 + 2 = 3
      OBVIOUS
    <3> QED
      BY <3>1, <3>2, Zenon
  <2>2. ASSUME NEW i \in 3..Len(s), i # Len(n) + 3
        PROVE  s[i] # Closing
    <3>1. i - 2 \in 1..Len(n) /\ (i - 2) + 2 = i
      BY <1>1, <2>2
    <3> QED
      BY <1>1, <1>4, <3>1
  <2>3. Len(n) + 3 \in 3..Len(s)
    BY <1>1
  <2> QED
    BY <1>1, <2>1, <2>2, <2>3
<1>6. Min(Braces(s, 1)) = Len(n) + 3
  <2>1. {Len(n) + 3} \subseteq Nat /\ {Len(n) + 3} # {}
    BY <1>1
  <2>2. Min({Len(n) + 3}) \in {Len(n) + 3}
    BY <2>1, MinIs
  <2> QED
    BY <1>5, <2>2
<1>7. Name(s, 1) = SubSeq(s, 3, Len(n) + 2)
  <2>1. Name(s, 1) = SubSeq(s, 1 + 2, (Len(n) + 3) - 1)
    BY <1>6, Zenon DEF Name
  <2>2. 1 + 2 = 3 /\ (Len(n) + 3) - 1 = Len(n) + 2
    BY <1>1
  <2> QED
    BY <2>1, <2>2, Zenon
<1>8. SubSeq(s, 3, Len(n) + 2) = n
  <2> DEFINE b == Len(n) + 2
  <2>1. \A i \in 3..b : s[i] \in T
    BY <1>1
  <2>2. /\ SubSeq(s, 3, b) \in Seq(T) /\ Len(SubSeq(s, 3, b)) = Len(n)
        /\ \A i \in 1..Len(n) : SubSeq(s, 3, b)[i] = s[i + 2]
    BY <1>1, <2>1, SubSeqProperties
  <2> QED
    BY <1>1, <1>2, <2>2
<1>9. 1 \in Markers(s, 1)
  BY <1>1, <1>3 DEF Markers
<1> QED
  BY <1>7, <1>8, <1>9

\* What the markdown parser passes on for a name.
Reference(n) == <<"$", "{">> \o n \o <<"}">>

LEMMA ReferenceSigns ==
  ASSUME NEW n
  PROVE  Reference(n) = <<Dollar, Opening>> \o n \o <<Closing>>
BY Zenon DEF Reference, Dollar, Opening, Closing

LEMMA Earlier ==
  ASSUME NEW m \in Nat, NEW i \in 1..m, NEW j \in 1..(i - 1)
  PROVE  j \in 1..m
OBVIOUS

LEMMA NothingHeld == ToSet(<<>>) = {}
BY DEF ToSet

\* What the validator takes from a reference to an identifier is the identifier.
LEMMA ReferenceFound ==
  ASSUME NEW T, NEW n \in Seq(T), isVariableReference(n),
         NEW refs \in extractVariableReferences(Reference(n))
  PROVE  n \in ToSet(refs)
<1> DEFINE U == T \cup {Dollar, Opening, Closing}
           s == <<Dollar, Opening>> \o n \o <<Closing>>
<1>2. n \in Seq(U)
  <2>1. Len(n) \in Nat /\ n = [i \in 1..Len(n) |-> n[i]] /\ \A i \in 1..Len(n) : n[i] \in U
    OBVIOUS
  <2> QED
    BY <2>1
<1>3. s \in Seq(U)
  <2>1. <<Dollar, Opening>> \in Seq(U) /\ <<Closing>> \in Seq(U)
    OBVIOUS
  <2> HIDE DEF U
  <2>2. <<Dollar, Opening>> \o n \in Seq(U)
    BY <1>2, <2>1, ConcatProperties
  <2> QED
    BY <2>1, <2>2, ConcatProperties
<1>4. refs \in extractVariableReferences(s)
  BY ReferenceSigns
<1>5. PICK t \in Seq(U) : t = s
  BY <1>3
<1>6. 1 \in Markers(t, 1) /\ Name(t, 1) = n
  <2> HIDE DEF U
  <2> QED
    BY <1>2, <1>5, ReferenceIs
<1>7. refs \in extractVariableReferences(t)
  BY <1>4, <1>5
<1> HIDE DEF U, s
<1>8. \A o \in Markers(t, 1) : Sound(t, o)
  BY <1>6, <1>7, ReferencesFound
<1>9. ToSet(refs) = {Name(t, o) : o \in Markers(t, 1)}
  <2>1. PICK r : extractVariableReferences(t) = {r} /\ ToSet(r) = {Name(t, o) : o \in Markers(t, 1)}
    BY <1>6, <1>8, ReferencesFound
  <2> QED
    BY <1>7, <2>1
<1> QED
  BY <1>6, <1>9

LEMMA MentionsIs == SessionInv => AdmittedMentionsDeclared
<1> SUFFICES ASSUME SessionInv, receipt # NoReceipt, parsed.version = "",
                    NEW step \in ToSet(parsed.steps), NEW o \in Markers(step.content, 1),
                    Sound(step.content, o)
             PROVE  Name(step.content, o) \in DOMAIN parsed.params
  BY Zenon DEF AdmittedMentionsDeclared, Sound
<1>1. case \in Case /\ parsed \in ReadSkill(case) /\ Valid(parsed)
  BY DEF SessionInv, Admitted, Checked, Sanitized, Started
<1>2. MarkdownSkill(parsed)
  <2>1. "v1" # ""
    OBVIOUS
  <2> QED
    BY <1>1, <2>1, ReadIs, Zenon DEF JSONSkill
<1>3. PICK i \in DOMAIN parsed.steps : step = parsed.steps[i]
  BY Zenon DEF ToSet
<1>4. PICK n : n = Name(step.content, o)
  OBVIOUS
<1>5. n \in Text /\ isVariableReference(n)
  <2>1. step.content \in Text
    BY <1>1, <1>3, SkillIs
  <2>2. o \in Nat
    BY <2>1, Positions DEF Text
  <2> QED
    BY <1>4, <2>1, <2>2, NameIs DEF Text, Sound
<1>6. n \in DOMAIN step.inputs /\ step.inputs[n] = Reference(n)
  <2> DEFINE names == {Name(step.content, m) : m \in
                         {m \in Markers(step.content, 1) :
                            Braces(step.content, m) # {} /\ isVariableReference(Name(step.content, m))}}
  <2>1. step.inputs = parseInstructionInputs(step.content)
    BY <1>2, <1>3, Zenon DEF MarkdownSkill, MarkdownStep
  <2>2. parseInstructionInputs(step.content) = [m \in names |-> Reference(m)]
    BY Zenon DEF parseInstructionInputs, Reference
  <2>3. n \in names
    BY <1>4 DEF Sound
  <2> QED
    BY <2>1, <2>2, <2>3, Zenon
<1>7. PICK refs \in extractVariableReferences(step.inputs[n]) :
        ToSet(refs) \subseteq availableVariables(parsed, i)
  BY <1>1, <1>3, <1>6, Zenon DEF Valid, ValidateSkill, validateStepDataflow
<1>8. availableVariables(parsed, i) \subseteq DOMAIN parsed.params
  <2>1. ASSUME NEW j \in 1..(i - 1)
        PROVE  ToSet(parsed.steps[j].outputs) = {}
    <3>1. j \in DOMAIN parsed.steps
      <4>1. PICK m \in Nat : DOMAIN parsed.steps = 1..m
        BY <1>1, SkillIs, Zenon
      <4>2. i \in 1..m
        BY <4>1
      <4>3. j \in 1..m
        BY <4>2, Earlier, Zenon
      <4> QED
        BY <4>1, <4>3
    <3>2. parsed.steps[j].outputs = <<>>
      BY <1>2, <3>1, Zenon DEF MarkdownSkill, MarkdownStep
    <3> QED
      BY <3>2, NothingHeld, Zenon
  <2> QED
    BY <2>1 DEF availableVariables
<1>9. n \in ToSet(refs)
  BY <1>5, <1>6, <1>7, ReferenceFound DEF Text
<1> QED
  BY <1>4, <1>7, <1>8, <1>9

\* Every reference in an instruction of an admitted markdown skill names one
\* of its parameters (parseInstructionInputs, validateStepDataflow).
THEOREM MentionsDeclared == Spec => []AdmittedMentionsDeclared
BY SessionSafe, MentionsIs, PTL

-----------------------------------------------------------------------------
(* The values of a run are texts.                                          *)

\* A flag's value is what follows the first "=".
LEMMA FlagsAre ==
  ASSUME NEW flags \in Seq(Text), NEW raw \in parseInputFlags(flags), NEW n \in DOMAIN raw
  PROVE  raw[n] \in Text
<1> DEFINE key == [k \in DOMAIN flags |-> SubSeq(flags[k], 1, Min(Equals(flags[k])) - 1)]
           named == {k \in DOMAIN flags : key[k] = n}
           f == flags[Max(named)]
<1>1. /\ \A k \in DOMAIN flags : Equals(flags[k]) # {}
      /\ raw = [m \in Range(key) |->
                  LET g == flags[Max({k \in DOMAIN flags : key[k] = m})]
                  IN SubSeq(g, Min(Equals(g)) + 1, Len(g))]
  BY Zenon DEF parseInputFlags
<1>2. n \in Range(key) /\ raw[n] = SubSeq(f, Min(Equals(f)) + 1, Len(f))
  BY <1>1, Zenon
<1>3. named # {}
  BY <1>2, Zenon DEF Range
<1>4. named \subseteq DOMAIN flags
  BY Zenon
<1> HIDE DEF named
<1>5. Len(flags) \in Nat /\ named \subseteq 0..Len(flags)
  BY <1>4
<1>6. Max(named) \in DOMAIN flags
  BY <1>3, <1>4, <1>5, MaxIs
<1>7. PICK g \in Text : g = f
  BY <1>6
<1>8. Equals(g) # {} /\ Equals(g) \subseteq DOMAIN g
  BY <1>1, <1>6, <1>7, Zenon DEF Equals
<1>9. PICK o \in DOMAIN g : o = Min(Equals(g))
  <2>1. DOMAIN g \subseteq Nat
    BY DEF Text
  <2> QED
    BY <1>8, <2>1, MinIs
<1>10. SubSeq(g, o + 1, Len(g)) \in Text
  <2>1. o + 1 \in Nat \ {0} /\ Len(g) \in Nat /\ Len(g) <= Len(g)
    BY DEF Text
  <2> QED
    BY <2>1, StretchIs DEF Text
<1> QED
  BY <1>2, <1>7, <1>9, <1>10

LEMMA OneToken ==
  ASSUME NEW t \in DOMAIN Byte
  PROVE  <<t>> \in Text
BY DEF Text

\* What verification makes up.
LEMMA MadeUpAre ==
  ASSUME NEW k, Declared(k.params), NEW raw \in buildVerificationInputs(k.params), NEW n \in DOMAIN raw
  PROVE  raw[n] \in Text
<1> DEFINE schema == k.params
<1>1. /\ DOMAIN raw = DOMAIN schema
      /\ schema[n].default = <<>> => schema[n].type \in ParameterType
      /\ raw[n] = IF schema[n].default # <<>> THEN schema[n].default ELSE Mock[schema[n].type]
  BY Zenon DEF buildVerificationInputs
<1>2. schema[n].default \in Text
  BY <1>1, Zenon DEF Declared
<1>3. \A type \in ParameterType : Mock[type] \in {<<"mock">>, <<"0">>, <<"false">>}
  BY DEF ParameterType, Mock
<1>4. {<<"mock">>, <<"0">>, <<"false">>} \subseteq Text
  <2>1. \A t \in {"mock", "0", "false"} : <<t>> \in Text
    BY AdmissionAssumption, OneToken DEF Vocabulary
  <2> QED
    BY <2>1, Zenon
<1> QED
  BY <1>1, <1>2, <1>3, <1>4

LEMMA RawAre ==
  ASSUME NEW c \in Case, NEW k \in ReadSkill(c),
         NEW raw \in RawInputs(c, k), NEW n \in DOMAIN raw
  PROVE  raw[n] \in Text
<1>1. CaseType(c) /\ Declared(k.params)
  BY AdmissionAssumption, SkillIs
<1>2. \/ raw \in buildVerificationInputs(k.params)
      \/ raw \in parseInputFlags(c.flags)
      \/ raw \in decodeArguments(c.args)
  BY <1>1 DEF RawInputs, CaseType
<1>3. c.flags \in Seq(Text) /\ \A m \in DOMAIN c.args : c.args[m].text \in Text
  BY <1>1 DEF CaseType, Argument
<1>4. raw \in decodeArguments(c.args) => raw[n] \in Text
  <2>1. <<>> \in Text
    BY DEF Text
  <2> SUFFICES ASSUME raw \in decodeArguments(c.args)
               PROVE  raw[n] \in Text
    OBVIOUS
  <2>2. raw = [m \in DOMAIN c.args |-> IF c.args[m].json = "null" THEN <<>> ELSE c.args[m].text]
    BY Zenon DEF decodeArguments
  <2>3. n \in DOMAIN c.args /\ raw[n] = IF c.args[n].json = "null" THEN <<>> ELSE c.args[n].text
    BY <2>2
  <2> QED
    BY <1>3, <2>1, <2>3
<1> QED
  BY <1>1, <1>2, <1>3, <1>4, MadeUpAre, FlagsAre, Zenon

LEMMA ValuesAre ==
  ASSUME NEW c \in Case, NEW k \in ReadSkill(c),
         NEW v \in Values(c, k), NEW n \in DOMAIN v
  PROVE  v[n].text \in Text
<1> DEFINE schema == k.params
<1>1. PICK raw \in RawInputs(c, k) : v \in SanitizeInput(raw, schema)
  BY DEF Values
<1> DEFINE supplied == Supplied(raw, schema)
<1>2. n \in DOMAIN schema /\ v[n] \in sanitizeParameterValue(supplied[n], schema[n])
  BY <1>1, SanitizedIs
<1>3. n \in DOMAIN supplied
  BY <1>1, Zenon DEF SanitizeInput
<1>4. supplied[n] = IF n \in DOMAIN raw THEN raw[n] ELSE schema[n].default
  BY <1>3, Zenon DEF Supplied
<1>5. supplied[n] \in Text
  <2>1. schema[n].default \in Text
    BY <1>2, SkillIs, Zenon DEF Declared
  <2>2. n \in DOMAIN raw => raw[n] \in Text
    BY <1>1, RawAre
  <2> QED
    BY <1>4, <2>1, <2>2
<1>6. UNION {Range(Canonical[y]) : y \in ParameterType \ {"string"}} \subseteq Text
  <2>1. ParameterType \ {"string"} = {"int", "bool", "float"}
    BY DEF ParameterType
  <2>2. \A y \in {"int", "bool", "float"} : Range(Canonical[y]) \subseteq Text
    BY AdmissionAssumption
  <2> QED
    BY <2>1, <2>2
<1>7. v[n].text = supplied[n] \/ v[n].text \in UNION {Range(Canonical[y]) : y \in ParameterType \ {"string"}}
  BY <1>2, TypedIs
<1> QED
  BY <1>5, <1>6, <1>7

\* What a write step writes.
LEMMA WrittenTextIs ==
  ASSUME NEW c \in Case, NEW k \in ReadSkill(c), NEW v \in Values(c, k),
         NEW i \in DOMAIN k.steps, k.steps[i].kind = "write_file"
  PROVE  substituteString(k.steps[i].content, v) =
           IF Expandable(k.steps[i].content, DOMAIN v)
             THEN {Expansion(k.steps[i].content, v)} ELSE {}
<1>2. k.steps[i].content \in Text
  BY SkillIs
<1>3. \A n \in DOMAIN v : v[n].text \in Text
  BY ValuesAre
<1> QED
  BY <1>2, <1>3, SubstitutionExpands, Zenon DEF Text

-----------------------------------------------------------------------------
(* The steps of a run.                                                     *)

\* The write steps among the first n - 1, and those of them that reach p.
Writes(n) == {i \in 1..(n - 1) : parsed.steps[i].kind = "write_file"}
Writers(n, p) == {i \in Writes(n) : p \in Reach(case, parsed.steps[i])}

\* The shadow holds what the last step that reaches a location wrote there.
RunInv ==
  /\ next \in Nat \ {0}
  /\ phase \notin Started => next = 1 /\ shadow = <<>> /\ manifest = {} /\ why \in {"nothing", "roots"}
  /\ phase \notin {"rejected", "aborted"} => why = "nothing"
  /\ why \in {"nothing", "roots", "unbound", "path", "missing", "disk", "legacy"}
  /\ DOMAIN shadow \cup manifest \subseteq AllPaths
  /\ \A i \in Writes(next) :
       i \in DOMAIN parsed.steps /\ Expandable(parsed.steps[i].content, DOMAIN sanitized)
  /\ \A p \in DOMAIN shadow :
       /\ Writers(next, p) # {}
       /\ shadow[p] = Expansion(parsed.steps[Max(Writers(next, p))].content, sanitized)
  /\ why = "unbound" => /\ phase = "aborted"
                        /\ ~Expandable(Current.content, DOMAIN sanitized)

LEMMA NoWrites == Writes(1) = {}
BY DEF Writes

\* Before the first step there is nothing to say.
LEMMA RunFresh ==
  ASSUME next = 1, shadow = <<>>, manifest = {}, why \in {"nothing", "roots"},
         phase \notin {"rejected", "aborted"} => why = "nothing"
  PROVE  RunInv
<1>1. DOMAIN shadow = {}
  OBVIOUS
<1> QED
  BY <1>1, NoWrites DEF RunInv

LEMMA RunInit == Init => RunInv
BY RunFresh DEF Init

LEMMA RunStillFresh ==
  ASSUME next' = 1, shadow' = <<>>, manifest' = {}, why' \in {"nothing", "roots"},
         phase' \notin {"rejected", "aborted"} => why' = "nothing"
  PROVE  RunInv'
<1>1. DOMAIN shadow' = {}
  OBVIOUS
<1>2. Writes(next)' = {}
  BY DEF Writes
<1> QED
  BY <1>1, <1>2 DEF RunInv

\* A step that leaves the files and the verdict alone.
LEMMA RunKept ==
  ASSUME RunInv, UNCHANGED <<case, parsed, sanitized, next, shadow, why>>,
         manifest' \subseteq AllPaths, phase \in Started, phase' \in Started,
         phase' # "aborted" => phase # "aborted", why = "unbound" => phase' = "aborted"
  PROVE  RunInv'
<1>1. Writes(next)' = Writes(next)
  BY DEF Writes
<1>2. \A p : Writers(next, p)' = Writers(next, p)
  BY <1>1 DEF Writers, Reach, Workspace
<1> QED
  BY <1>1, <1>2 DEF RunInv, Started, Current

\* A step that ends the run.
LEMMA RunAborts ==
  ASSUME RunInv, phase = "running", UNCHANGED <<case, parsed, sanitized>>,
         NEW reason \in {"unbound", "path", "missing", "disk", "legacy"},
         reason = "unbound" => ~Expandable(Current.content, DOMAIN sanitized),
         Abort(reason)
  PROVE  RunInv'
<1>1. UNCHANGED <<next, shadow>> /\ why' = reason /\ manifest' = DOMAIN shadow /\ phase' = "aborted"
  BY DEF Abort, Goto
<1>2. Writes(next)' = Writes(next)
  BY <1>1 DEF Writes
<1>3. \A p : Writers(next, p)' = Writers(next, p)
  BY <1>1, <1>2 DEF Writers, Reach, Workspace
<1> QED
  BY <1>1, <1>2, <1>3 DEF RunInv, Started, Current

LEMMA WritesNext ==
  ASSUME UNCHANGED parsed, next \in Nat \ {0}, next' = next + 1
  PROVE  Writes(next)' = IF Current.kind = "write_file" THEN Writes(next) \cup {next}
                         ELSE Writes(next)
<1> DEFINE writes(i) == parsed.steps[i].kind = "write_file"
<1>1. Writes(next)' = {i \in 1..next : writes(i)}
  BY DEF Writes
<1>2. Writes(next) = {i \in 1..(next - 1) : writes(i)} /\ (Current.kind = "write_file" <=> writes(next))
  BY DEF Writes, Current
<1> HIDE DEF writes
<1>3. 1..next = 1..(next - 1) \cup {next} /\ next \notin 1..(next - 1)
  OBVIOUS
<1>4. {i \in 1..next : writes(i)} = IF writes(next) THEN {i \in 1..(next - 1) : writes(i)} \cup {next}
                                    ELSE {i \in 1..(next - 1) : writes(i)}
  BY <1>3
<1> QED
  BY <1>1, <1>2, <1>4

\* A step that writes nothing.
LEMMA RunReads ==
  ASSUME RunInv, phase = "running", UNCHANGED <<case, parsed, sanitized, shadow>>,
         Current.kind # "write_file", Advance
  PROVE  RunInv'
<1>1. next' = next + 1 /\ UNCHANGED <<phase, manifest, why>>
  BY DEF Advance
<1>2. Writes(next)' = Writes(next)
  BY <1>1, WritesNext DEF RunInv
<1>3. \A p : Writers(next, p)' = Writers(next, p)
  BY <1>2 DEF Writers, Reach, Workspace
<1>4. why = "nothing"
  BY DEF RunInv
<1> QED
  BY <1>1, <1>2, <1>3, <1>4 DEF RunInv, Started

\* A step that writes its content where its path leads.
LEMMA RunWrites ==
  ASSUME SessionInv, RunInv, phase = "running", UNCHANGED <<case, parsed, sanitized>>,
         next <= Len(parsed.steps), Current.kind = "write_file",
         NEW t \in substituteString(Current.content, sanitized), NEW p \in Reach(case, Current),
         shadow' = [q \in DOMAIN shadow \cup {p} |-> IF q = p THEN t ELSE shadow[q]],
         Advance
  PROVE  RunInv'
<1>1. next' = next + 1 /\ UNCHANGED <<phase, manifest, why>> /\ next \in Nat \ {0}
  BY DEF Advance, RunInv
<1>2. case \in Case /\ parsed \in ReadSkill(case) /\ sanitized \in Values(case, parsed)
  BY DEF SessionInv, Sanitized, Admitted, Started
<1>3. next \in DOMAIN parsed.steps /\ Current = parsed.steps[next]
  <2>1. DOMAIN parsed.steps = 1..Len(parsed.steps) /\ Len(parsed.steps) \in Nat
    BY <1>2, SkillIs
  <2> QED
    BY <1>1, <2>1 DEF Current
<1>4. Expandable(Current.content, DOMAIN sanitized) /\ t = Expansion(Current.content, sanitized)
  BY <1>2, <1>3, WrittenTextIs
<1>5. Writes(next)' = Writes(next) \cup {next}
  BY <1>1, WritesNext
<1>6. \A i \in Writes(next)' :
        i \in DOMAIN parsed'.steps /\ Expandable(parsed'.steps[i].content, DOMAIN sanitized')
  BY <1>3, <1>4, <1>5 DEF RunInv
<1>7. \A q : Writers(next, q)' = {i \in Writes(next)' : q \in Reach(case, parsed.steps[i])}
  BY DEF Writers, Reach, Workspace
<1>8. Writers(next, p)' # {} /\ Max(Writers(next, p)') = next
  <2> DEFINE S == Writers(next, p)'
  <2>1. S \subseteq 1..next /\ next \in S
    <3>1. Writes(next) \subseteq 1..next
      BY <1>1 DEF Writes
    <3> QED
      BY <1>1, <1>3, <1>5, <1>7, <3>1
  <2> HIDE DEF S
  <2>2. S \subseteq 0..next /\ S # {} /\ next \in Nat
    BY <1>1, <2>1
  <2>3. Max(S) \in S /\ next <= Max(S)
    BY <2>1, <2>2, MaxIs
  <2>4. Max(S) \in 1..next
    BY <2>1, <2>3
  <2>5. Max(S) = next
    BY <1>1, <2>3, <2>4
  <2> QED
    BY <2>2, <2>5 DEF S
<1>9. ASSUME NEW q \in DOMAIN shadow, q # p
      PROVE  Writers(next, q)' = Writers(next, q)
  <2>1. q \notin Reach(case, parsed.steps[next])
    BY <1>3, <1>9, ReachOne
  <2> QED
    BY <1>5, <1>7, <2>1 DEF Writers
<1>10. ASSUME NEW q \in DOMAIN shadow'
       PROVE  /\ Writers(next, q)' # {}
              /\ shadow'[q] = Expansion(parsed'.steps[Max(Writers(next, q)')].content, sanitized')
  <2>1. CASE q = p
    BY <1>3, <1>4, <1>8, <2>1
  <2>2. CASE q # p
    <3>1. q \in DOMAIN shadow /\ shadow'[q] = shadow[q]
      BY <1>10, <2>2
    <3> QED
      BY <1>9, <2>2, <3>1 DEF RunInv
  <2> QED
    BY <2>1, <2>2
<1>11. DOMAIN shadow' \subseteq AllPaths
  <2>1. p \in AllPaths
    BY <1>2, <1>3, ReachKnown
  <2> QED
    BY <2>1 DEF RunInv
<1>12. why = "nothing" /\ manifest \subseteq AllPaths
  BY DEF RunInv
<1>13. next' \in Nat \ {0} /\ phase' = "running" /\ why' = "nothing" /\ manifest' \subseteq AllPaths
  BY <1>1, <1>12
<1> QED
  BY <1>6, <1>10, <1>11, <1>13 DEF RunInv, Started

LEMMA RunNext == SessionInv /\ RunInv /\ [Next]_vars => RunInv'
<1> SUFFICES ASSUME SessionInv, RunInv, [Next]_vars
             PROVE  RunInv'
  OBVIOUS
<1> USE DEF Goto
<1>a. phase \notin Started =>
        next = 1 /\ shadow = <<>> /\ manifest = {} /\ why \in {"nothing", "roots"}
  BY DEF RunInv, Started
<1>b. phase \notin {"rejected", "aborted"} => why = "nothing"
  BY DEF RunInv
<1>1. CASE Read
  BY <1>1, <1>a, <1>b, RunStillFresh DEF Read, Started
<1>2. CASE Start
  BY <1>2, <1>a, <1>b, RunStillFresh DEF Start, Started
<1>3. CASE Validate
  BY <1>3, <1>a, <1>b, RunStillFresh DEF Validate, Started
<1>4. CASE Sanitize
  BY <1>4, <1>a, <1>b, RunStillFresh DEF Sanitize, Started
<1>5. CASE Provision
  BY <1>5, <1>a, <1>b, RunStillFresh DEF Provision, Started
<1>6. CASE RefuseRoots
  BY <1>6, <1>a, <1>b, RunStillFresh DEF RefuseRoots, Started
<1>7. CASE WriteReceipt
  BY <1>7, <1>a, <1>b, RunStillFresh DEF WriteReceipt, Started
<1>8. CASE Gate
  BY <1>8, <1>a, <1>b, RunStillFresh DEF Gate, Started
<1>9. CASE handleReadFile
  <2>1. phase = "running" /\ Current.kind = "read_file" /\ UNCHANGED <<case, parsed, sanitized>>
    BY <1>9 DEF handleReadFile, Ready
  <2>2. \/ Advance /\ UNCHANGED shadow
        \/ \E reason \in {"path", "disk", "missing"} : Abort(reason)
    BY <1>9 DEF handleReadFile
  <2>3. CASE Advance /\ UNCHANGED shadow
    BY <2>1, <2>3, RunReads
  <2>4. CASE \E reason \in {"path", "disk", "missing"} : Abort(reason)
    BY <2>1, <2>4, RunAborts
  <2> QED
    BY <2>2, <2>3, <2>4
<1>10. CASE handleWriteFile
  <2> DEFINE content == substituteString(Current.content, sanitized)
             at == Reach(case, Current)
  <2>1. /\ phase = "running" /\ Current.kind = "write_file" /\ next <= Len(parsed.steps)
        /\ UNCHANGED <<case, parsed, sanitized>>
    BY <1>10 DEF handleWriteFile, Ready
  <2>2. \/ content = {} /\ Abort("unbound")
        \/ \E reason \in {"path", "disk"} : Abort(reason)
        \/ \E t \in content, p \in at :
             shadow' = [q \in DOMAIN shadow \cup {p} |-> IF q = p THEN t ELSE shadow[q]] /\ Advance
    BY <1>10 DEF handleWriteFile
  <2>3. CASE content = {} /\ Abort("unbound")
    <3>1. case \in Case /\ parsed \in ReadSkill(case) /\ sanitized \in Values(case, parsed)
      BY <2>1 DEF SessionInv, Sanitized, Admitted, Started
    <3>2. next \in DOMAIN parsed.steps /\ Current = parsed.steps[next]
      <4>1. DOMAIN parsed.steps = 1..Len(parsed.steps) /\ Len(parsed.steps) \in Nat
        BY <3>1, SkillIs
      <4> QED
        BY <2>1, <4>1 DEF Current, RunInv
    <3>3. ~Expandable(Current.content, DOMAIN sanitized)
      BY <2>1, <2>3, <3>1, <3>2, WrittenTextIs
    <3> QED
      BY <2>1, <2>3, <3>3, RunAborts
  <2>4. CASE \E reason \in {"path", "disk"} : Abort(reason)
    BY <2>1, <2>4, RunAborts
  <2>5. CASE \E t \in content, p \in at :
               shadow' = [q \in DOMAIN shadow \cup {p} |-> IF q = p THEN t ELSE shadow[q]] /\ Advance
    BY <2>1, <2>5, RunWrites
  <2> QED
    BY <2>2, <2>3, <2>4, <2>5
<1>11. CASE RefuseLegacy
  BY <1>11, RunAborts DEF RefuseLegacy, Ready
<1>12. CASE Finish
  <2>1. DOMAIN shadow \subseteq AllPaths
    BY DEF RunInv
  <2> QED
    BY <1>12, <1>b, <2>1, RunKept DEF Finish, Started
<1>13. CASE UNCHANGED vars
  <2>1. UNCHANGED <<case, parsed, sanitized, next, shadow, why, manifest, phase>>
    BY <1>13 DEF vars
  <2>2. Writes(next)' = Writes(next)
    BY <2>1 DEF Writes
  <2>3. \A p : Writers(next, p)' = Writers(next, p)
    BY <2>1, <2>2 DEF Writers, Reach, Workspace
  <2> QED
    BY <2>1, <2>2, <2>3 DEF RunInv, Started, Current
<1> QED
  BY <1>1, <1>2, <1>3, <1>4, <1>5, <1>6, <1>7, <1>8, <1>9, <1>10, <1>11, <1>12, <1>13 DEF Next

LEMMA RunSafe == Spec => [](SessionInv /\ RunInv)
BY SessionInit, SessionNext, RunInit, RunNext, PTL DEF Spec

-----------------------------------------------------------------------------
(* What follows from both.                                                 *)

LEMMA PositionalIs == RunInv => SubstitutionIsPositional
<1> SUFFICES ASSUME RunInv
             PROVE  SubstitutionIsPositional
  OBVIOUS
<1> DEFINE writes == {i \in 1..(next - 1) : parsed.steps[i].kind = "write_file"}
           last(p) == Max({i \in writes : p \in Reach(case, parsed.steps[i])})
<1>1. writes = Writes(next)
  BY DEF Writes
<1>2. \A p : last(p) = Max(Writers(next, p))
  BY <1>1 DEF Writers
<1>3. \A i \in writes : Expandable(parsed.steps[i].content, DOMAIN sanitized)
  BY <1>1 DEF RunInv
<1>4. \A p \in DOMAIN shadow : shadow[p] = Expansion(parsed.steps[Max(Writers(next, p))].content, sanitized)
  BY DEF RunInv
<1> HIDE DEF writes
<1>5. \A p \in DOMAIN shadow : shadow[p] = Expansion(parsed.steps[last(p)].content, sanitized)
  BY <1>2, <1>4
<1>6. why = "unbound" => ~Expandable(Current.content, DOMAIN sanitized)
  BY DEF RunInv
<1> QED
  BY <1>3, <1>5, <1>6, Zenon DEF SubstitutionIsPositional, writes

\* The file a run writes is the expansion of the last content that reaches its
\* location, position by position, and a run is refused for a reference only
\* when one has no value (substituteString).
THEOREM SubstitutionAlwaysPositional == Spec => []SubstitutionIsPositional
BY RunSafe, PositionalIs, PTL

\* The labels of a session.
PhaseInv ==
  /\ phase \in {"fresh", "read", "unread", "compiling", "rejected", "validated", "sanitized",
                "provisioned", "verified", "admitted", "refused", "running", "aborted", "done"}
  /\ dir \in BOOLEAN

LEMMA PhaseInit == Init => PhaseInv
BY DEF Init, PhaseInv

LEMMA PhaseNext == PhaseInv /\ [Next]_vars => PhaseInv'
<1> USE DEF Goto
<1> SUFFICES ASSUME PhaseInv, [Next]_vars
             PROVE  PhaseInv'
  OBVIOUS
<1>1. CASE Read
  BY <1>1 DEF PhaseInv, Read
<1>2. CASE Start
  BY <1>2 DEF PhaseInv, Start
<1>3. CASE Validate
  BY <1>3 DEF PhaseInv, Validate
<1>4. CASE Sanitize
  BY <1>4 DEF PhaseInv, Sanitize
<1>5. CASE Provision
  BY <1>5 DEF PhaseInv, Provision
<1>6. CASE RefuseRoots
  BY <1>6 DEF PhaseInv, RefuseRoots
<1>7. CASE WriteReceipt
  BY <1>7 DEF PhaseInv, WriteReceipt
<1>8. CASE Gate
  BY <1>8 DEF PhaseInv, Gate
<1>9. CASE handleReadFile
  BY <1>9 DEF PhaseInv, handleReadFile, Abort, Advance
<1>10. CASE handleWriteFile
  BY <1>10 DEF PhaseInv, handleWriteFile, Abort, Advance
<1>11. CASE RefuseLegacy
  BY <1>11 DEF PhaseInv, RefuseLegacy, Abort
<1>12. CASE Finish
  BY <1>12 DEF PhaseInv, Finish
<1>13. CASE UNCHANGED vars
  BY <1>13 DEF PhaseInv, vars
<1> QED
  BY <1>1, <1>2, <1>3, <1>4, <1>5, <1>6, <1>7, <1>8, <1>9, <1>10, <1>11, <1>12, <1>13 DEF Next

LEMMA TypesAre == SessionInv /\ RunInv /\ PhaseInv => TypeOK
<1> SUFFICES ASSUME SessionInv, RunInv, PhaseInv
             PROVE  TypeOK
  OBVIOUS
<1>1. ASSUME NEW n \in DOMAIN sanitized
      PROVE  /\ sanitized[n].tag = Tag[parsed.params[n].type]
             /\ sanitized[n].tag # "s" => sanitized[n].text \in Range(Canonical[parsed.params[n].type])
  <2>1. sanitized # <<>>
    BY <1>1
  <2>2. sanitized \in Values(case, parsed)
    BY <2>1 DEF SessionInv
  <2>3. PICK raw : sanitized \in SanitizeInput(raw, parsed.params)
    BY <2>2 DEF Values
  <2>4. sanitized[n] \in sanitizeParameterValue(Supplied(raw, parsed.params)[n], parsed.params[n])
    BY <1>1, <2>3, SanitizedIs
  <2> QED
    BY <2>4, TypedIs
<1>2. /\ next \in Nat \ {0} /\ DOMAIN shadow \cup manifest \subseteq AllPaths
      /\ why \in {"nothing", "roots", "unbound", "path", "missing", "disk", "legacy"}
  BY DEF RunInv
<1> QED
  BY <1>1, <1>2, Zenon DEF TypeOK, PhaseInv

\* The variables have their types in every reachable state: what sanitizing
\* yields has one rendering for each value (sanitizeParameterValue).
THEOREM SessionTyped == Spec => []TypeOK
BY RunSafe, PhaseInit, PhaseNext, TypesAre, PTL DEF Spec

-----------------------------------------------------------------------------
(* Receipts.                                                               *)

\* A sanitized value is a tag and a text, and nothing else.
LEMMA TaggedIs ==
  ASSUME NEW t, NEW parameter, NEW v \in sanitizeParameterValue(t, parameter)
  PROVE  v = [tag |-> v.tag, text |-> v.text] /\ v.tag \in DOMAIN Byte
<1> DEFINE type == parameter.type
           texts == IF type = "string" THEN {x \in {t} : ~rejectShellInjection(x)}
                    ELSE IF type \in ParameterType
                      THEN {Canonical[type][x] : x \in {t} \cap DOMAIN Canonical[type]}
                    ELSE {}
<1>1. PICK x \in texts : v = [tag |-> Tag[type], text |-> x]
  BY Zenon DEF sanitizeParameterValue
<1>2. type \in ParameterType
  BY <1>1 DEF ParameterType
<1> HIDE DEF texts
<1>3. Tag[type] \in Range(Tag)
  <2>1. DOMAIN Tag = ParameterType
    BY DEF Tag, ParameterType
  <2> QED
    BY <1>2, <2>1, Zenon DEF Range
<1>4. v.tag = Tag[type] /\ v.text = x
  BY <1>1
<1> QED
  BY <1>1, <1>3, <1>4, AdmissionAssumption DEF Vocabulary

LEMMA SanitizedTyped ==
  ASSUME NEW c \in Case, NEW k \in ReadSkill(c), NEW v \in Values(c, k)
  PROVE  InputsType(v)
<1>1. PICK raw \in RawInputs(c, k) : v \in SanitizeInput(raw, k.params)
  BY DEF Values
<1>2. v = [n \in DOMAIN v |-> v[n]]
  <2> DEFINE given == Supplied(raw, k.params)
             value == [n \in DOMAIN given |-> sanitizeParameterValue(given[n], k.params[n])]
  <2>1. v = [n \in DOMAIN given |-> CHOOSE x \in value[n] : TRUE]
    BY <1>1, Zenon DEF SanitizeInput
  <2> HIDE DEF given, value
  <2> QED
    BY <2>1
<1>3. /\ DOMAIN v \subseteq DOMAIN k.params
      /\ \A n \in DOMAIN v : v[n] = [tag |-> v[n].tag, text |-> v[n].text] /\ v[n].tag \in DOMAIN Byte
  <2>1. /\ DOMAIN v \subseteq DOMAIN k.params
        /\ \A n \in DOMAIN v :
             v[n] \in sanitizeParameterValue(Supplied(raw, k.params)[n], k.params[n])
    BY <1>1, SanitizedIs
  <2> QED
    BY <2>1, TaggedIs
<1>4. IsFiniteSet(DOMAIN k.params) /\ DOMAIN k.params \subseteq Text
  BY SkillIs DEF Declared
<1>5. IsFiniteSet(DOMAIN v) /\ DOMAIN v \in SUBSET Writing
  BY <1>3, <1>4, FS_Subset DEF Text, Writing
<1>6. \A n \in DOMAIN v : v[n].text \in Writing
  BY ValuesAre DEF Text, Writing
<1>7. v = [n \in DOMAIN v |-> [tag |-> v[n].tag, text |-> v[n].text]]
  BY <1>2, <1>3
<1> QED
  BY <1>3, <1>5, <1>6, <1>7 DEF InputsType

LEMMA ZeroFreeIs ==
  ASSUME NEW v, InputsType(v), ZeroFree(v)
  PROVE  Zeroless(v)
<1>1. \A t \in Writing : 0 \notin ToSet(Bytes(t)) => NoZero(Bytes(t))
  <2> SUFFICES ASSUME NEW t \in Writing, 0 \notin ToSet(Bytes(t)) PROVE NoZero(Bytes(t))
    OBVIOUS
  <2>1. PICK a \in Seq(Octet) : a = Bytes(t)
    BY BytesAre
  <2>2. DOMAIN a = 1..Len(a)
    OBVIOUS
  <2>3. \A i \in DOMAIN a : a[i] \in ToSet(a)
    BY Zenon DEF ToSet
  <2> QED
    BY <2>1, <2>2, <2>3 DEF NoZero
<1>2. \A n \in DOMAIN v : n \in Writing /\ v[n].text \in Writing
  BY DEF InputsType
<1> QED
  BY <1>1, <1>2, Zenon DEF ZeroFree, Zeroless

\* A receipt is about the skill and the inputs the session runs with.
ReceiptInv ==
  receipt # NoReceipt => /\ receipt.hash = GetLogicalHash(parsed)
                         /\ receipt.digest = ComputeInputDigest(sanitized)

LEMMA ReceiptInit == Init => ReceiptInv
BY DEF Init, ReceiptInv

LEMMA ReceiptNext == SessionInv /\ ReceiptInv /\ [Next]_vars => ReceiptInv'
<1> SUFFICES ASSUME SessionInv, ReceiptInv, [Next]_vars
             PROVE  ReceiptInv'
  OBVIOUS
<1>1. CASE Read \/ Sanitize
  <2>1. receipt = NoReceipt
    BY <1>1, Zenon DEF Read, Sanitize, SessionInv, Admitted, Started
  <2>2. receipt' = receipt
    BY <1>1 DEF Read, Sanitize
  <2> QED
    BY <2>1, <2>2, Zenon DEF ReceiptInv, NoReceipt
<1>2. CASE WriteReceipt
  <2>1. receipt' = [hash |-> GetLogicalHash(parsed), digest |-> ComputeInputDigest(sanitized),
                    skillID |-> parsed.id, caps |-> parsed.caps]
        /\ parsed' = parsed /\ sanitized' = sanitized
    BY <1>2 DEF WriteReceipt
  <2> QED
    BY <2>1 DEF ReceiptInv
<1>3. CASE UNCHANGED <<receipt, parsed, sanitized>>
  BY <1>3 DEF ReceiptInv
<1>4. Read \/ Sanitize \/ WriteReceipt \/ UNCHANGED <<receipt, parsed, sanitized>>
  BY DEF Next, vars, Start, Validate, Provision, RefuseRoots, Gate, handleReadFile,
         handleWriteFile, RefuseLegacy, Finish
<1> QED
  BY <1>1, <1>2, <1>3, <1>4

LEMMA DigestIs == SessionInv /\ ReceiptInv => DigestIdentifiesInputs
<1> SUFFICES ASSUME SessionInv, ReceiptInv, receipt # NoReceipt, ZeroFree(sanitized),
                    NEW d \in Digests
             PROVE  d[1] = receipt.digest <=> d[2] = sanitized
  BY Zenon DEF DigestIdentifiesInputs
<1>1. receipt.digest = ComputeInputDigest(sanitized)
  BY DEF ReceiptInv
<1>2. PICK c, k, v :
        /\ c \in Case /\ k \in ReadSkill(c) /\ v \in Values(c, k)
        /\ ZeroFree(v) /\ d = <<ComputeInputDigest(v), v>>
  <2> DEFINE of(c, k) == {<<ComputeInputDigest(v), v>> : v \in {v \in Values(c, k) : ZeroFree(v)}}
             all(c) == {of(c, k) : k \in ReadSkill(c)}
  <2>1. Digests = UNION {UNION all(c) : c \in Case}
    BY Zenon DEF Digests
  <2> HIDE DEF of
  <2>2. PICK c \in Case : d \in UNION all(c)
    BY <2>1, Zenon
  <2>3. PICK k \in ReadSkill(c) : d \in of(c, k)
    BY <2>2
  <2> USE DEF of
  <2>4. PICK v \in {v \in Values(c, k) : ZeroFree(v)} : d = <<ComputeInputDigest(v), v>>
    BY <2>3
  <2> QED
    BY <2>4, Zenon
<1>3. d[1] = ComputeInputDigest(v) /\ d[2] = v
  BY <1>2
<1>4. InputsType(v) /\ Zeroless(v)
  BY <1>2, SanitizedTyped, ZeroFreeIs
<1>5. InputsType(sanitized) /\ Zeroless(sanitized)
  <2>1. phase \in Sanitized /\ phase \notin {"fresh", "unread"}
    BY Zenon DEF SessionInv, Sanitized, Admitted, Started
  <2>2. case \in Case /\ parsed \in ReadSkill(case) /\ sanitized \in Values(case, parsed)
    BY <2>1 DEF SessionInv
  <2> QED
    BY <2>2, SanitizedTyped, ZeroFreeIs
<1>6. ComputeInputDigest(v) = ComputeInputDigest(sanitized) => v = sanitized
  BY <1>4, <1>5, DigestTells
<1> QED
  BY <1>1, <1>3, <1>6

\* Two receipts have one input digest when, and only when, the inputs have the
\* same names, types and values, without a zero byte among them
\* (ComputeInputDigest).
THEOREM DigestsTellInputs == Spec => []DigestIdentifiesInputs
BY SessionInit, SessionNext, ReceiptInit, ReceiptNext, DigestIs, PTL DEF Spec

-----------------------------------------------------------------------------
(* Where the steps of a run lead.                                          *)

Token == DOMAIN Byte \cup {Slash, ".", "loom", "shadow"}

LEMMA TextTokens == Text \subseteq Seq(Token)
BY DEF Text, Token

LEMMA AbsoluteIs ==
  ASSUME NEW p, Absolute(p)
  PROVE  p \in Location(Token)
<1> DEFINE good == {e \in Range(p) : e \in Text /\ e \notin NotIn \cup {Up} /\ Slash \notin ToSet(e)}
<1>1. p \in Seq(good)
  BY Zenon DEF Absolute
<1>2. ASSUME NEW e \in good
      PROVE  e \in Element(Token) \ {Up}
  <2>1. e \in Text /\ e \notin NotIn /\ e # Up /\ Slash \notin ToSet(e)
    OBVIOUS
  <2>2. e \in Seq(Token)
    BY <2>1, TextTokens
  <2>3. \A i \in 1..Len(e) : e[i] \in Token \ {Slash}
    BY <2>1, <2>2 DEF ToSet
  <2>4. e \in Seq(Token \ {Slash})
    <3>1. e = [i \in 1..Len(e) |-> e[i]] /\ Len(e) \in Nat
      BY <2>2
    <3> QED
      BY <2>3, <3>1
  <2> QED
    BY <2>1, <2>4 DEF Element
<1> HIDE DEF good
<1>3. good \subseteq Element(Token) \ {Up}
  BY <1>2
<1>4. \A A, B : A \subseteq B => Seq(A) \subseteq Seq(B)
  OBVIOUS
<1> QED
  BY <1>1, <1>3, <1>4, Zenon DEF Location

LEMMA ShadowRootIs == ShadowRoot \in Location(Token)
<1> DEFINE N == Element(Token) \ {Up}
           loom == <<".", "loom">>
           overlays == <<"shadow">>
<1>1. Home \in Seq(N)
  BY AdmissionAssumption, AbsoluteIs DEF Location
<1>2. Session \in N
  <2>1. <<Session>> \in Seq(N)
    BY AdmissionAssumption, AbsoluteIs DEF Location
  <2>2. \A i \in 1..Len(<<Session>>) : <<Session>>[i] \in N
    BY <2>1, ElementOfSeq
  <2> QED
    BY <2>2
<1>3. loom \in Seq(Token \ {Slash}) /\ overlays \in Seq(Token \ {Slash})
  BY DEF Token, Slash
<1>4. loom \notin NotIn /\ loom # Up /\ overlays \notin NotIn /\ overlays # Up
  BY DEF NotIn, Up
<1>5. loom \in N /\ overlays \in N
  BY <1>3, <1>4 DEF Element
<1> HIDE DEF N, loom, overlays
<1>6. <<loom, overlays, Session>> \in Seq(N)
  BY <1>2, <1>5
<1>7. Home \o <<loom, overlays, Session>> \in Seq(N)
  BY <1>1, <1>6
<1> QED
  BY <1>7 DEF ShadowRoot, Location, N, loom, overlays

LEMMA WorkspaceIs ==
  ASSUME NEW c \in Case
  PROVE  Workspace(c) \in Location(Token)
<1> DEFINE path == Clean(TrimSpace(c.root))
           from == IF path.rooted THEN <<>> ELSE c.cwd
<1>1. c.root \in Text /\ ~Blank(c.root) /\ Absolute(c.cwd)
  BY AdmissionAssumption, Zenon DEF CaseType
<1>2. TrimSpace(c.root) \in Seq(Token)
  BY <1>1, TextTokens, TrimIs
<1>3. path.parts \in Seq(Element(Token))
  BY <1>2, CleanIs
<1>4. from \in Location(Token)
  <2>1. <<>> \in Location(Token)
    BY DEF Location
  <2>2. c.cwd \in Location(Token)
    BY <1>1, AbsoluteIs
  <2> QED
    BY <2>1, <2>2
<1>5. normalizeRootPath(c.root, c.cwd) = {Walk(TRUE, from, path.parts)}
  BY <1>1, Zenon DEF normalizeRootPath
<1> HIDE DEF path, from
<1>6. Walk(TRUE, from, path.parts) \in Location(Token)
  BY <1>3, <1>4, ClimbingIs
<1>7. Workspace(c) \in normalizeRootPath(c.root, c.cwd)
  BY <1>5, Zenon DEF Workspace
<1> QED
  BY <1>5, <1>6, <1>7

\* A run is one of a v1 skill with the capabilities of its receipt, and no
\* step writes the root of the shadow.
PlaceInv ==
  /\ \A p \in DOMAIN shadow : p # <<>>
  /\ phase \in Admitted => receipt.caps = parsed.caps
  /\ phase \in Started => parsed.version = CurrentSchemaVersion

LEMMA PlaceInit == Init => PlaceInv
BY DEF Init, PlaceInv, Admitted, Started

LEMMA PlaceNext == PlaceInv /\ [Next]_vars => PlaceInv'
<1> USE DEF Goto, Admitted, Started
<1> SUFFICES ASSUME PlaceInv, [Next]_vars
             PROVE  PlaceInv'
  OBVIOUS
<1>1. CASE Read
  BY <1>1 DEF PlaceInv, Read
<1>2. CASE Start
  BY <1>2 DEF PlaceInv, Start
<1>3. CASE Validate
  BY <1>3 DEF PlaceInv, Validate
<1>4. CASE Sanitize
  BY <1>4 DEF PlaceInv, Sanitize
<1>5. CASE Provision
  BY <1>5 DEF PlaceInv, Provision
<1>6. CASE RefuseRoots
  BY <1>6 DEF PlaceInv, RefuseRoots
<1>7. CASE WriteReceipt
  <2>1. receipt'.caps = parsed'.caps
    BY <1>7, Zenon DEF WriteReceipt
  <2>2. phase' \in {"verified", "admitted"} /\ UNCHANGED shadow
    BY <1>7, Zenon DEF WriteReceipt
  <2> QED
    BY <2>1, <2>2 DEF PlaceInv
<1>8. CASE Gate
  BY <1>8 DEF PlaceInv, Gate
<1>9. CASE handleReadFile
  BY <1>9 DEF PlaceInv, handleReadFile, Ready, Abort, Advance
<1>10. CASE handleWriteFile
  <2>1. /\ phase = "running" /\ phase' \in {"running", "aborted"}
        /\ UNCHANGED <<receipt, parsed>>
    BY <1>10 DEF handleWriteFile, Ready, Abort, Advance
  <2>2. \A p \in DOMAIN shadow' : p # <<>>
    <3>1. CASE UNCHANGED shadow
      BY <3>1 DEF PlaceInv
    <3>2. CASE \E t, p : /\ p # <<>>
                         /\ shadow' = [q \in DOMAIN shadow \cup {p} |-> IF q = p THEN t ELSE shadow[q]]
      BY <3>2 DEF PlaceInv
    <3> QED
      BY <1>10, <3>1, <3>2, Zenon DEF handleWriteFile, Abort, Clear
  <2> QED
    BY <2>1, <2>2 DEF PlaceInv
<1>11. CASE RefuseLegacy
  BY <1>11 DEF PlaceInv, RefuseLegacy, Ready, Abort
<1>12. CASE Finish
  BY <1>12 DEF PlaceInv, Finish
<1>13. CASE UNCHANGED vars
  BY <1>13 DEF PlaceInv, vars
<1> QED
  BY <1>1, <1>2, <1>3, <1>4, <1>5, <1>6, <1>7, <1>8, <1>9, <1>10, <1>11, <1>12, <1>13 DEF Next

LEMMA PlaceSafe == Spec => [](SessionInv /\ RunInv /\ PlaceInv)
BY SessionInit, SessionNext, RunInit, RunNext, PlaceInit, PlaceNext, PTL DEF Spec

\* What the steps of a run are made of.
LEMMA RunsText ==
  ASSUME SessionInv, PlaceInv, phase \in Started
  PROVE  /\ parsed.version = CurrentSchemaVersion /\ receipt.caps = parsed.caps /\ Valid(parsed)
         /\ \A i \in DOMAIN parsed.steps : parsed.steps[i].path \in Seq(Token)
         /\ \A c \in ToSet(parsed.caps) : c.scope \in Seq(Token)
<1>1. parsed \in ReadSkill(case) /\ case \in Case /\ Valid(parsed)
  BY DEF SessionInv, Checked, Sanitized, Admitted, Started
<1>2. parsed.version = "v1" /\ receipt.caps = parsed.caps
  BY DEF PlaceInv, Admitted, CurrentSchemaVersion
<1>3. JSONSkill(parsed)
  BY <1>1, <1>2, ReadIs DEF MarkdownSkill
<1>4. \A i \in DOMAIN parsed.steps : parsed.steps[i].path \in Text
  <2>1. \A step \in Range(parsed.steps) : step.path \in Text
    BY <1>3, JSONParts, Zenon DEF SkillParts
  <2>2. \A i \in DOMAIN parsed.steps : parsed.steps[i] \in Range(parsed.steps)
    BY Zenon DEF Range
  <2> QED
    BY <2>1, <2>2
<1>5. \A c \in ToSet(parsed.caps) : c.scope \in Text
  <2>1. \A c \in Range(parsed.caps) : c.scope \in Text
    BY <1>3, JSONParts, Zenon DEF SkillParts
  <2>2. ToSet(parsed.caps) = Range(parsed.caps)
    BY DEF ToSet, Range
  <2> QED
    BY <2>1, <2>2
<1> QED
  BY <1>1, <1>2, <1>4, <1>5, TextTokens DEF CurrentSchemaVersion

LEMMA ReachedIs ==
  ASSUME SessionInv, PlaceInv, phase \in Started, NEW i \in DOMAIN parsed.steps,
         NEW p \in Reach(case, parsed.steps[i])
  PROVE  p \in Location(Token) /\ ~isReservedShadowRelativePath(p)
<1>1. parsed.steps[i].path \in Seq(Token)
  BY RunsText
<1>2. Workspace(case) \in Location(Token) /\ ShadowRoot \in Location(Token) /\ Slash \in Token
  BY WorkspaceIs, ShadowRootIs DEF SessionInv, Token
<1>3. p \in Target(parsed.steps[i].path, Workspace(case), ShadowRoot)
  BY DEF Reach
<1> QED
  BY <1>1, <1>2, <1>3, TargetIs

LEMMA DenoteIs == SessionInv /\ RunInv /\ PlaceInv => PathsDenote
<1> SUFFICES ASSUME SessionInv, RunInv, PlaceInv, NEW p \in DOMAIN shadow
             PROVE  /\ p # <<>> /\ Up \notin ToSet(p) /\ Head(p) # Reserved
                    /\ TrimSpace(PathText(p)) = PathText(p) =>
                         Target(PathText(p), Workspace(case), ShadowRoot) = {p}
  BY DEF PathsDenote
<1>1. phase \in Started
  <2>1. shadow # <<>>
    OBVIOUS
  <2> QED
    BY <2>1 DEF RunInv
<1>2. PICK i \in Writers(next, p) : TRUE
  BY DEF RunInv
<1>3. i \in DOMAIN parsed.steps /\ p \in Reach(case, parsed.steps[i])
  BY <1>2 DEF RunInv, Writers
<1>4. p \in Location(Token) /\ ~isReservedShadowRelativePath(p) /\ p # <<>>
  BY <1>1, <1>3, ReachedIs DEF PlaceInv
<1>5. Up \notin ToSet(p)
  BY <1>4 DEF Location, ToSet
<1>6. Head(p) # Reserved
  BY <1>4 DEF isReservedShadowRelativePath
<1>7. Workspace(case) \in Location(Token) /\ ShadowRoot \in Location(Token) /\ Slash \in Token
  BY WorkspaceIs, ShadowRootIs DEF SessionInv, Token
<1>8. TrimSpace(PathText(p)) = PathText(p) =>
        Target(PathText(p), Workspace(case), ShadowRoot) = {p}
  BY <1>4, <1>7, SpellingReaches
<1> QED
  BY <1>4, <1>5, <1>6, <1>8

\* Whatever the paths of a skill are, a run writes strictly inside its shadow
\* and apart from the metadata, and what it wrote can be named again by the
\* location's own spelling, as the manifest does (SanitizeShadowRelPath,
\* resolveManagedRelativePath).
THEOREM PathsAlwaysDenote == Spec => []PathsDenote
BY PlaceSafe, DenoteIs, PTL

LEMMA ScopeIs == SessionInv /\ RunInv /\ PlaceInv => WritesWithinScope
<1> SUFFICES ASSUME SessionInv, RunInv, PlaceInv, NEW i \in 1..(next - 1),
                    parsed.steps[i].kind = "write_file",
                    NEW t, t = parsed.steps[i].path, Up \notin ToSet(Split(t, Slash)),
                    TrimSpace(t) = t,
                    TrimSpace(PathText(Clean(t).parts)) = PathText(Clean(t).parts),
                    NEW p \in Reach(case, parsed.steps[i])
             PROVE  WithinScope(p)
  BY Zenon DEF WritesWithinScope
<1>1. i \in DOMAIN parsed.steps
  <2>1. i \in Writes(next)
    BY DEF Writes
  <2> QED
    BY <2>1 DEF RunInv
<1>2. phase \in Started
  BY DEF RunInv
<1>3. auditCapabilities(parsed) /\ parsed.version = CurrentSchemaVersion /\ receipt.caps = parsed.caps
  BY <1>2, RunsText DEF Valid, ValidateSkill
<1>4. PICK c \in ToSet(parsed.caps) : c.kind = "vfs.write" /\ ScopeCovers(c.scope, t)
  <2> DEFINE derived == [kind |-> "vfs.write", scope |-> t]
  <2>1. derived \in DefaultCapabilitiesFor(parsed.steps[i])
    BY DEF DefaultCapabilitiesFor
  <2>2. capabilityCovered(parsed.caps, derived)
    <3> HIDE DEF derived
    <3> QED
      BY <1>1, <1>3, <2>1, Zenon DEF auditCapabilities
  <2> QED
    BY <2>2 DEF capabilityCovered
<1>5. c.scope \in Seq(Token) /\ t \in Seq(Token) /\ Slash \in Token
  BY <1>1, <1>2, <1>4, RunsText DEF Token
<1>6. p = Clean(t).parts
  <2>1. Workspace(case) \in Location(Token) /\ ShadowRoot \in Location(Token)
    BY WorkspaceIs, ShadowRootIs DEF SessionInv
  <2>2. p \in Target(t, Workspace(case), ShadowRoot)
    BY DEF Reach
  <2> QED
    BY <1>5, <2>1, <2>2, CleanReaches
<1>7. IsPrefix(Clean(c.scope).parts, Clean(t).parts)
  BY <1>4, <1>5, ScopesContain
<1> QED
  BY <1>3, <1>4, <1>6, <1>7 DEF WithinScope

\* Whatever the scopes are, and however a path is spelled short of a ".." or a
\* blank to trim, a run writes only where a scope of the receipt, read as a
\* location, contains it (ScopeCovers, which compares texts before they are
\* cleaned, auditCapabilities, SanitizeShadowRelPath).
THEOREM WritesStayWithinScope == Spec => []WritesWithinScope
BY PlaceSafe, ScopeIs, PTL

-----------------------------------------------------------------------------
(* A session with its data is a session of Gateway's.                      *)

\* The job is drawn up when the session starts.
JobInv ==
  /\ job = IF phase \in {"fresh", "read", "unread"} THEN Abstract!NoJob ELSE JobOf(case, parsed)
  /\ phase \in {"admitted", "refused"} \cup Started => case.cmd # "verify"

LEMMA JobInit == Init => JobInv
BY DEF Init, JobInv, Started

LEMMA JobNext == SessionInv /\ JobInv /\ [Next]_vars => JobInv'
<1> USE DEF Goto, Started
<1> SUFFICES ASSUME SessionInv, JobInv, [Next]_vars
             PROVE  JobInv'
  OBVIOUS
<1>1. CASE Read
  BY <1>1 DEF JobInv, Read
<1>2. CASE Start
  BY <1>2 DEF JobInv, Start
<1>3. CASE Validate
  BY <1>3 DEF JobInv, Validate
<1>4. CASE Sanitize
  BY <1>4 DEF JobInv, Sanitize
<1>5. CASE Provision
  BY <1>5 DEF JobInv, Provision
<1>6. CASE RefuseRoots
  BY <1>6 DEF JobInv, RefuseRoots
<1>7. CASE WriteReceipt
  BY <1>7 DEF JobInv, WriteReceipt
<1>8. CASE Gate
  BY <1>8 DEF JobInv, Gate
<1>9. CASE handleReadFile
  BY <1>9 DEF JobInv, handleReadFile, Ready, Abort, Advance
<1>10. CASE handleWriteFile
  BY <1>10 DEF JobInv, handleWriteFile, Ready, Abort, Advance
<1>11. CASE RefuseLegacy
  BY <1>11 DEF JobInv, RefuseLegacy, Ready, Abort
<1>12. CASE Finish
  BY <1>12 DEF JobInv, Finish
<1>13. CASE UNCHANGED vars
  BY <1>13 DEF JobInv, vars
<1> QED
  BY <1>1, <1>2, <1>3, <1>4, <1>5, <1>6, <1>7, <1>8, <1>9, <1>10, <1>11, <1>12, <1>13 DEF Next

LEMMA FilesKept ==
  ASSUME UNCHANGED <<case, parsed, shadow>>
  PROVE  Files' = Files
BY DEF Files

LEMMA FilesFresh == shadow = <<>> => Files = Abstract!Empty
BY DEF Files, Abstract!Empty

LEMMA MapsInit == Init => Abstract!Init
<1> SUFFICES ASSUME Init
             PROVE  Abstract!Init
  OBVIOUS
<1>1. Files = Abstract!Empty
  BY FilesFresh DEF Init
<1>2. Base(case) \in AllBases
  BY DEF Init, AllBases
<1>3. <<>> = [c \in {} |-> "one"] /\ <<>> = [c \in {} |-> "idle"] /\ <<>> = [c \in {} |-> {}]
      /\ <<>> = [c \in {} |-> "none"]
  OBVIOUS
<1>4. <<>> \in {[c \in {} |-> s] : s \in {"one"}}
  BY <1>3
<1>0. receipt = NoReceipt /\ phase \notin {"running", "done", "aborted"}
  BY DEF Init
<1>6. [s \in {"one"} |-> receipt # NoReceipt] = [s \in {"one"} |-> FALSE]
  BY <1>0
<1> DEFINE begun == phase \in {"running", "done", "aborted"}
<1>5. begun = FALSE
  BY <1>0
<1>7. [s \in {"one"} |-> begun] = [s \in {"one"} |-> FALSE]
  <2> HIDE DEF begun
  <2> QED
    BY <1>5
<1>8. (IF why \in {"roots", "path", "disk", "legacy"} THEN 1 ELSE 0) = 0
  BY DEF Init
<1>9. [s \in {"one"} |-> IF phase \in {"fresh", "read", "unread"} THEN "fresh"
                        ELSE IF phase \in {"validated", "sanitized"} THEN "compiling" ELSE phase]
        = [s \in {"one"} |-> "fresh"]
  BY DEF Init
<1>10. job = Abstract!NoJob /\ next = 1 /\ dir = FALSE /\ manifest = {}
  BY DEF Init
<1> QED
  BY <1>1, <1>2, <1>3, <1>4, <1>6, <1>7, <1>8, <1>9, <1>10, Zenon DEF Abstract!Init

\* A session's entry in a function of Gateway's.
LEMMA Entry ==
  ASSUME NEW x, NEW y
  PROVE  [s \in {"one"} |-> y] = [[s \in {"one"} |-> x] EXCEPT !["one"] = y]
OBVIOUS

\* ... and one that is a Boolean.
LEMMA Holding ==
  ASSUME NEW x, NEW y \in BOOLEAN, NEW z \in BOOLEAN, y <=> z
  PROVE  [s \in {"one"} |-> y] = [[s \in {"one"} |-> x] EXCEPT !["one"] = z]
<1>1. y = z
  OBVIOUS
<1> HIDE <1>1
<1> QED
  BY <1>1, Entry, Zenon

LEMMA MapsValidate ==
  ASSUME SessionInv, RunInv, JobInv, Validate
  PROVE  [Abstract!Next]_(Abstract!vars)
<1>1. phase = "compiling" /\ UNCHANGED <<case, parsed, sanitized, dir, receipt, next, shadow, manifest, why, job>>
  BY DEF Validate
<1>2. Files' = Files
  BY <1>1, FilesKept
<1>3. CASE phase' = "validated"
  BY <1>1, <1>2, <1>3 DEF Abstract!vars, Abstract!sessVars, Abstract!procVars
<1>4. CASE phase' = "rejected"
  <2>1. ~(RawInputs(case, parsed) # {} /\ Valid(parsed))
    BY <1>4 DEF Validate, Goto
  <2>2. job = JobOf(case, parsed)
    BY <1>1 DEF JobInv
  <2>3. ~Abstract!Admissible(job)
    <3>1. job.skill.valid = Valid(parsed)
      BY <2>2 DEF JobOf, SkillOf
    <3>2. RawInputs(case, parsed) = {} => job.input = "bad"
      BY <2>2 DEF JobOf, Values
    <3> QED
      BY <2>1, <3>1, <3>2 DEF Abstract!Admissible
  <2>4. Abstract!Reject("one")
    BY <1>1, <1>2, <1>4, <2>3 DEF Abstract!Reject, Abstract!Goto, Abstract!procVars
  <2> QED
    BY <2>4 DEF Abstract!Next, Abstract!Progress
<1> QED
  BY <1>3, <1>4 DEF Validate, Goto

LEMMA MapsRead ==
  ASSUME SessionInv, RunInv, JobInv, Read
  PROVE  UNCHANGED Abstract!vars
<1>1. /\ phase = "fresh" /\ UNCHANGED <<case, sanitized, dir, receipt, next, shadow, manifest, why, job>>
      /\ phase' \in {"read", "unread"}
  BY DEF Read, Goto
<1>2. Files' = Files
  <2>1. shadow = <<>> /\ shadow' = <<>>
    BY <1>1 DEF RunInv, Started
  <2>2. Files = Abstract!Empty
    BY <2>1, FilesFresh
  <2>3. Files' = [p \in AllPaths |-> Absent]
    BY <2>1 DEF Files
  <2> QED
    BY <2>2, <2>3 DEF Abstract!Empty
<1> QED
  BY <1>1, <1>2 DEF Abstract!vars, Abstract!sessVars, Abstract!procVars

LEMMA MapsSanitize ==
  ASSUME SessionInv, RunInv, JobInv, Sanitize
  PROVE  [Abstract!Next]_(Abstract!vars)
<1>1. /\ phase = "validated" /\ phase' \in {"sanitized", "rejected"}
      /\ UNCHANGED <<case, parsed, dir, receipt, next, shadow, manifest, why, job>>
  BY DEF Sanitize, Goto
<1>2. Files' = Files
  BY <1>1, FilesKept
<1>3. CASE phase' = "sanitized"
  BY <1>1, <1>2, <1>3 DEF Abstract!vars, Abstract!sessVars, Abstract!procVars
<1>4. CASE phase' = "rejected"
  <2>1. Values(case, parsed) = {}
    BY <1>4 DEF Sanitize, Goto
  <2>2. job = JobOf(case, parsed)
    BY <1>1 DEF JobInv
  <2>3. ~Abstract!Admissible(job)
    BY <2>1, <2>2 DEF JobOf, Abstract!Admissible
  <2>4. Abstract!Reject("one")
    BY <1>1, <1>2, <1>4, <2>3 DEF Abstract!Reject, Abstract!Goto, Abstract!procVars
  <2> QED
    BY <2>4 DEF Abstract!Next, Abstract!Progress
<1> QED
  BY <1>1, <1>3, <1>4

LEMMA MapsProvision ==
  ASSUME SessionInv, RunInv, JobInv, Provision
  PROVE  Abstract!Next
<1>1. /\ phase = "sanitized" /\ phase' = "provisioned" /\ dir' = TRUE
      /\ UNCHANGED <<case, parsed, sanitized, receipt, next, shadow, manifest, why, job>>
  BY DEF Provision, Goto
<1>2. Files' = Files /\ Files = Abstract!Empty
  BY <1>1, FilesKept, FilesFresh DEF RunInv, Started
<1>3. job = JobOf(case, parsed) /\ Valid(parsed) /\ Values(case, parsed) # {}
  BY <1>1 DEF JobInv, SessionInv, Checked, Sanitized
<1>4. Abstract!Admissible(job)
  BY <1>3 DEF JobOf, SkillOf, Abstract!Admissible
<1>5. Abstract!Provision("one")
  <2>1. [s \in {"one"} |-> dir'] = [[s \in {"one"} |-> dir] EXCEPT !["one"] = TRUE]
    BY <1>1, Entry
  <2>2. [s \in {"one"} |-> Files'] = [[s \in {"one"} |-> Files] EXCEPT !["one"] = Abstract!Empty]
    BY <1>2, Entry
  <2>3. UNCHANGED [s \in {"one"} |-> receipt # NoReceipt]
    BY <1>1
  <2> QED
    BY <1>1, <1>2, <1>4, <2>1, <2>2, <2>3 DEF Abstract!Provision, Abstract!Goto, Abstract!procVars
<1> QED
  BY <1>5 DEF Abstract!Next, Abstract!Progress

LEMMA MapsRefuseRoots ==
  ASSUME SessionInv, RunInv, JobInv, RefuseRoots
  PROVE  Abstract!Next
<1>1. /\ phase = "provisioned" /\ phase' = "rejected" /\ dir' = FALSE /\ why' = "roots"
      /\ UNCHANGED <<case, parsed, sanitized, receipt, next, shadow, manifest, job>>
  BY DEF RefuseRoots, Goto
<1>2. Files' = Files /\ Files = Abstract!Empty /\ why = "nothing"
  BY <1>1, FilesKept, FilesFresh DEF RunInv, Started
<1>3. Abstract!FailReceipt("one")
  <2>1. [s \in {"one"} |-> dir'] = [[s \in {"one"} |-> dir] EXCEPT !["one"] = FALSE]
    BY <1>1, Entry
  <2>2. [s \in {"one"} |-> Files'] = [[s \in {"one"} |-> Files] EXCEPT !["one"] = Abstract!Empty]
    BY <1>2, Entry
  <2> QED
    BY <1>1, <1>2, <2>1, <2>2 DEF Abstract!FailReceipt, Abstract!Faulty, Abstract!Goto, Abstract!procVars
<1> QED
  BY <1>3 DEF Abstract!Next

LEMMA MapsWriteReceipt ==
  ASSUME SessionInv, RunInv, JobInv, WriteReceipt
  PROVE  Abstract!Next
<1>1. /\ phase = "provisioned" /\ phase' = (IF case.cmd = "verify" THEN "verified" ELSE "admitted")
      /\ UNCHANGED <<case, parsed, sanitized, dir, next, shadow, manifest, why, job>>
  BY DEF WriteReceipt, Goto
<1>2. receipt' # NoReceipt
  BY DEF WriteReceipt, NoReceipt
<1>3. Files' = Files
  BY <1>1, FilesKept
<1>4. job.cmd = case.cmd
  BY <1>1 DEF JobInv, JobOf
<1>5. Abstract!WriteReceipt("one")
  <2>1. [s \in {"one"} |-> receipt' # NoReceipt]
          = [[s \in {"one"} |-> receipt # NoReceipt] EXCEPT !["one"] = TRUE]
    BY <1>2, Holding
  <2> QED
    BY <2>1, <1>1, <1>2, <1>3, <1>4 DEF Abstract!WriteReceipt, Abstract!Goto, Abstract!procVars
<1> QED
  BY <1>5 DEF Abstract!Next, Abstract!Progress

LEMMA MapsGate ==
  ASSUME SessionInv, RunInv, JobInv, Gate
  PROVE  Abstract!Next
<1> DEFINE pass == /\ parsed.version = CurrentSchemaVersion
                   /\ Abstract!enforceDraftPolicy([skill |-> parsed, policy |-> case.policy])
<1>1. /\ phase = "admitted" /\ phase' = (IF pass THEN "running" ELSE "refused")
      /\ UNCHANGED <<case, parsed, sanitized, dir, receipt, next, shadow, manifest, why, job>>
  BY DEF Gate, Goto
<1>2. Files' = Files
  BY <1>1, FilesKept
<1>3. job = JobOf(case, parsed)
  BY <1>1 DEF JobInv
<1>4. (job.skill.v1 /\ Abstract!enforceDraftPolicy(job)) <=> pass
  BY <1>3 DEF JobOf, SkillOf, Abstract!enforceDraftPolicy
<1> HIDE DEF pass
<1>5. Abstract!Gate("one")
  <2>1. [s \in {"one"} |-> phase' \in {"running", "done", "aborted"}]
          = [[s \in {"one"} |-> phase \in {"running", "done", "aborted"}] EXCEPT !["one"] =
               job.skill.v1 /\ Abstract!enforceDraftPolicy(job)]
    BY <1>1, <1>4, Holding
  <2> QED
    BY <2>1, <1>1, <1>2, <1>4 DEF Abstract!Gate, Abstract!Goto, Abstract!procVars
<1> QED
  BY <1>5 DEF Abstract!Next, Abstract!Progress

LEMMA KnownSkill ==
  ASSUME NEW c \in Case, NEW k \in ReadSkill(c)
  PROVE  SkillOf(c, k) \in AllSkills
<1>1. SkillOf(c, k) \in {SkillOf(c, x) : x \in ReadSkill(c)}
  OBVIOUS
<1> QED
  BY <1>1 DEF AllSkills

LEMMA MapsStart ==
  ASSUME SessionInv, RunInv, JobInv, Start
  PROVE  Abstract!Next
<1> DEFINE skill == SkillOf(case, parsed)
           input == job'.input
<1>1. /\ phase = "read" /\ job' = JobOf(case, parsed) /\ case \in Case
      /\ UNCHANGED <<case, parsed, sanitized, dir, receipt, next, shadow, manifest, why>>
  BY DEF Start, SessionInv
<1>2. Files' = Files
  BY <1>1, FilesKept
<1>3. skill \in AllSkills
  BY <1>1, KnownSkill DEF SessionInv
<1>4. input \in {"full", "partial", "bad"} /\ (case.cmd = "verify" => input # "partial")
  BY <1>1 DEF JobOf
<1>5. /\ case.cmd \in {"verify", "run", "call"} /\ case.policy \in AllPolicies
      /\ case.policy # "" /\ (case.cmd # "run" => case.policy = "refuse")
  BY <1>1, AdmissionAssumption DEF CaseType, AllPolicies
<1>6. job' = [cmd |-> case.cmd, skill |-> skill, policy |-> case.policy, input |-> input]
  BY <1>1 DEF JobOf
<1>7. phase' = IF case.cmd = "run" => parsed.version = CurrentSchemaVersion /\ case.policy \in Abstract!Policy
                 THEN "compiling" ELSE "rejected"
  BY DEF Start, Goto
<1>8. skill.v1 <=> parsed.version = CurrentSchemaVersion
  BY DEF SkillOf
<1> HIDE DEF skill, input
<1>9. ASSUME NEW j, j = job'
      PROVE  Abstract!Begin("one", j)
  <2>1. phase' \in {"compiling", "rejected"}
    BY <1>7
  <2> QED
    BY <1>1, <1>2, <1>9, <2>1 DEF Abstract!Begin, Abstract!procVars
<1>10. ASSUME NEW l, l = phase', l \in {"compiling", "rejected"}
       PROVE  Abstract!Goto("one", l)
  BY <1>1, <1>10 DEF Abstract!Goto
<1>11. CASE case.cmd = "verify"
  <2>1. Abstract!StartVerify("one")
    BY <1>3, <1>4, <1>5, <1>6, <1>7, <1>9, <1>10, <1>11 DEF Abstract!StartVerify
  <2> QED
    BY <1>1, <2>1 DEF Abstract!Next, Abstract!Start
<1>12. CASE case.cmd = "call"
  <2>1. Abstract!StartCall("one")
    BY <1>3, <1>4, <1>5, <1>6, <1>7, <1>9, <1>10, <1>12 DEF Abstract!StartCall
  <2> QED
    BY <1>1, <2>1 DEF Abstract!Next, Abstract!Start
<1>13. CASE case.cmd = "run"
  <2>1. Abstract!resolveDraftPolicy(case.policy, FALSE) = case.policy
    BY <1>5 DEF Abstract!resolveDraftPolicy
  <2>2. Abstract!StartRun("one")
    BY <1>3, <1>4, <1>5, <1>6, <1>7, <1>8, <1>9, <1>10, <1>13, <2>1 DEF Abstract!StartRun
  <2> QED
    BY <1>1, <2>2 DEF Abstract!Next, Abstract!Start
<1> QED
  BY <1>5, <1>11, <1>12, <1>13

\* A caller's inputs are sanitized to one thing at most.
LEMMA ValuesOne ==
  ASSUME NEW c \in Case, NEW k, NEW v \in Values(c, k), NEW w \in Values(c, k)
  PROVE  v = w
<1>1. c.cmd \in {"verify", "run", "call"}
  BY AdmissionAssumption DEF CaseType
<1>2. \A x, y \in RawInputs(c, k) : x = y
  <2>1. \A x, y \in buildVerificationInputs(k.params) : x = y
    BY Zenon DEF buildVerificationInputs
  <2>2. \A x, y \in parseInputFlags(c.flags) : x = y
    BY Zenon DEF parseInputFlags
  <2> QED
    <3>1. \A x, y \in decodeArguments(c.args) : x = y
      BY Zenon DEF decodeArguments
    <3> QED
      BY <1>1, <2>1, <2>2, <3>1 DEF RawInputs
<1>3. \A raw, schema : \A x, y \in SanitizeInput(raw, schema) : x = y
  BY Zenon DEF SanitizeInput
<1>4. PICK r \in RawInputs(c, k) : v \in SanitizeInput(r, k.params)
  BY DEF Values
<1>5. PICK s \in RawInputs(c, k) : w \in SanitizeInput(s, k.params)
  BY DEF Values
<1> QED
  BY <1>2, <1>3, <1>4, <1>5

\* What a step of a started run writes.
LEMMA ContentIs ==
  ASSUME NEW c \in Case, NEW k, NEW v \in Values(c, k), NEW i
  PROVE  Content(c, k, i) = substituteString(k.steps[i].content, v)
<1>1. Values(c, k) = {v}
  BY ValuesOne
<1> QED
  BY <1>1 DEF Content

LEMMA StepsAre ==
  ASSUME NEW c, NEW k, k.steps \in Seq(Range(k.steps))
  PROVE  /\ Len(SkillOf(c, k).steps) = Len(k.steps)
         /\ DOMAIN SkillOf(c, k).steps = DOMAIN k.steps
         /\ \A i \in DOMAIN k.steps : SkillOf(c, k).steps[i] = StepOf(c, k, i)
<1>1. SkillOf(c, k).steps = [i \in DOMAIN k.steps |-> StepOf(c, k, i)]
  BY DEF SkillOf
<1>2. DOMAIN k.steps = 1..Len(k.steps) /\ Len(k.steps) \in Nat
  OBVIOUS
<1> QED
  BY <1>1, <1>2

\* A run about to take a step, in Gateway.
LEMMA Running ==
  ASSUME SessionInv, RunInv, JobInv, phase = "running", next <= Len(parsed.steps)
  PROVE  /\ case \in Case /\ parsed \in ReadSkill(case) /\ sanitized \in Values(case, parsed)
         /\ next \in DOMAIN parsed.steps /\ Current = parsed.steps[next]
         /\ why = "nothing"
         /\ Abstract!Ready("one") /\ Abstract!Current("one") = StepOf(case, parsed, next)
         /\ Abstract!Unbound("one", Abstract!Current("one"))
              <=> Current.kind = "write_file" /\ ~Expandable(Current.content, DOMAIN sanitized)
<1> DEFINE step == StepOf(case, parsed, next)
<1>1. /\ case \in Case /\ parsed \in ReadSkill(case) /\ sanitized \in Values(case, parsed)
      /\ why = "nothing" /\ case.cmd # "verify" /\ job = JobOf(case, parsed) /\ next \in Nat \ {0}
  BY DEF SessionInv, RunInv, JobInv, Started, Sanitized, Admitted
<1>2. next \in DOMAIN parsed.steps /\ Current = parsed.steps[next]
  <2>1. DOMAIN parsed.steps = 1..Len(parsed.steps) /\ Len(parsed.steps) \in Nat
    BY <1>1, SkillIs
  <2> QED
    BY <1>1, <2>1 DEF Current
<1>3. parsed.steps \in Seq(Range(parsed.steps))
  BY <1>1, ReadIs, JSONParts, Zenon DEF SkillParts, MarkdownSkill
<1>4. Abstract!Ready("one") /\ Abstract!Current("one") = step
  <2>1. Abstract!Steps("one") = SkillOf(case, parsed).steps
    BY <1>1 DEF Abstract!Steps, JobOf
  <2>2. Abstract!Current("one") = Abstract!Steps("one")[next]
    BY DEF Abstract!Current
  <2> QED
    BY <1>2, <1>3, <2>1, <2>2, StepsAre DEF Abstract!Ready
<1>5. step.optional <=> Current.kind = "write_file" /\ ~Expandable(Current.content, DOMAIN sanitized)
  <2>1. step.optional <=> Current.kind = "write_file" /\ Content(case, parsed, next) = {}
    BY <1>2 DEF StepOf
  <2>2. Content(case, parsed, next) = substituteString(Current.content, sanitized)
    BY <1>1, <1>2, ContentIs
  <2>3. Current.kind = "write_file" =>
          (substituteString(Current.content, sanitized) = {} <=> ~Expandable(Current.content, DOMAIN sanitized))
    BY <1>1, <1>2, WrittenTextIs
  <2> QED
    BY <2>1, <2>2, <2>3
<1>6. step.optional => job.input = "partial"
  <2>1. step.optional => \E i \in DOMAIN parsed.steps : StepOf(case, parsed, i).optional
    BY <1>2
  <2>2. Values(case, parsed) # {}
    BY <1>1
  <2>3. (\E i \in DOMAIN parsed.steps : StepOf(case, parsed, i).optional)
          => JobOf(case, parsed).input = "partial"
    BY <1>1, <2>2 DEF JobOf
  <2> QED
    BY <1>1, <2>1, <2>3
<1>7. Abstract!Unbound("one", Abstract!Current("one")) <=> step.optional
  <2> HIDE DEF step
  <2> QED
    BY <1>4, <1>6 DEF Abstract!Unbound
<1> QED
  BY <1>1, <1>2, <1>4, <1>5, <1>7

\* What the shadow holds, in Gateway.
LEMMA FilesHeld ==
  ASSUME SessionInv, RunInv, phase \in Started
  PROVE  Abstract!Held(Files) = DOMAIN shadow
<1>1. case \in Case /\ parsed \in ReadSkill(case) /\ sanitized \in Values(case, parsed)
  BY DEF SessionInv, Sanitized, Admitted, Started
<1> DEFINE same(p) == {i \in DOMAIN parsed.steps : Content(case, parsed, i) = {shadow[p]}}
<1>2. ASSUME NEW p \in DOMAIN shadow
      PROVE  Min(same(p)) \in Nat
  <2>1. Writers(next, p) # {} /\ shadow[p] = Expansion(parsed.steps[Max(Writers(next, p))].content, sanitized)
    BY DEF RunInv
  <2>2. Writers(next, p) \subseteq 0..next /\ next \in Nat
    BY DEF RunInv, Writers, Writes
  <2>3. PICK i \in Writers(next, p) : i = Max(Writers(next, p))
    BY <2>1, <2>2, MaxIs
  <2>4. parsed.steps[i].kind = "write_file" /\ Expandable(parsed.steps[i].content, DOMAIN sanitized)
    BY <2>3 DEF RunInv, Writers, Writes
  <2>5. i \in DOMAIN parsed.steps
    BY <2>3 DEF RunInv, Writers
  <2>6. Content(case, parsed, i) = {shadow[p]}
    <3>1. Content(case, parsed, i) = substituteString(parsed.steps[i].content, sanitized)
      BY <1>1, ContentIs
    <3>2. substituteString(parsed.steps[i].content, sanitized) = {Expansion(parsed.steps[i].content, sanitized)}
      BY <1>1, <2>4, <2>5, WrittenTextIs
    <3> QED
      BY <2>1, <2>3, <3>1, <3>2
  <2>7. same(p) # {} /\ same(p) \subseteq Nat
    <3>1. DOMAIN parsed.steps = 1..Len(parsed.steps) /\ Len(parsed.steps) \in Nat
      BY <1>1, SkillIs
    <3>2. i \in same(p)
      BY <2>5, <2>6
    <3>3. same(p) \subseteq DOMAIN parsed.steps
      OBVIOUS
    <3> HIDE DEF same
    <3> QED
      BY <3>1, <3>2, <3>3
  <2> HIDE DEF same
  <2> QED
    BY <2>7, MinIs
<1>3. DOMAIN shadow \subseteq AllPaths
  BY DEF RunInv
<1>4. Files = [p \in AllPaths |-> IF p \notin DOMAIN shadow THEN Absent ELSE Min(same(p))]
  BY DEF Files
<1> HIDE DEF same
<1> QED
  BY <1>2, <1>3, <1>4, AdmissionAssumption DEF Abstract!Held

\* A text is named after the first step that writes it.
LEMMA TextIs ==
  ASSUME NEW c \in Case, NEW k \in ReadSkill(c), NEW i \in DOMAIN k.steps,
         NEW t, Content(c, k, i) = {t}
  PROVE  Min({j \in DOMAIN k.steps : Content(c, k, j) = {t}}) = StepOf(c, k, i).text
<1> DEFINE all == {j \in DOMAIN k.steps : Content(c, k, j) = {t}}
           before == {j \in 1..i : Content(c, k, j) = Content(c, k, i)}
<1>1. DOMAIN k.steps = 1..Len(k.steps) /\ Len(k.steps) \in Nat
  BY SkillIs
<1>2. i \in all /\ all \subseteq Nat /\ i \in before /\ before \subseteq Nat
  BY <1>1
<1>3. before \subseteq all /\ \A j \in all : j <= i => j \in before
  BY <1>1
<1>4. StepOf(c, k, i).text = Min(before)
  BY DEF StepOf
<1> HIDE DEF all, before
<1>5. Min(all) \in all /\ \A j \in all : Min(all) <= j
  BY <1>2, MinIs
<1>6. Min(before) \in before /\ \A j \in before : Min(before) <= j
  BY <1>2, MinIs
<1>7. Min(all) <= Min(before) /\ Min(before) <= Min(all)
  BY <1>2, <1>3, <1>5, <1>6
<1>8. Min(all) \in Nat /\ Min(before) \in Nat
  BY <1>2, <1>5, <1>6
<1>9. Min(all) = Min(before)
  BY <1>7, <1>8
<1> QED
  BY <1>4, <1>9 DEF all

\* What a run reports when it ends.
LEMMA Reports ==
  ASSUME NEW files, NEW places, Abstract!Held(files) = places, NEW before
  PROVE  [s \in {"one"} |-> places]
           = [[s \in {"one"} |-> before] EXCEPT !["one"] = Abstract!Held([s \in {"one"} |-> files]["one"])]
<1>1. [s \in {"one"} |-> files]["one"] = files
  OBVIOUS
<1> QED
  BY <1>1, Entry

\* A run that ends, of one kind of step or another.
LEMMA MapsEnd ==
  ASSUME NEW failed, NEW files, Abstract!Held(files) = manifest',
         failed = IF why' \in {"roots", "path", "disk", "legacy"} THEN 1 ELSE 0, Files' = files
  PROVE  Abstract!safeManifest("one", failed)
<1>1. [s \in {"one"} |-> manifest']
        = [[s \in {"one"} |-> manifest] EXCEPT !["one"] = Abstract!Held([s \in {"one"} |-> Files']["one"])]
  BY Reports
<1> QED
  BY <1>1 DEF Abstract!safeManifest

\* A step that is refused.
LEMMA MapsAbort ==
  ASSUME SessionInv, RunInv, JobInv, phase = "running", next <= Len(parsed.steps),
         NEW reason \in {"path", "disk", "legacy"}, Abort(reason),
         UNCHANGED <<case, parsed, sanitized, dir, receipt, job>>,
         Current.kind = "write_file" => Expandable(Current.content, DOMAIN sanitized)
  PROVE  Abstract!Next
<1>1. /\ phase' = "aborted" /\ manifest' = DOMAIN shadow /\ why' = reason /\ why = "nothing"
      /\ UNCHANGED <<next, shadow>>
  BY Running DEF Abort, Goto
<1>2. Files' = Files /\ Abstract!Held(Files) = DOMAIN shadow
  BY <1>1, FilesKept, FilesHeld DEF Started
<1>3. Abstract!Ready("one") /\ ~Abstract!Unbound("one", Abstract!Current("one"))
  BY Running
<1>4. Abstract!FailStep("one")
  <2>1. Abstract!safeManifest("one", 1)
    BY <1>1, <1>2, MapsEnd
  <2>2. Abstract!Abort("one", 1)
    BY <1>1, <2>1 DEF Abstract!Abort, Abstract!Goto
  <2> QED
    BY <1>1, <1>2, <1>3, <2>2 DEF Abstract!FailStep, Abstract!Faulty, Abstract!procVars
<1> QED
  BY <1>4 DEF Abstract!Next

LEMMA MapsRefuseLegacy ==
  ASSUME SessionInv, RunInv, JobInv, RefuseLegacy
  PROVE  Abstract!Next
<1>1. /\ phase = "running" /\ next <= Len(parsed.steps) /\ Current.kind # "write_file"
      /\ Abort("legacy") /\ UNCHANGED <<case, parsed, sanitized, dir, receipt, job>>
  BY DEF RefuseLegacy, Ready
<1> QED
  BY <1>1, MapsAbort

LEMMA MapsFinish ==
  ASSUME SessionInv, RunInv, JobInv, Finish
  PROVE  Abstract!Next
<1>1. /\ phase = "running" /\ next > Len(parsed.steps) /\ manifest' = DOMAIN shadow /\ phase' = "done"
      /\ UNCHANGED <<case, parsed, sanitized, dir, receipt, next, shadow, why, job>>
  BY DEF Finish, Goto
<1>2. Files' = Files /\ Abstract!Held(Files) = DOMAIN shadow
  BY <1>1, FilesKept, FilesHeld DEF Started
<1>3. Abstract!Steps("one") = SkillOf(case, parsed).steps
  BY <1>1 DEF JobInv, Abstract!Steps, JobOf
<1>4. next > Len(Abstract!Steps("one"))
  <2>1. case \in Case /\ parsed \in ReadSkill(case)
    BY <1>1 DEF SessionInv
  <2>2. parsed.steps \in Seq(Range(parsed.steps))
    BY <2>1, ReadIs, JSONParts, Zenon DEF SkillParts, MarkdownSkill
  <2> QED
    BY <1>1, <1>3, <2>2, StepsAre
<1>5. Abstract!Finish("one")
  <2>1. Abstract!safeManifest("one", IF why \in {"roots", "path", "disk", "legacy"} THEN 1 ELSE 0)
    BY <1>1, <1>2, MapsEnd
  <2>2. Abstract!Goto("one", "done")
    BY <1>1 DEF Abstract!Goto
  <2>3. UNCHANGED [s \in {"one"} |-> phase \in {"running", "done", "aborted"}]
    BY <1>1
  <2> QED
    BY <1>1, <1>2, <1>4, <2>1, <2>2, <2>3 DEF Abstract!Finish, Abstract!procVars
<1> QED
  BY <1>5 DEF Abstract!Next, Abstract!Progress

LEMMA MapsReadFile ==
  ASSUME SessionInv, RunInv, JobInv, handleReadFile
  PROVE  Abstract!Next
<1> DEFINE at == Reach(case, Current)
           step == StepOf(case, parsed, next)
<1>1. /\ phase = "running" /\ next <= Len(parsed.steps) /\ Current.kind = "read_file"
      /\ UNCHANGED <<case, parsed, sanitized, dir, receipt, job>>
  BY DEF handleReadFile, Ready
<1>2. /\ case \in Case /\ parsed \in ReadSkill(case) /\ next \in DOMAIN parsed.steps
      /\ Current = parsed.steps[next] /\ why = "nothing"
      /\ Abstract!Ready("one") /\ Abstract!Current("one") = step
      /\ ~Abstract!Unbound("one", Abstract!Current("one"))
  BY <1>1, Running
<1>3. step.kind = "read" /\ \A p \in at : step.path = p
  <2>1. step.kind = "read"
    BY <1>1, <1>2 DEF StepOf
  <2>2. ASSUME NEW p \in at PROVE step.path = p
    <3>1. (CHOOSE q \in at : TRUE) = p
      BY ReachOne
    <3> QED
      BY <1>2, <3>1 DEF StepOf
  <2> QED
    BY <2>1, <2>2
<1> HIDE DEF step
<1>4. Abstract!Held(Files) = DOMAIN shadow /\ DOMAIN Files = AllPaths
  BY <1>1, FilesHeld DEF Started, Files
<1>5. ASSUME NEW p \in at
      PROVE  Abstract!Readable("one", p) <=> p \in DOMAIN shadow \/ p \in case.base
  <2>1. p \in AllPaths
    BY <1>2, ReachKnown
  <2>2. Files[p] # Absent <=> p \in DOMAIN shadow
    BY <1>4, <2>1 DEF Abstract!Held
  <2>3. Base(case)[p] # Absent <=> p \in case.base
    BY <2>1, AdmissionAssumption DEF Base
  <2> QED
    BY <2>2, <2>3 DEF Abstract!Readable
<1>6. CASE \E reason \in {"path", "disk"} : Abort(reason)
  BY <1>1, <1>6, MapsAbort
<1>7. CASE \E p \in at : Found(p) /\ Advance /\ UNCHANGED shadow
  <2>1. PICK p \in at : Found(p) /\ Advance /\ UNCHANGED shadow
    BY <1>7
  <2>2. Abstract!Readable("one", p)
    BY <1>5, <2>1 DEF Found
  <2>3. next' = next + 1 /\ UNCHANGED <<phase, manifest, why>>
    BY <2>1 DEF Advance
  <2>4. Files' = Files
    BY <1>1, <2>1, FilesKept
  <2>5. Abstract!ReadStep("one")
    BY <1>1, <1>2, <1>3, <2>1, <2>2, <2>3, <2>4
       DEF Abstract!ReadStep, Abstract!Advance, Abstract!procVars
  <2> QED
    BY <2>5 DEF Abstract!Next, Abstract!Progress
<1>8. CASE \E p \in at : ~Found(p) /\ p \notin case.base /\ Abort("missing")
  <2>1. PICK p \in at : ~Found(p) /\ p \notin case.base /\ Abort("missing")
    BY <1>8
  <2>2. ~Abstract!Readable("one", p)
    BY <1>5, <2>1 DEF Found
  <2>3. /\ phase' = "aborted" /\ manifest' = DOMAIN shadow /\ why' = "missing"
        /\ UNCHANGED <<next, shadow>>
    BY <2>1 DEF Abort, Goto
  <2>4. Files' = Files
    BY <1>1, <2>3, FilesKept
  <2>5. Abstract!ReadStep("one")
    <3>1. Abstract!safeManifest("one", IF why \in {"roots", "path", "disk", "legacy"} THEN 1 ELSE 0)
      BY <1>2, <1>4, <2>3, <2>4, MapsEnd
    <3>2. Abstract!Abort("one", IF why \in {"roots", "path", "disk", "legacy"} THEN 1 ELSE 0)
      BY <1>1, <2>3, <3>1 DEF Abstract!Abort, Abstract!Goto
    <3> QED
      BY <1>1, <1>2, <1>3, <2>1, <2>2, <2>3, <2>4, <3>2 DEF Abstract!ReadStep, Abstract!procVars
  <2> QED
    BY <2>5 DEF Abstract!Next, Abstract!Progress
<1> QED
  BY <1>6, <1>7, <1>8 DEF handleReadFile

\* What is written is named after the first step that writes it.
LEMMA FilesWritten ==
  ASSUME NEW t, NEW p \in AllPaths, NEW i \in DOMAIN parsed.steps,
         case \in Case, parsed \in ReadSkill(case), Content(case, parsed, i) = {t},
         UNCHANGED <<case, parsed>>,
         shadow' = [q \in DOMAIN shadow \cup {p} |-> IF q = p THEN t ELSE shadow[q]]
  PROVE  Files' = [Files EXCEPT ![p] = StepOf(case, parsed, i).text]
<1> DEFINE name(x) == Min({j \in DOMAIN parsed.steps : Content(case, parsed, j) = {x}})
<1>1. name(t) = StepOf(case, parsed, i).text
  BY TextIs
<1>2. Files = [q \in AllPaths |-> IF q \notin DOMAIN shadow THEN Absent ELSE name(shadow[q])]
  BY DEF Files
<1>3. Files' = [q \in AllPaths |-> IF q \notin DOMAIN shadow' THEN Absent ELSE name(shadow'[q])]
  BY DEF Files
<1> HIDE DEF name
<1>4. DOMAIN shadow' = DOMAIN shadow \cup {p} /\ shadow'[p] = t /\ \A q \in DOMAIN shadow \ {p} : shadow'[q] = shadow[q]
  OBVIOUS
<1> QED
  BY <1>1, <1>2, <1>3, <1>4

LEMMA MapsWriteFile ==
  ASSUME SessionInv, RunInv, JobInv, handleWriteFile
  PROVE  Abstract!Next
<1> DEFINE content == substituteString(Current.content, sanitized)
           at == Reach(case, Current)
           step == StepOf(case, parsed, next)
           put(t, p) == shadow' = [q \in DOMAIN shadow \cup {p} |-> IF q = p THEN t ELSE shadow[q]]
<1>1. /\ phase = "running" /\ next <= Len(parsed.steps) /\ Current.kind = "write_file"
      /\ UNCHANGED <<case, parsed, sanitized, dir, receipt, job>>
  BY DEF handleWriteFile, Ready
<1>2. /\ case \in Case /\ parsed \in ReadSkill(case) /\ sanitized \in Values(case, parsed)
      /\ next \in DOMAIN parsed.steps
      /\ Current = parsed.steps[next] /\ why = "nothing"
      /\ Abstract!Ready("one") /\ Abstract!Current("one") = step
      /\ Abstract!Unbound("one", Abstract!Current("one")) <=> ~Expandable(Current.content, DOMAIN sanitized)
  BY <1>1, Running
<1>3. step.kind = "write" /\ \A p \in at : step.path = p
  <2>1. step.kind = "write"
    BY <1>1, <1>2 DEF StepOf
  <2>2. ASSUME NEW p \in at PROVE step.path = p
    <3>1. (CHOOSE q \in at : TRUE) = p
      BY ReachOne
    <3> QED
      BY <1>2, <3>1 DEF StepOf
  <2> QED
    BY <2>1, <2>2
<1>4. Abstract!Held(Files) = DOMAIN shadow
  BY <1>1, FilesHeld DEF Started
<1>5. content = {} <=> ~Expandable(Current.content, DOMAIN sanitized)
  BY <1>1, <1>2, WrittenTextIs
<1>6. \/ content = {} /\ Abort("unbound")
      \/ content # {} /\ at = {} /\ Abort("path")
      \/ \E t \in content, p \in at : put(t, p) /\ Advance
      \/ content # {} /\ Abort("disk")
  BY DEF handleWriteFile
<1>7. Content(case, parsed, next) = content
  BY <1>2, ContentIs
<1> HIDE DEF step, content
<1>8. CASE content = {} /\ Abort("unbound")
  <2>1. Abstract!Unbound("one", Abstract!Current("one"))
    BY <1>2, <1>5, <1>8
  <2>2. /\ phase' = "aborted" /\ manifest' = DOMAIN shadow /\ why' = "unbound"
        /\ UNCHANGED <<next, shadow>>
    BY <1>8 DEF Abort, Goto
  <2>3. Files' = Files
    BY <1>1, <2>2, FilesKept
  <2>4. Abstract!safeManifest("one", IF why \in {"roots", "path", "disk", "legacy"} THEN 1 ELSE 0)
    BY <1>2, <1>4, <2>2, <2>3, MapsEnd
  <2>5. Abstract!Abort("one", IF why \in {"roots", "path", "disk", "legacy"} THEN 1 ELSE 0)
    BY <1>1, <2>2, <2>4 DEF Abstract!Abort, Abstract!Goto
  <2>6. Abstract!SubstituteStep("one")
    BY <1>1, <1>2, <2>1, <2>2, <2>3, <2>5 DEF Abstract!SubstituteStep, Abstract!procVars
  <2> QED
    BY <2>6 DEF Abstract!Next, Abstract!Progress
<1>9. CASE content # {} /\ \E reason \in {"path", "disk"} : Abort(reason)
  BY <1>1, <1>5, <1>9, MapsAbort
<1>10. CASE \E t \in content, p \in at : put(t, p) /\ Advance
  <2>1. PICK t \in content, p \in at : put(t, p) /\ Advance
    BY <1>10
  <2>2. content = {t}
    BY <1>1, <1>2, <2>1, WrittenTextIs DEF content
  <2>3. p \in AllPaths
    BY <1>2, ReachKnown
  <2>4. Files' = [Files EXCEPT ![p] = step.text]
    <3>1. shadow' = [q \in DOMAIN shadow \cup {p} |-> IF q = p THEN t ELSE shadow[q]]
      BY <2>1
    <3>2. Content(case, parsed, next) = {t}
      BY <1>7, <2>2
    <3>3. case' = case /\ parsed' = parsed
      BY <1>1
    <3> HIDE DEF put
    <3> QED
      BY <1>2, <2>3, <3>1, <3>2, <3>3, FilesWritten, Zenon DEF step
  <2>5. next' = next + 1 /\ UNCHANGED <<phase, manifest, why>>
    BY <2>1 DEF Advance
  <2>6. ~Abstract!Unbound("one", Abstract!Current("one"))
    BY <1>2, <1>5, <2>1
  <2>7. [s \in {"one"} |-> Files']
          = [[s \in {"one"} |-> Files] EXCEPT !["one"][Abstract!Current("one").path] = Abstract!Current("one").text]
    BY <1>2, <1>3, <2>1, <2>4
  <2>8. Abstract!WriteStep("one")
    BY <1>1, <1>2, <1>3, <2>5, <2>6, <2>7
       DEF Abstract!WriteStep, Abstract!Advance, Abstract!procVars
  <2> QED
    BY <2>8 DEF Abstract!Next, Abstract!Progress
<1> QED
  BY <1>6, <1>8, <1>9, <1>10

LEMMA MapsNext == SessionInv /\ RunInv /\ JobInv /\ [Next]_vars => [Abstract!Next]_(Abstract!vars)
<1> SUFFICES ASSUME SessionInv, RunInv, JobInv, [Next]_vars
             PROVE  [Abstract!Next]_(Abstract!vars)
  OBVIOUS
<1>1. CASE UNCHANGED vars
  <2>1. UNCHANGED <<case, phase, parsed, sanitized, dir, receipt, next, shadow, manifest, why, job>>
    BY <1>1 DEF vars
  <2>2. Files' = Files
    BY <2>1, FilesKept
  <2> QED
    BY <2>1, <2>2 DEF Abstract!vars, Abstract!sessVars, Abstract!procVars
<1> QED
  BY <1>1, MapsRead, MapsStart, MapsValidate, MapsSanitize, MapsProvision, MapsRefuseRoots,
     MapsWriteReceipt, MapsGate, MapsReadFile, MapsWriteFile, MapsRefuseLegacy, MapsFinish DEF Next

\* A session with real texts, paths and signatures takes the steps of Gateway's
\* sessions, whatever refuses it and at whatever point (CompileAndSetup,
\* Execute).
THEOREM SessionsAreGateways == Spec => ImplementsGateway
<1>1. Spec => [](SessionInv /\ RunInv /\ JobInv)
  BY SessionInit, SessionNext, RunInit, RunNext, JobInit, JobNext, PTL DEF Spec
<1> QED
  BY <1>1, MapsInit, MapsNext, PTL DEF Spec, ImplementsGateway, Abstract!Spec

-----------------------------------------------------------------------------
(* What a markdown skill says.  Its document is sections of lines; what     *)
(* counts is how many written lines there are up to one of them.           *)

\* The members of P up to i.
Rank(P, i) == Cardinality({j \in P : j <= i})

\* Moving positions keeps their number.
LEMMA Moved ==
  ASSUME NEW h \in Nat, NEW P \in SUBSET Nat, IsFiniteSet(P)
  PROVE  /\ IsFiniteSet({h + i : i \in P})
         /\ Cardinality({h + i : i \in P}) = Cardinality(P)
<1> DEFINE Q == {h + i : i \in P}
           f == [i \in P |-> h + i]
<1>1. f \in [P -> Q] /\ (\A q \in Q : \E i \in P : f[i] = q) /\ \A i \in P : f[i] = h + i
  OBVIOUS
<1> HIDE DEF Q, f
<1>2. \A i, j \in P : f[i] = f[j] => i = j
  BY <1>1
<1>3. f \in Bijection(P, Q)
  BY <1>1, <1>2 DEF Bijection, Injection, Surjection, IsInjective
<1>4. ExistsBijection(P, Q)
  BY <1>3 DEF ExistsBijection
<1>5. IsFiniteSet(Q) /\ Cardinality(Q) = Cardinality(P)
  BY <1>4, FS_Bijection
<1> QED
  BY <1>5 DEF Q

LEMMA MovedRank ==
  ASSUME NEW h \in Nat, NEW P \in SUBSET Nat, IsFiniteSet(P), NEW i \in Nat
  PROVE  Rank({h + j : j \in P}, h + i) = Rank(P, i)
<1> DEFINE B == {j \in P : j <= i}
<1>1. {k \in {h + j : j \in P} : k <= h + i} = {h + j : j \in B}
  OBVIOUS
<1>2. B \in SUBSET Nat /\ IsFiniteSet(B)
  BY FS_Subset
<1> HIDE DEF B
<1>3. Cardinality({h + j : j \in B}) = Cardinality(B)
  BY <1>2, Moved
<1> QED
  BY <1>1, <1>3, Zenon DEF Rank, B

\* The positions of x that are written, and where they land.
Filled(x) == {i \in DOMAIN x : ~Is(x[i], "blank")}

\* What is written of x are its filled positions in their order.
Keeps(w, x) ==
  /\ Len(w) = Cardinality(Filled(x))
  /\ \A i \in Filled(x) : Rank(Filled(x), i) \in 1..Len(w) /\ w[Rank(Filled(x), i)] = x[i]
  /\ \A k \in 1..Len(w) : \E i \in Filled(x) : Rank(Filled(x), i) = k

LEMMA FilledIs ==
  ASSUME NEW L, NEW x \in Seq(L)
  PROVE  /\ Filled(x) \subseteq 1..Len(x) /\ Len(x) \in Nat
         /\ IsFiniteSet(Filled(x)) /\ Cardinality(Filled(x)) \in Nat
         /\ \A i \in Nat : Rank(Filled(x), i) \in Nat
         /\ Rank(Filled(x), 0) = 0
         /\ Rank(Filled(x), Len(x)) = Cardinality(Filled(x))
         /\ \A i \in 1..Len(x) :
              /\ i \in Filled(x) => Rank(Filled(x), i) = Rank(Filled(x), i - 1) + 1
              /\ i \notin Filled(x) => Rank(Filled(x), i) = Rank(Filled(x), i - 1)
<1> DEFINE P == Filled(x)
           B(i) == {j \in P : j <= i}
<1>1. Len(x) \in Nat /\ DOMAIN x = 1..Len(x)
  OBVIOUS
<1>2. P \subseteq 1..Len(x)
  BY <1>1 DEF Filled
<1> HIDE DEF P
<1>3. IsFiniteSet(P)
  <2>1. IsFiniteSet(1..Len(x))
    BY <1>1, FS_Interval
  <2> QED
    BY <1>2, <2>1, FS_Subset
<1>4. \A i \in Nat : IsFiniteSet(B(i)) /\ Cardinality(B(i)) \in Nat /\ Rank(P, i) = Cardinality(B(i))
  <2> SUFFICES ASSUME NEW i \in Nat
               PROVE  /\ IsFiniteSet(B(i)) /\ Cardinality(B(i)) \in Nat
                      /\ Rank(P, i) = Cardinality(B(i))
    OBVIOUS
  <2>1. B(i) \in SUBSET P
    OBVIOUS
  <2>2. Rank(P, i) = Cardinality(B(i))
    BY DEF Rank
  <2> HIDE DEF B
  <2>3. IsFiniteSet(B(i))
    BY <1>3, <2>1, FS_Subset
  <2> QED
    BY <2>2, <2>3, FS_CardinalityType
<1>5. B(0) = {} /\ B(Len(x)) = P
  <2>1. \A j \in P : j \in Nat /\ ~(j <= 0) /\ j <= Len(x)
    BY <1>1, <1>2
  <2> QED
    BY <2>1
<1>6. Rank(P, 0) = 0 /\ Rank(P, Len(x)) = Cardinality(P)
  <2>1. 0 \in Nat /\ Len(x) \in Nat
    BY <1>1
  <2>2. Rank(P, 0) = Cardinality({}) /\ Rank(P, Len(x)) = Cardinality(P)
    BY <1>4, <1>5, <2>1
  <2> QED
    BY <2>2, FS_EmptySet
<1>7. ASSUME NEW i \in 1..Len(x)
      PROVE  /\ i \in P => Rank(P, i) = Rank(P, i - 1) + 1
             /\ i \notin P => Rank(P, i) = Rank(P, i - 1)
  <2>1. PICK k \in Nat : k = i - 1
    BY <1>1
  <2>2. i \in Nat /\ i = k + 1
    BY <1>1, <2>1
  <2>3. i \notin B(k)
    BY <2>2
  <2>4. \A j \in P : j \in Nat /\ (j <= i <=> j <= k \/ j = i)
    BY <1>1, <1>2, <2>2
  <2>5. i \in P => B(i) = B(k) \cup {i}
    BY <2>2, <2>4
  <2>6. i \notin P => B(i) = B(k)
    BY <2>4
  <2>7. /\ Rank(P, i) = Cardinality(B(i)) /\ Rank(P, k) = Cardinality(B(k))
        /\ IsFiniteSet(B(k))
    BY <1>4, <2>2
  <2> HIDE DEF B
  <2>8. Cardinality(B(k) \cup {i}) = Cardinality(B(k)) + 1
    BY <2>3, <2>7, FS_AddElement
  <2> QED
    BY <2>1, <2>5, <2>6, <2>7, <2>8
<1>8. Cardinality(P) \in Nat
  BY <1>3, FS_CardinalityType
<1>9. \A i \in Nat : Rank(P, i) \in Nat
  BY <1>4
<1> QED
  BY <1>1, <1>2, <1>3, <1>6, <1>7, <1>8, <1>9 DEF P

LEMMA WrittenAt ==
  ASSUME NEW L, NEW x \in Seq(L)
  PROVE  Keeps(Written(x), x)
<1> DEFINE Op(l) == IF Is(l, "blank") THEN <<>> ELSE <<l>>
           A == [i \in DOMAIN x |-> Op(x[i])]
           P == Filled(x)
           n == Len(x)
           w == Written(x)
<1>1. w = FlattenSeq(A)
  BY DEF Written, Concat
<1>2. n \in Nat /\ DOMAIN x = 1..n /\ \A i \in 1..n : x[i] \in L
  OBVIOUS
<1>3. \A i \in 1..n : A[i] = IF i \in P THEN <<x[i]>> ELSE <<>>
  BY <1>2, Zenon DEF Filled
<1>4. A \in Seq(Seq(L)) /\ Len(A) = n
  <2>1. \A i \in 1..n : <<x[i]>> \in Seq(L) /\ <<>> \in Seq(L)
    BY <1>2
  <2>2. \A i \in 1..n : A[i] \in Seq(L)
    BY <1>3, <2>1
  <2>3. A = [i \in 1..n |-> A[i]]
    BY <1>2
  <2> HIDE DEF A
  <2> QED
    BY <1>2, <2>2, <2>3
<1> HIDE DEF A
<1>5. PICK f : Sums(L, A, f)
  BY <1>4, SumsExist
<1>6. /\ f \in [0..n -> Seq(L)] /\ f[0] = <<>> /\ w = f[n]
      /\ \A i \in 1..n : f[i] = f[i - 1] \o A[i]
      /\ \A i \in 0..n : Starts(f[i], w)
  BY <1>1, <1>4, <1>5 DEF Sums
<1> HIDE DEF P, n, w
<1>7. /\ P \subseteq 1..n /\ IsFiniteSet(P) /\ Cardinality(P) \in Nat
      /\ \A i \in Nat : Rank(P, i) \in Nat
      /\ Rank(P, 0) = 0 /\ Rank(P, n) = Cardinality(P)
      /\ \A i \in 1..n : /\ i \in P => Rank(P, i) = Rank(P, i - 1) + 1
                         /\ i \notin P => Rank(P, i) = Rank(P, i - 1)
  BY FilledIs DEF P, n
<1>8. \A i \in 1..n : i \in 0..n /\ i - 1 \in 0..n /\ i \in Nat /\ i - 1 \in Nat
  BY <1>2
<1>9. ASSUME NEW i \in 1..n
      PROVE  /\ i \in P => Len(f[i]) = Len(f[i - 1]) + 1 /\ f[i][Len(f[i])] = x[i]
             /\ i \notin P => Len(f[i]) = Len(f[i - 1])
  <2>1. PICK g \in Seq(L) : g = f[i - 1]
    BY <1>6, <1>8
  <2>2. CASE i \in P
    <3>1. f[i] = g \o <<x[i]>>
      BY <1>3, <1>6, <2>1, <2>2
    <3>2. Len(g \o <<x[i]>>) = Len(g) + 1 /\ (g \o <<x[i]>>)[Len(g) + 1] = x[i]
      BY <1>2
    <3> QED
      BY <2>1, <2>2, <3>1, <3>2
  <2>3. CASE i \notin P
    <3>1. f[i] = g \o <<>>
      BY <1>3, <1>6, <2>1, <2>3
    <3>2. g \o <<>> = g /\ Len(g) \in Nat
      BY ConcatEmptySeq
    <3> QED
      BY <2>1, <2>3, <3>1, <3>2
  <2> QED
    BY <2>2, <2>3
<1>10. \A i \in 0..n : Len(f[i]) = Rank(P, i)
  <2> DEFINE S == {i \in 0..n : Len(f[i]) = Rank(P, i)}
  <2>1. 0 \in S
    BY <1>2, <1>6, <1>7
  <2>2. ASSUME NEW i \in 1..n, i - 1 \in S PROVE i \in S
    <3>1. Len(f[i - 1]) = Rank(P, i - 1)
      BY <2>2
    <3>2. Len(f[i]) = Rank(P, i)
      BY <1>7, <1>9, <3>1
    <3> QED
      BY <1>8, <3>2
  <2> HIDE DEF S
  <2>3. \A i \in 0..n : i \in S
    BY <1>2, <2>1, <2>2, Upward
  <2> QED
    BY <2>3 DEF S
<1>11. Len(w) = Cardinality(P)
  <2>1. n \in 0..n
    BY <1>2
  <2> QED
    BY <1>6, <1>7, <1>10, <2>1
<1>12. ASSUME NEW i \in P
       PROVE  Rank(P, i) \in 1..Len(w) /\ w[Rank(P, i)] = x[i]
  <2>1. i \in 1..n
    BY <1>7
  <2>2. Len(f[i]) = Rank(P, i) /\ f[i][Rank(P, i)] = x[i]
    BY <1>8, <1>9, <1>10, <1>12, <2>1
  <2>4. Rank(P, i) \in Nat \ {0}
    <3>1. Rank(P, i) \in Nat /\ Rank(P, i - 1) \in Nat /\ Rank(P, i) = Rank(P, i - 1) + 1
      BY <1>7, <1>8, <1>12, <2>1
    <3> QED
      BY <3>1
  <2>3. Len(f[i]) <= Len(w) /\ \A k \in 1..Len(f[i]) : f[i][k] = w[k]
    BY <1>6, <1>8, <2>1 DEF Starts
  <2> QED
    <3>1. PICK r \in Nat \ {0} : r = Rank(P, i)
      BY <2>4
    <3>2. Len(f[i]) = r /\ r \in 1..r /\ f[i][r] = x[i]
      BY <2>2, <3>1
    <3>3. f[i][r] = w[r]
      BY <2>3, <3>2
    <3>4. r <= Len(w) /\ Len(w) \in Nat
      BY <1>7, <1>11, <2>3, <3>2
    <3> QED
      BY <3>1, <3>2, <3>3, <3>4
<1>13. \A k \in 1..Len(w) : \E i \in P : Rank(P, i) = k
  <2> SUFFICES ASSUME NEW k \in 1..Len(w) PROVE \E i \in P : Rank(P, i) = k
    OBVIOUS
  <2> DEFINE Far == {i \in 0..n : k <= Rank(P, i)}
  <2>1. n \in Far /\ Far \subseteq Nat
    BY <1>2, <1>7, <1>11
  <2>2. PICK i \in Far : \A j \in Far : i <= j
    <3> HIDE DEF Far
    <3> QED
      BY <2>1, Least
  <2>3. i \in 1..n
    BY <1>2, <1>7
  <2>4. ~(k <= Rank(P, i - 1))
    <3>1. i - 1 \in 0..n /\ ~(i <= i - 1)
      BY <2>3, <1>2
    <3> QED
      BY <2>2, <3>1
  <2>5. i \in P /\ Rank(P, i) = k
    <3>1. Rank(P, i) \in Nat /\ Rank(P, i - 1) \in Nat
      BY <1>7, <1>8, <2>3
    <3>2. i \notin P => Rank(P, i) = Rank(P, i - 1)
      BY <1>7, <2>3
    <3>3. i \in P => Rank(P, i) = Rank(P, i - 1) + 1
      BY <1>7, <2>3
    <3>4. k <= Rank(P, i) /\ k \in Nat
      BY <1>7, <1>11, <2>2
    <3>5. i \in P
      BY <2>4, <3>2, <3>4
    <3>6. PICK r \in Nat : r = Rank(P, i - 1)
      BY <3>1
    <3>7. Rank(P, i) = r + 1 /\ ~(k <= r)
      BY <2>4, <3>3, <3>5, <3>6
    <3> QED
      BY <3>4, <3>5, <3>7
  <2> QED
    BY <2>5
<1> QED
  BY <1>11, <1>12, <1>13 DEF Keeps, P, w

-----------------------------------------------------------------------------
(* What each parser returns of the lines that are written.                 *)

LEMMA ParamsSay ==
  ASSUME NEW L, NEW x \in Seq(L), NEW p \in parseParameters(x)
  PROVE  /\ DOMAIN p = {TrimSpace(x[i].name) : i \in Filled(x)}
         /\ Cardinality(DOMAIN p) = Cardinality(Filled(x))
<1> DEFINE decl == Written(x)
           name(i) == TrimSpace(decl[i].name)
           of(n) == decl[CHOOSE i \in DOMAIN decl : name(i) = n]
           n == Len(decl)
           P == Filled(x)
           D == DOMAIN p
<1>1. /\ D = {name(i) : i \in DOMAIN decl}
      /\ \A i \in DOMAIN decl : \A j \in 1..(i - 1) : name(j) # name(i)
  <2>1. /\ \A i \in DOMAIN decl : \A j \in 1..(i - 1) : name(j) # name(i)
        /\ p = [m \in {name(i) : i \in DOMAIN decl} |->
                  [type |-> parseParameterType[of(m).type],
                   default |-> extractDefaultValue(of(m).default),
                   required |-> of(m).required]]
    BY Zenon DEF parseParameters
  <2> HIDE DEF decl, name, of
  <2> QED
    BY <2>1
<1>2. decl \in Seq(L)
  BY WrittenIs
<1>3. n \in Nat /\ DOMAIN decl = 1..n
  BY <1>2
<1>4. Keeps(decl, x)
  BY WrittenAt
<1>5. /\ n = Cardinality(P)
      /\ \A i \in P : Rank(P, i) \in 1..n /\ decl[Rank(P, i)] = x[i]
      /\ \A k \in 1..n : \E i \in P : Rank(P, i) = k
  BY <1>4 DEF Keeps
<1>6. \A i \in P : name(Rank(P, i)) = TrimSpace(x[i].name)
  BY <1>5
<1> HIDE DEF decl, n, P, D, name
<1>7. D = {TrimSpace(x[i].name) : i \in P}
  <2>1. ASSUME NEW m \in D PROVE m \in {TrimSpace(x[i].name) : i \in P}
    <3>1. PICK k \in 1..n : m = name(k)
      BY <1>1, <1>3
    <3>2. PICK i \in P : Rank(P, i) = k
      BY <1>5
    <3> QED
      BY <1>6, <3>1, <3>2
  <2>2. ASSUME NEW i \in P PROVE TrimSpace(x[i].name) \in D
    BY <1>1, <1>3, <1>5, <1>6
  <2> QED
    BY <2>1, <2>2
<1>8. Cardinality(D) = n
  <2> DEFINE f == [i \in 1..n |-> name(i)]
  <2>1. /\ f \in [1..n -> D] /\ \A m \in D : \E i \in 1..n : f[i] = m
        /\ \A i \in 1..n : f[i] = name(i)
    BY <1>1, <1>3
  <2> HIDE DEF f
  <2>2. ASSUME NEW i \in 1..n, NEW j \in 1..n, f[i] = f[j] PROVE i = j
    <3>1. i \in Nat /\ j \in Nat /\ (i < j \/ j < i \/ i = j)
      BY <1>3
    <3>2. ~(i < j)
      <4>1. i < j => i \in 1..(j - 1)
        BY <1>3, <3>1
      <4> QED
        BY <1>1, <1>3, <2>1, <2>2, <4>1
    <3>3. ~(j < i)
      <4>1. j < i => j \in 1..(i - 1)
        BY <1>3, <3>1
      <4> QED
        BY <1>1, <1>3, <2>1, <2>2, <4>1
    <3> QED
      BY <3>1, <3>2, <3>3
  <2>3. f \in Bijection(1..n, D)
    BY <2>1, <2>2 DEF Bijection, Injection, Surjection, IsInjective
  <2>4. ExistsBijection(1..n, D)
    BY <2>3 DEF ExistsBijection
  <2>5. IsFiniteSet(1..n) /\ Cardinality(1..n) = n
    BY <1>3, FS_Interval
  <2> QED
    BY <2>4, <2>5, FS_Bijection
<1> QED
  BY <1>5, <1>7, <1>8 DEF P, D

LEMMA StepsSay ==
  ASSUME NEW L, NEW x \in Seq(L), NEW s \in parseInstructions(x)
  PROVE  /\ Len(s) = Cardinality(Filled(x))
         /\ \A i \in Filled(x) : s[Rank(Filled(x), i)].content = TrimSpace(x[i].text)
<1> DEFINE decl == Written(x)
           text(i) == TrimSpace(decl[i].text)
           step(i) == [id |-> <<"step_", ToString(i)>>, kind |-> "legacy", path |-> <<>>,
                       content |-> text(i), outputs |-> <<>>,
                       inputs |-> parseInstructionInputs(text(i))]
           P == Filled(x)
<1>1. s = [i \in DOMAIN decl |-> step(i)]
  BY Zenon DEF parseInstructions
<1>2. \A i \in DOMAIN decl : step(i).content = text(i)
  OBVIOUS
<1>3. decl \in Seq(L)
  BY WrittenIs
<1>4. DOMAIN decl = 1..Len(decl) /\ Len(decl) \in Nat
  BY <1>3
<1>5. Keeps(decl, x)
  BY WrittenAt
<1>6. /\ Len(decl) = Cardinality(P)
      /\ \A i \in P : Rank(P, i) \in 1..Len(decl) /\ decl[Rank(P, i)] = x[i]
  BY <1>5 DEF Keeps
<1>7. \A i \in P : text(Rank(P, i)) = TrimSpace(x[i].text)
  BY <1>6
<1> HIDE DEF decl, step, text, P
<1>8. Len(s) = Len(decl) /\ \A k \in 1..Len(decl) : s[k] = step(k)
  BY <1>1, <1>4
<1> QED
  BY <1>2, <1>4, <1>6, <1>7, <1>8 DEF P

LEMMA BothHold ==
  ASSUME NEW S, NEW a \in Seq(S), NEW b \in Seq(S)
  PROVE  \A v : v \in ToSet(a \o b) <=> v \in ToSet(a) \/ v \in ToSet(b)
<1> DEFINE c == a \o b
<1>1. /\ Len(a) \in Nat /\ Len(b) \in Nat /\ Len(c) = Len(a) + Len(b)
      /\ \A i \in 1..Len(a) : c[i] = a[i]
      /\ \A i \in 1..Len(b) : c[Len(a) + i] = b[i]
      /\ DOMAIN a = 1..Len(a) /\ DOMAIN b = 1..Len(b) /\ DOMAIN c = 1..Len(c)
  OBVIOUS
<1> HIDE DEF c
<1>2. \A i \in 1..Len(c) : i \in 1..Len(a) \/ \E k \in 1..Len(b) : i = Len(a) + k
  <2> SUFFICES ASSUME NEW i \in 1..Len(c), i \notin 1..Len(a)
               PROVE  \E k \in 1..Len(b) : i = Len(a) + k
    OBVIOUS
  <2>1. i - Len(a) \in 1..Len(b) /\ i = Len(a) + (i - Len(a))
    BY <1>1
  <2> QED
    BY <2>1
<1>3. ASSUME NEW v \in ToSet(c) PROVE v \in ToSet(a) \/ v \in ToSet(b)
  <2>1. PICK i \in 1..Len(c) : v = c[i]
    BY <1>1 DEF ToSet
  <2>2. CASE i \in 1..Len(a)
    BY <1>1, <2>1, <2>2 DEF ToSet
  <2>3. CASE \E k \in 1..Len(b) : i = Len(a) + k
    <3>1. PICK k \in 1..Len(b) : i = Len(a) + k
      BY <2>3
    <3> QED
      BY <1>1, <2>1, <3>1 DEF ToSet
  <2> QED
    BY <1>2, <2>2, <2>3
<1>4. ASSUME NEW v \in ToSet(a) PROVE v \in ToSet(c)
  <2>1. PICK i \in 1..Len(a) : v = a[i]
    BY <1>1 DEF ToSet
  <2>2. i \in 1..Len(c)
    BY <1>1
  <2> QED
    BY <1>1, <2>1, <2>2 DEF ToSet
<1>5. ASSUME NEW v \in ToSet(b) PROVE v \in ToSet(c)
  <2>1. PICK i \in 1..Len(b) : v = b[i]
    BY <1>1 DEF ToSet
  <2>2. Len(a) + i \in 1..Len(c)
    BY <1>1
  <2> QED
    BY <1>1, <2>1, <2>2 DEF ToSet
<1> QED
  BY <1>3, <1>4, <1>5 DEF c

\* What is written one after another holds what each piece holds.
LEMMA FlatHolds ==
  ASSUME NEW S, NEW A \in Seq(Seq(S))
  PROVE  \A v : v \in ToSet(FlattenSeq(A)) <=> \E i \in 1..Len(A) : v \in ToSet(A[i])
<1> DEFINE n == Len(A)
<1>1. n \in Nat /\ \A i \in 1..n : A[i] \in Seq(S)
  OBVIOUS
<1>2. PICK f : Sums(S, A, f)
  BY SumsExist
<1>3. /\ f \in [0..n -> Seq(S)] /\ f[0] = <<>> /\ FlattenSeq(A) = f[n]
      /\ \A i \in 1..n : f[i] = f[i - 1] \o A[i]
  BY <1>2 DEF Sums
<1> HIDE DEF n
<1> DEFINE Right(i) == \A v : v \in ToSet(f[i]) <=> \E k \in 1..i : v \in ToSet(A[k])
           R == {i \in 0..n : Right(i)}
<1>4. 0 \in R
  <2>1. ToSet(f[0]) = {} /\ 1..0 = {}
    BY <1>3, NothingHeld
  <2> QED
    BY <1>1, <2>1
<1>5. ASSUME NEW i \in 1..n, i - 1 \in R PROVE i \in R
  <2>1. PICK g \in Seq(S) : g = f[i - 1]
    BY <1>1, <1>3
  <2>2. PICK a \in Seq(S) : a = A[i]
    BY <1>1
  <2>3. f[i] = g \o a
    BY <1>3, <2>1, <2>2
  <2>4. \A v : v \in ToSet(g \o a) <=> v \in ToSet(g) \/ v \in ToSet(a)
    BY BothHold
  <2>5. \A v : v \in ToSet(g) <=> \E k \in 1..(i - 1) : v \in ToSet(A[k])
    BY <1>5, <2>1
  <2>6. \A k : k \in 1..i <=> k \in 1..(i - 1) \/ k = i
    BY <1>1
  <2>7. Right(i)
    BY <2>2, <2>3, <2>4, <2>5, <2>6
  <2> QED
    BY <1>1, <2>7
<1> HIDE DEF R
<1>6. n \in R
  <2>1. \A i \in 0..n : i \in R
    BY <1>1, <1>4, <1>5, Upward
  <2> QED
    BY <1>1, <2>1
<1> QED
  BY <1>3, <1>6 DEF R, n

LEMMA ScopesSay ==
  ASSUME NEW L, NEW decl \in Seq(L), \A i \in DOMAIN decl : decl[i].scopes \in Seq(Text), NEW name
  PROVE  /\ ScopesOf(decl, name) \in Seq(Text)
         /\ \A v : v \in ToSet(ScopesOf(decl, name)) <=>
              \E i \in DOMAIN decl : decl[i].name = name /\ v \in ToSet(decl[i].scopes)
<1> DEFINE Op(l) == IF l.name = name THEN l.scopes ELSE <<>>
           A == [i \in DOMAIN decl |-> Op(decl[i])]
<1>1. ScopesOf(decl, name) = FlattenSeq(A)
  BY DEF ScopesOf, Concat
<1>2. DOMAIN decl = 1..Len(decl) /\ Len(decl) \in Nat
  OBVIOUS
<1>3. \A i \in DOMAIN decl : /\ decl[i].name = name => A[i] = decl[i].scopes
                             /\ decl[i].name # name => A[i] = <<>>
  BY Zenon
<1>4. A = [i \in 1..Len(decl) |-> A[i]]
  BY <1>2, Zenon
<1> HIDE DEF A
<1>5. \A i \in DOMAIN decl : A[i] \in Seq(Text)
  <2>1. <<>> \in Seq(Text)
    OBVIOUS
  <2> QED
    BY <1>3, <2>1, Zenon
<1>6. A \in Seq(Seq(Text)) /\ Len(A) = Len(decl)
  BY <1>2, <1>4, <1>5
<1>7. \A v : v \in ToSet(FlattenSeq(A)) <=> \E i \in 1..Len(A) : v \in ToSet(A[i])
  BY <1>6, FlatHolds, Zenon
<1>8. \A i \in DOMAIN decl : \A v :
        v \in ToSet(A[i]) <=> decl[i].name = name /\ v \in ToSet(decl[i].scopes)
  <2>1. \A v : v \notin ToSet(<<>>)
    BY NothingHeld
  <2> QED
    BY <1>3, <2>1, Zenon
<1>9. FlattenSeq(A) \in Seq(Text)
  BY <1>6, FlatIs, Zenon
<1> QED
  BY <1>1, <1>2, <1>6, <1>7, <1>8, <1>9

Capability == [kind : {"vfs.read", "vfs.write"}, scope : Text]

LEMMA CapabilitiesSay ==
  ASSUME NEW kind \in {"vfs.read", "vfs.write"}, NEW s \in Seq(Text)
  PROVE  /\ Capabilities(kind, s) \in Seq(Capability)
         /\ \A v : v \in ToSet(Capabilities(kind, s)) <=>
              \E t \in ToSet(s) : v = [kind |-> kind, scope |-> TrimSpace(t)]
<1> DEFINE c == Capabilities(kind, s)
           one(t) == [kind |-> kind, scope |-> TrimSpace(t)]
<1>1. DOMAIN s = 1..Len(s) /\ Len(s) \in Nat /\ \A i \in DOMAIN s : s[i] \in Text
  OBVIOUS
<1>2. c = [i \in 1..Len(s) |-> one(s[i])]
  BY <1>1, Zenon DEF Capabilities
<1>3. \A i \in 1..Len(s) : TrimSpace(s[i]) \in Text
  BY <1>1, TrimIs DEF Text
<1>4. \A i \in 1..Len(s) : one(s[i]) \in Capability
  BY <1>3 DEF Capability
<1> HIDE DEF c, one
<1>5. c \in Seq(Capability) /\ DOMAIN c = 1..Len(s) /\ \A i \in 1..Len(s) : c[i] = one(s[i])
  BY <1>1, <1>2, <1>4
<1>6. \A v : v \in ToSet(c) <=> \E t \in ToSet(s) : v = one(t)
  BY <1>1, <1>5 DEF ToSet
<1> QED
  BY <1>5, <1>6 DEF c, one

\* What a line grants.
KindOf(line) == IF line.name = "fs.read" THEN "vfs.read" ELSE "vfs.write"
Grants(v, line) ==
  \E s \in ToSet(line.scopes) : v = [kind |-> KindOf(line), scope |-> TrimSpace(s)]

LEMMA PermissionsSay ==
  ASSUME NEW L, \A l \in L : LineType(l), NEW x \in Seq(L), NEW c \in parsePermissions(x)
  PROVE  \A v : v \in ToSet(c) <=> \E i \in Filled(x) : Grants(v, x[i])
<1> DEFINE decl == Written(x)
           P == Filled(x)
           reads == ScopesOf(decl, "fs.read")
           writes == ScopesOf(decl, "fs.write")
<1>1. /\ \A i \in DOMAIN decl : Is(decl[i], "perm") /\ decl[i].name \in {"fs.read", "fs.write"}
      /\ c = Capabilities("vfs.read", reads) \o Capabilities("vfs.write", writes)
  BY Zenon DEF parsePermissions
<1>2. decl \in Seq(L)
  BY WrittenIs
<1>3. DOMAIN decl = 1..Len(decl) /\ \A i \in DOMAIN decl : decl[i] \in L
  BY <1>2
<1>4. Keeps(decl, x)
  BY WrittenAt
<1>5. /\ \A i \in P : Rank(P, i) \in DOMAIN decl /\ decl[Rank(P, i)] = x[i]
      /\ \A k \in DOMAIN decl : \E i \in P : Rank(P, i) = k
  BY <1>3, <1>4 DEF Keeps
<1>6. \A i \in DOMAIN decl : decl[i].scopes \in Seq(Text)
  BY <1>1, <1>3, Zenon DEF LineType, Is
<1> HIDE DEF decl, P
<1>7. /\ reads \in Seq(Text)
      /\ \A v : v \in ToSet(reads) <=>
           \E i \in DOMAIN decl : decl[i].name = "fs.read" /\ v \in ToSet(decl[i].scopes)
  BY <1>2, <1>6, ScopesSay
<1>8. /\ writes \in Seq(Text)
      /\ \A v : v \in ToSet(writes) <=>
           \E i \in DOMAIN decl : decl[i].name = "fs.write" /\ v \in ToSet(decl[i].scopes)
  BY <1>2, <1>6, ScopesSay
<1> HIDE DEF reads, writes
<1>9. /\ Capabilities("vfs.read", reads) \in Seq(Capability)
      /\ \A v : v \in ToSet(Capabilities("vfs.read", reads)) <=>
           \E t \in ToSet(reads) : v = [kind |-> "vfs.read", scope |-> TrimSpace(t)]
  BY <1>7, CapabilitiesSay
<1>10. /\ Capabilities("vfs.write", writes) \in Seq(Capability)
       /\ \A v : v \in ToSet(Capabilities("vfs.write", writes)) <=>
            \E t \in ToSet(writes) : v = [kind |-> "vfs.write", scope |-> TrimSpace(t)]
  BY <1>8, CapabilitiesSay
<1>11. \A v : v \in ToSet(c) <=> \/ v \in ToSet(Capabilities("vfs.read", reads))
                                 \/ v \in ToSet(Capabilities("vfs.write", writes))
  BY <1>1, <1>9, <1>10, BothHold
<1>12. \A i \in DOMAIN decl : /\ decl[i].name = "fs.read" <=> KindOf(decl[i]) = "vfs.read"
                              /\ decl[i].name = "fs.write" <=> KindOf(decl[i]) = "vfs.write"
  BY <1>1 DEF KindOf
<1>13. \A v : v \in ToSet(c) <=> \E i \in DOMAIN decl : Grants(v, decl[i])
  <2> SUFFICES ASSUME NEW v
               PROVE  v \in ToSet(c) <=> \E i \in DOMAIN decl : Grants(v, decl[i])
    OBVIOUS
  <2>1. ASSUME v \in ToSet(c) PROVE \E i \in DOMAIN decl : Grants(v, decl[i])
    <3>1. CASE v \in ToSet(Capabilities("vfs.read", reads))
      <4>1. PICK t \in ToSet(reads) : v = [kind |-> "vfs.read", scope |-> TrimSpace(t)]
        BY <1>9, <3>1
      <4>2. PICK i \in DOMAIN decl : decl[i].name = "fs.read" /\ t \in ToSet(decl[i].scopes)
        BY <1>7
      <4>3. KindOf(decl[i]) = "vfs.read"
        BY <1>12, <4>2
      <4> QED
        BY <4>1, <4>2, <4>3 DEF Grants
    <3>2. CASE v \in ToSet(Capabilities("vfs.write", writes))
      <4>1. PICK t \in ToSet(writes) : v = [kind |-> "vfs.write", scope |-> TrimSpace(t)]
        BY <1>10, <3>2
      <4>2. PICK i \in DOMAIN decl : decl[i].name = "fs.write" /\ t \in ToSet(decl[i].scopes)
        BY <1>8
      <4>3. KindOf(decl[i]) = "vfs.write"
        BY <1>12, <4>2
      <4> QED
        BY <4>1, <4>2, <4>3 DEF Grants
    <3> QED
      BY <1>11, <2>1, <3>1, <3>2
  <2>2. ASSUME NEW i \in DOMAIN decl, Grants(v, decl[i]) PROVE v \in ToSet(c)
    <3>1. PICK t \in ToSet(decl[i].scopes) : v = [kind |-> KindOf(decl[i]), scope |-> TrimSpace(t)]
      BY <2>2 DEF Grants
    <3>2. CASE decl[i].name = "fs.read"
      <4>1. t \in ToSet(reads) /\ KindOf(decl[i]) = "vfs.read"
        BY <1>7, <1>12, <3>2
      <4> QED
        BY <1>9, <1>11, <3>1, <4>1
    <3>3. CASE decl[i].name = "fs.write"
      <4>1. t \in ToSet(writes) /\ KindOf(decl[i]) = "vfs.write"
        BY <1>8, <1>12, <3>3
      <4> QED
        BY <1>10, <1>11, <3>1, <4>1
    <3> QED
      BY <1>1, <3>2, <3>3
  <2> QED
    BY <2>1, <2>2
<1>14. ASSUME NEW v
       PROVE  (\E i \in DOMAIN decl : Grants(v, decl[i])) <=> \E i \in P : Grants(v, x[i])
  BY <1>5, Zenon
<1> QED
  BY <1>13, <1>14 DEF P

-----------------------------------------------------------------------------
(* Where a section is.                                                     *)

\* x are the lines from behind line h, and those of them that are written are
\* what stands under the title.
Stands(x, lines, title, h) ==
  /\ \A i \in DOMAIN x : x[i] = lines[h + i]
  /\ Under(lines, title) = {h + i : i \in Filled(x)}

LEMMA UnderIs ==
  ASSUME NEW L, NEW lines \in Seq(L), NEW end \in extractFrontmatter(lines), NEW title,
         NEW x \in extractSection(lines, title, end)
  PROVE  x \in Seq(L) /\ \E h \in Nat : Stands(x, lines, title, h)
<1> DEFINE n == Len(lines)
           fences == {i \in 2..n : Is(lines[i], "fence")}
           heads == {i \in DOMAIN lines : Is(lines[i], "head")}
           named == {i \in end..n : Is(lines[i], "head") /\ lines[i].title = title}
           stop(h) == {i \in (h + 1)..n : Is(lines[i], "head")} \cup {n + 1}
<1>1. n \in Nat /\ DOMAIN lines = 1..n
  OBVIOUS
<1>2. end \in 2..n /\ Is(lines[end], "fence") /\ Min(extractFrontmatter(lines)) = end
  <2>1. extractFrontmatter(lines) = First(fences) /\ end \in First(fences)
    BY DEF extractFrontmatter
  <2>2. fences \subseteq 2..n /\ fences \subseteq Nat
    BY <1>1
  <2>3. \A i \in fences : Is(lines[i], "fence")
    OBVIOUS
  <2> HIDE DEF fences, n
  <2>4. end \in fences
    BY <2>1, <2>2, FirstIs
  <2>5. First(fences) = {end}
    BY <2>1 DEF First
  <2>6. Min({end}) = end
    <3>1. {end} \subseteq Nat /\ {end} # {}
      BY <2>2, <2>4
    <3> QED
      BY <3>1, MinIs
  <2> QED
    BY <2>1, <2>2, <2>3, <2>4, <2>5, <2>6
<1>3. \A i \in heads : i # end
  BY <1>2 DEF Is
<1>4. named = {h \in heads : lines[h].title = title /\ h > Min(extractFrontmatter(lines))}
  <2>1. \A i \in Nat : i \in end..n /\ i # end <=> i \in 1..n /\ i > end
    BY <1>1, <1>2
  <2>2. ASSUME NEW i \in named
        PROVE  i \in heads /\ lines[i].title = title /\ i > end
    <3>1. i \in Nat /\ i \in 1..n
      BY <1>1, <1>2
    <3>2. i \in heads
      BY <1>1, <3>1
    <3> QED
      BY <1>3, <2>1, <3>1, <3>2
  <2>3. ASSUME NEW i \in heads, lines[i].title = title, i > end
        PROVE  i \in named
    BY <1>1, <1>2, <2>3
  <2> QED
    BY <1>2, <2>2, <2>3
<1>5. PICK h \in First(named) : x = SubSeq(lines, h + 1, Min(stop(h)) - 1)
  BY DEF extractSection
<1>6. h \in 1..n /\ h = Min(named)
  <2>1. named \subseteq Nat /\ named \subseteq 1..n
    BY <1>1, <1>2
  <2>2. h = Min(named)
    BY DEF First
  <2>3. h \in named
    <3> HIDE DEF named
    <3> QED
      BY <2>1, FirstIs
  <2> QED
    BY <2>1, <2>2, <2>3
<1> HIDE DEF n, named
<1>0. h \in Nat /\ h <= n /\ n \in Nat
  BY <1>1, <1>6
<1>7. stop(h) \subseteq (h + 1)..(n + 1) /\ stop(h) # {}
  BY <1>0
<1>8. PICK m \in (h + 1)..(n + 1) : m = Min(stop(h)) /\ m \in stop(h) /\ \A i \in stop(h) : m <= i
  <2>1. stop(h) \subseteq Nat
    BY <1>0, <1>7
  <2> HIDE DEF stop
  <2> QED
    BY <1>7, <2>1, MinIs
<1>9. /\ \A i \in (h + 1)..n : Is(lines[i], "head") => m <= i
      /\ m = n + 1 \/ (m \in heads /\ m \in (h + 1)..n)
  <2>1. \A i \in (h + 1)..n : Is(lines[i], "head") => i \in stop(h)
    OBVIOUS
  <2>2. \A i \in stop(h) : i = n + 1 \/ (i \in (h + 1)..n /\ Is(lines[i], "head"))
    OBVIOUS
  <2>3. \A i \in (h + 1)..n : i \in DOMAIN lines
    BY <1>0, <1>1
  <2> HIDE DEF stop
  <2> QED
    BY <1>8, <2>1, <2>2, <2>3
<1> HIDE DEF stop
<1>10. PICK k \in Nat : m = h + 1 + k
  <2>1. m - (h + 1) \in Nat /\ m = h + 1 + (m - (h + 1))
    BY <1>1, <1>6
  <2> QED
    BY <2>1
<1>11. x \in Seq(L) /\ Len(x) = k /\ \A i \in 1..k : x[i] = lines[h + i]
  <2>1. h + k \in Nat /\ h + k <= n /\ h + 1 \in Nat \ {0}
    BY <1>1, <1>6, <1>8, <1>10
  <2>2. x = SubSeq(lines, h + 1, h + k)
    <3>1. m - 1 = h + k
      BY <1>0, <1>10
    <3> QED
      BY <1>5, <1>8, <3>1
  <2>3. x \in Seq(L)
    BY <2>1, <2>2, StretchIs DEF n
  <2>4. Len(x) = k
    <3>1. Len(x) = (h + k) - (h + 1) + 1
      BY <1>0, <2>1, <2>2 DEF n
    <3> QED
      BY <1>0, <3>1
  <2>5. \A i \in 1..k : x[i] = lines[h + i]
    <3> SUFFICES ASSUME NEW i \in 1..k PROVE x[i] = lines[h + i]
      OBVIOUS
    <3>1. i \in 1..((h + k) - (h + 1) + 1) /\ (h + 1) + i - 1 = h + i
      BY <1>0
    <3>2. x[i] = lines[(h + 1) + i - 1]
      BY <2>1, <2>2, <3>1, SubSeqProperties DEF n
    <3> QED
      BY <3>1, <3>2
  <2> QED
    BY <2>3, <2>4, <2>5
<1>12. DOMAIN x = 1..k
  BY <1>11
<1> DEFINE under == {i \in (h + 1)..n : heads \cap (h + 1)..i = {} /\ ~Is(lines[i], "blank")}
<1>13. Under(lines, title) = under
  BY <1>4, <1>6, Zenon DEF Under, n
<1>14. \A i \in (h + 1)..n : heads \cap (h + 1)..i = {} <=> i < m
  <2>1. ASSUME NEW i \in (h + 1)..n, i < m
        PROVE  heads \cap (h + 1)..i = {}
    <3> SUFFICES ASSUME NEW j \in heads, j \in (h + 1)..i PROVE FALSE
      OBVIOUS
    <3>1. j \in (h + 1)..n /\ j < m
      BY <1>1, <1>6, <2>1
    <3>2. Is(lines[j], "head")
      OBVIOUS
    <3> QED
      BY <1>1, <1>6, <1>9, <3>1, <3>2
  <2>2. ASSUME NEW i \in (h + 1)..n, ~(i < m)
        PROVE  heads \cap (h + 1)..i # {}
    <3>1. m \in (h + 1)..i /\ m # n + 1
      BY <1>1, <1>6, <2>2
    <3> QED
      BY <1>9, <3>1
  <2> QED
    BY <2>1, <2>2
<1>15. \A i \in 1..k : i \in Filled(x) <=> ~Is(lines[h + i], "blank")
  BY <1>11, <1>12 DEF Filled
<1>16. Filled(x) \subseteq 1..k
  BY <1>12 DEF Filled
<1>17. under = {h + i : i \in Filled(x)}
  <2> HIDE DEF heads
  <2>1. ASSUME NEW j \in under PROVE j \in {h + i : i \in Filled(x)}
    <3>1. j \in (h + 1)..n /\ j < m /\ ~Is(lines[j], "blank")
      BY <1>14
    <3>2. PICK i \in 1..k : j = h + i
      <4>1. j - h \in 1..k /\ j = h + (j - h)
        BY <1>1, <1>6, <1>10, <3>1
      <4> QED
        BY <4>1
    <3> QED
      BY <1>15, <3>1, <3>2
  <2>2. ASSUME NEW i \in Filled(x) PROVE h + i \in under
    <3>1. i \in 1..k /\ ~Is(lines[h + i], "blank")
      BY <1>15, <1>16
    <3>2. h + i \in (h + 1)..n /\ h + i < m
      BY <1>1, <1>6, <1>8, <1>10, <3>1
    <3> QED
      BY <1>14, <3>1, <3>2
  <2> QED
    BY <2>1, <2>2
<1>18. Stands(x, lines, title, h)
  <2>1. Under(lines, title) = {h + i : i \in Filled(x)}
    BY <1>13, <1>17
  <2> QED
    BY <1>11, <1>12, <2>1, Zenon DEF Stands
<1> QED
  BY <1>0, <1>11, <1>18

\* Positions under a title are as many as the filled ones of the section.
LEMMA CountedIs ==
  ASSUME NEW L, NEW x \in Seq(L), NEW lines, NEW title, NEW h \in Nat, Stands(x, lines, title, h)
  PROVE  /\ Cardinality(Under(lines, title)) = Cardinality(Filled(x))
         /\ \A i \in Filled(x) : Rank(Under(lines, title), h + i) = Rank(Filled(x), i)
<1> DEFINE P == Filled(x)
           U == Under(lines, title)
<1>1. U = {h + i : i \in P}
  BY DEF Stands
<1>2. P \in SUBSET Nat /\ IsFiniteSet(P)
  <2>1. P \subseteq 1..Len(x) /\ Len(x) \in Nat /\ IsFiniteSet(P)
    BY FilledIs
  <2> QED
    BY <2>1
<1> HIDE DEF P, U
<1>3. Cardinality(U) = Cardinality(P)
  BY <1>1, <1>2, Moved
<1>4. ASSUME NEW i \in P PROVE Rank(U, h + i) = Rank(P, i)
  <2>1. i \in Nat
    BY <1>2
  <2> QED
    BY <1>1, <1>2, <2>1, MovedRank
<1> QED
  BY <1>3, <1>4 DEF P, U

SaysParams(lines, U, k) ==
  /\ DOMAIN k.params = {TrimSpace(lines[i].name) : i \in U}
  /\ Cardinality(DOMAIN k.params) = Cardinality(U)

SaysSteps(lines, U, k) ==
  /\ Len(k.steps) = Cardinality(U)
  /\ \A i \in U : k.steps[Rank(U, i)].content = TrimSpace(lines[i].text)

SaysCaps(lines, U, k) == \A v : v \in ToSet(k.caps) <=> \E i \in U : Grants(v, lines[i])

LEMMA SaysIs ==
  ASSUME NEW lines, NEW k,
         SaysParams(lines, Under(lines, "Parameters"), k),
         SaysSteps(lines, Under(lines, "Instructions"), k),
         SaysCaps(lines, Under(lines, "Permissions"), k)
  PROVE  Says(lines, k)
<1> DEFINE perms == Under(lines, "Permissions")
           instrs == Under(lines, "Instructions")
           kind(i) == IF lines[i].name = "fs.read" THEN "vfs.read" ELSE "vfs.write"
           all == UNION {{[kind |-> kind(i), scope |-> TrimSpace(s)] : s \in ToSet(lines[i].scopes)} :
                           i \in perms}
<1>1. ToSet(k.caps) = all
  <2>1. \A v : v \in all <=> \E i \in perms : Grants(v, lines[i])
    BY DEF Grants, KindOf
  <2>2. \A v : v \in ToSet(k.caps) <=> \E i \in perms : Grants(v, lines[i])
    BY DEF SaysCaps
  <2> HIDE DEF all
  <2>3. \A v : v \in ToSet(k.caps) <=> v \in all
    BY <2>1, <2>2, Zenon
  <2> QED
    BY <2>3
<1>2. /\ Len(k.steps) = Cardinality(instrs)
      /\ \A i \in instrs : k.steps[Cardinality({j \in instrs : j <= i})].content
                             = TrimSpace(lines[i].text)
  BY Zenon DEF SaysSteps, Rank
<1> QED
  BY <1>1, <1>2, Zenon DEF Says, SaysParams

\* A skill read from lines says what they say.
LEMMA MarkdownSays ==
  ASSUME NEW L, \A l \in L : LineType(l), NEW lines \in Seq(L),
         NEW k \in OpenClawParser(lines)
  PROVE  Says(lines, k)
<1>1. PICK end \in extractFrontmatter(lines) : k \in parseSections(lines, end)
  BY DEF OpenClawParser
<1> DEFINE section(title) == extractSection(lines, title, end)
<1>2. PICK id, p, c, s :
        /\ p \in UNION {parseParameters(x) : x \in section("Parameters")}
        /\ c \in UNION {parsePermissions(x) : x \in section("Permissions")}
        /\ s \in UNION {parseInstructions(x) : x \in section("Instructions")}
        /\ k = markdownSkill(id, p, c, s)
  BY <1>1 DEF parseSections
<1>3. k.params = p /\ k.caps = c /\ k.steps = s
  BY <1>2 DEF markdownSkill
<1>4. SaysParams(lines, Under(lines, "Parameters"), k)
  <2> DEFINE U == Under(lines, "Parameters")
  <2>1. PICK x \in section("Parameters") : p \in parseParameters(x)
    BY <1>2
  <2>2. PICK h \in Nat : x \in Seq(L) /\ Stands(x, lines, "Parameters", h)
    BY UnderIs
  <2>3. /\ U = {h + i : i \in Filled(x)}
        /\ \A i \in Filled(x) : x[i] = lines[h + i]
    BY <2>2 DEF Stands, Filled
  <2>4. Cardinality(U) = Cardinality(Filled(x))
    BY <2>2, CountedIs
  <2>5. /\ DOMAIN p = {TrimSpace(x[i].name) : i \in Filled(x)}
        /\ Cardinality(DOMAIN p) = Cardinality(Filled(x))
    BY <2>1, <2>2, ParamsSay
  <2>6. {TrimSpace(x[i].name) : i \in Filled(x)} = {TrimSpace(lines[j].name) : j \in U}
    BY <2>3
  <2> QED
    BY <1>3, <2>4, <2>5, <2>6 DEF SaysParams
<1>5. SaysSteps(lines, Under(lines, "Instructions"), k)
  <2> DEFINE U == Under(lines, "Instructions")
  <2>1. PICK x \in section("Instructions") : s \in parseInstructions(x)
    BY <1>2
  <2>2. PICK h \in Nat : x \in Seq(L) /\ Stands(x, lines, "Instructions", h)
    BY UnderIs
  <2>3. /\ U = {h + i : i \in Filled(x)}
        /\ \A i \in Filled(x) : x[i] = lines[h + i]
    BY <2>2 DEF Stands, Filled
  <2>4. /\ Cardinality(U) = Cardinality(Filled(x))
        /\ \A i \in Filled(x) : Rank(U, h + i) = Rank(Filled(x), i)
    BY <2>2, CountedIs
  <2>5. /\ Len(s) = Cardinality(Filled(x))
        /\ \A i \in Filled(x) : s[Rank(Filled(x), i)].content = TrimSpace(x[i].text)
    BY <2>1, <2>2, StepsSay
  <2> HIDE DEF U
  <2>6. ASSUME NEW j \in U PROVE s[Rank(U, j)].content = TrimSpace(lines[j].text)
    <3>1. PICK i \in Filled(x) : j = h + i
      BY <2>3
    <3> QED
      BY <2>3, <2>4, <2>5, <3>1
  <2> QED
    BY <1>3, <2>4, <2>5, <2>6 DEF SaysSteps, U
<1>6. SaysCaps(lines, Under(lines, "Permissions"), k)
  <2> DEFINE U == Under(lines, "Permissions")
  <2>1. PICK x \in section("Permissions") : c \in parsePermissions(x)
    BY <1>2
  <2>2. PICK h \in Nat : x \in Seq(L) /\ Stands(x, lines, "Permissions", h)
    BY UnderIs
  <2>3. /\ U = {h + i : i \in Filled(x)}
        /\ \A i \in Filled(x) : x[i] = lines[h + i]
    BY <2>2 DEF Stands, Filled
  <2>4. \A v : v \in ToSet(c) <=> \E i \in Filled(x) : Grants(v, x[i])
    BY <2>1, <2>2, PermissionsSay
  <2> HIDE DEF U
  <2>5. \A v : (\E i \in Filled(x) : Grants(v, x[i])) <=> \E j \in U : Grants(v, lines[j])
    <3> SUFFICES ASSUME NEW v
                 PROVE  (\E i \in Filled(x) : Grants(v, x[i])) <=> \E j \in U : Grants(v, lines[j])
      OBVIOUS
    <3>1. ASSUME NEW i \in Filled(x), Grants(v, x[i]) PROVE \E j \in U : Grants(v, lines[j])
      <4>1. h + i \in U /\ Grants(v, lines[h + i])
        BY <2>3, <3>1
      <4> QED
        BY <4>1
    <3>2. ASSUME NEW j \in U, Grants(v, lines[j]) PROVE \E i \in Filled(x) : Grants(v, x[i])
      <4>1. PICK i \in Filled(x) : j = h + i
        BY <2>3
      <4> QED
        BY <2>3, <3>2, <4>1
    <3> QED
      BY <3>1, <3>2
  <2>6. \A v : v \in ToSet(c) <=> \E j \in U : Grants(v, lines[j])
    BY <2>4, <2>5, Zenon
  <2> QED
    BY <1>3, <2>6, Zenon DEF SaysCaps, U
<1> QED
  BY <1>4, <1>5, <1>6, SaysIs

LEMMA SaysWritten == SessionInv => ParsesAsWritten
<1> SUFFICES ASSUME SessionInv, phase = "read", parsed.version = ""
             PROVE  \E f \in DOMAIN case.lib :
                      case.lib[f].format = "lines" /\ Says(case.lib[f].lines, parsed)
  BY DEF ParsesAsWritten
<1>1. case \in Case /\ parsed \in ReadSkill(case)
  BY DEF SessionInv
<1>2. PICK f \in DOMAIN case.lib : parsed \in ParseFile(f.suffix, case.lib[f])
  BY <1>1, FileIs
<1>3. PICK d : d = case.lib[f]
  OBVIOUS
<1>4. DocumentType(d)
  BY <1>1, <1>2, <1>3, AdmissionAssumption DEF CaseType
<1>5. \/ d.format = "json" /\ parsed \in V1JSONParser(d.skill)
      \/ d.format = "lines" /\ parsed \in OpenClawParser(d.lines)
  BY <1>2, <1>3, Zenon DEF ParseFile
<1>6. d.format = "lines" /\ parsed \in OpenClawParser(d.lines)
  BY <1>5 DEF V1JSONParser
<1>7. PICK L : d.lines \in Seq(L) /\ \A l \in L : LineType(l)
  <2> DEFINE L == {l \in Range(d.lines) : LineType(l)}
  <2>1. d.lines \in Seq(L)
    BY <1>4, <1>6 DEF DocumentType
  <2>2. \A l \in L : LineType(l)
    OBVIOUS
  <2> HIDE DEF L
  <2> QED
    BY <2>1, <2>2, Zenon
<1>8. Says(d.lines, parsed)
  BY <1>6, <1>7, MarkdownSays
<1> QED
  BY <1>2, <1>3, <1>6, <1>8

\* A skill read from the older markdown says what its document says, section
\* by section and line by line (OpenClawParser), for every document.
THEOREM ParsedAsWritten == Spec => []ParsesAsWritten
<1> QED
  BY SessionSafe, SaysWritten, PTL

-----------------------------------------------------------------------------
(* Skills as they are hashed.                                              *)

LEMMA MapShaped ==
  ASSUME NEW m, MapOfTexts(m)
  PROVE  InputsShape(m)
<1>1. IsFiniteSet(DOMAIN m) /\ DOMAIN m \in SUBSET Writing
  BY DEF MapOfTexts, Text, Writing
<1>2. m \in [DOMAIN m -> Writing]
  BY DEF MapOfTexts, Text, Writing
<1>3. m = [n \in DOMAIN m |-> m[n]] /\ \A n \in DOMAIN m : m[n] \in Writing
  BY <1>2
<1> QED
  BY <1>1, <1>3 DEF InputsShape, Keyed

\* A sequence whose elements are as they should be.
LEMMA EachIs ==
  ASSUME NEW S, NEW k \in Seq(S), NEW T, \A i \in DOMAIN k : k[i] \in T
  PROVE  k \in Seq(T)
<1>1. Len(k) \in Nat /\ DOMAIN k = 1..Len(k) /\ k = [i \in 1..Len(k) |-> k[i]]
  OBVIOUS
<1> QED
  BY <1>1

LEMMA ParametersShaped ==
  ASSUME NEW m, IsFiniteSet(DOMAIN m), DOMAIN m \subseteq Text,
         m \in [DOMAIN m -> ParameterRecord]
  PROVE  ParamsShape(m)
<1>1. \A p \in ParameterRecord :
        p = [type |-> p.type, default |-> p.default, required |-> p.required] /\ ParamShape(p)
  BY DEF ParameterRecord, ParamShape, Text, Writing
<1>2. m = [n \in DOMAIN m |-> m[n]] /\ \A n \in DOMAIN m : m[n] \in ParameterRecord
  OBVIOUS
<1>3. m = [n \in DOMAIN m |->
             [type |-> m[n].type, default |-> m[n].default, required |-> m[n].required]]
  BY <1>1, <1>2
<1>4. \A n \in DOMAIN m : ParamShape(m[n])
  BY <1>1, <1>2
<1>5. Keyed(m)
  BY DEF Keyed, Text, Writing
<1> QED
  BY <1>3, <1>4, <1>5 DEF ParamsShape

LEMMA StepShaped ==
  ASSUME NEW s, StepType(s), s.kind \in argsRegistry
  PROVE  StepShape(s)
<1> DEFINE in == s.inputs
<1> HIDE DEF in
<1>1. s \in [id : Text, kind : DOMAIN Byte, path : Text, content : Text, inputs : {in}, outputs : Seq(Text)]
  BY DEF StepType, in
<1>2. /\ s = [id |-> s.id, kind |-> s.kind, path |-> s.path, content |-> s.content,
              inputs |-> s.inputs, outputs |-> s.outputs]
      /\ s.id \in Writing /\ s.kind \in DOMAIN Byte /\ s.path \in Writing /\ s.content \in Writing
      /\ s.outputs \in Seq(Writing)
  BY <1>1 DEF Text, Writing
<1>3. InputsShape(s.inputs)
  BY MapShaped DEF StepType
<1>4. /\ s.kind \in {"read_file", "write_file", "legacy"}
      /\ s.kind = "read_file" => s.content = <<>>
      /\ s.kind = "legacy" => s.path = <<>>
  BY DEF StepType, argsRegistry
<1> QED
  BY <1>2, <1>3, <1>4 DEF StepShape

LEMMA CapabilitiesShaped ==
  ASSUME NEW caps \in Seq(CapabilityRecord)
  PROVE  CapsShape(caps)
<1>1. \A c \in CapabilityRecord : CapShape(c)
  BY DEF CapabilityRecord, CapShape, Text, Writing
<1> DEFINE shaped == {c \in Range(caps) : CapShape(c)}
<1>2. \A i \in DOMAIN caps : caps[i] \in CapabilityRecord /\ caps[i] \in Range(caps)
  BY DEF Range
<1>3. \A i \in DOMAIN caps : caps[i] \in shaped
  BY <1>1, <1>2
<1> HIDE DEF shaped
<1>4. caps \in Seq(shaped)
  BY <1>3, EachIs
<1> QED
  BY <1>4 DEF CapsShape, shaped

LEMMA JSONShaped ==
  ASSUME NEW k, JSONSkill(k)
  PROVE  SkillShape(k)
<1>1. Versioned(k)
  BY DEF JSONSkill, Versioned
<1>2. SkillType(k)
  BY DEF JSONSkill
<1>3. ParamsShape(k.params)
  BY <1>2, ParametersShaped DEF SkillType
<1>4. CapsShape(k.caps)
  BY <1>2, CapabilitiesShaped DEF SkillType
<1>5. StepsShape(k.steps)
  <2> DEFINE steps == k.steps
             typed == {s \in Range(steps) : StepType(s)}
             shaped == {s \in Range(steps) : StepShape(s)}
  <2>1. steps \in Seq(typed) /\ \A i \in DOMAIN steps : steps[i].kind \in argsRegistry
    BY <1>2 DEF SkillType, JSONSkill
  <2>2. \A s \in typed : s \in Range(steps) /\ StepType(s)
    OBVIOUS
  <2> HIDE DEF steps, typed
  <2>3. \A i \in DOMAIN steps : steps[i] \in Range(steps) /\ StepShape(steps[i])
    <3> SUFFICES ASSUME NEW i \in DOMAIN steps
                 PROVE  steps[i] \in Range(steps) /\ StepShape(steps[i])
      OBVIOUS
    <3>1. steps[i] \in typed
      BY <2>1
    <3> QED
      BY <2>1, <2>2, <3>1, StepShaped
  <2>4. \A i \in DOMAIN steps : steps[i] \in shaped
    BY <2>3
  <2> HIDE DEF shaped
  <2>5. steps \in Seq(shaped)
    BY <2>1, <2>4, EachIs
  <2> QED
    BY <2>5 DEF StepsShape, shaped, steps
<1> QED
  BY <1>1, <1>3, <1>4, <1>5 DEF SkillShape

\* What is read from markdown is a skill whose parts have their types.
LEMMA ParametersTyped ==
  ASSUME NEW L, \A l \in L : LineType(l), NEW section \in Seq(L),
         NEW p \in parseParameters(section)
  PROVE  p \in [DOMAIN p -> ParameterRecord]
<1> DEFINE decl == Written(section)
           name(i) == TrimSpace(decl[i].name)
           of(n) == decl[CHOOSE i \in DOMAIN decl : name(i) = n]
           record(n) == [type |-> parseParameterType[of(n).type],
                         default |-> extractDefaultValue(of(n).default),
                         required |-> of(n).required]
           names == {name(i) : i \in DOMAIN decl}
<1>1. /\ p = [n \in names |-> record(n)]
      /\ \A i \in DOMAIN decl : Is(decl[i], "param") /\ decl[i].type \in DOMAIN parseParameterType
  BY Zenon DEF parseParameters
<1>2. decl \in Seq(L)
  BY WrittenIs
<1>3. \A i \in DOMAIN decl : decl[i] \in L
  BY <1>2
<1>4. \A t \in DOMAIN parseParameterType : parseParameterType[t] \in DOMAIN Byte
  <2>1. \A t \in DOMAIN parseParameterType : parseParameterType[t] \in ParameterType
    BY DEF parseParameterType, ParameterType
  <2>2. ParameterType \subseteq DOMAIN Byte
    BY AdmissionAssumption DEF Vocabulary
  <2> QED
    BY <2>1, <2>2
<1>5. \A i \in DOMAIN decl : /\ decl[i].default \in Text /\ decl[i].required \in BOOLEAN
                             /\ parseParameterType[decl[i].type] \in DOMAIN Byte
  BY <1>1, <1>3, <1>4, Zenon DEF LineType, Is
<1>6. \A n \in names : \E i \in DOMAIN decl : of(n) = decl[i]
  <2> SUFFICES ASSUME NEW n \in names PROVE \E i \in DOMAIN decl : of(n) = decl[i]
    OBVIOUS
  <2>1. \E i \in DOMAIN decl : name(i) = n
    OBVIOUS
  <2>2. (CHOOSE i \in DOMAIN decl : name(i) = n) \in DOMAIN decl
    BY <2>1
  <2> QED
    BY <2>2
<1> HIDE DEF decl, name, of, names
<1>7. \A n \in names : record(n) \in ParameterRecord
  <2> SUFFICES ASSUME NEW n \in names PROVE record(n) \in ParameterRecord
    OBVIOUS
  <2>1. PICK i \in DOMAIN decl : of(n) = decl[i]
    BY <1>6
  <2>2. extractDefaultValue(of(n).default) \in Text
    BY <1>5, <2>1, DefaultIs
  <2> QED
    BY <1>5, <2>1, <2>2 DEF ParameterRecord
<1> HIDE DEF record
<1> QED
  BY <1>1, <1>7

LEMMA CapabilitiesTyped ==
  ASSUME NEW L, \A l \in L : LineType(l), NEW x \in Seq(L), NEW c \in parsePermissions(x)
  PROVE  c \in Seq(CapabilityRecord)
<1> DEFINE decl == Written(x)
           reads == ScopesOf(decl, "fs.read")
           writes == ScopesOf(decl, "fs.write")
<1>1. /\ \A i \in DOMAIN decl : Is(decl[i], "perm")
      /\ c = Capabilities("vfs.read", reads) \o Capabilities("vfs.write", writes)
  BY Zenon DEF parsePermissions
<1>2. decl \in Seq(L)
  BY WrittenIs
<1>3. \A i \in DOMAIN decl : decl[i] \in L
  BY <1>2
<1>4. \A i \in DOMAIN decl : decl[i].scopes \in Seq(Text)
  BY <1>1, <1>3, Zenon DEF LineType, Is
<1> HIDE DEF decl
<1>5. reads \in Seq(Text) /\ writes \in Seq(Text)
  BY <1>2, <1>4, ScopesSay
<1> HIDE DEF reads, writes
<1>6. Capabilities("vfs.read", reads) \in Seq(Capability) /\ Capabilities("vfs.write", writes) \in Seq(Capability)
  BY <1>5, CapabilitiesSay
<1>7. c \in Seq(Capability)
  BY <1>1, <1>6, ConcatProperties
<1>8. Capability \subseteq CapabilityRecord
  <2>1. {"vfs.read", "vfs.write"} \subseteq DOMAIN Byte
    BY AdmissionAssumption DEF Vocabulary
  <2> QED
    BY <2>1 DEF Capability, CapabilityRecord
<1>9. \A i \in DOMAIN c : c[i] \in CapabilityRecord
  BY <1>7, <1>8
<1> QED
  BY <1>7, <1>9, EachIs

\* An instruction becomes a step whose inputs are references to the names in it.
LEMMA InputsTyped ==
  ASSUME NEW t \in Text
  PROVE  MapOfTexts(parseInstructionInputs(t))
<1> DEFINE sound == {o \in Markers(t, 1) : Sound(t, o)}
           names == {Name(t, o) : o \in sound}
           m == [n \in names |-> Reference(n)]
<1>1. parseInstructionInputs(t) = m
  BY Zenon DEF parseInstructionInputs, Reference, Sound
<1>2. Len(t) \in Nat /\ t \in Seq(DOMAIN Byte)
  BY DEF Text
<1>3. Markers(t, 1) \subseteq 1..Len(t) /\ sound \subseteq 1..Len(t)
  BY <1>2, Positions
<1>4. IsFiniteSet(sound)
  <2>1. IsFiniteSet(1..Len(t))
    BY <1>2, UptoIs
  <2> HIDE DEF sound
  <2> QED
    BY <1>3, <2>1, FS_Subset
<1>5. ASSUME NEW o \in sound
      PROVE  Name(t, o) \in Text /\ Reference(Name(t, o)) \in Text
  <2>1. o \in Nat /\ Sound(t, o) /\ o \in Markers(t, 1)
    BY <1>3
  <2>2. Name(t, o) \in Text
    BY <1>2, <2>1, NameIs DEF Text
  <2>3. PICK n \in Text : n = Name(t, o)
    BY <2>2
  <2>4. t[o] = Dollar /\ t[o + 1] = Opening /\ o \in DOMAIN t /\ o + 1 \in DOMAIN t
    BY <1>2, <2>1, Positions
  <2>5. PICK b \in DOMAIN t : t[b] = Closing
    <3>1. Braces(t, o) # {}
      BY <2>1 DEF Sound
    <3>2. PICK b \in Braces(t, o) : TRUE
      BY <3>1
    <3>3. b \in (o + 2)..Len(t) /\ t[b] = Closing
      BY <3>2 DEF Braces, Closing
    <3> QED
      BY <1>2, <2>1, <3>3
  <2>6. Dollar \in DOMAIN Byte /\ Opening \in DOMAIN Byte /\ Closing \in DOMAIN Byte
    <3>1. \A i \in DOMAIN t : t[i] \in DOMAIN Byte
      BY <1>2
    <3> QED
      BY <2>4, <2>5, <3>1, Zenon
  <2>7. <<Dollar, Opening>> \in Text /\ <<Closing>> \in Text
    BY <2>6 DEF Text
  <2>8. <<Dollar, Opening>> \o n \in Text
    BY <2>3, <2>7, ConcatProperties DEF Text
  <2>9. (<<Dollar, Opening>> \o n) \o <<Closing>> \in Text
    BY <2>7, <2>8, ConcatProperties DEF Text
  <2>10. Reference(n) \in Text
    BY <2>9, ReferenceSigns
  <2> QED
    BY <2>3, <2>10
<1> HIDE DEF sound
<1>6. IsFiniteSet(names)
  <2> DEFINE f == [o \in sound |-> Name(t, o)]
  <2>1. f \in [sound -> names] /\ \A n \in names : \E o \in sound : f[o] = n
    OBVIOUS
  <2> HIDE DEF f, names
  <2>2. f \in Surjection(sound, names)
    BY <2>1 DEF Surjection
  <2> QED
    BY <1>4, <2>2, FS_Surjection
<1>7. \A n \in names : n \in Text /\ Reference(n) \in Text
  BY <1>5
<1> HIDE DEF names
<1>8. DOMAIN m = names /\ m \in [names -> Text]
  BY <1>7
<1> HIDE DEF m
<1>9. IsFiniteSet(DOMAIN m) /\ DOMAIN m \subseteq Text /\ m \in [DOMAIN m -> Text]
  BY <1>6, <1>7, <1>8
<1> QED
  BY <1>1, <1>9, Zenon DEF MapOfTexts

LEMMA InstructionsShaped ==
  ASSUME NEW L, \A l \in L : LineType(l), NEW x \in Seq(L), NEW s \in parseInstructions(x)
  PROVE  StepsShape(s)
<1> DEFINE decl == Written(x)
           text(i) == TrimSpace(decl[i].text)
           step(i) == [id |-> <<"step_", ToString(i)>>, kind |-> "legacy", path |-> <<>>,
                       content |-> text(i), outputs |-> <<>>,
                       inputs |-> parseInstructionInputs(text(i))]
<1>1. /\ s = [i \in DOMAIN decl |-> step(i)]
      /\ \A i \in DOMAIN decl : Is(decl[i], "instr") /\ decl[i].num = ToString(i)
  BY Zenon DEF parseInstructions
<1>2. decl \in Seq(L)
  BY WrittenIs
<1>3. DOMAIN decl = 1..Len(decl) /\ Len(decl) \in Nat /\ \A i \in DOMAIN decl : decl[i] \in L
  BY <1>2
<1>4. \A i \in DOMAIN decl : decl[i].text \in Text /\ ToString(i) \in DOMAIN Byte
  BY <1>1, <1>3, Zenon DEF LineType, Is
<1>5. "step_" \in DOMAIN Byte /\ "legacy" \in DOMAIN Byte
  BY AdmissionAssumption DEF Vocabulary
<1> HIDE DEF decl
<1>6. ASSUME NEW i \in DOMAIN decl
      PROVE  StepShape(step(i))
  <2> DEFINE in == parseInstructionInputs(text(i))
  <2>1. text(i) \in Text
    BY <1>4, TrimIs DEF Text
  <2>2. InputsShape(in)
    BY <2>1, InputsTyped, MapShaped
  <2>3. PICK w \in DOMAIN Byte : w = ToString(i)
    BY <1>4
  <2>4. <<"step_", w>> \in Writing
    BY <1>5 DEF Writing
  <2>5. <<>> \in Writing /\ <<>> \in Seq(Writing) /\ text(i) \in Writing
    BY <2>1 DEF Text, Writing
  <2> HIDE DEF in, text
  <2>6. step(i) = [id |-> <<"step_", w>>, kind |-> "legacy", path |-> <<>>,
                   content |-> text(i), outputs |-> <<>>, inputs |-> in]
    BY <2>3, Zenon DEF in
  <2> HIDE DEF step
  <2> DEFINE u == <<"step_", w>>
             e == <<>>
  <2>7. u \in Writing /\ e \in Writing /\ e \in Seq(Writing) /\ e = <<>>
        /\ step(i) = [id |-> u, kind |-> "legacy", path |-> e,
                      content |-> text(i), outputs |-> e, inputs |-> in]
    BY <2>4, <2>5, <2>6, Zenon
  <2> HIDE DEF u, e
  <2>8. /\ step(i).id = u /\ step(i).kind = "legacy" /\ step(i).path = e
        /\ step(i).content = text(i) /\ step(i).inputs = in /\ step(i).outputs = e
        /\ step(i) = [id |-> step(i).id, kind |-> step(i).kind, path |-> step(i).path,
                      content |-> step(i).content, inputs |-> step(i).inputs,
                      outputs |-> step(i).outputs]
    BY <2>7
  <2>9. step(i).kind \in {"read_file", "write_file", "legacy"} /\ step(i).kind # "read_file"
    BY <2>8
  <2> QED
    BY <1>5, <2>2, <2>5, <2>7, <2>8, <2>9, Zenon DEF StepShape
<1> HIDE DEF step
<1> DEFINE shaped == {t \in Range(s) : StepShape(t)}
<1>7. DOMAIN s = 1..Len(decl) /\ \A i \in DOMAIN s : s[i] = step(i) /\ s[i] \in Range(s)
  BY <1>1, <1>3 DEF Range
<1>8. \A i \in 1..Len(decl) : s[i] \in shaped
  BY <1>3, <1>6, <1>7
<1>9. s = [i \in 1..Len(decl) |-> s[i]]
  BY <1>1, <1>3
<1> HIDE DEF shaped
<1>10. s \in Seq(shaped)
  BY <1>3, <1>8, <1>9
<1> QED
  BY <1>10 DEF StepsShape, shaped

LEMMA MarkdownShaped ==
  ASSUME NEW L, \A l \in L : LineType(l), NEW lines \in Seq(L), NEW k \in OpenClawParser(lines)
  PROVE  SkillShape(k)
<1>1. PICK end \in extractFrontmatter(lines) : k \in parseSections(lines, end)
  BY DEF OpenClawParser
<1> DEFINE section(title) == extractSection(lines, title, end)
           params == UNION {parseParameters(x) : x \in section("Parameters")}
           perms == UNION {parsePermissions(x) : x \in section("Permissions")}
           steps == UNION {parseInstructions(x) : x \in section("Instructions")}
<1>2. PICK id, c, p, s : c \in perms /\ p \in params /\ s \in steps /\ k = markdownSkill(id, p, c, s)
  BY <1>1 DEF parseSections
<1>3. end \in Nat \ {0}
  BY FrontIs
<1>4. ParamsShape(p)
  <2>1. PICK x \in section("Parameters") : p \in parseParameters(x)
    BY <1>2
  <2>2. x \in Seq(L)
    BY <1>3, SectionIs
  <2>3. Declared(p) /\ p \in [DOMAIN p -> ParameterRecord]
    BY <2>1, <2>2, ParametersIs, ParametersTyped
  <2> QED
    BY <2>3, ParametersShaped DEF Declared
<1>5. CapsShape(c)
  <2>1. PICK x \in section("Permissions") : c \in parsePermissions(x)
    BY <1>2
  <2>2. x \in Seq(L)
    BY <1>3, SectionIs
  <2> QED
    BY <2>1, <2>2, CapabilitiesTyped, CapabilitiesShaped
<1>6. StepsShape(s)
  <2>1. PICK x \in section("Instructions") : s \in parseInstructions(x)
    BY <1>2
  <2>2. x \in Seq(L)
    BY <1>3, SectionIs
  <2> QED
    BY <2>1, <2>2, InstructionsShaped
<1>7. k.version = "" /\ k.params = p /\ k.caps = c /\ k.steps = s
  BY <1>2 DEF markdownSkill
<1> QED
  BY <1>4, <1>5, <1>6, <1>7 DEF SkillShape, Versioned

LEMMA ReadShaped ==
  ASSUME NEW c \in Case, NEW k \in ReadSkill(c)
  PROVE  SkillShape(k)
<1>1. PICK f \in DOMAIN c.lib : k \in ParseFile(f.suffix, c.lib[f])
  BY FileIs
<1>2. PICK d : d = c.lib[f]
  OBVIOUS
<1>3. DocumentType(d)
  BY <1>2, AdmissionAssumption DEF CaseType
<1>4. \/ d.format = "json" /\ k \in V1JSONParser(d.skill)
      \/ d.format = "lines" /\ k \in OpenClawParser(d.lines)
  BY <1>1, <1>2, Zenon DEF ParseFile
<1>5. CASE d.format = "json" /\ k \in V1JSONParser(d.skill)
  <2>1. JSONSkill(k)
    BY <1>3, <1>5 DEF DocumentType, V1JSONParser, JSONSkill
  <2> QED
    BY <2>1, JSONShaped
<1>6. CASE d.format = "lines" /\ k \in OpenClawParser(d.lines)
  <2>1. PICK L : d.lines \in Seq(L) /\ \A l \in L : LineType(l)
    BY <1>3, <1>6 DEF DocumentType
  <2> QED
    BY <1>6, <2>1, MarkdownShaped
<1> QED
  BY <1>4, <1>5, <1>6

\* Behaviour is what the hash is of.
LEMMA BehaviourIs ==
  ASSUME NEW k, NEW m
  PROVE  Behaviour(k) = Behaviour(m) <=> SameSkill(k, m)
<1>1. \A j : Behaviour(j) = [version |-> j.version, params |-> j.params, steps |-> j.steps,
                             caps |-> HowOften(j.caps)]
  BY Zenon DEF Behaviour, HowOften, Places
<1> QED
  BY <1>1 DEF SameSkill

LEMMA HashIs ==
  ASSUME SessionInv, receipt # NoReceipt, receipt.hash = GetLogicalHash(parsed)
  PROVE  \A f \in Fingerprints : f[1] = receipt.hash <=> f[2] = Behaviour(parsed)
<1> SUFFICES ASSUME NEW f \in Fingerprints
             PROVE  f[1] = receipt.hash <=> f[2] = Behaviour(parsed)
  OBVIOUS
<1>1. PICK c, k : c \in Case /\ k \in ReadSkill(c) /\ f = <<GetLogicalHash(k), Behaviour(k)>>
  <2> DEFINE of(c) == {<<GetLogicalHash(k), Behaviour(k)>> : k \in ReadSkill(c)}
  <2>1. Fingerprints = UNION {of(c) : c \in Case}
    BY Zenon DEF Fingerprints
  <2> HIDE DEF of
  <2>2. PICK c \in Case : f \in of(c)
    BY <2>1, Zenon
  <2> USE DEF of
  <2>3. PICK k \in ReadSkill(c) : f = <<GetLogicalHash(k), Behaviour(k)>>
    BY <2>2
  <2> QED
    BY <2>3, Zenon
<1>2. f[1] = GetLogicalHash(k) /\ f[2] = Behaviour(k)
  BY <1>1
<1>3. SkillShape(k)
  BY <1>1, ReadShaped
<1>4. SkillShape(parsed)
  <2>1. phase \in Sanitized /\ phase \notin {"fresh", "unread"}
    BY Zenon DEF SessionInv, Sanitized, Admitted, Started
  <2>2. case \in Case /\ parsed \in ReadSkill(case)
    BY <2>1 DEF SessionInv
  <2> QED
    BY <2>2, ReadShaped
<1>5. Words \subseteq DOMAIN Byte
  BY AdmissionAssumption DEF Vocabulary
<1>6. GetLogicalHash(k) = GetLogicalHash(parsed) <=> SameSkill(k, parsed)
  BY <1>3, <1>4, <1>5, HashTells
<1> QED
  BY <1>2, <1>6, BehaviourIs, Zenon

\* Receipts of two sessions have the same logical hash when, and only when,
\* their skills do the same: the lengths before the fields tell where each one
\* ends, and capabilities are sorted (GetLogicalHash).
THEOREM HashesTellSkills == Spec => []HashIdentifiesBehaviour
<1>1. SessionInv /\ ReceiptInv => HashIdentifiesBehaviour
  BY HashIs DEF ReceiptInv, HashIdentifiesBehaviour
<1> QED
  BY <1>1, SessionInit, SessionNext, ReceiptInit, ReceiptNext, PTL DEF Spec
=============================================================================
