------------------------------ MODULE OpenClaw ------------------------------
(***************************************************************************)
(* From a skill file to a skill: ParseFile (internal/engine/parser/        *)
(* parser.go), the v1 JSON parser (v1_json.go) and the parser of the older *)
(* markdown (openclaw.go).                                                 *)
(*                                                                         *)
(* A document is JSON text that holds a skill, or a sequence of lines.  A  *)
(* line is a record whose kind says what its pattern recognises:           *)
(*   fence "---"; field (key, text) of the frontmatter; head (title) "##"; *)
(*   param (name, type, default, required); perm (name, scopes); instr     *)
(*   (num, text); blank; junk.                                             *)
(* Operators that can fail return {} or {result}.                          *)
(***************************************************************************)
EXTENDS Template

Sections == {"Parameters", "Permissions", "Instructions"}

Is(line, kind) == line.kind = kind
Written(lines) == Concat(lines, LAMBDA l : IF Is(l, "blank") THEN <<>> ELSE <<l>>)
First(S) == IF S = {} THEN {} ELSE {Min(S)}

-----------------------------------------------------------------------------
(* Finding the parts.                                                      *)

\* The number of the closing fence; the first line must be the opening one.
extractFrontmatter(lines) ==
  IF lines # <<>> /\ Is(lines[1], "fence")
    THEN First({i \in 2..Len(lines) : Is(lines[i], "fence")}) ELSE {}

\* The first name of the frontmatter counts, and may not be blank.
parseSkillID(front) ==
  {TrimSpace(front[i].text) : i \in
     {i \in First({i \in DOMAIN front : Is(front[i], "field") /\ front[i].key = "name"}) :
        ~Blank(front[i].text)}}

\* From behind the first head of that title to the next head of any title.
extractSection(lines, title, start) ==
  {SubSeq(lines, h + 1,
          Min({i \in (h + 1)..Len(lines) : Is(lines[i], "head")} \cup {Len(lines) + 1}) - 1) :
     h \in First({i \in start..Len(lines) : Is(lines[i], "head") /\ lines[i].title = title})}

-----------------------------------------------------------------------------
(* Reading a section: every written line must be a declaration.            *)

\* What may be written for a type (in any case).
parseParameterType ==
  [string |-> "string", int |-> "int", integer |-> "int", bool |-> "bool",
   boolean |-> "bool", float |-> "float", float64 |-> "float", number |-> "float"]

\* The default ends at the first full stop or closing bracket.
extractDefaultValue(t) ==
  TrimSpace(SubSeq(t, 1, Min({i \in DOMAIN t : t[i] \in {".", "]"}} \cup {Len(t) + 1}) - 1))

parseParameters(section) ==
  LET decl == Written(section)
      name(i) == TrimSpace(decl[i].name)
      sound == /\ decl # <<>>
               /\ \A i \in DOMAIN decl :
                    /\ Is(decl[i], "param") /\ decl[i].type \in DOMAIN parseParameterType
                    /\ name(i) # <<>>
                    /\ \A j \in 1..(i - 1) : name(j) # name(i)
      of(n) == decl[CHOOSE i \in DOMAIN decl : name(i) = n]
  IN IF sound
       THEN {[n \in {name(i) : i \in DOMAIN decl} |->
                [type |-> parseParameterType[of(n).type],
                 default |-> extractDefaultValue(of(n).default),
                 required |-> of(n).required]]}
       ELSE {}

\* Variant: a second line for a permission replaces the first.
capabilitiesFromLastLine(decl, name) ==
  LET last == Max({i \in DOMAIN decl : decl[i].name = name} \cup {0})
  IN IF last = 0 THEN <<>> ELSE decl[last].scopes

\* The lines of a permission add up.
ScopesOf(decl, name) ==
  Concat(decl, LAMBDA l : IF l.name = name THEN l.scopes ELSE <<>>)

Capabilities(kind, scopes) ==
  [i \in DOMAIN scopes |-> [kind |-> kind, scope |-> TrimSpace(scopes[i])]]

\* parsePermissions and capabilitiesFromPermissions: other names are refused.
parsePermissions(section) ==
  LET decl == Written(section)
      sound == /\ decl # <<>>
               /\ \A i \in DOMAIN decl :
                    /\ Is(decl[i], "perm") /\ decl[i].name \in {"fs.read", "fs.write"}
                    /\ \A k \in DOMAIN decl[i].scopes : ~Blank(decl[i].scopes[k])
  IN IF sound
       THEN {Capabilities("vfs.read", ScopesOf(decl, "fs.read"))
               \o Capabilities("vfs.write", ScopesOf(decl, "fs.write"))}
       ELSE {}

\* Variant: the first reference only.
parseInstructionInputsFirst(text) ==
  LET names == {Name(text, o) : o \in
                  {o \in First(Markers(text, 1)) :
                     Braces(text, o) # {} /\ isVariableReference(Name(text, o))}}
  IN [n \in names |-> <<"$", "{">> \o n \o <<"}">>]

\* Every well-formed reference in the text becomes an input of its name.
parseInstructionInputs(text) ==
  LET names == {Name(text, o) : o \in
                  {o \in Markers(text, 1) :
                     Braces(text, o) # {} /\ isVariableReference(Name(text, o))}}
  IN [n \in names |-> <<"$", "{">> \o n \o <<"}">>]

\* Numbered from 1, without gaps.
parseInstructions(section) ==
  LET decl == Written(section)
      sound == /\ decl # <<>>
               /\ \A i \in DOMAIN decl :
                    /\ Is(decl[i], "instr") /\ decl[i].num = ToString(i)
                    /\ ~Blank(decl[i].text)
      step(i) == [id |-> <<"step_", ToString(i)>>, kind |-> "legacy", path |-> <<>>,
                  content |-> TrimSpace(decl[i].text), outputs |-> <<>>,
                  inputs |-> parseInstructionInputs(TrimSpace(decl[i].text))]
  IN IF sound THEN {[i \in DOMAIN decl |-> step(i)]} ELSE {}

-----------------------------------------------------------------------------
(* The parsers.                                                            *)

\* What stands behind the frontmatter, which ends at that line.
markdownSkill(id, params, caps, steps) ==
  [version |-> "", id |-> id, prov |-> "none", params |-> params, caps |-> caps, steps |-> steps]

parseSections(lines, end) ==
  LET section(title) == extractSection(lines, title, end)
  IN {markdownSkill(id, p, c, s) :
        id \in parseSkillID(SubSeq(lines, 2, end - 1)),
        p \in UNION {parseParameters(x) : x \in section("Parameters")},
        c \in UNION {parsePermissions(x) : x \in section("Permissions")},
        s \in UNION {parseInstructions(x) : x \in section("Instructions")}}

OpenClawParser(lines) == UNION {parseSections(lines, end) : end \in extractFrontmatter(lines)}

\* json.Unmarshal knows the kinds of argsRegistry.
argsRegistry == {"read_file", "write_file", "legacy"}

V1JSONParser(skill) ==
  {k \in {skill} : /\ k.version = "v1"
                   /\ \A i \in DOMAIN k.steps : k.steps[i].kind \in argsRegistry}

looksLikeOpenClaw(lines) ==
  \A title \in Sections : \E i \in 2..Len(lines) :
    Is(lines[i], "head") /\ lines[i].title = title

ToLower(suffix) == IF suffix = ".LOOM.JSON" THEN ".loom.json" ELSE suffix

\* The suffix decides which parser reads the text; each refuses what was
\* written for the other.
ParseFile(suffix, doc) ==
  LET json == IF doc.format = "json" THEN V1JSONParser(doc.skill) ELSE {}
      markdown == IF doc.format = "lines" THEN OpenClawParser(doc.lines) ELSE {}
  IN CASE ToLower(suffix) \in {".loom.json", ".json"} -> json
       [] ToLower(suffix) = ".md" -> markdown
       [] suffix = "" -> IF doc.format = "lines" /\ looksLikeOpenClaw(doc.lines)
                           THEN markdown ELSE {}
       [] OTHER -> {}
=============================================================================
