------------------------------ MODULE Contract ------------------------------
(***************************************************************************)
(* What a skill may say and what a caller may pass: ValidateSkill          *)
(* (internal/engine/validator.go), SanitizeInput (sanitizer.go), the       *)
(* inputs `loom verify` makes up (cmd/main.go), the definition tools/list   *)
(* shows and the arguments tools/call decodes (cmd/serve.go).              *)
(*                                                                         *)
(* A skill is a record of the IR (internal/engine/ir.go):                  *)
(*   version, id, prov                                                     *)
(*   params   a function from names to records type, default, required     *)
(*   steps    records id, kind, path, content, inputs, outputs; the        *)
(*            content of a legacy step is its action                       *)
(*   caps     records kind, scope                                          *)
(***************************************************************************)
EXTENDS Paths, Template

CONSTANTS
  Denied,     \* tokens that match a deny rule or are a blocked address
  Canonical   \* Canonical[type][t]: strconv's rendering of the number or
              \* Boolean that t is parsed as; other texts do not parse

CurrentSchemaVersion == "v1"

-----------------------------------------------------------------------------
(* ValidateSkill.                                                          *)

\* The parameters and the outputs of earlier steps.
availableVariables(skill, i) ==
  DOMAIN skill.params \cup UNION {ToSet(skill.steps[j].outputs) : j \in 1..(i - 1)}

validateStepDataflow(step, available) ==
  \A n \in DOMAIN step.inputs :
    \E refs \in extractVariableReferences(step.inputs[n]) : ToSet(refs) \subseteq available

\* The action of a legacy step, the path of a file step, the content of a
\* write, and every input.
collectStaticSegments(step) ==
  (CASE step.kind = "legacy" -> {step.content}
     [] step.kind = "read_file" -> {step.path}
     [] step.kind = "write_file" -> {step.path, step.content})
  \cup {step.inputs[n] : n \in DOMAIN step.inputs}

auditStepSecurity(step) ==
  \A segment \in collectStaticSegments(step) : ToSet(segment) \cap Denied = {}

DefaultCapabilitiesFor(step) ==
  CASE step.kind = "read_file" -> {[kind |-> "vfs.read", scope |-> step.path]}
    [] step.kind = "write_file" -> {[kind |-> "vfs.write", scope |-> step.path]}
    [] step.kind = "legacy" -> {}

capabilityCovered(declared, derived) ==
  \E c \in ToSet(declared) : c.kind = derived.kind /\ ScopeCovers(c.scope, derived.scope)

\* High-risk scopes are refused in every version, uncovered steps only in v1.
auditCapabilities(skill) ==
  /\ \A c \in ToSet(skill.caps) : ~isHighRiskPermissionScope(c.scope)
  /\ skill.version = CurrentSchemaVersion =>
       \A i \in DOMAIN skill.steps : \A d \in DefaultCapabilitiesFor(skill.steps[i]) :
         capabilityCovered(skill.caps, d)

ValidateSkill(skill) ==
  /\ \A i \in DOMAIN skill.steps :
       LET step == skill.steps[i]
       IN /\ ~Blank(step.id)
          /\ validateStepDataflow(step, availableVariables(skill, i))
          /\ auditStepSecurity(step)
          /\ \A o \in ToSet(step.outputs) : ~Blank(o)
  /\ auditCapabilities(skill)

-----------------------------------------------------------------------------
(* SanitizeInput.  Sanitized inputs are records of the type tag and the    *)
(* text that substitution and digest render the value as.                  *)

ParameterType == {"string", "int", "bool", "float"}
Tag == [string |-> "s", int |-> "i", bool |-> "b", float |-> "f"]

\* The last one is the sign of that name.
shellInjectionMarkers == {<<";">>, <<"|">>, <<"&", "&">>, <<"$", "(">>, <<"backquote">>}

rejectShellInjection(t) == \E m \in shellInjectionMarkers : Occurs(m, t)

\* Variant: a number is passed on as it was written.
sanitizeParameterValueRaw(t, parameter) ==
  {[tag |-> Tag[parameter.type], text |-> t] : m \in
     {m \in {t} : /\ parameter.type \in ParameterType
                  /\ IF parameter.type = "string" THEN ~rejectShellInjection(t)
                     ELSE t \in DOMAIN Canonical[parameter.type]}}

sanitizeParameterValue(t, parameter) ==
  LET type == parameter.type
      texts == IF type = "string" THEN {v \in {t} : ~rejectShellInjection(v)}
               ELSE IF type \in ParameterType
                 THEN {Canonical[type][v] : v \in {t} \cap DOMAIN Canonical[type]}
               ELSE {}
  IN {[tag |-> Tag[type], text |-> v] : v \in texts}

\* What is given, and the defaults of what is not.
Supplied(raw, schema) ==
  [n \in {n \in DOMAIN schema : n \in DOMAIN raw \/ schema[n].default # <<>>} |->
     IF n \in DOMAIN raw THEN raw[n] ELSE schema[n].default]

SanitizeInput(raw, schema) ==
  LET given == Supplied(raw, schema)
      value == [n \in DOMAIN given |-> sanitizeParameterValue(given[n], schema[n])]
      sound == /\ DOMAIN raw \subseteq DOMAIN schema
               /\ \A n \in DOMAIN schema : schema[n].required => n \in DOMAIN raw
               /\ \A n \in DOMAIN given : value[n] # {}
  IN IF sound THEN {[n \in DOMAIN given |-> CHOOSE v \in value[n] : TRUE]} ELSE {}

-----------------------------------------------------------------------------
(* Making inputs up, and saying which are wanted.                          *)

Mock == [string |-> <<"mock">>, int |-> <<"0">>, bool |-> <<"false">>, float |-> <<"0">>]

\* Variant: a default is not tried.
buildVerificationInputsMocked(schema) ==
  IF \A n \in DOMAIN schema : schema[n].type \in ParameterType
    THEN {[n \in DOMAIN schema |-> Mock[schema[n].type]]} ELSE {}

buildVerificationInputs(schema) ==
  IF \A n \in DOMAIN schema : schema[n].default = <<>> => schema[n].type \in ParameterType
    THEN {[n \in DOMAIN schema |->
             IF schema[n].default # <<>> THEN schema[n].default ELSE Mock[schema[n].type]]}
    ELSE {}

parameterTypeToJSONSchemaType(type) ==
  CASE type = "int" -> "integer" [] type = "bool" -> "boolean" [] type = "float" -> "number"
    [] OTHER -> "string"

skillToToolDefinition(skill) ==
  [name |-> skill.id,
   properties |-> [n \in DOMAIN skill.params |->
                     [type |-> parameterTypeToJSONSchemaType(skill.params[n].type),
                      default |-> skill.params[n].default]],
   required |-> {n \in DOMAIN skill.params : skill.params[n].required}]

\* Arguments of a call are JSON values, decoded into a map of strings: null
\* leaves the empty one, and any other kind of value refuses the call.
decodeArguments(args) ==
  IF \A n \in DOMAIN args : args[n].json \in {"string", "null"}
    THEN {[n \in DOMAIN args |-> IF args[n].json = "null" THEN <<>> ELSE args[n].text]}
    ELSE {}

\* --input flags: cut at the first "=", which may not come first; the last
\* flag of a name wins.
Equals(flag) == {i \in DOMAIN flag : flag[i] = "="}

parseInputFlags(flags) ==
  LET key == [k \in DOMAIN flags |-> SubSeq(flags[k], 1, Min(Equals(flags[k])) - 1)]
      last(n) == Max({k \in DOMAIN flags : key[k] = n})
  IN IF \A k \in DOMAIN flags : Equals(flags[k]) # {} /\ Min(Equals(flags[k])) > 1
       THEN {[n \in Range(key) |->
                LET f == flags[last(n)] IN SubSeq(f, Min(Equals(f)) + 1, Len(f))]}
       ELSE {}
=============================================================================
