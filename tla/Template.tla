------------------------------ MODULE Template ------------------------------
(***************************************************************************)
(* References in texts: what the executor expands (substituteString in     *)
(* internal/engine/substitution.go) and what the validator takes for a     *)
(* reference (extractVariableReferences in internal/engine/validator.go).  *)
(* Each scans the text with a loop of its own.                             *)
(*                                                                         *)
(* An operator that can fail returns the set of its results: {} is an      *)
(* error and {r} is the result r.                                          *)
(***************************************************************************)
EXTENDS Texts

CONSTANTS Letter, Digit   \* tokens of letters or "_", tokens of digits

ASSUME TemplateAssumption == {"$", "{", "}"} \cap (Letter \cup Digit) = {}

isVariableReference(name) ==
  /\ name # <<>> /\ Head(name) \in Letter
  /\ \A i \in DOMAIN name : name[i] \in Letter \cup Digit

Opens(t, i) == i < Len(t) /\ t[i] = "$" /\ t[i + 1] = "{"

\* The first marker from position p on, and the first brace after marker o.
Markers(t, p) == {i \in p..Len(t) : Opens(t, i)}
Braces(t, o) == {i \in (o + 2)..Len(t) : t[i] = "}"}
Name(t, o) == SubSeq(t, o + 2, Min(Braces(t, o)) - 1)

-----------------------------------------------------------------------------
\* Variant: the text is scanned again with the value in its place.
substituteStringAgain(s, inputs) ==
  LET once(t) ==
        LET o == Min(Markers(t, 1))
        IN IF Markers(t, 1) = {} THEN {t}
           ELSE IF Braces(t, o) = {} \/ Name(t, o) \notin DOMAIN inputs THEN {}
           ELSE {SubSeq(t, 1, o - 1) \o inputs[Name(t, o)].text
                   \o SubSeq(t, Min(Braces(t, o)) + 1, Len(t))}
      scan[n \in 0..(2 * Len(s))] ==
        IF n = 0 THEN {s} ELSE UNION {once(t) : t \in scan[n - 1]}
  IN scan[2 * Len(s)]

\* Goes from marker to marker; the values are copied, never scanned.
substituteString(s, inputs) ==
  LET expand[p \in 1..(Len(s) + 1)] ==
        IF Markers(s, p) = {} THEN {SubSeq(s, p, Len(s))}
        ELSE LET o == Min(Markers(s, p))
                 bound == /\ Braces(s, o) # {}
                          /\ isVariableReference(Name(s, o))
                          /\ Name(s, o) \in DOMAIN inputs
             IN {SubSeq(s, p, o - 1) \o inputs[Name(s, o)].text \o rest :
                   rest \in IF bound THEN expand[Min(Braces(s, o)) + 1] ELSE {}}
  IN expand[1]

\* Variant: the search goes on behind the marker instead of behind the brace,
\* and a name that is no identifier is passed over.
extractVariableReferencesLax(value) ==
  {SetToSeq({Name(value, o) : o \in {i \in Markers(value, 1) :
              Braces(value, i) # {} /\ isVariableReference(Name(value, i))}})}

\* The names in order, with the rule that a text which is nothing but an
\* identifier is a reference as well.
extractVariableReferences(value) ==
  LET extract[p \in 1..(Len(value) + 1)] ==
        IF Markers(value, p) = {} THEN {<<>>}
        ELSE LET o == Min(Markers(value, p))
                 sound == Braces(value, o) # {} /\ isVariableReference(Name(value, o))
             IN {<<Name(value, o)>> \o rest :
                   rest \in IF sound THEN extract[Min(Braces(value, o)) + 1] ELSE {}}
  IN IF isVariableReference(value) THEN {<<value>>} ELSE extract[1]

-----------------------------------------------------------------------------
(* The reference definition: every position of a text contributes its own  *)
(* share of the expansion, whatever stands at the others.                  *)

Inside(t, i) == \E o \in Markers(t, 1) : Braces(t, o) # {} /\ i \in o..Min(Braces(t, o))

Share(t, i, inputs) ==
  IF Opens(t, i) THEN inputs[Name(t, i)].text
  ELSE IF Inside(t, i) THEN <<>> ELSE <<t[i]>>

Expandable(t, names) ==
  \A o \in Markers(t, 1) :
    Braces(t, o) # {} /\ isVariableReference(Name(t, o)) /\ Name(t, o) \in names

Expansion(t, inputs) == FlattenSeq([i \in DOMAIN t |-> Share(t, i, inputs)])
=============================================================================
