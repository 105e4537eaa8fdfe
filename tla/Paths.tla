-------------------------------- MODULE Paths --------------------------------
(***************************************************************************)
(* Path texts and what they resolve to: the sanitizer's gateway for paths  *)
(* of steps (internal/engine/sanitizer.go), the overlay's own resolution   *)
(* (internal/engine/vfs.go), names that become one path element            *)
(* (internal/engine/compiler.go, cmd/serve.go) and the scopes of           *)
(* capabilities (internal/engine/ir.go, validator.go).  The platform is    *)
(* Unix: "/" separates, and there are no volumes.                          *)
(*                                                                         *)
(* A clean path is the sequence of its elements with a flag for a leading  *)
(* "/"; a location is the sequence of elements below the root of a tree.   *)
(* An operator that can fail returns {} or {result}.                       *)
(***************************************************************************)
EXTENDS Texts

Slash == "/"
Up == <<".", ".">>       \* the element ".."
Reserved == <<".", "loom_meta">>
NotIn == {<<>>, <<".">>} \* what Clean drops

\* filepath.Clean, from the elements that are already there.
Walk(rooted, from, parts) ==
  FoldLeft(LAMBDA at, e : IF e \in NotIn THEN at
                          ELSE IF e # Up THEN Append(at, e)
                          ELSE IF at # <<>> /\ Last(at) # Up THEN Front(at)
                          ELSE IF rooted THEN at ELSE Append(at, e),
           from, parts)

Clean(t) ==
  LET rooted == t # <<>> /\ Head(t) = Slash
  IN [rooted |-> rooted, parts |-> Walk(rooted, <<>>, Split(t, Slash))]

PathText(location) == IF location = <<>> THEN <<".">> ELSE Join(location, Slash)

\* filepath.Rel of two absolute clean paths.
Rel(base, target) ==
  LET same == Len(LongestCommonPrefix({base, target}))
  IN [i \in 1..(Len(base) - same) |-> Up] \o SubSeq(target, same + 1, Len(target))

-----------------------------------------------------------------------------
(* vfs.go.                                                                 *)

escapesBase(relative) == relative # <<>> /\ Head(relative) = Up

isWithinBase(base, candidate) == ~escapesBase(Rel(base, candidate))

relativeIfWithinBase(base, candidate) == {r \in {Rel(base, candidate)} : ~escapesBase(r)}

joinWithinBase(base, relative) ==
  {c \in {Walk(TRUE, base, relative)} : isWithinBase(base, c)}

\* filepath.Abs: a relative path counts from the working directory.
normalizeRootPath(t, cwd) ==
  LET path == Clean(TrimSpace(t))
  IN IF Blank(t) THEN {}
     ELSE {Walk(TRUE, IF path.rooted THEN <<>> ELSE cwd, path.parts)}

samePath(left, right) == relativeIfWithinBase(left, right) = {<<>>}

\* Neither root may be the other or lie in it.
normalizedRoots(workspace, shadowRoot) ==
  /\ ~samePath(workspace, shadowRoot)
  /\ ~isWithinBase(workspace, shadowRoot)
  /\ ~isWithinBase(shadowRoot, workspace)

\* Variant: only the directory itself is reserved.
isReservedShadowRelativePathItself(relative) == relative = <<Reserved>>

isReservedShadowRelativePath(relative) == relative # <<>> /\ Head(relative) = Reserved

validateManagedRelativePath(relatives) ==
  {r \in relatives : ~isReservedShadowRelativePath(r)}

\* An absolute path counts from the first of the two roots it lies in.
resolveManagedRelativePath(t, workspace, shadowRoot) ==
  LET path == Clean(TrimSpace(t))
      inWorkspace == relativeIfWithinBase(workspace, path.parts)
  IN IF Blank(t) THEN {}
     ELSE validateManagedRelativePath(
            IF ~path.rooted
              THEN UNION {relativeIfWithinBase(workspace, c) :
                            c \in joinWithinBase(workspace, path.parts)}
            ELSE IF inWorkspace # {} THEN inWorkspace
            ELSE relativeIfWithinBase(shadowRoot, path.parts))

\* sanitizer.go: relative, inside the shadow, and not the shadow itself.
sanitizeCallerRelativePath(t, shadowRoot) ==
  LET path == Clean(TrimSpace(t))
  IN IF path.rooted THEN {}
     ELSE {r \in {Rel(shadowRoot, c) : c \in joinWithinBase(shadowRoot, path.parts)} :
             r # <<>> /\ ~escapesBase(r)}

SanitizeShadowRelPath(shadowRoot, t) ==
  IF Blank(t) THEN {} ELSE {PathText(r) : r \in sanitizeCallerRelativePath(t, shadowRoot)}

\* The location a step's path reaches: the handlers call one after the other.
Target(t, workspace, shadowRoot) ==
  UNION {resolveManagedRelativePath(s, workspace, shadowRoot) :
           s \in SanitizeShadowRelPath(shadowRoot, t)}

-----------------------------------------------------------------------------
(* Names that become one element of a path.                                *)

\* compiler.go, for session and skill ids.
sanitizeReceiptPathComponent(t) ==
  LET path == Clean(TrimSpace(t))
  IN ~Blank(t) /\ ~path.rooted /\ Len(path.parts) = 1 /\ path.parts # <<Up>>

\* Variant: a name may lead into a directory.
validateSkillLookupNameLax(t) == t \notin {<<".">>, Up} /\ Head(t) # Slash

\* serve.go, for the tool a caller asks for.
validateSkillLookupName(t) == t \notin {<<".">>, Up} /\ Slash \notin ToSet(t)

-----------------------------------------------------------------------------
(* Scopes.                                                                 *)

\* Variant: a prefix of the text is enough.
ScopeCoversText(declared, derived) ==
  declared = derived \/ (declared # <<>> /\ IsPrefix(declared, derived))

\* ir.go: the same text, or a prefix of it that ends at a "/".
ScopeCovers(declared, derived) ==
  \/ declared = derived
  \/ /\ declared # <<>>
     /\ IsPrefix(IF Last(declared) = Slash THEN declared ELSE Append(declared, Slash), derived)

\* validator.go: "/" itself, or /etc, /root, /var and what is below them.
highRiskPermissionRoots == {<<"etc">>, <<"root">>, <<"var">>}

isHighRiskPermissionScope(scope) ==
  LET path == Clean(TrimSpace(scope))
  IN path.rooted /\ (path.parts = <<>> \/ Head(path.parts) \in highRiskPermissionRoots)
=============================================================================
