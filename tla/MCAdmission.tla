----------------------------- MODULE MCAdmission -----------------------------
(* Sessions for Admission, in families: each varies one part of a session  *)
(* over everything that can be written with a few pieces.                  *)
EXTENDS Admission

(* Tokens.  The byte of a token is its place here, counted from zero, so   *)
(* that lengths and contents meet.                                         *)
Tokens ==
  <<"NUL", "SOH", "x", "a", "b", " ", "$", ".", "/", "0", "1", ";", "=", "{", "}", "out", "put",
    "loom_meta", "loom", "mock", "true", "false", "rm", "etc", "skill", "step_", "2", "s",
    "i", "f", "v1", "params", "steps", "caps", "path", "content", "action", "read_file",
    "write_file", "legacy", "args:read_file", "args:write_file", "args:legacy", "vfs.read",
    "vfs.write", "string", "int", "bool", "float", "blob", "tool", "sub", "home", "work", "id",
    "shadow">>

MCByte == [k \in ToSet(Tokens) |-> <<(CHOOSE i \in DOMAIN Tokens : Tokens[i] = k) - 1>>]

Zero == <<"0">>
One == <<"1">>
MCCanonical ==
  [int |-> (Zero :> Zero @@ One :> One @@ <<"0", "1">> :> One),
   bool |-> (One :> <<"true">> @@ Zero :> <<"false">> @@ <<"true">> :> <<"true">>
               @@ <<"false">> :> <<"false">>),
   float |-> (Zero :> Zero @@ One :> One @@ <<"1", ".", "0">> :> One)]

A == <<"a">>
B == <<"b">>
X == <<"x">>
Out == <<"out">>
Ref(n) == <<"$", "{">> \o n \o <<"}">>

\* All texts of at most n pieces.
Upto(pieces, n) == {FlattenSeq(s) : s \in UNION {[1..m -> pieces] : m \in 0..n}}

MCHome == <<<<"home">>>>
MCSession == <<"id">>
Work == <<<<"work">>>>

-----------------------------------------------------------------------------
(* Skills and sessions.                                                    *)

Param(type, default, required) == [type |-> type, default |-> default, required |-> required]
Cap(kind, scope) == [kind |-> kind, scope |-> scope]
StepAs(kind, path, content, ins, outs) ==
  [id |-> <<"step_">>, kind |-> kind, path |-> path, content |-> content,
   inputs |-> ins, outputs |-> outs]
Write(path, content) == StepAs("write_file", path, content, <<>>, <<>>)
ReadAt(path) == StepAs("read_file", path, <<>>, <<>>, <<>>)
Legacy(content) == StepAs("legacy", <<>>, content, <<>>, <<>>)

Make(params, steps, caps) ==
  [version |-> "v1", id |-> <<"skill">>, prov |-> "none", params |-> params,
   steps |-> steps, caps |-> caps]

\* Declares what its steps use.
Granted(params, steps) ==
  Make(params, steps,
       [i \in DOMAIN steps |->
          Cap(IF steps[i].kind = "read_file" THEN "vfs.read" ELSE "vfs.write", steps[i].path)])

Json(k) == [format |-> "json", skill |-> k]
Lines(ls) == [format |-> "lines", lines |-> ls]

Command == {"verify", "run", "call"}

\* A session with one document, called by its name.
Open(cmd, suffix, doc) ==
  [cmd |-> cmd, lib |-> [stem |-> <<"tool">>, suffix |-> suffix] :> doc, ask |-> <<"tool">>,
   suffix |-> suffix, flags |-> <<>>, args |-> <<>>, policy |-> "refuse",
   root |-> <<".">>, cwd |-> Work, base |-> {}]

Do(cmd, k) == Open(cmd, ".loom.json", Json(k))

JSON(kind, t) == [json |-> kind, text |-> t]

\* The same inputs for every command that takes any.
With(c, args) ==
  LET names == SetToSeq(DOMAIN args)
  IN [c EXCEPT !.args = [n \in DOMAIN args |-> JSON("string", args[n])],
               !.flags = [i \in DOMAIN names |-> names[i] \o <<"=">> \o args[names[i]]]]

-----------------------------------------------------------------------------
(* The families.                                                           *)

\* Contents with references; the value of a is a reference itself.
TwoParams == A :> Param("string", <<>>, TRUE) @@ B :> Param("string", <<>>, FALSE)
Pieces == {<<"$", "{">>, <<"}">>, A, One, <<"$">>, Ref(A), Ref(B)}
Template(t) == Granted(TwoParams, <<Write(Out, t)>>)
Templates ==
  {With(Do("run", Template(t)), A :> Ref(B) @@ B :> X) : t \in Upto(Pieces, 3)}
  \cup {With(Do("call", Template(t)), A :> Ref(B)) : t \in Upto(Pieces, 2)}

\* Spellings of a path, granted as written.
PathPieces == {<<".", "/">>, <<".", ".", "/">>, <<"x", "/">>, X, <<" ">>, <<"/">>,
               <<".", "loom_meta">>}
Blanks == <<".", "/", " ", ".", "/", " ", "x">>
Spellings ==
  {Do("run", Granted(<<>>, <<Write(p, A)>>)) : p \in Upto(PathPieces, 3) \cup {Blanks}}

\* Paths under granted scopes.
Under1 == {Out, <<"out", "/", "x">>, <<"out", "put">>, <<"out", "put", "/", "x">>, X,
           <<".", "/", "out">>, <<"out", "/", "/", "x">>, <<"out", "/", ".", ".", "/", "x">>}
Scopes ==
  {Do("run", Make(<<>>, <<step>>, caps)) :
     step \in {Write(p, A) : p \in Under1} \cup {ReadAt(Out)},
     caps \in {<<>>} \cup {<<Cap(k, s)>> : k \in {"vfs.read", "vfs.write"},
        s \in Under1 \cup {<<>>, <<"out", "/">>, <<"/">>, <<"/", "etc", "/", "x">>}}}

\* Paths that go on from a granted directory, up and down.
Climbing ==
  {Do("run", Make(<<>>, <<Write(Out \o <<"/">> \o p \o X, A)>>, <<Cap("vfs.write", s)>>)) :
     p \in Upto({<<".", "/">>, <<".", ".", "/">>, <<"x", "/">>}, 3),
     s \in {Out, <<"out", "/">>, <<"out", "/", "x">>}}

\* Types, defaults and what is passed.
Typed ==
  {Param(t, d, r) : t \in {"string", "int", "bool", "float", "blob"},
     d \in {<<>>, One, <<"true">>, <<";">>}, r \in BOOLEAN}
Passed == {<<>>} \cup {A :> t : t \in {<<"0", "1">>, <<"1", ".", "0">>, <<"true">>, <<";">>}}
Contracts ==
  {With(Do(cmd, Granted(A :> p, <<Write(Out, Ref(A))>>)), args) :
     cmd \in {"run", "call"}, p \in Typed, args \in Passed}
  \cup {Do("verify", Granted(A :> p, <<Write(Out, Ref(A))>>)) : p \in Typed}
  \cup {[Do("call", Granted(A :> p, <<Write(Out, Ref(A))>>)) EXCEPT !.args = A :> v] :
          p \in Typed, v \in {JSON("number", One), JSON("boolean", <<"true">>),
                             JSON("null", <<>>), JSON("other", <<>>)}}

\* Two inputs whose texts run into each other, undeclared ones, bad flags.
Inputs ==
  {With(Do("call", Granted(TwoParams, <<Write(Out, Ref(A))>>)), args) :
     args \in {A :> X @@ B :> s : s \in {X, <<>>, <<"s">>}}
        \cup {A :> X \o s : s \in {<<"NUL">>, <<"NUL", "b", "NUL", "s", "NUL">>}}
        \cup {A :> s : s \in {<<>>, <<"x", "b", "s">>, <<"x", "b", "s", "x">>}}
        \cup {X :> X, A :> X @@ X :> X}}
  \cup {[Do("run", Template(A)) EXCEPT !.flags = f] :
          f \in {<<X>>, <<<<"=", "x">>>>, <<<<"a", "=", "x">>, <<"a", "=", "=">>>>}}

\* Dataflow and the static audit.
Steps ==
  {<<StepAs("write_file", Out, c, X :> v, <<o>>),
     StepAs(k, IF k = "legacy" THEN <<>> ELSE Out, A, X :> w, <<>>)>> :
     c \in {A, <<"rm">>}, v \in {A, <<"1">>, <<"rm">>, <<"$", "{">>}, o \in {B, <<" ">>},
     w \in {Ref(B), B, X \o Ref(X)}, k \in {"write_file", "legacy"}}
Flows ==
  {With(Do("run", Granted(A :> Param("string", <<>>, TRUE), s)), A :> X) : s \in Steps}
  \cup {Do("verify", [Granted(<<>>, <<Write(Out, A)>>) EXCEPT !.id = id, !.steps[1].id = s]) :
          id \in {<<"skill">>, <<" ">>, <<".">>, Up, <<"/", "x">>, <<"x", "/", "a">>},
          s \in {<<"step_">>, <<" ">>}}

\* Runs over files that are in the way.
Runs ==
  {[Do("run", [Granted(<<>>, s) EXCEPT !.prov = prov]) EXCEPT !.base = b, !.policy = p] :
     s \in {<<Write(X, A), ReadAt(X)>>, <<Write(X, A), Write(<<"x", "/", "a">>, B)>>,
            <<Write(<<"x", "/", "a">>, B), Write(X, A)>>, <<Write(X, A), Write(X, B)>>,
            <<Write(<<"x", "/", "a">>, B), ReadAt(X)>>, <<Write(X, A), ReadAt(<<"x", "/", "a">>)>>,
            <<ReadAt(X), Write(Out, A)>>, <<ReadAt(<<".", "loom_meta">>)>>, <<Legacy(A)>>},
     b \in {{}, {<<X>>}, {<<X, A>>}},
     prov \in {"none", "draft"}, p \in {"refuse", "warn"}}
  \cup {[Do(cmd, [Granted(<<>>, <<Write(X, A)>>) EXCEPT !.prov = prov]) EXCEPT !.policy = p] :
          cmd \in {"run"}, prov \in {"none", "draft", "reviewed", "mismatch", "stub"},
          p \in {"refuse", "allow", "bogus"}}

\* Where a command is started, and the workspace root it is given.
Roots ==
  {[Do(cmd, Granted(<<>>, <<Write(X, A)>>)) EXCEPT !.cwd = cwd, !.root = root] :
     cmd \in Command, root \in {<<".">>, Up, X, <<"/">>},
     cwd \in {Work, MCHome, <<>>, MCHome \o << <<".", "loom">>, <<"shadow">> >>}}

-----------------------------------------------------------------------------
\* Skills whose fingerprints might coincide.
Hashed ==
  {Granted(<<>>, s) : s \in
     {<<Write(X, A)>>, <<Write(A, X)>>, <<ReadAt(X)>>, <<Write(X \o A, <<>>)>>,
      <<Write(<<>>, X \o A)>>, <<Write(X, A), Write(A, X)>>, <<Write(A, X), Write(X, A)>>,
      <<Write(X, <<"a", "SOH">>)>>, <<Write(<<"x", "SOH">>, A)>>,
      <<StepAs("write_file", X, A, X :> One, <<>>)>>, <<StepAs("write_file", X, A, <<>>, <<X>>)>>,
      <<StepAs("write_file", X, A, <<>>, <<X, B>>)>>, <<StepAs("write_file", X, A, <<>>, <<X \o B>>)>>,
      <<StepAs("write_file", X, A, <<>>, <<X \o B, A>>)>>,
      <<StepAs("write_file", X, A, <<>>, <<X, B \o A>>)>>}}
  \cup {Make(p, <<>>, c) :
     p \in {<<>>, A :> Param("string", B, FALSE), A :> Param("string", B, TRUE),
            <<"a", "string">> :> Param("string", B, FALSE),
            A :> Param("string", <<>>, FALSE) @@ B :> Param("string", <<>>, FALSE)},
     c \in {<<>>, <<Cap("vfs.read", X), Cap("vfs.write", A)>>,
            <<Cap("vfs.write", A), Cap("vfs.read", X)>>, <<Cap("vfs.read", X), Cap("vfs.read", X)>>}}
Hashes ==
  {Do("verify", k) : k \in Hashed}
  \cup {Do("verify", [k EXCEPT !.id = A, !.prov = "draft"]) : k \in Hashed}

\* Markdown documents: one with everything, and what small edits make of it.
Fence == [kind |-> "fence"]
Head2(t) == [kind |-> "head", title |-> t]
ParamLine(n, type, d) == [kind |-> "param", name |-> n, type |-> type, default |-> d,
                          required |-> d = <<>>]
Perm(n, s) == [kind |-> "perm", name |-> n, scopes |-> s]
Instr(n, t) == [kind |-> "instr", num |-> n, text |-> t]
Blank1 == [kind |-> "blank"]
Junk == [kind |-> "junk"]

Document ==
  <<Fence, [kind |-> "field", key |-> "name", text |-> <<" ", "tool">>], Fence,
    Head2("Parameters"), ParamLine(A, "integer", <<"1", ".", "0">>), ParamLine(B, "string", <<>>),
    Head2("Permissions"), Perm("fs.read", <<X>>), Perm("fs.write", <<Out, <<" ", "x">>>>),
    Perm("fs.read", <<A>>), Blank1,
    Head2("Instructions"), Instr("1", Ref(A) \o <<" ">> \o Ref(B)), Instr("2", X)>>

Cut(i) == SubSeq(Document, 1, i - 1) \o SubSeq(Document, i + 1, Len(Document))
Insert(i, l) == SubSeq(Document, 1, i - 1) \o <<l>> \o SubSeq(Document, i, Len(Document))
At == DOMAIN Document
Edits ==
  {Document} \cup {Cut(i) : i \in At}
  \cup {Insert(i, Document[j]) : i, j \in At}
  \cup {Insert(i, l) : i \in At, l \in {Junk, Head2("Notes")}}
  \cup {[Document EXCEPT ![i] = l] : i \in {13, 14}, l \in
          {Instr(n, t) : n \in {"1", "2"},
             t \in {Ref(A) \o Ref(X), Ref(X), <<"$", "{">>, <<"rm">>, <<" ">>}}}
Documents ==
  {Open("verify", ".md", Lines(d)) : d \in Edits}
  \cup {Open(cmd, s, doc) : cmd \in Command, s \in {".md", "", ".json", ".txt", ".LOOM.JSON"},
          doc \in {Lines(Document), Lines(<<Fence, Head2("Parameters")>>),
                   Json(Granted(<<>>, <<Write(X, A)>>)),
                   Json([Granted(<<>>, <<Write(X, A)>>) EXCEPT !.version = "v2"])}}

\* A library with names that lead somewhere and names that do not.
Library ==
  LET File(stem, suffix) == [stem |-> stem, suffix |-> suffix]
      good(n) == Json([Granted(<<>>, <<Write(X, A)>>) EXCEPT !.id = n])
  IN File(A, ".loom.json") :> good(A) @@ File(A, ".md") :> Lines(Document)
       @@ File(B, ".md") :> Lines(Document) @@ File(B, ".LOOM.JSON") :> good(B)
       @@ File(X, ".json") :> good(X) @@ File(Out, ".loom.json") :> Lines(Document)
       @@ File(<<"sub", "/", "x">>, ".loom.json") :> good(<<"sub">>)
Lookups ==
  {[With(Do("call", Template(A)), IF n = B THEN B :> X ELSE <<>>)
      EXCEPT !.lib = Library, !.ask = n] :
     n \in {A, B, X, Out, <<" ", "a">>, <<" ">>, <<".">>, Up, <<"sub", "/", "x">>,
            <<"/", "a">>, <<"sub">>}}

MCCase ==
  Templates \cup Spellings \cup Scopes \cup Climbing \cup Contracts \cup Inputs \cup Flows \cup Runs
    \cup Roots \cup Hashes \cup Documents \cup Lookups
=============================================================================
