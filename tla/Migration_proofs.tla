-------------------------- MODULE Migration_proofs --------------------------
(***************************************************************************)
(* Proofs about Migration: every variable keeps its type, a migrated skill *)
(* that gets past the default draft policy was accepted, a migrator        *)
(* replaces only what it was told to, and the drafts it reports are in the *)
(* library, whatever the numbers of processes, skills, edits and failures. *)
(***************************************************************************)
EXTENDS Migration, TLAPS

USE DEF vars, migVars, accVars

\* The constants have members to choose.
LEMMA Inhabited ==
  /\ Len(Order) \in Nat /\ 1 \in 1 .. Len(Order)
  /\ \A i \in 1 .. Len(Order) : Order[i] \in Path
  /\ \A p \in Path : <<IdOf[p], 0>> \in Name
  /\ SomeName \in Name
  /\ SomeText \in Text
<1>1. Order \in Seq(Path) /\ Order # <<>> /\ Text # {} /\ MaxCopies \in Nat
  BY MigrationAssumption
<1>2. /\ Len(Order) \in Nat /\ Len(Order) # 0
      /\ \A i \in 1 .. Len(Order) : Order[i] \in Path
  BY <1>1
<1>3. 1 \in 1 .. Len(Order)
  BY <1>2
<1>4. \A p \in Path : <<IdOf[p], 0>> \in Name
  BY <1>1 DEF Name, Id
<1>5. \E n : n \in Name
  BY <1>2, <1>3, <1>4
<1>6. SomeName \in Name
  BY <1>5 DEF SomeName
<1>7. SomeText \in Text
  BY <1>1 DEF SomeText
<1> QED
  BY <1>2, <1>3, <1>4, <1>6, <1>7

\* Absent is neither a file nor a text, so a file that is there has its fields.
LEMMA AbsentIsNoFile == Absent \notin File /\ Absent \notin Text
  BY MigrationAssumption

\* A resolved conflict stops the item or names a file in the library.
LEMMA ResolvedType ==
  ASSUME NEW o \in OptionsType, NEW l, NEW t \in Name,
         NEW r, r = resolveConflict(o, l, t)
  PROVE  r[1] \in {"", "skipped", "refused", "renamed", "overwritten"} /\ r[2] \in Name
<1>1. nextAvailableName(l, t) \subseteq Name
  <2> SUFFICES ASSUME NEW n \in nextAvailableName(l, t) PROVE n \in Name
    OBVIOUS
  <2>1. PICK k \in 1 .. MaxCopies : n = <<t[1], k>>
    BY DEF nextAvailableName
  <2>2. t[1] \in Id /\ k \in 0 .. MaxCopies
    BY MigrationAssumption DEF Name
  <2> QED
    BY <2>1, <2>2 DEF Name
<1>2. nextAvailableName(l, t) # {} =>
        (CHOOSE n \in nextAvailableName(l, t) : TRUE) \in Name
  BY <1>1
<1>3. o.conflict \in {"skip", "rename", "overwrite"}
  BY DEF OptionsType
<1> QED
  BY <1>2, <1>3 DEF resolveConflict

\* A draft is a file.
LEMMA DraftType ==
  ASSUME TypeOK, NEW m \in Migrator, pc[m] = "emit", Entry(m) \in Text,
         NEW c \in classify(opts[m], Entry(m))
  PROVE  Draft(m, c) \in File /\ c[1] \in Written
<1>1. /\ c[1] \in {"mechanical", "llm-assisted", "stub"}
      /\ c[2] \in {"translated", "blank"}
  BY DEF classify, Translate
<1>2. Order[at[m]] \in Path
  BY Inhabited DEF TypeOK
<1>3. Draft(m, c).seal \in Seal
  BY <1>1, <1>2 DEF Draft, Seal, Body
<1> QED
  BY <1>1, <1>3 DEF Draft, File, Written
-----------------------------------------------------------------------------
(* TypeOK is inductive together with Phase, and Kept with both.            *)

\* A migrator that is about to write has a text to translate.
Phase == \A m \in Migrator : pc[m] = "emit" => Entry(m) \in Text

\* Every signature in the library is a seal that was accepted, and so is what
\* an acceptor is about to sign.  The copy it holds is a file.
Kept ==
  /\ \A n \in Name : lib[n] # Absent => lib[n].sig \subseteq accepted
  /\ \A a \in Acceptor : apc[a] \in {"verify", "write"} => held[a] # Absent
  /\ \A a \in Acceptor : apc[a] = "write" => held[a].seal \in accepted

Inv == TypeOK /\ Phase /\ Kept

\* What a library has been signed with is in one of its files.
LEMMA SignatureIsThere ==
  ASSUME NEW l, NEW k \in Signatures(l)
  PROVE  \E n \in Name : l[n] # Absent /\ k \in l[n].sig
  BY Zenon DEF Signatures

\* And the other way round.
LEMMA SignatureIsKnown ==
  ASSUME NEW l, NEW n \in Name, l[n] # Absent
  PROVE  l[n].sig \subseteq Signatures(l)
  BY Zenon DEF Signatures

\* An empty report is a report.
LEMMA EmptyReport == <<>> \in Seq(Item)
  OBVIOUS

\* The initial states have their types.
LEMMA TypeInit == Init => TypeOK
<1> SUFFICES ASSUME Init PROVE TypeOK
  OBVIOUS
<1> USE Inhabited, MigrationAssumption DEF Init
<1>1. src \in [Path -> Text \cup {Absent}] /\ lib \in [Name -> File \cup {Absent}]
  OBVIOUS
<1>2. opts \in [Migrator -> OptionsType]
  OBVIOUS
<1>3. accepted \subseteq Seal
  <2>1. \A n \in Name : lib[n] # Absent => lib[n].sig \subseteq Seal
    BY <1>1 DEF File
  <2>2. SUFFICES ASSUME NEW k \in accepted PROVE k \in Seal
    OBVIOUS
  <2>3. PICK n \in Name : lib[n] # Absent /\ k \in lib[n].sig
    BY <2>2, SignatureIsThere
  <2> QED
    BY <2>1, <2>3
<1>4. items \in [Migrator -> Seq(Item)]
  BY EmptyReport
<1>5. seen \in [Migrator -> [Name -> File \cup {Absent}]]
  BY <1>1
<1> QED
  BY <1>1, <1>2, <1>3, <1>4, <1>5 DEF TypeOK

\* Passing to the next source file keeps pc and at in range.
LEMMA PastType ==
  ASSUME TypeOK, NEW m \in Migrator,
         NEW l \in {"idle", "resolve"}, NEW end \in {"resolve", "done"},
         Past(m, l, end)
  PROVE  /\ pc' \in [Migrator -> {"idle", "resolve", "emit", "done"}]
         /\ at' \in [Migrator -> 1 .. Len(Order)]
<1>1. /\ pc \in [Migrator -> {"idle", "resolve", "emit", "done"}]
      /\ at \in [Migrator -> 1 .. Len(Order)]
  BY DEF TypeOK
<1>2. CASE at[m] < Len(Order)
  BY <1>1, <1>2, Inhabited DEF Past, Goto
<1>3. CASE ~(at[m] < Len(Order))
  BY <1>1, <1>3, Inhabited DEF Past, Goto
<1> QED
  BY <1>2, <1>3

\* So does a report, which adds an item.
LEMMA ReportType ==
  ASSUME TypeOK, NEW m \in Migrator, NEW name \in Name,
         NEW status \in Written \cup {"skipped", "refused", "error"},
         Report(m, name, status)
  PROVE  /\ pc' \in [Migrator -> {"idle", "resolve", "emit", "done"}]
         /\ at' \in [Migrator -> 1 .. Len(Order)]
         /\ items' \in [Migrator -> Seq(Item)]
<1>1. Past(m, "resolve", "done")
  BY DEF Report
<1>2. [path |-> Order[at[m]], name |-> name, status |-> status] \in Item
  BY Inhabited DEF TypeOK, Item
<1>3. items' \in [Migrator -> Seq(Item)]
  <2> DEFINE x == [path |-> Order[at[m]], name |-> name, status |-> status]
  <2>1. items \in [Migrator -> Seq(Item)]
    BY DEF TypeOK
  <2>2. Append(items[m], x) \in Seq(Item)
    BY <1>2, <2>1
  <2>3. items' = [items EXCEPT ![m] = Append(items[m], x)]
    BY DEF Report
  <2> HIDE DEF x
  <2> QED
    BY <2>1, <2>2, <2>3
<1> QED
  BY <1>1, <1>3, PastType

\* Every step of a migrator keeps the types.
LEMMA TypeMigrator ==
  ASSUME TypeOK, Phase, NEW m \in Migrator,
         \/ Collect(m) \/ NoEntry(m) \/ ParseError(m) \/ Resolve(m)
         \/ FailResolve(m) \/ Emit(m) \/ FailEmit(m)
  PROVE  TypeOK'
<1>1. Order[at[m]] \in Path /\ Target(m) \in Name /\ opts[m] \in OptionsType
      /\ dest[m] \in Name
  BY Inhabited DEF TypeOK, Target
<1>2. faults \in Nat
  BY DEF TypeOK
<1>3. CASE Collect(m)
  <2>1. /\ pc' \in [Migrator -> {"idle", "resolve", "emit", "done"}]
        /\ at' \in [Migrator -> 1 .. Len(Order)]
    BY <1>3, PastType DEF Collect
  <2>2. entries' \in [Migrator -> [Path -> Text \cup {Absent}]]
    BY <1>1, <1>3 DEF Collect, TypeOK
  <2> QED
    BY <1>3, <2>1, <2>2 DEF Collect, TypeOK
<1>4. CASE NoEntry(m)
  <2>1. /\ pc' \in [Migrator -> {"idle", "resolve", "emit", "done"}]
        /\ at' \in [Migrator -> 1 .. Len(Order)]
    BY <1>4, PastType DEF NoEntry
  <2> QED
    BY <1>4, <2>1 DEF NoEntry, TypeOK
<1>5. CASE ParseError(m)
  <2>1. /\ pc' \in [Migrator -> {"idle", "resolve", "emit", "done"}]
        /\ at' \in [Migrator -> 1 .. Len(Order)]
        /\ items' \in [Migrator -> Seq(Item)]
    BY <1>1, <1>5, ReportType DEF ParseError
  <2> QED
    BY <1>5, <2>1 DEF ParseError, TypeOK
<1>6. CASE Resolve(m)
  <2> DEFINE r == resolveConflict(opts[m], lib, Target(m))
  <2>1. r[2] \in Name
    BY <1>1, ResolvedType
  <2>2. /\ pc' \in [Migrator -> {"idle", "resolve", "emit", "done"}]
        /\ at' \in [Migrator -> 1 .. Len(Order)]
        /\ items' \in [Migrator -> Seq(Item)]
        /\ dest' \in [Migrator -> Name]
        /\ how' \in [Migrator -> {"", "renamed", "overwritten"}]
    <3>1. CASE /\ r[1] \in {"skipped", "refused"}
               /\ Report(m, r[2], r[1])
               /\ UNCHANGED <<dest, how>>
      BY <2>1, <3>1, ReportType DEF TypeOK
    <3>2. CASE /\ r[1] \in {"", "renamed", "overwritten"}
               /\ dest' = [dest EXCEPT ![m] = r[2]]
               /\ how' = [how EXCEPT ![m] = r[1]]
               /\ Goto(m, "emit")
               /\ UNCHANGED <<at, items>>
      BY <2>1, <3>2 DEF TypeOK, Goto
    <3> QED
      BY <1>6, <3>1, <3>2 DEF Resolve
  <2>3. seen' \in [Migrator -> [Name -> File \cup {Absent}]]
    BY <1>6 DEF Resolve, TypeOK
  <2>4. UNCHANGED <<src, lib, opts, entries, accVars, edits, faults>>
    BY <1>6 DEF Resolve
  <2> QED
    BY <2>2, <2>3, <2>4 DEF TypeOK
<1>7. CASE FailResolve(m)
  <2>1. /\ pc' \in [Migrator -> {"idle", "resolve", "emit", "done"}]
        /\ at' \in [Migrator -> 1 .. Len(Order)]
        /\ items' \in [Migrator -> Seq(Item)]
    BY <1>1, <1>7, ReportType DEF FailResolve
  <2>2. faults' \in Nat
    BY <1>2, <1>7 DEF FailResolve, Faulty
  <2> QED
    BY <1>7, <2>1, <2>2 DEF FailResolve, TypeOK
<1>8. CASE Emit(m)
  <2>1. PICK c \in classify(opts[m], Entry(m)) :
          /\ pc[m] = "emit"
          /\ lib' = IF opts[m].execute THEN [lib EXCEPT ![dest[m]] = Draft(m, c)] ELSE lib
          /\ Report(m, dest[m], IF how[m] = "" THEN c[1] ELSE how[m])
          /\ UNCHANGED <<src, opts, entries, dest, how, seen, accVars, edits, faults>>
    BY <1>8 DEF Emit
  <2>2. Draft(m, c) \in File /\ c[1] \in Written
    BY <1>8, DraftType DEF Emit, Phase
  <2>3. (IF how[m] = "" THEN c[1] ELSE how[m]) \in Written
    BY <2>2 DEF TypeOK, Written
  <2>4. /\ pc' \in [Migrator -> {"idle", "resolve", "emit", "done"}]
        /\ at' \in [Migrator -> 1 .. Len(Order)]
        /\ items' \in [Migrator -> Seq(Item)]
    BY <1>1, <2>1, <2>3, ReportType
  <2>5. lib' \in [Name -> File \cup {Absent}]
    BY <1>1, <2>1, <2>2 DEF TypeOK
  <2> QED
    BY <2>1, <2>4, <2>5 DEF TypeOK
<1>9. CASE FailEmit(m)
  <2>1. /\ pc' \in [Migrator -> {"idle", "resolve", "emit", "done"}]
        /\ at' \in [Migrator -> 1 .. Len(Order)]
        /\ items' \in [Migrator -> Seq(Item)]
    BY <1>1, <1>9, ReportType DEF FailEmit
  <2>2. faults' \in Nat
    BY <1>2, <1>9 DEF FailEmit, Faulty
  <2>3. lib' \in [Name -> File \cup {Absent}]
    BY <1>1, <1>9 DEF FailEmit, Botched, TypeOK
  <2> QED
    BY <1>9, <2>1, <2>2, <2>3 DEF FailEmit, TypeOK
<1> QED
  BY <1>3, <1>4, <1>5, <1>6, <1>7, <1>8, <1>9
\* Every step of an acceptor keeps the types.
LEMMA TypeAcceptor ==
  ASSUME TypeOK, Kept, NEW a \in Acceptor,
         AcceptRead(a) \/ AcceptVerify(a) \/ AcceptWrite(a) \/ FailAccept(a)
  PROVE  TypeOK'
<1>1. chosen[a] \in Name /\ lib[chosen[a]] \in File \cup {Absent} /\ faults \in Nat
  BY DEF TypeOK
<1>2. CASE AcceptRead(a)
  <2>1. apc' \in [Acceptor -> {"idle", "verify", "write", "done", "refused"}]
    BY <1>2 DEF AcceptRead, TypeOK
  <2>2. held' \in [Acceptor -> File \cup {Absent}]
    BY <1>1, <1>2 DEF AcceptRead, TypeOK
  <2> QED
    BY <1>2, <2>1, <2>2 DEF AcceptRead, TypeOK
<1>3. CASE AcceptVerify(a)
  <2>1. apc' \in [Acceptor -> {"idle", "verify", "write", "done", "refused"}]
    BY <1>3 DEF AcceptVerify, TypeOK
  <2>2. held[a].seal \in Seal
    BY <1>3, AbsentIsNoFile DEF AcceptVerify, Kept, TypeOK, File
  <2>3. accepted' \subseteq Seal
    BY <1>3, <2>2 DEF AcceptVerify, TypeOK
  <2> QED
    BY <1>3, <2>1, <2>3 DEF AcceptVerify, TypeOK
<1>4. CASE AcceptWrite(a)
  <2>1. apc' \in [Acceptor -> {"idle", "verify", "write", "done", "refused"}]
    BY <1>4 DEF AcceptWrite, TypeOK
  <2>2. held[a].seal \in Seal
    BY <1>4, AbsentIsNoFile DEF AcceptWrite, Kept, TypeOK, File
  <2>3. [seal |-> held[a].seal, reviewed |-> TRUE, sig |-> {held[a].seal}] \in File
    BY <2>2 DEF File
  <2>4. lib' \in [Name -> File \cup {Absent}]
    BY <1>1, <1>4, <2>3 DEF AcceptWrite, TypeOK
  <2> QED
    BY <1>4, <2>1, <2>4 DEF AcceptWrite, TypeOK
<1>5. CASE FailAccept(a)
  <2>1. apc' \in [Acceptor -> {"idle", "verify", "write", "done", "refused"}]
    BY <1>5 DEF FailAccept, TypeOK
  <2>2. faults' \in Nat
    BY <1>1, <1>5 DEF FailAccept, Faulty
  <2>3. lib' \in [Name -> File \cup {Absent}]
    BY <1>1, <1>5 DEF FailAccept, Botched, TypeOK
  <2> QED
    BY <1>5, <2>1, <2>2, <2>3 DEF FailAccept, TypeOK
<1> QED
  BY <1>2, <1>3, <1>4, <1>5

\* An edit by hand leaves a file, or none, and computes no signature.
LEMMA Edited ==
  ASSUME TypeOK, EditFile
  PROVE  \E n \in Name, f \in File \cup {Absent} :
           /\ lib' = [lib EXCEPT ![n] = f]
           /\ f # Absent => f.sig = {} \/ (lib[n] # Absent /\ f.sig = lib[n].sig)
<1>1. PICK n \in Name :
        \/ /\ lib[n] # Absent
           /\ \E b \in Edit \cup {"garbled"} : lib' = [lib EXCEPT ![n].seal.body = b]
        \/ lib[n] # Absent /\ lib' = [lib EXCEPT ![n].reviewed = ~@]
        \/ lib' = [lib EXCEPT ![n] = Absent]
        \/ \E b \in Edit : lib' = [lib EXCEPT ![n] =
             [seal |-> [body |-> b, mode |-> "none", from |-> Order[1], hash |-> SomeText],
              reviewed |-> FALSE, sig |-> {}]]
  BY DEF EditFile
<1>2. lib \in [Name -> File \cup {Absent}]
  BY DEF TypeOK
<1>3. CASE lib[n] # Absent /\ \E b \in Edit \cup {"garbled"} :
             lib' = [lib EXCEPT ![n].seal.body = b]
  <2>1. PICK b \in Edit \cup {"garbled"} : lib' = [lib EXCEPT ![n].seal.body = b]
    BY <1>3
  <2>2. lib[n] \in File /\ lib[n].seal \in Seal
    BY <1>2, <1>3 DEF File
  <2> DEFINE f == [lib[n] EXCEPT !.seal.body = b]
  <2>3. [lib[n].seal EXCEPT !.body = b] \in Seal
    BY <2>2 DEF Seal, Body
  <2>4. f \in File /\ f.sig = lib[n].sig
    BY <2>2, <2>3 DEF File
  <2>5. lib' = [lib EXCEPT ![n] = f]
    BY <2>1
  <2> QED
    BY <1>3, <2>4, <2>5
<1>4. CASE lib[n] # Absent /\ lib' = [lib EXCEPT ![n].reviewed = ~@]
  <2>1. lib[n] \in File
    BY <1>2, <1>4
  <2> DEFINE f == [lib[n] EXCEPT !.reviewed = ~@]
  <2>2. f \in File /\ f.sig = lib[n].sig
    BY <2>1 DEF File
  <2>3. lib' = [lib EXCEPT ![n] = f]
    BY <1>4
  <2> QED
    BY <1>4, <2>2, <2>3
<1>5. CASE lib' = [lib EXCEPT ![n] = Absent]
  BY <1>5
<1>6. CASE \E b \in Edit : lib' = [lib EXCEPT ![n] =
             [seal |-> [body |-> b, mode |-> "none", from |-> Order[1], hash |-> SomeText],
              reviewed |-> FALSE, sig |-> {}]]
  <2>1. PICK b \in Edit : lib' = [lib EXCEPT ![n] =
             [seal |-> [body |-> b, mode |-> "none", from |-> Order[1], hash |-> SomeText],
              reviewed |-> FALSE, sig |-> {}]]
    BY <1>6
  <2> DEFINE f == [seal |-> [body |-> b, mode |-> "none", from |-> Order[1], hash |-> SomeText],
                   reviewed |-> FALSE, sig |-> {}]
  <2>2. f.seal \in Seal
    BY Inhabited DEF Seal, Body
  <2>3. f \in File /\ f.sig = {}
    BY <2>2 DEF File
  <2> QED
    BY <2>1, <2>3
<1> QED
  BY <1>1, <1>3, <1>4, <1>5, <1>6

\* Edits by hand keep the types.
LEMMA TypeEdit ==
  ASSUME TypeOK, EditSource \/ EditFile
  PROVE  TypeOK'
<1>1. edits' \in Nat
  <2>1. edits' = edits + 1
    BY DEF EditSource, EditFile, ByHand
  <2>2. edits \in Nat
    BY DEF TypeOK
  <2> QED
    BY <2>1, <2>2
<1>2. CASE EditSource
  <2>1. src' \in [Path -> Text \cup {Absent}]
    BY <1>2 DEF EditSource, TypeOK
  <2> QED
    BY <1>1, <1>2, <2>1 DEF EditSource, ByHand, TypeOK
<1>3. CASE EditFile
  <2>1. lib' \in [Name -> File \cup {Absent}]
    BY <1>3, Edited DEF TypeOK
  <2> QED
    BY <1>1, <1>3, <2>1 DEF EditFile, ByHand, TypeOK
<1> QED
  BY <1>2, <1>3
-----------------------------------------------------------------------------
(* Phase and Kept.                                                         *)

\* Only Resolve sends a migrator to emit, and it has looked at the text.
LEMMA PhaseStep ==
  ASSUME TypeOK, Phase, [Next]_vars
  PROVE  Phase'
<1> SUFFICES ASSUME NEW m \in Migrator, pc'[m] = "emit" PROVE Entry(m)' \in Text
  BY DEF Phase
<1>1. pc \in [Migrator -> {"idle", "resolve", "emit", "done"}] /\ at \in [Migrator -> 1 .. Len(Order)]
  BY DEF TypeOK
<1>2. ASSUME UNCHANGED <<pc, at, entries>> PROVE Entry(m)' \in Text
  BY <1>2 DEF Phase, Entry
<1>3. ASSUME NEW o \in Migrator, NEW l \in {"idle", "resolve"},
             NEW end \in {"resolve", "done"}, Past(o, l, end), UNCHANGED entries
      PROVE  Entry(m)' \in Text
  <2>1. o # m /\ pc'[m] = pc[m] /\ at'[m] = at[m]
    BY <1>1, <1>3 DEF Past, Goto
  <2> QED
    BY <1>3, <2>1 DEF Phase, Entry
<1>4. ASSUME NEW o \in Migrator, Collect(o) PROVE Entry(m)' \in Text
  <2>1. o # m /\ pc'[m] = pc[m] /\ at'[m] = at[m]
    BY <1>1, <1>4 DEF Collect, Past, Goto
  <2>2. entries'[m] = entries[m]
    BY <1>4, <2>1 DEF Collect, TypeOK
  <2> QED
    BY <2>1, <2>2 DEF Phase, Entry
<1>5. ASSUME NEW o \in Migrator, Resolve(o) PROVE Entry(m)' \in Text
  <2>1. CASE \E name, status : Report(o, name, status)
    BY <1>3, <1>5, <2>1 DEF Report, Resolve
  <2>2. CASE Goto(o, "emit") /\ UNCHANGED at
    <3>1. CASE o = m
      BY <1>5, <2>2, <3>1 DEF Resolve, Entry
    <3>2. CASE o # m
      BY <1>1, <1>5, <2>2, <3>2 DEF Resolve, Goto, Phase, Entry
    <3> QED
      BY <3>1, <3>2
  <2> QED
    BY <1>5, <2>1, <2>2 DEF Resolve
<1>6. ASSUME NEW o \in Migrator,
             NoEntry(o) \/ ParseError(o) \/ FailResolve(o) \/ Emit(o) \/ FailEmit(o)
      PROVE  Entry(m)' \in Text
  <2>1. Past(o, "resolve", "done") /\ UNCHANGED entries
    BY <1>6 DEF NoEntry, ParseError, FailResolve, Emit, FailEmit, Report
  <2> QED
    BY <1>3, <2>1
<1>7. ASSUME NEW a \in Acceptor,
             AcceptRead(a) \/ AcceptVerify(a) \/ AcceptWrite(a) \/ FailAccept(a)
      PROVE  UNCHANGED <<pc, at, entries>>
  BY <1>7 DEF AcceptRead, AcceptVerify, AcceptWrite, FailAccept
<1>8. ASSUME EditSource \/ EditFile PROVE UNCHANGED <<pc, at, entries>>
  BY <1>8 DEF EditSource, EditFile, ByHand
<1> QED
  BY <1>2, <1>4, <1>5, <1>6, <1>7, <1>8 DEF Next

\* A file that was replaced by one whose signatures are accepted is as good.
LEMMA KeptWrite ==
  ASSUME TypeOK, Kept, NEW n \in Name, NEW f, f # Absent => f.sig \subseteq accepted',
         lib' = [lib EXCEPT ![n] = f] \/ lib' = lib, accepted \subseteq accepted'
  PROVE  \A k \in Name : lib'[k] # Absent => lib'[k].sig \subseteq accepted'
<1> SUFFICES ASSUME NEW k \in Name, lib'[k] # Absent
             PROVE  lib'[k].sig \subseteq accepted'
  OBVIOUS
<1>1. lib'[k] = lib[k] \/ lib'[k] = f
  BY DEF TypeOK
<1> QED
  BY <1>1 DEF Kept

\* No step puts an unaccepted signature into the library.
LEMMA KeptStep ==
  ASSUME TypeOK, Phase, Kept, [Next]_vars
  PROVE  Kept'
<1>1. ASSUME NEW m \in Migrator,
             \/ Collect(m) \/ NoEntry(m) \/ ParseError(m) \/ Resolve(m)
             \/ FailResolve(m) \/ Emit(m) \/ FailEmit(m)
      PROVE  Kept'
  <2>1. UNCHANGED accVars
    BY <1>1 DEF Collect, NoEntry, ParseError, Resolve, FailResolve, Emit, FailEmit
  <2>2. \A k \in Name : lib'[k] # Absent => lib'[k].sig \subseteq accepted'
    <3>1. CASE Emit(m)
      <4>1. PICK c \in classify(opts[m], Entry(m)) :
              lib' = IF opts[m].execute THEN [lib EXCEPT ![dest[m]] = Draft(m, c)] ELSE lib
        BY <3>1 DEF Emit
      <4>2. Draft(m, c).sig = {} /\ dest[m] \in Name
        BY DEF Draft, TypeOK
      <4> QED
        BY <2>1, <4>1, <4>2, KeptWrite
    <3>2. CASE FailEmit(m)
      <4>1. lib' = [lib EXCEPT ![dest[m]] = Absent] \/ lib' = lib
        BY <3>2 DEF FailEmit, Botched
      <4>2. dest[m] \in Name
        BY DEF TypeOK
      <4> QED
        BY <2>1, <4>1, <4>2, KeptWrite
    <3>3. CASE ~Emit(m) /\ ~FailEmit(m)
      BY <1>1, <2>1, <3>3 DEF Collect, NoEntry, ParseError, Resolve, FailResolve, Kept
    <3> QED
      BY <3>1, <3>2, <3>3
  <2> QED
    BY <2>1, <2>2 DEF Kept
<1>2. ASSUME NEW a \in Acceptor, AcceptRead(a) PROVE Kept'
  <2>1. \A b \in Acceptor : b # a => apc'[b] = apc[b] /\ held'[b] = held[b]
    BY <1>2 DEF AcceptRead, TypeOK
  <2>2. apc'[a] \in {"refused", "verify"} /\ (apc'[a] = "verify" => held'[a] # Absent)
    BY <1>2 DEF AcceptRead, TypeOK
  <2> QED
    BY <1>2, <2>1, <2>2 DEF AcceptRead, Kept
<1>3. ASSUME NEW a \in Acceptor, AcceptVerify(a) PROVE Kept'
  <2>1. \A b \in Acceptor : b # a => apc'[b] = apc[b]
    BY <1>3 DEF AcceptVerify, TypeOK
  <2>2. apc'[a] = "write" => held[a].seal \in accepted'
    BY <1>3 DEF AcceptVerify, TypeOK
  <2>3. apc[a] = "verify" /\ held' = held /\ lib' = lib /\ accepted \subseteq accepted'
    BY <1>3 DEF AcceptVerify
  <2> QED
    BY <2>1, <2>2, <2>3 DEF Kept
<1>4. ASSUME NEW a \in Acceptor, AcceptWrite(a) \/ FailAccept(a) PROVE Kept'
  <2>1. \A b \in Acceptor : apc'[b] \in {"verify", "write"} => apc'[b] = apc[b]
    BY <1>4 DEF AcceptWrite, FailAccept, TypeOK
  <2>2. UNCHANGED <<held, accepted>> /\ apc[a] = "write" /\ chosen[a] \in Name
    BY <1>4 DEF AcceptWrite, FailAccept, TypeOK
  <2>3. \A k \in Name : lib'[k] # Absent => lib'[k].sig \subseteq accepted'
    <3>1. CASE AcceptWrite(a)
      <4> DEFINE f == [seal |-> held[a].seal, reviewed |-> TRUE, sig |-> {held[a].seal}]
      <4>1. f.sig \subseteq accepted'
        BY <2>2 DEF Kept
      <4>2. lib' = [lib EXCEPT ![chosen[a]] = f]
        BY <3>1 DEF AcceptWrite
      <4> QED
        BY <2>2, <4>1, <4>2, KeptWrite
    <3>2. CASE FailAccept(a)
      <4>1. lib' = [lib EXCEPT ![chosen[a]] = Absent] \/ lib' = lib
        BY <3>2 DEF FailAccept, Botched
      <4> QED
        BY <2>2, <4>1, KeptWrite
    <3> QED
      BY <1>4, <3>1, <3>2
  <2> QED
    BY <2>1, <2>2, <2>3 DEF Kept
<1>5. ASSUME EditSource PROVE Kept'
  BY <1>5 DEF EditSource, ByHand, Kept
<1>6. ASSUME EditFile PROVE Kept'
  <2>1. UNCHANGED accVars
    BY <1>6 DEF EditFile, ByHand
  <2>2. PICK n \in Name, f \in File \cup {Absent} :
           /\ lib' = [lib EXCEPT ![n] = f]
           /\ f # Absent => f.sig = {} \/ (lib[n] # Absent /\ f.sig = lib[n].sig)
    BY <1>6, Edited
  <2>3. f # Absent => f.sig \subseteq accepted'
    BY <2>1, <2>2 DEF Kept
  <2>4. \A k \in Name : lib'[k] # Absent => lib'[k].sig \subseteq accepted'
    BY <2>1, <2>2, <2>3, KeptWrite
  <2> QED
    BY <2>1, <2>4 DEF Kept
<1>7. ASSUME UNCHANGED vars PROVE Kept'
  BY <1>7 DEF Kept
<1> QED
  BY <1>1, <1>2, <1>3, <1>4, <1>5, <1>6, <1>7 DEF Next

-----------------------------------------------------------------------------
(* The theorems.                                                           *)

\* The invariant the theorems below rest on.
LEMMA InvarianceInit == Init => Inv
<1> SUFFICES ASSUME Init PROVE Inv
  OBVIOUS
<1>1. Phase
  BY DEF Init, Phase
<1>2. \A a \in Acceptor : apc[a] \notin {"verify", "write"}
  BY DEF Init
<1>3. accepted = Signatures(lib)
  BY DEF Init
<1>4. Kept
  BY <1>2, <1>3, SignatureIsKnown DEF Kept
<1> QED
  BY <1>1, <1>4, TypeInit DEF Inv

LEMMA InvarianceNext == Inv /\ [Next]_vars => Inv'
<1> SUFFICES ASSUME Inv, [Next]_vars PROVE Inv'
  OBVIOUS
<1>1. TypeOK'
  <2>1. CASE UNCHANGED vars
    BY <2>1 DEF Inv, TypeOK
  <2>2. CASE Next
    BY <2>2, TypeMigrator, TypeAcceptor, TypeEdit DEF Inv, Next
  <2> QED
    BY <2>1, <2>2
<1> QED
  BY <1>1, PhaseStep, KeptStep DEF Inv

THEOREM Invariance == Spec => []Inv
  BY InvarianceInit, InvarianceNext, PTL DEF Spec

\* Every variable keeps its type, for every set of options, sources and
\* libraries.
THEOREM TypeCorrect == Spec => []TypeOK
  BY Invariance, PTL DEF Inv

\* The human's word is behind every migrated skill that runs by default: a
\* review flag set by hand, an edit after the review, a second migration and a
\* race of two acceptors do not get an unaccepted body past the gate.
THEOREM OnlyAcceptedDraftsRun == Spec => []ExecutedWasAccepted
<1>1. Inv => ExecutedWasAccepted
  <2> SUFFICES ASSUME Inv, NEW n \in Name, lib[n] # Absent, lib[n].seal.mode # "none",
                      enforceDraftPolicy(lib[n], "refuse")
               PROVE  lib[n].seal \in accepted
    BY DEF ExecutedWasAccepted
  <2>1. lib[n].sig = {lib[n].seal}
    BY DEF enforceDraftPolicy
  <2> QED
    BY <2>1 DEF Inv, Kept
<1> QED
  BY <1>1, Invariance, PTL

-----------------------------------------------------------------------------
(* What a migration replaces and what it leaves behind.                    *)

\* The file a migrator is about to write was not there when it looked, or it
\* was told to overwrite it.
Decided(m) ==
  pc[m] = "emit" /\ seen[m][dest[m]] # Absent =>
    opts[m].conflict = "overwrite" /\ (opts[m].force \/ ~isTargetReviewed(seen[m][dest[m]]))

\* Nobody but m has touched the library.
Alone(m) ==
  /\ edits = 0
  /\ \A a \in Acceptor : apc[a] \notin {"done", "refused"}
  /\ \A o \in Migrator \ {m} : items[o] = <<>>

\* Item i, if it is reported as written, is in the library or was overwritten.
Lands(m, i) ==
  opts[m].execute /\ items[m][i].status \in Written =>
    \/ /\ lib[items[m][i].name] # Absent
       /\ lib[items[m][i].name].seal.from = items[m][i].path
       /\ lib[items[m][i].name].seal.hash = entries[m][items[m][i].path]
    \/ /\ opts[m].conflict = "overwrite"
       /\ \E j \in DOMAIN items[m] : j > i /\ items[m][j].name = items[m][i].name

\* An undisturbed migrator writes into the library it has looked at.
Undisturbed(m) ==
  Alone(m) => /\ pc[m] = "emit" => lib = seen[m]
              /\ \A i \in DOMAIN items[m] : Lands(m, i)

DraftInv ==
  /\ Inv
  /\ \A m \in Migrator : /\ pc[m] = "idle" => items[m] = <<>>
                         /\ Decided(m)
                         /\ Undisturbed(m)

\* A free name is free, and a name that is taken was asked to be overwritten.
LEMMA ResolvedFree ==
  ASSUME NEW o \in OptionsType, NEW l, NEW t \in Name,
         NEW r, r = resolveConflict(o, l, t),
         r[1] \in {"", "renamed", "overwritten"}, l[r[2]] # Absent
  PROVE  o.conflict = "overwrite" /\ (o.force \/ ~isTargetReviewed(l[r[2]]))
<1>1. o.conflict \in {"skip", "rename", "overwrite"}
  BY DEF OptionsType
<1>2. CASE l[t] = Absent
  BY <1>2 DEF resolveConflict
<1>3. CASE l[t] # Absent /\ o.conflict = "skip"
  BY <1>3 DEF resolveConflict
<1>4. CASE l[t] # Absent /\ o.conflict = "rename"
  <2>1. \A n \in nextAvailableName(l, t) : l[n] = Absent
    BY DEF nextAvailableName
  <2>2. nextAvailableName(l, t) # {} =>
          (CHOOSE n \in nextAvailableName(l, t) : TRUE) \in nextAvailableName(l, t)
    OBVIOUS
  <2> QED
    BY <1>4, <2>1, <2>2 DEF resolveConflict
<1>5. CASE l[t] # Absent /\ o.conflict = "overwrite"
  BY <1>5 DEF resolveConflict
<1> QED
  BY <1>1, <1>2, <1>3, <1>4, <1>5

-----------------------------------------------------------------------------
\* The steps of migrator m, and what they leave alone.
Migrates(m) ==
  \/ Collect(m) \/ NoEntry(m) \/ ParseError(m) \/ Resolve(m) \/ FailResolve(m)
  \/ Emit(m) \/ FailEmit(m)

LEMMA MigratesOwn ==
  ASSUME TypeOK, NEW m \in Migrator, Migrates(m)
  PROVE  /\ UNCHANGED <<src, opts, accVars, edits>>
         /\ \A o \in Migrator \ {m} :
              /\ pc'[o] = pc[o] /\ entries'[o] = entries[o] /\ dest'[o] = dest[o]
              /\ items'[o] = items[o] /\ seen'[o] = seen[o]
<1>1. UNCHANGED <<src, opts, accVars, edits>>
  BY DEF Migrates, Collect, NoEntry, ParseError, Resolve, FailResolve, Emit, FailEmit
<1>2. ASSUME NEW o \in Migrator \ {m}
      PROVE  pc'[o] = pc[o]
  BY <1>2 DEF Migrates, Collect, NoEntry, ParseError, Resolve, FailResolve, Emit, FailEmit,
              Report, Past, Goto, TypeOK
<1>3. ASSUME NEW o \in Migrator \ {m}
      PROVE  entries'[o] = entries[o] /\ dest'[o] = dest[o] /\ seen'[o] = seen[o]
  BY <1>3 DEF Migrates, Collect, NoEntry, ParseError, Resolve, FailResolve, Emit, FailEmit, TypeOK
<1>4. ASSUME NEW o \in Migrator \ {m}
      PROVE  items'[o] = items[o]
  BY <1>4 DEF Migrates, Collect, NoEntry, ParseError, Resolve, FailResolve, Emit, FailEmit,
              Report, TypeOK
<1> QED
  BY <1>1, <1>2, <1>3, <1>4

\* A report adds one item and goes on.
LEMMA Reported ==
  ASSUME TypeOK, NEW m \in Migrator, NEW name, NEW status, Report(m, name, status)
  PROVE  /\ pc'[m] \in {"resolve", "done"}
         /\ items'[m] # <<>>
         /\ Len(items[m]) \in Nat
         /\ DOMAIN items[m] = 1 .. Len(items[m])
         /\ DOMAIN items'[m] = 1 .. Len(items[m]) + 1
         /\ \A i \in DOMAIN items[m] : items'[m][i] = items[m][i]
         /\ items'[m][Len(items[m]) + 1] =
              [path |-> Order[at[m]], name |-> name, status |-> status]
<1> DEFINE x == [path |-> Order[at[m]], name |-> name, status |-> status]
<1>1. items \in [Migrator -> Seq(Item)] /\ pc \in [Migrator -> {"idle", "resolve", "emit", "done"}]
  BY DEF TypeOK
<1>2. items'[m] = Append(items[m], x)
  BY <1>1 DEF Report
<1>3. pc'[m] \in {"resolve", "done"}
  BY <1>1 DEF Report, Past, Goto
<1> HIDE DEF x
<1>4. items[m] \in Seq(Item)
  BY <1>1
<1>5. /\ Len(items[m]) \in Nat /\ DOMAIN items[m] = 1 .. Len(items[m])
      /\ DOMAIN Append(items[m], x) = 1 .. Len(items[m]) + 1
      /\ \A i \in 1 .. Len(items[m]) : Append(items[m], x)[i] = items[m][i]
      /\ Append(items[m], x)[Len(items[m]) + 1] = x
      /\ Append(items[m], x) # <<>>
  BY <1>4
<1> QED
  BY <1>2, <1>3, <1>5 DEF x

-----------------------------------------------------------------------------
\* Where a migrator writes it has looked, and it has been told to.
LEMMA OwnDecided ==
  ASSUME DraftInv, NEW m \in Migrator, Migrates(m)
  PROVE  Decided(m)' /\ (pc'[m] = "idle" => items'[m] = <<>>)
<1>1. /\ TypeOK /\ Inv /\ (pc[m] = "idle" => items[m] = <<>>)
      /\ pc \in [Migrator -> {"idle", "resolve", "emit", "done"}]
      /\ opts[m] \in OptionsType /\ UNCHANGED opts
      /\ dest \in [Migrator -> Name] /\ seen \in [Migrator -> [Name -> File \cup {Absent}]]
  BY MigratesOwn DEF DraftInv, Inv, TypeOK
<1>2. ASSUME NEW l \in {"idle", "resolve"}, NEW end \in {"resolve", "done"}, Past(m, l, end)
      PROVE  pc'[m] \in {l, end}
  BY <1>1, <1>2 DEF Past, Goto
<1>3. CASE Collect(m)
  <2>1. pc[m] = "idle" /\ items' = items /\ pc'[m] # "emit"
    BY <1>2, <1>3 DEF Collect
  <2> QED
    BY <1>1, <2>1 DEF Decided
<1>4. CASE NoEntry(m) \/ \E n, status : Report(m, n, status)
  <2>1. pc'[m] \in {"resolve", "done"}
    BY <1>2, <1>4 DEF NoEntry, Report
  <2> QED
    BY <2>1 DEF Decided
<1>5. CASE Resolve(m) /\ ~\E n, status : Report(m, n, status)
  <2>1. PICK t \in Name : t = Target(m)
    BY <1>1, Inhabited DEF Target, TypeOK
  <2>2. PICK r : r = resolveConflict(opts[m], lib, t)
    OBVIOUS
  <2>3. /\ seen' = [seen EXCEPT ![m] = lib] /\ dest' = [dest EXCEPT ![m] = r[2]]
        /\ r[1] \in {"", "renamed", "overwritten"} /\ pc' = [pc EXCEPT ![m] = "emit"]
    BY <1>5, <2>1, <2>2 DEF Resolve, Goto
  <2>4. seen'[m] = lib /\ dest'[m] = r[2] /\ pc'[m] = "emit" /\ r[2] \in Name
    BY <1>1, <2>2, <2>3, ResolvedType
  <2>5. ASSUME lib[r[2]] # Absent
        PROVE  opts[m].conflict = "overwrite" /\ (opts[m].force \/ ~isTargetReviewed(lib[r[2]]))
    BY <1>1, <2>2, <2>3, <2>5, ResolvedFree
  <2> QED
    BY <1>1, <2>4, <2>5 DEF Decided
<1>6. Migrates(m) => Collect(m) \/ NoEntry(m) \/ Resolve(m) \/ \E n, status : Report(m, n, status)
  BY DEF Migrates, ParseError, FailResolve, Emit, FailEmit
<1> QED
  BY <1>3, <1>4, <1>5, <1>6

\* A report leaves the earlier items in the library, or says who overwrote them.
LEMMA LandsReport ==
  ASSUME TypeOK, NEW m \in Migrator, NEW n \in Name, NEW status, Report(m, n, status),
         UNCHANGED <<opts, entries>>,
         \A k \in Name : k # n => lib'[k] = lib[k],
         lib'[n] = lib[n] \/ lib[n] = Absent \/ opts[m].conflict = "overwrite",
         \A i \in DOMAIN items[m] : Lands(m, i),
         status \in Written /\ opts[m].execute =>
           /\ lib'[n] # Absent
           /\ lib'[n].seal.from = Order[at[m]]
           /\ lib'[n].seal.hash = entries[m][Order[at[m]]]
  PROVE  \A i \in DOMAIN items'[m] : Lands(m, i)'
<1>1. PICK new \in Nat : new = Len(items[m]) + 1
  BY Reported
<1>2. /\ DOMAIN items[m] = 1 .. new - 1 /\ DOMAIN items'[m] = 1 .. new
      /\ \A i \in DOMAIN items[m] : items'[m][i] = items[m][i]
      /\ items'[m][new] = [path |-> Order[at[m]], name |-> n, status |-> status]
  BY <1>1, Reported
<1>3. ASSUME NEW i \in DOMAIN items[m]
      PROVE  Lands(m, i)'
  <2>1. i \in 1 .. new /\ new > i /\ new \in DOMAIN items'[m] /\ items'[m][new].name = n
    BY <1>2, <1>3
  <2>6. items[m][i].name \in Name
    <3>1. items[m] \in Seq(Item)
      BY DEF TypeOK
    <3>2. items[m][i] \in Item
      BY <1>3, <3>1
    <3> QED
      BY <3>2 DEF Item
  <2>2. SUFFICES ASSUME opts[m].execute, items[m][i].status \in Written
                 PROVE  Lands(m, i)'
    BY <1>2 DEF Lands
  <2>3. CASE opts[m].conflict = "overwrite" /\ \E j \in DOMAIN items[m] :
               j > i /\ items[m][j].name = items[m][i].name
    BY <1>2, <2>3 DEF Lands
  <2>4. CASE items[m][i].name = n /\ lib[n] # Absent /\ lib'[n] # lib[n]
    BY <1>2, <2>1, <2>4 DEF Lands
  <2>5. CASE /\ lib[items[m][i].name] # Absent
             /\ lib[items[m][i].name].seal.from = items[m][i].path
             /\ lib[items[m][i].name].seal.hash = entries[m][items[m][i].path]
             /\ lib'[items[m][i].name] = lib[items[m][i].name]
    BY <1>2, <2>5 DEF Lands
  <2> QED
    BY <1>3, <2>2, <2>3, <2>4, <2>5, <2>6 DEF Lands
<1>4. Lands(m, new)'
  BY <1>2 DEF Lands
<1> QED
  BY <1>2, <1>3, <1>4

\* Nobody comes between an undisturbed migrator's look and its write.
LEMMA OwnUndisturbed ==
  ASSUME DraftInv, NEW m \in Migrator, Migrates(m)
  PROVE  Undisturbed(m)'
<1>1. /\ TypeOK /\ Phase /\ Decided(m) /\ (pc[m] = "idle" => items[m] = <<>>)
      /\ pc \in [Migrator -> {"idle", "resolve", "emit", "done"}]
      /\ lib \in [Name -> File \cup {Absent}]
      /\ dest \in [Migrator -> Name] /\ how \in [Migrator -> {"", "renamed", "overwritten"}]
      /\ opts[m] \in OptionsType
  BY DEF DraftInv, Inv, TypeOK
<1>2. Target(m) \in Name
  BY <1>1, Inhabited DEF Target, TypeOK
<1>3. Alone(m)' => Alone(m)
  BY <1>1, MigratesOwn DEF Alone
<1>4. SUFFICES ASSUME Alone(m)
               PROVE  /\ pc'[m] = "emit" => lib' = seen'[m]
                      /\ \A i \in DOMAIN items'[m] : Lands(m, i)'
  BY <1>3 DEF Undisturbed
<1>5. (pc[m] = "emit" => lib = seen[m]) /\ \A i \in DOMAIN items[m] : Lands(m, i)
  BY <1>4 DEF DraftInv, Undisturbed
<1>6. CASE Collect(m)
  <2>1. items'[m] = <<>> /\ pc'[m] # "emit"
    BY <1>1, <1>6 DEF Collect, Past, Goto
  <2> QED
    BY <2>1
<1>7. CASE NoEntry(m)
  <2>1. UNCHANGED <<lib, opts, entries, items>> /\ pc'[m] # "emit"
    BY <1>1, <1>7 DEF NoEntry, Past, Goto
  <2> QED
    BY <1>5, <2>1 DEF Lands
<1>8. CASE ParseError(m) \/ FailResolve(m)
  <2>1. PICK status \in {"error", "refused"} :
          Report(m, Target(m), status) /\ UNCHANGED <<lib, opts, entries>>
    BY <1>8 DEF ParseError, FailResolve
  <2>2. pc'[m] # "emit"
    BY <1>1, <2>1, Reported
  <2> QED
    BY <1>1, <1>2, <1>5, <2>1, <2>2, LandsReport DEF Written
<1>9. CASE Resolve(m)
  <2>1. PICK r : r = resolveConflict(opts[m], lib, Target(m))
    OBVIOUS
  <2>2. /\ UNCHANGED <<lib, opts, entries>> /\ seen' = [seen EXCEPT ![m] = lib]
        /\ \/ r[1] \in {"skipped", "refused"} /\ Report(m, r[2], r[1])
           \/ UNCHANGED items
    BY <1>9, <2>1 DEF Resolve
  <2>3. r[2] \in Name
    BY <1>1, <1>2, <2>1, ResolvedType
  <2>4. CASE r[1] \in {"skipped", "refused"} /\ Report(m, r[2], r[1])
    <3>1. pc'[m] # "emit"
      BY <1>1, <2>4, Reported
    <3> QED
      BY <1>1, <1>5, <2>2, <2>3, <2>4, <3>1, LandsReport DEF Written
  <2>5. CASE UNCHANGED items
    <3>1. seen'[m] = lib'
      BY <2>2 DEF DraftInv, Inv, TypeOK
    <3> QED
      BY <1>5, <2>2, <2>5, <3>1 DEF Lands
  <2> QED
    BY <2>2, <2>4, <2>5
<1>10. lib[dest[m]] = Absent \/ opts[m].conflict = "overwrite" \/ pc[m] # "emit"
  BY <1>1, <1>5 DEF Decided
<1>11. CASE Emit(m)
  <2>1. PICK c \in classify(opts[m], Entry(m)) :
          /\ pc[m] = "emit"
          /\ lib' = IF opts[m].execute THEN [lib EXCEPT ![dest[m]] = Draft(m, c)] ELSE lib
          /\ Report(m, dest[m], IF how[m] = "" THEN c[1] ELSE how[m])
          /\ UNCHANGED <<opts, entries>>
    BY <1>11 DEF Emit
  <2>2. Entry(m) \in Text
    BY <1>1, <2>1 DEF Phase
  <2>3. PICK f \in File : f = Draft(m, c)
    BY <1>1, <2>1, <2>2, DraftType
  <2>4. f # Absent /\ f.seal.from = Order[at[m]] /\ f.seal.hash = entries[m][Order[at[m]]]
    BY <2>3, AbsentIsNoFile DEF Draft, Entry
  <2>5. /\ \A k \in Name : k # dest[m] => lib'[k] = lib[k]
        /\ opts[m].execute => lib'[dest[m]] = f
        /\ dest[m] \in Name
    BY <1>1, <2>1, <2>3
  <2>6. pc'[m] # "emit"
    BY <1>1, <2>1, Reported
  <2>10. PICK status : Report(m, dest[m], status)
    BY <2>1
  <2>7. PICK n \in Name : n = dest[m] /\ Report(m, n, status)
    BY <2>5, <2>10
  <2>8. \A i \in DOMAIN items'[m] : Lands(m, i)'
    <3>1. lib'[n] = lib[n] \/ lib[n] = Absent \/ opts[m].conflict = "overwrite"
      BY <1>10, <2>1, <2>7
    <3>2. opts[m].execute =>
            /\ lib'[n] # Absent
            /\ lib'[n].seal.from = Order[at[m]]
            /\ lib'[n].seal.hash = entries[m][Order[at[m]]]
      BY <2>4, <2>5, <2>7
    <3>3. /\ TypeOK /\ Report(m, n, status) /\ UNCHANGED <<opts, entries>>
          /\ \A k \in Name : k # n => lib'[k] = lib[k]
          /\ \A i \in DOMAIN items[m] : Lands(m, i)
      BY <1>1, <1>5, <2>1, <2>5, <2>7
    <3> QED
      BY <3>1, <3>2, <3>3, LandsReport
  <2> QED
    BY <2>6, <2>8
<1>12. CASE FailEmit(m)
  <2>1. /\ pc[m] = "emit" /\ lib' \in Botched(dest[m])
        /\ Report(m, dest[m], "error") /\ UNCHANGED <<opts, entries>>
    BY <1>12 DEF FailEmit
  <2>2. dest[m] \in Name /\ \A k \in Name : k # dest[m] => lib'[k] = lib[k]
    BY <1>1, <2>1 DEF Botched
  <2>3. pc'[m] # "emit"
    BY <1>1, <2>1, Reported
  <2> QED
    BY <1>1, <1>5, <1>10, <2>1, <2>2, <2>3, LandsReport DEF Written
<1> QED
  BY <1>6, <1>7, <1>8, <1>9, <1>11, <1>12 DEF Migrates

\* Whoever else writes the library disturbs it.
LEMMA OthersUndisturbed ==
  ASSUME DraftInv, NEW m \in Migrator, Next, ~Migrates(m)
  PROVE  /\ UNCHANGED opts
         /\ pc'[m] = pc[m] /\ dest'[m] = dest[m] /\ items'[m] = items[m] /\ seen'[m] = seen[m]
         /\ Undisturbed(m)'
<1>1. TypeOK
  BY DEF DraftInv, Inv
<1>2. SUFFICES /\ UNCHANGED opts
               /\ pc'[m] = pc[m] /\ dest'[m] = dest[m] /\ items'[m] = items[m]
               /\ seen'[m] = seen[m] /\ entries'[m] = entries[m]
               /\ Alone(m)' => Alone(m) /\ lib' = lib
  <2>1. ASSUME UNCHANGED opts, lib' = lib, items'[m] = items[m], entries'[m] = entries[m],
               NEW i \in DOMAIN items[m], Lands(m, i)
        PROVE  Lands(m, i)'
    BY <2>1 DEF Lands
  <2> QED
    BY <2>1 DEF DraftInv, Undisturbed
<1>3. ASSUME NEW o \in Migrator, o # m, Migrates(o)
      PROVE  /\ UNCHANGED <<opts, edits, accVars>>
             /\ pc'[m] = pc[m] /\ dest'[m] = dest[m] /\ items'[m] = items[m]
             /\ seen'[m] = seen[m] /\ entries'[m] = entries[m]
             /\ Alone(m)' => Alone(m) /\ lib' = lib
  <2>1. /\ UNCHANGED <<opts, edits, accVars>>
        /\ \A x \in Migrator \ {o} :
             /\ pc'[x] = pc[x] /\ entries'[x] = entries[x] /\ dest'[x] = dest[x]
             /\ items'[x] = items[x] /\ seen'[x] = seen[x]
    BY <1>1, <1>3, MigratesOwn
  <2>2. items'[o] # <<>> \/ (lib' = lib /\ items' = items)
    <3>1. CASE \E n, status : Report(o, n, status)
      BY <1>1, <3>1, Reported
    <3>2. CASE ~\E n, status : Report(o, n, status)
      BY <1>3, <3>2 DEF Migrates, Collect, NoEntry, ParseError, Resolve, FailResolve, Emit, FailEmit
    <3> QED
      BY <3>1, <3>2
  <2>3. Alone(m)' => Alone(m) /\ lib' = lib
    BY <1>3, <2>1, <2>2 DEF Alone
  <2> QED
    BY <1>3, <2>1, <2>3
<1>4. ASSUME NEW a \in Acceptor,
             AcceptRead(a) \/ AcceptVerify(a) \/ AcceptWrite(a) \/ FailAccept(a)
      PROVE  /\ UNCHANGED <<migVars, edits>>
             /\ Alone(m)' => Alone(m) /\ lib' = lib
  <2>1. /\ UNCHANGED <<migVars, edits>>
        /\ \A b \in Acceptor \ {a} : apc'[b] = apc[b]
        /\ apc[a] \notin {"done", "refused"}
        /\ lib' = lib \/ apc'[a] \in {"done", "refused"}
    BY <1>1, <1>4 DEF AcceptRead, AcceptVerify, AcceptWrite, FailAccept, TypeOK
  <2> QED
    BY <2>1 DEF Alone
<1>5. ASSUME EditSource \/ EditFile
      PROVE  UNCHANGED migVars /\ ~Alone(m)'
  <2>1. UNCHANGED migVars /\ edits' = edits + 1 /\ edits \in Nat
    BY <1>1, <1>5 DEF EditSource, EditFile, ByHand, TypeOK
  <2> QED
    BY <2>1 DEF Alone
<1> QED
  BY <1>2, <1>3, <1>4, <1>5 DEF Next, Migrates

LEMMA InitDraft == Init => DraftInv
<1> SUFFICES ASSUME Init PROVE DraftInv
  OBVIOUS
<1>1. Inv
  BY InvarianceInit
<1>2. ASSUME NEW m \in Migrator
      PROVE  (pc[m] = "idle" => items[m] = <<>>) /\ Decided(m) /\ Undisturbed(m)
  <2>1. pc[m] = "idle" /\ items[m] = <<>>
    BY DEF Init
  <2> QED
    BY <2>1 DEF Decided, Undisturbed
<1> QED
  BY <1>1, <1>2 DEF DraftInv

LEMMA NextDraft == DraftInv /\ [Next]_vars => DraftInv'
<1> SUFFICES ASSUME DraftInv, [Next]_vars PROVE DraftInv'
  OBVIOUS
<1>1. Inv'
  BY InvarianceNext DEF DraftInv
<1>2. SUFFICES ASSUME NEW m \in Migrator
               PROVE  (pc'[m] = "idle" => items'[m] = <<>>) /\ Decided(m)' /\ Undisturbed(m)'
  BY <1>1 DEF DraftInv
<1>3. CASE Migrates(m)
  BY <1>3, OwnDecided, OwnUndisturbed
<1>4. CASE Next /\ ~Migrates(m)
  <2>1. /\ UNCHANGED opts
        /\ pc'[m] = pc[m] /\ dest'[m] = dest[m] /\ items'[m] = items[m] /\ seen'[m] = seen[m]
        /\ Undisturbed(m)'
    BY <1>4, OthersUndisturbed
  <2> QED
    BY <2>1 DEF DraftInv, Decided
<1>5. CASE UNCHANGED vars
  BY <1>5 DEF DraftInv, Decided, Undisturbed, Alone, Lands
<1> QED
  BY <1>3, <1>4, <1>5

\* Every draft an undisturbed migration reports is in the file it names, or a
\* later draft of the same migration is, for any sources, options and failures.
THEOREM DraftsLand == Spec => []ReportedDraftsLanded
<1>1. DraftInv => ReportedDraftsLanded
  BY DEF DraftInv, Undisturbed, Alone, Lands, ReportedDraftsLanded
<1> QED
  BY <1>1, InitDraft, NextDraft, PTL DEF Spec

\* A migrator replaces no file it saw when it looked but the one it was told to
\* overwrite, and none marked as reviewed that parsed unless it was forced: it
\* keeps to what it decided, whatever the other processes do meanwhile.  What
\* they put there since is replaced all the same (resolveConflict, writeSkill).
THEOREM ReplacesOnlyKnowingly == Spec => ReplacesKnowingly
<1>1. ASSUME DraftInv, [Next]_vars, NEW m \in Migrator, NEW n \in Name,
             Reports(m), lib'[n] # lib[n]
      PROVE  /\ opts[m].execute /\ n = dest[m]
             /\ seen[m][n] # Absent =>
                  /\ opts[m].conflict = "overwrite"
                  /\ \/ opts[m].force
                     \/ ~Reviewed(seen[m][n])
                     \/ seen[m][n].seal.body = "garbled"
  <2>1. Migrates(m)
    BY <1>1, OthersUndisturbed DEF Reports
  <2>2. pc[m] = "emit" /\ n = dest[m] /\ opts[m].execute
    <3>1. CASE Emit(m)
      BY <1>1, <3>1 DEF Emit, DraftInv, Inv, TypeOK
    <3>2. CASE FailEmit(m)
      BY <1>1, <3>2 DEF FailEmit, Botched, DraftInv, Inv, TypeOK
    <3>3. CASE ~(Emit(m) \/ FailEmit(m))
      BY <1>1, <2>1, <3>3 DEF Migrates, Collect, NoEntry, ParseError, Resolve, FailResolve
    <3> QED
      BY <3>1, <3>2, <3>3
  <2> QED
    BY <1>1, <2>2 DEF DraftInv, Decided, isTargetReviewed
<1>2. DraftInv /\ [Next]_vars =>
        [\A m \in Migrator, n \in Name :
           (Reports(m) /\ lib'[n] # lib[n]) =>
             /\ opts[m].execute /\ n = dest[m]
             /\ seen[m][n] # Absent =>
                  /\ opts[m].conflict = "overwrite"
                  /\ \/ opts[m].force
                     \/ ~Reviewed(seen[m][n])
                     \/ seen[m][n].seal.body = "garbled"]_vars
  BY <1>1
<1> QED
  BY <1>2, InitDraft, NextDraft, PTL DEF Spec, ReplacesKnowingly
=============================================================================
