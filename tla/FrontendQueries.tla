--------------------------- MODULE FrontendQueries ---------------------------
(***************************************************************************)
(* The compiler front end as the query engine runs it: the bodies and the   *)
(* hash functions that internal/query/osty registers for one package.       *)
(*                                                                         *)
(* A source file is known by two facts: whether it declares the name that   *)
(* every file uses, and whether its literals have the types their places    *)
(* call for.  The first is seen by the resolver, the second by the checker  *)
(* only.  Values carry a tag, so that values of different queries differ.   *)
(***************************************************************************)
EXTENDS AcyclicEngine

CONSTANTS
  Pulled            \* bound: the queries a client asks for

File   == {"f", "g"}
Listed == {<<"f">>, <<"f", "g">>}      \* the package without and with g
Source == [declares: BOOLEAN, typed: BOOLEAN]

Dir == "dir"

SourceText(f)    == <<"SourceText", f>>
PackageFiles     == <<"PackageFiles", Dir>>
PackageMetadata  == <<"PackageMetadata", Dir>>

Parse(f)         == <<"Parse", f>>
LintFile         == <<"LintFile", "f">>
BuildPackage     == <<"BuildPackage", Dir>>
ResolvePackage   == <<"ResolvePackage", Dir>>
ResolveFile      == <<"ResolveFile", "f">>
CheckPackage     == <<"CheckPackage", Dir>>
CheckFile        == <<"CheckFile", "f">>
IdentIndex       == <<"IdentIndex", "f">>
ResolveDiags     == <<"ResolveDiagnostics", "f">>
FileDiagnostics  == <<"FileDiagnostics", "f">>

FrontInput == {SourceText(f) : f \in File} \cup {PackageFiles, PackageMetadata}
FrontQuery == {Parse(f) : f \in File} \cup
              {LintFile, BuildPackage, ResolvePackage, ResolveFile, CheckPackage,
               CheckFile, IdentIndex, ResolveDiags, FileDiagnostics}

-----------------------------------------------------------------------------
(* Values.  A package is its name, taken from its directory or from the      *)
(* manifest, and the sources of its files.                                  *)

PackageName == {"directory", "manifest"}

Package == UNION {[name: PackageName, files: [{l[k] : k \in DOMAIN l} -> Source]] : l \in Listed}
Checked == [bad: SUBSET File, resolved: BOOLEAN]
Message == {"unresolved", "mistyped", "unused"}

SourceVal  == {<<"source", s>> : s \in Source}
ListVal    == {<<"list", l>> : l \in Listed}
MetaVal    == {<<"metadata", n>> : n \in PackageName}
PackageVal == {<<"package", p>> : p \in Package}
CheckVal   == {<<"check", c>> : c \in Checked}
DiagVal    == {<<"diags", m>> : m \in SUBSET Message}

FrontVal == SourceVal \cup ListVal \cup MetaVal \cup PackageVal \cup CheckVal \cup DiagVal

(* What the passes compute. *)
Resolved(p)   == \E f \in DOMAIN p.files : p.files[f].declares
Unresolved(p) == IF "f" \in DOMAIN p.files /\ ~Resolved(p) THEN {"unresolved"} ELSE {}
Check(p)      == [bad |-> {f \in DOMAIN p.files : ~p.files[f].typed}, resolved |-> Resolved(p)]
Mistyped(c)   == IF "f" \in c.bad THEN {"mistyped"} ELSE {}
Lint(s)       == IF s.declares THEN {"unused"} ELSE {}

-----------------------------------------------------------------------------
(* The bodies: what is read after the answers t, or what is returned *)

FetchOf(c)  == [op |-> "fetch", cell |-> c, val |-> <<"diags", {}>>]
HasKey(c)   == [op |-> "has", cell |-> c, val |-> <<"diags", {}>>]
Return(v)   == [op |-> "return", cell |-> PackageFiles, val |-> v]

ParseBody(f, t) == IF t = <<>> THEN FetchOf(SourceText(f)) ELSE Return(t[1])

LintFileBody(t) ==
  IF t = <<>> THEN FetchOf(SourceText("f")) ELSE Return(<<"diags", Lint(t[1][2])>>)

(* The reads before the parse results: the list of files, whether there is  *)
(* metadata, and the metadata if there is.                                  *)
SkipOf(t) == IF Len(t) > 1 /\ t[2] = Present THEN 3 ELSE 2

Assemble(t) ==
  LET list == t[1][2] IN
  [name  |-> IF t[2] = Present THEN t[3][2] ELSE "directory",
   files |-> [f \in {list[k] : k \in DOMAIN list} |->
                t[SkipOf(t) + (CHOOSE k \in DOMAIN list : list[k] = f)][2]]]

(* PackageFiles, PackageMetadata if it is set, then Parse of every file. *)
BuildPackageBody(t) ==
  LET list == t[1][2]
      read == Len(t) - SkipOf(t)
  IN  CASE Len(t) = 0 -> FetchOf(PackageFiles)
        [] Len(t) = 1 -> HasKey(PackageMetadata)
        [] Len(t) = 2 /\ SkipOf(t) = 3 -> FetchOf(PackageMetadata)
        [] Len(t) >= SkipOf(t) /\ read < Len(list) -> FetchOf(Parse(list[read + 1]))
        [] OTHER -> Return(<<"package", Assemble(t)>>)

ResolvePackageBody(t) == IF t = <<>> THEN FetchOf(BuildPackage) ELSE Return(t[1])

ResolveFileBody(t) ==
  IF t = <<>> THEN FetchOf(ResolvePackage) ELSE Return(<<"diags", Unresolved(t[1][2])>>)

CheckPackageBody(t) ==
  IF t = <<>> THEN FetchOf(ResolvePackage) ELSE Return(<<"check", Check(t[1][2])>>)

CheckFileBody(t) == IF t = <<>> THEN FetchOf(CheckPackage) ELSE Return(t[1])

(* ResolveDiagnostics and IdentIndex read the package before resolution. *)
OverBuildPackageBody(t) ==
  IF t = <<>> THEN FetchOf(BuildPackage) ELSE Return(<<"diags", Unresolved(t[1][2])>>)

(* collectFileDiagnostics: resolver, checker and linter; parse errors are   *)
(* left out of the model.                                                   *)
FileDiagnosticsBody(t) ==
  CASE Len(t) = 0 -> FetchOf(Parse("f"))
    [] Len(t) = 1 -> FetchOf(ResolveDiags)
    [] Len(t) = 2 -> FetchOf(CheckFile)
    [] Len(t) = 3 -> FetchOf(LintFile)
    [] OTHER -> Return(<<"diags", t[2][2] \cup Mistyped(t[3][2]) \cup t[4][2]>>)

FrontBody(q, t) ==
  CASE q \in {Parse(f) : f \in File}    -> ParseBody(q[2], t)
    [] q = LintFile                     -> LintFileBody(t)
    [] q = BuildPackage                 -> BuildPackageBody(t)
    [] q = ResolvePackage               -> ResolvePackageBody(t)
    [] q = ResolveFile                  -> ResolveFileBody(t)
    [] q = CheckPackage                 -> CheckPackageBody(t)
    [] q = CheckFile                    -> CheckFileBody(t)
    [] q \in {IdentIndex, ResolveDiags} -> OverBuildPackageBody(t)
    [] q = FileDiagnostics              -> FileDiagnosticsBody(t)

(* The answers a body can have been given so far. *)
One(A)     == {<<>>} \cup {<<v>> : v \in A}
BuildHeads ==
  {<<l, Absent>> : l \in ListVal} \cup {<<l, Present, m>> : l \in ListVal, m \in MetaVal}
BuildTrace ==
  One(ListVal) \cup {<<l, Present>> : l \in ListVal} \cup BuildHeads \cup
  {Append(h, s) : h \in BuildHeads, s \in SourceVal} \cup
  {Append(Append(h, s), u) : h \in BuildHeads, s \in SourceVal, u \in SourceVal}
DiagTrace ==
  LET resolve == {<<"diags", m>> : m \in SUBSET {"unresolved"}}
      lint    == {<<"diags", m>> : m \in SUBSET {"unused"}}
  IN  One(SourceVal) \cup
      {<<s, d>> : s \in SourceVal, d \in resolve} \cup
      {<<s, d, c>> : s \in SourceVal, d \in resolve, c \in CheckVal} \cup
      {<<s, d, c, e>> : s \in SourceVal, d \in resolve, c \in CheckVal, e \in lint}

TracesOf(q) ==
  CASE q \in {Parse(f) : f \in File} \cup {LintFile} -> One(SourceVal)
    [] q = BuildPackage    -> BuildTrace
    [] q = CheckFile       -> One(CheckVal)
    [] q = FileDiagnostics -> DiagTrace
    [] OTHER               -> One(PackageVal)

FrontPoint == UNION {{<<q, t>> : t \in TracesOf(q)} : q \in FrontQuery}
FrontEntry == [q \in FrontQuery |-> <<q, <<>>>>]
FrontCode  == [p \in FrontPoint |-> FrontBody(p[1], p[2])]
FrontOwner == [p \in FrontPoint |-> p[1]]

(* Keys and values are typed: an answer of another type does not occur. *)
FrontJump(p, v) ==
  LET next == <<p[1], Append(p[2], v)>> IN IF next \in FrontPoint THEN next ELSE p

FrontRank ==
  [q \in FrontQuery |->
     CASE q = BuildPackage -> 1
       [] q = ResolvePackage -> 2
       [] q \in {CheckPackage, ResolveFile, IdentIndex, ResolveDiags} -> 3
       [] q = CheckFile -> 4
       [] q = FileDiagnostics -> 5
       [] OTHER -> 0]

-----------------------------------------------------------------------------
(* The hash functions *)

(* BuildPackage is registered without one. *)
FrontHashed == FrontInput \cup (FrontQuery \ {BuildPackage})

(* What hashResolvedPackage covers: name, files, declarations, references   *)
(* and diagnostics, but not the contents of the bodies.                     *)
Surface(p) == [name |-> p.name,
               declared |-> [f \in DOMAIN p.files |-> p.files[f].declares]]

(* Mutant: hashParseResult without the source bytes. *)
FrontHashCoarseParse(c, v) ==
  IF c = ResolvePackage THEN Surface(v[2])
  ELSE IF c \in {Parse(f) : f \in File} /\ v \in SourceVal THEN v[2].declares ELSE v

(* Mutant: hashResolvedPackage without hashPkgTopLevelDecls and the facts. *)
FrontHashNoDecls(c, v) ==
  IF c = ResolvePackage THEN DOMAIN v[2].files ELSE v

(* hashParseResult hashes the source; the other results are hashed whole. *)
FrontHash(c, v) == IF c = ResolvePackage THEN Surface(v[2]) ELSE v

-----------------------------------------------------------------------------
(* The engine as its clients use it: a file is listed only once its source  *)
(* has been Set, and no input is ever Cleared.                              *)

InputVal(i) == CASE i = PackageFiles    -> ListVal
                 [] i = PackageMetadata -> MetaVal
                 [] OTHER               -> SourceVal

SeededSlot(v, r) == [value |-> v, computedAt |-> r, verifiedAt |-> r, deps |-> <<>>]

(* seedPackageInputs: the sources (only g declares the name), the metadata, *)
(* then the list of files.                                                  *)
SeedPackage(c) ==
  CASE c = SourceText("f") -> SeededSlot(<<"source", [declares |-> FALSE, typed |-> TRUE]>>, 1)
    [] c = SourceText("g") -> SeededSlot(<<"source", [declares |-> TRUE, typed |-> TRUE]>>, 2)
    [] c = PackageMetadata -> SeededSlot(<<"metadata", "directory">>, 3)
    [] c = PackageFiles    -> SeededSlot(<<"list", <<"f", "g">>>>, 4)
    [] OTHER               -> NoSlot

(* A scratch buffer f: its source and a package of one file, no metadata    *)
(* (revisions 1 and 2 set inputs of another directory).                     *)
SeedScratch(c) ==
  CASE c = SourceText("f") -> SeededSlot(<<"source", [declares |-> FALSE, typed |-> TRUE]>>, 3)
    [] c = PackageFiles    -> SeededSlot(<<"list", <<"f">>>>, 4)
    [] OTHER               -> NoSlot

SeededInit ==
  /\ rev = 4
  /\ \/ slots = [c \in Cell |-> SeedPackage(c)]
     \/ slots = [c \in Cell |-> SeedScratch(c)]
  /\ stack = <<>>
  /\ ctl = <<>>
  /\ ret = None

(* A client asks for a query. *)
Pull == \E q \in Pulled : Get(q)

(* A client writes an input. *)
Push ==
  \E i \in FrontInput : \E v \in InputVal(i) :
    /\ i = PackageFiles => \A k \in DOMAIN v[2] : slots[SourceText(v[2][k])] # NoSlot
    /\ Set(i, v)

(* Between them these reach every query. *)
MCPulled == {ResolveFile, IdentIndex, FileDiagnostics}

(* The engine is set up with these cells, bodies and hashes. *)
ASSUME FrontAssumption ==
  /\ Input = FrontInput /\ Query = FrontQuery /\ Val = FrontVal
  /\ Point = FrontPoint /\ Entry = FrontEntry /\ Code = FrontCode
  /\ Owner = FrontOwner /\ Rank = FrontRank /\ Hashed = FrontHashed
  /\ \A c \in Cell, v \in Val : (c = ResolvePackage => v \in PackageVal) => Hash(c, v) = FrontHash(c, v)
  /\ \A p \in Point, v \in Seen : Jump(p, v) = FrontJump(p, v)
  /\ Pulled \subseteq Query

FrontSpec == SeededInit /\ [][Pull \/ Push \/ Step]_vars

-----------------------------------------------------------------------------
(* The package as the inputs describe it now. *)
CurrentPackage ==
  LET list == slots[PackageFiles].value[2] IN
  [name  |-> IF slots[PackageMetadata] = NoSlot THEN "directory"
             ELSE slots[PackageMetadata].value[2],
   files |-> [f \in {list[k] : k \in DOMAIN list} |-> slots[SourceText(f)].value[2]]]

CurrentLint == Lint(slots[SourceText("f")].value[2])

(* What the clients keep true between their writes and the query bodies     *)
(* count on (Input.Fetch panics on a key that is not set): the package has  *)
(* a list of files, and every file that is listed, and f, has a source.     *)
ListedHaveSource ==
  /\ \A i \in FrontInput : slots[i] # NoSlot => slots[i].value \in InputVal(i)
  /\ slots[PackageFiles] # NoSlot
  /\ LET list == slots[PackageFiles].value[2] IN
     \A f \in {"f"} \cup {list[k] : k \in DOMAIN list} : slots[SourceText(f)] # NoSlot

(***************************************************************************)
(* Everything computed without passing the cut-off at ResolvePackage is     *)
(* exact: parse results, the package as built, the identifier index and the *)
(* resolver's diagnostics, and in the published list all but what the       *)
(* checker contributes.                                                     *)
(***************************************************************************)
ExactBeforeCutoff ==
  /\ \A f \in File : Verified(Parse(f)) => slots[Parse(f)].value = slots[SourceText(f)].value
  /\ Verified(BuildPackage) => slots[BuildPackage].value = <<"package", CurrentPackage>>
  /\ \A q \in {IdentIndex, ResolveDiags} :
       Verified(q) => slots[q].value[2] = Unresolved(CurrentPackage)
  /\ Verified(FileDiagnostics) =>
       slots[FileDiagnostics].value[2] \ {"mistyped"} = Unresolved(CurrentPackage) \cup CurrentLint

(***************************************************************************)
(* Behind the cut-off a result may be old, but only as old as the resolved  *)
(* surface: a check result is the result for some package with the same     *)
(* files, declarations and references as the current one.                   *)
(***************************************************************************)
CheckWithinSurface ==
  \A c \in {CheckPackage, CheckFile} : Verified(c) =>
    \E p \in Package :
      /\ Surface(p) = Surface(CurrentPackage)
      /\ slots[c].value = <<"check", Check(p)>>

(***************************************************************************)
(* The diagnostics of a file are those of its current text and package: a   *)
(* result is reused only when it would be the same                          *)
(* (runAndStoreLocked: "Early cutoff: value is semantically identical").    *)
(***************************************************************************)
DiagnosticsAreCurrent ==
  Verified(FileDiagnostics) =>
    slots[FileDiagnostics].value[2] =
      Unresolved(CurrentPackage) \cup Mistyped(Check(CurrentPackage)) \cup CurrentLint

=============================================================================
