--------------------------- MODULE FrontendProofs ----------------------------
(***************************************************************************)
(* What a front-end query holds when it is verified, in every reachable     *)
(* state: from the invariant of the query engine, one query after another.  *)
(***************************************************************************)
EXTENDS FrontendQueries, EngineProofs

-----------------------------------------------------------------------------
(* The runs behind the slots, for any bodies *)

(* Where the body of q was after the first k reads its slot records. *)
EndOf(q) ==
  LET deps == slots[q].deps IN
  IF deps = <<>> THEN Entry[q] ELSE Jump(deps[Len(deps)].at, deps[Len(deps)].seen)

At(q, k) == IF k < Len(slots[q].deps) THEN slots[q].deps[k + 1].at ELSE EndOf(q)

(* The run behind the slot of q comes through point p. *)
Reaches(q, p) == \E k \in 0..Len(slots[q].deps) : At(q, k) = p

(* What is known of the reads of a verified slot. *)
LEMMA VerifiedFacts ==
  ASSUME IInv, NEW q \in Query, Verified(q)
  PROVE  /\ slots[q] # NoSlot /\ slots[q].deps \in Seq(Dep) /\ Len(slots[q].deps) \in Nat
         /\ Follows(q, slots[q].deps, EndOf(q))
         /\ EndOf(q) \in Point
         /\ Code[EndOf(q)].op = "return"
         /\ Code[EndOf(q)].val = slots[q].value
         /\ \A k \in 1..Len(slots[q].deps) :
              /\ slots[q].deps[k] \in Dep
              /\ SoundEdge(slots[q].deps[k], q) /\ Current(slots[q].deps[k])
              /\ slots[q].deps[k].cell \in Query => Verified(slots[q].deps[k].cell)
<1>1. TypeOK /\ q \in Cell /\ slots[q] # NoSlot /\ slots[q].verifiedAt = rev
  BY DEF IInv, Verified, Cell
<1>2. /\ slots[q].deps \in Seq(Dep) /\ Len(slots[q].deps) \in Nat
      /\ \A k \in 1..Len(slots[q].deps) : slots[q].deps[k] \in Dep
  BY <1>1, SlotFacts
<1>3. /\ Explains(q, slots[q].deps, slots[q].value)
      /\ \A k \in 1..Len(slots[q].deps) : SoundEdge(slots[q].deps[k], q) /\ Unmoved(slots[q].deps[k])
  BY <1>1 DEF IInv, QuerySlots
<1>4. PICK p \in Point : /\ Follows(q, slots[q].deps, p)
                         /\ Code[p].op = "return" /\ Code[p].val = slots[q].value
  BY <1>3 DEF Explains
<1>5. p = EndOf(q)
  BY <1>4 DEF Follows, EndOf
<1>6. \A k \in 1..Len(slots[q].deps) :
        /\ Current(slots[q].deps[k])
        /\ slots[q].deps[k].cell \in Query => Verified(slots[q].deps[k].cell)
  BY <1>3 DEF SoundEdge, Unmoved
<1>7. QED
  BY <1>1, <1>2, <1>3, <1>4, <1>5, <1>6

(* A run starts at the entry of the body. *)
LEMMA ReachesEntry ==
  ASSUME IInv, NEW q \in Query, Verified(q)
  PROVE  Reaches(q, Entry[q])
<1> DEFINE deps == slots[q].deps
<1>1. deps \in Seq(Dep) /\ Len(deps) \in Nat /\ Follows(q, deps, EndOf(q))
  BY VerifiedFacts
<1>2. At(q, 0) = Entry[q]
  <2>1. CASE deps = <<>>
    BY <1>1, <2>1, EmptySeq DEF At, EndOf
  <2>2. CASE deps # <<>>
    <3>1. 0 < Len(deps) /\ deps[0 + 1].at = Entry[q]
      BY <1>1, <2>2, EmptySeq DEF Follows
    <3>2. QED
      BY <3>1 DEF At
  <2>3. QED
    BY <2>1, <2>2
<1>3. 0 \in 0..Len(deps)
  BY <1>1
<1>4. QED
  BY <1>2, <1>3 DEF Reaches

(* A run goes on from a point that reads, by an answer that would be given  *)
(* now; a run that comes to a return ends there.                            *)
LEMMA ReachesNext ==
  ASSUME IInv, NEW q \in Query, Verified(q), NEW p, Reaches(q, p)
  PROVE  /\ p \in Point
         /\ Code[p].op = "return" => slots[q].value = Code[p].val
         /\ Code[p].op = "has" =>
              Reaches(q, Jump(p, IF slots[Code[p].cell] = NoSlot THEN Absent ELSE Present))
         /\ Code[p].op = "fetch" =>
              /\ slots[Code[p].cell] # NoSlot
              /\ Code[p].cell \in Query => Verified(Code[p].cell)
              /\ \E v \in Val : /\ Same(Code[p].cell, slots[Code[p].cell].value, v)
                                /\ Reaches(q, Jump(p, v))
<1> DEFINE deps == slots[q].deps
           n == Len(deps)
<1>1. /\ deps \in Seq(Dep) /\ n \in Nat /\ Follows(q, deps, EndOf(q)) /\ EndOf(q) \in Point
      /\ Code[EndOf(q)].op = "return" /\ Code[EndOf(q)].val = slots[q].value
      /\ \A k \in 1..n : /\ deps[k] \in Dep
                         /\ SoundEdge(deps[k], q) /\ Current(deps[k])
                         /\ deps[k].cell \in Query => Verified(deps[k].cell)
  BY VerifiedFacts
<1>2. PICK k \in 0..n : At(q, k) = p
  BY DEF Reaches
<1>3. CASE k = n
  <2>1. p = EndOf(q)
    BY <1>1, <1>2, <1>3 DEF At
  <2>2. QED
    BY <1>1, <2>1
<1>4. CASE k # n
  <2>1. k < n /\ k + 1 \in 1..n /\ k + 1 \in 0..n
    BY <1>1, <1>4
  <2> DEFINE d == deps[k + 1]
  <2>2. p = d.at /\ d \in Dep /\ p \in Point
    BY <1>1, <1>2, <2>1 DEF At, Dep
  <2>3. At(q, k + 1) = Jump(p, d.seen)
    <3>1. CASE k + 1 < n
      BY <1>1, <2>1, <2>2, <3>1 DEF At, Follows
    <3>2. CASE k + 1 = n
      <4>1. deps # <<>>
        BY <2>1, EmptySeq
      <4>2. QED
        BY <2>1, <2>2, <3>2, <4>1 DEF At, EndOf
    <3>3. QED
      BY <1>1, <2>1, <3>1, <3>2
  <2>4. Reaches(q, Jump(p, d.seen))
    BY <2>1, <2>3 DEF Reaches
  <2>5. SoundEdge(d, q) /\ Current(d) /\ (d.cell \in Query => Verified(d.cell))
    BY <1>1, <2>1
  <2> HIDE DEF d
  <2>6. Code[p].op \in {"fetch", "has"} /\ Code[p].cell = d.cell
        /\ (Code[p].op = "fetch" => d.seen \in Val)
    BY <2>2, <2>5 DEF SoundEdge
  <2>7. QED
    BY <2>2, <2>4, <2>5, <2>6 DEF Current
<1>5. QED
  BY <1>3, <1>4

-----------------------------------------------------------------------------
(* The program of the front end *)

(* Which body and which answers belong to which query. *)
LEMMA Registered ==
  ASSUME NEW t
  PROVE  /\ \A f \in File : FrontBody(Parse(f), t) = ParseBody(f, t)
         /\ FrontBody(LintFile, t) = LintFileBody(t)
         /\ FrontBody(BuildPackage, t) = BuildPackageBody(t)
         /\ FrontBody(ResolvePackage, t) = ResolvePackageBody(t)
         /\ FrontBody(CheckPackage, t) = CheckPackageBody(t)
         /\ FrontBody(CheckFile, t) = CheckFileBody(t)
         /\ \A q \in {IdentIndex, ResolveDiags} : FrontBody(q, t) = OverBuildPackageBody(t)
         /\ FrontBody(FileDiagnostics, t) = FileDiagnosticsBody(t)
BY DEF FrontBody, File, Parse, LintFile, BuildPackage, ResolvePackage, ResolveFile, CheckPackage,
       CheckFile, IdentIndex, ResolveDiags, FileDiagnostics, Dir

LEMMA Answers ==
  /\ \A f \in File : TracesOf(Parse(f)) = One(SourceVal)
  /\ TracesOf(LintFile) = One(SourceVal)
  /\ TracesOf(BuildPackage) = BuildTrace
  /\ TracesOf(ResolvePackage) = One(PackageVal)
  /\ TracesOf(CheckPackage) = One(PackageVal)
  /\ TracesOf(CheckFile) = One(CheckVal)
  /\ \A q \in {IdentIndex, ResolveDiags} : TracesOf(q) = One(PackageVal)
  /\ TracesOf(FileDiagnostics) = DiagTrace
BY DEF TracesOf, File, Parse, LintFile, BuildPackage, ResolvePackage, CheckPackage,
       CheckFile, IdentIndex, ResolveDiags, FileDiagnostics, Dir

LEMMA CellFacts ==
  /\ \A f \in File : SourceText(f) \in Input /\ SourceText(f) # ResolvePackage
  /\ \A f \in File : Parse(f) \in Query /\ Parse(f) # ResolvePackage
  /\ PackageFiles \in Input /\ PackageFiles # ResolvePackage
  /\ PackageMetadata \in Input /\ PackageMetadata # ResolvePackage
  /\ LintFile \in Query /\ LintFile # ResolvePackage
  /\ BuildPackage \in Query /\ BuildPackage # ResolvePackage
  /\ CheckPackage \in Query /\ CheckPackage # ResolvePackage
  /\ CheckFile \in Query /\ CheckFile # ResolvePackage
  /\ ResolveDiags \in Query /\ ResolveDiags # ResolvePackage
  /\ IdentIndex \in Query /\ FileDiagnostics \in Query /\ ResolvePackage \in Query
<1>1. /\ \A f \in File : SourceText(f) # ResolvePackage /\ Parse(f) # ResolvePackage
      /\ PackageFiles # ResolvePackage /\ PackageMetadata # ResolvePackage
      /\ LintFile # ResolvePackage /\ BuildPackage # ResolvePackage
      /\ CheckPackage # ResolvePackage /\ CheckFile # ResolvePackage
      /\ ResolveDiags # ResolvePackage
  BY DEF SourceText, Parse, PackageFiles, PackageMetadata, LintFile, BuildPackage, CheckPackage,
         CheckFile, ResolveDiags, ResolvePackage
<1>2. QED
  BY <1>1, FrontAssumption DEF FrontInput, FrontQuery

(* A body at the point it has come to by the answers t. *)
LEMMA PointFacts ==
  ASSUME NEW q \in Query, NEW t \in TracesOf(q)
  PROVE  <<q, t>> \in Point /\ Code[<<q, t>>] = FrontBody(q, t) /\ Owner[<<q, t>>] = q
<1>1. <<q, t>> \in FrontPoint
  BY FrontAssumption DEF FrontPoint
<1>2. QED
  BY <1>1, FrontAssumption DEF FrontCode, FrontOwner

LEMMA StepFacts ==
  ASSUME NEW q \in Query, NEW t \in TracesOf(q), NEW v \in Seen, Append(t, v) \in TracesOf(q)
  PROVE  Jump(<<q, t>>, v) = <<q, Append(t, v)>>
<1>1. <<q, t>> \in Point /\ <<q, Append(t, v)>> \in FrontPoint
  BY PointFacts, FrontAssumption
<1>2. QED
  BY <1>1, FrontAssumption DEF FrontJump

(* Only the hash of ResolvePackage identifies different values. *)
LEMMA HashExact ==
  ASSUME NEW c \in Cell, c # ResolvePackage, NEW v \in Val, NEW w \in Val, Same(c, v, w)
  PROVE  v = w
<1>1. Hash(c, v) = v /\ Hash(c, w) = w
  BY FrontAssumption DEF FrontHash
<1>2. QED
  BY <1>1 DEF Same

(* A read of anything but ResolvePackage is answered by what is there now. *)
LEMMA ReadExact ==
  ASSUME IInv, NEW q \in Query, Verified(q), NEW t \in TracesOf(q), Reaches(q, <<q, t>>),
         NEW c \in Cell, c # ResolvePackage, FrontBody(q, t) = FetchOf(c)
  PROVE  /\ slots[c] # NoSlot
         /\ slots[c].value \in Val
         /\ c \in Query => Verified(c)
         /\ Append(t, slots[c].value) \in TracesOf(q) => Reaches(q, <<q, Append(t, slots[c].value)>>)
<1>1. Code[<<q, t>>].op = "fetch" /\ Code[<<q, t>>].cell = c
  BY PointFacts DEF FetchOf
<1>2. slots[c] # NoSlot /\ (c \in Query => Verified(c))
  BY <1>1, ReachesNext
<1>3. PICK v \in Val : Same(c, slots[c].value, v) /\ Reaches(q, Jump(<<q, t>>, v))
  BY <1>1, ReachesNext
<1>4. slots[c].value \in Val
  BY <1>2, SlotFacts DEF IInv
<1>5. v = slots[c].value
  BY <1>3, <1>4, HashExact
<1>6. QED
  BY <1>2, <1>3, <1>4, <1>5, StepFacts DEF Seen

LEMMA HasExact ==
  ASSUME IInv, NEW q \in Query, Verified(q), NEW t \in TracesOf(q), Reaches(q, <<q, t>>),
         NEW c \in Cell, FrontBody(q, t) = HasKey(c), NEW a,
         a = (IF slots[c] = NoSlot THEN Absent ELSE Present), Append(t, a) \in TracesOf(q)
  PROVE  Reaches(q, <<q, Append(t, a)>>)
<1>1. Code[<<q, t>>].op = "has" /\ Code[<<q, t>>].cell = c
  BY PointFacts DEF HasKey
<1>2. Reaches(q, Jump(<<q, t>>, a))
  BY <1>1, ReachesNext
<1>3. QED
  BY <1>2, StepFacts DEF Seen

LEMMA ReturnExact ==
  ASSUME IInv, NEW q \in Query, Verified(q), NEW t \in TracesOf(q), Reaches(q, <<q, t>>),
         NEW v, FrontBody(q, t) = Return(v)
  PROVE  slots[q].value = v
BY PointFacts, ReachesNext DEF Return

LEMMA StartExact ==
  ASSUME IInv, NEW q \in Query, Verified(q)
  PROVE  Reaches(q, <<q, <<>>>>)
BY ReachesEntry, FrontAssumption DEF FrontEntry

-----------------------------------------------------------------------------
(* Queries that read one cell *)

LEMMA OneRead ==
  ASSUME IInv, NEW q \in Query, Verified(q), NEW A, TracesOf(q) = One(A),
         NEW c \in Cell, c # ResolvePackage, FrontBody(q, <<>>) = FetchOf(c)
  PROVE  /\ slots[c] # NoSlot
         /\ c \in Query => Verified(c)
         /\ \A v : (slots[c].value \in A /\ FrontBody(q, <<slots[c].value>>) = Return(v))
                     => slots[q].value = v
<1>1. <<>> \in TracesOf(q) /\ Reaches(q, <<q, <<>>>>)
  BY StartExact DEF One
<1>2. slots[c] # NoSlot /\ (c \in Query => Verified(c))
  BY <1>1, ReadExact
<1>3. ASSUME slots[c].value \in A, NEW v, FrontBody(q, <<slots[c].value>>) = Return(v)
      PROVE  slots[q].value = v
  <2>1. Append(<<>>, slots[c].value) = <<slots[c].value>> /\ <<slots[c].value>> \in TracesOf(q)
    BY <1>3 DEF One
  <2>2. Reaches(q, <<q, <<slots[c].value>>>>)
    BY <1>1, <2>1, ReadExact
  <2>3. QED
    BY <1>3, <2>1, <2>2, ReturnExact
<1>4. QED
  BY <1>2, <1>3

(* A verified parse result is that of the text the file has now. *)
LEMMA ParseExact ==
  ASSUME IInv, ListedHaveSource, NEW f \in File, Verified(Parse(f))
  PROVE  /\ slots[SourceText(f)] # NoSlot
         /\ slots[SourceText(f)].value \in SourceVal
         /\ slots[Parse(f)].value = slots[SourceText(f)].value
<1> DEFINE c == SourceText(f)
<1>1. c \in Cell /\ c # ResolvePackage /\ Parse(f) \in Query /\ c \in FrontInput
  BY CellFacts, FrontAssumption DEF Cell
<1>2. FrontBody(Parse(f), <<>>) = FetchOf(c) /\ TracesOf(Parse(f)) = One(SourceVal)
  BY Registered, Answers DEF ParseBody
<1>3. slots[c] # NoSlot
  BY <1>1, <1>2, OneRead
<1>4. InputVal(c) = SourceVal
  BY DEF InputVal, SourceText, PackageFiles, PackageMetadata
<1>5. slots[c].value \in SourceVal
  BY <1>1, <1>3, <1>4 DEF ListedHaveSource
<1>6. FrontBody(Parse(f), <<slots[c].value>>) = Return(slots[c].value)
  <2>1. FrontBody(Parse(f), <<slots[c].value>>) = ParseBody(f, <<slots[c].value>>)
    BY Registered
  <2>2. <<slots[c].value>> # <<>> /\ <<slots[c].value>>[1] = slots[c].value
    OBVIOUS
  <2>3. QED
    BY <2>1, <2>2 DEF ParseBody
<1>7. QED
  BY <1>1, <1>2, <1>3, <1>5, <1>6, OneRead

(* Lint results too. *)
LEMMA LintExact ==
  ASSUME IInv, ListedHaveSource, Verified(LintFile)
  PROVE  slots[LintFile].value = <<"diags", CurrentLint>>
<1> DEFINE c == SourceText("f")
<1>1. c \in Cell /\ c # ResolvePackage /\ LintFile \in Query /\ c \in FrontInput
  BY CellFacts, FrontAssumption DEF Cell, File
<1>2. FrontBody(LintFile, <<>>) = FetchOf(c) /\ TracesOf(LintFile) = One(SourceVal)
  BY Registered, Answers DEF LintFileBody
<1>3. slots[c] # NoSlot
  BY <1>1, <1>2, OneRead
<1>4. InputVal(c) = SourceVal
  BY DEF InputVal, SourceText, PackageFiles, PackageMetadata
<1>5. slots[c].value \in SourceVal
  BY <1>1, <1>3, <1>4 DEF ListedHaveSource
<1>6. FrontBody(LintFile, <<slots[c].value>>) = Return(<<"diags", CurrentLint>>)
  <2>1. FrontBody(LintFile, <<slots[c].value>>) = LintFileBody(<<slots[c].value>>)
    BY Registered
  <2>2. <<slots[c].value>> # <<>> /\ <<slots[c].value>>[1] = slots[c].value
    OBVIOUS
  <2>3. QED
    BY <2>1, <2>2 DEF LintFileBody, CurrentLint
<1>7. QED
  BY <1>1, <1>2, <1>3, <1>5, <1>6, OneRead

-----------------------------------------------------------------------------
(* BuildPackage *)

LEMMA ListFacts ==
  ASSUME NEW list \in Listed
  PROVE  /\ Len(list) \in {1, 2} /\ DOMAIN list = 1..Len(list)
         /\ list[1] = "f" /\ (Len(list) = 2 => list[2] = "g")
         /\ \A j \in DOMAIN list : list[j] \in File
         /\ \A j \in DOMAIN list : (CHOOSE k \in DOMAIN list : list[k] = list[j]) = j
<1>1. CASE list = <<"f">>
  <2>1. Len(list) = 1 /\ DOMAIN list = 1..1 /\ list[1] = "f"
    BY <1>1
  <2>2. \A j \in DOMAIN list : j = 1
    BY <2>1
  <2>3. QED
    BY <2>1, <2>2 DEF File
<1>2. CASE list = <<"f", "g">>
  <2>1. Len(list) = 2 /\ DOMAIN list = 1..2 /\ list[1] = "f" /\ list[2] = "g"
    BY <1>2
  <2>2. \A j \in DOMAIN list : j = 1 \/ j = 2
    BY <2>1
  <2>3. QED
    BY <2>1, <2>2 DEF File
<1>3. QED
  BY <1>1, <1>2 DEF Listed

(* The package inputs as they are now. *)
LEMMA CurrentFacts ==
  ASSUME ListedHaveSource
  PROVE  LET list == slots[PackageFiles].value[2] IN
         /\ slots[PackageFiles].value \in ListVal
         /\ list \in Listed
         /\ \A j \in DOMAIN list : /\ slots[SourceText(list[j])] # NoSlot
                                   /\ slots[SourceText(list[j])].value \in SourceVal
         /\ slots[PackageMetadata] # NoSlot => slots[PackageMetadata].value \in MetaVal
         /\ CurrentPackage \in Package
         /\ CurrentPackage.name = IF slots[PackageMetadata] = NoSlot THEN "directory"
                                  ELSE slots[PackageMetadata].value[2]
         /\ CurrentPackage.files =
              [f \in {list[k] : k \in DOMAIN list} |-> slots[SourceText(f)].value[2]]
<1> DEFINE list == slots[PackageFiles].value[2]
<1>1. slots[PackageFiles].value \in ListVal
  <2>1. PackageFiles \in FrontInput /\ InputVal(PackageFiles) = ListVal
    BY DEF FrontInput, InputVal, PackageFiles, PackageMetadata
  <2>2. QED
    BY <2>1 DEF ListedHaveSource
<1>2. list \in Listed
  BY <1>1 DEF ListVal
<1>3. ASSUME NEW j \in DOMAIN list
      PROVE  slots[SourceText(list[j])] # NoSlot /\ slots[SourceText(list[j])].value \in SourceVal
  <2>1. list[j] \in File
    BY <1>2, ListFacts
  <2>2. slots[SourceText(list[j])] # NoSlot
    BY DEF ListedHaveSource
  <2>3. SourceText(list[j]) \in FrontInput /\ InputVal(SourceText(list[j])) = SourceVal
    BY <2>1 DEF FrontInput, InputVal, SourceText, PackageFiles, PackageMetadata
  <2>4. QED
    BY <2>2, <2>3 DEF ListedHaveSource
<1>4. slots[PackageMetadata] # NoSlot => slots[PackageMetadata].value \in MetaVal
  <2>1. PackageMetadata \in FrontInput /\ InputVal(PackageMetadata) = MetaVal
    BY DEF FrontInput, InputVal, PackageFiles, PackageMetadata
  <2>2. QED
    BY <2>1 DEF ListedHaveSource
<1>5. CurrentPackage.name \in PackageName
  BY <1>4 DEF CurrentPackage, MetaVal, PackageName
<1>6. CurrentPackage.files \in [{list[k] : k \in DOMAIN list} -> Source]
  <2>1. ASSUME NEW f \in {list[k] : k \in DOMAIN list}
        PROVE  slots[SourceText(f)].value[2] \in Source
    BY <1>3, <2>1 DEF SourceVal
  <2>2. CurrentPackage.files = [f \in {list[k] : k \in DOMAIN list} |-> slots[SourceText(f)].value[2]]
    BY DEF CurrentPackage
  <2>3. QED
    BY <2>1, <2>2
<1>7. CurrentPackage \in [name: PackageName, files: [{list[k] : k \in DOMAIN list} -> Source]]
  <2>1. CurrentPackage = [name |-> CurrentPackage.name, files |-> CurrentPackage.files]
    BY DEF CurrentPackage
  <2>2. QED
    BY <1>5, <1>6, <2>1
<1>8. CurrentPackage \in Package
  <2> DEFINE P(l) == [name: PackageName, files: [{l[k] : k \in DOMAIN l} -> Source]]
  <2>1. Package = UNION {P(l) : l \in Listed} /\ CurrentPackage \in P(list)
    BY <1>7 DEF Package
  <2> HIDE DEF P
  <2>2. QED
    BY <1>2, <2>1
<1>9. QED
  BY <1>1, <1>2, <1>3, <1>4, <1>8 DEF CurrentPackage

(* What the body of BuildPackage does after each group of answers. *)
LEMMA BuildBodyFacts ==
  ASSUME NEW l \in ListVal, NEW t \in Seq(Seen), t # <<>>, t[1] = l
  PROVE  /\ Len(t) = 1 => BuildPackageBody(t) = HasKey(PackageMetadata)
         /\ (Len(t) = 2 /\ t[2] = Present) => BuildPackageBody(t) = FetchOf(PackageMetadata)
         /\ (Len(t) >= SkipOf(t) /\ Len(t) - SkipOf(t) < Len(l[2])) =>
              BuildPackageBody(t) = FetchOf(Parse(l[2][Len(t) - SkipOf(t) + 1]))
         /\ (Len(t) >= SkipOf(t) /\ Len(t) - SkipOf(t) = Len(l[2])) =>
              BuildPackageBody(t) = Return(<<"package", Assemble(t)>>)
<1> DEFINE n == Len(t)
           skip == SkipOf(t)
<1>1. n \in Nat /\ n # 0 /\ l[2] \in Listed
  BY EmptySeq, LenProperties DEF ListVal
<1>2. Len(l[2]) \in {1, 2}
  BY <1>1, ListFacts
<1>3. skip \in {2, 3} /\ (n = 1 => skip = 2) /\ (skip = 3 => t[2] = Present)
      /\ ((n = 2 /\ t[2] = Present) => skip = 3)
  BY <1>1 DEF SkipOf
<1> HIDE DEF skip, n
<1> DEFINE Body(k, s, list) ==
       CASE k = 0 -> FetchOf(PackageFiles)
         [] k = 1 -> HasKey(PackageMetadata)
         [] k = 2 /\ s = 3 -> FetchOf(PackageMetadata)
         [] k >= s /\ k - s < Len(list) -> FetchOf(Parse(list[k - s + 1]))
         [] OTHER -> Return(<<"package", Assemble(t)>>)
<1>4. BuildPackageBody(t) = Body(n, skip, l[2])
  BY DEF BuildPackageBody, n, skip
<1>5. /\ n = 1 => BuildPackageBody(t) = HasKey(PackageMetadata)
      /\ (n = 2 /\ skip = 3) => BuildPackageBody(t) = FetchOf(PackageMetadata)
  <2>1. CASE n = 1
    BY <1>3, <1>4, <2>1
  <2>2. CASE n = 2 /\ skip = 3
    BY <1>4, <2>2
  <2>3. QED
    BY <2>1, <2>2
<1>6. ASSUME n >= skip, n - skip < Len(l[2])
      PROVE  BuildPackageBody(t) = FetchOf(Parse(l[2][n - skip + 1]))
  BY <1>1, <1>2, <1>3, <1>6, <1>4
<1>7. ASSUME n >= skip, n - skip = Len(l[2])
      PROVE  BuildPackageBody(t) = Return(<<"package", Assemble(t)>>)
  <2>1. n # 0 /\ n # 1 /\ ~(n = 2 /\ skip = 3) /\ ~(n - skip < Len(l[2]))
    BY <1>1, <1>2, <1>3, <1>7
  <2>2. Body(n, skip, l[2]) = Return(<<"package", Assemble(t)>>)
    BY <2>1
  <2>3. QED
    BY <1>4, <2>2
<1>8. QED
  BY <1>3, <1>5, <1>6, <1>7 DEF n, skip

(* Appending to a short tuple. *)
LEMMA Append1 == ASSUME NEW S, NEW a \in S, NEW b \in S PROVE Append(<<a>>, b) = <<a, b>>
<1>1. <<a>> \in Seq(S) /\ <<a, b>> \in Seq(S) /\ Len(<<a>>) = 1 /\ Len(<<a, b>>) = 2
  OBVIOUS
<1>2. /\ Append(<<a>>, b) \in Seq(S)
      /\ Len(Append(<<a>>, b)) = 2
      /\ \A i \in 1..1 : Append(<<a>>, b)[i] = <<a>>[i]
      /\ Append(<<a>>, b)[2] = b
  BY <1>1, AppendProperties
<1>3. \A i \in 1..2 : Append(<<a>>, b)[i] = <<a, b>>[i]
  BY <1>2
<1>4. QED
  BY <1>1, <1>2, <1>3, SeqEqual

LEMMA Append2 ==
  ASSUME NEW S, NEW a \in S, NEW b \in S, NEW c \in S PROVE Append(<<a, b>>, c) = <<a, b, c>>
<1>1. <<a, b>> \in Seq(S) /\ <<a, b, c>> \in Seq(S) /\ Len(<<a, b>>) = 2 /\ Len(<<a, b, c>>) = 3
  OBVIOUS
<1>2. /\ Append(<<a, b>>, c) \in Seq(S)
      /\ Len(Append(<<a, b>>, c)) = 3
      /\ \A i \in 1..2 : Append(<<a, b>>, c)[i] = <<a, b>>[i]
      /\ Append(<<a, b>>, c)[3] = c
  BY <1>1, AppendProperties
<1>3. \A i \in 1..3 : Append(<<a, b>>, c)[i] = <<a, b, c>>[i]
  BY <1>2
<1>4. QED
  BY <1>1, <1>2, <1>3, SeqEqual

(* The answers to the first reads: the list, and the metadata if it is set. *)
LEMMA BuildHead ==
  ASSUME IInv, ListedHaveSource, Verified(BuildPackage)
  PROVE  \E h \in Seq(Seen) :
           /\ Reaches(BuildPackage, <<BuildPackage, h>>)
           /\ \/ \E l \in ListVal : h = <<l, Absent>>
              \/ \E l \in ListVal, m \in MetaVal : h = <<l, Present, m>>
           /\ h[1] = slots[PackageFiles].value
           /\ CurrentPackage.name = IF h[2] = Present THEN h[3][2] ELSE "directory"
<1> DEFINE q == BuildPackage
           l == slots[PackageFiles].value
           m == slots[PackageMetadata].value
<1>1. /\ q \in Query /\ TracesOf(q) = BuildTrace /\ PackageFiles \in Cell /\ PackageMetadata \in Cell
      /\ PackageFiles # ResolvePackage /\ PackageMetadata # ResolvePackage
      /\ \A t : FrontBody(q, t) = BuildPackageBody(t)
  BY CellFacts, Answers, Registered DEF Cell
<1>2. /\ l \in ListVal /\ l \in Val
      /\ slots[PackageMetadata] # NoSlot => m \in MetaVal /\ m \in Val
      /\ CurrentPackage.name = IF slots[PackageMetadata] = NoSlot THEN "directory" ELSE m[2]
  BY CurrentFacts, FrontAssumption DEF FrontVal
<1> HIDE DEF q, l, m
<1>3. Reaches(q, <<q, <<l>>>>)
  <2>1. Reaches(q, <<q, <<>>>>) /\ <<>> \in TracesOf(q)
    BY <1>1, StartExact DEF BuildTrace, One, q
  <2>2. FrontBody(q, <<>>) = FetchOf(PackageFiles)
    <3>1. ASSUME NEW t, Len(t) = 0 PROVE BuildPackageBody(t) = FetchOf(PackageFiles)
      BY <3>1 DEF BuildPackageBody, SkipOf
    <3>2. QED
      BY <1>1, <3>1
  <2>3. Append(<<>>, l) = <<l>> /\ <<l>> \in TracesOf(q)
    BY <1>1, <1>2 DEF BuildTrace, One
  <2>4. QED
    BY <1>1, <2>1, <2>2, <2>3, ReadExact DEF l, q
<1>4. <<l>> \in TracesOf(q) /\ FrontBody(q, <<l>>) = HasKey(PackageMetadata)
  <2>1. <<l>> \in Seq(Seen) /\ <<l>> # <<>> /\ <<l>>[1] = l /\ Len(<<l>>) = 1
    BY <1>2 DEF Seen
  <2>2. BuildPackageBody(<<l>>) = HasKey(PackageMetadata)
    BY <1>2, <2>1, BuildBodyFacts
  <2>3. QED
    BY <1>1, <1>2, <2>2 DEF BuildTrace, One
<1>5. /\ l \in Seen /\ Absent \in Seen /\ Present \in Seen
      /\ slots[PackageMetadata] # NoSlot => m \in Seen
  BY <1>2 DEF Seen
<1>6. CASE slots[PackageMetadata] = NoSlot
  <2>1. Append(<<l>>, Absent) = <<l, Absent>> /\ <<l, Absent>> \in TracesOf(q)
    <3>1. <<l, Absent>> \in BuildTrace
      BY <1>1, <1>2 DEF BuildTrace, BuildHeads
    <3>2. Append(<<l>>, Absent) = <<l, Absent>>
      BY <1>5, Append1
    <3>3. QED
      BY <1>1, <3>1, <3>2
  <2>2. Reaches(q, <<q, <<l, Absent>>>>)
    BY <1>1, <1>3, <1>4, <1>6, <2>1, HasExact DEF q
  <2>3. <<l, Absent>> \in Seq(Seen) /\ <<l, Absent>>[1] = l /\ <<l, Absent>>[2] # Present
    BY <1>2, EngineAssumption DEF Seen
  <2>4. QED
    BY <1>2, <1>6, <2>2, <2>3 DEF q, l
<1>7. CASE slots[PackageMetadata] # NoSlot
  <2>1. Append(<<l>>, Present) = <<l, Present>> /\ <<l, Present>> \in TracesOf(q)
    <3>1. <<l, Present>> \in BuildTrace
      BY <1>1, <1>2 DEF BuildTrace, BuildHeads
    <3>2. Append(<<l>>, Present) = <<l, Present>>
      BY <1>5, Append1
    <3>3. QED
      BY <1>1, <3>1, <3>2
  <2>2. Reaches(q, <<q, <<l, Present>>>>)
    BY <1>1, <1>3, <1>4, <1>7, <2>1, HasExact DEF q
  <2>3. FrontBody(q, <<l, Present>>) = FetchOf(PackageMetadata)
    <3>1. <<l, Present>> \in Seq(Seen) /\ <<l, Present>> # <<>> /\ <<l, Present>>[1] = l
          /\ Len(<<l, Present>>) = 2 /\ <<l, Present>>[2] = Present
      BY <1>2 DEF Seen
    <3>2. QED
      BY <1>1, <1>2, <3>1, BuildBodyFacts
  <2>4. Append(<<l, Present>>, m) = <<l, Present, m>> /\ <<l, Present, m>> \in TracesOf(q)
    <3>1. <<l, Present, m>> \in BuildTrace
      BY <1>1, <1>2, <1>7 DEF BuildTrace, BuildHeads
    <3>2. Append(<<l, Present>>, m) = <<l, Present, m>>
      BY <1>7, <1>5, Append2
    <3>3. QED
      BY <1>1, <3>1, <3>2
  <2>5. Reaches(q, <<q, <<l, Present, m>>>>)
    BY <1>1, <2>1, <2>2, <2>3, <2>4, ReadExact DEF q, m
  <2>6. <<l, Present, m>> \in Seq(Seen) /\ <<l, Present, m>>[1] = l
        /\ <<l, Present, m>>[2] = Present /\ <<l, Present, m>>[3] = m
    BY <1>2, <1>7 DEF Seen
  <2>7. QED
    BY <1>2, <1>7, <2>5, <2>6 DEF q, l
<1>8. QED
  BY <1>6, <1>7

(* The package put together from parse results that are current. *)
LEMMA AssembleExact ==
  ASSUME ListedHaveSource, NEW t,
         t[1] = slots[PackageFiles].value,
         CurrentPackage.name = (IF t[2] = Present THEN t[3][2] ELSE "directory"),
         \A j \in DOMAIN t[1][2] : t[SkipOf(t) + j] = slots[SourceText(t[1][2][j])].value
  PROVE  Assemble(t) = CurrentPackage
<1> DEFINE list == t[1][2]
           D == {list[k] : k \in DOMAIN list}
           At1(f) == t[SkipOf(t) + (CHOOSE k \in DOMAIN list : list[k] = f)][2]
<1>1. list \in Listed /\ CurrentPackage.files = [f \in D |-> slots[SourceText(f)].value[2]]
  BY CurrentFacts
<1>2. ASSUME NEW f \in D PROVE At1(f) = slots[SourceText(f)].value[2]
  <2>1. PICK j \in DOMAIN list : f = list[j]
    OBVIOUS
  <2>2. (CHOOSE k \in DOMAIN list : list[k] = f) = j
    BY <1>1, <2>1, ListFacts
  <2>3. QED
    BY <2>1, <2>2
<1>3. Assemble(t).files = [f \in D |-> At1(f)] /\ Assemble(t).name = CurrentPackage.name
  BY DEF Assemble
<1> HIDE DEF At1, D
<1>4. Assemble(t).files = CurrentPackage.files
  BY <1>1, <1>2, <1>3
<1>5. Assemble(t) = [name |-> Assemble(t).name, files |-> Assemble(t).files]
  BY DEF Assemble
<1>6. CurrentPackage = [name |-> CurrentPackage.name, files |-> CurrentPackage.files]
  BY DEF CurrentPackage
<1>7. QED
  BY <1>3, <1>4, <1>5, <1>6

(* A verified BuildPackage is the package as the inputs describe it now. *)
LEMMA BuildExact ==
  ASSUME IInv, ListedHaveSource, Verified(BuildPackage)
  PROVE  slots[BuildPackage].value = <<"package", CurrentPackage>>
<1> DEFINE q == BuildPackage
           l == slots[PackageFiles].value
           list == l[2]
           s == slots[SourceText("f")].value
           u == slots[SourceText("g")].value
<1>1. /\ q \in Query /\ TracesOf(q) = BuildTrace
      /\ \A t : FrontBody(q, t) = BuildPackageBody(t)
      /\ \A f \in File : Parse(f) \in Cell /\ Parse(f) \in Query /\ Parse(f) # ResolvePackage
  BY CellFacts, Answers, Registered DEF Cell
<1>2. /\ l \in ListVal /\ list \in Listed
      /\ Len(list) \in {1, 2} /\ DOMAIN list = 1..Len(list)
      /\ list[1] = "f" /\ (Len(list) = 2 => list[2] = "g")
      /\ "f" \in File /\ "g" \in File
  BY CurrentFacts, ListFacts DEF File
<1>3. PICK h \in Seq(Seen) :
        /\ Reaches(q, <<q, h>>)
        /\ \/ \E k \in ListVal : h = <<k, Absent>>
           \/ \E k \in ListVal, m \in MetaVal : h = <<k, Present, m>>
        /\ h[1] = l
        /\ CurrentPackage.name = IF h[2] = Present THEN h[3][2] ELSE "directory"
  BY BuildHead
<1> HIDE DEF q, l, s, u
<1>4. h \in BuildHeads
  BY <1>3 DEF BuildHeads
<1>5. h # <<>> /\ Len(h) \in {2, 3} /\ SkipOf(h) = Len(h) /\ (Len(h) = 3 <=> h[2] = Present)
  <2>1. CASE \E k \in ListVal : h = <<k, Absent>>
    BY <2>1, EngineAssumption DEF SkipOf
  <2>2. CASE \E k \in ListVal, m \in MetaVal : h = <<k, Present, m>>
    BY <2>2 DEF SkipOf
  <2>3. QED
    BY <1>3, <2>1, <2>2
<1>6. FrontBody(q, h) = FetchOf(Parse("f"))
  <2>1. Len(h) >= SkipOf(h) /\ Len(h) - SkipOf(h) < Len(list) /\ Len(h) - SkipOf(h) + 1 = 1
    BY <1>2, <1>5
  <2>2. BuildPackageBody(h) = FetchOf(Parse(list[Len(h) - SkipOf(h) + 1]))
    BY <1>2, <1>3, <1>5, <2>1, BuildBodyFacts
  <2>3. QED
    BY <1>1, <1>2, <2>1, <2>2
<1>7. h \in TracesOf(q)
  BY <1>1, <1>4 DEF BuildTrace
<1>8. /\ Verified(Parse("f"))
      /\ slots[Parse("f")].value = s /\ s \in SourceVal /\ s \in Seen
  <2>1. Verified(Parse("f"))
    BY <1>1, <1>2, <1>3, <1>6, <1>7, ReadExact DEF q
  <2>2. QED
    BY <1>2, <2>1, ParseExact, FrontAssumption DEF s, FrontVal, Seen
<1>9. PICK t : t = Append(h, s)
  OBVIOUS
<1>10. /\ t \in Seq(Seen) /\ t # <<>> /\ Len(t) = Len(h) + 1
       /\ \A j \in 1..Len(h) : t[j] = h[j]
       /\ t[Len(h) + 1] = s
  BY <1>5, <1>8, <1>9, AppendProperties, EmptySeq
<1>11. t[1] = l /\ t[2] = h[2] /\ (h[2] = Present => t[3] = h[3]) /\ SkipOf(t) = Len(h)
  BY <1>3, <1>5, <1>10 DEF SkipOf
<1>12. t \in TracesOf(q)
  BY <1>1, <1>4, <1>8, <1>9 DEF BuildTrace
<1>13. Reaches(q, <<q, t>>)
  BY <1>1, <1>2, <1>3, <1>6, <1>7, <1>8, <1>9, <1>12, ReadExact DEF q
<1>14. CASE Len(list) = 1
  <2>1. BuildPackageBody(t) = Return(<<"package", Assemble(t)>>)
    <3>1. Len(t) >= SkipOf(t) /\ Len(t) - SkipOf(t) = Len(list)
      BY <1>5, <1>10, <1>11, <1>14
    <3>2. QED
      BY <1>2, <1>10, <1>11, <3>1, BuildBodyFacts
  <2>2. \A j \in DOMAIN list : t[SkipOf(t) + j] = slots[SourceText(list[j])].value
    <3>1. \A j \in DOMAIN list : j = 1
      BY <1>2, <1>14
    <3>2. QED
      BY <1>2, <1>10, <1>11, <3>1 DEF s
  <2>3. Assemble(t) = CurrentPackage
    BY <1>3, <1>11, <2>2, AssembleExact DEF l
  <2>4. QED
    BY <1>1, <1>12, <1>13, <2>1, <2>3, ReturnExact DEF q
<1>15. CASE Len(list) = 2
  <2>1. FrontBody(q, t) = FetchOf(Parse("g"))
    <3>1. Len(t) >= SkipOf(t) /\ Len(t) - SkipOf(t) < Len(list) /\ Len(t) - SkipOf(t) + 1 = 2
      BY <1>5, <1>10, <1>11, <1>15
    <3>2. BuildPackageBody(t) = FetchOf(Parse(list[Len(t) - SkipOf(t) + 1]))
      BY <1>2, <1>10, <1>11, <3>1, BuildBodyFacts
    <3>3. QED
      BY <1>1, <1>2, <1>15, <3>1, <3>2
  <2>2. /\ Verified(Parse("g"))
        /\ slots[Parse("g")].value = u /\ u \in SourceVal /\ u \in Seen
    <3>1. Verified(Parse("g"))
      BY <1>1, <1>2, <1>12, <1>13, <2>1, ReadExact DEF q
    <3>2. QED
      BY <1>2, <3>1, ParseExact, FrontAssumption DEF u, FrontVal, Seen
  <2>3. PICK w : w = Append(t, u)
    OBVIOUS
  <2>4. /\ w \in Seq(Seen) /\ w # <<>> /\ Len(w) = Len(h) + 2
        /\ \A j \in 1..(Len(h) + 1) : w[j] = t[j]
        /\ w[Len(h) + 2] = u
    <3>1. /\ w \in Seq(Seen) /\ w # <<>> /\ Len(w) = Len(t) + 1
          /\ \A j \in 1..Len(t) : w[j] = t[j]
          /\ w[Len(t) + 1] = u
      BY <1>5, <1>10, <2>2, <2>3, AppendProperties, EmptySeq
    <3>2. QED
      BY <1>5, <1>10, <3>1
  <2>5. w[1] = l /\ w[2] = h[2] /\ (h[2] = Present => w[3] = h[3]) /\ SkipOf(w) = Len(h)
        /\ w[Len(h) + 1] = s
    BY <1>5, <1>10, <1>11, <2>4 DEF SkipOf
  <2>6. w \in TracesOf(q)
    BY <1>1, <1>4, <1>8, <1>9, <2>2, <2>3 DEF BuildTrace
  <2>7. Reaches(q, <<q, w>>)
    BY <1>1, <1>2, <1>12, <1>13, <2>1, <2>2, <2>3, <2>6, ReadExact DEF q
  <2>8. BuildPackageBody(w) = Return(<<"package", Assemble(w)>>)
    <3>1. Len(w) >= SkipOf(w) /\ Len(w) - SkipOf(w) = Len(list)
      BY <1>5, <1>15, <2>4, <2>5
    <3>2. QED
      BY <1>2, <2>4, <2>5, <3>1, BuildBodyFacts
  <2>9. \A j \in DOMAIN list : w[SkipOf(w) + j] = slots[SourceText(list[j])].value
    <3>1. \A j \in DOMAIN list : j = 1 \/ j = 2
      BY <1>2, <1>15
    <3>2. QED
      BY <1>2, <1>15, <2>4, <2>5, <3>1 DEF s, u
  <2>10. Assemble(w) = CurrentPackage
    BY <1>3, <2>5, <2>9, AssembleExact DEF l
  <2>11. QED
    BY <1>1, <2>6, <2>7, <2>8, <2>10, ReturnExact DEF q
<1>16. QED
  BY <1>2, <1>14, <1>15

-----------------------------------------------------------------------------
(* Resolver and checker *)

LEMMA CurrentPackageVal ==
  ASSUME ListedHaveSource
  PROVE  <<"package", CurrentPackage>> \in PackageVal /\ <<"package", CurrentPackage>> \in Val
BY CurrentFacts, FrontAssumption DEF PackageVal, FrontVal

(* IdentIndex, ResolveDiagnostics and ResolvePackage read BuildPackage,     *)
(* which has no hash: nothing is cut off before them.                       *)
LEMMA ResolveExact ==
  ASSUME IInv, ListedHaveSource
  PROVE  /\ \A q \in {IdentIndex, ResolveDiags} :
              Verified(q) => slots[q].value = <<"diags", Unresolved(CurrentPackage)>>
         /\ Verified(ResolvePackage) =>
              slots[ResolvePackage].value = <<"package", CurrentPackage>>
<1> DEFINE v == slots[BuildPackage].value
<1>1. BuildPackage \in Cell /\ BuildPackage \in Query /\ BuildPackage # ResolvePackage
      /\ IdentIndex \in Query /\ ResolveDiags \in Query /\ ResolvePackage \in Query
  BY CellFacts DEF Cell
<1>2. <<v>> # <<>> /\ <<v>>[1] = v
  OBVIOUS
<1>3. ASSUME NEW q \in {IdentIndex, ResolveDiags}, Verified(q)
      PROVE  slots[q].value = <<"diags", Unresolved(CurrentPackage)>>
  <2>1. FrontBody(q, <<>>) = FetchOf(BuildPackage) /\ TracesOf(q) = One(PackageVal)
    BY Registered, Answers DEF OverBuildPackageBody
  <2>2. Verified(BuildPackage)
    BY <1>1, <1>3, <2>1, OneRead
  <2>3. v = <<"package", CurrentPackage>> /\ v \in PackageVal /\ v[2] = CurrentPackage
    BY <2>2, BuildExact, CurrentPackageVal
  <2>4. FrontBody(q, <<v>>) = Return(<<"diags", Unresolved(CurrentPackage)>>)
    <3>1. FrontBody(q, <<v>>) = OverBuildPackageBody(<<v>>)
      BY Registered
    <3>2. QED
      BY <1>2, <2>3, <3>1 DEF OverBuildPackageBody
  <2>5. QED
    BY <1>1, <1>3, <2>1, <2>3, <2>4, OneRead
<1>4. ASSUME Verified(ResolvePackage)
      PROVE  slots[ResolvePackage].value = <<"package", CurrentPackage>>
  <2>1. FrontBody(ResolvePackage, <<>>) = FetchOf(BuildPackage) /\ TracesOf(ResolvePackage) = One(PackageVal)
    BY Registered, Answers DEF ResolvePackageBody
  <2>2. Verified(BuildPackage)
    BY <1>1, <1>4, <2>1, OneRead
  <2>3. v = <<"package", CurrentPackage>> /\ v \in PackageVal
    BY <2>2, BuildExact, CurrentPackageVal
  <2>4. FrontBody(ResolvePackage, <<v>>) = Return(v)
    <3>1. FrontBody(ResolvePackage, <<v>>) = ResolvePackageBody(<<v>>)
      BY Registered
    <3>2. QED
      BY <1>2, <3>1 DEF ResolvePackageBody
  <2>5. QED
    BY <1>1, <1>4, <2>1, <2>3, <2>4, OneRead
<1>5. QED
  BY <1>3, <1>4

(* What a slot of the checker holds. *)
IsCheckOf(v) ==
  \E p \in Package : Surface(p) = Surface(CurrentPackage) /\ v = <<"check", Check(p)>>

(* A verified CheckPackage is the check of a package with the surface of    *)
(* the current one: its read was answered by a package with the same hash.  *)
LEMMA CheckPackageWithin ==
  ASSUME IInv, ListedHaveSource, Verified(CheckPackage)
  PROVE  IsCheckOf(slots[CheckPackage].value)
<1> DEFINE q == CheckPackage
           deps == slots[q].deps
           d == deps[Len(deps)]
<1>1. q \in Query /\ TracesOf(q) = One(PackageVal) /\ \A t : FrontBody(q, t) = CheckPackageBody(t)
      /\ ResolvePackage \in Query /\ ResolvePackage \in Cell
  BY CellFacts, Answers, Registered DEF Cell
<1>2. /\ deps \in Seq(Dep) /\ Len(deps) \in Nat /\ EndOf(q) \in Point
      /\ Code[EndOf(q)].op = "return" /\ Code[EndOf(q)].val = slots[q].value
      /\ \A k \in 1..Len(deps) : /\ deps[k] \in Dep
                                 /\ SoundEdge(deps[k], q) /\ Current(deps[k])
                                 /\ deps[k].cell \in Query => Verified(deps[k].cell)
  BY <1>1, VerifiedFacts
<1>3. ASSUME NEW t \in One(PackageVal)
      PROVE  /\ <<q, t>> \in Point
             /\ t = <<>> => Code[<<q, t>>].op = "fetch" /\ Code[<<q, t>>].cell = ResolvePackage
             /\ t # <<>> => Code[<<q, t>>].op = "return"
                            /\ Code[<<q, t>>].val = <<"check", Check(t[1][2])>>
  <2>1. <<q, t>> \in Point /\ Code[<<q, t>>] = CheckPackageBody(t)
    BY <1>1, <1>3, PointFacts
  <2>2. QED
    BY <2>1 DEF CheckPackageBody, FetchOf, Return
<1>4. deps # <<>>
  <2>1. <<>> \in One(PackageVal)
    BY DEF One
  <2>2. Entry[q] = <<q, <<>>>>
    BY <1>1, FrontAssumption DEF FrontEntry
  <2>3. QED
    BY <1>2, <1>3, <2>1, <2>2 DEF EndOf
<1>5. /\ EndOf(q) = Jump(d.at, d.seen) /\ d \in Dep /\ SoundEdge(d, q) /\ Current(d)
      /\ d.cell \in Query => Verified(d.cell)
  <2>1. Len(deps) \in 1..Len(deps)
    BY <1>2, <1>4, EmptySeq
  <2>2. QED
    BY <1>2, <1>4, <2>1 DEF EndOf
<1> HIDE DEF d, deps, q
<1>6. d.at \in Point /\ d.seen \in Seen /\ Owner[d.at] = q /\ Code[d.at].op # "return"
      /\ Code[d.at].cell = d.cell
  BY <1>5 DEF Dep, SoundEdge
<1>7. ASSUME NEW p \in FrontPoint, p[1] = q PROVE \E t \in One(PackageVal) : p = <<q, t>>
  <2>1. PICK r \in FrontQuery : p \in {<<r, t>> : t \in TracesOf(r)}
    BY DEF FrontPoint
  <2>2. PICK t \in TracesOf(r) : p = <<r, t>>
    BY <2>1
  <2>3. r = q
    BY <1>7, <2>2
  <2>4. QED
    BY <1>1, <2>2, <2>3
<1>8. d.at = <<q, <<>>>> /\ d.cell = ResolvePackage
  <2>1. d.at[1] = q /\ d.at \in FrontPoint
    BY <1>6, FrontAssumption DEF FrontOwner
  <2>2. PICK t \in One(PackageVal) : d.at = <<q, t>>
    BY <1>7, <2>1
  <2>3. t = <<>>
    BY <1>3, <1>6, <2>2
  <2>4. QED
    BY <1>3, <1>6, <2>2, <2>3
<1>9. EndOf(q) = <<q, <<d.seen>>>> /\ d.seen \in PackageVal
  <2>1. Append(<<>>, d.seen) = <<d.seen>>
    OBVIOUS
  <2>2. EndOf(q) = IF <<q, <<d.seen>>>> \in FrontPoint THEN <<q, <<d.seen>>>> ELSE <<q, <<>>>>
    <3>1. EndOf(q) = FrontJump(<<q, <<>>>>, d.seen)
      BY <1>5, <1>6, <1>8, FrontAssumption
    <3>2. <<q, <<>>>>[1] = q /\ <<q, <<>>>>[2] = <<>>
      OBVIOUS
    <3>3. QED
      BY <2>1, <3>1, <3>2 DEF FrontJump
  <2>3. Code[<<q, <<>>>>].op = "fetch"
    BY <1>3 DEF One
  <2>4. <<q, <<d.seen>>>> \in FrontPoint /\ EndOf(q) = <<q, <<d.seen>>>>
    BY <1>2, <2>2, <2>3
  <2>5. PICK t \in One(PackageVal) : <<q, <<d.seen>>>> = <<q, t>>
    BY <1>7, <2>4
  <2>6. <<d.seen>> \in One(PackageVal) /\ <<d.seen>> # <<>>
    BY <2>5
  <2>7. PICK v \in PackageVal : <<d.seen>> = <<v>>
    BY <2>6 DEF One
  <2>8. QED
    BY <2>4, <2>7
<1>10. slots[q].value = <<"check", Check(d.seen[2])>>
  <2>1. <<d.seen>> \in One(PackageVal) /\ <<d.seen>> # <<>> /\ <<d.seen>>[1] = d.seen
    BY <1>9 DEF One
  <2>2. QED
    BY <1>2, <1>3, <1>9, <2>1
<1>11. Surface(CurrentPackage) = Surface(d.seen[2]) /\ d.seen[2] \in Package
  <2>1. slots[ResolvePackage].value = <<"package", CurrentPackage>>
    BY <1>1, <1>5, <1>8, ResolveExact
  <2>2. Same(ResolvePackage, <<"package", CurrentPackage>>, d.seen)
    BY <1>5, <1>6, <1>8, <1>3, <2>1 DEF Current, One
  <2>3. ResolvePackage \in Hashed
    BY <1>1, CellFacts, FrontAssumption DEF FrontHashed
  <2>4. d.seen \in Val
    BY <1>9, FrontAssumption DEF FrontVal
  <2>5. \A v \in PackageVal : v \in Val => Hash(ResolvePackage, v) = Surface(v[2])
    BY <1>1, FrontAssumption DEF FrontHash
  <2>6. Surface(<<"package", CurrentPackage>>[2]) = Surface(d.seen[2])
    BY <1>9, <2>2, <2>3, <2>4, <2>5, CurrentPackageVal DEF Same
  <2>7. QED
    BY <1>9, <2>6 DEF PackageVal
<1>12. QED
  BY <1>10, <1>11 DEF IsCheckOf, q

LEMMA CheckValFacts ==
  ASSUME NEW v, IsCheckOf(v)
  PROVE  v \in CheckVal
<1>1. PICK p \in Package : v = <<"check", Check(p)>>
  BY DEF IsCheckOf
<1>2. DOMAIN p.files \subseteq File
  <2> DEFINE P(l) == [name: PackageName, files: [{l[k] : k \in DOMAIN l} -> Source]]
  <2>1. Package = UNION {P(l) : l \in Listed}
    BY DEF Package
  <2>2. PICK l \in Listed : p \in P(l)
    <3> HIDE DEF P
    <3>1. QED
      BY <1>1, <2>1
  <2>3. DOMAIN p.files = {l[k] : k \in DOMAIN l}
    BY <2>2
  <2>4. QED
    BY <2>2, <2>3, ListFacts
<1>3. Check(p) \in Checked
  BY <1>2 DEF Check, Checked, Resolved
<1>4. QED
  BY <1>1, <1>3 DEF CheckVal

LEMMA CheckFileWithin ==
  ASSUME IInv, ListedHaveSource, Verified(CheckFile)
  PROVE  IsCheckOf(slots[CheckFile].value)
<1> DEFINE v == slots[CheckPackage].value
<1>1. CheckPackage \in Cell /\ CheckPackage \in Query /\ CheckPackage # ResolvePackage
      /\ CheckFile \in Query
  BY CellFacts DEF Cell
<1>2. FrontBody(CheckFile, <<>>) = FetchOf(CheckPackage) /\ TracesOf(CheckFile) = One(CheckVal)
  BY Registered, Answers DEF CheckFileBody
<1>3. Verified(CheckPackage)
  BY <1>1, <1>2, OneRead
<1>4. IsCheckOf(v) /\ v \in CheckVal
  BY <1>3, CheckPackageWithin, CheckValFacts
<1>5. FrontBody(CheckFile, <<v>>) = Return(v)
  <2>1. FrontBody(CheckFile, <<v>>) = CheckFileBody(<<v>>)
    BY Registered
  <2>2. <<v>> # <<>> /\ <<v>>[1] = v
    OBVIOUS
  <2>3. QED
    BY <2>1, <2>2 DEF CheckFileBody
<1>6. slots[CheckFile].value = v
  BY <1>1, <1>2, <1>4, <1>5, OneRead
<1>7. QED
  BY <1>4, <1>6

-----------------------------------------------------------------------------
(* FileDiagnostics *)

LEMMA Append3 ==
  ASSUME NEW S, NEW a \in S, NEW b \in S, NEW c \in S, NEW e \in S
  PROVE  Append(<<a, b, c>>, e) = <<a, b, c, e>>
<1>1. /\ <<a, b, c>> \in Seq(S) /\ <<a, b, c, e>> \in Seq(S)
      /\ Len(<<a, b, c>>) = 3 /\ Len(<<a, b, c, e>>) = 4
  OBVIOUS
<1>2. /\ Append(<<a, b, c>>, e) \in Seq(S)
      /\ Len(Append(<<a, b, c>>, e)) = 4
      /\ \A i \in 1..3 : Append(<<a, b, c>>, e)[i] = <<a, b, c>>[i]
      /\ Append(<<a, b, c>>, e)[4] = e
  BY <1>1, AppendProperties
<1>3. \A i \in 1..4 : Append(<<a, b, c>>, e)[i] = <<a, b, c, e>>[i]
  BY <1>2
<1>4. QED
  BY <1>1, <1>2, <1>3, SeqEqual

LEMMA DiagBodyFacts ==
  ASSUME NEW t
  PROVE  /\ Len(t) = 0 => FileDiagnosticsBody(t) = FetchOf(Parse("f"))
         /\ Len(t) = 1 => FileDiagnosticsBody(t) = FetchOf(ResolveDiags)
         /\ Len(t) = 2 => FileDiagnosticsBody(t) = FetchOf(CheckFile)
         /\ Len(t) = 3 => FileDiagnosticsBody(t) = FetchOf(LintFile)
         /\ Len(t) = 4 => FileDiagnosticsBody(t) =
                            Return(<<"diags", t[2][2] \cup Mistyped(t[3][2]) \cup t[4][2]>>)
<1>1. CASE Len(t) = 0
  BY <1>1 DEF FileDiagnosticsBody
<1>2. CASE Len(t) = 1
  BY <1>2 DEF FileDiagnosticsBody
<1>3. CASE Len(t) = 2
  BY <1>3 DEF FileDiagnosticsBody
<1>4. CASE Len(t) = 3
  BY <1>4 DEF FileDiagnosticsBody
<1>5. CASE Len(t) = 4
  BY <1>5 DEF FileDiagnosticsBody
<1>6. QED
  BY <1>1, <1>2, <1>3, <1>4, <1>5

(* The published list: all but the checker's part is that of the inputs     *)
(* now, and the checker's part is that of a check within the surface.       *)
LEMMA DiagnosticsWithin ==
  ASSUME IInv, ListedHaveSource, Verified(FileDiagnostics)
  PROVE  \E c : /\ IsCheckOf(c)
                /\ slots[FileDiagnostics].value =
                     <<"diags", Unresolved(CurrentPackage) \cup Mistyped(c[2]) \cup CurrentLint>>
<1> DEFINE q == FileDiagnostics
           s == slots[Parse("f")].value
           d == slots[ResolveDiags].value
           c == slots[CheckFile].value
           e == slots[LintFile].value
<1>1. /\ q \in Query /\ TracesOf(q) = DiagTrace
      /\ \A t : FrontBody(q, t) = FileDiagnosticsBody(t)
  BY CellFacts, Answers, Registered
<1>2. /\ "f" \in File
      /\ Parse("f") \in Cell /\ Parse("f") \in Query /\ Parse("f") # ResolvePackage
      /\ ResolveDiags \in Cell /\ ResolveDiags \in Query /\ ResolveDiags # ResolvePackage
      /\ CheckFile \in Cell /\ CheckFile \in Query /\ CheckFile # ResolvePackage
      /\ LintFile \in Cell /\ LintFile \in Query /\ LintFile # ResolvePackage
  BY CellFacts DEF Cell, File
<1>3. Unresolved(CurrentPackage) \in SUBSET {"unresolved"} /\ CurrentLint \in SUBSET {"unused"}
  BY DEF Unresolved, CurrentLint, Lint
<1>4. Reaches(q, <<q, <<>>>>) /\ <<>> \in TracesOf(q)
  BY <1>1, StartExact DEF DiagTrace, One
<1> HIDE DEF q, s, d, c, e
(* The parse result of the file. *)
<1>5. FrontBody(q, <<>>) = FetchOf(Parse("f"))
  <2>1. Len(<<>>) = 0
    OBVIOUS
  <2>2. QED
    BY <1>1, <2>1, DiagBodyFacts
<1>6. Verified(Parse("f")) /\ s \in Val
  BY <1>1, <1>2, <1>4, <1>5, ReadExact DEF q, s
<1>7. s \in SourceVal /\ s \in Seen
  BY <1>2, <1>6, ParseExact DEF s, Seen
<1>8. <<s>> \in TracesOf(q) /\ Append(<<>>, s) = <<s>>
  BY <1>1, <1>7 DEF DiagTrace, One
<1>9. Reaches(q, <<q, <<s>>>>)
  BY <1>1, <1>2, <1>4, <1>5, <1>8, ReadExact DEF q, s
(* The resolver's diagnostics. *)
<1>10. FrontBody(q, <<s>>) = FetchOf(ResolveDiags)
  <2>1. Len(<<s>>) = 1
    OBVIOUS
  <2>2. QED
    BY <1>1, <2>1, DiagBodyFacts
<1>11. Verified(ResolveDiags) /\ d \in Val
  BY <1>1, <1>2, <1>8, <1>9, <1>10, ReadExact DEF q, d
<1>12. d = <<"diags", Unresolved(CurrentPackage)>> /\ d \in Seen
  BY <1>11, ResolveExact DEF d, Seen
<1>13. d \in {<<"diags", m>> : m \in SUBSET {"unresolved"}}
  BY <1>3, <1>12
<1>14. <<s, d>> \in TracesOf(q)
  BY <1>1, <1>7, <1>13 DEF DiagTrace
<1>15. Reaches(q, <<q, <<s, d>>>>)
  <2>1. Append(<<s>>, d) = <<s, d>>
    BY <1>7, <1>12, Append1
  <2>2. QED
    BY <1>1, <1>2, <1>8, <1>9, <1>10, <1>14, <2>1, ReadExact DEF q, d
(* The check result. *)
<1>16. FrontBody(q, <<s, d>>) = FetchOf(CheckFile)
  <2>1. Len(<<s, d>>) = 2
    OBVIOUS
  <2>2. QED
    BY <1>1, <2>1, DiagBodyFacts
<1>17. Verified(CheckFile) /\ c \in Val
  BY <1>1, <1>2, <1>14, <1>15, <1>16, ReadExact DEF q, c
<1>18. IsCheckOf(c) /\ c \in CheckVal /\ c \in Seen
  BY <1>17, CheckFileWithin, CheckValFacts DEF c, Seen
<1>19. <<s, d, c>> \in TracesOf(q)
  BY <1>1, <1>7, <1>13, <1>18 DEF DiagTrace
<1>20. Reaches(q, <<q, <<s, d, c>>>>)
  <2>1. Append(<<s, d>>, c) = <<s, d, c>>
    BY <1>7, <1>12, <1>18, Append2
  <2>2. QED
    BY <1>1, <1>2, <1>14, <1>15, <1>16, <1>19, <2>1, ReadExact DEF q, c
(* The lint result. *)
<1>21. FrontBody(q, <<s, d, c>>) = FetchOf(LintFile)
  <2>1. Len(<<s, d, c>>) = 3
    OBVIOUS
  <2>2. QED
    BY <1>1, <2>1, DiagBodyFacts
<1>22. Verified(LintFile) /\ e \in Val
  BY <1>1, <1>2, <1>19, <1>20, <1>21, ReadExact DEF q, e
<1>23. e = <<"diags", CurrentLint>> /\ e \in Seen
  BY <1>22, LintExact DEF e, Seen
<1>24. e \in {<<"diags", m>> : m \in SUBSET {"unused"}}
  BY <1>3, <1>23
<1>25. <<s, d, c, e>> \in TracesOf(q)
  BY <1>1, <1>7, <1>13, <1>18, <1>24 DEF DiagTrace
<1>26. Reaches(q, <<q, <<s, d, c, e>>>>)
  <2>1. Append(<<s, d, c>>, e) = <<s, d, c, e>>
    BY <1>7, <1>12, <1>18, <1>23, Append3
  <2>2. QED
    BY <1>1, <1>2, <1>19, <1>20, <1>21, <1>25, <2>1, ReadExact DEF q, e
(* All of them together. *)
<1>27. FrontBody(q, <<s, d, c, e>>) =
         Return(<<"diags", Unresolved(CurrentPackage) \cup Mistyped(c[2]) \cup CurrentLint>>)
  <2>1. Len(<<s, d, c, e>>) = 4 /\ <<s, d, c, e>>[2] = d /\ <<s, d, c, e>>[3] = c
        /\ <<s, d, c, e>>[4] = e
    OBVIOUS
  <2>2. d[2] = Unresolved(CurrentPackage) /\ e[2] = CurrentLint
    BY <1>12, <1>23
  <2>3. FrontBody(q, <<s, d, c, e>>) = Return(<<"diags", d[2] \cup Mistyped(c[2]) \cup e[2]>>)
    BY <1>1, <2>1, DiagBodyFacts
  <2>4. QED
    BY <2>2, <2>3
<1>28. slots[q].value =
         <<"diags", Unresolved(CurrentPackage) \cup Mistyped(c[2]) \cup CurrentLint>>
  BY <1>1, <1>25, <1>26, <1>27, ReturnExact DEF q
<1>29. QED
  BY <1>18, <1>28 DEF q

-----------------------------------------------------------------------------
(* The invariant *)

LEMMA InputValFacts ==
  /\ \A i \in FrontInput : i \in Input /\ i \in Cell /\ InputVal(i) \subseteq Val
  /\ InputVal(PackageFiles) = ListVal /\ InputVal(PackageMetadata) = MetaVal
  /\ \A f \in File : SourceText(f) \in FrontInput /\ InputVal(SourceText(f)) = SourceVal
  /\ PackageFiles \in FrontInput /\ PackageMetadata \in FrontInput
  /\ \A f \in File : SourceText(f) # PackageFiles
  /\ "f" \in File
<1>1. \A i : InputVal(i) \in {ListVal, MetaVal, SourceVal}
  BY DEF InputVal
<1>2. ListVal \subseteq Val /\ MetaVal \subseteq Val /\ SourceVal \subseteq Val
  BY FrontAssumption DEF FrontVal
<1>3. \A f \in File : InputVal(SourceText(f)) = SourceVal /\ SourceText(f) # PackageFiles
  BY DEF InputVal, SourceText, PackageFiles, PackageMetadata
<1>4. InputVal(PackageFiles) = ListVal /\ InputVal(PackageMetadata) = MetaVal
  BY DEF InputVal, PackageFiles, PackageMetadata
<1>5. QED
  BY <1>1, <1>2, <1>3, <1>4, FrontAssumption DEF FrontInput, Cell, File

(* A state in which only inputs are set, each by a Set of its own. *)
LEMMA SeededIInv ==
  ASSUME rev = 4, stack = <<>>, ctl = <<>>, ret = None,
         slots \in [Cell -> Slot \cup {NoSlot}],
         \A q \in Query : slots[q] = NoSlot,
         \A i \in Input : slots[i] # NoSlot =>
            /\ slots[i].computedAt \in 1..4 /\ slots[i].verifiedAt = slots[i].computedAt
            /\ slots[i].deps = <<>>
  PROVE  IInv
<1>1. TypeOK
  BY DEF TypeOK
<1>2. InputSlots
  BY DEF InputSlots
<1>3. QuerySlots
  BY DEF QuerySlots
<1>4. CallChain /\ Walks /\ Runs /\ Returned
  BY DEF CallChain, Walks, Runs, Returned
<1>5. QED
  BY <1>1, <1>2, <1>3, <1>4 DEF IInv

LEMMA SeededFacts ==
  ASSUME NEW v \in Val, NEW r \in 1..4
  PROVE  /\ SeededSlot(v, r) \in Slot /\ SeededSlot(v, r) # NoSlot
         /\ SeededSlot(v, r).value = v /\ SeededSlot(v, r).deps = <<>>
         /\ SeededSlot(v, r).computedAt = r /\ SeededSlot(v, r).verifiedAt = r
<1>1. SeededSlot(v, r) \in Slot
  BY EmptySeq DEF SeededSlot, Slot
<1>2. QED
  BY <1>1, NoSlotAssumption DEF SeededSlot

(* seedPackageInputs and a scratch buffer start the engine in such a state. *)
LEMMA SeededInv == SeededInit => IInv /\ ListedHaveSource
<1> SUFFICES ASSUME SeededInit PROVE IInv /\ ListedHaveSource
  OBVIOUS
<1> DEFINE fv == <<"source", [declares |-> FALSE, typed |-> TRUE]>>
           gv == <<"source", [declares |-> TRUE, typed |-> TRUE]>>
           mv == <<"metadata", "directory">>
           lv == <<"list", <<"f", "g">>>>
           ov == <<"list", <<"f">>>>
<1>1. fv \in SourceVal /\ gv \in SourceVal /\ mv \in MetaVal /\ lv \in ListVal /\ ov \in ListVal
  BY DEF SourceVal, Source, MetaVal, PackageName, ListVal, Listed
<1>2. fv \in Val /\ gv \in Val /\ mv \in Val /\ lv \in Val /\ ov \in Val
  BY <1>1, FrontAssumption DEF FrontVal
<1>3. /\ lv[2] \in Listed /\ ov[2] \in Listed /\ Len(ov[2]) = 1
      /\ \A f \in {lv[2][k] : k \in DOMAIN lv[2]} : f \in File
      /\ \A f \in {ov[2][k] : k \in DOMAIN ov[2]} : f = "f"
  <2>1. lv[2] \in Listed /\ ov[2] \in Listed /\ Len(ov[2]) = 1
    BY <1>1 DEF Listed
  <2>2. \A k \in DOMAIN ov[2] : ov[2][k] = "f"
    BY <2>1, ListFacts
  <2>3. QED
    BY <2>1, <2>2, ListFacts
<1> HIDE DEF fv, gv, mv, lv, ov
<1> DEFINE F == SourceText("f")
           G == SourceText("g")
<1>4. /\ F # G /\ F # PackageFiles /\ F # PackageMetadata
      /\ G # PackageFiles /\ G # PackageMetadata /\ PackageFiles # PackageMetadata
      /\ F \in Cell /\ G \in Cell /\ PackageFiles \in Cell /\ PackageMetadata \in Cell
      /\ \A i \in FrontInput : i = F \/ i = G \/ i = PackageFiles \/ i = PackageMetadata
      /\ \A q \in Query : q # F /\ q # G /\ q # PackageFiles /\ q # PackageMetadata
  <2>1. /\ F # G /\ F # PackageFiles /\ F # PackageMetadata
        /\ G # PackageFiles /\ G # PackageMetadata /\ PackageFiles # PackageMetadata
    BY DEF SourceText, PackageFiles, PackageMetadata
  <2>2. \A i \in FrontInput : i = F \/ i = G \/ i = PackageFiles \/ i = PackageMetadata
    BY DEF FrontInput, File
  <2>3. F \in Input /\ G \in Input /\ PackageFiles \in Input /\ PackageMetadata \in Input
    BY CellFacts DEF File
  <2>4. QED
    BY <2>1, <2>2, <2>3, EngineAssumption DEF Cell
<1>5. /\ SeededSlot(fv, 1) \in Slot /\ SeededSlot(gv, 2) \in Slot /\ SeededSlot(mv, 3) \in Slot
      /\ SeededSlot(lv, 4) \in Slot /\ SeededSlot(fv, 3) \in Slot /\ SeededSlot(ov, 4) \in Slot
  BY <1>2, SeededFacts
<1>6. /\ InputVal(F) = SourceVal /\ InputVal(G) = SourceVal
      /\ InputVal(PackageFiles) = ListVal /\ InputVal(PackageMetadata) = MetaVal
  BY InputValFacts DEF File
<1>7. CASE slots = [c \in Cell |-> SeedPackage(c)]
  <2>1. /\ SeedPackage(F) = SeededSlot(fv, 1) /\ SeedPackage(G) = SeededSlot(gv, 2)
        /\ SeedPackage(PackageMetadata) = SeededSlot(mv, 3)
        /\ SeedPackage(PackageFiles) = SeededSlot(lv, 4)
        /\ \A c : (c # F /\ c # G /\ c # PackageMetadata /\ c # PackageFiles) =>
             SeedPackage(c) = NoSlot
    BY <1>4 DEF SeedPackage, fv, gv, mv, lv
  <2>2. /\ slots[F] = SeededSlot(fv, 1) /\ slots[G] = SeededSlot(gv, 2)
        /\ slots[PackageMetadata] = SeededSlot(mv, 3) /\ slots[PackageFiles] = SeededSlot(lv, 4)
        /\ \A q \in Query : slots[q] = NoSlot
    BY <1>4, <1>7, <2>1 DEF Cell
  <2>3. slots \in [Cell -> Slot \cup {NoSlot}]
    <3>1. \A c \in Cell : SeedPackage(c) \in Slot \cup {NoSlot}
      BY <1>5, <2>1
    <3>2. QED
      BY <1>7, <3>1
  <2>4. \A i \in Input : slots[i] # NoSlot =>
          /\ slots[i].computedAt \in 1..4 /\ slots[i].verifiedAt = slots[i].computedAt
          /\ slots[i].deps = <<>>
    <3>1. \A v \in Val, r \in 1..4 :
            /\ SeededSlot(v, r).computedAt \in 1..4
            /\ SeededSlot(v, r).verifiedAt = SeededSlot(v, r).computedAt
            /\ SeededSlot(v, r).deps = <<>>
      BY SeededFacts
    <3>2. \A i \in Input : i = F \/ i = G \/ i = PackageFiles \/ i = PackageMetadata
      BY <1>4, FrontAssumption
    <3>3. \A i \in Input : \E v \in Val, r \in 1..4 : slots[i] = SeededSlot(v, r)
      <4>1. 1 \in 1..4 /\ 2 \in 1..4 /\ 3 \in 1..4 /\ 4 \in 1..4
        OBVIOUS
      <4>2. QED
        BY <1>2, <2>2, <3>2, <4>1, Zenon
    <3>4. QED
      BY <3>1, <3>3
  <2>5. IInv
    BY <2>2, <2>3, <2>4, SeededIInv DEF SeededInit
  <2>6. /\ slots[F].value = fv /\ slots[G].value = gv /\ slots[PackageMetadata].value = mv
        /\ slots[PackageFiles].value = lv
        /\ slots[F] # NoSlot /\ slots[G] # NoSlot /\ slots[PackageFiles] # NoSlot
    BY <1>2, <2>2, SeededFacts
  <2>7. \A i \in FrontInput : slots[i].value \in InputVal(i)
    BY <1>1, <1>4, <1>6, <2>6
  <2>8. \A f \in {"f"} \cup {lv[2][k] : k \in DOMAIN lv[2]} : slots[SourceText(f)] # NoSlot
    BY <1>3, <2>6 DEF File
  <2>9. QED
    BY <2>5, <2>6, <2>7, <2>8 DEF ListedHaveSource
<1>8. CASE slots = [c \in Cell |-> SeedScratch(c)]
  <2>1. /\ SeedScratch(F) = SeededSlot(fv, 3)
        /\ SeedScratch(PackageFiles) = SeededSlot(ov, 4)
        /\ \A c : (c # F /\ c # PackageFiles) => SeedScratch(c) = NoSlot
    BY <1>4 DEF SeedScratch, fv, ov
  <2>2. /\ slots[F] = SeededSlot(fv, 3) /\ slots[PackageFiles] = SeededSlot(ov, 4)
        /\ slots[G] = NoSlot /\ slots[PackageMetadata] = NoSlot
        /\ \A q \in Query : slots[q] = NoSlot
    BY <1>4, <1>8, <2>1 DEF Cell
  <2>3. slots \in [Cell -> Slot \cup {NoSlot}]
    <3>1. \A c \in Cell : SeedScratch(c) \in Slot \cup {NoSlot}
      BY <1>5, <2>1
    <3>2. QED
      BY <1>8, <3>1
  <2>4. \A i \in Input : slots[i] # NoSlot =>
          /\ slots[i].computedAt \in 1..4 /\ slots[i].verifiedAt = slots[i].computedAt
          /\ slots[i].deps = <<>>
    <3>1. \A v \in Val, r \in 1..4 :
            /\ SeededSlot(v, r).computedAt \in 1..4
            /\ SeededSlot(v, r).verifiedAt = SeededSlot(v, r).computedAt
            /\ SeededSlot(v, r).deps = <<>>
      BY SeededFacts
    <3>2. \A i \in Input : i = F \/ i = G \/ i = PackageFiles \/ i = PackageMetadata
      BY <1>4, FrontAssumption
    <3>3. \A i \in Input : slots[i] # NoSlot =>
            \E v \in Val, r \in 1..4 : slots[i] = SeededSlot(v, r)
      BY <1>2, <2>2, <3>2
    <3>4. QED
      BY <3>1, <3>3
  <2>5. IInv
    BY <2>2, <2>3, <2>4, SeededIInv DEF SeededInit
  <2>6. /\ slots[F].value = fv /\ slots[PackageFiles].value = ov
        /\ slots[F] # NoSlot /\ slots[PackageFiles] # NoSlot
    BY <1>2, <2>2, SeededFacts
  <2>7. \A i \in FrontInput : slots[i] # NoSlot => slots[i].value \in InputVal(i)
    BY <1>1, <1>4, <1>6, <2>2, <2>6
  <2>8. \A f \in {"f"} \cup {ov[2][k] : k \in DOMAIN ov[2]} : slots[SourceText(f)] # NoSlot
    BY <1>3, <2>6
  <2>9. QED
    BY <2>5, <2>6, <2>7, <2>8 DEF ListedHaveSource
<1>9. QED
  BY <1>7, <1>8 DEF SeededInit

(* What the clients and the engine do is what the engine's clients may do.  *)
LEMMA FrontNext == Pull \/ Push \/ Step => Next
<1>1. Pull => Next
  BY FrontAssumption DEF Pull, Next, Client
<1>2. Push => Next
  BY InputValFacts DEF Push, Next, Client
<1>3. QED
  BY <1>1, <1>2 DEF Next

(* No step of the engine writes an input. *)
LEMMA StepKeepsInputs ==
  ASSUME IInv, Step, NEW i \in Input
  PROVE  slots'[i] = slots[i]
<1>1. CASE UNCHANGED slots
  BY <1>1
<1>2. CASE WalkDone \/ FinishBody
  <2>1. ctl # <<>>
    BY <1>2 DEF WalkDone, FinishBody, Walking, Running
  <2>2. Top.cell \in Query /\ Top.cell # i
    BY <2>1, TopFacts, EngineAssumption DEF IInv, Top
  <2>3. slots \in [Cell -> Slot \cup {NoSlot}] /\ i \in Cell
    BY DEF IInv, TypeOK, Cell
  <2>4. QED
    BY <1>2, <2>2, <2>3 DEF WalkDone, FinishBody
<1>3. QED
  BY <1>1, <1>2 DEF Step, GetReturn, Miss, Hit, StartWalk, WalkDescend, WalkNext, WalkStale,
                    FetchInput, FetchMissing, HasFetch, FetchQuery, FetchReturn, Answered, Panic

(* ListedHaveSource is about the inputs only. *)
LEMMA ListedKept ==
  ASSUME ListedHaveSource, \A i \in Input : slots'[i] = slots[i]
  PROVE  ListedHaveSource'
<1>1. \A i \in FrontInput : slots'[i] = slots[i]
  BY FrontAssumption
<1> DEFINE list == slots[PackageFiles].value[2]
<1>2. slots'[PackageFiles] = slots[PackageFiles]
  BY <1>1, InputValFacts
<1>3. \A f \in {"f"} \cup {list[k] : k \in DOMAIN list} : f \in File
  BY CurrentFacts, ListFacts, InputValFacts
<1>4. \A f \in {"f"} \cup {list[k] : k \in DOMAIN list} : slots'[SourceText(f)] # NoSlot
  BY <1>1, <1>3, InputValFacts DEF ListedHaveSource
<1>5. QED
  BY <1>1, <1>2, <1>4 DEF ListedHaveSource

(* A write by a client: a file is not listed before it has a source. *)
LEMMA ListedPushed ==
  ASSUME IInv, ListedHaveSource, Push
  PROVE  ListedHaveSource'
<1>1. PICK i \in FrontInput : \E v \in InputVal(i) :
        /\ i = PackageFiles => \A k \in DOMAIN v[2] : slots[SourceText(v[2][k])] # NoSlot
        /\ Set(i, v)
  BY DEF Push
<1>2. PICK v \in InputVal(i) :
        /\ i = PackageFiles => \A k \in DOMAIN v[2] : slots[SourceText(v[2][k])] # NoSlot
        /\ Set(i, v)
  BY <1>1
<1> DEFINE s == [value |-> v, computedAt |-> rev + 1, verifiedAt |-> rev + 1, deps |-> <<>>]
<1>3. s \in Slot /\ s # NoSlot /\ s.value = v
  <2>1. v \in Val /\ rev + 1 \in Nat
    BY InputValFacts DEF IInv, TypeOK
  <2>2. s \in Slot
    BY <2>1 DEF Slot
  <2>3. QED
    BY <2>2, NoSlotAssumption
<1>4. /\ i \in Cell /\ slots'[i] = s
      /\ \A c \in Cell : c # i => slots'[c] = slots[c]
  BY <1>2, InputValFacts DEF Set, IInv, TypeOK
<1> HIDE DEF s
<1>5. \A c \in FrontInput : c # i => slots'[c] = slots[c]
  BY <1>4, InputValFacts
<1>6. \A c \in FrontInput : slots'[c] # NoSlot => slots'[c].value \in InputVal(c)
  BY <1>2, <1>3, <1>4, <1>5 DEF ListedHaveSource
<1>7. slots'[PackageFiles] # NoSlot
  BY <1>3, <1>4, <1>5, InputValFacts DEF ListedHaveSource
<1>8. \A f \in File : slots[SourceText(f)] # NoSlot => slots'[SourceText(f)] # NoSlot
  BY <1>3, <1>4, <1>5, InputValFacts
<1> DEFINE list == slots'[PackageFiles].value[2]
<1>9. \A f \in {"f"} \cup {list[k] : k \in DOMAIN list} : f \in File /\ slots[SourceText(f)] # NoSlot
  <2>1. slots[SourceText("f")] # NoSlot /\ "f" \in File
    BY InputValFacts DEF ListedHaveSource
  <2>2. CASE i = PackageFiles
    <3>1. list = v[2] /\ v[2] \in Listed
      BY <1>3, <1>4, <2>2, InputValFacts DEF ListVal
    <3>2. QED
      BY <1>2, <2>1, <2>2, <3>1, ListFacts
  <2>3. CASE i # PackageFiles
    <3>1. list = slots[PackageFiles].value[2]
      BY <1>5, <2>3, InputValFacts
    <3>2. QED
      BY <2>1, <3>1, CurrentFacts, ListFacts
  <2>4. QED
    BY <2>2, <2>3
<1>10. \A f \in {"f"} \cup {list[k] : k \in DOMAIN list} : slots'[SourceText(f)] # NoSlot
  BY <1>8, <1>9
<1>11. QED
  BY <1>6, <1>7, <1>10 DEF ListedHaveSource

LEMMA FrontPreserves ==
  IInv /\ ListedHaveSource /\ [Pull \/ Push \/ Step]_vars => (IInv /\ ListedHaveSource)'
<1> SUFFICES ASSUME IInv, ListedHaveSource, [Pull \/ Push \/ Step]_vars
             PROVE  IInv' /\ ListedHaveSource'
  OBVIOUS
<1>1. IInv'
  BY FrontNext, NextPreserves
<1>2. CASE Pull
  <2>1. UNCHANGED slots
    BY <1>2 DEF Pull, Get, Panic
  <2>2. QED
    BY <1>1, <2>1, ListedKept
<1>3. CASE Push
  BY <1>1, <1>3, ListedPushed
<1>4. CASE Step
  BY <1>1, <1>4, StepKeepsInputs, ListedKept
<1>5. CASE UNCHANGED vars
  <2>1. UNCHANGED slots
    BY <1>5 DEF vars
  <2>2. QED
    BY <1>1, <2>1, ListedKept
<1>6. QED
  BY <1>2, <1>3, <1>4, <1>5

-----------------------------------------------------------------------------
(***************************************************************************)
(* The engine's invariant holds of the front end too, and so does what the  *)
(* query bodies count on (ListedHaveSource): whatever is pulled and         *)
(* written, in whatever order, the package has a list of files, and every   *)
(* file that is listed has a source (seedPackageInputs, buildPackage).      *)
(***************************************************************************)
THEOREM FrontInvariant == FrontSpec => [](IInv /\ ListedHaveSource)
<1>1. SeededInit => IInv /\ ListedHaveSource
  BY SeededInv
<1>2. (IInv /\ ListedHaveSource) /\ [Pull \/ Push \/ Step]_vars => (IInv /\ ListedHaveSource)'
  BY FrontPreserves
<1>3. QED
  BY <1>1, <1>2, PTL DEF FrontSpec

(***************************************************************************)
(* ExactBeforeCutoff in every reachable state: parse results, the package   *)
(* that BuildPackage puts together, the identifier index, the resolver's    *)
(* diagnostics, and all of the published list but the checker's part are    *)
(* those of the inputs now, whichever queries the clients pull.             *)
(***************************************************************************)
THEOREM FrontExactBeforeCutoff == FrontSpec => []ExactBeforeCutoff
<1>1. IInv /\ ListedHaveSource => ExactBeforeCutoff
  <2> SUFFICES ASSUME IInv, ListedHaveSource PROVE ExactBeforeCutoff
    OBVIOUS
  <2>1. \A f \in File : Verified(Parse(f)) => slots[Parse(f)].value = slots[SourceText(f)].value
    BY ParseExact
  <2>2. Verified(BuildPackage) => slots[BuildPackage].value = <<"package", CurrentPackage>>
    BY BuildExact
  <2>3. \A q \in {IdentIndex, ResolveDiags} :
          Verified(q) => slots[q].value[2] = Unresolved(CurrentPackage)
    BY ResolveExact
  <2>4. ASSUME Verified(FileDiagnostics)
        PROVE  slots[FileDiagnostics].value[2] \ {"mistyped"} =
                 Unresolved(CurrentPackage) \cup CurrentLint
    <3>1. PICK c : slots[FileDiagnostics].value =
                     <<"diags", Unresolved(CurrentPackage) \cup Mistyped(c[2]) \cup CurrentLint>>
      BY <2>4, DiagnosticsWithin
    <3>2. slots[FileDiagnostics].value[2] =
            Unresolved(CurrentPackage) \cup Mistyped(c[2]) \cup CurrentLint
      BY <3>1
    <3>3. /\ Unresolved(CurrentPackage) \subseteq {"unresolved"}
          /\ Mistyped(c[2]) \subseteq {"mistyped"} /\ CurrentLint \subseteq {"unused"}
      BY DEF Unresolved, Mistyped, CurrentLint, Lint
    <3>4. QED
      BY <3>2, <3>3
  <2>5. QED
    BY <2>1, <2>2, <2>3, <2>4 DEF ExactBeforeCutoff
<1>2. QED
  BY <1>1, FrontInvariant, PTL

(***************************************************************************)
(* CheckWithinSurface in every reachable state: behind the cut-off at       *)
(* ResolvePackage, a check result is that of some package with the resolved *)
(* surface (hashResolvedPackage) of the current one.                        *)
(***************************************************************************)
THEOREM FrontCheckWithinSurface == FrontSpec => []CheckWithinSurface
<1>1. IInv /\ ListedHaveSource => CheckWithinSurface
  BY CheckPackageWithin, CheckFileWithin DEF CheckWithinSurface, IsCheckOf
<1>2. QED
  BY <1>1, FrontInvariant, PTL

=============================================================================
