------------------------------ MODULE LspProofs ------------------------------
(***************************************************************************)
(* Proofs about the language server, for any set of documents,             *)
(* directories, texts and names, any contents of the disk and any order    *)
(* of messages.                                                            *)
(***************************************************************************)
EXTENDS LspServer, TLAPS

-----------------------------------------------------------------------------
(* What an analysis computes *)

(* Where an analysis may put a document. *)
LEMMA EngineDirType == \A d \in Doc : EngineDir(d) \in Dir
BY LspAssumption DEF EngineDir, Doc

(* Every text analyze seeds is a text: what is read from the disk is there  *)
(* and can be read.                                                         *)
LEMMA SeedType ==
  ASSUME TypeOK, NEW d \in Doc, NEW t \in Text, NEW f \in Doc,
         f = d \/ (f \in SourcesIn(DirOf[d]) \ Blocked(d))
  PROVE  Seed(d, t, f) \in Text
<1>1. CASE f = d
  BY <1>1 DEF Seed
<1>2. CASE f # d /\ Open(f)
  BY <1>2 DEF Seed, TypeOK, Document, Open
<1>3. CASE f # d /\ ~Open(f) /\ sourceText[f] # Unset
  BY <1>3 DEF Seed, TypeOK
<1>4. CASE f # d /\ ~Open(f) /\ sourceText[f] = Unset
  <2>1. f \in File /\ disk[f] # NoFile /\ disk[f] # Unreadable
    BY <1>4 DEF SourcesIn, Blocked, OnDisk
  <2> QED
    BY <1>4, <2>1 DEF Seed, TypeOK
<1> QED
  BY <1>1, <1>2, <1>3, <1>4

(* Which documents analyze seeds: itself, and sources it can read. *)
LEMMA SeededOnly ==
  ASSUME NEW d \in Doc, NEW t \in Text, NEW f \in Doc
  PROVE  \/ NewSourceText(d, t)[f] = sourceText[f]
         \/ /\ NewSourceText(d, t)[f] = Seed(d, t, f)
            /\ f = d \/ (d \in File /\ f \in SourcesIn(DirOf[d]) \ Blocked(d))
<1>1. CASE ~PackageMode(d)
  BY <1>1 DEF NewSourceText
<1>2. CASE PackageMode(d) /\ ViaPackage(d)
  BY <1>2 DEF NewSourceText, ViaPackage, PackageMode
<1>3. CASE PackageMode(d) /\ ~ViaPackage(d)
  BY <1>3 DEF NewSourceText, Reached, PackageMode
<1> QED
  BY <1>1, <1>2, <1>3

(* The edited buffer itself always reaches the engine, unless it is a file  *)
(* that its package does not list.                                          *)
LEMMA OwnText ==
  ASSUME NEW d \in Doc \ TestFile, NEW t \in Text
  PROVE  NewSourceText(d, t)[d] = t
<1>1. CASE ~ViaPackage(d)
  BY <1>1 DEF NewSourceText, Seed, ViaPackage
<1>2. CASE ViaPackage(d)
  <2>1. d \in SourcesIn(DirOf[d])
    BY <1>2 DEF ViaPackage, PackageMode, SourcesIn
  <2> QED
    BY <1>2, <2>1 DEF NewSourceText, Seed, ViaPackage
<1> QED
  BY <1>1, <1>2

LEMMA NewSourceTextType ==
  ASSUME TypeOK, NEW d \in Doc, NEW t \in Text
  PROVE  NewSourceText(d, t) \in [Doc -> Text \cup {Unset}]
<1>1. ASSUME NEW f \in Doc PROVE NewSourceText(d, t)[f] \in Text \cup {Unset}
  BY <1>1, SeededOnly, SeedType DEF TypeOK
<1> QED
  BY <1>1 DEF NewSourceText

(* The package an analysis describes: files of its own directory. *)
LEMMA NewPackageFilesFacts ==
  ASSUME TypeOK, NEW d \in Doc
  PROVE  /\ NewPackageFiles(d) \in [Dir -> (SUBSET Doc) \cup {Unset}]
         /\ NewPackageFiles(d)[EngineDir(d)] \in SUBSET Doc
         /\ NewPackageFiles(d)[EngineDir(d)] # Unset
         /\ \A f \in NewPackageFiles(d)[EngineDir(d)] : EngineDir(f) = EngineDir(d)
         /\ \A f \in NewPackageFiles(d)[EngineDir(d)] : f = d \/ (d \in File /\ f \in File \ TestFile)
         /\ \A dir \in Dir \ {EngineDir(d)} : NewPackageFiles(d)[dir] = packageFiles[dir]
<1>1. EngineDir(d) \in Dir
  BY EngineDirType
<1>2. ViaPackage(d) => d \in File
  BY DEF ViaPackage, PackageMode
<1>3. SourcesIn(DirOf[d]) \in SUBSET Doc
  BY DEF SourcesIn, Doc
<1>4. NewPackageFiles(d)[EngineDir(d)] = IF ViaPackage(d) THEN SourcesIn(DirOf[d]) ELSE {d}
  BY <1>1 DEF NewPackageFiles, TypeOK
<1>5. NewPackageFiles(d)[EngineDir(d)] \in SUBSET Doc
  BY <1>3, <1>4
<1>6. NewPackageFiles(d) \in [Dir -> (SUBSET Doc) \cup {Unset}]
  BY <1>1, <1>3 DEF NewPackageFiles, TypeOK
<1>7. \A f \in NewPackageFiles(d)[EngineDir(d)] : EngineDir(f) = EngineDir(d)
  BY <1>2, <1>4 DEF SourcesIn, EngineDir
<1>8. \A f \in NewPackageFiles(d)[EngineDir(d)] : f = d \/ (d \in File /\ f \in File \ TestFile)
  BY <1>2, <1>4 DEF SourcesIn
<1>9. \A dir \in Dir \ {EngineDir(d)} : NewPackageFiles(d)[dir] = packageFiles[dir]
  BY DEF NewPackageFiles, TypeOK
<1> QED
  BY <1>5, <1>6, <1>7, <1>8, <1>9, LspAssumption

(* Diagnostics are names. *)
LEMMA DiagnosticsType ==
  ASSUME NEW texts, NEW files, NEW f, f \in files => texts[f] \in Text
  PROVE  FileDiagnostics(texts, files, f) \in SUBSET Name
BY LspAssumption DEF FileDiagnostics

-----------------------------------------------------------------------------
(* refreshDoc *)

(* The object refreshDoc stores and the ones its sibling refresh updates. *)
Fresh(d, t) ==
  LET diags == FileDiagnostics(NewSourceText(d, t), NewPackageFiles(d)[EngineDir(d)], d)
  IN  [src |-> t, diags |-> diags, last |-> diags]
Updated(d, t, e) ==
  LET diags == FileDiagnostics(NewSourceText(d, t), NewPackageFiles(d)[EngineDir(d)], e)
  IN  [src |-> docs[e].src, diags |-> diags, last |-> diags]

(* The documents whose lists one refresh publishes. *)
LEMMA SiblingFacts ==
  ASSUME TypeOK, NEW d \in Doc, NEW e \in Doc
  PROVE  e \in Siblings(d, NewPackageFiles(d)) <=>
           d \in File /\ e \in File \ {d} /\ Open(e) /\ EngineDir(e) = EngineDir(d)
BY NewPackageFilesFacts DEF Siblings, EngineDir

(* The document store after refreshDoc, document by document. *)
LEMMA RefreshedDocs ==
  ASSUME TypeOK, NEW d \in Doc, NEW t \in Text, RefreshDoc(d, t), NEW e \in Doc
  PROVE  /\ e = d => docs'[e] = Fresh(d, t)
         /\ e \in Siblings(d, NewPackageFiles(d)) => docs'[e] = Updated(d, t, e)
         /\ e # d /\ e \notin Siblings(d, NewPackageFiles(d)) => docs'[e] = docs[e]
<1> DEFINE files == NewPackageFiles(d)
           texts == NewSourceText(d, t)
<1>1. CASE e = d
  BY <1>1, SiblingFacts DEF RefreshDoc, Fresh, Published
<1>2. CASE e \in Siblings(d, files)
  <2>1. e # d /\ DirOf[e] = EngineDir(d) /\ Open(e)
    BY <1>2, SiblingFacts DEF EngineDir
  <2>2. docs[e] \in Document
    BY <2>1 DEF TypeOK, Open
  <2>3. docs'[e] = Published([docs[e] EXCEPT !.diags = FileDiagnostics(texts, files[DirOf[e]], e)])
    BY <1>2, <2>1 DEF RefreshDoc
  <2> QED
    BY <1>2, <2>1, <2>2, <2>3 DEF Published, Updated, Document
<1>3. CASE e # d /\ e \notin Siblings(d, files)
  BY <1>3 DEF RefreshDoc
<1> QED
  BY <1>1, <1>2, <1>3, SiblingFacts

(* The editor's markers after refreshDoc. *)
LEMMA RefreshedMarkers ==
  ASSUME TypeOK, NEW d \in Doc, NEW t \in Text, RefreshDoc(d, t), NEW e \in Doc
  PROVE  /\ e = d => shown'[e] = IF Fresh(d, t).diags = {} THEN shown[e] ELSE Fresh(d, t).diags
         /\ e \in Siblings(d, NewPackageFiles(d)) =>
              shown'[e] = IF Updated(d, t, e).diags = docs[e].last THEN shown[e]
                          ELSE Updated(d, t, e).diags
         /\ e # d /\ e \notin Siblings(d, NewPackageFiles(d)) => shown'[e] = shown[e]
<1> DEFINE files == NewPackageFiles(d)
           texts == NewSourceText(d, t)
<1>1. CASE e = d
  BY <1>1, SiblingFacts DEF RefreshDoc, Fresh, Markers, Sent
<1>2. CASE e \in Siblings(d, files)
  <2>1. e # d /\ DirOf[e] = EngineDir(d) /\ Open(e)
    BY <1>2, SiblingFacts DEF EngineDir
  <2>2. docs[e] \in Document
    BY <2>1 DEF TypeOK, Open
  <2>3. shown'[e] = Markers([docs[e] EXCEPT !.diags = FileDiagnostics(texts, files[DirOf[e]], e)],
                            shown[e])
    BY <1>2, <2>1 DEF RefreshDoc
  <2> QED
    BY <1>2, <2>1, <2>2, <2>3 DEF Markers, Sent, Updated, Document
<1>3. CASE e # d /\ e \notin Siblings(d, files)
  BY <1>3 DEF RefreshDoc
<1> QED
  BY <1>1, <1>2, <1>3, SiblingFacts

(* What is in the package list has a text, or the query would have panicked. *)
LEMMA ListedTexts ==
  ASSUME TypeOK, NEW d \in Doc, NEW t \in Text, ~AnalysisPanics(d, t)
  PROVE  \A f \in NewPackageFiles(d)[EngineDir(d)] : NewSourceText(d, t)[f] \in Text
BY NewSourceTextType, NewPackageFilesFacts DEF AnalysisPanics

(* The objects refreshDoc stores are documents. *)
LEMMA DocumentsTyped ==
  ASSUME TypeOK, NEW d \in Doc, NEW t \in Text, ~AnalysisPanics(d, t)
  PROVE  /\ Fresh(d, t) \in Document
         /\ \A e \in Doc : Open(e) => Updated(d, t, e) \in Document
<1>1. \A e : FileDiagnostics(NewSourceText(d, t), NewPackageFiles(d)[EngineDir(d)], e)
               \in SUBSET Name
  BY ListedTexts, DiagnosticsType
<1>2. Fresh(d, t) \in Document
  BY <1>1 DEF Fresh, Document
<1>3. ASSUME NEW e \in Doc, Open(e) PROVE Updated(d, t, e) \in Document
  BY <1>1, <1>3 DEF Updated, Document, TypeOK, Open
<1> QED
  BY <1>2, <1>3

(* Everything refreshDoc stores has its type. *)
LEMMA RefreshType ==
  ASSUME TypeOK, NEW d \in Doc, NEW t \in Text, RefreshDoc(d, t), ~AnalysisPanics(d, t)
  PROVE  /\ docs' \in [Doc -> Document \cup {NoDoc}]
         /\ sourceText' \in [Doc -> Text \cup {Unset}]
         /\ packageFiles' \in [Dir -> (SUBSET Doc) \cup {Unset}]
         /\ shown' \in [Doc -> SUBSET Name]
<1>1. ASSUME NEW e \in Doc PROVE docs'[e] \in Document \cup {NoDoc} /\ shown'[e] \in SUBSET Name
  BY DocumentsTyped, SiblingFacts, RefreshedDocs, RefreshedMarkers DEF TypeOK, Document
<1>2. docs' \in [Doc -> Document \cup {NoDoc}] /\ shown' \in [Doc -> SUBSET Name]
  BY <1>1 DEF RefreshDoc
<1> QED
  BY <1>2, NewSourceTextType, NewPackageFilesFacts DEF RefreshDoc

(* The buffer refreshDoc stores, and every open buffer's text, is kept.  *)
LEMMA RefreshedSource ==
  ASSUME TypeOK, NEW d \in Doc, NEW t \in Text, RefreshDoc(d, t), ~AnalysisPanics(d, t),
         NEW e \in Doc
  PROVE  /\ Open(e)' <=> (e = d \/ Open(e))
         /\ Open(e)' => docs'[e].src = IF e = d THEN t ELSE docs[e].src
<1>1. Fresh(d, t).src = t
  BY DEF Fresh
<1>2. Updated(d, t, e).src = docs[e].src
  BY DEF Updated
<1>3. Fresh(d, t) \in Document /\ (Open(e) => Updated(d, t, e) \in Document)
  BY DocumentsTyped
<1> QED
  BY <1>1, <1>2, <1>3, RefreshedDocs, SiblingFacts, LspAssumption DEF Open

(* refreshDoc keeps the last published list in step with the document. *)
LEMMA RefreshLast ==
  ASSUME TypeOK, LastIsPublished, NEW d \in Doc, NEW t \in Text, RefreshDoc(d, t),
         ~AnalysisPanics(d, t)
  PROVE  LastIsPublished'
<1> SUFFICES ASSUME NEW e \in Doc, Open(e)' PROVE docs'[e].last = docs'[e].diags
  BY DEF LastIsPublished
<1>1. Fresh(d, t).last = Fresh(d, t).diags /\ Updated(d, t, e).last = Updated(d, t, e).diags
  BY DEF Fresh, Updated
<1> QED
  BY <1>1, RefreshedDocs, RefreshedSource DEF LastIsPublished

(* A list equal to the one shown may be left unsent, any other is sent. *)
LEMMA RefreshShown ==
  ASSUME TypeOK, LastIsPublished, HeldErrorsShown, NEW d \in Doc, NEW t \in Text,
         RefreshDoc(d, t), ~AnalysisPanics(d, t)
  PROVE  HeldErrorsShown'
<1> SUFFICES ASSUME NEW e \in Doc
             PROVE  /\ (Open(e)' /\ docs'[e].diags # {}) => shown'[e] = docs'[e].diags
                    /\ ~Open(e)' => shown'[e] = {}
  BY DEF HeldErrorsShown
<1>1. CASE e = d
  BY <1>1, RefreshedDocs, RefreshedMarkers, RefreshedSource
<1>2. CASE e \in Siblings(d, NewPackageFiles(d))
  BY <1>2, RefreshedDocs, RefreshedMarkers, RefreshedSource, SiblingFacts
     DEF HeldErrorsShown, LastIsPublished
<1>3. CASE e # d /\ e \notin Siblings(d, NewPackageFiles(d))
  BY <1>3, RefreshedDocs, RefreshedMarkers, RefreshedSource DEF HeldErrorsShown
<1> QED
  BY <1>1, <1>2, <1>3

(* The engine's text of an open source is its buffer after refreshDoc. *)
LEMMA RefreshSeen ==
  ASSUME TypeOK, EngineSeesBuffers, NEW d \in Doc, NEW t \in Text, RefreshDoc(d, t),
         ~AnalysisPanics(d, t)
  PROVE  EngineSeesBuffers'
<1> SUFFICES ASSUME NEW e \in Doc \ TestFile, Open(e)' PROVE sourceText'[e] = docs'[e].src
  BY DEF EngineSeesBuffers
<1>1. sourceText'[e] = NewSourceText(d, t)[e]
  BY DEF RefreshDoc
<1>2. CASE e = d
  BY <1>1, <1>2, OwnText, RefreshedSource
<1>3. CASE e # d
  <2>1. Open(e) /\ docs'[e].src = docs[e].src
    BY <1>3, RefreshedSource
  <2>2. sourceText[e] = docs[e].src /\ Seed(d, t, e) = docs[e].src
    BY <1>3, <2>1 DEF EngineSeesBuffers, Seed
  <2> QED
    BY <1>1, <2>1, <2>2, SeededOnly
<1> QED
  BY <1>2, <1>3

(* The package list of refreshDoc names files of its directory, and their   *)
(* buffers are in the engine.                                               *)
LEMMA RefreshListed ==
  ASSUME TypeOK, ListedInPlace, ListedSeen, EngineSeesBuffers, NEW d \in Doc, NEW t \in Text,
         RefreshDoc(d, t), ~AnalysisPanics(d, t)
  PROVE  ListedInPlace' /\ ListedSeen'
<1>1. packageFiles' = NewPackageFiles(d) /\ sourceText' = NewSourceText(d, t)
  BY DEF RefreshDoc
<1>2. ListedInPlace'
  BY <1>1, NewPackageFilesFacts DEF ListedInPlace, EngineDir
<1>3. ASSUME NEW e \in Doc, Open(e)', packageFiles'[EngineDir(e)] # Unset,
             e \in packageFiles'[EngineDir(e)]
      PROVE  sourceText'[e] = docs'[e].src
  <2>1. EngineSeesBuffers'
    BY RefreshSeen
  <2>2. CASE e \notin TestFile
    BY <1>3, <2>1, <2>2 DEF EngineSeesBuffers
  <2>3. CASE e \in TestFile /\ EngineDir(e) = EngineDir(d)
    <3>1. e = d
      BY <1>1, <1>3, <2>3, NewPackageFilesFacts
    <3>2. NewPackageFiles(d)[EngineDir(d)] = IF ViaPackage(d) THEN SourcesIn(DirOf[d]) ELSE {d}
      BY EngineDirType DEF NewPackageFiles, TypeOK
    <3>3. ~ViaPackage(d)
      BY <1>1, <1>3, <2>3, <3>1, <3>2 DEF SourcesIn
    <3>4. NewSourceText(d, t)[d] = t
      BY <3>3 DEF NewSourceText, Seed, ViaPackage
    <3> QED
      BY <1>1, <3>1, <3>4, RefreshedSource
  <2>4. CASE e \in TestFile /\ EngineDir(e) # EngineDir(d)
    <3>1. e # d /\ packageFiles'[EngineDir(e)] = packageFiles[EngineDir(e)]
      BY <1>1, <2>4, NewPackageFilesFacts, EngineDirType
    <3>2. sourceText[e] = docs[e].src /\ docs'[e].src = docs[e].src
      BY <1>3, <3>1, RefreshedSource DEF ListedSeen
    <3>3. NewSourceText(d, t)[e] = sourceText[e]
      BY <2>4, <3>1, SeededOnly DEF SourcesIn
    <3> QED
      BY <1>1, <3>2, <3>3
  <2> QED
    BY <2>2, <2>3, <2>4
<1> QED
  BY <1>2, <1>3 DEF ListedSeen, EngineDir

(* The list of an open file that its package names is recomputed by every   *)
(* refresh in its directory, from the texts of all the files it names.      *)
LEMMA RefreshView ==
  ASSUME TypeOK, ListedInPlace, ListedSeen, EngineSeesBuffers, OnePackageView,
         NEW d \in Doc, NEW t \in Text, RefreshDoc(d, t), ~AnalysisPanics(d, t)
  PROVE  OnePackageView'
<1> DEFINE text(f) == IF Open(f) THEN docs[f].src ELSE sourceText[f]
<1> SUFFICES ASSUME NEW e \in Doc, Open(e)', packageFiles'[EngineDir(e)] # Unset,
                    e \in packageFiles'[EngineDir(e)]
             PROVE  docs'[e].diags = Uses(docs'[e].src) \
                      UNION {Declares(text(f)') : f \in packageFiles'[EngineDir(e)]}
  BY DEF OnePackageView, EngineDir
<1>1. packageFiles' = NewPackageFiles(d) /\ sourceText' = NewSourceText(d, t)
  BY DEF RefreshDoc
<1>2. ListedInPlace' /\ ListedSeen' /\ EngineSeesBuffers'
  BY RefreshListed, RefreshSeen
<1>3. \A f \in packageFiles'[EngineDir(e)] : f \in Doc /\ EngineDir(f) = EngineDir(e)
  <2>1. EngineDir(e) \in Dir
    BY EngineDirType
  <2>2. packageFiles'[EngineDir(e)] \in SUBSET Doc
    BY <2>1, RefreshType
  <2>3. \A f \in packageFiles'[EngineDir(e)] : EngineDir(f) = EngineDir(e)
    BY <1>2, <2>1 DEF ListedInPlace, EngineDir
  <2> QED
    BY <2>2, <2>3
<1>4. \A f \in packageFiles'[EngineDir(e)] : text(f)' = sourceText'[f]
  BY <1>2, <1>3 DEF ListedSeen, EngineDir
<1>5. CASE EngineDir(e) = EngineDir(d)
  <2>1. e = d \/ e \in Siblings(d, NewPackageFiles(d))
    BY <1>1, <1>5, NewPackageFilesFacts, SiblingFacts, RefreshedSource
  <2>2. docs'[e].diags = FileDiagnostics(sourceText', packageFiles'[EngineDir(e)], e)
    <3>1. Fresh(d, t).diags = FileDiagnostics(sourceText', packageFiles'[EngineDir(e)], d)
      BY <1>1, <1>5 DEF Fresh
    <3>2. Updated(d, t, e).diags = FileDiagnostics(sourceText', packageFiles'[EngineDir(e)], e)
      BY <1>1, <1>5 DEF Updated
    <3> QED
      BY <2>1, <3>1, <3>2, RefreshedDocs
  <2>3. docs'[e].src = sourceText'[e]
    BY <1>2 DEF ListedSeen, EngineDir
  <2> QED
    BY <1>4, <2>2, <2>3 DEF FileDiagnostics
<1>6. CASE EngineDir(e) # EngineDir(d)
  <2>1. packageFiles'[EngineDir(e)] = packageFiles[EngineDir(e)]
    BY <1>1, <1>6, NewPackageFilesFacts, EngineDirType
  <2>2. e # d /\ docs'[e] = docs[e] /\ Open(e)
    BY <1>6, RefreshedDocs, SiblingFacts, RefreshedSource
  <2>3. ASSUME NEW f \in packageFiles[EngineDir(e)] PROVE text(f)' = text(f)
    <3>1. f # d /\ f \in Doc /\ EngineDir(f) # EngineDir(d)
      BY <1>3, <1>6, <2>1
    <3>2. docs'[f] = docs[f] /\ (Open(f)' <=> Open(f))
      BY <3>1, RefreshedDocs, SiblingFacts, RefreshedSource
    <3>3. sourceText'[f] = sourceText[f]
      BY <1>1, <3>1, SeededOnly DEF SourcesIn, EngineDir
    <3> QED
      BY <3>2, <3>3
  <2> QED
    BY <2>1, <2>2, <2>3 DEF OnePackageView
<1> QED
  BY <1>5, <1>6

-----------------------------------------------------------------------------
(* The other messages, and the theorem *)

(* didClose forgets a document and its markers; its text stays in the       *)
(* engine, so that the package is still seen with it.                       *)
LEMMA CloseInv ==
  ASSUME IInv, NEW d \in Doc, DidClose(d)
  PROVE  IInv'
<1> USE DEF IInv
<1>1. \A e \in Doc : docs'[e] = (IF e = d THEN NoDoc ELSE docs[e])
                     /\ shown'[e] = (IF e = d THEN {} ELSE shown[e])
  BY DEF DidClose, TypeOK
<1>2. \A e \in Doc : Open(e)' <=> e # d /\ Open(e)
  BY <1>1 DEF Open
<1>3. sourceText' = sourceText /\ packageFiles' = packageFiles /\ index' = NoIndex
  BY DEF DidClose, Invalidate
<1>4. TypeOK'
  BY DEF DidClose, TypeOK
<1>5. LastIsPublished' /\ HeldErrorsShown' /\ EngineSeesBuffers' /\ ListedSeen'
  BY <1>1, <1>2, <1>3 DEF LastIsPublished, HeldErrorsShown, EngineSeesBuffers, ListedSeen, EngineDir
<1>6. ListedInPlace'
  BY <1>3 DEF ListedInPlace, EngineDir
<1>7. IndexShowsBuffers'
  BY <1>3 DEF IndexShowsBuffers
<1>8. OnePackageView'
  <2> DEFINE text(f) == IF Open(f) THEN docs[f].src ELSE sourceText[f]
  <2> SUFFICES ASSUME NEW e \in Doc, Open(e)', packageFiles[EngineDir(e)] # Unset,
                      e \in packageFiles[EngineDir(e)]
               PROVE  docs'[e].diags = Uses(docs'[e].src) \
                        UNION {Declares(text(f)') : f \in packageFiles[EngineDir(e)]}
    BY <1>3 DEF OnePackageView, EngineDir
  <2>1. EngineDir(e) \in Dir
    BY EngineDirType
  <2>2. ASSUME NEW f \in packageFiles[EngineDir(e)] PROVE text(f)' = text(f)
    <3>1. f \in Doc /\ EngineDir(f) = EngineDir(e)
      BY <2>1 DEF ListedInPlace, TypeOK
    <3> QED
      BY <1>1, <1>2, <1>3, <3>1 DEF ListedSeen
  <2> QED
    BY <1>1, <1>2, <2>2 DEF OnePackageView
<1> QED
  BY <1>4, <1>5, <1>6, <1>7, <1>8

(* didOpen and didChange, whether the analysis succeeds or panics. *)
LEMMA RefreshInv ==
  ASSUME IInv, NEW d \in Doc, NEW t \in Text, Refresh(d, t), process = "running"
  PROVE  IInv'
<1>1. CASE AnalysisPanics(d, t)
  <2>1. /\ UNCHANGED <<docs, sourceText, packageFiles, index, shown, session, disk, writes>>
        /\ process' = "crashed"
    BY <1>1 DEF Refresh, Crash
  <2> QED
    BY <2>1 DEF IInv, TypeOK, LastIsPublished, ListedInPlace, ListedSeen, HeldErrorsShown,
                EngineSeesBuffers, OnePackageView, IndexShowsBuffers, Open, EngineDir
<1>2. CASE ~AnalysisPanics(d, t)
  <2>1. RefreshDoc(d, t) /\ UNCHANGED <<process, session, disk, writes>>
    BY <1>2 DEF Refresh
  <2>2. TypeOK'
    BY <1>2, <2>1, RefreshType DEF IInv, TypeOK
  <2>3. IndexShowsBuffers'
    BY <2>1 DEF RefreshDoc, Invalidate, IndexShowsBuffers
  <2> QED
    BY <1>2, <2>1, <2>2, <2>3, RefreshLast, RefreshShown, RefreshSeen, RefreshListed, RefreshView
       DEF IInv
<1> QED
  BY <1>1, <1>2

(* Every step preserves the invariant. *)
LEMMA LspStep == IInv /\ [Next]_vars => IInv'
<1> SUFFICES ASSUME IInv, [Next]_vars PROVE IInv'
  OBVIOUS
<1> USE DEF LastIsPublished, ListedInPlace, ListedSeen, HeldErrorsShown, EngineSeesBuffers,
            OnePackageView, Open, EngineDir
<1>1. CASE Initialize \/ Shutdown \/ Exit
  BY <1>1 DEF IInv, TypeOK, IndexShowsBuffers, Initialize, Shutdown, Exit
<1>2. CASE WorkspaceSymbol
  <2>1. UNCHANGED <<session, process, disk, writes, docs, sourceText, packageFiles, shown>>
        /\ index' = IndexOf(Root)
    BY <1>2 DEF WorkspaceSymbol
  <2>2. IndexShowsBuffers'
    BY <2>1 DEF IndexShowsBuffers, IndexOf
  <2> QED
    BY <2>1, <2>2 DEF IInv, TypeOK
<1>3. ASSUME NEW d \in Doc, NEW t \in Text, DidOpen(d, t) \/ DidChange(d, t) PROVE IInv'
  BY <1>3, RefreshInv DEF DidOpen, DidChange, Serving
<1>4. ASSUME NEW d \in Doc, DidClose(d) PROVE IInv'
  BY <1>4, CloseInv
<1>5. ASSUME NEW f \in File, NEW v \in Text \cup {NoFile, Unreadable}, WriteDisk(f, v) PROVE IInv'
  <2>1. UNCHANGED <<session, process, docs, sourceText, packageFiles, index, shown>>
    BY <1>5 DEF WriteDisk
  <2>2. disk' \in [File -> Text \cup {NoFile, Unreadable}] /\ writes' \in 0..MaxDiskWrites
    BY <1>5, LspAssumption DEF WriteDisk, IInv, TypeOK
  <2> QED
    BY <2>1, <2>2 DEF IInv, TypeOK, IndexShowsBuffers
<1>6. CASE UNCHANGED vars
  BY <1>6 DEF vars, IInv, TypeOK, IndexShowsBuffers
<1> QED
  BY <1>1, <1>2, <1>3, <1>4, <1>5, <1>6 DEF Next

(* The invariant holds before the first message. *)
LEMMA LspInit == Init => IInv
BY LspAssumption
   DEF Init, IInv, TypeOK, LastIsPublished, ListedInPlace, ListedSeen, HeldErrorsShown,
       EngineSeesBuffers, OnePackageView, IndexShowsBuffers, Open

(***************************************************************************)
(* Server.Run keeps the three copies of every text and the markers of the   *)
(* editor together, whatever messages come and whatever happens to the disk. *)
(***************************************************************************)
THEOREM LspInvariant == Spec => []IInv
BY LspInit, LspStep, PTL DEF Spec

(* The server's state has its type. *)
THEOREM LspTypeOK == Spec => []TypeOK
<1>1. IInv => TypeOK
  BY DEF IInv
<1> QED
  BY <1>1, LspInvariant, PTL

(* publishDiagnostics and the sibling refresh miss no error: a non-empty    *)
(* list the server holds against an open document is what the editor shows  *)
(* for it, and a closed document shows nothing.  An empty list may not have *)
(* been sent, and is left out.                                              *)
THEOREM LspHeldErrorsShown == Spec => []HeldErrorsShown
<1>1. IInv => HeldErrorsShown
  BY DEF IInv
<1> QED
  BY <1>1, LspInvariant, PTL

(* The engine is fed the unsaved buffers of all open sources, also when an  *)
(* analysis stopped half way at a sibling it could not read.                *)
THEOREM LspEngineSeesBuffers == Spec => []EngineSeesBuffers
<1>1. IInv => EngineSeesBuffers
  BY DEF IInv
<1> QED
  BY <1>1, LspInvariant, PTL

(* The diagnostics held for a listed open file are those of the package as  *)
(* all open buffers have it now.                                            *)
THEOREM LspOnePackageView == Spec => []OnePackageView
<1>1. IInv => OnePackageView
  BY DEF IInv
<1> QED
  BY <1>1, LspInvariant, PTL

(* The workspace index never serves an outdated buffer. *)
THEOREM LspIndexShowsBuffers == Spec => []IndexShowsBuffers
<1>1. IInv => IndexShowsBuffers
  BY DEF IInv
<1> QED
  BY <1>1, LspInvariant, PTL
=============================================================================
