------------------------------ MODULE LspServer ------------------------------
(***************************************************************************)
(* The language server of internal/lsp: the session, the open documents,    *)
(* what it feeds to the query engine and what it publishes to the editor.   *)
(*                                                                         *)
(* Server.Run reads one message, runs its handler to the end and reads the  *)
(* next, so a handler is one step.  The editor (messages in any order) and  *)
(* whoever else writes the directory are the environment.                   *)
(*                                                                         *)
(* Directories here are plain packages: none is, or lies in, a workspace    *)
(* root.  A text is known by the names it declares and the names it uses;   *)
(* the diagnostics of a file are the names it uses that its package does    *)
(* not declare.                                                             *)
(***************************************************************************)
EXTENDS Naturals

CONSTANTS
  File,             \* file:// documents, also the .osty files of the disk
  Scratch,          \* documents with another URI scheme
  TestFile,         \* files named *_test.osty
  Dir,              \* package directories
  DirOf,            \* [File -> Dir]
  Cwd,              \* the directory the server was started in
  Before(_, _),     \* the order of paths (strings)
  Text,             \* file and buffer contents
  Name,             \* top-level names
  Declares(_),      \* the names a text declares
  Uses(_),          \* the names a text refers to
  NoFile,           \* not on the disk
  Unreadable,       \* on the disk, but os.ReadFile fails
  NoDoc,            \* not in docStore
  Unset,            \* no slot in the engine's input
  NoIndex,          \* wsIndex.loaded is false
  InitialDisk,      \* bound: what the disk may hold at the start
  MaxDiskWrites     \* bound: changes of the disk behind the server's back

Doc      == File \cup Scratch
Document == [src: Text, diags: SUBSET Name, last: SUBSET Name]

ASSUME LspAssumption ==
  /\ TestFile \subseteq File
  /\ File \cap Scratch = {}
  /\ DirOf \in [File -> Dir]
  /\ Cwd \in Dir
  /\ \A f, g \in File : f # g => (Before(f, g) <=> ~Before(g, f))
  /\ \A c, d \in Dir : c # d => (Before(c, d) <=> ~Before(d, c))
  /\ \A t \in Text : Declares(t) \subseteq Name /\ Uses(t) \subseteq Name
  /\ {NoFile, Unreadable, Unset} \cap Text = {} /\ NoFile # Unreadable
  /\ NoDoc \notin Document /\ \A D \in SUBSET Doc : D # Unset
  /\ InitialDisk \subseteq [File -> Text \cup {NoFile, Unreadable}]
  /\ MaxDiskWrites \in Nat

VARIABLES
  session,       \* Server.initialized and Server.shutdown
  process,       \* whether Run is still reading
  disk,          \* [File -> Text, Unreadable or NoFile]
  writes,        \* changes of the disk so far
  docs,          \* docStore: [Doc -> Document or NoDoc]
  sourceText,    \* engine input SourceText: [Doc -> Text or Unset]
  packageFiles,  \* engine input PackageFiles: [Dir -> SUBSET Doc or Unset]
  index,         \* wsIndex: [root, view], or NoIndex
  shown          \* the editor's markers: the last diagnostics it was sent

vars == <<session, process, disk, writes, docs, sourceText, packageFiles, index, shown>>

Init ==
  /\ session = "fresh"
  /\ process = "running"
  /\ disk \in InitialDisk
  /\ writes = 0
  /\ docs = [d \in Doc |-> NoDoc]
  /\ sourceText = [d \in Doc |-> Unset]
  /\ packageFiles = [d \in Dir |-> Unset]
  /\ index = NoIndex
  /\ shown = [d \in Doc |-> {}]

-----------------------------------------------------------------------------
(* Analysis of document d with text t: which inputs of the engine it sets *)

Open(d)   == docs[d] # NoDoc
OnDisk(f) == disk[f] # NoFile

(* PackageDirOf the engine key; a scratch URI is a path relative to the     *)
(* working directory as far as filepath.Abs is concerned.                   *)
EngineDir(d) == IF d \in File THEN DirOf[d] ELSE Cwd

(* The sources of a package: its .osty files except the tests. *)
SourcesIn(dir) == {f \in File \ TestFile : DirOf[f] = dir /\ OnDisk(f)}

DirHasOstySiblings(f) == \E g \in File \ {f} : DirOf[g] = DirOf[f] /\ OnDisk(g)

(* analyzePackageContaining takes the package path; without any source the  *)
(* engine and the legacy loader both give up.                               *)
PackageMode(d) ==
  /\ d \in File /\ OnDisk(d)
  /\ DirHasOstySiblings(d)
  /\ SourcesIn(DirOf[d]) # {}

(* The siblings whose text must be read from the disk and cannot be.  The   *)
(* legacy loader reads every file of the package, so it fails too.          *)
Blocked(d) ==
  {f \in SourcesIn(DirOf[d]) \ {d} :
     ~Open(f) /\ sourceText[f] = Unset /\ disk[f] = Unreadable}

ViaPackage(d) == PackageMode(d) /\ Blocked(d) = {}

(* The sources seeded before the first one that cannot be read. *)
Reached(d) ==
  {f \in SourcesIn(DirOf[d]) : \A g \in Blocked(d) : f # g /\ Before(f, g)}

(* Mutant: "already seeded" is asked first, also of the edited file. *)
SeedOnce(d, t, f) ==
  IF sourceText[f] # Unset THEN sourceText[f]
  ELSE IF f = d THEN t
  ELSE IF Open(f) THEN docs[f].src ELSE disk[f]

(* The text file f is seeded with: the edited buffer, another open buffer,  *)
(* what was seeded before, or the disk.                                     *)
Seed(d, t, f) ==
  IF f = d THEN t
  ELSE IF Open(f) THEN docs[f].src
  ELSE IF sourceText[f] # Unset THEN sourceText[f] ELSE disk[f]

(* SourceText after analyze(d, t): all sources of the package, or those     *)
(* reached before a failure and then, like a single file, d itself.         *)
NewSourceText(d, t) ==
  LET seeded == IF ~PackageMode(d) THEN {d}
                ELSE IF ViaPackage(d) THEN SourcesIn(DirOf[d])
                ELSE Reached(d) \cup {d}
  IN  [f \in Doc |-> IF f \in seeded THEN Seed(d, t, f) ELSE sourceText[f]]

(* Mutant: the package is left as an earlier analysis described it. *)
NewPackageFilesOnce(d) ==
  IF packageFiles[EngineDir(d)] # Unset THEN packageFiles
  ELSE [packageFiles EXCEPT ![EngineDir(d)] =
          IF ViaPackage(d) THEN SourcesIn(DirOf[d]) ELSE {d}]

(* PackageFiles after analyze(d, t): the package, or d alone. *)
NewPackageFiles(d) ==
  [packageFiles EXCEPT ![EngineDir(d)] =
     IF ViaPackage(d) THEN SourcesIn(DirOf[d]) ELSE {d}]

(* FileDiagnostics.Get(f) on given inputs.  A package that does not list f  *)
(* has no diagnostics that belong to f.                                     *)
FileDiagnostics(texts, files, f) ==
  IF f \in files THEN Uses(texts[f]) \ UNION {Declares(texts[g]) : g \in files} ELSE {}

(* A query that reads a SourceText nobody set panics, and nothing on the    *)
(* way up recovers.                                                         *)
AnalysisPanics(d, t) ==
  \E f \in {d} \cup NewPackageFiles(d)[EngineDir(d)] : NewSourceText(d, t)[f] = Unset

-----------------------------------------------------------------------------
(* Publishing *)

(* Mutant: the list is memoised before it is compared. *)
SentAfterMemo(doc) == doc.diags # doc.diags

(* publishDiagnostics: a list equal to the last one sent for this document  *)
(* object is not sent; a new document object has an empty last list.        *)
Sent(doc)      == doc.last # doc.diags
Published(doc) == [doc EXCEPT !.last = doc.diags]
Markers(doc, old) == IF Sent(doc) THEN doc.diags ELSE old

(* refreshSiblingDiagnostics: the other open files of the directory. *)
Siblings(d, newFiles) ==
  IF d \in File /\ newFiles[EngineDir(d)] # Unset
  THEN {e \in File \ {d} : Open(e) /\ DirOf[e] = DirOf[d]}
  ELSE {}

(* Mutant: the index survives. *)
InvalidateNothing == UNCHANGED index

(* wsIndex.invalidate *)
Invalidate == index' = NoIndex

(* refreshDoc: analyse, replace the document object, drop the workspace     *)
(* index, publish, then pull and publish the siblings' diagnostics.         *)
RefreshDoc(d, t) ==
  LET texts == NewSourceText(d, t)
      files == NewPackageFiles(d)
      fresh == [src   |-> t,
                diags |-> FileDiagnostics(texts, files[EngineDir(d)], d),
                last  |-> {}]
      updated(e) == [docs[e] EXCEPT !.diags = FileDiagnostics(texts, files[DirOf[e]], e)]
      stored == [e \in Doc |-> IF e = d THEN fresh
                               ELSE IF e \in Siblings(d, files) THEN updated(e)
                               ELSE docs[e]]
      touched == {d} \cup Siblings(d, files)
  IN  /\ sourceText' = texts
      /\ packageFiles' = files
      /\ docs' = [e \in Doc |-> IF e \in touched THEN Published(stored[e]) ELSE docs[e]]
      /\ shown' = [e \in Doc |-> IF e \in touched THEN Markers(stored[e], shown[e]) ELSE shown[e]]
      /\ Invalidate

(* The analysis, which comes first, panics: the process is gone. *)
Crash ==
  /\ process' = "crashed"
  /\ UNCHANGED <<docs, sourceText, packageFiles, index, shown>>

Refresh(d, t) ==
  /\ IF AnalysisPanics(d, t) THEN Crash ELSE RefreshDoc(d, t) /\ UNCHANGED process
  /\ UNCHANGED <<session, disk, writes>>

-----------------------------------------------------------------------------
(* Messages *)

(* LSPDispatchDecisionFor: documents are only handled inside the session;   *)
(* anything else is ignored or answered by an error.                        *)
Serving == process = "running" /\ session = "serving"

(* initialize is handled in every state; after shutdown it changes nothing. *)
Initialize ==
  /\ process = "running"
  /\ session = "fresh"
  /\ session' = "serving"
  /\ UNCHANGED <<process, disk, writes, docs, sourceText, packageFiles, index, shown>>

Shutdown ==
  /\ Serving
  /\ session' = "shutdown"
  /\ UNCHANGED <<process, disk, writes, docs, sourceText, packageFiles, index, shown>>

(* exit, or the end of the input. *)
Exit ==
  /\ process = "running"
  /\ process' = "exited"
  /\ UNCHANGED <<session, disk, writes, docs, sourceText, packageFiles, index, shown>>

DidOpen(d, t) == Serving /\ Refresh(d, t)

(* didChange of a document that is not open is logged and dropped. *)
DidChange(d, t) == Serving /\ Open(d) /\ Refresh(d, t)

(* didClose: forget the document, clear the markers.  The engine keeps the  *)
(* buffer's text.                                                           *)
DidClose(d) ==
  /\ Serving
  /\ docs' = [docs EXCEPT ![d] = NoDoc]
  /\ Invalidate
  /\ shown' = [shown EXCEPT ![d] = {}]
  /\ UNCHANGED <<session, process, disk, writes, sourceText, packageFiles>>

(* workspaceRootForAny: the first directory of an open file with siblings. *)
Roots == {DirOf[f] : f \in {g \in File : Open(g) /\ OnDisk(g) /\ DirHasOstySiblings(g)}}
Root  == CHOOSE r \in Roots : \A s \in Roots : r = s \/ Before(r, s)

(* What loading the package gives: buffers over the disk, or nothing when   *)
(* a file cannot be read.                                                   *)
IndexOf(dir) ==
  [root |-> dir,
   view |-> [f \in IF \E g \in SourcesIn(dir) : disk[g] = Unreadable THEN {} ELSE SourcesIn(dir)
               |-> IF Open(f) THEN docs[f].src ELSE disk[f]]]

(* workspace/symbol: ensureWorkspaceIndex builds the index it does not have *)
(* for this root.                                                           *)
WorkspaceSymbol ==
  /\ Serving
  /\ Roots # {}
  /\ index # NoIndex => index.root # Root
  /\ index' = IndexOf(Root)
  /\ UNCHANGED <<session, process, disk, writes, docs, sourceText, packageFiles, shown>>

(* The editor saves, or another program writes, removes or locks a file     *)
(* (when the server handles no document, a write makes no difference to it). *)
WriteDisk(f, v) ==
  /\ Serving
  /\ writes < MaxDiskWrites
  /\ v # disk[f]
  /\ disk' = [disk EXCEPT ![f] = v]
  /\ writes' = writes + 1
  /\ UNCHANGED <<session, process, docs, sourceText, packageFiles, index, shown>>

Next ==
  \/ Initialize \/ Shutdown \/ Exit \/ WorkspaceSymbol
  \/ \E d \in Doc, t \in Text : DidOpen(d, t) \/ DidChange(d, t)
  \/ \E d \in Doc : DidClose(d)
  \/ \E f \in File, v \in Text \cup {NoFile, Unreadable} : WriteDisk(f, v)

Spec == Init /\ [][Next]_vars

-----------------------------------------------------------------------------

TypeOK ==
  /\ session \in {"fresh", "serving", "shutdown"}
  /\ process \in {"running", "exited", "crashed"}
  /\ disk \in [File -> Text \cup {NoFile, Unreadable}]
  /\ writes \in 0..MaxDiskWrites
  /\ docs \in [Doc -> Document \cup {NoDoc}]
  /\ sourceText \in [Doc -> Text \cup {Unset}]
  /\ packageFiles \in [Dir -> (SUBSET Doc) \cup {Unset}]
  /\ shown \in [Doc -> SUBSET Name]

(***************************************************************************)
(* The editor never misses an error: a non-empty list that the server holds *)
(* against an open document is what the editor shows for it, whichever      *)
(* document's edit brought it about; a document that is not open shows      *)
(* nothing.  It says nothing of a document without errors: the empty list   *)
(* of a new document object equals its nil lastDiags and is not published   *)
(* (publishDiagnostics), so that the markers of before may stay.            *)
(***************************************************************************)
HeldErrorsShown ==
  \A d \in Doc :
    /\ (Open(d) /\ docs[d].diags # {}) => shown[d] = docs[d].diags
    /\ ~Open(d) => shown[d] = {}

(***************************************************************************)
(* The engine is fed the unsaved buffers: its text of an open source file   *)
(* is the buffer, also when another file of the package was analysed last   *)
(* or the analysis stopped half way at an unreadable sibling.               *)
(***************************************************************************)
EngineSeesBuffers ==
  \A d \in Doc \ TestFile : Open(d) => sourceText[d] = docs[d].src

(***************************************************************************)
(* One picture of the package: the diagnostics of an open file that its     *)
(* package lists are those of the package as all open buffers have it now,  *)
(* not as they were when this file was last analysed.                       *)
(***************************************************************************)
OnePackageView ==
  \A d \in Doc :
    LET files == packageFiles[EngineDir(d)]
        text(f) == IF Open(f) THEN docs[f].src ELSE sourceText[f]
    IN  (Open(d) /\ files # Unset /\ d \in files) =>
          docs[d].diags = Uses(docs[d].src) \ UNION {Declares(text(f)) : f \in files}

(***************************************************************************)
(* The workspace index never serves an outdated buffer: every open file it  *)
(* holds is there with its current text.                                    *)
(***************************************************************************)
IndexShowsBuffers ==
  index # NoIndex =>
    \A f \in DOMAIN index.view : Open(f) => index.view[f] = docs[f].src

(* The list last published of a document object is the list it holds. *)
LastIsPublished == \A d \in Doc : Open(d) => docs[d].last = docs[d].diags

(* A package lists files of its own directory only. *)
ListedInPlace ==
  \A dir \in Dir : packageFiles[dir] # Unset => \A f \in packageFiles[dir] : EngineDir(f) = dir

(* A listed open document is in the engine with its buffer, tests included. *)
ListedSeen ==
  \A d \in Doc :
    (Open(d) /\ packageFiles[EngineDir(d)] # Unset /\ d \in packageFiles[EngineDir(d)]) =>
      sourceText[d] = docs[d].src

(***************************************************************************)
(* What every message handler preserves: the four promises above, and what  *)
(* ties the three copies together while they are made, the last published   *)
(* list, the package list and the text of what it lists.                    *)
(***************************************************************************)
IInv ==
  /\ TypeOK
  /\ LastIsPublished /\ ListedInPlace /\ ListedSeen
  /\ HeldErrorsShown /\ EngineSeesBuffers /\ OnePackageView /\ IndexShowsBuffers

(***************************************************************************)
(* A package analysis takes the files that are not open from the disk       *)
(* (analyzePackageViaEngine: "Not open in the editor: read from disk").     *)
(***************************************************************************)
ClosedFilesFromDisk ==
  [][\A d \in File, t \in Text :
       (RefreshDoc(d, t) /\ ViaPackage(d)) =>
          \A f \in SourcesIn(DirOf[d]) : (f # d /\ ~Open(f)) => sourceText'[f] = disk[f]]_vars

=============================================================================
