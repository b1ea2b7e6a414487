--------------------------- MODULE RegistryProofs ----------------------------
(***************************************************************************)
(* Proofs about the registry, for any number of publishers, versions,      *)
(* client processes and crashes.                                           *)
(***************************************************************************)
EXTENDS RegistryClient, TLAPS

\* The inductive invariant holds in the empty store.
LEMMA StoreInitInv == StoreInit => StoreInv
BY VerOfAssumption, NoFileAssumption, NobodyAssumption, MaxCrashesAssumption
   DEF StoreInit, StoreInv, StoreTypeOK, RecordMatchesFile, Holder,
       YankedPublished, RightVersion, Record, Empty, PublisherAt

\* Every step of the server, a crash and a restart included, preserves it.
LEMMA StoreStepInv == StoreInv /\ [StoreNext]_storeVars => StoreInv'
<1> SUFFICES ASSUME StoreInv, [StoreNext]_storeVars PROVE StoreInv'
  OBVIOUS
<1> USE VerOfAssumption, NoFileAssumption, NobodyAssumption, MaxCrashesAssumption
<1> USE DEF StoreInv, StoreTypeOK, RecordMatchesFile, Holder,
            YankedPublished, RightVersion, Record, PublisherAt
<1>1. ASSUME NEW p \in Publisher, Upload(p) PROVE StoreInv'
  BY <1>1 DEF Upload
<1>2. ASSUME NEW p \in Publisher, Reject(p) PROVE StoreInv'
  BY <1>2 DEF Reject
<1>3. ASSUME NEW p \in Publisher, Lookup(p) PROVE StoreInv'
  <2>1. StoreTypeOK'
    <3> HIDE DEF Record
    <3>1. loaded' \in [Publisher -> Record]
      BY <1>3 DEF Lookup
    <3> QED
      BY <1>3, <3>1 DEF Lookup
  <2>2. RecordMatchesFile'
    BY <1>3 DEF Lookup, Locked, MayPublish
  <2>3. Holder'
    BY <1>3 DEF Lookup, Locked, MayPublish
  <2>4. YankedPublished'
    BY <1>3 DEF Lookup, Locked, MayPublish
  <2>5. RightVersion'
    BY <1>3 DEF Lookup, Locked, MayPublish
  <2> QED
    BY <2>1, <2>2, <2>3, <2>4, <2>5
<1>4. ASSUME NEW p \in Publisher, RenameTarball(p) PROVE StoreInv'
  <2>1. StoreTypeOK'
    BY <1>4 DEF RenameTarball
  <2>2. RecordMatchesFile'
    BY <1>4 DEF RenameTarball
  <2>3. Holder'
    BY <1>4 DEF RenameTarball
  <2>4. YankedPublished' /\ RightVersion'
    BY <1>4 DEF RenameTarball
  <2> QED
    BY <2>1, <2>2, <2>3, <2>4
<1>5. ASSUME NEW p \in Publisher, SaveRecord(p) PROVE StoreInv'
  <2>1. StoreTypeOK'
    <3>1. rec' \in Record /\ files' \in Record
      BY <1>5 DEF SaveRecord, RemoveTarball
    <3> HIDE DEF Record
    <3> QED
      BY <1>5, <3>1 DEF SaveRecord
  <2>2. RecordMatchesFile'
    BY <1>5 DEF SaveRecord, RemoveTarball
  <2>3. Holder'
    BY <1>5 DEF SaveRecord, RemoveTarball
  <2>4. YankedPublished'
    BY <1>5 DEF SaveRecord, RemoveTarball
  <2>5. RightVersion'
    BY <1>5 DEF SaveRecord, RemoveTarball
  <2> QED
    BY <2>1, <2>2, <2>3, <2>4, <2>5
<1>6. ASSUME NEW p \in Publisher, Reply(p) PROVE StoreInv'
  BY <1>6 DEF Reply
<1>7. ASSUME NEW v \in Version, ToggleYank(v) PROVE StoreInv'
  BY <1>7 DEF ToggleYank
<1>8. CASE Crash
  <2>1. StoreTypeOK'
    <3>1. crashes' \in 0 .. MaxCrashes
      BY <1>8 DEF Crash
    <3> HIDE DEF Record
    <3> QED
      BY <1>8, <3>1 DEF Crash
  <2>2. RecordMatchesFile'
    BY <1>8 DEF Crash
  <2>3. Holder'
    BY <1>8 DEF Crash
  <2>4. YankedPublished'
    BY <1>8 DEF Crash
  <2>5. RightVersion'
    BY <1>8 DEF Crash
  <2> QED
    BY <2>1, <2>2, <2>3, <2>4, <2>5
<1>9. CASE Restart
  BY <1>9 DEF Restart
<1>10. CASE UNCHANGED storeVars
  BY <1>10 DEF storeVars
<1> QED
  BY <1>1, <1>2, <1>3, <1>4, <1>5, <1>6, <1>7, <1>8, <1>9, <1>10 DEF StoreNext

\* A client only talks to the server: it changes nothing in the store itself.
LEMMA ClientLeavesStore == [Next]_vars => [StoreNext]_storeVars
BY DEF Next, vars, ClientStep, Load, RequestFails, Request, StoreOpen, StoreWrite, StoreRename,
       Pick, Download, Copy, Hash, StatDir, EnsureDir, Extract, Exit

\* The record and the archives agree in every state of the registry with its
\* clients: what the index advertises is what FileStore.OpenTarball serves,
\* whatever renames, saves and removals fail in FileStore.Publish and wherever
\* the server crashes.
THEOREM StoreInvariant == Spec => []StoreInv
<1>1. Init => StoreInv
  BY StoreInitInv DEF Init
<1>2. StoreInv /\ [Next]_vars => StoreInv'
  BY StoreStepInv, ClientLeavesStore
<1> QED
  BY <1>1, <1>2, PTL DEF Spec

\* What a record names it names for ever.
LEMMA RecordGrows ==
    StoreInv /\ [StoreNext]_storeVars =>
      \A v \in Version : rec[v] # NoFile => rec'[v] = rec[v]
<1> SUFFICES ASSUME StoreInv, [StoreNext]_storeVars, NEW v \in Version, rec[v] # NoFile
             PROVE rec'[v] = rec[v]
  OBVIOUS
<1>1. ASSUME NEW p \in Publisher, SaveRecord(p) PROVE rec'[v] = rec[v]
  BY <1>1, VerOfAssumption DEF SaveRecord, StoreInv, StoreTypeOK, Holder, Record
<1> QED
  BY <1>1 DEF StoreNext, storeVars, Upload, Reject, Lookup, RenameTarball, Reply, ToggleYank,
              Crash, Restart

\* The refinement mapping's initial state.
LEMMA CatalogueInit == StoreInit => C!CInit
BY DEF StoreInit, Empty, C!CInit

\* The save of the record is the abstract publication, the answer the abstract
\* acknowledgement; the rename of the archive, crashes and restarts are stutters.
LEMMA CatalogueStep == StoreInv /\ [StoreNext]_storeVars => [C!CNext]_(C!cvars)
<1> SUFFICES ASSUME StoreInv, [StoreNext]_storeVars PROVE [C!CNext]_(C!cvars)
  OBVIOUS
<1> USE VerOfAssumption, NoFileAssumption, NobodyAssumption
<1> USE DEF StoreInv, StoreTypeOK, RecordMatchesFile, Holder, Record, C!cvars
<1>1. ASSUME NEW p \in Publisher, Upload(p) \/ Reject(p) \/ Lookup(p) PROVE UNCHANGED C!cvars
  BY <1>1 DEF Upload, Reject, Lookup
<1>2. ASSUME NEW p \in Publisher, RenameTarball(p) PROVE UNCHANGED C!cvars
  BY <1>2 DEF RenameTarball
<1>3. ASSUME NEW p \in Publisher, SaveRecord(p) PROVE C!Publish(p) \/ UNCHANGED C!cvars
  BY <1>3 DEF SaveRecord, RemoveTarball, C!Publish
<1>4. ASSUME NEW p \in Publisher, Reply(p) PROVE C!Acknowledge(p)
  BY <1>4 DEF Reply, C!Acknowledge
<1>5. ASSUME NEW v \in Version, ToggleYank(v) PROVE C!SetYanked(v)
  BY <1>5 DEF ToggleYank, C!SetYanked
<1>6. CASE Crash \/ Restart \/ UNCHANGED storeVars
  BY <1>6 DEF Crash, Restart, storeVars
<1> QED
  BY <1>1, <1>2, <1>3, <1>4, <1>5, <1>6 DEF StoreNext, C!CNext

\* The file-backed store implements the catalogue: whatever crashes and failed
\* writes do in FileStore.Publish, a download of a version never changes, and a
\* publisher that got 201 is never lost.
THEOREM RegistryImplementsCatalogue == Spec => ImplementsCatalogue
<1>1. Init => C!CInit
  BY CatalogueInit DEF Init
<1>2. StoreInv /\ [Next]_vars => [C!CNext]_(C!cvars)
  BY CatalogueStep, ClientLeavesStore
<1> QED
  BY <1>1, <1>2, StoreInvariant, PTL DEF Spec, ImplementsCatalogue, C!CSpec

------------------------------------------------------------------------------
(* The clients and the cache directory they share *)

\* An entry of a server whose record is, or later becomes, R: it may lag behind
\* the record, never differ from it.
Past(e, R) == /\ e \in Entry
              /\ \E v \in Version : e[v].sum # NoFile
              /\ \A v \in Version : e[v].sum # NoFile => e[v].sum = R[v]

GoodFile(f, R) == f \in {Unlinked, Blank, Garbled} \/ Past(f, R)

GoodProcess(r, R) ==
    /\ r \in Process
    /\ r.index = Miss \/ Past(r.index, R)
    /\ r.at \notin {"idle", "request"} => r.index # Miss
    /\ r.at \in {"idle", "request"} => r.served = Miss
    /\ r.at \in {"store", "write", "link", "pick"} /\ r.served # Miss => r.index = r.served
    /\ r.at \in {"download", "copy", "hash", "verified", "mkdir", "extract",
               "fetched"} =>
         r.index[r.ver].sum # NoFile

\* The inductive invariant: every entry in a process or a cache file is past.
ClientInv == /\ client \in [Client -> Process]
             /\ \A c \in Client : GoodProcess(client[c], rec)
             /\ GoodFile(cached, rec) /\ GoodFile(tmp, rec)
             /\ tgz \in [Version -> Publisher \union {NoFile, Partial}]
             /\ dir \in [Version -> Publisher \union {NoFile, Partial}]

\* A process that has not begun, or has ended.
LEMMA FreshGood == \A R : GoodProcess(Fresh, R)
<1>1. (CHOOSE v \in Version : TRUE) \in Version
  BY VersionAssumption
<1> QED
  BY <1>1 DEF GoodProcess, Fresh, Process, Places

\* What handleIndex sends is past, and only an equal entry has its ETag.
LEMMA EntryServed ==
    ASSUME StoreInv
    PROVE /\ IndexEntry \in Entry
          /\ Published => Past(IndexEntry, rec)
          /\ \A e \in Entry : ETag(e) = ETag(IndexEntry) => e = IndexEntry
<1>1. IndexEntry \in Entry
  BY DEF IndexEntry, Entry, StoreInv, StoreTypeOK, Record
<1>2. Published => Past(IndexEntry, rec)
  BY <1>1 DEF Published, Past, IndexEntry
<1>3. ASSUME NEW e \in Entry, NEW f \in Entry, ETag(e) = ETag(f) PROVE e = f
  <2>1. ASSUME NEW v \in Version PROVE e[v] = f[v]
    <3>1. ETag(e)[v] = ETag(f)[v]
      BY <1>3
    <3>2. e[v].sum = f[v].sum /\ e[v].yanked = f[v].yanked
      BY <3>1 DEF ETag
    <3> QED
      BY <3>2 DEF Entry
  <2> QED
    BY <2>1 DEF Entry
<1> QED
  BY <1>1, <1>2, <1>3

\* Entries stay past while the record grows.
LEMMA PastStays ==
    ASSUME NEW R, NEW S, \A v \in Version : R[v] # NoFile => S[v] = R[v]
    PROVE /\ \A e : Past(e, R) => Past(e, S)
          /\ \A f : GoodFile(f, R) => GoodFile(f, S)
          /\ \A r : GoodProcess(r, R) => GoodProcess(r, S)
<1>1. ASSUME NEW e, Past(e, R) PROVE Past(e, S)
  BY <1>1 DEF Past
<1>2. ASSUME NEW f, GoodFile(f, R) PROVE GoodFile(f, S)
  BY <1>1, <1>2 DEF GoodFile
<1>3. ASSUME NEW r, GoodProcess(r, R) PROVE GoodProcess(r, S)
  BY <1>1, <1>3 DEF GoodProcess
<1> QED
  BY <1>1, <1>2, <1>3

\* A change of one process that keeps it good.
LEMMA OneProcess ==
    ASSUME ClientInv, NEW c \in Client, NEW r, GoodProcess(r, rec),
           client' = [client EXCEPT ![c] = r], rec' = rec
    PROVE client' \in [Client -> Process] /\ \A d \in Client : GoodProcess(client'[d], rec')
BY DEF ClientInv, GoodProcess

\* Every step of a client preserves the invariant, a kill included.
LEMMA ClientStepInv ==
    ASSUME StoreInv, ClientInv, NEW c \in Client, ClientStep(c)
    PROVE ClientInv'
<1>0. rec' = rec
  BY DEF ClientStep, storeVars, Load, RequestFails, Request, StoreOpen, StoreWrite,
         StoreRename, Pick, Download, Copy, Hash, StatDir, EnsureDir, Extract, Exit
<1> DEFINE r == client[c]
           Processes == /\ client' \in [Client -> Process]
                        /\ \A d \in Client : GoodProcess(client'[d], rec')
           SameFiles == cached' = cached /\ tmp' = tmp /\ tgz' = tgz /\ dir' = dir
<1>a. r \in Process /\ GoodProcess(r, rec) /\ GoodProcess(Fresh, rec)
  BY FreshGood DEF ClientInv
<1>b. ASSUME NEW q, GoodProcess(q, rec), client' = [client EXCEPT ![c] = q] PROVE Processes
  BY <1>0, <1>a, <1>b, OneProcess
<1>c. ASSUME Quit(c) PROVE Processes
  BY <1>a, <1>b, <1>c DEF Quit
<1>d. ASSUME NEW l, Goto(c, l) PROVE client' = [client EXCEPT ![c] = [r EXCEPT !.at = l]]
  BY <1>a, <1>d DEF Goto, ClientInv
<1>e. ASSUME Processes, SameFiles PROVE ClientInv'
  BY <1>0, <1>e DEF ClientInv
<1>g. ASSUME NEW d \in Client, NEW b \in BOOLEAN
      PROVE GoodProcess([client[d] EXCEPT !.stale = @ \/ b], rec)
  <2>1. client[d] \in Process /\ GoodProcess(client[d], rec)
    BY DEF ClientInv
  <2> QED
    BY <2>1 DEF GoodProcess, Process
<1>f. ASSUME NEW l, NEW q, GoodProcess(q, rec), client' = [Disturbed(c, l) EXCEPT ![c] = q]
      PROVE Processes
  <2>1. ASSUME NEW d \in Client, d # c PROVE GoodProcess(client'[d], rec)
    <3> DEFINE b == At(d, l) /\ Ver(d) = Ver(c)
    <3>1. b \in BOOLEAN
      BY DEF At
    <3>2. client'[d] = [client[d] EXCEPT !.stale = @ \/ b]
      BY <1>f, <2>1 DEF Disturbed
    <3> QED
      BY <1>g, <3>1, <3>2
  <2>2. GoodProcess(client'[c], rec)
    BY <1>f DEF Disturbed
  <2>3. \A d \in Client : GoodProcess(client'[d], rec)
    BY <2>1, <2>2
  <2>4. client' \in [Client -> Process]
    BY <1>f, <2>3 DEF Disturbed, GoodProcess
  <2> QED
    BY <1>0, <2>3, <2>4
<1>h. ASSUME Abandon(c) PROVE Processes
  BY <1>a, <1>f, <1>h DEF Abandon
<1> HIDE DEF Processes
<1>1. CASE Load(c)
  <2>1. CacheContent = Miss \/ Past(CacheContent, rec)
    BY DEF CacheContent, ClientInv, GoodFile
  <2>2. PICK l \in {"request", "pick"} :
          /\ client' = [client EXCEPT ![c] = [r EXCEPT !.index = CacheContent, !.at = l]]
          /\ CacheContent = Miss => l = "request"
    BY <1>1, <1>a DEF Load, ClientInv
  <2>3. GoodProcess([r EXCEPT !.index = CacheContent, !.at = l], rec)
    BY <1>1, <1>a, <2>1, <2>2 DEF Load, At, GoodProcess, Process, Places, Past
  <2>4. SameFiles
    BY <1>1 DEF Load, cacheVars, fetchVars
  <2> QED
    BY <1>b, <1>e, <2>2, <2>3, <2>4
<1>2. CASE RequestFails(c)
  <2>1. ASSUME Index(c) # Miss PROVE GoodProcess([r EXCEPT !.at = "pick"], rec)
    BY <1>2, <1>a, <2>1 DEF RequestFails, At, Index, GoodProcess, Process, Places
  <2>2. Processes
    BY <1>2, <1>b, <1>c, <1>d, <2>1 DEF RequestFails
  <2>3. SameFiles
    BY <1>2 DEF RequestFails, cacheVars, fetchVars
  <2> QED
    BY <1>e, <2>2, <2>3
<1>3. CASE Request(c)
  <2>0. SameFiles
    BY <1>3 DEF Request, cacheVars, fetchVars
  <2>1. CASE ~Published
    BY <1>3, <1>c, <1>e, <2>0, <2>1 DEF Request
  <2>2. CASE Published /\ NotModified(c)
    <3>1. client' = [client EXCEPT ![c] = [r EXCEPT !.served = IndexEntry, !.at = "pick"]]
      BY <1>3, <1>a, <2>2 DEF Request, ClientInv
    <3>2. r.index = IndexEntry
      BY <1>a, <2>2, EntryServed DEF NotModified, Index, Process
    <3>3. GoodProcess([r EXCEPT !.served = IndexEntry, !.at = "pick"], rec)
      BY <1>3, <1>a, <2>2, <3>2, EntryServed, TokenAssumption
         DEF Request, At, GoodProcess, Process, Places
    <3> QED
      BY <1>b, <1>e, <2>0, <3>1, <3>3
  <2>3. CASE Published /\ ~NotModified(c)
    <3>1. client' = [client EXCEPT ![c] = [r EXCEPT !.served = IndexEntry, !.index = IndexEntry,
                                                    !.at = "store"]]
      BY <1>3, <1>a, <2>3 DEF Request, ClientInv
    <3>2. GoodProcess([r EXCEPT !.served = IndexEntry, !.index = IndexEntry, !.at = "store"], rec)
      BY <1>a, <2>3, EntryServed, TokenAssumption DEF GoodProcess, Process, Places
    <3> QED
      BY <1>b, <1>e, <2>0, <3>1, <3>2
  <2> QED
    BY <2>1, <2>2, <2>3
<1>4. CASE StoreOpen(c)
  <2>1. client' = [client EXCEPT ![c] = [r EXCEPT !.fd = "tmp", !.at = "write"]]
    BY <1>4, <1>a DEF StoreOpen, ClientInv
  <2>2. GoodProcess([r EXCEPT !.fd = "tmp", !.at = "write"], rec)
    BY <1>4, <1>a DEF StoreOpen, At, GoodProcess, Process, Places
  <2>3. Processes
    BY <1>b, <2>1, <2>2
  <2> QED
    BY <1>0, <1>4, <2>3 DEF StoreOpen, ClientInv, GoodFile, fetchVars, Processes
<1>5. CASE StoreWrite(c)
  <2>1. client' = [client EXCEPT ![c] = [r EXCEPT !.fd = "none", !.at = "link"]]
    BY <1>5, <1>a DEF StoreWrite, ClientInv
  <2>2. GoodProcess([r EXCEPT !.fd = "none", !.at = "link"], rec)
    BY <1>5, <1>a DEF StoreWrite, At, GoodProcess, Process, Places
  <2>3. Processes
    BY <1>b, <2>1, <2>2
  <2>4. Past(r.index, rec)
    BY <1>5, <1>a DEF StoreWrite, At, GoodProcess
  <2>5. \A old : \A w \in Written(c, old) : GoodFile(w, rec)
    BY <2>4 DEF Written, Index, GoodFile
  <2>6. GoodFile(cached', rec) /\ GoodFile(tmp', rec)
    BY <1>5, <2>5 DEF StoreWrite, ClientInv, cacheVars
  <2> QED
    BY <1>0, <1>5, <2>3, <2>6 DEF StoreWrite, ClientInv, fetchVars, Processes
<1>6. CASE StoreRename(c)
  <2>1. CASE tmp = Unlinked
    <3>1. GoodProcess([r EXCEPT !.at = "pick"], rec)
      BY <1>6, <1>a DEF StoreRename, At, GoodProcess, Process, Places
    <3>2. Processes
      BY <1>6, <1>b, <1>d, <2>1, <3>1 DEF StoreRename
    <3>3. SameFiles
      BY <1>6, <2>1 DEF StoreRename, cacheVars, fetchVars
    <3> QED
      BY <1>e, <3>2, <3>3
  <2>2. CASE tmp # Unlinked
    <3>1. ASSUME NEW d \in Client PROVE GoodProcess(client'[d], rec) /\ client'[d] \in Process
      <4>1. client[d] \in Process /\ GoodProcess(client[d], rec)
        BY DEF ClientInv
      <4>2. PICK f \in {"none", "tmp", "cached", "lost"} :
              client'[d] = [client[d] EXCEPT !.fd = f, !.at = IF d = c THEN "pick" ELSE @]
        BY <1>6, <2>2, <4>1 DEF StoreRename, Process
      <4> QED
        BY <1>6, <4>1, <4>2 DEF StoreRename, At, GoodProcess, Process, Places
    <3>2. client' \in [Client -> Process]
      BY <1>6, <2>2, <3>1 DEF StoreRename
    <3> QED
      BY <1>0, <1>6, <2>2, <3>1, <3>2 DEF StoreRename, ClientInv, GoodFile, fetchVars
  <2> QED
    BY <2>1, <2>2
<1>7. CASE Pick(c)
  <2>1. SameFiles
    BY <1>7 DEF Pick, cacheVars, fetchVars
  <2>2. CASE Quit(c)
    BY <1>c, <1>e, <2>1, <2>2
  <2>3. ASSUME NEW v \in Offered(Index(c)), NEW l \in {"download", "hash"},
               client' = [client EXCEPT ![c].ver = v, ![c].at = l]
        PROVE ClientInv'
    <3>1. client' = [client EXCEPT ![c] = [r EXCEPT !.ver = v, !.at = l]]
      BY <1>a, <2>3 DEF ClientInv
    <3>2. GoodProcess([r EXCEPT !.ver = v, !.at = l], rec)
      BY <1>7, <1>a DEF Pick, At, Offered, Index, GoodProcess, Process, Places
    <3> QED
      BY <1>b, <1>e, <2>1, <3>1, <3>2
  <2> QED
    BY <1>7, <2>2, <2>3 DEF Pick
<1>8. CASE Download(c)
  <2>1. CASE Quit(c) /\ UNCHANGED tgz
    BY <1>8, <1>c, <1>e, <2>1 DEF Download, cacheVars
  <2>2. CASE /\ client' = [Disturbed(c, "copy") EXCEPT ![c].at = "copy"]
             /\ tgz' = [tgz EXCEPT ![Ver(c)] = Partial]
    <3>1. client' = [Disturbed(c, "copy") EXCEPT ![c] = [r EXCEPT !.at = "copy"]]
      BY <2>2 DEF Disturbed
    <3>2. GoodProcess([r EXCEPT !.at = "copy"], rec)
      BY <1>8, <1>a DEF Download, At, GoodProcess, Process, Places
    <3>3. Processes
      BY <1>f, <3>1, <3>2
    <3> QED
      BY <1>0, <1>8, <1>a, <2>2, <3>3
         DEF Download, ClientInv, cacheVars, Ver, Process, Processes
  <2> QED
    BY <1>8, <2>1, <2>2 DEF Download
<1>9. CASE Copy(c)
  <2>1. \A v \in Version : files[v] \in Publisher \union {NoFile}
    BY DEF StoreInv, StoreTypeOK, Record
  <2>2. tgz' \in [Version -> Publisher \union {NoFile, Partial}]
    BY <1>9, <1>a, <2>1 DEF Copy, ClientInv, Ver, Process
  <2>3. CASE client' = [client EXCEPT ![c].at = "hash", ![c].stale = FALSE]
    <3>1. client' = [client EXCEPT ![c] = [r EXCEPT !.at = "hash", !.stale = FALSE]]
      BY <1>a, <2>3 DEF ClientInv
    <3>2. GoodProcess([r EXCEPT !.at = "hash", !.stale = FALSE], rec)
      BY <1>9, <1>a DEF Copy, At, GoodProcess, Process, Places
    <3>3. Processes
      BY <1>b, <3>1, <3>2
    <3> QED
      BY <1>0, <1>9, <2>2, <3>3 DEF Copy, ClientInv, cacheVars, Processes
  <2>4. CASE client' = [Disturbed(c, "copy") EXCEPT ![c] = Fresh]
    <3>1. Processes
      BY <1>a, <1>f, <2>4
    <3> QED
      BY <1>0, <1>9, <2>2, <3>1 DEF Copy, ClientInv, cacheVars, Processes
  <2> QED
    BY <1>9, <2>3, <2>4 DEF Copy
<1>10. CASE Hash(c)
  <2>1. GoodProcess([r EXCEPT !.at = "verified"], rec)
    BY <1>10, <1>a DEF Hash, At, GoodProcess, Process, Places
  <2>2. Processes
    BY <1>10, <1>b, <1>c, <1>d, <2>1 DEF Hash
  <2>3. SameFiles
    BY <1>10 DEF Hash, cacheVars, fetchVars
  <2> QED
    BY <1>e, <2>2, <2>3
<1>11. CASE StatDir(c)
  <2>1. \A l \in {"mkdir", "fetched"} : GoodProcess([r EXCEPT !.at = l], rec)
    BY <1>11, <1>a DEF StatDir, At, GoodProcess, Process, Places
  <2>2. Processes
    BY <1>11, <1>b, <1>c, <1>d, <2>1 DEF StatDir
  <2>3. SameFiles
    BY <1>11 DEF StatDir, cacheVars, fetchVars
  <2> QED
    BY <1>e, <2>2, <2>3
<1>12. CASE EnsureDir(c)
  <2>1. GoodProcess([r EXCEPT !.at = "extract"], rec)
    BY <1>12, <1>a DEF EnsureDir, At, GoodProcess, Process, Places
  <2>2. Processes
    BY <1>12, <1>b, <1>c, <1>d, <2>1 DEF EnsureDir
  <2>3. dir' \in [Version -> Publisher \union {NoFile, Partial}]
    BY <1>12, <1>a DEF EnsureDir, ClientInv, Ver, Process
  <2> QED
    BY <1>0, <1>12, <2>2, <2>3 DEF EnsureDir, ClientInv, cacheVars, Processes
<1>13. CASE Extract(c)
  <2>1. GoodProcess([r EXCEPT !.at = "fetched", !.stale = FALSE], rec)
    BY <1>13, <1>a DEF Extract, At, GoodProcess, Process, Places
  <2>2. ASSUME client' = [client EXCEPT ![c].at = "fetched", ![c].stale = FALSE]
        PROVE client' = [client EXCEPT ![c] = [r EXCEPT !.at = "fetched", !.stale = FALSE]]
    BY <1>a, <2>2 DEF ClientInv
  <2>3. Processes
    BY <1>13, <1>b, <1>h, <2>1, <2>2 DEF Extract
  <2>4. dir' \in [Version -> Publisher \union {NoFile, Partial}]
    BY <1>13, <1>a DEF Extract, ClientInv, Ver, Process
  <2> QED
    BY <1>0, <1>13, <2>3, <2>4 DEF Extract, ClientInv, cacheVars, Processes
<1>14. CASE Exit(c)
  <2>1. Processes
    BY <1>14, <1>c, <1>h DEF Exit
  <2> QED
    BY <1>14, <1>e, <2>1 DEF Exit, cacheVars, fetchVars
<1> QED
  BY <1>1, <1>2, <1>3, <1>4, <1>5, <1>6, <1>7, <1>8, <1>9, <1>10, <1>11, <1>12, <1>13, <1>14
     DEF ClientStep

\* Every step of the registry and its clients preserves the invariant.
LEMMA ClientInvStep == StoreInv /\ ClientInv /\ [Next]_vars => ClientInv'
<1> SUFFICES ASSUME StoreInv, ClientInv, [Next]_vars PROVE ClientInv'
  OBVIOUS
<1>1. ASSUME NEW c \in Client, ClientStep(c) PROVE ClientInv'
  BY <1>1, ClientStepInv
<1>2. CASE UNCHANGED clientVars
  <2>1. \A v \in Version : rec[v] # NoFile => rec'[v] = rec[v]
    BY ClientLeavesStore, RecordGrows
  <2>2. UNCHANGED <<client, cached, tmp, tgz, dir>>
    BY <1>2 DEF clientVars, cacheVars, fetchVars
  <2>3. /\ \A f : GoodFile(f, rec) => GoodFile(f, rec')
        /\ \A r : GoodProcess(r, rec) => GoodProcess(r, rec')
    BY <2>1, PastStays
  <2> QED
    BY <2>2, <2>3 DEF ClientInv
<1> QED
  BY <1>1, <1>2 DEF Next, vars

\* The invariant of the clients.
LEMMA ClientInvariant == Spec => [](StoreInv /\ ClientInv)
<1>1. Init => ClientInv
  BY FreshGood DEF Init, ClientInv, GoodFile, GoodProcess
<1> QED
  BY <1>1, StoreInvariant, ClientInvStep, PTL DEF Spec

\* Processes and cache files keep their types: no process ever works with what
\* DirIndexCache.Load could not decode.
THEOREM ClientTypes == Spec => []TypeOK
<1>1. ClientInv => TypeOK
  BY DEF ClientInv, GoodFile, Past, TypeOK
<1> QED
  BY <1>1, ClientInvariant, PTL

\* Client.Versions answers with the index the server had when it handled the
\* request, whatever other processes do to the cache file meanwhile.
THEOREM AnswerServed == Spec => []AnswerIsServed
<1>1. ClientInv => AnswerIsServed
  BY DEF ClientInv, GoodProcess, AnswerIsServed, At, Index
<1> QED
  BY <1>1, ClientInvariant, PTL

\* DirIndexCache.Load returns a miss or an index the server has had, although
\* all processes write through one temporary file name.
THEOREM CachePast == Spec => []CacheIsPast
<1>1. ClientInv => CacheIsPast
  BY DEF ClientInv, GoodFile, Past, CacheIsPast, CacheContent
<1> QED
  BY <1>1, ClientInvariant, PTL

\* VerifyChecksum in fetchRegistryCandidate lets only the archive through that
\* the registry published for the version, however old the index is.
THEOREM ChecksumAcceptsPublished == Spec => AcceptedIsPublished
<1>1. ASSUME ClientInv, [Next]_vars, NEW c \in Client, At(c, "hash"), At(c, "verified")'
      PROVE tgz[Ver(c)] = rec[Ver(c)]
  <2>1. ClientStep(c)
    <3>1. ASSUME NEW d \in Client, ClientStep(d), d # c PROVE client'[c].at = client[c].at
      <4>1. client[c] \in Process /\ client \in [Client -> Process]
        BY <1>1 DEF ClientInv
      <4>2. CASE StoreRename(d)
        <5>1. CASE tmp = Unlinked
          BY <3>1, <4>1, <4>2, <5>1 DEF StoreRename, Goto
        <5>2. CASE tmp # Unlinked
          <6>1. PICK f \in {"none", "tmp", "cached", "lost"} :
                  client'[c] = [client[c] EXCEPT !.fd = f, !.at = IF c = d THEN "pick" ELSE @]
            BY <4>1, <4>2, <5>2 DEF StoreRename, Process
          <6> QED
            BY <3>1, <4>1, <6>1 DEF Process
        <5> QED
          BY <5>1, <5>2
      <4>3. CASE Download(d)
        <5>1. CASE Quit(d)
          BY <3>1, <4>1, <5>1 DEF Quit
        <5>2. CASE client' = [Disturbed(d, "copy") EXCEPT ![d].at = "copy"]
          BY <3>1, <4>1, <5>2 DEF Disturbed, Process
        <5> QED
          BY <4>3, <5>1, <5>2 DEF Download
      <4>4. CASE Copy(d)
        BY <3>1, <4>1, <4>4 DEF Copy, Disturbed, Process
      <4>5. CASE Extract(d) \/ Exit(d)
        <5>1. ASSUME Abandon(d) PROVE client'[c].at = client[c].at
          BY <3>1, <4>1, <5>1 DEF Abandon, Disturbed, Process
        <5>2. ASSUME Quit(d) PROVE client'[c].at = client[c].at
          BY <3>1, <4>1, <5>2 DEF Quit
        <5> QED
          BY <3>1, <4>1, <4>5, <5>1, <5>2 DEF Extract, Exit
      <4>6. CASE \/ Load(d) \/ RequestFails(d) \/ Request(d) \/ StoreOpen(d) \/ StoreWrite(d)
                 \/ Pick(d) \/ Hash(d) \/ StatDir(d) \/ EnsureDir(d)
        BY <3>1, <4>1, <4>6 DEF Load, RequestFails, Request, StoreOpen, StoreWrite, Pick, Hash,
                                StatDir, EnsureDir, Goto, Quit
      <4> QED
        BY <3>1, <4>2, <4>3, <4>4, <4>5, <4>6 DEF ClientStep
    <3> QED
      BY <1>1, <3>1 DEF Next, vars, clientVars, At
  <2>2. Hash(c)
    BY <1>1, <2>1 DEF ClientStep, At, Load, RequestFails, Request, StoreOpen, StoreWrite,
           StoreRename, Pick, Download, Copy, Hash, StatDir, EnsureDir, Extract, Exit, Quit, Abandon,
           Disturbed, Fresh, ClientInv, Process
  <2>3. ChecksumOK(c)
    BY <1>1, <2>2 DEF Hash, Quit, Fresh, At, ClientInv
  <2> QED
    BY <1>1, <2>3 DEF ChecksumOK, ClientInv, GoodProcess, Past, At, Ver, Index, Process
<1>2. ClientInv /\ [Next]_vars =>
        [\A c \in Client : At(c, "hash") /\ At(c, "verified")' => tgz[Ver(c)] = rec[Ver(c)]]_vars
  BY <1>1
<1> QED
  BY <1>2, ClientInvariant, PTL DEF Spec, AcceptedIsPublished
==============================================================================
