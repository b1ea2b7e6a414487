---------------------------- MODULE RegistryStore ----------------------------
(***************************************************************************)
(* The registry server and its file-backed store for one package           *)
(* (internal/registry/server.go).  An archive is named after the upload    *)
(* that brought it and stands for its checksum.  The server may crash      *)
(* between any two writes and is restarted without any repair.             *)
(***************************************************************************)
EXTENDS Integers

CONSTANTS Publisher, VerOf, Version, NoFile,
          Nobody,       \* fs.mu is free
          MaxCrashes

ASSUME VersionAssumption == Version # {}
ASSUME VerOfAssumption == VerOf \in [Publisher -> Version]
ASSUME NoFileAssumption == NoFile \notin Publisher
ASSUME NobodyAssumption == Nobody \notin Publisher
ASSUME MaxCrashesAssumption == MaxCrashes \in Nat

VARIABLES up,       \* the server process runs
          mu,       \* FileStore.mu: the publisher holding it, or Nobody
          ppc,      \* where each publish request is
          loaded,   \* the record a publish read, as it will write it back
          rec,      \* package.json: the checksum of each version, or NoFile
          yanked,   \* package.json: the yanked versions
          files,    \* <version>.tgz
          acked,    \* publishers that got 201
          refused,  \* publishers that got "version already exists"
          crashes

storeVars == <<up, mu, ppc, loaded, rec, yanked, files, acked, refused, crashes>>

PublisherAt == {"idle", "uploaded", "rename", "save", "reply"}
Record == [Version -> Publisher \union {NoFile}]

StoreTypeOK == /\ up \in BOOLEAN
               /\ mu \in Publisher \union {Nobody}
               /\ ppc \in [Publisher -> PublisherAt]
               /\ loaded \in [Publisher -> Record]
               /\ rec \in Record
               /\ yanked \in SUBSET Version
               /\ files \in Record
               /\ acked \in SUBSET Publisher
               /\ refused \in SUBSET Publisher
               /\ crashes \in 0 .. MaxCrashes

Empty == [v \in Version |-> NoFile]

StoreInit == /\ up = TRUE
             /\ mu = Nobody
             /\ ppc = [p \in Publisher |-> "idle"]
             /\ loaded = [p \in Publisher |-> Empty]
             /\ rec = Empty
             /\ yanked = {}
             /\ files = Empty
             /\ acked = {}
             /\ refused = {}
             /\ crashes = 0

------------------------------------------------------------------------------
(* handlePublish and FileStore.Publish *)

\* The request passes its checks and its body lies in tmp/, or it is rejected
\* and leaves nothing.  An upload that failed may be tried again.
Upload(p) == /\ up
             /\ ppc[p] = "idle"
             /\ p \notin acked
             /\ ppc' = [ppc EXCEPT ![p] = "uploaded"]
             /\ refused' = refused \ {p}
             /\ UNCHANGED <<up, mu, loaded, rec, yanked, files, acked, crashes>>

\* The upload is rejected, or the connection is lost: tmpPath is removed.
Reject(p) == /\ ppc[p] = "uploaded"
             /\ ppc' = [ppc EXCEPT ![p] = "idle"]
             /\ UNCHANGED <<up, mu, loaded, rec, yanked, files, acked, refused, crashes>>

\* Mutant: the store's mutex is not taken.
Unlocked == TRUE

\* Neither the record nor the file system knows the version.
MayPublish(p) == rec[VerOf[p]] = NoFile /\ files[VerOf[p]] = NoFile

Locked == mu = Nobody

\* Takes fs.mu, loads the record and looks for the version.
Lookup(p) ==
    /\ ppc[p] = "uploaded"
    /\ Locked
    /\ \/ /\ MayPublish(p)
          /\ mu' = p
          /\ loaded' = [loaded EXCEPT ![p] = rec]
          /\ ppc' = [ppc EXCEPT ![p] = "rename"]
          /\ UNCHANGED refused
       \/ /\ ~MayPublish(p)
          /\ ppc' = [ppc EXCEPT ![p] = "idle"]
          /\ refused' = refused \union {p}
          /\ UNCHANGED <<mu, loaded>>
    /\ UNCHANGED <<up, rec, yanked, files, acked, crashes>>

\* The archive is renamed into place.
RenameTarball(p) ==
    /\ ppc[p] = "rename"
    /\ \/ /\ files' = [files EXCEPT ![VerOf[p]] = p]
          /\ ppc' = [ppc EXCEPT ![p] = "save"]
          /\ UNCHANGED mu
       \/ /\ ppc' = [ppc EXCEPT ![p] = "idle"]   \* the rename fails
          /\ mu' = Nobody
          /\ UNCHANGED files
    /\ UNCHANGED <<up, loaded, rec, yanked, acked, refused, crashes>>

\* Mutant: the removal is deferred and not called off when the save succeeds.
SaveThenRemove(p) ==
    /\ ppc[p] = "save"
    /\ files' = [files EXCEPT ![VerOf[p]] = NoFile]
    /\ \/ /\ rec' = [loaded[p] EXCEPT ![VerOf[p]] = p]
          /\ ppc' = [ppc EXCEPT ![p] = "reply"]
          /\ UNCHANGED mu
       \/ /\ ppc' = [ppc EXCEPT ![p] = "idle"]
          /\ mu' = Nobody
          /\ UNCHANGED rec
    /\ UNCHANGED <<up, loaded, yanked, acked, refused, crashes>>

\* os.Remove of the archive that was renamed into place; its error is ignored.
RemoveTarball(p) == files' \in {files, [files EXCEPT ![VerOf[p]] = NoFile]}

\* saveRecordLocked writes package.json.tmp and renames it over package.json;
\* when either fails the archive is removed again, if it can be.
SaveRecord(p) ==
    /\ ppc[p] = "save"
    /\ \/ /\ rec' = [loaded[p] EXCEPT ![VerOf[p]] = p]
          /\ ppc' = [ppc EXCEPT ![p] = "reply"]
          /\ UNCHANGED <<mu, files>>
       \/ /\ RemoveTarball(p)
          /\ ppc' = [ppc EXCEPT ![p] = "idle"]
          /\ mu' = Nobody
          /\ UNCHANGED rec
    /\ UNCHANGED <<up, loaded, yanked, acked, refused, crashes>>

\* fs.mu is released and 201 is sent.
Reply(p) == /\ ppc[p] = "reply"
            /\ mu' = Nobody
            /\ acked' = acked \union {p}
            /\ ppc' = [ppc EXCEPT ![p] = "idle"]
            /\ UNCHANGED <<up, loaded, rec, yanked, files, refused, crashes>>

\* handleYank: load, change and save under fs.mu.
ToggleYank(v) == /\ up
                 /\ Locked
                 /\ rec[v] # NoFile
                 /\ yanked' = IF v \in yanked THEN yanked \ {v} ELSE yanked \union {v}
                 /\ UNCHANGED <<up, mu, ppc, loaded, rec, files, acked, refused, crashes>>

\* The process dies: requests end without an answer, files stay as they are.
Crash == /\ up
         /\ crashes < MaxCrashes
         /\ up' = FALSE
         /\ crashes' = crashes + 1
         /\ mu' = Nobody
         /\ ppc' = [p \in Publisher |-> "idle"]
         /\ UNCHANGED <<loaded, rec, yanked, files, acked, refused>>

Restart == /\ ~up
           /\ up' = TRUE
           /\ UNCHANGED <<mu, ppc, loaded, rec, yanked, files, acked, refused, crashes>>

StoreNext == \/ \E p \in Publisher : \/ Upload(p) \/ Reject(p) \/ Lookup(p)
                                     \/ RenameTarball(p) \/ SaveRecord(p) \/ Reply(p)
             \/ \E v \in Version : ToggleYank(v)
             \/ Crash
             \/ Restart

StoreSpec == StoreInit /\ [][StoreNext]_storeVars

------------------------------------------------------------------------------
(* The refinement: a version is published when the record names it, and what
   is published is the file that a download gets. *)

C == INSTANCE Catalogue
       WITH archive <- [v \in Version |-> IF rec[v] = NoFile THEN NoFile ELSE files[v]]

\* Whatever crashes and failed writes do between the two renames, downloads of
\* a version never change, and a publisher that got 201 is never lost.
ImplementsCatalogue == C!CSpec

\* The checksum the index advertises is that of the archive served.
RecordMatchesFile == \A v \in Version : rec[v] # NoFile => files[v] = rec[v]

\* The inductive invariant: the holder of fs.mu has the current record.
Holder ==
    \A p \in Publisher :
      /\ ppc[p] \in {"rename", "save", "reply"} <=> mu = p
      /\ ppc[p] \in {"rename", "save"} => loaded[p] = rec /\ rec[VerOf[p]] = NoFile
      /\ ppc[p] = "rename" => files[VerOf[p]] = NoFile
      /\ ppc[p] = "save" => files[VerOf[p]] = p
      /\ ppc[p] = "reply" => rec[VerOf[p]] = p
      /\ rec[VerOf[p]] # p => p \notin acked
YankedPublished == \A v \in yanked : rec[v] # NoFile
RightVersion == \A v \in Version : rec[v] # NoFile => VerOf[rec[v]] = v

\* FileStore on disk and in memory: every version a record names has the archive
\* it was recorded with, whatever has crashed or failed, and the holder of fs.mu
\* works on the current record.  An archive that no record names may exist: a
\* crash leaves one, and so does a failed save whose removal fails too.
StoreInv == StoreTypeOK /\ RecordMatchesFile /\ Holder /\ YankedPublished /\ RightVersion
==============================================================================
