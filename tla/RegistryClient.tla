--------------------------- MODULE RegistryClient ----------------------------
(***************************************************************************)
(* The registry client (internal/registry/client.go), its on-disk index    *)
(* cache (cache.go) and the fetch of a dependency                          *)
(* (internal/pkgmgr/source_registry.go), run by several processes that     *)
(* share one cache directory, against the server of RegistryStore.  A      *)
(* process may be killed at any point.                                     *)
(***************************************************************************)
EXTENDS RegistryStore

CONSTANTS Client,
          Miss,       \* no usable cache entry
          Blank,      \* a file opened with O_TRUNC and not written yet
          Garbled,    \* bytes of two writers in one file
          Unlinked,   \* no such file
          Partial     \* an archive or a directory that is not complete

\* An index entry: the checksum of each version and its yanked flag.
Entry == [Version -> [sum : Publisher \union {NoFile}, yanked : BOOLEAN]]

ASSUME PartialAssumption == Partial \notin Publisher \union {NoFile}
ASSUME TokenAssumption == \A t \in {Miss, Unlinked, Blank, Garbled} : t \notin Entry

VARIABLES client,       \* each process
          cached, tmp,  \* the index cache file and its one ".tmp" name
          tgz, dir      \* per version: package.tgz and unpacked/

cacheVars == <<cached, tmp>>
fetchVars == <<tgz, dir>>
clientVars == <<client, cacheVars, fetchVars>>
vars == <<storeVars, clientVars>>

\* at: where the process is; index: the cached entry it loaded, then the answer
\* it uses; served: what the server answered from; ver: the version it fetches;
\* fd: the file its cache writer has open, by the name that leads to it;
\* stale: completing what it writes no longer completes the file of that name.
Fresh == [at |-> "idle", index |-> Miss, served |-> Miss,
          ver |-> CHOOSE v \in Version : TRUE, fd |-> "none", stale |-> FALSE]

At(c, l) == client[c].at = l
Goto(c, l) == client' = [client EXCEPT ![c].at = l]
Quit(c) == client' = [client EXCEPT ![c] = Fresh]
Index(c) == client[c].index
Ver(c) == client[c].ver

\* The entry GET /v1/crates/<name> returns, and its ETag.
IndexEntry == [v \in Version |-> [sum |-> rec[v], yanked |-> v \in yanked]]
Published == \E v \in Version : rec[v] # NoFile

\* Mutant: the ETag does not cover the yanked flags.
ETagOfSums(e) == [v \in Version |-> e[v].sum]
ETag(e) == [v \in Version |-> <<e[v].sum, e[v].yanked>>]

\* filterYanked
Offered(e) == {v \in Version : e[v].sum # NoFile /\ ~e[v].yanked}

Init == /\ StoreInit
        /\ client = [c \in Client |-> Fresh]
        /\ cached = Unlinked
        /\ tmp = Unlinked
        /\ tgz = [v \in Version |-> NoFile]
        /\ dir = [v \in Version |-> NoFile]

------------------------------------------------------------------------------
(* DirIndexCache *)

\* Mutant: a file that does not decode is taken for an entry without versions.
EmptyOnError ==
    CASE cached = Unlinked -> Miss
      [] cached \in {Blank, Garbled} -> [v \in Version |-> [sum |-> NoFile, yanked |-> FALSE]]
      [] OTHER -> cached

\* Mutant: whatever is in the file is used.
AnyContent == IF cached = Unlinked THEN Miss ELSE cached

\* Load: a missing or undecodable file is a miss.
CacheContent == IF cached \in {Unlinked, Blank, Garbled} THEN Miss ELSE cached

\* Store: one temporary name for all processes, created or truncated.
StoreOpen(c) ==
    /\ At(c, "store")
    /\ tmp' = Blank
    /\ client' = [client EXCEPT ![c].fd = "tmp", ![c].at = "write"]
    /\ UNCHANGED <<storeVars, cached, fetchVars>>

\* Bytes of another entry in the file may stick out behind the ones written.
Written(c, old) == IF old \in {Blank, Index(c)} THEN {Index(c)} ELSE {Index(c), Garbled}

\* The open file may have been renamed to the cache file, or replaced there.
StoreWrite(c) ==
    /\ At(c, "write")
    /\ \/ /\ client[c].fd = "tmp"
          /\ tmp' \in Written(c, tmp)
          /\ UNCHANGED cached
       \/ /\ client[c].fd = "cached"
          /\ cached' \in Written(c, cached)
          /\ UNCHANGED tmp
       \/ /\ client[c].fd = "lost"
          /\ UNCHANGED cacheVars
    /\ client' = [client EXCEPT ![c].fd = "none", ![c].at = "link"]
    /\ UNCHANGED <<storeVars, fetchVars>>

\* The rename moves whatever the temporary name leads to; a failure is ignored.
StoreRename(c) ==
    /\ At(c, "link")
    /\ \/ /\ tmp # Unlinked
          /\ cached' = tmp
          /\ tmp' = Unlinked
          /\ client' = [d \in Client |->
               [client[d] EXCEPT
                  !.fd = CASE @ = "tmp" -> "cached" [] @ = "cached" -> "lost" [] OTHER -> @,
                  !.at = IF d = c THEN "pick" ELSE @]]
       \/ /\ tmp = Unlinked
          /\ Goto(c, "pick")
          /\ UNCHANGED cacheVars
    /\ UNCHANGED <<storeVars, fetchVars>>

------------------------------------------------------------------------------
(* Client.Versions and Client.CachedVersions *)

Load(c) ==
    /\ At(c, "idle")
    /\ \E l \in {"request"} \union IF CacheContent = Miss THEN {} ELSE {"pick"} :  \* --offline
         client' = [client EXCEPT ![c].index = CacheContent, ![c].at = l]
    /\ UNCHANGED <<storeVars, cacheVars, fetchVars>>

\* The request fails; the last known index is used if there is one.
RequestFails(c) ==
    /\ At(c, "request")
    /\ IF Index(c) = Miss THEN Quit(c) ELSE Goto(c, "pick")
    /\ UNCHANGED <<storeVars, cacheVars, fetchVars>>

\* The If-None-Match header sent names the entry the server has.
NotModified(c) == Index(c) # Miss /\ ETag(Index(c)) = ETag(IndexEntry)

\* handleIndex: 404, 304 or 200.
Request(c) ==
    /\ At(c, "request")
    /\ up /\ Locked
    /\ \/ /\ ~Published
          /\ Quit(c)
       \/ /\ Published /\ NotModified(c)
          /\ client' = [client EXCEPT ![c].served = IndexEntry, ![c].at = "pick"]
       \/ /\ Published /\ ~NotModified(c)
          /\ client' = [client EXCEPT ![c].served = IndexEntry, ![c].index = IndexEntry,
                                      ![c].at = "store"]
    /\ UNCHANGED <<storeVars, cacheVars, fetchVars>>

------------------------------------------------------------------------------
(* registrySource.fetchRegistryCandidate *)

\* The resolver picks a version; package.tgz may be there already.
Pick(c) ==
    /\ At(c, "pick")
    /\ \/ /\ Offered(Index(c)) = {}
          /\ Quit(c)
       \/ \E v \in Offered(Index(c)) :
            \/ /\ tgz[v] = NoFile
               /\ client' = [client EXCEPT ![c].ver = v, ![c].at = "download"]
            \/ /\ tgz[v] = NoFile                 \* --offline
               /\ Quit(c)
            \/ /\ tgz[v] # NoFile
               /\ client' = [client EXCEPT ![c].ver = v, ![c].at = "hash"]
    /\ UNCHANGED <<storeVars, cacheVars, fetchVars>>

\* What the other processes at l write for the same version is disturbed by c.
Disturbed(c, l) ==
    [d \in Client |-> IF d = c THEN client[d]
                      ELSE [client[d] EXCEPT !.stale = @ \/ (At(d, l) /\ Ver(d) = Ver(c))]]

\* DownloadTarball creates or truncates package.tgz under its final name; the
\* download counter the server saves with the record is left out.
Download(c) ==
    /\ At(c, "download")
    /\ \/ /\ up /\ Locked /\ rec[Ver(c)] # NoFile /\ files[Ver(c)] # NoFile
          /\ tgz' = [tgz EXCEPT ![Ver(c)] = Partial]
          /\ client' = [Disturbed(c, "copy") EXCEPT ![c].at = "copy"]
       \/ /\ Quit(c)                              \* any error before the body
          /\ UNCHANGED tgz
    /\ UNCHANGED <<storeVars, cacheVars, dir>>

\* The body arrives completely, or the file is removed.
Copy(c) ==
    /\ At(c, "copy")
    /\ \/ /\ tgz' = IF client[c].stale THEN tgz ELSE [tgz EXCEPT ![Ver(c)] = files[Ver(c)]]
          /\ client' = [client EXCEPT ![c].at = "hash", ![c].stale = FALSE]
       \/ /\ tgz' = [tgz EXCEPT ![Ver(c)] = NoFile]
          /\ client' = [Disturbed(c, "copy") EXCEPT ![c] = Fresh]
    /\ UNCHANGED <<storeVars, cacheVars, dir>>

\* Mutant: the archive is used without a look at its checksum.
ChecksumSkipped(c) == tgz[Ver(c)] # NoFile

\* VerifyChecksum against the index the version was picked from.
ChecksumOK(c) == tgz[Ver(c)] = Index(c)[Ver(c)].sum

Hash(c) ==
    /\ At(c, "hash")
    /\ IF ChecksumOK(c) THEN Goto(c, "verified") ELSE Quit(c)
    /\ UNCHANGED <<storeVars, cacheVars, fetchVars>>

\* An existing unpacked/ is used as it is, if a manifest is in it.
StatDir(c) ==
    /\ At(c, "verified")
    /\ \/ /\ dir[Ver(c)] = NoFile
          /\ Goto(c, "mkdir")
       \/ /\ dir[Ver(c)] # NoFile
          /\ Goto(c, "fetched")
       \/ /\ dir[Ver(c)] = Partial
          /\ Quit(c)
    /\ UNCHANGED <<storeVars, cacheVars, fetchVars>>

\* Another process may have made, or even filled, the directory since; its files
\* are truncated one after the other.  An error leaves the directory behind.
EnsureDir(c) ==
    /\ At(c, "mkdir")
    /\ \/ /\ dir' = [dir EXCEPT ![Ver(c)] = Partial]
          /\ Goto(c, "extract")
       \/ /\ dir' \in {dir, [dir EXCEPT ![Ver(c)] = IF @ = NoFile THEN Partial ELSE @]}
          /\ Quit(c)
    /\ UNCHANGED <<storeVars, cacheVars, tgz>>

\* The process gives up in the middle of a file that others may have finished.
Abandon(c) == client' = [Disturbed(c, "extract") EXCEPT ![c] = Fresh]

\* Another process is extracting too, or has left a file truncated.
Shared(c) == \/ client[c].stale
             \/ \E d \in Client \ {c} : At(d, "extract") /\ Ver(d) = Ver(c)

\* Reads package.tgz again; an error leaves what has been written so far.
Extract(c) ==
    /\ At(c, "extract")
    /\ \/ /\ tgz[Ver(c)] \notin {NoFile, Partial}
          /\ \E d \in {tgz[Ver(c)]} \union IF Shared(c) THEN {Partial} ELSE {} :
               dir' = [dir EXCEPT ![Ver(c)] = d]
          /\ client' = [client EXCEPT ![c].at = "fetched", ![c].stale = FALSE]
       \/ /\ Abandon(c)
          /\ UNCHANGED dir
    /\ UNCHANGED <<storeVars, cacheVars, tgz>>

\* The process ends after the fetch, or is killed anywhere.
Exit(c) ==
    /\ ~At(c, "idle")
    /\ IF At(c, "extract") THEN Abandon(c) ELSE Quit(c)
    /\ UNCHANGED <<storeVars, cacheVars, fetchVars>>

ClientStep(c) == \/ Load(c) \/ RequestFails(c) \/ Request(c)
                 \/ StoreOpen(c) \/ StoreWrite(c) \/ StoreRename(c)
                 \/ Pick(c) \/ Download(c) \/ Copy(c) \/ Hash(c)
                 \/ StatDir(c) \/ EnsureDir(c) \/ Extract(c) \/ Exit(c)

Next == \/ StoreNext /\ UNCHANGED clientVars
        \/ \E c \in Client : ClientStep(c)

Spec == Init /\ [][Next]_vars

------------------------------------------------------------------------------
Places == {"idle", "request", "store", "write", "link", "pick", "download", "copy", "hash",
        "verified", "mkdir", "extract", "fetched"}

Process == [at : Places, index : Entry \union {Miss}, served : Entry \union {Miss},
            ver : Version, fd : {"none", "tmp", "cached", "lost"}, stale : BOOLEAN]

\* The processes and the files of the shared cache have their types.
TypeOK ==
    /\ client \in [Client -> Process]
    /\ cached \in Entry \union {Unlinked, Blank, Garbled}
    /\ tmp \in Entry \union {Unlinked, Blank, Garbled}
    /\ tgz \in [Version -> Publisher \union {NoFile, Partial}]
    /\ dir \in [Version -> Publisher \union {NoFile, Partial}]

\* An answer that came over the network is the index the server had when it
\* handled the request, also when a 304 replays the cached entry.
AnswerIsServed ==
    \A c \in Client : At(c, "pick") /\ client[c].served # Miss => Index(c) = client[c].served

\* A cache entry that loads is an index the server has had: what two writers
\* of the one temporary file leave behind is that or a miss.
CacheIsPast ==
    CacheContent # Miss =>
      /\ \E v \in Version : CacheContent[v].sum # NoFile
      /\ \A v \in Version : CacheContent[v].sum # NoFile => CacheContent[v].sum = rec[v]

\* What the checksum lets through is the archive the registry published for the
\* version, however old the index is that names it, and whatever killed or
\* concurrent downloads left under the file's name.
AcceptedIsPublished ==
    [][\A c \in Client : At(c, "hash") /\ At(c, "verified")' =>
         tgz[Ver(c)] = rec[Ver(c)]]_vars

\* The directory a fetch returns is the unpacked, verified archive.
FetchedIsWhole ==
    \A c \in Client : At(c, "fetched") => dir[Ver(c)] = Index(c)[Ver(c)].sum
==============================================================================
