# A TLA+ model of the Osty toolchain

Osty is a programming language with a toolchain written in Go: a compiler front end, several
back ends, a language server, a package manager with a registry, and a runtime in C. This
directory models the parts that keep state and have to stay right over long sequences of
operations, or under concurrency and failure: the incremental query engine, the front-end queries
it runs, the language server that feeds it, the runtime's task scheduler with its lock-free deque,
the package registry with its client, and the dependency resolver with the lockfile. TLC checks the
modules on small instances; TLAPS proves the safety properties of all of them for every instance
of the constants.

## The system

| Part | State | Operations | Hard because | Here |
|---|---|---|---|---|
| Query engine, `internal/query` | revision, slot table (value, stamps, deps), frame stack, one mutex | `Query.Get/Fetch`, `Input.Set/Clear/Get/Fetch/HasFetch` | a slot is reused on the strength of recorded edges and stamps; bodies branch, panic and nest | modelled, proved |
| Front-end queries, `internal/query/osty` | the engine's slots | `Parse` … `FileDiagnostics`, each with a hash | a hash coarser than what a dependent reads makes results stale | package queries modelled, proved |
| Language server, `internal/lsp` | session flags, document store, workspace index, engine inputs, what was published | `initialize`, `didOpen`, `didChange`, `didClose`, `workspace/symbol`, `shutdown`, `exit` | three copies of a text (disk, buffer, engine input), lists published from one handler for several documents | file and package mode modelled, proved |
| Scheduler, `internal/backend/runtime/osty_runtime.c` | per-worker deques, inject queue, parked, blocked and elastic workers, task groups, handles, channels | spawn, join, group enter and reap, send, receive, close, notify of a blocking wait, process exit | lock-free steals, lost wake-ups, joins that run other tasks, a pool that can fill with blocked tasks | modelled, proved |
| Registry server, `internal/registry/server.go` | `package.json`, tarballs, one mutex per store | publish, yank, index, download | crashes and failed writes between two renames | modelled, proved |
| Registry client and cache, `client.go`, `cache.go`, `pkgmgr/source_registry.go` | index cache file and its temporary, `package.tgz`, `unpacked/` | `Versions` with ETag, `CachedVersions`, `DownloadTarball`, `Store`, fetch of a dependency | several processes share the directory and may be killed | modelled, proved |
| Package manager and lockfile, `internal/pkgmgr`, `internal/lockfile`, `cmd/osty` | dependency graph, vendor directory, `osty.lock` | build, `--locked`, update; solve, vendor, write | backtracking with undo, pins, partial failure of vendoring | registry sources modelled, proved |
| Server request handlers | none | hover, rename, completion … | they only read an analysis | not modelled |
| JSON-RPC transport | none | framing | pure I/O | not modelled |
| Self-host cache | tool builds on disk, named by content | install, resolve | every writer has a name of its own | not modelled |
| Subprocess control | none | one child per call | nothing outlives the call | not modelled |
| Garbage collector | heap | allocate, mark, sweep, move | a heap model of its own | only its pin count |
| Lexer, parser, resolver, checker, linter, IR, back ends, formatter, scaffolding | none that outlives a call | text or tree in, tree or text out | language semantics | not modelled; functions of their input |

The language server owns one engine. A handler writes inputs (`SourceText`, `PackageFiles`,
`PackageMetadata`) and then pulls queries; the engine calls the query bodies, which call the
compiler's passes. All exported operations of the engine hold one mutex from the first line to the
return, and the server handles one message at a time, so the interleavings that matter are those
of *operations*: edits, reads and failures in every order.

The package manager's commands resolve, fetch through the registry client, vendor and write the
lock. Commands of different projects share the user cache directory and talk to one server, whose
publishers are concurrent requests. The scheduler is linked into every compiled program.

## Modules

### Engine, front end, server

`QueryEngine` — the engine. `rev`, `slots` and `stack` are the fields of `Database`; `ctl` is the Go
call stack of the operation that holds the mutex, `ret` the slot the last call returned. Cells are
(query, key) pairs. A body is an arbitrary deterministic program, given as an automaton over
`Point`: at each point it fetches a cell, asks whether an input is set, or returns. `Get`, `Set`,
`Clear`, `GetInput` are what a caller does; `Miss`, `Hit`, `StartWalk`, `WalkDescend`, `WalkNext`,
`WalkStale`, `WalkDone` are `validateOrRunLocked`; `FetchInput`, `FetchMissing`, `HasFetch`, `FetchQuery`,
`FetchReturn` the calls of a body; `FinishBody` the end of `runAndStoreLocked` with the early cutoff
(`StampOf`). A panic (`Panic`) unwinds the calls and releases the mutex, but leaves the frames, because
`popFrame` is not deferred. Deps carry two history fields, `at` and `seen` (the point of the body and
the answer it got), which no guard reads; they make consistency statable.

`AcyclicEngine` — what the engine promises when no body calls itself in a circle (`Owner`, `Rank`), and
the inductive invariant. `EngineProofs` — its proofs.

`FromScratch` — what the engine must compute, said without the engine. `Eval(in, p)` is what a body comes
to from point `p` on the inputs `in`, with nothing remembered: the value, or `Stuck` on an input that is not
set, and the set of bodies that took part. It is a constant given by its equation (`EvalAssumption`), so that
the module can be proved about; the recursive operator that TLC puts in its place is `MCEval`. `HashAssumption` is the contract of a
hash function: answers with equal hashes take the reader to outcomes that *its* readers cannot tell apart.
`FromScratchProofs` — its proofs.

`MCQueryEngine` — an instance with a query whose hash is coarser than its value, a query without a
hash, presence tests, a conditional read that panics, and a diamond. It also holds the reference
evaluator `MCEval`; TLC evaluates `EvalAssumption` and `HashAssumption` on it at the start of each run.

`FrontendQueries` — the bodies and hashes of `internal/query/osty` for one package, running on the
engine module itself. A source is known by two facts, whether it declares the name every file uses
(what the resolver sees) and whether its literals are well typed (what only the checker sees).
The passes are functions of these facts. `Surface` is what `hashResolvedPackage` covers. Parse errors
are left out; they are published without passing any other query. `FrontAssumption` says that the engine is
set up with these cells, bodies and hashes; the configurations give the constants these values.
`FrontendProofs` — its proofs.

`LspServer`, `MCLspServer` — the server. One message is one step, because `Run` handles messages one
after the other. `RefreshDoc` is the whole of `refreshDoc`: analysis, document store, index,
publication, sibling refresh. `docs` is `docStore`, `sourceText` and `packageFiles` the engine's inputs,
`shown` the markers the editor has. The editor may send any message in any order, and `WriteDisk`
(external) changes a file behind the server's back, removes it or makes it unreadable. Texts are
known by the names they declare and use. Two simplifications: no directory is, or lies in, a
workspace root, so the workspace analysis is not reached; and `FileDiagnostics` is a function of the
current inputs, which is what the engine theorem gives up to the hashes (the exception is the
subject of `frontend_cutoff`). The legacy loader is reached only when a sibling cannot be read, and
then fails on the same file, so the fallback ends in single-file analysis. `LspProofs` — its proofs.

### Runtime

`WorkDeque` — what a work-stealing deque promises: a sequence, pushed and popped at the young end,
stolen at the old end, each in one step; a refused push is handed to the inject queue.

`ChaseLevDeque` — `osty_rt_deque_push/pop/steal`, one step per atomic access of `top`, `bottom` or a slot.
`spc`, `stp` and `sx` are the thieves' program counters and locals. The cursors are never reduced, the
ring is. `ImplementsWorkDeque` is the refinement. `ChaseLevProofs` — its proofs; `MCChaseLevDeque` — an instance.

`Scheduler`, `MCScheduler` — the pool. A program (`Loads`) is a body of operations per task: spawn,
join, group and its end, send, receive, poll (a safepoint, where the preemption check may start an elastic worker), close. A thread is a worker, an elastic worker or
main; `frames` is its stack of bodies, more than one deep when a join helps. A deque operation is one
step, which `ChaseLevDeque` justifies; what the code does under one mutex is one step, and a wait on a
condition variable releases the mutex in that step and is woken by the signals the code sends, or
spuriously.
A steal keeps the deque's two steps (see an item, win it or lose it).

A program is well formed (`SchedulerAssumption`) if each spawn makes a task of its own and each call of
`osty_rt_task_group` a group of its own (`MadeOnce`), and if the scopes of a body nest, because the call
returns to where it was made (`ScopesNest`). A frame keeps the group around each of its open scopes
(`outer`, the local of `osty_rt_task_group`) and the group of the thread before it (`prev`, the local of
`osty_sched_run_task`). Any body may spawn into any group, also a child into the group it belongs to. A task that
is attached to a group whose scope has been left is linked into a stack frame that is gone, which is undefined
behaviour: `Attach` lets the program go on, or crash. `SchedulerProofs` — proofs.

### Registry and packages

`Catalogue` — what a registry promises: a version's archive, once served, never changes or goes away, and what
was acknowledged is there.

`RegistryStore` — the server for one package: upload, take `fs.mu`, load the record, rename the tarball,
save the record, answer; yank and unyank; a save that fails removes the tarball again, or tries to
(`RemoveTarball`: the error of `os.Remove` is ignored); `Crash` and `Restart` between any two of them, with no repair at the start. An archive is named after the upload that
brought it and stands for its checksum.

`RegistryClient` — processes over that server: `Versions` with the cached entry's ETag, a 304 that
replays it, the cache's `Store` in its steps (truncate, write, rename, all processes through one `.tmp`
name), `CachedVersions`, and `fetchRegistryCandidate` (download under the final name, checksum,
a look for `unpacked/`, its creation, and extraction into it, as three steps, so that two processes may extract into
one directory and truncate each other's files). `Exit` ends a process after its fetch, or kills it between any two steps.

`RegistryProofs` — proofs for both; `MCRegistry` — the instance.

`PackageManager`, `MCPackageManager` — `Resolve` as a search with an explicit stack: `choices` holds, for each call of
`solve` that still has candidates, the state `clone` saved. `Reuse`, `Reject`, `Open`, `Fetch`,
`FetchFails`, `Exhausted`, `GiveUp` are its paths; then `Solved`, the topological order with its own stack
of calls (`visits`, `TopoVisit` is one turn of `selfPkgTopoVisit`), `CheckLock` (`LockFromGraph`, `--locked`), `VendorOne`
and `Done` (`lockfile.Write`). `VendorFails` ends the command at any entry and leaves what an error can leave of it
(`Remains`: the old entry, nothing, or part of a copy); `LockFails` leaves the old lockfile or an empty one. The index starts as any of `InitialOffers`. Requirements are sets of admitted versions. The registry changes between commands
(`RegistryChanges`) and fetches fail (`FetchFails`); how one fetch goes is the subject of `RegistryClient`. `PackageManagerProofs` — proofs.

## Runs

| Run | States | Checks |
|---|---|---|
| `engine` | 304 k | `TypeOK`; `Consistent`; `NoRedundantRun`; `GetIsFromScratch` (what Get returns is what evaluation without a cache gives); `RunsOnlyDemanded` (no body runs that such an evaluation would not run); `PanicsOnlyIfStuck` (no panic on a missing input that such an evaluation would not meet); `StampOrder`; the inductive invariant `IInv`; `StableWithinRevision`; `GetTerminates` |
| `frontend` | 1.6 M | `ExactBeforeCutoff`, `CheckWithinSurface` |
| `lsp` | 109 k | `HeldErrorsShown`, `EngineSeesBuffers`, `OnePackageView`, `IndexShowsBuffers`; the inductive invariant `IInv`, with `TypeOK` |
| `deque` | 235 k | the inductive invariant `IInv`; `ImplementsWorkDeque` |
| `sched` | 212 k | `TypeOK`; `ScopeWaits` (a scope is left only when every task its body spawned is done); `OwnGroup` (after helping, a thread is back in its own group); `HandlesPinned` (the collector is held off exactly while a task is queued or running); `OnePlace`; the inductive invariants `IInv` and `GroupInv`; `Drains` (the process ends, with every task run unless it was aborted) |
| `registry` | 828 k | `TypeOK`; `StoreInv`; `AnswerIsServed` (also behind a 304); `CacheIsPast` (two writers of one temporary file leave an index the server had, or a miss); `ImplementsCatalogue`; `AcceptedIsPublished` (what passes the checksum is the published archive) |
| `resolve` | 6.8 M | `SolvedIsSolution`, `UnsolvedMeansNone` (against a definition of "solution" that does not search); `PinsKept`; `LeavesFirst`; `ProjectInStep` (after a command that succeeds, vendor directory and lockfile agree, whatever an earlier command left half done); the inductive invariant `OrderInv` |
| `frontend_cutoff`, `lsp_disk`, `sched_blocked`, `sched_late_child`, `fetch_partial` | violations | `DiagnosticsAreCurrent`, `ClosedFilesFromDisk`, `NoStrandedTask`, `NoChildOutlives`, `FetchedIsWhole` |

**Bounds.** `MaxRev` (3) is the number of edits: two edits set both inputs, a third changes or clears one of them,
which is enough for a slot to be cut off, and for one to be found stale behind a dep that is not. With four
edits (2.2 million states) the safety properties hold too; that run, without liveness, is not kept, since all of them are proved. `MaxDead` (2) bounds the frames that panics have left behind
and the reads recorded on the last of them: without it both grow for ever, since a walk may run,
and panic in, a body whose frame is already there. Two are enough for reads and Gets after a panic,
and for a panic on top of another. The front end starts as a client has
seeded it, a package of two files or a scratch buffer without metadata, and two edits follow
(`MaxRev` 6): one edit that is cut off and one that is not; `Pulled` names the queries that are
asked for, and with what these read every query is reached. The server has two sources, a test file and a scratch buffer in one directory; two texts, one
that declares the name and one that uses it; and one change of the disk (`MaxDiskWrites`; 0 in
`lsp_disk`, so that nothing but the server explains a difference).

The deque has a ring of two slots, four items and two thieves: the ring wraps while a thief stands
between its reads and its compare-and-swap, and two thieves and the owner meet at the last item.
The scheduler runs eleven programs on pools of one or two workers with two elastic ones, and deques of one slot,
so that pushes overflow into the inject queue; `sched_blocked` gives the deques room, so that nothing
but the blocking explains what it shows. The registry has two uploads of one version, a server crash
and two client processes, each of which may be killed at any time and starts again. The package
manager has three names with two versions each, 196 sets of manifests (with conflicts, circles and
diamonds), two commands with one change of the registry, and one failed fetch per command
(`MaxFailures`); a command that stops half way may thus be followed by one that has to repair what it left, or to
vendor other versions over it.

**Symmetry** is used where the properties are safety properties and the values are interchangeable:
items and thieves of the deque, publishers and clients of the registry.

**Deadlock** is checked everywhere but for the server, which may stop: after `exit`, or when it
has crashed, no message is handled. Where a bound ends the behaviour (`Rest` of
`PackageManager`) or the process has ended (`Scheduler`) a stuttering action of its own says so, so every other stop is reported.

**Fairness.** `Spec` of `QueryEngine` has weak fairness of the steps of an operation in progress: the
goroutine holds the only lock and waits for nothing. Callers owe nothing. `GetTerminates` follows
from it on the instance; bodies are assumed to return or panic. `Spec` of `Scheduler` has weak fairness
of every thread: the operating system runs each thread that can run. A thread waiting on a condition
variable cannot, and a spurious wake-up is possible but never owed, so a lost wake-up would show in
`Drains`. The deque, the registry and the package
manager have safety properties only; that a search of the resolver comes to its end is checked
as far as absence of deadlock, not as a liveness property.

## What the violations show

* `frontend_cutoff`: `hashResolvedPackage` does not cover the contents of bodies. An edit of the same
  length that changes only the type of a literal leaves `CheckPackage` as it was. `frontend` shows
  how far this goes: results behind the cut-off are right for some text with the same surface, and
  everything before it is exact.
* `lsp_disk`: the engine keeps the text of a closed, unsaved buffer. What the server holds against an open
  document is shown all the same (`HeldErrorsShown`).
* `sched_blocked`: whether a blocked worker needs a substitute is decided when it blocks. Two consumers
  that block a pool of two before the producer is spawned leave it queued for ever, although the
  comment on elastic workers says that blocking workloads cannot deadlock the pool. `sched` shows
  that programs in which a worker is left over are not affected.
* `sched_late_child`: `osty_rt_task_group_reap` takes the list of children once. A child that spawns into the
  group it belongs to while the group is being reaped adds a task that nobody waits for, although
  the comment on the function says "no child outlives its group scope". The check that keeps a group
  from escaping its scope looks at types and does not see a closure that captures it. `sched` has the same programs, and shows that a
  scope still waits for everything its own body has spawned (`ScopeWaits`).
* `fetch_partial`: a directory `unpacked/` that exists is taken for a finished extraction, also when
  another process is still writing it or was killed in it. What the checksum has let through is right
  (`AcceptedIsPublished`); what is unpacked from it is not guarded.

## Known limits of the code that the models contain

These follow from the models and the source; no passing property denies them.

* A panicking query body leaves its frames on `db.stack` (query.go:280). A later Get of that cell is
  reported as a cycle, and reads from outside any body are recorded as its deps. Values stay
  consistent (`Consistent` is proved with panics).
* The dep-walk has no cycle check (query.go:241): an edit that closes a cycle between two computed
  queries makes the engine recurse, holding the mutex. The proofs assume acyclic bodies.
* A test file opened in a package has no source text in the engine; the query panics and the server
  ends (server.go:579, `Crash`).
* Every edit makes a new document object that has published nothing, so the edit that removes the last
  error compares equal to "nothing published" and is not sent (handlers.go:150), although the comment above has only
  a repetition of the previous publish skipped: a marker may stay, none is missing (`HeldErrorsShown`).
* A server crash between the rename of the tarball and the save of the record leaves a tarball that
  no record names, and so does a failed save when the tarball cannot be removed either (server.go:443); the version is
  then refused as existing for ever.
* A download killed half way is found under its final name, fails the checksum, and is not fetched again.
* Where links are not available `Vendor` copies "rather than failing the build", and `removeIfSafe` refuses to remove the copy, whole or broken
  off, so the next command fails until the user deletes it (`Removable`).
* `osty update NAME` drops the lock entries of the names it is given, and not, as its comment says (update.go:22), also
  those of their transitive dependencies, which are resolved with their old pins (`Update`).
* A pinned version whose fetch fails is passed over for the next candidate, and the lock is rewritten (`PinsKept` has
  `lost = 0`). `osty update` removes lock entries before it resolves, so a failed update has lost them. A
  lockfile that `os.WriteFile` could open and not write is empty, and reads as no pins at all (`LockFails`).
* `DirIndexCache.Store` says that a half-written entry never appears (cache.go:64). With two writers it may,
  but it does not parse, and `CacheIsPast` shows that it loads as a miss.

## Proofs

Every theorem is for all values of the constants that satisfy the named assumptions of the modules.

### Engine (`EngineProofs`)

* `EngineInvariant` : `Spec => []IInv`;
* `EngineTypeOK`, `EngineConsistent`, `EngineStampOrder`, `EngineNoRedundantRun` : the invariants of the
  runs, from `IInv`;
* `EngineStable` : `Spec => StableWithinRevision`, an action property, from `IInv` and the actions.

The assumptions (`EngineAssumption`, `NoSlotAssumption`, `AcyclicAssumption`) are those of the code:
inputs are hashed (`RegisterInput` refuses a nil hash), `HasFetch` exists for inputs only, bodies are
deterministic; acyclicity holds of the registered queries, whose call graph is fixed.

`Consistent` is not inductive. A slot that is old today may be declared good tomorrow without
running its body, so the invariant has to speak of slots that are *not* verified. `IInv` says of
every recorded edge, however old, that it is sound: **if the walk's comparison of stamps finds it
unmoved, the read would be answered as it was** (`SoundEdge`). It survives because a query's stamp only
grows, is kept exactly when the hash is, and a new stamp is the current revision, which is later
than every edge recorded before. The rest of `IInv` ties the Go call stack to it: the caller on each
level waits for the level above (`CallChain`, ranks falling), a walk has passed only unmoved deps
(`Walks`), a body has come to its point by reads that are all current (`Runs`), and a returned slot is
verified (`Returned`). There is one lemma per action; actions that move, push or pop the top of the
call stack share `TopMoves`, `TopCalls` and `TopReturns`, those that change the slot table
`InputChanges` and `QueryStored`.

### Engine against evaluation without a cache (`FromScratchProofs`)

* `EngineFromScratch` : `Spec => []GetIsFromScratch`;
* `EngineRunsOnlyDemanded` : `Spec => []RunsOnlyDemanded`;
* `EnginePanicsOnlyIfStuck` : `Spec => []PanicsOnlyIfStuck`.

`EngineConsistent` speaks of one slot and the slots it has read; these speak of the whole evaluation under it. They
rest on `IInv` and on two more assumptions. `EvalAssumption` defines the reference: a function that satisfies
the equation exists whenever every body ends, since ranks fall along calls. `HashAssumption` is what the comment at
`Register` asks of a hash function; it cannot be dropped, because the hash of `ResolvePackage` breaks it and the
run `frontend_cutoff` shows what comes of that. The front end's theorems below do without it.

A slot is *settled* if evaluation from scratch is not stuck and gives its value up to its hash. That every
verified slot is settled goes up the ranks. An induction scheme over data is out of the provers' reach, so the proof takes the
verified, unsettled query of least rank (`LeastNat`, from the well-foundedness of the naturals): all it has read is settled,
and along its recorded reads (`ReadLeads`, `ReadsLead`, again a least counterexample, the first read that leads
astray) each answer leaves the outcome where it was. The other two theorems follow the Go call stack: each activation is
a query that the evaluation of the one below demands (`AllDemanded`). For a walk this is the interesting
half: the deps it has passed are unmoved, so the body, run now, would come to the next one too.

### Front end (`FrontendProofs`)

* `FrontInvariant` : `FrontSpec => [](IInv /\ ListedHaveSource)`;
* `FrontExactBeforeCutoff`, `FrontCheckWithinSurface` : the invariants of the run.

They hold for any number of edits and any set of pulled queries (`MaxRev`, `Pulled`), over the fixed set of
sources, lists and names of the module. `FrontNext` shows that a step of the front end is a step of the engine, so `IInv` is
preserved; `ListedHaveSource` because a client lists a file only once it has a source, and because no step of the engine writes an
input. Both state properties follow from these two without another induction, query after query in the order of the
ranks. The run recorded in a verified slot starts at the entry of its body (`ReachesEntry`), each read of it is answered as it would be now
up to the hash (`ReachesNext`), and only the hash of `ResolvePackage` identifies different values (`HashExact`), so
every other read is answered by exactly what is there (`ReadExact`). `ParseExact`, `LintExact`,
`BuildExact`, `ResolveExact` follow the bodies read by read. `CheckPackage` reads through the coarse hash, and all that is
left is the surface (`CheckPackageWithin`); `DiagnosticsWithin` puts the two together.

### Deque (`ChaseLevProofs`)

* `DequeInvariant` : `Spec => []IInv`;
* `DequeRefinement` : `Spec => ImplementsWorkDeque`, for any ring size, number of thieves and set of items.

The mapping gives the abstract deque the slots from `top` to `End`. A pop reserves an element by
decrementing `bottom` before it knows whether it gets it, so `End` is `bottom` put back while the pop
is undecided, and a push counts from the step that publishes `bottom` (`Unpublished`). A pop of the last
element takes effect at its compare-and-swap, a pop with more than one left at its read of `top`, a
steal at its compare-and-swap. `IInv` says that the cursors are never more than `Cap` apart (`Room`),
no item is queued twice (`QueuedOnce`), nor pushed after it was taken (`FreshUntaken`), what the owner's
locals mean at each place (`OwnerLocal`), and, the heart of it, that a thief whose `tp` still
equals `top` holds the item now in slot `tp` (`ThiefLocal`): the ring cannot have wrapped onto it,
because `push` refuses at `Cap` and `top` never goes back.

### Registry (`RegistryProofs`)

* `StoreInvariant` : `Spec => []StoreInv`;
* `RegistryImplementsCatalogue` : `Spec => ImplementsCatalogue`;
* `ClientTypes`, `AnswerServed`, `CachePast` : the invariants of the run;
* `ChecksumAcceptsPublished` : `Spec => AcceptedIsPublished`.

They hold for any number of publishers, versions, clients and crashes. `StoreInv` needs `Holder`: the
publisher that holds `fs.mu` works on the record that is on disk, and its version has neither record nor, before the
rename, an archive. Nothing is claimed of archives that no record names. The catalogue is the part of the archives that the record
names; a publish takes effect when the record is saved. The client invariant says that every index
anywhere (in the cache, in the temporary file, in a process) is one the server has had (`Past`), which
is enough for its checksums, because the record of a version never changes.

### Language server (`LspProofs`)

* `LspInvariant` : `Spec => []IInv`;
* `LspTypeOK`, `LspHeldErrorsShown`, `LspEngineSeesBuffers`, `LspOnePackageView`, `LspIndexShowsBuffers` : the
  invariants of the run, from `IInv`.

They hold for any documents, directories, texts and names, any changes of the disk and any order of
messages. `LspAssumption` asks that paths are ordered and that the marks for a missing file, an unreadable
one and an unset input are no texts. `HeldErrorsShown` is about documents that have errors; of the empty list it
does not hold (Known limits). By itself it is lost in the
sibling refresh: a list equal to the last one of a document is not sent again, so `IInv` has to say that the
last list is the one the document holds (`LastIsPublished`). `OnePackageView` is lost when a package list
shrinks or an analysis stops at an unreadable file with some inputs already set, so `IInv` has to say that a package
lists files of its own directory only (`ListedInPlace`) and that the engine has the buffer of every open document a
package lists, tests and scratch buffers included (`ListedSeen`). There is one lemma for each
conjunct that `RefreshDoc` can disturb, and one for each other message.

### Scheduler (`SchedulerProofs`)

* `SchedulerInvariant` : `Spec => []IInv`;
* `SchedulerTypeOK`, `SchedulerOnePlace`, `SchedulerOwnGroup`, `SchedulerHandlesPinned` : invariants of the run, from `IInv`;
* `SchedulerGroupInvariant` : `Spec => []GroupInv`;
* `SchedulerScopeWaits` : `Spec => []ScopeWaits`, from `GroupInv`.

They hold for any well-formed programs, any pool, any number of elastic workers, any size of the deques and
any capacities of the channels. What `IInv` adds to the properties:

* where a thread is decides what is on its stack and whether the body on top has an operation left
  (`Located`, `MainRunsRoot`, `InBody`);
* what is queued or running has been spawned, and is done only while its thread has still to broadcast or to
  count it off (`StartedOrDone`);
* a spawn that has happened lies behind, or its thread is about to attach (`SpawnsBehind`): so the task a
  spawn publishes is new, which `OnePlace` needs and which rests on `MadeOnce`;
* each frame has saved the group of the frame below and the group around each scope it has open
  (`GroupsSaved`). `OwnGroup` speaks of the running body only; a join that helps puts other
  bodies on top of it, which open and leave scopes of their own before it goes on.

The counter is compared with the number of tasks queued or running (`Counted`), a finite set because
tasks are spawned one at a time.

`GroupInv` keeps track of children. One that is not done is on its group's list, on the list some
frame is reaping, or published and not attached (`Accounted`); a frame that reaps stands at the end of
a scope (`ReapingAtEnd`); a group that was left is behind that end (`LeftBehind`). That is true of every
program and says nothing of when a scope is left. `ScopeWaits` needs `ChildrenListed`: a task that the
scope's own body has spawned is done, or on the group's list until the reap begins, or on the list of that reap. The body attaches what it spawns
before it goes on, so it is all listed when the reap takes the list. For a child that another body spawns into the group there is no
such order, and `NoChildOutlives`, which is about all children, is false (`sched_late_child`).

Lemmas are by kind of step: steps that only move threads (`MoveKeeps`, `MoveGroups`), steps that
change the top frame (`TopKeeps`, `AdvanceKeeps`, `AdvanceGroups`), a task that is started (`RunKeeps`, `RunGroups`), and
one for each of the other actions.

### Package manager (`PackageManagerProofs`)

* `PackageInvariant` : `Spec => []IInv`;
* `PackageSolvedIsSolution`, `PackageUnsolvedMeansNone`, `PackagePinsKept` : from `IInv`;
* `PackageOrderInvariant` : `Spec => []OrderInv`;
* `PackageLeavesFirst`, `PackageProjectInStep` : from `OrderInv`.

They hold for any finite sets of names and versions, any manifests and offers, and any sequence of commands,
changes of the registry, failed fetches, vendoring that stops half way and lockfiles that cannot be written. A graph in the making is sound (`Sound`) if every node was chosen for a
declared dependency, every pending request is one, and every declared dependency of a node is met or
still pending; `IInv` says so of the current graph and of every copy that `clone` has saved (`KeptSound`), which is
what undoing to a caller needs. `Complete` is the other direction: every solution either extends the
current graph or leads to a candidate that some call still has, unless a fetch failed. `PinsFollowed` is the same for the one
solution in the lockfile. `Needed`, what the root reaches, is defined by closure instead of
recursion, so that no induction over paths is wanted.

`OrderInv` follows the depth-first visits: a call's name is in the graph, what it has still to
visit, has visited or is visiting now are the dependencies it has, and what is in the order
has all its dependencies before it. That the graph has no circle (`NodesSound`, from the ancestors each
request carries) is what lets the visits come to an end; that they do is left to TLC.

TLC has checked `OrderInv` in `resolve`. `IInv` is dearer, since `Complete` quantifies over all assignments: it was
checked to the end on 49 of the worlds (1.6 million states), and is not part of a run.

### Only model-checked

* `GetTerminates` and `Drains`, which are liveness properties under fairness.
* That the instances satisfy the assumptions, in particular that `MCEval` is the `Eval` of `EvalAssumption` and that the
  registered front-end bodies are those of `FrontAssumption`.
* The five violations.

## Not modelled, and why

* Memory weaker than sequential consistency: the deque's accesses are interleaved. The C code's orders
  (`acquire`, `release`, `seq_cst`) are not told apart.
* Power loss: a crash ends a process; what it has written stays written.
* Scheduler: select, timers, cancellation wake-ups, signal-based preemption, the collector's stop
  handshake and a failed thread start are left out; the scan for work before parking is one
  step, which is exact for two workers. `Drains` demands of the tasks at exit only what the exit handler
  waits for: an elastic worker still running a detached task is ended with the process.
* Server: workspace roots (`analyzeWorkspaceViaEngine`) and the two URI conversions (`FromURI`
  decodes fewer escapes than `fileURIPath`).
* Package manager: path and git sources, features, offline and frozen modes, killed commands, torn lockfiles, and an
  `osty update` that cannot write or remove the lockfile before it resolves.
* Registry: search, authorization, the download counter.
* Compiler passes, back ends, formatter and generators: functions of their input, whose correctness
  is the semantics of the language; the collector: a heap model of its own.

## Plan

1. Server, second part: workspace analysis and URI conversions.
2. Scheduler: the collector's stop handshake, select and cancellation.
3. Package manager: path and git sources.
