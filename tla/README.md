# Verification of the code-intelligence engine and server (CIH)

TLA+ modules of the parts of CIH whose correctness depends on the order in which
processes, tasks, callers and failures interleave; TLC configurations that
check them on small instances; and proofs, checked by TLAPS, of what matters
most for instances of every size.

    tlc -workers 2 -config MCAdmission.cfg MCAdmission   # a run
    tlapm AdmissionProofs.tla                       # a proof

`PROJECT.json` is the machine-readable side: components, runs, the source lines
each definition stands for (`map`), the hazards the properties are for, the
mutants that show each property can fail, and the theorems.

Contents: 1. the system, 2. modules and plan, 3. how modules correspond to the
code, 4. the runs, 5. fairness, 6. proofs, 7. what the code does not guarantee,
8. what is not modelled.


## 1. The system

CIH turns source repositories into a graph and serves queries over it. Two kinds
of process share one machine and a handful of files:

- **engine processes** (`cih-engine`, run by `cih` on a command line or started
  by the server) analyze one repository: parse, resolve, write *artifacts*,
  load them into a graph store, *publish* the graph, register the repository;
- **a server process** (`cih-server`, asynchronous Rust over Tokio) answers MCP
  and HTTP requests from the registry, the published graphs and the artifacts,
  and runs engine processes on request.

Nothing but files connects them: `~/.cih/registry.json`, the publication
directory of each repository, `.cih/artifacts/<version>`, and
`.cih/repository.json` in the repository. Any of these processes may be killed
at any time, the server's requests are futures that are dropped at their
operation deadline, and several engines may run at once.

### Components

For each: state, operations, interactions, what is hard, and what makes it
correct. (Status and sources are in `PROJECT.json`.)

**Graph publication** (`cih-engine/src/publication.rs` over the trait
`GraphPublicationStore`; `cih-ladybug/src/publication.rs`,
`cih-falkor/src/publication.rs`).
*State*: the authoritative pointer of a repository (epoch, fencing token), the
fence counter, immutable records per epoch, each with its `previous_epoch`; a
physical graph per epoch. *Operations*: `current`, `allocate_fencing_token`,
`compare_and_swap`, and the coordinator `publish_complete_graph` that calls them
around a long load. *Interactions*: engines race through the store; servers read
`current`. *Hard*: the pointer is read long before the CAS; in the Ladybug
adapter one operation is up to eight system calls under a file lock while
readers take no lock; crashes, failed syncs and power losses fall between them; its
CAS goes on when it cannot read the fence. *Correct*: committed records form one chain with the pointer at its head; a
reader always finds a whole record; tokens are unique; an acknowledged
publication survives; only completely loaded graphs are published; the files
look like the atomic store; every attempt ends.

**Engine run pipeline** (`cih-engine/src/analyze`, `discover.rs`, `versioning.rs`,
`registry.rs`, `cih-core/src/artifacts.rs`).
*State*: version directories, hashes of the last complete emission, the entry in
the registry. *Operations*: emit or reuse a version, publish it, register the
publication, prune the other versions. *Interactions*: runs with runs (a command
line beside the server), runs with requests. *Hard*: a run dies or fails between
any two of these; a version is written in place; cleanup follows publication.
*Correct*: artifacts of the published graph stay on disk; the registry only
mirrors what was committed; disk, pointer, registry and requests agree after
runs that succeed.

**Registry store** (`cih-core/src/registry.rs`).
*State*: `registry.json`, its backup, a lock file, `.cih/repository.json`, a
cached copy per process. *Operations*: load with backup recovery, identity
migration and repair; update transactions; `load_cached`. *Interactions*: all
processes. *Hard*: two files are replaced one after the other and synced at the
end; the revision decides which one to believe; the cache is keyed by file
metadata. *Correct*: acknowledged updates are never lost; the revision orders
what is loaded; a repository has one identity for ever; cached reads are fresh.

**Index scheduler** (`cih-server/src/infrastructure/local_job_scheduler.rs`,
`index_jobs.rs`, `engine_process_runner.rs`).
*State*: status map, map of claimed repositories, cancellation channels (three
locks), a semaphore. *Operations*: submit (admit, coalesce, refuse), the job's
task, cancel, poll. *Hard*: every `await` is an interleaving point and a place
where a submission is dropped at its deadline; a job settles in two steps.
*Correct*: one engine per repository; live jobs within both limits; a live job
can be polled; submissions coalesce onto live jobs; admitted jobs end.

**Single-flight cache** (`infrastructure/cache/single_flight.rs`).
*State*: cached values, a map of flights. *Operation*: `get_or_try_init`. *Hard*:
leaders dropped while they initialise, store or remove; wake-ups between a
follower's look and its wait. *Correct*: one initialiser at a time; none once a
value is cached; failures are not kept; every call returns.

**Artifact cache** (`infrastructure/cache/mtime.rs`, `artifact_repository.rs`,
`artifact_index_store.rs`).
*State*: slots with freshness and weight, per-directory gates, snapshots with
lazily built indexes, index sidecars on disk. *Operations*: lookup, gated load,
insertion with eviction, invalidation, index initialisation. *Hard*: files are
probed, read and rewritten in any order; gates are removed under another lock
than the slots. *Correct*: budgets hold; loads are not duplicated; a fresh slot
holds what the files contain; gates do not pile up; sidecars describe the files
they are accepted for.

**Search index provider** (`infrastructure/search_provider.rs`,
`cache/weighted.rs`).
*State*: flights that are counted by their participants, retained indexes, the
cold lane. *Operations*: `get_or_load`, `run_cold`. *Hard*: the last participant
removes the key after others joined or replaced it; dropped leaders. *Correct*:
one leader; exact counts; no key left behind; every call answered.

**Blocking runtime** (`ports/blocking_runtime.rs`).
*State*: a fair semaphore, closures on the blocking pool. *Operation*:
`run_blocking_heavy`, and `run_cold` in front of it. *Hard*: a closure cannot be
cancelled and outlives its caller; queue timeouts and drops race grants.
*Correct*: permits are conserved; running work within limits; no idle queue;
every call ends, even behind a wedged closure.

**Repository context and MCP transport** (`repo_context_provider.rs`,
`transport/mcp/server.rs`). A request resolves its graph from the pointer and
its corpus from the artifacts directory, in two steps; every tool call has an
operation timeout that drops its future. These two behaviours are in
`PublishPipeline` (requests) and in every module of the server (drops).

**Ladybug graph store and replacement load** (`cih-ladybug/src/lib.rs`, the write
half of `cih-ladybug/src/query.rs`, `cih-engine/src/db.rs`).
*State*: one directory per graph key with version files, their write-ahead logs
and the pointer `CURRENT`; a staging directory per load; the version each reader
has open. *Operations*: a replacement load (stage, load, close, number, move,
flip, collect, clean up); a query that collects, looks at `CURRENT` and opens
another version when it moved; the collection of old versions. *Interactions*:
engines load, servers read, both collect, nobody locks. *Hard*: publication is
several file operations and a process may die after each; a collection acts on
what it saw earlier; many reads that fail are taken for nothing there. *Correct*:
`CURRENT` names a whole version; queries answer with a graph that was live while
they ran; seen from outside a load replaces the graph in one step or not at all.

**Graph walks** (`cih-graph-store/src/traversal.rs`; `logical_transitions` of
both stores). *State*: of one call, its frontier, what it reached, its budgets.
*Operations*: impact, subgraph, flow, paths. *Interactions*: every store answers
one layer at a time, page by page. *Hard*: several arrivals at one node in the
layer that first meets it; a budget, a depth or a page that cannot be continued
in the midst of a layer. *Correct*: what an answer says of its own completeness
is true of the graph; depths and paths are shortest.

**Incremental analysis** (`cih-engine/src/analyze/cache.rs`, `analyze/mod.rs`,
`file_cache.rs`). *State*: parse cache, hashes of the last run, configuration
fingerprint, newest artifacts. *Operations*: hash, decide that nothing changed,
parse what did, resolve, write, record. *Interactions*: editors change files
between any two of these. *Hard*: three records written one after the other;
contents read twice; reverts, which make an old record current again. *Correct*:
an incremental run writes the graph a full run would, and one that reuses the
artifacts reuses those.

**Taint analysis** (`cih-taint`). *State*: flow graph, dominators, reaching
definitions, tainted definitions of one method; the queue of a search between
methods. *Operations*: the passes of `analyze_method` in order; the search of
`interproc.rs`. *Hard*: fixed points over loops inside loops; control
dependence; a search that visits every method once, stops at sinks and
sanitizers, and has a limit in hops. *Correct*: confirmed sinks are those an execution reaches with a
tainted argument; reported paths are paths, and none within the limit is missed.

**Group registry** (`cih-core/src/group.rs`, `cih-engine/src/group_sync.rs`,
`cih-engine/src/cmd/group.rs`). *State*: `groups.json`, a snapshot of it in the
server, and per group `contracts.jsonl` with its stamp `sync-state.json`.
*Operations*: create, add, remove; cached reads; a sync, by command or after every
run. *Interactions*: engines with engines and with the server; the registry of
repositories gives the versions a sync works on. *Hard*: files are truncated and
filled without a lock; the contracts and their stamp are two writes, by which
readers decide whether the contracts are stale. *Correct*: no change of a group
is lost; a cached snapshot is fresh; contracts not called stale come from the
registered versions.

**Embeddings** (`cih-embed/src/store.rs`, `cih-engine/src/embed.rs`, the embed
strategy of `cih-engine/src/discover.rs`). *State*: two Postgres tables, chunk rows
and node vectors. *Operations*: an embed run (look what is there, embed and write
the rest in batches, average, prune); the self-heal of discover. *Interactions*:
runs of all repositories that name one database. *Hard*: every statement commits
on its own; what is to be averaged is remembered by the run only. *Correct*: a
vector is the mean of its node's chunks, and the vectors are those of the graph.

**Wiki generation and wiki repository** (`cih-wiki/src/lib.rs`, `sink.rs`,
`cih-engine/src/wiki/run.rs`; `cih-server/src/infrastructure/wiki_repository.rs`).
*State*: the wiki directory (marker, metadata, manifest, pages), a staging directory
and a backup of it; in the server a retained index and its gate. *Operations*: a run
of `cih wiki`, full or for the features changed since a commit, in place under a
marker or staged and swapped in; requests that load an index, read a page, list the
pages. *Interactions*: the generator rewrites what the server reads, file by file,
without a lock. *Hard*: a run dies between any two files; a request reads marker,
manifest and pages one after the other and keeps the index for later. *Correct*: an
answer shows one publication; a run writes a whole wiki; a wiki that is reported as
up to date can be read.

**Server application
services**: computations of one request over a resolved repository. **Graph store
factory**, **Falkor graph store**: dispatch; queries to a Redis server.
**Parsing and languages**, **resolution and patterns**, **communities**,
**ranking**: passes over data. **Command
line**, **web front ends**, **packaging**. None of these is modelled; section 8
gives the reasons.


## 2. Modules and plan

| module | models | composed of | status |
|---|---|---|---|
| `PublicationPort` | the atomic publication store, with a fence that may be unreadable, and its coordinator (abstract) | | checked, proved |
| `LadybugPublication` | the same over files, a lock and a disk | refines `PublicationPort` | checked, proved |
| `PublishPipeline` | engine runs and a request | `PublicationPort` as a component | checked, proved |
| `RegistryStore` | registry files, transactions, cached reads | | checked, proved |
| `GraphKeyPort` | what a store and a load promise of one graph key (abstract) | | checked, refined by `LadybugStore` |
| `LadybugStore` | versions, loads, readers and collection of one graph key | refines `GraphKeyPort` | checked, proved |
| `IndexScheduler` | submissions, job tasks, cancellation | | checked, proved |
| `SingleFlight` | `get_or_try_init` | | checked, proved |
| `ArtifactCache` | gates, loads, eviction, index sidecar | | checked, proved |
| `SearchFlights` | counted flights of cold searches | | checked, proved |
| `LoadLanes` | cold and heavy admission lanes in sequence | | checked, proved |
| `GraphTraversal` | impact, subgraph, flow, paths, one layer per step | | checked, proved |
| `IncrementalAnalyze` | incremental runs, edits and deaths | | checked, proved |
| `TaintPasses` | reaching definitions and taint over a given flow graph, one block per step | | checked, proved |
| `TaintFlow` | taint in a method: the flow graph built, dominators, the passes, the verdict | extends `TaintPasses` | checked |
| `TaintPaths` | the search between methods | | checked, proved |
| `GroupRegistry` | groups, their contracts and the stamp of these | | checked, proved |
| `EmbedStore` | chunk rows and node vectors under overlapping runs | | checked, proved |
| `WikiBundle` | the generated wiki, its generator and its readers | | checked, proved |

`MC<module>` gives the constants of a module their symmetry or names; a `.cfg`
gives their values. Modules that share nothing are instantiated together, a variable
choosing in the initial state the one that moves: `MCAnalyses` five computations,
`MCFlights` the two protocols of shared computations, `MCRegistries` the two
registries, `MCAdmission` the two places that admit work, `MCFileCaches` the two
caches over files. The modules named `...Proofs` hold the
theorems (section 6). Only `TaintFlow` declares
RECURSIVE operators (a syntax tree is built and executed by recursion); no
module of theorems reaches it, which is why the passes have a module of their own.

The order was: what can corrupt or lose a published graph (publication, the
pipeline around it, the registry, then the versions of the store), what admits
work (scheduler), what shares work in the server (caches, flights, lanes), and
what decides the content of an answer (walks, incremental analysis, taint,
embeddings, contracts of groups, wiki pages).

Planned next, in this order:

1. Compositions: `SearchFlights` over `LoadLanes` (a dropped leader's closure
   runs on while the next leader loads the same key), `ArtifactCache` over the
   heavy lane, `LadybugStore` under `PublishPipeline`.
2. Two generators of one wiki at once; the resident wiki; the embedding lane.
3. Rank fusion and page cursors against reference definitions.


## 3. How the modules correspond to the code

### PublicationPort
One publisher is one call of `publish_complete_graph` at a time. `ReadCurrent`,
`AllocateToken`, `BeginLoad`, `FinishLoad`, `CasPublish`/`CasRefused`, `Reply`
are its steps in order; `Abort` is an error or the death of the process anywhere
before the reply, also between the commit and the reply. `Stale` and `Conflict`
are the comparisons of the compare-and-swap in its order; the Falkor adapter
runs exactly these in one Redis script, so `CasPublish` is one step there.
`FenceSeen` is the fence they compare with: the allocated one or, in the file
adapter (`FenceFailures`), 0 when `FENCE` cannot be read or parsed. Then a token
that a later allocation superseded passes, and only the comparison with the pointer's
token and epoch is left. An
epoch stands for a random 256-bit identity (fresh ones are never drawn twice)
and for the physical graph named after it. `committedBy` is a history variable:
the token under which each epoch was committed. `durable` and `PowerLoss` state
what a store must still guarantee after a power loss: an acknowledged commit
stays, an unacknowledged one may be undone as if it had never been.

### LadybugPublication
The same calls system call by system call. Each of the three kinds of file has
two values: as processes see it and as the disk has it; `SyncDirectory` brings
earlier renames of the directory to the disk. `fence_read … SyncFence` is
`allocate_fencing_token`; `checked … SyncPointer` is `compare_and_swap`, both
under `lock`. A call that fails is an `Abort`, with one exception: an allocation that
cannot read `FENCE` reports it, while the compare-and-swap goes on with 0
(`FenceSeen`). `StartRead`/`ReadRecord` is `current`, which takes no lock.
`Abort` ends a publisher after any of its steps and releases the lock, because
the kernel releases a lock when its file is closed; files stay as they are.
`PowerLoss` chooses for each name the synced or the unsynced value. The
refinement mapping hides everything between taking the lock and the one step
that takes effect: the rename of `FENCE` is `AllocateToken`, the rename of
`CURRENT` is `CasPublish`, the sync after it is `Reply`.

### PublishPipeline
A publisher is one run at a time, of kind `analyze` or `discover`. A version is
the content of `.cih/artifacts/<version>` (directories are named by a hash of the
content), numbered by first emission. `StartAnalyze`/`FinishEmit` write a new
version, or an old one again, in place; `ReuseArtifacts` is the run that finds
the sources unchanged and takes the newest directory; `StartPublish` …
`PublishFails` are the publication steps of `PublicationPort`, over the same
variables; `Register` is `persist_analyze` or `persist_discover`; `Prune` is
`prune_other_versions` after `analyze`; `Die` ends a run between any two steps.
Files are read at `LoadGraph`, so `content` and `truncated` remember what
the graph of an epoch was made of. A request is `ResolveGraph`, `ResolveCorpus`,
`Answer`. The registry's own transactions are atomic here; `RegistryStore` is
about them.

### RegistryStore
An actor is one process with its own cache and one program at a time: a cached
read, or an analyze (`Registry::load`, `repository_identity`, `persist_analyze`).
A document is its revision, the identity of one repository, whether it is
written in an older encoding (`raw`), and the set of actors whose update it
shows. `LoadPlan` and `UpdatePlan` are what the two transactions decide under the
lock; `WriteBackup`, `WritePrimary`, `SyncParent` are the writes in order.
`disk` is the set of values each name may have after a power loss.
`LoadedDocument` is the choice between primary and backup. A fresh identity is a
number never drawn before. A stamp is the pair of both files' contents: a rename
makes a new inode and revisions never come back, so metadata differ when
contents do.

### IndexScheduler
A submission and the job it may become share one id. `Coalesce`, `Refuse` and
`Claim` are the three outcomes of the admission under the lock of `active`;
`RegisterJob` and `Spawn` are `spawn_job`, with an await between; the rest is the
job's task in order. `SettleStatus` and `Release` are the two halves of `settle`.
`SignalCancel` is `cancel_index`. `DropSubmission` is the operation timeout of
the tool call, which drops the future of a submission at an await. The engine
process is the outcome it ends with.

### SingleFlight
One key. A step is what a task does between two lock operations or awaits. A
flight is named after the caller that leads it. `Cancel` drops a call wherever
it awaits; a leader's guard then marks the flight abandoned and, as a further
step, wakes the followers. `Register` before `Observe` is the order that makes
`notify_waiters` reach a follower.

### ArtifactCache
A caller is a closure on the blocking pool. Every metadata probe and every file
read is a step, and `Rewrite` replaces one of the two files between any two. A
stamp stands for a file's metadata and for its content: each write produces a
fresh one. `GateFor`, `LockGate`, `Recheck`, `LoadNodes`, `LoadEdges`, `Insert`
or `Oversize`, `DropGates` is a load. The cache is a map (`cache`) and the order of
its slots' sequence numbers as pairs of directories (`older`); `Touched` makes a
directory the newest, and a slot gets its number and enters the map in one step.
`Spared` is what the loop of `evict_locked` leaves: the most of the newest that fit,
where the retained weight is counted by units (`Weight`). `Invalidate`
and `SweepGates` are the two critical sections of `invalidate_where`. The index
part is `prepare_indexes_blocking` with the `OnceLock` of the snapshot and the
sidecar of `artifact_index_store.rs`.

### SearchFlights
One key, one retained bit for the weighted cache (which may refuse or evict).
`JoinSearch`/`LeadSearch` under the map's lock; the leader looks again, loads,
publishes (`PublishResult`) and wakes (`NotifyFollowers`); a follower makes its
`Notified`, looks (`ObserveFlight`), waits (`FollowerWakes`). Leaving is two critical
sections, `LeaveFlight` and `RemoveKey`, between which others act. `DropLeader` and
`DropFollower` are the two guards.

### LoadLanes
A lane is a Tokio semaphore: `Take` when nobody waits and permits are there,
else `Enqueue`. The order of the queues is `ahead`, the pairs of callers one of which
waits before the other. `Serve` hands permits back and grants them in that order:
of the waiters that fit, as many of the longest as the permits go (`Served`). Tokio
lets the first waiter keep permits while it collects the rest; here they
stay free, and nobody passes the queue to take them. Sums of permits are counted unit
by unit (`Total`). A cold load goes through `count`, `bytes` and `heavy`; an artifact load through `heavy` only.
`Launch` moves everything held into a closure (`closures`), and only `JobEnds`
releases it. `QueueTimeout`, `Deadline`, `DropQueued`, `DropAwaiting` are the
ways a caller leaves early; a granted permit that was not polled yet goes back.

### GraphKeyPort and LadybugStore
`GraphKeyPort` is the promise: an attempt replaces the live graph of the key in
one step, and one that reports failure has changed nothing; a death may fall on
either side. A key may also be lost (`Break`), after which attempts still end as
they should but what is live is not promised (`Lose`). `LadybugStore` is one key.
An attempt is one replacement load: `Begin` and `Load` are the staging graph and its
artifact sets, one per step; `Close` makes the store checkpoint, which may leave a
log beside the main file; `Number` is `max_version_in`; `MoveMain`, `MoveLog` and
`Flip` are the renames of `publish_to_impl` and the replacement of `CURRENT`;
`SweepAfterFlip` starts `gc_versions`; `Fails` is an error of any of these,
`Cleanup` the drop of the staging graph, `Die` the death of the process. A collection
reads `CURRENT` (`StartSweep`), lists and dates the versions (`SweepList`) and
deletes (`SweepDelete`) in three steps without a lock; others act between them. A
reader is a store in a server: `Query` (which collects first), `Look`, `Choose`,
`Open`, `OpenFails`, `GiveUp`, `Answer` are `read_handle` with its retries. File
times are positions in the order of the loads, and `TimePasses` ages everything
written so far beyond the grace period.

Failures that the code does not report are steps of their own, which count against
`MaxFailures`: a `CURRENT` taken for none, by a collection (`StartSweep`) or a query
(`Misread`); a listing, a time or a note taken for nothing (`SweepListPartly`); files
that resist the collection, and notes that stay as they were (`SweepDeletePartly`); a
number drawn from part of the listing (`Number`), which may be one in use, whose
files the move then takes over (`MoveMain`); a log that the move does not see
(`Flip`); a version that cannot be looked at (`OpenFails`); and a staging graph
whose drop fails (`CleanupFails`), which the code logs or adds to the error of the
load (`warned`). `astray` remembers that one of them has cost the key what it relies
on: a collection that could not read `CURRENT` while it is not the latest version;
one that did not see, or could not date, the latest; a number in use; a log left
behind. Each of the four was needed: without it TLC finds a property violated.
`blind` says of a query that a read of its own failed. The log that a closed database
leaves is a database's own matter, so `LogKept` says which outcomes there are.

`seen` is a history variable: the graphs that were live since a query began.
`AnswersLive` lets a query say that there is no graph when more graphs than tries
were live meanwhile: that is what `read_handle` does when each try finds its version
collected. The copy-on-write path (`begin_cow_version`, `upsert_incremental`) has no
caller in the product and is left out, and so is the query language.

### GraphTraversal
One call is one behaviour. `Layers` is what the walks share, `expand_layer` and
`expand_stored_layer`: the sources of the frontier in batches, their transitions
sorted by `Sooner`, cut at the edge budget, or cut short by a page that cannot
be continued. A step is one layer (`WalkTree` for impact and flow,
`WalkSubgraph`, `WalkPaths`), and `Report...` sorts, hides, pages and states how
complete the answer is. `Transitions` is what the stores deliver: stored edges
in either direction for impact and subgraph; calls forward and handlers
backward, reads and writes of tables, for flow and paths.

### IncrementalAnalyze
`StartRun` hashes the scope (a file that cannot be read is left out),
`Reuse` is the early return when hashes and fingerprint agree, `Parse` decides
what to parse (changed files, their importers, and what the cache lacks), parses
it and stores the units, `Resolve` resolves, `WriteArtifacts`, `SaveHashes`,
`SavePrint` are the three writes, `Die` ends a run between any two of them or in
the midst of one. A unit says from which file, content and parser it comes, so
two graphs are equal when they come from the same inputs. `own` and `legacy` are
history variables: the mishaps of this run, and those of earlier ones that still
count. They appear in the properties and in no guard.

### TaintFlow and TaintPaths
A program is a syntax tree of records. `BuildCfg` is the builder of
`cfg/mod.rs`, node by node, and leaves the blocks in the order `reverse_post_order`
gives them; `DominatorPass` is one sweep of `compute_dom_tree`, repeated until
nothing changes; `Classify` is the verdict of `analyze_with_pdg` on the sinks. The two
iterations between them are in `TaintPasses`, of which `DataPass` takes a step:
`ReachBlock` is one turn of the inner loop of `compute_reaching_defs`, `TaintBlock`
one of `propagate_pass`, and `EndPass` the outer `while changed` of either. That
module knows of the flow graph only what `FlowGraph` says, so that its theorem is about
any graph; `DependencesExact` checks that what is built is one. The results are
compared with two references: `Exec` runs the syntax tree itself, without a flow
graph, on the set of taint states that may hold at each point; `DependencesExact`
defines dominance, reaching definitions and control dependence by paths of the graph.
`TaintPaths` takes the sources in order (`Start`), and looks at the head of the
queue: `Report` at a sink, `GiveUp` at a sanitizer or the hop limit, else
`Expand`. The callees of a method come in an order the call graph does not fix,
so each order is a choice.

### GroupRegistry
One group: groups share nothing but the file. A command is one process:
`LoadGroups`, `TruncateGroups`, `WriteGroups` are create, add or remove, since
`fs::write` truncates the file and fills it; `LoadToSync`, `LoadMembers` are the two
registries a sync loads one after the other, `Publish` and `LoadAfterRun` the same
for the sync after a run; `TruncateContracts`, `WriteContracts`, `SaveStamp` are
its writes. `StopCommand` ends a process after any of them. `Filled` says what two
processes that write one file may leave of it. `Serve` and `LoadCached` are the two
halves of `load_cached`, which, unlike that of the repositories, takes its stamp
before it loads. Contracts are represented by the versions of the members they come
from. `saved` and `mishaps` are history variables; `LeavesOut` tells the deaths
between contracts and stamp that a member who comes back would reveal.

### EmbedStore
A graph is what `embed_nodes` sees of it, the chunks of its embeddable nodes; a hash
and an embedding are the text they are made of; a vector is the rows it is the mean
of. `ReadExisting` to `AllWritten` are the loop over chunks, one per step;
`AverageRows` and `StoreVectors` are one statement of Postgres, which sees the rows
as they are when it begins and is seen when it commits; `PruneVectors` is the next
one. `BeginDiscover` and `CountVectors` are the self-heal. `Stop` is an error of any
of these or the death of the process, after which the changed nodes, which only the
run knew, are forgotten. Batches make no difference to what commits: each chunk is a
statement of its own. `alone` and `astray` are history variables: which run has had
the tables to itself, and what has befallen the vector of a node.

### WikiBundle
A source file defines one class with one page, whose text is that of the file; a
feature is a directory of pages. `Commit` changes a file, and the graph follows.
`NothingToDo` and `StartWiki` are the two sides of the gate `is_wiki_up_to_date`.
`ChangedFiles` is what `git_changed_files` tells a `--since` run: the difference, or
nothing when git fails or does not know the commit.
`WriteMarker`, `TruncateMeta`, `WriteMeta` (a file written in place is empty at
first), `Render`, `FlushPage` page by page, `PruneStale`, `WriteManifest`,
`RemoveMarker` are `generate_wiki` and the sink; `Rotate`, `SwapIn`, `SwapFails` the
swap of `--stage-and-swap`; `RunDies` an error or a death between any two of these.
`Affected` are the features rendered, `Merged` what a `--since` run takes over from
the manifest in the directory it writes to. A manifest's modification time is the
number of the run that wrote it, so two manifests never share one.
`CheckMarker` to `VerifyIndex` are `index_for` with `get_or_load` and
`load_wiki_index`, behind the gate of the directory; `ReadPage` and `AnswerRequest`
are `get_page`, or a snippet of a search, which may be missing; `ReadListing` and
`AnswerListing` are `list_pages`. `bundles` is a history variable: what each run had
on disk when it wrote its manifest, and whether it was published.


## 4. The runs

States are distinct states found. `FilesInv`, `SchedulerInv`, `StoreInv` and so on
are conjunctions whose parts are listed; the first part of each is the type
invariant of the module.

| run | configuration | states | properties |
|---|---|---|---|
| `ladybug_files` | 2 publishers, 3 epochs, 3 tokens, power failures, unreadable fences | 174,713 | `FilesInv` (`TokensUnique`, `PublishedIsDurable`), `ReadersFindRecords`, `OnlyCompleteGraphsPublished`, `ImplementsPort`, `AttemptsEnd` |
| `pipeline` | 2 runs at a time, 2 versions, 2 epochs, 2 tokens, unreadable fences, 1 request | 2,214,390 | `PipelineInv` (`PublishedArtifactsKept`), `OneChain`, `PublishedGraphIsWhole`, `OneVersionEverywhere`, `RegistryMirrorsPublication` |
| `store` | 3 loads of one key, 1 reader, 2 tries to open, 1 swallowed failure | 2,947,770 | `StoreInv` (`CurrentIsWhole`, `NoStagingLeft`), `AnswersLive`, `ImplementsKeyPort` |
| `registry` | repositories: 2 processes; any two of a crash, a damaged primary, a power loss, a failed load; groups: 2 processes, 3 commands, 2 repositories | 1,990,668 | `RegistryInv` (`OneIdentity`), `AckedSurvive`, `SequenceAdvances`; `GroupsInv` (`ChangesKept`, `CacheFresh`, `FreshContractsAreRight`) |
| `registry_stale` | 2 processes, no failures | violated | `ReadsAreFresh` |
| `admission` | jobs: 3 submissions, 3 repositories, 2 commands, 1 slot, queue of 1, 1 retained status, drops; loads: 3 callers, 3 cold slots, 2 units, 2 heavy slots, loads of 1, 2 and 3 units, drops | 438,956 | `SchedulerInv` (`OneJobPerRepo`, `LiveJobsBounded`, `LiveJobsPollable`), `CoalescedOntoLiveJob`, `AdmittedJobsFinish`; `LaneInv` (`NoIdleQueue`, `PermitsConserved`, `GaugesCount`), `CallsEnd` |
| `flights` | 3 callers of either protocol; failures, refusals, evictions, drops of two callers or one searcher | 180,522 | `FlightInv` (`OneInitialiser`, `FinishedFlightsAreGone`), `NoInitOnceCached`, `CallsReturn`; `SearchInv` (`OneLeader`, `ParticipantsCounted`, `NoKeyLeft`), `SearchesEnd` |
| `file_caches` | artifacts: 2 directories, 2 callers, 2 entries, weight 2; entries dropped, loads that fail, or files rewritten; wiki: 3 classes in 2 features, 2 commits, 3 runs, 2 requests | 1,959,260 | `CacheInv` (`BudgetHeld`, `IdleGatesHaveEntries`, `LoadsOnce`), `HonestCache`; `WikiInv` (`ServedTogether`, `CachedTogether`), `RunsWhole` |
| `artifacts_index` | files rewritten | violated | `SidecarHonest` |
| `analyses` | the inputs of five computations, below | 1,253,714 | `TraversalInv`, `AnswersHonest` (`HonestPaths`); `IncInv`, `WritesFullGraph`, `ReuseIsFull`; `TaintExact` (`ConfirmedExact`, `DependencesExact`); `PathsFound`; `EmbedInv` (`VectorsFollowRows`), `RunSettles` |
| `embed_graph` | one process, three runs that succeed | violated | `VectorsOfGraph` |
| `wiki_rerun` | one commit, two runs in place, no requests | violated | `SuccessClears` |

### What they show, and why the bounds are enough

**`ladybug_files`.** Two publishers and three attempts, with a failure or power
loss between any two system calls, which is where the protocol could break; a
third publisher adds only more waiters at the lock. Three tokens let one
publisher commit, be superseded, and commit again, also under the superseded token, when the
compare-and-swap cannot read `FENCE`. `ImplementsPort` transfers
what is proved of `PublicationPort` to the files.
`OnlyCompleteGraphsPublished` is about graphs no power loss touched since they
were loaded: nothing syncs the files of a graph (see 7).

**`pipeline`.** Two runs at a time, each followed by as many others as tokens and
versions allow: runs that overlap, lose the race, skip the load, die or prune.
`mishaps` records what has happened, and each property names what it does not
withstand: `PublishedArtifactsKept` and `PublishedGraphIsWhole` overlapping runs;
the latter also a run that died while writing; `OneVersionEverywhere` any run
that did not publish; the order part of `RegistryMirrorsPublication` overlapping
runs. `OneChain` withstands everything, superseded tokens that commit included. Power failures are off: they are the
subject of `ladybug_files`, and the pipeline adds no file whose durability it
relies on.

**`store`.** Three loads after each other are the fewest with which a version
is neither the live one nor among those kept for being recent, so that collection
removes something while a reader opens it. A load may fail or die after each of
its steps and the next one starts over what it left. Collections by the loads
and by the reader overlap. One operation goes on after a failure (`MaxFailures` 1),
at any of the places listed in section 3 and at any time, and everything that follows
runs over what it left; two in one history are covered by the theorems. A closed
database keeps its log (`LogKept`), as one that does not can only leave less behind. With two tries a reader may lose one version and open
the next; it cannot lose both with three loads, so the run shows the retries and
the theorem, for any number of loads, the case in which they are used up.

**`registry`.** Two processes interleave transactions under one lock; any two
kinds of failure strike once each, at any step, in either order (`MaxTroubles`). The
initial document either lists the repository without an identity or has one in
the older encoding, so both migrations happen. *Groups*: two processes run three
commands, so two overlap and a third meets what they left; each may die after any
step. Two repositories, one of which may be unregistered, so that a sync can be
refused; two versions, so that a sync can be of the older one. With three commands a
sync is overtaken by another and the group changed besides. Each part of `GroupsInv`
names the mishaps it does not withstand: a change loaded before another was written
("overlap"), a death in the midst of a write ("cut"), two writes in one tick of the
clock ("tick"), a sync raced by another or dead at the wrong moment ("sync"). The last
of these, a member removed, a sync that dies after its contracts, the member added
again, needs four commands, beyond this run's bound; an instance of four found it,
and the theorem covers it for any number.

**`admission`.** Two modules that share nothing; `where` says which one moves.
*Index jobs*: one running and one queued job are at both limits; the third
submission meets every refusal, coalesces, or takes the place of a finished one;
one retained status makes every later job evict. `CoalescedOntoLiveJob` names
the three windows in which a client can be given a job it cannot poll or that is
over. *Loads*: three callers, and closures that outlive theirs and keep their
permits, contend in every lane; a load of 2 units blocks smaller ones, and two
loads of 1 unit are let through together when it leaves; 3 units can never
fit. `MaxLeak` bounds how far the cold gauge may drift (see 7).

**`flights`.** In either protocol a leader, a follower of it, and a third caller
that finds the flight abandoned, replaced or removed: the scenarios in which
counts, keys or wake-ups could go wrong involve at most two generations of a
flight at a time. One caller of the three, or two of the searchers, is never dropped
(`PatientCallers`, `PatientSearchers`); the others may be at any await, again and
again, so that an abandoned flight, its late removal and a new one still overlap. That
no wake-up is lost is checked with these; the safety of both protocols, with everybody
dropped, is proved.

**`file_caches`.** Two modules again. *Artifacts*: three workloads, chosen in the
initial state: what is dropped and when (two directories that compete for the budget
and are not rewritten); loads that fail under an invalidation (one directory); and
whether what is kept is right (one directory whose files are rewritten once each). Two
callers per directory suffice for every race between a probe, a load, an eviction and
an index initialisation. Weights 2 and 3 against a budget of 2 make the second
insertion evict and an oversize value pass through.
*Wiki*: three runs, each of any kind (`--since` with the true difference or with
none) and dying anywhere: one to publish, one to
leave debris, one to work over it. Before and after the one commit the wiki lacks a
class, has one text for it or another, or the commit adds the class of the second
feature; two classes in one feature tell "the feature is rendered" from "the page is",
and what is of the feature that the commit does not touch is merged. Two requests
between the first run (a full one in place) and the second commit contend for the
gate; one meets the second run while it rewrites or swaps the directory, or fails to;
none runs while the third works, when nothing new can happen to it, but one after it.

**`analyses`.** Five computations that share no state; `task` chooses which one
moves while the others rest in an initial state, so the states are the sum and
not the product of the five.

- *Walks*: every graph of at most four edges out of a pool of thirteen with
  cycles, parallel edges, a loop and a table, under fourteen requests: the four
  operations, upstream and both ways, a target that is the seed, an access
  filter, hidden nodes, either budget hit at the first, a middle or the last
  layer, and pages with an offset. `BatchSize` 1 makes every layer of two nodes
  two queries. A wrong order shows with two arrivals at a node, a wrong budget
  with a layer cut after its first.
- *Incremental analysis*: two files, one importing the other, scopes of one or
  both, two contents, parsers, patterns and resources: enough to edit, revert,
  and share a content. Two edits and three runs: one to record, one to go
  wrong, one to suffer. One fault: properties name what a fault excuses.
- *Taint in a method*: an assignment or a return, then each control structure over bodies of
  up to three statements (`if`, `while`, a loop in a loop, a branch in a loop,
  `do`, `try` with and without `finally`, `switch`), then a sink: 9,234 bodies.
  A loop in a loop needs more than one sweep of each pass.
- *Taint between methods*: 3,718 call graphs of 4 to 9 calls out of 12 over 7
  methods, two handlers one of which is called, a sanitizer, a dynamic query, a
  dangerous callee at every distance up to one more than `MaxHops` 2.
- *Embedding*: two processes, three runs, each an embed run over one of five graphs
  or a self-heal; two nodes, one of which leaves and comes back, changes its text
  and shrinks from two chunks to one; a graph with two nodes of one id; tables that
  are empty or of an older release.
  One run to leave something behind, one to overlap or die, one to suffer.

**`embed_graph`** is the same module with one process, no failure and empty tables:
what is violated there is the fault of no mishap. **`wiki_rerun`** needs no more than
a run that dies and one that follows.

Bounds are named: `MaxFence`, `MaxVersions`, `OpenTries`, `MaxFailures`, `LogKept`, `MaxStamp`, `MaxLeak`,
`MaxCrashes`, `MaxCorruptions`, `MaxPowerLosses`, `MaxLoadFailures`, `MaxEdits`,
`MaxRuns`, `MaxFaults`, `MaxTroubles`, `MaxHops`, `MaxCommands`, `MaxVersion`, `MaxEmbeds`,
`MaxCommits`, `MaxWikiRuns`, `PatientCallers`, `PatientSearchers`, and the sizes of
the sets. Symmetry is used
only in runs without liveness properties and only on sets whose members the
properties do not tell apart. `CHECK_DEADLOCK FALSE` is set where a bounded
system really stops: all submissions answered, all calls returned, tokens used up
in the pipeline, a computation that is done.

Every property of a passing run has a mutant in `PROJECT.json`: a definition
changed in the way a plausible bug would change it, defined beside the original
and marked `Mutant`, under which the same run finds the property violated.


## 5. Fairness

Liveness is checked of five modules, under the `FairSpec` of `LadybugPublication` or,
where modules are explored together, `FlightsSpec` and `AdmissionSpec`, which state
for both modules the fairness each states for itself.

- `LadybugPublication`: weak fairness of a publisher's own steps (its code
  between two system calls is straight-line) and strong fairness of taking the
  file lock (the kernel serves waiters; the lock is held for a bounded number of
  steps). Failures are not fair: they may, but need not, happen.
- `IndexScheduler`: weak fairness of `RegisterJob`/`Spawn` and of each task (the
  runtime polls ready tasks; an engine ends because the runner kills it at its
  deadline). With finitely many jobs a slot is free for good in the end, so that a
  queued job needs no fairness of the semaphore.
- `SingleFlight`: the same for a call's steps, strong for the lock of the map
  (Tokio's mutex is fair). Initialisers end: they have their own deadlines.
- `SearchFlights`: weak fairness of each call's steps; a load ends because
  `run_cold` bounds its queue and its run. `SearchesEnd` excludes behaviours in
  which leaders are dropped for ever.
- `LoadLanes`: weak fairness of polling and of timers only. Nothing is assumed
  of the closures, and `CallsEnd` holds although a closure may never end.


## 6. Proofs

Eight modules of theorems, checked by TLAPS for every value of the constants
under the assumptions stated with them (`None` and `Nothing` are not elements of the
sets; sets of files, methods and nodes are finite; limits are natural numbers). TLC evaluates
the same assumptions in the runs.

**`PublicationProofs`** is about the atomic store and the runs around it. *The
store*: `PortTypeCorrect` and `PortOneChain`
(`PortSpec => []OneChain`), for any number of publishers, epochs and tokens, with
or without power failures and whether or not the fence can always be read: the chain
does not rest on the fence, but on the pointer's token and on the expected epoch. `LinearHistory` is not inductive: that a new record
extends the chain follows only because the publisher's expected epoch is the
current one *and its token is larger than all committed ones*. The invariant adds
that the pointer is the head of the chain, that the durable pointer is an earlier
point of the same chain (`DurableInChain`), that every token in use is at most
the fence (`TokensBehindFence`), and that an epoch under way is used, uncommitted
and belongs to one publisher (`EpochsOwned`). `CommitExtendsChain` is the step of
the commit, `PowerLossCutsChain` the fact that cutting a chain at the durable
pointer leaves a chain. *The pipeline*: `PipelineImplementsPort`
(`Spec => PortSpec /\ []OneChain`), so that its proofs may use the invariant of the
store; `PipelineCorrect`, `WholeGraphsPublished`, `VersionsAgree` and
`RegistryMirrors`. `PipelineInd` says what each step of a run may rely on (`Steps`,
`Contents`), that as long as no runs overlapped at most one is under way (`Alone`),
which directories are whole (`Whole`), and how pointer, registry, graphs and newest
directory may differ in the midst of a run (`InStep`).

**`LadybugPublicationProofs`**: `FilesCorrect`, `ReadersServed`,
`CompleteGraphsPublished` and `FilesImplementPort` (`Spec => ImplementsPort`), for any
number of publishers, deaths between any two system calls and power losses. Of the
invariant `FilesInd` the heart is `FenceAhead` (a token is on the disk before it is
used, hence ahead of every pointer a power loss may leave) and `Standing`: a
publisher that has checked the pointer under the lock still wins when it renames
`CURRENT` (`Unbeaten`), its record is on the disk before that, and what it has
committed is what the pointer on the disk leads to once it was acknowledged. The
refinement has one lemma for each step that takes effect; all others, power losses
of files nobody relies on included, are stutters. With `PortOneChain` it gives the
linear history of the files.

**`RegistriesProofs`**: `RegistryCorrect` (`Spec => []RegistryInv`),
`AcknowledgedSurvive` (`Spec => []AckedSurvive`) and `RevisionsAdvance`
(`Spec => SequenceAdvances`), for any number of processes, crashes, damaged files,
power losses and failed loads. A document is replaced in two renames and a sync, and
a power loss may leave either name at any value since the last sync, so the
invariant is about all of them: `OnDisk` (a damaged primary has a backup, only the
empty document has no identity) and `WritesFollow` (what a transaction is about to
write follows what the next process would load, and keeps its marks, at each of the
three steps). `Identified` is the one identity everybody agrees on, which exists as
soon as nobody can be shown none. `NothingAssumption` says that the markers for a
missing or damaged file are no documents.

*Groups*: `GroupsCorrect` (`GroupsSpec => []GroupsInv`), for any number of
processes, repositories, versions and commands, which overlap and die at any step.
None of the three parts of `GroupsInv` is inductive. No change is lost because a
change that nothing raced is made to exactly what was saved so far, which
`EditsFollow` says of every command that holds one. A snapshot is fresh because
none is of a future mtime (`SnapshotsPast`), so one that was overtaken keeps a
mtime that never returns. Contracts that count as fresh are right because they lie
between the stamp and the registry: they cover what the stamp covers, no older than
it and no newer than what is registered (`ContractsFollow`); equality follows where
stamp and registry agree. That a sync preserves this is `SyncsFollow`: one that
nothing raced is newer than the stamp and alone with the file. `Turns` is what a
step does to the other commands, and there is a lemma for what each action does.
The proof, tried with more commands than the run has, showed that an earlier form of
`FreshContractsAreRight` was false: it did not except the death that `LeavesOut`
describes.

**`LadybugStoreProofs`**: `StoreCorrect` (`Spec => []StoreInv`), `AnswersAreLive`
(`Spec => []AnswersLive`) and `StoreImplementsPort` (`Spec => ImplementsKeyPort`), for
any number of loads, readers, tries and swallowed failures. The invariant has two
halves. `Base` is for ever: what is staged, built, open and seen, whatever failed, and
that a load that ended has cleaned up or said that it did not. `Healthy` is until the
key goes astray, and what the properties need is there: a failure that is not one of
the four named leaves it as it was. Collections hold no lock, look at
`CURRENT` and at the directory at different times and keep versions by their file
times, so that `CURRENT` survives for a reason that spans the module: loads follow
each other (`OneByOne`), file times count the databases closed (`Dated`), so version
numbers grow with them (`Built`) and a new version gets the highest (`Moving`); hence
what a collection dooms is older than the latest version and not the one `CURRENT`
names, and if it has looked at `CURRENT` before the last flip the present one is the
latest (`Spared`, `DoomedIsOld`); one that could not look at `CURRENT` spares the
latest, and that is enough while the two are the same. A number is never used again (`NeverReused`), so
what a reader opens under it is what was live (`Opened`), and each try that finds its
version gone has seen another graph go live (`Witnessed`), which bounds what
`AnswersLive` exempts. That version numbers and file times run alike rests on
what `Begin` states and publication epochs give: the loads of one key follow each
other, and none begins between the two reads of a collection.

**`AdmissionProofs`**: `SchedulerCorrect` (`Spec => []SchedulerInv`: one job
per repository, live jobs within both limits, each open to its client), for any
number of submissions and any limits, also for several engines at once. `ClaimsHeld`: a job between its admission and the
release of its repository is the one its repository is claimed by; `OneJobPerRepo`
alone does not connect a job with the map that keeps others out. `StatusFollows`
ties statuses to tasks, `LimitsKept` bounds claims and slots; the bound on live
jobs follows by injections of live jobs into claims and of running ones into
slots. `CoalescedRight` (`Spec => CoalescedOntoLiveJob`) needs the converse of
`ClaimsHeld`: who claims a repository was admitted for it and has not let it go,
or was dropped (`ClaimsLive`).

*Lanes*: `LanesCorrect` (`LanesSpec => []LaneInv`), for any finite number of requests,
any sizes of loads and any limits of the three lanes. `PermitsConserved` is an
equation between sums, so each step is a question of what enters a sum and what
leaves it: `Total` counts units, `TotalAdds` says that sums over disjoint members add
up, and `TotalRises` that one amount moves a sum by itself. The equation is
not inductive alone. `HoldsRight` says that a caller has permits only of the
lanes before the one it is at and that an ended closure has none, without which a
grant or a launch could count a permit twice. All ways in which permits
come back go through one lemma, `ServeKeeps`: who leaves holds nothing, who is
granted holds what the lane lost, and who is still at the head of a queue does not
fit, as it would otherwise have been among the most of the longest that fit; hence
`NoIdleQueue`. `LeavesQueue` is the queue timeout and the drop of a request at once.

**`FlightsProofs`** is about both protocols of shared computations. *Values*:
`FlightCorrect` (`Spec => []FlightInv`), for any number of
callers dropped at any await. `FlightOwned` and `FollowersFollow` say that a
caller between leading and removal is the leader of the flight in the map and
that its flight is running, so a second leader can only replace an abandoned one;
and that whoever waits, waits for somebody's flight. `RecheckCatchesStaleMiss`
(`Spec => NoInitOnceCached`) adds what the recheck under the lock is for: a value
stored since then is its leader's, whose flight stays where it is while the lock is
held (`RecheckHolds`), so it is joined, unless that leader was dropped.

*Cold searches*: `SearchCorrect` (`SearchSpec => []SearchInv`), for any finite number
of callers. That there is one leader depends on the flights, not on the callers:
the flight of a leader is the one in the map and runs, and a flight that runs has a
leader on it (`Led`), so the caller that finds none to join finds no leader either.
The same lets a caller take the key away: it is the last on its
flight, so no leader is, so the flight does not run and no leader's key is taken. The
count needs that whoever leaves first is among those counted and that a flight
taken anew is nobody's, for which there are enough (`FreshExists`, by the
surjection of the callers onto the flights in use).

**`AnalysesProofs`** is about the five computations, of taint in a method only about
its passes. *Walks*: `TraversalCorrect` (`TraversalSpec => []TraversalInv`),
for every graph, request and batch size: a walk keeps its budgets, gives every
node the depth of its first layer and misses no transition of an expanded layer
unless it says why. The invariant is inductive as it stands; the work is in the
lemmas: the orders by which a layer is sorted are total (`LexOrder`,
`SoonerOrder`), the first n of a finite set are n (`FirstOfSize`), and from these
that a layer cut at a budget stays within it (`LayerBound`, `TakenBound`).
`HonestAnswers` (`TraversalSpec => []AnswersHonest`) is about what is answered. Its
invariant is `HonestInv`: what a walk knows of distances (`DistInv`) and what an answer
was made of (`AnswerInv`). `TraversalInv` promises nothing of a walk that was cut, and
such walks answer too; what they need is that only the last layer lacks anything
(`Behind`) and which edges were kept on the way (`LinksKept`). From these the depth of a
node is its distance even when the walk was cut (`DepthIsDistance`), whatever is in
scope of an uncut walk was reached (`ScopeIsReached`), and ways back through the
layers are the shortest simple ways. The references are recursive functions (`Near`, `Simple`, and the
model's own `Back`); each is shown to satisfy its equation by exhibiting a function that does, and
what differs from it anywhere would differ at a least number.

*Incremental analysis*: `IncrementalInvariant` (`IncSpec => []IncInv`),
`IncrementalIsFull` (`IncSpec => []WritesFullGraph`) and `ReuseIsRight`
(`IncSpec => []ReuseIsFull`), for any number of files, imports, edits, runs and
deaths. `WritesFullGraph` depends on runs that ended long ago: the cache must hold
the right units under the hashes on record (`CacheOfRecord`), then under those of
the run (`CacheOfRun`), and `ReuseIsFull` needs that the newest artifacts are the
recorded ones (`NewestOfRecord`) unless a mishap that still counts says otherwise.
There is a lemma for each action.

*Taint in a method*: `PassesCompute` (`PassSpec => []PassesExact`), for any flow graph
and any order of its blocks. Both passes only ever add what some way or chain
accounts for (`CameByWays` of definitions, `Traced` of tainted ones), whatever they
have seen so far. That nothing is missing when they end rests on the passes without
change: a block that such a pass has looked at is `Fixed` (what leaves it is what its
statements make of what leaves its predecessors) or `Closed` (it adds no tainted
definition), and it stays so because the rest of that pass changes nothing either
(`SettledStays`). At the end all blocks are, so a definition follows every way that
carries it (`DefsComplete`), by the least place of the way where it would not, and
taint follows every chain. What is at a place of a block is a recursive function over
its statements; that there is one is `HandedOn`.

*Taint between methods*: `ReportedPathsAreReal` (`PathsSpec => []OnlyChains`), for
every call graph and limit: a reported path is a chain of calls within the limit
that ends at a sink and passes no other and no sanitizer. The invariant is that
every path in the queue is such a chain up to one hop beyond the limit.
`AllPathsFound` (`PathsSpec => []PathsFound`) adds that no sink within the limit is
missed and that each is reported once, by a shortest chain. Its invariant is
`FoundInv`: a search that is over leaves what `Done` says, and one under way is
`Searching`, which says of the queue that it holds one shortest chain to each method
on it, in the order of their lengths and never more than one apart (`InLayers`), and
of every method met that it still waits, or ends paths, or has all its callees met too,
or is beyond the limit (`Followed`). The argument is `Unseen`: a chain to a method not
met leaves the methods met behind one that waits, so whatever is met next is as near as
anything not met yet. The reference, `Within`, is a recursive function; that it is the
set of ends of chains (`WithinEnds`) is shown by exhibiting a function that satisfies
its equation, which makes the equation a fact, and by a least number of calls for which
the two would differ.

*Embedding*: `EmbedCorrect` (`EmbedSpec => []EmbedInv`), for any graphs,
any number of processes and runs, and failures of any statement. `VectorsFollowRows`
is not inductive by itself: that a run still has a node on its list does not say it
will write its vector, since a node without rows has no mean; `EmbedBookkeeping` says
that what was averaged has rows and is on the list, and that lists are empty after
the refresh, so that a run that ends owes nothing. `UndisturbedRunsSettle`
(`EmbedSpec => []RunSettles`) follows a run that has the tables to itself
(`Undisturbed`): every other process rests, and what it read there or has written
since is on record (`InOrder`). The step that needs an argument is the write of one
chunk over the rows of another, and the attempt at it showed what the property has to
except: chunks with the same place, which only nodes of one id have (`Sole`).

**`FileCachesProofs`** is about the two caches over files that are rewritten under them.
*Artifacts*: `CacheCorrect` (`Spec => []CacheInv`) and `CacheIsHonest`
(`Spec => []HonestCache`), for any finite sets of directories and callers, any limits
and any workload, from one invariant, `CacheInd`.
`HonestCache` says nothing of a value on its way, so the invariant orders three things
for every caller (`StampsRight`): what it probed is at most as new as what it read,
which is at most as new as the files, file by file and only as far as the caller has
come. A slot keeps the probed stamp with the content read later (`SlotsRight`); when
the stamp equals the files as they are now, everything between is equal too. Had the
freshness been probed at the insertion, the first inequality would be lost.
That a load makes an object nobody holds (`SnapsHeld`) needs that there are more
numbers than holders, which is counted (`Spare`). For the single load: a
caller that asks or loads has the gate that the map has, unless that gate was torn
(`GatesKept`); one caller at most has a gate locked (`OneHolder`); and a loading caller
whose gate is not torn finds nothing fresh (`NothingToTake`), because only the holder
of the gate inserts. For the gates left behind: each one in the map has an entry, a
failed load, an invalidation that is not over, or a caller that will remove it or
insert (`GatesWanted`). There is a lemma for each step.

*Wiki*: `WikiCorrect` (`WikiSpec => []WikiInv`), for any files and
features, any number of commits, requests and runs, of any kind and dying anywhere. A
request reads the manifest, pages one by one and the manifest again, and the
generator may do anything in between, so nothing it has read need still be true. The
invariant says of each request that what it has read is of the bundle of its
manifest, *or that this manifest is lost* (`Lost`): no look will find it again
without the marker. A page read from the disk is right or the manifest is lost
(`TextOnDisk`); a manifest that passes the last look is not lost
(`CurrentIsPublished`); and what is lost stays lost through every step of the
generator (`Carry`), which for a swap that is undone means that the marker moves into
the backup and back with the directory. There is a lemma for each step of the
generator and one for each stage of a request.
`WikiRunsWhole` (`WikiSpec => []RunsWhole`) is about what a run writes over what others
left. Its invariant, `WholeInd`, follows the page of every class from the run before
(`LeftWhole`: what the last run left with its manifest are its pages) through the run
that works on it (`BaseKept`: what it does not render is as the base left it, until the
manifest is written) to its own manifest (`RenderedRight`: what is rendered and no
longer unwritten is of its commit). That the pages run out in order needs that a
nonempty set of class numbers has a least one (`FirstIsIn`), which is the library's
well-foundedness of the naturals.

Only model-checked: all liveness (fairness and ENABLED are outside the prover's
reach); and `TaintExact`. Its parts that are not in `PassesCompute` are about the
building of the flow graph, dominators and the comparison with executions, which are
recursive over syntax trees, as is the reference `Exec`: induction over data is out of
the prover's reach, and so is a module with RECURSIVE operators. The one thing the
theorem takes from there is `FlowGraph`, that the entry is in the order and no edge
leads out of it, and the run checks that of every graph it builds.


## 7. What the code does not guarantee

### Shown by a run
- `registry_stale`. `load_cached` stamps what it loaded *after* loading it
  (`cih-core/src/registry.rs:1314`). A write that falls between is cached under
  its own stamp, and that process answers the older document until the next
  write, although the comment at line 1297 says that cached readers pick up
  writes.
- `artifacts_index`. `prepare_indexes_blocking` probes the identity of the files
  after the snapshot was loaded (`artifact_repository.rs:110`). A rewrite in
  between persists the indexes of the old content under the identity of the new
  files, and a later process accepts them.
- `embed_graph`. `embed_nodes` prunes the vectors of all nodes outside its graph and
  keeps their chunk rows, and skips chunks that are on record. A node that leaves
  the graph and comes back therefore has chunks and no vector, until its text
  changes (`cih-embed/src/store.rs:211`), although the comment at line 235 says the
  table always equals the current graph. `prune_node_vectors` is not told the
  repository either, so embedding one repository prunes the vectors of every other
  one in the database, for good when these have not changed since.
  `docs/plans/graph-read-path-500k.md:166` plans generations that would mend both.
- `wiki_rerun`. `generate_wiki` writes `wiki_meta.json` before its pages
  (`cih-wiki/src/lib.rs:1005`), and the gate before a run looks at that file only
  (`cih-engine/src/wiki/run.rs:180`, and `wiki_needs_regen` with it). After a run
  that died in between, the next one says that the wiki is up to date, succeeds and
  leaves `.publishing`, so readers are refused until the next commit or a change of
  flags, although `docs/ARCHITECTURE.md:585` and the comment at `lib.rs:990` say that
  a successful rerun clears it.

### Stated as an exemption of a property
Each of these was met as a counterexample, or is a step of the model that a property
excepts; the property says under which condition it holds.

- The compare-and-swap of the file adapter takes a `FENCE` that it cannot read or
  parse for 0 (`cih-ladybug/src/publication.rs:180`). A publisher that stalled after
  its allocation may then commit under a token that a later allocation superseded,
  although the trait says that a commit needs a current token
  (`cih-graph-store/src/publication.rs:172`). No commit is overwritten by it: the
  pointer's token and the expected epoch are still compared, so the later publisher
  meets a conflict, or has committed and refuses the older token, and `OneChain`
  holds. `ImplementsPort` is therefore about a store with that gap (`FenceSeen`).
- *Failures the embedded store swallows* (`StoreInv`, `AnswersLive`,
  `ImplementsKeyPort`). A `CURRENT` that cannot be read is a graph that does not exist
  to a query, which then answers as if it were empty (`cih-ladybug/src/lib.rs:114`),
  although line 125 means by that a graph that was never made; and no pin to a
  collection (line 379), which deletes the live version if an orphan is later and it is old.
  A version that a collection does not see in the directory, or cannot date, is not
  spared for being recent (lines 382 and 396). A listing that fails makes the next
  version `v1` (line 565), and the move then replaces a file that may be live; a log
  that is not listed stays in the staging directory (line 238), and the version is
  published without it. After these four the properties promise nothing; after the
  other failures they hold. A staging graph whose drop fails stays, and the log or the
  error of the load says so (`cih-engine/src/db.rs:162`): `NoStagingLeft`.
- `git_changed_files` returns nothing when git fails or does not know the commit
  (`cih-core/src/registry.rs:594`), and `cih wiki --since` takes that for "nothing
  changed" (`cih-engine/src/wiki/run.rs:634`): it renders no feature and still writes
  metadata that names HEAD, so the next run finds the wiki up to date. `RunsWhole` is
  about `--since` runs that were told the difference.

- A query whose every try finds its version collected answers as if the graph did
  not exist, although one was live all the time (`cih-ladybug/src/lib.rs:149`);
  for that the key must have been replaced within each try: `AnswersLive`.
- A submission dropped at its deadline between admission and spawn keeps its
  repository claimed, and a place in the queue, for ever
  (`local_job_scheduler.rs:212`, `transport/mcp/server.rs:225`):
  `AdmittedJobsFinish`.
- A submission may be answered with a job that is settled but not yet released
  (`local_job_scheduler.rs:197`) or not yet registered: `CoalescedOntoLiveJob`.
- A leader dropped after it stored its value and before it published makes the
  next caller initialise again (`single_flight.rs:97`): `NoInitOnceCached`.
- An identity can be served from renames that are not synced; with the power it
  is lost, and another one is drawn (`registry.rs:1087`): `RegistryInv`.
- `Registry::load` turns an error into an empty registry, and
  `repository_identity` then records a second identity for a repository that has
  one; later analyzes fail (`registry.rs:1271`, `cih-engine/src/publication.rs:141`):
  `RegistryInv`.
- A damaged primary loses the last acknowledged update, because the backup is the
  document before it: `AckedSurvive`.
- Overlapping runs may register in the order opposite to their commits
  (`cih-engine/src/registry.rs:162`): `RegistryMirrorsPublication`; and prune
  each other's versions (`versioning.rs:63`): `PipelineInv`.
- A run without load leaves newest artifacts that differ from the registry's
  `latest` and from the graph (`analyze/mod.rs:144`), and a request then mixes a
  graph and a corpus of two versions (`repo_context_provider.rs:217`):
  `OneVersionEverywhere`.
- A version whose writer died half-way is taken for the newest complete one,
  since both files exist (`artifacts.rs:33`): `PublishedGraphIsWhole`.
- Evicting or invalidating an entry removes its gate while others hold it or wait
  for it, and the next caller makes a second one, so that one directory is loaded
  twice at once (`mtime.rs:270`): `LoadsOnce`, a part of `CacheInv`. A failed load leaves its gate in
  the map (`mtime.rs:233`): `IdleGatesHaveEntries`, a part of `CacheInv`.
- The gauge `cold_queued` is not decremented when a request is dropped in the
  cold queue (`search_provider.rs:282`): `LaneInv` (the gauge never shows less
  than the queue).
- A search that joins between a failed load and the last participant's departure
  is answered with that failure (`search_provider.rs:799`); nothing says it should
  not be, and no property does.
- Physical graph files are not synced before the pointer that names them
  (`cih-engine/src/publication.rs:120`): after a power loss the pointer may name a
  graph that is gone. `OnlyCompleteGraphsPublished` is about the moment of the
  commit.
- *Ladybug versions.* A collection that read `CURRENT` and then stalls while two
  loads flip it deletes by what it saw: it can remove the version `CURRENT` names
  now (`cih-ladybug/src/lib.rs:448`). `NoSweepBetweenReads` and loads of one key
  that follow each other are assumptions of `LadybugStore`. Two overlapping loads
  of one key also compute the same next version number. A key that is dropped and
  loaded again starts at `v1`, which a reader that has the old `v1` open would take
  for its own; dropping a published key is not in the model. The grace period is
  measured from a file's modification time, so a version that took long to load
  is old when it is published (the comment at line 46 speaks of the time since it
  was superseded).
- *Incremental analysis* (`WritesFullGraph`, `ReuseIsFull`). A parse unit names its
  file, but is cached under its content only (`cih-core/src/ir.rs:470`,
  `file_cache.rs:90`): two files of one content share a unit, and one of them is
  missing from the graph ("shared"; `docs/plans/
  large-repo-correctness-scale-and-reliability.md:1740` asks for the path in the
  key). A file edited between hashing and parsing has a newer unit under an older
  hash; reverting it makes the run reuse artifacts of the edit ("torn"). A run that
  dies after it wrote its artifacts and before it recorded its hashes, followed by
  a revert, has the same effect ("died"). A file that can be hashed but not read
  again is left out, and stays out until it changes ("skipped"); one that could not
  be hashed and then leaves the scope stays in ("unhashed"). The fingerprint reads
  `cih.patterns.toml` again when it is saved, and does not cover the XML and
  property files resolution reads ("resources"; the comment at
  `analyze/mod.rs:913` says that inputs which affect the output are covered).
- *Groups* (`GroupsInv`). Two changes of `groups.json` that overlap lose one, and a
  death in the midst of a write loses the file, which is then read as no groups
  (`cih-core/src/group.rs:264`); two writes within one tick of the clock leave a
  stale snapshot in the server (`group.rs:249`). A sync overtaken by a newer one may
  write its contracts over the newer ones and die before it stamps them, or the two
  may write one file at once: older or broken contracts then count as fresh
  (`group_sync.rs:97`). And if a sync without a removed member dies after
  `contracts.jsonl` (`group_sync.rs:97`) and before its stamp (line 104), and the
  member is added again, the old stamp still covers it and says that contracts
  without it are fresh (`cih-core/src/group.rs:154`).
- *Embeddings* (`EmbedInv`, `RunSettles`). A run that stops after it wrote chunks
  and before it averaged them leaves vectors of older chunks, or none, for good
  ("stopped"); two that overlap may store means of rows the other is writing
  ("raced"). Chunk rows beyond the present number of chunks stay and count in the
  mean: vectors follow the rows, which is what `EmbedInv` says, and not the text. Two
  nodes of one id, which a name declared twice gives and which is only warned of
  (`cih-resolve/src/index.rs:131`), write over each other's chunks: at most one of them
  is on record, and each run writes another.
- *Wiki* (`RunsWhole`, `WikiInv`). A `--since` run keeps a whole wiki whole only if
  it works in place, on the wiki of the commit it names, written by the run before
  it, and no file is gone since. With `--stage-and-swap` it merges the manifest of
  the empty staging directory, so the features it does not render are missing from
  the wiki it swaps in (`cih-wiki/src/lib.rs:1137`; `docs/ci/wiki.yml` uses the two
  options together, and `args.rs:562` says that unchanged features are kept). A class
  whose file was deleted is not in the graph, so its feature does not count as
  changed and its page stays (`lib.rs:1323`). A run that died leaves pages of its
  commit, and a later `--since` run that does not render them keeps them. No run
  checks any of this. `list_pages` may answer with the manifest of a run that died
  before it removed the marker, if another run removes the marker between its two
  looks (`wiki_repository.rs:1177`). A swap that fails and is undone while an index
  is loaded can leave that index without the texts of some pages, under a stamp that
  is current. `agent-index.json` holds only what the last run rendered.
- *Taint in a method* (`ConfirmedExact`, `DependencesExact`). Of a `switch` only the
  first group is entered from the head, the others by falling through, so a
  `return` in one cuts off the rest; of a `try` only the first block may throw,
  after its last statement, and several `catch` clauses follow each other in one
  block; `break` and `continue` are ordinary statements. Control dependence lacks
  the test for the join, so all that follows an `if` without `else` depends on it,
  and it misses early returns (the comment at `pdg.rs:10` describes the standard
  definition). A compound assignment reads only its right-hand side, and the
  variable of an enhanced `for` is never written.
- *Taint between methods* (`PathsFound`). A search goes no further than a sink
  method, so a sink behind another is reported only if a way around it exists,
  although `interproc.rs` speaks of one path per source and sink.


## 8. What is not modelled, and why

- *Data passes*: parsing, languages, resolution and pattern rules, communities,
  ranking, wiki rendering. Deterministic functions of large inputs
  whose difficulty is in the rules and grammars themselves (a model would be the
  rule written twice), or floating point, which TLC does not have. Rank fusion
  and page cursors are planned.
- *Foreign code*: Ladybug and Redis queries, tree-sitter, Tokio, the kernel. They
  are modelled by what the code relies on: atomic renames visible at once and
  durable after a sync of the directory, locks released when a file is closed,
  fair semaphores and mutexes, `notify_waiters` that reaches the futures which
  exist.
- *I/O of the Falkor client*: its compare-and-swap is one atomic script, so at
  this level it is `PublicationPort`; its walks are those of `GraphTraversal`.
- *Embeddings*: the model, the similarity search and a change of model, which the
  hash of a chunk does not cover; chunking itself is data.
- *Groups*: how contracts are matched, which is a function of the artifacts.
- *Wiki*: two generators at once; the resident and live variants of the repository,
  which render from the graph; pages of routes, entry points and communities, which
  every run renders; summaries by a model and their cache. *Embedding lane*: the
  lanes of `LoadLanes` again; planned.
- *Server application services, command line, front ends, packaging*: request-local
  computation, argument parsing, user interface.
- *Within the modelled parts*: metrics except the gauges of the lanes, log
  output, response envelopes, configuration parsing; several keys of
  `SingleFlight` and `SearchFlights` (keys share only locks that are held for a
  bounded number of steps); several repositories in the registry (entries do not
  interact; revision and files are shared and modelled); overlay and parse
  directories (pruned like artifact directories); the scorer lane (same shape as
  the cold one); collisions of 256-bit epochs; copy-on-write of Ladybug versions
  (no caller); confidences, categories and call sites of edges and taint paths;
  liveness of variables and the return value of a method's taint; overlapping
  incremental runs (`PublishPipeline` has them).
- *Integer width*: fencing tokens and revisions are `u64` with checked additions;
  `MaxFence` is the largest token and its exhaustion is an action. Revisions grow
  by one per write and are not bounded in the model.
