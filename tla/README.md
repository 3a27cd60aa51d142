# ragota in TLA+

ragota (Go) discovers repositories, indexes them into three stores (an AST table in
SQLite or Postgres, a BM25 keyword index, a vector store), keeps the index fresh from
filesystem events, pushed commits and webhooks, and answers searches and graph queries
over it. Several instances may share one database and divide the indexing work through a
job queue.

This directory holds TLA+ modules of the parts of ragota that carry state, TLC
configurations that check them on small instances, and TLAPS proofs for every size of
instance. Paths below are relative to the repository root; `PROJECT.json` maps every
definition to the lines it models.

## 1. Inventory

| Component | State | Operations | Hard because |
|---|---|---|---|
| Job queue (`store/sqlite/jobs.go`, `queries.sql`) | table `index_jobs`: kind, status, worker, heartbeat, force, payload | enqueue (upsert / append), claim, heartbeat, complete, release, stale sweep | release and sweep are two statements each, over a partial unique index; late workers |
| Job workers (`app/jobs.go`) | per instance: the job being run, the snapshot of the repository read before the claim | poll, run, heartbeat goroutine, recovery at start | stale snapshots, crashes between writes, jobs given to another worker |
| Commit batches (`app/commits.go`) | `repos.last_commit` (the cursor), `repos.pending_commit` | `ApplyCommits`, ordering at claim time, merged plan, `applyPlan` | order, gaps, exactly-once across workers |
| Repositories (`store/sqlite/repos.go`, `app/repos.go`, `app/ingest.go`) | table `repos`: status, claim and its age, cursor, active flag | claim, status, reset, add, delete, webhook sync, working set | the claim is the only mutual exclusion between passes, it expires, and add, delete and the working set do not take it |
| Service life cycle (`app/service.go`, `server/bootstrap`, `cmd/ragota`) | open stores, background tasks, base context | check a configuration, build, serve, shut down | partial wiring, deferred teardown under writers |
| Index pass (`app/indexing.go`) | snapshot of file rows, window, failed files | walk, stale sweep, scan, fan-out over indexers, file rows, tail | four stores without a common transaction, a tree that changes meanwhile |
| Vector pipeline (`index/vector`) | two bounded channels, workers and writers, per-file outcomes | produce, pack, embed, store, cancel | a stage that stops reading, a file settled twice |
| Vector store (`store/qdrant`, `pkg/httpx`) | the collection, the cached width | ensure, upsert, delete, heal, retry | races to create, drops under the cache, lost answers |
| Keyword index and symbol cache (`index/bm25`, `index/chunk.go`, `index/symbols.go`) | documents, segments, cache entries and their order | window, remove, compact, put, take, evict | symbols of another version, stale chunks, merges in the background |
| Watcher and budget (`server/watch`) | watches, pending batch, timers, watch budget | record, list, flush, requeue, forget | lost events, debounce against maximum delay, busy repositories |
| Progress bus and dashboard (`server/progress`, `server/tui`) | ring log, subscribers, snapshots on their way | publish, subscribe, cancel, read, redraw | wakeups outside the lock, one-slot channels |
| Request gate (`server/api`) | buckets per client | authenticate, allow, clean up, scope | fractional refill, clients behind proxies |
| LSP client (`lsp/client.go`) | waiting calls by id, read loop | call, answer, time out, break, close | an answer racing its timeout, a dying read loop |
| Symbol refiner (`lsp/refiner.go`, `chain.go`) | none (units of the window) | ask, merge, fold its result into the AST indexer's | one file, one language or all of them failing |
| AST indexer, package stage (`index/ast/indexer.go`, `wrappers.go`) | what a batch's files found | follow helpers, name tables | which files share a batch |
| Call refiner (`lsp/calls.go`) | plan over the call edges | ask, plan, apply | overlapping references in any order |
| Linker (`graph/linker.go`) | edges of every repository and their targets | link local and contract edges, resolve topics, derive flows | works on everyone's rows beside other passes, store calls that fail half way |
| Graph queries (`graph/graph.go`, `trace.go`, `context.go`) | none (bounded search) | path, trace, expand, services | cycles, limits, eviction |
| Relational store (`store/sqlite`, `store/postgres`, `store/query.go`) | the tables | every writing method, unit queries, migrations | two backends that split the same method differently |
| Search and promotion (`search`, `app/promote`, `app/active.go`) | the working set | fan-out, fusion, rerank, promote | searchers that fail, scores of different scales |
| Sources (`repos`, `repos/git`, `pkg/gitignore`, `config/ignore.go`) | clones known in memory, cached verdicts | discover, detect services, clone, remove, walk, match | restart between clone and record, three readers of the same rules |
| MCP server and client (`mcp/server`, `client`) | the cached repository listing | resolve, search, context, index, probe | stale names, lost answers, empty answers of broken indexes |
| Enrichment and coverage (`app/enrich`, `app/coverage.go`) | notes, summary rows and documents, the coverage row | tally, recon, summaries, symbol summaries | a model that fails or answers anything, files that change in between |
| Extraction per language, LLM clients, rendering, read handlers | none | | text, encoding |

How they interact. Requests, the webhook, the watcher and the poller all end in the same
three steps: claim the repository (one conditional UPDATE), run a pass, write the terminal
status, which releases the claim. In distributed mode `StartIndex` and `ApplyCommits` put a
row into `index_jobs` instead and some instance's poller takes it; the watcher and the
webhook never use the queue and so compete with it for the claim. A pass reads the tree,
the file rows and the plan, drives the three indexers concurrently, and stores file rows
last; the hash in a row is what a later pass skips a file by. The AST indexer hands symbols
to the keyword indexer through the symbol cache. The tail of a pass tallies contract
coverage, writes summaries and links the edges of every repository. A commit pass that left
nothing unapplied moves the cursor, which is what clients resume from. Searches read the
stores while passes write them; agents reach them through the MCP server, the Go client and
the request gate. Every part publishes to the progress bus.

What makes each part correct is stated by the properties of section 3.

## 2. Modules

| Module | Models | Role |
|---|---|---|
| `JobQueue` | the `JobStore` statements over `index_jobs` | the abstract specification of the queue: every statement by any worker at any moment |
| `IndexService` | pollers, request handlers, repository rows, cursor, start and stop of instances | EXTENDS `JobQueue`; composes queue, claim and workers |
| `IndexPass` | `doIndex`, `applyPlan`, `indexFileSet`, `removeIndexedPaths` and what the indexers leave behind | what "a pass landed" in `IndexService` means |
| `Watcher` | `server/watch`: kernel events, watches, budget, batches, passes of the watcher | one repository's event loop beside full passes |
| `LspClient`, `Calls` | `lsp/client.go`; the promise of a request-response client | the client is shown to implement `Calls` |
| `VectorPipeline`, `FileOutcomes` | `index/vector`; the promise of `Indexer.Index` | the pipeline is shown to implement `FileOutcomes` |
| `VectorStore` | `store/qdrant` and its retrying HTTP | several writers and processes over one collection |
| `KeywordIndex` | `index/bm25`, the chunker, the symbol cache | both indexers over one window |
| `LinkMatch`, `LinkLookups` | how the linker picks one target; every small set of candidates | used by `CodeGraph` |
| `CodeGraph` | store stage of the AST indexer and the linker's run, call by call | passes of two repositories |
| `GraphWalk` | `Path`, `Trace`, `Expand`, `ServicesGraph` | recursive functions against reference definitions |
| `SqlStore` | the writing methods of both backends, transaction by transaction | two databases and an ideal one |
| `UnitLookup` | `QueryUnits` | a lookup beside a pass |
| `Migrations` | `sqlite.Open`, `postgres.Open` | both ladders, racing openers |
| `Retrieval` | hybrid search, scope, promotion | one request, stage by stage |
| `CallRefiner` | `lsp/calls.go` | one pass over one file of call sites |
| `SymbolRefiner` | `lsp/refiner.go`, `chain.go`, attribution of failures | passes over a window of two languages |
| `Refiners` | both passes over language servers | composes `CallRefiner` and `SymbolRefiner` |
| `Sorting` | `InOrder`: the elements of a set as the code's sorts leave them | used by `UnitLookup` and the refiners |
| `PackageLinks` | package stage of the AST indexer, `wrappers.go` | batches of files of two directories |
| `Enrichment` | coverage, recon, summaries, symbol summaries | the tail of a pass over several passes |
| `RepoCatalog` | add, delete, working set | requests beside a pass |
| `GitClones` | the git source under add and delete | two stores and memory, restarts |
| `IgnoreRules` | `.gitignore` rules, configured patterns, walk, push and watcher | three readers of one checkout |
| `SourceLayout` | discovery and service detection | pure algorithms |
| `AgentGateway` | MCP tools, Go client, retries, handlers | a question end to end over lossy exchanges |
| `ApiGate` | authentication, rate limit, scope | requests over time |
| `ProgressBus` | the bus and the dashboard | publishers and subscribers |
| `Startup` | configuration check, wiring, serving, teardown | one process from start to exit |
| `MCIndexService`, `MCIndexPass`, `MCGraph`, `MCLive`, `MCStores`, `MCServer` | | instances of the runs |
| `IndexServiceProofs` | | theorems of `JobQueue` and `IndexService` |
| `IndexPassProofs` | | theorems of `IndexPass` |
| `LiveProofs` | | theorems of `LspClient` and `Watcher` |
| `GraphProofs` | | theorem of `CodeGraph` |
| `StoreProofs` | | theorems of `KeywordIndex` and `Migrations` |
| `SymbolProofs` | | theorems of `UnitLookup` and `Refiners` |
| `ServerProofs` | | theorems of `ApiGate`, `ProgressBus`, `AgentGateway`, `Startup`, `RepoCatalog` and `GitClones` |
| `VectorProofs` | | theorems of `VectorPipeline`, `VectorStore` and `Enrichment` |

### JobQueue

`jobs` is the table by row id, `lastId` its AUTOINCREMENT counter, `sweep` per worker the
rows its running stale sweep has selected (the cutoff is computed once, the two statements
then look at the table). One action per SQL statement: `EnqueueIndexJob` (the upsert that
ORs `force` into the pending row), `EnqueueCommitJob`, `ClaimNextIndexJob` (oldest pending
row), `HeartbeatIndexJob`, `CompleteIndexJob` (guarded by worker and status),
`ReleaseIndexJob` and `SupersedeReleased` (the two statements of a release), `SupersedeStale`
and `RequeueStale` (the two statements of a sweep; a collision with the partial unique index
`idx_index_jobs_pending_repo` makes the statement fail as a whole). A heartbeat is "fresh" or
"stale"; `HeartbeatAges` is the clock. A batch is a run `first .. last` of a linear history in
which commit `c` has the parent `c - 1`.

### IndexService

A process is the poller of an instance or one of its request slots; `proc[p].pc` names the
call it makes next, so that every store call of `pollIndexJobs`, `runQueuedJob`,
`ApplyCommits`, `StartIndex`, `runIndex` and `runApplyCommits` is one atomic step and
anything may happen between two of them. `proc[p]` also keeps what was read before: the
order of the batch relative to the cursor is computed from the row read in `LoadRepo`, then
acted on after the claim. `mode` is the state of an instance ("closing" after `Close`, when
its base context is cancelled: terminal writes still go through `terminalCtx`, other store
calls fail). `landed` is a history variable: the commits whose changes reached the index.
Mishaps are a crash, a shutdown, a failed write of the pending commit, cursor, status or job
row, a heartbeat that is late although the worker lives, a claim that expires under its
pass ("overrun": `DefaultRepoClaimTTLSeconds` is an hour and never renewed), a reset and a
deletion of a repository; `Mishaps` selects which kinds an instance has, `MaxMishaps` how
many.

### IndexPass

A content stands for its hash and contents are numbered; `disk` is the tree, `rows` the file
rows, `data` what each of the four stores (units, edges, keyword, vector) holds of a file.
A full pass goes `Walk` (list the tree, snapshot the rows) - removal of rows without a file -
windows of `Scan`, indexers, `StoreRows`; an incremental pass goes `Plan` (the commits merged
by `mergeCommitPlan`) - `ReadPlan` - removal - indexers - `StoreRows`. The indexers of a window
run in any order; each may succeed, fail for some of its files leaving what its code can
leave (`AstResults`, `VectorResults`), fail without naming a file (`Unattributed`), or end the
pass (`IndexEnds`). The tree changes between any two steps. `mergeCommitPlan` is written in
closed form: the last change that touches a path decides, and a rename touches both paths.
`Repeats` says what may bring back a content the index already has: forced passes, pushes
of files that are current, reverts.

### Watcher

`stream` is the kernel's queue, which overflows; `watched` the kernel's watches, `known` what
the watcher believes, and they differ between the two steps of following a new directory
(watch, then list). A batch is `pending` with what its clocks say; a flush computes the change
set, tries the claim and lands, fails or is put back. `lost`, `silent` and `dropped` are history:
the changes the code gives up, each with the place where it does so. A batch lets a file go
without a warning when its change set is empty, and when a full pass stores a file of a
vanished directory between `changeSet` and the claim: `IndexedPathsUnder`
(`watch.go:486`) has been asked by then, so the file is in neither half of the change set and
its row stays until the next full pass (`ApplyClaims` adds it to `dropped`).

### LspClient and VectorPipeline, and what they implement

`Calls` says what a caller may rely on: a request ends once, with its own answer or an error,
and it does end. `LspClient` has the registration, the write under the lock, the read loop
split into dispatch and hand-over, timeouts, duplicates and a connection that breaks between
any two; the refinement maps the encoded ids to asked calls. `FileOutcomes` says what
`Indexer.Index` promises: every file settled once, an indexed file stored with its new
content and not touched again, no error only when all are settled, and the call ends.
`VectorPipeline` is the producer, embed workers and writers over two bounded channels, with
packing, the retry of a rejected batch file by file, deletion before upsert, and
cancellation. Both refinements are checked with the abstract specification's fairness, so
they include termination.

### PackageLinks, CodeGraph, LinkMatch, GraphWalk, CallRefiner, SymbolRefiner

The linker reads and writes the rows of every repository, one store call at a time, while
another repository's pass deletes and stores its own. `Affected` and `confidenceAfterResolve`
are the two ideas behind its idempotence: which flows are recomputed, and that decay starts
from the stored base. `LinkMatch` keeps the tiers and tie-breaks of each lookup; `LinkLookups`
runs them over every small estate in every load order and compares them with a scan.
Of the failures, a link run may
end at a read or a delete, an insert of the buffered groups or of some flows may fail, and a
pass may go on without its edges; a flow keeps the id of its destination until
`DeleteASTUnitsByFiles` deletes that unit and leaves a flow to nowhere. `GraphWalk` writes the searches as recursive functions and compares `Path` with the shortest
walk and `Trace` with the best chains among all within the bounds. `CallRefiner` keeps the
line tolerance, the budget of definitions and the plan's decide-first-write-second order.
`PackageLinks` is the stage before: what the extractors found in a file is its input, a batch
is parsed, completed and stored in one step (the code holds it in memory), and the linked
edges are compared with what the files of the directory say about each site. `SymbolRefiner`
takes a window through the AST indexer, one session per language and one request per file to
the attribution of failures that decides which files get a row; its other half, `Remove` and
the session itself, are `IndexPass` and `LspClient`.

### Stores

`SqlStore` gives every writing method as a sequence of database states, one per transaction, in
each backend; a fault stops the sequence anywhere, and the call is made again. Only the SQLite
schema has foreign keys (`sqlite.go:73`, enforced by the pragma at `:333`): `cascade` drops an
edge with the unit it starts at, and `storeEdge` refuses one from a unit that is gone. An
ingest of observed service links reads the service units in a step of its own, so that a pass
may detect them anew before the link is stored. The other key, `parent_id ... SET NULL`
(`sqlite.go:54`), acts on nothing: no code gives a unit a parent. `UnitLookup` is
the two-statement page. `VectorStore` names collections by their `life`, so that a cached width
can belong to one that is gone. `Migrations` replays the two ladders of statements over
every rung and queue an earlier release may have left. `KeywordIndex` keeps the chunk
arithmetic (window, overlap) and the labels, counts segments, and leaves the rest of Bleve
external.

### Around the index

`RepoCatalog`, `GitClones` and `Startup` give each store call and each teardown step its own
action. In `GitClones` the removal of a directory may fail, or end with its process, and leave it
whole or in part (`torn` is the history of those); `DeleteRepo` collects the error and goes on to
the row, which may fail to go in turn. `AgentGateway` sends every exchange through the client's retry rules; an answer may be
lost before or after the server acted, and a proxy may replace its body. `IgnoreRules` and
`SourceLayout` enumerate small checkouts. `Retrieval` abstracts a question to what the
promotions look for in it, and scores to small integers. `Enrichment` names a sentence by
the symbol it was written about, so that a sentence at the wrong symbol shows.

## 3. Runs

| Run | Instance | Distinct states | Shows |
|---|---|---|---|
| `queue` | 2 instances, overlapping batches, a watcher beside the queue, 2 late heartbeats | 660,746 | `OnePendingIndexJob`, `CommitJobsNotSuperseded`, `PassExclusion`, `NoHoles`, `TerminalIsFinal`, `HolderDecides`, `TypeOK` |
| `orderly` | 2 instances, a client that waits for its batch, one crash, shutdown or lost write | 112,452 | `DoneMeansLanded`, `CursorNeverGoesBack`; with fairness `JobsFinish` |
| `single` | 1 instance without the queue, 2 slots, one crash, shutdown, reset, deletion or overrun | 8,608 | `PendingIsHeld`; with fairness `RepoFreed` |
| `pass` | 2 files, windows of 1, 3 edits or failures, 2 changes per commit | 929,052 | `SkipIsSafe`, `PlanApplied`, `RowsGoLast`, `Converges` |
| `live` | one directory and file under every watch fault; 2 callers, 2 requests; 3 files, 2 embed workers, channels of one slot | 139,000 | `WatcherSafe`; with fairness `WatcherLive`; the refinements `LspPromise`, `PromiseKept` |
| `stores` | eleven parts (below) | 981,189 | `LinkingSound`, `GraphSound`, `WalksSound`, `BackendsAgree`, `SearchSound`, `PageIsBestPrefix`, `VectorStoreSafe`, `RefinersSound`, `EnrichmentSafe` |
| `server` | ten parts (below) | 1,144,495 | `BusConsistent`, `LimiterSound`, `OrphansAccounted`, `NeverEmptiedByAnEdit`, `KeywordIndexSafe`, `RulesHold`, `LayoutSound`, `InterruptedCloneRetryable`, `GatewayHonest`, `StartupSafe`, `MigrationsSafe` |
| `first_batches` | 2 batches, no cursor | violation | `AppliedInOrder` |
| `force_lost` | forced and cheap requests, busy repository | violation | `ForceNotDowngraded` |
| `stop_loses_batch` | shutdown during a queued batch | violation | `StopKeepsBatch` |
| `resent_batch` | a batch and a longer one over it | violation | `DoneMeansLanded` |
| `forced_pass` | 1 file, forced passes, 1 failure | violation | `LostFilesRetried` |

`live`, `stores` and `server` each hold several machines that share no state. A behaviour moves
one of them, chosen in the initial state, and the others rest in one initial state: the
state space is the sum of theirs, and a property of one machine is checked in every state
that machine reaches. `RulesHold` says `RulesSound` of the checkouts of its own part.

What the properties of those three runs say:

| Property | Says |
|---|---|
| `WatcherSafe` | every change is in the index, on its way, or among those the code gives up (`lost` with a warning, `silent` and `dropped` without); the budget is within its bounds |
| `WatcherLive` | a gathered batch is applied although events keep coming; once the tree rests the index catches up |
| `LspPromise` | the client implements `Calls`, and its reader never blocks on a caller |
| `PromiseKept` | the pipeline implements `FileOutcomes` |
| `LinkingSound` | a target does not depend on load order, and an indexed lookup finds what a scan would (`LookupsSound`); a call site gets its own file's route, else its directory's, once, and the coverage gap is the sites left without one (`PackageLinked`) |
| `GraphSound` | at rest, the flows that still have a destination are the join of their two sides, except under topics a failed run left behind; confidences do not wear down over repeated passes |
| `WalksSound` | `Path` and `Trace` answer the best within their bounds; a link between services can be walked |
| `BackendsAgree` | after a call that failed half way has been made again, both databases hold the rows, duplicates counted, of one that never failed, except that SQLite drops the `runtime_call` edges of services detected anew |
| `SearchSound` | the served order is the order of the scores, and every hit obeys one repository selector |
| `PageIsBestPrefix` | the page of two statements is the best prefix of all matches, whatever ids rows drew |
| `VectorStoreSafe` | a width that was compared holds; the cache never turns a recoverable state into a failure |
| `RefinersSound` | the call refiner takes back only what evidence denies, and points an edge only at a definition that names it (`EvidenceWins`); a file later passes skip holds the units of its content, and lacks a symbol of its server only if its language or its whole pass went unrefined (`SymbolsMerged`) |
| `EnrichmentSafe` | a note describes the symbol it stands on, summaries replace their predecessors, coverage counts a whole pass |
| `BusConsistent` | a snapshot's log is the suffix of what was written; a dashboard behind the surface has a wakeup or a read coming |
| `LimiterSound` | never more than the burst; a client that waited its Retry-After is let through |
| `OrphansAccounted` | data without a repository row was written under the deletion or survived a failed step |
| `NeverEmptiedByAnEdit` | a search comes to answer from nothing only by an edit that asked for it |
| `KeywordIndexSafe` | documents are exactly the chunks of the content read, labelled by that content's symbols; the cache is bounded; a compaction that reports success is one segment |
| `RulesHold` | a walk lists what git would show; walk, push and watcher agree |
| `LayoutSound` | discovery finds outermost repositories; services tell apart the files they own |
| `InterruptedCloneRetryable` | a failed or interrupted clone leaves nothing the next one trips over (a failed or interrupted removal does, and is excepted); a delete removes its own clone |
| `GatewayHonest` | absence is reported by whole indexes only, an unknown name by a fresh listing, and a busy answer is never caused by the call itself |
| `StartupSafe` | a configuration the dry run accepts is wired, a refused build releases what it opened, writers end before their store |
| `MigrationsSafe` | the database is always one rung, an open is refused only after a race, no queued job's repository loses its turn, both ladders end alike |

Bounds. In the service runs, `Repos` has one repository: rows of different repositories meet
only in the choice of the oldest pending job. Two workers are enough for a job to change
hands and come back; two late heartbeats let both workers lose a job. Two requests give two
jobs of one repository in either order, and overlapping batches make one of them already
applied or too early when the other has landed; `single` allows three so that a pass, a
competitor and a successor meet. One mishap at a time in `orderly` and `single` because each
guarantee of the code is against one failure; the proofs below hold for any number. In
`pass`, windows of one file over two files give a pass of several windows, and three events
allow a failure, a change of the tree and a second failure during the retry; two changes
per commit give every rename, replacement and delete-after-add.

In `live`, a stream of two events overflows on the third, and one directory with one file
can be made, removed and made again while it is being listed; two calls with two replies
each give late, repeated and crossed answers; three files over channels of one slot with two
workers and a pack of two make every stage wait on the next, and one file of a pack fail
beside the other. In `stores`, two repositories with two versions each and three passes let a
pass of one fall between any two calls of the other's linker, with one failed call; eleven
edges over five units hold a cycle, two writers of one table and two implementations of a
contract, with bounds low enough to cut; three store calls with one fault make a call fail, be
repeated and be followed by another; two workers, two widths and a drop give every race to
create; two batches over three files in two directories parse a caller with and without its
helper, and two faults over two languages fail a file, a language or both. In `server`, three
entries wrap a ring of two; a burst of two at two thirds of a token per
tick makes tokens fractional; two admins and one pass give every interleaving of a deletion
or an edit with each other; a cache of one entry evicts; a text of more lines than a window
has several chunks and shrinks to fewer; three repositories over colliding directory names
and a restart strand clones, and a removal that fails is followed by the deletion of the row, a
second attempt or a restart; three store calls are enough to detect services, ingest a link and
detect them again; two askers over one cached listing make one refresh it for the
other. Every bound is a named CONSTANT of its module (`Max...`). Deadlock is not checked where
a bounded client has made all its requests and the system rests (`CHECK_DEADLOCK FALSE`); the
pass can always start again, so its deadlock check stays on. That no stage of the pipeline
and no call of the LSP client hangs is part of the refinements instead.

Fairness. `FairSpec` of the service: a running process makes its next call; a poller polls,
and sweeps again and again, because `startJobPoller` calls `pollIndexJobs` on every tick and
the sweep is its first statement; `Close` ends when the goroutines are done; a stopped
instance is restarted (`restart: unless-stopped`, `deploy/docker-compose.yml:63`); time passes
for claims and heartbeats nobody renews. Nothing forces requests or mishaps. The sweep needs
strong fairness since a poller that is running a job is not sweeping. `Converges` needs no
fairness: its premise says that full passes keep finishing, and `MaxEvents` bounds edits and
failures. In `live` the fairness is the conjunction of three: the watcher's loop keeps running,
its `select` picks among ready channels at random and so does not starve the tick (strong
fairness of `flush`), other passes end and clocks advance; a call's own steps are taken, timers
included, and nothing at all is assumed of the server; every goroutine of the pipeline runs
on. A machine at rest has none of its fair actions enabled, so the conjunction asks nothing
of it.

Findings. Five statements of the repository do not hold of its code:

1. *First batches* (`app/commits.go:522`): while `last_commit` is empty every batch is "next",
   so two workers can apply two batches in the wrong order; `openapi.yaml:413` promises the
   order of acceptance.
2. *Force lost* (`store/sqlite/jobs.go:195`): the release drops a forced job beside a pending
   cheap one and its flag with it; `store/interface.go:139` says a forced reindex is never
   downgraded.
3. *Stop loses batch* (`app/jobs.go:345`): a shutdown records "context canceled" as the final
   result of a batch instead of returning it to the queue; `app/commits.go:66` and
   `openapi.yaml:410` say another worker takes over.
4. *Resent batch* (`app/commits.go:525`): a batch that merely contains the cursor counts as
   applied; its tail is dropped and the job ends as done.
5. *Forced pass* (`app/indexing.go:423`): a forced pass that fails on an unchanged file leaves
   the old row with the current hash, so non-forced passes skip a file a store has lost;
   the comment at `app/indexing.go:349` says this is what the missing row prevents.

Known, and not a run of their own. `TopicEdgesOfSources` of `CodeGraph` says that at rest the
`produces` and `consumes` edges are those of the parsed sources; the code does not keep it:
`rewriteEdgeGroups` (`graph/linker.go:939`) deletes groups it read earlier, so an insert that
fails, or another repository's pass in between, loses or revives edges until the next pass
of their repository. `FlowsAreTheJoin` says that at rest every derived flow has a consumer, as
the doc of `deriveKafkaFlows` (`graph/linker.go:1349`) promises of removed consumers; the code
compares `f.DstRepoID` with the repository being linked (`graph/linker.go:1390`), but deleting
the consumer's unit has already emptied that column (`store/sqlite/ast_units.go:116`), so a flow
to nowhere stays until its producer's repository is linked again. TLC finds this without any
failure. What does hold is `ResolvedFlowsAreTheJoin`, a part of `GraphSound`. `BackendsMirror` of
`SqlStore` is "schema and semantics mirror the SQLite backend" (`store/postgres/postgres.go:5`) to the
letter, and does not hold: the Postgres schema (`postgres.go:45-79`) has no foreign keys. Detect
services, ingest a runtime service graph, detect services again, with no failure anywhere:
`DeleteASTUnitsByKind` takes the `runtime_call` edges with the old units in SQLite and leaves them in
Postgres, pointing from units that are gone. When the detection falls between the ingest's read and its
write, SQLite refuses the edge and the ingest returns an error, while Postgres stores it. What does
hold, and is the second half of `BackendsAgree`, is that no other kind of edge is ever left so.
The following are behaviours of the code that the models contain and
the properties name as exceptions or leave open: symbol summaries are inserted as additional
rows on every run, although `app/enrich/symsum.go:184` calls a re-run idempotent; a file
re-annotated by symbol summaries drops the notes it had; summary documents of files with the
same base name overwrite each other; a coverage summary counts as complete when files could
not be read; a configured whole-path pattern prunes the walk but does not stop a push
(`app/commits.go:318`); some settings pass the dry run and are refused by `Build`
(`UncheckedSetting`); watches of removed directories are not given back to the budget; clones
are stranded by a restart or a row that could not be stored; a removal that fails or is cut off
(`repos/git/git.go:137`) leaves a directory, whole or in part, whose row `DeleteRepo` deletes all the
same (`app/repos.go:97`), and the next `AddRepo` is refused (`git.go:215`) until somebody removes it by
hand; a dashboard may draw an older
snapshot after a newer one; a notify may meet the channel a cancelled subscription has
closed; two concurrent edits of the working set lose one; `AddRepo` may restore a row deleted
since it read it; the loser of a race to create the vector collection caches a width it did
not compare. `lsp/chain.go:18` says the symbol refiner's errors "never fail the indexing run",
but they decide rows: a file whose request failed gets none, and a language that has no
symbol in a window counts all its files as failed under an entry that names no path
(`lsp/refiner.go:218`), so `attributeFailures` falls short and, unless every language of the
window failed, no file of it gets a row, pass after pass, also when the language rightly has
no symbols there. `index/ast/indexer.go:379` says a table left unresolved by an incremental
run is resolved by "the next full pass" and shown by the coverage report; a full pass that is
not forced skips the unchanged file, and a partial pass keeps the previous coverage.

Every property of a passing run has a mutant in `PROJECT.json`: a plausible bug in one mapped
definition (defined just before it) under which TLC finds the property violated. Where a
property has several conjuncts, the other mutants beside the definitions break the others.

## 4. Theorems

All are proved for any set of workers, slots, repositories, batches, files, windows, watched
trees, callers, pipeline workers and dashboards, and any bounds on requests, mishaps, edits,
retries and failures. Types are part of every inductive invariant and left out of the table.

| Theorem | States | Hypotheses | Inductive invariant |
|---|---|---|---|
| `QueueTypeCorrect` | `QueueSpec => []QueueTypeOK` | | itself |
| `OnePending`, `NotSuperseded` | the row invariants of the queue | | themselves, with types |
| `TerminalRowsFinal` | `TerminalIsFinal` | | types |
| `TypeCorrect` | `Spec => [](TypeOK /\ ProcInv)` | | `TypeOK /\ ProcInv` |
| `ServiceImplementsQueue` | `Spec => QueueSpec` (refinement, the queue's variables map to themselves) | | `TypeOK /\ ProcInv` |
| `ServiceQueueSafe` | the three queue guarantees, of the service | | by refinement |
| `Exclusion` | `PassExclusion` | no overrun, reset or deletion under a pass | `PassHoldsClaim` |
| `CursorHasNoHoles` | `NoHoles` | a cursor exists, no deletion | `ChainInv` |
| `PassTypeCorrect` | `TypeOK` of the pass | | itself |
| `RowsGoLastAlways` | `RowsGoLast` | | `Swept` |
| `PlanAppliedAlways` | `PlanApplied` | | `Swept`, `Indexed`, `Accounted`, `Landed` |
| `SkipIsAlwaysSafe` | `SkipIsSafe` | `Repeats = {}` | `Indexed`, `Fresh`, `Snapshot`, `OnlyStale` |
| `HolderAlwaysDecides` | `HolderDecides` | | `TypeOK /\ ProcInv` |
| `DoneIsLanded` | `DoneMeansLanded` | a cursor exists, no deletion, `BatchesEndApart` | `JobInv`, `ChainInv`, `ResultInv`, `NoHoles` |
| `CursorMovesForward` | `CursorNeverGoesBack` | clients wait for their batch, no late heartbeat | `JobInv`, `OneBatchInv` |
| `PendingBatchIsHeld` | `PendingIsHeld` | no queue, the closing status write succeeds, and no crash or else no reset, deletion or overrun | `PassHoldsClaim`, `PendingInv` |
| `WatcherIsSafe` | `WatcherSafe` | | `WatcherInv`: `WatcherShape`, `FileAccounted`, `BudgetBounds` |
| `ReaderIsFree` | `ReaderNeverBlocks` | | `LspInv`: `IdsOwned`, `FreshIds`, `AnswersFlow` |
| `ClientImplementsCalls` | `LspSpec` implies the safety part of `Calls` (refinement) | | `LspInv` |
| `PipelineImplementsOutcomes` | `PipeSpec` implies the safety part of `FileOutcomes` (refinement) | | `PipeInv`: `StagesInOrder`, `FileInOnePlace` |
| `VectorStoreIsSafe` | `VectorStoreSafe` | | `VectorInv`: `LivesInOrder`, `CallsKeepWidth`, `CalmCallsSeeIt` |
| `LeftoversAccounted` | `OrphansAccounted` | | `CatalogInv`: `NoneUnaccounted`, `PassedStoresAccounted` |
| `WorkingSetKept` | `NeverEmptiedByAnEdit` | | `CatalogTypeOK` |
| `ClonesRetryable` | `InterruptedCloneRetryable` | | `ClonesInv`: `ClonesInPlace`, `ClonesTracked`, `ClonesAccounted` |
| `RetryAfterIsHonest` | `RetryAfterHonoured` | | `GateInv`: `BucketSound` |
| `LimiterIsSound` | `LimiterSound` | `RefillsWhileIdle` | `GateInv`: `BucketSound` |
| `BusIsConsistent` | `BusConsistent` | | `BusInv`: `RingHolds`, `Counted`, `DashboardsOpen`, `Senders` |
| `GatewayIsHonest` | `GatewayHonest` | | `GatewayInv`: `CallSound`, `AnswerSound` |
| `EnrichmentIsSafe` | `EnrichmentSafe` | | `EnrichInv`: `CodeSound`, `NotesInPlace`, `OneSummary`, `OneRecon`, `PassSound`, `CoverageSound` |
| `GraphIsSound` | `GraphSound` | | `GraphInv`: `TablesInv`, `PassesInv`, `MutexInv`, `RunInv`, `FlowsInv`, `ScoresInv` |
| `KeywordIndexIsSafe` | `KeywordIndexSafe` | | `KeyInv`: `WindowsInv`, `CacheInv`, `DocsInv`, `SegmentsInv` |
| `MigrationsAreSafe` | `MigrationsSafe` | | `MigrationsInv` |
| `PageIsBest` | `PageIsBestPrefix` | | `LookupInv`: `CorpusOK`, `PageOK` and what the first statement returned |
| `RefinersAreSound` | `RefinersSound` | | `RefinerInv`; `SymbolInv`: `FilesOK`, `RowsHold`, `Visits`, `Progress` |
| `StartupIsSafe` | `StartupSafe` | | `StartupInv`: `VerdictStands`, `StoreOutlivesWriters`, `RefusedReleases` |

Why the strengthenings are needed. `PassExclusion` alone does not survive a claim: it has to
be known that every pass runs under a live claim of its own instance (`PassHoldsClaim`), since
that is what makes the conditional UPDATE of a second one fail. `NoHoles` alone does not
survive `WriteCursor`: `ChainInv` says that a batch past its order check continues what has
landed - also when the cursor moved after the check, because the cursor only ever moves onto
landed commits - and that one about to move the cursor is itself landed. `NoHoles` therefore
needs no exclusion and holds even when claims are overrun or reset. For the plan,
`Accounted` says that no path of the plan is forgotten between reading and the end, `Swept`
and `Indexed` what the indexers that have already run have achieved. For `SkipIsSafe`, the
heart is `OnlyStale`: a pass touches only files whose row is not what is on disk, and a new
content is always newer than every row (`Fresh`); `Snapshot` carries the rows read at the
start to the scan. Without `Repeats = {}` the property is false: `forced_pass` is the
counterexample.

*The service.* `HolderDecides` needs to know only who writes which row: a step that takes a
row out of `running` is the holder's own, or a sweep's, and a sweep picks rows whose heartbeat is
not fresh. `DoneMeansLanded` follows the answer "already applied" back to the cursor:
`ResultInv` says that the cursor stands at the start or at the end of a batch, so that, when
batches end apart, a cursor behind a batch's last commit is behind the whole batch; `NoHoles`
then says that it landed. Without `BatchesEndApart` it is false: `resent_batch` is the
counterexample. For `CursorNeverGoesBack` the heart is that a repository has one
unfinished batch, in a request or in one row (`OneBatchInv`), and that a poller holds the job it
runs; a late heartbeat gives a job two runners, and the slower one writes its cursor last.
`PendingIsHeld` has hypotheses because a pass clears the pending commit only while it owns the
row: `PendingInv` says that what is published is being applied, or the instance that applied it is down
and the row still says `indexing`, which is what the recovery of the next start looks for. A
reset between claim and publication followed by a crash breaks exactly this (the row says
idle, so the recovery leaves it alone): TLC finds that behaviour with two mishaps, which the
`single` run does not allow. A failed closing status write leaves the pending commit in the
row in the same way.

*Watcher.* `FileAccounted` follows a file through the watcher. `StaleAhead`: what the index will hold
once a running full pass has stored differs from the disk only if a read or a removal is
still ahead. `BackAgain`: a file of a directory that vanished and came back is read after the
batch that removes it. `GoneSince`: one that vanished after the change set was made has a
removal of its own coming. The proof for several files in one directory is what showed the gap
between `changeSet` and the claim described in section 2; a directory with one file, as in
`live`, never meets it, because there the change set is empty and the batch ends.

*LSP client.* A channel is registered, being filled, or full, never two of these
(`AnswersFlow`), since the read loop takes the id out of `pending` before it sends; and an id has
one caller (`IdsOwned`). The reader's send therefore finds a channel of capacity one empty.

*Vector pipeline and store.* `FileInOnePlace` says that a file is in exactly one of the producer's
list, a channel, a worker's group, a writer or the settled ones, which makes "settled once" and
"nothing left over" inductive; `StagesInOrder` says which stages have closed when. For
Qdrant, `LivesInOrder` gives every creation of the collection a life: a cached width, a call's
comparison and a stored point are of a life no later than the collection's and, if of the same
one, of its width. `CalmCallsSeeIt` says what a call that met no drop may rely on.

*Enrichment.* `NotesInPlace` says that notes at the wrong lines are only on cards of a version the
file row does not record, so that the next pass over that version builds new ones: the rows a
sentence is stored beside are of the recorded version (`CodeSound`), and cards built from an edited
file are of another. The invariant is not inductive for a file whose units were stored by a
pass that then failed on its documents, and there the property is false, which TLC shows with
three passes, two edits and two failures: units of the new version are annotated, the file is
changed back to the recorded version before it is read again, a forced pass stores the
units and fails on the documents once more, and then row, units and documents agree on the
version while the notes are at the lines of the other one. No later pass that is not forced
visits the file. Such files are the history `torn`, and `NotesDescribeTheirSymbol` excepts them
until a pass completes them; the run's bounds are below that behaviour.

*Graph.* Between two steps of a run flows and their join may differ; `FlowsInv` says for whom. A pair
of repositories may disagree while one of them still owes a link (`Owing`: its pass has
deleted or stored rows and its run has not reached the topics of this pair), or under a topic that the
run holding the mutex has touched or taken for affected, or that a failed run left behind
(`broken`); for the taken topics what the run is about to store agrees instead. Three facts make
it inductive. The mutex (`MutexInv`): only one run is between reading edges and writing them. The
ids (`TablesInv`): no number is given twice, so that a pointer to a unit is to a unit of the
repository it names, or to nothing. And `RunInv`: a run has touched the topic of every group it
rewrites, and takes every topic it touched for affected before it derives, also that of a
producer of *another* repository it re-pointed (`graph/linker.go:1354`). For scores, a write that
resolves a call computes from the base kept beside the score, never from the score (`WritesOK`).

*Keyword index.* `WindowsInv` says that what a window has written so far are the chunks of the texts
its sweep read, and that the stale chunks it looked up are still all there are, because no other
batch of the repository runs at the same time. `CacheInv` says that whatever the cache holds of a
path and a hash is what a parse of that text gives, so that a label does not depend on
who parsed it. A key that left the cache and came back is in the eviction order twice; the
places of the order whose key is live are at most the entries and twice the capacity, and
that is what keeps the order itself within three times the capacity after `evictLocked` compacts it.
That the chunks of a text cover every line of it and nothing else is proved for any window and
overlap.

*Migrations.* Twelve levels describe what each version of the schema holds, each ladder is proved to
climb from one level to the next statement by statement, and `MigrationsInv` says where an
opener stands relative to the database: the versions it read are a prefix of those recorded,
it was refused only after the database moved on, and it is open only at the top. A
migration that was recorded since the opener read them fails as a whole. The migration that
sets up the unique pending job deletes only rows of repositories that keep another.

*Unit lookup.* Between its statements an undisturbed lookup holds the whole first tier in rank order
(`LookupInv`). The rows of the second are in no earlier tier, so the two pages joined are ranked by
one order; the work is to show that joining two sorted parts and cutting at the limit is the
same as sorting all and cutting, which holds because each
order is total on the rows (its last keys are the place and the id), so that a sorted sequence
is unique. Under commits
only the distinctness and the length of the page are claimed, as in the property.

*Refiners.* For the symbols, `Progress` says that a file of the window the parser did not fail on has
exactly the parser's units while it waits for its language (`Waiting`), and afterwards those of
its server too, unless its failure is counted (`Accounted`). `Visits` says which languages and
files are still ahead, each once, and that an empty language leaves a failure without a name;
counting the names against the failures (`Unattributed`) then shows that `storeWindowRows`
gives no row to any file of that window. `RowsHold` carries the result over later passes and edits. For the calls, `RefinerInv`
says that while definitions are asked about the edges stand as they were, that every claim is by a definition one of whose references is
nearest to the edge, and that every edge nearest to a reference of a completed definition is claimed.
`CallRefiner` fixes three definitions, of which two share a name; the theorem is for any lines, tolerance, budget and answers
about those.

The chunker, the eviction, the ladders and the merge of symbols are recursive functions. The induction theorems of
the library take an operator and are out of reach; in these proofs the property is a *set* of
numbers instead, and induction over it follows from the least number principle
(`WFMin`, `NatLessThanWellFounded`). Where the value of a recursive function is needed, it is first
proved, once per function, that its defining equation has a solution.

*Catalog and clones.* `PassedStoresAccounted` adds to `OrphansAccounted` what a deletion has
already put behind it: a store it has passed is empty, or a pass wrote to it since, or its step failed. For
the clones, `ClonesTracked` says that a clone moved into place and not yet remembered cannot be
removed by anybody else, and that a directory is remembered for one repository only, so that a removal
that fails tears no other clone; `ClonesInPlace` says that only a removal leaves part of a clone, and
`ClonesAccounted` which row, request or stranding explains a whole one.

*Limiter and bus.* `BucketSound` weighs what was let through against the tokens plus the refill since
the bucket was last seen. A forgotten bucket gives nothing away if the idle time refills
it completely, which is the hypothesis `RefillsWhileIdle`: the cleanup forgets a client after five
minutes, and the default burst is one minute's worth of requests. The code accepts a larger
burst; above five minutes' worth a client comes back to a full bucket before the rate has
filled it. That Retry-After is long enough needs no hypothesis. `RingHolds` says where in the ring the i-th of the newest entries
is, before and after the ring wraps.

*Gateway and startup.* `CallSound` says since when the listing a call refers to has been fetched, and
that a call that starts a pass reaches the server at most once (the client does not retry it).
`VerdictStands` relates the configuration a check accepted to the one the wiring reads,
`StoreOutlivesWriters` the order of the teardown to the goroutines that still write. The one
assumption is that a profile is a well-formed configuration record.

Hypotheses are the named assumptions of the modules (`NoWorkerAssumption`, `ReposAssumption`,
`BatchesAssumption`, `ServiceAssumption`, `SingleInstanceAssumption`, `PassAssumption`, `WatchAssumption`,
`LspAssumption`, `PipelineAssumption`, `VectorStoreAssumption`, `CatalogAssumption`,
`GitClonesAssumption`, `GateAssumption`, `BusAssumption`, `AgentGatewayAssumption`,
`StartupAssumption`, `EnrichAssumption`, `CodeGraphAssumption`, `KeywordIndexAssumption`,
`MigrationsAssumption`, `UnitLookupAssumption`, `RefinerAssumption`, `SymbolAssumption`), which TLC evaluates in the runs, and the ones in the table, stated as ASSUME of the
theorem. The named assumptions say that bounds are numbers and that sets
of names are what they are used as; the graph's, that a parse gives finitely many units and edges,
that an edge starts at a unit of its own parse and that no parser emits a derived flow; the keyword index's,
that the overlap is smaller than the window; the symbol refiner's, that files are finitely many and numbered in the order
they are read in, that what a parser and a server report are sequences, and that the languages have one order.

Only model-checked:

- liveness, which is outside the prover's reach: `JobsFinish`, `RepoFreed`, `Converges`, `WatcherLive`,
  and the fairness halves of `LspPromise` and `PromiseKept`;
- properties of pure algorithms and of definitions that fold or recurse over data, where a proof
  for every input is an induction over that data: `LinkingSound`, `WalksSound`,
  `BackendsAgree`, `SearchSound`, `RulesHold`, `LayoutSound`.

`PassTypeCorrect` is proved and has no run of its own. `ReaderNeverBlocks` is a conjunct of `LspPromise`.

## 5. What the models leave out

- Reads of the store succeed unless the context is cancelled; writes may fail where the code
  only logs the failure.
- In `IndexService`, `DeleteRepo` and `AddRepo` are one step each; their steps are in
  `RepoCatalog`, where a pass in turn is reduced to what it writes.
- A finished commit job keeps its batch in the model (the code drops the payload): the
  history is needed to say what was done.
- In `IndexService` a pass is one step that lands or not; a full pass adds nothing to
  `landed`, which speaks of commits.
- The walk of the tree is one step of `IndexPass`; which files it lists is `IgnoreRules`. Size
  limits and files without vectors are not told apart from other files.
- Edges that could not be stored are only logged by the AST indexer, so `SkipIsSafe` and
  `PlanApplied` speak of units, keyword documents and points.
- The stale sweep starts from file rows; documents of a file that never got a row are not
  found by it (`app/indexing.go:741`). `Settled` asks for no row, not for no documents.
- Rows leave the tables of `CodeGraph` by a pass over another content, which ends in a link
  run; `DeleteRepo`, which starts none, is in `RepoCatalog` only, and what flows other
  repositories keep to a deleted one is not asked.
- The tail of a pass is one step of `IndexPass`; its parts are `Enrichment` and `CodeGraph`.
- Reads of the SQL backends other than the unit lookups, and the text of queries.
- The deletion of a run's derived flows is one step of `CodeGraph`; the code deletes topic by topic
  (`graph/linker.go:1397`), and stops at the first that fails.
- In `ApiGate` the address behind a trusted proxy comes from `X-Forwarded-For` only; `X-Real-IP`
  (`ratelimit.go:128`), read when that header is missing, would only choose another bucket.
- In `Enrichment` a file that fails to parse still has counters (`index/ast/indexer.go:158` skips them).
- Glob patterns inside a path component, except a star; symbolic links.

Not modelled, and why:

- *Extraction per language* (`index/ast/lang_*.go`, `frameworks.go`, `messaging.go`, `strings.go`,
  `aliases.go`, `filectx.go`, `parser.go`, `route_generic.go`): pure functions from
  syntax trees to units and edges. What they find depends on grammars and text; a model
  would be a second implementation. Their results are the inputs of `PackageLinks` and
  `CodeGraph`.
- *Contract keys* (`internal/contract`): normalisation of strings; the linker's models start
  from normalised names.
- *LLM, embedding and reranking clients* (`internal/llm`): encoding for external services. Their
  failures and arbitrary answers are nondeterministic in the modules that call them.
- *Rendering and read handlers* (`server/api/dto.go`, `export.go`, `wire.go`, `tui/view.go`,
  `mcp/render`, `app/nav.go`, `app/graph.go`): no state of their own.
- *Manifests, command-line helpers, test support, tools*: parsing, prompts, not the service.

## 6. Plan

What is left, in order:

1. The part of `BackendsAgree` that speaks of failures and not of what a fold computes (a call
   made again after it stopped half way).
2. Two repositories in the queue (how long a job waits behind one whose repository stays
   busy), and `landed` of `IndexService` shown to be what `IndexPass` promises.
