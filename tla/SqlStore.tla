------------------------------ MODULE SqlStore ------------------------------
(***************************************************************************)
(* The relational store behind store.Storage, twice: the Postgres backend  *)
(* (internal/store/postgres) and the SQLite backend                        *)
(* (internal/store/sqlite).  Both receive the same calls.  A call is a     *)
(* sequence of transactions; it may fail between two of them, or after     *)
(* one that committed although its answer was lost, and the caller then    *)
(* makes the same call again (the next index pass, the requeued job, the   *)
(* next start).  A third database, ideal, sees every call once and         *)
(* without a fault.                                                        *)
(*                                                                         *)
(* A statement is an operator from a database to a database.  A method is  *)
(* the sequence of databases its transactions commit, the last one being   *)
(* what the method leaves when nothing fails.  Only the SQLite schema has  *)
(* foreign keys (cascade below).  Row ids differ between the               *)
(* databases (a rolled back insert burns a Postgres sequence value), so    *)
(* callers name rows by what they hold.                                    *)
(***************************************************************************)
EXTENDS Integers, FiniteSets, SequencesExt

CONSTANTS StoreRepos, StorePaths,   \* repository ids and file paths
          PathChunk,                \* pathChunk, 400 in sqlite/edges.go
          MaxStoreCalls, MaxStoreFaults  \* bounds on the exploration

VARIABLES lite, pg,   \* the two databases
          ideal,      \* the database that never sees a fault
          due,        \* the call that failed and is made again; <<>>: none
          observed,   \* the service units an ingest has read and not used yet; <<>>: none
          calls, storeFaults

storeVars == <<lite, pg, ideal, due, observed, calls, storeFaults>>

-----------------------------------------------------------------------------
(* The tables, and the row ids both sequences hand out. *)

EmptyDb == [files |-> {}, units |-> {}, edges |-> {}, repos |-> {},
            jobs |-> {}, coverage |-> {}, seq |-> 0]

(* Statements of queries.sql and of the two backends. *)

storeFile(db, f) ==
    [db EXCEPT !.files = {g \in @ : g.repo # f.repo \/ g.path # f.path} \cup {f}]

deleteFilesByPaths(db, r, ps) ==
    [db EXCEPT !.files = {f \in @ : f.repo # r \/ f.path \notin ps}]

deleteFilesByRepo(db, r) == [db EXCEPT !.files = {f \in @ : f.repo # r}]

insertASTUnit(db, u) ==
    [db EXCEPT !.seq = @ + 1,
               !.units = @ \cup {[id |-> db.seq + 1, repo |-> u.repo,
                                  path |-> u.path, kind |-> u.kind]}]

deleteASTUnitsByFiles(db, r, ps) ==
    [db EXCEPT !.units = {u \in @ : u.repo # r \/ u.path \notin ps}]

deleteASTUnitsByKind(db, r, k) ==
    [db EXCEPT !.units = {u \in @ : u.repo # r \/ u.kind # k}]

deleteASTUnitsByRepo(db, r) == [db EXCEPT !.units = {u \in @ : u.repo # r}]

(* edges.src_id ... ON DELETE CASCADE: an edge goes with the unit it starts at.  Only
   the SQLite schema says so, and enforces it; Postgres has no foreign key.  (The
   other one, parent_id ... SET NULL, acts on nothing: no unit is given a parent.)
   keyed: the backend has the key. *)
LiteKeyed == TRUE
PgKeyed == FALSE

HasSource(db, e) == \E u \in db.units : u.id = e.src
cascade(db, keyed) == [db EXCEPT !.edges = {e \in @ : keyed => HasSource(db, e)}]

unresolveEdgesByDstFiles(db, r, ps) ==
    LET gone == {u.id : u \in {u \in db.units : u.repo = r /\ u.path \in ps}}
    IN  [db EXCEPT !.edges = {IF e.dst \in gone THEN [e EXCEPT !.dst = 0] ELSE e : e \in @}]

insertEdge(db, e) ==
    [db EXCEPT !.seq = @ + 1,
               !.edges = @ \cup {[id |-> db.seq + 1, repo |-> e.repo, path |-> e.path,
                                  src |-> e.src, dst |-> e.dst, kind |-> e.kind,
                                  name |-> e.name, meta |-> e.meta]}]

(* The same key refuses an edge from a unit that is gone. *)
storeEdge(db, e, keyed) == IF keyed => HasSource(db, e) THEN insertEdge(db, e) ELSE db

deleteEdgesByFiles(db, r, ps) ==
    [db EXCEPT !.edges = {e \in @ : e.repo # r \/ e.path \notin ps}]

deleteEdgesByRepo(db, r) == [db EXCEPT !.edges = {e \in @ : e.repo # r}]

deleteEdgesByKindGlobal(db, k) == [db EXCEPT !.edges = {e \in @ : e.kind # k}]

(* UPDATE edges SET dst_id ... joined against the batch; a resolution whose
   edge is gone matches no row. *)
batchUpdateEdgeResolutions(db, res) ==
    [db EXCEPT !.edges = {IF \E x \in res : x.edge = e.id
                          THEN [e EXCEPT !.dst = (CHOOSE x \in res : x.edge = e.id).dst]
                          ELSE e : e \in @}]

updateEdgeResolution(db, x) == batchUpdateEdgeResolutions(db, {x})

updateEdgeMeta(db, id, m) ==
    [db EXCEPT !.edges = {IF e.id = id THEN [e EXCEPT !.meta = m] ELSE e : e \in @}]

updateEdgeDstName(db, id, n) ==
    [db EXCEPT !.edges = {IF e.id = id THEN [e EXCEPT !.name = n] ELSE e : e \in @}]

(* A new row starts idle and active; a conflict rewrites the definition only. *)
storeRepo(db, r, branch) ==
    [db EXCEPT !.repos =
        IF \E x \in @ : x.id = r
        THEN {IF x.id = r THEN [x EXCEPT !.branch = branch] ELSE x : x \in @}
        ELSE @ \cup {[id |-> r, branch |-> branch, status |-> "idle", owner |-> "",
                      expired |-> FALSE, lastCommit |-> 0, pending |-> 0, active |-> TRUE]}]

updateRepo(db, r, F(_)) ==
    [db EXCEPT !.repos = {IF x.id = r THEN F(x) ELSE x : x \in @}]

updateRepoStatus(db, r, st) ==
    updateRepo(db, r, LAMBDA x : [x EXCEPT !.status = st, !.owner = "",
                                           !.expired = FALSE, !.pending = 0])

updateRepoLastCommit(db, r, sha) == updateRepo(db, r, LAMBDA x : [x EXCEPT !.lastCommit = sha])

setRepoPendingCommit(db, r, sha) == updateRepo(db, r, LAMBDA x : [x EXCEPT !.pending = sha])

claimRepoForIndexing(db, r, w) ==
    updateRepo(db, r, LAMBDA x : IF x.status # "indexing" \/ x.expired
                                 THEN [x EXCEPT !.status = "indexing", !.owner = w,
                                                !.expired = FALSE]
                                 ELSE x)

(* resetIndexingRepos with force, resetExpiredIndexingRepos without. *)
resetIndexingRepos(db, force) ==
    [db EXCEPT !.repos = {IF x.status = "indexing" /\ (force \/ x.expired)
                          THEN [x EXCEPT !.status = "idle", !.owner = "",
                                         !.expired = FALSE, !.pending = 0]
                          ELSE x : x \in @}]

setActiveRepos(db, ids) ==
    [db EXCEPT !.repos = {[x EXCEPT !.active = (x.id \in ids)] : x \in @}]

deleteRepo(db, r) == [db EXCEPT !.repos = {x \in @ : x.id # r}]

NextJobId(db) == 1 + Cardinality(db.jobs)

insertIndexJob(db, r, force) ==
    LET queued == {j \in db.jobs : j.repo = r /\ j.status = "pending"}
    IN  [db EXCEPT !.jobs =
            IF queued # {}
            THEN {IF j \in queued THEN [j EXCEPT !.force = @ \/ force] ELSE j : j \in @}
            ELSE @ \cup {[id |-> NextJobId(db), repo |-> r, force |-> force,
                          status |-> "pending", by |-> "", stale |-> FALSE]}]

(* Claims the oldest pending job. *)
claimNextIndexJob(db, w) ==
    LET pending == {j \in db.jobs : j.status = "pending"}
        oldest  == {j \in pending : \A k \in pending : j.id <= k.id}
    IN  [db EXCEPT !.jobs = {IF j \in oldest THEN [j EXCEPT !.status = "running", !.by = w]
                             ELSE j : j \in @}]

OfWorker(j, w) == j.status = "running" /\ j.by = w

heartbeatIndexJob(db, id, w) ==
    [db EXCEPT !.jobs = {IF j.id = id /\ OfWorker(j, w) THEN [j EXCEPT !.stale = FALSE]
                         ELSE j : j \in @}]

completeIndexJob(db, id, w, st) ==
    [db EXCEPT !.jobs = {IF j.id = id /\ OfWorker(j, w) THEN [j EXCEPT !.status = st]
                         ELSE j : j \in @}]

SlotTaken(db, j) == \E k \in db.jobs : k.repo = j.repo /\ k.status = "pending"

Requeued(j) == [j EXCEPT !.status = "pending", !.by = "", !.stale = FALSE]

releaseIndexJob(db, id, w) ==
    [db EXCEPT !.jobs = {IF j.id = id /\ OfWorker(j, w) /\ ~SlotTaken(db, j)
                         THEN Requeued(j) ELSE j : j \in @}]

Stale(j) == j.status = "running" /\ j.stale

supersedeStaleIndexJobs(db) ==
    [db EXCEPT !.jobs =
        {IF Stale(j) /\ (SlotTaken(db, j) \/ \E k \in @ : Stale(k) /\ k.repo = j.repo /\ k.id < j.id)
         THEN [j EXCEPT !.status = "error"] ELSE j : j \in @}]

requeueStaleIndexJobs(db) ==
    [db EXCEPT !.jobs = {IF Stale(j) THEN Requeued(j) ELSE j : j \in @}]

deleteRepoCoverage(db, r) == [db EXCEPT !.coverage = {c \in @ : c.repo # r}]

insertRepoCoverage(db, r, k, n) ==
    [db EXCEPT !.coverage = @ \cup {[repo |-> r, kind |-> k, n |-> n]}]

-----------------------------------------------------------------------------
(* Methods.  Then(s, Op) runs one more method from where s ended. *)

Then(s, next(_)) == s \o next(Last(s))

InOne(db, Step(_, _), xs) == <<FoldLeft(Step, db, xs)>>

Order(S) == SetToSeq(S)

(* eachPathChunk: successive chunks of at most PathChunk paths. *)
PathChunks(ps) ==
    LET q == Order(ps)
    IN  [i \in 1..((Len(q) + PathChunk - 1) \div PathChunk) |->
            {q[j] : j \in {j \in 1..Len(q) : (j - 1) \div PathChunk = i - 1}}]

(* One transaction per chunk. *)
PerChunk(db, Step(_, _), ps) ==
    FoldLeft(LAMBDA s, c : Append(s, Step(Last(s), c)), <<db>>, PathChunks(ps))

BatchStoreFiles(db, fs) == InOne(db, storeFile, Order(fs))

DeleteFilesByPathsPg(db, r, ps) == <<deleteFilesByPaths(db, r, ps)>>

DeleteFilesByPathsLite(db, r, ps) ==
    PerChunk(db, LAMBDA d, c : deleteFilesByPaths(d, r, c), ps)

DeleteUnits(db, r, ps) ==
    deleteASTUnitsByFiles(unresolveEdgesByDstFiles(db, r, ps), r, ps)

DeleteASTUnitsByFilesPg(db, r, ps) == <<DeleteUnits(db, r, ps)>>

(* The chunks share one transaction. *)
DeleteASTUnitsByFilesLite(db, r, ps) ==
    InOne(db, LAMBDA d, c : cascade(DeleteUnits(d, r, c), LiteKeyed), PathChunks(ps))

DeleteEdgesByFilesLite(db, r, ps) ==
    InOne(db, LAMBDA d, c : deleteEdgesByFiles(d, r, c), PathChunks(ps))

BatchStoreASTUnits(db, us) == InOne(db, insertASTUnit, us)

BatchStoreEdgesRowByRow(db, es) ==
    FoldLeft(LAMBDA s, e : Append(s, insertEdge(Last(s), e)), <<db>>, es)

BatchStoreEdges(db, es) == InOne(db, insertEdge, es)

(* One refused edge rolls the batch back. *)
BatchStoreEdgesLite(db, es) ==
    IF \A i \in DOMAIN es : HasSource(db, es[i]) THEN BatchStoreEdges(db, es) ELSE <<db>>

(* One array join per chunk of resolutionBatchRows, or, when that statement
   failed, one UPDATE per row. *)
BatchUpdateEdgeResolutionsPg(db, res, byRow) ==
    IF byRow THEN FoldLeft(LAMBDA s, x : Append(s, updateEdgeResolution(Last(s), x)),
                           <<db>>, Order(res))
             ELSE <<batchUpdateEdgeResolutions(db, res)>>

(* One prepared UPDATE per row in one transaction, or one commit per row. *)
BatchUpdateEdgeResolutionsLite(db, res, byRow) ==
    IF byRow THEN FoldLeft(LAMBDA s, x : Append(s, updateEdgeResolution(Last(s), x)),
                           <<db>>, Order(res))
             ELSE InOne(db, updateEdgeResolution, Order(res))

SetActiveReposPg(db, ids) == <<setActiveRepos(db, ids)>>

(* Clear every row, then raise the named ones chunk by chunk, in one
   transaction. *)
SetActiveReposLite(db, ids) ==
    InOne(setActiveRepos(db, {}),
          LAMBDA d, c : [d EXCEPT !.repos = {[x EXCEPT !.active = @ \/ x.id \in c] : x \in @}],
          PathChunks(ids))

ReleaseIndexJob(db, id, w) ==
    LET released == releaseIndexJob(db, id, w)
    IN  IF released # db THEN <<released>> ELSE <<completeIndexJob(db, id, w, "error")>>

RequeueStaleIndexJobs(db) ==
    <<supersedeStaleIndexJobs(db), requeueStaleIndexJobs(supersedeStaleIndexJobs(db))>>

StoreRepoCoverage(db, r, ks) ==
    InOne(deleteRepoCoverage(db, r), LAMBDA d, k : insertRepoCoverage(d, r, k, 1), Order(ks))

-----------------------------------------------------------------------------
(* What the callers above the store run as one unit of work.  W is the
   method the backend has for a window of files. *)

UnitOf(db, r, p, k) == CHOOSE u \in db.units : u.repo = r /\ u.path = p /\ u.kind = k
HasUnit(db, r, p, k) == \E u \in db.units : u.repo = r /\ u.path = p /\ u.kind = k

FuncRows(r, ps) == Order({[repo |-> r, path |-> p, kind |-> "func"] : p \in ps})

EdgeRows(db, r, ps) ==
    Order({[repo |-> r, path |-> p, src |-> UnitOf(db, r, p, "func").id, dst |-> 0,
            kind |-> "call", name |-> "n", meta |-> ""] : p \in ps})

(* storeFiles: clear the window's units and edges, store the units, store the
   edges.  A rejected batch leaves what it committed before it failed (nothing:
   it is one transaction) and is then stored file by file. *)
ByFile(s, ps, Batch(_, _)) ==
    FoldLeft(LAMBDA t, p : t \o Batch(Last(t), {p}), s \o Front(Batch(Last(s), ps)), Order(ps))

storeFiles(deleted, r, ps, byFile, keyed) ==
    LET units(d, g) == BatchStoreASTUnits(d, FuncRows(r, g))
        edges(d, g) == IF keyed THEN BatchStoreEdgesLite(d, EdgeRows(d, r, g))
                                ELSE BatchStoreEdges(d, EdgeRows(d, r, g))
    IN  IF byFile THEN ByFile(ByFile(deleted, ps, units), ps, edges)
                  ELSE Then(Then(deleted, LAMBDA d : units(d, ps)), LAMBDA d : edges(d, ps))

WindowPg(db, r, ps, byFile) ==
    storeFiles(Then(DeleteASTUnitsByFilesPg(db, r, ps),
                    LAMBDA d : <<deleteEdgesByFiles(d, r, ps)>>), r, ps, byFile, PgKeyed)

WindowLite(db, r, ps, byFile) ==
    storeFiles(Then(DeleteASTUnitsByFilesLite(db, r, ps),
                    LAMBDA d : DeleteEdgesByFilesLite(d, r, ps)), r, ps, byFile, LiteKeyed)

(* detectServices: drop the repository's service units (and, by the key of the schema,
   the observed links that start there), store each again. *)
Manifest == CHOOSE p \in StorePaths : TRUE

detectServices(db, r, keyed) ==
    LET wiped == cascade(deleteASTUnitsByKind(db, r, "service"), keyed)
    IN  <<wiped, insertASTUnit(wiped, [repo |-> r, path |-> Manifest, kind |-> "service"])>>

(* IngestRuntimeServiceGraph: the service units are read; the link observed between two
   of them then replaces every runtime_call edge.  Its end points are the ids read. *)
ServicesRead(db, client, server) ==
    [src |-> UnitOf(db, client, Manifest, "service").id, dst |-> UnitOf(db, server, Manifest, "service").id]

IngestRuntime(db, client, server, ids, keyed) ==
    LET wiped == deleteEdgesByKindGlobal(db, "runtime")
    IN  <<wiped, storeEdge(wiped, [repo |-> client, path |-> Manifest, kind |-> "runtime",
                                   src |-> ids.src, dst |-> ids.dst, name |-> server, meta |-> ""],
                           keyed)>>

(* The resolutions a linker run hands over: every open call of r goes to the
   function of file p in repository to. *)
Resolutions(db, r, to, p) ==
    {[edge |-> e.id, dst |-> UnitOf(db, to, p, "func").id] :
        e \in {e \in db.edges : e.repo = r /\ e.kind = "call" /\ e.dst = 0}}

EdgeOfFile(db, r, p) ==
    (CHOOSE e \in db.edges : e.repo = r /\ e.path = p /\ e.kind = "call").id

-----------------------------------------------------------------------------
StoreInit ==
    /\ lite = EmptyDb /\ pg = EmptyDb /\ ideal = EmptyDb
    /\ due = <<>> /\ observed = <<>> /\ calls = 0 /\ storeFaults = 0

Done(call, i, l, p) ==
    /\ ideal' = Last(i) /\ lite' = Last(l) /\ pg' = Last(p)
    /\ due' = <<>>
    /\ UNCHANGED storeFaults

(* The call stopped after some of its transactions: either backend kept a
   prefix of what it does, all of it when only the answer was lost. *)
Failed(call, l, p) ==
    /\ storeFaults < MaxStoreFaults
    /\ \/ lite' = lite /\ pg' = pg
       \/ \E k \in 1..Len(l) : lite' = l[k] /\ pg' = p[IF k < Len(p) THEN k ELSE Len(p)]
    /\ due' = call
    /\ storeFaults' = storeFaults + 1
    /\ UNCHANGED ideal

MayCall(call) == due = call \/ (due = <<>> /\ calls < MaxStoreCalls)

(* i, l, p: the databases the call's transactions leave on each side. *)
Made(call, i, l, p) ==
    /\ MayCall(call)
    /\ calls' = IF due = call THEN calls ELSE calls + 1
    /\ Done(call, i, l, p) \/ Failed(call, l, p)

Call(call, i, l, p) == Made(call, i, l, p) /\ UNCHANGED observed

(* A call of one transaction with the same statements on both backends. *)
Both(call, Op(_)) == Call(call, Op(ideal), Op(lite), Op(pg))

(* Of two contents of a file the one stored first is called 1. *)
StoreFiles == \E r \in StoreRepos, ps \in SUBSET StorePaths \ {{}}, h \in 1..2 :
    /\ h = 2 => \E f \in ideal.files : f.repo = r /\ f.path \in ps
    /\ LET fs == {[repo |-> r, path |-> p, hash |-> h] : p \in ps}
       IN  Both(<<"files", fs>>, LAMBDA d : BatchStoreFiles(d, fs))

RemoveFiles == \E r \in StoreRepos, ps \in SUBSET StorePaths \ {{}} :
    Call(<<"removeFiles", r, ps>>, DeleteFilesByPathsPg(ideal, r, ps),
         DeleteFilesByPathsLite(lite, r, ps), DeleteFilesByPathsPg(pg, r, ps))

IndexWindow == \E r \in StoreRepos, ps \in SUBSET StorePaths \ {{}}, byFile \in BOOLEAN :
    Call(<<"window", r, ps>>, WindowPg(ideal, r, ps, FALSE),
         WindowLite(lite, r, ps, byFile), WindowPg(pg, r, ps, byFile))

StoreServices == \E r \in StoreRepos :
    Call(<<"services", r>>, detectServices(ideal, r, PgKeyed),
         detectServices(lite, r, LiteKeyed), detectServices(pg, r, PgKeyed))

(* An ingest reads the service units first; a pass may detect them anew before it
   stores the link it read them for. *)
IngestReads == \E client, server \in StoreRepos :
    /\ observed = <<>> /\ MayCall(<<"ingest", client, server>>)
    /\ \A d \in {ideal, lite, pg}, r \in {client, server} : HasUnit(d, r, Manifest, "service")
    /\ observed' = [client |-> client, server |-> server,
                    ideal |-> ServicesRead(ideal, client, server),
                    lite |-> ServicesRead(lite, client, server),
                    pg |-> ServicesRead(pg, client, server)]
    /\ UNCHANGED <<lite, pg, ideal, due, calls, storeFaults>>

Ingest ==
    /\ observed # <<>> /\ observed' = <<>>
    /\ LET c == observed.client
           s == observed.server
       IN  Made(<<"ingest", c, s>>, IngestRuntime(ideal, c, s, observed.ideal, PgKeyed),
                IngestRuntime(lite, c, s, observed.lite, LiteKeyed),
                IngestRuntime(pg, c, s, observed.pg, PgKeyed))

LinkEdges == \E r, to \in StoreRepos, p \in StorePaths, byRow \in BOOLEAN :
    /\ \A d \in {ideal, lite, pg} : HasUnit(d, to, p, "func")
    /\ Call(<<"link", r, to, p>>,
            BatchUpdateEdgeResolutionsPg(ideal, Resolutions(ideal, r, to, p), FALSE),
            BatchUpdateEdgeResolutionsLite(lite, Resolutions(lite, r, to, p), byRow),
            BatchUpdateEdgeResolutionsPg(pg, Resolutions(pg, r, to, p), byRow))

EditEdge == \E r \in StoreRepos, p \in StorePaths :
    /\ \A d \in {ideal, lite, pg} :
          \E e \in d.edges : e.repo = r /\ e.path = p /\ e.kind = "call"
    /\ \/ Both(<<"meta", r, p>>, LAMBDA d : <<updateEdgeMeta(d, EdgeOfFile(d, r, p), "m")>>)
       \/ Both(<<"name", r, p>>, LAMBDA d : <<updateEdgeDstName(d, EdgeOfFile(d, r, p), "o")>>)

Register == \E r \in StoreRepos, b \in 1..2 :
    Both(<<"repo", r, b>>, LAMBDA d : <<storeRepo(d, r, b)>>)

purge(db, r, keyed) ==
    LET f == deleteFilesByRepo(db, r)
        u == cascade(deleteASTUnitsByRepo(f, r), keyed)
        e == deleteEdgesByRepo(u, r)
        c == deleteRepoCoverage(e, r)
    IN  <<f, u, e, c, deleteRepo(c, r)>>

Purge == \E r \in StoreRepos :
    Call(<<"purge", r>>, purge(ideal, r, PgKeyed), purge(lite, r, LiteKeyed), purge(pg, r, PgKeyed))

Activate == \E ids \in SUBSET StoreRepos :
    Call(<<"active", ids>>, SetActiveReposPg(ideal, ids),
         SetActiveReposLite(lite, ids), SetActiveReposPg(pg, ids))

RepoRow == \E r \in StoreRepos :
    \/ Both(<<"claim", r>>, LAMBDA d : <<claimRepoForIndexing(d, r, "w")>>)
    \/ Both(<<"status", r>>, LAMBDA d : <<updateRepoStatus(d, r, "ready")>>)
    \/ Both(<<"cursor", r>>, LAMBDA d :
            <<setRepoPendingCommit(d, r, 1), updateRepoLastCommit(setRepoPendingCommit(d, r, 1), r, 1)>>)
    \/ \E force \in BOOLEAN :
          Both(<<"reset", force>>, LAMBDA d : <<resetIndexingRepos(d, force)>>)

Enqueue == \E r \in StoreRepos, force \in BOOLEAN :
    Both(<<"enqueue", r, force>>, LAMBDA d : <<insertIndexJob(d, r, force)>>)

(* A claim is not made again: its answer names the job, and a lost answer
   leaves the job to the stale sweep. *)
ClaimJob == \E w \in {"w", "x"} :
    /\ due = <<>> /\ calls < MaxStoreCalls /\ calls' = calls + 1
    /\ LET op(d) == <<claimNextIndexJob(d, w)>> IN Done(<<"claimJob">>, op(ideal), op(lite), op(pg))
    /\ UNCHANGED observed

WorkOnJob == \E j \in ideal.jobs, w \in {"w", "x"} :
    \/ Both(<<"beat", j.id, w>>, LAMBDA d : <<heartbeatIndexJob(d, j.id, w)>>)
    \/ Both(<<"complete", j.id, w>>, LAMBDA d : <<completeIndexJob(d, j.id, w, "done")>>)
    \/ Both(<<"release", j.id, w>>, LAMBDA d : ReleaseIndexJob(d, j.id, w))

RequeueStale == Both(<<"requeue">>, LAMBDA d : RequeueStaleIndexJobs(d))

Coverage == \E r \in StoreRepos, ks \in {{"http"}, {"http", "rpc"}} :
    Both(<<"coverage", r, ks>>, LAMBDA d : StoreRepoCoverage(d, r, ks))

(* Time passes: running jobs miss their heartbeat, claims run out. *)
Expire ==
    LET old(d) == [d EXCEPT !.jobs = {[j EXCEPT !.stale = (j.status = "running")] : j \in @},
                            !.repos = {[x EXCEPT !.expired = (x.status = "indexing")] : x \in @}]
    IN  /\ due = <<>>
        /\ lite' = old(lite) /\ pg' = old(pg) /\ ideal' = old(ideal)
        /\ UNCHANGED <<due, observed, calls, storeFaults>>

StoreNext ==
    \/ StoreFiles \/ RemoveFiles \/ IndexWindow \/ StoreServices \/ IngestReads \/ Ingest
    \/ LinkEdges \/ EditEdge \/ Register \/ Purge \/ Activate \/ RepoRow
    \/ Enqueue \/ ClaimJob \/ WorkOnJob \/ RequeueStale \/ Coverage \/ Expire

-----------------------------------------------------------------------------
(* A row without its id, and what its references name: 0 is no reference
   (edgeFromRow), a missing unit a dangling one. *)
Ref(db, id) ==
    IF id = 0 THEN <<"none">>
    ELSE IF \E u \in db.units : u.id = id
         THEN LET u == CHOOSE u \in db.units : u.id = id IN <<"unit", u.repo, u.path, u.kind>>
         ELSE <<"gone">>

UnitKey(u) == <<u.repo, u.path, u.kind>>
EdgeKey(db, e) == <<e.repo, e.path, e.kind, e.name, e.meta, Ref(db, e.src), Ref(db, e.dst)>>

Counted(S, Key(_)) ==
    [k \in {Key(x) : x \in S} |-> Cardinality({x \in S : Key(x) = k})]

View(db) ==
    [files |-> db.files, repos |-> db.repos, jobs |-> db.jobs, coverage |-> db.coverage,
     units |-> Counted(db.units, UnitKey),
     edges |-> Counted(db.edges, LAMBDA e : EdgeKey(db, e))]

(* The ids may differ, the rows may not. *)
SameRows(db1, db2) == db1 = db2 \/ View(db1) = View(db2)

(* Both backends keep one contract, also across failed calls: once a call
   that stopped between two of its transactions (or lost its answer) has been
   made again, either database holds the rows, duplicates counted, of the
   database in which every call ran once (postgres.go and sqlite/*.go: the
   transactions, chunks and row-by-row fallbacks of each method).  One kind of
   row is excepted, and only where its source unit is gone: the runtime_call
   edges of a service detected anew, which SQLite drops with the old unit or
   refuses to store and Postgres keeps. *)
BackendsAgree == due = <<>> =>
    /\ SameRows(pg, ideal) /\ SameRows(lite, cascade(ideal, LiteKeyed))
    /\ \A e \in pg.edges : HasSource(pg, e) \/ e.kind = "runtime"

(* "Schema and semantics mirror the SQLite backend" (postgres.go:5), to the
   letter.  Not a property of the code: services, ingest, services again leave
   Postgres an edge from a unit that is gone, and SQLite none. *)
BackendsMirror == due = <<>> => SameRows(lite, pg)
============================================================================
