------------------------------ MODULE Migrations ------------------------------
(***************************************************************************)
(* Opening the relational store (sqlite.Open, postgres.Open): the ladder   *)
(* of migrations each backend climbs, over databases that earlier releases *)
(* left at any rung and with any queue of jobs, by processes that start at *)
(* the same time and may die at any point.                                 *)
(*                                                                         *)
(* A migration is one transaction: it happens at once or not at all.  The  *)
(* version a process starts from is read outside of it.                    *)
(***************************************************************************)
EXTENDS Naturals, FiniteSets, Sequences, FiniteSetsExt

CONSTANTS
    Openers,        \* processes opening the same database
    QueuedRepos,    \* repositories with rows in index_jobs
    MaxRows,        \* bound: rows of the queue at first
    MaxDeaths       \* bound: processes dying or being restarted

ASSUME MigrationsAssumption == {MaxRows, MaxDeaths} \subseteq Nat

VARIABLES
    backend,    \* "sqlite" or "postgres"
    database,   \* [versions, objects, jobs]: the recorded versions, the schema, the queue
    openers,    \* opener -> [pc, next, read]
    leftBehind, \* history: the queue as the earlier release left it
    deaths

migrationVars == <<backend, database, openers, leftBehind, deaths>>

-----------------------------------------------------------------------------
(* Statements: tables and guarded columns are created if they are missing; a bare     *)
(* ADD COLUMN fails when the column is there.                                       *)
Stmt(op, t) == [op |-> op, on |-> t]
Table(t) == Stmt("create", t)
Guarded == "create"
Bare == "addColumn"
Unique(t) == Stmt("unique", t)
Drop(t) == Stmt("drop", t)

(* Mutant of Dedup: the duplicates of the queue are left where they are. *)
DedupNothing == Drop("")

(* The later pending jobs of a repository are deleted.                                *)
Dedup == Stmt("dedup", "")

OnePending == "one pending job"         \* idx_index_jobs_pending_repo, as first created
OneIndexJob == "one pending index job"  \* and over kind = 'index' only

(* The first version of both schemas; SQLite's edges got their meta column later.       *)
SqliteBase == <<Table("files"), Table("ast_units"), Table("edges"), Table("repos"), Table("idx_edges_repo")>>
PostgresBase ==
    <<Table("files"), Table("ast_units"), Table("edges"), Table("repos"), Table("idx_edges_repo"),
      Stmt(Guarded, "edges.meta")>>

JobTable == <<Table("index_jobs")>>

(* The claim of a repository, and one pending job for each: what would break that rule   *)
(* is deleted before the database enforces it.                                       *)
ClaimColumns(add) ==
    <<Stmt(add, "repos.claimed_by"), Stmt(add, "repos.claim_expires_at"), Stmt(add, "repos.pending_commit"),
      Dedup, Unique(OnePending)>>

(* Commit batches join the queue, and are exempt from the rule.                        *)
BatchColumns(add) ==
    <<Stmt(add, "index_jobs.kind"), Stmt(add, "index_jobs.payload"), Drop(OnePending), Unique(OneIndexJob)>>

(* What both backends gained since.                                                 *)
EdgesByFile == <<Table("idx_edges_repo_file")>>
CoverageTable == <<Table("repo_coverage")>>
EdgesByKind == <<Table("idx_edges_repo_kind"), Drop("idx_edges_repo")>>
NamesInLower == <<Table("idx_ast_units_lower")>>
ActiveColumn(add) == <<Stmt(add, "repos.active")>>

SqliteLadder ==
    <<SqliteBase, <<Stmt(Bare, "edges.meta")>>, <<Stmt(Bare, "ast_units.meta")>>, JobTable,
      <<Stmt(Bare, "repos.last_commit")>>, ClaimColumns(Bare), BatchColumns(Bare),
      EdgesByFile, CoverageTable, EdgesByKind, NamesInLower, ActiveColumn(Bare)>>

PostgresLadder ==
    <<PostgresBase, <<Stmt(Bare, "ast_units.meta")>>, JobTable,
      <<Stmt(Bare, "repos.last_commit")>>, ClaimColumns(Guarded), BatchColumns(Guarded),
      EdgesByFile, CoverageTable, EdgesByKind, NamesInLower, ActiveColumn(Guarded)>>

Ladder(b) == IF b = "sqlite" THEN SqliteLadder ELSE PostgresLadder

-----------------------------------------------------------------------------
(* One migration over a database; ok is false when a statement or the record failed,    *)
(* and the transaction is rolled back.                                               *)

Pending(jobs) == {j \in jobs : j.pending}

Duplicates(jobs) ==
    {j \in Pending(jobs) : \E k \in Pending(jobs) : k.repo = j.repo /\ k.id < j.id}

Statement(db, s) ==
    CASE s.op = "create" -> [db EXCEPT !.objects = @ \cup {s.on}]
      [] s.op = "addColumn" -> [db EXCEPT !.ok = @ /\ s.on \notin db.objects,
                                          !.objects = @ \cup {s.on}]
      [] s.op = "unique" -> [db EXCEPT !.ok = @ /\ Duplicates(db.jobs) = {},
                                       !.objects = @ \cup {s.on}]
      [] s.op = "drop" -> [db EXCEPT !.objects = @ \ {s.on}]
      [] s.op = "dedup" -> [db EXCEPT !.jobs = @ \ Duplicates(@)]

Recorded(db, version) ==
    [db EXCEPT !.ok = @ /\ version \notin db.versions, !.versions = @ \cup {version}]

Attempt(db) == [versions |-> db.versions, objects |-> db.objects, jobs |-> db.jobs, ok |-> TRUE]

(* The statements of a migration, one after the other.                                *)
Applied(db, stmts) ==
    LET after[n \in 0 .. Len(stmts)] ==
            IF n = 0 THEN Attempt(db) ELSE Statement(after[n - 1], stmts[n])
    IN after[Len(stmts)]

Migrated(db, stmts, version) == Recorded(Applied(db, stmts), version)

Rung(db) == [versions |-> db.versions, objects |-> db.objects, jobs |-> db.jobs]

(* The database an earlier release built: the ladder up to its last version.            *)
BuiltTo(b, version, jobs) ==
    LET rung[v \in 0 .. version] ==
            IF v = 0 THEN [versions |-> {}, objects |-> {}, jobs |-> jobs]
            ELSE Rung(Migrated(rung[v - 1], Ladder(b)[v], v))
    IN rung[version]

-----------------------------------------------------------------------------
HasQueue(b, version) == "index_jobs" \in BuiltTo(b, version, {}).objects
HasRule(b, version) == OnePending \in BuiltTo(b, version, {}).objects \/ OneIndexJob \in BuiltTo(b, version, {}).objects

(* A queue an earlier release can have left at a version: none before the table, several  *)
(* pending jobs of a repository before the rule.                                      *)
Queues(b, version) ==
    {jobs \in SUBSET [id : 1..MaxRows, repo : QueuedRepos, pending : BOOLEAN] :
        /\ \A j, k \in jobs : j.id = k.id => j = k
        /\ ~HasQueue(b, version) => jobs = {}
        /\ HasRule(b, version) => Duplicates(jobs) = {}}

NotOpen == [pc |-> "closed", next |-> 0, read |-> {}]

MigrationsInit ==
    /\ backend \in {"sqlite", "postgres"}
    /\ \E version \in 0..Len(Ladder(backend)) : \E jobs \in Queues(backend, version) :
          database = BuiltTo(backend, version, jobs) /\ leftBehind = jobs
    /\ openers = [o \in Openers |-> NotOpen] /\ deaths = 0

Becomes(o, r) == openers' = [openers EXCEPT ![o] = r]

(* Open and the beginning of migrate: the version is read.                             *)
Open(o) ==
    /\ openers[o].pc = "closed"
    /\ Becomes(o, [pc |-> "migrating", next |-> 1 + Max(database.versions \cup {0}),
                   read |-> database.versions])
    /\ UNCHANGED <<backend, database, leftBehind, deaths>>

(* Mutant of Committed: statements before the failing one stay. *)
CommittedInPart(tried) == Rung([tried EXCEPT !.versions = database.versions])

(* What is left of a migration that failed: nothing.                                   *)
Committed(tried) == IF tried.ok THEN Rung(tried) ELSE database

(* migrate: the next migration of the ladder; the first failure is the answer of Open.     *)
migrate(o) ==
    LET at == openers[o].next
        tried == Migrated(database, Ladder(backend)[at], at)
    IN /\ openers[o].pc = "migrating" /\ at <= Len(Ladder(backend))
       /\ database' = Committed(tried)
       /\ Becomes(o, IF tried.ok THEN [openers[o] EXCEPT !.next = @ + 1]
                     ELSE [openers[o] EXCEPT !.pc = "refused"])
       /\ UNCHANGED <<backend, leftBehind, deaths>>

Opened(o) ==
    /\ openers[o].pc = "migrating" /\ openers[o].next > Len(Ladder(backend))
    /\ Becomes(o, [openers[o] EXCEPT !.pc = "open"])
    /\ UNCHANGED <<backend, database, leftBehind, deaths>>

(* The process dies, or is started again after it was refused.                         *)
Restart(o) ==
    /\ openers[o].pc # "closed" /\ deaths < MaxDeaths
    /\ Becomes(o, NotOpen) /\ deaths' = deaths + 1
    /\ UNCHANGED <<backend, database, leftBehind>>

MigrationsNext ==
    \E o \in Openers :
        \/ Open(o)
        \/ migrate(o)
        \/ Opened(o)
        \/ Restart(o)

MigrationsSpec == MigrationsInit /\ [][MigrationsNext]_migrationVars

-----------------------------------------------------------------------------
(* Properties *)

(* At every moment, whatever processes raced or died, the database is one rung of the     *)
(* ladder, all of it.                                                               *)
SchemaIsARung ==
    database = BuiltTo(backend, Max(database.versions \cup {0}), leftBehind)

(* No database an earlier release left is refused: an Open fails only because another      *)
(* process migrated since it read the version, and one that succeeds has the whole ladder.  *)
RefusedOnlyByARace ==
    \A o \in Openers :
        /\ openers[o].pc = "refused" => database.versions # openers[o].read
        /\ openers[o].pc = "open" => database.versions = 1..Len(Ladder(backend))

(* The upgrade that lets the database enforce one pending job per repository loses no      *)
(* repository's turn: the oldest pending row of each survives, and every other status.      *)
QueueSurvives ==
    database.jobs \in {leftBehind, leftBehind \ Duplicates(leftBehind)}

(* Both ladders lead to the same tables and columns.                                  *)
LaddersAgree ==
    BuiltTo("sqlite", Len(SqliteLadder), {}).objects = BuiltTo("postgres", Len(PostgresLadder), {}).objects

(* What opening a store promises.                                                   *)
MigrationsSafe == SchemaIsARung /\ RefusedOnlyByARace /\ QueueSurvives /\ LaddersAgree
=============================================================================
