------------------------------ MODULE IndexPass ------------------------------
(***************************************************************************)
(* What an index pass does to the index: the full pass doIndex and the     *)
(* incremental pass applyPlan (internal/app/indexing.go, commits.go) over  *)
(* one repository's working tree, its file rows and the data its three     *)
(* indexers keep (internal/index/ast, bm25, vector).                       *)
(*                                                                         *)
(* One pass runs at a time (PassExclusion of IndexService), the working    *)
(* tree changes under it at any moment, and every indexer may fail on any  *)
(* file of a batch or be cut off in the middle of one.                     *)
(***************************************************************************)
EXTENDS Integers, FiniteSets

CONSTANTS
    Paths,        \* the files of the repository
    Window,       \* indexBatchFiles: files scanned and indexed at a time
    MaxEvents,    \* bound: changes to the working tree, failures and crashes
    MaxChanges,   \* bound: file changes in one commit batch
    Repeats       \* what may bring back a content the index already has:
                  \* "force"   full passes that index every file again
                  \* "push"    commits that name files which are already current, or
                  \*           carry contents of their own
                  \* "revert"  files that return to an earlier content

ASSUME PassAssumption ==
    /\ IsFiniteSet(Paths) /\ Window \in Nat \ {0}
    /\ {MaxEvents, MaxChanges} \subseteq Nat
    /\ Repeats \subseteq {"force", "push", "revert"}

VARIABLES
    disk,      \* per path: its content, or why it has none
    ignored,   \* the paths an ignore pattern excludes
    version,   \* the newest content any file has had
    rows,      \* table files, per path: the hash of its row, 0 without a row
    data,      \* per path and store: the content the store holds, 0 for none
    pass,      \* the running pass
    events     \* how often the tree changed or something failed

tree == <<disk, ignored, version>>
vars == <<tree, rows, data, pass, events>>

(* A content stands for its hash.  Contents are numbered from 1. *)
Absent == 0
Broken == -1      \* listed by the walk but unreadable: a dangling symlink, a fifo
Mixed == -1       \* chunks of an older content beside those of the newer one

Indexers == {"ast", "bm25", "vector"}
Stores == {"units", "edges", "bm25", "vector"}
StoresOf(x) == IF x = "ast" THEN {"units", "edges"} ELSE {x}
Nothing == [s \in Stores |-> 0]

(* The final action for a path in a plan; "disk" reads the content from disk. *)
Untouched == 0
Delete == -1
FromDisk == -2

(* What a running pass remembers. *)
Pass == [pc : {"idle", "read", "remove", "rows", "scan", "index", "store", "finish"},
         kind : {"none", "full", "plan"},
         todo : SUBSET Paths,            \* files not scanned or read yet
         known : [Paths -> Nat],         \* snapshot of the rows; 0 everywhere if forced
         plan : [Paths -> Int],          \* the merged plan
         gone : SUBSET Paths,            \* paths whose data has to go
         seen : SUBSET Paths,            \* the files of the current window
         batch : [Paths -> Nat],         \* contents handed to the indexers, 0 for none
         left : SUBSET Indexers,         \* indexers that still have to run
         failed : SUBSET Paths,          \* files of the batch an indexer failed on
         unapplied : SUBSET Paths]       \* paths the plan could not apply

Clear == [p \in Paths |-> 0]
NoPass == [pc |-> "idle", kind |-> "none", todo |-> {}, known |-> Clear, plan |-> Clear,
           gone |-> {}, seen |-> {}, batch |-> Clear, left |-> {}, failed |-> {},
           unapplied |-> {}]

Batched == {p \in Paths : pass.batch[p] # 0}

Init ==
    /\ disk = [p \in Paths |-> 1] /\ ignored = {} /\ version = 1
    /\ rows = Clear /\ data = [p \in Paths |-> Nothing]
    /\ pass = NoPass /\ events = 0

Event == events < MaxEvents /\ events' = events + 1

-----------------------------------------------------------------------------
(* The working tree changes under the pass: an editor, a checkout, a deletion. *)
Edit(p, c) ==
    /\ Event /\ c # disk[p]
    /\ c \in {Absent, Broken} \/ c = version + 1 \/ ("revert" \in Repeats /\ c \in 1 .. version)
    /\ disk' = [disk EXCEPT ![p] = c]
    /\ version' = IF c > version THEN c ELSE version
    /\ UNCHANGED <<ignored, rows, data, pass>>

(* A pattern is added to the configuration or to the repository's .ragota.yaml. *)
Ignore(p) ==
    /\ Event /\ p \notin ignored
    /\ ignored' = ignored \cup {p}
    /\ UNCHANGED <<disk, version, rows, data, pass>>

-----------------------------------------------------------------------------
(* The start of a pass *)

(* GetFiles lists the tree, then one snapshot of the rows serves the pass. *)
Listed == {p \in Paths \ ignored : disk[p] # Absent}

Walk(force) ==
    LET gone == {p \in Paths : rows[p] # 0} \ Listed IN
    /\ pass.pc = "idle" /\ (force => "force" \in Repeats)
    /\ pass' = [NoPass EXCEPT !.kind = "full", !.todo = Listed, !.gone = gone,
                    !.known = IF force THEN Clear ELSE rows,
                    !.pc = IF gone = {} THEN "scan" ELSE "remove",
                    !.left = IF gone = {} THEN {} ELSE Indexers]
    /\ UNCHANGED <<tree, rows, data, events>>

(* A file of a commit: deleted, added or modified with or without its content, *)
(* or renamed from another path.                                              *)
Contents == {FromDisk} \cup (IF "push" \in Repeats THEN 1 .. version + 1 ELSE {})
Change == {f \in [old : Paths, path : Paths, content : Contents \cup {Delete}] :
              f.content = Delete => f.old = f.path}

(* The change at i is the last one to touch p, under its new or its old path. *)
Touches(f, p) == p \in {f.old, f.path}
IsLast(changes, p, i) == /\ Touches(changes[i], p)
                         /\ \A j \in DOMAIN changes : j > i => ~Touches(changes[j], p)

(* The last change to a path wins; a rename deletes the old path. *)
mergeCommitPlan(changes) ==
    [p \in Paths |->
        IF \E i \in DOMAIN changes : IsLast(changes, p, i)
        THEN LET f == changes[CHOOSE i \in DOMAIN changes : IsLast(changes, p, i)]
             IN IF f.path = p THEN f.content ELSE Delete
        ELSE Untouched]

Batches == UNION {[1 .. n -> Change] : n \in 1 .. MaxChanges}

(* An ignored path is dropped whatever the plan says. *)
Final(plan) == [p \in Paths |-> IF plan[p] # Untouched /\ p \in ignored
                                THEN Delete ELSE plan[p]]

Upserts(plan) == {p \in Paths : plan[p] \notin {Untouched, Delete}}

(* Without pushed repeats a commit only names files that differ from the index. *)
Plan(changes) ==
    LET plan == Final(mergeCommitPlan(changes)) IN
    /\ pass.pc = "idle"
    /\ \/ "push" \in Repeats
       \/ \A p \in Paths : /\ plan[p] = FromDisk => disk[p] # rows[p]
                           /\ plan[p] = Delete => p \notin Listed
    /\ pass' = [NoPass EXCEPT !.kind = "plan", !.pc = "read", !.plan = plan,
                    !.todo = Upserts(plan),
                    !.gone = {p \in Paths : plan[p] = Delete}]
    /\ UNCHANGED <<tree, rows, data, events>>

(* Every new file is read before the index is touched. *)
ReadPlan(p) ==
    LET c == IF pass.plan[p] = FromDisk THEN disk[p] ELSE pass.plan[p] IN
    /\ pass.pc = "read" /\ p \in pass.todo
    /\ pass' = [pass EXCEPT !.todo = @ \ {p},
                    !.batch = [@ EXCEPT ![p] = IF c <= 0 THEN 0 ELSE c],
                    !.unapplied = IF c <= 0 THEN @ \cup {p} ELSE @]
    /\ UNCHANGED <<tree, rows, data, events>>

(* The files are read: first the deletions, then the upserts. *)
PlanRead ==
    /\ pass.pc = "read" /\ pass.todo = {}
    /\ pass' = [pass EXCEPT !.pc = IF pass.gone # {} THEN "remove"
                                   ELSE IF Batched # {} THEN "index" ELSE "finish",
                            !.left = Indexers]
    /\ UNCHANGED <<tree, rows, data, events>>

-----------------------------------------------------------------------------
(* removeIndexedPaths: every indexer in turn, then the rows *)

Without(d, stores) == [s \in Stores |-> IF s \in stores THEN 0 ELSE d[s]]
Holding(d, stores, c) == [s \in Stores |-> IF s \in stores THEN c ELSE d[s]]

RemoveFrom(x) ==
    /\ pass.pc = "remove" /\ x \in pass.left
    /\ data' = [p \in Paths |-> IF p \in pass.gone THEN Without(data[p], StoresOf(x))
                                                   ELSE data[p]]
    /\ pass' = [pass EXCEPT !.left = @ \ {x}, !.pc = IF pass.left = {x} THEN "rows" ELSE @]
    /\ UNCHANGED <<tree, rows, events>>

(* What an indexer that fails has already removed: the vector store forgets   *)
(* path by path, the AST tables units first, the keyword index all or nothing. *)
PartlyRemoved(x, ps, stores) ==
    /\ x \in {"ast", "bm25"} => ps = pass.gone
    /\ x = "ast" => stores # {"edges"}

(* Mutant of RemoveFails: the failure is logged and the removal goes on. *)
RemoveFailsLogged(x) ==
    /\ pass.pc = "remove" /\ x \in pass.left /\ Event
    /\ \E ps \in SUBSET pass.gone, stores \in SUBSET StoresOf(x) :
          /\ PartlyRemoved(x, ps, stores)
          /\ data' = [p \in Paths |-> IF p \in ps THEN Without(data[p], stores) ELSE data[p]]
    /\ pass' = [pass EXCEPT !.left = @ \ {x}, !.pc = IF pass.left = {x} THEN "rows" ELSE @]
    /\ UNCHANGED <<tree, rows>>

RemoveFails(x) ==
    /\ pass.pc = "remove" /\ x \in pass.left /\ Event
    /\ \E ps \in SUBSET pass.gone, stores \in SUBSET StoresOf(x) :
          /\ PartlyRemoved(x, ps, stores)
          /\ data' = [p \in Paths |-> IF p \in ps THEN Without(data[p], stores) ELSE data[p]]
    /\ pass' = NoPass
    /\ UNCHANGED <<tree, rows>>

(* The units and edges once more, for a service without the AST indexer. *)
DropRows ==
    /\ pass.pc = "rows"
    /\ data' = [p \in Paths |-> IF p \in pass.gone THEN Without(data[p], {"units", "edges"})
                                                   ELSE data[p]]
    /\ rows' = [p \in Paths |-> IF p \in pass.gone THEN 0 ELSE rows[p]]
    /\ pass' = [pass EXCEPT !.pc = CASE pass.kind = "full" -> "scan"
                                      [] pass.kind # "full" /\ Batched # {} -> "index"
                                      [] OTHER -> "finish",
                            !.left = Indexers]
    /\ UNCHANGED <<tree, events>>

-----------------------------------------------------------------------------
(* The windows of a full pass *)

(* Mutant of Scan: any row is taken for current. *)
ScanSkipsKnown(p) ==
    LET c == disk[p] IN
    /\ pass.pc = "scan" /\ p \in pass.todo /\ Cardinality(pass.seen) < Window
    /\ pass' = [pass EXCEPT !.todo = @ \ {p}, !.seen = @ \cup {p},
                    !.batch = [@ EXCEPT ![p] = IF c <= 0 \/ pass.known[p] # 0 THEN 0 ELSE c]]
    /\ UNCHANGED <<tree, rows, data, events>>

(* A worker reads a file: gone or unreadable, unchanged by its hash, or to index. *)
Scan(p) ==
    LET c == disk[p] IN
    /\ pass.pc = "scan" /\ p \in pass.todo /\ Cardinality(pass.seen) < Window
    /\ pass' = [pass EXCEPT !.todo = @ \ {p}, !.seen = @ \cup {p},
                    !.batch = [@ EXCEPT ![p] = IF c <= 0 \/ pass.known[p] = c THEN 0 ELSE c]]
    /\ UNCHANGED <<tree, rows, data, events>>

WindowScanned ==
    /\ pass.pc = "scan" /\ (pass.todo = {} \/ Cardinality(pass.seen) = Window)
    /\ pass' = [pass EXCEPT !.seen = {}, !.failed = {}, !.left = Indexers,
                    !.pc = CASE Batched # {} -> "index"
                             [] Batched = {} /\ pass.todo # {} -> "scan"
                             [] OTHER -> "finish"]
    /\ UNCHANGED <<tree, rows, data, events>>

-----------------------------------------------------------------------------
(* indexFileSet: the indexers run concurrently over the batch *)

(* What an indexer may leave of a file, and whether it reports it as failed.   *)
(* The AST indexer deletes units, then edges, then stores units, then edges,   *)
(* and only logs the loss of the edges.                                        *)
Ok(d) == [data |-> d, failed |-> FALSE]
Failed(d) == [data |-> d, failed |-> TRUE]

AstResults(d, c) ==
    {Ok(Holding(d, {"units", "edges"}, c)), Ok(Holding(Without(d, {"edges"}), {"units"}, c)),
     Failed(d), Failed(Without(d, {"units"})), Failed(Without(d, {"units", "edges"}))}

(* The vector indexer deletes the file's points before it stores the new ones; *)
(* a store that timed out may have taken effect.                               *)
VectorResults(d, c) ==
    {Ok(Holding(d, {"vector"}, c)), Failed(Holding(d, {"vector"}, c)),
     Failed(d), Failed(Without(d, {"vector"}))}

(* The keyword index writes the whole batch at once. *)
Results(x, d, c) == CASE x = "ast" -> AstResults(d, c)
                      [] x = "vector" -> VectorResults(d, c)
                      [] OTHER -> {Ok(Holding(d, {"bm25"}, c))}

(* The stale chunk scan failed: new chunks replace old ones, nothing is deleted. *)
Unswept(d, c) == IF d["bm25"] \in {0, c} THEN {Holding(d, {"bm25"}, c)}
                 ELSE {Holding(d, {"bm25"}, c), Holding(d, {"bm25"}, Mixed)}

Ran(x, failed) ==
    pass' = [pass EXCEPT !.left = @ \ {x}, !.failed = @ \cup failed,
                         !.pc = IF pass.left = {x} THEN "store" ELSE @]

Index(x) ==
    /\ pass.pc = "index" /\ x \in pass.left
    /\ data' = [p \in Paths |-> IF p \in Batched
                                THEN Holding(data[p], StoresOf(x), pass.batch[p])
                                ELSE data[p]]
    /\ Ran(x, {})
    /\ UNCHANGED <<tree, rows, events>>

IndexFails(x) ==
    /\ pass.pc = "index" /\ x \in pass.left /\ Event
    /\ \E res \in [Batched -> UNION {Results(x, data[p], pass.batch[p]) : p \in Batched}] :
          /\ \A p \in Batched : res[p] \in Results(x, data[p], pass.batch[p])
          /\ data' = [p \in Paths |-> IF p \in Batched THEN res[p].data ELSE data[p]]
          /\ Ran(x, {p \in Batched : res[p].failed})
    /\ UNCHANGED <<tree, rows>>

(* A failure that names no file fails the whole batch. *)
Unattributed ==
    /\ pass.pc = "index" /\ "bm25" \in pass.left /\ Event
    /\ \E d \in [Batched -> UNION {Unswept(data[p], pass.batch[p]) : p \in Batched}] :
          /\ \A p \in Batched : d[p] \in Unswept(data[p], pass.batch[p])
          /\ data' = [p \in Paths |-> IF p \in Batched THEN d[p] ELSE data[p]]
    /\ Ran("bm25", Batched)
    /\ UNCHANGED <<tree, rows>>

(* A crash, a cancellation or an indexer's own error ends the pass: what the   *)
(* indexers that were still running wrote stays.                               *)
Interrupted(x, d, c) == {r.data : r \in Results(x, d, c)} \cup {d}

IndexEnds ==
    /\ pass.pc = "index" /\ Event
    /\ \E x \in pass.left :
          \E d \in [Batched -> UNION {Interrupted(x, data[p], pass.batch[p]) : p \in Batched}] :
             /\ \A p \in Batched : d[p] \in Interrupted(x, data[p], pass.batch[p])
             /\ data' = [p \in Paths |-> IF p \in Batched THEN d[p] ELSE data[p]]
    /\ pass' = NoPass
    /\ UNCHANGED <<tree, rows>>

Stored(ps) == [p \in Paths |-> IF p \in ps THEN pass.batch[p] ELSE rows[p]]

AfterStore(unapplied) ==
    pass' = [pass EXCEPT !.pc = IF pass.kind = "full" /\ pass.todo # {} THEN "scan" ELSE "finish",
                         !.unapplied = unapplied, !.failed = {},
                         !.batch = IF pass.kind = "full" THEN Clear ELSE @]

(* Mutants of StoreRows: rows for failed files too; failed files not reported. *)
StoreAllRows ==
    /\ pass.pc = "store"
    /\ rows' = Stored(Batched)
    /\ AfterStore(pass.unapplied \cup pass.failed)
    /\ UNCHANGED <<tree, data, events>>

StoreForgetsFailed ==
    /\ pass.pc = "store"
    /\ rows' = Stored(Batched \ pass.failed)
    /\ AfterStore(pass.unapplied)
    /\ UNCHANGED <<tree, data, events>>

StoreRows ==
    /\ pass.pc = "store"
    /\ rows' = Stored(Batched \ pass.failed)
    /\ AfterStore(pass.unapplied \cup pass.failed)
    /\ UNCHANGED <<tree, data, events>>

(* The service units, summaries and links of the tail are not a file's data.  *)
Finish ==
    /\ pass.pc = "finish"
    /\ pass' = NoPass
    /\ UNCHANGED <<tree, rows, data, events>>

(* Any other crash, cancellation or store error: the pass ends where it is. *)
Abort ==
    /\ pass.pc \notin {"idle", "remove", "index"} /\ Event
    /\ pass' = NoPass
    /\ UNCHANGED <<tree, rows, data>>

Next ==
    \/ \E p \in Paths : \/ \E c \in {Absent, Broken} \cup 1 .. version + 1 : Edit(p, c)
                        \/ Ignore(p) \/ ReadPlan(p) \/ Scan(p)
    \/ \E force \in BOOLEAN : Walk(force)
    \/ \E changes \in Batches : Plan(changes)
    \/ \E x \in Indexers : RemoveFrom(x) \/ RemoveFails(x) \/ Index(x) \/ IndexFails(x)
    \/ PlanRead \/ DropRows \/ WindowScanned \/ Unattributed \/ IndexEnds
    \/ StoreRows \/ Finish \/ Abort

Spec == Init /\ [][Next]_vars

-----------------------------------------------------------------------------
(* Properties *)

(* The state is well formed: rows and batches hold contents some file has had, *)
(* and no window holds more than indexBatchFiles files (doIndex's batching).   *)
TypeOK ==
    /\ disk \in [Paths -> Nat \cup {Broken}] /\ ignored \subseteq Paths /\ version \in Nat
    /\ rows \in [Paths -> Nat] /\ data \in [Paths -> [Stores -> Nat \cup {Mixed}]]
    /\ pass \in Pass /\ Cardinality(pass.seen) <= Window
    /\ events \in 0 .. MaxEvents

(* The stores whose failure fails the file; lost edges are only logged. *)
Guarded == Stores \ {"edges"}
Holds(p, c) == \A s \in Guarded : data[p][s] = c

(* A file that scanFile would skip, because its row has the hash of what is on *)
(* disk, is held by the AST, keyword and vector stores in exactly that content: *)
(* skipping it loses nothing, whatever failed, crashed or changed before.       *)
SkipIsSafe ==
    \A p \in Paths \ ignored : disk[p] > 0 /\ rows[p] = disk[p] => Holds(p, disk[p])

(* At the end of a pass no file that an indexer failed on is taken for indexed: *)
(* "Those files deliberately get no file row: the stored hash is what makes a   *)
(* later non-forced pass skip a file" (indexFileSet).  A file that already had  *)
(* its row keeps it, so this fails once a current file is indexed again.        *)
LostFilesRetried == pass.pc = "finish" => SkipIsSafe

(* removeIndexedPaths takes a file's row last: a row disappears only when no    *)
(* store holds anything of the file, so a failed removal is swept again.        *)
RowsGoLast ==
    [][\A p \in Paths : rows[p] # 0 /\ rows'[p] = 0 => data'[p] = Nothing]_vars

(* applyPlan returning no unapplied path, which is what lets the commit cursor *)
(* advance, means that every deletion left nothing behind and every upsert is  *)
(* in its row and in all the guarded stores.                                   *)
PlanApplied ==
    pass.pc = "finish" /\ pass.kind = "plan" /\ pass.unapplied = {} =>
        \A p \in Paths :
            /\ pass.plan[p] = Delete => rows[p] = 0 /\ data[p] = Nothing
            /\ p \in Upserts(pass.plan) => rows[p] = pass.batch[p] /\ rows[p] # 0
                                           /\ Holds(p, rows[p])

(* Every readable file is indexed as it is on disk, and no row is left of a    *)
(* file that is gone or ignored.                                               *)
Settled ==
    \A p \in Paths :
        /\ p \in Listed /\ disk[p] > 0 => rows[p] = disk[p] /\ Holds(p, disk[p])
        /\ p \notin Listed => rows[p] = 0

FullPassEnds == Finish /\ pass.kind = "full"

(* Files that failed "stay unindexed and will be retried": once the tree and    *)
(* the stores are quiet, non-forced full passes bring the index to the tree,    *)
(* whatever half-finished passes and failures came before.                      *)
Converges == ([]<><<FullPassEnds>>_vars) => <>[]Settled
=============================================================================
