--------------------------- MODULE IndexPassProofs ---------------------------
(* Proofs about the index pass, for any set of files, window, number of      *)
(* changes to the tree and number of failures.                               *)
EXTENDS IndexPass, FiniteSetTheorems, TLAPS

-----------------------------------------------------------------------------
(* Removal: the indexers that have run hold nothing of the paths to drop. *)
Swept ==
    /\ pass.pc = "remove" => \A p \in pass.gone, x \in Indexers \ pass.left :
                                 \A s \in StoresOf(x) : data[p][s] = 0
    /\ pass.pc = "rows" => \A p \in pass.gone : data[p] = Nothing

(* Indexing: the indexers that have run hold the files they did not fail on. *)
Indexed ==
    /\ pass.pc = "index" => \A p \in Batched \ pass.failed, x \in Indexers \ pass.left :
                                \A s \in StoresOf(x) \cap Guarded : data[p][s] = pass.batch[p]
    /\ pass.pc = "store" => \A p \in Batched \ pass.failed : Holds(p, pass.batch[p])

(* A plan pass accounts for every path of its plan. *)
Accounted ==
    pass.kind = "plan" =>
        /\ pass.pc \in {"read", "remove", "rows", "index", "store", "finish"}
        /\ pass.gone = {p \in Paths : pass.plan[p] = Delete}
        /\ Batched \cup pass.todo \subseteq Upserts(pass.plan)
        /\ Upserts(pass.plan) \subseteq Batched \cup pass.todo \cup pass.unapplied
        /\ pass.pc # "read" => pass.todo = {}

(* What a plan pass has done: first its deletions, at the end its upserts. *)
Landed ==
    pass.kind = "plan" =>
        /\ pass.pc \in {"index", "store", "finish"} =>
               \A p \in pass.gone : rows[p] = 0 /\ data[p] = Nothing
        /\ pass.pc = "finish" =>
               \A p \in Batched \ pass.unapplied :
                   rows[p] = pass.batch[p] /\ Holds(p, pass.batch[p])

(* A row that no longer describes a listed file: scanFile would not skip it. *)
Stale(p) == p \in ignored \/ disk[p] <= 0 \/ disk[p] # rows[p]

(* No recorded content is newer than the newest one. *)
Fresh == \A p \in Paths : disk[p] <= version /\ rows[p] <= version /\ pass.batch[p] <= version

(* The snapshot of the rows is still right for the files to be scanned. *)
Snapshot ==
    /\ pass.pc = "scan" => pass.kind = "full"
    /\ pass.kind = "full" => \A p \in pass.todo : /\ pass.known[p] = rows[p]
                                                  /\ pass.batch[p] = 0 /\ p \notin pass.gone

(* A pass only changes the data of files whose row is stale. *)
OnlyStale ==
    /\ pass.pc \in {"read", "remove", "rows"} => \A p \in pass.gone : Stale(p)
    /\ pass.pc \in {"read", "remove", "rows", "scan", "index", "store"} =>
           \A p \in Batched : Stale(p)
    /\ pass.pc = "read" => /\ pass.kind = "plan"
                           /\ \A p \in pass.todo : Stale(p) /\ pass.plan[p] = FromDisk

-----------------------------------------------------------------------------
(* Type correctness *)

LEMMA StoresOfType == \A x \in Indexers : StoresOf(x) \subseteq Stores
BY DEF Indexers, StoresOf, Stores

LEMMA WithoutType ==
    ASSUME NEW d \in [Stores -> Nat \cup {Mixed}], NEW S
    PROVE  Without(d, S) \in [Stores -> Nat \cup {Mixed}]
BY DEF Without

LEMMA HoldingType ==
    ASSUME NEW d \in [Stores -> Nat \cup {Mixed}], NEW S, NEW c \in Nat \cup {Mixed}
    PROVE  Holding(d, S, c) \in [Stores -> Nat \cup {Mixed}]
BY DEF Holding

LEMMA ResultsType ==
    ASSUME NEW d \in [Stores -> Nat \cup {Mixed}], NEW c \in Nat, NEW x
    PROVE  \A r \in Results(x, d, c) : r.data \in [Stores -> Nat \cup {Mixed}]
<1>1. Holding(d, {"units", "edges"}, c) \in [Stores -> Nat \cup {Mixed}]
    BY HoldingType
<1>2. Holding(d, {"vector"}, c) \in [Stores -> Nat \cup {Mixed}]
    BY HoldingType
<1>3. Holding(d, {"bm25"}, c) \in [Stores -> Nat \cup {Mixed}]
    BY HoldingType
<1>4. Holding(Without(d, {"edges"}), {"units"}, c) \in [Stores -> Nat \cup {Mixed}]
    BY HoldingType, WithoutType
<1>5. /\ Without(d, {"units"}) \in [Stores -> Nat \cup {Mixed}]
      /\ Without(d, {"units", "edges"}) \in [Stores -> Nat \cup {Mixed}]
      /\ Without(d, {"vector"}) \in [Stores -> Nat \cup {Mixed}]
    BY WithoutType
<1>6. CASE x = "ast"
    <2>1. Results(x, d, c) = AstResults(d, c)  BY <1>6 DEF Results
    <2>2. QED  BY <1>1, <1>4, <1>5, <2>1 DEF AstResults, Ok, Failed
<1>7. CASE x = "vector"
    <2>1. Results(x, d, c) = VectorResults(d, c)  BY <1>7 DEF Results
    <2>2. QED  BY <1>2, <1>5, <2>1 DEF VectorResults, Ok, Failed
<1>8. CASE x \notin {"ast", "vector"}
    <2>1. Results(x, d, c) = {Ok(Holding(d, {"bm25"}, c))}  BY <1>8 DEF Results
    <2>2. QED  BY <1>3, <2>1 DEF Ok
<1>9. QED  BY <1>6, <1>7, <1>8

LEMMA UnsweptType ==
    ASSUME NEW d \in [Stores -> Nat \cup {Mixed}], NEW c \in Nat
    PROVE  Unswept(d, c) \subseteq [Stores -> Nat \cup {Mixed}]
<1>1. /\ Holding(d, {"bm25"}, c) \in [Stores -> Nat \cup {Mixed}]
      /\ Holding(d, {"bm25"}, Mixed) \in [Stores -> Nat \cup {Mixed}]
    BY HoldingType
<1>2. QED  BY <1>1 DEF Unswept

LEMMA MergeType ==
    ASSUME NEW changes \in Batches, version \in Nat
    PROVE  mergeCommitPlan(changes) \in [Paths -> Int]
<1> SUFFICES ASSUME NEW p \in Paths PROVE mergeCommitPlan(changes)[p] \in Int
    BY DEF mergeCommitPlan
<1>1. \A i \in DOMAIN changes : changes[i].content \in Int
    <2>1. \A f \in Change : f.content \in Int  BY DEF Change, Contents, FromDisk, Delete
    <2>2. QED  BY <2>1 DEF Batches
<1>2. CASE \E i \in DOMAIN changes : IsLast(changes, p, i)
    <2>1. (CHOOSE i \in DOMAIN changes : IsLast(changes, p, i)) \in DOMAIN changes
        BY <1>2
    <2>2. QED  BY <1>1, <1>2, <2>1 DEF mergeCommitPlan, Delete
<1>3. CASE ~\E i \in DOMAIN changes : IsLast(changes, p, i)
    BY <1>3 DEF mergeCommitPlan, Untouched
<1>4. QED  BY <1>2, <1>3

LEMMA EmptyWindow == Cardinality({}) <= Window
<1>1. Cardinality({}) = 0  BY FS_EmptySet
<1>2. QED  BY <1>1, PassAssumption

LEMMA NoPassType == NoPass \in Pass /\ NoPass.seen = {}
BY DEF NoPass, Pass, Clear

(* The initial state is well formed. *)
LEMMA TypeInit == Init => TypeOK
BY NoPassType, EmptyWindow, PassAssumption DEF Init, TypeOK, Clear, Nothing

LEMMA TypeTree ==
    ASSUME TypeOK, NEW p \in Paths
    PROVE  /\ \A c \in {Absent, Broken} \cup 1 .. version + 1 : Edit(p, c) => TypeOK'
           /\ Ignore(p) => TypeOK'
<1>1. ASSUME NEW c \in {Absent, Broken} \cup 1 .. version + 1, Edit(p, c) PROVE TypeOK'
    BY <1>1, PassAssumption DEF TypeOK, Edit, Event, Absent, Broken
<1>2. ASSUME Ignore(p) PROVE TypeOK'
    BY <1>2, PassAssumption DEF TypeOK, Ignore, Event
<1>3. QED  BY <1>1, <1>2

LEMMA TypeStart ==
    ASSUME TypeOK
    PROVE  /\ \A force \in BOOLEAN : Walk(force) => TypeOK'
           /\ \A changes \in Batches : Plan(changes) => TypeOK'
<1>1. ASSUME NEW force \in BOOLEAN, Walk(force) PROVE TypeOK'
    <2>1. pass' \in Pass
        BY <1>1, NoPassType DEF TypeOK, Walk, Pass, Listed, Clear, Indexers
    <2>2. pass'.seen = {}  BY <1>1 DEF Walk, NoPass
    <2>3. QED  BY <1>1, <2>1, <2>2, EmptyWindow DEF TypeOK, Walk, tree
<1>2. ASSUME NEW changes \in Batches, Plan(changes) PROVE TypeOK'
    <2> DEFINE plan == Final(mergeCommitPlan(changes))
    <2>1. plan \in [Paths -> Int]
        BY MergeType DEF TypeOK, Final, Delete
    <2> HIDE DEF plan
    <2>2. pass' = [NoPass EXCEPT !.kind = "plan", !.pc = "read", !.plan = plan,
                       !.todo = Upserts(plan), !.gone = {p \in Paths : plan[p] = Delete}]
        BY <1>2 DEF Plan, plan
    <2>3. pass' \in Pass  BY <2>1, <2>2, NoPassType DEF Pass, Upserts
    <2>4. pass'.seen = {}  BY <2>2 DEF NoPass
    <2>5. QED  BY <1>2, <2>3, <2>4, EmptyWindow DEF TypeOK, Plan, tree
<1>3. QED  BY <1>1, <1>2

LEMMA TypeRead ==
    ASSUME TypeOK
    PROVE  /\ \A p \in Paths : ReadPlan(p) => TypeOK'
           /\ PlanRead => TypeOK'
<1>1. ASSUME NEW p \in Paths, ReadPlan(p) PROVE TypeOK'
    <2> DEFINE c == IF pass.plan[p] = FromDisk THEN disk[p] ELSE pass.plan[p]
    <2>1. c \in Int  BY DEF TypeOK, Pass, Broken
    <2> DEFINE b == [pass.batch EXCEPT ![p] = IF c <= 0 THEN 0 ELSE c]
               u == IF c <= 0 THEN pass.unapplied \cup {p} ELSE pass.unapplied
    <2>2. pass' = [pass EXCEPT !.todo = @ \ {p}, !.batch = b, !.unapplied = u]
        BY <1>1 DEF ReadPlan
    <2> HIDE DEF c
    <2>b. b \in [Paths -> Nat] /\ u \subseteq Paths  BY <2>1 DEF TypeOK, Pass
    <2> HIDE DEF b, u
    <2>3. pass' \in Pass /\ pass'.seen = pass.seen  BY <2>2, <2>b DEF TypeOK, Pass
    <2>4. QED  BY <1>1, <2>3 DEF TypeOK, ReadPlan, tree
<1>2. ASSUME PlanRead PROVE TypeOK'
    <2>1. pass' \in Pass /\ pass'.seen = pass.seen
        BY <1>2 DEF TypeOK, Pass, PlanRead, Indexers
    <2>2. QED  BY <1>2, <2>1 DEF TypeOK, PlanRead, tree
<1>3. QED  BY <1>1, <1>2

LEMMA TypeRemove ==
    ASSUME TypeOK
    PROVE  /\ \A x \in Indexers : RemoveFrom(x) \/ RemoveFails(x) => TypeOK'
           /\ DropRows => TypeOK'
<1>1. ASSUME NEW x \in Indexers, RemoveFrom(x) PROVE TypeOK'
    <2>1. data' \in [Paths -> [Stores -> Nat \cup {Mixed}]]
        BY <1>1, WithoutType DEF TypeOK, RemoveFrom
    <2>2. pass' \in Pass /\ pass'.seen = pass.seen
        BY <1>1 DEF TypeOK, Pass, RemoveFrom
    <2>3. QED  BY <1>1, <2>1, <2>2 DEF TypeOK, RemoveFrom, tree
<1>2. ASSUME NEW x \in Indexers, RemoveFails(x) PROVE TypeOK'
    <2>1. data' \in [Paths -> [Stores -> Nat \cup {Mixed}]]
        BY <1>2, WithoutType DEF TypeOK, RemoveFails
    <2>2. QED  BY <1>2, <2>1, NoPassType, EmptyWindow, PassAssumption
               DEF TypeOK, RemoveFails, Event, tree
<1>3. ASSUME DropRows PROVE TypeOK'
    <2>1. data' \in [Paths -> [Stores -> Nat \cup {Mixed}]]
        BY <1>3, WithoutType DEF TypeOK, DropRows
    <2>2. pass' \in Pass /\ pass'.seen = pass.seen
        BY <1>3 DEF TypeOK, Pass, DropRows
    <2>3. QED  BY <1>3, <2>1, <2>2 DEF TypeOK, DropRows, tree
<1>4. QED  BY <1>1, <1>2, <1>3

LEMMA TypeScan ==
    ASSUME TypeOK
    PROVE  /\ \A p \in Paths : Scan(p) => TypeOK'
           /\ WindowScanned => TypeOK'
<1>1. ASSUME NEW p \in Paths, Scan(p) PROVE TypeOK'
    <2>1. disk[p] \in Int  BY DEF TypeOK, Broken
    <2> DEFINE b == [pass.batch EXCEPT ![p] = IF disk[p] <= 0 \/ pass.known[p] = disk[p]
                                              THEN 0 ELSE disk[p]]
    <2>p. pass' = [pass EXCEPT !.todo = @ \ {p}, !.seen = @ \cup {p}, !.batch = b]
        BY <1>1 DEF Scan
    <2>b. b \in [Paths -> Nat]  BY <2>1 DEF TypeOK, Pass
    <2> HIDE DEF b
    <2>2. pass' \in Pass /\ pass'.seen = pass.seen \cup {p}
        BY <2>p, <2>b DEF TypeOK, Pass
    <2>3. IsFiniteSet(pass.seen)
        BY PassAssumption, FS_Subset DEF TypeOK, Pass
    <2>4. Cardinality(pass'.seen) <= Window
        <3>1. Cardinality(pass.seen) \in Nat  BY <2>3, FS_CardinalityType
        <3>2. Cardinality(pass.seen \cup {p}) \in {Cardinality(pass.seen), Cardinality(pass.seen) + 1}
            BY <2>3, <3>1, FS_AddElement
        <3>3. QED  BY <1>1, <2>2, <3>1, <3>2, PassAssumption DEF Scan
    <2>5. QED  BY <1>1, <2>2, <2>4 DEF TypeOK, Scan, tree
<1>2. ASSUME WindowScanned PROVE TypeOK'
    <2>1. pass' \in Pass /\ pass'.seen = {}
        BY <1>2 DEF TypeOK, Pass, WindowScanned
    <2>2. QED  BY <1>2, <2>1, EmptyWindow DEF TypeOK, WindowScanned, tree
<1>3. QED  BY <1>1, <1>2

LEMMA TypeRan ==
    ASSUME TypeOK, NEW x, NEW failed \in SUBSET Paths, Ran(x, failed)
    PROVE  pass' \in Pass /\ pass'.seen = pass.seen
BY DEF TypeOK, Pass, Ran

LEMMA TypeIndex ==
    ASSUME TypeOK
    PROVE  /\ \A x \in Indexers : Index(x) \/ IndexFails(x) => TypeOK'
           /\ Unattributed \/ IndexEnds => TypeOK'
<1> DEFINE D == [Stores -> Nat \cup {Mixed}]
<1>b. \A p \in Paths : data[p] \in D /\ pass.batch[p] \in Nat  BY DEF TypeOK, Pass
<1>s. Batched \subseteq Paths  BY DEF Batched
<1> HIDE DEF D
<1>1. ASSUME NEW x \in Indexers, Index(x) PROVE TypeOK'
    <2>1. \A p \in Paths : Holding(data[p], StoresOf(x), pass.batch[p]) \in D
        BY <1>b, HoldingType DEF D
    <2>2. data' \in [Paths -> D]  BY <1>1, <1>b, <2>1 DEF Index
    <2>3. pass' \in Pass /\ pass'.seen = pass.seen  BY <1>1, TypeRan DEF Index
    <2>4. QED  BY <1>1, <2>2, <2>3 DEF TypeOK, Index, tree, D
<1>2. ASSUME NEW x \in Indexers, IndexFails(x) PROVE TypeOK'
    <2>1. PICK res :
            /\ \A p \in Batched : res[p] \in Results(x, data[p], pass.batch[p])
            /\ data' = [p \in Paths |-> IF p \in Batched THEN res[p].data ELSE data[p]]
            /\ Ran(x, {p \in Batched : res[p].failed})
        BY <1>2 DEF IndexFails
    <2>2. \A p \in Batched : res[p].data \in D
        BY <1>b, <1>s, <2>1, ResultsType DEF D
    <2>3. data' \in [Paths -> D]  BY <1>b, <2>1, <2>2
    <2>4. pass' \in Pass /\ pass'.seen = pass.seen
        <3>1. {p \in Batched : res[p].failed} \in SUBSET Paths  BY <1>s
        <3>2. QED  BY <2>1, <3>1, TypeRan
    <2>5. QED  BY <1>2, <2>3, <2>4, PassAssumption DEF TypeOK, IndexFails, Event, tree, D
<1>3. ASSUME Unattributed PROVE TypeOK'
    <2>1. PICK d : /\ \A p \in Batched : d[p] \in Unswept(data[p], pass.batch[p])
                   /\ data' = [p \in Paths |-> IF p \in Batched THEN d[p] ELSE data[p]]
        BY <1>3 DEF Unattributed
    <2>2. \A p \in Batched : d[p] \in D
        BY <1>b, <1>s, <2>1, UnsweptType DEF D
    <2>3. data' \in [Paths -> D]  BY <1>b, <2>1, <2>2
    <2>4. pass' \in Pass /\ pass'.seen = pass.seen  BY <1>3, <1>s, TypeRan DEF Unattributed
    <2>5. QED  BY <1>3, <2>3, <2>4, PassAssumption DEF TypeOK, Unattributed, Event, tree, D
<1>4. ASSUME IndexEnds PROVE TypeOK'
    <2>1. PICK x \in pass.left :
             \E d : /\ \A p \in Batched : d[p] \in Interrupted(x, data[p], pass.batch[p])
                    /\ data' = [p \in Paths |-> IF p \in Batched THEN d[p] ELSE data[p]]
        BY <1>4 DEF IndexEnds
    <2>2. PICK d : /\ \A p \in Batched : d[p] \in Interrupted(x, data[p], pass.batch[p])
                   /\ data' = [p \in Paths |-> IF p \in Batched THEN d[p] ELSE data[p]]
        BY <2>1
    <2>3. \A p \in Batched : d[p] \in D
        BY <1>b, <1>s, <2>2, ResultsType DEF D, Interrupted
    <2>4. data' \in [Paths -> D]  BY <1>b, <2>2, <2>3
    <2>5. QED  BY <1>4, <2>4, NoPassType, EmptyWindow, PassAssumption
               DEF TypeOK, IndexEnds, Event, tree, D
<1>5. QED  BY <1>1, <1>2, <1>3, <1>4

LEMMA TypeEnd ==
    ASSUME TypeOK
    PROVE  StoreRows \/ Finish \/ Abort => TypeOK'
<1>1. ASSUME StoreRows PROVE TypeOK'
    <2>1. pass' \in Pass /\ pass'.seen = pass.seen
        BY <1>1 DEF TypeOK, Pass, StoreRows, AfterStore, Clear
    <2>2. rows' \in [Paths -> Nat]
        BY <1>1 DEF TypeOK, Pass, StoreRows, Stored
    <2>3. QED  BY <1>1, <2>1, <2>2 DEF TypeOK, StoreRows, tree
<1>2. ASSUME Finish PROVE TypeOK'
    BY <1>2, NoPassType, EmptyWindow DEF TypeOK, Finish, tree
<1>3. ASSUME Abort PROVE TypeOK'
    BY <1>3, NoPassType, EmptyWindow, PassAssumption DEF TypeOK, Abort, Event, tree
<1>4. QED  BY <1>1, <1>2, <1>3

LEMMA TypeNext == TypeOK /\ [Next]_vars => TypeOK'
<1> SUFFICES ASSUME TypeOK, [Next]_vars PROVE TypeOK'  OBVIOUS
<1>1. CASE Next
    BY <1>1, TypeTree, TypeStart, TypeRead, TypeRemove, TypeScan, TypeIndex, TypeEnd DEF Next
<1>2. CASE UNCHANGED vars
    BY <1>2 DEF vars, tree, TypeOK
<1>3. QED  BY <1>1, <1>2

(* Rows, stores, snapshot, plan and batch stay well formed, and no window holds *)
(* more than indexBatchFiles files, whatever fails and however the tree changes. *)
THEOREM PassTypeCorrect == Spec => []TypeOK
<1>1. QED  BY TypeInit, TypeNext, PTL DEF Spec

-----------------------------------------------------------------------------
(* Removal *)

SweepInv == TypeOK /\ Swept

LEMMA SweptNext == SweepInv /\ [Next]_vars => Swept'
<1> SUFFICES ASSUME SweepInv, [Next]_vars PROVE Swept'  OBVIOUS
<1> USE DEF SweepInv
<1>p. pass \in Pass  BY DEF TypeOK
<1>1. CASE \E p \in Paths : \/ \E c \in {Absent, Broken} \cup 1 .. version + 1 : Edit(p, c)
                            \/ Ignore(p)
    BY <1>1 DEF Swept, Edit, Ignore
<1>2. CASE \E force \in BOOLEAN : Walk(force)
    <2>1. pass'.pc = "scan" \/ (pass'.pc = "remove" /\ pass'.left = Indexers)
        BY <1>2 DEF Walk, NoPass
    <2>2. QED  BY <2>1 DEF Swept
<1>3. CASE (\E changes \in Batches : Plan(changes)) \/ \E p \in Paths : ReadPlan(p)
    <2>1. pass'.pc = "read"  BY <1>3, <1>p DEF Plan, ReadPlan, NoPass, Pass
    <2>2. QED  BY <2>1 DEF Swept
<1>4. CASE PlanRead
    <2>1. pass'.pc \in {"remove", "index", "finish"} /\ pass'.left = Indexers
        BY <1>4, <1>p DEF PlanRead, Pass
    <2>2. QED  BY <2>1 DEF Swept
<1>5. ASSUME NEW x \in Indexers, RemoveFrom(x) PROVE Swept'
    <2>1. /\ pass'.left = pass.left \ {x} /\ pass'.gone = pass.gone
          /\ pass'.pc = IF pass.left = {x} THEN "rows" ELSE "remove"
        BY <1>5, <1>p DEF RemoveFrom, Pass
    <2>2. ASSUME NEW p \in pass.gone, NEW y \in Indexers \ pass'.left, NEW s \in StoresOf(y)
          PROVE  data'[p][s] = 0
        <3>1. data'[p] = Without(data[p], StoresOf(x)) /\ s \in Stores
            BY <1>5, <1>p, <2>2, StoresOfType DEF RemoveFrom, Pass
        <3>2. CASE s \in StoresOf(x)  BY <3>1, <3>2 DEF Without
        <3>3. CASE s \notin StoresOf(x)
            <4>1. y \in Indexers \ pass.left  BY <2>1, <2>2, <3>3
            <4>2. data[p][s] = 0  BY <1>5, <2>2, <4>1 DEF Swept, RemoveFrom
            <4>3. QED  BY <3>1, <3>3, <4>2 DEF Without
        <3>4. QED  BY <3>2, <3>3
    <2>3. ASSUME pass'.pc = "rows", NEW p \in pass.gone PROVE data'[p] = Nothing
        <3>1. pass'.left = {}  BY <2>1, <2>3
        <3>2. \A s \in Stores : data'[p][s] = 0
            <4>1. \A s \in Stores : \E y \in Indexers : s \in StoresOf(y)
                BY DEF Stores, Indexers, StoresOf
            <4>2. QED  BY <2>2, <3>1, <4>1
        <3>3. data'[p] = Without(data[p], StoresOf(x))
            BY <1>5, <1>p DEF RemoveFrom, Pass
        <3>4. QED  BY <3>2, <3>3 DEF Without, Nothing
    <2>4. QED  BY <2>1, <2>2, <2>3 DEF Swept
<1>6. CASE (\E x \in Indexers : Index(x) \/ IndexFails(x)) \/ Unattributed
    <2>1. \A x, failed : pass.pc = "index" /\ Ran(x, failed) => pass'.pc \in {"index", "store"}
        BY <1>p DEF Ran, Pass
    <2>2. pass'.pc \in {"index", "store"}
        BY <1>6, <2>1 DEF Index, IndexFails, Unattributed
    <2>3. QED  BY <2>2 DEF Swept
<1>e. CASE (\E x \in Indexers : RemoveFails(x)) \/ IndexEnds \/ Finish \/ Abort
    <2>1. pass'.pc = "idle"  BY <1>e DEF RemoveFails, IndexEnds, Finish, Abort, NoPass
    <2>2. QED  BY <2>1 DEF Swept
<1>7. CASE DropRows \/ WindowScanned \/ StoreRows \/ \E p \in Paths : Scan(p)
    <2>1. pass'.pc \in {"scan", "index", "finish"}
        BY <1>7, <1>p DEF DropRows, WindowScanned, StoreRows, AfterStore, Scan, Pass
    <2>2. QED  BY <2>1 DEF Swept
<1>8. CASE UNCHANGED vars  BY <1>8 DEF vars, Swept
<1>9. QED  BY <1>1, <1>2, <1>3, <1>4, <1>5, <1>6, <1>e, <1>7, <1>8 DEF Next

LEMMA RowsGoLastStep ==
    SweepInv /\ [Next]_vars => \A p \in Paths : rows[p] # 0 /\ rows'[p] = 0 => data'[p] = Nothing
<1> SUFFICES ASSUME SweepInv, [Next]_vars, NEW p \in Paths, rows[p] # 0, rows'[p] = 0
             PROVE  data'[p] = Nothing
    OBVIOUS
<1> USE DEF SweepInv
<1>1. CASE DropRows
    <2>1. p \in pass.gone /\ data[p] = Nothing
        BY <1>1 DEF DropRows, Swept, TypeOK
    <2>2. data'[p] = Without(Nothing, {"units", "edges"})  BY <1>1, <2>1 DEF DropRows
    <2>3. QED  BY <2>2 DEF Without, Nothing
<1>2. CASE StoreRows
    <2>1. rows'[p] = IF p \in Batched \ pass.failed THEN pass.batch[p] ELSE rows[p]
        BY <1>2 DEF StoreRows, Stored
    <2>2. QED  BY <2>1 DEF Batched
<1>3. CASE rows' = rows  BY <1>3
<1>4. DropRows \/ StoreRows \/ rows' = rows
    BY DEF Next, vars, Edit, Ignore, ReadPlan, Scan, Walk, Plan, RemoveFrom, RemoveFails, Index,
           IndexFails, PlanRead, WindowScanned, Unattributed, IndexEnds, Finish, Abort
<1>5. QED  BY <1>1, <1>2, <1>3, <1>4

(* A file's row disappears only when no store holds anything of the file: the   *)
(* order of removeIndexedPaths, for any number of files and failed removals.     *)
THEOREM RowsGoLastAlways == Spec => RowsGoLast
<1>1. Init => SweepInv
    <2>1. Init => Swept  BY DEF Init, Swept, NoPass
    <2>2. QED  BY <2>1, TypeInit DEF SweepInv
<1>2. SweepInv /\ [Next]_vars => SweepInv'
    BY SweptNext, TypeNext DEF SweepInv
<1>3. SweepInv /\ [Next]_vars =>
          [\A p \in Paths : rows[p] # 0 /\ rows'[p] = 0 => data'[p] = Nothing]_vars
    BY RowsGoLastStep
<1>4. QED  BY <1>1, <1>2, <1>3, PTL DEF Spec, RowsGoLast

-----------------------------------------------------------------------------
(* Indexing *)

(* A result that is not reported as failed holds the content in the guarded   *)
(* stores of its indexer, and no result touches the stores of the others.      *)
LEMMA ResultsHold ==
    ASSUME NEW x \in Indexers, NEW d \in [Stores -> Nat \cup {Mixed}], NEW c \in Nat,
           NEW r \in Results(x, d, c)
    PROVE  /\ ~r.failed => \A s \in StoresOf(x) \cap Guarded : r.data[s] = c
           /\ \A s \in Stores \ StoresOf(x) : r.data[s] = d[s]
<1> USE DEF Ok, Failed, Holding, Without, StoresOf, Guarded, Stores
<1>1. CASE x = "ast"
    <2>1. r \in AstResults(d, c)  BY <1>1 DEF Results
    <2>2. CASE r = Ok(Holding(d, {"units", "edges"}, c))  BY <1>1, <2>2
    <2>3. CASE r = Ok(Holding(Without(d, {"edges"}), {"units"}, c))  BY <1>1, <2>3
    <2>4. CASE r = Failed(d)  BY <1>1, <2>4
    <2>5. CASE r = Failed(Without(d, {"units"}))  BY <1>1, <2>5
    <2>6. CASE r = Failed(Without(d, {"units", "edges"}))  BY <1>1, <2>6
    <2>7. QED  BY <2>1, <2>2, <2>3, <2>4, <2>5, <2>6 DEF AstResults
<1>2. CASE x = "vector"
    <2>1. r \in VectorResults(d, c)  BY <1>2 DEF Results
    <2>2. CASE r = Ok(Holding(d, {"vector"}, c))  BY <1>2, <2>2
    <2>3. CASE r = Failed(Holding(d, {"vector"}, c))  BY <1>2, <2>3
    <2>4. CASE r = Failed(d)  BY <1>2, <2>4
    <2>5. CASE r = Failed(Without(d, {"vector"}))  BY <1>2, <2>5
    <2>6. QED  BY <2>1, <2>2, <2>3, <2>4, <2>5 DEF VectorResults
<1>3. CASE x = "bm25"
    <2>1. r = Ok(Holding(d, {"bm25"}, c))  BY <1>3 DEF Results
    <2>2. QED  BY <1>3, <2>1
<1>4. QED  BY <1>1, <1>2, <1>3 DEF Indexers

(* The step of one indexer, seen from the files of the batch. *)
LEMMA IndexStep ==
    ASSUME TypeOK, Indexed, pass.pc = "index", NEW x \in pass.left, NEW failed \in SUBSET Paths,
           Ran(x, failed),
           \A p \in Batched \ failed : \A s \in StoresOf(x) \cap Guarded : data'[p][s] = pass.batch[p],
           \A p \in Batched : \A s \in Stores \ StoresOf(x) : data'[p][s] = data[p][s]
    PROVE  Indexed'
<1>p. pass \in Pass  BY DEF TypeOK
<1>1. /\ pass'.left = pass.left \ {x} /\ pass'.failed = pass.failed \cup failed
      /\ pass'.batch = pass.batch /\ pass'.pc = IF pass.left = {x} THEN "store" ELSE "index"
    BY <1>p DEF Ran, Pass
<1>2. Batched' = Batched  BY <1>1 DEF Batched
<1>3. ASSUME NEW p \in Batched \ pass'.failed, NEW y \in Indexers \ pass'.left,
             NEW s \in StoresOf(y) \cap Guarded
      PROVE  data'[p][s] = pass.batch[p]
    <2>1. CASE s \in StoresOf(x)  BY <1>1, <1>3, <2>1
    <2>2. CASE s \notin StoresOf(x)
        <3>1. y \in Indexers \ pass.left  BY <1>1, <1>3, <2>2
        <3>2. data[p][s] = pass.batch[p]  BY <1>1, <1>3, <3>1 DEF Indexed
        <3>3. QED  BY <1>3, <2>2, <3>2 DEF Guarded
    <2>3. QED  BY <2>1, <2>2
<1>4. ASSUME pass'.pc = "store", NEW p \in Batched \ pass'.failed
      PROVE  \A s \in Guarded : data'[p][s] = pass.batch[p]
    <2>1. \A s \in Guarded : \E y \in Indexers : s \in StoresOf(y) \cap Guarded
        BY DEF Guarded, Stores, Indexers, StoresOf
    <2>2. pass'.left = {}  BY <1>1, <1>4
    <2>3. QED  BY <1>3, <2>1, <2>2
<1>5. QED  BY <1>1, <1>2, <1>3, <1>4 DEF Indexed, Holds

LEMMA IndexedNext == TypeOK /\ Indexed /\ [Next]_vars => Indexed'
<1> SUFFICES ASSUME TypeOK, Indexed, [Next]_vars PROVE Indexed'  OBVIOUS
<1>p. pass \in Pass  BY DEF TypeOK
<1>b. \A p \in Batched : /\ p \in Paths /\ data[p] \in [Stores -> Nat \cup {Mixed}]
                         /\ pass.batch[p] \in Nat
    BY DEF Batched, TypeOK, Pass
<1>l. pass.left \subseteq Indexers  BY <1>p DEF Pass
<1>1. ASSUME NEW x \in Indexers, Index(x) PROVE Indexed'
    <2>1. \A p \in Batched : data'[p] = Holding(data[p], StoresOf(x), pass.batch[p])
        BY <1>1, <1>b DEF Index
    <2>2. \A p \in Batched : \A s \in StoresOf(x) : data'[p][s] = pass.batch[p]
        BY <2>1, StoresOfType DEF Holding
    <2>3. \A p \in Batched : \A s \in Stores \ StoresOf(x) : data'[p][s] = data[p][s]
        BY <2>1 DEF Holding
    <2>4. QED  BY <1>1, <2>2, <2>3, IndexStep DEF Index
<1>2. ASSUME NEW x \in Indexers, IndexFails(x) PROVE Indexed'
    <2>1. PICK res :
            /\ \A p \in Batched : res[p] \in Results(x, data[p], pass.batch[p])
            /\ data' = [p \in Paths |-> IF p \in Batched THEN res[p].data ELSE data[p]]
            /\ Ran(x, {p \in Batched : res[p].failed})
        BY <1>2 DEF IndexFails
    <2> DEFINE failed == {p \in Batched : res[p].failed}
    <2>2. \A p \in Batched :
            /\ ~res[p].failed => \A s \in StoresOf(x) \cap Guarded : res[p].data[s] = pass.batch[p]
            /\ \A s \in Stores \ StoresOf(x) : res[p].data[s] = data[p][s]
        BY <1>b, <2>1, ResultsHold
    <2>3. \A p \in Batched : data'[p] = res[p].data  BY <1>b, <2>1
    <2>4. /\ \A p \in Batched \ failed :
                \A s \in StoresOf(x) \cap Guarded : data'[p][s] = pass.batch[p]
          /\ \A p \in Batched : \A s \in Stores \ StoresOf(x) : data'[p][s] = data[p][s]
        BY <2>2, <2>3
    <2>5. failed \in SUBSET Paths /\ Ran(x, failed)  BY <1>b, <2>1
    <2> HIDE DEF failed
    <2>6. QED  BY <1>2, <2>4, <2>5, IndexStep DEF IndexFails
<1>3. ASSUME Unattributed PROVE Indexed'
    <2>1. PICK d : /\ \A p \in Batched : d[p] \in Unswept(data[p], pass.batch[p])
                   /\ data' = [p \in Paths |-> IF p \in Batched THEN d[p] ELSE data[p]]
        BY <1>3 DEF Unattributed
    <2>2. ASSUME NEW p \in Batched, NEW s \in Stores \ StoresOf("bm25") PROVE d[p][s] = data[p][s]
        <3>1. \E e : d[p] = Holding(data[p], {"bm25"}, e)  BY <2>1 DEF Unswept
        <3>2. s \in Stores /\ s \notin {"bm25"}  BY <2>2 DEF StoresOf
        <3>3. QED  BY <3>1, <3>2 DEF Holding
    <2>3. \A p \in Batched : data'[p] = d[p]  BY <1>b, <2>1
    <2>4. Batched \in SUBSET Paths  BY <1>b
    <2>5. \A p \in Batched : \A s \in Stores \ StoresOf("bm25") : data'[p][s] = data[p][s]
        BY <2>2, <2>3
    <2>6. \A p \in Batched \ Batched :
              \A s \in StoresOf("bm25") \cap Guarded : data'[p][s] = pass.batch[p]
        OBVIOUS
    <2>7. pass.pc = "index" /\ "bm25" \in pass.left /\ Ran("bm25", Batched)
        BY <1>3 DEF Unattributed
    <2>8. QED  BY <2>4, <2>5, <2>6, <2>7, IndexStep
<1>4. CASE \E p \in Paths : \/ \E c \in {Absent, Broken} \cup 1 .. version + 1 : Edit(p, c)
                            \/ Ignore(p)
    BY <1>4 DEF Indexed, Batched, Holds, Edit, Ignore
<1>5. CASE PlanRead \/ DropRows \/ WindowScanned
    <2>1. pass'.pc # "store" /\ pass'.left = Indexers
        BY <1>5, <1>p DEF PlanRead, DropRows, WindowScanned, Pass
    <2>2. QED  BY <2>1 DEF Indexed
<1>6. CASE (\E force \in BOOLEAN : Walk(force)) \/ (\E changes \in Batches : Plan(changes))
    <2>1. pass'.pc \in {"scan", "remove", "read"}  BY <1>6 DEF Walk, Plan, NoPass
    <2>2. QED  BY <2>1 DEF Indexed
<1>7. CASE (\E x \in Indexers : RemoveFails(x)) \/ IndexEnds \/ Finish \/ Abort
    <2>1. pass'.pc = "idle"  BY <1>7 DEF RemoveFails, IndexEnds, Finish, Abort, NoPass
    <2>2. QED  BY <2>1 DEF Indexed
<1>8. CASE (\E x \in Indexers : RemoveFrom(x)) \/ StoreRows \/ \E p \in Paths : Scan(p) \/ ReadPlan(p)
    <2>1. pass'.pc \notin {"index", "store"}
        BY <1>8, <1>p DEF RemoveFrom, StoreRows, AfterStore, Scan, ReadPlan, Pass
    <2>2. QED  BY <2>1 DEF Indexed
<1>9. CASE UNCHANGED vars  BY <1>9 DEF vars, Indexed, Batched, Holds
<1>10. QED  BY <1>1, <1>2, <1>3, <1>4, <1>5, <1>6, <1>7, <1>8, <1>9 DEF Next

-----------------------------------------------------------------------------
(* Plan passes *)

PlanInv == TypeOK /\ Swept /\ Indexed /\ Accounted /\ Landed

LEMMA PlanStart ==
    ASSUME PlanInv, NEW changes \in Batches, Plan(changes)
    PROVE  (Accounted /\ Landed)'
<1> DEFINE plan == Final(mergeCommitPlan(changes))
<1>1. pass' = [NoPass EXCEPT !.kind = "plan", !.pc = "read", !.plan = plan,
                   !.todo = Upserts(plan), !.gone = {p \in Paths : plan[p] = Delete}]
    BY DEF Plan
<1> HIDE DEF plan
<1>2. /\ pass'.pc = "read" /\ pass'.plan = plan /\ pass'.batch = Clear
      /\ pass'.todo = Upserts(plan) /\ pass'.gone = {p \in Paths : plan[p] = Delete}
    BY <1>1 DEF NoPass
<1>3. Batched' = {}  BY <1>2 DEF Batched, Clear
<1>4. Accounted'  BY <1>2, <1>3 DEF Accounted
<1>5. Landed'  BY <1>2 DEF Landed
<1>6. QED  BY <1>4, <1>5

LEMMA PlanReading ==
    ASSUME PlanInv, NEW p \in Paths, ReadPlan(p)
    PROVE  (Accounted /\ Landed)'
<1>p. pass \in Pass  BY DEF PlanInv, TypeOK
<1> DEFINE c == IF pass.plan[p] = FromDisk THEN disk[p] ELSE pass.plan[p]
           b == [pass.batch EXCEPT ![p] = IF c <= 0 THEN 0 ELSE c]
           u == IF c <= 0 THEN pass.unapplied \cup {p} ELSE pass.unapplied
<1>1. pass' = [pass EXCEPT !.todo = @ \ {p}, !.batch = b, !.unapplied = u]
    BY DEF ReadPlan
<1>c. c \in Int  BY <1>p DEF PlanInv, TypeOK, Pass, Broken
<1> HIDE DEF c
<1>2. /\ b \in [Paths -> Int]
      /\ \A q \in Paths \ {p} : b[q] = pass.batch[q]
      /\ IF c <= 0 THEN u = pass.unapplied \cup {p} ELSE b[p] # 0 /\ u = pass.unapplied
    BY <1>c, <1>p DEF Pass
<1> HIDE DEF b, u
<1>3. /\ pass'.pc = "read" /\ pass'.kind = pass.kind /\ pass'.plan = pass.plan
      /\ pass'.gone = pass.gone /\ pass'.todo = pass.todo \ {p}
      /\ pass'.batch = b /\ pass'.unapplied = u /\ p \in pass.todo
    BY <1>1, <1>p DEF ReadPlan, Pass
<1>4. ASSUME pass.kind = "plan"
      PROVE  /\ Batched' \cup pass'.todo \subseteq Upserts(pass.plan)
             /\ Upserts(pass.plan) \subseteq Batched' \cup pass'.todo \cup pass'.unapplied
    <2>1. Batched' = {q \in Paths : b[q] # 0}  BY <1>3 DEF Batched
    <2>2. /\ Batched \cup pass.todo \subseteq Upserts(pass.plan)
          /\ Upserts(pass.plan) \subseteq Batched \cup pass.todo \cup pass.unapplied
        BY <1>4 DEF PlanInv, Accounted
    <2>3. QED  BY <1>2, <1>3, <2>1, <2>2 DEF Batched
<1>5. Accounted'  BY <1>3, <1>4 DEF PlanInv, Accounted
<1>6. Landed'  BY <1>3 DEF Landed
<1>7. QED  BY <1>5, <1>6

(* A step that leaves the plan and its batch alone keeps them accounted for. *)
LEMMA SamePlan ==
    ASSUME Accounted, pass'.kind = pass.kind, pass'.plan = pass.plan, pass'.gone = pass.gone,
           pass'.todo = pass.todo, pass'.batch = pass.batch,
           pass.unapplied \subseteq pass'.unapplied,
           pass.pc # "read",
           pass'.pc \in {"remove", "rows", "index", "store", "finish"}
    PROVE  Accounted'
<1>1. Batched' = Batched  BY DEF Batched
<1>2. QED  BY <1>1 DEF Accounted

LEMMA PlanIsRead ==
    ASSUME PlanInv, PlanRead
    PROVE  (Accounted /\ Landed)'
<1>p. pass \in Pass  BY DEF PlanInv, TypeOK
<1>1. /\ pass.todo = {}
      /\ pass'.kind = pass.kind /\ pass'.plan = pass.plan /\ pass'.gone = pass.gone
      /\ pass'.todo = pass.todo /\ pass'.batch = pass.batch /\ pass'.unapplied = pass.unapplied
      /\ pass'.pc = IF pass.gone # {} THEN "remove" ELSE IF Batched # {} THEN "index" ELSE "finish"
    BY <1>p DEF PlanRead, Pass
<1>2. Batched' = Batched  BY <1>1 DEF Batched
<1>3. Accounted'  BY <1>1, <1>2 DEF PlanInv, Accounted
<1>4. Landed'  BY <1>1, <1>2 DEF Landed
<1>5. QED  BY <1>3, <1>4

LEMMA PlanRemoving ==
    ASSUME PlanInv, (\E x \in Indexers : RemoveFrom(x)) \/ DropRows
    PROVE  (Accounted /\ Landed)'
<1>p. pass \in Pass  BY DEF PlanInv, TypeOK
<1>1. ASSUME NEW x \in Indexers, RemoveFrom(x) PROVE (Accounted /\ Landed)'
    <2>1. /\ pass.pc = "remove" /\ pass'.pc \in {"remove", "rows"}
          /\ pass'.kind = pass.kind /\ pass'.plan = pass.plan /\ pass'.gone = pass.gone
          /\ pass'.todo = pass.todo /\ pass'.batch = pass.batch /\ pass'.unapplied = pass.unapplied
        BY <1>1, <1>p DEF RemoveFrom, Pass
    <2>2. Accounted'  BY <2>1, SamePlan DEF PlanInv
    <2>3. Landed'  BY <2>1 DEF Landed
    <2>4. QED  BY <2>2, <2>3
<1>2. ASSUME DropRows PROVE (Accounted /\ Landed)'
    <2>1. /\ pass.pc = "rows"
          /\ pass'.kind = pass.kind /\ pass'.plan = pass.plan /\ pass'.gone = pass.gone
          /\ pass'.todo = pass.todo /\ pass'.batch = pass.batch /\ pass'.unapplied = pass.unapplied
          /\ pass.kind = "plan" => pass'.pc = IF Batched # {} THEN "index" ELSE "finish"
        BY <1>2, <1>p DEF DropRows, Pass
    <2>2. CASE pass.kind # "plan"  BY <2>1, <2>2 DEF Accounted, Landed
    <2>3. CASE pass.kind = "plan"
        <3>1. Accounted'  BY <2>1, <2>3, SamePlan DEF PlanInv
        <3>2. Batched' = Batched  BY <2>1 DEF Batched
        <3>3. \A p \in pass.gone : rows'[p] = 0 /\ data'[p] = Without(Nothing, {"units", "edges"})
            BY <1>2, <1>p, <2>1 DEF PlanInv, DropRows, Swept, Pass
        <3>4. Without(Nothing, {"units", "edges"}) = Nothing  BY DEF Without, Nothing
        <3>5. Landed'  BY <2>1, <2>3, <3>2, <3>3, <3>4 DEF Landed
        <3>6. QED  BY <3>1, <3>5
    <2>4. QED  BY <2>2, <2>3
<1>3. QED  BY <1>1, <1>2

(* An indexer writes only to the files of the batch. *)
LEMMA OnlyBatched ==
    ASSUME TypeOK,
           (\E x \in Indexers : Index(x) \/ IndexFails(x)) \/ Unattributed \/ IndexEnds
    PROVE  \A p \in Paths \ Batched : data'[p] = data[p]
<1>1. CASE \E x \in Indexers : Index(x)  BY <1>1 DEF Index
<1>2. CASE \E x \in Indexers : IndexFails(x)
    <2>1. PICK res : data' = [p \in Paths |-> IF p \in Batched THEN res[p].data ELSE data[p]]
        BY <1>2 DEF IndexFails
    <2>2. QED  BY <2>1
<1>3. CASE Unattributed \/ IndexEnds
    <2>1. PICK d : data' = [p \in Paths |-> IF p \in Batched THEN d[p] ELSE data[p]]
        BY <1>3 DEF Unattributed, IndexEnds
    <2>2. QED  BY <2>1
<1>4. QED  BY <1>1, <1>2, <1>3

(* An indexer's step changes nothing of the pass but who has run and what failed. *)
LEMMA RanFields ==
    ASSUME TypeOK, (\E x \in Indexers : Index(x) \/ IndexFails(x)) \/ Unattributed
    PROVE  /\ pass.pc = "index" /\ pass'.pc \in {"index", "store"}
           /\ pass'.kind = pass.kind /\ pass'.plan = pass.plan /\ pass'.gone = pass.gone
           /\ pass'.todo = pass.todo /\ pass'.batch = pass.batch
           /\ pass'.known = pass.known /\ pass'.unapplied = pass.unapplied
           /\ rows' = rows /\ disk' = disk /\ ignored' = ignored /\ version' = version
<1>1. PICK x, failed : Ran(x, failed)
    BY DEF Index, IndexFails, Unattributed
<1>2. /\ pass.pc = "index" /\ rows' = rows /\ UNCHANGED tree
    BY DEF Index, IndexFails, Unattributed
<1>3. QED  BY <1>1, <1>2 DEF TypeOK, Pass, Ran, tree

LEMMA PlanIndexing ==
    ASSUME PlanInv, (\E x \in Indexers : Index(x) \/ IndexFails(x)) \/ Unattributed
    PROVE  (Accounted /\ Landed)'
<1>1. TypeOK  BY DEF PlanInv
<1>2. Accounted'  BY <1>1, RanFields, SamePlan DEF PlanInv
<1>3. pass.kind = "plan" => \A p \in pass.gone : p \in Paths \ Batched
    BY DEF PlanInv, Accounted, Upserts
<1>4. Landed'  BY <1>1, <1>3, RanFields, OnlyBatched DEF PlanInv, Landed
<1>5. QED  BY <1>2, <1>4

LEMMA PlanStoring ==
    ASSUME PlanInv, StoreRows
    PROVE  (Accounted /\ Landed)'
<1>p. pass \in Pass  BY DEF PlanInv, TypeOK
<1>1. /\ pass.pc = "store" /\ pass'.kind = pass.kind /\ pass'.plan = pass.plan
      /\ pass'.gone = pass.gone /\ pass'.todo = pass.todo
      /\ pass'.unapplied = pass.unapplied \cup pass.failed
      /\ pass.kind = "plan" => pass'.batch = pass.batch /\ pass'.pc = "finish"
    BY <1>p DEF StoreRows, AfterStore, Pass
<1>2. CASE pass.kind # "plan"  BY <1>1, <1>2 DEF Accounted, Landed
<1>3. CASE pass.kind = "plan"
    <2>1. Accounted'  BY <1>1, <1>3, SamePlan DEF PlanInv
    <2>2. Batched' = Batched  BY <1>1, <1>3 DEF Batched
    <2>3. \A p \in pass.gone : p \in Paths \ Batched
        BY <1>3 DEF PlanInv, Accounted, Upserts
    <2>4. /\ \A p \in Paths \ Batched : rows'[p] = rows[p]
          /\ \A p \in Batched \ pass.failed : rows'[p] = pass.batch[p]
          /\ data' = data
        BY DEF StoreRows, Stored, Batched
    <2>5. \A p \in Batched \ pass.failed : Holds(p, pass.batch[p])
        BY <1>1 DEF PlanInv, Indexed
    <2>6. \A p \in Batched \ pass.failed : \A s \in Guarded : data'[p][s] = pass.batch[p]
        BY <2>4, <2>5 DEF Holds
    <2>7. \A p \in pass.gone : rows'[p] = 0 /\ data'[p] = Nothing
        BY <1>1, <1>3, <2>3, <2>4 DEF PlanInv, Landed
    <2>8. Landed'  BY <1>1, <1>3, <2>2, <2>4, <2>6, <2>7 DEF Landed, Holds
    <2>9. QED  BY <2>1, <2>8
<1>4. QED  BY <1>2, <1>3

LEMMA PlanNext == PlanInv /\ [Next]_vars => PlanInv'
<1> SUFFICES ASSUME PlanInv, [Next]_vars PROVE (Accounted /\ Landed)'
    BY TypeNext, SweptNext, IndexedNext DEF PlanInv, SweepInv
<1>p. pass \in Pass  BY DEF PlanInv, TypeOK
<1>1. CASE \/ \E p \in Paths : \/ \E c \in {Absent, Broken} \cup 1 .. version + 1 : Edit(p, c)
                               \/ Ignore(p)
           \/ UNCHANGED vars
    <2>1. pass' = pass /\ rows' = rows /\ data' = data  BY <1>1 DEF Edit, Ignore, vars
    <2>2. Batched' = Batched /\ \A p, c : Holds(p, c)' <=> Holds(p, c)
        BY <2>1 DEF Batched, Holds
    <2>3. QED  BY <2>1, <2>2 DEF PlanInv, Accounted, Landed, Holds
<1>2. CASE (\E force \in BOOLEAN : Walk(force)) \/ (\E x \in Indexers : RemoveFails(x))
           \/ IndexEnds \/ Finish \/ Abort
    <2>1. pass' = NoPass \/ \E force \in BOOLEAN : Walk(force)
        BY <1>2 DEF RemoveFails, IndexEnds, Finish, Abort
    <2>2. pass'.kind # "plan"
        <3>1. NoPass.kind = "none"  BY DEF NoPass
        <3>2. (\E force \in BOOLEAN : Walk(force)) => pass'.kind = "full"  BY DEF Walk, NoPass
        <3>3. QED  BY <2>1, <3>1, <3>2
    <2>3. QED  BY <2>2 DEF Accounted, Landed
<1>3. CASE WindowScanned \/ \E p \in Paths : Scan(p)
    <2>1. pass.pc = "scan" /\ pass'.kind = pass.kind
        BY <1>3, <1>p DEF WindowScanned, Scan, Pass
    <2>2. pass.kind # "plan"  BY <2>1 DEF PlanInv, Accounted
    <2>3. QED  BY <2>1, <2>2 DEF Accounted, Landed
<1>4. QED  BY <1>1, <1>2, <1>3, PlanStart, PlanReading, PlanIsRead, PlanRemoving, PlanIndexing,
              PlanStoring DEF Next

(* applyPlan without an unapplied path means that the plan is in the index:     *)
(* deletions left nothing, upserts are in their rows and in every guarded store, *)
(* for any plan, any failures and any changes to the tree meanwhile.             *)
THEOREM PlanAppliedAlways == Spec => []PlanApplied
<1>1. Init => PlanInv
    <2>1. Init => Swept /\ Indexed /\ Accounted /\ Landed
        BY DEF Init, Swept, Indexed, Accounted, Landed, NoPass
    <2>2. QED  BY <2>1, TypeInit DEF PlanInv
<1>2. PlanInv => PlanApplied
    <2> SUFFICES ASSUME PlanInv, pass.pc = "finish", pass.kind = "plan", pass.unapplied = {},
                        NEW p \in Paths
                 PROVE  /\ pass.plan[p] = Delete => rows[p] = 0 /\ data[p] = Nothing
                        /\ p \in Upserts(pass.plan) => rows[p] = pass.batch[p] /\ rows[p] # 0
                                                       /\ Holds(p, rows[p])
        BY DEF PlanApplied
    <2>1. pass.plan[p] = Delete => p \in pass.gone  BY DEF PlanInv, Accounted
    <2>2. p \in Upserts(pass.plan) => p \in Batched \ pass.unapplied
        BY DEF PlanInv, Accounted
    <2>3. QED  BY <2>1, <2>2 DEF PlanInv, Landed, Batched
<1>3. QED  BY <1>1, <1>2, PlanNext, PTL DEF Spec

-----------------------------------------------------------------------------
(* Skipping by hash *)

SkipInv == TypeOK /\ Indexed /\ Fresh /\ Snapshot /\ OnlyStale /\ SkipIsSafe

(* The parts of the invariant that a step of the pass may disturb. *)
SkipParts == Fresh /\ Snapshot /\ OnlyStale /\ SkipIsSafe

(* A step that keeps the rows and the tree and changes data of stale files only. *)
LEMMA StaleData ==
    ASSUME SkipInv, rows' = rows, UNCHANGED tree,
           \A p \in Paths : data'[p] = data[p] \/ Stale(p)
    PROVE  SkipIsSafe'
<1> SUFFICES ASSUME NEW p \in Paths \ ignored, disk[p] > 0, rows[p] = disk[p]
             PROVE  \A s \in Guarded : data'[p][s] = disk[p]
    BY DEF SkipIsSafe, Holds, tree
<1>1. ~Stale(p)  BY DEF Stale, SkipInv, TypeOK, Broken
<1>2. Holds(p, disk[p])  BY DEF SkipInv, SkipIsSafe
<1>3. QED  BY <1>1, <1>2 DEF Holds

LEMMA StaleSame ==
    ASSUME rows' = rows, UNCHANGED tree
    PROVE  \A p : Stale(p)' <=> Stale(p)
BY DEF Stale, tree

LEMMA SkipTree ==
    ASSUME SkipInv, Repeats = {}, NEW p \in Paths
    PROVE  /\ \A c \in {Absent, Broken} \cup 1 .. version + 1 : Edit(p, c) => SkipParts'
           /\ Ignore(p) => SkipParts'
<1>t. /\ disk \in [Paths -> Nat \cup {Broken}] /\ version \in Nat /\ rows \in [Paths -> Nat]
      /\ pass.batch \in [Paths -> Nat] /\ ignored \subseteq Paths
      /\ pass.gone \subseteq Paths /\ pass.todo \subseteq Paths
    BY DEF SkipInv, TypeOK, Pass
<1>f. Fresh /\ Snapshot /\ OnlyStale /\ SkipIsSafe  BY DEF SkipInv
<1>1. ASSUME NEW c \in {Absent, Broken} \cup 1 .. version + 1, Edit(p, c) PROVE SkipParts'
    <2>1. /\ disk' = [disk EXCEPT ![p] = c] /\ ignored' = ignored /\ rows' = rows
          /\ data' = data /\ pass' = pass /\ (c <= 0 \/ c = version + 1)
          /\ version' = IF c > version THEN c ELSE version
        BY <1>1 DEF Edit, Absent, Broken
    <2>2. c \in Int /\ version' \in Nat /\ version <= version' /\ c <= version'
        BY <1>t, <2>1 DEF Absent, Broken
    <2>3. Fresh'
        <3>1. \A q \in Paths : disk'[q] <= version'
            BY <1>t, <1>f, <2>1, <2>2 DEF Fresh, Broken
        <3>2. \A q \in Paths : rows[q] <= version' /\ pass.batch[q] <= version'
            BY <1>t, <1>f, <2>2 DEF Fresh
        <3>3. QED  BY <2>1, <3>1, <3>2 DEF Fresh
    <2>4. Stale(p)'
        <3>1. disk'[p] = c  BY <1>t, <2>1
        <3>2. rows[p] <= version /\ rows[p] \in Nat  BY <1>t, <1>f DEF Fresh
        <3>3. QED  BY <1>t, <2>1, <2>2, <3>1, <3>2 DEF Stale
    <2>5. \A q \in Paths : Stale(q) => Stale(q)'
        BY <1>t, <2>1, <2>4 DEF Stale
    <2>6. Snapshot'  BY <1>f, <2>1 DEF Snapshot
    <2>7. OnlyStale'
        <3>1. Batched' = Batched  BY <2>1 DEF Batched
        <3>2. Batched \subseteq Paths  BY DEF Batched
        <3>3. QED  BY <1>t, <1>f, <2>1, <2>5, <3>1, <3>2 DEF OnlyStale
    <2>8. SkipIsSafe'
        <3> SUFFICES ASSUME NEW q \in Paths \ ignored, disk'[q] > 0, rows[q] = disk'[q]
                     PROVE  \A s \in Guarded : data[q][s] = disk'[q]
            BY <2>1 DEF SkipIsSafe, Holds
        <3>1. q # p
            <4>1. disk'[p] = c  BY <1>t, <2>1
            <4>2. QED  BY <2>1, <2>2, <2>4, <4>1 DEF Stale
        <3>2. disk'[q] = disk[q]  BY <1>t, <2>1, <3>1
        <3>3. QED  BY <1>f, <3>2 DEF SkipIsSafe, Holds
    <2>9. QED  BY <2>3, <2>6, <2>7, <2>8 DEF SkipParts
<1>2. ASSUME Ignore(p) PROVE SkipParts'
    <2>1. /\ ignored' = ignored \cup {p} /\ disk' = disk /\ version' = version /\ rows' = rows
          /\ data' = data /\ pass' = pass
        BY <1>2 DEF Ignore
    <2>2. Fresh' /\ Snapshot'  BY <1>f, <2>1 DEF Fresh, Snapshot
    <2>3. \A q : Stale(q) => Stale(q)'  BY <2>1 DEF Stale
    <2>4. Batched' = Batched  BY <2>1 DEF Batched
    <2>5. OnlyStale'  BY <1>f, <2>1, <2>3, <2>4 DEF OnlyStale
    <2>6. SkipIsSafe'  BY <1>f, <2>1 DEF SkipIsSafe, Holds
    <2>7. QED  BY <2>2, <2>5, <2>6 DEF SkipParts
<1>3. QED  BY <1>1, <1>2

(* The end of a pass, wherever it comes. *)
LEMMA SkipEnds ==
    ASSUME SkipInv, (\E x \in Indexers : RemoveFails(x)) \/ IndexEnds \/ Finish \/ Abort
    PROVE  SkipParts'
<1>1. pass' = NoPass /\ rows' = rows /\ UNCHANGED tree
    BY DEF RemoveFails, IndexEnds, Finish, Abort
<1>2. /\ pass'.pc = "idle" /\ pass'.kind = "none" /\ pass'.batch = Clear
    BY <1>1 DEF NoPass
<1>3. Fresh'
    BY <1>1, <1>2 DEF SkipInv, TypeOK, Fresh, tree, Clear
<1>4. Snapshot' /\ OnlyStale'  BY <1>2 DEF Snapshot, OnlyStale
<1>5. \A p \in Paths : data'[p] = data[p] \/ Stale(p)
    <2>1. CASE \E x \in Indexers : RemoveFails(x)
        <3>1. \A p \in Paths \ pass.gone : data'[p] = data[p]  BY <2>1 DEF RemoveFails
        <3>2. \A p \in pass.gone : Stale(p)
            BY <2>1 DEF SkipInv, OnlyStale, RemoveFails
        <3>3. QED  BY <3>1, <3>2
    <2>2. CASE IndexEnds
        BY <2>2, OnlyBatched DEF SkipInv, OnlyStale, IndexEnds
    <2>3. CASE Finish \/ Abort  BY <2>3 DEF Finish, Abort
    <2>4. QED  BY <2>1, <2>2, <2>3
<1>6. SkipIsSafe'  BY <1>1, <1>5, StaleData
<1>7. QED  BY <1>3, <1>4, <1>6 DEF SkipParts

LEMMA UnlistedIsStale == ASSUME NEW p \in Paths, p \notin Listed PROVE Stale(p)
BY DEF Listed, Stale, Absent

LEMMA SkipWalk ==
    ASSUME SkipInv, Repeats = {}, NEW force \in BOOLEAN, Walk(force)
    PROVE  SkipParts'
<1>1. /\ pass'.kind = "full" /\ pass'.todo = Listed /\ pass'.known = rows /\ pass'.batch = Clear
      /\ pass'.gone = {p \in Paths : rows[p] # 0} \ Listed
      /\ pass'.pc \in {"scan", "remove"} /\ rows' = rows /\ data' = data /\ UNCHANGED tree
    BY DEF Walk, NoPass
<1>2. Batched' = {}  BY <1>1 DEF Batched, Clear
<1>3. Fresh'  BY <1>1 DEF SkipInv, TypeOK, Fresh, tree, Clear
<1>4. Snapshot'  BY <1>1 DEF Snapshot, Clear, Listed
<1>5. OnlyStale'  BY <1>1, <1>2, UnlistedIsStale, StaleSame DEF OnlyStale
<1>6. SkipIsSafe'  BY <1>1, StaleData
<1>7. QED  BY <1>3, <1>4, <1>5, <1>6 DEF SkipParts

(* Without pushed contents a plan names files to delete or to read from disk. *)
LEMMA PlanEntries ==
    ASSUME Repeats = {}, NEW changes \in Batches, NEW p \in Paths
    PROVE  Final(mergeCommitPlan(changes))[p] \in {Untouched, Delete, FromDisk}
<1>1. \A i \in DOMAIN changes : changes[i].content \in {Delete, FromDisk}
    <2>1. \A f \in Change : f.content \in {Delete, FromDisk}  BY DEF Change, Contents
    <2>2. QED  BY <2>1 DEF Batches
<1>2. mergeCommitPlan(changes)[p] \in {Untouched, Delete, FromDisk}
    <2>1. CASE \E i \in DOMAIN changes : IsLast(changes, p, i)
        <3>1. (CHOOSE i \in DOMAIN changes : IsLast(changes, p, i)) \in DOMAIN changes
            BY <2>1
        <3>2. QED  BY <1>1, <2>1, <3>1 DEF mergeCommitPlan
    <2>2. CASE ~\E i \in DOMAIN changes : IsLast(changes, p, i)  BY <2>2 DEF mergeCommitPlan
    <2>3. QED  BY <2>1, <2>2
<1>3. QED  BY <1>2 DEF Final

LEMMA SkipPlan ==
    ASSUME SkipInv, Repeats = {}, NEW changes \in Batches, Plan(changes)
    PROVE  SkipParts'
<1> DEFINE plan == Final(mergeCommitPlan(changes))
<1>1. \A p \in Paths : plan[p] \in {Untouched, Delete, FromDisk}  BY PlanEntries
<1>2. /\ pass' = [NoPass EXCEPT !.kind = "plan", !.pc = "read", !.plan = plan,
                      !.todo = Upserts(plan), !.gone = {p \in Paths : plan[p] = Delete}]
      /\ \A p \in Paths : plan[p] = FromDisk => disk[p] # rows[p]
      /\ \A p \in Paths : plan[p] = Delete => p \notin Listed
      /\ rows' = rows /\ data' = data /\ UNCHANGED tree
    BY DEF Plan
<1> HIDE DEF plan
<1>3. /\ pass'.kind = "plan" /\ pass'.pc = "read" /\ pass'.plan = plan /\ pass'.batch = Clear
      /\ pass'.todo = Upserts(plan) /\ pass'.gone = {p \in Paths : plan[p] = Delete}
    BY <1>2 DEF NoPass
<1>4. Batched' = {}  BY <1>3 DEF Batched, Clear
<1>5. Fresh'  BY <1>2, <1>3 DEF SkipInv, TypeOK, Fresh, tree, Clear
<1>6. Snapshot'  BY <1>3 DEF Snapshot
<1>7. OnlyStale'
    <2>1. \A p \in pass'.gone : Stale(p)  BY <1>2, <1>3, UnlistedIsStale
    <2>2. \A p \in pass'.todo : Stale(p) /\ plan[p] = FromDisk
        BY <1>1, <1>2, <1>3 DEF Upserts, Stale
    <2>3. QED  BY <1>2, <1>3, <1>4, <2>1, <2>2, StaleSame DEF OnlyStale
<1>8. SkipIsSafe'  BY <1>2, StaleData
<1>9. QED  BY <1>5, <1>6, <1>7, <1>8 DEF SkipParts

LEMMA SkipRead ==
    ASSUME SkipInv, NEW p \in Paths, ReadPlan(p)
    PROVE  SkipParts'
<1>p. pass \in Pass  BY DEF SkipInv, TypeOK
<1>f. Fresh /\ OnlyStale /\ pass.pc = "read" /\ p \in pass.todo  BY DEF SkipInv, ReadPlan
<1>1. pass.plan[p] = FromDisk /\ Stale(p) /\ pass.kind = "plan"
    BY <1>f DEF OnlyStale
<1> DEFINE b == [pass.batch EXCEPT ![p] = IF disk[p] <= 0 THEN 0 ELSE disk[p]]
           u == IF disk[p] <= 0 THEN pass.unapplied \cup {p} ELSE pass.unapplied
<1>2. pass' = [pass EXCEPT !.todo = @ \ {p}, !.batch = b, !.unapplied = u]
    BY <1>1 DEF ReadPlan
<1>3. /\ disk[p] \in Int /\ disk[p] <= version /\ version \in Nat
      /\ pass.batch \in [Paths -> Nat]
    BY <1>f, <1>p DEF SkipInv, TypeOK, Fresh, Broken, Pass
<1>4. /\ \A q \in Paths \ {p} : b[q] = pass.batch[q]
      /\ b[p] <= version
    BY <1>3
<1> HIDE DEF b, u
<1>5. /\ pass'.pc = "read" /\ pass'.kind = "plan" /\ pass'.plan = pass.plan
      /\ pass'.gone = pass.gone /\ pass'.todo = pass.todo \ {p} /\ pass'.batch = b
    BY <1>f, <1>p, <1>1, <1>2 DEF Pass
<1>6. rows' = rows /\ data' = data /\ UNCHANGED tree  BY DEF ReadPlan
<1>7. Fresh'  BY <1>f, <1>4, <1>5, <1>6 DEF Fresh, tree
<1>8. Snapshot'  BY <1>5 DEF Snapshot
<1>9. OnlyStale'
    <2>1. \A q \in Batched' : q \in Batched \/ q = p  BY <1>4, <1>5 DEF Batched
    <2>2. \A q \in Batched : Stale(q)  BY <1>f DEF OnlyStale
    <2>3. QED  BY <1>f, <1>1, <1>5, <1>6, <2>1, <2>2, StaleSame DEF OnlyStale
<1>10. SkipIsSafe'  BY <1>6, StaleData
<1>11. QED  BY <1>7, <1>8, <1>9, <1>10 DEF SkipParts

(* A step that keeps the tree, the rows and the batch and moves on. *)
LEMMA SkipMoves ==
    ASSUME SkipInv, rows' = rows, UNCHANGED tree,
           \A p \in Paths : data'[p] = data[p] \/ Stale(p),
           pass'.batch = pass.batch, pass'.gone = pass.gone, pass'.todo = pass.todo,
           pass'.kind = pass.kind, pass'.known = pass.known,
           pass.pc \in {"read", "remove", "rows", "scan", "index", "store"},
           pass'.pc \in {"remove", "rows", "scan", "index", "store", "finish"},
           pass'.pc \in {"remove", "rows"} => pass.pc \in {"read", "remove"},
           pass'.pc = "scan" => pass.pc = "scan"
    PROVE  SkipParts'
<1>1. Batched' = Batched  BY DEF Batched
<1>2. Fresh'  BY DEF SkipInv, Fresh, tree
<1>3. Snapshot'  BY DEF SkipInv, Snapshot
<1>4. OnlyStale'  BY <1>1, StaleSame DEF SkipInv, OnlyStale
<1>5. SkipIsSafe'  BY StaleData
<1>6. QED  BY <1>2, <1>3, <1>4, <1>5 DEF SkipParts

LEMMA SkipSteps ==
    ASSUME SkipInv,
           \/ PlanRead \/ WindowScanned \/ Unattributed
           \/ \E x \in Indexers : RemoveFrom(x) \/ Index(x) \/ IndexFails(x)
    PROVE  SkipParts'
<1>p. pass \in Pass  BY DEF SkipInv, TypeOK
<1>1. CASE PlanRead
    <2>1. /\ pass'.batch = pass.batch /\ pass'.gone = pass.gone /\ pass'.todo = pass.todo
          /\ pass'.kind = pass.kind /\ pass'.known = pass.known /\ pass.pc = "read"
          /\ pass'.pc \in {"remove", "index", "finish"}
        BY <1>1, <1>p DEF PlanRead, Pass
    <2>2. rows' = rows /\ data' = data /\ UNCHANGED tree  BY <1>1 DEF PlanRead
    <2>3. QED  BY <2>1, <2>2, SkipMoves
<1>2. CASE WindowScanned
    <2>1. /\ pass'.batch = pass.batch /\ pass'.gone = pass.gone /\ pass'.todo = pass.todo
          /\ pass'.kind = pass.kind /\ pass'.known = pass.known /\ pass.pc = "scan"
          /\ pass'.pc \in {"scan", "index", "finish"}
        BY <1>2, <1>p DEF WindowScanned, Pass
    <2>2. rows' = rows /\ data' = data /\ UNCHANGED tree  BY <1>2 DEF WindowScanned
    <2>3. QED  BY <2>1, <2>2, SkipMoves
<1>3. ASSUME NEW x \in Indexers, RemoveFrom(x) PROVE SkipParts'
    <2>1. /\ pass'.batch = pass.batch /\ pass'.gone = pass.gone /\ pass'.todo = pass.todo
          /\ pass'.kind = pass.kind /\ pass'.known = pass.known /\ pass.pc = "remove"
          /\ pass'.pc \in {"remove", "rows"}
        BY <1>3, <1>p DEF RemoveFrom, Pass
    <2>2. rows' = rows /\ UNCHANGED tree  BY <1>3 DEF RemoveFrom
    <2>3. \A p \in Paths : data'[p] = data[p] \/ Stale(p)
        <3>1. \A p \in Paths \ pass.gone : data'[p] = data[p]  BY <1>3 DEF RemoveFrom
        <3>2. QED  BY <2>1, <3>1 DEF SkipInv, OnlyStale
    <2>4. QED  BY <2>1, <2>2, <2>3, SkipMoves
<1>4. CASE (\E x \in Indexers : Index(x) \/ IndexFails(x)) \/ Unattributed
    <2>1. TypeOK  BY DEF SkipInv
    <2>2. \A p \in Paths : data'[p] = data[p] \/ Stale(p)
        BY <1>4, <2>1, OnlyBatched, RanFields DEF SkipInv, OnlyStale
    <2>3. UNCHANGED tree  BY <1>4, <2>1, RanFields DEF tree
    <2>4. QED  BY <1>4, <2>1, <2>2, <2>3, RanFields, SkipMoves
<1>5. QED  BY <1>1, <1>2, <1>3, <1>4

LEMMA SkipDrop ==
    ASSUME SkipInv, DropRows
    PROVE  SkipParts'
<1>p. pass \in Pass  BY DEF SkipInv, TypeOK
<1>t. /\ rows \in [Paths -> Nat] /\ version \in Nat /\ pass.todo \subseteq Paths
      /\ disk \in [Paths -> Nat \cup {Broken}]
    BY <1>p DEF SkipInv, TypeOK, Pass
<1>1. /\ pass'.batch = pass.batch /\ pass'.gone = pass.gone /\ pass'.todo = pass.todo
      /\ pass'.kind = pass.kind /\ pass'.known = pass.known /\ pass.pc = "rows"
      /\ pass'.pc \in {"scan", "index", "finish"} /\ (pass'.pc = "scan" => pass.kind = "full")
    BY <1>p DEF DropRows, Pass
<1>2. /\ \A p \in Paths : IF p \in pass.gone THEN rows'[p] = 0
                          ELSE rows'[p] = rows[p] /\ data'[p] = data[p]
      /\ disk' = disk /\ ignored' = ignored /\ version' = version
    BY DEF DropRows, tree
<1>3. Fresh'  BY <1>t, <1>1, <1>2 DEF SkipInv, Fresh
<1>4. Snapshot'  BY <1>t, <1>1, <1>2 DEF SkipInv, Snapshot
<1>5. OnlyStale'
    <2>1. Batched' = Batched /\ Batched \subseteq Paths  BY <1>1 DEF Batched
    <2>2. \A p \in Paths : Stale(p) => Stale(p)'  BY <1>t, <1>2 DEF Stale, Broken
    <2>3. QED  BY <1>1, <2>1, <2>2 DEF SkipInv, OnlyStale
<1>6. SkipIsSafe'
    <2> SUFFICES ASSUME NEW p \in Paths \ ignored, disk[p] > 0, rows'[p] = disk[p]
                 PROVE  \A s \in Guarded : data'[p][s] = disk[p]
        BY <1>2 DEF SkipIsSafe, Holds
    <2>1. p \notin pass.gone  BY <1>t, <1>2
    <2>2. QED  BY <1>2, <2>1 DEF SkipInv, SkipIsSafe, Holds
<1>7. QED  BY <1>3, <1>4, <1>5, <1>6 DEF SkipParts

LEMMA SkipScan ==
    ASSUME SkipInv, NEW p \in Paths, Scan(p)
    PROVE  SkipParts'
<1>p. pass \in Pass  BY DEF SkipInv, TypeOK
<1>f. /\ Fresh /\ Snapshot /\ OnlyStale /\ pass.pc = "scan" /\ p \in pass.todo
    BY DEF SkipInv, Scan
<1>1. pass.known[p] = rows[p] /\ pass.kind = "full"  BY <1>f DEF Snapshot
<1> DEFINE b == [pass.batch EXCEPT ![p] = IF disk[p] <= 0 \/ pass.known[p] = disk[p]
                                          THEN 0 ELSE disk[p]]
<1>2. pass' = [pass EXCEPT !.todo = @ \ {p}, !.seen = @ \cup {p}, !.batch = b]
    BY DEF Scan
<1>3. /\ disk[p] \in Int /\ disk[p] <= version /\ version \in Nat
      /\ pass.batch \in [Paths -> Nat] /\ pass.todo \subseteq Paths
    BY <1>f, <1>p DEF SkipInv, TypeOK, Fresh, Broken, Pass
<1>4. /\ \A q \in Paths \ {p} : b[q] = pass.batch[q]
      /\ b[p] <= version /\ (b[p] # 0 => Stale(p))
    BY <1>1, <1>3 DEF Stale
<1> HIDE DEF b
<1>5. /\ pass'.pc = "scan" /\ pass'.kind = pass.kind /\ pass'.known = pass.known
      /\ pass'.gone = pass.gone /\ pass'.todo = pass.todo \ {p} /\ pass'.batch = b
    BY <1>f, <1>p, <1>2 DEF Pass
<1>6. rows' = rows /\ data' = data /\ UNCHANGED tree  BY DEF Scan
<1>7. Fresh'  BY <1>f, <1>4, <1>5, <1>6 DEF Fresh, tree
<1>8. Snapshot'  BY <1>f, <1>1, <1>3, <1>4, <1>5, <1>6 DEF Snapshot
<1>9. OnlyStale'
    <2>1. \A q \in Batched' : q \in Batched \/ (q = p /\ Stale(p))  BY <1>4, <1>5 DEF Batched
    <2>2. \A q \in Batched : Stale(q)  BY <1>f DEF OnlyStale
    <2>3. QED  BY <1>5, <1>6, <2>1, <2>2, StaleSame DEF OnlyStale
<1>10. SkipIsSafe'  BY <1>6, StaleData
<1>11. QED  BY <1>7, <1>8, <1>9, <1>10 DEF SkipParts

LEMMA SkipStore ==
    ASSUME SkipInv, StoreRows
    PROVE  SkipParts'
<1>p. pass \in Pass  BY DEF SkipInv, TypeOK
<1>t. /\ rows \in [Paths -> Nat] /\ version \in Nat /\ pass.todo \subseteq Paths
      /\ pass.batch \in [Paths -> Nat]
    BY <1>p DEF SkipInv, TypeOK, Pass
<1>1. /\ pass.pc = "store" /\ pass'.kind = pass.kind /\ pass'.known = pass.known
      /\ pass'.gone = pass.gone /\ pass'.todo = pass.todo
      /\ pass'.batch = IF pass.kind = "full" THEN Clear ELSE pass.batch
      /\ pass'.pc \in {"scan", "finish"} /\ (pass'.pc = "scan" => pass.kind = "full")
    BY <1>p DEF StoreRows, AfterStore, Pass
<1>2. /\ \A p \in Paths : rows'[p] = IF p \in Batched \ pass.failed THEN pass.batch[p] ELSE rows[p]
      /\ data' = data /\ disk' = disk /\ ignored' = ignored /\ version' = version
    BY DEF StoreRows, Stored, tree
<1>3. Fresh'
    <2>1. \A p \in Paths : rows'[p] <= version  BY <1>2 DEF SkipInv, Fresh
    <2>2. \A p \in Paths : pass'.batch[p] <= version  BY <1>t, <1>1 DEF SkipInv, Fresh, Clear
    <2>3. QED  BY <1>2, <2>1, <2>2 DEF SkipInv, Fresh
<1>4. Snapshot'
    BY <1>t, <1>1, <1>2 DEF SkipInv, Snapshot, Batched, Clear
<1>5. OnlyStale'
    <2>1. pass'.pc = "scan" => Batched' = {}  BY <1>1 DEF Batched, Clear
    <2>2. QED  BY <1>1, <2>1 DEF OnlyStale
<1>6. SkipIsSafe'
    <2> SUFFICES ASSUME NEW p \in Paths \ ignored, disk[p] > 0, rows'[p] = disk[p]
                 PROVE  \A s \in Guarded : data[p][s] = disk[p]
        BY <1>2 DEF SkipIsSafe, Holds
    <2>1. CASE p \in Batched \ pass.failed
        <3>1. pass.batch[p] = disk[p]  BY <1>2, <2>1
        <3>2. Holds(p, pass.batch[p])  BY <1>1, <2>1 DEF SkipInv, Indexed
        <3>3. QED  BY <3>1, <3>2 DEF Holds
    <2>2. CASE p \notin Batched \ pass.failed
        BY <1>2, <2>2 DEF SkipInv, SkipIsSafe, Holds
    <2>3. QED  BY <2>1, <2>2
<1>7. QED  BY <1>3, <1>4, <1>5, <1>6 DEF SkipParts

LEMMA SkipNext == ASSUME Repeats = {} PROVE SkipInv /\ [Next]_vars => SkipInv'
<1> SUFFICES ASSUME SkipInv, [Next]_vars PROVE SkipParts'
    BY TypeNext, IndexedNext DEF SkipInv, SkipParts
<1>1. CASE Next
    BY <1>1, SkipTree, SkipEnds, SkipWalk, SkipPlan, SkipRead, SkipSteps, SkipDrop, SkipScan,
       SkipStore DEF Next
<1>2. CASE UNCHANGED vars
    BY <1>2 DEF vars, tree, SkipInv, SkipParts, Fresh, Snapshot, OnlyStale, Stale, Batched,
                SkipIsSafe, Holds
<1>3. QED  BY <1>1, <1>2

(* A file that a non-forced pass would skip by its hash is held by every        *)
(* guarded store in exactly that content, for any number of files, failures,    *)
(* crashes and edits, as long as no file is indexed again without a change and   *)
(* no content comes back.                                                        *)
THEOREM SkipIsAlwaysSafe == ASSUME Repeats = {} PROVE Spec => []SkipIsSafe
<1>1. Init => SkipInv
    <2>1. Init => Indexed /\ Snapshot /\ OnlyStale /\ SkipIsSafe
        BY DEF Init, Indexed, Snapshot, OnlyStale, SkipIsSafe, NoPass, Clear, Batched
    <2>2. Init => Fresh  BY DEF Init, Fresh, NoPass, Clear
    <2>3. QED  BY <2>1, <2>2, TypeInit DEF SkipInv
<1>2. SkipInv => SkipIsSafe  BY DEF SkipInv
<1>3. QED  BY <1>1, <1>2, SkipNext, PTL DEF Spec

=============================================================================
