----------------------------- MODULE KeywordIndex -----------------------------
(***************************************************************************)
(* The keyword index (internal/index/bm25) and the cache through which the *)
(* AST indexer hands it the symbols of the files both are indexing         *)
(* (internal/index/symbols.go).  The two run over the same window at once  *)
(* and nothing waits: symbols published too late stay behind in the cache. *)
(*                                                                         *)
(* A text is [lines, symbols, annotated, parses]: what chunking and the    *)
(* labels read of a file's content.  A content hash is the text's place in *)
(* Texts.  Bleve is external: a batch is applied as a whole and is durable *)
(* when it returns, and the segments are counted, not represented.         *)
(***************************************************************************)
EXTENDS Integers, Sequences, FiniteSets, SequencesExt, FiniteSetsExt

CONSTANTS
    KeyRepos,       \* repositories whose windows may be in flight together
    KeyPaths,       \* paths, numbers in the order of a window
    Texts,          \* the contents a file may have
    WindowLines, Overlap,   \* ChunkConfig
    OptionalFields, \* the fields split_identifiers and index_paths add
    CacheCap,       \* the capacity of the symbol cache
    DeletePage,     \* documents one round of deleteByRepoID removes
    MaxWindows,     \* bound: windows indexed
    MaxUpkeep       \* bound: merges, compactions and restarts

ASSUME KeywordIndexAssumption ==
    /\ KeyPaths \subseteq Nat /\ {WindowLines, Overlap} \subseteq Nat /\ WindowLines > Overlap
    /\ DOMAIN Texts \subseteq Nat \ {0} /\ \A t \in DOMAIN Texts : Texts[t].lines \in Nat \ {0}
    /\ {CacheCap, DeletePage, MaxWindows, MaxUpkeep} \subseteq Nat \ {0}

VARIABLES
    docs,       \* the documents of the index
    cache,      \* SymbolCache: [byKey, order]
    windows,    \* per repository, the window being indexed
    deleting,   \* repositories a deleteByRepoID is looping over
    layout,     \* [root, disk]: segments of the root snapshot and of the last recorded one
    compaction, \* the compaction holding compactMu, and what the last one reported
    shape,      \* the optional fields the mapping on disk carries
    expected,   \* history: the text the index should hold of a file, 0 none, Unsure
    spent       \* [windows, upkeep]

keyVars == <<docs, cache, windows, deleting, layout, compaction, shape, expected, spent>>

Unsure == -1
Idle == [pc |-> "idle", texts |-> <<>>, left |-> {}, unlabelled |-> {}, unpublished |-> {},
         stale |-> {}, writes |-> {}, complete |-> TRUE]

-----------------------------------------------------------------------------
(* Chunks and labels *)

(* WindowChunker.Chunk: windows of WindowLines lines, each starting Overlap lines *)
(* before the end of the one it follows, until one reaches the last line.         *)
WindowEnd(n, from) == Min({from + WindowLines - 1, n})

Chunks(t) ==
    LET n == Texts[t].lines
        After[from \in 1 .. n] ==
            LET to == WindowEnd(n, from)
            IN <<[from |-> from, to |-> to]>>
               \o (IF to >= n THEN <<>> ELSE After[to + 1 - Overlap])
    IN After[1]

(* dominantUnit: the symbol with the largest overlap, the smaller one on a tie,    *)
(* then the first by name (names are numbers); 0 when nothing overlaps.            *)
dominantUnit(syms, chunk) ==
    LET Shared(s) == Min({chunk.to, s.to}) - Max({chunk.from, s.from}) + 1
        Size(s) == s.to - s.from + 1
        Beats(a, b) == \/ Shared(a) > Shared(b)
                       \/ Shared(a) = Shared(b) /\ Size(a) < Size(b)
                       \/ Shared(a) = Shared(b) /\ Size(a) = Size(b) /\ a.name < b.name
        covering == {s \in syms : Shared(s) > 0}
    IN IF covering = {} THEN 0
       ELSE (CHOOSE s \in covering : \A o \in covering \ {s} : Beats(s, o)).name

(* symbolUnits and ProjectSymbols: the parse both indexers would make.             *)
symbolUnits(t) == IF Texts[t].annotated /\ Texts[t].parses THEN Texts[t].symbols ELSE {}

(* indexChunks and buildDocument: one document a chunk, its ordinal in its id.     *)
indexChunks(r, f, t, syms, fields) ==
    LET chunks == Chunks(t)
    IN {[repo |-> r, path |-> f, ordinal |-> i, lines |-> chunks[i], text |-> t,
         label |-> dominantUnit(syms, chunks[i]), fields |-> fields] : i \in DOMAIN chunks}

chunkDocID(d) == <<d.repo, d.path, d.ordinal>>

(* Mutant of dropStaleChunks: the tail is counted from the chunk after the last. *)
dropStaleChunksShort(r, texts) ==
    {chunkDocID(d) : d \in {x \in docs : /\ x.repo = r /\ x.path \in DOMAIN texts
                                         /\ x.ordinal > Len(Chunks(texts[x.path])) + 1}}

(* chunkIDs and dropStaleChunks: what the files have in the index now and the      *)
(* batch will not write again.                                                     *)
dropStaleChunks(r, texts) ==
    {chunkDocID(d) : d \in {x \in docs : /\ x.repo = r /\ x.path \in DOMAIN texts
                                         /\ x.ordinal > Len(Chunks(texts[x.path]))}}

-----------------------------------------------------------------------------
(* The symbol cache *)

(* Mutant of symbolKey: a file's symbols whatever its content. *)
symbolKeyNoHash(r, f, t) == <<r, f>>

symbolKey(r, f, t) == <<r, f, t>>

Live(byKey, ks) == [k \in DOMAIN byKey \cap ks |-> byKey[k]]

(* Mutant of Compacted: the keys already taken stay in the order. *)
CompactedNever(c) == c

(* The keys of an order that are still in the cache, in the same order.            *)
StillIn(order, keys) ==
    LET kept[n \in 0 .. Len(order)] ==
            IF n = 0 THEN <<>>
            ELSE IF order[n] \in keys THEN Append(kept[n - 1], order[n]) ELSE kept[n - 1]
    IN kept[Len(order)]

(* The second half of evictLocked: an order that is mostly holes is compacted.     *)
Compacted(c) ==
    IF Len(c.order) > 2 * CacheCap
    THEN [byKey |-> c.byKey, order |-> StillIn(c.order, DOMAIN c.byKey)] ELSE c

(* evictLocked: the oldest entries go until there is room for one more.            *)
DropOldest(c) ==
    IF Cardinality(DOMAIN c.byKey) >= CacheCap /\ c.order # <<>>
    THEN [byKey |-> Live(c.byKey, DOMAIN c.byKey \ {Head(c.order)}), order |-> Tail(c.order)]
    ELSE c

evictLocked(c) ==
    LET drop[n \in 0 .. Len(c.order)] == IF n = 0 THEN c ELSE DropOldest(drop[n - 1])
    IN Compacted(drop[Len(c.order)])

Put(c, r, f, t) ==
    LET k == symbolKey(r, f, t)
        room == IF k \in DOMAIN c.byKey THEN c
                ELSE LET e == evictLocked(c) IN [e EXCEPT !.order = Append(@, k)]
    IN [room EXCEPT !.byKey = [x \in DOMAIN room.byKey \cup {k} |->
                                  IF x = k THEN t ELSE room.byKey[x]]]

Held(r, f, t) == symbolKey(r, f, t) \in DOMAIN cache.byKey

Take(r, f, t) == cache' = [cache EXCEPT !.byKey = Live(@, DOMAIN @ \ {symbolKey(r, f, t)})]

-----------------------------------------------------------------------------
KeyInit ==
    /\ docs = {} /\ cache = [byKey |-> <<>>, order |-> <<>>]
    /\ windows = [r \in KeyRepos |-> Idle] /\ deleting = {}
    /\ layout = [root |-> 0, disk |-> 0]
    /\ compaction = [pc |-> "idle", report |-> "none"]
    /\ shape \in SUBSET OptionalFields
    /\ expected = [r \in KeyRepos |-> [f \in KeyPaths |-> 0]]
    /\ spent = [windows |-> 0, upkeep |-> 0]

Upkeep == spent.upkeep < MaxUpkeep /\ spent' = [spent EXCEPT !.upkeep = @ + 1]

(* A window reaches the indexers: the contents and hashes of its files are read.   *)
StartWindow(r, texts) ==
    /\ windows[r].pc = "idle" /\ spent.windows < MaxWindows
    /\ windows' = [windows EXCEPT ![r] = [Idle EXCEPT !.pc = "cut", !.texts = texts,
                                                      !.unpublished = DOMAIN texts]]
    /\ spent' = [spent EXCEPT !.windows = @ + 1]
    /\ UNCHANGED <<docs, cache, deleting, layout, compaction, shape, expected>>

(* parseFiles of the AST indexer, one file: published when it parses and its       *)
(* language is one the chunks are labelled for.                                    *)
PublishSymbols(r, f) ==
    LET t == windows[r].texts[f]
    IN /\ f \in windows[r].unpublished
       /\ windows' = [windows EXCEPT ![r].unpublished = @ \ {f}]
       /\ cache' = IF Texts[t].annotated /\ Texts[t].parses THEN Put(cache, r, f, t) ELSE cache
       /\ UNCHANGED <<docs, deleting, layout, compaction, shape, expected, spent>>

(* Index: the chunks are cut and the stale ones looked up before anything else; a  *)
(* failed lookup belongs to no file and the batch goes on without the deletes.     *)
CutChunks(r, found) ==
    LET w == windows[r]
    IN /\ w.pc = "cut"
       /\ windows' = [windows EXCEPT ![r] =
              [w EXCEPT !.pc = "sweep", !.left = DOMAIN w.texts, !.complete = found,
                        !.stale = IF found THEN dropStaleChunks(r, w.texts) ELSE {}]]
       /\ UNCHANGED <<docs, cache, deleting, layout, compaction, shape, expected, spent>>

(* First sweep: the files whose symbols are already published; the rest are held.  *)
FirstSweep(r) ==
    LET w == windows[r]
        f == Min(w.left)
        t == w.texts[f]
    IN /\ w.pc = "sweep" /\ w.left # {}
       /\ IF Held(r, f, t)
          THEN /\ Take(r, f, t)
               /\ windows' = [windows EXCEPT ![r] =
                      [w EXCEPT !.left = @ \ {f},
                                !.writes = @ \cup indexChunks(r, f, t,
                                    Texts[cache.byKey[symbolKey(r, f, t)]].symbols, shape)]]
          ELSE /\ windows' = [windows EXCEPT ![r] =
                      [w EXCEPT !.left = @ \ {f}, !.unlabelled = @ \cup {f}]]
               /\ UNCHANGED cache
       /\ UNCHANGED <<docs, deleting, layout, compaction, shape, expected, spent>>

(* Second sweep: what is still not published is parsed here.                       *)
SecondSweep(r) ==
    LET w == windows[r]
        f == Min(w.unlabelled)
        t == w.texts[f]
        syms == IF Held(r, f, t) THEN Texts[cache.byKey[symbolKey(r, f, t)]].symbols
                ELSE symbolUnits(t)
    IN /\ w.pc = "sweep" /\ w.left = {} /\ w.unlabelled # {}
       /\ IF Held(r, f, t) THEN Take(r, f, t) ELSE UNCHANGED cache
       /\ windows' = [windows EXCEPT ![r] =
              [w EXCEPT !.unlabelled = @ \ {f},
                        !.writes = @ \cup indexChunks(r, f, t, syms, shape)]]
       /\ UNCHANGED <<docs, deleting, layout, compaction, shape, expected, spent>>

(* The batch: the deletes and the writes together, a new segment; the batch after   *)
(* a failed lookup may leave chunks a file no longer has.                           *)
ApplyBatch(r) ==
    LET w == windows[r]
        ids == w.stale \cup {chunkDocID(d) : d \in w.writes}
    IN /\ w.pc = "sweep" /\ w.left = {} /\ w.unlabelled = {}
       /\ docs' = {d \in docs : chunkDocID(d) \notin ids} \cup w.writes
       /\ layout' = [root |-> layout.root + 1, disk |-> layout.root + 1]
       /\ compaction' = [compaction EXCEPT !.report = "none"]
       /\ expected' = [expected EXCEPT ![r] = [f \in KeyPaths |->
              IF f \notin DOMAIN w.texts THEN @[f]
              ELSE IF w.complete THEN w.texts[f] ELSE Unsure]]
       /\ windows' = [windows EXCEPT ![r].pc = "applied"]
       /\ UNCHANGED <<cache, deleting, shape, spent>>

(* The batch fails: Index returns the error and the index is as it was.             *)
BatchFails(r) ==
    LET w == windows[r]
    IN /\ w.pc = "sweep" /\ w.left = {} /\ w.unlabelled = {} /\ Upkeep
       /\ windows' = [windows EXCEPT ![r].pc = "applied"]
       /\ UNCHANGED <<docs, cache, deleting, layout, compaction, shape, expected>>

(* The fan-out ends when both indexers are through with the window.                 *)
EndWindow(r) ==
    /\ windows[r].pc = "applied" /\ windows[r].unpublished = {}
    /\ windows' = [windows EXCEPT ![r] = Idle]
    /\ UNCHANGED <<docs, cache, deleting, layout, compaction, shape, expected, spent>>

(* Remove with paths: the chunks the files have, in one batch.                      *)
RemoveChunks(r, f) ==
    LET gone == {d \in docs : d.repo = r /\ d.path = f}
    IN /\ windows[r].pc = "idle" /\ gone # {}
       /\ docs' = docs \ gone
       /\ layout' = [root |-> layout.root + 1, disk |-> layout.root + 1]
       /\ compaction' = [compaction EXCEPT !.report = "none"]
       /\ expected' = [expected EXCEPT ![r][f] = 0]
       /\ UNCHANGED <<cache, windows, deleting, shape, spent>>

(* deleteByRepoID: DeleteRepo calls it without the claim; a page of documents goes  *)
(* at a time, until a search finds none.                                            *)
StartDelete(r) ==
    /\ r \notin deleting /\ Upkeep
    /\ deleting' = deleting \cup {r}
    /\ UNCHANGED <<docs, cache, windows, layout, compaction, shape, expected>>

DeleteNextPage(r) ==
    LET mine == {d \in docs : d.repo = r}
    IN /\ r \in deleting
       /\ IF mine = {}
          THEN /\ deleting' = deleting \ {r}
               /\ expected' = [expected EXCEPT ![r] = [f \in KeyPaths |-> 0]]
               /\ UNCHANGED <<docs, layout, compaction>>
          ELSE \E hits \in kSubset(Min({DeletePage, Cardinality(mine)}), mine) :
               /\ docs' = docs \ hits
               /\ layout' = [root |-> layout.root + 1, disk |-> layout.root + 1]
               /\ compaction' = [compaction EXCEPT !.report = "none"]
               /\ expected' = [expected EXCEPT ![r] = [f \in KeyPaths |->
                                  IF f \in {d.path : d \in hits} THEN Unsure ELSE @[f]]]
               /\ UNCHANGED deleting
       /\ UNCHANGED <<cache, windows, shape, spent>>

-----------------------------------------------------------------------------
(* Segments and compaction *)

steady == layout.disk = layout.root

(* The merger and the persister (bleve): a merge shows in the root at once and is    *)
(* recorded later.                                                                  *)
BackgroundMerge ==
    /\ layout.root > 1 /\ Upkeep
    /\ \E n \in 1 .. layout.root - 1 : layout' = [layout EXCEPT !.root = n]
    /\ UNCHANGED <<docs, cache, windows, deleting, compaction, shape, expected>>

PersistRoot ==
    /\ ~steady
    /\ layout' = [layout EXCEPT !.disk = layout.root]
    /\ UNCHANGED <<docs, cache, windows, deleting, compaction, shape, expected, spent>>

(* Compact: nothing to do for one segment, else a forced merge into one.            *)
Compact ==
    /\ compaction.pc = "idle" /\ Upkeep
    /\ IF layout.root <= 1
       THEN compaction' = [compaction EXCEPT !.report = "compact"] /\ UNCHANGED layout
       ELSE /\ layout' = [layout EXCEPT !.root = 1]
            /\ compaction' = [pc |-> "settling", report |-> "merged"]
    /\ UNCHANGED <<docs, cache, windows, deleting, shape, expected>>

(* Mutant of awaitSteadyState: the merge being in the root is taken as enough. *)
awaitSteadyStateRoot == {"settled"}

(* awaitSteadyState returns: settled, or its timer gave up with a warning, or its    *)
(* context was cancelled, which is an error.                                        *)
awaitSteadyState == IF steady THEN {"settled"} ELSE {"timeout", "none"}

CompactReturns ==
    /\ compaction.pc = "settling"
    /\ \E outcome \in awaitSteadyState :
        compaction' = [pc |-> "idle",
                       report |-> IF compaction.report = "merged" THEN outcome ELSE "none"]
    /\ UNCHANGED <<docs, cache, windows, deleting, layout, shape, expected, spent>>

Restarted ==
    /\ cache' = [byKey |-> <<>>, order |-> <<>>]
    /\ windows' = [r \in KeyRepos |-> Idle] /\ deleting' = {}

(* Close, and New at the next start: the mapping is the one on disk whatever the     *)
(* configuration now says, the segments are the recorded ones, and the cache and the *)
(* windows in flight are gone.                                                      *)
Reopen ==
    /\ Upkeep /\ Restarted
    /\ layout' = [layout EXCEPT !.root = layout.disk]
    /\ compaction' = [pc |-> "idle",
                      report |-> IF compaction.report = "settled" THEN "settled" ELSE "none"]
    /\ UNCHANGED <<docs, shape, expected>>

(* New where the operator removed the directory (ErrIndexDamaged) or mounted an empty *)
(* one: buildMapping with the configuration of this start.                           *)
Recreate(configured) ==
    /\ Upkeep /\ Restarted
    /\ shape' = configured /\ docs' = {}
    /\ layout' = [root |-> 0, disk |-> 0]
    /\ compaction' = [pc |-> "idle", report |-> "none"]
    /\ expected' = [r \in KeyRepos |-> [f \in KeyPaths |-> 0]]

KeyNext ==
    \/ \E r \in KeyRepos :
        \/ \E fs \in SUBSET KeyPaths \ {{}} : \E texts \in [fs -> DOMAIN Texts] : StartWindow(r, texts)
        \/ \E f \in KeyPaths : PublishSymbols(r, f) \/ RemoveChunks(r, f)
        \/ \E found \in BOOLEAN : CutChunks(r, found)
        \/ FirstSweep(r) \/ SecondSweep(r) \/ ApplyBatch(r) \/ BatchFails(r) \/ EndWindow(r)
        \/ StartDelete(r) \/ DeleteNextPage(r)
    \/ BackgroundMerge \/ PersistRoot \/ Compact \/ CompactReturns \/ Reopen
    \/ \E configured \in SUBSET OptionalFields : Recreate(configured)

KeySpec == KeyInit /\ [][KeyNext]_keyVars

-----------------------------------------------------------------------------
(* Properties *)

(* What Index promises of a file it reported no failure for: its documents are       *)
(* exactly the chunks of the content that was read, they cover every line of it, and *)
(* each carries the label that content's own symbols give, whichever indexer parsed  *)
(* it, however late the symbols were published ("two passes over the same file never *)
(* see each other's symbols", SharedSymbols), and the fields the queries ask for.    *)
KeywordIndexExact ==
    \A r \in KeyRepos, f \in KeyPaths :
        LET mine == {d \in docs : d.repo = r /\ d.path = f}
            t == expected[r][f]
        IN /\ t > 0 => /\ mine = indexChunks(r, f, t, symbolUnits(t), shape)
                       /\ UNION {d.lines.from .. d.lines.to : d \in mine} = 1 .. Texts[t].lines
           /\ t = 0 => mine = {}

(* SymbolCache is bounded: never more files than its capacity, every one of them     *)
(* still in the eviction order, and the order itself, holes and repeated keys        *)
(* included, never longer than three times the capacity ("so a long pass does not    *)
(* grow the slice without bound", evictLocked).                                      *)
SymbolCacheBounded ==
    /\ Cardinality(DOMAIN cache.byKey) <= CacheCap
    /\ DOMAIN cache.byKey \subseteq Range(cache.order)
    /\ Len(cache.order) <= 3 * CacheCap

(* A compaction that reports success is one segment until the next write, and one     *)
(* that waited for the background threads is one on disk too: a later restart reads   *)
(* back the layout, and so the scores, it produced (awaitSteadyState).               *)
CompactedStaysCompact ==
    /\ compaction.report \in {"compact", "settled", "timeout"} => layout.root <= 1
    /\ compaction.report = "settled" => layout.disk <= 1

(* What the keyword index promises after every window, deletion and            *)
(* compaction: exact documents, a bounded symbol cache, a settled layout.      *)
KeywordIndexSafe == KeywordIndexExact /\ SymbolCacheBounded /\ CompactedStaysCompact
=============================================================================
