----------------------------- MODULE Enrichment -----------------------------
(***************************************************************************)
(* The optional passes that follow the indexers in doIndex: the contract   *)
(* coverage summary, the recon pass, the file and service summaries and    *)
(* the one-line symbol summaries (internal/app/coverage.go and             *)
(* internal/app/enrich).  They share one repository's rows and its vector  *)
(* documents with the indexers, ask a model that may fail or answer        *)
(* anything, and are best effort: a failure is logged and the pass goes on.*)
(*                                                                         *)
(* Files are 1..N in path order.  Shape[f][v] is the sequence of symbols   *)
(* in version v of file f (a symbol's position is its start line); the     *)
(* symbols of Unlinked look like an outbound contract but yield no edge.   *)
(* A sentence is named by the symbol it was written about.                 *)
(***************************************************************************)
EXTENDS Integers, Sequences, FiniteSets, SequencesExt, FiniteSetsExt

CONSTANTS Shape,            \* the versions of every file
          Unlinked,         \* candidates without an edge
          ServiceOfFile,        \* the service a file belongs to
          BaseName,         \* filepath.Base of a file
          MaxSumm,          \* maxSumm, the file summaries of one pass
          MaxSymSumm,       \* maxSymSumm, the symbol summaries of one pass
          SymbolBatchSize,  \* symbolBatchSize
          MaxEnrichPasses, MaxFileEdits, MaxEnrichFaults   \* bounds

ASSUME EnrichAssumption ==
    /\ MaxSumm \in Nat \ {0} /\ MaxSymSumm \in Nat \ {0}
    /\ SymbolBatchSize \in Nat \ {0}
    /\ Shape \in Seq(Seq(Seq(STRING)) \ {<<>>})
    /\ DOMAIN ServiceOfFile = DOMAIN Shape /\ DOMAIN BaseName = DOMAIN Shape
    /\ {MaxEnrichPasses, MaxFileEdits, MaxEnrichFaults} \subseteq Nat

VARIABLES tree,      \* the working tree: file -> version
          fileRow,   \* the stored file rows: file -> indexed version, 0 for none
          units,     \* ast_units
          cards,     \* the vector documents of the source files
          summaryDocs,      \* the vector documents under .ragota/summaries
          coverage,  \* the stored coverage summary
          run,       \* the pass under way
          charged,     \* passes, edits, failures and row ids used
          torn       \* history: files with new units whose documents or row did not follow

enrichVars == <<tree, fileRow, units, cards, summaryDocs, coverage, run, charged, torn>>

SourceFiles == DOMAIN Shape
Services == {ServiceOfFile[f] : f \in SourceFiles}
Symbols(f, v) == IF v = 0 THEN <<>> ELSE Shape[f][v]

\* The call sites of the given versions: candidates and the edges they gave.
Tally(version) ==
    LET Sites(f) == {<<f, i>> : i \in DOMAIN Symbols(f, version[f])}
        all == UNION {Sites(f) : f \in SourceFiles}
    IN [candidates |-> Cardinality(all),
        edges |-> Cardinality({s \in all : Symbols(s[1], version[s[1]])[s[2]] \notin Unlinked})]

\* The card of a symbol takes the note keyed by its start line.
buildCards(f, v, annotations) ==
    [version |-> v,
     notes |-> {a \in annotations : a.line <= Len(Symbols(f, v))}]
NoCards == [version |-> 0, notes |-> {}]

NoCoverage == [reported |-> FALSE, tally |-> [candidates |-> 0, edges |-> 0],
               of |-> [f \in SourceFiles |-> 0]]

\* of: the version of each file the pass could read, 0 for one it could not;
\* seen: the part of it that was handed to the indexers.
NoPass == [phase |-> "idle", of |-> NoCoverage.of, seen |-> NoCoverage.of, skipped |-> FALSE,
          kept |-> {}, summaries |-> {}, todo |-> <<>>, noted |-> {}]

Code(i, f, v, l, text) ==
    [id |-> i, kind |-> "code", file |-> f, owner |-> Symbols(f, v)[l], line |-> l,
     version |-> v, text |-> text]
Summary(i, f, owner) ==
    [id |-> i, kind |-> "summary", file |-> f, owner |-> owner, line |-> 1, version |-> 0,
     text |-> owner]
Recon(i, answer) ==
    [id |-> i, kind |-> "recon", file |-> 0, owner |-> "recon", line |-> 1, version |-> 0,
     text |-> answer]

EnrichInit ==
    /\ tree = [f \in SourceFiles |-> 1]
    /\ fileRow = [f \in SourceFiles |-> 0]
    /\ units = {} /\ summaryDocs = {}
    /\ cards = [f \in SourceFiles |-> NoCards]
    /\ coverage = NoCoverage
    /\ run = NoPass
    /\ charged = [passes |-> 0, edits |-> 0, faults |-> 0, ids |-> 0]
    /\ torn = {}

\* n failures may still happen.
Affordable(n) == charged.faults + n <= MaxEnrichFaults
Charge(n, rows) == [charged EXCEPT !.faults = @ + n, !.ids = @ + rows]

------------------------------------------------------------------------------
(* The working tree and the indexers                                         *)

\* A developer saves another version of a file, at any time.
EditFile(f) ==
    /\ charged.edits < MaxFileEdits
    /\ \E v \in DOMAIN Shape[f] \ {tree[f]} : tree' = [tree EXCEPT ![f] = v]
    /\ charged' = [charged EXCEPT !.edits = @ + 1]
    /\ UNCHANGED <<fileRow, units, cards, summaryDocs, coverage, run, torn>>

\* The leading files that were indexed, as many as the summary pass may use.
collectSummaryFiles(ok) == {f \in ok : Cardinality({g \in ok : g < f}) < MaxSumm}

\* Scan and indexing of one pass: unreadable files are passed over, unchanged
\* ones skipped unless forced, and the rest handed to the AST and the vector
\* indexer, either of which may fail on a file and then leaves it without a row
\* (and a vector failure after the delete leaves it without documents).
IndexFiles ==
    /\ run.phase = "idle" /\ charged.passes < MaxEnrichPasses
    /\ \E force \in BOOLEAN, unreadable, astFailed, vecFailed, gone \in SUBSET SourceFiles :
        LET readable == SourceFiles \ unreadable
            given == {f \in readable : force \/ fileRow[f] # tree[f]}
            ok == given \ (astFailed \cup vecFailed)
            stored == given \ astFailed
            lines == UNION {{f} \X DOMAIN Symbols(f, tree[f]) : f \in stored}
            Rank(x) == Cardinality({y \in lines : y[1] < x[1] \/ (y[1] = x[1] /\ y[2] <= x[2])})
            faults == Cardinality(unreadable) + Cardinality(astFailed) + Cardinality(vecFailed)
        IN /\ astFailed \subseteq given /\ vecFailed \subseteq given /\ gone \subseteq vecFailed
           /\ Affordable(faults)
           /\ fileRow' = [f \in SourceFiles |-> IF f \in ok THEN tree[f] ELSE fileRow[f]]
           /\ torn' = (torn \cup stored) \ ok
           /\ units' = {u \in units : u.file \notin stored}
                         \cup {Code(charged.ids + Rank(x), x[1], tree[x[1]], x[2], "") : x \in lines}
           /\ cards' = [f \in SourceFiles |->
                          IF f \in given \ vecFailed THEN buildCards(f, tree[f], {})
                          ELSE IF f \in gone THEN NoCards ELSE cards[f]]
           /\ run' = [NoPass EXCEPT !.phase = "coverage",
                                   !.of = [f \in SourceFiles |-> IF f \in readable THEN tree[f] ELSE 0],
                                   !.seen = [f \in SourceFiles |-> IF f \in given THEN tree[f] ELSE 0],
                                   !.skipped = given # readable,
                                   !.kept = collectSummaryFiles(ok)]
           /\ charged' = [charged EXCEPT !.passes = @ + 1, !.faults = @ + faults,
                                     !.ids = @ + Cardinality(lines)]
    /\ UNCHANGED <<tree, summaryDocs, coverage>>

------------------------------------------------------------------------------
(* Contract coverage                                                         *)

\* What the accumulator holds after the batches of a pass; nothing was
\* reported when no file was handed to an indexer.
accumulated ==
    [reported |-> \E f \in SourceFiles : run.seen[f] # 0, tally |-> Tally(run.seen),
     of |-> run.of]

\* A partial pass writing what it saw.
summaryAfterAlways(acc, complete) == IF acc.reported THEN acc ELSE coverage

\* The summary a pass leaves: a partial one keeps the previous summary.
summaryAfter(acc, complete) == IF acc.reported /\ complete THEN acc ELSE coverage

storeCoverage ==
    /\ run.phase = "coverage"
    /\ \/ coverage' = summaryAfter(accumulated, ~run.skipped) /\ charged' = charged
       \/ Affordable(1) /\ coverage' = coverage /\ charged' = Charge(1, 0)
    /\ run' = [run EXCEPT !.phase = "recon"]
    /\ UNCHANGED <<tree, fileRow, units, cards, summaryDocs, torn>>

\* The report served: counters only where a pass reported, and a kind with
\* nothing to find counts as covered.
RepoCoverage ==
    [reported |-> coverage.reported, tally |-> coverage.tally,
     covered |-> coverage.tally.candidates = coverage.tally.edges]

------------------------------------------------------------------------------
(* The recon pass                                                            *)

Recons == {u \in units : u.kind = "recon"}

\* Storing an answer before it is parsed.
acceptedRaw(answer) == TRUE

\* An answer is stored when it parses.
accepted(answer) == answer = "json"

\* Once per repository: a stored answer ends it; no answer (a failure), or one
\* that does not parse, leaves nothing behind and the next pass asks again.
ReconRepo ==
    /\ run.phase = "recon"
    /\ run' = [run EXCEPT !.phase = "files"]
    /\ \/ Recons # {} /\ UNCHANGED <<units, charged>>
       \/ /\ Recons = {}
          /\ \E answer \in {"json", "prose"} :
               IF accepted(answer)
               THEN units' = units \cup {Recon(charged.ids + 1, answer)} /\ charged' = Charge(0, 1)
               ELSE UNCHANGED <<units, charged>>
       \/ Recons = {} /\ Affordable(1) /\ units' = units /\ charged' = Charge(1, 0)
    /\ UNCHANGED <<tree, fileRow, cards, summaryDocs, coverage, torn>>

\* The service hints a later step reads from the stored answer.
ReconHints == {u.text : u \in {x \in Recons : x.text = "json"}}

------------------------------------------------------------------------------
(* File and service summaries                                                *)

summaryDoc(name, owner) == [path |-> name, about |-> owner]

\* One model call and one row per kept file, any of which may fail.
SummarizeFiles ==
    /\ run.phase = "files"
    /\ \E ok \in SUBSET run.kept :
        LET missed == Cardinality(run.kept \ ok)
            row(f) == Summary(charged.ids + f, f, ToString(f))
        IN /\ Affordable(missed)
           /\ units' = units \cup {row(f) : f \in ok}
           /\ run' = [run EXCEPT !.phase = IF run.kept = {} THEN "symbols" ELSE "services",
                                 !.summaries = {summaryDoc(BaseName[f], ToString(f)) : f \in ok}]
           /\ charged' = Charge(missed, Len(Shape))
    /\ UNCHANGED <<tree, fileRow, cards, summaryDocs, coverage, torn>>

\* Storing without deleting first.
replacedByNone(s) == {}

\* The rows a service's new summary replaces.
replacedBy(s) == {u \in units : u.kind = "summary" /\ u.file = 0 /\ u.owner = s}

\* The file summaries of the whole repository are rolled up: one summary for
\* every service that has any.  Its old row is deleted first, so a row that
\* cannot be stored leaves the service without one.
summarizeServices ==
    /\ run.phase = "services"
    /\ LET named == {ServiceOfFile[u.file] : u \in {x \in units : x.kind = "summary" /\ x.file # 0}}
       IN \E told \in SUBSET named : \E stored \in SUBSET told :
           LET rank(s) == Cardinality({x \in SourceFiles : \E f \in SourceFiles :
                            ServiceOfFile[f] = s /\ x <= f})
               missed == Cardinality(named \ stored)
           IN /\ Affordable(missed)
              /\ units' = (units \ UNION {replacedBy(s) : s \in told})
                            \cup {Summary(charged.ids + rank(s), 0, s) : s \in stored}
              /\ run' = [run EXCEPT !.phase = "summaryDocs",
                                    !.summaries = @ \cup {summaryDoc(s, s) : s \in stored}]
              /\ charged' = Charge(missed, Len(Shape))
    /\ UNCHANGED <<tree, fileRow, cards, summaryDocs, coverage, torn>>

\* The summaries go to the vector index as documents; two with one path race,
\* and the last writer's stays.
indexSummaries ==
    /\ run.phase = "summaryDocs"
    /\ \E won \in SUBSET run.summaries :
        /\ \A d, e \in won : d.path = e.path => d = e
        /\ LET lost == {d.path : d \in run.summaries} \ {d.path : d \in won}
           IN /\ Affordable(Cardinality(lost))
              /\ summaryDocs' = {d \in summaryDocs : \A e \in won : e.path # d.path} \cup won
              /\ charged' = Charge(Cardinality(lost), 0)
    /\ run' = [run EXCEPT !.phase = "symbols"]
    /\ UNCHANGED <<tree, fileRow, units, cards, coverage, torn>>

------------------------------------------------------------------------------
(* Symbol summaries                                                          *)

\* The rows contract edges start from: those the AST indexer stored.
Endpoints == {u \in units : u.kind = "code" /\ u.owner \notin Unlinked
                              /\ \A w \in units : w.kind = "code" /\ w.file = u.file
                                   /\ w.line = u.line => u.id <= w.id}

\* Path, then line.
Before(a, b) == a.file < b.file \/ (a.file = b.file /\ a.line < b.line)

\* The undocumented endpoints without a sentence, by path and line, capped: the
\* one sequence of as many as the cap allows that is in order and leaves only
\* later ones out.
boundarySymbols ==
    LET left == {u \in Endpoints : u.text = ""}
    IN {todo \in UNION {[1..k -> left] : k \in 0..MaxSymSumm} :
          /\ Len(todo) = MaxSymSumm \/ ToSet(todo) = left
          /\ \A i, j \in DOMAIN todo : i < j => Before(todo[i], todo[j])
          /\ \A u \in left \ ToSet(todo), i \in DOMAIN todo : Before(todo[i], u)}

StartSymbols ==
    /\ run.phase = "symbols"
    /\ \E todo \in boundarySymbols :
         run' = [run EXCEPT !.phase = IF todo = <<>> THEN "idle" ELSE "batch", !.todo = todo]
    /\ UNCHANGED <<tree, fileRow, units, cards, summaryDocs, coverage, charged, torn>>

\* Counting the symbols from zero.
positionOfZero(n, size) == IF n < 0 \/ n >= size THEN 0 ELSE n + 1

\* The position a numbered line of the reply is taken for, 0 when it is none
\* of the batch.
positionOf(n, size) == IF n < 1 \/ n > size THEN 0 ELSE n

\* Line n of a reply is about the n-th symbol of the prompt; numbers may be
\* missing or beyond the batch.
summarizeBatch(batch, numbers) ==
    [i \in DOMAIN batch |->
       LET from == {n \in numbers : positionOf(n, Len(batch)) = i}
       IN IF from = {} THEN "" ELSE batch[CHOOSE n \in from : TRUE].owner]

\* One batch: the model fails, or answers; every sentence is stored as a new
\* row beside its symbol's.
SummarizeSymbols ==
    /\ run.phase = "batch" /\ run.todo # <<>>
    /\ LET size == IF Len(run.todo) < SymbolBatchSize THEN Len(run.todo) ELSE SymbolBatchSize
           batch == SubSeq(run.todo, 1, size)
           rest == SubSeq(run.todo, size + 1, Len(run.todo))
       IN \/ \E numbers \in SUBSET (1..size + 1) :
               LET told == {i \in 1..size : summarizeBatch(batch, numbers)[i] # ""}
                   written == {Code(charged.ids + i, batch[i].file, batch[i].version, batch[i].line,
                                    summarizeBatch(batch, numbers)[i]) : i \in told}
               IN /\ units' = units \cup written
                  /\ run' = [run EXCEPT !.todo = rest, !.noted = @ \cup written]
                  /\ charged' = Charge(0, size)
          \/ /\ Affordable(1)
             /\ run' = [run EXCEPT !.todo = rest]
             /\ units' = units /\ charged' = Charge(1, 0)
    /\ UNCHANGED <<tree, fileRow, cards, summaryDocs, coverage, torn>>

\* The files of this run's sentences are read again from the working tree and
\* their documents replaced; a failure leaves the old ones, or none.
reindexAnnotated ==
    /\ run.phase = "batch" /\ run.todo = <<>>
    /\ LET touched == {u.file : u \in run.noted}
           notes(f) == {[line |-> u.line, text |-> u.text] : u \in {x \in run.noted : x.file = f}}
       IN \E failed \in SUBSET touched : \E gone \in SUBSET failed :
           /\ Affordable(Cardinality(failed))
           /\ cards' = [f \in SourceFiles |->
                          IF f \in touched \ failed THEN buildCards(f, tree[f], notes(f))
                          ELSE IF f \in gone THEN NoCards ELSE cards[f]]
           /\ charged' = Charge(Cardinality(failed), 0)
    /\ run' = NoPass
    /\ UNCHANGED <<tree, fileRow, units, summaryDocs, coverage, torn>>

EnrichNext ==
    \/ \E f \in SourceFiles : EditFile(f)
    \/ IndexFiles \/ storeCoverage \/ ReconRepo \/ SummarizeFiles \/ summarizeServices
    \/ indexSummaries \/ StartSymbols \/ SummarizeSymbols \/ reindexAnnotated

EnrichSpec == EnrichInit /\ [][EnrichNext]_enrichVars

------------------------------------------------------------------------------
(* Properties                                                                *)

\* Every stored sentence is about the symbol whose row carries it, whatever
\* numbers the model answered with.  The cards of a file are read a second time,
\* after an edit perhaps, and keep the lines of the first: once a pass has
\* recorded the version they show, every note is about the symbol at its line.
\* The exception is a file whose documents failed after its units were stored,
\* until a pass completes it: its row may already be that of the version on
\* disk, so that nothing but a new version brings the documents up to date.
NotesDescribeTheirSymbol ==
    /\ \A u \in units : u.kind = "code" /\ u.text # "" => u.text = u.owner
    /\ \A f \in SourceFiles \ torn, u \in units : u.kind = "code" /\ u.file = f
         /\ u.version = cards[f].version /\ u.version = fileRow[f] =>
              \A n \in cards[f].notes : n.line = u.line => n.text = u.owner

\* A file and a service have at most one summary, over any number of passes,
\* and the one recon answer kept is one the service hints can be read from: an
\* unusable answer must not end recon for the repository.
SummariesReplaced ==
    /\ \A u, w \in units : u.kind = "summary" /\ w.kind = "summary" /\ u.file = w.file
                             /\ (u.file # 0 \/ u.owner = w.owner) => u = w
    /\ Cardinality(Recons) <= 1 /\ (Recons # {} => ReconHints # {})

\* The stored coverage counts every file the pass that wrote it could read,
\* never only the ones that had changed; what is reported as covered has an
\* edge for every call site.
CoverageOfAWholePass ==
    /\ coverage.reported => coverage.tally = Tally(coverage.of)
    /\ RepoCoverage.reported /\ RepoCoverage.covered =>
         \A f \in SourceFiles : \A s \in ToSet(Symbols(f, coverage.of[f])) : s \notin Unlinked

\* What enrichment promises about the rows, the documents and the counters.
EnrichmentSafe == NotesDescribeTheirSymbol /\ SummariesReplaced /\ CoverageOfAWholePass

------------------------------------------------------------------------------
(* The inductive invariant behind the theorem of VectorProofs.               *)

EnrichTypeOK ==
    /\ tree \in [SourceFiles -> Nat] /\ fileRow \in [SourceFiles -> Nat]
    /\ \A f \in SourceFiles : tree[f] \in DOMAIN Shape[f]
    /\ DOMAIN cards = SourceFiles
    /\ DOMAIN run = DOMAIN NoPass /\ run.kept \subseteq SourceFiles

\* The rows of source symbols.
CodeUnits == {u \in units : u.kind = "code"}

\* A row is what its file's version has at its line, and a sentence is about it.
\* Unless its file is torn it is of the version the file row records.
CodeSound(u) ==
    /\ u.file \in SourceFiles /\ u.version \in DOMAIN Shape[u.file]
    /\ u.owner = Symbols(u.file, u.version)[u.line]
    /\ u.text # "" => u.text = u.owner
    /\ u.file \notin torn => u.version = fileRow[u.file]

OneSummary ==
    \A u, w \in units : u.kind = "summary" /\ w.kind = "summary" /\ u.file = w.file
                          /\ (u.file # 0 \/ u.owner = w.owner) => u = w

OneRecon ==
    /\ \A u, w \in Recons : u = w
    /\ \A u \in Recons : u.text = "json"

\* Notes that are at the wrong lines are on cards of a version that no file row
\* records, so that the next pass over that version replaces them.
NotesInPlace(f) ==
    f \notin torn /\ cards[f].version = fileRow[f] =>
        \A n \in cards[f].notes : n.text = Symbols(f, cards[f].version)[n.line]

\* What a pass carries from one phase to a later one.
PassSound ==
    /\ run.todo \in Seq(CodeUnits)
    /\ run.noted \subseteq CodeUnits /\ \A u \in run.noted : u.text # ""
    /\ run.phase \in {"coverage", "recon", "files"} =>
          \A u \in units : u.kind = "summary" => u.file \notin run.kept
    /\ run.phase = "coverage" =>
          /\ ~run.skipped => run.seen = run.of
          /\ \A f \in SourceFiles : run.of[f] = 0 \/ run.of[f] \in DOMAIN Shape[f]

CoverageSound ==
    coverage.reported =>
        /\ coverage.tally = Tally(coverage.of)
        /\ \A f \in SourceFiles : coverage.of[f] = 0 \/ coverage.of[f] \in DOMAIN Shape[f]

EnrichInv ==
    /\ EnrichTypeOK /\ OneSummary /\ OneRecon /\ PassSound /\ CoverageSound
    /\ \A u \in CodeUnits : CodeSound(u)
    /\ \A f \in SourceFiles : NotesInPlace(f)
==============================================================================
