---------------------------- MODULE SymbolRefiner ----------------------------
(***************************************************************************)
(* The symbol refiner (internal/lsp/refiner.go), chained after the AST     *)
(* indexer (chain.go): language servers are asked for the symbols of the   *)
(* files of a window, and functions and methods the parser missed are      *)
(* stored as units of their own.  What it reports is folded into the AST   *)
(* indexer's result, from which indexFileSet decides which files get a row *)
(* and are skipped by later passes.                                        *)
(*                                                                         *)
(* One repository; a file goes through numbered contents, read when a pass *)
(* starts.  The other indexers are IndexPass.                              *)
(***************************************************************************)
EXTENDS Integers, Sequences, FiniteSets, SequencesExt, Sorting

CONSTANTS
    SymFiles,       \* per file: its language, and per content what parser and server find
    LspServers,     \* languages a server is configured for
    LangOrder,      \* the languages, sorted
    MaxSymPasses,   \* bound: passes
    MaxSymEdits,    \* bound: changes of files
    MaxSymFaults    \* bound: failures

IsSeq(s) == s \in Seq(ToSet(s))
IsContents(cs) == IsSeq(cs) /\ \A v \in DOMAIN cs : IsSeq(cs[v])

ASSUME SymbolAssumption ==
    /\ {MaxSymPasses, MaxSymEdits, MaxSymFaults} \subseteq Nat
    /\ IsFiniteSet(DOMAIN SymFiles) /\ DOMAIN SymFiles \subseteq Nat \ {0}
    /\ \A f \in DOMAIN SymFiles :
          /\ IsContents(SymFiles[f].parsed) /\ IsContents(SymFiles[f].reported)
          /\ SymFiles[f].parsed # <<>>
          /\ Len(SymFiles[f].parsed) = Len(SymFiles[f].reported)
          /\ \A v \in DOMAIN SymFiles[f].reported : \A i \in DOMAIN SymFiles[f].reported[v] :
                IsSeq(SymFiles[f].reported[v][i].children)
    /\ IsSeq(LangOrder) /\ \A i, j \in DOMAIN LangOrder : LangOrder[i] = LangOrder[j] => i = j
    /\ {SymFiles[f].lang : f \in DOMAIN SymFiles} \cap LspServers \subseteq ToSet(LangOrder)

VARIABLES
    symTree,    \* per file: its content on disk
    symUnits,   \* per file: the stored units [name, qualified, by]
    symRows,    \* per file: the content its row describes, 0 without a row
    lsp,        \* the running pass
    excused,    \* history: files whose language was skipped or failed as a whole
                \* when their row was last decided
    spent       \* passes, edits and faults so far

symbolVars == <<symTree, symUnits, symRows, lsp, excused, spent>>

Windowed == DOMAIN SymFiles
LangOf(f) == SymFiles[f].lang
Unnamed == 0          \* an error entry that begins with no path of the window

languageIDs == {"csharp", "go", "java", "typescript"}
symbolKinds == [k \in {5, 6, 9, 12, 13} |->
                   CASE k = 5 -> "class" [] k \in {6, 9} -> "method"
                     [] k = 12 -> "function" [] k = 13 -> "var"]

NoRefinement == [pc |-> "idle", window |-> {}, content |-> <<>>, langs |-> <<>>, todo |-> <<>>,
                 blind |-> FALSE, symbols |-> 0, astErrors |-> <<>>, failures |-> 0,
                 errors |-> <<>>, down |-> {}, empty |-> {}]

Spend(n) == spent.faults + n <= MaxSymFaults /\ spent' = [spent EXCEPT !.faults = @ + n]

-----------------------------------------------------------------------------
(* Symbols *)

(* A name as servers spell it: with its parameter list or without. *)
Bare(n) == [n EXCEPT !.params = FALSE]

(* Mutant of flattenSymbols: the parameter list stays in the name. *)
flattenSymbolsWhole(raw) ==
    FlattenSeq([i \in DOMAIN raw |->
        <<[name |-> raw[i].name, kind |-> raw[i].kind, container |-> <<>>]>>
        \o [c \in DOMAIN raw[i].children |->
              [name |-> raw[i].children[c].name, kind |-> raw[i].children[c].kind,
               container |-> <<raw[i].name>>]]])

(* A symbol comes before its children; their container is its name as the      *)
(* server spelt it.  Two levels stand for any depth.                           *)
flattenSymbols(raw) ==
    FlattenSeq([i \in DOMAIN raw |->
        <<[name |-> Bare(raw[i].name), kind |-> raw[i].kind, container |-> <<>>]>>
        \o [c \in DOMAIN raw[i].children |->
              [name |-> Bare(raw[i].children[c].name), kind |-> raw[i].children[c].kind,
               container |-> <<raw[i].name>>]]])

qualifiedName(s) == Append(s.container, s.name)

IsFunction(s) == s.kind \in DOMAIN symbolKinds /\ symbolKinds[s.kind] \in {"function", "method"}
NamesOf(units) == {u.name : u \in ToSet(units)}
UnitFor(s) == [name |-> s.name, qualified |-> qualifiedName(s), by |-> "lsp"]

(* Mutant of missed: a name is compared with the parser's units only. *)
missedTwice(symbols, units) ==
    LET add[i \in 0 .. Len(symbols)] ==
            IF i = 0 THEN <<>>
            ELSE IF IsFunction(symbols[i]) /\ symbols[i].name \notin NamesOf(units)
                 THEN Append(add[i - 1], UnitFor(symbols[i]))
                 ELSE add[i - 1]
    IN add[Len(symbols)]

(* The units to add: functions and methods whose name no unit of the file has, *)
(* one per name.                                                               *)
missed(symbols, units) ==
    LET add[i \in 0 .. Len(symbols)] ==
            IF i = 0 THEN <<>>
            ELSE IF IsFunction(symbols[i]) /\ symbols[i].name \notin NamesOf(units) \cup NamesOf(add[i - 1])
                 THEN Append(add[i - 1], UnitFor(symbols[i]))
                 ELSE add[i - 1]
    IN add[Len(symbols)]

Parsed(f, v) == [i \in DOMAIN SymFiles[f].parsed[v] |->
                    [name |-> SymFiles[f].parsed[v][i], qualified |-> <<>>, by |-> "ast"]]
Reported(f, v) == flattenSymbols(SymFiles[f].reported[v])

-----------------------------------------------------------------------------
(* A file is edited, at any moment. *)
EditSymbols(f) ==
    /\ spent.edits < MaxSymEdits /\ symTree[f] < Len(SymFiles[f].parsed)
    /\ symTree' = [symTree EXCEPT ![f] = @ + 1]
    /\ spent' = [spent EXCEPT !.edits = @ + 1]
    /\ UNCHANGED <<symUnits, symRows, lsp, excused>>

Refined(f) == LangOf(f) \in languageIDs \cap LspServers

Sooner == {<<LangOrder[p[1]], LangOrder[p[2]]>> :
              p \in {q \in (DOMAIN LangOrder) \X (DOMAIN LangOrder) : q[1] < q[2]}}

(* The AST indexer over the files without a current row: the units of a file   *)
(* are replaced; a file it fails on keeps them, or loses them when the insert  *)
(* is what failed.  The refiner then takes the languages in order.             *)
primaryIndex(bad, lost) ==
    LET window == {f \in Windowed : symRows[f] # symTree[f]}
        langs == InOrder({LangOf(f) : f \in {g \in window : Refined(g)}}, Sooner)
    IN /\ lsp.pc = "idle" /\ window # {} /\ spent.passes < MaxSymPasses
       /\ bad \subseteq window /\ lost \subseteq bad
       /\ spent.faults + Cardinality(bad) <= MaxSymFaults
       /\ spent' = [spent EXCEPT !.passes = @ + 1, !.faults = @ + Cardinality(bad)]
       /\ symUnits' = [f \in Windowed |->
                          IF f \in lost THEN <<>>
                          ELSE IF f \in window \ bad THEN Parsed(f, symTree[f]) ELSE symUnits[f]]
       /\ lsp' = [NoRefinement EXCEPT !.pc = "language", !.window = window, !.content = symTree,
                      !.langs = langs, !.astErrors = SetToSeq(bad)]
       /\ UNCHANGED <<symTree, symRows, excused>>

(* refineLanguage: the server cannot be reached or initialised, or the session *)
(* opens.  A server that does not see the workspace answers, with nothing.     *)
openLanguage(up, blind) ==
    LET l == Head(lsp.langs) IN
    /\ lsp.pc = "language" /\ lsp.langs # <<>>
    /\ Spend(IF up /\ ~blind THEN 0 ELSE 1)
    /\ lsp' = IF ~up THEN [lsp EXCEPT !.langs = Tail(@), !.down = @ \cup {l}]
              ELSE [lsp EXCEPT !.pc = "file", !.blind = blind, !.symbols = 0,
                        !.todo = InOrder({f \in lsp.window : LangOf(f) = l},
                                         {p \in Windowed \X Windowed : p[1] < p[2]})]
    /\ UNCHANGED <<symTree, symUnits, symRows, excused>>

FileFailed(f) ==
    lsp' = [lsp EXCEPT !.todo = Tail(@), !.failures = @ + 1, !.errors = Append(@, f)]

(* refineFile: opening, asking or reading the units fails and leaves the file  *)
(* as it was, storing a unit fails after those before it, or all are stored.   *)
refineFile ==
    LET f == Head(lsp.todo)
        symbols == IF lsp.blind THEN <<>> ELSE Reported(f, lsp.content[f])
        new == missed(symbols, symUnits[f])
    IN /\ lsp.pc = "file" /\ lsp.todo # <<>>
       /\ \/ /\ \E k \in {0} \cup DOMAIN new :
                  symUnits' = [symUnits EXCEPT ![f] = @ \o SubSeq(new, 1, k - 1)]
             /\ FileFailed(f) /\ Spend(1)
          \/ /\ symUnits' = [symUnits EXCEPT ![f] = @ \o new]
             /\ lsp' = [lsp EXCEPT !.todo = Tail(@), !.symbols = @ + Len(symbols)]
             /\ UNCHANGED spent
       /\ UNCHANGED <<symTree, symRows, excused>>

(* A language without a single symbol counts all its files as failed, under    *)
(* one entry that names none of them.                                          *)
closeLanguage ==
    LET l == Head(lsp.langs)
        of == {f \in lsp.window : LangOf(f) = l}
        closed == [lsp EXCEPT !.pc = "language", !.langs = Tail(@)]
    IN /\ lsp.pc = "file" /\ lsp.todo = <<>>
       /\ lsp' = IF lsp.symbols > 0 THEN closed
                 ELSE [closed EXCEPT !.failures = @ + Cardinality(of),
                           !.errors = Append(@, Unnamed), !.empty = @ \cup {l}]
       /\ UNCHANGED <<symTree, symUnits, symRows, excused, spent>>

RefinedLangs == {LangOf(f) : f \in {g \in lsp.window : Refined(g)}}

(* Index returns an error when there is no server or every language failed;    *)
(* chained.Index then drops the refiner's result.                              *)
Swallowed == LspServers = {} \/ (RefinedLangs # {} /\ RefinedLangs = lsp.down \cup lsp.empty)

(* attributeFailures: the entries that begin with a path of the window. *)
attributeFailures(errs) == Cardinality({i \in DOMAIN errs : errs[i] \in lsp.window})

(* Mutant of failedFiles: what cannot be attributed is forgotten. *)
failedFilesAttributed(errs, failures) == {f \in lsp.window : \E i \in DOMAIN errs : errs[i] = f}

(* A failure that cannot be attributed makes the whole window suspect. *)
failedFiles(errs, failures) ==
    IF attributeFailures(errs) < failures THEN lsp.window
    ELSE {f \in lsp.window : \E i \in DOMAIN errs : errs[i] = f}

(* chained.Index folds the results, indexFileSet stores the rows of the files  *)
(* that did not fail.                                                          *)
storeWindowRows ==
    LET errs == lsp.astErrors \o (IF Swallowed THEN <<>> ELSE lsp.errors)
        failures == Len(lsp.astErrors) + (IF Swallowed THEN 0 ELSE lsp.failures)
        ok == lsp.window \ failedFiles(errs, failures)
    IN /\ lsp.pc = "language" /\ lsp.langs = <<>>
       /\ symRows' = [f \in Windowed |-> IF f \in ok THEN lsp.content[f] ELSE symRows[f]]
       /\ excused' = (excused \ lsp.window) \cup
                       {f \in lsp.window : Swallowed \/ ~Refined(f) \/ LangOf(f) \in lsp.down}
       /\ lsp' = NoRefinement
       /\ UNCHANGED <<symTree, symUnits, spent>>

-----------------------------------------------------------------------------
SymbolInit ==
    /\ symTree = [f \in Windowed |-> 1]
    /\ symUnits = [f \in Windowed |-> <<>>] /\ symRows = [f \in Windowed |-> 0]
    /\ lsp = NoRefinement /\ excused = {}
    /\ spent = [passes |-> 0, edits |-> 0, faults |-> 0]

SymbolNext ==
    \/ \E f \in Windowed : EditSymbols(f)
    \/ \E bad \in SUBSET Windowed : \E lost \in SUBSET bad : primaryIndex(bad, lost)
    \/ openLanguage(FALSE, FALSE) \/ openLanguage(TRUE, TRUE) \/ openLanguage(TRUE, FALSE)
    \/ refineFile \/ closeLanguage \/ storeWindowRows

-----------------------------------------------------------------------------
(* Properties *)

(* A file that later passes skip holds the units of its current content and    *)
(* nothing else: those of the parser, and one unit per function or method that *)
(* the server reports and the parser missed.  If some of these are missing,    *)
(* its language had no server, could not be reached, or no language of its     *)
(* pass was refined: the failure of a single file, or of one language among    *)
(* others, never hides behind a row ("recording a failed file as indexed loses *)
(* it permanently", indexFileSet).                                             *)
SymbolsMerged ==
    \A f \in Windowed : symRows[f] = symTree[f] =>
        LET v == symTree[f]
            n == Len(SymFiles[f].parsed[v])
            added == SubSeq(symUnits[f], n + 1, Len(symUnits[f]))
            raw == SymFiles[f].reported[v]
            functions == {Bare(s.name) : s \in {t \in ToSet(raw) \cup UNION {ToSet(r.children) : r \in ToSet(raw)} :
                                                   t.kind \in {6, 9, 12}}}
            expected == functions \ ToSet(SymFiles[f].parsed[v])
            names == NamesOf(added)
        IN /\ SubSeq(symUnits[f], 1, n) = Parsed(f, v)
           /\ \A i \in DOMAIN added : added[i].by = "lsp"
           /\ names \subseteq expected /\ Cardinality(names) = Len(added)
           /\ names # expected => f \in excused

SymbolSpec == SymbolInit /\ [][SymbolNext]_symbolVars
=============================================================================
