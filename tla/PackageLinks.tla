---------------------------- MODULE PackageLinks ----------------------------
(***************************************************************************)
(* The package stage of the AST indexer (linkPackageWrappers and           *)
(* linkPackageTables of internal/index/ast/indexer.go, wrappers.go): what  *)
(* one file says is completed by the other files of its directory that are *)
(* parsed in the same batch.  A helper that makes an outbound call for its *)
(* callers gives their call sites an http_call edge; a constant gives a    *)
(* data access its table.                                                  *)
(*                                                                         *)
(* A file is what its extractor found: outbound sites, calls, constants    *)
(* and data accesses.  A pass parses a batch of files, any of which may    *)
(* fail, and replaces the edges of the others.                             *)
(***************************************************************************)
EXTENDS Integers, Sequences, FiniteSets, SequencesExt, FiniteSetsExt

CONSTANTS
    PkgShapes,    \* per file: the contents it may have
    DirOf,        \* per file: its directory
    MaxBatches    \* bound: passes

ASSUME PackageAssumption ==
    /\ DOMAIN DirOf = DOMAIN PkgShapes /\ MaxBatches \in Nat

PkgFiles == DOMAIN PkgShapes

VARIABLES
    pkg,        \* per file: [sites, calls, consts, tables]
    pkgEdges,   \* per file: the stored edges
    batchOf,    \* history, per file: the files parsed beside it the last time it was
    tally,      \* coverage the last batch reported
    batches

packageVars == <<pkg, pkgEdges, batchOf, tally, batches>>

NoRoute == ""
AnyMethod == "ANY"
NoParam == -1

(* Names that are HTTP methods, and names shorter than minWrapperName. *)
httpMethodNames == {"get", "post"}
ShortNames == {"do"}

(* Argument expressions that resolve to a route, or to a method. *)
Literals == {"/x", "/y"}
MethodLiterals == {"POST"}

-----------------------------------------------------------------------------
(* Helpers *)

(* newWrapper: the route is fixed, or arrives in a parameter. *)
newWrapper(s) ==
    [name |-> s.unit, method |-> s.method, path |-> s.path,
     url |-> IF s.path # NoRoute THEN NoParam ELSE s.url,
     via |-> IF s.path # NoRoute THEN NoParam ELSE s.via,
     prefix |-> IF s.path # NoRoute THEN NoRoute ELSE s.prefix]

(* Mutant of followable: a fixed route is followed whatever the name. *)
followableAnyName(w) == TRUE

(* A fixed route claims every call of the name, which a method name cannot. *)
followable(w) == w.url # NoParam \/ w.name \notin httpMethodNames

(* A function or method of some length whose route is known or forwarded. *)
IsHelper(s) ==
    /\ s.function /\ s.unit \notin ShortNames
    /\ s.path # NoRoute \/ s.url # NoParam
    /\ followable(newWrapper(s))

Named(ws, name) == {i \in DOMAIN ws : ws[i].name = name}

(* The first site that makes a helper of a name is the helper of that name. *)
wrappers(sites) ==
    FoldLeft(LAMBDA ws, s : IF IsHelper(s) /\ Named(ws, s.unit) = {} THEN Append(ws, newWrapper(s)) ELSE ws,
             <<>>, sites)

orAnyMethod(m) == IF m = NoRoute THEN AnyMethod ELSE m

(* target: the routes a call with these arguments reaches through the helper,  *)
(* at most one.                                                                *)
target(w, args) ==
    IF w.url = NoParam THEN {<<orAnyMethod(w.method), NoRoute, w.path>>}
    ELSE IF w.url > Len(args) \/ (w.url <= Len(args) /\ args[w.url] \notin Literals) THEN {}
    ELSE {<<orAnyMethod(IF w.via \in DOMAIN args /\ args[w.via] \in MethodLiterals
                        THEN args[w.via] ELSE w.method),
            w.prefix, args[w.url]>>}

-----------------------------------------------------------------------------
(* Edges: kind "call", "http" or "table". *)
CallEdge(c) == [kind |-> "call", src |-> c.src, line |-> c.line, dst |-> c.dst, args |-> c.args, by |-> "site"]
HttpEdge(src, line, route, by) ==
    [kind |-> "http", src |-> src, line |-> line, dst |-> route, args |-> <<>>, by |-> by]
TableEdge(t, table, by) ==
    [kind |-> "table", src |-> t.src, line |-> t.line, dst |-> table, args |-> <<>>, by |-> by]

SitesWithRoute(edges) == {<<edges[i].src, edges[i].line>> : i \in {j \in DOMAIN edges : edges[j].kind = "http"}}

(* Mutant of Follow: a call site is linked although it carries a route. *)
FollowAgain(ws, edges, e) ==
    LET found == IF e.kind # "call" THEN {} ELSE Named(ws, e.dst)
        routes == IF found = {} THEN {} ELSE target(ws[Min(found)], e.args)
    IN edges \o SetToSeq({HttpEdge(e.src, e.line, r, "wrapper") : r \in routes})

(* One call edge: the first helper of its name gives it a route, unless its    *)
(* site already has one.                                                       *)
Follow(ws, edges, e) ==
    LET found == IF e.kind # "call" \/ <<e.src, e.line>> \in SitesWithRoute(edges) THEN {}
                 ELSE Named(ws, e.dst)
        routes == IF found = {} THEN {} ELSE target(ws[Min(found)], e.args)
    IN edges \o SetToSeq({HttpEdge(e.src, e.line, r, "wrapper") : r \in routes})

(* The calls are visited in order; the appended edges are not visited. *)
linkWrapperCalls(edges, ws) ==
    FoldLeft(LAMBDA acc, e : Follow(ws, acc, e), edges, edges)

-----------------------------------------------------------------------------
(* ParseFacts: a site with a route is an edge; the file's own helpers are      *)
(* followed at once; every site, and every call a helper explained, is a       *)
(* candidate, and so is every data access, whose table may be a constant of    *)
(* the file itself.                                                            *)
Emitted(sites) == SelectSeq(sites, LAMBDA s : s.path # NoRoute)

Direct(c) ==
    [i \in DOMAIN c.calls |-> CallEdge(c.calls[i])]
    \o [i \in DOMAIN Emitted(c.sites) |->
            LET s == Emitted(c.sites)[i] IN HttpEdge(s.unit, s.line, <<orAnyMethod(s.method), NoRoute, s.path>>, "site")]

DeclaredIn(consts, t) == {i \in DOMAIN consts : consts[i].name = t.ident}

ParseFacts(c) ==
    LET edges == linkWrapperCalls(Direct(c), wrappers(c.sites))
        added == Len(edges) - Len(Direct(c))
        own == SelectSeq(c.tables, LAMBDA t : DeclaredIn(c.consts, t) # {})
    IN [edges |-> edges \o [i \in DOMAIN own |->
                    TableEdge(own[i], c.consts[Min(DeclaredIn(c.consts, own[i]))].value, "site")],
        wrappers |-> wrappers(c.sites), consts |-> c.consts,
        tables |-> SelectSeq(c.tables, LAMBDA t : DeclaredIn(c.consts, t) = {}),
        http |-> [candidates |-> Len(c.sites) + added, edges |-> Len(Emitted(c.sites)) + added],
        db |-> [candidates |-> Len(c.tables), edges |-> Len(own)]]

NoFacts == [edges |-> <<>>, wrappers |-> <<>>, consts |-> <<>>, tables |-> <<>>,
            http |-> [candidates |-> 0, edges |-> 0], db |-> [candidates |-> 0, edges |-> 0]]

(* Mutant of Beside: helpers and constants of the whole batch are offered. *)
BesideAnywhere(f, batch) == SelectSeq(batch, LAMBDA g : TRUE)

(* The files of a batch in the directory of f, in the order of the batch. *)
Beside(f, batch) == SelectSeq(batch, LAMBDA g : DirOf[g] = DirOf[f])

(* Mutant of linkPackageWrappers: the sites found count as edges only. *)
linkPackageWrappersUncounted(f, batch, parsed) ==
    LET offered == FlattenSeq([i \in DOMAIN Beside(f, batch) |-> parsed[Beside(f, batch)[i]].wrappers])
        edges == linkWrapperCalls(parsed[f].edges, offered)
        added == Len(edges) - Len(parsed[f].edges)
    IN [parsed[f] EXCEPT !.edges = edges, !.http.edges = @ + added]

(* The first helper of a name in the directory is followed; a call it explains *)
(* becomes a candidate with an edge.                                           *)
linkPackageWrappers(f, batch, parsed) ==
    LET offered == FlattenSeq([i \in DOMAIN Beside(f, batch) |-> parsed[Beside(f, batch)[i]].wrappers])
        edges == linkWrapperCalls(parsed[f].edges, offered)
        added == Len(edges) - Len(parsed[f].edges)
    IN [parsed[f] EXCEPT !.edges = edges, !.http.candidates = @ + added, !.http.edges = @ + added]

(* The first declaration of a constant in the directory names the table of the *)
(* accesses that use it; they were candidates already.                         *)
linkPackageTables(f, batch, parsed) ==
    LET consts == FlattenSeq([i \in DOMAIN Beside(f, batch) |-> parsed[Beside(f, batch)[i]].consts])
        known == SelectSeq(parsed[f].tables, LAMBDA t : DeclaredIn(consts, t) # {})
    IN [parsed[f] EXCEPT
          !.edges = @ \o [i \in DOMAIN known |->
                        TableEdge(known[i], consts[Min(DeclaredIn(consts, known[i]))].value, "package")],
          !.db.edges = @ + Len(known)]

-----------------------------------------------------------------------------
PackageInit ==
    /\ pkg \in {c \in [PkgFiles -> UNION {PkgShapes[f] : f \in PkgFiles}] : \A f \in PkgFiles : c[f] \in PkgShapes[f]}
    /\ pkgEdges = [f \in PkgFiles |-> <<>>]
    /\ batchOf = [f \in PkgFiles |-> <<>>]
    /\ tally = [of |-> {}, http |-> NoFacts.http, db |-> NoFacts.db]
    /\ batches = 0

(* Index over one language's files of a batch: parse, complete each other,     *)
(* report, store.  A file that fails to parse offers nothing and keeps its     *)
(* edges.                                                                      *)
(* Each stage is bound by a singleton, so that TLC evaluates it once.          *)
IndexBatch(batch, bad) ==
    LET good == ToSet(batch) \ bad
        read == [f \in PkgFiles |-> IF f \in good THEN ParseFacts(pkg[f]) ELSE NoFacts]
    IN /\ batches < MaxBatches /\ batches' = batches + 1
       /\ \E parsed \in {read} :
          \E wrapped \in {[f \in PkgFiles |-> IF f \in bad THEN NoFacts ELSE linkPackageWrappers(f, batch, parsed)]} :
          \E linked \in {[f \in PkgFiles |-> IF f \in bad THEN NoFacts ELSE linkPackageTables(f, batch, wrapped)]} :
          /\ pkgEdges' = [f \in PkgFiles |-> IF f \in good THEN linked[f].edges ELSE pkgEdges[f]]
          /\ batchOf' = [f \in PkgFiles |-> IF f \in good THEN SelectSeq(batch, LAMBDA g : g \notin bad) ELSE batchOf[f]]
          /\ tally' = [of |-> good,
                       http |-> [candidates |-> MapThenSumSet(LAMBDA f : linked[f].http.candidates, good),
                                 edges |-> MapThenSumSet(LAMBDA f : linked[f].http.edges, good)],
                       db |-> [candidates |-> MapThenSumSet(LAMBDA f : linked[f].db.candidates, good),
                               edges |-> MapThenSumSet(LAMBDA f : linked[f].db.edges, good)]]
          /\ UNCHANGED pkg

PackageNext ==
    \E batch \in SUBSET PkgFiles : \E bad \in SUBSET batch :
        batch # {} /\ IndexBatch(SetToSortSeq(batch, <), bad)

-----------------------------------------------------------------------------
(* Properties *)

EdgesAt(f, kind, src, line) ==
    {i \in DOMAIN pkgEdges[f] : /\ pkgEdges[f][i].kind = kind
                               /\ pkgEdges[f][i].src = src /\ pkgEdges[f][i].line = line}

(* A function whose name may stand for the call it makes: a distinctive one, or *)
(* one whose callers name the route.                                           *)
Explains(s) ==
    /\ s.function /\ s.unit \notin ShortNames
    /\ IF s.path = NoRoute THEN s.url # NoParam ELSE s.unit \notin httpMethodNames

(* The routes the calls of f at a site reach through the first helper of their *)
(* name among files gs, the earliest call that reaches one.                    *)
Helper(gs, name) ==
    LET all == FlattenSeq([i \in DOMAIN gs |-> SelectSeq(pkg[gs[i]].sites, LAMBDA s : s.unit = name /\ Explains(s))])
    IN IF all = <<>> THEN {} ELSE {newWrapper(Head(all))}

Reached(f, gs, src, line) ==
    LET routes(i) == UNION {target(w, pkg[f].calls[i].args) : w \in Helper(gs, pkg[f].calls[i].dst)}
        here == {i \in DOMAIN pkg[f].calls :
                    pkg[f].calls[i].src = src /\ pkg[f].calls[i].line = line /\ routes(i) # {}}
    IN IF here = {} THEN {} ELSE routes(Min(here))

(* What the file and the files of its directory in its last batch say about a  *)
(* site: its own route, else what its own helpers make of it, else theirs.     *)
RoutesOf(f, src, line) ==
    LET own == {<<orAnyMethod(s.method), NoRoute, s.path>> :
                    s \in {t \in ToSet(pkg[f].sites) : t.path # NoRoute /\ t.unit = src /\ t.line = line}}
        inFile == Reached(f, <<f>>, src, line)
    IN IF own # {} THEN own
       ELSE IF inFile # {} THEN inFile
       ELSE Reached(f, Beside(f, batchOf[f]), src, line)

(* A call site carries the route that its file, or else the files of its own   *)
(* directory, give it, once, however often and beside whatever files it is     *)
(* parsed ("a call site that already carries an http_call is skipped",         *)
(* linkPackageWrappers); following it again adds nothing.  The coverage a      *)
(* batch reports is that of its edges: the gap is exactly the sites and        *)
(* accesses left without one ("Edges must never exceed Candidates").           *)
PackageLinked ==
    /\ \A f \in PkgFiles : batchOf[f] # <<>> =>
        /\ \A c \in ToSet(pkg[f].calls) \cup {[src |-> s.unit, line |-> s.line] : s \in ToSet(pkg[f].sites)} :
              LET found == EdgesAt(f, "http", c.src, c.line)
              IN /\ {pkgEdges[f][i].dst : i \in found} = RoutesOf(f, c.src, c.line)
                 /\ Cardinality(found) <= 1
        /\ linkWrapperCalls(pkgEdges[f], wrappers(FlattenSeq([i \in DOMAIN Beside(f, batchOf[f]) |->
                                                   pkg[Beside(f, batchOf[f])[i]].sites]))) = pkgEdges[f]
        /\ \A i \in DOMAIN pkgEdges[f] : pkgEdges[f][i].kind = "table" =>
              \E g \in ToSet(batchOf[f]) : /\ DirOf[g] = DirOf[f]
                                          /\ \E k \in ToSet(pkg[g].consts) : k.value = pkgEdges[f][i].dst
    /\ LET Stored(kind) == MapThenSumSet(LAMBDA f : Cardinality({i \in DOMAIN pkgEdges[f] : pkgEdges[f][i].kind = kind}), tally.of)
           Unexplained == MapThenSumSet(LAMBDA f : Cardinality({i \in DOMAIN pkg[f].sites : pkg[f].sites[i].path = NoRoute}), tally.of)
           Accesses == MapThenSumSet(LAMBDA f : Len(pkg[f].tables), tally.of)
       IN /\ tally.http.edges = Stored("http") /\ tally.http.candidates - tally.http.edges = Unexplained
          /\ tally.db.edges = Stored("table") /\ tally.db.candidates = Accesses
=============================================================================
