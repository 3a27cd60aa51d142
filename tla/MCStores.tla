------------------------------ MODULE MCStores ------------------------------
(* What the service stores and finds, part by part: the linker's lookups and   *)
(* the package stage before it, the graph and the walks over it, the           *)
(* relational store, search, unit queries, the vector store, the two passes    *)
(* over language servers and enrichment.  They share no state in these models, *)
(* so a behaviour moves one of them, chosen at the start, and the state space  *)
(* is the sum of theirs; the parts at rest stay in one initial state.          *)
EXTENDS LinkLookups, MCGraph, SqlStore, Retrieval, UnitLookup,
        VectorStore, Refiners, Enrichment, PackageLinks

VARIABLE part

Parts == {"lookups", "graph", "walk", "store", "search", "units", "vectors",
          "refiner", "enrichment", "package", "symbols"}

------------------------------------------------------------------------------
(* Inputs.  Retrieval: three chunks of one file and one of another repository, *)
(* whose units call, handle, publish and consume each other's contracts.       *)
Doc(r, f, a, b, v, k) == [repo |-> r, file |-> f, from |-> a, to |-> b, vector |-> v, bm25 |-> k]
MCDocs == <<Doc(1, 1, 1, 2, 2, 1), Doc(1, 1, 4, 5, 1, 2), Doc(1, 1, 2, 4, 1, 1), Doc(2, 2, 1, 2, 2, 2)>>

SearchUnit(r, f, a, b, k, y) == [repo |-> r, file |-> f, from |-> a, to |-> b, kind |-> k, key |-> y]
MCUnits == <<SearchUnit(1, 1, 1, 2, "http_route", "k1"), SearchUnit(1, 1, 4, 5, "function", "f"),
             SearchUnit(2, 2, 1, 3, "rpc_method", "k2")>>

GraphEdge(r, f, l, k, s, d, y, t, c) ==
    [repo |-> r, file |-> f, from |-> l, kind |-> k, src |-> s, dst |-> d, key |-> y, test |-> t, conf |-> c]
MCGraphEdges ==
    <<GraphEdge(1, 1, 1, "handled_by", 1, 2, "f", FALSE, 90),
      GraphEdge(2, 2, 2, "http_call", 3, 1, "k1", FALSE, 80),
      GraphEdge(2, 2, 3, "call", 3, 2, "f", FALSE, 90),
      GraphEdge(1, 1, 5, "rpc_call", 2, 3, "k2", FALSE, 70),
      GraphEdge(1, 3, 1, "call", 2, 0, "k1", TRUE, 50),
      GraphEdge(2, 2, 3, "implements_rpc", 3, 3, "k2", FALSE, 60),
      GraphEdge(1, 1, 4, "produces", 2, 0, "k3", FALSE, 90),
      GraphEdge(2, 2, 1, "consumes", 3, 0, "k3", FALSE, 90)>>

Question(r, i, n, k, p, d, u) ==
    [repos |-> r, intent |-> i, named |-> n, keys |-> k, rpc |-> p, described |-> d, uses |-> u]
MCQuestions ==
    {Question({}, "none", {}, <<>>, FALSE, {}, {}),
     Question({1}, "callers", {1}, <<>>, FALSE, {"k2"}, {}),
     Question({}, "", {}, <<"k1", "k3">>, TRUE, {"k2", "k3"}, {"consumes", "produces"}),
     Question({2}, "callers", {}, <<"k3">>, FALSE, {"k1"}, {"consumes"})}

(* UnitLookup: rows that tie, match by either name, or only as a fallback.     *)
PoolUnit(r, n, q, p, l) == [repo |-> r, name |-> n, qualified |-> q, penalty |-> p, length |-> l]
MCUnitPool == <<PoolUnit(1, "has", "is", 0, 3), PoolUnit(1, "has", "has", 0, 2),
                PoolUnit(1, "is", "is", 1, 1), PoolUnit(1, "has", "has", 1, 1),
                PoolUnit(2, "is", "has", 0, 1)>>
MCLookups == [terms : {{}, {{"name"}}, {{"name", "qualified"}}}, repos : {{}, {1}},
              fallback : BOOLEAN, limit : {0, 1, 3}]

(* Enrichment: two files of one base name; a second version shifts the first   *)
(* symbol down a line.                                                         *)
MCShape == << << <<"s">>, <<"u", "s">> >>, << <<"r">>, <<"t", "r">> >> >>
MCServiceOfFile == <<"x", "x">>
MCBaseName == <<"m", "m">>

(* PackageLinks: a file of helpers, a file of callers beside it that may have   *)
(* helpers of its own, and a file of another directory.                        *)
Site(u, fn, l, p, m, a, v, x) ==
    [unit |-> u, function |-> fn, line |-> l, path |-> p, method |-> m, url |-> a, via |-> v, prefix |-> x]
SiteCall(s, l, d, a) == [src |-> s, line |-> l, dst |-> d, args |-> a]
Content(s, c, k, t) == [sites |-> s, calls |-> c, consts |-> k, tables |-> t]
Const(n, v) == [name |-> n, value |-> v]
Access(i) == [src |-> "list", line |-> 9, ident |-> i]

HelperSites ==
    {Site("api", TRUE, 1, "/r", "POST", NoParam, NoParam, ""), Site("api", TRUE, 1, "", "", 1, 2, "/v2"),
     Site("api", FALSE, 1, "/r", "", NoParam, NoParam, ""), Site("get", TRUE, 1, "/g", "", NoParam, NoParam, ""),
     Site("get", TRUE, 1, "", "", 1, NoParam, ""), Site("do", TRUE, 1, "/d", "", NoParam, NoParam, ""),
     Site("api", TRUE, 1, "", "", NoParam, NoParam, "")}

MCPkgShapes ==
    <<{Content(<<s>>, <<>>, <<Const("T", "orders")>>, <<>>) : s \in HelperSites},
      {Content(own, made, <<>>, <<Access("T"), Access("U")>>) :
          own \in {<<>>, <<Site("api", TRUE, 5, "", "", 2, NoParam, "")>>,
                   <<Site("list", TRUE, 7, "/z", "", NoParam, NoParam, "")>>},
          made \in {<<SiteCall("list", 6, "api", <<"/x", "POST">>), SiteCall("list", 6, "get", <<"/y">>)>>,
                     <<SiteCall("list", 6, "api", <<"e", "/y">>), SiteCall("list", 6, "api", <<"/x">>),
                       SiteCall("list", 7, "api", <<"/x", "e">>)>>,
                     <<SiteCall("list", 7, "get", <<"k">>), SiteCall("list", 8, "do", <<"/x">>)>>}},
      {Content(<<Site("api", TRUE, 1, "/w", "", NoParam, NoParam, "")>>, <<SiteCall("all", 3, "api", <<>>)>>,
               <<Const("T", "users")>>, <<Access("T")>>)}>>
MCDirOf == <<"d", "d", "e">>

(* SymbolRefiner: two languages with a server, one file that changes, names    *)
(* spelt with parameters, nested, repeated and of kinds that do not count.     *)
SymName(b, p) == [base |-> b, params |-> p]
Sym(b, p, k, c) == [name |-> SymName(b, p), kind |-> k, children |-> c]
SymFile(l, p, r) == [lang |-> l, parsed |-> p, reported |-> r]
MCSymFiles ==
    <<SymFile("go", << <<SymName("a", FALSE)>>, <<SymName("b", FALSE)>> >>,
              << <<Sym("a", FALSE, 12, <<>>),
                   Sym("T", FALSE, 5, <<Sym("b", TRUE, 6, <<>>), Sym("c", FALSE, 6, <<>>)>>)>>,
                 <<Sym("b", TRUE, 12, <<>>), Sym("c", FALSE, 12, <<>>), Sym("c", TRUE, 9, <<>>)>> >>),
      SymFile("go", << <<>> >>, << <<Sym("v", FALSE, 13, <<>>), Sym("d", FALSE, 12, <<>>)>> >>),
      SymFile("java", << <<SymName("e", FALSE)>> >>, << <<Sym("e", TRUE, 6, <<>>), Sym("g", TRUE, 9, <<>>)>> >>),
      SymFile("python", << <<SymName("h", FALSE)>> >>, << <<>> >>)>>
MCLangOrder == <<"go", "java">>

------------------------------------------------------------------------------
(* Where a part with many initial states rests while another one moves.        *)
Rests(p) ==
    CASE p = "search" -> ask = Question({}, "none", {}, <<>>, FALSE, {}, {}) /\ active = {} /\ mode = "keyword"
      [] p = "walk" -> known = {} /\ walk = "related"
      [] p = "refiner" -> boundary = {} /\ callEdges = <<>> /\ answers = [i \in {1, 2} |-> {}]
      [] p = "package" -> pkg = [f \in PkgFiles |-> CHOOSE c \in PkgShapes[f] : TRUE]

MovesOrRests(p) == IF part = p THEN TRUE ELSE Rests(p)

Init ==
    /\ part \in Parts
    /\ MatchInit /\ GraphInit /\ StoreInit /\ LookupInit /\ VectorInit /\ EnrichInit
    /\ SymbolInit
    /\ MovesOrRests("search") /\ SearchInit
    /\ MovesOrRests("walk") /\ WalkInit
    /\ MovesOrRests("refiner") /\ RefinerInit
    /\ MovesOrRests("package") /\ PackageInit

(* Every part but p stays as it is.                                            *)
Only(p) ==
    /\ part = p /\ UNCHANGED part
    /\ IF p = "lookups" THEN TRUE ELSE UNCHANGED matchVars
    /\ IF p = "graph" THEN TRUE ELSE UNCHANGED graphVars
    /\ IF p = "walk" THEN TRUE ELSE UNCHANGED walkVars
    /\ IF p = "store" THEN TRUE ELSE UNCHANGED storeVars
    /\ IF p = "search" THEN TRUE ELSE UNCHANGED searchVars
    /\ IF p = "units" THEN TRUE ELSE UNCHANGED lookupVars
    /\ IF p = "vectors" THEN TRUE ELSE UNCHANGED vectorVars
    /\ IF p = "refiner" THEN TRUE ELSE UNCHANGED refinerVars
    /\ IF p = "enrichment" THEN TRUE ELSE UNCHANGED enrichVars
    /\ IF p = "package" THEN TRUE ELSE UNCHANGED packageVars
    /\ IF p = "symbols" THEN TRUE ELSE UNCHANGED symbolVars

Next ==
    \/ Only("lookups") /\ MatchNext
    \/ Only("graph") /\ GraphNext
    \/ Only("walk") /\ WalkNext
    \/ Only("store") /\ StoreNext
    \/ Only("search") /\ SearchNext
    \/ Only("units") /\ LookupNext
    \/ Only("vectors") /\ VectorNext
    \/ Only("refiner") /\ RefinerNext
    \/ Only("enrichment") /\ EnrichNext
    \/ Only("package") /\ PackageNext
    \/ Only("symbols") /\ SymbolNext

------------------------------------------------------------------------------
(* Properties of parts that belong together *)

(* Both ways the graph joins what two files say: the linker's lookups do not   *)
(* depend on load order and find what a scan would (LookupsSound of            *)
(* LinkLookups), and the package stage gives a call site its own directory's   *)
(* route, once, counted once (PackageLinked of PackageLinks).                  *)
LinkingSound == LookupsSound /\ PackageLinked
=============================================================================
