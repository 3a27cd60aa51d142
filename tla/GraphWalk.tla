------------------------------ MODULE GraphWalk ------------------------------
(***************************************************************************)
(* Walks over the linked code graph (internal/graph/graph.go, trace.go):   *)
(* Path, a breadth-first search between two units; Trace, a depth-first    *)
(* search that follows a parameter through calls, contracts and tables     *)
(* and keeps the best chains; Expand, the units around a unit; and         *)
(* ServicesGraph, the links between services.                              *)
(*                                                                         *)
(* A unit has a kind and a service, an edge its ends, a kind, the          *)
(* identifier passed along it, the name the far side knows it by and a     *)
(* confidence.                                                             *)
(***************************************************************************)
EXTENDS Integers, Sequences, FiniteSets, SequencesExt

CONSTANTS
    EdgePool,           \* edges a graph may have, in store order
    Kind, ServiceOf,    \* unit -> its kind, its service
    MaxDepth,           \* maxDepth of both walks
    MaxExpansions,      \* maxExpansions
    MaxChains,          \* maxCompletedChains
    MaxAliasDepth,      \* maxAliasDepth
    MaxHops,            \* Expand's hops
    MaxRelated,         \* maxRelated
    Aliases             \* local alias -> the identifier it stands for

ASSUME GraphWalkAssumption == {MaxDepth, MaxExpansions, MaxChains, MaxAliasDepth, MaxHops, MaxRelated} \subseteq Nat \ {0}

WalkUnits == DOMAIN Kind
StartUnit == 1

VARIABLES
    known,      \* the numbers of the pool's edges that this graph has
    walk,       \* "path", "trace" or "related"
    pending,    \* the queue of Path and Expand, Trace's call stack: partial walks
    visited,    \* Path, Expand: units seen;  Trace: chains found, evicted ones included
    expansions,
    completed,  \* Trace: the chains kept;  Expand: the units met: [steps, truncated]
    goal,       \* Path: the unit looked for
    found       \* [how, chain]: how the walk ended and with what

walkVars == <<known, walk, pending, visited, expansions, completed, goal, found>>

TraceAnswer(how, steps, truncated) == [how |-> how, chain |-> [steps |-> steps, truncated |-> truncated]]
Searching == TraceAnswer("none", <<>>, FALSE)

Edges == SelectSeq(EdgePool, LAMBDA e : e.no \in known)
Out(u) == SelectSeq(Edges, LAMBDA e : e.src = u)
Into(u, kind) == SelectSeq(Edges, LAMBDA e : e.dst = u /\ e.kind = kind)

-----------------------------------------------------------------------------
(* Graph.expand: out-edges, and a contract's implementations in reverse.         *)
SuccessorsForward(u) ==
    [i \in DOMAIN Out(u) |-> [unit |-> Out(u)[i].dst, via |-> Out(u)[i].kind]]

Successors(u) ==
    LET forward == SelectSeq(Out(u), LAMBDA e : e.kind # "implements_rpc")
        impls == IF Kind[u] = "rpc_method" THEN Into(u, "implements_rpc") ELSE <<>>
    IN [i \in DOMAIN forward |-> [unit |-> forward[i].dst, via |-> forward[i].kind]]
       \o [i \in DOMAIN impls |-> [unit |-> impls[i].src, via |-> "implements_rpc"]]

(* One item of Path's queue: too long, the goal, or its unseen successors.       *)
FirstOfEach(steps) ==
    SelectSeq([i \in DOMAIN steps |-> [step |-> steps[i], i |-> i]],
              LAMBDA x : /\ x.step.unit \notin visited
                         /\ \A j \in 1 .. x.i - 1 : steps[j].unit # x.step.unit)

PathStep ==
    /\ walk = "path" /\ found = Searching
    /\ pending # <<>>
    /\ LET item == Head(pending)
           fresh == FirstOfEach(Successors(Last(item).unit))
           longer == [i \in DOMAIN fresh |-> Append(item, fresh[i].step)]
           hits == SelectSeq(longer, LAMBDA p : Last(p).unit = goal)
       IN CASE Len(item) > MaxDepth ->
                    /\ pending' = Tail(pending)
                    /\ UNCHANGED <<visited, found>>
            [] Len(item) <= MaxDepth /\ Last(item).unit = goal ->
                    /\ found' = TraceAnswer("path", item, FALSE)
                    /\ UNCHANGED <<pending, visited>>
            [] Len(item) <= MaxDepth /\ Last(item).unit # goal /\ hits # <<>> ->
                    /\ found' = TraceAnswer("path", hits[1], FALSE)
                    /\ UNCHANGED <<pending, visited>>
            [] OTHER ->
                    /\ pending' = Tail(pending) \o longer
                    /\ visited' = visited \cup {Last(p).unit : p \in ToSet(longer)}
                    /\ UNCHANGED found
    /\ UNCHANGED <<known, walk, expansions, completed, goal>>

PathNotFound ==
    /\ walk = "path" /\ found = Searching /\ pending = <<>>
    /\ found' = TraceAnswer("not found", <<>>, FALSE)
    /\ UNCHANGED <<known, walk, pending, visited, expansions, completed, goal>>

-----------------------------------------------------------------------------
(* Expand: level by level, what a unit leads to and then what leads to it, until *)
(* the hops are used up or the answer is full.                                   *)
Around(u) ==
    LET into == SelectSeq(Edges, LAMBDA e : e.dst = u)
    IN Successors(u) \o [i \in DOMAIN into |-> [unit |-> into[i].src, via |-> into[i].kind]]

Expanding == pending # <<>> /\ Len(Head(pending)) <= MaxHops /\ Len(completed) < MaxRelated

Expand ==
    /\ walk = "related" /\ found = Searching
    /\ Expanding
    /\ LET item == Head(pending)
           fresh == FirstOfEach(Around(Last(item).unit))
           longer == [i \in DOMAIN fresh |-> Append(item, fresh[i].step)]
       IN /\ pending' = Tail(pending) \o longer
          /\ visited' = visited \cup {Last(p).unit : p \in ToSet(longer)}
          /\ completed' = completed \o [i \in DOMAIN longer |-> [steps |-> longer[i], truncated |-> FALSE]]
    /\ UNCHANGED <<known, walk, expansions, goal, found>>

ExpandEnds ==
    /\ walk = "related" /\ found = Searching
    /\ ~Expanding
    /\ completed' = SubSeq(completed, 1, IF Len(completed) > MaxRelated THEN MaxRelated ELSE Len(completed))
    /\ found' = TraceAnswer("related", <<>>, FALSE)
    /\ UNCHANGED <<known, walk, pending, visited, expansions, goal>>

-----------------------------------------------------------------------------
(* ServicesGraph: the edges between units of two services, a contract standing   *)
(* for its most confident implementation, the first of equals.                   *)
LinkKinds == {"rpc_call", "http_call", "kafka_flow", "runtime_call"}

implOf(u) ==
    LET impls == Into(u, "implements_rpc")
        best == CHOOSE i \in DOMAIN impls : \A j \in DOMAIN impls :
                    impls[j].conf <= impls[i].conf /\ (j < i => impls[j].conf < impls[i].conf)
    IN IF Kind[u] = "rpc_method" /\ impls # <<>> THEN impls[best].src ELSE u

LinkOf(e) == [src |-> ServiceOf[e.src], dst |-> ServiceOf[implOf(e.dst)], kind |-> e.kind]

ServicesGraph == {l \in {LinkOf(e) : e \in {e \in ToSet(Edges) : e.kind \in LinkKinds}} : l.src # l.dst}

-----------------------------------------------------------------------------
(* exprMatchesAliased: the expression itself, then what its tokens stand for,    *)
(* level by level, each token once.                                              *)
exprMatchesAliased(tok, tracked) ==
    LET Level[d \in 0 .. MaxAliasDepth] ==
            IF d = 0 THEN {tok}
            ELSE {Aliases[t] : t \in Level[d - 1] \cap DOMAIN Aliases}
    IN \E d \in 0 .. MaxAliasDepth : tracked \in Level[d]

(* tracer.expand: contract nodes structurally, the rest where the tracked        *)
(* identifier is passed; a flow passes it on when the payload is unknown.        *)
Hop(unit, tracked, via) == [unit |-> unit, tracked |-> tracked, via |-> via]

OneReaderEach(edges) ==
    SelectSeq([i \in DOMAIN edges |-> [e |-> edges[i], i |-> i]],
              LAMBDA x : \A j \in 1 .. x.i - 1 : edges[j].src # x.e.src)

tableReaders(u, tracked) ==
    LET readers == OneReaderEach(Into(u, "reads_from"))
    IN [i \in DOMAIN readers |-> Hop(readers[i].e.src, tracked, "reads_from")]

Follows(e, tracked) ==
    \/ e.kind \in {"call", "rpc_call", "http_call", "writes_to"} /\ exprMatchesAliased(e.arg, tracked)
    \/ e.kind = "kafka_flow"

NextTracked(e, tracked) == IF exprMatchesAliased(e.arg, tracked) THEN e.as ELSE tracked

Hops(u, tracked) ==
    CASE Kind[u] = "rpc_method" ->
            [i \in DOMAIN Into(u, "implements_rpc") |->
                Hop(Into(u, "implements_rpc")[i].src, tracked, "implements_rpc")]
      [] Kind[u] = "http_route" ->
            LET handlers == SelectSeq(Out(u), LAMBDA e : e.kind = "handled_by")
            IN [i \in DOMAIN handlers |-> Hop(handlers[i].dst, tracked, "handled_by")]
      [] Kind[u] = "db_table" -> tableReaders(u, tracked)
      [] OTHER ->
            LET taken == SelectSeq(Out(u), LAMBDA e : Follows(e, tracked))
            IN [i \in DOMAIN taken |-> Hop(taken[i].dst, NextTracked(taken[i], tracked), taken[i].kind)]

(* betterTraceChain: a chain that reached a sink, more service crossings, longer. *)
crossings(steps) == Len(SelectSeq(steps, LAMBDA s : s.via \in {"rpc_call", "http_call", "kafka_flow"}))

betterTraceChain(a, b) ==
    IF a.truncated # b.truncated THEN ~a.truncated
    ELSE \/ crossings(a.steps) > crossings(b.steps)
         \/ crossings(a.steps) = crossings(b.steps) /\ Len(a.steps) > Len(b.steps)

(* finish: a new chain is kept while there is room, else it evicts the worst one *)
(* if it is better.                                                              *)
Key(steps) == [i \in DOMAIN steps |-> <<steps[i].unit, steps[i].tracked>>]

Worst ==
    FoldLeft(LAMBDA w, i : IF betterTraceChain(completed[w], completed[i]) THEN i ELSE w, 1,
             [i \in DOMAIN completed |-> i])

keepFirst(chain) ==
    completed' = IF Len(completed) < MaxChains THEN Append(completed, chain) ELSE completed

keep(chain) ==
    completed' = CASE Len(completed) < MaxChains -> Append(completed, chain)
                   [] /\ Len(completed) >= MaxChains
                      /\ betterTraceChain(chain, completed[Worst]) -> [completed EXCEPT ![Worst] = chain]
                   [] OTHER -> completed

finish(steps, truncated) ==
    LET chain == [steps |-> steps, truncated |-> truncated]
    IN IF Len(steps) <= 1 \/ \E c \in visited : Key(c.steps) = Key(steps)
       THEN UNCHANGED <<visited, completed>>
       ELSE visited' = visited \cup {chain} /\ keep(chain)

(* One call of dfs; its recursive calls are pushed in hop order.                 *)
OnPath(steps) ==
    \E i \in 1 .. Len(steps) - 1 : Key(steps)[i] = Key(steps)[Len(steps)]

dfs ==
    /\ walk = "trace" /\ found = Searching
    /\ pending # <<>>
    /\ LET steps == Head(pending)
           hops == Hops(Last(steps).unit, Last(steps).tracked)
           limit == Len(steps) > MaxDepth \/ (~OnPath(steps) /\ expansions >= MaxExpansions)
       IN IF limit \/ OnPath(steps)
          THEN /\ finish(steps, limit)
               /\ pending' = Tail(pending)
               /\ UNCHANGED expansions
          ELSE /\ expansions' = expansions + 1
               /\ pending' = [i \in DOMAIN hops |-> Append(steps, hops[i])] \o Tail(pending)
               /\ IF hops = <<>> THEN finish(steps, FALSE) ELSE UNCHANGED <<visited, completed>>
    /\ UNCHANGED <<known, walk, goal, found>>

(* Trace: the best of the chains kept, by a stable sort, or the start alone.     *)
TraceEnds ==
    /\ walk = "trace" /\ found = Searching /\ pending = <<>>
    /\ found' = IF completed = <<>> THEN TraceAnswer("start only", <<>>, FALSE)
                ELSE LET best == CHOOSE i \in DOMAIN completed :
                                     /\ \A j \in DOMAIN completed : ~betterTraceChain(completed[j], completed[i])
                                     /\ \A j \in 1 .. i - 1 : betterTraceChain(completed[i], completed[j])
                     IN [how |-> "chain", chain |-> completed[best]]
    /\ UNCHANGED <<known, walk, pending, visited, expansions, completed, goal>>

-----------------------------------------------------------------------------
WalkInit ==
    /\ known \in SUBSET (DOMAIN EdgePool)
    /\ walk \in {"path", "trace", "related"}
    /\ pending = <<<<[unit |-> StartUnit, tracked |-> "p", via |-> "start"]>>>>
    /\ visited = IF walk = "trace" THEN {} ELSE {StartUnit}
    /\ expansions = 0
    /\ completed = <<>>
    /\ goal \in IF walk = "path" THEN WalkUnits ELSE {StartUnit}
    /\ found = Searching

WalkNext == PathStep \/ PathNotFound \/ Expand \/ ExpandEnds \/ dfs \/ TraceEnds

-----------------------------------------------------------------------------
(* The units reachable in at most n hops, for reference.                         *)
Within(n) ==
    FoldLeft(LAMBDA near, i : near \cup {s.unit : s \in UNION {ToSet(Successors(u)) : u \in near}},
             {StartUnit}, [i \in 1 .. n |-> i])

PathAnswers ==
    (walk = "path" /\ found # Searching) =>
        IF found.how = "not found" THEN goal \notin Within(MaxDepth)
        ELSE /\ Last(found.chain.steps).unit = goal
             /\ \A n \in 0 .. MaxDepth : goal \in Within(n) => Len(found.chain.steps) <= n + 1
             /\ \A i \in 2 .. Len(found.chain.steps) :
                   \E s \in ToSet(Successors(found.chain.steps[i - 1].unit)) : s.unit = found.chain.steps[i].unit

TraceAnswers ==
    (walk = "trace" /\ found # Searching) =>
        IF found.how = "start only" THEN visited = {}
        ELSE \A c \in visited : ~betterTraceChain(c, found.chain)

(* The units at most n hops away in either direction, for reference.             *)
Near(n) ==
    FoldLeft(LAMBDA near, i : near \cup {s.unit : s \in UNION {ToSet(Around(u)) : u \in near}},
             {StartUnit}, [i \in 1 .. n |-> i])

RelatedAnswers ==
    (walk = "related" /\ found # Searching) =>
        /\ \A i, j \in DOMAIN completed : i # j => Last(completed[i].steps).unit # Last(completed[j].steps).unit
        /\ \A i \in DOMAIN completed :
              \A n \in 0 .. MaxHops : Last(completed[i].steps).unit \in Near(n) => Len(completed[i].steps) <= n + 1
        /\ \A u \in Near(MaxHops) \ {StartUnit} :
              Len(completed) < MaxRelated => \E i \in DOMAIN completed : Last(completed[i].steps).unit = u

(* What a walk answers is the best there is.  Path finds a shortest path of real *)
(* hops, and "not found" means none within the depth.  Expand meets each unit    *)
(* once, at its distance, and misses none that fits.  No chain Trace came        *)
(* across is better than the one it returns, though it keeps only a few: "At     *)
(* maxCompletedChains the best chains are kept rather than the first ones        *)
(* found", and a walk cut off at a limit never hides one that reached a sink.    *)
WalkAnswersBest == PathAnswers /\ RelatedAnswers /\ TraceAnswers

(* A link of the service graph can be walked: some unit of the one service       *)
(* reaches one of the other over an edge of the link's kind, in one hop or, when *)
(* the edge ends at a contract, in two.  ServicesGraph and expand each decide    *)
(* what implements a contract, from the same implements_rpc edges.               *)
LinksAreWalkable ==
    \A l \in ServicesGraph : \E u \in WalkUnits : \E s \in ToSet(Successors(u)) :
        /\ ServiceOf[u] = l.src /\ s.via = l.kind
        /\ \/ ServiceOf[s.unit] = l.dst
           \/ \E t \in ToSet(Successors(s.unit)) : t.via = "implements_rpc" /\ ServiceOf[t.unit] = l.dst

(* What the graph queries promise: the best answer within their bounds, made   *)
(* of edges that can be walked.                                                *)
WalksSound == WalkAnswersBest /\ LinksAreWalkable
=============================================================================
