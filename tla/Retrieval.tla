------------------------------ MODULE Retrieval ------------------------------
(***************************************************************************)
(* One search request: scope, retrieval, fusion, ranking and the answers   *)
(* of the code graph put in front (internal/app/service.go Search,         *)
(* internal/search/hybrid.go, internal/app/promote).                       *)
(*                                                                         *)
(* A hit is a place (repository, file, lines) with a score.  What the      *)
(* question says is abstracted to what its patterns extract from it: the   *)
(* callers intent, the units and contract keys it names, the keys it       *)
(* describes and the side of them it asks for.  Scores are integers with   *)
(* the order and the ties the floats have: reciprocal ranks are scaled by  *)
(* RankScale, normalised scores by ScoreScale.                             *)
(***************************************************************************)
EXTENDS Integers, Sequences, FiniteSets, SequencesExt, FiniteSetsExt

CONSTANTS
    Docs,           \* documents: [repo, file, from, to, vector, bm25], the last two their raw scores
    Units,          \* AST units: [repo, file, from, to, kind, key]
    GraphEdges,     \* edges in store order: [repo, file, from, kind, src, dst, key, test, conf]
    Questions,      \* [repos, intent, named, keys, rpc, described, uses]
    SearchRepos,    \* the registered repositories
    TopN,           \* topN of the reranker
    HitLimit,       \* q.Limit
    EdgeLimit,      \* callerEdgeLimit, contractEdgeLimit
    MaxPromoted     \* maxPromotedCallers, maxPromotedContracts, maxPromotedContractUses

ASSUME RetrievalAssumption == {TopN, HitLimit, EdgeLimit, MaxPromoted} \subseteq Nat \ {0}

Searchers == <<"vector", "bm25">>       \* searchOrder
RankScale == 2 * 61 * 62 * 63 * 64
ScoreScale == 24

VARIABLES
    ask,        \* the question
    active,     \* the active repositories
    scope,      \* q.Repos once resolved; {}: everywhere
    fusion,     \* "rrf" or "convex": the configured method
    mode,       \* "hybrid", "semantic" or "keyword"
    outcomes,   \* per searcher: "none", "failed" or its hits in order
    hits,       \* the list so far
    step        \* the stage the request has reached

searchVars == <<ask, active, scope, fusion, mode, outcomes, hits, step>>

Place(x) == [repo |-> x.repo, file |-> x.file, from |-> x.from, to |-> x.to]
Scored(x, s) == [repo |-> x.repo, file |-> x.file, from |-> x.from, to |-> x.to, score |-> s]
AtLine(e) == [repo |-> e.repo, file |-> e.file, from |-> e.from, to |-> e.from]

(* Hit.Overlaps.                                                                 *)
Overlaps(a, b) == a.repo = b.repo /\ a.file = b.file /\ a.from <= b.to /\ b.from <= a.to
InScope(repo) == scope = {} \/ repo \in scope

(* sortHits: score, then place.                                                  *)
sortHits(s) ==
    SortSeq(s, LAMBDA a, b :
        \/ a.score > b.score
        \/ a.score = b.score /\ a.repo < b.repo
        \/ a.score = b.score /\ a.repo = b.repo /\ a.file < b.file
        \/ a.score = b.score /\ a.repo = b.repo /\ a.file = b.file /\ a.from < b.from)

-----------------------------------------------------------------------------
(* Search: the scope is resolved before anything reads it.                       *)
ResolveScope ==
    /\ step = "scope"
    /\ IF ask.repos # {}
       THEN scope' = ask.repos /\ step' = "retrieve"
       ELSE /\ scope' = IF active = SearchRepos THEN {} ELSE active
            /\ step' = IF active = {} THEN "served" ELSE "retrieve"
    /\ UNCHANGED <<ask, active, fusion, mode, outcomes, hits>>

Asked == CASE mode = "semantic" -> {"vector"} [] mode = "keyword" -> {"bm25"} [] OTHER -> {"vector", "bm25"}

(* candidateQuery: enough candidates to fill the rerank window.                  *)
CandidateLimit == IF TopN > HitLimit THEN TopN ELSE HitLimit

(* A searcher answers with documents of the scope, in any order; the order is    *)
(* settled by score.  It may fail.                                               *)
SearcherAnswers(typ) ==
    /\ step = "retrieve" /\ typ \in Asked /\ outcomes[typ] = "none"
    /\ \E found \in SUBSET {d \in DOMAIN Docs : InScope(Docs[d].repo)} :
          /\ Cardinality(found) <= CandidateLimit
          /\ outcomes' = [outcomes EXCEPT ![typ] =
                sortHits([i \in 1 .. Cardinality(found) |->
                    LET d == SetToSeq(found)[i] IN Scored(Docs[d], 2 * Docs[d][typ])])]
    /\ UNCHANGED <<ask, active, scope, fusion, mode, hits, step>>

SearcherFails(typ) ==
    /\ step = "retrieve" /\ typ \in Asked /\ outcomes[typ] = "none"
    /\ outcomes' = [outcomes EXCEPT ![typ] = "failed"]
    /\ UNCHANGED <<ask, active, scope, fusion, mode, hits, step>>

-----------------------------------------------------------------------------
(* fuseBy: a hit joins the cluster of its place, or the first overlapping one    *)
(* its source has not contributed to; the best rank gives a cluster its hit.     *)
fuseRRF(rank) == RankScale \div (60 + rank)
fuseConvex(s, found) == (ScoreScale * s) \div Max({h.score : h \in ToSet(found)})

Cluster(h, rank, src, s) == [hit |-> h, key |-> Place(h), best |-> rank, sources |-> {src}, score |-> s]

FirstWhere(n, P(_)) == IF \E i \in 1 .. n : P(i) THEN Min({i \in 1 .. n : P(i)}) ELSE 0

JoinCluster(cs, h, rank, src, s) ==
    LET same == FirstWhere(Len(cs), LAMBDA i : cs[i].key = Place(h))
        over == FirstWhere(Len(cs), LAMBDA i : src \notin cs[i].sources /\ Overlaps(cs[i].hit, h))
        at == IF same # 0 THEN same ELSE over
    IN IF at = 0 THEN Append(cs, Cluster(h, rank, src, s))
       ELSE [cs EXCEPT ![at] =
               [@ EXCEPT !.hit = IF rank < cs[at].best THEN h ELSE @,
                         !.best = IF rank < @ THEN rank ELSE @,
                         !.sources = @ \cup {src}, !.score = @ + s]]

fuseBy(lists) ==
    LET Joined(cs, typ) ==
            FoldLeft(LAMBDA c, i :
                        JoinCluster(c, lists[typ][i], i, typ,
                                    IF fusion = "rrf" THEN fuseRRF(i)
                                    ELSE fuseConvex(lists[typ][i].score, lists[typ])),
                     cs, [i \in DOMAIN lists[typ] |-> i])
        answered == SelectSeq(Searchers, LAMBDA t : lists[t] # "failed")
        clusters == FoldLeft(Joined, <<>>, answered)
    IN sortHits([i \in DOMAIN clusters |-> Scored(clusters[i].hit, clusters[i].score)])

(* Candidates and CandidatesFrom: a search fails when every searcher it asked    *)
(* does.                                                                         *)
FusedCandidates ==
    /\ step = "retrieve" /\ \A t \in Asked : outcomes[t] # "none"
    /\ IF \A t \in Asked : outcomes[t] = "failed"
       THEN step' = "error" /\ UNCHANGED hits
       ELSE /\ step' = "rank"
            /\ hits' = IF mode = "hybrid" THEN fuseBy(outcomes)
                       ELSE outcomes[CHOOSE t \in Asked : TRUE]
    /\ UNCHANGED <<ask, active, scope, fusion, mode, outcomes>>

-----------------------------------------------------------------------------
(* blendRerankScores: the window is spread over the scores it had, but never     *)
(* below the best hit outside it.                                                *)
blendRaw(head, tail, marks) == [i \in DOMAIN head |-> 2 * marks[i]]

blendRerankScores(head, tail, marks) ==
    LET floor == Max({Min({h.score : h \in ToSet(head)})} \cup {h.score : h \in ToSet(tail)})
        top == Max({floor} \cup {h.score : h \in ToSet(head)})
        hi == IF top = floor THEN floor + 2 * Len(head) ELSE top
    IN IF Cardinality(ToSet(marks)) = 1 THEN [i \in DOMAIN head |-> head[i].score]
       ELSE [i \in DOMAIN head |-> IF marks[i] = 1 THEN hi ELSE floor]

Window == IF TopN < Len(hits) THEN TopN ELSE Len(hits)

applyRerank(marks) ==
    LET head == SubSeq(hits, 1, Window)
        tail == SubSeq(hits, Window + 1, Len(hits))
        blended == blendRerankScores(head, tail, marks)
        scored == [i \in DOMAIN head |-> [head[i] EXCEPT !.score = blended[i]]]
    IN SortSeq(scored, LAMBDA a, b : a.score > b.score) \o tail

(* mergeSpans: a hit over lines already in the list widens the first it overlaps. *)
mergeSpans(s) ==
    FoldLeft(LAMBDA kept, h :
                LET at == FirstWhere(Len(kept), LAMBDA i : Overlaps(kept[i], h))
                IN IF at = 0 THEN Append(kept, h)
                   ELSE [kept EXCEPT ![at] = [@ EXCEPT !.from = Min({@, h.from}), !.to = Max({@, h.to})]],
             <<>>, s)

truncate(s) == SubSeq(s, 1, IF Len(s) > HitLimit THEN HitLimit ELSE Len(s))

(* Rank: the reranker marks the window, or fails and the order stands.           *)
RankHits ==
    /\ step = "rank"
    /\ \/ hits' = truncate(mergeSpans(hits))
       \/ /\ Len(hits) > 1
          /\ \E marks \in [1 .. Window -> {0, 1}] : hits' = truncate(mergeSpans(applyRerank(marks)))
    /\ step' = "callers"
    /\ UNCHANGED <<ask, active, scope, fusion, mode, outcomes>>

-----------------------------------------------------------------------------
(* prependPromoted: the graph's answers lead, scored above the best text hit;    *)
(* what points at their lines is dropped.                                        *)
prependPromoted(promoted, s) ==
    LET top == IF s # <<>> THEN s[1].score ELSE 2
    IN [i \in DOMAIN promoted |-> Scored(promoted[i], top + Len(promoted) + 1 - i)]
       \o SelectSeq(s, LAMBDA h : \A i \in DOMAIN promoted : ~Overlaps(promoted[i], h))

Leading(s, n) == SubSeq(s, 1, IF Len(s) > n THEN n ELSE Len(s))

(* Places in order, one for each first line, at most MaxPromoted.                *)
OneEach(places) ==
    FoldLeft(LAMBDA out, h :
                IF Len(out) >= MaxPromoted
                   \/ \E i \in DOMAIN out : out[i].repo = h.repo /\ out[i].file = h.file /\ out[i].from = h.from
                THEN out ELSE Append(out, h), <<>>, places)

(* sortEdgesBy: what answers best, production code, resolved, confident, place.  *)
CallerRank == [call |-> 0, rpc_call |-> 1, http_call |-> 2, handled_by |-> 3, produces |-> 4, consumes |-> 5, implements_rpc |-> 11]
ContractRank == [call |-> 3, rpc_call |-> 3, http_call |-> 3, consumes |-> 2, produces |-> 1, implements_rpc |-> 0, handled_by |-> 0]

EdgeRank(e, rank) ==
    <<rank[e.kind], IF e.test THEN 1 ELSE 0, IF e.dst = 0 THEN 1 ELSE 0, 100 - e.conf, e.file, e.from>>
sortEdgesBy(es, rank) ==
    SortSeq(es, LAMBDA a, b :
        \E k \in 1 .. 6 : /\ EdgeRank(a, rank)[k] < EdgeRank(b, rank)[k]
                          /\ \A j \in 1 .. k - 1 : EdgeRank(a, rank)[j] = EdgeRank(b, rank)[j])

(* calleeUnits: units the question names, then those behind the two leading hits *)
(* and described ones further down.                                              *)
UnitAt(h) ==
    FirstWhere(Len(Units), LAMBDA u :
        /\ Overlaps(Units[u], h)
        /\ \A v \in DOMAIN Units : Overlaps(Units[v], h) => Units[v].from <= Units[u].from)

calleeUnits ==
    LET named == SelectSeq([u \in DOMAIN Units |-> u], LAMBDA u : u \in ask.named /\ InScope(Units[u].repo))
        behind == SelectSeq([i \in DOMAIN hits |-> IF i <= 2 \/ UnitAt(hits[i]) \in ask.named THEN UnitAt(hits[i]) ELSE 0],
                            LAMBDA u : u # 0)
    IN FoldLeft(LAMBDA out, u : IF u \in ToSet(out) THEN out ELSE Append(out, u), <<>>, named \o behind)

(* incomingEdges: resolved to the callee, then unresolved ones of its name.      *)
incomingEdges(u) ==
    LET found == Leading(SelectSeq(GraphEdges, LAMBDA e : e.dst = u), EdgeLimit)
        named == Leading(SelectSeq(GraphEdges, LAMBDA e : e.dst = 0 /\ e.key = Units[u].key /\ e.repo = Units[u].repo),
                       EdgeLimit - Len(found))
    IN SelectSeq(found \o named, LAMBDA e : e.kind # "implements_rpc" /\ e.src # u)

(* callerHits: the callees take turns.                                           *)
InTurns(callees) ==
    LET perCallee == [i \in DOMAIN callees |-> sortEdgesBy(incomingEdges(callees[i]), CallerRank)]
        rounds == Max({0} \cup {Len(perCallee[i]) : i \in DOMAIN callees})
        turns == [k \in 1 .. rounds * Len(callees) |->
                    [i |-> ((k - 1) % Len(callees)) + 1, round |-> ((k - 1) \div Len(callees)) + 1]]
        taken == SelectSeq(turns, LAMBDA t : t.round <= Len(perCallee[t.i]))
    IN [k \in DOMAIN taken |-> AtLine(perCallee[taken[k].i][taken[k].round])]

callerHitsAnywhere(callees) == OneEach(InTurns(callees))
callerHits(callees) == OneEach(SelectSeq(InTurns(callees), LAMBDA e : InScope(e.repo)))

Promote(stage, next, promoted) ==
    /\ step = stage /\ step' = next
    /\ hits' = IF promoted = <<>> THEN hits ELSE prependPromoted(promoted, hits)
    /\ UNCHANGED <<ask, active, scope, fusion, mode, outcomes>>

PromoteCallers ==
    Promote("callers", IF ask.intent = "none" THEN "serve" ELSE "contracts",
            IF ask.intent = "callers" THEN callerHits(calleeUnits) ELSE <<>>)

(* contractHits: a route's handlers, the declarations, and the serving edges.    *)
unitsByKey(key) ==
    SelectSeq([u \in DOMAIN Units |-> u], LAMBDA u : Units[u].key = key /\ InScope(Units[u].repo))

handlersOf(u) ==
    LET served == SelectSeq(GraphEdges, LAMBDA e : e.src = u /\ e.kind = "handled_by" /\ e.dst # 0)
    IN [i \in DOMAIN served |-> Place(Units[served[i].dst])]

contractHits(key) ==
    LET declared == unitsByKey(key)
        routes == SelectSeq(declared, LAMBDA u : Units[u].kind = "http_route")
        edges == SelectSeq(Leading(SelectSeq(GraphEdges, LAMBDA e : e.key = key), EdgeLimit),
                           LAMBDA e : /\ e.kind \notin {"call", "http_call", "rpc_call"}
                                      /\ ~e.test /\ InScope(e.repo))
        ranked == sortEdgesBy(edges, ContractRank)
    IN OneEach(FoldLeft(LAMBDA out, u : out \o handlersOf(u), <<>>, routes)
               \o [i \in DOMAIN declared |-> Place(Units[declared[i]])]
               \o [i \in DOMAIN ranked |-> AtLine(ranked[i])])

PromoteContracts ==
    Promote("contracts", IF ask.intent = "callers" THEN "uses" ELSE "rpc",
            Leading(FoldLeft(LAMBDA out, key : IF Len(out) >= MaxPromoted THEN out ELSE out \o contractHits(key),
                           <<>>, ask.keys), MaxPromoted))

(* PromoteRPCImplementations and PromoteContractUses scan the scope's edges.     *)
DescribedEdges(kinds) ==
    SelectSeq(GraphEdges, LAMBDA e : e.kind \in kinds /\ InScope(e.repo) /\ ~e.test /\ e.key \in ask.described)

PromoteRPCImplementations ==
    LET ranked == Leading(sortEdgesBy(DescribedEdges({"implements_rpc"}), ContractRank), MaxPromoted)
    IN Promote("rpc", "uses",
               IF ask.rpc THEN OneEach([i \in DOMAIN ranked |-> AtLine(ranked[i])]) ELSE <<>>)

PromoteContractUses ==
    LET kinds == ask.uses \cup IF ask.intent = "callers" THEN {"rpc_call", "http_call"} ELSE {}
        ranked == sortEdgesBy(DescribedEdges(kinds), CallerRank)
    IN Promote("uses", "serve", OneEach([i \in DOMAIN ranked |-> AtLine(ranked[i])]))

Serve ==
    /\ step = "serve"
    /\ hits' = truncate(hits)
    /\ step' = "served"
    /\ UNCHANGED <<ask, active, scope, fusion, mode, outcomes>>

-----------------------------------------------------------------------------
SearchInit ==
    /\ ask \in Questions
    /\ active \in IF ask.repos = {} THEN SUBSET SearchRepos ELSE {SearchRepos}
    /\ scope = {}
    /\ mode \in {"hybrid", "semantic", "keyword"}
    /\ fusion \in IF mode = "hybrid" THEN {"rrf", "convex"} ELSE {"rrf"}
    /\ outcomes = [t \in ToSet(Searchers) |-> "none"]
    /\ hits = <<>>
    /\ step = "scope"

SearchNext ==
    \/ ResolveScope
    \/ \E typ \in ToSet(Searchers) : SearcherAnswers(typ) \/ SearcherFails(typ)
    \/ FusedCandidates \/ RankHits
    \/ PromoteCallers \/ PromoteContracts \/ PromoteRPCImplementations \/ PromoteContractUses
    \/ Serve

-----------------------------------------------------------------------------
(* The served order is the order of the scores: "a client sorting by score       *)
(* reproduces that order" (prependPromoted), whatever the searchers scored, the  *)
(* reranker answered and the graph put in front.                                 *)
OrderIsByScore ==
    step = "served" => \A i, j \in DOMAIN hits : i < j => hits[i].score >= hits[j].score

(* Every hit served, the call sites and the far sides of contracts included, is  *)
(* of a repository the request selected or, when it selected none, of an active  *)
(* one: "everything this request answers with obeys one repository selector".    *)
AnswersInScope ==
    step = "served" =>
        \A i \in DOMAIN hits : hits[i].repo \in IF ask.repos # {} THEN ask.repos ELSE active

(* What a search answers: hits in the order of their scores, all in scope.     *)
SearchSound == OrderIsByScore /\ AnswersInScope
=============================================================================
