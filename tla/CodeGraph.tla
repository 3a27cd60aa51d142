------------------------------ MODULE CodeGraph ------------------------------
(***************************************************************************)
(* The stored code graph: the units and edges of every repository, the     *)
(* store stage of the AST indexer that replaces a repository's rows, and   *)
(* the linker run that ends each index pass and works on the rows of every *)
(* repository (internal/index/ast/indexer.go, internal/graph/linker.go,    *)
(* internal/store/sqlite).  Passes of different repositories run side by   *)
(* side; linkMu admits one linker run at a time.                           *)
(*                                                                         *)
(* A name is [tag, n, path]: a topic n, a reference to a configuration key *)
(* by its path, a gRPC method n of a service, a configuration key with     *)
(* value n, a function.  A repository is one file.  Every stored edge has  *)
(* a source, a unit of its file (resolveEdgeSources drops the others).     *)
(***************************************************************************)
EXTENDS LinkMatch

CONSTANTS
    Sources,        \* repository -> the set of contents its file may have
    MaxPasses,      \* index passes explored
    StoreFaults,    \* store calls that may fail
    MaxFaults       \* failures explored

GRepos == DOMAIN Sources
NoRow == 0

ASSUME CodeGraphAssumption ==
    /\ {MaxPasses, MaxFaults} \subseteq Nat /\ NoRow \notin GRepos
    /\ \A r \in GRepos : \A c \in Sources[r] :
        /\ IsFiniteSet(c.units) /\ IsFiniteSet(c.edges)
        /\ \A e \in c.edges : e.src \in c.units /\ e.kind # "kafka_flow"

RefName(p) == [tag |-> "ref", n |-> 0, path |-> p]
TopicName(v) == [tag |-> "topic", n |-> v, path |-> <<>>]

VARIABLES
    unitRows,       \* ast_units: [id, repo, kind, name]
    edgeRows,       \* edges: [id, repo, src, kind, name, ref, base, conf, dst, to]
    lastRow,        \* the autoincrement counter
    parsed,         \* repository -> the content of its last pass
    stage,          \* repository -> where its pass stands
    linkMu,         \* the repository whose linker run holds the mutex, or NoRow
    linkRun,        \* what that run has read and not yet written
    passesLeft, faultsLeft,
    broken          \* history: topics whose flows a failure left behind

graphVars == <<unitRows, edgeRows, lastRow, parsed, stage, linkMu, linkRun, passesLeft, faultsLeft, broken>>
tableVars == <<unitRows, edgeRows, lastRow>>

NoRun == [groups |-> <<>>, dirty |-> {}, pending |-> {}, touched |-> {}, writes |-> <<>>,
          affected |-> {}, flows |-> {}]

-----------------------------------------------------------------------------
(* The store (internal/store/sqlite/ast_units.go, edges.go).                     *)
UnitIds == {u.id : u \in unitRows}

DeleteASTUnitsByFiles(r) ==
    LET gone == {u \in unitRows : u.repo = r}
    IN /\ unitRows' = unitRows \ gone
       /\ edgeRows' = {IF e.dst \in {u.id : u \in gone} THEN [e EXCEPT !.dst = NoRow, !.to = NoRow] ELSE e :
                         e \in edgeRows}
       /\ UNCHANGED lastRow

DeleteEdgesByFiles(r) ==
    /\ edgeRows' = {e \in edgeRows : e.repo # r}
    /\ UNCHANGED <<unitRows, lastRow>>

DeleteEdgesByKindAndDst(kind, name) == {e \in edgeRows : ~(e.kind = kind /\ e.name = name)}

(* StoreEdgeRows: one transaction, fresh ids.                                  *)
Numbered(rows) ==
    LET order == SetToSeq(rows)
    IN {[order[i] EXCEPT !.id = lastRow + i] : i \in DOMAIN order}

StoreEdgeRows(rows) ==
    /\ edgeRows' = edgeRows \cup Numbered(rows)
    /\ lastRow' = lastRow + Cardinality(rows)
    /\ UNCHANGED unitRows

(* BatchUpdateEdgeResolutions: a row that is gone is reported, the rest applied. *)
BatchUpdateEdgeResolutions(writes) ==
    edgeRows' = {IF e.id \in DOMAIN writes
                 THEN [e EXCEPT !.dst = writes[e.id].dst, !.to = writes[e.id].to, !.conf = writes[e.id].conf]
                 ELSE e : e \in edgeRows}

Fault(call) == call \in StoreFaults /\ faultsLeft > 0 /\ faultsLeft' = faultsLeft - 1

-----------------------------------------------------------------------------
(* The store stage of a pass (storeFiles): stale units, stale edges, new units,  *)
(* new edges, each its own transaction.                                          *)
UnitRow(r, u) == [id |-> NoRow, repo |-> r, kind |-> u.kind, name |-> u.name]
SourceId(r, u) == (CHOOSE x \in unitRows : x.repo = r /\ x.kind = u.kind /\ x.name = u.name).id
EdgeRow(r, e) ==
    [id |-> NoRow, repo |-> r, src |-> SourceId(r, e.src), kind |-> e.kind, name |-> e.name, ref |-> <<>>,
     base |-> e.base, conf |-> e.base, dst |-> NoRow, to |-> NoRow]

deleteWindowUnits(r) ==
    /\ stage[r] = "idle"
    /\ passesLeft > 0
    /\ \E c \in Sources[r] : parsed' = [parsed EXCEPT ![r] = c]
    /\ DeleteASTUnitsByFiles(r)
    /\ stage' = [stage EXCEPT ![r] = "edges"]
    /\ passesLeft' = passesLeft - 1
    /\ UNCHANGED <<linkMu, linkRun, faultsLeft, broken>>

deleteWindowEdges(r) ==
    /\ stage[r] = "edges"
    /\ DeleteEdgesByFiles(r)
    /\ stage' = [stage EXCEPT ![r] = "store"]
    /\ UNCHANGED <<parsed, linkMu, linkRun, passesLeft, faultsLeft, broken>>

storeUnits(r) ==
    /\ stage[r] = "store"
    /\ LET order == SetToSeq(parsed[r].units)
       IN unitRows' = unitRows \cup {[UnitRow(r, order[i]) EXCEPT !.id = lastRow + i] : i \in DOMAIN order}
    /\ lastRow' = lastRow + Cardinality(parsed[r].units)
    /\ stage' = [stage EXCEPT ![r] = "storeEdges"]
    /\ UNCHANGED <<edgeRows, parsed, linkMu, linkRun, passesLeft, faultsLeft, broken>>

storeEdges(r) ==
    /\ stage[r] = "storeEdges"
    /\ StoreEdgeRows({EdgeRow(r, e) : e \in parsed[r].edges})
    /\ stage' = [stage EXCEPT ![r] = "link"]
    /\ UNCHANGED <<parsed, linkMu, linkRun, passesLeft, faultsLeft, broken>>

(* Edges that cannot be stored are only logged: the pass goes on without them.   *)
storeEdgesFails(r) ==
    /\ stage[r] = "storeEdges"
    /\ Fault("edges")
    /\ stage' = [stage EXCEPT ![r] = "link"]
    /\ UNCHANGED <<tableVars, parsed, linkMu, linkRun, passesLeft, broken>>

-----------------------------------------------------------------------------
(* The linker run.  Confidence is the parser's base times the match factor.      *)
confidenceAfterResolveStored(e, conf) == (e.conf * conf) \div 100
confidenceAfterResolve(e, conf) == (e.base * conf) \div 100

OfKind(kinds) == {e \in edgeRows : e.kind \in kinds}

LinkLocal(r) ==
    /\ stage[r] = "link"
    /\ linkMu = NoRow
    /\ linkMu' = r
    /\ LET targets == {u \in unitRows : u.repo = r /\ u.kind = "function"}
           Target(e) == CHOOSE u \in targets : u.name = e.name
           calls == {e \in OfKind({"call"}) : e.repo = r /\ \E u \in targets : u.name = e.name}
           writes == [i \in {e.id : e \in {c \in calls : c.dst # Target(c).id}} |->
                        LET e == CHOOSE c \in calls : c.id = i
                        IN [dst |-> Target(e).id, to |-> r, conf |-> confidenceAfterResolve(e, ConfExact)]]
       IN BatchUpdateEdgeResolutions(writes)
    /\ linkRun' = NoRun
    /\ stage' = [stage EXCEPT ![r] = "refs"]
    /\ UNCHANGED <<unitRows, lastRow, parsed, passesLeft, faultsLeft, broken>>

(* resolveConfigRefs, up to the rewrite: a reference, or a topic that came from  *)
(* one, gets the value of the key that matches it now.                           *)
ConfigUnits ==
    LET keys == SetToSeq({u \in unitRows : u.kind = "config"})
    IN [i \in DOMAIN keys |-> [at |-> <<keys[i].repo, keys[i].id, 1, 1>>, path |-> keys[i].name.path,
                               leaf |-> <<Last(keys[i].name.path)>>, value |-> keys[i].name.n]]

RefOf(e) == IF e.name.tag = "ref" THEN e.name.path ELSE e.ref

Resolved(e) ==
    LET best == matchConfigKey(ConfigUnits, RefOf(e), e.repo)
    IN IF RefOf(e) = <<>> \/ best = NoUnit THEN e
       ELSE [e EXCEPT !.name = TopicName(best.value), !.ref = RefOf(e)]

KeyOf(e) == [kind |-> e.kind, name |-> e.name]

resolveConfigRefs(r) ==
    /\ linkMu = r /\ stage[r] = "refs"
    /\ LET topics == OfKind({"produces", "consumes"})
           moved == {e \in topics : Resolved(e) # e}
           dirty == {KeyOf(e) : e \in moved}
       IN linkRun' = [NoRun EXCEPT
                        !.groups = [k \in dirty |-> {Resolved(e) : e \in {t \in topics : KeyOf(t) = k}}],
                        !.dirty = dirty,
                        !.touched = {e.name : e \in moved} \cup {Resolved(e).name : e \in moved}]
    /\ stage' = [stage EXCEPT ![r] = "rewrite"]
    /\ UNCHANGED <<tableVars, parsed, linkMu, passesLeft, faultsLeft, broken>>

(* rewriteEdgeGroups: every dirty group is deleted before any is stored again; a *)
(* group whose delete failed is left as stored.                                  *)
rewriteDelete(r) ==
    /\ linkMu = r /\ stage[r] = "rewrite"
    /\ \E k \in linkRun.dirty :
          /\ linkRun' = [linkRun EXCEPT !.dirty = @ \ {k}, !.pending = @ \cup {k}]
          /\ edgeRows' = DeleteEdgesByKindAndDst(k.kind, k.name)
    /\ UNCHANGED <<unitRows, lastRow, parsed, stage, linkMu, passesLeft, faultsLeft, broken>>

rewriteDeleteFails(r) ==
    /\ linkMu = r /\ stage[r] = "rewrite"
    /\ Fault("rewriteDelete")
    /\ \E k \in linkRun.dirty : linkRun' = [linkRun EXCEPT !.dirty = @ \ {k}]
    /\ UNCHANGED <<tableVars, parsed, stage, linkMu, passesLeft, broken>>

rewriteInsert(r) ==
    /\ linkMu = r /\ stage[r] = "rewrite" /\ linkRun.dirty = {}
    /\ \E k \in linkRun.pending :
          /\ linkRun' = [linkRun EXCEPT !.pending = @ \ {k}]
          /\ StoreEdgeRows(linkRun.groups[k])
    /\ UNCHANGED <<parsed, stage, linkMu, passesLeft, faultsLeft, broken>>

rewriteInsertFails(r) ==
    /\ linkMu = r /\ stage[r] = "rewrite" /\ linkRun.dirty = {}
    /\ Fault("rewriteInsert")
    /\ \E k \in linkRun.pending : linkRun' = [linkRun EXCEPT !.pending = @ \ {k}]
    /\ UNCHANGED <<tableVars, parsed, stage, linkMu, passesLeft, broken>>

(* resolveContracts: contract edges whose target still exists are skipped, the   *)
(* others matched, an ambiguous match put to the disambiguator, which may pick   *)
(* any candidate or decline; a target that is gone is cleared.                   *)
RpcUnits ==
    LET rpcs == SetToSeq({u \in unitRows : u.kind = "rpc"})
    IN [i \in DOMAIN rpcs |-> [at |-> <<rpcs[i].repo, rpcs[i].id, 1, 1>>, id |-> rpcs[i].id,
                               method |-> rpcs[i].name.n, svc |-> rpcs[i].name.path]]

Destinations(e) ==
    LET match == rpcCandidates(RpcUnits, [method |-> e.name.n, svc |-> e.name.path])
        To(u, conf) == [dst |-> u.id, to |-> u.at[1], conf |-> confidenceAfterResolve(e, conf)]
    IN IF match.cands = <<>> THEN {[dst |-> NoRow, to |-> NoRow, conf |-> e.conf]}
       ELSE {To(match.cands[1], match.conf)}
            \cup (IF match.conf <= ConfHeuristic /\ Len(match.cands) > 1
                  THEN {To(u, ConfHigh) : u \in ToSet(match.cands)} ELSE {})

resolveContracts(r) ==
    /\ linkMu = r /\ stage[r] = "rewrite" /\ linkRun.dirty = {} /\ linkRun.pending = {}
    /\ LET open == {e \in OfKind({"rpc_call"}) : e.dst \notin UnitIds}
           EdgeOf(i) == CHOOSE e \in open : e.id = i
       IN \E writes \in [{e.id : e \in open} -> UNION {Destinations(e) : e \in open}] :
             /\ \A i \in DOMAIN writes : writes[i] \in Destinations(EdgeOf(i))
             /\ linkRun' = [linkRun EXCEPT !.writes = writes]
    /\ stage' = [stage EXCEPT ![r] = "flush"]
    /\ UNCHANGED <<tableVars, parsed, linkMu, passesLeft, faultsLeft, broken>>

flushResolutions(r) ==
    /\ linkMu = r /\ stage[r] = "flush"
    /\ BatchUpdateEdgeResolutions(linkRun.writes)
    /\ linkRun' = [linkRun EXCEPT !.writes = <<>>]
    /\ stage' = [stage EXCEPT ![r] = "flows"]
    /\ UNCHANGED <<unitRows, lastRow, parsed, linkMu, passesLeft, faultsLeft, broken>>

(* A batch the backend gives up on is logged and counted; the run goes on.       *)
flushFails(r) ==
    /\ linkMu = r /\ stage[r] = "flush"
    /\ Fault("flush")
    /\ linkRun' = [linkRun EXCEPT !.writes = <<>>]
    /\ stage' = [stage EXCEPT ![r] = "flows"]
    /\ UNCHANGED <<tableVars, parsed, linkMu, passesLeft, broken>>

(* deriveKafkaFlows: the topics this run may have changed, and the join of their *)
(* producers and consumers.                                                      *)
AffectedOwnOnly(r) ==
    {e.name : e \in {x \in OfKind({"produces", "consumes"}) : x.repo = r}}
    \cup {f.name : f \in {x \in OfKind({"kafka_flow"}) : r \in {x.repo, x.to}}}

Affected(r) ==
    linkRun.touched
    \cup {e.name : e \in {x \in OfKind({"produces", "consumes"}) : x.repo = r}}
    \cup {f.name : f \in {x \in OfKind({"kafka_flow"}) : r \in {x.repo, x.to}}}

FlowRow(p, c) ==
    [id |-> NoRow, repo |-> p.repo, src |-> p.src, kind |-> "kafka_flow", name |-> p.name, ref |-> <<>>,
     base |-> 0, conf |-> 0, dst |-> c.src, to |-> c.repo]

deriveKafkaFlows(r) ==
    /\ linkMu = r /\ stage[r] = "flows"
    /\ linkRun' = [linkRun EXCEPT
                     !.affected = Affected(r),
                     !.flows = {FlowRow(pc[1], pc[2]) : pc \in
                                  {x \in OfKind({"produces"}) \X OfKind({"consumes"}) :
                                     x[1].name = x[2].name /\ x[1].name \in Affected(r)}}]
    /\ stage' = [stage EXCEPT ![r] = "deleteFlows"]
    /\ UNCHANGED <<tableVars, parsed, linkMu, passesLeft, faultsLeft, broken>>

deleteFlows(r) ==
    /\ linkMu = r /\ stage[r] = "deleteFlows"
    /\ edgeRows' = {e \in edgeRows : ~(e.kind = "kafka_flow" /\ e.name \in linkRun.affected)}
    /\ stage' = [stage EXCEPT ![r] = "storeFlows"]
    /\ UNCHANGED <<unitRows, lastRow, parsed, linkMu, linkRun, passesLeft, faultsLeft, broken>>

storeFlows(r) ==
    /\ linkMu = r /\ stage[r] = "storeFlows"
    /\ StoreEdgeRows(linkRun.flows)
    /\ broken' = broken \ linkRun.affected
    /\ linkMu' = NoRow
    /\ linkRun' = NoRun
    /\ stage' = [stage EXCEPT ![r] = "idle"]
    /\ UNCHANGED <<parsed, passesLeft, faultsLeft>>

(* A flow that cannot be stored is logged and counted; the others are stored.    *)
storeFlowsInPart(r) ==
    /\ linkMu = r /\ stage[r] = "storeFlows"
    /\ Fault("flow")
    /\ \E lost \in SUBSET linkRun.flows \ {{}} :
          /\ StoreEdgeRows(linkRun.flows \ lost)
          /\ broken' = (broken \ linkRun.affected) \cup {f.name : f \in lost}
    /\ linkMu' = NoRow
    /\ linkRun' = NoRun
    /\ stage' = [stage EXCEPT ![r] = "idle"]
    /\ UNCHANGED <<parsed, passesLeft>>

(* A read or a delete that fails ends the run and gives the mutex back; the      *)
(* topics it had touched or would have rebuilt are nobody's any more.            *)
MayFail(r) ==
    \/ linkMu = NoRow /\ stage[r] = "link"
    \/ linkMu = r /\ \/ stage[r] \in {"refs", "flows", "deleteFlows"}
                     \/ stage[r] = "rewrite" /\ linkRun.dirty = {} /\ linkRun.pending = {}

LinkFails(r) ==
    /\ MayFail(r)
    /\ Fault("link")
    /\ broken' = broken \cup linkRun.touched \cup Affected(r) \cup linkRun.affected
    /\ linkMu' = NoRow
    /\ linkRun' = NoRun
    /\ stage' = [stage EXCEPT ![r] = "idle"]
    /\ UNCHANGED <<tableVars, parsed, passesLeft>>

GraphInit ==
    /\ unitRows = {} /\ edgeRows = {} /\ lastRow = 0
    /\ parsed = [r \in GRepos |-> [units |-> {}, edges |-> {}]]
    /\ stage = [r \in GRepos |-> "idle"]
    /\ linkMu = NoRow /\ linkRun = NoRun
    /\ passesLeft = MaxPasses /\ faultsLeft = MaxFaults
    /\ broken = {}

GraphNext ==
    \E r \in GRepos :
        \/ deleteWindowUnits(r)
        \/ deleteWindowEdges(r)
        \/ storeUnits(r)
        \/ storeEdges(r)
        \/ storeEdgesFails(r)
        \/ LinkLocal(r)
        \/ resolveConfigRefs(r)
        \/ rewriteDelete(r)
        \/ rewriteDeleteFails(r)
        \/ rewriteInsert(r)
        \/ rewriteInsertFails(r)
        \/ resolveContracts(r)
        \/ flushResolutions(r)
        \/ flushFails(r)
        \/ deriveKafkaFlows(r)
        \/ deleteFlows(r)
        \/ storeFlows(r)
        \/ storeFlowsInPart(r)
        \/ LinkFails(r)

-----------------------------------------------------------------------------
AtRest == \A r \in GRepos : stage[r] = "idle"

FlowPairs == {<<f.repo, f.to, f.name>> : f \in OfKind({"kafka_flow"})}
JoinPairs ==
    {<<x[1].repo, x[2].repo, x[1].name>> : x \in
        {y \in OfKind({"produces"}) \X OfKind({"consumes"}) : y[1].name = y[2].name}}

(* deriveKafkaFlows' doc: the rebuild covers flows whose producer or consumer side   *)
(* belongs to the repository, "to clean up flows whose producers/consumers were       *)
(* removed".  The code does not: deleting the consumer's unit has already taken the   *)
(* flow's destination away (DeleteASTUnitsByFiles), so a consumer that is removed     *)
(* leaves a flow to nowhere until the producer is linked again.                       *)
FlowsAreTheJoin ==
    AtRest =>
        {p \in FlowPairs : p[3] \notin broken} = {p \in JoinPairs : p[3] \notin broken}

(* Once every pass has ended, the derived flows that still have a destination are the *)
(* join of the producers and consumers now stored, although each run rebuilt only the *)
(* topics it took for affected: a value indexed in one repository re-points a         *)
(* producer of another.  Topics a failed run left behind are excepted.                *)
ResolvedFlowsAreTheJoin ==
    AtRest =>
        {p \in FlowPairs : p[2] # NoRow /\ p[3] \notin broken} = {p \in JoinPairs : p[3] \notin broken}

(* Re-resolving an edge after its destination was indexed again never multiplies *)
(* the match factor in twice: the score is the parser's base times one tier.     *)
ConfidenceDoesNotDecay ==
    \A e \in OfKind({"call", "rpc_call"}) :
        e.conf = e.base \/ e.conf \in {(e.base * f) \div 100 : f \in {ConfExact, ConfHigh, ConfHeuristic}}

(* What rewriteEdgeGroups relies on ("Two properties keep that safe"): after the *)
(* passes, the produces and consumes edges stored are those of the files parsed. *)
(* The code does not keep it: edges another pass stores under the same key after *)
(* the linker read the group are deleted with it and not written back.           *)
TopicEdgesOfSources ==
    AtRest =>
        {<<e.repo, e.kind, RefOf(e), IF e.ref = <<>> THEN e.name.n ELSE 0>> :
             e \in OfKind({"produces", "consumes"})}
        = UNION {{<<r, e.kind, RefOf([name |-> e.name, ref |-> <<>>]), e.name.n>> :
                      e \in {x \in parsed[r].edges : x.kind \in {"produces", "consumes"}}} : r \in GRepos}

(* What linking keeps whatever fails on the way: flows that are the join of    *)
(* their sides, and confidences that repeated passes do not wear down.         *)
GraphSound == ResolvedFlowsAreTheJoin /\ ConfidenceDoesNotDecay
GraphSpec == GraphInit /\ [][GraphNext]_graphVars
=============================================================================
