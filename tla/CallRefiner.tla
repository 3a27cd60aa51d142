----------------------------- MODULE CallRefiner -----------------------------
(***************************************************************************)
(* The call refiner (internal/lsp/calls.go): a language server is asked    *)
(* who references each selected definition, the answers are gathered in a  *)
(* plan, and the plan is written over the call edges the linker resolved   *)
(* by name.                                                                *)
(*                                                                         *)
(* One repository, one language and one file of call sites: a definition   *)
(* has a name and a range of lines; an edge a line, a name and a target.   *)
(***************************************************************************)
EXTENDS Integers, Sequences, FiniteSets, SequencesExt, Sorting

CONSTANTS
    Lines,          \* lines of the file that holds the calls
    MaxSymbols,     \* the budget of definitions asked about
    MaxRefs,        \* references a symbol may have before it is left alone
    LineTolerance   \* lineTolerance

ASSUME RefinerAssumption ==
    /\ Lines \subseteq Nat /\ IsFiniteSet(Lines)
    /\ {MaxSymbols, MaxRefs, LineTolerance} \subseteq Nat

NoCallee == 0

(* Two definitions share a name and sit in other files, the third encloses the  *)
(* calls.  The boundary ones are asked about first.                             *)
Defs == 1 .. 3
NameOf == <<"save", "save", "main">>
Encloses(d, line) == d = 3

VARIABLES
    boundary,   \* definitions on a contract boundary
    callEdges,  \* the stored call edges: id -> [line, name, dst, source]
    answers,    \* per definition: the lines the server reports; {} for a failed request
    plan,       \* [claim, add, complete, analysed]
    todo,       \* definitions still to ask about, in order
    rpc,        \* "ask", "apply" or "done"
    was         \* history: the edges before the pass

refinerVars == <<boundary, callEdges, answers, plan, todo, rpc, was>>

EmptyPlan == [claim |-> <<>>, add |-> {}, complete |-> {}, analysed |-> FALSE]

-----------------------------------------------------------------------------
(* selectCandidates: definitions on a boundary, and those whose name is shared  *)
(* and called; boundary first, then by position; cut at the budget.             *)
Ambiguous(d) ==
    /\ \E o \in Defs \ {d} : NameOf[o] = NameOf[d]
    /\ \E i \in DOMAIN callEdges : callEdges[i].name = NameOf[d]

selectCandidates ==
    LET wanted == {d \in Defs : d \in boundary \/ Ambiguous(d)}
        Before(a, b) == IF (a \in boundary) # (b \in boundary) THEN a \in boundary ELSE a < b
        ordered == InOrder(wanted, {p \in wanted \X wanted : Before(p[1], p[2])})
    IN SubSeq(ordered, 1, IF Len(ordered) > MaxSymbols THEN MaxSymbols ELSE Len(ordered))

Delta(a, b) == IF a > b THEN a - b ELSE b - a

(* matchCallEdge: the closest edge of that name within the tolerance, ties by   *)
(* where it is.                                                                 *)
matchCallEdge(name, line) ==
    LET near == {i \in DOMAIN callEdges :
                    callEdges[i].name = name /\ Delta(callEdges[i].line, line) <= LineTolerance}
        Better(i, j) == \/ Delta(callEdges[i].line, line) < Delta(callEdges[j].line, line)
                        \/ /\ Delta(callEdges[i].line, line) = Delta(callEdges[j].line, line)
                           /\ callEdges[i].line <= callEdges[j].line
    IN {i \in near : \A j \in near : Better(i, j)}

(* The definition found at each site: the first one to name an edge keeps it. *)
Claims(d, lines) ==
    {i \in UNION {matchCallEdge(NameOf[d], l) : l \in lines} : i \notin DOMAIN plan.claim}

Missing(d, lines) ==
    {[line |-> x[1], name |-> NameOf[d], src |-> x[2], dst |-> d] :
        x \in {y \in lines \X Defs :
            matchCallEdge(NameOf[d], y[1]) = {} /\ Encloses(y[2], y[1]) /\ y[2] # d}}

(* An error, an empty answer and one over the budget say nothing. *)
askDefinition ==
    LET d == Head(todo) IN
    /\ rpc = "ask" /\ todo # <<>>
    /\ todo' = Tail(todo)
    /\ LET lines == answers[d] IN
       IF lines = {} \/ Cardinality(lines) > MaxRefs THEN UNCHANGED plan
       ELSE plan' = [claim |-> [i \in DOMAIN plan.claim \cup Claims(d, lines) |->
                                   IF i \in DOMAIN plan.claim THEN plan.claim[i] ELSE d],
                     add |-> plan.add \cup Missing(d, lines),
                     complete |-> plan.complete \cup {d},
                     analysed |-> TRUE]
    /\ UNCHANGED <<boundary, callEdges, answers, rpc, was>>

(* Mutant of Contradicted: a claim by another definition does not protect. *)
ContradictedUnclaimed(i) ==
    /\ callEdges[i].dst \in plan.complete /\ plan.analysed
    /\ ~(i \in DOMAIN plan.claim /\ plan.claim[i] = callEdges[i].dst)

(* An edge resolved to a definition whose references are all known, and which   *)
(* no reference claims, is a name match the server denies.                      *)
Contradicted(i) ==
    callEdges[i].dst \in plan.complete /\ plan.analysed /\ i \notin DOMAIN plan.claim

ResolvedCall(i) ==
    IF Contradicted(i) THEN [callEdges[i] EXCEPT !.dst = NoCallee, !.source = "lsp"]
    ELSE IF i \in DOMAIN plan.claim
         THEN [callEdges[i] EXCEPT !.dst = plan.claim[i], !.source = "lsp"]
         ELSE callEdges[i]

(* apply: the claims, then the contradictions, in one batch; the calls the      *)
(* parser missed after it.  Either write may fail, which is logged.             *)
applyPlan ==
    /\ rpc = "ask" /\ todo = <<>> /\ rpc' = "done"
    /\ \E resolutionsOk, addsOk \in BOOLEAN :
        LET rewritten == [i \in DOMAIN callEdges |-> IF resolutionsOk THEN ResolvedCall(i) ELSE callEdges[i]]
            added == SetToSeq(plan.add)
        IN callEdges' = IF addsOk
                        THEN rewritten \o [k \in DOMAIN added |->
                                [line |-> added[k].line, name |-> added[k].name,
                                 dst |-> added[k].dst, source |-> "lsp"]]
                        ELSE rewritten
    /\ UNCHANGED <<boundary, answers, plan, todo, was>>

-----------------------------------------------------------------------------
ParsedEdges == [line : Lines, name : {"save"}, dst : {NoCallee, 1, 2}, source : {"name"}]

RefinerInit ==
    /\ boundary \in {{}, {2}}
    /\ callEdges \in {<<>>} \cup {<<e>> : e \in ParsedEdges} \cup {<<e, f>> : e, f \in ParsedEdges}
    /\ \A i, j \in DOMAIN callEdges : i < j => callEdges[i].line < callEdges[j].line
    /\ answers \in [{1, 2} -> {ls \in SUBSET Lines : Cardinality(ls) <= MaxRefs + 1}]
    /\ plan = EmptyPlan /\ rpc = "ask" /\ was = callEdges
    /\ todo = selectCandidates

RefinerNext == askDefinition \/ applyPlan

-----------------------------------------------------------------------------
(* Properties *)

(* A pass takes back only what the evidence denies and nothing a reference      *)
(* supports: an edge that lost its target had one whose references are all      *)
(* known, and none of them is nearest to it; one that the server names points   *)
(* at the definition that named it, also when another definition's references   *)
(* do not include it ("keeps 'confirmed by some definition' from being          *)
(* contradicted by another one", callPlan).                                     *)
EvidenceWins ==
    rpc = "done" =>
        \A i \in DOMAIN was :
            LET named == {d \in {1, 2} : /\ d \in plan.complete
                                        /\ \E l \in answers[d] : l = was[i].line}
            IN /\ callEdges[i].dst # was[i].dst /\ callEdges[i].dst = NoCallee => named = {}
               /\ callEdges[i].dst # was[i].dst /\ callEdges[i].dst # NoCallee
                    => \E l \in answers[callEdges[i].dst] : Delta(l, was[i].line) <= LineTolerance

RefinerSpec == RefinerInit /\ [][RefinerNext]_refinerVars
=============================================================================
