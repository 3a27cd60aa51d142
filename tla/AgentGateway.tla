----------------------------- MODULE AgentGateway -----------------------------
(***************************************************************************)
(* A question asked by a language model, end to end: the MCP tools         *)
(* (internal/mcp/server), the Go client (client/) and its retrying HTTP    *)
(* (pkg/httpx), and the API handlers (internal/server/api).  The tools     *)
(* resolve repository names through a cached listing while repositories    *)
(* come and go; indexes degrade, break and recover between requests; any   *)
(* exchange may be lost before or after the server acted, and a proxy may  *)
(* replace an error body.                                                  *)
(*                                                                         *)
(* Agents ask "search" and "context" questions and start "index" passes    *)
(* through the same client.                                                *)
(***************************************************************************)
EXTENDS Naturals, FiniteSets

CONSTANTS
    Askers,             \* concurrent tool calls
    GatewayRepos,       \* repository ids
    Present,            \* the ones registered at first
    Holding,            \* the ones whose code answers the question
    Wants,              \* what a caller may write for a repository
    Named,              \* want -> the ids whose name it is
    Prefixed,           \* want -> the ids it begins
    CacheTTL,           \* repoCacheTTL in ticks
    MaxTicks,           \* bound: clock ticks
    MaxAsks,            \* bound: tool calls
    MaxChanges,         \* bound: changes on the server
    MaxLosses           \* bound: lost exchanges

ASSUME AgentGatewayAssumption ==
    /\ Holding \subseteq GatewayRepos /\ Present \subseteq GatewayRepos
    /\ \A w \in Wants : Named[w] \subseteq GatewayRepos /\ Prefixed[w] \subseteq GatewayRepos
    /\ {CacheTTL, MaxTicks, MaxAsks, MaxChanges, MaxLosses} \subseteq Nat

VARIABLES
    estate,     \* the server: [repos, health, pass]; health "whole", "degraded", "damaged"
    names,      \* repoIndex: [repos, fetched, filled]; shared by the tool calls
    asking,     \* asker -> its tool call
    clock,
    spentOn     \* [asks, changes, losses]

gatewayVars == <<estate, names, asking, clock, spentOn>>

Nobody == ""       \* no repository named or meant
NoText == ""       \* no answer yet, or a code that says nothing

(* A call: what it asks, where it is, the attempts of the request under way; and      *)
(* as history whether the answer came from whole indexes, the age of the listing that *)
(* named the repository, and whether a pass ran before the request reached the server. *)
NoTool == [op |-> "none", want |-> Nobody, pc |-> "idle", attempt |-> 0, second |-> FALSE,
          scope |-> Nobody, since |-> 0, listed |-> 0, answer |-> NoText, whole |-> FALSE,
          arrived |-> FALSE, running |-> FALSE]

GatewayInit ==
    /\ estate = [repos |-> Present, health |-> "whole", pass |-> FALSE]
    /\ names = [repos |-> {}, fetched |-> 0, filled |-> FALSE]
    /\ asking = [a \in Askers |-> NoTool]
    /\ clock = 0 /\ spentOn = [asks |-> 0, changes |-> 0, losses |-> 0]

Goes(a, c) == asking' = [asking EXCEPT ![a] = c]

(* The answer ends the tool call; what led to it is kept for the properties only.     *)
Answer(c, text) ==
    [NoTool EXCEPT !.pc = "answered", !.answer = text, !.since = c.since,
                  !.listed = c.listed, !.whole = c.whole, !.running = c.running]

-----------------------------------------------------------------------------
(* internal/server/api: a status and a code *)

(* writeError: what a failing service call becomes.                                 *)
writeError(why) ==
    CASE why = "busy" -> [status |-> 409, code |-> "repo_busy"]
      [] why = "damaged" -> [status |-> 503, code |-> "index_damaged"]
      [] why = "notFound" -> [status |-> 404, code |-> "not_found"]
      [] OTHER -> [status |-> 500, code |-> "internal_error"]

Ok(found) == [status |-> 200, code |-> found]

(* HandleListRepos *)
HandleListRepos == Ok("repos")

Matching(scope) ==
    {r \in estate.repos \cap Holding : scope = Nobody \/ r = scope}

(* HandleSearch: an unknown id filters everything away; a damaged index is an error, a *)
(* degraded one an answer from the searchers that are left, and says so.              *)
HandleSearch(c, thin) ==
    LET empty == Matching(c.scope) = {} \/ (estate.health = "degraded" /\ thin)
    IN CASE estate.health = "damaged" -> writeError("damaged")
         [] estate.health = "degraded" -> Ok(IF empty THEN "noneDegraded" ELSE "hitsDegraded")
         [] OTHER -> Ok(IF empty THEN "none" ELSE "hits")

(* HandleContext: the same search, without its diagnostics.                         *)
HandleContext(c, thin) ==
    LET found == HandleSearch(c, thin)
    IN CASE found.code = "noneDegraded" -> Ok("none")
         [] found.code = "hitsDegraded" -> Ok("hits")
         [] OTHER -> found

(* HandleIndex on one instance: the claim, or repo_busy.                             *)
HandleIndex(c) ==
    IF c.scope \notin estate.repos THEN writeError("notFound")
    ELSE IF estate.pass THEN writeError("busy")
    ELSE Ok("indexing")

Handled(c, thin) ==
    CASE c.pc = "listing" -> HandleListRepos
      [] c.pc = "searching" -> IF c.op = "context" THEN HandleContext(c, thin) ELSE HandleSearch(c, thin)
      [] c.pc = "probing" -> HandleSearch(c, thin)
      [] OTHER -> HandleIndex(c)

ServedEstate(c) ==
    IF c.pc = "starting" /\ HandleIndex(c).status = 200 THEN [estate EXCEPT !.pass = TRUE]
    ELSE estate

-----------------------------------------------------------------------------
(* client/ and pkg/httpx *)

(* codeForStatus: when the body did not survive.                                    *)
codeForStatus(status) ==
    CASE status = 404 -> "not_found"
      [] status >= 500 -> "internal_error"
      [] OTHER -> NoText

(* toAPIError: the server's code, or the status's when a proxy replaced the body.    *)
toAPIError(reply, replaced) ==
    IF reply.status = 200 THEN reply.code
    ELSE IF replaced THEN codeForStatus(reply.status) ELSE reply.code

(* Mutant of extraTries: a call that changes the server is repeated too. *)
extraTriesAlways(c) == 2

(* get and post repeat, postOnce does not.                                          *)
extraTries(c) == IF c.pc = "starting" THEN 0 ELSE 2

Retryable(reply) == reply.status >= 500

-----------------------------------------------------------------------------
(* internal/mcp/server *)

Fresh == names.filled /\ clock - names.fetched < CacheTTL

(* match: the id itself, else its name, else what it begins; more than one of those   *)
(* is refused.                                                                       *)
matchRepo(list, want) ==
    LET byName == Named[want] \cap list
        byPrefix == Prefixed[want] \cap list
        candidates == IF byName # {} THEN byName ELSE byPrefix
    IN IF want \in list THEN [found |-> "one", id |-> want]
       ELSE IF candidates = {} THEN [found |-> "unknown", id |-> Nobody]
       ELSE IF Cardinality(candidates) > 1 THEN [found |-> "several", id |-> Nobody]
       ELSE [found |-> "one", id |-> CHOOSE r \in candidates : TRUE]

SendNext(c) ==
    [c EXCEPT !.pc = IF c.op = "index" THEN "starting" ELSE "searching",
              !.attempt = 0, !.arrived = FALSE]

(* Mutant of unknownName: what the cache does not know is unknown. *)
unknownNameAtOnce(c) == Answer(c, "unknownRepo")

(* resolve: an unknown name is looked up once more, after invalidate.                *)
unknownName(c) ==
    IF c.second THEN Answer(c, "unknownRepo")
    ELSE [c EXCEPT !.pc = "invalidating", !.second = TRUE]

(* match on a listing taken at the given time.                                      *)
NameResolved(c, list, at) ==
    LET m == matchRepo(list, c.want)
        aged == [c EXCEPT !.listed = at]
    IN CASE m.found = "one" -> SendNext([aged EXCEPT !.scope = m.id])
         [] m.found = "several" -> Answer(aged, "severalRepos")
         [] OTHER -> unknownName(aged)

(* A tool call begins; with no repository named there is nothing to resolve.         *)
Ask(a, op, want) ==
    LET c == [NoTool EXCEPT !.op = op, !.want = want, !.since = clock]
    IN /\ asking[a].pc = "idle" /\ spentOn.asks < MaxAsks
       /\ op = "index" => want # Nobody
       /\ spentOn' = [spentOn EXCEPT !.asks = @ + 1]
       /\ Goes(a, IF want = Nobody THEN SendNext(c) ELSE [c EXCEPT !.pc = "naming"])
       /\ UNCHANGED <<estate, names, clock>>

(* list holds its lock over the request: one listing at a time.                      *)
Unlocked == \A a \in Askers : asking[a].pc # "listing"

NameFromCache(a) ==
    /\ asking[a].pc = "naming" /\ Unlocked /\ Fresh
    /\ Goes(a, NameResolved(asking[a], names.repos, names.fetched))
    /\ UNCHANGED <<estate, names, clock, spentOn>>

StartListing(a) ==
    /\ asking[a].pc = "naming" /\ Unlocked /\ ~Fresh
    /\ Goes(a, [asking[a] EXCEPT !.pc = "listing"])
    /\ UNCHANGED <<estate, names, clock, spentOn>>

invalidate(a) ==
    /\ asking[a].pc = "invalidating" /\ Unlocked
    /\ names' = [names EXCEPT !.filled = FALSE]
    /\ Goes(a, [asking[a] EXCEPT !.pc = "naming"])
    /\ UNCHANGED <<estate, clock, spentOn>>

(* Mutant of probeRetrieval: an empty package is taken at its word. *)
probeRetrievalSkipped(c, code) == Answer(c, code)

(* handleContext: an empty package is followed by a search that says whether          *)
(* retrieval is whole.                                                              *)
probeRetrieval(c, code) ==
    IF c.op = "context" /\ code = "none" THEN [c EXCEPT !.pc = "probing", !.attempt = 0]
    ELSE Answer(c, code)

(* explain, and what the handlers make of an answer: the search tools print the       *)
(* caveat a degraded answer comes with; a probe that fails or is degraded is one.     *)
Concluded(c, code) ==
    CASE c.pc = "searching" -> probeRetrieval(c, code)
      [] c.pc = "probing" ->
            Answer(c, IF code \in {"none", "hits"} THEN "none" ELSE "noneDegraded")
      [] OTHER -> Answer(c, code)

-----------------------------------------------------------------------------
Requesting == {"listing", "searching", "probing", "starting"}

(* The request reaches the server: the history of the call sees the state it found.    *)
Arrives(c) ==
    [c EXCEPT !.whole = (estate.health = "whole"), !.arrived = TRUE,
              !.running = IF c.arrived THEN @ ELSE estate.pass]

(* Do: a retryable status is repeated while attempts are left, anything else decides.   *)
Replied(a, thin, replaced) ==
    LET c == Arrives(asking[a])
        reply == Handled(c, thin)
        code == toAPIError(reply, replaced)
    IN /\ asking[a].pc \in Requesting
       /\ estate' = ServedEstate(c)
       /\ IF Retryable(reply) /\ c.attempt < extraTries(c)
          THEN Goes(a, [c EXCEPT !.attempt = @ + 1]) /\ UNCHANGED names
          ELSE IF c.pc = "listing"
          THEN /\ names' = [repos |-> estate.repos, fetched |-> clock, filled |-> TRUE]
               /\ Goes(a, NameResolved(c, estate.repos, clock))
          ELSE Goes(a, Concluded(c, code)) /\ UNCHANGED names
       /\ UNCHANGED <<clock, spentOn>>

(* A connection error, before or after the server acted.                             *)
Lost(a, acted) ==
    LET c == IF acted THEN Arrives(asking[a]) ELSE asking[a]
    IN /\ asking[a].pc \in Requesting /\ spentOn.losses < MaxLosses
       /\ spentOn' = [spentOn EXCEPT !.losses = @ + 1]
       /\ estate' = IF acted THEN ServedEstate(c) ELSE estate
       /\ Goes(a, IF c.attempt < extraTries(c) THEN [c EXCEPT !.attempt = @ + 1]
                  ELSE IF c.pc = "probing" THEN Answer(c, "noneDegraded")
                  ELSE Answer(c, "unreachable"))
       /\ UNCHANGED <<names, clock>>

(* The caller reads its answer.                                                     *)
Read(a) ==
    /\ asking[a].pc = "answered"
    /\ Goes(a, NoTool)
    /\ UNCHANGED <<estate, names, clock, spentOn>>

-----------------------------------------------------------------------------
(* Meanwhile, on the server: repositories added or deleted, searchers failing,         *)
(* recovering or rebuilt, a pass ending.                                            *)
Changes(e) ==
    /\ spentOn.changes < MaxChanges /\ e # estate
    /\ spentOn' = [spentOn EXCEPT !.changes = @ + 1]
    /\ estate' = e
    /\ UNCHANGED <<names, asking, clock>>

TickClock ==
    /\ clock < MaxTicks /\ clock' = clock + 1
    /\ UNCHANGED <<estate, names, asking, spentOn>>

GatewayNext ==
    \/ \E a \in Askers :
          \/ \E op \in {"search", "context", "index"}, want \in Wants \cup {Nobody} : Ask(a, op, want)
          \/ NameFromCache(a)
          \/ StartListing(a)
          \/ invalidate(a)
          \/ \E thin, replaced \in BOOLEAN : Replied(a, thin, replaced)
          \/ \E acted \in BOOLEAN : Lost(a, acted)
          \/ Read(a)
    \/ \E r \in GatewayRepos : Changes([estate EXCEPT !.repos = (@ \cup {r}) \ (@ \cap {r})])
    \/ \E h \in {"whole", "degraded", "damaged"} : Changes([estate EXCEPT !.health = h])
    \/ Changes([estate EXCEPT !.pass = FALSE])
    \/ TickClock

GatewaySpec == GatewayInit /\ [][GatewayNext]_gatewayVars

-----------------------------------------------------------------------------
(* Properties *)

(* "A zero-hit answer under degradation is not evidence that the code is absent"       *)
(* (ragota_search): an answer that reports absence without a caveat was decided by      *)
(* indexes that were whole when they were last asked.                                 *)
AbsenceIsEarned ==
    \A a \in Askers : asking[a].answer = "none" => asking[a].whole

(* "Pay one listing to tell them apart before refusing" (resolve): a name refused as    *)
(* unknown is unknown to a listing no older than the call.                            *)
UnknownIsFresh ==
    \A a \in Askers : asking[a].answer = "unknownRepo" => asking[a].listed >= asking[a].since

(* "A silent retry lies to the caller" (postOnce): an index call that is told the        *)
(* repository is busy was not the one that made it so.                                *)
AckIsOwn ==
    \A a \in Askers : asking[a].answer = "repo_busy" => asking[a].running

(* What the gateway promises a model.                                                *)
GatewayHonest == AbsenceIsEarned /\ UnknownIsFresh /\ AckIsOwn

-----------------------------------------------------------------------------
(* The inductive invariant: the listing a second lookup may read from the cache   *)
(* was fetched after the call began (it was invalidated since), and a call that   *)
(* starts a pass reaches the server at most once.                                *)
Healths == {"whole", "degraded", "damaged"}
Wordings ==
    {NoText, "none", "noneDegraded", "hits", "hitsDegraded", "indexing", "repo_busy", "index_damaged",
     "not_found", "internal_error", "unknownRepo", "severalRepos", "unreachable"}
ToolType ==
    [op : {"none", "search", "context", "index"}, want : Wants \cup {Nobody},
     pc : Requesting \cup {"idle", "naming", "invalidating", "answered"}, attempt : Nat, second : BOOLEAN,
     scope : GatewayRepos \cup {Nobody}, since : Nat, listed : Nat, answer : Wordings, whole : BOOLEAN,
     arrived : BOOLEAN, running : BOOLEAN]

GatewayTypeOK ==
    /\ estate \in [repos : SUBSET GatewayRepos, health : Healths, pass : BOOLEAN]
    /\ names \in [repos : SUBSET GatewayRepos, fetched : Nat, filled : BOOLEAN]
    /\ asking \in [Askers -> ToolType] /\ clock \in Nat
    /\ spentOn \in [asks : Nat, changes : Nat, losses : Nat]

CallSound(c) ==
    /\ c.since <= clock
    /\ c.pc = "naming" /\ c.second /\ names.filled => names.fetched >= c.since
    /\ c.pc = "starting" => ~c.arrived
    /\ c.pc # "answered" => c.answer = NoText

AnswerSound(c) ==
    /\ c.answer = "none" => c.whole
    /\ c.answer = "unknownRepo" => c.listed >= c.since
    /\ c.answer = "repo_busy" => c.running

GatewayInv == GatewayTypeOK /\ \A a \in Askers : CallSound(asking[a]) /\ AnswerSound(asking[a])
=============================================================================
