-------------------------------- MODULE Startup --------------------------------
(***************************************************************************)
(* From a configuration file to a running server and back: the rules of    *)
(* config.Validate, the dry run of --check-config, the wiring of           *)
(* bootstrap.Build, and the life of main: scan, listener, watcher, serving *)
(* and the deferred shutdown.                                              *)
(*                                                                         *)
(* An operator edits a working configuration, checks it, and runs it; any  *)
(* step of the wiring may also fail for reasons outside the file.          *)
(***************************************************************************)
EXTENDS Naturals, FiniteSets, Sequences

CONSTANTS
    Profiles,           \* the configurations an operator starts from
    MaxConfigEdits,     \* bound: settings changed in one
    MaxWireFaults       \* bound: wiring steps that fail for outside reasons

VARIABLES
    config,     \* the file, defaults applied
    verdict,    \* of the last --check-config on it: "none", "invalid", "unreachable", "ok"
    process,    \* [pc, source, watch, outcome, stopped, late]
    resources,  \* what the process holds open
    tasks,      \* [scan, follow, pass, request] running in it
    mishaps     \* [edits, faults]

startupVars == <<config, verdict, process, resources, tasks, mishaps>>

Unset == ""

(* The settings the rules tell apart; "own" and "public" are endpoints.               *)
Settings ==
    [server |-> {"fine", "wrong"},
     relational |-> {{}, {"sqlite"}, {"postgres"}, {"sqlite", "postgres"}},
     dsn |-> BOOLEAN,
     qdrant |-> {"none", "docker_embedded", "cloud"},
     qdrantKey |-> BOOLEAN,
     vector |-> {"off", Unset, "ollama", "openai", "other"},
     model |-> {Unset, "known", "unknown"},
     dimensions |-> BOOLEAN,
     embedderURL |-> {Unset, "own", "public"},
     openai |-> {"absent", "keyed", "public", "gateway"},
     summaries |-> {"off", "ollama", "openai", "other"},
     summariesModel |-> BOOLEAN,
     assistant |-> {"off", "ollama", "openaiKeyed", "openaiBare", "other"},
     assistantModel |-> BOOLEAN,
     rerank |-> {"off", "noURL", "on"},
     git |-> {"off", "noDir", "noToken", "on"},
     lsp |-> {"off", "noServers", "on"},
     bm25 |-> BOOLEAN]

(* A file that has every setting, at one of its values.                                *)
WellFormed(c) ==
    /\ c = [f \in DOMAIN Settings |-> c[f]]
    /\ \A f \in DOMAIN Settings : c[f] \in Settings[f]

ASSUME StartupAssumption ==
    /\ {MaxConfigEdits, MaxWireFaults} \subseteq Nat
    /\ \A c \in Profiles : WellFormed(c)

NotRunning == [pc |-> "editing", source |-> FALSE, watch |-> FALSE, outcome |-> "none",
         stopped |-> FALSE, late |-> FALSE]

NoTasks == [scan |-> "off", follow |-> "off", pass |-> FALSE, request |-> FALSE]

StartupInit ==
    /\ config \in Profiles /\ verdict = "none"
    /\ process = NotRunning /\ resources = {} /\ tasks = NoTasks
    /\ mishaps = [edits |-> 0, faults |-> 0]

VectorOn(c) == c.vector # "off"

-----------------------------------------------------------------------------
(* config.Validate: every rule is evaluated, the broken ones are reported together *)

(* validateServer: ranges and enumerations, nothing another section depends on.        *)
validateServer(c) == IF c.server = "wrong" THEN {"server"} ELSE {}

validateStorage(c) ==
    {e \in {"relational", "dsn", "qdrantKey"} :
        CASE e = "relational" -> c.relational = {}
          [] e = "dsn" -> "postgres" \in c.relational /\ ~c.dsn
          [] e = "qdrantKey" -> c.qdrant = "cloud" /\ ~c.qdrantKey}

(* Mutant of validateIndexes: the vector index is taken without a vector store. *)
validateIndexesStoreless(c) ==
    {e \in {"provider", "model"} :
        /\ VectorOn(c)
        /\ CASE e = "provider" -> c.vector \notin {"ollama", "openai"}
             [] e = "model" -> c.model = Unset}

validateIndexes(c) ==
    {e \in {"provider", "model", "vectorStore"} :
        /\ VectorOn(c)
        /\ CASE e = "provider" -> c.vector \notin {"ollama", "openai"}
             [] e = "model" -> c.model = Unset
             [] e = "vectorStore" -> c.qdrant = "none"}

(* validateModels: the public OpenAI endpoint needs a key, if the provider is declared  *)
(* at all and something uses it.                                                     *)
validateModels(c) ==
    {e \in {"summaries", "summariesModel", "assistant", "assistantModel", "assistantKey", "openaiKey"} :
        CASE e = "summaries" -> c.summaries = "other"
          [] e = "summariesModel" -> c.summaries # "off" /\ ~c.summariesModel
          [] e = "assistant" -> c.assistant = "other"
          [] e = "assistantModel" -> c.assistant # "off" /\ ~c.assistantModel
          [] e = "assistantKey" -> c.assistant = "openaiBare"
          [] e = "openaiKey" -> c.openai = "public" /\ (c.vector = "openai" \/ c.summaries = "openai")}

validateLSP(c) == IF c.lsp = "noServers" THEN {"lsp"} ELSE {}

validateRest(c) ==
    {e \in {"rerank", "git"} :
        CASE e = "rerank" -> c.rerank = "noURL"
          [] e = "git" -> c.git \in {"noDir", "noToken"}}

Validate(c) ==
    validateServer(c) \cup validateStorage(c) \cup validateIndexes(c)
        \cup validateModels(c) \cup validateLSP(c) \cup validateRest(c)

-----------------------------------------------------------------------------
(* --check-config *)

(* dependencyProbes: the endpoints the server would dial.                            *)
dependencyProbes(c) ==
    {e \in {"qdrant", "rerank", "embedder", "summaries", "assistant", "lsp"} :
        CASE e = "qdrant" -> c.qdrant # "none"
          [] e = "rerank" -> c.rerank # "off"
          [] e = "embedder" -> VectorOn(c)
          [] e = "summaries" -> c.summaries = "openai" /\ c.openai = "gateway"
          [] e = "assistant" -> c.assistant # "off"
          [] e = "lsp" -> c.lsp # "off"}

(* runCheckConfig: with the given endpoints down.                                     *)
runCheckConfig(down) ==
    /\ process.pc = "editing"
    /\ verdict' = IF Validate(config) # {} THEN "invalid"
                  ELSE IF down # {} THEN "unreachable" ELSE "ok"
    /\ UNCHANGED <<config, process, resources, tasks, mishaps>>

-----------------------------------------------------------------------------
(* bootstrap.Build *)

(* embedderBaseURL: the embedder's own endpoint wins, for the provider it selects.      *)
embedderBaseURL(c, provider) ==
    IF c.embedderURL # Unset /\ c.vector = provider THEN c.embedderURL
    ELSE IF provider = "openai" /\ c.openai = "gateway" THEN "own"
    ELSE IF provider = "openai" /\ c.openai = "public" THEN "public" ELSE Unset

ollamaConfigured(c) == embedderBaseURL(c, "ollama") # Unset \/ c.vector = "ollama"

openaiConfigured(c) == c.openai # "absent" \/ c.vector = "openai"

(* resolveDims *)
resolveDims(c) == c.dimensions \/ c.model = "known"

(* initOllamaEmbedder, initOpenAIEmbedder and their constructors: what they refuse.     *)
initOllamaEmbedder(c) == c.model # Unset /\ resolveDims(c)

initOpenAIEmbedder(c) ==
    /\ c.model # Unset /\ resolveDims(c)
    /\ c.openai = "keyed" \/ embedderBaseURL(c, "openai") = "own"

initVectorIndexer(c) == c.vector \in {"ollama", "openai"} /\ c.qdrant # "none"

(* initGenerator over NewOllamaGenerator and NewOpenAIGenerator.                      *)
initGenerator(c) ==
    /\ c.summariesModel
    /\ \/ c.summaries = "ollama"
       \/ c.summaries = "openai" /\ c.openai \in {"keyed", "gateway"}

initAssistant(c) == c.assistantModel /\ c.assistant \in {"ollama", "openaiKeyed"}

(* The wiring in its order; the step a configuration does not ask for is skipped.       *)
WireSteps ==
    <<"validate", "store", "qdrant", "ollama", "openai", "vector", "bm25", "git", "rerank",
      "init", "generator", "assistant">>

Configures(c, step) ==
    CASE step = "qdrant" -> c.qdrant # "none"
      [] step = "ollama" -> VectorOn(c) /\ ollamaConfigured(c)
      [] step = "openai" -> VectorOn(c) /\ openaiConfigured(c)
      [] step = "vector" -> VectorOn(c)
      [] step = "bm25" -> c.bm25
      [] step = "git" -> c.git # "off"
      [] step = "rerank" -> c.rerank # "off"
      [] step = "generator" -> c.summaries # "off"
      [] step = "assistant" -> c.assistant # "off"
      [] OTHER -> TRUE

Accepted(c, step) ==
    CASE step = "validate" -> Validate(c) = {}
      [] step = "store" -> c.relational # {} /\ ("postgres" \in c.relational => c.dsn)
      [] step = "qdrant" -> c.qdrant = "cloud" => c.qdrantKey
      [] step = "ollama" -> initOllamaEmbedder(c)
      [] step = "openai" -> initOpenAIEmbedder(c)
      [] step = "vector" -> initVectorIndexer(c)
      [] step = "rerank" -> c.rerank = "on"
      [] step = "generator" -> initGenerator(c)
      [] step = "assistant" -> initAssistant(c)
      [] OTHER -> TRUE

Fails(c, broken) ==
    {i \in DOMAIN WireSteps :
        Configures(c, WireSteps[i]) /\ (WireSteps[i] = broken \/ ~Accepted(c, WireSteps[i]))}

FirstFailure(c, broken) == CHOOSE i \in Fails(c, broken) : \A j \in Fails(c, broken) : i <= j

(* What the steps before the given one left open.                                    *)
OpenedBefore(c, n) ==
    {r \in {"store", "qdrant", "bm25"} : \E i \in 1..(n - 1) : WireSteps[i] = r /\ Configures(c, r)}

(* Mutant of AfterFailure: the store stays open. *)
AfterFailureOpen(opened) == opened

(* The deferred close of a failed Build: the store and the vector store it was given;    *)
(* the keyword index is left to the end of the process.                              *)
AfterFailure(opened) == opened \ {"store", "qdrant"}

(* Build, with one step failing for reasons outside the file, or none.                 *)
Build(cmd, source, watch, broken) ==
    /\ process.pc = "editing"
    /\ broken # "none" => mishaps.faults < MaxWireFaults /\ Configures(config, broken)
    /\ mishaps' = [mishaps EXCEPT !.faults = IF broken = "none" THEN @ ELSE @ + 1]
    /\ IF Fails(config, broken) = {}
       THEN /\ resources' = OpenedBefore(config, Len(WireSteps) + 1)
            /\ process' = [NotRunning EXCEPT !.pc = cmd, !.source = source, !.watch = watch, !.outcome = "built"]
       ELSE /\ resources' = AfterFailure(OpenedBefore(config, FirstFailure(config, broken)))
            /\ process' = [NotRunning EXCEPT !.pc = "refused",
                           !.outcome = IF WireSteps[FirstFailure(config, broken)] = broken
                                       THEN "broken" ELSE "rejected"]
    /\ UNCHANGED <<config, verdict, tasks>>

(* runRepos: one question about the store, and the service is closed.                   *)
runRepos ==
    /\ process.pc = "repos"
    /\ process' = [process EXCEPT !.pc = "exited"] /\ resources' = {}
    /\ UNCHANGED <<config, verdict, tasks, mishaps>>

-----------------------------------------------------------------------------
(* main: run *)

Phase(pc) == process' = [process EXCEPT !.pc = pc]

(* fatalf: the process ends here, with nothing deferred run.                          *)
fatalf(pc) ==
    /\ process.pc = pc
    /\ Phase("exited") /\ resources' = {} /\ tasks' = NoTasks
    /\ UNCHANGED <<config, verdict, mishaps>>

(* DiscoverAndRegister and activateSource: what was found is the working set, and is    *)
(* indexed in the background; a source that matched nothing changes nothing.           *)
activateSource(found) ==
    /\ process.pc = "run" /\ (found => process.source)
    /\ tasks' = [tasks EXCEPT !.scan = IF found THEN "running" ELSE "off"]
    /\ Phase("listening")
    /\ UNCHANGED <<config, verdict, resources, mishaps>>

(* The socket is claimed before the watcher spends descriptors.                       *)
Listen ==
    /\ process.pc = "listening"
    /\ resources' = resources \cup {"listener"}
    /\ Phase("watching")
    /\ UNCHANGED <<config, verdict, tasks, mishaps>>

(* startWatcher: nothing to watch, or no watcher, leaves a server without one.           *)
startWatcher(started) ==
    /\ process.pc = "watching" /\ (started => process.watch)
    /\ tasks' = [tasks EXCEPT !.follow = IF started THEN "running" ELSE "off"]
    /\ resources' = resources \cup (IF started THEN {"watches"} ELSE {})
    /\ Phase("serving")
    /\ UNCHANGED <<config, verdict, mishaps>>

(* A request, and the background pass it may leave behind.                            *)
Request ==
    /\ process.pc = "serving" /\ ~tasks.request
    /\ tasks' = [tasks EXCEPT !.request = TRUE]
    /\ UNCHANGED <<config, verdict, process, resources, mishaps>>

StartPass ==
    /\ tasks.request /\ ~tasks.pass /\ "store" \in resources
    /\ tasks' = [tasks EXCEPT !.pass = TRUE]
    /\ UNCHANGED <<config, verdict, process, resources, mishaps>>

AnswerRequest ==
    /\ tasks.request
    /\ tasks' = [tasks EXCEPT !.request = FALSE]
    /\ UNCHANGED <<config, verdict, process, resources, mishaps>>

(* A scan or a watcher ends by itself, or because its context is cancelled.            *)
Finish(task) ==
    /\ tasks[task] = "running"
    /\ tasks' = [tasks EXCEPT ![task] = "done"]
    /\ UNCHANGED <<config, verdict, process, resources, mishaps>>

FinishPass ==
    /\ tasks.pass
    /\ tasks' = [tasks EXCEPT !.pass = FALSE]
    /\ UNCHANGED <<config, verdict, process, resources, mishaps>>

(* A signal, or the dashboard being quit.                                            *)
Quit ==
    /\ process.pc = "serving"
    /\ process' = [process EXCEPT !.pc = "draining", !.stopped = TRUE]
    /\ resources' = resources \ {"listener"}
    /\ UNCHANGED <<config, verdict, tasks, mishaps>>

(* srv.Shutdown: until the handlers return, or its timeout passes.                     *)
Drained(late) ==
    /\ process.pc = "draining" /\ tasks.request = late
    /\ process' = [process EXCEPT !.pc = "stopWatcher", !.late = late]
    /\ UNCHANGED <<config, verdict, resources, tasks, mishaps>>

(* Mutant of Deferred: the service is closed before the background work is waited for. *)
DeferredInOrder == <<"stopWatcher", "closeService", "waitBackground", "ended">>

(* The deferred calls, last registered first.                                        *)
Deferred == <<"stopWatcher", "waitBackground", "closeService", "ended">>

After(pc) == Deferred[1 + CHOOSE i \in 1..3 : Deferred[i] = pc]

(* w.Close *)
StopWatcher ==
    /\ process.pc = "stopWatcher"
    /\ resources' = resources \ {"watches"}
    /\ Phase(After("stopWatcher"))
    /\ UNCHANGED <<config, verdict, tasks, mishaps>>

(* stopBackground cancels scan and watcher, bg.Wait waits for them.                     *)
WaitBackground ==
    /\ process.pc = "waitBackground" /\ "running" \notin {tasks.scan, tasks.follow}
    /\ Phase(After("waitBackground"))
    /\ UNCHANGED <<config, verdict, resources, tasks, mishaps>>

(* svc.Close: the base context is cancelled and its passes are waited for, ...          *)
CloseService ==
    /\ process.pc = "closeService" /\ ~tasks.pass
    /\ Phase("closeStore")
    /\ UNCHANGED <<config, verdict, resources, tasks, mishaps>>

(* ... then indexers, sources and the store are closed.                              *)
CloseStore ==
    /\ process.pc = "closeStore"
    /\ resources' = resources \ {"store", "qdrant", "bm25"}
    /\ Phase(After("closeService"))
    /\ UNCHANGED <<config, verdict, tasks, mishaps>>

Exit ==
    /\ process.pc = "ended"
    /\ Phase("exited") /\ resources' = {} /\ tasks' = NoTasks
    /\ UNCHANGED <<config, verdict, mishaps>>

(* The operator changes one setting; the verdict was about another file.                *)
EditConfig(f, v) ==
    /\ process.pc = "editing" /\ mishaps.edits < MaxConfigEdits /\ config[f] # v
    /\ config' = [config EXCEPT ![f] = v] /\ verdict' = "none"
    /\ mishaps' = [mishaps EXCEPT !.edits = @ + 1]
    /\ UNCHANGED <<process, resources, tasks>>

StartupNext ==
    \/ \E f \in DOMAIN Settings : \E v \in Settings[f] : EditConfig(f, v)
    \/ \E down \in SUBSET dependencyProbes(config) : runCheckConfig(down)
    \/ \E broken \in {"none"} \cup {WireSteps[i] : i \in DOMAIN WireSteps} :
          \/ Build("repos", FALSE, FALSE, broken)
          \/ \E source, watch \in BOOLEAN : Build("run", source, watch, broken)
    \/ runRepos
    \/ \E pc \in {"run", "listening", "serving"} : fatalf(pc)
    \/ \E found \in BOOLEAN : activateSource(found)
    \/ Listen
    \/ \E started \in BOOLEAN : startWatcher(started)
    \/ Request
    \/ StartPass
    \/ AnswerRequest
    \/ \E task \in {"scan", "follow"} : Finish(task)
    \/ FinishPass
    \/ Quit
    \/ \E late \in BOOLEAN : Drained(late)
    \/ StopWatcher
    \/ WaitBackground
    \/ CloseService
    \/ CloseStore
    \/ Exit

StartupSpec == StartupInit /\ [][StartupNext]_startupVars

-----------------------------------------------------------------------------
(* Properties *)

(* What the dry run does not look at: a model whose dimensions nobody knows, and an      *)
(* OpenAI provider without a key, used undeclared or declared and unused.               *)
UncheckedSetting ==
    \/ VectorOn(config) /\ ~resolveDims(config)
    \/ VectorOn(config) /\ openaiConfigured(config) /\ ~initOpenAIEmbedder(config)
    \/ config.summaries = "openai" /\ config.openai = "absent"

(* "A wiring the dry-run reported OK is one Build accepts" (ollamaConfigured): after a     *)
(* clean --check-config the wiring fails only for outside reasons, or for one of the      *)
(* settings neither Validate nor the probes look at.                                  *)
CheckedIsWired ==
    verdict = "ok" /\ process.outcome = "rejected" => UncheckedSetting

(* "Closing the store on that path keeps a failed Build from leaking the connection        *)
(* pool": whatever step failed, the store and its vector store are closed.               *)
RefusedReleases == process.pc = "refused" => resources \cap {"store", "qdrant"} = {}

(* "The source scan and the watcher ... must not outlive the storage they write to", and   *)
(* the passes of requests do so only when a handler outlived the shutdown timeout.         *)
WritersWithinStore ==
    process.outcome = "built" /\ process.pc # "exited" /\ "store" \notin resources =>
        /\ "running" \notin {tasks.scan, tasks.follow}
        /\ tasks.pass => process.late

(* What startup and shutdown promise.                                               *)
StartupSafe == CheckedIsWired /\ RefusedReleases /\ WritersWithinStore

-----------------------------------------------------------------------------
(* The inductive invariant: a refused wiring was refused by a setting of the file  *)
(* that is still there; the store is open until the last deferred call; and what   *)
(* may still write is gone, or was late, by the time it is closed.                 *)
Wired == {"repos", "run", "listening", "watching", "serving", "draining", "stopWatcher", "waitBackground",
          "closeService", "closeStore"}
Stopping == {"stopWatcher", "waitBackground", "closeService", "closeStore", "ended"}

StartupTypeOK ==
    /\ WellFormed(config) /\ verdict \in {"none", "invalid", "unreachable", "ok"}
    /\ process \in [pc : Wired \cup {"editing", "refused", "ended", "exited"}, source : BOOLEAN, watch : BOOLEAN,
                    outcome : {"none", "built", "broken", "rejected"}, stopped : BOOLEAN, late : BOOLEAN]
    /\ resources \subseteq {"store", "qdrant", "bm25", "listener", "watches"}
    /\ tasks \in [scan : {"off", "running", "done"}, follow : {"off", "running", "done"},
                  pass : BOOLEAN, request : BOOLEAN]
    /\ mishaps \in [edits : Nat, faults : Nat]

VerdictStands ==
    /\ verdict = "ok" => Validate(config) = {}
    /\ process.outcome = "rejected" =>
          /\ process.pc # "editing"
          /\ \E i \in DOMAIN WireSteps : Configures(config, WireSteps[i]) /\ ~Accepted(config, WireSteps[i])

StoreOutlivesWriters ==
    /\ process.pc \in Wired => process.outcome = "built" /\ "store" \in resources
    /\ process.pc \in Stopping /\ tasks.request => process.late
    /\ process.pc \in {"closeService", "closeStore", "ended"} => "running" \notin {tasks.scan, tasks.follow}
    /\ process.pc \in {"closeStore", "ended"} /\ tasks.pass => process.late
    /\ process.outcome = "built" => process.pc \in Wired \cup {"ended", "exited"}

StartupInv == StartupTypeOK /\ VerdictStands /\ StoreOutlivesWriters /\ RefusedReleases
=============================================================================
