------------------------------ MODULE MCServer ------------------------------
(* The process around the index, part by part: the progress bus, the request   *)
(* gate, the repository catalogue, the keyword index, ignore rules, source     *)
(* layout, git clones, the agent gateway, startup and the schema migrations.   *)
(* They share no state in these models, so a behaviour moves one of them,      *)
(* chosen at the start, and the state space is the sum of theirs; the parts at *)
(* rest stay in one initial state.                                             *)
EXTENDS ProgressBus, ApiGate, RepoCatalog, KeywordIndex, IgnoreRules,
        SourceLayout, GitClones, AgentGateway, Startup, Migrations

VARIABLE part

Parts == {"bus", "gate", "catalog", "keyword", "rules", "layout", "clones",
          "gateway", "startup", "migrations"}

------------------------------------------------------------------------------
(* KeywordIndex: a text of several windows, one shorter than a window, and one *)
(* that does not parse.                                                        *)
KeySymbol(n, a, b) == [name |-> n, from |-> a, to |-> b]
MCTexts ==
    <<[lines |-> 5, symbols |-> {KeySymbol(1, 1, 5), KeySymbol(2, 2, 3)}, annotated |-> TRUE, parses |-> TRUE],
      [lines |-> 2, symbols |-> {KeySymbol(3, 1, 2), KeySymbol(4, 2, 2)}, annotated |-> TRUE, parses |-> TRUE],
      [lines |-> 3, symbols |-> {KeySymbol(5, 1, 3)}, annotated |-> TRUE, parses |-> FALSE]>>

(* IgnoreRules: a directory in a directory, a file named like the directory's  *)
(* beginning, and lines that ignore, rescue and anchor.                        *)
Line(neg, dir, anch, ins, parts) ==
    [negate |-> neg, dirOnly |-> dir, anchored |-> anch, inside |-> ins, parts |-> parts]
AnyX == Line(FALSE, FALSE, FALSE, FALSE, <<"x">>)
MCTreeDirs == {<<"d">>, <<"d", "e">>}
MCTreeFiles == {<<"dd">>, <<"d", "x">>, <<"d", "e", "x">>}
MCBeginning == [n \in {"d", "e", "x"} |-> IF n = "d" THEN {"d", "dd"} ELSE {n}]
MCRootLines ==
    {<<>>, <<AnyX>>, <<Line(FALSE, TRUE, FALSE, FALSE, <<"d">>)>>,
     <<Line(FALSE, TRUE, FALSE, FALSE, <<"d">>), Line(TRUE, FALSE, TRUE, FALSE, <<"d", "x">>)>>,
     <<Line(FALSE, FALSE, TRUE, TRUE, <<"d">>), Line(TRUE, FALSE, TRUE, FALSE, <<"d", "x">>)>>,
     <<AnyX, Line(TRUE, FALSE, FALSE, FALSE, <<"x">>)>>}
MCDirLines == {<<>>, <<Line(TRUE, FALSE, FALSE, FALSE, <<"x">>)>>,
               <<Line(FALSE, TRUE, TRUE, FALSE, <<"e">>)>>, <<AnyX>>}
MCExcludeLines == {<<>>, <<AnyX>>}
MCConfigured == {{}, {[form |-> "anywhere", parts |-> <<"e">>]}, {[form |-> "under", parts |-> <<"d">>]},
                 {[form |-> "whole", parts |-> <<"d">>]}}

(* SourceLayout: nested and hidden folders, services that share a base name.   *)
MCFolders == {<<"a">>, <<"a", "b">>, <<"a", "b", "c">>, <<".h">>, <<".h", "b">>, <<"d">>}
MCServiceDirs == {<<"a">>, <<"s", "a">>, <<"t", "s", "a">>, <<"u", "s", "a">>, <<"vendor", "a">>}
MCComposeServices == {[name |-> <<"a">>, root |-> <<"t", "s", "a">>], [name |-> <<"w">>, root |-> <<"s", "a">>],
                      [name |-> <<"a">>, root |-> <<"s", "a">>]}
MCDeclarations == {<<>>, <<[name |-> <<"p">>, root |-> <<"s">>], [name |-> <<"q">>, root |-> <<"s", "a">>]>>}
MCHints == {<<>>, <<[name |-> <<"h">>, root |-> <<"s">>], [name |-> <<"g">>, root |-> <<"s">>]>>}

(* GitClones: two urls that share a directory.  AgentGateway: a wanted name    *)
(* that one repository has and two begin with.                                 *)
MCDirOf == [r \in {"r1", "r2", "r3"} |-> IF r = "r3" THEN "b" ELSE "a"]
MCNamed == [w \in Wants |-> IF w = "api" THEN {"api-1"} ELSE {}]
MCPrefixed == [w \in Wants |-> IF w = "api" THEN {"api-1", "apix-2"} ELSE {"apix-2"}]

(* Startup: the single-process and the shared deployment of the example files. *)
LocalProfile ==
    [server |-> "fine", relational |-> {"sqlite"}, dsn |-> FALSE, qdrant |-> "none", qdrantKey |-> FALSE,
     vector |-> "off", model |-> "", dimensions |-> FALSE, embedderURL |-> "", openai |-> "absent",
     summaries |-> "off", summariesModel |-> FALSE, assistant |-> "off", assistantModel |-> FALSE,
     rerank |-> "off", git |-> "off", lsp |-> "off", bm25 |-> TRUE]
SharedProfile ==
    [server |-> "fine", relational |-> {"postgres"}, dsn |-> TRUE, qdrant |-> "cloud", qdrantKey |-> TRUE,
     vector |-> "openai", model |-> "known", dimensions |-> FALSE, embedderURL |-> "", openai |-> "keyed",
     summaries |-> "openai", summariesModel |-> TRUE, assistant |-> "ollama", assistantModel |-> TRUE,
     rerank |-> "on", git |-> "on", lsp |-> "off", bm25 |-> TRUE]
MCProfiles == {LocalProfile, SharedProfile}

------------------------------------------------------------------------------
(* Where a part with many initial states rests while another one moves.        *)
Rests(p) ==
    CASE p = "migrations" -> backend = "sqlite" /\ database = BuiltTo("sqlite", 0, {}) /\ leftBehind = {}
      [] p = "startup" -> config = LocalProfile
      [] p = "keyword" -> shape = {}
      [] p = "rules" -> checkout = [ignores |-> [d \in TreeDirs \cup {<<>>} |-> <<>>],
                                    exclude |-> <<>>, tracked |-> {}, patterns |-> {}]
      [] p = "layout" -> gits = {} /\ files = [declared |-> <<>>, compose |-> {}, cmd |-> {}, manifests |-> {}]

MovesOrRests(p) == IF part = p THEN TRUE ELSE Rests(p)

Init ==
    /\ part \in Parts
    /\ BusInit /\ GateInit /\ CatalogInit /\ ClonesInit /\ GatewayInit
    /\ MovesOrRests("migrations") /\ MigrationsInit
    /\ MovesOrRests("startup") /\ StartupInit
    /\ MovesOrRests("keyword") /\ KeyInit
    /\ MovesOrRests("rules") /\ RulesInit
    /\ MovesOrRests("layout") /\ LayoutInit

(* Every part but p stays as it is.                                            *)
Only(p) ==
    /\ part = p /\ UNCHANGED part
    /\ IF p = "bus" THEN TRUE ELSE UNCHANGED busVars
    /\ IF p = "gate" THEN TRUE ELSE UNCHANGED gateVars
    /\ IF p = "catalog" THEN TRUE ELSE UNCHANGED catalogVars
    /\ IF p = "keyword" THEN TRUE ELSE UNCHANGED keyVars
    /\ IF p = "rules" THEN TRUE ELSE UNCHANGED ruleVars
    /\ IF p = "layout" THEN TRUE ELSE UNCHANGED layoutVars
    /\ IF p = "clones" THEN TRUE ELSE UNCHANGED cloneVars
    /\ IF p = "gateway" THEN TRUE ELSE UNCHANGED gatewayVars
    /\ IF p = "startup" THEN TRUE ELSE UNCHANGED startupVars
    /\ IF p = "migrations" THEN TRUE ELSE UNCHANGED migrationVars

Next ==
    \/ Only("bus") /\ BusNext
    \/ Only("gate") /\ GateNext
    \/ Only("catalog") /\ CatalogNext
    \/ Only("keyword") /\ KeyNext
    \/ Only("rules") /\ RulesNext
    \/ Only("layout") /\ LayoutNext
    \/ Only("clones") /\ ClonesNext
    \/ Only("gateway") /\ GatewayNext
    \/ Only("startup") /\ StartupNext
    \/ Only("migrations") /\ MigrationsNext

(* The ignore rules keep their promise in every checkout and after every edit  *)
(* of this run; the checkout at rest is one of them.                           *)
RulesHold == part = "rules" => RulesSound
=============================================================================
