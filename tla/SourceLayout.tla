----------------------------- MODULE SourceLayout -----------------------------
(***************************************************************************)
(* What the server reads off a directory it is pointed at: the checkouts   *)
(* below it (internal/repos/discover.go), and the services of one checkout *)
(* (svcdetect.go, manifest.go), whose names every consumer of the service  *)
(* graph keys its links on.                                                *)
(*                                                                         *)
(* A directory is the sequence of its components, and so is a name: one    *)
(* component, or several once it had to be qualified.                      *)
(***************************************************************************)
EXTENDS Integers, Sequences, FiniteSets, SequencesExt, FiniteSetsExt

CONSTANTS
    Folders,            \* the directories below the source root
    Hidden,             \* names that begin with a dot
    DiscoveryDepth,     \* how far below the root Discover looks
    ServiceDirs,        \* directories that may hold a build manifest
    ComposeServices,    \* [name, root] a compose file may declare
    CmdNames,           \* directories that cmd/ may hold with a main.go
    Declarations,       \* sequences of [name, root] a .ragota.yaml may declare
    Hints,              \* sequences of [name, root] an LLM may suggest
    SkipDirs,           \* names detectManifests never enters
    WalkDepth,          \* maxDepth: how far below the root it does
    MaxNameDepth        \* components a qualified name may have

ASSUME SourceLayoutAssumption ==
    {DiscoveryDepth, WalkDepth, MaxNameDepth} \subseteq Nat

VARIABLES
    gits,       \* the directories that hold a .git
    files,      \* [declared, compose, cmd, manifests]: what detection finds
    services    \* the services detected so far, in order, each [name, root, by]

layoutVars == <<gits, files, services>>

Undetected == <<>>

-----------------------------------------------------------------------------
(* discover.go *)

(* Mutant of Scan: a checkout is entered too. *)
ScanInside(dir) == {c \in gits : Len(c) <= DiscoveryDepth /\ Range(c) \cap Hidden = {}}

(* IsRepoRoot, and scan: a checkout is recorded and not entered, a hidden          *)
(* directory is neither.                                                           *)
Scan(dir) ==
    LET Below[n \in 0 .. DiscoveryDepth] ==
            [d \in Folders \cup {<<>>} |->
                IF n = 0 THEN {}
                ELSE UNION {IF c \in gits THEN {c} ELSE Below[n - 1][c] :
                            c \in {f \in Folders : /\ Len(f) = Len(d) + 1 /\ IsPrefix(d, f)
                                                   /\ Last(f) \notin Hidden}}]
    IN Below[DiscoveryDepth][dir]

(* Discover: the root itself when it is a checkout, and as a guess when none is.    *)
Discover ==
    IF <<>> \in gits \/ Scan(<<>>) = {} THEN {<<>>} ELSE Scan(<<>>)

-----------------------------------------------------------------------------
(* svcdetect.go *)

Svc(name, root, by) == [name |-> name, root |-> root, by |-> by]

detectCmdDirs == {Svc(<<n>>, <<"cmd", n>>, "cmd") : n \in files.cmd}

(* detectManifests: named for their directory, unless the walk never gets there.    *)
detectManifests ==
    {Svc(<<Last(d)>>, d, "manifest") :
        d \in {x \in files.manifests : Range(x) \cap SkipDirs = {} /\ Len(x) <= WalkDepth}}

(* add: the first service to claim a root keeps it.                                 *)
Unclaimed(found, claimed) == {s \in found : \A c \in claimed : c.root # s.root}

(* rootTail *)
rootTail(root, n) == IF n < Len(root) THEN SubSeq(root, Len(root) - n + 1, Len(root)) ELSE root

Qualified(svcs, depth) ==
    {IF /\ s.root # <<>>
        /\ \E o \in svcs \ {s} : o.name = s.name
     THEN [s EXCEPT !.name = rootTail(s.root, depth)] ELSE s : s \in svcs}

(* Mutant of disambiguateNames: one parent is enough. *)
disambiguateNamesOnce(svcs) == Qualified(svcs, 2)

(* disambiguateNames: repeats take in one more directory at a time, until a round    *)
(* changes nothing or the bound is reached.                                         *)
disambiguateNames(svcs) ==
    LET After[depth \in 1 .. MaxNameDepth] ==
            IF depth = 1 THEN svcs
            ELSE IF depth > 2 /\ After[depth - 1] = After[depth - 2] THEN After[depth - 1]
            ELSE Qualified(After[depth - 1], depth)
    IN After[MaxNameDepth]

(* DetectServices: a declaration wins outright; else compose services in whichever    *)
(* order the map of them is read (order), cmd directories and build manifests, else   *)
(* the repository itself.                                                           *)
DetectServices(order) ==
    LET compose == {s \in Range(order) : \A t \in Range(order) : t.root = s.root =>
                       \E i, j \in DOMAIN order : order[i] = s /\ order[j] = t /\ i <= j}
        withCmd == compose \cup Unclaimed(detectCmdDirs, compose)
        all == withCmd \cup Unclaimed(detectManifests, withCmd)
    IN IF files.declared # <<>> THEN files.declared
       ELSE IF all = {} THEN <<Svc(<<"repo">>, <<>>, "root")>>
       ELSE SetToSeq(disambiguateNames(all))

Detect(order) ==
    /\ services = Undetected
    /\ services' = DetectServices(order)
    /\ UNCHANGED <<gits, files>>

(* MergeServiceHints: a hint is taken for a root nobody claims, the first one first.   *)
MergeServiceHints(hints) ==
    /\ services # Undetected /\ \A i \in DOMAIN services : services[i].by # "llm"
    /\ services' = FoldLeft(LAMBDA out, h :
           IF h.name = <<>> \/ \E i \in DOMAIN out : out[i].root = h.root THEN out
           ELSE Append(out, Svc(h.name, h.root, "llm")), services, hints)
    /\ UNCHANGED <<gits, files>>

(* Mutant of ServiceFor: the first root that fits. *)
ServiceForFirst(path) ==
    LET fits == {i \in DOMAIN services : IsPrefix(services[i].root, path)}
    IN IF fits = {} THEN <<>> ELSE services[Min(fits)].name

(* ServiceFor: the longest root the path is under, the first of equals.               *)
ServiceFor(path) ==
    LET fits == {i \in DOMAIN services : IsPrefix(services[i].root, path)}
        longest == {i \in fits : \A j \in fits : Len(services[j].root) <= Len(services[i].root)}
    IN IF fits = {} THEN <<>> ELSE services[Min(longest)].name

-----------------------------------------------------------------------------
Tagged(found, by) == {Svc(s.name, s.root, by) : s \in found}

LayoutInit ==
    /\ services = Undetected
    /\ \/ /\ gits \in SUBSET (Folders \cup {<<>>})
          /\ files = [declared |-> <<>>, compose |-> {}, cmd |-> {}, manifests |-> {}]
       \/ /\ gits = {}
          /\ files \in [declared : {[i \in DOMAIN d |-> Svc(d[i].name, d[i].root, "ragota.yaml")]
                                       : d \in Declarations},
                        compose : {Tagged(c, "docker-compose") : c \in SUBSET ComposeServices},
                        cmd : SUBSET CmdNames, manifests : SUBSET ServiceDirs]

LayoutNext ==
    \/ \E order \in SetToSeqs(files.compose) : Detect(order)
    \/ \E hints \in Hints : MergeServiceHints(hints)

-----------------------------------------------------------------------------
(* Properties *)

(* Discover returns the outermost checkouts: each within the depth bound, none below  *)
(* another or inside a hidden directory, and none such left out; a monorepo of        *)
(* services or a checkout with submodules is one result.                             *)
DiscoverIsOutermost ==
    LET Reachable(d) == /\ Len(d) <= DiscoveryDepth
                        /\ Range(d) \cap Hidden = {}
                        /\ \A n \in 0 .. Len(d) - 1 : SubSeq(d, 1, n) \notin gits
        outer == {d \in gits : Reachable(d)}
    IN Discover = IF outer = {} THEN {<<>>} ELSE outer

(* "Every consumer of a service graph keys links on the name" (disambiguateNames):    *)
(* detected services have distinct roots, and distinct names wherever they are named  *)
(* for directories no deeper than a name can be qualified; a hint never takes a root  *)
(* from a detected service; and a file belongs to the service whose root is nearest   *)
(* above it.                                                                         *)
ServicesTellApart ==
    LET found == {s \in Range(services) : s.by # "llm"}
    IN services # Undetected =>
        /\ files.declared = <<>> =>
              \A s, t \in Range(services) : s # t => s.root # t.root
        /\ (/\ files.declared = <<>>
            /\ \A s \in found : Len(s.root) <= MaxNameDepth
            /\ \A c \in files.compose : c.name = <<Last(c.root)>>) =>
              \A s, t \in found : s # t => s.name # t.name
        /\ \A d \in ServiceDirs, i \in DOMAIN services :
              (IsPrefix(services[i].root, d) /\ ServiceFor(d) # services[i].name) =>
                  \E j \in DOMAIN services :
                      /\ services[j].name = ServiceFor(d) /\ IsPrefix(services[j].root, d)
                      /\ Len(services[j].root) >= Len(services[i].root)

(* What discovery promises: the outermost repositories, and services whose     *)
(* names and files tell them apart.                                            *)
LayoutSound == DiscoverIsOutermost /\ ServicesTellApart
=============================================================================
