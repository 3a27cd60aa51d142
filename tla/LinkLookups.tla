----------------------------- MODULE LinkLookups -----------------------------
(***************************************************************************)
(* The linker's lookups on every small estate: one edge, and the units the *)
(* store hands over one by one.                                            *)
(***************************************************************************)
EXTENDS LinkMatch

CONSTANTS
    MaxUnits,       \* units a lookup has to choose from
    Home            \* the repository of the edge

ASSUME LinkLookupsAssumption == MaxUnits \in Nat /\ Home \in {1, 2}

VARIABLES
    lookup,     \* "", or the kind of edge being resolved
    loaded,     \* the units, in load order
    wanted      \* the destination the edge names

matchVars == <<lookup, loaded, wanted>>

(* The units and edges an indexed estate can hold, one family per kind of edge.  *)
Paths == {<<>>, <<1>>, <<2>>, <<1, 2>>, <<2, 1>>}
Rank(name) == FoldLeft(LAMBDA acc, c : acc * 3 + c, 1, name)

UnitsOf(kind) ==
    CASE kind = "local" -> {[at |-> <<Home, Rank(o), f, l>>, owner |-> o] :
                              o \in Paths, f \in {1, 2}, l \in {1, 2}}
      [] kind = "rpc" -> {[at |-> <<r, Rank(Append(s, m)), f, 1>>, method |-> m, svc |-> s] :
                            s \in {<<1>>, <<2>>, <<1, 2>>}, m \in {1, 2}, r \in {1, 2}, f \in {1, 2}}
      [] kind = "route" -> {[at |-> <<r, Rank(Append(s, m)), f, 1>>, method |-> m, segs |-> s] :
                              s \in {<<>>, <<0>>, <<1>>, <<1, 0>>, <<1, 2>>}, m \in {0, 1, 2},
                              r \in {1, 2}, f \in {1, 2}}
      [] kind = "table" -> {[at |-> <<r, Rank(<<s, t>>), f, 1>>, schema |-> s, table |-> t, entity |-> e] :
                              s \in {0, 1}, t \in {1, 2}, e \in {0, 1, 2}, r \in {1, 2}, f \in {1, 2}}
      [] kind = "config" -> {[at |-> <<r, Rank(p), f, 1>>, path |-> p,
                              leaf |-> SubSeq(p, IF Len(p) > n THEN Len(p) - n + 1 ELSE 1, Len(p))] :
                               p \in {<<1>>, <<1, 2>>, <<2, 2>>, <<2, 1, 2>>}, n \in {1, 2},
                               r \in {1, 2}, f \in {1, 2}}

EdgesOf(kind) ==
    CASE kind = "local" -> [recv : Paths, file : {1, 3}]
      [] kind = "rpc" -> [method : {1}, svc : {<<>>, <<2>>, <<1, 2>>}]
      [] kind = "route" -> [method : {0, 1}, segs : {<<>>, <<1>>, <<1, 2>>, <<0, 2>>}]
      [] kind = "table" -> [schema : {0, 1}, table : {1}]
      [] kind = "config" -> {<<2>>, <<1, 2>>, <<2, 1, 2>>}

Candidates(kind, units, edge) ==
    CASE kind = "local" -> resolveLocalTarget(units, edge)
      [] kind = "rpc" -> rpcCandidates(units, edge)
      [] kind = "route" -> routeCandidates(units, edge, Home)
      [] kind = "table" -> tableCandidates(units, edge, Home)

MatchInit == lookup = "" /\ loaded = <<>> /\ wanted = <<>>

ResolveEdge(kind) ==
    /\ lookup = ""
    /\ lookup' = kind
    /\ wanted' \in EdgesOf(kind)
    /\ loaded' = <<>>

LoadUnit ==
    /\ lookup # ""
    /\ Len(loaded) < MaxUnits
    /\ \E u \in UnitsOf(lookup) :
          /\ \A i \in DOMAIN loaded : loaded[i].at # u.at
          /\ loaded' = Append(loaded, u)
    /\ UNCHANGED <<lookup, wanted>>

MatchNext ==
    \/ \E kind \in {"local", "rpc", "route", "table", "config"} : ResolveEdge(kind)
    \/ LoadUnit

-----------------------------------------------------------------------------
(* The destination of a contract or call edge does not depend on the order the   *)
(* store loads the units in: linker.go:570 "storage order must never decide      *)
(* which of several equally plausible destinations wins".                        *)
LoadOrderIrrelevant ==
    lookup \in {"local", "rpc", "route", "table"} =>
        Candidates(lookup, loaded, wanted) = Candidates(lookup, Reverse(loaded), wanted)

(* What each index promises, against a scan of every unit without an index.      *)
OwnedExactly ==
    lookup = "local" =>
        ToSet(ownedBy(loaded, wanted.recv)) = {u \in ToSet(loaded) : receiverMatches(u, wanted.recv)}

RouteBestExactly ==
    lookup = "route" =>
        LET best == Candidates("route", loaded, wanted)
        IN \A u \in ToSet(loaded) : routeMatchScoreSegs(wanted, u) <= best.conf

ConfigBestExactly ==
    lookup = "config" =>
        LET best == matchConfigKey(loaded, wanted, Home)
            fits == {k \in ToSet(loaded) : configMatchTier(k, wanted) > 0}
        IN /\ (best = NoUnit) <=> (fits = {})
           /\ \A k \in fits :
                 /\ configMatchTier(best, wanted) >= configMatchTier(k, wanted)
                 /\ (/\ configMatchTier(best, wanted) = configMatchTier(k, wanted)
                     /\ k.at[1] = Home) => best.at[1] = Home

(* An indexed lookup finds what a scan of all units would: no unit outside the   *)
(* bucket the index looks in is a better answer ("Bucketing on it is therefore   *)
(* exact, not a prefilter"), a full path outranks a leaf whatever the            *)
(* repository, and the repository decides only within a tier.                    *)
IndexedLookupIsExact == OwnedExactly /\ RouteBestExactly /\ ConfigBestExactly

(* What the linker's lookups promise: the candidate does not depend on the     *)
(* order units were loaded in, and the index finds what a scan would.          *)
LookupsSound == LoadOrderIrrelevant /\ IndexedLookupIsExact
=============================================================================
