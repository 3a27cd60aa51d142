------------------------------ MODULE LinkMatch ------------------------------
(***************************************************************************)
(* How the linker picks the destination of one edge (internal/graph/       *)
(* linker.go): local calls, gRPC methods, HTTP routes, tables and          *)
(* configuration keys, each through an index built once per run.           *)
(*                                                                         *)
(* A name is the sequence of its word components, a component a number.    *)
(* A unit sits at                                                          *)
(* <<repository, rank of its qualified name, file, line>>; units arrive in *)
(* the order the store loads them.  Confidences are in hundredths.         *)
(***************************************************************************)
EXTENDS Integers, Sequences, FiniteSets, SequencesExt

ConfExact == 95
ConfHigh == 90
ConfCrossFile == 80
ConfHeuristic == 70
ConfWeak == 60

NoUnit == [at |-> <<0, 0, 0, 0>>]
NoMatch == [cands |-> <<>>, conf |-> 0]

-----------------------------------------------------------------------------
(* sortUnits: by repository, qualified name, file and position, never by row id. *)
LexLess(a, b) == \E i \in 1 .. 4 : a[i] < b[i] /\ \A j \in 1 .. i - 1 : a[j] = b[j]

sortUnitsByRow(units) == SortSeq(units, LAMBDA a, b : a.at[1] < b.at[1])

sortUnits(units) == SortSeq(units, LAMBDA a, b : LexLess(a.at, b.at))

hasComponentSuffix(seq, suffix) ==
    /\ Len(suffix) \in 1 .. Len(seq)
    /\ SubSeq(seq, Len(seq) - Len(suffix) + 1, Len(seq)) = suffix

Filter(units, Test(_)) == SelectSeq(units, Test)
Tail1(seq) == IF seq = <<>> THEN 0 ELSE Last(seq)

-----------------------------------------------------------------------------
(* Local calls: ownedBy looks only at the definitions whose owner path ends with *)
(* the receiver's last component.                                                *)
ownedBy(units, recv) ==
    LET byTail == Filter(units, LAMBDA u : Tail1(u.owner) = Tail1(recv))
    IN IF recv = <<>> THEN <<>>
       ELSE Filter(byTail, LAMBDA u : hasComponentSuffix(u.owner, recv))

receiverMatches(u, recv) == recv # <<>> /\ u.owner # <<>> /\ hasComponentSuffix(u.owner, recv)

firstInFile(units, file) ==
    LET here == Filter(units, LAMBDA u : u.at[3] = file)
    IN IF here = <<>> THEN NoUnit ELSE here[1]

(* One group of definitions: the one in the caller's file, the only one, a guess. *)
PickFrom(group, file) ==
    LET here == firstInFile(group, file)
    IN CASE here # NoUnit -> [cands |-> <<here>>, conf |-> ConfExact]
         [] here = NoUnit /\ Len(group) = 1 -> [cands |-> group, conf |-> ConfCrossFile]
         [] OTHER -> [cands |-> group, conf |-> ConfHeuristic]

resolveLocalTarget(units, call) ==
    LET sorted == sortUnits(units)
        owned == ownedBy(sorted, call.recv)
    IN IF units = <<>> THEN NoMatch
       ELSE PickFrom(IF owned # <<>> THEN owned ELSE sorted, call.file)

-----------------------------------------------------------------------------
(* gRPC: exact service, service suffix, method alone; a tier of several is a     *)
(* guess.                                                                        *)
Tier(group) ==
    [cands |-> sortUnits(group), conf |-> IF Len(group) = 1 THEN ConfExact ELSE ConfHeuristic]

rpcCandidates(units, key) ==
    LET byMethod == Filter(units, LAMBDA u : u.method = key.method)
        exact == Filter(byMethod, LAMBDA u : key.svc # <<>> /\ u.svc = key.svc)
        suffix == Filter(byMethod, LAMBDA u : u.svc # key.svc /\ hasComponentSuffix(u.svc, key.svc))
    IN CASE exact # <<>> -> Tier(exact)
         [] exact = <<>> /\ suffix # <<>> -> Tier(suffix)
         [] OTHER -> IF byMethod = <<>> THEN NoMatch
                     ELSE [cands |-> sortUnits(byMethod), conf |-> ConfHeuristic]

-----------------------------------------------------------------------------
(* HTTP: a segment 0 is a path parameter, method 0 is ANY.  Scores are multiples *)
(* of 10^-(3 + 2 * segments), so routes of one length compare exactly.           *)
isPathParam(seg) == seg = 0

SegFits(a, b) == a = b \/ isPathParam(a) \/ isPathParam(b)

routeMatchScoreSegs(call, route) ==
    LET method == CASE call.method = route.method -> 10
                    [] call.method # route.method /\ 0 \in {call.method, route.method} -> 8
                    [] OTHER -> 0
        Factor(i) == IF call.segs[i] = route.segs[i] THEN 100 ELSE 95
    IN IF \/ Len(call.segs) # Len(route.segs)
          \/ \E i \in DOMAIN call.segs : ~SegFits(call.segs[i], route.segs[i])
       THEN 0
       ELSE ConfExact * method * FoldLeft(LAMBDA acc, i : acc * Factor(i), 1,
                                          [i \in DOMAIN call.segs |-> i])

RouteOrder(u) == <<u.at[1], u.at[3], u.at[4], u.at[2]>>

(* routeCandidates: best score first; another repository wins a tie.             *)
routeCandidates(units, call, home) ==
    LET bucket == Filter(units, LAMBDA u : Len(u.segs) = Len(call.segs))
        matching == Filter(bucket, LAMBDA u : routeMatchScoreSegs(call, u) > 0)
        SameRepo(u) == u.at[1] = home
        Better(a, b) ==
            LET sa == routeMatchScoreSegs(call, a)
                sb == routeMatchScoreSegs(call, b)
            IN \/ sa > sb
               \/ sa = sb /\ ~SameRepo(a) /\ SameRepo(b)
               \/ sa = sb /\ SameRepo(a) = SameRepo(b) /\ LexLess(RouteOrder(a), RouteOrder(b))
        best == SortSeq(matching, Better)
    IN IF best = <<>> THEN NoMatch
       ELSE [cands |-> best, conf |-> routeMatchScoreSegs(call, best[1])]

-----------------------------------------------------------------------------
(* Tables: the exact key, then for a key without a schema the bare table name of *)
(* schema-qualified tables, then the name the entity would have had.             *)
weakerTier(conf) ==
    CASE conf > ConfHigh -> ConfHigh
      [] conf <= ConfHigh /\ conf > ConfCrossFile -> ConfCrossFile
      [] conf <= ConfCrossFile /\ conf > ConfHeuristic -> ConfHeuristic
      [] OTHER -> ConfWeak

TableTiers(units, key) ==
    <<Filter(units, LAMBDA u : u.schema = key.schema /\ u.table = key.table)>>
    \o IF key.schema # 0 THEN <<>>
       ELSE <<Filter(units, LAMBDA u : u.schema # 0 /\ u.table = key.table),
              Filter(units, LAMBDA u : /\ u.entity = key.table
                                       /\ ~(u.schema = 0 /\ u.table = u.entity))>>

TierConf == <<<<ConfExact, ConfHigh>>, <<ConfHigh, ConfCrossFile>>, <<ConfCrossFile, ConfHeuristic>>>>

tableCandidates(units, key, home) ==
    LET tiers == TableTiers(units, key)
        Side(t, s) == Filter(tiers[t], LAMBDA u : (u.at[1] = home) <=> (s = 1))
        filled == {ts \in (DOMAIN tiers) \X {1, 2} : Side(ts[1], ts[2]) # <<>>}
        First(ts) == \A o \in filled : ts[1] < o[1] \/ (ts[1] = o[1] /\ ts[2] <= o[2])
    IN IF filled = {} THEN NoMatch
       ELSE LET ts == CHOOSE x \in filled : First(x)
                group == Side(ts[1], ts[2])
                conf == TierConf[ts[1]][ts[2]]
            IN [cands |-> sortUnits(group),
                conf |-> IF Len(group) > 1 THEN weakerTier(conf) ELSE conf]

-----------------------------------------------------------------------------
(* Configuration keys, bucketed by their last component.                         *)
minLeafComponents == 2

configMatchTier(k, ref) ==
    CASE hasComponentSuffix(k.path, ref) -> 2
      [] /\ ~hasComponentSuffix(k.path, ref)
         /\ Len(k.leaf) >= minLeafComponents /\ hasComponentSuffix(ref, k.leaf) -> 1
      [] OTHER -> 0

buildConfigIndex(units, last) ==
    Filter(units, LAMBDA k : \/ Tail1(k.path) = last
                             \/ Len(k.leaf) >= minLeafComponents /\ Tail1(k.leaf) = last)

ConfigScore(k, ref, home) == configMatchTier(k, ref) * 2 + IF k.at[1] = home THEN 1 ELSE 0
ConfigScoreHomeFirst(k, ref, home) == configMatchTier(k, ref) + IF k.at[1] = home THEN 2 ELSE 0

matchConfigKeyHomeFirst(units, ref, home) ==
    LET Step(best, k) ==
            IF /\ configMatchTier(k, ref) > 0
               /\ \/ best = NoUnit
                  \/ ConfigScoreHomeFirst(k, ref, home) > ConfigScoreHomeFirst(best, ref, home)
            THEN k ELSE best
    IN IF ref = <<>> THEN NoUnit
       ELSE FoldLeft(Step, NoUnit, buildConfigIndex(units, Last(ref)))

matchConfigKey(units, ref, home) ==
    LET Beats(k, best) ==
            \/ best = NoUnit
            \/ ConfigScore(k, ref, home) > ConfigScore(best, ref, home)
            \/ ConfigScore(k, ref, home) = ConfigScore(best, ref, home) /\ k.at[2] < best.at[2]
        Step(best, k) == IF configMatchTier(k, ref) > 0 /\ Beats(k, best) THEN k ELSE best
    IN IF ref = <<>> THEN NoUnit
       ELSE FoldLeft(Step, NoUnit, buildConfigIndex(units, Last(ref)))

=============================================================================
