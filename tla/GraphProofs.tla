---------------------------- MODULE GraphProofs -----------------------------
(* What linking leaves in the graph's tables, for any number of            *)
(* repositories, parsed contents, passes and failed writes.                *)
EXTENDS CodeGraph, FiniteSetTheorems, TLAPS

-----------------------------------------------------------------------------
(* Rows *)

(* A row of the edges table is a record, whatever its name and scores are.             *)
IsRow(e) ==
    e \in [id : Nat, repo : GRepos, src : Nat, kind : {e.kind}, name : {e.name}, ref : {e.ref},
           base : {e.base}, conf : {e.conf}, dst : {e.dst}, to : {e.to}]

(* The same row under another id.                                                      *)
Like(d, e) ==
    /\ d.repo = e.repo /\ d.src = e.src /\ d.kind = e.kind /\ d.name = e.name /\ d.ref = e.ref
    /\ d.base = e.base /\ d.conf = e.conf /\ d.dst = e.dst /\ d.to = e.to

LEMMA NewId ==
    ASSUME NEW e, IsRow(e), NEW i \in Nat
    PROVE  IsRow([e EXCEPT !.id = i]) /\ Like([e EXCEPT !.id = i], e) /\ [e EXCEPT !.id = i].id = i
  BY DEF IsRow, Like

(* The same row with another destination.                                              *)
Pointed(d, e) ==
    /\ d.id = e.id /\ d.repo = e.repo /\ d.src = e.src /\ d.kind = e.kind /\ d.name = e.name
    /\ d.ref = e.ref /\ d.base = e.base

Unpointed(e, x, y) == [e EXCEPT !.dst = x, !.to = y]
Rescored(e, x, y, z) == [e EXCEPT !.dst = x, !.to = y, !.conf = z]
Retitled(e, x, y) == [e EXCEPT !.name = x, !.ref = y]

LEMMA Unresolved ==
    ASSUME NEW e, IsRow(e), NEW x, NEW y
    PROVE  /\ IsRow(Unpointed(e, x, y)) /\ Pointed(Unpointed(e, x, y), e)
           /\ Unpointed(e, x, y).conf = e.conf /\ Unpointed(e, x, y).to = y
<1> DEFINE d1 == [e EXCEPT !.dst = x]
           d2 == [d1 EXCEPT !.to = y]
<1>1. IsRow(d1) /\ Pointed(d1, e) /\ d1.conf = e.conf
  BY DEF IsRow, Pointed
<1>2. Unpointed(e, x, y) = d2
  BY DEF Unpointed
<1> HIDE DEF d1
<1>3. IsRow(d2) /\ Pointed(d2, d1) /\ d2.conf = d1.conf /\ d2.to = y
  BY <1>1 DEF IsRow, Pointed
<1> HIDE DEF d2
<1> QED BY <1>1, <1>2, <1>3 DEF Pointed

LEMMA Scored ==
    ASSUME NEW e, IsRow(e), NEW x, NEW y, NEW z
    PROVE  /\ IsRow(Rescored(e, x, y, z)) /\ Pointed(Rescored(e, x, y, z), e)
           /\ Rescored(e, x, y, z).conf = z
<1> DEFINE d1 == Unpointed(e, x, y)
           d2 == [d1 EXCEPT !.conf = z]
<1>1. IsRow(d1) /\ Pointed(d1, e)
  BY Unresolved
<1>2. Rescored(e, x, y, z) = d2
  BY DEF Unpointed, Rescored
<1> HIDE DEF d1
<1>3. IsRow(d2) /\ Pointed(d2, d1) /\ d2.conf = z
  BY <1>1 DEF IsRow, Pointed
<1> HIDE DEF d2
<1> QED BY <1>1, <1>2, <1>3 DEF Pointed

LEMMA Renamed ==
    ASSUME NEW e, IsRow(e), NEW x, NEW y
    PROVE  /\ IsRow(Retitled(e, x, y)) /\ Retitled(e, x, y).repo = e.repo
           /\ Retitled(e, x, y).src = e.src /\ Retitled(e, x, y).kind = e.kind
           /\ Retitled(e, x, y).name = x
<1> DEFINE d1 == [e EXCEPT !.name = x]
           d2 == [d1 EXCEPT !.ref = y]
<1>1. IsRow(d1) /\ d1.repo = e.repo /\ d1.src = e.src /\ d1.kind = e.kind /\ d1.name = x
  BY DEF IsRow
<1>2. Retitled(e, x, y) = d2
  BY DEF Retitled
<1> HIDE DEF d1
<1>3. IsRow(d2) /\ d2.repo = d1.repo /\ d2.src = d1.src /\ d2.kind = d1.kind /\ d2.name = d1.name
  BY <1>1 DEF IsRow
<1> HIDE DEF d2
<1> QED BY <1>1, <1>2, <1>3

-----------------------------------------------------------------------------
(* Numbering *)

LEMMA FiniteImage ==
    ASSUME NEW S, IsFiniteSet(S), NEW f
    PROVE  IsFiniteSet({f[x] : x \in S})
<1> DEFINE T == {f[x] : x \in S}
           g == [x \in S |-> f[x]]
<1>1. g \in Surjection(S, T)
  BY DEF Surjection
<1> HIDE DEF g, T
<1>2. IsFiniteSet(T)
  BY <1>1, FS_Surjection
<1> QED BY <1>2 DEF T

(* A finite set put in a sequence: every element of it has a place.                    *)
LEMMA EveryPlace ==
    ASSUME NEW S, IsFiniteSet(S)
    PROVE  /\ Cardinality(S) \in Nat /\ DOMAIN SetToSeq(S) = 1 .. Cardinality(S)
           /\ SetToSeq(S) \in [1 .. Cardinality(S) -> S]
           /\ \A x \in S : \E i \in 1 .. Cardinality(S) : SetToSeq(S)[i] = x
<1> DEFINE n == Cardinality(S)
           f == SetToSeq(S)
<1>1. n \in Nat /\ ExistsBijection(1 .. n, S)
  BY FS_CardinalityType
<1>2. \E g \in [1 .. n -> S] : IsInjective(g)
  BY <1>1 DEF ExistsBijection, Bijection, Injection
<1>3. f \in [1 .. n -> S] /\ IsInjective(f)
  BY <1>2 DEF SetToSeq
<1> HIDE DEF f, n
<1>4. f \in Injection(1 .. n, S)
  BY <1>3 DEF Injection
<1>5. Cardinality(1 .. n) = n
  BY <1>1, FS_Interval
<1>6. f \in Surjection(1 .. n, S)
  BY <1>4, <1>5, FS_Injection DEF n
<1> QED BY <1>1, <1>3, <1>6 DEF Surjection, n, f

LEMMA Numbering ==
    ASSUME NEW rows, IsFiniteSet(rows), \A e \in rows : IsRow(e), lastRow \in Nat
    PROVE  /\ Cardinality(rows) \in Nat
           /\ \A d \in Numbered(rows) : /\ IsRow(d) /\ d.id \in lastRow + 1 .. lastRow + Cardinality(rows)
                                        /\ \E e \in rows : Like(d, e)
           /\ \A e \in rows : \E d \in Numbered(rows) : Like(d, e)
           /\ \A d, e \in Numbered(rows) : d.id = e.id => d = e
<1> DEFINE n == Cardinality(rows)
           f == SetToSeq(rows)
           New(i) == [f[i] EXCEPT !.id = lastRow + i]
<1>1. n \in Nat /\ DOMAIN f = 1 .. n /\ f \in [1 .. n -> rows] /\ \A x \in rows : \E i \in 1 .. n : f[i] = x
  BY EveryPlace
<1>2. Numbered(rows) = {New(i) : i \in 1 .. n}
  BY <1>1 DEF Numbered
<1> HIDE DEF n, f
<1>3. ASSUME NEW i \in 1 .. n
      PROVE  IsRow(New(i)) /\ Like(New(i), f[i]) /\ New(i).id = lastRow + i /\ f[i] \in rows
  <2>1. f[i] \in rows /\ lastRow + i \in Nat
    BY <1>1
  <2>2. IsRow(f[i])
    BY <2>1
  <2> DEFINE e == f[i]
             k == lastRow + i
  <2> HIDE DEF e, k
  <2>3. IsRow([e EXCEPT !.id = k]) /\ Like([e EXCEPT !.id = k], e) /\ [e EXCEPT !.id = k].id = k
    BY <2>1, <2>2, NewId DEF e, k
  <2> QED BY <2>1, <2>3 DEF e, k
<1> HIDE DEF New
<1>4. \A i \in 1 .. n : lastRow + i \in lastRow + 1 .. lastRow + n
  BY <1>1
<1>5. ASSUME NEW d \in Numbered(rows)
      PROVE  IsRow(d) /\ d.id \in lastRow + 1 .. lastRow + n /\ \E e \in rows : Like(d, e)
  BY <1>2, <1>3, <1>4
<1>6. ASSUME NEW e \in rows PROVE \E d \in Numbered(rows) : Like(d, e)
  BY <1>1, <1>2, <1>3
<1>7. ASSUME NEW d \in Numbered(rows), NEW e \in Numbered(rows), d.id = e.id PROVE d = e
  <2>1. PICK i \in 1 .. n : d = New(i)
    BY <1>2
  <2>2. PICK j \in 1 .. n : e = New(j)
    BY <1>2
  <2>3. i = j
    BY <1>1, <1>3, <1>7, <2>1, <2>2
  <2> QED BY <2>1, <2>2, <2>3
<1> QED BY <1>1, <1>5, <1>6, <1>7 DEF n

LEMMA NumberedFinite ==
    ASSUME NEW rows, IsFiniteSet(rows)
    PROVE  IsFiniteSet(Numbered(rows))
<1> DEFINE n == Cardinality(rows)
           f == SetToSeq(rows)
           g == [i \in 1 .. n |-> [f[i] EXCEPT !.id = lastRow + i]]
<1>1. n \in Nat /\ DOMAIN f = 1 .. n
  BY EveryPlace
<1>2. IsFiniteSet(1 .. n)
  BY <1>1, FS_Interval
<1>3. Numbered(rows) = {g[i] : i \in 1 .. n}
  BY <1>1 DEF Numbered
<1> HIDE DEF g, n
<1>4. IsFiniteSet({g[i] : i \in 1 .. n})
  BY <1>2, FiniteImage
<1> QED BY <1>3, <1>4

-----------------------------------------------------------------------------
(* The invariant *)

(* An id and the repository of the unit that has it, if there is one still.            *)
Homed(id, r, us, last) == id \in 1 .. last /\ \A u \in us : u.id = id => u.repo = r

TopicKinds == {"produces", "consumes"}

(* A row before it has an id: its source is a unit of its repository, and a derived    *)
(* flow's destination, unless it was taken away, one of the repository it names.       *)
Draft(e, us, last) ==
    /\ IsRow(e)
    /\ Homed(e.src, e.repo, us, last)
    /\ e.kind = "kafka_flow" => e.to = NoRow \/ (e.to \in GRepos /\ Homed(e.dst, e.to, us, last))

UnitsOK(us, last) ==
    /\ \A u \in us : u.id \in 1 .. last /\ u.repo \in GRepos
    /\ \A u, v \in us : u.id = v.id => u = v

RowsOK(E, us, last) ==
    /\ IsFiniteSet(E)
    /\ \A e \in E : Draft(e, us, last) /\ e.id \in 1 .. last
    /\ \A d, e \in E : d.id = e.id => d = e

TablesInv == lastRow \in Nat /\ UnitsOK(unitRows, lastRow) /\ RowsOK(edgeRows, unitRows, lastRow)

(* Where a pass stands.                                                                 *)
Linking == {"refs", "rewrite", "flush", "flows", "deleteFlows", "storeFlows"}
Owing == {"edges", "store", "storeEdges", "link", "refs", "rewrite", "flush", "flows"}
Stages == {"idle", "edges", "store", "storeEdges", "link"} \cup Linking
Owed(r) == stage[r] \in Owing

Nothing == [units |-> {}, edges |-> {}]

PassesInv ==
    /\ stage \in [GRepos -> Stages]
    /\ parsed \in [GRepos -> (UNION {Sources[r] : r \in GRepos}) \cup {Nothing}]
    /\ \A r \in GRepos : stage[r] = "storeEdges" =>
          \A u \in parsed[r].units : \E x \in unitRows : x.repo = r /\ x.kind = u.kind /\ x.name = u.name

MutexInv ==
    /\ linkMu \in GRepos \/ (linkMu = NoRow /\ linkRun = NoRun)
    /\ linkMu \in GRepos => stage[linkMu] \in Linking
    /\ \A r \in GRepos : stage[r] \in Linking => linkMu = r

(* What a run has read: its groups are rows still to be numbered, under topics it has   *)
(* touched; its writes are for gRPC calls; its flows for the topics it has taken.       *)
IsRun(g) ==
    g \in [groups : {g.groups}, dirty : {g.dirty}, pending : {g.pending}, touched : {g.touched},
           writes : {g.writes}, affected : {g.affected}, flows : {g.flows}]

GroupsOK(g, us, last) ==
    /\ g.dirty \subseteq DOMAIN g.groups /\ g.pending \subseteq DOMAIN g.groups
    /\ \A k \in DOMAIN g.groups :
          /\ k.name \in g.touched /\ IsFiniteSet(g.groups[k])
          /\ \A e \in g.groups[k] : Draft(e, us, last) /\ e.kind \in TopicKinds /\ e.name \in g.touched

GoodConf(c, b) == c = b \/ c \in {(b * f) \div 100 : f \in {ConfExact, ConfHigh, ConfHeuristic}}

WritesOK(w, E, last) ==
    \A i \in DOMAIN w :
        /\ i \in 1 .. last
        /\ \A e \in E : e.id = i => e.kind = "rpc_call" /\ GoodConf(w[i].conf, e.base)

FlowsOK(g, us, last) ==
    /\ IsFiniteSet(g.flows)
    /\ \A f \in g.flows : Draft(f, us, last) /\ f.kind = "kafka_flow" /\ f.name \in g.affected /\ f.to \in GRepos

StageOK(s, g, E) ==
    /\ s = "refs" => g = NoRun
    /\ s \in {"rewrite", "flush", "flows"} => g.affected = {} /\ g.flows = {}
    /\ s \in {"deleteFlows", "storeFlows"} => g.touched \subseteq g.affected
    /\ s = "storeFlows" => \A e \in E : ~(e.kind = "kafka_flow" /\ e.name \in g.affected)

RunOn(g, us, E, last) ==
    /\ IsRun(g)
    /\ GroupsOK(g, us, last)
    /\ WritesOK(g.writes, E, last)
    /\ FlowsOK(g, us, last)

RunInv ==
    /\ RunOn(linkRun, unitRows, edgeRows, lastRow)
    /\ linkMu \in GRepos => StageOK(stage[linkMu], linkRun, edgeRows)

(* A producer or a consumer of a topic, the two of them, and a derived flow.            *)
Has(E, k, a, n) == \E e \in E : e.kind = k /\ e.repo = a /\ e.name = n
Joined(E, a, b, n) == Has(E, "produces", a, n) /\ Has(E, "consumes", b, n)
Flowing(E, a, b, n) == \E e \in E : e.kind = "kafka_flow" /\ e.repo = a /\ e.name = n /\ e.to = b

(* Flows and their join differ only between repositories of which one is still to be    *)
(* linked, or under a topic that a run holds or a failure left behind; the flows a run  *)
(* is about to store are as good.                                                       *)
FlowsOn(st, bad, g, E) ==
    \A a, b \in GRepos : \A n :
        \/ st[a] \in Owing \/ st[b] \in Owing
        \/ /\ n \notin bad \cup g.touched \cup g.affected => (Flowing(E, a, b, n) <=> Joined(E, a, b, n))
           /\ n \in g.affected => (Flowing(g.flows, a, b, n) <=> Joined(E, a, b, n))

FlowsInv == FlowsOn(stage, broken, linkRun, edgeRows)

Scores(E) == \A e \in E : e.kind \in {"call", "rpc_call"} => GoodConf(e.conf, e.base)
ScoresInv == Scores(edgeRows)

GraphInv == TablesInv /\ PassesInv /\ MutexInv /\ RunInv /\ FlowsInv /\ ScoresInv

-----------------------------------------------------------------------------
(* What grows and what goes *)

(* Units that are gone, or have a number nobody had.                                    *)
Grows(vs, us, last) == \A u \in vs : u \in us \/ u.id \notin 1 .. last

(* Rows that were there with another destination and score, or have a new number.       *)
Descends(D, E, last) ==
    \A d \in D : (d.id \notin 1 .. last /\ d.kind # "kafka_flow") \/ \E e \in E : Pointed(d, e)

LEMMA DraftGrows ==
    ASSUME NEW e, NEW us, NEW last \in Nat, Draft(e, us, last), NEW vs, NEW top \in Nat, last <= top,
           Grows(vs, us, last)
    PROVE  Draft(e, vs, top)
<1>1. ASSUME NEW i, NEW r, Homed(i, r, us, last) PROVE Homed(i, r, vs, top)
  BY <1>1 DEF Homed, Grows
<1> QED BY <1>1 DEF Draft

LEMMA RowsGrow ==
    ASSUME NEW E, NEW us, NEW last \in Nat, RowsOK(E, us, last), NEW vs, NEW top \in Nat, last <= top,
           Grows(vs, us, last)
    PROVE  RowsOK(E, vs, top)
<1>1. \A e \in E : Draft(e, vs, top) /\ e.id \in 1 .. top
  BY DraftGrows DEF RowsOK
<1> QED BY <1>1 DEF RowsOK

LEMMA RowsGo ==
    ASSUME NEW E, NEW us, NEW last, RowsOK(E, us, last), NEW D \in SUBSET E
    PROVE  RowsOK(D, us, last) /\ Descends(D, E, last)
<1>1. IsFiniteSet(D)
  BY FS_Subset DEF RowsOK
<1>2. \A d \in D : Pointed(d, d)
  BY DEF Pointed
<1> QED BY <1>1, <1>2 DEF RowsOK, Descends

(* Rows rewritten in place.                                                             *)
LEMMA RowsRewritten ==
    ASSUME NEW E, NEW us, NEW last, RowsOK(E, us, last), NEW m, NEW D,
           \A d \in D : \E e \in E : d = m[e],
           \A e \in E : m[e] \in D /\ Pointed(m[e], e) /\ Draft(m[e], us, last)
    PROVE  /\ RowsOK(D, us, last) /\ Descends(D, E, last)
           /\ \A k, a, n : Has(D, k, a, n) <=> Has(E, k, a, n)
<1>1. IsFiniteSet(D)
  <2>1. D = {m[e] : e \in E}
    OBVIOUS
  <2> QED BY <2>1, FiniteImage DEF RowsOK
<1>2. \A d \in D : Draft(d, us, last) /\ d.id \in 1 .. last
  BY DEF RowsOK, Pointed
<1>3. \A d, e \in D : d.id = e.id => d = e
  BY DEF RowsOK, Pointed
<1>4. Descends(D, E, last)
  BY DEF Descends
<1>5. \A k, a, n : Has(D, k, a, n) <=> Has(E, k, a, n)
  BY DEF Has, Pointed
<1> QED BY <1>1, <1>2, <1>3, <1>4, <1>5 DEF RowsOK

(* Rows added under new numbers.                                                        *)
LEMMA RowsAdded ==
    ASSUME lastRow \in Nat, RowsOK(edgeRows, unitRows, lastRow), NEW rows, IsFiniteSet(rows),
           \A e \in rows : Draft(e, unitRows, lastRow)
    PROVE  LET top == lastRow + Cardinality(rows)
           IN /\ top \in Nat /\ lastRow <= top /\ RowsOK(edgeRows \cup Numbered(rows), unitRows, top)
              /\ \A d \in Numbered(rows) : d.id \notin 1 .. lastRow /\ \E e \in rows : Like(d, e)
              /\ \A e \in rows : \E d \in Numbered(rows) : Like(d, e)
<1> DEFINE n == Cardinality(rows)
           top == lastRow + n
           D == Numbered(rows)
<1>1. /\ n \in Nat
      /\ \A d \in D : IsRow(d) /\ d.id \in lastRow + 1 .. top /\ \E e \in rows : Like(d, e)
      /\ \A e \in rows : \E d \in D : Like(d, e)
      /\ \A d, e \in D : d.id = e.id => d = e
  BY Numbering DEF Draft
<1>2. IsFiniteSet(D)
  BY NumberedFinite
<1> HIDE DEF D, n
<1>3. top \in Nat /\ lastRow <= top /\ \A i \in lastRow + 1 .. top : i \in 1 .. top /\ i \notin 1 .. lastRow
  BY <1>1
<1>4. ASSUME NEW d \in D PROVE Draft(d, unitRows, top) /\ d.id \in 1 .. top /\ d.id \notin 1 .. lastRow
  <2>1. IsRow(d) /\ d.id \in 1 .. top /\ d.id \notin 1 .. lastRow
    BY <1>1, <1>3
  <2>2. PICK e \in rows : Like(d, e)
    BY <1>1
  <2>3. Draft(e, unitRows, top)
    BY <1>3, DraftGrows DEF Grows
  <2> QED BY <2>1, <2>2, <2>3 DEF Draft, Like
<1>5. RowsOK(edgeRows, unitRows, top)
  BY <1>3, RowsGrow DEF Grows
<1>6. \A e \in edgeRows : e.id \in 1 .. lastRow
  BY DEF RowsOK
<1>7. IsFiniteSet(edgeRows \cup D)
  BY <1>2, FS_Union DEF RowsOK
<1>8. \A e \in edgeRows \cup D : Draft(e, unitRows, top) /\ e.id \in 1 .. top
  BY <1>4, <1>5 DEF RowsOK
<1>9. \A d, e \in edgeRows \cup D : d.id = e.id => d = e
  BY <1>1, <1>4, <1>6 DEF RowsOK
<1>10. RowsOK(edgeRows \cup D, unitRows, top)
  BY <1>7, <1>8, <1>9 DEF RowsOK
<1> QED BY <1>1, <1>3, <1>4, <1>10 DEF D, n

LEMMA RunGrows ==
    ASSUME NEW g, NEW us, NEW E, NEW last \in Nat, RunOn(g, us, E, last),
           NEW vs, NEW D, NEW top \in Nat, last <= top, Grows(vs, us, last), Descends(D, E, last)
    PROVE  RunOn(g, vs, D, top) /\ \A s : StageOK(s, g, E) => StageOK(s, g, D)
<1>1. \A e : Draft(e, us, last) => Draft(e, vs, top)
  BY DraftGrows
<1>2. GroupsOK(g, vs, top)
  BY <1>1 DEF RunOn, GroupsOK
<1>3. FlowsOK(g, vs, top)
  BY <1>1 DEF RunOn, FlowsOK
<1>4. WritesOK(g.writes, D, top)
  <2> SUFFICES ASSUME NEW i \in DOMAIN g.writes
               PROVE  /\ i \in 1 .. top
                      /\ \A d \in D : d.id = i => d.kind = "rpc_call" /\ GoodConf(g.writes[i].conf, d.base)
    BY DEF WritesOK
  <2>1. i \in 1 .. last /\ \A e \in E : e.id = i => e.kind = "rpc_call" /\ GoodConf(g.writes[i].conf, e.base)
    BY DEF RunOn, WritesOK
  <2> QED BY <2>1 DEF Descends, Pointed
<1>5. ASSUME NEW s, StageOK(s, g, E) PROVE StageOK(s, g, D)
  <2>1. \A d \in D : d.kind = "kafka_flow" => \E e \in E : e.kind = "kafka_flow" /\ e.name = d.name
    BY DEF Descends, Pointed
  <2> QED BY <1>5, <2>1 DEF StageOK
<1> QED BY <1>2, <1>3, <1>4, <1>5 DEF RunOn

LEMMA RunAtRest ==
    ASSUME NEW us, NEW E, NEW last
    PROVE  RunOn(NoRun, us, E, last) /\ \A s : StageOK(s, NoRun, E)
<1>1. IsRun(NoRun)
  BY DEF IsRun, NoRun
<1>2. GroupsOK(NoRun, us, last)
  BY DEF GroupsOK, NoRun
<1>3. WritesOK(NoRun.writes, E, last)
  BY DEF WritesOK, NoRun
<1>4. FlowsOK(NoRun, us, last)
  BY FS_EmptySet DEF FlowsOK, NoRun
<1>5. \A s : StageOK(s, NoRun, E)
  BY DEF StageOK, NoRun
<1> QED BY <1>1, <1>2, <1>3, <1>4, <1>5 DEF RunOn

(* The mutex: outside it, while it is held, and when it is given back.                  *)
LEMMA MutexApart ==
    ASSUME MutexInv, PassesInv, NEW r \in GRepos, stage[r] \notin Linking, NEW s \in Stages \ Linking,
           stage' = [stage EXCEPT ![r] = s], linkMu' = linkMu, linkRun' = linkRun
    PROVE  MutexInv' /\ (linkMu \in GRepos => stage'[linkMu] = stage[linkMu])
<1>1. \A x \in GRepos : stage'[x] = IF x = r THEN s ELSE stage[x]
  BY DEF PassesInv
<1> QED BY <1>1 DEF MutexInv

LEMMA MutexHeld ==
    ASSUME MutexInv, PassesInv, NEW r \in GRepos, linkMu = NoRow \/ linkMu = r, NEW s \in Linking,
           stage' = [stage EXCEPT ![r] = s], linkMu' = r
    PROVE  MutexInv' /\ stage'[linkMu'] = s
<1>1. \A x \in GRepos : stage'[x] = IF x = r THEN s ELSE stage[x]
  BY DEF PassesInv
<1>2. \A x \in GRepos : x # r => stage[x] \notin Linking
  BY CodeGraphAssumption DEF MutexInv
<1> QED BY <1>1, <1>2, CodeGraphAssumption DEF MutexInv

LEMMA MutexFreed ==
    ASSUME MutexInv, PassesInv, NEW r \in GRepos, linkMu = NoRow \/ linkMu = r,
           stage' = [stage EXCEPT ![r] = "idle"], linkMu' = NoRow, linkRun' = NoRun
    PROVE  MutexInv'
<1>1. \A x \in GRepos : stage'[x] = IF x = r THEN "idle" ELSE stage[x]
  BY DEF PassesInv
<1>2. \A x \in GRepos : x # r => stage[x] \notin Linking
  BY CodeGraphAssumption DEF MutexInv
<1> QED BY <1>1, <1>2, CodeGraphAssumption DEF MutexInv, Linking

(* A step of one pass that leaves the units and the parsed contents alone.              *)
LEMMA PassesGoOn ==
    ASSUME PassesInv, NEW r \in GRepos, NEW s \in Stages, s # "storeEdges",
           stage' = [stage EXCEPT ![r] = s], parsed' = parsed, unitRows' = unitRows
    PROVE  PassesInv'
<1>1. \A x \in GRepos : stage'[x] = IF x = r THEN s ELSE stage[x]
  BY DEF PassesInv
<1>2. stage' \in [GRepos -> Stages]
  BY DEF PassesInv
<1> QED BY <1>1, <1>2 DEF PassesInv

(* What a step of a pass that is still to be linked must leave alone for the flows.     *)
LEMMA FlowsCarried ==
    ASSUME NEW st, NEW bad, NEW g, NEW E, FlowsOn(st, bad, g, E), NEW r \in GRepos,
           NEW tt, NEW h, NEW D, tt[r] \in Owing, \A x \in GRepos : x # r => tt[x] = st[x],
           g.touched \subseteq h.touched, h.affected = g.affected, h.flows = g.flows,
           \A a, b \in GRepos : \A n : a # r /\ b # r /\ (n \notin h.touched \/ n \in h.affected) =>
               /\ Flowing(D, a, b, n) <=> Flowing(E, a, b, n)
               /\ Joined(D, a, b, n) <=> Joined(E, a, b, n)
    PROVE  FlowsOn(tt, bad, h, D)
<1> SUFFICES ASSUME NEW a \in GRepos, NEW b \in GRepos, NEW n, tt[a] \notin Owing, tt[b] \notin Owing
             PROVE  /\ n \notin bad \cup h.touched \cup h.affected => (Flowing(D, a, b, n) <=> Joined(D, a, b, n))
                    /\ n \in h.affected => (Flowing(h.flows, a, b, n) <=> Joined(D, a, b, n))
  BY DEF FlowsOn
<1>1. a # r /\ b # r /\ st[a] \notin Owing /\ st[b] \notin Owing
  OBVIOUS
<1>2. /\ n \notin bad \cup g.touched \cup g.affected => (Flowing(E, a, b, n) <=> Joined(E, a, b, n))
      /\ n \in g.affected => (Flowing(g.flows, a, b, n) <=> Joined(E, a, b, n))
  BY <1>1 DEF FlowsOn
<1>3. CASE n \in h.affected
  BY <1>1, <1>2, <1>3
<1>4. CASE n \notin h.affected
  BY <1>1, <1>2, <1>4
<1> QED BY <1>3, <1>4

-----------------------------------------------------------------------------
(* The store stage of a pass *)

LEMMA GraphStarts == GraphInit => GraphInv
<1> SUFFICES ASSUME GraphInit PROVE GraphInv
  OBVIOUS
<1>1. TablesInv
  BY FS_EmptySet DEF GraphInit, TablesInv, UnitsOK, RowsOK
<1>2. PassesInv
  <2>1. parsed \in [GRepos -> (UNION {Sources[r] : r \in GRepos}) \cup {Nothing}]
    BY DEF GraphInit, Nothing
  <2> QED BY <2>1 DEF GraphInit, PassesInv, Stages
<1>3. MutexInv
  BY CodeGraphAssumption DEF GraphInit, MutexInv, Linking
<1>4. RunInv
  BY RunAtRest, CodeGraphAssumption DEF GraphInit, RunInv
<1>5. FlowsInv
  BY DEF GraphInit, FlowsInv, FlowsOn, Flowing, Joined, Has, NoRun
<1>6. ScoresInv
  BY DEF GraphInit, ScoresInv, Scores
<1> QED BY <1>1, <1>2, <1>3, <1>4, <1>5, <1>6 DEF GraphInv

LEMMA UnitsDeletedStep ==
    ASSUME GraphInv, NEW r \in GRepos, deleteWindowUnits(r)
    PROVE  GraphInv'
<1> USE DEF GraphInv
<1> DEFINE gone == {u \in unitRows : u.repo = r}
           m == [e \in edgeRows |-> IF e.dst \in {u.id : u \in gone}
                                    THEN [e EXCEPT !.dst = NoRow, !.to = NoRow] ELSE e]
<1>1. /\ stage[r] = "idle" /\ stage' = [stage EXCEPT ![r] = "edges"]
      /\ \E c \in Sources[r] : parsed' = [parsed EXCEPT ![r] = c]
      /\ unitRows' = unitRows \ gone /\ edgeRows' = {m[e] : e \in edgeRows} /\ lastRow' = lastRow
      /\ linkMu' = linkMu /\ linkRun' = linkRun /\ broken' = broken
  BY DEF deleteWindowUnits, DeleteASTUnitsByFiles
<1>2. lastRow \in Nat /\ RowsOK(edgeRows, unitRows, lastRow) /\ UnitsOK(unitRows, lastRow)
  BY DEF TablesInv
<1>3. Grows(unitRows', unitRows, lastRow)
  BY <1>1 DEF Grows
<1>4. RowsOK(edgeRows, unitRows', lastRow)
  BY <1>2, <1>3, RowsGrow
<1>5. ASSUME NEW e \in edgeRows
      PROVE  /\ Pointed(m[e], e) /\ Draft(m[e], unitRows', lastRow) /\ m[e].conf = e.conf
             /\ m[e] = e \/ (m[e].to = NoRow /\ \E u \in gone : e.dst = u.id)
  <2>1. Draft(e, unitRows', lastRow)
    BY <1>4 DEF RowsOK
  <2>2. CASE m[e] = e
    BY <2>1, <2>2 DEF Pointed
  <2>3. CASE m[e] = [e EXCEPT !.dst = NoRow, !.to = NoRow] /\ \E u \in gone : e.dst = u.id
    <3>1. m[e] = Unpointed(e, NoRow, NoRow)
      BY <2>3 DEF Unpointed
    <3>2. IsRow(m[e]) /\ Pointed(m[e], e) /\ m[e].conf = e.conf /\ m[e].to = NoRow
      BY <2>1, <3>1, Unresolved DEF Draft
    <3> HIDE DEF m
    <3> QED BY <2>1, <2>3, <3>2 DEF Draft, Pointed
  <2> QED BY <2>2, <2>3
<1> HIDE DEF m
<1>6. /\ RowsOK(edgeRows', unitRows', lastRow) /\ Descends(edgeRows', edgeRows, lastRow)
      /\ \A k, a, n : Has(edgeRows', k, a, n) <=> Has(edgeRows, k, a, n)
  <2>1. \A e \in edgeRows : m[e] \in edgeRows' /\ Pointed(m[e], e) /\ Draft(m[e], unitRows', lastRow)
    BY <1>1, <1>5
  <2>2. \A d \in edgeRows' : \E e \in edgeRows : d = m[e]
    BY <1>1
  <2> QED BY <1>4, <2>1, <2>2, RowsRewritten
<1>7. TablesInv'
  BY <1>1, <1>2, <1>6 DEF TablesInv, UnitsOK
<1>8. PassesInv'
  <2>1. stage' \in [GRepos -> Stages] /\ \A x \in GRepos : stage'[x] = IF x = r THEN "edges" ELSE stage[x]
    BY <1>1 DEF PassesInv, Stages
  <2>2. parsed' \in [GRepos -> (UNION {Sources[x] : x \in GRepos}) \cup {Nothing}]
        /\ \A x \in GRepos : x # r => parsed'[x] = parsed[x]
    BY <1>1 DEF PassesInv
  <2> QED BY <1>1, <2>1, <2>2 DEF PassesInv
<1>9. MutexInv' /\ (linkMu \in GRepos => stage'[linkMu] = stage[linkMu])
  BY <1>1, MutexApart DEF Linking, Stages
<1>10. RunInv'
  BY <1>1, <1>2, <1>3, <1>6, <1>9, RunGrows DEF RunInv
<1>11. FlowsInv'
  <2>1. ASSUME NEW a \in GRepos, NEW b \in GRepos, NEW n, b # r
        PROVE  Flowing(edgeRows', a, b, n) <=> Flowing(edgeRows, a, b, n)
    <3>1. \A e \in edgeRows : e.kind = "kafka_flow" /\ e.to = b => m[e] = e
      BY <1>2, <1>5, <2>1, CodeGraphAssumption DEF RowsOK, Draft, Homed
    <3>2. \A e \in edgeRows : m[e].to = b => m[e] = e
      BY <1>5, CodeGraphAssumption
    <3> QED BY <1>1, <3>1, <3>2 DEF Flowing
  <2>2. FlowsOn(stage', broken, linkRun, edgeRows')
    <3>1. stage'[r] \in Owing /\ \A x \in GRepos : x # r => stage'[x] = stage[x]
      BY <1>1 DEF PassesInv, Owing
    <3> QED BY <1>6, <2>1, <3>1, FlowsCarried DEF FlowsInv, Joined
  <2> QED BY <1>1, <2>2 DEF FlowsInv
<1>12. ScoresInv'
  BY <1>1, <1>5 DEF ScoresInv, Scores, Pointed
<1> QED BY <1>7, <1>8, <1>9, <1>10, <1>11, <1>12

LEMMA EdgesDeletedStep ==
    ASSUME GraphInv, NEW r \in GRepos, deleteWindowEdges(r)
    PROVE  GraphInv'
<1> USE DEF GraphInv
<1>1. /\ stage[r] = "edges" /\ stage' = [stage EXCEPT ![r] = "store"] /\ parsed' = parsed
      /\ unitRows' = unitRows /\ edgeRows' = {e \in edgeRows : e.repo # r} /\ lastRow' = lastRow
      /\ linkMu' = linkMu /\ linkRun' = linkRun /\ broken' = broken
  BY DEF deleteWindowEdges, DeleteEdgesByFiles
<1>2. lastRow \in Nat /\ RowsOK(edgeRows, unitRows, lastRow) /\ UnitsOK(unitRows, lastRow)
  BY DEF TablesInv
<1>3. RowsOK(edgeRows', unitRows, lastRow) /\ Descends(edgeRows', edgeRows, lastRow)
  BY <1>1, <1>2, RowsGo
<1>4. TablesInv'
  BY <1>1, <1>2, <1>3 DEF TablesInv
<1>5. PassesInv'
  BY <1>1, PassesGoOn DEF Stages
<1>6. MutexInv' /\ (linkMu \in GRepos => stage'[linkMu] = stage[linkMu])
  BY <1>1, MutexApart DEF Linking, Stages
<1>7. RunInv'
  BY <1>1, <1>2, <1>3, <1>6, RunGrows DEF RunInv, Grows
<1>8. FlowsInv'
  <2>1. stage'[r] \in Owing /\ \A x \in GRepos : x # r => stage'[x] = stage[x]
    BY <1>1 DEF PassesInv, Owing
  <2>2. \A a, b \in GRepos : \A n : a # r /\ b # r =>
            /\ Flowing(edgeRows', a, b, n) <=> Flowing(edgeRows, a, b, n)
            /\ Joined(edgeRows', a, b, n) <=> Joined(edgeRows, a, b, n)
    BY <1>1 DEF Flowing, Joined, Has
  <2>3. FlowsOn(stage', broken, linkRun, edgeRows')
    BY <2>1, <2>2, FlowsCarried DEF FlowsInv
  <2> QED BY <1>1, <2>3 DEF FlowsInv
<1>9. ScoresInv'
  BY <1>1 DEF ScoresInv, Scores
<1> QED BY <1>4, <1>5, <1>6, <1>7, <1>8, <1>9

LEMMA ParsedContent ==
    ASSUME PassesInv, NEW r \in GRepos
    PROVE  /\ IsFiniteSet(parsed[r].units) /\ IsFiniteSet(parsed[r].edges)
           /\ \A e \in parsed[r].edges : e.src \in parsed[r].units /\ e.kind # "kafka_flow"
<1>1. parsed[r] \in (UNION {Sources[x] : x \in GRepos}) \cup {Nothing}
  BY DEF PassesInv
<1>2. CASE parsed[r] = Nothing
  BY <1>2, FS_EmptySet DEF Nothing
<1>3. CASE \E x \in GRepos : parsed[r] \in Sources[x]
  BY <1>3, CodeGraphAssumption
<1> QED BY <1>1, <1>2, <1>3

Stored(r, x, k) == [UnitRow(r, x) EXCEPT !.id = k]

LEMMA StoredUnit ==
    ASSUME NEW r, NEW x, NEW k
    PROVE  /\ Stored(r, x, k).id = k /\ Stored(r, x, k).repo = r
           /\ Stored(r, x, k).kind = x.kind /\ Stored(r, x, k).name = x.name
  BY DEF Stored, UnitRow

LEMMA UnitsStoredStep ==
    ASSUME GraphInv, NEW r \in GRepos, storeUnits(r)
    PROVE  GraphInv'
<1> USE DEF GraphInv
<1> DEFINE n == Cardinality(parsed[r].units)
           f == SetToSeq(parsed[r].units)
           top == lastRow + n
<1>1. /\ n \in Nat /\ DOMAIN f = 1 .. n /\ f \in [1 .. n -> parsed[r].units]
      /\ \A x \in parsed[r].units : \E i \in 1 .. n : f[i] = x
  BY ParsedContent, EveryPlace
<1>2. /\ stage[r] = "store" /\ stage' = [stage EXCEPT ![r] = "storeEdges"] /\ parsed' = parsed
      /\ unitRows' = unitRows \cup {Stored(r, f[i], lastRow + i) : i \in 1 .. n}
      /\ edgeRows' = edgeRows /\ lastRow' = top
      /\ linkMu' = linkMu /\ linkRun' = linkRun /\ broken' = broken
  BY <1>1 DEF storeUnits, Stored
<1>3. lastRow \in Nat /\ RowsOK(edgeRows, unitRows, lastRow) /\ UnitsOK(unitRows, lastRow)
  BY DEF TablesInv
<1> HIDE DEF n, f
<1>4. /\ top \in Nat /\ lastRow <= top
      /\ \A i \in 1 .. n : lastRow + i \in 1 .. top /\ lastRow + i \notin 1 .. lastRow
      /\ \A i \in 1 .. lastRow : i \in 1 .. top
  BY <1>1, <1>3
<1>5. ASSUME NEW u \in unitRows'
      PROVE  u \in unitRows \/ \E i \in 1 .. n : u = Stored(r, f[i], lastRow + i) /\ u.id = lastRow + i /\ u.repo = r
  BY <1>2, StoredUnit
<1> HIDE DEF top
<1>6. Grows(unitRows', unitRows, lastRow)
  BY <1>4, <1>5 DEF Grows
<1>7. UnitsOK(unitRows', top)
  <2>1. \A u \in unitRows' : u.id \in 1 .. top /\ u.repo \in GRepos
    BY <1>3, <1>4, <1>5 DEF UnitsOK
  <2>2. ASSUME NEW u \in unitRows', NEW v \in unitRows', u.id = v.id PROVE u = v
    <3>1. CASE u \in unitRows /\ v \in unitRows
      BY <1>3, <2>2, <3>1 DEF UnitsOK
    <3>2. CASE u \in unitRows /\ v \notin unitRows
      BY <1>3, <1>4, <1>5, <2>2, <3>2 DEF UnitsOK
    <3>3. CASE u \notin unitRows /\ v \in unitRows
      BY <1>3, <1>4, <1>5, <2>2, <3>3 DEF UnitsOK
    <3>4. CASE u \notin unitRows /\ v \notin unitRows
      <4>1. PICK i \in 1 .. n : u = Stored(r, f[i], lastRow + i) /\ u.id = lastRow + i
        BY <1>5, <3>4
      <4>2. PICK j \in 1 .. n : v = Stored(r, f[j], lastRow + j) /\ v.id = lastRow + j
        BY <1>5, <3>4
      <4>3. i = j
        BY <1>1, <1>3, <2>2, <4>1, <4>2
      <4> QED BY <4>1, <4>2, <4>3
    <3> QED BY <3>1, <3>2, <3>3, <3>4
  <2> QED BY <2>1, <2>2 DEF UnitsOK
<1>8. TablesInv'
  BY <1>2, <1>3, <1>4, <1>6, <1>7, RowsGrow DEF TablesInv
<1>9. PassesInv'
  <2>1. stage' \in [GRepos -> Stages] /\ \A x \in GRepos : stage'[x] = IF x = r THEN "storeEdges" ELSE stage[x]
    BY <1>2 DEF PassesInv, Stages
  <2>2. \A u \in parsed[r].units : \E x \in unitRows' : x.repo = r /\ x.kind = u.kind /\ x.name = u.name
    BY <1>1, <1>2, StoredUnit
  <2>3. \A x \in unitRows : x \in unitRows'
    BY <1>2
  <2> QED BY <1>2, <2>1, <2>2, <2>3 DEF PassesInv
<1>10. MutexInv' /\ (linkMu \in GRepos => stage'[linkMu] = stage[linkMu])
  BY <1>2, MutexApart DEF Linking, Stages
<1>11. RunInv'
  <2>1. Descends(edgeRows, edgeRows, lastRow)
    BY DEF Descends, Pointed
  <2> QED BY <1>2, <1>3, <1>4, <1>6, <1>10, <2>1, RunGrows DEF RunInv
<1>12. FlowsInv'
  <2>1. stage'[r] \in Owing /\ \A x \in GRepos : x # r => stage'[x] = stage[x]
    BY <1>2 DEF PassesInv, Owing
  <2>2. FlowsOn(stage', broken, linkRun, edgeRows)
    BY <2>1, FlowsCarried DEF FlowsInv
  <2> QED BY <1>2, <2>2 DEF FlowsInv
<1>13. ScoresInv'
  BY <1>2 DEF ScoresInv, Scores
<1> QED BY <1>8, <1>9, <1>10, <1>11, <1>12, <1>13

LEMMA EdgesStoredStep ==
    ASSUME GraphInv, NEW r \in GRepos, storeEdges(r)
    PROVE  GraphInv'
<1> USE DEF GraphInv
<1> DEFINE edges == parsed[r].edges
           m == [e \in edges |-> EdgeRow(r, e)]
           rows == {m[e] : e \in edges}
           top == lastRow + Cardinality(rows)
<1>1. /\ stage[r] = "storeEdges" /\ stage' = [stage EXCEPT ![r] = "link"] /\ parsed' = parsed
      /\ unitRows' = unitRows /\ edgeRows' = edgeRows \cup Numbered(rows) /\ lastRow' = top
      /\ linkMu' = linkMu /\ linkRun' = linkRun /\ broken' = broken
  <2>1. {EdgeRow(r, e) : e \in edges} = rows
    OBVIOUS
  <2> HIDE DEF rows
  <2> QED BY <2>1 DEF storeEdges, StoreEdgeRows
<1>2. lastRow \in Nat /\ RowsOK(edgeRows, unitRows, lastRow) /\ UnitsOK(unitRows, lastRow)
  BY DEF TablesInv
<1>3. ASSUME NEW e \in edges
      PROVE  /\ Draft(m[e], unitRows, lastRow) /\ m[e].repo = r /\ m[e].kind # "kafka_flow"
             /\ m[e].conf = m[e].base
  <2> DEFINE s == SourceId(r, e.src)
             d == EdgeRow(r, e)
  <2>1. e.src \in parsed[r].units /\ e.kind # "kafka_flow"
    BY ParsedContent
  <2>2. \E x \in unitRows : x.repo = r /\ x.kind = e.src.kind /\ x.name = e.src.name
    BY <1>1, <2>1 DEF PassesInv
  <2>3. \E x \in unitRows : x.repo = r /\ s = x.id
    BY <2>2 DEF SourceId
  <2>4. Homed(s, r, unitRows, lastRow) /\ s \in Nat
    BY <1>2, <2>3 DEF UnitsOK, Homed
  <2> HIDE DEF s
  <2>5. /\ d.repo = r /\ d.kind = e.kind /\ d.conf = d.base /\ d.src = s
        /\ IsRow(d)
    BY <2>4 DEF EdgeRow, IsRow, NoRow, s
  <2> HIDE DEF d
  <2>6. Draft(d, unitRows, lastRow)
    BY <2>1, <2>4, <2>5 DEF Draft
  <2> QED BY <2>1, <2>5, <2>6 DEF d
<1>4. IsFiniteSet(rows)
  <2> HIDE DEF m
  <2> QED BY ParsedContent, FiniteImage
<1>5. \A d \in rows : Draft(d, unitRows, lastRow) /\ d.repo = r /\ d.kind # "kafka_flow" /\ d.conf = d.base
  BY <1>3
<1> HIDE DEF rows
<1>6. /\ top \in Nat /\ lastRow <= top /\ RowsOK(edgeRows', unitRows, top)
      /\ \A d \in Numbered(rows) : d.id \notin 1 .. lastRow /\ \E e \in rows : Like(d, e)
  BY <1>1, <1>2, <1>4, <1>5, RowsAdded
<1> HIDE DEF top
<1>7. \A d \in Numbered(rows) : d.id \notin 1 .. lastRow /\ d.kind # "kafka_flow" /\ d.repo = r /\ d.conf = d.base
  BY <1>5, <1>6 DEF Like
<1>8. TablesInv'
  <2>1. UnitsOK(unitRows, top)
    BY <1>2, <1>6 DEF UnitsOK
  <2> QED BY <1>1, <1>6, <2>1 DEF TablesInv
<1>9. PassesInv'
  BY <1>1, PassesGoOn DEF Stages
<1>10. MutexInv' /\ (linkMu \in GRepos => stage'[linkMu] = stage[linkMu])
  BY <1>1, MutexApart DEF Linking, Stages
<1>11. RunInv'
  <2>1. Descends(edgeRows', edgeRows, lastRow)
    BY <1>1, <1>7 DEF Descends, Pointed
  <2> QED BY <1>1, <1>2, <1>6, <1>10, <2>1, RunGrows DEF RunInv, Grows
<1>12. FlowsInv'
  <2>1. stage'[r] \in Owing /\ \A x \in GRepos : x # r => stage'[x] = stage[x]
    BY <1>1 DEF PassesInv, Owing
  <2>2. \A a, b \in GRepos : \A n : a # r /\ b # r =>
            /\ Flowing(edgeRows', a, b, n) <=> Flowing(edgeRows, a, b, n)
            /\ Joined(edgeRows', a, b, n) <=> Joined(edgeRows, a, b, n)
    BY <1>1, <1>7 DEF Flowing, Joined, Has
  <2>3. FlowsOn(stage', broken, linkRun, edgeRows')
    BY <2>1, <2>2, FlowsCarried DEF FlowsInv
  <2> QED BY <1>1, <2>3 DEF FlowsInv
<1>13. ScoresInv'
  BY <1>1, <1>7 DEF ScoresInv, Scores, GoodConf
<1> QED BY <1>8, <1>9, <1>10, <1>11, <1>12, <1>13

LEMMA EdgesLostStep ==
    ASSUME GraphInv, NEW r \in GRepos, storeEdgesFails(r)
    PROVE  GraphInv'
<1> USE DEF GraphInv
<1>1. /\ stage[r] = "storeEdges" /\ stage' = [stage EXCEPT ![r] = "link"] /\ parsed' = parsed
      /\ unitRows' = unitRows /\ edgeRows' = edgeRows /\ lastRow' = lastRow
      /\ linkMu' = linkMu /\ linkRun' = linkRun /\ broken' = broken
  BY DEF storeEdgesFails, tableVars
<1>2. TablesInv' /\ ScoresInv'
  BY <1>1 DEF TablesInv, ScoresInv
<1>3. PassesInv'
  BY <1>1, PassesGoOn DEF Stages
<1>4. MutexInv' /\ (linkMu \in GRepos => stage'[linkMu] = stage[linkMu])
  BY <1>1, MutexApart DEF Linking, Stages
<1>5. RunInv'
  BY <1>1, <1>4 DEF RunInv
<1>6. FlowsInv'
  <2>1. stage'[r] \in Owing /\ \A x \in GRepos : x # r => stage'[x] = stage[x]
    BY <1>1 DEF PassesInv, Owing
  <2>2. FlowsOn(stage', broken, linkRun, edgeRows)
    BY <2>1, FlowsCarried DEF FlowsInv
  <2> QED BY <1>1, <2>2 DEF FlowsInv
<1> QED BY <1>2, <1>3, <1>4, <1>5, <1>6

-----------------------------------------------------------------------------
(* The linker run *)

LEMMA Rated ==
    ASSUME NEW e, NEW t \in {ConfExact, ConfHigh, ConfHeuristic}
    PROVE  GoodConf(confidenceAfterResolve(e, t), e.base)
  BY Zenon DEF GoodConf, confidenceAfterResolve

(* Resolutions written back: only calls are, and with one tier of their base.           *)
LEMMA WrittenBack ==
    ASSUME NEW us, NEW last, RowsOK(edgeRows, us, last), ScoresInv, NEW w, BatchUpdateEdgeResolutions(w),
           \A e \in edgeRows : e.id \in DOMAIN w =>
               e.kind \in {"call", "rpc_call"} /\ GoodConf(w[e.id].conf, e.base)
    PROVE  /\ RowsOK(edgeRows', us, last) /\ Descends(edgeRows', edgeRows, last) /\ Scores(edgeRows')
           /\ \A a, b, n : /\ Flowing(edgeRows', a, b, n) <=> Flowing(edgeRows, a, b, n)
                           /\ Joined(edgeRows', a, b, n) <=> Joined(edgeRows, a, b, n)
<1> DEFINE m == [e \in edgeRows |-> IF e.id \in DOMAIN w
                                    THEN Rescored(e, w[e.id].dst, w[e.id].to, w[e.id].conf) ELSE e]
<1>1. edgeRows' = {m[e] : e \in edgeRows}
  BY DEF BatchUpdateEdgeResolutions, Rescored
<1>2. ASSUME NEW e \in edgeRows
      PROVE  /\ Pointed(m[e], e) /\ Draft(m[e], us, last)
             /\ m[e] = e \/ (e.kind \in {"call", "rpc_call"} /\ GoodConf(m[e].conf, e.base))
  <2>1. Draft(e, us, last)
    BY DEF RowsOK
  <2>2. CASE m[e] = e
    BY <2>1, <2>2 DEF Pointed
  <2>3. CASE e.id \in DOMAIN w
    <3>1. m[e] = Rescored(e, w[e.id].dst, w[e.id].to, w[e.id].conf)
      BY <2>3
    <3>2. IsRow(m[e]) /\ Pointed(m[e], e) /\ m[e].conf = w[e.id].conf
      BY <2>1, <3>1, Scored DEF Draft
    <3>3. e.kind \in {"call", "rpc_call"} /\ GoodConf(w[e.id].conf, e.base)
      BY <2>3
    <3> HIDE DEF m
    <3> QED BY <2>1, <3>2, <3>3 DEF Draft, Pointed
  <2> QED BY <2>2, <2>3
<1> HIDE DEF m
<1>3. /\ RowsOK(edgeRows', us, last) /\ Descends(edgeRows', edgeRows, last)
      /\ \A k, a, n : Has(edgeRows', k, a, n) <=> Has(edgeRows, k, a, n)
  <2> DEFINE D == edgeRows'
  <2>1. \A d \in D : \E e \in edgeRows : d = m[e]
    BY <1>1
  <2>2. \A e \in edgeRows : m[e] \in D /\ Pointed(m[e], e) /\ Draft(m[e], us, last)
    BY <1>1, <1>2
  <2> HIDE DEF D
  <2>3. /\ RowsOK(D, us, last) /\ Descends(D, edgeRows, last)
        /\ \A k, a, n : Has(D, k, a, n) <=> Has(edgeRows, k, a, n)
    BY <2>1, <2>2, RowsRewritten
  <2> QED BY <2>3 DEF D
<1>4. Scores(edgeRows')
  BY <1>1, <1>2 DEF ScoresInv, Scores, Pointed
<1>5. ASSUME NEW a, NEW b, NEW n PROVE Flowing(edgeRows', a, b, n) <=> Flowing(edgeRows, a, b, n)
  <2>1. \A e \in edgeRows : e.kind = "kafka_flow" => m[e] = e
    BY <1>2
  <2>2. \A e \in edgeRows : m[e].kind = e.kind
    BY <1>2 DEF Pointed
  <2> QED BY <1>1, <2>1, <2>2 DEF Flowing
<1> QED BY <1>3, <1>4, <1>5 DEF Joined

LEMMA LocalStep ==
    ASSUME GraphInv, NEW r \in GRepos, LinkLocal(r)
    PROVE  GraphInv'
<1> USE DEF GraphInv
<1> DEFINE targets == {u \in unitRows : u.repo = r /\ u.kind = "function"}
           Target(e) == CHOOSE u \in targets : u.name = e.name
           calls == {e \in OfKind({"call"}) : e.repo = r /\ \E u \in targets : u.name = e.name}
           open == {c \in calls : c.dst # Target(c).id}
           EdgeOf(i) == CHOOSE c \in calls : c.id = i
           w == [i \in {e.id : e \in open} |->
                   [dst |-> Target(EdgeOf(i)).id, to |-> r,
                    conf |-> confidenceAfterResolve(EdgeOf(i), ConfExact)]]
<1>1. /\ stage[r] = "link" /\ stage' = [stage EXCEPT ![r] = "refs"] /\ linkMu = NoRow /\ linkMu' = r
      /\ parsed' = parsed /\ unitRows' = unitRows /\ lastRow' = lastRow
      /\ linkRun' = NoRun /\ broken' = broken /\ BatchUpdateEdgeResolutions(w)
  BY DEF LinkLocal
<1>2. lastRow \in Nat /\ RowsOK(edgeRows, unitRows, lastRow) /\ UnitsOK(unitRows, lastRow)
  BY DEF TablesInv
<1>3. ASSUME NEW e \in edgeRows, e.id \in DOMAIN w
      PROVE  e.kind \in {"call", "rpc_call"} /\ GoodConf(w[e.id].conf, e.base)
  <2>1. PICK c \in open : c.id = e.id
    BY <1>3
  <2>2. c \in calls /\ c \in edgeRows /\ c.kind = "call"
    BY DEF OfKind
  <2>3. c = e
    BY <1>2, <2>1, <2>2 DEF RowsOK
  <2>4. EdgeOf(e.id) \in calls /\ EdgeOf(e.id).id = e.id
    BY <2>1, <2>2
  <2>5. EdgeOf(e.id) \in edgeRows
    BY <2>4 DEF OfKind
  <2>6. EdgeOf(e.id) = e
    <3> HIDE DEF EdgeOf, calls
    <3> QED BY <1>2, <2>4, <2>5 DEF RowsOK
  <2>7. w[e.id].conf = confidenceAfterResolve(EdgeOf(e.id), ConfExact)
    <3> HIDE DEF EdgeOf, Target, open
    <3> QED BY <2>1
  <2> HIDE DEF w, EdgeOf
  <2> QED BY <2>2, <2>3, <2>6, <2>7, Rated
<1> HIDE DEF w
<1>4. /\ RowsOK(edgeRows', unitRows, lastRow) /\ Descends(edgeRows', edgeRows, lastRow) /\ Scores(edgeRows')
      /\ \A a, b, n : /\ Flowing(edgeRows', a, b, n) <=> Flowing(edgeRows, a, b, n)
                      /\ Joined(edgeRows', a, b, n) <=> Joined(edgeRows, a, b, n)
  BY <1>1, <1>2, <1>3, WrittenBack
<1>5. TablesInv' /\ ScoresInv'
  BY <1>1, <1>2, <1>4 DEF TablesInv, ScoresInv
<1>6. PassesInv'
  BY <1>1, PassesGoOn DEF Stages, Linking
<1>7. MutexInv'
  BY <1>1, MutexHeld DEF Linking
<1>8. RunInv'
  BY <1>1, RunAtRest DEF RunInv
<1>9. FlowsInv'
  <2>1. linkRun = NoRun
    BY <1>1, CodeGraphAssumption DEF MutexInv
  <2>2. stage'[r] \in Owing /\ \A x \in GRepos : x # r => stage'[x] = stage[x]
    BY <1>1 DEF PassesInv, Owing
  <2>3. FlowsOn(stage', broken, NoRun, edgeRows')
    BY <1>4, <2>1, <2>2, FlowsCarried DEF FlowsInv
  <2> QED BY <1>1, <2>3 DEF FlowsInv
<1> QED BY <1>5, <1>6, <1>7, <1>8, <1>9

LEMMA ResolvedRow ==
    ASSUME NEW e, IsRow(e)
    PROVE  /\ IsRow(Resolved(e)) /\ Resolved(e).repo = e.repo /\ Resolved(e).src = e.src
           /\ Resolved(e).kind = e.kind
<1>1. \/ Resolved(e) = e
      \/ \E x, y : Resolved(e) = Retitled(e, x, y)
  BY DEF Resolved, Retitled
<1>2. CASE Resolved(e) = e
  BY <1>2
<1>3. CASE \E x, y : Resolved(e) = Retitled(e, x, y)
  <2>1. PICK x, y : Resolved(e) = Retitled(e, x, y)
    BY <1>3
  <2> QED BY <2>1, Renamed
<1> QED BY <1>1, <1>2, <1>3

LEMMA ReferencesStep ==
    ASSUME GraphInv, NEW r \in GRepos, resolveConfigRefs(r)
    PROVE  GraphInv'
<1> USE DEF GraphInv
<1> DEFINE topics == OfKind({"produces", "consumes"})
           moved == {e \in topics : Resolved(e) # e}
           dirty == {KeyOf(e) : e \in moved}
           groups == [k \in dirty |-> {Resolved(e) : e \in {t \in topics : KeyOf(t) = k}}]
           touched == {e.name : e \in moved} \cup {Resolved(e).name : e \in moved}
           h == linkRun'
<1>1. /\ linkMu = r /\ stage[r] = "refs" /\ stage' = [stage EXCEPT ![r] = "rewrite"] /\ linkMu' = r
      /\ parsed' = parsed /\ unitRows' = unitRows /\ edgeRows' = edgeRows /\ lastRow' = lastRow
      /\ broken' = broken /\ h = [NoRun EXCEPT !.groups = groups, !.dirty = dirty, !.touched = touched]
  BY DEF resolveConfigRefs, tableVars
<1>2. lastRow \in Nat /\ RowsOK(edgeRows, unitRows, lastRow)
  BY DEF TablesInv
<1>3. linkRun = NoRun
  BY <1>1 DEF RunInv, StageOK
<1>4. \A e \in topics : e \in edgeRows /\ e.kind \in TopicKinds /\ Draft(e, unitRows, lastRow)
  BY <1>2 DEF OfKind, TopicKinds, RowsOK
<1> HIDE DEF topics
<1>5. ASSUME NEW k \in dirty
      PROVE  /\ k.name \in touched /\ IsFiniteSet(groups[k])
             /\ \A d \in groups[k] : Draft(d, unitRows, lastRow) /\ d.kind \in TopicKinds /\ d.name \in touched
  <2> DEFINE here == {t \in topics : KeyOf(t) = k}
             f == [e \in edgeRows |-> Resolved(e)]
  <2>1. k.name \in touched
    BY DEF KeyOf
  <2>2. IsFiniteSet(groups[k])
    <3>1. here \in SUBSET edgeRows
      BY <1>4
    <3>2. IsFiniteSet(here)
      BY <1>2, <3>1, FS_Subset DEF RowsOK
    <3>3. groups[k] = {f[e] : e \in here}
      BY <3>1
    <3> HIDE DEF here, f, groups
    <3> QED BY <3>2, <3>3, FiniteImage
  <2>3. ASSUME NEW e \in here
        PROVE  /\ Draft(Resolved(e), unitRows, lastRow) /\ Resolved(e).kind \in TopicKinds
               /\ Resolved(e).name \in touched
    <3>1. Draft(e, unitRows, lastRow) /\ e.kind \in TopicKinds
      BY <1>4
    <3>2. Draft(Resolved(e), unitRows, lastRow) /\ Resolved(e).kind \in TopicKinds
      BY <3>1, ResolvedRow DEF Draft, TopicKinds
    <3>3. e.name = k.name
      BY DEF KeyOf
    <3>4. Resolved(e).name \in touched
      BY <2>1, <3>3
    <3> QED BY <3>2, <3>4
  <2> QED BY <2>1, <2>2, <2>3
<1> HIDE DEF groups, dirty, touched
<1>6. h = [groups |-> groups, dirty |-> dirty, pending |-> {}, touched |-> touched, writes |-> <<>>,
           affected |-> {}, flows |-> {}]
  BY <1>1 DEF NoRun
<1> HIDE DEF h
<1>7. /\ h.groups = groups /\ h.dirty = dirty /\ h.pending = {} /\ h.touched = touched /\ h.writes = <<>>
      /\ h.affected = {} /\ h.flows = {} /\ IsRun(h)
  BY <1>6 DEF IsRun
<1>8. DOMAIN groups = dirty
  BY DEF groups
<1>9. RunOn(h, unitRows, edgeRows, lastRow)
  <2>1. GroupsOK(h, unitRows, lastRow)
    BY <1>5, <1>7, <1>8 DEF GroupsOK
  <2>2. WritesOK(h.writes, edgeRows, lastRow)
    BY <1>7 DEF WritesOK
  <2>3. FlowsOK(h, unitRows, lastRow)
    BY <1>7, FS_EmptySet DEF FlowsOK
  <2> QED BY <1>7, <2>1, <2>2, <2>3 DEF RunOn
<1>10. TablesInv' /\ ScoresInv'
  BY <1>1 DEF TablesInv, ScoresInv
<1>11. PassesInv'
  BY <1>1, PassesGoOn DEF Stages, Linking
<1>12. MutexInv' /\ stage'[linkMu'] = "rewrite"
  BY <1>1, MutexHeld DEF Linking
<1>13. RunInv'
  BY <1>1, <1>7, <1>9, <1>12 DEF RunInv, StageOK, h
<1>14. FlowsInv'
  <2>1. stage'[r] \in Owing /\ \A x \in GRepos : x # r => stage'[x] = stage[x]
    BY <1>1 DEF PassesInv, Owing
  <2>2. NoRun.touched = {} /\ NoRun.affected = {} /\ NoRun.flows = {}
    BY DEF NoRun
  <2>3. FlowsOn(stage', broken, h, edgeRows)
    BY <1>3, <1>7, <2>1, <2>2, FlowsCarried DEF FlowsInv
  <2> QED BY <1>1, <2>3 DEF FlowsInv, h
<1> QED BY <1>10, <1>11, <1>12, <1>13, <1>14

(* A run that goes on with the groups it has read.                                      *)
Requeued(g, d, p) == [g EXCEPT !.dirty = d, !.pending = p]

SameReading(h, g) ==
    /\ h.groups = g.groups /\ h.touched = g.touched /\ h.writes = g.writes
    /\ h.affected = g.affected /\ h.flows = g.flows

LEMMA RequeuedRun ==
    ASSUME NEW g, IsRun(g), NEW d, NEW p
    PROVE  /\ IsRun(Requeued(g, d, p)) /\ SameReading(Requeued(g, d, p), g)
           /\ Requeued(g, d, p).dirty = d /\ Requeued(g, d, p).pending = p
<1> DEFINE h1 == [g EXCEPT !.dirty = d]
           h2 == [h1 EXCEPT !.pending = p]
<1>1. IsRun(h1) /\ SameReading(h1, g) /\ h1.dirty = d
  BY DEF IsRun, SameReading
<1>2. Requeued(g, d, p) = h2
  BY DEF Requeued
<1> HIDE DEF h1
<1>3. IsRun(h2) /\ SameReading(h2, h1) /\ h2.dirty = h1.dirty /\ h2.pending = p
  BY <1>1 DEF IsRun, SameReading
<1> HIDE DEF h2
<1> QED BY <1>1, <1>2, <1>3 DEF SameReading

LEMMA RunRequeued ==
    ASSUME NEW g, NEW us, NEW E, NEW last, RunOn(g, us, E, last), NEW d, NEW p,
           d \subseteq DOMAIN g.groups, p \subseteq DOMAIN g.groups
    PROVE  /\ RunOn(Requeued(g, d, p), us, E, last) /\ SameReading(Requeued(g, d, p), g)
           /\ \A s : s # "refs" /\ StageOK(s, g, E) => StageOK(s, Requeued(g, d, p), E)
<1> DEFINE h == Requeued(g, d, p)
<1>1. IsRun(h) /\ SameReading(h, g) /\ h.dirty = d /\ h.pending = p
  BY RequeuedRun DEF RunOn
<1> HIDE DEF h
<1>2. GroupsOK(h, us, last)
  BY <1>1 DEF RunOn, GroupsOK, SameReading
<1>3. FlowsOK(h, us, last)
  BY <1>1 DEF RunOn, FlowsOK, SameReading
<1>4. WritesOK(h.writes, E, last)
  BY <1>1 DEF RunOn, SameReading
<1>5. \A s : s # "refs" /\ StageOK(s, g, E) => StageOK(s, h, E)
  BY <1>1 DEF StageOK, SameReading
<1> QED BY <1>1, <1>2, <1>3, <1>4, <1>5 DEF RunOn, h

(* The stage, the units and the mutex stay as they are.                                 *)
LEMMA Staying ==
    ASSUME GraphInv, NEW r \in GRepos, linkMu = r, stage[r] = "rewrite", stage' = stage, parsed' = parsed,
           unitRows' = unitRows, linkMu' = linkMu
    PROVE  /\ PassesInv' /\ MutexInv' /\ stage[r] \in Owing /\ StageOK("rewrite", linkRun, edgeRows)
           /\ linkRun.affected = {} /\ linkRun.flows = {}
<1>1. PassesInv'
  BY DEF GraphInv, PassesInv
<1>2. MutexInv'
  BY CodeGraphAssumption DEF GraphInv, MutexInv
<1> QED BY <1>1, <1>2 DEF GraphInv, RunInv, StageOK, Owing

LEMMA GroupDeletedStep ==
    ASSUME GraphInv, NEW r \in GRepos, rewriteDelete(r)
    PROVE  GraphInv'
<1> USE DEF GraphInv
<1>1. PICK k \in linkRun.dirty :
         /\ linkMu = r /\ stage[r] = "rewrite" /\ stage' = stage /\ linkMu' = linkMu /\ parsed' = parsed
         /\ linkRun' = Requeued(linkRun, linkRun.dirty \ {k}, linkRun.pending \cup {k})
         /\ edgeRows' = {e \in edgeRows : ~(e.kind = k.kind /\ e.name = k.name)}
         /\ unitRows' = unitRows /\ lastRow' = lastRow /\ broken' = broken
  BY DEF rewriteDelete, DeleteEdgesByKindAndDst, Requeued
<1>2. lastRow \in Nat /\ RowsOK(edgeRows, unitRows, lastRow) /\ RunOn(linkRun, unitRows, edgeRows, lastRow)
  BY DEF TablesInv, RunInv
<1>3. RowsOK(edgeRows', unitRows, lastRow) /\ Descends(edgeRows', edgeRows, lastRow)
  BY <1>1, <1>2, RowsGo
<1>4. /\ PassesInv' /\ MutexInv' /\ stage[r] \in Owing /\ StageOK("rewrite", linkRun, edgeRows)
      /\ linkRun.affected = {} /\ linkRun.flows = {}
  BY <1>1, Staying
<1>5. TablesInv'
  BY <1>1, <1>3 DEF TablesInv
<1>6. k.name \in linkRun.touched /\ linkRun.dirty \ {k} \subseteq DOMAIN linkRun.groups
      /\ linkRun.pending \cup {k} \subseteq DOMAIN linkRun.groups
  BY <1>2 DEF RunOn, GroupsOK
<1>7. RunOn(linkRun', unitRows, edgeRows, lastRow) /\ SameReading(linkRun', linkRun)
      /\ StageOK("rewrite", linkRun', edgeRows)
  BY <1>1, <1>2, <1>4, <1>6, RunRequeued
<1>8. RunOn(linkRun', unitRows, edgeRows', lastRow) /\ StageOK("rewrite", linkRun', edgeRows')
  <2> DEFINE h == linkRun'
             D == edgeRows'
  <2>1. lastRow <= lastRow /\ Grows(unitRows, unitRows, lastRow)
    BY <1>2 DEF Grows
  <2>2. RunOn(h, unitRows, edgeRows, lastRow) /\ StageOK("rewrite", h, edgeRows)
        /\ Descends(D, edgeRows, lastRow)
    BY <1>3, <1>7
  <2> HIDE DEF h, D
  <2>3. RunOn(h, unitRows, D, lastRow) /\ StageOK("rewrite", h, D)
    BY <1>2, <2>1, <2>2, RunGrows
  <2> QED BY <2>3 DEF h, D
<1>9. RunInv'
  BY <1>1, <1>8 DEF RunInv
<1>10. FlowsInv'
  <2>1. \A a, b \in GRepos : \A n : n \notin linkRun.touched =>
            /\ Flowing(edgeRows', a, b, n) <=> Flowing(edgeRows, a, b, n)
            /\ Joined(edgeRows', a, b, n) <=> Joined(edgeRows, a, b, n)
    BY <1>1, <1>6 DEF Flowing, Joined, Has
  <2>2. FlowsOn(stage, broken, linkRun', edgeRows')
    BY <1>4, <1>7, <2>1, FlowsCarried DEF FlowsInv, SameReading
  <2> QED BY <1>1, <2>2 DEF FlowsInv
<1>11. ScoresInv'
  BY <1>1 DEF ScoresInv, Scores
<1> QED BY <1>4, <1>5, <1>9, <1>10, <1>11

(* A group given up: the tables stay.                                                   *)
LEMMA GroupDroppedStep ==
    ASSUME GraphInv, NEW r \in GRepos, rewriteDeleteFails(r) \/ rewriteInsertFails(r)
    PROVE  GraphInv'
<1> USE DEF GraphInv
<1>1. /\ linkMu = r /\ stage[r] = "rewrite" /\ stage' = stage /\ linkMu' = linkMu /\ parsed' = parsed
      /\ edgeRows' = edgeRows /\ unitRows' = unitRows /\ lastRow' = lastRow /\ broken' = broken
      /\ \E d, p : /\ d \subseteq linkRun.dirty /\ p \subseteq linkRun.pending
                   /\ linkRun' = Requeued(linkRun, d, p)
  <2>1. RunOn(linkRun, unitRows, edgeRows, lastRow)
    BY DEF RunInv
  <2>2. IsRun(linkRun)
    BY <2>1 DEF RunOn
  <2>3. \A d : [linkRun EXCEPT !.dirty = d] = Requeued(linkRun, d, linkRun.pending)
    BY <2>2 DEF IsRun, Requeued
  <2>4. \A p : [linkRun EXCEPT !.pending = p] = Requeued(linkRun, linkRun.dirty, p)
    BY <2>2 DEF IsRun, Requeued
  <2>5. CASE rewriteDeleteFails(r)
    BY <2>3, <2>5 DEF rewriteDeleteFails, tableVars
  <2>6. CASE rewriteInsertFails(r)
    BY <2>4, <2>6 DEF rewriteInsertFails, tableVars
  <2> QED BY <2>5, <2>6
<1>2. PICK d, p : d \subseteq linkRun.dirty /\ p \subseteq linkRun.pending /\ linkRun' = Requeued(linkRun, d, p)
  BY <1>1
<1>3. /\ PassesInv' /\ MutexInv' /\ stage[r] \in Owing /\ StageOK("rewrite", linkRun, edgeRows)
      /\ linkRun.affected = {} /\ linkRun.flows = {}
  BY <1>1, Staying
<1>4. RunOn(linkRun, unitRows, edgeRows, lastRow)
  BY DEF RunInv
<1>5. d \subseteq DOMAIN linkRun.groups /\ p \subseteq DOMAIN linkRun.groups
  BY <1>2, <1>4 DEF RunOn, GroupsOK
<1>6. RunOn(linkRun', unitRows, edgeRows, lastRow) /\ SameReading(linkRun', linkRun)
      /\ StageOK("rewrite", linkRun', edgeRows)
  BY <1>2, <1>3, <1>4, <1>5, RunRequeued
<1>7. TablesInv' /\ ScoresInv'
  BY <1>1 DEF TablesInv, ScoresInv
<1>8. RunInv'
  BY <1>1, <1>6 DEF RunInv
<1>9. FlowsInv'
  <2>1. FlowsOn(stage, broken, linkRun', edgeRows)
    BY <1>3, <1>6, FlowsCarried DEF FlowsInv, SameReading
  <2> QED BY <1>1, <2>1 DEF FlowsInv
<1> QED BY <1>3, <1>7, <1>8, <1>9

LEMMA GroupInsertedStep ==
    ASSUME GraphInv, NEW r \in GRepos, rewriteInsert(r)
    PROVE  GraphInv'
<1> USE DEF GraphInv
<1>1. PICK k \in linkRun.pending :
         /\ linkMu = r /\ stage[r] = "rewrite" /\ stage' = stage /\ linkMu' = linkMu /\ parsed' = parsed
         /\ linkRun' = [linkRun EXCEPT !.pending = linkRun.pending \ {k}]
         /\ edgeRows' = edgeRows \cup Numbered(linkRun.groups[k])
         /\ lastRow' = lastRow + Cardinality(linkRun.groups[k])
         /\ unitRows' = unitRows /\ broken' = broken
  BY DEF rewriteInsert, StoreEdgeRows
<1> DEFINE rows == linkRun.groups[k]
           top == lastRow + Cardinality(rows)
<1>2. /\ lastRow \in Nat /\ RowsOK(edgeRows, unitRows, lastRow) /\ UnitsOK(unitRows, lastRow)
      /\ RunOn(linkRun, unitRows, edgeRows, lastRow)
  BY DEF TablesInv, RunInv
<1>3. /\ IsFiniteSet(rows)
      /\ \A e \in rows : Draft(e, unitRows, lastRow) /\ e.kind \in TopicKinds /\ e.name \in linkRun.touched
  BY <1>2 DEF RunOn, GroupsOK
<1>4. linkRun' = Requeued(linkRun, linkRun.dirty, linkRun.pending \ {k})
  <2>1. IsRun(linkRun)
    BY <1>2 DEF RunOn
  <2> QED BY <1>1, <2>1 DEF IsRun, Requeued
<1>5. /\ linkRun.dirty \subseteq DOMAIN linkRun.groups
      /\ linkRun.pending \ {k} \subseteq DOMAIN linkRun.groups
  BY <1>2 DEF RunOn, GroupsOK
<1>6. /\ edgeRows' = edgeRows \cup Numbered(rows) /\ lastRow' = top
  BY <1>1
<1> HIDE DEF rows
<1>7. /\ top \in Nat /\ lastRow <= top /\ RowsOK(edgeRows', unitRows, top)
      /\ \A d \in Numbered(rows) : d.id \notin 1 .. lastRow /\ \E e \in rows : Like(d, e)
  BY <1>2, <1>3, <1>6, RowsAdded
<1> HIDE DEF top
<1>8. \A d \in Numbered(rows) : d.id \notin 1 .. lastRow /\ d.kind \in TopicKinds /\ d.name \in linkRun.touched
  BY <1>3, <1>7 DEF Like
<1>9. /\ PassesInv' /\ MutexInv' /\ stage[r] \in Owing /\ StageOK("rewrite", linkRun, edgeRows)
      /\ linkRun.affected = {} /\ linkRun.flows = {}
  BY <1>1, Staying
<1>10. RunOn(linkRun', unitRows, edgeRows, lastRow) /\ SameReading(linkRun', linkRun)
       /\ StageOK("rewrite", linkRun', edgeRows)
  BY <1>2, <1>4, <1>5, <1>9, RunRequeued
<1>11. TablesInv'
  <2>1. UnitsOK(unitRows, top)
    BY <1>2, <1>7 DEF UnitsOK
  <2> QED BY <1>1, <1>6, <1>7, <2>1 DEF TablesInv
<1>12. RunInv'
  <2>1. Descends(edgeRows', edgeRows, lastRow)
    BY <1>6, <1>8 DEF Descends, Pointed, TopicKinds
  <2>2. RunOn(linkRun', unitRows, edgeRows', top) /\ StageOK("rewrite", linkRun', edgeRows')
    BY <1>2, <1>7, <1>10, <2>1, RunGrows DEF Grows
  <2> QED BY <1>1, <1>6, <2>2 DEF RunInv
<1>13. FlowsInv'
  <2>1. \A a, b \in GRepos : \A n : n \notin linkRun.touched =>
            /\ Flowing(edgeRows', a, b, n) <=> Flowing(edgeRows, a, b, n)
            /\ Joined(edgeRows', a, b, n) <=> Joined(edgeRows, a, b, n)
    BY <1>6, <1>8 DEF Flowing, Joined, Has
  <2>2. FlowsOn(stage, broken, linkRun', edgeRows')
    BY <1>9, <1>10, <2>1, FlowsCarried DEF FlowsInv, SameReading
  <2> QED BY <1>1, <2>2 DEF FlowsInv
<1>14. ScoresInv'
  BY <1>6, <1>8 DEF ScoresInv, Scores, TopicKinds
<1> QED BY <1>9, <1>11, <1>12, <1>13, <1>14

LEMMA RpcTier ==
    ASSUME NEW us, NEW key
    PROVE  \/ rpcCandidates(us, key).cands = <<>>
           \/ rpcCandidates(us, key).conf \in {ConfExact, ConfHeuristic}
<1> DEFINE byMethod == Filter(us, LAMBDA u : u.method = key.method)
           exact == Filter(byMethod, LAMBDA u : key.svc # <<>> /\ u.svc = key.svc)
           suffix == Filter(byMethod, LAMBDA u : u.svc # key.svc /\ hasComponentSuffix(u.svc, key.svc))
<1>1. rpcCandidates(us, key) =
        CASE exact # <<>> -> Tier(exact)
          [] exact = <<>> /\ suffix # <<>> -> Tier(suffix)
          [] OTHER -> IF byMethod = <<>> THEN NoMatch
                      ELSE [cands |-> sortUnits(byMethod), conf |-> ConfHeuristic]
  BY DEF rpcCandidates
<1> HIDE DEF byMethod, exact, suffix
<1>2. \A g : Tier(g).conf \in {ConfExact, ConfHeuristic}
  BY DEF Tier
<1> QED BY <1>1, <1>2 DEF NoMatch

LEMMA DestinationRated ==
    ASSUME NEW e, GoodConf(e.conf, e.base), NEW w \in Destinations(e)
    PROVE  GoodConf(w.conf, e.base)
<1> DEFINE match == rpcCandidates(RpcUnits, [method |-> e.name.n, svc |-> e.name.path])
           To(u, conf) == [dst |-> u.id, to |-> u.at[1], conf |-> confidenceAfterResolve(e, conf)]
<1>1. match.cands = <<>> \/ match.conf \in {ConfExact, ConfHeuristic}
  BY RpcTier
<1>2. \/ match.cands = <<>> /\ w = [dst |-> NoRow, to |-> NoRow, conf |-> e.conf]
      \/ match.cands # <<>> /\ (w = To(match.cands[1], match.conf) \/ \E u : w = To(u, ConfHigh))
  <2> HIDE DEF match
  <2>1. Destinations(e) =
          IF match.cands = <<>> THEN {[dst |-> NoRow, to |-> NoRow, conf |-> e.conf]}
          ELSE {To(match.cands[1], match.conf)}
               \cup (IF match.conf <= ConfHeuristic /\ Len(match.cands) > 1
                     THEN {To(u, ConfHigh) : u \in ToSet(match.cands)} ELSE {})
    BY DEF Destinations, match
  <2> HIDE DEF To
  <2> QED BY <2>1
<1> HIDE DEF match
<1>3. CASE w.conf = e.conf
  BY <1>3
<1>4. CASE \E t \in {ConfExact, ConfHigh, ConfHeuristic} : w.conf = confidenceAfterResolve(e, t)
  BY <1>4, Rated
<1>5. \A u, c : To(u, c).conf = confidenceAfterResolve(e, c)
  OBVIOUS
<1> HIDE DEF To
<1> QED BY <1>1, <1>2, <1>3, <1>4, <1>5

LEMMA ContractsStep ==
    ASSUME GraphInv, NEW r \in GRepos, resolveContracts(r)
    PROVE  GraphInv'
<1> USE DEF GraphInv
<1> DEFINE open == {e \in OfKind({"rpc_call"}) : e.dst \notin UnitIds}
           EdgeOf(i) == CHOOSE e \in open : e.id = i
           h == linkRun'
<1>1. PICK w \in [{e.id : e \in open} -> UNION {Destinations(e) : e \in open}] :
        /\ \A i \in DOMAIN w : w[i] \in Destinations(EdgeOf(i))
        /\ h = [linkRun EXCEPT !.writes = w]
  BY DEF resolveContracts
<1>2. /\ linkMu = r /\ stage[r] = "rewrite" /\ stage' = [stage EXCEPT ![r] = "flush"] /\ linkMu' = r
      /\ parsed' = parsed /\ unitRows' = unitRows /\ edgeRows' = edgeRows /\ lastRow' = lastRow
      /\ broken' = broken
  BY DEF resolveContracts, tableVars
<1>3. RowsOK(edgeRows, unitRows, lastRow) /\ RunOn(linkRun, unitRows, edgeRows, lastRow)
      /\ StageOK("rewrite", linkRun, edgeRows)
  BY <1>2 DEF TablesInv, RunInv
<1>4. ASSUME NEW i \in DOMAIN w
      PROVE  /\ i \in 1 .. lastRow
             /\ \A e \in edgeRows : e.id = i => e.kind = "rpc_call" /\ GoodConf(w[i].conf, e.base)
  <2>1. DOMAIN w = {e.id : e \in open}
    BY <1>1
  <2>2. PICK c \in open : c.id = i
    BY <2>1
  <2>3. EdgeOf(i) \in open /\ EdgeOf(i).id = i
    BY <2>2
  <2>4. w[i] \in Destinations(EdgeOf(i))
    BY <1>1
  <2> DEFINE d == EdgeOf(i)
  <2> HIDE DEF d, EdgeOf
  <2>5. d \in edgeRows /\ d.kind = "rpc_call" /\ d.id = i
    BY <2>3 DEF OfKind, d
  <2>6. GoodConf(d.conf, d.base)
    BY <2>5 DEF ScoresInv, Scores
  <2>7. GoodConf(w[i].conf, d.base)
    BY <2>4, <2>6, DestinationRated DEF d
  <2>8. i \in 1 .. lastRow /\ \A e \in edgeRows : e.id = i => e = d
    BY <1>3, <2>5 DEF RowsOK
  <2> QED BY <2>5, <2>7, <2>8
<1>5. IsRun(h) /\ h.groups = linkRun.groups /\ h.dirty = linkRun.dirty /\ h.pending = linkRun.pending
      /\ h.touched = linkRun.touched /\ h.writes = w /\ h.affected = linkRun.affected
      /\ h.flows = linkRun.flows
  <2>1. IsRun(linkRun)
    BY <1>3 DEF RunOn
  <2> HIDE DEF h
  <2> QED BY <1>1, <2>1 DEF IsRun
<1> HIDE DEF h
<1>6. WritesOK(h.writes, edgeRows, lastRow)
  BY <1>4, <1>5 DEF WritesOK
<1>7. RunOn(h, unitRows, edgeRows, lastRow) /\ StageOK("flush", h, edgeRows)
  <2>1. GroupsOK(h, unitRows, lastRow) /\ FlowsOK(h, unitRows, lastRow)
    BY <1>3, <1>5 DEF RunOn, GroupsOK, FlowsOK
  <2> QED BY <1>3, <1>5, <1>6, <2>1 DEF RunOn, StageOK
<1>8. TablesInv' /\ ScoresInv'
  BY <1>2 DEF TablesInv, ScoresInv
<1>9. PassesInv'
  BY <1>2, PassesGoOn DEF Stages, Linking
<1>10. MutexInv' /\ stage'[linkMu'] = "flush"
  BY <1>2, MutexHeld DEF Linking
<1>11. RunInv'
  BY <1>2, <1>7, <1>10 DEF RunInv, h
<1>12. FlowsInv'
  <2>1. stage'[r] \in Owing /\ \A x \in GRepos : x # r => stage'[x] = stage[x]
    BY <1>2 DEF PassesInv, Owing
  <2>2. FlowsOn(stage', broken, h, edgeRows)
    BY <1>5, <2>1, FlowsCarried DEF FlowsInv
  <2> QED BY <1>2, <2>2 DEF FlowsInv, h
<1> QED BY <1>8, <1>9, <1>10, <1>11, <1>12

(* The batch of resolutions written, or given up.                                       *)
LEMMA FlushStep ==
    ASSUME GraphInv, NEW r \in GRepos, flushResolutions(r) \/ flushFails(r)
    PROVE  GraphInv'
<1> USE DEF GraphInv
<1> DEFINE h == linkRun'
           D == edgeRows'
<1>1. /\ linkMu = r /\ stage[r] = "flush" /\ stage' = [stage EXCEPT ![r] = "flows"] /\ linkMu' = r
      /\ parsed' = parsed /\ unitRows' = unitRows /\ lastRow' = lastRow
      /\ broken' = broken /\ h = [linkRun EXCEPT !.writes = <<>>]
      /\ D = edgeRows \/ BatchUpdateEdgeResolutions(linkRun.writes)
  BY DEF flushResolutions, flushFails, tableVars
<1>2. /\ lastRow \in Nat /\ RowsOK(edgeRows, unitRows, lastRow)
      /\ RunOn(linkRun, unitRows, edgeRows, lastRow) /\ StageOK("flush", linkRun, edgeRows)
  BY <1>1 DEF TablesInv, RunInv
<1>3. /\ RowsOK(D, unitRows, lastRow) /\ Descends(D, edgeRows, lastRow) /\ Scores(D)
      /\ \A a, b, n : /\ Flowing(D, a, b, n) <=> Flowing(edgeRows, a, b, n)
                      /\ Joined(D, a, b, n) <=> Joined(edgeRows, a, b, n)
  <2>1. CASE D = edgeRows
    <3> HIDE DEF D
    <3> QED BY <1>2, <2>1 DEF Descends, Pointed, ScoresInv
  <2>2. CASE BatchUpdateEdgeResolutions(linkRun.writes)
    <3>1. \A e \in edgeRows : e.id \in DOMAIN linkRun.writes =>
             e.kind \in {"call", "rpc_call"} /\ GoodConf(linkRun.writes[e.id].conf, e.base)
      BY <1>2 DEF RunOn, WritesOK
    <3> QED BY <1>2, <2>2, <3>1, WrittenBack
  <2> QED BY <1>1, <2>1, <2>2
<1>4. IsRun(h) /\ h.groups = linkRun.groups /\ h.dirty = linkRun.dirty /\ h.pending = linkRun.pending
      /\ h.touched = linkRun.touched /\ h.writes = <<>> /\ h.affected = linkRun.affected
      /\ h.flows = linkRun.flows
  <2>1. IsRun(linkRun)
    BY <1>2 DEF RunOn
  <2> HIDE DEF h
  <2> QED BY <1>1, <2>1 DEF IsRun
<1>5. TablesInv' /\ ScoresInv'
  BY <1>1, <1>3 DEF TablesInv, ScoresInv
<1>6. lastRow <= lastRow /\ Grows(unitRows, unitRows, lastRow)
  BY <1>2 DEF Grows
<1> HIDE DEF h, D
<1>7. RunOn(linkRun, unitRows, D, lastRow) /\ StageOK("flush", linkRun, D)
  BY <1>2, <1>3, <1>6, RunGrows
<1>8. RunOn(h, unitRows, D, lastRow) /\ StageOK("flows", h, D)
  <2>1. GroupsOK(h, unitRows, lastRow) /\ FlowsOK(h, unitRows, lastRow)
    BY <1>2, <1>4 DEF RunOn, GroupsOK, FlowsOK
  <2>2. WritesOK(h.writes, D, lastRow)
    BY <1>4 DEF WritesOK
  <2> QED BY <1>4, <1>7, <2>1, <2>2 DEF RunOn, StageOK
<1>9. PassesInv'
  BY <1>1, PassesGoOn DEF Stages, Linking
<1>10. MutexInv' /\ stage'[linkMu'] = "flows"
  BY <1>1, MutexHeld DEF Linking
<1>11. RunInv'
  BY <1>1, <1>8, <1>10 DEF RunInv, h, D
<1>12. FlowsInv'
  <2>1. stage'[r] \in Owing /\ \A x \in GRepos : x # r => stage'[x] = stage[x]
    BY <1>1 DEF PassesInv, Owing
  <2>2. FlowsOn(stage', broken, h, D)
    BY <1>3, <1>4, <2>1, FlowsCarried DEF FlowsInv
  <2> QED BY <1>1, <2>2 DEF FlowsInv, h, D
<1> QED BY <1>5, <1>9, <1>10, <1>11, <1>12

(* A repository has no part in a topic its run does not take for affected.              *)
LEMMA NotAffected ==
    ASSUME NEW r \in GRepos, NEW n, n \notin Affected(r)
    PROVE  /\ n \notin linkRun.touched
           /\ \A x : /\ ~Joined(edgeRows, r, x, n) /\ ~Joined(edgeRows, x, r, n)
                     /\ ~Flowing(edgeRows, r, x, n) /\ ~Flowing(edgeRows, x, r, n)
<1>1. n \notin linkRun.touched
  BY DEF Affected
<1>2. ~Has(edgeRows, "produces", r, n) /\ ~Has(edgeRows, "consumes", r, n)
  BY DEF Affected, OfKind, Has
<1>3. \A f \in edgeRows : f.kind = "kafka_flow" /\ f.name = n => f.repo # r /\ f.to # r
  BY DEF Affected, OfKind
<1> QED BY <1>1, <1>2, <1>3 DEF Joined, Flowing

LEMMA DerivedStep ==
    ASSUME GraphInv, NEW r \in GRepos, deriveKafkaFlows(r)
    PROVE  GraphInv'
<1> USE DEF GraphInv
<1> DEFINE A == Affected(r)
           pairs == {x \in OfKind({"produces"}) \X OfKind({"consumes"}) : x[1].name = x[2].name /\ x[1].name \in A}
           F == {FlowRow(pc[1], pc[2]) : pc \in pairs}
           h == linkRun'
<1>1. /\ linkMu = r /\ stage[r] = "flows" /\ stage' = [stage EXCEPT ![r] = "deleteFlows"] /\ linkMu' = r
      /\ parsed' = parsed /\ unitRows' = unitRows /\ edgeRows' = edgeRows /\ lastRow' = lastRow
      /\ broken' = broken /\ h = [linkRun EXCEPT !.affected = A, !.flows = F]
  BY DEF deriveKafkaFlows, tableVars
<1>2. /\ RowsOK(edgeRows, unitRows, lastRow) /\ RunOn(linkRun, unitRows, edgeRows, lastRow)
      /\ linkRun.affected = {} /\ linkRun.flows = {}
  BY <1>1 DEF TablesInv, RunInv, StageOK
<1>3. IsFiniteSet(F)
  <2> DEFINE f == [pc \in pairs |-> FlowRow(pc[1], pc[2])]
  <2>1. IsFiniteSet(edgeRows \X edgeRows)
    BY <1>2, FS_Product DEF RowsOK
  <2>2. pairs \in SUBSET (edgeRows \X edgeRows)
    BY DEF OfKind
  <2>3. IsFiniteSet(pairs)
    BY <2>1, <2>2, FS_Subset
  <2>4. F = {f[pc] : pc \in pairs}
    OBVIOUS
  <2> HIDE DEF pairs, f, F
  <2> QED BY <2>3, <2>4, FiniteImage
<1>4. ASSUME NEW p \in edgeRows, NEW c \in edgeRows
      PROVE  LET f == FlowRow(p, c)
             IN /\ f.kind = "kafka_flow" /\ f.repo = p.repo /\ f.to = c.repo /\ f.name = p.name
                /\ f.to \in GRepos /\ Draft(f, unitRows, lastRow)
  <2> DEFINE f == FlowRow(p, c)
  <2>1. Draft(p, unitRows, lastRow) /\ Draft(c, unitRows, lastRow)
    BY <1>2 DEF RowsOK
  <2>2. /\ p.repo \in GRepos /\ c.repo \in GRepos /\ p.src \in Nat
        /\ Homed(p.src, p.repo, unitRows, lastRow) /\ Homed(c.src, c.repo, unitRows, lastRow)
    BY <2>1 DEF Draft, IsRow
  <2>3. /\ f.kind = "kafka_flow" /\ f.repo = p.repo /\ f.to = c.repo /\ f.name = p.name
        /\ f.src = p.src /\ f.dst = c.src /\ IsRow(f)
    BY <2>2 DEF FlowRow, IsRow, NoRow
  <2> HIDE DEF f
  <2>4. Draft(f, unitRows, lastRow)
    BY <2>2, <2>3 DEF Draft
  <2> QED BY <2>2, <2>3, <2>4 DEF f
<1>5. ASSUME NEW f \in F
      PROVE  \E p, c \in edgeRows : /\ p.kind = "produces" /\ c.kind = "consumes" /\ p.name = c.name
                                    /\ p.name \in A /\ f = FlowRow(p, c)
  BY DEF OfKind
<1>6. ASSUME NEW p \in edgeRows, NEW c \in edgeRows, p.kind = "produces", c.kind = "consumes",
             p.name = c.name, p.name \in A
      PROVE  FlowRow(p, c) \in F
  <2>1. <<p, c>> \in pairs
    BY <1>6 DEF OfKind
  <2>2. FlowRow(<<p, c>>[1], <<p, c>>[2]) \in F
    BY <2>1
  <2> QED BY <2>2
<1> HIDE DEF F, pairs
<1>7. /\ IsRun(h) /\ h.groups = linkRun.groups /\ h.dirty = linkRun.dirty /\ h.pending = linkRun.pending
      /\ h.touched = linkRun.touched /\ h.writes = linkRun.writes /\ h.affected = A /\ h.flows = F
  <2> DEFINE h1 == [linkRun EXCEPT !.affected = A]
             h2 == [h1 EXCEPT !.flows = F]
  <2>1. IsRun(linkRun)
    BY <1>2 DEF RunOn
  <2>2. /\ IsRun(h1) /\ h1.groups = linkRun.groups /\ h1.dirty = linkRun.dirty
        /\ h1.pending = linkRun.pending /\ h1.touched = linkRun.touched /\ h1.writes = linkRun.writes
        /\ h1.affected = A
    <3> HIDE DEF A
    <3> QED BY <2>1 DEF IsRun
  <2>3. h = h2
    BY <1>1
  <2> HIDE DEF h1, h, A
  <2> QED BY <2>2, <2>3 DEF IsRun
<1> HIDE DEF h
<1>8. linkRun.touched \subseteq A
  BY DEF Affected
<1>9. \A a, b \in GRepos : \A n \in A : Flowing(F, a, b, n) <=> Joined(edgeRows, a, b, n)
  <2> SUFFICES ASSUME NEW a \in GRepos, NEW b \in GRepos, NEW n \in A
               PROVE  Flowing(F, a, b, n) <=> Joined(edgeRows, a, b, n)
    OBVIOUS
  <2> HIDE DEF A
  <2>1. ASSUME Flowing(F, a, b, n) PROVE Joined(edgeRows, a, b, n)
    <3>1. PICK f \in F : f.repo = a /\ f.name = n /\ f.to = b
      BY <2>1 DEF Flowing
    <3>2. PICK p, c \in edgeRows : /\ p.kind = "produces" /\ c.kind = "consumes" /\ p.name = c.name
                                   /\ f = FlowRow(p, c)
      BY <1>5
    <3>3. f.repo = p.repo /\ f.to = c.repo /\ f.name = p.name
      BY <1>4, <3>2
    <3> QED BY <3>1, <3>2, <3>3 DEF Joined, Has
  <2>2. ASSUME Joined(edgeRows, a, b, n) PROVE Flowing(F, a, b, n)
    <3>1. PICK p \in edgeRows : p.kind = "produces" /\ p.repo = a /\ p.name = n
      BY <2>2 DEF Joined, Has
    <3>2. PICK c \in edgeRows : c.kind = "consumes" /\ c.repo = b /\ c.name = n
      BY <2>2 DEF Joined, Has
    <3> DEFINE f == FlowRow(p, c)
    <3>3. f \in F
      BY <1>6, <3>1, <3>2
    <3>4. f.kind = "kafka_flow" /\ f.repo = p.repo /\ f.to = c.repo /\ f.name = p.name
      BY <1>4
    <3> HIDE DEF f
    <3> QED BY <3>1, <3>2, <3>3, <3>4 DEF Flowing
  <2> QED BY <2>1, <2>2
<1>10. RunOn(h, unitRows, edgeRows, lastRow) /\ StageOK("deleteFlows", h, edgeRows)
  <2>1. GroupsOK(h, unitRows, lastRow) /\ WritesOK(h.writes, edgeRows, lastRow)
    BY <1>2, <1>7 DEF RunOn, GroupsOK
  <2>2. \A f \in F : Draft(f, unitRows, lastRow) /\ f.kind = "kafka_flow" /\ f.name \in A /\ f.to \in GRepos
    <3> HIDE DEF A
    <3> QED BY <1>4, <1>5
  <2>3. FlowsOK(h, unitRows, lastRow)
    BY <1>3, <1>7, <2>2 DEF FlowsOK
  <2> QED BY <1>7, <1>8, <2>1, <2>3 DEF RunOn, StageOK
<1>11. TablesInv' /\ ScoresInv'
  BY <1>1 DEF TablesInv, ScoresInv
<1>12. PassesInv'
  BY <1>1, PassesGoOn DEF Stages, Linking
<1>13. MutexInv' /\ stage'[linkMu'] = "deleteFlows"
  BY <1>1, MutexHeld DEF Linking
<1>14. RunInv'
  BY <1>1, <1>10, <1>13 DEF RunInv, h
<1>15. FlowsInv'
  <2>1. \A x \in GRepos : x # r => stage'[x] = stage[x]
    BY <1>1 DEF PassesInv
  <2>2. SUFFICES ASSUME NEW a \in GRepos, NEW b \in GRepos, NEW n,
                        stage'[a] \notin Owing, stage'[b] \notin Owing
                 PROVE  /\ n \notin broken \cup h.touched \cup h.affected =>
                              (Flowing(edgeRows, a, b, n) <=> Joined(edgeRows, a, b, n))
                        /\ n \in h.affected => (Flowing(h.flows, a, b, n) <=> Joined(edgeRows, a, b, n))
    BY <1>1 DEF FlowsInv, FlowsOn, h
  <2>3. ASSUME n \in h.affected PROVE Flowing(h.flows, a, b, n) <=> Joined(edgeRows, a, b, n)
    <3> HIDE DEF A
    <3> QED BY <1>7, <1>9, <2>3
  <2>4. ASSUME n \notin broken \cup h.touched \cup h.affected
        PROVE  Flowing(edgeRows, a, b, n) <=> Joined(edgeRows, a, b, n)
    <3>1. n \notin Affected(r) /\ n \notin broken \cup linkRun.touched \cup linkRun.affected
      BY <1>2, <1>7, <2>4
    <3>2. CASE a = r \/ b = r
      BY <3>1, <3>2, NotAffected
    <3>3. CASE a # r /\ b # r
      <4>1. stage[a] \notin Owing /\ stage[b] \notin Owing
        BY <2>1, <2>2, <3>3
      <4> QED BY <3>1, <4>1 DEF FlowsInv, FlowsOn
    <3> QED BY <3>2, <3>3
  <2> QED BY <2>3, <2>4
<1> QED BY <1>11, <1>12, <1>13, <1>14, <1>15

LEMMA FlowsDeletedStep ==
    ASSUME GraphInv, NEW r \in GRepos, deleteFlows(r)
    PROVE  GraphInv'
<1> USE DEF GraphInv
<1> DEFINE D == edgeRows'
<1>1. /\ linkMu = r /\ stage[r] = "deleteFlows" /\ stage' = [stage EXCEPT ![r] = "storeFlows"] /\ linkMu' = r
      /\ parsed' = parsed /\ unitRows' = unitRows /\ lastRow' = lastRow /\ broken' = broken
      /\ linkRun' = linkRun
      /\ D = {e \in edgeRows : ~(e.kind = "kafka_flow" /\ e.name \in linkRun.affected)}
  BY DEF deleteFlows
<1>2. /\ lastRow \in Nat /\ RowsOK(edgeRows, unitRows, lastRow)
      /\ RunOn(linkRun, unitRows, edgeRows, lastRow) /\ StageOK("deleteFlows", linkRun, edgeRows)
  BY <1>1 DEF TablesInv, RunInv
<1>3. lastRow <= lastRow /\ Grows(unitRows, unitRows, lastRow)
  BY <1>2 DEF Grows
<1>4. D \in SUBSET edgeRows
  BY <1>1
<1>5. TablesInv' /\ ScoresInv'
  BY <1>1, <1>2, <1>4, RowsGo DEF TablesInv, ScoresInv, Scores
<1> HIDE DEF D
<1>6. Descends(D, edgeRows, lastRow)
  BY <1>2, <1>4, RowsGo
<1>7. RunOn(linkRun, unitRows, D, lastRow)
  BY <1>2, <1>3, <1>6, RunGrows
<1>8. StageOK("storeFlows", linkRun, D)
  BY <1>1, <1>2 DEF StageOK
<1>9. PassesInv'
  BY <1>1, PassesGoOn DEF Stages, Linking
<1>10. MutexInv' /\ stage'[linkMu'] = "storeFlows"
  BY <1>1, MutexHeld DEF Linking
<1>11. RunInv'
  BY <1>1, <1>7, <1>8, <1>10 DEF RunInv, D
<1>12. FlowsInv'
  <2>1. \A x \in GRepos : stage'[x] \notin Owing => stage[x] \notin Owing
    BY <1>1 DEF PassesInv, Owing
  <2>2. \A a, b \in GRepos : \A n : Joined(D, a, b, n) <=> Joined(edgeRows, a, b, n)
    BY <1>1 DEF Joined, Has
  <2>3. \A a, b \in GRepos : \A n : n \notin linkRun.affected =>
           (Flowing(D, a, b, n) <=> Flowing(edgeRows, a, b, n))
    BY <1>1 DEF Flowing
  <2>4. FlowsOn(stage', broken, linkRun, D)
    BY <2>1, <2>2, <2>3 DEF FlowsInv, FlowsOn
  <2> QED BY <1>1, <2>4 DEF FlowsInv, D
<1> QED BY <1>5, <1>9, <1>10, <1>11, <1>12

(* The flows stored, all of them or in part.                                            *)
LEMMA FlowsStoredStep ==
    ASSUME GraphInv, NEW r \in GRepos, storeFlows(r) \/ storeFlowsInPart(r)
    PROVE  GraphInv'
<1> USE DEF GraphInv
<1>1. /\ linkMu = r /\ stage[r] = "storeFlows" /\ stage' = [stage EXCEPT ![r] = "idle"] /\ linkMu' = NoRow
      /\ parsed' = parsed /\ unitRows' = unitRows /\ linkRun' = NoRun
      /\ \E lost \in SUBSET linkRun.flows :
            /\ StoreEdgeRows(linkRun.flows \ lost)
            /\ broken' = (broken \ linkRun.affected) \cup {f.name : f \in lost}
  <2>1. CASE storeFlows(r)
    <3>1. {} \in SUBSET linkRun.flows /\ linkRun.flows \ {} = linkRun.flows
          /\ broken' = (broken \ linkRun.affected) \cup {f.name : f \in {}}
      BY <2>1 DEF storeFlows
    <3>2. StoreEdgeRows(linkRun.flows \ {})
      BY <2>1, <3>1 DEF storeFlows
    <3>3. \E lost \in SUBSET linkRun.flows :
             /\ StoreEdgeRows(linkRun.flows \ lost)
             /\ broken' = (broken \ linkRun.affected) \cup {f.name : f \in lost}
      BY <3>1, <3>2
    <3> QED BY <2>1, <3>3 DEF storeFlows, StoreEdgeRows
  <2>2. CASE storeFlowsInPart(r)
    BY <2>2 DEF storeFlowsInPart, StoreEdgeRows
  <2> QED BY <2>1, <2>2
<1>2. PICK lost \in SUBSET linkRun.flows :
         /\ StoreEdgeRows(linkRun.flows \ lost)
         /\ broken' = (broken \ linkRun.affected) \cup {f.name : f \in lost}
  BY <1>1
<1> DEFINE rows == linkRun.flows \ lost
           D == edgeRows'
           top == lastRow + Cardinality(rows)
<1>3. /\ lastRow \in Nat /\ RowsOK(edgeRows, unitRows, lastRow) /\ UnitsOK(unitRows, lastRow)
      /\ RunOn(linkRun, unitRows, edgeRows, lastRow) /\ StageOK("storeFlows", linkRun, edgeRows)
  BY <1>1 DEF TablesInv, RunInv
<1>4. D = edgeRows \cup Numbered(rows) /\ lastRow' = top
  BY <1>2 DEF StoreEdgeRows
<1>5. IsFiniteSet(rows) /\ \A f \in rows : Draft(f, unitRows, lastRow)
  <2>1. IsFiniteSet(linkRun.flows) /\ \A f \in linkRun.flows : Draft(f, unitRows, lastRow)
    BY <1>3 DEF RunOn, FlowsOK
  <2>2. rows \in SUBSET linkRun.flows
    OBVIOUS
  <2> HIDE DEF rows
  <2> QED BY <2>1, <2>2, FS_Subset
<1>6. \A f \in linkRun.flows : f.kind = "kafka_flow" /\ f.name \in linkRun.affected
  BY <1>3 DEF RunOn, FlowsOK
<1>7. \A f \in rows : f \in linkRun.flows
  OBVIOUS
<1>8. ASSUME NEW n, n \notin broken'
      PROVE  (n \notin linkRun.affected => n \notin broken) /\ \A f \in linkRun.flows : f.name = n => f \in rows
  BY <1>2, <1>8
<1> HIDE DEF rows, D
<1>9. /\ top \in Nat /\ lastRow <= top /\ RowsOK(D, unitRows, top)
      /\ \A d \in Numbered(rows) : d.id \notin 1 .. lastRow /\ \E e \in rows : Like(d, e)
      /\ \A e \in rows : \E d \in Numbered(rows) : Like(d, e)
  BY <1>3, <1>4, <1>5, RowsAdded
<1> HIDE DEF top
<1>10. TablesInv'
  <2>1. UnitsOK(unitRows, top)
    BY <1>3, <1>9 DEF UnitsOK
  <2> QED BY <1>1, <1>4, <1>9, <2>1 DEF TablesInv, D
<1>11. PassesInv'
  BY <1>1, PassesGoOn DEF Stages
<1>12. MutexInv'
  BY <1>1, MutexFreed
<1>13. RunInv'
  BY <1>1, RunAtRest, CodeGraphAssumption DEF RunInv
<1>14. \A d \in Numbered(rows) : d.kind = "kafka_flow" /\ d.name \in linkRun.affected
  BY <1>6, <1>7, <1>9 DEF Like
<1>15. ScoresInv'
  BY <1>4, <1>14 DEF ScoresInv, Scores, D
<1>16. FlowsInv'
  <2>1. \A x \in GRepos : stage'[x] \notin Owing => stage[x] \notin Owing
    BY <1>1 DEF PassesInv, Owing
  <2>2. SUFFICES ASSUME NEW a \in GRepos, NEW b \in GRepos, NEW n,
                        stage'[a] \notin Owing, stage'[b] \notin Owing, n \notin broken'
                 PROVE  Flowing(D, a, b, n) <=> Joined(D, a, b, n)
    BY <1>1 DEF FlowsInv, FlowsOn, D, NoRun
  <2>3. Joined(D, a, b, n) <=> Joined(edgeRows, a, b, n)
    BY <1>4, <1>14 DEF Joined, Has
  <2>4. stage[a] \notin Owing /\ stage[b] \notin Owing
    BY <2>1, <2>2
  <2>5. CASE n \in linkRun.affected
    <3>1. Flowing(linkRun.flows, a, b, n) <=> Joined(edgeRows, a, b, n)
      BY <2>4, <2>5 DEF FlowsInv, FlowsOn
    <3>2. \A e \in edgeRows : ~(e.kind = "kafka_flow" /\ e.name = n)
      BY <1>3, <2>5 DEF StageOK
    <3>3. \A f \in linkRun.flows : f.name = n => f \in rows
      BY <1>8, <2>2
    <3>4. ASSUME Flowing(D, a, b, n) PROVE Flowing(linkRun.flows, a, b, n)
      <4>1. PICK d \in Numbered(rows) : d.kind = "kafka_flow" /\ d.repo = a /\ d.name = n /\ d.to = b
        BY <1>4, <3>2, <3>4 DEF Flowing
      <4>2. PICK f \in rows : Like(d, f)
        BY <1>9
      <4> QED BY <1>7, <4>1, <4>2 DEF Flowing, Like
    <3>5. ASSUME Flowing(linkRun.flows, a, b, n) PROVE Flowing(D, a, b, n)
      <4>1. PICK f \in linkRun.flows : f.kind = "kafka_flow" /\ f.repo = a /\ f.name = n /\ f.to = b
        BY <3>5 DEF Flowing
      <4>2. PICK d \in Numbered(rows) : Like(d, f)
        BY <1>9, <3>3, <4>1
      <4>3. d \in D
        BY <1>4
      <4> QED BY <4>1, <4>2, <4>3 DEF Flowing, Like
    <3> QED BY <2>3, <3>1, <3>4, <3>5
  <2>6. CASE n \notin linkRun.affected
    <3>1. n \notin broken \cup linkRun.touched \cup linkRun.affected
      BY <1>3, <1>8, <2>2, <2>6 DEF StageOK
    <3>2. Flowing(edgeRows, a, b, n) <=> Joined(edgeRows, a, b, n)
      BY <2>4, <3>1 DEF FlowsInv, FlowsOn
    <3>3. Flowing(D, a, b, n) <=> Flowing(edgeRows, a, b, n)
      BY <1>4, <1>14, <2>6 DEF Flowing
    <3> QED BY <2>3, <3>2, <3>3
  <2> QED BY <2>5, <2>6
<1> QED BY <1>10, <1>11, <1>12, <1>13, <1>15, <1>16

LEMMA LinkFailsStep ==
    ASSUME GraphInv, NEW r \in GRepos, LinkFails(r)
    PROVE  GraphInv'
<1> USE DEF GraphInv
<1>1. /\ linkMu = NoRow \/ linkMu = r
      /\ stage' = [stage EXCEPT ![r] = "idle"] /\ linkMu' = NoRow /\ linkRun' = NoRun
      /\ parsed' = parsed /\ unitRows' = unitRows /\ edgeRows' = edgeRows /\ lastRow' = lastRow
      /\ broken' = broken \cup linkRun.touched \cup Affected(r) \cup linkRun.affected
  BY DEF LinkFails, MayFail, tableVars
<1>2. TablesInv' /\ ScoresInv'
  BY <1>1 DEF TablesInv, ScoresInv
<1>3. PassesInv'
  BY <1>1, PassesGoOn DEF Stages
<1>4. MutexInv'
  BY <1>1, MutexFreed
<1>5. RunInv'
  BY <1>1, RunAtRest, CodeGraphAssumption DEF RunInv
<1>6. FlowsInv'
  <2>1. \A x \in GRepos : x # r => stage'[x] = stage[x]
    BY <1>1 DEF PassesInv
  <2>2. SUFFICES ASSUME NEW a \in GRepos, NEW b \in GRepos, NEW n,
                        stage'[a] \notin Owing, stage'[b] \notin Owing, n \notin broken'
                 PROVE  Flowing(edgeRows, a, b, n) <=> Joined(edgeRows, a, b, n)
    BY <1>1 DEF FlowsInv, FlowsOn, NoRun
  <2>3. n \notin Affected(r) /\ n \notin broken \cup linkRun.touched \cup linkRun.affected
    BY <1>1, <2>2
  <2>4. CASE a = r \/ b = r
    BY <2>3, <2>4, NotAffected
  <2>5. CASE a # r /\ b # r
    <3>1. stage[a] \notin Owing /\ stage[b] \notin Owing
      BY <2>1, <2>2, <2>5
    <3> QED BY <2>3, <3>1 DEF FlowsInv, FlowsOn
  <2> QED BY <2>4, <2>5
<1> QED BY <1>2, <1>3, <1>4, <1>5, <1>6

-----------------------------------------------------------------------------
(* Every step, and what it comes to *)

LEMMA GraphStep == GraphInv /\ [GraphNext]_graphVars => GraphInv'
<1> SUFFICES ASSUME GraphInv, [GraphNext]_graphVars PROVE GraphInv'
  OBVIOUS
<1>1. CASE UNCHANGED graphVars
  BY <1>1 DEF graphVars, GraphInv, TablesInv, PassesInv, MutexInv, RunInv, FlowsInv, ScoresInv
<1>2. ASSUME NEW r \in GRepos,
             \/ deleteWindowUnits(r)
             \/ deleteWindowEdges(r)
             \/ storeUnits(r)
             \/ storeEdges(r)
             \/ storeEdgesFails(r)
             \/ LinkLocal(r)
             \/ resolveConfigRefs(r)
             \/ rewriteDelete(r)
             \/ rewriteDeleteFails(r)
             \/ rewriteInsert(r)
             \/ rewriteInsertFails(r)
             \/ resolveContracts(r)
             \/ flushResolutions(r)
             \/ flushFails(r)
             \/ deriveKafkaFlows(r)
             \/ deleteFlows(r)
             \/ storeFlows(r)
             \/ storeFlowsInPart(r)
             \/ LinkFails(r)
      PROVE  GraphInv'
  <2>1. CASE deleteWindowUnits(r)
    BY <2>1, UnitsDeletedStep
  <2>2. CASE deleteWindowEdges(r)
    BY <2>2, EdgesDeletedStep
  <2>3. CASE storeUnits(r)
    BY <2>3, UnitsStoredStep
  <2>4. CASE storeEdges(r)
    BY <2>4, EdgesStoredStep
  <2>5. CASE storeEdgesFails(r)
    BY <2>5, EdgesLostStep
  <2>6. CASE LinkLocal(r)
    BY <2>6, LocalStep
  <2>7. CASE resolveConfigRefs(r)
    BY <2>7, ReferencesStep
  <2>8. CASE rewriteDelete(r)
    BY <2>8, GroupDeletedStep
  <2>9. CASE rewriteDeleteFails(r) \/ rewriteInsertFails(r)
    BY <2>9, GroupDroppedStep
  <2>10. CASE rewriteInsert(r)
    BY <2>10, GroupInsertedStep
  <2>11. CASE resolveContracts(r)
    BY <2>11, ContractsStep
  <2>12. CASE flushResolutions(r) \/ flushFails(r)
    BY <2>12, FlushStep
  <2>13. CASE deriveKafkaFlows(r)
    BY <2>13, DerivedStep
  <2>14. CASE deleteFlows(r)
    BY <2>14, FlowsDeletedStep
  <2>15. CASE storeFlows(r) \/ storeFlowsInPart(r)
    BY <2>15, FlowsStoredStep
  <2>16. CASE LinkFails(r)
    BY <2>16, LinkFailsStep
  <2> QED BY <1>2, <2>1, <2>2, <2>3, <2>4, <2>5, <2>6, <2>7, <2>8, <2>9, <2>10, <2>11, <2>12, <2>13, <2>14,
             <2>15, <2>16
<1> QED BY <1>1, <1>2 DEF GraphNext

LEMMA GraphInvIsEnough == GraphInv => GraphSound
<1> SUFFICES ASSUME GraphInv PROVE GraphSound
  OBVIOUS
<1> USE DEF GraphInv
<1>1. ConfidenceDoesNotDecay
  BY DEF ScoresInv, Scores, GoodConf, ConfidenceDoesNotDecay, OfKind
<1>2. ASSUME AtRest
      PROVE  {p \in FlowPairs : p[2] # NoRow /\ p[3] \notin broken} = {p \in JoinPairs : p[3] \notin broken}
  <2>1. linkMu = NoRow /\ linkRun = NoRun
    BY <1>2 DEF AtRest, MutexInv, Linking
  <2>2. \A a, b \in GRepos : \A n : n \notin broken =>
           (Flowing(edgeRows, a, b, n) <=> Joined(edgeRows, a, b, n))
    BY <1>2, <2>1 DEF AtRest, FlowsInv, FlowsOn, Owing, NoRun
  <2>3. \A e \in edgeRows : e.repo \in GRepos /\ (e.kind = "kafka_flow" => e.to = NoRow \/ e.to \in GRepos)
    BY DEF TablesInv, RowsOK, Draft, IsRow
  <2>4. ASSUME NEW a, NEW b, NEW n, b # NoRow
        PROVE  <<a, b, n>> \in FlowPairs <=> a \in GRepos /\ b \in GRepos /\ Flowing(edgeRows, a, b, n)
    BY <2>3, <2>4 DEF FlowPairs, OfKind, Flowing
  <2>5. ASSUME NEW a, NEW b, NEW n
        PROVE  <<a, b, n>> \in JoinPairs <=> a \in GRepos /\ b \in GRepos /\ Joined(edgeRows, a, b, n)
    <3>1. ASSUME <<a, b, n>> \in JoinPairs
          PROVE  a \in GRepos /\ b \in GRepos /\ Joined(edgeRows, a, b, n)
      BY <2>3, <3>1 DEF JoinPairs, OfKind, Joined, Has
    <3>2. ASSUME Joined(edgeRows, a, b, n) PROVE <<a, b, n>> \in JoinPairs
      <4>1. PICK p \in edgeRows : p.kind = "produces" /\ p.repo = a /\ p.name = n
        BY <3>2 DEF Joined, Has
      <4>2. PICK c \in edgeRows : c.kind = "consumes" /\ c.repo = b /\ c.name = n
        BY <3>2 DEF Joined, Has
      <4> DEFINE x == <<p, c>>
      <4>3. x \in OfKind({"produces"}) \X OfKind({"consumes"}) /\ x[1].name = x[2].name
        BY <4>1, <4>2 DEF OfKind
      <4>4. <<x[1].repo, x[2].repo, x[1].name>> \in JoinPairs
        BY <4>3 DEF JoinPairs
      <4> QED BY <4>1, <4>2, <4>4
    <3> QED BY <3>1, <3>2
  <2>6. \A p \in FlowPairs : p = <<p[1], p[2], p[3]>>
    BY DEF FlowPairs
  <2>7. \A p \in JoinPairs : p = <<p[1], p[2], p[3]>>
    BY DEF JoinPairs
  <2>8. ASSUME NEW p \in FlowPairs, p[2] # NoRow, p[3] \notin broken PROVE p \in JoinPairs
    <3> DEFINE a == p[1]
               b == p[2]
               n == p[3]
    <3>1. p = <<a, b, n>> /\ b # NoRow /\ n \notin broken
      BY <2>6, <2>8
    <3> HIDE DEF a, b, n
    <3>2. <<a, b, n>> \in FlowPairs
      BY <3>1
    <3> QED BY <2>2, <2>4, <2>5, <3>1, <3>2
  <2>9. ASSUME NEW p \in JoinPairs, p[3] \notin broken PROVE p \in FlowPairs /\ p[2] # NoRow
    <3> DEFINE a == p[1]
               b == p[2]
               n == p[3]
    <3>1. p = <<a, b, n>> /\ n \notin broken
      BY <2>7, <2>9
    <3> HIDE DEF a, b, n
    <3>2. <<a, b, n>> \in JoinPairs
      BY <3>1
    <3>3. a \in GRepos /\ b \in GRepos /\ Joined(edgeRows, a, b, n) /\ b # NoRow
      BY <2>5, <3>2, CodeGraphAssumption
    <3>4. <<a, b, n>> \in FlowPairs
      BY <2>2, <2>4, <3>1, <3>3
    <3> QED BY <3>1, <3>3, <3>4 DEF b
  <2> QED BY <2>8, <2>9
<1> QED BY <1>1, <1>2 DEF GraphSound, ResolvedFlowsAreTheJoin

(* Linking, for any number of repositories, contents, passes and failures: once no pass *)
(* is under way, the flows of deriveKafkaFlows that have a destination are the join of  *)
(* the stored producers and consumers, except under topics whose flows a failed run     *)
(* left behind; and a score is its base times one tier, however often it was resolved   *)
(* (confidenceAfterResolve).                                                            *)
THEOREM GraphIsSound == GraphSpec => []GraphSound
<1>1. GraphSpec => []GraphInv
  BY GraphStarts, GraphStep, PTL DEF GraphSpec
<1> QED BY <1>1, GraphInvIsEnough, PTL

=============================================================================
